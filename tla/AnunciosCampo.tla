---------------------------- MODULE AnunciosCampo ----------------------------
(***************************************************************************)
(* Field work of the campaign's material (mod_anuncios): a route (the      *)
(* "modelo") is copied into plannings, and teams install and withdraw      *)
(* material at the points of a planning.                                   *)
(*                                                                         *)
(* Each HTTP request is one READ COMMITTED transaction; q \in RequisicoesCampo  *)
(* is a request in progress and pc[q] the statement it executes next.  The *)
(* three rows that are locked, a point, its planning and its route, are    *)
(* not variables: who holds them follows from the statement a request is   *)
(* at.  What a transaction writes is one step with its COMMIT, since every *)
(* row it writes was locked before.                                        *)
(*                                                                         *)
(* One route stands for every route: no transaction touches two of them.   *)
(* A point is named by its planning and its "ordem" (unique, migration     *)
(* 064).  Rejected and idempotent answers change nothing and are not       *)
(* steps of their own before a lock is held.                               *)
(***************************************************************************)
EXTENDS Integers, FiniteSets, FiniteSetsExt

CONSTANTS
    Planejamentos,   \* ids of rota_comunicacao_planejamento (bound)
    Ordens,          \* orders of the points of the route
    Posicoes,        \* orders of the points of a planning, Ordens and more (bound)
    Materiais,       \* materials planned at every point
    Inicial,         \* orders the route has at the start
    AInstalar,       \* quantities of a material that an installation reports (bound)
    ARetirar,        \* quantities that a withdrawal reports (bound)
    Chaves,          \* idempotency keys of one user, numbered (bound)
    MaxEdicoes,      \* edits of the route (bound)
    RequisicoesCampo,     \* requests in progress at the same time (bound)
    NadaCampo             \* NULL

ASSUME PosicoesOrdenadas == Ordens \subseteq Posicoes /\ Posicoes \subseteq Nat \ {0}
ASSUME RotaTemPontos == Inicial \subseteq Ordens /\ Inicial # {}
ASSUME QuantidadesNaturais == AInstalar \subseteq Nat /\ ARetirar \subseteq Nat
ASSUME ChavesNumeradas == Chaves \subseteq Nat
ASSUME EdicoesNaturais == MaxEdicoes \in Nat
ASSUME RequisicoesCampoContaveis == IsFiniteSet(RequisicoesCampo)
ASSUME NadaForaDosDominios == NadaCampo \notin Planejamentos \cup Posicoes \cup Chaves

VARIABLES
    modelo,      \* the route: version of its header, version and orders of its points
    plano,       \* planning -> its row
    ponto,       \* planning -> order -> its row and the totals of its materials
    execucao,    \* key -> the execution stored under it, with its movements
    pc,          \* request -> its next statement
    oper,        \* request -> what it does
    chave,       \* request -> its idempotency key
    alvo,        \* request -> planning it works on
    local,       \* request -> order of the point it works on
    linha,       \* request -> the row of that point it is going to commit
    novo,        \* request -> status it will write, "nada" when it writes none
    lido,        \* request -> version of the header it copied
    ids          \* request -> plannings it will synchronize

tabelas == <<modelo, plano, ponto, execucao>>
pedido == <<oper, chave, alvo, local, linha, novo, lido, ids>>
varsCampo == <<modelo, plano, ponto, execucao, pc, oper, chave, alvo, local, linha, novo, lido, ids>>

StatusPlano == {"PLANEJADA", "LIBERADA", "EM_EXECUCAO", "CONCLUIDA", "CANCELADA"}
StatusPonto == {"PENDENTE", "INSTALADO", "RECOLHIDO", "RECOLHIDO_PARCIALMENTE", "COM_EXTRAVIO"}
Versoes == 0..MaxEdicoes
Quantias == [Materiais -> Nat]
Zero == [m \in Materiais |-> 0]

\* Version of a point that was added during the execution.
Adicionado == MaxEdicoes + 1

Modelo == [nome : Versoes, versao : Versoes, ordens : SUBSET Ordens]

\* "quem" is history: who wrote the status last, "revivido" after an update put a
\* cancelled planning back to work.
Plano == [status : StatusPlano \cup {"nenhum"}, nome : Versoes,
          quem : {"admin", "execucao", "revivido"}]
Ponto == [status : StatusPonto \cup {"nenhum"}, versao : Versoes \cup {Adicionado},
          inst : Quantias, rec : Quantias, ext : Quantias]
Execucao == [tipo : {"nenhuma", "INSTALACAO", "RETIRADA"}, plano : Planejamentos \cup {NadaCampo},
             ordem : Posicoes \cup {NadaCampo}, inst : Quantias, rec : Quantias, ext : Quantias]

SemPlano == [status |-> "nenhum", nome |-> 0, quem |-> "admin"]
SemPonto == [status |-> "nenhum", versao |-> 0, inst |-> Zero, rec |-> Zero, ext |-> Zero]
SemExecucao == [tipo |-> "nenhuma", plano |-> NadaCampo, ordem |-> NadaCampo,
                inst |-> Zero, rec |-> Zero, ext |-> Zero]
PontoDoModelo(v) == [SemPonto EXCEPT !.status = "PENDENTE", !.versao = v]

PassosCampo == {"livre", "plano", "rota", "executar", "confirmar", "copiar", "gravar",
           "substituir", "travarPontos", "travarPlanos", "sincronizar"}
Operacoes == {"nenhuma", "instalar", "manual", "retirar", "planejar", "alterar", "nome", "pontos"}

TypeOKCampo ==
    /\ modelo \in Modelo
    /\ plano \in [Planejamentos -> Plano]
    /\ ponto \in [Planejamentos -> [Posicoes -> Ponto]]
    /\ execucao \in [Chaves -> Execucao]
    /\ pc \in [RequisicoesCampo -> PassosCampo]
    /\ oper \in [RequisicoesCampo -> Operacoes]
    /\ chave \in [RequisicoesCampo -> Chaves \cup {NadaCampo}]
    /\ alvo \in [RequisicoesCampo -> Planejamentos \cup {NadaCampo}]
    /\ local \in [RequisicoesCampo -> Posicoes \cup {NadaCampo}]
    /\ linha \in [RequisicoesCampo -> Ponto]
    /\ novo \in [RequisicoesCampo -> StatusPlano \cup {"nada"}]
    /\ lido \in [RequisicoesCampo -> Versoes]
    /\ ids \in [RequisicoesCampo -> SUBSET Planejamentos]

(***************************************************************************)
(* What the queries see.                                                   *)
(***************************************************************************)
ExisteCampo(p) == plano[p].status # "nenhum"
Pontos(p) == {o \in Posicoes : ponto[p][o].status # "nenhum"}

ExecucoesDe(p) == {k \in Chaves : execucao[k].plano = p}
ExecucoesEm(p, o) == {k \in ExecucoesDe(p) : execucao[k].ordem = o}

\* Mutant: only the status says whether a planning was started.
NaoIniciadoPeloStatus(p) == plano[p].status \in {"PLANEJADA", "LIBERADA"}

\* Plannings that synchronize_unstarted_plannings selects.
NaoIniciado(p) == plano[p].status \in {"PLANEJADA", "LIBERADA"} /\ ExecucoesDe(p) = {}

\* Material still in the field at a point.
Saldo(pt, m) == pt.inst[m] - pt.rec[m] - pt.ext[m]
EmCampo(pt) == \E m \in Materiais : Saldo(pt, m) > 0

\* Mutant: a point with losses counts as finished.
PendenteSemExtravio(pt) == pt.status \in {"PENDENTE", "INSTALADO", "RECOLHIDO_PARCIALMENTE"}

\* The WHERE of the count in update_operation_statuses.
Pendente(pt) == \/ pt.status \in {"PENDENTE", "INSTALADO", "RECOLHIDO_PARCIALMENTE"}
                \/ pt.status = "COM_EXTRAVIO" /\ EmCampo(pt)

\* _validate_status_transition.
Permitidos(s) ==
    CASE s = "PLANEJADA" -> {"PLANEJADA", "LIBERADA", "CANCELADA"}
      [] s = "LIBERADA" -> {"LIBERADA", "CANCELADA"}
      [] s = "EM_EXECUCAO" -> {"EM_EXECUCAO", "CANCELADA"}
      [] OTHER -> {s}

\* Points whose origin is a row of the route: replace_route_points deletes these
\* rows, and ON DELETE SET NULL updates the points.
DoModelo(p) == {o \in Pontos(p) : ponto[p][o].versao = modelo.versao}

(***************************************************************************)
(* Rows held by the transactions in progress.                              *)
(***************************************************************************)
TemPonto(q, p, o) ==
    \/ /\ oper[q] \in {"instalar", "retirar"}
       /\ pc[q] \in {"plano", "rota", "executar", "confirmar"}
       /\ alvo[q] = p /\ local[q] = o
    \/ /\ oper[q] = "pontos"
       /\ pc[q] \in {"travarPontos", "travarPlanos", "sincronizar"}
       /\ o \in DoModelo(p)
    \/ /\ pc[q] \in {"travarPlanos", "sincronizar"}
       /\ p \in ids[q] /\ o \in Pontos(p)

TemPlano(q, p) ==
    \/ pc[q] \in {"rota", "executar", "confirmar"} /\ alvo[q] = p
    \/ pc[q] = "sincronizar" /\ p \in ids[q]

\* FOR UPDATE on the route, by an execution or by an edit.
TemRota(q) == pc[q] \in {"executar", "confirmar", "substituir", "travarPontos", "travarPlanos",
                         "sincronizar"}

\* FOR SHARE on the route, by the copy into a planning.
TemCopia(q) == pc[q] = "copiar"

Outras(q) == RequisicoesCampo \ {q}
PontoLivre(q, p, o) == \A s \in Outras(q) : ~TemPonto(s, p, o)
PlanoLivre(q, p) == \A s \in Outras(q) : ~TemPlano(s, p)
RotaLivre(q) == \A s \in Outras(q) : ~TemRota(s) /\ ~TemCopia(s)

(***************************************************************************)
(* Steps of a request.                                                     *)
(***************************************************************************)
Segue(q, passo) == /\ pc' = [pc EXCEPT ![q] = passo]
                   /\ UNCHANGED pedido

\* COMMIT or ROLLBACK: the locks go with the request.
Libera(q) ==
    /\ pc' = [pc EXCEPT ![q] = "livre"]
    /\ oper' = [oper EXCEPT ![q] = "nenhuma"]
    /\ chave' = [chave EXCEPT ![q] = NadaCampo]
    /\ alvo' = [alvo EXCEPT ![q] = NadaCampo]
    /\ local' = [local EXCEPT ![q] = NadaCampo]
    /\ linha' = [linha EXCEPT ![q] = SemPonto]
    /\ novo' = [novo EXCEPT ![q] = "nada"]
    /\ lido' = [lido EXCEPT ![q] = 0]
    /\ ids' = [ids EXCEPT ![q] = {}]

Recebe(q, passo, o, p) ==
    /\ pc[q] = "livre"
    /\ pc' = [pc EXCEPT ![q] = passo]
    /\ oper' = [oper EXCEPT ![q] = o]
    /\ alvo' = [alvo EXCEPT ![q] = p]

\* Bound: new keys are taken in order.  A retry repeats a key in progress; one that
\* repeats a stored key is answered without a change.
Usadas == {k \in Chaves : execucao[k].tipo # "nenhuma" \/ \E q \in RequisicoesCampo : chave[q] = k}
Oferecidas == {k \in Chaves : /\ execucao[k].tipo = "nenhuma"
                              /\ k \in Usadas \/ \A j \in Chaves \ Usadas : k <= j}

(***************************************************************************)
(* install and withdraw: the key is read without a lock, then the point,   *)
(* its planning and its route are locked by one SELECT ... FOR UPDATE, row *)
(* by row, and everything is read again under these locks.  The request    *)
(* enters with its first lock: until then it holds nothing and decides     *)
(* nothing that is not decided again.                                      *)
(***************************************************************************)
IniciarExecucao(q) ==
    \E o \in {"instalar", "retirar"}, k \in Oferecidas, p \in Planejamentos, l \in Posicoes :
        /\ l \in Pontos(p)
        /\ PontoLivre(q, p, l)
        /\ Recebe(q, "plano", o, p)
        /\ chave' = [chave EXCEPT ![q] = k]
        /\ local' = [local EXCEPT ![q] = l]
        /\ UNCHANGED <<tabelas, linha, novo, lido, ids>>

TravarPlano(q) ==
    /\ pc[q] = "plano"
    /\ PlanoLivre(q, alvo[q])
    /\ Segue(q, "rota")
    /\ UNCHANGED tabelas

TravarRota(q) ==
    /\ pc[q] = "rota"
    /\ RotaLivre(q)
    /\ Segue(q, "executar")
    /\ UNCHANGED tabelas

\* update_operation_statuses, for the points pts the planning has in the end.
SituacaoDoPlano(pts) ==
    IF \E o \in Posicoes : Pendente(pts[o]) THEN "EM_EXECUCAO" ELSE "CONCLUIDA"

Liberado(p) == plano[p].status \in {"LIBERADA", "EM_EXECUCAO"}

\* The second reading of the key.
ChaveNova(q) == execucao[chave[q]].tipo = "nenhuma"

\* The rows it is going to leave: the point pt at order o, and the status of the planning.
Preparar(q, o, pt) ==
    /\ pc' = [pc EXCEPT ![q] = "confirmar"]
    /\ local' = [local EXCEPT ![q] = o]
    /\ linha' = [linha EXCEPT ![q] = pt]
    /\ novo' = [novo EXCEPT ![q] = SituacaoDoPlano([ponto[alvo[q]] EXCEPT ![o] = pt])]
    /\ UNCHANGED <<tabelas, oper, chave, alvo, lido, ids>>

Mais(f, g) == [m \in Materiais |-> f[m] + g[m]]
Menos(f, g) == [m \in Materiais |-> f[m] - g[m]]

\* Mutant: a point that was installed can be installed again.
InstalarDeNovo(q) ==
    /\ pc[q] = "executar" /\ oper[q] = "instalar"
    /\ ChaveNova(q)
    /\ Liberado(alvo[q])
    /\ \E n \in [Materiais -> AInstalar] \ {Zero} :
          Preparar(q, local[q], [ponto[alvo[q]][local[q]] EXCEPT !.status = "INSTALADO",
                                                                !.inst = Mais(@, n)])

Instalar(q) ==
    LET pt == ponto[alvo[q]][local[q]]
    IN /\ pc[q] = "executar" /\ oper[q] = "instalar"
       /\ ChaveNova(q)
       /\ Liberado(alvo[q])
       /\ pt.status = "PENDENTE"
       /\ \E n \in [Materiais -> AInstalar] \ {Zero} :
             Preparar(q, local[q], [pt EXCEPT !.status = "INSTALADO", !.inst = Mais(@, n)])

SituacaoDaRetirada(pt) ==
    CASE \E m \in Materiais : pt.ext[m] > 0 -> "COM_EXTRAVIO"
      [] ~EmCampo(pt) -> "RECOLHIDO"
      [] OTHER -> "RECOLHIDO_PARCIALMENTE"

Retirar(q) ==
    LET pt == ponto[alvo[q]][local[q]]
    IN /\ pc[q] = "executar" /\ oper[q] = "retirar"
       /\ ChaveNova(q)
       /\ plano[alvo[q]].status = "EM_EXECUCAO"
       /\ pt.status \in {"INSTALADO", "RECOLHIDO_PARCIALMENTE", "COM_EXTRAVIO"}
       /\ \E r, e \in [Materiais -> ARetirar] :
             /\ Mais(r, e) # Zero
             /\ \A m \in Materiais : r[m] + e[m] <= Saldo(pt, m)
             /\ LET somado == [pt EXCEPT !.rec = Mais(@, r), !.ext = Mais(@, e)]
                IN Preparar(q, local[q], [somado EXCEPT !.status = SituacaoDaRetirada(somado)])

\* A refusal, the answer to a repeated key, or a failure of the photograph: the
\* transaction is rolled back.
RecusarCampo(q) ==
    /\ pc[q] = "executar"
    /\ Libera(q)
    /\ UNCHANGED tabelas

\* COMMIT, unless another transaction put its key into the unique index meanwhile.
Confirmar(q) ==
    LET p == alvo[q]
        antes == ponto[p][local[q]]
    IN /\ pc[q] = "confirmar"
       /\ ChaveNova(q)
       /\ execucao' = [execucao EXCEPT ![chave[q]] =
              [tipo |-> IF oper[q] = "retirar" THEN "RETIRADA" ELSE "INSTALACAO",
               plano |-> p, ordem |-> local[q], inst |-> Menos(linha[q].inst, antes.inst),
               rec |-> Menos(linha[q].rec, antes.rec), ext |-> Menos(linha[q].ext, antes.ext)]]
       /\ ponto' = [ponto EXCEPT ![p][local[q]] = linha[q]]
       /\ plano' = [plano EXCEPT ![p].status = novo[q], ![p].quem = "execucao"]
       /\ Libera(q)
       /\ UNCHANGED modelo

(***************************************************************************)
(* install_manual_point: the planning is locked, the point is inserted     *)
(* after the last one, and install goes on with it in the same             *)
(* transaction, reading key and status again.                              *)
(***************************************************************************)
IniciarManual(q) ==
    \E k \in Oferecidas, p \in Planejamentos :
        /\ Liberado(p)
        /\ PlanoLivre(q, p)
        /\ Recebe(q, "rota", "manual", p)
        /\ chave' = [chave EXCEPT ![q] = k]
        /\ UNCHANGED <<tabelas, local, linha, novo, lido, ids>>

Ultima(p) == {o \in Posicoes : \A n \in Pontos(p) : o > n}

InstalarManual(q) ==
    /\ pc[q] = "executar" /\ oper[q] = "manual"
    /\ ChaveNova(q)
    /\ Liberado(alvo[q])
    /\ \E o \in Ultima(alvo[q]), n \in [Materiais -> AInstalar] \ {Zero} :
          /\ \A l \in Ultima(alvo[q]) : o <= l
          /\ Preparar(q, o, [SemPonto EXCEPT !.status = "INSTALADO", !.versao = Adicionado,
                                             !.inst = n])

(***************************************************************************)
(* create_planning: FOR SHARE on the route, the header is copied, then the *)
(* points.                                                                 *)
(***************************************************************************)
SemEdicao(q) == \A s \in Outras(q) : ~TemRota(s)

CopiarCabecalho(q) ==
    \E p \in Planejamentos :
        /\ ~ExisteCampo(p)
        /\ \A s \in Outras(q) : alvo[s] # p
        /\ SemEdicao(q)
        /\ Recebe(q, "copiar", "planejar", p)
        /\ lido' = [lido EXCEPT ![q] = modelo.nome]
        /\ UNCHANGED <<tabelas, chave, local, linha, novo, ids>>

CopiarPontos(q) ==
    LET p == alvo[q]
    IN /\ pc[q] = "copiar"
       /\ plano' = [plano EXCEPT ![p] =
              [SemPlano EXCEPT !.status = "PLANEJADA", !.nome = lido[q]]]
       /\ ponto' = [ponto EXCEPT ![p] = [o \in Posicoes |->
              IF o \in modelo.ordens THEN PontoDoModelo(modelo.versao) ELSE SemPonto]]
       /\ Libera(q)
       /\ UNCHANGED <<modelo, execucao>>

(***************************************************************************)
(* update_planning: the row is read without a lock, the transition is      *)
(* validated against what was read, and the UPDATE writes the new status   *)
(* whatever the row holds by then.                                         *)
(***************************************************************************)
LerPlanejamento(q) ==
    \E p \in Planejamentos, s \in StatusPlano :
        /\ ExisteCampo(p)
        /\ s \in Permitidos(plano[p].status)
        /\ Recebe(q, "gravar", "alterar", p)
        /\ novo' = [novo EXCEPT ![q] = s]
        /\ UNCHANGED <<tabelas, chave, local, linha, lido, ids>>

Revive(p, s) == plano[p].quem = "revivido" \/ (plano[p].status = "CANCELADA" /\ s # "CANCELADA")

GravarPlanejamento(q) ==
    LET p == alvo[q]
    IN /\ pc[q] = "gravar"
       /\ PlanoLivre(q, p)
       /\ plano' = [plano EXCEPT ![p].status = novo[q],
                                 ![p].quem = IF Revive(p, novo[q]) THEN "revivido" ELSE "admin"]
       /\ Libera(q)
       /\ UNCHANGED <<modelo, ponto, execucao>>

(***************************************************************************)
(* update_route: FOR UPDATE on the route, the rows of the route, then      *)
(* synchronize_unstarted_plannings.                                        *)
(***************************************************************************)
Editando == {q \in RequisicoesCampo : oper[q] \in {"nome", "pontos"}}
Feitas == IF modelo.nome > modelo.versao THEN modelo.nome ELSE modelo.versao

\* The statement that reads the plannings follows the lock before it at once.
Listar(q, passo) ==
    /\ pc' = [pc EXCEPT ![q] = passo]
    /\ ids' = [ids EXCEPT ![q] = {p \in Planejamentos : NaoIniciado(p)}]

EditarNome(q) ==
    /\ Feitas + Cardinality(Editando) < MaxEdicoes   \* bound
    /\ pc[q] = "livre"
    /\ RotaLivre(q)
    /\ Listar(q, "travarPontos")
    /\ oper' = [oper EXCEPT ![q] = "nome"]
    /\ UNCHANGED <<tabelas, chave, alvo, local, linha, novo, lido>>

EditarPontos(q) ==
    /\ Feitas + Cardinality(Editando) < MaxEdicoes   \* bound
    /\ RotaLivre(q)
    /\ Recebe(q, "substituir", "pontos", NadaCampo)
    /\ UNCHANGED <<tabelas, chave, local, linha, novo, lido, ids>>

\* DELETE of the points of the route: their copies are updated, and stay locked.
SubstituirPontos(q) ==
    /\ pc[q] = "substituir"
    /\ \A p \in Planejamentos : \A o \in DoModelo(p) : PontoLivre(q, p, o)
    /\ Listar(q, "travarPontos")
    /\ UNCHANGED <<tabelas, oper, chave, alvo, local, linha, novo, lido>>

TravarPontos(q) ==
    /\ pc[q] = "travarPontos"
    /\ \A p \in ids[q] : \A o \in Pontos(p) : PontoLivre(q, p, o)
    /\ Segue(q, "travarPlanos")
    /\ UNCHANGED tabelas

\* No execution was stored since the list was read: the route is locked.  The status
\* may have changed.
Revalidados(q) == {p \in ids[q] : NaoIniciado(p)}

TravarPlanos(q) ==
    /\ pc[q] = "travarPlanos"
    /\ \A p \in Revalidados(q) : PlanoLivre(q, p)
    /\ pc' = [pc EXCEPT ![q] = "sincronizar"]
    /\ ids' = [ids EXCEPT ![q] = Revalidados(q)]
    /\ UNCHANGED <<tabelas, oper, chave, alvo, local, linha, novo, lido>>

\* The points of a planning after the synchronization with the orders ns.
Sincronizado(p, ns, v) ==
    [o \in Posicoes |-> IF o \notin ns THEN SemPonto
                        ELSE IF o \in Pontos(p)
                             THEN [ponto[p][o] EXCEPT !.versao = v, !.inst = Zero,
                                                      !.rec = Zero, !.ext = Zero]
                             ELSE PontoDoModelo(v)]

SincronizarNome(q) ==
    /\ pc[q] = "sincronizar" /\ oper[q] = "nome"
    /\ modelo' = [modelo EXCEPT !.nome = Feitas + 1]
    /\ plano' = [p \in Planejamentos |->
          IF p \in ids[q] THEN [plano[p] EXCEPT !.nome = Feitas + 1] ELSE plano[p]]
    /\ Libera(q)
    /\ UNCHANGED <<ponto, execucao>>

SincronizarPontos(q) ==
    /\ pc[q] = "sincronizar" /\ oper[q] = "pontos"
    /\ \E ns \in SUBSET Ordens \ {{}} :
          /\ modelo' = [modelo EXCEPT !.versao = Feitas + 1, !.ordens = ns]
          /\ ponto' = [p \in Planejamentos |->
                IF p \in ids[q] THEN Sincronizado(p, ns, Feitas + 1) ELSE ponto[p]]
    /\ plano' = [p \in Planejamentos |->
          IF p \in ids[q] THEN [plano[p] EXCEPT !.nome = modelo.nome] ELSE plano[p]]
    /\ Libera(q)
    /\ UNCHANGED execucao

(***************************************************************************)
(* Deadlocks.  PostgreSQL aborts a transaction that waits in a cycle.  One *)
(* member of a cycle holds the route, the others a planning or a point, so *)
(* that no cycle has more than three members.                              *)
(***************************************************************************)
EsperaPor(q, s) ==
    /\ s # q
    /\ \/ pc[q] \in {"plano", "gravar"} /\ TemPlano(s, alvo[q])
       \/ pc[q] = "rota" /\ (TemRota(s) \/ TemCopia(s))
       \/ pc[q] = "substituir" /\ \E p \in Planejamentos : \E o \in DoModelo(p) : TemPonto(s, p, o)
       \/ pc[q] = "travarPontos" /\ \E p \in ids[q] : \E o \in Pontos(p) : TemPonto(s, p, o)
       \/ pc[q] = "travarPlanos" /\ \E p \in Revalidados(q) : TemPlano(s, p)

Impasse(q) ==
    \E s \in RequisicoesCampo :
        /\ EsperaPor(q, s)
        /\ EsperaPor(s, q) \/ \E t \in RequisicoesCampo : EsperaPor(s, t) /\ EsperaPor(t, q)

QuebrarImpasse(q) ==
    /\ Impasse(q)
    /\ Libera(q)
    /\ UNCHANGED tabelas

(***************************************************************************)
(* Specification.                                                          *)
(***************************************************************************)
InitCampo ==
    /\ modelo \in [nome : {0}, versao : {0}, ordens : {Inicial}]
    /\ plano = [p \in Planejamentos |-> SemPlano]
    /\ ponto = [p \in Planejamentos |-> [o \in Posicoes |-> SemPonto]]
    /\ execucao = [k \in Chaves |-> SemExecucao]
    /\ pc = [q \in RequisicoesCampo |-> "livre"]
    /\ oper = [q \in RequisicoesCampo |-> "nenhuma"]
    /\ chave = [q \in RequisicoesCampo |-> NadaCampo]
    /\ alvo = [q \in RequisicoesCampo |-> NadaCampo]
    /\ local = [q \in RequisicoesCampo |-> NadaCampo]
    /\ linha = [q \in RequisicoesCampo |-> SemPonto]
    /\ novo = [q \in RequisicoesCampo |-> "nada"]
    /\ lido = [q \in RequisicoesCampo |-> 0]
    /\ ids = [q \in RequisicoesCampo |-> {}]

Iniciar(q) == \/ IniciarExecucao(q) \/ IniciarManual(q) \/ CopiarCabecalho(q)
              \/ LerPlanejamento(q) \/ EditarNome(q) \/ EditarPontos(q)

Executar(q) == Instalar(q) \/ Retirar(q) \/ InstalarManual(q) \/ Confirmar(q) \/ RecusarCampo(q)

\* The statements that may wait for a row.
Travar(q) == \/ TravarPlano(q) \/ TravarRota(q) \/ GravarPlanejamento(q)
             \/ SubstituirPontos(q) \/ TravarPontos(q) \/ TravarPlanos(q)

Concluir(q) == \/ Executar(q) \/ CopiarPontos(q) \/ SincronizarNome(q) \/ SincronizarPontos(q)

NextCampo == \E q \in RequisicoesCampo :
           Iniciar(q) \/ Travar(q) \/ Concluir(q) \/ QuebrarImpasse(q)

SpecCampo == InitCampo /\ [][NextCampo]_varsCampo

\* A handler that can go on goes on, PostgreSQL serves the waiters of a row in
\* turn, and its detector runs.
SpecJustaCampo == /\ SpecCampo
             /\ \A q \in RequisicoesCampo : /\ SF_varsCampo(Travar(q))
                                       /\ WF_varsCampo(Concluir(q))
                                       /\ WF_varsCampo(QuebrarImpasse(q))

(***************************************************************************)
(* Properties.                                                             *)
(***************************************************************************)
\* The totals of every material of a point are the sums of the movements of the
\* executions stored for it, and no more leaves the field than entered it:
\* repeated keys and simultaneous withdrawals never count twice.
Saldos(p, o) ==
    \A m \in Materiais :
        LET soma(f(_)) == MapThenSumSet(f, ExecucoesEm(p, o))
        IN /\ ponto[p][o].inst[m] = soma(LAMBDA k : execucao[k].inst[m])
           /\ ponto[p][o].rec[m] = soma(LAMBDA k : execucao[k].rec[m])
           /\ ponto[p][o].ext[m] = soma(LAMBDA k : execucao[k].ext[m])
           /\ Saldo(ponto[p][o], m) >= 0

\* A point was installed once, and its status says what its movements left there.
Situacao(p, o) ==
    LET pt == ponto[p][o]
        instalacoes == {k \in ExecucoesEm(p, o) : execucao[k].tipo = "INSTALACAO"}
        retiradas == ExecucoesEm(p, o) \ instalacoes
    IN CASE pt.status \in {"nenhum", "PENDENTE"} -> ExecucoesEm(p, o) = {}
         [] OTHER ->
              /\ Cardinality(instalacoes) = 1
              /\ pt.status = IF retiradas = {} THEN "INSTALADO" ELSE SituacaoDaRetirada(pt)

\* The balances and the status of every point are those of the executions stored
\* for it (create_execution), whatever teams and phones did at the same time.
PontoConfere == \A p \in Planejamentos, o \in Posicoes : Saldos(p, o) /\ Situacao(p, o)

\* The last execution of a planning that leaves nothing to install or withdraw
\* concludes it, even when teams finish different points at the same time; while
\* something is left the planning is not concluded by an execution.
ExecucaoConclui ==
    \A p \in Planejamentos :
        plano[p].quem = "execucao" =>
            plano[p].status =
                IF \A o \in Pontos(p) : ponto[p][o].inst # Zero /\ ~EmCampo(ponto[p][o])
                THEN "CONCLUIDA" ELSE "EM_EXECUCAO"

\* A planning that nobody started follows its route: header and points are those of
\* one and the same edition of the route.  (A planning cancelled and revived by a
\* stale update is the exception, see the README.)
NaoIniciadoAcompanha ==
    \A p \in Planejamentos :
        NaoIniciado(p) /\ plano[p].quem # "revivido" =>
            /\ plano[p].nome = modelo.nome
            /\ Pontos(p) = modelo.ordens
            /\ \A o \in Pontos(p) : ponto[p][o] = PontoDoModelo(modelo.versao)

\* What the header of a planning says is what its executions, or its route, say
\* (_persist_execution, synchronize_unstarted_plannings).
PlanejamentoConfere == ExecucaoConclui /\ NaoIniciadoAcompanha

\* Once a planning has an execution no edit of the route touches it: its header and
\* its points stay, and no execution is lost.
ExecutadoFica ==
    [][\A p \in Planejamentos : ExecucoesDe(p) # {} =>
          /\ plano'[p].nome = plano[p].nome
          /\ \A o \in Pontos(p) : /\ ponto'[p][o].status # "nenhum"
                                  /\ ponto'[p][o].versao = ponto[p][o].versao
          /\ \A k \in ExecucoesDe(p) : execucao'[k] = execucao[k]]_varsCampo

\* Nothing is installed or withdrawn in a planning that is not released, whenever
\* the status was read: a cancellation stops the field work.
SoLiberadoExecuta ==
    [][\A p \in Planejamentos :
          {k \in Chaves : execucao'[k].plano = p} # ExecucoesDe(p) => Liberado(p)]_varsCampo

\* Field work happens in released plannings only, and no edit takes it back.
ExecucaoConfere == ExecutadoFica /\ SoLiberadoExecuta

\* No request waits for ever, although the edit of a route and an execution lock the
\* route, the points and the planning in opposite orders.
TodaRequisicaoTermina == \A q \in RequisicoesCampo : pc[q] # "livre" ~> pc[q] = "livre"
=============================================================================
