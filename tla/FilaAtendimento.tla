--------------------------- MODULE FilaAtendimento ---------------------------
(***************************************************************************)
(* The operators' attendance queue (mod_comunicacao, "atendimento").       *)
(*                                                                         *)
(* Every HTTP request is one asynchronous handler over one PostgreSQL      *)
(* transaction in READ COMMITTED: it reads with separate statements,       *)
(* decides in Python and writes, and other requests run between any two of *)
(* its statements.  A request is a slot r \in Requisicoes whose program    *)
(* counter, req[r].passo, names the statement it executes next.  The       *)
(* writes of a transaction are one step with its COMMIT, since the rows    *)
(* written stay locked until then; the one transaction whose second        *)
(* statement can block after its first write (a resume) has two steps.     *)
(*                                                                         *)
(* The tables are functions of the row id, one variable per column the     *)
(* code branches on.                                                       *)
(***************************************************************************)
EXTENDS Integers, FiniteSets

CONSTANTS
    Operadores,      \* users with the profile "telefonista"
    Pessoas,         \* ids of cadastro.pessoa, in order of creation
    Iniciais,        \* the persons already registered at the start
    Atendimentos,    \* ids of comunicacao.atendimento_eleitor (bound)
    Telefones,       \* phone numbers, after normalisation
    Limites,         \* values of maximo_atendimentos_simultaneos in use
    Requisicoes,     \* requests in progress at the same time (bound)
    Nada             \* NULL

ASSUME PessoasOrdenadas == Pessoas \subseteq Nat /\ Iniciais \subseteq Pessoas
ASSUME IdsOrdenados == Atendimentos \subseteq Nat
ASSUME LimitesPositivos == Limites \subseteq 1..50
ASSUME NadaDistinto == Nada \notin Operadores \cup Pessoas \cup Atendimentos \cup Telefones

VARIABLES
    cadastro,     \* pessoa -> "inexistente", "ativo" or "inativo" (excluido_em set)
    telefone,     \* pessoa -> its phone contact or Nada
    situacao,     \* atendimento -> situacao, "inexistente" while the id is unused
    atendente,    \* atendimento -> atendente_usuario_id
    pessoaDe,     \* atendimento -> pessoa_id
    limite,       \* tenant preference maximo_atendimentos_simultaneos
    req           \* the requests in progress

tabelas == <<cadastro, telefone, situacao, atendente, pessoaDe>>
vars == <<cadastro, telefone, situacao, atendente, pessoaDe, limite, req>>

Definitivas == {"concluido", "numero_invalido"}
Retomaveis == {"sem_resposta", "interrompido"}
Encerradas == Definitivas \cup Retomaveis
Situacoes == Encerradas \cup {"em_atendimento", "inexistente"}

PassosComFila == {"limite", "fotografar", "travarPessoa", "inserir",
                  "telefone", "cadastrar", "reabrir", "reaberta"}
Passos == PassosComFila \cup {"ocioso", "verAtiva", "verAberto", "verTerminal", "travarFila",
                              "concedida", "fechar", "fechada", "invalidar"}
Tipos == {"sorteio", "manual", "retomada", "edicao"}

Ociosa == [passo |-> "ocioso", tipo |-> "nenhum", op |-> Nada, atend |-> Nada,
           pessoa |-> Nada, fone |-> Nada, eleg |-> {}, lim |-> 0, sit |-> "nenhuma"]

Requisicao == [passo : Passos, tipo : Tipos \cup {"nenhum"}, op : Operadores \cup {Nada},
               atend : Atendimentos \cup {Nada}, pessoa : Pessoas \cup {Nada},
               fone : Telefones \cup {Nada}, eleg : SUBSET Pessoas, lim : Limites \cup {0},
               sit : Encerradas \cup {"nenhuma"}]

TypeOK ==
    /\ cadastro \in [Pessoas -> {"inexistente", "ativo", "inativo"}]
    /\ telefone \in [Pessoas -> Telefones \cup {Nada}]
    /\ situacao \in [Atendimentos -> Situacoes]
    /\ atendente \in [Atendimentos -> Operadores \cup {Nada}]
    /\ pessoaDe \in [Atendimentos -> Pessoas \cup {Nada}]
    /\ limite \in Limites
    /\ req \in [Requisicoes -> Requisicao]

(***************************************************************************)
(* What the queries see.                                                   *)
(***************************************************************************)
Aberto(a) == situacao[a] = "em_atendimento"

AbertosDe(o) == {a \in Atendimentos : Aberto(a) /\ atendente[a] = o}

AbertosDaPessoa(p) == {a \in Atendimentos : Aberto(a) /\ pessoaDe[a] = p}

TemDefinitivo(p) == \E a \in Atendimentos : pessoaDe[a] = p /\ situacao[a] \in Definitivas

\* Rows that satisfy the WHERE of pick_eligible_person.
Elegivel(p) == cadastro[p] = "ativo" /\ AbertosDaPessoa(p) = {} /\ ~TemDefinitivo(p)

\* Rows that find_person_by_phone returns.
ComTelefone(f) == {p \in Pessoas : cadastro[p] = "ativo" /\ telefone[p] = f}

Livres == {a \in Atendimentos : situacao[a] = "inexistente"}
NovoId(a) == a \in Livres /\ \A b \in Livres : a <= b

\* Bound: a request that may open an attendance starts while ids remain for it.
Abrindo == {r \in Requisicoes : req[r].tipo \in {"sorteio", "manual"}}
HaIds == Cardinality(Livres) > Cardinality(Abrindo)
HaPessoas == Cardinality({p \in Pessoas : cadastro[p] = "inexistente"}) > Cardinality(Abrindo)

NovaPessoa(p) == /\ cadastro[p] = "inexistente"
                 /\ \A q \in Pessoas : cadastro[q] = "inexistente" => p <= q

(***************************************************************************)
(* Locks held by the transactions in progress.                             *)
(***************************************************************************)
\* Mutant: the advisory lock is forgotten.
FilaTravadaNunca(o) == FALSE
FilaTravada(o) == \E r \in Requisicoes : req[r].op = o /\ req[r].passo \in PassosComFila

\* FOR UPDATE on cadastro.pessoa, held from the draw to the COMMIT.
TravaPessoa(r, p) == req[r].passo = "inserir" /\ req[r].pessoa = p

PessoaTravada(p) == \E r \in Requisicoes : TravaPessoa(r, p)

\* Row of atendimento_eleitor updated and not yet committed: the row and the
\* person's entry in uq_atendimento_eleitor_pessoa_ativo make others wait.
EscritaPendente(r, a) == req[r].passo \in {"reaberta", "fechada"} /\ req[r].atend = a

LinhaLivre(a) == \A r \in Requisicoes : ~EscritaPendente(r, a)

IndiceLivre(p) == \A r \in Requisicoes, a \in Atendimentos :
                     EscritaPendente(r, a) => pessoaDe[a] # p

Terminar(r) == req' = [req EXCEPT ![r] = Ociosa]

Avancar(r, passo) == req' = [req EXCEPT ![r].passo = passo]

Abrir(a, o, p) ==
    /\ situacao' = [situacao EXCEPT ![a] = "em_atendimento"]
    /\ atendente' = [atendente EXCEPT ![a] = o]
    /\ pessoaDe' = [pessoaDe EXCEPT ![a] = p]

Init ==
    /\ cadastro = [p \in Pessoas |-> IF p \in Iniciais THEN "ativo" ELSE "inexistente"]
    /\ telefone \in [Pessoas -> Telefones \cup {Nada}]
    /\ \A p \in Pessoas \ Iniciais : telefone[p] = Nada
    /\ \A p, q \in Pessoas : telefone[p] = telefone[q] => p = q \/ telefone[p] = Nada
    /\ situacao = [a \in Atendimentos |-> "inexistente"]
    /\ atendente = [a \in Atendimentos |-> Nada]
    /\ pessoaDe = [a \in Atendimentos |-> Nada]
    /\ limite \in Limites
    /\ req = [r \in Requisicoes |-> Ociosa]

(***************************************************************************)
(* _prepare_start: take the operator's advisory lock, then compare the     *)
(* number of open attendances with the limit of the tenant.  A resume      *)
(* takes the same two steps later, after its own checks.                   *)
(***************************************************************************)
TravarFila(r, o, tipo) ==
    /\ req[r].passo = "ocioso"
    /\ HaIds
    /\ tipo = "manual" => HaPessoas
    /\ ~FilaTravada(o)
    /\ req' = [req EXCEPT ![r] = [Ociosa EXCEPT !.passo = "limite", !.tipo = tipo, !.op = o]]
    /\ UNCHANGED <<tabelas, limite>>

ProximoDoLimite(tipo) == CASE tipo = "sorteio" -> "fotografar"
                           [] tipo = "manual" -> "telefone"
                           [] OTHER -> "reabrir"

\* Mutant: wait for room instead of refusing.
LerLimiteEsperando(r) ==
    /\ req[r].passo = "limite"
    /\ Cardinality(AbertosDe(req[r].op)) < limite
    /\ req' = [req EXCEPT ![r].passo = ProximoDoLimite(req[r].tipo), ![r].lim = limite]
    /\ UNCHANGED <<tabelas, limite>>

LerLimite(r) ==
    /\ req[r].passo = "limite"
    /\ IF Cardinality(AbertosDe(req[r].op)) < limite
       THEN req' = [req EXCEPT ![r].passo = ProximoDoLimite(req[r].tipo), ![r].lim = limite]
       ELSE Terminar(r)
    /\ UNCHANGED <<tabelas, limite>>

(***************************************************************************)
(* pick_eligible_person is one SELECT ... LIMIT 1 FOR UPDATE SKIP LOCKED.  *)
(* Its WHERE, with the NOT EXISTS over the attendances, is evaluated on    *)
(* the snapshot of the statement (Fotografar); the row locks come after,   *)
(* newest person first, skipping locked rows, and only the person's own    *)
(* row is read again when it is locked (TravarPessoa).                     *)
(***************************************************************************)
Fotografar(r) ==
    /\ req[r].passo = "fotografar"
    /\ req' = [req EXCEPT ![r] = [@ EXCEPT !.passo = "travarPessoa",
                                            !.eleg = {p \in Pessoas : Elegivel(p)}]]
    /\ UNCHANGED <<tabelas, limite>>

Sorteaveis(r) == {p \in req[r].eleg : ~PessoaTravada(p) /\ cadastro[p] = "ativo"}

TravarPessoa(r) ==
    /\ req[r].passo = "travarPessoa"
    /\ IF Sorteaveis(r) = {}
       THEN Terminar(r)
       ELSE \E p \in Sorteaveis(r) :
              /\ \A q \in Sorteaveis(r) : q <= p
              /\ req' = [req EXCEPT ![r] = [@ EXCEPT !.passo = "inserir", !.pessoa = p, !.eleg = {}]]
    /\ UNCHANGED <<tabelas, limite>>

\* Mutant: no unique index on the open attendances of a person.
InserirSemIndice(r) ==
    /\ req[r].passo = "inserir"
    /\ \E a \in Atendimentos : NovoId(a) /\ Abrir(a, req[r].op, req[r].pessoa)
    /\ Terminar(r)
    /\ UNCHANGED <<cadastro, telefone, limite>>

\* start_attendance and commit.  The INSERT waits for a pending entry of the
\* same person in the unique index, and fails on a committed one.
Inserir(r) ==
    /\ req[r].passo = "inserir"
    /\ IndiceLivre(req[r].pessoa)
    /\ IF AbertosDaPessoa(req[r].pessoa) # {}
       THEN UNCHANGED tabelas
       ELSE /\ \E a \in Atendimentos : NovoId(a) /\ Abrir(a, req[r].op, req[r].pessoa)
            /\ UNCHANGED <<cadastro, telefone>>
    /\ Terminar(r)
    /\ UNCHANGED limite

(***************************************************************************)
(* start_manual: refuse a phone some person already has, otherwise         *)
(* register the person and open the attendance in the same transaction.    *)
(***************************************************************************)
ConsultarTelefone(r, f) ==
    /\ req[r].passo = "telefone"
    /\ IF ComTelefone(f) = {}
       THEN req' = [req EXCEPT ![r].passo = "cadastrar", ![r].fone = f]
       ELSE Terminar(r)
    /\ UNCHANGED <<tabelas, limite>>

Cadastrar(r) ==
    /\ req[r].passo = "cadastrar"
    /\ \E p \in Pessoas, a \in Atendimentos :
         /\ NovaPessoa(p)
         /\ NovoId(a)
         /\ cadastro' = [cadastro EXCEPT ![p] = "ativo"]
         /\ telefone' = [telefone EXCEPT ![p] = req[r].fone]
         /\ Abrir(a, req[r].op, p)
    /\ Terminar(r)
    /\ UNCHANGED limite

(***************************************************************************)
(* resume: four reads on the row, the person and the person's other        *)
(* attendances, each a statement of its own, and only then the queue lock. *)
(***************************************************************************)
LerParaRetomar(r, o, a) ==
    /\ req[r].passo = "ocioso"
    /\ situacao[a] \in Retomaveis
    /\ req' = [req EXCEPT ![r] = [Ociosa EXCEPT !.passo = "verAtiva", !.tipo = "retomada",
                                  !.op = o, !.atend = a, !.pessoa = pessoaDe[a]]]
    /\ UNCHANGED <<tabelas, limite>>

Conferir(r, passo, ok, proximo) ==
    /\ req[r].passo = passo
    /\ IF ok THEN Avancar(r, proximo) ELSE Terminar(r)
    /\ UNCHANGED <<tabelas, limite>>

VerAtiva(r) == Conferir(r, "verAtiva", cadastro[req[r].pessoa] = "ativo", "verAberto")
VerAberto(r) == Conferir(r, "verAberto", AbertosDaPessoa(req[r].pessoa) = {}, "verTerminal")
VerTerminal(r) == Conferir(r, "verTerminal", ~TemDefinitivo(req[r].pessoa), "travarFila")

TravarFilaRetomada(r) ==
    /\ req[r].passo = "travarFila"
    /\ ~FilaTravada(req[r].op)
    /\ Avancar(r, "limite")
    /\ UNCHANGED <<tabelas, limite>>

\* reopen_attendance: UPDATE ... WHERE situacao IN ('sem_resposta',
\* 'interrompido'), then the row is read back and only its situacao is looked
\* at: a row somebody else reopened passes the test.
Reabrir(r) ==
    LET a == req[r].atend IN
    /\ req[r].passo = "reabrir"
    /\ LinhaLivre(a)
    /\ \/ /\ situacao[a] \in Retomaveis
          /\ IndiceLivre(pessoaDe[a])
          /\ IF AbertosDaPessoa(pessoaDe[a]) = {} THEN Avancar(r, "reaberta") ELSE Terminar(r)
       \/ Aberto(a) /\ ~PessoaTravada(pessoaDe[a]) /\ Avancar(r, "concedida")
       \/ situacao[a] \in Definitivas /\ Terminar(r)
    /\ UNCHANGED <<tabelas, limite>>

\* add_interaction (its foreign key waits for the FOR UPDATE of a draw on the
\* same person) and commit.
ConfirmarRetomada(r) ==
    LET a == req[r].atend IN
    /\ req[r].passo = "reaberta"
    /\ ~PessoaTravada(pessoaDe[a])
    /\ Abrir(a, req[r].op, pessoaDe[a])
    /\ Avancar(r, "concedida")
    /\ UNCHANGED <<cadastro, telefone, limite>>

Responder(r) ==
    /\ req[r].passo = "concedida"
    /\ Terminar(r)
    /\ UNCHANGED <<tabelas, limite>>

(***************************************************************************)
(* close and invalidate: _active_owned reads the row once; the UPDATE      *)
(* repeats situacao = 'em_atendimento' in its WHERE, not the owner, and    *)
(* the number of rows it changed is not looked at.                         *)
(***************************************************************************)
LerProprio(r, o, a, passo) ==
    /\ req[r].passo = "ocioso"
    /\ Aberto(a)
    /\ atendente[a] = o
    /\ req' = [req EXCEPT ![r] = [Ociosa EXCEPT !.passo = passo, !.tipo = "edicao", !.op = o,
                                  !.atend = a, !.pessoa = pessoaDe[a]]]
    /\ UNCHANGED <<tabelas, limite>>

\* Mutant: the UPDATE forgets situacao = 'em_atendimento'.
FecharSemGuarda(r, s) ==
    /\ req[r].passo = "fechar"
    /\ LinhaLivre(req[r].atend)
    /\ req' = [req EXCEPT ![r].passo = "fechada", ![r].sit = s]
    /\ UNCHANGED <<tabelas, limite>>

Fechar(r, s) ==
    LET a == req[r].atend IN
    /\ req[r].passo = "fechar"
    /\ LinhaLivre(a)
    /\ IF Aberto(a)
       THEN req' = [req EXCEPT ![r].passo = "fechada", ![r].sit = s]
       ELSE ~PessoaTravada(pessoaDe[a]) /\ Terminar(r)
    /\ UNCHANGED <<tabelas, limite>>

ConfirmarFechamento(r) ==
    LET a == req[r].atend IN
    /\ req[r].passo = "fechada"
    /\ ~PessoaTravada(pessoaDe[a])
    /\ situacao' = [situacao EXCEPT ![a] = req[r].sit]
    /\ Terminar(r)
    /\ UNCHANGED <<cadastro, telefone, atendente, pessoaDe, limite>>

\* deactivate_person does not look at the attendance; invalidate_attendance
\* changes the row only while it is open.
Invalidar(r) ==
    LET a == req[r].atend IN
    /\ req[r].passo = "invalidar"
    /\ ~PessoaTravada(req[r].pessoa)
    /\ LinhaLivre(a)
    /\ cadastro' = [cadastro EXCEPT ![req[r].pessoa] = "inativo"]
    /\ situacao' = [situacao EXCEPT ![a] = IF Aberto(a) THEN "numero_invalido" ELSE @]
    /\ Terminar(r)
    /\ UNCHANGED <<telefone, atendente, pessoaDe, limite>>

\* PostgreSQL's deadlock detector: a draw holds the person and waits for the
\* index entry of a transaction that waits for the person.  It aborts one.
QuebrarImpasse(r) ==
    /\ \E d, w \in Requisicoes, a \in Atendimentos :
         /\ TravaPessoa(d, pessoaDe[a])
         /\ EscritaPendente(w, a)
         /\ r \in {d, w}
    /\ Terminar(r)
    /\ UNCHANGED <<tabelas, limite>>

(***************************************************************************)
(* The rest of the system on the same tables: the call center registers a  *)
(* contact already closed, the administrator changes the limit.            *)
(***************************************************************************)
RegistrarContato(o, p, s) ==
    /\ HaIds
    /\ cadastro[p] # "inexistente"
    /\ ~PessoaTravada(p)
    /\ \E a \in Atendimentos :
         /\ NovoId(a)
         /\ situacao' = [situacao EXCEPT ![a] = s]
         /\ atendente' = [atendente EXCEPT ![a] = o]
         /\ pessoaDe' = [pessoaDe EXCEPT ![a] = p]
    /\ UNCHANGED <<cadastro, telefone, limite, req>>

AlterarLimite(l) ==
    /\ limite # l
    /\ limite' = l
    /\ UNCHANGED <<tabelas, req>>

Continuar(r) ==
    \/ LerLimite(r) \/ Fotografar(r) \/ TravarPessoa(r) \/ Inserir(r)
    \/ (\E f \in Telefones : ConsultarTelefone(r, f)) \/ Cadastrar(r)
    \/ VerAtiva(r) \/ VerAberto(r) \/ VerTerminal(r) \/ TravarFilaRetomada(r)
    \/ Reabrir(r) \/ ConfirmarRetomada(r) \/ Responder(r)
    \/ (\E s \in Encerradas : Fechar(r, s)) \/ ConfirmarFechamento(r) \/ Invalidar(r)
    \/ QuebrarImpasse(r)

Chegar(r, o) ==
    \/ TravarFila(r, o, "sorteio") \/ TravarFila(r, o, "manual")
    \/ \E a \in Atendimentos : \/ LerParaRetomar(r, o, a)
                               \/ LerProprio(r, o, a, "fechar")
                               \/ LerProprio(r, o, a, "invalidar")

Next ==
    \/ \E r \in Requisicoes : Continuar(r)
    \/ \E r \in Requisicoes, o \in Operadores : Chegar(r, o)
    \/ \E o \in Operadores, p \in Pessoas, s \in Encerradas \ {"interrompido"} :
          RegistrarContato(o, p, s)
    \/ \E l \in Limites : AlterarLimite(l)

Spec == Init /\ [][Next]_vars

\* A handler that can run runs.  All that a handler waits for is a PostgreSQL
\* lock (advisory, row or index entry), which is granted in the order of the
\* requests for it: one that is free again and again gets to the waiter, hence
\* strong fairness.  Nothing obliges a new request to arrive.
Justica == \A r \in Requisicoes : SF_vars(Continuar(r))

SpecJusta == Spec /\ Justica

-----------------------------------------------------------------------------
(***************************************************************************)
(* Properties.                                                             *)
(***************************************************************************)

\* A person never has two open attendances (uq_atendimento_eleitor_pessoa_ativo),
\* whatever draws, manual starts and resumes run together.
UmAbertoPorPessoa ==
    \A a, b \in Atendimentos : Aberto(a) /\ Aberto(b) /\ pessoaDe[a] = pessoaDe[b] => a = b

\* Two draws never hold the same person, and a held person is still active.
SorteioExclusivo ==
    \A r, s \in Requisicoes, p \in Pessoas :
        TravaPessoa(r, p) => cadastro[p] = "ativo" /\ (TravaPessoa(s, p) => r = s)

\* What a step may not do to a definitive closing.
DefinitivoFica(a) == situacao[a] \in Definitivas =>
                        situacao'[a] = situacao[a] /\ atendente'[a] = atendente[a]

\* An attendance closed as "concluido" or "numero_invalido" is closed for
\* good: a late close, invalidation or resume decided on an old read leaves it.
EncerramentoDefinitivo == [][\A a \in Atendimentos : DefinitivoFica(a)]_vars

\* No two registered persons of the tenant share a phone, as far as the
\* attendance's own writes go (regras-atendimento.md, line 84).
TelefoneUnico ==
    \A p, q \in Pessoas :
        cadastro[p] = "ativo" /\ cadastro[q] = "ativo" /\ telefone[p] = telefone[q]
            => p = q \/ telefone[p] = Nada

\* A granted resume leaves the attendance with the operator who asked for it
\* (regras-atendimento.md, line 108).
RetomadaAtribui ==
    [][\A r \in Requisicoes : req[r].passo # "concedida" /\ req'[r].passo = "concedida" =>
          atendente'[req[r].atend] = req[r].op]_vars

\* A person with a definitive closing is not resumed (line 125).
RetomadaSoForaDeDefinitivo ==
    [][\A r \in Requisicoes : req[r].passo = "reaberta" /\ req'[r].passo = "concedida" =>
          ~TemDefinitivo(req[r].pessoa)]_vars

\* A person who has had a definitive closing is not drawn again (line 138).
SorteioSoForaDeDefinitivo ==
    [][\A r \in Requisicoes, a \in Atendimentos :
          req[r].passo = "inserir" /\ req'[r].passo = "ocioso"
              /\ situacao[a] = "inexistente" /\ situacao'[a] = "em_atendimento" =>
          ~TemDefinitivo(req[r].pessoa)]_vars

\* Only the operator who owns an open attendance closes it (line 23).
SoDonoEncerra ==
    [][\A a \in Atendimentos : Aberto(a) /\ situacao'[a] # "em_atendimento" =>
          \E r \in Requisicoes : /\ req[r].atend = a
                                 /\ req[r].op = atendente[a]
                                 /\ req'[r].passo = "ocioso"
                                 /\ req[r].passo # "ocioso"]_vars

(***************************************************************************)
(* The abstract queue: a person is with the operator of its open attendance.*)
(***************************************************************************)
Dono(p) == IF AbertosDaPessoa(p) = {}
           THEN Nada
           ELSE atendente[CHOOSE a \in AbertosDaPessoa(p) : TRUE]

\* The limit in force, or a higher one that a request of o under way has read.
Teto(o) == LET lidos == {limite} \cup {req[r].lim : r \in {s \in Requisicoes : req[s].op = o}}
           IN CHOOSE l \in lidos : \A k \in lidos : k <= l

Fila == INSTANCE FilaExclusiva
            WITH dono <- [p \in Pessoas |-> Dono(p)], Ninguem <- Nada,
                 teto <- [o \in Operadores |-> Teto(o)]

\* The handlers implement the exclusive, bounded queue.
ImplementaFila == Fila!Spec

\* Every request is answered: neither the queue locks nor the waits between a
\* draw and a resume of the same person hold it for ever.
TodaRequisicaoTermina ==
    \A r \in Requisicoes : req[r].passo # "ocioso" ~> req[r].passo = "ocioso"

=============================================================================
