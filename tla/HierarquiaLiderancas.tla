------------------------ MODULE HierarquiaLiderancas ------------------------
(***************************************************************************)
(* The people of one tenant, their leaderships, the links that put a person*)
(* under a leadership and the indications (mod_cadastro).                  *)
(*                                                                         *)
(* A handler decides on what it reads and writes later, in one commit: a   *)
(* request holds what it read between the two steps.  The indexes of the   *)
(* database are looked at when the write happens, and refuse it.  A merge  *)
(* of two people writes in many statements before its commit: its request  *)
(* holds the rows written so far, which nobody else sees and everybody who *)
(* wants to write them, or an index entry they are about, waits for.       *)
(***************************************************************************)
EXTENDS Integers, FiniteSets

CONSTANTS
    Pessoas,      \* ids of cadastro.pessoa (bound)
    Liderancas,   \* ids of cadastro.lideranca (bound)
    Vinculos,     \* ids of cadastro.hierarquia_lideranca (bound)
    Valores,      \* values of contacts (documents and networks move alike)
    Requisicoes,  \* requests in progress at the same time (bound)
    Nada

ASSUME NadaForaDoCadastro == Nada \notin Pessoas \cup Liderancas \cup Vinculos
ASSUME AnonimaNaoEhPessoa == "anonima" \notin Pessoas \cup {Nada}

VARIABLES
    pessoa,       \* person -> "livre" (no such row), "viva" or "excluida"
    lidera,       \* leadership -> its person, or Nada
    vinculo,      \* link -> its row
    indicou,      \* person indicated -> who indicated it
    req           \* requests in progress

varsHierarquia == <<pessoa, lidera, vinculo, indicou>>

SemVinculo == [sup |-> Nada, sub |-> Nada, ativo |-> "nao"]
SemMuda == [contatos |-> {}, titulo |-> "nada", lidera |-> {}, desativa |-> {},
            vinculos |-> {}, recebida |-> {}, feitas |-> {}]
Ociosa == [passo |-> "ocioso", p |-> Nada, q |-> Nada, l |-> Nada, v |-> Nada,
           quer |-> "nao", lido |-> "nao", fresca |-> "sim", muda |-> SemMuda]

LinhaVinculo == [sup : Liderancas \cup {Nada}, sub : Pessoas \cup {Nada}, ativo : {"sim", "nao"}]
\* The statements of a merge, each named by the table it is about.
PassosMescla == {"contatos", "eleitor", "lideranca", "hierarquia", "recebidas", "feitas", "fechar"}
Passos == {"ocioso", "inserir", "gravarStatus", "liderar", "indicar", "cadastrar", "contatar"}
          \cup PassosMescla
\* Rows that a merge has written and not committed: what it does to the voter
\* rows, leaderships it moves or switches off, links, the indication that the
\* source received and the indications (by the person indicated) that it made.
Mudanca == [contatos : SUBSET Valores, titulo : {"nada", "campos", "linha", "numero"},
            lidera : SUBSET Liderancas, desativa : SUBSET Liderancas,
            vinculos : SUBSET Vinculos, recebida : SUBSET Pessoas, feitas : SUBSET Pessoas]
Requisicao == [passo : Passos, p : Pessoas \cup {Nada}, q : Pessoas \cup {Nada},
               l : Liderancas \cup {Nada}, v : Vinculos \cup {Nada},
               quer : {"sim", "nao"}, lido : {"sim", "nao"}, fresca : {"sim", "nao"},
               muda : Mudanca]

TipoHierarquia ==
    /\ pessoa \in [Pessoas -> {"livre", "viva", "excluida"}]
    /\ lidera \in [Liderancas -> Pessoas \cup {Nada}]
    /\ vinculo \in [Vinculos -> LinhaVinculo]
    /\ indicou \in [Pessoas -> Pessoas \cup {Nada, "anonima"}]
    /\ req \in [Requisicoes -> Requisicao]

Vivas == {p \in Pessoas : pessoa[p] = "viva"}
Ativos == {v \in Vinculos : vinculo[v].ativo = "sim"}
Existe(v) == vinculo[v] # SemVinculo
Criadas == {l \in Liderancas : lidera[l] # Nada}

\* uq_hierarquia_pessoa_ativa_tenant, over the links vs.
UmAtivoPorPessoa(vs) ==
    \A v, w \in Vinculos :
        (vs[v].ativo = "sim" /\ vs[w].ativo = "sim" /\ vs[v].sub = vs[w].sub) => v = w

\* What an open merge holds: the row of the principal, which the first query of
\* the session writes, rows of leaderships and links, and the entries of the
\* unique indexes about the two people.
Fundidas(r) == {req[r].p, req[r].q}
PessoaPresa(p) == \E r \in Requisicoes :
    req[r].p = p /\ req[r].passo \in PassosMescla \ {"contatos", "eleitor"}
LiderancaMovida(l) == \E r \in Requisicoes : l \in req[r].muda.lidera
LiderancaPresa(l) == LiderancaMovida(l) \/ \E r \in Requisicoes : l \in req[r].muda.desativa
DonaPresa(p) == \E r \in Requisicoes : p \in Fundidas(r) /\ req[r].muda.lidera # {}
VinculoPreso(v) == \E r \in Requisicoes : v \in req[r].muda.vinculos
AtivoPreso(p) == \E r \in Requisicoes : p \in Fundidas(r) /\ req[r].muda.vinculos \cap Ativos # {}
IndicadaPresa(p) == \E r \in Requisicoes : p \in Fundidas(r) /\ req[r].muda.recebida # {}

\* Requests that checked the hierarchy before a change of it hold an old view.
Envelhecer(rs) == [r \in Requisicoes |->
    IF rs[r].passo = "inserir" THEN [rs[r] EXCEPT !.fresca = "nao"] ELSE rs[r]]

Terminar(r) == [req EXCEPT ![r] = Ociosa]

(***************************************************************************)
(* The recursive query of hierarchy_would_cycle: the people below a        *)
(* leadership are the least set that has its active subordinates and, with *)
(* a person, the active subordinates of the leadership that person has.    *)
(***************************************************************************)
Subordinadas(l) == {vinculo[v].sub : v \in {w \in Ativos : vinculo[w].sup = l}}

FechadoSob(S, l) ==
    /\ Subordinadas(l) \subseteq S
    /\ \A m \in Criadas : lidera[m] \in S => Subordinadas(m) \subseteq S

Descendentes(l) == {p \in Pessoas : \A S \in SUBSET Pessoas : FechadoSob(S, l) => p \in S}

\* Nobody is below a leadership of its own.
SemCiclo == \A l \in Criadas : lidera[l] \notin Descendentes(l)

\* Mutant: the query does not recurse.
FechaCicloRaso(l, p) ==
    \/ lidera[l] = Nada
    \/ lidera[l] = p
    \/ \E m \in Criadas : lidera[m] = p /\ lidera[l] \in Subordinadas(m)

FechaCiclo(l, p) ==
    \/ lidera[l] = Nada
    \/ lidera[l] = p
    \/ \E m \in Criadas : lidera[m] = p /\ lidera[l] \in Descendentes(m)

(***************************************************************************)
(* Links.                                                                  *)
(***************************************************************************)
\* add_hierarchy checks the person, the cycle and, for an active link, that
\* the person has no other.
LerParaVincular(r, l, p, ativo) ==
    /\ req[r].passo = "ocioso"
    /\ p \in Vivas
    /\ ~FechaCiclo(l, p)
    /\ ativo = "sim" => \A v \in Ativos : vinculo[v].sub # p
    /\ req' = [req EXCEPT ![r] = [Ociosa EXCEPT !.passo = "inserir", !.l = l, !.p = p,
                                                !.quer = ativo]]
    /\ UNCHANGED varsHierarquia

Novo(v) == ~Existe(v)

\* The new row: the index of active links must hold with it.
ComLinha(v, l, p, ativo) == [vinculo EXCEPT ![v] = [sup |-> l, sub |-> p, ativo |-> ativo]]

\* The insertion and its commit: the leadership must still be there.  Its key
\* waits for a merge that moves it, and an active link for one that moves such
\* a link of the person.
InserirVinculo(r) ==
    /\ req[r].passo = "inserir"
    /\ lidera[req[r].l] # Nada
    /\ ~LiderancaMovida(req[r].l)
    /\ req[r].quer = "sim" => ~AtivoPreso(req[r].p)
    /\ \E v \in Vinculos :
         LET vs == ComLinha(v, req[r].l, req[r].p, req[r].quer) IN
         Novo(v) /\ UmAtivoPorPessoa(vs) /\ vinculo' = vs
    /\ req' = [Envelhecer(req) EXCEPT ![r] = Ociosa]
    /\ UNCHANGED <<pessoa, lidera, indicou>>

\* A write that a constraint refuses (an index, a key whose row is gone, or
\* uq_hierarquia_lideranca for a pair linked on the same day) is rolled back.
Recusar(r) ==
    /\ req[r].passo # "ocioso"
    /\ req' = Terminar(r)
    /\ UNCHANGED varsHierarquia

\* set_hierarchy_status looks for another active link, never for a cycle.
LerStatusVinculo(r, v, ativo) ==
    /\ req[r].passo = "ocioso"
    /\ Existe(v)
    /\ ativo = "sim" => \A w \in Ativos \ {v} : vinculo[w].sub # vinculo[v].sub
    /\ req' = [req EXCEPT ![r] = [Ociosa EXCEPT !.passo = "gravarStatus", !.v = v, !.quer = ativo,
                                                !.lido = vinculo[v].ativo]]
    /\ UNCHANGED varsHierarquia

\* The session writes the column only if it changes the value it read.
GravarStatusVinculo(r) ==
    LET v == req[r].v
        vs == IF req[r].quer = req[r].lido THEN vinculo
              ELSE [vinculo EXCEPT ![v].ativo = req[r].quer]
    IN /\ req[r].passo = "gravarStatus"
       /\ Existe(v)
       /\ vs # vinculo => ~VinculoPreso(v)
       /\ (vs # vinculo /\ req[r].quer = "sim") => ~AtivoPreso(vinculo[v].sub)
       /\ UmAtivoPorPessoa(vs)
       /\ vinculo' = vs
       /\ req' = [(IF vs = vinculo THEN req ELSE Envelhecer(req)) EXCEPT ![r] = Ociosa]
       /\ UNCHANGED <<pessoa, lidera, indicou>>

ExcluirVinculo(v) ==
    /\ Existe(v)
    /\ ~VinculoPreso(v)
    /\ vinculo' = [vinculo EXCEPT ![v] = SemVinculo]
    /\ req' = Envelhecer(req)
    /\ UNCHANGED <<pessoa, lidera, indicou>>

(***************************************************************************)
(* Leaderships and indications.                                            *)
(***************************************************************************)
\* set_leadership checks the person ...
LerParaLiderar(r, p) ==
    /\ req[r].passo = "ocioso"
    /\ p \in Vivas
    /\ req' = [req EXCEPT ![r] = [Ociosa EXCEPT !.passo = "liderar", !.p = p]]
    /\ UNCHANGED varsHierarquia

\* ... and inserts a leadership; uq_lideranca_pessoa keeps one per person, and
\* the upsert of an existing one changes nothing that is modelled.
DefinirLideranca(r, l) ==
    /\ req[r].passo = "liderar"
    /\ lidera[l] = Nada
    /\ \A m \in Liderancas : lidera[m] # req[r].p
    /\ ~DonaPresa(req[r].p)
    /\ lidera' = [lidera EXCEPT ![l] = req[r].p]
    /\ req' = [Envelhecer(req) EXCEPT ![r] = Ociosa]
    /\ UNCHANGED <<pessoa, vinculo, indicou>>

\* delete_leadership: its links go with it (ON DELETE CASCADE).
ExcluirLideranca(l) ==
    /\ lidera[l] # Nada
    /\ ~LiderancaPresa(l)
    /\ \A v \in Vinculos : vinculo[v].sup = l => ~VinculoPreso(v)
    /\ lidera' = [lidera EXCEPT ![l] = Nada]
    /\ vinculo' = [v \in Vinculos |-> IF vinculo[v].sup = l THEN SemVinculo ELSE vinculo[v]]
    /\ req' = Envelhecer(req)
    /\ UNCHANGED <<pessoa, indicou>>

\* add_indication: p indicates q.
LerParaIndicar(r, p, q) ==
    /\ req[r].passo = "ocioso"
    /\ {p, q} \subseteq Vivas
    /\ p # q
    /\ indicou[q] = Nada
    /\ req' = [req EXCEPT ![r] = [Ociosa EXCEPT !.passo = "indicar", !.p = p, !.q = q]]
    /\ UNCHANGED varsHierarquia

\* uq_indicacao_pessoa_indicada_tenant: one indication of a person.
Indicar(r) ==
    /\ req[r].passo = "indicar"
    /\ indicou[req[r].q] = Nada
    /\ ~IndicadaPresa(req[r].q)
    /\ indicou' = [indicou EXCEPT ![req[r].q] = req[r].p]
    /\ req' = Terminar(r)
    /\ UNCHANGED <<pessoa, lidera, vinculo>>

\* deactivate_person
Desativar(p) ==
    /\ p \in Vivas
    /\ ~PessoaPresa(p)
    /\ pessoa' = [pessoa EXCEPT ![p] = "excluida"]
    /\ UNCHANGED <<lidera, vinculo, indicou, req>>

\* A registry as earlier operations left it: rows of people that exist, under
\* the constraints of the tables, and no cycle.
InitHierarquia ==
    /\ pessoa \in [Pessoas -> {"livre", "viva", "excluida"}]
    /\ lidera \in [Liderancas -> Vivas \cup {Nada}]
    /\ \A l, m \in Criadas : lidera[l] = lidera[m] => l = m
    /\ vinculo \in [Vinculos -> [sup : Criadas, sub : Vivas, ativo : {"sim", "nao"}]
                               \cup {SemVinculo}]
    /\ UmAtivoPorPessoa(vinculo)
    /\ SemCiclo
    /\ indicou \in [Pessoas -> Vivas \cup {Nada, "anonima"}]
    /\ \A p \in Pessoas : indicou[p] # p /\ (pessoa[p] = "livre" => indicou[p] = Nada)
    /\ req = [r \in Requisicoes |-> Ociosa]

ComecarHierarquia ==
    \/ \E r \in Requisicoes, l \in Liderancas, p \in Pessoas, a \in {"sim", "nao"} :
          LerParaVincular(r, l, p, a)
    \/ \E r \in Requisicoes, v \in Vinculos, a \in {"sim", "nao"} : LerStatusVinculo(r, v, a)
    \/ \E r \in Requisicoes, p, q \in Pessoas : LerParaIndicar(r, p, q)
    \/ \E r \in Requisicoes, p \in Pessoas : LerParaLiderar(r, p)
    \/ \E v \in Vinculos : ExcluirVinculo(v)
    \/ \E l \in Liderancas : ExcluirLideranca(l)
    \/ \E p \in Pessoas : Desativar(p)

GravarHierarquia(r) ==
    \/ InserirVinculo(r) \/ GravarStatusVinculo(r) \/ Indicar(r) \/ Recusar(r)
    \/ \E l \in Liderancas : DefinirLideranca(r, l)

-----------------------------------------------------------------------------
\* "API rejeita relacao onde uma pessoa vira ancestral de si mesma": the
\* active links never make a person an ancestor of itself.
HierarquiaSemCiclo == SemCiclo

\* A link inserted by a request that still sees the current hierarchy closes
\* no cycle: the recursive query finds every chain through leaderships.
InsercaoNaoFechaCiclo ==
    [][\A r \in Requisicoes :
          (InserirVinculo(r) /\ req[r].fresca = "sim" /\ SemCiclo) => SemCiclo']_<<varsHierarquia, req>>
=============================================================================
