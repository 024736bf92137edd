------------------------ MODULE TerritorioHierarquia ------------------------
(***************************************************************************)
(* The tree of territories of one tenant (mod_territorio).  A territory has*)
(* at most one parent; a manager, or a coordinator within a scope, creates *)
(* and moves territories, and "organize" puts every neighbourhood under    *)
(* the one municipality that has its code.                                 *)
(*                                                                         *)
(* A handler checks in one statement and replaces parents later, child by  *)
(* child: it deletes the link of the child, which locks it until the end   *)
(* of the transaction, and inserts another.  Whoever waits for that link   *)
(* finds it gone, and its own insertion meets the unique index.            *)
(***************************************************************************)
EXTENDS Integers, FiniteSets

CONSTANTS
    Territorios,      \* ids of territorio.territorio (bound)
    Municipios,       \* those of the type "municipio"
    Bairros,          \* those of the type "bairro"
    CodigoIbge,       \* territory -> its codigo_municipio_ibge, or SemPai
    JaCriados,        \* those there from the start, all of them roots
    Mudancas,         \* handlers under way (bound)
    MaxMudancasT,     \* handlers in all (bound)
    SemPai            \* no territory, no code, no scope

ASSUME TiposTerritorio == Municipios \cup Bairros \subseteq Territorios /\ Municipios \cap Bairros = {}
ASSUME TerritoriosContaveis == IsFiniteSet(Territorios)
ASSUME SemPaiFora == SemPai \notin Territorios

VARIABLES
    territorio,       \* territory -> "livre" (no such row), "ativo" or "inativo"
    pai,              \* territory -> territorio_pai_id, or SemPai
    trocaDe,          \* territory -> the handler that replaced its parent and has not ended
    mudanca,          \* the handlers under way
    pedidas,          \* handlers so far
    cruzadas,         \* history: a handler wrote on a check that had become old
    fechou            \* history: "organize" left a neighbourhood it moved below itself

varsTerritorio == <<territorio, pai, trocaDe, mudanca, pedidas, cruzadas, fechou>>

MudancaLivre == [passo |-> "livre", op |-> "nada", escopo |-> SemPai, lote |-> {},
                 espera |-> SemPai, fresca |-> "sim"]

InitTerritorio ==
    /\ territorio = [t \in Territorios |-> IF t \in JaCriados THEN "ativo" ELSE "livre"]
    /\ pai = [t \in Territorios |-> SemPai]
    /\ trocaDe = [t \in Territorios |-> SemPai]
    /\ mudanca = [r \in Mudancas |-> MudancaLivre]
    /\ pedidas = 0 /\ cruzadas = "nao" /\ fechou = "nao"

Cadastrados == {t \in Territorios : territorio[t] # "livre"}

(***************************************************************************)
(* The recursive queries.  What is above a territory is the least set with *)
(* its parent and the parent of every member.  The queries are UNION ALL:  *)
(* started inside a cycle they never end.                                  *)
(***************************************************************************)
FechadoAcima(pais, S, t) ==
    pais[t] \in S \cup {SemPai} /\ \A x \in S : pais[x] \in S \cup {SemPai}

AcimaEm(pais, t) ==
    LET comFilhos == {pais[x] : x \in Territorios} \ {SemPai}
        fechados == {S \in SUBSET comFilhos : FechadoAcima(pais, S, t)}
    IN {a \in comFilhos : \A S \in fechados : a \in S}

Acima(t) == AcimaEm(pai, t)

EmCiclo(t) == t \in Acima(t)

\* accessible_ids: everything to a manager, the scope and what is below it to
\* the others.
Acessiveis(escopo) ==
    IF escopo = SemPai THEN Cadastrados ELSE {escopo} \cup {t \in Cadastrados : escopo \in Acima(t)}

\* Mutant: the query looks at the children only.
CriariaCicloRaso(filho, novo) == novo = filho \/ pai[novo] = filho

CriariaCiclo(filho, novo) == novo = filho \/ filho \in Acima(novo)


\* hierarchy_organization_preview: the neighbourhoods with one municipality of
\* their code among the territories shown, and another parent.
Mostrados(escopo) == {t \in Acessiveis(escopo) : territorio[t] = "ativo"}

MunicipiosDe(b, mostrados) ==
    {m \in Municipios \cap mostrados :
        CodigoIbge[b] # SemPai /\ CodigoIbge[m] = CodigoIbge[b]}

Alteracoes(escopo) ==
    LET mostrados == Mostrados(escopo)
    IN {par \in (Bairros \cap mostrados) \X Municipios :
          MunicipiosDe(par[1], mostrados) = {par[2]} /\ pai[par[1]] # par[2]}

-----------------------------------------------------------------------------
\* A handler begins, and checks the access of its actor (update_territory,
\* organize_hierarchy).  The history notes that it has seen every commit so far.
Comecar(r, op, passo, escopo, lote) ==
    /\ mudanca[r] = MudancaLivre
    /\ pedidas < MaxMudancasT /\ pedidas' = pedidas + 1
    /\ mudanca' = [mudanca EXCEPT ![r] =
           [MudancaLivre EXCEPT !.passo = passo, !.op = op, !.escopo = escopo, !.lote = lote]]

Envelhecidas(m) == [r \in Mudancas |->
    IF m[r].passo = "trocar" THEN [m[r] EXCEPT !.fresca = "nao"] ELSE m[r]]

\* create_territory: the row and its link are one transaction nobody else sees.
\* Only a manager creates a root.
CriarTerritorio(t, novo, escopo) ==
    /\ territorio[t] = "livre"
    /\ IF novo = SemPai THEN escopo = SemPai ELSE novo \in Acessiveis(escopo) /\ ~EmCiclo(novo)
    /\ pedidas < MaxMudancasT /\ pedidas' = pedidas + 1
    /\ territorio' = [territorio EXCEPT ![t] = "ativo"]
    /\ pai' = [pai EXCEPT ![t] = novo]
    /\ mudanca' = Envelhecidas(mudanca)
    /\ UNCHANGED <<trocaDe, cruzadas, fechou>>

\* update_territory without a parent: here, the column ativo.
AtivarTerritorio(escopo) ==
    \E t \in Acessiveis(escopo) :
    /\ pedidas < MaxMudancasT /\ pedidas' = pedidas + 1
    /\ territorio' = [territorio EXCEPT ![t] = IF @ = "ativo" THEN "inativo" ELSE "ativo"]
    /\ mudanca' = Envelhecidas(mudanca)
    /\ UNCHANGED <<pai, trocaDe, cruzadas, fechou>>

\* update_territory with a parent, or with none to make it a root: the checks.
LerMudanca(r, escopo) ==
    \E t \in Acessiveis(escopo), novo \in Acessiveis(escopo) \cup {SemPai} :
    /\ IF novo = SemPai THEN TRUE ELSE ~CriariaCiclo(t, novo)
    /\ Comecar(r, "mover", "trocar", escopo, {<<t, novo>>})
    /\ UNCHANGED <<territorio, pai, trocaDe, cruzadas, fechou>>

\* A query that starts inside a cycle does not come back.
Prender(r, t) ==
    /\ EmCiclo(t)
    /\ Comecar(r, "mover", "presa", t, {})
    /\ UNCHANGED <<territorio, pai, trocaDe, cruzadas, fechou>>

\* The preview a manager looks at, and the request that sends it back: it is
\* compared with a preview of now.
PreverOrganizacao(r, escopo) ==
    /\ Alteracoes(escopo) # {}
    /\ Comecar(r, "organizar", "previa", escopo, Alteracoes(escopo))
    /\ UNCHANGED <<territorio, pai, trocaDe, cruzadas, fechou>>

\* Mutant: what was shown is applied.
PreviaQualquer(r) == TRUE

PreviaAtual(r) == Alteracoes(mudanca[r].escopo) = mudanca[r].lote


AplicarPrevia(r) ==
    /\ mudanca[r].passo = "previa"
    /\ mudanca' = [mudanca EXCEPT ![r] =
           IF PreviaAtual(r) THEN [@ EXCEPT !.passo = "trocar"] ELSE MudancaLivre]
    /\ UNCHANGED <<territorio, pai, trocaDe, pedidas, cruzadas, fechou>>

-----------------------------------------------------------------------------
\* set_parent, one child after another in the order of a Python set.
PorTrocar(r) == {par \in mudanca[r].lote : trocaDe[par[1]] # r}

TrocarPai(r, par) ==
    /\ mudanca[r].passo = "trocar" /\ mudanca[r].espera = SemPai
    /\ par \in PorTrocar(r)
    /\ IF trocaDe[par[1]] = SemPai
         THEN trocaDe' = [trocaDe EXCEPT ![par[1]] = r] /\ UNCHANGED mudanca
         ELSE mudanca' = [mudanca EXCEPT ![r].espera = par[1]] /\ UNCHANGED trocaDe
    /\ UNCHANGED <<territorio, pai, pedidas, cruzadas, fechou>>

SoltarElos(r) == [t \in Territorios |-> IF trocaDe[t] = r THEN SemPai ELSE trocaDe[t]]

\* The tree after every move of a lot.
PaisDepois(lote) ==
    [t \in Territorios |->
        IF \E par \in lote : par[1] = t THEN (CHOOSE par \in lote : par[1] = t)[2] ELSE pai[t]]

\* What a commit means to q: a link it waited for is gone.  A request for a
\* root has nothing left to delete; one for a parent fails if the child has one.
AoConfirmar(q, r, novos) ==
    LET c == mudanca[q].espera
        par == CHOOSE x \in mudanca[q].lote : x[1] = c
    IN IF q = r \/ c = SemPai \/ trocaDe[c] # r THEN Envelhecidas(mudanca)[q]
       ELSE [mudanca[q] EXCEPT
               !.espera = SemPai, !.fresca = "nao",
               !.lote = IF par[2] = SemPai THEN @ \ {par} ELSE @,
               !.passo = IF par[2] # SemPai /\ novos[c] # SemPai THEN "erro" ELSE @]

ConfirmarMudanca(r) ==
    LET lote == mudanca[r].lote
        novos == PaisDepois(lote)
    IN /\ mudanca[r].passo = "trocar" /\ PorTrocar(r) = {}
       /\ pai' = novos
       /\ trocaDe' = SoltarElos(r)
       /\ mudanca' = [[q \in Mudancas |-> AoConfirmar(q, r, novos)] EXCEPT ![r] = MudancaLivre]
       /\ cruzadas' = IF mudanca[r].fresca = "nao" THEN "sim" ELSE cruzadas
       /\ fechou' = IF mudanca[r].op = "organizar" /\ \E par \in lote : par[1] \in AcimaEm(novos, par[1])
                      THEN "sim" ELSE fechou
       /\ UNCHANGED <<territorio, pedidas>>

\* A rollback: after the unique index, or as the victim of a deadlock.
Presos(r) == {q \in Mudancas : mudanca[r].espera # SemPai /\ trocaDe[mudanca[r].espera] = q}

DesfazerMudanca(r) ==
    /\ \/ mudanca[r].passo = "erro"
       \/ \E q \in Presos(r) : r \in Presos(q)
    /\ trocaDe' = SoltarElos(r)
    /\ mudanca' = [[q \in Mudancas |->
           IF mudanca[q].espera # SemPai /\ trocaDe[mudanca[q].espera] = r
             THEN [mudanca[q] EXCEPT !.espera = SemPai] ELSE mudanca[q]] EXCEPT ![r] = MudancaLivre]
    /\ UNCHANGED <<territorio, pai, pedidas, cruzadas, fechou>>

Escopos == Cadastrados \cup {SemPai}

NextTerritorio ==
    \/ \E t \in Territorios, novo \in Escopos, escopo \in Escopos :
          CriarTerritorio(t, novo, escopo)
    \/ \E escopo \in Escopos : AtivarTerritorio(escopo)
    \/ \E r \in Mudancas :
          \/ \E escopo \in Escopos : LerMudanca(r, escopo) \/ PreverOrganizacao(r, escopo)
          \/ \E t \in Cadastrados : Prender(r, t)
          \/ AplicarPrevia(r)
          \/ \E par \in mudanca[r].lote : TrocarPai(r, par)
          \/ ConfirmarMudanca(r)
          \/ DesfazerMudanca(r)

SpecTerritorio == InitTerritorio /\ [][NextTerritorio]_varsTerritorio

-----------------------------------------------------------------------------
\* A territory is never above itself: what the service answers to a move that
\* would do it, and what SPEC-05 asks of the hierarchy.
HierarquiaTerritorialSemCiclo == \A t \in Territorios : ~EmCiclo(t)

\* Moves that do not overlap never close a cycle, however many: only a move
\* decided on an old check does, and "organize", which has no check at all.
CicloSoSemConferir ==
    (\E t \in Territorios : EmCiclo(t)) => cruzadas = "sim" \/ fechou = "sim"

\* An organization decided on what is still there leaves nothing to organize
\* for that actor: a preview that grew old is refused, not applied.
OrganizacaoCompleta ==
    [][\A r \in Mudancas :
          (mudanca[r].op = "organizar" /\ mudanca[r].fresca = "sim"
             /\ ConfirmarMudanca(r) /\ fechou' = "nao")
          => \A escopo \in Escopos :
                mudanca[r].escopo = escopo => Alteracoes(escopo)' = {}]_varsTerritorio
=============================================================================
