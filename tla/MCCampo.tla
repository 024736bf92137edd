------------------------------ MODULE MCCampo ------------------------------
(***************************************************************************)
(* Instance of AnunciosCampo and of MesclaPessoas for TLC.  The two share  *)
(* nothing: a behaviour is one of the first, with the registry as it is,   *)
(* or one of the second, with no route in use.                             *)
(***************************************************************************)
EXTENDS MCMesclaPessoas, AnunciosCampo

VARIABLE area

varsDois == <<vars, varsCampo, area>>

RegistroParado ==
    /\ Vazio /\ TodasVivas /\ lidera = DonoDe
    /\ SemHierarquia /\ SemDados /\ SemIndicacao

InitDois ==
    /\ InitCampo
    /\ \/ area = "registro" /\ InitMC
       \/ area = "campo" /\ RegistroParado

NextDois ==
    /\ UNCHANGED area
    /\ \/ area = "registro" /\ Next /\ UNCHANGED varsCampo
       \/ area = "campo" /\ NextCampo /\ UNCHANGED vars

SpecDois == InitDois /\ [][NextDois]_varsDois

\* People are exchanged together with the leaderships they begin with.
TrocaPessoas == {[x \in Pessoas \cup Liderancas |->
    IF x \in Pessoas THEN troca[x]
    ELSE CHOOSE l \in Liderancas : DonoDe[l] = troca[DonoDe[x]]] : troca \in Permutations(Pessoas)}

\* Requests have no identity of their own; those of the two areas are exchanged
\* together.
TrocaRequisicoes == [x \in Requisicoes \cup RequisicoesCampo |->
    CHOOSE y \in (IF x \in Requisicoes THEN Requisicoes ELSE RequisicoesCampo) : y # x]
SimetriaDois == TrocaPessoas \cup {TrocaRequisicoes}
=============================================================================
