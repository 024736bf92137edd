------------------------------ MODULE MCAgenda ------------------------------
(***************************************************************************)
(* Instance of the agenda for TLC: a behaviour is one of a calendar and    *)
(* its copy at Google, or one of the calendars, events and public forms.   *)
(***************************************************************************)
EXTENDS GoogleAgenda, AgendaPublica, TLC

VARIABLE area

varsDuas == <<varsAgenda, varsPublica, area>>

InitDuas == InitAgenda /\ InitPublica /\ area \in {"google", "publica"}

NextDuas ==
    /\ UNCHANGED area
    /\ \/ area = "google" /\ NextAgenda /\ UNCHANGED varsPublica
       \/ area = "publica" /\ NextPublica /\ UNCHANGED varsAgenda

SpecDuas == InitDuas /\ [][NextDuas]_varsDuas

\* The calendar at Google has a direction only where it is used, one copy is
\* passed over, and there are fewer changes once two synchronizations overlapped.
Limite ==
    /\ area = "publica" => direcao = "bidirecional"
    /\ Cardinality(puladas') <= 1
    /\ juntas' = "sim" => relogio' <= IF direcao = "bidirecional" THEN 2 ELSE 1

\* Names of one area are exchanged together with names of the other.
Troca(Nomes) == [x \in UNION Nomes |-> CHOOSE y \in CHOOSE S \in Nomes : x \in S : y # x]
SimetriaDuas ==
    {Troca(Nomes) : Nomes \in {{Remotos, Fichas}, {Syncs, Formularios},
                               {Edicoes, Celulares, Gestores}}}
=============================================================================
