--------------------------- MODULE MCJobsAgendados ---------------------------
(* Small instances of JobsAgendados. *)
EXTENDS JobsAgendados, TLC

\* The schedulers do not die between two tenants (a death there leaves a row that
\* nobody sends); workers may, and the broker repeats and refuses messages.
NextSemQuedas ==
    \/ \E s \in Agendadores, r \in Referencias : Disparar(s, r)
    \/ \E s \in Agendadores : Agendar(s)
    \/ \E w \in Trabalhadores : Trabalhar(w) \/ Cair(w)
    \/ \E j \in Jobs : Reentregar(j)

SpecSemQuedas == Init /\ [][NextSemQuedas]_vars /\ Justica

Simetria == Permutations(Trabalhadores) \cup Permutations(Agendadores)
=============================================================================
