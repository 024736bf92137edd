------------------------------- MODULE MCJobs -------------------------------
(***************************************************************************)
(* Instance for TLC of the background jobs: the periodic ones with their   *)
(* schedulers and broker, the deadline alerts of the demands next to those *)
(* who edit them, the refresh of the results of past elections next to     *)
(* those who read them, and what its aggregates answer.  They share no     *)
(* row: a behaviour is one of one part.                                    *)
(***************************************************************************)
EXTENDS JobsAgendados, DemandasAlertas, ConsultaResultados, TLC

CONSTANTS
    final, ok,                \* a final status, a result
    e1, e2                    \* elections

VARIABLE area

varsJobs == <<vars, varsDemandas, varsRollup, varsConsulta, area>>

\* Requests that change the status, the result or the date.
Pedido(s, r, p, o) == [status |-> s, resultado |-> r, prazo |-> p, observacao |-> o]
Pedidos0 ==
    {Pedido(final, ok, Manter, "sim"), Pedido(final, Manter, Manter, "sim"),
     Pedido(Manter, Nulo, Manter, "sim"), Pedido(Inicial, Nulo, Manter, "sim"),
     Pedido(Manter, ok, Manter, "nao"),
     Pedido(Manter, Manter, 0, "nao"), Pedido(Manter, Manter, 1, "nao")}

\* Tables of results: three municipalities of two states, a section without a polling
\* place, null votes, one number in two municipalities, a row without a name.
Linha(e, m, z, lo, se, c, nu, no, v) ==
    [e |-> e, uf |-> UfDe[m], mun |-> m, zona |-> z, local |-> lo, secao |-> se,
     cargo |-> c, num |-> nu, nome |-> no, votos |-> v]
UfDe0 == <<"A", "A", "B">>
MunicipioDe0 == [x \in {"centro"} |-> 1]
Base1 == {Linha(e1, 1, 1, 5, 1, "prefeito", 10, 1, 2), Linha(e1, 1, 1, 5, 2, "prefeito", 10, 1, 1),
          Linha(e1, 1, 1, 0, 3, "prefeito", 10, 1, 1), Linha(e1, 1, 2, 6, 1, "prefeito", 20, 2, 1),
          Linha(e1, 1, 1, 5, 1, "prefeito", 95, 9, 3)}
Base2 == Base1 \cup {Linha(e1, 2, 3, 5, 1, "prefeito", 10, 3, 1), Linha(e1, 3, 1, 5, 1, "prefeito", 10, 2, 1),
                     Linha(e1, 3, 1, 5, 1, "vereador", 11, 0, 1), Linha(e1, 3, 1, 5, 2, "prefeito", 20, 1, 0)}
Base3 == Base1 \cup {Linha(e2, 1, 1, 5, 1, "governador", 10, 1, 1), Linha(e2, 1, 1, 6, 2, "governador", 20, 3, 2)}
Tabelas0 == {Base1, Base2, Base3, Base2 \cup Base3}
Todos == [chaves |-> {}, ufs |-> {}, muns |-> {}, zonas |-> {}, locais |-> {}, secoes |-> {}, cargos |-> {}, nomes |-> {}]
Da1 == [Todos EXCEPT !.chaves = {e1}]
Filtros0 == {Da1, [Todos EXCEPT !.chaves = {e1, e2}], [Todos EXCEPT !.chaves = {e2}],
   [Da1 EXCEPT !.ufs = {"A"}], [Da1 EXCEPT !.muns = {1}], [Da1 EXCEPT !.zonas = {1}], [Da1 EXCEPT !.locais = {5}],
   [Da1 EXCEPT !.secoes = {1}], [Da1 EXCEPT !.secoes = {1}, !.locais = {5}], [Da1 EXCEPT !.nomes = {1, 2}], [Da1 EXCEPT !.cargos = {"prefeito"}, !.zonas = {1}, !.muns = {3}]}
Acessos0 == {{<<"global", 0>>}, {}, {<<"estado", "B">>}, {<<"bairro", "centro">>}, {<<"zona_eleitoral", <<1, 1>>>>},
             {<<"secao_eleitoral", <<1, 1, 2>>>>, <<"zona_eleitoral", <<2, 3>>>>}}
Zonas0 == {<<1, 1>>, <<1, 2>>, <<3, 1>>}
Secoes0 == {<<1, 1, 1>>, <<1, 1, 2>>, <<1, 2, 1>>}

InitJobs ==
    /\ area \in {"jobs", "demanda", "resultado", "leitura", "consulta"}
    /\ Init /\ InitDemandas /\ InitRollup /\ InitConsulta

\* Two workers and one reader, or one worker at a time and two readers.
NextRollupMC ==
    /\ NextRollup
    /\ \/ area = "resultado" /\ Cardinality({l \in Leitores : leitor'[l] # LeitorNovo}) <= 1
       \/ area = "leitura" /\ Cardinality({w \in Obreiros : obreiro'[w] # ObreiroLivre}) <= 1

NextJobs ==
    /\ UNCHANGED area
    /\ \/ area = "jobs" /\ Next /\ UNCHANGED <<varsDemandas, varsRollup, varsConsulta>>
       \/ area = "demanda" /\ NextDemandas /\ UNCHANGED <<vars, varsRollup, varsConsulta>>
       \/ NextRollupMC /\ UNCHANGED <<vars, varsDemandas, varsConsulta>>
       \/ area = "consulta" /\ NextConsulta /\ UNCHANGED <<vars, varsDemandas, varsRollup>>

SpecJobs == InitJobs /\ [][NextJobs]_varsJobs

\* The requests of a part have the names of the workers or schedulers of another.
Simetria == Permutations(Trabalhadores) \cup Permutations(Agendadores)
=============================================================================
