------------------------ MODULE JobsAgendadosProofs ------------------------
(***************************************************************************)
(* Proofs about JobsAgendados, for every number of tenants, jobs,          *)
(* schedulers and workers.                                                 *)
(*                                                                         *)
(* Inv1 relates the three parts: the job a scheduler holds was never       *)
(* delivered, the job a worker holds was, and copies come from deliveries. *)
(* So no row is written by a scheduler and a worker at the same time.  On  *)
(* it rest ConcluidoFeito, VivoTemDono and, through the jobs whose message *)
(* was delivered at most once (InvUnica), SimultaneosSoRepetidos.          *)
(*                                                                         *)
(* Then about two of the jobs with what they meet: the alerts of the       *)
(* demands (DemandasAlertas) and the aggregates of an election with the    *)
(* cache in front of them (ResultadosRollup).                              *)
(***************************************************************************)
EXTENDS JobsAgendados, DemandasAlertas, ResultadosRollup, FiniteSetTheorems, TLAPS

(***************************************************************************)
(* The rows of the jobs, their schedulers and workers.                     *)
(***************************************************************************)

\* A scheduler has a job only between its creation and its dispatch, and its
\* message was never sent.
AgRef ==
    \A s \in Agendadores :
        /\ ag[s].passo \in {"despachar", "marcar"} =>
              /\ ag[s].job \in Jobs
              /\ status[ag[s].job] = "enfileirado"
              /\ entregas[ag[s].job] = 0
        /\ ag[s].passo \in {"inativa", "criar"} => ag[s].job = Nada

AgDistintos ==
    \A s, u \in Agendadores : ag[s].job \in Jobs /\ ag[s].job = ag[u].job => s = u

\* A worker has a job exactly while it is busy, and the job was delivered.
TrabRef ==
    \A w \in Trabalhadores :
        /\ trab[w].passo # "ocioso" => trab[w].job \in Jobs /\ entregas[trab[w].job] > 0
        /\ trab[w].passo = "ocioso" => trab[w].job = Nada

\* Copies come from deliveries, and deliveries from created jobs.
FilaRef ==
    \A j \in Jobs : /\ fila[j] <= entregas[j]
                    /\ status[j] = "nenhum" => entregas[j] = 0

Inv1 == TypeOK /\ AgRef /\ AgDistintos /\ TrabRef /\ FilaRef

LEMMA Inv1Inicial == Init => Inv1
  BY NadaForaDosIds, EntregasPositivas
  DEF Init, Inv1, TypeOK, AgRef, AgDistintos, TrabRef, FilaRef, Inativa, Parado, Agenda, Tarefa

LEMMA AgendaMuda ==
    ASSUME NEW x \in Agenda, NEW t \in SUBSET Tenants
    PROVE  [x EXCEPT !.passo = "criar", !.resta = t, !.job = Nada] \in Agenda
  BY DEF Agenda

\* The loop goes on with no job, or ends.
LEMMA SeguinteQuadro ==
    ASSUME TypeOK, NEW s \in Agendadores, NEW t, Seguinte(s, ag[s].resta \ {t})
    PROVE  /\ ag' \in [Agendadores -> Agenda]
           /\ \A u \in Agendadores \ {s} : ag'[u] = ag[u]
           /\ ag'[s].job = Nada /\ ag'[s].passo \in {"inativa", "criar"}
<1> DEFINE r == ag[s].resta \ {t}
           x == IF r = {} THEN Inativa
                ELSE [ag[s] EXCEPT !.passo = "criar", !.resta = r, !.job = Nada]
<1>1. ag \in [Agendadores -> Agenda] /\ ag[s] \in Agenda  BY DEF TypeOK
<1>2. r \in SUBSET Tenants  BY <1>1 DEF Agenda
<1>3. Inativa \in Agenda /\ Inativa.job = Nada /\ Inativa.passo = "inativa"  BY DEF Inativa, Agenda
<1>4. ag' = [ag EXCEPT ![s] = x]  BY DEF Seguinte
<1>5. x \in Agenda /\ x.job = Nada /\ x.passo \in {"inativa", "criar"}
  <2>1. CASE r = {}  BY <1>3, <2>1
  <2>2. CASE r # {}
    <3> DEFINE y == [ag[s] EXCEPT !.passo = "criar", !.resta = r, !.job = Nada]
    <3>1. y \in Agenda  BY <1>1, <1>2, AgendaMuda
    <3>2. y.job = Nada /\ y.passo = "criar"  BY <1>1 DEF Agenda
    <3>3. x = y  BY <2>2
    <3> HIDE DEF x, y
    <3> QED  BY <3>1, <3>2, <3>3
  <2> QED  BY <2>1, <2>2
<1> HIDE DEF x
<1> QED  BY <1>1, <1>4, <1>5

LEMMA PassoMuda ==
    ASSUME NEW x \in Agenda, NEW p \in {"despachar", "marcar"}, NEW j \in Jobs
    PROVE  [x EXCEPT !.passo = p, !.job = j] \in Agenda /\ [x EXCEPT !.passo = p] \in Agenda
  BY DEF Agenda

\* A scheduler that created job j.
LEMMA CriarQuadro ==
    ASSUME TypeOK, NEW s \in Agendadores, NEW j \in Jobs,
           ag' = [ag EXCEPT ![s].passo = "despachar", ![s].job = j]
    PROVE  /\ ag' \in [Agendadores -> Agenda]
           /\ \A u \in Agendadores \ {s} : ag'[u] = ag[u]
           /\ ag'[s].job = j /\ ag'[s].passo = "despachar"
<1> DEFINE x == [ag[s] EXCEPT !.passo = "despachar", !.job = j]
<1>1. ag \in [Agendadores -> Agenda] /\ ag[s] \in Agenda  BY DEF TypeOK
<1>2. x \in Agenda  BY <1>1, PassoMuda
<1>3. x.job = j /\ x.passo = "despachar"  BY <1>1 DEF Agenda
<1>4. ag' = [ag EXCEPT ![s] = x]  OBVIOUS
<1> HIDE DEF x
<1> QED  BY <1>1, <1>2, <1>3, <1>4

\* A failed dispatch: caught, with the job, or not, without it.
LEMMA FalhaQuadro ==
    ASSUME TypeOK, NEW s \in Agendadores, DespachoFalha(s)
    PROVE  /\ ag' \in [Agendadores -> Agenda]
           /\ \A u \in Agendadores \ {s} : ag'[u] = ag[u]
           /\ \/ /\ ag[s].ref \in Diretas /\ ag'[s].job = Nada /\ ag'[s].passo = "inativa"
                 /\ orfaos' = orfaos \cup ({ag[s].job} \cap Jobs)
              \/ ag'[s].job = ag[s].job /\ ag'[s].passo = "marcar" /\ UNCHANGED orfaos
<1> DEFINE x == [ag[s] EXCEPT !.passo = "marcar"]
<1>1. ag \in [Agendadores -> Agenda] /\ ag[s] \in Agenda  BY DEF TypeOK
<1>2. x \in Agenda  BY <1>1 DEF Agenda
<1>3. x.job = ag[s].job /\ x.passo = "marcar"  BY <1>1 DEF Agenda
<1>4. \/ /\ ag[s].ref \in Diretas /\ ag' = [ag EXCEPT ![s] = Inativa]
         /\ orfaos' = orfaos \cup ({ag[s].job} \cap Jobs)
      \/ ag' = [ag EXCEPT ![s] = x] /\ UNCHANGED orfaos
  BY DEF DespachoFalha, Abandonar
<1>5. Inativa \in Agenda /\ Inativa.job = Nada /\ Inativa.passo = "inativa"  BY DEF Inativa, Agenda
<1> HIDE DEF x
<1> QED  BY <1>1, <1>2, <1>3, <1>4, <1>5

\* Only a scheduler and the rows of the jobs that no worker holds change.
LEMMA Inv1Agenda ==
    ASSUME Inv1, NEW s \in Agendadores, Agendar(s)
    PROVE  Inv1'
<1> USE NadaForaDosIds, EntregasPositivas DEF Inv1, linhas, broker
<1>0. /\ ag \in [Agendadores -> Agenda] /\ fila \in [Jobs -> 0..MaxEntregas]
      /\ entregas \in [Jobs -> 0..MaxEntregas] /\ tenant \in [Jobs -> Tenants \cup {Nada}]
      /\ ref \in [Jobs -> Referencias \cup {Nada}] /\ trab \in [Trabalhadores -> Tarefa]
      /\ status \in [Jobs -> {"enfileirado", "executando", "nenhum", "concluido", "falha"}]
  BY DEF TypeOK, Vivos
<1>1. CASE CriarSeOcioso(s)
  <2>1. ag[s].passo = "criar" /\ UNCHANGED <<feitos, broker, orfaos, trab>>
    BY <1>1 DEF CriarSeOcioso
  <2>2. ASSUME NEW t \in ag[s].resta, Seguinte(s, ag[s].resta \ {t}), UNCHANGED linhas
        PROVE  Inv1'
    <3>1. /\ ag' \in [Agendadores -> Agenda]
          /\ \A u \in Agendadores \ {s} : ag'[u] = ag[u]
          /\ ag'[s].job = Nada /\ ag'[s].passo \in {"inativa", "criar"}
      BY <2>2, SeguinteQuadro
    <3>2. TypeOK'  BY <2>1, <2>2, <3>1 DEF TypeOK
    <3>3. AgRef' /\ AgDistintos'  BY <2>1, <2>2, <3>1 DEF AgRef, AgDistintos
    <3>4. TrabRef' /\ FilaRef'  BY <2>1, <2>2 DEF TrabRef, FilaRef
    <3> QED  BY <3>2, <3>3, <3>4
  <2>3. ASSUME NEW t \in ag[s].resta, NEW j \in Jobs, NovoId(j),
               status' = [status EXCEPT ![j] = "enfileirado"],
               tenant' = [tenant EXCEPT ![j] = t],
               ref' = [ref EXCEPT ![j] = ag[s].ref],
               ag' = [ag EXCEPT ![s].passo = "despachar", ![s].job = j]
        PROVE  Inv1'
    <3>1. /\ ag' \in [Agendadores -> Agenda]
          /\ \A u \in Agendadores \ {s} : ag'[u] = ag[u]
          /\ ag'[s].job = j /\ ag'[s].passo = "despachar"
      BY <2>3, CriarQuadro
    <3>2. t \in Tenants /\ ag[s].ref \in Referencias \cup {Nada}  BY <1>0, <2>3 DEF Agenda
    <3>3. status[j] = "nenhum" /\ entregas[j] = 0  BY <2>3 DEF NovoId, Livres, FilaRef
    <3>4. \A u \in Agendadores : ag[u].job # j
      BY <1>0, <3>3 DEF AgRef, Agenda
    <3>5. TypeOK'  BY <1>0, <2>1, <2>3, <3>1, <3>2 DEF TypeOK, Vivos
    <3>6. AgRef'  BY <1>0, <2>1, <2>3, <3>1, <3>3, <3>4 DEF AgRef
    <3>7. AgDistintos'  BY <3>1, <3>4 DEF AgDistintos
    <3>8. TrabRef' /\ FilaRef'  BY <1>0, <2>1, <2>3, <3>3 DEF TrabRef, FilaRef
    <3> QED  BY <3>5, <3>6, <3>7, <3>8
  <2> QED  BY <1>1, <2>2, <2>3 DEF CriarSeOcioso
<1>2. CASE CriarRecusado(s)
  BY <1>0, <1>2 DEF CriarRecusado, Inativa, TypeOK, Agenda, AgRef, AgDistintos, TrabRef, FilaRef
<1>3. CASE Despachar(s)
  <2> DEFINE j == ag[s].job
  <2>1. j \in Jobs /\ status[j] = "enfileirado" /\ entregas[j] = 0 /\ fila[j] = 0
    BY <1>0, <1>3 DEF Despachar, AgRef, FilaRef
  <2>2. /\ ag' \in [Agendadores -> Agenda]
        /\ \A u \in Agendadores \ {s} : ag'[u] = ag[u]
        /\ ag'[s].job = Nada /\ ag'[s].passo \in {"inativa", "criar"}
    BY <1>3, SeguinteQuadro DEF Despachar
  <2>3. /\ fila' = [fila EXCEPT ![j] = 1] /\ entregas' = [entregas EXCEPT ![j] = 1]
        /\ UNCHANGED <<linhas, feitos, orfaos, trab>>
    BY <1>0, <1>3, <2>1 DEF Despachar
  <2>4. \A u \in Agendadores \ {s} : ag[u].job # j
    BY <2>1 DEF AgDistintos
  <2> HIDE DEF j
  <2>5. TypeOK'  BY <1>0, <2>1, <2>2, <2>3 DEF TypeOK
  <2>6. AgRef'  BY <1>0, <2>2, <2>3, <2>4 DEF AgRef
  <2>7. AgDistintos'  BY <2>2 DEF AgDistintos
  <2>8. TrabRef' /\ FilaRef'  BY <1>0, <2>1, <2>3 DEF TrabRef, FilaRef
  <2> QED  BY <2>5, <2>6, <2>7, <2>8
<1>4. CASE DespachoFalha(s)
  <2>1. /\ ag' \in [Agendadores -> Agenda]
        /\ \A u \in Agendadores \ {s} : ag'[u] = ag[u]
        /\ \/ ag'[s].job = Nada /\ ag'[s].passo = "inativa"
           \/ ag'[s].job = ag[s].job /\ ag'[s].passo = "marcar"
        /\ orfaos' \subseteq Jobs
    BY <1>4, FalhaQuadro DEF TypeOK
  <2>2. ag[s].passo = "despachar" /\ UNCHANGED <<linhas, feitos, broker, trab>>
    BY <1>4 DEF DespachoFalha
  <2>3. TypeOK'  BY <2>1, <2>2 DEF TypeOK
  <2>4. AgRef' /\ AgDistintos'  BY <2>1, <2>2 DEF AgRef, AgDistintos
  <2>5. TrabRef' /\ FilaRef'  BY <2>2 DEF TrabRef, FilaRef
  <2> QED  BY <2>3, <2>4, <2>5
<1>5. CASE MarcarDespacho(s)
  <2> DEFINE j == ag[s].job
  <2>1. j \in Jobs /\ status[j] = "enfileirado"
    BY <1>5 DEF MarcarDespacho, AgRef
  <2>2. /\ ag' \in [Agendadores -> Agenda]
        /\ \A u \in Agendadores \ {s} : ag'[u] = ag[u]
        /\ ag'[s].job = Nada /\ ag'[s].passo \in {"inativa", "criar"}
    BY <1>5, SeguinteQuadro DEF MarcarDespacho
  <2>3. status' = [status EXCEPT ![j] = "falha"] /\ UNCHANGED <<tenant, ref, feitos, broker, orfaos, trab>>
    BY <1>5 DEF MarcarDespacho
  <2>4. \A u \in Agendadores \ {s} : ag[u].job # j
    BY <2>1 DEF AgDistintos
  <2> HIDE DEF j
  <2>5. TypeOK'  BY <1>0, <2>1, <2>2, <2>3 DEF TypeOK, Vivos
  <2>6. AgRef'  BY <1>0, <2>2, <2>3, <2>4 DEF AgRef
  <2>7. AgDistintos'  BY <2>2 DEF AgDistintos
  <2>8. TrabRef' /\ FilaRef'  BY <1>0, <2>1, <2>3 DEF TrabRef, FilaRef
  <2> QED  BY <2>5, <2>6, <2>7, <2>8
<1> QED
  BY <1>1, <1>2, <1>3, <1>4, <1>5 DEF Agendar

\* Only a worker, the messages and the rows of delivered jobs change.
LEMMA Inv1Trabalho ==
    ASSUME Inv1, NEW w \in Trabalhadores, Trabalhar(w) \/ Cair(w)
    PROVE  Inv1'
<1> USE NadaForaDosIds, EntregasPositivas DEF Inv1, linhas, broker
<1>0. /\ ag \in [Agendadores -> Agenda] /\ fila \in [Jobs -> 0..MaxEntregas]
      /\ entregas \in [Jobs -> 0..MaxEntregas] /\ tenant \in [Jobs -> Tenants \cup {Nada}]
      /\ ref \in [Jobs -> Referencias \cup {Nada}] /\ trab \in [Trabalhadores -> Tarefa]
      /\ status \in [Jobs -> {"enfileirado", "executando", "nenhum", "concluido", "falha"}]
  BY DEF TypeOK, Vivos
<1>1. ASSUME NEW j \in Jobs, Receber(w, j) PROVE Inv1'
  <2>1. /\ fila[j] > 0 /\ trab[w].passo = "ocioso" /\ fila' = [fila EXCEPT ![j] = @ - 1]
        /\ status' = [status EXCEPT ![j] = "executando"]
        /\ trab' = [trab EXCEPT ![w] = [passo |-> "rodar", job |-> j]]
        /\ UNCHANGED <<tenant, ref, feitos, entregas, orfaos, ag>>
    BY <1>1 DEF Receber
  <2>2. entregas[j] > 0 /\ status[j] # "nenhum"
    BY <1>0, <2>1 DEF FilaRef
  <2>3. \A s \in Agendadores : ag[s].job # j
    BY <1>0, <2>2 DEF AgRef, Agenda
  <2>4. TypeOK'  BY <1>0, <2>1 DEF TypeOK, Vivos, Tarefa
  <2>5. AgRef' /\ AgDistintos'  BY <1>0, <2>1, <2>3 DEF AgRef, AgDistintos
  <2>6. TrabRef'  BY <1>0, <2>1, <2>2 DEF TrabRef
  <2>7. FilaRef'  BY <1>0, <2>1, <2>2 DEF FilaRef
  <2> QED  BY <2>4, <2>5, <2>6, <2>7
<1>2. CASE Rodar(w)
  <2>1. /\ trab[w].passo = "rodar" /\ feitos' = feitos \cup {trab[w].job}
        /\ trab' = [trab EXCEPT ![w].passo = "sucesso"] /\ UNCHANGED <<linhas, broker, orfaos, ag>>
    BY <1>2 DEF Rodar
  <2>2. TypeOK'  BY <1>0, <2>1 DEF TypeOK, TrabRef, Tarefa
  <2>3. AgRef' /\ AgDistintos' /\ FilaRef'  BY <2>1 DEF AgRef, AgDistintos, FilaRef
  <2>4. TrabRef'  BY <1>0, <2>1 DEF TrabRef, Tarefa
  <2> QED  BY <2>2, <2>3, <2>4
<1>3. CASE RodarErro(w)
  <2>1. /\ trab[w].passo = "rodar"
        /\ trab' = [trab EXCEPT ![w].passo = "erro"] /\ UNCHANGED <<linhas, feitos, broker, orfaos, ag>>
    BY <1>3 DEF RodarErro
  <2>2. TypeOK'  BY <1>0, <2>1 DEF TypeOK, Tarefa
  <2>3. AgRef' /\ AgDistintos' /\ FilaRef'  BY <2>1 DEF AgRef, AgDistintos, FilaRef
  <2>4. TrabRef'  BY <1>0, <2>1 DEF TrabRef, Tarefa
  <2> QED  BY <2>2, <2>3, <2>4
<1>4. ASSUME NEW p \in {"sucesso", "erro"}, NEW st \in {"concluido", "falha"}, Marcar(w, p, st)
      PROVE  Inv1'
  <2> DEFINE j == trab[w].job
  <2>1. /\ trab[w].passo = p /\ status' = [status EXCEPT ![j] = st]
        /\ trab' = [trab EXCEPT ![w] = Parado] /\ UNCHANGED <<tenant, ref, feitos, broker, orfaos, ag>>
    BY <1>4 DEF Marcar
  <2>2. j \in Jobs /\ entregas[j] > 0
    BY <2>1 DEF TrabRef
  <2>3. \A s \in Agendadores : ag[s].job # j
    BY <1>0, <2>2 DEF AgRef, Agenda
  <2> HIDE DEF j
  <2>4. TypeOK'  BY <1>0, <2>1, <2>2 DEF TypeOK, Vivos, Tarefa, Parado
  <2>5. AgRef' /\ AgDistintos'  BY <1>0, <2>1, <2>3 DEF AgRef, AgDistintos
  <2>6. TrabRef'  BY <1>0, <2>1 DEF TrabRef, Parado
  <2>7. FilaRef'  BY <1>0, <2>1, <2>2 DEF FilaRef
  <2> QED  BY <2>4, <2>5, <2>6, <2>7
<1>5. CASE Cair(w)
  <2> DEFINE j == trab[w].job
  <2>1. /\ trab[w].passo # "ocioso" /\ entregas[j] < MaxEntregas
        /\ entregas' = [entregas EXCEPT ![j] = @ + 1] /\ fila' = [fila EXCEPT ![j] = @ + 1]
        /\ trab' = [trab EXCEPT ![w] = Parado] /\ UNCHANGED <<linhas, feitos, orfaos, ag>>
    BY <1>5 DEF Cair
  <2>2. j \in Jobs /\ entregas[j] > 0 /\ fila[j] <= entregas[j] /\ status[j] # "nenhum"
    BY <1>0, <2>1 DEF TrabRef, FilaRef
  <2>3. \A s \in Agendadores : ag[s].job # j
    BY <1>0, <2>2 DEF AgRef, Agenda
  <2> HIDE DEF j
  <2>4. TypeOK'  BY <1>0, <2>1, <2>2 DEF TypeOK, Tarefa, Parado
  <2>5. AgRef' /\ AgDistintos'  BY <1>0, <2>1, <2>3 DEF AgRef, AgDistintos
  <2>6. TrabRef'  BY <1>0, <2>1, <2>2 DEF TrabRef, Parado
  <2>7. FilaRef'  BY <1>0, <2>1, <2>2 DEF FilaRef
  <2> QED  BY <2>4, <2>5, <2>6, <2>7
<1> QED
  BY <1>1, <1>2, <1>3, <1>4, <1>5 DEF Trabalhar, MarcarSucesso, MarcarErro

LEMMA Inv1Passo ==
    ASSUME Inv1, [Next]_vars
    PROVE  Inv1'
<1> USE NadaForaDosIds, EntregasPositivas DEF Inv1, linhas, broker
<1>0. /\ ag \in [Agendadores -> Agenda] /\ fila \in [Jobs -> 0..MaxEntregas]
      /\ entregas \in [Jobs -> 0..MaxEntregas] /\ trab \in [Trabalhadores -> Tarefa]
  BY DEF TypeOK
<1>1. ASSUME NEW s \in Agendadores, NEW r \in Referencias, Disparar(s, r) PROVE Inv1'
  <2>1. /\ ag' = [ag EXCEPT ![s] = [passo |-> "criar", ref |-> r, resta |-> Tenants, job |-> Nada]]
        /\ UNCHANGED <<linhas, feitos, broker, orfaos, trab>>
    BY <1>1 DEF Disparar
  <2>2. TypeOK'  BY <1>0, <2>1 DEF TypeOK, Agenda
  <2>3. AgRef' /\ AgDistintos'  BY <1>0, <2>1 DEF AgRef, AgDistintos
  <2>4. TrabRef' /\ FilaRef'  BY <2>1 DEF TrabRef, FilaRef
  <2> QED  BY <2>2, <2>3, <2>4
<1>2. ASSUME NEW s \in Agendadores, CairAgendador(s) PROVE Inv1'
  BY <1>0, <1>2 DEF CairAgendador, Abandonar, Inativa, TypeOK, Agenda, AgRef, AgDistintos, TrabRef, FilaRef
<1>3. ASSUME NEW j \in Jobs, Reentregar(j) PROVE Inv1'
  <2>1. /\ entregas[j] < MaxEntregas /\ entregas' = [entregas EXCEPT ![j] = @ + 1]
        /\ fila' = [fila EXCEPT ![j] = @ + 1] /\ UNCHANGED <<linhas, feitos, orfaos, ag, trab>>
    BY <1>3 DEF Reentregar
  <2>2. PICK w \in Trabalhadores : trab[w].job = j
    BY <1>3 DEF Reentregar
  <2>3. entregas[j] > 0 /\ fila[j] <= entregas[j] /\ status[j] # "nenhum"
    BY <1>0, <2>2 DEF TrabRef, FilaRef
  <2>4. \A s \in Agendadores : ag[s].job # j
    BY <1>0, <2>3 DEF AgRef, Agenda
  <2>5. TypeOK'  BY <1>0, <2>1, <2>3 DEF TypeOK
  <2>6. AgRef' /\ AgDistintos'  BY <1>0, <2>1, <2>4 DEF AgRef, AgDistintos
  <2>7. TrabRef' /\ FilaRef'  BY <1>0, <2>1, <2>3 DEF TrabRef, FilaRef
  <2> QED  BY <2>5, <2>6, <2>7
<1>4. CASE UNCHANGED vars
  BY <1>4 DEF vars, TypeOK, AgRef, AgDistintos, TrabRef, FilaRef
<1> QED
  BY <1>1, <1>2, <1>3, <1>4, Inv1Agenda, Inv1Trabalho DEF Next

\* TypeOK: every variable keeps its type; a message never has more copies than
\* the bound of its deliveries.
THEOREM Tipos == Spec => []TypeOK
<1>1. Inv1 => TypeOK
  BY DEF Inv1
<1> QED
  BY <1>1, Inv1Inicial, Inv1Passo, PTL DEF Spec

-----------------------------------------------------------------------------
\* A worker about to report success did the job.
SucessoFeito == \A w \in Trabalhadores : trab[w].passo = "sucesso" => trab[w].job \in feitos

InvFeito == SucessoFeito /\ ConcluidoFeito

LEMMA InvFeitoPasso ==
    ASSUME Inv1, InvFeito, [Next]_vars
    PROVE  InvFeito'
<1> USE DEF Inv1, TypeOK, InvFeito, SucessoFeito, ConcluidoFeito, linhas, broker, Tarefa, Parado
<1>1. ASSUME NEW s \in Agendadores, NEW r \in Referencias, Disparar(s, r) PROVE InvFeito'
  BY <1>1 DEF Disparar
<1>2. ASSUME NEW s \in Agendadores, CriarSeOcioso(s) PROVE InvFeito'
  BY <1>2 DEF CriarSeOcioso
<1>3. ASSUME NEW s \in Agendadores,
             CriarRecusado(s) \/ Despachar(s) \/ DespachoFalha(s) \/ CairAgendador(s)
      PROVE  InvFeito'
  BY <1>3 DEF CriarRecusado, Despachar, DespachoFalha, CairAgendador, Abandonar
<1>4. ASSUME NEW s \in Agendadores, MarcarDespacho(s) PROVE InvFeito'
  BY <1>4 DEF MarcarDespacho
<1>5. ASSUME NEW w \in Trabalhadores, NEW j \in Jobs, Receber(w, j) PROVE InvFeito'
  BY <1>5 DEF Receber
<1>6. ASSUME NEW w \in Trabalhadores, Rodar(w) PROVE InvFeito'
  BY <1>6 DEF Rodar
<1>7. ASSUME NEW w \in Trabalhadores, RodarErro(w) PROVE InvFeito'
  BY <1>7 DEF RodarErro
<1>8. ASSUME NEW w \in Trabalhadores, MarcarSucesso(w) PROVE InvFeito'
  BY <1>8 DEF MarcarSucesso, Marcar
<1>9. ASSUME NEW w \in Trabalhadores, MarcarErro(w) PROVE InvFeito'
  BY <1>9 DEF MarcarErro, Marcar
<1>10. ASSUME NEW w \in Trabalhadores, Cair(w) PROVE InvFeito'
  BY <1>10 DEF Cair
<1>11. ASSUME NEW j \in Jobs, Reentregar(j) PROVE InvFeito'
  BY <1>11 DEF Reentregar
<1>12. CASE UNCHANGED vars
  BY <1>12 DEF vars
<1> QED
  BY <1>1, <1>2, <1>3, <1>4, <1>5, <1>6, <1>7, <1>8, <1>9, <1>10, <1>11, <1>12
  DEF Next, Agendar, Trabalhar

\* ConcluidoFeito: a job says "concluido" only if the processor committed in
\* some run, whatever crashes, fails or is delivered again.
THEOREM ConcluidoFoiFeito == Spec => []ConcluidoFeito
<1>1. Init => InvFeito
  BY DEF Init, InvFeito, SucessoFeito, ConcluidoFeito, Parado
<1>2. InvFeito => ConcluidoFeito
  BY DEF InvFeito
<1> QED
  BY <1>1, <1>2, Inv1Inicial, Inv1Passo, InvFeitoPasso, PTL DEF Spec

-----------------------------------------------------------------------------
\* The steps that take a live job away from its owner give it another one or
\* end its life, or the scheduler that had it leaves it behind.
LEMMA DonoPasso ==
    ASSUME Inv1, VivoTemDono, [Next]_vars
    PROVE  VivoTemDono'
<1> USE NadaForaDosIds DEF Inv1, linhas, broker, Vivo, Vivos
<1>0. /\ ag \in [Agendadores -> Agenda] /\ fila \in [Jobs -> 0..MaxEntregas]
      /\ entregas \in [Jobs -> 0..MaxEntregas] /\ trab \in [Trabalhadores -> Tarefa]
      /\ status \in [Jobs -> {"enfileirado", "executando", "nenhum", "concluido", "falha"}]
  BY DEF TypeOK
<1>1. ASSUME NEW s \in Agendadores, NEW r \in Referencias, Disparar(s, r) PROVE VivoTemDono'
  BY <1>0, <1>1 DEF Disparar, VivoTemDono, AgRef
<1>2. ASSUME NEW s \in Agendadores, CriarSeOcioso(s) PROVE VivoTemDono'
  <2>1. ag[s].job = Nada /\ UNCHANGED <<feitos, broker, orfaos, trab>>
    BY <1>2 DEF CriarSeOcioso, AgRef
  <2>2. ASSUME NEW t \in ag[s].resta, Seguinte(s, ag[s].resta \ {t}), UNCHANGED linhas
        PROVE  VivoTemDono'
    <3>1. \A u \in Agendadores \ {s} : ag'[u] = ag[u]
      BY <2>2, SeguinteQuadro
    <3> QED  BY <2>1, <2>2, <3>1 DEF VivoTemDono
  <2>3. ASSUME NEW j \in Jobs, status' = [status EXCEPT ![j] = "enfileirado"],
               ag' = [ag EXCEPT ![s].passo = "despachar", ![s].job = j]
        PROVE  VivoTemDono'
    <3>1. (\A u \in Agendadores \ {s} : ag'[u] = ag[u]) /\ ag'[s].job = j
      BY <2>3, CriarQuadro
    <3> QED  BY <1>0, <2>1, <2>3, <3>1 DEF VivoTemDono
  <2> QED  BY <1>2, <2>2, <2>3 DEF CriarSeOcioso
<1>3. ASSUME NEW s \in Agendadores, CriarRecusado(s) PROVE VivoTemDono'
  BY <1>0, <1>3 DEF CriarRecusado, VivoTemDono, AgRef
<1>4. ASSUME NEW s \in Agendadores, Despachar(s) PROVE VivoTemDono'
  <2>1. \A u \in Agendadores \ {s} : ag'[u] = ag[u]
    BY <1>4, SeguinteQuadro DEF Despachar
  <2>2. ag[s].job \in Jobs
    BY <1>4 DEF Despachar, AgRef
  <2>3. fila' = [fila EXCEPT ![ag[s].job] = @ + 1] /\ UNCHANGED <<linhas, orfaos, trab>>
    BY <1>4 DEF Despachar
  <2> QED  BY <1>0, <2>1, <2>2, <2>3 DEF VivoTemDono
<1>5. ASSUME NEW s \in Agendadores, DespachoFalha(s) PROVE VivoTemDono'
  <2>1. /\ \A u \in Agendadores \ {s} : ag'[u] = ag[u]
        /\ \/ orfaos' = orfaos \cup ({ag[s].job} \cap Jobs)
           \/ ag'[s].job = ag[s].job /\ UNCHANGED orfaos
    BY <1>5, FalhaQuadro
  <2> QED  BY <1>5, <2>1 DEF DespachoFalha, VivoTemDono
<1>6. ASSUME NEW s \in Agendadores, MarcarDespacho(s) PROVE VivoTemDono'
  <2>1. \A u \in Agendadores \ {s} : ag'[u] = ag[u]
    BY <1>6, SeguinteQuadro DEF MarcarDespacho
  <2>2. status' = [status EXCEPT ![ag[s].job] = "falha"] /\ UNCHANGED <<broker, orfaos, trab>>
    BY <1>6 DEF MarcarDespacho
  <2> QED  BY <1>0, <2>1, <2>2 DEF VivoTemDono
<1>7. ASSUME NEW w \in Trabalhadores, NEW j \in Jobs, Receber(w, j) PROVE VivoTemDono'
  <2>1. trab[w].job = Nada
    BY <1>7 DEF Receber, TrabRef
  <2>2. /\ fila' = [fila EXCEPT ![j] = @ - 1] /\ UNCHANGED <<orfaos, ag>>
        /\ status' = [status EXCEPT ![j] = "executando"]
        /\ trab' = [trab EXCEPT ![w] = [passo |-> "rodar", job |-> j]]
    BY <1>7 DEF Receber
  <2>3. ASSUME NEW k \in Jobs, k # j, Vivo(k)', k \notin orfaos'
        PROVE  fila'[k] > 0 \/ (\E v \in Trabalhadores : trab'[v].job = k)
                 \/ (\E s \in Agendadores : ag'[s].job = k)
    <3>1. Vivo(k) /\ k \notin orfaos /\ fila'[k] = fila[k]
      BY <1>0, <2>2, <2>3
    <3>2. \A v \in Trabalhadores : trab[v].job = k => v # w /\ trab'[v] = trab[v]
      BY <1>0, <2>1, <2>2
    <3> QED  BY <2>2, <3>1, <3>2 DEF VivoTemDono
  <2>4. trab'[w].job = j
    BY <1>0, <2>2
  <2> QED  BY <2>3, <2>4 DEF VivoTemDono
<1>8. ASSUME NEW w \in Trabalhadores, Rodar(w) \/ RodarErro(w) PROVE VivoTemDono'
  <2>1. UNCHANGED <<linhas, broker, orfaos, ag>> /\ \A v \in Trabalhadores : trab'[v].job = trab[v].job
    BY <1>0, <1>8 DEF Rodar, RodarErro, Tarefa
  <2> QED  BY <2>1 DEF VivoTemDono
<1>9. ASSUME NEW w \in Trabalhadores, NEW p, NEW st \in {"concluido", "falha"}, Marcar(w, p, st)
      PROVE  VivoTemDono'
  BY <1>0, <1>9 DEF Marcar, VivoTemDono
<1>10. ASSUME NEW w \in Trabalhadores, Cair(w) PROVE VivoTemDono'
  BY <1>0, <1>10 DEF Cair, VivoTemDono
<1>11. ASSUME NEW j \in Jobs, Reentregar(j) PROVE VivoTemDono'
  BY <1>0, <1>11 DEF Reentregar, VivoTemDono
<1>12. CASE UNCHANGED vars
  BY <1>12 DEF vars, VivoTemDono
<1>13. ASSUME NEW s \in Agendadores, CairAgendador(s) PROVE VivoTemDono'
  <2>1. /\ \A u \in Agendadores \ {s} : ag'[u] = ag[u]
        /\ orfaos' = orfaos \cup ({ag[s].job} \cap Jobs)
        /\ UNCHANGED <<linhas, broker, trab>>
    BY <1>0, <1>13 DEF CairAgendador, Abandonar
  <2> QED  BY <2>1 DEF VivoTemDono
<1> QED
  BY <1>1, <1>2, <1>3, <1>4, <1>5, <1>6, <1>7, <1>8, <1>9, <1>10, <1>11, <1>12, <1>13
  DEF Next, Agendar, Trabalhar, MarcarSucesso, MarcarErro

\* VivoTemDono: a live job that its scheduler did not leave behind always has a
\* message, a worker or a scheduler, through any number of dead schedulers, crashed
\* workers, second deliveries and failed dispatches.
THEOREM VivoSempreTemDono == Spec => []VivoTemDono
<1>1. Init => VivoTemDono
  BY DEF Init, VivoTemDono, Vivo, Vivos
<1>2. Inv1 /\ VivoTemDono /\ [Next]_vars => VivoTemDono'
  BY DonoPasso
<1> QED
  BY <1>1, <1>2, Inv1Inicial, Inv1Passo, PTL DEF Spec

\* The row of a job tells the truth about its run.
THEOREM LinhaSempreConfere == Spec => []LinhaConfere
<1>1. ConcluidoFeito /\ VivoTemDono => LinhaConfere
  BY DEF LinhaConfere
<1> QED
  BY <1>1, ConcluidoFoiFeito, VivoSempreTemDono, PTL

-----------------------------------------------------------------------------
\* A job delivered at most once: its message waits only while it is queued and nobody
\* runs it, and one worker runs it, which marked it.
FilaViva ==
    \A j \in Jobs : entregas[j] <= 1 /\ fila[j] > 0 =>
        status[j] = "enfileirado" /\ \A w \in Trabalhadores : trab[w].job # j
TrabVivo ==
    \A w \in Trabalhadores : trab[w].job \in Jobs /\ entregas[trab[w].job] <= 1 =>
        status[trab[w].job] = "executando"
TrabDistintos ==
    \A v, w \in Trabalhadores :
        trab[v].job \in Jobs /\ entregas[trab[v].job] <= 1 /\ trab[v].job = trab[w].job => v = w

\* At most one live job of a tenant and reference was delivered at most once.
UmVivoPorChave ==
    \A j, k \in Jobs :
        /\ Vivo(j) /\ Vivo(k) /\ entregas[j] <= 1 /\ entregas[k] <= 1
        /\ DaChave(k, tenant[j], ref[j])
        => j = k

InvUnica == FilaViva /\ TrabVivo /\ TrabDistintos /\ UmVivoPorChave

\* A step that makes no job live, but one delivered again, writes no tenant and no
\* reference and takes no delivery back.
LEMMA ChaveQuadro ==
    ASSUME entregas \in [Jobs -> 0..MaxEntregas], UmVivoPorChave, UNCHANGED <<tenant, ref>>,
           \A j \in Jobs : /\ Vivo(j)' /\ entregas'[j] <= 1 => Vivo(j)
                           /\ entregas'[j] <= 1 => entregas[j] <= 1
    PROVE  UmVivoPorChave'
<1> SUFFICES ASSUME NEW j \in Jobs, NEW k \in Jobs, Vivo(j)', Vivo(k)',
                    entregas'[j] <= 1, entregas'[k] <= 1,
                    tenant'[k] = tenant'[j], ref'[k] = ref'[j]
             PROVE  j = k
  BY DEF UmVivoPorChave, DaChave
<1>1. Vivo(j) /\ Vivo(k) /\ entregas[j] <= 1 /\ entregas[k] <= 1
  OBVIOUS
<1>2. DaChave(k, tenant[j], ref[j])
  BY DEF DaChave
<1> QED  BY <1>1, <1>2 DEF UmVivoPorChave

LEMMA UnicaPasso ==
    ASSUME Inv1, InvUnica, [Next]_vars
    PROVE  InvUnica'
<1> USE NadaForaDosIds, EntregasPositivas DEF Inv1, InvUnica, linhas, broker
<1>0. /\ ag \in [Agendadores -> Agenda] /\ fila \in [Jobs -> 0..MaxEntregas]
      /\ entregas \in [Jobs -> 0..MaxEntregas] /\ trab \in [Trabalhadores -> Tarefa]
      /\ tenant \in [Jobs -> Tenants \cup {Nada}] /\ ref \in [Jobs -> Referencias \cup {Nada}]
      /\ status \in [Jobs -> {"enfileirado", "executando", "nenhum", "concluido", "falha"}]
  BY DEF TypeOK, Vivos
<1>1. ASSUME UNCHANGED <<linhas, fila, entregas, trab>> PROVE InvUnica'
  BY <1>1 DEF FilaViva, TrabVivo, TrabDistintos, UmVivoPorChave, Vivo, DaChave
<1>2. ASSUME NEW s \in Agendadores, CriarSeOcioso(s) PROVE InvUnica'
  <2>1. UNCHANGED <<feitos, broker, trab>>
    BY <1>2 DEF CriarSeOcioso
  <2>2. ASSUME NEW t \in ag[s].resta, NEW j \in Jobs, NovoId(j),
               ~ \E k \in Jobs : Vivo(k) /\ DaChave(k, t, ag[s].ref),
               status' = [status EXCEPT ![j] = "enfileirado"],
               tenant' = [tenant EXCEPT ![j] = t],
               ref' = [ref EXCEPT ![j] = ag[s].ref]
        PROVE  InvUnica'
    <3>1. status[j] = "nenhum" /\ entregas[j] = 0 /\ fila[j] = 0
      BY <1>0, <2>2 DEF NovoId, Livres, FilaRef
    <3>2. \A w \in Trabalhadores : trab[w].job # j
      BY <1>0, <3>1 DEF TrabRef, Tarefa
    <3>3. FilaViva' /\ TrabVivo' /\ TrabDistintos'
      BY <1>0, <2>1, <2>2, <3>1, <3>2 DEF FilaViva, TrabVivo, TrabDistintos
    <3>4. /\ \A k \in Jobs \ {j} : /\ status'[k] = status[k]
                                   /\ tenant'[k] = tenant[k] /\ ref'[k] = ref[k]
          /\ tenant'[j] = t /\ ref'[j] = ag[s].ref
      BY <1>0, <2>2
    <3>5. UmVivoPorChave'
      <4> SUFFICES ASSUME NEW k \in Jobs, NEW l \in Jobs, Vivo(k)', Vivo(l)',
                          entregas'[k] <= 1, entregas'[l] <= 1,
                          tenant'[l] = tenant'[k], ref'[l] = ref'[k]
                   PROVE  k = l
        BY DEF UmVivoPorChave, DaChave
      <4>1. CASE k # j /\ l # j
        <5>1. Vivo(k) /\ Vivo(l) /\ entregas[k] <= 1 /\ entregas[l] <= 1
          BY <2>1, <3>4, <4>1 DEF Vivo
        <5>2. DaChave(l, tenant[k], ref[k])
          BY <3>4, <4>1 DEF DaChave
        <5> QED  BY <5>1, <5>2 DEF UmVivoPorChave
      <4>2. CASE k = j /\ l # j
        BY <2>2, <3>4, <4>2 DEF Vivo, DaChave
      <4>3. CASE k # j /\ l = j
        BY <2>2, <3>4, <4>3 DEF Vivo, DaChave
      <4> QED  BY <4>1, <4>2, <4>3
    <3> QED  BY <3>3, <3>5
  <2> QED  BY <1>1, <1>2, <2>1, <2>2 DEF CriarSeOcioso
<1>3. ASSUME NEW s \in Agendadores, Despachar(s) PROVE InvUnica'
  <2>1. ag[s].job \in Jobs /\ status[ag[s].job] = "enfileirado" /\ entregas[ag[s].job] = 0
    BY <1>3 DEF Despachar, AgRef
  <2>2. /\ fila' = [fila EXCEPT ![ag[s].job] = @ + 1]
        /\ entregas' = [entregas EXCEPT ![ag[s].job] = @ + 1]
        /\ UNCHANGED <<linhas, trab>>
    BY <1>3 DEF Despachar
  <2>3. \A w \in Trabalhadores : trab[w].job # ag[s].job
    BY <1>0, <2>1 DEF TrabRef, Tarefa
  <2>4. FilaViva' /\ TrabVivo' /\ TrabDistintos'
    BY <1>0, <2>1, <2>2, <2>3 DEF FilaViva, TrabVivo, TrabDistintos
  <2>5. \A j \in Jobs : (Vivo(j)' => Vivo(j)) /\ (entregas'[j] <= 1 => entregas[j] <= 1)
    BY <1>0, <2>1, <2>2 DEF Vivo
  <2> QED  BY <1>0, <2>2, <2>4, <2>5, ChaveQuadro
<1>4. ASSUME NEW s \in Agendadores, MarcarDespacho(s) PROVE InvUnica'
  <2>1. ag[s].job \in Jobs /\ entregas[ag[s].job] = 0 /\ fila[ag[s].job] = 0
    BY <1>0, <1>4 DEF MarcarDespacho, AgRef, FilaRef
  <2>2. status' = [status EXCEPT ![ag[s].job] = "falha"] /\ UNCHANGED <<tenant, ref, broker, trab>>
    BY <1>4 DEF MarcarDespacho
  <2>3. \A w \in Trabalhadores : trab[w].job # ag[s].job
    BY <1>0, <2>1 DEF TrabRef, Tarefa
  <2>4. FilaViva' /\ TrabVivo' /\ TrabDistintos'
    BY <1>0, <2>1, <2>2, <2>3 DEF FilaViva, TrabVivo, TrabDistintos
  <2>5. \A j \in Jobs : Vivo(j)' => Vivo(j)
    BY <1>0, <2>2 DEF Vivo, Vivos
  <2> QED  BY <1>0, <2>2, <2>4, <2>5, ChaveQuadro
<1>5. ASSUME NEW w \in Trabalhadores, NEW j \in Jobs, Receber(w, j) PROVE InvUnica'
  <2>1. /\ fila[j] > 0 /\ fila' = [fila EXCEPT ![j] = @ - 1]
        /\ status' = [status EXCEPT ![j] = "executando"]
        /\ trab[w].passo = "ocioso"
        /\ trab' = [trab EXCEPT ![w] = [passo |-> "rodar", job |-> j]]
        /\ UNCHANGED <<tenant, ref, entregas>>
    BY <1>5 DEF Receber
  <2>2. entregas[j] <= 1 =>
           status[j] = "enfileirado" /\ fila'[j] = 0 /\ \A v \in Trabalhadores : trab[v].job # j
    <3> SUFFICES ASSUME entregas[j] <= 1
                 PROVE  status[j] = "enfileirado" /\ fila'[j] = 0
                           /\ \A v \in Trabalhadores : trab[v].job # j
      OBVIOUS
    <3>1. fila[j] \in Nat /\ entregas[j] \in Nat /\ fila[j] <= entregas[j] /\ fila[j] > 0
      BY <1>0, <2>1 DEF FilaRef
    <3>2. fila[j] = 1 /\ fila'[j] = fila[j] - 1
      BY <1>0, <2>1, <3>1
    <3> QED  BY <2>1, <3>1, <3>2 DEF FilaViva
  <2>3. FilaViva'  BY <1>0, <2>1, <2>2 DEF FilaViva
  <2>4. TrabVivo'  BY <1>0, <2>1, <2>2 DEF TrabVivo
  <2>5. TrabDistintos'  BY <1>0, <2>1, <2>2 DEF TrabDistintos
  <2>6. \A k \in Jobs : Vivo(k)' /\ entregas'[k] <= 1 => Vivo(k)
    BY <1>0, <2>1, <2>2 DEF Vivo, Vivos
  <2> QED  BY <1>0, <2>1, <2>3, <2>4, <2>5, <2>6, ChaveQuadro
<1>6. ASSUME NEW w \in Trabalhadores, Rodar(w) \/ RodarErro(w) PROVE InvUnica'
  <2>1. UNCHANGED <<linhas, broker>> /\ \A v \in Trabalhadores : trab'[v].job = trab[v].job
    BY <1>0, <1>6 DEF Rodar, RodarErro, Tarefa
  <2>2. FilaViva' /\ TrabVivo' /\ TrabDistintos'
    BY <2>1 DEF FilaViva, TrabVivo, TrabDistintos
  <2> QED  BY <2>1, <2>2 DEF UmVivoPorChave, Vivo, DaChave
<1>7. ASSUME NEW w \in Trabalhadores, NEW p \in {"sucesso", "erro"},
             NEW st \in {"concluido", "falha"}, Marcar(w, p, st)
      PROVE  InvUnica'
  <2>1. /\ trab[w].passo = p /\ status' = [status EXCEPT ![trab[w].job] = st]
        /\ trab' = [trab EXCEPT ![w] = Parado] /\ UNCHANGED <<tenant, ref, broker>>
    BY <1>7 DEF Marcar
  <2>2. trab[w].job \in Jobs
    BY <2>1 DEF TrabRef
  <2>3. FilaViva' /\ TrabDistintos'
    BY <1>0, <2>1, <2>2 DEF FilaViva, TrabDistintos, Parado
  <2>4. TrabVivo'
    BY <1>0, <2>1, <2>2 DEF TrabVivo, TrabDistintos, Parado
  <2>5. \A k \in Jobs : Vivo(k)' => Vivo(k)
    BY <1>0, <2>1 DEF Vivo, Vivos
  <2> QED  BY <1>0, <2>1, <2>3, <2>4, <2>5, ChaveQuadro
\* A second delivery: the job is no longer one of those the invariant is about.
<1>8. ASSUME NEW j \in Jobs, entregas[j] > 0, entregas' = [entregas EXCEPT ![j] = @ + 1],
             fila' = [fila EXCEPT ![j] = @ + 1], UNCHANGED linhas,
             \A v \in Trabalhadores : trab'[v].job \in {trab[v].job, Nada}
      PROVE  InvUnica'
  <2>1. entregas'[j] > 1 /\ \A k \in Jobs \ {j} : entregas'[k] = entregas[k] /\ fila'[k] = fila[k]
    BY <1>0, <1>8
  <2>2. FilaViva' /\ TrabVivo' /\ TrabDistintos'
    BY <1>0, <1>8, <2>1 DEF FilaViva, TrabVivo, TrabDistintos, Tarefa
  <2>3. \A k \in Jobs : (Vivo(k)' => Vivo(k)) /\ (entregas'[k] <= 1 => entregas[k] <= 1)
    BY <1>0, <1>8, <2>1 DEF Vivo
  <2> QED  BY <1>0, <1>8, <2>2, <2>3, ChaveQuadro
<1>9. ASSUME NEW w \in Trabalhadores, Cair(w) PROVE InvUnica'
  <2>1. trab[w].job \in Jobs /\ entregas[trab[w].job] > 0
    BY <1>9 DEF Cair, TrabRef
  <2>2. /\ entregas' = [entregas EXCEPT ![trab[w].job] = @ + 1]
        /\ fila' = [fila EXCEPT ![trab[w].job] = @ + 1] /\ UNCHANGED linhas
        /\ \A v \in Trabalhadores : trab'[v].job \in {trab[v].job, Nada}
    BY <1>0, <1>9 DEF Cair, Parado
  <2> QED  BY <1>8, <2>1, <2>2
<1>10. ASSUME NEW j \in Jobs, Reentregar(j) PROVE InvUnica'
  <2>1. entregas[j] > 0
    BY <1>0, <1>10 DEF Reentregar, TrabRef, Tarefa
  <2> QED  BY <1>8, <1>10, <2>1 DEF Reentregar
<1> QED
  BY <1>1, <1>2, <1>3, <1>4, <1>5, <1>6, <1>7, <1>9, <1>10
  DEF Next, Agendar, Trabalhar, Disparar, CairAgendador, CriarRecusado, DespachoFalha,
      MarcarSucesso, MarcarErro, vars

\* SimultaneosSoRepetidos: any number of overlapping schedulers, lost dispatches, dead
\* schedulers, crashed workers and second deliveries let two workers run the same job
\* of a tenant only if the message of one of them was delivered again.
THEOREM SemConcorrencia == Spec => []SimultaneosSoRepetidos
<1>1. Init => InvUnica
  <2>1. Init => FilaViva
    BY DEF Init, FilaViva
  <2>2. Init => TrabVivo /\ TrabDistintos
    BY NadaForaDosIds DEF Init, TrabVivo, TrabDistintos, Parado
  <2>3. Init => UmVivoPorChave
    BY DEF Init, UmVivoPorChave, Vivo, Vivos
  <2> QED  BY <2>1, <2>2, <2>3 DEF InvUnica
<1>2. Inv1 /\ InvUnica /\ [Next]_vars => InvUnica'
  BY UnicaPasso
<1>3. Inv1 /\ InvUnica => SimultaneosSoRepetidos
  <2> SUFFICES ASSUME Inv1, InvUnica, NEW v \in Trabalhadores, NEW w \in Trabalhadores,
                      trab[v].passo # "ocioso", trab[w].passo # "ocioso",
                      DaChave(trab[w].job, tenant[trab[v].job], ref[trab[v].job]),
                      ~(entregas[trab[v].job] > 1), ~(entregas[trab[w].job] > 1)
               PROVE  v = w
    BY DEF SimultaneosSoRepetidos
  <2>1. trab[v].job \in Jobs /\ trab[w].job \in Jobs
    BY DEF Inv1, TrabRef
  <2>2. entregas[trab[v].job] <= 1 /\ entregas[trab[w].job] <= 1
    BY <2>1, EntregasPositivas DEF Inv1, TypeOK
  <2>3. Vivo(trab[v].job) /\ Vivo(trab[w].job)
    BY <2>1, <2>2 DEF InvUnica, TrabVivo, Vivo, Vivos
  <2>4. trab[v].job = trab[w].job
    BY <2>1, <2>2, <2>3 DEF InvUnica, UmVivoPorChave
  <2> QED  BY <2>1, <2>2, <2>4 DEF InvUnica, TrabDistintos
<1> QED
  BY <1>1, <1>2, <1>3, Inv1Inicial, Inv1Passo, PTL DEF Spec

-----------------------------------------------------------------------------
(***************************************************************************)
(* Demands and the alerts of their deadlines.                              *)
(***************************************************************************)
FichaDemanda == [status : SituacoesD, resultado : Resultados \cup {Nulo}, prazo : Prazos \cup {Nulo}]
Edicao == [pc : {"livre", "lida", "feita"}, demanda : Demandas \cup {Nulo},
           lida : FichaDemanda \cup {Nulo}, pedido : Pedidos \cup {Nulo}]
Rodada == [pc : {"parada", "resolveu", "listou"}, dia : Prazos, resolver : SUBSET Chaves,
           criar : SUBSET Chaves]

TipoDemandas ==
    /\ demanda \in [Demandas -> FichaDemanda]
    /\ movimento \in [Demandas -> FichaDemanda \cup {Nulo}]
    /\ cruzada \in [Demandas -> {"nao", "sim"}]
    /\ edicao \in [Edicoes -> Edicao]
    /\ alertasPrazo \in [Chaves -> {"sem", "aberto", "resolvido"}]
    /\ hoje \in Prazos
    /\ rodada \in Rodada
    /\ emDia \in {"nao", "sim"}

TemResultado(f) == f.status \in Finais => f.resultado # Nulo

\* An edition has read a demand that was in order, as they all are.
LidaOK ==
    \A r \in Edicoes : edicao[r].pc = "lida" =>
        /\ edicao[r].demanda \in Demandas /\ edicao[r].pedido \in Pedidos
        /\ edicao[r].lida \in FichaDemanda /\ TemResultado(edicao[r].lida)

\* What a round of the job has read still holds while nothing overlaps it.
RodadaOK ==
    emDia = "sim" =>
        /\ rodada.pc \in {"resolveu", "listou"} =>
              /\ rodada.dia = hoje
              /\ rodada.resolver = {c \in Chaves : alertasPrazo[c] = "aberto" /\ ~Procede(c, hoje)}
        /\ rodada.pc = "listou" => rodada.criar = AVencer(hoje)

IInvDemandas == TipoDemandas /\ LidaOK /\ RodadaOK /\ DemandaConfere

LEMMA InicioDemandas == InitDemandas => IInvDemandas
<1> SUFFICES ASSUME InitDemandas PROVE IInvDemandas
  OBVIOUS
<1> USE DemandasAssumption
<1>1. TipoDemandas
  <2>1. [status : {Inicial}, resultado : {Nulo}, prazo : Prazos \cup {Nulo}] \subseteq FichaDemanda
    BY DEF FichaDemanda, SituacoesD
  <2>2. demanda \in [Demandas -> FichaDemanda]
    BY <2>1 DEF InitDemandas
  <2>3. EdicaoLivre \in Edicao /\ RodadaParada \in Rodada /\ hoje \in Prazos
    BY DEF Edicao, EdicaoLivre, Rodada, RodadaParada, Prazos, InitDemandas
  <2> QED
    BY <2>2, <2>3 DEF InitDemandas, TipoDemandas
<1>2. LidaOK /\ RodadaOK
  BY DEF InitDemandas, LidaOK, RodadaOK, EdicaoLivre
<1>3. \A d \in Demandas : demanda[d].status = Inicial
  BY DEF InitDemandas
<1>4. DemandaConfere
  BY <1>3 DEF InitDemandas, DemandaConfere, FinalTemResultado, MudancaTemMovimento, AlertasEmDia
<1> QED
  BY <1>1, <1>2, <1>4 DEF IInvDemandas

\* What an edition, accepted or refused, or an attendance does to the tables.
Gravacao(r) ==
    \E d \in Demandas, nova \in FichaDemanda, passou \in {"nao", "sim"} :
        /\ demanda' = [demanda EXCEPT ![d] = nova]
        /\ TemResultado(nova)
        /\ \/ movimento' = [movimento EXCEPT ![d] = nova]
           \/ movimento' = movimento /\ (nova = demanda[d] \/ passou = "sim")
        /\ cruzada' = IF passou = "sim" THEN [cruzada EXCEPT ![d] = "sim"] ELSE cruzada
        /\ emDia' = "nao" \/ (emDia' = emDia /\ nova = demanda[d])
        /\ edicao' = [edicao EXCEPT ![r] = [EdicaoLivre EXCEPT !.pc = "feita"]]
        /\ UNCHANGED <<alertasPrazo, hoje, rodada>>

LEMMA FichaEscrita ==
    ASSUME NEW f \in FichaDemanda, NEW p \in Pedidos
    PROVE  [status |-> Escrito(p.status, f.status), resultado |-> Escrito(p.resultado, f.resultado),
            prazo |-> Escrito(p.prazo, f.prazo)] \in FichaDemanda
<1>1. /\ p.status \in SituacoesD \cup {Manter}
      /\ p.resultado \in Resultados \cup {Nulo, Manter}
      /\ p.prazo \in Prazos \cup {Nulo, Manter}
  BY DemandasAssumption
<1>2. f.status \in SituacoesD /\ f.resultado \in Resultados \cup {Nulo} /\ f.prazo \in Prazos \cup {Nulo}
  BY DEF FichaDemanda
<1>3. /\ Escrito(p.status, f.status) \in SituacoesD
      /\ Escrito(p.resultado, f.resultado) \in Resultados \cup {Nulo}
      /\ Escrito(p.prazo, f.prazo) \in Prazos \cup {Nulo}
  BY <1>1, <1>2 DEF Escrito
<1> QED
  BY <1>3 DEF FichaDemanda

LEMMA EditarGrava ==
    ASSUME IInvDemandas, NEW r \in Edicoes, EditarDemanda(r)
    PROVE  Gravacao(r)
<1> DEFINE d == edicao[r].demanda
           lida == edicao[r].lida
           pedido == edicao[r].pedido
           nova == Atualizada(d, pedido)
<1>1. /\ d \in Demandas /\ pedido \in Pedidos /\ lida \in FichaDemanda /\ TemResultado(lida)
      /\ demanda[d] \in FichaDemanda /\ TemResultado(demanda[d])
  BY DEF EditarDemanda, IInvDemandas, LidaOK, TipoDemandas, DemandaConfere, FinalTemResultado, TemResultado
<1>2. nova \in FichaDemanda
  BY <1>1, FichaEscrita DEF Atualizada
<1>3. /\ edicao' = [edicao EXCEPT ![r] = [EdicaoLivre EXCEPT !.pc = "feita"]]
      /\ UNCHANGED <<alertasPrazo, hoje, rodada>>
  BY DEF EditarDemanda, Encerrar
<1>4. CASE Aceita(lida, nova, pedido)
  <2>1. /\ demanda' = [demanda EXCEPT ![d] = nova]
        /\ movimento' = IF lida = nova THEN movimento ELSE [movimento EXCEPT ![d] = nova]
        /\ cruzada' = IF lida = demanda[d] THEN cruzada ELSE [cruzada EXCEPT ![d] = "sim"]
        /\ emDia' = IF nova = demanda[d] THEN emDia ELSE "nao"
    BY <1>4 DEF EditarDemanda, Cruzar
  <2>2. TemResultado(nova)
    BY <1>1, <1>4 DEF Aceita, TemResultado
  <2> HIDE DEF d, lida, pedido, nova
  <2>3. CASE lida = demanda[d]
    BY <1>1, <1>2, <1>3, <2>1, <2>2, <2>3 DEF Gravacao
  <2>4. CASE lida # demanda[d]
    BY <1>1, <1>2, <1>3, <2>1, <2>2, <2>4 DEF Gravacao
  <2> QED  BY <2>3, <2>4
<1>5. CASE ~Aceita(lida, nova, pedido)
  <2>1. UNCHANGED <<demanda, movimento, cruzada, emDia>>
    BY <1>5 DEF EditarDemanda
  <2>2. demanda' = [demanda EXCEPT ![d] = demanda[d]]
    BY <2>1, <1>1 DEF IInvDemandas, TipoDemandas
  <2> HIDE DEF d, lida, pedido, nova
  <2> QED
    BY <1>1, <1>3, <2>1, <2>2 DEF Gravacao
<1> QED  BY <1>4, <1>5

LEMMA AtenderGrava ==
    ASSUME IInvDemandas, NEW r \in Edicoes, AtenderDemanda(r)
    PROVE  Gravacao(r)
<1> DEFINE d == edicao[r].demanda
           resultado == edicao[r].pedido.resultado
           nova == [demanda[d] EXCEPT !.resultado = resultado]
<1>1. d \in Demandas /\ demanda[d] \in FichaDemanda /\ resultado \in Resultados
  BY DEF AtenderDemanda, IInvDemandas, LidaOK, TipoDemandas
<1>2. nova \in FichaDemanda /\ nova.resultado = resultado
  BY <1>1 DEF FichaDemanda
<1>3. TemResultado(nova)
  BY <1>1, <1>2, DemandasAssumption DEF TemResultado
<1>4. /\ edicao' = [edicao EXCEPT ![r] = [EdicaoLivre EXCEPT !.pc = "feita"]]
      /\ UNCHANGED <<alertasPrazo, hoje, rodada>>
      /\ demanda' = [demanda EXCEPT ![d] = nova]
      /\ movimento' = [movimento EXCEPT ![d] = nova]
      /\ cruzada' = IF edicao[r].lida = demanda[d] THEN cruzada ELSE [cruzada EXCEPT ![d] = "sim"]
      /\ emDia' = IF nova = demanda[d] THEN emDia ELSE "nao"
  BY DEF AtenderDemanda, Encerrar, Cruzar
<1> HIDE DEF d, resultado, nova
<1>5. CASE edicao[r].lida = demanda[d]
  BY <1>1, <1>2, <1>3, <1>4, <1>5 DEF Gravacao
<1>6. CASE edicao[r].lida # demanda[d]
  BY <1>1, <1>2, <1>3, <1>4, <1>6 DEF Gravacao
<1> QED  BY <1>5, <1>6

LEMMA GravacaoMantem ==
    ASSUME IInvDemandas, NEW r \in Edicoes, Gravacao(r)
    PROVE  IInvDemandas'
<1> USE DEF IInvDemandas, TipoDemandas
<1>1. PICK d \in Demandas, nova \in FichaDemanda, passou \in {"nao", "sim"} :
        /\ demanda' = [demanda EXCEPT ![d] = nova]
        /\ TemResultado(nova)
        /\ \/ movimento' = [movimento EXCEPT ![d] = nova]
           \/ movimento' = movimento /\ (nova = demanda[d] \/ passou = "sim")
        /\ cruzada' = IF passou = "sim" THEN [cruzada EXCEPT ![d] = "sim"] ELSE cruzada
        /\ emDia' = "nao" \/ (emDia' = emDia /\ nova = demanda[d])
        /\ edicao' = [edicao EXCEPT ![r] = [EdicaoLivre EXCEPT !.pc = "feita"]]
        /\ UNCHANGED <<alertasPrazo, hoje, rodada>>
  BY DEF Gravacao
<1>2. [EdicaoLivre EXCEPT !.pc = "feita"] \in Edicao
  BY DEF EdicaoLivre, Edicao
<1>3. TipoDemandas'
  BY <1>1, <1>2
<1>4. LidaOK'
  BY <1>1 DEF LidaOK, EdicaoLivre
<1>5. emDia' = "sim" => emDia = "sim" /\ demanda' = demanda
  BY <1>1
<1>6. RodadaOK' /\ AlertasEmDia'
  <2>1. CASE emDia' = "sim"
    BY <1>1, <1>5, <2>1 DEF RodadaOK, DemandaConfere, AlertasEmDia, Procede, AVencer, EmPrazo
  <2>2. CASE emDia' # "sim"
    BY <2>2 DEF RodadaOK, AlertasEmDia
  <2> QED  BY <2>1, <2>2
<1>7. FinalTemResultado'
  BY <1>1 DEF DemandaConfere, FinalTemResultado, TemResultado
<1>8. MudancaTemMovimento'
  BY <1>1 DEF DemandaConfere, MudancaTemMovimento
<1> QED
  BY <1>3, <1>4, <1>6, <1>7, <1>8 DEF DemandaConfere

LEMMA LeituraMantem ==
    ASSUME IInvDemandas, NEW r \in Edicoes, NEW d \in Demandas, NEW pedido \in Pedidos,
           LerDemanda(r, d, pedido)
    PROVE  IInvDemandas'
<1> USE DEF IInvDemandas, TipoDemandas, LerDemanda
<1>1. demanda[d] \in FichaDemanda /\ TemResultado(demanda[d])
  BY DEF DemandaConfere, FinalTemResultado, TemResultado
<1> DEFINE x == [pc |-> "lida", demanda |-> d, lida |-> demanda[d], pedido |-> pedido]
<1>2. x \in Edicao
  BY <1>1 DEF Edicao
<1>3. /\ edicao' = [edicao EXCEPT ![r] = x]
      /\ UNCHANGED <<demanda, movimento, cruzada, alertasPrazo, hoje, rodada, emDia>>
  OBVIOUS
<1>4. x.demanda \in Demandas /\ x.pedido \in Pedidos /\ x.lida \in FichaDemanda /\ TemResultado(x.lida)
  BY <1>1
<1> HIDE DEF x
<1>5. TipoDemandas' /\ LidaOK'
  BY <1>2, <1>3, <1>4 DEF LidaOK
<1>6. RodadaOK' /\ DemandaConfere'
  BY <1>3 DEF RodadaOK, DemandaConfere, FinalTemResultado, MudancaTemMovimento, AlertasEmDia,
              Procede, AVencer, EmPrazo
<1> QED  BY <1>5, <1>6

\* The round of the job and the passing of the days.
LEMMA RodadaMantem ==
    ASSUME IInvDemandas,
           ResolverAlertas \/ ListarVencimentos \/ ConfirmarAlertas \/ PerderRodada \/ Amanhecer
    PROVE  IInvDemandas'
<1> USE DEF IInvDemandas, TipoDemandas
<1>1. UNCHANGED <<demanda, movimento, cruzada, edicao>>
  BY DEF ResolverAlertas, ListarVencimentos, ConfirmarAlertas, PerderRodada, Amanhecer
<1>2. LidaOK' /\ FinalTemResultado' /\ MudancaTemMovimento'
  BY <1>1 DEF LidaOK, DemandaConfere, FinalTemResultado, MudancaTemMovimento
<1>3. RodadaParada \in Rodada
  BY DemandasAssumption DEF RodadaParada, Rodada, Prazos
<1>4. CASE ResolverAlertas
  <2> DEFINE abertos == {c \in Chaves : alertasPrazo[c] = "aberto" /\ ~Procede(c, hoje)}
             x == [pc |-> "resolveu", dia |-> hoje, criar |-> {}, resolver |-> abertos]
  <2>1. /\ rodada' = x /\ x \in Rodada
        /\ UNCHANGED <<alertasPrazo, hoje>> /\ emDia' = "sim"
    BY <1>4 DEF ResolverAlertas, Rodada
  <2>2. TipoDemandas'
    BY <1>1, <2>1
  <2>3. abertos = {c \in Chaves : alertasPrazo[c] = "aberto" /\ ~Procede(c, hoje)}'
    BY <1>1, <2>1 DEF Procede, EmPrazo
  <2>4. RodadaOK' /\ AlertasEmDia'
    BY <2>1, <2>3 DEF RodadaOK, AlertasEmDia
  <2> QED  BY <1>2, <2>2, <2>4 DEF DemandaConfere
<1>5. CASE ListarVencimentos
  <2> DEFINE lista == AVencer(rodada.dia)
             x == [rodada EXCEPT !.pc = "listou", !.criar = lista]
  <2>1. /\ rodada.pc = "resolveu" /\ rodada' = x /\ x \in Rodada
        /\ UNCHANGED <<alertasPrazo, hoje, emDia>>
    BY <1>5 DEF ListarVencimentos, Rodada, AVencer
  <2>2. TipoDemandas'
    BY <1>1, <2>1
  <2>3. x.dia = rodada.dia /\ x.resolver = rodada.resolver /\ x.criar = lista /\ x.pc = "listou"
    BY DEF Rodada
  <2>4. lista = AVencer(rodada.dia)
    OBVIOUS
  <2>5. ASSUME emDia = "sim"
        PROVE  /\ rodada.dia = hoje
               /\ rodada.resolver = {c \in Chaves : alertasPrazo[c] = "aberto" /\ ~Procede(c, hoje)}'
               /\ lista = AVencer(hoje)'
    BY <1>1, <2>1, <2>5 DEF RodadaOK, AVencer, Procede, EmPrazo
  <2> HIDE DEF x, lista
  <2>6. RodadaOK' /\ AlertasEmDia'
    BY <2>1, <2>3, <2>5 DEF RodadaOK, AlertasEmDia
  <2> QED  BY <1>2, <2>2, <2>6 DEF DemandaConfere
<1>6. CASE ConfirmarAlertas
  <2>1. /\ rodada.pc = "listou" /\ rodada' = RodadaParada /\ alertasPrazo' = AlertasDepois
        /\ UNCHANGED <<hoje, emDia>>
    BY <1>6 DEF ConfirmarAlertas
  <2>2. TipoDemandas'
    BY <1>1, <1>3, <2>1 DEF AlertasDepois
  <2>3. RodadaOK'
    BY <2>1 DEF RodadaOK, RodadaParada
  <2>4. AlertasEmDia'
    <3> SUFFICES ASSUME emDia = "sim"
                 PROVE  /\ \A c \in Chaves : AlertasDepois[c] = "aberto" => Procede(c, hoje)
                        /\ \A c \in AVencer(hoje) : AlertasDepois[c] # "sem"
      BY <1>1, <2>1 DEF AlertasEmDia, Procede, AVencer, EmPrazo
    <3>1. /\ rodada.resolver = {c \in Chaves : alertasPrazo[c] = "aberto" /\ ~Procede(c, hoje)}
          /\ rodada.criar = AVencer(hoje)
      BY <2>1 DEF RodadaOK
    <3>2. \A c \in AVencer(hoje) : c \in Chaves /\ Procede(c, hoje)
      BY DEF AVencer, Procede
    <3> QED
      BY <3>1, <3>2 DEF AlertasDepois
  <2> QED  BY <1>2, <2>2, <2>3, <2>4 DEF DemandaConfere
<1>7. CASE PerderRodada \/ Amanhecer
  <2>1. emDia' = "nao" /\ alertasPrazo' = alertasPrazo
    BY <1>7 DEF PerderRodada, Amanhecer
  <2>2. hoje' \in Prazos /\ rodada' \in Rodada
    BY <1>3, <1>7, DemandasAssumption DEF PerderRodada, Amanhecer, Prazos
  <2>3. TipoDemandas' /\ RodadaOK' /\ AlertasEmDia'
    BY <1>1, <2>1, <2>2 DEF RodadaOK, AlertasEmDia
  <2> QED  BY <1>2, <2>3 DEF DemandaConfere
<1> QED  BY <1>4, <1>5, <1>6, <1>7

\* A closed demand has a result and a movement that tells how, and the alerts
\* follow the deadlines, for any number of demands, editions and days (update,
\* attendance and the job of jobs/demands.py).
THEOREM DemandaSempreConfere == SpecDemandas => []DemandaConfere
<1>1. IInvDemandas /\ [NextDemandas]_varsDemandas => IInvDemandas'
  <2> SUFFICES ASSUME IInvDemandas, [NextDemandas]_varsDemandas PROVE IInvDemandas'
    OBVIOUS
  <2>1. CASE NextDemandas
    BY <2>1, LeituraMantem, EditarGrava, AtenderGrava, GravacaoMantem, RodadaMantem DEF NextDemandas
  <2>2. CASE UNCHANGED varsDemandas
    BY <2>2 DEF varsDemandas, IInvDemandas, TipoDemandas, LidaOK, RodadaOK, DemandaConfere,
                FinalTemResultado, MudancaTemMovimento, AlertasEmDia, Procede, AVencer, EmPrazo
  <2> QED  BY <2>1, <2>2
<1>2. IInvDemandas => DemandaConfere
  BY DEF IInvDemandas
<1> QED
  BY InicioDemandas, <1>1, <1>2, PTL DEF SpecDemandas

-----------------------------------------------------------------------------
(***************************************************************************)
(* The aggregates of an election and the cache in front of them.           *)
(***************************************************************************)
Controle == [status : {"pending", "ready"}, geracao : Geracoes \cup {0}]
Obreiro == [pc : {"livre", "listado", "tomado", "fotografado", "falhou"},
            geracao : Geracoes \cup {0}, foto : Versoes]
PassosLeitor == {"novo", "chaveado", "perdeu", "espera", "produz", "guarda", "solta", "feito"}
Respondido == Versoes \cup {Vazio, Ausente}
Leitor == [pc : PassosLeitor, chave : ChavesCache \cup {Ausente}, valor : Respondido,
           expirou : {"nao", "sim"}]

TipoRollup ==
    /\ fonte \in Versoes /\ pedida \in Versoes /\ sequencia \in Nat
    /\ controle \in Controle
    /\ agregado \in [Geracoes -> Versoes \cup {Ausente}]
    /\ obreiro \in [Obreiros -> Obreiro]
    /\ leitor \in [Leitores -> Leitor]
    /\ cache \in [ChavesCache -> Respondido]
    /\ trava \in [ChavesCache -> Leitores \cup {Ausente}]

\* One worker at a time has the row, which is pending until it commits, and the
\* generation it has drawn is newer than any other.
LinhaRollupOK ==
    /\ \A v, w \in ComLinha : v = w
    /\ ComLinha # {} => ~Pronto
    /\ pedida <= fonte
    /\ controle.geracao <= sequencia
    /\ Pronto => controle.geracao \in Geracoes /\ agregado[controle.geracao] \in Versoes
    /\ \A w \in Obreiros : obreiro[w].pc = "fotografado" =>
          /\ obreiro[w].geracao \in Geracoes
          /\ controle.geracao < obreiro[w].geracao /\ obreiro[w].geracao <= sequencia
          /\ pedida <= obreiro[w].foto

\* Nobody reads or stores under a generation that is not active yet.
ChavesOK ==
    /\ \A l \in Leitores : /\ leitor[l].pc # "novo" => leitor[l].chave \in ChavesCache
                           /\ leitor[l].chave \in Geracoes => leitor[l].chave <= controle.geracao
    /\ \A k \in Geracoes : cache[k] # Ausente => k <= controle.geracao

\* A reader about to store under the active generation computed from it.
GuardaOK ==
    Pronto => \A l \in Leitores :
        leitor[l].pc = "guarda" /\ leitor[l].chave = controle.geracao =>
            leitor[l].valor = agregado[controle.geracao]

\* Who produces a key has its lock, unless it expired.
TravaOK ==
    /\ \A l \in Leitores :
          leitor[l].pc \in {"produz", "guarda", "solta"} /\ leitor[l].expirou = "nao" =>
              trava[leitor[l].chave] = l
    /\ \A k \in ChavesCache : trava[k] # Ausente =>
          leitor[trava[k]].pc # "novo" /\ leitor[trava[k]].chave = k

IInvRollup ==
    TipoRollup /\ LinhaRollupOK /\ ChavesOK /\ GuardaOK /\ TravaOK /\ RollupEmDia /\ EntradaDaGeracao

LEMMA InicioRollup == InitRollup => IInvRollup
<1> SUFFICES ASSUME InitRollup PROVE IInvRollup
  OBVIOUS
<1> USE RollupAssumption DEF InitRollup, Controle
<1>1. ObreiroLivre \in Obreiro /\ LeitorNovo \in Leitor
  BY DEF ObreiroLivre, LeitorNovo, Obreiro, Leitor, PassosLeitor, Respondido, Versoes
<1>2. TipoRollup
  BY <1>1 DEF TipoRollup, Versoes, Respondido
<1>3. ComLinha = {} /\ ~Pronto
  BY DEF ComLinha, Pronto, ObreiroLivre
<1>4. LinhaRollupOK
  BY <1>3 DEF LinhaRollupOK, ObreiroLivre
<1>5. ChavesOK
  BY DEF ChavesOK, LeitorNovo, ChavesCache
<1>6. TravaOK
  BY DEF TravaOK, LeitorNovo
<1> QED
  BY <1>2, <1>3, <1>4, <1>5, <1>6 DEF IInvRollup, GuardaOK, RollupEmDia, EntradaDaGeracao

\* What the readers hold does not change while the source and the workers do.
LEMMA LeitoresParados ==
    ASSUME IInvRollup, UNCHANGED <<leitor, cache, trava>>, controle' \in Controle,
           controle.geracao <= controle'.geracao
    PROVE  ChavesOK' /\ TravaOK'
<1>1. controle.geracao \in Int /\ controle'.geracao \in Int
  BY DEF IInvRollup, TipoRollup, Controle, Geracoes
<1>2. ChavesOK'
  BY <1>1 DEF IInvRollup, ChavesOK, Geracoes
<1>3. TravaOK'
  BY DEF IInvRollup, TravaOK
<1> QED  BY <1>2, <1>3

\* Steps that publish nothing: the active generation keeps its aggregates.
LEMMA SemPublicar ==
    ASSUME IInvRollup, UNCHANGED <<agregado, leitor, cache, trava>>,
           controle'.geracao = controle.geracao,
           controle' \in Controle,
           controle'.status = "ready" => controle.status = "ready" /\ pedida' = pedida
    PROVE  ChavesOK' /\ TravaOK' /\ GuardaOK' /\ RollupEmDia' /\ EntradaDaGeracao'
<1>1. ChavesOK' /\ TravaOK'
  BY LeitoresParados DEF IInvRollup, TipoRollup, Controle, Geracoes
<1>2. GuardaOK' /\ RollupEmDia' /\ EntradaDaGeracao'
  BY DEF IInvRollup, Pronto, GuardaOK, RollupEmDia, EntradaDaGeracao
<1> QED  BY <1>1, <1>2

LEMMA FontePasso ==
    ASSUME IInvRollup, Carregar \/ PedirRefresh
    PROVE  IInvRollup'
<1> USE RollupAssumption DEF IInvRollup, TipoRollup, Controle
<1>1. /\ UNCHANGED <<agregado, leitor, cache, trava, obreiro, sequencia>>
      /\ controle'.geracao = controle.geracao
      /\ controle' \in Controle
      /\ controle'.status = "ready" => controle.status = "ready" /\ pedida' = pedida
      /\ ComLinha' = ComLinha
      /\ fonte' \in Versoes /\ fonte <= fonte' /\ pedida' \in Versoes
  BY DEF Carregar, PedirRefresh, ComLinha, Versoes
<1>2. TipoRollup'
  BY <1>1
<1>3. LinhaRollupOK'
  <2>1. CASE Carregar
    BY <1>1, <2>1 DEF Carregar, LinhaRollupOK, Pronto, Versoes
  <2>2. CASE PedirRefresh
    <3>1. controle'.status = "pending" /\ pedida' = fonte /\ fonte' = fonte /\ ComLinha = {}
      BY <2>2 DEF PedirRefresh
    <3>2. \A w \in Obreiros : obreiro[w].pc # "fotografado"
      BY <3>1 DEF ComLinha
    <3> QED  BY <1>1, <3>1, <3>2 DEF LinhaRollupOK, Pronto, Versoes
  <2> QED  BY <2>1, <2>2
<1> QED  BY <1>1, <1>2, <1>3, SemPublicar

LEMMA Fotografa ==
    ASSUME IInvRollup, NEW w \in Obreiros, Fotografar(w)
    PROVE  IInvRollup'
<1> USE RollupAssumption DEF IInvRollup, TipoRollup, Controle
<1> DEFINE x == [pc |-> "fotografado", geracao |-> sequencia + 1, foto |-> fonte]
<1>1. /\ obreiro[w].pc = "tomado" /\ sequencia + 1 \in Geracoes
      /\ sequencia' = sequencia + 1 /\ obreiro' = [obreiro EXCEPT ![w] = x]
      /\ UNCHANGED <<fonte, pedida, controle, agregado, leitor, cache, trava>>
  BY DEF Fotografar, GeracaoNova
<1>2. x \in Obreiro /\ x.pc = "fotografado" /\ x.geracao = sequencia + 1 /\ x.foto = fonte
  BY <1>1 DEF Obreiro
<1> HIDE DEF x
<1>3. TipoRollup'
  BY <1>1, <1>2
<1>4. ComLinha' = ComLinha /\ w \in ComLinha
  BY <1>1, <1>2 DEF ComLinha
<1>5. LinhaRollupOK'
  BY <1>1, <1>2, <1>4 DEF LinhaRollupOK, Pronto, Geracoes, Versoes
<1>6. Pronto' = Pronto
  BY <1>1 DEF Pronto
<1> QED  BY <1>1, <1>3, <1>5, <1>6, SemPublicar DEF Pronto

LEMMA Publica ==
    ASSUME IInvRollup, NEW w \in Obreiros, Publicar(w)
    PROVE  IInvRollup'
<1> USE RollupAssumption DEF IInvRollup, TipoRollup, Controle
<1> DEFINE g == obreiro[w].geracao
           f == obreiro[w].foto
<1>1. PICK resposta \in {"livre", "falhou"} :
         obreiro' = [obreiro EXCEPT ![w] = [ObreiroLivre EXCEPT !.pc = resposta]]
  BY DEF Publicar
<1>2. /\ obreiro[w].pc = "fotografado"
      /\ agregado' = [h \in Geracoes |-> IF h = g THEN f
                                         ELSE IF h = controle.geracao THEN Ausente ELSE agregado[h]]
      /\ controle' = [status |-> "ready", geracao |-> g]
      /\ UNCHANGED <<fonte, pedida, sequencia, leitor, cache, trava>>
  BY DEF Publicar
<1>3. g \in Geracoes /\ controle.geracao < g /\ g <= sequencia /\ pedida <= f /\ f \in Versoes
  BY <1>2 DEF LinhaRollupOK, Obreiro
<1>4. w \in ComLinha /\ ComLinha = {w}
  BY <1>2 DEF LinhaRollupOK, ComLinha
<1>5. [ObreiroLivre EXCEPT !.pc = resposta] \in Obreiro
  BY DEF ObreiroLivre, Obreiro, Versoes
<1> HIDE DEF g, f
<1>6. TipoRollup'
  BY <1>1, <1>2, <1>3, <1>5
<1>7. ComLinha' = {}
  BY <1>1, <1>4 DEF ComLinha, ObreiroLivre
<1>8. controle'.geracao = g /\ agregado'[g] = f
  BY <1>2, <1>3
<1>9. LinhaRollupOK'
  <2>1. \A v \in Obreiros : obreiro'[v].pc # "fotografado"
    BY <1>7 DEF ComLinha
  <2> QED
    BY <1>2, <1>3, <1>7, <1>8, <2>1 DEF LinhaRollupOK
<1>10. ChavesOK' /\ TravaOK'
  BY <1>2, <1>3, <1>6, <1>8, LeitoresParados DEF Geracoes
<1>11. RollupEmDia'
  BY <1>2, <1>3, <1>8 DEF RollupEmDia, Versoes
<1>12. cache[g] = Ausente /\ \A l \in Leitores : leitor[l].chave # g
  BY <1>3 DEF ChavesOK, Geracoes
<1>13. EntradaDaGeracao' /\ GuardaOK'
  BY <1>2, <1>8, <1>12 DEF EntradaDaGeracao, GuardaOK
<1> QED  BY <1>6, <1>9, <1>10, <1>11, <1>13

LEMMA ObreiroPasso ==
    ASSUME IInvRollup, NEW w \in Obreiros,
           ListarPendentes(w) \/ Tomar(w) \/ FalharRefresh(w) \/ RegistrarFalha(w)
    PROVE  IInvRollup'
<1> USE RollupAssumption DEF IInvRollup, TipoRollup, Controle
<1>1. PICK x \in Obreiro :
        /\ obreiro' = [obreiro EXCEPT ![w] = x]
        /\ x.pc # "fotografado"
        /\ x.pc = "tomado" => ComLinha = {} /\ ~Pronto
  <2>1. CASE ListarPendentes(w)
    <3>1. [obreiro[w] EXCEPT !.pc = "listado"] \in Obreiro
      BY DEF Obreiro
    <3> QED
      BY <2>1, <3>1 DEF ListarPendentes, Obreiro
  <2>2. CASE Tomar(w)
    <3> DEFINE p == IF PodeTomar THEN "tomado" ELSE "livre"
               y == [obreiro[w] EXCEPT !.pc = p]
    <3>1. p \in {"tomado", "livre"} /\ (p = "tomado" => ComLinha = {} /\ ~Pronto)
      BY DEF PodeTomar, Pronto
    <3>2. obreiro' = [obreiro EXCEPT ![w] = y]
      BY <2>2 DEF Tomar
    <3> HIDE DEF p
    <3>3. y \in Obreiro /\ y.pc = p
      BY <3>1 DEF Obreiro
    <3> HIDE DEF y
    <3> QED
      BY <3>1, <3>2, <3>3
  <2>3. CASE FalharRefresh(w) \/ RegistrarFalha(w)
    <3>1. ObreiroLivre \in Obreiro /\ [ObreiroLivre EXCEPT !.pc = "falhou"] \in Obreiro
      BY DEF ObreiroLivre, Obreiro, Versoes
    <3> QED
      BY <2>3, <3>1 DEF FalharRefresh, RegistrarFalha, ObreiroLivre
  <2> QED  BY <2>1, <2>2, <2>3
<1>2. /\ UNCHANGED <<fonte, pedida, agregado, sequencia, leitor, cache, trava>>
      /\ controle'.geracao = controle.geracao
      /\ controle' \in Controle
      /\ controle'.status = "ready" => controle.status = "ready"
  BY DEF ListarPendentes, Tomar, FalharRefresh, RegistrarFalha
<1>3. TipoRollup'
  BY <1>1, <1>2
<1>4. \A v \in Obreiros : obreiro'[v].pc = "fotografado" =>
         obreiro[v].pc = "fotografado" /\ obreiro'[v] = obreiro[v]
  BY <1>1
<1>5. ComLinha' \subseteq ComLinha \/ (ComLinha = {} /\ ~Pronto /\ ComLinha' = {w})
  BY <1>1 DEF ComLinha
<1>6. LinhaRollupOK'
  BY <1>2, <1>4, <1>5 DEF LinhaRollupOK, Pronto
<1> QED  BY <1>2, <1>3, <1>6, SemPublicar

\* What a step of the readers needs of the rest.
LEMMA LeituraRollup ==
    ASSUME IInvRollup, UNCHANGED varsBanco, leitor' \in [Leitores -> Leitor],
           cache' \in [ChavesCache -> Respondido], trava' \in [ChavesCache -> Leitores \cup {Ausente}],
           ChavesOK', GuardaOK', TravaOK', EntradaDaGeracao'
    PROVE  IInvRollup'
<1>1. LinhaRollupOK' /\ RollupEmDia'
  BY DEF varsBanco, IInvRollup, LinhaRollupOK, RollupEmDia, Pronto, ComLinha
<1> QED
  BY <1>1 DEF varsBanco, IInvRollup, TipoRollup

LEMMA Identifica ==
    ASSUME IInvRollup, NEW l \in Leitores, Identificar(l)
    PROVE  IInvRollup'
<1> USE RollupAssumption DEF IInvRollup, TipoRollup, Controle
<1> DEFINE k == IF Pronto THEN controle.geracao ELSE Cru
           x == [leitor[l] EXCEPT !.pc = "chaveado", !.chave = k]
<1>1. leitor[l].pc = "novo" /\ leitor' = [leitor EXCEPT ![l] = x] /\ UNCHANGED <<varsBanco, cache, trava>>
  BY DEF Identificar
<1>2. k \in ChavesCache /\ (k \in Geracoes => k = controle.geracao)
  BY DEF LinhaRollupOK, ChavesCache
<1> HIDE DEF k
<1>3. x \in Leitor /\ x.pc = "chaveado" /\ x.chave = k
  <2>1. leitor[l] \in Leitor
    OBVIOUS
  <2>2. k \in ChavesCache \cup {Ausente} /\ "chaveado" \in PassosLeitor
    BY <1>2 DEF PassosLeitor
  <2> QED
    BY <2>1, <2>2 DEF Leitor
<1>4. \A c \in ChavesCache : trava[c] # l
  BY <1>1 DEF TravaOK
<1> HIDE DEF x
<1>5. ChavesOK'
  BY <1>1, <1>2, <1>3 DEF ChavesOK, Geracoes, varsBanco
<1>6. GuardaOK' /\ EntradaDaGeracao'
  BY <1>1, <1>3 DEF GuardaOK, EntradaDaGeracao, varsBanco, Pronto
<1>7. TravaOK'
  BY <1>1, <1>3, <1>4 DEF TravaOK
<1> QED  BY <1>1, <1>3, <1>5, <1>6, <1>7, LeituraRollup

\* A reader goes on to another step with its key, and neither stores nor locks.
LEMMA Adiante ==
    ASSUME IInvRollup, NEW l \in Leitores, leitor[l].pc # "novo", NEW x \in Leitor,
           leitor' = [leitor EXCEPT ![l] = x], UNCHANGED <<varsBanco, cache>>,
           x.chave = leitor[l].chave, x.expirou = leitor[l].expirou, x.pc # "novo",
           x.pc = "guarda" => /\ leitor[l].pc = "produz"
                              /\ Pronto /\ x.chave = controle.geracao =>
                                    x.valor = agregado[controle.geracao],
           trava' \in [ChavesCache -> Leitores \cup {Ausente}],
           TravaOK'
    PROVE  IInvRollup'
<1> USE DEF IInvRollup, TipoRollup
<1>1. ChavesOK'
  BY DEF ChavesOK, varsBanco
<1>2. GuardaOK' /\ EntradaDaGeracao'
  BY DEF GuardaOK, EntradaDaGeracao, varsBanco, Pronto
<1> QED  BY <1>1, <1>2, LeituraRollup

LEMMA Respondeu ==
    ASSUME IInvRollup, NEW l \in Leitores,
           ConsultarCache(l) \/ Esperar(l) \/ ProduzirFora(l) \/ Produzir(l)
    PROVE  IInvRollup'
<1> USE RollupAssumption DEF IInvRollup, TipoRollup, Controle
<1> DEFINE k == leitor[l].chave
<1>0. leitor[l].pc \in {"chaveado", "espera", "perdeu", "produz"}
  BY DEF ConsultarCache, Esperar, ProduzirFora, Produzir
<1>1. k \in ChavesCache
  BY <1>0 DEF ChavesOK
<1>2. Dados(k) \in Respondido
  BY DEF Dados, LinhaRollupOK, Respondido
<1>3. cache[k] \in Respondido
  BY <1>1
<1>4. PICK p \in PassosLeitor, v \in Respondido :
        /\ leitor' = [leitor EXCEPT ![l].pc = p, ![l].valor = v]
        /\ UNCHANGED <<varsBanco, cache, trava>>
        /\ p \in {"feito", "perdeu"} \/ (p = "guarda" /\ leitor[l].pc = "produz" /\ v = Dados(k))
  <2>1. CASE ConsultarCache(l)
    <3>1. CASE cache[k] # Ausente
      BY <1>3, <2>1, <3>1 DEF ConsultarCache, PassosLeitor
    <3>2. CASE cache[k] = Ausente
      BY <1>3, <2>1, <3>2 DEF ConsultarCache, PassosLeitor
    <3> QED  BY <3>1, <3>2
  <2>2. CASE Esperar(l)
    BY <1>3, <2>2 DEF Esperar, PassosLeitor
  <2>3. CASE ProduzirFora(l)
    BY <1>2, <2>3 DEF ProduzirFora, PassosLeitor
  <2>4. CASE Produzir(l)
    BY <1>2, <2>4 DEF Produzir, PassosLeitor
  <2> QED  BY <2>1, <2>2, <2>3, <2>4
<1> DEFINE x == [leitor[l] EXCEPT !.pc = p, !.valor = v]
<1>5. /\ leitor' = [leitor EXCEPT ![l] = x] /\ x \in Leitor
      /\ x.pc = p /\ x.valor = v /\ x.chave = k /\ x.expirou = leitor[l].expirou
  BY <1>4 DEF Leitor
<1>6. Pronto /\ k = controle.geracao => Dados(k) = agregado[controle.geracao]
  BY DEF Dados, LinhaRollupOK
<1> HIDE DEF x
<1>7. TravaOK'
  <2>1. trava' = trava /\ \A m \in Leitores \ {l} : leitor'[m] = leitor[m]
    BY <1>4, <1>5
  <2>2. leitor'[l] = x
    BY <1>5
  <2>3. x.pc \in {"produz", "guarda", "solta"} => leitor[l].pc = "produz"
    BY <1>4, <1>5
  <2>4. leitor[l].pc = "produz" /\ leitor[l].expirou = "nao" => trava[leitor[l].chave] = l
    BY DEF TravaOK
  <2>5. \A m \in Leitores : leitor'[m].chave = leitor[m].chave /\ leitor'[m].expirou = leitor[m].expirou
    BY <1>5, <2>1, <2>2
  <2>6. \A m \in Leitores : leitor'[m].pc \in {"produz", "guarda", "solta"} =>
            leitor[m].pc \in {"produz", "guarda", "solta"}
    BY <2>1, <2>2, <2>3
  <2>7. \A m \in Leitores : leitor[m].pc # "novo" => leitor'[m].pc # "novo"
    BY <1>4, <1>5, <2>1, <2>2
  <2> QED
    BY <2>1, <2>5, <2>6, <2>7 DEF TravaOK
<1>8. x.pc = "guarda" => /\ leitor[l].pc = "produz"
                         /\ Pronto /\ x.chave = controle.geracao => x.valor = agregado[controle.geracao]
  BY <1>4, <1>5, <1>6
<1>9. leitor[l].pc # "novo" /\ x.pc # "novo" /\ x.chave = leitor[l].chave
  BY <1>0, <1>4, <1>5
<1>10. trava' \in [ChavesCache -> Leitores \cup {Ausente}] /\ UNCHANGED <<varsBanco, cache>>
  BY <1>4
<1> QED  BY <1>5, <1>7, <1>8, <1>9, <1>10, Adiante

LEMMA TravaTomada ==
    ASSUME IInvRollup, NEW l \in Leitores, Travar(l)
    PROVE  IInvRollup'
<1> USE RollupAssumption DEF IInvRollup, TipoRollup, Controle
<1> DEFINE k == leitor[l].chave
           p == IF trava[k] = Ausente THEN "produz" ELSE "espera"
           x == [leitor[l] EXCEPT !.pc = p]
<1>1. /\ leitor[l].pc = "perdeu" /\ leitor' = [leitor EXCEPT ![l] = x]
      /\ trava' = IF trava[k] = Ausente THEN [trava EXCEPT ![k] = l] ELSE trava
      /\ UNCHANGED <<varsBanco, cache>>
  BY DEF Travar
<1>2. k \in ChavesCache
  BY <1>1 DEF ChavesOK
<1>3. x \in Leitor /\ x.pc = p /\ x.chave = k /\ x.expirou = leitor[l].expirou
  BY DEF Leitor, PassosLeitor
<1>4. TravaOK'
  <2>1. CASE trava[k] = Ausente
    <3>1. \A m \in Leitores \ {l} : leitor[m].pc \in {"produz", "guarda", "solta"}
             /\ leitor[m].expirou = "nao" => leitor[m].chave # k
      BY <2>1 DEF TravaOK
    <3>2. trava' = [trava EXCEPT ![k] = l] /\ p = "produz"
      BY <1>1, <2>1
    <3>3. k = leitor[l].chave
      OBVIOUS
    <3> HIDE DEF x, k, p
    <3> QED  BY <1>1, <1>2, <1>3, <2>1, <3>1, <3>2, <3>3 DEF TravaOK, ChavesOK
  <2>2. CASE trava[k] # Ausente
    <3>1. trava' = trava /\ p = "espera"
      BY <1>1, <2>2
    <3>2. k = leitor[l].chave
      OBVIOUS
    <3> HIDE DEF x, k, p
    <3> QED  BY <1>1, <1>2, <1>3, <3>1, <3>2 DEF TravaOK, ChavesOK
  <2> QED  BY <2>1, <2>2
<1>5. trava' \in [ChavesCache -> Leitores \cup {Ausente}]
  BY <1>1
<1>6. p # "guarda" /\ p # "novo"
  OBVIOUS
<1> HIDE DEF x, p
<1> QED  BY <1>1, <1>3, <1>4, <1>5, <1>6, Adiante

LEMMA Guarda ==
    ASSUME IInvRollup, NEW l \in Leitores, GuardarCache(l)
    PROVE  IInvRollup'
<1> USE RollupAssumption DEF IInvRollup, TipoRollup, Controle
<1> DEFINE k == leitor[l].chave
           v == leitor[l].valor
           x == [leitor[l] EXCEPT !.pc = "solta"]
<1>1. /\ leitor[l].pc = "guarda" /\ leitor' = [leitor EXCEPT ![l] = x]
      /\ cache' = cache \/ cache' = [cache EXCEPT ![k] = v]
      /\ UNCHANGED <<varsBanco, trava>>
  BY DEF GuardarCache
<1>2. k \in ChavesCache /\ v \in Respondido
  BY <1>1 DEF ChavesOK, Leitor
<1>3. x \in Leitor /\ x.pc = "solta" /\ x.chave = k /\ x.expirou = leitor[l].expirou
  BY DEF Leitor, PassosLeitor
<1>4. Pronto /\ k = controle.geracao => v = agregado[controle.geracao]
  BY <1>1 DEF GuardaOK
<1>5. k \in Geracoes => k <= controle.geracao
  BY DEF ChavesOK
<1>0. k = leitor[l].chave
  OBVIOUS
<1> HIDE DEF x, k, v
<1>6. leitor' \in [Leitores -> Leitor] /\ cache' \in [ChavesCache -> Respondido]
  BY <1>1, <1>2, <1>3
<1>7. ChavesOK'
  <2>1. controle' = controle
    BY <1>1 DEF varsBanco
  <2>2. \A m \in Leitores : /\ leitor'[m].pc # "novo" => leitor[m].pc # "novo"
                           /\ leitor'[m].chave = leitor[m].chave
    BY <1>1, <1>3, <1>0
  <2>3. \A c \in Geracoes : cache'[c] # Ausente => cache[c] # Ausente \/ c = k
    BY <1>1, <1>2 DEF ChavesCache
  <2> QED
    BY <1>5, <2>1, <2>2, <2>3 DEF ChavesOK
<1>8. GuardaOK'
  BY <1>1, <1>3 DEF GuardaOK, varsBanco, Pronto
<1>9. EntradaDaGeracao'
  BY <1>1, <1>2, <1>4 DEF EntradaDaGeracao, varsBanco, Pronto, LinhaRollupOK, ChavesCache
<1>10. TravaOK'
  BY <1>1, <1>3, <1>0 DEF TravaOK
<1> QED  BY <1>1, <1>6, <1>7, <1>8, <1>9, <1>10, LeituraRollup

LEMMA Solta ==
    ASSUME IInvRollup, NEW l \in Leitores, Soltar(l)
    PROVE  IInvRollup'
<1> USE RollupAssumption DEF IInvRollup, TipoRollup, Controle
<1> DEFINE k == leitor[l].chave
           x == [leitor[l] EXCEPT !.pc = "feito"]
<1>1. /\ leitor[l].pc \in {"produz", "solta"} /\ leitor' = [leitor EXCEPT ![l] = x]
      /\ trava' = trava \/ (trava[k] = l /\ trava' = [trava EXCEPT ![k] = Ausente])
      /\ UNCHANGED <<varsBanco, cache>>
  BY DEF Soltar, TravaSem
<1>2. k \in ChavesCache
  BY <1>1 DEF ChavesOK
<1>3. x \in Leitor /\ x.pc = "feito" /\ x.chave = k /\ x.expirou = leitor[l].expirou
  BY DEF Leitor, PassosLeitor
<1>4. k = leitor[l].chave
  OBVIOUS
<1> HIDE DEF x, k
<1>5. TravaOK'
  BY <1>1, <1>2, <1>3, <1>4 DEF TravaOK, ChavesOK
<1>6. trava' \in [ChavesCache -> Leitores \cup {Ausente}]
  BY <1>1
<1> QED  BY <1>1, <1>3, <1>4, <1>5, <1>6, Adiante

LEMMA Expira ==
    ASSUME IInvRollup, NEW k \in ChavesCache, ExpirarCache(k) \/ ExpirarTrava(k)
    PROVE  IInvRollup'
<1> USE RollupAssumption DEF IInvRollup, TipoRollup, Controle
<1>1. CASE ExpirarCache(k)
  <2>1. cache' = [cache EXCEPT ![k] = Ausente] /\ UNCHANGED <<varsBanco, leitor, trava>>
    BY <1>1 DEF ExpirarCache
  <2>2. cache' \in [ChavesCache -> Respondido]
    BY <2>1 DEF Respondido
  <2>3. ChavesOK' /\ GuardaOK' /\ TravaOK' /\ EntradaDaGeracao'
    BY <2>1 DEF ChavesOK, GuardaOK, TravaOK, EntradaDaGeracao, Pronto, varsBanco, ChavesCache, LinhaRollupOK
  <2> QED  BY <2>1, <2>2, <2>3, LeituraRollup
<1>2. CASE ExpirarTrava(k)
  <2> DEFINE l == trava[k]
             x == [leitor[l] EXCEPT !.expirou = "sim"]
  <2>1. /\ l \in Leitores /\ leitor' = [leitor EXCEPT ![l] = x]
        /\ trava' = [trava EXCEPT ![k] = Ausente] /\ UNCHANGED <<varsBanco, cache>>
    BY <1>2 DEF ExpirarTrava
  <2>2. /\ x \in Leitor /\ x.pc = leitor[l].pc /\ x.chave = leitor[l].chave
        /\ x.valor = leitor[l].valor /\ x.expirou = "sim"
    BY <2>1 DEF Leitor
  <2>3. l = trava[k]
    OBVIOUS
  <2> HIDE DEF x, l
  <2>4. ChavesOK' /\ GuardaOK' /\ EntradaDaGeracao'
    BY <2>1, <2>2 DEF ChavesOK, GuardaOK, EntradaDaGeracao, Pronto, varsBanco
  <2>5. TravaOK'
    BY <2>1, <2>2, <2>3 DEF TravaOK, ChavesOK
  <2>6. trava' \in [ChavesCache -> Leitores \cup {Ausente}]
    BY <2>1
  <2> QED  BY <2>1, <2>2, <2>4, <2>5, <2>6, LeituraRollup
<1> QED  BY <1>1, <1>2

\* Two that produce one key would both have its lock.
LEMMA ProdutorSozinho == IInvRollup => UmProdutor
<1> SUFFICES ASSUME IInvRollup, NEW k \in ChavesCache
             PROVE  Cardinality({l \in Leitores : /\ leitor[l].chave = k
                                                  /\ leitor[l].pc \in {"produz", "guarda"}
                                                  /\ leitor[l].expirou = "nao"}) <= 1
  BY DEF UmProdutor
<1> DEFINE S == {l \in Leitores : /\ leitor[l].chave = k
                                  /\ leitor[l].pc \in {"produz", "guarda"}
                                  /\ leitor[l].expirou = "nao"}
<1>1. \A l, m \in S : l = m
  BY DEF IInvRollup, TravaOK
<1>2. S = {} \/ \E l \in S : S = {l}
  BY <1>1
<1> HIDE DEF S
<1>3. Cardinality(S) = 0 \/ Cardinality(S) = 1
  BY <1>2, FS_EmptySet, FS_Singleton
<1> QED  BY <1>3 DEF S

\* What the screens show of an election is a whole generation, not older than
\* the load that asked for it, and one request at a time computes it, for any
\* number of workers and readers, lost answers and expired locks
\* (fn_refresh_resultado_rollup, process_pending and core/cache.py).
THEOREM GeracaoSempreConfere == SpecRollup => []GeracaoConfere
<1>1. IInvRollup /\ [NextRollup]_varsRollup => IInvRollup'
  <2> SUFFICES ASSUME IInvRollup, [NextRollup]_varsRollup PROVE IInvRollup'
    OBVIOUS
  <2>1. CASE NextRollup
    BY <2>1, FontePasso, Fotografa, Publica, ObreiroPasso, Identifica, Respondeu, TravaTomada, Guarda,
       Solta, Expira DEF NextRollup
  <2>2. CASE UNCHANGED varsRollup
    BY <2>2 DEF varsRollup, IInvRollup, TipoRollup, LinhaRollupOK, ChavesOK, GuardaOK, TravaOK,
                RollupEmDia, EntradaDaGeracao, Pronto, ComLinha
  <2> QED  BY <2>1, <2>2
<1>2. IInvRollup => GeracaoConfere
  BY ProdutorSozinho DEF IInvRollup, GeracaoConfere
<1> QED
  BY InicioRollup, <1>1, <1>2, PTL DEF SpecRollup

=============================================================================
