---------------------------- MODULE JobsAgendados ----------------------------
(***************************************************************************)
(* The periodic jobs: Celery Beat fires a scheduling task, which creates   *)
(* for each active tenant a row of etl.job_processamento unless one of the *)
(* same tenant and reference is alive, and sends a message; a worker runs  *)
(* the job and writes how it ended.                                        *)
(*                                                                         *)
(* Row, message and run are three separate steps, each with its own        *)
(* failures.  A message is acknowledged late: it is delivered again when   *)
(* its worker dies, at any moment up to the acknowledgement, and when the  *)
(* broker's visibility timeout expires during a long run.                  *)
(***************************************************************************)
EXTENDS Integers, FiniteSets

CONSTANTS
    Tenants,        \* active tenants
    Referencias,    \* names of the periodic jobs
    Diretas,        \* those whose scheduler does not catch a dispatch error
    Recusadas,      \* those whose type the CHECK of the table refuses
    Jobs,           \* ids of etl.job_processamento (bound)
    Agendadores,    \* scheduling tasks in progress at the same time (bound)
    Trabalhadores,  \* workers
    MaxEntregas,    \* deliveries of one message (bound)
    BrokerFalha,    \* TRUE if sending a message may fail
    AgendadorCai,   \* TRUE if the process of a scheduling task may die
    Nada

ASSUME JobsOrdenados == Jobs \subseteq Nat
ASSUME TenantsOrdenados == Tenants \subseteq Nat
ASSUME GruposDeReferencias == Diretas \subseteq Referencias /\ Recusadas \subseteq Referencias
ASSUME EntregasPositivas == MaxEntregas \in Nat \ {0}
ASSUME FalhasBooleanas == BrokerFalha \in BOOLEAN /\ AgendadorCai \in BOOLEAN
ASSUME NadaForaDosIds == Nada \notin Jobs /\ Nada \notin Referencias /\ Nada \notin Tenants

VARIABLES
    status,     \* job -> status, "nenhum" while the id is unused
    tenant,     \* job -> tenant_id
    ref,        \* job -> referencia
    feitos,     \* jobs of which some run of the processor ended well
    fila,       \* job -> copies of its message in the broker
    entregas,   \* job -> deliveries of its message so far
    orfaos,     \* history: jobs whose scheduler left them without a message
    ag,         \* scheduling tasks
    trab        \* workers

linhas == <<status, tenant, ref>>
broker == <<fila, entregas>>
vars == <<linhas, feitos, broker, orfaos, ag, trab>>

Vivos == {"enfileirado", "executando"}
Inativa == [passo |-> "inativa", ref |-> Nada, resta |-> {}, job |-> Nada]
Parado == [passo |-> "ocioso", job |-> Nada]

Agenda == [passo : {"inativa", "criar", "despachar", "marcar"}, ref : Referencias \cup {Nada},
           resta : SUBSET Tenants, job : Jobs \cup {Nada}]
Tarefa == [passo : {"ocioso", "rodar", "sucesso", "erro"}, job : Jobs \cup {Nada}]

TypeOK ==
    /\ status \in [Jobs -> Vivos \cup {"nenhum", "concluido", "falha"}]
    /\ tenant \in [Jobs -> Tenants \cup {Nada}]
    /\ ref \in [Jobs -> Referencias \cup {Nada}]
    /\ feitos \subseteq Jobs
    /\ orfaos \subseteq Jobs
    /\ fila \in [Jobs -> 0..MaxEntregas]
    /\ entregas \in [Jobs -> 0..MaxEntregas]
    /\ ag \in [Agendadores -> Agenda]
    /\ trab \in [Trabalhadores -> Tarefa]

Init ==
    /\ status = [j \in Jobs |-> "nenhum"]
    /\ tenant = [j \in Jobs |-> Nada]
    /\ ref = [j \in Jobs |-> Nada]
    /\ feitos = {}
    /\ orfaos = {}
    /\ fila = [j \in Jobs |-> 0]
    /\ entregas = [j \in Jobs |-> 0]
    /\ ag = [s \in Agendadores |-> Inativa]
    /\ trab = [w \in Trabalhadores |-> Parado]

Livres == {j \in Jobs : status[j] = "nenhum"}
NovoId(j) == j \in Livres /\ \A k \in Livres : j <= k

Vivo(j) == status[j] \in Vivos
DaChave(j, t, r) == tenant[j] = t /\ ref[j] = r

(***************************************************************************)
(* The scheduling task.                                                    *)
(***************************************************************************)
\* Bound: a task starts while there are ids for all the tenants of all tasks.
HaIds == Cardinality(Livres) >=
            Cardinality(Tenants) * (1 + Cardinality({s \in Agendadores : ag[s].passo # "inativa"}))

\* Beat fires; list_active_tenant_ids.
Disparar(s, r) ==
    /\ ag[s].passo = "inativa"
    /\ HaIds
    /\ ag' = [ag EXCEPT ![s] = [passo |-> "criar", ref |-> r, resta |-> Tenants, job |-> Nada]]
    /\ UNCHANGED <<linhas, feitos, broker, orfaos, trab>>

\* The task ends after the last tenant.
Seguinte(s, resta) ==
    ag' = [ag EXCEPT ![s] = IF resta = {} THEN Inativa
                            ELSE [@ EXCEPT !.passo = "criar", !.resta = resta, !.job = Nada]]

\* Mutant: only a running job makes the tenant be skipped.
CriarSeNaoRoda(s) ==
    \E t \in ag[s].resta :
        /\ ag[s].passo = "criar"
        /\ \A u \in ag[s].resta : t <= u
        /\ ag[s].ref \notin Recusadas
        /\ IF \E j \in Jobs : status[j] = "executando" /\ DaChave(j, t, ag[s].ref)
           THEN Seguinte(s, ag[s].resta \ {t}) /\ UNCHANGED linhas
           ELSE \E j \in Jobs :
                  /\ NovoId(j)
                  /\ status' = [status EXCEPT ![j] = "enfileirado"]
                  /\ tenant' = [tenant EXCEPT ![j] = t]
                  /\ ref' = [ref EXCEPT ![j] = ag[s].ref]
                  /\ ag' = [ag EXCEPT ![s].passo = "despachar", ![s].job = j]
        /\ UNCHANGED <<feitos, broker, orfaos, trab>>

\* create_if_idle: the advisory lock of the tenant and reference, one INSERT
\* ... WHERE NOT EXISTS and the COMMIT.
CriarSeOcioso(s) ==
    \E t \in ag[s].resta :
        /\ ag[s].passo = "criar"
        /\ \A u \in ag[s].resta : t <= u
        /\ ag[s].ref \notin Recusadas
        /\ IF \E j \in Jobs : Vivo(j) /\ DaChave(j, t, ag[s].ref)
           THEN Seguinte(s, ag[s].resta \ {t}) /\ UNCHANGED linhas
           ELSE \E j \in Jobs :
                  /\ NovoId(j)
                  /\ status' = [status EXCEPT ![j] = "enfileirado"]
                  /\ tenant' = [tenant EXCEPT ![j] = t]
                  /\ ref' = [ref EXCEPT ![j] = ag[s].ref]
                  /\ ag' = [ag EXCEPT ![s].passo = "despachar", ![s].job = j]
        /\ UNCHANGED <<feitos, broker, orfaos, trab>>

\* The INSERT violates the CHECK on tipo: the whole task fails.
CriarRecusado(s) ==
    /\ ag[s].passo = "criar"
    /\ ag[s].ref \in Recusadas
    /\ ag' = [ag EXCEPT ![s] = Inativa]
    /\ UNCHANGED <<linhas, feitos, broker, orfaos, trab>>

\* apply_async is accepted by the broker.
Despachar(s) ==
    /\ ag[s].passo = "despachar"
    /\ fila' = [fila EXCEPT ![ag[s].job] = @ + 1]
    /\ entregas' = [entregas EXCEPT ![ag[s].job] = @ + 1]
    /\ Seguinte(s, ag[s].resta \ {tenant[ag[s].job]})
    /\ UNCHANGED <<linhas, feitos, orfaos, trab>>

\* The task is over, and the row it wrote, if any, stays as it is.
Abandonar(s) ==
    /\ ag' = [ag EXCEPT ![s] = Inativa]
    /\ orfaos' = orfaos \cup ({ag[s].job} \cap Jobs)

\* A caught error marks the job; an uncaught one ends the task, and the
\* tenants that follow get no job.
DespachoFalha(s) ==
    /\ BrokerFalha
    /\ ag[s].passo = "despachar"
    /\ IF ag[s].ref \in Diretas THEN Abandonar(s)
       ELSE ag' = [ag EXCEPT ![s].passo = "marcar"] /\ UNCHANGED orfaos
    /\ UNCHANGED <<linhas, feitos, broker, trab>>

MarcarDespacho(s) ==
    /\ ag[s].passo = "marcar"
    /\ status' = [status EXCEPT ![ag[s].job] = "falha"]
    /\ Seguinte(s, ag[s].resta \ {tenant[ag[s].job]})
    /\ UNCHANGED <<tenant, ref, feitos, broker, orfaos, trab>>

\* The scheduling tasks are acknowledged early: a dead one is not run again.
CairAgendador(s) ==
    /\ AgendadorCai
    /\ ag[s].passo # "inativa"
    /\ Abandonar(s)
    /\ UNCHANGED <<linhas, feitos, broker, trab>>

(***************************************************************************)
(* The worker.                                                             *)
(***************************************************************************)
\* mark_started writes "executando" over any status.
Receber(w, j) ==
    /\ trab[w].passo = "ocioso"
    /\ fila[j] > 0
    /\ fila' = [fila EXCEPT ![j] = @ - 1]
    /\ status' = [status EXCEPT ![j] = "executando"]
    /\ trab' = [trab EXCEPT ![w] = [passo |-> "rodar", job |-> j]]
    /\ UNCHANGED <<tenant, ref, feitos, entregas, orfaos, ag>>

\* The transaction of the processor commits, or the tenant has no active
\* campaign and there is nothing to do.
Rodar(w) ==
    /\ trab[w].passo = "rodar"
    /\ feitos' = feitos \cup {trab[w].job}
    /\ trab' = [trab EXCEPT ![w].passo = "sucesso"]
    /\ UNCHANGED <<linhas, broker, orfaos, ag>>

\* Mutant: an error of the processor ends as a success.
RodarErroSilencioso(w) ==
    /\ trab[w].passo = "rodar"
    /\ trab' = [trab EXCEPT ![w].passo = "sucesso"]
    /\ UNCHANGED <<linhas, feitos, broker, orfaos, ag>>

RodarErro(w) ==
    /\ trab[w].passo = "rodar"
    /\ trab' = [trab EXCEPT ![w].passo = "erro"]
    /\ UNCHANGED <<linhas, feitos, broker, orfaos, ag>>

Marcar(w, passo, st) ==
    /\ trab[w].passo = passo
    /\ status' = [status EXCEPT ![trab[w].job] = st]
    /\ trab' = [trab EXCEPT ![w] = Parado]
    /\ UNCHANGED <<tenant, ref, feitos, broker, orfaos, ag>>

MarcarSucesso(w) == Marcar(w, "sucesso", "concluido")

\* Mutant: a failed job is put back in the queue without a message.
MarcarErroReabre(w) == Marcar(w, "erro", "enfileirado")

MarcarErro(w) == Marcar(w, "erro", "falha")

Cair(w) ==
    LET j == trab[w].job IN
    /\ trab[w].passo # "ocioso"
    /\ entregas[j] < MaxEntregas
    /\ entregas' = [entregas EXCEPT ![j] = @ + 1]
    /\ fila' = [fila EXCEPT ![j] = @ + 1]
    /\ trab' = [trab EXCEPT ![w] = Parado]
    /\ UNCHANGED <<linhas, feitos, orfaos, ag>>

\* A second copy while a worker has the first: the visibility timeout, or the
\* death of the worker after its last write and before the acknowledgement.
Reentregar(j) ==
    /\ \E w \in Trabalhadores : trab[w].job = j
    /\ entregas[j] < MaxEntregas
    /\ entregas' = [entregas EXCEPT ![j] = @ + 1]
    /\ fila' = [fila EXCEPT ![j] = @ + 1]
    /\ UNCHANGED <<linhas, feitos, orfaos, ag, trab>>

Agendar(s) == \/ CriarSeOcioso(s) \/ CriarRecusado(s) \/ Despachar(s)
              \/ DespachoFalha(s) \/ MarcarDespacho(s)

Trabalhar(w) == \/ \E j \in Jobs : Receber(w, j)
                \/ Rodar(w) \/ RodarErro(w) \/ MarcarSucesso(w) \/ MarcarErro(w)

Next ==
    \/ \E s \in Agendadores, r \in Referencias : Disparar(s, r)
    \/ \E s \in Agendadores : Agendar(s) \/ CairAgendador(s)
    \/ \E w \in Trabalhadores : Trabalhar(w) \/ Cair(w)
    \/ \E j \in Jobs : Reentregar(j)

Spec == Init /\ [][Next]_vars

\* A process that can run runs.  A scheduling task that Beat sends waits in the queue
\* until a process takes it, whatever other tasks go first, hence strong fairness.
Justica == /\ \A s \in Agendadores : WF_vars(Agendar(s))
           /\ \A w \in Trabalhadores : WF_vars(Trabalhar(w))
           /\ \A r \in Referencias : SF_vars(\E s \in Agendadores : Disparar(s, r))

SpecJusta == Spec /\ Justica

-----------------------------------------------------------------------------
\* Two workers run the same periodic job for the same tenant only if the message of
\* one of the two was delivered more than once: "impede jobs simultaneos do mesmo
\* indicador e tenant", and what the late acknowledgement takes away from it, because
\* mark_started looks at no status.  Overlapping schedulers, lost dispatches, dead
\* schedulers and rows marked or left behind never let a second one start.
SimultaneosSoRepetidos ==
    \A v, w \in Trabalhadores :
        /\ trab[v].passo # "ocioso" /\ trab[w].passo # "ocioso" /\ v # w
        /\ DaChave(trab[w].job, tenant[trab[v].job], ref[trab[v].job])
        => entregas[trab[v].job] > 1 \/ entregas[trab[w].job] > 1

\* A job says "concluido" only if the transaction of some run committed, also
\* when copies of its message run at the same time and fail.
ConcluidoFeito == \A j \in Jobs : status[j] = "concluido" => j \in feitos

\* A live job is somebody's: it has a message, a worker, or the scheduler that
\* is about to send it or to mark it.  Otherwise it blocks its key for ever, as does
\* the row of a scheduler that died, or did not catch the error, before the dispatch.
VivoTemDono ==
    \A j \in Jobs : Vivo(j) /\ j \notin orfaos =>
        \/ fila[j] > 0
        \/ \E w \in Trabalhadores : trab[w].job = j
        \/ \E s \in Agendadores : ag[s].job = j

\* The row of a job tells the truth about its run (JobRepository.mark_*).
LinhaConfere == ConcluidoFeito /\ VivoTemDono

\* A tenant and reference that have a live job become free again, or no
\* scheduler would ever create the next one.
ChaveLibera ==
    \A j \in Jobs : Vivo(j) ~> ~Vivo(j)

\* "Para cada tenant ativo, o worker cria alertas": every active tenant gets
\* a run of every periodic job the table accepts, or at least a row that says it failed.
TodoTenantRoda ==
    \A t \in Tenants, r \in Referencias \ Recusadas :
        <>(\E j \in Jobs : DaChave(j, t, r) /\ status[j] \in {"executando", "concluido", "falha"})

\* Every tenant gets its jobs, and none of them stays in the way of the next.
JobsRodam == ChaveLibera /\ TodoTenantRoda
=============================================================================
