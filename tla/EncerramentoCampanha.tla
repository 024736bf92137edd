------------------------ MODULE EncerramentoCampanha ------------------------
(***************************************************************************)
(* Closing an election campaign: the API (mod_eleicoes) registers the      *)
(* closure and a job and sends a message; a Celery worker                  *)
(* (jobs.campanhas.close) consolidates the campaign in one REPEATABLE READ *)
(* transaction and records the outcome.                                    *)
(*                                                                         *)
(* The message is acknowledged late: it is delivered again when its worker *)
(* dies, and also, after the broker's visibility timeout, while its worker *)
(* still runs.  Nothing sends a message again on the API's side.           *)
(***************************************************************************)
EXTENDS Integers, FiniteSets

CONSTANTS
    Campanhas,        \* campaigns of one tenant
    Jobs,             \* ids of etl.job_processamento (bound)
    Trabalhadores,    \* Celery worker processes
    Requisicoes,      \* requests in progress at the same time (bound)
    MaxEntregas,      \* deliveries of one message (bound)
    BrokerFalha,      \* TRUE if send_task may fail
    Nada

ASSUME JobsOrdenados == Jobs \subseteq Nat
ASSUME EntregasPositivas == MaxEntregas \in Nat \ {0}
ASSUME BrokerBooleano == BrokerFalha \in BOOLEAN
ASSUME NadaForaDosIds == Nada \notin Campanhas \cup Jobs

VARIABLES
    existe,       \* the campaigns created so far
    ativas,       \* campaigns with campanha_eleicao.ativa
    encerradas,   \* campaigns with a data_encerramento
    ultima,       \* the campaign closed last, or Nada
    status,       \* campanha -> encerramento_campanha.status, "nenhum" before it exists
    consolidadas, \* campaigns whose dw.*_consolidada rows exist
    job,          \* job -> its row
    fila,         \* job -> copies of its message waiting in the broker
    entregas,     \* job -> deliveries of its message so far
    req,          \* requests in progress
    trab,         \* what each worker is doing
    semMarca      \* history: campaigns of which a success could not be recorded

campanha == <<existe, ativas, encerradas, ultima>>
tabelas == <<campanha, status, consolidadas, job>>
broker == <<fila, entregas>>
vars == <<tabelas, broker, req, trab, semMarca>>

\* The transaction has its snapshot and has not yet read the rows.
ComFoto == {"travar", "ler"}
\* The transaction holds the campaign's advisory lock.
ComTrava == {"ler", "consolidar"}
PassosTrab == ComFoto \cup ComTrava \cup {"ocioso", "abrir", "sucesso", "falhar", "marcarFalha"}

Parado == [passo |-> "ocioso", job |-> Nada, foto |-> "atual"]
Ociosa == [passo |-> "ocioso", camp |-> Nada, job |-> Nada, outras |-> {}]

Requisicao == [passo : {"ocioso", "criar", "recriar", "ativar", "desativar", "elevar", "despachar"},
               camp : Campanhas \cup {Nada}, job : Jobs \cup {Nada}, outras : SUBSET Campanhas]
Tarefa == [passo : PassosTrab, job : Jobs \cup {Nada}, foto : {"atual", "velha"}]
LinhaJob == [camp : Campanhas \cup {Nada},
             st : {"nenhum", "enfileirado", "executando", "concluido", "falha"}]

TypeOK ==
    /\ existe \subseteq Campanhas
    /\ ativas \subseteq Campanhas
    /\ encerradas \subseteq Campanhas
    /\ ultima \in Campanhas \cup {Nada}
    /\ status \in [Campanhas -> {"nenhum", "enfileirado", "concluido", "falha"}]
    /\ consolidadas \subseteq Campanhas
    /\ job \in [Jobs -> LinhaJob]
    /\ fila \in [Jobs -> Nat]
    /\ entregas \in [Jobs -> Nat]
    /\ req \in [Requisicoes -> Requisicao]
    /\ trab \in [Trabalhadores -> Tarefa]
    /\ semMarca \subseteq Campanhas

Init ==
    /\ existe \in SUBSET Campanhas
    /\ ativas \in {{}} \cup {{c} : c \in existe}
    /\ encerradas = {}
    /\ ultima = Nada
    /\ status = [c \in Campanhas |-> "nenhum"]
    /\ consolidadas = {}
    /\ job = [j \in Jobs |-> [camp |-> Nada, st |-> "nenhum"]]
    /\ fila = [j \in Jobs |-> 0]
    /\ entregas = [j \in Jobs |-> 0]
    /\ req = [r \in Requisicoes |-> Ociosa]
    /\ trab = [w \in Trabalhadores |-> Parado]
    /\ semMarca = {}

(***************************************************************************)
(* Rows of a campaign and of its closure, as other transactions see them.  *)
(***************************************************************************)
Camp(w) == job[trab[w].job].camp

\* FOR UPDATE OF ec, ce by the worker that consolidates it.
LinhasTravadas(c) == \E w \in Trabalhadores : trab[w].passo = "consolidar" /\ Camp(w) = c

\* The campaign's row is not held: by a consolidation or by an activation
\* that has deactivated it and not yet committed.
CampanhaLivre(c) ==
    /\ ~LinhasTravadas(c)
    /\ \A r \in Requisicoes : ~(req[r].passo = "elevar" /\ c \in req[r].outras)

\* A committed change of those rows makes every older snapshot obsolete.
Envelhecer(t, cs) ==
    [w \in Trabalhadores |->
        IF t[w].passo \in ComFoto /\ job[t[w].job].camp \in cs
        THEN [t[w] EXCEPT !.foto = "velha"] ELSE t[w]]

NovoJob(j) == /\ job[j].st = "nenhum"
              /\ \A k \in Jobs : job[k].st = "nenhum" => j <= k

\* latest_campaign: the active one, else the last one closed, else any.
MaisRecente(c) == \/ c \in ativas
                  \/ /\ c \in existe
                     /\ ativas = {}
                     /\ ultima \in {c, Nada}

(***************************************************************************)
(* The API.                                                                *)
(***************************************************************************)
\* Bound: a request that creates a job starts while there is an id for it.
HaJobs == Cardinality({j \in Jobs : job[j].st = "nenhum"})
              > Cardinality({r \in Requisicoes : req[r].passo \in {"criar", "recriar"}})

Comecar(r, passo, c) ==
    /\ req[r].passo = "ocioso"
    /\ req' = [req EXCEPT ![r] = [Ociosa EXCEPT !.passo = passo, !.camp = c]]
    /\ UNCHANGED <<tabelas, broker, trab, semMarca>>

SolicitarEncerramento(r, c) == HaJobs /\ c \in ativas /\ Comecar(r, "criar", c)

\* lock_campaign, the check under the lock, create_closure_job and commit.
CriarEncerramento(r) ==
    LET c == req[r].camp IN
    /\ req[r].passo = "criar"
    /\ CampanhaLivre(c)
    /\ IF status[c] = "nenhum"
       THEN \E j \in Jobs :
              /\ NovoJob(j)
              /\ job' = [job EXCEPT ![j] = [camp |-> c, st |-> "enfileirado"]]
              /\ status' = [status EXCEPT ![c] = "enfileirado"]
              /\ req' = [req EXCEPT ![r].passo = "despachar", ![r].job = j]
       ELSE /\ req' = [req EXCEPT ![r] = Ociosa]
            /\ UNCHANGED <<job, status>>
    /\ UNCHANGED <<campanha, consolidadas, broker, trab, semMarca>>

SolicitarReprocesso(r, c) ==
    /\ HaJobs
    /\ MaisRecente(c)
    /\ status[c] = "falha"
    /\ Comecar(r, "recriar", c)

\* create_closure_retry_job: the job is inserted whether or not the UPDATE,
\* guarded by status = 'falha', still finds the closure.
RecriarJob(r) ==
    LET c == req[r].camp IN
    /\ req[r].passo = "recriar"
    /\ ~LinhasTravadas(c)
    /\ \E j \in Jobs :
         /\ NovoJob(j)
         /\ job' = [job EXCEPT ![j] = [camp |-> c, st |-> "enfileirado"]]
         /\ req' = [req EXCEPT ![r].passo = "despachar", ![r].job = j]
    /\ IF status[c] = "falha"
       THEN status' = [status EXCEPT ![c] = "enfileirado"] /\ trab' = Envelhecer(trab, {c})
       ELSE UNCHANGED <<status, trab>>
    /\ UNCHANGED <<campanha, consolidadas, broker, semMarca>>

\* _dispatch, after the commit: an error is logged and the job stays queued.
Despachar(r) ==
    LET j == req[r].job IN
    /\ req[r].passo = "despachar"
    /\ fila' = [fila EXCEPT ![j] = @ + 1]
    /\ entregas' = [entregas EXCEPT ![j] = @ + 1]
    /\ req' = [req EXCEPT ![r] = Ociosa]
    /\ UNCHANGED <<tabelas, trab, semMarca>>

DespachoPerdido(r) ==
    /\ BrokerFalha
    /\ req[r].passo = "despachar"
    /\ req' = [req EXCEPT ![r] = Ociosa]
    /\ UNCHANGED <<tabelas, broker, trab, semMarca>>

\* activate_campaign reads the campaign in one statement and changes it in
\* later ones; nothing refuses a campaign that is active already.
LerParaAtivar(r, c) == c \in existe /\ c \notin encerradas /\ Comecar(r, "ativar", c)

\* create_campaign with ativa: the others are deactivated only if one was read.
CriarCampanha(r, c) ==
    /\ c \notin existe
    /\ \A s \in Requisicoes : req[s].camp # c
    /\ Comecar(r, IF ativas = {} THEN "elevar" ELSE "ativar", c)

\* The first UPDATE finds its rows in the snapshot of the statement ...
Fotografar(r) ==
    LET c == req[r].camp IN
    /\ req[r].passo = "ativar"
    /\ req' = [req EXCEPT ![r].passo = "desativar",
                          ![r].outras = ativas \ {c}]
    /\ UNCHANGED <<tabelas, broker, trab, semMarca>>

\* ... and waits for each, reading it again when it gets it.
DesativarOutras(r) ==
    LET S == req[r].outras IN
    /\ req[r].passo = "desativar"
    /\ \A d \in S : CampanhaLivre(d)
    /\ req' = [req EXCEPT ![r].passo = "elevar", ![r].outras = S \cap ativas]
    /\ UNCHANGED <<tabelas, broker, trab, semMarca>>

\* uq_campanha_eleicao_ativa_tenant refuses a second active campaign.
Colide(r) == ~(ativas \subseteq req[r].outras \cup {req[r].camp})

\* Rows that the second UPDATE changes: none if the campaign is closed by then.
Elevada(c) == {c} \ encerradas

\* Mutant: the UPDATE forgets data_encerramento IS NULL.
ElevarSemGuarda(r) ==
    LET c == req[r].camp IN
    /\ req[r].passo = "elevar"
    /\ CampanhaLivre(c)
    /\ IF Colide(r) THEN UNCHANGED <<ativas, existe, trab>>
       ELSE /\ ativas' = {c}
            /\ existe' = existe \cup {c}
            /\ trab' = Envelhecer(trab, req[r].outras \cup {c})
    /\ req' = [req EXCEPT ![r] = Ociosa]
    /\ UNCHANGED <<encerradas, ultima, status, consolidadas, job, broker, semMarca>>

\* The second UPDATE (or the INSERT) and the COMMIT: the campaign becomes the
\* active one unless it has been closed; a collision rolls everything back.
Elevar(r) ==
    LET c == req[r].camp IN
    /\ req[r].passo = "elevar"
    /\ CampanhaLivre(c)
    /\ IF Elevada(c) # {} /\ Colide(r) THEN UNCHANGED <<ativas, existe, trab>>
       ELSE /\ ativas' = (ativas \ req[r].outras) \cup Elevada(c)
            /\ existe' = existe \cup {c}
            /\ trab' = Envelhecer(trab, req[r].outras \cup Elevada(c))
    /\ req' = [req EXCEPT ![r] = Ociosa]
    /\ UNCHANGED <<encerradas, ultima, status, consolidadas, job, broker, semMarca>>

(***************************************************************************)
(* The worker.                                                             *)
(***************************************************************************)
Passar(w, passo) == trab' = [trab EXCEPT ![w].passo = passo]

\* A delivery: close_campaign starts with mark_started, in its own transaction.
Receber(w, j) ==
    /\ trab[w].passo = "ocioso"
    /\ fila[j] > 0
    /\ fila' = [fila EXCEPT ![j] = @ - 1]
    /\ job' = [job EXCEPT ![j].st = "executando"]
    /\ trab' = [trab EXCEPT ![w] = [Parado EXCEPT !.passo = "abrir", !.job = j]]
    /\ UNCHANGED <<campanha, status, consolidadas, entregas, req, semMarca>>

\* The first SELECT of the transaction (set_config) takes its snapshot, before
\* the advisory lock is asked for.
AbrirTransacao(w) ==
    /\ trab[w].passo = "abrir"
    /\ Passar(w, "travar")
    /\ UNCHANGED <<tabelas, broker, req, semMarca>>

TravarCampanha(w) ==
    /\ trab[w].passo = "travar"
    /\ \A v \in Trabalhadores : trab[v].passo \in ComTrava => Camp(v) # Camp(w)
    /\ Passar(w, "ler")
    /\ UNCHANGED <<tabelas, broker, req, semMarca>>

\* SELECT ... FOR UPDATE OF ec, ce: in REPEATABLE READ it raises when a row
\* changed after the snapshot.
LerEncerramento(w) ==
    /\ trab[w].passo = "ler"
    /\ CampanhaLivre(Camp(w))
    /\ Passar(w, IF trab[w].foto = "velha" THEN "falhar"
                 ELSE IF status[Camp(w)] = "concluido" THEN "sucesso" ELSE "consolidar")
    /\ UNCHANGED <<tabelas, broker, req, semMarca>>

\* Mutant: the campaign is closed by a failed consolidation too.
ConsolidarErroEncerra(w) ==
    /\ trab[w].passo = "consolidar"
    /\ encerradas' = encerradas \cup {Camp(w)}
    /\ Passar(w, "falhar")
    /\ UNCHANGED <<existe, ativas, ultima, status, consolidadas, job, broker, req, semMarca>>

\* The snapshot tables, the campaign and the closure change in one commit.
Consolidar(w) ==
    LET c == Camp(w) IN
    /\ trab[w].passo = "consolidar"
    /\ consolidadas' = consolidadas \cup {c}
    /\ ativas' = ativas \ {c}
    /\ encerradas' = encerradas \cup {c}
    /\ ultima' = c
    /\ status' = [status EXCEPT ![c] = "concluido"]
    /\ trab' = Envelhecer([trab EXCEPT ![w].passo = "sucesso"], {c})
    /\ UNCHANGED <<existe, job, broker, req, semMarca>>

\* Any statement of the consolidation raises: the transaction rolls back.
ConsolidarErro(w) ==
    /\ trab[w].passo = "consolidar"
    /\ Passar(w, "falhar")
    /\ UNCHANGED <<tabelas, broker, req, semMarca>>

\* Mutant: the failure is recorded for the job only.
FalharSoJob(w) ==
    /\ trab[w].passo = "falhar"
    /\ ~LinhasTravadas(Camp(w))
    /\ Passar(w, "marcarFalha")
    /\ UNCHANGED <<tabelas, broker, req, semMarca>>

\* processor.fail: by id, whatever the status is by now.
Falhar(w) ==
    LET c == Camp(w) IN
    /\ trab[w].passo = "falhar"
    /\ ~LinhasTravadas(c)
    /\ status' = [status EXCEPT ![c] = "falha"]
    /\ trab' = Envelhecer([trab EXCEPT ![w].passo = "marcarFalha"], {c})
    /\ UNCHANGED <<campanha, consolidadas, job, broker, req, semMarca>>

Marcar(w, passo, st) ==
    /\ trab[w].passo = passo
    /\ job' = [job EXCEPT ![trab[w].job].st = st]
    /\ trab' = [trab EXCEPT ![w] = Parado]
    /\ UNCHANGED <<campanha, status, consolidadas, broker, req, semMarca>>

MarcarFalha(w) == Marcar(w, "marcarFalha", "falha")
MarcarSucesso(w) == Marcar(w, "sucesso", "concluido")

\* mark_succeeded raises: it is in the same try as the consolidation, so that
\* the closure it committed is reported as failed.
MarcarSucessoErro(w) ==
    /\ trab[w].passo = "sucesso"
    /\ Passar(w, "falhar")
    /\ semMarca' = semMarca \cup {Camp(w)}
    /\ UNCHANGED <<tabelas, broker, req>>

\* The worker dies: its transaction is rolled back, its message comes back.
Cair(w) ==
    LET j == trab[w].job IN
    /\ trab[w].passo # "ocioso"
    /\ entregas[j] < MaxEntregas
    /\ entregas' = [entregas EXCEPT ![j] = @ + 1]
    /\ fila' = [fila EXCEPT ![j] = @ + 1]
    /\ trab' = [trab EXCEPT ![w] = Parado]
    /\ UNCHANGED <<tabelas, req, semMarca>>

\* The visibility timeout expires while a worker still runs the task.
Reentregar(j) ==
    /\ \E w \in Trabalhadores : trab[w].job = j
    /\ entregas[j] < MaxEntregas
    /\ entregas' = [entregas EXCEPT ![j] = @ + 1]
    /\ fila' = [fila EXCEPT ![j] = @ + 1]
    /\ UNCHANGED <<tabelas, req, trab, semMarca>>

Trabalhar(w) ==
    \/ \E j \in Jobs : Receber(w, j)
    \/ AbrirTransacao(w) \/ TravarCampanha(w) \/ LerEncerramento(w)
    \/ Consolidar(w) \/ ConsolidarErro(w) \/ Falhar(w)
    \/ MarcarFalha(w) \/ MarcarSucesso(w) \/ MarcarSucessoErro(w)

Atender(r) ==
    \/ CriarEncerramento(r) \/ RecriarJob(r) \/ Despachar(r) \/ DespachoPerdido(r)
    \/ Fotografar(r) \/ DesativarOutras(r) \/ Elevar(r)

Chegar(r, c) ==
    \/ SolicitarEncerramento(r, c) \/ SolicitarReprocesso(r, c)
    \/ LerParaAtivar(r, c) \/ CriarCampanha(r, c)

Next ==
    \/ \E r \in Requisicoes, c \in Campanhas : Chegar(r, c)
    \/ \E r \in Requisicoes : Atender(r)
    \/ \E w \in Trabalhadores : Trabalhar(w) \/ Cair(w)
    \/ \E j \in Jobs : Reentregar(j)

Spec == Init /\ [][Next]_vars

\* Handlers and workers that can run run.  The advisory lock is queued, so a
\* worker waiting for it gets it in turn.
Justica ==
    /\ \A r \in Requisicoes : WF_vars(Atender(r))
    /\ \A w \in Trabalhadores : WF_vars(Trabalhar(w)) /\ SF_vars(TravarCampanha(w))
                                /\ SF_vars(Falhar(w))

SpecJusta == Spec /\ Justica

-----------------------------------------------------------------------------
\* A closed campaign is consolidated: the rows of the data warehouse and the
\* end of the campaign appear together, crash or failure notwithstanding.
EncerradaConsolidada == encerradas \subseteq consolidadas \ ativas

\* A closed campaign never comes back, even for a request that read it open.
EncerradaNaoReativa ==
    [][encerradas \subseteq encerradas' \ ativas']_vars

\* A closure that is reported done is done: the worker answers "concluido"
\* for a duplicate only after some delivery consolidated the campaign.
ConcluidoConsolidado ==
    \A c \in Campanhas : status[c] = "concluido" => c \in encerradas /\ c \in consolidadas

\* A job reported as concluded closed its campaign, also when a duplicate
\* delivery or a retry of the same closure did the work.
JobConcluidoEncerrou == \A j \in Jobs : job[j].st = "concluido" => job[j].camp \in encerradas

\* What the tables say of a closure is what happened
\* (CampaignClosingProcessor.process, JobRepository.mark_succeeded).
EncerramentoConfere == EncerradaConsolidada /\ JobConcluidoEncerrou

\* The closure was tried more than once: by jobs of its own, after a failure,
\* or by deliveries of one message.
Repetida(c) ==
    \E j, k \in Jobs : /\ job[j].camp = c
                      /\ job[k].camp = c
                      /\ (j # k \/ entregas[j] > 1)

\* processor.fail writes "falha" by id, whatever the closure is by then.  On a
\* campaign that is closed it can be left only by a second try, whose snapshot
\* is older than the commit of the first, or by a success that could not be
\* recorded: a closure tried once never reads as failed when it was done.
FalhaSoDeRepetida ==
    \A c \in encerradas : status[c] = "falha" => Repetida(c) \/ c \in semMarca

\* The job of c was committed and its message was never sent: _dispatch logs
\* the error and the closure stays "enfileirado", which no request retries.
Perdida(c) ==
    \E j \in Jobs : /\ job[j].camp = c /\ job[j].st = "enfileirado" /\ entregas[j] = 0
                   /\ \A r \in Requisicoes : req[r].passo = "despachar" => req[r].job # j

\* A requested closure is answered, through crashes, failures and repeated
\* deliveries: it is concluded or has failed, unless its message was lost.
EncerramentoSeResolve ==
    \A c \in Campanhas :
        status[c] = "enfileirado" ~> status[c] \in {"concluido", "falha"} \/ Perdida(c)
=============================================================================
