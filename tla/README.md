# Poliorama: specifications and proofs

TLA+ models of the concurrent core of Poliorama, a multi-tenant system for election campaigns:
a FastAPI back end (`backend_core`), Celery workers (`backend_jobs_celery`), PostgreSQL, Redis, a
React administration site with a mobile PWA, and a public site. The modules follow the Python code
and the SQL it sends. TLC checks them on small instances; TLAPS proves the most important
invariants for every value of the constants.

- [Inventory](#inventory): the parts of the system
- [How the code is modelled](#how-the-code-is-modelled)
- [Modules](#modules): one section per modelled component, with its state, actions and bounds
- [Runs](#runs): what each run checks, and what it shows
- [Proofs](#proofs)
- [What the code does not keep](#what-the-code-does-not-keep)
- [Running the checks](#running-the-checks)
- [Plan](#plan)

## Inventory

Paths are relative to `src/backend_core/src/app` unless they start with `jobs/`
(`src/backend_jobs_celery/src/jobs`) or `src/`.

### Modelled

| Component | State | Operations | What makes it hard | What makes it correct |
|---|---|---|---|---|
| Attendance queue, `mod_comunicacao/atendimento_*` | persons, attendances (situation, owner), the tenant's limit | draw the next person, start by hand, resume, close, invalidate, external contact | two operators, or two tabs of one, between the statements of a READ COMMITTED transaction; `SKIP LOCKED`; a unique index entry that makes a writer wait | one open attendance per person, limit, definitive closings, every request answered |
| Campaign closure, `mod_eleicoes`, `jobs/campaigns.py` | campaign (active, closed), closure status, warehouse rows, job row, message | create, activate, request closure, retry, consolidate, fail | late acknowledgement: messages are delivered again, also while the first delivery runs; snapshot taken before the advisory lock; dispatch after commit | closed if and only if consolidated, a closure that reads as failed and is done was tried twice, closed for good, a requested closure is resolved |
| Periodic jobs, `jobs/tasks.py`, `jobs/repository.py`, `jobs/service.py` | rows of `etl.job_processamento`, messages, runs | schedule, dispatch, run, mark, crash, deliver again | row, message and run are three steps with their own failures | a row, its message and its run agree; two runs at once only of a repeated message; nothing lost for ever |
| Spreadsheet import, `mod_etl`, `jobs/imports.py` | import, mapping, staging rows, promoted persons, jobs | upload, remap, approve, cancel, validate, load | a validation and a load of the same import overlap; savepoint per row; row locks in two orders | staging of one validation, counts, promoted exactly when marked, one person per document, no import stuck |
| Field material, `mod_anuncios` | route, plannings copied from it, points with totals of material, executions with an idempotency key | copy, edit and synchronize, change of status, install, add a point, withdraw | phones retry; several teams on one planning; edits of a route during the field work; three kinds of row locked in two orders | balances, statuses, copies of one edition, executed plannings untouched |
| People registry, `mod_cadastro` | people with strong identities, tags, types, nuclei, contacts, addresses, voter numbers, leaderships, links, indications, suspicions, merges | register, change or delete, add or edit a contact or an address, set the voter, lead, link, switch a link, indicate, resolve, merge | every handler reads, decides and commits later without a lock; a merge moves a dozen tables in as many statements while others commit; triggers derive links from what the flush wrote | one person per identity, no cycle by insertion, one principal, merged once and for good, what the source had when a statement of the merge ran is the principal's |
| Territories, `mod_territorio`, migrations 022 and 023 | a tree; "moradia" and "votacao" links of people | create, activate, move, organize a whole level, link by hand | checks in one statement, parents replaced later, one by one; a preview that grew old | no cycle that a check could have seen, an organization complete, links that follow address and polling place |
| Tenants and payments, `tenants/` | contracts, tenants, rows of claimed events | create, pay, fail, mark overdue, activate, alter, suspend | the provider repeats an event until it is answered; two events of one contract at once; slugs taken in between | an event takes effect once and in the end, one tenant per contract |
| Accounts and sessions, `auth/` | users (status, failed logins, password, second factor), sessions with rotating tokens | log in, refresh, use, log out, revoke, change or reset a password, confirm or disable the second factor, block, remove, switch tenant | every handler decides on what it read and commits later | ended sessions stay ended, a cut leaves none behind |
| Goals and risk alerts, `mod_metas/`, `jobs/repository.py` | goals, tracking per day, alerts, the ranking of the day | create, edit, cancel, track, recalculate everything | counts read first, rows written later in two lock orders; the job takes all the goals in one transaction | status and alert agree, cancelled goals stay cancelled, every computation ends |
| Vote confirmation and call center, `mod_callcenter/`, `atendimento_repository.py` | status, confirmation and attendance per person | record a contact, update or close an attendance | two writers of one fact, of which each writes another half | the confirmation counted is that of the last answer |
| Agenda and public attendance, `mod_agenda/` | calendars, events, people of the form, presences | create, move, cancel, delete, mark a presence, public form | a form sent twice; a calendar deleted while an event enters it | one person per name and phone, no event left in a deleted calendar, a presence confirmed stays |
| Google Calendar, `mod_agenda/google_calendar.py` | links, sync token, remote events | pull, adopt, push, delete, edit on both sides, crash | the remote effect comes before the local commit; two syncs overlap | one copy of an event, equal copies once both sides rest, but for what a pull passes over |
| Demands, `mod_demandas/`, `jobs/demands.py` | demands, movements, deadline alerts | create, edit, attend, the daily job | an edition compares what it read with what the row has become; the job reads, then writes | a closed demand has a result, a change of status its movement, alerts the deadlines |
| Files, `mod_arquivos/`, `jobs/files.py` | stored objects, attachments, photo pointer, extracted text | upload, replace, remove, dispatch, extract | storage and database share no transaction; a commit whose answer is lost; deliveries at once | a photo shown is a live one, an object per row, a text of a dispatched file |
| Shared cache and election results, `core/cache.py`, `mod_gestao_eleitoral/`, `jobs/election_rollups.py` | source, generations of aggregates, cache entries and their locks | load, request a refresh, rebuild, read through the cache, answer a question | a request during a rebuild; holders slower than their lock; a dozen questions with two plans each | no aggregate older than its request, one generation per entry, the same answer from both plans |

### Not modelled

| Component | State and operations | Why |
|---|---|---|
| Contracts and legal entities, dashboards, audit log: `mod_contrato/`, `mod_dashboard/`, `audit/` | one-statement writes and queries | nothing concurrent; what they compute is SQL |
| HTTP surface and shared core: `main.py`, `core/`, `models/`, `schemas/`, the routers | none | plumbing and data definitions |
| Electoral zone meshes | geometry files | pure loading |
| `src/frontend_core`, `src/site_publico` | the browser's | presentation; the server decides again |
| `src/database`, `src/deploy`, `src/compose.yaml` | tables, constraints, processes | the constraints and triggers that matter are part of the actions that meet them |

### How the parts interact

The back end and the workers share one database and no memory. A handler commits a row of
`etl.job_processamento` and then sends a Celery message; a worker reads the row, works in
transactions of its own and writes the outcome. Nothing else connects them, so the interfaces of
the models are tables and messages. Attendance and call center write the vote confirmations the goals
count (`MetasRisco` extends `ConfirmacaoVoto`); sessions belong to the users of a tenant
(`SessoesUsuario` extends `AssinaturaTenant`); the merge works on the hierarchy of leaders
(`MesclaPessoas` extends `HierarquiaLiderancas`); the questions of the election screens are answered
from the generations that the rollups publish (`ConsultaResultados` extends `ResultadosRollup`). The
other components share no row that a property speaks of, and are checked one at a time.

## How the code is modelled

- A handler or a task is a *slot* (`r \in Requisicoes`, `w \in Trabalhadores`, `q \in Requisicoes`)
  with a program counter that names the statement it executes next. Between two statements anything
  else may run. What a transaction writes is one step with its COMMIT when every row written was
  locked before; it is several when a later statement may wait or fail.
- PostgreSQL: READ COMMITTED statements see the latest commit; a waiting UPDATE or SELECT FOR UPDATE
  evaluates its condition again on the new row; advisory locks, unique index entries and row locks
  make a transaction wait; a cycle of waiting transactions is broken by aborting one. REPEATABLE
  READ (closure) keeps its snapshot, and a row changed since raises an error.
- Celery: a message is acknowledged late. It is delivered again when its worker dies, and after the
  broker's visibility timeout while its worker still runs. `MaxEntregas` bounds the deliveries.
- What lives outside of the database (the object storage, the Google calendar, Redis) has its effect
  at once and for good, whatever becomes of the transaction around it.
- Data are abstracted to what decides: a person is an id and its keys, a spreadsheet is the set of
  rows that do not validate under each mapping, a route is its version and its orders, the contents
  of an event the number of the change that made them.
- *History* variables (named so in the modules) remember what a property needs to leave an exception
  out by name: that two requests overlapped, that an answer was lost. No guard reads them.
- Names are those of the code and its tables, in Portuguese where the code has them so.
- Definitions whose comment begins with "Mutant" are plausible mistakes in the definition that
  follows; no specification uses them. They are what the properties were tried against.

**Fairness.** A handler or a worker that can go on goes on (`WF`): the processes run and the
database is reachable. What a step waits for is a PostgreSQL lock, granted in the order of the
requests; a lock that is free again and again reaches the waiter, so the waiting steps of the
attendance queue, of the closure and of the goals have `SF`. A cycle of waits is broken by the
database, and the aborted request goes on to its answer. Beat fires each periodic task whenever it
may: a scheduler that is free again and again reaches every reference (`SF`), the job of the goals
starts again (`WF`). The payment provider repeats an event until it is answered (`SF`). No fairness is
assumed of users, crashes, lost messages or second deliveries: nothing has to happen, and nothing
has to stop.

## Modules

| Module | Contents |
|---|---|
| `FilaAtendimento` | the attendance queue, statement by statement |
| `FilaExclusiva` | what that queue promises: a person has at most one operator, an operator a bounded queue |
| `EncerramentoCampanha` | closure of a campaign: API, message, worker |
| `JobsAgendados` | life of a periodic job: scheduler, message, worker |
| `ImportacaoETL` | a spreadsheet import: handlers, validation, load |
| `AnunciosCampo` | field material: routes, plannings, executions |
| `HierarquiaLiderancas` | people, leaderships, links and indications of a tenant |
| `MesclaPessoas` | contacts, voters, suspicions and the merge of two people, on top of that hierarchy |
| `CadastroPessoas` | registration with identities and tags, nuclei, types of a person |
| `PessoaTerritorio` | addresses, contacts and their principal; where a person lives and votes, and the triggers that say so |
| `TerritorioHierarquia` | the tree of territories and its organization |
| `AssinaturaTenant` | contracts, payment events, tenants and their managers |
| `SessoesUsuario` | users and their sessions, on top of those tenants |
| `ConfirmacaoVoto` | the two writers of a vote confirmation |
| `MetasRisco` | goals, tracking, alerts and the job that recalculates them, on top of those confirmations |
| `AgendaPublica` | calendars, events, the public form and the presences |
| `GoogleAgenda` | synchronization of an agenda with Google |
| `DemandasAlertas` | demands, their movements and the alerts of their deadlines |
| `ArquivosAnexos` | files, attachments, photos and extracted texts |
| `ResultadosRollup` | generations of aggregates and the cache in front of them |
| `ConsultaResultados` | what the questions of the election screens answer, from both plans |
| `*Proofs` | theorems: about the module of the same name, about `SessoesUsuario` with `AssinaturaTenant` (`ContaTenantProofs`), about `CadastroPessoas`, `ArquivosAnexos`, `TerritorioHierarquia` and `PessoaTerritorio` (`ServicosProofs`) |
| `MC*` | symmetry sets and constant values for TLC; `MCServicos`, `MCCampo`, `MCJobs`, `MCAgenda` put components that share nothing in one run, one *area* at a time |

### Attendance queue: `FilaAtendimento`, `FilaExclusiva`

`cadastro`, `telefone` stand for persons and their phone; `situacao`, `atendente`, `pessoaDe` for the
columns of `comunicacao.atendimento_eleitor`; `limite` for the preference
`maximo_atendimentos_simultaneos`. `req[r]` is a request: its operator, its kind and its `passo`.
`Chegar` starts a request, and the steps under `Continuar` are the statements of `start_next`,
`start_manual`, `resume`, `close` and `invalidate` in `atendimento_service.py` and
`atendimento_repository.py`. The operator's advisory lock, the `FOR UPDATE SKIP LOCKED` of a draw and
the index `uq_atendimento_eleitor_pessoa_ativo` (migration 055) are derived from where the requests
are. `RegistrarContato` is the contact recorded without an attendance, `AlterarLimite` the change of
the preference.

Bounds (`servicos_seguros`, area "fila"): 2 operators, 2 persons of which 1 is registered during the
run, 2 attendances, 1 phone, limits 1 and 2, 2 simultaneous requests. Two requests are enough for a
race between any two handlers, and 2 operators cover "two tabs" and "two colleagues". Two persons let a
draw skip a held one; two attendances of one person are what "resume the old or draw again" needs. The
limit 1 makes the second opening of one operator the interesting case; 2 lets one operator hold both
persons. `fila_termina` has 1 person, registered during the run, with her phone.

The refinement `ImplementaFila` maps a person to the operator of its open attendance. It says in one
formula that no interleaving takes a person from a colleague or exceeds the limit; a change of the
preference during a request is why the abstract bound of an operator, `teto`, is the limit in force or
a higher one that a request under way has read.

### Campaign closure: `EncerramentoCampanha`

`ativas`, `encerradas`, `ultima` are the columns of `eleicao.campanha_eleicao`; `status` is
`encerramento_campanha.status`; `consolidadas` the campaigns with rows in `dw.*_consolidada`; `job`
the rows of `etl.job_processamento`; `fila` and `entregas` the broker. Requests (`Chegar`, `Atender`)
are `create_campaign`, `activate_campaign`, `request_closing` and `retry` of `mod_eleicoes/service.py`;
workers (`Trabalhar`, `Cair`) are `tasks.close_campaign` and `CampaignClosingProcessor`. `MarcarSucesso` may
fail (`MarcarSucessoErro`): it is inside the `try`, so the handler then writes "falha" over what was done;
`semMarca` remembers the campaigns this happened to. That `processor.fail` or `mark_failed` raises in its turn is left
out: the message is then delivered again. The snapshot
of a REPEATABLE READ transaction is kept as "the worker became old": some other transaction committed
to the campaign since its first statement.

Bounds: `encerramento_seguro` has 2 campaigns, 2 jobs, 2 workers, 2 requests, 2 deliveries, and a
dispatch may fail; `encerramento_termina` the same with 1 campaign and 1 request. Two jobs are a
closure and its retry; two deliveries the smallest overlap of a message with itself; two campaigns the
smallest competition for "active". A closure whose dispatch failed stays as it is (`Perdida`, see *What the
code does not keep*); `EncerramentoSeResolve` names it and says that every other one is answered.

### Periodic jobs: `JobsAgendados`

`status`, `tenant`, `ref` are the columns of a job; `feitos` (history) the jobs that some run of the
processor finished; `ag` the scheduling tasks (`enqueue_*` of `jobs/tasks.py` with
`create_if_idle`), `trab` the workers. A processor's effect is one step. `Diretas` are the tasks
whose dispatch is not inside the `try` (reports and, from the command line, all); `Recusadas` the
task whose job type the table's CHECK refuses.

`jobs_seguros` has 1 tenant, 2 references of which one is dispatched directly, 3 jobs, 2 schedulers that may
die, 2 workers that may die, a broker that may fail and 2 deliveries of a message. `SimultaneosSoRepetidos` says there
that two workers run the same periodic job only if a message was repeated, which the code does not
prevent; `LinhaConfere` that a live row has a message, a worker or a scheduler, but for the rows whose
scheduler left them behind (`orfaos`: it died after its commit, or a direct dispatch failed). `jobs_termina`
has 2 tenants, 2 references of which one is refused, 4 jobs, 2 schedulers that do not die (`SpecSemQuedas`, no direct
dispatch), 1 worker and 2 deliveries: a row left behind blocks its key for ever, so freedom from loss
holds only without them. See *What the code does not keep*.

### Spreadsheet import: `ImportacaoETL`

One import. `status`, `mapa`, `aprovada`, `validas` are its columns, `staging` its staged rows with the
validation they come from, `cadastro` the persons created from them; `estado`, `tipo` are the jobs,
`fila`, `entregas`, `aEnviar` the messages. Handlers are one conditional UPDATE and therefore one step
(`Pedir`, `Aprovar`, `Cancelar`). A worker's variables hold what its transaction has written and not
committed; others that need those rows wait, and `Impasse` aborts one of a cycle.

Bounds: 2 rows of one person with the same voter card, 2 mappings of which one invalidates a row, 2
jobs, 2 workers, 2 deliveries, dispatches fail. Two rows of the same person are the smallest file
whose rows conflict; two mappings the smallest remapping that changes what is valid; two jobs a
validation and a load, or two of the same kind. A deadlock met inside a row's savepoint is counted as that
row's error and the load goes on (step "linhaErro" of `Vitima`); two deliveries of a load, which insert two
documents in opposite orders, need 3 rows for it, which is beyond the run and covered by the proofs.

### Field material: `AnunciosCampo`

`modelo` is the route (version of its header, version and orders of its points), `plano` and `ponto`
the plannings copied from it and their points with the totals of each material, `execucao` the
executions stored under their idempotency key with their movements. `plano[p].quem` is history: who
wrote the status last. Locks are derived from `pc` (`TemPonto`, `TemPlano`, `TemRota`, `TemCopia`).

| Code | Actions |
|---|---|
| `install`, `withdraw` | `IniciarExecucao` (first lock), `TravarPlano`, `TravarRota`, `Instalar` or `Retirar` (everything read again under the locks), `Confirmar` or `Recusar` |
| `install_manual_point` | `IniciarManual`, `TravarRota`, `InstalarManual`, `Confirmar` |
| `create_planning` | `CopiarCabecalho`, `CopiarPontos` |
| `update_planning` | `LerPlanejamento`, `GravarPlanejamento` |
| `update_route`, `replace_route_points`, `synchronize_unstarted_plannings` | `EditarNome` or `EditarPontos`, `SubstituirPontos`, `TravarPontos`, `TravarPlanos`, `SincronizarNome` or `SincronizarPontos` |
| deadlock detector | `QuebrarImpasse` |

`get_point(lock=True)` ends in `FOR UPDATE` without `OF`, so it locks the point, its planning and its
route; this is what serializes executions with edits of the route, and it is why the second check
of `synchronize_unstarted_plannings` cannot miss an execution.

Bounds (`campo_seguro`, area "campo"): 1 planning, orders 1 and 2, 1 material installed two at a time
and withdrawn none or one at a time, 3 idempotency keys, 1 edit of the route, 2 simultaneous requests.
Two requests give every pair of handlers; two orders let a point be added by hand or by an edit;
quantity two makes partial withdrawal and partial loss possible, and three keys a point installed
and withdrawn while another is installed. `TodaRequisicaoTermina` under `SpecJusta` of the module holds
on the same instance without the symmetry; it has no run of its own because it takes four and a half
minutes.

### People registry: `HierarquiaLiderancas`, `MesclaPessoas`

`pessoa` says whether a row exists, lives or is removed; `lidera` is `cadastro.lideranca`, `vinculo`
`cadastro.hierarquia_lideranca`, `indicou` `cadastro.indicacao`; `contatos` stands for documents,
contacts, networks and addresses, which move alike; `titulo` is the voter row, `suspeita` the status
of the last suspicion about a pair, `mescla` `cadastro.pessoa_merge`. No handler of this component
locks what it reads, so most are two steps: `Ler*` reads and decides (`add_hierarchy`,
`set_hierarchy_status`, `set_leadership`, `add_indication`, `create_person`, `add_contact`), and a step of
`Gravar` writes and commits under the unique indexes, or `Recusar` rolls back. `ficha` is what a request carries to its
commit.

A merge (`merge_duplicate`, `merge_people`) is one step per table: `LerMescla` reads the suspicion and both
people; `MoverContatos`, `MoverEleitor`, `MoverLideranca`, `MoverVinculos`, `MoverRecebida` and `MoverFeitas` are the
READ COMMITTED statements, each of which sees what is committed when it runs, writes its rows and keeps
them locked until the end (`req[r].muda`); `FecharMescla` closes the suspicions, removes the source and
commits. Others go on meanwhile: a step that needs a row or an index entry of the merge waits for it, and what they
commit about the source behind the statement of its table stays there. `tarde` remembers that. A session's
read and the write that follows it are one step, and so are the update of the suspicions, the flush of the source and
the commit; an UPDATE that waited for the voter row and then finds it changed is left out. `Descendentes` is the recursive query of
`hierarchy_would_cycle`, as a least fixed point.

Bounds (`campo_seguro`, area "registro"): 3 people suspected of being one, 3 leaderships, 3 links, 1 contact,
1 voter number, 2 simultaneous requests, 2 operations. `mescla_v_ciclo` has 2 links, 1 request, 3 operations and
starts with one active link. The behaviours of the first are
short and the initial states many: `SpecMC` starts from every registry with two links, from every
assignment of contacts, of voter numbers and of indications, one part at a time, because what an
operation does to one part does not depend on the others. Two operations are a race of two handlers or
a sequence of two. Three people are the smallest chain a shallow cycle check would miss and the
smallest pair of merges that share a person.

`MesclaLevaTudo` speaks of the state in which the statement of each table runs, not of the one its manager
saw: what was added in between must move too, and only what `tarde` names may stay. The links of
`mescla_v_ciclo` start as one active link and are made by the operations of the run. `InsercaoNaoFechaCiclo` holds for requests whose view is still
current (`fresca`); with an older view two insertions do close a cycle.

### People registry: `CadastroPessoas`

Three parts that share only the people. *Registration* (`Registrar`, `ProcurarTag`, `InserirTag`,
`RelerTag`, `ConfirmarCadastro`: `create_person` and `get_or_create_tag_by_name`): a person has the
identity of the request that registers it, the unique indexes decide at the INSERT, and a form of the
site looks its tag up, inserts it inside a savepoint, which waits for another inserter, and after an
IntegrityError looks it up again. *Nucleus* (`CarregarNucleo`, `ContarMembros`, `ConfirmarNucleo`): the mapper loads the
row with its count, counts the members and writes the count only when it differs from the one it
loaded. *Types* (`ApagarTipos`, `GravarTipos`): `replace_person_types` deletes what is committed and
inserts what was asked.

Bounds (`servicos_seguros`): 2 registrations with 2 identities; 3 requests on a nucleus; 2
replacements over 2 types. Two registrations are the race for an identity or for the tag; three requests
on a nucleus are an overlap and a request after it.

### Where people live and vote: `PessoaTerritorio`

`item` holds addresses and contacts with type, owner and principal flag; `moradia` and `votacao` the links
that the triggers of migrations 022 and 023 keep; `eleitor` the polling place. A request is a read, the
writes of its flush with their trigger, and the commit. Merges (`Mesclar`) move addresses, fire the
triggers, then copy links. A change of vote is one step. A merge does not overlap an address request
about the same two people.

Bounds: 2 people, 3 addresses or contacts, 2 neighbourhoods, 3 links each, 2 requests, 3 operations, 1
link by hand. Two addresses of a person and one to be added are what "the principal passes to another"
needs; a third operation repairs what two overlapping ones left. An operation whose trigger would insert a
link begins only while a person has an id left for one (`CabeElo`).

### Territories: `TerritorioHierarquia`

`pai` is the tree, `trocaDe` the handler that replaced a parent and has not ended. `LerMudanca` checks,
`Prender` deletes the old link and inserts the new one, `PreverOrganizacao` computes what "organize" would
move, `AplicarPrevia` refuses a preview that grew old, `TrocarPai` moves one neighbourhood,
`ConfirmarMudanca` and `DesfazerMudanca` end. `Acessiveis` is the recursive query of the scope.

`AcimaEm` is that query as the least set with the parent of a territory and the parent of every member;
`fechou` says that an organization left a neighbourhood it had moved below itself.

Bounds: 4 territories (two municipalities with a neighbourhood of each, the second municipality not yet
there), 2 handlers at once, 3 in all: two overlapping moves close a cycle of two, and a third meets it.

### Tenants, accounts and sessions: `AssinaturaTenant`, `SessoesUsuario`

`contrato`, `tenant` and `evento` are the rows of `contratacao`, `tenant` and `webhook_pagamento_evento`; an
event says its kind and what it is about. `pedido[r]` is a webhook or a manager's request between its
statements: `Reclamar` is the INSERT of `claim_webhook_event`, which waits for another delivery of the event;
`LerContratacao`, `VerSlug`, `CriarTenant`, `LerTenant`, `Ativar`, `FalharPagamento`, `MarcarInadimplente` are the statements
of `process_webhook` and the commit of the claim with its effect; `Recusar` and `Cair` roll both back.
`LerParaAlterar`, `LerParaAtivar`, `RelerTenant`, `GravarTenant`, `LerNovoTenant`, `InserirTenant` are `update`, `activate`
and `create` of `TenantService`. `efeitos`, `criador` and `sobrepostos` are history.

`usuario` and `sessao` are the rows of `auth.usuario` and `auth.sessao_usuario`; a session's tokens are a number
that a refresh raises, its age one of recent, idle and expired. `rq[r]` is a handler between its reads and its
commit: `LerLogin`, then `AbrirSessao` or `RegistrarFalha`; `LerRenovacao`, then `Renovar` or `Revogar`; `LerUso`, then
`Tocar` or `Revogar`; `LerRevogacao`, `Revogar`; `LerUsuario`, `Cortar` (the UPDATE of the user, which locks its row, and of
the sessions the statement sees), `Confirmar`; `LerTroca`, `Trocar`. A write names only the columns that
changed, as the mapper does. `corte` counts how often a user's sessions were ended, and a session remembers
the count it was opened under and whether its handler was already under way (`tardia`).

Bounds: either 1 contract, 3 tenants, any 2 events, 2 requests, 1 crash; or a user and a manager with 1
session between them, room for a support user and 2 sessions, 2 requests, 2 operations, and a login that
is blocked at its second failure. `SpecMCJusta` starts in one of the two areas, and the action constraint
`UmaArea` keeps managers of tenants quiet while people log in; nothing else of the first area can happen in
the second. Three tenants are one per event and one that a manager names like the contract's.

### Vote confirmation and goals: `ConfirmacaoVoto`, `MetasRisco`

`status`, `atendimento` and `confirmacao` are a person's rows of `status_eleitor_eleicao`,
`atendimento_eleitor` and `confirmacao_operacional_voto`. A contact of the call center (`Contatar`,
`create_contact`) writes the status and then the confirmation; an attendance (`Atender`, `update_call` and
`close`) its own row and then the confirmation (`sync_vote_confirmation`). `conversa[r].presas` names the
rows a transaction holds until its commit.

`meta`, `acomp` and `alerta` are a goal, its tracking rows by day and its open alert. A request (`Pedir`,
`ContinuarCalculo`) is `create_tracking`, `update_goal`, `cancel_goal` or the recalculation of the ranking; the job
(`JobComecar`, `ContinuarJob`) recalculates every goal and the ranking in one transaction. `presas[x]` are
the rows that the transaction of `x` has written, `calc` and `job` what it carries. `juntas` and `duvida`
are history: transactions that met another one about their goal, and the goals they committed.

Bounds: 1 person with a leader in `campanha_liderado`, 2 answers at once, 3 in a behaviour; 1 goal, 2
days, 2 requests and the job. Two answers are a race of any two doors; three show what the last one
leaves after two that met. Two requests and the job have three lock orders among them, which is where the
deadlocks come from.

### Agenda, public attendance and Google: `AgendaPublica`, `GoogleAgenda`

`LerEventoPublico`, `TravarIdentidade`, `AcharFicha`, `LerParticipacao`, `GravarParticipacao` are the statements
of `confirm_public_attendance`; `LerGestor` and its five writes the handlers of a manager. `GoogleAgenda` is one
calendar linked with one at Google: `Sincronizar` to `Concluir` are the steps of a synchronization, in
which every call to Google has its effect at once while `rasc[s]` waits for the commit; `Cair` and `Falhar`
lose the second and not the first. `LerEvento` and `GravarEvento` are the two ends of an edit: the first fixes its
timestamp, the second commits it. A new event takes an id that the sequence gave to nobody, committed or not
(`Livre`). The number of a change is its clock and its contents. `Escolher` is what `_import_one` decides about an
item, `Pular` its early returns: a private item in a public calendar, an item without a start, or a living
one while the account's user has no person. Which items these are depends on rows that the model does
not have, so any item may be passed over at any time; `puladas` remembers the versions of the copies that were, and
`duvidosos` the events whose copy a pull passed over before it was linked, which the next push creates again. An edit
writes the contents and leaves the status, so a cancelled event that is edited stays cancelled.

Bounds: 2 events, 2 remote events, 2 synchronizations at once, 3 in all, 2 local handlers, 3 changes by
people, 1 crash, the three directions, 1 copy passed over in a behaviour; 2 calendars, 1 event, 2 people, 2 phones, 2 forms, 2 managers, 6
acts. Two local handlers are needed: an edit overtaken by a later one of the same event is lost only when a push
comes between their commits. A crash between a call and its commit, the synchronization that adopts what it left, and one
more that must find nothing to do are three synchronizations.

### Demands: `DemandasAlertas`

`demanda` is what a movement records (status, result, due date), `movimento` the last one, `alertasPrazo`
the rows of `alerta_prazo` under their unique key. `LerDemanda` is the read of an edition or an
attendance; `EditarDemanda` and `AtenderDemanda` are the UPDATE, the comparison with what was read, which writes
a movement or rolls back, and the commit. `rodada` is the job: `ResolverAlertas` and `ListarVencimentos` read,
`ConfirmarAlertas` commits, `PerderRodada` loses it, while days pass (`Amanhecer`) and people edit.

### Files: `ArquivosAnexos`

`objetos` is the storage, `anexos` the committed rows, `retrato` the pointer that shows a photo or a logotype,
`textos` the rows of `documento_extraido`. An upload stores (`Guardar`), lists what it replaces (`Listar`),
commits (`Confirmar`, `ConfirmarExecucao` for a field execution, `ConfirmarSemResposta` when the commit's
answer is lost), dispatches (`Despachar`), writes the logotype (`AtualizarLogo`), or is undone (`Desfazer`,
`Morrer`). A removal picks an attachment and removes it; a delivery of `jobs.arquivos.extract` reads,
deletes the texts it sees and inserts its own.

Bounds: 2 uploads, 1 removal, 2 deliveries, 3 owners: a person, a tenant, an execution.

### Election results: `ResultadosRollup`, `ConsultaResultados`

`fonte` is the version of `tse.resultados_eleicoes`; what an aggregate, an answer or a cache entry is worth
is the version it was computed from. Workers claim a pending control row, take their snapshot and publish a
generation; readers compute a key from the control row, look the cache up, take the key's lock, produce,
store and release. `ConsultaResultados` is not about time: its states are a table, the aggregates its refreshes
left and which elections are ready, and its invariant compares the answer of every question (indicators,
ranking, comparison, distributions, options of the filters, search, map, export) from the level of
aggregates chosen by the filter (`Analitico`) with the answer from the raw table (`Bruto`), for every filter and
territorial access of the instance.

Bounds: 1 load, 2 generations, 2 workers with 1 reader, or 1 worker at a time with 2 readers; 4 tables
over 2 elections and 3 municipalities of 2 states, with a section without a polling place, null votes, one
number in two municipalities and a row without a name, under 12 filters and 6 kinds of access.

### Not in these modules

Formatting, permissions, row level security, audit rows, media and their previews, the contents of
reports and of the data warehouse. Permissions are decided before the first statement modelled, and
every module works within one tenant (the jobs module has several because the scheduler visits them in
turn). Of Google: authorization, link and unlink of a calendar, visibility, and the import of an event
without people. Of files: attachments of other entities, which have none of the three special rules.

## Runs

| Run | Module, configuration | States | Checks |
|---|---|---|---|
| `servicos_seguros` | `MCServicos`, `ServicosSeguros.cfg` | 723 000 | `UmAbertoPorPessoa`, `EncerramentoDefinitivo` and `ImplementaFila` (queue); `CicloSoSemConferir`, `OrganizacaoCompleta` (territories); `LocaisConferem`, `PrincipalUnico` (addresses, votes); `ArquivoConfere` (files); `CadastroConfere` (registration) |
| `fila_termina` | `MCFilaAtendimento`, `FilaTermina.cfg` | 81 000 | `TodaRequisicaoTermina`: every request of the queue ends, under `SF` |
| `encerramento_seguro` | `MCEncerramentoCampanha`, `EncerramentoSeguro.cfg` | 2 050 000 | `EncerramentoConfere` (closed exactly when consolidated, a concluded job closed it), `FalhaSoDeRepetida` (a closed campaign reads as failed only after a second try or a success that could not be recorded), `EncerradaNaoReativa` |
| `encerramento_termina` | `MCEncerramentoCampanha`, `EncerramentoTermina.cfg` | 36 500 | `EncerramentoSeResolve` under fairness |
| `jobs_seguros` | `MCJobs`, `JobsSeguros.cfg` | 1 014 000 | `SimultaneosSoRepetidos`, `LinhaConfere` (a live row has an owner or was left behind, a concluded one was done) (jobs), `DemandaConfere` (demands), `ResultadoConfere` (generations, cache and questions) |
| `jobs_termina` | `MCJobsAgendados`, `JobsTermina.cfg` | 119 000 | `JobsRodam` under fairness: a live row ends, every tenant gets its job |
| `importacao_segura` | `MCImportacaoETL`, `ImportacaoSegura.cfg` | 148 000 | `StagingConfere` (staging of one validation, counted), `CargaConfere` (marked exactly when promoted, a document of one person), `ImportacaoTermina` under fairness |
| `campo_seguro` | `MCCampo`, `CampoSeguro.cfg` | 496 000 | `PontoConfere`, `PlanejamentoConfere`, `ExecucaoConfere` (field); `InsercaoNaoFechaCiclo`, `MescladaUmaVez`, `MesclaLevaTudo` (registry) |
| `agenda_segura` | `MCAgenda`, `AgendaSegura.cfg` | 2 497 000 | `UmaCopia`, `Convergem` (Google); `PublicaConfere`, `ConfirmadaFica` (public attendance) |
| `conta_segura` | `MCContaTenant`, `ContaSegura.cfg` | 356 000 | `ContaConfere` (events, tenants and cuts), `RevogadaFica`, `TodoEventoAcontece` under fairness |
| `metas_segura` | `MCMetasRisco`, `MetasSegura.cfg` | 128 000 | `SozinhaAcerta`, `RespostaVale`, `CanceladaConfere`, `CalculosTerminam` under fairness |
| `mescla_v_ciclo` | `MCMesclaPessoas`, `MesclaVCiclo.cfg` | | expected violation: a link switched on again closes a cycle (`HierarquiaSemCiclo`) |

A run whose module has areas starts in one of them and stays there; the other variables are as they are at
the start. The areas share no variable, so their states add up and the properties of one say nothing
of another. A property is a conjunction of the parts named in its module; the comment above each part says
what it is about. Every property fails for the mutant of the code that `PROJECT.json` names for it.


## Proofs

The theorems hold for every number of operators, people, campaigns, jobs, workers, requests, rows,
events, goals and deliveries. They assume what the `ASSUME`s at the head of each module say, which TLC
evaluates on every run: ids handed out in order are natural numbers, the sentinels (`Nada`, `Nenhum`,
`SemArquivo`) are none of the ids, bounds are natural numbers, files and tables are finite
(`ArquivoFinito`, `PessoasContaveis`, `CelularesContaveis`, `RequisicoesCampoContaveis`,
`TerritoriosContaveis`), and names of different kinds differ (`JobNaoChamada`, `TagSemDono`,
`NinguemSemFicha`, `NomesAgenda`, `AnonimaNaoEhPessoa`, `NenhumFora`, `BairroNaoEhMarca`).

| Module | Theorems | Invariant and argument |
|---|---|---|
| `FilaAtendimentoProofs` | `Invariante`, `TiposCorretos`, `PessoaComUmAberto`, `EncerramentoFica`, `FilaImplementada`, `PublicaSempreConfere`, `ConfirmadaSempreFica`, `CopiaSempreUnica`, `CalmaSempreConverge` | `UmAbertoPorPessoa` is not inductive, because a resume writes in one step and commits in the next. `PendenteOK` says that what an uncommitted resume or close checked still holds: its row and its index entry make every other writer wait. `FilaImplementada` is the refinement of `FilaExclusiva`: `FilaOK` says that one request at a time has an operator's advisory lock, `LimiteOK` that the operator's open attendances stay below the limit that request has read until it commits; every step of the handlers is then a step of the abstract queue or leaves it as it is (`PassoMove`, `PassoEfeito`). The public attendance (`AgendaPublica`): `FichasOK` says that the lock of an identity keeps true what a form has read, `LidasPublicasOK` that a presence confirmed after a form read none came through another phone. Google (`GoogleAgenda`): `Fala(e, g)` collects everything that says that `g` is the copy of `e`, at Google, in the links, in drafts, lists and items; `UmId`, that they name one, is kept because a pull that has gone past a copy has linked it (`PuxadosOK`), nobody else can take the copy meanwhile (`CopiasOK`, `Unicos`), and what a lone push is about to create has none (`ACriar`). Over it, `AcertoOK` says how far a synchronization has got: a copy newer than its link is one that a pull is still going to see or has passed over as it is (`LigadoOK`), an event newer than its link one that a push nobody disturbs is still going to send (`CalmaOK`), and a synchronization that starts from equal calendars keeps them equal (`MantidoOK`). |
| `EncerramentoCampanhaProofs` | `Invariante`, `TiposCorretos`, `EncerramentoConferido`, `FalhaSempreDeRepetida`, `EncerradaFica` | `Referencias` (no id that a worker or a message holds is given out again) and `SucessoEncerrou`, which carries the success from the consolidating transaction to the one that marks the job. |
| `JobsAgendadosProofs` | `Tipos`, `ConcluidoFoiFeito`, `LinhaSempreConfere`, `SemConcorrencia`, `DemandaSempreConfere`, `GeracaoSempreConfere` | `Inv1`: the job a scheduler holds was never delivered, the job a worker holds was; so no row has two writers. A row without a message, a worker or a scheduler is one its scheduler left (`orfaos`); `SemConcorrencia` is about the jobs delivered at most once: such a message waits only while its row is queued (`FilaViva`), its one worker runs a live row (`TrabVivo`, `TrabDistintos`), and two live rows of a key are one (`UmVivoPorChave`). Neither result has a hypothesis. Demands: `LidaOK` and `RodadaOK`, what a round of alerts has read still holds while nothing overlaps it. Aggregates: `LinhaRollupOK`, one worker has the pending row and its generation is newer than any other; `ChavesOK`, nobody reads or stores under a generation that is not yet active; `GuardaOK`; `TravaOK`, a producer has the lock of its key unless it expired. |
| `ImportacaoETLProofs` | `Invariante`, `TiposCorretos`, `StagingConferida`, `PromocaoMarcada`, `DocumentoUnico`, `CargaSempreConfere` | `Nucleo`: one transaction at a time holds the import's row (`UmaTrava`), what a validation deletes is all the staging (`Escritas`), numbers of validations are never reused (`Numeradas`, `IdUnico`), a row a load holds is still valid (`LidasBatem`), and a document inserted and not committed is nowhere else (`Documentos`). `Contadas` relates the counter to the rows. |
| `MesclaPessoasProofs` | `TipoSempre`, `MescladaUmaVezSempre`, `MesclaSempreLevaTudo`, `InsercaoNuncaFechaCiclo`, `PlanejamentoSempreConfere`, `ExecucaoSempreConfere` | `Reservas`: a registration in progress has its row to itself, and a merge in progress does not hold such a row; so the one step that revives a row never meets a merged one (`MescladaExcluida`). `MesclaSempreLevaTudo`: of every table whose statement has run, the source has nothing that the principal lacks but what the merge carries to its commit, which its locks protect, and what others brought in behind the statement (`Abrangidas`). `InsercaoNuncaFechaCiclo`: the people below a leadership are the least closed set, so a set that is closed with the new link bounds them (`InsercaoSemCiclo`); `InsercoesOK` says that what an insertion checked holds until the hierarchy changes. Field material (`AnunciosCampo`): `TravasDe`, who holds the row of a route or of a planning is alone; `ListaDe`, an edit has every planning nobody started in its list and none that was started, and a copy has the header of the route whose points it copies; `ConfirmarDe`, an execution about to commit computed its rows from those still there; `GravarDe`; `PontoOK`, the status of a point says what was left there. |
| `ContaTenantProofs` | `Invariante`, `TiposCorretos`, `ContaSempreConfere`, `RevogadaSempreFica` | A handler reads that a contract has no tenant and creates one later: `AprovacoesOK` says what an approval on its way means for the tenants that are there, `EventosOK` that a delivery holds its event alone and before its effect. `AlvosOK`: between the statement that chooses the sessions to end and its commit the list stays complete, because the user's row is locked and what opens meanwhile is marked late. |
| `MetasRiscoProofs` | `Invariante`, `TiposCorretos`, `RespostaSempreVale`, `SozinhaSempreAcerta`, `CanceladaSempreFica` | `JuntasOK`, `StatusSozinho`, `StatusPreso` and `RecusaOK` say what an answer on its way has read and the others have not changed since; `TravasOK` and `DonosOK` who holds the row of a goal, `JuntasMetaOK` that a computation without a mark is alone with its goal, `SozinhoOK`, `JobOK` and `JobSozinho` what it is going to leave there. |
| `ServicosProofs` | `CadastroSempreConfere`, `ArquivoSempreConfere`, `CicloSempreSemConferir`, `OrganizacaoSempreCompleta`, `LocaisSempreConferem`, `PrincipalSempreUnico` | Registration: the unique indexes keep identities apart (`IdentidadesDistintas`), one request inserts the tag (`TagOK`), a lone request of a nucleus loaded the true count (`FamiliaOK`), the last replacement of types left what it inserted (`TrocaOK`). Files: `EnvioOK`, `RemocaoOK`, `FotosOK` and `ExtracaoOK` say what an upload, a removal and a delivery have listed and nobody changed since. Territories: `ChecagemOK`, what a move or an organization checked holds until something is committed; a new edge that leaves nobody below the moved territory closes no cycle, because the old set above the new parent stays closed. Addresses: `SozinhaOK` says what a request nobody overlapped decided about principals and links, in terms of the rows as they will be after its commit; `MoradiaOK` that a person nobody's overlap touched has the one link its addresses give. |

Each proof has the same plan: `Init => IInv`, one step per action for `IInv /\ Next => IInv'`, the
stuttering step, `IInv => ` the property, and a last step that joins them. The lemmas before it say what
an action's record update preserves, so that the steps are about locks and rows and not about the shape
of records. TLC checked each inductive invariant on the instance of its run before it was proved.

What stays with TLC:

- Liveness under fairness and `ENABLED`, which the prover does not treat: `TodaRequisicaoTermina`,
  `EncerramentoSeResolve`, `JobsRodam`, `ImportacaoTermina`, `TodoEventoAcontece`, `CalculosTerminam`, and the
  half of `CanceladaConfere` that says a cancelled goal's alert is resolved in the end.
- `PontoConfere` and the second half of `ResultadoConfere` (`ConsultaConfere`) compare sums and rankings
  over the rows of a table with those over its aggregates, which is induction over the table. The first
  half, `GeracaoConfere`, is proved.

## What the code does not keep

One run is expected to fail: `mescla_v_ciclo`. `set_hierarchy_status` switches a link on without the
cycle query, and the query ignores links that are off, although `SPEC-04` line 49 (CAD-020) says that a
person never becomes its own ancestor. The trace: A leads B; the link is switched off; B is put above A,
which the query allows, since the other link is off; the first link is switched on again.

The others below are stated in the modules, or are exceptions that a property names, or are facts met
while modelling. TLC refutes those that have a name, on the instance of the component's run unless
other constants are given. They have no run of their own.

**Attendance queue.** With 2 operators, `Pessoas = {1}`, `Iniciais = {1}`, `Atendimentos = {1, 2, 3}`,
`Telefones = {}`, `Limites = {1, 2}` and 2 requests: `SoDonoEncerra` (`regras-atendimento.md:23`, only the
owner closes; `close` and `invalidate` check the owner on an earlier read and their UPDATE repeats only the
situation, `atendimento_repository.py:700`), `SorteioSoForaDeDefinitivo` (`regras-atendimento.md:138-139`;
the draw's NOT EXISTS is evaluated on the statement's snapshot and not again after the row lock,
`atendimento_repository.py:302`), `RetomadaSoForaDeDefinitivo` (`:125`; `atendimento_service.py:221`),
`RetomadaAtribui` (`:108`; the number of rows `reopen_attendance` changed is not looked at,
`atendimento_service.py:238`). `TelefoneUnico` (`:82-84`; looked up and inserted in two statements,
`atendimento_service.py:115`) fails with `Pessoas = {1, 2}`, `Iniciais = {}`, `Atendimentos = {1, 2}`,
`Telefones = {f1}`; with one operator, whose lock serializes the two, it holds.

**Closure.** A delivery that waited for the advisory lock fails on its old snapshot and writes "falha" over
"concluido": `jobs/campaigns.py:10` promises a "transacao idempotente" and
`contexto-campanha-e-dados-permanentes.md:143-144` that after an error the campaign stays active. An error of
`mark_succeeded` has the same effect. `FalhaSoDeRepetida` names the two ways. When a dispatch
fails, the error after the commit is answered to the user and the closure stays "enfileirado", which no
operation retries (`mod_eleicoes/service.py:243`); `EncerramentoSeResolve` excepts these closures (`Perdida`). `activate_campaign` deactivates
the active campaign although its target was closed meanwhile, and answers success
(`mod_eleicoes/repository.py:240`).

**Periodic jobs.** The jobs `README.md:41-42` promises that no two jobs of one indicator and tenant run at
once; a message delivered again while its first delivery runs breaks it, because `jobs/repository.py:119`
starts a job whatever its status. `SimultaneosSoRepetidos` says that nothing else does. `ChaveLibera` fails
when a scheduler dies after its commit (`jobs/service.py:145`) or a direct dispatch fails (`tasks.py:79`,
`tasks.py:120`, `cli.py:89`): the live row has no message and blocks its key for ever; `VivoTemDono` names
these rows (`orfaos`). `TodoTenantRoda` fails for the
reference in `Recusadas`: `job_type="alerta"` (`tasks.py:410`) is refused by the CHECK of
`etl.job_processamento` (migration 001, line 1813), so no due-date alert is created by that task for
any tenant, against the jobs `README.md:108-110`. Reports delivered twice are recorded twice
(`jobs/dashboard.py:89`).

**Import.** `CargaSoDoAprovado`: `load` promotes what is staged when it runs, and approval is only a
timestamp that a new validation does not clear (`imports.py:1`, `:216`, migration 010 line 93). A
validation or a load that read the status before a cancellation writes its own over it (`imports.py:47`,
`:167`, `:210`); a validation writes back the mapping it read at its start (`:69`); after a second
approval the counters of a load no longer add up to the lines of the file (`:263`).

**Field material.** `update_planning` (`mod_anuncios/service.py:379`) writes the status it validated
against an earlier read. A release read before an execution may put LIBERADA over EM_EXECUCAO,
CONCLUIDA or CANCELADA, and EM_EXECUCAO over CONCLUIDA, transitions that `_validate_status_transition`
(`:302-314`) refuses; a cancelled planning revived so was not synchronized meanwhile.
`PlanejamentoConfere` says so by leaving the plannings an update wrote last out. The edit of a route
locks the route, then points, then plannings, although the comment at `repository.py:501-502` promises the
order of the executions; the two meet in deadlocks that PostgreSQL breaks, and one request fails. A
manual installation repeated while its first attempt runs is answered with
`idempotency_key_reused` or an integrity error instead of the stored execution.

**People registry.** `SemAutoIndicacao` (`mod_cadastro/service.py:814-818`): merging a person with somebody
it had indicated makes it indicate itself, because the CASE of `repository.py:1953` handles only the
opposite direction. What somebody commits about the source of a merge behind the statement of its table
stays on the removed record (`tarde`): a contact, a voter row, a leadership, a link or an indication.
`MesclaEmPessoaViva`: A into B and B into C at once, or the same two people in both
directions, leave data in a record that was removed meanwhile. A merge of two people who both have an
active superior, or were both indicated, is refused by an index outside `commit()`, that is as an
internal error; so is the exchange of voter numbers (`:1879`) when the principal's voter row is the older
one. `resolve_duplicate` reopens a suspicion that was merged; two registrations at once with one
telephone raise no suspicion. The CPF of a deleted person still blocks; `update_document` looks for no
other owner. Two overlapping requests on a nucleus leave a wrong count until the next one, and two
overlapping replacements of a person's types their union: `CadastroConfere` names both.

**Addresses and polling places.** Two overlapping additions of a principal address leave two "moradia"
links and two principals, and so does a merge of two people who have one each; the next change of the
address repairs it. `VotacaoUnica` (migration 022:143) fails by a merge, which copies the links of the
absorbed person, and by a link made by hand. A change of vote that keeps the polling place does not
fire the trigger; the automatic DELETE of the trigger removes links made by hand.

**Territories.** `HierarquiaTerritorialSemCiclo` (`mod_territorio/service.py`, "A hierarquia territorial nao
pode conter ciclos."; `SPEC-05` lines 42 and 56) fails by two overlapping moves and by an organization,
which does not look for a cycle; `CicloSoSemConferir` names the two ways.

**Tenants, accounts and sessions.** `AprovacaoFica`: a `payment.failed` that arrives late, or was read
before an approval committed, writes `pagamento_falhou` over `aprovada` (`tenants/repository.py:351`), and a
later approval activates the tenant without writing the contract again. Two approvals that both read the
contract before either committed make two tenants, of which the contract keeps the second (`:302`);
`UmTenantPorContrato` leaves exactly these out. `activate` (`tenants/service.py:101`) checks a status that
the update no longer looks at. `SessaoComSenhaAtual`: a login verified with the old password commits its
session after the change has ended the others (`auth/service.py:152`). `FalhasContadas`: two failed
logins write the count one of them read (`auth/repository.py:514`). A failed login writes `bloqueado` over
`inativo` (`:516`), and a reset of the password then makes the user active again (`:608`). Removing a
manager of the platform leaves the sessions of its support users.

**Goals and confirmations.** `regras-metas-votos-e-confirmacoes.md:67-77` computes the progress from confirmed
votes, `mod_metas/service.py:430` from the base. That document says that a person who did not answer is
not erased, and `sync_vote_confirmation` revokes on `nao_respondeu`. An update of an attendance after a
concurrent close still changes the confirmation. `eleicao.campanha_liderado` is filled by migration 029
and by nothing else, so people registered later never count. A cancelled goal may keep an open
alert until the next job; a suspended goal gets one from `create_tracking` (`service.py:489`). A
recalculation of the ranking that meets the job fails on the unique key of the day. An attendance confirms
a vote without changing the voter status that the call center's queue shows.

**Public attendance.** A presence that a manager marked is erased by a public form sent outside of the
event's period (`ConfirmadaFica` names it). A person with two phones has two locks and may have two records.
A calendar deleted while an event enters it keeps the event alive.

**Google.** A cancelled event is removed at Google (`docs/integracao-google-agenda.md:88`) or not, depending
on who owns the copy (`google_calendar.py:469-490`). An item that a pull passes over
(`google_calendar.py:370-374`, `:405-412`) has no event here, as `docs/integracao-google-agenda.md:80-82` says of
the private ones; if it is the copy a lost push left, it is not adopted and the next push makes another, against
`:13-15`. Both properties name these copies. A cancelled event that is edited here is deleted at Google
a second time, which Google refuses. Two overlapping synchronizations lose a
deletion or keep an older state; an edit begun before a pull and committed after it is never pushed,
nor is one that begins before a later edit of its event and commits after a push has sent that one: the trigger sets
`atualizado_em` to the start of the transaction, so the row goes back to a time that `google_calendar.py:465` takes
for sent (`tardias` names these events, and `Convergem` leaves them out).
After a crash behind the POST, an edit of the local event is reverted by the adoption of the copy. An
event deleted here comes back after a lost push. Under `sistema_google` a cancelled event is deleted at
Google again at every synchronization, and a cancelled event without a link is created there first.
Linking another calendar keeps the old ids, and unlinking and linking again makes duplicates.

**Demands.** A stale read refuses an edition with "Mudanca de status exige observacao" that changes no
status; an edition that puts a value back writes no movement; an alert resolved before never opens again
for the same date (`jobs/demands.py:77`); `patch_catalog` can make a status final whose demands have no
result.

**Files.** A commit whose answer is lost deletes the object of a live row. Two overlapping uploads of a
photo, or one through the generic endpoint, leave two live photos, and `remove_photo` removes the newest,
which need not be the one shown. The second transaction of a logotype may point at an attachment
removed meanwhile. Two deliveries leave two texts, the photo of an execution is never extracted, and a
dispatch that fails is only logged (`mod_arquivos/service.py:403`). `ArquivoConfere` names the exceptions.

**Election results.** Keys whose refresh always fails stay at the head of the queue and hold the others
back. A raw answer cached may be older than a load for its time to live; a question asked during a
refresh is answered empty; a panel may mix blocks of two generations. The search keeps one name for each
number of a state and office (migration 074:51); under a restricted access the quick list of states may
offer one without rows; `truncado` is true at exactly the limit; the quick list of offices ignores the
filter of offices; the distributions "zona" and "local" group by the zone's number alone, whatever
its municipality; ties have no order; the catalogue of places of an election never refreshed is empty.

**Others.** `list_catalog` of the communication module lists inactive global items
(`tenant_id IS NULL OR tenant_id = :t AND ativo`). `get_planning` has a `lock` that would put FOR UPDATE
behind a GROUP BY, which PostgreSQL refuses; no caller asks for it.

## Running the checks

`PROJECT.json` lists the runs with their module and configuration, the definitions of every module
with the lines they model, the hazards with the properties that cover them, and the theorems.

    tlc -workers 2 -config ServicosSeguros.cfg MCServicos
    tlapm ServicosProofs.tla

A run ends in about three minutes or less, a proof in six, except that of `FilaAtendimentoProofs`, which is about three
components and takes sixteen. `CHECK_DEADLOCK` is off where ids, keys,
operations or deliveries of the instance may be used up. Symmetry is used only in runs without liveness
properties, over sets whose members the modules never compare or order. `campo_seguro` exchanges the people
together with the leaderships they begin with.

## Plan

Twelve runs are the budget kept for the whole project, so that they stay reviewable and quick; a new
component becomes an area of an existing run.

1. Model: the records an attendance leaves (contacts tried, documents, media), the catalogues and
   restricted lists of the communication module, the moves of electoral zones.
