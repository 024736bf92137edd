----------------------------- MODULE MetasRisco -----------------------------
(***************************************************************************)
(* Goals of a campaign, their tracking rows and their risk alerts          *)
(* (mod_metas), with the periodic job that recalculates every goal and the *)
(* leaders' ranking in one transaction (jobs/repository.py).               *)
(*                                                                         *)
(* A request and the job count people first and write later: the tracking  *)
(* row of a date, the open alert of the goal, the goal, in an order that   *)
(* is not the same for all of them.  presas[x] are the rows that the       *)
(* transaction of x has written and locked; their values are seen by the   *)
(* others at its commit.                                                   *)
(***************************************************************************)
EXTENDS ConfirmacaoVoto

CONSTANTS
    Metas,         \* ids of meta.meta_voto, numbers that the job takes in order (bound)
    Datas,         \* days of tracking (bound)
    Hoje,          \* the day of the job and of a new goal
    Quantidades,   \* votes that a goal may ask for (bound)
    Limiar,        \* percentual_alerta_meta of the tenant
    StatusPedidos, \* statuses that an edit gives a goal (bound)
    Chamadas,      \* requests about goals in progress at once (bound)
    Job,
    MaxOperacoes   \* requests in a behaviour (bound)

ASSUME PessoasContaveis == IsFiniteSet(Pessoas)
ASSUME NadaNaoMeta == Nada \notin Metas
ASSUME MetasNaturais == Metas \subseteq Nat /\ Datas \subseteq Nat /\ Hoje \in Datas
ASSUME QuantidadesPositivas == Quantidades \subseteq Nat \ {0} /\ Limiar \in 0 .. 100
ASSUME StatusDeMeta ==
    StatusPedidos \subseteq {"ativa", "concluida", "cancelada", "em_risco", "suspensa"}
ASSUME JobNaoChamada == Job \notin Chamadas
ASSUME MetaOperacoesNaturais == MaxOperacoes \in Nat

VARIABLES
    meta,          \* goal -> status and votes of its row
    acomp,         \* goal -> day -> its tracking row
    alerta,        \* goal -> whether it has an open meta_abaixo_esperado alert
    passo,         \* what a request or the job does next
    presas,        \* rows held by a transaction
    juntas,        \* history: transactions that met another one about their goal
    calc,          \* what a request carries
    job,           \* what the job carries
    operacoes,     \* requests so far
    duvida         \* history: goals whose last commit had met another transaction

varsMeta == <<meta, acomp, alerta, passo, presas, juntas, calc, job, operacoes, duvida>>
vars == <<varsVoto, varsMeta>>

Processos == Chamadas \cup {Job}
Ativas == {"ativa", "em_risco"}
StatusMeta == {"ativa", "concluida", "cancelada", "em_risco", "suspensa"}
Nulo == -1
Contagem == 0 .. Cardinality(Pessoas)
SemLinha == [proj |-> Nulo, conf |-> Nulo]
Linha == [proj : Contagem \cup {Nulo}, conf : Contagem \cup {Nulo}]
LinhasMeta ==
    ({"acomp"} \X Metas \X Datas) \cup ({"alerta", "meta"} \X Metas \X {Hoje})
        \cup {<<"ranking", 0, Hoje>>}
SemCalc == [tipo |-> "nenhum", m |-> Nada, d |-> Hoje, base |-> 0, conf |-> 0,
            risco |-> "nao", existe |-> "nao", st |-> "igual", qtd |-> 0, al |-> "igual"]
SemJob == [fila |-> {}, m |-> Nada, base |-> 0, risco |-> "nao", leva |-> SemLinha,
           qtd |-> [m \in Metas |-> 0], st |-> [m \in Metas |-> "igual"],
           al |-> [m \in Metas |-> "igual"], ac |-> [m \in Metas |-> SemLinha]]
Passos == {"livre", "acomp", "alterar", "ler", "alerta", "meta", "gravar", "resolver",
           "proxima", "apagar", "esperar", "quebrar"}

LinhaMeta == [st : StatusMeta \cup {"livre"}, qtd : Quantidades \cup {0}]
Calculo == [tipo : {"nenhum", "acompanhar", "atualizar", "cancelar", "ranking"},
            m : Metas \cup {Nada}, d : Datas, base : Contagem, conf : Contagem,
            risco : {"sim", "nao"}, existe : {"sim", "nao"}, st : StatusMeta \cup {"igual"},
            qtd : Quantidades \cup {0}, al : {"igual", "aberto", "resolvido"}]
Trabalho == [fila : SUBSET Metas, m : Metas \cup {Nada}, base : Contagem,
             risco : {"sim", "nao"}, leva : Linha, qtd : [Metas -> Quantidades \cup {0}],
             st : [Metas -> StatusMeta \cup {"igual"}],
             al : [Metas -> {"igual", "aberto", "resolvido"}], ac : [Metas -> Linha]]

TipoMeta ==
    /\ meta \in [Metas -> LinhaMeta]
    /\ acomp \in [Metas -> [Datas -> Linha]]
    /\ alerta \in [Metas -> {"aberto", "resolvido"}]
    /\ passo \in [Processos -> Passos]
    /\ presas \in [Processos -> SUBSET LinhasMeta]
    /\ juntas \subseteq Processos
    /\ calc \in [Chamadas -> Calculo]
    /\ job \in Trabalho
    /\ operacoes \in 0 .. MaxOperacoes
    /\ duvida \subseteq Metas

InitMeta ==
    /\ meta = [m \in Metas |-> [st |-> "livre", qtd |-> 0]]
    /\ acomp = [m \in Metas |-> [d \in Datas |-> SemLinha]]
    /\ alerta = [m \in Metas |-> "resolvido"]
    /\ passo = [x \in Processos |-> "livre"]
    /\ presas = [x \in Processos |-> {}]
    /\ juntas = {}
    /\ calc = [r \in Chamadas |-> SemCalc]
    /\ job = SemJob
    /\ operacoes = 0
    /\ duvida = {}

(***************************************************************************)
(* Counts and rules.                                                       *)
(***************************************************************************)
\* rules.percentage, in hundredths: two decimals, half up.
Percentual(n, q) == IF q <= 0 THEN 0 ELSE (20000 * n + q) \div (2 * q)
Risco(n, q) == IF Percentual(n, q) < 100 * Limiar THEN "sim" ELSE "nao"

\* A goal of type global without targets: the requests count the people with
\* a leader, and confirmed_person_ids those of them that are confirmed.
Base == Cardinality(lider)
Confirmados == Cardinality({p \in lider : confirmacao[p] = "confirmada"})

\* Mutant of StatusPeloRisco: a goal at risk never comes out of it.
StatusSoSobe(st, risco) ==
    IF st \in Ativas /\ risco = "sim" THEN "em_risco" ELSE st

\* The CASE of update_predictive_risk and of the job: only an active goal
\* changes its status.
StatusPeloRisco(st, risco) ==
    IF st \notin Ativas THEN st ELSE IF risco = "sim" THEN "em_risco" ELSE "ativa"

\* The number that the job measures: that of the latest day, if there is one.
UltimoDia(m) == {d \in Datas : acomp[m][d] # SemLinha /\ \A e \in Datas :
                                  acomp[m][e] # SemLinha => e <= d}

(***************************************************************************)
(* Locks.                                                                  *)
(***************************************************************************)
LinhaAcomp(m, d) == <<"acomp", m, d>>
LinhaAlerta(m) == <<"alerta", m, Hoje>>
LinhaDaMeta(m) == <<"meta", m, Hoje>>
Ranking == <<"ranking", 0, Hoje>>

Livres(x, linhas) == \A y \in Processos \ {x} : presas[y] \cap linhas = {}

ValorAlerta(m) == IF job.al[m] = "igual" THEN alerta[m] ELSE job.al[m]

\* The open alerts of goals that are not active.
AlertasParados == {m \in Metas : meta[m].st \notin Ativas /\ alerta[m] = "aberto"}

\* The rows that the next statement of x writes.
Quer(x) ==
    LET m == IF x = Job THEN job.m ELSE calc[x].m
        resolve == IF x = Job THEN ValorAlerta(m) = "aberto" ELSE alerta[m] = "aberto"
        risco == IF x = Job THEN job.risco ELSE calc[x].risco
    IN CASE passo[x] = "acomp" -> {LinhaAcomp(m, IF x = Job THEN Hoje ELSE calc[x].d)}
         [] passo[x] \in {"alterar", "meta"} -> {LinhaDaMeta(m)}
         [] passo[x] = "alerta" /\ (risco = "sim" \/ resolve) -> {LinhaAlerta(m)}
         [] passo[x] = "resolver" -> {LinhaAlerta(n) : n \in AlertasParados}
         [] passo[x] = "esperar" -> {Ranking}
         [] OTHER -> {}

Espera(x) == {y \in Processos \ {x} : presas[y] \cap Quer(x) # {}}

Emperrado(x) ==
    \E S \in SUBSET Processos :
        /\ x \in S
        /\ \A y \in S : S \cap Espera(y) # {} /\ \E z \in S : y \in Espera(z)

Ir(x, p, linhas) ==
    /\ passo' = [passo EXCEPT ![x] = p]
    /\ presas' = [presas EXCEPT ![x] = @ \cup linhas]

\* Mutant of Soltar: the session goes back to the pool without its rollback.
SoltarPreso(x) ==
    /\ passo' = [passo EXCEPT ![x] = "livre"]
    /\ UNCHANGED presas
    /\ juntas' = juntas \ {x}
    /\ IF x = Job THEN job' = SemJob /\ UNCHANGED calc
       ELSE calc' = [calc EXCEPT ![x] = SemCalc] /\ UNCHANGED job

\* A commit or a rollback lets go of every row.
Soltar(x) ==
    /\ passo' = [passo EXCEPT ![x] = "livre"]
    /\ presas' = [presas EXCEPT ![x] = {}]
    /\ juntas' = juntas \ {x}
    /\ IF x = Job THEN job' = SemJob /\ UNCHANGED calc
       ELSE calc' = [calc EXCEPT ![x] = SemCalc] /\ UNCHANGED job

\* The error of a request, or of the job, undoes its transaction.
Desfazer(x) ==
    /\ Soltar(x)
    /\ UNCHANGED <<varsVoto, meta, acomp, alerta, operacoes, duvida>>

(***************************************************************************)
(* Requests.                                                               *)
(***************************************************************************)
\* Transactions about m in progress; the job is about every goal.
Sobre(m) == {x \in Processos : passo[x] # "livre" /\ (x = Job \/ calc[x].m = m)}

Abrir(r, p, c) ==
    /\ passo[r] = "livre"
    /\ operacoes < MaxOperacoes
    /\ operacoes' = operacoes + 1
    /\ passo' = [passo EXCEPT ![r] = p]
    /\ calc' = [calc EXCEPT ![r] = c]
    /\ juntas' = IF c.m = Nada \/ Sobre(c.m) = {} THEN juntas ELSE juntas \cup Sobre(c.m) \cup {r}
    /\ UNCHANGED <<varsVoto, meta, acomp, alerta, presas, job, duvida>>

\* create_goal: nobody sees the goal before its one commit.
CriarMeta(m, q) ==
    /\ meta[m].st = "livre"
    /\ operacoes < MaxOperacoes
    /\ operacoes' = operacoes + 1
    /\ meta' = [meta EXCEPT ![m] = [st |-> StatusPeloRisco("ativa", Risco(Base, q)), qtd |-> q]]
    /\ acomp' = [acomp EXCEPT ![m][Hoje] = [proj |-> Base, conf |-> Confirmados]]
    /\ alerta' = [alerta EXCEPT ![m] = IF Risco(Base, q) = "sim" THEN "aberto" ELSE "resolvido"]
    /\ UNCHANGED <<varsVoto, passo, presas, juntas, calc, job, duvida>>

\* create_tracking of any day: the goal and the people are read first.
Acompanhar(r, m, d) ==
    /\ meta[m].st \notin {"livre", "cancelada", "concluida"}
    /\ Abrir(r, "acomp", [SemCalc EXCEPT !.tipo = "acompanhar", !.m = m, !.d = d, !.base = Base,
                             !.conf = Confirmados, !.risco = Risco(Base, meta[m].qtd)])

\* update_goal with a status, votes or both (its targets are not told apart).
Atualizar(r, m, st, q) ==
    /\ meta[m].st # "livre"
    /\ <<st, q>> # <<"igual", 0>>
    /\ Abrir(r, "alterar", [SemCalc EXCEPT !.tipo = "atualizar", !.m = m, !.st = st, !.qtd = q])

Cancelar(r, m) ==
    /\ meta[m].st # "livre"
    /\ Abrir(r, "alterar", [SemCalc EXCEPT !.tipo = "cancelar", !.m = m, !.st = "cancelada"])

\* recalculate_ranking of today.
Classificar(r) == Abrir(r, "apagar", [SemCalc EXCEPT !.tipo = "ranking"])

\* upsert_tracking.
TravarAcomp(r) ==
    /\ passo[r] = "acomp"
    /\ Livres(r, Quer(r))
    /\ Ir(r, "ler", Quer(r))
    /\ UNCHANGED <<varsVoto, meta, acomp, alerta, juntas, calc, job, operacoes, duvida>>

\* The UPDATE of update_goal or cancel_goal, and the count that follows it in
\* persist_goal_state: a goal that is not active has no risk.
AlterarMeta(r) ==
    LET c == calc[r]
        linha == meta[c.m]
        st == IF c.st = "igual" THEN linha.st ELSE c.st
        qtd == IF c.qtd = 0 THEN linha.qtd ELSE c.qtd
    IN
    /\ passo[r] = "alterar"
    /\ Livres(r, Quer(r))
    /\ ~(c.tipo = "cancelar" /\ linha.st = "cancelada")
    /\ Ir(r, "ler", Quer(r))
    /\ calc' = [calc EXCEPT ![r] = [c EXCEPT !.st = st, !.qtd = qtd, !.base = Base,
                   !.risco = IF st \in Ativas THEN Risco(Base, qtd) ELSE "nao"]]
    /\ UNCHANGED <<varsVoto, meta, acomp, alerta, juntas, job, operacoes, duvida>>

JaCancelada(r) ==
    /\ passo[r] = "alterar"
    /\ Livres(r, Quer(r))
    /\ calc[r].tipo = "cancelar" /\ meta[calc[r].m].st = "cancelada"
    /\ Desfazer(r)

\* sync_risk_alert reads the open alert, and then opens or updates one, or
\* resolves the one it has read, or leaves the alerts alone.
LerAlerta(r) ==
    LET c == calc[r]
        existe == alerta[c.m] = "aberto"
        depois == IF c.tipo = "acompanhar" THEN "meta" ELSE "gravar"
    IN
    /\ passo[r] = "ler"
    /\ Ir(r, IF c.risco = "sim" \/ existe THEN "alerta" ELSE depois, {})
    /\ calc' = [calc EXCEPT ![r].existe = IF existe THEN "sim" ELSE "nao"]
    /\ UNCHANGED <<varsVoto, meta, acomp, alerta, juntas, job, operacoes, duvida>>

MexerAlerta(r) ==
    LET c == calc[r] IN
    /\ passo[r] = "alerta"
    /\ c.risco = "sim" \/ alerta[c.m] = "aberto"
    /\ Livres(r, Quer(r))
    /\ Ir(r, IF c.tipo = "acompanhar" THEN "meta" ELSE "gravar", Quer(r))
    /\ calc' = [calc EXCEPT ![r].al = IF c.risco = "sim" THEN "aberto" ELSE "resolvido"]
    /\ UNCHANGED <<varsVoto, meta, acomp, alerta, juntas, job, operacoes, duvida>>

\* The UPDATE ... RETURNING finds no row (somebody has resolved the alert
\* since it was read), and .one() raises.
AlertaSumiu(r) ==
    /\ passo[r] = "alerta"
    /\ calc[r].risco = "nao" /\ alerta[calc[r].m] = "resolvido"
    /\ Desfazer(r)

\* update_predictive_risk after a tracking.
TravarMeta(r) ==
    /\ passo[r] = "meta"
    /\ Livres(r, Quer(r))
    /\ Ir(r, "gravar", Quer(r))
    /\ UNCHANGED <<varsVoto, meta, acomp, alerta, juntas, calc, job, operacoes, duvida>>

\* The commit.  update_predictive_risk decides on the status of the row.
GravarMeta(r) ==
    LET c == calc[r]
        m == c.m
        st == IF c.tipo = "acompanhar" THEN meta[m].st ELSE c.st
    IN
    /\ passo[r] = "gravar" /\ c.tipo # "ranking"
    /\ meta' = [meta EXCEPT ![m] =
                  [st |-> StatusPeloRisco(st, c.risco),
                   qtd |-> IF c.tipo = "atualizar" THEN c.qtd ELSE @.qtd]]
    /\ acomp' = IF c.tipo = "acompanhar"
                THEN [acomp EXCEPT ![m][c.d] = [proj |-> c.base, conf |-> c.conf]] ELSE acomp
    /\ alerta' = IF c.al = "igual" THEN alerta ELSE [alerta EXCEPT ![m] = c.al]
    /\ duvida' = IF r \in juntas THEN duvida \cup {m} ELSE duvida \ {m}
    /\ Soltar(r)
    /\ UNCHANGED <<varsVoto, operacoes>>

(***************************************************************************)
(* The ranking of the day: DELETE, INSERT and commit.                      *)
(***************************************************************************)
ApagarRanking(x) ==
    /\ passo[x] = "apagar"
    /\ IF Livres(x, {Ranking}) THEN Ir(x, "gravar", {Ranking}) ELSE Ir(x, "esperar", {})
    /\ UNCHANGED <<varsVoto, meta, acomp, alerta, juntas, calc, job, operacoes, duvida>>

\* uq_ranking_lideranca_campanha: the DELETE that waited does not see the rows
\* that the other transaction inserted, and the INSERT repeats them.
RankingRepetido(x) == passo[x] = "quebrar" /\ Desfazer(x)

\* Who waits for the rows of x finds them committed.
PassosDepois(x) ==
    [y \in Processos |-> CASE y = x -> "livre"
                           [] passo[y] = "esperar" -> "quebrar"
                           [] OTHER -> passo[y]]

GravarRanking(r) ==
    /\ passo[r] = "gravar" /\ calc[r].tipo = "ranking"
    /\ passo' = PassosDepois(r)
    /\ presas' = [presas EXCEPT ![r] = {}]
    /\ juntas' = juntas \ {r}
    /\ calc' = [calc EXCEPT ![r] = SemCalc]
    /\ UNCHANGED <<varsVoto, meta, acomp, alerta, job, operacoes, duvida>>

(***************************************************************************)
(* The job: every goal that is active when it starts, in one transaction.  *)
(***************************************************************************)
JobComecar ==
    LET outras == {r \in Chamadas : passo[r] # "livre" /\ calc[r].m # Nada} IN
    /\ passo[Job] = "livre"
    /\ passo' = [passo EXCEPT ![Job] = "resolver"]
    /\ job' = [SemJob EXCEPT !.fila = {m \in Metas : meta[m].st \in Ativas},
                             !.qtd = [m \in Metas |-> meta[m].qtd]]
    /\ juntas' = IF outras = {} THEN juntas ELSE juntas \cup outras \cup {Job}
    /\ UNCHANGED <<varsVoto, meta, acomp, alerta, presas, calc, operacoes, duvida>>

\* One UPDATE resolves the open alerts of the goals that are not active.
JobResolver ==
    /\ passo[Job] = "resolver"
    /\ Livres(Job, Quer(Job))
    /\ Ir(Job, "proxima", Quer(Job))
    /\ job' = [job EXCEPT !.al = [m \in Metas |->
                                    IF m \in AlertasParados THEN "resolvido" ELSE "igual"]]
    /\ UNCHANGED <<varsVoto, meta, acomp, alerta, juntas, calc, operacoes, duvida>>

\* The people of the goal, whatever their links, and the latest tracking: its
\* confirmed number, or its projected one, is what the job measures.
JobContar ==
    \E m \in job.fila :
        LET base == Cardinality(Pessoas)
            recente == IF UltimoDia(m) = {} THEN SemLinha
                       ELSE acomp[m][CHOOSE d \in UltimoDia(m) : TRUE]
            atual == CASE recente.conf # Nulo -> recente.conf
                       [] recente.conf = Nulo /\ recente.proj # Nulo -> recente.proj
                       [] OTHER -> base
            leva == IF recente.conf # Nulo THEN [proj |-> Nulo, conf |-> recente.conf]
                    ELSE [proj |-> atual, conf |-> Nulo]
        IN
        /\ passo[Job] = "proxima"
        /\ \A n \in job.fila : m <= n
        /\ job' = [job EXCEPT !.fila = @ \ {m}, !.m = m, !.base = base, !.leva = leva,
                              !.risco = Risco(atual, job.qtd[m])]
        /\ Ir(Job, "acomp", {})
        /\ UNCHANGED <<varsVoto, meta, acomp, alerta, juntas, calc, operacoes, duvida>>

\* A row of today keeps its numbers; a new one carries those measured.
JobAcomp ==
    LET m == job.m IN
    /\ passo[Job] = "acomp"
    /\ Livres(Job, Quer(Job))
    /\ job' = [job EXCEPT !.ac[m] = IF acomp[m][Hoje] = SemLinha THEN job.leva
                                    ELSE acomp[m][Hoje]]
    /\ Ir(Job, "meta", Quer(Job))
    /\ UNCHANGED <<varsVoto, meta, acomp, alerta, juntas, calc, operacoes, duvida>>

\* Mutant of JobMeta: the CASE without its ELSE status.
JobMetaSemElse ==
    /\ passo[Job] = "meta"
    /\ Livres(Job, Quer(Job))
    /\ job' = [job EXCEPT !.st[job.m] = StatusPeloRisco("ativa", job.risco)]
    /\ Ir(Job, "alerta", Quer(Job))
    /\ UNCHANGED <<varsVoto, meta, acomp, alerta, juntas, calc, operacoes, duvida>>

JobMeta ==
    /\ passo[Job] = "meta"
    /\ Livres(Job, Quer(Job))
    /\ job' = [job EXCEPT !.st[job.m] = StatusPeloRisco(meta[job.m].st, job.risco)]
    /\ Ir(Job, "alerta", Quer(Job))
    /\ UNCHANGED <<varsVoto, meta, acomp, alerta, juntas, calc, operacoes, duvida>>

\* Opens or updates the alert by the number alone, or resolves the open one.
JobAlerta ==
    LET m == job.m
        muda == CASE job.risco = "sim" -> "aberto"
                  [] job.risco = "nao" /\ ValorAlerta(m) = "aberto" -> "resolvido"
                  [] OTHER -> job.al[m]
    IN
    /\ passo[Job] = "alerta"
    /\ Livres(Job, Quer(Job))
    /\ job' = [job EXCEPT !.al[m] = muda]
    /\ Ir(Job, "proxima", Quer(Job))
    /\ UNCHANGED <<varsVoto, meta, acomp, alerta, juntas, calc, operacoes, duvida>>

JobRanking ==
    /\ passo[Job] = "proxima" /\ job.fila = {}
    /\ Ir(Job, "apagar", {})
    /\ UNCHANGED <<varsVoto, meta, acomp, alerta, juntas, calc, job, operacoes, duvida>>

JobGravar ==
    /\ passo[Job] = "gravar"
    /\ meta' = [m \in Metas |-> [st |-> IF job.st[m] = "igual" THEN meta[m].st ELSE job.st[m],
                                 qtd |-> meta[m].qtd]]
    /\ acomp' = [m \in Metas |-> [d \in Datas |->
                   IF d = Hoje /\ job.ac[m] # SemLinha THEN job.ac[m] ELSE acomp[m][d]]]
    /\ alerta' = [m \in Metas |-> ValorAlerta(m)]
    /\ duvida' = IF Job \in juntas THEN Metas ELSE {}
    /\ passo' = PassosDepois(Job)
    /\ presas' = [presas EXCEPT ![Job] = {}]
    /\ juntas' = juntas \ {Job}
    /\ job' = SemJob
    /\ UNCHANGED <<varsVoto, calc, operacoes>>

\* PostgreSQL breaks a cycle of waits by an error in one of its members.
Impasse(x) == Emperrado(x) /\ Desfazer(x)

ContinuarCalculo(r) ==
    \/ TravarAcomp(r) \/ AlterarMeta(r) \/ JaCancelada(r) \/ LerAlerta(r)
    \/ MexerAlerta(r) \/ AlertaSumiu(r) \/ TravarMeta(r) \/ GravarMeta(r)
    \/ ApagarRanking(r) \/ RankingRepetido(r) \/ GravarRanking(r)
    \/ Impasse(r)

ContinuarJob ==
    \/ JobResolver \/ JobContar \/ JobAcomp \/ JobMeta \/ JobAlerta \/ JobRanking
    \/ ApagarRanking(Job) \/ RankingRepetido(Job) \/ JobGravar
    \/ Impasse(Job)

Pedir(r) ==
    \/ \E m \in Metas :
          \/ \E d \in Datas : Acompanhar(r, m, d)
          \/ \E st \in StatusPedidos \cup {"igual"}, q \in Quantidades \cup {0} :
                Atualizar(r, m, st, q)
          \/ Cancelar(r, m)
    \/ Classificar(r)

NextMeta ==
    \/ \E m \in Metas, q \in Quantidades : CriarMeta(m, q)
    \/ \E r \in Chamadas : Pedir(r) \/ ContinuarCalculo(r)
    \/ JobComecar
    \/ ContinuarJob

Init == InitVoto /\ InitMeta
Next == (NextVoto /\ UNCHANGED varsMeta) \/ NextMeta
Spec == Init /\ [][Next]_vars

\* Requests go on (PostgreSQL serves the waiters of a row in turn, and their
\* number is bounded), and the scheduler starts the job again and again.
Justica ==
    /\ SF_vars(\E r \in Chamadas : ContinuarCalculo(r))
    /\ SF_vars(ContinuarJob)
    /\ WF_vars(JobComecar)

TypeOK == TipoVoto /\ TipoMeta

(***************************************************************************)
(* Properties.                                                             *)
(***************************************************************************)
\* A computation that met no other transaction about its goal leaves the
\* status and the alert in agreement, whatever earlier ones left behind
\* (sync_risk_alert, update_predictive_risk and the job).  A suspended goal is
\* left out: create_tracking takes it, and opens an alert for it.
SozinhaAcerta ==
    \A m \in Metas \ duvida :
        meta[m].st # "suspensa" => (alerta[m] = "aberto" <=> meta[m].st = "em_risco")

\* A cancelled goal comes back only by an edit: a tracking or the job that
\* counted it while it was active leaves it cancelled.
CanceladaFica ==
    [][\A m \in Metas : meta[m].st = "cancelada" /\ meta'[m].st # "cancelada" =>
          \E r \in Chamadas : calc[r].tipo = "atualizar" /\ calc[r].m = m]_vars

\* The alert that a late tracking, or the job, opens for a goal cancelled in
\* the meantime is resolved by a later run of the job.
CanceladaSemAlerta ==
    \A m \in Metas :
        meta[m].st = "cancelada" /\ alerta[m] = "aberto" ~>
            meta[m].st # "cancelada" \/ alerta[m] = "resolvido"

\* METAS. What a cancellation leaves, whatever had read the goal before it.
CanceladaConfere == CanceladaFica /\ CanceladaSemAlerta

\* The requests about goals end: a cycle of waits between the orders in which
\* they and the job lock the tracking, the alert and the goal is broken.
CalculosTerminam == []<>(\A r \in Chamadas : passo[r] = "livre")
=============================================================================
