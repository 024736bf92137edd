-------------------------- MODULE ResultadosRollup --------------------------
(***************************************************************************)
(* Election results: the aggregates of one election, rebuilt by the worker *)
(* (jobs/election_rollups.py, tse.fn_refresh_resultado_rollup) and read by *)
(* the electoral management screens (mod_gestao_eleitoral) through a Redis *)
(* cache with a single producer per key (core/cache.py).                   *)
(*                                                                         *)
(* The source is a version number: what an aggregate, an answer or a cache *)
(* entry is worth is the version it was computed from. Filters, territorial*)
(* scope and the SQL of each screen are left out: one cache key is modelled*)
(* for every generation the fingerprint may name.                          *)
(***************************************************************************)
EXTENDS Naturals, FiniteSets

CONSTANTS
    Obreiros,      \* executions of process_pending
    Leitores,      \* requests for one screen
    MaxCargas,     \* bound: loads of the source
    MaxGeracoes,   \* bound: generations drawn
    Cru,           \* the fingerprint "raw"
    Vazio,         \* an answer without rows
    Ausente        \* nothing stored

Versoes  == 0 .. MaxCargas
Geracoes == 1 .. MaxGeracoes
ChavesCache == Geracoes \cup {Cru}

ASSUME RollupAssumption ==
    /\ MaxCargas \in Nat /\ MaxGeracoes \in Nat \ {0}
    /\ Cru \notin Geracoes /\ {Vazio, Ausente} \cap Versoes = {} /\ Vazio # Ausente
    /\ Ausente \notin Leitores \cup ChavesCache

VARIABLES
    fonte,       \* the version of tse.resultados_eleicoes
    pedida,      \* history: the version when the refresh was last requested
    controle,    \* [status |-> "pending" | "ready", geracao]: the committed control row
    agregado,    \* [Geracoes -> the version a generation was built from, or Ausente]
    sequencia,   \* the generations drawn from the sequence
    obreiro,     \* the state of every worker
    leitor,      \* the state of every request
    cache,       \* [ChavesCache -> a version, Vazio or Ausente]
    trava        \* [ChavesCache -> the reader whose token is stored, or Ausente]

varsRollup == <<fonte, pedida, controle, agregado, sequencia, obreiro, leitor, cache, trava>>
varsBanco  == <<fonte, pedida, controle, agregado, sequencia, obreiro>>

ObreiroLivre == [pc |-> "livre", geracao |-> 0, foto |-> 0]
LeitorNovo   == [pc |-> "novo", chave |-> Ausente, valor |-> Ausente, expirou |-> "nao"]

InitRollup ==
    /\ fonte = 0 /\ pedida = 0 /\ sequencia = 0
    /\ controle = [status |-> "pending", geracao |-> 0]
    /\ agregado = [g \in Geracoes |-> Ausente]
    /\ obreiro = [w \in Obreiros |-> ObreiroLivre]
    /\ leitor = [l \in Leitores |-> LeitorNovo]
    /\ cache = [k \in ChavesCache |-> Ausente]
    /\ trava = [k \in ChavesCache |-> Ausente]

\* A worker between its claim and its commit holds the advisory lock and the row.
ComLinha == {w \in Obreiros : obreiro[w].pc \in {"tomado", "fotografado"}}

-----------------------------------------------------------------------------
(* The source and the refresh *)

\* A load, outside the repository's programs, replaces the source.
Carregar ==
    /\ fonte < MaxCargas
    /\ fonte' = fonte + 1
    /\ UNCHANGED <<pedida, controle, agregado, sequencia, obreiro, leitor, cache, trava>>

\* mark_backfill_pending: its upsert waits for the row.
PedirRefresh ==
    /\ ComLinha = {}
    /\ controle' = [controle EXCEPT !.status = "pending"]
    /\ pedida' = fonte
    /\ UNCHANGED <<fonte, agregado, sequencia, obreiro, leitor, cache, trava>>

ListarPendentes(w) ==
    /\ obreiro[w].pc = "livre"
    /\ controle.status = "pending"
    /\ obreiro' = [obreiro EXCEPT ![w].pc = "listado"]
    /\ UNCHANGED <<fonte, pedida, controle, agregado, sequencia, leitor, cache, trava>>

PodeTomar == ComLinha = {} /\ controle.status = "pending"

\* refresh: the advisory lock is tried, not waited for, and the row is claimed
\* only while it is pending. 'refreshing' is never seen by anyone else.
Tomar(w) ==
    /\ obreiro[w].pc = "listado"
    /\ obreiro' = [obreiro EXCEPT ![w].pc = IF PodeTomar THEN "tomado" ELSE "livre"]
    /\ UNCHANGED <<fonte, pedida, controle, agregado, sequencia, leitor, cache, trava>>

\* Mutant. The refresh rebuilds the generation that is already active.
GeracaoReusada == IF controle.geracao = 0 THEN sequencia + 1 ELSE controle.geracao

\* fn_refresh_resultado_rollup draws a generation, which no rollback returns,
\* and copies the election to a temporary table.
GeracaoNova == sequencia + 1

Fotografar(w) ==
    /\ obreiro[w].pc = "tomado"
    /\ GeracaoNova \in Geracoes
    /\ sequencia' = GeracaoNova
    /\ obreiro' = [obreiro EXCEPT ![w] = [pc |-> "fotografado", geracao |-> sequencia',
                                         foto |-> fonte]]
    /\ UNCHANGED <<fonte, pedida, controle, agregado, leitor, cache, trava>>

\* The aggregates, the pointer and the removal of the old generation commit at
\* once; the worker may take the lost answer of the commit for a failure.
Publicar(w) ==
    /\ obreiro[w].pc = "fotografado"
    /\ agregado' = [g \in Geracoes |-> IF g = obreiro[w].geracao THEN obreiro[w].foto
                                       ELSE IF g = controle.geracao THEN Ausente
                                       ELSE agregado[g]]
    /\ controle' = [status |-> "ready", geracao |-> obreiro[w].geracao]
    /\ \E resposta \in {"livre", "falhou"} :
          obreiro' = [obreiro EXCEPT ![w] = [ObreiroLivre EXCEPT !.pc = resposta]]
    /\ UNCHANGED <<fonte, pedida, sequencia, leitor, cache, trava>>

\* Any failure, the check of the totals included, rolls back.
FalharRefresh(w) ==
    /\ obreiro[w].pc \in {"tomado", "fotografado"}
    /\ obreiro' = [obreiro EXCEPT ![w] = [ObreiroLivre EXCEPT !.pc = "falhou"]]
    /\ UNCHANGED <<fonte, pedida, controle, agregado, sequencia, leitor, cache, trava>>

\* The except clause, on another connection, whatever the row says by then.
RegistrarFalha(w) ==
    /\ obreiro[w].pc = "falhou"
    /\ ComLinha = {}
    /\ controle' = [controle EXCEPT !.status = "pending"]
    /\ obreiro' = [obreiro EXCEPT ![w] = ObreiroLivre]
    /\ UNCHANGED <<fonte, pedida, agregado, sequencia, leitor, cache, trava>>

-----------------------------------------------------------------------------
(* The readers *)

Pronto == controle.status = "ready"

\* rollup_generation_fingerprint, kept by the request's repository.
Identificar(l) ==
    /\ leitor[l].pc = "novo"
    /\ leitor' = [leitor EXCEPT ![l].pc = "chaveado",
                                ![l].chave = IF Pronto THEN controle.geracao ELSE Cru]
    /\ UNCHANGED <<varsBanco, cache, trava>>

\* get_or_set: a hit is the answer; a miss tries to take the key's lock.
ConsultarCache(l) ==
    LET k == leitor[l].chave IN
    /\ leitor[l].pc = "chaveado"
    /\ leitor' = [leitor EXCEPT ![l].pc = IF cache[k] # Ausente THEN "feito" ELSE "perdeu",
                                ![l].valor = cache[k]]
    /\ UNCHANGED <<varsBanco, cache, trava>>

Travar(l) ==
    LET k == leitor[l].chave IN
    /\ leitor[l].pc = "perdeu"
    /\ leitor' = [leitor EXCEPT ![l].pc = IF trava[k] = Ausente THEN "produz" ELSE "espera"]
    /\ trava' = IF trava[k] = Ausente THEN [trava EXCEPT ![k] = l] ELSE trava
    /\ UNCHANGED <<varsBanco, cache>>

\* A waiting reader polls the key until it is there.
Esperar(l) ==
    /\ leitor[l].pc = "espera"
    /\ cache[leitor[l].chave] # Ausente
    /\ leitor' = [leitor EXCEPT ![l].pc = "feito", ![l].valor = cache[leitor[l].chave]]
    /\ UNCHANGED <<varsBanco, cache, trava>>

\* The data as its query sees them: the raw table, or the aggregates joined
\* with the control row, which give nothing while it is not ready.
Dados(k) == IF k = Cru THEN fonte
            ELSE IF Pronto THEN agregado[controle.geracao] ELSE Vazio

\* Fail-open: wait_seconds passed, or Redis failed: produce and store nothing.
ProduzirFora(l) ==
    /\ leitor[l].pc \in {"chaveado", "perdeu", "espera"}
    /\ leitor' = [leitor EXCEPT ![l].pc = "feito", ![l].valor = Dados(leitor[l].chave)]
    /\ UNCHANGED <<varsBanco, cache, trava>>

Produzir(l) ==
    /\ leitor[l].pc = "produz"
    /\ leitor' = [leitor EXCEPT ![l].pc = "guarda", ![l].valor = Dados(leitor[l].chave)]
    /\ UNCHANGED <<varsBanco, cache, trava>>

\* SET, whose failure is swallowed.
GuardarCache(l) ==
    /\ leitor[l].pc = "guarda"
    /\ cache' \in {cache, [cache EXCEPT ![leitor[l].chave] = leitor[l].valor]}
    /\ leitor' = [leitor EXCEPT ![l].pc = "solta"]
    /\ UNCHANGED <<varsBanco, trava>>

\* The lock is deleted only while it still holds this reader's token.
TravaSem(l, k) == IF trava[k] = l THEN [trava EXCEPT ![k] = Ausente] ELSE trava

\* finally, after a value or an exception of the producer; a failed DEL is
\* swallowed too, and the lock stays until it expires.
Soltar(l) ==
    /\ leitor[l].pc \in {"produz", "solta"}
    /\ trava' \in {trava, TravaSem(l, leitor[l].chave)}
    /\ leitor' = [leitor EXCEPT ![l].pc = "feito"]
    /\ UNCHANGED <<varsBanco, cache>>

\* ttl and lock_seconds
ExpirarCache(k) ==
    /\ cache[k] # Ausente
    /\ cache' = [cache EXCEPT ![k] = Ausente]
    /\ UNCHANGED <<varsBanco, leitor, trava>>

ExpirarTrava(k) ==
    /\ trava[k] # Ausente
    /\ trava' = [trava EXCEPT ![k] = Ausente]
    /\ leitor' = [leitor EXCEPT ![trava[k]].expirou = "sim"]
    /\ UNCHANGED <<varsBanco, cache>>

-----------------------------------------------------------------------------
NextRollup ==
    \/ Carregar \/ PedirRefresh
    \/ \E w \in Obreiros : ListarPendentes(w) \/ Tomar(w) \/ Fotografar(w) \/ Publicar(w)
                           \/ FalharRefresh(w) \/ RegistrarFalha(w)
    \/ \E l \in Leitores :
          \/ Identificar(l) \/ ConsultarCache(l) \/ Travar(l) \/ Esperar(l)
          \/ ProduzirFora(l) \/ Produzir(l) \/ GuardarCache(l) \/ Soltar(l)
    \/ \E k \in ChavesCache : ExpirarCache(k) \/ ExpirarTrava(k)

SpecRollup == InitRollup /\ [][NextRollup]_varsRollup

-----------------------------------------------------------------------------
(* Properties *)

\* Ready aggregates are those of a version not older than the last request.
RollupEmDia ==
    Pronto => /\ agregado[controle.geracao] # Ausente
              /\ agregado[controle.geracao] >= pedida

\* While a generation is the active one, what the cache holds under it is what
\* its aggregates say, and never the empty answer of a query that ran while
\* the row was pending, or the data of another generation.
EntradaDaGeracao ==
    Pronto => cache[controle.geracao] \in {Ausente, agregado[controle.geracao]}

\* At most one request whose lock did not expire produces a key.
UmProdutor ==
    \A k \in ChavesCache :
        Cardinality({l \in Leitores : /\ leitor[l].chave = k
                                      /\ leitor[l].pc \in {"produz", "guarda"}
                                      /\ leitor[l].expirou = "nao"}) <= 1

\* GERACAO. What the screens show of an election is a whole generation, not
\* older than the load that asked for it, and computed once at a time.
GeracaoConfere ==
    /\ RollupEmDia
    /\ EntradaDaGeracao
    /\ UmProdutor

=============================================================================
