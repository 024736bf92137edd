---------------------------- MODULE ImportacaoETL ----------------------------
(***************************************************************************)
(* The import of a spreadsheet (mod_etl and jobs/imports.py): a user sends *)
(* a file, a worker validates it into a staging table, a user approves, a  *)
(* worker promotes the staged rows to cadastro.pessoa.                     *)
(*                                                                         *)
(* The module follows one row of etl.importacao.  HTTP handlers, the       *)
(* validation, the load and the two failure handlers are transactions in   *)
(* READ COMMITTED.  A handler is one conditional UPDATE and its COMMIT, so *)
(* it is one step; a validation and a load are several, between which      *)
(* other transactions run.  Uncommitted writes stay in the worker's        *)
(* variables and hold row locks: whoever needs the row waits, and when     *)
(* transactions wait for each other PostgreSQL aborts one of them.         *)
(***************************************************************************)
EXTENDS Integers, FiniteSets

CONSTANTS
    Linhas,         \* numbers of the rows of the file
    Pessoas,        \* the persons the rows describe
    DaPessoa,       \* row -> the person it describes
    Chaves,         \* person -> what the rows give of it: "cpf", "titulo", "rg",
                    \* "contato" (phone or e-mail), "nome" (recognised by its name)
    Mapas,          \* column mappings
    Erradas,        \* mapping -> the rows that do not validate under it
    SemNome,        \* mappings without the column nome_completo
    Jobs,           \* ids of etl.job_processamento (bound)
    Trabalhadores,  \* workers
    MaxEntregas,    \* deliveries of one message (bound)
    BrokerFalha,    \* TRUE if sending a message may fail
    Nada

ASSUME ArquivoFinito == IsFiniteSet(Linhas)
ASSUME LinhasNumeradas == Linhas \subseteq Nat /\ DaPessoa \in [Linhas -> Pessoas]
ASSUME ChavesDasPessoas == Chaves \in [Pessoas -> SUBSET {"cpf", "titulo", "rg", "contato", "nome"}]
ASSUME MapasDeColunas == Erradas \in [Mapas -> SUBSET Linhas] /\ SemNome \subseteq Mapas
ASSUME JobsNumerados == Jobs \subseteq Nat
ASSUME EntregasPositivas == MaxEntregas \in Nat \ {0}
ASSUME FalhaBooleana == BrokerFalha \in BOOLEAN
ASSUME NadaNovo == Nada \notin Jobs /\ Nada \notin Mapas

VARIABLES
    status,     \* importacao.status, "inexistente" before the upload
    mapa,       \* importacao.mapeamento_colunas
    aprovada,   \* importacao.aprovado_em is set
    validas,    \* importacao.linhas_validas
    staging,    \* committed rows of etl.staging_pessoa of the import
    cadastro,   \* committed rows of cadastro.pessoa that loads inserted
    tipo,       \* job -> its operation, "nenhum" while the id is unused
    estado,     \* job -> status of its row
    aEnviar,    \* jobs committed by a handler that has not sent the message
    fila,       \* job -> copies of its message in the broker
    entregas,   \* job -> deliveries of its message so far
    seq,        \* sequence that numbers validations and loads
    passo,      \* worker -> the statement it executes next
    job,        \* worker -> the job it runs
    mapaLido,   \* worker -> the mapping its validation read
    lote,       \* worker -> number of its load
    resta,      \* worker -> rows still to load, or rows deleted by a validation
    feitas,     \* worker -> rows promoted and not committed
    falhas,     \* worker -> rows whose promotion failed
    aceitas     \* history: the staged rows that were there at some approval

importacao == <<status, mapa, aprovada, validas>>
linhasJob == <<tipo, estado>>
broker == <<aEnviar, fila, entregas>>
dados == <<staging, cadastro, seq>>
lidos == <<mapaLido, lote, resta, feitas, falhas>>
trab == <<passo, job, lidos>>
vars == <<importacao, linhasJob, broker, dados, trab, aceitas>>

Estaveis == {"pendente", "parcial", "falha"}
Status == Estaveis \cup {"inexistente", "processando", "concluida", "cancelada"}

\* ger numbers the validation that inserted the row; with the line it is the id.
Linha == [ger : Nat, linha : Linhas, st : {"validado", "duplicado", "carregado"}]
Promovida == [pessoa : Pessoas, linha : Linhas, ger : Nat, lote : Nat]

Passos == {"ocioso", "validar", "travar", "apagar", "gravar", "carregar", "linhas",
           "linhaErro", "fim", "sucesso", "falhar", "erro"}

TypeOK ==
    /\ status \in Status
    /\ mapa \in Mapas \cup {Nada}
    /\ aprovada \in BOOLEAN
    /\ validas \in Nat
    /\ staging \subseteq Linha
    /\ cadastro \subseteq Promovida
    /\ tipo \in [Jobs -> {"nenhum", "validar", "carregar"}]
    /\ estado \in [Jobs -> {"nenhum", "enfileirado", "executando", "concluido", "falha"}]
    /\ aEnviar \subseteq Jobs
    /\ fila \in [Jobs -> Nat]
    /\ entregas \in [Jobs -> Nat]
    /\ seq \in Nat
    /\ passo \in [Trabalhadores -> Passos]
    /\ job \in [Trabalhadores -> Jobs \cup {Nada}]
    /\ mapaLido \in [Trabalhadores -> Mapas \cup {Nada}]
    /\ lote \in [Trabalhadores -> Nat]
    /\ resta \in [Trabalhadores -> SUBSET Linha]
    /\ feitas \in [Trabalhadores -> SUBSET Linha]
    /\ falhas \in [Trabalhadores -> SUBSET Linha]
    /\ aceitas \subseteq Linha

Init ==
    /\ status = "inexistente" /\ mapa = Nada /\ aprovada = FALSE /\ validas = 0
    /\ staging = {} /\ cadastro = {} /\ seq = 0 /\ aceitas = {}
    /\ tipo = [j \in Jobs |-> "nenhum"]
    /\ estado = [j \in Jobs |-> "nenhum"]
    /\ aEnviar = {}
    /\ fila = [j \in Jobs |-> 0]
    /\ entregas = [j \in Jobs |-> 0]
    /\ passo = [w \in Trabalhadores |-> "ocioso"]
    /\ job = [w \in Trabalhadores |-> Nada]
    /\ mapaLido = [w \in Trabalhadores |-> Nada]
    /\ lote = [w \in Trabalhadores |-> 0]
    /\ resta = [w \in Trabalhadores |-> {}]
    /\ feitas = [w \in Trabalhadores |-> {}]
    /\ falhas = [w \in Trabalhadores |-> {}]

(***************************************************************************)
(* Row locks.                                                              *)
(***************************************************************************)
\* A validation updates etl.importacao before its deletes.
TravaImportacao(w) == passo[w] \in {"apagar", "gravar"}

ImportacaoLivre(w) == \A v \in Trabalhadores \ {w} : ~TravaImportacao(v)

\* Staged rows, with their lines, that a transaction has written.
Travadas(w) == IF passo[w] = "gravar" THEN resta[w] ELSE feitas[w] \cup falhas[w]

MesmaLinha(s, t) == s.ger = t.ger /\ s.linha = t.linha

Existe(s) == \E t \in staging : MesmaLinha(s, t)

LinhaLivre(w, s) ==
    Existe(s) => \A v \in Trabalhadores \ {w} : \A t \in Travadas(v) : ~MesmaLinha(s, t)

Pessoa(s) == DaPessoa[s.linha]

\* uq_pessoa_documento and uq_eleitor_titulo_tenant.
ComDocumento(p) == Chaves[p] \cap {"cpf", "titulo", "rg"} # {}

\* The unique index makes an insert wait for the uncommitted one.
DocumentoLivre(w, p) ==
    ComDocumento(p) => \A v \in Trabalhadores \ {w} : \A t \in feitas[v] : Pessoa(t) # p

DocumentoUsado(w, p) ==
    /\ ComDocumento(p)
    /\ (\E c \in cadastro : c.pessoa = p) \/ (\E t \in feitas[w] : Pessoa(t) = p)

\* ORDER BY id.
Proxima(w, s) == s \in resta[w] /\ \A t \in resta[w] : s.linha <= t.linha

EsperaPor(w, v) ==
    /\ v # w
    /\ \/ passo[w] = "apagar" /\ \E t \in Travadas(v) : Existe(t)
       \/ passo[w] = "fim" /\ TravaImportacao(v)
       \/ /\ passo[w] \in {"linhas", "linhaErro"}
          /\ \E s \in resta[w] : /\ Proxima(w, s)
                                 /\ \/ Existe(s) /\ \E t \in Travadas(v) : MesmaLinha(s, t)
                                    \/ /\ passo[w] = "linhas" /\ ComDocumento(Pessoa(s))
                                       /\ \E t \in feitas[v] : Pessoa(t) = Pessoa(s)

EmCirculo(S) == S # {} /\ \A w \in S : \E v \in S : EsperaPor(w, v)

\* w is in a cycle of transactions that wait for each other.
Impasse(w) ==
    \E S \in SUBSET Trabalhadores :
        w \in S /\ EmCirculo(S) /\ \A T \in SUBSET S : EmCirculo(T) => T = S

Ir(w, p) == passo' = [passo EXCEPT ![w] = p]

\* The transaction ends without a COMMIT, or the worker has committed.
Largar(w) ==
    /\ mapaLido' = [mapaLido EXCEPT ![w] = Nada]
    /\ lote' = [lote EXCEPT ![w] = 0]
    /\ resta' = [resta EXCEPT ![w] = {}]
    /\ feitas' = [feitas EXCEPT ![w] = {}]
    /\ falhas' = [falhas EXCEPT ![w] = {}]

(***************************************************************************)
(* HTTP handlers.                                                          *)
(***************************************************************************)
NovoJob(j) == tipo[j] = "nenhum" /\ \A k \in Jobs : tipo[k] = "nenhum" => j <= k

Enfileirar(j, t) ==
    /\ NovoJob(j)
    /\ tipo' = [tipo EXCEPT ![j] = t]
    /\ estado' = [estado EXCEPT ![j] = "enfileirado"]
    /\ aEnviar' = aEnviar \cup {j}
    /\ UNCHANGED <<fila, entregas>>

\* No validation in progress holds the row of the import.
SemTrava == \A w \in Trabalhadores : ~TravaImportacao(w)

CriarImportacao(m) ==
    /\ status = "inexistente"
    /\ status' = "pendente"
    /\ mapa' = m
    /\ \E j \in Jobs : Enfileirar(j, "validar")
    /\ UNCHANGED <<aprovada, validas, dados, trab, aceitas>>

Remapear(m) ==
    /\ SemTrava
    /\ status \in Estaveis
    /\ status' = "pendente"
    /\ mapa' = m
    /\ UNCHANGED <<aprovada, validas, dados, trab, aceitas>>

\* update_mapping, without and with "reprocessar".
AtualizarMapa(m) == Remapear(m) /\ UNCHANGED <<linhasJob, broker>>

Reprocessar(m) == Remapear(m) /\ \E j \in Jobs : Enfileirar(j, "validar")

Aprovar ==
    /\ SemTrava
    /\ status = "parcial" /\ validas > 0
    /\ status' = "processando"
    /\ aprovada' = TRUE
    /\ aceitas' = aceitas \cup {s \in staging : s.st = "validado"}
    /\ \E j \in Jobs : Enfileirar(j, "carregar")
    /\ UNCHANGED <<mapa, validas, dados, trab>>

Cancelar ==
    /\ SemTrava
    /\ status \in Estaveis
    /\ status' = "cancelada"
    /\ UNCHANGED <<mapa, aprovada, validas, linhasJob, broker, dados, trab, aceitas>>

\* _dispatch after the COMMIT; an error is logged and the row stays queued.
Despachar(j) ==
    /\ j \in aEnviar
    /\ aEnviar' = aEnviar \ {j}
    /\ fila' = [fila EXCEPT ![j] = @ + 1]
    /\ entregas' = [entregas EXCEPT ![j] = @ + 1]
    /\ UNCHANGED <<importacao, linhasJob, dados, trab, aceitas>>

DespachoPerdido(j) ==
    /\ BrokerFalha
    /\ j \in aEnviar
    /\ aEnviar' = aEnviar \ {j}
    /\ UNCHANGED <<importacao, linhasJob, fila, entregas, dados, trab, aceitas>>

(***************************************************************************)
(* The worker: process_import and load_import.                             *)
(***************************************************************************)
\* mark_started.
Receber(w, j) ==
    /\ passo[w] = "ocioso"
    /\ fila[j] > 0
    /\ fila' = [fila EXCEPT ![j] = @ - 1]
    /\ estado' = [estado EXCEPT ![j] = "executando"]
    /\ Ir(w, tipo[j])
    /\ job' = [job EXCEPT ![w] = j]
    /\ UNCHANGED <<importacao, tipo, aEnviar, entregas, dados, lidos, aceitas>>

\* The first SELECT of process; the file is read after it, with no lock.
LerImportacao(w) ==
    /\ passo[w] = "validar"
    /\ IF status = "cancelada" \/ mapa \in SemNome THEN Ir(w, "falhar") ELSE Ir(w, "travar")
    /\ mapaLido' = [mapaLido EXCEPT ![w] = mapa]
    /\ UNCHANGED <<importacao, linhasJob, broker, dados, job, lote, resta, feitas, falhas, aceitas>>

\* The storage does not answer, or the file cannot be read.
ArquivoIlegivel(w) ==
    /\ passo[w] = "travar"
    /\ Ir(w, "falhar")
    /\ UNCHANGED <<importacao, linhasJob, broker, dados, job, lidos, aceitas>>

\* Mutant: the validation does not take the row of the import.
TravarSemEsperar(w) ==
    /\ passo[w] = "travar"
    /\ Ir(w, "apagar")
    /\ UNCHANGED <<importacao, linhasJob, broker, dados, job, lidos, aceitas>>

\* UPDATE etl.importacao SET status = 'processando': unseen until the COMMIT,
\* it keeps the row locked.
Travar(w) ==
    /\ passo[w] = "travar"
    /\ ImportacaoLivre(w)
    /\ Ir(w, "apagar")
    /\ UNCHANGED <<importacao, linhasJob, broker, dados, job, lidos, aceitas>>

\* The DELETEs, which wait for the rows a load has written.
Apagar(w) ==
    /\ passo[w] = "apagar"
    /\ \A s \in staging : LinhaLivre(w, s)
    /\ resta' = [resta EXCEPT ![w] = staging]
    /\ Ir(w, "gravar")
    /\ UNCHANGED <<importacao, linhasJob, broker, dados, job, mapaLido, lote, feitas, falhas, aceitas>>

\* _normalize_row and _find_duplicate: a row repeats one already in cadastro
\* (exact key or similar name) or an earlier valid one of the file.
Repetida(l, ok) ==
    LET p == DaPessoa[l] IN
    \/ /\ Chaves[p] \cap {"cpf", "titulo", "contato", "nome"} # {}
       /\ \E c \in cadastro : c.pessoa = p
    \/ /\ Chaves[p] \cap {"cpf", "contato"} # {}
       /\ \E k \in ok : k < l /\ DaPessoa[k] = p

Validadas(m, g) ==
    LET ok == Linhas \ Erradas[m] IN
    {[ger |-> g, linha |-> l, st |-> IF Repetida(l, ok) THEN "duplicado" ELSE "validado"] : l \in ok}

\* The inserts, the last UPDATE and the COMMIT: the status and the mapping
\* are written whatever they have become since they were read.
Gravar(w) ==
    LET novas == Validadas(mapaLido[w], seq + 1) IN
    /\ passo[w] = "gravar"
    /\ staging' = (staging \ resta[w]) \cup novas
    /\ validas' = Cardinality({s \in novas : s.st = "validado"})
    /\ status' = "parcial"
    /\ mapa' = mapaLido[w]
    /\ seq' = seq + 1
    /\ Ir(w, "sucesso")
    /\ Largar(w)
    /\ UNCHANGED <<aprovada, linhasJob, broker, cadastro, job, aceitas>>

\* The two SELECTs of load.  aprovado_em is never cleared, so what happens
\* between them could as well happen before the first or after the second.
LerCarga(w) ==
    /\ passo[w] = "carregar"
    /\ IF aprovada /\ status # "cancelada"
       THEN /\ resta' = [resta EXCEPT ![w] = {s \in staging : s.st = "validado"}]
            /\ lote' = [lote EXCEPT ![w] = seq + 1]
            /\ seq' = seq + 1
            /\ Ir(w, "linhas")
       ELSE Ir(w, "falhar") /\ UNCHANGED <<resta, lote, seq>>
    /\ UNCHANGED <<importacao, linhasJob, broker, staging, cadastro, job, mapaLido, feitas, falhas, aceitas>>

\* One row in its savepoint: insert the person, mark the staged row.
PromoverLinha(w) ==
    \E s \in resta[w] :
        /\ passo[w] = "linhas"
        /\ Proxima(w, s)
        /\ LinhaLivre(w, s) /\ DocumentoLivre(w, Pessoa(s))
        /\ ~DocumentoUsado(w, Pessoa(s))
        /\ feitas' = [feitas EXCEPT ![w] = @ \cup {s}]
        /\ resta' = [resta EXCEPT ![w] = @ \ {s}]
        /\ UNCHANGED <<importacao, linhasJob, broker, dados, passo, job, mapaLido, lote, falhas, aceitas>>

\* The insert violates a unique index, or the detector has aborted it: the
\* line gets the error, outside of the savepoint, unless a validation has
\* deleted it; then the foreign key of the error ends the load.
LinhaFalha(w) ==
    \E s \in resta[w] :
        /\ passo[w] \in {"linhas", "linhaErro"}
        /\ passo[w] = "linhas" => DocumentoLivre(w, Pessoa(s)) /\ DocumentoUsado(w, Pessoa(s))
        /\ Proxima(w, s)
        /\ LinhaLivre(w, s)
        /\ IF Existe(s)
           THEN /\ Ir(w, "linhas")
                /\ falhas' = [falhas EXCEPT ![w] = @ \cup {s}]
                /\ resta' = [resta EXCEPT ![w] = @ \ {s}]
                /\ UNCHANGED <<mapaLido, lote, feitas>>
           ELSE Ir(w, "falhar") /\ Largar(w)
        /\ UNCHANGED <<importacao, linhasJob, broker, dados, job, aceitas>>

TerminarLinhas(w) ==
    /\ passo[w] = "linhas" /\ resta[w] = {}
    /\ Ir(w, "fim")
    /\ UNCHANGED <<importacao, linhasJob, broker, dados, job, lidos, aceitas>>

\* Mutant: the staged row is not marked.
MarcarNada(w) == staging

\* The promoted rows that still exist become "carregado".
Marcar(w) ==
    (staging \ feitas[w]) \cup {[s EXCEPT !.st = "carregado"] : s \in staging \cap feitas[w]}

Promovidas(w) ==
    {[pessoa |-> Pessoa(s), linha |-> s.linha, ger |-> s.ger, lote |-> lote[w]] : s \in feitas[w]}

\* Mutant: a load with errors does not write the status.
FimCargaSemStatus(w) ==
    /\ passo[w] = "fim"
    /\ ImportacaoLivre(w)
    /\ cadastro' = cadastro \cup Promovidas(w)
    /\ staging' = Marcar(w)
    /\ status' = IF falhas[w] = {} THEN "concluida" ELSE status
    /\ Ir(w, "sucesso")
    /\ Largar(w)
    /\ UNCHANGED <<mapa, aprovada, validas, seq, linhasJob, broker, job, aceitas>>

\* The last UPDATE of load, over any status, and the COMMIT.
FimCarga(w) ==
    /\ passo[w] = "fim"
    /\ ImportacaoLivre(w)
    /\ cadastro' = cadastro \cup Promovidas(w)
    /\ staging' = Marcar(w)
    /\ status' = IF falhas[w] = {} THEN "concluida" ELSE "parcial"
    /\ Ir(w, "sucesso")
    /\ Largar(w)
    /\ UNCHANGED <<mapa, aprovada, validas, seq, linhasJob, broker, job, aceitas>>

\* The deadlock detector aborts one of the waiting statements.  In the
\* savepoint of a row the load catches the error; anywhere else its task fails.
Vitima(w) ==
    /\ Impasse(w)
    /\ IF passo[w] = "linhas" THEN Ir(w, "linhaErro") /\ UNCHANGED lidos
       ELSE Ir(w, "falhar") /\ Largar(w)
    /\ UNCHANGED <<importacao, linhasJob, broker, dados, job, aceitas>>

\* ImportProcessor.fail.
Falhar(w) ==
    /\ passo[w] = "falhar"
    /\ ImportacaoLivre(w)
    /\ status' = IF status = "cancelada" THEN status ELSE "falha"
    /\ Ir(w, "erro")
    /\ Largar(w)
    /\ UNCHANGED <<mapa, aprovada, validas, linhasJob, broker, dados, job, aceitas>>

MarcarJob(w, p, e) ==
    /\ passo[w] = p
    /\ estado' = [estado EXCEPT ![job[w]] = e]
    /\ Ir(w, "ocioso")
    /\ job' = [job EXCEPT ![w] = Nada]
    /\ UNCHANGED <<importacao, tipo, broker, dados, lidos, aceitas>>

MarcarSucesso(w) == MarcarJob(w, "sucesso", "concluido")

MarcarErro(w) == MarcarJob(w, "erro", "falha")

\* The worker dies: its transaction is undone and the message comes back.
Cair(w) ==
    LET j == job[w] IN
    /\ passo[w] # "ocioso"
    /\ entregas[j] < MaxEntregas
    /\ entregas' = [entregas EXCEPT ![j] = @ + 1]
    /\ fila' = [fila EXCEPT ![j] = @ + 1]
    /\ Ir(w, "ocioso")
    /\ job' = [job EXCEPT ![w] = Nada]
    /\ Largar(w)
    /\ UNCHANGED <<importacao, linhasJob, aEnviar, dados, aceitas>>

\* The visibility timeout expires while a worker runs the message, or the
\* worker dies between its last write and the acknowledgement.
Reentregar(j) ==
    /\ \E w \in Trabalhadores : job[w] = j
    /\ entregas[j] < MaxEntregas
    /\ entregas' = [entregas EXCEPT ![j] = @ + 1]
    /\ fila' = [fila EXCEPT ![j] = @ + 1]
    /\ UNCHANGED <<importacao, linhasJob, aEnviar, dados, trab, aceitas>>

Pedir(m) == CriarImportacao(m) \/ AtualizarMapa(m) \/ Reprocessar(m)

Trabalhar(w) ==
    \/ \E j \in Jobs : Receber(w, j)
    \/ LerImportacao(w) \/ ArquivoIlegivel(w) \/ Travar(w) \/ Apagar(w) \/ Gravar(w)
    \/ LerCarga(w) \/ PromoverLinha(w) \/ LinhaFalha(w) \/ TerminarLinhas(w) \/ FimCarga(w)
    \/ Vitima(w) \/ Falhar(w) \/ MarcarSucesso(w) \/ MarcarErro(w)

Next ==
    \/ \E m \in Mapas : Pedir(m)
    \/ Aprovar \/ Cancelar
    \/ \E j \in Jobs : Despachar(j) \/ DespachoPerdido(j) \/ Reentregar(j)
    \/ \E w \in Trabalhadores : Trabalhar(w) \/ Cair(w)

Spec == Init /\ [][Next]_vars

\* A handler that committed sends its message; a worker that can run runs,
\* and one that waits for a lock gets it or is aborted.
SpecJusta == /\ Spec
             /\ \A j \in Jobs : WF_vars(Despachar(j))
             /\ \A w \in Trabalhadores : WF_vars(Trabalhar(w))

-----------------------------------------------------------------------------
\* The staging of an import comes from one validation: two validations of the
\* same import, queued by two remappings or by one message delivered twice,
\* never mix their rows.
StagingDeUmaLeitura == \A s, t \in staging : s.ger = t.ger

\* linhas_validas, which the approval is decided on, counts the rows a load
\* may promote or has promoted.
ValidasConferem == validas = Cardinality({s \in staging : s.st # "duplicado"})

\* What the approval is decided on: staged rows of one validation, and their
\* count (ImportValidationProcessor, which locks the import first).
StagingConfere == StagingDeUmaLeitura /\ ValidasConferem

\* A staged row says "carregado" exactly when a person was created from it, so
\* that a second approval promotes only what the first load could not.
CarregadaSsePromovida ==
    \A s \in staging :
        s.st = "carregado" <=> \E c \in cadastro : c.ger = s.ger /\ c.linha = s.linha

\* A person with a document is created once, whatever is approved, validated
\* or delivered again.
DocumentoUmaPessoa ==
    \A b, c \in cadastro : b.pessoa = c.pessoa /\ ComDocumento(b.pessoa) => b = c

\* What a load leaves, however often and beside whatever it runs.
CargaConfere == CarregadaSsePromovida /\ DocumentoUmaPessoa

\* The message of the job was never sent; its row stays "enfileirado".
Perdido(j) == estado[j] = "enfileirado" /\ j \notin aEnviar /\ fila[j] = 0

\* An approved import leaves "processando", where no handler accepts it: the
\* load ends, fails or is aborted in favour of a validation.  Only the lost
\* dispatch of a load keeps the import there.
ProcessandoTermina ==
    status = "processando"
        ~> status # "processando" \/ \E j \in Jobs : tipo[j] = "carregar" /\ Perdido(j)

\* Every job whose message was sent ends, also when a load and a validation
\* of the same import wait for each other.
JobTermina ==
    \A j \in Jobs : (fila[j] > 0 \/ estado[j] = "executando") ~> estado[j] \in {"concluido", "falha"}

\* Neither the import nor a job of it is left where no handler accepts it
\* (ImportLoadProcessor, tasks.process_import).
ImportacaoTermina == ProcessandoTermina /\ JobTermina

\* "Carga aprovada": only rows that were staged at an approval are promoted.
CargaSoDoAprovado ==
    \A c \in cadastro : \E s \in aceitas : s.ger = c.ger /\ s.linha = c.linha

=============================================================================
