-------------------------- MODULE ConfirmacaoVoto --------------------------
(***************************************************************************)
(* What people answer about their vote, and the confirmation that the      *)
(* goals count.  Two doors write it: a contact of the call center          *)
(* (mod_callcenter) and an attendance of the queue (mod_comunicacao).      *)
(*                                                                         *)
(* A contact writes the person's status and then the confirmation; an      *)
(* attendance writes its own row and then the confirmation.  A row written *)
(* by a transaction stays locked, and unseen by the others, until it       *)
(* commits: conversa[r].presas names the rows that the transaction of r    *)
(* holds.                                                                  *)
(***************************************************************************)
EXTENDS Integers, FiniteSets

CONSTANTS
    Pessoas,       \* ids of cadastro.pessoa (bound)
    Liderados,     \* people with a leader in eleicao.campanha_liderado, which
                   \* only the migration 029 fills
    Conversas,     \* answers being recorded at once (bound)
    MaxRespostas,  \* answers and changes of leader in a behaviour (bound)
    Nada

ASSUME LideradosPessoas == Liderados \subseteq Pessoas
ASSUME RespostasNaturais == MaxRespostas \in Nat
ASSUME NadaNaoPessoa == Nada \notin Pessoas

VARIABLES
    lider,         \* people with an active link in cadastro.hierarquia_lideranca
    atendimento,   \* person -> its attendance: open or closed, and its intention
    status,        \* person -> its row of status_eleitor_eleicao
    confirmacao,   \* person -> its row of confirmacao_operacional_voto
    conversa,      \* the requests that record an answer
    respostas,     \* answers and changes of leader so far
    ultima,        \* history: person -> its last committed answer with an effect
    confusas       \* history: people whose last answer overlapped another one

varsVoto == <<lider, atendimento, status, confirmacao, conversa, respostas, ultima, confusas>>

\* nao: indeciso and nao_apoia of the call center, every other intention of an
\* attendance; outra: a result of the call center that says nothing.
Respostas == {"sim", "nao", "outra"}
Linhas == {"atendimento", "status", "confirmacao"}
SemConversa == [passo |-> "livre", porta |-> "nenhuma", p |-> Nada, resp |-> "outra",
                presas |-> {}, junta |-> "nao"]

Atendimento == [sit : {"em_atendimento", "concluido"}, intencao : Respostas \cup {"nenhuma"}]
Conversa == [passo : {"livre", "linha", "confirmacao", "gravar"},
             porta : {"nenhuma", "central", "atualizar", "encerrar"},
             p : Pessoas \cup {Nada}, resp : Respostas, presas : SUBSET Linhas,
             junta : {"sim", "nao"}]

TipoVoto ==
    /\ lider \subseteq Pessoas
    /\ atendimento \in [Pessoas -> Atendimento]
    /\ status \in [Pessoas -> Respostas \cup {"nao_contatado"}]
    /\ confirmacao \in [Pessoas -> {"nenhuma", "confirmada", "revogada"}]
    /\ conversa \in [Conversas -> Conversa]
    /\ respostas \in 0 .. MaxRespostas
    /\ ultima \in [Pessoas -> Respostas]
    /\ confusas \subseteq Pessoas

InitVoto ==
    /\ lider \in SUBSET Pessoas
    /\ atendimento = [p \in Pessoas |-> [sit |-> "em_atendimento", intencao |-> "nenhuma"]]
    /\ status = [p \in Pessoas |-> "nao_contatado"]
    /\ confirmacao = [p \in Pessoas |-> "nenhuma"]
    /\ conversa = [r \in Conversas |-> SemConversa]
    /\ respostas = 0
    /\ ultima = [p \in Pessoas |-> "outra"]
    /\ confusas = {}

Livre(r, linha) ==
    \A s \in Conversas \ {r} : conversa[s].p # conversa[r].p \/ linha \notin conversa[s].presas

Seguir(r, passo, presas) ==
    conversa' = [conversa EXCEPT ![r].passo = passo, ![r].presas = @ \cup presas]

\* Every answer about p in progress has now met another one.
Comecar(r, porta, p, resp) ==
    LET outras == {s \in Conversas : conversa[s].p = p} IN
    /\ conversa[r].passo = "livre"
    /\ respostas < MaxRespostas
    /\ respostas' = respostas + 1
    /\ conversa' = [s \in Conversas |->
          CASE s = r -> [SemConversa EXCEPT !.passo = "linha", !.porta = porta, !.p = p,
                             !.resp = resp, !.junta = IF outras = {} THEN "nao" ELSE "sim"]
            [] s \in outras -> [conversa[s] EXCEPT !.junta = "sim"]
            [] OTHER -> conversa[s]]
    /\ UNCHANGED <<lider, atendimento, status, confirmacao, ultima, confusas>>

\* The links of the hierarchy come and go.
MudarLider(p) ==
    /\ respostas < MaxRespostas
    /\ respostas' = respostas + 1
    /\ lider' = IF p \in lider THEN lider \ {p} ELSE lider \cup {p}
    /\ UNCHANGED <<atendimento, status, confirmacao, conversa, ultima, confusas>>

\* CallCenterService.create_contact: the person must have a leader in
\* campanha_liderado.
Contatar(r, p, resp) == p \in Liderados /\ Comecar(r, "central", p, resp)

\* AttendanceService.update and close: the attendance was open when read.
Atender(r, porta, p, resp) ==
    /\ atendimento[p].sit = "em_atendimento"
    /\ resp # "outra"
    /\ Comecar(r, porta, p, resp)

(***************************************************************************)
(* The first row.                                                          *)
(***************************************************************************)
\* The upsert of the status: a new row is locked like an old one.
GravarStatus(r) ==
    /\ conversa[r].passo = "linha" /\ conversa[r].porta = "central"
    /\ Livre(r, "status")
    /\ Seguir(r, IF conversa[r].resp = "outra" THEN "gravar" ELSE "confirmacao", {"status"})
    /\ UNCHANGED <<lider, atendimento, status, confirmacao, respostas, ultima, confusas>>

\* update_attendance and close_attendance change no row when another request
\* closed it in between, and the answer goes on to the confirmation.
GravarAtendimento(r) ==
    /\ conversa[r].passo = "linha" /\ conversa[r].porta # "central"
    /\ Livre(r, "atendimento")
    /\ Seguir(r, "confirmacao",
           IF atendimento[conversa[r].p].sit = "em_atendimento" THEN {"atendimento"} ELSE {})
    /\ UNCHANGED <<lider, atendimento, status, confirmacao, respostas, ultima, confusas>>

(***************************************************************************)
(* The confirmation.                                                       *)
(***************************************************************************)
NoPasso(r, resp) ==
    /\ conversa[r].passo = "confirmacao" /\ conversa[r].resp = resp
    /\ UNCHANGED <<lider, atendimento, status, confirmacao, respostas, ultima, confusas>>

TravarConfirmacao(r) == Livre(r, "confirmacao") /\ Seguir(r, "gravar", {"confirmacao"})
SemConfirmacao(r) == Seguir(r, "gravar", {})

\* INSERT ... ON CONFLICT.
ConfirmarNaCentral(r) ==
    conversa[r].porta = "central" /\ NoPasso(r, "sim") /\ TravarConfirmacao(r)

\* An attendance of a person without a leader leaves the confirmation as it is.
ConfirmarNoAtendimento(r) ==
    /\ conversa[r].porta # "central" /\ NoPasso(r, "sim")
    /\ IF conversa[r].p \in lider THEN TravarConfirmacao(r) ELSE SemConfirmacao(r)

\* UPDATE: it does not see, and does not wait for, a row that another
\* transaction inserted and has not committed.
RevogarNaCentral(r) ==
    /\ conversa[r].porta = "central" /\ NoPasso(r, "nao")
    /\ IF confirmacao[conversa[r].p] = "nenhuma" THEN SemConfirmacao(r) ELSE TravarConfirmacao(r)

\* Mutant of RevogarNoAtendimento: an attendance only ever confirms.
RevogarNada(r) == conversa[r].porta # "central" /\ NoPasso(r, "nao") /\ SemConfirmacao(r)

\* The same, of a confirmation in force only.
RevogarNoAtendimento(r) ==
    /\ conversa[r].porta # "central" /\ NoPasso(r, "nao")
    /\ IF confirmacao[conversa[r].p] = "confirmada" THEN TravarConfirmacao(r)
       ELSE SemConfirmacao(r)

\* The commit: the rows that the transaction holds get their values.
Gravar(r) ==
    LET c == conversa[r] IN
    /\ c.passo = "gravar"
    /\ atendimento' = IF "atendimento" \notin c.presas THEN atendimento
                      ELSE [atendimento EXCEPT ![c.p] =
                              [sit |-> IF c.porta = "encerrar" THEN "concluido" ELSE @.sit,
                               intencao |-> c.resp]]
    /\ status' = IF "status" \in c.presas THEN [status EXCEPT ![c.p] = c.resp] ELSE status
    /\ confirmacao' = IF "confirmacao" \notin c.presas THEN confirmacao
                      ELSE [confirmacao EXCEPT ![c.p] =
                              IF c.resp = "sim" THEN "confirmada" ELSE "revogada"]
    /\ ultima' = IF c.resp = "nao" \/ "confirmacao" \in c.presas
                 THEN [ultima EXCEPT ![c.p] = c.resp] ELSE ultima
    /\ confusas' = IF c.junta = "sim" THEN confusas \cup {c.p}
                   ELSE IF c.resp = "nao" \/ "confirmacao" \in c.presas THEN confusas \ {c.p}
                   ELSE confusas
    /\ conversa' = [conversa EXCEPT ![r] = SemConversa]
    /\ UNCHANGED <<lider, respostas>>

ContinuarConversa(r) ==
    \/ GravarStatus(r) \/ GravarAtendimento(r)
    \/ ConfirmarNaCentral(r) \/ ConfirmarNoAtendimento(r)
    \/ RevogarNaCentral(r) \/ RevogarNoAtendimento(r) \/ Gravar(r)

NextVoto ==
    \/ \E p \in Pessoas : MudarLider(p)
    \/ \E r \in Conversas, p \in Pessoas, resp \in Respostas :
          \/ Contatar(r, p, resp)
          \/ \E porta \in {"atualizar", "encerrar"} : Atender(r, porta, p, resp)
    \/ \E r \in Conversas : ContinuarConversa(r)

(***************************************************************************)
(* Properties.                                                             *)
(***************************************************************************)
\* The last answer about a person that met no other one on its way is what
\* the confirmation says, through whatever door it came (create_contact and
\* sync_vote_confirmation): a refusal leaves no confirmation that the goals
\* would count, and a promise that had a leader is counted.
ConfirmacaoSegueResposta ==
    \A p \in Pessoas \ confusas :
        /\ ultima[p] = "sim" => confirmacao[p] = "confirmada"
        /\ ultima[p] = "nao" => confirmacao[p] # "confirmada"

\* However the contacts of the call center overlap, a person that no
\* attendance answered about has a status and a confirmation that agree: the
\* status row, written first, puts the contacts in line (create_contact).
CentralConfere ==
    \A p \in Pessoas :
        atendimento[p].intencao = "nenhuma" /\ (\A r \in Conversas :
              conversa[r].p = p => conversa[r].porta = "central") =>
            /\ status[p] = "sim" => confirmacao[p] = "confirmada"
            /\ status[p] = "nao" => confirmacao[p] # "confirmada"

\* Nothing the goals count contradicts what the person said last
\* (create_contact, sync_vote_confirmation).
RespostaVale == ConfirmacaoSegueResposta /\ CentralConfere
=============================================================================
