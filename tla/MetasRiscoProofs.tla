-------------------------- MODULE MetasRiscoProofs --------------------------
(***************************************************************************)
(* Proofs about ConfirmacaoVoto and MetasRisco, for every number of        *)
(* people, calls, goals, days and requests.                                *)
(*                                                                         *)
(* RespostaVale is not inductive: an answer reads the confirmation, or the *)
(* attendance, and commits later.  While it is on its way, JuntasOK says   *)
(* that one without a mark is alone with its person, StatusSozinho that    *)
(* the contacts of a person stand in line for its status, and the rest     *)
(* what the answer that changes no row has seen and still holds.           *)
(*                                                                         *)
(* Nor is SozinhaAcerta: a computation reads the goal, writes its alert    *)
(* and its status in steps of their own and commits them together.         *)
(* TravasOK and DonosOK say who holds the row of a goal, JuntasMetaOK that *)
(* a computation without a mark is alone with its goal, SozinhoOK and      *)
(* JobSozinho what it is going to leave there.                             *)
(***************************************************************************)
EXTENDS MetasRisco, FiniteSetTheorems, TLAPS

(***************************************************************************)
(* Answers about the vote.                                                 *)
(***************************************************************************)
\* A request on its way is about a person, through one of the doors; only an
\* attendance holds the attendance's row, and only a contact the status.
ConversasOK ==
    \A r \in Conversas : conversa[r].passo # "livre" =>
        /\ conversa[r].p \in Pessoas
        /\ conversa[r].porta # "nenhuma"
        /\ "atendimento" \in conversa[r].presas => conversa[r].porta # "central"
        /\ "status" \in conversa[r].presas => conversa[r].porta = "central"
        /\ conversa[r].passo = "linha" => conversa[r].presas = {}
LivresOK == \A r \in Conversas : conversa[r].passo = "livre" => conversa[r].p = Nada

\* A request that met no other one is alone with its person.
JuntasOK ==
    \A r, s \in Conversas : r # s /\ conversa[r].p # Nada /\ conversa[r].p = conversa[s].p =>
        conversa[r].junta = "sim"

\* A contact past its first statement holds the status of its person, alone.
StatusPreso ==
    \A r \in Conversas : conversa[r].passo \in {"confirmacao", "gravar"} =>
        \/ conversa[r].porta = "central" /\ "status" \in conversa[r].presas
        \/ /\ conversa[r].porta # "central"
           /\ \/ "atendimento" \in conversa[r].presas
              \/ atendimento[conversa[r].p].intencao # "nenhuma"
StatusSozinho ==
    \A r, s \in Conversas :
        conversa[r].p = conversa[s].p /\ "status" \in conversa[r].presas \cap conversa[s].presas => r = s

\* An attendance is closed by an answer.
FechadoRespondido == \A p \in Pessoas : atendimento[p].sit = "concluido" => atendimento[p].intencao # "nenhuma"

\* Only the call center has answers of p.
SoCentral(p) ==
    /\ atendimento[p].intencao = "nenhuma"
    /\ \A r \in Conversas : conversa[r].p = p => conversa[r].porta = "central"

\* A refusal that is about to commit without the confirmation's row found no
\* confirmation in force, and still would; a promise of a contact has the row.
RecusaOK ==
    \A r \in Conversas :
        conversa[r].passo = "gravar" /\ "confirmacao" \notin conversa[r].presas =>
            /\ conversa[r].porta = "central" => conversa[r].resp # "sim"
            /\ conversa[r].resp = "nao" /\ (conversa[r].junta = "nao" \/ SoCentral(conversa[r].p)) =>
                  confirmacao[conversa[r].p] # "confirmada"

IInvVoto ==
    /\ TipoVoto
    /\ ConversasOK /\ LivresOK /\ JuntasOK
    /\ StatusPreso /\ StatusSozinho /\ FechadoRespondido /\ RecusaOK
    /\ ConfirmacaoSegueResposta /\ CentralConfere

(***************************************************************************)
(* Goals.                                                                  *)
(***************************************************************************)
TiposDeMeta == {"acompanhar", "atualizar", "cancelar"}
PassosDaMeta == {"acomp", "alterar", "ler", "alerta", "meta"}

\* Where a request is says what it is about, and that its goal exists.
PassosOK ==
    \A r \in Chamadas :
        /\ passo[r] \notin {"resolver", "proxima"}
        /\ passo[r] = "livre" <=> calc[r].tipo = "nenhum"
        /\ passo[r] \in PassosDaMeta => calc[r].tipo \in TiposDeMeta
        /\ passo[r] \in {"acomp", "meta"} => calc[r].tipo = "acompanhar"
        /\ passo[r] = "alterar" => calc[r].tipo # "acompanhar"
        /\ passo[r] \in {"apagar", "esperar", "quebrar"} => calc[r].tipo = "ranking"
MetaConhecida ==
    \A r \in Chamadas :
        /\ calc[r].tipo \in TiposDeMeta => calc[r].m \in Metas /\ meta[calc[r].m].st # "livre"
        /\ calc[r].tipo \notin TiposDeMeta => calc[r].m = Nada
CalculoOK ==
    \A r \in Chamadas :
        /\ passo[r] \in PassosDaMeta \ {"meta"} => calc[r].al = "igual"
        /\ calc[r].tipo \in {"atualizar", "cancelar"} /\ passo[r] \in {"ler", "alerta", "gravar"} =>
              calc[r].st \in StatusMeta /\ (calc[r].st \notin Ativas => calc[r].risco = "nao")
        /\ calc[r].tipo = "cancelar" => calc[r].st = "cancelada"

\* The row of a goal is held by who is about to commit it.
TravasOK == \A x, y \in Processos : x # y => presas[x] \cap presas[y] = {}
DonoDaMeta(r) ==
    \/ calc[r].tipo \in {"atualizar", "cancelar"} /\ passo[r] \in {"ler", "alerta", "gravar"}
    \/ calc[r].tipo = "acompanhar" /\ passo[r] = "gravar"
DonosOK ==
    /\ \A r \in Chamadas : DonoDaMeta(r) => LinhaDaMeta(calc[r].m) \in presas[r]
    /\ \A m \in Metas : job.st[m] # "igual" => LinhaDaMeta(m) \in presas[Job]

\* Two transactions about one goal know of each other.
JuntasMetaOK ==
    /\ \A r, s \in Chamadas : r # s /\ calc[r].m # Nada /\ calc[r].m = calc[s].m => r \in juntas
    /\ \A r \in Chamadas : calc[r].m # Nada /\ passo[Job] # "livre" => {r, Job} \subseteq juntas

\* A request that met no other one finds the goal as it read it, and the alert
\* that it leaves is the one that its risk calls for.
AlertaDoRisco(risco) == IF risco = "sim" THEN "aberto" ELSE "resolvido"
AlertaFinal(r) == IF calc[r].al = "igual" THEN alerta[calc[r].m] ELSE calc[r].al
SozinhoOK ==
    \A r \in Chamadas \ juntas : calc[r].tipo \in TiposDeMeta =>
        /\ calc[r].tipo = "acompanhar" => meta[calc[r].m].st \in Ativas \cup {"suspensa"}
        /\ passo[r] \in {"meta", "gravar"} => AlertaFinal(r) = AlertaDoRisco(calc[r].risco)

\* The job works on goals that exist.
PassosDoJob == {"acomp", "meta", "alerta"}
JobOK ==
    /\ passo[Job] \notin {"ler", "alterar"}
    /\ passo[Job] \in PassosDoJob => job.m \in Metas \ job.fila /\ meta[job.m].st # "livre"
    /\ passo[Job] \in {"apagar", "esperar", "quebrar", "gravar"} => job.fila = {}
    /\ \A m \in job.fila : meta[m].st # "livre"
    /\ passo[Job] \in {"livre", "resolver"} => \A m \in Metas : job.st[m] = "igual" /\ job.al[m] = "igual"
    /\ \A m \in Metas : meta[m].st = "livre" =>
          alerta[m] = "resolvido" /\ job.st[m] = "igual" /\ job.al[m] = "igual"
    /\ \A m \in Metas : meta[m].st = "cancelada" => job.st[m] \in {"igual", "cancelada"}

\* What the job, alone, leaves of each goal: those still to come are active,
\* and the others, new ones included, end up in agreement.
Concorda(st, al) == st # "suspensa" => (al = "aberto" <=> st = "em_risco")
StatusFinal(m) == IF job.st[m] = "igual" THEN meta[m].st ELSE job.st[m]
JobSozinho ==
    passo[Job] # "livre" /\ Job \notin juntas =>
        \A m \in Metas :
            /\ m \in job.fila => meta[m].st \in Ativas
            /\ m = job.m /\ passo[Job] \in {"acomp", "meta"} => meta[m].st \in Ativas
            /\ m = job.m /\ passo[Job] = "alerta" =>
                  job.st[m] = (IF job.risco = "sim" THEN "em_risco" ELSE "ativa")
            /\ passo[Job] = "resolver" /\ m \notin job.fila /\ meta[m].st \in Ativas =>
                  Concorda(meta[m].st, alerta[m])
            /\ passo[Job] # "resolver" /\ m \notin job.fila /\ ~(m = job.m /\ passo[Job] \in PassosDoJob) =>
                  Concorda(StatusFinal(m), ValorAlerta(m))

IInvMeta ==
    /\ TipoMeta
    /\ PassosOK /\ MetaConhecida /\ CalculoOK /\ TravasOK /\ DonosOK
    /\ JuntasMetaOK /\ SozinhoOK
    /\ JobOK /\ JobSozinho
    /\ SozinhaAcerta

IInv == IInvVoto /\ IInvMeta

LEMMA SemConversaTipo == SemConversa \in Conversa
  BY DEF SemConversa, Conversa, Respostas

\* A request goes on: it holds more rows, and nothing else of it changes.
LEMMA SeguirConhecido ==
    ASSUME conversa \in [Conversas -> Conversa], NEW r \in Conversas,
           NEW passoNovo \in {"confirmacao", "gravar"}, NEW L \in SUBSET Linhas, Seguir(r, passoNovo, L)
    PROVE  /\ conversa' \in [Conversas -> Conversa]
           /\ conversa'[r].passo = passoNovo
           /\ conversa'[r].presas = conversa[r].presas \cup L
           /\ \A s \in Conversas : /\ conversa'[s].p = conversa[s].p
                                   /\ conversa'[s].porta = conversa[s].porta
                                   /\ conversa'[s].resp = conversa[s].resp
                                   /\ conversa'[s].junta = conversa[s].junta
           /\ \A s \in Conversas \ {r} : conversa'[s] = conversa[s]
<1> DEFINE A == conversa[r].presas \cup L
           x == [conversa[r] EXCEPT !.passo = passoNovo, !.presas = A]
<1>1. conversa[r] \in Conversa /\ A \in SUBSET Linhas
  BY DEF Conversa
<1>2. /\ x \in Conversa
      /\ x.passo = passoNovo /\ x.presas = A /\ x.p = conversa[r].p /\ x.porta = conversa[r].porta
      /\ x.resp = conversa[r].resp /\ x.junta = conversa[r].junta
  <2> HIDE DEF A
  <2> QED  BY <1>1 DEF Conversa
<1>3. conversa' = [conversa EXCEPT ![r] = x]
  BY DEF Seguir
<1> HIDE DEF x
<1> QED  BY <1>1, <1>2, <1>3

\* What a statement that goes on has to see to.
LEMMA SeguirConserva ==
    ASSUME IInvVoto, NEW r \in Conversas, conversa[r].passo \in {"linha", "confirmacao"},
           NEW passoNovo \in {"confirmacao", "gravar"}, NEW L \in SUBSET Linhas, Seguir(r, passoNovo, L),
           UNCHANGED <<lider, atendimento, status, confirmacao, respostas, ultima, confusas>>,
           "atendimento" \in L => conversa[r].porta # "central",
           "status" \in L => conversa[r].porta = "central" /\ Livre(r, "status"),
           \/ conversa[r].porta = "central" /\ "status" \in conversa[r].presas \cup L
           \/ /\ conversa[r].porta # "central"
              /\ \/ "atendimento" \in conversa[r].presas \cup L
                 \/ atendimento[conversa[r].p].intencao # "nenhuma",
           passoNovo = "gravar" /\ "confirmacao" \notin L =>
              /\ conversa[r].porta = "central" => conversa[r].resp # "sim"
              /\ conversa[r].resp = "nao" => confirmacao[conversa[r].p] # "confirmada"
    PROVE  IInvVoto'
<1>1. /\ conversa' \in [Conversas -> Conversa]
      /\ conversa'[r].passo = passoNovo
      /\ conversa'[r].presas = conversa[r].presas \cup L
      /\ \A s \in Conversas : /\ conversa'[s].p = conversa[s].p
                              /\ conversa'[s].porta = conversa[s].porta
                              /\ conversa'[s].resp = conversa[s].resp
                              /\ conversa'[s].junta = conversa[s].junta
      /\ \A s \in Conversas \ {r} : conversa'[s] = conversa[s]
  BY SeguirConhecido DEF IInvVoto, TipoVoto
<1>2. conversa[r].p \in Pessoas /\ conversa[r].porta # "nenhuma" /\ conversa[r].passo # "livre"
  BY DEF IInvVoto, ConversasOK
<1>3. TipoVoto'
  BY <1>1 DEF IInvVoto, TipoVoto
<1>4. ConversasOK' /\ LivresOK'
  BY <1>1, <1>2 DEF IInvVoto, ConversasOK, LivresOK
<1>5. JuntasOK'
  BY <1>1 DEF IInvVoto, JuntasOK
<1>6. StatusPreso'
  BY <1>1 DEF IInvVoto, StatusPreso
<1>7. StatusSozinho'
  BY <1>1 DEF IInvVoto, StatusSozinho, Livre
<1>8. FechadoRespondido'
  BY DEF IInvVoto, FechadoRespondido
<1>9. RecusaOK'
  <2>1. \A p \in Pessoas : SoCentral(p)' = SoCentral(p)
    BY <1>1 DEF SoCentral
  <2>2. conversa'[r].passo = "gravar" /\ "confirmacao" \notin conversa'[r].presas =>
           /\ conversa'[r].porta = "central" => conversa'[r].resp # "sim"
           /\ conversa'[r].resp = "nao" => confirmacao[conversa'[r].p] # "confirmada"
    BY <1>1
  <2>3. ASSUME NEW s \in Conversas \ {r}, conversa[s].passo = "gravar"
        PROVE  SoCentral(conversa[s].p)' = SoCentral(conversa[s].p)
    BY <1>1, <2>1, <2>3 DEF IInvVoto, ConversasOK
  <2> QED
    BY <1>1, <2>2, <2>3 DEF IInvVoto, RecusaOK
<1>10. ConfirmacaoSegueResposta'
  BY DEF IInvVoto, ConfirmacaoSegueResposta
<1>11. CentralConfere'
  BY <1>1 DEF IInvVoto, CentralConfere
<1> QED
  BY <1>3, <1>4, <1>5, <1>6, <1>7, <1>8, <1>9, <1>10, <1>11 DEF IInvVoto

\* A new answer marks those about the same person that are on their way.
LEMMA ComecarConserva ==
    ASSUME IInvVoto, NEW r \in Conversas, NEW porta \in {"central", "atualizar", "encerrar"},
           NEW p \in Pessoas, NEW resp \in Respostas, Comecar(r, porta, p, resp)
    PROVE  IInvVoto'
<1> USE NadaNaoPessoa
<1> DEFINE outras == {s \in Conversas : conversa[s].p = p}
           j == IF outras = {} THEN "nao" ELSE "sim"
           x == [SemConversa EXCEPT !.passo = "linha", !.porta = porta, !.p = p, !.resp = resp, !.junta = j]
<1>1. conversa[r].passo = "livre" /\ conversa[r].p = Nada
  BY DEF IInvVoto, LivresOK, Comecar
<1>2. UNCHANGED <<lider, atendimento, status, confirmacao, ultima, confusas>> /\ respostas' \in 0 .. MaxRespostas
  <2>1. respostas < MaxRespostas /\ respostas' = respostas + 1
    BY DEF Comecar
  <2>2. respostas' \in 0 .. MaxRespostas
    BY <2>1, RespostasNaturais DEF IInvVoto, TipoVoto
  <2> QED
    BY <2>2 DEF Comecar
<1>3. /\ x \in Conversa
      /\ x.passo = "linha" /\ x.porta = porta /\ x.p = p /\ x.resp = resp /\ x.presas = {} /\ x.junta = j
  <2>1. j \in {"sim", "nao"}
    OBVIOUS
  <2> HIDE DEF j
  <2> QED  BY <2>1 DEF SemConversa, Conversa
<1>4. ASSUME NEW c \in Conversa
      PROVE  /\ [c EXCEPT !.junta = "sim"] \in Conversa
             /\ [c EXCEPT !.junta = "sim"].passo = c.passo
             /\ [c EXCEPT !.junta = "sim"].porta = c.porta
             /\ [c EXCEPT !.junta = "sim"].p = c.p
             /\ [c EXCEPT !.junta = "sim"].resp = c.resp
             /\ [c EXCEPT !.junta = "sim"].presas = c.presas
             /\ [c EXCEPT !.junta = "sim"].junta = "sim"
  BY DEF Conversa
<1>5. conversa' = [s \in Conversas |-> CASE s = r -> x
                                         [] s \in outras -> [conversa[s] EXCEPT !.junta = "sim"]
                                         [] OTHER -> conversa[s]]
  BY DEF Comecar
<1>6. r \notin outras
  BY <1>1
<1>7. conversa'[r] = x
  BY <1>5, <1>6
<1>8. ASSUME NEW s \in Conversas \ {r}
      PROVE  /\ conversa'[s] \in Conversa
             /\ conversa'[s].passo = conversa[s].passo
             /\ conversa'[s].porta = conversa[s].porta
             /\ conversa'[s].p = conversa[s].p
             /\ conversa'[s].resp = conversa[s].resp
             /\ conversa'[s].presas = conversa[s].presas
             /\ conversa'[s].junta = (IF conversa[s].p = p THEN "sim" ELSE conversa[s].junta)
  <2>1. conversa[s] \in Conversa
    BY DEF IInvVoto, TipoVoto
  <2>2. CASE s \in outras
    <3>1. conversa'[s] = [conversa[s] EXCEPT !.junta = "sim"]
      BY <1>5, <2>2
    <3> QED  BY <1>4, <2>1, <2>2, <3>1
  <2>3. CASE s \notin outras
    <3>1. conversa'[s] = conversa[s]
      BY <1>5, <2>3
    <3> QED  BY <2>1, <2>3, <3>1
  <2> QED  BY <2>2, <2>3
<1>9. j = "nao" => \A s \in Conversas \ {r} : conversa[s].p # p
  OBVIOUS
<1> HIDE DEF x, outras, j
<1>10. TipoVoto'
  <2>1. conversa' \in [Conversas -> Conversa]
    BY <1>3, <1>5, <1>7, <1>8
  <2> QED
    BY <1>2, <2>1 DEF IInvVoto, TipoVoto
<1>11. ConversasOK' /\ LivresOK'
  BY <1>3, <1>7, <1>8 DEF IInvVoto, ConversasOK, LivresOK
<1>12. JuntasOK'
  <2> SUFFICES ASSUME NEW s \in Conversas, NEW v \in Conversas, s # v, conversa'[s].p # Nada,
                      conversa'[s].p = conversa'[v].p
               PROVE  conversa'[s].junta = "sim"
    BY DEF JuntasOK
  <2>1. CASE s = r
    BY <1>3, <1>7, <1>8, <1>9, <2>1 DEF j
  <2>2. CASE s # r /\ v = r
    BY <1>3, <1>7, <1>8, <2>2
  <2>3. CASE s # r /\ v # r
    BY <1>8, <2>3 DEF IInvVoto, JuntasOK
  <2> QED  BY <2>1, <2>2, <2>3
<1>13. StatusPreso'
  BY <1>2, <1>3, <1>7, <1>8 DEF IInvVoto, StatusPreso
<1>14. StatusSozinho'
  BY <1>3, <1>7, <1>8 DEF IInvVoto, StatusSozinho
<1>15. FechadoRespondido' /\ ConfirmacaoSegueResposta'
  BY <1>2 DEF IInvVoto, FechadoRespondido, ConfirmacaoSegueResposta
<1>16. \A q \in Pessoas : SoCentral(q)' => SoCentral(q)
  BY <1>1, <1>2, <1>8 DEF SoCentral
<1>17. RecusaOK'
  <2> SUFFICES ASSUME NEW s \in Conversas, conversa'[s].passo = "gravar", "confirmacao" \notin conversa'[s].presas
               PROVE  /\ conversa'[s].porta = "central" => conversa'[s].resp # "sim"
                      /\ conversa'[s].resp = "nao" /\ (conversa'[s].junta = "nao" \/ SoCentral(conversa[s].p)') =>
                            confirmacao'[conversa'[s].p] # "confirmada"
    BY <1>3, <1>7, <1>8 DEF RecusaOK, SoCentral
  <2>1. s # r
    BY <1>3, <1>7
  <2>2. conversa[s].p \in Pessoas
    BY <1>8, <2>1 DEF IInvVoto, ConversasOK
  <2> QED
    BY <1>2, <1>8, <1>16, <2>1, <2>2 DEF IInvVoto, RecusaOK
<1>18. CentralConfere'
  BY <1>2, <1>16 DEF IInvVoto, CentralConfere, SoCentral
<1> QED
  BY <1>10, <1>11, <1>12, <1>13, <1>14, <1>15, <1>17, <1>18 DEF IInvVoto

\* The commit of an answer.
LEMMA GravarConserva ==
    ASSUME IInvVoto, NEW r \in Conversas, Gravar(r)
    PROVE  IInvVoto'
<1> USE NadaNaoPessoa
<1> DEFINE c == conversa[r]
<1>1. /\ c \in Conversa /\ c.passo = "gravar" /\ c.p \in Pessoas /\ c.porta # "nenhuma"
      /\ c.resp \in Respostas
  BY DEF IInvVoto, TipoVoto, ConversasOK, Gravar, Conversa
<1>2. /\ conversa' \in [Conversas -> Conversa]
      /\ conversa'[r].passo = "livre" /\ conversa'[r].p = Nada /\ conversa'[r].presas = {}
      /\ \A s \in Conversas \ {r} : conversa'[s] = conversa[s]
  BY SemConversaTipo DEF IInvVoto, TipoVoto, Gravar, SemConversa
<1>3. UNCHANGED <<lider, respostas>>
  BY DEF Gravar
<1>4. /\ atendimento' \in [Pessoas -> Atendimento]
      /\ \A p \in Pessoas \ {c.p} : atendimento'[p] = atendimento[p]
      /\ "atendimento" \notin c.presas => atendimento' = atendimento
      /\ "atendimento" \in c.presas => atendimento'[c.p].intencao = c.resp
  <2>1. CASE "atendimento" \notin c.presas
    BY <2>1 DEF Gravar, IInvVoto, TipoVoto
  <2>2. CASE "atendimento" \in c.presas
    <3> DEFINE a == [sit |-> IF c.porta = "encerrar" THEN "concluido" ELSE atendimento[c.p].sit,
                     intencao |-> c.resp]
    <3>1. atendimento[c.p] \in Atendimento
      BY <1>1 DEF IInvVoto, TipoVoto
    <3>2. a \in Atendimento /\ a.intencao = c.resp
      BY <1>1, <3>1 DEF Atendimento
    <3>3. atendimento' = [atendimento EXCEPT ![c.p] = a]
      BY <2>2 DEF Gravar
    <3> HIDE DEF a
    <3> QED
      BY <1>1, <2>2, <3>2, <3>3 DEF IInvVoto, TipoVoto
  <2> QED
    BY <2>1, <2>2
<1>5. /\ status' \in [Pessoas -> Respostas \cup {"nao_contatado"}]
      /\ \A p \in Pessoas \ {c.p} : status'[p] = status[p]
      /\ status'[c.p] = IF "status" \in c.presas THEN c.resp ELSE status[c.p]
  BY <1>1 DEF Gravar, IInvVoto, TipoVoto
<1>6. /\ confirmacao' \in [Pessoas -> {"nenhuma", "confirmada", "revogada"}]
      /\ \A p \in Pessoas \ {c.p} : confirmacao'[p] = confirmacao[p]
      /\ confirmacao'[c.p] = IF "confirmacao" \notin c.presas THEN confirmacao[c.p]
                             ELSE IF c.resp = "sim" THEN "confirmada" ELSE "revogada"
  BY <1>1 DEF Gravar, IInvVoto, TipoVoto
<1>7. /\ ultima' \in [Pessoas -> Respostas]
      /\ \A p \in Pessoas \ {c.p} : ultima'[p] = ultima[p]
      /\ ultima'[c.p] = IF c.resp = "nao" \/ "confirmacao" \in c.presas THEN c.resp ELSE ultima[c.p]
  BY <1>1 DEF Gravar, IInvVoto, TipoVoto
<1>8. /\ confusas' \subseteq Pessoas
      /\ \A p \in Pessoas \ {c.p} : p \in confusas' <=> p \in confusas
      /\ c.junta = "sim" => c.p \in confusas'
      /\ c.junta # "sim" /\ c.resp # "nao" /\ "confirmacao" \notin c.presas => (c.p \in confusas' <=> c.p \in confusas)
  BY <1>1 DEF Gravar, IInvVoto, TipoVoto
<1>9. c.junta \in {"sim", "nao"}
  BY <1>1 DEF Conversa
<1> HIDE DEF c
<1>10. TipoVoto'
  BY <1>2, <1>3, <1>4, <1>5, <1>6, <1>7, <1>8 DEF IInvVoto, TipoVoto
<1>11. ConversasOK' /\ LivresOK' /\ JuntasOK' /\ StatusSozinho'
  BY <1>2 DEF IInvVoto, ConversasOK, LivresOK, JuntasOK, StatusSozinho
<1>12. \A p \in Pessoas : atendimento[p].intencao # "nenhuma" => atendimento'[p].intencao # "nenhuma"
  BY <1>1, <1>4 DEF Respostas
<1>13. StatusPreso'
  BY <1>2, <1>12 DEF IInvVoto, StatusPreso, ConversasOK
<1>14. FechadoRespondido'
  BY <1>1, <1>4 DEF IInvVoto, FechadoRespondido, Respostas
<1>15. \A p \in Pessoas : SoCentral(p)' => SoCentral(p)
  <2> SUFFICES ASSUME NEW p \in Pessoas, SoCentral(p)' PROVE SoCentral(p)
    OBVIOUS
  <2>1. atendimento[p].intencao = "nenhuma"
    BY <1>12 DEF SoCentral
  <2>2. \A s \in Conversas \ {r} : conversa[s].p = p => conversa[s].porta = "central"
    BY <1>2 DEF SoCentral
  <2>3. c.p = p => c.porta = "central"
    BY <1>1, <1>4, <2>1 DEF SoCentral, IInvVoto, StatusPreso, Respostas, c
  <2> QED
    BY <2>1, <2>2, <2>3 DEF SoCentral, c
<1>16. c.junta = "nao" => \A s \in Conversas \ {r} : conversa[s].p # c.p
  BY <1>1 DEF IInvVoto, JuntasOK, c
<1>17. ConfirmacaoSegueResposta'
  <2> SUFFICES ASSUME NEW p \in Pessoas \ confusas'
               PROVE  /\ ultima'[p] = "sim" => confirmacao'[p] = "confirmada"
                      /\ ultima'[p] = "nao" => confirmacao'[p] # "confirmada"
    BY DEF ConfirmacaoSegueResposta
  <2>1. CASE p # c.p
    BY <1>6, <1>7, <1>8, <2>1 DEF IInvVoto, ConfirmacaoSegueResposta
  <2>2. CASE p = c.p /\ "confirmacao" \in c.presas
    BY <1>6, <1>7, <2>2
  <2>3. CASE p = c.p /\ "confirmacao" \notin c.presas /\ c.resp = "nao"
    BY <1>1, <1>6, <1>7, <1>8, <1>9, <2>3 DEF IInvVoto, RecusaOK, c
  <2>4. CASE p = c.p /\ "confirmacao" \notin c.presas /\ c.resp # "nao"
    BY <1>6, <1>7, <1>8, <2>4 DEF IInvVoto, ConfirmacaoSegueResposta
  <2> QED
    BY <2>1, <2>2, <2>3, <2>4
<1>18. CentralConfere'
  <2> SUFFICES ASSUME NEW p \in Pessoas, SoCentral(p)'
               PROVE  /\ status'[p] = "sim" => confirmacao'[p] = "confirmada"
                      /\ status'[p] = "nao" => confirmacao'[p] # "confirmada"
    BY DEF CentralConfere, SoCentral
  <2>1. SoCentral(p)
    BY <1>15
  <2>2. CASE p # c.p
    BY <1>5, <1>6, <2>1, <2>2 DEF IInvVoto, CentralConfere, SoCentral
  <2>3. CASE p = c.p
    <3>1. c.porta = "central" /\ "status" \in c.presas
      BY <1>1, <2>1, <2>3 DEF IInvVoto, StatusPreso, SoCentral, c
    <3>2. "confirmacao" \notin c.presas => c.resp # "sim" /\ (c.resp = "nao" => confirmacao[c.p] # "confirmada")
      BY <1>1, <2>1, <2>3, <3>1 DEF IInvVoto, RecusaOK, c
    <3> QED
      BY <1>5, <1>6, <2>3, <3>1, <3>2
  <2> QED
    BY <2>2, <2>3
<1>19. RecusaOK'
  <2> SUFFICES ASSUME NEW s \in Conversas \ {r}, conversa[s].passo = "gravar", "confirmacao" \notin conversa[s].presas
               PROVE  /\ conversa[s].porta = "central" => conversa[s].resp # "sim"
                      /\ conversa[s].resp = "nao" /\ (conversa[s].junta = "nao" \/ SoCentral(conversa[s].p)') =>
                            confirmacao'[conversa[s].p] # "confirmada"
    BY <1>2 DEF RecusaOK, SoCentral
  <2>1. conversa[s].p \in Pessoas
    BY DEF IInvVoto, ConversasOK
  <2>2. conversa[s].p = c.p => conversa[s].junta # "nao"
    BY <1>1, <2>1 DEF IInvVoto, JuntasOK, c
  <2>3. conversa[s].p = c.p /\ SoCentral(c.p) => FALSE
    <3> SUFFICES ASSUME conversa[s].p = c.p, SoCentral(c.p) PROVE FALSE
      OBVIOUS
    <3>1. "status" \in conversa[s].presas /\ "status" \in c.presas
      BY <1>1 DEF IInvVoto, StatusPreso, SoCentral, c
    <3> QED
      BY <3>1 DEF IInvVoto, StatusSozinho, c
  <2>4. SoCentral(conversa[s].p)' => SoCentral(conversa[s].p)
    <3>1. conversa'[s].p = conversa[s].p
      BY <1>2
    <3> QED
      BY <1>15, <2>1, <3>1 DEF SoCentral
  <2>5. CASE conversa[s].p = c.p
    <3>1. ~SoCentral(conversa[s].p)'
      BY <2>3, <2>4, <2>5
    <3>2. conversa[s].porta = "central" => conversa[s].resp # "sim"
      BY DEF IInvVoto, RecusaOK
    <3> QED
      BY <2>2, <2>5, <3>1, <3>2
  <2>6. CASE conversa[s].p # c.p
    <3>1. confirmacao'[conversa[s].p] = confirmacao[conversa[s].p]
      BY <1>6, <2>1, <2>6
    <3> HIDE DEF SoCentral
    <3> QED
      BY <2>4, <3>1 DEF IInvVoto, RecusaOK
  <2> QED
    BY <2>5, <2>6
<1> QED
  BY <1>10, <1>11, <1>13, <1>14, <1>17, <1>18, <1>19 DEF IInvVoto

LEMMA VotoPasso ==
    ASSUME IInvVoto, NextVoto
    PROVE  IInvVoto'
<1>1. ASSUME NEW p \in Pessoas, MudarLider(p) PROVE IInvVoto'
  <2>1. TipoVoto'
    BY <1>1, RespostasNaturais DEF MudarLider, IInvVoto, TipoVoto
  <2> QED
    BY <1>1, <2>1 DEF MudarLider, IInvVoto, ConversasOK, LivresOK, JuntasOK, StatusPreso, StatusSozinho,
                      FechadoRespondido, RecusaOK, SoCentral, ConfirmacaoSegueResposta, CentralConfere
<1>2. ASSUME NEW r \in Conversas, NEW p \in Pessoas, NEW resp \in Respostas, Contatar(r, p, resp) PROVE IInvVoto'
  BY <1>2, ComecarConserva DEF Contatar
<1>3. ASSUME NEW r \in Conversas, NEW p \in Pessoas, NEW resp \in Respostas,
             NEW porta \in {"atualizar", "encerrar"}, Atender(r, porta, p, resp)
      PROVE  IInvVoto'
  BY <1>3, ComecarConserva DEF Atender
<1>4. ASSUME NEW r \in Conversas, GravarStatus(r) PROVE IInvVoto'
  <2> DEFINE n == IF conversa[r].resp = "outra" THEN "gravar" ELSE "confirmacao"
  <2>1. /\ conversa[r].passo = "linha" /\ conversa[r].porta = "central" /\ Livre(r, "status")
        /\ Seguir(r, n, {"status"}) /\ n \in {"confirmacao", "gravar"}
        /\ n = "gravar" => conversa[r].resp = "outra"
        /\ UNCHANGED <<lider, atendimento, status, confirmacao, respostas, ultima, confusas>>
    BY <1>4 DEF GravarStatus
  <2> HIDE DEF n
  <2> QED
    BY <2>1, SeguirConserva DEF Linhas
<1>5. ASSUME NEW r \in Conversas, GravarAtendimento(r) PROVE IInvVoto'
  <2> DEFINE L == IF atendimento[conversa[r].p].sit = "em_atendimento" THEN {"atendimento"} ELSE {}
  <2>1. /\ conversa[r].passo = "linha" /\ conversa[r].porta # "central"
        /\ Seguir(r, "confirmacao", L) /\ L \in SUBSET Linhas /\ "status" \notin L
        /\ UNCHANGED <<lider, atendimento, status, confirmacao, respostas, ultima, confusas>>
    BY <1>5 DEF GravarAtendimento, Linhas
  <2>2. "atendimento" \in L \/ atendimento[conversa[r].p].intencao # "nenhuma"
    BY <2>1 DEF IInvVoto, TipoVoto, Atendimento, ConversasOK, FechadoRespondido
  <2> HIDE DEF L
  <2> QED
    BY <2>1, <2>2, SeguirConserva
<1>6. ASSUME NEW r \in Conversas, conversa[r].passo = "confirmacao",
             UNCHANGED <<lider, atendimento, status, confirmacao, respostas, ultima, confusas>>,
             \/ TravarConfirmacao(r)
             \/ /\ SemConfirmacao(r)
                /\ conversa[r].porta = "central" => conversa[r].resp # "sim"
                /\ conversa[r].resp = "nao" => confirmacao[conversa[r].p] # "confirmada"
      PROVE  IInvVoto'
  <2>1. \/ conversa[r].porta = "central" /\ "status" \in conversa[r].presas
        \/ /\ conversa[r].porta # "central"
           /\ \/ "atendimento" \in conversa[r].presas
              \/ atendimento[conversa[r].p].intencao # "nenhuma"
    BY <1>6 DEF IInvVoto, StatusPreso
  <2>2. CASE TravarConfirmacao(r)
    <3>1. Seguir(r, "gravar", {"confirmacao"}) /\ {"confirmacao"} \in SUBSET Linhas
      BY <2>2 DEF TravarConfirmacao, Linhas
    <3> QED
      BY <1>6, <2>1, <3>1, SeguirConserva
  <2>3. CASE /\ SemConfirmacao(r)
             /\ conversa[r].porta = "central" => conversa[r].resp # "sim"
             /\ conversa[r].resp = "nao" => confirmacao[conversa[r].p] # "confirmada"
    <3>1. Seguir(r, "gravar", {}) /\ {} \in SUBSET Linhas
      BY <2>3 DEF SemConfirmacao
    <3> QED
      BY <1>6, <2>1, <2>3, <3>1, SeguirConserva
  <2> QED
    BY <1>6, <2>2, <2>3
<1>7. ASSUME NEW r \in Conversas,
             ConfirmarNaCentral(r) \/ ConfirmarNoAtendimento(r) \/ RevogarNaCentral(r) \/ RevogarNoAtendimento(r)
      PROVE  IInvVoto'
  BY <1>6, <1>7 DEF ConfirmarNaCentral, ConfirmarNoAtendimento, RevogarNaCentral, RevogarNoAtendimento,
     NoPasso
<1>8. ASSUME NEW r \in Conversas, Gravar(r) PROVE IInvVoto'
  BY <1>8, GravarConserva
<1> QED
  BY <1>1, <1>2, <1>3, <1>4, <1>5, <1>7, <1>8 DEF NextVoto, ContinuarConversa

(***************************************************************************)
(* Goals: what is counted, and the rules.                                  *)
(***************************************************************************)
LEMMA ContagemNatural == Cardinality(Pessoas) \in Nat /\ Contagem \subseteq Nat /\ 0 \in Contagem
<1>1. Cardinality(Pessoas) \in Nat
  BY PessoasContaveis, FS_CardinalityType
<1> QED
  BY <1>1 DEF Contagem

LEMMA ContarTipo ==
    ASSUME NEW S \in SUBSET Pessoas
    PROVE  Cardinality(S) \in Contagem
<1>1. IsFiniteSet(S) /\ Cardinality(S) <= Cardinality(Pessoas)
  BY PessoasContaveis, FS_Subset
<1>2. Cardinality(S) \in Nat
  BY <1>1, FS_CardinalityType
<1> QED
  BY <1>1, <1>2, ContagemNatural DEF Contagem

LEMMA BaseTipo ==
    ASSUME TipoVoto
    PROVE  Base \in Contagem /\ Confirmados \in Contagem
<1>1. lider \in SUBSET Pessoas /\ {p \in lider : confirmacao[p] = "confirmada"} \in SUBSET Pessoas
  BY DEF TipoVoto
<1> QED
  BY <1>1, ContarTipo DEF Base, Confirmados

LEMMA RiscoTipo == \A n, q : Risco(n, q) \in {"sim", "nao"}
  BY DEF Risco

\* The CASE of the status, and the agreement that it brings about.
LEMMA StatusRegra ==
    ASSUME NEW st \in StatusMeta, NEW risco \in {"sim", "nao"}
    PROVE  /\ StatusPeloRisco(st, risco) \in StatusMeta
           /\ st \notin Ativas => StatusPeloRisco(st, risco) = st
           /\ st \in Ativas => StatusPeloRisco(st, risco) = (IF risco = "sim" THEN "em_risco" ELSE "ativa")
           /\ st \in Ativas \/ st = "suspensa" \/ risco = "nao" =>
                 Concorda(StatusPeloRisco(st, risco), AlertaDoRisco(risco))
  BY DEF StatusPeloRisco, StatusMeta, Ativas, Concorda, AlertaDoRisco

LEMMA SemLinhaTipo == SemLinha \in Linha /\ Nulo \notin Contagem /\ (\A a, b \in Contagem : [proj |-> a, conf |-> b] \in Linha)
  BY ContagemNatural DEF SemLinha, Linha, Nulo

LEMMA SemCalcTipo ==
    /\ SemCalc \in Calculo /\ SemCalc.tipo = "nenhum" /\ SemCalc.m = Nada
    /\ SemCalc.al = "igual"
  BY ContagemNatural, MetasNaturais DEF SemCalc, Calculo

LEMMA SemJobTipo ==
    /\ SemJob \in Trabalho /\ SemJob.fila = {} /\ SemJob.m = Nada
    /\ \A m \in Metas : SemJob.st[m] = "igual" /\ SemJob.al[m] = "igual"
<1>1. /\ [m \in Metas |-> 0] \in [Metas -> Quantidades \cup {0}]
      /\ [m \in Metas |-> "igual"] \in [Metas -> StatusMeta \cup {"igual"}]
      /\ [m \in Metas |-> "igual"] \in [Metas -> {"igual", "aberto", "resolvido"}]
      /\ [m \in Metas |-> SemLinha] \in [Metas -> Linha]
  BY SemLinhaTipo
<1>2. SemJob \in Trabalho
  BY <1>1, SemLinhaTipo, ContagemNatural DEF SemJob, Trabalho
<1> QED
  BY <1>2 DEF SemJob

\* The rows that a statement writes.
LEMMA QuerTipo ==
    ASSUME IInvMeta, NEW x \in Processos
    PROVE  Quer(x) \in SUBSET LinhasMeta
<1>1. Hoje \in Datas
  BY MetasNaturais
<1>2. CASE x = Job
  <2>1. passo[x] \in {"acomp", "alerta", "meta"} => job.m \in Metas
    BY <1>2 DEF IInvMeta, JobOK, PassosDoJob
  <2> QED
    BY <1>1, <1>2, <2>1 DEF Quer, LinhasMeta, LinhaAcomp, LinhaAlerta, LinhaDaMeta, Ranking,
       AlertasParados,
       IInvMeta, JobOK
<1>3. CASE x \in Chamadas /\ x # Job
  <2>1. calc[x] \in Calculo /\ calc[x].d \in Datas
    BY <1>3 DEF IInvMeta, TipoMeta, Calculo
  <2>2. passo[x] \in PassosDaMeta => calc[x].m \in Metas
    BY <1>3 DEF IInvMeta, PassosOK, MetaConhecida
  <2> QED
    BY <1>1, <1>3, <2>1, <2>2 DEF Quer, LinhasMeta, LinhaAcomp, LinhaAlerta, LinhaDaMeta, Ranking,
       PassosDaMeta,
       AlertasParados, IInvMeta, PassosOK
<1> QED
  BY <1>2, <1>3, JobNaoChamada DEF Processos

\* A transaction goes on: it holds more rows, that no other one holds.
LEMMA IrConhecido ==
    ASSUME TipoMeta, TravasOK, NEW x \in Processos, NEW p \in Passos, NEW L \in SUBSET LinhasMeta, Livres(x, L),
           Ir(x, p, L)
    PROVE  /\ passo' \in [Processos -> Passos] /\ presas' \in [Processos -> SUBSET LinhasMeta]
           /\ passo'[x] = p /\ presas'[x] = presas[x] \cup L
           /\ \A y \in Processos \ {x} : passo'[y] = passo[y] /\ presas'[y] = presas[y]
           /\ TravasOK'
<1>1. /\ passo' \in [Processos -> Passos] /\ presas' \in [Processos -> SUBSET LinhasMeta]
      /\ passo'[x] = p /\ presas'[x] = presas[x] \cup L
      /\ \A y \in Processos \ {x} : passo'[y] = passo[y] /\ presas'[y] = presas[y]
  BY DEF TipoMeta, Ir
<1>2. TravasOK'
  BY <1>1 DEF TravasOK, Livres
<1> QED
  BY <1>1, <1>2

LEMMA LivresNada == \A x \in Processos : Livres(x, {})
  BY DEF Livres

(***************************************************************************)
(* A request goes on.                                                      *)
(***************************************************************************)
LEMMA SeguirCalculo ==
    ASSUME IInvMeta, NEW r \in Chamadas, NEW p \in Passos \ {"livre", "resolver", "proxima"},
           NEW L \in SUBSET LinhasMeta, NEW c \in Calculo, Livres(r, L), Ir(r, p, L),
           calc' = [calc EXCEPT ![r] = c],
           UNCHANGED <<meta, acomp, alerta, juntas, job, operacoes, duvida>>,
           passo[r] # "livre", c.tipo = calc[r].tipo, c.m = calc[r].m,
           p \in PassosDaMeta => c.tipo \in TiposDeMeta,
           p \in {"acomp", "meta"} => c.tipo = "acompanhar",
           p = "alterar" => c.tipo # "acompanhar",
           p \in {"apagar", "esperar", "quebrar"} => c.tipo = "ranking",
           p \in PassosDaMeta \ {"meta"} => c.al = "igual",
           c.tipo \in {"atualizar", "cancelar"} /\ p \in {"ler", "alerta", "gravar"} =>
              c.st \in StatusMeta /\ (c.st \notin Ativas => c.risco = "nao"),
           c.tipo = "cancelar" => c.st = "cancelada",
           (c.tipo \in {"atualizar", "cancelar"} /\ p \in {"ler", "alerta", "gravar"})
              \/ (c.tipo = "acompanhar" /\ p = "gravar") => LinhaDaMeta(c.m) \in presas[r] \cup L,
           r \notin juntas /\ c.tipo \in TiposDeMeta /\ p \in {"meta", "gravar"} =>
              (IF c.al = "igual" THEN alerta[c.m] ELSE c.al) = AlertaDoRisco(c.risco)
    PROVE  IInvMeta'
<1>1. r \in Processos /\ r # Job /\ Job \in Processos /\ (\A s \in Chamadas : s \in Processos)
  BY JobNaoChamada DEF Processos
<1>2. /\ passo' \in [Processos -> Passos] /\ presas' \in [Processos -> SUBSET LinhasMeta]
      /\ passo'[r] = p /\ presas'[r] = presas[r] \cup L
      /\ \A y \in Processos \ {r} : passo'[y] = passo[y] /\ presas'[y] = presas[y]
      /\ TravasOK'
  BY <1>1, IrConhecido DEF IInvMeta
<1>3. /\ calc' \in [Chamadas -> Calculo] /\ calc'[r] = c
      /\ \A s \in Chamadas \ {r} : calc'[s] = calc[s]
  BY DEF IInvMeta, TipoMeta
<1>4. TipoMeta'
  BY <1>2, <1>3 DEF IInvMeta, TipoMeta
<1>5. c.tipo # "nenhum"
  BY DEF IInvMeta, PassosOK
<1>6. PassosOK'
  BY <1>1, <1>2, <1>3, <1>5 DEF IInvMeta, PassosOK
<1>7. MetaConhecida'
  BY <1>3 DEF IInvMeta, MetaConhecida
<1>8. CalculoOK'
  BY <1>1, <1>2, <1>3 DEF IInvMeta, CalculoOK
<1>9. DonosOK'
  <2>1. ASSUME NEW s \in Chamadas, DonoDaMeta(s)' PROVE LinhaDaMeta(calc'[s].m) \in presas'[s]
    <3>1. CASE s = r
      BY <1>2, <1>3, <2>1, <3>1 DEF DonoDaMeta
    <3>2. CASE s # r
      BY <1>1, <1>2, <1>3, <2>1, <3>2 DEF DonoDaMeta, IInvMeta, DonosOK
    <3> QED  BY <3>1, <3>2
  <2>2. \A m \in Metas : job'.st[m] # "igual" => LinhaDaMeta(m) \in presas'[Job]
    BY <1>1, <1>2 DEF IInvMeta, DonosOK
  <2> QED
    BY <2>1, <2>2 DEF DonosOK, LinhaDaMeta
<1>10. JuntasMetaOK'
  BY <1>1, <1>2, <1>3 DEF IInvMeta, JuntasMetaOK
<1>11. SozinhoOK'
  <2> SUFFICES ASSUME NEW s \in Chamadas, s \notin juntas, calc'[s].tipo \in TiposDeMeta
               PROVE  /\ calc'[s].tipo = "acompanhar" => meta[calc'[s].m].st \in Ativas \cup {"suspensa"}
                      /\ passo'[s] \in {"meta", "gravar"} => AlertaFinal(s)' = AlertaDoRisco(calc'[s].risco)
    BY DEF SozinhoOK, AlertaDoRisco
  <2>1. CASE s = r
    BY <1>2, <1>3, <2>1 DEF IInvMeta, SozinhoOK, AlertaFinal
  <2>2. CASE s # r
    BY <1>1, <1>2, <1>3, <2>2 DEF IInvMeta, SozinhoOK, AlertaFinal
  <2> QED  BY <2>1, <2>2
<1>12. JobOK' /\ JobSozinho'
  <2>1. passo'[Job] = passo[Job]
    BY <1>1, <1>2
  <2> QED
    BY <2>1 DEF IInvMeta, JobOK, JobSozinho, StatusFinal, ValorAlerta
<1>13. SozinhaAcerta'
  BY DEF IInvMeta, SozinhaAcerta
<1> QED
  BY <1>2, <1>4, <1>6, <1>7, <1>8, <1>9, <1>10, <1>11, <1>12, <1>13 DEF IInvMeta

LEMMA CalculoPasso ==
    ASSUME IInvMeta, NEW r \in Chamadas,
           TravarAcomp(r) \/ AlterarMeta(r) \/ LerAlerta(r) \/ MexerAlerta(r) \/ TravarMeta(r) \/ ApagarRanking(r),
           TipoVoto
    PROVE  IInvMeta'
<1>1. r \in Processos /\ Quer(r) \in SUBSET LinhasMeta /\ {} \in SUBSET LinhasMeta /\ {Ranking} \in SUBSET LinhasMeta
      /\ Livres(r, {})
  BY QuerTipo, LivresNada DEF Processos, LinhasMeta, Ranking
<1>2. /\ calc[r] \in Calculo /\ calc[r].risco \in {"sim", "nao"} /\ calc[r].st \in StatusMeta \cup {"igual"}
      /\ calc[r].al \in {"igual", "aberto", "resolvido"}
      /\ calc[r].qtd \in Quantidades \cup {0}
      /\ calc = [calc EXCEPT ![r] = calc[r]]
  BY DEF IInvMeta, TipoMeta, Calculo
<1>3. calc[r].tipo \in TiposDeMeta => calc[r].m \in Metas /\ meta[calc[r].m] \in LinhaMeta /\ meta[calc[r].m].st # "livre"
  BY DEF IInvMeta, TipoMeta, MetaConhecida
<1>4. CASE TravarAcomp(r)
  <2>1. passo[r] = "acomp" /\ Livres(r, Quer(r)) /\ Ir(r, "ler", Quer(r)) /\ "ler" \in Passos /\ calc' = calc
    BY <1>4 DEF TravarAcomp, Passos
  <2>2. calc[r].tipo = "acompanhar" /\ calc[r].al = "igual"
    BY <2>1 DEF IInvMeta, PassosOK, CalculoOK, PassosDaMeta
  <2> QED
    BY <1>1, <1>2, <1>4, <2>1, <2>2, SeguirCalculo DEF TravarAcomp, TiposDeMeta
<1>5. CASE AlterarMeta(r)
  <2> DEFINE st == IF calc[r].st = "igual" THEN meta[calc[r].m].st ELSE calc[r].st
             qtd == IF calc[r].qtd = 0 THEN meta[calc[r].m].qtd ELSE calc[r].qtd
             risco == IF st \in Ativas THEN Risco(Base, qtd) ELSE "nao"
             c == [calc[r] EXCEPT !.st = st, !.qtd = qtd, !.base = Base, !.risco = risco]
  <2>1. /\ passo[r] = "alterar" /\ Livres(r, Quer(r)) /\ Ir(r, "ler", Quer(r)) /\ "ler" \in Passos
        /\ calc' = [calc EXCEPT ![r] = c]
    BY <1>5 DEF AlterarMeta, Passos
  <2>2. calc[r].tipo \in {"atualizar", "cancelar"} /\ calc[r].al = "igual"
    BY <2>1 DEF IInvMeta, PassosOK, CalculoOK, PassosDaMeta, TiposDeMeta
  <2>3. st \in StatusMeta /\ qtd \in Quantidades \cup {0} /\ Base \in Contagem
    BY <1>2, <1>3, <2>2, BaseTipo DEF LinhaMeta, TiposDeMeta, StatusMeta
  <2>4. risco \in {"sim", "nao"} /\ (st \notin Ativas => risco = "nao")
    BY RiscoTipo
  <2>5. calc[r].tipo = "cancelar" => st = "cancelada"
    BY DEF IInvMeta, CalculoOK
  <2>6. LinhaDaMeta(calc[r].m) \in Quer(r)
    BY <2>1, JobNaoChamada DEF Quer
  <2> HIDE DEF st, qtd, risco
  <2>7. /\ c \in Calculo /\ c.tipo = calc[r].tipo /\ c.m = calc[r].m /\ c.al = calc[r].al
        /\ c.st = st /\ c.risco = risco
    BY <1>2, <2>3, <2>4 DEF Calculo
  <2> HIDE DEF c
  <2> QED
    BY <1>1, <1>5, <2>1, <2>2, <2>3, <2>4, <2>5, <2>6, <2>7, SeguirCalculo DEF AlterarMeta, TiposDeMeta
<1>6. CASE LerAlerta(r)
  <2> DEFINE depois == IF calc[r].tipo = "acompanhar" THEN "meta" ELSE "gravar"
             p == IF calc[r].risco = "sim" \/ alerta[calc[r].m] = "aberto" THEN "alerta" ELSE depois
             c == [calc[r] EXCEPT !.existe = IF alerta[calc[r].m] = "aberto" THEN "sim" ELSE "nao"]
  <2>1. passo[r] = "ler" /\ Ir(r, p, {}) /\ calc' = [calc EXCEPT ![r] = c] /\ p \in Passos \ {"livre", "resolver", "proxima"}
    BY <1>6 DEF LerAlerta, Passos
  <2>2. calc[r].tipo \in TiposDeMeta /\ calc[r].al = "igual"
    BY <2>1 DEF IInvMeta, PassosOK, CalculoOK, PassosDaMeta
  <2>3. /\ c \in Calculo /\ c.tipo = calc[r].tipo /\ c.m = calc[r].m /\ c.al = calc[r].al
        /\ c.st = calc[r].st /\ c.risco = calc[r].risco
    BY <1>2 DEF Calculo
  <2>4. calc[r].tipo \in {"atualizar", "cancelar"} =>
           /\ calc[r].st \in StatusMeta /\ (calc[r].st \notin Ativas => calc[r].risco = "nao")
           /\ LinhaDaMeta(calc[r].m) \in presas[r]
    BY <2>1 DEF IInvMeta, CalculoOK, DonosOK, DonoDaMeta
  <2>5. calc[r].tipo = "cancelar" => calc[r].st = "cancelada"
    BY DEF IInvMeta, CalculoOK
  <2>6. p \in {"meta", "gravar"} => alerta[calc[r].m] = AlertaDoRisco(calc[r].risco)
    BY <1>2, <1>3, <2>2 DEF AlertaDoRisco, IInvMeta, TipoMeta
  <2>7. /\ p = "meta" => calc[r].tipo = "acompanhar"
        /\ p = "gravar" => calc[r].tipo # "acompanhar"
        /\ p \in {"alerta", "meta", "gravar"}
    OBVIOUS
  <2> HIDE DEF c, p
  <2> QED
    BY <1>1, <1>6, <2>1, <2>2, <2>3, <2>4, <2>5, <2>6, <2>7, SeguirCalculo DEF LerAlerta, TiposDeMeta,
       PassosDaMeta
<1>7. CASE MexerAlerta(r)
  <2> DEFINE p == IF calc[r].tipo = "acompanhar" THEN "meta" ELSE "gravar"
             c == [calc[r] EXCEPT !.al = AlertaDoRisco(calc[r].risco)]
  <2>1. /\ passo[r] = "alerta" /\ Livres(r, Quer(r)) /\ Ir(r, p, Quer(r)) /\ calc' = [calc EXCEPT ![r] = c]
        /\ p \in Passos \ {"livre", "resolver", "proxima"}
    BY <1>7 DEF MexerAlerta, Passos, AlertaDoRisco
  <2>2. calc[r].tipo \in TiposDeMeta
    BY <2>1 DEF IInvMeta, PassosOK, PassosDaMeta
  <2>3. /\ c \in Calculo /\ c.tipo = calc[r].tipo /\ c.m = calc[r].m /\ c.al = AlertaDoRisco(calc[r].risco)
        /\ c.st = calc[r].st /\ c.risco = calc[r].risco
    BY <1>2 DEF Calculo, AlertaDoRisco
  <2>4. calc[r].tipo \in {"atualizar", "cancelar"} =>
           /\ calc[r].st \in StatusMeta /\ (calc[r].st \notin Ativas => calc[r].risco = "nao")
           /\ LinhaDaMeta(calc[r].m) \in presas[r]
    BY <2>1 DEF IInvMeta, CalculoOK, DonosOK, DonoDaMeta
  <2>5. calc[r].tipo = "cancelar" => calc[r].st = "cancelada"
    BY DEF IInvMeta, CalculoOK
  <2>6. AlertaDoRisco(calc[r].risco) # "igual"
    BY DEF AlertaDoRisco
  <2>7. /\ p = "meta" => calc[r].tipo = "acompanhar"
        /\ p = "gravar" => calc[r].tipo # "acompanhar"
        /\ p \in {"meta", "gravar"}
    OBVIOUS
  <2> HIDE DEF c, p
  <2>8. CASE p = "meta"
    BY <1>1, <1>7, <2>1, <2>2, <2>3, <2>5, <2>6, <2>7, <2>8, SeguirCalculo DEF MexerAlerta,
       TiposDeMeta, PassosDaMeta
  <2>9. CASE p = "gravar"
    <3>1. calc[r].tipo \in {"atualizar", "cancelar"}
      BY <2>2, <2>7, <2>9 DEF TiposDeMeta
    <3> QED
      BY <1>1, <1>7, <2>1, <2>3, <2>4, <2>5, <2>6, <2>9, <3>1, SeguirCalculo DEF MexerAlerta,
         TiposDeMeta, PassosDaMeta
  <2> QED
    BY <2>7, <2>8, <2>9
<1>8. CASE TravarMeta(r)
  <2>1. passo[r] = "meta" /\ Livres(r, Quer(r)) /\ Ir(r, "gravar", Quer(r)) /\ "gravar" \in Passos /\ calc' = calc
    BY <1>8 DEF TravarMeta, Passos
  <2>2. calc[r].tipo = "acompanhar"
    BY <2>1 DEF IInvMeta, PassosOK
  <2>3. LinhaDaMeta(calc[r].m) \in Quer(r)
    BY <2>1, JobNaoChamada DEF Quer
  <2>4. r \notin juntas => AlertaFinal(r) = AlertaDoRisco(calc[r].risco)
    BY <2>1, <2>2 DEF IInvMeta, SozinhoOK, TiposDeMeta
  <2> QED
    BY <1>1, <1>2, <1>8, <2>1, <2>2, <2>3, <2>4, SeguirCalculo DEF TravarMeta, TiposDeMeta,
       AlertaFinal, PassosDaMeta
<1>9. CASE ApagarRanking(r)
  <2>1. passo[r] = "apagar" /\ calc' = calc /\ calc[r].tipo = "ranking" /\ "gravar" \in Passos /\ "esperar" \in Passos
    BY <1>9 DEF ApagarRanking, IInvMeta, PassosOK, Passos
  <2>2. (Livres(r, {Ranking}) /\ Ir(r, "gravar", {Ranking})) \/ Ir(r, "esperar", {})
    BY <1>9 DEF ApagarRanking
  <2> QED
    BY <1>1, <1>2, <1>9, <2>1, <2>2, SeguirCalculo DEF ApagarRanking, TiposDeMeta, PassosDaMeta
<1> QED
  BY <1>4, <1>5, <1>6, <1>7, <1>8, <1>9

(***************************************************************************)
(* The end of a transaction.                                               *)
(***************************************************************************)
LEMMA JuntaSeSobre ==
    ASSUME IInvMeta, NEW r \in Chamadas, NEW s \in Chamadas, r # s, calc[r].m # Nada, calc[s].m = calc[r].m
    PROVE  r \in juntas /\ s \in juntas
  BY DEF IInvMeta, JuntasMetaOK

\* A request or the job gives up: what it carries and holds is gone.
LEMMA DesfazerConserva ==
    ASSUME IInvMeta, NEW x \in Processos, Desfazer(x)
    PROVE  IInvMeta'
<1>1. UNCHANGED <<meta, acomp, alerta, operacoes, duvida>> /\ juntas' = juntas \ {x} /\ juntas' \subseteq Processos
  BY DEF Desfazer, Soltar, IInvMeta, TipoMeta
<1>2. /\ passo' \in [Processos -> Passos] /\ passo'[x] = "livre"
      /\ presas' \in [Processos -> SUBSET LinhasMeta] /\ presas'[x] = {}
      /\ \A y \in Processos \ {x} : passo'[y] = passo[y] /\ presas'[y] = presas[y]
  BY DEF Desfazer, Soltar, IInvMeta, TipoMeta, Passos
<1>3. TravasOK'
  BY <1>2 DEF IInvMeta, TravasOK
<1>4. SozinhaAcerta'
  BY <1>1 DEF IInvMeta, SozinhaAcerta
<1>5. Job \in Processos /\ (\A s \in Chamadas : s \in Processos /\ s # Job)
  BY JobNaoChamada DEF Processos
<1>6. CASE x = Job
  <2>1. job' = SemJob /\ calc' = calc
    BY <1>6 DEF Desfazer, Soltar
  <2>2. TipoMeta'
    BY <1>1, <1>2, <2>1, SemJobTipo DEF IInvMeta, TipoMeta
  <2>3. PassosOK' /\ MetaConhecida' /\ CalculoOK'
    BY <1>1, <1>2, <1>5, <1>6, <2>1 DEF IInvMeta, PassosOK, MetaConhecida, CalculoOK
  <2>4. DonosOK'
    BY <1>2, <1>5, <1>6, <2>1, SemJobTipo DEF IInvMeta, DonosOK, DonoDaMeta, LinhaDaMeta
  <2>5. JuntasMetaOK'
    BY <1>1, <1>2, <1>5, <1>6, <2>1 DEF IInvMeta, JuntasMetaOK
  <2>6. SozinhoOK'
    BY <1>1, <1>2, <1>5, <1>6, <2>1 DEF IInvMeta, SozinhoOK, AlertaFinal
  <2>7. JobOK' /\ JobSozinho'
    BY <1>1, <1>2, <1>6, <2>1, SemJobTipo DEF IInvMeta, JobOK, JobSozinho, PassosDoJob
  <2> QED
    BY <1>3, <1>4, <2>2, <2>3, <2>4, <2>5, <2>6, <2>7 DEF IInvMeta
<1>7. CASE x \in Chamadas /\ x # Job
  <2>1. /\ job' = job /\ calc' \in [Chamadas -> Calculo] /\ calc'[x] = SemCalc
        /\ \A s \in Chamadas \ {x} : calc'[s] = calc[s]
    BY <1>7, SemCalcTipo DEF Desfazer, Soltar, IInvMeta, TipoMeta
  <2>2. TipoMeta'
    BY <1>1, <1>2, <2>1 DEF IInvMeta, TipoMeta
  <2>3. PassosOK' /\ MetaConhecida' /\ CalculoOK'
    BY <1>1, <1>2, <1>5, <2>1, SemCalcTipo DEF IInvMeta, PassosOK, MetaConhecida, CalculoOK,
       TiposDeMeta, PassosDaMeta
  <2>4. DonosOK'
    BY <1>2, <1>5, <1>7, <2>1, SemCalcTipo DEF IInvMeta, DonosOK, DonoDaMeta, LinhaDaMeta
  <2>5. JuntasMetaOK'
    BY <1>1, <1>2, <1>5, <1>7, <2>1, SemCalcTipo DEF IInvMeta, JuntasMetaOK
  <2>6. SozinhoOK'
    BY <1>1, <1>2, <1>5, <1>7, <2>1, SemCalcTipo DEF IInvMeta, SozinhoOK, AlertaFinal, TiposDeMeta
  <2>7. JobOK' /\ JobSozinho'
    BY <1>1, <1>2, <1>5, <1>7, <2>1 DEF IInvMeta, JobOK, JobSozinho, StatusFinal, ValorAlerta
  <2> QED
    BY <1>3, <1>4, <2>2, <2>3, <2>4, <2>5, <2>6, <2>7 DEF IInvMeta
<1> QED
  BY <1>6, <1>7, JobNaoChamada DEF Processos

\* The commit of a request: alone, it leaves the status and the alert that its
\* risk calls for; a cancelled goal stays cancelled unless it was an edit.
LEMMA GravarMetaConserva ==
    ASSUME IInvMeta, NEW r \in Chamadas, GravarMeta(r)
    PROVE  /\ IInvMeta'
           /\ \A m \in Metas : meta[m].st = "cancelada" /\ meta'[m].st # "cancelada" =>
                 calc[r].tipo = "atualizar" /\ calc[r].m = m
<1> DEFINE c == calc[r]
           m == c.m
           st == IF c.tipo = "acompanhar" THEN meta[m].st ELSE c.st
           final == StatusPeloRisco(st, c.risco)
<1>1. /\ passo[r] = "gravar" /\ c.tipo # "ranking" /\ c \in Calculo
      /\ r \in Processos /\ r # Job /\ Job \in Processos /\ (\A s \in Chamadas : s \in Processos /\ s # Job)
  BY JobNaoChamada DEF GravarMeta, IInvMeta, TipoMeta, Processos
<1>2. /\ c.tipo \in TiposDeMeta /\ m \in Metas /\ m # Nada /\ meta[m] \in LinhaMeta
      /\ meta[m].st \in StatusMeta /\ meta[m].st # "livre"
  <2>1. c.tipo \in TiposDeMeta
    BY <1>1 DEF IInvMeta, PassosOK, Calculo, TiposDeMeta
  <2> QED
    BY <2>1, NadaNaoMeta DEF IInvMeta, MetaConhecida, TipoMeta, LinhaMeta
<1>3. /\ st \in StatusMeta /\ c.risco \in {"sim", "nao"}
      /\ c.tipo \in {"atualizar", "cancelar"} => (st \notin Ativas => c.risco = "nao")
      /\ c.tipo = "cancelar" => st = "cancelada"
  BY <1>1, <1>2 DEF IInvMeta, CalculoOK, TiposDeMeta, Calculo
<1>4. /\ final \in StatusMeta /\ (st \notin Ativas => final = st)
      /\ st \in Ativas \/ st = "suspensa" \/ c.risco = "nao" => Concorda(final, AlertaDoRisco(c.risco))
  BY <1>3, StatusRegra
<1>5. /\ meta' \in [Metas -> LinhaMeta] /\ meta'[m].st = final
      /\ \A n \in Metas \ {m} : meta'[n] = meta[n]
  <2> DEFINE q == IF c.tipo = "atualizar" THEN c.qtd ELSE meta[m].qtd
             l == [st |-> final, qtd |-> q]
  <2>1. q \in Quantidades \cup {0}
    BY <1>1, <1>2 DEF Calculo, LinhaMeta
  <2>2. l \in LinhaMeta /\ l.st = final
    BY <1>4, <2>1 DEF LinhaMeta
  <2>3. meta' = [meta EXCEPT ![m] = l]
    BY <1>2 DEF GravarMeta, IInvMeta, TipoMeta
  <2> HIDE DEF l
  <2> QED
    BY <1>2, <2>2, <2>3 DEF IInvMeta, TipoMeta
<1>6. acomp' \in [Metas -> [Datas -> Linha]]
  <2>1. CASE c.tipo = "acompanhar"
    <3> DEFINE l == [proj |-> c.base, conf |-> c.conf]
    <3>1. l \in Linha /\ c.d \in Datas
      BY <1>1, SemLinhaTipo DEF Calculo
    <3>2. acomp' = [acomp EXCEPT ![m][c.d] = l]
      BY <2>1 DEF GravarMeta
    <3> HIDE DEF l
    <3> QED
      BY <1>2, <3>1, <3>2 DEF IInvMeta, TipoMeta
  <2>2. CASE c.tipo # "acompanhar"
    BY <2>2 DEF GravarMeta, IInvMeta, TipoMeta
  <2> QED  BY <2>1, <2>2
<1>7. /\ alerta' \in [Metas -> {"aberto", "resolvido"}] /\ alerta'[m] = AlertaFinal(r)
      /\ \A n \in Metas \ {m} : alerta'[n] = alerta[n]
  BY <1>1, <1>2 DEF GravarMeta, IInvMeta, TipoMeta, AlertaFinal, Calculo
<1>8. /\ duvida' \subseteq Metas
      /\ r \in juntas => m \in duvida'
      /\ \A n \in Metas \ {m} : n \in duvida' <=> n \in duvida
  BY <1>2 DEF GravarMeta, IInvMeta, TipoMeta
<1>9. /\ passo' \in [Processos -> Passos] /\ passo'[r] = "livre"
      /\ presas' \in [Processos -> SUBSET LinhasMeta] /\ presas'[r] = {}
      /\ \A y \in Processos \ {r} : passo'[y] = passo[y] /\ presas'[y] = presas[y]
      /\ juntas' = juntas \ {r} /\ juntas' \subseteq Processos
  BY <1>1 DEF GravarMeta, Soltar, IInvMeta, TipoMeta, Passos
<1>10. /\ job' = job /\ operacoes' = operacoes
       /\ calc' \in [Chamadas -> Calculo] /\ calc'[r] = SemCalc
       /\ \A s \in Chamadas \ {r} : calc'[s] = calc[s]
  BY <1>1, SemCalcTipo DEF GravarMeta, Soltar, IInvMeta, TipoMeta
<1>11. passo[Job] # "livre" => r \in juntas /\ Job \in juntas'
  BY <1>1, <1>2, <1>9 DEF IInvMeta, JuntasMetaOK
<1>12. LinhaDaMeta(m) \in presas[r]
  BY <1>1, <1>2 DEF IInvMeta, DonosOK, DonoDaMeta, TiposDeMeta
<1>13. job.st[m] = "igual"
  BY <1>1, <1>2, <1>12 DEF IInvMeta, DonosOK, TravasOK
<1>14. meta[m].st = "cancelada" /\ c.tipo # "atualizar" => final = "cancelada"
  BY <1>2, <1>3, <1>4 DEF TiposDeMeta, Ativas
<1>15. ASSUME r \notin juntas
       PROVE  Concorda(final, alerta'[m])
  <2>1. AlertaFinal(r) = AlertaDoRisco(c.risco) /\ (c.tipo = "acompanhar" => st \in Ativas \cup {"suspensa"})
    BY <1>1, <1>2, <1>15 DEF IInvMeta, SozinhoOK
  <2> QED
    BY <1>2, <1>3, <1>4, <1>7, <2>1 DEF TiposDeMeta
<1> HIDE DEF final, st
<1>16. TipoMeta'
  BY <1>5, <1>6, <1>7, <1>8, <1>9, <1>10 DEF IInvMeta, TipoMeta
<1>17. TravasOK'
  BY <1>9 DEF IInvMeta, TravasOK
<1>18. PassosOK' /\ CalculoOK'
  BY <1>1, <1>9, <1>10, SemCalcTipo DEF IInvMeta, PassosOK, CalculoOK, TiposDeMeta, PassosDaMeta
<1>19. MetaConhecida'
  BY <1>4, <1>5, <1>10, SemCalcTipo DEF IInvMeta, MetaConhecida, TiposDeMeta, StatusMeta
<1>20. DonosOK'
  BY <1>1, <1>9, <1>10, SemCalcTipo DEF IInvMeta, DonosOK, DonoDaMeta, LinhaDaMeta
<1>21. JuntasMetaOK'
  BY <1>1, <1>9, <1>10, SemCalcTipo DEF IInvMeta, JuntasMetaOK
<1>22. SozinhoOK'
  <2> SUFFICES ASSUME NEW s \in Chamadas \ {r}, s \notin juntas, calc[s].tipo \in TiposDeMeta
               PROVE  /\ calc[s].tipo = "acompanhar" => meta'[calc[s].m].st \in Ativas \cup {"suspensa"}
                      /\ passo[s] \in {"meta", "gravar"} => AlertaFinal(s)' = AlertaDoRisco(calc[s].risco)
    BY <1>1, <1>9, <1>10, SemCalcTipo DEF SozinhoOK, TiposDeMeta, AlertaDoRisco
  <2>1. calc[s].m \in Metas \ {m}
    BY <1>2 DEF IInvMeta, JuntasMetaOK, MetaConhecida
  <2> QED
    BY <1>5, <1>7, <1>10, <2>1 DEF IInvMeta, SozinhoOK, AlertaFinal
<1>23. JobOK'
  <2>1. \A n \in Metas : meta'[n].st = "livre" => n # m
    BY <1>4, <1>5 DEF StatusMeta
  <2>2. \A n \in job.fila : n \in Metas
    BY DEF IInvMeta, TipoMeta, Trabalho
  <2>3. passo'[Job] = passo[Job]
    BY <1>1, <1>9
  <2>4. \A n \in Metas : meta[n].st # "livre" => meta'[n].st # "livre"
    BY <1>4, <1>5 DEF StatusMeta
  <2>5. \A n \in Metas : meta'[n].st = "cancelada" => job.st[n] \in {"igual", "cancelada"}
    BY <1>5, <1>13 DEF IInvMeta, JobOK
  <2>6. \A n \in Metas : meta'[n].st = "livre" => alerta'[n] = "resolvido" /\ job.st[n] = "igual" /\ job.al[n] = "igual"
    BY <1>5, <1>7, <2>1 DEF IInvMeta, JobOK
  <2> QED
    BY <1>10, <2>2, <2>3, <2>4, <2>5, <2>6 DEF IInvMeta, JobOK
<1>24. JobSozinho'
  BY <1>1, <1>9, <1>11 DEF JobSozinho
<1>25. SozinhaAcerta'
  BY <1>5, <1>7, <1>8, <1>15 DEF IInvMeta, SozinhaAcerta, Concorda
<1>26. \A n \in Metas : meta[n].st = "cancelada" /\ meta'[n].st # "cancelada" => c.tipo = "atualizar" /\ m = n
  BY <1>5, <1>14
<1> QED
  BY <1>16, <1>17, <1>18, <1>19, <1>20, <1>21, <1>22, <1>23, <1>24, <1>25, <1>26 DEF IInvMeta

\* The commit of a ranking: who waited for its rows goes on.
LEMMA GravarRankingConserva ==
    ASSUME IInvMeta, NEW r \in Chamadas, GravarRanking(r)
    PROVE  IInvMeta'
<1>1. /\ passo[r] = "gravar" /\ calc[r].tipo = "ranking" /\ r \in Processos /\ r # Job /\ Job \in Processos
      /\ (\A s \in Chamadas : s \in Processos /\ s # Job)
  BY JobNaoChamada DEF GravarRanking, Processos
<1>2. UNCHANGED <<meta, acomp, alerta, job, operacoes, duvida>> /\ juntas' = juntas \ {r} /\ juntas' \subseteq Processos
  BY DEF GravarRanking, IInvMeta, TipoMeta
<1>3. /\ passo' \in [Processos -> Passos] /\ passo'[r] = "livre"
      /\ \A y \in Processos \ {r} : passo'[y] = (IF passo[y] = "esperar" THEN "quebrar" ELSE passo[y])
  BY <1>1 DEF GravarRanking, PassosDepois, IInvMeta, TipoMeta, Passos
<1>4. /\ presas' \in [Processos -> SUBSET LinhasMeta] /\ presas'[r] = {}
      /\ \A y \in Processos \ {r} : presas'[y] = presas[y]
  BY <1>1 DEF GravarRanking, IInvMeta, TipoMeta
<1>5. /\ calc' \in [Chamadas -> Calculo] /\ calc'[r] = SemCalc
      /\ \A s \in Chamadas \ {r} : calc'[s] = calc[s]
  BY SemCalcTipo DEF GravarRanking, IInvMeta, TipoMeta
<1>6. TipoMeta'
  BY <1>2, <1>3, <1>4, <1>5 DEF IInvMeta, TipoMeta
<1>7. TravasOK'
  BY <1>4 DEF IInvMeta, TravasOK
<1>8. PassosOK'
  BY <1>1, <1>3, <1>5, SemCalcTipo DEF IInvMeta, PassosOK, TiposDeMeta, PassosDaMeta
<1>9. MetaConhecida' /\ CalculoOK'
  BY <1>1, <1>2, <1>3, <1>5, SemCalcTipo DEF IInvMeta, MetaConhecida, CalculoOK, TiposDeMeta,
     PassosDaMeta
<1>10. DonosOK'
  BY <1>1, <1>2, <1>3, <1>4, <1>5, SemCalcTipo DEF IInvMeta, DonosOK, DonoDaMeta, LinhaDaMeta
<1>11. JuntasMetaOK'
  BY <1>1, <1>2, <1>3, <1>5, SemCalcTipo DEF IInvMeta, JuntasMetaOK
<1>12. SozinhoOK'
  BY <1>1, <1>2, <1>3, <1>5, SemCalcTipo DEF IInvMeta, SozinhoOK, AlertaFinal, TiposDeMeta
<1>13. passo'[Job] = (IF passo[Job] = "esperar" THEN "quebrar" ELSE passo[Job])
  BY <1>1, <1>3
<1>14. JobOK'
  BY <1>2, <1>13 DEF IInvMeta, JobOK, PassosDoJob
<1>15. JobSozinho'
  BY <1>1, <1>2, <1>13 DEF IInvMeta, JobSozinho, PassosDoJob, StatusFinal, ValorAlerta
<1>16. SozinhaAcerta'
  BY <1>2 DEF IInvMeta, SozinhaAcerta
<1> QED
  BY <1>6, <1>7, <1>8, <1>9, <1>10, <1>11, <1>12, <1>14, <1>15, <1>16 DEF IInvMeta

(***************************************************************************)
(* The beginning of a request.                                             *)
(***************************************************************************)
LEMMA AbrirConserva ==
    ASSUME IInvMeta, NEW r \in Chamadas, NEW p \in {"acomp", "alterar", "apagar"}, NEW c \in Calculo, Abrir(r, p, c),
           c.al = "igual", c.tipo # "nenhum",
           c.tipo \in TiposDeMeta => c.m \in Metas /\ meta[c.m].st # "livre",
           c.tipo \notin TiposDeMeta => c.m = Nada,
           p \in {"acomp", "alterar"} => c.tipo \in TiposDeMeta,
           p = "acomp" <=> c.tipo = "acompanhar", p = "apagar" => c.tipo = "ranking",
           c.tipo = "acompanhar" => meta[c.m].st \in Ativas \cup {"suspensa"},
           c.tipo = "cancelar" => c.st = "cancelada"
    PROVE  IInvMeta'
<1>1. /\ passo[r] = "livre" /\ r \in Processos /\ r # Job /\ Job \in Processos
      /\ (\A s \in Chamadas : s \in Processos /\ s # Job)
  BY JobNaoChamada DEF Abrir, Processos
<1>2. UNCHANGED <<meta, acomp, alerta, presas, job, duvida>> /\ operacoes' \in 0 .. MaxOperacoes
  <2>1. operacoes < MaxOperacoes /\ operacoes' = operacoes + 1
    BY DEF Abrir
  <2>2. operacoes' \in 0 .. MaxOperacoes
    BY <2>1, MetaOperacoesNaturais DEF IInvMeta, TipoMeta
  <2> QED
    BY <2>2 DEF Abrir
<1>3. /\ passo' \in [Processos -> Passos] /\ passo'[r] = p
      /\ \A y \in Processos \ {r} : passo'[y] = passo[y]
  BY <1>1 DEF Abrir, IInvMeta, TipoMeta, Passos
<1>4. /\ calc' \in [Chamadas -> Calculo] /\ calc'[r] = c
      /\ \A s \in Chamadas \ {r} : calc'[s] = calc[s]
  BY DEF Abrir, IInvMeta, TipoMeta
<1>5. Sobre(c.m) \in SUBSET Processos
  BY DEF Sobre
<1>6. juntas \subseteq juntas' /\ juntas' \subseteq Processos
  BY <1>1, <1>5 DEF Abrir, IInvMeta, TipoMeta
<1>7. c.m # Nada => /\ Sobre(c.m) \subseteq juntas'
                    /\ Sobre(c.m) # {} => r \in juntas'
  BY DEF Abrir
<1>8. TipoMeta'
  BY <1>2, <1>3, <1>4, <1>6 DEF IInvMeta, TipoMeta
<1>9. TravasOK'
  BY <1>2 DEF IInvMeta, TravasOK
<1>10. PassosOK'
  BY <1>1, <1>3, <1>4 DEF IInvMeta, PassosOK, PassosDaMeta, TiposDeMeta
<1>11. MetaConhecida' /\ CalculoOK'
  BY <1>1, <1>2, <1>3, <1>4 DEF IInvMeta, MetaConhecida, CalculoOK
<1>12. DonosOK'
  BY <1>1, <1>2, <1>3, <1>4 DEF IInvMeta, DonosOK, DonoDaMeta, LinhaDaMeta
<1>13. JuntasMetaOK'
  <2>1. ASSUME NEW s \in Chamadas \ {r}, calc[s].m = c.m, c.m # Nada
        PROVE  s \in juntas' /\ r \in juntas'
    <3>1. passo[s] # "livre"
      BY <2>1, NadaNaoMeta DEF IInvMeta, PassosOK, MetaConhecida, TiposDeMeta
    <3>2. s \in Sobre(c.m)
      BY <1>1, <2>1, <3>1 DEF Sobre
    <3> QED
      BY <1>7, <2>1, <3>2
  <2>2. ASSUME passo[Job] # "livre", c.m # Nada
        PROVE  Job \in juntas' /\ r \in juntas'
    <3>1. Job \in Sobre(c.m)
      BY <1>1, <2>2 DEF Sobre
    <3> QED
      BY <1>7, <2>2, <3>1
  <2>3. passo'[Job] = passo[Job]
    BY <1>1, <1>3
  <2> QED
    BY <1>4, <1>6, <2>1, <2>2, <2>3 DEF IInvMeta, JuntasMetaOK
<1>14. SozinhoOK'
  BY <1>1, <1>2, <1>3, <1>4, <1>6 DEF IInvMeta, SozinhoOK, AlertaFinal
<1>15. JobOK' /\ JobSozinho'
  <2>1. passo'[Job] = passo[Job]
    BY <1>1, <1>3
  <2> QED
    BY <1>1, <1>2, <1>6, <2>1 DEF IInvMeta, JobOK, JobSozinho, StatusFinal, ValorAlerta
<1>16. SozinhaAcerta'
  BY <1>2 DEF IInvMeta, SozinhaAcerta
<1> QED
  BY <1>8, <1>9, <1>10, <1>11, <1>12, <1>13, <1>14, <1>15, <1>16 DEF IInvMeta

LEMMA PedirConserva ==
    ASSUME IInvMeta, TipoVoto, NEW r \in Chamadas, Pedir(r)
    PROVE  IInvMeta'
<1>1. ASSUME NEW m \in Metas, NEW d \in Datas, Acompanhar(r, m, d) PROVE IInvMeta'
  <2> DEFINE c == [SemCalc EXCEPT !.tipo = "acompanhar", !.m = m, !.d = d, !.base = Base,
                      !.conf = Confirmados, !.risco = Risco(Base, meta[m].qtd)]
  <2>1. /\ c \in Calculo /\ c.tipo = "acompanhar" /\ c.m = m /\ c.al = "igual"
    BY BaseTipo, RiscoTipo, ContagemNatural, MetasNaturais DEF SemCalc, Calculo
  <2>2. meta[m].st \in Ativas \cup {"suspensa"} /\ meta[m].st # "livre" /\ Abrir(r, "acomp", c)
    BY <1>1 DEF Acompanhar, IInvMeta, TipoMeta, LinhaMeta, StatusMeta, Ativas
  <2> HIDE DEF c
  <2> QED
    BY <2>1, <2>2, AbrirConserva DEF TiposDeMeta
<1>2. ASSUME NEW m \in Metas, NEW st \in StatusPedidos \cup {"igual"}, NEW q \in Quantidades \cup {0},
             Atualizar(r, m, st, q)
      PROVE  IInvMeta'
  <2> DEFINE c == [SemCalc EXCEPT !.tipo = "atualizar", !.m = m, !.st = st, !.qtd = q]
  <2>1. /\ c \in Calculo /\ c.tipo = "atualizar" /\ c.m = m /\ c.al = "igual"
    BY ContagemNatural, MetasNaturais, StatusDeMeta DEF SemCalc, Calculo, StatusMeta
  <2>2. meta[m].st # "livre" /\ Abrir(r, "alterar", c)
    BY <1>2 DEF Atualizar
  <2> HIDE DEF c
  <2> QED
    BY <2>1, <2>2, AbrirConserva DEF TiposDeMeta
<1>3. ASSUME NEW m \in Metas, Cancelar(r, m) PROVE IInvMeta'
  <2> DEFINE c == [SemCalc EXCEPT !.tipo = "cancelar", !.m = m, !.st = "cancelada"]
  <2>1. /\ c \in Calculo /\ c.tipo = "cancelar" /\ c.m = m /\ c.al = "igual" /\ c.st = "cancelada"
    BY ContagemNatural, MetasNaturais DEF SemCalc, Calculo, StatusMeta
  <2>2. meta[m].st # "livre" /\ Abrir(r, "alterar", c)
    BY <1>3 DEF Cancelar
  <2> HIDE DEF c
  <2> QED
    BY <2>1, <2>2, AbrirConserva DEF TiposDeMeta
<1>4. ASSUME Classificar(r) PROVE IInvMeta'
  <2> DEFINE c == [SemCalc EXCEPT !.tipo = "ranking"]
  <2>1. /\ c \in Calculo /\ c.tipo = "ranking" /\ c.m = Nada /\ c.al = "igual"
    BY ContagemNatural, MetasNaturais DEF SemCalc, Calculo
  <2>2. Abrir(r, "apagar", c)
    BY <1>4 DEF Classificar
  <2> HIDE DEF c
  <2> QED
    BY <2>1, <2>2, AbrirConserva DEF TiposDeMeta
<1> QED
  BY <1>1, <1>2, <1>3, <1>4 DEF Pedir

\* A new goal: its risk, its status and its alert are of one commit.
LEMMA CriarConserva ==
    ASSUME IInvMeta, TipoVoto, NEW m \in Metas, NEW q \in Quantidades, CriarMeta(m, q)
    PROVE  IInvMeta'
<1> DEFINE risco == Risco(Base, q)
           final == StatusPeloRisco("ativa", risco)
<1>1. /\ risco \in {"sim", "nao"} /\ final \in StatusMeta /\ final # "livre" /\ final # "cancelada"
      /\ final \in Ativas /\ Concorda(final, AlertaDoRisco(risco))
  BY RiscoTipo, StatusRegra DEF StatusMeta, Ativas, StatusPeloRisco
<1>2. UNCHANGED <<passo, presas, juntas, calc, job, duvida>> /\ operacoes' \in 0 .. MaxOperacoes /\ meta[m].st = "livre"
  <2>1. operacoes < MaxOperacoes /\ operacoes' = operacoes + 1
    BY DEF CriarMeta
  <2>2. operacoes' \in 0 .. MaxOperacoes
    BY <2>1, MetaOperacoesNaturais DEF IInvMeta, TipoMeta
  <2> QED
    BY <2>2 DEF CriarMeta
<1>3. meta' \in [Metas -> LinhaMeta] /\ meta'[m].st = final /\ (\A n \in Metas \ {m} : meta'[n] = meta[n])
  <2> DEFINE l == [st |-> final, qtd |-> q]
  <2>1. l \in LinhaMeta /\ l.st = final
    BY <1>1 DEF LinhaMeta
  <2>2. meta' = [meta EXCEPT ![m] = l]
    BY DEF CriarMeta
  <2> HIDE DEF l
  <2> QED
    BY <2>1, <2>2 DEF IInvMeta, TipoMeta
<1>4. acomp' \in [Metas -> [Datas -> Linha]]
  <2> DEFINE l == [proj |-> Base, conf |-> Confirmados]
  <2>1. l \in Linha
    BY BaseTipo, SemLinhaTipo
  <2>2. acomp' = [acomp EXCEPT ![m][Hoje] = l]
    BY DEF CriarMeta
  <2> HIDE DEF l
  <2> QED
    BY <2>1, <2>2, MetasNaturais DEF IInvMeta, TipoMeta
<1>5. /\ alerta' \in [Metas -> {"aberto", "resolvido"}] /\ alerta'[m] = AlertaDoRisco(risco)
      /\ \A n \in Metas \ {m} : alerta'[n] = alerta[n]
  BY DEF CriarMeta, IInvMeta, TipoMeta, AlertaDoRisco
<1> HIDE DEF final, risco
<1>6. TipoMeta'
  BY <1>2, <1>3, <1>4, <1>5 DEF IInvMeta, TipoMeta
<1>7. PassosOK' /\ CalculoOK' /\ TravasOK' /\ DonosOK' /\ JuntasMetaOK'
  BY <1>2 DEF IInvMeta, PassosOK, CalculoOK, TravasOK, DonosOK, DonoDaMeta, JuntasMetaOK, LinhaDaMeta
<1>8. MetaConhecida'
  BY <1>1, <1>2, <1>3 DEF IInvMeta, MetaConhecida
<1>9. SozinhoOK'
  <2> SUFFICES ASSUME NEW s \in Chamadas \ juntas, calc[s].tipo \in TiposDeMeta
               PROVE  /\ calc[s].tipo = "acompanhar" => meta'[calc[s].m].st \in Ativas \cup {"suspensa"}
                      /\ passo[s] \in {"meta", "gravar"} => AlertaFinal(s)' = AlertaDoRisco(calc[s].risco)
    BY <1>2 DEF SozinhoOK, AlertaDoRisco
  <2>1. calc[s].m \in Metas \ {m}
    BY <1>2 DEF IInvMeta, MetaConhecida
  <2> QED
    BY <1>2, <1>3, <1>5, <2>1 DEF IInvMeta, SozinhoOK, AlertaFinal
<1>10. JobOK'
  <2>1. job.fila \subseteq Metas /\ m \notin job.fila /\ (passo[Job] \in PassosDoJob => m # job.m)
    BY <1>2 DEF IInvMeta, TipoMeta, Trabalho, JobOK
  <2> QED
    BY <1>1, <1>2, <1>3, <1>5, <2>1 DEF IInvMeta, JobOK
<1>11. JobSozinho'
  <2> SUFFICES ASSUME passo[Job] # "livre", Job \notin juntas, NEW n \in Metas
               PROVE  /\ n \in job.fila => meta'[n].st \in Ativas
                      /\ n = job.m /\ passo[Job] \in {"acomp", "meta"} => meta'[n].st \in Ativas
                      /\ n = job.m /\ passo[Job] = "alerta" =>
                            job.st[n] = (IF job.risco = "sim" THEN "em_risco" ELSE "ativa")
                      /\ passo[Job] = "resolver" /\ n \notin job.fila /\ meta'[n].st \in Ativas =>
                            Concorda(meta'[n].st, alerta'[n])
                      /\ passo[Job] # "resolver" /\ n \notin job.fila /\ ~(n = job.m /\ passo[Job] \in PassosDoJob) =>
                            Concorda(StatusFinal(n)', ValorAlerta(n)')
    BY <1>2 DEF JobSozinho, Concorda
  <2>1. CASE n = m
    <3>1. /\ m \notin job.fila /\ (passo[Job] \in PassosDoJob => m # job.m)
          /\ job.st[m] = "igual" /\ job.al[m] = "igual"
      BY <1>2 DEF IInvMeta, JobOK
    <3>2. Concorda(meta'[m].st, alerta'[m])
      BY <1>1, <1>3, <1>5
    <3>3. StatusFinal(m)' = meta'[m].st /\ ValorAlerta(m)' = alerta'[m]
      BY <1>2, <3>1 DEF StatusFinal, ValorAlerta
    <3> QED
      BY <2>1, <3>1, <3>2, <3>3 DEF PassosDoJob
  <2>2. CASE n # m
    <3>1. meta'[n] = meta[n] /\ alerta'[n] = alerta[n]
      BY <1>3, <1>5, <2>2
    <3>2. StatusFinal(n)' = StatusFinal(n) /\ ValorAlerta(n)' = ValorAlerta(n)
      BY <1>2, <3>1 DEF StatusFinal, ValorAlerta
    <3> QED
      BY <3>1, <3>2 DEF IInvMeta, JobSozinho
  <2> QED
    BY <2>1, <2>2
<1>12. SozinhaAcerta'
  BY <1>1, <1>2, <1>3, <1>5 DEF IInvMeta, SozinhaAcerta, Concorda
<1> QED
  BY <1>6, <1>7, <1>8, <1>9, <1>10, <1>11, <1>12 DEF IInvMeta

(***************************************************************************)
(* The job.                                                                *)
(***************************************************************************)
\* It goes on: only its own step, its rows and what it carries change.
LEMMA SeguirJob ==
    ASSUME IInvMeta, NEW p \in Passos \ {"livre", "ler", "alterar"}, NEW L \in SUBSET LinhasMeta, NEW j \in Trabalho,
           Livres(Job, L), Ir(Job, p, L), job' = j,
           UNCHANGED <<meta, acomp, alerta, juntas, calc, operacoes, duvida>>,
           passo[Job] # "livre",
           \A m \in Metas : j.st[m] # "igual" => j.st[m] = job.st[m] \/ LinhaDaMeta(m) \in presas[Job] \cup L,
           p \in PassosDoJob => j.m \in Metas \ j.fila /\ meta[j.m].st # "livre",
           p \in {"apagar", "esperar", "quebrar", "gravar"} => j.fila = {},
           j.fila \subseteq job.fila,
           p = "resolver" => \A m \in Metas : j.st[m] = "igual" /\ j.al[m] = "igual",
           \A m \in Metas : meta[m].st = "livre" => j.st[m] = "igual" /\ j.al[m] = "igual",
           \A m \in Metas : meta[m].st = "cancelada" => j.st[m] \in {"igual", "cancelada"},
           JobSozinho'
    PROVE  IInvMeta'
<1>1. Job \in Processos /\ (\A s \in Chamadas : s \in Processos \ {Job})
  BY JobNaoChamada DEF Processos
<1>2. /\ passo' \in [Processos -> Passos] /\ presas' \in [Processos -> SUBSET LinhasMeta]
      /\ passo'[Job] = p /\ presas'[Job] = presas[Job] \cup L
      /\ \A y \in Processos \ {Job} : passo'[y] = passo[y] /\ presas'[y] = presas[y]
      /\ TravasOK'
  BY <1>1, IrConhecido DEF IInvMeta
<1>3. TipoMeta'
  BY <1>2 DEF IInvMeta, TipoMeta
<1>4. PassosOK' /\ MetaConhecida' /\ CalculoOK'
  BY <1>1, <1>2 DEF IInvMeta, PassosOK, MetaConhecida, CalculoOK
<1>5. DonosOK'
  BY <1>1, <1>2 DEF IInvMeta, DonosOK, DonoDaMeta, LinhaDaMeta
<1>6. JuntasMetaOK'
  BY <1>2 DEF IInvMeta, JuntasMetaOK
<1>7. SozinhoOK'
  BY <1>1, <1>2 DEF IInvMeta, SozinhoOK, AlertaFinal
<1>8. JobOK'
  BY <1>2 DEF IInvMeta, JobOK
<1>9. SozinhaAcerta'
  BY DEF IInvMeta, SozinhaAcerta
<1> QED
  BY <1>2, <1>3, <1>4, <1>5, <1>6, <1>7, <1>8, <1>9 DEF IInvMeta

LEMMA UltimoDiaTipo ==
    ASSUME TipoMeta, NEW m \in Metas, UltimoDia(m) # {}
    PROVE  acomp[m][CHOOSE d \in UltimoDia(m) : TRUE] \in Linha
<1>1. (CHOOSE d \in UltimoDia(m) : TRUE) \in UltimoDia(m)
  OBVIOUS
<1>2. UltimoDia(m) \subseteq Datas
  BY DEF UltimoDia
<1> QED
  BY <1>1, <1>2 DEF TipoMeta

\* One field of what the job carries changes.
LEMMA TrabalhoMuda ==
    ASSUME NEW j \in Trabalho
    PROVE  /\ \A f \in [Metas -> {"igual", "aberto", "resolvido"}] :
                 /\ [j EXCEPT !.al = f] \in Trabalho /\ [j EXCEPT !.al = f].al = f
                 /\ [j EXCEPT !.al = f].fila = j.fila /\ [j EXCEPT !.al = f].m = j.m
                 /\ [j EXCEPT !.al = f].st = j.st /\ [j EXCEPT !.al = f].risco = j.risco
           /\ \A f \in [Metas -> StatusMeta \cup {"igual"}] :
                 /\ [j EXCEPT !.st = f] \in Trabalho /\ [j EXCEPT !.st = f].st = f
                 /\ [j EXCEPT !.st = f].fila = j.fila /\ [j EXCEPT !.st = f].m = j.m
                 /\ [j EXCEPT !.st = f].al = j.al /\ [j EXCEPT !.st = f].risco = j.risco
           /\ \A f \in [Metas -> Linha] :
                 /\ [j EXCEPT !.ac = f] \in Trabalho
                 /\ [j EXCEPT !.ac = f].fila = j.fila /\ [j EXCEPT !.ac = f].m = j.m
                 /\ [j EXCEPT !.ac = f].st = j.st /\ [j EXCEPT !.ac = f].al = j.al
                 /\ [j EXCEPT !.ac = f].risco = j.risco
  BY DEF Trabalho

LEMMA JobResolverConserva ==
    ASSUME IInvMeta, JobResolver
    PROVE  IInvMeta'
<1> DEFINE f == [m \in Metas |-> IF m \in AlertasParados THEN "resolvido" ELSE "igual"]
           j == [job EXCEPT !.al = f]
<1>1. /\ passo[Job] = "resolver" /\ Livres(Job, Quer(Job)) /\ Ir(Job, "proxima", Quer(Job)) /\ job' = j
      /\ "proxima" \in Passos
      /\ UNCHANGED <<meta, acomp, alerta, juntas, calc, operacoes, duvida>>
      /\ Quer(Job) \in SUBSET LinhasMeta
  BY QuerTipo DEF JobResolver, Passos, Processos
<1>2. job \in Trabalho /\ f \in [Metas -> {"igual", "aberto", "resolvido"}]
  BY DEF IInvMeta, TipoMeta
<1>3. j \in Trabalho /\ j.al = f /\ j.fila = job.fila /\ j.m = job.m /\ j.st = job.st /\ j.risco = job.risco
  BY <1>2, TrabalhoMuda
<1>4. \A m \in Metas : f[m] = (IF meta[m].st \notin Ativas /\ alerta[m] = "aberto" THEN "resolvido" ELSE "igual")
  BY DEF AlertasParados
<1> HIDE DEF j, f
<1>5. \A m \in Metas : job.st[m] = "igual" /\ job.al[m] = "igual"
  BY <1>1 DEF IInvMeta, JobOK
<1>6. passo'[Job] = "proxima"
  BY <1>1 DEF Ir, IInvMeta, TipoMeta, Processos
<1>7. \A m \in Metas : meta[m].st = "livre" => f[m] = "igual"
  BY <1>4 DEF IInvMeta, JobOK
<1>8. JobSozinho'
  <2> SUFFICES ASSUME Job \notin juntas, NEW m \in Metas
               PROVE  /\ m \in job.fila => meta[m].st \in Ativas
                      /\ m \notin job.fila => Concorda(meta[m].st, IF f[m] = "igual" THEN alerta[m] ELSE f[m])
    BY <1>1, <1>3, <1>5, <1>6 DEF JobSozinho, StatusFinal, ValorAlerta, Concorda, PassosDoJob
  <2>1. m \in job.fila => meta[m].st \in Ativas
    BY <1>1 DEF IInvMeta, JobSozinho
  <2>2. m \notin job.fila /\ meta[m].st \in Ativas => Concorda(meta[m].st, alerta[m]) /\ f[m] = "igual"
    BY <1>1, <1>4 DEF IInvMeta, JobSozinho
  <2>3. meta[m].st \notin Ativas => Concorda(meta[m].st, IF f[m] = "igual" THEN alerta[m] ELSE f[m])
    BY <1>4 DEF Concorda, Ativas
  <2> QED
    BY <2>1, <2>2, <2>3
<1> QED
  BY <1>1, <1>3, <1>5, <1>7, <1>8, SeguirJob DEF PassosDoJob

LEMMA JobContarConserva ==
    ASSUME IInvMeta, JobContar
    PROVE  IInvMeta'
<1>1. PICK m \in job.fila :
        LET recente == IF UltimoDia(m) = {} THEN SemLinha ELSE acomp[m][CHOOSE d \in UltimoDia(m) : TRUE]
            atual == CASE recente.conf # Nulo -> recente.conf
                       [] recente.conf = Nulo /\ recente.proj # Nulo -> recente.proj
                       [] OTHER -> Cardinality(Pessoas)
            leva == IF recente.conf # Nulo THEN [proj |-> Nulo, conf |-> recente.conf]
                    ELSE [proj |-> atual, conf |-> Nulo]
        IN
        /\ passo[Job] = "proxima"
        /\ job' = [job EXCEPT !.fila = @ \ {m}, !.m = m, !.base = Cardinality(Pessoas), !.leva = leva,
                              !.risco = Risco(atual, job.qtd[m])]
        /\ Ir(Job, "acomp", {})
        /\ UNCHANGED <<meta, acomp, alerta, juntas, calc, operacoes, duvida>>
  BY DEF JobContar
<1> DEFINE recente == IF UltimoDia(m) = {} THEN SemLinha ELSE acomp[m][CHOOSE d \in UltimoDia(m) : TRUE]
           atual == CASE recente.conf # Nulo -> recente.conf
                      [] recente.conf = Nulo /\ recente.proj # Nulo -> recente.proj
                      [] OTHER -> Cardinality(Pessoas)
           leva == IF recente.conf # Nulo THEN [proj |-> Nulo, conf |-> recente.conf]
                   ELSE [proj |-> atual, conf |-> Nulo]
           risco == Risco(atual, job.qtd[m])
           resto == job.fila \ {m}
           j == [job EXCEPT !.fila = resto, !.m = m, !.base = Cardinality(Pessoas), !.leva = leva, !.risco = risco]
<1>2. job \in Trabalho /\ m \in Metas /\ job.fila \in SUBSET Metas
  BY DEF IInvMeta, TipoMeta, Trabalho
<1>3. recente \in Linha
  BY <1>2, UltimoDiaTipo, SemLinhaTipo DEF IInvMeta
<1>4. atual \in Contagem /\ Cardinality(Pessoas) \in Contagem
  BY <1>3, ContarTipo DEF Linha
<1>5. leva \in Linha /\ risco \in {"sim", "nao"}
  BY <1>3, <1>4, RiscoTipo DEF Linha
<1>6. job' = j /\ passo[Job] = "proxima" /\ Ir(Job, "acomp", {})
      /\ UNCHANGED <<meta, acomp, alerta, juntas, calc, operacoes, duvida>>
  BY <1>1
<1> HIDE DEF leva, risco, atual, recente
<1>7. /\ j \in Trabalho /\ j.fila = resto /\ j.m = m /\ j.st = job.st /\ j.al = job.al /\ j.risco = risco
  <2> HIDE DEF resto
  <2>1. resto \in SUBSET Metas
    BY <1>2 DEF resto
  <2> QED
    BY <1>2, <1>4, <1>5, <2>1 DEF Trabalho
<1> HIDE DEF j
<1>8. passo'[Job] = "acomp"
  BY <1>6 DEF Ir, IInvMeta, TipoMeta, Processos
<1>9. meta[m].st # "livre" /\ "acomp" \in Passos /\ {} \in SUBSET LinhasMeta /\ Livres(Job, {})
  BY LivresNada DEF IInvMeta, JobOK, Passos, Processos
<1>10. JobSozinho'
  <2> SUFFICES ASSUME Job \notin juntas, NEW n \in Metas
               PROVE  /\ n \in resto => meta[n].st \in Ativas
                      /\ n = m => meta[n].st \in Ativas
                      /\ n \notin resto /\ n # m => Concorda(StatusFinal(n), ValorAlerta(n))
    BY <1>6, <1>7, <1>8 DEF JobSozinho, StatusFinal, ValorAlerta, Concorda, PassosDoJob
  <2> QED
    BY <1>6 DEF IInvMeta, JobSozinho, PassosDoJob
<1>11. \A n \in Metas : /\ meta[n].st = "livre" => job.st[n] = "igual" /\ job.al[n] = "igual"
                        /\ meta[n].st = "cancelada" => job.st[n] \in {"igual", "cancelada"}
  BY DEF IInvMeta, JobOK
<1> QED
  BY <1>2, <1>6, <1>7, <1>9, <1>10, <1>11, SeguirJob DEF PassosDoJob

LEMMA JobAcompConserva ==
    ASSUME IInvMeta, JobAcomp
    PROVE  IInvMeta'
<1> DEFINE m == job.m
           f == [job.ac EXCEPT ![m] = IF acomp[m][Hoje] = SemLinha THEN job.leva ELSE acomp[m][Hoje]]
           j == [job EXCEPT !.ac = f]
<1>1. /\ passo[Job] = "acomp" /\ Livres(Job, Quer(Job)) /\ Ir(Job, "meta", Quer(Job)) /\ job' = j
      /\ "meta" \in Passos
      /\ UNCHANGED <<meta, acomp, alerta, juntas, calc, operacoes, duvida>>
      /\ Quer(Job) \in SUBSET LinhasMeta
  BY QuerTipo DEF JobAcomp, Passos, Processos
<1>2. job \in Trabalho /\ m \in Metas \ job.fila /\ meta[m].st # "livre"
  BY <1>1 DEF IInvMeta, TipoMeta, JobOK, PassosDoJob
<1>3. f \in [Metas -> Linha]
  <2> DEFINE v == IF acomp[m][Hoje] = SemLinha THEN job.leva ELSE acomp[m][Hoje]
  <2>1. v \in Linha /\ job.ac \in [Metas -> Linha]
    BY <1>2, MetasNaturais DEF IInvMeta, TipoMeta, Trabalho
  <2> HIDE DEF v
  <2> QED
    BY <1>2, <2>1 DEF v
<1>4. j \in Trabalho /\ j.al = job.al /\ j.fila = job.fila /\ j.m = m /\ j.st = job.st /\ j.risco = job.risco
  BY <1>2, <1>3, TrabalhoMuda
<1> HIDE DEF j, f
<1>5. passo'[Job] = "meta"
  BY <1>1 DEF Ir, IInvMeta, TipoMeta, Processos
<1>6. JobSozinho'
  BY <1>1, <1>4, <1>5 DEF IInvMeta, JobSozinho, StatusFinal, ValorAlerta, PassosDoJob
<1>7. \A n \in Metas : /\ meta[n].st = "livre" => job.st[n] = "igual" /\ job.al[n] = "igual"
                       /\ meta[n].st = "cancelada" => job.st[n] \in {"igual", "cancelada"}
  BY DEF IInvMeta, JobOK
<1> QED
  BY <1>1, <1>2, <1>4, <1>6, <1>7, SeguirJob DEF PassosDoJob

LEMMA JobMetaConserva ==
    ASSUME IInvMeta, JobMeta
    PROVE  IInvMeta'
<1> DEFINE m == job.m
           novo == StatusPeloRisco(meta[m].st, job.risco)
           f == [job.st EXCEPT ![m] = novo]
           j == [job EXCEPT !.st = f]
<1>1. /\ passo[Job] = "meta" /\ Livres(Job, Quer(Job)) /\ Ir(Job, "alerta", Quer(Job)) /\ job' = j
      /\ "alerta" \in Passos
      /\ UNCHANGED <<meta, acomp, alerta, juntas, calc, operacoes, duvida>>
      /\ Quer(Job) \in SUBSET LinhasMeta
  BY QuerTipo DEF JobMeta, Passos, Processos
<1>2. job \in Trabalho /\ m \in Metas \ job.fila /\ meta[m].st # "livre"
  BY <1>1 DEF IInvMeta, TipoMeta, JobOK, PassosDoJob
<1>3. /\ meta[m].st \in StatusMeta /\ job.risco \in {"sim", "nao"}
      /\ novo \in StatusMeta /\ (meta[m].st \notin Ativas => novo = meta[m].st)
      /\ meta[m].st \in Ativas => novo = (IF job.risco = "sim" THEN "em_risco" ELSE "ativa")
  <2>1. meta[m].st \in StatusMeta /\ job.risco \in {"sim", "nao"}
    BY <1>2 DEF IInvMeta, TipoMeta, LinhaMeta, Trabalho
  <2> QED
    BY <2>1, StatusRegra
<1>4. job.st \in [Metas -> StatusMeta \cup {"igual"}]
  BY <1>2 DEF Trabalho
<1>5. f \in [Metas -> StatusMeta \cup {"igual"}] /\ f[m] = novo /\ (\A n \in Metas \ {m} : f[n] = job.st[n])
  BY <1>2, <1>3, <1>4
<1>6. j \in Trabalho /\ j.al = job.al /\ j.fila = job.fila /\ j.m = m /\ j.st = f /\ j.risco = job.risco
  <2> HIDE DEF f
  <2> QED  BY <1>2, <1>5, TrabalhoMuda
<1>7. LinhaDaMeta(m) \in Quer(Job)
  BY <1>1 DEF Quer
<1> HIDE DEF j, f, novo
<1>8. passo'[Job] = "alerta"
  BY <1>1 DEF Ir, IInvMeta, TipoMeta, Processos
<1>9. JobSozinho'
  <2> SUFFICES ASSUME Job \notin juntas, NEW n \in Metas
               PROVE  /\ n \in job.fila => meta[n].st \in Ativas
                      /\ n = m => f[n] = (IF job.risco = "sim" THEN "em_risco" ELSE "ativa")
                      /\ n \notin job.fila /\ n # m =>
                            Concorda(IF f[n] = "igual" THEN meta[n].st ELSE f[n], ValorAlerta(n))
    BY <1>1, <1>6, <1>8 DEF JobSozinho, StatusFinal, ValorAlerta, Concorda, PassosDoJob
  <2>1. /\ n \in job.fila => meta[n].st \in Ativas
        /\ n = m => meta[n].st \in Ativas
        /\ n \notin job.fila /\ n # m => Concorda(StatusFinal(n), ValorAlerta(n))
    BY <1>1 DEF IInvMeta, JobSozinho
  <2> QED
    BY <1>3, <1>5, <2>1 DEF StatusFinal
<1>10. \A n \in Metas : /\ meta[n].st = "livre" => f[n] = "igual" /\ job.al[n] = "igual"
                        /\ meta[n].st = "cancelada" => f[n] \in {"igual", "cancelada"}
  BY <1>2, <1>3, <1>5 DEF IInvMeta, JobOK, Ativas
<1>11. \A n \in Metas : f[n] # "igual" => f[n] = job.st[n] \/ LinhaDaMeta(n) \in presas[Job] \cup Quer(Job)
  BY <1>5, <1>7
<1> QED
  BY <1>1, <1>2, <1>6, <1>9, <1>10, <1>11, SeguirJob DEF PassosDoJob

LEMMA JobAlertaConserva ==
    ASSUME IInvMeta, JobAlerta
    PROVE  IInvMeta'
<1> DEFINE m == job.m
           muda == CASE job.risco = "sim" -> "aberto"
                     [] job.risco = "nao" /\ ValorAlerta(m) = "aberto" -> "resolvido"
                     [] OTHER -> job.al[m]
           f == [job.al EXCEPT ![m] = muda]
           j == [job EXCEPT !.al = f]
<1>1. /\ passo[Job] = "alerta" /\ Livres(Job, Quer(Job)) /\ Ir(Job, "proxima", Quer(Job)) /\ job' = j
      /\ "proxima" \in Passos
      /\ UNCHANGED <<meta, acomp, alerta, juntas, calc, operacoes, duvida>>
      /\ Quer(Job) \in SUBSET LinhasMeta
  BY QuerTipo DEF JobAlerta, Passos, Processos
<1>2. /\ job \in Trabalho /\ m \in Metas \ job.fila /\ meta[m].st # "livre" /\ job.risco \in {"sim", "nao"}
      /\ job.al \in [Metas -> {"igual", "aberto", "resolvido"}] /\ alerta[m] \in {"aberto", "resolvido"}
  BY <1>1 DEF IInvMeta, TipoMeta, JobOK, PassosDoJob, Trabalho
<1>3. /\ muda \in {"igual", "aberto", "resolvido"}
      /\ (IF muda = "igual" THEN alerta[m] ELSE muda) = AlertaDoRisco(job.risco)
  BY <1>2 DEF ValorAlerta, AlertaDoRisco
<1>4. f \in [Metas -> {"igual", "aberto", "resolvido"}] /\ f[m] = muda /\ (\A n \in Metas \ {m} : f[n] = job.al[n])
  BY <1>2, <1>3
<1>5. j \in Trabalho /\ j.al = f /\ j.fila = job.fila /\ j.m = m /\ j.st = job.st /\ j.risco = job.risco
  BY <1>2, <1>4, TrabalhoMuda
<1> HIDE DEF j, f, muda
<1>6. passo'[Job] = "proxima"
  BY <1>1 DEF Ir, IInvMeta, TipoMeta, Processos
<1>7. JobSozinho'
  <2> SUFFICES ASSUME Job \notin juntas, NEW n \in Metas
               PROVE  /\ n \in job.fila => meta[n].st \in Ativas
                      /\ n \notin job.fila =>
                            Concorda(StatusFinal(n), IF f[n] = "igual" THEN alerta[n] ELSE f[n])
    BY <1>1, <1>5, <1>6 DEF JobSozinho, StatusFinal, ValorAlerta, Concorda, PassosDoJob
  <2>1. /\ n \in job.fila => meta[n].st \in Ativas
        /\ n = m => job.st[n] = (IF job.risco = "sim" THEN "em_risco" ELSE "ativa")
        /\ n \notin job.fila /\ n # m => Concorda(StatusFinal(n), ValorAlerta(n))
    BY <1>1 DEF IInvMeta, JobSozinho
  <2>2. CASE n = m
    BY <1>2, <1>3, <1>4, <2>1, <2>2 DEF StatusFinal, Concorda, AlertaDoRisco
  <2>3. CASE n # m
    BY <1>4, <2>1, <2>3 DEF ValorAlerta
  <2> QED
    BY <2>2, <2>3
<1>8. \A n \in Metas : /\ meta[n].st = "livre" => job.st[n] = "igual" /\ f[n] = "igual"
                       /\ meta[n].st = "cancelada" => job.st[n] \in {"igual", "cancelada"}
  BY <1>2, <1>4 DEF IInvMeta, JobOK
<1> QED
  BY <1>1, <1>5, <1>7, <1>8, SeguirJob DEF PassosDoJob

\* The statements about the ranking.
LEMMA JobRankingConserva ==
    ASSUME IInvMeta, JobRanking \/ ApagarRanking(Job)
    PROVE  IInvMeta'
<1>1. /\ job \in Trabalho /\ job' = job /\ job.fila = {}
      /\ UNCHANGED <<meta, acomp, alerta, juntas, calc, operacoes, duvida>>
      /\ passo[Job] \in {"proxima", "apagar"}
  BY DEF JobRanking, ApagarRanking, IInvMeta, TipoMeta, JobOK
<1>2. PICK p \in {"apagar", "gravar", "esperar"}, K \in {{}, {Ranking}} : Ir(Job, p, K) /\ Livres(Job, K)
  BY LivresNada DEF JobRanking, ApagarRanking, Processos
<1>3. p \in Passos /\ K \in SUBSET LinhasMeta
  BY DEF Passos, LinhasMeta, Ranking
<1>4. passo'[Job] = p
  BY <1>2 DEF Ir, IInvMeta, TipoMeta, Processos
<1>5. JobSozinho'
  BY <1>1, <1>4 DEF IInvMeta, JobSozinho, StatusFinal, ValorAlerta, PassosDoJob
<1>6. \A n \in Metas : /\ meta[n].st = "livre" => job.st[n] = "igual" /\ job.al[n] = "igual"
                       /\ meta[n].st = "cancelada" => job.st[n] \in {"igual", "cancelada"}
  BY DEF IInvMeta, JobOK
<1> QED
  BY <1>1, <1>2, <1>3, <1>5, <1>6, SeguirJob DEF PassosDoJob

LEMMA JobComecarConserva ==
    ASSUME IInvMeta, JobComecar
    PROVE  IInvMeta'
<1> DEFINE fila == {m \in Metas : meta[m].st \in Ativas}
           q == [m \in Metas |-> meta[m].qtd]
           j == [SemJob EXCEPT !.fila = fila, !.qtd = q]
           outras == {r \in Chamadas : passo[r] # "livre" /\ calc[r].m # Nada}
<1>1. /\ passo[Job] = "livre" /\ job' = j
      /\ UNCHANGED <<meta, acomp, alerta, presas, calc, operacoes, duvida>>
      /\ juntas' = IF outras = {} THEN juntas ELSE juntas \cup outras \cup {Job}
  BY DEF JobComecar
<1>2. fila \in SUBSET Metas /\ q \in [Metas -> Quantidades \cup {0}]
  BY DEF IInvMeta, TipoMeta, LinhaMeta
<1>3. /\ j \in Trabalho /\ j.fila = fila /\ j.m = Nada
      /\ \A m \in Metas : j.st[m] = "igual" /\ j.al[m] = "igual"
  <2> HIDE DEF fila, q
  <2>1. j \in Trabalho /\ j.fila = fila /\ j.m = SemJob.m /\ j.st = SemJob.st /\ j.al = SemJob.al
    BY <1>2, SemJobTipo DEF Trabalho
  <2> QED
    BY <2>1, SemJobTipo
<1> HIDE DEF j
<1>4. Job \in Processos /\ (\A s \in Chamadas : s \in Processos /\ s # Job)
  BY JobNaoChamada DEF Processos
<1>5. /\ passo' \in [Processos -> Passos] /\ passo'[Job] = "resolver"
      /\ \A y \in Processos \ {Job} : passo'[y] = passo[y]
  BY <1>4 DEF JobComecar, IInvMeta, TipoMeta, Passos
<1>6. juntas \subseteq juntas' /\ juntas' \subseteq Processos
  BY <1>1, <1>4 DEF IInvMeta, TipoMeta
<1>7. TipoMeta'
  BY <1>1, <1>3, <1>5, <1>6 DEF IInvMeta, TipoMeta
<1>8. PassosOK' /\ MetaConhecida' /\ CalculoOK' /\ TravasOK'
  BY <1>1, <1>4, <1>5 DEF IInvMeta, PassosOK, MetaConhecida, CalculoOK, TravasOK
<1>9. DonosOK'
  BY <1>1, <1>3, <1>4, <1>5 DEF IInvMeta, DonosOK, DonoDaMeta, LinhaDaMeta
<1>10. JuntasMetaOK'
  <2>1. ASSUME NEW r \in Chamadas, calc[r].m # Nada PROVE {r, Job} \subseteq juntas'
    <3>1. passo[r] # "livre"
      BY <2>1 DEF IInvMeta, PassosOK, MetaConhecida, TiposDeMeta
    <3> QED
      BY <1>1, <2>1, <3>1
  <2> QED
    BY <1>1, <2>1 DEF JuntasMetaOK
<1>11. SozinhoOK'
  BY <1>1, <1>4, <1>5, <1>6 DEF IInvMeta, SozinhoOK, AlertaFinal
<1>12. JobOK'
  BY <1>1, <1>3, <1>5 DEF IInvMeta, JobOK, PassosDoJob, Ativas
<1>13. JobSozinho'
  BY <1>1, <1>3, <1>5, NadaNaoMeta DEF JobSozinho, PassosDoJob
<1>14. SozinhaAcerta'
  BY <1>1 DEF IInvMeta, SozinhaAcerta
<1> QED
  BY <1>7, <1>8, <1>9, <1>10, <1>11, <1>12, <1>13, <1>14 DEF IInvMeta

\* The commit of the job: alone, it leaves every goal in agreement.
LEMMA JobGravarConserva ==
    ASSUME IInvMeta, JobGravar
    PROVE  /\ IInvMeta'
           /\ \A m \in Metas : meta[m].st = "cancelada" => meta'[m].st = "cancelada"
<1>1. /\ passo[Job] = "gravar" /\ Job \in Processos /\ (\A s \in Chamadas : s \in Processos /\ s # Job)
      /\ calc' = calc /\ operacoes' = operacoes /\ job' = SemJob
  BY JobNaoChamada DEF JobGravar, Processos
<1>2. job \in Trabalho /\ job.fila = {} /\ job.st \in [Metas -> StatusMeta \cup {"igual"}]
  BY <1>1 DEF IInvMeta, TipoMeta, JobOK, Trabalho
<1>3. \A m \in Metas : meta'[m].st = StatusFinal(m) /\ alerta'[m] = ValorAlerta(m)
  BY DEF JobGravar, StatusFinal
<1>4. meta' \in [Metas -> LinhaMeta]
  <2>1. ASSUME NEW m \in Metas PROVE [st |-> StatusFinal(m), qtd |-> meta[m].qtd] \in LinhaMeta
    BY <1>2 DEF StatusFinal, IInvMeta, TipoMeta, LinhaMeta
  <2>2. meta' = [m \in Metas |-> [st |-> StatusFinal(m), qtd |-> meta[m].qtd]]
    BY DEF JobGravar, StatusFinal
  <2> HIDE DEF StatusFinal
  <2> QED
    BY <2>1, <2>2
<1>5. acomp' \in [Metas -> [Datas -> Linha]]
  BY <1>2 DEF JobGravar, IInvMeta, TipoMeta, Trabalho
<1>6. alerta' \in [Metas -> {"aberto", "resolvido"}]
  BY <1>2 DEF JobGravar, ValorAlerta, IInvMeta, TipoMeta, Trabalho
<1>7. /\ duvida' \subseteq Metas /\ (Job \in juntas => duvida' = Metas)
      /\ juntas' = juntas \ {Job} /\ juntas' \subseteq Processos
  BY DEF JobGravar, IInvMeta, TipoMeta
<1>8. /\ passo' \in [Processos -> Passos] /\ passo'[Job] = "livre"
      /\ \A y \in Processos \ {Job} : passo'[y] = (IF passo[y] = "esperar" THEN "quebrar" ELSE passo[y])
  BY <1>1 DEF JobGravar, PassosDepois, IInvMeta, TipoMeta, Passos
<1>9. /\ presas' \in [Processos -> SUBSET LinhasMeta] /\ presas'[Job] = {}
      /\ \A y \in Processos \ {Job} : presas'[y] = presas[y]
  BY <1>1 DEF JobGravar, IInvMeta, TipoMeta
<1>10. TipoMeta'
  BY <1>1, <1>4, <1>5, <1>6, <1>7, <1>8, <1>9, SemJobTipo DEF IInvMeta, TipoMeta
<1>11. \A m \in Metas : /\ meta[m].st # "livre" => meta'[m].st # "livre"
                        /\ meta'[m].st = "livre" => meta[m].st = "livre"
                        /\ meta[m].st = "cancelada" => meta'[m].st = "cancelada"
                        /\ meta'[m].st = "livre" => alerta'[m] = "resolvido"
  BY <1>2, <1>3 DEF StatusFinal, ValorAlerta, StatusMeta, IInvMeta, JobOK
<1>12. TravasOK'
  BY <1>9 DEF IInvMeta, TravasOK
<1>13. PassosOK' /\ CalculoOK'
  BY <1>1, <1>8 DEF IInvMeta, PassosOK, CalculoOK, PassosDaMeta
<1>14. MetaConhecida'
  BY <1>1, <1>11 DEF IInvMeta, MetaConhecida
<1>15. DonosOK'
  BY <1>1, <1>8, <1>9, SemJobTipo DEF IInvMeta, DonosOK, DonoDaMeta, LinhaDaMeta
<1>16. JuntasMetaOK'
  BY <1>1, <1>7, <1>8 DEF IInvMeta, JuntasMetaOK
<1>17. SozinhoOK'
  <2>1. ASSUME NEW r \in Chamadas, calc[r].tipo \in TiposDeMeta PROVE r \in juntas'
    BY <1>1, <1>7, <2>1, NadaNaoMeta DEF IInvMeta, MetaConhecida, JuntasMetaOK
  <2> QED
    BY <1>1, <2>1 DEF SozinhoOK
<1>18. JobOK'
  BY <1>1, <1>8, <1>11, SemJobTipo DEF JobOK, PassosDoJob
<1>19. JobSozinho'
  BY <1>8 DEF JobSozinho
<1>20. SozinhaAcerta'
  <2> SUFFICES ASSUME Job \notin juntas, NEW m \in Metas PROVE Concorda(meta'[m].st, alerta'[m])
    BY <1>7 DEF SozinhaAcerta, Concorda
  <2>1. Concorda(StatusFinal(m), ValorAlerta(m))
    BY <1>1, <1>2 DEF IInvMeta, JobSozinho, PassosDoJob
  <2> QED
    BY <1>3, <2>1
<1> QED
  BY <1>10, <1>11, <1>12, <1>13, <1>14, <1>15, <1>16, <1>17, <1>18, <1>19, <1>20 DEF IInvMeta

(***************************************************************************)
(* Every step.                                                             *)
(***************************************************************************)
LEMMA MetaPasso ==
    ASSUME IInvMeta, TipoVoto, NextMeta
    PROVE  /\ IInvMeta'
           /\ \A m \in Metas : meta[m].st = "cancelada" /\ meta'[m].st # "cancelada" =>
                 \E r \in Chamadas : calc[r].tipo = "atualizar" /\ calc[r].m = m
<1>1. ASSUME NEW m \in Metas, NEW q \in Quantidades, CriarMeta(m, q)
      PROVE  /\ IInvMeta'
             /\ \A n \in Metas : meta[n].st = "cancelada" => meta'[n].st = "cancelada"
  <2>1. \A n \in Metas : meta[n].st = "cancelada" => meta'[n] = meta[n]
    BY <1>1 DEF CriarMeta, IInvMeta, TipoMeta
  <2> QED
    BY <1>1, <2>1, CriarConserva
<1>2. ASSUME NEW r \in Chamadas, Pedir(r) PROVE IInvMeta' /\ UNCHANGED meta
  BY <1>2, PedirConserva DEF Pedir, Acompanhar, Atualizar, Cancelar, Classificar, Abrir
<1>3. ASSUME NEW r \in Chamadas,
             TravarAcomp(r) \/ AlterarMeta(r) \/ LerAlerta(r) \/ MexerAlerta(r) \/ TravarMeta(r) \/ ApagarRanking(r)
      PROVE  IInvMeta' /\ UNCHANGED meta
  BY <1>3, CalculoPasso DEF TravarAcomp, AlterarMeta, LerAlerta, MexerAlerta, TravarMeta, ApagarRanking
<1>4. ASSUME NEW x \in Processos, JaCancelada(x) \/ AlertaSumiu(x) \/ RankingRepetido(x) \/ Impasse(x)
      PROVE  IInvMeta' /\ UNCHANGED meta
  <2>1. Desfazer(x)
    BY <1>4 DEF JaCancelada, AlertaSumiu, RankingRepetido, Impasse
  <2> QED
    BY <2>1, DesfazerConserva DEF Desfazer
<1>5. ASSUME NEW r \in Chamadas, GravarMeta(r) \/ GravarRanking(r)
      PROVE  /\ IInvMeta'
             /\ \A m \in Metas : meta[m].st = "cancelada" /\ meta'[m].st # "cancelada" =>
                   calc[r].tipo = "atualizar" /\ calc[r].m = m
  BY <1>5, GravarMetaConserva, GravarRankingConserva DEF GravarRanking
<1>6. ASSUME ContinuarJob \/ JobComecar
      PROVE  /\ IInvMeta'
             /\ \A m \in Metas : meta[m].st = "cancelada" => meta'[m].st = "cancelada"
  <2>1. CASE JobResolver \/ JobContar
    BY <2>1, JobResolverConserva, JobContarConserva DEF JobResolver, JobContar
  <2>2. CASE JobAcomp \/ JobMeta \/ JobAlerta
    BY <2>2, JobAcompConserva, JobMetaConserva, JobAlertaConserva DEF JobAcomp, JobMeta, JobAlerta
  <2>3. CASE JobRanking \/ ApagarRanking(Job)
    BY <2>3, JobRankingConserva DEF JobRanking, ApagarRanking
  <2>4. CASE RankingRepetido(Job) \/ Impasse(Job)
    BY <1>4, <2>4 DEF Processos
  <2>5. CASE JobGravar \/ JobComecar
    BY <2>5, JobGravarConserva, JobComecarConserva DEF JobComecar
  <2> QED
    BY <1>6, <2>1, <2>2, <2>3, <2>4, <2>5 DEF ContinuarJob
<1>7. ASSUME NEW r \in Chamadas, ContinuarCalculo(r)
      PROVE  /\ IInvMeta'
             /\ \A m \in Metas : meta[m].st = "cancelada" /\ meta'[m].st # "cancelada" =>
                   calc[r].tipo = "atualizar" /\ calc[r].m = m
  <2>1. r \in Processos
    BY DEF Processos
  <2> QED
    BY <1>3, <1>4, <1>5, <1>7, <2>1 DEF ContinuarCalculo
<1> QED
  BY <1>1, <1>2, <1>6, <1>7 DEF NextMeta

\* The work on the goals leaves the answers alone, and the other way round.
LEMMA VotoParado ==
    ASSUME NextMeta
    PROVE  UNCHANGED varsVoto
<1>1. ASSUME NEW m \in Metas, NEW q \in Quantidades, CriarMeta(m, q) PROVE UNCHANGED varsVoto
  BY <1>1 DEF CriarMeta
<1>2. ASSUME NEW r \in Chamadas, Pedir(r) PROVE UNCHANGED varsVoto
  BY <1>2 DEF Pedir, Acompanhar, Atualizar, Cancelar, Classificar, Abrir
<1>3. ASSUME NEW x \in Processos,
             JaCancelada(x) \/ AlertaSumiu(x) \/ RankingRepetido(x) \/ Impasse(x) \/ ApagarRanking(x)
      PROVE  UNCHANGED varsVoto
  BY <1>3 DEF JaCancelada, AlertaSumiu, RankingRepetido, Impasse, Desfazer, ApagarRanking
<1>4. ASSUME NEW r \in Chamadas, ContinuarCalculo(r) PROVE UNCHANGED varsVoto
  <2>1. r \in Processos
    BY DEF Processos
  <2>2. CASE TravarAcomp(r) \/ AlterarMeta(r) \/ LerAlerta(r) \/ MexerAlerta(r)
    BY <2>2 DEF TravarAcomp, AlterarMeta, LerAlerta, MexerAlerta
  <2>3. CASE TravarMeta(r) \/ GravarMeta(r) \/ GravarRanking(r)
    BY <2>3 DEF TravarMeta, GravarMeta, GravarRanking
  <2> QED
    BY <1>3, <1>4, <2>1, <2>2, <2>3 DEF ContinuarCalculo
<1>5. ASSUME ContinuarJob \/ JobComecar PROVE UNCHANGED varsVoto
  <2>1. CASE JobResolver \/ JobContar \/ JobAcomp \/ JobMeta
    BY <2>1 DEF JobResolver, JobContar, JobAcomp, JobMeta
  <2>2. CASE JobAlerta \/ JobRanking \/ JobGravar \/ JobComecar
    BY <2>2 DEF JobAlerta, JobRanking, JobGravar, JobComecar
  <2> QED
    BY <1>3, <1>5, <2>1, <2>2 DEF ContinuarJob, Processos
<1> QED
  BY <1>1, <1>2, <1>4, <1>5 DEF NextMeta

LEMMA MetaMuda == (IInvMeta /\ UNCHANGED varsMeta) => IInvMeta' /\ UNCHANGED meta
  BY DEF varsMeta, IInvMeta, TipoMeta, PassosOK, MetaConhecida, CalculoOK, TravasOK, DonosOK,
     DonoDaMeta, LinhaDaMeta,
     JuntasMetaOK, SozinhoOK, AlertaFinal, JobOK, JobSozinho, StatusFinal, ValorAlerta, SozinhaAcerta

LEMMA VotoMuda == (IInvVoto /\ UNCHANGED varsVoto) => IInvVoto'
  BY DEF varsVoto, IInvVoto, TipoVoto, ConversasOK, LivresOK, JuntasOK, StatusPreso, StatusSozinho,
     FechadoRespondido, RecusaOK, SoCentral, ConfirmacaoSegueResposta, CentralConfere

LEMMA Inicio == Init => IInv
<1> SUFFICES ASSUME Init PROVE IInv
  OBVIOUS
<1>1. \A r \in Conversas : conversa[r].passo = "livre" /\ conversa[r].p = Nada /\ conversa[r].presas = {}
  BY DEF Init, InitVoto, SemConversa
<1>2. TipoVoto
  BY SemConversaTipo, RespostasNaturais DEF Init, InitVoto, TipoVoto, Atendimento, Respostas
<1>3. ConversasOK /\ LivresOK /\ JuntasOK /\ StatusPreso /\ StatusSozinho /\ RecusaOK
  BY <1>1 DEF ConversasOK, LivresOK, JuntasOK, StatusPreso, StatusSozinho, RecusaOK
<1>4. FechadoRespondido /\ ConfirmacaoSegueResposta /\ CentralConfere
  BY DEF Init, InitVoto, FechadoRespondido, ConfirmacaoSegueResposta, CentralConfere
<1>5. TipoMeta
  BY SemCalcTipo, SemJobTipo, SemLinhaTipo, MetaOperacoesNaturais
     DEF Init, InitMeta, TipoMeta, LinhaMeta, Passos
<1>6. /\ \A x \in Processos : passo[x] = "livre" /\ presas[x] = {}
      /\ \A r \in Chamadas : calc[r] = SemCalc /\ passo[r] = "livre"
      /\ job = SemJob /\ Job \in Processos
      /\ \A m \in Metas : meta[m].st = "livre" /\ alerta[m] = "resolvido"
  BY DEF Init, InitMeta, Processos
<1>7. PassosOK /\ MetaConhecida /\ CalculoOK /\ SozinhoOK /\ JuntasMetaOK
  BY <1>6, SemCalcTipo DEF PassosOK, MetaConhecida, CalculoOK, SozinhoOK, JuntasMetaOK, TiposDeMeta,
     PassosDaMeta
<1>8. TravasOK /\ DonosOK
  BY <1>6, SemCalcTipo, SemJobTipo DEF TravasOK, DonosOK, DonoDaMeta
<1>9. JobOK /\ JobSozinho /\ SozinhaAcerta
  BY <1>6, SemJobTipo DEF JobOK, JobSozinho, SozinhaAcerta, PassosDoJob
<1> QED
  BY <1>2, <1>3, <1>4, <1>5, <1>7, <1>8, <1>9 DEF IInv, IInvVoto, IInvMeta

LEMMA Passo == IInv /\ [Next]_vars => IInv'
<1> SUFFICES ASSUME IInv, [Next]_vars PROVE IInv'
  OBVIOUS
<1>1. CASE NextVoto /\ UNCHANGED varsMeta
  BY <1>1, VotoPasso, MetaMuda DEF IInv
<1>2. CASE NextMeta
  BY <1>2, MetaPasso, VotoParado, VotoMuda DEF IInv, IInvVoto
<1>3. CASE UNCHANGED vars
  BY <1>3, MetaMuda, VotoMuda DEF IInv, vars
<1> QED
  BY <1>1, <1>2, <1>3 DEF Next

(***************************************************************************)
(* The theorems.                                                           *)
(***************************************************************************)
\* The inductive invariant: answers and goals stay in order whatever the
\* requests, the contacts and the job do, and however they overlap.
THEOREM Invariante == Spec => []IInv
<1>1. Init => IInv
  BY Inicio
<1>2. IInv /\ [Next]_vars => IInv'
  BY Passo
<1> QED
  BY <1>1, <1>2, PTL DEF Spec

\* Every row, request and alert stays within its type.
THEOREM TiposCorretos == Spec => []TypeOK
<1>1. IInv => TypeOK
  BY DEF IInv, IInvVoto, IInvMeta, TypeOK
<1> QED
  BY <1>1, Invariante, PTL

\* Nothing that the goals count contradicts what a person said last, through
\* the call center or an attendance, for any number of people and requests
\* (create_contact, sync_vote_confirmation).
THEOREM RespostaSempreVale == Spec => []RespostaVale
<1>1. IInv => RespostaVale
  BY DEF IInv, IInvVoto, RespostaVale
<1> QED
  BY <1>1, Invariante, PTL

\* A computation that met no other one about its goal leaves the status and
\* the alert in agreement, for any number of goals, days, votes and requests
\* (sync_risk_alert, update_predictive_risk and the job).
THEOREM SozinhaSempreAcerta == Spec => []SozinhaAcerta
<1>1. IInv => SozinhaAcerta
  BY DEF IInv, IInvMeta
<1> QED
  BY <1>1, Invariante, PTL

\* A cancelled goal comes back only by an edit: the row lock keeps a tracking,
\* or the job, that counted it while it was active from writing that back
\* (cancel_goal, update_predictive_risk and the job's CASE).
THEOREM CanceladaSempreFica == Spec => CanceladaFica
<1>1. IInv /\ [Next]_vars =>
        [\A m \in Metas : meta[m].st = "cancelada" /\ meta'[m].st # "cancelada" =>
            \E r \in Chamadas : calc[r].tipo = "atualizar" /\ calc[r].m = m]_vars
  <2> SUFFICES ASSUME IInv, [Next]_vars, NEW m \in Metas, meta[m].st = "cancelada", meta'[m].st # "cancelada"
               PROVE  \E r \in Chamadas : calc[r].tipo = "atualizar" /\ calc[r].m = m
    OBVIOUS
  <2>1. ~(UNCHANGED meta)
    OBVIOUS
  <2>2. NextMeta
    BY <2>1, MetaMuda DEF Next, vars, varsMeta
  <2> QED
    BY <2>2, MetaPasso DEF IInv, IInvVoto
<1> QED
  BY <1>1, Invariante, PTL DEF Spec, CanceladaFica
=============================================================================
