--------------------- MODULE EncerramentoCampanhaProofs ---------------------
(***************************************************************************)
(* Proofs about EncerramentoCampanha, for every number of campaigns, jobs, *)
(* workers, requests and deliveries.                                       *)
(*                                                                         *)
(* EncerradaConsolidada and ConcluidoConsolidado are inductive given the   *)
(* types.  JobConcluidoEncerrou is not: the worker decides on the campaign *)
(* in one transaction and marks the job in another, so SucessoEncerrou     *)
(* carries the fact across, and Referencias says that no job id that a     *)
(* worker or a message holds is given out again.  FalhaSoDeRepetida needs  *)
(* an account of the message: delivered at most once, it is in one place   *)
(* (Contada), so that nobody else can still write on what it closed.       *)
(***************************************************************************)
EXTENDS EncerramentoCampanha, TLAPS

\* What a worker, a message and a request refer to exists.
TrabalhoRef ==
    \A w \in Trabalhadores : /\ trab[w].passo # "ocioso" => trab[w].job \in Jobs
                             /\ trab[w].job \in Jobs => job[trab[w].job].st # "nenhum"
FilaRef == \A j \in Jobs : fila[j] > 0 => job[j].st # "nenhum"
JobRef == \A j \in Jobs : job[j].st # "nenhum" => job[j].camp \in Campanhas
CampRef == \A r \in Requisicoes : req[r].passo # "ocioso" => req[r].camp \in Campanhas
DespachoRef ==
    \A r \in Requisicoes :
        req[r].passo = "despachar" => req[r].job \in Jobs /\ job[req[r].job].st # "nenhum"
Referencias == TrabalhoRef /\ FilaRef /\ JobRef /\ CampRef /\ DespachoRef

\* A worker about to report success has a closed campaign.
SucessoEncerrou ==
    \A w \in Trabalhadores : trab[w].passo = "sucesso" => Camp(w) \in encerradas

Inv1 == TypeOK /\ Referencias
Inv2 == EncerradaConsolidada /\ ConcluidoConsolidado
Inv3 == SucessoEncerrou /\ JobConcluidoEncerrou

\* A message delivered at most once is waiting, or held by one worker, or
\* still to be sent by the one request that created its job.
Contada(j) ==
    /\ job[j].st = "nenhum" => job[j].camp = Nada /\ entregas[j] = 0
    /\ entregas[j] = 0 => fila[j] = 0 /\ \A w \in Trabalhadores : trab[w].job # j
    /\ entregas[j] = 1 => /\ \A w \in Trabalhadores : trab[w].job = j => fila[j] = 0
                          /\ \A v, w \in Trabalhadores : trab[v].job = j /\ trab[w].job = j => v = w
                          /\ fila[j] <= 1
    /\ \A r \in Requisicoes : req[r].passo = "despachar" /\ req[r].job = j => entregas[j] = 0
    /\ \A r, s \in Requisicoes :
          /\ req[r].passo = "despachar" /\ req[r].job = j
          /\ req[s].passo = "despachar" /\ req[s].job = j
          => r = s
Contadas == \A j \in Jobs : Contada(j)

\* Nothing can write on the closure of c any more.
Feita(c) ==
    /\ status[c] # "falha"
    /\ \A w \in Trabalhadores : trab[w].job \in Jobs /\ Camp(w) = c => trab[w].passo = "sucesso"
    /\ \A j \in Jobs : job[j].camp = c => fila[j] = 0
    /\ \A r \in Requisicoes : req[r].passo = "despachar" => job[req[r].job].camp # c
EncerradaFeita ==
    \A c \in encerradas : /\ \E j \in Jobs : job[j].camp = c
                          /\ Repetida(c) \/ c \in semMarca \/ Feita(c)
Inv4 == Contadas /\ EncerradaFeita

IInv == Inv1 /\ Inv2 /\ Inv3 /\ Inv4

\* Growing old changes neither the step of a worker nor its job.
LEMMA EnvelhecerQuadro ==
    ASSUME NEW cs, NEW t \in [Trabalhadores -> Tarefa]
    PROVE  /\ Envelhecer(t, cs) \in [Trabalhadores -> Tarefa]
           /\ \A w \in Trabalhadores : Envelhecer(t, cs)[w].passo = t[w].passo
                                       /\ Envelhecer(t, cs)[w].job = t[w].job
<1>1. ASSUME NEW v \in Trabalhadores
      PROVE  /\ Envelhecer(t, cs)[v] \in Tarefa
             /\ Envelhecer(t, cs)[v].passo = t[v].passo
             /\ Envelhecer(t, cs)[v].job = t[v].job
  BY DEF Envelhecer, Tarefa
<1> QED
  BY <1>1 DEF Envelhecer

LEMMA OutrasMuda ==
    ASSUME NEW x \in Requisicao, NEW p \in {"desativar", "elevar"}, NEW S \in SUBSET Campanhas
    PROVE  [x EXCEPT !.passo = p, !.outras = S] \in Requisicao
  BY DEF Requisicao

LEMMA OutrasSubconjunto ==
    ASSUME NEW x \in Requisicao
    PROVE  x.outras \in SUBSET Campanhas
  BY DEF Requisicao

\* A request that records the rows to deactivate keeps its campaign.
LEMMA OutrasQuadro ==
    ASSUME TypeOK, NEW r \in Requisicoes, NEW p \in {"desativar", "elevar"}, NEW S \in SUBSET Campanhas,
           req' = [req EXCEPT ![r].passo = p, ![r].outras = S]
    PROVE  /\ req' \in [Requisicoes -> Requisicao]
           /\ \A s \in Requisicoes \ {r} : req'[s] = req[s]
           /\ req'[r].camp = req[r].camp /\ req'[r].passo = p
<1> DEFINE x == [req[r] EXCEPT !.passo = p, !.outras = S]
<1>1. req \in [Requisicoes -> Requisicao] /\ req[r] \in Requisicao  BY DEF TypeOK
<1>2. x \in Requisicao  BY <1>1, OutrasMuda
<1>3. x.camp = req[r].camp /\ x.passo = p  BY <1>1 DEF Requisicao
<1>4. req' = [req EXCEPT ![r] = x]  OBVIOUS
<1> HIDE DEF x
<1> QED  BY <1>1, <1>2, <1>3, <1>4

LEMMA DespachoMuda ==
    ASSUME NEW x \in Requisicao, NEW j \in Jobs
    PROVE  [x EXCEPT !.passo = "despachar", !.job = j] \in Requisicao
  BY DEF Requisicao

\* So does one that is about to dispatch the job it created.
LEMMA DespachoQuadro ==
    ASSUME TypeOK, NEW r \in Requisicoes, NEW j \in Jobs,
           req' = [req EXCEPT ![r].passo = "despachar", ![r].job = j]
    PROVE  /\ req' \in [Requisicoes -> Requisicao]
           /\ \A s \in Requisicoes \ {r} : req'[s] = req[s]
           /\ req'[r].camp = req[r].camp /\ req'[r].job = j
<1> DEFINE x == [req[r] EXCEPT !.passo = "despachar", !.job = j]
<1>1. req \in [Requisicoes -> Requisicao] /\ req[r] \in Requisicao  BY DEF TypeOK
<1>2. x \in Requisicao  BY <1>1, DespachoMuda
<1>3. x.camp = req[r].camp /\ x.job = j  BY <1>1 DEF Requisicao
<1>4. req' = [req EXCEPT ![r] = x]  OBVIOUS
<1> HIDE DEF x
<1> QED  BY <1>1, <1>2, <1>3, <1>4

LEMMA Inv1Passo ==
    ASSUME Inv1, [Next]_vars
    PROVE  Inv1'
<1> USE NadaForaDosIds DEF Inv1, TypeOK, Referencias, TrabalhoRef, FilaRef, JobRef, CampRef,
       DespachoRef, LinhaJob, Tarefa, PassosTrab, ComFoto, ComTrava
<1>1. ASSUME NEW r \in Requisicoes, NEW c \in Campanhas, Chegar(r, c) PROVE Inv1'
  <2>1. PICK p \in {"criar", "recriar", "ativar", "elevar"} : Comecar(r, p, c)
    BY <1>1 DEF Chegar, SolicitarEncerramento, SolicitarReprocesso, LerParaAtivar, CriarCampanha
  <2> QED
    BY <2>1 DEF Comecar, tabelas, campanha, broker, Requisicao, Ociosa
<1>2. ASSUME NEW r \in Requisicoes, CriarEncerramento(r) PROVE Inv1'
  <2>1. req[r].camp \in Campanhas /\ UNCHANGED <<campanha, consolidadas, broker, trab, semMarca>>
    BY <1>2 DEF CriarEncerramento
  <2>2. ASSUME NEW j \in Jobs, NovoJob(j),
               job' = [job EXCEPT ![j] = [camp |-> req[r].camp, st |-> "enfileirado"]],
               status' = [status EXCEPT ![req[r].camp] = "enfileirado"],
               req' = [req EXCEPT ![r].passo = "despachar", ![r].job = j]
        PROVE  Inv1'
    <3>1. job' \in [Jobs -> LinhaJob] /\ \A k \in Jobs \ {j} : job'[k] = job[k]
      BY <2>1, <2>2 DEF NovoJob
    <3>2. job[j].st = "nenhum" /\ job'[j].st # "nenhum" /\ job'[j].camp \in Campanhas
      BY <2>1, <2>2 DEF NovoJob
    <3>3. /\ req' \in [Requisicoes -> Requisicao]
          /\ \A s \in Requisicoes \ {r} : req'[s] = req[s]
          /\ req'[r].camp = req[r].camp /\ req'[r].job = j
      BY <2>2, DespachoQuadro
    <3>4. TypeOK'
      BY <2>1, <2>2, <3>1, <3>3 DEF campanha, broker
    <3>5. \A k \in Jobs : job[k].st # "nenhum" => job'[k] = job[k]
      BY <3>1, <3>2
    <3>6. TrabalhoRef'
      BY <2>1, <3>5 DEF campanha, broker
    <3>7. FilaRef'
      BY <2>1, <3>5 DEF campanha, broker
    <3>8. JobRef'
      BY <3>1, <3>2
    <3>9. CampRef'
      BY <2>1, <3>3
    <3>10. DespachoRef'
      BY <3>3, <3>5, <3>2
    <3> HIDE DEF TypeOK, TrabalhoRef, FilaRef, JobRef, CampRef, DespachoRef
    <3> QED
      BY <3>4, <3>6, <3>7, <3>8, <3>9, <3>10
  <2>3. CASE req' = [req EXCEPT ![r] = Ociosa] /\ UNCHANGED <<job, status>>
    BY <2>1, <2>3 DEF campanha, broker, Requisicao, Ociosa
  <2> QED
    BY <1>2, <2>2, <2>3 DEF CriarEncerramento
<1>3. ASSUME NEW r \in Requisicoes, RecriarJob(r) PROVE Inv1'
  <2>1. req[r].camp \in Campanhas /\ UNCHANGED <<campanha, consolidadas, broker, semMarca>>
    BY <1>3 DEF RecriarJob
  <2>2. PICK j \in Jobs : /\ NovoJob(j)
                          /\ job' = [job EXCEPT ![j] = [camp |-> req[r].camp, st |-> "enfileirado"]]
                          /\ req' = [req EXCEPT ![r].passo = "despachar", ![r].job = j]
    BY <1>3 DEF RecriarJob
  <2>3. /\ trab' \in [Trabalhadores -> Tarefa]
        /\ \A v \in Trabalhadores : trab'[v].passo = trab[v].passo /\ trab'[v].job = trab[v].job
    <3> HIDE DEF Tarefa
    <3> QED BY <1>3, EnvelhecerQuadro DEF RecriarJob
  <2>4. status' \in [Campanhas -> {"nenhum", "enfileirado", "concluido", "falha"}]
    <3>1. CASE status[req[r].camp] = "falha"
      BY <1>3, <2>1, <3>1 DEF RecriarJob
    <3>2. CASE status[req[r].camp] # "falha"
      BY <1>3, <2>1, <3>2 DEF RecriarJob
    <3> QED
      BY <3>1, <3>2
  <2>5. job' \in [Jobs -> LinhaJob] /\ \A k \in Jobs \ {j} : job'[k] = job[k]
    BY <2>1, <2>2 DEF NovoJob
  <2>6. job[j].st = "nenhum" /\ job'[j].st # "nenhum" /\ job'[j].camp \in Campanhas
    BY <2>1, <2>2 DEF NovoJob
  <2>7. /\ req' \in [Requisicoes -> Requisicao]
        /\ \A s \in Requisicoes \ {r} : req'[s] = req[s]
        /\ req'[r].camp = req[r].camp /\ req'[r].job = j
    BY <2>2, DespachoQuadro
  <2>8. TypeOK'
    BY <2>1, <2>3, <2>4, <2>5, <2>7 DEF campanha, broker
  <2>9. \A k \in Jobs : job[k].st # "nenhum" => job'[k] = job[k]
    BY <2>5, <2>6
  <2>10. TrabalhoRef'
    BY <2>1, <2>3, <2>9 DEF campanha, broker
  <2>11. FilaRef'
    BY <2>1, <2>3, <2>9 DEF campanha, broker
  <2>12. JobRef'
    BY <2>5, <2>6
  <2>13. CampRef'
    BY <2>1, <2>3, <2>7
  <2>14. DespachoRef'
    BY <2>7, <2>9, <2>6
  <2> HIDE DEF TypeOK, TrabalhoRef, FilaRef, JobRef, CampRef, DespachoRef
  <2> QED
    BY <2>8, <2>10, <2>11, <2>12, <2>13, <2>14
<1>4. ASSUME NEW r \in Requisicoes, Despachar(r) PROVE Inv1'
  BY <1>4 DEF Despachar, tabelas, campanha, Requisicao, Ociosa
<1>5. ASSUME NEW r \in Requisicoes, DespachoPerdido(r) PROVE Inv1'
  BY <1>5 DEF DespachoPerdido, tabelas, campanha, broker, Requisicao, Ociosa
<1>6. ASSUME NEW r \in Requisicoes, Fotografar(r) PROVE Inv1'
  <2>1. ativas \ {req[r].camp} \in SUBSET Campanhas
    BY OutrasSubconjunto
  <2>2. req' = [req EXCEPT ![r].passo = "desativar", ![r].outras = ativas \ {req[r].camp}]
    BY <1>6 DEF Fotografar
  <2>3. /\ req' \in [Requisicoes -> Requisicao]
        /\ \A s \in Requisicoes \ {r} : req'[s] = req[s]
        /\ req'[r].camp = req[r].camp /\ req'[r].passo = "desativar"
    BY <2>1, <2>2, OutrasQuadro
  <2> QED
    BY <1>6, <2>3 DEF Fotografar, tabelas, campanha, broker
<1>7. ASSUME NEW r \in Requisicoes, DesativarOutras(r) PROVE Inv1'
  <2>1. req[r].outras \cap ativas \in SUBSET Campanhas
    BY OutrasSubconjunto
  <2>2. req' = [req EXCEPT ![r].passo = "elevar", ![r].outras = req[r].outras \cap ativas]
    BY <1>7 DEF DesativarOutras
  <2>3. /\ req' \in [Requisicoes -> Requisicao]
        /\ \A s \in Requisicoes \ {r} : req'[s] = req[s]
        /\ req'[r].camp = req[r].camp /\ req'[r].passo = "elevar"
    BY <2>1, <2>2, OutrasQuadro
  <2> QED
    BY <1>7, <2>3 DEF DesativarOutras, tabelas, campanha, broker
<1>8. ASSUME NEW r \in Requisicoes, Elevar(r) PROVE Inv1'
  <2>1. /\ trab' \in [Trabalhadores -> Tarefa]
        /\ \A v \in Trabalhadores : trab'[v].passo = trab[v].passo /\ trab'[v].job = trab[v].job
    <3> HIDE DEF Tarefa
    <3> QED BY <1>8, EnvelhecerQuadro DEF Elevar
  <2>2. req[r].camp \in Campanhas
    BY <1>8 DEF Elevar
  <2>3. ativas' \subseteq Campanhas /\ existe' \subseteq Campanhas
    BY <1>8, <2>2 DEF Elevar, Elevada
  <2>4. req' = [req EXCEPT ![r] = Ociosa] /\ UNCHANGED <<encerradas, ultima, status, consolidadas, job, broker, semMarca>>
    BY <1>8 DEF Elevar
  <2> QED
    BY <2>1, <2>3, <2>4 DEF broker, Requisicao, Ociosa
<1>9. ASSUME NEW w \in Trabalhadores, NEW j \in Jobs, Receber(w, j) PROVE Inv1'
  <2> USE <1>9 DEF Receber, campanha, Parado
  <2>1. job' \in [Jobs -> LinhaJob] /\ fila' \in [Jobs -> Nat]
    OBVIOUS
  <2>2. TypeOK'
    BY <2>1
  <2>3. \A k \in Jobs : fila'[k] > 0 => fila[k] > 0
    OBVIOUS
  <2> QED
    BY <2>2, <2>3
<1>10. ASSUME NEW w \in Trabalhadores, AbrirTransacao(w) PROVE Inv1'
  BY <1>10 DEF AbrirTransacao, Passar, tabelas, campanha, broker, Parado
<1>11. ASSUME NEW w \in Trabalhadores, TravarCampanha(w) PROVE Inv1'
  BY <1>11 DEF TravarCampanha, Passar, tabelas, campanha, broker, Parado
<1>12. ASSUME NEW w \in Trabalhadores, LerEncerramento(w) PROVE Inv1'
  BY <1>12 DEF LerEncerramento, Passar, tabelas, campanha, broker, Parado
<1>13. ASSUME NEW w \in Trabalhadores, Consolidar(w) PROVE Inv1'
  <2> DEFINE t == [trab EXCEPT ![w].passo = "sucesso"]
  <2>1. t \in [Trabalhadores -> Tarefa]
    OBVIOUS
  <2>2. \A v \in Trabalhadores : t[v].job = trab[v].job /\ (v # w => t[v] = trab[v])
    OBVIOUS
  <2>3. trab' = Envelhecer(t, {Camp(w)})
    BY <1>13 DEF Consolidar
  <2>4. Camp(w) \in Campanhas /\ trab[w].passo # "ocioso"
    BY <1>13 DEF Consolidar, Camp
  <2>5. /\ trab' \in [Trabalhadores -> Tarefa]
        /\ \A v \in Trabalhadores : trab'[v].job = trab[v].job
        /\ \A v \in Trabalhadores \ {w} : trab'[v].passo = trab[v].passo
    <3> HIDE DEF Tarefa, t
    <3> QED BY <2>1, <2>2, <2>3, EnvelhecerQuadro
  <2>6. TypeOK'
    BY <1>13, <2>4, <2>5 DEF Consolidar, broker
  <2> HIDE DEF t
  <2> QED
    BY <1>13, <2>4, <2>5, <2>6 DEF Consolidar, broker
<1>14. ASSUME NEW w \in Trabalhadores, ConsolidarErro(w) PROVE Inv1'
  BY <1>14 DEF ConsolidarErro, Passar, tabelas, campanha, broker, Parado
<1>15. ASSUME NEW w \in Trabalhadores, Falhar(w) PROVE Inv1'
  <2> DEFINE t == [trab EXCEPT ![w].passo = "marcarFalha"]
  <2>1. t \in [Trabalhadores -> Tarefa]
    OBVIOUS
  <2>2. \A v \in Trabalhadores : t[v].job = trab[v].job /\ (v # w => t[v] = trab[v])
    OBVIOUS
  <2>3. trab' = Envelhecer(t, {Camp(w)})
    BY <1>15 DEF Falhar
  <2>4. Camp(w) \in Campanhas /\ trab[w].passo # "ocioso"
    BY <1>15 DEF Falhar, Camp
  <2>5. /\ trab' \in [Trabalhadores -> Tarefa]
        /\ \A v \in Trabalhadores : trab'[v].job = trab[v].job
        /\ \A v \in Trabalhadores \ {w} : trab'[v].passo = trab[v].passo
    <3> HIDE DEF Tarefa, t
    <3> QED BY <2>1, <2>2, <2>3, EnvelhecerQuadro
  <2>6. TypeOK'
    BY <1>15, <2>4, <2>5 DEF Falhar, broker, campanha
  <2> HIDE DEF t
  <2> QED
    BY <1>15, <2>4, <2>5, <2>6 DEF Falhar, broker, campanha
<1>16. ASSUME NEW w \in Trabalhadores, MarcarFalha(w) PROVE Inv1'
  BY <1>16 DEF MarcarFalha, Marcar, broker, campanha, Parado
<1>17. ASSUME NEW w \in Trabalhadores, MarcarSucesso(w) PROVE Inv1'
  BY <1>17 DEF MarcarSucesso, Marcar, broker, campanha, Parado
<1>21. ASSUME NEW w \in Trabalhadores, MarcarSucessoErro(w) PROVE Inv1'
  <2>1. Camp(w) \in Campanhas
    BY <1>21 DEF MarcarSucessoErro, Camp
  <2> QED
    BY <1>21, <2>1 DEF MarcarSucessoErro, Passar, tabelas, broker, campanha
<1>18. ASSUME NEW w \in Trabalhadores, Cair(w) PROVE Inv1'
  BY <1>18 DEF Cair, tabelas, campanha, Parado
<1>19. ASSUME NEW j \in Jobs, Reentregar(j) PROVE Inv1'
  BY <1>19 DEF Reentregar, tabelas, campanha
<1>20. CASE UNCHANGED vars
  BY <1>20 DEF vars, tabelas, campanha, broker
<1> QED
  BY <1>1, <1>2, <1>3, <1>4, <1>5, <1>6, <1>7, <1>8, <1>9, <1>10, <1>11, <1>12, <1>13, <1>14, <1>15,
     <1>16, <1>17, <1>18, <1>19, <1>20, <1>21 DEF Next, Atender, Trabalhar

-----------------------------------------------------------------------------
(* What the campaign and its closure keep. *)

Mesmos == UNCHANGED <<ativas, encerradas, consolidadas, status>>

\* Only five actions touch those columns.
LEMMA Quadro ==
    ASSUME Inv1, [Next]_vars
    PROVE  \/ Mesmos
           \/ \E r \in Requisicoes : CriarEncerramento(r) \/ RecriarJob(r) \/ Elevar(r)
           \/ \E w \in Trabalhadores : Consolidar(w) \/ Falhar(w)
<1> USE DEF Mesmos
<1>1. ASSUME NEW r \in Requisicoes, NEW c \in Campanhas, Chegar(r, c) PROVE Mesmos
  BY <1>1 DEF Chegar, SolicitarEncerramento, SolicitarReprocesso, LerParaAtivar, CriarCampanha,
     Comecar, tabelas, campanha, broker
<1>2. ASSUME NEW r \in Requisicoes, Despachar(r) PROVE Mesmos
  BY <1>2 DEF Despachar, tabelas, campanha
<1>3. ASSUME NEW r \in Requisicoes, DespachoPerdido(r) PROVE Mesmos
  BY <1>3 DEF DespachoPerdido, tabelas, campanha, broker
<1>4. ASSUME NEW r \in Requisicoes, Fotografar(r) PROVE Mesmos
  BY <1>4 DEF Fotografar, tabelas, campanha, broker
<1>5. ASSUME NEW r \in Requisicoes, DesativarOutras(r) PROVE Mesmos
  BY <1>5 DEF DesativarOutras, tabelas, campanha, broker
<1>6. ASSUME NEW w \in Trabalhadores, NEW j \in Jobs, Receber(w, j) PROVE Mesmos
  BY <1>6 DEF Receber, campanha
<1>7. ASSUME NEW w \in Trabalhadores, AbrirTransacao(w) PROVE Mesmos
  BY <1>7 DEF AbrirTransacao, Passar, tabelas, campanha, broker
<1>8. ASSUME NEW w \in Trabalhadores, TravarCampanha(w) PROVE Mesmos
  BY <1>8 DEF TravarCampanha, Passar, tabelas, campanha, broker
<1>9. ASSUME NEW w \in Trabalhadores, LerEncerramento(w) PROVE Mesmos
  BY <1>9 DEF LerEncerramento, Passar, tabelas, campanha, broker
<1>10. ASSUME NEW w \in Trabalhadores, ConsolidarErro(w) PROVE Mesmos
  BY <1>10 DEF ConsolidarErro, Passar, tabelas, campanha, broker
<1>11. ASSUME NEW w \in Trabalhadores, MarcarFalha(w) PROVE Mesmos
  BY <1>11 DEF MarcarFalha, Marcar, broker, campanha
<1>12. ASSUME NEW w \in Trabalhadores, MarcarSucesso(w) PROVE Mesmos
  BY <1>12 DEF MarcarSucesso, Marcar, broker, campanha
<1>16. ASSUME NEW w \in Trabalhadores, MarcarSucessoErro(w) PROVE Mesmos
  BY <1>16 DEF MarcarSucessoErro, tabelas, campanha
<1>13. ASSUME NEW w \in Trabalhadores, Cair(w) PROVE Mesmos
  BY <1>13 DEF Cair, tabelas, campanha
<1>14. ASSUME NEW j \in Jobs, Reentregar(j) PROVE Mesmos
  BY <1>14 DEF Reentregar, tabelas, campanha
<1>15. CASE UNCHANGED vars
  BY <1>15 DEF vars, tabelas, campanha
<1> QED
  BY <1>1, <1>2, <1>3, <1>4, <1>5, <1>6, <1>7, <1>8, <1>9, <1>10, <1>11, <1>12, <1>13, <1>14, <1>15,
     <1>16 DEF Next, Atender, Trabalhar

LEMMA CriarMuda ==
    ASSUME Inv1, NEW r \in Requisicoes, CriarEncerramento(r) \/ RecriarJob(r)
    PROVE  /\ UNCHANGED <<ativas, encerradas, consolidadas>>
           /\ \A c \in Campanhas : status'[c] = "concluido" => status[c] = "concluido"
<1> USE DEF Inv1, TypeOK, campanha
<1>1. CASE CriarEncerramento(r)
  BY <1>1 DEF CriarEncerramento
<1>2. CASE RecriarJob(r)
  <2>1. CASE status[req[r].camp] = "falha"
    BY <1>2, <2>1 DEF RecriarJob
  <2>2. CASE status[req[r].camp] # "falha"
    BY <1>2, <2>2 DEF RecriarJob
  <2> QED
    BY <2>1, <2>2
<1> QED
  BY <1>1, <1>2

\* An activation activates at most its own campaign, never a closed one.
LEMMA ElevarMuda ==
    ASSUME Inv1, NEW r \in Requisicoes, Elevar(r)
    PROVE  /\ UNCHANGED <<encerradas, consolidadas, status>>
           /\ ativas' \subseteq ativas \cup ({req[r].camp} \ encerradas)
<1>1. UNCHANGED <<encerradas, consolidadas, status>>
  BY DEF Elevar
<1>2. ativas' = ativas \/ ativas' = (ativas \ req[r].outras) \cup Elevada(req[r].camp)
  BY DEF Elevar
<1> QED
  BY <1>1, <1>2 DEF Elevada

LEMMA ConsolidarMuda ==
    ASSUME Inv1, NEW w \in Trabalhadores, Consolidar(w)
    PROVE  /\ Camp(w) \in Campanhas
           /\ ativas' = ativas \ {Camp(w)} /\ encerradas' = encerradas \cup {Camp(w)}
           /\ consolidadas' = consolidadas \cup {Camp(w)}
           /\ status' = [status EXCEPT ![Camp(w)] = "concluido"]
  BY DEF Inv1, Referencias, TrabalhoRef, JobRef, Consolidar, Camp

LEMMA FalharMuda ==
    ASSUME Inv1, NEW w \in Trabalhadores, Falhar(w)
    PROVE  /\ UNCHANGED <<ativas, encerradas, consolidadas>>
           /\ \A c \in Campanhas : status'[c] = "concluido" => status[c] = "concluido"
<1>1. status' = [status EXCEPT ![Camp(w)] = "falha"] /\ UNCHANGED campanha /\ UNCHANGED consolidadas
  BY DEF Falhar
<1> QED
  BY <1>1 DEF Inv1, TypeOK, campanha

SoEncerra == encerradas \subseteq encerradas' \ ativas'

LEMMA Inv2Passo ==
    ASSUME Inv1, Inv2, [Next]_vars
    PROVE  Inv2' /\ SoEncerra
<1> USE DEF Inv2, EncerradaConsolidada, ConcluidoConsolidado, SoEncerra
<1>1. CASE Mesmos
  BY <1>1 DEF Mesmos
<1>2. ASSUME NEW r \in Requisicoes, CriarEncerramento(r) \/ RecriarJob(r)
      PROVE  Inv2' /\ SoEncerra
  BY <1>2, CriarMuda
<1>3. ASSUME NEW r \in Requisicoes, Elevar(r)
      PROVE  Inv2' /\ SoEncerra
  BY <1>3, ElevarMuda
<1>4. ASSUME NEW w \in Trabalhadores, Consolidar(w)
      PROVE  Inv2' /\ SoEncerra
  <2>1. status \in [Campanhas -> {"nenhum", "enfileirado", "concluido", "falha"}]
    BY DEF Inv1, TypeOK
  <2> QED
    BY <1>4, <2>1, ConsolidarMuda
<1>5. ASSUME NEW w \in Trabalhadores, Falhar(w)
      PROVE  Inv2' /\ SoEncerra
  BY <1>5, FalharMuda
<1> QED
  BY <1>1, <1>2, <1>3, <1>4, <1>5, Quadro

-----------------------------------------------------------------------------
(* What a success says. *)

\* Workers and jobs move without a new success.
SemSucesso ==
    /\ \A v \in Trabalhadores : trab'[v].passo = "sucesso" =>
          trab[v].passo = "sucesso" /\ trab'[v].job = trab[v].job
    /\ \A j \in Jobs : job'[j].st = "concluido" => job[j].st = "concluido"
    /\ \A j \in Jobs : job[j].st # "nenhum" => job'[j].camp = job[j].camp

LEMMA SemSucessoBasta ==
    ASSUME Inv1, Inv3, SoEncerra, SemSucesso
    PROVE  Inv3'
<1> USE DEF Inv1, Referencias, TrabalhoRef, Inv3, SemSucesso, SoEncerra, PassosTrab
<1>1. SucessoEncerrou'
  BY DEF SucessoEncerrou, Camp
<1>2. JobConcluidoEncerrou'
  BY DEF JobConcluidoEncerrou
<1> QED
  BY <1>1, <1>2

LEMMA Inv3Passo ==
    ASSUME Inv1, Inv2, Inv3, SoEncerra, [Next]_vars
    PROVE  Inv3'
<1> USE DEF SemSucesso
<1>1. ASSUME NEW r \in Requisicoes, NEW c \in Campanhas, Chegar(r, c) PROVE Inv3'
  <2>1. SemSucesso
    BY <1>1 DEF Inv1, TypeOK, Tarefa, LinhaJob, Chegar, SolicitarEncerramento, SolicitarReprocesso,
       LerParaAtivar, CriarCampanha, Comecar, tabelas
  <2> QED
    BY <2>1, SemSucessoBasta
<1>2. ASSUME NEW r \in Requisicoes, CriarEncerramento(r) PROVE Inv3'
  <2>1. trab' = trab
    BY <1>2 DEF CriarEncerramento
  <2>2. \/ job' = job
        \/ \E j \in Jobs : NovoJob(j) /\ job' = [job EXCEPT ![j] = [camp |-> req[r].camp, st |-> "enfileirado"]]
    BY <1>2 DEF CriarEncerramento
  <2>3. SemSucesso
    BY <2>1, <2>2 DEF NovoJob, Inv1, TypeOK, LinhaJob
  <2> QED
    BY <2>3, SemSucessoBasta
<1>3. ASSUME NEW r \in Requisicoes, RecriarJob(r) PROVE Inv3'
  <2>1. \A v \in Trabalhadores : trab'[v].passo = trab[v].passo /\ trab'[v].job = trab[v].job
    BY <1>3, EnvelhecerQuadro DEF RecriarJob, Inv1, TypeOK
  <2>2. PICK j \in Jobs : NovoJob(j)
                          /\ job' = [job EXCEPT ![j] = [camp |-> req[r].camp, st |-> "enfileirado"]]
    BY <1>3 DEF RecriarJob
  <2>3. SemSucesso
    BY <2>1, <2>2 DEF NovoJob, Inv1, TypeOK, LinhaJob
  <2> QED
    BY <2>3, SemSucessoBasta
<1>4. ASSUME NEW r \in Requisicoes, Despachar(r) PROVE Inv3'
  <2>1. SemSucesso
    BY <1>4 DEF Inv1, TypeOK, Tarefa, LinhaJob, Despachar, tabelas
  <2> QED
    BY <2>1, SemSucessoBasta
<1>5. ASSUME NEW r \in Requisicoes, DespachoPerdido(r) PROVE Inv3'
  <2>1. SemSucesso
    BY <1>5 DEF Inv1, TypeOK, Tarefa, LinhaJob, DespachoPerdido, tabelas
  <2> QED
    BY <2>1, SemSucessoBasta
<1>6. ASSUME NEW r \in Requisicoes, Fotografar(r) PROVE Inv3'
  <2>1. SemSucesso
    BY <1>6 DEF Inv1, TypeOK, Tarefa, LinhaJob, Fotografar, tabelas
  <2> QED
    BY <2>1, SemSucessoBasta
<1>7. ASSUME NEW r \in Requisicoes, DesativarOutras(r) PROVE Inv3'
  <2>1. SemSucesso
    BY <1>7 DEF Inv1, TypeOK, Tarefa, LinhaJob, DesativarOutras, tabelas
  <2> QED
    BY <2>1, SemSucessoBasta
<1>8. ASSUME NEW r \in Requisicoes, Elevar(r) PROVE Inv3'
  <2>1. \A v \in Trabalhadores : trab'[v].passo = trab[v].passo /\ trab'[v].job = trab[v].job
    BY <1>8, EnvelhecerQuadro DEF Elevar, Inv1, TypeOK
  <2>2. job' = job
    BY <1>8 DEF Elevar
  <2>3. SemSucesso
    BY <2>1, <2>2
  <2> QED
    BY <2>3, SemSucessoBasta
<1>9. ASSUME NEW w \in Trabalhadores, NEW j \in Jobs, Receber(w, j) PROVE Inv3'
  <2>1. SemSucesso
    BY <1>9 DEF Inv1, TypeOK, Tarefa, LinhaJob, Receber, Parado
  <2> QED
    BY <2>1, SemSucessoBasta
<1>10. ASSUME NEW w \in Trabalhadores, AbrirTransacao(w) PROVE Inv3'
  <2>1. SemSucesso
    BY <1>10 DEF Inv1, TypeOK, Tarefa, LinhaJob, AbrirTransacao, Passar, tabelas, Parado
  <2> QED
    BY <2>1, SemSucessoBasta
<1>11. ASSUME NEW w \in Trabalhadores, TravarCampanha(w) PROVE Inv3'
  <2>1. SemSucesso
    BY <1>11 DEF Inv1, TypeOK, Tarefa, LinhaJob, TravarCampanha, Passar, tabelas, Parado
  <2> QED
    BY <2>1, SemSucessoBasta
<1>12. ASSUME NEW w \in Trabalhadores, LerEncerramento(w) PROVE Inv3'
  <2>1. Camp(w) \in Campanhas
    BY <1>12 DEF LerEncerramento, Inv1, Referencias, TrabalhoRef, JobRef, Camp
  <2>2. job' = job /\ encerradas' = encerradas
    BY <1>12 DEF LerEncerramento, tabelas, campanha
  <2>3. PICK p : /\ Passar(w, p) /\ (p = "sucesso" => status[Camp(w)] = "concluido")
    BY <1>12 DEF LerEncerramento
  <2>4. \A v \in Trabalhadores : trab'[v].passo = "sucesso" =>
            trab'[v].job = trab[v].job /\ Camp(v) \in encerradas
    BY <2>1, <2>3 DEF Passar, Inv1, TypeOK, Tarefa, Inv2, ConcluidoConsolidado, Inv3, SucessoEncerrou
  <2> QED
    BY <2>2, <2>4 DEF Inv3, SucessoEncerrou, JobConcluidoEncerrou, Camp
<1>13. ASSUME NEW w \in Trabalhadores, Consolidar(w) PROVE Inv3'
  <2> DEFINE t == [trab EXCEPT ![w].passo = "sucesso"]
  <2>1. t \in [Trabalhadores -> Tarefa]
    BY DEF Inv1, TypeOK, Tarefa, PassosTrab
  <2>2. \A v \in Trabalhadores : /\ t[v].job = trab[v].job /\ (v # w => t[v] = trab[v])
                                  /\ t[w].passo = "sucesso"
    BY DEF Inv1, TypeOK, Tarefa
  <2>3. trab' = Envelhecer(t, {Camp(w)}) /\ job' = job
    BY <1>13 DEF Consolidar
  <2>4. \A v \in Trabalhadores : trab'[v].passo = t[v].passo /\ trab'[v].job = t[v].job
    <3> HIDE DEF t
    <3> QED BY <2>1, <2>3, EnvelhecerQuadro
  <2> HIDE DEF t
  <2>5. encerradas' = encerradas \cup {Camp(w)}
    BY <1>13 DEF Consolidar
  <2>6. SucessoEncerrou'
    BY <2>2, <2>3, <2>4, <2>5 DEF Inv3, SucessoEncerrou, Camp
  <2>7. JobConcluidoEncerrou'
    BY <2>3, <2>5 DEF Inv3, JobConcluidoEncerrou
  <2> QED
    BY <2>6, <2>7 DEF Inv3
<1>14. ASSUME NEW w \in Trabalhadores, ConsolidarErro(w) PROVE Inv3'
  <2>1. SemSucesso
    BY <1>14 DEF Inv1, TypeOK, Tarefa, LinhaJob, ConsolidarErro, Passar, tabelas, Parado
  <2> QED
    BY <2>1, SemSucessoBasta
<1>15. ASSUME NEW w \in Trabalhadores, Falhar(w) PROVE Inv3'
  <2> DEFINE t == [trab EXCEPT ![w].passo = "marcarFalha"]
  <2>1. t \in [Trabalhadores -> Tarefa]
    BY DEF Inv1, TypeOK, Tarefa, PassosTrab
  <2>2. \A v \in Trabalhadores : /\ t[v].job = trab[v].job /\ (v # w => t[v] = trab[v])
                                  /\ t[w].passo = "marcarFalha"
    BY DEF Inv1, TypeOK, Tarefa
  <2>3. trab' = Envelhecer(t, {Camp(w)}) /\ job' = job
    BY <1>15 DEF Falhar
  <2>4. \A v \in Trabalhadores : trab'[v].passo = t[v].passo /\ trab'[v].job = t[v].job
    <3> HIDE DEF t
    <3> QED BY <2>1, <2>3, EnvelhecerQuadro
  <2> HIDE DEF t
  <2>5. SemSucesso
    BY <2>2, <2>3, <2>4
  <2> QED
    BY <2>5, SemSucessoBasta
<1>16. ASSUME NEW w \in Trabalhadores, MarcarFalha(w) PROVE Inv3'
  <2>1. SemSucesso
    BY <1>16 DEF Inv1, TypeOK, Tarefa, LinhaJob, MarcarFalha, Marcar, Parado
  <2> QED
    BY <2>1, SemSucessoBasta
<1>17. ASSUME NEW w \in Trabalhadores, MarcarSucesso(w) PROVE Inv3'
  <2> USE <1>17 DEF MarcarSucesso, Marcar, Inv1, Inv3, TypeOK
  <2>1. encerradas' = encerradas /\ Camp(w) \in encerradas
    BY DEF campanha, SucessoEncerrou
  <2>2. \A j \in Jobs : job'[j].camp = job[j].camp /\ (j # trab[w].job => job'[j] = job[j])
    BY DEF LinhaJob
  <2>3. \A v \in Trabalhadores : trab'[v].passo = "sucesso" => trab'[v] = trab[v]
    BY DEF Parado
  <2>4. SucessoEncerrou'
    BY <2>1, <2>2, <2>3 DEF SucessoEncerrou, Camp, Referencias, TrabalhoRef, PassosTrab
  <2>5. JobConcluidoEncerrou'
    BY <2>1, <2>2 DEF JobConcluidoEncerrou, Camp
  <2> QED
    BY <2>4, <2>5
<1>21. ASSUME NEW w \in Trabalhadores, MarcarSucessoErro(w) PROVE Inv3'
  <2>1. SemSucesso
    BY <1>21 DEF Inv1, TypeOK, Tarefa, LinhaJob, MarcarSucessoErro, Passar, tabelas
  <2> QED
    BY <2>1, SemSucessoBasta
<1>18. ASSUME NEW w \in Trabalhadores, Cair(w) PROVE Inv3'
  <2>1. SemSucesso
    BY <1>18 DEF Inv1, TypeOK, Tarefa, LinhaJob, Cair, tabelas, Parado
  <2> QED
    BY <2>1, SemSucessoBasta
<1>19. ASSUME NEW j \in Jobs, Reentregar(j) PROVE Inv3'
  <2>1. SemSucesso
    BY <1>19 DEF Inv1, TypeOK, Tarefa, LinhaJob, Reentregar, tabelas
  <2> QED
    BY <2>1, SemSucessoBasta
<1>20. CASE UNCHANGED vars
  <2>1. SemSucesso
    BY <1>20 DEF vars, tabelas
  <2> QED
    BY <2>1, SemSucessoBasta
<1> QED
  BY <1>1, <1>2, <1>3, <1>4, <1>5, <1>6, <1>7, <1>8, <1>9, <1>10, <1>11, <1>12, <1>13, <1>14, <1>15,
     <1>16, <1>17, <1>18, <1>19, <1>20, <1>21 DEF Next, Atender, Trabalhar

-----------------------------------------------------------------------------
(* Who can still write on a closure. *)

\* The message of j moves on without a new copy of it.
Menos(j) ==
    /\ entregas'[j] = entregas[j]
    /\ fila'[j] <= fila[j]
    /\ job'[j].st = "nenhum" => job[j].st = "nenhum" /\ job'[j].camp = job[j].camp
    /\ \A w \in Trabalhadores : trab'[w].job = j => trab[w].job = j
    /\ \A r \in Requisicoes : req'[r].passo = "despachar" /\ req'[r].job = j =>
          req[r].passo = "despachar" /\ req[r].job = j

LEMMA MenosBasta ==
    ASSUME Inv1, Inv1', NEW j \in Jobs, Contada(j), Menos(j)
    PROVE  Contada(j)'
<1>1. fila[j] \in Nat /\ fila'[j] \in Nat /\ entregas[j] \in Nat
  BY DEF Inv1, TypeOK
<1> QED
  BY <1>1 DEF Contada, Menos

\* Two copies are two tries: nothing else is asked of a message delivered again.
LEMMA DuasBastam ==
    ASSUME Inv1, Inv1', NEW j \in Jobs, Contada(j), entregas[j] > 0, entregas'[j] = entregas[j] + 1,
           UNCHANGED <<job, req>>
    PROVE  Contada(j)'
<1>1. entregas[j] \in Nat
  BY DEF Inv1, TypeOK
<1> QED
  BY <1>1 DEF Contada

\* The moves that leave the messages where they are, up to a worker that lets
\* one go.
Quietas ==
    /\ UNCHANGED <<fila, entregas>>
    /\ \A j \in Jobs : job'[j].camp = job[j].camp /\ (job'[j].st = "nenhum" => job[j].st = "nenhum")
    /\ \A w \in Trabalhadores : trab'[w].job \in {trab[w].job, Nada}
    /\ \A r \in Requisicoes : req'[r].passo = "despachar" => req'[r] = req[r]

LEMMA QuietasBastam ==
    ASSUME Inv1, Inv1', Contadas, Quietas
    PROVE  Contadas'
<1> SUFFICES ASSUME NEW j \in Jobs PROVE Contada(j)'
  BY DEF Contadas
<1>1. fila[j] \in Nat
  BY DEF Inv1, TypeOK
<1>2. Menos(j)
  BY <1>1, NadaForaDosIds DEF Quietas, Menos
<1> QED
  BY <1>2, MenosBasta DEF Contadas

\* A job is created with no message, by the one request that will send it.
LEMMA NovaContada ==
    ASSUME Inv1, Inv1', Contadas, NEW r \in Requisicoes, NEW j \in Jobs,
           job[j].st = "nenhum", job'[j].st = "enfileirado",
           \A k \in Jobs \ {j} : job'[k] = job[k],
           req'[r].job = j,
           \A s \in Requisicoes \ {r} : req'[s] = req[s],
           UNCHANGED broker,
           \A w \in Trabalhadores : trab'[w].job = trab[w].job
    PROVE  Contadas'
<1>1. entregas'[j] = 0 /\ fila'[j] = 0 /\ \A w \in Trabalhadores : trab'[w].job # j
  <2>1. Contada(j)
    BY DEF Contadas
  <2> QED
    BY <2>1 DEF Contada, broker
<1>2. \A s \in Requisicoes : req'[s].passo = "despachar" /\ req'[s].job = j => s = r
  BY DEF Inv1, Referencias, DespachoRef
<1>3. Contada(j)'
  BY <1>1, <1>2 DEF Contada
<1>4. ASSUME NEW k \in Jobs \ {j} PROVE Contada(k)'
  <2>1. fila[k] \in Nat
    BY DEF Inv1, TypeOK
  <2>2. Menos(k)
    BY <2>1 DEF Menos, broker
  <2> QED
    BY <2>2, MenosBasta DEF Contadas
<1> QED
  BY <1>3, <1>4 DEF Contadas

LEMMA ContadasPasso ==
    ASSUME Inv1, Inv1', Contadas, [Next]_vars
    PROVE  Contadas'
<1> USE DEF Quietas, Inv1, TypeOK
<1>1. ASSUME NEW r \in Requisicoes, NEW c \in Campanhas, Chegar(r, c) PROVE Contadas'
  <2>1. PICK p \in {"criar", "recriar", "ativar", "elevar"} : Comecar(r, p, c)
    BY <1>1 DEF Chegar, SolicitarEncerramento, SolicitarReprocesso, LerParaAtivar, CriarCampanha
  <2>2. Quietas
    BY <2>1 DEF Comecar, tabelas, broker, Ociosa
  <2> QED
    BY <2>2, QuietasBastam
<1>2. ASSUME NEW r \in Requisicoes, CriarEncerramento(r) PROVE Contadas'
  <2>1. req[r].camp \in Campanhas /\ UNCHANGED broker /\ UNCHANGED trab
    BY <1>2 DEF CriarEncerramento, Referencias, CampRef
  <2>2. CASE req' = [req EXCEPT ![r] = Ociosa] /\ UNCHANGED <<job, status>>
    <3>1. Quietas
      BY <2>1, <2>2 DEF broker, Ociosa
    <3> QED
      BY <3>1, QuietasBastam
  <2>3. ASSUME NEW j \in Jobs, NovoJob(j),
               job' = [job EXCEPT ![j] = [camp |-> req[r].camp, st |-> "enfileirado"]],
               req' = [req EXCEPT ![r].passo = "despachar", ![r].job = j]
        PROVE  Contadas'
    <3>1. /\ job[j].st = "nenhum" /\ job'[j].st = "enfileirado"
          /\ \A k \in Jobs \ {j} : job'[k] = job[k]
      BY <2>1, <2>3 DEF NovoJob
    <3>2. /\ req' \in [Requisicoes -> Requisicao]
          /\ \A s \in Requisicoes \ {r} : req'[s] = req[s]
          /\ req'[r].camp = req[r].camp /\ req'[r].job = j
      BY <2>3, DespachoQuadro
    <3> HIDE DEF Quietas, Inv1, TypeOK
    <3> QED
      BY <2>1, <3>1, <3>2, NovaContada
  <2> QED
    BY <1>2, <2>2, <2>3 DEF CriarEncerramento
<1>3. ASSUME NEW r \in Requisicoes, RecriarJob(r) PROVE Contadas'
  <2>1. req[r].camp \in Campanhas /\ UNCHANGED broker
    BY <1>3 DEF RecriarJob, Referencias, CampRef
  <2>2. PICK j \in Jobs : /\ NovoJob(j)
                          /\ job' = [job EXCEPT ![j] = [camp |-> req[r].camp, st |-> "enfileirado"]]
                          /\ req' = [req EXCEPT ![r].passo = "despachar", ![r].job = j]
    BY <1>3 DEF RecriarJob
  <2>3. \A v \in Trabalhadores : trab'[v].job = trab[v].job
    BY <1>3, EnvelhecerQuadro DEF RecriarJob
  <2>4. /\ job[j].st = "nenhum" /\ job'[j].st = "enfileirado"
        /\ \A k \in Jobs \ {j} : job'[k] = job[k]
    BY <2>1, <2>2 DEF NovoJob
  <2>5. /\ req' \in [Requisicoes -> Requisicao]
        /\ \A s \in Requisicoes \ {r} : req'[s] = req[s]
        /\ req'[r].camp = req[r].camp /\ req'[r].job = j
    BY <2>2, DespachoQuadro
  <2> HIDE DEF Quietas, Inv1, TypeOK
  <2> QED
    BY <2>1, <2>3, <2>4, <2>5, NovaContada
<1>4. ASSUME NEW r \in Requisicoes, Despachar(r) PROVE Contadas'
  <2>1. PICK k \in Jobs : k = req[r].job /\ job[k].st # "nenhum"
    BY <1>4 DEF Despachar, Referencias, DespachoRef
  <2>2. entregas[k] = 0 /\ fila[k] = 0 /\ \A w \in Trabalhadores : trab[w].job # k
    <3>1. Contada(k) /\ req[r].passo = "despachar"
      BY <1>4 DEF Despachar, Contadas
    <3> QED
      BY <2>1, <3>1 DEF Contada
  <2>3. \A s \in Requisicoes : req'[s].passo = "despachar" => req'[s] = req[s] /\ s # r
    BY <1>4 DEF Despachar, Ociosa
  <2>4. \A s \in Requisicoes : req'[s].passo = "despachar" => req'[s].job # k
    BY <1>4, <2>1, <2>3 DEF Despachar, Contadas, Contada
  <2>5. Contada(k)'
    <3>1. /\ job' = job /\ trab' = trab
          /\ fila' = [fila EXCEPT ![k] = @ + 1] /\ entregas' = [entregas EXCEPT ![k] = @ + 1]
      BY <1>4, <2>1 DEF Despachar, tabelas
    <3>2. fila'[k] = 1 /\ entregas'[k] = 1
      BY <2>2, <3>1
    <3> QED
      BY <2>1, <2>2, <2>4, <3>1, <3>2 DEF Contada
  <2>6. ASSUME NEW j \in Jobs \ {k} PROVE Contada(j)'
    <3>1. Menos(j)
      BY <1>4, <2>1, <2>3 DEF Despachar, tabelas, Menos
    <3> QED
      BY <3>1, MenosBasta DEF Contadas
  <2> QED
    BY <2>5, <2>6 DEF Contadas
<1>5. ASSUME NEW r \in Requisicoes, DespachoPerdido(r) PROVE Contadas'
  <2>1. Quietas
    BY <1>5 DEF DespachoPerdido, tabelas, broker, Ociosa
  <2> QED
    BY <2>1, QuietasBastam
<1>6. ASSUME NEW r \in Requisicoes, Fotografar(r) PROVE Contadas'
  <2>1. /\ req' \in [Requisicoes -> Requisicao]
        /\ \A s \in Requisicoes \ {r} : req'[s] = req[s]
        /\ req'[r].camp = req[r].camp /\ req'[r].passo = "desativar"
    <3>1. req' = [req EXCEPT ![r].passo = "desativar", ![r].outras = ativas \ {req[r].camp}]
      BY <1>6 DEF Fotografar
    <3>2. ativas \ {req[r].camp} \in SUBSET Campanhas
      OBVIOUS
    <3> QED
      BY <3>1, <3>2, OutrasQuadro
  <2>2. Quietas
    BY <1>6, <2>1 DEF Fotografar, tabelas, broker
  <2> QED
    BY <2>2, QuietasBastam
<1>7. ASSUME NEW r \in Requisicoes, DesativarOutras(r) PROVE Contadas'
  <2>1. /\ req' \in [Requisicoes -> Requisicao]
        /\ \A s \in Requisicoes \ {r} : req'[s] = req[s]
        /\ req'[r].camp = req[r].camp /\ req'[r].passo = "elevar"
    <3>1. req' = [req EXCEPT ![r].passo = "elevar", ![r].outras = req[r].outras \cap ativas]
      BY <1>7 DEF DesativarOutras
    <3>2. req[r].outras \cap ativas \in SUBSET Campanhas
      BY OutrasSubconjunto
    <3>3. TypeOK
      OBVIOUS
    <3> HIDE DEF Quietas, Inv1, TypeOK
    <3> QED
      BY <3>1, <3>2, <3>3, OutrasQuadro
  <2>2. Quietas
    BY <1>7, <2>1 DEF DesativarOutras, tabelas, broker
  <2> QED
    BY <2>2, QuietasBastam
<1>8. ASSUME NEW r \in Requisicoes, Elevar(r) PROVE Contadas'
  <2>1. \A v \in Trabalhadores : trab'[v].job = trab[v].job
    BY <1>8, EnvelhecerQuadro DEF Elevar
  <2>2. Quietas
    BY <1>8, <2>1 DEF Elevar, broker, Ociosa
  <2> QED
    BY <2>2, QuietasBastam
<1>9. ASSUME NEW w \in Trabalhadores, NEW k \in Jobs, Receber(w, k) PROVE Contadas'
  <2> USE <1>9 DEF Receber, Parado, campanha
  <2>1. /\ fila'[k] = fila[k] - 1 /\ fila[k] > 0 /\ entregas' = entregas /\ req' = req
        /\ trab'[w].job = k /\ \A v \in Trabalhadores \ {w} : trab'[v] = trab[v]
        /\ job'[k].st = "executando" /\ job'[k].camp = job[k].camp
    BY DEF LinhaJob
  <2>2. Contada(k)'
    <3>1. Contada(k) /\ entregas[k] \in Nat /\ fila[k] \in Nat
      BY DEF Contadas
    <3>2. entregas[k] # 0
      BY <2>1, <3>1 DEF Contada
    <3>3. CASE entregas[k] = 1
      <4>1. fila[k] = 1 /\ \A v \in Trabalhadores : trab[v].job # k
        BY <2>1, <3>1, <3>3 DEF Contada
      <4>2. fila'[k] = 0 /\ \A v \in Trabalhadores : trab'[v].job = k => v = w
        BY <2>1, <4>1
      <4> QED
        BY <2>1, <3>1, <3>3, <4>2 DEF Contada
    <3>4. CASE entregas[k] > 1
      BY <2>1, <3>1, <3>4 DEF Contada
    <3> QED
      BY <3>1, <3>2, <3>3, <3>4
  <2>3. ASSUME NEW j \in Jobs \ {k} PROVE Contada(j)'
    <3>1. Menos(j)
      BY <2>1 DEF Menos
    <3> QED
      BY <3>1, MenosBasta DEF Contadas
  <2> QED
    BY <2>2, <2>3 DEF Contadas
<1>10. ASSUME NEW w \in Trabalhadores, AbrirTransacao(w) PROVE Contadas'
  <2>1. Quietas
    BY <1>10 DEF AbrirTransacao, Passar, tabelas, broker, Tarefa
  <2> QED
    BY <2>1, QuietasBastam
<1>11. ASSUME NEW w \in Trabalhadores, TravarCampanha(w) PROVE Contadas'
  <2>1. Quietas
    BY <1>11 DEF TravarCampanha, Passar, tabelas, broker, Tarefa
  <2> QED
    BY <2>1, QuietasBastam
<1>12. ASSUME NEW w \in Trabalhadores, LerEncerramento(w) PROVE Contadas'
  <2>1. Quietas
    BY <1>12 DEF LerEncerramento, Passar, tabelas, broker, Tarefa
  <2> QED
    BY <2>1, QuietasBastam
<1>13. ASSUME NEW w \in Trabalhadores, Consolidar(w) PROVE Contadas'
  <2> DEFINE t == [trab EXCEPT ![w].passo = "sucesso"]
  <2>1. t \in [Trabalhadores -> Tarefa] /\ \A v \in Trabalhadores : t[v].job = trab[v].job
    BY DEF Tarefa, PassosTrab
  <2>2. \A v \in Trabalhadores : trab'[v].job = trab[v].job
    <3>1. trab' = Envelhecer(t, {Camp(w)})
      BY <1>13 DEF Consolidar
    <3> HIDE DEF t
    <3> QED BY <2>1, <3>1, EnvelhecerQuadro
  <2>3. Quietas
    BY <1>13, <2>2 DEF Consolidar, broker
  <2> QED
    BY <2>3, QuietasBastam
<1>14. ASSUME NEW w \in Trabalhadores, ConsolidarErro(w) PROVE Contadas'
  <2>1. Quietas
    BY <1>14 DEF ConsolidarErro, Passar, tabelas, broker, Tarefa
  <2> QED
    BY <2>1, QuietasBastam
<1>15. ASSUME NEW w \in Trabalhadores, Falhar(w) PROVE Contadas'
  <2> DEFINE t == [trab EXCEPT ![w].passo = "marcarFalha"]
  <2>1. t \in [Trabalhadores -> Tarefa] /\ \A v \in Trabalhadores : t[v].job = trab[v].job
    BY DEF Tarefa, PassosTrab
  <2>2. \A v \in Trabalhadores : trab'[v].job = trab[v].job
    <3>1. trab' = Envelhecer(t, {Camp(w)})
      BY <1>15 DEF Falhar
    <3> HIDE DEF t
    <3> QED BY <2>1, <3>1, EnvelhecerQuadro
  <2>3. Quietas
    BY <1>15, <2>2 DEF Falhar, broker
  <2> QED
    BY <2>3, QuietasBastam
<1>16. ASSUME NEW w \in Trabalhadores, MarcarFalha(w) PROVE Contadas'
  <2>1. Quietas
    BY <1>16 DEF MarcarFalha, Marcar, broker, Parado, LinhaJob
  <2> QED
    BY <2>1, QuietasBastam
<1>17. ASSUME NEW w \in Trabalhadores, MarcarSucesso(w) PROVE Contadas'
  <2>1. Quietas
    BY <1>17 DEF MarcarSucesso, Marcar, broker, Parado, LinhaJob
  <2> QED
    BY <2>1, QuietasBastam
<1>18. ASSUME NEW w \in Trabalhadores, MarcarSucessoErro(w) PROVE Contadas'
  <2>1. Quietas
    BY <1>18 DEF MarcarSucessoErro, Passar, tabelas, broker, Tarefa
  <2> QED
    BY <2>1, QuietasBastam
<1>19. ASSUME NEW w \in Trabalhadores, NEW k \in Jobs, trab[w].job = k, Contada(k) PROVE entregas[k] > 0
  BY <1>19 DEF Contada
<1>20. ASSUME NEW w \in Trabalhadores, Cair(w) PROVE Contadas'
  <2>1. PICK k \in Jobs : k = trab[w].job
    BY <1>20 DEF Cair, Referencias, TrabalhoRef
  <2>2. /\ UNCHANGED <<job, req>> /\ entregas' = [entregas EXCEPT ![k] = @ + 1]
        /\ fila' = [fila EXCEPT ![k] = @ + 1]
        /\ \A v \in Trabalhadores : trab'[v].job \in {trab[v].job, Nada}
    BY <1>20, <2>1 DEF Cair, tabelas, Parado
  <2>3. Contada(k)'
    <3>1. Contada(k) /\ entregas[k] > 0 /\ entregas'[k] = entregas[k] + 1
      BY <1>19, <2>1, <2>2 DEF Contadas
    <3> HIDE DEF Inv1, TypeOK
    <3> QED
      BY <2>2, <3>1, DuasBastam
  <2>4. ASSUME NEW j \in Jobs \ {k} PROVE Contada(j)'
    <3>1. Menos(j)
      BY <2>2, NadaForaDosIds DEF Menos
    <3> QED
      BY <3>1, MenosBasta DEF Contadas
  <2> QED
    BY <2>3, <2>4 DEF Contadas
<1>21. ASSUME NEW k \in Jobs, Reentregar(k) PROVE Contadas'
  <2>1. /\ UNCHANGED <<job, req, trab>> /\ entregas' = [entregas EXCEPT ![k] = @ + 1]
        /\ fila' = [fila EXCEPT ![k] = @ + 1]
    BY <1>21 DEF Reentregar, tabelas
  <2>2. PICK w \in Trabalhadores : trab[w].job = k
    BY <1>21 DEF Reentregar
  <2>3. Contada(k)'
    <3>1. Contada(k) /\ entregas[k] > 0 /\ entregas'[k] = entregas[k] + 1
      BY <1>19, <2>1, <2>2 DEF Contadas
    <3> HIDE DEF Inv1, TypeOK
    <3> QED
      BY <2>1, <3>1, DuasBastam
  <2>4. ASSUME NEW j \in Jobs \ {k} PROVE Contada(j)'
    <3>1. Menos(j)
      BY <2>1 DEF Menos
    <3> QED
      BY <3>1, MenosBasta DEF Contadas
  <2> QED
    BY <2>3, <2>4 DEF Contadas
<1>22. CASE UNCHANGED vars
  <2>1. Quietas
    BY <1>22 DEF vars, tabelas, broker
  <2> QED
    BY <2>1, QuietasBastam
<1> QED
  BY <1>1, <1>2, <1>3, <1>4, <1>5, <1>6, <1>7, <1>9, <1>8, <1>10, <1>11, <1>12, <1>13, <1>14, <1>15,
     <1>16, <1>17, <1>18, <1>20, <1>21, <1>22 DEF Next, Atender, Trabalhar

\* A closure keeps its jobs and never loses a try.
LEMMA RepetidaFica ==
    ASSUME NEW c \in Campanhas, Repetida(c),
           \A j \in Jobs : job[j].camp = c => job'[j].camp = c,
           \A j \in Jobs : entregas[j] > 1 => entregas'[j] > 1
    PROVE  Repetida(c)'
  BY DEF Repetida

\* The worker that closes a campaign tried once is the last to touch it.
LEMMA ConsolidarFaz ==
    ASSUME Inv1, Contadas, NEW w \in Trabalhadores, Consolidar(w), NEW c \in Campanhas, c = Camp(w),
           ~Repetida(c)
    PROVE  Feita(c)'
<1>1. PICK k \in Jobs : k = trab[w].job /\ job[k].camp = c /\ trab[w].passo = "consolidar"
  BY DEF Consolidar, Inv1, Referencias, TrabalhoRef, Camp
<1>2. status'[c] = "concluido"
  BY ConsolidarMuda DEF Inv1, TypeOK
<1>3. UNCHANGED <<job, fila, entregas, req>>
  BY DEF Consolidar, broker
<1>4. \A v \in Trabalhadores : trab'[v].job = trab[v].job /\ trab'[w].passo = "sucesso"
  <2> DEFINE t == [trab EXCEPT ![w].passo = "sucesso"]
  <2>1. /\ t \in [Trabalhadores -> Tarefa] /\ \A v \in Trabalhadores : t[v].job = trab[v].job
        /\ t[w].passo = "sucesso"
    BY DEF Tarefa, PassosTrab, Inv1, TypeOK
  <2>2. trab' = Envelhecer(t, {Camp(w)})
    BY DEF Consolidar
  <2> HIDE DEF t
  <2> QED
    BY <2>1, <2>2, EnvelhecerQuadro
<1>5. \A j \in Jobs : job[j].camp = c => j = k /\ entregas[j] <= 1
  BY <1>1 DEF Repetida, Inv1, TypeOK
<1>6. /\ entregas[k] = 1 /\ fila[k] = 0
      /\ \A v \in Trabalhadores : trab[v].job = k => v = w
      /\ \A r \in Requisicoes : req[r].passo = "despachar" => req[r].job # k
  <2>1. Contada(k) /\ entregas[k] \in Nat
    BY DEF Contadas, Inv1, TypeOK
  <2>2. entregas[k] <= 1
    BY <1>1, <1>5
  <2>3. entregas[k] # 0
    BY <1>1, <2>1 DEF Contada
  <2>4. entregas[k] = 1
    BY <2>1, <2>2, <2>3
  <2> QED
    BY <1>1, <2>1, <2>4 DEF Contada
<1>7. \A r \in Requisicoes : req[r].passo = "despachar" => req[r].job \in Jobs
  BY DEF Inv1, Referencias, DespachoRef
<1> QED
  BY <1>2, <1>3, <1>4, <1>5, <1>6, <1>7 DEF Feita, Camp

\* What a step leaves of each closed campaign.
Adiante ==
    /\ encerradas' = encerradas
    /\ semMarca \subseteq semMarca'
    /\ \A j \in Jobs : job[j].camp \in Campanhas => job'[j].camp = job[j].camp
    /\ \A j \in Jobs : entregas'[j] >= entregas[j]
    /\ \A c \in encerradas : Feita(c) => Feita(c)' \/ Repetida(c)' \/ c \in semMarca'

LEMMA AdianteBasta ==
    ASSUME Inv1, Inv1', EncerradaFeita, Adiante
    PROVE  EncerradaFeita'
<1> SUFFICES ASSUME NEW c \in encerradas
             PROVE  /\ \E j \in Jobs : job'[j].camp = c
                    /\ Repetida(c)' \/ c \in semMarca' \/ Feita(c)'
  BY DEF EncerradaFeita, Adiante
<1>1. c \in Campanhas /\ \A j \in Jobs : entregas[j] \in Nat /\ entregas'[j] \in Nat
  BY DEF Inv1, TypeOK
<1>2. \E j \in Jobs : job'[j].camp = c
  BY <1>1 DEF EncerradaFeita, Adiante
<1>3. Repetida(c) => Repetida(c)'
  <2>1. \A j \in Jobs : job[j].camp = c => job'[j].camp = c
    BY <1>1 DEF Adiante
  <2>2. \A j \in Jobs : entregas[j] > 1 => entregas'[j] > 1
    BY <1>1 DEF Adiante
  <2> QED
    BY <1>1, <2>1, <2>2, RepetidaFica
<1> QED
  BY <1>2, <1>3 DEF EncerradaFeita, Adiante

\* A step that moves no message and writes no failure on a closed campaign.
Calma ==
    /\ UNCHANGED <<fila, entregas, semMarca, encerradas>>
    /\ \A j \in Jobs : job'[j].camp = job[j].camp
    /\ \A c \in encerradas : Feita(c) => status'[c] = status[c]
    /\ \A w \in Trabalhadores : trab'[w].job \in {trab[w].job, Nada}
    /\ \A w \in Trabalhadores : trab'[w].job \in Jobs => trab[w].passo \in {trab'[w].passo} \cup (PassosTrab \ {"sucesso"})
    /\ \A r \in Requisicoes : req'[r].passo = "despachar" => req'[r] = req[r]

LEMMA CalmaBasta ==
    ASSUME Inv1, Inv1', EncerradaFeita, Calma
    PROVE  EncerradaFeita'
<1>1. ASSUME NEW c \in encerradas, Feita(c) PROVE Feita(c)'
  <2>1. status'[c] # "falha"
    BY <1>1 DEF Calma, Feita
  <2>2. ASSUME NEW w \in Trabalhadores, trab'[w].job \in Jobs, Camp(w)' = c
        PROVE  trab'[w].passo = "sucesso"
    <3>1. trab'[w].job = trab[w].job /\ Camp(w) = c
      BY <2>2, NadaForaDosIds DEF Calma, Camp
    <3> QED
      BY <1>1, <2>2, <3>1 DEF Calma, Feita
  <2>3. \A j \in Jobs : job'[j].camp = c => fila'[j] = 0
    BY <1>1 DEF Calma, Feita
  <2>4. \A r \in Requisicoes : req'[r].passo = "despachar" => job'[req'[r].job].camp # c
    BY <1>1 DEF Calma, Feita, Inv1, Referencias, DespachoRef
  <2> QED
    BY <2>1, <2>2, <2>3, <2>4 DEF Feita
<1>2. \A j \in Jobs : entregas'[j] >= entregas[j]
  BY DEF Calma, Inv1, TypeOK
<1>3. Adiante
  BY <1>1, <1>2 DEF Adiante, Calma
<1> QED
  BY <1>3, AdianteBasta

\* A new job of a closed campaign is a second try.
LEMMA NovaAdiante ==
    ASSUME Inv1, Inv1', Contadas, EncerradaFeita, NEW r \in Requisicoes, NEW j \in Jobs,
           job[j].st = "nenhum", job'[j].camp = req[r].camp,
           \A k \in Jobs \ {j} : job'[k] = job[k],
           req'[r].job = j,
           \A s \in Requisicoes \ {r} : req'[s] = req[s],
           UNCHANGED <<broker, encerradas, semMarca>>,
           \A c \in Campanhas \ {req[r].camp} : status'[c] = status[c],
           \A w \in Trabalhadores : trab'[w].job = trab[w].job /\ trab'[w].passo = trab[w].passo
    PROVE  EncerradaFeita'
<1>1. job[j].camp = Nada /\ \A k \in Jobs : job[k].camp \in Campanhas => k # j
  BY NadaForaDosIds DEF Contadas, Contada
<1>2. ASSUME NEW c \in encerradas, Feita(c), c # req[r].camp PROVE Feita(c)'
  <2>0. c \in Campanhas
    BY DEF Inv1, TypeOK
  <2>1. status'[c] # "falha"
    BY <1>2, <2>0 DEF Feita
  <2>2. ASSUME NEW w \in Trabalhadores, trab'[w].job \in Jobs, Camp(w)' = c
        PROVE  trab'[w].passo = "sucesso"
    BY <1>2, <2>2 DEF Feita, Camp
  <2>3. \A k \in Jobs : job'[k].camp = c => fila'[k] = 0
    BY <1>2 DEF Feita, broker
  <2>4. \A s \in Requisicoes : req'[s].passo = "despachar" => job'[req'[s].job].camp # c
    BY <1>2 DEF Feita, Inv1, Referencias, DespachoRef
  <2> QED
    BY <2>1, <2>2, <2>3, <2>4 DEF Feita
<1>3. ASSUME NEW c \in encerradas, c = req[r].camp PROVE Repetida(c)'
  <2>1. PICK k \in Jobs : job[k].camp = c
    BY DEF EncerradaFeita
  <2>2. k # j
    BY <1>1, <2>1 DEF Inv1, TypeOK
  <2> QED
    BY <1>3, <2>1, <2>2 DEF Repetida
<1>4. \A k \in Jobs : entregas'[k] >= entregas[k]
  BY DEF broker, Inv1, TypeOK
<1>5. Adiante
  BY <1>1, <1>2, <1>3, <1>4 DEF Adiante
<1> QED
  BY <1>5, AdianteBasta

LEMMA EncerradaFeitaPasso ==
    ASSUME Inv1, Inv1', Inv2, Contadas, EncerradaFeita, [Next]_vars
    PROVE  EncerradaFeita'
<1> USE DEF Inv1, TypeOK
<1>1. ASSUME NEW r \in Requisicoes, NEW c \in Campanhas, Chegar(r, c) PROVE EncerradaFeita'
  <2>1. PICK p \in {"criar", "recriar", "ativar", "elevar"} : Comecar(r, p, c)
    BY <1>1 DEF Chegar, SolicitarEncerramento, SolicitarReprocesso, LerParaAtivar, CriarCampanha
  <2>2. Calma
    BY <2>1 DEF Calma, Comecar, tabelas, campanha, broker, Ociosa
  <2> QED
    BY <2>2, CalmaBasta
<1>2. ASSUME NEW r \in Requisicoes, CriarEncerramento(r) PROVE EncerradaFeita'
  <2>1. UNCHANGED <<campanha, broker, trab, semMarca>>
    BY <1>2 DEF CriarEncerramento
  <2>2. CASE req' = [req EXCEPT ![r] = Ociosa] /\ UNCHANGED <<job, status>>
    <3>1. Calma
      BY <2>1, <2>2 DEF Calma, campanha, broker, Ociosa
    <3> QED
      BY <3>1, CalmaBasta
  <2>3. ASSUME NEW j \in Jobs, NovoJob(j),
               job' = [job EXCEPT ![j] = [camp |-> req[r].camp, st |-> "enfileirado"]],
               status' = [status EXCEPT ![req[r].camp] = "enfileirado"],
               req' = [req EXCEPT ![r].passo = "despachar", ![r].job = j]
        PROVE  EncerradaFeita'
    <3>1. /\ job[j].st = "nenhum" /\ job'[j].camp = req[r].camp
          /\ \A k \in Jobs \ {j} : job'[k] = job[k]
          /\ \A c \in Campanhas \ {req[r].camp} : status'[c] = status[c]
      BY <2>3 DEF NovoJob
    <3>2. /\ req' \in [Requisicoes -> Requisicao]
          /\ \A s \in Requisicoes \ {r} : req'[s] = req[s]
          /\ req'[r].camp = req[r].camp /\ req'[r].job = j
      BY <2>3, DespachoQuadro
    <3> HIDE DEF Inv1, TypeOK
    <3> QED
      BY <2>1, <3>1, <3>2, NovaAdiante DEF campanha
  <2> QED
    BY <1>2, <2>2, <2>3 DEF CriarEncerramento
<1>3. ASSUME NEW r \in Requisicoes, RecriarJob(r) PROVE EncerradaFeita'
  <2>1. UNCHANGED <<campanha, broker, semMarca>>
    BY <1>3 DEF RecriarJob
  <2>2. PICK j \in Jobs : /\ NovoJob(j)
                          /\ job' = [job EXCEPT ![j] = [camp |-> req[r].camp, st |-> "enfileirado"]]
                          /\ req' = [req EXCEPT ![r].passo = "despachar", ![r].job = j]
    BY <1>3 DEF RecriarJob
  <2>3. \A v \in Trabalhadores : trab'[v].passo = trab[v].passo /\ trab'[v].job = trab[v].job
    BY <1>3, EnvelhecerQuadro DEF RecriarJob
  <2>4. /\ job[j].st = "nenhum" /\ job'[j].camp = req[r].camp
        /\ \A k \in Jobs \ {j} : job'[k] = job[k]
    BY <2>2 DEF NovoJob
  <2>5. \A c \in Campanhas \ {req[r].camp} : status'[c] = status[c]
    <3>1. status' = status \/ status' = [status EXCEPT ![req[r].camp] = "enfileirado"]
      BY <1>3 DEF RecriarJob
    <3> QED
      BY <3>1
  <2>6. /\ req' \in [Requisicoes -> Requisicao]
        /\ \A s \in Requisicoes \ {r} : req'[s] = req[s]
        /\ req'[r].camp = req[r].camp /\ req'[r].job = j
    BY <2>2, DespachoQuadro
  <2> HIDE DEF Inv1, TypeOK
  <2> QED
    BY <2>1, <2>3, <2>4, <2>5, <2>6, NovaAdiante DEF campanha
<1>4. ASSUME NEW r \in Requisicoes, Despachar(r) PROVE EncerradaFeita'
  <2>1. PICK k \in Jobs : k = req[r].job /\ req[r].passo = "despachar"
    BY <1>4 DEF Despachar, Referencias, DespachoRef
  <2>2. /\ UNCHANGED <<job, trab, encerradas, status, semMarca>>
        /\ \A j \in Jobs \ {k} : fila'[j] = fila[j]
        /\ \A j \in Jobs : entregas'[j] >= entregas[j]
        /\ \A s \in Requisicoes : req'[s].passo = "despachar" => req'[s] = req[s]
    BY <1>4, <2>1 DEF Despachar, tabelas, campanha, Ociosa
  <2>3. \A c \in encerradas : Feita(c) => Feita(c)'
    BY <2>1, <2>2 DEF Feita, Camp
  <2>4. Adiante
    BY <2>2, <2>3 DEF Adiante
  <2> QED
    BY <2>4, AdianteBasta
<1>5. ASSUME NEW r \in Requisicoes, DespachoPerdido(r) PROVE EncerradaFeita'
  <2>1. Calma
    BY <1>5 DEF Calma, DespachoPerdido, tabelas, campanha, broker, Ociosa
  <2> QED
    BY <2>1, CalmaBasta
<1>6. ASSUME NEW r \in Requisicoes, Fotografar(r) PROVE EncerradaFeita'
  <2>1. /\ req' \in [Requisicoes -> Requisicao]
        /\ \A s \in Requisicoes \ {r} : req'[s] = req[s]
        /\ req'[r].camp = req[r].camp /\ req'[r].passo = "desativar"
    <3>1. req' = [req EXCEPT ![r].passo = "desativar", ![r].outras = ativas \ {req[r].camp}]
      BY <1>6 DEF Fotografar
    <3>2. ativas \ {req[r].camp} \in SUBSET Campanhas
      OBVIOUS
    <3> QED
      BY <3>1, <3>2, OutrasQuadro
  <2>2. Calma
    BY <1>6, <2>1 DEF Calma, Fotografar, tabelas, campanha, broker
  <2> QED
    BY <2>2, CalmaBasta
<1>7. ASSUME NEW r \in Requisicoes, DesativarOutras(r) PROVE EncerradaFeita'
  <2>1. /\ req' \in [Requisicoes -> Requisicao]
        /\ \A s \in Requisicoes \ {r} : req'[s] = req[s]
        /\ req'[r].camp = req[r].camp /\ req'[r].passo = "elevar"
    <3>1. req' = [req EXCEPT ![r].passo = "elevar", ![r].outras = req[r].outras \cap ativas]
      BY <1>7 DEF DesativarOutras
    <3>2. req[r].outras \cap ativas \in SUBSET Campanhas
      BY OutrasSubconjunto
    <3>3. TypeOK
      OBVIOUS
    <3> HIDE DEF Inv1, TypeOK
    <3> QED
      BY <3>1, <3>2, <3>3, OutrasQuadro
  <2>2. Calma
    BY <1>7, <2>1 DEF Calma, DesativarOutras, tabelas, campanha, broker
  <2> QED
    BY <2>2, CalmaBasta
<1>8. ASSUME NEW r \in Requisicoes, Elevar(r) PROVE EncerradaFeita'
  <2>1. \A v \in Trabalhadores : trab'[v].job = trab[v].job /\ trab'[v].passo = trab[v].passo
    BY <1>8, EnvelhecerQuadro DEF Elevar
  <2>2. Calma
    BY <1>8, <2>1 DEF Calma, Elevar, broker, Ociosa
  <2> QED
    BY <2>2, CalmaBasta
<1>9. ASSUME NEW w \in Trabalhadores, NEW k \in Jobs, Receber(w, k) PROVE EncerradaFeita'
  <2>1. /\ UNCHANGED <<entregas, req, encerradas, status, semMarca>>
        /\ fila[k] > 0 /\ \A j \in Jobs \ {k} : fila'[j] = fila[j]
        /\ \A j \in Jobs : job'[j].camp = job[j].camp
        /\ trab'[w].job = k /\ \A v \in Trabalhadores \ {w} : trab'[v] = trab[v]
    BY <1>9 DEF Receber, Parado, campanha, LinhaJob
  <2>2. \A j \in Jobs : entregas'[j] >= entregas[j]
    BY <2>1
  <2>3. \A r \in Requisicoes : req[r].passo = "despachar" => req[r].job \in Jobs
    BY DEF Referencias, DespachoRef
  <2>4. ASSUME NEW c \in encerradas, Feita(c) PROVE Feita(c)'
    <3>1. job[k].camp # c
      BY <2>1, <2>4 DEF Feita
    <3>2. \A v \in Trabalhadores : trab'[v].job \in Jobs /\ Camp(v)' = c => trab'[v].passo = "sucesso"
      BY <2>1, <2>4, <3>1 DEF Feita, Camp
    <3>3. \A j \in Jobs : job'[j].camp = c => fila'[j] = 0
      BY <2>1, <2>4, <3>1 DEF Feita
    <3>4. \A r \in Requisicoes : req'[r].passo = "despachar" => job'[req'[r].job].camp # c
      BY <2>1, <2>3, <2>4 DEF Feita
    <3> QED
      BY <2>1, <2>4, <3>2, <3>3, <3>4 DEF Feita
  <2>5. Adiante
    BY <2>1, <2>2, <2>4 DEF Adiante
  <2> QED
    BY <2>5, AdianteBasta
<1>10. ASSUME NEW w \in Trabalhadores, AbrirTransacao(w) PROVE EncerradaFeita'
  <2>1. Calma
    BY <1>10 DEF Calma, AbrirTransacao, Passar, tabelas, campanha, broker, Tarefa, PassosTrab
  <2> QED
    BY <2>1, CalmaBasta
<1>11. ASSUME NEW w \in Trabalhadores, TravarCampanha(w) PROVE EncerradaFeita'
  <2>1. Calma
    BY <1>11 DEF Calma, TravarCampanha, Passar, tabelas, campanha, broker, Tarefa, PassosTrab
  <2> QED
    BY <2>1, CalmaBasta
<1>12. ASSUME NEW w \in Trabalhadores, LerEncerramento(w) PROVE EncerradaFeita'
  <2>1. Calma
    BY <1>12 DEF Calma, LerEncerramento, Passar, tabelas, campanha, broker, Tarefa, PassosTrab
  <2> QED
    BY <2>1, CalmaBasta
<1>13. ASSUME NEW w \in Trabalhadores, Consolidar(w) PROVE EncerradaFeita'
  <2>1. PICK d \in Campanhas : d = Camp(w)
    BY <1>13, ConsolidarMuda
  <2>2. PICK k \in Jobs : k = trab[w].job
    BY <1>13 DEF Consolidar, Referencias, TrabalhoRef
  <2> DEFINE t == [trab EXCEPT ![w].passo = "sucesso"]
  <2>3. \A v \in Trabalhadores : /\ trab'[v].job = trab[v].job
                                 /\ trab'[v].passo \in {trab[v].passo, "sucesso"}
    <3>1. /\ t \in [Trabalhadores -> Tarefa]
          /\ \A v \in Trabalhadores : t[v].job = trab[v].job /\ t[v].passo \in {trab[v].passo, "sucesso"}
      BY DEF Tarefa, PassosTrab
    <3>2. trab' = Envelhecer(t, {Camp(w)})
      BY <1>13 DEF Consolidar
    <3> HIDE DEF t
    <3> QED
      BY <3>1, <3>2, EnvelhecerQuadro
  <2> HIDE DEF t
  <2>4. /\ UNCHANGED <<job, fila, entregas, req, semMarca>>
        /\ encerradas' = encerradas \cup {d}
        /\ \A c \in Campanhas : status'[c] \in {status[c], "concluido"}
    BY <1>13, <2>1, ConsolidarMuda DEF Consolidar, broker
  <2>5. \A c \in encerradas : Feita(c) => Feita(c)'
    BY <2>3, <2>4 DEF Feita, Camp
  <2>6. \A c : Repetida(c) => Repetida(c)'
    BY <2>4 DEF Repetida
  <2>7. Repetida(d) \/ Feita(d)'
    <3> HIDE DEF Inv1, TypeOK
    <3> QED
      BY <1>13, <2>1, ConsolidarFaz
  <2>8. \A c \in encerradas' : \E j \in Jobs : job'[j].camp = c
    BY <2>1, <2>2, <2>4 DEF EncerradaFeita, Camp
  <2> QED
    BY <2>4, <2>5, <2>6, <2>7, <2>8 DEF EncerradaFeita
<1>14. ASSUME NEW w \in Trabalhadores, ConsolidarErro(w) PROVE EncerradaFeita'
  <2>1. Calma
    BY <1>14 DEF Calma, ConsolidarErro, Passar, tabelas, campanha, broker, Tarefa, PassosTrab
  <2> QED
    BY <2>1, CalmaBasta
<1>15. ASSUME NEW w \in Trabalhadores, Falhar(w) PROVE EncerradaFeita'
  <2> DEFINE t == [trab EXCEPT ![w].passo = "marcarFalha"]
  <2>1. /\ \A v \in Trabalhadores : trab'[v].job = trab[v].job
        /\ \A v \in Trabalhadores \ {w} : trab'[v].passo = trab[v].passo
    <3>1. /\ t \in [Trabalhadores -> Tarefa] /\ \A v \in Trabalhadores : t[v].job = trab[v].job
          /\ \A v \in Trabalhadores \ {w} : t[v].passo = trab[v].passo
      BY DEF Tarefa, PassosTrab
    <3>2. trab' = Envelhecer(t, {Camp(w)})
      BY <1>15 DEF Falhar
    <3> HIDE DEF t
    <3> QED
      BY <3>1, <3>2, EnvelhecerQuadro
  <2> HIDE DEF t
  <2>2. trab[w].passo = "falhar" /\ trab[w].job \in Jobs /\ status' = [status EXCEPT ![Camp(w)] = "falha"]
    BY <1>15 DEF Falhar, Referencias, TrabalhoRef
  <2>3. \A c \in encerradas : Feita(c) => status'[c] = status[c]
    BY <2>2 DEF Feita
  <2>4. UNCHANGED <<fila, entregas, semMarca, encerradas, job, req>>
    BY <1>15 DEF Falhar, broker, campanha
  <2>5. Calma
    BY <2>1, <2>2, <2>3, <2>4 DEF Calma, PassosTrab, Tarefa
  <2> QED
    BY <2>5, CalmaBasta
<1>16. ASSUME NEW w \in Trabalhadores, MarcarFalha(w) PROVE EncerradaFeita'
  <2>1. Calma
    BY <1>16, NadaForaDosIds DEF Calma, MarcarFalha, Marcar, campanha, broker, Parado, LinhaJob, PassosTrab, Tarefa
  <2> QED
    BY <2>1, CalmaBasta
<1>17. ASSUME NEW w \in Trabalhadores, MarcarSucesso(w) PROVE EncerradaFeita'
  <2>1. Calma
    BY <1>17, NadaForaDosIds DEF Calma, MarcarSucesso, Marcar, campanha, broker, Parado, LinhaJob, PassosTrab, Tarefa
  <2> QED
    BY <2>1, CalmaBasta
<1>18. ASSUME NEW w \in Trabalhadores, MarcarSucessoErro(w) PROVE EncerradaFeita'
  <2>1. /\ UNCHANGED <<job, fila, entregas, req, encerradas, status>>
        /\ semMarca' = semMarca \cup {Camp(w)}
        /\ \A v \in Trabalhadores \ {w} : trab'[v] = trab[v]
        /\ trab'[w].job = trab[w].job
    BY <1>18 DEF MarcarSucessoErro, Passar, tabelas, campanha, broker, Tarefa
  <2>2. \A c \in encerradas : Feita(c) => Feita(c)' \/ c \in semMarca'
    BY <2>1 DEF Feita, Camp
  <2>3. Adiante
    BY <2>1, <2>2 DEF Adiante
  <2> QED
    BY <2>3, AdianteBasta
<1>19. ASSUME NEW w \in Trabalhadores, NEW k \in Jobs, trab[w].job = k, Contada(k) PROVE entregas[k] > 0
  BY <1>19 DEF Contada
<1>20. ASSUME NEW k \in Jobs, NEW w \in Trabalhadores, trab[w].job = k,
              UNCHANGED <<job, req, encerradas, status, semMarca>>,
              entregas' = [entregas EXCEPT ![k] = @ + 1],
              \A j \in Jobs \ {k} : fila'[j] = fila[j],
              \A v \in Trabalhadores : trab'[v] \in {trab[v], Parado}
       PROVE  EncerradaFeita'
  <2>1. entregas'[k] > 1 /\ \A j \in Jobs : entregas'[j] >= entregas[j]
    BY <1>19, <1>20 DEF Contadas
  <2>2. ASSUME NEW c \in encerradas, Feita(c) PROVE Feita(c)' \/ Repetida(c)'
    <3>1. CASE job[k].camp = c
      BY <1>20, <2>1, <3>1 DEF Repetida
    <3>2. CASE job[k].camp # c
      BY <1>20, <2>2, <3>2, NadaForaDosIds DEF Feita, Camp, Parado
    <3> QED
      BY <3>1, <3>2
  <2>3. Adiante
    BY <1>20, <2>1, <2>2 DEF Adiante
  <2> QED
    BY <2>3, AdianteBasta
<1>21. ASSUME NEW w \in Trabalhadores, Cair(w) PROVE EncerradaFeita'
  <2>1. PICK k \in Jobs : k = trab[w].job
    BY <1>21 DEF Cair, Referencias, TrabalhoRef
  <2>2. /\ UNCHANGED <<job, req, encerradas, status, semMarca>>
        /\ entregas' = [entregas EXCEPT ![k] = @ + 1]
        /\ \A j \in Jobs \ {k} : fila'[j] = fila[j]
        /\ \A v \in Trabalhadores : trab'[v] \in {trab[v], Parado}
    BY <1>21, <2>1 DEF Cair, tabelas, campanha
  <2> QED
    BY <1>20, <2>1, <2>2
<1>22. ASSUME NEW k \in Jobs, Reentregar(k) PROVE EncerradaFeita'
  <2>1. PICK w \in Trabalhadores : trab[w].job = k
    BY <1>22 DEF Reentregar
  <2>2. /\ UNCHANGED <<job, req, encerradas, status, semMarca>>
        /\ entregas' = [entregas EXCEPT ![k] = @ + 1]
        /\ \A j \in Jobs \ {k} : fila'[j] = fila[j]
        /\ \A v \in Trabalhadores : trab'[v] \in {trab[v], Parado}
    BY <1>22 DEF Reentregar, tabelas, campanha
  <2> QED
    BY <1>20, <2>1, <2>2
<1>23. CASE UNCHANGED vars
  <2>1. Calma
    BY <1>23 DEF Calma, vars, tabelas, campanha, broker
  <2> QED
    BY <2>1, CalmaBasta
<1> QED
  BY <1>1, <1>2, <1>3, <1>4, <1>5, <1>6, <1>7, <1>9, <1>8, <1>10, <1>11, <1>12, <1>13, <1>14, <1>15,
     <1>16, <1>17, <1>18, <1>21, <1>22, <1>23 DEF Next, Atender, Trabalhar

LEMMA Inv4Passo ==
    ASSUME Inv1, Inv1', Inv2, Inv4, [Next]_vars
    PROVE  Inv4'
  BY ContadasPasso, EncerradaFeitaPasso DEF Inv4

-----------------------------------------------------------------------------
(* The theorems. *)

LEMMA InitIInv == Init => IInv
  BY NadaForaDosIds
  DEF Init, IInv, Inv1, Inv2, Inv3, TypeOK, Requisicao, Ociosa, Tarefa, Parado, LinhaJob, PassosTrab,
      Referencias, TrabalhoRef, FilaRef, JobRef, CampRef, DespachoRef, EncerradaConsolidada,
      ConcluidoConsolidado, SucessoEncerrou, JobConcluidoEncerrou, Inv4, Contadas, Contada, EncerradaFeita

LEMMA IInvPasso == IInv /\ [Next]_vars => IInv' /\ SoEncerra
  BY Inv1Passo, Inv2Passo, Inv3Passo, Inv4Passo DEF IInv

\* The inductive invariant holds in every reachable state.
THEOREM Invariante == Spec => []IInv
  BY InitIInv, IInvPasso, PTL DEF Spec

\* The variables keep their types, whatever the order of the deliveries.
THEOREM TiposCorretos == Spec => []TypeOK
<1>1. IInv => TypeOK
  BY DEF IInv, Inv1
<1> QED
  BY <1>1, Invariante, PTL

\* A closed campaign has its snapshot and is not active, and a concluded job
\* belongs to a closed campaign, also with deliveries repeated while the first
\* still runs.
THEOREM EncerramentoConferido == Spec => []EncerramentoConfere
<1>1. IInv => EncerramentoConfere
  BY DEF IInv, Inv2, Inv3, EncerramentoConfere
<1> QED
  BY <1>1, Invariante, PTL

\* A closure done by its only try never reads as failed, for any number of
\* campaigns, workers and deliveries.
THEOREM FalhaSempreDeRepetida == Spec => []FalhaSoDeRepetida
<1>1. IInv => FalhaSoDeRepetida
  BY DEF IInv, Inv4, EncerradaFeita, Feita, FalhaSoDeRepetida
<1> QED
  BY <1>1, Invariante, PTL

\* No step reopens or reactivates a closed campaign.
THEOREM EncerradaFica == Spec => EncerradaNaoReativa
<1>1. IInv /\ [Next]_vars => [SoEncerra]_vars
  BY IInvPasso
<1>2. Spec => [][SoEncerra]_vars
  BY <1>1, Invariante, PTL DEF Spec
<1> QED
  BY <1>2 DEF EncerradaNaoReativa, SoEncerra
=============================================================================
