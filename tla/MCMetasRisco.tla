---------------------------- MODULE MCMetasRisco ----------------------------
(***************************************************************************)
(* Instance of MetasRisco for TLC.  A behaviour starts in one of two       *)
(* areas: answers about the vote, with no goal, or goals, new or as a      *)
(* computation left them, with nobody on the phone.                        *)
(***************************************************************************)
EXTENDS MetasRisco, TLC

CONSTANTS r1, r2

Parados ==
    /\ passo = [x \in Processos |-> "livre"]
    /\ presas = [x \in Processos |-> {}]
    /\ juntas = {}
    /\ calc = [r \in Chamadas |-> SemCalc]
    /\ job = SemJob
    /\ duvida = {}

InitRespostas ==
    /\ InitVoto
    /\ meta = [m \in Metas |-> [st |-> "livre", qtd |-> 0]]
    /\ acomp = [m \in Metas |-> [d \in Datas |-> SemLinha]]
    /\ alerta = [m \in Metas |-> "resolvido"]
    /\ operacoes = MaxOperacoes
    /\ Parados

\* A goal to create, or one that create_goal left as it is.
InitMetas ==
    /\ lider \in SUBSET Pessoas
    /\ atendimento = [p \in Pessoas |-> [sit |-> "em_atendimento", intencao |-> "nenhuma"]]
    /\ status = [p \in Pessoas |-> "nao_contatado"]
    /\ confirmacao = [p \in Pessoas |-> "nenhuma"]
    /\ conversa = [r \in Conversas |-> SemConversa]
    /\ respostas = MaxRespostas - 1
    /\ ultima = [p \in Pessoas |-> "outra"]
    /\ confusas = {}
    /\ \E criada \in BOOLEAN, q \in Quantidades :
          IF criada
          THEN /\ meta = [m \in Metas |->
                            [st |-> StatusPeloRisco("ativa", Risco(Base, q)), qtd |-> q]]
               /\ acomp = [m \in Metas |-> [d \in Datas |->
                             IF d = Hoje THEN [proj |-> Base, conf |-> 0] ELSE SemLinha]]
               /\ alerta = [m \in Metas |->
                              IF Risco(Base, q) = "sim" THEN "aberto" ELSE "resolvido"]
          ELSE /\ meta = [m \in Metas |-> [st |-> "livre", qtd |-> 0]]
               /\ acomp = [m \in Metas |-> [d \in Datas |-> SemLinha]]
               /\ alerta = [m \in Metas |-> "resolvido"]
    /\ operacoes = 0
    /\ Parados

InitMC == InitRespostas \/ InitMetas

SpecMC == InitMC /\ [][Next]_vars
SpecMCJusta == SpecMC /\ Justica

\* No call while there are goals, and no job while there are calls.
SemMetas ==
    /\ operacoes = MaxOperacoes
    /\ \A m \in Metas : meta[m].st = "livre"
    /\ \A x \in Processos : passo[x] = "livre"
UmaArea == IF SemMetas THEN UNCHANGED passo ELSE UNCHANGED conversa
=============================================================================
