-------------------------- MODULE MCFilaAtendimento --------------------------
(* Small instances of FilaAtendimento. *)
EXTENDS FilaAtendimento, TLC

Simetria == Permutations(Operadores) \cup Permutations(Requisicoes)
SimetriaReq == Permutations(Requisicoes)
=============================================================================
