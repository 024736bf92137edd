----------------------- MODULE MCEncerramentoCampanha -----------------------
(* Small instances of EncerramentoCampanha. *)
EXTENDS EncerramentoCampanha, TLC

Simetria == Permutations(Trabalhadores) \cup Permutations(Requisicoes) \cup Permutations(Campanhas)
=============================================================================
