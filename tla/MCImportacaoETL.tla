--------------------------- MODULE MCImportacaoETL ---------------------------
(* Small instances of ImportacaoETL: a file whose two rows have the same voter *)
(* card, which the comparison inside the file does not look at.              *)
EXTENDS ImportacaoETL, TLC

CONSTANTS p1, m1, m2

PessoaDasDuas == (1 :> p1) @@ (2 :> p1)
ChavesDeUma == (p1 :> {"titulo"})

\* The mapping m2 takes the wrong column for row 1.
ErradasPorMapa == (m1 :> {}) @@ (m2 :> {1})
=============================================================================
