---------------------------- MODULE FilaExclusiva ----------------------------
(***************************************************************************)
(* What the attendance queue promises, whatever requests run together:     *)
(* a person is with nobody or with one operator, an operator takes only a  *)
(* person who is with nobody, and never one more than the limit that holds *)
(* for the operator at that moment.  The limit is a setting: it moves      *)
(* freely, and lowering it takes nobody out of a queue.                    *)
(***************************************************************************)
EXTENDS Integers, FiniteSets

CONSTANTS Operadores, Pessoas, Ninguem

VARIABLES
    dono,      \* pessoa -> the operator attending it, or Ninguem
    teto       \* operator -> how many persons it may have

Fila(o) == {p \in Pessoas : dono[p] = o}

Init == dono = [p \in Pessoas |-> Ninguem] /\ teto \in [Operadores -> Nat]

Assumir(o, p) ==
    /\ dono[p] = Ninguem
    /\ Cardinality(Fila(o)) < teto[o]
    /\ dono' = [dono EXCEPT ![p] = o]

Liberar(p) ==
    /\ dono[p] # Ninguem
    /\ dono' = [dono EXCEPT ![p] = Ninguem]

Next == \E p \in Pessoas : Liberar(p) \/ \E o \in Operadores : Assumir(o, p)

\* teto is an input of the queue: no step constrains it.
Spec == Init /\ [][Next]_dono
=============================================================================
