--------------------- MODULE MCConcurrentReconciliation ---------------------
(* Two policies that give a one-valued field different values, pa before pb *)
(* in priority; pb also gives a value of a many-valued field.               *)
EXTENDS ConcurrentReconciliation, TLC

CONSTANTS pa, pb, ka, kb, kc, one, many

MCKeys == {ka, kb, kc}
MCFieldOf == (ka :> one) @@ (kb :> one) @@ (kc :> many)
MCOneValued == {one}
MCFacts == {pa, pb}
MCResolve(w) ==
    (IF pa \in w THEN {ka} ELSE IF pb \in w THEN {kb} ELSE {})
    \cup (IF pb \in w THEN {kc} ELSE {})

\* Transactions are interchangeable.
Symmetry == Permutations(Writers)
=============================================================================
