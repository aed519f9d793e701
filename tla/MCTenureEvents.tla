--------------------------- MODULE MCTenureEvents ---------------------------
(* A calendar with years of two days, except that the first year has a leap *)
(* day, day 2: who starts on it has anniversaries on the last day of a year.*)
EXTENDS TenureEvents, TLC

MCAnniversary ==
    (0 :> <<3, 5, 7>>) @@ (2 :> <<4, 6, 8>>)

MCConditions == {<<"=", 1>>, <<"<", 1>>, <<"<=", 1>>, <<">", 1>>, <<">=", 2>>}

Symmetry == Permutations(Employees) \cup Permutations(Sessions)
=============================================================================
