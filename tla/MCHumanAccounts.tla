--------------------------- MODULE MCHumanAccounts ---------------------------
(* A root account and one that it creates, a role, and a clock on which every *)
(* duration can be met and missed by one.  A session is idle an instant       *)
(* before it expires, and last_seen_at may be one instant old when it is.     *)
EXTENDS HumanAccounts, TLC

\* Free rows are alike, so it does not matter which one With chooses.
Symmetry == Permutations(Users) \cup Permutations(Rows)
=============================================================================
