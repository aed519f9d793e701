--------------------------- MODULE ConditionClauses ---------------------------
(***************************************************************************)
(* Lists of clauses, the form to which the condition tree of a policy is   *)
(* compiled: how the compiler combines those of the operands of a group    *)
(* (services/policy_compiler.py), and how an employee is matched by them   *)
(* (services/policy_matching.py).  A clause is a sequence of conditions.   *)
(***************************************************************************)
EXTENDS ConditionFields, Sequences

CONSTANT
    MaxClauses      \* MAX_COMPILED_CLAUSES

ASSUME MaxClausesAssumption == MaxClauses \in Nat \ {0}

\* A tree that compiles has a clause, so none stands for PolicyCompilationError.
Rejected == <<>>

\* Faulty: the clauses of an operand are added to each other, not to each of the left.
ProductWithFirst(left, right) == [i \in 1 .. Len(left) |-> left[i] \o right[1]]

\* Every clause of the left followed by every one of the right.
Product(left, right) ==
    [i \in 1 .. Len(left) * Len(right) |->
        left[((i - 1) \div Len(right)) + 1] \o right[((i - 1) % Len(right)) + 1]]

Limited(clauses) == IF Len(clauses) > MaxClauses THEN Rejected ELSE clauses

\* The clauses of the operands of a group, and their product, which is limited at each step.
AllClauses(operands) ==
    LET upTo[k \in 0 .. Len(operands)] == IF k = 0 THEN <<>> ELSE upTo[k - 1] \o operands[k]
    IN  upTo[Len(operands)]

ProductOfClauses(operands) ==
    LET upTo[k \in 0 .. Len(operands)] ==
            IF k = 0 THEN << <<>> >> ELSE Limited(Product(upTo[k - 1], operands[k]))
    IN  upTo[Len(operands)]

\* find_policy_matches: a stored clause without conditions never matches.
MatchesClauses(clauses, e, read) ==
    \E i \in 1 .. Len(clauses) :
        /\ clauses[i] # <<>>
        /\ \A k \in 1 .. Len(clauses[i]) : Evaluate(clauses[i][k], e, read)
===============================================================================
