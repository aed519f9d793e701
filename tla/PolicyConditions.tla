--------------------------- MODULE PolicyConditions ---------------------------
(***************************************************************************)
(* The trees of conditions under which a policy matches an employee: the   *)
(* limits on an authored tree (policy_condition_limits.py) and its         *)
(* compilation to OR-of-AND clauses (services/policy_compiler.py).         *)
(*                                                                         *)
(* A group is [op, conditions, children], with sequences of conditions and *)
(* of groups; any group may be submitted as the tree of a policy.  What is *)
(* computed of a tree is a function on the groups, of what is computed of  *)
(* their children.                                                         *)
(***************************************************************************)
EXTENDS ConditionClauses

CONSTANTS
    Levels,         \* bound: groups that requests submit, their children of earlier levels
    MaxDepth,       \* MAX_CONDITION_GROUP_DEPTH
    MaxGroups,      \* MAX_CONDITION_GROUPS
    MaxConditions   \* MAX_POLICY_CONDITIONS

Groups == UNION {Levels[n] : n \in 1 .. Len(Levels)}
Earlier(n) == UNION {Levels[k] : k \in 1 .. n - 1}
Conditions == UNION {{g.conditions[i] : i \in 1 .. Len(g.conditions)} : g \in Groups}

\* A tree comes from a request body, so it has no cycle.
ASSUME LevelsAssumption ==
    /\ Levels \in Seq(SUBSET Groups)
    /\ \A n \in 1 .. Len(Levels) :
          Levels[n] \subseteq
              [op : {"and", "or"}, conditions : Seq(Conditions), children : Seq(Earlier(n))]
ASSUME ConditionsAssumption == \A c \in Conditions : Authored(c)
ASSUME LimitsAssumption == {MaxDepth, MaxGroups, MaxConditions} \subseteq Nat \ {0}

-----------------------------------------------------------------------------
(* The limits.                                                              *)

Total(ns) ==
    LET upTo[k \in 0 .. Len(ns)] == IF k = 0 THEN 0 ELSE upTo[k - 1] + ns[k]
    IN  upTo[Len(ns)]

Times(ns) ==
    LET upTo[k \in 0 .. Len(ns)] == IF k = 0 THEN 1 ELSE upTo[k - 1] * ns[k]
    IN  upTo[Len(ns)]

OfChildren(g, f) == [i \in 1 .. Len(g.children) |-> f[g.children[i]]]

\* _structural_stats
GroupsIn[g \in Groups] == 1 + Total(OfChildren(g, GroupsIn))
ConditionsIn[g \in Groups] == Len(g.conditions) + Total(OfChildren(g, ConditionsIn))
Depth[g \in Groups] ==
    LET below == {0} \cup {Depth[g.children[i]] : i \in 1 .. Len(g.children)}
    IN  1 + CHOOSE d \in below : \A other \in below : other <= d

\* _compiled_clause_count, which stops counting above the limit: no operand of a tree that
\* gets there counts zero, as a group without operands is refused before.
CountFrom(g, count) ==
    LET operands == [i \in 1 .. Len(g.conditions) |-> 1] \o OfChildren(g, count)
        total    == IF g.op = "or" THEN Total(operands) ELSE Times(operands)
    IN  IF operands = <<>> THEN 0
        ELSE IF total > MaxClauses THEN MaxClauses + 1 ELSE total

ClauseCount[g \in Groups] == CountFrom(g, ClauseCount)

\* require_an_operand, on each group of a request body.
HasOperandsFrom(g, has) ==
    /\ g.conditions # <<>> \/ g.children # <<>>
    /\ \A i \in 1 .. Len(g.children) : has[g.children[i]]

HasOperands[g \in Groups] == HasOperandsFrom(g, HasOperands)

\* validate_condition_tree_limits
WithinLimits(g) ==
    /\ Depth[g] <= MaxDepth
    /\ GroupsIn[g] <= MaxGroups
    /\ ConditionsIn[g] <= MaxConditions
    /\ ClauseCount[g] <= MaxClauses

-----------------------------------------------------------------------------
(* The compiler.                                                            *)

\* _compile_group: an error of any operand is the error of the group.
CompileFrom(g, compiled) ==
    LET operands == [i \in 1 .. Len(g.conditions) |-> << <<g.conditions[i]>> >>]
                    \o OfChildren(g, compiled)
    IN  IF operands = <<>> \/ \E i \in 1 .. Len(operands) : operands[i] = Rejected
          THEN Rejected
        ELSE IF g.op = "or" THEN Limited(AllClauses(operands)) ELSE ProductOfClauses(operands)

Compile[g \in Groups] == CompileFrom(g, Compile)

\* The trees that pass validation, and the rows of compiled_policy_clauses of each, which
\* are written once, when a version is created.
Accepted == {g \in Groups : HasOperands[g] /\ WithinLimits(g)}
CompiledClauses == [g \in Accepted |-> Compile[g]]

-----------------------------------------------------------------------------
\* What a tree says.
HoldsFrom(g, e, holds) ==
    LET conditions == {Means(g.conditions[i], e) : i \in 1 .. Len(g.conditions)}
        children   == {holds[g.children[i]] : i \in 1 .. Len(g.children)}
    IN  IF g.op = "and" THEN FALSE \notin conditions \cup children
                        ELSE TRUE \in conditions \cup children

Holds(g, e) == LET holds[x \in Groups] == HoldsFrom(x, e, holds) IN holds[g]

\* Whoever moves, joins or leaves, a policy matches an employee by its compiled clauses,
\* on what the last reconciliation of that employee has read, exactly if its authored
\* tree is true of the employee in the chart as it is.  So a tree that passes the limits
\* of the API is never beyond those the compiler applies on its own, compilation preserves
\* meaning (both docs/system-design.md:80), the resolvers read what the fields say, and
\* the impact resolvers find everyone the answer changes for (condition_impacts.py:60-89).
MatchesFollowTheTree ==
    (\A s \in Sessions : pc[s] = "idle") =>
        \A e \in Staff(org), g \in Accepted :
            MatchesClauses(CompiledClauses[g], e, shown[e]) <=> Holds(g, e)
===============================================================================
