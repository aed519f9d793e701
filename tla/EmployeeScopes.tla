--------------------------- MODULE EmployeeScopes ---------------------------
(***************************************************************************)
(* Requests about employees from callers whose roles show them a part of   *)
(* the chart (routers/employees.py, services/employee_visibility.py).      *)
(*                                                                         *)
(* What a caller sees is a function of the committed chart and of the roles*)
(* and only refuses requests, so OrgChart's steps are those of all callers;*)
(* here it is asked which of them a restricted caller can bring about.     *)
(***************************************************************************)
EXTENDS OrgChart, Visibility

Scopes == {"all", "reporting_tree", "self", "none"}

\* The users: with or without a linked employee, with one role or a narrow and a wide one.
Callers(o) ==
    {[user |-> TRUE, root |-> FALSE, self |-> self,
      roles |-> {[employees |-> x, fields |-> "none", selected |-> {}] : x \in scopes}] :
        self \in {{}} \cup {{e} : e \in Staff(o)},
        scopes \in {{x} : x \in Scopes} \cup {{"self", "reporting_tree"}}}

VisibilityOf(o, c) == EmployeeVisibility(c, UNION {Descendants(o, e) : e \in c.self})

-----------------------------------------------------------------------------
\* GET /employees/manager-candidates, for a new employee and for an existing one.
OfferedForNew(o, v) == IF v.unrestricted \/ v.mayCreate THEN Seen(v, Staff(o)) ELSE {}

\* Faulty: those below the employee are offered.
OfferedBelow(o, v, e) == Seen(v, Staff(o)) \ {e}

Offered(o, v, e) == Seen(v, Staff(o)) \ ({e} \cup Descendants(o, e))

\* require_employee_creation_scope
MayCreate(o, v, m) ==
    v.unrestricted \/ (v.mayCreate /\ m \in Seen(v, Staff(o)))

\* POST, PATCH and DELETE /employees, for a caller with visibility v.
CreateAccepted(o, v, e, m) == MayCreate(o, v, m) /\ ManagerAllowed(o, e, m)

UpdateAccepted(o, v, e, m) ==
    /\ e \in Seen(v, Staff(o))
    /\ m \in Employees /\ m # o[e] => m \in Seen(v, Staff(o))
    /\ m # o[e] => ManagerAllowed(o, e, m)

DeleteAccepted(o, v, e) == e \in Seen(v, Staff(o))

\* Whether the caller could have sent the request that w is.
MaySend(o, v, w) ==
    CASE w.op = "create" -> CreateAccepted(o, v, w.who, w.to)
      [] w.op = "update" -> UpdateAccepted(o, v, w.who, w.to)
      [] w.op = "delete" -> DeleteAccepted(o, v, w.who)

-----------------------------------------------------------------------------
\* The managers offered are those a request would be accepted with.
OffersAreAccepted(o, v, e) ==
    IF e \in Staff(o)
      THEN CanAccess(v, e) =>
             Offered(o, v, e) \ {o[e]} =
               {m \in Employees \ {o[e]} : UpdateAccepted(o, v, e, m)}
      ELSE OfferedForNew(o, v) = {m \in Employees : CreateAccepted(o, v, e, m)}

\* Whom w takes from the sight of callers confined to a part of the chart.
LostWith(o, w) ==
    IF w.op = "delete" \/ w.to = NoManager THEN {w.who} \cup Descendants(o, w.who) ELSE {}

\* The list of candidates for a manager offers, to every caller and for every employee,
\* the managers that the request then accepts, no fewer and no more; and what a caller
\* does within its part of the chart keeps everyone it saw in its sight, and brings in
\* nobody but the employee it creates, unless it deletes or detaches an employee, who
\* is lost with everyone below (docs/system-design.md:158, employee_visibility.py:94).
ScopesHold ==
    [][\A s \in Sessions :
        /\ pc[s] = "idle" /\ pc'[s] = "checked" =>
              \A c \in Callers(org) : OffersAreAccepted(org, VisibilityOf(org, c), txn'[s].who)
        /\ pc[s] = "reconciled" /\ org' # org =>
              \A c \in Callers(org) :
                LET v == VisibilityOf(org, c)
                    w == txn[s]
                    before == Seen(v, Staff(org))
                    after  == Seen(VisibilityOf(org', c), Staff(org'))
                IN  MaySend(org, v, w) /\ c.self # {w.who} =>
                      /\ before \ LostWith(org, w) \subseteq after
                      /\ after \subseteq before \cup (IF w.op = "create" THEN {w.who} ELSE {})
                      /\ w.op = "create" => w.who \in after
      ]_ocVars
=============================================================================
