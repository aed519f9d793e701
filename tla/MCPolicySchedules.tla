-------------------------- MODULE MCPolicySchedules -------------------------
(* Two overlapping requests on one policy, two versions, three days of two  *)
(* instants each: midnight and later that day.                              *)
EXTENDS PolicySchedules

\* Before, after and beside one another, with a gap and without, open, closed and up to
\* date.max.
MCRanges == {<<0, 0>>, <<1, LastDay>>, <<0, Open>>, <<2, Open>>}
=============================================================================
