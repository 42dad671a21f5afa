---------------------------- MODULE MCHousefile ----------------------------
(***************************************************************************)
(* A small instance of Housefile: two letters and revisions of at most two *)
(* of them, from one that turns over and the last but one.                 *)
(***************************************************************************)
EXTENDS Housefile

MCZones == {"hall", "bath"}
MCReferred == {"hall"}
MCPlans == {{"hall"}, {"bath"}}
MCFirsts == {<<1>>, <<1, 0>>}
OneFirst == {<<0>>}
OnePlan == {{"hall"}}
MCBudget == [faults |-> 2, crashes |-> 1, losses |-> 1]
NoFailures == [faults |-> 0, crashes |-> 0, losses |-> 0]
=============================================================================
