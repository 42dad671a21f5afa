----------------------------- MODULE StopLatch -----------------------------
(***************************************************************************)
(* What the stop interlock promises (README.md:64-72): it latches, every   *)
(* grant is durably suspended, and only then can it be armed again.        *)
(***************************************************************************)
VARIABLES
  latch,      \* "ARMED" or "TRIPPED"
  suspended   \* whether this latch cycle has durably suspended every grant

vars == <<latch, suspended>>

Init == latch = "ARMED" /\ suspended = FALSE

Trip ==
  /\ latch = "ARMED"
  /\ latch' = "TRIPPED" /\ suspended' = FALSE

Suspend ==
  /\ latch = "TRIPPED" /\ ~suspended
  /\ suspended' = TRUE /\ latch' = latch

Rearm ==
  /\ latch = "TRIPPED" /\ suspended
  /\ latch' = "ARMED" /\ suspended' = FALSE

Next == Trip \/ Suspend \/ Rearm

Spec == Init /\ [][Next]_vars
=============================================================================
