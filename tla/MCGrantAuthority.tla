-------------------------- MODULE MCGrantAuthority --------------------------
(***************************************************************************)
(* Small instances of GrantAuthority: two grants, the first with an expiry *)
(* and the second with a window, and budgets for what the environment does.*)
(***************************************************************************)
EXTENDS GrantAuthority, TLC

CONSTANTS p1, p2

MCZones == {"hall", "bath"}
MCNoGo == {"bath"}
MCScopes == {"read:layout"}

Access(S, W) == [scopes |-> MCScopes, zones |-> {"hall"}, expires |-> S, window |-> W]
MCPolicy == (1 :> Access({1}, {})) @@ (2 :> Access({}, {[from |-> 1, until |-> 9]}))

Spending(f, c, o, l) == [faults |-> f, crashes |-> c, outages |-> o, losses |-> l]
CrashBudget == Spending(2, 1, 1, 0)
TornBudget == Spending(0, 1, 0, 0)
LossBudget == Spending(0, 1, 0, 1)

Alike == Permutations(Procs)
=============================================================================
