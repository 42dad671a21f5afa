---------------------------- MODULE GrantPolicy ----------------------------
(***************************************************************************)
(* The pure rules of src/src/threshold/grants/manager.py: when a grant may *)
(* be issued, and what it allows at an instant.                            *)
(*                                                                         *)
(* An instant is a natural number.  An optional field is a set with at     *)
(* most one element: `expires` is {} for a revocable grant, `window` is {} *)
(* for a standing one.  Zones are the ids the housefile declares; NoGo are *)
(* those whose access is no-go.                                            *)
(***************************************************************************)
EXTENDS Integers

CONSTANTS Zones, NoGo, ScopeNames

Statuses == {"ACTIVE", "SUSPENDED", "REVOKED", "EXPIRED"}

\* Each policy names at most one expiry and at most one window.
WellFormed(p) ==
  /\ p.scopes \subseteq ScopeNames
  /\ p.expires \subseteq Nat
  /\ p.window \subseteq [from : Nat, until : Nat]
  /\ \A a, b \in p.expires : a = b
  /\ \A a, b \in p.window : a = b

(***************************************************************************)
(* Issue.                                                                  *)
(***************************************************************************)
BoundToHousefile(p) ==
  /\ p.scopes # {}
  /\ p.zones # {}
  /\ p.zones \subseteq Zones \ NoGo

\* A faulty variant: the expiry is not compared with the window start.
IssuableIgnoringWindowStart(p, now) ==
  /\ BoundToHousefile(p)
  /\ \A w \in p.window : w.from < w.until /\ now < w.until
  /\ \A e \in p.expires : now < e

Issuable(p, now) ==
  /\ BoundToHousefile(p)
  /\ \A w \in p.window : w.from < w.until /\ now < w.until
  /\ \A e \in p.expires : now < e
  /\ \A e \in p.expires, w \in p.window : w.from < e

(***************************************************************************)
(* Use.                                                                    *)
(***************************************************************************)
\* A faulty variant: both ends of the access are inclusive.
DueAfterTheEnd(p, now) ==
  \/ \E e \in p.expires : e < now
  \/ \E w \in p.window : w.until < now

Due(p, now) ==
  \/ \E e \in p.expires : e <= now
  \/ \E w \in p.window : w.until <= now

Opened(p, now) == \A w \in p.window : w.from <= now

\* A faulty variant: the end of a window is not the end of the grant.
DecisionWindowReopens(status, p, now) ==
  IF status # "ACTIVE" THEN "denied"
  ELSE IF \E e \in p.expires : e <= now THEN "expired"
  ELSE IF Opened(p, now) /\ \A w \in p.window : now < w.until
       THEN "allowed" ELSE "outside_window"

Decision(status, p, now) ==
  IF status # "ACTIVE" THEN "denied"
  ELSE IF Due(p, now) THEN "expired"
  ELSE IF Opened(p, now) THEN "allowed" ELSE "outside_window"
=============================================================================
