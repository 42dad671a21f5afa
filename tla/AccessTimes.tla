----------------------------- MODULE AccessTimes -----------------------------
(***************************************************************************)
(* When a grant is worth anything: the issue rule and the use rule of      *)
(* grants/manager.py and the quiet hours that gate its commands            *)
(* (api/server.py, _evaluate_command), as one grant is issued and the      *)
(* clock goes on.  Instants are minutes in UTC; the household's time of    *)
(* day is Offset minutes later (a change of the offset is not modelled).   *)
(***************************************************************************)
EXTENDS GrantPolicy, QuietHours

CONSTANTS
  Policies,  \* what an owner may ask for
  Offset,
  MaxClock   \* bound: the last instant

ASSUME PoliciesAssumption ==
  \A p \in Policies : WellFormed(p) /\ \A w \in p.window : w.from <= MaxClock
ASSUME TimesAssumption == Offset \in Nat /\ MaxClock \in Nat

VARIABLES
  now,
  grant,    \* the grant that was issued, with its instant, or {}
  hours     \* the housefile's quiet hours

vars == <<now, grant, hours>>

Grants == [policy : Policies, at : 0 .. MaxClock]
Hours == [start : Minutes \cup {Invalid}, end : Minutes \cup {Invalid}]

Init ==
  /\ now = 0
  /\ grant = {}
  /\ hours \in Hours

Issue ==
  /\ grant = {}
  /\ \E p \in Policies : Issuable(p, now) /\ grant' = {[policy |-> p, at |-> now]}
  /\ UNCHANGED <<now, hours>>

\* The last instant is a bound, where the clock stays.
Tick ==
  /\ now' = IF now < MaxClock THEN now + 1 ELSE now
  /\ UNCHANGED <<grant, hours>>

Next == Issue \/ Tick
Spec == Init /\ [][Next]_vars

Verdict(g) == Decision("ACTIVE", g.policy, now)

\* policy_now: the household's time of day.
MinuteOfDay == (now + Offset) % Day
Commands == HoursDecision(hours.start, hours.end, MinuteOfDay)

(***************************************************************************)
(* Properties.                                                             *)
(***************************************************************************)
\* No grant is issued that could never be used: from the instant of its issue
\* on there is one at which its expiry and its window both allow it.
IssuedCanBeUsed ==
  \A g \in grant :
    \E t \in g.at .. MaxClock : Decision("ACTIVE", g.policy, t) = "allowed"

\* Use and issue agree: an instant at which a grant is usable is one at which
\* it could still be issued: an owner who asks again for what an agent is using
\* is not refused.
UsableIsIssuable == \A g \in grant : Verdict(g) = "allowed" => Issuable(g.policy, now)

\* Access is one interval: it opens once, it closes once and for good.
AccessIsOneInterval ==
  [][\A g \in grant \cap grant' :
       /\ Verdict(g) = "expired" => Verdict(g)' = "expired"
       /\ Verdict(g) = "allowed" => Verdict(g)' \in {"allowed", "expired"}]_vars

\* Where the hours have a length, commands close exactly when the household's
\* day reaches their start and open exactly when it reaches their end, over
\* midnight too; equal ends are quiet all day (core/quiet_hours.py:4-6), and then
\* commands are not open before a step or after it.
QuietTurnsAtItsEnds ==
  [][Invalid \notin {hours.start, hours.end} =>
       LET open == Commands = "outside_quiet_hours"
           opensNext == Commands' = "outside_quiet_hours"
           turns == hours.start # hours.end /\ MinuteOfDay # MinuteOfDay'
       IN  /\ open /\ ~opensNext <=> turns /\ MinuteOfDay' = hours.start
           /\ ~open /\ opensNext <=> turns /\ MinuteOfDay' = hours.end
           /\ hours.start = hours.end => ~open /\ ~opensNext]_vars
=============================================================================
