-------------------------- MODULE AccessTimesProofs --------------------------
(***************************************************************************)
(* What AccessTimes promises holds for every set of policies, every day    *)
(* length and every offset.                                                *)
(***************************************************************************)
EXTENDS AccessTimes, TLAPS

TypeOK == now \in 0 .. MaxClock /\ grant \subseteq Grants /\ hours \in Hours

\* What is known of a grant for good: it could be issued when it was.
IInv ==
  /\ TypeOK
  /\ \A g \in grant : g.at <= now /\ Issuable(g.policy, g.at)

\* The rules of issue leave an instant of use: the later of the issue itself
\* and the start of the window, which comes before the expiry and the end.
LEMMA IssuableHasAnInstant ==
  ASSUME NEW p \in Policies, NEW at \in 0 .. MaxClock, Issuable(p, at)
  PROVE  \E t \in at .. MaxClock : Decision("ACTIVE", p, t) = "allowed"
<1> USE PoliciesAssumption, TimesAssumption
<1>1. p.window \subseteq [from : Nat, until : Nat]
      /\ p.expires \subseteq Nat
      /\ (\A a, b \in p.window : a = b) /\ (\A w \in p.window : w.from <= MaxClock)
  BY DEF WellFormed
<1>2. CASE \A w \in p.window : w.from <= at
  <2>1. ~Due(p, at) /\ Opened(p, at)
    BY <1>1, <1>2 DEF Due, Opened, Issuable
  <2> QED BY <2>1 DEF Decision
<1>3. CASE \E w \in p.window : at < w.from
  <2>1. PICK w \in p.window : at < w.from
    BY <1>3
  <2>2. w.from \in at .. MaxClock
    BY <1>1, <2>1
  <2>3. ~Due(p, w.from) /\ Opened(p, w.from)
    BY <1>1, <2>1, <2>2 DEF Due, Opened, Issuable
  <2> QED BY <2>2, <2>3 DEF Decision
<1> QED BY <1>1, <1>2, <1>3

\* What a grant allows at an instant, it could be issued for at that instant.
LEMMA AllowedIsIssuable ==
  ASSUME NEW p \in Policies, NEW at \in Nat, NEW t \in Nat, Issuable(p, at),
         Decision("ACTIVE", p, t) = "allowed"
  PROVE  Issuable(p, t)
<1>1. ~Due(p, t)
  BY DEF Decision
<1>2. p.window \subseteq [from : Nat, until : Nat] /\ p.expires \subseteq Nat
  BY PoliciesAssumption DEF WellFormed
<1> QED BY <1>1, <1>2 DEF Due, Issuable

LEMMA IInvHolds == Spec => []IInv
<1>1. Init => IInv
  BY TimesAssumption DEF Init, IInv, TypeOK, Grants
<1>2. IInv /\ [Next]_vars => IInv'
  <2> SUFFICES ASSUME IInv, [Next]_vars PROVE IInv'
    OBVIOUS
  <2> USE TimesAssumption DEF IInv, TypeOK
  <2>1. CASE Issue
    BY <2>1 DEF Issue, Grants
  <2>2. CASE Tick
    BY <2>2 DEF Tick, Grants
  <2>3. CASE UNCHANGED vars
    BY <2>3 DEF vars
  <2> QED BY <2>1, <2>2, <2>3 DEF Next
<1> QED BY <1>1, <1>2, PTL DEF Spec

\* No grant is issued that could never be used.
THEOREM IssuedGrantsAreUsable == Spec => []IssuedCanBeUsed
<1>1. IInv => IssuedCanBeUsed
  BY IssuableHasAnInstant DEF IInv, TypeOK, Grants, IssuedCanBeUsed
<1> QED BY <1>1, IInvHolds, PTL

\* A usable grant could be issued again as it is.
THEOREM UsableGrantsAreIssuable == Spec => []UsableIsIssuable
<1>1. IInv => UsableIsIssuable
  BY AllowedIsIssuable, TimesAssumption
     DEF IInv, TypeOK, Grants, UsableIsIssuable, Verdict
<1> QED BY <1>1, IInvHolds, PTL

\* Access is one interval: as time goes on a verdict of "allowed" gives way to
\* "expired" only, and that one to nothing.
THEOREM AccessClosesOnce == Spec => AccessIsOneInterval
<1> DEFINE Closes(g) ==
      /\ Verdict(g) = "expired" => Verdict(g)' = "expired"
      /\ Verdict(g) = "allowed" => Verdict(g)' \in {"allowed", "expired"}
<1>1. ASSUME IInv, [Next]_vars, NEW g \in grant \cap grant'
      PROVE  Closes(g)
  <2>1. g.policy \in Policies /\ now \in Nat /\ now' \in Nat /\ now <= now'
    BY <1>1, TimesAssumption DEF IInv, TypeOK, Grants, Next, Issue, Tick, vars
  <2>2. g.policy.window \subseteq [from : Nat, until : Nat] /\ g.policy.expires \subseteq Nat
    BY <2>1, PoliciesAssumption DEF WellFormed
  <2>3. Due(g.policy, now) => Due(g.policy, now')
    BY <2>1, <2>2 DEF Due
  <2>4. Opened(g.policy, now) => Opened(g.policy, now')
    BY <2>1, <2>2 DEF Opened
  <2> QED BY <2>3, <2>4 DEF Verdict, Decision
<1>2. IInv /\ [Next]_vars => [\A g \in grant \cap grant' : Closes(g)]_vars
  BY <1>1
<1> QED BY <1>2, IInvHolds, PTL DEF Spec, AccessIsOneInterval

\* A minute later the time of day is the next one, or midnight.
LEMMA NextMinute ==
  ASSUME NEW n \in Nat
  PROVE  /\ n % Day \in Minutes
         /\ (n + 1) % Day = IF n % Day = Day - 1 THEN 0 ELSE (n % Day) + 1
<1> USE DayAssumption
<1>1. n = Day * (n \div Day) + (n % Day) /\ n % Day \in 0 .. Day - 1 /\ n \div Day \in Nat
  BY SMTT(20)
<1>2. \A q \in Nat, r \in 0 .. Day - 1 : (Day * q + r) % Day = r
  BY SMTT(20)
<1>3. n % Day \in Minutes
  BY <1>1 DEF Minutes
<1>4. CASE n % Day = Day - 1
  <2>1. n + 1 = Day * (n \div Day + 1) + 0
    BY <1>1, <1>4, SMTT(20)
  <2>2. n \div Day + 1 \in Nat /\ 0 \in 0 .. Day - 1
    BY <1>1
  <2>3. (Day * (n \div Day + 1) + 0) % Day = 0
    BY <1>2, <2>2, Zenon
  <2> QED BY <1>4, <1>3, <2>1, <2>3
<1>5. CASE n % Day # Day - 1
  <2>1. n + 1 = Day * (n \div Day) + ((n % Day) + 1)
    BY <1>1, <1>5, SMTT(20)
  <2> QED BY <1>1, <1>2, <1>5, <1>3, <2>1, SMTT(40)
<1> QED BY <1>4, <1>5

\* Commands close at the start of the quiet hours and open at their end, and
\* never open where the two are equal.
THEOREM QuietHoursTurn == Spec => QuietTurnsAtItsEnds
<1> DEFINE open == Commands = "outside_quiet_hours"
           opensNext == Commands' = "outside_quiet_hours"
           turns == hours.start # hours.end /\ MinuteOfDay # MinuteOfDay'
           A == Invalid \notin {hours.start, hours.end} =>
                  /\ open /\ ~opensNext <=> turns /\ MinuteOfDay' = hours.start
                  /\ ~open /\ opensNext <=> turns /\ MinuteOfDay' = hours.end
                  /\ hours.start = hours.end => ~open /\ ~opensNext
<1>1. ASSUME IInv, Tick, now < MaxClock, Invalid \notin {hours.start, hours.end} PROVE A
  <2>1. now + Offset \in Nat /\ now' + Offset = (now + Offset) + 1 /\ hours' = hours
    BY <1>1, TimesAssumption DEF IInv, TypeOK, Tick
  <2>2. /\ MinuteOfDay \in Minutes /\ MinuteOfDay' \in Minutes
        /\ MinuteOfDay' = IF MinuteOfDay = Day - 1 THEN 0 ELSE MinuteOfDay + 1
    BY <2>1, NextMinute DEF MinuteOfDay
  <2>3. hours.start \in Minutes /\ hours.end \in Minutes
    BY <1>1 DEF IInv, TypeOK, Hours
  <2>4. MinuteOfDay # Invalid /\ MinuteOfDay' # Invalid
    BY <2>2, InvalidAssumption, DayAssumption DEF Minutes
  <2>5. /\ open <=> ~Quiet(hours.start, hours.end, MinuteOfDay)
        /\ opensNext <=> ~Quiet(hours.start, hours.end, MinuteOfDay')
    BY <1>1, <2>1, <2>4 DEF Commands, HoursDecision
  <2>6. CASE hours.start = hours.end
    BY <2>5, <2>6 DEF Quiet
  <2>7. CASE hours.start # hours.end
    <3> HIDE DEF open, opensNext, turns
    <3> DEFINE q == Quiet(hours.start, hours.end, MinuteOfDay)
               r == Quiet(hours.start, hours.end, MinuteOfDay')
    <3>1. /\ ~q /\ r <=> MinuteOfDay' = hours.start
          /\ q /\ ~r <=> MinuteOfDay' = hours.end
          /\ MinuteOfDay # MinuteOfDay'
      BY <2>2, <2>3, <2>7, DayAssumption DEF Minutes, Quiet
    <3> HIDE DEF q, r
    <3>2. /\ open /\ ~opensNext <=> MinuteOfDay' = hours.start
          /\ ~open /\ opensNext <=> MinuteOfDay' = hours.end
          /\ MinuteOfDay # MinuteOfDay'
      BY <2>5, <3>1 DEF q, r
    <3>3. turns
      BY <2>7, <3>2 DEF turns
    <3> QED BY <2>7, <3>2, <3>3
  <2> QED BY <2>6, <2>7
<1>2. ASSUME IInv, now' = now, hours' = hours, Invalid \notin {hours.start, hours.end}
      PROVE  A
  <2>1. MinuteOfDay' = MinuteOfDay /\ MinuteOfDay \in Minutes
    BY <1>2, NextMinute, TimesAssumption DEF MinuteOfDay, IInv, TypeOK
  <2>2. Commands' = Commands
    BY <1>2, <2>1 DEF Commands, HoursDecision, Quiet
  <2>3. (open <=> opensNext) /\ ~turns
    BY <2>1, <2>2
  <2>4. hours.start = hours.end => ~open
    <3>1. MinuteOfDay # Invalid
      BY <2>1, InvalidAssumption, DayAssumption DEF Minutes
    <3> QED BY <1>2, <3>1 DEF Commands, HoursDecision, Quiet
  <2> HIDE DEF open, opensNext, turns
  <2>5. A
    BY <2>3, <2>4
  <2> QED BY <2>5
<1>3. IInv /\ [Next]_vars => [A]_vars
  <2> SUFFICES ASSUME IInv, Next PROVE A
    OBVIOUS
  <2>1. CASE Tick /\ now < MaxClock
    BY <1>1, <2>1
  <2>2. CASE Issue \/ (Tick /\ ~(now < MaxClock))
    <3>1. now' = now /\ hours' = hours
      BY <2>2 DEF Issue, Tick
    <3> QED BY <1>2, <3>1
  <2> QED BY <2>1, <2>2 DEF Next
<1> QED BY <1>3, IInvHolds, PTL DEF Spec, QuietTurnsAtItsEnds
=============================================================================
