----------------------------- MODULE Interlock -----------------------------
(***************************************************************************)
(* The simulated stop interlock (src/src/threshold/hardware/estop.py) and  *)
(* the routes of src/src/threshold/api/server.py that trip it, re-arm it   *)
(* and obey it.  The latch and its evidence are local to the process and   *)
(* end with it, the grants it suspends are not.                            *)
(*                                                                         *)
(* Callers are requests, serialised by GRANT_LOCK.  A trip calls a clock,  *)
(* the display, the durable suspension (GrantAuthority.suspend_all), each  *)
(* adapter and a receipt observer.  An Exception of theirs is isolated; a  *)
(* BaseException leaves trip() at once, with the latch set and no report.  *)
(***************************************************************************)
EXTENDS Naturals

CONSTANTS
  Callers,
  None,        \* no report yet, or nobody holds the lock
  Grants,
  Adapters,    \* how many halt adapters are configured
  Interrupts,  \* how many BaseExceptions and restarts to explore
  MaxCycles    \* bound: no trip is requested after this many latch cycles

ASSUME AdaptersAssumption == Adapters \in Nat
ASSUME InterruptsAssumption == Interrupts \in Nat

VARIABLES
  latch,       \* _state
  report,      \* _last_report, or None
  display,     \* whether DISPLAY_STATE is latched
  lock,        \* the caller that holds GRANT_LOCK, or None
  pc,          \* what each caller waits to do, or the step it is at
  trip,        \* the locals of the trip in progress
  active,      \* the grants the durable table holds as ACTIVE
  known,       \* every grant the durable table holds
  interrupts,  \* BaseExceptions and restarts so far
  cycle,       \* latch cycles so far
  suspended,   \* whether this cycle has durably suspended every grant
  persists,    \* how often this cycle called the durable suspension
  halts,       \* how often this cycle called each adapter
  stopped      \* grants whose suspension some trip reported as durable

ghosts == <<cycle, suspended, persists, halts, stopped>>
vars == <<latch, report, display, lock, pc, trip, active, known, interrupts, ghosts>>

Requests == {"trip", "rearm", "use", "issue", "revoke"}
Steps == {"clock", "show", "persist", "halt", "report"}
Outcomes == {"returns", "raises", "interrupts"}
Counts == 0 .. Adapters

NoTrip == [timed |-> FALSE, persisted |-> FALSE, called |-> 0, completed |-> 0]
Trips == [timed : BOOLEAN, persisted : BOOLEAN, called : Counts, completed : Counts]
Reports == [cycle : Nat, persisted : BOOLEAN, called : Counts, completed : Counts]
ASSUME NoneAssumption == None \notin Callers \cup Reports

Init ==
  /\ latch = "ARMED" /\ report = None /\ display = FALSE
  /\ lock = None
  /\ pc = [c \in Callers |-> "idle"]
  /\ trip = NoTrip
  /\ known \in SUBSET Grants /\ active \in SUBSET known
  /\ interrupts = 0 /\ cycle = 0 /\ suspended = FALSE /\ persists = 0
  /\ halts = [a \in 1 .. Adapters |-> 0]
  /\ stopped = {}

Goto(c, where) == pc' = [pc EXCEPT ![c] = where]

Ask(c) ==
  /\ pc[c] = "idle"
  /\ \E r \in Requests : (r = "trip" => cycle < MaxCycles) /\ Goto(c, r)
  /\ UNCHANGED <<latch, report, display, lock, trip, active, known, interrupts, ghosts>>

\* A request has the lock to itself; one that takes a single step ends with it.
Serves(c, request) == pc[c] = request /\ lock = None
Answers(c) == Goto(c, "idle") /\ UNCHANGED <<lock, trip, interrupts, ghosts>>

(***************************************************************************)
(* A trip, one dependency at a time.                                       *)
(***************************************************************************)
\* The trip goes on with its locals, or a BaseException leaves it.
Continue(c, where, locals) ==
  /\ Goto(c, where) /\ trip' = locals
  /\ UNCHANGED <<lock, interrupts>>

Interrupted(c) ==
  /\ interrupts < Interrupts /\ interrupts' = interrupts + 1
  /\ Goto(c, "idle") /\ trip' = NoTrip /\ lock' = None

Proceed(c, outcome, where, locals) ==
  IF outcome = "interrupts" THEN Interrupted(c) ELSE Continue(c, where, locals)

\* Already latched: the first evidence is answered, nothing is called.
TripAgain(c) ==
  /\ Serves(c, "trip") /\ latch = "TRIPPED"
  /\ Answers(c)
  /\ UNCHANGED <<latch, report, display, active, known>>

\* A faulty variant: a trip whose suspension failed is run again.
LatchAgain(c) ==
  /\ Serves(c, "trip") /\ (latch = "ARMED" \/ (report # None /\ ~report.persisted))
  /\ latch' = "TRIPPED" /\ lock' = c /\ Goto(c, "clock")
  /\ IF latch = "ARMED"
     THEN /\ cycle' = cycle + 1 /\ suspended' = FALSE /\ persists' = 0
          /\ halts' = [a \in 1 .. Adapters |-> 0]
     ELSE UNCHANGED <<cycle, suspended, persists, halts>>
  /\ UNCHANGED <<report, display, trip, active, known, interrupts, stopped>>

\* Latch first.
Latch(c) ==
  /\ Serves(c, "trip") /\ latch = "ARMED"
  /\ latch' = "TRIPPED" /\ lock' = c /\ Goto(c, "clock")
  /\ cycle' = cycle + 1 /\ suspended' = FALSE /\ persists' = 0
  /\ halts' = [a \in 1 .. Adapters |-> 0]
  /\ UNCHANGED <<report, display, trip, active, known, interrupts, stopped>>

\* _safe_utc: a clock that raises or is not in UTC gives no instant.
ReadClock(c) ==
  /\ pc[c] = "clock"
  /\ \E outcome \in Outcomes :
       Proceed(c, outcome, "show", [trip EXCEPT !.timed = outcome = "returns"])
  /\ UNCHANGED <<latch, report, display, active, known, ghosts>>

AdaptersNext == IF Adapters = 0 THEN "report" ELSE "halt"

\* A display that raises stays as it was, and the trip goes on; an interruption
\* may come before it is latched or after.
Show(c) ==
  /\ pc[c] = "show"
  /\ \E outcome \in Outcomes, shown \in BOOLEAN :
       /\ outcome # "interrupts" => shown = (outcome = "returns")
       /\ Proceed(c, outcome, IF trip.timed THEN "persist" ELSE AdaptersNext, trip)
       /\ display' = (display \/ shown)
  /\ UNCHANGED <<latch, report, active, known, ghosts>>

\* suspend_all may fail before it commits, or after (the failure of a cleanup
\* is reported as unavailable); a count is returned only when it committed.
Persist(c) ==
  /\ pc[c] = "persist"
  /\ \E outcome \in Outcomes, committed \in BOOLEAN :
       /\ outcome = "returns" => committed
       /\ Proceed(c, outcome, AdaptersNext,
                  [trip EXCEPT !.persisted = outcome = "returns"])
       /\ active' = IF committed THEN {} ELSE active
       /\ suspended' = committed
       /\ stopped' = IF outcome = "returns" THEN stopped \cup active ELSE stopped
  /\ persists' = persists + 1
  /\ UNCHANGED <<latch, report, display, known, cycle, halts>>

\* A faulty variant: the sequence does not end with the last adapter.
HaltOnceMore(c) ==
  /\ pc[c] = "halt"
  /\ \E outcome \in Outcomes :
       Proceed(c, outcome, IF trip.called = Adapters THEN "report" ELSE "halt",
               [trip EXCEPT !.called = @ + 1,
                            !.completed = IF outcome = "returns" THEN @ + 1 ELSE @])
  /\ halts' = [halts EXCEPT ![trip.called + 1] = @ + 1]
  /\ UNCHANGED <<latch, report, display, active, known, cycle, suspended, persists,
                 stopped>>

\* The next adapter is called, whatever the ones before it did.
Halt(c) ==
  /\ pc[c] = "halt"
  /\ \E outcome \in Outcomes :
       Proceed(c, outcome, IF trip.called + 1 = Adapters THEN "report" ELSE "halt",
               [trip EXCEPT !.called = @ + 1,
                            !.completed = IF outcome = "returns" THEN @ + 1 ELSE @])
  /\ halts' = [halts EXCEPT ![trip.called + 1] = @ + 1]
  /\ UNCHANGED <<latch, report, display, active, known, cycle, suspended, persists,
                 stopped>>

\* A faulty variant: only a successful trip leaves evidence.
ReportSuccess(c) ==
  /\ pc[c] = "report"
  /\ report' = IF trip.persisted
               THEN [cycle |-> cycle, persisted |-> trip.persisted,
                     called |-> trip.called, completed |-> trip.completed]
               ELSE report
  /\ Goto(c, "idle") /\ trip' = NoTrip /\ lock' = None
  /\ UNCHANGED <<latch, display, active, known, interrupts, ghosts>>

\* The receipt observer is called, and the cycle's evidence is kept.
Report(c) ==
  /\ pc[c] = "report"
  /\ \/ Interrupted(c) /\ UNCHANGED report
     \/ /\ report' = [cycle |-> cycle, persisted |-> trip.persisted,
                      called |-> trip.called, completed |-> trip.completed]
        /\ Goto(c, "idle") /\ trip' = NoTrip /\ lock' = None
        /\ UNCHANGED interrupts
  /\ UNCHANGED <<latch, display, active, known, ghosts>>

(***************************************************************************)
(* The other routes.                                                       *)
(***************************************************************************)
Evidence == report # None /\ report.persisted

\* No durable suspension is on record: 503.
RearmRefused(c) ==
  /\ Serves(c, "rearm") /\ latch = "TRIPPED" /\ ~Evidence
  /\ Answers(c)
  /\ UNCHANGED <<latch, report, display, active, known>>

\* A faulty variant: the evidence is not consulted.
RearmAlways(c) ==
  /\ Serves(c, "rearm")
  /\ latch' = "ARMED" /\ display' \in {FALSE, display}
  /\ Answers(c)
  /\ UNCHANGED <<report, active, known>>

\* A faulty variant: re-arming restores the grants.
RearmRestores(c) ==
  /\ Serves(c, "rearm") /\ (latch = "TRIPPED" => Evidence)
  /\ latch' = "ARMED" /\ display' \in {FALSE, display} /\ active' = known
  /\ Answers(c)
  /\ UNCHANGED <<report, known>>

\* Only the latch and the display are cleared, no grant is restored; a display
\* that cannot be cleared does not keep the latch.
Rearm(c) ==
  /\ Serves(c, "rearm") /\ (latch = "TRIPPED" => Evidence)
  /\ latch' = "ARMED" /\ display' \in {FALSE, display}
  /\ Answers(c)
  /\ UNCHANGED <<report, active, known>>

\* A faulty variant: a use is decided without the lock.
UseUnlocked(c) ==
  /\ pc[c] = "use"
  /\ active # {} /\ latch = "ARMED"
  /\ Goto(c, "using")
  /\ UNCHANGED <<latch, report, display, lock, trip, active, known, interrupts, ghosts>>

\* A grant that is active is used only under an armed latch.
Use(c) ==
  /\ Serves(c, "use")
  /\ active # {} /\ latch = "ARMED"
  /\ Goto(c, "using") /\ lock' = c
  /\ UNCHANGED <<latch, report, display, trip, active, known, interrupts, ghosts>>

UseRefused(c) ==
  /\ Serves(c, "use") /\ (active # Grants \/ latch = "TRIPPED")
  /\ Answers(c)
  /\ UNCHANGED <<latch, report, display, active, known>>

\* A faulty variant: a use that ends keeps the lock.
UseEndsLocked(c) ==
  /\ pc[c] = "using"
  /\ Goto(c, "idle")
  /\ UNCHANGED <<latch, report, display, lock, trip, active, known, interrupts, ghosts>>

UseEnds(c) ==
  /\ pc[c] = "using"
  /\ Goto(c, "idle") /\ lock' = None
  /\ UNCHANGED <<latch, report, display, trip, active, known, interrupts, ghosts>>

Issue(c) ==
  /\ Serves(c, "issue") /\ latch = "ARMED"
  /\ \E g \in Grants \ known : active' = active \cup {g} /\ known' = known \cup {g}
  /\ Answers(c)
  /\ UNCHANGED <<latch, report, display>>

\* 423 while tripped; a policy or the authority may refuse at any time.
IssueRefused(c) ==
  /\ Serves(c, "issue")
  /\ Answers(c)
  /\ UNCHANGED <<latch, report, display, active, known>>

\* A revocation does not depend on the latch.
Revoke(c) ==
  /\ Serves(c, "revoke")
  /\ \E S \in {{}} \cup {{g} : g \in Grants} : active' = active \ S
  /\ Answers(c)
  /\ UNCHANGED <<latch, report, display, known>>

\* The process ends, at any step, and another one starts: it is armed, has no
\* evidence, and reads the durable table.
Restart ==
  /\ interrupts < Interrupts /\ interrupts' = interrupts + 1
  /\ latch' = "ARMED" /\ report' = None /\ display' = FALSE
  /\ lock' = None /\ pc' = [c \in Callers |-> "idle"] /\ trip' = NoTrip
  /\ UNCHANGED <<active, known, ghosts>>

Handle(c) ==
  \/ TripAgain(c) \/ Latch(c) \/ RearmRefused(c) \/ Rearm(c)
  \/ Use(c) \/ UseRefused(c) \/ Issue(c) \/ IssueRefused(c) \/ Revoke(c)

Step(c) ==
  \/ ReadClock(c) \/ Show(c) \/ Persist(c) \/ Halt(c) \/ Report(c) \/ UseEnds(c)

Next ==
  \/ \E c \in Callers : Ask(c) \/ Handle(c) \/ Step(c)
  \/ Restart

Spec == Init /\ [][Next]_vars

\* A request that waits is served in turn, and one that is served goes on.
LiveSpec ==
  /\ Spec
  /\ \A c \in Callers : SF_vars(Handle(c)) /\ WF_vars(Step(c))

(***************************************************************************)
(* Properties.                                                             *)
(***************************************************************************)
\* Every variable holds a value of its type.
TypeOK ==
  /\ latch \in {"ARMED", "TRIPPED"} /\ report \in Reports \cup {None}
  /\ display \in BOOLEAN /\ lock \in Callers \cup {None}
  /\ pc \in [Callers -> {"idle", "using"} \cup Requests \cup Steps]
  /\ trip \in Trips
  /\ active \subseteq known /\ known \subseteq Grants
  /\ interrupts \in 0 .. Interrupts /\ cycle \in Nat /\ suspended \in BOOLEAN
  /\ persists \in Nat /\ halts \in [1 .. Adapters -> Nat]
  /\ stopped \subseteq known

Tripping == \E c \in Callers : pc[c] \in Steps
Current == report # None /\ report.cycle = cycle

\* While the latch is set no caller uses a grant, however its request is
\* interleaved with the trip; and once the cycle's evidence says that every
\* grant was suspended, none is active until the latch is cleared.
TrippedDenies ==
  latch = "TRIPPED" =>
    /\ \A c \in Callers : pc[c] # "using"
    /\ Current /\ report.persisted => active = {}

\* A trip that reported a durable suspension is not undone, by a re-arm or by a
\* restart that loses the latch: README.md:71-72 "re-arm clears only the
\* process-local latch and never restores suspended grants".
StoppedStaysStopped == stopped \cap active = {}

\* README.md:67 "Repeated trip calls while latched do not repeat those effects":
\* one durable suspension and one call of each adapter per latch cycle, and a
\* cycle that has its evidence has called every adapter, whichever of them failed.
OncePerCycle ==
  /\ persists <= 1
  /\ \A a \in 1 .. Adapters : halts[a] <= 1
  /\ Current => report.called = Adapters /\ \A a \in 1 .. Adapters : halts[a] = 1

\* The interlock does what StopLatch promises, as long as no BaseException
\* leaves a trip half-way and no restart loses the latch: it is armed again
\* only after a durable suspension.
Abstract == INSTANCE StopLatch WITH suspended <- suspended /\ latch = "TRIPPED"
ImplementsStopLatch == Abstract!Spec

\* hardware/estop.py:150 "Return immutable evidence for the most recent latch
\* cycle": between trips, what last_report holds is about the latest of them.
LastReportIsCurrent ==
  latch = "TRIPPED" /\ ~Tripping => report = None \/ report.cycle = cycle

\* A latched cycle ends with its evidence on record: no clock, suspension,
\* adapter or observer that raises can keep a trip from completing.
TripsComplete == latch = "TRIPPED" ~> Current

\* Every request is answered, and so gives up the lock.
RequestsEnd == \A c \in Callers : pc[c] \in Requests ~> pc[c] = "idle"
=============================================================================
