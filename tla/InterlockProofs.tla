--------------------------- MODULE InterlockProofs ---------------------------
(***************************************************************************)
(* The interlock's safety, for any number of callers, grants, adapters and *)
(* latch cycles.  The inductive invariant says what a trip has done at     *)
(* each of its steps, and what its evidence stands for once it is over.    *)
(***************************************************************************)
EXTENDS Interlock, TLAPS

\* The lock has one holder, and only its holder is past its first step.
LockInv == \A c \in Callers : pc[c] \in Steps \cup {"using"} => lock = c

\* What a trip has done when it is at a step.
StepOK(c) ==
  /\ latch = "TRIPPED" /\ ~Current
  /\ pc[c] \in {"clock", "show", "persist"} =>
       ~trip.persisted /\ ~suspended /\ persists = 0 /\ trip.called = 0
  /\ pc[c] = "halt" => trip.called < Adapters
  /\ pc[c] = "report" => trip.called = Adapters
  /\ trip.persisted => suspended /\ active = {}
  /\ trip.completed <= trip.called
  /\ \A a \in 1 .. Adapters : halts[a] = IF a <= trip.called THEN 1 ELSE 0

\* Between trips there are no locals.
StepInv == /\ \A c \in Callers : pc[c] \in Steps => StepOK(c)
           /\ ~Tripping => trip = NoTrip

\* What the evidence of a latch cycle stands for.
EvidenceInv ==
  /\ report # None => report.cycle <= cycle
  /\ persists <= 1 /\ \A a \in 1 .. Adapters : halts[a] <= 1
  /\ Current => report.called = Adapters /\ \A a \in 1 .. Adapters : halts[a] = 1
  /\ Current /\ report.persisted /\ latch = "TRIPPED" => suspended /\ active = {}

\* No grant is in use under a set latch, and none comes back.
DenyInv ==
  /\ latch = "TRIPPED" => \A c \in Callers : pc[c] # "using"
  /\ stopped \cap active = {}

IInv == TypeOK /\ LockInv /\ StepInv /\ EvidenceInv /\ DenyInv

LEMMA NoTripFacts == NoTrip \in Trips /\ 0 \in Counts
  BY AdaptersAssumption DEF NoTrip, Trips, Counts

LEMMA InterlockInit == Init => IInv
<1> SUFFICES ASSUME Init PROVE IInv
  OBVIOUS
<1>1. TypeOK
  <2>1. active \subseteq known /\ known \subseteq Grants /\ stopped \subseteq known
    BY DEF Init
  <2>2. halts \in [1 .. Adapters -> Nat] /\ pc \in [Callers -> {"idle", "using"} \cup Requests \cup Steps]
    BY DEF Init
  <2>3. interrupts \in 0 .. Interrupts /\ cycle \in Nat /\ persists \in Nat
    BY InterruptsAssumption DEF Init
  <2> QED  BY <2>1, <2>2, <2>3, NoTripFacts DEF Init, TypeOK
<1>2. \A c \in Callers : pc[c] = "idle"
  BY DEF Init
<1>3. report = None /\ persists = 0 /\ \A a \in 1 .. Adapters : halts[a] = 0
  BY AdaptersAssumption DEF Init
<1> QED  BY <1>1, <1>2, <1>3 DEF Init, IInv, LockInv, StepInv, StepOK, EvidenceInv, DenyInv,
                               Current, Tripping, Steps

(***************************************************************************)
(* Requests that are served in one step, and uses.                         *)
(***************************************************************************)
\* A caller that asks, or is answered at once, is at no step of a trip.
LEMMA OutsideStep ==
  ASSUME IInv, TypeOK', NEW c \in Callers, pc[c] \in Requests \cup {"idle"},
         NEW w \in Requests \cup {"idle"}, Goto(c, w),
         UNCHANGED <<report, lock, trip, cycle, suspended, persists, halts, stopped>>,
         latch' # latch => lock = None /\ latch' = "ARMED",
         lock # None => active' \subseteq active,
         latch = "TRIPPED" => active' \subseteq active,
         stopped \cap active' = {}
  PROVE  IInv'
<1> USE DEF IInv
<1>1. /\ pc'[c] = w /\ \A d \in Callers : d # c => pc'[d] = pc[d]
      /\ pc'[c] \notin Steps \cup {"using"} /\ pc[c] \notin Steps \cup {"using"}
  BY DEF Goto, TypeOK, Requests, Steps
<1>2. LockInv'
  BY <1>1 DEF LockInv
<1>3. Current' = Current /\ Tripping' = Tripping
  BY <1>1 DEF Current, Tripping
<1>4. \A d \in Callers : pc'[d] \in Steps => pc[d] \in Steps /\ lock = d /\ lock # None
  BY <1>1, NoneAssumption DEF LockInv
<1>5. StepInv'
  BY <1>1, <1>3, <1>4 DEF StepInv, StepOK
<1>6. EvidenceInv'
  BY <1>3 DEF EvidenceInv, TypeOK
<1>7. DenyInv'
  BY <1>1 DEF DenyInv, TypeOK
<1> QED  BY <1>2, <1>5, <1>6, <1>7

LEMMA RouteStep ==
  ASSUME IInv, NEW c \in Callers,
         \/ Ask(c) \/ TripAgain(c) \/ RearmRefused(c) \/ Rearm(c) \/ UseRefused(c)
         \/ Issue(c) \/ IssueRefused(c) \/ Revoke(c)
  PROVE  IInv'
<1> USE DEF IInv
<1>1. /\ pc[c] \in Requests \cup {"idle"}
      /\ UNCHANGED <<report, lock, trip, interrupts, cycle, suspended, persists, halts,
                     stopped>>
  BY DEF Ask, TripAgain, RearmRefused, Rearm, UseRefused, Issue, IssueRefused, Revoke,
         Serves, Answers, Requests, ghosts
<1>2. PICK w \in Requests \cup {"idle"} : Goto(c, w)
  BY DEF Ask, TripAgain, RearmRefused, Rearm, UseRefused, Issue, IssueRefused, Revoke,
         Answers
<1>3. /\ latch' # latch => lock = None /\ latch' = "ARMED"
      /\ latch' \in {"ARMED", "TRIPPED"} /\ display' \in BOOLEAN
  BY DEF Ask, TripAgain, RearmRefused, Rearm, UseRefused, Issue, IssueRefused, Revoke,
         Serves, TypeOK
<1>4. /\ lock # None => active' \subseteq active
      /\ latch = "TRIPPED" => active' \subseteq active
      /\ stopped \cap active' = {}
      /\ active' \subseteq known' /\ known' \subseteq Grants /\ known \subseteq known'
  <2>1. CASE Issue(c)
    <3>1. PICK g \in Grants \ known : active' = active \cup {g} /\ known' = known \cup {g}
      BY <2>1 DEF Issue
    <3>2. lock = None /\ latch = "ARMED"
      BY <2>1 DEF Issue, Serves
    <3> QED  BY <3>1, <3>2 DEF TypeOK, DenyInv
  <2>2. CASE Revoke(c)
    BY <2>2 DEF Revoke, TypeOK, DenyInv
  <2>3. CASE UNCHANGED <<active, known>>
    BY <2>3 DEF TypeOK, DenyInv
  <2> QED  BY <2>1, <2>2, <2>3
           DEF Ask, TripAgain, RearmRefused, Rearm, UseRefused, IssueRefused
<1>5. TypeOK'
  BY <1>1, <1>2, <1>3, <1>4 DEF Goto, TypeOK
<1> QED  BY <1>1, <1>2, <1>3, <1>4, <1>5, OutsideStep

LEMMA UseStep ==
  ASSUME IInv, NEW c \in Callers, Use(c) \/ UseEnds(c)
  PROVE  IInv'
<1> USE DEF IInv
<1>1. /\ UNCHANGED <<latch, report, display, trip, active, known, interrupts, cycle,
                     suspended, persists, halts, stopped>>
      /\ pc[c] \notin Steps
  BY DEF Use, UseEnds, Serves, Steps, ghosts
<1>2. \/ lock = None /\ lock' = c /\ Goto(c, "using") /\ latch = "ARMED"
      \/ pc[c] = "using" /\ lock' = None /\ Goto(c, "idle")
  BY DEF Use, UseEnds, Serves
<1>3. /\ pc'[c] \in {"using", "idle"} /\ \A d \in Callers : d # c => pc'[d] = pc[d]
      /\ pc'[c] \notin Steps
  BY <1>2 DEF Goto, TypeOK, Steps
<1>4. TypeOK'
  BY <1>1, <1>2 DEF Goto, TypeOK
<1>5. \A d \in Callers : d # c => pc[d] \notin Steps \cup {"using"}
  BY <1>2, NoneAssumption DEF LockInv
<1>6. LockInv'
  BY <1>2, <1>3, <1>5 DEF LockInv, Goto, TypeOK
<1>7. Current' = Current /\ ~Tripping /\ ~Tripping'
  BY <1>1, <1>3, <1>5 DEF Current, Tripping
<1>8. StepInv' /\ EvidenceInv'
  BY <1>1, <1>7 DEF StepInv, StepOK, EvidenceInv, Tripping
<1>9. DenyInv'
  BY <1>1, <1>2, <1>3, <1>5 DEF DenyInv, Goto, TypeOK
<1> QED  BY <1>4, <1>6, <1>8, <1>9

(***************************************************************************)
(* A trip.                                                                 *)
(***************************************************************************)
\* The caller that trips is the only one past its first step.
LEMMA LoneStep ==
  ASSUME TypeOK, LockInv, NEW c \in Callers, pc[c] \in Steps \/ lock = None,
         NEW w, Goto(c, w)
  PROVE  /\ pc'[c] = w
         /\ \A d \in Callers : d # c => pc'[d] = pc[d] /\ pc'[d] \notin Steps \cup {"using"}
  BY NoneAssumption DEF TypeOK, LockInv, Goto

LEMMA LatchStep ==
  ASSUME IInv, NEW c \in Callers, Latch(c)
  PROVE  IInv'
<1> USE DEF IInv
<1>1. /\ latch' = "TRIPPED" /\ lock' = c /\ Goto(c, "clock")
      /\ cycle' = cycle + 1 /\ suspended' = FALSE /\ persists' = 0
      /\ halts' = [a \in 1 .. Adapters |-> 0]
      /\ UNCHANGED <<report, display, trip, active, known, interrupts, stopped>>
      /\ lock = None /\ latch = "ARMED"
  BY DEF Latch, Serves
<1>2. /\ pc'[c] = "clock"
      /\ \A d \in Callers : d # c => pc'[d] = pc[d] /\ pc'[d] \notin Steps \cup {"using"}
  BY <1>1, LoneStep
<1>3. TypeOK'
  <2>1. halts' \in [1 .. Adapters -> Nat]
    BY <1>1
  <2>2. pc' \in [Callers -> {"idle", "using"} \cup Requests \cup Steps]
    BY <1>1 DEF Goto, TypeOK, Steps
  <2>3. cycle' \in Nat
    BY <1>1 DEF TypeOK
  <2>4. suspended' \in BOOLEAN
    BY <1>1
  <2>5. persists' \in Nat
    BY <1>1
  <2>6. lock' \in Callers \cup {None} /\ latch' \in {"ARMED", "TRIPPED"}
    BY <1>1
  <2> QED  BY <1>1, <2>1, <2>2, <2>3, <2>4, <2>5, <2>6 DEF TypeOK
<1>4. ~Current'
  BY <1>1 DEF Current, EvidenceInv, TypeOK, Reports
<1>5. trip = NoTrip
  BY <1>1, NoneAssumption DEF StepInv, Tripping, LockInv
<1>6. /\ ~trip.persisted /\ trip.called = 0 /\ trip.completed = 0
      /\ \A a \in 1 .. Adapters : halts'[a] = 0 /\ ~(a <= 0)
  BY <1>1, <1>5, AdaptersAssumption DEF NoTrip
<1>7. StepInv'
  <2>1. Tripping'
    BY <1>2 DEF Tripping, Steps
  <2> QED  BY <1>1, <1>2, <1>4, <1>6, <2>1 DEF StepInv, StepOK
<1>8. EvidenceInv'
  BY <1>1, <1>4, <1>6 DEF EvidenceInv, TypeOK, Reports
<1>9. LockInv' /\ DenyInv'
  BY <1>1, <1>2 DEF LockInv, DenyInv
<1> QED  BY <1>3, <1>7, <1>8, <1>9

LEMMA ContinueStep ==
  ASSUME IInv, NEW c \in Callers, pc[c] \in Steps, NEW w \in Steps, NEW locals,
         Continue(c, w, locals), TypeOK', EvidenceInv', DenyInv', StepOK(c)'
  PROVE  IInv'
<1>1. /\ pc'[c] = w /\ lock' = lock /\ lock = c
      /\ \A d \in Callers : d # c => pc'[d] = pc[d] /\ pc'[d] \notin Steps \cup {"using"}
  BY LoneStep DEF Continue, IInv, LockInv
<1>2. LockInv'
  BY <1>1 DEF LockInv
<1>3. StepInv'
  BY <1>1 DEF StepInv, Tripping
<1> QED  BY <1>2, <1>3 DEF IInv

\* A trip ends, with its evidence or without it.
LEMMA EndStep ==
  ASSUME IInv, NEW c \in Callers, pc[c] \in Steps, Goto(c, "idle"), trip' = NoTrip,
         lock' = None, TypeOK', EvidenceInv', DenyInv'
  PROVE  IInv'
<1>1. /\ pc'[c] = "idle"
      /\ \A d \in Callers : d # c => pc'[d] = pc[d] /\ pc'[d] \notin Steps \cup {"using"}
  BY LoneStep DEF IInv
<1>2. \A d \in Callers : pc'[d] \notin Steps \cup {"using"}
  BY <1>1 DEF Steps
<1> QED  BY <1>2 DEF IInv, LockInv, StepInv, Tripping

LEMMA ProceedTyped ==
  ASSUME TypeOK, NEW c \in Callers, NEW outcome, NEW w \in Steps, NEW locals \in Trips,
         Proceed(c, outcome, w, locals)
  PROVE  /\ pc' \in [Callers -> {"idle", "using"} \cup Requests \cup Steps]
         /\ trip' \in Trips /\ lock' \in Callers \cup {None}
         /\ interrupts' \in 0 .. Interrupts
  BY NoTripFacts, InterruptsAssumption DEF Proceed, Continue, Interrupted, Goto, TypeOK

\* No caller is in use of a grant during a trip, and a trip brings none back.
LEMMA DenyStep ==
  ASSUME IInv, NEW c \in Callers, pc[c] \in Steps, NEW w \in Steps \cup {"idle"},
         Goto(c, w), stopped' \cap active' = {}
  PROVE  DenyInv'
<1>1. \A d \in Callers : pc'[d] # "using"
  BY LoneStep DEF IInv, Steps
<1> QED  BY <1>1 DEF DenyInv

LEMMA ReadClockStep ==
  ASSUME IInv, NEW c \in Callers, ReadClock(c)
  PROVE  IInv'
<1>1. PICK outcome \in Outcomes :
        Proceed(c, outcome, "show", [trip EXCEPT !.timed = outcome = "returns"])
  BY DEF ReadClock
<1> DEFINE locals == [trip EXCEPT !.timed = outcome = "returns"]
<1>2. /\ UNCHANGED <<latch, report, display, active, known, cycle, suspended, persists,
                     halts, stopped>>
      /\ pc[c] = "clock" /\ pc[c] \in Steps /\ "show" \in Steps /\ StepOK(c)
  BY DEF ReadClock, ghosts, Steps, IInv, StepInv
<1>3. /\ locals \in Trips /\ locals.persisted = trip.persisted
      /\ locals.called = trip.called /\ locals.completed = trip.completed
  BY DEF IInv, TypeOK, Trips
<1> HIDE DEF locals
<1>4. TypeOK'
  BY <1>1, <1>2, <1>3, ProceedTyped DEF IInv, TypeOK, locals
<1>5. EvidenceInv'
  BY <1>2 DEF IInv, EvidenceInv, Current
<1>6. \A w \in Steps \cup {"idle"} : Goto(c, w) => DenyInv'
  BY <1>2, DenyStep DEF IInv, DenyInv
<1>7. CASE outcome = "interrupts"
  BY <1>1, <1>2, <1>4, <1>5, <1>6, <1>7, EndStep DEF Proceed, Interrupted
<1>8. CASE outcome # "interrupts"
  <2>1. Continue(c, "show", locals) /\ Goto(c, "show") /\ trip' = locals
    BY <1>1, <1>8 DEF Proceed, Continue, locals
  <2>2. pc'[c] = "show"
    BY <1>2, <2>1, LoneStep DEF IInv
  <2>3. StepOK(c)'
    BY <1>2, <1>3, <2>1, <2>2 DEF StepOK, Current
  <2> QED  BY <1>2, <1>4, <1>5, <1>6, <2>1, <2>3, ContinueStep
<1> QED  BY <1>7, <1>8

LEMMA ShowStep ==
  ASSUME IInv, NEW c \in Callers, Show(c)
  PROVE  IInv'
<1> DEFINE w == IF trip.timed THEN "persist" ELSE AdaptersNext
<1>1. PICK outcome \in Outcomes, shown \in BOOLEAN :
        Proceed(c, outcome, w, trip) /\ display' = (display \/ shown)
  BY DEF Show
<1>2. /\ UNCHANGED <<latch, report, active, known, cycle, suspended, persists, halts,
                     stopped>>
      /\ pc[c] = "show" /\ pc[c] \in Steps /\ StepOK(c)
  BY DEF Show, ghosts, Steps, IInv, StepInv
<1>3. w \in Steps /\ w \in {"persist", "halt", "report"}
      /\ (w = "halt" => Adapters # 0) /\ (w = "report" => Adapters = 0)
  BY DEF AdaptersNext, Steps
<1> HIDE DEF w
<1>4. display' \in BOOLEAN /\ trip \in Trips
  BY <1>1 DEF IInv, TypeOK
<1>5. TypeOK'
  BY <1>1, <1>2, <1>3, <1>4, ProceedTyped DEF IInv, TypeOK
<1>6. EvidenceInv'
  BY <1>2 DEF IInv, EvidenceInv, Current
<1>7. \A v \in Steps \cup {"idle"} : Goto(c, v) => DenyInv'
  BY <1>2, DenyStep DEF IInv, DenyInv
<1>8. CASE outcome = "interrupts"
  BY <1>1, <1>2, <1>5, <1>6, <1>7, <1>8, EndStep DEF Proceed, Interrupted
<1>9. CASE outcome # "interrupts"
  <2>1. Continue(c, w, trip) /\ Goto(c, w) /\ trip' = trip
    BY <1>1, <1>9 DEF Proceed, Continue
  <2>2. pc'[c] = w
    BY <1>2, <2>1, LoneStep DEF IInv
  <2>3. StepOK(c)'
    BY <1>2, <1>3, <2>1, <2>2, AdaptersAssumption DEF StepOK, Current
  <2> QED  BY <1>2, <1>3, <1>5, <1>6, <1>7, <2>1, <2>3, ContinueStep
<1> QED  BY <1>8, <1>9

LEMMA PersistStep ==
  ASSUME IInv, NEW c \in Callers, Persist(c)
  PROVE  IInv'
<1>1. PICK outcome \in Outcomes, committed \in BOOLEAN :
        /\ outcome = "returns" => committed
        /\ Proceed(c, outcome, AdaptersNext,
                   [trip EXCEPT !.persisted = outcome = "returns"])
        /\ active' = IF committed THEN {} ELSE active
        /\ suspended' = committed
        /\ stopped' = IF outcome = "returns" THEN stopped \cup active ELSE stopped
  BY DEF Persist
<1> DEFINE locals == [trip EXCEPT !.persisted = outcome = "returns"]
           w == AdaptersNext
<1>2. /\ UNCHANGED <<latch, report, display, known, cycle, halts>>
      /\ persists' = persists + 1
      /\ pc[c] = "persist" /\ pc[c] \in Steps /\ StepOK(c)
  BY DEF Persist, Steps, IInv, StepInv
<1>3. /\ locals \in Trips /\ locals.persisted = (outcome = "returns")
      /\ locals.called = trip.called /\ locals.completed = trip.completed
  BY DEF IInv, TypeOK, Trips
<1>4. w \in Steps /\ w \in {"halt", "report"}
      /\ (w = "halt" => Adapters # 0) /\ (w = "report" => Adapters = 0)
  BY DEF AdaptersNext, Steps
<1>5. Proceed(c, outcome, w, locals)
  BY <1>1
<1> HIDE DEF locals, w
<1>6. persists' = 1
  BY <1>2 DEF StepOK
<1>7. TypeOK'
  <2>1. active' \subseteq known /\ stopped' \subseteq known
    BY <1>1 DEF IInv, TypeOK
  <2>2. suspended' \in BOOLEAN
    BY <1>1
  <2>3. /\ pc' \in [Callers -> {"idle", "using"} \cup Requests \cup Steps]
        /\ trip' \in Trips /\ lock' \in Callers \cup {None}
        /\ interrupts' \in 0 .. Interrupts
    BY <1>3, <1>4, <1>5, ProceedTyped DEF IInv
  <2>4. persists' \in Nat
    BY <1>6
  <2> QED  BY <1>2, <2>1, <2>2, <2>3, <2>4 DEF IInv, TypeOK
<1>8. EvidenceInv'
  <2>1. ~Current'
    BY <1>2 DEF StepOK, Current
  <2> QED  BY <1>2, <1>6, <2>1 DEF IInv, EvidenceInv
<1>9. stopped' \cap active' = {}
  BY <1>1 DEF IInv, DenyInv
<1>10. \A v \in Steps \cup {"idle"} : Goto(c, v) => DenyInv'
  BY <1>2, <1>9, DenyStep
<1>11. CASE outcome = "interrupts"
  BY <1>2, <1>5, <1>7, <1>8, <1>10, <1>11, EndStep DEF Proceed, Interrupted
<1>12. CASE outcome # "interrupts"
  <2>1. Continue(c, w, locals) /\ Goto(c, w) /\ trip' = locals
    BY <1>5, <1>12 DEF Proceed, Continue
  <2>2. pc'[c] = w
    BY <1>2, <2>1, LoneStep DEF IInv
  <2>3. trip'.persisted => suspended' /\ active' = {}
    BY <1>1, <1>3, <2>1
  <2>4. /\ trip'.called = trip.called /\ trip'.completed = trip.completed
        /\ trip.called = 0 /\ ~Current' /\ latch' = "TRIPPED"
    BY <1>2, <1>3, <2>1 DEF StepOK, Current
  <2>5. StepOK(c)'
    BY <1>2, <1>4, <2>2, <2>3, <2>4, AdaptersAssumption DEF StepOK
  <2> QED  BY <1>2, <1>4, <1>7, <1>8, <1>10, <2>1, <2>5, ContinueStep
<1> QED  BY <1>11, <1>12

LEMMA HaltStep ==
  ASSUME IInv, NEW c \in Callers, Halt(c)
  PROVE  IInv'
<1> DEFINE w == IF trip.called + 1 = Adapters THEN "report" ELSE "halt"
<1>1. PICK outcome \in Outcomes :
        Proceed(c, outcome, w,
                [trip EXCEPT !.called = @ + 1,
                             !.completed = IF outcome = "returns" THEN @ + 1 ELSE @])
  BY DEF Halt
<1> DEFINE locals == [trip EXCEPT !.called = @ + 1,
                                  !.completed = IF outcome = "returns" THEN @ + 1 ELSE @]
<1>2. /\ UNCHANGED <<latch, report, display, active, known, cycle, suspended, persists,
                     stopped>>
      /\ halts' = [halts EXCEPT ![trip.called + 1] = @ + 1]
      /\ pc[c] = "halt" /\ pc[c] \in Steps /\ StepOK(c)
  BY DEF Halt, Steps, IInv, StepInv
<1>3. /\ trip.called \in Nat /\ trip.completed \in Nat
      /\ trip.called < Adapters /\ trip.completed <= trip.called /\ trip \in Trips
  BY <1>2, AdaptersAssumption DEF StepOK, IInv, TypeOK, Trips, Counts
<1>4. /\ locals \in Trips /\ locals.persisted = trip.persisted
      /\ locals.called = trip.called + 1 /\ locals.completed <= locals.called
  <2> DEFINE done == IF outcome = "returns" THEN trip.completed + 1 ELSE trip.completed
             more == trip.called + 1
  <2>1. locals = [trip EXCEPT !.called = more, !.completed = done]
    OBVIOUS
  <2>2. done \in Counts /\ more \in Counts /\ done <= more
    BY <1>3, AdaptersAssumption DEF Counts
  <2>3. trip \in Trips
    BY <1>3
  <2> HIDE DEF done, more, locals
  <2>4. /\ locals \in Trips /\ locals.persisted = trip.persisted
        /\ locals.called = more /\ locals.completed = done
    BY <2>1, <2>2, <2>3 DEF Trips
  <2> QED  BY <2>2, <2>4 DEF more
<1>5. /\ w \in Steps /\ w \in {"halt", "report"}
      /\ (w = "report") <=> (trip.called + 1 = Adapters)
  BY DEF Steps
<1>6. Proceed(c, outcome, w, locals)
  BY <1>1
<1> HIDE DEF locals, w
<1>7. \A a \in 1 .. Adapters : halts'[a] = IF a <= trip.called + 1 THEN 1 ELSE 0
  <2>1. halts \in [1 .. Adapters -> Nat]
    BY DEF IInv, TypeOK
  <2>2. \A a \in 1 .. Adapters : halts[a] = IF a <= trip.called THEN 1 ELSE 0
    BY <1>2 DEF StepOK
  <2> QED  BY <1>2, <1>3, <2>1, <2>2, AdaptersAssumption
<1>8. TypeOK'
  <2>1. halts' \in [1 .. Adapters -> Nat]
    <3>1. halts \in [1 .. Adapters -> Nat] /\ trip.called + 1 \in 1 .. Adapters
      BY <1>3, AdaptersAssumption DEF IInv, TypeOK
    <3> QED  BY <1>2, <3>1
  <2>2. /\ pc' \in [Callers -> {"idle", "using"} \cup Requests \cup Steps]
        /\ trip' \in Trips /\ lock' \in Callers \cup {None}
        /\ interrupts' \in 0 .. Interrupts
    BY <1>4, <1>5, <1>6, ProceedTyped DEF IInv
  <2> QED  BY <1>2, <2>1, <2>2 DEF IInv, TypeOK
<1>9. EvidenceInv'
  <2>1. ~Current'
    BY <1>2 DEF StepOK, Current
  <2> QED  BY <1>2, <1>7, <2>1 DEF IInv, EvidenceInv
<1>10. \A v \in Steps \cup {"idle"} : Goto(c, v) => DenyInv'
  BY <1>2, DenyStep DEF IInv, DenyInv
<1>11. CASE outcome = "interrupts"
  BY <1>2, <1>6, <1>8, <1>9, <1>10, <1>11, EndStep DEF Proceed, Interrupted
<1>12. CASE outcome # "interrupts"
  <2>1. Continue(c, w, locals) /\ Goto(c, w) /\ trip' = locals
    BY <1>6, <1>12 DEF Proceed, Continue
  <2>2. pc'[c] = w
    BY <1>2, <2>1, LoneStep DEF IInv
  <2>3. StepOK(c)'
    BY <1>2, <1>3, <1>4, <1>5, <1>7, <2>1, <2>2, AdaptersAssumption DEF StepOK, Current
  <2> QED  BY <1>2, <1>5, <1>8, <1>9, <1>10, <2>1, <2>3, ContinueStep
<1> QED  BY <1>11, <1>12

LEMMA ReportStep ==
  ASSUME IInv, NEW c \in Callers, Report(c)
  PROVE  IInv'
<1>1. /\ UNCHANGED <<latch, display, active, known, cycle, suspended, persists, halts,
                     stopped>>
      /\ pc[c] = "report" /\ pc[c] \in Steps /\ StepOK(c)
      /\ Goto(c, "idle") /\ trip' = NoTrip /\ lock' = None
      /\ \/ interrupts' = interrupts
         \/ interrupts < Interrupts /\ interrupts' = interrupts + 1
  <2>1. pc[c] = "report" /\ pc[c] \in Steps /\ StepOK(c)
    BY DEF Report, Steps, IInv, StepInv
  <2>2. Goto(c, "idle") /\ trip' = NoTrip /\ lock' = None
    BY DEF Report, Interrupted
  <2> QED  BY <2>1, <2>2 DEF Report, Interrupted, ghosts
<1>2. \/ report' = report
      \/ report' = [cycle |-> cycle, persisted |-> trip.persisted,
                    called |-> trip.called, completed |-> trip.completed]
  BY DEF Report
<1>3. report' \in Reports \cup {None}
  BY <1>2 DEF IInv, TypeOK, Trips, Reports
<1>4. interrupts' \in 0 .. Interrupts
  BY <1>1, InterruptsAssumption DEF IInv, TypeOK
<1>5. TypeOK'
  BY <1>1, <1>3, <1>4, NoTripFacts DEF Goto, IInv, TypeOK
<1>6. EvidenceInv'
  <2>1. CASE report' = report
    BY <1>1, <2>1 DEF StepOK, IInv, EvidenceInv, Current
  <2>2. CASE report' = [cycle |-> cycle, persisted |-> trip.persisted,
                        called |-> trip.called, completed |-> trip.completed]
    <3>1. /\ report'.cycle = cycle /\ report'.persisted = trip.persisted
          /\ report'.called = trip.called /\ trip.called = Adapters
          /\ trip.persisted => suspended /\ active = {}
          /\ \A a \in 1 .. Adapters : halts[a] = 1
      BY <1>1, <2>2, AdaptersAssumption DEF StepOK
    <3> QED  BY <1>1, <3>1 DEF IInv, TypeOK, EvidenceInv, Current
  <2> QED  BY <1>2, <2>1, <2>2
<1>7. DenyInv'
  BY <1>1, DenyStep DEF IInv, DenyInv
<1> QED  BY <1>1, <1>5, <1>6, <1>7, EndStep

\* A process that starts has no requests, no trip and no evidence.
LEMMA RestartStep ==
  ASSUME IInv, Restart
  PROVE  IInv'
<1>1. /\ latch' = "ARMED" /\ report' = None /\ display' = FALSE /\ lock' = None
      /\ trip' = NoTrip /\ interrupts < Interrupts /\ interrupts' = interrupts + 1
      /\ UNCHANGED <<active, known, cycle, suspended, persists, halts, stopped>>
  BY DEF Restart, ghosts
<1>2. pc' \in [Callers -> {"idle"}]
  BY DEF Restart
<1>3. \A d \in Callers : pc'[d] = "idle" /\ pc'[d] \notin Steps \cup {"using"}
  BY <1>2 DEF Steps
<1>4. interrupts' \in 0 .. Interrupts
  BY <1>1, InterruptsAssumption DEF IInv, TypeOK
<1>5. TypeOK'
  BY <1>1, <1>2, <1>4, NoTripFacts DEF IInv, TypeOK
<1>6. ~Current' /\ ~Tripping'
  BY <1>1, <1>3 DEF Current, Tripping
<1>7. LockInv' /\ StepInv'
  BY <1>1, <1>3, <1>6 DEF LockInv, StepInv
<1>8. EvidenceInv' /\ DenyInv'
  BY <1>1, <1>6 DEF IInv, EvidenceInv, DenyInv
<1> QED  BY <1>5, <1>7, <1>8 DEF IInv

(***************************************************************************)
(* The theorems.                                                           *)
(***************************************************************************)
LEMMA InterlockStep == IInv /\ [Next]_vars => IInv'
<1> SUFFICES ASSUME IInv, [Next]_vars PROVE IInv'
  OBVIOUS
<1>1. CASE UNCHANGED vars
  BY <1>1 DEF vars, ghosts, IInv, TypeOK, LockInv, StepInv, StepOK, EvidenceInv, DenyInv,
              Tripping, Current
<1>2. ASSUME NEW c \in Callers, Ask(c) \/ Handle(c) \/ Step(c) PROVE IInv'
  BY <1>2, RouteStep, UseStep, LatchStep, ReadClockStep, ShowStep, PersistStep, HaltStep,
     ReportStep DEF Handle, Step
<1> QED  BY <1>1, <1>2, RestartStep DEF Next

LEMMA InterlockInvariant == Spec => []IInv
  BY InterlockInit, InterlockStep, PTL DEF Spec

\* Whatever a dependency does, every variable keeps its type: in particular no
\* trip calls an adapter it does not have.
THEOREM InterlockTypeCorrect == Spec => []TypeOK
  BY InterlockInvariant, PTL DEF IInv

\* For any number of callers and whatever fails or interrupts a trip: a set
\* latch is never passed, and its evidence of a suspension is true.
THEOREM LatchHolds == Spec => []TrippedDenies
<1>1. IInv => TrippedDenies
  BY DEF IInv, DenyInv, EvidenceInv, TrippedDenies
<1> QED  BY <1>1, InterlockInvariant, PTL

\* No later request, and no restart, activates a grant that a trip reported as
\* suspended.
THEOREM StoppedIsFinal == Spec => []StoppedStaysStopped
<1>1. IInv => StoppedStaysStopped
  BY DEF IInv, DenyInv, StoppedStaysStopped
<1> QED  BY <1>1, InterlockInvariant, PTL

\* However callers race, one cycle has one suspension and one call per adapter.
THEOREM EffectsOnce == Spec => []OncePerCycle
<1>1. IInv => OncePerCycle
  BY DEF IInv, EvidenceInv, OncePerCycle
<1> QED  BY <1>1, InterlockInvariant, PTL

(***************************************************************************)
(* Without interruptions the interlock implements StopLatch, for any       *)
(* number of callers, grants, adapters and latch cycles.  What is needed   *)
(* beyond the inductive invariant: a latch that is set and no longer being *)
(* tripped has the evidence of its own cycle, not of an earlier one.       *)
(***************************************************************************)
Uninterrupted == interrupts = 0 /\ (latch = "TRIPPED" /\ ~Tripping => Current)

LEMMA UninterruptedStep ==
  ASSUME Interrupts = 0, IInv, Uninterrupted, [Next]_vars
  PROVE  Uninterrupted'
<1>1. ASSUME NEW c \in Callers, Interrupted(c) PROVE FALSE
  BY <1>1 DEF Interrupted, Uninterrupted
<1>2. CASE UNCHANGED <<latch, report, pc, cycle, interrupts>>
  BY <1>2 DEF Uninterrupted, Tripping, Current
<1>3. ASSUME NEW c \in Callers, Ask(c) \/ Handle(c) \/ UseEnds(c) PROVE Uninterrupted'
  <2>1. CASE Latch(c)
    <3>1. pc'[c] = "clock" /\ interrupts' = interrupts
      BY <2>1 DEF Latch, Goto, IInv, TypeOK
    <3> QED  BY <3>1 DEF Uninterrupted, Tripping, Steps
  <2>2. CASE ~Latch(c)
    <3>1. /\ UNCHANGED <<report, cycle, interrupts>>
          /\ latch' # latch => latch' = "ARMED"
          /\ pc[c] \notin Steps
      BY <1>3, <2>2
      DEF Ask, Handle, TripAgain, RearmRefused, Rearm, Use, UseRefused, UseEnds, Issue,
          IssueRefused, Revoke, Serves, Answers, Requests, Steps, ghosts
    <3>2. \E w : Goto(c, w)
      BY <1>3, <2>2
      DEF Ask, Handle, TripAgain, RearmRefused, Rearm, Use, UseRefused, UseEnds, Issue,
          IssueRefused, Revoke, Answers
    <3>3. \A d \in Callers : pc[d] \in Steps => pc'[d] \in Steps
      BY <3>1, <3>2 DEF Goto, IInv, TypeOK
    <3> QED  BY <3>1, <3>3 DEF Uninterrupted, Tripping, Current
  <2> QED  BY <2>1, <2>2
<1>4. ASSUME NEW c \in Callers, ReadClock(c) \/ Show(c) \/ Persist(c) \/ Halt(c)
      PROVE  Uninterrupted'
  <2>1. \E w \in Steps : \E locals : Continue(c, w, locals)
    BY <1>1, <1>4 DEF ReadClock, Show, Persist, Halt, Proceed, AdaptersNext, Steps
  <2>2. interrupts' = interrupts /\ pc'[c] \in Steps
    BY <2>1 DEF Continue, Goto, IInv, TypeOK
  <2> QED  BY <2>2 DEF Uninterrupted, Tripping
<1>5. ASSUME NEW c \in Callers, Report(c) PROVE Uninterrupted'
  <2>1. /\ report' = [cycle |-> cycle, persisted |-> trip.persisted,
                      called |-> trip.called, completed |-> trip.completed]
        /\ cycle' = cycle /\ interrupts' = interrupts
    BY <1>1, <1>5 DEF Report, ghosts
  <2>2. report' \in Reports
    BY <2>1 DEF IInv, TypeOK, Trips, Reports
  <2>3. Current'
    BY <2>1, <2>2, NoneAssumption DEF Current
  <2> QED  BY <2>1, <2>3 DEF Uninterrupted
<1>6. CASE Restart
  BY <1>6 DEF Restart, Uninterrupted
<1> QED  BY <1>2, <1>3, <1>4, <1>5, <1>6 DEF Next, Step, vars, ghosts

LEMMA StopLatchStep ==
  ASSUME Interrupts = 0, IInv, Uninterrupted, [Next]_vars
  PROVE  [Abstract!Next]_(Abstract!vars)
<1>1. CASE UNCHANGED <<latch, suspended>>
  BY <1>1 DEF Abstract!vars
<1>2. ASSUME NEW c \in Callers, Latch(c) PROVE Abstract!Trip
  BY <1>2 DEF Latch, Abstract!Trip
<1>3. ASSUME NEW c \in Callers, Persist(c)
      PROVE  Abstract!Suspend \/ UNCHANGED <<latch, suspended>>
  <2>1. latch = "TRIPPED" /\ ~suspended /\ latch' = latch
    BY <1>3 DEF Persist, Steps, IInv, StepInv, StepOK
  <2>2. suspended' \in BOOLEAN /\ suspended \in BOOLEAN
    BY <1>3 DEF Persist, IInv, TypeOK
  <2>3. CASE suspended'
    BY <2>1, <2>3 DEF Abstract!Suspend
  <2>4. CASE ~suspended'
    BY <2>1, <2>2, <2>4
  <2> QED  BY <2>3, <2>4
<1>4. ASSUME NEW c \in Callers, Rearm(c)
      PROVE  Abstract!Rearm \/ UNCHANGED <<latch, suspended>>
  <2>1. lock = None /\ latch' = "ARMED" /\ suspended' = suspended
    BY <1>4 DEF Rearm, Serves, Answers, ghosts
  <2>2. CASE latch = "TRIPPED"
    <3>1. ~Tripping
      BY <2>1, NoneAssumption DEF Tripping, IInv, LockInv
    <3>2. Current /\ report.persisted
      BY <1>4, <2>2, <3>1 DEF Rearm, Evidence, Uninterrupted
    <3>3. suspended
      BY <2>2, <3>2 DEF IInv, EvidenceInv
    <3> QED  BY <2>1, <2>2, <3>3 DEF Abstract!Rearm
  <2>3. CASE latch = "ARMED"
    BY <2>1, <2>3
  <2> QED  BY <2>2, <2>3 DEF IInv, TypeOK
<1>5. ASSUME NEW c \in Callers,
             \/ Ask(c) \/ TripAgain(c) \/ RearmRefused(c) \/ Use(c) \/ UseRefused(c)
             \/ Issue(c) \/ IssueRefused(c) \/ Revoke(c)
             \/ ReadClock(c) \/ Show(c) \/ Halt(c) \/ Report(c) \/ UseEnds(c)
      PROVE  UNCHANGED <<latch, suspended>>
  BY <1>5 DEF Ask, TripAgain, RearmRefused, Use, UseRefused, Issue, IssueRefused, Revoke,
              ReadClock, Show, Halt, Report, UseEnds, Answers, ghosts
<1>6. CASE UNCHANGED vars
  BY <1>1, <1>6 DEF vars, ghosts
<1>7. CASE Restart
  BY <1>7 DEF Restart, Uninterrupted
<1> QED  BY <1>1, <1>2, <1>3, <1>4, <1>5, <1>6, <1>7
         DEF Next, Handle, Step, Abstract!Next

\* If no BaseException and no restart leaves a trip half-way, the latch is armed again only
\* after every grant was durably suspended in the same latch cycle.
THEOREM InterlockImplementsStopLatch ==
  ASSUME Interrupts = 0
  PROVE  Spec => ImplementsStopLatch
<1>1. Init => Abstract!Init
  BY DEF Init, Abstract!Init
<1>2. Init => Uninterrupted
  BY DEF Init, Uninterrupted
<1>3. IInv /\ Uninterrupted /\ [Next]_vars => Uninterrupted'
  BY UninterruptedStep
<1>4. IInv /\ Uninterrupted /\ [Next]_vars => [Abstract!Next]_(Abstract!vars)
  BY StopLatchStep
<1> QED  BY <1>1, <1>2, <1>3, <1>4, InterlockInvariant, PTL
         DEF Spec, ImplementsStopLatch, Abstract!Spec
=============================================================================
