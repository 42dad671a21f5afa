------------------------------ MODULE Housefile ------------------------------
(***************************************************************************)
(* The canonical housefile: threads or processes that load it or apply an  *)
(* owner's review to it (housefile/materialize.py) through the locked,     *)
(* restoring replacement of housefile/store.py.                            *)
(*                                                                         *)
(* A document is its revision and its zones; `by` numbers the request that *)
(* wrote it (0 for the first one) and `past` holds the versions before it. *)
(* Both are history: the code keeps neither.  What a review says of zones  *)
(* is their set, and geometry that does not match its review is refused    *)
(* before anything here begins.                                            *)
(***************************************************************************)
EXTENDS Naturals, Sequences, FiniteSets, DurableFile

CONSTANTS
  Procs,       \* callers of materialize_housefile and load
  Zones,       \* zone ids
  Referred,    \* the zones that systems, inventory and quirks refer to
  Plans,       \* the sets of zones a review may bring
  Letters,     \* 26: a letter is its index, "A" is 0
  MaxLength,   \* 8: the longest revision
  Firsts,      \* the revisions of the documents it may start with
  MaxRequests, \* bound on the requests
  Budget,      \* bound on each kind of failure
  None

Revisions == UNION {[1 .. n -> 0 .. Letters - 1] : n \in 1 .. MaxLength}

ASSUME HousefileAssumption ==
  /\ Referred \subseteq Zones /\ Plans \subseteq SUBSET Zones
  /\ Letters \in Nat \ {0} /\ MaxLength \in Nat
  /\ Firsts \subseteq Revisions
  /\ MaxRequests \in Nat
  /\ Budget \in [{"faults", "crashes", "losses"} -> Nat]
  /\ None \notin Procs

VARIABLES
  file,      \* the housefile: a DurableFile of documents
  lock,      \* the holder of the flock, or None
  pc,        \* where each caller is
  job,       \* its request
  orphaned,  \* the callers whose open descriptor lost its name to a rename
  old,       \* _replace_existing_locked: the document before, or None
  copy,      \* whether its rollback copy exists
  outcome,   \* how each caller's last request ended, or "none"
  asked,     \* requests so far
  receipts,  \* history: the receipts returned, in order
  refused,   \* history: the reviews that failed, unless the rollback did too
  seen,      \* history: the versions that were loaded or received
  used       \* failures so far

ghosts == <<receipts, refused, seen>>
vars == <<file, lock, pc, job, orphaned, old, copy, outcome, asked, ghosts, used>>

(***************************************************************************)
(* Revisions, documents and reviews.                                       *)
(***************************************************************************)
\* Every letter after place i is the last one: the increment carries into i.
Carried(r, i) == \A j \in i + 1 .. Len(r) : r[j] = Letters - 1

\* A faulty variant: the last revision of a length is followed by its first.
NextRevisionWraps(r) ==
  [i \in 1 .. Len(r) |-> IF Carried(r, i) THEN (r[i] + 1) % Letters ELSE r[i]]

NextRevision(r) ==
  LET turned == [i \in 1 .. Len(r) |->
                   IF Carried(r, i) THEN (r[i] + 1) % Letters ELSE r[i]]
  IN IF Carried(r, 0) THEN <<0>> \o turned ELSE turned

Exhausted(r) == Len(NextRevision(r)) > MaxLength

Versions == [rev : Revisions, zones : SUBSET Zones, by : Nat]
Documents == [rev : Revisions, zones : SUBSET Zones, by : Nat, past : SUBSET Versions]
Version(d) == [rev |-> d.rev, zones |-> d.zones, by |-> d.by]
History(d) == d.past \cup {Version(d)}

Reviews == [expects : Revisions, zones : Plans, id : Nat]

\* A faulty variant: the expected revision is not compared.
VerdictOnAny(d, j) ==
  CASE Exhausted(d.rev) -> "housefile_revision_exhausted"
    [] ~Exhausted(d.rev) /\ ~ Referred \subseteq j.zones -> "invalid_housefile_references"
    [] OTHER -> "accepted"

\* A faulty variant: a revision may grow past its last one.
VerdictUnbounded(d, j) ==
  CASE d.rev # j.expects -> "stale_housefile_revision"
    [] d.rev = j.expects /\ ~ Referred \subseteq j.zones -> "invalid_housefile_references"
    [] OTHER -> "accepted"

\* What materialize_housefile makes of review j under the lock, up to the save.
Verdict(d, j) ==
  CASE d.rev # j.expects -> "stale_housefile_revision"
    [] d.rev = j.expects /\ Exhausted(d.rev) -> "housefile_revision_exhausted"
    [] d.rev = j.expects /\ ~Exhausted(d.rev) /\ ~ Referred \subseteq j.zones ->
         "invalid_housefile_references"
    [] OTHER -> "accepted"

Updated(d, j) ==
  [rev |-> NextRevision(d.rev), zones |-> j.zones, by |-> j.id, past |-> History(d)]

First(r) == [rev |-> r, zones |-> Zones, by |-> 0, past |-> {}]

Init ==
  /\ file \in {Synced(First(r)) : r \in Firsts}
  /\ lock = None
  /\ pc = [p \in Procs |-> "idle"]
  /\ job = [p \in Procs |-> None]
  /\ orphaned = {}
  /\ old = [p \in Procs |-> None]
  /\ copy = [p \in Procs |-> FALSE]
  /\ outcome = [p \in Procs |-> "none"]
  /\ asked = 0
  /\ receipts = <<>> /\ refused = {} /\ seen = {}
  /\ used = [kind \in DOMAIN Budget |-> 0]

Spend(kind) ==
  /\ used[kind] < Budget[kind]
  /\ used' = [used EXCEPT ![kind] = @ + 1]

Goto(p, place) == pc' = [pc EXCEPT ![p] = place]

Held(p) == pc[p] \notin {"idle", "checking", "waiting"}
Saving(p) == Held(p) /\ pc[p] # "holding"

\* A faulty variant: only a request that passed unlocks.
EndLocked(p, how) ==
  /\ Goto(p, "idle")
  /\ outcome' = [outcome EXCEPT ![p] = how]
  /\ lock' = IF Held(p) /\ how \in {"passed", "loaded"} THEN None ELSE lock
  /\ old' = [old EXCEPT ![p] = None]
  /\ copy' = [copy EXCEPT ![p] = FALSE]
  /\ orphaned' = orphaned \ {p}
  /\ UNCHANGED <<job, asked>>

\* The request ends; its staged files go, and its lock if it has it.
End(p, how) ==
  /\ Goto(p, "idle")
  /\ outcome' = [outcome EXCEPT ![p] = how]
  /\ lock' = IF Held(p) THEN None ELSE lock
  /\ old' = [old EXCEPT ![p] = None]
  /\ copy' = [copy EXCEPT ![p] = FALSE]
  /\ orphaned' = orphaned \ {p}
  /\ UNCHANGED <<job, asked>>

Fail(p, how) ==
  /\ End(p, how)
  /\ refused' = IF job[p] = None \/ how = "housefile_rollback_failed"
                THEN refused ELSE refused \cup {job[p].id}
  /\ UNCHANGED <<receipts, seen>>

(***************************************************************************)
(* Before the lock and under it.                                           *)
(***************************************************************************)
\* A load, or a review of a revision the housefile has or had; locked() opens
\* the file once before it asks for the lock.
Begin(p) ==
  /\ pc[p] = "idle" /\ asked < MaxRequests
  /\ asked' = asked + 1
  /\ \/ job' = [job EXCEPT ![p] = None]
     \/ \E v \in History(file.now), zones \in Plans :
          job' = [job EXCEPT ![p] =
                    [expects |-> v.rev, zones |-> zones, id |-> asked + 1]]
  /\ outcome' = [outcome EXCEPT ![p] = "none"]
  /\ Goto(p, "checking")
  /\ UNCHANGED <<file, lock, orphaned, old, copy, ghosts, used>>

\* fstat of the open descriptor: a file that was renamed over has no link left.
Check(p) ==
  /\ pc[p] = "checking" /\ p \notin orphaned
  /\ Goto(p, "waiting")
  /\ UNCHANGED <<file, lock, job, orphaned, old, copy, outcome, asked, ghosts, used>>

CheckFails(p) ==
  /\ pc[p] = "checking" /\ p \in orphaned
  /\ Fail(p, "unsafe_housefile_file")
  /\ UNCHANGED <<file, used>>

\* A faulty variant: a lock of each caller's own.
AcquireOwn(p) ==
  /\ pc[p] = "waiting"
  /\ lock' = p
  /\ Goto(p, "holding")
  /\ UNCHANGED <<file, job, orphaned, old, copy, outcome, asked, ghosts, used>>

Acquire(p) ==
  /\ pc[p] = "waiting" /\ lock = None
  /\ lock' = p
  /\ Goto(p, "holding")
  /\ UNCHANGED <<file, job, orphaned, old, copy, outcome, asked, ghosts, used>>

\* A faulty variant: a load reads the file without waiting for the lock.
LoadUnlocked(p) ==
  /\ pc[p] \in {"waiting", "holding"} /\ job[p] = None
  /\ seen' = seen \cup {Version(file.now)}
  /\ End(p, "loaded")
  /\ UNCHANGED <<file, receipts, refused, used>>

Load(p) ==
  /\ pc[p] = "holding" /\ job[p] = None
  /\ seen' = seen \cup {Version(file.now)}
  /\ End(p, "loaded")
  /\ UNCHANGED <<file, receipts, refused, used>>

Refuse(p) ==
  /\ pc[p] = "holding" /\ job[p] # None
  /\ Verdict(file.now, job[p]) # "accepted"
  /\ Fail(p, Verdict(file.now, job[p]))
  /\ UNCHANGED <<file, used>>

(***************************************************************************)
(* _replace_existing_locked.                                               *)
(***************************************************************************)
\* The new document and a copy of the old one are written and synced.
Stage(p) ==
  /\ pc[p] = "holding" /\ job[p] # None
  /\ Verdict(file.now, job[p]) = "accepted"
  /\ old' = [old EXCEPT ![p] = file.now]
  /\ copy' = [copy EXCEPT ![p] = TRUE]
  /\ Goto(p, "staged")
  /\ UNCHANGED <<file, lock, job, orphaned, outcome, asked, ghosts, used>>

\* os.replace over the live name: every other open descriptor loses its link.
Move(d) ==
  /\ file' = Renamed(file, d)
  /\ orphaned' = orphaned \cup {q \in Procs : pc[q] = "checking"}

Replace(p) ==
  /\ pc[p] = "staged"
  /\ Move(Updated(old[p], job[p]))
  /\ Goto(p, "replaced")
  /\ UNCHANGED <<lock, job, old, copy, outcome, asked, ghosts, used>>

SyncDir(p) ==
  /\ pc[p] = "replaced"
  /\ file' = Synced(file.now)
  /\ Goto(p, "synced")
  /\ UNCHANGED <<lock, job, orphaned, old, copy, outcome, asked, ghosts, used>>

DropCopy(p) ==
  /\ pc[p] = "synced"
  /\ copy' = [copy EXCEPT ![p] = FALSE]
  /\ Goto(p, "dropped")
  /\ UNCHANGED <<file, lock, job, orphaned, old, outcome, asked, ghosts, used>>

\* The second sync and the last look at the file, then the receipt.
Receive(p) ==
  /\ pc[p] = "dropped"
  /\ file' = Synced(file.now)
  /\ receipts' = Append(receipts, [previous |-> job[p].expects, new |-> Version(file.now)])
  /\ seen' = seen \cup {Version(file.now)}
  /\ End(p, "passed")
  /\ UNCHANGED <<refused, used>>

(***************************************************************************)
(* Failures.                                                               *)
(***************************************************************************)
\* A call fails before the live name has moved.
GiveUp(p) ==
  /\ pc[p] \in {"checking", "holding", "staged"}
  /\ Spend("faults")
  /\ Fail(p, IF pc[p] = "staged" THEN "housefile_commit_failed"
             ELSE "housefile_unavailable")
  /\ UNCHANGED file

\* A faulty variant: the new document stays where it is.
CommitFailsAsItIs(p) ==
  /\ pc[p] \in {"replaced", "synced", "dropped"}
  /\ Spend("faults")
  /\ Fail(p, "housefile_commit_failed")
  /\ UNCHANGED file

\* A call fails after it has: the old document is put back.
CommitFails(p) ==
  /\ pc[p] \in {"replaced", "synced", "dropped"}
  /\ Spend("faults")
  /\ Goto(p, "restoring")
  /\ UNCHANGED <<file, lock, job, orphaned, old, copy, outcome, asked, ghosts>>

\* The rollback copy is written again if it is gone.
Restage(p) ==
  /\ pc[p] = "restoring" /\ ~ copy[p]
  /\ copy' = [copy EXCEPT ![p] = TRUE]
  /\ UNCHANGED <<file, lock, pc, job, orphaned, old, outcome, asked, ghosts, used>>

Restore(p) ==
  /\ pc[p] = "restoring" /\ copy[p]
  /\ Move(old[p])
  /\ copy' = [copy EXCEPT ![p] = FALSE]
  /\ Goto(p, "restored")
  /\ UNCHANGED <<lock, job, old, outcome, asked, ghosts, used>>

RestoreFails(p) ==
  /\ pc[p] = "restoring"
  /\ Spend("faults")
  /\ Fail(p, "housefile_rollback_failed")
  /\ UNCHANGED file

Settle(p) ==
  /\ pc[p] = "restored"
  /\ file' = Synced(file.now)
  /\ Fail(p, "housefile_commit_failed")
  /\ UNCHANGED used

\* The sync after a restore fails: the code passes over it.
SettleFails(p) ==
  /\ pc[p] = "restored"
  /\ Spend("faults")
  /\ Fail(p, "housefile_commit_failed")
  /\ UNCHANGED file

\* The process stops, or an interruption that is no Exception passes the
\* handlers: only the lock is given up.
Crash(p) ==
  /\ pc[p] # "idle"
  /\ Spend("crashes")
  /\ End(p, "none")
  /\ UNCHANGED <<file, ghosts>>

PowerLoss ==
  /\ Spend("losses")
  /\ file' \in AfterPowerLoss(file)
  /\ lock' = None
  /\ pc' = [p \in Procs |-> "idle"]
  /\ orphaned' = {}
  /\ old' = [p \in Procs |-> None]
  /\ copy' = [p \in Procs |-> FALSE]
  /\ outcome' = [p \in Procs |-> "none"]
  /\ UNCHANGED <<job, asked, ghosts>>

Work(p) ==
  \/ Check(p) \/ CheckFails(p) \/ Load(p) \/ Refuse(p)
  \/ Stage(p) \/ Replace(p) \/ SyncDir(p) \/ DropCopy(p) \/ Receive(p)
  \/ Restage(p) \/ Restore(p) \/ Settle(p)

Fault(p) ==
  \/ GiveUp(p) \/ CommitFails(p) \/ RestoreFails(p) \/ SettleFails(p) \/ Crash(p)

Next ==
  \/ \E p \in Procs : Begin(p) \/ Acquire(p) \/ Work(p) \/ Fault(p)
  \/ PowerLoss

Spec == Init /\ [][Next]_vars

\* A call ends, and a flock that is free again and again is granted.
LiveSpec == Spec /\ \A p \in Procs : SF_vars(Acquire(p)) /\ WF_vars(Work(p))

(***************************************************************************)
(* Properties.                                                             *)
(***************************************************************************)
Places == {"idle", "checking", "waiting", "holding", "staged", "replaced", "synced",
           "dropped", "restoring", "restored"}

Outcomes ==
  {"none", "loaded", "passed", "stale_housefile_revision", "housefile_revision_exhausted",
   "invalid_housefile_references", "unsafe_housefile_file", "housefile_unavailable",
   "housefile_commit_failed", "housefile_rollback_failed"}

\* Every variable holds a value of its type.
TypeOK ==
  /\ file.now \in Documents /\ file.disk \subseteq Documents
  /\ lock \in Procs \cup {None}
  /\ pc \in [Procs -> Places]
  /\ job \in [Procs -> Reviews \cup {None}]
  /\ orphaned \subseteq Procs
  /\ old \in [Procs -> Documents \cup {None}]
  /\ copy \in [Procs -> BOOLEAN]
  /\ outcome \in [Procs -> Outcomes]
  /\ asked \in Nat
  /\ receipts \in Seq([previous : Revisions, new : Versions])
  /\ refused \subseteq Nat /\ seen \subseteq Versions
  /\ used \in [DOMAIN Budget -> Nat]

\* A receipt is final: through failing calls, crashes and power losses, every
\* document that may survive is the one received or was made from it
\* (materialize.py:367, returned only after the save).
ReceiptsKept ==
  \A i \in DOMAIN receipts : \A d \in file.disk : receipts[i].new \in History(d)

\* Compare-and-swap: no two receipts replace the same revision, so of two
\* reviews of one revision at most one is ever applied (materialize.py:345).
OneReceiptPerRevision ==
  \A i, j \in DOMAIN receipts :
    receipts[i].previous = receipts[j].previous => i = j

\* r is before s in A, B, .. Z, AA, AB, ..
Earlier(r, s) ==
  \/ Len(r) < Len(s)
  \/ /\ Len(r) = Len(s)
     /\ \E k \in 1 .. Len(r) : r[k] < s[k] /\ \A i \in 1 .. k - 1 : r[i] = s[i]

\* Revisions never come round again: in every document that may survive, each
\* version before it has an earlier one (materialize.py:197 _next_revision).
RevisionsAdvance ==
  \A d \in file.disk : \A v \in d.past : Earlier(v.rev, d.rev)

\* Without a power loss, a review that was refused has left nothing behind,
\* except when putting the old document back failed (store.py:287, "restoring
\* its exact old bytes on commit failure").
RefusedIsUndone ==
  used["losses"] = 0 =>
    \A n \in refused : \A v \in History(file.now) : v.by # n

\* Without a power loss, whoever saw a revision saw the same document: what a
\* failing save puts back was never loaded (store.py:240 locked).
RevisionNamesOneDocument ==
  used["losses"] = 0 =>
    \A v, w \in seen : v.rev = w.rev => v = w

\* The document as it stands: a section that saves has not decided yet whether
\* it is the old one or the new one, and nobody else can tell.
Doc == IF lock # None /\ Saving(lock) THEN old[lock] ELSE file.now

\* The store and its reviews are one register: a review takes effect at the
\* instant it is received, or unanswered by a failure, and loads read what it
\* holds (docs/ARCHITECTURE.md:179-181).
Register ==
  INSTANCE HousefileRegister
  WITH doc <- Doc, failures <- used["faults"] + used["crashes"],
       outages <- used["losses"], Required <- Referred,
       Originals <- {First(r) : r \in Firsts}
ImplementsRegister == Register!Spec

\* Every request ends, whatever fails on its way.
RequestsEnd == \A p \in Procs : pc[p] # "idle" ~> pc[p] = "idle"

\* Of two reviews of one revision the one that loses is told it is stale, as
\* tests/unit/test_materialize.py:455 expects of two threads.
LoserIsStale ==
  \A p, q \in Procs :
    /\ job[p] # None /\ job[q] # None /\ job[p] # job[q]
    /\ job[p].expects = job[q].expects
    /\ pc[q] = "idle" /\ outcome[p] = "passed"
    => outcome[q] \in {"none", "stale_housefile_revision"}

(***************************************************************************)
(* The inductive invariants behind TypeOK and ReceiptsKept.                *)
(***************************************************************************)
LockInv == \A p \in Procs : Held(p) => lock = p

\* What a section that saves knows of its request and of the old document.
SavingInv(p) ==
  Saving(p) =>
    /\ job[p] \in Reviews /\ old[p] \in Documents
    /\ pc[p] = "staged" => ~ Exhausted(old[p].rev)

TypeInv == TypeOK /\ LockInv /\ \A p \in Procs : SavingInv(p)

Kept(d) == \A i \in DOMAIN receipts : receipts[i].new \in History(d)

\* Every document that may survive or be put back keeps every receipt.
KeptInv ==
  /\ file.now \in file.disk
  /\ \A d \in file.disk : Kept(d)
  /\ \A p \in Procs : Saving(p) => Kept(old[p])
=============================================================================
