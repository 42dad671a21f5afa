--------------------------- MODULE HousefileProofs ---------------------------
(***************************************************************************)
(* The housefile's receipts are final and replace a revision once, what is *)
(* refused leaves nothing, and a revision names one document, for every    *)
(* number of callers, every alphabet and every budget of failing calls,    *)
(* crashes and power losses.  Most of it rests on the revision counter: a  *)
(* revision is followed by a later one in the order of Earlier.            *)
(***************************************************************************)
EXTENDS Housefile, SequenceTheorems, FiniteSetTheorems, TLAPS

USE DEF Renamed, Synced, AfterPowerLoss

(***************************************************************************)
(* Revisions and documents.                                                *)
(***************************************************************************)
LEMMA LettersAreRevision ==
  ASSUME NEW s \in Seq(0 .. Letters - 1), Len(s) \in 1 .. MaxLength
  PROVE  s \in Revisions
<1>1. s \in [1 .. Len(s) -> 0 .. Letters - 1]
  BY LenProperties
<1> QED BY <1>1 DEF Revisions

\* A revision that is not the last one is followed by a revision.
LEMMA NextIsRevision ==
  ASSUME NEW r \in Revisions, ~ Exhausted(r)
  PROVE  NextRevision(r) \in Revisions
<1> USE HousefileAssumption
<1>1. PICK n \in 1 .. MaxLength : r \in [1 .. n -> 0 .. Letters - 1]
  BY DEF Revisions
<1> DEFINE turned == [i \in 1 .. Len(r) |->
                        IF Carried(r, i) THEN (r[i] + 1) % Letters ELSE r[i]]
<1>2. r \in Seq(0 .. Letters - 1) /\ Len(r) = n
  BY <1>1
<1>3. \A a \in 0 .. Letters - 1 : (a + 1) % Letters \in 0 .. Letters - 1
  OBVIOUS
<1>4. turned \in [1 .. n -> 0 .. Letters - 1]
  BY <1>1, <1>2, <1>3
<1>5. CASE Carried(r, 0)
  <2>1. NextRevision(r) = <<0>> \o turned
    BY <1>5 DEF NextRevision
  <2>2. turned \in Seq(0 .. Letters - 1) /\ Len(turned) = n
    BY <1>4
  <2>3. <<0>> \o turned \in Seq(0 .. Letters - 1) /\ Len(<<0>> \o turned) = n + 1
    BY <2>2
  <2>4. n + 1 \in 1 .. MaxLength
    BY <2>1, <2>3 DEF Exhausted
  <2> QED BY <2>1, <2>3, <2>4, LettersAreRevision
<1>6. CASE ~ Carried(r, 0)
  BY <1>4, <1>6 DEF NextRevision, Revisions
<1> QED BY <1>5, <1>6

\* A review makes a document of a document, and keeps its history.
LEMMA UpdatedIsDocument ==
  ASSUME NEW d \in Documents, NEW j \in Reviews, ~ Exhausted(d.rev)
  PROVE  /\ Updated(d, j) \in Documents
         /\ History(d) \subseteq History(Updated(d, j))
<1>1. NextRevision(d.rev) \in Revisions
  BY NextIsRevision DEF Documents
<1>2. Version(d) \in Versions
  BY DEF Version, Versions, Documents
<1>3. j.zones \subseteq Zones
  BY HousefileAssumption DEF Reviews
<1> QED BY <1>1, <1>2, <1>3 DEF Updated, Documents, Reviews, History

(***************************************************************************)
(* Types.                                                                  *)
(***************************************************************************)
LEMMA EndType ==
  ASSUME TypeInv, NEW p \in Procs, NEW how \in Outcomes, End(p, how)
  PROVE  /\ lock' \in Procs \cup {None} /\ pc' \in [Procs -> Places]
         /\ job' \in [Procs -> Reviews \cup {None}] /\ orphaned' \subseteq Procs
         /\ old' \in [Procs -> Documents \cup {None}] /\ copy' \in [Procs -> BOOLEAN]
         /\ outcome' \in [Procs -> Outcomes] /\ asked' \in Nat
         /\ LockInv' /\ \A q \in Procs : SavingInv(q)'
<1>1. /\ pc' = [pc EXCEPT ![p] = "idle"] /\ outcome' = [outcome EXCEPT ![p] = how]
      /\ lock' = IF Held(p) THEN None ELSE lock
      /\ old' = [old EXCEPT ![p] = None] /\ copy' = [copy EXCEPT ![p] = FALSE]
      /\ orphaned' = orphaned \ {p} /\ UNCHANGED <<job, asked>>
  BY DEF End, Goto
<1>2. \A q \in Procs : Held(q)' => q # p /\ Held(q)
  BY <1>1 DEF Held, TypeInv, TypeOK
<1>3. LockInv'
  BY <1>1, <1>2 DEF LockInv, TypeInv
<1>4. \A q \in Procs : SavingInv(q)'
  BY <1>1, <1>2 DEF SavingInv, Saving, Held, TypeInv, TypeOK
<1> QED BY <1>1, <1>3, <1>4 DEF TypeInv, TypeOK, Places

LEMMA FailType ==
  ASSUME TypeInv, NEW p \in Procs, NEW how \in Outcomes, Fail(p, how),
         file' = file, used' \in [DOMAIN Budget -> Nat]
  PROVE  TypeInv'
<1>1. refused' \subseteq Nat
  BY DEF Fail, TypeInv, TypeOK, Reviews
<1> QED BY <1>1, EndType DEF Fail, TypeInv, TypeOK

\* A failure is spent within its budget.
LEMMA SpendType ==
  ASSUME TypeOK, NEW kind \in {"faults", "crashes", "losses"}, Spend(kind)
  PROVE  used' \in [DOMAIN Budget -> Nat]
<1>1. DOMAIN Budget = {"faults", "crashes", "losses"}
  BY HousefileAssumption
<1>2. used \in [DOMAIN Budget -> Nat] /\ used' = [used EXCEPT ![kind] = used[kind] + 1]
  BY DEF Spend, TypeOK
<1>3. used[kind] + 1 \in Nat
  BY <1>1, <1>2
<1> QED BY <1>1, <1>2, <1>3

\* A caller that goes on from one place to another.
LEMMA GoType ==
  ASSUME TypeInv, NEW p \in Procs, NEW place \in Places \ {"idle"}, Goto(p, place),
         \/ place \in {"checking", "waiting"} /\ lock' = lock
         \/ Held(p) /\ lock' = lock
         \/ lock = None /\ lock' = p
  PROVE  /\ pc' \in [Procs -> Places] /\ LockInv'
         /\ \A q \in Procs \ {p} : pc'[q] = pc[q]
         /\ pc'[p] = place
<1>1. pc' = [pc EXCEPT ![p] = place] /\ pc \in [Procs -> Places]
  BY DEF Goto, TypeInv, TypeOK
<1>2. \A q \in Procs \ {p} : pc'[q] = pc[q] /\ (Held(q)' <=> Held(q))
  BY <1>1 DEF Held
<1>3. LockInv'
  BY <1>1, <1>2, HousefileAssumption DEF LockInv, TypeInv, Held
<1> QED BY <1>1, <1>2, <1>3

LEMMA BeginType == ASSUME TypeInv, NEW p \in Procs, Begin(p) PROVE TypeInv'
<1>1. /\ pc[p] = "idle" /\ asked' = asked + 1 /\ Goto(p, "checking")
      /\ outcome' = [outcome EXCEPT ![p] = "none"]
      /\ UNCHANGED <<file, lock, orphaned, old, copy, receipts, refused, seen, used>>
  BY DEF Begin, ghosts
<1>2. \A v \in History(file.now) : v.rev \in Revisions
  BY DEF History, Version, Versions, Documents, TypeInv, TypeOK
<1>3. job' \in [Procs -> Reviews \cup {None}]
      /\ \A q \in Procs \ {p} : job'[q] = job[q]
  <2>1. PICK j \in Reviews \cup {None} : job' = [job EXCEPT ![p] = j]
    <3>1. CASE job' = [job EXCEPT ![p] = None]
      BY <3>1
    <3>2. CASE job' # [job EXCEPT ![p] = None]
      <4>1. PICK v \in History(file.now), zones \in Plans :
              job' = [job EXCEPT ![p] =
                        [expects |-> v.rev, zones |-> zones, id |-> asked + 1]]
        BY <3>2 DEF Begin
      <4>2. [expects |-> v.rev, zones |-> zones, id |-> asked + 1] \in Reviews
        BY <1>2 DEF Reviews, TypeInv, TypeOK
      <4> QED BY <4>1, <4>2
    <3> QED BY <3>1, <3>2
  <2> QED BY <2>1 DEF TypeInv, TypeOK
<1>4. /\ pc' \in [Procs -> Places] /\ LockInv' /\ pc'[p] = "checking"
      /\ \A q \in Procs \ {p} : pc'[q] = pc[q]
  BY <1>1, GoType DEF Places
<1>5. \A q \in Procs : SavingInv(q)'
  BY <1>1, <1>3, <1>4 DEF SavingInv, Saving, Held, TypeInv
<1>6. outcome' \in [Procs -> Outcomes] /\ asked' \in Nat
  BY <1>1 DEF TypeInv, TypeOK, Outcomes
<1> QED BY <1>1, <1>3, <1>4, <1>5, <1>6 DEF TypeInv, TypeOK

LEMMA WaitType ==
  ASSUME TypeInv, NEW p \in Procs, Check(p) \/ Acquire(p) PROVE TypeInv'
<1>1. PICK place \in {"waiting", "holding"} :
        /\ Goto(p, place) /\ lock' \in {lock, p}
        /\ \/ place = "waiting" /\ lock' = lock
           \/ lock = None /\ lock' = p
  <2>1. CASE Check(p)
    BY <2>1 DEF Check
  <2>2. CASE Acquire(p)
    BY <2>2 DEF Acquire
  <2> QED BY <2>1, <2>2
<1>2. UNCHANGED <<file, job, orphaned, old, copy, outcome, asked, receipts, refused,
                  seen, used>>
  BY DEF Check, Acquire, ghosts
<1>3. /\ pc' \in [Procs -> Places] /\ LockInv' /\ pc'[p] = place
      /\ \A q \in Procs \ {p} : pc'[q] = pc[q]
  BY <1>1, GoType DEF Places
<1>4. \A q \in Procs : SavingInv(q)'
  BY <1>1, <1>2, <1>3 DEF SavingInv, Saving, Held, TypeInv
<1> QED BY <1>1, <1>2, <1>3, <1>4 DEF TypeInv, TypeOK

\* The steps of a save between its first and its last.
LEMMA SaveType ==
  ASSUME TypeInv, NEW p \in Procs, Saving(p), NEW place \in Places, Goto(p, place),
         place \notin {"idle", "checking", "waiting", "holding", "staged"},
         file'.now \in Documents, file'.disk \subseteq Documents,
         orphaned' \subseteq Procs, copy' \in [Procs -> BOOLEAN],
         used' \in [DOMAIN Budget -> Nat],
         UNCHANGED <<lock, job, old, outcome, asked, ghosts>>
  PROVE  TypeInv'
<1>1. /\ pc' \in [Procs -> Places] /\ LockInv' /\ pc'[p] = place
      /\ \A q \in Procs \ {p} : pc'[q] = pc[q]
  BY GoType DEF Places, Saving
<1>2. \A q \in Procs : SavingInv(q)'
  BY <1>1 DEF SavingInv, Saving, Held, TypeInv
<1> QED BY <1>1, <1>2 DEF TypeInv, TypeOK, ghosts

LEMMA SavingType ==
  ASSUME TypeInv, NEW p \in Procs,
         \/ Replace(p) \/ SyncDir(p) \/ DropCopy(p)
         \/ CommitFails(p) \/ Restage(p) \/ Restore(p)
  PROVE  TypeInv'
<1>1. /\ Saving(p) /\ job[p] \in Reviews /\ old[p] \in Documents
      /\ pc[p] = "staged" => ~ Exhausted(old[p].rev)
  BY DEF Replace, SyncDir, DropCopy, CommitFails, Restage, Restore, TypeInv,
         SavingInv, Saving, Held
<1>2. UNCHANGED <<lock, job, old, outcome, asked, ghosts>>
  BY DEF Replace, SyncDir, DropCopy, CommitFails, Restage, Restore
<1>3. PICK place \in {"replaced", "synced", "dropped", "restoring", "restored"} :
        Goto(p, place)
  <2>1. CASE Restage(p)
    BY <2>1 DEF Restage, Goto, TypeInv, TypeOK
  <2>2. CASE ~ Restage(p)
    BY <2>2 DEF Replace, SyncDir, DropCopy, CommitFails, Restore
  <2> QED BY <2>1, <2>2
<1>4. file'.now \in Documents /\ file'.disk \subseteq Documents
  <2>1. CASE Replace(p)
    <3>1. Updated(old[p], job[p]) \in Documents
      BY <1>1, <2>1, UpdatedIsDocument DEF Replace
    <3> QED BY <2>1, <3>1 DEF Replace, Move, TypeInv, TypeOK
  <2>2. CASE Restore(p)
    BY <1>1, <2>2 DEF Restore, Move, TypeInv, TypeOK
  <2>3. CASE SyncDir(p)
    BY <2>3 DEF SyncDir, TypeInv, TypeOK
  <2>4. CASE DropCopy(p) \/ CommitFails(p) \/ Restage(p)
    BY <2>4 DEF DropCopy, CommitFails, Restage, TypeInv, TypeOK
  <2> QED BY <2>1, <2>2, <2>3, <2>4
<1>5. orphaned' \subseteq Procs
  BY DEF Replace, SyncDir, DropCopy, CommitFails, Restage, Restore, Move, TypeInv, TypeOK
<1>6. copy' \in [Procs -> BOOLEAN]
  BY DEF Replace, SyncDir, DropCopy, CommitFails, Restage, Restore, TypeInv, TypeOK
<1>7. used' \in [DOMAIN Budget -> Nat]
  <2>1. CASE CommitFails(p)
    BY <2>1, SpendType DEF CommitFails, TypeInv
  <2>2. CASE ~ CommitFails(p)
    BY <2>2 DEF Replace, SyncDir, DropCopy, Restage, Restore, TypeInv, TypeOK
  <2> QED BY <2>1, <2>2
<1> QED BY <1>1, <1>2, <1>3, <1>4, <1>5, <1>6, <1>7, SaveType DEF Places

LEMMA StageType == ASSUME TypeInv, NEW p \in Procs, Stage(p) PROVE TypeInv'
<1>1. /\ pc[p] = "holding" /\ Goto(p, "staged")
      /\ old' = [old EXCEPT ![p] = file.now] /\ copy' = [copy EXCEPT ![p] = TRUE]
      /\ UNCHANGED <<file, lock, job, orphaned, outcome, asked, receipts, refused, seen,
                     used>>
  BY DEF Stage, ghosts
<1>2. job[p] \in Reviews /\ ~ Exhausted(file.now.rev)
  <2>1. job[p] \in Reviews /\ Verdict(file.now, job[p]) = "accepted"
    BY DEF Stage, TypeInv, TypeOK
  <2> QED BY <2>1 DEF Verdict
<1>3. /\ pc' \in [Procs -> Places] /\ LockInv' /\ pc'[p] = "staged"
      /\ \A q \in Procs \ {p} : pc'[q] = pc[q]
  BY <1>1, GoType DEF Places, Held
<1>4. \A q \in Procs : SavingInv(q)'
  BY <1>1, <1>2, <1>3 DEF SavingInv, Saving, Held, TypeInv, TypeOK
<1> QED BY <1>1, <1>3, <1>4 DEF TypeInv, TypeOK

\* The last step of a request, whether it passes or fails.
LEMMA LastType ==
  ASSUME TypeInv, NEW p \in Procs,
         \/ CheckFails(p) \/ Load(p) \/ Refuse(p) \/ Receive(p) \/ GiveUp(p)
         \/ RestoreFails(p) \/ Settle(p) \/ SettleFails(p) \/ Crash(p)
  PROVE  TypeInv'
<1> USE DEF Outcomes
<1>1. Version(file.now) \in Versions
  BY DEF Version, Versions, Documents, TypeInv, TypeOK
<1>2. CASE CheckFails(p)
  BY <1>2, FailType DEF CheckFails, TypeInv, TypeOK
<1>3. CASE Load(p)
  BY <1>1, <1>3, EndType DEF Load, TypeInv, TypeOK
<1>4. CASE Refuse(p)
  <2>1. Verdict(file.now, job[p]) \in
          {"stale_housefile_revision", "housefile_revision_exhausted",
           "invalid_housefile_references", "accepted"}
    <3>1. CASE file.now.rev # job[p].expects
      BY <3>1 DEF Verdict
    <3>2. CASE file.now.rev = job[p].expects /\ Exhausted(file.now.rev)
      BY <3>2 DEF Verdict
    <3>3. CASE file.now.rev = job[p].expects /\ ~ Exhausted(file.now.rev)
      BY <3>3 DEF Verdict
    <3> QED BY <3>1, <3>2, <3>3
  <2> QED BY <1>4, <2>1, FailType DEF Refuse, TypeInv, TypeOK
<1>5. CASE Receive(p)
  <2>1. job[p] \in Reviews
    BY <1>5 DEF Receive, TypeInv, SavingInv, Saving, Held
  <2>2. [previous |-> job[p].expects, new |-> Version(file.now)]
          \in [previous : Revisions, new : Versions]
    BY <1>1, <2>1 DEF Reviews
  <2>3. receipts' \in Seq([previous : Revisions, new : Versions])
    BY <1>5, <2>2, AppendProperties DEF Receive, TypeInv, TypeOK
  <2> QED BY <1>1, <1>5, <2>3, EndType DEF Receive, TypeInv, TypeOK
<1>6. CASE GiveUp(p)
  BY <1>6, FailType, SpendType DEF GiveUp, TypeInv, TypeOK
<1>7. CASE RestoreFails(p)
  BY <1>7, FailType, SpendType DEF RestoreFails, TypeInv
<1>8. CASE Settle(p)
  <2>1. refused' \subseteq Nat
    BY <1>8 DEF Settle, Fail, TypeInv, TypeOK, Reviews
  <2> QED BY <1>8, <2>1, EndType DEF Settle, Fail, TypeInv, TypeOK
<1>9. CASE SettleFails(p)
  BY <1>9, FailType, SpendType DEF SettleFails, TypeInv
<1>10. CASE Crash(p)
  BY <1>10, EndType, SpendType DEF Crash, TypeInv, TypeOK, ghosts
<1> QED BY <1>2, <1>3, <1>4, <1>5, <1>6, <1>7, <1>8, <1>9, <1>10

LEMMA PowerLossType == ASSUME TypeInv, PowerLoss PROVE TypeInv'
<1>1. used' \in [DOMAIN Budget -> Nat]
  BY SpendType DEF PowerLoss, TypeInv
<1>2. PICK d \in file.disk : file' = [now |-> d, disk |-> {d}]
  BY DEF PowerLoss
<1>3. \A p \in Procs : ~ Held(p)'
  BY DEF PowerLoss, Held
<1>4. LockInv' /\ \A p \in Procs : SavingInv(p)'
  BY <1>3 DEF LockInv, SavingInv, Saving
<1> QED BY <1>1, <1>2, <1>4 DEF PowerLoss, TypeInv, TypeOK, Places, Outcomes, ghosts

LEMMA InitType == Init => TypeInv
<1> SUFFICES ASSUME Init PROVE TypeInv
  OBVIOUS
<1>1. PICK r \in Firsts : file = [now |-> First(r), disk |-> {First(r)}]
  BY DEF Init
<1>2. First(r) \in Documents
  BY <1>1, HousefileAssumption DEF First, Documents
<1>3. \A p \in Procs : ~ Held(p)
  BY DEF Init, Held
<1>4. receipts \in Seq([previous : Revisions, new : Versions])
  BY DEF Init
<1> QED BY <1>1, <1>2, <1>3, <1>4, HousefileAssumption
        DEF Init, TypeInv, TypeOK, LockInv, SavingInv, Saving, Places, Outcomes

LEMMA NextType == TypeInv /\ [Next]_vars => TypeInv'
<1> SUFFICES ASSUME TypeInv, [Next]_vars PROVE TypeInv'
  OBVIOUS
<1>1. ASSUME NEW p \in Procs, Begin(p) \/ Acquire(p) \/ Work(p) \/ Fault(p)
      PROVE  TypeInv'
  BY <1>1, BeginType, WaitType, StageType, SavingType, LastType DEF Work, Fault
<1>2. CASE UNCHANGED vars
  BY <1>2 DEF vars, ghosts, TypeInv, TypeOK, LockInv, SavingInv, Saving, Held
<1> QED BY <1>1, <1>2, PowerLossType DEF Next

\* Every variable keeps its type, and a document that is saved is a document
\* with a revision the counter can still write.
THEOREM HousefileTypeCorrect == Spec => []TypeOK
<1>1. Spec => []TypeInv
  BY InitType, NextType, PTL DEF Spec
<1>2. TypeInv => TypeOK
  BY DEF TypeInv
<1> QED BY <1>1, <1>2, PTL

(***************************************************************************)
(* Receipts are kept.  Only a caller that saves moves the live name, and   *)
(* it moves it to a document made of one that keeps every receipt, or back *)
(* to that one; nobody else receives meanwhile, because it has the lock.   *)
(***************************************************************************)
LEMMA KeptStep ==
  ASSUME TypeInv, TypeInv', KeptInv, NEW p \in Procs, receipts' = receipts,
         file'.now \in file'.disk, \A d \in file'.disk : Kept(d),
         \A q \in Procs \ {p} : Saving(q)' => Saving(q) /\ old'[q] = old[q],
         Saving(p)' => Kept(old'[p])
  PROVE  KeptInv'
BY DEF KeptInv, Kept

\* The others' places and old documents are theirs.
LEMMA OthersKept ==
  ASSUME TypeInv, NEW p \in Procs, Begin(p) \/ Acquire(p) \/ Work(p) \/ Fault(p)
  PROVE  \A q \in Procs \ {p} : Saving(q)' => Saving(q) /\ old'[q] = old[q]
<1>1. \A q \in Procs \ {p} : pc'[q] = pc[q]
  BY DEF Begin, Acquire, Work, Fault, Check, CheckFails, Load, Refuse, Stage, Replace,
         SyncDir, DropCopy, Receive, Restage, Restore, Settle, GiveUp, CommitFails,
         RestoreFails, SettleFails, Crash, Fail, End, Goto, TypeInv, TypeOK
<1>2. \A q \in Procs \ {p} : old'[q] = old[q]
  BY DEF Begin, Acquire, Work, Fault, Check, CheckFails, Load, Refuse, Stage, Replace,
         SyncDir, DropCopy, Receive, Restage, Restore, Settle, GiveUp, CommitFails,
         RestoreFails, SettleFails, Crash, Fail, End, TypeInv, TypeOK
<1> QED BY <1>1, <1>2 DEF Saving, Held

\* The live name moves to a document that keeps every receipt.
LEMMA MoveKept ==
  ASSUME KeptInv, NEW d, Kept(d), Move(d)
  PROVE  file'.now \in file'.disk /\ \A e \in file'.disk : Kept(e)
BY DEF KeptInv, Move

LEMMA ReceiveKept ==
  ASSUME TypeInv, TypeInv', KeptInv, NEW p \in Procs, Receive(p)
  PROVE  KeptInv'
<1>1. /\ file' = [now |-> file.now, disk |-> {file.now}]
      /\ receipts' = Append(receipts, [previous |-> job[p].expects,
                                       new |-> Version(file.now)])
      /\ pc' = [pc EXCEPT ![p] = "idle"] /\ Saving(p)
  BY DEF Receive, End, Goto, Saving, Held
<1>2. \A i \in DOMAIN receipts' :
        \/ i \in DOMAIN receipts /\ receipts'[i] = receipts[i]
        \/ receipts'[i].new = Version(file.now)
  BY <1>1 DEF TypeInv, TypeOK
<1>3. \A d \in file'.disk : Kept(d)'
  BY <1>1, <1>2 DEF KeptInv, Kept, History
<1>4. \A q \in Procs : ~ Saving(q)'
  BY <1>1 DEF TypeInv, TypeOK, LockInv, Saving, Held
<1> QED BY <1>1, <1>3, <1>4 DEF KeptInv

LEMMA StepKept ==
  ASSUME TypeInv, TypeInv', KeptInv, NEW p \in Procs,
         Begin(p) \/ Acquire(p) \/ Work(p) \/ Fault(p)
  PROVE  KeptInv'
<1>1. CASE Receive(p)
  BY <1>1, ReceiveKept
<1>2. CASE ~ Receive(p)
  <2>1. receipts' = receipts
    BY <1>2 DEF Begin, Acquire, Work, Fault, Check, CheckFails, Load, Refuse, Stage,
       Replace, SyncDir, DropCopy, Restage, Restore, Settle, GiveUp, CommitFails,
       RestoreFails, SettleFails, Crash, Fail, ghosts
  <2>2. Saving(p)' => Kept(old'[p])
    <3>1. CASE Stage(p)
      BY <3>1 DEF Stage, KeptInv, TypeInv, TypeOK
    <3>2. CASE ~ Stage(p)
      <4>1. Saving(p)' => Saving(p) /\ old'[p] = old[p]
        BY <1>2, <3>2 DEF Begin, Acquire, Work, Fault, Check, CheckFails, Load, Refuse,
           Replace, SyncDir, DropCopy, Restage, Restore, Settle, GiveUp, CommitFails,
           RestoreFails, SettleFails, Crash, Fail, End, Goto, Saving, Held, TypeInv,
           TypeOK
      <4> QED BY <4>1 DEF KeptInv
    <3> QED BY <3>1, <3>2
  <2>3. file'.now \in file'.disk /\ \A d \in file'.disk : Kept(d)
    <3>1. CASE Replace(p)
      <4>1. /\ old[p] \in Documents /\ job[p] \in Reviews /\ ~ Exhausted(old[p].rev)
            /\ Kept(old[p])
        BY <3>1 DEF Replace, TypeInv, SavingInv, Saving, Held, KeptInv
      <4>2. Kept(Updated(old[p], job[p]))
        BY <4>1, UpdatedIsDocument DEF Kept
      <4> QED BY <3>1, <4>2, MoveKept DEF Replace
    <3>2. CASE Restore(p)
      <4>1. Kept(old[p]) /\ Move(old[p])
        BY <3>2 DEF Restore, KeptInv, Saving, Held
      <4> QED BY <4>1, MoveKept
    <3>3. CASE SyncDir(p) \/ Settle(p)
      BY <3>3 DEF SyncDir, Settle, KeptInv
    <3>4. CASE file' = file
      BY <3>4 DEF KeptInv
    <3> QED BY <1>2, <3>1, <3>2, <3>3, <3>4
        DEF Begin, Acquire, Work, Fault, Check, CheckFails, Load, Refuse, Stage,
            DropCopy, Restage, GiveUp, CommitFails, RestoreFails, SettleFails, Crash
  <2> QED BY <2>1, <2>2, <2>3, OthersKept, KeptStep
<1> QED BY <1>1, <1>2

LEMMA PowerLossKept == ASSUME TypeInv, KeptInv, PowerLoss PROVE KeptInv'
<1>1. PICK d \in file.disk : file' = [now |-> d, disk |-> {d}]
  BY DEF PowerLoss
<1>2. \A p \in Procs : ~ Saving(p)'
  BY DEF PowerLoss, Saving, Held
<1> QED BY <1>1, <1>2 DEF PowerLoss, KeptInv, Kept, ghosts

\* A review that was received is in every document that may survive, through
\* any number of failing calls, crashes and power losses.
THEOREM ReceiptsAreFinal == Spec => []ReceiptsKept
<1>1. Init => KeptInv
  BY DEF Init, KeptInv, Kept, Saving, Held
<1>2. TypeInv /\ TypeInv' /\ KeptInv /\ [Next]_vars => KeptInv'
  <2> SUFFICES ASSUME TypeInv, TypeInv', KeptInv, [Next]_vars PROVE KeptInv'
    OBVIOUS
  <2>1. CASE UNCHANGED vars
    BY <2>1 DEF vars, ghosts, KeptInv, Kept, Saving, Held
  <2> QED BY <2>1, StepKept, PowerLossKept DEF Next
<1>3. KeptInv => ReceiptsKept
  BY DEF KeptInv, Kept, ReceiptsKept
<1>4. Spec => []TypeInv
  BY InitType, NextType, PTL DEF Spec
<1> QED BY <1>1, <1>2, <1>3, <1>4, PTL DEF Spec

(***************************************************************************)
(* The order of revisions.                                                 *)
(***************************************************************************)
\* A nonempty set of places has a last one: of its tails, sets ordered by strict
\* inclusion, one is least.
LEMMA LastPlace ==
  ASSUME NEW n \in Nat, NEW T \in SUBSET (1 .. n), T # {}
  PROVE  \E m \in T : \A k \in T : k <= m
<1> DEFINE tail(i) == {k \in T : k >= i}
           tails == {tail(i) : i \in T}
<1>1. IsFiniteSet(T)
  <2>1. IsFiniteSet(1 .. n)
    BY FS_Interval
  <2> QED BY <2>1, FS_Subset
<1>2. tails \subseteq FiniteSubsetsOf(T) /\ tails # {}
  <2>1. \A i \in T : tail(i) \in SUBSET T
    OBVIOUS
  <2>2. \A i \in T : tail(i) \in FiniteSubsetsOf(T)
    BY <1>1, <2>1, FS_Subset DEF FiniteSubsetsOf
  <2> QED BY <2>2
<1>3. IsWellFoundedOn(StrictSubsetOrdering(T), FiniteSubsetsOf(T))
  BY FS_StrictSubsetOrderingWellFounded
<1>4. PICK least \in tails : \A s \in tails : ~ (<<s, least>> \in StrictSubsetOrdering(T))
  <2> HIDE DEF tails
  <2> QED BY <1>2, <1>3, WFMin
<1>5. PICK m \in T : least = tail(m)
  OBVIOUS
<1>6. ASSUME NEW k \in T, k > m PROVE FALSE
  <2>1. m \in tail(m) /\ m \notin tail(k)
    BY <1>6
  <2>2. ASSUME NEW j \in tail(k) PROVE j \in tail(m)
    BY <1>6
  <2>3. <<tail(k), tail(m)>> \in StrictSubsetOrdering(T)
    BY <2>1, <2>2 DEF StrictSubsetOrdering
  <2> QED BY <1>4, <1>5, <2>3
<1> QED BY <1>6

LEMMA RevisionFacts ==
  ASSUME NEW r \in Revisions
  PROVE  /\ Len(r) \in Nat /\ Len(r) >= 1
         /\ \A i \in 1 .. Len(r) : r[i] \in 0 .. Letters - 1
<1>1. PICK n \in 1 .. MaxLength : r \in [1 .. n -> 0 .. Letters - 1]
  BY DEF Revisions
<1>2. n \in Nat /\ Len(r) = n
  BY <1>1, HousefileAssumption
<1> QED BY <1>1, <1>2

\* The next revision is a later one: the last letter that is not the last of the
\* alphabet grows, and those before it stay.
LEMMA NextIsLater ==
  ASSUME NEW r \in Revisions
  PROVE  Earlier(r, NextRevision(r))
<1> DEFINE turned == [i \in 1 .. Len(r) |->
                        IF Carried(r, i) THEN (r[i] + 1) % Letters ELSE r[i]]
<1>1. /\ Len(r) \in Nat /\ Letters \in Nat \ {0}
      /\ \A i \in 1 .. Len(r) : r[i] \in 0 .. Letters - 1
  BY RevisionFacts, HousefileAssumption
<1>2. turned \in Seq(Nat) /\ Len(turned) = Len(r)
  <2>1. \A a \in 0 .. Letters - 1 : (a + 1) % Letters \in Nat
    BY <1>1
  <2>2. turned \in [1 .. Len(r) -> Nat]
    BY <1>1, <2>1
  <2> QED BY <1>1, <2>2
<1>3. CASE Carried(r, 0)
  <2>1. NextRevision(r) = <<0>> \o turned
    BY <1>3 DEF NextRevision
  <2>2. Len(<<0>> \o turned) = Len(r) + 1
    BY <1>2
  <2> QED BY <1>1, <2>1, <2>2 DEF Earlier
<1>4. CASE ~ Carried(r, 0)
  <2>1. NextRevision(r) = turned
    BY <1>4 DEF NextRevision
  <2>2. PICK m \in 1 .. Len(r) :
          /\ r[m] # Letters - 1
          /\ \A k \in 1 .. Len(r) : r[k] # Letters - 1 => k <= m
    <3> DEFINE T == {k \in 1 .. Len(r) : r[k] # Letters - 1}
    <3>1. T \in SUBSET (1 .. Len(r)) /\ T # {}
      BY <1>1, <1>4 DEF Carried
    <3>2. PICK m \in T : \A k \in T : k <= m
      <4> HIDE DEF T
      <4> QED BY <1>1, <3>1, LastPlace
    <3> QED BY <3>2
  <2>3. Carried(r, m) /\ \A i \in 1 .. m - 1 : ~ Carried(r, i)
    BY <1>1, <2>2 DEF Carried
  <2>4. (r[m] + 1) % Letters = r[m] + 1
    <3>1. \A b \in Nat : b < Letters => b % Letters = b
      BY <1>1
    <3>2. r[m] + 1 \in Nat /\ r[m] + 1 < Letters
      BY <1>1, <2>2
    <3> QED BY <3>1, <3>2
  <2>5. turned[m] = r[m] + 1 /\ \A i \in 1 .. m - 1 : turned[i] = r[i]
    BY <1>1, <2>3, <2>4
  <2>6. r[m] < turned[m]
    BY <1>1, <2>5
  <2> HIDE DEF turned
  <2> QED BY <1>2, <2>1, <2>5, <2>6 DEF Earlier
<1> QED BY <1>3, <1>4

\* Earlier is a strict order on letters, whether there are Revisions of that
\* length or not.
Letterings(r) == Len(r) \in Nat /\ \A i \in 1 .. Len(r) : r[i] \in Int

LEMMA EarlierIsOther ==
  ASSUME NEW r, NEW s, Letterings(r), Earlier(r, s)
  PROVE  r # s
  BY DEF Earlier, Letterings

LEMMA EarlierThrough ==
  ASSUME NEW r, NEW s, NEW t, Letterings(r), Letterings(s), Letterings(t),
         Earlier(r, s), Earlier(s, t)
  PROVE  Earlier(r, t)
<1>1. CASE Len(r) < Len(s) \/ Len(s) < Len(t)
  BY <1>1 DEF Earlier, Letterings
<1>2. CASE ~(Len(r) < Len(s)) /\ ~(Len(s) < Len(t))
  <2>1. Len(r) = Len(s) /\ Len(s) = Len(t)
    BY <1>2 DEF Earlier
  <2>2. PICK j \in 1 .. Len(r) : r[j] < s[j] /\ \A i \in 1 .. j - 1 : r[i] = s[i]
    BY <1>2 DEF Earlier
  <2>3. PICK k \in 1 .. Len(r) : s[k] < t[k] /\ \A i \in 1 .. k - 1 : s[i] = t[i]
    BY <1>2, <2>1 DEF Earlier
  <2>4. CASE j <= k
    <3>1. r[j] < t[j] /\ \A i \in 1 .. j - 1 : r[i] = t[i]
      BY <2>1, <2>2, <2>3, <2>4 DEF Letterings
    <3> QED BY <2>1, <3>1 DEF Earlier
  <2>5. CASE k < j
    <3>1. r[k] < t[k] /\ \A i \in 1 .. k - 1 : r[i] = t[i]
      BY <2>1, <2>2, <2>3, <2>5 DEF Letterings
    <3> QED BY <2>1, <3>1 DEF Earlier
  <2> QED BY <2>1, <2>4, <2>5 DEF Letterings
<1> QED BY <1>1, <1>2

(***************************************************************************)
(* The documents there are, and how they come to be.                       *)
(***************************************************************************)
\* Those that may survive, and those that may be put back.
Docs == file.disk \cup {old[p] : p \in {q \in Procs : Saving(q)}}

Placed(p) ==
  Saving(p) =>
    /\ old[p].rev = job[p].expects /\ Referred \subseteq job[p].zones
    /\ file.now = IF pc[p] \in {"staged", "restored"} THEN old[p]
                  ELSE Updated(old[p], job[p])

\* A document's versions have revisions of their own, and it has the last of them.
Ordered(d) ==
  /\ \A v \in d.past : Earlier(v.rev, d.rev)
  /\ \A v, w \in History(d) : v.rev = w.rev => v = w

LineageInv ==
  /\ file.now \in file.disk
  /\ \A p \in Procs : Placed(p)
  /\ \A d \in Docs : Ordered(d)

Moves(p) == Begin(p) \/ Acquire(p) \/ Work(p) \/ Fault(p)

LEMMA DocsType ==
  ASSUME TypeInv
  PROVE  Docs \subseteq Documents
  BY DEF Docs, TypeInv, TypeOK, SavingInv

LEMMA OthersStay ==
  ASSUME TypeInv, NEW p \in Procs, Moves(p)
  PROVE  \A q \in Procs \ {p} : pc'[q] = pc[q] /\ old'[q] = old[q] /\ job'[q] = job[q]
<1>1. \A q \in Procs \ {p} : pc'[q] = pc[q]
  BY DEF Moves, Begin, Acquire, Work, Fault, Check, CheckFails, Load, Refuse, Stage,
         Replace, SyncDir, DropCopy, Receive, Restage, Restore, Settle, GiveUp,
         CommitFails, RestoreFails, SettleFails, Crash, Fail, End, Goto, TypeInv, TypeOK
<1>2. \A q \in Procs \ {p} : old'[q] = old[q]
  BY DEF Moves, Begin, Acquire, Work, Fault, Check, CheckFails, Load, Refuse, Stage,
         Replace, SyncDir, DropCopy, Receive, Restage, Restore, Settle, GiveUp,
         CommitFails, RestoreFails, SettleFails, Crash, Fail, End, TypeInv, TypeOK
<1>3. \A q \in Procs \ {p} : job'[q] = job[q]
  <2>1. CASE Begin(p)
    BY <2>1 DEF Begin, TypeInv, TypeOK
  <2>2. CASE ~ Begin(p)
    BY <2>2 DEF Moves, Acquire, Work, Fault, Check, CheckFails, Load, Refuse, Stage,
       Replace, SyncDir, DropCopy, Receive, Restage, Restore, Settle, GiveUp,
       CommitFails, RestoreFails, SettleFails, Crash, Fail, End
  <2> QED BY <2>1, <2>2
<1> QED BY <1>1, <1>2, <1>3

\* Only a replacement and a restoration move the live name.
LEMMA FileSteps ==
  ASSUME TypeInv, file.now \in file.disk, NEW p \in Procs, Moves(p)
  PROVE  \/ Replace(p) \/ Restore(p)
         \/ /\ file'.now = file.now /\ file.now \in file'.disk
            /\ file'.disk \subseteq file.disk
<1>1. CASE SyncDir(p) \/ Settle(p) \/ Receive(p)
  BY <1>1 DEF SyncDir, Settle, Receive
<1>2. CASE file' = file
  BY <1>2
<1> QED BY <1>1, <1>2
    DEF Moves, Begin, Acquire, Work, Fault, Check, CheckFails, Load, Refuse, Stage,
        DropCopy, Restage, GiveUp, CommitFails, RestoreFails, SettleFails, Crash

\* While one saves nobody else does, or touches the file.
LEMMA SavesAlone ==
  ASSUME TypeInv, NEW p \in Procs, NEW q \in Procs \ {p}, Moves(p), Saving(q)
  PROVE  file' = file /\ ~ Saving(p)' /\ ~ Saving(p)
         /\ receipts' = receipts /\ seen' = seen
<1>1. ~ Held(p) /\ lock = q /\ lock # None
  BY HousefileAssumption DEF TypeInv, LockInv, Saving
<1>2. \/ Begin(p) \/ Check(p) \/ CheckFails(p) \/ GiveUp(p) \/ Crash(p)
  BY <1>1 DEF Moves, Acquire, Work, Fault, Load, Refuse, Stage, Replace, SyncDir,
     DropCopy, Receive, Restage, Restore, Settle, CommitFails, RestoreFails,
     SettleFails, Held
<1>3. /\ file' = file /\ receipts' = receipts /\ seen' = seen
      /\ pc'[p] \in {"idle", "checking", "waiting"}
  BY <1>2 DEF Begin, Check, CheckFails, GiveUp, Crash, Fail, End, Goto, ghosts,
              TypeInv, TypeOK
<1> QED BY <1>1, <1>3 DEF Saving, Held

\* A save that goes on is of the same review and of the same old document.
LEMMA SaveGoesOn ==
  ASSUME TypeInv, NEW p \in Procs, Moves(p), Saving(p)'
  PROVE  Stage(p) \/ (Saving(p) /\ old'[p] = old[p] /\ job'[p] = job[p])
BY DEF Moves, Begin, Acquire, Work, Fault, Check, CheckFails, Load, Refuse, Stage,
       Replace, SyncDir, DropCopy, Receive, Restage, Restore, Settle, GiveUp,
       CommitFails, RestoreFails, SettleFails, Crash, Fail, End, Goto, Saving, Held,
       TypeInv, TypeOK

\* A document is new only when a review replaces the one it was made of.
LEMMA DocsGrow ==
  ASSUME TypeInv, LineageInv, [Next]_vars, NEW d \in Docs'
  PROVE  d \in Docs \/ \E p \in Procs : Replace(p) /\ d = Updated(old[p], job[p])
<1>1. CASE UNCHANGED vars
  BY <1>1 DEF vars, Docs, Saving, Held
<1>2. CASE PowerLoss
  <2>1. \A p \in Procs : ~ Saving(p)'
    BY <1>2 DEF PowerLoss, Saving, Held
  <2> QED BY <1>2, <2>1 DEF PowerLoss, Docs
<1>3. ASSUME NEW p \in Procs, Moves(p)
      PROVE  d \in Docs \/ (Replace(p) /\ d = Updated(old[p], job[p]))
  <2>1. file.now \in file.disk
    BY DEF LineageInv
  <2>2. CASE d \in file'.disk
    <3>1. CASE Replace(p)
      BY <2>2, <3>1 DEF Replace, Move, Docs
    <3>2. CASE Restore(p)
      BY <2>2, <3>2 DEF Restore, Move, Docs, Saving, Held
    <3> QED BY <1>3, <2>1, <2>2, <3>1, <3>2, FileSteps DEF Docs
  <2>3. ASSUME NEW q \in Procs, Saving(q)', d = old'[q] PROVE d \in Docs
    <3>1. CASE q = p
      BY <1>3, <2>1, <2>3, <3>1, SaveGoesOn DEF Docs, Stage, TypeInv, TypeOK
    <3>2. CASE q # p
      BY <1>3, <2>3, <3>2, OthersStay DEF Docs, Saving, Held
    <3> QED BY <3>1, <3>2
  <2> QED BY <2>2, <2>3 DEF Docs
<1> QED BY <1>1, <1>2, <1>3 DEF Next, Moves

\* A revision has letters, and so has what follows it, a revision or not.
LEMMA RevisionLetters ==
  ASSUME NEW r \in Revisions
  PROVE  Letterings(r) /\ Letterings(NextRevision(r))
<1> DEFINE turned == [i \in 1 .. Len(r) |->
                        IF Carried(r, i) THEN (r[i] + 1) % Letters ELSE r[i]]
<1>1. /\ Len(r) \in Nat /\ Letters \in Nat \ {0}
      /\ \A i \in 1 .. Len(r) : r[i] \in 0 .. Letters - 1
  BY RevisionFacts, HousefileAssumption
<1>2. turned \in Seq(Nat)
  <2>1. \A a \in 0 .. Letters - 1 : (a + 1) % Letters \in Nat
    BY <1>1
  <2>2. turned \in [1 .. Len(r) -> Nat]
    BY <1>1, <2>1
  <2> QED BY <1>1, <2>2
<1>3. NextRevision(r) \in Seq(Nat)
  <2>1. <<0>> \o turned \in Seq(Nat)
    BY <1>2
  <2> QED BY <1>2, <2>1 DEF NextRevision
<1>4. \A s \in Seq(Nat) : Letterings(s)
  BY DEF Letterings
<1>5. Letterings(r)
  BY <1>1 DEF Letterings
<1> QED BY <1>3, <1>4, <1>5

\* The revision that follows is none of the versions so far.
LEMMA HistoryIsOther ==
  ASSUME NEW d \in Documents, Ordered(d), NEW v \in History(d)
  PROVE  Earlier(v.rev, NextRevision(d.rev)) /\ v.rev # NextRevision(d.rev)
<1>1. d.rev \in Revisions /\ \A w \in d.past : w.rev \in Revisions
  BY DEF Documents, Versions
<1>2. Earlier(d.rev, NextRevision(d.rev)) /\ Version(d).rev = d.rev
  BY <1>1, NextIsLater DEF Version
<1>3. v.rev = d.rev \/ (v.rev \in Revisions /\ Earlier(v.rev, d.rev))
  BY <1>1, <1>2 DEF History, Ordered
<1>4. Earlier(v.rev, NextRevision(d.rev))
  BY <1>1, <1>2, <1>3, EarlierThrough, RevisionLetters
<1>5. v.rev \in Revisions
  BY <1>1, <1>3
<1> QED BY <1>4, <1>5, EarlierIsOther, RevisionLetters

LEMMA UpdatedOrdered ==
  ASSUME NEW d \in Documents, NEW j \in Reviews, Ordered(d)
  PROVE  Ordered(Updated(d, j))
<1>1. Updated(d, j).past = History(d) /\ Updated(d, j).rev = NextRevision(d.rev)
  BY DEF Updated
<1>2. \A v \in History(d) :
        Earlier(v.rev, NextRevision(d.rev)) /\ v.rev # NextRevision(d.rev)
  BY HistoryIsOther
<1>3. Version(Updated(d, j)).rev = NextRevision(d.rev)
  BY <1>1 DEF Version
<1>4. \A v, w \in History(Updated(d, j)) : v.rev = w.rev => v = w
  BY <1>1, <1>2, <1>3 DEF History, Ordered
<1> QED BY <1>1, <1>2, <1>4 DEF Ordered

\* One that saves has the live name where its place says.
LEMMA PlacedSelf ==
  ASSUME TypeInv, TypeInv', LineageInv, NEW p \in Procs, Moves(p), Saving(p)'
  PROVE  Placed(p)'
<1>1. CASE Stage(p)
  <2>1. file.now.rev = job[p].expects /\ Referred \subseteq job[p].zones
    BY <1>1 DEF Stage, Verdict
  <2>2. /\ file' = file /\ job' = job /\ old'[p] = file.now /\ pc'[p] = "staged"
    BY <1>1 DEF Stage, Goto, TypeInv, TypeOK
  <2> QED BY <2>1, <2>2 DEF Placed
<1>2. CASE ~ Stage(p)
  <2>1. /\ Saving(p) /\ old'[p] = old[p] /\ job'[p] = job[p]
        /\ old[p].rev = job[p].expects /\ Referred \subseteq job[p].zones
        /\ file.now = IF pc[p] \in {"staged", "restored"} THEN old[p]
                      ELSE Updated(old[p], job[p])
    BY <1>2, SaveGoesOn DEF LineageInv, Placed
  <2>2. file'.now = IF pc'[p] \in {"staged", "restored"} THEN old[p]
                    ELSE Updated(old[p], job[p])
    <3>1. CASE Replace(p)
      BY <3>1 DEF Replace, Move, Goto, TypeInv, TypeOK
    <3>2. CASE Restore(p)
      BY <3>2 DEF Restore, Move, Goto, TypeInv, TypeOK
    <3>3. CASE SyncDir(p)
      BY <2>1, <3>3 DEF SyncDir, Goto, TypeInv, TypeOK
    <3>4. CASE DropCopy(p) \/ CommitFails(p) \/ Restage(p)
      BY <2>1, <3>4 DEF DropCopy, CommitFails, Restage, Goto, TypeInv, TypeOK
    <3>5. \/ Replace(p) \/ Restore(p) \/ SyncDir(p) \/ DropCopy(p) \/ CommitFails(p)
          \/ Restage(p)
      <4>1. pc'[p] \notin {"idle", "checking", "waiting", "holding"}
        BY DEF Saving, Held
      <4> QED BY <1>2, <4>1
          DEF Moves, Begin, Acquire, Work, Fault, Check, CheckFails, Load, Refuse,
              Receive, Settle, GiveUp, RestoreFails, SettleFails, Crash, Fail, End,
              Goto, TypeInv, TypeOK
    <3> QED BY <3>1, <3>2, <3>3, <3>4, <3>5
  <2> QED BY <2>1, <2>2 DEF Placed
<1> QED BY <1>1, <1>2

LEMMA LineageStep ==
  ASSUME TypeInv, TypeInv', LineageInv, [Next]_vars
  PROVE  LineageInv'
<1>1. ASSUME NEW d \in Docs' PROVE Ordered(d)
  <2>1. CASE d \in Docs
    BY <2>1 DEF LineageInv
  <2>2. ASSUME NEW p \in Procs, Replace(p), d = Updated(old[p], job[p]) PROVE Ordered(d)
    <3>1. old[p] \in Documents /\ job[p] \in Reviews /\ old[p] \in Docs
      BY <2>2 DEF Replace, TypeInv, SavingInv, Saving, Held, Docs
    <3> QED BY <2>2, <3>1, UpdatedOrdered DEF LineageInv
  <2> QED BY <2>1, <2>2, DocsGrow
<1>2. (\A d \in Docs : Ordered(d))'
  BY <1>1 DEF Ordered, History, Version
<1>3. CASE UNCHANGED vars
  BY <1>2, <1>3 DEF vars, LineageInv, Placed, Saving, Held
<1>4. CASE PowerLoss
  <2>1. \A p \in Procs : ~ Saving(p)'
    BY <1>4 DEF PowerLoss, Saving, Held
  <2> QED BY <1>2, <1>4, <2>1 DEF PowerLoss, LineageInv, Placed
<1>5. ASSUME NEW p \in Procs, Moves(p) PROVE LineageInv'
  <2>1. file.now \in file.disk
    BY DEF LineageInv
  <2>2. file'.now \in file'.disk
    BY <1>5, <2>1, FileSteps DEF Replace, Restore, Move
  <2>3. ASSUME NEW q \in Procs \ {p}, Saving(q)' PROVE Placed(q)'
    <3>1. /\ Saving(q) /\ pc'[q] = pc[q] /\ old'[q] = old[q] /\ job'[q] = job[q]
      BY <1>5, <2>3, OthersStay DEF Saving, Held
    <3>2. file' = file
      BY <1>5, <3>1, SavesAlone
    <3> QED BY <3>1, <3>2 DEF LineageInv, Placed
  <2>4. \A q \in Procs : Placed(q)'
    <3>1. ASSUME NEW q \in Procs, Saving(q)' PROVE Placed(q)'
      BY <1>5, <2>3, <3>1, PlacedSelf
    <3> QED BY <3>1 DEF Placed
  <2> QED BY <1>2, <2>2, <2>4 DEF LineageInv
<1> QED BY <1>3, <1>4, <1>5 DEF Next, Moves

LEMMA InitLineage == Init => LineageInv
<1> SUFFICES ASSUME Init PROVE LineageInv
  OBVIOUS
<1>1. PICK r \in Firsts : file = Synced(First(r))
  BY DEF Init
<1>2. \A p \in Procs : ~ Saving(p)
  BY DEF Init, Saving, Held
<1>3. Docs = {First(r)} /\ file.now = First(r) /\ file.disk = {First(r)}
  BY <1>1, <1>2 DEF Docs
<1>4. Ordered(First(r))
  BY DEF Ordered, First, History
<1> QED BY <1>2, <1>3, <1>4 DEF LineageInv, Placed

LEMMA LineageAlways == Spec => [](TypeInv /\ LineageInv)
<1>1. TypeInv /\ LineageInv /\ [Next]_vars => TypeInv' /\ LineageInv'
  BY NextType, LineageStep
<1> QED BY <1>1, InitType, InitLineage, PTL DEF Spec

\* In every document that may survive, each version before it has an earlier
\* revision: revisions never come round again.
THEOREM RevisionsOnlyAdvance == Spec => []RevisionsAdvance
<1>1. TypeInv /\ LineageInv => RevisionsAdvance
  BY DEF LineageInv, Ordered, Docs, RevisionsAdvance
<1> QED BY <1>1, LineageAlways, PTL

(***************************************************************************)
(* Compare-and-swap.  Every document there is has been through the         *)
(* revisions that receipts replaced, and a save replaces the last one.     *)
(***************************************************************************)
UsedInv ==
  /\ OneReceiptPerRevision
  /\ \A i \in DOMAIN receipts : \A d \in Docs :
       \E v \in d.past : v.rev = receipts[i].previous

LEMMA ReceiveSteps ==
  ASSUME TypeInv, LineageInv, NEW p \in Procs, Receive(p)
  PROVE  /\ file.now = Updated(old[p], job[p]) /\ file.now \in Docs
         /\ old[p].rev = job[p].expects /\ old[p] \in Docs
         /\ Docs' = {file.now} /\ file'.now = file.now
         /\ receipts' = Append(receipts, [previous |-> job[p].expects,
                                          new |-> Version(file.now)])
<1>1. /\ file.now = Updated(old[p], job[p]) /\ old[p].rev = job[p].expects
      /\ file.now \in Docs /\ old[p] \in Docs
  BY DEF Receive, LineageInv, Placed, Docs, Saving, Held
<1>2. /\ file' = Synced(file.now)
      /\ receipts' = Append(receipts, [previous |-> job[p].expects,
                                       new |-> Version(file.now)])
      /\ pc' = [pc EXCEPT ![p] = "idle"]
  BY DEF Receive, End, Goto
<1>3. \A q \in Procs : ~ Saving(q)'
  BY <1>2 DEF Receive, TypeInv, TypeOK, LockInv, Saving, Held
<1>4. Docs' = {file.now}
  BY <1>2, <1>3 DEF Docs
<1> QED BY <1>1, <1>2, <1>4

LEMMA ReceiveUsed ==
  ASSUME TypeInv, LineageInv, UsedInv, NEW p \in Procs, Receive(p)
  PROVE  UsedInv'
<1>1. /\ file.now.past = History(old[p]) /\ file.now \in Docs /\ old[p] \in Docs
      /\ old[p].rev = job[p].expects /\ Docs' = {file.now}
      /\ receipts' = Append(receipts, [previous |-> job[p].expects,
                                       new |-> Version(file.now)])
  <2>1. file.now = Updated(old[p], job[p])
    BY ReceiveSteps
  <2>2. file.now.past = History(old[p])
    BY <2>1 DEF Updated
  <2> QED BY <2>2, ReceiveSteps
<1>2. /\ old[p] \in Documents /\ receipts \in Seq([previous : Revisions, new : Versions])
      /\ Ordered(old[p])
  BY <1>1, DocsType DEF TypeInv, TypeOK, LineageInv
<1> DEFINE next == Len(receipts) + 1
<1>3. /\ DOMAIN receipts = 1 .. Len(receipts) /\ Len(receipts) \in Nat
      /\ DOMAIN receipts' = 1 .. next
      /\ \A i \in DOMAIN receipts : receipts'[i] = receipts[i]
      /\ receipts'[next].previous = old[p].rev
  BY <1>1, <1>2
<1>4. ASSUME NEW i \in DOMAIN receipts PROVE receipts[i].previous # old[p].rev
  <2>1. PICK v \in old[p].past : v.rev = receipts[i].previous
    BY <1>1, <1>4 DEF UsedInv
  <2>2. v.rev \in Revisions /\ Earlier(v.rev, old[p].rev)
    BY <1>2, <2>1 DEF Ordered, Documents, Versions
  <2> QED BY <2>1, <2>2, EarlierIsOther, RevisionLetters
<1> HIDE DEF next
<1>5. OneReceiptPerRevision'
  <2>1. \A i \in DOMAIN receipts' : i \in DOMAIN receipts \/ i = next
    BY <1>3 DEF next
  <2> QED BY <1>3, <1>4, <2>1 DEF UsedInv, OneReceiptPerRevision
<1>6. ASSUME NEW i \in DOMAIN receipts'
      PROVE  \E v \in file.now.past : v.rev = receipts'[i].previous
  <2>1. CASE i \in DOMAIN receipts
    BY <1>1, <1>3, <2>1 DEF UsedInv
  <2>2. CASE i = next
    <3>1. Version(old[p]) \in file.now.past /\ Version(old[p]).rev = old[p].rev
      BY <1>1 DEF History, Version
    <3> QED BY <1>3, <2>2, <3>1
  <2> QED BY <1>3, <1>6, <2>1, <2>2 DEF next
<1> QED BY <1>1, <1>5, <1>6 DEF UsedInv

LEMMA UsedStep ==
  ASSUME TypeInv, LineageInv, UsedInv, [Next]_vars
  PROVE  UsedInv'
<1>1. CASE \E p \in Procs : Receive(p)
  BY <1>1, ReceiveUsed
<1>2. CASE ~ \E p \in Procs : Receive(p)
  <2>1. receipts' = receipts
    BY <1>2 DEF Next, vars, Begin, Acquire, Work, Fault, Check, CheckFails, Load, Refuse,
       Stage, Replace, SyncDir, DropCopy, Restage, Restore, Settle, GiveUp, CommitFails,
       RestoreFails, SettleFails, Crash, PowerLoss, Fail, ghosts
  <2>2. ASSUME NEW d \in Docs', NEW i \in DOMAIN receipts
        PROVE  \E v \in d.past : v.rev = receipts[i].previous
    <3>1. CASE d \in Docs
      BY <2>2, <3>1 DEF UsedInv
    <3>2. ASSUME NEW p \in Procs, Replace(p), d = Updated(old[p], job[p])
          PROVE  \E v \in d.past : v.rev = receipts[i].previous
      <4>1. old[p] \in Docs
        BY <3>2 DEF Replace, Saving, Held, Docs
      <4> QED BY <2>2, <3>2, <4>1 DEF UsedInv, Updated, History
    <3> QED BY <2>2, <3>1, <3>2, DocsGrow
  <2>3. OneReceiptPerRevision'
    BY <2>1 DEF UsedInv, OneReceiptPerRevision
  <2> QED BY <2>1, <2>2, <2>3 DEF UsedInv
<1> QED BY <1>1, <1>2

\* No two receipts replace the same revision: of two reviews of one revision at
\* most one is ever applied.
THEOREM RevisionsAreReplacedOnce == Spec => []OneReceiptPerRevision
<1>1. Init => UsedInv
  BY DEF Init, UsedInv, OneReceiptPerRevision
<1>2. UsedInv => OneReceiptPerRevision
  BY DEF UsedInv
<1> QED BY <1>1, <1>2, UsedStep, LineageAlways, PTL DEF Spec

(***************************************************************************)
(* Who wrote what.  Requests have numbers of their own, given in turn.     *)
(***************************************************************************)
Free(d, n) == \A v \in History(d) : v.by # n
Busy(p) == pc[p] # "idle" /\ job[p] # None

NumberInv ==
  /\ \A n \in refused : n <= asked
  /\ \A d \in Docs : \A v \in History(d) : v.by <= asked
  /\ \A p \in Procs : Saving(p) => Busy(p)
  /\ \A p \in Procs : Busy(p) => job[p].id \in 1 .. asked
  /\ \A p, q \in Procs : Busy(p) /\ Busy(q) /\ job[p].id = job[q].id => p = q

LEMMA AskedGrows ==
  ASSUME TypeInv, [Next]_vars
  PROVE  asked' \in Nat /\ asked' >= asked
<1>1. CASE \E p \in Procs : Begin(p)
  BY <1>1 DEF Begin, TypeInv, TypeOK
<1>2. CASE ~ \E p \in Procs : Begin(p)
  <2>1. asked' = asked
    BY <1>2 DEF Next, vars, Acquire, Work, Fault, Check, CheckFails, Load, Refuse, Stage,
       Replace, SyncDir, DropCopy, Receive, Restage, Restore, Settle, GiveUp,
       CommitFails, RestoreFails, SettleFails, Crash, PowerLoss, Fail, End
  <2> QED BY <2>1 DEF TypeInv, TypeOK
<1> QED BY <1>1, <1>2

\* A request is refused as it ends, with the live name back at the old document.
LEMMA RefusedGrows ==
  ASSUME TypeInv, NEW p \in Procs, Moves(p), NEW n \in refused'
  PROVE  \/ n \in refused
         \/ /\ Busy(p) /\ n = job[p].id /\ pc'[p] = "idle" /\ file'.now = file.now
            /\ pc[p] \in {"checking", "holding", "staged", "restored"}
<1>1. CASE refused' = refused
  BY <1>1
<1>2. CASE /\ CheckFails(p) \/ Refuse(p) \/ GiveUp(p) \/ RestoreFails(p) \/ Settle(p)
              \/ SettleFails(p)
           /\ refused' # refused
  <2>1. /\ \E how \in Outcomes : Fail(p, how) /\ how # "housefile_rollback_failed"
        /\ pc[p] \in {"checking", "holding", "staged", "restored"}
    <3>1. CASE CheckFails(p) \/ Settle(p) \/ SettleFails(p)
      BY <3>1 DEF CheckFails, Settle, SettleFails, Outcomes
    <3>2. CASE Refuse(p)
      <4>1. /\ Verdict(file.now, job[p]) \in Outcomes
            /\ Verdict(file.now, job[p]) # "housefile_rollback_failed"
        BY <3>2 DEF Refuse, Verdict, Outcomes
      <4> QED BY <3>2, <4>1 DEF Refuse
    <3>3. CASE GiveUp(p)
      BY <3>3 DEF GiveUp, Outcomes
    <3>4. CASE RestoreFails(p)
      BY <1>2, <3>4 DEF RestoreFails, Fail
    <3> QED BY <1>2, <3>1, <3>2, <3>3, <3>4
  <2>2. PICK how \in Outcomes : Fail(p, how) /\ how # "housefile_rollback_failed"
    BY <2>1
  <2>3. refused' = refused \cup {job[p].id} /\ job[p] # None
    BY <1>2, <2>2 DEF Fail
  <2>4. pc'[p] = "idle"
    BY <2>2 DEF Fail, End, Goto, TypeInv, TypeOK
  <2>5. file'.now = file.now
    BY <1>2 DEF CheckFails, Refuse, GiveUp, RestoreFails, Settle, SettleFails
  <2> QED BY <2>1, <2>3, <2>4, <2>5 DEF Busy
<1> QED BY <1>1, <1>2
    DEF Moves, Begin, Acquire, Work, Fault, Check, Load, Stage, Replace, SyncDir,
        DropCopy, Receive, Restage, Restore, CommitFails, Crash, ghosts

\* A request that goes on is the same, unless it has just begun.
LEMMA BusyGoesOn ==
  ASSUME TypeInv, NEW p \in Procs, Moves(p), Busy(p)'
  PROVE  \/ /\ Begin(p) /\ job'[p].id = asked + 1 /\ asked' = asked + 1
         \/ ~ Begin(p) /\ Busy(p) /\ job'[p] = job[p]
<1>1. CASE Begin(p)
  <2>1. job'[p] # None
    BY DEF Busy
  <2>2. CASE job' = [job EXCEPT ![p] = None]
    BY <2>1, <2>2 DEF TypeInv, TypeOK
  <2>3. ASSUME NEW v \in History(file.now), NEW zones \in Plans,
               job' = [job EXCEPT ![p] =
                         [expects |-> v.rev, zones |-> zones, id |-> asked + 1]]
        PROVE  job'[p].id = asked + 1
    BY <2>3 DEF TypeInv, TypeOK
  <2> QED BY <1>1, <2>2, <2>3 DEF Begin
<1>2. CASE ~ Begin(p)
  <2>1. job' = job /\ pc[p] # "idle"
    BY <1>2 DEF Moves, Acquire, Work, Fault, Check, CheckFails, Load, Refuse, Stage,
       Replace, SyncDir, DropCopy, Receive, Restage, Restore, Settle, GiveUp,
       CommitFails, RestoreFails, SettleFails, Crash, Fail, End
  <2> QED BY <1>2, <2>1 DEF Busy
<1> QED BY <1>1, <1>2

LEMMA NumberStep ==
  ASSUME TypeInv, LineageInv, NumberInv, [Next]_vars
  PROVE  NumberInv'
<1> asked \in Nat /\ refused \subseteq Nat
  BY DEF TypeInv, TypeOK
<1>1. asked' \in Nat /\ asked' >= asked
  BY AskedGrows
<1>2. ASSUME NEW d \in Docs', NEW v \in History(d) PROVE v.by <= asked'
  <2>1. ASSUME NEW e \in Docs, NEW w \in History(e) PROVE w.by <= asked'
    <3>1. w.by \in Nat /\ w.by <= asked
      BY <2>1, DocsType DEF NumberInv, History, Version, Documents, Versions
    <3> QED BY <1>1, <3>1
  <2>2. ASSUME NEW p \in Procs, Replace(p), d = Updated(old[p], job[p])
        PROVE  v.by <= asked'
    <3>1. Saving(p) /\ old[p] \in Docs /\ asked' = asked
      BY <2>2 DEF Replace, Saving, Held, Docs
    <3>2. job[p].id \in 1 .. asked
      BY <3>1 DEF NumberInv
    <3>3. v \in History(old[p]) \/ v.by = job[p].id
      BY <1>2, <2>2 DEF History, Updated, Version
    <3> QED BY <2>1, <3>1, <3>2, <3>3
  <2> QED BY <1>2, <2>1, <2>2, DocsGrow
<1>3. (\A d \in Docs : \A v \in History(d) : v.by <= asked)'
  BY <1>2 DEF History, Version
<1>4. CASE UNCHANGED vars
  BY <1>3, <1>4 DEF vars, ghosts, NumberInv, Busy, Saving, Held
<1>5. CASE PowerLoss
  <2>1. \A p \in Procs : ~ Busy(p)' /\ ~ Saving(p)'
    BY <1>5 DEF PowerLoss, Busy, Saving, Held
  <2> QED BY <1>3, <1>5, <2>1 DEF PowerLoss, NumberInv, ghosts
<1>6. ASSUME NEW p \in Procs, Moves(p) PROVE NumberInv'
  <2>1. ASSUME NEW n \in refused' PROVE n <= asked'
    <3>1. n \in Nat /\ n <= asked
      <4>1. n \in refused \/ (Busy(p) /\ n = job[p].id)
        BY <1>6, <2>1, RefusedGrows
      <4>2. CASE n \in refused
        BY <4>2 DEF NumberInv
      <4>3. CASE Busy(p) /\ n = job[p].id
        <5>1. n \in 1 .. asked
          BY <1>6, <4>3 DEF NumberInv
        <5> QED BY <5>1
      <4> QED BY <4>1, <4>2, <4>3
    <3> QED BY <1>1, <3>1
  <2>2. ASSUME NEW q \in Procs, Busy(q)'
        PROVE  \/ /\ q = p /\ job'[q].id = asked + 1 /\ asked' = asked + 1
               \/ Busy(q) /\ job'[q] = job[q]
    BY <1>6, <2>2, BusyGoesOn, OthersStay DEF Busy
  <2>3. ASSUME NEW q \in Procs, Busy(q)' PROVE job'[q].id \in 1 .. asked'
    BY <1>1, <2>2, <2>3 DEF NumberInv
  <2>4. ASSUME NEW q \in Procs, NEW r \in Procs, Busy(q)', Busy(r)',
               job'[q].id = job'[r].id
        PROVE  q = r
    <3>1. \A s \in Procs : Busy(s) => job[s].id # asked + 1
      BY DEF NumberInv
    <3> QED BY <2>2, <2>4, <3>1 DEF NumberInv
  <2>5. ASSUME NEW q \in Procs, Saving(q)' PROVE Busy(q)'
    <3>1. pc'[q] # "idle"
      BY <2>5 DEF Saving, Held
    <3>2. CASE Stage(q)
      BY <3>1, <3>2 DEF Stage, Busy
    <3>3. CASE q = p /\ ~ Stage(q)
      BY <1>6, <2>5, <3>1, <3>3, SaveGoesOn DEF NumberInv, Busy
    <3>4. CASE q # p
      BY <1>6, <2>5, <3>1, <3>4, OthersStay DEF NumberInv, Busy, Saving, Held
    <3> QED BY <3>2, <3>3, <3>4
  <2> QED BY <1>3, <2>1, <2>3, <2>4, <2>5 DEF NumberInv
<1> QED BY <1>4, <1>5, <1>6 DEF Next, Moves

(***************************************************************************)
(* A review that was refused has left nothing behind.  Until its rename,   *)
(* and again once the old document is back, no document has its number;    *)
(* the document it may put back never has.                                 *)
(***************************************************************************)
UndoneInv ==
  used["losses"] = 0 =>
    /\ \A n \in refused : Free(file.now, n)
    /\ \A p \in Procs : Saving(p) => \A n \in refused \cup {job[p].id} : Free(old[p], n)
    /\ \A p \in Procs : Busy(p) =>
         /\ job[p].id \notin refused
         /\ pc[p] \notin {"replaced", "synced", "dropped", "restoring"} =>
              Free(file.now, job[p].id)

\* Losses are counted, and none is taken back.
LEMMA LossesGrow ==
  ASSUME TypeInv, [Next]_vars, used'["losses"] = 0
  PROVE  used["losses"] = 0 /\ ~ PowerLoss
<1>1. /\ "losses" \in DOMAIN Budget /\ used \in [DOMAIN Budget -> Nat]
  BY HousefileAssumption DEF TypeInv, TypeOK
<1>2. CASE used' = used
  BY <1>1, <1>2 DEF PowerLoss, Spend
<1>3. ASSUME NEW kind \in DOMAIN Budget, Spend(kind)
      PROVE  used["losses"] = 0 /\ kind # "losses"
  <2>1. used' = [used EXCEPT ![kind] = @ + 1] /\ used[kind] \in Nat
    BY <1>1, <1>3 DEF Spend
  <2>2. CASE kind = "losses"
    BY <1>1, <2>1, <2>2
  <2>3. CASE kind # "losses"
    BY <1>1, <2>1, <2>3
  <2> QED BY <2>2, <2>3
<1>4. ~ PowerLoss
  BY <1>1, <1>3 DEF PowerLoss
<1>5. used' = used \/ \E kind \in DOMAIN Budget : Spend(kind)
  <2>1. {"faults", "crashes", "losses"} = DOMAIN Budget
    BY HousefileAssumption
  <2> QED BY <1>4, <2>1
      DEF Next, vars, Begin, Acquire, Work, Fault, Check, CheckFails, Load, Refuse,
          Stage, Replace, SyncDir, DropCopy, Receive, Restage, Restore, Settle, GiveUp,
          CommitFails, RestoreFails, SettleFails, Crash
<1> QED BY <1>2, <1>3, <1>4, <1>5

\* What is not in the live document is not in the one that may be put back.
LEMMA OldIsOlder ==
  ASSUME LineageInv, NEW p \in Procs, Saving(p)
  PROVE  History(old[p]) \subseteq History(file.now)
<1>1. file.now = old[p] \/ file.now = Updated(old[p], job[p])
  BY DEF LineageInv, Placed
<1> QED BY <1>1 DEF Updated, History

LEMMA UndoneStep ==
  ASSUME TypeInv, LineageInv, NumberInv, UndoneInv, NEW p \in Procs, Moves(p),
         used["losses"] = 0
  PROVE  UndoneInv'
<1>1. /\ \A n \in refused : Free(file.now, n)
      /\ \A q \in Procs : Saving(q) => \A n \in refused \cup {job[q].id} : Free(old[q], n)
      /\ \A q \in Procs : Busy(q) =>
           /\ job[q].id \notin refused
           /\ pc[q] \notin {"replaced", "synced", "dropped", "restoring"} =>
                Free(file.now, job[q].id)
  BY DEF UndoneInv
<1>2. ASSUME NEW n \in refused'
      PROVE  n \in refused \/ /\ Busy(p) /\ n = job[p].id /\ pc'[p] = "idle"
                              /\ file'.now = file.now /\ Free(file.now, n)
  BY <1>1, <1>2, RefusedGrows
<1>3. \A q \in Procs \ {p} : pc'[q] = pc[q] /\ old'[q] = old[q] /\ job'[q] = job[q]
  BY OthersStay
\* The live document: either it stays, or it is a caller's own or its old one.
<1>4. \/ /\ Replace(p) /\ file'.now = Updated(old[p], job[p]) /\ Saving(p)
         /\ pc'[p] = "replaced"
      \/ Restore(p) /\ file'.now = old[p] /\ Saving(p) /\ pc'[p] = "restored"
      \/ ~ Replace(p) /\ ~ Restore(p) /\ file'.now = file.now
  BY FileSteps DEF LineageInv, Replace, Restore, Move, Saving, Held, Goto, TypeInv, TypeOK
<1>5. \A n : Free(Updated(old[p], job[p]), n) <=> Free(old[p], n) /\ n # job[p].id
  <2> DEFINE new == Updated(old[p], job[p])
  <2>1. History(new) = History(old[p]) \cup {Version(new)}
    BY DEF History, Updated
  <2>2. Version(new).by = job[p].id
    BY DEF Version, Updated
  <2> HIDE DEF new
  <2> QED BY <2>1, <2>2 DEF Free, new
<1>6. ASSUME NEW q \in Procs, Saving(q), NEW n, Free(file.now, n)
      PROVE  Free(old[q], n)
  BY <1>6, OldIsOlder DEF Free
<1>7. Saving(p) => Busy(p)
  BY DEF NumberInv
<1>8. ASSUME NEW n \in refused' PROVE Free(file'.now, n)
  <2>1. CASE Replace(p) \/ Restore(p)
    <3>1. Saving(p) /\ pc'[p] # "idle"
      BY <1>4, <2>1
    <3>2. n \in refused
      BY <1>2, <1>8, <3>1
    <3>3. Free(old[p], n) /\ n # job[p].id
      BY <1>1, <1>7, <3>1, <3>2
    <3> QED BY <1>4, <1>5, <2>1, <3>3
  <2>2. CASE file'.now = file.now
    BY <1>1, <1>2, <1>8, <2>2
  <2> QED BY <1>4, <2>1, <2>2
<1>9. ASSUME NEW q \in Procs, Saving(q)', NEW n \in refused' \cup {job'[q].id}
      PROVE  Free(old'[q], n)
  <2>1. CASE q # p
    <3>1. Saving(q) /\ old'[q] = old[q] /\ job'[q] = job[q]
      BY <1>3, <1>9, <2>1 DEF Saving, Held
    <3>2. n \in refused \cup {job[q].id} \/ Free(file.now, n)
      BY <1>2, <1>9, <3>1
    <3> QED BY <1>1, <1>6, <3>1, <3>2
  <2>2. CASE q = p /\ Stage(p)
    <3>1. /\ old'[p] = file.now /\ job' = job /\ refused' = refused /\ Busy(p)
          /\ pc[p] = "holding"
      BY <2>2 DEF Stage, ghosts, Busy, TypeInv, TypeOK
    <3> QED BY <1>1, <1>9, <2>2, <3>1
  <2>3. CASE q = p /\ ~ Stage(p)
    <3>1. Saving(p) /\ old'[p] = old[p] /\ job'[p] = job[p] /\ pc'[p] # "idle"
      BY <1>9, <2>3, SaveGoesOn DEF Saving, Held
    <3>2. n \in refused \cup {job[p].id}
      BY <1>2, <1>9, <2>3, <3>1
    <3> QED BY <1>1, <2>3, <3>1, <3>2
  <2> QED BY <2>1, <2>2, <2>3
<1>10. ASSUME NEW q \in Procs, Busy(q)'
       PROVE  /\ job'[q].id \notin refused'
              /\ pc'[q] \notin {"replaced", "synced", "dropped", "restoring"} =>
                   Free(file'.now, job'[q].id)
  <2>1. CASE q # p
    <3>1. Busy(q) /\ job'[q] = job[q] /\ pc'[q] = pc[q]
      BY <1>3, <1>10, <2>1 DEF Busy
    <3>2. job[q].id \notin refused /\ (Busy(p) => job[q].id # job[p].id)
      BY <1>1, <2>1, <3>1 DEF NumberInv
    <3>3. ASSUME Free(file.now, job[q].id) PROVE Free(file'.now, job[q].id)
      <4>1. CASE Replace(p) \/ Restore(p)
        <5>1. Saving(p) /\ Free(old[p], job[q].id) /\ job[q].id # job[p].id
          BY <1>4, <1>6, <1>7, <3>2, <3>3, <4>1
        <5> QED BY <1>4, <1>5, <4>1, <5>1
      <4>2. CASE file'.now = file.now
        BY <3>3, <4>2
      <4> QED BY <1>4, <4>1, <4>2
    <3>4. job[q].id \notin refused'
      BY <1>2, <3>2
    <3> QED BY <1>1, <3>1, <3>3, <3>4
  <2>2. CASE q = p /\ Begin(p)
    <3>1. job'[p].id = asked + 1 /\ file' = file /\ refused' = refused
      BY <1>10, <2>2, BusyGoesOn DEF Begin, ghosts
    <3>2. asked + 1 \notin refused /\ Free(file.now, asked + 1)
      <4>1. asked \in Nat
        BY DEF TypeInv, TypeOK
      <4>2. \A n \in refused : n <= asked
        BY DEF NumberInv
      <4>3. \A v \in History(file.now) : v.by <= asked
        BY DEF NumberInv, Docs, LineageInv
      <4> QED BY <4>1, <4>2, <4>3 DEF Free
    <3> QED BY <2>2, <3>1, <3>2
  <2>3. CASE q = p /\ ~ Begin(p)
    <3>1. Busy(p) /\ job'[p] = job[p] /\ pc'[p] # "idle"
      BY <1>10, <2>3, BusyGoesOn DEF Busy
    <3>2. job[p].id \notin refused'
      BY <1>1, <1>2, <3>1
    <3>3. ASSUME pc'[p] \notin {"replaced", "synced", "dropped", "restoring"}
          PROVE  Free(file'.now, job[p].id)
      <4>1. CASE Restore(p)
        BY <1>1, <1>4, <4>1 DEF Restore, Replace
      <4>2. CASE ~ Restore(p)
        <5>1. pc[p] \notin {"replaced", "synced", "dropped", "restoring"} /\ ~ Replace(p)
          BY <2>3, <3>1, <3>3, <4>2
             DEF Moves, Acquire, Work, Fault, Check, CheckFails, Load, Refuse, Stage,
                 Replace, SyncDir, DropCopy, Receive, Restage, Settle, GiveUp,
                 CommitFails, RestoreFails, SettleFails, Crash, Fail, End, Goto,
                 TypeInv, TypeOK
        <5> QED BY <1>1, <1>4, <3>1, <4>2, <5>1
      <4> QED BY <4>1, <4>2
    <3> QED BY <2>3, <3>1, <3>2, <3>3
  <2> QED BY <2>1, <2>2, <2>3
<1> QED BY <1>8, <1>9, <1>10 DEF UndoneInv, Free, History, Version, Busy, Saving, Held

LEMMA UndoneAlways == Spec => [](TypeInv /\ LineageInv /\ NumberInv /\ UndoneInv)
<1>1. Init => NumberInv /\ UndoneInv
  <2> SUFFICES ASSUME Init PROVE NumberInv /\ UndoneInv
    OBVIOUS
  <2>1. PICK r \in Firsts : file = Synced(First(r))
    BY DEF Init
  <2>2. \A p \in Procs : ~ Busy(p) /\ ~ Saving(p)
    BY DEF Init, Busy, Saving, Held
  <2>3. Docs = {First(r)}
    BY <2>1, <2>2 DEF Docs
  <2>4. \A v \in History(First(r)) : v.by = 0
    BY DEF History, First, Version
  <2> QED BY <2>2, <2>3, <2>4 DEF Init, NumberInv, UndoneInv
<1>2. TypeInv /\ LineageInv /\ NumberInv /\ UndoneInv /\ [Next]_vars => UndoneInv'
  <2> SUFFICES ASSUME TypeInv, LineageInv, NumberInv, UndoneInv, [Next]_vars,
                      used'["losses"] = 0
               PROVE  UndoneInv'
    BY DEF UndoneInv
  <2>1. used["losses"] = 0 /\ ~ PowerLoss
    BY LossesGrow
  <2>2. CASE UNCHANGED vars
    BY <2>2 DEF vars, ghosts, UndoneInv, Free, History, Version, Busy, Saving, Held
  <2> QED BY <2>1, <2>2, UndoneStep DEF Next, Moves
<1> QED BY <1>1, <1>2, NumberStep, LineageAlways, PTL DEF Spec

\* Without a power loss a review that was refused is in no version of the
\* housefile, except where putting the old document back failed.
THEOREM RefusalsLeaveNothing == Spec => []RefusedIsUndone
<1>1. UndoneInv => RefusedIsUndone
  BY DEF UndoneInv, RefusedIsUndone, Free
<1> QED BY <1>1, UndoneAlways, PTL

(***************************************************************************)
(* What was seen of a revision.  A save shows nothing before its receipt,  *)
(* so whatever was seen is in the document that may be put back.           *)
(***************************************************************************)
SeenInv ==
  used["losses"] = 0 =>
    /\ seen \subseteq History(file.now)
    /\ \A p \in Procs : Saving(p) => seen \subseteq History(old[p])

LEMMA SeenStep ==
  ASSUME TypeInv, LineageInv, SeenInv, NEW p \in Procs, Moves(p), used["losses"] = 0
  PROVE  SeenInv'
<1>1. /\ seen \subseteq History(file.now)
      /\ \A q \in Procs : Saving(q) => seen \subseteq History(old[q])
  BY DEF SeenInv
<1>2. \A q \in Procs \ {p} : Saving(q)' => Saving(q) /\ old'[q] = old[q]
  BY OthersStay DEF Saving, Held
<1>3. CASE Load(p) \/ Receive(p)
  <2>1. /\ seen' = seen \cup {Version(file.now)} /\ file'.now = file.now
        /\ lock = p
    BY <1>3 DEF Load, Receive, TypeInv, LockInv, Held
  <2>2. \A q \in Procs : ~ Saving(q)'
    <3>1. pc'[p] = "idle"
      BY <1>3 DEF Load, Receive, End, Goto, TypeInv, TypeOK
    <3>2. ~ Saving(p)'
      BY <3>1 DEF Saving, Held
    <3>3. \A q \in Procs \ {p} : ~ Saving(q)
      BY <2>1 DEF TypeInv, LockInv, Saving
    <3> QED BY <1>2, <3>2, <3>3
  <2>3. seen' \subseteq History(file'.now)
    BY <1>1, <2>1 DEF History
  <2> QED BY <2>2, <2>3 DEF SeenInv, History, Version
<1>4. CASE ~ Load(p) /\ ~ Receive(p)
  <2>1. seen' = seen
    BY <1>4 DEF Moves, Begin, Acquire, Work, Fault, Check, CheckFails, Refuse, Stage,
       Replace, SyncDir, DropCopy, Restage, Restore, Settle, GiveUp, CommitFails,
       RestoreFails, SettleFails, Crash, Fail, ghosts
  <2>2. seen \subseteq History(file'.now)
    <3>1. CASE Replace(p)
      <4>1. file'.now = Updated(old[p], job[p]) /\ seen \subseteq History(old[p])
        BY <1>1, <3>1 DEF Replace, Move, Saving, Held
      <4> QED BY <4>1 DEF Updated, History
    <3>2. CASE Restore(p)
      BY <1>1, <3>2 DEF Restore, Move, Saving, Held
    <3>3. CASE file'.now = file.now
      BY <1>1, <3>3
    <3> QED BY <3>1, <3>2, <3>3, FileSteps DEF LineageInv
  <2>3. ASSUME NEW q \in Procs, Saving(q)' PROVE seen \subseteq History(old'[q])
    <3>1. CASE q # p
      BY <1>1, <1>2, <2>3, <3>1
    <3>2. CASE q = p /\ Stage(p)
      BY <1>1, <3>2 DEF Stage, TypeInv, TypeOK
    <3>3. CASE q = p /\ ~ Stage(p)
      BY <1>1, <2>3, <3>3, SaveGoesOn
    <3> QED BY <3>1, <3>2, <3>3
  <2> QED BY <2>1, <2>2, <2>3 DEF SeenInv, History, Version
<1> QED BY <1>3, <1>4

\* Without a power loss whoever saw a revision, by loading it or by a receipt,
\* saw the same document.
THEOREM SeenRevisionsAgree == Spec => []RevisionNamesOneDocument
<1>1. Init => SeenInv
  BY DEF Init, SeenInv
<1>2. TypeInv /\ LineageInv /\ SeenInv /\ [Next]_vars => SeenInv'
  <2> SUFFICES ASSUME TypeInv, LineageInv, SeenInv, [Next]_vars, used'["losses"] = 0
               PROVE  SeenInv'
    BY DEF SeenInv
  <2>1. used["losses"] = 0 /\ ~ PowerLoss
    BY LossesGrow
  <2>2. CASE UNCHANGED vars
    BY <2>2 DEF vars, ghosts, SeenInv, History, Version, Saving, Held
  <2> QED BY <2>1, <2>2, SeenStep DEF Next, Moves
<1>3. LineageInv /\ SeenInv => RevisionNamesOneDocument
  BY DEF LineageInv, Ordered, Docs, SeenInv, RevisionNamesOneDocument
<1> QED BY <1>1, <1>2, <1>3, LineageAlways, PTL DEF Spec

(***************************************************************************)
(* The housefile implements its register.  A section that saves holds the  *)
(* fate of its review: the document is the old one until the section ends, *)
(* and then what the live name has.                                        *)
(***************************************************************************)
Failures == used["faults"] + used["crashes"]

\* Apart from a power loss, what fails is counted, once at a time.
LEMMA FailuresCounted ==
  ASSUME TypeInv, NEW p \in Procs, Moves(p)
  PROVE  /\ used'["losses"] = used["losses"]
         /\ \/ Failures' = Failures /\ ~ Fault(p)
            \/ Failures' = Failures + 1 /\ Fault(p)
<1>1. /\ used \in [{"faults", "crashes", "losses"} -> Nat]
      /\ used["faults"] \in Nat /\ used["crashes"] \in Nat
  BY HousefileAssumption DEF TypeInv, TypeOK
<1>2. CASE Fault(p)
  <2>1. \/ used' = [used EXCEPT !["faults"] = @ + 1]
        \/ used' = [used EXCEPT !["crashes"] = @ + 1]
    BY <1>2 DEF Fault, GiveUp, CommitFails, RestoreFails, SettleFails, Crash, Spend
  <2> QED BY <1>1, <1>2, <2>1 DEF Failures
<1>3. CASE ~ Fault(p)
  <2>1. used' = used
    BY <1>3 DEF Moves, Begin, Acquire, Work, Check, CheckFails, Load, Refuse, Stage,
       Replace, SyncDir, DropCopy, Receive, Restage, Restore, Settle, Fail
  <2> QED BY <1>3, <2>1 DEF Failures
<1> QED BY <1>2, <1>3

LEMMA DocFacts ==
  ASSUME TypeInv
  PROVE  /\ \A p \in Procs : Saving(p) => Doc = old[p]
         /\ (\A p \in Procs : ~ Saving(p)) => Doc = file.now
BY HousefileAssumption DEF TypeInv, TypeOK, LockInv, Saving, Doc

LEMMA NextDocFacts ==
  ASSUME TypeInv'
  PROVE  /\ \A p \in Procs : Saving(p)' => Doc' = old'[p]
         /\ (\A p \in Procs : ~ Saving(p)') => Doc' = file'.now
BY HousefileAssumption DEF TypeInv, TypeOK, LockInv, Saving, Doc

\* Where nothing is told, a step is a stutter or a failure.
LEMMA QuietStep ==
  ASSUME TypeInv, NEW p \in Procs, Moves(p), Doc' = Doc,
         receipts' = receipts, seen' = seen
  PROVE  [Register!Next]_(Register!vars)
BY FailuresCounted DEF Failures, Register!Next, Register!Fail, Register!vars

\* A saved document swaps the one it was made of.
LEMMA SavedSwaps ==
  ASSUME TypeInv, LineageInv, NEW p \in Procs, Saving(p), Doc = old[p],
         Doc' = Updated(old[p], job[p])
  PROVE  Register!Swap
<1>1. /\ old[p] \in Documents /\ job[p] \in Reviews /\ old[p] \in Docs /\ Ordered(old[p])
      /\ Referred \subseteq job[p].zones
  BY DEF TypeInv, SavingInv, LineageInv, Placed, Docs
<1>2. Ordered(Updated(old[p], job[p]))
  BY <1>1, UpdatedOrdered
<1>3. /\ Updated(old[p], job[p]).past = History(old[p])
      /\ Updated(old[p], job[p]).zones = job[p].zones
      /\ Updated(old[p], job[p]).rev = NextRevision(old[p].rev)
  BY DEF Updated
<1>4. \A v \in History(old[p]) : v.rev # NextRevision(old[p].rev)
  BY <1>1, HistoryIsOther
<1>5. Register!History(old[p]) = History(old[p])
  BY DEF Register!History, Register!Version, History, Version
<1> QED BY <1>1, <1>3, <1>4, <1>5 DEF Register!Swap

\* Who saves and then does not has decided: the live name has what it decided.
LEMMA SaveEnds ==
  ASSUME TypeInv, TypeInv', LineageInv, NEW p \in Procs, Moves(p), Saving(p), ~ Saving(p)'
  PROVE  [Register!Next]_(Register!vars)
<1>1. \A q \in Procs \ {p} : ~ Saving(q) /\ ~ Saving(q)'
  BY OthersStay, HousefileAssumption DEF TypeInv, LockInv, Saving, Held
<1>2. Doc = old[p] /\ Doc' = file'.now
  BY <1>1, DocFacts, NextDocFacts
<1>3. /\ file.now = IF pc[p] \in {"staged", "restored"} THEN old[p]
                    ELSE Updated(old[p], job[p])
      /\ old[p].rev = job[p].expects
  BY DEF LineageInv, Placed
<1>4. \/ Receive(p) \/ GiveUp(p) \/ RestoreFails(p) \/ Settle(p) \/ SettleFails(p)
      \/ Crash(p)
  BY DEF Moves, Begin, Acquire, Work, Fault, Check, CheckFails, Load, Refuse, Stage,
         Replace, SyncDir, DropCopy, Restage, Restore, CommitFails, Goto, Saving, Held,
         TypeInv, TypeOK
<1>5. file'.now = file.now
  BY <1>4 DEF Receive, GiveUp, RestoreFails, Settle, SettleFails, Crash
<1>6. CASE Receive(p)
  <2>1. /\ Doc' = Updated(old[p], job[p])
        /\ receipts' = Append(receipts, [previous |-> Doc.rev, new |-> Version(Doc')])
        /\ seen' = seen \cup {Version(Doc')}
    BY <1>2, <1>3, <1>5, <1>6 DEF Receive
  <2>2. Failures' = Failures /\ used'["losses"] = used["losses"]
    BY <1>6 DEF Receive, Failures
  <2>3. Register!Version(Doc') = Version(Doc')
    BY DEF Register!Version, Version
  <2> QED BY <1>2, <2>1, <2>2, <2>3, SavedSwaps
      DEF Register!Next, Register!Receive, Failures
<1>7. CASE ~ Receive(p)
  <2>1. receipts' = receipts /\ seen' = seen
    BY <1>4, <1>7 DEF GiveUp, RestoreFails, Settle, SettleFails, Crash, Fail, ghosts
  <2>2. CASE pc[p] \in {"staged", "restored"}
    BY <1>2, <1>3, <1>5, <2>1, <2>2, QuietStep
  <2>3. CASE pc[p] \notin {"staged", "restored"}
    <3>1. Crash(p) \/ RestoreFails(p)
      BY <1>4, <1>7, <2>3 DEF GiveUp, Settle, SettleFails, Saving, Held
    <3>2. Failures' = Failures + 1 /\ used'["losses"] = used["losses"]
      BY <3>1, FailuresCounted DEF Fault
    <3>3. Register!Swap
      BY <1>2, <1>3, <1>5, <2>3, SavedSwaps
    <3> QED BY <2>1, <3>2, <3>3 DEF Failures, Register!Next, Register!Fail
  <2> QED BY <2>2, <2>3
<1> QED BY <1>6, <1>7

\* Who does not save sees the document, or does not touch it.
LEMMA NoSaveStep ==
  ASSUME TypeInv, TypeInv', LineageInv, NEW p \in Procs, Moves(p),
         \A q \in Procs : ~ Saving(q) /\ ~ Saving(q)'
  PROVE  [Register!Next]_(Register!vars)
<1>1. file'.now = file.now
  BY FileSteps DEF LineageInv, Replace, Restore, Saving, Held
<1>2. Doc = file.now /\ Doc' = file.now
  BY <1>1, DocFacts, NextDocFacts
<1>3. CASE Load(p)
  <2>1. /\ seen' = seen \cup {Version(Doc)} /\ receipts' = receipts
        /\ Failures' = Failures /\ used'["losses"] = used["losses"]
    BY <1>2, <1>3 DEF Load, Failures
  <2>2. Register!Version(Doc) = Version(Doc)
    BY DEF Register!Version, Version
  <2> QED BY <1>2, <2>1, <2>2 DEF Register!Next, Register!Load, Failures
<1>4. CASE ~ Load(p)
  <2>1. receipts' = receipts /\ seen' = seen
    BY <1>4 DEF Moves, Begin, Acquire, Work, Fault, Check, CheckFails, Refuse, Stage,
       Replace, SyncDir, DropCopy, Receive, Restage, Restore, Settle, GiveUp,
       CommitFails, RestoreFails, SettleFails, Crash, Fail, ghosts, Saving, Held
  <2> QED BY <1>2, <2>1, QuietStep
<1> QED BY <1>3, <1>4

LEMMA RegisterStep ==
  ASSUME TypeInv, TypeInv', LineageInv, LineageInv', ReceiptsKept', [Next]_vars
  PROVE  [Register!Next]_(Register!vars)
<1>1. CASE UNCHANGED vars
  BY <1>1 DEF vars, ghosts, Doc, Saving, Held, Register!vars
<1>2. CASE PowerLoss
  <2>1. \A p \in Procs : ~ Saving(p)'
    BY <1>2 DEF PowerLoss, Saving, Held
  <2>2. Doc' = file'.now /\ file'.now \in file'.disk
    BY <2>1, NextDocFacts DEF LineageInv
  <2>3. \A i \in DOMAIN receipts : receipts[i].new \in History(Doc')
    BY <1>2, <2>2 DEF PowerLoss, ghosts, ReceiptsKept
  <2>4. Register!History(Doc') = History(Doc')
    BY DEF Register!History, Register!Version, History, Version
  <2>5. used \in [{"faults", "crashes", "losses"} -> Nat]
    BY HousefileAssumption DEF TypeInv, TypeOK
  <2>6. used'["losses"] = used["losses"] + 1 /\ Failures' = Failures
    BY <1>2, <2>5 DEF PowerLoss, Spend, Failures
  <2>7. UNCHANGED <<receipts, seen>>
    BY <1>2 DEF PowerLoss, ghosts
  <2> QED BY <2>3, <2>4, <2>6, <2>7 DEF Register!Next, Register!Outage, Failures
<1>3. ASSUME NEW p \in Procs, Moves(p) PROVE [Register!Next]_(Register!vars)
  <2>1. ASSUME NEW q \in Procs \ {p}, Saving(q) PROVE [Register!Next]_(Register!vars)
    <3>1. /\ file' = file /\ receipts' = receipts /\ seen' = seen
          /\ Saving(q)' /\ old'[q] = old[q]
      BY <1>3, <2>1, SavesAlone, OthersStay DEF Saving, Held
    <3>2. Doc' = Doc
      BY <2>1, <3>1, DocFacts, NextDocFacts
    <3> QED BY <1>3, <3>1, <3>2, QuietStep
  <2>2. CASE Saving(p) /\ ~ Saving(p)'
    BY <1>3, <2>2, SaveEnds
  <2>3. CASE Saving(p)'
    <3>1. Stage(p) \/ (Saving(p) /\ old'[p] = old[p])
      BY <1>3, <2>3, SaveGoesOn
    <3>2. receipts' = receipts /\ seen' = seen
      BY <1>3, <2>3 DEF Moves, Begin, Acquire, Work, Fault, Check, CheckFails, Load,
         Refuse, Stage, Replace, SyncDir, DropCopy, Receive, Restage, Restore, Settle,
         GiveUp, CommitFails, RestoreFails, SettleFails, Crash, Fail, End, Goto, ghosts,
         Saving, Held, TypeInv, TypeOK
    <3>3. CASE Stage(p)
      <4>1. \A q \in Procs : ~ Saving(q)
        BY <3>3, HousefileAssumption DEF Stage, TypeInv, LockInv, Saving, Held
      <4>2. Doc = file.now /\ Doc' = old'[p] /\ old'[p] = file.now
        BY <2>3, <3>3, <4>1, DocFacts, NextDocFacts DEF Stage, TypeInv, TypeOK
      <4> QED BY <1>3, <3>2, <4>2, QuietStep
    <3>4. CASE Saving(p) /\ old'[p] = old[p]
      BY <1>3, <2>3, <3>2, <3>4, DocFacts, NextDocFacts, QuietStep
    <3> QED BY <3>1, <3>3, <3>4
  <2>4. CASE /\ ~ Saving(p) /\ ~ Saving(p)'
             /\ \A q \in Procs \ {p} : ~ Saving(q)
    <3>1. \A q \in Procs : ~ Saving(q) /\ ~ Saving(q)'
      BY <1>3, <2>4, OthersStay DEF Saving, Held
    <3> QED BY <1>3, <3>1, NoSaveStep
  <2> QED BY <2>1, <2>2, <2>3, <2>4
<1> QED BY <1>1, <1>2, <1>3 DEF Next, Moves

\* The housefile implements its register: whatever fails, stops or is lost, a
\* review is applied at one instant, to the document it was made for, and loads
\* never read one that has not been decided.
THEOREM HousefileImplementsRegister == Spec => ImplementsRegister
<1>1. Init => Register!Init
  <2> SUFFICES ASSUME Init PROVE Register!Init
    OBVIOUS
  <2>1. Doc = file.now /\ file.now \in {First(r) : r \in Firsts}
    BY DEF Init, Doc
  <2>2. \A kind \in {"faults", "crashes", "losses"} : used[kind] = 0
    BY HousefileAssumption DEF Init
  <2> QED BY <2>1, <2>2 DEF Init, Register!Init
<1>2. /\ TypeInv /\ TypeInv' /\ LineageInv /\ LineageInv' /\ ReceiptsKept'
      /\ [Next]_vars
      => [Register!Next]_(Register!vars)
  BY RegisterStep
<1> QED BY <1>1, <1>2, LineageAlways, ReceiptsAreFinal, PTL
       DEF Spec, ImplementsRegister, Register!Spec
=============================================================================
