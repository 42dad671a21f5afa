------------------------ MODULE GrantAuthorityProofs ------------------------
(***************************************************************************)
(* What holds of the grant authority for every set of processes, grants,   *)
(* policies and seeds, and for any number of faults, crashes and outages.  *)
(***************************************************************************)
EXTENDS GrantAuthority, TLAPS

(***************************************************************************)
(* The operators the envelopes are built from.                             *)
(***************************************************************************)
LEMMA TableFacts ==
  ASSUME NEW t \in Tables
  PROVE  /\ DOMAIN t \subseteq Grants
         /\ \A g \in DOMAIN t : t[g] \in Statuses
  BY DEF Tables

\* With sets one status on a set of grants and keeps the rest of the table.
LEMMA WithFacts ==
  ASSUME NEW t \in Tables, NEW S \in SUBSET Grants, NEW status \in Statuses
  PROVE  /\ With(t, S, status) \in Tables
         /\ \A g \in Grants : Off(g, With(t, S, status)) <=>
              IF g \in S THEN status # "ACTIVE" ELSE Off(g, t)
<1> DEFINE w == With(t, S, status)
<1>1. DOMAIN w = DOMAIN t \cup S /\ DOMAIN w \in SUBSET Grants
  BY TableFacts DEF With
<1>2. \A g \in DOMAIN w : w[g] = IF g \in S THEN status ELSE t[g]
  BY <1>1 DEF With
<1>3. w \in [DOMAIN w -> Statuses]
  <2>1. w = [g \in DOMAIN w |-> w[g]]
    BY DEF With
  <2>2. \A g \in DOMAIN w : w[g] \in Statuses
    BY <1>1, <1>2, TableFacts
  <2> QED  BY <2>1, <2>2
<1>4. w \in Tables
  BY <1>1, <1>3 DEF Tables
<1> QED  BY <1>1, <1>2, <1>4 DEF Off

LEMMA OnlyFacts ==
  ASSUME NEW t \in Tables, NEW S \in SUBSET DOMAIN t
  PROVE  Only(t, S) \in Tables
<1>1. S \in SUBSET Grants /\ \A g \in S : t[g] \in Statuses
  BY TableFacts
<1>2. Only(t, S) \in [S -> Statuses]
  BY <1>1 DEF Only
<1> QED  BY <1>1, <1>2 DEF Tables

LEMMA EmptyFacts ==
  /\ NoTable \in Tables /\ DOMAIN NoTable = {}
  /\ Empty \in Envelopes /\ Empty # None /\ Empty.pend = None
  /\ Empty.grants = NoTable
<1>1. NoTable \in [{} -> Statuses] /\ DOMAIN NoTable = {}
  BY DEF NoTable
<1>2. NoTable \in Tables
  BY <1>1 DEF Tables
<1> QED  BY <1>1, <1>2, NoneAssumption DEF Empty, Envelopes

\* Fields of an envelope and of a pending transaction.
LEMMA EnvelopeFacts ==
  ASSUME NEW e \in Envelopes
  PROVE  /\ e # None /\ e.grants \in Tables /\ e.rev \in Nat
         /\ e.wit \in Witnesses \cup {None}
         /\ e.pend # None => /\ e.pend \in Pendings
                             /\ e.pend.kind \in Kinds /\ e.pend.target \in Tables
                             /\ e.pend.event \in Events
                             /\ e.pend.tail \in Seq(Events)
  BY NoneAssumption DEF Envelopes, Pendings

\* The three envelopes of a transaction are envelopes.
LEMMA PreparedFacts ==
  ASSUME TypeOK, NEW e \in Envelopes, NEW kind \in Kinds, NEW target \in Tables,
         NEW prev \in Tables, NEW agent \in Grants \cup {NoGrant}
  PROVE  LET n == Prepared(e, kind, target, prev, agent)
         IN  /\ n \in Envelopes
             /\ n.pend # None /\ n.pend.target = target
             /\ n.grants = Effective(kind, e.grants, target)
<1> DEFINE event == [type |-> EventType(kind), agent |-> agent,
                     tx |-> tx + 1, rev |-> e.rev + 1]
           pend == [kind |-> kind, base |-> e.rev, target |-> target,
                    prev |-> prev, tail |-> ledger.now.lines, event |-> event]
<1>1. EventType(kind) \in {"GRANT", "PROVISION", "REVOKE", "DENY", "ESTOP", "READ"}
  BY DEF EventType, Kinds
<1>2. event \in Events
  BY <1>1, EnvelopeFacts DEF Events, TypeOK
<1>3. ledger.now.lines \in Seq(Events)
  BY DEF TypeOK, Ledgers
<1>4. pend \in Pendings
  BY <1>2, <1>3, EnvelopeFacts DEF Pendings
<1>5. Effective(kind, e.grants, target) \in Tables
  BY EnvelopeFacts DEF Effective
<1>6. pend # None
  BY <1>4, NoneAssumption
<1> HIDE DEF pend
<1>7. Prepared(e, kind, target, prev, agent) =
        [e EXCEPT !.grants = Effective(kind, e.grants, target), !.pend = pend]
  BY DEF Prepared, pend
<1>8. pend.target = target
  BY DEF pend
<1> QED  BY <1>4, <1>5, <1>6, <1>7, <1>8 DEF Envelopes

LEMMA FinalFacts ==
  ASSUME NEW e \in Envelopes, e.pend # None
  PROVE  /\ Final(e) \in Envelopes /\ Final(e).pend = None
         /\ Final(e).grants = e.pend.target
         /\ Aborted(e) \in Envelopes /\ Aborted(e).pend = None
         /\ Aborted(e).grants = e.grants
<1>1. /\ e.pend.event \in Events /\ e.pend.target \in Tables
      /\ e.pend.tail \in Seq(Events)
  BY EnvelopeFacts
<1>2. [off |-> Len(e.pend.tail), event |-> e.pend.event, target |-> e.pend.target]
        \in Witnesses
  BY <1>1 DEF Witnesses
<1>3. e.pend.event.rev \in Nat
  BY <1>1 DEF Events
<1>4. Final(e) \in Envelopes /\ Final(e).pend = None /\ Final(e).grants = e.pend.target
  BY <1>1, <1>2, <1>3 DEF Final, Envelopes
<1> QED  BY <1>4 DEF Aborted, Envelopes

LEMMA LedgerFacts ==
  ASSUME TypeOK
  PROVE  /\ Repaired \in Ledgers /\ TornTail \subseteq Ledgers
         /\ RepairedFile.now \in Ledgers /\ RepairedFile.disk \subseteq Ledgers
         /\ ledger.now.lines \in Seq(Events) /\ Len(ledger.now.lines) \in Nat
         /\ \A line \in Events :
              /\ Whole(Append(ledger.now.lines, line)) \in Ledgers
              /\ Len(Append(ledger.now.lines, line)) = Len(ledger.now.lines) + 1
         /\ \A n \in 0 .. Len(ledger.now.lines) :
              Whole(SubSeq(ledger.now.lines, 1, n)) \in Ledgers
<1>1. ledger.now \in Ledgers /\ ledger.disk \subseteq Ledgers
  BY DEF TypeOK
<1>2. ledger.now.lines \in Seq(Events) /\ Len(ledger.now.lines) \in Nat
  BY <1>1 DEF Ledgers
<1>3. \A s \in Seq(Events) : Whole(s) \in Ledgers
  BY DEF Whole, Ledgers
<1>4. Repaired \in Ledgers /\ TornTail \subseteq Ledgers
  <2>1. [lines |-> ledger.now.lines, torn |-> TRUE] \in Ledgers
    BY <1>2 DEF Ledgers
  <2>2. TornTail \subseteq Ledgers
    BY <2>1, Zenon DEF TornTail
  <2> QED  BY <1>2, <1>3, <2>2 DEF Repaired
<1>5. RepairedFile.now \in Ledgers /\ RepairedFile.disk \subseteq Ledgers
  BY <1>1, <1>4 DEF RepairedFile, Synced
<1>6. \A line \in Events : Append(ledger.now.lines, line) \in Seq(Events)
  BY <1>2
<1>7. \A n \in 0 .. Len(ledger.now.lines) : SubSeq(ledger.now.lines, 1, n) \in Seq(Events)
  BY <1>2
<1>8. \A line \in Events :
        Len(Append(ledger.now.lines, line)) = Len(ledger.now.lines) + 1
  BY <1>2
<1> QED  BY <1>2, <1>3, <1>4, <1>5, <1>6, <1>7, <1>8

LEMMA NoteFacts ==
  ASSUME NEW g \in Grants \cup {NoGrant}, NEW type \in {"READ", "DENY"}
  PROVE  Note(type, g) \in Events
  BY DEF Note, Events

(***************************************************************************)
(* Types.                                                                  *)
(***************************************************************************)
\* Only the process that owns the lock is in its section, so a step of it that
\* keeps the types and its own appending facts keeps them all.
LEMMA SectionStep ==
  ASSUME TypeInv, TypeOK', NEW p \in Procs, InSection(p), lock' = lock,
         NEW w \in Phases, Goto(p, w), AppendingInv(p)'
  PROVE  TypeInv'
<1>1. \A q \in Procs \ {p} : ~InSection(q)
  BY DEF TypeInv, LockInv
<1>2. \A q \in Procs \ {p} : phase'[q] = phase[q]
  BY DEF Goto, TypeInv, TypeOK
<1>3. LockInv'
  BY <1>1, <1>2 DEF LockInv, TypeInv, InSection
<1>4. ASSUME NEW q \in Procs \ {p} PROVE AppendingInv(q)'
  BY <1>1, <1>2 DEF AppendingInv, InSection
<1> QED  BY <1>3, <1>4 DEF TypeInv

\* A step that changes neither the phases nor what they rely on.
LEMMA LeaveStep ==
  ASSUME TypeInv, NEW p \in Procs, InSection(p), Leave(p),
         store'.now \in Envelopes \cup {None}, store'.disk \subseteq Envelopes \cup {None},
         ledger'.now \in Ledgers, ledger'.disk \subseteq Ledgers,
         used' \in [{"faults", "crashes", "outages", "losses"} -> Nat],
         denied' \subseteq Grants, issued' \subseteq Grants
  PROVE  TypeInv'
<1>1. \A q \in Procs \ {p} : ~InSection(q)
  BY DEF TypeInv, LockInv
<1>2. phase' = [phase EXCEPT ![p] = "idle"]
  BY DEF Leave, Goto
<1>3. \A q \in Procs : ~InSection(q)'
  BY <1>1, <1>2 DEF InSection, TypeInv, TypeOK
<1>4. TypeOK'
  <2>1. NoJob \in Jobs
    BY ClockAssumption DEF NoJob, Jobs, Ops, OnGrant
  <2> QED  BY <1>2, <2>1, EmptyFacts DEF Leave, TypeInv, TypeOK, Phases
<1> QED  BY <1>3, <1>4 DEF TypeInv, LockInv, AppendingInv, InSection

LEMMA SpendFacts ==
  ASSUME TypeOK, NEW kind \in {"faults", "crashes", "outages", "losses"}, Spend(kind)
  PROVE  used' \in [{"faults", "crashes", "outages", "losses"} -> Nat]
  BY DEF TypeOK, Spend

LEMMA CommitStep ==
  ASSUME TypeInv, NEW p \in Procs, InSection(p), NEW e \in Envelopes,
         NEW kind \in Kinds, NEW target \in Tables, NEW prev \in Tables,
         NEW agent \in Grants \cup {NoGrant},
         Commit(p, e, kind, target, prev, agent)
  PROVE  TypeInv'
<1> USE DEF TypeInv
<1>1. Prepared(e, kind, target, prev, agent) \in Envelopes
  BY PreparedFacts
<1>2. Repaired \in Ledgers
  BY LedgerFacts
<1>3. own' \in [Procs -> BOOLEAN]
  BY DEF Commit, TypeOK
<1>4. phase' \in [Procs -> Phases] /\ next' \in [Procs -> Envelopes]
  BY <1>1 DEF Commit, Goto, TypeOK, Phases
<1>5. ledger'.now \in Ledgers /\ ledger'.disk \subseteq Ledgers
  BY <1>2 DEF Commit, Synced
<1>6. TypeOK'
  <2>1. UNCHANGED <<store, lock, clock, job, st, backup, size, used, denied, issued>>
    BY DEF Commit, ghosts
  <2>2. tx' \in Nat
    BY DEF Commit, TypeOK
  <2> QED  BY <1>3, <1>4, <1>5, <2>1, <2>2 DEF TypeOK
<1>7. Goto(p, "save") /\ lock' = lock
  BY DEF Commit
<1>8. AppendingInv(p)'
  BY <1>7 DEF Goto, AppendingInv, TypeOK
<1> QED  BY <1>6, <1>7, <1>8, SectionStep DEF Phases

LEMMA RestrictStep ==
  ASSUME TypeInv, NEW p \in Procs, InSection(p), NEW kind \in Kinds,
         NEW S \in SUBSET DOMAIN st[p].grants, NEW status \in Statuses,
         NEW agent \in Grants \cup {NoGrant}, Restricts(p, kind, S, status, agent)
  PROVE  TypeInv'
<1>1. st[p] \in Envelopes /\ st[p].grants \in Tables
  BY EnvelopeFacts DEF TypeInv, TypeOK
<1>2. S \in SUBSET Grants
  BY <1>1, TableFacts
<1>3. With(st[p].grants, S, status) \in Tables
  BY <1>1, <1>2, WithFacts
<1>4. Only(st[p].grants, S) \in Tables
  BY <1>1, OnlyFacts
<1>5. Commit(p, st[p], kind, With(st[p].grants, S, status),
             Only(st[p].grants, S), agent)
  BY DEF Restricts
<1> QED  BY <1>1, <1>3, <1>4, <1>5, CommitStep

\* Reload and recovery keep the types.
LEMMA ReloadTyped ==
  ASSUME TypeInv, NEW p \in Procs,
         \/ StartEmpty(p) \/ Bootstrap(p) \/ LoadClean(p) \/ RecoverPresent(p)
         \/ RecoverAbort(p) \/ RecoverAppend(p) \/ RefuseReload(p)
  PROVE  TypeInv'
<1>1. phase[p] = "reload" /\ InSection(p)
  BY DEF StartEmpty, Bootstrap, LoadClean, RecoverPresent, RecoverAbort,
         RecoverAppend, RefuseReload, Recoverable, InSection
<1>2. ASSUME NEW e \in Envelopes, Loads(p, e) PROVE TypeInv'
  <2>1. TypeOK'
    BY <1>2 DEF Loads, Goto, TypeInv, TypeOK, Phases, ghosts
  <2>2. AppendingInv(p)'
    BY <1>2 DEF Loads, Goto, TypeInv, TypeOK, AppendingInv
  <2> QED  BY <1>1, <1>2, <2>1, <2>2, SectionStep DEF Loads, Phases
<1>3. ASSUME store.now # None, store.now.pend # None, NEW w \in {"save", "append"},
             Goto(p, w), st' = [st EXCEPT ![p] = store.now],
             next' \in [Procs -> Envelopes],
             UNCHANGED <<store, ledger, lock, clock, job, backup, size, own, tx,
                         used, ghosts>>
      PROVE  TypeInv'
  <2>1. store.now \in Envelopes
    BY <1>3 DEF TypeInv, TypeOK
  <2>2. TypeOK'
    BY <1>3, <2>1 DEF Goto, TypeInv, TypeOK, Phases, ghosts
  <2>3. AppendingInv(p)'
    BY <1>3 DEF Goto, TypeInv, TypeOK, AppendingInv
  <2> QED  BY <1>1, <1>3, <2>2, <2>3, SectionStep DEF Phases
<1>4. CASE StartEmpty(p)
  BY <1>2, <1>4, EmptyFacts DEF StartEmpty
<1>5. CASE Bootstrap(p)
  BY <1>1, <1>5, EmptyFacts, WithFacts, CommitStep, GrantsAssumption
  DEF Bootstrap, Kinds, Statuses
<1>6. CASE LoadClean(p)
  BY <1>2, <1>6 DEF LoadClean, TypeInv, TypeOK
<1>7. CASE RecoverPresent(p)
  <2>1. Final(store.now) \in Envelopes
    BY <1>7, FinalFacts DEF RecoverPresent, Recoverable, TypeInv, TypeOK
  <2> QED  BY <1>3, <1>7, <2>1 DEF RecoverPresent, Recoverable, TypeInv, TypeOK
<1>8. CASE RecoverAbort(p)
  <2>1. Aborted(store.now) \in Envelopes
    BY <1>8, FinalFacts DEF RecoverAbort, Recoverable, TypeInv, TypeOK
  <2> QED  BY <1>3, <1>8, <2>1 DEF RecoverAbort, Recoverable, TypeInv, TypeOK
<1>9. CASE RecoverAppend(p)
  BY <1>3, <1>9 DEF RecoverAppend, Recoverable, TypeInv, TypeOK
<1>10. CASE RefuseReload(p)
  BY <1>1, <1>10, LeaveStep DEF RefuseReload, Abandon, TypeInv, TypeOK, ghosts
<1> QED  BY <1>4, <1>5, <1>6, <1>7, <1>8, <1>9, <1>10

\* So do the decisions.
LEMMA DecideTyped ==
  ASSUME TypeInv, NEW p \in Procs,
         \/ Ensure(p) \/ ExpireDue(p) \/ Snapshot(p)
         \/ UseUnauthenticated(p) \/ UseAllowed(p) \/ UseRefused(p) \/ UseExpired(p)
         \/ IssueRefused(p) \/ Issue(p) \/ RevokeUnchanged(p) \/ Revoke(p)
         \/ SuspendAll(p)
  PROVE  TypeInv'
<1>1. phase[p] = "decide" /\ InSection(p)
  BY DEF Ensure, ExpireDue, Snapshot, UseUnauthenticated, UseAllowed, UseRefused,
         UseExpired, IssueRefused, Issue, RevokeUnchanged, Revoke, SuspendAll,
         Deciding, InSection
<1>2. ASSUME NEW w \in {"reply", "lease", "refused"}, MoveTo(p, w) PROVE TypeInv'
  <2>1. TypeOK'
    BY <1>2 DEF MoveTo, Goto, TypeInv, TypeOK, Phases, section, ghosts
  <2>2. AppendingInv(p)'
    BY <1>2 DEF MoveTo, Goto, TypeInv, TypeOK, AppendingInv
  <2> QED  BY <1>1, <1>2, <2>1, <2>2, SectionStep DEF MoveTo, Phases
<1>3. CASE \/ Ensure(p) \/ Snapshot(p) \/ UseUnauthenticated(p) \/ UseAllowed(p)
           \/ UseRefused(p) \/ IssueRefused(p) \/ RevokeUnchanged(p)
  BY <1>2, <1>3 DEF Ensure, Snapshot, UseUnauthenticated, UseAllowed, UseRefused,
                    IssueRefused, RevokeUnchanged
<1>4. /\ st[p] \in Envelopes /\ st[p].grants \in Tables
      /\ DOMAIN st[p].grants \subseteq Grants
  BY EnvelopeFacts, TableFacts DEF TypeInv, TypeOK
<1>5. CASE ExpireDue(p)
  <2>1. PICK g \in DOMAIN st[p].grants : Restricts(p, "expire", {g}, "EXPIRED", g)
    BY <1>5 DEF ExpireDue, DueGrants
  <2> QED  BY <1>1, <1>4, <2>1, RestrictStep DEF Kinds, Statuses
<1>6. CASE UseExpired(p)
  BY <1>1, <1>4, <1>6, RestrictStep DEF UseExpired, Known, Kinds, Statuses
<1>7. CASE Issue(p)
  <2>1. job[p].grant \in Grants
    BY <1>7 DEF Issue, Deciding, TypeInv, TypeOK, Jobs, OnGrant
  <2> QED  BY <1>1, <1>4, <1>7, <2>1, EmptyFacts, WithFacts, CommitStep
           DEF Issue, Kinds, Statuses
<1>8. CASE Revoke(p)
  BY <1>1, <1>4, <1>8, RestrictStep DEF Revoke, Known, Kinds, Statuses
<1>9. CASE SuspendAll(p)
  BY <1>1, <1>4, <1>9, RestrictStep DEF SuspendAll, ActiveIn, Kinds, Statuses
<1> QED  BY <1>3, <1>5, <1>6, <1>7, <1>8, <1>9

\* So do saving and appending, with their failures and rollbacks, ...
LEMMA SaveTyped ==
  ASSUME TypeInv, NEW p \in Procs,
         \/ Replace(p) \/ SyncDir(p) \/ Unsave(p) \/ SaveFails(p)
         \/ UnlinkFails(p) \/ SyncDirFails(p) \/ UnsaveFails(p)
  PROVE  TypeInv'
<1>1. /\ phase[p] \in {"save", "syncdir", "unsave"} /\ InSection(p)
      /\ next[p] \in Envelopes /\ backup[p] \in Envelopes \cup {None}
  BY DEF Replace, SyncDir, Unsave, SaveFails, UnlinkFails, SyncDirFails,
         UnsaveFails, InSection, TypeInv, TypeOK
<1>2. CASE Replace(p)
  <2>1. TypeOK'
    BY <1>1, <1>2 DEF Replace, Renamed, Synced, Goto, TypeInv, TypeOK, Phases, ghosts
  <2>2. AppendingInv(p)'
    BY <1>2 DEF Replace, Goto, TypeInv, TypeOK, AppendingInv
  <2> QED  BY <1>1, <1>2, <2>1, <2>2, SectionStep DEF Replace, Phases
<1>3. CASE SyncDir(p)
  <2>1. PICK w \in Phases : /\ Goto(p, w) /\ w \in {"append", "reply", "decide"}
                            /\ w = "append" => next[p].pend # None
    BY <1>3 DEF SyncDir, Phases
  <2>2. TypeOK'
    BY <1>1, <1>3, <2>1 DEF SyncDir, Synced, Goto, TypeInv, TypeOK, ghosts
  <2>3. AppendingInv(p)'
    BY <1>3, <2>1 DEF SyncDir, Goto, TypeInv, TypeOK, AppendingInv
  <2> QED  BY <1>1, <1>3, <2>1, <2>2, <2>3, SectionStep DEF SyncDir
<1>4. CASE Unsave(p)
  BY <1>1, <1>4, LeaveStep DEF Unsave, Abandon, Synced, TypeInv, TypeOK, ghosts
<1>5. CASE SaveFails(p)
  BY <1>1, <1>5, LeaveStep, SpendFacts DEF SaveFails, Abandon, TypeInv, TypeOK, ghosts
<1>6. CASE UnlinkFails(p)
  BY <1>1, <1>6, LeaveStep, SpendFacts
  DEF UnlinkFails, Abandon, Synced, TypeInv, TypeOK, ghosts
<1>7. CASE SyncDirFails(p)
  <2>1. TypeOK'
    BY <1>7, SpendFacts DEF SyncDirFails, Goto, TypeInv, TypeOK, Phases, section, ghosts
  <2>2. AppendingInv(p)'
    BY <1>7 DEF SyncDirFails, Goto, TypeInv, TypeOK, AppendingInv
  <2> QED  BY <1>1, <1>7, <2>1, <2>2, SectionStep DEF SyncDirFails, Phases
<1>8. CASE UnsaveFails(p)
  <2>1. /\ store'.now \in Envelopes \cup {None}
        /\ store'.disk \subseteq Envelopes \cup {None}
    BY <1>1, <1>8 DEF UnsaveFails, Renamed, TypeInv, TypeOK
  <2> QED  BY <1>1, <1>8, <2>1, LeaveStep, SpendFacts
           DEF UnsaveFails, Abandon, TypeInv, TypeOK, ghosts
<1> QED  BY <1>2, <1>3, <1>4, <1>5, <1>6, <1>7, <1>8

LEMMA LineFacts ==
  ASSUME TypeInv, NEW p \in Procs, Appending(p)
  PROVE  Line(p) \in Events
<1>1. job[p].grant \in Grants \cup {NoGrant} /\ st[p] \in Envelopes
  BY DEF TypeInv, TypeOK, Jobs
<1>2. CASE phase[p] = "append"
  BY <1>1, <1>2, EnvelopeFacts DEF Line, TypeInv, AppendingInv
<1>3. CASE phase[p] = "lease"
  BY <1>1, <1>3, NoteFacts DEF Line
<1>4. CASE phase[p] = "refused"
  BY <1>1, <1>4, NoteFacts DEF Line
<1> QED  BY <1>2, <1>3, <1>4 DEF Appending

LEMMA AppendTyped ==
  ASSUME TypeInv, NEW p \in Procs,
         \/ Write(p) \/ WriteFails(p) \/ Fsync(p) \/ FsyncFails(p)
         \/ Truncate(p) \/ Resync(p) \/ RollbackFails(p)
  PROVE  TypeInv'
<1>1. InSection(p)
  BY DEF Write, WriteFails, Fsync, FsyncFails, Truncate, Resync, RollbackFails,
         Appending, InSection
<1>2. ledger.now \in Ledgers /\ ledger.disk \subseteq Ledgers /\ TypeOK
  BY DEF TypeInv, TypeOK
<1>3. CASE Write(p)
  <2>1. CASE phase[p] = "append" /\ ledger.now.lines # st[p].pend.tail
    BY <1>1, <1>3, <2>1, LeaveStep DEF Write, Abandon, TypeInv, TypeOK, ghosts
  <2>2. CASE ~(phase[p] = "append" /\ ledger.now.lines # st[p].pend.tail)
    <3> DEFINE v == Whole(Append(ledger.now.lines, Line(p)))
    <3>1. /\ ledger' = Written(RepairedFile, v, TornTail) /\ Goto(p, "fsync")
          /\ size' = [size EXCEPT ![p] = Len(ledger.now.lines)]
          /\ UNCHANGED <<store, lock, clock, job, st, next, backup, own, tx,
                         used, denied, issued>>
      BY <1>3, <2>2 DEF Write, ghosts
    <3>2. /\ v \in Ledgers /\ v.lines = Append(ledger.now.lines, Line(p))
          /\ Len(v.lines) = Len(ledger.now.lines) + 1
      BY <1>2, <1>3, LineFacts, LedgerFacts DEF Write, Whole
    <3> HIDE DEF v
    <3>3. ledger'.now = v /\ ledger'.disk \subseteq Ledgers
      BY <1>2, <3>1, <3>2, LedgerFacts DEF Written
    <3>4. TypeOK'
      BY <1>2, <3>1, <3>2, <3>3, LedgerFacts DEF Goto, TypeOK, Phases
    <3>5. AppendingInv(p)'
      BY <1>2, <3>1, <3>2, <3>3, LedgerFacts DEF Goto, TypeOK, AppendingInv
    <3> QED  BY <1>1, <3>1, <3>4, <3>5, SectionStep DEF Phases
  <2> QED  BY <2>1, <2>2
<1>4. CASE WriteFails(p)
  <2>1. PICK v \in {Repaired} \cup TornTail : ledger' = Written(RepairedFile, v, {})
    BY <1>4 DEF WriteFails
  <2>2. v \in Ledgers /\ v.lines = ledger.now.lines
    BY <1>2, <2>1, LedgerFacts DEF Repaired, TornTail, Whole
  <2>3. ledger'.now = v /\ ledger'.disk \subseteq Ledgers
    BY <1>2, <2>1, <2>2, LedgerFacts DEF Written
  <2>4. /\ Goto(p, "truncate") /\ size' = [size EXCEPT ![p] = Len(ledger.now.lines)]
        /\ UNCHANGED <<store, lock, clock, job, st, next, backup, own, tx,
                       denied, issued>>
    BY <1>4 DEF WriteFails, ghosts
  <2>5. used' \in [{"faults", "crashes", "outages", "losses"} -> Nat]
    BY <1>2, <1>4, SpendFacts DEF WriteFails
  <2>6. TypeOK'
    BY <1>2, <2>2, <2>3, <2>4, <2>5, LedgerFacts DEF Goto, TypeOK, Phases
  <2>7. AppendingInv(p)'
    BY <1>2, <2>2, <2>3, <2>4, LedgerFacts DEF Goto, TypeOK, AppendingInv
  <2> QED  BY <1>1, <2>4, <2>6, <2>7, SectionStep DEF Phases
<1>5. CASE Fsync(p)
  <2>1. /\ ledger' = Synced(ledger.now)
        /\ UNCHANGED <<store, lock, clock, job, st, backup, size, own, tx, used,
                       denied, issued>>
    BY <1>5 DEF Fsync, ghosts
  <2>2. st[p].pend # None => Final(st[p]) \in Envelopes
    BY <1>2, FinalFacts DEF TypeOK
  <2>3. PICK w \in {"reply", "save"} : Goto(p, w)
    BY <1>5 DEF Fsync
  <2>4. next' \in [Procs -> Envelopes]
    BY <1>2, <1>5, <2>2 DEF Fsync, TypeOK
  <2>5. TypeOK'
    BY <1>2, <2>1, <2>3, <2>4 DEF Goto, Synced, TypeOK, Phases
  <2>6. AppendingInv(p)'
    BY <1>2, <2>3 DEF Goto, TypeOK, AppendingInv
  <2> QED  BY <1>1, <2>1, <2>3, <2>5, <2>6, SectionStep DEF Phases
<1>6. CASE FsyncFails(p)
  <2>1. TypeOK'
    BY <1>2, <1>6, SpendFacts DEF FsyncFails, Goto, TypeOK, Phases, section, ghosts
  <2>2. AppendingInv(p)'
    BY <1>2, <1>6 DEF FsyncFails, Goto, TypeOK, TypeInv, AppendingInv, section
  <2> QED  BY <1>1, <1>6, <2>1, <2>2, SectionStep DEF FsyncFails, Phases
<1>7. CASE Truncate(p)
  <2>1. size[p] \in 0 .. Len(ledger.now.lines)
    BY <1>2, <1>7, LedgerFacts DEF Truncate, TypeInv, TypeOK, AppendingInv
  <2>2. Whole(SubSeq(ledger.now.lines, 1, size[p])) \in Ledgers
    BY <1>2, <2>1, LedgerFacts
  <2>3. ledger'.now \in Ledgers /\ ledger'.disk \subseteq Ledgers
    BY <1>2, <1>7, <2>2 DEF Truncate, Written
  <2>4. TypeOK'
    BY <1>2, <1>7, <2>3 DEF Truncate, Goto, TypeOK, Phases, section, ghosts
  <2>5. AppendingInv(p)'
    BY <1>2, <1>7 DEF Truncate, Goto, TypeOK, AppendingInv
  <2> QED  BY <1>1, <1>7, <2>4, <2>5, SectionStep DEF Truncate, Phases
<1>8. CASE Resync(p)
  BY <1>1, <1>2, <1>8, LeaveStep DEF Resync, Abandon, Synced, TypeOK, ghosts
<1>9. CASE RollbackFails(p)
  BY <1>1, <1>2, <1>9, LeaveStep, SpendFacts
  DEF RollbackFails, Abandon, TypeOK, ghosts
<1> QED  BY <1>3, <1>4, <1>5, <1>6, <1>7, <1>8, <1>9

\* ... and so do requests, crashes, outages, losses and the clock.
LEMMA RequestTyped ==
  ASSUME TypeInv, NEW p \in Procs, Begin(p) \/ Acquire(p) \/ Reply(p) \/ Crash(p)
  PROVE  TypeInv'
<1>1. CASE Begin(p)
  <2>1. job' \in [Procs -> Jobs] /\ phase' \in [Procs -> Phases]
    <3>1. PICK op \in Ops, g \in Grants \cup {NoGrant} :
            /\ op \in OnGrant <=> g # NoGrant
            /\ job' = [job EXCEPT ![p] = [op |-> op, grant |-> g,
                         now |-> IF op \in Timed THEN clock ELSE 0]]
      BY <1>1 DEF Begin
    <3>2. (IF op \in Timed THEN clock ELSE 0) \in 0 .. MaxClock
      BY ClockAssumption DEF TypeInv, TypeOK
    <3>3. [op |-> op, grant |-> g, now |-> IF op \in Timed THEN clock ELSE 0] \in Jobs
      BY <3>1, <3>2 DEF Jobs
    <3> QED  BY <1>1, <3>1, <3>3 DEF Begin, Goto, TypeInv, TypeOK, Phases
  <2>2. UNCHANGED <<store, ledger, lock, clock, st, next, backup, size, own, tx,
                    used, denied, issued>>
    BY <1>1 DEF Begin, section, ghosts
  <2>3. TypeOK'
    BY <2>1, <2>2 DEF TypeInv, TypeOK
  <2>4. \A q \in Procs : ~InSection(p)' /\ (q # p => phase'[q] = phase[q])
    BY <1>1 DEF Begin, Goto, InSection, TypeInv, TypeOK
  <2> QED  BY <2>2, <2>3, <2>4 DEF TypeInv, LockInv, AppendingInv, InSection
<1>2. CASE Acquire(p)
  <2>1. \A q \in Procs : ~InSection(q)
    BY <1>2, NoneAssumption DEF Acquire, TypeInv, LockInv
  <2>2. TypeOK' /\ lock' = p /\ phase' = [phase EXCEPT ![p] = "reload"]
    BY <1>2 DEF Acquire, Goto, TypeInv, TypeOK, Phases, section, ghosts
  <2> QED  BY <2>1, <2>2 DEF TypeInv, TypeOK, LockInv, AppendingInv, InSection
<1>3. CASE Reply(p)
  <2>1. InSection(p) /\ DOMAIN st[p].grants \subseteq Grants
    BY <1>3, EnvelopeFacts, TableFacts DEF Reply, InSection, TypeInv, TypeOK
  <2>2. denied' \subseteq Grants
    BY <1>3, <2>1 DEF Reply, TypeInv, TypeOK
  <2>3. issued' \subseteq Grants
    BY <1>3 DEF Reply, TypeInv, TypeOK, Jobs, OnGrant
  <2> QED  BY <1>3, <2>1, <2>2, <2>3, LeaveStep DEF Reply, TypeInv, TypeOK
<1>4. CASE Crash(p)
  <2>1. PICK v \in {ledger.now} \cup TornTail : ledger' = Written(ledger, v, {})
    BY <1>4 DEF Crash
  <2>2. ledger'.now \in Ledgers /\ ledger'.disk \subseteq Ledgers
    BY <2>1, LedgerFacts DEF Written, TypeInv, TypeOK
  <2> QED  BY <1>4, <2>2, LeaveStep, SpendFacts
           DEF Crash, Abandon, TypeInv, TypeOK, ghosts
<1> QED  BY <1>1, <1>2, <1>3, <1>4

LEMMA EnvironmentTyped ==
  ASSUME TypeInv, PowerLoss \/ StoreLost \/ Tick
  PROVE  TypeInv'
<1>1. CASE PowerLoss
  <2>1. PICK e \in store.disk, v \in ledger.disk :
          store' = Synced(e) /\ ledger' = Synced(v)
    BY <1>1 DEF PowerLoss, AfterPowerLoss
  <2>2. /\ store'.now \in Envelopes \cup {None}
        /\ store'.disk \subseteq Envelopes \cup {None}
        /\ ledger'.now \in Ledgers /\ ledger'.disk \subseteq Ledgers
    BY <2>1 DEF Synced, TypeInv, TypeOK
  <2>3. NoJob \in Jobs
    BY ClockAssumption DEF NoJob, Jobs, Ops, OnGrant
  <2>4. used' \in [{"faults", "crashes", "outages", "losses"} -> Nat]
    BY <1>1, SpendFacts DEF PowerLoss, TypeInv
  <2>5. TypeOK'
    <3>1. /\ lock' = None /\ phase' \in [Procs -> Phases] /\ job' \in [Procs -> Jobs]
          /\ st' \in [Procs -> Envelopes] /\ next' \in [Procs -> Envelopes]
          /\ backup' \in [Procs -> Envelopes \cup {None}]
          /\ size' \in [Procs -> Nat] /\ own' \in [Procs -> BOOLEAN]
      BY <1>1, <2>3, EmptyFacts DEF PowerLoss, Phases
    <3>2. UNCHANGED <<clock, tx, denied, issued>>
      BY <1>1 DEF PowerLoss, ghosts
    <3> QED  BY <2>2, <2>4, <3>1, <3>2 DEF TypeInv, TypeOK
  <2>6. \A q \in Procs : phase'[q] = "idle"
    BY <1>1 DEF PowerLoss
  <2> QED  BY <2>5, <2>6 DEF TypeInv, LockInv, AppendingInv, InSection
<1>2. CASE StoreLost
  <2>1. TypeOK'
    BY <1>2, SpendFacts DEF StoreLost, Synced, TypeInv, TypeOK, section, ghosts
  <2> QED  BY <1>2, <2>1 DEF StoreLost, TypeInv, LockInv, AppendingInv, InSection, section
<1>3. CASE Tick
  <2>1. TypeOK'
    BY <1>3, ClockAssumption DEF Tick, TypeInv, TypeOK, section, ghosts
  <2> QED  BY <1>3, <2>1 DEF Tick, TypeInv, LockInv, AppendingInv, InSection, section
<1> QED  BY <1>1, <1>2, <1>3

LEMMA TypeInit == Init => TypeInv
<1> SUFFICES ASSUME Init PROVE TypeInv
  OBVIOUS
<1>1. Whole(<<>>) \in Ledgers
  BY DEF Whole, Ledgers
<1>2. NoJob \in Jobs
  BY ClockAssumption DEF NoJob, Jobs, Ops, OnGrant
<1>3. used \in [{"faults", "crashes", "outages", "losses"} -> Nat]
  BY BudgetAssumption DEF Init
<1>4. TypeOK
  BY <1>1, <1>2, <1>3, EmptyFacts, ClockAssumption DEF Init, TypeOK, Synced, Phases
<1>5. \A p \in Procs : phase[p] = "idle"
  BY DEF Init
<1> QED  BY <1>4, <1>5 DEF TypeInv, LockInv, AppendingInv, InSection

LEMMA TypeStep == TypeInv /\ [Next]_vars => TypeInv'
<1> SUFFICES ASSUME TypeInv, [Next]_vars PROVE TypeInv'
  OBVIOUS
<1>1. CASE UNCHANGED vars
  <2>1. UNCHANGED <<store, ledger, lock, clock, phase, job, st, next, backup, size,
                    own, tx, used, denied, issued>>
    BY <1>1 DEF vars, section, ghosts
  <2> QED  BY <2>1 DEF TypeInv, TypeOK, LockInv, AppendingInv, InSection
<1>2. ASSUME NEW p \in Procs, Begin(p) \/ Acquire(p) \/ Crash(p) PROVE TypeInv'
  BY <1>2, RequestTyped
<1>3. ASSUME NEW p \in Procs, Work(p) PROVE TypeInv'
  BY <1>3, ReloadTyped, DecideTyped, SaveTyped, AppendTyped, RequestTyped DEF Work
<1>4. ASSUME NEW p \in Procs, Fault(p) PROVE TypeInv'
  BY <1>4, SaveTyped, AppendTyped DEF Fault
<1>5. CASE PowerLoss \/ StoreLost \/ Tick
  BY <1>5, EnvironmentTyped
<1> QED  BY <1>1, <1>2, <1>3, <1>4, <1>5 DEF Next

LEMMA TypeInvariant == Spec => []TypeInv
  BY TypeInit, TypeStep, PTL DEF Spec

\* Whatever fails, stops or is lost, every variable keeps its type: in
\* particular an append is rolled back only to an offset its ledger has, and a
\* process that appends a receipt holds the envelope that announces it.
THEOREM TypeCorrect == Spec => []TypeOK
  BY TypeInvariant, PTL DEF TypeInv
=============================================================================
