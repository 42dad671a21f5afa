------------------------ MODULE GrantRegistryProofs ------------------------
(***************************************************************************)
(* What the grant authority promises its callers, for every number of      *)
(* processes, crashes, faults and power losses: a denial is final while    *)
(* nobody removes the grant envelope, and the authority is one registry    *)
(* (GrantRegistry).                                                        *)
(***************************************************************************)
EXTENDS GrantLedgerProofs

(***************************************************************************)
(* A grant that any answered request saw revoked, suspended or expired is  *)
(* never used again.  The argument: every envelope a power loss may leave  *)
(* already denies what was answered (DiskInv), because a section answers   *)
(* only from a clean envelope, and a clean envelope denies nothing that an *)
(* older version still on disk would allow (CleanInv).                     *)
(***************************************************************************)
StoreInv == DiskInv /\ CleanInv

LEMMA StoreStable ==
  ASSUME StoreInv, UNCHANGED <<store, denied>>
  PROVE  StoreInv'
  BY DEF StoreInv, DiskInv, CleanInv, Shape, Retired, Off

\* The store holds one possible value.
LEMMA SingleEnvelope ==
  ASSUME NEW e, store' = Synced(e), Shape(e), denied' = denied,
         \A g \in denied : Retired(e, g)
  PROVE  StoreInv'
<1>1. store'.now = e /\ store'.disk = {e}
  BY DEF Synced
<1>2. DiskInv'
  BY <1>1 DEF DiskInv, Shape, Retired, Off
<1>3. CleanInv'
  BY <1>1 DEF CleanInv, Retired, Off
<1> QED  BY <1>2, <1>3 DEF StoreInv

\* A step of the process in its section leaves the others where they were.
LEMMA SectionDenial ==
  ASSUME DenialInv, TypeInv', StoreInv', NEW p \in Procs, InSection(p),
         NEW w, Goto(p, w), \A q \in Procs \ {p} : st'[q] = st[q],
         SavingInv(p)', SettledInv(p)'
  PROVE  DenialInv'
<1>1. ASSUME NEW q \in Procs \ {p} PROVE SavingInv(q)' /\ SettledInv(q)'
  <2>1. ~InSection(q) /\ phase'[q] = phase[q] /\ st'[q] = st[q]
    BY DEF DenialInv, TypeInv, TypeOK, LockInv, Goto
  <2>2. phase[q] \in {"idle", "waiting"} /\ st[q] = Empty
    BY <2>1 DEF InSection, DenialInv, SettledInv
  <2>3. Empty' = Empty
    OBVIOUS
  <2> QED  BY <2>1, <2>2 DEF SavingInv, SettledInv
<1> QED  BY <1>1 DEF DenialInv, StoreInv

LEMMA LeaveDenial ==
  ASSUME DenialInv, TypeInv', StoreInv', NEW p \in Procs, InSection(p), Leave(p)
  PROVE  DenialInv'
<1>1. Goto(p, "idle") /\ st' = [st EXCEPT ![p] = Empty]
  BY DEF Leave
<1>2. phase'[p] = "idle" /\ st'[p] = Empty /\ \A q \in Procs \ {p} : st'[q] = st[q]
  BY <1>1 DEF DenialInv, TypeInv, TypeOK, Goto
<1>3. SavingInv(p)' /\ SettledInv(p)'
  BY <1>2 DEF SavingInv, SettledInv
<1> QED  BY <1>1, <1>2, <1>3, SectionDenial

LEMMA CommitDenial ==
  ASSUME DenialInv, TypeInv', NEW p \in Procs, InSection(p),
         NEW kind \in Kinds, NEW target \in Tables, NEW prev \in Tables,
         NEW agent \in Grants \cup {NoGrant},
         st[p] = IF store.now = None THEN Empty ELSE store.now, st[p].pend = None,
         Commit(p, st[p], kind, target, prev, agent),
         \A g \in Grants : Off(g, st[p].grants) => Off(g, target),
         kind \in {"issue", "demo_seed"} =>
           \A g \in Grants : Off(g, target) => Off(g, st[p].grants)
  PROVE  DenialInv'
<1> DEFINE n == Prepared(st[p], kind, target, prev, agent)
<1>1. /\ n \in Envelopes /\ n # None /\ n.pend # None /\ n.pend.target = target
      /\ n.grants = Effective(kind, st[p].grants, target)
  BY PreparedFacts, EnvelopeFacts, SMTT(30) DEF DenialInv, TypeInv, TypeOK
<1>2. /\ next' = [next EXCEPT ![p] = n] /\ Goto(p, "save")
      /\ UNCHANGED <<store, denied, st>>
  BY DEF Commit, ghosts
<1> HIDE DEF n
<1>3. next'[p] = n /\ phase'[p] = "save"
  BY <1>2 DEF DenialInv, TypeInv, TypeOK, Goto
<1>4. Shape(n)
  BY <1>1 DEF Shape, Effective
<1>5. Follows(st[p], n)
  BY <1>1 DEF Follows, Retired, Effective
<1>6. SavingInv(p)'
  BY <1>2, <1>3, <1>4, <1>5 DEF SavingInv, Shape, Follows, Retired, Off
<1>7. SettledInv(p)'
  BY <1>3 DEF SettledInv
<1>8. StoreInv'
  BY <1>2, StoreStable DEF DenialInv, StoreInv
<1> QED  BY <1>2, <1>6, <1>7, <1>8, SectionDenial

LEMMA RestrictDenial ==
  ASSUME DenialInv, TypeInv', NEW p \in Procs, phase[p] = "decide",
         NEW kind \in {"revoke", "expire", "suspend_all"},
         NEW S \in SUBSET DOMAIN st[p].grants, NEW status \in Statuses \ {"ACTIVE"},
         NEW agent \in Grants \cup {NoGrant}, Restricts(p, kind, S, status, agent)
  PROVE  DenialInv'
<1>1. st[p] \in Envelopes /\ st[p].grants \in Tables
  BY EnvelopeFacts DEF DenialInv, TypeInv, TypeOK
<1>2. S \in SUBSET Grants
  BY <1>1, TableFacts
<1>3. /\ With(st[p].grants, S, status) \in Tables
      /\ \A g \in Grants : Off(g, st[p].grants) => Off(g, With(st[p].grants, S, status))
  BY <1>1, <1>2, WithFacts
<1>4. Only(st[p].grants, S) \in Tables
  BY <1>1, OnlyFacts
<1>5. Commit(p, st[p], kind, With(st[p].grants, S, status),
             Only(st[p].grants, S), agent)
  BY DEF Restricts
<1>6. /\ InSection(p) /\ st[p].pend = None
      /\ st[p] = IF store.now = None THEN Empty ELSE store.now
  BY DEF DenialInv, SettledInv, InSection
<1> QED  BY <1>3, <1>4, <1>5, <1>6, CommitDenial DEF Kinds

\* A step that writes no envelope and goes on inside the section.
LEMMA SettledDenial ==
  ASSUME DenialInv, TypeInv', NEW p \in Procs, InSection(p),
         NEW w \in {"append", "fsync", "truncate", "resync",
                    "decide", "lease", "refused", "reply"}, Goto(p, w),
         UNCHANGED <<store, denied>>,
         NEW e \in Envelopes, st' = [st EXCEPT ![p] = e],
         e = IF store.now = None THEN Empty ELSE store.now,
         w \in {"decide", "lease", "refused", "reply"} => e.pend = None
  PROVE  DenialInv'
<1>1. phase'[p] = w /\ st'[p] = e /\ \A q \in Procs \ {p} : st'[q] = st[q]
  BY DEF DenialInv, TypeInv, TypeOK, Goto
<1>2. SavingInv(p)' /\ SettledInv(p)'
  BY <1>1 DEF SavingInv, SettledInv
<1>3. StoreInv'
  BY StoreStable DEF DenialInv, StoreInv
<1> QED  BY <1>1, <1>2, <1>3, SectionDenial

\* A section that fails before it writes an envelope.
LEMMA AbandonDenial ==
  ASSUME DenialInv, TypeInv', NEW p \in Procs, InSection(p), Abandon(p),
         UNCHANGED store
  PROVE  DenialInv'
  BY StoreStable, LeaveDenial DEF Abandon, ghosts, DenialInv, StoreInv

(***************************************************************************)
(* Reload: what is recovered denies what was pending.                      *)
(***************************************************************************)
LEMMA RecoverDenial ==
  ASSUME DenialInv, TypeInv', NEW p \in Procs, InSection(p),
         store.now # None, NEW n \in Envelopes, Follows(store.now, n), Shape(n),
         next' = [next EXCEPT ![p] = n], st' = [st EXCEPT ![p] = store.now],
         Goto(p, "save"), UNCHANGED <<store, denied>>
  PROVE  DenialInv'
<1>1. /\ phase'[p] = "save" /\ next'[p] = n /\ st'[p] = store.now
      /\ \A q \in Procs \ {p} : st'[q] = st[q]
  BY DEF DenialInv, TypeInv, TypeOK, Goto
<1>2. SavingInv(p)'
  BY <1>1 DEF SavingInv, Shape, Follows, Retired, Off
<1>3. SettledInv(p)'
  BY <1>1 DEF SettledInv
<1>4. StoreInv'
  BY StoreStable DEF DenialInv, StoreInv
<1> QED  BY <1>1, <1>2, <1>3, <1>4, SectionDenial

LEMMA ReloadDenial ==
  ASSUME DenialInv, TypeInv', NEW p \in Procs,
         \/ StartEmpty(p) \/ Bootstrap(p) \/ LoadClean(p) \/ RecoverPresent(p)
         \/ RecoverAbort(p) \/ RecoverAppend(p) \/ RefuseReload(p)
  PROVE  DenialInv'
<1>1. /\ phase[p] = "reload" /\ InSection(p) /\ st[p] = Empty
      /\ store.now \in Envelopes \cup {None} /\ Shape(store.now)
  BY DEF StartEmpty, Bootstrap, LoadClean, RecoverPresent, RecoverAbort, RecoverAppend,
         RefuseReload, Recoverable, InSection, DenialInv, SettledInv, DiskInv,
         TypeInv, TypeOK
<1>2. CASE StartEmpty(p)
  BY <1>1, <1>2, EmptyFacts, SettledDenial DEF StartEmpty, Loads, ghosts
<1>3. CASE LoadClean(p)
  BY <1>1, <1>3, SettledDenial DEF LoadClean, VerifiedClean, Loads, ghosts
<1>4. CASE Bootstrap(p)
  <2>1. With(NoTable, Seeds, "ACTIVE") \in Tables /\ NoTable \in Tables
    BY GrantsAssumption, WithFacts, EmptyFacts DEF Statuses
  <2>2. \A g \in Grants : /\ Off(g, NoTable) => Off(g, With(NoTable, Seeds, "ACTIVE"))
                          /\ Off(g, With(NoTable, Seeds, "ACTIVE")) => Off(g, NoTable)
    <3>1. \A g \in Grants : ~Off(g, NoTable)
      BY EmptyFacts DEF Off
    <3>2. \A g \in Grants : Off(g, With(NoTable, Seeds, "ACTIVE")) <=>
            IF g \in Seeds THEN "ACTIVE" # "ACTIVE" ELSE Off(g, NoTable)
      BY GrantsAssumption, WithFacts, EmptyFacts DEF Statuses
    <3> QED  BY <3>1, <3>2
  <2>3. /\ store.now = None
        /\ Commit(p, st[p], "demo_seed", With(NoTable, Seeds, "ACTIVE"), NoTable,
                  NoGrant)
    BY <1>1, <1>4 DEF Bootstrap
  <2>4. "demo_seed" \in Kinds /\ NoGrant \in Grants \cup {NoGrant}
    BY DEF Kinds
  <2>5. st[p].pend = None /\ st[p].grants = NoTable
        /\ st[p] = IF store.now = None THEN Empty ELSE store.now
    BY <1>1, <2>3, EmptyFacts
  <2> QED  BY <1>1, <2>1, <2>2, <2>3, <2>4, <2>5, CommitDenial
<1>5. CASE RecoverPresent(p)
  <2>1. store.now \in Envelopes /\ store.now # None /\ store.now.pend # None
    BY <1>1, <1>5 DEF RecoverPresent, Recoverable
  <2>2. Shape(Final(store.now)) /\ Follows(store.now, Final(store.now))
    BY <1>1, <2>1, FinalFacts DEF Shape, Follows
  <2> QED  BY <1>1, <1>5, <2>1, <2>2, FinalFacts, RecoverDenial
           DEF RecoverPresent, ghosts
<1>6. CASE RecoverAbort(p)
  <2>1. store.now \in Envelopes /\ store.now # None /\ store.now.pend # None
    BY <1>1, <1>6 DEF RecoverAbort, Recoverable
  <2>2. Shape(Aborted(store.now)) /\ Follows(store.now, Aborted(store.now))
    BY <1>1, <2>1, FinalFacts DEF Shape, Follows
  <2> QED  BY <1>1, <1>6, <2>1, <2>2, FinalFacts, RecoverDenial
           DEF RecoverAbort, ghosts
<1>7. CASE RecoverAppend(p)
  BY <1>1, <1>7, SettledDenial DEF RecoverAppend, Recoverable, ghosts
<1>8. CASE RefuseReload(p)
  BY <1>1, <1>8, AbandonDenial DEF RefuseReload
<1> QED  BY <1>2, <1>3, <1>4, <1>5, <1>6, <1>7, <1>8

(***************************************************************************)
(* Deciding.                                                               *)
(***************************************************************************)
LEMMA DecideDenial ==
  ASSUME DenialInv, TypeInv', NEW p \in Procs,
         \/ Ensure(p) \/ ExpireDue(p) \/ Snapshot(p)
         \/ UseUnauthenticated(p) \/ UseAllowed(p) \/ UseRefused(p) \/ UseExpired(p)
         \/ IssueRefused(p) \/ Issue(p) \/ RevokeUnchanged(p) \/ Revoke(p)
         \/ SuspendAll(p)
  PROVE  DenialInv'
<1>1. phase[p] = "decide" /\ InSection(p)
  BY DEF Ensure, ExpireDue, Snapshot, UseUnauthenticated, UseAllowed, UseRefused,
         UseExpired, IssueRefused, Issue, RevokeUnchanged, Revoke, SuspendAll,
         Deciding, InSection
<1>2. /\ st[p] \in Envelopes /\ st[p].pend = None /\ st[p].grants \in Tables
      /\ st[p] = IF store.now = None THEN Empty ELSE store.now
      /\ st = [st EXCEPT ![p] = st[p]]
      /\ job[p].grant \in Grants \cup {NoGrant}
  BY <1>1, EnvelopeFacts DEF DenialInv, SettledInv, TypeInv, TypeOK, Jobs
<1>3. ASSUME NEW w \in {"reply", "lease", "refused"}, MoveTo(p, w) PROVE DenialInv'
  BY <1>1, <1>2, <1>3, SettledDenial DEF MoveTo, section, ghosts
<1>4. CASE Ensure(p) \/ Snapshot(p) \/ UseUnauthenticated(p) \/ UseAllowed(p)
           \/ UseRefused(p) \/ IssueRefused(p) \/ RevokeUnchanged(p)
  BY <1>3, <1>4 DEF Ensure, Snapshot, UseUnauthenticated, UseAllowed, UseRefused,
                    IssueRefused, RevokeUnchanged
<1>5. ASSUME NEW kind \in {"revoke", "expire", "suspend_all"},
             NEW S \in SUBSET DOMAIN st[p].grants,
             NEW status \in {"REVOKED", "EXPIRED", "SUSPENDED"},
             NEW agent \in Grants \cup {NoGrant}, Restricts(p, kind, S, status, agent)
      PROVE  DenialInv'
  BY <1>1, <1>5, RestrictDenial DEF Statuses
<1>6. CASE ExpireDue(p)
  <2>1. PICK g \in DueGrants(p) : Restricts(p, "expire", {g}, "EXPIRED", g)
    BY <1>6 DEF ExpireDue
  <2>2. {g} \in SUBSET DOMAIN st[p].grants /\ g \in Grants \cup {NoGrant}
    BY <1>2, TableFacts DEF DueGrants
  <2> QED  BY <2>1, <2>2, <1>5
<1>7. CASE UseExpired(p)
  BY <1>2, <1>5, <1>7 DEF UseExpired, Known
<1>8. CASE Revoke(p)
  BY <1>2, <1>5, <1>8 DEF Revoke, Known
<1>9. CASE SuspendAll(p)
  <2>1. ActiveIn(st[p].grants) \in SUBSET DOMAIN st[p].grants
    BY DEF ActiveIn
  <2> QED  BY <2>1, <1>5, <1>9 DEF SuspendAll
<1>10. CASE Issue(p)
  <2> DEFINE target == With(st[p].grants, {job[p].grant}, "ACTIVE")
  <2>1. job[p].grant \in Grants /\ ~Off(job[p].grant, st[p].grants)
    BY <1>10 DEF Issue, Deciding, Known, Off, OnGrant, DenialInv, TypeInv, TypeOK, Jobs
  <2>2. /\ target \in Tables
        /\ \A g \in Grants : Off(g, target) <=> Off(g, st[p].grants)
    BY <1>2, <2>1, WithFacts DEF Statuses
  <2>3. Commit(p, st[p], "issue", target, NoTable, job[p].grant)
    BY <1>10 DEF Issue
  <2> HIDE DEF target
  <2> QED  BY <1>1, <1>2, <2>2, <2>3, EmptyFacts, CommitDenial DEF Kinds
<1> QED  BY <1>4, <1>6, <1>7, <1>8, <1>9, <1>10

(***************************************************************************)
(* Saving: the live name holds the new envelope, the old one, or either.   *)
(***************************************************************************)
LEMMA SaveDenial ==
  ASSUME DenialInv, TypeInv', NEW p \in Procs,
         \/ Replace(p) \/ SyncDir(p) \/ Unsave(p) \/ SaveFails(p)
         \/ UnlinkFails(p) \/ SyncDirFails(p) \/ UnsaveFails(p)
  PROVE  DenialInv'
<1>1. /\ phase[p] \in {"save", "syncdir", "unsave"} /\ InSection(p)
      /\ next[p] \in Envelopes /\ next[p] # None
      /\ store.now \in Envelopes \cup {None} /\ store.now \in store.disk
      /\ Shape(next[p]) /\ Follows(st[p], next[p])
      /\ \A e \in store.disk : Shape(e) /\ \A g \in denied : Retired(e, g)
      /\ denied \subseteq Grants
  BY EnvelopeFacts DEF Replace, SyncDir, Unsave, SaveFails, UnlinkFails, SyncDirFails,
         UnsaveFails, InSection, DenialInv, SavingInv, DiskInv, TypeInv, TypeOK
<1>2. CASE SaveFails(p)
  BY <1>1, <1>2, AbandonDenial DEF SaveFails
<1>3. CASE Replace(p)
  <2>1. /\ st[p] = IF store.now = None THEN Empty ELSE store.now
        /\ store' = [now |-> next[p], disk |-> {store.now, next[p]}]
        /\ backup' = [backup EXCEPT ![p] = store.now] /\ Goto(p, "syncdir")
        /\ UNCHANGED <<st, next, denied>>
    BY <1>3 DEF Replace, Renamed, Synced, DenialInv, SavingInv, ghosts
  <2>2. /\ phase'[p] = "syncdir" /\ backup'[p] = store.now
        /\ next'[p] = next[p] /\ st'[p] = st[p]
        /\ store'.now = next[p] /\ store'.disk = {store.now, next[p]}
    BY <2>1 DEF DenialInv, TypeInv, TypeOK, Goto
  <2>3. \A g \in denied : Retired(next[p], g)
    <3> SUFFICES ASSUME NEW g \in denied PROVE Retired(next[p], g)
      OBVIOUS
    <3>1. Retired(store.now, g) /\ store.now # None /\ st[p] = store.now
      BY <1>1, <2>1 DEF Retired
    <3>2. Off(g, st[p].grants)
      BY <3>1 DEF Retired
    <3> QED  BY <1>1, <3>1, <3>2 DEF Follows, Retired
  <2>4. DiskInv'
    BY <1>1, <2>1, <2>2, <2>3 DEF DiskInv, Shape, Retired, Off
  <2>5. ASSUME next[p].pend # None PROVE CleanInv'
    BY <2>2, <2>5 DEF CleanInv
  <2>6. ASSUME next[p].pend = None PROVE CleanInv'
    <3>1. st[p].pend # None
      BY <1>1, <2>6 DEF Follows
    <3>2. st[p] = store.now /\ store.now # None
      BY <2>1, <3>1, EmptyFacts
    <3>3. \A g \in Grants : Off(g, next[p].grants) => Retired(st[p], g)
      BY <1>1, <2>6, <3>1, <3>2 DEF Follows, Retired, Shape
    <3>4. \A g \in Grants : Off(g, next[p].grants) => Retired(next[p], g)
      BY <1>1, <2>6 DEF Retired
    <3> QED  BY <2>2, <3>2, <3>3, <3>4 DEF CleanInv, Retired, Off
  <2>7. SavingInv(p)'
    BY <1>1, <2>1, <2>2 DEF SavingInv, Shape, Follows, Retired, Off
  <2>8. SettledInv(p)'
    BY <2>2 DEF SettledInv
  <2> QED  BY <1>1, <2>1, <2>4, <2>5, <2>6, <2>7, <2>8, SectionDenial DEF StoreInv
<1>4. CASE phase[p] \in {"syncdir", "unsave"}
  <2>1. /\ store.now = next[p] /\ store.disk = {backup[p], next[p]}
        /\ st[p] = IF backup[p] = None THEN Empty ELSE backup[p]
    BY <1>4 DEF DenialInv, SavingInv
  <2>2. ASSUME NEW e \in store.disk, store' = Synced(e), denied' = denied
        PROVE  StoreInv'
    BY <1>1, <2>2, SingleEnvelope
  <2>3. CASE SyncDir(p)
    <3>1. StoreInv'
      BY <2>1, <2>2, <2>3 DEF SyncDir, ghosts
    <3>2. PICK w \in {"append", "reply", "decide"} :
            Goto(p, w) /\ (w \in {"reply", "decide"} => next[p].pend = None)
      BY <2>3 DEF SyncDir
    <3>3. /\ phase'[p] = w /\ st'[p] = next[p] /\ store'.now = next[p]
          /\ \A q \in Procs \ {p} : st'[q] = st[q]
      BY <2>3, <3>2 DEF SyncDir, Synced, DenialInv, TypeInv, TypeOK, Goto
    <3>4. SavingInv(p)' /\ SettledInv(p)'
      BY <1>1, <3>2, <3>3 DEF SavingInv, SettledInv
    <3> QED  BY <1>1, <3>1, <3>2, <3>3, <3>4, SectionDenial
  <2>4. CASE UnlinkFails(p)
    <3>1. StoreInv' /\ Leave(p)
      BY <2>1, <2>2, <2>4 DEF UnlinkFails, Abandon, ghosts
    <3> QED  BY <1>1, <3>1, LeaveDenial
  <2>5. CASE Unsave(p)
    <3>1. StoreInv' /\ Leave(p)
      BY <2>1, <2>2, <2>5 DEF Unsave, Abandon, ghosts
    <3> QED  BY <1>1, <3>1, LeaveDenial
  <2>6. CASE SyncDirFails(p)
    <3>1. Goto(p, "unsave") /\ UNCHANGED <<store, denied, st, next, backup>>
      BY <2>6 DEF SyncDirFails, section, ghosts
    <3>2. phase'[p] = "unsave"
      BY <3>1 DEF DenialInv, TypeInv, TypeOK, Goto
    <3>3. SavingInv(p)' /\ SettledInv(p)'
      BY <1>1, <2>1, <3>1, <3>2
      DEF SavingInv, SettledInv, Shape, Follows, Retired, Off
    <3>4. StoreInv'
      BY <3>1, StoreStable DEF DenialInv, StoreInv
    <3> QED  BY <1>1, <3>1, <3>3, <3>4, SectionDenial
  <2>7. CASE UnsaveFails(p)
    <3>1. Leave(p) /\ denied' = denied /\ store' \in {store, Renamed(store, backup[p])}
      BY <2>7 DEF UnsaveFails, Abandon, ghosts
    <3>2. CASE store' = store
      BY <1>1, <3>1, <3>2, StoreStable, LeaveDenial DEF DenialInv, StoreInv
    <3>3. CASE store' = Renamed(store, backup[p])
      <4>1. store'.now = backup[p] /\ store'.disk = store.disk
        BY <2>1, <3>3 DEF Renamed
      <4>2. DiskInv'
        BY <1>1, <2>1, <3>1, <4>1 DEF DiskInv, Shape, Retired, Off
      <4>3. CleanInv'
        <5> SUFFICES ASSUME backup[p] # None, backup[p].pend = None,
                            NEW g \in Grants, Off(g, backup[p].grants)
                     PROVE  \A e \in store.disk : Retired(e, g)
          BY <4>1 DEF CleanInv, Retired, Off
        <5>1. Retired(next[p], g)
          BY <1>1, <2>1 DEF Follows
        <5>2. Retired(backup[p], g)
          BY DEF Retired
        <5> QED  BY <2>1, <5>1, <5>2
      <4> QED  BY <1>1, <3>1, <4>2, <4>3, LeaveDenial DEF StoreInv
    <3> QED  BY <3>1, <3>2, <3>3
  <2> QED  BY <1>2, <1>3, <2>3, <2>4, <2>5, <2>6, <2>7
<1>5. CASE phase[p] = "save"
  BY <1>2, <1>3, <1>5 DEF SyncDir, Unsave, UnlinkFails, SyncDirFails, UnsaveFails
<1> QED  BY <1>1, <1>4, <1>5

(***************************************************************************)
(* Appending a receipt or a note leaves the envelopes alone.               *)
(***************************************************************************)
LEMMA AppendDenial ==
  ASSUME DenialInv, TypeInv', NEW p \in Procs,
         \/ Write(p) \/ WriteFails(p) \/ Fsync(p) \/ FsyncFails(p)
         \/ Truncate(p) \/ Resync(p) \/ RollbackFails(p)
  PROVE  DenialInv'
<1>1. /\ phase[p] \in {"append", "lease", "refused", "fsync", "truncate", "resync"}
      /\ InSection(p) /\ st[p] \in Envelopes /\ st = [st EXCEPT ![p] = st[p]]
      /\ st[p] = IF store.now = None THEN Empty ELSE store.now
      /\ store.now \in store.disk /\ Shape(store.now)
  BY DEF Write, WriteFails, Fsync, FsyncFails, Truncate, Resync, RollbackFails,
         Appending, InSection, DenialInv, SettledInv, DiskInv, TypeInv, TypeOK
<1>2. ASSUME NEW w \in {"fsync", "truncate", "resync"}, Goto(p, w),
             UNCHANGED <<store, denied, st>>
      PROVE  DenialInv'
  BY <1>1, <1>2, SettledDenial
<1>3. CASE Write(p)
  BY <1>1, <1>2, <1>3, AbandonDenial DEF Write, ghosts
<1>4. CASE WriteFails(p)
  BY <1>2, <1>4 DEF WriteFails, ghosts
<1>5. CASE Fsync(p)
  <2>1. CASE st[p].pend = None
    BY <1>1, <1>5, <2>1, SettledDenial DEF Fsync, ghosts
  <2>2. CASE st[p].pend # None
    <3>1. st[p] = store.now /\ store.now # None
      BY <1>1, <2>2, EmptyFacts
    <3>2. Shape(Final(st[p])) /\ Follows(st[p], Final(st[p]))
      BY <1>1, <2>2, <3>1, FinalFacts DEF Shape, Follows
    <3> QED  BY <1>1, <1>5, <2>2, <3>1, <3>2, FinalFacts, RecoverDenial
             DEF Fsync, ghosts
  <2> QED  BY <2>1, <2>2
<1>6. CASE FsyncFails(p)
  BY <1>2, <1>6 DEF FsyncFails, section, ghosts
<1>7. CASE Truncate(p)
  BY <1>2, <1>7 DEF Truncate, section, ghosts
<1>8. CASE Resync(p)
  BY <1>1, <1>8, AbandonDenial DEF Resync
<1>9. CASE RollbackFails(p)
  BY <1>1, <1>9, AbandonDenial DEF RollbackFails
<1> QED  BY <1>3, <1>4, <1>5, <1>6, <1>7, <1>8, <1>9

(***************************************************************************)
(* Requests, and what stops them.                                          *)
(***************************************************************************)
LEMMA WaitingDenial ==
  ASSUME DenialInv, TypeInv', NEW p \in Procs, Begin(p) \/ Acquire(p)
  PROVE  DenialInv'
<1>1. PICK w \in {"waiting", "reload"} : Goto(p, w)
  BY DEF Begin, Acquire
<1>2. /\ phase[p] \in {"idle", "waiting"}
      /\ UNCHANGED <<store, st, next, backup, denied>>
  BY DEF Begin, Acquire, section, ghosts
<1>3. phase'[p] = w /\ \A q \in Procs \ {p} : phase'[q] = phase[q]
  BY <1>1 DEF DenialInv, TypeInv, TypeOK, Goto
<1>4. StoreInv'
  BY <1>2, StoreStable DEF DenialInv, StoreInv
<1>5. ASSUME NEW q \in Procs \ {p} PROVE SavingInv(q)' /\ SettledInv(q)'
  BY <1>2, <1>3 DEF DenialInv, SavingInv, SettledInv, Shape, Follows, Retired, Off
<1>6. SavingInv(p)' /\ SettledInv(p)'
  BY <1>2, <1>3 DEF DenialInv, SavingInv, SettledInv
<1> QED  BY <1>4, <1>5, <1>6 DEF DenialInv, StoreInv

\* What a section answers from is clean, so all that may survive agrees.
LEMMA ReplyDenial ==
  ASSUME DenialInv, TypeInv', NEW p \in Procs, Reply(p)
  PROVE  DenialInv'
<1>1. /\ phase[p] = "reply" /\ InSection(p) /\ Leave(p) /\ store' = store
      /\ st[p].pend = None /\ st[p].grants \in Tables
      /\ st[p] = IF store.now = None THEN Empty ELSE store.now
  BY EnvelopeFacts DEF Reply, InSection, DenialInv, SettledInv, TypeInv, TypeOK
<1>2. \A g \in denied' : g \in denied \/ (g \in Grants /\ Off(g, st[p].grants))
  BY <1>1, TableFacts DEF Reply, ActiveIn, Off
<1>3. \A g \in denied' : \A e \in store.disk : Retired(e, g)
  <2> SUFFICES ASSUME NEW g \in Grants, Off(g, st[p].grants)
               PROVE  \A e \in store.disk : Retired(e, g)
    BY <1>2 DEF DenialInv, DiskInv
  <2>1. store.now # None /\ st[p] = store.now
    BY <1>1, EmptyFacts DEF Off
  <2> QED  BY <1>1, <2>1 DEF DenialInv, CleanInv
<1>4. StoreInv'
  BY <1>1, <1>3 DEF DenialInv, StoreInv, DiskInv, CleanInv, Shape, Retired, Off
<1> QED  BY <1>1, <1>4, LeaveDenial

LEMMA PowerLossDenial ==
  ASSUME DenialInv, TypeInv', PowerLoss
  PROVE  DenialInv'
<1>1. PICK e \in store.disk : store' = Synced(e)
  BY DEF PowerLoss, AfterPowerLoss
<1>2. /\ \A q \in Procs : phase'[q] = "idle" /\ st'[q] = Empty
      /\ denied' = denied
  BY DEF PowerLoss, ghosts
<1>3. StoreInv'
  BY <1>1, <1>2, SingleEnvelope DEF DenialInv, DiskInv
<1>4. \A q \in Procs : SavingInv(q)' /\ SettledInv(q)'
  BY <1>2 DEF SavingInv, SettledInv
<1> QED  BY <1>3, <1>4 DEF DenialInv, StoreInv

LEMMA DenialStep ==
  ASSUME DenialInv, [Next]_vars, ~StoreLost
  PROVE  DenialInv'
<1>1. TypeInv'
  BY TypeStep DEF DenialInv
<1>2. CASE UNCHANGED vars \/ Tick
  <2>1. UNCHANGED <<store, phase, st, next, backup, denied>>
    BY <1>2 DEF vars, section, ghosts, Tick
  <2>2. StoreInv'
    BY <2>1, StoreStable DEF DenialInv, StoreInv
  <2> QED  BY <1>1, <2>1, <2>2 DEF DenialInv, StoreInv, SavingInv, SettledInv,
                                  Shape, Follows, Retired, Off
<1>3. ASSUME NEW p \in Procs, Begin(p) \/ Acquire(p) PROVE DenialInv'
  BY <1>1, <1>3, WaitingDenial
<1>4. ASSUME NEW p \in Procs, Work(p) PROVE DenialInv'
  BY <1>1, <1>4, ReloadDenial, DecideDenial, SaveDenial, AppendDenial, ReplyDenial
  DEF Work
<1>5. ASSUME NEW p \in Procs, Fault(p) PROVE DenialInv'
  BY <1>1, <1>5, SaveDenial, AppendDenial DEF Fault
<1>6. ASSUME NEW p \in Procs, Crash(p) PROVE DenialInv'
  BY <1>1, <1>6, AbandonDenial DEF Crash
<1>7. CASE PowerLoss
  BY <1>1, <1>7, PowerLossDenial
<1> QED  BY <1>2, <1>3, <1>4, <1>5, <1>6, <1>7 DEF Next

LEMMA DenialInit == Init => DenialInv
<1> SUFFICES ASSUME Init PROVE DenialInv
  OBVIOUS
<1>1. TypeInv
  BY TypeInit
<1>2. /\ store.now = None /\ store.disk = {None} /\ denied = {}
      /\ \A p \in Procs : phase[p] = "idle" /\ st[p] = Empty
  BY DEF Init, Synced
<1> QED  BY <1>1, <1>2 DEF DenialInv, DiskInv, CleanInv, Shape, SavingInv, SettledInv

LEMMA DenialImplies == DenialInv => NoUseAfterDenial
<1> SUFFICES ASSUME DenialInv, NEW p \in Procs, InUse(p), job[p].grant \in denied
             PROVE  FALSE
  BY DEF NoUseAfterDenial
<1>1. st[p] = IF store.now = None THEN Empty ELSE store.now
  BY DEF InUse, DenialInv, SettledInv
<1>2. Retired(store.now, job[p].grant)
  BY DEF DenialInv, DiskInv
<1>3. st[p].grants[job[p].grant] # "ACTIVE"
  BY <1>1, <1>2 DEF Retired, Off
<1> QED  BY <1>3 DEF InUse, Verdict, Decision

\* Nothing else counts as a loss of the store.
LEMMA LossesKept ==
  ASSUME TypeInv, [Next]_vars, ~StoreLost
  PROVE  used'["losses"] = used["losses"]
<1>1. used \in [{"faults", "crashes", "outages", "losses"} -> Nat]
  BY DEF TypeInv, TypeOK
<1>2. CASE used' = used
  BY <1>2
<1>3. CASE Spend("faults") \/ Spend("crashes") \/ Spend("outages")
  BY <1>1, <1>3 DEF Spend
<1>4. ASSUME NEW p \in Procs, Work(p) PROVE used' = used
  <2>1. CASE \/ StartEmpty(p) \/ Bootstrap(p) \/ LoadClean(p) \/ RecoverPresent(p)
             \/ RecoverAbort(p) \/ RecoverAppend(p) \/ RefuseReload(p)
    BY <2>1 DEF StartEmpty, Bootstrap, LoadClean, Loads, RecoverPresent,
       RecoverAbort, RecoverAppend, RefuseReload, Commit
  <2>2. CASE \/ Ensure(p) \/ ExpireDue(p) \/ Snapshot(p) \/ UseUnauthenticated(p)
             \/ UseAllowed(p) \/ UseRefused(p) \/ UseExpired(p) \/ IssueRefused(p)
             \/ Issue(p) \/ RevokeUnchanged(p) \/ Revoke(p) \/ SuspendAll(p)
    BY <2>2 DEF Ensure, ExpireDue, Snapshot, UseUnauthenticated, UseAllowed,
       UseRefused, UseExpired, IssueRefused, Issue, RevokeUnchanged, Revoke, SuspendAll,
       MoveTo, Restricts, Commit
  <2>3. CASE \/ Replace(p) \/ SyncDir(p) \/ Unsave(p) \/ Write(p) \/ Fsync(p)
             \/ Truncate(p) \/ Resync(p) \/ Reply(p)
    BY <2>3 DEF Replace, SyncDir, Unsave, Write, Fsync, Truncate, Resync, Reply
  <2> QED  BY <1>4, <2>1, <2>2, <2>3 DEF Work
<1>5. ASSUME NEW p \in Procs, Fault(p) \/ Crash(p)
      PROVE  Spend("faults") \/ Spend("crashes")
  BY <1>5 DEF Fault, SaveFails, UnlinkFails, SyncDirFails, UnsaveFails, WriteFails,
              FsyncFails, RollbackFails, Crash
<1>6. CASE Tick \/ UNCHANGED vars \/ \E p \in Procs : Begin(p) \/ Acquire(p)
  BY <1>2, <1>6 DEF Tick, vars, Begin, Acquire
<1>7. CASE PowerLoss
  BY <1>3, <1>7 DEF PowerLoss
<1> QED  BY <1>2, <1>3, <1>4, <1>5, <1>6, <1>7 DEF Next

LEMMA LossesCounted ==
  ASSUME TypeInv, [Next]_vars, used'["losses"] = 0
  PROVE  used["losses"] = 0 /\ ~StoreLost
<1>1. used["losses"] \in Nat
  BY DEF TypeInv, TypeOK
<1>2. ~StoreLost
  BY <1>1 DEF StoreLost, Spend, TypeInv, TypeOK
<1> QED  BY <1>2, LossesKept

\* The argument holds for as long as the store is there.
LEMMA DenialInvariant == Spec => [](used["losses"] = 0 => DenialInv)
<1>1. TypeInv /\ (used["losses"] = 0 => DenialInv) /\ [Next]_vars
      => (used["losses"] = 0 => DenialInv)'
  <2> SUFFICES ASSUME TypeInv, used["losses"] = 0 => DenialInv, [Next]_vars,
                      used'["losses"] = 0
               PROVE  DenialInv'
    OBVIOUS
  <2> QED  BY LossesCounted, DenialStep
<1> QED  BY <1>1, DenialInit, TypeInvariant, PTL DEF Spec

\* A grant that any answered request saw revoked, suspended or expired is never
\* leased to a command again, as long as nobody removes the grant envelope.
THEOREM DenialIsFinal ==
  ASSUME Budget["losses"] = 0
  PROVE  Spec => []NoUseAfterDenial
<1>1. Init => used["losses"] = 0
  BY BudgetAssumption DEF Init
<1>2. TypeInv /\ used["losses"] = 0 /\ [Next]_vars => (used["losses"] = 0)'
  <2> SUFFICES ASSUME TypeInv, used["losses"] = 0, [Next]_vars
               PROVE  used'["losses"] = 0
    OBVIOUS
  <2>1. ~StoreLost
    BY DEF StoreLost, Spend
  <2> QED  BY <2>1, LossesKept
<1>3. DenialInv => NoUseAfterDenial
  BY DenialImplies
<1> QED  BY <1>1, <1>2, <1>3, DenialInvariant, TypeInvariant, PTL DEF Spec

(***************************************************************************)
(* The authority is one registry.  Its table moves only where a section    *)
(* has renamed its envelope into place: from the envelope the section had  *)
(* loaded to the one it saves, which is one operation away or none         *)
(* (Succeeds, Made).  Whoever is in its section is alone with the table,   *)
(* and one that saves holds no lease.                                      *)
(***************************************************************************)
Unsettled(p) == phase[p] \in {"syncdir", "unsave"}

\* n begins a transaction over e, or it finishes or undoes e's.
Succeeds(e, n) ==
  IF e.pend = None THEN n.pend # None /\ n.rev = e.rev /\ n.wit = e.wit
  ELSE n.grants \in {e.grants, e.pend.target}

\* What e's pending transaction adds or restricts.
Made(e) ==
  e.pend # None =>
    CASE e.pend.kind = "demo_seed" -> DOMAIN e.pend.target = Seeds
      [] e.pend.kind = "issue" ->
           \E g \in Grants : DOMAIN e.pend.target \ DOMAIN e.grants = {g}
      [] e.pend.kind \in {"revoke", "expire"} -> \E g : DOMAIN e.pend.prev = {g}
      [] e.pend.kind = "suspend_all" -> TRUE

RegistryInv ==
  /\ \A p \in Procs : phase[p] \in Saving => Succeeds(st[p], next[p])
  /\ \A e \in Live : Made(e)
  /\ used["losses"] = 0 /\ issued # {} => None \notin store.disk

LEMMA MadeOf ==
  ASSUME TypeInv, PlacesInv, NEW e, Begun(e)
  PROVE  Made(e)
<1>1. PICK p \in Procs, kind \in Kinds, target \in Tables, prev \in Tables,
           agent \in Grants \cup {NoGrant} :
        /\ Opens(p, kind, target, prev, agent)
        /\ e = Prepared(st[p], kind, target, prev, agent)
  BY DEF Begun
<1>2. st[p] \in Envelopes /\ st[p].grants \in Tables
  BY EnvelopeFacts DEF TypeInv, TypeOK
<1>3. /\ e.pend # None /\ e.pend.kind = kind /\ e.pend.target = target
      /\ e.pend.prev = prev /\ e.grants = Effective(kind, st[p].grants, target)
  BY <1>1, <1>2, PreparedFields
<1>4. CASE kind = "demo_seed"
  <2>1. target = With(NoTable, Seeds, "ACTIVE")
    BY <1>1, <1>4 DEF Opens
  <2>2. DOMAIN target = Seeds
    BY <2>1, EmptyFacts DEF With
  <2> QED  BY <1>3, <1>4, <2>2 DEF Made
<1>5. CASE kind = "issue"
  <2>1. /\ agent \in Grants \ DOMAIN st[p].grants
        /\ target = With(st[p].grants, {agent}, "ACTIVE")
    BY <1>1, <1>5 DEF Opens
  <2>2. DOMAIN target = DOMAIN st[p].grants \cup {agent}
    BY <2>1 DEF With
  <2>3. DOMAIN e.pend.target \ DOMAIN e.grants = {agent}
    BY <1>3, <1>5, <2>1, <2>2 DEF Effective
  <2> QED  BY <1>3, <1>5, <2>1, <2>3 DEF Made
<1>6. CASE kind \in {"revoke", "expire"}
  <2>1. prev = Only(st[p].grants, {agent})
    BY <1>1, <1>6 DEF Opens
  <2>2. DOMAIN prev = {agent}
    BY <2>1 DEF Only
  <2> QED  BY <1>3, <1>6, <2>2 DEF Made
<1>7. CASE kind = "suspend_all"
  BY <1>3, <1>7 DEF Made
<1> QED  BY <1>4, <1>5, <1>6, <1>7 DEF Kinds

LEMMA SucceedsStep ==
  ASSUME TypeInv, PlacesInv, RegistryInv, NEW p \in Procs, Advances(p),
         phase'[p] \in Saving
  PROVE  Succeeds(st'[p], next'[p])
<1>1. TypeOK /\ PlaceInv(p) /\ (phase[p] \in Saving => Succeeds(st[p], next[p]))
  BY DEF TypeInv, PlacesInv, RegistryInv
<1>2. ASSUME NEW w, Goto(p, w) PROVE phase'[p] = w
  BY <1>1, <1>2 DEF Goto, TypeOK
<1>3. CASE Replace(p) \/ SyncDirFails(p)
  BY <1>1, <1>3 DEF Replace, SyncDirFails, Saving, section, Succeeds
<1>4. CASE RecoverPresent(p) \/ RecoverAbort(p)
  <2>1. /\ st'[p] = store.now /\ store.now \in Envelopes /\ store.now.pend # None
        /\ next'[p] \in {Final(store.now), Aborted(store.now)}
    BY <1>1, <1>4 DEF RecoverPresent, RecoverAbort, Recoverable, TypeOK
  <2> QED  BY <2>1, FinalFacts DEF Succeeds
<1>5. CASE Fsync(p)
  <2>1. /\ st'[p] = st[p] /\ st[p] \in Envelopes
        /\ st[p].pend # None /\ next'[p] = Final(st[p])
    BY <1>1, <1>2, <1>5 DEF Fsync, Saving, TypeOK
  <2> QED  BY <2>1, FinalFacts DEF Succeeds
<1>6. ASSUME NEW kind \in Kinds, NEW target \in Tables, NEW prev \in Tables,
             NEW agent \in Grants \cup {NoGrant}, Opens(p, kind, target, prev, agent)
      PROVE  Succeeds(st'[p], next'[p])
  <2>1. PICK e : e = Prepared(st[p], kind, target, prev, agent)
    OBVIOUS
  <2>2. st'[p] = st[p] /\ st[p] \in Envelopes /\ st[p].pend = None /\ next'[p] = e
    BY <1>1, <1>6, <2>1 DEF Opens, Commit, TypeOK
  <2>3. e.pend # None /\ e.rev = st[p].rev /\ e.wit = st[p].wit
    BY <2>1, <2>2, PreparedFields
  <2> QED  BY <2>2, <2>3 DEF Succeeds
<1>7. CASE \/ StartEmpty(p) \/ LoadClean(p) \/ Decides(p) \/ RecoverAppend(p)
           \/ SyncDir(p) \/ Writes(p) \/ WriteFails(p) \/ FsyncFails(p) \/ Truncate(p)
  <2>1. phase'[p] \in {"decide", "lease", "refused", "reply", "append", "fsync",
                       "truncate", "resync"}
    BY <1>2, <1>7 DEF StartEmpty, LoadClean, Loads, Decides, MoveTo, RecoverAppend, SyncDir,
                      Writes, Write, WriteFails, FsyncFails, Truncate
  <2> QED  BY <2>1 DEF Saving
<1> QED  BY <1>3, <1>4, <1>5, <1>6, <1>7 DEF Advances

\* Only the store's loss takes the envelope away.
LEMMA DiskGrows ==
  ASSUME TypeInv, PlacesInv, [Next]_vars, ~StoreLost, None \in store'.disk
  PROVE  None \in store.disk
<1>1. CASE store' = store
  BY <1>1
<1>2. ASSUME NEW p \in Procs,
             \/ Replace(p) \/ SyncDir(p) \/ UnlinkFails(p) \/ Unsave(p) \/ UnsaveFails(p)
      PROVE  None \in store.disk
  <2>1. /\ next[p] # None /\ store.now \in store.disk
        /\ Unsettled(p) => store.disk = {backup[p], next[p]}
    BY EnvelopeFacts DEF TypeInv, TypeOK, PlacesInv, PlaceInv, Unsettled
  <2> QED  BY <1>2, <2>1 DEF Replace, SyncDir, UnlinkFails, Unsave, UnsaveFails,
                             Unsettled, Renamed, Synced
<1>3. CASE PowerLoss
  BY <1>3 DEF PowerLoss, AfterPowerLoss, Synced
<1>4. ASSUME NEW p \in Procs, Work(p) PROVE None \in store.disk
  <2>1. CASE \/ StartEmpty(p) \/ Bootstrap(p) \/ LoadClean(p) \/ RecoverPresent(p)
             \/ RecoverAbort(p) \/ RecoverAppend(p) \/ RefuseReload(p)
    BY <1>1, <2>1 DEF StartEmpty, Bootstrap, LoadClean, Loads, RecoverPresent,
       RecoverAbort, RecoverAppend, RefuseReload, Commit
  <2>2. CASE \/ Ensure(p) \/ ExpireDue(p) \/ Snapshot(p) \/ UseUnauthenticated(p)
             \/ UseAllowed(p) \/ UseRefused(p) \/ UseExpired(p) \/ IssueRefused(p)
             \/ Issue(p) \/ RevokeUnchanged(p) \/ Revoke(p) \/ SuspendAll(p)
    BY <1>1, <2>2 DEF Ensure, ExpireDue, Snapshot, UseUnauthenticated, UseAllowed,
       UseRefused, UseExpired, IssueRefused, Issue, RevokeUnchanged, Revoke, SuspendAll,
       MoveTo, Restricts, Commit
  <2>3. CASE Write(p) \/ Fsync(p) \/ Truncate(p) \/ Resync(p) \/ Reply(p)
    BY <1>1, <2>3 DEF Write, Fsync, Truncate, Resync, Reply
  <2> QED  BY <1>2, <1>4, <2>1, <2>2, <2>3 DEF Work
<1>5. ASSUME NEW p \in Procs, Fault(p) \/ Crash(p) PROVE None \in store.disk
  <2>1. CASE \/ SaveFails(p) \/ SyncDirFails(p) \/ WriteFails(p) \/ FsyncFails(p)
             \/ RollbackFails(p) \/ Crash(p)
    BY <1>1, <2>1 DEF SaveFails, SyncDirFails, WriteFails, FsyncFails, RollbackFails, Crash
  <2> QED  BY <1>2, <1>5, <2>1 DEF Fault
<1>6. CASE Tick \/ UNCHANGED vars \/ \E p \in Procs : Begin(p) \/ Acquire(p)
  BY <1>1, <1>6 DEF Tick, vars, Begin, Acquire
<1> QED  BY <1>3, <1>4, <1>5, <1>6 DEF Next

LEMMA RegistryInvStep ==
  ASSUME GoodInv, IssuedInv, RegistryInv, [Next]_vars
  PROVE  RegistryInv'
<1>1. TypeInv /\ PlacesInv /\ Steps
  BY GoodStep DEF GoodInv
<1>2. ASSUME NEW p \in Procs, phase'[p] \in Saving PROVE Succeeds(st[p], next[p])'
  <2>1. CASE Idles
    BY <1>2, <2>1 DEF Idles, RegistryInv, Succeeds, Saving, Outside
  <2>2. CASE Rests
    BY <1>2, <2>2 DEF Rests, Saving, Outside
  <2>3. ASSUME NEW q \in Procs, Advances(q) PROVE Succeeds(st'[p], next'[p])
    <3>1. p = q
      BY <1>2, <2>3 DEF Advances, Saving, Outside
    <3> QED  BY <1>1, <1>2, <2>3, <3>1, SucceedsStep
  <2> QED  BY <1>1, <2>1, <2>2, <2>3 DEF Steps, Succeeds
<1>3. ASSUME NEW e \in Live' PROVE Made(e)'
  <2>1. e \in Live \/ e = Empty \/ Begun(e) \/ Ended(e)
    BY <1>1, EnvelopesGrow
  <2>2. Ended(e) => e.pend = None
    BY <1>1, LiveFacts, FinalFacts DEF Ended
  <2>3. Made(e)
    BY <1>1, <2>1, <2>2, MadeOf, EmptyFacts DEF RegistryInv, Made
  <2> QED  BY <2>3 DEF Made
<1>4. ASSUME used'["losses"] = 0, issued' # {}, None \in store'.disk PROVE FALSE
  <2>1. used["losses"] = 0 /\ ~StoreLost
    BY <1>1, <1>4, LossesCounted
  <2>2. None \in store.disk
    BY <1>1, <1>4, <2>1, DiskGrows
  <2>3. issued = {}
    BY <2>1, <2>2 DEF RegistryInv
  <2>4. PICK p \in Procs : Reply(p)
    BY <1>1, <1>4, <2>3, KeptAdvance DEF Steps, Idles, Rests
  <2>5. own[p] /\ job[p].op = "issue" /\ phase[p] = "reply"
    BY <1>4, <2>3, <2>4 DEF Reply
  <2>6. store.disk = {st[p]} /\ st[p] \in Envelopes
    BY <1>1, <2>5 DEF IssuedInv, OwnIn, TypeInv, TypeOK
  <2> QED  BY <2>2, <2>6, EnvelopeFacts
<1> QED  BY <1>2, <1>3, <1>4 DEF RegistryInv

(***************************************************************************)
(* The table and the leases, before and after a step.                      *)
(***************************************************************************)
LEMMA TableNow ==
  ASSUME TypeInv, PlacesInv
  PROVE  /\ \A p \in Procs : phase[p] \notin Outside => Table = st[p].grants
         /\ (\A p \in Procs : ~Unsettled(p)) => Table = Current.grants
<1>1. \A p \in Procs : Unsettled(p) => Table = st[p].grants
  BY NoneAssumption DEF TypeInv, LockInv, InSection, Unsettled, Table
<1>2. (\A p \in Procs : ~Unsettled(p)) => Table = Current.grants
  BY DEF TypeInv, TypeOK, Unsettled, Table, Current
<1>3. ASSUME NEW p \in Procs, phase[p] \notin Outside, ~Unsettled(p)
      PROVE  Table = st[p].grants
  <2>1. \A q \in Procs : ~Unsettled(q)
    BY <1>3 DEF TypeInv, LockInv, InSection, Unsettled, Outside
  <2> QED  BY <1>2, <1>3, <2>1 DEF PlacesInv, PlaceInv, Unsettled
<1> QED  BY <1>1, <1>2, <1>3

LEMMA TableNext ==
  ASSUME TypeInv', PlacesInv'
  PROVE  /\ \A p \in Procs : phase'[p] \notin Outside => Table' = st'[p].grants
         /\ (\A p \in Procs : ~Unsettled(p)') => Table' = Current'.grants
<1>1. \A p \in Procs : Unsettled(p)' => Table' = st'[p].grants
  BY NoneAssumption DEF TypeInv, LockInv, InSection, Unsettled, Table
<1>2. (\A p \in Procs : ~Unsettled(p)') => Table' = Current'.grants
  BY DEF TypeInv, TypeOK, Unsettled, Table, Current
<1>3. ASSUME NEW p \in Procs, phase'[p] \notin Outside, ~Unsettled(p)'
      PROVE  Table' = st'[p].grants
  <2>1. \A q \in Procs : ~Unsettled(q)'
    BY <1>3 DEF TypeInv, LockInv, InSection, Unsettled, Outside
  <2>2. st'[p] = Current'
    BY <1>3 DEF PlacesInv, PlaceInv, Unsettled
  <2> QED  BY <1>2, <1>3, <2>1, <2>2
<1> QED  BY <1>1, <1>2, <1>3

\* A lease is of an active grant.
LEMMA LeasedNext ==
  ASSUME TypeInv', PlacesInv', NEW p \in Procs, Leased(p)'
  PROVE  job'[p].grant \in DOMAIN Table' /\ Table'[job'[p].grant] = "ACTIVE"
<1>1. /\ phase'[p] \in {"lease", "fsync", "truncate", "resync", "reply"}
      /\ Known(p)' /\ Verdict(p, job[p].grant)' = "allowed"
  BY DEF Leased, InUse
<1>2. Table' = st'[p].grants
  BY <1>1, TableNext DEF Outside
<1>3. job'[p].grant \in DOMAIN st'[p].grants
  BY <1>1 DEF Known
<1>4. st'[p].grants[job'[p].grant] = "ACTIVE"
  BY <1>1 DEF Verdict, Decision
<1> QED  BY <1>2, <1>3, <1>4

\* Where the table stays, a step of p is a stutter, or its lease begins or ends.
LEMMA LeaseStep ==
  ASSUME TypeInv', PlacesInv', NEW p \in Procs, Table' = Table,
         UNCHANGED <<denied, issued>>, UNCHANGED Registry!lost,
         \A q \in Procs \ {p} : ~Leased(q) /\ ~Leased(q)'
  PROVE  Registry!Next
<1>1. \A q \in Procs \ {p} : Leases[q] = NoGrant /\ Leases'[q] = NoGrant
  BY DEF Leases
<1>2. Leases' = [Leases EXCEPT ![p] = Leases'[p]]
  BY <1>1 DEF Leases
<1>3. CASE Leased(p)'
  <2>1. Leases'[p] = job'[p].grant
    BY <1>3 DEF Leases
  <2>2. job'[p].grant \in Registry!Active
    BY <1>3, LeasedNext DEF Registry!Active
  <2> QED  BY <1>2, <2>1, <2>2 DEF Registry!Next, Registry!Lease
<1>4. CASE ~Leased(p)'
  <2>1. Leases'[p] = NoGrant
    BY <1>4 DEF Leases
  <2> QED  BY <1>2, <2>1 DEF Registry!Next, Registry!Drop
<1> QED  BY <1>3, <1>4

(***************************************************************************)
(* From the envelope a section loaded to the one it saves is one operation *)
(* on the table, or none.                                                  *)
(***************************************************************************)
Operation ==
  \/ Registry!Issue \/ Registry!Provision \/ Registry!Revoke \/ Registry!Expire
  \/ Registry!SuspendAll

LEMMA RestrictedTable ==
  ASSUME NEW e \in Envelopes, NEW n \in Envelopes, n.pend # None, Accepted(n), Made(n),
         n.pend.kind \notin {"issue", "demo_seed"}, BaseTable(n) = e.grants,
         Table = e.grants, Table' = n.grants
  PROVE  Operation
<1> DEFINE kind == n.pend.kind
           changed == DOMAIN n.pend.prev
<1>1. RestrictionAccepted(n) /\ kind \in {"revoke", "expire", "suspend_all"}
  BY EnvelopeFacts DEF Accepted, Kinds
<1>2. n.grants \in Tables /\ e.grants \in Tables
  BY EnvelopeFacts
<1>3. BaseTable(n) = [g \in DOMAIN n.grants |->
                        IF g \in changed THEN n.pend.prev[g] ELSE n.grants[g]]
  BY <1>1 DEF BaseTable, RestrictionAccepted
<1>4. /\ DOMAIN e.grants = DOMAIN n.grants /\ changed \subseteq DOMAIN n.grants
      /\ \A g \in DOMAIN n.grants \ changed : e.grants[g] = n.grants[g]
      /\ \A g \in changed : e.grants[g] \in From(kind) /\ n.grants[g] = To(kind)
  <2>1. /\ \A g \in changed : n.pend.prev[g] \in From(kind) /\ n.grants[g] = To(kind)
        /\ changed \subseteq DOMAIN n.grants
    BY <1>1 DEF RestrictionAccepted
  <2>2. e.grants = [g \in DOMAIN n.grants |->
                      IF g \in changed THEN n.pend.prev[g] ELSE n.grants[g]]
    BY <1>3
  <2> QED  BY <2>1, <2>2
<1>5. ASSUME NEW g, changed = {g}, kind # "suspend_all"
      PROVE  /\ g \in DOMAIN Table /\ Table[g] \in From(kind)
             /\ Table' = [Table EXCEPT ![g] = To(kind)]
  <2>1. g \in DOMAIN e.grants /\ e.grants[g] \in From(kind)
    BY <1>4, <1>5
  <2> DEFINE u == [e.grants EXCEPT ![g] = To(kind)]
  <2>2. DOMAIN u = DOMAIN n.grants /\ u = [h \in DOMAIN u |-> u[h]]
    BY <1>4
  <2>3. \A h \in DOMAIN n.grants : n.grants[h] = u[h]
    BY <1>4, <1>5
  <2>4. n.grants = u
    BY <1>2, <2>2, <2>3, SameTable
  <2> QED  BY <2>1, <2>4
<1>6. CASE kind = "revoke"
  <2>1. PICK g : changed = {g}
    BY <1>6 DEF Made
  <2> QED  BY <1>5, <1>6, <2>1 DEF Operation, Registry!Revoke, From, To
<1>7. CASE kind = "expire"
  <2>1. PICK g : changed = {g}
    BY <1>7 DEF Made
  <2> QED  BY <1>5, <1>7, <2>1 DEF Operation, Registry!Expire, Registry!Active, From, To
<1>8. CASE kind = "suspend_all"
  <2> DEFINE u == [g \in DOMAIN e.grants |->
                     IF g \in Registry!Active THEN "SUSPENDED" ELSE e.grants[g]]
  <2>1. ActiveIn(n.grants) = {}
    BY <1>1, <1>8 DEF RestrictionAccepted
  <2>2. \A g \in DOMAIN n.grants : n.grants[g] = u[g]
    BY <1>4, <1>8, <2>1 DEF Registry!Active, ActiveIn, From, To
  <2>3. DOMAIN u = DOMAIN n.grants /\ u = [h \in DOMAIN u |-> u[h]]
    BY <1>4
  <2>4. n.grants = u
    BY <1>2, <2>2, <2>3, SameTable
  <2> QED  BY <2>4 DEF Operation, Registry!SuspendAll
<1> QED  BY <1>1, <1>6, <1>7, <1>8

LEMMA AddedTable ==
  ASSUME NEW e \in Envelopes, NEW n \in Envelopes, e.pend # None, Accepted(e), Made(e),
         e.pend.kind \in {"issue", "demo_seed"}, n.grants = e.pend.target,
         Table = e.grants, Table' = n.grants
  PROVE  Operation
<1>1. AdditionAccepted(e) /\ n.grants \in Tables /\ e.grants \in Tables
  BY EnvelopeFacts DEF Accepted
<1>2. /\ DOMAIN e.grants \subseteq DOMAIN n.grants
      /\ e.grants = Only(n.grants, DOMAIN e.grants)
      /\ \A g \in DOMAIN n.grants \ DOMAIN e.grants : n.grants[g] = "ACTIVE"
  BY <1>1 DEF AdditionAccepted, ActiveIn
<1>3. \A g \in DOMAIN e.grants : n.grants[g] = e.grants[g]
  BY <1>2 DEF Only
<1>4. CASE e.pend.kind = "issue"
  <2>1. PICK g \in Grants : DOMAIN n.grants \ DOMAIN e.grants = {g}
    BY <1>4 DEF Made
  <2> DEFINE u == [h \in DOMAIN e.grants \cup {g} |-> IF h = g THEN "ACTIVE" ELSE e.grants[h]]
  <2>2. DOMAIN u = DOMAIN n.grants /\ u = [h \in DOMAIN u |-> u[h]]
    BY <1>2, <2>1
  <2>3. \A h \in DOMAIN n.grants : n.grants[h] = u[h]
    BY <1>2, <1>3, <2>1
  <2>4. n.grants = u
    BY <1>1, <2>2, <2>3, SameTable
  <2>5. g \in Grants \ DOMAIN e.grants
    BY <2>1
  <2> QED  BY <2>4, <2>5 DEF Operation, Registry!Issue
<1>5. CASE e.pend.kind = "demo_seed"
  <2> DEFINE u == [h \in Seeds |-> "ACTIVE"]
  <2>1. DOMAIN e.grants = {} /\ DOMAIN n.grants = Seeds
    BY <1>1, <1>5, EmptyFacts DEF AdditionAccepted, Made
  <2>2. DOMAIN u = DOMAIN n.grants /\ u = [h \in DOMAIN u |-> u[h]]
    BY <2>1
  <2>3. \A h \in DOMAIN n.grants : n.grants[h] = u[h]
    BY <1>2, <2>1
  <2>4. n.grants = u
    BY <1>1, <2>2, <2>3, SameTable
  <2> QED  BY <2>1, <2>4 DEF Operation, Registry!Provision
<1> QED  BY <1>4, <1>5

LEMMA Transition ==
  ASSUME NEW e \in Envelopes, NEW n \in Envelopes, Good(e), Good(n), Succeeds(e, n),
         Made(e), Made(n), Table = e.grants, Table' = n.grants
  PROVE  Table' = Table \/ Operation
<1>1. CASE e.pend = None
  <2>1. n.pend # None /\ Accepted(n)
    BY <1>1 DEF Succeeds, Good
  <2>2. BaseTable(n) = e.grants
    BY <1>1, <2>1 DEF Succeeds, Good, Accepted
  <2>3. CASE n.pend.kind \in {"issue", "demo_seed"}
    BY <2>2, <2>3 DEF BaseTable
  <2>4. CASE n.pend.kind \notin {"issue", "demo_seed"}
    BY <2>1, <2>2, <2>4, RestrictedTable
  <2> QED  BY <2>3, <2>4
<1>2. CASE e.pend # None
  <2>1. n.grants \in {e.grants, e.pend.target} /\ Accepted(e)
    BY <1>2 DEF Succeeds, Good
  <2>2. CASE e.pend.kind \in {"issue", "demo_seed"}
    BY <1>2, <2>1, <2>2, AddedTable
  <2>3. CASE e.pend.kind \notin {"issue", "demo_seed"}
    BY <1>2, <2>1, <2>3 DEF Accepted, RestrictionAccepted
  <2> QED  BY <2>2, <2>3
<1> QED  BY <1>1, <1>2

(***************************************************************************)
(* Every step is one of the registry's, or a stutter.                      *)
(***************************************************************************)
\* A failure or a crash loses nothing that was stored.
LEMMA FailuresSpent ==
  ASSUME TypeInv, NEW kind \in {"faults", "crashes"}, Spend(kind)
  PROVE  UNCHANGED Registry!lost
  BY DEF Spend, TypeInv, TypeOK, Registry!lost

\* Whoever is in its section is alone with the table and the leases.
LEMMA SectionAlone ==
  ASSUME TypeInv, NEW p \in Procs, InSection(p), NEW w, Goto(p, w)
  PROVE  /\ \A q \in Procs \ {p} : ~Leased(q) /\ ~Leased(q)'
         /\ \A q \in Procs \ {p} : ~Unsettled(q) /\ ~Unsettled(q)'
         /\ phase'[p] = w
<1>1. \A q \in Procs \ {p} : phase[q] \in {"idle", "waiting"} /\ phase'[q] = phase[q]
  BY DEF TypeInv, TypeOK, LockInv, InSection, Goto
<1> QED  BY <1>1 DEF Leased, InUse, Unsettled, Goto, TypeInv, TypeOK

\* A step that does not touch the store.
LEMMA StoreKept ==
  ASSUME TypeInv, TypeInv', PlacesInv, PlacesInv', NEW p \in Procs, InSection(p),
         NEW w, Goto(p, w), ~Unsettled(p), w \notin {"syncdir", "unsave"},
         store' = store, UNCHANGED ghosts, UNCHANGED Registry!lost
  PROVE  Registry!Next
<1>1. /\ \A q \in Procs \ {p} : ~Leased(q) /\ ~Leased(q)'
      /\ \A q \in Procs : ~Unsettled(q) /\ ~Unsettled(q)'
  BY SectionAlone DEF Unsettled
<1>2. Table = Current.grants /\ Table' = Current'.grants
  BY <1>1, TableNow, TableNext
<1>3. Current' = Current
  BY DEF Current
<1> QED  BY <1>1, <1>2, <1>3, LeaseStep DEF ghosts

\* A step that moves the table, while nobody holds a lease.
LEMMA TableMoves ==
  ASSUME GoodInv, RegistryInv, NEW p \in Procs, phase[p] \in Saving,
         \A q \in Procs : ~Leased(q) /\ ~Leased(q)',
         Table = st[p].grants, Table' \in {st[p].grants, next[p].grants},
         UNCHANGED ghosts, UNCHANGED Registry!lost
  PROVE  [Registry!Next]_(Registry!vars)
<1>1. Leases = Registry!Nothing /\ Leases' = Leases
  BY DEF Leases, Registry!Nothing
<1>2. CASE Table' = Table
  BY <1>1, <1>2 DEF ghosts, Registry!vars
<1>3. CASE Table' # Table
  <2>1. /\ st[p] \in Envelopes /\ next[p] \in Envelopes
        /\ Good(st[p]) /\ Good(next[p]) /\ Succeeds(st[p], next[p])
    BY HeldGood, LiveFacts DEF GoodInv, RegistryInv, TypeInv, TypeOK
  <2>2. Made(st[p]) /\ Made(next[p])
    BY LiveFacts, EmptyFacts DEF GoodInv, RegistryInv, Made
  <2>3. Operation
    BY <1>3, <2>1, <2>2, Transition
  <2> QED  BY <1>1, <2>3 DEF Operation, Registry!Next, Registry!Change, ghosts
<1> QED  BY <1>2, <1>3

LEMMA SavingSteps ==
  ASSUME GoodInv, TypeInv', PlacesInv', RegistryInv, NEW p \in Procs,
         \/ Replace(p) \/ SyncDir(p) \/ UnlinkFails(p) \/ SyncDirFails(p)
         \/ Unsave(p) \/ UnsaveFails(p) \/ (Unsettled(p) /\ Crash(p))
  PROVE  [Registry!Next]_(Registry!vars)
<1>1. /\ TypeInv /\ TypeOK /\ PlacesInv /\ PlaceInv(p) /\ InSection(p)
      /\ phase[p] \in Saving
  BY DEF GoodInv, TypeInv, PlacesInv, InSection, Replace, SyncDir, UnlinkFails,
         SyncDirFails, Unsave, UnsaveFails, Unsettled, Saving
<1>2. Table = st[p].grants /\ ~Leased(p)
  BY <1>1, TableNow DEF Outside, Saving, Leased, InUse
<1>3. Spend("faults") \/ Spend("crashes") => UNCHANGED Registry!lost
  BY <1>1, FailuresSpent
<1>4. CASE Replace(p) \/ SyncDirFails(p)
  <2>1. PICK w \in {"syncdir", "unsave"} : Goto(p, w)
    BY <1>4 DEF Replace, SyncDirFails
  <2>2. UNCHANGED <<st, ghosts>> /\ UNCHANGED Registry!lost
    BY <1>3, <1>4 DEF Replace, SyncDirFails, section, Registry!lost
  <2>3. phase'[p] = w /\ \A q \in Procs \ {p} : ~Leased(q) /\ ~Leased(q)'
    BY <1>1, <2>1, SectionAlone
  <2>4. Table' = st[p].grants /\ ~Leased(p)'
    BY <2>2, <2>3, TableNext DEF Outside, Leased, InUse
  <2> QED  BY <1>1, <1>2, <2>2, <2>3, <2>4, TableMoves
<1>5. CASE SyncDir(p)
  <2>1. PICK w \in {"append", "reply", "decide"} :
          Goto(p, w) /\ (w = "reply" => own[p])
    BY <1>5 DEF SyncDir
  <2>2. st'[p] = next[p] /\ UNCHANGED <<own, ghosts, used>>
    BY <1>1, <1>5 DEF SyncDir, TypeOK
  <2>3. phase'[p] = w /\ \A q \in Procs \ {p} : ~Leased(q) /\ ~Leased(q)'
    BY <1>1, <2>1, SectionAlone
  <2>4. Table' = next[p].grants
    BY <2>2, <2>3, TableNext DEF Outside
  <2>5. ~Leased(p)'
    BY <2>1, <2>2, <2>3 DEF Leased, InUse
  <2> QED  BY <1>1, <1>2, <2>2, <2>3, <2>4, <2>5, TableMoves DEF Registry!lost
<1>6. CASE \/ UnlinkFails(p) \/ Unsave(p) \/ UnsaveFails(p)
           \/ (Unsettled(p) /\ Crash(p))
  <2>1. Unsettled(p) /\ Goto(p, "idle") /\ UNCHANGED ghosts
    BY <1>6 DEF UnlinkFails, Unsave, UnsaveFails, Crash, Abandon, Leave, Unsettled
  <2>2. /\ \A q \in Procs : ~Leased(q) /\ ~Leased(q)'
        /\ \A q \in Procs : ~Unsettled(q)'
    BY <1>1, <1>2, <2>1, SectionAlone DEF Leased, InUse, Unsettled
  <2>3. Table' = Current'.grants
    BY <2>2, TableNext
  <2>4. /\ store.now = next[p] /\ next[p] # None
        /\ st[p] = IF backup[p] = None THEN Empty ELSE backup[p]
    BY <1>1, <2>1, EnvelopeFacts DEF PlaceInv, Unsettled, TypeOK
  <2>5. store'.now \in {next[p], backup[p]}
    BY <1>6, <2>4 DEF UnlinkFails, Unsave, UnsaveFails, Crash, Synced, Renamed
  <2>6. Table' \in {st[p].grants, next[p].grants}
    BY <2>3, <2>4, <2>5 DEF Current
  <2>7. UNCHANGED Registry!lost
    BY <1>3, <1>6 DEF UnlinkFails, Unsave, UnsaveFails, Crash, Registry!lost
  <2> QED  BY <1>1, <1>2, <2>1, <2>2, <2>6, <2>7, TableMoves
<1> QED  BY <1>4, <1>5, <1>6

LEMMA ReplyAnswers ==
  ASSUME TypeInv, TypeInv', PlacesInv, PlacesInv', IssuedInv, NEW p \in Procs, Reply(p)
  PROVE  Registry!Next
<1>1. phase[p] = "reply" /\ InSection(p) /\ Goto(p, "idle") /\ store' = store
  BY DEF Reply, Leave, InSection
<1>2. /\ \A q \in Procs \ {p} : ~Leased(q) /\ ~Leased(q)'
      /\ \A q \in Procs : ~Unsettled(q) /\ ~Unsettled(q)'
      /\ ~Leased(p)'
  BY <1>1, SectionAlone DEF Unsettled, Leased, InUse
<1>3. Table = st[p].grants /\ Table = Current.grants /\ Table' = Current'.grants
  BY <1>1, <1>2, TableNow, TableNext DEF Outside
<1>4. Table' = Table
  BY <1>1, <1>3 DEF Current
<1>5. denied' = denied \cup (DOMAIN Table \ Registry!Active)
  BY <1>3 DEF Reply, ActiveIn, Registry!Active
<1>6. issued' = issued \/ \E g \in DOMAIN Table : issued' = issued \cup {g}
  BY <1>1, <1>3 DEF Reply, IssuedInv, OwnIn
<1>7. Leases' = [Leases EXCEPT ![p] = NoGrant]
  BY <1>2 DEF Leases
<1>8. UNCHANGED Registry!lost
  BY DEF Reply, Registry!lost
<1> QED  BY <1>4, <1>5, <1>6, <1>7, <1>8 DEF Registry!Next, Registry!Answer

LEMMA LossOutage ==
  ASSUME TypeInv, TypeInv', PlacesInv, PlacesInv', IssuedInv, RegistryInv,
         used["losses"] = 0 => DiskInv, PowerLoss
  PROVE  Registry!Next
<1>1. /\ store'.now \in store.disk /\ UNCHANGED <<denied, issued>>
      /\ \A q \in Procs : phase'[q] = "idle"
  BY DEF PowerLoss, AfterPowerLoss, Synced, ghosts
<1>2. Leases' = Registry!Nothing /\ Table' = Current'.grants
  BY <1>1, TableNext DEF Leases, Leased, InUse, Registry!Nothing, Unsettled
<1>3. denied \subseteq Grants
  BY DEF TypeInv, TypeOK
<1>4. ASSUME used["losses"] = 0
      PROVE  /\ issued \cup denied \subseteq DOMAIN Table'
             /\ \A g \in denied : Table'[g] # "ACTIVE"
  <2>1. \A g \in denied : Retired(store'.now, g)
    BY <1>1, <1>4 DEF DiskInv
  <2>2. \A g \in denied : g \in DOMAIN Table' /\ Table'[g] # "ACTIVE"
    BY <1>2, <2>1 DEF Retired, Off, Current
  <2>3. issued # {} => store'.now # None
    BY <1>1, <1>4 DEF RegistryInv
  <2>4. issued \subseteq DOMAIN Table'
    BY <1>1, <1>2, <2>3 DEF IssuedInv, Current
  <2> QED  BY <2>2, <2>4
<1>5. used'["outages"] = used["outages"] + 1 /\ used'["losses"] = used["losses"]
  BY DEF PowerLoss, Spend, TypeInv, TypeOK
<1> QED  BY <1>1, <1>2, <1>4, <1>5 DEF Registry!Next, Registry!Outage

LEMMA LossRemoval ==
  ASSUME TypeInv, TypeInv', PlacesInv, PlacesInv', StoreLost
  PROVE  Registry!Next
<1>1. /\ store'.now = None /\ UNCHANGED <<phase, job, st, own, ghosts>>
      /\ \A q \in Procs : phase[q] \in {"idle", "waiting"}
  BY NoneAssumption
  DEF StoreLost, Synced, section, TypeInv, TypeOK, LockInv, InSection
<1>2. \A q \in Procs : ~Leased(q) /\ ~Leased(q)' /\ ~Unsettled(q)'
  BY <1>1 DEF Leased, InUse, Unsettled
<1>3. Leases = Registry!Nothing /\ Leases' = Leases
  BY <1>2 DEF Leases, Registry!Nothing
<1>4. Table' = Empty.grants
  BY <1>1, <1>2, TableNext DEF Current
<1>5. DOMAIN Table' = {}
  BY <1>4, EmptyFacts
<1>6. used'["losses"] = used["losses"] + 1 /\ used'["outages"] = used["outages"]
  BY DEF StoreLost, Spend, TypeInv, TypeOK
<1> QED  BY <1>1, <1>3, <1>5, <1>6 DEF ghosts, Registry!Next, Registry!Removal

\* Where nobody's section goes on, nothing can be seen to happen.
LEMMA IdleStutters ==
  ASSUME TypeInv, TypeInv', PlacesInv, PlacesInv', UNCHANGED <<store, st, own, ghosts, used>>,
         \A q \in Procs : \/ phase'[q] = phase[q] /\ job'[q] = job[q]
                          \/ phase[q] \in Outside /\ phase'[q] \in Outside
  PROVE  UNCHANGED Registry!vars
<1>1. \A q \in Procs : Leased(q)' <=> Leased(q)
  BY DEF Leased, InUse, Known, Verdict, Outside
<1>2. \A q \in Procs : Leased(q) => job'[q] = job[q]
  BY DEF Leased, InUse, Outside
<1>3. Leases' = Leases
  BY <1>1, <1>2 DEF Leases
<1>4. Table' = Table
  <2>1. ASSUME NEW q \in Procs, Unsettled(q) PROVE Table' = Table
    <3>1. phase[q] \notin Outside /\ phase'[q] \notin Outside
      BY <2>1 DEF Unsettled, Outside
    <3> QED  BY <3>1, TableNow, TableNext
  <2>2. CASE \A q \in Procs : ~Unsettled(q)
    <3>1. \A q \in Procs : ~Unsettled(q)'
      BY <2>2 DEF Unsettled, Outside
    <3> QED  BY <2>2, <3>1, TableNow, TableNext DEF Current
  <2> QED  BY <2>1, <2>2
<1> QED  BY <1>3, <1>4 DEF Registry!vars, Registry!lost, ghosts

LEMMA OtherSteps ==
  ASSUME GoodInv, TypeInv', PlacesInv', NEW p \in Procs,
         Work(p) \/ Fault(p) \/ Crash(p),
         ~Replace(p), ~SyncDir(p), ~UnlinkFails(p), ~SyncDirFails(p), ~Unsave(p),
         ~UnsaveFails(p), ~(Unsettled(p) /\ Crash(p)), ~Reply(p)
  PROVE  Registry!Next
<1>1. TypeInv /\ PlacesInv
  BY DEF GoodInv
<1>2. Spend("faults") \/ Spend("crashes") => UNCHANGED Registry!lost
  BY <1>1, FailuresSpent
<1>3. CASE \/ StartEmpty(p) \/ Bootstrap(p) \/ LoadClean(p) \/ RecoverPresent(p)
           \/ RecoverAbort(p) \/ RecoverAppend(p) \/ RefuseReload(p)
  <2>1. phase[p] = "reload" /\ UNCHANGED <<store, used, ghosts>>
    BY <1>3 DEF StartEmpty, Bootstrap, LoadClean, RecoverPresent, RecoverAbort,
                RecoverAppend, RefuseReload, Recoverable, Loads, Commit, Abandon
  <2>2. PICK w \in {"decide", "save", "append", "idle"} : Goto(p, w)
    BY <1>3 DEF StartEmpty, Bootstrap, LoadClean, RecoverPresent, RecoverAbort,
                RecoverAppend, RefuseReload, Loads, Commit, Abandon, Leave
  <2> QED  BY <1>1, <2>1, <2>2, StoreKept DEF InSection, Unsettled, Registry!lost
<1>4. CASE \/ Ensure(p) \/ ExpireDue(p) \/ Snapshot(p) \/ UseUnauthenticated(p)
           \/ UseAllowed(p) \/ UseRefused(p) \/ UseExpired(p) \/ IssueRefused(p)
           \/ Issue(p) \/ RevokeUnchanged(p) \/ Revoke(p) \/ SuspendAll(p)
  <2>1. phase[p] = "decide" /\ UNCHANGED <<store, used, ghosts>>
    BY <1>4 DEF Ensure, ExpireDue, Snapshot, UseUnauthenticated, UseAllowed, UseRefused,
                UseExpired, IssueRefused, Issue, RevokeUnchanged, Revoke, SuspendAll,
                Deciding, MoveTo, Restricts, Commit
  <2>2. PICK w \in {"lease", "refused", "save", "reply"} : Goto(p, w)
    BY <1>4 DEF Ensure, ExpireDue, Snapshot, UseUnauthenticated, UseAllowed, UseRefused,
                UseExpired, IssueRefused, Issue, RevokeUnchanged, Revoke, SuspendAll,
                MoveTo, Restricts, Commit
  <2> QED  BY <1>1, <2>1, <2>2, StoreKept DEF InSection, Unsettled, Registry!lost
<1>5. CASE Write(p) \/ Fsync(p) \/ Truncate(p) \/ Resync(p)
  <2>1. /\ phase[p] \in {"append", "lease", "refused", "fsync", "truncate", "resync"}
        /\ UNCHANGED <<store, used, ghosts>>
    BY <1>5 DEF Write, Fsync, Truncate, Resync, Appending, Abandon
  <2>2. PICK w \in {"fsync", "reply", "save", "resync", "idle"} : Goto(p, w)
    BY <1>5 DEF Write, Fsync, Truncate, Resync, Abandon, Leave
  <2> QED  BY <1>1, <2>1, <2>2, StoreKept DEF InSection, Unsettled, Registry!lost
<1>6. CASE SaveFails(p) \/ WriteFails(p) \/ FsyncFails(p) \/ RollbackFails(p) \/ Crash(p)
  <2>1. InSection(p) /\ ~Unsettled(p) /\ UNCHANGED <<store, ghosts>>
    BY <1>6 DEF SaveFails, WriteFails, FsyncFails, RollbackFails, Crash, Appending, Abandon,
                InSection, Unsettled
  <2>2. PICK w \in {"truncate", "idle"} : Goto(p, w)
    BY <1>6 DEF SaveFails, WriteFails, FsyncFails, RollbackFails, Crash, Abandon, Leave
  <2>3. UNCHANGED Registry!lost
    BY <1>2, <1>6 DEF SaveFails, WriteFails, FsyncFails, RollbackFails, Crash
  <2> QED  BY <1>1, <2>1, <2>2, <2>3, StoreKept
<1> QED  BY <1>3, <1>4, <1>5, <1>6 DEF Work, Fault

LEMMA RegistryStep ==
  ASSUME used["losses"] = 0 => DiskInv, GoodInv, TypeInv', PlacesInv', IssuedInv,
         RegistryInv, [Next]_vars
  PROVE  [Registry!Next]_(Registry!vars)
<1>1. TypeInv /\ PlacesInv
  BY DEF GoodInv
<1>2. CASE StoreLost
  BY <1>1, <1>2, LossRemoval
<1>3. CASE PowerLoss
  BY <1>1, <1>3, LossOutage
<1>4. CASE Tick \/ UNCHANGED vars
  <2>1. UNCHANGED <<store, st, own, ghosts, used, phase, job>>
    BY <1>4 DEF Tick, vars, section
  <2> QED  BY <1>1, <2>1, IdleStutters
<1>5. ASSUME NEW p \in Procs, Begin(p) \/ Acquire(p) PROVE UNCHANGED Registry!vars
  <2>1. UNCHANGED <<store, st, own, ghosts, used>>
    BY <1>5 DEF Begin, Acquire, section
  <2>2. \A q \in Procs : \/ phase'[q] = phase[q] /\ job'[q] = job[q]
                         \/ phase[q] \in Outside /\ phase'[q] \in Outside
    BY <1>1, <1>5 DEF Begin, Acquire, Goto, Outside, TypeInv, TypeOK
  <2> QED  BY <1>1, <2>1, <2>2, IdleStutters
<1>6. ASSUME NEW p \in Procs, Work(p) \/ Fault(p) \/ Crash(p)
      PROVE  [Registry!Next]_(Registry!vars)
  BY <1>1, <1>6, SavingSteps, ReplyAnswers, OtherSteps
<1> QED  BY <1>2, <1>3, <1>4, <1>5, <1>6 DEF Next

\* The authority implements its registry: what its processes tell their callers,
\* through every crash, fault and power loss, is what one table would tell them that
\* changes by whole operations and never under a lease.  What was answered is kept
\* until somebody removes the store (Removal).
THEOREM AuthorityImplementsRegistry == Spec => ImplementsRegistry
<1>1. Init => RegistryInv /\ Registry!Init
  <2> SUFFICES ASSUME Init PROVE RegistryInv /\ Registry!Init
    OBVIOUS
  <2>1. /\ store.now = None /\ store.disk = {None} /\ issued = {} /\ denied = {}
        /\ lock = None /\ used["outages"] = 0 /\ used["losses"] = 0
        /\ \A p \in Procs : phase[p] = "idle" /\ next[p] = Empty
    BY BudgetAssumption DEF Init, Synced
  <2>2. \A e \in Live : e = Empty
    BY <2>1 DEF Live
  <2>3. RegistryInv
    BY <2>1, <2>2, EmptyFacts DEF RegistryInv, Made, Saving
  <2>4. DOMAIN Table = {}
    BY <2>1, EmptyFacts DEF Table
  <2>5. Leases = Registry!Nothing
    BY <2>1 DEF Leases, Leased, InUse, Registry!Nothing
  <2> QED  BY <2>1, <2>3, <2>4, <2>5 DEF Registry!Init
<1>2. GoodInv /\ IssuedInv /\ RegistryInv /\ [Next]_vars => RegistryInv'
  BY RegistryInvStep
<1>3. (used["losses"] = 0 => DenialInv) => (used["losses"] = 0 => DiskInv)
  BY DEF DenialInv
<1>4. (used["losses"] = 0 => DiskInv) /\ GoodInv /\ GoodInv' /\ IssuedInv
      /\ RegistryInv /\ [Next]_vars
      => [Registry!Next]_(Registry!vars)
  BY RegistryStep DEF GoodInv
<1> QED  BY <1>1, <1>2, <1>3, <1>4, DenialInvariant, GoodInvariant, IssuedInvariant, PTL
         DEF Spec, ImplementsRegistry, Registry!Spec
=============================================================================
