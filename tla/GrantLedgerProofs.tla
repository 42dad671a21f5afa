------------------------- MODULE GrantLedgerProofs -------------------------
(***************************************************************************)
(* The two files of the grant authority agree, for every set of processes, *)
(* grants, policies and seeds, and whatever fails, stops or is lost: the   *)
(* store accepts what is saved, a grant in use is in the ledger, an        *)
(* acknowledged issue is kept, and every revision has one receipt.         *)
(*                                                                         *)
(* The proofs go in layers.  PlacesInv says where a section stands.  With  *)
(* it every step is of one of a few kinds (StepCases), and the envelopes   *)
(* and ledger prefixes that may survive grow in a few ways only            *)
(* (EnvelopesGrow, HistoriesGrow).  GoodInv, ClaimInv and CoverInv say     *)
(* what these hold; IssuedInv and ReceiptInv follow a transaction along    *)
(* the phases of its section.                                              *)
(***************************************************************************)
EXTENDS GrantAuthorityProofs, FiniteSetTheorems

Current == IF store.now = None THEN Empty ELSE store.now
Outside == {"idle", "waiting", "reload"}
Saving == {"save", "syncdir", "unsave"}
Holding == {"decide", "lease", "refused", "reply"}

PlaceInv(p) ==
  /\ phase[p] \in Outside => st[p] = Empty /\ next[p] = Empty /\ ~own[p]
  /\ phase[p] \notin Outside \cup {"syncdir", "unsave"} => st[p] = Current
  /\ phase[p] \in {"syncdir", "unsave"} =>
       /\ store.now = next[p] /\ store.disk = {backup[p], next[p]}
       /\ st[p] = IF backup[p] = None THEN Empty ELSE backup[p]
  /\ phase[p] \in Holding => st[p].pend = None
  /\ phase[p] \in {"fsync", "truncate"} =>
       Whole(SubSeq(ledger.now.lines, 1, size[p])) \in ledger.disk
  /\ phase[p] = "decide" /\ job[p].op # "snapshot" => ~own[p]
  /\ phase[p] \in {"lease", "refused"} => job[p].op = "use"

\* What a section holds in memory is what the two files hold.
PlacesInv ==
  /\ store.now \in store.disk /\ ledger.now \in ledger.disk
  /\ \A p \in Procs : PlaceInv(p)

(***************************************************************************)
(* The kinds of steps.                                                     *)
(***************************************************************************)
\* The values of the ledger's lines one of which a power loss leaves.
Histories == {v.lines : v \in ledger.disk}

\* Nobody's section goes on, and the files are as they were.
Idles ==
  /\ UNCHANGED <<store, ledger, st, next, backup, size, own, tx, used, issued>>
  /\ \A q \in Procs : \/ phase'[q] = phase[q] /\ job'[q] = job[q]
                      \/ phase[q] \in Outside /\ phase'[q] \in Outside

\* Whoever was in its section left it, with no envelope or line that is new.
Rests ==
  /\ \A q \in Procs : phase'[q] \in Outside /\ next'[q] = Empty
  /\ tx' = tx
  /\ store'.disk \subseteq store.disk \cup {None}
  /\ Histories' \subseteq Histories
  /\ \/ used'["outages"] # 0
     \/ /\ used'["outages"] = used["outages"]
        /\ ledger'.now.lines = ledger.now.lines
        /\ \/ store'.now \in {store.now, None}
           \/ \E p \in Procs : phase[p] = "unsave" /\ store'.now = backup[p]
  /\ issued' = issued \/ \E p \in Procs : Reply(p)

\* p begins a transaction: its first boot, an issue, or a restriction.
Opens(p, kind, target, prev, agent) ==
  /\ Commit(p, st[p], kind, target, prev, agent)
  /\ st[p].pend = None
  /\ \/ /\ kind = "demo_seed" /\ phase[p] = "reload" /\ ~HasHistory /\ Seeds # {}
        /\ target = With(NoTable, Seeds, "ACTIVE") /\ prev = NoTable
     \/ /\ kind = "issue" /\ phase[p] = "decide"
        /\ job[p].op = "issue" /\ job[p].grant = agent
        /\ agent \in Grants \ DOMAIN st[p].grants
        /\ target = With(st[p].grants, {agent}, "ACTIVE") /\ prev = NoTable
     \/ /\ kind \in {"revoke", "expire", "suspend_all"} /\ phase[p] = "decide"
        /\ job[p].op # "issue"
        /\ \E S \in SUBSET DOMAIN st[p].grants :
             /\ \A g \in S : st[p].grants[g] \in From(kind)
             /\ IF kind = "suspend_all" THEN S = ActiveIn(st[p].grants) ELSE S = {agent}
             /\ target = With(st[p].grants, S, To(kind))
             /\ prev = Only(st[p].grants, S)

\* p's decision needs no transaction.
Decides(p) ==
  /\ phase[p] = "decide"
  /\ \E w \in {"lease", "refused", "reply"} :
       /\ MoveTo(p, w)
       /\ w # "reply" => job[p].op = "use"
       /\ job[p].op = "issue" => ~own[p]

Writes(p) ==
  Write(p) /\ (phase[p] = "append" => ledger.now.lines = st[p].pend.tail)

Advances(p) ==
  /\ InSection(p) /\ \A q \in Procs \ {p} : phase'[q] \in Outside
  /\ \/ StartEmpty(p) \/ LoadClean(p) \/ Decides(p)
     \/ RecoverPresent(p) \/ RecoverAbort(p) \/ RecoverAppend(p)
     \/ \E kind \in Kinds, target \in Tables, prev \in Tables,
           agent \in Grants \cup {NoGrant} : Opens(p, kind, target, prev, agent)
     \/ Replace(p) \/ SyncDir(p) \/ SyncDirFails(p)
     \/ Writes(p) \/ WriteFails(p) \/ Fsync(p) \/ FsyncFails(p) \/ Truncate(p)

Steps == Idles \/ Rests \/ \E p \in Procs : Advances(p)

(***************************************************************************)
(* Where a section stands.                                                 *)
(***************************************************************************)
LEMMA SectionPlaces ==
  ASSUME TypeInv, PlacesInv, NEW p \in Procs, InSection(p), NEW w, Goto(p, w),
         store'.now \in store'.disk, ledger'.now \in ledger'.disk,
         \A q \in Procs \ {p} : st'[q] = st[q] /\ next'[q] = next[q] /\ own'[q] = own[q],
         PlaceInv(p)'
  PROVE  PlacesInv'
<1>1. ASSUME NEW q \in Procs \ {p} PROVE PlaceInv(q)'
  <2>1. phase[q] \in {"idle", "waiting"} /\ phase'[q] = phase[q]
    BY DEF TypeInv, TypeOK, LockInv, InSection, Goto
  <2>2. st'[q] = Empty /\ next'[q] = Empty /\ ~own'[q]
    BY <2>1 DEF PlacesInv, PlaceInv, Outside
  <2> QED  BY <2>1, <2>2 DEF PlaceInv, Outside, Holding
<1> QED  BY <1>1 DEF PlacesInv

LEMMA LeavePlaces ==
  ASSUME TypeInv, PlacesInv, NEW p \in Procs, InSection(p), Leave(p),
         store'.now \in store'.disk, ledger'.now \in ledger'.disk
  PROVE  PlacesInv' /\ \A q \in Procs : phase'[q] \in Outside /\ next'[q] = Empty
<1>1. /\ phase'[p] = "idle" /\ st'[p] = Empty /\ next'[p] = Empty /\ ~own'[p]
  BY DEF Leave, Goto, TypeInv, TypeOK
<1>2. Goto(p, "idle") /\ \A q \in Procs \ {p} :
        st'[q] = st[q] /\ next'[q] = next[q] /\ own'[q] = own[q]
  BY DEF Leave, TypeInv, TypeOK
<1>3. PlaceInv(p)'
  BY <1>1 DEF PlaceInv, Outside, Holding
<1>4. \A q \in Procs \ {p} : phase[q] \in {"idle", "waiting"} /\ phase'[q] = phase[q]
  BY <1>2 DEF TypeInv, TypeOK, LockInv, InSection, Goto
<1>5. \A q \in Procs \ {p} : next'[q] = Empty
  BY <1>2, <1>4 DEF PlacesInv, PlaceInv, Outside
<1> QED  BY <1>1, <1>2, <1>3, <1>4, <1>5, SectionPlaces DEF Outside

\* The ledger's lines as one of the values that may survive.
LEMMA WholeFacts ==
  ASSUME TypeInv, ledger.now \in ledger.disk
  PROVE  /\ Repaired \in RepairedFile.disk /\ RepairedFile.disk \subseteq ledger.disk \cup {Repaired}
         /\ SubSeq(ledger.now.lines, 1, Len(ledger.now.lines)) = ledger.now.lines
         /\ \A line \in Events :
              SubSeq(Append(ledger.now.lines, line), 1, Len(ledger.now.lines)) = ledger.now.lines
<1>1. ledger.now.lines \in Seq(Events) /\ ledger.now.torn \in BOOLEAN
  BY DEF TypeInv, TypeOK, Ledgers
<1>2. ~ledger.now.torn => ledger.now = Repaired
  BY DEF TypeInv, TypeOK, Ledgers, Repaired, Whole
<1>3. Repaired \in RepairedFile.disk /\ RepairedFile.disk \subseteq ledger.disk \cup {Repaired}
  BY <1>1, <1>2 DEF RepairedFile, Synced
<1> QED  BY <1>1, <1>3

\* A section that leaves, and leaves the ledger's lines and one of the values of
\* the store behind.
LEMMA LeaveRests ==
  ASSUME TypeInv, PlacesInv, NEW p \in Procs, InSection(p), Leave(p),
         store'.now \in store'.disk, store'.disk \subseteq store.disk,
         ledger'.now \in ledger'.disk, ledger'.now.lines = ledger.now.lines,
         Histories' \subseteq Histories,
         store'.now # store.now => phase[p] = "unsave" /\ store'.now = backup[p],
         used'["outages"] = used["outages"], issued' # issued => Reply(p)
  PROVE  PlacesInv' /\ Rests
<1>1. PlacesInv' /\ \A q \in Procs : phase'[q] \in Outside /\ next'[q] = Empty
  BY LeavePlaces
<1>2. tx' = tx
  BY DEF Leave
<1> QED  BY <1>1, <1>2 DEF Rests

LEMMA FaultsSpent ==
  ASSUME TypeInv, NEW kind \in {"faults", "crashes", "losses"}, Spend(kind)
  PROVE  used'["outages"] = used["outages"]
  BY DEF Spend, TypeInv, TypeOK

\* p's section goes on.
LEMMA AdvancePlaces ==
  ASSUME TypeInv, PlacesInv, NEW p \in Procs, InSection(p), NEW w, Goto(p, w),
         store'.now \in store'.disk, ledger'.now \in ledger'.disk,
         \A q \in Procs \ {p} : st'[q] = st[q] /\ next'[q] = next[q] /\ own'[q] = own[q],
         PlaceInv(p)'
  PROVE  PlacesInv' /\ \A q \in Procs \ {p} : phase'[q] \in Outside
<1>1. \A q \in Procs \ {p} : phase[q] \in {"idle", "waiting"} /\ phase'[q] = phase[q]
  BY DEF TypeInv, TypeOK, LockInv, InSection, Goto
<1> QED  BY <1>1, SectionPlaces DEF Outside

LEMMA CommitPlaces ==
  ASSUME TypeInv, PlacesInv, NEW p \in Procs, phase[p] \in {"reload", "decide"},
         NEW kind \in Kinds, NEW target \in Tables, NEW prev \in Tables,
         NEW agent \in Grants \cup {NoGrant}, Opens(p, kind, target, prev, agent),
         phase[p] = "reload" => st[p] = Current
  PROVE  PlacesInv' /\ Advances(p)
<1>1. /\ Goto(p, "save") /\ ledger' = Synced(Repaired)
      /\ UNCHANGED <<store, st, job>>
      /\ next' = [next EXCEPT ![p] = Prepared(st[p], kind, target, prev, agent)]
      /\ own' = [own EXCEPT ![p] = kind # "demo_seed"]
  BY DEF Opens, Commit
<1>2. InSection(p) /\ phase'[p] = "save"
  BY <1>1 DEF InSection, Goto, TypeInv, TypeOK
<1>3. st[p] = Current
  BY DEF PlacesInv, PlaceInv, Outside
<1>4. PlaceInv(p)'
  BY <1>1, <1>2, <1>3 DEF PlaceInv, Outside, Holding, Current
<1>5. /\ \A q \in Procs \ {p} :
           st'[q] = st[q] /\ next'[q] = next[q] /\ own'[q] = own[q]
      /\ store'.now \in store'.disk /\ ledger'.now \in ledger'.disk
  BY <1>1 DEF PlacesInv, TypeInv, TypeOK, Synced
<1> QED  BY <1>1, <1>2, <1>4, <1>5, AdvancePlaces DEF Advances

LEMMA ReloadPlaces ==
  ASSUME TypeInv, PlacesInv, NEW p \in Procs,
         \/ StartEmpty(p) \/ Bootstrap(p) \/ LoadClean(p) \/ RecoverPresent(p)
         \/ RecoverAbort(p) \/ RecoverAppend(p) \/ RefuseReload(p)
  PROVE  PlacesInv' /\ (Advances(p) \/ Rests)
<1>1. /\ phase[p] = "reload" /\ InSection(p)
      /\ st[p] = Empty /\ next[p] = Empty /\ ~own[p]
      /\ store.now \in store.disk /\ ledger.now \in ledger.disk
  BY DEF StartEmpty, Bootstrap, LoadClean, RecoverPresent, RecoverAbort,
         RecoverAppend, RefuseReload, Recoverable, InSection, PlacesInv, PlaceInv, Outside
<1>2. ASSUME NEW e, NEW w \in {"decide", "save", "append"}, Goto(p, w), e = Current,
             w = "decide" => e.pend = None, st' = [st EXCEPT ![p] = e],
             UNCHANGED <<store, ledger, own>>,
             \A q \in Procs \ {p} : next'[q] = next[q]
      PROVE  PlacesInv' /\ \A q \in Procs \ {p} : phase'[q] \in Outside
  <2>1. phase'[p] = w /\ st'[p] = Current' /\ ~own'[p]
    BY <1>1, <1>2 DEF Goto, TypeInv, TypeOK, Current
  <2>2. PlaceInv(p)'
    BY <1>2, <2>1 DEF PlaceInv, Outside, Holding, TypeInv, TypeOK
  <2> QED  BY <1>1, <1>2, <2>2, AdvancePlaces DEF TypeInv, TypeOK
<1>3. CASE StartEmpty(p)
  BY <1>1, <1>2, <1>3, EmptyFacts DEF StartEmpty, Loads, Current, Advances
<1>4. CASE LoadClean(p)
  BY <1>1, <1>2, <1>4 DEF LoadClean, Loads, VerifiedClean, Current, Advances
<1>5. CASE RecoverPresent(p)
  BY <1>1, <1>2, <1>5 DEF RecoverPresent, Recoverable, Current, Advances, TypeInv, TypeOK
<1>6. CASE RecoverAbort(p)
  BY <1>1, <1>2, <1>6 DEF RecoverAbort, Recoverable, Current, Advances, TypeInv, TypeOK
<1>7. CASE RecoverAppend(p)
  BY <1>1, <1>2, <1>7 DEF RecoverAppend, Recoverable, Current, Advances
<1>8. CASE RefuseReload(p)
  <2>1. Leave(p) /\ UNCHANGED <<store, ledger, used, issued>>
    BY <1>8 DEF RefuseReload, Abandon, ghosts
  <2>2. Histories' = Histories
    BY <2>1 DEF Histories
  <2> QED  BY <1>1, <2>1, <2>2, LeaveRests
<1>9. CASE Bootstrap(p)
  <2>1. /\ With(NoTable, Seeds, "ACTIVE") \in Tables /\ NoTable \in Tables
        /\ "demo_seed" \in Kinds
    BY EmptyFacts, WithFacts, GrantsAssumption DEF Kinds, Statuses
  <2>2. Opens(p, "demo_seed", With(NoTable, Seeds, "ACTIVE"), NoTable, NoGrant)
    BY <1>1, <1>9, EmptyFacts DEF Opens, Bootstrap
  <2> QED  BY <1>1, <1>9, <2>1, <2>2, CommitPlaces DEF Bootstrap, Current
<1> QED  BY <1>3, <1>4, <1>5, <1>6, <1>7, <1>8, <1>9

\* An expired verdict, and a status that can still be revoked.
LEMMA RestrictedStatus ==
  ASSUME TypeInv, NEW p \in Procs, NEW g \in DOMAIN st[p].grants
  PROVE  /\ Verdict(p, g) = "expired" => st[p].grants[g] \in From("expire")
         /\ st[p].grants[g] \notin {"REVOKED", "EXPIRED"} =>
              st[p].grants[g] \in From("revoke")
<1>1. st[p].grants \in Tables
  BY EnvelopeFacts DEF TypeInv, TypeOK
<1>2. st[p].grants[g] \in Statuses
  BY <1>1, TableFacts
<1> QED  BY <1>2 DEF Verdict, Decision, From, Statuses

LEMMA DecidePlaces ==
  ASSUME TypeInv, PlacesInv, NEW p \in Procs,
         \/ Ensure(p) \/ ExpireDue(p) \/ Snapshot(p)
         \/ UseUnauthenticated(p) \/ UseAllowed(p) \/ UseRefused(p) \/ UseExpired(p)
         \/ IssueRefused(p) \/ Issue(p) \/ RevokeUnchanged(p) \/ Revoke(p)
         \/ SuspendAll(p)
  PROVE  PlacesInv' /\ Advances(p)
<1>1. phase[p] = "decide" /\ InSection(p)
  BY DEF Ensure, ExpireDue, Snapshot, UseUnauthenticated, UseAllowed, UseRefused,
         UseExpired, IssueRefused, Issue, RevokeUnchanged, Revoke, SuspendAll,
         Deciding, InSection
<1>2. /\ st[p] \in Envelopes /\ st[p].grants \in Tables /\ st[p].pend = None
      /\ st[p] = Current /\ (job[p].op # "snapshot" => ~own[p])
      /\ DOMAIN st[p].grants \subseteq Grants /\ job[p].grant \in Grants \cup {NoGrant}
      /\ store.now \in store.disk /\ ledger.now \in ledger.disk
  BY <1>1, EnvelopeFacts, TableFacts
  DEF PlacesInv, PlaceInv, Outside, Holding, TypeInv, TypeOK, Jobs
<1>3. ASSUME NEW w \in {"lease", "refused", "reply"}, MoveTo(p, w),
             w # "reply" => job[p].op = "use"
      PROVE  PlacesInv' /\ Advances(p)
  <2>1. UNCHANGED <<store, ledger, job, st, next, own>> /\ Goto(p, w) /\ phase'[p] = w
    BY <1>3 DEF MoveTo, section, Goto, TypeInv, TypeOK
  <2>2. PlaceInv(p)'
    BY <1>2, <1>3, <2>1 DEF PlaceInv, Outside, Holding, Current
  <2>3. PlacesInv' /\ \A q \in Procs \ {p} : phase'[q] \in Outside
    BY <1>1, <1>2, <2>1, <2>2, AdvancePlaces
  <2>4. Decides(p)
    BY <1>1, <1>2, <1>3 DEF Decides
  <2> QED  BY <1>1, <2>3, <2>4 DEF Advances
<1>4. CASE \/ Ensure(p) \/ Snapshot(p) \/ UseUnauthenticated(p) \/ UseAllowed(p)
           \/ UseRefused(p) \/ IssueRefused(p) \/ RevokeUnchanged(p)
  BY <1>3, <1>4 DEF Ensure, Snapshot, UseUnauthenticated, UseAllowed, UseRefused,
                    IssueRefused, RevokeUnchanged, Deciding
<1>5. ASSUME NEW kind \in {"revoke", "expire", "suspend_all"}, job[p].op # "issue",
             NEW S \in SUBSET DOMAIN st[p].grants, NEW agent \in Grants \cup {NoGrant},
             \A g \in S : st[p].grants[g] \in From(kind),
             IF kind = "suspend_all" THEN S = ActiveIn(st[p].grants) ELSE S = {agent},
             Restricts(p, kind, S, To(kind), agent)
      PROVE  PlacesInv' /\ Advances(p)
  <2>1. To(kind) \in Statuses /\ kind \in Kinds /\ S \in SUBSET Grants
    BY <1>2 DEF To, Statuses, Kinds
  <2>2. With(st[p].grants, S, To(kind)) \in Tables /\ Only(st[p].grants, S) \in Tables
    BY <1>2, <2>1, WithFacts, OnlyFacts
  <2>3. Opens(p, kind, With(st[p].grants, S, To(kind)), Only(st[p].grants, S), agent)
    BY <1>1, <1>2, <1>5 DEF Opens, Restricts
  <2> QED  BY <1>1, <2>1, <2>2, <2>3, CommitPlaces
<1>6. CASE ExpireDue(p)
  <2>1. PICK g \in DueGrants(p) : Restricts(p, "expire", {g}, "EXPIRED", g)
    BY <1>6 DEF ExpireDue
  <2>2. /\ {g} \in SUBSET DOMAIN st[p].grants /\ g \in Grants \cup {NoGrant}
        /\ st[p].grants[g] \in From("expire")
    BY <1>2, RestrictedStatus DEF DueGrants
  <2> QED  BY <1>5, <1>6, <2>1, <2>2 DEF ExpireDue, Deciding, To
<1>7. CASE UseExpired(p)
  BY <1>2, <1>5, <1>7, RestrictedStatus DEF UseExpired, Deciding, Known, To
<1>8. CASE Revoke(p)
  BY <1>2, <1>5, <1>8, RestrictedStatus DEF Revoke, Deciding, Known, To
<1>9. CASE SuspendAll(p)
  <2>1. /\ ActiveIn(st[p].grants) \in SUBSET DOMAIN st[p].grants
        /\ \A g \in ActiveIn(st[p].grants) : st[p].grants[g] \in From("suspend_all")
    BY DEF ActiveIn, From
  <2> QED  BY <2>1, <1>5, <1>9 DEF SuspendAll, Deciding, To
<1>10. CASE Issue(p)
  <2>1. job[p].grant \in Grants \ DOMAIN st[p].grants /\ "issue" \in Kinds
    BY <1>10 DEF Issue, Deciding, Known, OnGrant, TypeInv, TypeOK, Jobs, Kinds
  <2>2. With(st[p].grants, {job[p].grant}, "ACTIVE") \in Tables /\ NoTable \in Tables
    BY <1>2, <2>1, EmptyFacts, WithFacts DEF Statuses
  <2>3. Opens(p, "issue", With(st[p].grants, {job[p].grant}, "ACTIVE"), NoTable, job[p].grant)
    BY <1>1, <1>2, <1>10, <2>1 DEF Opens, Issue, Deciding
  <2> QED  BY <1>1, <1>2, <2>1, <2>2, <2>3, CommitPlaces
<1> QED  BY <1>4, <1>6, <1>7, <1>8, <1>9, <1>10

LEMMA SavePlaces ==
  ASSUME TypeInv, PlacesInv, NEW p \in Procs,
         \/ Replace(p) \/ SyncDir(p) \/ Unsave(p) \/ SaveFails(p)
         \/ UnlinkFails(p) \/ SyncDirFails(p) \/ UnsaveFails(p)
  PROVE  PlacesInv' /\ (Advances(p) \/ Rests)
<1>1. /\ phase[p] \in Saving /\ InSection(p) /\ ledger.now \in ledger.disk
      /\ store.now \in store.disk /\ next[p] # None
  BY EnvelopeFacts DEF Replace, SyncDir, Unsave, SaveFails, UnlinkFails, SyncDirFails,
         UnsaveFails, InSection, PlacesInv, Saving, TypeInv, TypeOK
<1>2. phase[p] \in {"syncdir", "unsave"} =>
        /\ store.now = next[p] /\ store.disk = {backup[p], next[p]}
        /\ st[p] = IF backup[p] = None THEN Empty ELSE backup[p]
  BY DEF PlacesInv, PlaceInv
<1>3. ASSUME UNCHANGED ledger PROVE Histories' = Histories
  BY <1>3 DEF Histories
<1>4. CASE SaveFails(p)
  BY <1>1, <1>3, <1>4, FaultsSpent, LeaveRests DEF SaveFails, Abandon, ghosts
<1>5. CASE Replace(p)
  <2>1. /\ store' = [now |-> next[p], disk |-> {store.now, next[p]}]
        /\ backup' = [backup EXCEPT ![p] = store.now] /\ Goto(p, "syncdir")
        /\ UNCHANGED <<ledger, st, next, own, job>>
    BY <1>5 DEF Replace, Renamed, Synced
  <2>2. phase'[p] = "syncdir" /\ backup'[p] = store.now
    BY <2>1 DEF Goto, TypeInv, TypeOK
  <2>3. st[p] = Current
    BY <1>5 DEF Replace, PlacesInv, PlaceInv, Outside
  <2>4. PlaceInv(p)'
    BY <2>1, <2>2, <2>3 DEF PlaceInv, Outside, Holding, Current
  <2>5. store'.now \in store'.disk
    BY <2>1
  <2> QED  BY <1>1, <1>5, <2>1, <2>4, <2>5, AdvancePlaces DEF Advances
<1>6. CASE SyncDir(p)
  <2>1. PICK w \in {"append", "reply", "decide"} :
          /\ Goto(p, w) /\ (w # "append" => next[p].pend = None)
          /\ w = "decide" => ~own[p] \/ job[p].op = "snapshot"
    BY <1>6 DEF SyncDir
  <2>2. /\ store' = [now |-> next[p], disk |-> {next[p]}]
        /\ st' = [st EXCEPT ![p] = next[p]]
        /\ UNCHANGED <<ledger, next, own, job>>
    BY <1>6 DEF SyncDir, Synced
  <2>3. phase'[p] = w /\ st'[p] = next[p] /\ Current' = next[p]
    BY <1>1, <2>1, <2>2 DEF Goto, Current, TypeInv, TypeOK
  <2>4. PlaceInv(p)'
    BY <2>1, <2>2, <2>3 DEF PlaceInv, Outside, Holding
  <2>5. store'.now \in store'.disk /\ \A q \in Procs \ {p} : st'[q] = st[q]
    BY <2>2 DEF TypeInv, TypeOK
  <2> QED  BY <1>1, <1>6, <2>1, <2>2, <2>4, <2>5, AdvancePlaces DEF Advances
<1>7. CASE SyncDirFails(p)
  <2>1. /\ Goto(p, "unsave") /\ UNCHANGED <<store, ledger, st, next, backup, own, job>>
        /\ phase[p] = "syncdir"
    BY <1>7 DEF SyncDirFails, section
  <2>2. phase'[p] = "unsave"
    BY <2>1 DEF Goto, TypeInv, TypeOK
  <2>3. PlaceInv(p)'
    BY <1>2, <2>1, <2>2 DEF PlaceInv, Outside, Holding
  <2> QED  BY <1>1, <1>7, <2>1, <2>3, AdvancePlaces DEF Advances
<1>8. CASE UnlinkFails(p)
  <2>1. /\ Leave(p) /\ store' = [now |-> next[p], disk |-> {next[p]}]
        /\ UNCHANGED <<ledger, issued>> /\ used'["outages"] = used["outages"]
        /\ phase[p] = "syncdir"
    BY <1>8, FaultsSpent DEF UnlinkFails, Abandon, Synced, ghosts
  <2> QED  BY <1>1, <1>2, <1>3, <2>1, LeaveRests
<1>9. CASE Unsave(p)
  <2>1. /\ Leave(p) /\ store' = [now |-> backup[p], disk |-> {backup[p]}]
        /\ UNCHANGED <<ledger, issued, used>> /\ phase[p] = "unsave"
    BY <1>9 DEF Unsave, Abandon, Synced, ghosts
  <2> QED  BY <1>1, <1>2, <1>3, <2>1, LeaveRests
<1>10. CASE UnsaveFails(p)
  <2>1. /\ Leave(p) /\ UNCHANGED <<ledger, issued>> /\ phase[p] = "unsave"
        /\ used'["outages"] = used["outages"]
        /\ store'.disk = store.disk /\ store'.now \in {store.now, backup[p]}
    BY <1>2, <1>10, FaultsSpent DEF UnsaveFails, Abandon, Renamed, ghosts
  <2> QED  BY <1>1, <1>2, <1>3, <2>1, LeaveRests
<1> QED  BY <1>4, <1>5, <1>6, <1>7, <1>8, <1>9, <1>10

LEMMA AppendPlaces ==
  ASSUME TypeInv, PlacesInv, NEW p \in Procs,
         \/ Write(p) \/ WriteFails(p) \/ Fsync(p) \/ FsyncFails(p)
         \/ Truncate(p) \/ Resync(p) \/ RollbackFails(p)
  PROVE  PlacesInv' /\ (Advances(p) \/ Rests)
<1>1. /\ phase[p] \in {"append", "lease", "refused", "fsync", "truncate", "resync"}
      /\ InSection(p) /\ st[p] = Current /\ store.now \in store.disk
      /\ ledger.now \in ledger.disk
  BY DEF Write, WriteFails, Fsync, FsyncFails, Truncate, Resync, RollbackFails,
         Appending, InSection, PlacesInv, PlaceInv, Outside
<1>2. ASSUME NEW w \in {"fsync", "truncate", "resync", "reply", "save"}, Goto(p, w),
             UNCHANGED <<store, st, own, job>>,
             \A q \in Procs \ {p} : next'[q] = next[q],
             ledger'.now \in ledger'.disk, w = "reply" => st[p].pend = None,
             w \in {"fsync", "truncate"} =>
               Whole(SubSeq(ledger'.now.lines, 1, size'[p])) \in ledger'.disk
      PROVE  PlacesInv' /\ \A q \in Procs \ {p} : phase'[q] \in Outside
  <2>1. phase'[p] = w /\ st'[p] = Current'
    BY <1>1, <1>2 DEF Goto, TypeInv, TypeOK, Current
  <2>2. PlaceInv(p)'
    BY <1>2, <2>1 DEF PlaceInv, Outside, Holding
  <2> QED  BY <1>1, <1>2, <2>2, AdvancePlaces
<1>3. ASSUME Leave(p), UNCHANGED <<store, issued>>, ledger'.now \in ledger'.disk,
             ledger'.now = ledger.now, ledger'.disk \subseteq ledger.disk,
             used'["outages"] = used["outages"]
      PROVE  PlacesInv' /\ Rests
  <2>1. Histories' \subseteq Histories
    BY <1>3 DEF Histories
  <2> QED  BY <1>1, <1>3, <2>1, LeaveRests
<1>4. CASE Write(p)
  <2>1. CASE phase[p] = "append" /\ ledger.now.lines # st[p].pend.tail
    BY <1>1, <1>3, <1>4, <2>1 DEF Write, Abandon, ghosts
  <2>2. CASE ~(phase[p] = "append" /\ ledger.now.lines # st[p].pend.tail)
    <3> DEFINE v == Whole(Append(ledger.now.lines, Line(p)))
    <3>1. /\ ledger' = Written(RepairedFile, v, TornTail) /\ Goto(p, "fsync")
          /\ size' = [size EXCEPT ![p] = Len(ledger.now.lines)]
          /\ UNCHANGED <<store, job, st, next, own>>
      BY <1>4, <2>2 DEF Write
    <3>2. /\ v.lines = Append(ledger.now.lines, Line(p)) /\ Line(p) \in Events
          /\ Repaired = Whole(ledger.now.lines)
      BY <1>4, LineFacts DEF Write, Whole, Repaired
    <3> HIDE DEF v
    <3>3. /\ ledger'.now = v /\ v \in ledger'.disk
          /\ Repaired \in ledger'.disk /\ size'[p] = Len(ledger.now.lines)
      BY <1>1, <3>1, WholeFacts DEF Written, TypeInv, TypeOK
    <3>4. SubSeq(v.lines, 1, size'[p]) = ledger.now.lines
      BY <1>1, <3>2, <3>3, WholeFacts
    <3> QED  BY <1>1, <1>2, <1>4, <2>2, <3>1, <3>2, <3>3, <3>4 DEF Advances, Writes
  <2> QED  BY <2>1, <2>2
<1>5. CASE WriteFails(p)
  <2>1. PICK v \in {Repaired} \cup TornTail : ledger' = Written(RepairedFile, v, {})
    BY <1>5 DEF WriteFails
  <2>2. v.lines = ledger.now.lines /\ Repaired = Whole(ledger.now.lines)
    BY <2>1 DEF Repaired, TornTail, Whole
  <2>3. /\ ledger'.now = v /\ v \in ledger'.disk /\ Repaired \in ledger'.disk
    BY <1>1, <2>1, WholeFacts DEF Written
  <2>4. /\ Goto(p, "truncate") /\ UNCHANGED <<store, job, st, next, own>>
        /\ size'[p] = Len(ledger.now.lines)
    BY <1>5 DEF WriteFails, TypeInv, TypeOK
  <2>5. SubSeq(v.lines, 1, size'[p]) = ledger.now.lines
    BY <1>1, <2>2, <2>4, WholeFacts
  <2> QED  BY <1>1, <1>2, <1>5, <2>2, <2>3, <2>4, <2>5 DEF Advances
<1>6. CASE Fsync(p)
  <2>1. PICK w \in {"reply", "save"} : Goto(p, w) /\ (w = "reply" => st[p].pend = None)
    BY <1>6 DEF Fsync
  <2>2. /\ ledger'.now \in ledger'.disk /\ UNCHANGED <<store, st, own, job>>
        /\ \A q \in Procs \ {p} : next'[q] = next[q]
    BY <1>6 DEF Fsync, Synced, TypeInv, TypeOK
  <2> QED  BY <1>1, <1>2, <1>6, <2>1, <2>2 DEF Advances
<1>7. CASE FsyncFails(p)
  <2>1. /\ UNCHANGED <<store, ledger, job, st, next, own, size>> /\ Goto(p, "truncate")
        /\ phase[p] = "fsync"
    BY <1>7 DEF FsyncFails, section
  <2>2. Whole(SubSeq(ledger.now.lines, 1, size[p])) \in ledger.disk
    BY <2>1 DEF PlacesInv, PlaceInv
  <2> QED  BY <1>1, <1>2, <1>7, <2>1, <2>2 DEF Advances
<1>8. CASE Truncate(p)
  <2>1. /\ UNCHANGED <<store, job, st, next, own>> /\ Goto(p, "resync")
        /\ ledger'.now \in ledger'.disk
    BY <1>8 DEF Truncate, Written, section
  <2> QED  BY <1>1, <1>2, <1>8, <2>1 DEF Advances
<1>9. CASE Resync(p)
  BY <1>1, <1>3, <1>9 DEF Resync, Abandon, Synced, ghosts
<1>10. CASE RollbackFails(p)
  BY <1>1, <1>3, <1>10, FaultsSpent DEF RollbackFails, Abandon, ghosts
<1> QED  BY <1>4, <1>5, <1>6, <1>7, <1>8, <1>9, <1>10

LEMMA RequestPlaces ==
  ASSUME TypeInv, PlacesInv, NEW p \in Procs, Begin(p) \/ Acquire(p) \/ Reply(p) \/ Crash(p)
  PROVE  PlacesInv' /\ (Idles \/ Rests)
<1>1. CASE Begin(p) \/ Acquire(p)
  <2>1. /\ UNCHANGED <<store, ledger, st, next, backup, size, own, tx, used, issued>>
        /\ phase[p] \in {"idle", "waiting"}
        /\ phase'[p] \in {"waiting", "reload"}
        /\ \A q \in Procs \ {p} : phase'[q] = phase[q] /\ job'[q] = job[q]
    BY <1>1 DEF Begin, Acquire, Goto, section, ghosts, TypeInv, TypeOK
  <2>2. ASSUME NEW q \in Procs \ {p} PROVE PlaceInv(q)'
    <3>1. PlaceInv(q) /\ phase'[q] = phase[q] /\ job'[q] = job[q]
      BY <2>1 DEF PlacesInv
    <3> QED  BY <2>1, <3>1 DEF PlaceInv, Current
  <2>3. PlaceInv(p)'
    <3>1. PlaceInv(p)
      BY DEF PlacesInv
    <3> QED  BY <2>1, <3>1 DEF PlaceInv, Outside, Holding
  <2>4. PlacesInv'
    BY <2>1, <2>2, <2>3 DEF PlacesInv
  <2> QED  BY <2>1, <2>4 DEF Idles, Outside
<1>2. CASE Reply(p)
  <2>1. InSection(p) /\ Leave(p) /\ UNCHANGED <<store, ledger, used>>
    BY <1>2 DEF Reply, InSection
  <2>2. Histories' = Histories
    BY <2>1 DEF Histories
  <2> QED  BY <1>2, <2>1, <2>2, LeaveRests DEF PlacesInv
<1>3. CASE Crash(p)
  <2>1. PICK v \in {ledger.now} \cup TornTail : ledger' = Written(ledger, v, {})
    BY <1>3 DEF Crash
  <2>2. v.lines = ledger.now.lines
    BY <2>1 DEF TornTail
  <2>3. ledger'.now = v /\ ledger'.disk = ledger.disk \cup {v}
    BY <2>1 DEF Written
  <2>4. Histories' = Histories
    BY <2>2, <2>3 DEF Histories, PlacesInv
  <2>5. /\ InSection(p) /\ Leave(p) /\ UNCHANGED <<store, issued>>
        /\ used'["outages"] = used["outages"]
    BY <1>3, FaultsSpent DEF Crash, Abandon, ghosts
  <2> QED  BY <2>2, <2>3, <2>4, <2>5, LeaveRests DEF PlacesInv
<1> QED  BY <1>1, <1>2, <1>3

LEMMA EnvironmentPlaces ==
  ASSUME TypeInv, PlacesInv, PowerLoss \/ StoreLost \/ Tick \/ UNCHANGED vars
  PROVE  PlacesInv' /\ (Idles \/ Rests)
<1>1. CASE PowerLoss
  <2>1. PICK e \in store.disk, v \in ledger.disk :
          store' = Synced(e) /\ ledger' = Synced(v)
    BY <1>1 DEF PowerLoss, AfterPowerLoss
  <2>2. /\ store'.now = e /\ store'.disk = {e}
        /\ ledger'.now = v /\ ledger'.disk = {v}
    BY <2>1 DEF Synced
  <2>3. /\ \A q \in Procs : phase'[q] = "idle" /\ st'[q] = Empty /\ next'[q] = Empty
                            /\ ~own'[q]
        /\ UNCHANGED <<tx, issued>>
    BY <1>1 DEF PowerLoss, ghosts
  <2>4. PlacesInv'
    BY <2>2, <2>3 DEF PlacesInv, PlaceInv, Outside, Holding
  <2>5. used'["outages"] # 0
    BY <1>1 DEF PowerLoss, Spend, TypeInv, TypeOK
  <2>6. Histories' \subseteq Histories
    BY <2>2 DEF Histories
  <2> QED  BY <2>2, <2>3, <2>4, <2>5, <2>6 DEF Rests, Outside
<1>2. CASE StoreLost
  <2>1. /\ store' = Synced(None) /\ lock = None
        /\ UNCHANGED <<ledger, phase, st, next, backup, size, own, job, tx, issued>>
        /\ used'["outages"] = used["outages"]
    BY <1>2, FaultsSpent DEF StoreLost, section, ghosts
  <2>2. store'.now = None /\ store'.disk = {None}
    BY <2>1 DEF Synced
  <2>3. \A q \in Procs : phase[q] \in {"idle", "waiting"}
    BY <2>1, NoneAssumption DEF TypeInv, TypeOK, LockInv, InSection
  <2>4. \A q \in Procs : PlaceInv(q)' /\ next'[q] = Empty
    BY <2>1, <2>3 DEF PlacesInv, PlaceInv, Outside, Holding
  <2>5. Histories' = Histories
    BY <2>1 DEF Histories
  <2> QED  BY <2>1, <2>2, <2>3, <2>4, <2>5 DEF PlacesInv, Rests, Outside
<1>3. CASE Tick \/ UNCHANGED vars
  <2>1. UNCHANGED <<store, ledger, phase, job, st, next, backup, size, own, tx, used,
                    issued>>
    BY <1>3 DEF Tick, vars, section, ghosts
  <2>2. PlacesInv'
    BY <2>1 DEF PlacesInv, PlaceInv, Current
  <2> QED  BY <2>1, <2>2 DEF Idles
<1> QED  BY <1>1, <1>2, <1>3

LEMMA StepCases ==
  ASSUME TypeInv, PlacesInv, [Next]_vars
  PROVE  PlacesInv' /\ Steps
<1>1. ASSUME NEW p \in Procs, Begin(p) \/ Acquire(p) \/ Work(p) \/ Fault(p) \/ Crash(p)
      PROVE  PlacesInv' /\ (Idles \/ Rests \/ Advances(p))
  <2>1. CASE Work(p)
    BY <2>1, ReloadPlaces, DecidePlaces, SavePlaces, AppendPlaces, RequestPlaces DEF Work
  <2>2. CASE Fault(p)
    BY <2>2, SavePlaces, AppendPlaces DEF Fault
  <2> QED  BY <1>1, <2>1, <2>2, RequestPlaces
<1>2. CASE PowerLoss \/ StoreLost \/ Tick \/ UNCHANGED vars
  BY <1>2, EnvironmentPlaces DEF Steps
<1>3. ASSUME NEW p \in Procs, Begin(p) \/ Acquire(p) \/ Work(p) \/ Fault(p) \/ Crash(p)
      PROVE  PlacesInv' /\ Steps
  BY <1>1, <1>3 DEF Steps
<1> QED  BY <1>2, <1>3 DEF Next

LEMMA PlacesInit == Init => PlacesInv
  BY DEF Init, PlacesInv, PlaceInv, Synced, Outside, Holding

(***************************************************************************)
(* How the envelopes and the lines that may survive grow.                  *)
(***************************************************************************)
\* The envelopes a power loss may leave, and those about to be saved.
Live == {e \in store.disk \cup {next[p] : p \in Procs} : e # None}

\* An envelope that was not there before.
Begun(e) ==
  /\ tx' = tx + 1
  /\ \E p \in Procs, kind \in Kinds, target \in Tables, prev \in Tables,
        agent \in Grants \cup {NoGrant} :
       /\ Opens(p, kind, target, prev, agent)
       /\ e = Prepared(st[p], kind, target, prev, agent)
Ended(e) ==
  \E f \in Live : /\ f.pend # None
                  /\ \/ e = Final(f)
                     \/ e = Aborted(f) /\ f.pend.kind = "issue"

\* A line appended to the ledger: the receipt of a live envelope, or a note.
Extended(h) ==
  \E p \in Procs :
    /\ Appending(p)
    /\ h = Append(ledger.now.lines, Line(p))
    /\ phase[p] = "append" => /\ st[p] \in Live /\ st[p].pend # None
                              /\ ledger.now.lines = st[p].pend.tail

LEMMA LiveFacts ==
  ASSUME TypeInv, PlacesInv
  PROVE  /\ Live \subseteq Envelopes
         /\ \A e \in store.disk : e # None => e \in Live
         /\ \A p \in Procs : next[p] \in Live
         /\ \A p \in Procs : st[p] = Empty \/ st[p] \in Live
         /\ \A p \in Procs : st[p].pend # None => st[p] \in Live
<1>1. Live \subseteq Envelopes /\ \A e \in store.disk : e # None => e \in Live
  BY DEF Live, TypeInv, TypeOK
<1>2. \A p \in Procs : next[p] \in Live
  BY EnvelopeFacts DEF Live, TypeInv, TypeOK
<1>3. ASSUME NEW p \in Procs PROVE st[p] = Empty \/ st[p] \in Live
  BY <1>1 DEF PlacesInv, PlaceInv, Current
<1> QED  BY <1>1, <1>2, <1>3, EmptyFacts

LEMMA EnvelopesGrow ==
  ASSUME TypeInv, PlacesInv, Steps, NEW e \in Live'
  PROVE  e \in Live \/ e = Empty \/ Begun(e) \/ Ended(e)
<1> USE LiveFacts
<1>1. e # None /\ (e \in store'.disk \/ \E p \in Procs : e = next'[p])
  BY DEF Live
<1>2. CASE Idles
  BY <1>1, <1>2 DEF Idles, Live
<1>3. CASE Rests
  BY <1>1, <1>3 DEF Rests
<1>4. ASSUME NEW p \in Procs, Advances(p), UNCHANGED <<store, next>>
      PROVE  e \in Live
  BY <1>1, <1>4
<1>5. ASSUME NEW p \in Procs, Advances(p), NEW n, next' = [next EXCEPT ![p] = n],
             store' = store, e \notin Live
      PROVE  e = n
  BY <1>1, <1>5 DEF TypeInv, TypeOK
<1>6. ASSUME NEW p \in Procs, Advances(p)
      PROVE  e \in Live \/ e = Empty \/ Begun(e) \/ Ended(e)
  <2>1. CASE \/ StartEmpty(p) \/ LoadClean(p) \/ Decides(p) \/ RecoverAppend(p)
             \/ SyncDirFails(p) \/ Writes(p) \/ WriteFails(p) \/ FsyncFails(p)
             \/ Truncate(p)
    <3>1. UNCHANGED <<store, next>>
      BY <2>1 DEF StartEmpty, LoadClean, Loads, Decides, MoveTo, RecoverAppend,
                  SyncDirFails, Writes, Write, WriteFails, FsyncFails, Truncate, section
    <3> QED  BY <1>4, <1>6, <3>1
  <2>2. CASE RecoverPresent(p)
    BY <1>5, <1>6, <2>2 DEF RecoverPresent, Recoverable, Ended, PlacesInv
  <2>3. CASE RecoverAbort(p)
    BY <1>5, <1>6, <2>3 DEF RecoverAbort, Recoverable, Ended, PlacesInv
  <2>4. ASSUME NEW kind \in Kinds, NEW target \in Tables, NEW prev \in Tables,
               NEW agent \in Grants \cup {NoGrant}, Opens(p, kind, target, prev, agent)
        PROVE  e \in Live \/ Begun(e)
    <3>1. /\ next' = [next EXCEPT ![p] = Prepared(st[p], kind, target, prev, agent)]
          /\ store' = store /\ tx' = tx + 1
      BY <2>4 DEF Opens, Commit
    <3> QED  BY <1>5, <1>6, <2>4, <3>1 DEF Begun
  <2>5. CASE Replace(p)
    <3>1. store'.disk = {store.now, next[p]} /\ next' = next
      BY <2>5 DEF Replace, Renamed, Synced
    <3> QED  BY <1>1, <3>1 DEF PlacesInv
  <2>6. CASE SyncDir(p)
    <3>1. store'.disk = {next[p]} /\ next' = next
      BY <2>6 DEF SyncDir, Synced
    <3> QED  BY <1>1, <3>1
  <2>7. CASE Fsync(p)
    <3>1. store' = store /\ \/ next' = next
                            \/ /\ st[p].pend # None
                               /\ next' = [next EXCEPT ![p] = Final(st[p])]
      BY <2>7 DEF Fsync
    <3> QED  BY <1>4, <1>5, <1>6, <3>1 DEF Ended
  <2> QED  BY <1>6, <2>1, <2>2, <2>3, <2>4, <2>5, <2>6, <2>7 DEF Advances
<1> QED  BY <1>2, <1>3, <1>6 DEF Steps

LEMMA HistoriesGrow ==
  ASSUME TypeInv, PlacesInv, Steps, NEW h \in Histories'
  PROVE  h \in Histories \/ Extended(h)
<1>1. PICK v \in ledger'.disk : h = v.lines
  BY DEF Histories
<1>2. \A u \in ledger.disk : u.lines \in Histories
  BY DEF Histories
<1>3. ledger.now.lines \in Histories
  BY <1>2 DEF PlacesInv
<1>4. \A u \in RepairedFile.disk : u.lines \in Histories
  BY <1>2, <1>3, WholeFacts DEF PlacesInv, Repaired, Whole
<1>5. \A u \in TornTail : u.lines = ledger.now.lines
  BY DEF TornTail
<1>6. CASE Idles
  BY <1>1, <1>2, <1>6 DEF Idles
<1>7. CASE Rests
  BY <1>7 DEF Rests
<1>8. ASSUME NEW p \in Procs, Advances(p) PROVE h \in Histories \/ Extended(h)
  <2>1. CASE UNCHANGED ledger
    BY <1>1, <1>2, <2>1
  <2>2. CASE Writes(p)
    <3>1. \/ UNCHANGED ledger
          \/ ledger' = Written(RepairedFile, Whole(Append(ledger.now.lines, Line(p))),
                               TornTail)
      BY <2>2 DEF Writes, Write
    <3>2. v \in RepairedFile.disk \/ v = Whole(Append(ledger.now.lines, Line(p)))
          \/ v \in TornTail \/ v \in ledger.disk
      BY <1>1, <3>1 DEF Written
    <3>3. phase[p] = "append" => /\ st[p] \in Live /\ st[p].pend # None
                                 /\ ledger.now.lines = st[p].pend.tail
      BY <2>2, LiveFacts DEF Writes, TypeInv, AppendingInv
    <3>4. Appending(p)
      BY <2>2 DEF Writes, Write
    <3> QED  BY <1>1, <1>2, <1>3, <1>4, <1>5, <3>2, <3>3, <3>4 DEF Extended, Whole
  <2>3. CASE WriteFails(p)
    <3>1. PICK u \in {Repaired} \cup TornTail : ledger' = Written(RepairedFile, u, {})
      BY <2>3 DEF WriteFails
    <3>2. u.lines = ledger.now.lines
      BY <1>5, <3>1 DEF Repaired, Whole
    <3>3. v \in RepairedFile.disk \/ v = u
      BY <1>1, <3>1 DEF Written
    <3> QED  BY <1>1, <1>3, <1>4, <3>2, <3>3
  <2>4. CASE Fsync(p)
    BY <1>1, <1>3, <2>4 DEF Fsync, Synced
  <2>5. CASE Truncate(p)
    <3>1. v \in ledger.disk \/ v = Whole(SubSeq(ledger.now.lines, 1, size[p]))
      BY <1>1, <2>5 DEF Truncate, Written
    <3>2. Whole(SubSeq(ledger.now.lines, 1, size[p])) \in ledger.disk
      BY <2>5 DEF Truncate, PlacesInv, PlaceInv
    <3> QED  BY <1>1, <1>2, <3>1, <3>2
  <2>6. ASSUME NEW kind \in Kinds, NEW target \in Tables, NEW prev \in Tables,
               NEW agent \in Grants \cup {NoGrant}, Opens(p, kind, target, prev, agent)
        PROVE  h \in Histories
    BY <1>1, <1>3, <2>6 DEF Opens, Commit, Synced, Repaired, Whole
  <2> QED  BY <1>8, <2>1, <2>2, <2>3, <2>4, <2>5, <2>6
           DEF Advances, StartEmpty, LoadClean, Loads, Decides, MoveTo, RecoverPresent,
               RecoverAbort, RecoverAppend, Replace, SyncDir, SyncDirFails, FsyncFails
<1> QED  BY <1>6, <1>7, <1>8 DEF Steps

(***************************************************************************)
(* What the store accepts.                                                 *)
(***************************************************************************)
\* A clean envelope holds the table its witness binds.
Good(e) ==
  /\ Accepted(e)
  /\ e.pend = None => e.grants = IF e.rev = 0 THEN NoTable ELSE e.wit.target

GoodInv == TypeInv /\ PlacesInv /\ \A e \in Live : Good(e)

LEMMA SameTable ==
  ASSUME NEW t \in Tables, NEW u, u = [g \in DOMAIN u |-> u[g]],
         DOMAIN t = DOMAIN u, \A g \in DOMAIN t : t[g] = u[g]
  PROVE  t = u
<1>1. PICK S \in SUBSET Grants : t \in [S -> Statuses]
  BY DEF Tables
<1>2. t = [g \in DOMAIN t |-> t[g]]
  BY <1>1
<1> QED  BY <1>2

LEMMA PreparedFields ==
  ASSUME TypeInv, NEW e \in Envelopes, NEW kind \in Kinds, NEW target \in Tables,
         NEW prev \in Tables, NEW agent \in Grants \cup {NoGrant}
  PROVE  LET n == Prepared(e, kind, target, prev, agent)
         IN  /\ n.rev = e.rev /\ n.wit = e.wit
             /\ n.grants = Effective(kind, e.grants, target)
             /\ n.pend # None /\ n.pend.kind = kind /\ n.pend.base = e.rev
             /\ n.pend.target = target /\ n.pend.prev = prev
             /\ n.pend.tail = ledger.now.lines
             /\ n.pend.event.type = EventType(kind) /\ n.pend.event.agent = agent
             /\ n.pend.event.tx = tx + 1 /\ n.pend.event.rev = e.rev + 1
<1> DEFINE pend == [kind |-> kind, base |-> e.rev, target |-> target,
                    prev |-> prev, tail |-> ledger.now.lines,
                    event |-> [type |-> EventType(kind), agent |-> agent,
                               tx |-> tx + 1, rev |-> e.rev + 1]]
<1>1. /\ pend.kind = kind /\ pend.base = e.rev /\ pend.target = target
      /\ pend.prev = prev /\ pend.tail = ledger.now.lines
      /\ pend.event.type = EventType(kind) /\ pend.event.agent = agent
      /\ pend.event.tx = tx + 1 /\ pend.event.rev = e.rev + 1
  OBVIOUS
<1>2. Prepared(e, kind, target, prev, agent) =
        [e EXCEPT !.grants = Effective(kind, e.grants, target), !.pend = pend]
  BY DEF Prepared
<1>3. Prepared(e, kind, target, prev, agent).pend # None
  BY PreparedFacts DEF TypeInv
<1> HIDE DEF pend
<1>4. \A effective : LET n == [e EXCEPT !.grants = effective, !.pend = pend]
                     IN  /\ n.rev = e.rev /\ n.wit = e.wit
                         /\ n.grants = effective /\ n.pend = pend
  BY DEF Envelopes
<1> QED  BY <1>1, <1>2, <1>3, <1>4

LEMMA PreparedGood ==
  ASSUME GoodInv, NEW p \in Procs, NEW kind \in Kinds, NEW target \in Tables,
         NEW prev \in Tables, NEW agent \in Grants \cup {NoGrant},
         Opens(p, kind, target, prev, agent), Good(st[p])
  PROVE  Good(Prepared(st[p], kind, target, prev, agent))
<1>1. PICK e \in Envelopes : e = st[p]
  BY DEF GoodInv, TypeInv, TypeOK
<1>2. PICK n : n = Prepared(e, kind, target, prev, agent)
  OBVIOUS
<1> SUFFICES Good(n)
  BY <1>1, <1>2
<1>3. /\ e.pend = None /\ Good(e) /\ e.grants \in Tables /\ DOMAIN e.grants \subseteq Grants
      /\ \A g \in DOMAIN e.grants : e.grants[g] \in Statuses
  BY <1>1, EnvelopeFacts, TableFacts DEF Opens
<1>4. /\ n.rev = e.rev /\ n.wit = e.wit
      /\ n.grants = Effective(kind, e.grants, target)
      /\ n.pend # None /\ n.pend.kind = kind /\ n.pend.base = e.rev
      /\ n.pend.target = target /\ n.pend.prev = prev
      /\ n.pend.event.type = EventType(kind) /\ n.pend.event.rev = e.rev + 1
  <2>1. TypeInv
    BY DEF GoodInv
  <2> QED  BY <1>2, <2>1, PreparedFields
<1>5. e.grants = IF e.rev = 0 THEN NoTable ELSE e.wit.target
  BY <1>3 DEF Good
<1>6. ASSUME NEW S \in SUBSET Grants, S # {}, S \cap DOMAIN e.grants = {},
             target = With(e.grants, S, "ACTIVE"), prev = NoTable,
             \/ kind = "issue" /\ Cardinality(S) = 1
             \/ kind = "demo_seed" /\ e.rev = 0 /\ e.grants = NoTable
      PROVE  AdditionAccepted(n) /\ BaseTable(n) = e.grants
  <2>1. /\ DOMAIN target = DOMAIN e.grants \cup S
        /\ \A g \in DOMAIN target : target[g] = IF g \in S THEN "ACTIVE" ELSE e.grants[g]
    BY <1>6 DEF With
  <2>2. n.grants = e.grants
    BY <1>4, <1>6 DEF Effective
  <2>3. DOMAIN n.pend.target \ DOMAIN n.grants = S /\ S \subseteq ActiveIn(n.pend.target)
    BY <1>4, <1>6, <2>1, <2>2 DEF ActiveIn
  <2>4. e.grants = Only(target, DOMAIN e.grants)
    <3>1. /\ DOMAIN e.grants \in SUBSET Grants
          /\ \A g \in DOMAIN e.grants : target[g] = e.grants[g]
      BY <1>3, <1>6, <2>1
    <3>2. /\ DOMAIN Only(target, DOMAIN e.grants) = DOMAIN e.grants
          /\ \A g \in DOMAIN e.grants : Only(target, DOMAIN e.grants)[g] = target[g]
          /\ Only(target, DOMAIN e.grants) =
               [g \in DOMAIN e.grants |-> Only(target, DOMAIN e.grants)[g]]
      BY DEF Only
    <3> QED  BY <1>3, <3>1, <3>2, SameTable
  <2>5. BaseTable(n) = e.grants
    BY <1>4, <1>6, <2>2 DEF BaseTable
  <2> QED  BY <1>4, <1>6, <2>1, <2>2, <2>3, <2>4, <2>5 DEF AdditionAccepted
<1>7. CASE kind = "demo_seed"
  <2>1. /\ e = Empty /\ Seeds \in SUBSET Grants /\ Seeds # {}
        /\ target = With(NoTable, Seeds, "ACTIVE") /\ prev = NoTable
    BY <1>1, <1>7, GrantsAssumption
    DEF Opens, GoodInv, PlacesInv, PlaceInv, Outside
  <2>2. AdditionAccepted(n) /\ BaseTable(n) = e.grants
    BY <1>6, <1>7, <2>1, EmptyFacts DEF Empty
  <2> QED  BY <1>3, <1>4, <1>5, <1>7, <2>2 DEF Good, Accepted
<1>8. CASE kind = "issue"
  <2>1. /\ agent \in Grants \ DOMAIN e.grants
        /\ target = With(e.grants, {agent}, "ACTIVE") /\ prev = NoTable
    BY <1>1, <1>8 DEF Opens
  <2>2. Cardinality({agent}) = 1
    BY FS_Singleton
  <2>3. AdditionAccepted(n) /\ BaseTable(n) = e.grants
    BY <1>6, <1>8, <2>1, <2>2
  <2> QED  BY <1>3, <1>4, <1>5, <1>8, <2>3 DEF Good, Accepted
<1>9. CASE kind \in {"revoke", "expire", "suspend_all"}
  <2>1. PICK S \in SUBSET DOMAIN e.grants :
          /\ \A g \in S : e.grants[g] \in From(kind)
          /\ IF kind = "suspend_all" THEN S = ActiveIn(e.grants) ELSE S = {agent}
          /\ target = With(e.grants, S, To(kind))
          /\ prev = Only(e.grants, S)
    BY <1>1, <1>9 DEF Opens
  <2>2. To(kind) \in Statuses /\ To(kind) # "ACTIVE" /\ S \in SUBSET Grants
    BY <1>3, <1>9 DEF To, Statuses
  <2>3. /\ DOMAIN target = DOMAIN e.grants
        /\ \A g \in DOMAIN target : target[g] = IF g \in S THEN To(kind) ELSE e.grants[g]
        /\ DOMAIN prev = S /\ \A g \in S : prev[g] = e.grants[g]
    BY <2>1 DEF With, Only
  <2>4. n.grants = target
    BY <1>4, <1>9 DEF Effective
  <2>5. kind = "suspend_all" => ActiveIn(target) = {}
    BY <2>1, <2>2, <2>3 DEF ActiveIn
  <2>6. kind # "suspend_all" => Cardinality(S) = 1
    BY <2>1, FS_Singleton
  <2>7. RestrictionAccepted(n)
    BY <1>4, <2>1, <2>3, <2>4, <2>5, <2>6 DEF RestrictionAccepted
  <2>8. BaseTable(n) = e.grants
    <3> DEFINE b == [g \in DOMAIN target |-> IF g \in DOMAIN prev THEN prev[g] ELSE target[g]]
    <3>1. BaseTable(n) = b
      BY <1>4, <1>9 DEF BaseTable
    <3>2. DOMAIN b = DOMAIN e.grants /\ b = [g \in DOMAIN b |-> b[g]]
      BY <2>3
    <3>3. \A g \in DOMAIN e.grants : e.grants[g] = b[g]
      BY <2>3
    <3> QED  BY <1>3, <3>1, <3>2, <3>3, SameTable
  <2> QED  BY <1>3, <1>4, <1>5, <1>9, <2>7, <2>8 DEF Good, Accepted
<1> QED  BY <1>7, <1>8, <1>9 DEF Kinds

LEMMA EndedGood ==
  ASSUME NEW f \in Envelopes, f.pend # None, Good(f)
  PROVE  Good(Final(f)) /\ (f.pend.kind = "issue" => Good(Aborted(f)))
<1>1. /\ f.pend.event.rev = f.rev + 1 /\ f.rev \in Nat
      /\ f.rev = 0 <=> f.wit = None
      /\ f.wit # None => f.wit.event.rev = f.rev
      /\ BaseTable(f) = IF f.rev = 0 THEN NoTable ELSE f.wit.target
  BY EnvelopeFacts DEF Good, Accepted
<1>2. Good(Final(f))
  <2>1. PICK w : w = [off |-> Len(f.pend.tail), event |-> f.pend.event,
                      target |-> f.pend.target]
    OBVIOUS
  <2>2. w \in Witnesses
    BY <2>1, EnvelopeFacts DEF Witnesses
  <2>3. w # None /\ w.event = f.pend.event /\ w.target = f.pend.target
    BY <2>1, <2>2, NoneAssumption
  <2>4. Final(f) = [rev |-> f.pend.event.rev, grants |-> f.pend.target,
                    pend |-> None, wit |-> w]
    BY <2>1 DEF Final
  <2> QED  BY <1>1, <2>3, <2>4 DEF Good, Accepted
<1>3. ASSUME f.pend.kind = "issue" PROVE Good(Aborted(f))
  <2>1. f.grants = IF f.rev = 0 THEN NoTable ELSE f.wit.target
    BY <1>1, <1>3 DEF BaseTable
  <2>2. /\ Aborted(f).pend = None /\ Aborted(f).grants = f.grants
        /\ Aborted(f).rev = f.rev /\ Aborted(f).wit = f.wit
    BY DEF Aborted, Envelopes
  <2> QED  BY <1>1, <2>1, <2>2 DEF Good, Accepted
<1> QED  BY <1>2, <1>3

LEMMA EmptyGood == Good(Empty)
  BY EmptyFacts DEF Good, Accepted, Empty

LEMMA HeldGood ==
  ASSUME GoodInv, NEW p \in Procs
  PROVE  Good(st[p])
  BY LiveFacts, EmptyGood DEF GoodInv

LEMMA GoodStep ==
  ASSUME GoodInv, [Next]_vars
  PROVE  GoodInv' /\ Steps
<1>1. TypeInv' /\ PlacesInv' /\ Steps
  BY TypeStep, StepCases DEF GoodInv
<1>2. ASSUME NEW e \in Live' PROVE Good(e)
  <2>1. e \in Live \/ e = Empty \/ Begun(e) \/ Ended(e)
    BY <1>1, EnvelopesGrow DEF GoodInv
  <2>2. ASSUME Begun(e) PROVE Good(e)
    <3>1. PICK p \in Procs, kind \in Kinds, target \in Tables, prev \in Tables,
               agent \in Grants \cup {NoGrant} :
            /\ Opens(p, kind, target, prev, agent)
            /\ e = Prepared(st[p], kind, target, prev, agent)
      BY <2>2 DEF Begun
    <3> QED  BY <3>1, HeldGood, PreparedGood
  <2>3. ASSUME Ended(e) PROVE Good(e)
    <3>1. PICK f \in Live : /\ f.pend # None
                            /\ \/ e = Final(f)
                               \/ e = Aborted(f) /\ f.pend.kind = "issue"
      BY <2>3 DEF Ended
    <3>2. f \in Envelopes /\ Good(f)
      BY LiveFacts DEF GoodInv
    <3> QED  BY <3>1, <3>2, EndedGood
  <2> QED  BY <2>1, <2>2, <2>3, EmptyGood DEF GoodInv
<1>3. ASSUME NEW e \in Live' PROVE Good(e)'
  <2>1. Good(e)
    BY <1>2
  <2> QED  BY <2>1 DEF Good, Accepted, AdditionAccepted, RestrictionAccepted, BaseTable
<1> QED  BY <1>1, <1>3 DEF GoodInv

LEMMA GoodInvariant == Spec => []GoodInv
<1>1. Init => GoodInv
  <2> SUFFICES ASSUME Init PROVE GoodInv
    OBVIOUS
  <2>1. store.disk = {None} /\ \A p \in Procs : next[p] = Empty
    BY DEF Init, Synced
  <2>2. \A e \in Live : e = Empty
    BY <2>1 DEF Live
  <2> QED  BY <2>2, TypeInit, PlacesInit, EmptyGood DEF GoodInv
<1>2. GoodInv /\ [Next]_vars => GoodInv'
  BY GoodStep
<1> QED  BY <1>1, <1>2, PTL DEF Spec

\* No transition is ever refused by the store's own validation: whatever a
\* section saves, to begin, finish or undo a transaction, is what save_state
\* accepts, after any failures, crashes, power losses and recoveries.
THEOREM SavedIsAccepted == Spec => []EnvelopesAccepted
<1>1. GoodInv => EnvelopesAccepted
  BY LiveFacts DEF GoodInv, Good, EnvelopesAccepted
<1> QED  BY <1>1, GoodInvariant, PTL

(***************************************************************************)
(* The lines of the ledger.                                                *)
(***************************************************************************)
LEMMA HistoryFacts ==
  ASSUME TypeInv, PlacesInv
  PROVE  Histories \subseteq Seq(Events) /\ ledger.now.lines \in Histories
<1>1. ledger.disk \subseteq Ledgers
  BY DEF TypeInv, TypeOK
<1>2. Histories \subseteq Seq(Events)
  BY <1>1 DEF Histories, Ledgers
<1> QED  BY <1>2 DEF Histories, PlacesInv

LEMMA AppendFacts ==
  ASSUME NEW s \in Seq(Events), NEW line \in Events
  PROVE  /\ Append(s, line) \in Seq(Events)
         /\ Len(s) \in Nat /\ Len(Append(s, line)) = Len(s) + 1
         /\ \A i \in 1 .. Len(s) : Append(s, line)[i] = s[i]
         /\ Append(s, line)[Len(s) + 1] = line
  OBVIOUS

\* An appended line is a note or the receipt of a live envelope.
LEMMA ExtendedFacts ==
  ASSUME TypeInv, PlacesInv, NEW h, Extended(h)
  PROVE  \E line \in Events :
           /\ h = Append(ledger.now.lines, line)
           /\ \/ line.tx = 0 /\ line.type \in {"READ", "DENY"}
              \/ \E e \in Live : /\ e.pend # None /\ line = e.pend.event
                                 /\ ledger.now.lines = e.pend.tail
<1>1. PICK p \in Procs :
        /\ Appending(p)
        /\ h = Append(ledger.now.lines, Line(p))
        /\ phase[p] = "append" => /\ st[p] \in Live /\ st[p].pend # None
                                  /\ ledger.now.lines = st[p].pend.tail
  BY DEF Extended
<1>2. Line(p) \in Events
  BY <1>1, LineFacts
<1>3. phase[p] = "append" => Line(p) = st[p].pend.event
  BY DEF Line
<1>4. phase[p] # "append" => Line(p).tx = 0 /\ Line(p).type \in {"READ", "DENY"}
  BY <1>1 DEF Appending, Line, Note
<1> QED  BY <1>1, <1>2, <1>3, <1>4

(***************************************************************************)
(* Demo seeds are installed over an empty ledger, and their receipt is its *)
(* first line.                                                             *)
(***************************************************************************)
SeedInv ==
  /\ \A h \in Histories : \A i \in 1 .. Len(h) : h[i].type = "PROVISION" => i = 1
  /\ \A e \in Live : e.pend # None /\ e.pend.event.type = "PROVISION" =>
       e.pend.tail = <<>>

LEMMA SeedStep ==
  ASSUME GoodInv, SeedInv, [Next]_vars
  PROVE  SeedInv'
<1>1. TypeInv /\ PlacesInv /\ Steps /\ Live \subseteq Envelopes
  BY GoodStep, LiveFacts DEF GoodInv
<1>2. ASSUME NEW h \in Histories', NEW i \in 1 .. Len(h), h[i].type = "PROVISION"
      PROVE  i = 1
  <2>1. CASE h \in Histories
    BY <1>2, <2>1 DEF SeedInv
  <2>2. CASE Extended(h)
    <3>1. PICK line \in Events :
            /\ h = Append(ledger.now.lines, line)
            /\ \/ line.type \in {"READ", "DENY"}
               \/ \E e \in Live : /\ e.pend # None /\ line = e.pend.event
                                  /\ ledger.now.lines = e.pend.tail
      BY <1>1, <2>2, ExtendedFacts
    <3>2. ledger.now.lines \in Seq(Events) /\ ledger.now.lines \in Histories
      BY <1>1, HistoryFacts
    <3>3. CASE i \in 1 .. Len(ledger.now.lines)
      BY <1>2, <3>1, <3>2, <3>3, AppendFacts DEF SeedInv
    <3>4. CASE i = Len(ledger.now.lines) + 1
      <4>1. line.type = "PROVISION"
        BY <1>2, <3>1, <3>2, <3>4, AppendFacts
      <4>2. ledger.now.lines = <<>>
        BY <3>1, <4>1 DEF SeedInv
      <4> QED  BY <3>4, <4>2
    <3> QED  BY <1>2, <3>1, <3>2, <3>3, <3>4, AppendFacts
  <2> QED  BY <1>1, <1>2, <2>1, <2>2, HistoriesGrow
<1>3. ASSUME NEW e \in Live', e.pend # None, e.pend.event.type = "PROVISION"
      PROVE  e.pend.tail = <<>>
  <2>1. CASE Begun(e)
    <3>1. PICK p \in Procs, kind \in Kinds, target \in Tables, prev \in Tables,
               agent \in Grants \cup {NoGrant} :
            /\ Opens(p, kind, target, prev, agent)
            /\ e = Prepared(st[p], kind, target, prev, agent)
      BY <2>1 DEF Begun
    <3>2. st[p] \in Envelopes
      BY <1>1 DEF TypeInv, TypeOK
    <3>3. e.pend.event.type = EventType(kind) /\ e.pend.tail = ledger.now.lines
      BY <1>1, <3>1, <3>2, PreparedFields
    <3>4. kind = "demo_seed"
      BY <1>3, <3>3 DEF EventType, Kinds
    <3> QED  BY <3>1, <3>3, <3>4 DEF Opens, HasHistory
  <2>2. CASE Ended(e)
    BY <1>1, <1>3, <2>2, FinalFacts DEF Ended
  <2> QED  BY <1>1, <1>3, <2>1, <2>2, EmptyFacts, EnvelopesGrow DEF SeedInv
<1> QED  BY <1>2, <1>3 DEF SeedInv

\* Demo seeds are installed at the first boot only: whatever was lost, a ledger
\* that has any line is never given a PROVISION receipt.
THEOREM SeedsAtFirstBoot == Spec => []SeedsOnlyAtFirstBoot
<1>1. Init => SeedInv
  <2> SUFFICES ASSUME Init PROVE SeedInv
    OBVIOUS
  <2>1. /\ ledger.disk = {Whole(<<>>)} /\ store.disk = {None}
        /\ \A p \in Procs : next[p] = Empty
    BY DEF Init, Synced
  <2>2. Histories = {<<>>} /\ \A e \in Live : e = Empty
    BY <2>1 DEF Histories, Whole, Live
  <2> QED  BY <2>2, EmptyFacts DEF SeedInv
<1>2. GoodInv /\ SeedInv /\ [Next]_vars => SeedInv'
  BY SeedStep
<1>3. GoodInv /\ SeedInv => SeedsOnlyAtFirstBoot
  BY HistoryFacts DEF GoodInv, SeedInv, SeedsOnlyAtFirstBoot
<1> QED  BY <1>1, <1>2, <1>3, GoodInvariant, PTL DEF Spec

(***************************************************************************)
(* Claims: what an envelope says of the ledger.  A witness names a receipt *)
(* that is there, a pending transaction one that may be there.             *)
(***************************************************************************)
Claim(pend) == [off |-> Len(pend.tail), event |-> pend.event, target |-> pend.target]

Claims(e) == (IF e.wit = None THEN {} ELSE {e.wit}) \cup
             (IF e.pend = None THEN {} ELSE {Claim(e.pend)})

LiveClaims == UNION {Claims(e) : e \in Live}

\* A transaction id is of one claim, and is newer than what it was added to.
ClaimInv ==
  /\ GoodInv
  /\ \A c \in LiveClaims : c.event.tx \in 1 .. tx
  /\ \A c, d \in LiveClaims : c.event.tx = d.event.tx => c = d
  /\ \A h \in Histories : \A i \in 1 .. Len(h) : h[i].tx <= tx
  /\ \A e \in Live : e.pend # None =>
       \A i \in 1 .. Len(e.pend.tail) : e.pend.tail[i].tx < e.pend.event.tx

\* The claim of a transaction that begins.
NewClaim(c) ==
  /\ tx' = tx + 1 /\ c.event.tx = tx + 1
  /\ \E e \in Live' : Begun(e) /\ e.pend # None /\ c = Claim(e.pend)

LEMMA ClaimFacts ==
  ASSUME NEW e \in Envelopes
  PROVE  /\ e.pend # None => /\ Claim(e.pend) \in Claims(e)
                             /\ Claim(e.pend).off = Len(e.pend.tail)
                             /\ Claim(e.pend).event = e.pend.event
                             /\ Claim(e.pend).target = e.pend.target
         /\ e.wit # None => e.wit \in Claims(e)
         /\ \A c \in Claims(e) : \/ e.wit # None /\ c = e.wit
                                 \/ e.pend # None /\ c = Claim(e.pend)
         /\ Claims(e) \subseteq Witnesses
<1>1. e.pend # None => Claim(e.pend) \in Witnesses
  BY EnvelopeFacts DEF Claim, Witnesses
<1> QED  BY <1>1, EnvelopeFacts DEF Claims, Claim

LEMMA LiveClaimFacts ==
  ASSUME TypeInv, PlacesInv
  PROVE  /\ LiveClaims \subseteq Witnesses
         /\ \A e \in Live : Claims(e) \subseteq LiveClaims
         /\ \A e \in Live : e.pend # None => Claim(e.pend) \in LiveClaims
         /\ \A e \in Live : e.wit # None => e.wit \in LiveClaims
<1>1. \A e \in Live : Claims(e) \subseteq LiveClaims /\ e \in Envelopes
  BY LiveFacts DEF LiveClaims
<1> QED  BY <1>1, ClaimFacts DEF LiveClaims

\* The three envelopes of a transaction make the same claim of its receipt.
LEMMA EndedClaims ==
  ASSUME NEW f \in Envelopes, f.pend # None
  PROVE  Claims(Final(f)) \subseteq Claims(f) /\ Claims(Aborted(f)) \subseteq Claims(f)
<1>1. Final(f).wit = Claim(f.pend) /\ Final(f).pend = None
  BY DEF Final, Claim
<1>2. Aborted(f).wit = f.wit /\ Aborted(f).pend = None
  BY DEF Aborted, Envelopes
<1> QED  BY <1>1, <1>2 DEF Claims

\* A transaction that begins, by its fields.
LEMMA BegunFields ==
  ASSUME TypeInv, PlacesInv, NEW e, Begun(e)
  PROVE  /\ e \in Envelopes /\ e.pend # None /\ tx' = tx + 1
         /\ e.pend.event.tx = tx + 1 /\ e.pend.tail = ledger.now.lines
         /\ \E p \in Procs : /\ InSection(p) /\ next' = [next EXCEPT ![p] = e]
                             /\ e.wit = st[p].wit
<1>1. PICK p \in Procs, kind \in Kinds, target \in Tables, prev \in Tables,
           agent \in Grants \cup {NoGrant} :
        /\ Opens(p, kind, target, prev, agent)
        /\ e = Prepared(st[p], kind, target, prev, agent)
  BY DEF Begun
<1>2. st[p] \in Envelopes
  BY DEF TypeInv, TypeOK
<1>3. e \in Envelopes
  BY <1>1, <1>2, PreparedFacts DEF TypeInv
<1>4. /\ e.pend # None /\ e.pend.event.tx = tx + 1
      /\ e.pend.tail = ledger.now.lines /\ e.wit = st[p].wit
  BY <1>1, <1>2, PreparedFields
<1>5. InSection(p) /\ next' = [next EXCEPT ![p] = e]
  BY <1>1 DEF Opens, Commit, InSection
<1> QED  BY <1>3, <1>4, <1>5 DEF Begun

LEMMA BegunOnce ==
  ASSUME TypeInv, PlacesInv, NEW e, NEW f, Begun(e), Begun(f)
  PROVE  e = f
<1>1. PICK p \in Procs : InSection(p) /\ next' = [next EXCEPT ![p] = e]
  BY BegunFields
<1>2. PICK q \in Procs : InSection(q) /\ next' = [next EXCEPT ![q] = f]
  BY BegunFields
<1>3. p = q
  BY <1>1, <1>2 DEF TypeInv, LockInv
<1> QED  BY <1>1, <1>2, <1>3 DEF TypeInv, TypeOK

LEMMA ClaimsGrow ==
  ASSUME TypeInv, PlacesInv, Steps, NEW c \in LiveClaims'
  PROVE  c \in LiveClaims \/ NewClaim(c)
<1>1. PICK e \in Live' : c \in Claims(e)
  BY DEF LiveClaims, Claims, Claim
<1>2. Live \subseteq Envelopes
  BY LiveFacts
<1>3. CASE e \in Live
  BY <1>1, <1>3, LiveClaimFacts
<1>4. CASE e = Empty
  BY <1>1, <1>4, EmptyFacts DEF Claims, Empty
<1>5. CASE Begun(e)
  <2>1. PICK p \in Procs : e.wit = st[p].wit
    BY <1>5, BegunFields
  <2>2. e \in Envelopes /\ e.pend # None /\ tx' = tx + 1 /\ e.pend.event.tx = tx + 1
    BY <1>5, BegunFields
  <2>3. CASE c = e.wit /\ e.wit # None
    <3>1. st[p] \in Live
      BY <2>1, <2>3, LiveFacts DEF Empty
    <3> QED  BY <2>1, <2>3, <3>1, LiveClaimFacts
  <2>4. CASE c = Claim(e.pend)
    BY <1>5, <2>2, <2>4, ClaimFacts DEF NewClaim
  <2> QED  BY <1>1, <2>2, <2>3, <2>4, ClaimFacts
<1>6. CASE Ended(e)
  <2>1. PICK f \in Live : f.pend # None /\ (e = Final(f) \/ e = Aborted(f))
    BY <1>6 DEF Ended
  <2>2. c \in Claims(f)
    BY <1>1, <1>2, <2>1, EndedClaims
  <2> QED  BY <2>1, <2>2, LiveClaimFacts
<1> QED  BY <1>3, <1>4, <1>5, <1>6, EnvelopesGrow

LEMMA ClaimStep ==
  ASSUME ClaimInv, [Next]_vars
  PROVE  ClaimInv' /\ Steps
<1>1. TypeInv /\ PlacesInv /\ Steps /\ GoodInv'
  BY GoodStep DEF ClaimInv, GoodInv
<1>2. tx \in Nat /\ tx' \in Nat /\ (tx' = tx \/ tx' = tx + 1) /\ Live \subseteq Envelopes
  <2>1. tx \in Nat /\ tx' \in Nat
    BY <1>1 DEF GoodInv, TypeInv, TypeOK
  <2>2. ASSUME NEW p \in Procs, Advances(p) PROVE tx' = tx \/ tx' = tx + 1
    <3>1. CASE \E kind \in Kinds, target \in Tables, prev \in Tables,
                 agent \in Grants \cup {NoGrant} : Opens(p, kind, target, prev, agent)
      BY <3>1 DEF Opens, Commit
    <3>2. CASE \/ StartEmpty(p) \/ LoadClean(p) \/ Decides(p)
               \/ RecoverPresent(p) \/ RecoverAbort(p) \/ RecoverAppend(p)
      BY <3>2 DEF StartEmpty, LoadClean, Loads, Decides, MoveTo, RecoverPresent,
                  RecoverAbort, RecoverAppend
    <3>3. CASE Replace(p) \/ SyncDir(p) \/ SyncDirFails(p)
      BY <3>3 DEF Replace, SyncDir, SyncDirFails
    <3>4. CASE Writes(p) \/ WriteFails(p) \/ Fsync(p) \/ FsyncFails(p) \/ Truncate(p)
      BY <3>4 DEF Writes, Write, WriteFails, Fsync, FsyncFails, Truncate
    <3> QED  BY <2>2, <3>1, <3>2, <3>3, <3>4 DEF Advances
  <2>3. tx' = tx \/ tx' = tx + 1
    BY <1>1, <2>2 DEF Steps, Idles, Rests
  <2> QED  BY <1>1, <2>1, <2>3, LiveFacts
<1>3. ASSUME NEW c \in LiveClaims' PROVE c.event.tx \in 1 .. tx'
  BY <1>1, <1>2, <1>3, ClaimsGrow DEF ClaimInv, NewClaim
<1>4. ASSUME NEW c \in LiveClaims', NEW d \in LiveClaims', c.event.tx = d.event.tx
      PROVE  c = d
  <2>1. CASE c \in LiveClaims /\ d \in LiveClaims
    BY <1>4, <2>1 DEF ClaimInv
  <2>2. CASE NewClaim(c) /\ NewClaim(d)
    BY <1>1, <2>2, BegunOnce DEF NewClaim
  <2>3. CASE c \in LiveClaims /\ NewClaim(d)
    BY <1>2, <1>4, <2>3 DEF ClaimInv, NewClaim
  <2>4. CASE d \in LiveClaims /\ NewClaim(c)
    BY <1>2, <1>4, <2>4 DEF ClaimInv, NewClaim
  <2> QED  BY <1>1, <2>1, <2>2, <2>3, <2>4, ClaimsGrow
<1>5. ASSUME NEW h \in Histories', NEW i \in 1 .. Len(h) PROVE h[i].tx <= tx
  <2>1. CASE h \in Histories
    BY <2>1 DEF ClaimInv
  <2>2. CASE Extended(h)
    <3>1. PICK line \in Events :
            /\ h = Append(ledger.now.lines, line)
            /\ \/ line.tx = 0
               \/ \E e \in Live : e.pend # None /\ line = e.pend.event
      BY <1>1, <2>2, ExtendedFacts
    <3>2. line.tx <= tx
      BY <1>1, <1>2, <3>1, LiveClaimFacts, ClaimFacts DEF ClaimInv
    <3>3. ledger.now.lines \in Seq(Events) /\ ledger.now.lines \in Histories
      BY <1>1, HistoryFacts
    <3>4. i \in 1 .. Len(ledger.now.lines) \/ i = Len(ledger.now.lines) + 1
      BY <3>1, <3>3, AppendFacts
    <3> QED  BY <3>1, <3>2, <3>3, <3>4, AppendFacts DEF ClaimInv
  <2> QED  BY <1>1, <2>1, <2>2, HistoriesGrow
<1>6. Histories' \subseteq Seq(Events)
  <2>1. ledger'.disk \subseteq Ledgers
    BY <1>1 DEF GoodInv, TypeInv, TypeOK
  <2> QED  BY <2>1 DEF Histories, Ledgers
<1>7. ASSUME NEW h \in Histories', NEW i \in 1 .. Len(h) PROVE h[i].tx <= tx'
  <2>1. h \in Seq(Events) /\ h[i].tx <= tx
    BY <1>5, <1>6
  <2>2. h[i] \in Events
    BY <2>1
  <2>3. h[i].tx \in Nat
    BY <2>2 DEF Events
  <2> QED  BY <1>2, <2>1, <2>3
<1>8. ASSUME NEW e \in Live', e.pend # None, NEW i \in 1 .. Len(e.pend.tail)
      PROVE  e.pend.tail[i].tx < e.pend.event.tx
  <2>1. CASE Begun(e)
    <3>1. e.pend.event.tx = tx + 1 /\ e.pend.tail = ledger.now.lines
      BY <1>1, <2>1, BegunFields
    <3>2. ledger.now.lines \in Seq(Events) /\ ledger.now.lines \in Histories
      BY <1>1, HistoryFacts
    <3>3. e.pend.tail[i] \in Events /\ e.pend.tail[i].tx <= tx
      BY <1>8, <3>1, <3>2 DEF ClaimInv
    <3> QED  BY <1>2, <3>1, <3>3 DEF Events
  <2>2. CASE Ended(e)
    BY <1>2, <1>8, <2>2, FinalFacts DEF Ended
  <2> QED  BY <1>1, <1>8, <2>1, <2>2, EmptyFacts, EnvelopesGrow DEF ClaimInv
<1> QED  BY <1>1, <1>3, <1>4, <1>7, <1>8 DEF ClaimInv

(***************************************************************************)
(* A table is covered by lines that hold the receipt of each of its grants.*)
(***************************************************************************)
Covers(h, S) == \A g \in S : \E i \in 1 .. Len(h) : Admits(h[i], g)

Shows(h, c) == c.off < Len(h) /\ h[c.off + 1] = c.event

Explained(e) ==
  e.pend # None => /\ Covers(e.pend.tail, DOMAIN e.grants)
                   /\ Covers(Append(e.pend.tail, e.pend.event), DOMAIN e.pend.target)

CoveredIn(p) ==
  /\ phase[p] \in Saving => Covers(ledger.now.lines, DOMAIN next[p].grants)
  /\ phase[p] \notin Outside \cup Saving =>
       Covers(ledger.now.lines, DOMAIN st[p].grants)
  /\ phase[p] \in {"fsync", "truncate"} =>
       Covers(SubSeq(ledger.now.lines, 1, size[p]), DOMAIN st[p].grants)
  /\ phase[p] = "fsync" /\ st[p].pend # None =>
       Covers(ledger.now.lines, DOMAIN st[p].pend.target)

\* Where the receipt of a claim is, there are those of all the grants it binds.
CoverInv ==
  /\ ClaimInv
  /\ \A c \in LiveClaims, h \in Histories : Shows(h, c) => Covers(h, DOMAIN c.target)
  /\ \A e \in Live : Explained(e)
  /\ \A p \in Procs : CoveredIn(p)

LEMMA CoversAppend ==
  ASSUME NEW s \in Seq(Events), NEW line \in Events, NEW S, Covers(s, S)
  PROVE  Covers(Append(s, line), S)
<1> SUFFICES ASSUME NEW g \in S
             PROVE  \E i \in 1 .. Len(Append(s, line)) : Admits(Append(s, line)[i], g)
  BY DEF Covers
<1>1. PICK i \in 1 .. Len(s) : Admits(s[i], g)
  BY DEF Covers
<1>2. i \in 1 .. Len(Append(s, line)) /\ Append(s, line)[i] = s[i]
  BY AppendFacts
<1> QED  BY <1>1, <1>2

LEMMA CoversLast ==
  ASSUME NEW s \in Seq(Events), NEW line \in Events, NEW S, NEW T, Covers(s, S),
         \A g \in T : g \in S \/ Admits(line, g)
  PROVE  Covers(Append(s, line), T)
<1>1. Covers(Append(s, line), S)
  BY CoversAppend
<1>2. Len(s) + 1 \in 1 .. Len(Append(s, line)) /\ Append(s, line)[Len(s) + 1] = line
  BY AppendFacts
<1> QED  BY <1>1, <1>2 DEF Covers

LEMMA CoversNothing == \A s : Covers(s, DOMAIN NoTable)
  BY EmptyFacts DEF Covers

\* An absent receipt's ledger is the one its transaction was prepared against.
LEMMA AbsentFacts ==
  ASSUME TypeInv, NEW pend, Absent(pend)
  PROVE  ledger.now.lines = pend.tail
<1>1. ledger.now.lines \in Seq(Events)
  BY DEF TypeInv, TypeOK, Ledgers
<1> QED  BY <1>1 DEF Absent, PrefixMatches

\* p's section as it is when it begins a transaction.
LEMMA OpensCovered ==
  ASSUME CoverInv, NEW p \in Procs, NEW kind \in Kinds, NEW target \in Tables,
         NEW prev \in Tables, NEW agent \in Grants \cup {NoGrant},
         Opens(p, kind, target, prev, agent), NEW e,
         e = Prepared(st[p], kind, target, prev, agent)
  PROVE  Explained(e) /\ Covers(ledger.now.lines, DOMAIN e.grants)
<1>1. /\ TypeInv /\ PlacesInv /\ st[p] \in Envelopes /\ st[p].grants \in Tables
      /\ DOMAIN st[p].grants \subseteq Grants
      /\ ledger.now.lines \in Seq(Events) /\ CoveredIn(p)
  BY EnvelopeFacts, TableFacts, LedgerFacts
  DEF CoverInv, ClaimInv, GoodInv, TypeInv, TypeOK
<1>2. e \in Envelopes /\ e.pend \in Pendings /\ e.pend.event \in Events
  BY <1>1, PreparedFacts, EnvelopeFacts DEF TypeInv
<1>3. /\ e.grants = Effective(kind, st[p].grants, target)
      /\ e.pend.target = target /\ e.pend.tail = ledger.now.lines
      /\ e.pend.event.type = EventType(kind) /\ e.pend.event.agent = agent
  BY <1>1, PreparedFields
<1>4. Covers(ledger.now.lines, DOMAIN st[p].grants)
  <2>1. CASE phase[p] = "reload"
    BY <1>1, <2>1, EmptyFacts, CoversNothing DEF PlacesInv, PlaceInv, Outside
  <2>2. CASE phase[p] = "decide"
    BY <1>1, <2>2 DEF CoveredIn, Outside, Saving
  <2> QED  BY <2>1, <2>2 DEF Opens
<1>5. /\ \A g \in DOMAIN target : g \in DOMAIN st[p].grants \/ Admits(e.pend.event, g)
      /\ DOMAIN e.grants \subseteq DOMAIN st[p].grants
  <2>1. CASE kind = "demo_seed"
    <3>1. target = With(NoTable, Seeds, "ACTIVE") /\ e.grants = st[p].grants
      BY <1>3, <2>1 DEF Opens, Effective
    <3>2. DOMAIN target = Seeds
      BY <3>1, EmptyFacts DEF With
    <3> QED  BY <1>3, <2>1, <3>1, <3>2 DEF Admits, EventType
  <2>2. CASE kind = "issue"
    <3>1. target = With(st[p].grants, {agent}, "ACTIVE") /\ e.grants = st[p].grants
      BY <1>3, <2>2 DEF Opens, Effective
    <3>2. DOMAIN target = DOMAIN st[p].grants \cup {agent}
      BY <3>1 DEF With
    <3> QED  BY <1>3, <2>2, <3>1, <3>2 DEF Admits, EventType
  <2>3. CASE kind \in {"revoke", "expire", "suspend_all"}
    <3>1. PICK S \in SUBSET DOMAIN st[p].grants : target = With(st[p].grants, S, To(kind))
      BY <2>3 DEF Opens
    <3>2. DOMAIN target = DOMAIN st[p].grants /\ e.grants = target
      BY <1>3, <2>3, <3>1 DEF With, Effective
    <3> QED  BY <3>2
  <2> QED  BY <2>1, <2>2, <2>3 DEF Kinds
<1>6. Covers(ledger.now.lines, DOMAIN e.grants)
  BY <1>4, <1>5 DEF Covers
<1>7. Covers(Append(ledger.now.lines, e.pend.event), DOMAIN target)
  BY <1>1, <1>2, <1>4, <1>5, CoversLast
<1> QED  BY <1>3, <1>6, <1>7 DEF Explained

LEMMA ShownCovered ==
  ASSUME CoverInv, [Next]_vars
  PROVE  \A c \in LiveClaims', h \in Histories' : Shows(h, c) => Covers(h, DOMAIN c.target)
<1>1. TypeInv /\ PlacesInv /\ Steps /\ Live \subseteq Envelopes /\ tx \in Nat
  BY ClaimStep, LiveFacts DEF CoverInv, ClaimInv, GoodInv, TypeInv, TypeOK
<1>2. /\ ledger.now.lines \in Seq(Events) /\ ledger.now.lines \in Histories
      /\ Histories \subseteq Seq(Events)
  BY <1>1, HistoryFacts
<1>3. ASSUME NEW c \in LiveClaims', NEW h \in Histories', Shows(h, c)
      PROVE  Covers(h, DOMAIN c.target)
  <2>1. c.off \in Nat /\ c.event.tx \in Nat /\ (c \in LiveClaims \/ NewClaim(c))
    <3>1. c \in Witnesses
      <4>1. Live' \subseteq Envelopes
        <5>1. TypeInv'
          BY ClaimStep DEF CoverInv, ClaimInv, GoodInv
        <5> QED  BY <5>1 DEF TypeInv, TypeOK, Live
      <4>2. PICK e \in Live' : c \in Claims(e)
        BY DEF LiveClaims, Claims, Claim
      <4> QED  BY <4>1, <4>2, ClaimFacts
    <3>2. c.off \in Nat /\ c.event.tx \in Nat
      BY <3>1 DEF Witnesses, Events
    <3> QED  BY <1>1, <3>2, ClaimsGrow
  <2>2. CASE h \in Histories
    <3>1. h \in Seq(Events) /\ c.off + 1 \in 1 .. Len(h) /\ h[c.off + 1].tx = c.event.tx
      BY <1>2, <1>3, <2>1, <2>2 DEF Shows
    <3>2. c.event.tx <= tx
      BY <2>2, <3>1 DEF CoverInv, ClaimInv
    <3>3. c \in LiveClaims
      BY <1>1, <2>1, <3>2 DEF NewClaim
    <3> QED  BY <1>3, <2>2, <3>3 DEF CoverInv
  <2>3. CASE Extended(h)
    <3>1. PICK line \in Events :
            /\ h = Append(ledger.now.lines, line)
            /\ \/ line.tx = 0
               \/ \E e \in Live : /\ e.pend # None /\ line = e.pend.event
                                  /\ ledger.now.lines = e.pend.tail
      BY <1>1, <2>3, ExtendedFacts
    <3>2. line.tx <= tx /\ line.tx \in Nat
      <4>1. line.tx = 0 \/ line.tx \in 1 .. tx
        BY <1>1, <3>1, LiveClaimFacts, ClaimFacts DEF CoverInv, ClaimInv
      <4> QED  BY <1>1, <4>1
    <3>3. /\ c.off < Len(ledger.now.lines) + 1
          /\ Append(ledger.now.lines, line)[c.off + 1] = c.event
      BY <1>2, <1>3, <2>1, <3>1, AppendFacts DEF Shows
    <3>4. CASE c.off < Len(ledger.now.lines)
      <4>1. c.off + 1 \in 1 .. Len(ledger.now.lines) /\ Shows(ledger.now.lines, c)
        BY <1>2, <2>1, <3>3, <3>4, AppendFacts DEF Shows
      <4>2. c.event.tx <= tx
        BY <1>2, <4>1 DEF Shows, CoverInv, ClaimInv
      <4>3. c \in LiveClaims
        BY <1>1, <2>1, <4>2 DEF NewClaim
      <4>4. Covers(ledger.now.lines, DOMAIN c.target)
        BY <1>2, <4>1, <4>3 DEF CoverInv
      <4> QED  BY <1>2, <3>1, <4>4, CoversAppend
    <3>5. CASE c.off = Len(ledger.now.lines)
      <4>1. line = c.event
        BY <1>2, <3>3, <3>5, AppendFacts
      <4>2. c \in LiveClaims
        BY <1>1, <2>1, <3>2, <4>1 DEF NewClaim
      <4>3. c.event.tx \in 1 .. tx
        BY <4>2 DEF CoverInv, ClaimInv
      <4>4. PICK e \in Live : /\ e.pend # None /\ line = e.pend.event
                              /\ ledger.now.lines = e.pend.tail
        BY <3>1, <4>1, <4>3
      <4>5. Claim(e.pend) \in LiveClaims /\ Claim(e.pend).event = c.event
        BY <1>1, <4>1, <4>4, LiveClaimFacts, ClaimFacts
      <4>6. c = Claim(e.pend)
        BY <4>2, <4>5 DEF CoverInv, ClaimInv
      <4>7. c.target = e.pend.target
        BY <1>1, <4>4, <4>6, ClaimFacts
      <4>8. Explained(e)
        BY DEF CoverInv
      <4> QED  BY <3>1, <4>4, <4>7, <4>8 DEF Explained
    <3> QED  BY <1>2, <2>1, <3>3, <3>4, <3>5
  <2> QED  BY <1>1, <2>2, <2>3, HistoriesGrow
<1> QED  BY <1>3

LEMMA ExplainedStep ==
  ASSUME CoverInv, [Next]_vars
  PROVE  \A e \in Live' : Explained(e)
<1>1. TypeInv /\ PlacesInv /\ Steps /\ Live \subseteq Envelopes
  BY ClaimStep, LiveFacts DEF CoverInv, ClaimInv, GoodInv
<1>2. ASSUME NEW e \in Live' PROVE Explained(e)
  <2>1. CASE e \in Live
    BY <2>1 DEF CoverInv
  <2>2. CASE e = Empty \/ Ended(e)
    BY <1>1, <2>2, EmptyFacts, FinalFacts DEF Ended, Explained
  <2>3. CASE Begun(e)
    BY <2>3, OpensCovered DEF Begun
  <2> QED  BY <1>1, <2>1, <2>2, <2>3, EnvelopesGrow
<1> QED  BY <1>2

\* Along the phases of a section.
LEMMA CoveredAdvance ==
  ASSUME CoverInv, NEW p \in Procs, Advances(p), TypeInv'
  PROVE  CoveredIn(p)'
<1>1. /\ TypeInv /\ PlacesInv /\ TypeOK /\ Live \subseteq Envelopes
      /\ ledger.now.lines \in Seq(Events) /\ ledger.now.lines \in Histories
      /\ st[p] \in Envelopes /\ CoveredIn(p)
      /\ \A e \in store.disk : e # None => e \in Live
  BY LiveFacts, HistoryFacts DEF CoverInv, ClaimInv, GoodInv, TypeInv, TypeOK
<1> DEFINE lines == ledger.now.lines
<1>2. ASSUME NEW w, Goto(p, w) PROVE phase'[p] = w
  BY <1>1, <1>2 DEF Goto, TypeOK
<1>3. ASSUME NEW e, Loads(p, e), Covers(lines, DOMAIN e.grants)
      PROVE  CoveredIn(p)'
  <2>1. phase'[p] = "decide" /\ st'[p] = e /\ ledger' = ledger
    BY <1>1, <1>2, <1>3 DEF Loads, TypeOK
  <2> QED  BY <1>3, <2>1 DEF CoveredIn, Outside, Saving
<1>4. ASSUME NEW n, Goto(p, "save"), next' = [next EXCEPT ![p] = n],
             ledger'.now.lines = lines, Covers(lines, DOMAIN n.grants)
      PROVE  CoveredIn(p)'
  <2>1. phase'[p] = "save" /\ next'[p] = n
    BY <1>1, <1>2, <1>4 DEF TypeOK
  <2> QED  BY <1>4, <2>1 DEF CoveredIn, Outside, Saving
<1>5. ASSUME store.now # None PROVE store.now \in Live /\ store.now \in Envelopes
  BY <1>1, <1>5 DEF PlacesInv
<1>6. CASE StartEmpty(p)
  BY <1>3, <1>6, EmptyFacts, CoversNothing DEF StartEmpty
<1>7. CASE LoadClean(p)
  <2>1. store.now \in Live /\ VerifiedClean(store.now)
    BY <1>5, <1>7 DEF LoadClean
  <2>2. CASE store.now.rev = 0
    BY <1>3, <1>7, <2>1, <2>2, CoversNothing DEF LoadClean, VerifiedClean
  <2>3. CASE store.now.rev # 0
    <3>1. /\ store.now.wit \in LiveClaims /\ Shows(lines, store.now.wit)
          /\ store.now.grants = store.now.wit.target
      BY <1>1, <2>1, <2>3, LiveClaimFacts DEF VerifiedClean, Witnessed, Shows
    <3>2. Covers(lines, DOMAIN store.now.grants)
      BY <1>1, <3>1 DEF CoverInv
    <3> QED  BY <1>3, <1>7, <3>2 DEF LoadClean
  <2> QED  BY <2>2, <2>3
<1>8. CASE Decides(p)
  <2>1. PICK w \in {"lease", "refused", "reply"} : MoveTo(p, w) /\ phase[p] = "decide"
    BY <1>8 DEF Decides
  <2>2. phase'[p] = w /\ UNCHANGED <<ledger, st>>
    BY <1>2, <2>1 DEF MoveTo, section
  <2> QED  BY <1>1, <2>1, <2>2 DEF CoveredIn, Outside, Saving
<1>9. CASE RecoverPresent(p)
  <2>1. /\ store.now \in Live /\ store.now \in Envelopes /\ store.now.pend # None
        /\ Present(store.now.pend)
    BY <1>5, <1>9 DEF RecoverPresent, Recoverable
  <2>2. Claim(store.now.pend) \in LiveClaims /\ Shows(lines, Claim(store.now.pend))
    BY <1>1, <2>1, LiveClaimFacts, ClaimFacts DEF Present, Shows
  <2>3. Covers(lines, DOMAIN Final(store.now).grants)
    BY <1>1, <2>1, <2>2, FinalFacts, ClaimFacts DEF CoverInv
  <2> QED  BY <1>4, <1>9, <2>3 DEF RecoverPresent
<1>10. CASE RecoverAbort(p)
  <2>1. /\ store.now \in Live /\ store.now \in Envelopes /\ store.now.pend # None
        /\ lines = store.now.pend.tail
    BY <1>1, <1>5, <1>10, AbsentFacts DEF RecoverAbort, Recoverable
  <2>2. Covers(lines, DOMAIN Aborted(store.now).grants)
    BY <2>1, FinalFacts DEF CoverInv, Explained
  <2> QED  BY <1>4, <1>10, <2>2 DEF RecoverAbort
<1>11. CASE RecoverAppend(p)
  <2>1. /\ store.now \in Live /\ store.now.pend # None
        /\ lines = store.now.pend.tail
    BY <1>1, <1>5, <1>11, AbsentFacts DEF RecoverAppend, Recoverable
  <2>2. phase'[p] = "append" /\ st'[p] = store.now /\ ledger' = ledger
    BY <1>1, <1>2, <1>11 DEF RecoverAppend, TypeOK
  <2>3. Covers(lines, DOMAIN store.now.grants)
    BY <2>1 DEF CoverInv, Explained
  <2> QED  BY <2>2, <2>3 DEF CoveredIn, Outside, Saving
<1>12. ASSUME NEW kind \in Kinds, NEW target \in Tables, NEW prev \in Tables,
              NEW agent \in Grants \cup {NoGrant}, Opens(p, kind, target, prev, agent)
       PROVE  CoveredIn(p)'
  <2>1. PICK e : e = Prepared(st[p], kind, target, prev, agent)
    OBVIOUS
  <2>2. Covers(lines, DOMAIN e.grants)
    BY <1>12, <2>1, OpensCovered
  <2>3. /\ Goto(p, "save") /\ next' = [next EXCEPT ![p] = e]
        /\ ledger'.now.lines = lines
    BY <1>12, <2>1 DEF Opens, Commit, Synced, Repaired, Whole
  <2> QED  BY <1>4, <2>2, <2>3
<1>13. CASE Replace(p) \/ SyncDirFails(p)
  <2>1. /\ phase[p] \in Saving /\ phase'[p] \in {"syncdir", "unsave"}
        /\ UNCHANGED <<ledger, next>>
    BY <1>2, <1>13 DEF Replace, SyncDirFails, Saving, section
  <2> QED  BY <1>1, <2>1 DEF CoveredIn, Outside, Saving
<1>14. CASE SyncDir(p)
  <2>1. /\ phase[p] = "syncdir" /\ phase'[p] \in {"append", "reply", "decide"}
        /\ st'[p] = next[p] /\ ledger' = ledger
    BY <1>1, <1>2, <1>14 DEF SyncDir, TypeOK
  <2> QED  BY <1>1, <2>1 DEF CoveredIn, Outside, Saving
<1>15. CASE Writes(p)
  <2>1. PICK line \in Events : line = Line(p)
    BY <1>1, <1>15, LineFacts DEF Writes, Write
  <2>2. /\ Appending(p) /\ phase'[p] = "fsync" /\ size'[p] = Len(lines) /\ st' = st
        /\ ledger'.now.lines = Append(lines, line)
    BY <1>1, <1>2, <1>15, <2>1 DEF Writes, Write, Written, Whole, TypeOK
  <2>3. Covers(lines, DOMAIN st[p].grants)
    BY <1>1, <2>2 DEF Appending, CoveredIn, Outside, Saving
  <2>4. SubSeq(Append(lines, line), 1, Len(lines)) = lines
    BY <1>1
  <2>5. ASSUME st[p].pend # None PROVE Covers(Append(lines, line), DOMAIN st[p].pend.target)
    <3>1. phase[p] = "append"
      BY <1>1, <2>2, <2>5 DEF Appending, PlacesInv, PlaceInv, Holding
    <3>2. st[p] \in Live /\ lines = st[p].pend.tail /\ line = st[p].pend.event
      BY <1>1, <1>15, <2>1, <2>5, <3>1, LiveFacts DEF Writes, Line
    <3> QED  BY <2>5, <3>2 DEF CoverInv, Explained
  <2>6. Covers(Append(lines, line), DOMAIN st[p].grants)
    BY <1>1, <2>3, CoversAppend
  <2> QED  BY <2>2, <2>3, <2>4, <2>5, <2>6 DEF CoveredIn, Outside, Saving
<1>16. CASE WriteFails(p)
  <2>1. PICK v \in {Repaired} \cup TornTail : ledger' = Written(RepairedFile, v, {})
    BY <1>16 DEF WriteFails
  <2>2. ledger'.now.lines = lines
    BY <2>1 DEF Written, Repaired, Whole, TornTail
  <2>3. /\ Appending(p) /\ phase'[p] = "truncate" /\ size'[p] = Len(lines) /\ st' = st
    BY <1>1, <1>2, <1>16 DEF WriteFails, TypeOK
  <2>4. Covers(lines, DOMAIN st[p].grants)
    BY <1>1, <2>3 DEF Appending, CoveredIn, Outside, Saving
  <2>5. SubSeq(lines, 1, Len(lines)) = lines
    BY <1>1
  <2> QED  BY <2>2, <2>3, <2>4, <2>5 DEF CoveredIn, Outside, Saving
<1>17. CASE Fsync(p)
  <2>1. /\ phase[p] = "fsync" /\ ledger'.now.lines = lines /\ st' = st
        /\ Covers(lines, DOMAIN st[p].grants)
    BY <1>1, <1>17 DEF Fsync, Synced, CoveredIn, Outside, Saving
  <2>2. CASE st[p].pend = None
    <3>1. phase'[p] = "reply"
      BY <1>2, <1>17, <2>2 DEF Fsync
    <3> QED  BY <2>1, <3>1 DEF CoveredIn, Outside, Saving
  <2>3. CASE st[p].pend # None
    <3>1. Covers(lines, DOMAIN Final(st[p]).grants)
      BY <1>1, <2>1, <2>3, FinalFacts DEF CoveredIn
    <3> QED  BY <1>4, <1>17, <2>1, <2>3, <3>1 DEF Fsync
  <2> QED  BY <2>2, <2>3
<1>18. CASE FsyncFails(p)
  <2>1. /\ phase[p] = "fsync" /\ phase'[p] = "truncate" /\ UNCHANGED <<ledger, st, size>>
    BY <1>2, <1>18 DEF FsyncFails, section
  <2> QED  BY <1>1, <2>1 DEF CoveredIn, Outside, Saving
<1>19. CASE Truncate(p)
  <2>1. /\ phase[p] = "truncate" /\ phase'[p] = "resync" /\ st' = st
        /\ ledger'.now.lines = SubSeq(lines, 1, size[p])
    BY <1>2, <1>19 DEF Truncate, Written, Whole, section
  <2> QED  BY <1>1, <2>1 DEF CoveredIn, Outside, Saving
<1> QED  BY <1>6, <1>7, <1>8, <1>9, <1>10, <1>11, <1>12, <1>13, <1>14, <1>15, <1>16,
            <1>17, <1>18, <1>19 DEF Advances

LEMMA CoverStep ==
  ASSUME CoverInv, [Next]_vars
  PROVE  CoverInv'
<1>1. ClaimInv' /\ Steps /\ TypeInv' /\ TypeInv
  BY ClaimStep DEF CoverInv, ClaimInv, GoodInv
<1>2. ASSUME NEW q \in Procs PROVE CoveredIn(q)'
  <2>1. CASE phase'[q] \in Outside
    BY <2>1 DEF CoveredIn, Outside, Saving
  <2>2. CASE phase'[q] \notin Outside
    <3>1. CASE Idles
      <4>1. UNCHANGED <<ledger, st, next, size>> /\ phase'[q] = phase[q]
        BY <2>2, <3>1 DEF Idles
      <4>2. CoveredIn(q)
        BY DEF CoverInv
      <4> QED  BY <4>1, <4>2 DEF CoveredIn
    <3>2. ASSUME NEW p \in Procs, Advances(p) PROVE CoveredIn(q)'
      BY <1>1, <2>2, <3>2, CoveredAdvance DEF Advances
    <3> QED  BY <1>1, <2>2, <3>1, <3>2 DEF Steps, Rests
  <2> QED  BY <2>1, <2>2
<1>3. \A e \in Live' : Explained(e)'
  <2>1. \A e \in Live' : Explained(e)
    BY ExplainedStep
  <2> QED  BY <2>1 DEF Explained, Covers, Admits
<1>4. \A c \in LiveClaims', h \in Histories' :
        Shows(h, c)' => Covers(h, DOMAIN c.target)'
  <2>1. \A c \in LiveClaims', h \in Histories' : Shows(h, c) => Covers(h, DOMAIN c.target)
    BY ShownCovered
  <2> QED  BY <2>1 DEF Shows, Covers, Admits
<1> QED  BY <1>1, <1>2, <1>3, <1>4 DEF CoverInv

LEMMA NoClaimAtFirst ==
  ASSUME Init
  PROVE  LiveClaims = {} /\ Histories = {<<>>} /\ \A e \in Live : e = Empty
<1>1. /\ ledger.disk = {Whole(<<>>)} /\ store.disk = {None}
      /\ \A p \in Procs : next[p] = Empty
  BY DEF Init, Synced
<1>2. Histories = {<<>>} /\ \A e \in Live : e = Empty
  BY <1>1 DEF Histories, Whole, Live
<1>3. Claims(Empty) = {}
  BY EmptyFacts DEF Claims, Empty
<1> QED  BY <1>2, <1>3 DEF LiveClaims

LEMMA CoverInvariant == Spec => []CoverInv
<1>1. Init /\ GoodInv => CoverInv
  <2> SUFFICES ASSUME Init, GoodInv PROVE CoverInv
    OBVIOUS
  <2>1. LiveClaims = {} /\ Histories = {<<>>} /\ \A e \in Live : e.pend = None
    BY NoClaimAtFirst, EmptyFacts
  <2>2. \A p \in Procs : CoveredIn(p)
    BY DEF Init, CoveredIn, Outside, Saving
  <2> QED  BY <2>1, <2>2 DEF CoverInv, ClaimInv, Explained
<1>2. CoverInv /\ [Next]_vars => CoverInv'
  BY CoverStep
<1> QED  BY <1>1, <1>2, GoodInvariant, PTL DEF Spec

\* A grant is in use only while the ledger that everybody reads holds the
\* receipt that admitted it, whatever failed, stopped or was lost before.
THEOREM ReceiptsPrecedeUse == Spec => []ReceiptBeforeUse
<1>1. CoverInv => ReceiptBeforeUse
  <2> SUFFICES ASSUME CoverInv, NEW p \in Procs, InUse(p)
               PROVE  Admitted(ledger.now, job[p].grant)
    BY DEF ReceiptBeforeUse
  <2>1. Covers(ledger.now.lines, DOMAIN st[p].grants)
    BY DEF InUse, CoverInv, CoveredIn, Outside, Saving
  <2> QED  BY <2>1 DEF InUse, Known, Covers, Admitted
<1> QED  BY <1>1, CoverInvariant, PTL

(***************************************************************************)
(* Acknowledged issues.                                                    *)
(***************************************************************************)
KeptIn(p) ==
  /\ phase[p] \notin Outside => issued \subseteq DOMAIN st[p].grants
  /\ phase[p] \in Saving => issued \subseteq DOMAIN next[p].grants

\* p's own issue, from its pending envelope to the reply.
OwnIn(p) ==
  own[p] /\ job[p].op = "issue" =>
    /\ phase[p] \in Saving =>
         IF next[p].pend # None THEN job[p].grant \in DOMAIN next[p].pend.target
         ELSE job[p].grant \in DOMAIN next[p].grants /\ <<>> \notin Histories
    /\ phase[p] \in {"append", "fsync"} =>
         st[p].pend # None /\ job[p].grant \in DOMAIN st[p].pend.target
    /\ phase[p] = "fsync" => ledger.now.lines # <<>>
    /\ phase[p] = "reply" =>
         /\ job[p].grant \in DOMAIN st[p].grants
         /\ store.disk = {st[p]} /\ <<>> \notin Histories

\* Once an issue is acknowledged no surviving ledger is empty, so nothing starts
\* again from an empty table.
IssuedInv ==
  /\ \A e \in store.disk : e # None => issued \subseteq DOMAIN e.grants
  /\ issued # {} => <<>> \notin Histories
  /\ \A p \in Procs : KeptIn(p) /\ OwnIn(p)

\* No transaction removes a grant from the table it starts from.
LEMMA TargetKeeps ==
  ASSUME NEW e, e.pend # None, Good(e)
  PROVE  DOMAIN e.grants \subseteq DOMAIN e.pend.target
  BY DEF Good, Accepted, AdditionAccepted, RestrictionAccepted

LEMMA OpensKeeps ==
  ASSUME TypeInv, NEW p \in Procs, NEW kind \in Kinds, NEW target \in Tables,
         NEW prev \in Tables, NEW agent \in Grants \cup {NoGrant},
         Opens(p, kind, target, prev, agent), NEW e,
         e = Prepared(st[p], kind, target, prev, agent)
  PROVE  /\ DOMAIN st[p].grants \subseteq DOMAIN e.grants
         /\ e.pend # None
         /\ kind # "demo_seed" /\ job[p].op = "issue" =>
              job[p].grant \in DOMAIN e.pend.target
<1>1. /\ e.grants = Effective(kind, st[p].grants, target)
      /\ e.pend # None /\ e.pend.target = target
  BY PreparedFields DEF TypeInv, TypeOK
<1>2. CASE kind = "demo_seed"
  BY <1>1, <1>2 DEF Effective
<1>3. CASE kind = "issue"
  <2>1. target = With(st[p].grants, {agent}, "ACTIVE") /\ job[p].grant = agent
    BY <1>3 DEF Opens
  <2> QED  BY <1>1, <1>3, <2>1 DEF Effective, With
<1>4. CASE kind \in {"revoke", "expire", "suspend_all"}
  <2>1. PICK S \in SUBSET DOMAIN st[p].grants : target = With(st[p].grants, S, To(kind))
    BY <1>4 DEF Opens
  <2>2. DOMAIN target = DOMAIN st[p].grants /\ e.grants = target
    BY <1>1, <1>4, <2>1 DEF With, Effective
  <2>3. job[p].op # "issue"
    BY <1>4 DEF Opens
  <2> QED  BY <1>1, <2>2, <2>3
<1> QED  BY <1>2, <1>3, <1>4 DEF Kinds

LEMMA NoHistoryYet ==
  ASSUME TypeInv, PlacesInv, IssuedInv, ~HasHistory
  PROVE  issued = {}
<1>1. ledger.now.lines = <<>>
  BY DEF HasHistory
<1> QED  BY <1>1, HistoryFacts DEF IssuedInv

LEMMA HistoriesSame ==
  ASSUME UNCHANGED ledger
  PROVE  Histories' = Histories
  BY DEF Histories

LEMMA KeptAdvance ==
  ASSUME GoodInv, IssuedInv, NEW p \in Procs, Advances(p)
  PROVE  /\ issued' = issued
         /\ \A e \in store'.disk : e # None => issued \subseteq DOMAIN e.grants
         /\ KeptIn(p)'
<1>1. /\ TypeInv /\ PlacesInv /\ TypeOK /\ Live \subseteq Envelopes
      /\ \A e \in store.disk : e # None => e \in Live /\ issued \subseteq DOMAIN e.grants
      /\ \A e \in Live : Good(e)
      /\ KeptIn(p) /\ PlaceInv(p)
  BY LiveFacts DEF GoodInv, TypeInv, IssuedInv, PlacesInv
<1>2. ASSUME NEW w, Goto(p, w) PROVE phase'[p] = w
  BY <1>1, <1>2 DEF Goto, TypeOK
<1>3. ASSUME store.now # None
      PROVE  store.now \in Live /\ issued \subseteq DOMAIN store.now.grants
  BY <1>1, <1>3 DEF PlacesInv
<1>4. CASE StartEmpty(p)
  <2>1. issued = {}
    BY <1>1, <1>4, NoHistoryYet DEF StartEmpty
  <2>2. UNCHANGED <<store, issued>>
    BY <1>4 DEF StartEmpty, Loads, ghosts
  <2> QED  BY <2>1, <2>2 DEF KeptIn
<1>5. CASE LoadClean(p)
  <2>1. /\ store.now # None /\ phase'[p] = "decide" /\ st'[p] = store.now
        /\ UNCHANGED <<store, issued>>
    BY <1>1, <1>2, <1>5 DEF LoadClean, Loads, ghosts, TypeOK
  <2> QED  BY <1>1, <1>3, <2>1 DEF KeptIn, Saving
<1>6. CASE Decides(p)
  <2>1. PICK w \in {"lease", "refused", "reply"} : MoveTo(p, w) /\ phase[p] = "decide"
    BY <1>6 DEF Decides
  <2>2. phase'[p] = w /\ UNCHANGED <<store, st, issued>>
    BY <1>2, <2>1 DEF MoveTo, section, ghosts
  <2> QED  BY <1>1, <2>1, <2>2 DEF KeptIn, Outside, Saving
<1>7. CASE RecoverPresent(p) \/ RecoverAbort(p)
  <2>1. /\ store.now # None /\ store.now.pend # None /\ phase'[p] = "save"
        /\ st'[p] = store.now /\ next'[p] \in {Final(store.now), Aborted(store.now)}
        /\ UNCHANGED <<store, issued>>
    BY <1>1, <1>2, <1>7 DEF RecoverPresent, RecoverAbort, Recoverable, ghosts, TypeOK
  <2>2. issued \subseteq DOMAIN next'[p].grants
    BY <1>1, <1>3, <2>1, FinalFacts, TargetKeeps
  <2> QED  BY <1>1, <1>3, <2>1, <2>2 DEF KeptIn
<1>8. CASE RecoverAppend(p)
  <2>1. /\ store.now # None /\ phase'[p] = "append" /\ st'[p] = store.now
        /\ UNCHANGED <<store, issued>>
    BY <1>1, <1>2, <1>8 DEF RecoverAppend, Recoverable, ghosts, TypeOK
  <2> QED  BY <1>1, <1>3, <2>1 DEF KeptIn, Saving
<1>9. ASSUME NEW kind \in Kinds, NEW target \in Tables, NEW prev \in Tables,
             NEW agent \in Grants \cup {NoGrant}, Opens(p, kind, target, prev, agent)
      PROVE  /\ issued' = issued
             /\ \A e \in store'.disk : e # None => issued \subseteq DOMAIN e.grants
             /\ KeptIn(p)'
  <2>1. PICK e : e = Prepared(st[p], kind, target, prev, agent)
    OBVIOUS
  <2>2. /\ phase'[p] = "save" /\ next'[p] = e /\ UNCHANGED <<store, st, issued>>
    BY <1>1, <1>2, <1>9, <2>1 DEF Opens, Commit, ghosts, TypeOK
  <2>3. DOMAIN st[p].grants \subseteq DOMAIN e.grants
    BY <1>1, <1>9, <2>1, OpensKeeps
  <2>4. issued \subseteq DOMAIN st[p].grants
    <3>1. CASE phase[p] = "reload"
      BY <1>1, <1>9, <3>1, NoHistoryYet DEF Opens
    <3>2. CASE phase[p] = "decide"
      BY <1>1, <3>2 DEF KeptIn, Outside
    <3> QED  BY <1>9, <3>1, <3>2 DEF Opens
  <2> QED  BY <1>1, <2>2, <2>3, <2>4 DEF KeptIn
<1>10. CASE Replace(p)
  <2>1. /\ phase[p] = "save" /\ phase'[p] = "syncdir" /\ UNCHANGED <<st, next, issued>>
        /\ store'.disk = {store.now, next[p]}
    BY <1>2, <1>10 DEF Replace, Renamed, Synced, ghosts
  <2> QED  BY <1>1, <1>3, <2>1 DEF KeptIn, Outside, Saving
<1>11. CASE SyncDir(p)
  <2>1. /\ phase[p] = "syncdir" /\ phase'[p] \in {"append", "reply", "decide"}
        /\ st'[p] = next[p] /\ store'.disk = {next[p]} /\ UNCHANGED issued
    BY <1>1, <1>2, <1>11 DEF SyncDir, Synced, ghosts, TypeOK
  <2> QED  BY <1>1, <2>1 DEF KeptIn, Outside, Saving
<1>12. CASE SyncDirFails(p)
  <2>1. /\ phase[p] = "syncdir" /\ phase'[p] = "unsave"
        /\ UNCHANGED <<store, st, next, issued>>
    BY <1>2, <1>12 DEF SyncDirFails, section, ghosts
  <2> QED  BY <1>1, <2>1 DEF KeptIn, Outside, Saving
<1>13. CASE Writes(p) \/ WriteFails(p) \/ FsyncFails(p) \/ Truncate(p)
  <2>1. /\ phase[p] \notin Outside /\ phase'[p] \in {"fsync", "truncate", "resync"}
        /\ UNCHANGED <<store, st, issued>>
    <3>1. CASE Writes(p)
      BY <1>2, <3>1 DEF Writes, Write, Appending, Outside, ghosts
    <3>2. CASE WriteFails(p)
      BY <1>2, <3>2 DEF WriteFails, Appending, Outside, ghosts
    <3>3. CASE FsyncFails(p) \/ Truncate(p)
      BY <1>2, <3>3 DEF FsyncFails, Truncate, Outside, section, ghosts
    <3> QED  BY <1>13, <3>1, <3>2, <3>3
  <2> QED  BY <1>1, <2>1 DEF KeptIn, Saving
<1>14. CASE Fsync(p)
  <2>1. /\ phase[p] = "fsync" /\ phase'[p] \in {"reply", "save"}
        /\ UNCHANGED <<store, st, issued>> /\ issued \subseteq DOMAIN st[p].grants
        /\ phase'[p] = "save" => st[p].pend # None /\ next'[p] = Final(st[p])
    BY <1>1, <1>2, <1>14 DEF Fsync, ghosts, TypeOK, KeptIn, Outside
  <2>2. ASSUME st[p].pend # None PROVE issued \subseteq DOMAIN Final(st[p]).grants
    <3>1. st[p] \in Live
      BY <1>1, <2>2, LiveFacts
    <3> QED  BY <1>1, <2>1, <2>2, <3>1, FinalFacts, TargetKeeps
  <2> QED  BY <1>1, <2>1, <2>2 DEF KeptIn, Saving
<1> QED  BY <1>4, <1>5, <1>6, <1>7, <1>8, <1>9, <1>10, <1>11, <1>12, <1>13, <1>14
         DEF Advances

LEMMA OwnAdvance ==
  ASSUME GoodInv, IssuedInv, NEW p \in Procs, Advances(p)
  PROVE  OwnIn(p)'
<1>1. /\ TypeInv /\ PlacesInv /\ TypeOK /\ OwnIn(p) /\ PlaceInv(p)
      /\ \A e \in Live : Good(e)
      /\ ledger.now.lines \in Seq(Events)
  BY HistoryFacts DEF GoodInv, TypeInv, IssuedInv, PlacesInv, TypeOK, Ledgers
<1>2. ASSUME NEW w, Goto(p, w) PROVE phase'[p] = w
  BY <1>1, <1>2 DEF Goto, TypeOK
<1>3. ASSUME phase[p] = "reload", own' = own PROVE OwnIn(p)'
  BY <1>1, <1>3 DEF PlaceInv, Outside, OwnIn
<1>4. CASE \/ StartEmpty(p) \/ LoadClean(p) \/ RecoverPresent(p) \/ RecoverAbort(p)
           \/ RecoverAppend(p)
  BY <1>3, <1>4 DEF StartEmpty, LoadClean, Loads, RecoverPresent, RecoverAbort,
                    RecoverAppend, Recoverable
<1>5. CASE Decides(p)
  BY <1>5 DEF Decides, MoveTo, section, OwnIn
<1>6. ASSUME NEW kind \in Kinds, NEW target \in Tables, NEW prev \in Tables,
             NEW agent \in Grants \cup {NoGrant}, Opens(p, kind, target, prev, agent)
      PROVE  OwnIn(p)'
  <2>1. PICK e : e = Prepared(st[p], kind, target, prev, agent)
    OBVIOUS
  <2>2. /\ phase'[p] = "save" /\ next'[p] = e /\ job' = job
        /\ own'[p] = (kind # "demo_seed")
    BY <1>1, <1>2, <1>6, <2>1 DEF Opens, Commit, TypeOK
  <2>3. /\ e.pend # None
        /\ kind # "demo_seed" /\ job[p].op = "issue" => job[p].grant \in DOMAIN e.pend.target
    BY <1>1, <1>6, <2>1, OpensKeeps
  <2> QED  BY <2>2, <2>3 DEF OwnIn
<1>7. CASE Replace(p) \/ SyncDirFails(p)
  <2>1. /\ phase[p] \in Saving /\ phase'[p] \in {"syncdir", "unsave"}
        /\ UNCHANGED <<ledger, next, own, job>>
    BY <1>2, <1>7 DEF Replace, SyncDirFails, Saving, section
  <2> QED  BY <1>1, <2>1, HistoriesSame DEF OwnIn, Saving
<1>8. CASE SyncDir(p)
  <2>1. /\ phase[p] = "syncdir" /\ st'[p] = next[p] /\ store'.disk = {next[p]}
        /\ phase'[p] \in {"append", "reply", "decide"}
        /\ phase'[p] = "append" <=> next[p].pend # None
        /\ UNCHANGED <<ledger, own, job>>
    BY <1>1, <1>2, <1>8 DEF SyncDir, Synced, TypeOK
  <2> QED  BY <1>1, <2>1, HistoriesSame DEF OwnIn, Saving
<1>9. CASE Writes(p)
  <2>1. PICK line \in Events : line = Line(p)
    BY <1>1, <1>9, LineFacts DEF Writes, Write
  <2>2. /\ Appending(p) /\ phase'[p] = "fsync" /\ UNCHANGED <<st, own, job>>
        /\ ledger'.now.lines = Append(ledger.now.lines, line)
    BY <1>1, <1>2, <1>9, <2>1 DEF Writes, Write, Written, Whole
  <2>3. ledger'.now.lines # <<>>
    BY <1>1, <2>2, AppendFacts
  <2>4. own[p] /\ job[p].op = "issue" => phase[p] = "append"
    BY <1>1, <2>2 DEF PlaceInv, Appending
  <2> QED  BY <1>1, <2>2, <2>3, <2>4 DEF OwnIn, Saving
<1>10. CASE WriteFails(p) \/ FsyncFails(p) \/ Truncate(p)
  <2>1. phase'[p] \in {"truncate", "resync"}
    BY <1>2, <1>10 DEF WriteFails, FsyncFails, Truncate
  <2> QED  BY <2>1 DEF OwnIn, Saving
<1>11. CASE Fsync(p)
  <2>1. /\ phase[p] = "fsync" /\ UNCHANGED <<store, st, own, job>>
        /\ ledger'.disk = {ledger.now}
        /\ st[p].pend # None => phase'[p] = "save" /\ next'[p] = Final(st[p])
    BY <1>1, <1>2, <1>11 DEF Fsync, Synced, TypeOK
  <2>2. ASSUME own[p], job[p].op = "issue" PROVE OwnIn(p)'
    <3>1. /\ st[p].pend # None /\ job[p].grant \in DOMAIN st[p].pend.target
          /\ ledger.now.lines # <<>>
      BY <1>1, <2>1, <2>2 DEF OwnIn
    <3>2. Final(st[p]).pend = None /\ Final(st[p]).grants = st[p].pend.target
      BY <1>1, <3>1, FinalFacts DEF TypeOK
    <3>3. <<>> \notin Histories'
      BY <2>1, <3>1 DEF Histories
    <3> QED  BY <2>1, <3>1, <3>2, <3>3 DEF OwnIn
  <2> QED  BY <2>1, <2>2 DEF OwnIn
<1> QED  BY <1>4, <1>5, <1>6, <1>7, <1>8, <1>9, <1>10, <1>11 DEF Advances

LEMMA IssuedStep ==
  ASSUME GoodInv, IssuedInv, [Next]_vars
  PROVE  IssuedInv'
<1>1. TypeInv /\ PlacesInv /\ PlacesInv' /\ Steps
  BY GoodStep DEF GoodInv
<1>2. <<>> \notin Histories => <<>> \notin Histories'
  <2> SUFFICES ASSUME <<>> \in Histories' PROVE <<>> \in Histories
    OBVIOUS
  <2>1. CASE Extended(<<>>)
    <3>1. PICK line \in Events : <<>> = Append(ledger.now.lines, line)
      BY <1>1, <2>1, ExtendedFacts
    <3> QED  BY <1>1, <3>1, HistoryFacts, AppendFacts
  <2> QED  BY <1>1, <2>1, HistoriesGrow
<1>3. ASSUME NEW q \in Procs, phase'[q] \in Outside PROVE (KeptIn(q) /\ OwnIn(q))'
  BY <1>3 DEF KeptIn, OwnIn, Outside, Saving
<1>4. CASE Idles
  <2>1. UNCHANGED <<store, ledger, st, next, own, issued>>
    BY <1>4 DEF Idles
  <2>2. Histories' = Histories
    BY <2>1, HistoriesSame
  <2>3. ASSUME NEW q \in Procs PROVE (KeptIn(q) /\ OwnIn(q))'
    <3>1. CASE phase'[q] = phase[q] /\ job'[q] = job[q]
      <4>1. KeptIn(q) /\ OwnIn(q)
        BY DEF IssuedInv
      <4> QED  BY <2>1, <2>2, <3>1, <4>1 DEF KeptIn, OwnIn
    <3> QED  BY <1>3, <1>4, <3>1 DEF Idles
  <2> QED  BY <2>1, <2>2, <2>3 DEF IssuedInv
<1>5. CASE Rests
  <2>1. \A q \in Procs : (KeptIn(q) /\ OwnIn(q))'
    BY <1>3, <1>5 DEF Rests
  <2>2. store'.disk \subseteq store.disk \cup {None} /\ Histories' \subseteq Histories
    BY <1>5 DEF Rests
  <2>3. CASE issued' = issued
    BY <2>1, <2>2, <2>3 DEF IssuedInv
  <2>4. ASSUME NEW p \in Procs, Reply(p), issued' # issued PROVE IssuedInv'
    <3>1. /\ own[p] /\ job[p].op = "issue" /\ phase[p] = "reply" /\ store' = store
          /\ issued' = issued \cup {job[p].grant}
      BY <2>4 DEF Reply
    <3>2. OwnIn(p)
      BY DEF IssuedInv
    <3>3. job[p].grant \in DOMAIN st[p].grants /\ store.disk = {st[p]} /\ <<>> \notin Histories
      BY <3>1, <3>2 DEF OwnIn
    <3> QED  BY <2>1, <2>2, <3>1, <3>3 DEF IssuedInv
  <2> QED  BY <1>5, <2>3, <2>4 DEF Rests
<1>6. ASSUME NEW p \in Procs, Advances(p) PROVE IssuedInv'
  <2>1. /\ issued' = issued /\ (KeptIn(p) /\ OwnIn(p))'
        /\ \A e \in store'.disk : e # None => issued \subseteq DOMAIN e.grants
    BY <1>6, KeptAdvance, OwnAdvance
  <2>2. \A q \in Procs : (KeptIn(q) /\ OwnIn(q))'
    BY <1>3, <1>6, <2>1 DEF Advances
  <2> QED  BY <1>2, <2>1, <2>2 DEF IssuedInv
<1> QED  BY <1>1, <1>4, <1>5, <1>6 DEF Steps

LEMMA IssuedInvariant == Spec => []IssuedInv
<1>1. Init => IssuedInv
  <2> SUFFICES ASSUME Init PROVE IssuedInv
    OBVIOUS
  <2>1. issued = {} /\ store.disk = {None} /\ \A p \in Procs : ~own[p]
    BY DEF Init, Synced
  <2> QED  BY <2>1 DEF IssuedInv, KeptIn, OwnIn
<1>2. GoodInv /\ IssuedInv /\ [Next]_vars => IssuedInv'
  BY IssuedStep
<1> QED  BY <1>1, <1>2, GoodInvariant, PTL DEF Spec

\* A grant whose issue was answered is in the envelope that every later section
\* reads, and in whatever one a crash, a failed save or a power loss leaves,
\* for as long as the file itself is there.
THEOREM IssuesAreKept == Spec => []AcknowledgedIssueKept
<1>1. GoodInv /\ IssuedInv => AcknowledgedIssueKept
  BY DEF GoodInv, PlacesInv, IssuedInv, AcknowledgedIssueKept
<1> QED  BY <1>1, GoodInvariant, IssuedInvariant, PTL

(***************************************************************************)
(* One receipt for each revision.                                          *)
(***************************************************************************)
LEMMA OneReceiptFacts ==
  ASSUME NEW s, NEW n
  PROVE  OneReceiptEach(s, n) <=>
           /\ \A i \in 1 .. Len(s) : s[i].tx # 0 => s[i].rev \in 1 .. n
           /\ \A rev \in 1 .. n : \E i \in 1 .. Len(s) : s[i].tx # 0 /\ s[i].rev = rev
           /\ \A i, j \in 1 .. Len(s) :
                s[i].tx # 0 /\ s[j].tx # 0 /\ i < j => s[i].rev < s[j].rev
  BY DEF OneReceiptEach

LEMMA OneReceiptNote ==
  ASSUME NEW s \in Seq(Events), NEW line \in Events, line.tx = 0, NEW n \in Nat,
         OneReceiptEach(s, n)
  PROVE  OneReceiptEach(Append(s, line), n)
<1>1. PICK h : h = Append(s, line)
  OBVIOUS
<1>2. /\ Len(s) \in Nat /\ Len(h) = Len(s) + 1 /\ h[Len(s) + 1] = line
      /\ \A i \in 1 .. Len(s) : h[i] = s[i]
  BY <1>1, AppendFacts
<1>3. \A i \in 1 .. Len(h) : h[i].tx # 0 => i \in 1 .. Len(s) /\ h[i] = s[i]
  BY <1>2
<1>4. \A rev \in 1 .. n : \E i \in 1 .. Len(h) : h[i].tx # 0 /\ h[i].rev = rev
  <2> SUFFICES ASSUME NEW rev \in 1 .. n
               PROVE  \E i \in 1 .. Len(h) : h[i].tx # 0 /\ h[i].rev = rev
    OBVIOUS
  <2>1. PICK i \in 1 .. Len(s) : s[i].tx # 0 /\ s[i].rev = rev
    BY OneReceiptFacts
  <2> QED  BY <1>2, <2>1
<1>5. \A i \in 1 .. Len(h) : h[i].tx # 0 => h[i].rev \in 1 .. n
  BY <1>3, OneReceiptFacts
<1>6. ASSUME NEW i \in 1 .. Len(h), NEW j \in 1 .. Len(h),
             h[i].tx # 0, h[j].tx # 0, i < j
      PROVE  h[i].rev < h[j].rev
  <2>1. /\ i \in 1 .. Len(s) /\ h[i] = s[i]
        /\ j \in 1 .. Len(s) /\ h[j] = s[j]
    BY <1>3, <1>6
  <2>2. s[i].rev < s[j].rev
    BY <1>6, <2>1, OneReceiptFacts
  <2> QED  BY <2>1, <2>2
<1> QED  BY <1>1, <1>4, <1>5, <1>6, OneReceiptFacts

LEMMA OneReceiptMore ==
  ASSUME NEW s \in Seq(Events), NEW line \in Events, line.tx # 0, NEW n \in Nat,
         line.rev = n + 1, OneReceiptEach(s, n)
  PROVE  OneReceiptEach(Append(s, line), n + 1)
<1>1. PICK h : h = Append(s, line)
  OBVIOUS
<1>2. /\ Len(s) \in Nat /\ Len(h) = Len(s) + 1 /\ h[Len(s) + 1] = line
      /\ \A i \in 1 .. Len(s) : h[i] = s[i]
  BY <1>1, AppendFacts
<1>3. \A i \in 1 .. Len(h) : i \in 1 .. Len(s) \/ i = Len(s) + 1
  BY <1>2
<1>4. \A i \in 1 .. Len(s) : s[i].tx # 0 => s[i].rev \in 1 .. n
  BY OneReceiptFacts
<1>5. \A i \in 1 .. Len(h) : h[i].tx # 0 => h[i].rev \in 1 .. n + 1
  BY <1>2, <1>3, <1>4
<1>6. ASSUME NEW rev \in 1 .. n + 1
      PROVE  \E i \in 1 .. Len(h) : h[i].tx # 0 /\ h[i].rev = rev
  <2>1. CASE rev \in 1 .. n
    <3>1. PICK i \in 1 .. Len(s) : s[i].tx # 0 /\ s[i].rev = rev
      BY <2>1, OneReceiptFacts
    <3> QED  BY <1>2, <3>1
  <2>2. CASE rev = n + 1
    BY <1>2, <2>2
  <2> QED  BY <1>6, <2>1, <2>2
<1>7. ASSUME NEW i \in 1 .. Len(h), NEW j \in 1 .. Len(h),
             h[i].tx # 0, h[j].tx # 0, i < j
      PROVE  h[i].rev < h[j].rev
  <2>1. i \in 1 .. Len(s)
    BY <1>2, <1>7
  <2>2. CASE j \in 1 .. Len(s)
    BY <1>2, <1>7, <2>1, <2>2, OneReceiptFacts
  <2>3. CASE j = Len(s) + 1
    BY <1>2, <1>4, <1>7, <2>1, <2>3
  <2> QED  BY <1>3, <2>2, <2>3
<1> QED  BY <1>1, <1>5, <1>6, <1>7, OneReceiptFacts

\* What is left to say when the envelope is gone.
Numbered(lines) ==
  \E n \in {0} \cup {lines[i].rev : i \in 1 .. Len(lines)} : OneReceiptEach(lines, n)

LEMMA RecordedNumbered ==
  ASSUME NEW e \in Envelopes, NEW lines, Recorded(lines, e)
  PROVE  Numbered(lines)
<1>1. PICK n \in Nat : OneReceiptEach(lines, n)
  BY EnvelopeFacts DEF Recorded
<1>2. CASE n = 0
  BY <1>1, <1>2 DEF Numbered
<1>3. CASE n # 0
  <2>1. n \in 1 .. n
    BY <1>3
  <2>2. PICK i \in 1 .. Len(lines) : lines[i].rev = n
    BY <1>1, <2>1, OneReceiptFacts
  <2> QED  BY <1>1, <2>2 DEF Numbered
<1> QED  BY <1>2, <1>3

LEMMA PendingFacts ==
  ASSUME ClaimInv, NEW e \in Live, e.pend # None
  PROVE  /\ e.pend.event.rev = e.rev + 1 /\ e.rev \in Nat
         /\ e.pend.event \in Events /\ e.pend.event.tx \in Nat \ {0}
         /\ \A i \in 1 .. Len(e.pend.tail) : e.pend.tail[i] # e.pend.event
<1>1. TypeInv /\ PlacesInv /\ Live \subseteq Envelopes /\ Good(e) /\ tx \in Nat
  BY LiveFacts DEF ClaimInv, GoodInv, TypeInv, TypeOK
<1>2. e.pend.event.rev = e.rev + 1 /\ e.rev \in Nat /\ e.pend.event \in Events
  BY <1>1, EnvelopeFacts DEF Good, Accepted
<1>3. Claim(e.pend) \in LiveClaims /\ Claim(e.pend).event = e.pend.event
  BY <1>1, LiveClaimFacts, ClaimFacts
<1>4. e.pend.event.tx \in 1 .. tx
  BY <1>3 DEF ClaimInv
<1>5. \A i \in 1 .. Len(e.pend.tail) : e.pend.tail[i].tx < e.pend.event.tx
  BY DEF ClaimInv
<1> QED  BY <1>1, <1>2, <1>4, <1>5

\* Before its receipt is written a transaction's ledger is that of its base
\* revision; once it is there, that of the next.
LEMMA RecordedAbsent ==
  ASSUME ClaimInv, NEW e \in Live, e.pend # None, NEW lines, Recorded(lines, e),
         lines = e.pend.tail
  PROVE  OneReceiptEach(lines, e.rev)
  BY PendingFacts DEF Recorded

LEMMA RecordedPresent ==
  ASSUME ClaimInv, NEW e \in Live, e.pend # None, NEW lines, Recorded(lines, e),
         NEW i \in 1 .. Len(lines), lines[i] = e.pend.event
  PROVE  OneReceiptEach(lines, e.rev + 1)
<1>1. ASSUME OneReceiptEach(lines, e.rev) PROVE FALSE
  <2>1. e.pend.event.rev = e.rev + 1 /\ e.rev \in Nat /\ e.pend.event.tx # 0
    BY PendingFacts
  <2>2. lines[i].tx # 0 => lines[i].rev \in 1 .. e.rev
    BY <1>1, OneReceiptFacts
  <2> QED  BY <2>1, <2>2
<1> QED  BY <1>1 DEF Recorded

\* Along the phases of a section.
RecordedIn(p) ==
  /\ phase[p] \notin Outside => Recorded(ledger.now.lines, st[p])
  /\ phase[p] \in Saving => Recorded(ledger.now.lines, next[p])
  /\ phase[p] \in {"fsync", "truncate"} =>
       Recorded(SubSeq(ledger.now.lines, 1, size[p]), st[p])
  /\ phase[p] = "fsync" /\ st[p].pend # None =>
       OneReceiptEach(ledger.now.lines, st[p].rev + 1)

StoreRecorded ==
  IF store.now # None THEN Recorded(ledger.now.lines, store.now)
  ELSE Numbered(ledger.now.lines)

ReceiptInv ==
  used["outages"] = 0 => StoreRecorded /\ \A p \in Procs : RecordedIn(p)

LEMMA RecordedAdvance ==
  ASSUME ClaimInv, StoreRecorded, \A q \in Procs : RecordedIn(q),
         NEW p \in Procs, Advances(p), TypeInv'
  PROVE  StoreRecorded' /\ RecordedIn(p)'
<1>1. /\ TypeInv /\ PlacesInv /\ PlaceInv(p) /\ TypeOK /\ Live \subseteq Envelopes
      /\ ledger.now.lines \in Seq(Events)
      /\ st[p] \in Envelopes /\ next[p] \in Envelopes /\ RecordedIn(p)
      /\ \A e \in store.disk : e # None => e \in Live
      /\ \A q \in Procs : st[q].pend # None => st[q] \in Live
  BY LiveFacts, HistoryFacts DEF ClaimInv, GoodInv, TypeInv, TypeOK, PlacesInv
<1> DEFINE lines == ledger.now.lines
<1>2. ASSUME NEW w, Goto(p, w) PROVE phase'[p] = w
  BY <1>1, <1>2 DEF Goto, TypeOK
<1>3. ASSUME store.now # None
      PROVE  store.now \in Live /\ store.now \in Envelopes /\ Recorded(lines, store.now)
  BY <1>1, <1>3 DEF PlacesInv, StoreRecorded
<1>4. ASSUME UNCHANGED store, ledger'.now.lines = lines PROVE StoreRecorded'
  BY <1>4 DEF StoreRecorded
<1>5. ASSUME NEW e, Loads(p, e), Recorded(lines, e)
      PROVE  StoreRecorded' /\ RecordedIn(p)'
  <2>1. phase'[p] = "decide" /\ st'[p] = e /\ UNCHANGED <<store, ledger>>
    BY <1>1, <1>2, <1>5 DEF Loads, TypeOK
  <2> QED  BY <1>4, <1>5, <2>1 DEF RecordedIn, Outside, Saving
<1>6. ASSUME NEW n, NEW e, phase'[p] = "save", st'[p] = e, next'[p] = n,
             UNCHANGED store, ledger'.now.lines = lines,
             Recorded(lines, e), OneReceiptEach(lines, n.rev)
      PROVE  StoreRecorded' /\ RecordedIn(p)'
  <2>1. Recorded(lines, n)
    BY <1>6 DEF Recorded
  <2> QED  BY <1>4, <1>6, <2>1 DEF RecordedIn, Saving
<1>7. ASSUME UNCHANGED store, st[p] = Current, Recorded(ledger'.now.lines, st[p])
      PROVE  StoreRecorded'
  <2>1. CASE store.now # None
    BY <1>7, <2>1 DEF StoreRecorded, Current
  <2>2. CASE store.now = None
    <3>1. Numbered(ledger'.now.lines)
      BY <1>1, <1>7, RecordedNumbered
    <3> QED  BY <1>7, <2>2, <3>1 DEF StoreRecorded, Numbered
  <2> QED  BY <2>1, <2>2
<1>8. lines = <<>> => Recorded(lines, Empty)
  BY DEF Recorded, OneReceiptEach, Empty
<1>9. CASE StartEmpty(p)
  BY <1>5, <1>8, <1>9 DEF StartEmpty, HasHistory
<1>10. CASE LoadClean(p)
  BY <1>3, <1>5, <1>10 DEF LoadClean
<1>11. CASE Decides(p)
  <2>1. PICK w \in {"lease", "refused", "reply"} : MoveTo(p, w) /\ phase[p] = "decide"
    BY <1>11 DEF Decides
  <2>2. phase'[p] = w /\ UNCHANGED <<store, ledger, st>>
    BY <1>2, <2>1 DEF MoveTo, section
  <2> QED  BY <1>1, <1>4, <2>1, <2>2 DEF RecordedIn, Outside, Saving
<1>12. CASE RecoverPresent(p)
  <2>1. PICK e \in Live : e = store.now /\ e \in Envelopes /\ Recorded(lines, e)
    BY <1>3, <1>12 DEF RecoverPresent, Recoverable
  <2>2. /\ e.pend # None /\ Present(e.pend)
        /\ phase'[p] = "save" /\ st'[p] = e /\ next'[p] = Final(e)
        /\ UNCHANGED <<store, ledger>>
    BY <1>1, <1>2, <1>12, <2>1 DEF RecoverPresent, Recoverable, TypeOK
  <2>3. Len(e.pend.tail) \in Nat
    BY <2>1, <2>2, EnvelopeFacts
  <2>4. /\ Len(e.pend.tail) + 1 \in 1 .. Len(lines)
        /\ lines[Len(e.pend.tail) + 1] = e.pend.event
    BY <1>1, <2>2, <2>3 DEF Present
  <2>5. OneReceiptEach(lines, e.rev + 1)
    BY <2>1, <2>2, <2>4, RecordedPresent
  <2>6. Final(e).rev = e.rev + 1
    BY <2>2, PendingFacts DEF Final
  <2> QED  BY <1>6, <2>1, <2>2, <2>5, <2>6
<1>13. CASE RecoverAbort(p)
  <2>1. PICK e \in Live : e = store.now /\ e \in Envelopes /\ Recorded(lines, e)
    BY <1>3, <1>13 DEF RecoverAbort, Recoverable
  <2>2. /\ e.pend # None /\ lines = e.pend.tail
        /\ phase'[p] = "save" /\ st'[p] = e /\ next'[p] = Aborted(e)
        /\ UNCHANGED <<store, ledger>>
    BY <1>1, <1>2, <1>13, <2>1, AbsentFacts DEF RecoverAbort, Recoverable, TypeOK
  <2>3. Aborted(e).rev = e.rev
    BY <2>1 DEF Aborted, Envelopes
  <2>4. OneReceiptEach(lines, e.rev)
    BY <2>1, <2>2, RecordedAbsent
  <2> QED  BY <1>6, <2>1, <2>2, <2>3, <2>4
<1>14. CASE RecoverAppend(p)
  <2>1. /\ store.now # None /\ phase'[p] = "append" /\ st'[p] = store.now
        /\ UNCHANGED <<store, ledger>>
    BY <1>1, <1>2, <1>14 DEF RecoverAppend, Recoverable, TypeOK
  <2> QED  BY <1>3, <1>4, <2>1 DEF RecordedIn, Outside, Saving
<1>15. ASSUME NEW kind \in Kinds, NEW target \in Tables, NEW prev \in Tables,
              NEW agent \in Grants \cup {NoGrant}, Opens(p, kind, target, prev, agent)
       PROVE  StoreRecorded' /\ RecordedIn(p)'
  <2>1. PICK e : e = Prepared(st[p], kind, target, prev, agent)
    OBVIOUS
  <2>2. /\ phase'[p] = "save" /\ st'[p] = st[p] /\ next'[p] = e /\ UNCHANGED store
        /\ ledger'.now.lines = lines
    BY <1>1, <1>2, <1>15, <2>1 DEF Opens, Commit, Synced, Repaired, Whole, TypeOK
  <2>3. e.rev = st[p].rev
    BY <1>1, <2>1, PreparedFields
  <2>4. Recorded(lines, st[p])
    <3>1. CASE phase[p] = "reload"
      BY <1>1, <1>8, <1>15, <3>1 DEF Opens, HasHistory, PlaceInv, Outside
    <3>2. CASE phase[p] = "decide"
      BY <1>1, <3>2 DEF RecordedIn, Outside
    <3> QED  BY <1>15, <3>1, <3>2 DEF Opens
  <2>5. OneReceiptEach(lines, st[p].rev)
    BY <1>15, <2>4 DEF Opens, Recorded
  <2> QED  BY <1>6, <2>2, <2>3, <2>4, <2>5
<1>16. CASE Replace(p)
  <2>1. /\ phase[p] = "save" /\ phase'[p] = "syncdir" /\ UNCHANGED <<ledger, st, next>>
        /\ store'.now = next[p]
    BY <1>2, <1>16 DEF Replace, Renamed
  <2>2. next[p] # None
    BY <1>1, NoneAssumption
  <2> QED  BY <1>1, <2>1, <2>2 DEF RecordedIn, StoreRecorded, Outside, Saving
<1>17. CASE SyncDir(p)
  <2>1. /\ phase[p] = "syncdir" /\ phase'[p] \in {"append", "reply", "decide"}
        /\ st'[p] = next[p] /\ store'.now = next[p] /\ UNCHANGED ledger
    BY <1>1, <1>2, <1>17 DEF SyncDir, Synced, TypeOK
  <2>2. next[p] # None
    BY <1>1, NoneAssumption
  <2> QED  BY <1>1, <2>1, <2>2 DEF RecordedIn, StoreRecorded, Outside, Saving
<1>18. CASE SyncDirFails(p)
  <2>1. /\ phase[p] = "syncdir" /\ phase'[p] = "unsave"
        /\ UNCHANGED <<store, ledger, st, next>>
    BY <1>2, <1>18 DEF SyncDirFails, section
  <2> QED  BY <1>1, <1>4, <2>1 DEF RecordedIn, Outside, Saving
<1>19. CASE Writes(p)
  <2>1. PICK line \in Events : line = Line(p)
    BY <1>1, <1>19, LineFacts DEF Writes, Write
  <2>2. /\ Appending(p) /\ phase'[p] = "fsync" /\ size'[p] = Len(lines)
        /\ UNCHANGED <<store, st>> /\ ledger'.now.lines = Append(lines, line)
    BY <1>1, <1>2, <1>19, <2>1 DEF Writes, Write, Written, Whole, TypeOK
  <2>3. SubSeq(Append(lines, line), 1, Len(lines)) = lines
    BY <1>1
  <2>4. Recorded(lines, st[p]) /\ st[p] = Current
    BY <1>1, <2>2 DEF Appending, RecordedIn, PlaceInv, Outside
  <2>5. /\ st[p].pend # None => OneReceiptEach(Append(lines, line), st[p].rev + 1)
        /\ Recorded(Append(lines, line), st[p])
    <3>1. CASE phase[p] = "append"
      <4>1. /\ st[p] \in Live /\ st[p].pend # None /\ lines = st[p].pend.tail
            /\ line = st[p].pend.event
        BY <1>1, <1>19, <2>1, <3>1 DEF Writes, Line, TypeInv, AppendingInv
      <4>2. OneReceiptEach(lines, st[p].rev)
        BY <2>4, <4>1, RecordedAbsent
      <4>3. line.tx # 0 /\ line.rev = st[p].rev + 1 /\ st[p].rev \in Nat
        BY <4>1, PendingFacts
      <4>4. OneReceiptEach(Append(lines, line), st[p].rev + 1)
        BY <1>1, <4>2, <4>3, OneReceiptMore
      <4>5. /\ Len(lines) + 1 \in 1 .. Len(Append(lines, line))
            /\ Append(lines, line)[Len(lines) + 1] = line
        BY <1>1, AppendFacts
      <4> QED  BY <4>1, <4>4, <4>5 DEF Recorded
    <3>2. CASE phase[p] # "append"
      <4>1. st[p].pend = None /\ line.tx = 0
        BY <1>1, <2>1, <2>2, <3>2 DEF Appending, PlaceInv, Holding, Line, Note
      <4>2. OneReceiptEach(lines, st[p].rev) /\ st[p].rev \in Nat
        BY <1>1, <2>4, <4>1, EnvelopeFacts DEF Recorded
      <4>3. OneReceiptEach(Append(lines, line), st[p].rev)
        BY <1>1, <4>1, <4>2, OneReceiptNote
      <4> QED  BY <4>1, <4>3 DEF Recorded
    <3> QED  BY <3>1, <3>2
  <2>6. StoreRecorded'
    BY <1>7, <2>2, <2>4, <2>5
  <2> QED  BY <2>2, <2>3, <2>4, <2>5, <2>6 DEF RecordedIn, Saving
<1>20. CASE WriteFails(p)
  <2>1. PICK v \in {Repaired} \cup TornTail : ledger' = Written(RepairedFile, v, {})
    BY <1>20 DEF WriteFails
  <2>2. ledger'.now.lines = lines
    BY <2>1 DEF Written, Repaired, Whole, TornTail
  <2>3. /\ Appending(p) /\ phase'[p] = "truncate" /\ size'[p] = Len(lines)
        /\ UNCHANGED <<store, st>>
    BY <1>1, <1>2, <1>20 DEF WriteFails, TypeOK
  <2>4. Recorded(lines, st[p])
    BY <1>1, <2>3 DEF Appending, RecordedIn, Outside
  <2>5. SubSeq(lines, 1, Len(lines)) = lines
    BY <1>1
  <2> QED  BY <1>4, <2>2, <2>3, <2>4, <2>5 DEF RecordedIn, Saving
<1>21. CASE Fsync(p)
  <2>1. /\ phase[p] = "fsync" /\ ledger'.now.lines = lines /\ UNCHANGED <<store, st>>
        /\ Recorded(lines, st[p])
    BY <1>1, <1>21 DEF Fsync, Synced, RecordedIn, Outside
  <2>2. CASE st[p].pend = None
    <3>1. phase'[p] = "reply"
      BY <1>2, <1>21, <2>2 DEF Fsync
    <3> QED  BY <1>4, <2>1, <3>1 DEF RecordedIn, Outside, Saving
  <2>3. CASE st[p].pend # None
    <3>1. phase'[p] = "save" /\ next'[p] = Final(st[p])
      BY <1>1, <1>2, <1>21, <2>3 DEF Fsync, TypeOK
    <3>2. Final(st[p]).rev = st[p].rev + 1
      BY <1>1, <2>3, PendingFacts DEF Final
    <3>3. OneReceiptEach(lines, st[p].rev + 1)
      BY <1>1, <2>1, <2>3 DEF RecordedIn
    <3> QED  BY <1>6, <2>1, <3>1, <3>2, <3>3
  <2> QED  BY <2>2, <2>3
<1>22. CASE FsyncFails(p)
  <2>1. /\ phase[p] = "fsync" /\ phase'[p] = "truncate"
        /\ UNCHANGED <<store, ledger, st, size>>
    BY <1>2, <1>22 DEF FsyncFails, section
  <2> QED  BY <1>1, <1>4, <2>1 DEF RecordedIn, Outside, Saving
<1>23. CASE Truncate(p)
  <2>1. /\ phase[p] = "truncate" /\ phase'[p] = "resync" /\ UNCHANGED <<store, st>>
        /\ ledger'.now.lines = SubSeq(lines, 1, size[p])
    BY <1>2, <1>23 DEF Truncate, Written, Whole, section
  <2>2. Recorded(ledger'.now.lines, st[p]) /\ st[p] = Current
    BY <1>1, <2>1 DEF RecordedIn, PlaceInv, Outside
  <2>3. StoreRecorded'
    BY <1>7, <2>1, <2>2
  <2> QED  BY <2>1, <2>2, <2>3 DEF RecordedIn, Outside, Saving
<1> QED  BY <1>9, <1>10, <1>11, <1>12, <1>13, <1>14, <1>15, <1>16, <1>17, <1>18,
            <1>19, <1>20, <1>21, <1>22, <1>23 DEF Advances

LEMMA ReceiptStep ==
  ASSUME ClaimInv, ReceiptInv, [Next]_vars
  PROVE  ReceiptInv'
<1>1. TypeInv /\ PlacesInv /\ Steps /\ TypeInv'
  BY ClaimStep DEF ClaimInv, GoodInv
<1> SUFFICES ASSUME used'["outages"] = 0
             PROVE  StoreRecorded' /\ \A q \in Procs : RecordedIn(q)'
  BY DEF ReceiptInv
<1>2. ASSUME used["outages"] = 0 PROVE StoreRecorded /\ \A q \in Procs : RecordedIn(q)
  BY <1>2 DEF ReceiptInv
<1>3. ASSUME NEW q \in Procs, phase'[q] \in Outside PROVE RecordedIn(q)'
  BY <1>3 DEF RecordedIn, Outside, Saving
<1>4. CASE Idles
  <2>1. UNCHANGED <<store, ledger, st, next, size, used>>
    BY <1>4 DEF Idles
  <2>2. StoreRecorded /\ \A q \in Procs : RecordedIn(q)
    BY <1>2, <2>1
  <2>3. StoreRecorded'
    BY <2>1, <2>2 DEF StoreRecorded
  <2>4. ASSUME NEW q \in Procs PROVE RecordedIn(q)'
    <3>1. CASE phase'[q] = phase[q]
      <4>1. RecordedIn(q)
        BY <2>2
      <4> QED  BY <2>1, <3>1, <4>1 DEF RecordedIn
    <3> QED  BY <1>3, <1>4, <3>1 DEF Idles
  <2> QED  BY <2>3, <2>4
<1>5. CASE Rests
  <2>1. \A q \in Procs : RecordedIn(q)'
    BY <1>3, <1>5 DEF Rests
  <2>2. /\ used["outages"] = 0 /\ ledger'.now.lines = ledger.now.lines
        /\ \/ store'.now \in {store.now, None}
           \/ \E p \in Procs : phase[p] = "unsave" /\ store'.now = backup[p]
    BY <1>5 DEF Rests
  <2>3. StoreRecorded /\ \A q \in Procs : RecordedIn(q)
    BY <1>2, <2>2
  <2>4. Numbered(ledger.now.lines)
    BY <1>1, <2>3, RecordedNumbered DEF StoreRecorded, TypeInv, TypeOK
  <2>5. ASSUME store'.now \in {store.now, None} PROVE StoreRecorded'
    BY <2>2, <2>3, <2>4, <2>5 DEF StoreRecorded, Numbered
  <2>6. ASSUME NEW p \in Procs, phase[p] = "unsave", store'.now = backup[p], backup[p] # None
        PROVE  StoreRecorded'
    <3>1. st[p] = backup[p]
      BY <1>1, <2>6 DEF PlacesInv, PlaceInv
    <3>2. Recorded(ledger.now.lines, st[p])
      BY <2>3, <2>6 DEF RecordedIn, Outside
    <3> QED  BY <2>2, <2>6, <3>1, <3>2 DEF StoreRecorded
  <2>7. StoreRecorded'
    BY <2>2, <2>5, <2>6
  <2> QED  BY <2>1, <2>7
<1>6. ASSUME NEW p \in Procs, Advances(p)
      PROVE  StoreRecorded' /\ \A q \in Procs : RecordedIn(q)'
  <2>1. used'["outages"] = used["outages"]
    <3>1. CASE SyncDirFails(p) \/ WriteFails(p) \/ FsyncFails(p)
      BY <1>1, <3>1, FaultsSpent DEF SyncDirFails, WriteFails, FsyncFails
    <3>2. CASE \E kind \in Kinds, target \in Tables, prev \in Tables,
                 agent \in Grants \cup {NoGrant} : Opens(p, kind, target, prev, agent)
      BY <3>2 DEF Opens, Commit
    <3>3. CASE \/ StartEmpty(p) \/ LoadClean(p) \/ Decides(p)
               \/ RecoverPresent(p) \/ RecoverAbort(p) \/ RecoverAppend(p)
      BY <3>3 DEF StartEmpty, LoadClean, Loads, Decides, MoveTo, RecoverPresent,
                  RecoverAbort, RecoverAppend
    <3>4. CASE Replace(p) \/ SyncDir(p) \/ Writes(p) \/ Fsync(p) \/ Truncate(p)
      BY <3>4 DEF Replace, SyncDir, Writes, Write, Fsync, Truncate
    <3> QED  BY <1>6, <3>1, <3>2, <3>3, <3>4 DEF Advances
  <2>2. StoreRecorded' /\ RecordedIn(p)'
    BY <1>1, <1>2, <1>6, <2>1, RecordedAdvance
  <2>3. \A q \in Procs \ {p} : RecordedIn(q)'
    BY <1>3, <1>6 DEF Advances
  <2>4. \A q \in Procs : RecordedIn(q)'
    BY <2>2, <2>3
  <2> QED  BY <2>2, <2>4
<1> QED  BY <1>1, <1>4, <1>5, <1>6 DEF Steps

\* Until a power loss, the ledger holds exactly one receipt for each revision, in
\* revision order: a transaction that is recovered is never recorded twice, and
\* an issue that is undone leaves no receipt behind.
THEOREM OneReceiptPerRevision == Spec => []ReceiptsFollowRevisions
<1>1. Init => ReceiptInv
  <2> SUFFICES ASSUME Init PROVE ReceiptInv
    OBVIOUS
  <2>1. store.now = None /\ ledger.now.lines = <<>>
    BY DEF Init, Synced, Whole
  <2>2. OneReceiptEach(<<>>, 0)
    BY DEF OneReceiptEach
  <2>3. StoreRecorded
    BY <2>1, <2>2 DEF StoreRecorded, Numbered
  <2>4. \A p \in Procs : RecordedIn(p)
    BY DEF Init, RecordedIn, Outside, Saving
  <2> QED  BY <2>3, <2>4 DEF ReceiptInv
<1>2. ClaimInv /\ ReceiptInv /\ [Next]_vars => ReceiptInv'
  BY ReceiptStep
<1>3. ReceiptInv => ReceiptsFollowRevisions
  BY DEF ReceiptInv, StoreRecorded, Numbered, ReceiptsFollowRevisions
<1>4. CoverInv => ClaimInv
  BY DEF CoverInv
<1> QED  BY <1>1, <1>2, <1>3, <1>4, CoverInvariant, PTL DEF Spec
=============================================================================
