--------------------------- MODULE GrantAuthority ---------------------------
(***************************************************************************)
(* The authoritative grant table of src/src/threshold/grants/authority.py: *)
(* a private revisioned envelope (grants/store.py) and an append-only      *)
(* ledger (core/ledger.py), kept in agreement by a pending envelope, an    *)
(* exact ledger receipt and a clean envelope that witnesses it.            *)
(*                                                                         *)
(* Each process in Procs runs the API server, which answers one request at *)
(* a time.  A request runs inside one file-locked section: reload and      *)
(* recover, decide, commit, reply.  A section may stop at any step (Crash),*)
(* any storage call may fail, and a power loss keeps for each file one of  *)
(* the values its unsynced writes allow (DurableFile).                     *)
(*                                                                         *)
(* Digests are modelled by the value they bind, the ledger by its complete *)
(* lines and whether an incomplete line follows them, an offset by the     *)
(* number of lines before it.                                              *)
(***************************************************************************)
EXTENDS GrantPolicy, DurableFile, Sequences, FiniteSets

CONSTANTS
  Procs,      \* API server processes that share the store and the ledger
  Grants,     \* grant ids, each with the one credential it is issued for
  Policy,     \* the scopes, zones, expiry and window of each grant
  Seeds,      \* synthetic grants installed at first boot in demo mode, or {}
  None,       \* nothing: a missing file, witness, pending transaction, owner
  TornTails,  \* whether a write that stops half-way leaves part of its line
  Budget,     \* how many faults, crashes, outages and store losses to explore
  MaxTx,      \* bound: no issue, revoke or trip begins after this many commits
  MaxNotes,   \* bound: no use begins once the ledger has this many notes
  MaxClock    \* bound: the last instant

ASSUME GrantsAssumption == Grants \subseteq Nat \ {0} /\ Seeds \subseteq Grants
ASSUME PolicyAssumption == \A g \in Grants : WellFormed(Policy[g])
ASSUME BudgetAssumption ==
  Budget \in [{"faults", "crashes", "outages", "losses"} -> Nat]
ASSUME ClockAssumption == MaxClock \in Nat

VARIABLES
  store,      \* the grant envelope file
  ledger,     \* the JSONL ledger file
  lock,       \* the process that holds the store's flock, or None
  clock,
  phase,      \* where each process is in its request
  job,        \* the request: operation, grant, and the `now` it captured
  st,         \* the envelope its section last loaded or saved
  next,       \* the envelope it is saving
  backup,     \* the rollback copy save_state made of the previous envelope
  size,       \* the ledger's length before the append in progress
  own,        \* whether the commit in progress is the request's own
  tx,         \* transactions begun so far; the next one's id is tx + 1
  used,       \* how much of Budget is spent
  denied,     \* grants a completed section has seen no longer active
  issued      \* grants whose issue was acknowledged

section == <<st, next, backup, size, own>>
ghosts == <<denied, issued>>
vars == <<store, ledger, lock, clock, phase, job, section, tx, used, ghosts>>

Ops == {"ensure", "snapshot", "use", "issue", "revoke", "trip"}
OnGrant == {"use", "issue", "revoke"}
\* `now` decides these; for the others it is only the receipt's timestamp.
Timed == {"snapshot", "use", "issue"} \cup (IF Seeds = {} THEN {} ELSE Ops)
Phases == {"idle", "waiting", "reload", "decide", "save", "syncdir", "unsave",
           "append", "fsync", "truncate", "resync", "lease", "refused", "reply"}
InSection(p) == phase[p] \notin {"idle", "waiting"}

(***************************************************************************)
(* The envelope and the ledger.                                            *)
(***************************************************************************)
NoGrant == 0
Kinds == {"issue", "demo_seed", "revoke", "expire", "suspend_all"}
\* A faulty variant: an expiry is recorded under a type the ledger lacks.
EventTypeByName(kind) == IF kind = "expire" THEN "EXPIRE" ELSE "GRANT"

EventType(kind) == CASE kind = "issue" -> "GRANT"
                     [] kind = "demo_seed" -> "PROVISION"
                     [] kind = "revoke" -> "REVOKE"
                     [] kind = "expire" -> "DENY"
                     [] kind = "suspend_all" -> "ESTOP"
Events == [type : {"GRANT", "PROVISION", "REVOKE", "DENY", "ESTOP", "READ"},
           agent : Grants \cup {NoGrant}, tx : Nat, rev : Nat]
Note(type, g) == [type |-> type, agent |-> g, tx |-> 0, rev |-> 0]
Ledgers == [lines : Seq(Events), torn : BOOLEAN]

Tables == UNION {[S -> Statuses] : S \in SUBSET Grants}
Witnesses == [off : Nat, event : Events, target : Tables]
Pendings == [kind : Kinds, base : Nat, event : Events, tail : Seq(Events),
             target : Tables, prev : Tables]
Envelopes == [rev : Nat, grants : Tables,
              wit : Witnesses \cup {None}, pend : Pendings \cup {None}]
NoTable == [g \in {} |-> "ACTIVE"]
ASSUME NoneAssumption ==
  None \notin Procs \cup Envelopes \cup Pendings \cup Witnesses

Empty == [rev |-> 0, grants |-> NoTable, wit |-> None, pend |-> None]

With(table, S, status) ==
  [g \in DOMAIN table \cup S |-> IF g \in S THEN status ELSE table[g]]
Only(table, S) == [g \in S |-> table[g]]
ActiveIn(table) == {g \in DOMAIN table : table[g] = "ACTIVE"}

\* verify_witness: the line at the witness's offset is the witnessed receipt.
Witnessed(e) ==
  IF e.rev = 0 THEN e.wit = None
  ELSE /\ e.wit # None
       /\ e.wit.off < Len(ledger.now.lines)
       /\ ledger.now.lines[e.wit.off + 1] = e.wit.event

VerifiedClean(e) ==
  /\ e.pend = None
  /\ Witnessed(e)
  /\ e.grants = IF e.rev = 0 THEN NoTable ELSE e.wit.target

\* The prefix of the ledger a pending transaction was prepared against.
PrefixMatches(pend) ==
  /\ Len(pend.tail) <= Len(ledger.now.lines)
  /\ SubSeq(ledger.now.lines, 1, Len(pend.tail)) = pend.tail

Absent(pend) ==
  /\ PrefixMatches(pend)
  /\ Len(ledger.now.lines) = Len(pend.tail)
  /\ ~ledger.now.torn

Present(pend) ==
  /\ PrefixMatches(pend)
  /\ Len(ledger.now.lines) > Len(pend.tail)
  /\ ledger.now.lines[Len(pend.tail) + 1] = pend.event

Ambiguous(pend) == ~Absent(pend) /\ ~Present(pend)

\* The receipts of transactions; the other lines are notes.
Receipts == SelectSeq(ledger.now.lines, LAMBDA line : line.tx # 0)

\* An incomplete tail is cut off, and the cut synced, before anything is added.
Whole(lines) == [lines |-> lines, torn |-> FALSE]
Repaired == Whole(ledger.now.lines)
RepairedFile == IF ledger.now.torn THEN Synced(Repaired) ELSE ledger
TornTail == IF TornTails THEN {[lines |-> ledger.now.lines, torn |-> TRUE]} ELSE {}

HasHistory == ledger.now.lines # <<>> \/ ledger.now.torn

(***************************************************************************)
(* The three envelopes of a transaction.                                   *)
(***************************************************************************)
\* A faulty variant: a pending issue is in effect before its receipt.
EffectiveAtOnce(kind, current, target) == target

\* A restriction is in effect while it is pending, a new grant is not.
Effective(kind, current, target) ==
  IF kind \in {"issue", "demo_seed"} THEN current ELSE target

Prepared(e, kind, target, prev, agent) ==
  [e EXCEPT !.grants = Effective(kind, e.grants, target),
            !.pend = [kind |-> kind, base |-> e.rev, target |-> target,
                      prev |-> prev, tail |-> ledger.now.lines,
                      event |-> [type |-> EventType(kind), agent |-> agent,
                                 tx |-> tx + 1, rev |-> e.rev + 1]]]

Final(e) ==
  [rev |-> e.pend.event.rev, grants |-> e.pend.target, pend |-> None,
   wit |-> [off |-> Len(e.pend.tail), event |-> e.pend.event,
            target |-> e.pend.target]]

Aborted(e) == [e EXCEPT !.pend = None]

\* What the store demands of a pending envelope before it saves or loads it:
\* the transition has the shape of its kind and starts at the witnessed table.
From(kind) == IF kind = "revoke" THEN {"ACTIVE", "SUSPENDED"} ELSE {"ACTIVE"}
To(kind) == CASE kind = "revoke" -> "REVOKED"
              [] kind = "expire" -> "EXPIRED"
              [] kind = "suspend_all" -> "SUSPENDED"

AdditionAccepted(e) ==
  LET added == DOMAIN e.pend.target \ DOMAIN e.grants
  IN  /\ e.pend.prev = NoTable
      /\ DOMAIN e.grants \subseteq DOMAIN e.pend.target
      /\ e.grants = Only(e.pend.target, DOMAIN e.grants)
      /\ added \subseteq ActiveIn(e.pend.target)
      /\ IF e.pend.kind = "issue" THEN Cardinality(added) = 1
         ELSE e.rev = 0 /\ e.grants = NoTable /\ added # {}

RestrictionAccepted(e) ==
  LET changed == DOMAIN e.pend.prev
  IN  /\ e.grants = e.pend.target
      /\ changed \subseteq DOMAIN e.pend.target
      /\ \A g \in changed : /\ e.pend.prev[g] \in From(e.pend.kind)
                             /\ e.pend.target[g] = To(e.pend.kind)
      /\ IF e.pend.kind = "suspend_all" THEN ActiveIn(e.pend.target) = {}
         ELSE Cardinality(changed) = 1

BaseTable(e) ==
  IF e.pend.kind \in {"issue", "demo_seed"} THEN e.grants
  ELSE [g \in DOMAIN e.pend.target |->
          IF g \in DOMAIN e.pend.prev THEN e.pend.prev[g] ELSE e.pend.target[g]]

Accepted(e) ==
  /\ e.rev = 0 <=> e.wit = None
  /\ e.wit # None => e.wit.event.rev = e.rev
  /\ e.pend # None =>
       /\ e.pend.base = e.rev /\ e.pend.event.rev = e.rev + 1
       /\ e.pend.event.type = EventType(e.pend.kind)
       /\ IF e.pend.kind \in {"issue", "demo_seed"} THEN AdditionAccepted(e)
          ELSE RestrictionAccepted(e)
       /\ BaseTable(e) = IF e.rev = 0 THEN NoTable ELSE e.wit.target

(***************************************************************************)
(* Requests and the lock.                                                  *)
(***************************************************************************)
Spend(kind) ==
  /\ used[kind] < Budget[kind]
  /\ used' = [used EXCEPT ![kind] = @ + 1]

Goto(p, where) == phase' = [phase EXCEPT ![p] = where]

NoJob == [op |-> "ensure", grant |-> NoGrant, now |-> 0]

Init ==
  /\ store = Synced(None)
  /\ ledger = Synced(Whole(<<>>))
  /\ lock = None
  /\ clock = 0
  /\ phase = [p \in Procs |-> "idle"]
  /\ job = [p \in Procs |-> NoJob]
  /\ st = [p \in Procs |-> Empty]
  /\ next = [p \in Procs |-> Empty]
  /\ backup = [p \in Procs |-> None]
  /\ size = [p \in Procs |-> 0]
  /\ own = [p \in Procs |-> FALSE]
  /\ tx = 0
  /\ used = [kind \in DOMAIN Budget |-> 0]
  /\ denied = {} /\ issued = {}

\* A request captures its clock before it waits for the lock.
Begin(p) ==
  /\ phase[p] = "idle"
  /\ \E op \in Ops, g \in Grants \cup {NoGrant} :
       /\ op \in OnGrant <=> g # NoGrant
       /\ op \in {"issue", "revoke", "trip"} => tx < MaxTx
       /\ op = "use" => Len(ledger.now.lines) - Len(Receipts) < MaxNotes
       /\ job' = [job EXCEPT ![p] = [op |-> op, grant |-> g,
                                    now |-> IF op \in Timed THEN clock ELSE 0]]
  /\ Goto(p, "waiting")
  /\ UNCHANGED <<store, ledger, lock, clock, section, tx, used, ghosts>>

\* A faulty variant: a section begins while another process is in one.
AcquireHeld(p) ==
  /\ phase[p] = "waiting"
  /\ lock' = p
  /\ Goto(p, "reload")
  /\ UNCHANGED <<store, ledger, clock, job, section, tx, used, ghosts>>

Acquire(p) ==
  /\ phase[p] = "waiting"
  /\ lock = None
  /\ lock' = p
  /\ Goto(p, "reload")
  /\ UNCHANGED <<store, ledger, clock, job, section, tx, used, ghosts>>

\* A faulty variant: a section that ends does not release the flock.
LeaveLocked(p) ==
  /\ Goto(p, "idle")
  /\ st' = [st EXCEPT ![p] = Empty]
  /\ next' = [next EXCEPT ![p] = Empty]
  /\ backup' = [backup EXCEPT ![p] = None]
  /\ size' = [size EXCEPT ![p] = 0]
  /\ own' = [own EXCEPT ![p] = FALSE]
  /\ job' = [job EXCEPT ![p] = NoJob]
  /\ UNCHANGED <<lock, clock, tx>>

\* Leave the section: whatever it held in memory is reloaded before it is used.
Leave(p) ==
  /\ lock' = None
  /\ Goto(p, "idle")
  /\ st' = [st EXCEPT ![p] = Empty]
  /\ next' = [next EXCEPT ![p] = Empty]
  /\ backup' = [backup EXCEPT ![p] = None]
  /\ size' = [size EXCEPT ![p] = 0]
  /\ own' = [own EXCEPT ![p] = FALSE]
  /\ job' = [job EXCEPT ![p] = NoJob]
  /\ UNCHANGED <<clock, tx>>

\* The section fails: the caller gets 503 and the authority is unavailable.
Abandon(p) == Leave(p) /\ UNCHANGED ghosts

(***************************************************************************)
(* Committing a transaction: first its checkpoint and pending envelope.    *)
(***************************************************************************)
Commit(p, e, kind, target, prev, agent) ==
  /\ ledger' = Synced(Repaired)
  /\ next' = [next EXCEPT ![p] = Prepared(e, kind, target, prev, agent)]
  /\ own' = [own EXCEPT ![p] = kind # "demo_seed"]
  /\ tx' = tx + 1
  /\ Goto(p, "save")
  /\ UNCHANGED <<store, lock, clock, job, st, backup, size, used, ghosts>>

(***************************************************************************)
(* Reload and recovery.                                                    *)
(***************************************************************************)
Loads(p, e) ==
  /\ st' = [st EXCEPT ![p] = e]
  /\ Goto(p, "decide")
  /\ UNCHANGED <<store, ledger, lock, clock, job, next, backup, size, own, tx,
                 used, ghosts>>

StartEmpty(p) ==
  /\ phase[p] = "reload" /\ store.now = None /\ ~HasHistory /\ Seeds = {}
  /\ Loads(p, Empty)

\* A faulty variant: demo seeds are installed over a ledger with history.
BootstrapOverHistory(p) ==
  /\ phase[p] = "reload" /\ store.now = None /\ Seeds # {}
  /\ \A g \in Seeds : Issuable(Policy[g], job[p].now)
  /\ Commit(p, Empty, "demo_seed", With(NoTable, Seeds, "ACTIVE"), NoTable, NoGrant)

Bootstrap(p) ==
  /\ phase[p] = "reload" /\ store.now = None /\ ~HasHistory /\ Seeds # {}
  /\ \A g \in Seeds : Issuable(Policy[g], job[p].now)
  /\ Commit(p, Empty, "demo_seed", With(NoTable, Seeds, "ACTIVE"), NoTable, NoGrant)

LoadClean(p) ==
  /\ phase[p] = "reload" /\ store.now # None
  /\ VerifiedClean(store.now)
  /\ Loads(p, store.now)

Recoverable(p) ==
  /\ phase[p] = "reload" /\ store.now # None
  /\ store.now.pend # None
  /\ Witnessed(store.now)

\* A receipt already at its offset: finalize.
RecoverPresent(p) ==
  /\ Recoverable(p) /\ Present(store.now.pend)
  /\ st' = [st EXCEPT ![p] = store.now]
  /\ next' = [next EXCEPT ![p] = Final(store.now)]
  /\ Goto(p, "save")
  /\ UNCHANGED <<store, ledger, lock, clock, job, backup, size, own, tx, used,
                 ghosts>>

\* A faulty variant: an issue is undone even when its receipt is durable.
AbortAnyIssue(p) ==
  /\ Recoverable(p) /\ ~Ambiguous(store.now.pend)
  /\ store.now.pend.kind = "issue"
  /\ st' = [st EXCEPT ![p] = store.now]
  /\ next' = [next EXCEPT ![p] = Aborted(store.now)]
  /\ Goto(p, "save")
  /\ UNCHANGED <<store, ledger, lock, clock, job, backup, size, own, tx, used,
                 ghosts>>

\* No receipt: an issue is undone ...
RecoverAbort(p) ==
  /\ Recoverable(p) /\ Absent(store.now.pend)
  /\ store.now.pend.kind = "issue"
  /\ st' = [st EXCEPT ![p] = store.now]
  /\ next' = [next EXCEPT ![p] = Aborted(store.now)]
  /\ Goto(p, "save")
  /\ UNCHANGED <<store, ledger, lock, clock, job, backup, size, own, tx, used,
                 ghosts>>

\* ... and every other transaction is rolled forward.
RecoverAppend(p) ==
  /\ Recoverable(p) /\ Absent(store.now.pend)
  /\ store.now.pend.kind # "issue"
  /\ st' = [st EXCEPT ![p] = store.now]
  /\ Goto(p, "append")
  /\ UNCHANGED <<store, ledger, lock, clock, job, next, backup, size, own, tx,
                 used, ghosts>>

\* History without a store, a witness that fails, an ambiguous pending pair,
\* or a seed that may not be issued any more.
RefuseReload(p) ==
  /\ phase[p] = "reload"
  /\ \/ /\ store.now = None
        /\ HasHistory \/ \E g \in Seeds : ~Issuable(Policy[g], job[p].now)
     \/ /\ store.now # None /\ store.now.pend = None
        /\ ~VerifiedClean(store.now)
     \/ /\ store.now # None /\ store.now.pend # None
        /\ ~Witnessed(store.now) \/ Ambiguous(store.now.pend)
  /\ Abandon(p)
  /\ UNCHANGED <<store, ledger, used>>

(***************************************************************************)
(* Deciding, on the envelope the section loaded.                           *)
(***************************************************************************)
Verdict(p, g) == Decision(st[p].grants[g], Policy[g], job[p].now)
DueGrants(p) == {g \in DOMAIN st[p].grants : Verdict(p, g) = "expired"}
Known(p) == job[p].grant \in DOMAIN st[p].grants

Deciding(p, op) == phase[p] = "decide" /\ job[p].op = op

MoveTo(p, where) ==
  /\ Goto(p, where)
  /\ UNCHANGED <<store, ledger, lock, clock, job, section, tx, used, ghosts>>

Restricts(p, kind, S, status, agent) ==
  Commit(p, st[p], kind, With(st[p].grants, S, status), Only(st[p].grants, S), agent)

Ensure(p) == Deciding(p, "ensure") /\ MoveTo(p, "reply")

\* A due grant is expired, durably, before the request goes on.
ExpireDue(p) ==
  /\ Deciding(p, "snapshot") /\ DueGrants(p) # {}
  /\ \E g \in DueGrants(p) :
       /\ \A h \in DueGrants(p) : g <= h
       /\ Restricts(p, "expire", {g}, "EXPIRED", g)

Snapshot(p) == Deciding(p, "snapshot") /\ DueGrants(p) = {} /\ MoveTo(p, "reply")

UseUnauthenticated(p) == Deciding(p, "use") /\ ~Known(p) /\ MoveTo(p, "reply")

UseAllowed(p) ==
  /\ Deciding(p, "use") /\ Known(p)
  /\ Verdict(p, job[p].grant) = "allowed"
  /\ MoveTo(p, "lease")

UseRefused(p) ==
  /\ Deciding(p, "use") /\ Known(p)
  /\ Verdict(p, job[p].grant) \in {"denied", "outside_window"}
  /\ MoveTo(p, "refused")

\* A faulty variant: the expiry is reported and not committed.
UseDeniedWithoutCommit(p) ==
  /\ Deciding(p, "use") /\ Known(p)
  /\ Verdict(p, job[p].grant) = "expired"
  /\ Goto(p, "reply")
  /\ st' = [st EXCEPT ![p].grants[job[p].grant] = "EXPIRED"]
  /\ UNCHANGED <<store, ledger, lock, clock, job, next, backup, size, own, tx,
                 used, ghosts>>

UseExpired(p) ==
  /\ Deciding(p, "use") /\ Known(p)
  /\ Verdict(p, job[p].grant) = "expired"
  /\ Restricts(p, "expire", {job[p].grant}, "EXPIRED", job[p].grant)

IssueRefused(p) ==
  /\ Deciding(p, "issue")
  /\ Known(p) \/ ~Issuable(Policy[job[p].grant], job[p].now)
  /\ MoveTo(p, "reply")

Issue(p) ==
  /\ Deciding(p, "issue") /\ ~Known(p)
  /\ Issuable(Policy[job[p].grant], job[p].now)
  /\ Commit(p, st[p], "issue", With(st[p].grants, {job[p].grant}, "ACTIVE"),
            NoTable, job[p].grant)

RevokeUnchanged(p) ==
  /\ Deciding(p, "revoke")
  /\ Known(p) => st[p].grants[job[p].grant] \in {"REVOKED", "EXPIRED"}
  /\ MoveTo(p, "reply")

\* A faulty variant: the table in memory is changed and the file is not.
RevokeInMemory(p) ==
  /\ Deciding(p, "revoke") /\ Known(p)
  /\ st[p].grants[job[p].grant] \notin {"REVOKED", "EXPIRED"}
  /\ st' = [st EXCEPT ![p].grants[job[p].grant] = "REVOKED"]
  /\ Goto(p, "reply")
  /\ UNCHANGED <<store, ledger, lock, clock, job, next, backup, size, own, tx,
                 used, ghosts>>

Revoke(p) ==
  /\ Deciding(p, "revoke") /\ Known(p)
  /\ st[p].grants[job[p].grant] \notin {"REVOKED", "EXPIRED"}
  /\ Restricts(p, "revoke", {job[p].grant}, "REVOKED", job[p].grant)

\* A faulty variant: grants that were revoked or expired are suspended too.
SuspendKnown(p) ==
  /\ Deciding(p, "trip")
  /\ Restricts(p, "suspend_all", DOMAIN st[p].grants, "SUSPENDED", NoGrant)

\* One ESTOP receipt, even when no grant is active.
SuspendAll(p) ==
  /\ Deciding(p, "trip")
  /\ Restricts(p, "suspend_all", ActiveIn(st[p].grants), "SUSPENDED", NoGrant)

(***************************************************************************)
(* Saving an envelope.                                                     *)
(***************************************************************************)
\* The directory, with the rollback copy and the new file in it, is synced
\* before the live name moves.
Replace(p) ==
  /\ phase[p] = "save"
  /\ store' = Renamed(Synced(store.now), next[p])
  /\ backup' = [backup EXCEPT ![p] = store.now]
  /\ Goto(p, "syncdir")
  /\ UNCHANGED <<ledger, lock, clock, job, st, next, size, own, tx, used, ghosts>>

\* The checkpoint, a temporary file or its directory fails: nothing moved.
SaveFails(p) ==
  /\ phase[p] = "save"
  /\ Spend("faults")
  /\ Abandon(p)
  /\ UNCHANGED <<store, ledger>>

\* A pending envelope is followed by its receipt, a clean one is installed.
SyncDir(p) ==
  /\ phase[p] = "syncdir"
  /\ store' = Synced(next[p])
  /\ st' = [st EXCEPT ![p] = next[p]]
  /\ Goto(p, IF next[p].pend # None THEN "append"
             ELSE IF own[p] /\ job[p].op # "snapshot" THEN "reply" ELSE "decide")
  /\ UNCHANGED <<ledger, lock, clock, job, next, backup, size, own, tx, used,
                 ghosts>>

\* The new envelope is durable, but its rollback copy cannot be removed.
UnlinkFails(p) ==
  /\ phase[p] = "syncdir" /\ backup[p] # None
  /\ Spend("faults")
  /\ store' = Synced(next[p])
  /\ Abandon(p)
  /\ UNCHANGED ledger

SyncDirFails(p) ==
  /\ phase[p] = "syncdir"
  /\ Spend("faults")
  /\ Goto(p, "unsave")
  /\ UNCHANGED <<store, ledger, lock, clock, job, section, tx, ghosts>>

Unsave(p) ==
  /\ phase[p] = "unsave"
  /\ store' = Synced(backup[p])
  /\ Abandon(p)
  /\ UNCHANGED <<ledger, used>>

\* The rollback fails too, before or after it moves the old envelope back.
UnsaveFails(p) ==
  /\ phase[p] = "unsave"
  /\ Spend("faults")
  /\ store' \in {store, Renamed(store, backup[p])}
  /\ Abandon(p)
  /\ UNCHANGED ledger

(***************************************************************************)
(* Appending a line: the receipt of the pending envelope in `append`, the  *)
(* READ or DENY note of a use in `lease` and `refused`.                    *)
(***************************************************************************)
Appending(p) == phase[p] \in {"append", "lease", "refused"}

Line(p) ==
  CASE phase[p] = "append" -> st[p].pend.event
    [] phase[p] = "lease" -> Note("READ", job[p].grant)
    [] phase[p] = "refused" -> Note("DENY", job[p].grant)

\* append_prepared refuses a ledger that is not the one it was prepared for.
Write(p) ==
  /\ Appending(p)
  /\ IF phase[p] = "append" /\ ledger.now.lines # st[p].pend.tail
     THEN Abandon(p) /\ UNCHANGED ledger
     ELSE /\ ledger' = Written(RepairedFile,
                               Whole(Append(ledger.now.lines, Line(p))), TornTail)
          /\ size' = [size EXCEPT ![p] = Len(ledger.now.lines)]
          /\ Goto(p, "fsync")
          /\ UNCHANGED <<lock, clock, job, st, next, backup, own, tx, ghosts>>
  /\ UNCHANGED <<store, used>>

WriteFails(p) ==
  /\ Appending(p)
  /\ Spend("faults")
  /\ \E v \in {Repaired} \cup TornTail : ledger' = Written(RepairedFile, v, {})
  /\ size' = [size EXCEPT ![p] = Len(ledger.now.lines)]
  /\ Goto(p, "truncate")
  /\ UNCHANGED <<store, lock, clock, job, st, next, backup, own, tx, ghosts>>

\* A faulty variant: the request is answered as soon as its receipt is durable.
FsyncAcknowledges(p) ==
  /\ phase[p] = "fsync"
  /\ ledger' = Synced(ledger.now)
  /\ Goto(p, "reply")
  /\ UNCHANGED <<store, lock, clock, job, section, tx, used, ghosts>>

\* The commit point: the receipt is durable and the final envelope is saved.
Fsync(p) ==
  /\ phase[p] = "fsync"
  /\ ledger' = Synced(ledger.now)
  /\ IF st[p].pend = None
     THEN Goto(p, "reply") /\ UNCHANGED next
     ELSE Goto(p, "save") /\ next' = [next EXCEPT ![p] = Final(st[p])]
  /\ UNCHANGED <<store, lock, clock, job, st, backup, size, own, tx, used, ghosts>>

FsyncFails(p) ==
  /\ phase[p] = "fsync"
  /\ Spend("faults")
  /\ Goto(p, "truncate")
  /\ UNCHANGED <<store, ledger, lock, clock, job, section, tx, ghosts>>

\* _rollback: truncate to the size before the append, then sync it.
Truncate(p) ==
  /\ phase[p] = "truncate"
  /\ ledger' = Written(ledger, Whole(SubSeq(ledger.now.lines, 1, size[p])), {})
  /\ Goto(p, "resync")
  /\ UNCHANGED <<store, lock, clock, job, section, tx, used, ghosts>>

Resync(p) ==
  /\ phase[p] = "resync"
  /\ ledger' = Synced(ledger.now)
  /\ Abandon(p)
  /\ UNCHANGED <<store, used>>

\* A failed rollback is swallowed; the append has failed either way.
RollbackFails(p) ==
  /\ phase[p] \in {"truncate", "resync"}
  /\ Spend("faults")
  /\ Abandon(p)
  /\ UNCHANGED <<store, ledger>>

(***************************************************************************)
(* The end of a section, and what the environment does.                    *)
(***************************************************************************)
Reply(p) ==
  /\ phase[p] = "reply"
  /\ denied' = denied \cup (DOMAIN st[p].grants \ ActiveIn(st[p].grants))
  /\ issued' = IF job[p].op = "issue" /\ own[p] THEN issued \cup {job[p].grant}
               ELSE issued
  /\ Leave(p)
  /\ UNCHANGED <<store, ledger, used>>

\* The process stops; an append it was writing may leave part of its line.
Crash(p) ==
  /\ InSection(p)
  /\ Spend("crashes")
  /\ \E v \in {ledger.now} \cup (IF Appending(p) THEN TornTail ELSE {}) :
       ledger' = Written(ledger, v, {})
  /\ Abandon(p)
  /\ UNCHANGED store

PowerLoss ==
  /\ Spend("outages")
  /\ store' \in AfterPowerLoss(store)
  /\ ledger' \in AfterPowerLoss(ledger)
  /\ lock' = None
  /\ phase' = [p \in Procs |-> "idle"]
  /\ st' = [p \in Procs |-> Empty]
  /\ next' = [p \in Procs |-> Empty]
  /\ backup' = [p \in Procs |-> None]
  /\ size' = [p \in Procs |-> 0]
  /\ own' = [p \in Procs |-> FALSE]
  /\ job' = [p \in Procs |-> NoJob]
  /\ UNCHANGED <<clock, tx, ghosts>>

\* Somebody removes the envelope and leaves its ledger.
StoreLost ==
  /\ lock = None /\ store.now # None
  /\ Spend("losses")
  /\ store' = Synced(None)
  /\ UNCHANGED <<ledger, lock, clock, phase, job, section, tx, ghosts>>

Tick ==
  /\ clock < MaxClock
  /\ clock' = clock + 1
  /\ UNCHANGED <<store, ledger, lock, phase, job, section, tx, used, ghosts>>

Work(p) ==
  \/ StartEmpty(p) \/ Bootstrap(p) \/ LoadClean(p) \/ RecoverPresent(p)
  \/ RecoverAbort(p) \/ RecoverAppend(p) \/ RefuseReload(p)
  \/ Ensure(p) \/ ExpireDue(p) \/ Snapshot(p)
  \/ UseUnauthenticated(p) \/ UseAllowed(p) \/ UseRefused(p) \/ UseExpired(p)
  \/ IssueRefused(p) \/ Issue(p) \/ RevokeUnchanged(p) \/ Revoke(p)
  \/ SuspendAll(p)
  \/ Replace(p) \/ SyncDir(p) \/ Unsave(p)
  \/ Write(p) \/ Fsync(p) \/ Truncate(p) \/ Resync(p)
  \/ Reply(p)

Fault(p) ==
  \/ SaveFails(p) \/ UnlinkFails(p) \/ SyncDirFails(p) \/ UnsaveFails(p)
  \/ WriteFails(p) \/ FsyncFails(p) \/ RollbackFails(p)

Next ==
  \/ \E p \in Procs : Begin(p) \/ Acquire(p) \/ Work(p) \/ Fault(p) \/ Crash(p)
  \/ PowerLoss \/ StoreLost \/ Tick

Spec == Init /\ [][Next]_vars

\* Requests keep arriving, the flock is granted again and again, and a section
\* goes on until it leaves; nothing says that storage works or a process lives.
LiveSpec ==
  /\ Spec
  /\ \A p \in Procs : WF_vars(Begin(p)) /\ SF_vars(Acquire(p)) /\ WF_vars(Work(p))

(***************************************************************************)
(* Properties.                                                             *)
(***************************************************************************)
Jobs == {j \in [op : Ops, grant : Grants \cup {NoGrant}, now : 0 .. MaxClock] :
           j.op \in OnGrant <=> j.grant # NoGrant}

\* Every variable holds a value of its type.
TypeOK ==
  /\ store.now \in Envelopes \cup {None}
  /\ store.disk \subseteq Envelopes \cup {None}
  /\ ledger.now \in Ledgers /\ ledger.disk \subseteq Ledgers
  /\ lock \in Procs \cup {None}
  /\ clock \in 0 .. MaxClock
  /\ phase \in [Procs -> Phases]
  /\ job \in [Procs -> Jobs]
  /\ st \in [Procs -> Envelopes] /\ next \in [Procs -> Envelopes]
  /\ backup \in [Procs -> Envelopes \cup {None}]
  /\ size \in [Procs -> Nat] /\ own \in [Procs -> BOOLEAN]
  /\ tx \in Nat
  /\ used \in [{"faults", "crashes", "outages", "losses"} -> Nat]
  /\ denied \subseteq Grants /\ issued \subseteq Grants

\* The lease `authorized` yields: from the allowed decision to the reply.
InUse(p) ==
  /\ job[p].op = "use"
  /\ phase[p] \in {"lease", "fsync", "truncate", "resync", "reply"}
  /\ Known(p) /\ Verdict(p, job[p].grant) = "allowed"

\* Once any request has been answered from a table in which a grant is no
\* longer active (revoked, suspended, or expired at the clock of some request),
\* no process ever holds a lease on it again: not a request that captured an
\* older clock or waited for the lock, not after a crash or a power loss.
NoUseAfterDenial == \A p \in Procs : InUse(p) => job[p].grant \notin denied

\* The table as it stands: a section that has renamed its envelope into place
\* and not synced it yet may still undo that.
Table ==
  (IF lock # None /\ phase[lock] \in {"syncdir", "unsave"} THEN st[lock]
   ELSE IF store.now = None THEN Empty ELSE store.now).grants

\* A lease is of the request's own decision, not of what it recovers before.
Leased(p) == InUse(p) /\ ~own[p] /\ st[p].pend = None
Leases == [p \in Procs |-> IF Leased(p) THEN job[p].grant ELSE NoGrant]

\* The authority is one registry: its table changes by one whole operation at a
\* time, never under a lease, and what was answered outlives every crash and
\* power loss (docs/ARCHITECTURE.md:96-98, "so a concurrent revoke or suspension
\* cannot land in between").
Registry ==
  INSTANCE GrantRegistry
  WITH table <- Table, leases <- Leases,
       outages <- used["outages"], losses <- used["losses"]
ImplementsRegistry == Registry!Spec

\* A grant whose issue was acknowledged is in whatever envelope a crash, a
\* failed save or a power loss leaves (unless the file itself is removed).
AcknowledgedIssueKept ==
  \A g \in issued : \A e \in store.disk \cup {store.now} :
    e # None => g \in DOMAIN e.grants

\* The receipts among the lines are of the revisions 1 to n, one of each, in order.
OneReceiptEach(lines, n) ==
  LET R == {i \in 1 .. Len(lines) : lines[i].tx # 0}
  IN  /\ \A i \in R : lines[i].rev \in 1 .. n
      /\ \A rev \in 1 .. n : \E i \in R : lines[i].rev = rev
      /\ \A i, j \in R : i < j => lines[i].rev < lines[j].rev

\* They are of e's revisions, or of one more: that of its pending transaction.
Recorded(lines, e) ==
  \/ OneReceiptEach(lines, e.rev)
  \/ /\ e.pend # None
     /\ OneReceiptEach(lines, e.rev + 1)
     /\ \E i \in 1 .. Len(lines) : lines[i] = e.pend.event

\* The ledger holds exactly one receipt for each revision, in revision order:
\* an aborted issue leaves none, a recovered transaction never a second one
\* (until a power loss, which may give back a receipt that was truncated).
ReceiptsFollowRevisions ==
  used["outages"] = 0 =>
    LET lines == ledger.now.lines
    IN  IF store.now # None THEN Recorded(lines, store.now)
        ELSE \E n \in {0} \cup {lines[i].rev : i \in 1 .. Len(lines)} :
               OneReceiptEach(lines, n)

Admits(line, g) ==
  \/ line.type = "GRANT" /\ line.agent = g
  \/ line.type = "PROVISION" /\ g \in Seeds

Admitted(v, g) == \E i \in 1 .. Len(v.lines) : Admits(v.lines[i], g)

\* A grant is used only when the ledger shows the receipt that admitted it: an
\* issue that is pending, aborted or rolled back is never usable.
ReceiptBeforeUse ==
  \A p \in Procs : InUse(p) => Admitted(ledger.now, job[p].grant)

\* README.md:56 "Pending issues are never usable before their exact durable
\* ledger receipt": whatever a power loss would leave of the ledger admits a
\* grant that is in use.
DurableReceiptBeforeUse ==
  \A p \in Procs : InUse(p) => \A v \in ledger.disk : Admitted(v, job[p].grant)

\* The store's own validation accepts every envelope the authority saves or
\* recovers, so no transition can be lost to its own safety net.
EnvelopesAccepted ==
  \A p \in Procs : phase[p] = "save" => Accepted(next[p])

\* Demo seeds are installed at first boot only, never over existing history.
SeedsOnlyAtFirstBoot ==
  \A i \in 1 .. Len(ledger.now.lines) : ledger.now.lines[i].type = "PROVISION" => i = 1

\* A pending transaction is finished or undone: docs/ARCHITECTURE.md:102-106,
\* "On restart - or on the next request after an I/O failure - the authority"
\* aborts it, rolls it forward or finalizes it.
Pending == store.now # None /\ store.now.pend # None
PendingResolves == Pending ~> ~Pending

\* Every request leaves its section, and so releases the lock.
RequestsEnd == \A p \in Procs : phase[p] = "waiting" ~> phase[p] = "idle"

(***************************************************************************)
(* The inductive invariants behind TypeOK and NoUseAfterDenial.            *)
(***************************************************************************)
LockInv == \A p \in Procs : InSection(p) => lock = p

AppendingInv(p) ==
  /\ phase[p] = "append" => st[p].pend # None
  /\ phase[p] \in {"fsync", "truncate"} => size[p] <= Len(ledger.now.lines)

TypeInv == TypeOK /\ LockInv /\ \A p \in Procs : AppendingInv(p)

\* g is in the table and no longer active.
Off(g, table) == g \in DOMAIN table /\ table[g] # "ACTIVE"

\* Whatever recovery makes of e, g stays out of use.
Retired(e, g) ==
  /\ e # None
  /\ Off(g, e.grants)
  /\ e.pend # None => Off(g, e.pend.target)

\* A pending transaction restricts in its effective table what it restricts in
\* its target: finishing and undoing it agree on every grant that is off.
Shape(e) ==
  e # None /\ e.pend # None =>
    \A g \in Grants : Off(g, e.grants) <=> Off(g, e.pend.target)

\* n replaces e: a pending envelope a clean one, or the other way round.
Follows(e, n) ==
  IF n.pend # None
  THEN e.pend = None /\ \A g \in Grants : Off(g, e.grants) => Retired(n, g)
  ELSE e.pend # None /\ \A g \in Grants : Off(g, n.grants) <=> Off(g, e.grants)

\* What was answered holds in every envelope that may survive.
DiskInv ==
  /\ store.now \in store.disk
  /\ \A e \in store.disk : Shape(e) /\ \A g \in denied : Retired(e, g)

\* A clean envelope is answered from only when nothing older can come back.
CleanInv ==
  store.now # None /\ store.now.pend = None =>
    \A g \in Grants : Off(g, store.now.grants) =>
      \A e \in store.disk : Retired(e, g)

SavingInv(p) ==
  /\ phase[p] = "save" =>
       st[p] = IF store.now = None THEN Empty ELSE store.now
  /\ phase[p] \in {"syncdir", "unsave"} =>
       /\ store.now = next[p] /\ store.disk = {backup[p], next[p]}
       /\ st[p] = IF backup[p] = None THEN Empty ELSE backup[p]
  /\ phase[p] \in {"save", "syncdir", "unsave"} =>
       Shape(next[p]) /\ Follows(st[p], next[p])

SettledInv(p) ==
  /\ phase[p] \in {"idle", "waiting", "reload"} => st[p] = Empty
  /\ phase[p] \in {"append", "fsync", "truncate", "resync",
                   "decide", "lease", "refused", "reply"} =>
       st[p] = IF store.now = None THEN Empty ELSE store.now
  /\ phase[p] \in {"decide", "lease", "refused", "reply"} => st[p].pend = None

DenialInv ==
  /\ TypeInv /\ DiskInv /\ CleanInv
  /\ \A p \in Procs : SavingInv(p) /\ SettledInv(p)
=============================================================================
