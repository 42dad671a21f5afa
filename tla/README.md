# Threshold node: TLA+ models, checks and proofs

Threshold is a local API server that lets a household's owner grant software
agents scoped, expiring, revocable access to a description of the home (the
*housefile*), and that records every decision in a ledger.  What makes it
correct is less what it serves than what it must never do: serve a grant that
was revoked, forget one it acknowledged, use one whose receipt is not in the
ledger, or go on while a stop is latched, whatever fails in between.

Paths below are relative to the repository root (`src/threshold/...` is the
Python package; PROJECT.json names the same files from the checkout's parent).

## 1. Inventory

| component | source | state it keeps | operations |
| --- | --- | --- | --- |
| grant authority | `grants/authority.py` | a cached table, whether it is ready | ensure_ready, issue, revoke, authorized (use), suspend_all, snapshot |
| grant store | `grants/store.py` | the envelope file (revision, table, witness, pending transaction), a lock file | transaction (flock), load_state, save_state with rollback |
| JSONL ledger | `core/ledger.py` | an append-only file | append, prepare / append_prepared / inspect_prepared, verify_witness, tail repair |
| grant policy | `grants/manager.py` | none | issue rule, use rule |
| quiet hours | `core/quiet_hours.py` | none | one decision |
| stop interlock | `hardware/estop.py` | latch, last report | trip, rearm |
| API server | `api/server.py` | GRANT_LOCK, AUTHORITY, INTERLOCK, DISPLAY_STATE | the HTTP routes |
| display | `hardware/display.py` | latched / transient frame | on_read, on_deny, trip, rearm, frame |
| scoped view | `housefile/scoped_view.py` | none | what a read discloses |
| housefile store | `housefile/store.py` | the housefile, a lock file | locked read, replace-with-restore |
| materialization | `housefile/materialize.py` | none | compare-and-swap of a reviewed revision |
| capture intake | `capture/vision_intake.py` | `data/capture`: staging directories, batches with a manifest | one intake command: discover, probe, extract, publish |
| vision proposals | `capture/vision_proposals.py`, `capture/openai_vision.py` | proposals and decisions beside their batch, each written at most once | create a proposal, decide on one |
| owner console | `../console/src/App.tsx`, `../console/src/api.ts` | owner token, snapshot, phase, request generation, abort handle | connect, refresh, lock, trip, re-arm, issue, revoke |
| receipt renderer, geometry and seed capture, adapters, bus, auth, config, scripts | elsewhere | none | not modelled, see section 8 |

**Interactions.**  A route takes GRANT_LOCK (one process), reads its clock, and
opens a section of the authority: the store's file lock (all processes) is held
while the authority reloads the envelope, recovers a pending transaction,
decides, commits and, for a use, until the disclosure and its ledger line are
done.  A commit is three durable steps over two files: pending envelope,
receipt, clean envelope that witnesses the receipt.  The interlock calls the
authority (suspend_all), the display, the adapters and a receipt observer, and
the routes consult its latch.  The capture commands are processes of their own:
an intake publishes a batch by a rename, and a proposal, then a decision of the
owner, is linked beside it by whoever comes first.  The owner's page sends
requests to the node and shows the snapshot of the last one.

**What is hard.**  Stops between two durable steps, and recovery from every
pair of files they leave; writes that are visible and not yet durable; failures
of the rollbacks themselves; requests that captured a clock and then waited;
copies of a table another process has changed; a trip any of whose
dependencies may raise or be interrupted; boundaries of intervals of time; a
housefile that is renamed over while others open it, and a replacement whose
undoing may fail; sources that are replaced while a batch is made of them; two
decisions on one proposal; answers that reach a page which has moved on.
PROJECT.json lists these under `hazards`, each at its line with the properties
that would catch it.

**What must hold.**  Authority: denial is final across processes, crashes and
power loss; an acknowledged issue is kept; ledger and table agree revision by
revision; nothing is used before its receipt; no seed over history; every
request ends; a pending transaction is resolved.  Interlock: a set latch denies,
suspension is final, effects happen once per cycle, a trip completes with its
evidence, no re-arm without a durable suspension.  Policy: the issue rule, the
use rule and the quiet hours agree about time.  Housefile: a receipt is final, two
reviews of one revision are never both applied, a refused review leaves nothing,
a revision names one document.  Capture: a batch that was returned is whole, of one
moment and durable; what was reported written is final; a decision binds the
evidence it was made on; a request that was refused leaves no decision.  Console: a lock is
kept, what is shown is fresh, and the page does not stay loading.

## 2. Modules

| module | models |
| --- | --- |
| `GrantPolicy` | the pure rules of `grants/manager.py` |
| `DurableFile` | what a file may hold after a power loss |
| `GrantAuthority` | authority, store and ledger: the state machine |
| `GrantRegistry` | the abstract promise of the authority: one table, changed by whole operations, never under a lease |
| `QuietHours` | the rule of `core/quiet_hours.py` |
| `AccessTimes` | one grant and the quiet hours as the clock goes on (composes the two rule modules) |
| `StopLatch` | the abstract promise of the interlock |
| `Interlock` | `hardware/estop.py` and the routes that trip, re-arm and obey it |
| `Housefile` | `housefile/materialize.py` over `housefile/store.py`: loads and reviews by several callers |
| `HousefileRegister` | the abstract promise of the housefile: one register, read whole, compared and swapped at one instant |
| `CaptureIntake` | runs of the intake command over a changing source directory |
| `ProposalReview` | proposals and decisions over the batches of `CaptureIntake`, which it EXTENDS |
| `OwnerConsole` | the owner's page and the requests it has under way |
| `MC*` | instances for TLC |
| `*Proofs` | theorems, section 6 |

Operators described as "a faulty variant" are deliberate bugs.  No action uses
them; each shows, when put in the place of the definition below it, that a
property is able to fail.

### GrantAuthority and the code

* `store.now` / `ledger.now` are what every process reads; `.disk` is the set of
  values one of which survives a power loss (`DurableFile`).  The code never
  leaves a torn envelope (it renames complete files), but does append to the
  ledger in place, hence `torn`.
* `st`, `next`, `backup`, `size`, `own` are the locals of a section: the
  envelope it loaded, the one it is saving, the rollback copy, the ledger's
  length before an append, whether the commit is the request's own or recovery.
* A digest is modelled by the value it binds and an offset by the number of
  lines before it; SHA-256 is taken to be injective.  The checkpoint's digest
  covers the last 64 KiB in the code and the whole prefix in the model.
* Each process answers one request at a time (GRANT_LOCK); `Begin` captures its
  clock, `Acquire` takes the flock, `reload` is `_reload`/`_recover`, `decide`
  is the operation, `save`..`unsave` is `_save_encoded`, `append`..`resync` is
  `append_prepared` with `_rollback`, `lease` and `refused` append the READ or
  DENY note of a use inside the section, `Reply` releases the lock.
* `Fault(p)` is a failing system call at each place the code handles one, and the
  handler that follows is the code's: return 503, roll back, or swallow the
  failure of a rollback.  `Crash` stops a process anywhere in its section.
  `PowerLoss` stops all and picks surviving file contents.  `StoreLost` is the
  envelope removed by hand, the case `has_history` guards against.
* `denied` and `issued` are history: what completed requests have told callers.
* `Registry` maps this state to `GrantRegistry`'s.  `Table` is the table of the store's
  envelope, but the one its section loaded while a rename is not yet synced, which that
  section may still undo.  `Leases` gives each process the grant it has decided to
  allow, from the decision to the reply.  Of a power loss the registry promises what
  was answered and no more; `StoreLost` is its `Removal`.

### Interlock and the code

`pc` holds the request a caller waits to make or its step inside `trip()`.
GRANT_LOCK is `lock`; requests without an inner call are one action, as the
route bodies are synchronous under the lock.  A dependency returns, raises an
Exception (isolated by the code) or a BaseException (which leaves `trip()` with
the latch set).  A display that raises stays as it was and the trip goes on; an
interruption may come before or after it is latched (`Show`).  Re-arming clears it,
or fails to, which does not keep the latch (`Rearm`).  `Persist` may commit and
still raise, because the authority can fail after its durable step.  `Restart` ends the process at any step and starts
one that is armed and has no evidence; `active`/`known` stand for the durable
table `GrantAuthority` models, which outlives it.

### Housefile and the code

A document is its revision and its zones; `by` and `past` are history that says
which request wrote it and what came before.  `Begin` is everything up to the
`open` that `locked()` makes before it has the flock, `Check` the `fstat` that
follows: `orphaned` holds the callers whose descriptor lost its link to a rename
in between.  `holding` is the section; `Refuse`, or `Stage`, `Replace`, `SyncDir`,
`DropCopy`, `Receive` are `_replace_existing_locked` call by call, and
`CommitFails`, `Restage`, `Restore`, `Settle` its handler.  The directory is not
synced before the rename here, as it is in the grant store, so `Renamed` keeps
every value an earlier unsynced rename may still leave.  `Crash` is also an
interruption that is no `Exception`: the handlers do not run, the lock goes.
`Doc` is what the callers can tell the document to be: the file's, or, while a
section saves, the one it would put back, since no one else can open the file
until the section ends.  Under it the module implements `HousefileRegister`.

### CaptureIntake and the code

A source file is the identity `_open_verified` compares (a version) and the
picture it shows; a digest is the picture.  `Discover` to `Resync` are
`run_intake` call by call: the plan made of the discovered files, one frame per
`Extract` (a picture the batch has already is dropped), `Seal` for the manifest
and its syncs, `Rename`, then `Complete` if the root could be synced and
`Remove`, `Resync` if not.  `Remains` is what an `rmtree` that stops half way
may leave.  `completed` is history: the results returned.  The operations that
only read or write inside the staging directory before the rename are not told
apart, since nothing reads it.

A first intake also makes `data/` and `data/capture` (`vision_intake.py:562-571`), and
nothing syncs the directories those two are entries of, so a power loss may take
all of `data/capture`, however well its contents were synced.  `RootLoss` does, `lost`
remembers it, and `CaptureLoss` composes it with the loss of the artifacts.  The
model allows it at the first power loss after an intake has begun, also where the
directory existed long before and is durable: more than the code can do.  The
properties about what is kept hold until `lost`.

### ProposalReview and the code

An artifact is a `DurableFile` per name (batch, proposal id, kind).  `Create`,
`Link`, `Unstage`, `Report` are `_atomic_private_artifact` call by call;
`SyncFails`, `Withdraw`, `SyncWithdrawn` are the inner handler, `AskFails` leads
to the outer one, `Tidy` is the `finally`, and `mine` is `staging_created`.  The
staging file's name is derived from the artifact's, so the requests for one name
meet there as well as at the link.  `Send` and `LoadProposal` take a digest that
was reported, as the commands require it of their caller; `Loads` is the whole
comparison of a manifest and its frames.  The serial number of a request makes
two requests' values differ, as a response id and the time of a decision do.

### OwnerConsole and the code

A call is one `load` or `runAction` under its generation; `calls[g].at` says at
which `await` it is, and `visible` whether its loading surface has been shown for
long enough (by the timer or by the abort).  `Finish` is what follows the last
await, with the `catch` and the `finally`: the same whether the promise was
fulfilled or rejected, but for what it shows.  `wire` is the request on its way
and its answer: `FetchRejects` stands for an abort, a broken connection and an
answer that the page refuses, and leaves an action that was sent free to reach
the node at any later time.  `node` counts the changes of the node's state, so
that a snapshot is the moment it was read at; `begun` and `effect` are history.
React batches the state set between two awaits, so each such stretch is one
action.  A reload of the page is its initial state again.

## 3. Runs

| run | instance | shows |
| --- | --- | --- |
| `authority_crash` | 1 process, 2 grants, 2 storage faults, 1 crash, 1 power loss, torn tails, 3 transactions | refinement of `GrantRegistry`: denial and acknowledgement survive any content the unsynced writes allow; one receipt per revision in order; use only after the receipt; the store's validation accepts everything the authority saves |
| `authority_interleaving` | 2 processes, 1 grant that is a seed, stale clocks, 1 crash, 1 store loss, 2 transactions, 1 note, fairness | denial holds between processes; seeds come at first boot only; refinement of `GrantRegistry`; requests end, pending transactions are resolved |
| `authority_torn_tail` | as above with torn tails, 1 transaction, no seed or loss | **violation**, section 7 |
| `authority_unsynced` | a crash before the fsync | **violation**, section 7 |
| `interlock_interrupts` | 3 callers, 2 grants, 2 adapters, 2 BaseExceptions or restarts, 2 cycles | the latch denies; suspension is final; effects once per cycle |
| `interlock_live` | 2 callers, no interruption, fairness | refinement of `StopLatch`; trips complete; requests end |
| `interlock_stale_report` | 1 interruption | **violation**, section 7 |
| `housefile_commit` | 2 callers, 3 loads or reviews, 2 letters, revisions of at most 2, 2 faults, 1 crash, 1 power loss, fairness | receipts are final and one per revision; refusals leave nothing; refinement of `HousefileRegister`; requests end |
| `housefile_race` | 2 reviews, no failure | **violation**, section 7 |
| `capture_review` | 1 intake of 2 out of 3 pictures, 2 reviewers with 3 requests for 1 proposal id, 2 failing calls, 1 crash, 1 power loss (which may take `data/capture` whole), 1 replaced picture | unless `data/capture` itself is lost, a returned batch is kept, artifacts are final and decisions bind their evidence; one failure leaves nothing behind |
| `console_session` | 6 generations, 2 tokens, 1 change by others, fairness | a lock is kept; what is shown is fresh; the cancel reaches the right request; loading ends |
| `access_times` | a day of 6 minutes, 2 days, 43 x 49 policies | issue, use and quiet hours agree; equal ends are quiet all day |

## 4. Bounds

`MaxTx` bounds the transactions begun on request: three let a grant be issued
and restricted while another is pending, and recovery adds its own.  `MaxNotes`
bounds READ/DENY lines; one suffices to separate a note from a receipt in the
prefix a transaction is bound to.  `MaxClock = 1` gives one instant on each side
of the first grant's expiry and of the second grant's window start.  `Budget`
bounds each kind of failure: two faults reach the double failure (a rollback
that fails), a crash after a fault reaches recovery from its result, and a power
loss after either reaches every surviving pair of files.  `MaxCycles = 2` is the
least with an *earlier* cycle's evidence.  Two adapters are the least with one
after a failing one.  Three housefile requests let a refused
review, a load and another review of the same revision follow one another; two
letters and two places let a revision turn over, carry and run out.  One intake
of three pictures with room for two has a candidate that is spread, one that may
be dropped as a duplicate and a batch of which only one frame is sent; three
requests let two decisions race on one proposal, or two proposals for one id and
a decision.  (Two intakes share nothing but the directory they sync: an id is
drawn of eight random bytes, and `Fresh` takes a draw that another run has just
made to be impossible.)  Six generations are a connect, an action, a lock while it
is under way, and another connect and action beside what is left of the first.
`authority_interleaving` keeps to one grant, which is enough for every operation on it
to meet every other in two sections, and has no torn tails, faults or power loss:
`DenialIsFinal` is proved for every instance, and `authority_crash` has the faults
and the issues, of two grants.
No bound
disables a step that ends something begun: they limit `Begin`, `Ask`, `Tick` and
the environment only.

## 5. Fairness

`GrantAuthority!LiveSpec`: `WF(Begin)`, requests keep arriving (recovery happens
on the next request, so nothing resolves without one); `SF(Acquire)`, each
waiter obtains the flock if it is free again and again (Linux wakes waiters in
FIFO order); `WF(Work)`, a section that can go on does.  Nothing is assumed of
faults or crashes except that the budget ends, i.e. storage works eventually.
`Interlock!LiveSpec`: `SF(Handle)` for the lock's waiters and `WF(Step)` for the
holder; nothing says a dependency succeeds, only that its call ends.
`Housefile!LiveSpec`: `SF(Acquire)` and `WF(Work)` in the same sense.  Clients
are not assumed to ask.
`OwnerConsole!LiveSpec`: `WF` of everything that belongs to one call: the node
answers or the browser gives up on the connection, the timer fires, and a promise
that has settled resumes its function.  The owner is not assumed to do anything.

## 6. Proofs

All theorems hold for every value of the constants under the modules' ASSUMEs:
grant ids are positive numbers, seeds are grants, each policy has at most one
expiry and one window (`WellFormed`), budgets and bounds are naturals, `None`
is none of the values it is told apart from.

* `GrantAuthorityProofs!TypeCorrect`.  `TypeOK` is not inductive: `Line(p)` is an
  event only if the section that appends has a pending envelope, and a
  truncation is a ledger only if the recorded size is within it.  The first is
  stable only because no other process touches a section's envelope, the second
  only because the section owns the lock.  `TypeInv` therefore adds `LockInv`
  (a section owns the lock) and `AppendingInv`.
* `GrantRegistryProofs!DenialIsFinal`: `Spec => []NoUseAfterDenial`, assuming
  `Budget["losses"] = 0`.  (If the store and, by a power loss, the unsynced
  ledger were both lost, a first boot would be indistinguishable; with a store
  loss and no outage the run `authority_interleaving` checks it.)
  `DenialInv` is the argument: every envelope that may survive keeps each denied
  grant out of use whatever recovery makes of it (`DiskInv`, `Retired`); a
  pending restriction is already effective in its table (`Shape`); a save moves
  between envelopes that agree on what is off (`Follows`, `SavingInv`); and a
  clean envelope is answered from only when nothing older can come back
  (`CleanInv`).
* `GrantLedgerProofs`: the two files agree, whatever fails, stops or is lost.
  `PlacesInv` says what a section's locals are of the files, step by step: what it
  has loaded is the store's, what it has renamed is the one of two values that
  may survive, and the prefix a rollback goes back to is durable.  With it every
  step is of one of a few kinds (`StepCases`: nobody's section goes on, a section is
  left, or one goes on by a named action), and the envelopes and ledgers that may
  survive grow in a few ways only (`EnvelopesGrow`, `HistoriesGrow`).  On these rest
  `SavedIsAccepted` (`EnvelopesAccepted`, from `GoodInv`: whatever is held or may
  survive is well formed, its pending transaction a restriction of its own table
  or an addition to it, so that recovery's results pass the store's own
  validation); `SeedsAtFirstBoot` (`SeedInv`); `ReceiptsPrecedeUse`
  (`ReceiptBeforeUse`: `ClaimInv` tells what the prefix a pending transaction is
  bound to contains, and `CoverInv` that a clean table's grants have their
  receipts in the ledger it is answered from); `IssuesAreKept`
  (`AcknowledgedIssueKept`: `IssuedInv`, an issue that was answered is in the table
  of every envelope that may survive and of every one a section moves between);
  and `OneReceiptPerRevision` (`ReceiptsFollowRevisions`: `ReceiptInv` follows a
  receipt along the phases of the section that appends it).
* `GrantRegistryProofs!AuthorityImplementsRegistry`: every step of the authority is a
  step of `GrantRegistry` or a stutter, with no assumption on failures or losses.
  The section is alone (`SectionAlone`): nobody else holds a lease, and one that saves
  holds none.  Where the store stays, a step is the beginning or the end of a lease, an
  answer or nothing (`StoreKept`, `ReplyAnswers`).  Where it is saved, the table moves from
  the envelope that was loaded to the one that is saved, or stays (`SavingSteps`); that
  these two are one whole operation apart, or none, follows from what the store accepts
  (`GoodInv`) and from `RegistryInv`: what is saved begins, finishes or undoes the
  transaction of what was loaded (`Succeeds`), and a transaction adds one grant or the
  seeds, or restricts one or all that are active (`Made`).  A power loss keeps every
  acknowledged issue by `IssuedInv` and every denial by `DenialInv`, as long as nothing
  was removed.
* `InterlockProofs`: `InterlockTypeCorrect`, `LatchHolds`, `StoppedIsFinal`,
  `EffectsOnce`, from `IInv`: who holds the lock is the one between two steps
  (`LockInv`), what each step of a trip knows of its counters (`StepInv`), what
  the kept report says of its cycle (`EvidenceInv`), what a set latch implies
  of the table (`DenyInv`).
* `InterlockProofs!InterlockImplementsStopLatch`, assuming `Interrupts = 0`: each
  action is a step of `StopLatch` or a stutter; re-arm needs that evidence on
  record is this cycle's, which is what an interruption breaks.
* `AccessTimesProofs`: an issued grant has an instant of use (the later of the
  issue and the window's start), a usable grant is issuable, access closes
  once, quiet hours turn at their ends and are never open if these are equal
  (from a lemma on `(n + 1) % Day`).

* `HousefileProofs`: `HousefileTypeCorrect`, for which a section must remember that
  its old document's revision can still be followed (`SavingInv`); and
  `ReceiptsAreFinal`, from `KeptInv`: every document that may survive, and every old
  one a section may put back, has every receipt in its history.  It is inductive
  because only the lock's holder receives, which `LockInv` adds.
  The order of revisions is `Earlier`, by length and then by letters.  That what
  `NextRevision` returns is later needs the last place of a set of places; an
  induction is not to be had, so `LastPlace` is proved from the cardinality of the
  set instead.  Then `RevisionsOnlyAdvance` (`RevisionsAdvance`), from `LineageInv`: the
  history of every document there is consists of earlier revisions (`Ordered`), and
  of each section it is known what it has loaded and written (`Placed`);
  `RevisionsAreReplacedOnce` (`OneReceiptPerRevision`), from `UsedInv`: what a receipt
  replaced is in the history of every document, so that it is never the latest
  again; `RefusalsLeaveNothing` (`RefusedIsUndone`), from `UndoneInv` and `NumberInv`
  (requests have numbers of their own), and `SeenRevisionsAgree`
  (`RevisionNamesOneDocument`), from `SeenInv`: without a power loss what was seen is in
  the history of the document a section may put back.
  `HousefileImplementsRegister`: a review is one swap, at its receipt or at the failure
  that leaves it applied; a load is one read; every other step is a stutter.

* `ProposalReviewProofs`: `TypeCorrect`, for which a request must have its name
  and value before it writes; `BatchesKept`, from `IntakeInv`: a run at a step
  has a plan and frames that show its candidates (`Shows`), the batch it is
  about to rename or has renamed is the only one of its id, and what it holds is
  durable from the moment its id is returned; `ArtifactsFinal`, from `FinalInv`:
  the reviewer that has linked a name and not yet reported or withdrawn it is the
  only one (`Linked`), so nobody else's failure withdraws it (both invariants are of
  the form `lost \/ ...`: they hold until `data/capture` is lost); and
  `DecisionsBound`, from `BindInv`: a decision's value binds a reported proposal
  from the time it is loaded (`BoundTo`), which `FinalInv` keeps in place;
  and `FailuresLeavePending` (`FailureLeavesPending`), from `PendingInv`: as long as at
  most one call has failed and nothing has stopped (`Mild`), a staging file is
  its one request's, and an unreported artifact belongs to the reviewer at work on it (a loss of the capture
  is an outage, so `Mild` excludes it: `LossCounted`).

* `OwnerConsoleProofs`: `ConsoleTypes`, `ConsoleLockKept`, `ConsoleShowsFresh` and
  `ConsoleWaitsForLatest`, from `ConsoleInv`.  Only the call of the latest generation
  concerns the page (`PageInv`), while any number of superseded ones go on; `WireInv`
  says what that call and its request can be at each `await`.  It needs that the
  generations to come have no call and nothing on its way (`Unborn`), and that a
  call which is past its action cannot have an action on the wire, or a later
  effect would make the snapshot it holds older than its own action.

Model-checked only: the four liveness properties, `PendingResolves`, `RequestsEnd`,
`TripsComplete` and `LoadingEnds`, as fairness and ENABLED are beyond the proof system.
Every invariant and every other action property of the passing runs has its
theorem, of the same formula the run checks.

Some properties have hypotheses of their own, because without them the code does
not promise them.  `RefusedIsUndone` and `RevisionNamesOneDocument` are stated for
behaviours without a power loss: a restore whose last sync failed, or a crash
before the first, may come out either way of one.  `ReceiptsFollowRevisions` is stated
without one too: a truncation that was never synced may come undone.
`FailureLeavesPending` allows a single failure: a second one, of the unlink or of
the sync after it, leaves the artifact or its staging file.
`CompletedBatchKept`, `ArtifactIsFinal` and `DecisionBindsEvidence` hold as long as
`data/capture` itself is not lost to a power loss (`~lost`).

## 7. Disagreements between code and documentation

1. `authority_torn_tail`: a crash that leaves part of a receipt's line makes the
   pending transaction ambiguous, because `inspect_prepared` compares before any
   append repairs the tail; every later request fails with 503, where
   `docs/ARCHITECTURE.md` promises recovery on the next request.
2. `authority_unsynced`: recovery finalizes on a receipt that is visible but was
   never synced, so a grant is used before its receipt is durable (README:
   "Pending issues are never usable before their exact durable ledger receipt").
3. `interlock_stale_report`: a BaseException out of a later trip leaves an earlier
   cycle's report, which re-arm takes for the current one (docstring: "for the
   most recent latch cycle").
4. `housefile_race`: `locked()` looks at the housefile before it has the lock; when
   another writer's rename falls between its `open` and its `fstat` the link count
   is 0, and a review that merely lost the race is refused as
   `unsafe_housefile_file`, where `tests/unit/test_materialize.py` expects
   `stale_housefile_revision`.  No document is harmed; the answer is wrong.

5. Not a run of its own: `tests/unit/test_vision_proposals.py:528-547` expects of two
   concurrent decisions that the loser gets `proposal_conflict`.  `CheckPending` comes
   before `Create`, so a loser that looks after the winner's link is told
   `proposal_not_pending`.  Either way nothing is written (`ArtifactIsFinal`).

## 8. Not modelled

The JSON codecs, field limits and permission checks (a document is a value of
its type; what the checks refuse is a fault), the ledger's bounded reader,
projections, CORS and owner authentication (no state), changes of a time zone's
offset, `MAX_GRANTS`, the receipt renderer, the scoped view, the geometry and the
seed capture (pure functions), the adapters (stubs), the display's transient
frames, the bus and the scripts.  Staged files that a crash leaves behind in the
housefile's or the store's directory have names of their own and nothing reads them.
Of the capture: the timestamps of a video's frames, byte limits, a source that is
overwritten in place while it is read (its identity is compared only before), and
two intakes that draw one id.  Of the console: drafts, tabs and messages, the
payload checks of `api.ts` and the drawing, which have no part in which answer is
shown.

Known and without a property, because the code promises nothing: a process that
stops between creating and unlinking an artifact's staging file leaves that name
in conflict for good; an artifact withdrawn by the outer handler is not synced, so
that a power loss may bring it back; the `data/` and `data/capture` a first intake makes
are not synced in their parents, so that a power loss may take every batch and
artifact with them (modelled, as `RootLoss`); a latch that was not followed by a durable
suspension is lost with its process; an aborted action may take effect after a
later snapshot was shown.

## 9. Plan

The display's frames, and the housefile's lifecycle across restarts with grants whose
zones are gone or no-go (`_validate_housefile_bindings`).
