--------------------------- MODULE CaptureIntake ---------------------------
(***************************************************************************)
(* Runs of the intake command (capture/vision_intake.py), which turn a     *)
(* directory of pictures into a private batch: frames and the manifest     *)
(* that names them, made in a staging directory and renamed into place.    *)
(*                                                                         *)
(* A source file is a version (the device, inode, size and time by which   *)
(* the code knows it again) and the picture it shows; two frames have the  *)
(* same digest when they show the same picture.  Sources are still images  *)
(* that are replaced, never overwritten in place.  A manifest's frames are *)
(* in the order of their ids, so a manifest is a sequence.                 *)
(***************************************************************************)
EXTENDS Integers, Sequences, FiniteSets, DurableFile

CONSTANTS
  Runs,        \* intake commands that may run at a time
  Batches,     \* batch ids
  SourceCount, \* pictures in the source directory
  Pictures,
  MaxFrames,   \* the frames a batch may have
  MaxRuns,     \* bound on the intake commands
  Budget,      \* bound on each kind of failure and on replaced sources
  None

Sources == 1 .. SourceCount
Frames == [source : Sources, picture : Pictures]
Manifests == Seq(Frames)

ASSUME CaptureIntakeAssumption ==
  /\ SourceCount \in Nat \ {0} /\ MaxFrames \in Nat \ {0} /\ MaxRuns \in Nat
  /\ Budget \in [{"faults", "crashes", "outages", "changes"} -> Nat]
  /\ None \notin Batches
  /\ None \notin [manifest : Manifests, files : Manifests]

VARIABLES
  media,     \* the source files now
  run,       \* what each intake command knows
  staging,   \* whether .staging-<id> exists, a DurableFile for each id
  batch,     \* what batch-<id> holds, a DurableFile for each id
  completed, \* history: the results returned for each id
  started,   \* intake commands so far
  lost,      \* history: whether a power loss has taken data/capture itself
  used       \* failures and changes so far

intakeVars == <<media, run, staging, batch, completed, started, lost>>

Media == [Sources -> [version : Nat, picture : Pictures]]
\* A batch directory holds frame files, by number, and perhaps a manifest.
Whole(m) == [manifest |-> m, files |-> m]
Remains(m) ==
  {[manifest |-> x, files |-> [i \in kept |-> m[i]]] :
     x \in {m, None}, kept \in SUBSET DOMAIN m}

\* Evenly spread members of 1 .. n, all of them when the limit allows.
CenterIndices(n, limit) ==
  IF n <= limit
  THEN [i \in 1 .. n |-> i]
  ELSE [i \in 1 .. limit |-> ((2 * i - 1) * n) \div (2 * limit) + 1]

Candidates == CenterIndices(SourceCount, MaxFrames)

Idle == [at |-> "idle", id |-> None, plan |-> None, next |-> 1, frames |-> <<>>]

\* data/capture holds nothing, made long ago or to be made by the first intake.
Init ==
  /\ media \in {[s \in Sources |-> [version |-> 0, picture |-> shown[s]]] :
                  shown \in [Sources -> Pictures]}
  /\ run = [c \in Runs |-> Idle]
  /\ staging = [b \in Batches |-> Synced(FALSE)]
  /\ batch = [b \in Batches |-> Synced(None)]
  /\ completed = [b \in Batches |-> {}]
  /\ started = 0
  /\ lost = FALSE
  /\ used = [kind \in DOMAIN Budget |-> 0]

Spend(kind) ==
  /\ used[kind] < Budget[kind]
  /\ used' = [used EXCEPT ![kind] = @ + 1]

Goto(c, place) == run' = [run EXCEPT ![c].at = place]
Ends(c) == run' = [run EXCEPT ![c] = Idle]
Put(b, v) == batch' = [batch EXCEPT ![b] = Renamed(@, v)]
Stage(b, v) == staging' = [staging EXCEPT ![b] = Renamed(@, v)]

\* An fsync of data/capture: every name in it is durable as it is.
SyncRoot ==
  /\ batch' = [b \in Batches |-> Synced(batch[b].now)]
  /\ staging' = [b \in Batches |-> Synced(staging[b].now)]

(***************************************************************************)
(* run_intake, call by call.                                               *)
(***************************************************************************)
\* A picture is replaced by another file of its name.
ReplaceSource(s) ==
  /\ Spend("changes")
  /\ \E p \in Pictures :
       media' = [media EXCEPT ![s] = [version |-> @.version + 1, picture |-> p]]
  /\ UNCHANGED <<run, staging, batch, completed, started>>

Discover(c) ==
  /\ run[c].at = "idle" /\ started < MaxRuns
  /\ run' = [run EXCEPT ![c] = [Idle EXCEPT !.at = "probing", !.plan = media]]
  /\ started' = started + 1
  /\ UNCHANGED <<media, staging, batch, completed, used>>

\* Every source is opened and probed: each must be the file discovered.
Probe(c) ==
  /\ run[c].at = "probing"
  /\ IF media = run[c].plan THEN Goto(c, "naming") ELSE Ends(c)
  /\ UNCHANGED <<media, staging, batch, completed, started, used>>

\* Two runs at a time never draw one id; an id of an earlier run is passed over.
Fresh(b) ==
  /\ \A d \in Runs : run[d].id # b
  /\ ~staging[b].now /\ batch[b].now = None

MakeStaging(c) ==
  /\ run[c].at = "naming"
  /\ \E b \in Batches :
       /\ Fresh(b)
       /\ Stage(b, TRUE)
       /\ run' = [run EXCEPT ![c].at = "extracting", ![c].id = b]
  /\ UNCHANGED <<media, batch, completed, started, used>>

\* No id is found in five draws, or mkdir fails, or the chmod after it does.
NoStaging(c) ==
  /\ run[c].at = "naming"
  /\ Spend("faults")
  /\ \/ UNCHANGED staging
     \/ \E b \in Batches : Fresh(b) /\ Stage(b, TRUE)
  /\ Ends(c)
  /\ UNCHANGED <<media, batch, completed, started>>

MoreFrames(c) == run[c].at = "extracting" /\ run[c].next <= Len(Candidates)
Candidate(c) == Candidates[run[c].next]
Seen(c) == {run[c].frames[i].picture : i \in DOMAIN run[c].frames}

\* A faulty variant: the file is not checked to be the one discovered.
ExtractUnverified(c) ==
  LET s == Candidate(c)
      p == media[s].picture
  IN /\ MoreFrames(c)
     /\ run' = [run EXCEPT ![c].next = @ + 1,
                           ![c].frames = IF p \in Seen(c) THEN @
                                         ELSE Append(@, [source |-> s, picture |-> p])]
     /\ UNCHANGED <<media, staging, batch, completed, started, used>>

\* One frame; one that shows a picture the batch has is unlinked again.
Extract(c) ==
  LET s == Candidate(c)
      p == media[s].picture
  IN /\ MoreFrames(c)
     /\ media[s] = run[c].plan[s]
     /\ run' = [run EXCEPT ![c].next = @ + 1,
                           ![c].frames = IF p \in Seen(c) THEN @
                                         ELSE Append(@, [source |-> s, picture |-> p])]
     /\ UNCHANGED <<media, staging, batch, completed, started, used>>

InputChanged(c) ==
  /\ MoreFrames(c)
  /\ media[Candidate(c)] # run[c].plan[Candidate(c)]
  /\ Goto(c, "cleaning")
  /\ UNCHANGED <<media, staging, batch, completed, started, used>>

\* The manifest is written and synced, and then the staging directory.
Seal(c) ==
  /\ run[c].at = "extracting" /\ ~MoreFrames(c)
  /\ Goto(c, "sealed")
  /\ UNCHANGED <<media, staging, batch, completed, started, used>>

\* A faulty variant: what is renamed is reported without syncing the root.
RenameReports(c) ==
  LET b == run[c].id IN
  /\ run[c].at = "sealed" /\ batch[b].now = None
  /\ Put(b, Whole(run[c].frames))
  /\ Stage(b, FALSE)
  /\ completed' = [completed EXCEPT ![b] = @ \cup {[manifest |-> run[c].frames, plan |-> run[c].plan]}]
  /\ Ends(c)
  /\ UNCHANGED <<media, started, used>>

Rename(c) ==
  LET b == run[c].id IN
  /\ run[c].at = "sealed" /\ batch[b].now = None
  /\ Put(b, Whole(run[c].frames))
  /\ Stage(b, FALSE)
  /\ Goto(c, "renamed")
  /\ UNCHANGED <<media, completed, started, used>>

Complete(c) ==
  /\ run[c].at = "renamed"
  /\ SyncRoot
  /\ completed' = [completed EXCEPT ![run[c].id] =
                     @ \cup {[manifest |-> run[c].frames, plan |-> run[c].plan]}]
  /\ Ends(c)
  /\ UNCHANGED <<media, started, used>>

SyncRootFails(c) ==
  /\ run[c].at = "renamed"
  /\ Spend("faults")
  /\ Goto(c, "removing")
  /\ UNCHANGED <<media, staging, batch, completed, started>>

Remove(c) ==
  /\ run[c].at = "removing"
  /\ batch' = [batch EXCEPT ![run[c].id] =
                 Written(@, None, Remains(run[c].frames))]
  /\ Goto(c, "removed")
  /\ UNCHANGED <<media, staging, completed, started, used>>

\* rmtree stops half way, by an error that is swallowed or with the process.
RemoveStops(c) ==
  /\ run[c].at = "removing"
  /\ Spend("faults") \/ Spend("crashes")
  /\ \E v \in Remains(run[c].frames) :
       batch' = [batch EXCEPT ![run[c].id] = Written(@, v, Remains(run[c].frames))]
  /\ Ends(c)
  /\ UNCHANGED <<media, staging, completed, started>>

\* The second sync of the root: its failure is swallowed, the run fails anyway.
Resync(c) ==
  /\ run[c].at = "removed"
  /\ \/ SyncRoot /\ UNCHANGED used
     \/ Spend("faults") /\ UNCHANGED <<staging, batch>>
  /\ Ends(c)
  /\ UNCHANGED <<media, completed, started>>

\* A call between mkdir and the rename fails.
RunFails(c) ==
  /\ run[c].at \in {"extracting", "sealed"}
  /\ Spend("faults")
  /\ Goto(c, "cleaning")
  /\ UNCHANGED <<media, staging, batch, completed, started>>

\* rmtree of the staging directory; its failure is swallowed.
Cleanup(c) ==
  /\ run[c].at = "cleaning"
  /\ \/ Stage(run[c].id, FALSE) /\ UNCHANGED used
     \/ Spend("faults") /\ UNCHANGED staging
  /\ Ends(c)
  /\ UNCHANGED <<media, batch, completed, started>>

RunCrashes(c) ==
  /\ run[c].at # "idle"
  /\ Spend("crashes")
  /\ Ends(c)
  /\ UNCHANGED <<media, staging, batch, completed, started>>

IntakeStep ==
  /\ \/ \E s \in Sources : ReplaceSource(s)
     \/ \E c \in Runs :
          \/ Discover(c) \/ Probe(c) \/ MakeStaging(c) \/ NoStaging(c)
          \/ Extract(c) \/ InputChanged(c) \/ Seal(c) \/ Rename(c) \/ Complete(c)
          \/ SyncRootFails(c) \/ Remove(c) \/ RemoveStops(c) \/ Resync(c)
          \/ RunFails(c) \/ Cleanup(c) \/ RunCrashes(c)
  /\ UNCHANGED lost

IntakePowerLoss ==
  /\ Spend("outages")
  /\ run' = [c \in Runs |-> Idle]
  /\ batch' \in SurvivingFiles(batch)
  /\ staging' \in SurvivingFiles(staging)
  /\ UNCHANGED <<media, completed, started, lost>>

\* An intake that finds no data/capture makes it, and nothing syncs the
\* directories it is an entry of: a power loss may take it with all it holds.
RootLoss ==
  /\ Spend("outages")
  /\ started > 0
  /\ run' = [c \in Runs |-> Idle]
  /\ batch' = [b \in Batches |-> Synced(None)]
  /\ staging' = [b \in Batches |-> Synced(FALSE)]
  /\ lost' = TRUE
  /\ UNCHANGED <<media, completed, started>>

(***************************************************************************)
(* Properties.                                                             *)
(***************************************************************************)
IntakePlaces ==
  {"idle", "probing", "naming", "extracting", "sealed", "renamed", "removing",
   "removed", "cleaning"}

IsContents(v) ==
  \/ v = None
  \/ /\ v.manifest \in Manifests \cup {None}
     /\ DOMAIN v.files \subseteq Nat
     /\ \A i \in DOMAIN v.files : v.files[i] \in Frames

RunRecords ==
  [at : IntakePlaces, id : Batches \cup {None}, plan : Media \cup {None},
   next : Nat \ {0}, frames : Manifests]

RunsTyped ==
  /\ run \in [Runs -> RunRecords]
  /\ \A c \in Runs :
       /\ run[c].at # "idle" => run[c].plan \in Media
       /\ run[c].at \notin {"idle", "probing", "naming"} => run[c].id \in Batches

FilesTyped ==
  /\ staging \in [Batches -> [now : BOOLEAN, disk : SUBSET BOOLEAN]]
  /\ batch = [b \in Batches |-> [now |-> batch[b].now, disk |-> batch[b].disk]]
  /\ \A b \in Batches : \A v \in batch[b].disk \cup {batch[b].now} : IsContents(v)

\* The types of the intake's variables, and that a run beyond naming has its id.
IntakeTypeOK ==
  /\ media \in Media
  /\ RunsTyped
  /\ FilesTyped
  /\ completed \in [Batches -> SUBSET [manifest : Manifests, plan : Media]]
  /\ started \in Nat
  /\ lost \in BOOLEAN
  /\ used \in [DOMAIN Budget -> Nat]

\* As long as data/capture itself is not lost, a batch whose id was returned is
\* on disk and whole, and its frames are the distinct pictures of the candidates
\* at the moment they were discovered.
CompletedBatchKept ==
  ~lost =>
    \A b \in Batches : \A result \in completed[b] :
      LET m == result.manifest IN
      /\ batch[b] = Synced(Whole(m))
      /\ \A i, j \in DOMAIN m : i # j => m[i].picture # m[j].picture
      /\ {m[i].picture : i \in DOMAIN m} =
           {result.plan[Candidates[k]].picture : k \in DOMAIN Candidates}
      /\ \A i \in DOMAIN m : m[i].picture = result.plan[m[i].source].picture
=============================================================================
