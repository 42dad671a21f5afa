------------------------ MODULE ProposalReviewProofs ------------------------
(***************************************************************************)
(* What ProposalReview promises, for every number of runs, reviewers,      *)
(* batches, proposals, frames and failures.                                *)
(***************************************************************************)
EXTENDS ProposalReview, SequenceTheorems, TLAPS

(***************************************************************************)
(* Types.                                                                  *)
(***************************************************************************)
\* Evenly spread members of 1 .. n are members of 1 .. n.
LEMMA CentersInRange ==
  ASSUME NEW n \in Nat, NEW limit \in Nat \ {0}, NEW k \in DOMAIN CenterIndices(n, limit)
  PROVE  CenterIndices(n, limit)[k] \in 1 .. n
<1>1. CASE n <= limit
  BY <1>1 DEF CenterIndices
<1>2. CASE ~(n <= limit)
  <2>1. k \in 1 .. limit /\ CenterIndices(n, limit)[k] = ((2 * k - 1) * n) \div (2 * limit) + 1
    BY <1>2 DEF CenterIndices
  <2> DEFINE q == ((2 * k - 1) * n) \div (2 * limit)
  <2>2. (2 * k - 1) * n < (2 * limit) * n /\ (2 * k - 1) * n >= 0
    BY <2>1, <1>2
  <2>3. q \in Nat /\ q < n
    BY <2>1, <2>2, <1>2
  <2> QED BY <2>1, <2>3
<1> QED BY <1>1, <1>2

LEMMA CandidatesAreSources == \A k \in DOMAIN Candidates : Candidates[k] \in Sources
BY CentersInRange, CaptureIntakeAssumption DEF Candidates, Sources

LEMMA ContentsTyped ==
  ASSUME NEW m \in Manifests
  PROVE  IsContents(Whole(m)) /\ \A v \in Remains(m) : IsContents(v)
<1>1. DOMAIN m \subseteq Nat /\ \A i \in DOMAIN m : m[i] \in Frames
  BY LenProperties DEF Manifests
<1>2. IsContents(Whole(m))
  BY <1>1 DEF IsContents, Whole
<1>3. ASSUME NEW v \in Remains(m) PROVE IsContents(v)
  <2>1. PICK x \in {m, None}, kept \in SUBSET DOMAIN m :
          v = [manifest |-> x, files |-> [i \in kept |-> m[i]]]
    BY <1>3 DEF Remains
  <2> QED BY <1>1, <2>1 DEF IsContents
<1> QED BY <1>2, <1>3

LEMMA IntakeInitTyped == Init => IntakeTypeOK
<1> SUFFICES ASSUME Init PROVE IntakeTypeOK
  OBVIOUS
<1>1. media \in Media
  BY DEF Init, Media
<1>2. RunsTyped
  BY EmptySeq DEF Init, Idle, IntakePlaces, Manifests, RunsTyped, RunRecords
<1>3. FilesTyped
  BY DEF Init, Synced, IsContents, FilesTyped
<1> QED BY <1>1, <1>2, <1>3, CaptureIntakeAssumption DEF Init, IntakeTypeOK

LEMMA IdleTyped ==
  Idle \in RunRecords /\ Idle.at = "idle"
BY EmptySeq DEF Idle, RunRecords, IntakePlaces, Manifests

\* The ends of a run, its moves, and the syncs of the root keep the types.
LEMMA EndsTyped ==
  ASSUME IntakeTypeOK, NEW c \in Runs, Ends(c)
  PROVE  RunsTyped'
BY IdleTyped DEF Ends, IntakeTypeOK, RunsTyped

LEMMA GotoTyped ==
  ASSUME IntakeTypeOK, NEW c \in Runs, NEW place \in IntakePlaces, Goto(c, place),
         run[c].plan \in Media,
         place \notin {"idle", "probing", "naming"} => run[c].id \in Batches
  PROVE  RunsTyped'
BY DEF Goto, IntakeTypeOK, RunsTyped, RunRecords

LEMMA SyncRootTyped ==
  ASSUME IntakeTypeOK, SyncRoot
  PROVE  FilesTyped'
BY DEF SyncRoot, Synced, IntakeTypeOK, FilesTyped

LEMMA StageTyped ==
  ASSUME IntakeTypeOK, NEW b \in Batches, NEW v \in BOOLEAN, Stage(b, v),
         \/ UNCHANGED batch
         \/ \E m \in Manifests : Put(b, Whole(m))
  PROVE  FilesTyped'
<1>1. staging' \in [Batches -> [now : BOOLEAN, disk : SUBSET BOOLEAN]]
  BY DEF Stage, Renamed, IntakeTypeOK, FilesTyped
<1>2. CASE UNCHANGED batch
  BY <1>1, <1>2 DEF IntakeTypeOK, FilesTyped
<1>3. ASSUME NEW m \in Manifests, Put(b, Whole(m)) PROVE FilesTyped'
  <2>1. IsContents(Whole(m))
    BY ContentsTyped
  <2> QED BY <1>1, <1>3, <2>1 DEF Put, Renamed, IntakeTypeOK, FilesTyped
<1> QED BY <1>2, <1>3

LEMMA RemoveTyped ==
  ASSUME IntakeTypeOK, NEW b \in Batches, NEW m \in Manifests,
         NEW v \in Remains(m) \cup {None},
         batch' = [batch EXCEPT ![b] = Written(@, v, Remains(m))], UNCHANGED staging
  PROVE  FilesTyped'
<1>1. IsContents(v) /\ \A w \in Remains(m) : IsContents(w)
  BY ContentsTyped DEF IsContents
<1> QED BY <1>1 DEF Written, IntakeTypeOK, FilesTyped

LEMMA SpendTyped ==
  ASSUME IntakeTypeOK, NEW kind \in DOMAIN Budget, Spend(kind)
  PROVE  used' \in [DOMAIN Budget -> Nat]
BY DEF Spend, IntakeTypeOK

LEMMA IntakeStepTyped ==
  ASSUME IntakeTypeOK, IntakeStep
  PROVE  IntakeTypeOK'
<1>0. {"faults", "crashes", "outages", "changes"} = DOMAIN Budget
  BY CaptureIntakeAssumption
<1>a. lost' \in BOOLEAN
  BY DEF IntakeStep, IntakeTypeOK
<1> USE <1>a DEF IntakePlaces
<1>1. ASSUME NEW s \in Sources, ReplaceSource(s) PROVE IntakeTypeOK'
  <2>1. media' \in Media
    BY <1>1 DEF ReplaceSource, IntakeTypeOK, Media
  <2> QED BY <1>0, <1>1, <2>1, SpendTyped
          DEF ReplaceSource, IntakeTypeOK, RunsTyped, FilesTyped
<1>2. ASSUME NEW c \in Runs, Discover(c) PROVE IntakeTypeOK'
  <2> DEFINE new == [Idle EXCEPT !.at = "probing", !.plan = media]
  <2>1. new \in RunRecords /\ new.at = "probing" /\ new.plan \in Media
    BY IdleTyped DEF Idle, RunRecords, IntakeTypeOK
  <2>2. run' = [run EXCEPT ![c] = new]
    BY <1>2 DEF Discover
  <2> HIDE DEF new
  <2>3. RunsTyped'
    BY <2>1, <2>2 DEF IntakeTypeOK, RunsTyped
  <2> QED BY <1>2, <2>3 DEF Discover, IntakeTypeOK, FilesTyped
<1>3. ASSUME NEW c \in Runs, Probe(c) PROVE IntakeTypeOK'
  <2>1. RunsTyped'
    BY <1>3, EndsTyped, GotoTyped DEF Probe, IntakeTypeOK, RunsTyped
  <2> QED BY <1>3, <2>1 DEF Probe, IntakeTypeOK, FilesTyped
<1>4. ASSUME NEW c \in Runs, MakeStaging(c) PROVE IntakeTypeOK'
  <2>1. PICK b \in Batches :
          /\ Stage(b, TRUE)
          /\ run' = [run EXCEPT ![c].at = "extracting", ![c].id = b]
    BY <1>4 DEF MakeStaging
  <2> DEFINE new == [run[c] EXCEPT !.at = "extracting", !.id = b]
  <2>a. run[c] \in RunRecords /\ run[c].plan \in Media
    BY <1>4 DEF MakeStaging, IntakeTypeOK, RunsTyped
  <2>b. new \in RunRecords /\ new.at = "extracting" /\ new.plan \in Media /\ new.id \in Batches
    BY <2>a DEF RunRecords
  <2>c. run' = [run EXCEPT ![c] = new]
    BY <2>1
  <2> HIDE DEF new
  <2>2. RunsTyped'
    BY <2>b, <2>c DEF IntakeTypeOK, RunsTyped
  <2>3. FilesTyped'
    BY <1>4, <2>1, StageTyped DEF MakeStaging
  <2> QED BY <1>4, <2>2, <2>3 DEF MakeStaging, IntakeTypeOK
<1>5. ASSUME NEW c \in Runs, NoStaging(c) PROVE IntakeTypeOK'
  <2>1. RunsTyped'
    BY <1>5, EndsTyped DEF NoStaging
  <2>2. FilesTyped'
    BY <1>5, StageTyped DEF NoStaging, IntakeTypeOK, FilesTyped
  <2> QED BY <1>0, <1>5, <2>1, <2>2, SpendTyped DEF NoStaging, IntakeTypeOK
<1>6. ASSUME NEW c \in Runs, Extract(c) PROVE IntakeTypeOK'
  <2> DEFINE s == Candidate(c)
  <2>1. s \in Sources /\ media[s].picture \in Pictures
    <3>1. run[c].next \in DOMAIN Candidates
      BY <1>6, CaptureIntakeAssumption
      DEF Extract, MoreFrames, Candidates, CenterIndices, IntakeTypeOK, RunsTyped, RunRecords
    <3> QED BY <3>1, CandidatesAreSources DEF Candidate, IntakeTypeOK, Media
  <2> DEFINE f == [source |-> s, picture |-> media[s].picture]
  <2>2. f \in Frames /\ run[c].frames \in Seq(Frames)
    BY <2>1 DEF Frames, IntakeTypeOK, RunsTyped, RunRecords, Manifests
  <2>3. Append(run[c].frames, f) \in Manifests
    BY <2>2, AppendProperties DEF Manifests
  <2> DEFINE longer == IF f.picture \in Seen(c) THEN run[c].frames ELSE Append(run[c].frames, f)
             after == run[c].next + 1
             new == [run[c] EXCEPT !.next = after, !.frames = longer]
  <2>a. run[c] \in RunRecords /\ run[c].plan \in Media /\ run[c].id \in Batches
        /\ run[c].at = "extracting"
    BY <1>6 DEF Extract, MoreFrames, IntakeTypeOK, RunsTyped
  <2>c. run' = [run EXCEPT ![c] = new]
    BY <1>6 DEF Extract
  <2>d. longer \in Manifests /\ after \in Nat \ {0}
    BY <2>2, <2>3, <2>a DEF Manifests, RunRecords
  <2> HIDE DEF longer, after
  <2>b. new \in RunRecords /\ new.at = "extracting" /\ new.plan \in Media /\ new.id \in Batches
    BY <2>a, <2>d DEF RunRecords
  <2> HIDE DEF new
  <2>4. RunsTyped'
    BY <2>b, <2>c DEF IntakeTypeOK, RunsTyped
  <2> QED BY <1>6, <2>4 DEF Extract, IntakeTypeOK, FilesTyped
<1>7. ASSUME NEW c \in Runs, InputChanged(c) \/ Seal(c) PROVE IntakeTypeOK'
  <2>1. RunsTyped'
    BY <1>7, GotoTyped DEF InputChanged, Seal, MoreFrames, IntakeTypeOK, RunsTyped
  <2> QED BY <1>7, <2>1 DEF InputChanged, Seal, IntakeTypeOK, FilesTyped
<1>8. ASSUME NEW c \in Runs, Rename(c) PROVE IntakeTypeOK'
  <2>1. run[c].id \in Batches /\ run[c].frames \in Manifests /\ run[c].plan \in Media
    BY <1>8 DEF Rename, IntakeTypeOK, RunsTyped, RunRecords
  <2>2. RunsTyped'
    BY <1>8, <2>1, GotoTyped DEF Rename
  <2>3. FilesTyped'
    BY <1>8, <2>1, StageTyped DEF Rename
  <2> QED BY <1>8, <2>2, <2>3 DEF Rename, IntakeTypeOK
<1>9. ASSUME NEW c \in Runs, Complete(c) PROVE IntakeTypeOK'
  <2>1. completed' \in [Batches -> SUBSET [manifest : Manifests, plan : Media]]
    BY <1>9 DEF Complete, IntakeTypeOK, RunsTyped, RunRecords
  <2> QED BY <1>9, <2>1, EndsTyped, SyncRootTyped DEF Complete, IntakeTypeOK
<1>10. ASSUME NEW c \in Runs, SyncRootFails(c) \/ RunFails(c) PROVE IntakeTypeOK'
  <2>1. RunsTyped'
    BY <1>10, GotoTyped DEF SyncRootFails, RunFails, IntakeTypeOK, RunsTyped
  <2> QED BY <1>0, <1>10, <2>1, SpendTyped
          DEF SyncRootFails, RunFails, IntakeTypeOK, FilesTyped
<1>11. ASSUME NEW c \in Runs, Remove(c) PROVE IntakeTypeOK'
  <2>1. run[c].id \in Batches /\ run[c].frames \in Manifests /\ run[c].plan \in Media
    BY <1>11 DEF Remove, IntakeTypeOK, RunsTyped, RunRecords
  <2>2. RunsTyped'
    BY <1>11, <2>1, GotoTyped DEF Remove
  <2>3. FilesTyped'
    BY <1>11, <2>1, RemoveTyped DEF Remove
  <2> QED BY <1>11, <2>2, <2>3 DEF Remove, IntakeTypeOK
<1>12. ASSUME NEW c \in Runs, RemoveStops(c) PROVE IntakeTypeOK'
  <2>1. run[c].id \in Batches /\ run[c].frames \in Manifests
    BY <1>12 DEF RemoveStops, IntakeTypeOK, RunsTyped, RunRecords
  <2>2. FilesTyped'
    BY <1>12, <2>1, RemoveTyped DEF RemoveStops
  <2> QED BY <1>0, <1>12, <2>2, EndsTyped, SpendTyped DEF RemoveStops, IntakeTypeOK
<1>13. ASSUME NEW c \in Runs, Resync(c) PROVE IntakeTypeOK'
  <2>1. FilesTyped'
    BY <1>13, SyncRootTyped DEF Resync, IntakeTypeOK, FilesTyped
  <2>2. used' \in [DOMAIN Budget -> Nat]
    BY <1>0, <1>13, SpendTyped DEF Resync, IntakeTypeOK
  <2> QED BY <1>13, <2>1, <2>2, EndsTyped DEF Resync, IntakeTypeOK
<1>14. ASSUME NEW c \in Runs, Cleanup(c) PROVE IntakeTypeOK'
  <2>1. run[c].id \in Batches
    BY <1>14 DEF Cleanup, IntakeTypeOK, RunsTyped
  <2>2. FilesTyped'
    BY <1>14, <2>1, StageTyped DEF Cleanup, IntakeTypeOK, FilesTyped
  <2>3. used' \in [DOMAIN Budget -> Nat]
    BY <1>0, <1>14, SpendTyped DEF Cleanup, IntakeTypeOK
  <2> QED BY <1>14, <2>2, <2>3, EndsTyped DEF Cleanup, IntakeTypeOK
<1>15. ASSUME NEW c \in Runs, RunCrashes(c) PROVE IntakeTypeOK'
  BY <1>0, <1>15, EndsTyped, SpendTyped DEF RunCrashes, IntakeTypeOK, FilesTyped
<1> QED BY <1>1, <1>2, <1>3, <1>4, <1>5, <1>6, <1>7, <1>8, <1>9, <1>10, <1>11, <1>12,
           <1>13, <1>14, <1>15 DEF IntakeStep

LEMMA SurvivorsKnown ==
  ASSUME NEW files, NEW after \in SurvivingFiles(files)
  PROVE  /\ after = [n \in DOMAIN files |-> after[n]]
         /\ \A n \in DOMAIN files : \E v \in files[n].disk : after[n] = Synced(v)
<1> DEFINE unsettled == {n \in DOMAIN files : files[n].disk # {files[n].now}}
<1>1. PICK left \in [unsettled -> UNION {files[n].disk : n \in unsettled}] :
        /\ \A n \in unsettled : left[n] \in files[n].disk
        /\ after = [n \in DOMAIN files |->
                      Synced(IF n \in unsettled THEN left[n] ELSE files[n].now)]
  BY DEF SurvivingFiles
<1> QED BY <1>1

LEMMA IntakePowerLossTyped ==
  ASSUME IntakeTypeOK, IntakePowerLoss
  PROVE  IntakeTypeOK'
<1>1. RunsTyped'
  BY IdleTyped DEF IntakePowerLoss, RunsTyped
<1>2. /\ batch' = [b \in Batches |-> batch'[b]]
      /\ \A b \in Batches : \E v \in batch[b].disk : batch'[b] = Synced(v)
  BY SurvivorsKnown DEF IntakePowerLoss, IntakeTypeOK, FilesTyped
<1>3. /\ staging' = [b \in Batches |-> staging'[b]]
      /\ \A b \in Batches : \E v \in staging[b].disk : staging'[b] = Synced(v)
  BY SurvivorsKnown DEF IntakePowerLoss, IntakeTypeOK, FilesTyped
<1>4. staging' \in [Batches -> [now : BOOLEAN, disk : SUBSET BOOLEAN]]
  <2>1. \A b \in Batches : staging'[b] \in [now : BOOLEAN, disk : SUBSET BOOLEAN]
    BY <1>3 DEF Synced, IntakeTypeOK, FilesTyped
  <2> QED BY <1>3, <2>1
<1>5. FilesTyped'
  <2>1. \A b \in Batches :
          /\ batch'[b] = [now |-> batch'[b].now, disk |-> batch'[b].disk]
          /\ \A v \in batch'[b].disk \cup {batch'[b].now} : IsContents(v)
    BY <1>2 DEF Synced, IntakeTypeOK, FilesTyped
  <2>2. batch' = [b \in Batches |-> [now |-> batch'[b].now, disk |-> batch'[b].disk]]
    BY <1>2, <2>1
  <2> QED BY <1>4, <2>1, <2>2 DEF FilesTyped
<1>6. used' \in [DOMAIN Budget -> Nat]
  BY SpendTyped, CaptureIntakeAssumption DEF IntakePowerLoss
<1> QED BY <1>1, <1>5, <1>6 DEF IntakePowerLoss, IntakeTypeOK

LEMMA RootLossTyped ==
  ASSUME IntakeTypeOK, RootLoss
  PROVE  IntakeTypeOK'
<1>1. RunsTyped'
  BY IdleTyped DEF RootLoss, RunsTyped
<1>2. FilesTyped'
  BY DEF RootLoss, FilesTyped, Synced, IsContents
<1>3. used' \in [DOMAIN Budget -> Nat]
  BY SpendTyped, CaptureIntakeAssumption DEF RootLoss
<1> QED BY <1>1, <1>2, <1>3 DEF RootLoss, IntakeTypeOK

(***************************************************************************)
(* The types of the review.                                                *)
(***************************************************************************)
LEMMA NoAskTyped == NoAsk \in AskRecords /\ AskTyped(NoAsk) /\ NoAsk.at = "idle"
BY DEF NoAsk, AskRecords, AskTyped, ReviewPlaces

LEMMA DoneTyped ==
  ASSUME TypeOK, NEW r \in Reviewers, Done(r)
  PROVE  AsksTyped'
BY NoAskTyped DEF Done, TypeOK, AsksTyped

Writing == ReviewPlaces \ {"idle", "sent", "generated"}

LEMMA WritingTyped ==
  ASSUME TypeOK, NEW r \in Reviewers, ask[r].at \in Writing
  PROVE  /\ ask[r] \in AskRecords
         /\ ask[r].name \in Names
         /\ ask[r].value \in Values(ask[r].name.kind)
<1>1. ask[r] \in AskRecords /\ AskTyped(ask[r])
  BY DEF TypeOK, AsksTyped
<1> QED BY <1>1 DEF AskTyped, Writing

LEMMA AskSet ==
  ASSUME TypeOK, NEW r \in Reviewers, NEW new \in AskRecords, AskTyped(new),
         ask' = [ask EXCEPT ![r] = new]
  PROVE  AsksTyped'
BY DEF TypeOK, AsksTyped

LEMMA MoveTyped ==
  ASSUME TypeOK, NEW r \in Reviewers, NEW place \in Writing, NEW own \in BOOLEAN,
         ask[r].at \in Writing,
         ask' = [ask EXCEPT ![r].at = place, ![r].mine = own]
  PROVE  AsksTyped'
<1> DEFINE new == [ask[r] EXCEPT !.at = place, !.mine = own]
<1>1. /\ ask[r] \in AskRecords
      /\ ask[r].name \in Names
      /\ ask[r].value \in Values(ask[r].name.kind)
  BY WritingTyped
<1>2. new \in AskRecords /\ new.at \in Writing /\ new.name = ask[r].name /\ new.value = ask[r].value
  BY <1>1 DEF AskRecords, Writing
<1>3. ask' = [ask EXCEPT ![r] = new]
  OBVIOUS
<1> HIDE DEF new
<1>4. AskTyped(new)
  BY <1>1, <1>2 DEF AskTyped, Writing
<1> QED BY <1>2, <1>3, <1>4, AskSet

LEMMA PlainMoveTyped ==
  ASSUME TypeOK, NEW r \in Reviewers, NEW place \in Writing,
         ask[r].at \in Writing, Move(r, place)
  PROVE  AsksTyped'
<1>1. ask[r] \in AskRecords
  BY WritingTyped
<1>2. ask' = [ask EXCEPT ![r].at = place, ![r].mine = ask[r].mine]
  BY <1>1 DEF Move, AskRecords, TypeOK, AsksTyped
<1>3. ask[r].mine \in BOOLEAN
  BY <1>1 DEF AskRecords
<1> QED BY <1>2, <1>3, MoveTyped

LEMMA ArtifactTyped ==
  ASSUME TypeOK, NEW n \in Names, NEW v \in Values(n.kind) \cup {None}, Artifact(n, v),
         UNCHANGED staged
  PROVE  ArtifactsTyped'
BY DEF Artifact, Renamed, TypeOK, ArtifactsTyped

LEMMA StageFileTyped ==
  ASSUME TypeOK, NEW n \in Names, NEW v \in BOOLEAN, StageFile(n, v), UNCHANGED art
  PROVE  ArtifactsTyped'
BY DEF StageFile, Renamed, TypeOK, ArtifactsTyped

LEMMA SyncBatchTyped ==
  ASSUME TypeOK, NEW b, SyncBatch(b)
  PROVE  ArtifactsTyped'
BY DEF SyncBatch, Synced, TypeOK, ArtifactsTyped

LEMMA ArtifactsSame ==
  ASSUME TypeOK, UNCHANGED <<art, staged>>
  PROVE  ArtifactsTyped'
BY DEF TypeOK, ArtifactsTyped

\* What every step of a reviewer leaves to show.
LEMMA ReviewTypes ==
  ASSUME TypeOK, AsksTyped', ArtifactsTyped', UNCHANGED <<intakeVars, told>>,
         used' \in [DOMAIN Budget -> Nat], asked' \in Nat
  PROVE  TypeOK'
BY DEF TypeOK, intakeVars, IntakeTypeOK, RunsTyped, FilesTyped

LEMMA SpendKnown ==
  ASSUME TypeOK, NEW kind \in {"faults", "crashes", "outages", "changes"},
         Spend(kind)
  PROVE  used' \in [DOMAIN Budget -> Nat]
BY SpendTyped, CaptureIntakeAssumption DEF TypeOK

LEMMA ReviewStepTyped ==
  ASSUME TypeOK, NEW r \in Reviewers, ReviewStep(r), UNCHANGED intakeVars
  PROVE  TypeOK'
<1> USE DEF Writing, ReviewPlaces
<1>0. used \in [DOMAIN Budget -> Nat] /\ asked \in Nat
  BY DEF TypeOK, IntakeTypeOK
<1>1. ASSUME NEW b \in Batches, Send(r, b), UNCHANGED used PROVE TypeOK'
  <2>1. PICK result \in completed[b] :
          ask' = [ask EXCEPT ![r] =
            [at |-> "sent", name |-> Named(b, None, "proposal"), mine |-> FALSE,
             value |-> [manifest |-> result.manifest, cites |-> {}, serial |-> asked]]]
    BY <1>1 DEF Send
  <2> DEFINE draft == [manifest |-> result.manifest, cites |-> {}, serial |-> asked]
             new == [at |-> "sent", name |-> Named(b, None, "proposal"), mine |-> FALSE,
                     value |-> draft]
  <2>2. result.manifest \in Manifests
    BY DEF TypeOK, IntakeTypeOK
  <2>3. draft \in [manifest : Manifests, cites : Answers \cup {{}}, serial : Nat]
    BY <1>0, <2>2
  <2> HIDE DEF draft
  <2>4. new \in AskRecords /\ AskTyped(new)
    BY <2>3 DEF AskRecords, AskTyped, Named, Kinds
  <2>5. AsksTyped'
    BY <2>1, <2>4, AskSet DEF draft
  <2> QED BY <1>0, <1>1, <2>5, ArtifactsSame, ReviewTypes DEF Send
<1>2. ASSUME Answer(r), UNCHANGED used PROVE TypeOK'
  <2>1. PICK cites \in Answers : ask' = [ask EXCEPT ![r].at = "generated", ![r].value.cites = cites]
    BY <1>2 DEF Answer
  <2> DEFINE draft == [ask[r].value EXCEPT !.cites = cites]
             new == [ask[r] EXCEPT !.at = "generated", !.value = draft]
  <2>2. /\ ask[r] \in AskRecords
        /\ ask[r].name \in [batch : Batches, id : {None}, kind : {"proposal"}]
        /\ ask[r].value \in [manifest : Manifests, cites : Answers \cup {{}}, serial : Nat]
    BY <1>2 DEF Answer, TypeOK, AsksTyped, AskTyped
  <2>3. draft \in ProposalValues
    BY <2>2 DEF ProposalValues
  <2>4. draft \in [manifest : Manifests, cites : Answers \cup {{}}, serial : Nat]
    BY <2>3 DEF ProposalValues
  <2>5. ask' = [ask EXCEPT ![r] = new]
    BY <2>1
  <2> HIDE DEF draft
  <2>6. new \in AskRecords /\ AskTyped(new)
    BY <2>2, <2>3, <2>4 DEF AskRecords, AskTyped
  <2>7. AsksTyped'
    BY <2>5, <2>6, AskSet
  <2> QED BY <1>0, <1>2, <2>7, ArtifactsSame, ReviewTypes DEF Answer
<1>3. ASSUME ProviderFails(r) \/ NoProposalId(r), UNCHANGED used PROVE TypeOK'
  <2>1. AsksTyped'
    BY <1>3, DoneTyped DEF ProviderFails, NoProposalId
  <2> QED BY <1>0, <1>3, <2>1, ArtifactsSame, ReviewTypes DEF ProviderFails, NoProposalId
<1>4. ASSUME NewProposalId(r), UNCHANGED used PROVE TypeOK'
  <2>1. PICK q \in Proposals : ask' = [ask EXCEPT ![r].at = "creating", ![r].name.id = q]
    BY <1>4 DEF NewProposalId
  <2> DEFINE name == [ask[r].name EXCEPT !.id = q]
             new == [ask[r] EXCEPT !.at = "creating", !.name = name]
  <2>2. /\ ask[r] \in AskRecords
        /\ ask[r].name \in [batch : Batches, id : {None}, kind : {"proposal"}]
        /\ ask[r].value \in ProposalValues
    BY <1>4 DEF NewProposalId, TypeOK, AsksTyped, AskTyped
  <2>3. name \in Names /\ name.kind = "proposal"
    BY <2>2 DEF Names, Kinds
  <2>4. name \in [batch : Batches, id : Proposals \cup {None}, kind : Kinds]
    BY <2>3 DEF Names
  <2>5. ask' = [ask EXCEPT ![r] = new]
    BY <2>1
  <2> HIDE DEF name
  <2>6. new \in AskRecords /\ AskTyped(new)
    BY <2>2, <2>3, <2>4 DEF AskRecords, AskTyped, Values
  <2>7. AsksTyped'
    BY <2>5, <2>6, AskSet
  <2> QED BY <1>0, <1>4, <2>7, ArtifactsSame, ReviewTypes DEF NewProposalId
<1>5. ASSUME NEW n \in Names, LoadProposal(r, n), UNCHANGED used PROVE TypeOK'
  <2>1. PICK v \in told[n], d \in {"confirmed", "rejected"} :
          ask' = [ask EXCEPT ![r] =
            [at |-> "loaded", name |-> Named(n.batch, n.id, "decision"), mine |-> FALSE,
             value |-> [proposal |-> v, manifest |-> v.manifest, decision |-> d, serial |-> asked]]]
    BY <1>5 DEF LoadProposal
  <2> DEFINE name == Named(n.batch, n.id, "decision")
             value == [proposal |-> v, manifest |-> v.manifest, decision |-> d, serial |-> asked]
             new == [at |-> "loaded", name |-> name, mine |-> FALSE, value |-> value]
  <2>2. v \in ProposalValues
    BY <1>5 DEF LoadProposal, TypeOK, Values
  <2>3. value \in DecisionValues
    BY <1>0, <2>2 DEF ProposalValues, DecisionValues
  <2>4. /\ name \in Names /\ name.kind = "decision"
        /\ name \in [batch : Batches, id : Proposals \cup {None}, kind : Kinds]
    BY DEF Names, Named, Kinds
  <2> HIDE DEF name, value
  <2>5. new \in AskRecords /\ AskTyped(new)
    BY <2>3, <2>4 DEF AskRecords, AskTyped, Values
  <2>6. AsksTyped'
    BY <2>1, <2>5, AskSet DEF name, value
  <2> QED BY <1>0, <1>5, <2>6, ArtifactsSame, ReviewTypes DEF LoadProposal
<1>6. ASSUME CheckPending(r), UNCHANGED used PROVE TypeOK'
  <2>1. AsksTyped'
    BY <1>6, DoneTyped, PlainMoveTyped DEF CheckPending
  <2> QED BY <1>0, <1>6, <2>1, ArtifactsSame, ReviewTypes DEF CheckPending
<1>7. ASSUME Create(r), UNCHANGED used PROVE TypeOK'
  <2>1. ask[r].name \in Names
    BY <1>7, WritingTyped DEF Create
  <2>2. AsksTyped'
    BY <1>7, DoneTyped, MoveTyped DEF Create
  <2>3. ArtifactsTyped'
    BY <1>7, <2>1, StageFileTyped, ArtifactsSame DEF Create
  <2> QED BY <1>0, <1>7, <2>2, <2>3, ReviewTypes DEF Create
<1>8. ASSUME Link(r), UNCHANGED used PROVE TypeOK'
  <2>1. ask[r].name \in Names /\ ask[r].value \in Values(ask[r].name.kind)
    BY <1>8, WritingTyped DEF Link
  <2>2. AsksTyped'
    BY <1>8, PlainMoveTyped DEF Link
  <2>3. ArtifactsTyped'
    BY <1>8, <2>1, ArtifactTyped, ArtifactsSame DEF Link
  <2> QED BY <1>0, <1>8, <2>2, <2>3, ReviewTypes DEF Link
<1>9. ASSUME Unstage(r), UNCHANGED used PROVE TypeOK'
  <2>1. ask[r].name \in Names
    BY <1>9, WritingTyped DEF Unstage
  <2>2. AsksTyped' /\ ArtifactsTyped'
    BY <1>9, <2>1, MoveTyped, StageFileTyped DEF Unstage
  <2> QED BY <1>0, <1>9, <2>2, ReviewTypes DEF Unstage
<1>10. ASSUME Report(r), UNCHANGED used PROVE TypeOK'
  <2>1. ask[r].name \in Names /\ ask[r].value \in Values(ask[r].name.kind)
    BY <1>10, WritingTyped DEF Report
  <2>2. /\ told' = [n \in Names |-> told'[n]]
        /\ \A n \in Names : told'[n] \subseteq Values(n.kind)
    BY <1>10, <2>1 DEF Report, TypeOK
  <2>3. AsksTyped' /\ ArtifactsTyped'
    BY <1>10, DoneTyped, SyncBatchTyped DEF Report
  <2> QED BY <1>0, <1>10, <2>2, <2>3
          DEF Report, TypeOK, intakeVars, IntakeTypeOK, RunsTyped, FilesTyped
<1>11. ASSUME Withdraw(r), UNCHANGED used PROVE TypeOK'
  <2>1. ask[r].name \in Names
    BY <1>11, WritingTyped DEF Withdraw
  <2>2. AsksTyped'
    BY <1>11, DoneTyped, PlainMoveTyped DEF Withdraw
  <2>3. ArtifactsTyped'
    BY <1>11, <2>1, ArtifactTyped DEF Withdraw
  <2> QED BY <1>0, <1>11, <2>2, <2>3, ReviewTypes DEF Withdraw
<1>12. ASSUME SyncFails(r) PROVE TypeOK'
  <2>1. AsksTyped' /\ used' \in [DOMAIN Budget -> Nat]
    BY <1>12, PlainMoveTyped, SpendKnown DEF SyncFails
  <2> QED BY <1>0, <1>12, <2>1, ArtifactsSame, ReviewTypes DEF SyncFails
<1>13. ASSUME SyncWithdrawn(r) PROVE TypeOK'
  <2>1. AsksTyped' /\ ArtifactsTyped' /\ used' \in [DOMAIN Budget -> Nat]
    BY <1>0, <1>13, DoneTyped, SyncBatchTyped, ArtifactsSame, SpendKnown DEF SyncWithdrawn
  <2> QED BY <1>0, <1>13, <2>1, ReviewTypes DEF SyncWithdrawn
<1>14. ASSUME Tidy(r) PROVE TypeOK'
  <2>1. ask[r].name \in Names
    BY <1>14, WritingTyped DEF Tidy
  <2>2. AsksTyped' /\ ArtifactsTyped' /\ used' \in [DOMAIN Budget -> Nat]
    BY <1>0, <1>14, <2>1, DoneTyped, StageFileTyped, ArtifactsSame, SpendKnown DEF Tidy
  <2> QED BY <1>0, <1>14, <2>2, ReviewTypes DEF Tidy
<1>15. ASSUME AskFails(r) PROVE TypeOK'
  <2>1. AsksTyped' /\ used' \in [DOMAIN Budget -> Nat]
    BY <1>15, DoneTyped, PlainMoveTyped, SpendKnown DEF AskFails
  <2> QED BY <1>0, <1>15, <2>1, ArtifactsSame, ReviewTypes DEF AskFails
<1>16. ASSUME AskCrashes(r) PROVE TypeOK'
  <2>1. AsksTyped' /\ used' \in [DOMAIN Budget -> Nat]
    BY <1>16, DoneTyped, SpendKnown DEF AskCrashes
  <2>2. ArtifactsTyped'
    <3>1. CASE UNCHANGED staged
      BY <1>16, <3>1, ArtifactsSame DEF AskCrashes
    <3>2. CASE StageFile(ask[r].name, FALSE) /\ ask[r].name \in Names
      BY <1>16, <3>2, StageFileTyped DEF AskCrashes
    <3>3. CASE StageFile(ask[r].name, FALSE) /\ ask[r].name \notin Names
      <4>1. staged' = staged
        BY <3>3 DEF StageFile, TypeOK, ArtifactsTyped
      <4> QED BY <1>16, <4>1, ArtifactsSame DEF AskCrashes
    <3> QED BY <1>16, <3>1, <3>2, <3>3 DEF AskCrashes
  <2> QED BY <1>0, <1>16, <2>1, <2>2, ReviewTypes DEF AskCrashes
<1> QED BY <1>1, <1>2, <1>3, <1>4, <1>5, <1>6, <1>7, <1>8, <1>9, <1>10, <1>11, <1>12,
           <1>13, <1>14, <1>15, <1>16 DEF ReviewStep

LEMMA PowerLossTyped ==
  ASSUME TypeOK, PowerLoss
  PROVE  TypeOK'
<1>1. IntakeTypeOK'
  BY IntakePowerLossTyped DEF PowerLoss, TypeOK
<1>2. AsksTyped'
  BY NoAskTyped DEF PowerLoss, ReviewPowerLoss, AsksTyped
<1>3. /\ art' = [n \in Names |-> art'[n]]
      /\ \A n \in Names : \E v \in art[n].disk : art'[n] = Synced(v)
  BY SurvivorsKnown DEF PowerLoss, ReviewPowerLoss, TypeOK, ArtifactsTyped
<1>4. /\ staged' = [n \in Names |-> staged'[n]]
      /\ \A n \in Names : \E v \in staged[n].disk : staged'[n] = Synced(v)
  BY SurvivorsKnown DEF PowerLoss, ReviewPowerLoss, TypeOK, ArtifactsTyped
<1>5. ArtifactsTyped'
  <2>1. \A n \in Names :
          /\ art'[n] = [now |-> art'[n].now, disk |-> art'[n].disk]
          /\ art'[n].disk \cup {art'[n].now} \subseteq Values(n.kind) \cup {None}
    BY <1>3 DEF Synced, TypeOK, ArtifactsTyped
  <2>2. art' = [n \in Names |-> [now |-> art'[n].now, disk |-> art'[n].disk]]
    BY <1>3, <2>1
  <2>3. \A n \in Names : staged'[n] \in [now : BOOLEAN, disk : SUBSET BOOLEAN]
    BY <1>4 DEF Synced, TypeOK, ArtifactsTyped
  <2>4. staged' \in [Names -> [now : BOOLEAN, disk : SUBSET BOOLEAN]]
    BY <1>4, <2>3
  <2> QED BY <2>1, <2>2, <2>4 DEF ArtifactsTyped
<1> QED BY <1>1, <1>2, <1>5 DEF PowerLoss, ReviewPowerLoss, TypeOK

LEMMA CaptureLossTyped ==
  ASSUME TypeOK, CaptureLoss
  PROVE  TypeOK'
<1>1. IntakeTypeOK'
  BY RootLossTyped DEF CaptureLoss, TypeOK
<1>2. AsksTyped'
  BY NoAskTyped DEF CaptureLoss, ReviewsLost, AsksTyped
<1>3. ArtifactsTyped'
  BY DEF CaptureLoss, ReviewsLost, Synced, ArtifactsTyped
<1> QED BY <1>1, <1>2, <1>3 DEF CaptureLoss, ReviewsLost, TypeOK

LEMMA InitTyped == CaptureInit => TypeOK
<1> SUFFICES ASSUME CaptureInit PROVE TypeOK
  OBVIOUS
<1>1. AsksTyped
  BY NoAskTyped DEF CaptureInit, ReviewInit, AsksTyped
<1>2. ArtifactsTyped
  BY DEF CaptureInit, ReviewInit, Synced, ArtifactsTyped
<1> QED BY <1>1, <1>2, IntakeInitTyped DEF CaptureInit, ReviewInit, TypeOK

LEMMA NextTyped == TypeOK /\ [Next]_vars => TypeOK'
<1> SUFFICES ASSUME TypeOK, [Next]_vars PROVE TypeOK'
  OBVIOUS
<1>1. CASE IntakeStep /\ UNCHANGED reviewVars
  <2>1. IntakeTypeOK'
    BY <1>1, IntakeStepTyped DEF TypeOK
  <2> QED BY <1>1, <2>1 DEF TypeOK, reviewVars, AsksTyped, ArtifactsTyped
<1>2. ASSUME NEW r \in Reviewers, ReviewStep(r) /\ UNCHANGED intakeVars PROVE TypeOK'
  BY <1>2, ReviewStepTyped
<1>3. CASE PowerLoss
  BY <1>3, PowerLossTyped
<1>4. CASE CaptureLoss
  BY <1>4, CaptureLossTyped
<1>5. CASE UNCHANGED vars
  <2>1. UNCHANGED <<intakeVars, reviewVars, used>>
    BY <1>5 DEF vars
  <2>2. IntakeTypeOK'
    BY <2>1 DEF TypeOK, intakeVars, IntakeTypeOK, RunsTyped, FilesTyped
  <2> QED BY <2>1, <2>2 DEF TypeOK, reviewVars, AsksTyped, ArtifactsTyped
<1> QED BY <1>1, <1>2, <1>3, <1>4, <1>5 DEF Next

\* Every variable keeps its type: a batch is written only under an id that was
\* drawn, and an artifact's name holds only values of its kind.
THEOREM TypeCorrect == Spec => []TypeOK
BY InitTyped, NextTyped, PTL DEF Spec

(***************************************************************************)
(* Completed batches.                                                      *)
(***************************************************************************)
\* The frames m show, once each, the pictures of the first n candidates of plan.
Shows(m, plan, n) ==
  /\ \A i, j \in DOMAIN m : i # j => m[i].picture # m[j].picture
  /\ {m[i].picture : i \in DOMAIN m} = {plan[Candidates[k]].picture : k \in 1 .. n}
  /\ \A i \in DOMAIN m : m[i].picture = plan[m[i].source].picture

\* What a run knows of its frames and, from the rename on, of its batch.
RunInv(c) ==
  /\ run[c].at \in {"idle", "probing", "naming"} => run[c].id = None /\ run[c].frames = <<>>
  /\ run[c].at \in {"idle", "probing", "naming"} => run[c].next = 1
  /\ run[c].next <= Len(Candidates) + 1
  /\ run[c].at \in {"extracting", "sealed", "renamed"} =>
       Shows(run[c].frames, run[c].plan, run[c].next - 1)
  /\ run[c].at \in {"sealed", "renamed"} => run[c].next = Len(Candidates) + 1
  /\ run[c].at \in {"renamed", "removing"} => batch[run[c].id].now = Whole(run[c].frames)
  /\ run[c].at \in {"renamed", "removing", "removed"} => completed[run[c].id] = {}

IntakeInv ==
  /\ \A c, d \in Runs : run[c].id = run[d].id /\ run[c].id # None => c = d
  /\ \A c \in Runs : RunInv(c)
  /\ \A b \in Batches : \A result \in completed[b] :
       /\ batch[b] = Synced(Whole(result.manifest))
       /\ Shows(result.manifest, result.plan, Len(Candidates))

LEMMA CandidatesCount == Candidates \in Seq(Sources) /\ DOMAIN Candidates = 1 .. Len(Candidates)
<1>1. PICK n \in Nat : DOMAIN Candidates = 1 .. n /\ Candidates = [k \in 1 .. n |-> Candidates[k]]
  BY CaptureIntakeAssumption DEF Candidates, CenterIndices
<1>2. \A k \in 1 .. n : Candidates[k] \in Sources
  BY <1>1, CandidatesAreSources
<1>3. Candidates \in [1 .. n -> Sources]
  BY <1>1, <1>2
<1> QED BY <1>3, IsASeq, LenProperties

LEMMA ShownIsKept == lost \/ IntakeInv => CompletedBatchKept
<1> SUFFICES ASSUME IntakeInv, NEW b \in Batches, NEW result \in completed[b]
             PROVE  LET m == result.manifest IN
                    /\ batch[b] = Synced(Whole(m))
                    /\ \A i, j \in DOMAIN m : i # j => m[i].picture # m[j].picture
                    /\ {m[i].picture : i \in DOMAIN m} =
                         {result.plan[Candidates[k]].picture : k \in DOMAIN Candidates}
                    /\ \A i \in DOMAIN m : m[i].picture = result.plan[m[i].source].picture
  BY DEF CompletedBatchKept
<1> DEFINE m == result.manifest
<1>1. batch[b] = Synced(Whole(m)) /\ Shows(m, result.plan, Len(Candidates))
  BY DEF IntakeInv
<1>2. DOMAIN Candidates = 1 .. Len(Candidates)
  BY CandidatesCount
<1> QED BY <1>1, <1>2 DEF Shows

LEMMA IntakeInvInit == Init => IntakeInv
<1>1. Len(Candidates) \in Nat
  BY CandidatesCount, LenProperties
<1> QED BY <1>1 DEF Init, Idle, IntakeInv, RunInv

LEMMA WholeIsSomething == \A m \in Manifests : Whole(m) # None
BY CaptureIntakeAssumption DEF Whole

\* A run that ends knows nothing any more.
LEMMA EndedRun ==
  ASSUME IntakeTypeOK, NEW c \in Runs, Ends(c)
  PROVE  /\ run'[c].at = "idle" /\ RunInv(c)'
         /\ run'[c].id = None
         /\ \A d \in Runs : d # c => run'[d] = run[d]
<1>1. run'[c] = Idle /\ \A d \in Runs : d # c => run'[d] = run[d]
  BY DEF Ends, IntakeTypeOK, RunsTyped
<1>2. Len(Candidates) \in Nat
  BY CandidatesCount, LenProperties
<1> QED BY <1>1, <1>2 DEF Idle, RunInv

\* A step that leaves what the files hold as it is, but for what a sync makes
\* durable, need only be looked at for the run that takes it.
LEMMA SameFiles ==
  ASSUME IntakeTypeOK, IntakeInv, NEW c \in Runs,
         UNCHANGED completed,
         \/ UNCHANGED batch
         \/ SyncRoot,
         \A d \in Runs : d # c => run'[d] = run[d],
         run'[c].id \in {None, run[c].id},
         RunInv(c)'
  PROVE  IntakeInv'
<1>1. \A b \in Batches : batch'[b].now = batch[b].now
  BY DEF SyncRoot, Synced
<1>2. ASSUME NEW d \in Runs PROVE RunInv(d)'
  <2>1. CASE d = c
    BY <2>1
  <2>2. CASE d # c
    <3>1. run'[d] = run[d] /\ RunInv(d)
      BY <2>2 DEF IntakeInv
    <3>2. run[d].at \in {"renamed", "removing", "removed"} => run[d].id \in Batches
      BY DEF IntakeTypeOK, RunsTyped
    <3> QED BY <1>1, <3>1, <3>2 DEF RunInv
  <2> QED BY <2>1, <2>2
<1>3. ASSUME NEW b \in Batches, NEW result \in completed'[b]
      PROVE  /\ batch'[b] = Synced(Whole(result.manifest))
             /\ Shows(result.manifest, result.plan, Len(Candidates))
  <2>1. /\ batch[b] = Synced(Whole(result.manifest))
        /\ Shows(result.manifest, result.plan, Len(Candidates))
    BY <1>3 DEF IntakeInv
  <2>2. batch[b].now = Whole(result.manifest)
    BY <2>1 DEF Synced
  <2> QED BY <2>1, <2>2 DEF SyncRoot
<1>4. \A d, e \in Runs : run'[d].id = run'[e].id /\ run'[d].id # None => d = e
  BY DEF IntakeInv
<1> QED BY <1>2, <1>3, <1>4 DEF IntakeInv

LEMMA ExtractKeeps ==
  ASSUME IntakeTypeOK, IntakeInv, NEW c \in Runs, Extract(c)
  PROVE  RunInv(c)'
<1> DEFINE s == Candidate(c)
           m == run[c].frames
           n == run[c].next
           plan == run[c].plan
           p == plan[s].picture
           f == [source |-> s, picture |-> p]
<1>1. /\ run[c].at = "extracting" /\ n <= Len(Candidates) /\ n \in Nat \ {0}
      /\ media[s] = plan[s] /\ Shows(m, plan, n - 1) /\ m \in Seq(Frames)
  BY DEF Extract, MoreFrames, IntakeInv, RunInv, IntakeTypeOK, RunsTyped, RunRecords, Manifests
<1>2. /\ run'[c].at = "extracting" /\ run'[c].next = n + 1 /\ run'[c].plan = plan
      /\ run'[c].frames = IF p \in Seen(c) THEN m ELSE Append(m, f)
  BY <1>1 DEF Extract, IntakeTypeOK, RunsTyped, RunRecords
<1>3. Len(Candidates) \in Nat /\ s = Candidates[n] /\ s \in Sources
  BY <1>1, CandidatesCount, LenProperties, CandidatesAreSources DEF Candidate
<1>4. {plan[Candidates[k]].picture : k \in 1 .. n}
        = {plan[Candidates[k]].picture : k \in 1 .. (n - 1)} \cup {p}
  <2>1. 1 .. n = 1 .. (n - 1) \cup {n}
    BY <1>1
  <2> QED BY <1>3, <2>1
<1>5. Seen(c) = {plan[Candidates[k]].picture : k \in 1 .. (n - 1)}
  BY <1>1 DEF Shows, Seen
<1>6. CASE p \in Seen(c)
  <2>1. Shows(m, plan, n)
    BY <1>1, <1>4, <1>5, <1>6 DEF Shows
  <2> QED BY <1>1, <1>2, <1>3, <1>6, <2>1 DEF RunInv
<1>7. CASE p \notin Seen(c)
  <2> DEFINE t == Append(m, f)
  <2>1. p \in Pictures /\ f \in Frames
    BY <1>1, <1>3 DEF IntakeTypeOK, Media, Frames
  <2>2. /\ Len(t) = Len(m) + 1 /\ t[Len(m) + 1] = f
        /\ DOMAIN t = 1 .. Len(m) + 1 /\ DOMAIN m = 1 .. Len(m) /\ Len(m) \in Nat
        /\ \A i \in 1 .. Len(m) : t[i] = m[i]
    BY <1>1, <2>1, AppendProperties, LenProperties
  <2>3. \A i \in 1 .. Len(m) : m[i].picture # p
    BY <1>7, <2>2 DEF Seen
  <2> HIDE DEF t
  <2>4. \A i, j \in DOMAIN t : i # j => t[i].picture # t[j].picture
    <3> SUFFICES ASSUME NEW i \in 1 .. Len(m) + 1, NEW j \in 1 .. Len(m) + 1, i # j
                 PROVE  t[i].picture # t[j].picture
      BY <2>2
    <3>1. CASE i \in 1 .. Len(m) /\ j \in 1 .. Len(m)
      <4>1. m[i].picture # m[j].picture
        BY <1>1, <2>2, <3>1 DEF Shows
      <4> QED BY <2>2, <3>1, <4>1
    <3>2. CASE i = Len(m) + 1 /\ j \in 1 .. Len(m)
      BY <2>2, <2>3, <3>2
    <3>3. CASE j = Len(m) + 1 /\ i \in 1 .. Len(m)
      BY <2>2, <2>3, <3>3
    <3>4. \A k \in 1 .. Len(m) + 1 : k \in 1 .. Len(m) \/ k = Len(m) + 1
      BY <2>2
    <3> QED BY <3>1, <3>2, <3>3, <3>4
  <2>5. {t[i].picture : i \in DOMAIN t} = Seen(c) \cup {p}
    <3>1. 1 .. Len(m) + 1 = 1 .. Len(m) \cup {Len(m) + 1}
      BY <2>2
    <3> QED BY <2>2, <3>1, SMTT(30) DEF Seen
  <2>6. \A i \in DOMAIN t : t[i].picture = plan[t[i].source].picture
    <3>1. 1 .. Len(m) + 1 = 1 .. Len(m) \cup {Len(m) + 1}
      BY <2>2
    <3> QED BY <1>1, <2>2, <3>1, SMTT(30) DEF Shows
  <2>7. Shows(t, plan, n)
    BY <1>4, <1>5, <2>4, <2>5, <2>6 DEF Shows
  <2>8. run'[c].frames = t
    BY <1>2, <1>7 DEF t
  <2>9. run'[c].next - 1 = n /\ run'[c].next <= Len(Candidates) + 1
    BY <1>1, <1>2, <1>3
  <2> QED BY <1>2, <2>7, <2>8, <2>9 DEF RunInv
<1> QED BY <1>6, <1>7

\* A run that only moves on, or ends, leaves every batch and result alone.
LEMMA RunMovesKeep ==
  ASSUME IntakeTypeOK, IntakeInv, NEW c \in Runs, UNCHANGED <<batch, completed>>,
         Discover(c) \/ Probe(c) \/ NoStaging(c) \/ Extract(c) \/ InputChanged(c) \/ Seal(c)
           \/ SyncRootFails(c) \/ RunFails(c) \/ Cleanup(c) \/ RunCrashes(c)
  PROVE  IntakeInv'
<1>0. RunInv(c) /\ run[c] \in RunRecords /\ Len(Candidates) \in Nat
  BY CandidatesCount, LenProperties DEF IntakeInv, IntakeTypeOK, RunsTyped
<1>1. ASSUME Discover(c) PROVE IntakeInv'
  <2>1. run'[c] = [Idle EXCEPT !.at = "probing", !.plan = media]
    BY <1>1 DEF Discover, IntakeTypeOK, RunsTyped
  <2>2. RunInv(c)' /\ run'[c].id = None
    BY <1>0, <2>1 DEF Idle, RunInv
  <2>3. \A d \in Runs : d # c => run'[d] = run[d]
    BY <1>1 DEF Discover, IntakeTypeOK, RunsTyped
  <2> QED BY <2>2, <2>3, SameFiles
<1>2. ASSUME Ends(c) PROVE IntakeInv'
  BY <1>2, EndedRun, SameFiles
<1>3. ASSUME NEW place, Goto(c, place),
             \/ run[c].at = "probing" /\ place = "naming"
             \/ run[c].at \in {"extracting", "sealed"} /\ place = "cleaning"
             \/ run[c].at = "extracting" /\ ~MoreFrames(c) /\ place = "sealed"
             \/ run[c].at = "renamed" /\ place = "removing"
      PROVE  IntakeInv'
  <2>1. /\ run'[c] = [run[c] EXCEPT !.at = place]
        /\ \A d \in Runs : d # c => run'[d] = run[d]
    BY <1>3 DEF Goto, IntakeTypeOK, RunsTyped
  <2>2. /\ run'[c].at = place /\ run'[c].id = run[c].id /\ run'[c].plan = run[c].plan
        /\ run'[c].next = run[c].next /\ run'[c].frames = run[c].frames
    BY <1>0, <2>1 DEF RunRecords
  <2>3. run[c].next \in Nat \ {0}
    BY <1>0 DEF RunRecords
  <2>4. RunInv(c)'
    BY <1>0, <1>3, <2>2, <2>3 DEF RunInv, MoreFrames
  <2> QED BY <2>1, <2>2, <2>4, SameFiles
<1>4. ASSUME Extract(c) PROVE IntakeInv'
  <2>1. /\ run'[c].id = run[c].id
        /\ \A d \in Runs : d # c => run'[d] = run[d]
    BY <1>0, <1>4 DEF Extract, IntakeTypeOK, RunsTyped, RunRecords
  <2> QED BY <1>4, <2>1, ExtractKeeps, SameFiles
<1>5. ASSUME InputChanged(c) PROVE IntakeInv'
  BY <1>3, <1>5 DEF InputChanged, MoreFrames
<1> QED BY <1>1, <1>2, <1>3, <1>4, <1>5
        DEF Probe, NoStaging, Seal, SyncRootFails, RunFails, Cleanup, RunCrashes

LEMMA IntakeStepKeeps ==
  ASSUME IntakeTypeOK, IntakeInv, IntakeStep
  PROVE  IntakeInv'
<1>0. Len(Candidates) \in Nat /\ \A c \in Runs : RunInv(c) /\ run[c] \in RunRecords
  BY CandidatesCount, LenProperties DEF IntakeInv, IntakeTypeOK, RunsTyped
<1>1. ASSUME NEW s \in Sources, ReplaceSource(s) PROVE IntakeInv'
  BY <1>1 DEF ReplaceSource, IntakeInv, RunInv
<1>2. ASSUME NEW c \in Runs,
             Discover(c) \/ Probe(c) \/ NoStaging(c) \/ Extract(c) \/ InputChanged(c) \/ Seal(c)
               \/ SyncRootFails(c) \/ RunFails(c) \/ Cleanup(c) \/ RunCrashes(c)
      PROVE  IntakeInv'
  BY <1>2, RunMovesKeep
     DEF Discover, Probe, NoStaging, Extract, InputChanged, Seal, SyncRootFails, RunFails, Cleanup,
         RunCrashes
<1>3. ASSUME NEW c \in Runs, MakeStaging(c) PROVE IntakeInv'
  <2>1. PICK b \in Batches :
          /\ Fresh(b)
          /\ run' = [run EXCEPT ![c].at = "extracting", ![c].id = b]
    BY <1>3 DEF MakeStaging
  <2>2. /\ run'[c].at = "extracting" /\ run'[c].id = b /\ run'[c].next = 1 /\ run'[c].frames = <<>>
        /\ \A d \in Runs : d # c => run'[d] = run[d]
    BY <1>0, <1>3, <2>1 DEF MakeStaging, RunInv, RunRecords, IntakeTypeOK, RunsTyped
  <2>3. RunInv(c)'
    BY <1>0, <2>2 DEF RunInv, Shows
  <2>4. \A d \in Runs : d # c => RunInv(d)'
    BY <1>0, <1>3, <2>2, ZenonT(40) DEF RunInv, MakeStaging
  <2>5. \A d, e \in Runs : run'[d].id = run'[e].id /\ run'[d].id # None => d = e
    <3>1. \A d \in Runs : run[d].id # b
      BY <2>1 DEF Fresh
    <3>2. \A d \in Runs : run'[d].id = IF d = c THEN b ELSE run[d].id
      BY <2>2
    <3> QED BY <3>1, <3>2 DEF IntakeInv
  <2> QED BY <1>3, <2>3, <2>4, <2>5 DEF MakeStaging, IntakeInv
<1>4. ASSUME NEW c \in Runs, Rename(c) PROVE IntakeInv'
  <2> DEFINE b == run[c].id
  <2>1. b \in Batches /\ b # None /\ batch[b].now = None /\ run[c].frames \in Manifests
    BY <1>0, <1>4, CaptureIntakeAssumption DEF Rename, IntakeTypeOK, RunsTyped, RunRecords
  <2>2. completed[b] = {}
    <3>1. ASSUME NEW result \in completed[b] PROVE FALSE
      <4>1. batch[b] = Synced(Whole(result.manifest))
        BY <2>1, <3>1 DEF IntakeInv
      <4>2. result.manifest \in Manifests
        <5>1. completed[b] \subseteq [manifest : Manifests, plan : Media]
          BY <2>1 DEF IntakeTypeOK
        <5>2. result \in [manifest : Manifests, plan : Media]
          BY <3>1, <5>1
        <5> QED BY <5>2
      <4>3. batch[b].now = Whole(result.manifest)
        BY <4>1 DEF Synced
      <4> QED BY <2>1, <4>2, <4>3, WholeIsSomething
    <3> QED BY <3>1
  <2>3. /\ batch'[b].now = Whole(run[c].frames)
        /\ \A a \in Batches : a # b => batch'[a] = batch[a]
    BY <1>4, <2>1 DEF Rename, Put, Renamed, IntakeTypeOK, FilesTyped
  <2>4. /\ run'[c] = [run[c] EXCEPT !.at = "renamed"]
        /\ \A d \in Runs : d # c => run'[d] = run[d]
    BY <1>4 DEF Rename, Goto, IntakeTypeOK, RunsTyped
  <2>5. RunInv(c)'
    BY <1>0, <1>4, <2>2, <2>3, <2>4 DEF Rename, RunInv, RunRecords
  <2>6. ASSUME NEW d \in Runs, d # c PROVE RunInv(d)'
    <3>1. run[d].at \in {"renamed", "removing", "removed"} => run[d].id \in Batches
      BY DEF IntakeTypeOK, RunsTyped
    <3>2. run[d].id # b
      BY <2>1, <2>6 DEF IntakeInv
    <3> QED BY <1>0, <1>4, <2>3, <2>4, <2>6, <3>1, <3>2 DEF RunInv, Rename
  <2>7. \A d, e \in Runs : run'[d].id = run'[e].id /\ run'[d].id # None => d = e
    BY <1>0, <2>4 DEF IntakeInv, RunRecords
  <2> QED BY <1>4, <2>2, <2>3, <2>5, <2>6, <2>7 DEF Rename, IntakeInv
<1>5. ASSUME NEW c \in Runs, Complete(c) PROVE IntakeInv'
  <2> DEFINE b == run[c].id
             new == [manifest |-> run[c].frames, plan |-> run[c].plan]
  <2>1. /\ b \in Batches /\ b # None /\ batch[b].now = Whole(run[c].frames) /\ completed[b] = {}
        /\ Shows(run[c].frames, run[c].plan, Len(Candidates))
    BY <1>0, <1>5, CaptureIntakeAssumption DEF Complete, RunInv, IntakeTypeOK, RunsTyped
  <2>2. /\ completed'[b] = {new}
        /\ \A a \in Batches : a # b => completed'[a] = completed[a]
        /\ \A a \in Batches : batch'[a] = Synced(batch[a].now)
    BY <1>5, <2>1 DEF Complete, SyncRoot, IntakeTypeOK
  <2>3. ASSUME NEW a \in Batches, NEW result \in completed'[a]
        PROVE  /\ batch'[a] = Synced(Whole(result.manifest))
               /\ Shows(result.manifest, result.plan, Len(Candidates))
    <3>1. CASE a = b
      <4>1. result = new
        BY <2>2, <2>3, <3>1
      <4>2. result.manifest = run[c].frames /\ result.plan = run[c].plan
        BY <4>1
      <4> QED BY <2>1, <2>2, <3>1, <4>2
    <3>2. CASE a # b
      <4>1. /\ batch[a] = Synced(Whole(result.manifest))
            /\ Shows(result.manifest, result.plan, Len(Candidates))
        BY <2>2, <2>3, <3>2 DEF IntakeInv
      <4>2. batch[a].now = Whole(result.manifest)
        BY <4>1 DEF Synced
      <4> QED BY <2>2, <4>1, <4>2
    <3> QED BY <3>1, <3>2
  <2>4. /\ RunInv(c)' /\ run'[c].id = None
        /\ \A d \in Runs : d # c => run'[d] = run[d]
    BY <1>5, EndedRun DEF Complete
  <2>5. ASSUME NEW d \in Runs, d # c PROVE RunInv(d)'
    <3>1. run[d].at \in {"renamed", "removing", "removed"} => run[d].id \in Batches
      BY DEF IntakeTypeOK, RunsTyped
    <3>2. run[d].id # b
      BY <2>1, <2>5 DEF IntakeInv
    <3>3. \A a \in Batches : batch'[a].now = batch[a].now
      <4>1. \A v : Synced(v).now = v
        BY DEF Synced
      <4> QED BY <2>2, <4>1
    <3>4. run'[d] = run[d] /\ RunInv(d)
      BY <1>0, <2>4, <2>5
    <3> QED BY <2>2, <3>1, <3>2, <3>3, <3>4 DEF RunInv
  <2>6. \A d, e \in Runs : run'[d].id = run'[e].id /\ run'[d].id # None => d = e
    BY <2>4 DEF IntakeInv
  <2> QED BY <2>3, <2>4, <2>5, <2>6 DEF IntakeInv
<1>6. ASSUME NEW c \in Runs, Remove(c) \/ RemoveStops(c) PROVE IntakeInv'
  <2> DEFINE b == run[c].id
  <2>1. b \in Batches /\ b # None /\ completed[b] = {}
    BY <1>0, <1>6, CaptureIntakeAssumption DEF Remove, RemoveStops, RunInv, IntakeTypeOK, RunsTyped
  <2>2. \A a \in Batches : a # b => batch'[a] = batch[a]
    BY <1>6, <2>1 DEF Remove, RemoveStops, IntakeTypeOK, FilesTyped
  <2>3. /\ RunInv(c)' /\ run'[c].id \in {None, b}
        /\ \A d \in Runs : d # c => run'[d] = run[d]
    <3>1. CASE Remove(c)
      BY <1>0, <2>1, <3>1 DEF Remove, Goto, RunInv, RunRecords, IntakeTypeOK, RunsTyped
    <3>2. CASE RemoveStops(c)
      BY <3>2, EndedRun DEF RemoveStops
    <3> QED BY <1>6, <3>1, <3>2
  <2>4. UNCHANGED completed
    BY <1>6 DEF Remove, RemoveStops
  <2>5. ASSUME NEW d \in Runs, d # c PROVE RunInv(d)'
    <3>1. run[d].at \in {"renamed", "removing", "removed"} => run[d].id \in Batches
      BY DEF IntakeTypeOK, RunsTyped
    <3>2. run[d].id # b
      BY <2>1, <2>5 DEF IntakeInv
    <3> QED BY <1>0, <2>2, <2>3, <2>4, <2>5, <3>1, <3>2 DEF RunInv
  <2>6. \A d, e \in Runs : run'[d].id = run'[e].id /\ run'[d].id # None => d = e
    BY <2>3 DEF IntakeInv
  <2>7. ASSUME NEW a \in Batches, NEW result \in completed'[a]
        PROVE  /\ batch'[a] = Synced(Whole(result.manifest))
               /\ Shows(result.manifest, result.plan, Len(Candidates))
    BY <2>1, <2>2, <2>4, <2>7 DEF IntakeInv
  <2> QED BY <2>3, <2>5, <2>6, <2>7 DEF IntakeInv
<1>7. ASSUME NEW c \in Runs, Resync(c) PROVE IntakeInv'
  <2>1. UNCHANGED batch \/ SyncRoot
    BY <1>7 DEF Resync
  <2> QED BY <1>7, <2>1, EndedRun, SameFiles DEF Resync
<1> QED BY <1>1, <1>2, <1>3, <1>4, <1>5, <1>6, <1>7 DEF IntakeStep

LEMMA PowerLossKeepsBatches ==
  ASSUME IntakeTypeOK, IntakeInv, IntakePowerLoss
  PROVE  IntakeInv'
<1>1. Len(Candidates) \in Nat
  BY CandidatesCount, LenProperties
<1>2. \A c \in Runs : run'[c].id = None /\ RunInv(c)'
  BY <1>1 DEF IntakePowerLoss, Idle, RunInv
<1>3. \A b \in Batches : \E v \in batch[b].disk : batch'[b] = Synced(v)
  BY SurvivorsKnown DEF IntakePowerLoss, IntakeTypeOK, FilesTyped
<1>4. ASSUME NEW b \in Batches, NEW result \in completed'[b]
      PROVE  /\ batch'[b] = Synced(Whole(result.manifest))
             /\ Shows(result.manifest, result.plan, Len(Candidates))
  <2>1. /\ batch[b] = Synced(Whole(result.manifest))
        /\ Shows(result.manifest, result.plan, Len(Candidates))
    BY <1>4 DEF IntakeInv, IntakePowerLoss
  <2>2. batch[b].disk = {Whole(result.manifest)}
    BY <2>1 DEF Synced
  <2> QED BY <1>3, <2>1, <2>2
<1> QED BY <1>2, <1>4 DEF IntakeInv

\* What is lost stays lost, and is lost in no step but one.
LEMMA LossIsOneStep ==
  ASSUME TypeOK, [Next]_vars, ~lost'
  PROVE  ~lost /\ ~CaptureLoss
<1>1. ~CaptureLoss
  BY DEF CaptureLoss, RootLoss
<1> QED BY <1>1 DEF Next, vars, intakeVars, IntakeStep, PowerLoss, IntakePowerLoss

LEMMA IntakeInvNext == TypeOK /\ (lost \/ IntakeInv) /\ [Next]_vars => (lost \/ IntakeInv)'
<1> SUFFICES ASSUME TypeOK, lost \/ IntakeInv, [Next]_vars, ~lost' PROVE IntakeInv'
  OBVIOUS
<1>0. IntakeInv /\ ~CaptureLoss
  BY LossIsOneStep
<1> USE <1>0
<1>1. CASE IntakeStep
  BY <1>1, IntakeStepKeeps DEF TypeOK
<1>2. CASE UNCHANGED intakeVars
  BY <1>2 DEF intakeVars, IntakeInv, RunInv
<1>3. CASE PowerLoss
  BY <1>3, PowerLossKeepsBatches DEF PowerLoss, TypeOK
<1> QED BY <1>1, <1>2, <1>3 DEF Next, vars

\* An id is returned only for a batch that is whole and durable, and whose frames
\* are the pictures that were discovered, each once.
THEOREM BatchesKept == Spec => []CompletedBatchKept
<1>1. CaptureInit => lost \/ IntakeInv
  BY IntakeInvInit DEF CaptureInit
<1> QED BY <1>1, IntakeInvNext, ShownIsKept, TypeCorrect, PTL DEF Spec

(***************************************************************************)
(* Reported artifacts.                                                     *)
(***************************************************************************)
\* The places at which a request has linked its artifact and not given it up.
Linked == {"linked", "unstaged", "withdrawing", "withdrawing again"}

\* What was reported under a name is the only value there, and is durable.
ReportsStay == \A n \in Names : \A v \in told[n] : told[n] = {v} /\ art[n] = Synced(v)

\* What a request has linked is in place, under a name that nothing was reported
\* under and that no other request has linked.
FinalInv ==
  /\ \A r \in Reviewers : ask[r].at \in Linked =>
       art[ask[r].name].now = ask[r].value /\ told[ask[r].name] = {}
  /\ \A r, q \in Reviewers :
       ask[r].at \in Linked /\ ask[q].at \in Linked /\ ask[r].name = ask[q].name => r = q
  /\ ReportsStay

\* What a value must be of to be reported under a name.
BoundTo(n, v) ==
  IF n.kind = "proposal"
  THEN /\ \E result \in completed[n.batch] : result.manifest = v.manifest
       /\ v.cites \subseteq Evidence(v.manifest)
  ELSE /\ v.proposal \in told[Named(n.batch, n.id, "proposal")]
       /\ v.manifest = v.proposal.manifest

AskBound(a) ==
  /\ a.at = "sent" => \E result \in completed[a.name.batch] : result.manifest = a.value.manifest
  /\ a.at \notin {"idle", "sent"} => BoundTo(a.name, a.value)

BindInv ==
  /\ \A n \in Names : \A v \in told[n] : BoundTo(n, v)
  /\ \A r \in Reviewers : AskBound(ask[r])

LEMMA LinkedNames ==
  ASSUME TypeOK, NEW r \in Reviewers, ask[r].at \in Linked
  PROVE  /\ ask[r].name \in Names /\ ask[r].value \in Values(ask[r].name.kind)
         /\ ask[r].value # None
<1>1. ask[r].name \in Names /\ ask[r].value \in Values(ask[r].name.kind)
  BY WritingTyped DEF Linked, Writing, ReviewPlaces
<1> QED BY <1>1, ProposalReviewAssumption DEF Values

LEMMA ToldIsSomething ==
  ASSUME TypeOK, FinalInv, NEW n \in Names, art[n].now = None
  PROVE  told[n] = {}
<1>1. ASSUME NEW v \in told[n] PROVE FALSE
  <2>1. v \in Values(n.kind) /\ v # None
    BY <1>1, ProposalReviewAssumption DEF TypeOK, Values
  <2>2. art[n] = Synced(v)
    BY <1>1 DEF FinalInv, ReportsStay
  <2>3. art[n].now = v
    BY <2>2 DEF Synced
  <2> QED BY <2>1, <2>3
<1> QED BY <1>1

\* Steps that report nothing, link nothing and withdraw nothing.
LEMMA FinalIfPlain ==
  ASSUME TypeOK, FinalInv, NEW r \in Reviewers, UNCHANGED told,
         \/ UNCHANGED art
         \/ \E b \in Batches : SyncBatch(b),
         \A q \in Reviewers : q # r => ask'[q] = ask[q],
         ask'[r].at \in Linked =>
           ask[r].at \in Linked /\ ask'[r].name = ask[r].name /\ ask'[r].value = ask[r].value
  PROVE  FinalInv'
<1>1. \A n \in Names : art'[n] \in {art[n], Synced(art[n].now)}
  BY DEF SyncBatch
<1>2. \A n \in Names : art'[n].now = art[n].now
  BY <1>1 DEF Synced
<1>3. \A q \in Reviewers : ask'[q].at \in Linked =>
        ask[q].at \in Linked /\ ask'[q].name = ask[q].name /\ ask'[q].value = ask[q].value
  OBVIOUS
<1>4. ReportsStay'
  <2> SUFFICES ASSUME NEW n \in Names, NEW v \in told[n]
               PROVE  told[n] = {v} /\ art'[n] = Synced(v)
    BY DEF ReportsStay
  <2>1. told[n] = {v} /\ art[n] = Synced(v)
    BY DEF FinalInv, ReportsStay
  <2>2. art[n].now = v
    BY <2>1 DEF Synced
  <2> QED BY <1>1, <2>1, <2>2
<1>5. \A q \in Reviewers : ask[q].at \in Linked => ask[q].name \in Names
  BY LinkedNames
<1>6. \A q \in Reviewers : ask'[q].at \in Linked =>
        art'[ask'[q].name].now = ask'[q].value /\ told'[ask'[q].name] = {}
  BY <1>2, <1>3, <1>5 DEF FinalInv
<1>7. \A p, q \in Reviewers :
        ask'[p].at \in Linked /\ ask'[q].at \in Linked /\ ask'[p].name = ask'[q].name => p = q
  BY <1>3 DEF FinalInv
<1> QED BY <1>4, <1>6, <1>7 DEF FinalInv

\* What a step leaves of the requests.
LEMMA OthersKeep ==
  ASSUME TypeOK, NEW r \in Reviewers, NEW v, ask' = [ask EXCEPT ![r] = v]
  PROVE  ask'[r] = v /\ \A q \in Reviewers : q # r => ask'[q] = ask[q]
BY DEF TypeOK, AsksTyped

LEMMA DoneLeaves ==
  ASSUME TypeOK, NEW r \in Reviewers, Done(r)
  PROVE  /\ ask'[r].at = "idle"
         /\ \A q \in Reviewers : q # r => ask'[q] = ask[q]
<1>1. ask'[r] = NoAsk /\ \A q \in Reviewers : q # r => ask'[q] = ask[q]
  BY OthersKeep DEF Done
<1> QED BY <1>1 DEF NoAsk

LEMMA MoveLeaves ==
  ASSUME TypeOK, NEW r \in Reviewers, NEW place, Move(r, place)
  PROVE  /\ ask'[r].at = place /\ ask'[r].name = ask[r].name /\ ask'[r].value = ask[r].value
         /\ \A q \in Reviewers : q # r => ask'[q] = ask[q]
<1>1. ask[r] \in AskRecords
  BY DEF TypeOK, AsksTyped
<1>2. ask' = [ask EXCEPT ![r] = [ask[r] EXCEPT !.at = place]]
  BY DEF Move
<1>3. ask'[r] = [ask[r] EXCEPT !.at = place] /\ \A q \in Reviewers : q # r => ask'[q] = ask[q]
  BY <1>2, OthersKeep
<1> QED BY <1>1, <1>3 DEF AskRecords

LEMMA MineMoveLeaves ==
  ASSUME TypeOK, NEW r \in Reviewers, NEW place \in ReviewPlaces, NEW mine \in BOOLEAN,
         ask' = [ask EXCEPT ![r].at = place, ![r].mine = mine]
  PROVE  /\ ask'[r].at = place /\ ask'[r].name = ask[r].name /\ ask'[r].value = ask[r].value
         /\ \A q \in Reviewers : q # r => ask'[q] = ask[q]
<1> DEFINE new == [ask[r] EXCEPT !.at = place, !.mine = mine]
<1>1. ask[r] \in AskRecords
  BY DEF TypeOK, AsksTyped
<1>2. new.at = place /\ new.name = ask[r].name /\ new.value = ask[r].value
  BY <1>1 DEF AskRecords
<1>3. ask' = [ask EXCEPT ![r] = new]
  OBVIOUS
<1> HIDE DEF new
<1>4. ask'[r] = new /\ \A q \in Reviewers : q # r => ask'[q] = ask[q]
  BY <1>3, OthersKeep
<1> QED BY <1>2, <1>4

LEMMA DistinctKept ==
  ASSUME FinalInv, NEW r \in Reviewers,
         \A q \in Reviewers : q # r => ask'[q] = ask[q],
         ask'[r].at \in Linked =>
           \A q \in Reviewers : q # r /\ ask[q].at \in Linked => ask[q].name # ask'[r].name
  PROVE  \A p, q \in Reviewers :
           ask'[p].at \in Linked /\ ask'[q].at \in Linked /\ ask'[p].name = ask'[q].name => p = q
<1> SUFFICES ASSUME NEW p \in Reviewers, NEW q \in Reviewers, p # q,
                    ask'[p].at \in Linked, ask'[q].at \in Linked
             PROVE  ask'[p].name # ask'[q].name
  OBVIOUS
<1>1. CASE p = r
  BY <1>1
<1>2. CASE q = r
  BY <1>2
<1>3. CASE p # r /\ q # r
  BY <1>3 DEF FinalInv
<1> QED BY <1>1, <1>2, <1>3

LEMMA FinalNext ==
  ASSUME TypeOK, FinalInv, NEW r \in Reviewers, ReviewStep(r)
  PROVE  FinalInv'
<1> USE DEF Linked
<1> DEFINE n == ask[r].name
           v == ask[r].value
<1>1. ASSUME Link(r), art[n].now = None, Artifact(n, v), Move(r, "linked") PROVE FinalInv'
  <2>1. n \in Names /\ v \in Values(n.kind) /\ told[n] = {} /\ UNCHANGED told
    BY <1>1, WritingTyped, ToldIsSomething DEF Link, Writing, ReviewPlaces
  <2>2. /\ art'[n].now = v
        /\ \A m \in Names : m # n => art'[m] = art[m]
    BY <1>1, <2>1 DEF Artifact, Renamed, TypeOK, ArtifactsTyped
  <2>3. /\ ask'[r].at = "linked" /\ ask'[r].name = n /\ ask'[r].value = v
        /\ \A q \in Reviewers : q # r => ask'[q] = ask[q]
    BY <1>1, MoveLeaves
  <2>4. ASSUME NEW q \in Reviewers, q # r, ask[q].at \in Linked
        PROVE  ask[q].name \in Names /\ ask[q].name # n
    BY <1>1, <2>4, LinkedNames DEF FinalInv
  <2>5. ReportsStay'
    BY <2>1, <2>2 DEF FinalInv, ReportsStay
  <2>6. ASSUME NEW q \in Reviewers, ask'[q].at \in Linked
        PROVE  art'[ask'[q].name].now = ask'[q].value /\ told'[ask'[q].name] = {}
    <3>1. CASE q = r
      BY <2>1, <2>2, <2>3, <3>1
    <3>2. CASE q # r
      <4>1. ask'[q] = ask[q] /\ ask[q].at \in Linked
        BY <2>3, <2>6, <3>2
      <4>2. ask[q].name \in Names /\ ask[q].name # n
        BY <2>4, <3>2, <4>1
      <4>3. art[ask[q].name].now = ask[q].value /\ told[ask[q].name] = {}
        BY <4>1 DEF FinalInv
      <4> QED BY <2>1, <2>2, <4>1, <4>2, <4>3
    <3> QED BY <3>1, <3>2
  <2>7. \A p, q \in Reviewers :
          ask'[p].at \in Linked /\ ask'[q].at \in Linked /\ ask'[p].name = ask'[q].name => p = q
    <3>1. \A q \in Reviewers : q # r /\ ask[q].at \in Linked => ask[q].name # ask'[r].name
      BY <2>3, <2>4
    <3> QED BY <2>3, <3>1, DistinctKept
  <2> QED BY <2>5, <2>6, <2>7 DEF FinalInv
<1>2. ASSUME Report(r) PROVE FinalInv'
  <2>1. n \in Names /\ art[n].now = v /\ told[n] = {} /\ ask[r].at \in Linked
    BY <1>2, LinkedNames DEF Report, FinalInv
  <2>2. /\ \A m \in Names : art'[m] \in {art[m], Synced(art[m].now)}
        /\ art'[n] = Synced(v)
    BY <1>2, <2>1 DEF Report, SyncBatch
  <2>3. /\ told'[n] = {v}
        /\ \A m \in Names : m # n => told'[m] = told[m]
    BY <1>2, <2>1 DEF Report, TypeOK
  <2>4. /\ ask'[r].at = "idle"
        /\ \A q \in Reviewers : q # r => ask'[q] = ask[q]
    BY <1>2, DoneLeaves DEF Report
  <2>5. ASSUME NEW m \in Names, NEW w \in told'[m]
        PROVE  told'[m] = {w} /\ art'[m] = Synced(w)
    <3>1. CASE m = n
      BY <2>2, <2>3, <2>5, <3>1
    <3>2. CASE m # n
      <4>1. told[m] = {w} /\ art[m] = Synced(w)
        BY <2>3, <2>5, <3>2 DEF FinalInv, ReportsStay
      <4>2. art[m].now = w
        BY <4>1 DEF Synced
      <4> QED BY <2>2, <2>3, <3>2, <4>1, <4>2
    <3> QED BY <3>1, <3>2
  <2>6. \A m \in Names : art'[m].now = art[m].now
    BY <2>2 DEF Synced
  <2>7. ASSUME NEW q \in Reviewers, ask'[q].at \in Linked
        PROVE  art'[ask'[q].name].now = ask'[q].value /\ told'[ask'[q].name] = {}
    <3>1. q # r /\ ask'[q] = ask[q] /\ ask[q].at \in Linked
      BY <2>4, <2>7
    <3>2. ask[q].name \in Names /\ ask[q].name # n
      BY <2>1, <3>1, LinkedNames DEF FinalInv
    <3>3. art[ask[q].name].now = ask[q].value /\ told[ask[q].name] = {}
      BY <3>1 DEF FinalInv
    <3> QED BY <2>3, <2>6, <3>1, <3>2, <3>3
  <2>8. \A p, q \in Reviewers :
          ask'[p].at \in Linked /\ ask'[q].at \in Linked /\ ask'[p].name = ask'[q].name => p = q
    BY <2>4, DistinctKept
  <2> QED BY <2>5, <2>7, <2>8 DEF FinalInv, ReportsStay
<1>3. ASSUME Withdraw(r) PROVE FinalInv'
  <2>1. n \in Names /\ told[n] = {} /\ ask[r].at \in Linked /\ UNCHANGED told
    BY <1>3, LinkedNames DEF Withdraw, FinalInv
  <2>2. \A m \in Names : m # n => art'[m] = art[m]
    BY <1>3, <2>1 DEF Withdraw, Artifact, TypeOK, ArtifactsTyped
  <2>3. /\ ask'[r].at \notin Linked
        /\ \A q \in Reviewers : q # r => ask'[q] = ask[q]
    <3>1. CASE Done(r)
      BY <3>1, DoneLeaves
    <3>2. ASSUME NEW place \in {"resyncing", "tidying"}, Move(r, place)
          PROVE  /\ ask'[r].at \notin Linked
                 /\ \A q \in Reviewers : q # r => ask'[q] = ask[q]
      BY <3>2, MoveLeaves
    <3>3. CASE ask[r].at = "withdrawing"
      BY <1>3, <3>2, <3>3 DEF Withdraw
    <3>4. CASE ask[r].at = "withdrawing again"
      BY <1>3, <3>1, <3>2, <3>4 DEF Withdraw
    <3> QED BY <1>3, <3>3, <3>4 DEF Withdraw
  <2>4. ASSUME NEW q \in Reviewers, ask'[q].at \in Linked
        PROVE  art'[ask'[q].name].now = ask'[q].value /\ told'[ask'[q].name] = {}
    <3>1. q # r /\ ask'[q] = ask[q] /\ ask[q].at \in Linked
      BY <2>3, <2>4
    <3>2. ask[q].name \in Names /\ ask[q].name # n
      BY <2>1, <3>1, LinkedNames DEF FinalInv
    <3> QED BY <2>1, <2>2, <3>1, <3>2 DEF FinalInv
  <2>5. \A p, q \in Reviewers :
          ask'[p].at \in Linked /\ ask'[q].at \in Linked /\ ask'[p].name = ask'[q].name => p = q
    BY <2>3, DistinctKept
  <2>6. ReportsStay'
    BY <2>1, <2>2 DEF FinalInv, ReportsStay
  <2> QED BY <2>4, <2>5, <2>6 DEF FinalInv
<1>4. ASSUME ask'[r].at \notin Linked, UNCHANGED told,
             \A q \in Reviewers : q # r => ask'[q] = ask[q],
             UNCHANGED art \/ \E b \in Batches : SyncBatch(b)
      PROVE  FinalInv'
  BY <1>4, FinalIfPlain
<1>5. ASSUME NEW place \in ReviewPlaces, Move(r, place), UNCHANGED <<art, told>>,
             place \in Linked => ask[r].at \in Linked
      PROVE  FinalInv'
  BY <1>5, MoveLeaves, FinalIfPlain
<1>6. ASSUME Done(r), UNCHANGED <<art, told>> PROVE FinalInv'
  BY <1>4, <1>6, DoneLeaves
<1>7. ASSUME \/ \E b \in Batches : Send(r, b)
             \/ Answer(r) \/ NewProposalId(r) \/ \E m \in Names : LoadProposal(r, m)
      PROVE  FinalInv'
  <2>1. PICK new : ask' = [ask EXCEPT ![r] = new] /\ new.at \notin Linked
    <3>1. CASE Answer(r)
      <4>1. PICK cites : ask' = [ask EXCEPT ![r].at = "generated", ![r].value.cites = cites]
        BY <3>1 DEF Answer
      <4>2. ask[r] \in AskRecords
        BY DEF TypeOK, AsksTyped
      <4>3. [ask[r] EXCEPT !.at = "generated", !.value.cites = cites].at = "generated"
        BY <4>2 DEF AskRecords
      <4> QED BY <4>1, <4>3
    <3>2. CASE NewProposalId(r)
      <4>1. PICK q : ask' = [ask EXCEPT ![r].at = "creating", ![r].name.id = q]
        BY <3>2 DEF NewProposalId
      <4>2. ask[r] \in AskRecords
        BY DEF TypeOK, AsksTyped
      <4>3. [ask[r] EXCEPT !.at = "creating", !.name.id = q].at = "creating"
        BY <4>2 DEF AskRecords
      <4> QED BY <4>1, <4>3
    <3>3. CASE \E b \in Batches : Send(r, b)
      BY <3>3 DEF Send
    <3>4. CASE \E m \in Names : LoadProposal(r, m)
      <4>1. PICK m \in Names : LoadProposal(r, m)
        BY <3>4
      <4>2. PICK u, d :
              ask' = [ask EXCEPT ![r] =
                [at |-> "loaded", name |-> Named(m.batch, m.id, "decision"), mine |-> FALSE,
                 value |-> [proposal |-> u, manifest |-> u.manifest, decision |-> d,
                            serial |-> asked]]]
        BY <4>1 DEF LoadProposal
      <4> DEFINE w == [at |-> "loaded", name |-> Named(m.batch, m.id, "decision"), mine |-> FALSE,
                       value |-> [proposal |-> u, manifest |-> u.manifest, decision |-> d,
                                  serial |-> asked]]
      <4>3. w.at = "loaded" /\ "loaded" \notin Linked
        BY DEF Linked
      <4> HIDE DEF w
      <4> QED BY <4>2, <4>3 DEF w
    <3> QED BY <1>7, <3>1, <3>2, <3>3, <3>4
  <2>2. UNCHANGED <<art, told>>
    BY <1>7 DEF Send, Answer, NewProposalId, LoadProposal
  <2> QED BY <1>4, <2>1, <2>2, OthersKeep
<1>8. ASSUME \/ ProviderFails(r) \/ NoProposalId(r) \/ CheckPending(r) \/ SyncFails(r) \/ Tidy(r)
             \/ AskFails(r) \/ AskCrashes(r)
             \/ Link(r) /\ Move(r, "tidying") /\ UNCHANGED art
      PROVE  FinalInv'
  BY <1>5, <1>6, <1>8
     DEF ProviderFails, NoProposalId, CheckPending, SyncFails, Tidy, AskFails, AskCrashes, Link,
         ReviewPlaces
<1>9. ASSUME Create(r) \/ Unstage(r) PROVE FinalInv'
  <2>1. CASE Done(r)
    BY <1>6, <1>9, <2>1 DEF Create, Unstage
  <2>2. ASSUME NEW place \in ReviewPlaces, NEW mine \in BOOLEAN,
               ask' = [ask EXCEPT ![r].at = place, ![r].mine = mine],
               place \in Linked => ask[r].at \in Linked
        PROVE  FinalInv'
    <3>1. UNCHANGED <<art, told>>
      BY <1>9 DEF Create, Unstage
    <3>2. /\ ask'[r].at = place /\ ask'[r].name = ask[r].name /\ ask'[r].value = ask[r].value
          /\ \A q \in Reviewers : q # r => ask'[q] = ask[q]
      BY <2>2, MineMoveLeaves
    <3> QED BY <2>2, <3>1, <3>2, FinalIfPlain
  <2> QED BY <1>9, <2>1, <2>2 DEF Create, Unstage, ReviewPlaces
<1>10. ASSUME SyncWithdrawn(r) PROVE FinalInv'
  <2>1. n \in Names
    BY <1>10, WritingTyped DEF SyncWithdrawn, Writing, ReviewPlaces
  <2>2. n.batch \in Batches
    BY <2>1 DEF Names
  <2> QED BY <1>4, <1>10, <2>2, DoneLeaves DEF SyncWithdrawn
<1> QED BY <1>1, <1>2, <1>3, <1>7, <1>8, <1>9, <1>10 DEF ReviewStep, Link

LEMMA FinalInvInit == CaptureInit => FinalInv
<1> SUFFICES ASSUME CaptureInit PROVE FinalInv
  OBVIOUS
<1>1. \A r \in Reviewers : ask[r].at \notin Linked
  BY DEF CaptureInit, ReviewInit, NoAsk, Linked
<1>2. ReportsStay
  BY DEF CaptureInit, ReviewInit, ReportsStay
<1> QED BY <1>1, <1>2 DEF FinalInv

LEMMA FinalInvNext == TypeOK /\ (lost \/ FinalInv) /\ [Next]_vars => (lost \/ FinalInv)'
<1> SUFFICES ASSUME TypeOK, lost \/ FinalInv, [Next]_vars, ~lost' PROVE FinalInv'
  OBVIOUS
<1>0. FinalInv /\ ~CaptureLoss
  BY LossIsOneStep
<1> USE <1>0
<1>1. CASE UNCHANGED reviewVars
  BY <1>1 DEF reviewVars, FinalInv, ReportsStay
<1>2. ASSUME NEW r \in Reviewers, ReviewStep(r) PROVE FinalInv'
  BY <1>2, FinalNext
<1>3. CASE PowerLoss
  <2>1. \A r \in Reviewers : ask'[r].at \notin Linked
    BY <1>3 DEF PowerLoss, ReviewPowerLoss, NoAsk, Linked
  <2>2. \A n \in Names : \E v \in art[n].disk : art'[n] = Synced(v)
    BY <1>3, SurvivorsKnown DEF PowerLoss, ReviewPowerLoss, TypeOK, ArtifactsTyped
  <2>3. ASSUME NEW n \in Names, NEW v \in told'[n]
        PROVE  told'[n] = {v} /\ art'[n] = Synced(v)
    <3>1. UNCHANGED told
      BY <1>3 DEF PowerLoss, ReviewPowerLoss
    <3>2. told[n] = {v} /\ art[n] = Synced(v)
      BY <2>3, <3>1 DEF FinalInv, ReportsStay
    <3>3. art[n].disk = {v}
      BY <3>2 DEF Synced
    <3> QED BY <2>2, <3>1, <3>2, <3>3
  <2> QED BY <2>1, <2>3 DEF FinalInv, ReportsStay
<1> QED BY <1>1, <1>2, <1>3 DEF Next, vars

\* What was reported written under a name is the only thing ever reported there,
\* every process reads it, and no power loss can take it back.
THEOREM ArtifactsFinal == Spec => []ArtifactIsFinal
<1>1. lost \/ FinalInv => ArtifactIsFinal
  BY DEF FinalInv, ReportsStay, ArtifactIsFinal
<1> QED BY <1>1, FinalInvInit, FinalInvNext, TypeCorrect, PTL DEF Spec

(***************************************************************************)
(* What a decision is bound to.                                            *)
(***************************************************************************)
\* Results and reports are only ever added.
LEMMA CompletedGrows ==
  ASSUME TypeOK, [Next]_vars, NEW b \in Batches
  PROVE  completed[b] \subseteq completed'[b]
<1>1. CASE UNCHANGED completed
  BY <1>1
<1>2. ASSUME NEW c \in Runs, Complete(c) PROVE completed[b] \subseteq completed'[b]
  BY <1>2 DEF Complete, TypeOK, IntakeTypeOK
<1>3. IntakeStep => UNCHANGED completed \/ \E c \in Runs : Complete(c)
  BY DEF IntakeStep, ReplaceSource, Discover, Probe, MakeStaging, NoStaging, Extract, InputChanged,
       Seal, Rename, SyncRootFails, Remove, RemoveStops, Resync, RunFails, Cleanup, RunCrashes
<1> QED BY <1>1, <1>2, <1>3
       DEF Next, PowerLoss, IntakePowerLoss, CaptureLoss, RootLoss, intakeVars, vars

LEMMA BoundGrows ==
  ASSUME NEW n, NEW v, BoundTo(n, v), n.batch \in Batches,
         n.kind # "proposal" => n \in Names,
         \A b \in Batches : completed[b] \subseteq completed'[b],
         \A m \in Names : told[m] \subseteq told'[m]
  PROVE  BoundTo(n, v)'
<1>1. CASE n.kind = "proposal"
  BY <1>1 DEF BoundTo
<1>2. CASE n.kind # "proposal"
  <2>1. Named(n.batch, n.id, "proposal") \in Names
    BY <1>2 DEF Named, Names, Kinds
  <2> QED BY <1>2, <2>1 DEF BoundTo
<1> QED BY <1>1, <1>2

\* A step is looked at for the request it changes and for what it reports.
LEMMA BindIfKept ==
  ASSUME TypeOK, BindInv, NEW r \in Reviewers,
         \A b \in Batches : completed[b] \subseteq completed'[b],
         \A m \in Names : told[m] \subseteq told'[m],
         \A n \in Names : \A v \in told'[n] : v \in told[n] \/ BoundTo(n, v),
         \A q \in Reviewers : q # r => ask'[q] = ask[q],
         AskBound(ask[r])'
  PROVE  BindInv'
<1>1. ASSUME NEW n \in Names, NEW v \in told'[n] PROVE BoundTo(n, v)'
  <2>1. BoundTo(n, v)
    BY <1>1 DEF BindInv
  <2>2. n.batch \in Batches
    BY DEF Names
  <2> QED BY <2>1, <2>2, BoundGrows
<1>2. ASSUME NEW q \in Reviewers, ask'[q] = ask[q] PROVE AskBound(ask[q])'
  <2>1. AskBound(ask[q]) /\ AskTyped(ask[q])
    BY DEF BindInv, TypeOK, AsksTyped
  <2>2. PICK a : a = ask[q]
    OBVIOUS
  <2>3. a.at = "sent" => a.name.batch \in Batches
    BY <2>1, <2>2 DEF AskTyped
  <2>4. a.at \notin {"idle", "sent"} =>
          a.name.batch \in Batches /\ (a.name.kind # "proposal" => a.name \in Names)
    BY <2>1, <2>2 DEF AskTyped, Names
  <2>5. a.at \notin {"idle", "sent"} => BoundTo(a.name, a.value)'
    BY <2>1, <2>2, <2>4, BoundGrows DEF AskBound
  <2>6. AskBound(a)'
    BY <2>1, <2>2, <2>3, <2>5 DEF AskBound
  <2> QED BY <1>2, <2>2, <2>6
<1>3. \A q \in Reviewers : AskBound(ask[q])'
  BY <1>2
<1> QED BY <1>1, <1>3 DEF BindInv

LEMMA BindStep ==
  ASSUME TypeOK, BindInv, NEW r \in Reviewers, ReviewStep(r), UNCHANGED intakeVars
  PROVE  BindInv'
<1> DEFINE n == ask[r].name
           v == ask[r].value
<1>0. UNCHANGED completed /\ (\A b \in Batches : completed[b] \subseteq completed'[b])
  BY DEF intakeVars
<1>1. ASSUME UNCHANGED told, \A q \in Reviewers : q # r => ask'[q] = ask[q], AskBound(ask[r])'
      PROVE  BindInv'
  BY <1>0, <1>1, BindIfKept
<1>2. ASSUME Done(r), UNCHANGED told PROVE BindInv'
  <2>1. ask'[r].at = "idle" /\ \A q \in Reviewers : q # r => ask'[q] = ask[q]
    BY <1>2, DoneLeaves
  <2> QED BY <1>1, <1>2, <2>1 DEF AskBound
<1>3. ASSUME ask[r].at \notin {"idle", "sent"}, ask'[r].at \notin {"idle", "sent"}, UNCHANGED told,
             ask'[r].name = n, ask'[r].value = v,
             \A q \in Reviewers : q # r => ask'[q] = ask[q]
      PROVE  BindInv'
  <2>1. BoundTo(n, v)
    BY <1>3 DEF BindInv, AskBound
  <2>2. BoundTo(n, v)'
    BY <1>0, <1>3, <2>1 DEF BoundTo
  <2> QED BY <1>1, <1>3, <2>2 DEF AskBound, BoundTo
<1>4. ASSUME NEW place \in ReviewPlaces \ {"idle", "sent"}, Move(r, place), UNCHANGED told,
             ask[r].at \notin {"idle", "sent"}
      PROVE  BindInv'
  BY <1>3, <1>4, MoveLeaves
<1>5. ASSUME NEW b \in Batches, Send(r, b) PROVE BindInv'
  <2>1. PICK result \in completed[b] :
          ask' = [ask EXCEPT ![r] =
            [at |-> "sent", name |-> Named(b, None, "proposal"), mine |-> FALSE,
             value |-> [manifest |-> result.manifest, cites |-> {}, serial |-> asked]]]
    BY <1>5 DEF Send
  <2>2. /\ ask'[r].at = "sent" /\ ask'[r].name.batch = b
        /\ ask'[r].value.manifest = result.manifest
        /\ \A q \in Reviewers : q # r => ask'[q] = ask[q]
    <3> DEFINE new == [at |-> "sent", name |-> Named(b, None, "proposal"), mine |-> FALSE,
                       value |-> [manifest |-> result.manifest, cites |-> {}, serial |-> asked]]
    <3>1. ask'[r] = new /\ \A q \in Reviewers : q # r => ask'[q] = ask[q]
      <4>1. ask' = [ask EXCEPT ![r] = new]
        BY <2>1
      <4> HIDE DEF new
      <4> QED BY <4>1, OthersKeep
    <3> QED BY <3>1 DEF Named
  <2>3. AskBound(ask[r])'
    BY <1>0, <2>2 DEF AskBound
  <2> QED BY <1>1, <1>5, <2>2, <2>3 DEF Send
<1>6. ASSUME Answer(r) PROVE BindInv'
  <2>1. PICK cites \in Answers :
          /\ AnswerPasses(v.manifest, cites)
          /\ ask' = [ask EXCEPT ![r].at = "generated", ![r].value.cites = cites]
    BY <1>6 DEF Answer
  <2> DEFINE draft == [v EXCEPT !.cites = cites]
             new == [ask[r] EXCEPT !.at = "generated", !.value = draft]
  <2>2. /\ ask[r] \in AskRecords
        /\ n \in [batch : Batches, id : {None}, kind : {"proposal"}]
        /\ v \in [manifest : Manifests, cites : Answers \cup {{}}, serial : Nat]
    BY <1>6 DEF Answer, TypeOK, AsksTyped, AskTyped
  <2>3. draft.manifest = v.manifest /\ draft.cites = cites
    BY <2>2
  <2>4. ask' = [ask EXCEPT ![r] = new]
    BY <2>1
  <2> HIDE DEF draft
  <2>5. new.at = "generated" /\ new.name = n /\ new.value = draft
    BY <2>2 DEF AskRecords
  <2>6. ask'[r] = new /\ \A q \in Reviewers : q # r => ask'[q] = ask[q]
    BY <2>4, OthersKeep
  <2>7. \E result \in completed[n.batch] : result.manifest = v.manifest
    BY <1>6 DEF Answer, BindInv, AskBound
  <2>8. n.kind = "proposal" /\ cites \subseteq Evidence(v.manifest)
    BY <2>1, <2>2 DEF AnswerPasses
  <2> HIDE DEF new
  <2>9. AskBound(ask[r])'
    BY <1>0, <2>3, <2>5, <2>6, <2>7, <2>8 DEF AskBound, BoundTo
  <2> QED BY <1>1, <1>6, <2>6, <2>9 DEF Answer
<1>7. ASSUME NewProposalId(r) PROVE BindInv'
  <2>1. PICK q \in Proposals : ask' = [ask EXCEPT ![r].at = "creating", ![r].name.id = q]
    BY <1>7 DEF NewProposalId
  <2> DEFINE name == [n EXCEPT !.id = q]
             new == [ask[r] EXCEPT !.at = "creating", !.name = name]
  <2>2. /\ ask[r] \in AskRecords
        /\ n \in [batch : Batches, id : {None}, kind : {"proposal"}]
    BY <1>7 DEF NewProposalId, TypeOK, AsksTyped, AskTyped
  <2>3. name.batch = n.batch /\ name.kind = "proposal" /\ n.kind = "proposal"
    BY <2>2
  <2>4. ask' = [ask EXCEPT ![r] = new]
    BY <2>1
  <2> HIDE DEF name
  <2>5. new.at = "creating" /\ new.name = name /\ new.value = v
    BY <2>2 DEF AskRecords
  <2>6. ask'[r] = new /\ \A p \in Reviewers : p # r => ask'[p] = ask[p]
    BY <2>4, OthersKeep
  <2>7. BoundTo(n, v)
    BY <1>7 DEF NewProposalId, BindInv, AskBound
  <2> HIDE DEF new
  <2>8. AskBound(ask[r])'
    BY <1>0, <2>3, <2>5, <2>6, <2>7 DEF AskBound, BoundTo
  <2> QED BY <1>1, <1>7, <2>6, <2>8 DEF NewProposalId
<1>8. ASSUME NEW m \in Names, LoadProposal(r, m) PROVE BindInv'
  <2>1. PICK w \in told[m], d \in {"confirmed", "rejected"} :
          ask' = [ask EXCEPT ![r] =
            [at |-> "loaded", name |-> Named(m.batch, m.id, "decision"), mine |-> FALSE,
             value |-> [proposal |-> w, manifest |-> w.manifest, decision |-> d, serial |-> asked]]]
    BY <1>8 DEF LoadProposal
  <2>2. m = Named(m.batch, m.id, "proposal") /\ UNCHANGED told
    BY <1>8 DEF LoadProposal, Names, Named
  <2>3. /\ ask'[r].at = "loaded" /\ ask'[r].name = Named(m.batch, m.id, "decision")
        /\ ask'[r].value.proposal = w /\ ask'[r].value.manifest = w.manifest
        /\ \A q \in Reviewers : q # r => ask'[q] = ask[q]
    <3> DEFINE new ==
          [at |-> "loaded", name |-> Named(m.batch, m.id, "decision"), mine |-> FALSE,
           value |-> [proposal |-> w, manifest |-> w.manifest, decision |-> d, serial |-> asked]]
    <3>1. ask'[r] = new /\ \A q \in Reviewers : q # r => ask'[q] = ask[q]
      <4>1. ask' = [ask EXCEPT ![r] = new]
        BY <2>1
      <4> HIDE DEF new
      <4> QED BY <4>1, OthersKeep
    <3> QED BY <3>1
  <2>4. /\ ask'[r].name.kind = "decision"
        /\ ask'[r].name.batch = m.batch /\ ask'[r].name.id = m.id
    BY <2>3 DEF Named
  <2>5. AskBound(ask[r])'
    BY <2>1, <2>2, <2>3, <2>4 DEF AskBound, BoundTo
  <2> QED BY <1>1, <2>2, <2>3, <2>5
<1>9. ASSUME Report(r) PROVE BindInv'
  <2>1. n \in Names /\ BoundTo(n, v)
    BY <1>9, WritingTyped DEF Report, BindInv, AskBound, Writing, ReviewPlaces
  <2>2. told' = [told EXCEPT ![n] = @ \cup {v}]
    BY <1>9 DEF Report
  <2>3. \A m \in Names : told[m] \subseteq told'[m]
    BY <2>1, <2>2 DEF TypeOK
  <2>4. \A m \in Names : \A w \in told'[m] : w \in told[m] \/ BoundTo(m, w)
    BY <2>1, <2>2 DEF TypeOK
  <2>5. ask'[r].at = "idle" /\ \A q \in Reviewers : q # r => ask'[q] = ask[q]
    BY <1>9, DoneLeaves DEF Report
  <2>6. AskBound(ask[r])'
    BY <2>5 DEF AskBound
  <2> QED BY <1>0, <2>3, <2>4, <2>5, <2>6, BindIfKept
<1>10. ASSUME Create(r) \/ Unstage(r) PROVE BindInv'
  <2>1. UNCHANGED told /\ ask[r].at \in {"creating", "linked"}
    BY <1>10 DEF Create, Unstage
  <2>2. ASSUME NEW place \in {"staged", "unstaged"}, NEW mine \in BOOLEAN,
               ask' = [ask EXCEPT ![r].at = place, ![r].mine = mine]
        PROVE  BindInv'
    <3>1. /\ ask'[r].at = place /\ ask'[r].name = n /\ ask'[r].value = v
          /\ \A q \in Reviewers : q # r => ask'[q] = ask[q]
      BY <2>2, MineMoveLeaves DEF ReviewPlaces
    <3> QED BY <1>3, <2>1, <3>1
  <2> QED BY <1>2, <1>10, <2>1, <2>2 DEF Create, Unstage
<1>11. ASSUME \/ ProviderFails(r) \/ NoProposalId(r) \/ CheckPending(r) \/ Link(r) \/ Withdraw(r)
              \/ SyncFails(r) \/ SyncWithdrawn(r) \/ Tidy(r) \/ AskFails(r) \/ AskCrashes(r)
       PROVE  BindInv'
  <2>1. UNCHANGED told
    BY <1>11 DEF ProviderFails, NoProposalId, CheckPending, Link, Withdraw, SyncFails, SyncWithdrawn,
         Tidy, AskFails, AskCrashes
  <2>2. \/ Done(r)
        \/ /\ ask[r].at \notin {"idle", "sent"}
           /\ \E place \in ReviewPlaces \ {"idle", "sent"} : Move(r, place)
    BY <1>11 DEF ProviderFails, NoProposalId, CheckPending, Link, Withdraw, SyncFails, SyncWithdrawn,
         Tidy, AskFails, AskCrashes, ReviewPlaces
  <2> QED BY <1>2, <1>4, <2>1, <2>2
<1> QED BY <1>5, <1>6, <1>7, <1>8, <1>9, <1>10, <1>11 DEF ReviewStep

LEMMA BindInvInit == CaptureInit => BindInv
BY DEF CaptureInit, ReviewInit, NoAsk, BindInv, AskBound

LEMMA BindInvNext == TypeOK /\ BindInv /\ [Next]_vars => BindInv'
<1> SUFFICES ASSUME TypeOK, BindInv, [Next]_vars PROVE BindInv'
  OBVIOUS
<1>1. ASSUME NEW r \in Reviewers, ReviewStep(r), UNCHANGED intakeVars PROVE BindInv'
  BY <1>1, BindStep
<1>2. CASE UNCHANGED <<ask, told>>
  <2>1. ASSUME NEW n \in Names, NEW v \in told'[n] PROVE BoundTo(n, v)'
    <3>1. BoundTo(n, v) /\ n.batch \in Batches
      BY <1>2, <2>1 DEF BindInv, Names
    <3> QED BY <1>2, <3>1, BoundGrows, CompletedGrows
  <2>2. ASSUME NEW r \in Reviewers PROVE AskBound(ask[r])'
    <3>1. PICK a : a = ask[r] /\ a = ask'[r]
      BY <1>2
    <3>2. AskBound(a) /\ AskTyped(a)
      BY <3>1 DEF BindInv, TypeOK, AsksTyped
    <3>3. a.at = "sent" => a.name.batch \in Batches
      BY <3>2 DEF AskTyped
    <3>4. a.at \notin {"idle", "sent"} =>
            a.name.batch \in Batches /\ (a.name.kind # "proposal" => a.name \in Names)
      BY <3>2 DEF AskTyped, Names
    <3>5. a.at \notin {"idle", "sent"} => BoundTo(a.name, a.value)'
      BY <1>2, <3>2, <3>4, BoundGrows, CompletedGrows DEF AskBound
    <3>6. AskBound(a)'
      BY <3>2, <3>3, <3>5, CompletedGrows DEF AskBound
    <3> QED BY <3>1, <3>6
  <2> QED BY <2>1, <2>2 DEF BindInv
<1>3. CASE PowerLoss \/ CaptureLoss
  <2>1. /\ UNCHANGED <<told, completed>>
        /\ \A r \in Reviewers : ask'[r].at = "idle"
    <3>1. CASE PowerLoss
      BY <3>1 DEF PowerLoss, ReviewPowerLoss, IntakePowerLoss, NoAsk
    <3>2. CASE CaptureLoss
      BY <3>2 DEF CaptureLoss, RootLoss, ReviewsLost, NoAsk
    <3> QED BY <1>3, <3>1, <3>2
  <2> QED BY <2>1 DEF BindInv, BoundTo, AskBound
<1> QED BY <1>1, <1>2, <1>3 DEF Next, vars, reviewVars

LEMMA BoundDecisions ==
  (lost \/ IntakeInv) /\ (lost \/ FinalInv) /\ BindInv => DecisionBindsEvidence
<1> SUFFICES ASSUME IntakeInv, FinalInv, BindInv, ~lost PROVE DecisionBindsEvidence
  BY DEF DecisionBindsEvidence
<1> SUFFICES ASSUME NEW n \in Names, n.kind = "decision", NEW v \in told[n]
             PROVE  LET p == Named(n.batch, n.id, "proposal") IN
                    /\ v.proposal \in told[p]
                    /\ art[p] = Synced(v.proposal)
                    /\ v.manifest = v.proposal.manifest
                    /\ v.proposal.cites \subseteq Evidence(v.manifest)
                    /\ batch[n.batch] = Synced(Whole(v.manifest))
  BY DEF DecisionBindsEvidence
<1> DEFINE p == Named(n.batch, n.id, "proposal")
<1>1. p \in Names /\ p.kind = "proposal" /\ p.batch = n.batch /\ n.batch \in Batches
  BY DEF Names, Named, Kinds
<1>2. v.proposal \in told[p] /\ v.manifest = v.proposal.manifest
  BY DEF BindInv, BoundTo
<1>3. art[p] = Synced(v.proposal)
  BY <1>1, <1>2 DEF FinalInv, ReportsStay
<1>4. BoundTo(p, v.proposal)
  BY <1>1, <1>2 DEF BindInv
<1>5. /\ v.proposal.cites \subseteq Evidence(v.proposal.manifest)
      /\ \E result \in completed[n.batch] : result.manifest = v.proposal.manifest
  BY <1>1, <1>4 DEF BoundTo
<1>6. batch[n.batch] = Synced(Whole(v.manifest))
  BY <1>1, <1>2, <1>5 DEF IntakeInv
<1> QED BY <1>2, <1>3, <1>5, <1>6

\* A decision that was reported binds the proposal in place under its id, and with
\* it frames that were really sent, of the batch that is in place.
THEOREM DecisionsBound == Spec => []DecisionBindsEvidence
<1>1. CaptureInit => lost \/ IntakeInv
  BY IntakeInvInit DEF CaptureInit
<1> QED BY <1>1, IntakeInvNext, FinalInvInit, FinalInvNext, BindInvInit, BindInvNext,
           BoundDecisions, TypeCorrect, PTL DEF Spec

(***************************************************************************)
(* Failures leave their name as they found it.  While one call at most has *)
(* failed, a staging file is its request's, or it was left beside a        *)
(* conflict, and what is linked was reported or will be or is taken back.  *)
(***************************************************************************)
Staging == {"staged", "linked", "tidying", "withdrawing again"}

Mild == used["faults"] <= 1 /\ used["crashes"] = 0 /\ used["outages"] = 0

Owned(n) == \E r \in Reviewers : ask[r].name = n /\ ask[r].at \in Linked
Held(n) == \E r \in Reviewers : ask[r].name = n /\ ask[r].mine
Awaited(n) ==
  \E r \in Reviewers : ask[r].name = n /\ ask[r].at \in {"linked", "unstaged"}

AskPending(r) ==
  /\ ask[r].mine <=> ask[r].at \in Staging
  /\ ask[r].mine => staged[ask[r].name].now
  /\ ask[r].at \in {"withdrawing", "withdrawing again", "resyncing"} => used["faults"] = 1
  /\ ask[r].at = "tidying" /\ used["faults"] = 0 => art[ask[r].name].now # None

NamePending(n) ==
  /\ art[n].now \in told[n] \cup {None} \/ Owned(n)
  /\ staged[n].now => \/ Held(n) \/ art[n].now \in told[n]
                      \/ used["faults"] = 1 /\ Awaited(n)

HeldOnce ==
  \A r, q \in Reviewers : ask[r].mine /\ ask[q].mine /\ ask[r].name = ask[q].name => r = q

PendingInv ==
  Mild => /\ \A r \in Reviewers : AskPending(r)
          /\ HeldOnce
          /\ \A n \in Names : NamePending(n)

\* Failures are counted.
LEMMA UsedGrows ==
  ASSUME TypeOK, [Next]_vars, NEW kind \in DOMAIN Budget
  PROVE  used[kind] \in Nat /\ used'[kind] \in Nat /\ used'[kind] >= used[kind]
<1>1. used \in [DOMAIN Budget -> Nat]
  BY DEF TypeOK, IntakeTypeOK
<1>2. CASE UNCHANGED used
  BY <1>1, <1>2
<1>3. ASSUME NEW k, Spend(k)
      PROVE  used'[kind] \in Nat /\ used'[kind] >= used[kind]
  BY <1>1, <1>3 DEF Spend
<1>4. CASE IntakeStep
  BY <1>1, <1>2, <1>3, <1>4
     DEF IntakeStep, ReplaceSource, Discover, Probe, MakeStaging, NoStaging, Extract,
         InputChanged, Seal, Rename, Complete, SyncRootFails, Remove, RemoveStops, Resync,
         RunFails, Cleanup, RunCrashes
<1>5. ASSUME NEW r \in Reviewers, ReviewStep(r)
      PROVE  used'[kind] \in Nat /\ used'[kind] >= used[kind]
  BY <1>1, <1>2, <1>3, <1>5
     DEF ReviewStep, SyncFails, SyncWithdrawn, Tidy, AskFails, AskCrashes
<1>6. CASE PowerLoss \/ CaptureLoss
  BY <1>1, <1>3, <1>6 DEF PowerLoss, IntakePowerLoss, CaptureLoss, RootLoss
<1> QED BY <1>1, <1>2, <1>4, <1>5, <1>6 DEF Next, vars

LEMMA MildBefore ==
  ASSUME TypeOK, [Next]_vars, Mild'
  PROVE  /\ Mild /\ used["faults"] \in {0, 1} /\ used'["faults"] \in {0, 1}
         /\ used["faults"] = 1 => used'["faults"] = 1 /\ used'["faults"] # 0
<1>1. {"faults", "crashes", "outages"} \subseteq DOMAIN Budget
  BY CaptureIntakeAssumption
<1>2. \A kind \in {"faults", "crashes", "outages"} :
        used[kind] \in Nat /\ used'[kind] \in Nat /\ used'[kind] >= used[kind]
  BY <1>1, UsedGrows
<1>3. /\ used["faults"] \in Nat /\ used'["faults"] \in Nat
      /\ used'["faults"] >= used["faults"]
      /\ used["crashes"] \in Nat /\ used'["crashes"] >= used["crashes"]
      /\ used["outages"] \in Nat /\ used'["outages"] >= used["outages"]
  BY <1>2
<1> QED BY <1>3 DEF Mild

\* A failing call is counted, and a stopped process is not mild.
LEMMA SpendCounts ==
  ASSUME TypeOK, NEW kind \in {"faults", "crashes", "outages"}, Spend(kind)
  PROVE  used'[kind] = used[kind] + 1 /\ used[kind] \in Nat
BY CaptureIntakeAssumption DEF Spend, TypeOK, IntakeTypeOK

LEMMA MoveKeepsMine ==
  ASSUME TypeOK, NEW r \in Reviewers, NEW place, Move(r, place)
  PROVE  ask'[r].mine = ask[r].mine
<1>1. ask[r] \in AskRecords
  BY DEF TypeOK, AsksTyped
<1>2. ask' = [ask EXCEPT ![r] = [ask[r] EXCEPT !.at = place]]
  BY DEF Move
<1>3. ask'[r] = [ask[r] EXCEPT !.at = place]
  BY <1>2, OthersKeep
<1> QED BY <1>1, <1>3 DEF AskRecords

LEMMA MineMoves ==
  ASSUME TypeOK, NEW r \in Reviewers, NEW place, NEW mine,
         ask' = [ask EXCEPT ![r].at = place, ![r].mine = mine]
  PROVE  ask'[r].mine = mine
<1>1. ask[r] \in AskRecords
  BY DEF TypeOK, AsksTyped
<1>2. ask' = [ask EXCEPT ![r] = [ask[r] EXCEPT !.at = place, !.mine = mine]]
  OBVIOUS
<1>3. ask'[r] = [ask[r] EXCEPT !.at = place, !.mine = mine]
  BY <1>2, OthersKeep
<1> QED BY <1>1, <1>3 DEF AskRecords

LEMMA DoneIsNoAsk ==
  ASSUME TypeOK, NEW r \in Reviewers, Done(r)
  PROVE  ask'[r].at = "idle" /\ ~ ask'[r].mine
<1>1. ask'[r] = NoAsk
  BY OthersKeep DEF Done
<1> QED BY <1>1 DEF NoAsk

\* What is left to show of a step of a request that writes under one name.
LEMMA PendingIf ==
  ASSUME TypeOK, PendingInv, [Next]_vars, Mild', NEW r \in Reviewers, NEW n, n = ask[r].name,
         \A q \in Reviewers : q # r => ask'[q] = ask[q],
         \A m \in Names : m # n =>
           /\ staged'[m].now = staged[m].now /\ art'[m].now = art[m].now
           /\ told'[m] = told[m],
         AskPending(r)', n \in Names => NamePending(n)',
         ask'[r].mine => ask'[r].name = n /\ n \in Names /\ (ask[r].mine \/ ~ staged[n].now),
         n \in Names /\ staged[n].now /\ ~ staged'[n].now => ask[r].mine,
         n \in Names /\ art'[n].now = None /\ art[n].now # None => used["faults"] = 1
  PROVE  PendingInv'
<1>1. /\ Mild /\ used["faults"] \in {0, 1} /\ used'["faults"] \in {0, 1}
      /\ used["faults"] = 1 => used'["faults"] = 1
  BY MildBefore
<1>2. /\ \A q \in Reviewers : AskPending(q)
      /\ HeldOnce
      /\ \A m \in Names : NamePending(m)
  BY <1>1 DEF PendingInv
<1>3. ASSUME NEW q \in Reviewers, ask[q].at \in Staging PROVE ask[q].name \in Names
  BY <1>3, WritingTyped DEF Staging, Writing, ReviewPlaces
<1>4. ASSUME NEW q \in Reviewers, q # r PROVE AskPending(q)'
  <2>1. ask'[q] = ask[q] /\ AskPending(q)
    BY <1>2, <1>4
  <2>2. ask[q].mine => ask[q].name \in Names
    BY <1>3, <2>1 DEF AskPending
  <2>3. ask[q].mine => staged'[ask[q].name].now
    <3>1. CASE ask[q].name = n /\ ask[q].mine
      <4>1. ~ ask[r].mine
        BY <1>2, <1>4, <3>1 DEF HeldOnce
      <4>2. staged[n].now /\ n \in Names
        BY <2>1, <2>2, <3>1 DEF AskPending
      <4> QED BY <3>1, <4>1, <4>2
    <3>2. CASE ask[q].name # n /\ ask[q].mine
      BY <2>1, <2>2, <3>2 DEF AskPending
    <3> QED BY <3>1, <3>2
  <2>4. ask[q].at = "tidying" /\ used'["faults"] = 0 => art'[ask[q].name].now # None
    <3> SUFFICES ASSUME ask[q].at = "tidying", used'["faults"] = 0
                 PROVE  art'[ask[q].name].now # None
      OBVIOUS
    <3>1. ask[q].name \in Names /\ used["faults"] = 0 /\ art[ask[q].name].now # None
      BY <1>1, <1>3, <2>1 DEF AskPending, Staging
    <3> QED BY <3>1
  <2>5. ask[q].at \in {"withdrawing", "withdrawing again", "resyncing"} => used'["faults"] = 1
    BY <1>1, <2>1 DEF AskPending
  <2> QED BY <2>1, <2>3, <2>4, <2>5 DEF AskPending
<1>5. HeldOnce'
  <2>1. ASSUME NEW q \in Reviewers, q # r, ask'[r].mine, ask[q].mine
        PROVE  ask[q].name # ask'[r].name
    <3>1. AskPending(q) /\ ask'[r].name = n
      BY <1>2, <2>1
    <3>2. CASE ask[r].mine
      BY <1>2, <2>1, <3>1, <3>2 DEF HeldOnce
    <3>3. CASE ~ staged[n].now
      BY <2>1, <3>1, <3>3 DEF AskPending
    <3> QED BY <2>1, <3>2, <3>3
  <2> QED BY <1>2, <2>1 DEF HeldOnce
<1>6. ASSUME NEW m \in Names, m # n PROVE NamePending(m)'
  <2>1. /\ staged'[m].now = staged[m].now /\ art'[m].now = art[m].now /\ told'[m] = told[m]
        /\ NamePending(m)
    BY <1>2, <1>6
  <2>2. (Owned(m) => Owned(m)') /\ (Held(m) => Held(m)') /\ (Awaited(m) => Awaited(m)')
    BY <1>6 DEF Owned, Held, Awaited
  <2> QED BY <1>1, <2>1, <2>2 DEF NamePending
<1> QED BY <1>2, <1>4, <1>5, <1>6 DEF PendingInv

\* A request that neither writes nor has written.
LEMMA QuietPending ==
  ASSUME TypeOK, PendingInv, [Next]_vars, Mild', NEW r \in Reviewers,
         UNCHANGED <<art, staged, told>>,
         \A q \in Reviewers : q # r => ask'[q] = ask[q],
         ask[r].at \notin Linked \cup Staging,
         ask'[r].at \in {"idle", "sent", "generated", "loaded", "creating"},
         ~ ask'[r].mine
  PROVE  PendingInv'
<1> DEFINE n == ask[r].name
<1>1. Mild /\ used'["faults"] \in {0, 1} /\ (used["faults"] = 1 => used'["faults"] = 1)
  BY MildBefore
<1>2. AskPending(r) /\ \A m \in Names : NamePending(m)
  BY <1>1 DEF PendingInv
<1>3. ~ ask[r].mine
  BY <1>2 DEF AskPending
<1>4. AskPending(r)'
  BY DEF AskPending, Staging
<1>5. ASSUME NEW m \in Names PROVE NamePending(m)'
  <2>1. (Owned(m) => Owned(m)') /\ (Held(m) => Held(m)') /\ (Awaited(m) => Awaited(m)')
    BY <1>3 DEF Owned, Held, Awaited, Linked
  <2> QED BY <1>1, <1>2, <2>1 DEF NamePending
<1> QED BY <1>3, <1>4, <1>5, PendingIf

\* The steps that lead to, or end, a request that does not write.
LEMMA QuietSteps ==
  ASSUME TypeOK, PendingInv, [Next]_vars, Mild', NEW r \in Reviewers,
         \/ \E b \in Batches : Send(r, b)
         \/ Answer(r) \/ ProviderFails(r) \/ NewProposalId(r) \/ NoProposalId(r)
         \/ \E m \in Names : LoadProposal(r, m)
         \/ CheckPending(r)
         \/ Create(r) /\ Done(r) /\ UNCHANGED staged
         \/ /\ ask[r].at \in {"generated", "loaded", "creating"} /\ Done(r)
            /\ UNCHANGED <<art, staged, told>>
  PROVE  PendingInv'
<1>1. AskPending(r) /\ ask[r] \in AskRecords
  BY MildBefore DEF PendingInv, TypeOK, AsksTyped
<1>2. ask[r].at \notin Linked \cup Staging /\ UNCHANGED <<art, staged, told>>
  BY DEF Send, Answer, ProviderFails, NewProposalId, NoProposalId, LoadProposal,
         CheckPending, Create, Linked, Staging
<1>3. ~ ask[r].mine
  BY <1>1, <1>2 DEF AskPending
<1>4. /\ ask'[r].at \in {"idle", "sent", "generated", "loaded", "creating"}
      /\ ~ ask'[r].mine
      /\ \A q \in Reviewers : q # r => ask'[q] = ask[q]
  <2>1. CASE Done(r)
    BY <2>1, DoneIsNoAsk, DoneLeaves
  <2>2. CASE Move(r, "creating")
    BY <1>3, <2>2, MoveLeaves, MoveKeepsMine
  <2>3. ASSUME NEW new, ask' = [ask EXCEPT ![r] = new],
               new.at \in {"sent", "generated", "loaded", "creating"}, ~ new.mine
        PROVE  /\ ask'[r].at \in {"idle", "sent", "generated", "loaded", "creating"}
               /\ ~ ask'[r].mine
               /\ \A q \in Reviewers : q # r => ask'[q] = ask[q]
    BY <2>3, OthersKeep
  <2>4. CASE Answer(r)
    <3>1. PICK cites : ask' = [ask EXCEPT ![r].at = "generated", ![r].value.cites = cites]
      BY <2>4 DEF Answer
    <3> DEFINE new == [ask[r] EXCEPT !.at = "generated", !.value.cites = cites]
    <3>2. new.at = "generated" /\ ~ new.mine
      BY <1>1, <1>3 DEF AskRecords
    <3>3. ask' = [ask EXCEPT ![r] = new]
      BY <3>1
    <3> HIDE DEF new
    <3> QED BY <2>3, <3>2, <3>3
  <2>5. CASE NewProposalId(r)
    <3>1. PICK q : ask' = [ask EXCEPT ![r].at = "creating", ![r].name.id = q]
      BY <2>5 DEF NewProposalId
    <3> DEFINE new == [ask[r] EXCEPT !.at = "creating", !.name.id = q]
    <3>2. new.at = "creating" /\ ~ new.mine
      BY <1>1, <1>3 DEF AskRecords
    <3>3. ask' = [ask EXCEPT ![r] = new]
      BY <3>1
    <3> HIDE DEF new
    <3> QED BY <2>3, <3>2, <3>3
  <2>6. CASE \E b \in Batches : Send(r, b)
    <3>1. PICK b \in Batches : Send(r, b)
      BY <2>6
    <3>2. PICK result \in completed[b] :
            ask' = [ask EXCEPT ![r] =
              [at |-> "sent", name |-> Named(b, None, "proposal"), mine |-> FALSE,
               value |-> [manifest |-> result.manifest, cites |-> {}, serial |-> asked]]]
      BY <3>1 DEF Send
    <3> DEFINE new == [at |-> "sent", name |-> Named(b, None, "proposal"), mine |-> FALSE,
                       value |-> [manifest |-> result.manifest, cites |-> {},
                                  serial |-> asked]]
    <3>3. new.at = "sent" /\ ~ new.mine
      OBVIOUS
    <3> HIDE DEF new
    <3> QED BY <2>3, <3>2, <3>3 DEF new
  <2>7. CASE \E m \in Names : LoadProposal(r, m)
    <3>1. PICK m \in Names : LoadProposal(r, m)
      BY <2>7
    <3>2. PICK u, d :
            ask' = [ask EXCEPT ![r] =
              [at |-> "loaded", name |-> Named(m.batch, m.id, "decision"), mine |-> FALSE,
               value |-> [proposal |-> u, manifest |-> u.manifest, decision |-> d,
                          serial |-> asked]]]
      BY <3>1 DEF LoadProposal
    <3> DEFINE new == [at |-> "loaded", name |-> Named(m.batch, m.id, "decision"),
                       mine |-> FALSE,
                       value |-> [proposal |-> u, manifest |-> u.manifest, decision |-> d,
                                  serial |-> asked]]
    <3>3. new.at = "loaded" /\ ~ new.mine
      OBVIOUS
    <3> HIDE DEF new
    <3> QED BY <2>3, <3>2, <3>3 DEF new
  <2> QED BY <2>1, <2>2, <2>4, <2>5, <2>6, <2>7
      DEF ProviderFails, NoProposalId, CheckPending
<1> QED BY <1>2, <1>4, QuietPending

\* What the writes to one name leave of the others.
LEMMA OtherNames ==
  ASSUME TypeOK, NEW n \in Names
  PROVE  /\ \A v : Artifact(n, v) =>
              art'[n].now = v /\ \A m \in Names : m # n => art'[m] = art[m]
         /\ \A v : StageFile(n, v) =>
              staged'[n].now = v /\ \A m \in Names : m # n => staged'[m] = staged[m]
<1>1. /\ art = [m \in Names |-> [now |-> art[m].now, disk |-> art[m].disk]]
      /\ staged \in [Names -> [now : BOOLEAN, disk : SUBSET BOOLEAN]]
  BY DEF TypeOK, ArtifactsTyped
<1>2. ASSUME NEW v, Artifact(n, v)
      PROVE  art'[n].now = v /\ \A m \in Names : m # n => art'[m] = art[m]
  BY <1>1, <1>2 DEF Artifact, Renamed
<1>3. ASSUME NEW v, StageFile(n, v)
      PROVE  staged'[n].now = v /\ \A m \in Names : m # n => staged'[m] = staged[m]
  BY <1>1, <1>3 DEF StageFile, Renamed
<1> QED BY <1>2, <1>3

LEMMA SyncsKeepNow ==
  ASSUME NEW b, SyncBatch(b)
  PROVE  \A m \in Names : art'[m].now = art[m].now /\ staged'[m].now = staged[m].now
BY DEF SyncBatch, Synced

\* As long as one call failed at most, one that fails is the first.
LEMMA FirstFault ==
  ASSUME TypeOK, [Next]_vars, Mild', Spend("faults")
  PROVE  /\ used["faults"] = 0 /\ used["faults"] # 1
         /\ used'["faults"] = 1 /\ used'["faults"] # 0
<1>1. used'["faults"] = used["faults"] + 1 /\ used["faults"] \in Nat
  BY SpendCounts
<1>2. used["faults"] \in {0, 1} /\ used'["faults"] \in {0, 1}
  BY MildBefore
<1> QED BY <1>1, <1>2

\* The steps that write: what they find and what they leave.
LEMMA WritesPending ==
  ASSUME TypeOK, FinalInv, PendingInv, [Next]_vars, Mild', NEW r \in Reviewers,
         NEW n, n = ask[r].name, NEW v, v = ask[r].value,
         \/ Create(r) /\ ~ Done(r)
         \/ Link(r) \/ Unstage(r) \/ Report(r) \/ Withdraw(r)
         \/ SyncFails(r) \/ SyncWithdrawn(r) \/ Tidy(r)
         \/ /\ ask[r].at \in {"staged", "linked", "withdrawing", "withdrawing again"}
            /\ AskFails(r)
  PROVE  PendingInv'
<1>1. /\ Mild /\ used["faults"] \in {0, 1} /\ used'["faults"] \in {0, 1}
      /\ used["faults"] = 1 => used'["faults"] = 1 /\ used'["faults"] # 0
  BY MildBefore
<1>2. /\ \A q \in Reviewers : AskPending(q)
      /\ HeldOnce
      /\ \A m \in Names : NamePending(m)
  BY <1>1 DEF PendingInv
<1>3. n \in Names /\ v \in Values(n.kind) /\ v # None
  <2>1. ask[r].at \in Writing
    BY DEF Create, Link, Unstage, Report, Withdraw, SyncFails, SyncWithdrawn, Tidy,
           Writing, ReviewPlaces
  <2> QED BY <2>1, WritingTyped, ProposalReviewAssumption DEF Values
<1>4. ASSUME Spend("faults")
      PROVE  /\ used["faults"] = 0 /\ used["faults"] # 1
             /\ used'["faults"] = 1 /\ used'["faults"] # 0
  BY <1>4, FirstFault
<1>5. \A q \in Reviewers : q # r => (ask[q].at \in Linked /\ ask[r].at \in Linked
                                       => ask[q].name # n)
  BY DEF FinalInv
<1>6. ask[r].at \in Linked => art[n].now = v /\ told[n] = {}
  BY DEF FinalInv
<1>7. AskPending(r) /\ NamePending(n)
  BY <1>2, <1>3
\* Created.
<1>10. ASSUME Create(r), ~ Done(r) PROVE PendingInv'
  <2>1. /\ ask' = [ask EXCEPT ![r].at = "staged", ![r].mine = TRUE]
        /\ StageFile(n, TRUE) /\ ~ staged[n].now /\ UNCHANGED <<art, told>>
    BY <1>10 DEF Create
  <2>2. /\ ask'[r].at = "staged" /\ ask'[r].name = n /\ ask'[r].mine
        /\ \A q \in Reviewers : q # r => ask'[q] = ask[q]
    BY <2>1, MineMoveLeaves, MineMoves DEF ReviewPlaces
  <2>3. staged'[n].now = TRUE /\ \A m \in Names : m # n => staged'[m] = staged[m]
    BY <1>3, <2>1, OtherNames
  <2>4. AskPending(r)'
    BY <2>2, <2>3 DEF AskPending, Staging
  <2>5. ask[r].at \notin Linked
    BY <1>10 DEF Create, Linked
  <2>6. NamePending(n)'
    <3>1. Held(n)'
      BY <2>2 DEF Held
    <3>2. Owned(n) => Owned(n)'
      BY <2>2, <2>5 DEF Owned
    <3> QED BY <1>7, <2>1, <3>1, <3>2 DEF NamePending
  <2> QED BY <1>3, <2>1, <2>2, <2>3, <2>4, <2>6, PendingIf
\* Linked.
<1>11. ASSUME Link(r), art[n].now = None, Artifact(n, v), Move(r, "linked")
       PROVE  PendingInv'
  <2>1. /\ ask'[r].at = "linked" /\ ask'[r].name = n /\ ask'[r].mine = ask[r].mine
        /\ \A q \in Reviewers : q # r => ask'[q] = ask[q]
        /\ UNCHANGED <<staged, told>> /\ ask[r].at = "staged"
    BY <1>11, MoveLeaves, MoveKeepsMine DEF Link
  <2>2. art'[n].now = v /\ \A m \in Names : m # n => art'[m] = art[m]
    BY <1>3, <1>11, OtherNames
  <2>3. ask[r].mine /\ staged[n].now
    BY <1>7, <2>1 DEF AskPending, Staging
  <2>4. AskPending(r)'
    BY <2>1, <2>3 DEF AskPending, Staging
  <2>5. NamePending(n)'
    BY <2>1, <2>3 DEF NamePending, Owned, Held, Linked
  <2> QED BY <1>3, <1>11, <2>1, <2>2, <2>3, <2>4, <2>5, PendingIf
\* In conflict.
<1>12. ASSUME Link(r), art[n].now # None, Move(r, "tidying"), UNCHANGED art
       PROVE  PendingInv'
  <2>1. /\ ask'[r].at = "tidying" /\ ask'[r].name = n /\ ask'[r].mine = ask[r].mine
        /\ \A q \in Reviewers : q # r => ask'[q] = ask[q]
        /\ UNCHANGED <<staged, told>> /\ ask[r].at = "staged"
    BY <1>12, MoveLeaves, MoveKeepsMine DEF Link
  <2>2. ask[r].mine /\ staged[n].now
    BY <1>7, <2>1 DEF AskPending, Staging
  <2>3. AskPending(r)'
    BY <1>12, <2>1, <2>2 DEF AskPending, Staging
  <2>4. NamePending(n)'
    <3>1. Owned(n) => Owned(n)'
      BY <2>1 DEF Owned, Linked
    <3>2. Held(n)'
      BY <2>1, <2>2 DEF Held
    <3> QED BY <1>7, <1>12, <2>1, <3>1, <3>2 DEF NamePending
  <2> QED BY <1>3, <1>12, <2>1, <2>2, <2>3, <2>4, PendingIf
\* Unstaged.
<1>13. ASSUME Unstage(r) PROVE PendingInv'
  <2>1. /\ ask' = [ask EXCEPT ![r].at = "unstaged", ![r].mine = FALSE]
        /\ StageFile(n, FALSE) /\ UNCHANGED <<art, told>> /\ ask[r].at = "linked"
    BY <1>13 DEF Unstage
  <2>2. /\ ask'[r].at = "unstaged" /\ ask'[r].name = n /\ ~ ask'[r].mine
        /\ \A q \in Reviewers : q # r => ask'[q] = ask[q]
    BY <2>1, MineMoveLeaves, MineMoves DEF ReviewPlaces
  <2>3. staged'[n].now = FALSE /\ \A m \in Names : m # n => staged'[m] = staged[m]
    BY <1>3, <2>1, OtherNames
  <2>4. ask[r].mine
    BY <1>7, <2>1 DEF AskPending, Staging
  <2>5. AskPending(r)'
    BY <2>2 DEF AskPending, Staging
  <2>6. NamePending(n)'
    BY <2>2, <2>3 DEF NamePending, Owned, Linked
  <2> QED BY <1>3, <2>1, <2>2, <2>3, <2>4, <2>5, <2>6, PendingIf
\* Reported.
<1>14. ASSUME Report(r) PROVE PendingInv'
  <2>1. /\ ask[r].at = "unstaged" /\ SyncBatch(n.batch) /\ Done(r)
        /\ told' = [told EXCEPT ![n] = @ \cup {v}]
    BY <1>14 DEF Report
  <2>2. ask'[r].at = "idle" /\ ~ ask'[r].mine
        /\ \A q \in Reviewers : q # r => ask'[q] = ask[q]
    BY <2>1, DoneIsNoAsk, DoneLeaves
  <2>3. \A m \in Names : art'[m].now = art[m].now /\ staged'[m].now = staged[m].now
    BY <2>1, SyncsKeepNow
  <2>4. v \in told'[n] /\ \A m \in Names : m # n => told'[m] = told[m]
    BY <1>3, <2>1 DEF TypeOK
  <2>5. AskPending(r)'
    BY <2>2 DEF AskPending, Staging
  <2>6. NamePending(n)'
    BY <1>3, <1>6, <2>1, <2>3, <2>4 DEF NamePending, Linked
  <2> QED BY <1>3, <2>2, <2>3, <2>4, <2>5, <2>6, PendingIf
\* Not durable, and to be withdrawn; one call has failed.
<1>15. ASSUME SyncFails(r) PROVE PendingInv'
  <2>1. /\ ask'[r].at = "withdrawing" /\ ask'[r].name = n /\ ask'[r].mine = ask[r].mine
        /\ \A q \in Reviewers : q # r => ask'[q] = ask[q]
        /\ UNCHANGED <<art, staged, told>> /\ ask[r].at = "unstaged"
        /\ used["faults"] = 0 /\ used'["faults"] = 1
    BY <1>4, <1>15, MoveLeaves, MoveKeepsMine DEF SyncFails
  <2>2. ~ ask[r].mine
    BY <1>7, <2>1 DEF AskPending, Staging
  <2>3. AskPending(r)'
    BY <2>1, <2>2 DEF AskPending, Staging
  <2>4. NamePending(n)'
    <3>1. Owned(n)'
      BY <2>1 DEF Owned, Linked
    <3>2. Held(n) => Held(n)'
      BY <2>1 DEF Held
    <3> QED BY <1>7, <2>1, <3>1, <3>2 DEF NamePending
  <2> QED BY <1>3, <2>1, <2>2, <2>3, <2>4, PendingIf
\* Withdrawn.
<1>16. ASSUME Withdraw(r) PROVE PendingInv'
  <2>1. /\ ask[r].at \in {"withdrawing", "withdrawing again"}
        /\ Artifact(n, None) /\ UNCHANGED <<staged, told>>
        /\ used["faults"] = 1
    BY <1>7, <1>16 DEF Withdraw, AskPending
  <2>2. \/ Move(r, "resyncing") /\ ask[r].at = "withdrawing"
        \/ Move(r, "tidying") /\ ask[r].at = "withdrawing again"
    BY <1>7, <1>16 DEF Withdraw, AskPending, Staging
  <2>3. /\ \/ ask'[r].at = "resyncing" /\ ask[r].at = "withdrawing"
           \/ ask'[r].at = "tidying" /\ ask[r].at = "withdrawing again"
        /\ ask'[r].name = n /\ ask'[r].mine = ask[r].mine
        /\ \A q \in Reviewers : q # r => ask'[q] = ask[q]
    BY <2>2, MoveLeaves, MoveKeepsMine
  <2>4. art'[n].now = None /\ \A m \in Names : m # n => art'[m] = art[m]
    BY <1>3, <2>1, OtherNames
  <2>5. AskPending(r)'
    <3>1. staged' = staged /\ AskPending(r)
      BY <1>7, <2>1
    <3>2. CASE ask'[r].at = "resyncing" /\ ask[r].at = "withdrawing"
      <4>1. ~ ask'[r].mine
        BY <2>3, <3>1, <3>2 DEF AskPending, Staging
      <4>2. used'["faults"] = 1
        BY <1>1, <2>1
      <4> QED BY <3>2, <4>1, <4>2 DEF AskPending, Staging
    <3>3. CASE ask'[r].at = "tidying" /\ ask[r].at = "withdrawing again"
      <4>1. ask'[r].mine /\ staged'[ask'[r].name].now
        BY <2>3, <3>1, <3>3 DEF AskPending, Staging
      <4>2. used'["faults"] # 0
        BY <1>1, <2>1
      <4> QED BY <3>3, <4>1, <4>2 DEF AskPending, Staging
    <3> QED BY <2>3, <3>2, <3>3
  <2>6. NamePending(n)'
    <3>1. told[n] = {} /\ ask[r].at \in Linked
      BY <1>6, <2>1 DEF Linked
    <3>2. ~ Awaited(n)
      BY <1>5, <2>1, <3>1 DEF Awaited, Linked
    <3>3. Held(n) => Held(n)'
      BY <2>3 DEF Held
    <3> QED BY <1>7, <2>1, <2>4, <3>1, <3>2, <3>3 DEF NamePending
  <2> QED BY <1>3, <2>1, <2>3, <2>4, <2>5, <2>6, PendingIf
\* The end of a withdrawal, whose sync cannot fail as well.
<1>17. ASSUME SyncWithdrawn(r) PROVE PendingInv'
  <2>1. ask[r].at = "resyncing" /\ used["faults"] = 1 /\ Done(r) /\ UNCHANGED told
        /\ SyncBatch(n.batch)
    BY <1>4, <1>7, <1>17 DEF SyncWithdrawn, AskPending
  <2>2. ask'[r].at = "idle" /\ ~ ask'[r].mine /\ ~ ask[r].mine
        /\ \A q \in Reviewers : q # r => ask'[q] = ask[q]
    BY <1>7, <2>1, DoneIsNoAsk, DoneLeaves DEF AskPending, Staging
  <2>3. \A m \in Names : art'[m].now = art[m].now /\ staged'[m].now = staged[m].now
    BY <2>1, SyncsKeepNow
  <2>4. AskPending(r)'
    BY <2>2 DEF AskPending, Staging
  <2>5. NamePending(n)'
    <3>1. (Owned(n) => Owned(n)') /\ (Held(n) => Held(n)') /\ (Awaited(n) => Awaited(n)')
      BY <2>1, <2>2 DEF Owned, Held, Awaited, Linked
    <3> QED BY <1>1, <1>3, <1>7, <2>1, <2>3, <3>1 DEF NamePending
  <2> QED BY <1>3, <2>1, <2>2, <2>3, <2>4, <2>5, PendingIf
\* The staging file goes, or stays beside what another has linked.
<1>18. ASSUME Tidy(r) PROVE PendingInv'
  <2>1. /\ ask[r].at = "tidying" /\ Done(r) /\ UNCHANGED <<art, told>>
        /\ \/ StageFile(n, FALSE)
           \/ UNCHANGED staged /\ used["faults"] = 0 /\ used["faults"] # 1 /\ used'["faults"] = 1
    BY <1>4, <1>18 DEF Tidy
  <2>2. ask'[r].at = "idle" /\ ~ ask'[r].mine /\ ask[r].mine
        /\ \A q \in Reviewers : q # r => ask'[q] = ask[q]
    BY <1>7, <2>1, DoneIsNoAsk, DoneLeaves DEF AskPending, Staging
  <2>3. \/ staged'[n].now = FALSE /\ \A m \in Names : m # n => staged'[m] = staged[m]
        \/ UNCHANGED staged /\ used["faults"] = 0 /\ used["faults"] # 1 /\ used'["faults"] = 1
    BY <1>3, <2>1, OtherNames
  <2>4. AskPending(r)'
    BY <2>2 DEF AskPending, Staging
  <2>5. Owned(n) => Owned(n)'
    BY <2>1, <2>2 DEF Owned, Linked
  <2>6. CASE staged'[n].now = FALSE /\ \A m \in Names : m # n => staged'[m] = staged[m]
    <3>1. NamePending(n)'
      BY <1>7, <2>1, <2>5, <2>6 DEF NamePending
    <3> QED BY <1>3, <2>1, <2>2, <2>4, <2>6, <3>1, PendingIf
  <2>7. CASE UNCHANGED staged /\ used["faults"] = 0 /\ used["faults"] # 1 /\ used'["faults"] = 1
    <3>1. art[n].now # None
      BY <1>7, <2>1, <2>7 DEF AskPending
    <3>2. Owned(n) => Awaited(n)'
      <4>1. \A q \in Reviewers : ask[q].at \notin {"withdrawing", "withdrawing again"}
        BY <1>2, <2>7 DEF AskPending
      <4> QED BY <2>1, <2>2, <4>1 DEF Owned, Awaited, Linked
    <3>3. NamePending(n)'
      BY <1>7, <2>1, <2>5, <2>7, <3>1, <3>2 DEF NamePending
    <3> QED BY <1>3, <2>1, <2>2, <2>4, <2>7, <3>3, PendingIf
  <2> QED BY <2>3, <2>6, <2>7
\* A call fails; none of a withdrawal's, which would be the second.
<1>19. ASSUME ask[r].at \in {"staged", "linked", "withdrawing", "withdrawing again"},
              AskFails(r)
       PROVE  PendingInv'
  <2>1. /\ used["faults"] # 1 /\ used'["faults"] = 1 /\ used'["faults"] # 0
        /\ UNCHANGED <<art, staged, told>>
    BY <1>4, <1>19 DEF AskFails
  <2>2. \/ ask[r].at = "staged" /\ Move(r, "tidying")
        \/ ask[r].at = "linked" /\ Move(r, "withdrawing again")
    BY <1>7, <1>19, <2>1 DEF AskFails, AskPending
  <2>3. /\ \/ ask[r].at = "staged" /\ ask'[r].at = "tidying"
           \/ ask[r].at = "linked" /\ ask'[r].at = "withdrawing again"
        /\ ask'[r].name = n /\ ask'[r].mine = ask[r].mine
        /\ \A q \in Reviewers : q # r => ask'[q] = ask[q]
    BY <2>2, MoveLeaves, MoveKeepsMine
  <2>4. ask[r].mine /\ staged[n].now
    BY <1>7, <2>3 DEF AskPending, Staging
  <2>5. AskPending(r)'
    BY <2>1, <2>3, <2>4 DEF AskPending, Staging
  <2>6. NamePending(n)'
    <3>1. Owned(n) => Owned(n)'
      BY <2>3 DEF Owned, Linked
    <3>2. Held(n)'
      BY <2>3, <2>4 DEF Held
    <3> QED BY <1>7, <2>1, <3>1, <3>2 DEF NamePending
  <2> QED BY <1>3, <2>1, <2>3, <2>4, <2>5, <2>6, PendingIf
<1>20. Link(r) => \/ art[n].now = None /\ Artifact(n, v) /\ Move(r, "linked")
                  \/ art[n].now # None /\ Move(r, "tidying") /\ UNCHANGED art
  BY DEF Link
<1> QED BY <1>10, <1>11, <1>12, <1>13, <1>14, <1>15, <1>16, <1>17, <1>18, <1>19, <1>20

LEMMA PendingInvInit == CaptureInit => PendingInv
<1> SUFFICES ASSUME CaptureInit PROVE PendingInv
  OBVIOUS
<1>1. \A r \in Reviewers : ask[r].at = "idle" /\ ~ ask[r].mine
  BY DEF CaptureInit, ReviewInit, NoAsk
<1>2. \A n \in Names : art[n].now = None /\ staged[n].now = FALSE
  BY DEF CaptureInit, ReviewInit, Synced
<1>3. \A r \in Reviewers : AskPending(r)
  BY <1>1 DEF AskPending, Staging
<1> QED BY <1>1, <1>2, <1>3 DEF PendingInv, HeldOnce, NamePending

\* It takes a power loss to lose data/capture.
LossCounted == lost => used["outages"] # 0

LEMMA LossCountedNext == TypeOK /\ LossCounted /\ [Next]_vars => LossCounted'
<1> SUFFICES ASSUME TypeOK, LossCounted, [Next]_vars, lost' PROVE used'["outages"] # 0
  BY DEF LossCounted
<1>1. /\ "outages" \in DOMAIN Budget
      /\ used["outages"] \in Nat /\ used'["outages"] \in Nat
      /\ used'["outages"] >= used["outages"]
  BY UsedGrows, CaptureIntakeAssumption
<1>2. CASE CaptureLoss
  <2>1. used'["outages"] = used["outages"] + 1
    BY <1>1, <1>2, SpendCounts DEF CaptureLoss, RootLoss
  <2> QED BY <1>1, <2>1
<1>3. CASE ~CaptureLoss
  <2>1. lost
    BY <1>3 DEF Next, vars, intakeVars, IntakeStep, PowerLoss, IntakePowerLoss
  <2> QED BY <1>1, <2>1 DEF LossCounted
<1> QED BY <1>2, <1>3

LEMMA PendingInvNext ==
  TypeOK /\ (lost \/ FinalInv) /\ LossCounted /\ PendingInv /\ [Next]_vars => PendingInv'
<1> SUFFICES ASSUME TypeOK, lost \/ FinalInv, LossCounted, PendingInv, [Next]_vars, Mild'
             PROVE  PendingInv'
  BY DEF PendingInv
<1>0. FinalInv
  BY MildBefore DEF Mild, LossCounted
<1> USE <1>0
<1>1. CASE UNCHANGED reviewVars
  <2>1. /\ Mild /\ used["faults"] \in {0, 1} /\ used'["faults"] \in {0, 1}
        /\ used["faults"] = 1 => used'["faults"] = 1
    BY MildBefore
  <2>2. /\ \A r \in Reviewers : AskPending(r)
        /\ HeldOnce
        /\ \A n \in Names : NamePending(n)
    BY <2>1 DEF PendingInv
  <2>3. /\ ask' = ask /\ art' = art /\ staged' = staged /\ told' = told
        /\ used'["faults"] = 0 => used["faults"] = 0
    BY <1>1, <2>1 DEF reviewVars
  <2>4. ASSUME NEW r \in Reviewers PROVE AskPending(r)'
    BY <2>1, <2>2, <2>3 DEF AskPending
  <2>5. ASSUME NEW n \in Names PROVE NamePending(n)'
    BY <2>1, <2>2, <2>3 DEF NamePending, Owned, Held, Awaited
  <2>6. HeldOnce'
    BY <2>2, <2>3 DEF HeldOnce
  <2> QED BY <2>4, <2>5, <2>6 DEF PendingInv
<1>2. ASSUME NEW r \in Reviewers, ReviewStep(r) PROVE PendingInv'
  <2>1. CASE AskCrashes(r)
    <3>1. used'["crashes"] = used["crashes"] + 1 /\ used["crashes"] \in Nat
      BY <2>1, SpendCounts DEF AskCrashes
    <3> QED BY <3>1 DEF Mild
  <2>2. PICK n, v : n = ask[r].name /\ v = ask[r].value
    OBVIOUS
  <2>3. CASE AskFails(r)
    <3>1. CASE ask[r].at \in {"generated", "loaded", "creating"}
      <4>1. Done(r) /\ UNCHANGED <<art, staged, told>>
        BY <2>3, <3>1 DEF AskFails
      <4> QED BY <3>1, <4>1, QuietSteps
    <3>2. CASE ask[r].at \in {"staged", "linked", "withdrawing", "withdrawing again"}
      BY <2>2, <2>3, <3>2, WritesPending
    <3> QED BY <2>3, <3>1, <3>2 DEF AskFails
  <2>4. CASE Create(r)
    <3>1. CASE Done(r)
      <4>1. UNCHANGED staged \/ ~ Done(r)
        <5>1. CASE ask' = [ask EXCEPT ![r].at = "staged", ![r].mine = TRUE]
          BY <3>1, <5>1, MineMoveLeaves, DoneLeaves DEF ReviewPlaces
        <5> QED BY <2>4, <5>1 DEF Create
      <4> QED BY <2>4, <3>1, <4>1, QuietSteps
    <3>2. CASE ~ Done(r)
      BY <2>2, <2>4, <3>2, WritesPending
    <3> QED BY <3>1, <3>2
  <2>5. CASE \/ Link(r) \/ Unstage(r) \/ Report(r) \/ Withdraw(r)
             \/ SyncFails(r) \/ SyncWithdrawn(r) \/ Tidy(r)
    BY <2>2, <2>5, WritesPending
  <2>6. CASE \/ \E b \in Batches : Send(r, b)
             \/ Answer(r) \/ ProviderFails(r) \/ NewProposalId(r) \/ NoProposalId(r)
             \/ \E m \in Names : LoadProposal(r, m)
             \/ CheckPending(r)
    BY <2>6, QuietSteps
  <2> QED BY <1>2, <2>1, <2>3, <2>4, <2>5, <2>6 DEF ReviewStep
<1>3. CASE PowerLoss \/ CaptureLoss
  <2>1. used'["outages"] = used["outages"] + 1 /\ used["outages"] \in Nat
    BY <1>3, SpendCounts DEF PowerLoss, IntakePowerLoss, CaptureLoss, RootLoss
  <2> QED BY <2>1 DEF Mild
<1> QED BY <1>1, <1>2, <1>3 DEF Next, vars

\* As long as one call failed at most and no process was stopped, a request that
\* was refused leaves its name free, or as another's report left it.
THEOREM FailuresLeavePending == Spec => []FailureLeavesPending
<1>1. TypeOK /\ PendingInv => FailureLeavesPending
  <2> SUFFICES ASSUME PendingInv, Mild,
                      NEW n \in Names, \A r \in Reviewers : ask[r].name # n
               PROVE  art[n].now \in told[n] \/ (art[n].now = None /\ ~ staged[n].now)
    BY DEF FailureLeavesPending, Mild
  <2>1. NamePending(n) /\ ~ Owned(n) /\ ~ Held(n) /\ ~ Awaited(n)
    BY DEF PendingInv, Owned, Held, Awaited
  <2> QED BY <2>1 DEF NamePending
<1>2. CaptureInit => LossCounted
  BY DEF CaptureInit, Init, LossCounted
<1> QED BY <1>1, <1>2, FinalInvInit, FinalInvNext, LossCountedNext, PendingInvInit,
           PendingInvNext, TypeCorrect, PTL DEF Spec
=============================================================================
