--------------------------- MODULE ProposalReview ---------------------------
(***************************************************************************)
(* Vision proposals and the owner's decisions on them                      *)
(* (capture/vision_proposals.py, capture/openai_vision.py), over the       *)
(* batches that CaptureIntake completes.                                   *)
(*                                                                         *)
(* An artifact is named by its batch, the id of its proposal and its kind, *)
(* and is written at most once: staged under a name derived from its own,  *)
(* linked, unstaged, and made durable by a sync of the batch's directory.  *)
(* A digest is the value it is of; the serial number of the request stands *)
(* for the provider's response id and for the time of a decision.          *)
(***************************************************************************)
EXTENDS CaptureIntake

CONSTANTS
  Reviewers,   \* processes that propose or decide
  Proposals,   \* proposal ids
  MaxEvidence, \* the frames a provider may be sent
  Answers,     \* the frame numbers a provider's answer may refer to
  MaxAsks      \* bound on the requests

ProposalValues == [manifest : Manifests, cites : Answers, serial : Nat]
DecisionValues ==
  [proposal : ProposalValues, manifest : Manifests,
   decision : {"confirmed", "rejected"}, serial : Nat]

ASSUME ProposalReviewAssumption ==
  /\ MaxEvidence \in Nat \ {0} /\ MaxAsks \in Nat
  /\ Answers \subseteq SUBSET Nat
  /\ None \notin ProposalValues \cup DecisionValues

VARIABLES
  ask,    \* what each reviewer's request knows
  art,    \* the artifacts: a DurableFile for each name
  staged, \* whether each name's staging file exists, a DurableFile
  told,   \* history: what was reported written under each name
  asked   \* requests so far

reviewVars == <<ask, art, staged, told, asked>>
vars == <<intakeVars, reviewVars, used>>

Kinds == {"proposal", "decision"}
Names == [batch : Batches, id : Proposals, kind : Kinds]
Named(b, q, kind) == [batch |-> b, id |-> q, kind |-> kind]

Values(kind) == IF kind = "proposal" THEN ProposalValues ELSE DecisionValues

\* load_capture_batch: the manifest has the digest m, and the frames are its.
Loads(b, m) == m # <<>> /\ batch[b].now = Whole(m)

\* The frames that are sent, which are the ones an answer may refer to.
Evidence(m) ==
  LET sent == CenterIndices(Len(m), MaxEvidence)
  IN {sent[k] : k \in DOMAIN sent}

NoAsk == [at |-> "idle", name |-> None, value |-> None, mine |-> FALSE]

ReviewInit ==
  /\ ask = [r \in Reviewers |-> NoAsk]
  /\ art = [n \in Names |-> Synced(None)]
  /\ staged = [n \in Names |-> Synced(FALSE)]
  /\ told = [n \in Names |-> {}]
  /\ asked = 0

Move(r, place) == ask' = [ask EXCEPT ![r].at = place]
Done(r) == ask' = [ask EXCEPT ![r] = NoAsk]
Artifact(n, v) == art' = [art EXCEPT ![n] = Renamed(@, v)]
StageFile(n, v) == staged' = [staged EXCEPT ![n] = Renamed(@, v)]

\* A sync of a batch's directory: every name in it is durable as it is.
SyncBatch(b) ==
  /\ art' = [n \in Names |-> IF n.batch = b THEN Synced(art[n].now) ELSE art[n]]
  /\ staged' = [n \in Names |-> IF n.batch = b THEN Synced(staged[n].now) ELSE staged[n]]

(***************************************************************************)
(* create_proposal, for a batch that was reported.                         *)
(***************************************************************************)
\* A faulty variant: the frames an answer refers to are not compared.
AnswerUnchecked(m, cites) == cites # {}

\* validate_and_normalize_observations
AnswerPasses(m, cites) == cites # {} /\ cites \subseteq Evidence(m)

\* The batch is loaded and its evidence is sent.
Send(r, b) ==
  /\ ask[r].at = "idle" /\ asked < MaxAsks
  /\ \E result \in completed[b] :
       /\ Loads(b, result.manifest)
       /\ ask' = [ask EXCEPT ![r] =
            [at |-> "sent", name |-> Named(b, None, "proposal"), mine |-> FALSE,
             value |-> [manifest |-> result.manifest, cites |-> {}, serial |-> asked]]]
  /\ asked' = asked + 1
  /\ UNCHANGED <<art, staged, told>>

Answer(r) ==
  /\ ask[r].at = "sent"
  /\ \E cites \in Answers :
       /\ AnswerPasses(ask[r].value.manifest, cites)
       /\ ask' = [ask EXCEPT ![r].at = "generated", ![r].value.cites = cites]
  /\ UNCHANGED <<art, staged, told, asked>>

\* No answer, an error or a refusal, or an answer that does not pass.
ProviderFails(r) ==
  /\ ask[r].at = "sent"
  /\ Done(r)
  /\ UNCHANGED <<art, staged, told, asked>>

\* _new_proposal_id: an id whose two artifacts are absent.
NewProposalId(r) ==
  LET b == ask[r].name.batch IN
  /\ ask[r].at = "generated"
  /\ \E q \in Proposals :
       /\ \A kind \in Kinds : art[Named(b, q, kind)].now = None
       /\ ask' = [ask EXCEPT ![r].at = "creating", ![r].name.id = q]
  /\ UNCHANGED <<art, staged, told, asked>>

\* A faulty variant: the loop ends and the request goes on.
NoProposalIdIgnored(r) ==
  /\ ask[r].at = "generated"
  /\ \A q \in Proposals : \E kind \in Kinds :
       art[Named(ask[r].name.batch, q, kind)].now # None
  /\ Move(r, "creating")
  /\ UNCHANGED <<art, staged, told, asked>>

NoProposalId(r) ==
  /\ ask[r].at = "generated"
  /\ \A q \in Proposals : \E kind \in Kinds :
       art[Named(ask[r].name.batch, q, kind)].now # None
  /\ Done(r)
  /\ UNCHANGED <<art, staged, told, asked>>

(***************************************************************************)
(* decide_proposal, by the owner, on a proposal that was reported.         *)
(***************************************************************************)
LoadProposal(r, n) ==
  /\ ask[r].at = "idle" /\ asked < MaxAsks /\ n.kind = "proposal"
  /\ \E v \in told[n], d \in {"confirmed", "rejected"} :
       /\ art[n].now = v
       /\ Loads(n.batch, v.manifest)
       /\ AnswerPasses(v.manifest, v.cites)
       /\ ask' = [ask EXCEPT ![r] =
            [at |-> "loaded", name |-> Named(n.batch, n.id, "decision"), mine |-> FALSE,
             value |-> [proposal |-> v, manifest |-> v.manifest, decision |-> d, serial |-> asked]]]
  /\ asked' = asked + 1
  /\ UNCHANGED <<art, staged, told>>

\* A proposal that has a decision is not pending any more.
CheckPending(r) ==
  /\ ask[r].at = "loaded"
  /\ IF art[ask[r].name].now = None THEN Move(r, "creating") ELSE Done(r)
  /\ UNCHANGED <<art, staged, told, asked>>

(***************************************************************************)
(* _atomic_private_artifact, call by call.                                 *)
(***************************************************************************)
\* The staging file is created for this request, or another has it: a conflict.
Create(r) ==
  LET n == ask[r].name IN
  /\ ask[r].at = "creating"
  /\ \/ /\ ~staged[n].now
        /\ StageFile(n, TRUE)
        /\ ask' = [ask EXCEPT ![r].at = "staged", ![r].mine = TRUE]
     \/ /\ staged[n].now
        /\ Done(r)
        /\ UNCHANGED staged
  /\ UNCHANGED <<art, told, asked>>

\* A faulty variant: the artifact is renamed into place, over any other.
LinkReplaces(r) ==
  /\ ask[r].at = "staged"
  /\ Artifact(ask[r].name, ask[r].value)
  /\ Move(r, "linked")
  /\ UNCHANGED <<staged, told, asked>>

\* Written and synced, it is linked unless its name exists: a conflict.
Link(r) ==
  LET n == ask[r].name IN
  /\ ask[r].at = "staged"
  /\ \/ art[n].now = None /\ Artifact(n, ask[r].value) /\ Move(r, "linked")
     \/ art[n].now # None /\ Move(r, "tidying") /\ UNCHANGED art
  /\ UNCHANGED <<staged, told, asked>>

Unstage(r) ==
  /\ ask[r].at = "linked"
  /\ StageFile(ask[r].name, FALSE)
  /\ ask' = [ask EXCEPT ![r].at = "unstaged", ![r].mine = FALSE]
  /\ UNCHANGED <<art, told, asked>>

Report(r) ==
  LET n == ask[r].name IN
  /\ ask[r].at = "unstaged"
  /\ SyncBatch(n.batch)
  /\ told' = [told EXCEPT ![n] = @ \cup {ask[r].value}]
  /\ Done(r)
  /\ UNCHANGED asked

\* A faulty variant: a failing sync is reported like a success.
SyncFailureReported(r) ==
  LET n == ask[r].name IN
  /\ ask[r].at = "unstaged"
  /\ Spend("faults")
  /\ told' = [told EXCEPT ![n] = @ \cup {ask[r].value}]
  /\ Move(r, "withdrawing")
  /\ UNCHANGED <<art, staged, asked>>

SyncFails(r) ==
  /\ ask[r].at = "unstaged"
  /\ Spend("faults")
  /\ Move(r, "withdrawing")
  /\ UNCHANGED <<art, staged, told, asked>>

\* A faulty variant: what was linked stays when it could not be synced.
WithdrawNothing(r) ==
  /\ ask[r].at \in {"withdrawing", "withdrawing again"}
  /\ Move(r, IF ask[r].mine THEN "tidying" ELSE "resyncing")
  /\ UNCHANGED <<art, staged, told, asked>>

\* path.unlink(), by the handler of the sync or by the outer one.
Withdraw(r) ==
  /\ ask[r].at \in {"withdrawing", "withdrawing again"}
  /\ Artifact(ask[r].name, None)
  /\ CASE ask[r].at = "withdrawing" -> Move(r, "resyncing")
       [] ask[r].at = "withdrawing again" /\ ask[r].mine -> Move(r, "tidying")
       [] OTHER -> Done(r)
  /\ UNCHANGED <<staged, told, asked>>

\* The sync after the unlink; its failure is swallowed, the request fails.
SyncWithdrawn(r) ==
  /\ ask[r].at = "resyncing"
  /\ \/ SyncBatch(ask[r].name.batch) /\ UNCHANGED used
     \/ Spend("faults") /\ UNCHANGED <<art, staged>>
  /\ Done(r)
  /\ UNCHANGED <<told, asked>>

\* The `finally`: staging.unlink(), whose failure is swallowed.
Tidy(r) ==
  /\ ask[r].at = "tidying"
  /\ \/ StageFile(ask[r].name, FALSE) /\ UNCHANGED used
     \/ Spend("faults") /\ UNCHANGED staged
  /\ Done(r)
  /\ UNCHANGED <<art, told, asked>>

\* A call fails: the handlers go on from there.
AskFails(r) ==
  /\ Spend("faults")
  /\ \/ ask[r].at \in {"generated", "loaded", "creating"} /\ Done(r)
     \/ ask[r].at = "staged" /\ Move(r, "tidying")
     \/ ask[r].at \in {"linked", "withdrawing"} /\ Move(r, "withdrawing again")
     \/ /\ ask[r].at = "withdrawing again"
        /\ IF ask[r].mine THEN Move(r, "tidying") ELSE Done(r)
  /\ UNCHANGED <<art, staged, told, asked>>

\* The process ends, or an interruption leaves it only the `finally`.
AskCrashes(r) ==
  /\ ask[r].at # "idle"
  /\ Spend("crashes")
  /\ \/ UNCHANGED staged
     \/ ask[r].mine /\ StageFile(ask[r].name, FALSE)
  /\ Done(r)
  /\ UNCHANGED <<art, told, asked>>

ReviewPowerLoss ==
  /\ ask' = [r \in Reviewers |-> NoAsk]
  /\ art' \in SurvivingFiles(art)
  /\ staged' \in SurvivingFiles(staged)
  /\ UNCHANGED <<told, asked>>

\* What data/capture held is gone with it.
ReviewsLost ==
  /\ ask' = [r \in Reviewers |-> NoAsk]
  /\ art' = [n \in Names |-> Synced(None)]
  /\ staged' = [n \in Names |-> Synced(FALSE)]
  /\ UNCHANGED <<told, asked>>

ReviewStep(r) ==
  \/ /\ \/ \E b \in Batches : Send(r, b)
        \/ Answer(r) \/ ProviderFails(r)
        \/ NewProposalId(r) \/ NoProposalId(r)
        \/ \E n \in Names : LoadProposal(r, n)
        \/ CheckPending(r) \/ Create(r) \/ Link(r) \/ Unstage(r)
        \/ Report(r) \/ Withdraw(r)
     /\ UNCHANGED used
  \/ SyncFails(r) \/ SyncWithdrawn(r) \/ Tidy(r) \/ AskFails(r) \/ AskCrashes(r)

PowerLoss == IntakePowerLoss /\ ReviewPowerLoss
CaptureLoss == RootLoss /\ ReviewsLost

CaptureInit == Init /\ ReviewInit

Next ==
  \/ IntakeStep /\ UNCHANGED reviewVars
  \/ \E r \in Reviewers : ReviewStep(r) /\ UNCHANGED intakeVars
  \/ PowerLoss
  \/ CaptureLoss

Spec == CaptureInit /\ [][Next]_vars

(***************************************************************************)
(* Properties.                                                             *)
(***************************************************************************)
ReviewPlaces ==
  {"idle", "sent", "generated", "loaded", "creating", "staged", "linked", "unstaged",
   "withdrawing", "withdrawing again", "resyncing", "tidying"}

AskRecords ==
  [at : ReviewPlaces,
   name : [batch : Batches, id : Proposals \cup {None}, kind : Kinds] \cup {None},
   value : [manifest : Manifests, cites : Answers \cup {{}}, serial : Nat]
             \cup DecisionValues \cup {None},
   mine : BOOLEAN]

\* A request has its batch from the first, and its name and value before it writes.
AskTyped(a) ==
  CASE a.at = "idle" -> TRUE
    [] a.at \in {"sent", "generated"} ->
         /\ a.name \in [batch : Batches, id : {None}, kind : {"proposal"}]
         /\ a.value \in [manifest : Manifests, cites : Answers \cup {{}}, serial : Nat]
         /\ a.at = "generated" => a.value \in ProposalValues
    [] OTHER -> a.name \in Names /\ a.value \in Values(a.name.kind)

AsksTyped ==
  /\ ask \in [Reviewers -> AskRecords]
  /\ \A r \in Reviewers : AskTyped(ask[r])

ArtifactsTyped ==
  /\ art = [n \in Names |-> [now |-> art[n].now, disk |-> art[n].disk]]
  /\ \A n \in Names : art[n].disk \cup {art[n].now} \subseteq Values(n.kind) \cup {None}
  /\ staged \in [Names -> [now : BOOLEAN, disk : SUBSET BOOLEAN]]

\* Every variable keeps its type; an artifact holds what its name says.
TypeOK ==
  /\ IntakeTypeOK
  /\ AsksTyped
  /\ ArtifactsTyped
  /\ told = [n \in Names |-> told[n]]
  /\ \A n \in Names : told[n] \subseteq Values(n.kind)
  /\ asked \in Nat

\* As long as data/capture itself is not lost: a proposal or decision that was
\* reported is the only one ever reported under its name, and is what every
\* process reads and every other power loss leaves.
ArtifactIsFinal ==
  ~lost => \A n \in Names : \A v \in told[n] : told[n] = {v} /\ art[n] = Synced(v)

\* And a reported decision binds the reported proposal that is in place, which
\* refers only to frames that were sent, of the batch that is in place.
DecisionBindsEvidence ==
  ~lost =>
    \A n \in Names : n.kind = "decision" =>
      \A v \in told[n] :
        LET p == Named(n.batch, n.id, "proposal") IN
        /\ v.proposal \in told[p]
        /\ art[p] = Synced(v.proposal)
        /\ v.manifest = v.proposal.manifest
        /\ v.proposal.cites \subseteq Evidence(v.manifest)
        /\ batch[n.batch] = Synced(Whole(v.manifest))

\* As long as one call failed at most, and no process was stopped, a request
\* that was refused leaves its name as free for the next one as it found it.
FailureLeavesPending ==
  used["faults"] <= 1 /\ used["crashes"] = 0 /\ used["outages"] = 0 =>
    \A n \in Names : (\A r \in Reviewers : ask[r].name # n) =>
      \/ art[n].now \in told[n]
      \/ art[n].now = None /\ ~staged[n].now
=============================================================================
