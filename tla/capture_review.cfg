SPECIFICATION Spec
CONSTANTS
  r1 = r1
  r2 = r2
  None = None
  Runs = {i1}
  Batches = {b1}
  SourceCount = 3
  Pictures = {hall, bath}
  MaxFrames = 2
  MaxRuns = 1
  Budget <- MCBudget
  Reviewers = {r1, r2}
  Proposals = {q1}
  MaxEvidence = 1
  Answers <- MCAnswers
  MaxAsks = 3
CHECK_DEADLOCK FALSE
SYMMETRY Alike
INVARIANTS
  TypeOK
  CompletedBatchKept
  ArtifactIsFinal
  DecisionBindsEvidence
  FailureLeavesPending
