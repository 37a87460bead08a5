SPECIFICATION MediaSpec
CONSTANTS
  r1 = r1
  r2 = r2
  m1 = m1
  m2 = m2
  Runs = {r1, r2}
  Types <- AllJobs
  MaxJobs = 2
  WorkerIds <- MCWorkerIds
  MaxAttempts = 2
  MaxOverlaps = 1
  MaxFaults = 1
  MaxCases = 3
  ReviewCases = {"c1", "c2"}
  Opened <- MCOpened
  Reviewers = {m1, m2}
  Reach <- MCReach
  MaxReviews = 3
  MaxReviewOverlaps = 2
  MaxDeaths = 1
  MaxDay = 2
INVARIANTS VerdictIsPublished LockHolds AnswersHold
PROPERTIES BlockStands JobsFinish ReviewsHold
CHECK_DEADLOCK FALSE
