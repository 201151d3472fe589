SPECIFICATION FairSpec
CONSTANTS
  Lanes = {l1}
  Opportunities = {o1}
  Workers = {w1}
  None = None
  Free = Free
  Settings <- MCAlone
  MaxRevision = 1
INVARIANTS ReviewsAreSound
PROPERTIES OutcomesAreFinal CandidatesClose
