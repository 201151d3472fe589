SPECIFICATION Spec
CONSTANTS
  Lanes = {l1}
  Opportunities = {o1, o2}
  Workers = {w1, w2}
  None = None
  Free = Free
  Settings <- MCBoth
  MaxRevision = 0
SYMMETRY Symmetry
INVARIANTS CandidatesAreSound
CONSTRAINT Small
