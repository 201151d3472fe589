SPECIFICATION Spec
CONSTANTS
  Lanes = {l1}
  Opportunities = {o1}
  Workers = {w1}
  None = None
  Free = Free
  Settings <- MCAlone
  MaxRevision = 0
SYMMETRY Symmetry
INVARIANTS ReviewAppliedOnce
