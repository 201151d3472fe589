SPECIFICATION Spec
CONSTANTS
  Orgs = {o1}
  Users = {u1}
  Requests = {r1, r2}
  Workers = {w1, w2}
  Kinds = {"RESEARCH", "TEAM"}
  Calls <- MCCalls
  Limits = {3, 4}
  NoWorker = NoWorker
  NoRun = NoRun
  MaxRevision = 2
  MaxDays = 0
  MaxStops = 0
SYMMETRY Symmetry
INVARIANTS RunsAreSound
PROPERTIES EndedRunsAreFinal ImplementsRunSlots UsageIsAccounted
