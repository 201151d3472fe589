SPECIFICATION Spec
CONSTANTS
  Orgs = {o1}
  Users = {u1}
  Requests = {r1}
  Workers = {w1}
  Kinds = {"ASSISTANT"}
  Calls <- MCCalls
  Limits = {4}
  NoWorker = NoWorker
  NoRun = NoRun
  MaxRevision = 1
  MaxDays = 0
  MaxStops = 0
SYMMETRY Symmetry
INVARIANT ReturnedUsageRecorded
