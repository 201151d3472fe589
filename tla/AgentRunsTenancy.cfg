SPECIFICATION FairSpec
CONSTANTS
  Orgs = {o1}
  Users = {u1, u2}
  Requests = {r1}
  Workers = {w1}
  Kinds = {"TEAM", "TEST", "ASSISTANT"}
  Calls <- MCCalls
  Limits = {4}
  NoWorker = NoWorker
  NoRun = NoRun
  MaxRevision = 2
  MaxDays = 1
  MaxStops = 1
INVARIANTS RequestsWithinReservation
PROPERTIES PublishedOnlyWhilePermitted SlotIsFreed
