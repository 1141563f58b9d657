CONSTANTS
  Req = {p1, p2}
  Key = {k1}
  NoKey = NoKey
  Groups = {"enduser"}
  MutationPool = 2
  HeartbeatPool = 1
  AdminPool = 1
  Overlap = FALSE
  Faults = {"disconnect"}
  MaxRuns = 2
SPECIFICATION Spec
INVARIANTS SafeRetries
