CONSTANTS
  OrderID = {o1}
  DroneID = {d1}
  JobID = {j1, j2}
  Route = {r1}
  Nil = Nil
  Req = {p1, p2}
  Key = {k1}
  NoKey = NoKey
  NoRow = NoRow
  Groups = {"enduser", "drone", "heartbeat", "admin"}
  MutationPool = 2
  HeartbeatPool = 1
  AdminPool = 1
  Overlap = TRUE
  Faults = {"redis", "disconnect", "expire", "crash"}
  MaxRuns = 2
SPECIFICATION ServiceSpec
SYMMETRY Symmetry
INVARIANTS TypeOK PermitsBalance RepeatsExcused MovesJobOnce
PROPERTIES FirstReplyStays
