CONSTANTS
  DroneID = {d1}
  Req = {p1, p2}
  Nil = Nil
  TTL = 2
  Delay = 1
  MaxReports = 2
SPECIFICATION LiveSpec
INVARIANTS TypeOK CacheBoundedStale DetailsCoherent
PROPERTIES Settles
