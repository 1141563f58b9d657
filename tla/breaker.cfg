CONSTANTS
  Req = {p1, p2, p3}
  Threshold = 2
SPECIFICATION LiveSpec
INVARIANTS TypeOK OpensAtThreshold HalfOpenProbed
PROPERTIES ProbeDecides
