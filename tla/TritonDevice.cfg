SPECIFICATION Spec
CONSTANTS
  Files = {f1, f2}
  Callers = {t1, t2}
  Peer = Peer
  Nobody = Nobody
  Kinds = {"attach", "lock"}
  MaxRequests = 2
  UintMax = 7
  MaxCount = 2
SYMMETRY Symmetry
CONSTRAINT Bounded
INVARIANTS
  DeviceReady CountIsFiles GivenBack RequestsMatched
