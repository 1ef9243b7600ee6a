SPECIFICATION Spec
CONSTANTS
  Writers = {w1, w2}
  Urbs = {u1, u2, u3}
  NoUrb = NoUrb
  NoWriter = NoWriter
  WritesInFlight = 1
  MaxResets = 1
  MaxOpens = 1
SYMMETRY Symmetry
INVARIANTS
  BufferOwnership
  NothingLeaks
  SemaphoreAccounting
  NoLostCompletion
