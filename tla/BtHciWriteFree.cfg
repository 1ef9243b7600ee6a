SPECIFICATION Spec
CONSTANTS
  Writers = {w1, w2}
  Urbs = {u1, u2}
  NoUrb = NoUrb
  NoWriter = NoWriter
  WritesInFlight = 1
  MaxResets = 0
  MaxOpens = 0
SYMMETRY Symmetry
INVARIANTS
  FreedOnce
