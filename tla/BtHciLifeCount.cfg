SPECIFICATION Spec
CONSTANTS
  Files = {f1, f2}
  Unlocked = Unlocked
  Drift = 1
INVARIANTS
  OpenCountIsOpeners
