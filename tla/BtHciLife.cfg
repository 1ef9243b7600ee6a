SPECIFICATION FairSpec
CONSTANTS
  Files = {f1, f2}
  Unlocked = Unlocked
  Drift = 1
INVARIANTS
  NoUseAfterFree
  OpenersCounted
  AwakeWhileOpen
PROPERTIES
  ImplementsSharedDevice
  DisconnectFinishes
  DeviceFreed
