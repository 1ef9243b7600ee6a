SPECIFICATION FairSpec
CONSTANTS
  Readers = {r1, r2}
  NoReader = NoReader
  MaxPacket = 2
  SizeMod = 65536
  MaxTransfers = 2
  MaxResets = 1
  MaxOpens = 1
INVARIANTS
  AvailableNeverWraps
  OngoingHasUrb
  NoLostWakeup
PROPERTIES
  DisconnectFreesReaders
