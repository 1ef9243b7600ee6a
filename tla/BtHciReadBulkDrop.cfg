SPECIFICATION Spec
CONSTANTS
  Readers = {r1, r2}
  NoReader = NoReader
  MaxPacket = 2
  SizeMod = 65536
  MaxTransfers = 2
  MaxResets = 0
  MaxOpens = 0
PROPERTIES
  ArrivedIsCopied
