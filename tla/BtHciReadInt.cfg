SPECIFICATION FairSpec
CONSTANTS
  Readers = {r1, r2}
  Nobody = Nobody
  Core = Core
  MaxEvent = 2
  SizeMod = 65536
  MaxTransfers = 3
  MaxResets = 1
  MaxHciOpens = 1
  MaxAclOpens = 1
INVARIANTS
  ActiveUrbLeftAlone
  NoLostWakeup
  EventKeptIntact
PROPERTIES
  EventsHandedOut
  ResetNoticePreserved
  DisconnectFreesReaders
  ResetCompletes
