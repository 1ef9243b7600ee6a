SPECIFICATION FairSpec
CONSTANTS
  Threads = {t1, t2}
  MaxWrites = 2
  MaxSends = 2
INVARIANTS
  SuccessMeansTaken
  NoLostAnswer
  MessageIntact
  NoLostNotice
PROPERTIES
  WriteReturns
  ImplementsChannel
CHECK_DEADLOCK FALSE
