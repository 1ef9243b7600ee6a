SPECIFICATION FairSpec
CONSTANTS
  Inputs = {raw, ntsc}
  Default = raw
  Invalid = Invalid
  FrameParams = {0, 4}
  RefreshPeriod = 1
  MaxCaptures = 2
  Misuses = {"stream", "stop", "handlers", "input", "remove"}
INVARIANTS
  DmaIntoLive
  ReportedNotWritten
  ReportedWhole
  FramesLineUp
  GivenBack
PROPERTIES
  CaptureResumes
