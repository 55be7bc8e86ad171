CONSTANTS
  Slots = 1
  MaxFrames = 2
  FrameKinds <- MCKinds
  Confs <- MCConfs
  Faults = FALSE
SPECIFICATION FairSpec
INVARIANTS CanStep
PROPERTIES EndsOnlyFor WaitingFrameServed StopObeyed OwedIsSent
