CONSTANTS
  Slots = 2
  MaxFrames = 3
  FrameKinds <- MCKinds
  Confs <- MCConfs
  Faults = TRUE
SPECIFICATION Spec
INVARIANTS TypeOK ServedStatsAreTrue ConfiguredOnAir DeliveredOnceInOrder DeliveredIntact
PROPERTIES RepeatsFaithfully
