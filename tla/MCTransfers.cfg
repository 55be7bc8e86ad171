CONSTANTS
  Confs <- ResetConfs
  Faults = {"pin", "spi"}
  Probes = FALSE
SPECIFICATION Spec
PROPERTIES TransfersAreAtomic
