CONSTANTS
  Confs <- AllConfs
  Faults = {"pin", "spi", "raise"}
  Probes = TRUE
SPECIFICATION Spec
INVARIANTS TypeOK ReadyAtCall
