CONSTANTS
  c1 = c1
  c2 = c2
  Clients = {c1, c2}
  Requests <- Few
  Confs <- OneConf
  Backlog = 2
  PerTick = 1
  Limit = 2
  Buffer = 2
SPECIFICATION FairSpec
INVARIANTS CanStep
PROPERTIES RadioTurns QueuedIsServed
