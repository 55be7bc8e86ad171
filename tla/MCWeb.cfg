CONSTANTS
  c1 = c1
  c2 = c2
  Clients = {c1, c2}
  Requests <- Mixed
  Confs <- SomeConfs
  Backlog = 2
  PerTick = 2
  Limit = 2
  Buffer = 2
SPECIFICATION Spec
SYMMETRY Interchangeable
INVARIANTS TypeOK AnswersFit GateHolds TurnBounded StopsWithinTick
PROPERTIES ServesInOrder
