CONSTANTS
  p1 = p1
  p2 = p2
  p3 = p3
  Pids <- MCPids
  WebSettings <- WebOn
  ByHand = FALSE
  Faults = FALSE
SPECIFICATION FairSpec
PROPERTIES RestartServes
