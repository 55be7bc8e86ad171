CONSTANTS
  Files <- SetupFiles
  Number <- Numbers
  Half = 524288
  MaxRuns = 3
SPECIFICATION SetupSpec
INVARIANTS
  SetupTypeOK
  RunsAsWritten
  OnAirAsWritten
  OnAirIsOneConfig
