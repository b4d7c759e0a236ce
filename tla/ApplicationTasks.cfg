SPECIFICATION FairSpec
CONSTANTS
  App = {a, b}
  NoApp = NoApp
  Version = {v1, v2}
  NoVersion = NoVersion
  Admin = {d}
  MaxTask = 2
  Mishaps = {"crash", "stop", "error", "late", "verbose"}
  MaxMishaps = 2
PROPERTIES
  SuccessMeansInstalled
  EndedByItsAttempt
  EveryInstallIsSettled
CHECK_DEADLOCK FALSE
