SPECIFICATION Spec
CONSTANTS
  Request = {1, 2}
  MaxChange = 1
  MaxTrouble = 1
  Version = {v1, v2}
  Old = v1
  None = None
  MaxTarget = 2
  MaxDecision = 1
  MaxMishap = 1
  Token = {"t1", "t2"}
  Model = {"m1", "m2"}
  MaxLine = 4
  MaxPackage = 2
  MaxFault = 1
INVARIANTS NoSleepOnOldNews NoBlindRetry MergeSettles SettingsSurvive NobodyKeepsAnOldToken
PROPERTIES ChangesArrive DecisionsAreSettled
CHECK_DEADLOCK FALSE
