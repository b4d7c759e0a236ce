SPECIFICATION Spec
CONSTANTS
  Eval = {e1, e2}
  Notifier = {n1}
  Channel = {webhook, mail}
  MaxTries = 1
  MaxMove = 3
  MaxTrouble = 2
  a = a
  b = b
  ua = ua
  ub = ub
  Employee = {a, b}
  Device = {d1, d2}
  Nobody = Nobody
  Direct = {d1}
  MaxChange = 1
  MaxPress = 2
  MaxFault = 1
  Worker = {w1, w2}
  User = {ua, ub}
  UserOf <- OwnNames
  NoUser = NoUser
  MaxEpoch = 2
  MaxToggles = 1
  Mishaps = {"crash", "late", "object", "refuse"}
SYMMETRY Symmetry
INVARIANTS StandingConditionsAreOpen ToldMeansHeard ReceivedOnTheApi SettledMeansCurrent
PROPERTIES ResolvedOnlyIfGone
CHECK_DEADLOCK FALSE
