\* One machine, two people, one loop: any two decisions or mishaps of a story, on
\* either channel.
SPECIFICATION MCFairSpec
CONSTANTS
  a = a
  b = b
  ua = ua
  ub = ub
  Employee = {a, b}
  Device = {d1}
  Worker = {w1}
  User = {ua, ub}
  UserOf <- OwnNames
  Nobody = Nobody
  NoUser = NoUser
  Staff = {a, b}
  Desks = {d1}
  Present = {ua}
  Coders = {ua}
  Channels = {"oss", "api"}
  MaxEpoch = 3
  MaxEvents = 2
  MaxRestarts = 1
  MaxToggles = 1
  Mishaps = {"crash", "late", "object", "refuse", "outage", "silence", "files", "restart", "deny"}
INVARIANTS NoSessionOutlivesItsFile FilesAreTheirOwners
PROPERTIES RemovedForAReason RestartReachesItsOwner MachinesSettle
CHECK_DEADLOCK FALSE
