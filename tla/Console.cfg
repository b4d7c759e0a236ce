SPECIFICATION Spec
CONSTANTS
  Contact = {c1, c2}
  Manager = {c1}
  Admin = {a1}
  Nobody = Nobody
  Kinds = {"quota", "environment"}
  MaxVersion = 6
  MaxMove = 1
  Account = {a1, a2, o}
  First = a1
  Administers = {a1, a2}
  Careless = {a1}
  Request = {1, 2}
  MaxFailures = 2
  MaxEvent = 3
  FewEvents = 1
  Credential = {k1, k2}
  MaxKey = 3
  MaxSeal = 2
  MaxUpdate = 2
  MaxFault = 2
  Person = {p1, p2}
  Existing = {p1}
  Choice = {{"m1"}, {"m1", "m2"}}
  Retirable = {"m1"}
  MaxOperation = 3
  MaxOutage = 1
INVARIANTS DoneIsAgreed GuessesAreBounded SomebodyCanUndo KeysAreNeverLost RollbackCopyKept DoneMeansDelivered LeaversAreShutOut
PROPERTIES CustomerIsHeard
CHECK_DEADLOCK FALSE
