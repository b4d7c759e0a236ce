\* Two administrators, nobody else, switch each other off.
SPECIFICATION Spec
CONSTANTS
  Account = {a1, a2}
  First = a1
  Administers = {a1, a2}
  Careless = {}
  Request = {1, 2}
  MaxFailures = 2
  MaxEvent = 4
INVARIANT SomebodyCanSignIn
CHECK_DEADLOCK FALSE
