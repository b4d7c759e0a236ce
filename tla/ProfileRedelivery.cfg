\* Files of up to six lines; the package does not offer the model in them.
SPECIFICATION MCSpec
CONSTANTS
  Token = {"t1"}
  Model = {"m2"}
  Own <- FewLines
  MaxPackage = 1
  MaxEdit = 6
  MaxFault = 0
INVARIANT RedeliveryChangesNothing
CHECK_DEADLOCK FALSE
