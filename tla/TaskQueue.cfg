\* Two loops, two tasks, an employee who moves on once or a task asked for twice.
SPECIFICATION MCSpec
CONSTANTS
  provision = provision
  export = export
  alice = alice
  Task = {provision, export}
  Worker = {w1, w2}
  Employee = {alice}
  NoWorker = NoWorker
  NoTask = NoTask
  NoEmployee = NoEmployee
  EmployeeOf <- MCEmployeeOf
  TargetEpoch <- MCTargetEpoch
  MaxAttempts <- MCMaxAttempts
  LeaseTicks = 1
  MaxEpoch = 2
  MaxRevivals <- MCMaxRevivals
INVARIANTS
  OpenRowsAreAccountedFor
PROPERTIES
  OutcomeComesFromItsAttempt
  BoardSpec
  EveryTaskIsSettled
CHECK_DEADLOCK FALSE
