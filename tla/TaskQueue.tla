----------------------------- MODULE TaskQueue ------------------------------
(***************************************************************************)
(* The console's task queue (internal/dbstore/tasks.go) and the loop that  *)
(* works it (internal/worker/worker.go).                                   *)
(*                                                                         *)
(* A task row is enqueued under an idempotency key, claimed by one worker  *)
(* under a lease, and closed by the worker that holds the lease.  Workers  *)
(* crash, lose their lease while the handler runs on, get no answer from   *)
(* the database, and find out only when they report.  The console moves    *)
(* an employee to a newer epoch, or an administrator cancels a task, at    *)
(* any moment.  Each action below is one SQL statement or one step of the  *)
(* loop, except that the transaction that moves an epoch is two: the       *)
(* statement that picks (and locks) the work to abandon, and the commit    *)
(* that makes it so.  Under READ COMMITTED other statements run between.   *)
(* What a handler does is left to the modules that use the queue.          *)
(*                                                                         *)
(* A definition marked "Slip" is not part of the model: it is what a       *)
(* plausible mistake would make of the definition after it, kept to show   *)
(* that a property notices.                                                *)
(*                                                                         *)
(* Time: lease_until is kept as the number of ticks left.  next_run_at is  *)
(* left out: a claim may come at any moment a task is due or later.        *)
(***************************************************************************)
EXTENDS Naturals, Sequences

CONSTANTS
  Task,          \* idempotency keys, one task row each
  Worker,        \* worker loops; distinct loops have distinct owner names
  NoWorker,      \* lease_owner is null
  NoTask,        \* the loop is between tasks
  Employee,
  EmployeeOf,    \* [Task -> Employee \cup {NoEmployee}], employee_id
  NoEmployee,    \* employee_id is null: the task has no epoch to outlive
  TargetEpoch,   \* [Task -> Nat], target_epoch
  MaxAttempts,   \* [Task -> Nat \ {0}], max_attempts
  LeaseTicks,    \* the lease a claim takes out
  MaxEpoch,      \* bound: how far an employee's epoch is followed
  MaxRevivals    \* [Task -> Nat], bound: how often a failed task is asked for again

ASSUME QueueAssumption ==
  /\ NoWorker \notin Worker
  /\ NoTask \notin Task
  /\ NoEmployee \notin Employee
  /\ EmployeeOf \in [Task -> Employee \cup {NoEmployee}]
  /\ TargetEpoch \in [Task -> Nat]
  /\ MaxAttempts \in [Task -> Nat \ {0}]
  /\ LeaseTicks \in Nat \ {0}
  /\ MaxEpoch \in Nat
  /\ MaxRevivals \in [Task -> Nat]

VARIABLES
  status,    \* tasks.status, "absent" before the row exists
  attempts,  \* tasks.attempts
  holder,    \* tasks.lease_owner
  lease,     \* tasks.lease_until, in ticks from now; 0 is expired or null
  log,       \* task_attempts, in order: who ran it and how it ended
  epoch,     \* employees.auth_epoch
  move,      \* the open transaction on an employee's account, if any
  locked,    \* the task rows those transactions have locked to abandon them
  run,       \* what each loop has in hand
  revivals,  \* history: how often Enqueue put a failed task back
  late       \* history: the last claim came while a move was uncommitted

taskVars == <<status, attempts, holder, lease, log>>
accountVars == <<epoch, move, locked>>
historyVars == <<revivals, late>>
vars == <<taskVars, accountVars, run, historyVars>>

Open == {"pending", "running", "retry_wait"}
Runnable == {"pending", "retry_wait"}
Closed == {"succeeded", "failed", "superseded"}
Status == {"absent"} \cup Open \cup Closed

\* How an attempt row ends; "open" is ended_at null.
Outcome == {"open", "succeeded", "failed", "retry", "lease_expired"}
Row == [owner : Worker, outcome : Outcome]

\* Offboarding, reopening and re-issuing move the epoch; deleting does not.
Move == {"none", "advance", "delete"}

\* What a handler returned; "none" while it is still running.
Result == {"none", "ok", "retry", "permanent"}
Hand == [task : Task \cup {NoTask}, attempt : Nat, result : Result]
EmptyHand == [task |-> NoTask, attempt |-> 0, result |-> "none"]

Init ==
  /\ status = [t \in Task |-> "absent"]
  /\ attempts = [t \in Task |-> 0]
  /\ holder = [t \in Task |-> NoWorker]
  /\ lease = [t \in Task |-> 0]
  /\ log = [t \in Task |-> <<>>]
  /\ epoch = [e \in Employee |-> 1]
  /\ move = [e \in Employee |-> "none"]
  /\ locked = {}
  /\ run = [w \in Worker |-> EmptyHand]
  /\ revivals = [t \in Task |-> 0]
  /\ late = [t \in Task |-> FALSE]

-----------------------------------------------------------------------------
(* State predicates the statements' WHERE clauses are made of.             *)

Idle(w) == run[w].task = NoTask
Busy(w) == run[w].task # NoTask

\* The employee has moved past the epoch the task was created for.
Stale(t) ==
  /\ EmployeeOf[t] # NoEmployee
  /\ TargetEpoch[t] < epoch[EmployeeOf[t]]

\* An uncommitted transaction is moving the task's employee on.
MoveOpen(t) == EmployeeOf[t] # NoEmployee /\ move[EmployeeOf[t]] = "advance"

\* Slip: the report is matched by task id and status alone.
HoldsLeaseAnyOwner(w, t) == status[t] = "running" /\ lease[t] > 0

\* lease_owner = $2 and status = 'running' and lease_until > now()
HoldsLease(w, t) == status[t] = "running" /\ holder[t] = w /\ lease[t] > 0

Expired(t) == status[t] = "running" /\ lease[t] = 0

RowsOf(e) == {t \in Task : EmployeeOf[t] = e}

OpenBelow(e, below) ==
  {t \in Task : EmployeeOf[t] = e /\ status[t] \in Open /\ TargetEpoch[t] < below}

\* The tasks of T take the status S gives them and their lease is cleared.
CloseTo(T, S) ==
  /\ status' = [t \in Task |-> IF t \in T THEN S[t] ELSE status[t]]
  /\ holder' = [t \in Task |-> IF t \in T THEN NoWorker ELSE holder[t]]
  /\ lease' = [t \in Task |-> IF t \in T THEN 0 ELSE lease[t]]

\* The last attempt row of each task of T that is still open gets outcome o.
EndRows(T, o) ==
  log' = [t \in Task |->
    IF t \in T /\ log[t][attempts[t]].outcome = "open"
      THEN [log[t] EXCEPT ![attempts[t]].outcome = o]
      ELSE log[t]]

\* What a failed attempt makes of a task: retried until the attempts run out.
AfterFailure(t) == IF attempts[t] >= MaxAttempts[t] THEN "failed" ELSE "retry_wait"

-----------------------------------------------------------------------------
(* The console's side.                                                     *)

\* A key seen for the first time inserts a row; a failed row is put back on
\* the queue with its attempts as they are; any other row is left alone.  The
\* epoch the task is for was read from the employee's committed row.
Enqueue(t) ==
  /\ \/ status[t] = "absent" /\ UNCHANGED revivals
     \/ /\ status[t] = "failed"
        /\ revivals[t] < MaxRevivals[t]
        /\ revivals' = [revivals EXCEPT ![t] = @ + 1]
  /\ EmployeeOf[t] # NoEmployee => TargetEpoch[t] <= epoch[EmployeeOf[t]]
  /\ CloseTo({t}, [u \in {t} |-> "pending"])
  /\ UNCHANGED <<attempts, log, accountVars, run, late>>

\* Slip: cancelling does not ask whether the task is still open.
SupersedeAnything(t) ==
  /\ status[t] # "absent"
  /\ t \notin locked
  /\ CloseTo({t}, [u \in {t} |-> "superseded"])
  /\ UNCHANGED <<attempts, log, accountVars, run, historyVars>>

\* An administrator cancels a task; the attempt row is not touched.
Supersede(t) ==
  /\ status[t] \in Open
  /\ t \notin locked
  /\ CloseTo({t}, [u \in {t} |-> "superseded"])
  /\ UNCHANGED <<attempts, log, accountVars, run, historyVars>>

\* The transaction m on e's account updates the employee row, which keeps any
\* other transaction on e out, and abandons the work below the new epoch
\* (deleting abandons the work of the last epoch too).  Nothing of it can be
\* seen before the commit, but the rows are locked.
SupersedeOpenForEmployee(e, m) ==
  /\ m \in Move \ {"none"}
  /\ move[e] = "none"
  /\ m = "advance" => epoch[e] < MaxEpoch
  /\ move' = [move EXCEPT ![e] = m]
  /\ locked' = locked \cup OpenBelow(e, epoch[e] + 1)
  /\ UNCHANGED <<taskVars, epoch, run, historyVars>>

CommitMove(e) ==
  LET T == RowsOf(e) \cap locked IN
  /\ move[e] # "none"
  /\ CloseTo(T, [t \in T |-> "superseded"])
  /\ epoch' = [epoch EXCEPT ![e] = IF move[e] = "advance" THEN @ + 1 ELSE @]
  /\ move' = [move EXCEPT ![e] = "none"]
  /\ locked' = locked \ RowsOf(e)
  /\ UNCHANGED <<attempts, log, run, historyVars>>

\* A later statement of the transaction fails and it is rolled back.
RollbackMove(e) ==
  /\ move[e] # "none"
  /\ move' = [move EXCEPT ![e] = "none"]
  /\ locked' = locked \ RowsOf(e)
  /\ UNCHANGED <<taskVars, epoch, run, historyVars>>

-----------------------------------------------------------------------------
(* The loop's side.                                                        *)

\* One statement: pick a due task that is not stale and not locked, lease it,
\* number the attempt, open its row.  The answer may be lost on the way back;
\* the loop then has nothing in hand and the row stays leased to it.
Claim(w, t) ==
  /\ Idle(w)
  /\ status[t] \in Runnable
  /\ ~Stale(t)
  /\ t \notin locked
  /\ status' = [status EXCEPT ![t] = "running"]
  /\ attempts' = [attempts EXCEPT ![t] = @ + 1]
  /\ holder' = [holder EXCEPT ![t] = w]
  /\ lease' = [lease EXCEPT ![t] = LeaseTicks]
  /\ log' = [log EXCEPT ![t] = Append(@, [owner |-> w, outcome |-> "open"])]
  /\ \/ run' = [run EXCEPT ![w] =
                  [task |-> t, attempt |-> attempts[t] + 1, result |-> "none"]]
     \/ UNCHANGED run
  /\ late' = [late EXCEPT ![t] = MoveOpen(t)]
  /\ UNCHANGED <<accountVars, revivals>>

\* The heartbeat, while the handler runs.  A lapsed lease is not renewed.
\* (A statement on a locked row waits for the commit and then looks again.)
Extend(w) ==
  /\ Busy(w)
  /\ run[w].result = "none"
  /\ HoldsLease(w, run[w].task)
  /\ run[w].task \notin locked
  /\ lease' = [lease EXCEPT ![run[w].task] = LeaseTicks]
  /\ UNCHANGED <<status, attempts, holder, log, accountVars, run, historyVars>>

\* The handler returns: success, a failure worth retrying, or one that is
\* not (a panic and an unregistered kind are permanent failures).
HandlerReturns(w) ==
  /\ Busy(w)
  /\ run[w].result = "none"
  /\ \E r \in Result \ {"none"} : run' = [run EXCEPT ![w].result = r]
  /\ UNCHANGED <<taskVars, accountVars, historyVars>>

\* The loop records its result r with status s and row outcome o.
Report(w, r, s, o) ==
  LET t == run[w].task IN
  /\ Busy(w)
  /\ run[w].result = r
  /\ HoldsLease(w, t)
  /\ t \notin locked
  /\ CloseTo({t}, [u \in {t} |-> s])
  /\ EndRows({t}, o)
  /\ run' = [run EXCEPT ![w] = EmptyHand]
  /\ UNCHANGED <<attempts, accountVars, historyVars>>

Succeed(w) == Report(w, "ok", "succeeded", "succeeded")

FailPermanently(w) == Report(w, "permanent", "failed", "failed")

Fail(w) ==
  LET s == AfterFailure(run[w].task) IN
  Report(w, "retry", s, IF s = "failed" THEN "failed" ELSE "retry")

\* The report is refused because the lease is gone, or the database does not
\* answer in time.  The loop logs the task as lost and goes on.
Lost(w) ==
  /\ Busy(w)
  /\ run[w].result # "none"
  /\ run' = [run EXCEPT ![w] = EmptyHand]
  /\ UNCHANGED <<taskVars, accountVars, historyVars>>

\* The process is killed and started again; it remembers nothing.
Crash(w) ==
  /\ Busy(w)
  /\ run' = [run EXCEPT ![w] = EmptyHand]
  /\ UNCHANGED <<taskVars, accountVars, historyVars>>

\* Slip: the sweep leaves the attempt row open.
ReleaseWithoutRows(w) ==
  LET T == {t \in Task : Expired(t)} IN
  /\ Idle(w)
  /\ T # {}
  /\ T \cap locked = {}
  /\ CloseTo(T, [t \in T |-> AfterFailure(t)])
  /\ UNCHANGED <<attempts, log, accountVars, run, historyVars>>

\* Slip: the sweep looks only at tasks that have an attempt left.
ReleaseIfAttemptsLeft(w) ==
  LET T == {t \in Task : Expired(t) /\ attempts[t] < MaxAttempts[t]} IN
  /\ Idle(w)
  /\ T # {}
  /\ T \cap locked = {}
  /\ CloseTo(T, [t \in T |-> "retry_wait"])
  /\ EndRows(T, "lease_expired")
  /\ UNCHANGED <<attempts, accountVars, run, historyVars>>

\* The sweep, between two tasks: every task whose lease has passed goes back
\* to the queue, or fails if that was its last attempt.
ReleaseExpiredLeases(w) ==
  LET T == {t \in Task : Expired(t)} IN
  /\ Idle(w)
  /\ T # {}
  /\ T \cap locked = {}
  /\ CloseTo(T, [t \in T |-> AfterFailure(t)])
  /\ EndRows(T, "lease_expired")
  /\ UNCHANGED <<attempts, accountVars, run, historyVars>>

Tick ==
  /\ \E t \in Task : lease[t] > 0
  /\ lease' = [t \in Task |-> IF lease[t] > 0 THEN lease[t] - 1 ELSE 0]
  /\ UNCHANGED <<status, attempts, holder, log, accountVars, run, historyVars>>

-----------------------------------------------------------------------------

Finish(w) == Succeed(w) \/ FailPermanently(w) \/ Fail(w) \/ Lost(w)

Next ==
  \/ \E t \in Task : Enqueue(t) \/ Supersede(t)
  \/ \E e \in Employee : \/ \E m \in Move : SupersedeOpenForEmployee(e, m)
                         \/ CommitMove(e)
                         \/ RollbackMove(e)
  \/ \E w \in Worker : \/ \E t \in Task : Claim(w, t)
                       \/ Extend(w)
                       \/ HandlerReturns(w)
                       \/ Finish(w)
                       \/ Crash(w)
                       \/ ReleaseExpiredLeases(w)
  \/ Tick

Spec == Init /\ [][Next]_vars

\* The loop polls for ever and its handlers time out (weak fairness of its
\* steps); it sweeps every SweepEvery between tasks (strong: it is idle again
\* and again, not all the time); transactions end; time passes; and the claim takes due tasks in
\* order of next_run_at, so none is passed over for ever (strong, per task).
Fairness ==
  /\ \A w \in Worker : /\ WF_vars(HandlerReturns(w))
                       /\ WF_vars(Finish(w))
                       /\ SF_vars(ReleaseExpiredLeases(w))
  /\ \A e \in Employee : WF_vars(CommitMove(e) \/ RollbackMove(e))
  /\ WF_vars(Tick)
  /\ \A t \in Task : SF_vars(\E w \in Worker : Claim(w, t))

FairSpec == Spec /\ Fairness

-----------------------------------------------------------------------------

\* The rows have the types their columns have, and every attempt the counter
\* counts has a row (Claim records both in one statement, tasks.go:131-135).
TypeOK ==
  /\ status \in [Task -> Status]
  /\ attempts \in [Task -> Nat]
  /\ holder \in [Task -> Worker \cup {NoWorker}]
  /\ lease \in [Task -> 0 .. LeaseTicks]
  /\ log \in [Task -> Seq(Row)]
  /\ \A t \in Task : Len(log[t]) = attempts[t]
  /\ epoch \in [Employee -> Nat]
  /\ move \in [Employee -> Move]
  /\ locked \in SUBSET Task
  /\ run \in [Worker -> Hand]
  /\ revivals \in [Task -> Nat]
  /\ late \in [Task -> BOOLEAN]

\* What tasks.go:327-329 says of the transaction that moves the epoch: "there
\* is no moment at which the old work is still runnable", so nothing is
\* running for an epoch its employee has left.
NoStaleTaskRuns == \A t \in Task : status[t] = "running" => ~Stale(t)

\* What the code guarantees of it: work for an epoch the employee has left is
\* running only if it was asked for and claimed after the transaction picked
\* the work to abandon and before it committed.  Work that was open then, the
\* running attempts with the rest, is abandoned with the old epoch.
StaleOnlyIfClaimedLate ==
  \A t \in Task : status[t] = "running" /\ Stale(t) => late[t]

\* Success is recorded once: a row says "succeeded" only if it is the last
\* row of a task that is succeeded.  A stale worker reporting late, a sweep
\* or a revival must not leave two successes, or a success and a retry.
SuccessIsRecordedOnce ==
  \A t \in Task : \A i \in 1 .. attempts[t] :
    log[t][i].outcome = "succeeded" => i = attempts[t] /\ status[t] = "succeeded"

\* An attempt row without an end belongs to the attempt that is running, or
\* to one whose task was superseded under it; a crash, a lost report or an
\* expired lease never leaves a row open behind a later attempt.
OpenRowsAreAccountedFor ==
  \A t \in Task : \A i \in 1 .. attempts[t] :
    log[t][i].outcome = "open" =>
      i = attempts[t] /\ status[t] \in {"running", "superseded"}

\* Retrying stops: beyond max_attempts a task runs only when somebody asked
\* for it again after it failed, and then once for each time they asked.
AttemptsAreBounded ==
  \A t \in Task : attempts[t] <= MaxAttempts[t] + revivals[t]

\* A running task is leased by the loop that opened its last row, and only a
\* running task is leased.
LeaseMatchesRow ==
  \A t \in Task :
    IF status[t] = "running"
      THEN /\ attempts[t] > 0
           /\ holder[t] = log[t][attempts[t]].owner
           /\ log[t][attempts[t]].outcome = "open"
      ELSE holder[t] = NoWorker /\ lease[t] = 0

\* What a loop has in hand is an attempt it opened, and if it holds the lease
\* it is the last one: a loop that lost a task and has not noticed can never
\* be taken for the holder of a later attempt.
HandsMatchRows ==
  \A w \in Worker : Busy(w) =>
    LET t == run[w].task IN
    /\ run[w].attempt \in 1 .. attempts[t]
    /\ log[t][run[w].attempt].owner = w
    /\ status[t] = "running" /\ holder[t] = w => run[w].attempt = attempts[t]

\* A task on the queue has an attempt left; one that is not has used no more
\* than it was given.
AttemptsLeft ==
  \A t \in Task :
    status[t] \in Runnable \cup {"absent"} => attempts[t] < MaxAttempts[t] + revivals[t]

\* While an employee is being moved on, every attempt running for the epoch
\* being left is locked, to be abandoned, or was claimed since.
MoveCoversRunning ==
  \A t \in Task :
    status[t] = "running" /\ MoveOpen(t) /\ TargetEpoch[t] <= epoch[EmployeeOf[t]] =>
      t \in locked \/ late[t]

\* A locked row is open and belongs to an employee with a transaction.
LocksBelongToMoves ==
  \A t \in locked : /\ status[t] \in Open
                   /\ EmployeeOf[t] \in Employee
                   /\ move[EmployeeOf[t]] # "none"

\* The inductive invariant the proofs rest on.
QueueInv ==
  /\ TypeOK
  /\ StaleOnlyIfClaimedLate
  /\ MoveCoversRunning
  /\ LocksBelongToMoves
  /\ SuccessIsRecordedOnce
  /\ OpenRowsAreAccountedFor
  /\ AttemptsAreBounded
  /\ AttemptsLeft
  /\ LeaseMatchesRow
  /\ HandsMatchRows

\* Succeeded and superseded are final, and a failed task comes back only
\* through Enqueue: no report, sweep or claim reopens a closed task.
ClosedStaysClosed ==
  [][\A t \in Task :
       status[t] \in Closed /\ status'[t] # status[t] =>
         status[t] = "failed" /\ status'[t] = "pending"]_vars

\* How a handler's attempt ended is written by the loop that ran that very
\* attempt, never by a loop that held the task earlier and lost it
\* (worker.go:321-324, "this handler's result will be refused").
OutcomeComesFromItsAttempt ==
  [][\A t \in Task : \A i \in 1 .. attempts[t] :
       log[t][i].outcome = "open" /\ log'[t][i].outcome \in {"succeeded", "failed", "retry"} =>
         \E w \in Worker : /\ run[w].task = t
                           /\ run[w].attempt = i
                           /\ log[t][i].owner = w
                           /\ run'[w] = EmptyHand]_vars

\* Whatever crashes, is lost or times out, a task that can still be claimed
\* is closed in the end.  (A task left behind by its epoch is not claimed.)
EveryTaskIsSettled ==
  \A t \in Task : status[t] \in Open ~> (status[t] \in Closed \/ Stale(t))

\* Refinement: seen without leases and rows, the queue is a JobBoard.
BoardStatus(s) ==
  CASE s \in Runnable   -> "waiting"
    [] s = "running"    -> "held"
    [] s = "succeeded"  -> "done"
    [] s = "superseded" -> "dropped"
    [] OTHER            -> s

BoardState == [t \in Task |-> BoardStatus(status[t])]

Board == INSTANCE JobBoard WITH Job <- Task, state <- BoardState

\* The queue keeps the promise JobBoard states: one holder, reports only from
\* the holder, done and dropped final, whatever interleaving of leases,
\* crashes and epochs produced it.
BoardSpec == Board!BoardSpec
=============================================================================
