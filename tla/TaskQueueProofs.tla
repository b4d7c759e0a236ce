-------------------------- MODULE TaskQueueProofs ---------------------------
(***************************************************************************)
(* Proofs about TaskQueue, for every set of tasks, workers and employees   *)
(* and every value of the bounds.                                          *)
(***************************************************************************)
EXTENDS TaskQueue, TLAPS

\* The epoch and type part of the queue's steps that only touch the columns
\* CloseTo writes: new statuses must be statuses.
LEMMA CloseToType ==
  ASSUME TypeOK,
         NEW T \in SUBSET Task, NEW S, \A t \in T : S[t] \in Status,
         CloseTo(T, S)
  PROVE  /\ status' \in [Task -> Status]
         /\ holder' \in [Task -> Worker \cup {NoWorker}]
         /\ lease' \in [Task -> 0 .. LeaseTicks]
  BY QueueAssumption DEF TypeOK, CloseTo, QueueAssumption

\* What EndRows does to the rows: owners and lengths stay, and the one row it
\* may change is the last row of a task of T, from open to o.
LEMMA EndRowsEffect ==
  ASSUME TypeOK,
         NEW T \in SUBSET Task, NEW o \in Outcome,
         \A t \in T : attempts[t] > 0,
         EndRows(T, o)
  PROVE  /\ log' \in [Task -> Seq(Row)]
         /\ \A t \in Task :
              /\ Len(log'[t]) = Len(log[t])
              /\ \A i \in 1 .. attempts[t] :
                   /\ log'[t][i].owner = log[t][i].owner
                   /\ log'[t][i].outcome =
                        IF t \in T /\ i = attempts[t] /\ log[t][i].outcome = "open"
                          THEN o ELSE log[t][i].outcome
<1> SUFFICES ASSUME NEW t \in Task
             PROVE  /\ log'[t] \in Seq(Row)
                    /\ Len(log'[t]) = Len(log[t])
                    /\ \A i \in 1 .. attempts[t] :
                         /\ log'[t][i].owner = log[t][i].owner
                         /\ log'[t][i].outcome =
                              IF t \in T /\ i = attempts[t] /\ log[t][i].outcome = "open"
                                THEN o ELSE log[t][i].outcome
  BY DEF EndRows
<1>1. /\ log[t] \in Seq(Row) /\ Len(log[t]) = attempts[t] /\ attempts[t] \in Nat
  BY DEF TypeOK
<1>2. \A i \in 1 .. attempts[t] : log[t][i] \in Row
  BY <1>1
<1>3. CASE t \in T /\ log[t][attempts[t]].outcome = "open"
  <2> DEFINE n == attempts[t]
             r == [log[t][n] EXCEPT !.outcome = o]
  <2>1. n \in 1 .. Len(log[t])
    BY <1>1, <1>3
  <2>2. log'[t] = [log[t] EXCEPT ![n].outcome = o]
    BY <1>3 DEF EndRows
  <2>3. log'[t] = [log[t] EXCEPT ![n] = r]
    BY <2>2
  <2>4. r \in Row /\ r.owner = log[t][n].owner /\ r.outcome = o
    BY <1>1, <1>2, <2>1 DEF Row
  <2> HIDE DEF r
  <2>5. log'[t] \in Seq(Row) /\ Len(log'[t]) = Len(log[t])
    BY <1>1, <2>1, <2>3, <2>4
  <2>6. \A i \in 1 .. n : log'[t][i] = IF i = n THEN r ELSE log[t][i]
    BY <1>1, <2>1, <2>3
  <2> QED
    BY <1>3, <2>4, <2>5, <2>6
<1>4. CASE ~(t \in T /\ log[t][attempts[t]].outcome = "open")
  <2>1. log'[t] = log[t]
    BY <1>4 DEF EndRows
  <2> QED
    BY <1>1, <1>4, <2>1
<1> QED
  BY <1>3, <1>4

-----------------------------------------------------------------------------
(* QueueInv is inductive: one lemma per action.                            *)

LEMMA InitQueueInv == Init => QueueInv
  BY QueueAssumption
  DEF QueueAssumption, Init, QueueInv, TypeOK, StaleOnlyIfClaimedLate, MoveCoversRunning,
      LocksBelongToMoves, SuccessIsRecordedOnce, OpenRowsAreAccountedFor,
      AttemptsAreBounded, AttemptsLeft, LeaseMatchesRow, HandsMatchRows, Status, Open,
      Closed, Hand, EmptyHand, Result, Busy, Runnable, Move

\* Steps that close or requeue tasks of T without touching their rows.
LEMMA CloseWithoutRows ==
  ASSUME QueueInv,
         NEW T \in SUBSET Task, NEW s \in {"pending", "superseded"},
         NEW S, \A t \in T : S[t] = s, CloseTo(T, S),
         UNCHANGED <<attempts, log, run>>,
         epoch' \in [Employee -> Nat], move' \in [Employee -> Move], UNCHANGED late,
         revivals' \in [Task -> Nat], \A t \in Task : revivals'[t] >= revivals[t],
         locked' \in SUBSET Task, T \cap locked' = {},
         \A t \in Task \ T : status[t] = "running" /\ Stale(t)' => late[t],
         (MoveCoversRunning /\ LocksBelongToMoves)',
         \A t \in T : status[t] # "succeeded",
         \A t \in T : \A i \in 1 .. attempts[t] :
           log[t][i].outcome = "open" => s = "superseded",
         s = "pending" => \A t \in T : attempts[t] < MaxAttempts[t] + revivals'[t]
  PROVE  QueueInv'
<1> USE QueueAssumption DEF QueueAssumption
<1>1. TypeOK'
  BY CloseToType DEF QueueInv, TypeOK, Status, Open, Closed
<1>2. \A t \in Task : status'[t] = "running" => t \notin T /\ status[t] = "running"
  BY DEF CloseTo
<1>3. StaleOnlyIfClaimedLate'
  BY <1>2 DEF StaleOnlyIfClaimedLate
<1>4. SuccessIsRecordedOnce'
  BY DEF QueueInv, SuccessIsRecordedOnce, CloseTo, TypeOK
<1>5. OpenRowsAreAccountedFor'
  BY DEF QueueInv, OpenRowsAreAccountedFor, CloseTo, TypeOK
<1>6. AttemptsAreBounded'
  BY DEF QueueInv, AttemptsAreBounded, TypeOK
<1>7. AttemptsLeft'
  BY DEF QueueInv, AttemptsLeft, CloseTo, TypeOK, Runnable
<1>8. LeaseMatchesRow'
  BY DEF QueueInv, LeaseMatchesRow, CloseTo, TypeOK
<1>9. HandsMatchRows'
  BY <1>2 DEF QueueInv, HandsMatchRows, CloseTo, TypeOK, Busy, Hand
<1> QED
  BY <1>1, <1>3, <1>4, <1>5, <1>6, <1>7, <1>8, <1>9 DEF QueueInv

\* The locks and moves are as they were, and T holds no locked row.
LEMMA LocksKept ==
  ASSUME QueueInv, NEW T \in SUBSET Task, T \cap locked = {},
         UNCHANGED <<accountVars, late>>,
         \A t \in Task \ T : status'[t] = status[t],
         \A t \in T : status'[t] # "running"
  PROVE  (MoveCoversRunning /\ LocksBelongToMoves)'
  BY DEF QueueInv, MoveCoversRunning, LocksBelongToMoves, MoveOpen, accountVars, TypeOK

LEMMA EnqueueInv ==
  ASSUME QueueInv, NEW t \in Task, Enqueue(t)
  PROVE  QueueInv'
<1> USE QueueAssumption DEF QueueAssumption
<1> DEFINE T == {t}
           S == [u \in T |-> "pending"]
<1>1. /\ revivals' \in [Task -> Nat]
      /\ \A u \in Task : revivals'[u] >= revivals[u]
      /\ attempts[t] < MaxAttempts[t] + revivals'[t]
  <2>1. /\ revivals \in [Task -> Nat] /\ revivals[t] \in Nat
        /\ attempts[t] \in Nat /\ MaxAttempts[t] \in Nat
    BY DEF QueueInv, TypeOK
  <2>2. CASE status[t] = "absent" /\ UNCHANGED revivals
    BY <2>1, <2>2 DEF QueueInv, AttemptsLeft
  <2>3. CASE status[t] = "failed" /\ revivals' = [revivals EXCEPT ![t] = @ + 1]
    BY <2>1, <2>3 DEF QueueInv, AttemptsAreBounded
  <2> QED
    BY <2>2, <2>3 DEF Enqueue
<1>2. \A i \in 1 .. attempts[t] : log[t][i].outcome # "open"
  BY DEF Enqueue, QueueInv, OpenRowsAreAccountedFor
<1>3. \A u \in Task \ {t} : status[u] = "running" /\ Stale(u)' => late[u]
  BY DEF Enqueue, QueueInv, StaleOnlyIfClaimedLate, Stale, accountVars
<1>4. /\ CloseTo(T, S) /\ UNCHANGED <<attempts, log, run, late, accountVars>>
      /\ status[t] \notin Open /\ status[t] # "succeeded"
  BY DEF Enqueue, Open
<1>5. /\ epoch' \in [Employee -> Nat] /\ move' \in [Employee -> Move]
      /\ locked' \in SUBSET Task /\ T \cap locked = {} /\ locked' = locked
  BY <1>4 DEF QueueInv, TypeOK, accountVars, LocksBelongToMoves
<1>7. (MoveCoversRunning /\ LocksBelongToMoves)'
  <2>1. status'[t] = "pending" /\ \A u \in Task \ T : status'[u] = status[u]
    BY <1>4 DEF CloseTo
  <2> QED
    BY <1>4, <1>5, <2>1, LocksKept
<1>6. T \in SUBSET Task /\ (\A u : u \in T <=> u = t) /\ \A u \in T : S[u] = "pending"
  OBVIOUS
<1> HIDE DEF T, S
<1> QED
  BY <1>1, <1>2, <1>3, <1>4, <1>5, <1>6, <1>7, CloseWithoutRows

LEMMA SupersedeInv ==
  ASSUME QueueInv, NEW t \in Task, Supersede(t)
  PROVE  QueueInv'
<1> USE QueueAssumption DEF QueueAssumption
<1> DEFINE T == {t}
           S == [u \in T |-> "superseded"]
<1>1. /\ CloseTo(T, S) /\ UNCHANGED <<attempts, log, run, accountVars, historyVars>>
      /\ status[t] # "succeeded" /\ t \notin locked
  BY DEF Supersede, Open
<1>2. /\ revivals' \in [Task -> Nat] /\ \A u \in Task : revivals'[u] >= revivals[u]
      /\ epoch' \in [Employee -> Nat] /\ move' \in [Employee -> Move]
      /\ locked' \in SUBSET Task /\ locked' = locked /\ late' = late
  BY <1>1 DEF QueueInv, TypeOK, accountVars, historyVars
<1>3. \A u \in Task \ {t} : status[u] = "running" /\ Stale(u)' => late[u]
  BY <1>1 DEF QueueInv, StaleOnlyIfClaimedLate, Stale, accountVars
<1>4. /\ T \in SUBSET Task /\ (\A u : u \in T <=> u = t) /\ T \cap locked = {}
      /\ \A u \in T : S[u] = "superseded"
  BY <1>1
<1>5. (MoveCoversRunning /\ LocksBelongToMoves)'
  <2>1. status'[t] = "superseded" /\ \A u \in Task \ T : status'[u] = status[u]
    BY <1>1 DEF CloseTo
  <2> QED
    BY <1>1, <1>2, <1>4, <2>1, LocksKept
<1> HIDE DEF T, S
<1> QED
  BY <1>1, <1>2, <1>3, <1>4, <1>5, CloseWithoutRows

\* Beginning a move covers every attempt that is running for the old epoch.
LEMMA BeginMoveInv ==
  ASSUME QueueInv, NEW e \in Employee, NEW m \in Move, SupersedeOpenForEmployee(e, m)
  PROVE  QueueInv'
<1> USE QueueAssumption DEF QueueAssumption
<1> DEFINE T == OpenBelow(e, epoch[e] + 1)
<1>1. /\ move' = [move EXCEPT ![e] = m] /\ m # "none" /\ locked' = locked \cup T
      /\ UNCHANGED <<taskVars, epoch, run, historyVars>>
  BY DEF SupersedeOpenForEmployee
<1>2. TypeOK
  BY DEF QueueInv
<1>3. T \in SUBSET Task /\ \A t \in T : EmployeeOf[t] = e /\ status[t] \in Open
  BY DEF OpenBelow
<1>4. MoveCoversRunning'
  <2> SUFFICES ASSUME NEW t \in Task, status[t] = "running", MoveOpen(t)',
                      TargetEpoch[t] <= epoch[EmployeeOf[t]]
               PROVE  t \in locked' \/ late[t]
    BY <1>1 DEF MoveCoversRunning, taskVars, historyVars
  <2>1. CASE EmployeeOf[t] = e
    <3>1. epoch[e] \in Nat /\ TargetEpoch[t] \in Nat
      BY <1>2 DEF TypeOK
    <3>2. t \in T
      BY <2>1, <3>1 DEF OpenBelow, Open
    <3> QED
      BY <1>1, <3>2
  <2>2. CASE EmployeeOf[t] # e
    <3>1. MoveOpen(t)
      BY <1>1, <1>2, <2>2 DEF MoveOpen, TypeOK
    <3> QED
      BY <1>1, <3>1 DEF QueueInv, MoveCoversRunning
  <2> QED
    BY <2>1, <2>2
<1>5. LocksBelongToMoves'
  BY <1>1, <1>2, <1>3 DEF QueueInv, LocksBelongToMoves, TypeOK, taskVars
<1>6. TypeOK'
  BY <1>1, <1>2, <1>3 DEF TypeOK, taskVars, historyVars
<1> QED
  BY <1>1, <1>4, <1>5, <1>6
  DEF QueueInv, StaleOnlyIfClaimedLate, Stale, SuccessIsRecordedOnce,
      OpenRowsAreAccountedFor, AttemptsAreBounded, AttemptsLeft, LeaseMatchesRow,
      HandsMatchRows, Busy, taskVars, historyVars

LEMMA RollbackMoveInv ==
  ASSUME QueueInv, NEW e \in Employee, RollbackMove(e)
  PROVE  QueueInv'
<1>1. /\ move' = [move EXCEPT ![e] = "none"] /\ locked' = locked \ RowsOf(e)
      /\ UNCHANGED <<taskVars, epoch, run, historyVars>>
  BY DEF RollbackMove
<1>2. TypeOK'
  BY <1>1 DEF QueueInv, TypeOK, taskVars, historyVars, Move
<1>3. MoveCoversRunning'
  <2> SUFFICES ASSUME NEW t \in Task, status[t] = "running", MoveOpen(t)',
                      TargetEpoch[t] <= epoch[EmployeeOf[t]]
               PROVE  t \in locked' \/ late[t]
    BY <1>1 DEF MoveCoversRunning, taskVars, historyVars
  <2>1. EmployeeOf[t] # e /\ MoveOpen(t)
    BY <1>1, QueueAssumption DEF QueueAssumption, MoveOpen, QueueInv, TypeOK
  <2> QED
    BY <1>1, <2>1 DEF QueueInv, MoveCoversRunning, RowsOf
<1>4. LocksBelongToMoves'
  BY <1>1 DEF QueueInv, LocksBelongToMoves, TypeOK, taskVars, RowsOf
<1> QED
  BY <1>1, <1>2, <1>3, <1>4
  DEF QueueInv, StaleOnlyIfClaimedLate, Stale, SuccessIsRecordedOnce,
      OpenRowsAreAccountedFor, AttemptsAreBounded, AttemptsLeft, LeaseMatchesRow,
      HandsMatchRows, Busy, taskVars, historyVars

\* Committing leaves nothing running behind the new epoch but what was claimed
\* while the move was under way.
LEMMA CommitMoveInv ==
  ASSUME QueueInv, NEW e \in Employee, CommitMove(e)
  PROVE  QueueInv'
<1> USE QueueAssumption DEF QueueAssumption
<1> DEFINE T == RowsOf(e) \cap locked
           S == [t \in T |-> "superseded"]
<1>1. /\ CloseTo(T, S) /\ UNCHANGED <<attempts, log, run, historyVars>>
      /\ move' = [move EXCEPT ![e] = "none"] /\ locked' = locked \ RowsOf(e)
      /\ epoch' = [epoch EXCEPT ![e] = IF move[e] = "advance" THEN @ + 1 ELSE @]
  BY DEF CommitMove
<1>2. TypeOK /\ MoveCoversRunning /\ LocksBelongToMoves /\ StaleOnlyIfClaimedLate
  BY DEF QueueInv
<1>3. /\ T \in SUBSET Task /\ (\A t \in T : EmployeeOf[t] = e /\ status[t] \in Open)
      /\ \A t \in T : S[t] = "superseded"
  BY <1>2 DEF RowsOf, LocksBelongToMoves
<1>4. /\ move' \in [Employee -> Move] /\ locked' \in SUBSET Task /\ T \cap locked' = {}
      /\ late' = late /\ revivals' \in [Task -> Nat]
      /\ \A t \in Task : revivals'[t] >= revivals[t]
  BY <1>1, <1>2 DEF TypeOK, historyVars, Move
<1>5. /\ epoch \in [Employee -> Nat] /\ epoch' \in [Employee -> Nat]
      /\ \A f \in Employee \ {e} : epoch'[f] = epoch[f]
      /\ move[e] # "advance" => epoch'[e] = epoch[e]
      /\ move[e] = "advance" => epoch'[e] = epoch[e] + 1
  <2>1. epoch \in [Employee -> Nat]
    BY <1>2 DEF TypeOK
  <2>2. CASE move[e] = "advance"
    BY <1>1, <2>1, <2>2
  <2>3. CASE move[e] # "advance"
    BY <1>1, <2>1, <2>3
  <2> QED
    BY <2>1, <2>2, <2>3
<1>6. \A u \in Task : /\ u \in T => status'[u] = "superseded"
                     /\ u \notin T => status'[u] = status[u]
  BY <1>1, <1>3 DEF CloseTo
<1>13. \A u \in Task : status'[u] = "running" => status[u] = "running"
  BY <1>1, <1>3 DEF CloseTo
<1>12. \A u \in Task : u \in T <=> EmployeeOf[u] = e /\ u \in locked
  BY DEF RowsOf
<1> HIDE DEF S, T
<1>7. ASSUME NEW t \in Task \ T, status[t] = "running", Stale(t)'
      PROVE  late[t]
  <2>1. CASE EmployeeOf[t] = e /\ move[e] = "advance"
    <3>1. TargetEpoch[t] \in Nat /\ epoch[e] \in Nat /\ TargetEpoch[t] < epoch[e] + 1
      BY <1>5, <1>7, <2>1 DEF Stale
    <3>2. MoveOpen(t) /\ TargetEpoch[t] <= epoch[e] /\ t \notin locked
      BY <1>7, <1>12, <2>1, <3>1, QueueAssumption DEF QueueAssumption, MoveOpen
    <3> QED
      BY <1>2, <1>7, <2>1, <3>2 DEF MoveCoversRunning
  <2>2. CASE ~(EmployeeOf[t] = e /\ move[e] = "advance")
    <3>1. epoch'[EmployeeOf[t]] = epoch[EmployeeOf[t]] /\ EmployeeOf[t] # NoEmployee
      BY <1>5, <1>7, <2>2 DEF Stale
    <3>2. Stale(t)
      BY <1>7, <3>1 DEF Stale
    <3> QED
      BY <1>2, <1>7, <3>2 DEF StaleOnlyIfClaimedLate
  <2> QED
    BY <2>1, <2>2
<1>8. MoveCoversRunning'
  <2> SUFFICES ASSUME NEW t \in Task, status'[t] = "running", MoveOpen(t)',
                      TargetEpoch[t] <= epoch'[EmployeeOf[t]]
               PROVE  t \in locked' \/ late[t]
    BY <1>4 DEF MoveCoversRunning
  <2>1. EmployeeOf[t] # e /\ MoveOpen(t) /\ EmployeeOf[t] \in Employee
    BY <1>1, <1>2 DEF MoveOpen, TypeOK
  <2>2. epoch'[EmployeeOf[t]] = epoch[EmployeeOf[t]]
    BY <1>5, <2>1
  <2>4. status[t] = "running"
    BY <1>13
  <2>3. t \in locked \/ late[t]
    BY <1>2, <2>1, <2>2, <2>4 DEF MoveCoversRunning
  <2> QED
    BY <1>1, <2>1, <2>3 DEF RowsOf
<1>9. LocksBelongToMoves'
  <2> SUFFICES ASSUME NEW t \in locked'
               PROVE  /\ status'[t] \in Open /\ EmployeeOf[t] \in Employee
                      /\ move'[EmployeeOf[t]] # "none"
    BY DEF LocksBelongToMoves
  <2>1. t \in locked /\ t \in Task /\ t \notin T /\ EmployeeOf[t] # e
    BY <1>1, <1>2, <1>12 DEF RowsOf, TypeOK
  <2> QED
    BY <1>1, <1>2, <1>6, <2>1 DEF LocksBelongToMoves, TypeOK
<1>10. \A t \in T : status[t] # "succeeded"
  BY <1>3 DEF Open
<1>11. (MoveCoversRunning /\ LocksBelongToMoves)'
  BY <1>8, <1>9
<1> QED
  BY <1>1, <1>3, <1>4, <1>5, <1>7, <1>10, <1>11, CloseWithoutRows

LEMMA ClaimInv ==
  ASSUME QueueInv, NEW w \in Worker, NEW t \in Task, Claim(w, t)
  PROVE  QueueInv'
<1> USE QueueAssumption DEF QueueAssumption
<1> DEFINE row == [owner |-> w, outcome |-> "open"]
           n == attempts[t] + 1
<1>1. /\ row \in Row /\ row.owner = w /\ row.outcome = "open"
  BY DEF Row, Outcome
<1>2. /\ log' \in [Task -> Seq(Row)]
      /\ log'[t] = Append(log[t], row)
      /\ Len(log'[t]) = n
      /\ log'[t][n] = row
      /\ \A i \in 1 .. attempts[t] : log'[t][i] = log[t][i]
      /\ \A u \in Task \ {t} : log'[u] = log[u]
  <2>1. log[t] \in Seq(Row) /\ Len(log[t]) = attempts[t]
    BY DEF QueueInv, TypeOK
  <2>2. log' = [log EXCEPT ![t] = Append(log[t], row)]
    BY DEF Claim
  <2>3. Append(log[t], row) \in Seq(Row)
    BY <1>1, <2>1
  <2> HIDE DEF row
  <2> QED
    BY <2>1, <2>2, <2>3 DEF QueueInv, TypeOK
<1> HIDE DEF row
<1>3. /\ attempts[t] \in Nat /\ attempts' = [attempts EXCEPT ![t] = n]
      /\ attempts'[t] = n /\ \A u \in Task \ {t} : attempts'[u] = attempts[u]
      /\ status[t] \in Runnable
      /\ status'[t] = "running" /\ \A u \in Task \ {t} : status'[u] = status[u]
      /\ holder'[t] = w /\ \A u \in Task \ {t} : holder'[u] = holder[u]
      /\ lease'[t] = LeaseTicks /\ \A u \in Task \ {t} : lease'[u] = lease[u]
      /\ late' = [late EXCEPT ![t] = MoveOpen(t)]
      /\ ~Stale(t) /\ t \notin locked /\ UNCHANGED <<epoch, move, locked, revivals>>
  BY DEF Claim, QueueInv, TypeOK, accountVars
<1>4. TypeOK'
  <2>1. run' \in [Worker -> Hand]
    <3>1. [task |-> t, attempt |-> n, result |-> "none"] \in Hand
      BY <1>3 DEF Hand, Result
    <3> QED
      BY <3>1 DEF Claim, QueueInv, TypeOK
  <2>2. /\ status' \in [Task -> Status] /\ attempts' \in [Task -> Nat]
        /\ holder' \in [Task -> Worker \cup {NoWorker}]
        /\ lease' \in [Task -> 0 .. LeaseTicks]
        /\ epoch' \in [Employee -> Nat] /\ revivals' \in [Task -> Nat]
        /\ move' \in [Employee -> Move] /\ locked' \in SUBSET Task
        /\ late' \in [Task -> BOOLEAN]
    BY <1>3 DEF Claim, QueueInv, TypeOK, Status, Open, MoveOpen
  <2>3. \A u \in Task : Len(log'[u]) = attempts'[u]
    BY <1>2, <1>3 DEF QueueInv, TypeOK
  <2> QED
    BY <1>2, <2>1, <2>2, <2>3 DEF TypeOK
<1>5. StaleOnlyIfClaimedLate' /\ MoveCoversRunning'
  <2> SUFFICES ASSUME NEW u \in Task, status'[u] = "running"
               PROVE  /\ Stale(u) => late'[u]
                      /\ MoveOpen(u) /\ TargetEpoch[u] <= epoch[EmployeeOf[u]] =>
                           u \in locked \/ late'[u]
    BY <1>3 DEF StaleOnlyIfClaimedLate, MoveCoversRunning, Stale, MoveOpen
  <2>1. late \in [Task -> BOOLEAN]
    BY DEF QueueInv, TypeOK
  <2>2. CASE u = t
    BY <1>3, <2>1, <2>2
  <2>3. CASE u # t
    BY <1>3, <2>1, <2>3 DEF QueueInv, StaleOnlyIfClaimedLate, MoveCoversRunning
  <2> QED
    BY <2>2, <2>3
<1>13. LocksBelongToMoves'
  BY ZenonT(60), <1>3 DEF QueueInv, LocksBelongToMoves, TypeOK
<1>6. \A i \in 1 .. attempts[t] : log[t][i].outcome \notin {"open", "succeeded"}
  BY <1>3 DEF QueueInv, OpenRowsAreAccountedFor, SuccessIsRecordedOnce, Runnable
<1>7. \A i \in 1 .. attempts'[t] : i = n \/ i \in 1 .. attempts[t]
  BY <1>3
<1>8. SuccessIsRecordedOnce'
  <2> SUFFICES ASSUME NEW u \in Task, NEW i \in 1 .. attempts'[u],
                      log'[u][i].outcome = "succeeded"
               PROVE  i = attempts'[u] /\ status'[u] = "succeeded"
    BY DEF SuccessIsRecordedOnce
  <2>1. CASE u = t
    BY <1>1, <1>2, <1>3, <1>6, <1>7, <2>1
  <2>2. CASE u # t
    BY <1>2, <1>3, <2>2 DEF QueueInv, SuccessIsRecordedOnce
  <2> QED
    BY <2>1, <2>2
<1>9. OpenRowsAreAccountedFor'
  <2> SUFFICES ASSUME NEW u \in Task, NEW i \in 1 .. attempts'[u],
                      log'[u][i].outcome = "open"
               PROVE  i = attempts'[u] /\ status'[u] \in {"running", "superseded"}
    BY DEF OpenRowsAreAccountedFor
  <2>1. CASE u = t
    BY <1>2, <1>3, <1>6, <1>7, <2>1
  <2>2. CASE u # t
    BY <1>2, <1>3, <2>2 DEF QueueInv, OpenRowsAreAccountedFor
  <2> QED
    BY <2>1, <2>2
<1>10. AttemptsAreBounded' /\ AttemptsLeft'
  <2> SUFFICES ASSUME NEW u \in Task
               PROVE  /\ attempts'[u] <= MaxAttempts[u] + revivals'[u]
                      /\ status'[u] \in Runnable \cup {"absent"}
                           => attempts'[u] < MaxAttempts[u] + revivals'[u]
    BY DEF AttemptsAreBounded, AttemptsLeft
  <2>1. CASE u = t
    <3>1. attempts[t] < MaxAttempts[t] + revivals[t] /\ revivals[t] \in Nat
      BY <1>3 DEF QueueInv, AttemptsLeft, TypeOK
    <3> QED
      BY <1>3, <2>1, <3>1 DEF Runnable
  <2>2. CASE u # t
    BY <1>3, <2>2 DEF QueueInv, AttemptsAreBounded, AttemptsLeft
  <2> QED
    BY <2>1, <2>2
<1>11. LeaseMatchesRow'
  <2> SUFFICES ASSUME NEW u \in Task
               PROVE  IF status'[u] = "running"
                        THEN /\ attempts'[u] > 0
                             /\ holder'[u] = log'[u][attempts'[u]].owner
                             /\ log'[u][attempts'[u]].outcome = "open"
                        ELSE holder'[u] = NoWorker /\ lease'[u] = 0
    BY DEF LeaseMatchesRow
  <2>1. CASE u = t
    BY <1>1, <1>2, <1>3, <2>1
  <2>2. CASE u # t
    BY ZenonT(60), <1>2, <1>3, <2>2 DEF QueueInv, LeaseMatchesRow
  <2> QED
    BY <2>1, <2>2
<1>12. HandsMatchRows'
  <2> SUFFICES ASSUME NEW v \in Worker, Busy(v)'
               PROVE  LET u == run'[v].task IN
                      /\ run'[v].attempt \in 1 .. attempts'[u]
                      /\ log'[u][run'[v].attempt].owner = v
                      /\ status'[u] = "running" /\ holder'[u] = v
                           => run'[v].attempt = attempts'[u]
    BY DEF HandsMatchRows
  <2>1. CASE run'[v] = run[v]
    <3> DEFINE u == run[v].task
               i == run[v].attempt
    <3>1. /\ u \in Task /\ Busy(v) /\ v # w /\ attempts[u] \in Nat
      BY <2>1 DEF Busy, Claim, Idle, QueueInv, TypeOK, Hand
    <3>2. /\ i \in 1 .. attempts[u]
          /\ log[u][i].owner = v
          /\ status[u] = "running" /\ holder[u] = v => i = attempts[u]
      BY <3>1 DEF QueueInv, HandsMatchRows
    <3>3. CASE u = t
      BY SMTT(60), <1>2, <1>3, <2>1, <3>1, <3>2, <3>3
    <3>4. CASE u # t
      <4>1. /\ attempts'[u] = attempts[u] /\ log'[u] = log[u]
            /\ status'[u] = status[u] /\ holder'[u] = holder[u]
        BY <1>2, <1>3, <3>1, <3>4
      <4> QED
        BY <2>1, <3>2, <4>1
    <3> QED
      BY <3>3, <3>4
  <2>2. CASE run'[v] # run[v]
    <3>1. v = w /\ run'[v] = [task |-> t, attempt |-> n, result |-> "none"]
      BY <2>2 DEF Claim, QueueInv, TypeOK
    <3> QED
      BY <1>1, <1>2, <1>3, <3>1
  <2> QED
    BY <2>1, <2>2
<1> QED
  BY <1>4, <1>5, <1>8, <1>9, <1>10, <1>11, <1>12, <1>13 DEF QueueInv

\* Steps that only move leases of running tasks.
LEMMA LeaseOnlyInv ==
  ASSUME QueueInv,
         lease' \in [Task -> 0 .. LeaseTicks],
         \A t \in Task : status[t] # "running" => lease'[t] = 0,
         UNCHANGED <<status, attempts, holder, log, accountVars, run, historyVars>>
  PROVE  QueueInv'
<1>1. LeaseMatchesRow'
  BY DEF QueueInv, LeaseMatchesRow
<1>2. TypeOK'
  BY DEF QueueInv, TypeOK, accountVars, historyVars
<1>3. StaleOnlyIfClaimedLate' /\ HandsMatchRows'
  BY DEF QueueInv, StaleOnlyIfClaimedLate, Stale, HandsMatchRows, Busy, accountVars, historyVars
<1>4. MoveCoversRunning' /\ LocksBelongToMoves'
  BY DEF QueueInv, MoveCoversRunning, LocksBelongToMoves, MoveOpen, accountVars, historyVars
<1> QED
  BY <1>1, <1>2, <1>3, <1>4
  DEF QueueInv, SuccessIsRecordedOnce, OpenRowsAreAccountedFor, AttemptsAreBounded,
      AttemptsLeft, historyVars

LEMMA ExtendInv ==
  ASSUME QueueInv, NEW w \in Worker, Extend(w)
  PROVE  QueueInv'
<1>1. lease' \in [Task -> 0 .. LeaseTicks]
  <2>1. lease \in [Task -> 0 .. LeaseTicks] /\ LeaseTicks \in 0 .. LeaseTicks
    BY QueueAssumption DEF QueueAssumption, QueueInv, TypeOK
  <2> QED
    BY <2>1 DEF Extend
<1>2. \A t \in Task : status[t] # "running" => lease'[t] = 0
  BY DEF Extend, HoldsLease, QueueInv, LeaseMatchesRow, TypeOK
<1> QED
  BY <1>1, <1>2, LeaseOnlyInv DEF Extend

LEMMA TickInv ==
  ASSUME QueueInv, Tick
  PROVE  QueueInv'
<1>1. lease' \in [Task -> 0 .. LeaseTicks]
  BY SMTT(60), QueueAssumption DEF QueueAssumption, Tick, QueueInv, TypeOK
<1>2. \A t \in Task : status[t] # "running" => lease'[t] = 0
  BY DEF Tick, QueueInv, LeaseMatchesRow, TypeOK
<1> QED
  BY <1>1, <1>2, LeaseOnlyInv DEF Tick

\* Steps in which a loop only notes its handler's result or lets go of what
\* it has in hand: HandlerReturns, Lost, Crash.
LEMMA HandsOnlyInv ==
  ASSUME QueueInv, UNCHANGED <<taskVars, accountVars, historyVars>>, run' \in [Worker -> Hand],
         \A w \in Worker : \/ run'[w].task = NoTask
                           \/ /\ run'[w].task = run[w].task
                              /\ run'[w].attempt = run[w].attempt
  PROVE  QueueInv'
<1>1. HandsMatchRows'
  BY DEF QueueInv, HandsMatchRows, taskVars, Busy
<1> QED
  BY <1>1
  DEF QueueInv, TypeOK, StaleOnlyIfClaimedLate, MoveCoversRunning, LocksBelongToMoves,
      MoveOpen, Stale, SuccessIsRecordedOnce, OpenRowsAreAccountedFor, AttemptsAreBounded,
      AttemptsLeft, LeaseMatchesRow, taskVars, accountVars, historyVars

LEMMA HandlerReturnsInv ==
  ASSUME QueueInv, NEW w \in Worker, HandlerReturns(w)
  PROVE  QueueInv'
<1>1. run \in [Worker -> Hand]
  BY DEF QueueInv, TypeOK
<1>2. PICK r \in Result \ {"none"} : run' = [run EXCEPT ![w].result = r]
  BY DEF HandlerReturns
<1>3. run' \in [Worker -> Hand]
  BY <1>1, <1>2 DEF Hand
<1>4. \A v \in Worker : run'[v].task = run[v].task /\ run'[v].attempt = run[v].attempt
  BY <1>1, <1>2 DEF Hand
<1> QED
  BY <1>3, <1>4, HandsOnlyInv DEF HandlerReturns

LEMMA LetGoInv ==
  ASSUME QueueInv, NEW w \in Worker, Lost(w) \/ Crash(w)
  PROVE  QueueInv'
<1>1. run' = [run EXCEPT ![w] = EmptyHand] /\ UNCHANGED <<taskVars, accountVars, historyVars>>
  BY DEF Lost, Crash
<1>2. run' \in [Worker -> Hand]
  BY <1>1 DEF QueueInv, TypeOK, EmptyHand, Hand, Result
<1>3. \A v \in Worker : \/ run'[v].task = NoTask
                         \/ /\ run'[v].task = run[v].task
                            /\ run'[v].attempt = run[v].attempt
  BY <1>1 DEF QueueInv, TypeOK, EmptyHand
<1> QED
  BY <1>1, <1>2, <1>3, HandsOnlyInv

\* Steps that end the running attempts of the tasks of T with outcome o: the
\* holder's report and the sweep.
LEMMA CloseWithRows ==
  ASSUME QueueInv,
         NEW T \in SUBSET Task, NEW S, NEW o \in Outcome \ {"open"},
         \A t \in T : status[t] = "running", T \cap locked = {},
         \A t \in T : S[t] \in {"succeeded", "failed", "retry_wait"},
         \A t \in T : S[t] = "retry_wait" => attempts[t] < MaxAttempts[t],
         o = "succeeded" => \A t \in T : S[t] = "succeeded",
         CloseTo(T, S), EndRows(T, o), UNCHANGED <<attempts, accountVars, historyVars>>,
         run' \in [Worker -> Hand],
         \A w \in Worker : run'[w] = run[w] \/ run'[w].task = NoTask
  PROVE  QueueInv'
<1> USE QueueAssumption DEF QueueAssumption
<1>1. /\ status' \in [Task -> Status]
      /\ holder' \in [Task -> Worker \cup {NoWorker}]
      /\ lease' \in [Task -> 0 .. LeaseTicks]
  BY CloseToType DEF QueueInv, Status, Open, Closed
<1>2. TypeOK /\ o \in Outcome /\ \A t \in T : attempts[t] > 0
  BY DEF QueueInv, LeaseMatchesRow
<1>3. /\ log' \in [Task -> Seq(Row)]
      /\ \A t \in Task :
           /\ Len(log'[t]) = Len(log[t])
           /\ \A i \in 1 .. attempts[t] :
                /\ log'[t][i].owner = log[t][i].owner
                /\ log'[t][i].outcome =
                     IF t \in T /\ i = attempts[t] /\ log[t][i].outcome = "open"
                       THEN o ELSE log[t][i].outcome
  BY ONLY QueueAssumption, <1>2, T \in SUBSET Task, EndRows(T, o), EndRowsEffect
<1>4. \A t \in Task :
        /\ t \in T => status'[t] = S[t] /\ holder'[t] = NoWorker /\ lease'[t] = 0
        /\ t \notin T => /\ status'[t] = status[t] /\ log'[t] = log[t]
                        /\ holder'[t] = holder[t] /\ lease'[t] = lease[t]
  BY DEF CloseTo, EndRows
<1>5. TypeOK'
  BY <1>1, <1>2, <1>3 DEF TypeOK, accountVars, historyVars
<1>6. StaleOnlyIfClaimedLate'
  BY <1>4 DEF QueueInv, StaleOnlyIfClaimedLate, Stale, accountVars, historyVars
<1>12. MoveCoversRunning' /\ LocksBelongToMoves'
  <2>1. UNCHANGED <<accountVars, late>>
    BY DEF historyVars
  <2>2. /\ \A t \in Task \ T : status'[t] = status[t]
        /\ \A t \in T : status'[t] # "running"
    BY <1>4
  <2> QED
    BY <2>1, <2>2, LocksKept
<1>7. SuccessIsRecordedOnce'
  <2> SUFFICES ASSUME NEW t \in Task, NEW i \in 1 .. attempts[t],
                      log'[t][i].outcome = "succeeded"
               PROVE  i = attempts[t] /\ status'[t] = "succeeded"
    BY DEF SuccessIsRecordedOnce
  <2>1. CASE t \in T
    <3>1. log[t][i].outcome # "succeeded"
      BY <2>1 DEF QueueInv, SuccessIsRecordedOnce
    <3> QED
      BY <1>3, <1>4, <2>1, <3>1
  <2>2. CASE t \notin T
    BY <1>4, <2>2 DEF QueueInv, SuccessIsRecordedOnce
  <2> QED
    BY <2>1, <2>2
<1>8. OpenRowsAreAccountedFor'
  <2> SUFFICES ASSUME NEW t \in Task, NEW i \in 1 .. attempts[t],
                      log'[t][i].outcome = "open"
               PROVE  i = attempts[t] /\ status'[t] \in {"running", "superseded"}
    BY DEF OpenRowsAreAccountedFor
  <2>1. CASE t \in T
    <3>1. log[t][i].outcome = "open"
      BY <1>3, <2>1
    <3>2. i = attempts[t]
      BY <3>1 DEF QueueInv, OpenRowsAreAccountedFor
    <3> QED
      BY <1>3, <2>1, <3>1, <3>2
  <2>2. CASE t \notin T
    BY <1>4, <2>2 DEF QueueInv, OpenRowsAreAccountedFor
  <2> QED
    BY <2>1, <2>2
<1>9. AttemptsAreBounded' /\ AttemptsLeft'
  <2> SUFFICES ASSUME NEW t \in Task
               PROVE  status'[t] \in Runnable \cup {"absent"}
                        => attempts[t] < MaxAttempts[t] + revivals[t]
    BY DEF QueueInv, AttemptsAreBounded, AttemptsLeft, historyVars
  <2>1. attempts[t] \in Nat /\ revivals[t] \in Nat /\ MaxAttempts[t] \in Nat
    BY <1>2 DEF TypeOK
  <2>2. CASE t \in T
    BY <1>4, <2>1, <2>2 DEF Runnable
  <2>3. CASE t \notin T
    BY <1>4, <2>3 DEF QueueInv, AttemptsLeft
  <2> QED
    BY <2>2, <2>3
<1>10. LeaseMatchesRow'
  <2> SUFFICES ASSUME NEW t \in Task
               PROVE  IF status'[t] = "running"
                        THEN /\ attempts[t] > 0
                             /\ holder'[t] = log'[t][attempts[t]].owner
                             /\ log'[t][attempts[t]].outcome = "open"
                        ELSE holder'[t] = NoWorker /\ lease'[t] = 0
    BY DEF LeaseMatchesRow
  <2>1. CASE t \in T
    BY <1>4, <2>1
  <2>2. CASE t \notin T
    BY <1>4, <2>2 DEF QueueInv, LeaseMatchesRow
  <2> QED
    BY <2>1, <2>2
<1>11. HandsMatchRows'
  <2> SUFFICES ASSUME NEW w \in Worker, Busy(w)'
               PROVE  LET t == run'[w].task IN
                      /\ run'[w].attempt \in 1 .. attempts[t]
                      /\ log'[t][run'[w].attempt].owner = w
                      /\ status'[t] = "running" /\ holder'[t] = w
                           => run'[w].attempt = attempts[t]
    BY DEF HandsMatchRows
  <2> DEFINE t == run[w].task
             i == run[w].attempt
  <2>1. run'[w] = run[w] /\ t \in Task /\ Busy(w)
    BY <1>2 DEF Busy, TypeOK, Hand
  <2>2. /\ i \in 1 .. attempts[t] /\ log[t][i].owner = w
        /\ status[t] = "running" /\ holder[t] = w => i = attempts[t]
    BY <2>1 DEF QueueInv, HandsMatchRows
  <2>3. log'[t][i].owner = w
    BY <1>3, <2>1, <2>2
  <2>4. status'[t] = "running" /\ holder'[t] = w => i = attempts[t]
    BY <1>4, <2>1, <2>2
  <2> QED
    BY <2>1, <2>2, <2>3, <2>4
<1> QED
  BY <1>5, <1>6, <1>7, <1>8, <1>9, <1>10, <1>11, <1>12 DEF QueueInv

\* A holder's report r, with status s and row outcome o.
LEMMA ReportInv ==
  ASSUME QueueInv, NEW w \in Worker, NEW r \in Result,
         NEW s \in {"succeeded", "failed", "retry_wait"}, NEW o \in Outcome \ {"open"},
         Report(w, r, s, o),
         s = "retry_wait" => attempts[run[w].task] < MaxAttempts[run[w].task],
         o = "succeeded" => s = "succeeded"
  PROVE  QueueInv'
<1> DEFINE t == run[w].task
           T == {t}
           S == [u \in T |-> s]
<1>1. /\ Busy(w) /\ HoldsLease(w, t) /\ CloseTo(T, S) /\ EndRows(T, o)
      /\ run' = [run EXCEPT ![w] = EmptyHand]
      /\ t \notin locked /\ UNCHANGED <<attempts, accountVars, historyVars>>
  BY DEF Report
<1>2. run \in [Worker -> Hand]
  BY DEF QueueInv, TypeOK
<1>3. t \in Task /\ status[t] = "running"
  BY <1>1, <1>2 DEF Busy, Hand, HoldsLease
<1>4. run' \in [Worker -> Hand] /\ \A v \in Worker : run'[v] = run[v] \/ run'[v].task = NoTask
  BY <1>1, <1>2 DEF EmptyHand, Hand, Result
<1>5. /\ T \in SUBSET Task /\ T \cap locked = {}
      /\ \A u \in T : status[u] = "running" /\ S[u] = s
      /\ \A u \in T : s = "retry_wait" => attempts[u] < MaxAttempts[u]
  BY <1>1, <1>3
<1> HIDE DEF T, S
<1> QED
  BY <1>1, <1>4, <1>5, CloseWithRows

LEMMA FinishInv ==
  ASSUME QueueInv, NEW w \in Worker, Succeed(w) \/ FailPermanently(w) \/ Fail(w)
  PROVE  QueueInv'
<1>1. CASE Succeed(w)
  BY <1>1, ReportInv DEF Succeed, Result, Outcome
<1>2. CASE FailPermanently(w)
  BY <1>2, ReportInv DEF FailPermanently, Result, Outcome
<1>3. CASE Fail(w)
  <2> DEFINE t == run[w].task
             s == AfterFailure(t)
             o == IF s = "failed" THEN "failed" ELSE "retry"
  <2>1. Report(w, "retry", s, o)
    BY <1>3 DEF Fail
  <2>2. t \in Task
    BY <1>3 DEF Fail, Report, Busy, QueueInv, TypeOK, Hand
  <2>3. attempts[t] \in Nat /\ MaxAttempts[t] \in Nat
    BY <2>2, QueueAssumption DEF QueueAssumption, QueueInv, TypeOK
  <2>4. /\ s \in {"succeeded", "failed", "retry_wait"}
        /\ s = "retry_wait" => attempts[t] < MaxAttempts[t]
        /\ o \in Outcome \ {"open"} /\ o # "succeeded" /\ "retry" \in Result
    BY <2>3 DEF AfterFailure, Outcome, Result
  <2> HIDE DEF s, o
  <2> QED
    BY <2>1, <2>4, ReportInv
<1> QED
  BY <1>1, <1>2, <1>3

LEMMA ReleaseInv ==
  ASSUME QueueInv, NEW w \in Worker, ReleaseExpiredLeases(w)
  PROVE  QueueInv'
<1> DEFINE T == {t \in Task : Expired(t)}
           S == [t \in T |-> AfterFailure(t)]
           o == "lease_expired"
<1>1. /\ CloseTo(T, S) /\ EndRows(T, o) /\ T \cap locked = {}
      /\ UNCHANGED <<attempts, accountVars, historyVars>>
  BY DEF ReleaseExpiredLeases
<1>2. T \in SUBSET Task /\ \A u \in T : status[u] = "running"
  BY DEF Expired
<1>3. \A u \in T : S[u] \in {"failed", "retry_wait"}
  BY DEF AfterFailure
<1>4. \A u \in T : S[u] = "retry_wait" => attempts[u] < MaxAttempts[u]
  <2>1. \A u \in Task : attempts[u] \in Nat /\ MaxAttempts[u] \in Nat
    BY QueueAssumption DEF QueueAssumption, QueueInv, TypeOK
  <2> QED
    BY <1>2, <2>1 DEF AfterFailure
<1>5. o \in Outcome \ {"open"} /\ o # "succeeded"
  BY DEF Outcome
<1>6. run' \in [Worker -> Hand] /\ \A v \in Worker : run'[v] = run[v]
  BY DEF ReleaseExpiredLeases, QueueInv, TypeOK
<1> HIDE DEF T, S, o
<1> QED
  BY <1>1, <1>2, <1>3, <1>4, <1>5, <1>6, CloseWithRows

-----------------------------------------------------------------------------

LEMMA NextInv ==
  ASSUME QueueInv, [Next]_vars
  PROVE  QueueInv'
<1>1. CASE UNCHANGED vars
  BY <1>1 DEF vars, taskVars, accountVars, historyVars, QueueInv, TypeOK,
    StaleOnlyIfClaimedLate, MoveCoversRunning, LocksBelongToMoves, MoveOpen, Stale,
    SuccessIsRecordedOnce, OpenRowsAreAccountedFor, AttemptsAreBounded, AttemptsLeft,
    LeaseMatchesRow, HandsMatchRows, Busy
<1>2. ASSUME NEW t \in Task, Enqueue(t) \/ Supersede(t)
      PROVE  QueueInv'
  BY <1>2, EnqueueInv, SupersedeInv
<1>3. ASSUME NEW e \in Employee,
             (\E m \in Move : SupersedeOpenForEmployee(e, m)) \/ CommitMove(e) \/ RollbackMove(e)
      PROVE  QueueInv'
  BY <1>3, BeginMoveInv, CommitMoveInv, RollbackMoveInv
<1>4. ASSUME NEW w \in Worker, NEW t \in Task, Claim(w, t)
      PROVE  QueueInv'
  BY <1>4, ClaimInv
<1>5. ASSUME NEW w \in Worker,
             Extend(w) \/ HandlerReturns(w) \/ Finish(w) \/ Crash(w) \/ ReleaseExpiredLeases(w)
      PROVE  QueueInv'
  <2>1. CASE Finish(w) \/ Crash(w)
    BY <2>1, FinishInv, LetGoInv DEF Finish
  <2>2. CASE Extend(w) \/ HandlerReturns(w) \/ ReleaseExpiredLeases(w)
    BY <2>2, ExtendInv, HandlerReturnsInv, ReleaseInv
  <2> QED
    BY <1>5, <2>1, <2>2
<1> QED
  BY <1>1, <1>2, <1>3, <1>4, <1>5, TickInv DEF Next

\* The queue's rows, leases, attempt rows and the loops' hands agree in every
\* reachable state, whatever crashes, is lost, expires or is superseded.
THEOREM QueueInvariance == Spec => []QueueInv
<1>1. Init => QueueInv
  BY InitQueueInv
<1>2. QueueInv /\ [Next]_vars => QueueInv'
  BY NextInv
<1> QED
  BY <1>1, <1>2, PTL DEF Spec

\* Rows keep their columns' types, and each counted attempt has its row.
THEOREM TypeCorrectness == Spec => []TypeOK
<1>1. QueueInv => TypeOK
  BY DEF QueueInv
<1> QED
  BY <1>1, QueueInvariance, PTL

\* Nothing runs for an epoch the employee has left, unless it was claimed
\* while the transaction that moved the employee was open (tasks.go:327-329).
THEOREM StaleWorkIsLate == Spec => []StaleOnlyIfClaimedLate
<1>1. QueueInv => StaleOnlyIfClaimedLate
  BY DEF QueueInv
<1> QED
  BY <1>1, QueueInvariance, PTL

\* A task's success is written in one attempt row, its last.
THEOREM OneSuccess == Spec => []SuccessIsRecordedOnce
<1>1. QueueInv => SuccessIsRecordedOnce
  BY DEF QueueInv
<1> QED
  BY <1>1, QueueInvariance, PTL

\* An attempt row left open is explained by a running or superseded task.
THEOREM OpenRows == Spec => []OpenRowsAreAccountedFor
<1>1. QueueInv => OpenRowsAreAccountedFor
  BY DEF QueueInv
<1> QED
  BY <1>1, QueueInvariance, PTL

\* Retries stop at max_attempts plus one per revival.
THEOREM BoundedAttempts == Spec => []AttemptsAreBounded
<1>1. QueueInv => AttemptsAreBounded
  BY DEF QueueInv
<1> QED
  BY <1>1, QueueInvariance, PTL

-----------------------------------------------------------------------------
(* What a step may do to a closed task and to an open attempt row.         *)

LEMMA StatusStep ==
  ASSUME QueueInv, [Next]_vars, NEW t \in Task,
         status[t] \in Closed, status'[t] # status[t]
  PROVE  status[t] = "failed" /\ status'[t] = "pending"
<1> USE DEF Closed
<1>1. CASE UNCHANGED vars
  BY <1>1 DEF vars, taskVars
<1>2. ASSUME NEW u \in Task, Enqueue(u)
      PROVE  status[t] = "failed" /\ status'[t] = "pending"
  BY <1>2 DEF Enqueue, CloseTo
<1>3. ASSUME NEW u \in Task, Supersede(u)
      PROVE  FALSE
  BY <1>3 DEF Supersede, CloseTo, Open
<1>4. ASSUME NEW e \in Employee,
             (\E m \in Move : SupersedeOpenForEmployee(e, m)) \/ CommitMove(e) \/ RollbackMove(e)
      PROVE  FALSE
  <2>1. status' = status \/ CloseTo(RowsOf(e) \cap locked, [u \in RowsOf(e) \cap locked |-> "superseded"])
    BY <1>4 DEF SupersedeOpenForEmployee, CommitMove, RollbackMove, taskVars
  <2> QED
    BY <2>1 DEF CloseTo, QueueInv, LocksBelongToMoves, Open
<1>5. ASSUME NEW w \in Worker, NEW u \in Task, Claim(w, u)
      PROVE  FALSE
  BY <1>5 DEF Claim, Runnable, QueueInv, TypeOK
<1>6. ASSUME NEW w \in Worker, Succeed(w) \/ FailPermanently(w) \/ Fail(w)
      PROVE  FALSE
  BY <1>6 DEF Succeed, FailPermanently, Fail, Report, HoldsLease, CloseTo
<1>7. ASSUME NEW w \in Worker, ReleaseExpiredLeases(w)
      PROVE  FALSE
  BY <1>7 DEF ReleaseExpiredLeases, CloseTo, Expired
<1>8. ASSUME NEW w \in Worker, Extend(w) \/ HandlerReturns(w) \/ Lost(w) \/ Crash(w)
      PROVE  FALSE
  BY <1>8 DEF Extend, HandlerReturns, Lost, Crash, taskVars
<1> QED
  BY <1>1, <1>2, <1>3, <1>4, <1>5, <1>6, <1>7, <1>8 DEF Next, Finish, Tick

\* Succeeded and superseded are final; failed ends only by being asked again.
THEOREM ClosedIsFinal == Spec => ClosedStaysClosed
<1>1. ASSUME QueueInv, [Next]_vars
      PROVE  [\A t \in Task :
                status[t] \in Closed /\ status'[t] # status[t] =>
                  status[t] = "failed" /\ status'[t] = "pending"]_vars
  BY <1>1, StatusStep
<1> QED
  BY <1>1, QueueInvariance, PTL DEF Spec, ClosedStaysClosed

LEMMA RowStep ==
  ASSUME QueueInv, [Next]_vars, NEW t \in Task, NEW i \in 1 .. attempts[t],
         log[t][i].outcome = "open",
         log'[t][i].outcome \in {"succeeded", "failed", "retry"}
  PROVE  \E w \in Worker : /\ run[w].task = t /\ run[w].attempt = i
                          /\ log[t][i].owner = w /\ run'[w] = EmptyHand
<1>1. log[t] \in Seq(Row) /\ Len(log[t]) = attempts[t] /\ attempts[t] \in Nat
  BY DEF QueueInv, TypeOK
<1>2. CASE log' = log
  BY <1>2
<1>3. ASSUME NEW w \in Worker, NEW u \in Task, Claim(w, u)
      PROVE  FALSE
  <2> DEFINE row == [owner |-> w, outcome |-> "open"]
  <2>1. log'[t] = log[t] \/ log'[t] = Append(log[t], row)
    BY <1>3 DEF Claim, QueueInv, TypeOK
  <2> HIDE DEF row
  <2>2. log'[t][i] = log[t][i]
    BY <1>1, <2>1
  <2> QED
    BY <2>2
<1>4. ASSUME NEW w \in Worker, ReleaseExpiredLeases(w)
      PROVE  FALSE
  <2> DEFINE T == {u \in Task : Expired(u)}
  <2>1. EndRows(T, "lease_expired") /\ \A u \in T : attempts[u] > 0
    BY <1>4 DEF ReleaseExpiredLeases, Expired, QueueInv, LeaseMatchesRow
  <2>2. T \in SUBSET Task /\ TypeOK /\ "lease_expired" \in Outcome
    BY DEF QueueInv, Outcome
  <2> HIDE DEF T
  <2> QED
    BY <2>1, <2>2, EndRowsEffect
<1>5. ASSUME NEW w \in Worker, NEW r, NEW s, NEW o \in Outcome, Report(w, r, s, o)
      PROVE  /\ run[w].task = t /\ run[w].attempt = i
             /\ log[t][i].owner = w /\ run'[w] = EmptyHand
  <2> DEFINE u == run[w].task
             T == {u}
  <2>1. /\ EndRows(T, o) /\ Busy(w) /\ status[u] = "running" /\ holder[u] = w
        /\ run' = [run EXCEPT ![w] = EmptyHand]
    BY <1>5 DEF Report, HoldsLease
  <2>2. u \in Task /\ run[w] \in Hand /\ run'[w] = EmptyHand
    BY <2>1 DEF QueueInv, TypeOK, Busy, Hand
  <2>3. attempts[u] > 0 /\ run[w].attempt = attempts[u]
    BY <2>1, <2>2 DEF QueueInv, LeaseMatchesRow, HandsMatchRows
  <2>4. /\ T \in SUBSET Task /\ TypeOK /\ (\A v : v \in T <=> v = u)
        /\ \A v \in T : attempts[v] > 0
    BY <2>2, <2>3 DEF QueueInv
  <2> HIDE DEF T
  <2>5. log'[t][i].outcome =
          IF t \in T /\ i = attempts[t] /\ log[t][i].outcome = "open"
            THEN o ELSE log[t][i].outcome
    BY <2>1, <2>4, EndRowsEffect
  <2>6. t = u /\ i = attempts[t]
    BY <2>4, <2>5
  <2>7. log[t][i].owner = w
    BY <2>1, <2>6 DEF QueueInv, LeaseMatchesRow
  <2> QED
    BY <2>2, <2>3, <2>6, <2>7
<1>6. ASSUME NEW w \in Worker, Succeed(w) \/ FailPermanently(w) \/ Fail(w)
      PROVE  \E o \in Outcome : \E r, s : Report(w, r, s, o)
  <2>1. {"succeeded", "failed", "retry"} \subseteq Outcome
    BY DEF Outcome
  <2> QED
    BY <1>6, <2>1 DEF Succeed, FailPermanently, Fail
<1>7. CASE UNCHANGED vars \/ (\E u \in Task : Enqueue(u) \/ Supersede(u))
  BY <1>2, <1>7 DEF vars, taskVars, Enqueue, Supersede
<1>8. CASE \E e \in Employee : \/ \E m \in Move : SupersedeOpenForEmployee(e, m)
                              \/ CommitMove(e) \/ RollbackMove(e)
  BY <1>2, <1>8 DEF SupersedeOpenForEmployee, CommitMove, RollbackMove, taskVars
<1>9. CASE Tick \/ \E w \in Worker : Extend(w) \/ HandlerReturns(w) \/ Lost(w) \/ Crash(w)
  BY <1>2, <1>9 DEF Tick, Extend, HandlerReturns, Lost, Crash, taskVars
<1> QED
  BY <1>3, <1>4, <1>5, <1>6, <1>7, <1>8, <1>9 DEF Next, Finish

\* A handler's outcome is written by the loop that ran that attempt.
THEOREM OutcomesAreOwned == Spec => OutcomeComesFromItsAttempt
<1>1. ASSUME QueueInv, [Next]_vars
      PROVE  [\A t \in Task : \A i \in 1 .. attempts[t] :
                log[t][i].outcome = "open" /\ log'[t][i].outcome \in {"succeeded", "failed", "retry"} =>
                  \E w \in Worker : /\ run[w].task = t
                                    /\ run[w].attempt = i
                                    /\ log[t][i].owner = w
                                    /\ run'[w] = EmptyHand]_vars
  BY <1>1, RowStep
<1> QED
  BY <1>1, QueueInvariance, PTL DEF Spec, OutcomeComesFromItsAttempt

-----------------------------------------------------------------------------
(* The queue implements JobBoard.                                          *)

\* Closing tasks of T in the queue settles them on the board.
LEMMA CloseToSettles ==
  ASSUME TypeOK, NEW T \in SUBSET Task, NEW S, CloseTo(T, S),
         NEW B, \A t \in T : B[t] = BoardStatus(S[t])
  PROVE  Board!Settle(T, B)
<1>1. BoardState' = [t \in Task |-> IF t \in T THEN B[t] ELSE BoardState[t]]
  BY DEF BoardState, CloseTo
<1>2. holder' = [t \in Task |-> IF t \in T THEN NoWorker ELSE holder[t]]
  BY DEF CloseTo
<1> QED
  BY <1>1, <1>2 DEF Board!Settle

LEMMA BoardStepUnchanged ==
  ASSUME UNCHANGED <<status, holder>>
  PROVE  UNCHANGED Board!boardVars
  BY DEF Board!boardVars, BoardState

LEMMA EnqueuePosts ==
  ASSUME QueueInv, NEW t \in Task, Enqueue(t)
  PROVE  Board!BoardNext
<1> DEFINE T == {t}
           S == [u \in T |-> "pending"]
           B == [u \in T |-> "waiting"]
<1>1. TypeOK /\ T \in SUBSET Task /\ CloseTo(T, S)
  BY DEF QueueInv, Enqueue
<1>2. \A u \in T : B[u] = BoardStatus(S[u])
  BY DEF BoardStatus, Runnable
<1>3. BoardState[t] \in {"absent", "failed"}
  BY DEF Enqueue, BoardState, BoardStatus, Runnable
<1>4. Board!Settle(T, B)
  <2> HIDE DEF T, S, B
  <2> QED
    BY <1>1, <1>2, CloseToSettles
<1>5. Board!Post(t)
  BY <1>3, <1>4 DEF Board!Post
<1> QED
  BY <1>5 DEF Board!BoardNext

LEMMA SupersedingWithdraws ==
  ASSUME QueueInv, NEW T \in SUBSET Task, \A t \in T : status[t] \in Open,
         NEW S, \A t \in T : S[t] = "superseded", CloseTo(T, S)
  PROVE  Board!BoardNext \/ UNCHANGED Board!boardVars
<1> DEFINE B == [t \in T |-> "dropped"]
<1>1. CASE T = {}
  <2>1. UNCHANGED <<status, holder>>
    BY <1>1 DEF CloseTo, QueueInv, TypeOK
  <2> QED
    BY <2>1, BoardStepUnchanged
<1>2. CASE T # {}
  <2>1. \A u \in T : B[u] = BoardStatus(S[u])
    BY DEF BoardStatus, Runnable
  <2>2. TypeOK
    BY DEF QueueInv
  <2>3. Board!Settle(T, B)
    <3> HIDE DEF B
    <3> QED
      BY <2>1, <2>2, CloseToSettles
  <2>4. \A t \in T : BoardState[t] \in Board!OpenStates
    BY DEF BoardState, BoardStatus, Board!OpenStates, Open, Runnable
  <2>5. Board!Withdraw(T)
    BY <1>2, <2>3, <2>4 DEF Board!Withdraw
  <2> QED
    BY <2>5 DEF Board!BoardNext
<1> QED
  BY <1>1, <1>2

LEMMA ClaimTakes ==
  ASSUME QueueInv, NEW w \in Worker, NEW t \in Task, Claim(w, t)
  PROVE  Board!BoardNext
<1>1. BoardState[t] = "waiting"
  BY DEF Claim, BoardState, BoardStatus, Runnable
<1>2. BoardState' = [BoardState EXCEPT ![t] = "held"]
  BY DEF Claim, BoardState, BoardStatus, Runnable, QueueInv, TypeOK
<1>3. Board!Take(w, t)
  BY <1>1, <1>2 DEF Board!Take, Claim
<1> QED
  BY <1>3 DEF Board!BoardNext

LEMMA ReportCloses ==
  ASSUME QueueInv, NEW w \in Worker, NEW r, NEW o, NEW s \in {"succeeded", "failed", "retry_wait"},
         Report(w, r, s, o)
  PROVE  Board!BoardNext
<1> DEFINE t == run[w].task
           T == {t}
           S == [u \in T |-> s]
           b == BoardStatus(s)
           B == [u \in T |-> b]
<1>1. /\ Busy(w) /\ HoldsLease(w, t) /\ CloseTo(T, S)
  BY DEF Report
<1>2. t \in Task
  BY <1>1 DEF QueueInv, TypeOK, Busy, Hand
<1>3. TypeOK /\ T \in SUBSET Task /\ \A u \in T : B[u] = BoardStatus(S[u])
  BY <1>2 DEF QueueInv
<1>4. Board!Settle(T, B)
  <2> HIDE DEF T, S, B
  <2> QED
    BY <1>1, <1>3, CloseToSettles
<1>5. BoardState[t] = "held" /\ holder[t] = w /\ b \in {"done", "failed", "waiting"}
  BY <1>1, <1>2 DEF HoldsLease, BoardState, BoardStatus, Runnable
<1> HIDE DEF b
<1>6. Board!Close(w, t, b)
  BY <1>4, <1>5 DEF Board!Close
<1> QED
  BY <1>2, <1>5, <1>6 DEF Board!BoardNext

LEMMA ReleaseGivesBack ==
  ASSUME QueueInv, NEW w \in Worker, ReleaseExpiredLeases(w)
  PROVE  Board!BoardNext
<1> DEFINE T == {t \in Task : Expired(t)}
           S == [t \in T |-> AfterFailure(t)]
           B == [t \in T |-> BoardStatus(S[t])]
<1>1. TypeOK /\ T \in SUBSET Task /\ T # {} /\ CloseTo(T, S)
  BY DEF QueueInv, ReleaseExpiredLeases
<1>2. \A u \in T : B[u] = BoardStatus(S[u])
  OBVIOUS
<1>3. Board!Settle(T, B)
  <2> HIDE DEF T, S, B
  <2> QED
    BY <1>1, <1>2, CloseToSettles
<1>4. \A u \in T : BoardState[u] = "held"
  BY DEF BoardState, BoardStatus, Expired, Runnable
<1>5. B \in [T -> {"failed", "waiting"}]
  BY DEF AfterFailure, BoardStatus, Runnable
<1> HIDE DEF T, S, B
<1>6. Board!GiveBack(T, B)
  BY <1>1, <1>3, <1>4 DEF Board!GiveBack
<1> QED
  BY <1>1, <1>5, <1>6 DEF Board!BoardNext

\* The queue keeps the board's promise: every step of the queue is a step of
\* the board or leaves it alone.
THEOREM QueueImplementsBoard == Spec => BoardSpec
<1>1. Init => Board!BoardInit
  BY DEF Init, Board!BoardInit, BoardState, BoardStatus, Runnable
<1>2. ASSUME QueueInv, [Next]_vars
      PROVE  [Board!BoardNext]_(Board!boardVars)
  <2>1. CASE UNCHANGED vars
    BY <2>1, BoardStepUnchanged DEF vars, taskVars
  <2>2. ASSUME NEW t \in Task, Enqueue(t)
        PROVE  Board!BoardNext
    BY <1>2, <2>2, EnqueuePosts
  <2>3. ASSUME NEW t \in Task, Supersede(t)
        PROVE  [Board!BoardNext]_(Board!boardVars)
    <3> DEFINE T == {t}
               S == [u \in T |-> "superseded"]
    <3>1. /\ T \in SUBSET Task /\ (\A u \in T : status[u] \in Open)
          /\ (\A u \in T : S[u] = "superseded") /\ CloseTo(T, S)
      BY <2>3 DEF Supersede
    <3> HIDE DEF T, S
    <3> QED
      BY <1>2, <3>1, SupersedingWithdraws
  <2>11. ASSUME NEW e \in Employee,
                (\E m \in Move : SupersedeOpenForEmployee(e, m)) \/ RollbackMove(e)
         PROVE  UNCHANGED Board!boardVars
    BY <2>11, BoardStepUnchanged DEF SupersedeOpenForEmployee, RollbackMove, taskVars
  <2>4. ASSUME NEW e \in Employee, CommitMove(e)
        PROVE  [Board!BoardNext]_(Board!boardVars)
    <3> DEFINE T == RowsOf(e) \cap locked
               S == [u \in T |-> "superseded"]
    <3>1. /\ T \in SUBSET Task /\ (\A u \in T : status[u] \in Open)
          /\ (\A u \in T : S[u] = "superseded") /\ CloseTo(T, S)
      BY <1>2, <2>4 DEF CommitMove, RowsOf, QueueInv, LocksBelongToMoves
    <3> HIDE DEF T, S
    <3> QED
      BY <1>2, <3>1, SupersedingWithdraws
  <2>5. ASSUME NEW w \in Worker, NEW t \in Task, Claim(w, t)
        PROVE  Board!BoardNext
    BY <1>2, <2>5, ClaimTakes
  <2>6. ASSUME NEW w \in Worker, Succeed(w) \/ FailPermanently(w)
        PROVE  Board!BoardNext
    BY <1>2, <2>6, ReportCloses DEF Succeed, FailPermanently
  <2>7. ASSUME NEW w \in Worker, Fail(w)
        PROVE  Board!BoardNext
    <3>1. AfterFailure(run[w].task) \in {"succeeded", "failed", "retry_wait"}
      BY DEF AfterFailure
    <3> QED
      BY <1>2, <2>7, <3>1, ReportCloses DEF Fail
  <2>8. ASSUME NEW w \in Worker, ReleaseExpiredLeases(w)
        PROVE  Board!BoardNext
    BY <1>2, <2>8, ReleaseGivesBack
  <2>9. ASSUME NEW w \in Worker, Extend(w) \/ HandlerReturns(w) \/ Lost(w) \/ Crash(w)
        PROVE  UNCHANGED Board!boardVars
    BY <2>9, BoardStepUnchanged DEF Extend, HandlerReturns, Lost, Crash, taskVars
  <2>10. CASE Tick
    BY <2>10, BoardStepUnchanged DEF Tick
  <2> QED
    BY <1>2, <2>1, <2>2, <2>3, <2>4, <2>5, <2>6, <2>7, <2>8, <2>9, <2>10, <2>11 DEF Next, Finish
<1> QED
  BY <1>1, <1>2, QueueInvariance, PTL DEF Spec, BoardSpec, Board!BoardSpec
=============================================================================
