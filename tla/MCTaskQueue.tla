---------------------------- MODULE MCTaskQueue -----------------------------
(***************************************************************************)
(* Instances of TaskQueue for TLC: provisioning work aimed at the first    *)
(* epoch of an employee beside a task that belongs to no employee.  Two    *)
(* stories are checked in one run: the account moves on and each task is   *)
(* asked for once, or the account is deleted and one task, when it failed, *)
(* is asked for again.                                                     *)
(***************************************************************************)
EXTENDS TaskQueue, TLC

CONSTANTS provision, export, alice
VARIABLE story

MCEmployeeOf == (provision :> alice) @@ (export :> NoEmployee)
MCTargetEpoch == (provision :> 1) @@ (export :> 0)

\* The first task may be tried twice, the second once.
MCMaxAttempts == (provision :> 2) @@ (export :> 1)

\* The first may be asked for again once after it failed.
MCMaxRevivals == (provision :> 1) @@ (export :> 0)

MCInit == Init /\ story \in {"move", "again"}
MCNext ==
  /\ Next
  /\ story = "move" => revivals' = revivals /\ move'[alice] # "delete"
  /\ story = "again" => status'[export] = "absent" /\ move'[alice] # "advance"
  /\ UNCHANGED story
MCSpec == MCInit /\ [][MCNext]_<<vars, story>> /\ Fairness
=============================================================================
