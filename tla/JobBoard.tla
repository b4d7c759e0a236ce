------------------------------ MODULE JobBoard ------------------------------
(***************************************************************************)
(* What the console's task queue promises the rest of the system, without  *)
(* leases, attempts, attempt rows or epochs.  A job is posted, taken by    *)
(* one worker, and then either closed by that worker, given back because   *)
(* the worker stopped holding it, or dropped because nobody wants it any   *)
(* more.  Done and dropped are final; a failed job may be posted again.    *)
(*                                                                         *)
(* TaskQueue implements this module; Provisioning is built on it.          *)
(***************************************************************************)
EXTENDS Naturals

CONSTANTS
  Job,       \* the jobs, one per idempotency key
  Worker,    \* the worker loops, one per owner name
  NoWorker   \* "nobody holds it"

VARIABLES
  state,     \* [Job -> JobState]
  holder     \* [Job -> Worker \cup {NoWorker}], who may close it

boardVars == <<state, holder>>

JobState == {"absent", "waiting", "held", "done", "failed", "dropped"}

\* A job somebody still has to do something about.
OpenStates == {"waiting", "held"}

BoardTypeOK ==
  /\ state \in [Job -> JobState]
  /\ holder \in [Job -> Worker \cup {NoWorker}]

BoardInit ==
  /\ state = [j \in Job |-> "absent"]
  /\ holder = [j \in Job |-> NoWorker]

-----------------------------------------------------------------------------

\* Every job of J is now in the state S gives it, and nobody holds it.
Settle(J, S) ==
  /\ state' = [j \in Job |-> IF j \in J THEN S[j] ELSE state[j]]
  /\ holder' = [j \in Job |-> IF j \in J THEN NoWorker ELSE holder[j]]

\* A new job, or a failed one asked for again.
Post(j) ==
  /\ state[j] \in {"absent", "failed"}
  /\ Settle({j}, [i \in {j} |-> "waiting"])

Take(w, j) ==
  /\ state[j] = "waiting"
  /\ state' = [state EXCEPT ![j] = "held"]
  /\ holder' = [holder EXCEPT ![j] = w]

\* The holder's report: the job is done, failed for good, or to be retried.
Close(w, j, s) ==
  /\ state[j] = "held"
  /\ holder[j] = w
  /\ Settle({j}, [i \in {j} |-> s])

\* Jobs whose holder stopped holding them are put back or given up.
GiveBack(J, S) ==
  /\ J # {}
  /\ \A j \in J : state[j] = "held"
  /\ Settle(J, S)

\* Jobs that are no longer wanted, whoever holds them.
Withdraw(J) ==
  /\ J # {}
  /\ \A j \in J : state[j] \in OpenStates
  /\ Settle(J, [j \in J |-> "dropped"])

BoardNext ==
  \/ \E j \in Job : Post(j)
  \/ \E w \in Worker, j \in Job :
       Take(w, j) \/ \E s \in {"done", "failed", "waiting"} : Close(w, j, s)
  \/ \E J \in SUBSET Job :
       \/ Withdraw(J)
       \/ \E S \in [J -> {"failed", "waiting"}] : GiveBack(J, S)

BoardSpec == BoardInit /\ [][BoardNext]_boardVars

=============================================================================
