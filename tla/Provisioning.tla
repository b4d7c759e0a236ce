---------------------------- MODULE Provisioning ----------------------------
(***************************************************************************)
(* One employee's gateway token: what the console decides (internal/ops),  *)
(* what it has recorded (employees, gateway_grants, credential_versions),  *)
(* what the LiteLLM gateway holds, and the handlers that bring the second  *)
(* and third in line with the first (internal/worker/gateway.go and        *)
(* reconcile.go), worked by loops off the queue that JobBoard describes.   *)
(*                                                                         *)
(* A transaction of the console is one action.  A handler is a program     *)
(* counter: each call to the gateway and each statement whose result is    *)
(* acted on later is a step of its own, so that everything else can happen *)
(* between two of them.  The transaction that stores a new token is two    *)
(* steps, the re-read of the employee and the commit, because nothing      *)
(* locks the employee's row in between.                                    *)
(*                                                                         *)
(* A token is an id; the stored credential is the id it holds.  Ids that   *)
(* nothing refers to any more are used again.  The gateway's user, with    *)
(* which quota and labels travel, is left out: its upsert is a step that   *)
(* may fail.  The delivery of the token to machines is the export's.       *)
(*                                                                         *)
(* A definition marked "Slip" is not part of the model: it is what a       *)
(* plausible mistake would make of the definition after it, kept to show   *)
(* that a property notices.                                                *)
(***************************************************************************)
EXTENDS Naturals, FiniteSets

CONSTANTS
  Worker,      \* worker loops
  NoWorker,
  MaxEpoch,    \* bound: how often the account is opened, closed, re-issued
  MaxEdits,    \* bound: how often the allowed models are edited
  Models,      \* allowlists an administrator may choose
  NoModels,    \* the allowlist of something that does not exist
  MaxToken,    \* bound: tokens that can be told apart at one time
  Mishaps,     \* which mishaps may happen, out of MishapKinds
  MaxMishaps   \* bound: how many of them

\* crash: the console's process dies.  late: a loop cannot renew its lease.
\* error: a call to the gateway or the database gets no answer.  cancel: an
\* administrator cancels a task.  seal: the master key cannot be used.  loss:
\* the gateway loses a key.  notfound: it answers a call with 404.
MishapKinds == {"crash", "late", "error", "cancel", "seal", "loss", "notfound"}

ASSUME ProvisioningAssumption ==
  /\ NoWorker \notin Worker
  /\ MaxEpoch \in Nat \ {0}
  /\ MaxEdits \in Nat
  /\ NoModels \notin Models
  /\ MaxToken \in Nat
  /\ Mishaps \subseteq MishapKinds
  /\ MaxMishaps \in Nat

Epoch == 1 .. MaxEpoch
Token == 1 .. MaxToken
NoToken == 0

\* A task's idempotency key: its kind, the epoch, and what marks an edit.
Provision(k, n) == [kind |-> "provision", epoch |-> k, edit |-> n]
Revoke(k) == [kind |-> "revoke", epoch |-> k, edit |-> 0]
Remove(k) == [kind |-> "delete", epoch |-> k, edit |-> 0]
\* Stands for the hourly rows: there is one at a time, whoever asked for it.
Reconcile == [kind |-> "reconcile", epoch |-> 0, edit |-> 0]
NoJob == [kind |-> "none", epoch |-> 0, edit |-> 0]

Job == {Provision(k, n) : k \in Epoch, n \in 0 .. MaxEdits}
  \cup {Revoke(k) : k \in Epoch} \cup {Remove(k) : k \in Epoch} \cup {Reconcile}

VARIABLES
  status,   \* employees.status and deleted_at
  epoch,    \* employees.auth_epoch
  wanted,   \* the models the employee may use
  edits,    \* how many edits of them were made
  grant,    \* gateway_grants, one row an epoch: the alias carries the epoch
  cred,     \* the live row of credential_versions: the token stored in it
  key,      \* the gateway's keys, by the epoch in their alias
  state,    \* the queue: see JobBoard
  holder,
  hand,     \* what each loop is doing
  mishaps,  \* how many mishaps there have been
  raced,    \* history: epochs left while a loop was about to commit for them
  unpushed  \* history: epochs a 404 ended a push of models for, until the next push

accountVars == <<status, epoch, wanted, edits>>
recordVars == <<grant, cred>>
gatewayVars == <<key>>
boardVars == <<state, holder>>
vars == <<accountVars, recordVars, gatewayVars, boardVars, hand, mishaps, raced, unpushed>>

Board == INSTANCE JobBoard

Grant == [desired : {"none", "active", "revoked"},
          actual : {"active", "revoked", "missing"},
          cred : Token \cup {NoToken},
          models : Models \cup {NoModels}]
NoGrant == [desired |-> "none", actual |-> "missing", cred |-> NoToken, models |-> NoModels]

Key == [token : Token \cup {NoToken}, models : Models \cup {NoModels}]
NoKey == [token |-> NoToken, models |-> NoModels]

\* Where a handler is; the last three are what it returned.
Pc == {"idle", "load", "upsert", "list", "retire", "look", "repair", "record", "check",
       "match", "update", "note", "find", "unkey", "mint", "reread", "commit",
       "takeback", "withdraw"} \cup {"ok", "retry", "permanent"}
Returned == {"ok", "retry", "permanent"}
ProvisionPcs == {"load", "upsert", "check", "match", "update", "note", "find", "unkey",
                 "mint", "reread", "commit", "takeback", "withdraw"}

\* A grant as a handler read it.
Listed == [epoch : Epoch, desired : {"active", "revoked"}]

Hand == [job : Job \cup {NoJob}, pc : Pc,
         todo : SUBSET Listed,                     \* grants still to go through
         seen : {"active", "revoked", "missing"},  \* what to record of one
         token : Token \cup {NoToken},             \* a key found or minted
         models : Models \cup {NoModels}]          \* the allowlist to push
EmptyHand == [job |-> NoJob, pc |-> "idle", todo |-> {}, seen |-> "missing",
              token |-> NoToken, models |-> NoModels]

Init ==
  /\ status = "absent"
  /\ epoch = 0
  /\ wanted = NoModels
  /\ edits = 0
  /\ grant = [k \in Epoch |-> NoGrant]
  /\ cred = NoToken
  /\ key = [k \in Epoch |-> NoKey]
  /\ Board!BoardInit
  /\ hand = [w \in Worker |-> EmptyHand]
  /\ mishaps = 0
  /\ raced = {}
  /\ unpushed = {}

-----------------------------------------------------------------------------
(* The console (ops.go).  Every operation is one transaction.              *)

OpenJobsBelow(k) ==
  {j \in Job : j.kind # "reconcile" /\ j.epoch < k /\ state[j] \in Board!OpenStates}

\* SupersedeOpenForEmployee below k, and Enqueue of j: a key seen before is
\* left as it is unless its task had failed.
SupersedeAndEnqueue(k, j) ==
  LET new == IF state[j] \in {"absent", "failed"} THEN {j} ELSE {} IN
  Board!Settle(OpenJobsBelow(k) \cup new,
               [i \in OpenJobsBelow(k) \cup new |-> IF i = j THEN "waiting" ELSE "dropped"])

revokeGrant ==
  grant' = [k \in Epoch |->
    IF grant[k].desired = "active" THEN [grant[k] EXCEPT !.desired = "revoked"] ELSE grant[k]]

\* A loop that has re-read the employee will commit whatever happens now.
NoteRace ==
  raced' = raced \cup {hand[w].job.epoch : w \in {v \in Worker : hand[v].pc = "commit"}}

replaceOutstandingWork(k) ==
  /\ SupersedeAndEnqueue(k, Provision(k, 0))
  /\ revokeGrant
  /\ UNCHANGED cred

Onboard(m) ==
  /\ status # "deleted"
  /\ epoch < MaxEpoch
  /\ status' = "active"
  /\ epoch' = epoch + 1
  /\ wanted' = m
  /\ replaceOutstandingWork(epoch + 1)
  /\ NoteRace
  /\ UNCHANGED <<edits, gatewayVars, hand, mishaps, unpushed>>

\* Also the scheduled rotation.
Reissue ==
  /\ status = "active"
  /\ epoch < MaxEpoch
  /\ epoch' = epoch + 1
  /\ replaceOutstandingWork(epoch + 1)
  /\ NoteRace
  /\ UNCHANGED <<status, wanted, edits, gatewayVars, hand, mishaps, unpushed>>

\* Offboarding somebody who has left does the same without moving the epoch.
Offboard ==
  /\ status \in {"active", "offboarded"}
  /\ status = "active" => epoch < MaxEpoch
  /\ LET k == IF status = "active" THEN epoch + 1 ELSE epoch IN
       /\ epoch' = k
       /\ SupersedeAndEnqueue(k, Revoke(k))
  /\ status' = "offboarded"
  /\ cred' = NoToken
  /\ revokeGrant
  /\ NoteRace
  /\ UNCHANGED <<wanted, edits, gatewayVars, hand, mishaps, unpushed>>

Delete ==
  /\ status = "offboarded"
  /\ status' = "deleted"
  /\ SupersedeAndEnqueue(epoch + 1, Remove(epoch))
  /\ UNCHANGED <<epoch, wanted, edits, recordVars, gatewayVars, hand, mishaps, raced, unpushed>>

\* Slip: the task is keyed on the epoch alone.
SetModelsUnmarked(m) ==
  /\ status # "absent"
  /\ edits < MaxEdits
  /\ wanted' = m
  /\ edits' = edits + 1
  /\ SupersedeAndEnqueue(0, Provision(epoch, 0))
  /\ UNCHANGED <<status, epoch, recordVars, gatewayVars, hand, mishaps, raced, unpushed>>

\* The epoch stays; the marker makes the task a new one.
SetModels(m) ==
  /\ status # "absent"
  /\ edits < MaxEdits
  /\ wanted' = m
  /\ edits' = edits + 1
  /\ Board!Post(Provision(epoch, edits + 1))
  /\ UNCHANGED <<status, epoch, recordVars, gatewayVars, hand, mishaps, raced, unpushed>>

\* SetQuota and UpdateProfile: as SetModels, but no models change.
SetQuota ==
  /\ status # "absent"
  /\ edits < MaxEdits
  /\ edits' = edits + 1
  /\ Board!Post(Provision(epoch, edits + 1))
  /\ UNCHANGED <<status, epoch, wanted, recordVars, gatewayVars, hand, mishaps, raced, unpushed>>

actionTaskRetry(j) ==
  /\ state[j] = "failed"
  /\ Board!Post(j)
  /\ UNCHANGED <<accountVars, recordVars, gatewayVars, hand, mishaps, raced, unpushed>>

\* The scheduler's hourly row, or the console's button.
EnqueueReconcile ==
  /\ state[Reconcile] \notin Board!OpenStates
  /\ Board!Settle({Reconcile}, [j \in {Reconcile} |-> "waiting"])
  /\ UNCHANGED <<accountVars, recordVars, gatewayVars, hand, mishaps, raced, unpushed>>

-----------------------------------------------------------------------------
(* The loop: taking a job, reporting, and what can happen to it.           *)

Mishap(m) ==
  /\ m \in Mishaps
  /\ mishaps < MaxMishaps
  /\ mishaps' = mishaps + 1

Busy(w) == hand[w].pc # "idle"
Goto(w, pc) == hand' = [hand EXCEPT ![w].pc = pc]
Return(w, result) == hand' = [hand EXCEPT ![w] = [EmptyHand EXCEPT !.job = hand[w].job, !.pc = result]]

Forget(w) == hand' = [hand EXCEPT ![w] = EmptyHand]

\* Claim: a task for an epoch the employee has left is not handed out.  No
\* handler is registered for gateway_delete, so RunOnce fails it at once.
Take(w, j) ==
  /\ ~Busy(w)
  /\ j.kind # "reconcile" => j.epoch >= epoch
  /\ Board!Take(w, j)
  /\ hand' = [hand EXCEPT ![w] = [EmptyHand EXCEPT !.job = j, !.pc =
       CASE j.kind = "provision" -> "load"
         [] j.kind = "delete"    -> "permanent"
         [] OTHER                -> "list"]]
  /\ UNCHANGED <<accountVars, recordVars, gatewayVars, mishaps, raced, unpushed>>

\* What the handler returned is recorded, unless the job has been taken away.
Report(w) ==
  LET j == hand[w].job
      outcomes == CASE hand[w].pc = "ok" -> {"done"}
                    [] hand[w].pc = "permanent" -> {"failed"}
                    [] OTHER -> {"waiting", "failed"}
  IN
  /\ hand[w].pc \in Returned
  /\ IF state[j] = "held" /\ holder[j] = w
       THEN \E s \in outcomes : Board!Close(w, j, s)
       ELSE UNCHANGED boardVars
  /\ Forget(w)
  /\ UNCHANGED <<accountVars, recordVars, gatewayVars, mishaps, raced, unpushed>>

\* The sweep: jobs held by a loop that is not working on them any more.
Sweep ==
  LET J == {j \in Job : state[j] = "held" /\ \A w \in Worker : holder[j] = w => hand[w].job # j} IN
  /\ \E S \in [J -> {"waiting", "failed"}] : Board!GiveBack(J, S)
  /\ UNCHANGED <<accountVars, recordVars, gatewayVars, hand, mishaps, raced, unpushed>>

\* The lease of a job lapses under a handler that goes on running.
LeaseLapses(j) ==
  /\ Mishap("late")
  /\ \E s \in {"waiting", "failed"} : Board!GiveBack({j}, [i \in {j} |-> s])
  /\ UNCHANGED <<accountVars, recordVars, gatewayVars, hand, raced, unpushed>>

actionTaskCancel(j) ==
  /\ Mishap("cancel")
  /\ Board!Withdraw({j})
  /\ UNCHANGED <<accountVars, recordVars, gatewayVars, hand, raced, unpushed>>

Crash(w) ==
  /\ Mishap("crash")
  /\ Busy(w)
  /\ Forget(w)
  /\ UNCHANGED <<accountVars, recordVars, gatewayVars, boardVars, raced, unpushed>>

\* A call or a statement gets no answer: before it did anything (here) or
\* after (the step it belongs to, then this one).
HandlerErrors(w) ==
  /\ Mishap("error")
  /\ Busy(w)
  /\ Return(w, "retry")
  /\ UNCHANGED <<accountVars, recordVars, gatewayVars, boardVars, raced, unpushed>>

KeyLost(k) ==
  /\ Mishap("loss")
  /\ key[k].token # NoToken
  /\ key' = [key EXCEPT ![k] = NoKey]
  /\ UNCHANGED <<accountVars, recordVars, boardVars, hand, raced, unpushed>>

-----------------------------------------------------------------------------
(* What the provision, revoke and reconcile handlers share.                *)

unchangedByHandlers == <<accountVars, boardVars, mishaps, raced, unpushed>>

OnGateway(k) == key[k].token # NoToken

\* DeleteKeyByAlias.  Asked for a key it does not have, the gateway may say
\* that it is gone (404) or that it is done.
DeleteKeyByAlias(k, done, gone) ==
  /\ key' = [key EXCEPT ![k] = NoKey]
  /\ IF OnGateway(k) THEN done ELSE done \/ gone
  /\ UNCHANGED <<unchangedByHandlers, recordVars>>

\* Slip: what is wanted is not asked.
ToRetireAny == {k \in Epoch : grant[k].desired # "none" /\ grant[k].actual = "active"}

ToRetire == {k \in Epoch : grant[k].desired = "revoked" /\ grant[k].actual = "active"}

\* ByEmployee: what there is to retire; NeedsReconcile: every grant (an hour
\* after the last run each of them is due).
ListGrants(w) ==
  /\ hand[w].pc = "list"
  /\ hand' = [hand EXCEPT
       ![w].todo = LET K == IF hand[w].job.kind = "reconcile"
                              THEN {k \in Epoch : grant[k].desired # "none"} ELSE ToRetire IN
                   {[epoch |-> k, desired |-> grant[k].desired] : k \in K},
       ![w].pc = IF hand[w].job.kind = "reconcile" THEN "look" ELSE "retire"]
  /\ UNCHANGED <<unchangedByHandlers, recordVars, gatewayVars>>

\* The newest first.
IsNext(w, g) == g \in hand[w].todo /\ \A h \in hand[w].todo : h.epoch <= g.epoch

\* All the grants have been gone through, or a delete was told "gone":
\* gatewayError makes that nil and the function returns.
LeaveLoop(w) ==
  IF hand[w].job.kind = "provision" THEN hand' = [hand EXCEPT ![w].pc = "check", ![w].todo = {}]
                                    ELSE Return(w, "ok")

retireOldKeys(w) ==
  /\ hand[w].pc = "retire"
  /\ \E g \in Listed :
       /\ IsNext(w, g)
       /\ DeleteKeyByAlias(g.epoch,
            hand' = [hand EXCEPT ![w].pc = "record", ![w].seen = "revoked"],
            LeaveLoop(w))

NothingLeft(w) ==
  /\ hand[w].pc \in {"retire", "look"}
  /\ hand[w].todo = {}
  /\ LeaveLoop(w)
  /\ UNCHANGED <<unchangedByHandlers, recordVars, gatewayVars>>

\* Slip: the difference is recorded but not repaired.
LookOnly(w) ==
  /\ hand[w].pc = "look"
  /\ \E g \in Listed :
       /\ IsNext(w, g)
       /\ hand' = [hand EXCEPT ![w].pc = "record", ![w].seen =
            IF OnGateway(g.epoch) THEN "active" ELSE "missing"]
  /\ UNCHANGED <<unchangedByHandlers, recordVars, gatewayVars>>

\* Reconcile asks for the key; that of a revoked grant is to be deleted ...
Look(w) ==
  /\ hand[w].pc = "look"
  /\ \E g \in Listed :
       /\ IsNext(w, g)
       /\ hand' = [hand EXCEPT
            ![w].pc = IF OnGateway(g.epoch) /\ g.desired = "revoked" THEN "repair" ELSE "record",
            ![w].seen = IF OnGateway(g.epoch) THEN g.desired ELSE "missing"]
  /\ UNCHANGED <<unchangedByHandlers, recordVars, gatewayVars>>

\* ... and if it is gone by then, the handler is done, nothing recorded.
Repair(w) ==
  /\ hand[w].pc = "repair"
  /\ \E g \in Listed :
       /\ IsNext(w, g) /\ g.desired = "revoked"
       /\ DeleteKeyByAlias(g.epoch, Goto(w, "record"), Return(w, "ok"))

RecordActual(w) ==
  /\ hand[w].pc = "record"
  /\ \E g \in Listed :
       /\ IsNext(w, g)
       /\ grant' = [grant EXCEPT ![g.epoch].actual = hand[w].seen]
       /\ hand' = [hand EXCEPT
            ![w].todo = @ \ {g},
            ![w].seen = "missing",
            ![w].pc = IF hand[w].job.kind = "reconcile" THEN "look" ELSE "retire"]
  /\ UNCHANGED <<unchangedByHandlers, cred, gatewayVars>>

-----------------------------------------------------------------------------
(* GatewayProvision.Run                                                    *)

Load(w) ==
  /\ hand[w].pc = "load"
  /\ IF status = "active" /\ epoch = hand[w].job.epoch
       THEN hand' = [hand EXCEPT ![w].pc = "upsert", ![w].models = wanted]
       ELSE Return(w, "permanent")
  /\ UNCHANGED <<unchangedByHandlers, recordVars, gatewayVars>>

UpsertUser(w) ==
  /\ hand[w].pc = "upsert"
  /\ Goto(w, "list")
  /\ UNCHANGED <<unchangedByHandlers, recordVars, gatewayVars>>

\* alreadyIssued: with the models as they should be, the grant is recorded
\* as observed and the handler is done.
alreadyIssued(w) ==
  LET k == hand[w].job.epoch
      issued == grant[k].desired = "active" /\ cred # NoToken /\ cred = grant[k].cred
      same == grant[k].models = hand[w].models
  IN
  /\ hand[w].pc = "check"
  /\ CASE ~issued        -> Goto(w, "find") /\ UNCHANGED grant
       [] issued /\ same -> /\ grant' = [grant EXCEPT ![k].actual = "active"]
                            /\ Return(w, "ok")
       [] OTHER          -> /\ hand' = [hand EXCEPT ![w].pc = "match", ![w].seen = grant[k].actual]
                            /\ UNCHANGED grant
  /\ UNCHANGED <<unchangedByHandlers, cred, gatewayVars>>

\* Other models are allowed now: the key is looked up ...
MatchKey(w) ==
  LET k == hand[w].job.epoch IN
  /\ hand[w].pc = "match"
  /\ hand' = [hand EXCEPT ![w].pc = IF OnGateway(k) THEN "update" ELSE "find",
                          ![w].token = key[k].token]
  /\ UNCHANGED <<unchangedByHandlers, recordVars, gatewayVars>>

\* ... and updated by its own handle (404 if it has been replaced since) ...
UpdateKey(w) ==
  LET k == hand[w].job.epoch
      there == key[k].token = hand[w].token
  IN
  /\ hand[w].pc = "update"
  /\ key' = IF there THEN [key EXCEPT ![k].models = hand[w].models] ELSE key
  /\ Goto(w, IF there THEN "note" ELSE "find")
  /\ UNCHANGED <<unchangedByHandlers, recordVars>>

\* ... and the grant's row follows.
NoteModels(w) ==
  LET k == hand[w].job.epoch IN
  /\ hand[w].pc = "note"
  /\ grant' = [grant EXCEPT ![k].models = hand[w].models,
                            ![k].actual = IF hand[w].seen = "active" THEN @ ELSE "active"]
  /\ unpushed' = unpushed \ {k}
  /\ Return(w, "ok")
  /\ UNCHANGED <<accountVars, boardVars, mishaps, raced, cred, gatewayVars>>

FindKey(w) ==
  /\ hand[w].pc = "find"
  /\ Goto(w, IF OnGateway(hand[w].job.epoch) THEN "unkey" ELSE "mint")
  /\ UNCHANGED <<unchangedByHandlers, recordVars, gatewayVars>>

\* A key left by an earlier attempt; "gone" returns nil and the task is done.
ReplaceKey(w) ==
  /\ hand[w].pc = "unkey"
  /\ DeleteKeyByAlias(hand[w].job.epoch, Goto(w, "mint"), Return(w, "ok"))

Used == {cred} \cup {grant[k].cred : k \in Epoch} \cup {key[k].token : k \in Epoch}
        \cup {hand[w].token : w \in Worker}

\* The gateway refuses an alias it has already (400, a permanent failure).
GenerateKey(w) ==
  LET k == hand[w].job.epoch IN
  /\ hand[w].pc = "mint"
  /\ IF OnGateway(k)
       THEN Return(w, "permanent") /\ UNCHANGED key
       ELSE \E t \in Token \ Used :
              /\ \A u \in Token \ Used : t <= u
              /\ key' = [key EXCEPT ![k] = [token |-> t, models |-> hand[w].models]]
              /\ hand' = [hand EXCEPT ![w].pc = "reread", ![w].token = t]
  /\ UNCHANGED <<unchangedByHandlers, recordVars>>

\* gatewayError makes nil of any 404: most calls' end the handler with success,
\* those of alreadyIssued end that function, a delete's the loop it is in.
AnswersNotFound(w) ==
  LET pc == hand[w].pc IN
  /\ Mishap("notfound")
  /\ \/ pc \in {"upsert", "find", "unkey", "mint", "look", "repair"} /\ Return(w, "ok")
     \/ pc \in {"match", "update"} /\ Goto(w, "find")
     \/ pc = "retire" /\ LeaveLoop(w)
  /\ pc \in {"look", "retire"} => hand[w].todo # {}
  /\ unpushed' = unpushed \cup (IF pc \in ProvisionPcs THEN {hand[w].job.epoch} ELSE {})
  /\ UNCHANGED <<accountVars, recordVars, gatewayVars, boardVars, raced>>

SealFails(w) ==
  /\ Mishap("seal")
  /\ hand[w].pc = "reread"
  /\ Goto(w, "takeback")
  /\ UNCHANGED <<accountVars, recordVars, gatewayVars, boardVars, raced, unpushed>>

\* The token could not be sealed.  Here "gone" is an error like any other.
TakeBack(w) ==
  /\ hand[w].pc = "takeback"
  /\ DeleteKeyByAlias(hand[w].job.epoch, Return(w, "retry"), Return(w, "retry"))

\* Slip: the employee is not read again.
ReReadNothing(w) ==
  /\ hand[w].pc = "reread"
  /\ Goto(w, "commit")
  /\ UNCHANGED <<unchangedByHandlers, recordVars, gatewayVars>>

ReReadEmployee(w) ==
  /\ hand[w].pc = "reread"
  /\ Goto(w, IF epoch = hand[w].job.epoch THEN "commit" ELSE "withdraw")
  /\ UNCHANGED <<unchangedByHandlers, recordVars, gatewayVars>>

\* The credential and the grant are stored together.  A row for this alias
\* or another active grant breaks a unique index: everything is rolled back.
Commit(w) ==
  LET k == hand[w].job.epoch
      refused == grant[k].desired # "none" \/ \E i \in Epoch : grant[i].desired = "active"
  IN
  /\ hand[w].pc = "commit"
  /\ IF refused
       THEN Return(w, "retry") /\ UNCHANGED <<recordVars, unpushed>>
       ELSE /\ cred' = hand[w].token
            /\ unpushed' = unpushed \ {k}
            /\ grant' = [grant EXCEPT ![k] = [desired |-> "active", actual |-> "active",
                                              cred |-> hand[w].token, models |-> hand[w].models]]
            /\ Return(w, "ok")
  /\ UNCHANGED <<accountVars, boardVars, mishaps, raced, gatewayVars>>

\* The employee moved on while the key was being made.
WithdrawKey(w) ==
  /\ hand[w].pc = "withdraw"
  /\ DeleteKeyByAlias(hand[w].job.epoch, Return(w, "permanent"), Return(w, "retry"))

-----------------------------------------------------------------------------

Handle(w) ==
  \/ ListGrants(w) \/ retireOldKeys(w) \/ NothingLeft(w) \/ Look(w) \/ Repair(w) \/ RecordActual(w)
  \/ Load(w) \/ UpsertUser(w) \/ alreadyIssued(w) \/ MatchKey(w) \/ UpdateKey(w)
  \/ NoteModels(w) \/ FindKey(w) \/ ReplaceKey(w) \/ GenerateKey(w) \/ TakeBack(w)
  \/ ReReadEmployee(w) \/ Commit(w) \/ WithdrawKey(w)

Admin ==
  \/ \E m \in Models : Onboard(m) \/ SetModels(m)
  \/ Reissue \/ Offboard \/ Delete \/ SetQuota
  \/ \E j \in Job : actionTaskRetry(j) \/ actionTaskCancel(j)

Misfortune ==
  \/ \E w \in Worker : Crash(w) \/ HandlerErrors(w) \/ AnswersNotFound(w) \/ SealFails(w)
  \/ \E j \in Job : LeaseLapses(j)
  \/ \E k \in Epoch : KeyLost(k)

Next ==
  \/ Admin
  \/ EnqueueReconcile
  \/ \E w \in Worker : (\E j \in Job : Take(w, j)) \/ Handle(w) \/ Report(w)
  \/ Sweep
  \/ Misfortune

Spec == Init /\ [][Next]_vars

\* Loops poll and their calls time out, the sweep runs every minute, the
\* scheduler queues a reconcile every hour, and the claim takes tasks in the
\* order in which they fall due, so that none is passed over for ever.
Fairness ==
  /\ \A w \in Worker : WF_vars(Handle(w)) /\ WF_vars(Report(w))
  /\ WF_vars(Sweep)
  /\ WF_vars(EnqueueReconcile)
  /\ \A j \in Job : SF_vars(\E w \in Worker : Take(w, j))

FairSpec == Spec /\ Fairness

-----------------------------------------------------------------------------

\* What a loop carries fits where it is: an idle loop carries nothing, and
\* one that is about to store, withdraw or update a key knows which.
HandFitsItsPlace(h) ==
  /\ h.pc = "idle" => h = EmptyHand
  /\ h.pc \in ProvisionPcs => h.job.kind = "provision"
  /\ h.pc \in {"update", "reread", "commit", "takeback", "withdraw"} => h.token # NoToken

\* The rows and hands have the types their columns and variables have.
TypeOK ==
  /\ status \in {"absent", "active", "offboarded", "deleted"}
  /\ epoch \in 0 .. MaxEpoch
  /\ wanted \in Models \cup {NoModels}
  /\ edits \in 0 .. MaxEdits
  /\ grant \in [Epoch -> Grant]
  /\ cred \in Token \cup {NoToken}
  /\ key \in [Epoch -> Key]
  /\ Board!BoardTypeOK
  /\ hand \in [Worker -> Hand]
  /\ \A w \in Worker : HandFitsItsPlace(hand[w])
  /\ mishaps \in 0 .. MaxMishaps
  /\ raced \in SUBSET Epoch
  /\ unpushed \in SUBSET Epoch

\* The token the console would deliver is the token of the grant it believes
\* in, so that revoking "the" grant revokes the token people have.
ActiveGrantHoldsLiveCredential ==
  \A k \in Epoch : grant[k].desired = "active" => cred # NoToken /\ grant[k].cred = cred

\* Nobody who has left, and no epoch that has been left, has a grant, unless
\* the account moved between the re-read and the commit of a transaction
\* storing a token for that epoch.
GrantMatchesAccount ==
  \A k \in Epoch : grant[k].desired = "active" =>
    k \in raced \/ (status = "active" /\ k = epoch)

\* The same of the credential.
NoTokenForLeavers == status # "active" /\ cred # NoToken => raced # {}

\* A handler that got past its first look works for the current epoch of an
\* active account or for one that has been left since; one that got past the
\* second look, inside the transaction, works for the current one or raced.
Timely(h) ==
  /\ h.job.kind = "provision" /\ h.pc \notin {"load"} \cup Returned =>
       h.job.epoch < epoch \/ (h.job.epoch = epoch /\ status = "active")
  /\ h.pc = "commit" =>
       h.job.epoch \in raced \/ (h.job.epoch = epoch /\ status = "active")
HandsAreTimely == \A w \in Worker : Timely(hand[w])

OneActiveGrant ==
  \A i, k \in Epoch : grant[i].desired = "active" /\ grant[k].desired = "active" => i = k

\* The inductive invariant.
ProvisioningInv ==
  /\ TypeOK
  /\ HandsAreTimely
  /\ OneActiveGrant
  /\ ActiveGrantHoldsLiveCredential
  /\ GrantMatchesAccount
  /\ NoTokenForLeavers

Quiet == \A w \in Worker : ~Busy(w)

\* Left alone, the handlers leave no key of an epoch that is over without a
\* row that speaks of it: such a key, which no reconciliation would ever look
\* for, means that something went wrong.
Unrecorded(k) ==
  /\ OnGateway(k)
  /\ grant[k].desired = "none"
  /\ k < epoch
  /\ \A w \in Worker : hand[w].job.epoch # k

UnrecordedKeysNeedAMishap == (\E k \in Epoch : Unrecorded(k)) => mishaps > 0 \/ raced # {}

\* The token stored for the machines is the one the gateway knows: no retry
\* after a crash or a lost answer replaces a key under a stored credential.
StoredTokenWorks ==
  \A k \in Epoch : grant[k].desired = "active" => key[k].token = cred

\* A provisioning task recorded as succeeded has left a grant behind.
DoneMeansGranted ==
  \A k \in Epoch, n \in 0 .. MaxEdits :
    state[Provision(k, n)] = "done" => grant[k].desired # "none"

\* "Succeeded" also means the gateway applies the models chosen last, once
\* no provisioning is outstanding: an edit made while an earlier task runs
\* reaches the key, and nothing older overwrites it.  A push that a 404 ended
\* is made good by the next push for its epoch, not before.
ProvisionSucceeded(k, n) == state[Provision(k, n)] \in {"absent", "done"}
ModelsConverge ==
  LET settled == \A n \in 0 .. MaxEdits : ProvisionSucceeded(epoch, n) IN
  Quiet /\ status = "active" /\ settled /\ epoch \notin raced \cup unpushed
    /\ grant[epoch].desired = "active" =>
      grant[epoch].models = wanted /\ key[epoch].models \in {wanted, NoModels}

\* What raising the epoch is for (employees.go:121-123): a provisioning that
\* was in flight "is dropped, instead of handing a working token to somebody
\* who left".
LeaversHaveNoToken == status # "active" => cred = NoToken

\* A revoked token leaves the gateway, whatever crashes or is cancelled: the
\* hourly reconciliation picks up what the revoke task did not do.
RevokedKeysLeave ==
  \A k \in Epoch : (grant[k].desired = "revoked" /\ OnGateway(k)) ~> ~OnGateway(k)

=============================================================================
