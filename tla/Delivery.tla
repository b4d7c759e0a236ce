------------------------------ MODULE Delivery ------------------------------
(***************************************************************************)
(* From a decision in the console to the files in a Windows profile.       *)
(*                                                                         *)
(* The console's operations (internal/ops) change rows and queue exports   *)
(* in one transaction.  An export (internal/worker/export.go) holds an     *)
(* advisory lock while it reads the database and rewrites what machines    *)
(* read: an employee's archive in the bucket and their bundle in the       *)
(* database, a machine's binding object.  An agent (internal/agentcore)    *)
(* reads which employee its machine serves, then asks for the credentials, *)
(* then touches the profile, then ends the Codex that holds the old token. *)
(* It reads the bucket ("oss") or asks the console ("api").                *)
(*                                                                         *)
(* A transaction of the console is one action.  An export and an agent's   *)
(* cycle are program counters with a step for each read of shared state    *)
(* and each write that others can see.  The objects an export writes are   *)
(* seen at once, the bundle it stores when its transaction commits.        *)
(*                                                                         *)
(* A delivery's content is the employee and the epoch of the token in it;  *)
(* models and the rest of the archive travel with it and are left out, as  *)
(* are release targets.  An export that fails is tried again or, when it is*)
(* refused for good or was tried often enough (TaskQueue), ends failed.    *)
(* How the token comes to be is Provisioning.                              *)
(*                                                                         *)
(* A definition marked "Slip" is not part of the model: it is what a       *)
(* plausible mistake would make of the definition after it.                *)
(***************************************************************************)
EXTENDS Naturals, FiniteSets

CONSTANTS
  Employee, Device, Worker,
  User,         \* Windows user names
  UserOf,       \* the Windows user of each employee
  Nobody, NoUser,
  Staff,        \* employees whose account is open, and delivered, at the start
  Desks,        \* machines whose agent runs
  Present,      \* Windows users who have signed in to every machine at the start
  Coders,       \* Windows users who start Codex
  Channels,     \* where a machine's agent may start reading: "oss", "api"
  MaxEpoch,     \* bound: how often one account is opened, closed, re-issued
  MaxRestarts,  \* bound: requests to restart Codex
  MaxToggles,   \* bound: switches of the bucket channel
  Mishaps,      \* which mishaps may happen, out of MishapKinds
  MaxEvents     \* bound: operations of the console and events, together

\* crash: the console's process dies.  late: a lease runs out while its loop
\* is still working.  object: a write to the bucket fails.  refuse: an export
\* ends failed.  outage: an agent cannot read its binding.  silence: it gets no
\* answer about credentials.  files: some of a user's files cannot be written or
\* removed.  restart: the agent's service restarts.  deny: Windows refuses to
\* end Codex.
MishapKinds == {"crash", "late", "object", "refuse", "outage", "silence", "files",
                "restart", "deny"}

Assumptions ==
  /\ UserOf \in [Employee -> User]
  /\ Nobody \notin Employee \cup Device
  /\ NoUser \notin User
  /\ Employee \cap Device = {}
  /\ Staff \subseteq Employee
  /\ \A e, f \in Staff : UserOf[e] = UserOf[f] => e = f
  /\ Desks \subseteq Device
  /\ Present \subseteq User /\ Coders \subseteq User
  /\ Channels \subseteq {"oss", "api"}
  /\ MaxEpoch \in Nat \ {0}
  /\ MaxRestarts \in Nat
  /\ MaxToggles \in Nat
  /\ Mishaps \subseteq MishapKinds
  /\ MaxEvents \in Nat

ASSUME DeliveryAssumption == Assumptions

VARIABLES
  account,   \* employees and the live row of credential_versions
  machine,   \* devices and their open device_bindings row
  writing,   \* DeviceChannelSettings.WriteOSSObjects
  due,       \* open tasks of kind oss_export
  failed,    \* history: the people and machines whose last export ended failed
  bundle,    \* credential_bundles: the newest row of each employee
  archive,   \* the bucket's credentials.zip by Windows user
  object,    \* the bucket's binding object by machine
  hand,      \* what each worker loop is doing
  agent,     \* what each agent is doing and what its markers say
  profile,   \* the delivered files in each Windows profile
  session,   \* the token the running Codex of each Windows user holds
  local,     \* Windows users with a profile on each machine
  events, toggles,  \* counters for the bounds
  asker,     \* history: whom each restart request was made for
  quiet,     \* history: machines whose console side was at rest, and answered, when
             \* the cycle of their agent began, and has been at rest since
  crossed    \* history: machines that changed hands while their agent was acting,
             \* or whose agent acts on a document from before

consoleVars == <<account, machine, writing>>
storeVars == <<failed, bundle, archive, object>>
deskVars == <<agent, profile, session, local>>
countVars == <<events, toggles>>
pastVars == <<asker, crossed, quiet>>
vars == <<consoleVars, due, storeVars, hand, deskVars, countVars, pastVars>>

Epoch == 0 .. MaxEpoch
Nonce == 0 .. MaxRestarts
Content == [emp : Employee, token : Epoch]
Nothing == [emp |-> Nobody, token |-> 0]
MaybeContent == Content \cup {Nothing}

\* A binding document: the Windows user and the pending restart request.
Document == [user : User \cup {NoUser}, nonce : Nonce]
Absent == [user |-> NoUser, nonce |-> 0]

\* An oss_export task says what to rewrite; an employee's has a target epoch.
DeviceJob(d) == [about |-> d, epoch |-> 0]
EmployeeJob(e, k) == [about |-> e, epoch |-> k]
Job == {DeviceJob(d) : d \in Device} \cup {EmployeeJob(e, k) : e \in Employee, k \in Epoch}
NoJob == [about |-> Nobody, epoch |-> 0]

\* What an agent remembers of a delivery: the etag names the channel's copy.
Mark == [via : {"oss", "api", "none"}, content : MaybeContent]
NoMark == [via |-> "none", content |-> Nothing]

Account == [status : {"none", "open", "closed", "deleted"}, epoch : Epoch, token : Epoch]
Machine == [holder : Employee \cup {Nobody}, nonce : Nonce, gone : BOOLEAN]

Hand == [job : Job \cup {NoJob},
         pc : {"idle", "publish", "next", "write"},
         content : MaybeContent,   \* what to deliver, as read under the lock
         epoch : Epoch,            \* and the epoch it was read at
         image : Document,         \* the binding document to write
         target : Device \cup {Nobody},
         locks : SUBSET (Employee \cup Device),
         todo : SUBSET Device]     \* bindings still to refresh
Idle == [job |-> NoJob, pc |-> "idle", content |-> Nothing, epoch |-> 0, image |-> Absent,
         target |-> Nobody, locks |-> {}, todo |-> {}]

Agent == [channel : {"oss", "api"},
          pc : {"rest", "ask", "mark", "revoke", "end", "nudge", "noted"},
          bind : Document,                  \* the binding of this cycle, or the last
          mark : Mark,                      \* creds-etag marker
          etag : Mark,                      \* the etag just delivered
          ends : SUBSET User,               \* whose Codex to end
          swept : BOOLEAN,                  \* one was ended in this cycle
          noted : Nonce,                    \* codex-restart-nonce marker
          left : SUBSET User,               \* whose files were removed but for some
          cut : BOOLEAN]                    \* history: see CutShort
NewAgent(c) ==
  [channel |-> c, pc |-> "rest", bind |-> Absent, mark |-> NoMark, etag |-> NoMark,
   ends |-> {}, swept |-> FALSE, noted |-> 0, left |-> {}, cut |-> FALSE]

\* A console at rest: some accounts are open and exported, some machines
\* assigned, and no agent has run yet.
Init ==
  /\ account = [e \in Employee |-> IF e \in Staff THEN [status |-> "open", epoch |-> 1, token |-> 1]
                                   ELSE [status |-> "none", epoch |-> 0, token |-> 0]]
  /\ machine \in [Device -> {[holder |-> h, nonce |-> 0, gone |-> FALSE] : h \in Staff \cup {Nobody}}]
  /\ writing = TRUE
  /\ due = {} /\ failed = {}
  /\ bundle = [e \in Employee |-> [epoch |-> account[e].epoch, token |-> account[e].token]]
  /\ archive = [u \in User |-> IF \E e \in Staff : UserOf[e] = u
                               THEN [emp |-> CHOOSE e \in Staff : UserOf[e] = u, token |-> 1]
                               ELSE Nothing]
  /\ object = [d \in Device |-> IF machine[d].holder = Nobody THEN Absent
                                ELSE [user |-> UserOf[machine[d].holder], nonce |-> 0]]
  /\ hand = [w \in Worker |-> Idle]
  /\ agent \in [Device -> {NewAgent(c) : c \in Channels}]
  /\ profile = [d \in Device |-> [u \in User |-> Nothing]]
  /\ session = [d \in Device |-> [u \in User |-> Nothing]]
  /\ local = [d \in Device |-> Present]
  /\ events = 0 /\ toggles = 0
  /\ asker = [n \in Nonce |-> Nobody]
  /\ crossed = {}
  /\ quiet = {}

Event ==
  /\ events < MaxEvents
  /\ events' = events + 1

Mishap(kind) ==
  /\ kind \in Mishaps
  /\ Event

-----------------------------------------------------------------------------
(* The console's operations (internal/ops): each is one transaction.       *)

Decision ==
  /\ Event
  /\ quiet' = {}

Open(e) == account[e].status = "open"

\* SupersedeOpenForEmployee below k, then enqueueEmployeeExport at k.
ReplaceExports(e, k) == {j \in due : j.about # e} \cup {EmployeeJob(e, k)}

\* The Windows user is unique among employees that are not deleted.
NameIsFree(e) ==
  \A f \in Employee \ {e} : UserOf[f] = UserOf[e] => account[f].status \in {"none", "deleted"}

\* No other account ever had the employee's Windows user.
OwnName(e) == \A f \in Employee \ {e} : UserOf[f] = UserOf[e] => account[f].status = "none"

\* Onboard: a new account, or a closed one opened again.
Onboard(e) ==
  /\ account[e].status \in {"none", "closed"}
  /\ NameIsFree(e)
  /\ account[e].epoch < MaxEpoch
  /\ account' = [account EXCEPT ![e].status = "open", ![e].epoch = @ + 1]
  /\ due' = ReplaceExports(e, account[e].epoch + 1)
  /\ Decision
  /\ UNCHANGED <<machine, writing, storeVars, hand, deskVars, toggles, asker, crossed>>

\* Reissue, Rotate, and Onboard of an account that is open.
Reissue(e) ==
  /\ Open(e)
  /\ account[e].epoch < MaxEpoch
  /\ account' = [account EXCEPT ![e].epoch = @ + 1]
  /\ due' = ReplaceExports(e, account[e].epoch + 1)
  /\ Decision
  /\ UNCHANGED <<machine, writing, storeVars, hand, deskVars, toggles, asker, crossed>>

\* The token is stored and no export is queued with it.
SlipStoreToken(e) ==
  /\ Open(e)
  /\ account[e].token # account[e].epoch
  /\ account' = [account EXCEPT ![e].token = account[e].epoch]
  /\ quiet' = {}
  /\ UNCHANGED <<machine, writing, due, storeVars, hand, deskVars, countVars, asker, crossed>>

\* What the provisioning's last transaction does here.
StoreToken(e) ==
  /\ Open(e)
  /\ account[e].token # account[e].epoch
  /\ account' = [account EXCEPT ![e].token = account[e].epoch]
  /\ due' = due \cup {EmployeeJob(e, account[e].epoch)}
  /\ quiet' = {}
  /\ UNCHANGED <<machine, writing, storeVars, hand, deskVars, countVars, asker, crossed>>

Offboard(e) ==
  /\ Open(e)
  /\ account[e].epoch < MaxEpoch
  /\ account' = [account EXCEPT ![e] = [status |-> "closed", epoch |-> @.epoch + 1, token |-> 0]]
  /\ due' = ReplaceExports(e, account[e].epoch + 1)
  /\ Decision
  /\ UNCHANGED <<machine, writing, storeVars, hand, deskVars, toggles, asker, crossed>>

\* The row stays; its Windows user is free for the next account.
Delete(e) ==
  /\ account[e].status = "closed"
  /\ account' = [account EXCEPT ![e].status = "deleted"]
  /\ due' = ReplaceExports(e, account[e].epoch)
  /\ Decision
  /\ UNCHANGED <<machine, writing, storeVars, hand, deskVars, toggles, asker, crossed>>

\* History: the machine changes hands after its agent has read its binding.
Crossing(d) == IF agent[d].pc \in {"ask", "revoke"} THEN crossed \cup {d} ELSE crossed

\* The exports a machine's change queues: its own and those of the people.
MoveExports(d, people) ==
  due \cup {DeviceJob(d)} \cup {EmployeeJob(e, account[e].epoch) : e \in people \ {Nobody}}

\* The request that was pending stays on the machine.
SlipBindMachine(d, e) ==
  /\ Open(e)
  /\ machine' = [machine EXCEPT ![d].holder = e]
  /\ due' = MoveExports(d, {e, machine[d].holder})
  /\ Decision
  /\ crossed' = Crossing(d)
  /\ UNCHANGED <<account, writing, storeVars, hand, deskVars, toggles, asker>>

\* BindMachine: whoever had the machine loses it in the same transaction, and
\* a pending restart request goes with the binding it was made on.
BindMachine(d, e) ==
  /\ Open(e)
  /\ machine' = [machine EXCEPT ![d].holder = e, ![d].nonce = 0]
  /\ due' = MoveExports(d, {e, machine[d].holder})
  /\ Decision
  /\ crossed' = Crossing(d)
  /\ UNCHANGED <<account, writing, storeVars, hand, deskVars, toggles, asker>>

UnbindMachine(d) ==
  /\ machine[d].holder # Nobody
  /\ machine' = [machine EXCEPT ![d].holder = Nobody, ![d].nonce = 0]
  /\ due' = MoveExports(d, {})
  /\ Decision
  /\ crossed' = Crossing(d)
  /\ UNCHANGED <<account, writing, storeVars, hand, deskVars, toggles, asker>>

ForgetMachine(d) ==
  /\ ~machine[d].gone
  /\ machine' = [machine EXCEPT ![d] = [holder |-> Nobody, nonce |-> 0, gone |-> TRUE]]
  /\ due' = MoveExports(d, {machine[d].holder})
  /\ Decision
  /\ crossed' = Crossing(d)
  /\ UNCHANGED <<account, writing, storeVars, hand, deskVars, toggles, asker>>

\* Every request has a nonce of its own.
RequestCodexRestart(d) ==
  /\ machine[d].holder # Nobody
  /\ \E n \in Nonce \ {0} :
       /\ asker[n] = Nobody
       /\ \A i \in 1 .. n - 1 : asker[i] # Nobody
       /\ machine' = [machine EXCEPT ![d].nonce = n]
       /\ asker' = [asker EXCEPT ![n] = machine[d].holder]
  /\ due' = MoveExports(d, {})
  /\ Decision
  /\ UNCHANGED <<account, writing, storeVars, hand, deskVars, toggles, crossed>>

\* actionDeviceChannel saves the switch and queues nothing.
SwitchChannel ==
  /\ toggles < MaxToggles
  /\ writing' = ~writing
  /\ toggles' = toggles + 1
  /\ Decision
  /\ UNCHANGED <<account, machine, due, storeVars, hand, deskVars, asker, crossed>>

-----------------------------------------------------------------------------
(* The export (internal/worker/export.go).                                 *)

\* deviceconfig.Build: what one machine should be told.
Build(d) ==
  IF machine[d].gone \/ machine[d].holder = Nobody THEN Absent
  ELSE [user |-> UserOf[machine[d].holder], nonce |-> machine[d].nonce]

\* What an employee's machines should hold: nothing for an account that is
\* closed or has no token yet.
Deliverable(e) ==
  IF Open(e) /\ account[e].token # 0 THEN [emp |-> e, token |-> account[e].token] ELSE Nothing

Go(w, to) == hand' = [hand EXCEPT ![w] = to]

exportFrame == <<consoleVars, deskVars, toggles, pastVars>>

\* What is claimed is queued no more; a task whose employee has moved to a
\* newer epoch is superseded and does not come back.
Requeued(j) ==
  IF \E e \in Employee : j.about = e /\ j.epoch < account[e].epoch THEN due ELSE due \cup {j}

\* The lease runs out, or the process dies with the work done and not
\* recorded: the task is for any loop to take, and this one carries on.
Lapse(w) ==
  /\ hand[w].pc # "idle"
  /\ Mishap("late")
  /\ due' = Requeued(hand[w].job)
  /\ UNCHANGED <<storeVars, hand, exportFrame>>

\* pg_advisory_xact_lock: held until the transaction ends.
SlipLockFree(w, s) == TRUE

LockFree(w, s) == \A v \in Worker \ {w} : s \notin hand[v].locks

\* A loop claims a task and its handler takes the lock; then what the task
\* points at is read.
Claim(w) ==
  /\ hand[w].pc = "idle"
  /\ \E j \in due :
       LET x == j.about  h == [Idle EXCEPT !.job = j, !.locks = {x}] IN
       /\ LockFree(w, x)
       /\ due' = due \ {j}
       /\ failed' = failed \ {x}
       /\ Go(w, IF x \in Device THEN [h EXCEPT !.image = Build(x), !.target = x, !.pc = "write"]
                ELSE [h EXCEPT !.content = Deliverable(x), !.epoch = account[x].epoch,
                               !.pc = "publish"])
  /\ UNCHANGED <<bundle, archive, object, events, exportFrame>>

\* publish or withdraw: the object of the employee's Windows user, unless the
\* channel is off; then the machines the employee has now.
Publish(w) ==
  LET h == hand[w]  e == h.job.about IN
  /\ h.pc = "publish"
  /\ archive' = IF writing THEN [archive EXCEPT ![UserOf[e]] = h.content] ELSE archive
  /\ Go(w, [h EXCEPT !.todo = {d \in Device : machine[d].holder = e}, !.pc = "next"])
  /\ UNCHANGED <<due, failed, bundle, object, events, exportFrame>>

\* refreshBindings: the machine's lock as well, employee before machine.
NextBinding(w) ==
  LET h == hand[w] IN
  /\ h.pc = "next"
  /\ \E d \in h.todo :
       /\ LockFree(w, d)
       /\ Go(w, [h EXCEPT !.locks = @ \cup {d}, !.image = Build(d), !.target = d,
                          !.todo = @ \ {d}, !.pc = "write"])
  /\ UNCHANGED <<due, storeVars, events, exportFrame>>

\* exportBinding puts the document, or removes the object.
WriteBinding(w) ==
  LET h == hand[w] IN
  /\ h.pc = "write"
  /\ object' = IF writing THEN [object EXCEPT ![h.target] = h.image] ELSE object
  /\ Go(w, [h EXCEPT !.pc = "next"])
  /\ UNCHANGED <<due, failed, bundle, archive, events, exportFrame>>

\* The bundle becomes visible, the locks are released, the task succeeded.  A row for an epoch
\* the employee has left is never read and is not kept.
Commit(w) ==
  LET h == hand[w]  e == h.job.about IN
  /\ h.pc = "next" /\ h.todo = {}
  /\ bundle' = IF e \in Device \/ h.epoch < bundle[e].epoch THEN bundle
               ELSE [bundle EXCEPT ![e] = [epoch |-> h.epoch, token |-> h.content.token]]
  /\ Go(w, Idle)
  /\ UNCHANGED <<due, failed, archive, object, events, exportFrame>>

\* A write to the bucket fails: the transaction is rolled back and the task
\* waits for its next attempt.
FailWrite(w) ==
  /\ hand[w].pc \in {"publish", "write"}
  /\ writing
  /\ Mishap("object")
  /\ due' = Requeued(hand[w].job)
  /\ Go(w, Idle)
  /\ UNCHANGED <<storeVars, exportFrame>>

\* The export is refused for good (the token cannot be opened, none of the
\* models is on the gateway, the archive there is unreadable), or a write to the
\* bucket fails once too often: the transaction is rolled back, the task ends
\* failed, and nothing asks for another.
RefuseExport(w) ==
  LET h == hand[w] IN
  /\ \/ h.pc = "publish" /\ (h.content # Nothing \/ writing)
     \/ h.pc = "write" /\ writing
  /\ Mishap("refuse")
  /\ failed' = failed \cup {h.job.about}
  /\ Go(w, Idle)
  /\ UNCHANGED <<due, bundle, archive, object, exportFrame>>

\* Every loop of the process is gone; its leases run out.
CrashConsole ==
  /\ \E w \in Worker : hand[w] # Idle
  /\ Mishap("crash")
  /\ hand' = [w \in Worker |-> Idle]
  /\ due' = UNION {Requeued(hand[w].job) : w \in {v \in Worker : hand[v].pc # "idle"}}
  /\ UNCHANGED <<storeVars, exportFrame>>

\* Work on x is open: queued, or in a loop that has not committed yet.
Queued(x) == \E j \in due : j.about = x
Unsettled(x) == x # Nobody /\ (Queued(x) \/ \E w \in Worker : hand[w].job.about = x \/ x \in hand[w].locks)

-----------------------------------------------------------------------------
(* The agent (internal/agentcore).                                         *)

Turn(d, to) == agent' = [agent EXCEPT ![d] = to]

deskFrame == <<consoleVars, due, storeVars, hand, toggles, asker>>

\* The end of a cycle.
Rested(a) == [a EXCEPT !.pc = "rest", !.etag = NoMark, !.ends = {}, !.swept = FALSE]

\* runCodexRestart has something to do: there is a request, it was not carried
\* out yet, and its user has a profile here.
Pending(d, my) ==
  /\ my.bind.nonce # 0
  /\ my.noted # my.bind.nonce
  /\ my.bind.user \in local[d]

\* What follows the credentials: the restart that was asked for, or the end.
Onward(d, my) == IF Pending(d, my) THEN [my EXCEPT !.pc = "nudge"] ELSE Rested(my)

\* RunOnce: the binding decides what the cycle does.
Begun(d, doc) ==
  LET my == [agent[d] EXCEPT !.bind = doc] IN
  IF doc.user = NoUser THEN [my EXCEPT !.pc = "revoke"]
  ELSE IF doc.user \in local[d] THEN [my EXCEPT !.pc = "ask"] ELSE Rested(my)

\* The binding: the bucket's object, or part of the document fetched now.
BeginCycle(d) ==
  /\ agent[d].pc = "rest"
  /\ Turn(d, Begun(d, IF agent[d].channel = "oss" THEN object[d] ELSE Build(d)))
  /\ quiet' = IF \/ Unsettled(d) \/ Unsettled(machine[d].holder)
                 \/ {d, machine[d].holder} \cap failed # {}
                 \/ agent[d].channel = "oss" /\ toggles # 0
              THEN quiet \ {d} ELSE quiet \cup {d}
  /\ UNCHANGED <<profile, session, local, events, crossed, deskFrame>>

\* The read fails.  The api source has last cycle's document, if there was
\* one; otherwise loadBinding reports that nobody is assigned.
BeginCycleBlind(d) ==
  /\ agent[d].pc = "rest"
  /\ Mishap("outage")
  /\ Turn(d, Begun(d, IF agent[d].channel = "oss" THEN Absent ELSE agent[d].bind))
  /\ quiet' = quiet \ {d}
  /\ crossed' = IF agent[d].channel = "api" /\ agent[d].bind # Build(d) THEN crossed \cup {d} ELSE crossed
  /\ UNCHANGED <<profile, session, local, deskFrame>>

\* What the console serves: the bundle of whoever has the machine now, or
\* what the bucket holds for them (handleCredentials, bundleFromBucket).
Served(d) ==
  LET e == machine[d].holder IN
  IF e = Nobody THEN NoMark
  ELSE IF bundle[e].epoch = account[e].epoch /\ bundle[e].token # 0
       THEN [via |-> "api", content |-> [emp |-> e, token |-> bundle[e].token]]
  ELSE IF writing /\ archive[UserOf[e]] # Nothing
       THEN [via |-> "oss", content |-> archive[UserOf[e]]]
  ELSE NoMark

\* Every channel answers for the machine's present holder.
SlipAnswer(d) == Served(d)

\* The answer to the request for credentials: the bucket's is by name.
Answer(d) ==
  LET u == agent[d].bind.user IN
  IF agent[d].channel = "api" THEN Served(d)
  ELSE IF archive[u] = Nothing THEN NoMark ELSE [via |-> "oss", content |-> archive[u]]

\* The users with a delivered file.
Managed(d) == {u \in local[d] : profile[d][u] # Nothing \/ u \in agent[d].left}

\* Nothing is published: the files go, the marker is cleared if there were
\* any, and then the Codex that holds the token is ended.
Withdraw(d) ==
  LET my == agent[d]  u == my.bind.user IN
  /\ my.pc = "ask"
  /\ Answer(d) = NoMark
  /\ profile' = [profile EXCEPT ![d][u] = Nothing]
  /\ Turn(d, IF u \notin Managed(d) THEN Onward(d, my)
             ELSE [my EXCEPT !.mark = NoMark, !.left = @ \ {u}, !.ends = {u}, !.pc = "end"])
  /\ UNCHANGED <<session, local, events, crossed, quiet, deskFrame>>

\* config.toml goes and another file cannot be removed: the step failed, Codex
\* is not ended, and the next cycle tries again.  Where config.toml cannot be
\* removed either, the step is NoAnswer's.
WithdrawFails(d) ==
  LET my == agent[d]  u == my.bind.user IN
  /\ my.pc = "ask"
  /\ Answer(d) = NoMark
  /\ profile[d][u] # Nothing
  /\ Mishap("files")
  /\ profile' = [profile EXCEPT ![d][u] = Nothing]
  /\ Turn(d, Onward(d, [my EXCEPT !.left = @ \cup {u}]))
  /\ UNCHANGED <<session, local, crossed, quiet, deskFrame>>

\* The etag is the one last delivered: nothing is written.
Unchanged(d) ==
  LET my == agent[d] IN
  /\ my.pc = "ask"
  /\ Answer(d) # NoMark
  /\ my.mark = Answer(d)
  /\ Turn(d, Onward(d, my))
  /\ UNCHANGED <<profile, session, local, events, crossed, quiet, deskFrame>>

\* DeployCreds: the files of the bound user's profile.
Deploy(d) ==
  LET my == agent[d]  u == my.bind.user  new == Answer(d) IN
  /\ my.pc = "ask"
  /\ new # NoMark
  /\ my.mark # new
  /\ profile' = [profile EXCEPT ![d][u] = new.content]
  /\ Turn(d, [my EXCEPT !.etag = new, !.left = @ \ {u}, !.pc = "mark",
                       !.ends = IF profile[d][u] = new.content THEN {} ELSE {u}])
  /\ UNCHANGED <<session, local, events, crossed, quiet, deskFrame>>

\* The new token is written and another file is not: the step failed, and the
\* Codex that holds the old token is not ended.  The next cycle delivers again,
\* finds the token in its place, and does not end it either.
DeployFails(d) ==
  LET my == agent[d]  u == my.bind.user  new == Answer(d) IN
  /\ my.pc = "ask"
  /\ new # NoMark
  /\ my.mark # new
  /\ profile[d][u] # new.content
  /\ Mishap("files")
  /\ profile' = [profile EXCEPT ![d][u] = new.content]
  /\ Turn(d, Onward(d, [my EXCEPT !.left = @ \ {u}, !.cut = TRUE]))
  /\ UNCHANGED <<session, local, crossed, quiet, deskFrame>>

\* No answer is taken for the answer that nothing is published.
SlipNoAnswer(d) ==
  LET my == agent[d]  u == my.bind.user IN
  /\ my.pc = "ask"
  /\ Mishap("silence")
  /\ profile' = [profile EXCEPT ![d][u] = Nothing]
  /\ Turn(d, [my EXCEPT !.mark = NoMark, !.ends = {u}, !.pc = "end"])
  /\ UNCHANGED <<session, local, crossed, quiet, deskFrame>>

\* No answer: the step is recorded as failed and the cycle goes on.
NoAnswer(d) ==
  /\ agent[d].pc = "ask"
  /\ Mishap("silence")
  /\ Turn(d, Onward(d, agent[d]))
  /\ UNCHANGED <<profile, session, local, crossed, quiet, deskFrame>>

\* writeCredsMark, after the files; a changed token ends the running Codex.
WriteMark(d) ==
  LET my == agent[d] IN
  /\ my.pc = "mark"
  /\ Turn(d, IF my.ends = {} THEN Onward(d, [my EXCEPT !.mark = my.etag])
             ELSE [my EXCEPT !.mark = my.etag, !.pc = "end"])
  /\ UNCHANGED <<profile, session, local, events, crossed, quiet, deskFrame>>

\* The files go and the Codex that has read them goes on.
SlipRevoke(d, half, kept) ==
  LET my == agent[d] IN
  /\ my.pc = "revoke"
  /\ profile' = [profile EXCEPT ![d] =
       [u \in User |-> IF u \in local[d] \ kept THEN Nothing ELSE @[u]]]
  /\ Turn(d, [my EXCEPT !.left = half, !.ends = {}, !.pc = "end"])
  /\ UNCHANGED <<session, local, crossed, quiet, deskFrame>>

\* Nobody is assigned: the managed files leave every profile, but for those of
\* the users in half, of whom only config.toml could be removed, and in kept, of
\* whom it could not; their Codex is not ended in this cycle.
Revoke(d, half, kept) ==
  LET my == agent[d] IN
  /\ my.pc = "revoke"
  /\ profile' = [profile EXCEPT ![d] =
       [u \in User |-> IF u \in local[d] \ kept THEN Nothing ELSE @[u]]]
  /\ Turn(d, [my EXCEPT !.left = half, !.ends = Managed(d) \ (half \cup kept), !.pc = "end"])
  /\ UNCHANGED <<session, local, crossed, quiet, deskFrame>>

RevokeAll(d) == Revoke(d, {}, {}) /\ UNCHANGED events

RevokeFails(d) ==
  /\ Mishap("files")
  /\ \E half \in SUBSET Managed(d) : \E kept \in SUBSET {u \in Managed(d) \ half : profile[d][u] # Nothing} :
       /\ half \cup kept # {}
       /\ Revoke(d, half, kept)

\* After stopCodex: an unassigned machine's cycle clears the marker and is
\* over; an assigned one's looks for a restart request.
AfterEnd(d, my) ==
  IF my.bind.user = NoUser THEN Rested([my EXCEPT !.mark = NoMark])
  ELSE Onward(d, [my EXCEPT !.swept = TRUE])

StopCodex(d) ==
  LET my == agent[d] IN
  /\ my.pc = "end"
  /\ session' = [session EXCEPT ![d] = [u \in User |-> IF u \in my.ends THEN Nothing ELSE @[u]]]
  /\ Turn(d, AfterEnd(d, my))
  /\ UNCHANGED <<profile, local, events, crossed, quiet, deskFrame>>

\* taskkill is refused: a warning, and nobody tries again.
StopCodexFails(d) ==
  LET my == agent[d] IN
  /\ my.pc = "end" /\ my.ends # {}
  /\ Mishap("deny")
  /\ Turn(d, [AfterEnd(d, my) EXCEPT !.cut = TRUE])
  /\ UNCHANGED <<profile, session, local, crossed, quiet, deskFrame>>

\* A sweep of this cycle counts as the restart.
CarryOutRestart(d) ==
  LET my == agent[d] IN
  /\ my.pc = "nudge"
  /\ session' = IF my.swept THEN session ELSE [session EXCEPT ![d][my.bind.user] = Nothing]
  /\ Turn(d, [my EXCEPT !.pc = "noted"])
  /\ UNCHANGED <<profile, local, events, crossed, quiet, deskFrame>>

\* The marker is written whatever came of it.
NoteRestart(d) ==
  LET my == agent[d] IN
  /\ my.pc = "noted"
  /\ Turn(d, Rested([my EXCEPT !.noted = my.bind.nonce]))
  /\ UNCHANGED <<profile, session, local, events, crossed, quiet, deskFrame>>

\* History: it had begun something and not written down, or not finished.
CutShort(my) == my.pc \in {"mark", "end", "noted"}

\* The service restarts; markers and profiles stay, the document is lost.
RestartAgent(d) ==
  LET my == agent[d] IN
  /\ Mishap("restart")
  /\ Turn(d, Rested([my EXCEPT !.bind = Absent, !.cut = @ \/ CutShort(my)]))
  /\ UNCHANGED <<profile, session, local, crossed, quiet, deskFrame>>

\* SetSource: enrolment succeeds and the next cycle asks the console.
EnrolLate(d) ==
  /\ "api" \in Channels
  /\ agent[d].channel = "oss"
  /\ agent[d].pc = "rest"
  /\ Turn(d, [agent[d] EXCEPT !.channel = "api"])
  /\ UNCHANGED <<profile, session, local, events, crossed, quiet, deskFrame>>

\* A person signs in to Windows for the first time, or starts Codex (again).
SignIn(d, u) ==
  /\ u \notin local[d]
  /\ local' = [local EXCEPT ![d] = @ \cup {u}]
  /\ UNCHANGED <<agent, profile, session, events, crossed, quiet, deskFrame>>

StartCodex(d, u) ==
  /\ u \in Coders
  /\ profile[d][u] # Nothing
  /\ session' = [session EXCEPT ![d][u] = profile[d][u]]
  /\ UNCHANGED <<agent, profile, local, events, crossed, quiet, deskFrame>>

-----------------------------------------------------------------------------
Console ==
  \/ \E e \in Employee : Onboard(e) \/ Reissue(e) \/ StoreToken(e) \/ Offboard(e) \/ Delete(e)
  \/ \E d \in Device :
       \/ \E e \in Employee : BindMachine(d, e)
       \/ UnbindMachine(d) \/ ForgetMachine(d) \/ RequestCodexRestart(d)
  \/ SwitchChannel

Work(w) == Publish(w) \/ NextBinding(w) \/ WriteBinding(w) \/ Commit(w)

Cycle(d) ==
  \/ BeginCycle(d) \/ Withdraw(d) \/ Unchanged(d) \/ Deploy(d) \/ WriteMark(d) \/ RevokeAll(d)
  \/ StopCodex(d) \/ CarryOutRestart(d) \/ NoteRestart(d)

Trouble ==
  \/ CrashConsole
  \/ \E w \in Worker : Lapse(w) \/ FailWrite(w) \/ RefuseExport(w)
  \/ \E d \in Desks :
       \/ BeginCycleBlind(d) \/ NoAnswer(d) \/ WithdrawFails(d) \/ DeployFails(d) \/ RevokeFails(d)
       \/ StopCodexFails(d) \/ RestartAgent(d)

People == \E d \in Desks : EnrolLate(d) \/ \E u \in User : SignIn(d, u) \/ StartCodex(d, u)

Next ==
  \/ Console
  \/ \E w \in Worker : Claim(w) \/ Work(w)
  \/ \E d \in Desks : Cycle(d)
  \/ Trouble
  \/ People

Spec == Init /\ [][Next]_vars

\* The scheduler polls, the handler runs to its end, the agent's loop has an
\* interval.  Provisioning stores a token in the end (see Provisioning).
Fairness ==
  /\ \A w \in Worker : WF_vars(Claim(w)) /\ WF_vars(Work(w))
  /\ \A d \in Desks : WF_vars(Cycle(d))
  /\ \A e \in Employee : WF_vars(StoreToken(e))

FairSpec == Spec /\ Fairness

-----------------------------------------------------------------------------
TypeOK ==
  /\ account \in [Employee -> Account]
  /\ machine \in [Device -> Machine]
  /\ writing \in BOOLEAN
  /\ due \subseteq Job
  /\ failed \subseteq Employee \cup Device
  /\ bundle \in [Employee -> [epoch : Epoch, token : Epoch]]
  /\ archive \in [User -> MaybeContent]
  /\ object \in [Device -> Document]
  /\ hand \in [Worker -> Hand]
  /\ agent \in [Device -> Agent]
  /\ profile \in [Device -> [User -> MaybeContent]]
  /\ session \in [Device -> [User -> MaybeContent]]
  /\ local \in [Device -> SUBSET User]
  /\ events \in Nat /\ toggles \in Nat
  /\ asker \in [Nonce -> Employee \cup {Nobody}]
  /\ crossed \subseteq Device /\ quiet \subseteq Device

\* A loop holds the locks of what it writes, and nobody else does.
Holding(h) ==
  /\ h.pc = "idle" <=> h.job = NoJob
  /\ h.pc = "idle" => h = Idle
  /\ h.pc # "idle" => h.job.about \in h.locks
  /\ h.pc = "publish" => h.job.about \in Employee
  /\ h.pc = "write" => h.target \in Device \cap h.locks
  /\ h.job.about \in Device => h.todo = {} /\ (h.pc = "write" => h.target = h.job.about)
Locked ==
  /\ \A w \in Worker : Holding(hand[w])
  /\ \A v, w \in Worker : v # w => hand[v].locks \cap hand[w].locks = {}

\* The binding of a cycle tells what the cycle may do.
Bound ==
  \A d \in Device :
    /\ agent[d].pc = "ask" => agent[d].bind.user \in User
    /\ agent[d].pc = "revoke" => agent[d].bind.user = NoUser

\* An employee that is spoken of has an account, and work for an epoch they have left
\* is queued again.
Known(e) == account[e].status # "none"
Accounted ==
  /\ \A d \in Device : machine[d].holder # Nobody => Known(machine[d].holder)
  /\ \A e \in Employee :
       /\ Queued(e) => Known(e)
       /\ \A j \in due : j.about = e => j.epoch >= account[e].epoch
       /\ bundle[e].epoch <= account[e].epoch
  /\ \A w \in Worker : \A e \in Employee :
       hand[w].job.about = e =>
         /\ Known(e)
         /\ hand[w].epoch <= account[e].epoch
         /\ hand[w].job.epoch < account[e].epoch => Queued(e)

\* What a loop is about to write is what the database says, or the work is queued again;
\* what was written is, or somebody is about to, or the last attempt ended failed.
Writing(x) == \E w \in Worker : hand[w].job.about = x
Read ==
  \A w \in Worker :
    LET h == hand[w] IN
    /\ h.pc = "write" => h.image = Build(h.target) \/ Queued(h.target)
    /\ \A e \in Employee :
         h.job.about = e => Queued(e) \/ (h.content = Deliverable(e) /\ h.epoch = account[e].epoch)
Written ==
  toggles = 0 =>
    /\ writing
    /\ \A d \in Device :
         \/ object[d] = Build(d) \/ Queued(d) \/ d \in failed
         \/ \E w \in Worker : hand[w].pc = "write" /\ hand[w].job.about = d
    /\ \A e \in Employee :
         Known(e) /\ OwnName(e) =>
           \/ archive[UserOf[e]] = Deliverable(e) \/ Queued(e) \/ e \in failed
           \/ \E w \in Worker : hand[w].pc = "publish" /\ hand[w].job.about = e
Stored ==
  \A e \in Employee :
    \/ bundle[e] = [epoch |-> account[e].epoch, token |-> Deliverable(e).token]
    \/ Queued(e) \/ Writing(e) \/ e \in failed
Exported == Read /\ Written /\ Stored

ExportInv == TypeOK /\ Locked /\ Bound /\ Accounted /\ Exported

\* What is in the bucket under a name, and what an agent on the bucket's channel has put
\* into a profile, is that of an employee of the name.
IsOf(c, u) == c # Nothing => UserOf[c.emp] = u
Owned ==
  /\ \A w \in Worker : hand[w].pc = "publish" => hand[w].content = Nothing \/ hand[w].content.emp = hand[w].job.about
  /\ \A u \in User : IsOf(archive[u], u)
  /\ \A d \in Device, u \in User : agent[d].channel = "oss" => IsOf(profile[d][u], u)

\* What an agent has taken from under a running Codex, it is about to end, or it was cut
\* short, or it could not take all.
Halfway(d, u) == u \in agent[d].left /\ profile[d][u] = Nothing
Swept ==
  \A d \in Device :
    /\ agent[d].left \subseteq local[d]
    /\ agent[d].pc = "ask" => agent[d].bind.user \in local[d]
    /\ \/ agent[d].cut
       \/ \A u \in User :
            \/ session[d][u] \in {Nothing, profile[d][u]}
            \/ agent[d].pc \in {"mark", "end"} /\ u \in agent[d].ends
            \/ Halfway(d, u)

\* A request in a document is one that was made for the document's user; they are seen in
\* the order in which they were made.
Asked(doc) == doc.nonce # 0 => asker[doc.nonce] # Nobody /\ UserOf[asker[doc.nonce]] = doc.user
NotAfter(m, n) == m = 0 \/ n = 0 \/ m <= n
Writes(w, d) == hand[w].pc = "write" /\ hand[w].target = d
Requested ==
  /\ \A m, n \in Nonce \ {0} : m < n /\ asker[n] # Nobody => asker[m] # Nobody
  /\ \A d \in Device :
       LET my == agent[d]  now == machine[d].nonce IN
       /\ now # 0 => machine[d].holder # Nobody /\ asker[now] = machine[d].holder
       /\ Asked(object[d]) /\ Asked(my.bind)
       /\ my.noted # 0 => asker[my.noted] # Nobody
       /\ NotAfter(my.noted, my.bind.nonce) /\ NotAfter(my.noted, now) /\ NotAfter(my.bind.nonce, now)
       /\ NotAfter(object[d].nonce, now)
       /\ my.pc = "nudge" => my.bind.nonce # 0 /\ my.noted # my.bind.nonce
       /\ my.channel = "oss" => NotAfter(my.noted, object[d].nonce) /\ NotAfter(my.bind.nonce, object[d].nonce)
       /\ \A w \in Worker : Writes(w, d) =>
            /\ Asked(hand[w].image)
            /\ NotAfter(object[d].nonce, hand[w].image.nonce) /\ NotAfter(hand[w].image.nonce, now)
            /\ my.channel = "oss" =>
                 NotAfter(my.noted, hand[w].image.nonce) /\ NotAfter(my.bind.nonce, hand[w].image.nonce)

\* While the console side of a machine is at rest, its agent acts on what the console says.
AtRest(x) == ~Queued(x) /\ ~Writing(x) /\ x \notin failed
Undisturbed ==
  \A d \in quiet :
    /\ AtRest(d) /\ (machine[d].holder # Nobody => AtRest(machine[d].holder))
    /\ agent[d].pc \in {"ask", "revoke"} =>
         agent[d].bind = Build(d) /\ (agent[d].channel = "oss" => toggles = 0)

DeliveryInv == ExportInv /\ Owned /\ Swept /\ Requested /\ Undisturbed

\* While the bucket's channel has never been off: once nothing is left to do for a
\* machine, and for an employee, and the last export of them did not end failed,
\* the bucket says what the database says: whatever order the exports ran in,
\* however many loops had one at a time, wherever one of them died.
SettledMeansCurrent ==
  toggles = 0 =>
    /\ \A d \in Device : Unsettled(d) \/ d \in failed \/ object[d] = Build(d)
    /\ \A e \in Employee :
         account[e].status # "none" /\ OwnName(e) =>
           Unsettled(e) \/ e \in failed \/ archive[UserOf[e]] = Deliverable(e)

\* No running Codex holds a token whose file was taken away or replaced, when
\* the agent is at rest, unless the agent was cut short, the kill was refused,
\* the rest of a delivery could not be written, or the rest of the user's files
\* could not be removed and is there still.
NoSessionOutlivesItsFile ==
  \A d \in Device, u \in User :
    agent[d].pc = "rest" /\ ~agent[d].cut /\ ~Halfway(d, u) =>
      session[d][u] \in {Nothing, profile[d][u]}

\* A machine on the bucket's channel puts a token in its owner's profile only.
FilesAreTheirOwners ==
  \A d \in Device, u \in User :
    agent[d].channel = "oss" /\ profile[d][u] # Nothing => UserOf[profile[d][u].emp] = u

\* What the comment on bindingRepo.Bind takes a transaction to be enough for:
\* on either channel a profile holds its owner's token, whatever changes hands.
NobodyGetsAnothersFiles ==
  \A d \in Device, u \in User : profile[d][u] # Nothing => UserOf[profile[d][u].emp] = u

\* While the console side of a machine is at rest throughout a cycle, that
\* cycle takes away the files of a user only if the console says so: the user
\* is not the one assigned, or has nothing to be delivered.
RemovedForAReason ==
  [][\A d \in quiet : \A u \in User :
       profile[d][u] # Nothing /\ profile'[d][u] = Nothing =>
         LET h == machine[d].holder IN
         Build(d).user # u \/ Deliverable(h) = Nothing \/ (agent[d].channel = "oss" /\ ~OwnName(h))]_vars

\* A restart request ends only the Codex of the person it was made for, and
\* once, unless the agent dies before it has written that down.
RestartReachesItsOwner ==
  [][\A d \in Device :
       agent[d].pc = "nudge" /\ agent'[d].pc = "noted" =>
         /\ UserOf[asker[agent[d].bind.nonce]] = agent[d].bind.user
         /\ agent[d].noted < agent[d].bind.nonce]_vars

\* Once the console is quiet, a machine's files become, and stay, what the
\* console would deliver: the assigned user's token, nobody's on a machine
\* that is unassigned.  Not so where the last export of the user, or on the
\* bucket's channel of the machine, ended failed.
Settled(d) ==
  LET h == machine[d].holder IN
  IF Build(d) = Absent THEN \A u \in local[d] : profile[d][u] = Nothing
  ELSE UserOf[h] \in local[d] => profile[d][UserOf[h]] = Deliverable(h)
MachinesSettle ==
  \A d \in Desks :
    <>[](\/ agent[d].channel = "api" /\ d \in crossed
         \/ agent[d].cut \/ ~writing
         \/ machine[d].holder \in failed \/ (agent[d].channel = "oss" /\ d \in failed)
         \/ Settled(d))
=============================================================================
