-------------------------- MODULE ApplicationTasks --------------------------
(***************************************************************************)
(* Installing applications on one machine: the console's table of tasks    *)
(* (internal/dbstore/application_tasks.go, the actions of adminweb), the   *)
(* device API through which the agent takes, renews and finishes them, and *)
(* the agent's loop and installer (cmd/agent/application_worker.go,        *)
(* internal/agentcore/applications.go).                                    *)
(*                                                                         *)
(* A statement on the table is one action.  A lease token is drawn anew by *)
(* every claim, so it is modelled by the number of the attempt; a lease is *)
(* live or has lapsed.  The agent has two goroutines: the one that works,  *)
(* a program counter, and the one that renews the lease, which matters     *)
(* only when it ends and cancels the work.  The report of a result may be  *)
(* delayed and arrive long after the agent gave up waiting for an answer.  *)
(*                                                                         *)
(* Every failure of an attempt that does not come from the lease (no       *)
(* package, wrong hash, application running, AppLocker, a reboot that is   *)
(* required) is one action, because the loop reports all of them alike.    *)
(*                                                                         *)
(* A definition marked "Slip" is not part of the model: see Provisioning.  *)
(***************************************************************************)
EXTENDS Naturals, FiniteSets

CONSTANTS
  App,
  NoApp,
  Version,
  NoVersion,   \* not installed
  Admin,       \* administrators' requests being served
  MaxTask,     \* bound: rows ever created
  Mishaps,     \* which mishaps may happen, out of MishapKinds
  MaxMishaps   \* bound: how many of them

\* crash: the agent's process dies.  stop: the service is stopped.  error: a
\* call to the device API gets no answer.  late: a lease lapses while it is
\* being renewed, because the machine sleeps.  verbose: an installer fails and
\* says more of it than a report may carry.
MishapKinds == {"crash", "stop", "error", "late", "verbose"}

ASSUME ApplicationAssumption ==
  /\ NoApp \notin App
  /\ NoVersion \notin Version
  /\ MaxTask \in Nat
  /\ Mishaps \subseteq MishapKinds
  /\ MaxMishaps \in Nat

VARIABLES
  created,    \* how many rows there are; a row's number is its created_at
  row,        \* application_tasks
  asking,     \* install requests between their checks and Create
  agent,      \* what the agent's process is doing
  installed,  \* what is on the machine
  outlived,   \* installers whose agent died while they ran
  wire,       \* reports the agent no longer waits for
  mishaps

consoleVars == <<created, row, asking>>
machineVars == <<agent, installed, outlived>>
vars == <<consoleVars, machineVars, wire, mishaps>>

Id == 1 .. MaxTask
OpenStates == {"pending", "running"}
Outcome == {"succeeded", "failed", "cancelled"}
RowState == {"absent"} \cup OpenStates \cup Outcome

Row == [state : RowState, app : App \cup {NoApp}, version : Version \cup {NoVersion},
        attempts : Nat,     \* also the current lease_token
        live : BOOLEAN]     \* lease_until is to come
AbsentRow == [state |-> "absent", app |-> NoApp, version |-> NoVersion, attempts |-> 0, live |-> FALSE]
NewRow(a, v) == [AbsentRow EXCEPT !.state = "pending", !.app = a, !.version = v]

\* manifest .. confirm is ExecuteApplication, decide and report are what
\* runApplicationTask does with its result.
Working == {"manifest", "look", "download", "install", "installing", "confirm"}
Pc == {"idle", "decide", "report"} \cup Working

Agent == [pc : Pc, id : 0 .. MaxTask, n : Nat,
          ok : BOOLEAN,          \* ExecuteApplication returned AppSucceeded
          cancelled : BOOLEAN,   \* ctx.Err() is set
          renewing : BOOLEAN,    \* the renewing goroutine runs
          outcome : Outcome,
          long : BOOLEAN,        \* the result's text is beyond what the API takes
          stopping : BOOLEAN]    \* the stop channel is closed
IdleAgent == [pc |-> "idle", id |-> 0, n |-> 0, ok |-> FALSE, cancelled |-> FALSE,
              renewing |-> FALSE, outcome |-> "failed", long |-> FALSE, stopping |-> FALSE]

Message == [id : Id, n : Nat, outcome : Outcome]

Request == [app : App, version : Version, replace : BOOLEAN]
NoRequest == [app |-> NoApp, version |-> NoVersion, replace |-> FALSE]

IsOpen(i) == row[i].state \in OpenStates

\* lease_token, state and lease_until as Renew, Finish and Authorize ask them.
Holds(i, n) == row[i].state = "running" /\ row[i].attempts = n /\ row[i].live

Init ==
  /\ created = 0
  /\ row = [i \in Id |-> AbsentRow]
  /\ asking = [d \in Admin |-> NoRequest]
  /\ agent = IdleAgent
  /\ installed = [a \in App |-> NoVersion]
  /\ outlived = {}
  /\ wire = {}
  /\ mishaps = 0

-----------------------------------------------------------------------------
(* The console.                                                            *)

OpenFor(a) == {i \in Id : IsOpen(i) /\ row[i].app = a}

\* One transaction: what is open for the application is cancelled.
Create(a, v) ==
  /\ created < MaxTask
  /\ created' = created + 1
  /\ row' = [i \in Id |->
       IF i = created + 1 THEN NewRow(a, v)
       ELSE IF i \in OpenFor(a) THEN [row[i] EXCEPT !.state = "cancelled", !.live = FALSE]
       ELSE row[i]]

\* actionApplicationInstall looks whether a task is open ...
AskInstall(d, a, v) ==
  /\ asking[d] = NoRequest
  /\ created < MaxTask
  /\ \E replace \in BOOLEAN :
       /\ OpenFor(a) = {} \/ replace
       /\ asking' = [asking EXCEPT ![d] = [app |-> a, version |-> v, replace |-> replace]]
  /\ UNCHANGED <<created, row, machineVars, wire, mishaps>>

\* ... and creates its own in another transaction.
CreateAsked(d) ==
  /\ asking[d] # NoRequest
  /\ Create(asking[d].app, asking[d].version)
  /\ asking' = [asking EXCEPT ![d] = NoRequest]
  /\ UNCHANGED <<machineVars, wire, mishaps>>

\* actionTaskRetry: a failed task is created again, whatever is open.
Retry(i) ==
  /\ row[i].state = "failed"
  /\ Create(row[i].app, row[i].version)
  /\ UNCHANGED <<asking, machineVars, wire, mishaps>>

Cancel(i) ==
  /\ IsOpen(i)
  /\ row' = [row EXCEPT ![i].state = "cancelled", ![i].live = FALSE]
  /\ UNCHANGED <<created, asking, machineVars, wire, mishaps>>

\* Slip: the token is not asked for.
FinishAnyAttempt(i, n, outcome) ==
  row' = IF row[i].state = "running" /\ row[i].live
           THEN [row EXCEPT ![i].state = outcome, ![i].live = FALSE] ELSE row

\* 409 if the lease is not the caller's any more.
Finish(i, n, outcome) ==
  row' = IF Holds(i, n) THEN [row EXCEPT ![i].state = outcome, ![i].live = FALSE] ELSE row

-----------------------------------------------------------------------------
(* Mishaps, and the lease.                                                 *)

Mishap(m) ==
  /\ m \in Mishaps
  /\ mishaps < MaxMishaps
  /\ mishaps' = mishaps + 1

\* Renewed every fifteen seconds for ninety, the lease outlasts the report.
KeptByAgent(i) == /\ agent.id = i /\ agent.n = row[i].attempts
                  /\ agent.renewing \/ agent.pc = "report"

\* A lease nobody renews lapses.
LeaseLapses(i) ==
  /\ Holds(i, row[i].attempts)
  /\ ~KeptByAgent(i)
  /\ row' = [row EXCEPT ![i].live = FALSE]
  /\ UNCHANGED <<created, asking, machineVars, wire, mishaps>>

LeaseLapsesEarly(i) ==
  /\ Mishap("late")
  /\ Holds(i, row[i].attempts)
  /\ KeptByAgent(i)
  /\ row' = [row EXCEPT ![i].live = FALSE]
  /\ UNCHANGED <<created, asking, machineVars, wire>>

\* Whatever runs in the process is gone; an installer it started is not.
ProcessEnds ==
  /\ agent' = IdleAgent
  /\ outlived' = IF agent.pc = "installing"
                   THEN outlived \cup {[app |-> row[agent.id].app, version |-> row[agent.id].version]}
                   ELSE outlived
  /\ UNCHANGED <<consoleVars, installed, wire>>

Crash ==
  /\ Mishap("crash")
  /\ ProcessEnds

Stop ==
  /\ Mishap("stop")
  /\ ~agent.stopping
  /\ agent' = [agent EXCEPT !.stopping = TRUE]
  /\ UNCHANGED <<consoleVars, installed, outlived, wire>>

\* Nothing waits for the loop; the service is started again later.
Exit ==
  /\ agent.stopping
  /\ ProcessEnds
  /\ UNCHANGED mishaps

\* It may take its time, and is not told when it is no longer wanted.
OutlivedInstalls(o) ==
  /\ o \in outlived
  /\ installed' = [installed EXCEPT ![o.app] = o.version]
  /\ UNCHANGED <<consoleVars, agent, outlived, wire, mishaps>>

-----------------------------------------------------------------------------
(* The agent.                                                              *)

\* Slip: what was claimed once is not claimed again.
ClaimableOnce(i) == row[i].state = "pending"

Claimable(i) == row[i].state = "pending" \/ (row[i].state = "running" /\ ~row[i].live)

\* The oldest that is pending or whose lease has lapsed.
ClaimRow(i) ==
  /\ agent.pc = "idle"
  /\ ~agent.stopping
  /\ Claimable(i)
  /\ \A k \in Id : Claimable(k) => i <= k
  /\ row' = [row EXCEPT ![i].state = "running", ![i].attempts = @ + 1, ![i].live = TRUE]

Claim(i) ==
  /\ ClaimRow(i)
  /\ agent' = [IdleAgent EXCEPT !.pc = "manifest", !.id = i, !.n = row[i].attempts + 1, !.renewing = TRUE]
  /\ UNCHANGED <<created, asking, installed, outlived, wire, mishaps>>

ClaimUnanswered(i) ==
  /\ Mishap("error")
  /\ ClaimRow(i)
  /\ UNCHANGED <<created, asking, machineVars, wire>>

\* The renewing goroutine ends and cancels the work: the service stops, or
\* the console answers 409, or (a mishap) it does not answer.
CancelWork ==
  /\ agent.renewing
  /\ agent' = [agent EXCEPT !.cancelled = TRUE, !.renewing = FALSE]
  /\ UNCHANGED <<consoleVars, installed, outlived, wire>>

RenewRefused == CancelWork /\ (agent.stopping \/ ~Holds(agent.id, agent.n)) /\ UNCHANGED mishaps
RenewUnanswered == Mishap("error") /\ CancelWork

Goto(pc) == agent' = [agent EXCEPT !.pc = pc]
GiveUp == agent' = [agent EXCEPT !.pc = "decide", !.ok = FALSE]

unchangedByWork == <<consoleVars, outlived, wire, mishaps>>
ThisApp == row[agent.id].app
ThisVersion == row[agent.id].version

\* Reading the manifest and the link are authorised by the lease and give up
\* when the work is cancelled.
ReadManifest ==
  /\ agent.pc = "manifest"
  /\ IF Holds(agent.id, agent.n) /\ ~agent.cancelled THEN Goto("look") ELSE GiveUp
  /\ UNCHANGED <<unchangedByWork, installed>>

\* Slip: any version will do.
LookForAny ==
  /\ agent.pc = "look"
  /\ Goto(IF installed[ThisApp] # NoVersion THEN "confirm" ELSE "download")
  /\ UNCHANGED <<unchangedByWork, installed>>

LookForInstalled ==
  /\ agent.pc = "look"
  /\ Goto(IF installed[ThisApp] = ThisVersion THEN "confirm" ELSE "download")
  /\ UNCHANGED <<unchangedByWork, installed>>

Download ==
  /\ agent.pc = "download"
  /\ IF Holds(agent.id, agent.n) /\ ~agent.cancelled THEN Goto("install") ELSE GiveUp
  /\ UNCHANGED <<unchangedByWork, installed>>

StartInstaller ==
  /\ agent.pc = "install"
  /\ IF agent.cancelled THEN GiveUp ELSE Goto("installing")
  /\ UNCHANGED <<unchangedByWork, installed>>

InstallerEnds ==
  /\ agent.pc = "installing"
  /\ ~agent.cancelled
  /\ installed' = [installed EXCEPT ![ThisApp] = ThisVersion]
  /\ Goto("confirm")
  /\ UNCHANGED unchangedByWork

\* The installer fails or is killed; what it had to do may be done by then.
InstallerKilled ==
  /\ agent.pc = "installing"
  /\ \E v \in {installed[ThisApp], ThisVersion} : installed' = [installed EXCEPT ![ThisApp] = v]
  /\ GiveUp
  /\ UNCHANGED unchangedByWork

\* installerDiagnostics takes up to eight KiB of the installer's log, and all it
\* printed: LastError has no limit of the agent's own.
InstallerFailsAtLength ==
  /\ Mishap("verbose")
  /\ agent.pc = "installing"
  /\ \E v \in {installed[ThisApp], ThisVersion} : installed' = [installed EXCEPT ![ThisApp] = v]
  /\ agent' = [agent EXCEPT !.pc = "decide", !.ok = FALSE, !.long = TRUE]
  /\ UNCHANGED <<consoleVars, outlived, wire>>

Confirm ==
  /\ agent.pc = "confirm"
  /\ agent' = [agent EXCEPT !.pc = "decide", !.ok = TRUE]
  /\ UNCHANGED <<unchangedByWork, installed>>

AttemptFails ==
  /\ agent.pc \in Working \ {"installing"}
  /\ GiveUp
  /\ UNCHANGED <<unchangedByWork, installed>>

\* A cancelled attempt is reported as cancelled, whoever cancelled it and
\* whatever it achieved; everything else but success is a failure.
Decide ==
  /\ agent.pc = "decide"
  /\ agent' = [agent EXCEPT !.pc = "report", !.renewing = FALSE,
                 !.outcome = IF agent.cancelled THEN "cancelled"
                             ELSE IF agent.ok THEN "succeeded" ELSE "failed"]
  /\ UNCHANGED <<unchangedByWork, installed>>

BackToIdle == agent' = [IdleAgent EXCEPT !.stopping = agent.stopping]

\* 400 for more than 2048 bytes of text, or a body of more than 4096: the loop
\* logs the refusal, and the task is left to its lease.
Report ==
  /\ agent.pc = "report"
  /\ IF agent.long THEN UNCHANGED row ELSE Finish(agent.id, agent.n, agent.outcome)
  /\ BackToIdle
  /\ UNCHANGED <<created, asking, installed, outlived, wire, mishaps>>

\* No answer within the time: the report may have arrived (Report), be lost,
\* or arrive yet.
ReportDelayed ==
  /\ Mishap("error")
  /\ agent.pc = "report" /\ ~agent.long
  /\ wire' = wire \cup {[id |-> agent.id, n |-> agent.n, outcome |-> agent.outcome]}
  /\ BackToIdle
  /\ UNCHANGED <<consoleVars, installed, outlived>>

ReportArrives(m) ==
  /\ m \in wire
  /\ Finish(m.id, m.n, m.outcome)
  /\ wire' = wire \ {m}
  /\ UNCHANGED <<created, asking, machineVars, mishaps>>

-----------------------------------------------------------------------------

Console ==
  \/ \E d \in Admin : CreateAsked(d) \/ \E a \in App, v \in Version : AskInstall(d, a, v)
  \/ \E i \in Id : Retry(i) \/ Cancel(i)

Work ==
  \/ ReadManifest \/ LookForInstalled \/ Download \/ StartInstaller \/ InstallerEnds
  \/ InstallerKilled \/ Confirm \/ AttemptFails \/ Decide \/ Report

Elsewhere ==
  \/ \E i \in Id : LeaseLapses(i) \/ LeaseLapsesEarly(i) \/ ClaimUnanswered(i)
  \/ \E m \in wire : ReportArrives(m)
  \/ \E o \in outlived : OutlivedInstalls(o)
  \/ Crash \/ Stop \/ Exit \/ RenewRefused \/ RenewUnanswered \/ ReportDelayed \/ InstallerFailsAtLength

Next == Console \/ (\E i \in Id : Claim(i)) \/ Work \/ Elsewhere

Spec == Init /\ [][Next]_vars

\* The loop polls every ten seconds, its calls and the installer have time
\* limits, leases run out, and a stopped service ends and is started again.
Fairness ==
  /\ WF_vars(\E i \in Id : Claim(i))
  /\ WF_vars(Work)
  /\ WF_vars(Exit)
  /\ \A i \in Id : WF_vars(LeaseLapses(i))

FairSpec == Spec /\ Fairness

-----------------------------------------------------------------------------

\* The rows, the agent and the messages have the types of their columns,
\* variables and fields.
TypeOK ==
  /\ created \in 0 .. MaxTask
  /\ row \in [Id -> Row]
  /\ asking \in [Admin -> Request \cup {NoRequest}]
  /\ agent \in Agent
  /\ installed \in [App -> Version \cup {NoVersion}]
  /\ outlived \in SUBSET [app : App, version : Version]
  /\ wire \in SUBSET Message
  /\ mishaps \in 0 .. MaxMishaps

\* Rows up to the last are tasks for an application; only a running one has
\* a lease.
RowsAreTasks ==
  \A i \in Id :
    /\ row[i].state = "absent" <=> i > created
    /\ i <= created => row[i].app \in App /\ row[i].version \in Version
    /\ row[i].live => row[i].state = "running"

\* What the index application_tasks_one_open_per_app says: two requests in
\* whatever order leave one task to do for an application.
OneOpenPerApp ==
  \A i, k \in Id : IsOpen(i) /\ IsOpen(k) /\ row[i].app = row[k].app => i = k

\* A loop works on a task that exists, in an attempt that was made.
AgentHasTask ==
  agent.pc # "idle" => /\ agent.id \in 1 .. created
                       /\ agent.n \in 1 .. row[agent.id].attempts
MessagesAreOfAttempts ==
  \A m \in wire : m.id \in 1 .. created /\ m.n \in 1 .. row[m.id].attempts

\* A report that would still be accepted is not overtaken by other work on
\* its application.
AcceptableReportsAreLast ==
  \A m \in wire : Holds(m.id, m.n) /\ agent.pc # "idle" => row[agent.id].app # row[m.id].app

Outlived(a) == \E o \in outlived : o.app = a
MayBeInstalled(i) == installed[row[i].app] = row[i].version \/ Outlived(row[i].app)

SaysInstalled == \/ agent.pc = "confirm"
                 \/ agent.pc = "decide" /\ agent.ok
                 \/ agent.pc = "report" /\ agent.outcome = "succeeded"

\* A success about to be reported, or delayed and still acceptable, is true:
\* the version is on the machine, unless an installer whose agent died may be
\* running beside everything since.
AgentSpeaksTruth == SaysInstalled => MayBeInstalled(agent.id)
MessagesSpeakTruth ==
  \A m \in wire : Holds(m.id, m.n) /\ m.outcome = "succeeded" => MayBeInstalled(m.id)

\* The inductive invariant.
ApplicationInv ==
  /\ TypeOK
  /\ RowsAreTasks
  /\ OneOpenPerApp
  /\ AgentHasTask
  /\ MessagesAreOfAttempts
  /\ AcceptableReportsAreLast
  /\ AgentSpeaksTruth
  /\ MessagesSpeakTruth

\* A task becomes "succeeded" when its version is what is installed: neither
\* a late report of an earlier attempt, nor one that arrives after other
\* versions were installed, nor a skipped installation says otherwise.
SuccessMeansInstalled ==
  [][\A i \in Id :
       row[i].state # "succeeded" /\ row'[i].state = "succeeded" => MayBeInstalled(i)]_vars

\* What has ended stays as it ended, and keeps its attempts; while it runs,
\* an attempt is ended by its own report or by the console (409 "task
\* cancelled or lease lost" for anything later).
EndedByItsAttempt ==
  [][\A i \in Id :
       /\ row[i].state \in Outcome => row'[i] = row[i]
       /\ row[i].state = "running" /\ row'[i].state \in {"succeeded", "failed"} =>
            \/ agent.pc = "report" /\ agent.id = i /\ agent.n = row[i].attempts
            \/ \E m \in wire : m.id = i /\ m.n = row[i].attempts]_vars

\* Whatever dies, stops, sleeps, is lost or is refused, a task does not stay open,
\* as long as these things come to an end: an installer that fails at length in
\* every attempt is run again without end.
EveryInstallIsSettled == \A i \in Id : IsOpen(i) ~> ~IsOpen(i)

\* Replacing an open task "is an explicit Admin action"
\* (application_tasks.go:32): Create cancels only for a request that said so.
ReplacingIsExplicit ==
  [][\A i \in Id :
       created' # created /\ IsOpen(i) /\ ~IsOpen(i)' =>
         \E d \in Admin : /\ asking[d] # NoRequest /\ asking'[d] = NoRequest
                          /\ asking[d].replace]_vars
=============================================================================
