------------------------------ MODULE Catalog ------------------------------
(***************************************************************************)
(* Giving employees the gateway's list of models: a press of the button    *)
(* (ops/catalog.go), the channels that are paused (ops/channels.go), the   *)
(* exports it queues, the machines that fetch and report, and the page     *)
(* that says which machine has it (adminweb/models.go, channels.go).       *)
(*                                                                         *)
(* An export and one transaction are a step each.  There is one channel    *)
(* that can be paused.  The page compares the stamp of a machine's report  *)
(* with the end of a task: here a report carries the tasks that had ended  *)
(* when it was stamped.                                                    *)
(*                                                                         *)
(* A definition marked "Slip" is not part of the model: it is what a       *)
(* plausible mistake would make of the definition after it.                *)
(***************************************************************************)
EXTENDS Naturals, Sequences, FiniteSets

CONSTANTS
  Employee, Device, Nobody,
  Direct,      \* the machines on the API channel, the others use the bucket
  MaxChange,   \* bound: changes of the gateway, its channels, people and machines
  MaxPress,    \* bound: presses, retries and pauses
  MaxFault     \* bound: fetches that fail

CatalogAssumption ==
  /\ Nobody \notin Employee /\ Direct \subseteq Device
  /\ MaxChange \in Nat /\ MaxPress \in Nat /\ MaxFault \in Nat

VARIABLES
  gateway,   \* which list of models the gateway offers, and whether the channel is paused
  person,    \* who is active and holds a token
  holder,    \* whose each machine is
  setting,   \* catalog_delivery, without its history
  page,      \* the version an administrator's page shows
  looked,    \* the catalog an administrator's request has read, none before
  task,      \* the exports
  bundle,    \* credential_bundles
  agent,     \* of each machine, its latest status, and whether it is yet to be sent
  report,    \* device_reports
  had,       \* the bundles that a machine ever put on its disk
  count      \* counters for the bounds

vars == <<gateway, person, holder, setting, page, looked, task, bundle, agent, report, had, count>>
world == <<gateway, person, holder>>
console == <<setting, page, looked>>
machines == <<agent, report, had>>

None == <<>>
NoPress == [snapshot |-> None, targets |-> {}, tasks |-> [e \in {} |-> 0]]
NoStatus == [user |-> Nobody, etag |-> None, applied |-> FALSE, error |-> FALSE]

SnapshotOf(g) == <<g.offers, g.paused>>
Delivered(e) == <<e, SnapshotOf(gateway)>>

Init ==
  /\ gateway = [offers |-> 1, paused |-> FALSE]
  /\ holder = [d \in Device |-> CHOOSE e \in Employee : TRUE]
  /\ person \in {p \in [Employee -> {"holds", "no token"}] : \A d \in Device : p[holder[d]] = "holds"}
  /\ setting = [version |-> 0, fleet |-> None, last |-> NoPress]
  /\ page = 0 /\ looked = None
  /\ task = <<>>
  /\ bundle = [e \in Employee |-> IF person[e] = "holds" THEN Delivered(e) ELSE None]
  /\ agent = [d \in Device |-> [status |-> NoStatus, due |-> FALSE]]
  /\ report = [d \in Device |-> [status |-> NoStatus, after |-> {}]]
  /\ had = [d \in Device |-> {}]
  /\ count = [changes |-> 0, presses |-> 0, faults |-> 0]

Bump(c, max) == count[c] < max /\ count' = [count EXCEPT ![c] = @ + 1]
Holds(e) == person[e] = "holds"
Closed(id) == task[id].status \in {"succeeded", "failed", "superseded"}

-----------------------------------------------------------------------------
(* What changes around it                                                  *)

GatewayChanges ==
  /\ Bump("changes", MaxChange)
  /\ gateway' = [gateway EXCEPT !.offers = 3 - @]
  /\ UNCHANGED <<person, holder, console, task, bundle, machines>>

\* Offboarding: the bundle goes, the binding stays, queued exports are superseded.
Leaves(e) ==
  /\ Bump("changes", MaxChange) /\ person[e] # "left"
  /\ person' = [person EXCEPT ![e] = "left"]
  /\ bundle' = [bundle EXCEPT ![e] = None]
  /\ task' = [i \in DOMAIN task |->
       IF task[i].employee = e /\ ~Closed(i) THEN [task[i] EXCEPT !.status = "superseded"] ELSE task[i]]
  /\ UNCHANGED <<gateway, holder, console, machines>>

Rebinds(d, e) ==
  /\ Bump("changes", MaxChange) /\ holder[d] # e
  /\ holder' = [holder EXCEPT ![d] = e]
  /\ UNCHANGED <<gateway, person, console, task, bundle, machines>>

-----------------------------------------------------------------------------
(* A press                                                                 *)

\* handleModels
OpenPage ==
  /\ page # setting.version
  /\ page' = setting.version
  /\ UNCHANGED <<world, setting, looked, task, bundle, machines, count>>

\* The gateway is asked before the transaction; a list without models is refused.
ReadGateway ==
  /\ looked = None
  /\ looked' = SnapshotOf(gateway)
  /\ UNCHANGED <<world, setting, page, task, bundle, machines, count>>

enqueueEmployeeExports(es) ==
  LET order == CHOOSE s \in [1..Cardinality(es) -> es] : \A i, j \in DOMAIN s : s[i] = s[j] => i = j IN
  /\ task' = task \o [i \in DOMAIN order |-> [employee |-> order[i], status |-> "queued"]]
  /\ looked' = None

\* The tasks that were just queued.
Recorded(es) ==
  [e \in es |-> CHOOSE i \in Len(task) + 1 .. Len(task') : task'[i].employee = e]

\* Somebody chosen who cannot be given anything is refused; of all they are passed over.
deliverCatalog(scope, es, ds, version) ==
  LET selected == es \cup {holder[d] : d \in ds}
      given == {e \in selected : Holds(e)}
      targets == {t \in given \X Device : holder[t[2]] = t[1] /\ (scope = "batch" => t[1] \in es \/ t[2] \in ds)}
      everywhere == targets \cup {<<e, Nobody>> : e \in {f \in given : \A d \in Device : <<f, d>> \notin targets}} IN
  /\ given # {}
  /\ scope # "all" => given = selected
  /\ version = setting.version
  /\ enqueueEmployeeExports(given)
  /\ setting' = [version |-> version + 1,
                 fleet |-> IF scope = "all" THEN looked ELSE setting.fleet,
                 last |-> [snapshot |-> looked, targets |-> everywhere, tasks |-> Recorded(given)]]

\* actionModelsDeliver: DeliverCatalog to all or one, DeliverCatalogBatch to some.
actionModelsDeliver ==
  /\ looked # None /\ Bump("presses", MaxPress)
  /\ \/ deliverCatalog("all", Employee, {}, page)
     \/ \E e \in Employee : deliverCatalog("test", {e}, {}, page)
     \/ \E es \in SUBSET Employee, ds \in SUBSET {d \in Device : holder[d] # Nobody} :
          es \cup ds # {} /\ deliverCatalog("batch", es, ds, page)
  /\ UNCHANGED <<world, page, bundle, machines>>

\* Of the latest press only, after its task has ended, while the gateway still matches.
RetryCatalogDelivery(e) ==
  /\ looked # None /\ Bump("presses", MaxPress)
  /\ e \in DOMAIN setting.last.tasks
  /\ Closed(setting.last.tasks[e])
  /\ setting.last.snapshot = looked
  /\ Holds(e)
  /\ page = setting.version
  /\ enqueueEmployeeExports({e})
  /\ setting' = [setting EXCEPT !.version = @ + 1, !.last.tasks[e] = Len(task')]
  /\ UNCHANGED <<world, page, bundle, machines>>

\* One transaction: the channel's models leave what is given, or come back. The work
\* for the employees' allowlists that it also queues is the gateway's, not this module's.
SetChannelPaused == gateway' = [gateway EXCEPT !.paused = ~@]

\* SetChannelPaused in a transaction of its own, then, if the gateway answers,
\* a press for everybody with the version as it is.
actionChannelPause ==
  /\ Bump("presses", MaxPress)
  /\ SetChannelPaused
  /\ looked' = IF \E e \in Employee : Holds(e) THEN SnapshotOf(gateway') ELSE None
  /\ page' = setting.version
  /\ UNCHANGED <<person, holder, setting, task, bundle, machines>>

-----------------------------------------------------------------------------
(* Exports and machines                                                    *)

\* The catalog is the gateway's as it is now, without what is paused.
RunExport(i) ==
  /\ task[i].status = "queued"
  /\ bundle' = [bundle EXCEPT ![task[i].employee] = Delivered(task[i].employee)]
  /\ task' = [task EXCEPT ![i].status = "succeeded"]
  /\ UNCHANGED <<world, console, machines, count>>

ExportFails(i) ==
  /\ task[i].status = "queued"
  /\ task' = [task EXCEPT ![i].status = "failed"]
  /\ UNCHANGED <<world, console, bundle, machines, count>>

\* A cycle: the binding and what its user is to have, then the report, later.
\* A fetch that fails leaves the files.
Fetch(d) ==
  LET e == holder[d]
      given == IF e = Nobody THEN None ELSE bundle[e] IN
  /\ ~agent[d].due
  /\ \/ /\ agent' = [agent EXCEPT ![d] = [due |-> TRUE,
             status |-> [user |-> e, etag |-> given, applied |-> given # None, error |-> FALSE]]]
        /\ had' = [had EXCEPT ![d] = @ \cup ({given} \ {None})]
        /\ UNCHANGED count
     \/ /\ Bump("faults", MaxFault)
        /\ agent' = [agent EXCEPT ![d] = [due |-> TRUE,
             status |-> [user |-> e, etag |-> None, applied |-> FALSE, error |-> TRUE]]]
        /\ UNCHANGED had
  /\ UNCHANGED <<world, console, task, bundle, report>>

Ended == {i \in DOMAIN task : task[i].status = "succeeded"}

\* The report of a cycle; a heartbeat sends the latest one with a new stamp.
Report(d) ==
  /\ agent[d].due \/ (report[d].status = agent[d].status /\ report[d].status # NoStatus)
  /\ report' = [report EXCEPT ![d] = [status |-> agent[d].status, after |-> Ended]]
  /\ report' # report \/ agent[d].due
  /\ agent' = [agent EXCEPT ![d] = [due |-> FALSE, status |-> @.status]]
  /\ UNCHANGED <<world, console, task, bundle, had, count>>

-----------------------------------------------------------------------------
(* What the page says                                                      *)

\* Whether the machine's report counts as having the new configuration.
SlipArrival(d, e, id) ==
  /\ id \in report[d].after
  /\ report[d].status.user = e /\ ~report[d].status.error
  /\ report[d].status.applied
arrival(d, e, id) ==
  /\ id \in report[d].after
  /\ report[d].status.user = e /\ ~report[d].status.error
  /\ d \in Direct => bundle[e] # None /\ report[d].status.etag = bundle[e]
  /\ report[d].status.applied

\* deliveryRows
Received ==
  {r \in setting.last.targets :
     LET id == setting.last.tasks[r[1]] IN
     /\ r[2] # Nobody /\ holder[r[2]] = r[1]
     /\ task[id].status = "succeeded"
     /\ arrival(r[2], r[1], id)}

-----------------------------------------------------------------------------
Next ==
  \/ GatewayChanges \/ OpenPage \/ ReadGateway \/ actionModelsDeliver \/ actionChannelPause
  \/ \E e \in Employee : Leaves(e) \/ RetryCatalogDelivery(e)
  \/ \E d \in Device : Fetch(d) \/ Report(d) \/ \E e \in Employee \cup {Nobody} : Rebinds(d, e)
  \/ \E i \in DOMAIN task : RunExport(i) \/ ExportFails(i)

Spec == Init /\ [][Next]_vars

-----------------------------------------------------------------------------
\* What a machine says it has, in its latest status and in its report, it had.
HadIt(d, status) == status.applied /\ ~status.error => status.etag \in had[d]
CatalogInv ==
  /\ DOMAIN agent = Device /\ DOMAIN report = Device /\ DOMAIN had = Device
  /\ \A d \in Device : HadIt(d, agent[d].status) /\ HadIt(d, report[d].status)

\* adminweb/models.go:240-248: a machine on the API channel that the page shows as having
\* the new list once had on its disk what is delivered now.
ReceivedOnTheApi ==
  \A r \in Received : r[2] \in Direct => bundle[r[1]] \in had[r[2]]

\* adminweb/models.go:145: "A machine has it once it has synced after the export finished
\* without a credentials error: every sync fetches the bundle if it changed, on either
\* channel."
ReceivedHasIt ==
  \A r \in Received : bundle[r[1]] \in had[r[2]]
=============================================================================
