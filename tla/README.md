# A verification project for the AI environment manager's console

The repository is a console that hands employees of a company a token for a
LiteLLM gateway and brings that token, a policy, the Codex and agent releases
and other applications to their Windows machines. It is a Go program over
PostgreSQL (`src/go/internal`, commands under `src/go/cmd`). This directory
holds TLA+ models of the parts of it in which order, failure and repetition
matter, runs of TLC over small instances of them, and proofs checked by TLAPS
for instances of any size.

## 1. Inventory

| Part (package under `src/go/internal`) | State it keeps | Operations | Talks to | What is hard about it | What makes it correct |
|---|---|---|---|---|---|
| Task queue and loop (`dbstore/tasks.go`, `worker/worker.go`) | `tasks`, `task_attempts`; what each loop has in hand | Enqueue, Claim, Extend, Succeed, Fail, FailPermanently, Supersede(OpenForEmployee), ReleaseExpiredLeases | every other part queues work here | leases that lapse under a running handler, crashes, lost answers, cancellation, epochs that move in other transactions | one holder; one outcome an attempt; final states final; everything is closed in the end |
| Account operations (`ops/ops.go`, `dbstore/employees.go`) | `employees`: status, `auth_epoch`, models, quota | Onboard, Offboard, Reissue, Delete, SetModels, SetQuota | queue, credentials, grants | one transaction each, racing with handlers in flight | nobody who left has a token |
| Gateway handlers (`worker/gateway.go`, `worker/reconcile.go`, `dbstore/grants.go`, `dbstore/credentials.go`) | `gateway_grants`, `credential_versions`; keys and users on LiteLLM | provision, revoke, reconcile | LiteLLM, database | a dozen steps of which any may be the last; two systems without a common transaction | the stored token is the live one, and is the only one |
| Export to the bucket (`worker/export.go`, `dbstore/bindings.go`, `dbstore/bundles.go`) | bundles, policy and binding objects | export employee, binding, policy; withdraw | OSS, credentials | late tasks, reused Windows user names, advisory lock | a machine gets the archive of whoever it is bound to now |
| Device enrolment and tokens (`deviceapi/enrol.go`, `dbstore/devicetokens.go`) | `device_tokens`, `devices.channel`, re-enrolment window | enrol, rotate, revoke, allow re-enrolment | agent | lost replies, grace period, retries | one live token a machine, none for a stranger |
| Configuration long poll (`deviceapi/hub.go`, `deviceapi/config.go`, `deviceconfig`) | waiting polls, wake channels | wait, wake, report status, download | agent, ops | a change between the read and the wait | no change is missed for longer than a timer |
| Application installs (`dbstore/application_tasks.go`, `deviceapi/application_tasks.go`, `cmd/agent/application_worker.go`, `agentcore/applications.go`) | `application_tasks`; what is installed | create, cancel, claim, authorize, renew, finish; download, install, check | agent, console | a second lease protocol, over HTTP, with cancellation, crashes and lost answers | what is recorded happened |
| Agent (`agentcore`, `agentapi`, `cmd/agent`) | markers on disk, last status, device token | synchronise, heartbeat, report, update itself, restart Codex | console or OSS, Windows | goroutines sharing a status; a restart between any two steps | credentials on disk are those of the bound user; a restart happens once |
| Release targets (`worker/settle.go`, `dbstore/releases.go`, `ops/releases.go`) | rollouts, `release_targets` | publish, roll out, settle by report | agent | reports older than the target | a target succeeds only if its version runs |
| Tickets (`dbstore/tickets.go`, `ticket_*`, `adminweb/tickets.go`) | tickets, revisions, proposals | status changes, proposals | people | two people at once | the status machine, no lost revision |
| Administrators and sessions (`authn`, `dbstore/admins.go`, `adminweb/session.go`, `limiter.go`) | admins, sessions, attempts | sign in, sign out, disable | pages | last administrator, limiter windows | a disabled administrator is out |
| Alerts (`worker/alerts.go`, `notify`, `dbstore/alerts.go`) | `alerts` | scan, notify, resolve | mail, web hooks | repeated scans, failed deliveries | one open alert a subject |
| Master-key rotation (`secrets`, `migrate/rekey.go`) | sealed blobs and key versions | rekey | credentials, admins, settings | interrupted half way, new rows meanwhile | everything live stays readable |
| Scheduler (`worker/schedule.go`, `rotation.go`, periodic jobs) | rows of the queue | enqueue by the hour or day | queue | restarts | each runs again |
| Model list and channels (`ops/catalog.go`, `ops/channels.go`, `adminweb/models.go`) | which models go to whom, paused channels | press the button, pause, resume, show who has it | exports, agent | reports that are older than what they are compared with | who is shown as having the list had it |
| File-based console (`admincore`) | one roster object, keys, archives | provision, reissue, set models, offboard | LiteLLM, OSS | a roster written back whole, calls that fail one by one | what is reported as done is |
| Pages, background jobs, settings, importer, Windows integration, HTTP clients, types, scripts | see `components` in `PROJECT.json` | | | mostly transformation and I/O | |

How they interact: an administrator's click is one transaction of `ops`, which
changes an account or a device and queues tasks in the same transaction. One
loop (`adminweb/dbmode.go`, `runWorker`) claims tasks and runs handlers, which
talk to LiteLLM or OSS and record what they found. Machines either ask the
device API, by a long poll that `ops` wakes through the hub, or read OSS objects
the exports wrote.

`hazards` in `PROJECT.json` lists, line by line, what can go wrong in this and
which property would notice.

## 2. Modules

| Module | Models | Kind |
|---|---|---|
| `JobBoard` | what the queue promises: a job is posted, taken, and closed by its taker, given back or dropped | abstract specification |
| `TaskQueue` | the rows, leases, attempts and epochs of the queue and the loops on it | detailed; refines `JobBoard` |
| `Provisioning` | account operations and the gateway handlers for one employee, working off a `JobBoard` | composition |
| `ApplicationTasks` | the table of application tasks, the administrators who fill it, and the agent that claims, renews, installs and reports | composition of console and agent |
| `Enrolment` | how machines get, keep, lose and get back their device tokens | composition of console and agent |
| `Delivery` | from a decision in the console through the exports to the files in a Windows profile and the Codex that runs on them | composition of console, loops, bucket and agent |
| `LongPoll` | how a change reaches a machine that is waiting for one | composition of hub, handlers, waiter and service loop |
| `Releases` | which version a machine is to run, its attempts, its reports, and how they settle a row | composition of console and agent |
| `CodexConfig` | the merge of the gateway's settings into an employee's `config.toml` | operators |
| `Profile` | a package entering one `.codex` directory file by file, beside its owner | uses `CodexConfig` |
| `Tickets` | one ticket, with people who act from old pages | component |
| `SignIn` | administrators: passwords, second factor, lockout, switching accounts off, statement by statement | component |
| `MasterKey` | the key file, the re-sealing command and a console that seals meanwhile | component |
| `SelfUpdate` | the replacement of the agent's executable | component |
| `FileConsole` | the accounts of the console without a database | component |
| `Alerts` | evaluations, hooks, the table and the deliveries | component |
| `Catalog` | the delivery of the model list and the page that says who has it | composition of console and agent |
| `MCTaskQueue`, `MCProvisioning`, `MCApplicationTasks`, `MCEnrolment`, `MCDelivery` | instances of one module, some telling several stories | TLC |
| `MCFleet` | `LongPoll`, `Releases`, `Profile` (twice), side by side | TLC |
| `MCConsole` | `Tickets`, `SignIn`, `MasterKey`, `SelfUpdate`, `FileConsole`, side by side | TLC |
| `MCDuties` | `Alerts`, `Catalog` and `Delivery` with two loops, side by side | TLC |
| `TaskQueueProofs`, `ProvisioningProofs`, `ApplicationTasksProofs`, `EnrolmentProofs`, `DeliveryProofs`, `FleetProofs`, `ConsoleProofs`, `DutiesProofs` | invariants, action properties and a refinement | TLAPS |

`Provisioning` uses the abstract queue where the code uses the real one. That
`TaskQueue` implements `JobBoard` is what makes this a composition and not a
guess: it is checked by `task_queue` and proved in `TaskQueueProofs`.
`MCFleet`, `MCConsole` and `MCDuties` put components side by side that share no
state: a behaviour tells the story of one of them, chosen at its start, and a
step of that component is a step of the whole.

Definitions whose comment begins with "Slip" are not part of a model. Each is a
plausible mistake in the definition after it and shows, exchanged for it, that a
property would notice.

### JobBoard and TaskQueue

A row of `tasks` is spread over functions from tasks: `status`, `attempts`,
`holder` (`lease_owner`), `lease` (`lease_until`, as ticks left). `log` is
`task_attempts`, one record an attempt. An idempotency key is a task, so
`Enqueue` either inserts, revives a failed one, or changes nothing. Each
statement of `dbstore/tasks.go` is one action, its `where` clause the guard.
A loop (`run`) is idle, runs a handler, or has a result to write; between any
two of those it may die (`Crash`), be late (`Tick` moves the lease towards 0
whatever the loop does; `Extend` is the ticker's renewal), or lose the answer
to its report (`Lost`). The move of an employee to the next epoch is two
actions, the statement that supersedes and the commit: PostgreSQL runs at READ
COMMITTED, so others see the old epoch until the commit, and the rows the
statement has updated are locked until then (`locked`).

Left out: `next_run_at` and backoff (a claim may come whenever a task is due or
later), payloads, and the order in which due tasks are handed out.

### Provisioning

The account is `status`, `epoch`, `wanted` (models) and `edits`; the database's
record of the gateway is `grant` (one row an epoch, because the alias contains
the epoch) and `cred` (the live credential); the gateway is `key`; the queue is
`state` and `holder` of `JobBoard`. Each operation of `ops.go` is one action
with every row it changes: superseded tasks, the queued one, the revoked grant,
the retired credential. A handler is a program counter in `hand`, with what it
read and still relies on: the models it will push, the grants it listed, the
token it minted. Each call to LiteLLM and each statement whose result is used
later is one step. The transaction that stores a token is two
(`ReReadEmployee`, `Commit`), because it does not lock the employee's row.

What the gateway does is modelled from how `litellm/client.go` and the handlers
use it: an alias is unique; deleting a missing key may be answered with success
or 404; 404 means "fine" to `gatewayError`, which makes of it an end without an
error and without anything done. `AnswersNotFound` gives that answer to any call,
and `unpushed` remembers the epochs a push of models was ended for in this way,
until the next push for them. Mishaps are actions, each allowed a bounded number
of times by `Mishaps` and `MaxMishaps`.

Left out: the gateway's user, with which quota and labels travel (its upsert is
a step that may fail or find nothing); a second employee (no row or key is
shared).

### ApplicationTasks

One machine. A row is `row[i]`, numbered by creation; its `attempts` stands for
the lease token too, because every claim draws a new one, and `live` says that
`lease_until` is to come. Each statement of `dbstore/application_tasks.go` is
one action or, where several callers use it (`Create`, `Finish`), one operator.
An administrator's request is two actions (`AskInstall`, `CreateAsked`), because
the page looks for an open task in one transaction and creates its own in
another. The agent's loop is the program counter `agent.pc`: the steps of
`ExecuteApplication`, then `Decide` and `Report`. The goroutine that renews the
lease is `renewing` and matters when it ends and cancels the work
(`RenewRefused`, `RenewUnanswered`). The agent may die (the installer it started
lives on in `outlived`), be stopped, get no answer; a report that was not
answered may arrive at any later time (`wire`), and one that says more than the
endpoint takes is refused (mishap "verbose"): the row keeps its lease until that
lapses and is claimed again.

Left out: manifests, hashes and signatures, and the reason of a failure;
`AttemptFails` may end an attempt at any step.

### Enrolment

Machines and the agent's processes on them: the service, and commands such as
`sync` or the last step of `setup`, which share the machine's token file
(`saved`). A token is a number, in the order of issue; `issued` says whose it
is, `live` that `revoked_at` is null. `device` is the row, with its window for
re-enrolment and whether anybody ever had the machine; times are facts that
become true (`WindowExpires`, `WeekPasses`). `handleEnrol` is two actions: its
first read takes no lock (`Ask` keeps what it saw in `before`), and everything
from `EnsureByHostname` on holds the row that every other operation on the
machine needs as well (`Enrol`, `EnrolRefused`). A refusal that reaches the
synchronisation is noted by another goroutine, later (`CallRefused`, `Note`).
The weekly pruning looks at the history first and forgets in a transaction of
its own (`PruneLooks`, `PruneForgets`).

Left out: rotation, for which the agent never asks; the limiter and the address
filter, which refuse without a trace; `last_seen_at`. The field `since`
of a process (whether its machine was given a token, or forgotten, after its
enrolment had read the row) and `happened` are the model's own.

`setup` starts the service and then synchronises in its own process
(`cmd/agent/setup.go:85-99`), so two enrolments of a new machine overlap, and the
run has both. Both may have read that the machine is unknown, and then both are
let in: the second ends the token of the first, which nobody asked for.
`TokensEndByConsent` allows just that, an enrolment that read its row before the
token was issued, and `BackThroughAWindow` one that read it before the machine
was forgotten; `AnOpenWindowLetsItIn` allows that another process of the machine
has gone through the window and closed it.

### Delivery

`account` and `machine` are the rows an export reads, `due` the open export
tasks, `bundle` what the console serves, `archive` and `object` what the bucket
holds, `hand` the worker loops, `agent` the machine's cycle and its markers,
`profile` the files and `session` the running Codex of each Windows user. An
export is `Claim`, then one step for every read and write others can see, with
its advisory lock held from the read to the commit; the objects it writes are
seen at once, its bundle at the commit. A cycle of the agent reads the binding
(`BeginCycle`), asks for the credentials (`Answer`), takes files away or puts
them down, notes the owner in its marker, ends the Codex whose token moved, and
carries out a restart request; on the "oss" channel it reads the bucket, on
"api" the console. A content is the employee and the epoch of the token in it.
`asker`, `quiet`, `crossed` and `failed` are history: who asked for a restart,
whose console side was at rest when the cycle began, which machine changed hands
under a running cycle, whose last export ended failed.

An export ends in three ways: it commits, it fails and its task is due again
(`FailWrite`, `Lapse`), or its task ends failed and nobody asks for another
(`RefuseExport`: the export is refused for good, or was the last attempt; the count
is `TaskQueue`'s). The files of a user are `config.toml`, in which the token is, and
others. `profile` is the first; `left` are the users of whom only others are there,
after a removal that stopped half way (`WithdrawFails`, `RevokeFails`); a delivery
that stops after `config.toml` is `DeployFails`. In all three the cycle goes on
without ending a Codex.

Left out: the policy object, release targets, and older entries of an archive.

### LongPoll, Releases, CodexConfig and Profile

`LongPoll`: a configuration is its number in the order of commits. A request is
a handler that registers with the hub *and then* reads, answers, or sleeps until
it is woken, its timer fires, its time is up or a newer request takes over; the
waiter and the service loop (`notify`, `sync`, one synchronisation at a time,
never two within the gap) follow `cmd/agent/console.go` and `main.go`. The wake
comes after the commit and is an action of its own (`owed`). A synchronisation
may get no configuration (`missed`).

`Releases`: a row per decision, the fleet policy beside them, a marker on the
machine written before the attempt, if it can be written, a report and the
heartbeats that repeat it. Publishing for the fleet is three steps (the policy,
the look for a pin, the new row), and several publications may be under way.
Time is counted in rows. The whole module is one machine and one product.

`CodexConfig` translates the scanner and the merge of `creds/codextoml.go` on
lines: a line is its shape, key or table, value, and the brackets and triple
quotes in it. Beside it stands a second reading of a file, `Reading`, `Statements`,
`Meaning` and `IsToml`, that is not the code's: TOML read straight on, for
comparison with what the merge makes of it. `Profile` uses the merge in a
delivery that writes file by file and may die between two of them, beside an
employee who edits and starts Codex. `MCProfile` is the merge alone, on files
that may leave values open.

### Tickets, SignIn, MasterKey, SelfUpdate, FileConsole

`Tickets` has a `page` for every person: what they saw when they act.
`SignIn` has a step for every statement of a request, because at READ COMMITTED
each reads what was committed when it began; a wrong try may leave no row
(`unrecorded`), and the own name may be written in other letters (`asShown`).
`MasterKey` has the file, the copy
beside it and the ring the console read; the command stops anywhere.
`SelfUpdate` has the image in place, the one staged, the one kept, and the
helper's place; the power may go at any step. `FileConsole` has the roster that
each request read and will write back, one step for each call, and a gateway
that may stop serving a model (`Retire`).

### Alerts and Catalog

`Alerts` reads what a rule looks at at one instant (of the targets, the last
ninety days) and writes the table row by row; evaluations and deliveries overlap
each other and the hooks. `Catalog` has an export and one transaction as a step
each, machines that fetch and report later, and the page's comparison of stamps.

## 3. Runs

| Run | Question | Instance | Result |
|---|---|---|---|
| `task_queue` | do attempts, outcomes and loops stay consistent, is the queue a `JobBoard`, and is every task closed in the end? | 2 loops, 2 tasks (one for an employee, one for none), 2 epochs, 2 and 1 attempts, 1 revival, leases of 1 tick, fair | holds |
| `provisioning` | do account, credential and grant agree, and do edits reach the key? | story "loops": 2 loops, 2 epochs, an edit or a lost key; story "edits": one loop at a time, 2 edits, 2 lists of models, one lapsed lease, 404 or seal failure | holds |
| `provisioning_mishaps` | is the stored token the live one after crashes and retries, and does a revoked key go away? | 1 fair loop, 2 epochs, 2 mishaps out of crash, no answer, 404, cancellation, seal failure | holds |
| `provisioning_leaver` | does the code keep what its comment says about people who left? | 1 loop, 2 epochs | no, see below |
| `application_tasks` | is a recorded success true, is each outcome that of its own attempt, is every task settled? | 2 applications, 2 versions, 1 administrator, 2 tasks, 2 mishaps out of 5 kinds, fair | holds |
| `enrolment` | does a machine lose its token by consent or an overlap only, come back through a window only, and find its way in? | 2 stories: a service and the command that set it up, or a service and another machine with commands; 3 events out of 10 kinds, fair | holds |
| `delivery` | are files and sessions the assigned person's, for a reason, and do they become so? | stories "desk" (agent and Windows fail) and "console" (loops, bucket, channel fail): 1 machine, 2 people, 1 loop, 3 epochs, 2 events, 1 restart, 1 switch of the channel, fair | holds, about 570 000 states |
| `fleet` | does a change reach the machine, is nothing tried twice blindly, do an employee's settings survive? | stories "poll" (2 requests, 1 change, 1 trouble), "release" (2 versions, 2 rows, 1 mishap), "file" (every file of up to 4 lines out of 10 kinds), "profile" (2 packages, 1 edit, 1 fault), fair | holds, about 550 000 states |
| `console` | is nothing done unagreed, nobody overlooked, no key dropped, no image lost, nothing reported that is not so? | stories "ticket", "sign-in" (wrong tries, few events), "accounts" (more events, nobody mistypes), "key", "update", "roster" with the bounds of `Console.cfg` | holds |
| `duties` | does what stands have an alert, was what is told heard, and is what is settled current? | stories "evaluation", "notice", "catalog", "export", "exports": 2 evaluations or 1 delivery, 2 channels, 2 loops, 2 machines, 2 epochs | holds, about 740 000 states |
| `profile_redelivery` | does a second delivery of a package change nothing, as a comment says? | any file of up to 6 lines out of 6 kinds, 1 package | no, see below |
| `last_administrator` | can somebody always sign in, as a comment says? | 2 administrators, 2 requests | no, see below |

The bounds. Two loops are every pair that can disturb each other, since a third
neither sees nor changes more than a second. Two epochs give one that is over
and one that is current; `Delivery` has three, for a token that is replaced
while the one before is still on its way. One lease tick is enough because
renewal restores the whole lease and only zero means something. Two attempts
give a first and a last. Two application tasks are enough for one to replace the
other, for a retry, and for two applications side by side. Token ids that
nothing refers to are used again, so `MaxToken` only has to exceed what can be
referred to at once. In `Enrolment` three events are an assignment, a window and
a forgetting, or a loss and two repairs. Four lines of a file are an opening, its
closing, a statement between them and one after: everything the scanner carries
from line to line is a depth and a kind of quote. Two of anything people do
(requests, evaluations, presses, people) is what can cross. The stories split
products of bounds that are out of reach together: each keeps the combinations
whose steps can meet. The safety properties are proved without these bounds
(section 4), and where a proof needed a bound to be relaxed TLC was run on the
inductive invariant first. Symmetry is used in runs without liveness only.

`CHECK_DEADLOCK FALSE` is set where the system may really stop because the
bounded decisions and mishaps are used up and everything is at rest:
`TaskQueue`, `ApplicationTasks`, `Delivery`, `Fleet`, `ProfileRedelivery`,
`Console`, `Duties`, `SignInLast`.

Fairness. A loop of the console polls for ever and each call it makes has a time
limit, so its steps are weakly fair; the sweep and the scheduler are timers in the
same process (`worker.go` `Run`, `schedule.go`). Taking a given job is strongly
fair: `Claim` hands tasks out in the order in which they fall due, so a task that
is due again and again is not passed over for ever. The agent's loop asks for an
application task every ten seconds, every step of its work has a time limit, a
service that was told to stop exits and is started again, and a lease nobody
renews lapses; each of these is weakly fair. A service that dies is restarted by
Windows, its waiter goes round for ever with a pause after each failure, and a
synchronisation comes at least once an interval (`cmd/agent/main.go`, `runLoop`):
a cycle of `Delivery`, of `Releases` and of `LongPoll`, and a service's step in
`Enrolment`, are weakly fair; commands need not go on. The clock is asked for in
`LongPoll` only after a synchronisation that got no configuration (`Scheduled`,
`main.go:495-503`). A handler of a poll has a timer and a wake that was sent
arrives in the process it was sent in. That a token is stored in the end is
assumed in `Delivery`; the provisioning task is retried and reconciled in
`Provisioning`. No fairness is assumed of administrators, mishaps or the gateway.

### What the code does not do

Three runs are violated by what the code does; `findings` quotes the comment.

- `provisioning_leaver`: an employee offboarded between the re-read and the
  commit of the provisioning transaction keeps a live credential and an active
  grant, which no later task revokes. `NoTokenForLeavers` and
  `GrantMatchesAccount`, both proved, say that this window is the only way.
- `last_administrator`: two administrators who switch each other off at once both
  succeed, because each statement reads the other's row as it was. `SomebodyCanUndo`,
  proved, says that somebody is left without such a pair and without an
  administrator who switches itself off in other letters (see *SignIn* below).
- `profile_redelivery`: where an employee's file leaves a value open, the strip
  recovers headers inside the value, and what it leaves may close its values and
  is scanned straight: a header that was one is the inside of a value again, and
  `model` below it becomes a second root key. The next delivery of the same
  package writes another file. `MergeSettles`, proved, is what does hold: a file
  that closes its values settles at once, and any file after one delivery more.

Met on the way, without a run of its own:

- *Queue.* A task queued and claimed between the superseding update and its
  commit runs on for an epoch that is over (`StaleOnlyIfClaimedLate` is what does
  hold, and is proved). A revived task keeps its attempts and has one more only.
- *Provisioning.* A key minted by an attempt that died before storing it,
  followed by a re-issue, stays on the gateway with no row. A crash between
  updating a key's models and noting it, then an edit back, leaves the key with
  the models taken back (add "crash" to the `Mishaps` of `Provisioning.cfg` and
  `EditsConverge` fails so). No handler is registered for `gateway_delete`. With
  several loops the task of an epoch and that of an edit can take each other's
  key for a leftover: this is why `StoredTokensWork` asks for one loop at work at
  a time. Every 404 counts as success (`gateway.go:497-499`): one to the upsert
  of the user, the lookup of a key or its creation ends a task, an edit's too, as
  succeeded with nothing pushed, and the key keeps the old models until the next
  push (`ModelsConverge` excepts such an epoch, `unpushed`, and holds again from
  that push on); one to `alreadyIssued`'s lookup or update makes the handler
  replace the key of a token that is stored, and the delivered token is dead (add
  "notfound" to a run with edits and `StoredTokenWorks` fails so); one to
  reconcile's lookup or delete ends the whole round. `alreadyIssued` records a
  grant as active without looking; a key the gateway lost and minted anew is
  refused by the unique index, and the retry takes the stray key for the stored
  one.
- *Applications.* Two administrators who both saw nothing open create one after
  the other, and the second cancels the first's task; so does a retry. Work cut
  off by a stop of the service or an unanswered renewal is reported as cancelled
  and not tried again, an installation that needs a reboot as failed. The
  diagnostics of a failed installer may have 8 KiB and its output any length
  (`application_windows.go:128-170`), a report 4096 bytes and its error 2048
  (`deviceapi/application_tasks.go:37`, `70`): such a report is answered with 400,
  the loop only logs that, the lease lapses and the task is claimed and run again,
  for as long as it fails at such length (`EveryInstallIsSettled` counts these
  as mishaps, of which there are `MaxMishaps`).
- *Enrolment.* `ForgetMachine` leaves the window for re-enrolment open, and the
  machine comes back through it. The service that setup starts and setup's own
  synchronisation enrol at once (`setup.go:85-99`); the service, if it loses,
  never looks at the token file again. If both are let in, the one that saves last
  may be the one whose token has ended: then the file holds a dead token, and the
  service has to be let in again after its next start. A call with the old token
  refused after the new one was installed makes the service ask for another. A
  machine assigned between the pruning's look and its transaction is forgotten.
- *Delivery.* On the API channel a cycle that read its binding before a machine
  changed hands puts the new employee's files into the former one's profile
  (`crossed`); so does an agent that works from a cached binding. A failed read of
  the binding is taken for "nobody assigned" (`sync.go:313`), hence `quiet`. Two
  employees with one Windows user name in turn share an archive
  (`export.go:45-48`; hence `OwnName`). Switching the bucket's channel back on
  exports nothing (`repo/channel.go:19`; hence `toggles = 0`). After a direct
  rebinding the former employee's files stay (`sync.go:415-417`). A crash between
  ending Codex and the marker ends it twice (`codexrestart.go:61`). An export that
  is refused (a token that cannot be opened, no model of the list on the gateway,
  an archive that cannot be read: `export.go:301-327`, `374-380`) ends its task as
  failed with nothing due: the machine keeps the old token until the next decision
  about its employee, and an alert (`task_failed`) is all that says so; hence
  `failed` in `SettledMeansCurrent`, `MachinesSettle` and `quiet`. With the
  bucket's channel off, an API machine whose employee's new epoch has no bundle is
  told that there is none, and its files are taken away. The administrator's retry
  of a failed task is in `TaskQueue`, not here. A delivery that fails after
  `config.toml` (`deploy.go:160-168`, `sync.go:501`) ends no Codex, and neither
  does the next one, which finds the token in its place (`cut`). A removal that
  fails after `config.toml` (`deploy.go:257-272`, `sync.go:422`, `466`) ends none
  either, but finds the other files in the next cycle and ends it then (`Halfway`
  in `NoSessionOutlivesItsFile`). A comment near `sync.go:466` speaks of verifying
  every placed file, which the code no longer does.
- *Profile.* A delivery that dies between `config.toml` and the end of Codex
  forgets that the token changed (`deploy.go:160`, `sync.go:503-535`); an
  unreadable `config.toml` is taken for none and overwritten.
- *LongPoll.* A synchronisation whose `Policy` fails goes on with the document of
  the former cycle (`sync.go:383`, `source_api.go:148-157`), `finishSync`
  schedules nothing, and the waiter asks with the etag it already has: a change
  that was announced waits for the interval (`RefreshFails`, `Scheduled`).
- *Releases.* "One attempt per generation" (`codex.go:130`) holds until another
  generation is attempted: the marker holds one, and withdrawing a newer row makes
  the older one current again. `NoBlindRetry` therefore speaks of the attempt made
  last, and of an attempt that was marked: `writeMarker` swallows its errors
  (`sync.go:265-270`), the attempt is made all the same (`codex.go:184`,
  `sync.go:638`), and a machine whose state directory cannot be written repeats a
  failing installation in every cycle. A pin that is committed while a publication
  is between its look and its rows (`ops/releases.go:163`, 186) is superseded by
  the global row, against the comment at 160. An installer that succeeds is
  believed for one cycle when the installed version cannot be read
  (`codex.go:193-195`): the row succeeds, whatever runs. A failed, excluded or
  cancelled global row falls back to the fleet policy with generation 0 and is
  attempted once more. Retrying an old global row supersedes a private pin
  (`ops/releases.go:166`). A heartbeat gives a status from before an installation
  the present time, and can settle a row that was created in between.
- *SelfUpdate.* A power cut between the two renames, or a second rename that fails
  and cannot be taken back (`updater_windows.go:127`), leaves no `agent.exe` under
  its name, and nothing uses the copy; a stop that times out returns without
  starting the service.
- *Tickets.* An approval is not tied to the version of the request; an internal
  ticket for a deletion or a quota can never be done.
- *SignIn.* A sign-in checked before a password is reset, or an account disabled,
  may open its session after it. Attempts on a locked account extend the lock.
  A wrong try whose row cannot be written, the database being away or the request
  over (`authn.go:403-410`), is not counted, and nothing bounds those:
  `GuessesAreBounded` is about the rows, and adds the tries without one
  (`unrecorded`). The console forbids switching oneself off by comparing the form's
  name with the session's as they are written (`dbmode.go:640`), and finds the
  account by its letters in lower case (`dbstore/admins.go:46`, `337`): the only
  administrator, writing itself in capitals, switches itself off (`loophole`).
  `ReplaceRecoveryHashes` loses one of two updates. Two consoles can both make
  the first account.
- *MasterKey.* The command writes back an administrator's seed that was replaced
  meanwhile (`rekey.go:69-86`); two changes of the key without a restart could
  drop one in use.
- *FileConsole.* A stale roster, written back whole, re-enables a leaver or drops a
  new employee (`overwritten`); `RequestCodexRestart` brings back a former
  binding; `BindMachine` takes a disabled employee. Reissuing leaves out of a
  user's list the models the gateway has stopped serving and does not write the
  list back (`codexgateway.go:156-171`): the key's list is shorter than the user's
  after a reported success, against the comment at 162, and `DoneMeansDelivered`
  allows that difference and no other (`Covers`, `retired`).
- *Alerts and Catalog.* Only the targets of the last ninety days are read
  (`alerts.go:211`, `dbstore/releases.go:259`): a machine whose latest target
  failed before that has no open alert, and one that ages is resolved though
  nothing was tried since, against the comment at `alerts.go:208`; the rule, and
  with it `StandingConditionsAreOpen` and `ResolvedOnlyIfGone`, takes it for gone
  (`aged`). A task that fails again while an evaluation has read it as retried
  loses its alert; a delivery makes `maxTries + 1` tries. Off the API channel the
  page shows machines as having a list they have not (`models.go:145`); a retried
  export checks the digest and reads the gateway later.
- *Elsewhere.* The policy's read-modify-write loses an update at READ COMMITTED
  (`ops/policy.go:16-19`); audit lines whose confirmation is lost stay at the head
  of the queue and starve those behind.

## 4. Proofs

Every theorem is for any values of the constants that meet the named assumption
of its module, and for behaviours of any length. The invariants that are proved
inductive were first checked by TLC on the instances of section 3 or smaller
ones. The safety properties the passing runs check are all proved.

**`TaskQueueProofs`**, from `QueueAssumption`:

- `QueueInvariance`, `Spec => []QueueInv`. `StaleOnlyIfClaimedLate` is not
  inductive without `MoveCoversRunning` (before the commit everything running
  for the old epoch is locked or was claimed since) and `LocksBelongToMoves`;
  `OpenRowsAreAccountedFor` and `SuccessIsRecordedOnce` need `LeaseMatchesRow` and
  `HandsMatchRows` (a loop that still holds the lease holds the last row);
  `AttemptsAreBounded` needs `AttemptsLeft`. There is one lemma an action;
  `CloseWithRows` and `CloseWithoutRows` carry what closing a row has in common.
- `TypeCorrectness`, `StaleWorkIsLate`, `OneSuccess`, `OpenRows`,
  `BoundedAttempts`: its conjuncts. `ClosedIsFinal` and `OutcomesAreOwned`: the
  action properties.
- `QueueImplementsBoard`, `Spec => BoardSpec`: each step of the queue is a step
  of `JobBoard` or none.

**`ProvisioningProofs`**, from `ProvisioningAssumption`:

- `ProvisioningInvariance`, `Spec => []ProvisioningInv`, and its conjuncts
  `ProvisioningTypes`, `DeliveredTokenIsGranted`, `GrantsFollowAccounts`,
  `LeaversKeepNoToken`. What makes these inductive is `HandsAreTimely`: past its
  first look at the employee a handler works for the current epoch of an active
  account or for one that was left since, and past the second look, inside the
  transaction, for the current one or for one that raced. `OneActiveGrant` is the
  index that `Commit` meets; `HandFitsItsPlace`, in `TypeOK`, is what a handler
  must have in hand where it is.
- `StoredTokensWork`: while no two loops are at work at the same moment, and
  unless the gateway loses a key or answers a call with 404, the stored token is
  the one the gateway has, through crashes, unanswered calls, cancellations,
  lapsed leases and seal failures. `TokenInv` adds `Knows`, what a handler relies
  on where it is: it deletes or makes the epoch's key only while that is `Free`
  (no token is stored for it, or a push for it ended with a 404), what it carries
  to the re-read, the commit or an update is the key's token, and the grants it
  listed as revoked still are. `OneLoopKeepsTokensWorking` is the case of a single
  console, whose Worker works one task after the other.
- `EditsAreMet`, `MCSpec => []EditsConverge`, and `ModelsReachTheKey`, the same of
  `Spec` while one loop is at work: the models chosen last are those of the key and
  of its grant once no provisioning is outstanding, unless a 404 ended the last
  push. `EditsInv` adds to `TokenInv`
  an account of every edit: what a handler carries, and what it has recorded when
  it reports success, is what is wanted or another task of the epoch is unfinished
  (`PushesLatest`, `LeavesLatest`); a key differs from its grant only while a hand
  is between the two (`KeysMatchGrants`); the task of an edit to come was never
  posted (`MarksAreNew`), which is what the marker in its key is for. Both assume
  that no console dies and no call stays unanswered in between (a 404 is allowed):
  `EditsInv` is not
  inductive under a crash at `note`, a hazard of the code (`gateway.go:306`), and
  an edit taken back after it leaves the key with models nobody wants.

**`ApplicationTasksProofs`**, from `ApplicationAssumption`:

- `ApplicationInvariance`, with `ApplicationTypes` and `OneOpenTask`.
  `FadingStep` is the main lemma: all steps but creating, claiming and delaying a
  report only close rows or let leases lapse, and then what is acceptable later
  was acceptable before. `AcceptableReportsAreLast` carries the truth of a delayed
  report: while it would be accepted nothing else works on its application.
- `EndsAreOwned` and `SuccessIsReal`, the action properties.

**`EnrolmentProofs`**, from `EnrolmentAssumption`:

- `EnrolmentInvariance`, with `EnrolmentTypes` and `OneToken`, however many
  processes run on a machine.
- `ReadingsInvariance`. What an enrolment under way read of its row holds until
  the machine is given a token (that it was unknown and so had none, that a
  window was open) or is forgotten (that it was forgotten already).
- `Consent` and `ThroughTheWindow`, the action properties, from both invariants and
  for any number of processes a machine: who ends a token or takes a machine
  back without a window had read its row before that.

**`DeliveryProofs`**, from `Assumptions`, any number of people, machines, loops and
decisions:

- `ExportInv` is `TypeOK`, `Locked` (one export of a thing at a time while its
  lock is held), `Bound` (what a row may say), `Accounted` (whatever an export
  has still to see is wanted by a task or under way) and `Exported` (what an
  export has read or written is of the generation it holds, or wanted again, or
  the last attempt ended failed). It gives `SettledIsCurrent`. The difficulty is
  that an export reads before it writes and the database moves in between: each
  such move queues a task, and `Exported` says that only a queued task, or one
  that ended failed, excuses an old copy.
- `Owned`, on top of it: what is in the bucket under a name and what is in a
  profile on that channel is of an employee of the name
  (`FilesStayWithTheirOwners`).
- `Swept`: what the agent took from under a running Codex it is about to end, or
  it was cut short, or it could not take all and will find the rest
  (`SessionsEndWithTheirFiles`).
- `Requested`: a restart request in a document, in the bucket, in a loop's hand
  or on the machine is one that was made for the document's user, and they are
  seen in the order in which they were made (`RestartsReachTheirOwner`).
- `Undisturbed`: while the console side of a machine is at rest, its cycle acts on
  what the console says (`FilesGoForAReason`).

**`FleetProofs`**, from `FleetAssumption`; `FleetInv` is

- `PollInv`: a handler that sleeps knows the present configuration, was woken, or
  the wake is owed; and what the waiter brought is applied, being applied, or
  noted. That is not inductive without `WorkIsWatched` (a synchronisation of
  another configuration than the one in hand will be followed by one more) and
  `WaitsForOne`. Gives `SleepersAreWoken` and `NewsIsKept`, on which the liveness
  that TLC checks rests.
- `MarkerInv`: an attempt that counts as failed is the one the marker names, and
  no cycle goes to an attempt the marker names. Gives `AttemptsAreNotRepeated`.
- `RowsInv`: rows and the release under way have their types and one row at most
  is open. Gives `OneRowIsOpen` and `OutcomesAreFinal` (a settled row keeps its
  outcome), two properties no run checks.

and, about `CodexConfig`, for files of any lines and any number of them, any
catalog, model and token:

- *The tools.* The functions that scan a file, read it and select from it are
  recursive; `Recursion` unfolds them, by `SetInduction`, an induction over a set
  of line numbers that goes through the library's pigeonhole fact. Two scans
  are compared line by line: of the same lines (`SameScan`), of lines further
  down (`Shift`), and, `InStep`, of a file and of what is kept of it.
- `AnyFileSettles`, and for the story's files `DeliveriesSettle`. What a strip
  leaves has no managed line, or still leaves a value open (`StripCleans`); it
  falls into a part A at the root and a part B below a header (`TrimmedParts`);
  the merged file is the fragment laid around A and B (`MergeIs`), and a strip of
  that gives A and B back (`OutStrips`), so that it is merged into itself. Where
  a value stays open, the file after one delivery more is in that case.
- `AnyFileKeepsItsSettings`, and for the story's files `SettingsAreKept`. Nothing
  is left open, so the code's scan is TOML's; a strip keeps whole statements, so
  what it keeps is in step with the file and has its statements but the managed
  ones; A and B are in step with every file they stand in; the fragment adds its
  four, with the model the employee had chosen if the catalog has it
  (`ChosenIs`); and no table or key is there twice. `Readable` says of
  the lines what `Line` cannot: a header's brackets are its own, and a line with
  a one-line value is a setting.

and about `Profile`, the delivery as a process on the files of its story:

- `TokenInv`, which gives `OldTokensAreDropped`. The only value that may stay
  open stands in such a file once, so every header is seen (`HeadersAreSeen`),
  a strip takes every token below one (`StripTakesHeaders`), and the merged
  file has the delivered token there and no other (`MergeBrings`). `Holds(w)`:
  the file speaks of w; Codex runs with w or not at all, or it will be stopped
  at the end of this delivery, or a delivery was cut short; and w is the token
  of the package that the marker names, and of the one under way once
  `config.toml` is written. It is inductive because a file of another token has
  another identity (`TokenIsIdentity`), so that the delivery is seen to change
  the credential, and because what Codex reads as its token stands below a header
  (`ReadTokenIs`). `Order` says that a package is known by its number and that
  the one under way is newer than the marker. The theorem is for any tokens and
  models and any number of packages, failures and restarts, but for the one edit
  the story has (`MCFleet` instantiates that bound): who edits often enough
  writes an old token back by hand and runs with it.

**`ConsoleProofs`**, from `ConsoleAssumption`:

- `TicketInv`: only somebody entitled has approved a proposal, and a done
  deletion or quota is approved. Gives `DoneTicketIsAgreed` and, with it,
  `WaitingCustomerIsHeard`.
- `SignInInv`: `TriesInv` counts each request past the lock against the guesses it
  may still make and the tries that left no row (`GuessesStayBounded`);
  `SwitchInv` says that a request about to switch another account off is by one
  who is enabled and is not that account, unless two of them crossed or one named
  itself in other letters (`SwitchingOffCanBeUndone`).
- `KeyInv`: the console seals with a key at hand, the file stays as it was read
  while the command runs, and what is stored when it has looked is under a key
  that it keeps (`StoredKeysAreKept`).
- `UpdateInv`: what runs has run, and while the new image is untried the old one
  is kept (`RollbackCopyIsKept`).
- `RosterInv`: what is true of an account at each place of each operation
  (`SoFar`, which for lists of models says `Covers`), and that two operations are not
  on one account. Gives
  `ReportedIsDelivered` and `ClosedAccountsAreEmpty`.

**`DutiesProofs`**, from `DutiesAssumption`:

- `CatalogInv`: what a machine says it has, it had (`ShownMachinesHadIt`).
- `AlertsInv`: for every evaluation and every rule, what it has seen, done and
  still has to do since it began (`OnCourse`); for every delivery, what was sent in
  which spell (`Sent`). Gives `OnlyWhatIsGoneIsResolved`,
  `StandingConditionsAreAlerted` and `ToldChannelsHeard`.
- `ExportsSettleOnThePresent`: `ExportInv` again, for the instance of `Delivery`
  with two loops: the two specifications differ in constants only.

Only model-checked:

- Liveness, which the provers here cannot do: `EveryTaskIsSettled`,
  `RevokedKeysLeave`, `EveryInstallIsSettled`, `AnOpenWindowLetsItIn`,
  `ClonesBecomeThemselves`, `MachinesSettle`, `ChangesArrive`,
  `DecisionsAreSettled`.

## 5. Plan

1. `NobodyKeepsAnOldToken` for any number of edits that leave every header to
   be seen and bring no token of their own.
2. `NewsIsKept` and `OutcomesAreFinal` as steps of an abstract specification of
   "a change is delivered" and "a decision is settled".
3. Policy and audit lines (see "met on the way") as modules of their own.

Proofs follow each module's runs: type invariant, inductive invariant,
refinement.

## 6. Not modelled

Cryptography, HTTP, rendering and Windows calls are data transformation or I/O;
of file formats, `config.toml` is modelled. The importer runs once with the
console stopped; background jobs, pages and scripts keep no state that another
part reads. `components` lists every part with its reason.
