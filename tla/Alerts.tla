------------------------------- MODULE Alerts -------------------------------
(***************************************************************************)
(* Alerts: the evaluation that opens and resolves them (worker/alerts.go), *)
(* the table (dbstore/alerts.go), the hooks of the reconciliation and of   *)
(* the worker, and the delivery to the channels (worker/notify.go).        *)
(*                                                                         *)
(* Evaluations and deliveries are tasks: two of a kind can run beside each *)
(* other, and one may stop anywhere.  One employee with one machine, one   *)
(* gateway token and one task stand for all; what a rule reads is read at  *)
(* an instant, and every statement on the table is a step of its own.      *)
(* Acknowledging is left out: nothing reads it.                            *)
(*                                                                         *)
(* A definition marked "Slip" is not part of the model: it is what a       *)
(* plausible mistake would make of the definition after it.                *)
(***************************************************************************)
EXTENDS Naturals, Sequences

CONSTANTS
  Eval,         \* evaluations that may run at a time
  Notifier,     \* deliveries that may run at a time
  Channel,      \* webhook and mail
  MaxTries,     \* AlertNotify.MaxTries
  MaxMove,      \* bound: changes of the world and of the settings
  MaxFault      \* bound: statements and sendings that fail, tasks that die, people's closings

AlertsAssumption == MaxTries \in Nat /\ MaxMove \in Nat /\ MaxFault \in Nat

\* The kinds in the order in which an evaluation takes them.
Kinds == <<"machine_offline", "rollout_failed", "offboard_cleanup", "budget", "gateway_drift", "task_failed">>
Hooked == {"gateway_drift", "task_failed"}

Generations == 1..2
Fingerprints ==
  {<<k, "it">> : k \in {"machine_offline", "offboard_cleanup", "gateway_drift", "task_failed"}}
    \cup {<<"budget", l>> : l \in {"warn", "crit"}}
    \cup {<<"rollout_failed", g>> : g \in Generations}

VARIABLES
  world,      \* what the rules read
  settings,   \* whether alerts are on, and which channels are
  alert,      \* of each fingerprint, the latest row of alerts
  eval,       \* where each evaluation is
  notify,     \* where each delivery is
  moves, faults   \* counters for the bounds

vars == <<world, settings, alert, eval, notify, moves, faults>>

World == [silent : BOOLEAN, employee : {"active", "left", "due"}, forgotten : BOOLEAN,
          targets : UNION {[1..n -> {"pending", "failed"}] : n \in Generations}, aged : BOOLEAN,
          spend : {"ok", "warn", "crit"}, settled : BOOLEAN, task : {"queued", "failed"}]

NoEval == [step |-> "idle", kind |-> 1, open |-> {}, want |-> {}, left |-> {},
           skipped |-> {}, gone |-> {}, excused |-> {}]
NoNotify == [step |-> "idle", waiting |-> {}, to |-> {}, at |-> <<>>, took |-> {}]

Init ==
  /\ world = [silent |-> FALSE, employee |-> "active", forgotten |-> FALSE, targets |-> <<"pending">>, aged |-> FALSE,
              spend |-> "ok", settled |-> TRUE, task |-> "queued"]
  /\ settings = [on |-> TRUE, channels |-> {}]
  /\ alert = [f \in Fingerprints |-> [open |-> FALSE, spell |-> 0, told |-> FALSE, to |-> {}, heard |-> {}, tries |-> 0]]
  /\ eval = [e \in Eval |-> NoEval]
  /\ notify = [n \in Notifier |-> NoNotify]
  /\ moves = 0 /\ faults = 0

Move == moves < MaxMove /\ moves' = moves + 1
Fault == faults < MaxFault /\ faults' = faults + 1

-----------------------------------------------------------------------------
(* The rules                                                               *)

\* An open binding, a machine that is silent, an employee who has not left.
offlineMachines(w) ==
  {f \in {<<"machine_offline", "it">>} : ~w.forgotten /\ w.silent /\ w.employee = "active"}

\* Of the targets of a machine and product, the latest generation.  Only those of
\* the last ninety days are read: aged says that the latest is older.
failedRollouts(w) ==
  {f \in {<<"rollout_failed", g>> : g \in Generations} :
     f[2] = Len(w.targets) /\ w.targets[f[2]] = "failed" /\ ~w.aged}

offboardCleanup(w) ==
  {f \in {<<"offboard_cleanup", "it">>} : w.employee = "due" /\ ~w.forgotten}

budgets(w) == {f \in {<<"budget", l>> : l \in {"warn", "crit"}} : f[2] = w.spend}

grantSettled(w) == w.settled

gatewayDrift(w) == {f \in {<<"gateway_drift", "it">>} : ~grantSettled(w)}

tasksGivenUp(w) == {f \in {<<"task_failed", "it">>} : w.task = "failed"}

\* Every condition there is, and those that the rule of a kind is to find.
Standing(w) ==
  offlineMachines(w) \cup failedRollouts(w) \cup offboardCleanup(w) \cup budgets(w)
    \cup gatewayDrift(w) \cup tasksGivenUp(w)
OfKind(fs, kind) == {f \in fs : f[1] = kind}
Wanted(kind, w) == OfKind(Standing(w), kind)

-----------------------------------------------------------------------------
(* The table                                                               *)

\* The partial unique index: one open row of a fingerprint.
Open(f) ==
  IF alert[f].open THEN alert
  ELSE [alert EXCEPT ![f] = [open |-> TRUE, spell |-> @.spell + 1, told |-> FALSE, to |-> {}, heard |-> {}, tries |-> 0]]

Resolve(f) == [alert EXCEPT ![f].open = FALSE]

Unnotified == {f \in Fingerprints : alert[f].open /\ ~alert[f].told /\ alert[f].tries <= MaxTries}

\* By the row's id: a later spell of the same fingerprint is another row.
SlipMarkNotified(f, spell, to, ok) ==
  IF ok THEN [alert EXCEPT ![f].told = TRUE, ![f].to = to]
  ELSE [alert EXCEPT ![f].tries = @ + 1]
MarkNotified(f, spell, to, ok) ==
  IF alert[f].spell # spell THEN alert
  ELSE IF ok THEN [alert EXCEPT ![f].told = TRUE, ![f].to = to]
  ELSE [alert EXCEPT ![f].tries = @ + 1]

-----------------------------------------------------------------------------
(* The world, and the hooks that open alerts                               *)

\* Every evaluation that is under way saw the condition gone, if it is.
Becomes(w) ==
  /\ Move
  /\ world' = w
  /\ eval' = [e \in Eval |-> IF eval[e].step = "idle" THEN NoEval
                          ELSE [eval[e] EXCEPT !.gone = @ \cup (Fingerprints \ Standing(w))]]

Changes ==
  /\ \/ \E s \in BOOLEAN : s # world.silent /\ Becomes([world EXCEPT !.silent = s])
     \/ world.employee = "active" /\ Becomes([world EXCEPT !.employee = "left"])
     \/ world.employee = "left" /\ Becomes([world EXCEPT !.employee = "due"])
     \/ ~world.forgotten /\ Becomes([world EXCEPT !.forgotten = TRUE])
     \/ \E l \in {"ok", "warn", "crit"} \ {world.spend} : Becomes([world EXCEPT !.spend = l])
     \/ \* reported failed, then retried as a target of its own
        /\ world.targets[Len(world.targets)] = "pending"
        /\ Becomes([world EXCEPT !.targets[Len(world.targets)] = "failed"])
     \/ /\ Len(world.targets) + 1 \in Generations
        /\ Becomes([world EXCEPT !.targets = Append(@, "pending"), !.aged = FALSE])
     \/ ~world.aged /\ Becomes([world EXCEPT !.aged = TRUE])
     \/ ~world.settled /\ Becomes([world EXCEPT !.settled = TRUE])
     \/ world.task = "failed" /\ Becomes([world EXCEPT !.task = "queued"])
  /\ UNCHANGED <<settings, alert, notify, faults>>

\* A reconciliation that sees a token as it should not be, each time it does.
OpenDriftAlert ==
  /\ Becomes([world EXCEPT !.settled = FALSE])
  /\ alert' = Open(<<"gateway_drift", "it">>)
  /\ UNCHANGED <<settings, notify, faults>>

\* A task that is given up; the hook may fail, which is only logged.
OpenTaskFailedAlert ==
  /\ world.task = "queued"
  /\ Becomes([world EXCEPT !.task = "failed"])
  /\ \/ alert' = Open(<<"task_failed", "it">>) /\ UNCHANGED faults
     \/ Fault /\ UNCHANGED alert
  /\ UNCHANGED <<settings, notify>>

actionAlertSettings ==
  /\ Move
  /\ settings' = [settings EXCEPT !.on = ~@]
  /\ UNCHANGED <<world, alert, eval, notify, faults>>

actionAlertChannels ==
  /\ Move
  /\ \E to \in (SUBSET Channel) \ {settings.channels} : settings' = [settings EXCEPT !.channels = to]
  /\ UNCHANGED <<world, alert, eval, notify, faults>>

Excuse(r, f) == IF r.step = "idle" THEN r ELSE [r EXCEPT !.excused = @ \cup {f}]

\* Somebody closes it, and what the evaluations under way leave is no longer theirs.
ResolveAlert(f) ==
  /\ Fault
  /\ alert[f].open
  /\ alert' = Resolve(f)
  /\ eval' = [e \in Eval |-> Excuse(eval[e], f)]
  /\ UNCHANGED <<world, settings, notify, moves>>

-----------------------------------------------------------------------------
(* An evaluation                                                           *)

\* The settings and what is open are read, before any rule.
Run(e) ==
  /\ eval[e].step = "idle" /\ settings.on
  /\ eval' = [eval EXCEPT ![e] = [NoEval EXCEPT !.step = "read",
                !.open = {f \in Fingerprints : alert[f].open},
                !.gone = Fingerprints \ Standing(world)]]
  /\ UNCHANGED <<world, settings, alert, notify, moves, faults>>

NextKind(r) ==
  IF r.kind < Len(Kinds)
    THEN [r EXCEPT !.step = "read", !.kind = @ + 1, !.want = {}, !.left = {}]
    ELSE [r EXCEPT !.step = "done", !.kind = 1, !.want = {}, !.left = {}, !.open = {}]

\* With nothing to resolve, the kind is over before anything is opened.
SlipProceed(r) ==
  LET kind == Kinds[r.kind]
      stale == OfKind(r.open, kind) \ r.want IN
  CASE stale = {} -> NextKind(r)
    [] stale # {} /\ r.left # {} -> r
    [] stale # {} /\ r.left = {} /\ r.step = "open" -> [r EXCEPT !.step = "resolve", !.left = stale]
    [] OTHER -> NextKind(r)

\* What is there is opened first, then what is not is resolved.
Proceed(r) ==
  LET stale == OfKind(r.open, Kinds[r.kind]) \ r.want IN
  IF r.left # {} THEN r
  ELSE IF r.step = "open" /\ stale # {} THEN [r EXCEPT !.step = "resolve", !.left = stale]
  ELSE NextKind(r)

\* A rule whose inputs cannot be read is skipped.
SlipRead(e) ==
  LET kind == Kinds[eval[e].kind]
      want == Wanted(kind, world) IN
  /\ eval[e].step = "read"
  /\ \/ /\ eval' = [eval EXCEPT ![e] = Proceed([eval[e] EXCEPT
             !.step = "open", !.want = want, !.left = IF kind \in Hooked THEN {} ELSE want])]
        /\ UNCHANGED faults
     \/ Fault /\ eval' = [eval EXCEPT ![e] = Proceed([eval[e] EXCEPT !.step = "open", !.skipped = @ \cup {kind}])]
  /\ UNCHANGED <<world, settings, alert, notify, moves>>
Read(e) ==
  LET kind == Kinds[eval[e].kind]
      want == Wanted(kind, world) IN
  /\ eval[e].step = "read"
  /\ \/ /\ eval' = [eval EXCEPT ![e] = Proceed([eval[e] EXCEPT
             !.step = "open", !.want = want, !.left = IF kind \in Hooked THEN {} ELSE want])]
        /\ UNCHANGED faults
     \/ Fault /\ eval' = [eval EXCEPT ![e] = NextKind([eval[e] EXCEPT !.skipped = @ \cup {kind}])]
  /\ UNCHANGED <<world, settings, alert, notify, moves>>

\* One statement of reconcile; one that fails ends its kind.
reconcile(e) ==
  /\ eval[e].step \in {"open", "resolve"}
  /\ \/ \E f \in eval[e].left :
          /\ alert' = IF eval[e].step = "open" THEN Open(f) ELSE Resolve(f)
          /\ eval' = [d \in Eval |->
               IF d = e THEN Proceed([eval[e] EXCEPT !.left = @ \ {f}])
               ELSE IF eval[e].step = "resolve" THEN Excuse(eval[d], f)
               ELSE eval[d]]
          /\ UNCHANGED faults
     \/ /\ Fault
        /\ eval' = [eval EXCEPT ![e] = NextKind([eval[e] EXCEPT !.skipped = @ \cup {Kinds[eval[e].kind]}])]
        /\ UNCHANGED alert
  /\ UNCHANGED <<world, settings, notify, moves>>

\* The run ends, or its process does.
Ended(e) ==
  /\ \/ eval[e].step = "done" /\ UNCHANGED faults
     \/ eval[e].step \notin {"idle", "done"} /\ Fault
  /\ eval' = [eval EXCEPT ![e] = NoEval]
  /\ UNCHANGED <<world, settings, alert, notify, moves>>

-----------------------------------------------------------------------------
(* A delivery                                                              *)

\* What is waiting, then the channels.
Deliver(n) ==
  /\ notify[n].step = "idle" /\ Unnotified # {}
  /\ notify' = [notify EXCEPT ![n] = [NoNotify EXCEPT !.step = "send", !.to = settings.channels,
                  !.waiting = {<<f, alert[f].spell>> : f \in Unnotified}]]
  /\ UNCHANGED <<world, settings, alert, eval, moves, faults>>

\* One alert to every channel.
Send(n) ==
  /\ notify[n].step = "send"
  /\ \E a \in notify[n].waiting, took \in SUBSET notify[n].to :
       /\ IF took = notify[n].to THEN UNCHANGED faults ELSE Fault
       /\ notify' = [notify EXCEPT ![n].step = "mark", ![n].at = a, ![n].took = took]
       /\ alert' = IF alert[a[1]].spell = a[2] THEN [alert EXCEPT ![a[1]].heard = @ \cup took] ELSE alert
  /\ UNCHANGED <<world, settings, eval, moves>>

\* Marked when every channel took it, or there is none.
Mark(n) ==
  LET r == notify[n] IN
  /\ r.step = "mark"
  /\ alert' = MarkNotified(r.at[1], r.at[2], r.to, r.took = r.to)
  /\ notify' = [notify EXCEPT ![n] =
       IF r.waiting = {r.at} THEN NoNotify
       ELSE [r EXCEPT !.step = "send", !.waiting = @ \ {r.at}, !.at = <<>>, !.took = {}]]
  /\ UNCHANGED <<world, settings, eval, moves, faults>>

DeliveryDies(n) ==
  /\ notify[n].step # "idle" /\ Fault
  /\ notify' = [notify EXCEPT ![n] = NoNotify]
  /\ UNCHANGED <<world, settings, alert, eval, moves>>

-----------------------------------------------------------------------------
Next ==
  \/ Changes \/ OpenDriftAlert \/ OpenTaskFailedAlert
  \/ actionAlertSettings \/ actionAlertChannels
  \/ \E f \in Fingerprints : ResolveAlert(f)
  \/ \E e \in Eval : Run(e) \/ Read(e) \/ reconcile(e) \/ Ended(e)
  \/ \E n \in Notifier : Deliver(n) \/ Send(n) \/ Mark(n) \/ DeliveryDies(n)

Spec == Init /\ [][Next]_vars

-----------------------------------------------------------------------------
Row == [open : BOOLEAN, spell : Nat, told : BOOLEAN, to : SUBSET Channel, heard : SUBSET Channel, tries : Nat]
Evaluation ==
  [step : {"idle", "read", "open", "resolve", "done"}, kind : DOMAIN Kinds,
   open : SUBSET Fingerprints, want : SUBSET Fingerprints, left : SUBSET Fingerprints,
   skipped : SUBSET {Kinds[k] : k \in DOMAIN Kinds},
   gone : SUBSET Fingerprints, excused : SUBSET Fingerprints]
Delivery ==
  [step : {"idle", "send", "mark"}, waiting : SUBSET (Fingerprints \X Nat), to : SUBSET Channel,
   at : (Fingerprints \X Nat) \cup {<<>>}, took : SUBSET Channel]

TypeOK ==
  /\ settings \in [on : BOOLEAN, channels : SUBSET Channel]
  /\ alert \in [Fingerprints -> Row]
  /\ eval \in [Eval -> Evaluation]
  /\ notify \in [Notifier -> Delivery]

\* Conditions that were there all along, of a rule that has not been skipped: of the
\* kinds an evaluation is past they are open, of its kind open or yet to be opened;
\* what it is about to resolve, or would, it has seen gone.
Owed(r) == {f \in Fingerprints \ (r.gone \cup r.excused) : f[1] \notin Hooked \cup r.skipped}
Past(r) == {Kinds[k] : k \in {j \in DOMAIN Kinds : r.step = "done" \/ j < r.kind \/ (j = r.kind /\ r.step = "resolve")}}
OnCourse(r, rows, w) ==
  r.step # "idle" =>
    /\ Fingerprints \ Standing(w) \subseteq r.gone
    /\ \A f \in Owed(r) :
         /\ f[1] \in Past(r) => rows[f].open
         /\ r.step = "open" /\ f[1] = Kinds[r.kind] => f \in r.left \/ rows[f].open
    /\ r.step = "open" => OfKind(Fingerprints, Kinds[r.kind]) \ r.want \subseteq r.gone
    /\ r.step = "resolve" => r.left \subseteq r.gone

\* What a delivery is to mark is the row it was sent for, or an earlier spell.
Sent(r, rows) ==
  /\ \A m \in r.waiting : m[2] <= rows[m[1]].spell
  /\ r.step = "mark" =>
       /\ r.at \in r.waiting /\ r.took \subseteq r.to
       /\ rows[r.at[1]].spell = r.at[2] => r.took \subseteq rows[r.at[1]].heard

AlertsInv ==
  /\ TypeOK
  /\ \A e \in Eval : OnCourse(eval[e], alert, world)
  /\ \A n \in Notifier : Sent(notify[n], alert)
  /\ \A f \in Fingerprints : alert[f].told => alert[f].to \subseteq alert[f].heard

\* worker/alerts.go:37: what an evaluation resolves, it saw gone while it ran; nothing
\* is resolved on missing data.  A failed target is gone, for the rule, when it is
\* ninety days old, although no other has been tried since.
ResolvedOnlyIfGone ==
  [][\A e \in Eval, f \in Fingerprints :
       eval[e].step = "resolve" /\ f \in eval[e].left \ eval'[e].left /\ alert'[f] # alert[f]
         => f \in eval[e].gone]_vars

\* worker/alerts.go:21: a condition that was there from the start of an evaluation to
\* its end has an open alert then, unless its rule was skipped or somebody closed it.
\* A failed target is a condition for ninety days.
StandingConditionsAreOpen ==
  \A e \in Eval : eval[e].step = "done" =>
    \A f \in Standing(world) \ (eval[e].gone \cup eval[e].excused) :
      f[1] \notin Hooked \cup eval[e].skipped => alert[f].open

\* worker/notify.go:13: an alert that counts as told was taken by every channel there
\* was, and not in an earlier spell of the same condition.
ToldMeansHeard ==
  \A f \in Fingerprints : alert[f].told => alert[f].to \subseteq alert[f].heard
=============================================================================
