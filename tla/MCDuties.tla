------------------------------ MODULE MCDuties ------------------------------
(***************************************************************************)
(* Stories about the worker's duties checked in one run: alerts as they    *)
(* are evaluated and as they are delivered, the delivery of the model      *)
(* list, and the exports of two loops.  They share no state; which of them *)
(* a behaviour tells is chosen at the start.  Beside one evaluation three  *)
(* things happen, beside two of them two, beside a delivery up to five.    *)
(***************************************************************************)
EXTENDS Naturals, FiniteSets, TLC

CONSTANTS
  Eval, Notifier, Channel, MaxTries, MaxMove, MaxTrouble,
  Employee, Device, Nobody, Direct, MaxChange, MaxPress, MaxFault,
  a, b, ua, ub, Worker, User, UserOf, NoUser, MaxEpoch, MaxToggles, Mishaps

OwnNames == a :> ua @@ b :> ub

VARIABLES
  which,
  world, settings, alert, eval, notify, moves, troubles,
  gateway, person, holder, setting, page, looked, task, wrapped, fetcher, report, had, count,
  account, machine, writing, due, failed, bundle, archive, object, hand,
  agent, profile, session, local, events, toggles, asker, quiet, crossed

A == INSTANCE Alerts WITH MaxFault <- MaxTrouble, faults <- troubles
C == INSTANCE Catalog WITH Device <- Direct, bundle <- wrapped, agent <- fetcher
\* Two machines and two events, or one machine and three.
X == INSTANCE Delivery WITH
       Staff <- Employee, Desks <- {}, Present <- {ua}, Coders <- {}, Channels <- {"oss"}, MaxRestarts <- 0, MaxEvents <- 3

ASSUME DutiesAssumption == A!AlertsAssumption /\ C!CatalogAssumption /\ X!Assumptions

alertVars == <<world, settings, alert, eval, notify, moves, troubles>>
catalogVars == <<gateway, person, holder, setting, page, looked, task, wrapped, fetcher, report, had, count>>
exportVars == <<account, machine, writing, due, failed, bundle, archive, object, hand,
                agent, profile, session, local, events, toggles, asker, quiet, crossed>>
vars == <<which, alertVars, catalogVars, exportVars>>

Init ==
  /\ which \in {"evaluation", "notice", "catalog", "export", "exports"}
  /\ A!Init /\ C!Init
  /\ X!Init
  /\ which # "catalog" => \A e \in Employee : person[e] = "holds"
  /\ which # "exports" => \A d \in Device : (which = "export" /\ d \in Direct) \/ machine[d].holder = Nobody

\* The evaluations and the deliveries of alerts are told apart: they meet only
\* in a row's two marks.
Evaluations ==
  \/ A!Changes \/ A!OpenDriftAlert \/ A!OpenTaskFailedAlert \/ A!actionAlertSettings
  \/ \E f \in A!Fingerprints : A!ResolveAlert(f)
  \/ \E e \in Eval : A!Run(e) \/ A!Read(e) \/ A!reconcile(e) \/ A!Ended(e)
Notices ==
  \/ A!Changes \/ A!OpenDriftAlert \/ A!OpenTaskFailedAlert \/ A!actionAlertChannels
  \/ \E f \in A!Fingerprints : A!ResolveAlert(f)
  \/ \E n \in Notifier : A!Deliver(n) \/ A!Send(n) \/ A!Mark(n) \/ A!DeliveryDies(n)

FewThings ==
  LET busy == {e \in Eval : eval'[e].step # "idle"} IN
  /\ moves' <= 2 /\ troubles' <= 1
  /\ moves' + troubles' + Cardinality(busy) <= 4

\* Of the change, the presses and the fault, three.
Catalogs ==
  /\ C!Next
  /\ count'.changes + count'.presses + count'.faults <= 3

OneMachine ==
  /\ X!Next
  /\ \A d \in Device \ Direct : machine'[d] = machine[d]

Next ==
  \/ which = "evaluation" /\ Evaluations /\ FewThings /\ UNCHANGED <<which, catalogVars, exportVars>>
  \/ which = "notice" /\ Notices /\ UNCHANGED <<which, catalogVars, exportVars>>
  \/ which = "catalog" /\ Catalogs /\ UNCHANGED <<which, alertVars, exportVars>>
  \/ which = "export" /\ OneMachine /\ UNCHANGED <<which, alertVars, catalogVars>>
  \/ which = "exports" /\ X!Next /\ events' <= 2 /\ UNCHANGED <<which, alertVars, catalogVars>>

Spec == Init /\ [][Next]_vars

Symmetry == Permutations(Eval) \cup Permutations(Worker)

ResolvedOnlyIfGone == A!ResolvedOnlyIfGone
StandingConditionsAreOpen == A!StandingConditionsAreOpen
ToldMeansHeard == A!ToldMeansHeard
ReceivedOnTheApi == C!ReceivedOnTheApi
SettledMeansCurrent == X!SettledMeansCurrent
=============================================================================
