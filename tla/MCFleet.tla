------------------------------ MODULE MCFleet -------------------------------
(***************************************************************************)
(* Stories about one machine checked in one run: how a change reaches it   *)
(* (LongPoll), how it comes to run a version (Releases), and how a package *)
(* enters the employee's .codex (Profile): any file line by line, and the  *)
(* delivery as a process on a few.  They share no state; which of them a   *)
(* behaviour tells is chosen at the start.                                 *)
(***************************************************************************)
EXTENDS Naturals, Sequences

CONSTANTS Request, MaxChange, MaxTrouble,
          Version, Old, None, MaxTarget, MaxDecision, MaxMishap,
          Token, Model, MaxLine, MaxPackage, MaxFault

VARIABLES
  which,
  config, owed, poll, waiter, cfg, notify, sync, applied, missed, trouble,
  product, artifact, policy, publishing, targets, paused, releasing,
  running, marker, cycle, beat, last, failed, retried, decisions, mishaps,
  package, published, file, catalog, mark, delivery, session, cut, edits, faults

P == INSTANCE LongPoll
R == INSTANCE Releases

\* What an employee writes: settings and tables of their own, values over several
\* lines, the keys and the table the package manages.
L == INSTANCE CodexConfig
ManyLines ==
  {L!Blank, L!Comment, L!Setting("model", "m1"), L!Header("own"), L!Opening("text", "basic"), L!Opening("list", "open"), L!Opening("web_search", "open"),
   L!Closing("close"), L!Closing("basic"), L!Header(L!codexManagedTable)}

F == INSTANCE Profile WITH Own <- ManyLines, MaxPackage <- 1, MaxEdit <- MaxLine, MaxFault <- 0
D == INSTANCE Profile WITH Own <- {L!Opening("text", "basic")}, MaxEdit <- 1

ASSUME FleetAssumption ==
  /\ P!LongPollAssumption /\ R!ReleasesAssumption /\ F!ProfileAssumption /\ D!ProfileAssumption

pollVars == <<config, owed, poll, waiter, cfg, notify, sync, applied, missed, trouble>>
releaseVars == <<product, artifact, policy, publishing, targets, paused, releasing, running,
                 marker, cycle, beat, last, failed, retried, decisions, mishaps>>
profileVars == <<package, published, file, catalog, mark, delivery, session, cut, edits, faults>>
vars == <<which, pollVars, releaseVars, profileVars>>

Init ==
  /\ which \in {"poll", "release", "file", "profile"} /\ P!Init /\ R!Init /\ F!Init
  /\ which # "release" => product = "codex"

OneToken == CHOOSE t \in Token : TRUE
OtherModel == CHOOSE m \in Model : m # "m1"

\* The package first, then the file from its first line to its last.
Write ==
  \/ F!Publish(OneToken, Model) \/ F!Publish(OneToken, {OtherModel})
  \/ \E line \in ManyLines : published = 1 /\ F!Insert(Len(file) + 1, line)

Next ==
  \/ which = "poll" /\ P!Next /\ UNCHANGED <<which, releaseVars, profileVars>>
  \/ which = "release" /\ R!Next /\ UNCHANGED <<which, pollVars, profileVars>>
  \/ which = "file" /\ Write /\ UNCHANGED <<which, pollVars, releaseVars>>
  \/ which = "profile" /\ D!Next /\ package'.models \in {{}, Model} /\ UNCHANGED <<which, pollVars, releaseVars>>

\* The fairness of either module, where its story is told.
Spec ==
  /\ Init /\ [][Next]_vars
  /\ WF_pollVars(which = "poll" /\ P!Wake) /\ WF_pollVars(which = "poll" /\ (P!Receive \/ P!Nudge)) /\ WF_pollVars(which = "poll" /\ P!Loop)
  /\ WF_pollVars(which = "poll" /\ P!GapPasses) /\ WF_pollVars(which = "poll" /\ P!Scheduled) /\ WF_pollVars(which = "poll" /\ (\E p \in Request : P!Ask(p)))
  /\ \A p \in Request : WF_pollVars(which = "poll" /\ P!Handler(p))
  /\ WF_releaseVars(which = "release" /\ R!Cycle) /\ WF_releaseVars(which = "release" /\ R!Release)
  /\ WF_releaseVars(which = "release" /\ R!Publishing)

TypeOK == P!TypeOK /\ R!TypeOK
NoSleepOnOldNews == P!NoSleepOnOldNews
NoBlindRetry == R!NoBlindRetry
ChangesArrive == <>[](which = "poll" => P!Arrived)
DecisionsAreSettled == <>[](which = "release" => R!Settled)
MergeSettles == which = "file" => F!MergeSettles
SettingsSurvive == which = "file" => F!SettingsSurvive
NobodyKeepsAnOldToken == D!NobodyKeepsAnOldToken
=============================================================================
