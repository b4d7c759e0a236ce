------------------------------ MODULE Releases ------------------------------
(***************************************************************************)
(* Which version of a product one machine is to run, and how the machine's *)
(* reports settle it.                                                      *)
(*                                                                         *)
(* The console keeps a row per decision (release_targets, internal/ops/    *)
(* releases.go and internal/dbstore/releases.go) beside the fleet policy.  *)
(* The machine reads what it is to run (internal/deviceconfig), tries it   *)
(* at most once a generation (internal/agentcore/codex.go for Codex,       *)
(* prepareUpdate for the agent itself) and reports.  The handler of the    *)
(* report settles the open row (internal/worker/settle.go).  Between full  *)
(* synchronisations a heartbeat re-sends the last report with a new stamp. *)
(*                                                                         *)
(* Time is counted in rows: a report stamped "at" n was made after row n   *)
(* and before row n + 1.  The clocks of machine and console agree.         *)
(*                                                                         *)
(* A definition marked "Slip" is not part of the model: it is what a       *)
(* plausible mistake would make of the definition after it.                *)
(***************************************************************************)
EXTENDS Naturals, Sequences, FiniteSets

CONSTANTS
  Version,      \* the registered artifacts
  Old,          \* the version the machine starts with
  None,         \* no version
  MaxTarget,    \* bound: rows
  MaxDecision,  \* bound: decisions of administrators that create no row
  MaxMishap     \* bound: what goes wrong on the way

ReleasesAssumption ==
  /\ Old \in Version /\ None \notin Version
  /\ MaxTarget \in Nat /\ MaxDecision \in Nat /\ MaxMishap \in Nat

VARIABLES
  product,     \* whose versions these are: it never changes
  artifact,    \* the status of each artifact
  policy,      \* the version in the fleet policy
  publishing,  \* the policy names it, the rows of the machines are still to come:
               \* each publication, by its number, and what it does next
  targets,     \* the machine's rows, by generation
  paused,      \* the rollouts that are paused
  releasing,   \* a global row succeeded, its release is still to come
  running,     \* the version on the machine
  marker,      \* the attempt the machine remembers
  cycle,       \* the synchronisation
  beat,        \* the heartbeat beside it
  last,        \* Syncer.lastStatus
  failed,      \* history: what was attempted last, if it was marked and failed
  retried,     \* history: the next attempt was the same
  decisions, mishaps   \* counters for the bounds

server == <<artifact, policy, publishing, targets, paused, releasing>>
agent == <<running, marker, cycle, beat, last>>
history == <<failed, retried>>
vars == <<product, server, agent, history, decisions, mishaps>>

Generation == 0 .. MaxTarget
\* What a machine is to run.  Generation 0 is the fleet policy's.
Wish == [version : Version \cup {None}, gen : Generation]
NoWish == [version |-> None, gen |-> 0]
\* A rollout is known by its first row.
Target == [version : Version, global : BOOLEAN, rollout : 1 .. MaxTarget, released : BOOLEAN,
           status : {"pending", "succeeded", "failed", "cancelled", "excluded", "superseded"}]
\* A version that cannot be read is None.
Status == [running : Version \cup {None}, want : Wish, state : {"", "failed", "deferred", "pending"},
           at : Generation]
NoStatus == [running |-> Old, want |-> NoWish, state |-> "none", at |-> 0]
NoCycle == [pc |-> "idle", want |-> NoWish, st |-> NoStatus]
NoBeat == [pc |-> "idle", st |-> NoStatus]

Init ==
  /\ product \in {"agent", "codex"}
  /\ artifact = [v \in Version |-> "stable"]
  /\ policy = None /\ publishing = {}
  /\ targets = <<>> /\ paused = {} /\ releasing = FALSE
  /\ running = Old /\ marker = NoWish
  /\ cycle = NoCycle /\ beat = NoBeat /\ last = NoStatus
  /\ failed = {} /\ retried = FALSE
  /\ decisions = 0 /\ mishaps = 0

Decision == decisions < MaxDecision /\ decisions' = decisions + 1
Mishap == mishaps < MaxMishap /\ mishaps' = mishaps + 1

-----------------------------------------------------------------------------
(* The rows.                                                               *)

Rows(status) == {t \in DOMAIN targets : targets[t].status = status}
Open == Rows("pending")
Succeeded == {t \in Rows("succeeded") : ~targets[t].released}
LastSucceeded == CHOOSE t \in Succeeded : \A u \in Succeeded : u <= t

\* CreateTarget supersedes the open row and appends one.
Append1(version, global, rollout) ==
  /\ Len(targets) < MaxTarget
  /\ targets' = Append([t \in DOMAIN targets |->
                          IF t \in Open THEN [targets[t] EXCEPT !.status = "superseded"] ELSE targets[t]],
                       [version |-> version, global |-> global, rollout |-> rollout,
                        released |-> FALSE, status |-> "pending"])

\* FinishTarget, CancelPending: only a pending row is settled.
Finish(rows, status) ==
  targets' = [t \in DOMAIN targets |->
                IF t \in rows \cap Open THEN [targets[t] EXCEPT !.status = status] ELSE targets[t]]

\* machineTargets, and the fleet policy where it says nothing.
Wanted ==
  IF Open # {}
  THEN LET t == CHOOSE u \in Open : TRUE
       IN [version |-> IF targets[t].rollout \in paused THEN None ELSE targets[t].version, gen |-> t]
  ELSE IF Succeeded # {} /\ ~targets[LastSucceeded].global
  THEN [version |-> targets[LastSucceeded].version, gen |-> LastSucceeded]
  ELSE [version |-> policy, gen |-> 0]

\* machineHasPrivateTarget: the open row decides, else the last one that succeeded.
HasPrivateTarget ==
  \/ \E t \in Open : ~targets[t].global
  \/ Open = {} /\ Succeeded # {} /\ ~targets[LastSucceeded].global

-----------------------------------------------------------------------------
(* What administrators do.                                                 *)

NothingOnTheMachine == UNCHANGED <<product, agent, history, mishaps>>

SetArtifactStatus(v, status) ==
  /\ Decision
  /\ artifact' = [artifact EXCEPT ![v] = status]
  /\ UNCHANGED <<policy, publishing, targets, paused, releasing>> /\ NothingOnTheMachine

\* SetGlobalTarget writes the policy in one transaction and the rows in another,
\* which looks whether the machine has a pin before it creates anything.
SetGlobalTarget(v) ==
  /\ artifact[v] = "stable"
  /\ policy' = v
  /\ Decision
  /\ publishing' = publishing \cup {[number |-> decisions', version |-> v, next |-> "look"]}
  /\ UNCHANGED <<artifact, targets, paused, releasing>> /\ NothingOnTheMachine

LookForPin(p) ==
  /\ p.next = "look"
  /\ publishing' = (publishing \ {p}) \cup
                   (IF HasPrivateTarget THEN {}
                    ELSE {[number |-> p.number, version |-> p.version, next |-> "create"]})
  /\ UNCHANGED <<artifact, policy, targets, paused, releasing, decisions>> /\ NothingOnTheMachine

\* A pin that was made since the look is superseded with the open row.
CreateGlobalRollout(p) ==
  /\ p.next = "create"
  /\ publishing' = publishing \ {p}
  /\ Append1(p.version, TRUE, Len(targets) + 1)
  /\ UNCHANGED <<artifact, policy, paused, releasing, decisions>> /\ NothingOnTheMachine

Publishing == \E p \in publishing : LookForPin(p) \/ CreateGlobalRollout(p)

ClearGlobalTarget ==
  /\ policy # None
  /\ Decision
  /\ policy' = None
  /\ UNCHANGED <<artifact, publishing, targets, paused, releasing>> /\ NothingOnTheMachine

CreateRollout(v) ==
  /\ artifact[v] # "retired"
  /\ Append1(v, FALSE, Len(targets) + 1)
  /\ UNCHANGED <<artifact, policy, publishing, paused, releasing, decisions>> /\ NothingOnTheMachine

\* RetryTarget: another generation of the same rollout.
RetryTarget(t) ==
  /\ t \in Rows("failed")
  /\ Append1(targets[t].version, targets[t].global, targets[t].rollout)
  /\ UNCHANGED <<artifact, policy, publishing, paused, releasing, decisions>> /\ NothingOnTheMachine

SetRolloutPaused(r) ==
  /\ Decision
  /\ paused' = IF r \in paused THEN paused \ {r} ELSE paused \cup {r}
  /\ UNCHANGED <<artifact, policy, publishing, targets, releasing>> /\ NothingOnTheMachine

\* CancelRollout and ExcludeTarget.
Withdraw(t, status) ==
  /\ t \in Open
  /\ Decision
  /\ Finish({t}, status)
  /\ UNCHANGED <<artifact, policy, publishing, paused, releasing>> /\ NothingOnTheMachine

FollowGlobal ==
  /\ Open # {} \/ Succeeded # {}
  /\ Decision
  /\ targets' = [t \in DOMAIN targets |->
                   IF t \in Open THEN [targets[t] EXCEPT !.status = "cancelled"]
                   ELSE [targets[t] EXCEPT !.released = @ \/ targets[t].status = "succeeded"]]
  /\ UNCHANGED <<artifact, policy, publishing, paused, releasing>> /\ NothingOnTheMachine

-----------------------------------------------------------------------------
(* How a report settles the open row.                                      *)

\* The machine says it tried this generation and could not.
Fails(st, t) == st.want = [version |-> targets[t].version, gen |-> t] /\ st.state = "failed"

\* SettleTargets: the open row, if the report is newer.
Settle(st) ==
  LET rows == {t \in Open : t <= st.at}
      done == {t \in rows : st.running = targets[t].version}
  IN /\ targets' = [t \in DOMAIN targets |->
                      IF t \in done THEN [targets[t] EXCEPT !.status = "succeeded"]
                      ELSE IF t \in rows /\ Fails(st, t) THEN [targets[t] EXCEPT !.status = "failed"]
                      ELSE targets[t]]
     /\ releasing' = (releasing \/ \E t \in done : targets[t].global)
     /\ UNCHANGED <<artifact, policy, publishing, paused>>

\* ReleaseSucceeded, a statement of its own.
Release ==
  /\ releasing
  /\ releasing' = FALSE
  /\ targets' = [t \in DOMAIN targets |->
                   [targets[t] EXCEPT !.released = @ \/ targets[t].status = "succeeded"]]
  /\ UNCHANGED <<artifact, policy, publishing, paused, decisions>> /\ NothingOnTheMachine

\* The console dies between two statements.
RestartConsole ==
  /\ releasing \/ publishing # {}
  /\ Mishap
  /\ releasing' = FALSE /\ publishing' = {}
  /\ UNCHANGED <<product, artifact, policy, targets, paused, agent, history, decisions>>

-----------------------------------------------------------------------------
(* The machine.                                                            *)

NothingAtTheConsole == UNCHANGED <<product, server, decisions>>

\* The configuration of this cycle is read.
BeginCycle ==
  /\ cycle.pc = "idle"
  /\ cycle' = [NoCycle EXCEPT !.pc = "work", !.want = Wanted]
  /\ UNCHANGED <<running, marker, beat, last, history, mishaps>> /\ NothingAtTheConsole

\* status.Build.
Report(now, state) ==
  cycle' = [cycle EXCEPT !.pc = "report",
              !.st = [running |-> now, want |-> cycle.want, state |-> state, at |-> Len(targets)]]

\* codexEligible and prepareUpdate: equality, never "newer".
Eligible == cycle.want.version \notin {None, running}

\* A version that was tried already is left alone without a word.
SlipWork ==
  /\ cycle.pc = "work"
  /\ ~Eligible \/ marker = cycle.want
  /\ Report(running, "")
  /\ UNCHANGED <<running, marker, beat, last, history, mishaps>> /\ NothingAtTheConsole

\* Nothing to do, or tried already: then the machine says so every time.
Work ==
  /\ cycle.pc = "work"
  /\ ~Eligible \/ marker = cycle.want
  /\ Report(running, IF Eligible THEN "failed" ELSE "")
  /\ UNCHANGED <<running, marker, beat, last, history, mishaps>> /\ NothingAtTheConsole

\* writeMarker says nothing of an error: the file may stay as it was, or be left
\* empty.
WriteMarker ==
  \/ marker' = cycle.want /\ UNCHANGED mishaps
  \/ Mishap /\ marker' \in {marker, NoWish}

\* An attempt that failed is known by its mark.
Failed(mark) == failed' = {mark} \cap {cycle.want}

\* updateCodex cannot read what is installed: it says nothing else.
CannotRead ==
  /\ product = "codex" /\ cycle.pc = "work"
  /\ Mishap
  /\ Report(None, "")
  /\ UNCHANGED <<running, marker, beat, last, history>> /\ NothingAtTheConsole

\* Codex cannot be closed or fetched, or there is no room: no attempt was made.
CannotFetch(state) ==
  /\ cycle.pc = "work" /\ Eligible /\ marker # cycle.want
  /\ product = "agent" => state = "failed"
  /\ Mishap
  /\ Report(running, state)
  /\ UNCHANGED <<running, marker, beat, last, history>> /\ NothingAtTheConsole

\* With the wrong checksum it counts as one, if that can be written down.
WrongChecksum ==
  /\ cycle.pc = "work" /\ Eligible /\ marker # cycle.want
  /\ Mishap
  /\ marker' \in {cycle.want, marker, NoWish}
  /\ Report(running, "failed")
  /\ Failed(marker')
  /\ UNCHANGED <<running, beat, last, retried>> /\ NothingAtTheConsole

\* For the history: an attempt begins.
Attempt ==
  /\ failed' = {}
  /\ retried' = (retried \/ cycle.want \in failed)

\* The marker is written and not looked at.
SlipFetchCodex ==
  /\ product = "codex"
  /\ cycle.pc = "work" /\ Eligible
  /\ WriteMarker
  /\ cycle' = [cycle EXCEPT !.pc = "install"]
  /\ Attempt
  /\ UNCHANGED <<running, beat, last>> /\ NothingAtTheConsole

\* Mark before installing, not after.
FetchCodex ==
  /\ product = "codex"
  /\ cycle.pc = "work" /\ Eligible /\ marker # cycle.want
  /\ WriteMarker
  /\ cycle' = [cycle EXCEPT !.pc = "install"]
  /\ Attempt
  /\ UNCHANGED <<running, beat, last>> /\ NothingAtTheConsole

\* The agent's own update is fetched now and applied after the report.
FetchAgent ==
  /\ product = "agent"
  /\ cycle.pc = "work" /\ Eligible /\ marker # cycle.want
  /\ Report(running, "pending")
  /\ UNCHANGED <<running, marker, beat, last, history, mishaps>> /\ NothingAtTheConsole

\* What is installed is read again afterwards: the installer may say that all is
\* well and have installed something else, and if the version cannot be read,
\* the installer is believed for this cycle.
InstallCodex ==
  /\ product = "codex" /\ cycle.pc = "install"
  /\ \/ /\ running' = cycle.want.version
        /\ Report(running', "")
        /\ UNCHANGED <<failed, mishaps>>
     \/ /\ Mishap
        /\ Report(running, "failed")
        /\ Failed(marker)
        /\ UNCHANGED running
     \/ /\ Mishap
        /\ running' \in Version \ {cycle.want.version}
        /\ Report(running', "") \/ Report(cycle.want.version, "")
        /\ Failed(marker)
  /\ UNCHANGED <<marker, beat, last, retried>> /\ NothingAtTheConsole

\* The report arrives and is handled, or it does not.  Its stamp is not needed
\* again: a heartbeat has its own.
ReportStatus ==
  /\ cycle.pc = "report"
  /\ cycle' = [cycle EXCEPT !.pc = "store", !.st.at = 0]
  /\ \/ Settle(cycle.st) /\ UNCHANGED mishaps
     \/ Mishap /\ UNCHANGED server
  /\ UNCHANGED <<product, running, marker, beat, last, history, decisions>>

StoreStatus ==
  /\ cycle.pc = "store"
  /\ last' = cycle.st
  /\ cycle' = IF cycle.st.state = "pending" THEN [cycle EXCEPT !.pc = "apply"] ELSE NoCycle
  /\ UNCHANGED <<running, marker, beat, history, mishaps>> /\ NothingAtTheConsole

\* The agent marks its own update, too, before it applies it.
MarkAgent ==
  /\ cycle.pc = "apply"
  /\ WriteMarker
  /\ cycle' = [cycle EXCEPT !.pc = "install"]
  /\ Attempt
  /\ UNCHANGED <<running, beat, last>> /\ NothingAtTheConsole

\* ApplyUpdate replaces the process, or fails.
ApplyAgent ==
  /\ product = "agent" /\ cycle.pc = "install"
  /\ cycle' = NoCycle
  /\ \/ /\ running' = cycle.want.version
        /\ beat' = NoBeat /\ last' = NoStatus
        /\ UNCHANGED <<failed, mishaps>>
     \/ /\ Mishap
        /\ Failed(marker)
        /\ UNCHANGED <<running, beat, last>>
  /\ UNCHANGED <<marker, retried>> /\ NothingAtTheConsole

\* Heartbeat and ReportEvent: copy, stamp and send; the copy is written back
\* when the call returns.
SendBeat ==
  /\ beat.pc = "idle" /\ last # NoStatus
  /\ LET st == [last EXCEPT !.at = Len(targets)]
     IN /\ beat' = [pc |-> "store", st |-> last]
        /\ \/ Settle(st) /\ UNCHANGED mishaps
           \/ Mishap /\ UNCHANGED server
  /\ UNCHANGED <<product, running, marker, cycle, last, history, decisions>>

StoreBeat ==
  /\ beat.pc = "store"
  /\ last' = beat.st
  /\ beat' = NoBeat
  /\ UNCHANGED <<running, marker, cycle, history, mishaps>> /\ NothingAtTheConsole

\* The service dies.  An installer that was running may have done its work.
Crash ==
  /\ Mishap
  /\ cycle' = NoCycle /\ beat' = NoBeat /\ last' = NoStatus
  /\ \/ UNCHANGED running /\ (IF cycle.pc = "install" THEN Failed(marker) ELSE UNCHANGED failed)
     \/ cycle.pc = "install" /\ running' = cycle.want.version /\ UNCHANGED failed
  /\ UNCHANGED <<marker, retried>> /\ NothingAtTheConsole

-----------------------------------------------------------------------------
Administrator ==
  \/ \E v \in Version :
       \/ \E s \in {"candidate", "stable", "retired"} \ {artifact[v]} : SetArtifactStatus(v, s)
       \/ SetGlobalTarget(v) \/ CreateRollout(v)
  \/ ClearGlobalTarget \/ FollowGlobal
  \/ \E t \in DOMAIN targets :
       \/ RetryTarget(t) \/ Withdraw(t, "cancelled") \/ Withdraw(t, "excluded")
       \/ targets[t].rollout = t /\ SetRolloutPaused(t)

Cycle ==
  \/ BeginCycle \/ Work \/ FetchCodex \/ FetchAgent \/ InstallCodex
  \/ ReportStatus \/ StoreStatus \/ MarkAgent \/ ApplyAgent

Beat == SendBeat \/ StoreBeat

Hindered == CannotRead \/ WrongChecksum \/ \E state \in {"failed", "deferred"} : CannotFetch(state)

Next ==
  \/ Administrator \/ Publishing \/ Release \/ RestartConsole
  \/ Cycle \/ Hindered \/ Beat \/ Crash

Spec == Init /\ [][Next]_vars

\* The machine stays on and synchronises again and again.
Fairness == WF_vars(Cycle) /\ WF_vars(Publishing) /\ WF_vars(Release)
FairSpec == Spec /\ Fairness

-----------------------------------------------------------------------------
TypeOK ==
  /\ product \in {"agent", "codex"}
  /\ artifact \in [Version -> {"candidate", "stable", "retired"}]
  /\ policy \in Version \cup {None}
  /\ publishing \subseteq [number : 1 .. MaxDecision, version : Version, next : {"look", "create"}]
  /\ Len(targets) <= MaxTarget /\ \A t \in DOMAIN targets : targets[t] \in Target
  /\ paused \subseteq DOMAIN targets
  /\ releasing \in BOOLEAN /\ retried \in BOOLEAN
  /\ running \in Version /\ marker \in Wish /\ last \in Status \cup {NoStatus}
  /\ cycle \in [pc : {"idle", "work", "install", "report", "store", "apply"}, want : Wish,
                st : Status \cup {NoStatus}]
  /\ beat \in [pc : {"idle", "store"}, st : Status \cup {NoStatus}]
  /\ failed \subseteq Wish
  /\ decisions \in 0 .. MaxDecision /\ mishaps \in 0 .. MaxMishap

\* An attempt that was marked and failed is not what the machine attempts next,
\* whatever crash, lost report or fallback lies between: "one attempt per
\* generation" (codex.go:130).  The marker holds one attempt, so a generation that
\* becomes current again after another was attempted is attempted again; and
\* where the marker cannot be written, every synchronisation attempts it anew.
NoBlindRetry == ~retried

\* A machine has one open row at most (CreateTarget supersedes the one there is),
\* so what it is to run is never a matter of which row a query meets first.
OneOpenRow == \A t, u \in Open : t = u

\* An outcome stands: no late report, repeated heartbeat or withdrawal settles a
\* row twice, and no row goes away.
OutcomesStand ==
  [][ \A t \in DOMAIN targets :
        /\ t \in DOMAIN targets'
        /\ targets[t].status # "pending" => targets'[t].status = targets[t].status ]_vars

\* When the administrators have finished, every row is settled that is not
\* held by a pause, and the machine runs what it is to run or has tried it.
Settled ==
  /\ \A t \in Open : targets[t].rollout \in paused
  /\ Wanted.version \notin {None, running} => marker = Wanted
DecisionsAreSettled == <>[]Settled
=============================================================================
