------------------------------ MODULE LongPoll ------------------------------
(***************************************************************************)
(* How a change in the console reaches a machine without the machine       *)
(* asking again.                                                           *)
(*                                                                         *)
(* A transaction commits and the operation then wakes the hub              *)
(* (internal/deviceapi/hub.go).  A request to /agent/v1/wait is a handler  *)
(* that registers with the hub, reads the configuration, answers if it is  *)
(* not the one the agent has, and otherwise sleeps until it is woken, a    *)
(* timer fires, its time is up, or a newer request of the same machine     *)
(* takes over.  On the machine the waiter (cmd/agent/console.go) sends one *)
(* request after another and nudges the service loop (cmd/agent/main.go),  *)
(* which runs a synchronisation beside itself: one at a time, never two    *)
(* within minSyncGap.                                                      *)
(*                                                                         *)
(* A configuration is its number, in the order of commits: etags of        *)
(* different configurations differ, and 0 is the etag of an agent that has *)
(* seen none.                                                              *)
(*                                                                         *)
(* A definition marked "Slip" is not part of the model: it is what a       *)
(* plausible mistake would make of the definition after it.                *)
(***************************************************************************)
EXTENDS Naturals, FiniteSets

CONSTANTS
  Request,     \* the handlers of one machine's requests that may be open at once
  MaxChange,   \* bound: how often the configuration changes
  MaxTrouble   \* bound: lost connections, restarts of either side, resumes from sleep

LongPollAssumption ==
  /\ IsFiniteSet(Request)
  /\ 0 \notin Request
  /\ MaxChange \in Nat \ {0}
  /\ MaxTrouble \in Nat

VARIABLES
  config,     \* the configuration the database describes
  owed,       \* a commit whose wake is still to come
  poll,       \* the handlers
  waiter,     \* the agent's waiter
  cfg,        \* APISource.cfg
  notify,     \* the channel between waiter and loop holds a nudge
  sync,       \* the synchronisation, and what the loop knows of it
  applied,    \* the configuration the machine follows
  missed,     \* the last synchronisation that asked for the configuration got none
  trouble     \* counter for the bound

agentVars == <<waiter, cfg, notify, sync, applied, missed>>
vars == <<config, owed, poll, agentVars, trouble>>

Config == 0 .. MaxChange + 1

\* have: the etag in the request.  heard: a channel it registered for was closed.
Poll == [pc : {"idle", "register", "read", "select"}, have : Config, heard : BOOLEAN,
         ended : BOOLEAN]
NoPoll == [pc |-> "idle", have |-> 0, heard |-> FALSE, ended |-> FALSE]

\* answered: the configuration "news" is on its way back.  got: it was stored,
\* the nudge is still to come.
Waiter == [pc : {"ask", "wait", "answered", "got"}, request : Request \cup {0}, news : Config]
NewWaiter == [pc |-> "ask", request |-> 0, news |-> 0]

\* step "start" is before, "work" after the configuration of the cycle was read.
\* cycle: APISource.cycle, the last one that was read for a cycle, 0 for nil.
\* again: pendingSync.  gap: another synchronisation began just now.
\* timer: a deferred nudge is on its way.
Sync == [step : {"none", "start", "work"}, cycle : Config, again : BOOLEAN,
         gap : BOOLEAN, timer : BOOLEAN]
\* The service starts with a synchronisation of its own.
Started == [step |-> "start", cycle |-> 0, again |-> FALSE, gap |-> TRUE, timer |-> FALSE]

Init ==
  /\ config = 1
  /\ owed = FALSE
  /\ poll = [p \in Request |-> NoPoll]
  /\ waiter = NewWaiter
  /\ cfg = 0
  /\ notify = FALSE
  /\ sync = Started
  /\ applied = 0 /\ missed = FALSE
  /\ trouble = 0

Trouble ==
  /\ trouble < MaxTrouble
  /\ trouble' = trouble + 1

-----------------------------------------------------------------------------
(* The console.                                                            *)

\* An operation that does not wake anybody.
SlipChange ==
  /\ config <= MaxChange
  /\ config' = config + 1
  /\ UNCHANGED <<owed, poll, agentVars, trouble>>

\* The transaction of an operation commits.
Change ==
  /\ config <= MaxChange
  /\ config' = config + 1
  /\ owed' = TRUE
  /\ UNCHANGED <<poll, agentVars, trouble>>

\* Service.wake and wakeAll, Notifier in the exports: Hub.Wake closes the
\* channels the handlers registered for, and later ones get fresh ones.
Wake ==
  /\ owed
  /\ owed' = FALSE
  /\ poll' = [p \in Request |-> [poll[p] EXCEPT !.heard = @ \/ poll[p].pc \in {"read", "select"}]]
  /\ UNCHANGED <<config, agentVars, trouble>>

\* handleWait registers with the hub before it reads.
Register(p) ==
  /\ poll[p].pc = "register"
  /\ poll' = [poll EXCEPT ![p].pc = "read", ![p].heard = FALSE]
  /\ UNCHANGED <<config, owed, agentVars, trouble>>

\* The handler answers; the agent listens if it still waits for this request.
Answer(p, changed) ==
  waiter' = IF waiter.request # p THEN waiter
            ELSE IF changed THEN [pc |-> "answered", request |-> 0, news |-> config]
            ELSE NewWaiter

\* The configuration is read; a request whose time is up ends empty-handed.
Read(p) ==
  /\ poll[p].pc = "read"
  /\ IF ~poll[p].ended /\ poll[p].have = config
     THEN /\ poll' = [poll EXCEPT ![p].pc = "select"]
          /\ UNCHANGED waiter
     ELSE /\ poll' = [poll EXCEPT ![p] = NoPoll]
          /\ Answer(p, ~poll[p].ended)
  /\ UNCHANGED <<config, owed, cfg, notify, sync, applied, missed, trouble>>

\* The select: a closed channel, or time is up or a newer request is there.
Hear(p) ==
  /\ poll[p].pc = "select" /\ poll[p].heard
  /\ poll' = [poll EXCEPT ![p].pc = "register"]
  /\ UNCHANGED <<config, owed, agentVars, trouble>>

End(p) ==
  /\ poll[p].pc = "select" /\ poll[p].ended
  /\ poll' = [poll EXCEPT ![p] = NoPoll]
  /\ Answer(p, FALSE)
  /\ UNCHANGED <<config, owed, cfg, notify, sync, applied, missed, trouble>>

\* WaitMax, which is much longer than the read.
TimeIsUp(p) ==
  /\ poll[p].pc = "select" /\ ~poll[p].ended
  /\ poll' = [poll EXCEPT ![p].ended = TRUE]
  /\ UNCHANGED <<config, owed, agentVars, trouble>>

\* The ticker re-reads.  No property relies on it.
Recheck(p) ==
  /\ poll[p].pc = "select"
  /\ poll' = [poll EXCEPT ![p].pc = "register"]
  /\ UNCHANGED <<config, owed, agentVars, trouble>>

\* The hub, the handlers and the wakes that are owed live in the process.
RestartConsole ==
  /\ Trouble
  /\ owed' = FALSE
  /\ poll' = [p \in Request |-> NoPoll]
  /\ waiter' = IF waiter.pc = "wait" THEN NewWaiter ELSE waiter
  /\ UNCHANGED <<config, cfg, notify, sync, applied, missed>>

-----------------------------------------------------------------------------
(* The agent.                                                              *)

\* takeOver: the newer request of a machine ends the older ones.
Ask(p) ==
  /\ waiter.pc = "ask"
  /\ poll[p].pc = "idle"
  /\ waiter' = [NewWaiter EXCEPT !.pc = "wait", !.request = p]
  /\ poll' = [q \in Request |->
                IF q = p THEN [NoPoll EXCEPT !.pc = "register", !.have = cfg]
                ELSE IF poll[q].pc = "idle" THEN NoPoll ELSE [poll[q] EXCEPT !.ended = TRUE]]
  /\ UNCHANGED <<config, owed, cfg, notify, sync, applied, missed, trouble>>

\* A waiter without a timeout of its own waits on.
SlipLoseConnection ==
  /\ waiter.pc = "wait"
  /\ Trouble
  /\ waiter' = [waiter EXCEPT !.request = 0]
  /\ UNCHANGED <<config, owed, poll, cfg, notify, sync, applied, missed>>

\* The connection breaks: the waiter backs off and asks again, the handler
\* goes on until somebody ends it.
LoseConnection ==
  /\ waiter.pc = "wait"
  /\ Trouble
  /\ waiter' = NewWaiter
  /\ UNCHANGED <<config, owed, poll, cfg, notify, sync, applied, missed>>

\* APISource.Wait stores what came back, whatever refresh has put there since.
Receive ==
  /\ waiter.pc = "answered"
  /\ cfg' = waiter.news
  /\ waiter' = [NewWaiter EXCEPT !.pc = "got"]
  /\ UNCHANGED <<config, owed, poll, notify, sync, applied, missed, trouble>>

\* A nudge, unless one is already pending.
Nudge ==
  /\ waiter.pc = "got"
  /\ waiter' = NewWaiter
  /\ notify' = TRUE
  /\ UNCHANGED <<config, owed, poll, cfg, sync, applied, missed, trouble>>

\* startSync("console changed"): after the one that is running, or when the
\* gap has passed, or now.
StartSync ==
  /\ notify
  /\ notify' = FALSE
  /\ sync' = IF sync.step # "none" THEN [sync EXCEPT !.again = TRUE]
             ELSE IF sync.gap THEN [sync EXCEPT !.timer = TRUE]
             ELSE [sync EXCEPT !.step = "start", !.gap = TRUE]
  /\ UNCHANGED <<config, owed, poll, waiter, cfg, applied, missed, trouble>>

\* startSync for a resume or by the clock: skipped within the gap.
StartSyncUnasked ==
  /\ Trouble
  /\ \/ sync.step # "none" /\ sync' = [sync EXCEPT !.again = TRUE]
     \/ sync.step = "none" /\ ~sync.gap /\ sync' = [sync EXCEPT !.step = "start", !.gap = TRUE]
  /\ UNCHANGED <<config, owed, poll, waiter, cfg, notify, applied, missed>>

\* refresh: the console is asked, whatever the waiter holds is replaced.
Refresh ==
  /\ sync.step = "start"
  /\ cfg' = config
  /\ sync' = [sync EXCEPT !.step = "work", !.cycle = config]
  /\ missed' = FALSE
  /\ UNCHANGED <<config, owed, poll, waiter, notify, applied, trouble>>

\* The console does not answer Policy: the cycle goes on with the document of
\* the former one.  Without one, Binding asks again.
RefreshFails ==
  /\ sync.step = "start"
  /\ Trouble
  /\ cfg' \in {cfg} \cup (IF sync.cycle = 0 THEN {config} ELSE {})
  /\ sync' = [sync EXCEPT !.step = "work"]
  /\ missed' = TRUE
  /\ UNCHANGED <<config, owed, poll, waiter, notify, applied>>

\* RunOnce returns and finishSync takes note.  A cycle without a document leaves
\* the machine as it is.
FinishSync ==
  /\ sync.step = "work"
  /\ applied' = IF sync.cycle = 0 THEN applied ELSE sync.cycle
  /\ sync' = [sync EXCEPT !.step = "none", !.again = FALSE]
  /\ notify' = (notify \/ sync.again)
  /\ UNCHANGED <<config, owed, poll, waiter, cfg, missed, trouble>>

\* DueForSync: the clock, which runs whatever happens.  It is told apart from
\* StartSyncUnasked where a cycle got no configuration, because only then
\* anything is asked of it.
Scheduled ==
  /\ missed
  /\ sync.step = "none" /\ ~sync.gap
  /\ sync' = [sync EXCEPT !.step = "start", !.gap = TRUE]
  /\ UNCHANGED <<config, owed, poll, waiter, cfg, notify, applied, missed, trouble>>

GapPasses ==
  /\ sync.gap
  /\ sync' = [sync EXCEPT !.gap = FALSE]
  /\ UNCHANGED <<config, owed, poll, waiter, cfg, notify, applied, missed, trouble>>

\* time.AfterFunc: not before the gap has passed.
DeferredNudge ==
  /\ sync.timer /\ ~sync.gap
  /\ sync' = [sync EXCEPT !.timer = FALSE]
  /\ notify' = TRUE
  /\ UNCHANGED <<config, owed, poll, waiter, cfg, applied, missed, trouble>>

\* The service restarts; what the machine follows stays.
RestartAgent ==
  /\ Trouble
  /\ waiter' = NewWaiter
  /\ cfg' = 0
  /\ notify' = FALSE
  /\ sync' = Started
  /\ missed' = FALSE
  /\ UNCHANGED <<config, owed, poll, applied>>

-----------------------------------------------------------------------------
Handler(p) == Register(p) \/ Read(p) \/ Hear(p) \/ End(p)

Loop == StartSync \/ Refresh \/ FinishSync \/ DeferredNudge

Next ==
  \/ Change \/ Wake \/ RestartConsole
  \/ \E p \in Request : Handler(p) \/ TimeIsUp(p) \/ Recheck(p) \/ Ask(p)
  \/ LoseConnection \/ Receive \/ Nudge \/ Loop \/ GapPasses
  \/ StartSyncUnasked \/ Scheduled \/ RefreshFails \/ RestartAgent

Spec == Init /\ [][Next]_vars

\* Everything that runs goes on running.  Nothing is asked of the timers that
\* re-read (Recheck), that end a request in good order (TimeIsUp), or that
\* synchronise by the clock, unless the last synchronisation got no
\* configuration (Scheduled).
Fairness ==
  /\ WF_vars(Wake)
  /\ \A p \in Request : WF_vars(Handler(p))
  /\ WF_vars(\E p \in Request : Ask(p))
  /\ WF_vars(Receive) /\ WF_vars(Nudge) /\ WF_vars(Loop) /\ WF_vars(GapPasses)
  /\ WF_vars(Scheduled)

FairSpec == Spec /\ Fairness

-----------------------------------------------------------------------------
TypeOK ==
  /\ config \in Config
  /\ owed \in BOOLEAN
  /\ poll \in [Request -> Poll]
  /\ waiter \in Waiter
  /\ cfg \in Config
  /\ notify \in BOOLEAN
  /\ sync \in Sync
  /\ applied \in Config /\ missed \in BOOLEAN
  /\ trouble \in 0 .. MaxTrouble

\* No handler sleeps on a configuration that is no longer the current one:
\* it has been woken, or the wake is still to come.
NoSleepOnOldNews ==
  \A p \in Request :
    poll[p].pc = "select" => poll[p].have = config \/ poll[p].heard \/ owed

\* What the waiter has learned and the machine does not follow yet is not
\* forgotten: a nudge is on its way, or a synchronisation that will see it; or
\* the last synchronisation was not answered, and then it is the clock's turn.
NewsIsNotDropped ==
  cfg # applied /\ cfg # 0 =>
    \/ waiter.pc \in {"answered", "got"} \/ notify \/ sync.timer
    \/ sync.step = "start" \/ missed
    \/ sync.step = "work" /\ (sync.cycle = cfg \/ sync.again)

\* Every change is followed by the machine in the end; and not because some
\* timer went off, unless a synchronisation was not answered.
Arrived == applied = config
ChangesArrive == <>[]Arrived
=============================================================================
