---------------------------- MODULE FleetProofs -----------------------------
(***************************************************************************)
(* Theorems about a change on its way to a machine (LongPoll), about the   *)
(* versions a machine tries (Releases), for any number of requests,        *)
(* changes, rows, decisions and mishaps, and about the merge of a package  *)
(* into an employee's file (CodexConfig), for files of any lines.          *)
(*                                                                         *)
(* LongPoll.  That nobody sleeps on old news is inductive by itself: what  *)
(* it takes is that a handler registers before it reads, and that a commit *)
(* leaves a wake owed.  That the news a waiter brought is not dropped      *)
(* needs one fact more (WorkIsWatched): a synchronisation at work on       *)
(* another configuration than the one in hand will be followed by a nudge. *)
(*                                                                         *)
(* Releases.  The marker is what ties an attempt to its outcome            *)
(* (MarkerInv): during an installation it names the attempt, a pending     *)
(* update of the agent is one the marker does not name yet, and only the   *)
(* attempt it names can be the one that failed last.                       *)
(*                                                                         *)
(* CodexConfig.  The recursive functions of the scanner and of Select are  *)
(* unfolded once (Recursion, by SetInduction), and scans are compared line *)
(* by line (SameScan, Shift).  What a strip leaves of a file has no        *)
(* managed line, or does not close its values (StripCleans); it falls into *)
(* a part A at the root and a part B below a header (TrimmedParts); the    *)
(* merged file is the fragment laid around A and B (MergeIs), and a strip  *)
(* of that gives A and B back (OutStrips), so that it is merged into       *)
(* itself (SettlesAtOnce).  What TOML says of a file that leaves nothing   *)
(* open is what the scan says; lines kept of it are read in step with it,  *)
(* and so are A and B in every file they stand in.                         *)
(*                                                                         *)
(* Profile.  A file of the delivery's story speaks of one token (Holds): a *)
(* merge puts the delivered one there (MergeBrings), a file of another has *)
(* another identity (TokenIsIdentity), so that Codex is stopped, and what  *)
(* Codex reads is the file's token (ReadTokenIs).                          *)
(***************************************************************************)
EXTENDS MCFleet, FiniteSets, FiniteSetTheorems, TLAPS

-----------------------------------------------------------------------------
(* LongPoll *)

\* Only a waiter that waits has a request.
WaitsForOne == waiter.request # 0 => waiter.pc = "wait"

\* A nudge is on its way, or the clock's turn has come.
Nudged == waiter.pc \in {"answered", "got"} \/ notify \/ sync.timer \/ missed

\* Whoever works on another configuration than the one in hand works again.
WorkIsWatched == sync.step = "work" /\ cfg # 0 => sync.cycle = cfg \/ sync.again \/ Nudged

PollInv ==
  /\ P!TypeOK
  /\ WaitsForOne
  /\ WorkIsWatched
  /\ P!NoSleepOnOldNews
  /\ P!NewsIsNotDropped

USE DEF WaitsForOne, Nudged, WorkIsWatched, PollInv

LEMMA ZeroIsAConfig == 0 \in P!Config
BY FleetAssumption DEF P!LongPollAssumption, P!Config

LEMMA NoPollIsOne == P!NoPoll \in P!Poll
BY FleetAssumption DEF P!LongPollAssumption, P!NoPoll, P!Poll, P!Config

LEMMA NewWaiterIsOne == P!NewWaiter \in P!Waiter
BY FleetAssumption DEF P!LongPollAssumption, P!NewWaiter, P!Waiter, P!Config

LEMMA StartedIsOne == P!Started \in P!Sync
BY FleetAssumption DEF P!LongPollAssumption, P!Started, P!Sync, P!Config

LEMMA PollInit == P!Init => PollInv
<1> SUFFICES ASSUME P!Init PROVE PollInv
  OBVIOUS
<1> USE FleetAssumption DEF P!LongPollAssumption, P!Init
<1>1. P!TypeOK
  <2>1. poll \in [Request -> P!Poll]
    BY NoPollIsOne
  <2>2. config \in P!Config /\ cfg \in P!Config /\ applied \in P!Config /\ trouble \in 0 .. MaxTrouble
    BY DEF P!Config
  <2> QED BY <2>1, <2>2, NewWaiterIsOne, StartedIsOne DEF P!TypeOK
<1>2. WaitsForOne /\ WorkIsWatched
  BY DEF P!NewWaiter, P!Started
<1>3. P!NoSleepOnOldNews
  BY DEF P!NoSleepOnOldNews, P!NoPoll
<1>4. P!NewsIsNotDropped
  BY DEF P!NewsIsNotDropped
<1> QED BY <1>1, <1>2, <1>3, <1>4

LEMMA PollIdle == PollInv /\ UNCHANGED pollVars => PollInv'
BY DEF pollVars, P!TypeOK, P!NoSleepOnOldNews, P!NewsIsNotDropped

\* What happens at the console.
LEMMA ConsoleKeepsPollInv ==
  ASSUME PollInv,
         P!Change \/ P!Wake \/ P!RestartConsole
  PROVE  PollInv'
<1> USE FleetAssumption DEF P!LongPollAssumption, P!agentVars
<1>1. CASE P!Change
  <2>1. P!TypeOK'
    BY <1>1 DEF P!Change, P!TypeOK, P!Config
  <2>2. (WaitsForOne /\ WorkIsWatched)' /\ P!NoSleepOnOldNews'
    BY <1>1 DEF P!Change, P!NoSleepOnOldNews
  <2>3. P!NewsIsNotDropped'
    BY <1>1 DEF P!Change, P!NewsIsNotDropped
  <2> QED BY <2>1, <2>2, <2>3
<1>2. CASE P!Wake
  <2>1. ASSUME NEW p \in Request PROVE poll'[p] \in P!Poll
    BY <1>2 DEF P!Wake, P!TypeOK, P!Poll
  <2>2. P!TypeOK'
    BY <1>2, <2>1 DEF P!Wake, P!TypeOK
  <2>3. (WaitsForOne /\ WorkIsWatched)'
    BY <1>2 DEF P!Wake
  <2>4. P!NoSleepOnOldNews'
    BY <1>2 DEF P!Wake, P!NoSleepOnOldNews, P!TypeOK, P!Poll
  <2>5. P!NewsIsNotDropped'
    BY <1>2 DEF P!Wake, P!NewsIsNotDropped
  <2> QED BY <2>2, <2>3, <2>4, <2>5
<1>3. CASE P!RestartConsole
  <2>1. P!TypeOK'
    <3>1. poll' \in [Request -> P!Poll]
      BY <1>3, NoPollIsOne DEF P!RestartConsole
    <3>2. trouble' \in 0 .. MaxTrouble
      BY <1>3 DEF P!RestartConsole, P!Trouble, P!TypeOK
    <3> QED BY <1>3, <3>1, <3>2, NewWaiterIsOne DEF P!RestartConsole, P!TypeOK
  <2>2. (WaitsForOne /\ WorkIsWatched)'
    BY <1>3 DEF P!RestartConsole, P!NewWaiter
  <2>3. P!NoSleepOnOldNews'
    BY <1>3 DEF P!RestartConsole, P!NoSleepOnOldNews, P!NoPoll
  <2>4. P!NewsIsNotDropped'
    BY <1>3 DEF P!RestartConsole, P!NewsIsNotDropped, P!NewWaiter
  <2> QED BY <2>1, <2>2, <2>3, <2>4
<1> QED BY <1>1, <1>2, <1>3

\* What a handler answers: only the waiter that waits for it listens.
LEMMA AnswerIsOne ==
  ASSUME PollInv, NEW p \in Request, NEW changed, P!Answer(p, changed)
  PROVE  /\ waiter' \in P!Waiter
         /\ WaitsForOne'
         /\ waiter.pc \in {"answered", "got"} => waiter' = waiter
<1> USE FleetAssumption DEF P!LongPollAssumption
<1>1. CASE waiter.request # p
  BY <1>1 DEF P!Answer, P!TypeOK
<1>2. CASE waiter.request = p /\ changed
  BY <1>2 DEF P!Answer, P!TypeOK, P!Waiter
<1>3. CASE waiter.request = p /\ ~changed
  BY <1>3, NewWaiterIsOne DEF P!Answer, P!NewWaiter
<1> QED BY <1>1, <1>2, <1>3

\* What a handler does.
LEMMA HandlerKeepsPollInv ==
  ASSUME PollInv, NEW p \in Request,
         P!Handler(p) \/ P!TimeIsUp(p) \/ P!Recheck(p)
  PROVE  PollInv'
<1> USE FleetAssumption DEF P!LongPollAssumption, P!agentVars
<1>1. CASE P!Register(p) \/ P!Hear(p) \/ P!TimeIsUp(p) \/ P!Recheck(p)
  <2>1. poll' \in [Request -> P!Poll]
    <3> DEFINE moved(pc, heard, ended) ==
          [poll[p] EXCEPT !.pc = pc, !.heard = heard, !.ended = ended]
    <3>1. \A pc \in {"register", "read", "select"}, heard, ended \in BOOLEAN :
            moved(pc, heard, ended) \in P!Poll
      BY DEF P!TypeOK, P!Poll
    <3>2. poll[p] \in P!Poll /\ poll[p].heard \in BOOLEAN /\ poll[p].ended \in BOOLEAN
      BY DEF P!TypeOK, P!Poll
    <3>3. \E pc \in {"register", "read", "select"}, heard, ended \in BOOLEAN :
            poll' = [poll EXCEPT ![p] = moved(pc, heard, ended)]
      <4>1. CASE P!Register(p)
        <5>1. poll' = [poll EXCEPT ![p] = moved("read", FALSE, poll[p].ended)]
          BY <4>1, <3>2 DEF P!Register, P!TypeOK, P!Poll
        <5> QED BY <5>1, <3>2
      <4>2. CASE P!Hear(p) \/ P!Recheck(p)
        <5>1. poll' = [poll EXCEPT ![p] = moved("register", poll[p].heard, poll[p].ended)]
          BY <4>2, <3>2 DEF P!Hear, P!Recheck, P!TypeOK, P!Poll
        <5> QED BY <5>1, <3>2
      <4>3. CASE P!TimeIsUp(p)
        <5>1. poll' = [poll EXCEPT ![p] = moved("select", poll[p].heard, TRUE)]
          BY <4>3, <3>2 DEF P!TimeIsUp, P!TypeOK, P!Poll
        <5> QED BY <5>1, <3>2
      <4> QED BY <1>1, <4>1, <4>2, <4>3
    <3> HIDE DEF moved
    <3> QED BY <3>1, <3>3 DEF P!TypeOK
  <2>2. P!TypeOK'
    BY <1>1, <2>1 DEF P!Register, P!Hear, P!TimeIsUp, P!Recheck, P!TypeOK
  <2>3. (WaitsForOne /\ WorkIsWatched)'
    BY <1>1 DEF P!Register, P!Hear, P!TimeIsUp, P!Recheck
  <2>4. P!NoSleepOnOldNews'
    BY <1>1 DEF P!Register, P!Hear, P!TimeIsUp, P!Recheck, P!NoSleepOnOldNews, P!TypeOK, P!Poll
  <2>5. P!NewsIsNotDropped'
    BY <1>1 DEF P!Register, P!Hear, P!TimeIsUp, P!Recheck, P!NewsIsNotDropped
  <2> QED BY <2>2, <2>3, <2>4, <2>5
<1>2. CASE P!Read(p)
  <2>1. poll' \in [Request -> P!Poll] /\ P!NoSleepOnOldNews'
    <3>1. CASE ~poll[p].ended /\ poll[p].have = config
      BY <1>2, <3>1 DEF P!Read, P!TypeOK, P!Poll, P!NoSleepOnOldNews
    <3>2. CASE ~(~poll[p].ended /\ poll[p].have = config)
      <4>1. poll' = [poll EXCEPT ![p] = P!NoPoll]
        BY <1>2, <3>2 DEF P!Read
      <4>2. P!NoPoll.pc # "select"
        BY DEF P!NoPoll
      <4> QED BY <1>2, <4>1, <4>2, NoPollIsOne DEF P!Read, P!TypeOK, P!NoSleepOnOldNews
    <3> QED BY <3>1, <3>2
  <2>2. /\ waiter' \in P!Waiter
        /\ WaitsForOne'
        /\ waiter.pc \in {"answered", "got"} => waiter' = waiter
    <3>1. CASE ~poll[p].ended /\ poll[p].have = config
      BY <1>2, <3>1 DEF P!Read, P!TypeOK
    <3>2. CASE ~(~poll[p].ended /\ poll[p].have = config)
      <4>1. P!Answer(p, ~poll[p].ended)
        BY <1>2, <3>2 DEF P!Read
      <4> QED BY <4>1, AnswerIsOne
    <3> QED BY <3>1, <3>2
  <2>3. P!TypeOK'
    BY <1>2, <2>1, <2>2 DEF P!Read, P!TypeOK
  <2>4. WorkIsWatched' /\ P!NewsIsNotDropped'
    BY <1>2, <2>2 DEF P!Read, P!NewsIsNotDropped
  <2> QED BY <2>1, <2>2, <2>3, <2>4
<1>3. CASE P!End(p)
  <2>1. poll' \in [Request -> P!Poll] /\ P!NoSleepOnOldNews'
    <3>1. P!NoPoll.pc # "select"
      BY DEF P!NoPoll
    <3> QED BY <1>3, <3>1, NoPollIsOne DEF P!End, P!TypeOK, P!NoSleepOnOldNews
  <2>2. /\ waiter' \in P!Waiter
        /\ WaitsForOne'
        /\ waiter.pc \in {"answered", "got"} => waiter' = waiter
    BY <1>3, AnswerIsOne DEF P!End
  <2>3. P!TypeOK'
    BY <1>3, <2>1, <2>2 DEF P!End, P!TypeOK
  <2>4. WorkIsWatched' /\ P!NewsIsNotDropped'
    BY <1>3, <2>2 DEF P!End, P!NewsIsNotDropped
  <2> QED BY <2>1, <2>2, <2>3, <2>4
<1> QED BY <1>1, <1>2, <1>3 DEF P!Handler

\* What the waiter does.
LEMMA WaiterKeepsPollInv ==
  ASSUME PollInv,
         (\E p \in Request : P!Ask(p)) \/ P!LoseConnection \/ P!Receive \/ P!Nudge
  PROVE  PollInv'
<1> USE FleetAssumption DEF P!LongPollAssumption
<1>1. ASSUME NEW p \in Request, P!Ask(p) PROVE PollInv'
  <2>1. ASSUME NEW q \in Request
        PROVE  /\ poll'[q] \in P!Poll
               /\ poll'[q].pc = "select" =>
                    poll[q].pc = "select" /\ poll'[q].have = poll[q].have /\ poll'[q].heard = poll[q].heard
    <3>1. CASE q = p
      <4>1. poll'[q] = [pc |-> "register", have |-> cfg, heard |-> FALSE, ended |-> FALSE]
        BY <1>1, <3>1 DEF P!Ask, P!NoPoll
      <4>2. cfg \in P!Config
        BY DEF P!TypeOK
      <4> QED BY <4>1, <4>2 DEF P!Poll
    <3>2. CASE q # p /\ poll[q].pc = "idle"
      <4>1. poll'[q] = P!NoPoll
        BY <1>1, <3>2 DEF P!Ask
      <4> QED BY <4>1, NoPollIsOne DEF P!NoPoll
    <3>3. CASE q # p /\ poll[q].pc # "idle"
      <4>1. poll'[q] = [poll[q] EXCEPT !.ended = TRUE]
        BY <1>1, <3>3 DEF P!Ask
      <4>2. poll[q] \in P!Poll
        BY DEF P!TypeOK
      <4> QED BY <4>1, <4>2 DEF P!Poll
    <3> QED BY <3>1, <3>2, <3>3
  <2>2. poll' \in [Request -> P!Poll]
    BY <1>1, <2>1 DEF P!Ask
  <2>3. waiter' \in P!Waiter /\ waiter'.pc = "wait"
    <3>1. waiter' = [pc |-> "wait", request |-> p, news |-> 0]
      BY <1>1 DEF P!Ask, P!NewWaiter
    <3> QED BY <3>1, ZeroIsAConfig DEF P!Waiter
  <2>4. P!TypeOK'
    BY <1>1, <2>2, <2>3 DEF P!Ask, P!TypeOK
  <2>5. WaitsForOne' /\ WorkIsWatched'
    BY <1>1, <2>3 DEF P!Ask
  <2>6. P!NoSleepOnOldNews'
    BY <1>1, <2>1 DEF P!Ask, P!NoSleepOnOldNews
  <2>7. P!NewsIsNotDropped'
    BY <1>1, <2>3 DEF P!Ask, P!NewsIsNotDropped
  <2> QED BY <2>4, <2>5, <2>6, <2>7
<1>2. CASE P!LoseConnection
  <2>1. P!TypeOK'
    BY <1>2, NewWaiterIsOne DEF P!LoseConnection, P!Trouble, P!TypeOK
  <2>2. P!NoSleepOnOldNews'
    BY <1>2 DEF P!LoseConnection, P!NoSleepOnOldNews
  <2>3. WaitsForOne' /\ WorkIsWatched' /\ P!NewsIsNotDropped'
    BY <1>2 DEF P!LoseConnection, P!NewsIsNotDropped, P!NewWaiter
  <2> QED BY <2>1, <2>2, <2>3
<1>3. CASE P!Receive
  <2>1. waiter' \in P!Waiter /\ waiter'.pc = "got" /\ waiter'.request = 0
    BY <1>3 DEF P!Receive, P!NewWaiter, P!Waiter, P!Config
  <2>2. P!TypeOK'
    BY <1>3, <2>1 DEF P!Receive, P!TypeOK, P!Waiter
  <2>3. P!NoSleepOnOldNews'
    BY <1>3 DEF P!Receive, P!NoSleepOnOldNews
  <2>4. WaitsForOne' /\ WorkIsWatched' /\ P!NewsIsNotDropped'
    BY <1>3, <2>1 DEF P!Receive, P!NewsIsNotDropped
  <2> QED BY <2>2, <2>3, <2>4
<1>4. CASE P!Nudge
  <2>1. P!TypeOK'
    BY <1>4, NewWaiterIsOne DEF P!Nudge, P!TypeOK
  <2>2. P!NoSleepOnOldNews'
    BY <1>4 DEF P!Nudge, P!NoSleepOnOldNews
  <2>3. WaitsForOne' /\ WorkIsWatched' /\ P!NewsIsNotDropped'
    BY <1>4 DEF P!Nudge, P!NewsIsNotDropped, P!NewWaiter
  <2> QED BY <2>1, <2>2, <2>3
<1> QED BY <1>1, <1>2, <1>3, <1>4

\* What the service loop does.
LEMMA LoopKeepsPollInv ==
  ASSUME PollInv,
         P!Loop \/ P!GapPasses \/ P!StartSyncUnasked \/ P!Scheduled \/ P!RefreshFails \/ P!RestartAgent
  PROVE  PollInv'
<1> USE FleetAssumption DEF P!LongPollAssumption
<1>1. CASE P!StartSync
  <2>1. P!TypeOK'
    BY <1>1 DEF P!StartSync, P!TypeOK, P!Sync
  <2>2. P!NoSleepOnOldNews' /\ WaitsForOne'
    BY <1>1 DEF P!StartSync, P!NoSleepOnOldNews
  <2>3. WorkIsWatched' /\ P!NewsIsNotDropped'
    BY <1>1 DEF P!StartSync, P!NewsIsNotDropped, P!TypeOK, P!Sync
  <2> QED BY <2>1, <2>2, <2>3
<1>2. CASE P!StartSyncUnasked
  <2>1. P!TypeOK'
    <3>1. sync' \in P!Sync
      BY <1>2 DEF P!StartSyncUnasked, P!TypeOK, P!Sync
    <3>2. trouble' \in 0 .. MaxTrouble
      BY <1>2 DEF P!StartSyncUnasked, P!Trouble, P!TypeOK
    <3> QED BY <1>2, <3>1, <3>2 DEF P!StartSyncUnasked, P!TypeOK
  <2>2. P!NoSleepOnOldNews' /\ WaitsForOne'
    BY <1>2 DEF P!StartSyncUnasked, P!NoSleepOnOldNews
  <2>3. WorkIsWatched' /\ P!NewsIsNotDropped'
    BY <1>2 DEF P!StartSyncUnasked, P!NewsIsNotDropped, P!TypeOK, P!Sync
  <2> QED BY <2>1, <2>2, <2>3
<1>3. CASE P!Refresh
  <2>1. P!TypeOK'
    BY <1>3 DEF P!Refresh, P!TypeOK, P!Sync
  <2>2. P!NoSleepOnOldNews' /\ WaitsForOne'
    BY <1>3 DEF P!Refresh, P!NoSleepOnOldNews
  <2>3. WorkIsWatched' /\ P!NewsIsNotDropped'
    BY <1>3 DEF P!Refresh, P!NewsIsNotDropped, P!TypeOK, P!Sync
  <2> QED BY <2>1, <2>2, <2>3
<1>4. CASE P!FinishSync
  <2>1. P!TypeOK'
    BY <1>4 DEF P!FinishSync, P!TypeOK, P!Sync
  <2>2. P!NoSleepOnOldNews' /\ WaitsForOne'
    BY <1>4 DEF P!FinishSync, P!NoSleepOnOldNews
  <2>3. WorkIsWatched' /\ P!NewsIsNotDropped'
    BY <1>4 DEF P!FinishSync, P!NewsIsNotDropped, P!TypeOK, P!Sync
  <2> QED BY <2>1, <2>2, <2>3
<1>5. CASE P!DeferredNudge \/ P!GapPasses
  <2>1. P!TypeOK'
    BY <1>5 DEF P!DeferredNudge, P!GapPasses, P!TypeOK, P!Sync
  <2>2. P!NoSleepOnOldNews' /\ WaitsForOne'
    BY <1>5 DEF P!DeferredNudge, P!GapPasses, P!NoSleepOnOldNews
  <2>3. WorkIsWatched' /\ P!NewsIsNotDropped'
    BY <1>5 DEF P!DeferredNudge, P!GapPasses, P!NewsIsNotDropped, P!TypeOK, P!Sync
  <2> QED BY <2>1, <2>2, <2>3
<1>6. CASE P!RestartAgent
  <2>1. P!TypeOK'
    <3>1. trouble' \in 0 .. MaxTrouble
      BY <1>6 DEF P!RestartAgent, P!Trouble, P!TypeOK
    <3> QED BY <1>6, <3>1, NewWaiterIsOne, StartedIsOne, ZeroIsAConfig DEF P!RestartAgent, P!TypeOK
  <2>2. P!NoSleepOnOldNews'
    BY <1>6 DEF P!RestartAgent, P!NoSleepOnOldNews
  <2>3. WaitsForOne' /\ WorkIsWatched' /\ P!NewsIsNotDropped'
    BY <1>6 DEF P!RestartAgent, P!NewsIsNotDropped, P!NewWaiter, P!Started
  <2> QED BY <2>1, <2>2, <2>3
<1>7. CASE P!Scheduled
  <2>1. P!TypeOK'
    BY <1>7 DEF P!Scheduled, P!TypeOK, P!Sync
  <2>2. P!NoSleepOnOldNews' /\ WaitsForOne'
    BY <1>7 DEF P!Scheduled, P!NoSleepOnOldNews
  <2>3. WorkIsWatched' /\ P!NewsIsNotDropped'
    BY <1>7 DEF P!Scheduled, P!NewsIsNotDropped
  <2> QED BY <2>1, <2>2, <2>3
<1>8. CASE P!RefreshFails
  <2>1. P!TypeOK'
    <3>1. sync' \in P!Sync /\ cfg' \in P!Config
      BY <1>8 DEF P!RefreshFails, P!TypeOK, P!Sync
    <3>2. trouble' \in 0 .. MaxTrouble
      BY <1>8 DEF P!RefreshFails, P!Trouble, P!TypeOK
    <3> QED BY <1>8, <3>1, <3>2 DEF P!RefreshFails, P!TypeOK
  <2>2. P!NoSleepOnOldNews' /\ WaitsForOne'
    BY <1>8 DEF P!RefreshFails, P!NoSleepOnOldNews
  <2>3. WorkIsWatched' /\ P!NewsIsNotDropped'
    BY <1>8 DEF P!RefreshFails, P!NewsIsNotDropped
  <2> QED BY <2>1, <2>2, <2>3
<1> QED BY <1>1, <1>2, <1>3, <1>4, <1>5, <1>6, <1>7, <1>8 DEF P!Loop

LEMMA PollStep == PollInv /\ P!Next => PollInv'
<1> SUFFICES ASSUME PollInv, P!Next PROVE PollInv'
  OBVIOUS
<1>1. CASE P!Change \/ P!Wake \/ P!RestartConsole
  BY <1>1, ConsoleKeepsPollInv
<1>2. ASSUME NEW p \in Request, P!Handler(p) \/ P!TimeIsUp(p) \/ P!Recheck(p) PROVE PollInv'
  BY <1>2, HandlerKeepsPollInv
<1>3. CASE (\E p \in Request : P!Ask(p)) \/ P!LoseConnection \/ P!Receive \/ P!Nudge
  BY <1>3, WaiterKeepsPollInv
<1>4. CASE P!Loop \/ P!GapPasses \/ P!StartSyncUnasked \/ P!Scheduled \/ P!RefreshFails \/ P!RestartAgent
  BY <1>4, LoopKeepsPollInv
<1> HIDE DEF PollInv
<1> QED BY <1>1, <1>2, <1>3, <1>4 DEF P!Next

-----------------------------------------------------------------------------
(* Releases: the marker *)

\* The synchronisation is the record the code builds, with a status in it.
IsCycle(c) ==
  \E pc, want, run, wish, state, at :
    c = [pc |-> pc, want |-> want,
         st |-> [running |-> run, want |-> wish, state |-> state, at |-> at]]

MarkerInv ==
  /\ IsCycle(cycle)
  /\ failed \subseteq {marker}
  /\ cycle.pc \in {"report", "store"} /\ cycle.st.state = "pending" => cycle.want # marker
  /\ cycle.pc = "apply" => cycle.want # marker
  /\ ~retried

LEMMA RecordIsCycle ==
  ASSUME NEW c, NEW pc, NEW want, NEW run, NEW wish, NEW state, NEW at,
         c = [pc |-> pc, want |-> want,
              st |-> [running |-> run, want |-> wish, state |-> state, at |-> at]]
  PROVE  IsCycle(c)
BY DEF IsCycle

LEMMA NoCycleIsCycle == IsCycle(R!NoCycle)
BY RecordIsCycle DEF R!NoCycle, R!NoStatus

LEMMA MarkerInit == R!Init => MarkerInv
<1> SUFFICES ASSUME R!Init PROVE MarkerInv
  OBVIOUS
<1>1. cycle = R!NoCycle /\ failed = {} /\ ~retried
  BY DEF R!Init
<1>2. R!NoCycle.pc = "idle"
  BY DEF R!NoCycle
<1> QED BY <1>1, <1>2, NoCycleIsCycle DEF MarkerInv

LEMMA MarkerIdle ==
  MarkerInv /\ UNCHANGED <<marker, cycle, failed, retried>> => MarkerInv'
<1> SUFFICES ASSUME MarkerInv, UNCHANGED <<marker, cycle, failed, retried>> PROVE MarkerInv'
  OBVIOUS
<1>1. IsCycle(cycle')
  BY DEF MarkerInv
<1> QED BY <1>1 DEF MarkerInv

\* A cycle that is over says nothing of the marker.
LEMMA NoCycleKeepsMarkerInv ==
  ASSUME MarkerInv, cycle' = R!NoCycle, failed' \subseteq {marker'}, retried' = retried
  PROVE  MarkerInv'
<1>1. R!NoCycle.pc = "idle"
  BY DEF R!NoCycle
<1> QED BY <1>1, NoCycleIsCycle DEF MarkerInv

\* A report is written with the cycle's wish as it is.
LEMMA ReportKeepsMarkerInv ==
  ASSUME MarkerInv, NEW now, NEW state, R!Report(now, state),
         failed' \subseteq {marker'}, retried' = retried,
         state = "pending" => cycle.want # marker'
  PROVE  MarkerInv'
<1>1. PICK pc, want, run, wish, old, at :
        cycle = [pc |-> pc, want |-> want,
                 st |-> [running |-> run, want |-> wish, state |-> old, at |-> at]]
  BY DEF MarkerInv, IsCycle
<1>2. cycle' = [pc |-> "report", want |-> want,
                st |-> [running |-> now, want |-> want, state |-> state, at |-> Len(targets)]]
  BY <1>1 DEF R!Report
<1>3. IsCycle(cycle')
  BY <1>2, RecordIsCycle
<1> QED BY <1>1, <1>2, <1>3 DEF MarkerInv

\* An attempt begins with the marker, or it cannot be written.
LEMMA AttemptKeepsMarkerInv ==
  ASSUME MarkerInv, R!Attempt, cycle.want # marker,
         cycle' = [cycle EXCEPT !.pc = "install"]
  PROVE  MarkerInv'
<1>1. PICK pc, want, run, wish, old, at :
        cycle = [pc |-> pc, want |-> want,
                 st |-> [running |-> run, want |-> wish, state |-> old, at |-> at]]
  BY DEF MarkerInv, IsCycle
<1>2. cycle' = [pc |-> "install", want |-> want,
                st |-> [running |-> run, want |-> wish, state |-> old, at |-> at]]
  BY <1>1
<1>3. IsCycle(cycle')
  BY ZenonT(60), <1>2, RecordIsCycle
<1>4. ~retried' /\ failed' = {}
  BY DEF R!Attempt, MarkerInv
<1> QED BY <1>1, <1>2, <1>3, <1>4 DEF MarkerInv

\* Administrators and the console leave the machine alone.
LEMMA ConsoleLeavesTheMachine ==
  R!Administrator \/ R!Publishing \/ R!Release \/ R!RestartConsole
    => UNCHANGED <<marker, cycle, failed, retried>>
<1>1. R!Administrator => UNCHANGED <<marker, cycle, failed, retried>>
  BY DEF R!Administrator, R!SetArtifactStatus, R!SetGlobalTarget, R!CreateRollout,
         R!ClearGlobalTarget, R!FollowGlobal, R!RetryTarget, R!Withdraw, R!SetRolloutPaused,
         R!NothingOnTheMachine, R!agent, R!history
<1>2. R!Publishing \/ R!Release \/ R!RestartConsole
        => UNCHANGED <<marker, cycle, failed, retried>>
  BY DEF R!Publishing, R!LookForPin, R!CreateGlobalRollout, R!Release, R!RestartConsole,
         R!NothingOnTheMachine, R!agent, R!history
<1> QED BY <1>1, <1>2

LEMMA CycleKeepsMarkerInv ==
  ASSUME MarkerInv, R!Cycle
  PROVE  MarkerInv'
<1>1. PICK pc, want, run, wish, state, at :
        cycle = [pc |-> pc, want |-> want,
                 st |-> [running |-> run, want |-> wish, state |-> state, at |-> at]]
  BY DEF MarkerInv, IsCycle
<1>2. CASE R!BeginCycle
  <2>1. cycle' = [R!NoCycle EXCEPT !.pc = "work", !.want = R!Wanted]
    BY <1>2 DEF R!BeginCycle
  <2> DEFINE wanted == R!Wanted
  <2>2. cycle' = [pc |-> "work", want |-> wanted, st |-> R!NoStatus]
    BY <2>1 DEF R!NoCycle
  <2> HIDE DEF wanted
  <2>3. IsCycle(cycle')
    BY <2>2, RecordIsCycle DEF R!NoStatus
  <2>4. UNCHANGED <<marker, failed, retried>>
    BY <1>2 DEF R!BeginCycle, R!history
  <2> QED BY <2>2, <2>3, <2>4 DEF MarkerInv
<1>3. CASE R!Work
  <2> DEFINE now == IF R!Eligible THEN "failed" ELSE ""
  <2>1. R!Report(running, now) /\ now # "pending"
    BY <1>3 DEF R!Work
  <2>2. UNCHANGED <<marker, failed, retried>>
    BY <1>3 DEF R!Work, R!history
  <2> HIDE DEF now
  <2>3. failed' \subseteq {marker'} /\ retried' = retried
    BY <2>2 DEF MarkerInv
  <2> QED BY <2>1, <2>3, ReportKeepsMarkerInv
<1>4. CASE R!FetchCodex
  BY <1>4, AttemptKeepsMarkerInv DEF R!FetchCodex
<1>5. CASE R!FetchAgent
  <2>1. UNCHANGED <<marker, failed, retried>> /\ cycle.want # marker /\ R!Report(running, "pending")
    BY <1>5 DEF R!FetchAgent, R!history
  <2>2. failed' \subseteq {marker'} /\ retried' = retried
    BY <2>1 DEF MarkerInv
  <2> QED BY <2>1, <2>2, ReportKeepsMarkerInv
<1>6. CASE R!InstallCodex
  <2>1. PICK now : R!Report(now, "") \/ R!Report(now, "failed")
    BY <1>6 DEF R!InstallCodex
  <2>2. UNCHANGED <<marker, retried>> /\ (UNCHANGED failed \/ R!Failed(marker))
    BY <1>6 DEF R!InstallCodex
  <2>3. failed' \subseteq {marker'} /\ retried' = retried
    BY <2>2 DEF R!Failed, MarkerInv
  <2>4. "" # "pending" /\ "failed" # "pending"
    OBVIOUS
  <2> QED BY <2>1, <2>3, <2>4, ReportKeepsMarkerInv
<1>7. CASE R!ReportStatus
  <2>1. cycle' = [pc |-> "store", want |-> want,
                  st |-> [running |-> run, want |-> wish, state |-> state, at |-> 0]]
    BY <1>1, <1>7 DEF R!ReportStatus
  <2>2. cycle.pc = "report" /\ UNCHANGED <<marker, failed, retried>>
    BY <1>7 DEF R!ReportStatus, R!history
  <2>3. IsCycle(cycle')
    BY <2>1, RecordIsCycle
  <2> QED BY <1>1, <2>1, <2>2, <2>3 DEF MarkerInv
<1>8. CASE R!StoreStatus
  <2>1. UNCHANGED <<marker, failed, retried>>
    BY <1>8 DEF R!StoreStatus, R!history
  <2>2. CASE cycle.st.state = "pending"
    <3>1. cycle' = [pc |-> "apply", want |-> want,
                    st |-> [running |-> run, want |-> wish, state |-> state, at |-> at]]
      BY <1>1, <1>8, <2>2 DEF R!StoreStatus
    <3>2. IsCycle(cycle')
      BY <3>1, RecordIsCycle
    <3>3. cycle.want # marker
      BY <1>8, <2>2 DEF R!StoreStatus, MarkerInv
    <3> QED BY <1>1, <2>1, <3>1, <3>2, <3>3 DEF MarkerInv
  <2>3. CASE cycle.st.state # "pending"
    <3>1. cycle' = R!NoCycle
      BY <1>8, <2>3 DEF R!StoreStatus
    <3>2. failed' \subseteq {marker'} /\ retried' = retried
      BY <2>1 DEF MarkerInv
    <3> QED BY <3>1, <3>2, NoCycleKeepsMarkerInv
  <2> QED BY <2>2, <2>3
<1>9. CASE R!MarkAgent
  <2>1. cycle.want # marker
    BY <1>9 DEF R!MarkAgent, MarkerInv
  <2> QED BY <1>9, <2>1, AttemptKeepsMarkerInv DEF R!MarkAgent
<1>10. CASE R!ApplyAgent
  <2>1. UNCHANGED <<marker, retried>> /\ cycle' = R!NoCycle
    BY <1>10 DEF R!ApplyAgent
  <2>2. failed' = failed \/ R!Failed(marker)
    BY <1>10 DEF R!ApplyAgent
  <2>3. failed' \subseteq {marker'}
    BY <2>1, <2>2 DEF MarkerInv, R!Failed
  <2> QED BY <2>1, <2>3, NoCycleKeepsMarkerInv
<1> QED BY <1>2, <1>3, <1>4, <1>5, <1>6, <1>7, <1>8, <1>9, <1>10 DEF R!Cycle

LEMMA MarkerStep == MarkerInv /\ R!Next => MarkerInv'
<1> SUFFICES ASSUME MarkerInv, R!Next PROVE MarkerInv'
  OBVIOUS
<1>1. CASE R!Administrator \/ R!Publishing \/ R!Release \/ R!RestartConsole
  BY <1>1, ConsoleLeavesTheMachine, MarkerIdle
<1>2. CASE R!Cycle
  BY <1>2, CycleKeepsMarkerInv
<1>3. CASE R!Hindered
  <2>1. PICK now : \E outcome \in {"", "failed", "deferred"} : R!Report(now, outcome)
    BY <1>3 DEF R!Hindered, R!CannotRead, R!CannotFetch, R!WrongChecksum
  <2>2. retried' = retried /\ (UNCHANGED <<marker, failed>> \/ R!Failed(marker'))
    BY <1>3 DEF R!Hindered, R!CannotRead, R!CannotFetch, R!WrongChecksum, R!history
  <2>3. failed' \subseteq {marker'}
    BY <2>2 DEF R!Failed, MarkerInv
  <2>4. PICK outcome \in {"", "failed", "deferred"} : R!Report(now, outcome)
    BY <2>1
  <2>5. outcome # "pending"
    OBVIOUS
  <2> QED BY <2>2, <2>3, <2>4, <2>5, ReportKeepsMarkerInv
<1>4. CASE R!Beat
  <2>1. UNCHANGED <<marker, cycle, failed, retried>>
    BY <1>4 DEF R!Beat, R!SendBeat, R!StoreBeat, R!history
  <2> QED BY <2>1, MarkerIdle
<1>5. CASE R!Crash
  <2>1. cycle' = R!NoCycle /\ UNCHANGED <<marker, retried>>
    BY <1>5 DEF R!Crash
  <2>2. failed' = failed \/ R!Failed(marker)
    BY <1>5 DEF R!Crash
  <2>3. failed' \subseteq {marker'}
    BY <2>1, <2>2 DEF MarkerInv, R!Failed
  <2> QED BY <2>1, <2>3, NoCycleKeepsMarkerInv
<1> QED BY <1>1, <1>2, <1>3, <1>4, <1>5 DEF R!Next

-----------------------------------------------------------------------------
(* Releases: the rows *)

RowsInv ==
  /\ targets \in Seq(R!Target) /\ Len(targets) <= MaxTarget
  /\ \A p \in publishing : p.version \in Version
  /\ R!OneOpenRow

\* What a step makes of the rows that are there: only an open one changes its
\* status, and none is opened again.
RowsOnlyClose ==
  /\ DOMAIN targets' = DOMAIN targets
  /\ targets' \in Seq(R!Target)
  /\ \A t \in DOMAIN targets :
       /\ targets[t].status # "pending" => targets'[t].status = targets[t].status
       /\ targets'[t].status = "pending" => targets[t].status = "pending"

OutcomesStandNow ==
  \A t \in DOMAIN targets :
    /\ t \in DOMAIN targets'
    /\ targets[t].status # "pending" => targets'[t].status = targets[t].status

LEMMA RowsInit == R!Init => RowsInv
BY FleetAssumption DEF R!ReleasesAssumption, R!Init, RowsInv, R!OneOpenRow, R!Open, R!Rows

LEMMA ClosingKeepsRowsInv ==
  ASSUME RowsInv, RowsOnlyClose, \A p \in publishing' : p.version \in Version
  PROVE  RowsInv' /\ OutcomesStandNow
<1>1. Len(targets') = Len(targets)
  BY DEF RowsInv, RowsOnlyClose
<1>2. R!OneOpenRow'
  BY DEF RowsInv, RowsOnlyClose, R!OneOpenRow, R!Open, R!Rows
<1>3. OutcomesStandNow
  BY DEF RowsOnlyClose, OutcomesStandNow
<1> QED BY <1>1, <1>2, <1>3 DEF RowsInv, RowsOnlyClose

LEMMA SameRowsOnlyClose == RowsInv /\ targets' = targets => RowsOnlyClose
BY DEF RowsInv, RowsOnlyClose

\* A row changed in place remains a row if it is only closed or released.
LEMMA RowWiseChangeOnlyCloses ==
  ASSUME RowsInv, NEW f,
         targets' = [t \in DOMAIN targets |-> f[t]],
         \A t \in DOMAIN targets :
           /\ f[t] \in R!Target
           /\ targets[t].status # "pending" => f[t].status = targets[t].status
           /\ f[t].status = "pending" => targets[t].status = "pending"
  PROVE  RowsOnlyClose
<1>1. DOMAIN targets' = DOMAIN targets /\ \A t \in DOMAIN targets : targets'[t] = f[t]
  OBVIOUS
<1>2. DOMAIN targets = 1 .. Len(targets) /\ Len(targets) \in Nat
  BY DEF RowsInv
<1>3. targets' \in [1 .. Len(targets) -> R!Target]
  BY <1>1, <1>2
<1>4. targets' \in Seq(R!Target)
  BY <1>2, <1>3
<1> QED BY <1>1, <1>4 DEF RowsOnlyClose

\* The rows are records: one field is changed at a time.
LEMMA RowsAreRecords ==
  ASSUME NEW row \in R!Target,
         NEW status \in {"pending", "succeeded", "failed", "cancelled", "excluded", "superseded"}
  PROVE  /\ [row EXCEPT !.status = status] \in R!Target
         /\ [row EXCEPT !.status = status].status = status
BY DEF R!Target

LEMMA ReleasedRowsAreRecords ==
  ASSUME NEW row \in R!Target, NEW released \in BOOLEAN
  PROVE  /\ [row EXCEPT !.released = released] \in R!Target
         /\ [row EXCEPT !.released = released].status = row.status
BY DEF R!Target

LEMMA FinishOnlyCloses ==
  ASSUME RowsInv, NEW rows, NEW status \in {"cancelled", "excluded"}, R!Finish(rows, status)
  PROVE  RowsOnlyClose
<1> DEFINE f == [t \in DOMAIN targets |->
                   IF t \in rows \cap R!Open THEN [targets[t] EXCEPT !.status = status] ELSE targets[t]]
<1>1. targets' = [t \in DOMAIN targets |-> f[t]]
  BY DEF R!Finish
<1>2. ASSUME NEW t \in DOMAIN targets
      PROVE  /\ f[t] \in R!Target
             /\ targets[t].status # "pending" => f[t].status = targets[t].status
             /\ f[t].status = "pending" => targets[t].status = "pending"
  <2>1. targets[t] \in R!Target
    BY DEF RowsInv
  <2> QED BY <2>1, RowsAreRecords DEF R!Open, R!Rows
<1> HIDE DEF f
<1> QED BY <1>1, <1>2, RowWiseChangeOnlyCloses

LEMMA SettleOnlyCloses ==
  ASSUME RowsInv, NEW st, R!Settle(st)
  PROVE  RowsOnlyClose /\ publishing' = publishing
<1> DEFINE rows == {t \in R!Open : t <= st.at}
           done == {t \in rows : st.running = targets[t].version}
           f == [t \in DOMAIN targets |->
                   IF t \in done THEN [targets[t] EXCEPT !.status = "succeeded"]
                   ELSE IF t \in rows /\ R!Fails(st, t) THEN [targets[t] EXCEPT !.status = "failed"]
                   ELSE targets[t]]
<1>1. targets' = [t \in DOMAIN targets |-> f[t]]
  BY DEF R!Settle
<1>2. ASSUME NEW t \in DOMAIN targets
      PROVE  /\ f[t] \in R!Target
             /\ targets[t].status # "pending" => f[t].status = targets[t].status
             /\ f[t].status = "pending" => targets[t].status = "pending"
  <2>1. targets[t] \in R!Target
    BY DEF RowsInv
  <2>2. t \in rows => targets[t].status = "pending"
    BY DEF R!Open, R!Rows
  <2> QED BY <2>1, <2>2, RowsAreRecords
<1>3. publishing' = publishing
  BY DEF R!Settle
<1> HIDE DEF f
<1> QED BY <1>1, <1>2, <1>3, RowWiseChangeOnlyCloses

\* FollowGlobal and ReleaseSucceeded.
LEMMA ReleasingOnlyCloses ==
  ASSUME RowsInv, R!FollowGlobal \/ R!Release
  PROVE  RowsOnlyClose /\ publishing' = publishing
<1> DEFINE let(t) == [targets[t] EXCEPT !.released = @ \/ targets[t].status = "succeeded"]
           f == [t \in DOMAIN targets |->
                   IF t \in R!Open THEN [targets[t] EXCEPT !.status = "cancelled"] ELSE let(t)]
           g == [t \in DOMAIN targets |-> let(t)]
<1>1. targets' = [t \in DOMAIN targets |-> f[t]] \/ targets' = [t \in DOMAIN targets |-> g[t]]
  BY DEF R!FollowGlobal, R!Release
<1>2. ASSUME NEW t \in DOMAIN targets
      PROVE  /\ let(t) \in R!Target
             /\ let(t).status = targets[t].status
             /\ f[t] \in R!Target /\ g[t] \in R!Target
             /\ targets[t].status # "pending" =>
                  f[t].status = targets[t].status /\ g[t].status = targets[t].status
             /\ f[t].status = "pending" \/ g[t].status = "pending" => targets[t].status = "pending"
  <2> DEFINE released == targets[t].released \/ targets[t].status = "succeeded"
  <2>1. targets[t] \in R!Target
    BY DEF RowsInv
  <2>2. let(t) = [targets[t] EXCEPT !.released = released]
    OBVIOUS
  <2>3. let(t) \in R!Target /\ let(t).status = targets[t].status
    <3>1. released \in BOOLEAN
      OBVIOUS
    <3> HIDE DEF released, let
    <3> QED BY <2>1, <2>2, <3>1, ReleasedRowsAreRecords
  <2>4. t \in R!Open => targets[t].status = "pending"
    BY DEF R!Open, R!Rows
  <2> HIDE DEF let
  <2> QED BY <2>1, <2>3, <2>4, RowsAreRecords
<1>3. publishing' = publishing
  BY DEF R!FollowGlobal, R!Release
<1> HIDE DEF f, g, let
<1>4. ASSUME targets' = [t \in DOMAIN targets |-> f[t]] PROVE RowsOnlyClose
  BY <1>2, <1>4, RowWiseChangeOnlyCloses
<1>5. ASSUME targets' = [t \in DOMAIN targets |-> g[t]] PROVE RowsOnlyClose
  BY <1>2, <1>5, RowWiseChangeOnlyCloses
<1> QED BY <1>1, <1>3, <1>4, <1>5

\* CreateTarget: the one open row is the new one.
LEMMA AppendKeepsRowsInv ==
  ASSUME RowsInv, NEW version \in Version, NEW global \in BOOLEAN,
         NEW rollout \in 1 .. MaxTarget, R!Append1(version, global, rollout),
         \A p \in publishing' : p.version \in Version
  PROVE  RowsInv' /\ OutcomesStandNow
<1> DEFINE old == [t \in DOMAIN targets |->
                     IF t \in R!Open THEN [targets[t] EXCEPT !.status = "superseded"] ELSE targets[t]]
           new == [version |-> version, global |-> global, rollout |-> rollout,
                   released |-> FALSE, status |-> "pending"]
<1>1. targets' = Append(old, new) /\ Len(targets) < MaxTarget
  BY DEF R!Append1
<1>2. ASSUME NEW t \in DOMAIN targets
      PROVE  /\ old[t] \in R!Target
             /\ targets[t].status # "pending" => old[t].status = targets[t].status
             /\ old[t].status # "pending"
  <2>1. targets[t] \in R!Target
    BY DEF RowsInv
  <2>2. CASE t \in R!Open
    <3>1. targets[t].status = "pending"
      BY <2>2 DEF R!Open, R!Rows
    <3> QED BY <2>1, <2>2, <3>1, RowsAreRecords
  <2>3. CASE t \notin R!Open
    <3>1. targets[t].status # "pending"
      BY <2>3 DEF R!Open, R!Rows
    <3> QED BY <2>1, <2>3, <3>1
  <2> QED BY <2>2, <2>3
<1>3. DOMAIN targets = 1 .. Len(targets) /\ Len(targets) \in Nat /\ MaxTarget \in Nat
  BY FleetAssumption DEF RowsInv, R!ReleasesAssumption
<1>4. old \in Seq(R!Target) /\ Len(old) = Len(targets) /\ DOMAIN old = DOMAIN targets
  <2>1. old \in [1 .. Len(targets) -> R!Target]
    BY <1>2, <1>3
  <2> QED BY <1>3, <2>1
<1>5. new \in R!Target /\ new.status = "pending"
  BY DEF R!Target
<1> HIDE DEF old, new
<1>6. targets' \in Seq(R!Target) /\ Len(targets') = Len(targets) + 1
  BY <1>1, <1>4, <1>5
<1>7. DOMAIN targets' = 1 .. Len(targets) + 1
  BY <1>3, <1>6
<1>8. \A t \in DOMAIN targets : targets'[t] = old[t]
  BY <1>1, <1>3, <1>4, <1>5
<1>9. R!OneOpenRow'
  BY <1>2, <1>3, <1>7, <1>8 DEF R!OneOpenRow, R!Open, R!Rows
<1>10. OutcomesStandNow
  BY <1>2, <1>3, <1>7, <1>8 DEF OutcomesStandNow
<1> QED BY <1>1, <1>3, <1>6, <1>9, <1>10 DEF RowsInv

LEMMA RowsStep == RowsInv /\ R!Next => RowsInv' /\ OutcomesStandNow
<1> SUFFICES ASSUME RowsInv, R!Next PROVE RowsInv' /\ OutcomesStandNow
  OBVIOUS
<1>0. MaxTarget \in Nat /\ \A p \in publishing : p.version \in Version
  BY FleetAssumption DEF R!ReleasesAssumption, RowsInv
<1>1. ASSUME NEW v \in Version, R!CreateRollout(v) PROVE RowsInv' /\ OutcomesStandNow
  <2>1. R!Append1(v, FALSE, Len(targets) + 1) /\ publishing' = publishing
    BY <1>1 DEF R!CreateRollout
  <2>2. Len(targets) + 1 \in 1 .. MaxTarget
    BY <1>0, <2>1 DEF R!Append1, RowsInv
  <2> QED BY <1>0, <2>1, <2>2, AppendKeepsRowsInv
<1>2. ASSUME NEW t \in DOMAIN targets, R!RetryTarget(t) PROVE RowsInv' /\ OutcomesStandNow
  <2>1. R!Append1(targets[t].version, targets[t].global, targets[t].rollout) /\ publishing' = publishing
    BY <1>2 DEF R!RetryTarget
  <2>2. targets[t] \in R!Target
    BY DEF RowsInv
  <2>3. targets[t].version \in Version /\ targets[t].global \in BOOLEAN /\ targets[t].rollout \in 1 .. MaxTarget
    BY <2>2 DEF R!Target
  <2> QED BY <1>0, <2>1, <2>3, AppendKeepsRowsInv
<1>3. CASE R!Publishing
  <2>1. PICK p \in publishing : R!LookForPin(p) \/ R!CreateGlobalRollout(p)
    BY <1>3 DEF R!Publishing
  <2>2. CASE R!LookForPin(p)
    <3> DEFINE next == [number |-> p.number, version |-> p.version, next |-> "create"]
    <3>1. targets' = targets /\ \A q \in publishing' : q \in publishing \/ q = next
      BY <2>2 DEF R!LookForPin
    <3>2. next.version \in Version
      BY DEF RowsInv
    <3> HIDE DEF next
    <3>3. \A q \in publishing' : q.version \in Version
      BY <3>1, <3>2 DEF RowsInv
    <3> QED BY <3>1, <3>3, SameRowsOnlyClose, ClosingKeepsRowsInv
  <2>3. CASE R!CreateGlobalRollout(p)
    <3>1. R!Append1(p.version, TRUE, Len(targets) + 1) /\ publishing' \subseteq publishing
      BY <2>3 DEF R!CreateGlobalRollout
    <3>2. Len(targets) + 1 \in 1 .. MaxTarget
      BY <1>0, <3>1 DEF R!Append1, RowsInv
    <3>3. p.version \in Version /\ \A q \in publishing' : q.version \in Version
      BY <3>1 DEF RowsInv
    <3> QED BY <3>1, <3>2, <3>3, AppendKeepsRowsInv
  <2> QED BY <2>1, <2>2, <2>3
<1>4. ASSUME NEW t \in DOMAIN targets, NEW status \in {"cancelled", "excluded"}, R!Withdraw(t, status)
      PROVE  RowsInv' /\ OutcomesStandNow
  <2>1. R!Finish({t}, status) /\ publishing' = publishing
    BY <1>4 DEF R!Withdraw
  <2> QED BY <1>0, <2>1, FinishOnlyCloses, ClosingKeepsRowsInv
<1>5. CASE R!FollowGlobal \/ R!Release
  <2>1. publishing' = publishing
    BY <1>5 DEF R!FollowGlobal, R!Release
  <2> QED BY <1>0, <1>5, <2>1, ReleasingOnlyCloses, ClosingKeepsRowsInv
<1>6. ASSUME NEW v \in Version, R!SetGlobalTarget(v) PROVE RowsInv' /\ OutcomesStandNow
  <2> DEFINE next == [number |-> decisions', version |-> v, next |-> "look"]
  <2>1. targets' = targets /\ publishing' = publishing \cup {next}
    BY <1>6 DEF R!SetGlobalTarget
  <2>2. next.version \in Version
    OBVIOUS
  <2> HIDE DEF next
  <2>3. \A p \in publishing' : p.version \in Version
    BY <1>0, <2>1, <2>2
  <2> QED BY <2>1, <2>3, SameRowsOnlyClose, ClosingKeepsRowsInv
<1>7. CASE \/ \E v \in Version, s \in {"candidate", "stable", "retired"} : R!SetArtifactStatus(v, s)
           \/ R!ClearGlobalTarget
           \/ \E t \in DOMAIN targets : R!SetRolloutPaused(t)
           \/ R!RestartConsole
  <2>1. targets' = targets /\ publishing' \in {publishing, {}}
    BY <1>7 DEF R!SetArtifactStatus, R!ClearGlobalTarget, R!SetRolloutPaused, R!RestartConsole
  <2>2. \A p \in publishing' : p.version \in Version
    BY <1>0, <2>1
  <2> QED BY <2>1, <2>2, SameRowsOnlyClose, ClosingKeepsRowsInv
<1>8. ASSUME NEW st, R!Settle(st) PROVE RowsInv' /\ OutcomesStandNow
  <2>1. publishing' = publishing
    BY <1>8 DEF R!Settle
  <2> QED BY <1>0, <1>8, <2>1, SettleOnlyCloses, ClosingKeepsRowsInv
<1>9. CASE UNCHANGED <<targets, publishing>>
  BY <1>0, <1>9, SameRowsOnlyClose, ClosingKeepsRowsInv
<1>10. CASE R!Administrator
  BY <1>1, <1>2, <1>4, <1>5, <1>6, <1>7, <1>10 DEF R!Administrator
<1>11. CASE R!Cycle
  <2>1. CASE R!ReportStatus
    BY <1>8, <1>9, <2>1 DEF R!ReportStatus, R!server
  <2>2. CASE ~R!ReportStatus
    <3>1. UNCHANGED <<targets, publishing>>
      BY <1>11, <2>2 DEF R!Cycle, R!BeginCycle, R!Work, R!FetchCodex, R!FetchAgent, R!InstallCodex,
         R!StoreStatus, R!MarkAgent, R!ApplyAgent, R!NothingAtTheConsole, R!server
    <3> QED BY <1>9, <3>1
  <2> QED BY <2>1, <2>2
<1>12. CASE R!Hindered \/ R!Crash
  <2>1. UNCHANGED <<targets, publishing>>
    BY <1>12 DEF R!Hindered, R!CannotRead, R!WrongChecksum, R!CannotFetch, R!Crash, R!NothingAtTheConsole, R!server
  <2> QED BY <1>9, <2>1
<1>13. CASE R!Beat
  <2>1. CASE R!SendBeat
    BY <1>8, <1>9, <2>1 DEF R!SendBeat, R!server
  <2>2. CASE R!StoreBeat
    <3>1. UNCHANGED <<targets, publishing>>
      BY <2>2 DEF R!StoreBeat, R!NothingAtTheConsole, R!server
    <3> QED BY <1>9, <3>1
  <2> QED BY <1>13, <2>1, <2>2 DEF R!Beat
<1> QED BY <1>3, <1>5, <1>7, <1>10, <1>11, <1>12, <1>13 DEF R!Next

-----------------------------------------------------------------------------
(* The theorems *)

FleetInv == PollInv /\ MarkerInv /\ RowsInv

LEMMA FleetInit == Init => FleetInv
BY PollInit, MarkerInit, RowsInit DEF Init, FleetInv

\* The stories do not touch each other.
LEMMA RowsIdle == RowsInv /\ UNCHANGED releaseVars => RowsInv' /\ OutcomesStandNow
<1> SUFFICES ASSUME RowsInv, UNCHANGED releaseVars PROVE RowsInv' /\ OutcomesStandNow
  OBVIOUS
<1>1. targets' = targets /\ \A p \in publishing' : p.version \in Version
  BY DEF releaseVars, RowsInv
<1> QED BY <1>1, SameRowsOnlyClose, ClosingKeepsRowsInv

LEMMA FleetStep == FleetInv /\ [Next]_vars => FleetInv'
<1> SUFFICES ASSUME FleetInv, [Next]_vars PROVE FleetInv'
  OBVIOUS
<1>1. UNCHANGED releaseVars => MarkerInv' /\ RowsInv'
  BY MarkerIdle, RowsIdle DEF FleetInv, releaseVars
<1>2. UNCHANGED pollVars => PollInv'
  BY PollIdle DEF FleetInv
<1>3. CASE P!Next /\ UNCHANGED releaseVars
  BY <1>1, <1>3, PollStep DEF FleetInv
<1>4. CASE R!Next /\ UNCHANGED pollVars
  BY <1>2, <1>4, MarkerStep, RowsStep DEF FleetInv
<1>5. CASE UNCHANGED <<pollVars, releaseVars>>
  BY <1>1, <1>2, <1>5 DEF FleetInv
<1> HIDE DEF PollInv
<1> QED BY <1>3, <1>4, <1>5 DEF Next, vars

LEMMA FleetInvariance == Spec => []FleetInv
BY FleetInit, FleetStep, PTL DEF Spec

\* No request for configuration sleeps in the hub on what is no longer current,
\* unless it has been woken or the wake is still owed (hub.go, wait.go).
THEOREM SleepersAreWoken == Spec => []NoSleepOnOldNews
<1>1. FleetInv => NoSleepOnOldNews
  BY DEF FleetInv, NoSleepOnOldNews
<1> QED BY <1>1, FleetInvariance, PTL

\* What the waiter brought and the machine does not follow yet is not forgotten:
\* a nudge is pending or deferred, or a synchronisation that will see it is on
\* its way, or the last one was not answered and the clock starts the next
\* (cmd/agent/main.go, startSync, finishSync and the ticker).
THEOREM NewsIsKept == Spec => []P!NewsIsNotDropped
<1>1. FleetInv => P!NewsIsNotDropped
  BY DEF FleetInv
<1> QED BY <1>1, FleetInvariance, PTL

\* An attempt that failed is not what the machine attempts next (codex.go:130,
\* sync.go:660), whatever crash or lost report lies between.
THEOREM AttemptsAreNotRepeated == Spec => []NoBlindRetry
<1>1. FleetInv => NoBlindRetry
  BY DEF FleetInv, MarkerInv, NoBlindRetry, R!NoBlindRetry
<1> QED BY <1>1, FleetInvariance, PTL

\* A machine has one open row at most (dbstore/releases.go, CreateTarget).
THEOREM OneRowIsOpen == Spec => []R!OneOpenRow
<1>1. FleetInv => R!OneOpenRow
  BY DEF FleetInv, RowsInv
<1> QED BY <1>1, FleetInvariance, PTL

\* A settled row keeps its outcome, whatever is reported or decided later
\* (dbstore/releases.go, FinishTarget and CancelPending).
THEOREM OutcomesAreFinal == Spec => R!OutcomesStand
<1>1. FleetInv /\ [Next]_vars => [OutcomesStandNow]_R!vars
  <2> SUFFICES ASSUME FleetInv, [Next]_vars, R!vars' # R!vars PROVE OutcomesStandNow
    OBVIOUS
  <2>1. ~UNCHANGED releaseVars
    BY DEF releaseVars, R!vars, R!server, R!agent, R!history
  <2>2. R!Next
    BY <2>1 DEF Next, vars
  <2> QED BY <2>2, RowsStep DEF FleetInv
<1> QED BY <1>1, FleetInvariance, PTL DEF Spec, R!OutcomesStand, OutcomesStandNow

HIDE DEF WaitsForOne, Nudged, WorkIsWatched, PollInv

-----------------------------------------------------------------------------
(* CodexConfig: the lines of a file, and what a scan says of them. *)

Tok == {"open", "close", "basic", "literal"}
RootTable == ""
State == [string : {"none", "basic", "literal"}, depth : Nat]

\* The lines a file can have: only what is blank is Blank, a comment opens and
\* closes nothing, and a table has a name.
IsTomlLine(l) ==
  /\ l.tokens \in Seq(Tok)
  /\ l.shape = "blank" <=> l = F!Blank
  /\ l.shape = "comment" => l.tokens = <<>>
  /\ l.shape = "header" => l.name # RootTable
TomlLines(S) == \A l \in S : IsTomlLine(l)

\* What classifyTomlLines has entered line i + 1 with.
StateAfter(scan, i) == IF i = 0 THEN F!Fresh ELSE scan[i].state

\* What it says of each line.
ScanLine(lines, recover, scan, i) ==
  /\ scan[i].line = lines[i]
  /\ scan[i].isHeader <=> lines[i].shape = "header" /\ (StateAfter(scan, i - 1) = F!Fresh \/ recover)
  /\ scan[i].isHeader => scan[i].table = lines[i].name
  /\ ~scan[i].isHeader /\ i = 1 => scan[i].table = RootTable
  /\ ~scan[i].isHeader /\ i # 1 => scan[i].table = scan[i - 1].table
  /\ scan[i].start = IF i = 1 \/ scan[i].isHeader \/ StateAfter(scan, i - 1) = F!Fresh THEN i ELSE scan[i - 1].start
  /\ scan[i].state = IF scan[i].isHeader THEN F!Fresh
                     ELSE F!advanceTomlScanState(StateAfter(scan, i - 1), lines[i].tokens)
  /\ scan[i].state \in State /\ scan[i].isHeader \in BOOLEAN /\ scan[i].start \in Nat
IsScan(lines, recover, scan) ==
  /\ DOMAIN scan = 1 .. Len(lines) /\ Len(scan) = Len(lines)
  /\ \A i \in 1 .. Len(lines) : ScanLine(lines, recover, scan, i)

Table(S) == {""} \cup {l.name : l \in S}
Mark(S) == [line : S, isHeader : BOOLEAN, table : Table(S), start : Nat, state : State]

LEMMA SetInduction ==
  ASSUME NEW S, 0 \in S, \A i \in Nat : i \in S => i + 1 \in S
  PROVE  \A n \in Nat : n \in S
<1> SUFFICES ASSUME NEW n \in Nat, n \notin S PROVE FALSE
  OBVIOUS
<1>1. n >= 1
  OBVIOUS
<1> DEFINE f == [i \in 0 .. n |-> IF i \in S THEN i ELSE i - 1]
<1>2. f \in [0 .. n -> 0 .. n - 1]
  <2> SUFFICES ASSUME NEW i \in 0 .. n PROVE (IF i \in S THEN i ELSE i - 1) \in 0 .. n - 1
    OBVIOUS
  <2>1. i # 0 \/ i \in S
    OBVIOUS
  <2>2. i # n \/ i \notin S
    OBVIOUS
  <2> QED BY <1>1, <2>1, <2>2
<1>3. \E x, y \in 0 .. n : x # y /\ f[x] = f[y]
  <2>1. IsFiniteSet(0 .. n) /\ Cardinality(0 .. n) = n + 1
    BY FS_Interval
  <2>2. IsFiniteSet(0 .. n - 1) /\ Cardinality(0 .. n - 1) = n
    BY <1>1, FS_Interval
  <2>3. Cardinality(0 .. n - 1) < Cardinality(0 .. n)
    BY <2>1, <2>2
  <2> HIDE DEF f
  <2> QED BY ONLY <1>2, <2>1, <2>2, <2>3, FS_PigeonHole, Zenon
<1>4. PICK x \in 0 .. n, y \in 0 .. n : x # y /\ f[x] = f[y]
  BY <1>3
<1>5. \A i \in 0 .. n : i \notin S => i - 1 \notin S /\ i - 1 \in 0 .. n
  <2> SUFFICES ASSUME NEW i \in 0 .. n, i \notin S PROVE i - 1 \notin S /\ i - 1 \in 0 .. n
    OBVIOUS
  <2>1. i # 0
    OBVIOUS
  <2>2. i - 1 \in Nat /\ (i - 1) + 1 = i
    BY <2>1
  <2> QED BY <2>2
<1> QED
  BY <1>4, <1>5

\* A recursion that takes its value at i from the one before and the step at i
\* has a solution.
Follows(V, b, n, s, f) == f \in [0 .. n -> V] /\ f[0] = b /\ \A i \in 1 .. n : f[i] = s[i][f[i - 1]]

LEMMA Recursion ==
  ASSUME NEW V, NEW b \in V, NEW n \in Nat, NEW s \in [1 .. n -> [V -> V]]
  PROVE  \E f : Follows(V, b, n, s, f)
<1> DEFINE Good(m, f) == f[0] = b /\ \A i \in 1 .. m : f[i] = s[i][f[i - 1]]
           S == {m \in Nat : m <= n => \E f \in [0 .. m -> V] : Good(m, f)}
<1>1. 0 \in S
  <2>1. [i \in 0 .. 0 |-> b] \in [0 .. 0 -> V] /\ Good(0, [i \in 0 .. 0 |-> b])
    OBVIOUS
  <2> QED BY <2>1
<1>2. \A m \in Nat : m \in S => m + 1 \in S
  <2> SUFFICES ASSUME NEW m \in Nat, m \in S, m + 1 <= n
               PROVE  \E f \in [0 .. m + 1 -> V] : Good(m + 1, f)
    OBVIOUS
  <2>1. PICK f \in [0 .. m -> V] : Good(m, f)
    OBVIOUS
  <2> DEFINE g == [i \in 0 .. m + 1 |-> IF i <= m THEN f[i] ELSE s[m + 1][f[m]]]
  <2>2. f[m] \in V /\ s[m + 1][f[m]] \in V
    BY <2>1
  <2>3. g \in [0 .. m + 1 -> V]
    BY <2>1, <2>2
  <2>4. g[0] = b
    BY <2>1
  <2>5. \A i \in 1 .. m + 1 : g[i] = s[i][g[i - 1]]
    <3> SUFFICES ASSUME NEW i \in 1 .. m + 1 PROVE g[i] = s[i][g[i - 1]]
      OBVIOUS
    <3>1. CASE i <= m
      BY <2>1, <3>1
    <3>2. CASE i = m + 1
      <4>1. i - 1 = m /\ m \in 0 .. m + 1 /\ m <= m /\ ~(m + 1 <= m)
        BY <3>2
      <4>2. g[m] = f[m] /\ g[m + 1] = s[m + 1][f[m]]
        BY <4>1
      <4> QED BY <4>1, <4>2, <3>2
    <3> QED BY <3>1, <3>2
  <2> QED BY <2>3, <2>4, <2>5
<1> HIDE DEF S
<1>3. n \in S
  BY <1>1, <1>2, SetInduction
<1> QED BY <1>3 DEF S, Follows

LEMMA AdvanceTokenType ==
  ASSUME NEW st \in State, NEW token \in Tok
  PROVE  F!advanceToken(st, token) \in State
<1>1. PICK q \in {"none", "basic", "literal"}, d \in Nat : st = [string |-> q, depth |-> d]
  BY DEF State
<1>2. CASE q # "none"
  BY <1>1, <1>2 DEF State, F!advanceToken
<1>3. CASE q = "none" /\ token = "open"
  BY <1>1, <1>3 DEF State, F!advanceToken
<1>4. CASE q = "none" /\ token = "close"
  BY <1>1, <1>4 DEF State, F!advanceToken
<1>5. CASE q = "none" /\ token \notin {"open", "close"}
  BY <1>1, <1>5 DEF State, Tok, F!advanceToken
<1> QED BY <1>2, <1>3, <1>4, <1>5

\* The state after the tokens of a line is the one before it changed by each.
LEMMA AdvanceUnfolds ==
  ASSUME NEW st \in State, NEW tokens \in Seq(Tok)
  PROVE  \E after \in [0 .. Len(tokens) -> State] :
           /\ after[0] = st
           /\ \A i \in 1 .. Len(tokens) : after[i] = F!advanceToken(after[i - 1], tokens[i])
           /\ F!advanceTomlScanState(st, tokens) = after[Len(tokens)]
<1> DEFINE n == Len(tokens)
           s == [i \in 1 .. n |-> [v \in State |-> F!advanceToken(v, tokens[i])]]
           Solves(f) == f = [i \in 0 .. n |-> IF i = 0 THEN st ELSE F!advanceToken(f[i - 1], tokens[i])]
           a == CHOOSE f : Solves(f)
<1>1. n \in Nat /\ \A v \in State, i \in 1 .. n : s[i][v] = F!advanceToken(v, tokens[i])
  OBVIOUS
<1>2. \A v \in State, i \in 1 .. n : s[i][v] \in State
  <2> SUFFICES ASSUME NEW v \in State, NEW i \in 1 .. n PROVE F!advanceToken(v, tokens[i]) \in State
    BY <1>1
  <2>1. tokens[i] \in Tok
    OBVIOUS
  <2> QED BY <2>1, AdvanceTokenType
<1>7. n \in Nat
  BY <1>1
<1>8. F!advanceTomlScanState(st, tokens) = a[n]
  BY DEF F!advanceTomlScanState
<1>13. s \in [1 .. n -> [State -> State]]
  BY <1>1, <1>2
<1> HIDE DEF s, n, a, Solves
<1>9. \E f : Follows(State, st, n, s, f)
  BY ONLY st \in State, <1>7, <1>13, Recursion
<1>3. PICK f \in [0 .. n -> State] : f[0] = st /\ \A i \in 1 .. n : f[i] = s[i][f[i - 1]]
  BY <1>9 DEF Follows
<1>10. \A i \in 1 .. n : f[i - 1] \in State
  BY <1>3, <1>7
<1>11. \A i \in 1 .. n : f[i] = F!advanceToken(f[i - 1], tokens[i])
  BY <1>1, <1>3, <1>10
<1>4. Solves(f)
  BY <1>3, <1>11, <1>7 DEF Solves
<1>5. Solves(a)
  BY <1>4 DEF a
<1>12. \A i \in 0 .. n : a[i] = IF i = 0 THEN st ELSE F!advanceToken(a[i - 1], tokens[i])
  BY <1>5 DEF Solves
<1>14. a \in [0 .. n -> State]
  <2> SUFFICES a = f
    BY <1>3
  <2> DEFINE S == {k \in Nat : k <= n => a[k] = f[k]}
  <2>1. 0 \in S
    BY <1>12, <1>3, <1>7
  <2>2. \A k \in Nat : k \in S => k + 1 \in S
    <3> SUFFICES ASSUME NEW k \in Nat, k \in S, k + 1 <= n PROVE a[k + 1] = f[k + 1]
      OBVIOUS
    <3>1. a[k] = f[k] /\ k + 1 \in 1 .. n /\ (k + 1) - 1 = k
      BY <1>7
    <3> QED BY <3>1, <1>12, <1>11
  <2> HIDE DEF S
  <2>3. \A k \in Nat : k \in S
    BY <2>1, <2>2, SetInduction
  <2>4. \A k \in 0 .. n : a[k] = f[k]
    BY <2>3, <1>7 DEF S
  <2>5. DOMAIN f = 0 .. n /\ f = [i \in 0 .. n |-> f[i]]
    BY <1>3
  <2>6. a = [i \in 0 .. n |-> a[i]]
    <3>1. DOMAIN a = 0 .. n /\ a = [i \in DOMAIN a |-> a[i]]
      BY <1>5 DEF Solves
    <3> QED BY ONLY <3>1
  <2> QED BY ONLY <2>4, <2>5, <2>6
<1>15. a[0] = st /\ \A i \in 1 .. n : a[i] = F!advanceToken(a[i - 1], tokens[i])
  BY <1>12, <1>7
<1> HIDE DEF Solves
<1> QED
  BY <1>8, <1>14, <1>15 DEF n

LEMMA AdvanceType ==
  ASSUME NEW st \in State, NEW tokens \in Seq(Tok)
  PROVE  F!advanceTomlScanState(st, tokens) \in State
<1>1. Len(tokens) \in 0 .. Len(tokens)
  OBVIOUS
<1> QED BY <1>1, AdvanceUnfolds

LEMMA AdvanceNothing ==
  ASSUME NEW st \in State
  PROVE  F!advanceTomlScanState(st, <<>>) = st
<1> DEFINE tokens == <<>>
<1>1. tokens \in Seq(Tok) /\ Len(tokens) = 0
  OBVIOUS
<1> HIDE DEF tokens
<1>2. PICK after \in [0 .. 0 -> State] : after[0] = st /\ F!advanceTomlScanState(st, tokens) = after[0]
  <2>1. \E after \in [0 .. Len(tokens) -> State] :
          after[0] = st /\ F!advanceTomlScanState(st, tokens) = after[Len(tokens)]
    BY <1>1, AdvanceUnfolds
  <2> QED BY ONLY <1>1, <2>1
<1> QED BY <1>2 DEF tokens

\* A header opens and closes its brackets.
LEMMA AdvanceHeader ==
  ASSUME NEW st \in State
  PROVE  F!advanceTomlScanState(st, <<"open", "close">>) = st
<1> DEFINE tokens == <<"open", "close">>
<1>1. tokens \in Seq(Tok) /\ Len(tokens) = 2 /\ tokens[1] = "open" /\ tokens[2] = "close"
  BY DEF Tok
<1> HIDE DEF tokens
<1>2. PICK after \in [0 .. 2 -> State] :
        /\ after[0] = st
        /\ \A i \in 1 .. 2 : after[i] = F!advanceToken(after[i - 1], tokens[i])
        /\ F!advanceTomlScanState(st, tokens) = after[2]
  BY <1>1, AdvanceUnfolds
<1>3. after[1] = F!advanceToken(st, "open") /\ after[2] = F!advanceToken(after[1], "close")
  BY <1>1, <1>2
<1>4. PICK q \in {"none", "basic", "literal"}, d \in Nat : st = [string |-> q, depth |-> d]
  BY DEF State
<1>5. CASE q = "none"
  <2>1. after[1] = [string |-> q, depth |-> d + 1]
    BY <1>3, <1>4, <1>5 DEF F!advanceToken
  <2>2. after[2] = [string |-> q, depth |-> d]
    BY <2>1, <1>3, <1>5 DEF F!advanceToken
  <2> QED BY <2>2, <1>2, <1>4 DEF tokens
<1>6. CASE q # "none"
  <2>1. after[1] = st
    BY <1>3, <1>4, <1>6 DEF F!advanceToken
  <2>2. after[2] = st
    BY <2>1, <1>3, <1>4, <1>6 DEF F!advanceToken
  <2> QED BY <2>2, <1>2 DEF tokens
<1> QED BY <1>5, <1>6

LEMMA FreshIsState == F!Fresh \in State
  BY DEF F!Fresh, State

LEMMA ClassifyLineType ==
  ASSUME NEW S, TomlLines(S), NEW line \in S, NEW i \in Nat, NEW before \in Mark(S) \cup {F!Beginning},
         NEW recover \in BOOLEAN
  PROVE  F!classifyLine(line, i, before, recover) \in Mark(S)
<1>1. before.state \in State /\ before.table \in Table(S) /\ before.start \in Nat
  <2>1. CASE before \in Mark(S)
    BY <2>1 DEF Mark
  <2>2. CASE before = F!Beginning
    <3>1. before.table = ""
      BY <2>2 DEF F!Beginning
    <3>2. "" \in Table(S)
      BY DEF Table
    <3>3. before.table \in Table(S)
      BY ONLY <3>1, <3>2, Zenon
    <3>4. before.start \in Nat
      BY <2>2 DEF F!Beginning
    <3>5. before.state \in State
      BY <2>2, FreshIsState DEF F!Beginning
    <3> QED BY ONLY <3>3, <3>4, <3>5, Zenon
  <2> QED BY <2>1, <2>2
<1>2. line.tokens \in Seq(Tok) /\ line.name \in Table(S)
  BY DEF TomlLines, IsTomlLine, Table
<1>3. F!advanceTomlScanState(before.state, line.tokens) \in State
  BY <1>1, <1>2, AdvanceType
<1> QED
  BY <1>1, <1>2, <1>3, FreshIsState DEF F!classifyLine, Mark

LEMMA ScanUnfolds ==
  ASSUME NEW S, TomlLines(S), NEW lines, lines \in Seq(S), NEW recover \in BOOLEAN
  PROVE  IsScan(lines, recover, F!classifyTomlLines(lines, recover))
<1> DEFINE n == Len(lines)
           W == Mark(S) \cup {F!Beginning}
           s == [i \in 1 .. n |-> [v \in W |-> F!classifyLine(lines[i], i, v, recover)]]
           Solves(f) == f = [i \in 1 .. n |-> F!classifyLine(lines[i], i, IF i = 1 THEN F!Beginning ELSE f[i - 1], recover)]
           a == CHOOSE f : Solves(f)
<1>1. n \in Nat /\ \A i \in 1 .. n : lines[i] \in S
  OBVIOUS
<1>2. \A i \in 1 .. n, v \in W : s[i][v] = F!classifyLine(lines[i], i, v, recover)
  OBVIOUS
<1>3. \A i \in 1 .. n, v \in W : F!classifyLine(lines[i], i, v, recover) \in Mark(S)
  <2> SUFFICES ASSUME NEW i \in 1 .. n, NEW v \in W PROVE F!classifyLine(lines[i], i, v, recover) \in Mark(S)
    OBVIOUS
  <2>1. lines[i] \in S /\ i \in Nat /\ v \in Mark(S) \cup {F!Beginning}
    BY <1>1
  <2> QED BY ONLY <2>1, recover \in BOOLEAN, TomlLines(S), ClassifyLineType
<1>4. s \in [1 .. n -> [W -> W]]
  BY <1>2, <1>3
<1>5. F!Beginning \in W /\ Mark(S) \subseteq W
  OBVIOUS
<1>6. F!classifyTomlLines(lines, recover) = SubSeq(a, 1, n)
  BY DEF F!classifyTomlLines
<1> HIDE DEF s, n, a, W
<1>7. \E f : Follows(W, F!Beginning, n, s, f)
  <2>1. n \in Nat /\ F!Beginning \in W
    BY <1>1, <1>5
  <2> QED BY ONLY <2>1, <1>4, Recursion
<1>8. PICK f \in [0 .. n -> W] : f[0] = F!Beginning /\ \A i \in 1 .. n : f[i] = s[i][f[i - 1]]
  BY <1>7 DEF Follows
<1>9. \A i \in 1 .. n : i - 1 \in 0 .. n /\ f[i - 1] \in W /\ f[i] = F!classifyLine(lines[i], i, f[i - 1], recover)
  <2> SUFFICES ASSUME NEW i \in 1 .. n
               PROVE  i - 1 \in 0 .. n /\ f[i - 1] \in W /\ f[i] = F!classifyLine(lines[i], i, f[i - 1], recover)
    OBVIOUS
  <2>1. i - 1 \in 0 .. n
    BY <1>1
  <2>2. f[i - 1] \in W
    BY <2>1
  <2>3. f[i] = s[i][f[i - 1]]
    BY <1>8
  <2> QED BY <1>2, <2>1, <2>2, <2>3
<1> DEFINE g == [i \in 1 .. n |-> f[i]]
<1>10. Solves(g)
  <2>1. \A i \in 1 .. n : g[i] = F!classifyLine(lines[i], i, IF i = 1 THEN F!Beginning ELSE g[i - 1], recover)
    <3> SUFFICES ASSUME NEW i \in 1 .. n
                 PROVE  g[i] = F!classifyLine(lines[i], i, IF i = 1 THEN F!Beginning ELSE g[i - 1], recover)
      OBVIOUS
    <3>1. f[i - 1] = IF i = 1 THEN F!Beginning ELSE g[i - 1]
      BY <1>8, <1>1
    <3>2. g[i] = F!classifyLine(lines[i], i, f[i - 1], recover)
      BY <1>9
    <3> QED BY <3>1, <3>2
  <2> HIDE DEF g
  <2>2. g = [i \in 1 .. n |-> g[i]]
    BY DEF g
  <2> QED BY <2>1, <2>2
<1>11. Solves(a)
  BY <1>10 DEF a
<1>12. /\ DOMAIN a = 1 .. n
       /\ \A i \in 1 .. n : a[i] = F!classifyLine(lines[i], i, IF i = 1 THEN F!Beginning ELSE a[i - 1], recover)
  BY <1>11
<1> HIDE DEF Solves, g
<1>13. \A i \in 1 .. n : a[i] \in Mark(S)
  <2> DEFINE Z == {k \in Nat : k + 1 <= n => a[k + 1] \in Mark(S)}
  <2>1. 0 \in Z
    <3>1. CASE 1 <= n
      BY <3>1, <1>1, <1>3, <1>5, <1>12
    <3> QED BY <3>1, <1>1
  <2>2. \A k \in Nat : k \in Z => k + 1 \in Z
    <3> SUFFICES ASSUME NEW k \in Nat, k \in Z, k + 2 <= n PROVE a[k + 2] \in Mark(S)
      OBVIOUS
    <3>1. a[k + 1] \in W /\ k + 2 \in 1 .. n /\ (k + 2) - 1 = k + 1 /\ k + 2 # 1
      BY <1>1, <1>5
    <3>2. a[k + 2] = F!classifyLine(lines[k + 2], k + 2, a[k + 1], recover)
      BY <3>1, <1>12
    <3> QED BY <3>1, <3>2, <1>3
  <2> HIDE DEF Z
  <2>3. \A k \in Nat : k \in Z
    BY <2>1, <2>2, SetInduction
  <2> SUFFICES ASSUME NEW i \in 1 .. n PROVE a[i] \in Mark(S)
    OBVIOUS
  <2>4. i - 1 \in Nat /\ (i - 1) + 1 = i /\ i <= n
    BY <1>1
  <2> QED BY <2>3, <2>4 DEF Z
<1>14. a \in [1 .. n -> Mark(S)]
  <2>1. a = [i \in 1 .. n |-> a[i]]
    BY <1>11 DEF Solves
  <2> QED BY <2>1, <1>13
<1>15. a \in Seq(Mark(S)) /\ Len(a) = n /\ SubSeq(a, 1, n) = a
  BY <1>14, <1>1
<1>16. SUFFICES IsScan(lines, recover, a)
  BY <1>6, <1>15
<1>17. ASSUME NEW i \in 1 .. n
       PROVE  /\ a[i].line = lines[i]
              /\ a[i].isHeader <=> lines[i].shape = "header" /\ (StateAfter(a, i - 1) = F!Fresh \/ recover)
              /\ a[i].isHeader => a[i].table = lines[i].name
              /\ ~a[i].isHeader /\ i = 1 => a[i].table = RootTable
              /\ ~a[i].isHeader /\ i # 1 => a[i].table = a[i - 1].table
              /\ a[i].start = IF i = 1 \/ a[i].isHeader \/ StateAfter(a, i - 1) = F!Fresh THEN i ELSE a[i - 1].start
              /\ a[i].state = IF a[i].isHeader THEN F!Fresh
                              ELSE F!advanceTomlScanState(StateAfter(a, i - 1), lines[i].tokens)
              /\ a[i].state \in State /\ a[i].isHeader \in BOOLEAN /\ a[i].start \in Nat
  <2>1. a[i] \in Mark(S)
    BY <1>13
  <2>2. a[i].state \in State /\ a[i].isHeader \in BOOLEAN /\ a[i].start \in Nat
    BY <2>1 DEF Mark
  <2> DEFINE b == IF i = 1 THEN F!Beginning ELSE a[i - 1]
             header == lines[i].shape = "header" /\ (b.state = F!Fresh \/ recover)
  <2>3. a[i] = F!classifyLine(lines[i], i, b, recover)
    BY <1>12
  <2>4. b.state = StateAfter(a, i - 1)
    BY <1>1 DEF StateAfter, F!Beginning
  <2>5. (i = 1 => b.table = RootTable) /\ (i # 1 => b.table = a[i - 1].table) /\ (i # 1 => b.start = a[i - 1].start) /\ (i = 1 => b.state = F!Fresh)
    BY DEF F!Beginning, RootTable
  <2> HIDE DEF b
  <2>6. a[i].line = lines[i]
    BY <2>3 DEF F!classifyLine
  <2>7. a[i].isHeader = header
    BY <2>3 DEF F!classifyLine
  <2>8. a[i].table = IF header THEN lines[i].name ELSE b.table
    BY <2>3 DEF F!classifyLine
  <2>9. a[i].start = IF header \/ b.state = F!Fresh THEN i ELSE b.start
    BY <2>3 DEF F!classifyLine
  <2>10. a[i].state = IF header THEN F!Fresh ELSE F!advanceTomlScanState(b.state, lines[i].tokens)
    BY <2>3 DEF F!classifyLine
  <2>11. a[i].isHeader <=> header
    BY <2>7
  <2> HIDE DEF header
  <2>12. /\ a[i].isHeader => a[i].table = lines[i].name
         /\ ~a[i].isHeader /\ i = 1 => a[i].table = RootTable
         /\ ~a[i].isHeader /\ i # 1 => a[i].table = a[i - 1].table
    BY <2>5, <2>8, <2>11
  <2>13. a[i].start = IF i = 1 \/ a[i].isHeader \/ StateAfter(a, i - 1) = F!Fresh THEN i ELSE a[i - 1].start
    BY <2>4, <2>5, <2>9, <2>11
  <2>14. a[i].state = IF a[i].isHeader THEN F!Fresh
                      ELSE F!advanceTomlScanState(StateAfter(a, i - 1), lines[i].tokens)
    BY <2>4, <2>10, <2>11
  <2>15. a[i].isHeader <=> lines[i].shape = "header" /\ (StateAfter(a, i - 1) = F!Fresh \/ recover)
    BY <2>4, <2>11 DEF header
  <2> QED BY <2>2, <2>6, <2>12, <2>13, <2>14, <2>15
<1> QED
  BY <1>12, <1>15, <1>17 DEF IsScan, ScanLine, n

-----------------------------------------------------------------------------
(* What a scan says of its lines. *)

TomlFile(lines) == Len(lines) \in Nat /\ \A i \in 1 .. Len(lines) : IsTomlLine(lines[i])

Quiet(l) == l.shape \in {"blank", "comment"}

LEMMA IntervalInduction ==
  ASSUME NEW n \in Nat, NEW Z, 0 \in Z, \A i \in 0 .. n - 1 : i \in Z => i + 1 \in Z
  PROVE  \A i \in 0 .. n : i \in Z
<1> DEFINE Q == {k \in Nat : k <= n => k \in Z}
<1>1. 0 \in Q
  OBVIOUS
<1>2. \A k \in Nat : k \in Q => k + 1 \in Q
  OBVIOUS
<1> HIDE DEF Q
<1>3. \A k \in Nat : k \in Q
  BY <1>1, <1>2, SetInduction
<1> QED BY <1>3 DEF Q

\* Blank lines and comments change nothing.
LEMMA QuietLine ==
  ASSUME NEW lines, TomlFile(lines), NEW r \in BOOLEAN, NEW scan, IsScan(lines, r, scan),
         NEW i \in 1 .. Len(lines), Quiet(lines[i])
  PROVE  ~scan[i].isHeader /\ scan[i].state = StateAfter(scan, i - 1)
<1>1. IsTomlLine(lines[i]) /\ lines[i].shape # "header"
  BY DEF TomlFile, Quiet
<1>2. lines[i].tokens = <<>>
  <2>1. CASE lines[i].shape = "comment"
    BY <1>1, <2>1 DEF IsTomlLine
  <2>2. CASE lines[i].shape = "blank"
    <3>1. lines[i] = F!Blank
      BY <1>1, <2>2 DEF IsTomlLine
    <3>2. F!Blank.tokens = <<>>
      BY DEF F!Blank, F!Line
    <3> QED BY ONLY <3>1, <3>2, Zenon
  <2> QED BY <2>1, <2>2 DEF Quiet
<1>6. ScanLine(lines, r, scan, i)
  BY DEF IsScan
<1>3. ~scan[i].isHeader
  BY <1>1, <1>6 DEF ScanLine
<1>4. scan[i].state = F!advanceTomlScanState(StateAfter(scan, i - 1), <<>>)
  BY <1>2, <1>3, <1>6 DEF ScanLine
<1>5. StateAfter(scan, i - 1) \in State
  <2>1. CASE i = 1
    BY <2>1, FreshIsState DEF StateAfter
  <2>2. CASE i # 1
    <3>1. i - 1 \in 1 .. Len(lines) /\ i - 1 # 0
      BY <2>2 DEF TomlFile
    <3>2. scan[i - 1].state \in State
      BY <3>1 DEF IsScan, ScanLine
    <3> QED BY <3>1, <3>2 DEF StateAfter
  <2> QED BY <2>1, <2>2
<1> QED BY <1>3, <1>4, <1>5, AdvanceNothing

LEMMA QuietLines ==
  ASSUME NEW lines, TomlFile(lines), NEW r \in BOOLEAN, NEW scan, IsScan(lines, r, scan),
         NEW a \in Nat, NEW b \in Nat, a <= b, b <= Len(lines), \A i \in a + 1 .. b : Quiet(lines[i])
  PROVE  \A i \in a .. b : StateAfter(scan, i) = StateAfter(scan, a)
<1> DEFINE Z == {k \in Nat : StateAfter(scan, a + k) = StateAfter(scan, a)}
<1>1. 0 \in Z
  OBVIOUS
<1>2. \A k \in 0 .. (b - a) - 1 : k \in Z => k + 1 \in Z
  <2> SUFFICES ASSUME NEW k \in 0 .. (b - a) - 1, k \in Z PROVE StateAfter(scan, a + (k + 1)) = StateAfter(scan, a)
    OBVIOUS
  <2>1. a + (k + 1) \in 1 .. Len(lines) /\ a + (k + 1) \in a + 1 .. b /\ (a + (k + 1)) - 1 = a + k /\ a + (k + 1) # 0
    BY DEF TomlFile
  <2>2. scan[a + (k + 1)].state = StateAfter(scan, a + k)
    BY <2>1, QuietLine
  <2> QED BY <2>1, <2>2 DEF StateAfter
<1>3. b - a \in Nat
  OBVIOUS
<1> HIDE DEF Z
<1>4. \A k \in 0 .. b - a : k \in Z
  BY <1>1, <1>2, <1>3, IntervalInduction
<1> SUFFICES ASSUME NEW i \in a .. b PROVE StateAfter(scan, i) = StateAfter(scan, a)
  OBVIOUS
<1>5. i - a \in 0 .. b - a /\ a + (i - a) = i
  OBVIOUS
<1> QED BY <1>4, <1>5 DEF Z

\* m lines of one file after a are those of another after b.
SameLines(A, a, B, b, m) ==
  /\ a \in Nat /\ b \in Nat /\ m \in Nat /\ a + m <= Len(A) /\ b + m <= Len(B)
  /\ \A k \in 1 .. m : A[a + k] = B[b + k]
SameScan(sa, a, sb, b, m) ==
  /\ \A k \in 0 .. m : StateAfter(sa, a + k) = StateAfter(sb, b + k)
  /\ \A k \in 1 .. m : sa[a + k].isHeader <=> sb[b + k].isHeader

\* The same lines, entered alike, are scanned alike.
LEMMA Shift ==
  ASSUME NEW A, TomlFile(A), NEW B, TomlFile(B), NEW r \in BOOLEAN,
         NEW sa, IsScan(A, r, sa), NEW sb, IsScan(B, r, sb),
         NEW a, NEW b, NEW m, SameLines(A, a, B, b, m), StateAfter(sa, a) = StateAfter(sb, b)
  PROVE  SameScan(sa, a, sb, b, m)
<1> USE DEF SameLines
<1> DEFINE Z == {k \in Nat : StateAfter(sa, a + k) = StateAfter(sb, b + k)}
<1>1. 0 \in Z
  OBVIOUS
<1>2. ASSUME NEW k \in 0 .. m - 1, StateAfter(sa, a + k) = StateAfter(sb, b + k)
      PROVE  /\ sa[a + (k + 1)].isHeader <=> sb[b + (k + 1)].isHeader
             /\ StateAfter(sa, a + (k + 1)) = StateAfter(sb, b + (k + 1))
  <2> DEFINE i == a + (k + 1)
             j == b + (k + 1)
  <2>1. i \in 1 .. Len(A) /\ j \in 1 .. Len(B) /\ i - 1 = a + k /\ j - 1 = b + k /\ i # 0 /\ j # 0
    BY DEF TomlFile
  <2>4. A[i] = B[j]
    <3>1. k + 1 \in 1 .. m
      OBVIOUS
    <3> QED BY <3>1
  <2> HIDE DEF i, j
  <2>7. ScanLine(A, r, sa, i) /\ ScanLine(B, r, sb, j)
    BY <2>1 DEF IsScan
  <2>5. /\ sa[i].isHeader <=> A[i].shape = "header" /\ (StateAfter(sa, a + k) = F!Fresh \/ r)
        /\ sa[i].state = IF sa[i].isHeader THEN F!Fresh ELSE F!advanceTomlScanState(StateAfter(sa, a + k), A[i].tokens)
    BY <2>1, <2>7 DEF ScanLine
  <2>6. /\ sb[j].isHeader <=> B[j].shape = "header" /\ (StateAfter(sb, b + k) = F!Fresh \/ r)
        /\ sb[j].state = IF sb[j].isHeader THEN F!Fresh ELSE F!advanceTomlScanState(StateAfter(sb, b + k), B[j].tokens)
    BY <2>1, <2>7 DEF ScanLine
  <2>2. sa[i].isHeader <=> sb[j].isHeader
    BY <1>2, <2>4, <2>5, <2>6
  <2>3. sa[i].state = sb[j].state
    BY <1>2, <2>4, <2>5, <2>6, <2>2
  <2> QED BY <2>1, <2>2, <2>3 DEF StateAfter, i, j
<1>3. \A k \in 0 .. m - 1 : k \in Z => k + 1 \in Z
  BY <1>2
<1> HIDE DEF Z
<1>4. \A k \in 0 .. m : k \in Z
  BY <1>1, <1>3, IntervalInduction
<1>5. \A k \in 0 .. m : StateAfter(sa, a + k) = StateAfter(sb, b + k)
  BY <1>4 DEF Z
<1>6. ASSUME NEW k \in 1 .. m PROVE sa[a + k].isHeader <=> sb[b + k].isHeader
  <2>1. k - 1 \in 0 .. m - 1 /\ k - 1 \in 0 .. m /\ (k - 1) + 1 = k
    OBVIOUS
  <2>2. StateAfter(sa, a + (k - 1)) = StateAfter(sb, b + (k - 1))
    BY <1>5, <2>1
  <2>3. sa[a + ((k - 1) + 1)].isHeader <=> sb[b + ((k - 1) + 1)].isHeader
    BY <1>2, <2>1, <2>2
  <2> QED BY <2>1, <2>3
<1> QED BY <1>5, <1>6 DEF SameScan

\* The table of a line is the last header's.
LEMMA TableOf ==
  ASSUME NEW lines, TomlFile(lines), NEW r \in BOOLEAN, NEW scan, IsScan(lines, r, scan),
         NEW i \in 1 .. Len(lines)
  PROVE  \/ scan[i].table = RootTable /\ \A h \in 1 .. i : ~scan[h].isHeader
         \/ \E h \in 1 .. i : /\ scan[h].isHeader /\ lines[h].shape = "header" /\ lines[h].name # RootTable
                              /\ scan[i].table = lines[h].name
                              /\ \A g \in h + 1 .. i : ~scan[g].isHeader
<1> DEFINE Holds(j) == \/ scan[j].table = RootTable /\ \A h \in 1 .. j : ~scan[h].isHeader
                   \/ \E h \in 1 .. j : /\ scan[h].isHeader /\ lines[h].shape = "header" /\ lines[h].name # RootTable
                                        /\ scan[j].table = lines[h].name
                                        /\ \A g \in h + 1 .. j : ~scan[g].isHeader
           Z == {j \in Nat : j # 0 => Holds(j)}
<1>1. 0 \in Z
  OBVIOUS
<1>2. ASSUME NEW k \in 0 .. Len(lines) - 1, k # 0 => Holds(k) PROVE Holds(k + 1)
  <2> DEFINE j == k + 1
  <2>1. j \in 1 .. Len(lines) /\ j - 1 = k
    BY DEF TomlFile
  <2>2. ScanLine(lines, r, scan, j) /\ IsTomlLine(lines[j])
    BY <2>1 DEF IsScan, TomlFile
  <2>3. CASE scan[j].isHeader
    <3>1. lines[j].shape = "header" /\ scan[j].table = lines[j].name
      BY <2>2, <2>3 DEF ScanLine
    <3>2. lines[j].name # RootTable
      BY <3>1, <2>2 DEF IsTomlLine
    <3>3. \A g \in j + 1 .. j : ~scan[g].isHeader
      BY <2>1
    <3>4. j \in 1 .. j
      BY <2>1
    <3> QED BY <3>1, <3>2, <3>3, <3>4, <2>3
  <2>4. CASE ~scan[j].isHeader
    <3>1. (j = 1 => scan[j].table = RootTable) /\ (j # 1 => scan[j].table = scan[k].table)
      BY <2>1, <2>2, <2>4 DEF ScanLine
    <3>2. CASE k = 0
      <4>1. scan[j].table = RootTable /\ \A h \in 1 .. j : h = j
        BY <3>1, <3>2
      <4> QED BY <4>1, <2>4
    <3>3. CASE k # 0 /\ scan[k].table = RootTable /\ \A h \in 1 .. k : ~scan[h].isHeader
      <4>1. scan[j].table = RootTable
        BY <3>1, <3>3
      <4>2. \A h \in 1 .. j : h \in 1 .. k \/ h = j
        BY <2>1
      <4> QED BY <4>1, <4>2, <3>3, <2>4
    <3>4. CASE k # 0 /\ \E h \in 1 .. k : /\ scan[h].isHeader /\ lines[h].shape = "header" /\ lines[h].name # RootTable
                                          /\ scan[k].table = lines[h].name
                                          /\ \A g \in h + 1 .. k : ~scan[g].isHeader
      <4>1. PICK h \in 1 .. k : /\ scan[h].isHeader /\ lines[h].shape = "header" /\ lines[h].name # RootTable
                                /\ scan[k].table = lines[h].name
                                /\ \A g \in h + 1 .. k : ~scan[g].isHeader
        BY <3>4
      <4>2. h \in 1 .. j
        BY <2>1
      <4>3. \A g \in h + 1 .. j : g \in h + 1 .. k \/ g = j
        BY <2>1
      <4>4. scan[j].table = lines[h].name
        BY <4>1, <3>1, <3>4
      <4>5. \A g \in h + 1 .. j : ~scan[g].isHeader
        BY <4>1, <4>3, <2>4
      <4> QED BY <4>1, <4>2, <4>4, <4>5
    <3>5. k # 0 => Holds(k)
      BY <1>2
    <3> HIDE DEF j
    <3> QED BY <3>2, <3>3, <3>4, <3>5
  <2> QED BY <2>3, <2>4
<1>3. \A k \in 0 .. Len(lines) - 1 : k \in Z => k + 1 \in Z
  <2> HIDE DEF Holds
  <2> QED BY <1>2
<1>4. Len(lines) \in Nat /\ i \in 0 .. Len(lines) /\ i # 0
  BY DEF TomlFile
<1> HIDE DEF Z
<1>5. \A k \in 0 .. Len(lines) : k \in Z
  BY <1>1, <1>3, <1>4, IntervalInduction
<1>6. Holds(i)
  BY <1>4, <1>5 DEF Z
<1> QED BY <1>6

\* A statement stays in its table, and does not begin before a fresh line.
LEMMA Starts ==
  ASSUME NEW lines, TomlFile(lines), NEW r \in BOOLEAN, NEW scan, IsScan(lines, r, scan),
         NEW i \in 1 .. Len(lines)
  PROVE  /\ scan[i].start \in 1 .. i
         /\ scan[scan[i].start].start = scan[i].start
         /\ scan[scan[i].start].table = scan[i].table
         /\ \A a \in 0 .. i - 1 : StateAfter(scan, a) = F!Fresh => a < scan[i].start
<1> DEFINE Holds(j) == /\ scan[j].start \in 1 .. j
                   /\ scan[scan[j].start].start = scan[j].start
                   /\ scan[scan[j].start].table = scan[j].table
                   /\ \A a \in 0 .. j - 1 : StateAfter(scan, a) = F!Fresh => a < scan[j].start
           Z == {j \in Nat : j # 0 => Holds(j)}
<1>1. 0 \in Z
  OBVIOUS
<1>2. ASSUME NEW k \in 0 .. Len(lines) - 1, k # 0 => Holds(k) PROVE Holds(k + 1)
  <2> DEFINE j == k + 1
  <2>1. j \in 1 .. Len(lines) /\ j - 1 = k /\ j \in Nat
    BY DEF TomlFile
  <2>2. ScanLine(lines, r, scan, j)
    BY <2>1 DEF IsScan
  <2> HIDE DEF j
  <2>3. CASE scan[j].start = j
    <3>1. \A a \in 0 .. j - 1 : a < j
      BY <2>1
    <3> QED BY <3>1, <2>3, <2>1 DEF j
  <2>4. CASE scan[j].start # j
    <3>1. j # 1 /\ ~scan[j].isHeader /\ StateAfter(scan, k) # F!Fresh
      BY <2>1, <2>2, <2>4 DEF ScanLine
    <3>2. scan[j].start = scan[k].start /\ scan[j].table = scan[k].table
      BY <2>1, <2>2, <2>4, <3>1 DEF ScanLine
    <3>3. Holds(k)
      BY <3>1, <1>2, <2>1
    <3>4. scan[j].start \in 1 .. j /\ scan[scan[j].start].start = scan[j].start /\ scan[scan[j].start].table = scan[j].table
      BY <3>2, <3>3, <2>1
    <3>5. \A a \in 0 .. j - 1 : StateAfter(scan, a) = F!Fresh => a < scan[j].start
      <4> SUFFICES ASSUME NEW a \in 0 .. j - 1, StateAfter(scan, a) = F!Fresh PROVE a < scan[j].start
        OBVIOUS
      <4>1. a # k
        BY <3>1
      <4>2. a \in 0 .. k - 1
        BY <4>1, <2>1
      <4> QED BY <4>2, <3>2, <3>3
    <3> QED BY <3>4, <3>5 DEF j
  <2> QED BY <2>3, <2>4
<1>3. \A k \in 0 .. Len(lines) - 1 : k \in Z => k + 1 \in Z
  <2> HIDE DEF Holds
  <2> QED BY <1>2
<1>4. Len(lines) \in Nat /\ i \in 0 .. Len(lines) /\ i # 0
  BY DEF TomlFile
<1> HIDE DEF Z
<1>5. \A k \in 0 .. Len(lines) : k \in Z
  BY <1>1, <1>3, <1>4, IntervalInduction
<1>6. Holds(i)
  BY <1>4, <1>5 DEF Z
<1> QED BY <1>6

LEMMA LeadsToIs ==
  ASSUME NEW lines, TomlFile(lines), NEW r \in BOOLEAN, NEW scan, IsScan(lines, r, scan),
         NEW i \in 1 .. Len(lines), NEW h \in i .. Len(lines)
  PROVE  F!LeadsTo(scan, i, h) <=>
           /\ scan[h].isHeader
           /\ \A j \in i .. h - 1 : \/ lines[j].shape = "comment"
                                    \/ lines[j].shape = "blank" /\ scan[h].table # F!codexManagedTable
<1>1. \A j \in i .. h - 1 : scan[j].line = lines[j]
  <2> SUFFICES ASSUME NEW j \in i .. h - 1 PROVE scan[j].line = lines[j]
    OBVIOUS
  <2>1. j \in 1 .. Len(lines)
    BY DEF TomlFile
  <2> QED BY <2>1 DEF IsScan, ScanLine
<1> QED BY <1>1 DEF F!LeadsTo

\* Only blank lines and comments lead to a header below them, and only to one.
LEMMA Owner ==
  ASSUME NEW lines, TomlFile(lines), NEW r \in BOOLEAN, NEW scan, IsScan(lines, r, scan),
         NEW i \in 1 .. Len(lines)
  PROVE  /\ (\A h \in i + 1 .. Len(lines) : ~F!LeadsTo(scan, i, h)) => F!tomlSectionOwner(scan, i) = scan[i].table
         /\ \A h \in i + 1 .. Len(lines) : F!LeadsTo(scan, i, h) => F!tomlSectionOwner(scan, i) = scan[h].table
         /\ ~Quiet(lines[i]) => F!tomlSectionOwner(scan, i) = scan[i].table
<1> DEFINE n == Len(lines)
           ahead == {h \in i .. n : F!LeadsTo(scan, i, h)}
           c == CHOOSE h \in ahead : TRUE
<1>1. n \in Nat /\ Len(scan) = n /\ i \in Nat /\ i <= n
  BY DEF TomlFile, IsScan
<1>2. F!tomlSectionOwner(scan, i) = IF ahead = {} THEN scan[i].table ELSE scan[c].table
  BY <1>1 DEF F!tomlSectionOwner
<1>3. ahead # {} => c \in ahead
  OBVIOUS
<1>4. \A h \in ahead : /\ h \in i .. n
                       /\ lines[h].shape = "header"
                       /\ \A j \in i .. h - 1 : Quiet(lines[j])
  <2> SUFFICES ASSUME NEW h \in ahead
               PROVE h \in i .. n /\ lines[h].shape = "header" /\ \A j \in i .. h - 1 : Quiet(lines[j])
    OBVIOUS
  <2>1. h \in i .. n /\ h \in 1 .. Len(lines)
    BY <1>1
  <2>2. scan[h].isHeader /\ \A j \in i .. h - 1 : Quiet(lines[j])
    BY <2>1, LeadsToIs DEF Quiet
  <2>3. ScanLine(lines, r, scan, h)
    BY <2>1 DEF IsScan
  <2> QED BY <2>1, <2>2, <2>3 DEF ScanLine
<1>5. \A h \in ahead, g \in ahead : g = h
  <2> SUFFICES ASSUME NEW h \in ahead, NEW g \in ahead, g < h PROVE FALSE
    <3>1. \A h \in ahead, g \in ahead : ~(g < h)
      OBVIOUS
    <3>2. \A h \in ahead : h \in Int
      BY <1>1, <1>4
    <3> QED BY <3>1, <3>2
  <2>1. g \in i .. h - 1
    BY <1>1, <1>4
  <2> QED BY <2>1, <1>4 DEF Quiet
<1> HIDE DEF ahead
<1>6. (\A h \in i + 1 .. n : ~F!LeadsTo(scan, i, h)) => F!tomlSectionOwner(scan, i) = scan[i].table
  <2> SUFFICES ASSUME \A h \in i + 1 .. n : ~F!LeadsTo(scan, i, h), ahead # {} PROVE c = i
    BY <1>2
  <2>1. c \in i .. n /\ F!LeadsTo(scan, i, c)
    BY <1>3 DEF ahead
  <2> QED BY <2>1, <1>1
<1>7. \A h \in i + 1 .. n : F!LeadsTo(scan, i, h) => F!tomlSectionOwner(scan, i) = scan[h].table
  <2> SUFFICES ASSUME NEW h \in i + 1 .. n, F!LeadsTo(scan, i, h) PROVE F!tomlSectionOwner(scan, i) = scan[h].table
    OBVIOUS
  <2>1. h \in ahead
    BY <1>1 DEF ahead
  <2> QED BY <2>1, <1>2, <1>3, <1>5
<1>8. ~Quiet(lines[i]) => F!tomlSectionOwner(scan, i) = scan[i].table
  <2> SUFFICES ASSUME ~Quiet(lines[i]), NEW h \in i + 1 .. n, F!LeadsTo(scan, i, h) PROVE FALSE
    BY <1>6
  <2>1. h \in ahead /\ i \in i .. h - 1
    BY <1>1 DEF ahead
  <2> QED BY <2>1, <1>4
<1> QED BY <1>6, <1>7, <1>8

-----------------------------------------------------------------------------
(* What is left of a file when only some lines are kept. *)

\* The sequence of what is kept of the first i lines.
Keeping(S, lines, places, kept) ==
  /\ kept \in [0 .. Len(lines) -> Seq(S)]
  /\ kept[0] = <<>>
  /\ \A i \in 1 .. Len(lines) : kept[i] = IF i \in places THEN Append(kept[i - 1], lines[i]) ELSE kept[i - 1]
  /\ F!Select(lines, places) = kept[Len(lines)]

LEMMA SelectUnfolds ==
  ASSUME NEW S, NEW lines, lines \in Seq(S), NEW places
  PROVE  \E kept : Keeping(S, lines, places, kept)
<1> DEFINE n == Len(lines)
           V == Seq(S)
           e == <<>>
           s == [i \in 1 .. n |-> [v \in V |-> IF i \in places THEN Append(v, lines[i]) ELSE v]]
           Solves(f) == f = [i \in 0 .. n |-> IF i = 0 THEN e
                              ELSE IF i \in places THEN Append(f[i - 1], lines[i]) ELSE f[i - 1]]
           a == CHOOSE f : Solves(f)
<1>1. n \in Nat /\ e \in V
  OBVIOUS
<1>2. s \in [1 .. n -> [V -> V]]
  <2>1. \A i \in 1 .. n, v \in V : (IF i \in places THEN Append(v, lines[i]) ELSE v) \in V
    OBVIOUS
  <2> HIDE DEF V, n
  <2> QED BY <2>1
<1>3. \A i \in 1 .. n, v \in V : s[i][v] = IF i \in places THEN Append(v, lines[i]) ELSE v
  OBVIOUS
<1>4. F!Select(lines, places) = a[n]
  BY DEF F!Select
<1> HIDE DEF s, n, a, V, e
<1>5. \E f : Follows(V, e, n, s, f)
  BY ONLY <1>1, <1>2, Recursion
<1>6. PICK f \in [0 .. n -> V] : f[0] = e /\ \A i \in 1 .. n : f[i] = s[i][f[i - 1]]
  BY <1>5 DEF Follows
<1>7. \A i \in 1 .. n : i - 1 \in 0 .. n /\ f[i - 1] \in V
  BY <1>1, <1>6
<1>8. \A i \in 1 .. n : f[i] = IF i \in places THEN Append(f[i - 1], lines[i]) ELSE f[i - 1]
  BY <1>3, <1>6, <1>7
<1>9. Solves(f)
  <2>1. \A i \in 0 .. n : f[i] = IF i = 0 THEN e ELSE IF i \in places THEN Append(f[i - 1], lines[i]) ELSE f[i - 1]
    <3> SUFFICES ASSUME NEW i \in 0 .. n, i # 0
                 PROVE  f[i] = IF i \in places THEN Append(f[i - 1], lines[i]) ELSE f[i - 1]
      BY <1>6
    <3>1. i \in 1 .. n
      BY <1>1
    <3> QED BY ONLY <3>1, <1>8
  <2>2. f = [i \in 0 .. n |-> f[i]]
    BY <1>6
  <2> QED BY ONLY <2>1, <2>2, Zenon
<1>10. Solves(a)
  BY <1>9 DEF a
<1>13. a = [i \in 0 .. n |-> a[i]]
  BY <1>10
<1>14. \A i \in 0 .. n : a[i] = IF i = 0 THEN e ELSE IF i \in places THEN Append(a[i - 1], lines[i]) ELSE a[i - 1]
  BY ONLY <1>10, Zenon
<1>11. /\ a[0] = e /\ a = [i \in 0 .. n |-> a[i]]
       /\ \A i \in 1 .. n : a[i] = IF i \in places THEN Append(a[i - 1], lines[i]) ELSE a[i - 1]
  <2>1. \A i \in 1 .. n : i \in 0 .. n /\ i # 0
    BY <1>1
  <2>2. 0 \in 0 .. n
    BY <1>1
  <2> QED BY ONLY <1>13, <1>14, <2>1, <2>2, Zenon
<1> HIDE DEF Solves
<1>12. a = f
  <2> DEFINE Z == {k \in Nat : a[k] = f[k]}
  <2>1. 0 \in Z
    BY <1>6, <1>11
  <2>2. \A k \in 0 .. n - 1 : k \in Z => k + 1 \in Z
    <3> SUFFICES ASSUME NEW k \in 0 .. n - 1, a[k] = f[k] PROVE a[k + 1] = f[k + 1]
      OBVIOUS
    <3>1. k + 1 \in 1 .. n /\ (k + 1) - 1 = k
      BY <1>1
    <3> QED BY <3>1, <1>8, <1>11
  <2> HIDE DEF Z
  <2>3. \A k \in 0 .. n : k \in Z
    BY <1>1, <2>1, <2>2, IntervalInduction
  <2>4. \A k \in 0 .. n : a[k] = f[k]
    BY <2>3 DEF Z
  <2> QED BY <2>4, <1>6, <1>11
<1>15. Keeping(S, lines, places, f)
  BY <1>4, <1>6, <1>8, <1>12 DEF n, V, e, Keeping
<1> QED BY <1>15

\* Where each kept line comes to stand.
SelectCount(lines, places, kept, c) ==
  /\ c \in [0 .. Len(lines) -> Nat]
  /\ c[0] = 0 /\ c[Len(lines)] = Len(kept)
  /\ \A j \in 1 .. Len(lines) :
       IF j \in places THEN c[j] = c[j - 1] + 1 /\ c[j] \in 1 .. Len(kept) /\ kept[c[j]] = lines[j]
       ELSE c[j] = c[j - 1]
  /\ \A p \in 1 .. Len(kept) : \E j \in 1 .. Len(lines) : j \in places /\ c[j] = p

LEMMA SelectCounts ==
  ASSUME NEW S, NEW lines, lines \in Seq(S), NEW places
  PROVE  /\ F!Select(lines, places) \in Seq(S)
         /\ \E c : SelectCount(lines, places, F!Select(lines, places), c)
<1> DEFINE n == Len(lines)
<1>1. n \in Nat
  OBVIOUS
<1>2. PICK kept : Keeping(S, lines, places, kept)
  BY SelectUnfolds
<1>13. /\ kept \in [0 .. n -> Seq(S)] /\ kept[0] = <<>>
       /\ \A i \in 1 .. n : kept[i] = IF i \in places THEN Append(kept[i - 1], lines[i]) ELSE kept[i - 1]
       /\ F!Select(lines, places) = kept[n]
  BY <1>2 DEF Keeping
<1> HIDE DEF n
<1>3. \A i \in 0 .. n : kept[i] \in Seq(S) /\ Len(kept[i]) \in Nat
  BY <1>13
<1>4. ASSUME NEW i \in 1 .. n
      PROVE  /\ i \in places => /\ Len(kept[i]) = Len(kept[i - 1]) + 1 /\ kept[i][Len(kept[i])] = lines[i]
                                /\ \A p \in 1 .. Len(kept[i - 1]) : kept[i][p] = kept[i - 1][p]
             /\ i \notin places => kept[i] = kept[i - 1]
  <2>1. i - 1 \in 0 .. n
    BY <1>1
  <2>2. kept[i - 1] \in Seq(S)
    BY <2>1, <1>3
  <2>3. lines[i] \in S
    BY DEF n
  <2>4. CASE i \in places
    <3>1. kept[i] = Append(kept[i - 1], lines[i])
      BY <1>13, <2>4
    <3> QED BY <2>2, <2>3, <2>4, <3>1
  <2>5. CASE i \notin places
    BY <1>13, <2>5
  <2> QED BY <2>4, <2>5
<1>5. \A m \in 0 .. n : \A j \in 0 .. m : /\ Len(kept[j]) <= Len(kept[m])
                                          /\ \A p \in 1 .. Len(kept[j]) : kept[m][p] = kept[j][p]
  <2> DEFINE Holds(m) == \A j \in 0 .. m : /\ Len(kept[j]) <= Len(kept[m])
                                       /\ \A p \in 1 .. Len(kept[j]) : kept[m][p] = kept[j][p]
             Z == {m \in Nat : Holds(m)}
  <2>1. 0 \in Z
    <3>1. Len(kept[0]) \in Nat
      BY <1>1, <1>3
    <3>2. \A j \in 0 .. 0 : j = 0
      OBVIOUS
    <3> QED BY <3>1, <3>2
  <2>4. ASSUME NEW m \in 0 .. n - 1, Holds(m), NEW j \in 0 .. m + 1
        PROVE  Len(kept[j]) <= Len(kept[m + 1]) /\ \A p \in 1 .. Len(kept[j]) : kept[m + 1][p] = kept[j][p]
    <3>1. m + 1 \in 1 .. n /\ (m + 1) - 1 = m /\ m \in 0 .. n /\ m + 1 \in 0 .. n
      BY <1>1
    <3>2. Len(kept[m]) \in Nat /\ Len(kept[m + 1]) \in Nat
      BY <1>3, <3>1
    <3>3. Len(kept[m]) <= Len(kept[m + 1]) /\ \A p \in 1 .. Len(kept[m]) : kept[m + 1][p] = kept[m][p]
      BY <1>4, <3>1, <3>2
    <3>4. CASE j = m + 1
      BY <3>2, <3>4
    <3>5. CASE j \in 0 .. m
      <4>1. Len(kept[j]) <= Len(kept[m]) /\ \A p \in 1 .. Len(kept[j]) : kept[m][p] = kept[j][p]
        BY <2>4, <3>5
      <4>2. Len(kept[j]) \in Nat
        BY <1>3, <3>5, <3>1
      <4> QED BY <4>1, <4>2, <3>2, <3>3
    <3> QED BY <3>1, <3>4, <3>5
  <2>2. \A m \in 0 .. n - 1 : m \in Z => m + 1 \in Z
    <3>1. \A m \in 0 .. n - 1 : Holds(m) => Holds(m + 1)
      BY ONLY <2>4
    <3> HIDE DEF Holds
    <3> QED BY <3>1, <1>1
  <2> HIDE DEF Z
  <2>3. \A m \in 0 .. n : m \in Z
    BY <1>1, <2>1, <2>2, IntervalInduction
  <2> QED BY <2>3 DEF Z
<1>6. \A m \in 0 .. n : \A p \in 1 .. Len(kept[m]) : \E j \in 1 .. m : j \in places /\ Len(kept[j]) = p
  <2> DEFINE Holds(m) == \A p \in 1 .. Len(kept[m]) : \E j \in 1 .. m : j \in places /\ Len(kept[j]) = p
             Z == {m \in Nat : Holds(m)}
  <2>1. 0 \in Z
    <3>1. Len(kept[0]) = 0
      BY <1>13
    <3> QED BY <3>1
  <2>4. ASSUME NEW m \in 0 .. n - 1, Holds(m), NEW p \in 1 .. Len(kept[m + 1])
        PROVE  \E j \in 1 .. m + 1 : j \in places /\ Len(kept[j]) = p
    <3>1. m + 1 \in 1 .. n /\ (m + 1) - 1 = m /\ m \in 0 .. n /\ m + 1 \in 0 .. n /\ m + 1 \in 1 .. m + 1
      BY <1>1
    <3>2. Len(kept[m]) \in Nat /\ Len(kept[m + 1]) \in Nat
      BY <1>3, <3>1
    <3>3. CASE p \in 1 .. Len(kept[m])
      BY <2>4, <3>3, <3>1
    <3>4. CASE p \notin 1 .. Len(kept[m])
      <4>1. m + 1 \in places /\ Len(kept[m + 1]) = Len(kept[m]) + 1
        BY <1>4, <3>1, <3>2, <3>4
      <4> QED BY <4>1, <3>1, <3>2, <3>4
    <3> QED BY <3>3, <3>4
  <2>2. \A m \in 0 .. n - 1 : m \in Z => m + 1 \in Z
    <3>1. \A m \in 0 .. n - 1 : Holds(m) => Holds(m + 1)
      BY ONLY <2>4
    <3> HIDE DEF Holds
    <3> QED BY <3>1, <1>1
  <2> HIDE DEF Z
  <2>3. \A m \in 0 .. n : m \in Z
    BY <1>1, <2>1, <2>2, IntervalInduction
  <2> QED BY <2>3 DEF Z
<1> DEFINE K == kept[n]
           c == [j \in 0 .. n |-> Len(kept[j])]
<1>7. n \in 0 .. n /\ 0 \in 0 .. n
  BY <1>1
<1>8. c \in [0 .. n -> Nat] /\ c[0] = 0 /\ c[n] = Len(K)
  BY <1>13, <1>3, <1>7
<1>9. ASSUME NEW j \in 1 .. n
      PROVE  IF j \in places THEN c[j] = c[j - 1] + 1 /\ c[j] \in 1 .. Len(K) /\ K[c[j]] = lines[j]
             ELSE c[j] = c[j - 1]
  <2>1. j \in 0 .. n /\ j - 1 \in 0 .. n
    BY <1>1
  <2>2. c[j] = Len(kept[j]) /\ c[j - 1] = Len(kept[j - 1]) /\ Len(kept[j]) \in Nat /\ Len(kept[j - 1]) \in Nat
    BY <2>1, <1>3
  <2>3. Len(kept[j]) <= Len(K) /\ \A p \in 1 .. Len(kept[j]) : K[p] = kept[j][p]
    BY <2>1, <1>5, <1>7
  <2>4. Len(K) \in Nat
    BY <1>3, <1>7
  <2> HIDE DEF c, K
  <2>5. CASE j \in places
    <3>1. Len(kept[j]) = Len(kept[j - 1]) + 1 /\ kept[j][Len(kept[j])] = lines[j]
      BY <1>4, <2>5
    <3>2. Len(kept[j]) \in 1 .. Len(kept[j])
      BY <3>1, <2>2
    <3> QED BY <2>2, <2>3, <2>4, <2>5, <3>1, <3>2
  <2>6. CASE j \notin places
    BY <1>4, <2>2, <2>6
  <2> QED BY <2>5, <2>6
<1>10. \A p \in 1 .. Len(K) : \E j \in 1 .. n : j \in places /\ c[j] = p
  <2> SUFFICES ASSUME NEW p \in 1 .. Len(K) PROVE \E j \in 1 .. n : j \in places /\ c[j] = p
    OBVIOUS
  <2>1. PICK j \in 1 .. n : j \in places /\ Len(kept[j]) = p
    BY <1>6, <1>7
  <2>2. j \in 0 .. n
    BY <1>1
  <2> QED BY <2>1, <2>2
<1>11. K \in Seq(S) /\ F!Select(lines, places) = K
  BY <1>13, <1>3, <1>7
<1> HIDE DEF c, K
<1>12. SelectCount(lines, places, K, c)
  BY <1>8, <1>9, <1>10 DEF SelectCount, n
<1> QED BY <1>11, <1>12

\* Over a stretch of kept lines the count runs along; elsewhere it stands.
LEMMA CountRuns ==
  ASSUME NEW lines, NEW places, NEW kept, NEW c, SelectCount(lines, places, kept, c), Len(lines) \in Nat,
         NEW a \in 0 .. Len(lines), NEW b \in a .. Len(lines)
  PROVE  /\ (\A j \in a + 1 .. b : j \in places) => \A j \in a .. b : c[j] = c[a] + (j - a)
         /\ (\A j \in a + 1 .. b : j \notin places) => \A j \in a .. b : c[j] = c[a]
<1>1. a \in Nat /\ b \in Nat /\ a <= b /\ b <= Len(lines) /\ b - a \in Nat
  OBVIOUS
<1>2. \A j \in 0 .. Len(lines) : c[j] \in Nat
  BY DEF SelectCount
<1>3. \A j \in 1 .. Len(lines) : IF j \in places THEN c[j] = c[j - 1] + 1 ELSE c[j] = c[j - 1]
  BY DEF SelectCount
<1>4. \A k \in 0 .. (b - a) - 1 : /\ a + (k + 1) \in a + 1 .. b /\ a + (k + 1) \in 1 .. Len(lines)
                                  /\ (a + (k + 1)) - 1 = a + k /\ a + k \in 0 .. Len(lines)
  BY <1>1
<1>5. \A j \in a .. b : j - a \in 0 .. b - a /\ a + (j - a) = j
  BY <1>1
<1>6. ASSUME \A j \in a + 1 .. b : j \in places PROVE \A j \in a .. b : c[j] = c[a] + (j - a)
  <2> DEFINE Z == {k \in Nat : c[a + k] = c[a] + k}
  <2>1. 0 \in Z
    <3>1. a + 0 = a /\ c[a] \in Nat
      BY <1>1, <1>2
    <3> QED BY <3>1
  <2>2. \A k \in 0 .. (b - a) - 1 : k \in Z => k + 1 \in Z
    <3> SUFFICES ASSUME NEW k \in 0 .. (b - a) - 1, c[a + k] = c[a] + k PROVE c[a + (k + 1)] = c[a] + (k + 1)
      OBVIOUS
    <3>1. c[a + (k + 1)] = c[a + k] + 1
      BY <1>3, <1>4, <1>6
    <3>2. c[a + k] \in Nat /\ c[a] \in Nat /\ k \in Nat
      BY <1>1, <1>2, <1>4
    <3>3. (c[a] + k) + 1 = c[a] + (k + 1)
      BY ONLY <3>2
    <3>4. c[a + k] = c[a] + k
      OBVIOUS
    <3> QED BY ONLY <3>1, <3>3, <3>4
  <2> HIDE DEF Z
  <2>3. \A k \in 0 .. b - a : k \in Z
    BY <1>1, <2>1, <2>2, IntervalInduction
  <2>4. \A k \in 0 .. b - a : c[a + k] = c[a] + k
    BY <2>3 DEF Z
  <2> SUFFICES ASSUME NEW j \in a .. b PROVE c[j] = c[a] + (j - a)
    OBVIOUS
  <2> QED BY <1>5, <2>4
<1>7. ASSUME \A j \in a + 1 .. b : j \notin places PROVE \A j \in a .. b : c[j] = c[a]
  <2> DEFINE Z == {k \in Nat : c[a + k] = c[a]}
  <2>1. 0 \in Z
    BY <1>1
  <2>2. \A k \in 0 .. (b - a) - 1 : k \in Z => k + 1 \in Z
    <3> SUFFICES ASSUME NEW k \in 0 .. (b - a) - 1, c[a + k] = c[a] PROVE c[a + (k + 1)] = c[a]
      OBVIOUS
    <3> QED BY <1>3, <1>4, <1>7
  <2> HIDE DEF Z
  <2>3. \A k \in 0 .. b - a : k \in Z
    BY <1>1, <2>1, <2>2, IntervalInduction
  <2>4. \A k \in 0 .. b - a : c[a + k] = c[a]
    BY <2>3 DEF Z
  <2> SUFFICES ASSUME NEW j \in a .. b PROVE c[j] = c[a]
    OBVIOUS
  <2> QED BY <1>5, <2>4
<1> QED BY <1>6, <1>7

LEMMA LeastAndGreatest ==
  ASSUME NEW n \in Nat, NEW T, T \subseteq 0 .. n, T # {}
  PROVE  /\ \E x \in T : \A y \in T : x <= y
         /\ \E x \in T : \A y \in T : y <= x
<1>1. \E x \in T : \A y \in T : x <= y
  <2> SUFFICES ASSUME \A x \in T : \E y \in T : ~(x <= y) PROVE FALSE
    OBVIOUS
  <2> DEFINE Z == {k \in Nat : \A x \in 0 .. k : x \notin T}
  <2>1. 0 \in Z
    OBVIOUS
  <2>2. \A k \in 0 .. n - 1 : k \in Z => k + 1 \in Z
    <3> SUFFICES ASSUME NEW k \in 0 .. n - 1, \A x \in 0 .. k : x \notin T, k + 1 \in T PROVE FALSE
      <4>1. ASSUME NEW k \in 0 .. n - 1, \A x \in 0 .. k : x \notin T, k + 1 \notin T
            PROVE  \A x \in 0 .. k + 1 : x \notin T
        <5>1. \A x \in 0 .. k + 1 : x \in 0 .. k \/ x = k + 1
          OBVIOUS
        <5> QED BY <4>1, <5>1
      <4> QED BY <4>1
    <3>1. PICK y \in T : ~(k + 1 <= y)
      OBVIOUS
    <3>2. y \in 0 .. k
      BY <3>1
    <3> QED BY <3>2
  <2> HIDE DEF Z
  <2>3. n \in Z
    BY <2>1, <2>2, IntervalInduction
  <2> QED BY <2>3 DEF Z
<1>2. \E x \in T : \A y \in T : y <= x
  <2> SUFFICES ASSUME \A x \in T : \E y \in T : ~(y <= x) PROVE FALSE
    OBVIOUS
  <2> DEFINE Z == {k \in Nat : \A x \in n - k .. n : x \notin T}
  <2>1. 0 \in Z
    <3> SUFFICES ASSUME n \in T PROVE FALSE
      OBVIOUS
    <3>1. PICK y \in T : ~(y <= n)
      OBVIOUS
    <3> QED BY <3>1
  <2>2. \A k \in 0 .. n - 1 : k \in Z => k + 1 \in Z
    <3> SUFFICES ASSUME NEW k \in 0 .. n - 1, \A x \in n - k .. n : x \notin T, n - (k + 1) \in T PROVE FALSE
      <4>1. ASSUME NEW k \in 0 .. n - 1, \A x \in n - k .. n : x \notin T, n - (k + 1) \notin T
            PROVE  \A x \in n - (k + 1) .. n : x \notin T
        <5>1. \A x \in n - (k + 1) .. n : x \in n - k .. n \/ x = n - (k + 1)
          OBVIOUS
        <5> QED BY <4>1, <5>1
      <4> QED BY <4>1
    <3>1. PICK y \in T : ~(y <= n - (k + 1))
      OBVIOUS
    <3>2. y \in n - k .. n
      BY <3>1
    <3> QED BY <3>2
  <2> HIDE DEF Z
  <2>3. n \in Z
    BY <2>1, <2>2, IntervalInduction
  <2>4. n - n = 0 /\ \A x \in n - n .. n : x \notin T
    BY <2>3 DEF Z
  <2> QED BY <2>4
<1> QED BY <1>1, <1>2

\* A section stands in a file at p when all around it is blank.
Trimmed(t) == t # <<>> => t[1] # F!Blank /\ t[Len(t)] # F!Blank
Surrounded(s, t, p) ==
  /\ p \in Nat /\ p + Len(t) <= Len(s)
  /\ \A k \in 1 .. Len(t) : s[p + k] = t[k]
  /\ \A i \in 1 .. Len(s) : i <= p \/ i > p + Len(t) => s[i] = F!Blank

LEMMA TrimIs ==
  ASSUME NEW S, NEW s, s \in Seq(S), NEW t, t \in Seq(S), Trimmed(t), NEW p, Surrounded(s, t, p)
  PROVE  F!trimBlankTomlLines(s) = t
<1> DEFINE text == {i \in DOMAIN s : s[i] # F!Blank}
           m == Len(t)
<1>1. m \in Nat /\ p \in Nat /\ DOMAIN s = 1 .. Len(s) /\ Len(s) \in Nat /\ p + m <= Len(s)
  BY DEF Surrounded
<1>2. F!trimBlankTomlLines(s) = IF text = {} THEN <<>> ELSE SubSeq(s, F!Min(text), F!Max(text))
  BY DEF F!trimBlankTomlLines
<1>3. CASE m = 0
  <2>1. text = {}
    <3> SUFFICES ASSUME NEW i \in 1 .. Len(s) PROVE s[i] = F!Blank
      BY <1>1
    <3>1. i <= p \/ i > p + Len(t)
      BY <1>1, <1>3
    <3> QED BY <3>1 DEF Surrounded
  <2>2. t = <<>>
    BY <1>3
  <2> QED BY <2>1, <2>2, <1>2
<1>4. CASE m # 0
  <2>1. 1 \in 1 .. m /\ m \in 1 .. m /\ p + 1 \in 1 .. Len(s) /\ p + m \in 1 .. Len(s)
    BY <1>1, <1>4
  <2>2. s[p + 1] # F!Blank /\ s[p + m] # F!Blank
    <3>1. t[1] # F!Blank /\ t[m] # F!Blank
      BY <1>4 DEF Trimmed
    <3>2. s[p + 1] = t[1] /\ s[p + m] = t[m]
      BY <2>1 DEF Surrounded
    <3> QED BY <3>1, <3>2
  <2>3. \A i \in text : p + 1 <= i /\ i <= p + m /\ i \in Int
    <3> SUFFICES ASSUME NEW i \in 1 .. Len(s), s[i] # F!Blank PROVE p + 1 <= i /\ i <= p + m
      BY <1>1
    <3>1. ~(i <= p \/ i > p + Len(t))
      BY DEF Surrounded
    <3> QED BY <3>1, <1>1
  <2>4. p + 1 \in text /\ p + m \in text
    BY <2>1, <2>2, <1>1
  <2> HIDE DEF text, m
  <2>5. F!Min(text) = p + 1
    BY <2>3, <2>4, <1>1 DEF F!Min
  <2>6. F!Max(text) = p + m
    BY <2>3, <2>4, <1>1 DEF F!Max
  <2>7. F!trimBlankTomlLines(s) = SubSeq(s, p + 1, p + m)
    BY <1>2, <2>4, <2>5, <2>6
  <2>8. SubSeq(s, p + 1, p + m) = [k \in 1 .. m |-> s[p + k]]
    <3>1. SubSeq(s, p + 1, p + m) = [k \in 1 .. (1 + (p + m) - (p + 1)) |-> s[k + (p + 1) - 1]]
      BY <1>1, <2>1 DEF SubSeq
    <3>2. 1 + (p + m) - (p + 1) = m
      BY <1>1
    <3>3. \A k \in 1 .. m : k + (p + 1) - 1 = p + k
      BY <1>1
    <3> QED BY <3>1, <3>2, <3>3
  <2>9. t = [k \in 1 .. m |-> t[k]]
    BY DEF m
  <2>10. \A k \in 1 .. m : s[p + k] = t[k]
    BY DEF Surrounded, m
  <2> QED BY <2>7, <2>8, <2>9, <2>10
<1> QED BY <1>3, <1>4

LEMMA TrimHas ==
  ASSUME NEW S, NEW s, s \in Seq(S)
  PROVE  LET t == F!trimBlankTomlLines(s) IN
         t \in Seq(S) /\ Trimmed(t) /\ \E p : Surrounded(s, t, p)
<1> DEFINE text == {i \in DOMAIN s : s[i] # F!Blank}
           t == F!trimBlankTomlLines(s)
           n == Len(s)
<1>1. n \in Nat /\ DOMAIN s = 1 .. n
  OBVIOUS
<1>2. t = IF text = {} THEN <<>> ELSE SubSeq(s, F!Min(text), F!Max(text))
  BY DEF F!trimBlankTomlLines
<1>3. CASE text = {}
  <2>1. t = <<>> /\ t \in Seq(S) /\ Len(t) = 0
    BY <1>2, <1>3
  <2>2. \A i \in 1 .. n : s[i] = F!Blank
    BY <1>1, <1>3
  <2> HIDE DEF t, text
  <2>3. Surrounded(s, t, 0)
    BY <2>1, <2>2, <1>1 DEF Surrounded
  <2> QED BY <2>1, <2>3 DEF t, Trimmed
<1>4. CASE text # {}
  <2>1. text \subseteq 0 .. n
    BY <1>1
  <2> DEFINE a == F!Min(text)
             b == F!Max(text)
  <2>2. \A i \in text : i \in 1 .. n /\ s[i] # F!Blank
    BY <1>1
  <2>3. \A i \in 1 .. n : i \notin text => s[i] = F!Blank
    BY <1>1
  <2> HIDE DEF text, n
  <2>4. a \in text /\ \A y \in text : a <= y
    BY <2>1, <1>1, <1>4, LeastAndGreatest DEF F!Min
  <2>5. b \in text /\ \A y \in text : y <= b
    BY <2>1, <1>1, <1>4, LeastAndGreatest DEF F!Max
  <2>6. t = SubSeq(s, a, b)
    BY <1>2, <1>4
  <2> HIDE DEF a, b, t
  <2>7. a \in 1 .. n /\ b \in 1 .. n /\ a <= b /\ s[a] # F!Blank /\ s[b] # F!Blank
    BY <2>2, <2>4, <2>5
  <2>8. t \in Seq(S) /\ Len(t) = (b - a) + 1 /\ \A k \in 1 .. (b - a) + 1 : t[k] = s[(a - 1) + k]
    BY <2>6, <2>7, <1>1 DEF n
  <2>9. t[1] = s[a] /\ t[Len(t)] = s[b]
    <3>1. 1 \in 1 .. (b - a) + 1 /\ (b - a) + 1 \in 1 .. (b - a) + 1 /\ (a - 1) + 1 = a /\ (a - 1) + ((b - a) + 1) = b
      BY <2>7
    <3> QED BY <3>1, <2>8
  <2>10. \A i \in 1 .. n : i <= a - 1 \/ i > (a - 1) + Len(t) => s[i] = F!Blank
    <3> SUFFICES ASSUME NEW i \in 1 .. n, i < a \/ i > b PROVE i \notin text
      BY <2>3, <2>7, <2>8
    <3> QED BY <2>4, <2>5, <2>7
  <2>11. Surrounded(s, t, a - 1)
    BY <2>7, <2>8, <2>10, <1>1 DEF Surrounded, n
  <2>12. Trimmed(t)
    BY <2>7, <2>9 DEF Trimmed
  <2> QED BY <2>8, <2>11, <2>12 DEF t
<1> QED BY <1>3, <1>4

\* A file of lines of TOML.
File(S, lines) == TomlLines(S) /\ lines \in Seq(S)

LEMMA FileIs ==
  ASSUME NEW S, NEW lines, File(S, lines)
  PROVE  TomlFile(lines)
  BY DEF File, TomlFile, TomlLines

LEMMA ScanIs ==
  ASSUME NEW S, NEW lines, File(S, lines), NEW r \in BOOLEAN
  PROVE  IsScan(lines, r, F!classifyTomlLines(lines, r))
  BY ScanUnfolds DEF File

LEMMA ScanTomlIs ==
  ASSUME NEW S, NEW lines, File(S, lines)
  PROVE  (~F!Closed(lines)) \in BOOLEAN /\ IsScan(lines, ~F!Closed(lines), F!scanTomlLines(lines))
<1>1. (~F!Closed(lines)) \in BOOLEAN
  BY DEF F!Closed
<1> QED BY <1>1, ScanIs DEF F!scanTomlLines

\* A file closes its values when nothing is open after its last line.
LEMMA ClosedIs ==
  ASSUME NEW S, NEW lines, File(S, lines), NEW scan, IsScan(lines, FALSE, scan),
         scan = F!classifyTomlLines(lines, FALSE)
  PROVE  F!Closed(lines) <=> StateAfter(scan, Len(lines)) = F!Fresh
<1>1. Len(lines) \in Nat /\ (lines = <<>> <=> Len(lines) = 0) /\ Len(scan) = Len(lines)
  BY DEF File, IsScan
<1> QED BY <1>1 DEF F!Closed, StateAfter

\* The root ends before the first line of a table or leading to one.
LEMMA RootLengthIs ==
  ASSUME NEW lines, Len(lines) \in Nat, NEW n \in 0 .. Len(lines),
         \A i \in 1 .. n : F!tomlSectionOwner(F!scanTomlLines(lines), i) = RootTable,
         n < Len(lines) => F!tomlSectionOwner(F!scanTomlLines(lines), n + 1) # RootTable
  PROVE  F!RootLength(lines) = n
<1> DEFINE InTable(i) == F!tomlSectionOwner(F!scanTomlLines(lines), i) # RootTable
           Ends(m) == (\A i \in 1 .. m : ~InTable(i)) /\ (m < Len(lines) => InTable(m + 1))
<1>1. F!RootLength(lines) = CHOOSE m \in 0 .. Len(lines) : Ends(m)
  BY DEF F!RootLength, RootTable
<1>2. Ends(n)
  OBVIOUS
<1>3. ASSUME NEW m \in 0 .. Len(lines), Ends(m) PROVE m = n
  <2>1. CASE m < n
    <3>1. m + 1 \in 1 .. n /\ m < Len(lines)
      BY <2>1
    <3> QED BY <3>1, <1>2, <1>3
  <2>2. CASE n < m
    <3>1. n + 1 \in 1 .. m /\ n < Len(lines)
      BY <2>2
    <3> QED BY <3>1, <1>2, <1>3
  <2> QED BY <2>1, <2>2
<1> HIDE DEF Ends
<1> QED BY <1>1, <1>2, <1>3

LEMMA RootLengthHas ==
  ASSUME NEW lines, Len(lines) \in Nat
  PROVE  /\ F!RootLength(lines) \in 0 .. Len(lines)
         /\ \A i \in 1 .. F!RootLength(lines) : F!tomlSectionOwner(F!scanTomlLines(lines), i) = RootTable
         /\ F!RootLength(lines) < Len(lines) => F!tomlSectionOwner(F!scanTomlLines(lines), F!RootLength(lines) + 1) # RootTable
<1> DEFINE InTable(i) == F!tomlSectionOwner(F!scanTomlLines(lines), i) # RootTable
           T == {i \in 1 .. Len(lines) : InTable(i)}
<1>1. \E n \in 0 .. Len(lines) : (\A i \in 1 .. n : ~InTable(i)) /\ (n < Len(lines) => InTable(n + 1))
  <2>1. CASE T = {}
    <3>1. \A i \in 1 .. Len(lines) : ~InTable(i)
      BY <2>1
    <3>2. Len(lines) \in 0 .. Len(lines) /\ ~(Len(lines) < Len(lines))
      OBVIOUS
    <3> HIDE DEF InTable
    <3> QED BY <3>1, <3>2
  <2>2. CASE T # {}
    <3>1. T \subseteq 0 .. Len(lines) /\ \A i \in T : i \in 1 .. Len(lines) /\ InTable(i)
      OBVIOUS
    <3>2. \A i \in 1 .. Len(lines) : i \notin T => ~InTable(i)
      OBVIOUS
    <3> HIDE DEF T, InTable
    <3>3. PICK x \in T : \A y \in T : x <= y
      BY <3>1, <2>2, LeastAndGreatest
    <3>4. x \in 1 .. Len(lines) /\ x - 1 \in 0 .. Len(lines) /\ (x - 1) + 1 = x /\ InTable(x)
      BY <3>1, <3>3
    <3>5. \A i \in 1 .. x - 1 : ~InTable(i)
      <4> SUFFICES ASSUME NEW i \in 1 .. x - 1, InTable(i) PROVE FALSE
        OBVIOUS
      <4>1. i \in 1 .. Len(lines) /\ ~(x <= i)
        BY <3>4
      <4> QED BY <4>1, <3>2, <3>3
    <3> QED BY <3>4, <3>5
  <2> QED BY <2>1, <2>2
<1>2. PICK n \in 0 .. Len(lines) : (\A i \in 1 .. n : ~InTable(i)) /\ (n < Len(lines) => InTable(n + 1))
  BY <1>1
<1>3. F!RootLength(lines) = n
  BY <1>2, RootLengthIs
<1> QED BY <1>2, <1>3

\* Lines a + 1 to b are quiet.
QuietBetween(lines, a, b) ==
  /\ a \in Nat /\ b \in Nat /\ a <= b /\ b <= Len(lines)
  /\ \A i \in a + 1 .. b : Quiet(lines[i])

LEMMA QuietStretch ==
  ASSUME NEW lines, TomlFile(lines), NEW r \in BOOLEAN, NEW scan, IsScan(lines, r, scan),
         NEW a, NEW b, QuietBetween(lines, a, b)
  PROVE  /\ StateAfter(scan, b) = StateAfter(scan, a)
         /\ \A i \in a .. b : StateAfter(scan, i) = StateAfter(scan, a)
<1>1. b \in a .. b
  BY DEF QuietBetween
<1> QED BY <1>1, QuietLines DEF QuietBetween

LEMMA SameStretch ==
  ASSUME NEW A, TomlFile(A), NEW B, TomlFile(B), NEW r \in BOOLEAN,
         NEW sa, IsScan(A, r, sa), NEW sb, IsScan(B, r, sb),
         NEW a, NEW b, NEW m, SameLines(A, a, B, b, m), StateAfter(sa, a) = StateAfter(sb, b)
  PROVE  SameScan(sa, a, sb, b, m) /\ StateAfter(sa, a + m) = StateAfter(sb, b + m)
<1>1. m \in 0 .. m
  BY DEF SameLines
<1>2. SameScan(sa, a, sb, b, m)
  BY Shift
<1> QED BY <1>1, <1>2 DEF SameScan

-----------------------------------------------------------------------------
(* Two sections A and B standing in a file, and scanned like A \o B. *)

Standing(f, A, p, B, q) ==
  /\ p \in Nat /\ q \in Nat /\ p + Len(A) <= q /\ q + Len(B) <= Len(f)
  /\ \A k \in 1 .. Len(A) : f[p + k] = A[k]
  /\ \A k \in 1 .. Len(B) : f[q + k] = B[k]

\* ... with nothing else.
Alone(f, A, p, B, q) ==
  /\ Standing(f, A, p, B, q)
  /\ \A i \in 1 .. Len(f) : i <= p \/ (i > p + Len(A) /\ i <= q) \/ i > q + Len(B) => f[i] = F!Blank

LEMMA BlankIsQuiet == Quiet(F!Blank)
  BY DEF Quiet, F!Blank, F!Line

LEMMA LockstepAlone ==
  ASSUME NEW S, NEW f, File(S, f), NEW A, A \in Seq(S), NEW B, B \in Seq(S),
         NEW p, NEW q, Alone(f, A, p, B, q), NEW r \in BOOLEAN,
         NEW sf, IsScan(f, r, sf), NEW sc, IsScan(A \o B, r, sc)
  PROVE  /\ SameScan(sf, p, sc, 0, Len(A))
         /\ SameScan(sf, q, sc, Len(A), Len(B))
         /\ StateAfter(sf, Len(f)) = StateAfter(sc, Len(A) + Len(B))
<1> DEFINE a == Len(A)
           b == Len(B)
           C == A \o B
<1>1. /\ a \in Nat /\ b \in Nat /\ Len(C) = a + b /\ Len(f) \in Nat /\ p \in Nat /\ q \in Nat
      /\ p + a <= q /\ q + b <= Len(f)
  BY DEF File, Alone, Standing
<1>2. TomlFile(f) /\ TomlFile(C)
  <2>1. File(S, C)
    BY DEF File
  <2> QED BY <2>1, FileIs
<1>3. (\A k \in 1 .. a : C[k] = A[k]) /\ (\A k \in 1 .. b : C[a + k] = B[k])
  OBVIOUS
<1>4. SameLines(f, p, C, 0, a) /\ SameLines(f, q, C, a, b)
  <2>1. \A k \in 1 .. a : f[p + k] = C[0 + k]
    BY <1>1, <1>3 DEF Alone, Standing
  <2>2. \A k \in 1 .. b : f[q + k] = C[a + k]
    BY <1>3 DEF Alone, Standing
  <2> HIDE DEF C, a, b
  <2> QED BY <2>1, <2>2, <1>1 DEF SameLines
<1>5. \A i \in 1 .. Len(f) : i <= p \/ (i > p + a /\ i <= q) \/ i > q + b => Quiet(f[i])
  BY BlankIsQuiet DEF Alone
<1>13. IsScan(C, r, sc)
  OBVIOUS
<1> HIDE DEF a, b, C
<1>14. QuietBetween(f, 0, p) /\ QuietBetween(f, p + a, q) /\ QuietBetween(f, q + b, Len(f))
  <2>1. \A i \in 0 + 1 .. p : i \in 1 .. Len(f) /\ i <= p
    BY <1>1
  <2>2. \A i \in (p + a) + 1 .. q : i \in 1 .. Len(f) /\ i > p + a /\ i <= q
    BY <1>1
  <2>3. \A i \in (q + b) + 1 .. Len(f) : i \in 1 .. Len(f) /\ i > q + b
    BY <1>1
  <2>4. QuietBetween(f, 0, p)
    BY <1>1, <1>5, <2>1 DEF QuietBetween
  <2>5. QuietBetween(f, p + a, q)
    BY <1>1, <1>5, <2>2 DEF QuietBetween
  <2>6. QuietBetween(f, q + b, Len(f))
    BY <1>1, <1>5, <2>3 DEF QuietBetween
  <2> QED BY <2>4, <2>5, <2>6
<1>6. StateAfter(sf, p) = StateAfter(sc, 0)
  <2>1. StateAfter(sf, p) = StateAfter(sf, 0)
    BY <1>2, <1>14, QuietStretch
  <2> QED BY <2>1 DEF StateAfter
<1>7. SameScan(sf, p, sc, 0, a) /\ StateAfter(sf, p + a) = StateAfter(sc, 0 + a)
  BY <1>2, <1>4, <1>6, <1>13, SameStretch
<1>8. StateAfter(sf, q) = StateAfter(sc, a)
  <2>1. StateAfter(sf, q) = StateAfter(sf, p + a)
    BY <1>2, <1>14, QuietStretch
  <2>2. 0 + a = a
    BY <1>1
  <2> QED BY <2>1, <2>2, <1>7
<1>9. SameScan(sf, q, sc, a, b) /\ StateAfter(sf, q + b) = StateAfter(sc, a + b)
  BY <1>2, <1>4, <1>8, <1>13, SameStretch
<1>10. StateAfter(sf, Len(f)) = StateAfter(sc, a + b)
  <2>1. StateAfter(sf, Len(f)) = StateAfter(sf, q + b)
    BY <1>2, <1>14, QuietStretch
  <2> QED BY <2>1, <1>9
<1> QED BY <1>7, <1>9, <1>10 DEF a, b

\* What the merge leaves of a file.
Kept(scan, i) ==
  /\ F!tomlSectionOwner(scan, i) # F!codexManagedTable
  /\ ~F!tomlRootKey(scan, scan[i].start, F!codexManagedKeys)
KeptPlaces(lines, scan) == {i \in 1 .. Len(lines) : Kept(scan, i)}

LEMMA StripIs ==
  ASSUME NEW lines
  PROVE  F!stripCodexManaged(lines) = F!Select(lines, KeptPlaces(lines, F!scanTomlLines(lines)))
  BY DEF F!stripCodexManaged, KeptPlaces, Kept

LEMMA ScanFacts ==
  ASSUME NEW lines, NEW r \in BOOLEAN, NEW scan, IsScan(lines, r, scan), NEW i \in 1 .. Len(lines)
  PROVE  ScanLine(lines, r, scan, i)
  BY DEF IsScan

\* Nothing is open before the first line.
LEMMA BeforeAll == ASSUME NEW scan PROVE StateAfter(scan, 0) = F!Fresh
  BY DEF StateAfter

\* Where the rest of a value goes with its first line, each line that stays is
\* entered as it was.
Together(lines, scan, places, n) ==
  \A i \in 1 .. n - 1 : StateAfter(scan, i) # F!Fresh => ~scan[i + 1].isHeader /\ (i + 1 \in places <=> i \in places)

LEMMA EnteredAlike ==
  ASSUME NEW S, NEW f, File(S, f), NEW K, File(S, K), NEW r \in BOOLEAN,
         NEW sf, IsScan(f, r, sf), NEW sk, IsScan(K, r, sk), NEW places, NEW c, SelectCount(f, places, K, c),
         NEW n \in 0 .. Len(f), Together(f, sf, places, n)
  PROVE  /\ \A i \in 1 .. n : i \in places => StateAfter(sk, c[i] - 1) = StateAfter(sf, i - 1)
         /\ StateAfter(sf, n) = F!Fresh => StateAfter(sk, c[n]) = F!Fresh
<1> DEFINE Inv(i) == /\ i = 0 => c[i] = 0
                     /\ i # 0 /\ i \in places => StateAfter(sk, c[i]) = StateAfter(sf, i)
                     /\ i # 0 /\ i \notin places => StateAfter(sk, c[i]) = F!Fresh
           Same(i) == i + 1 \in places => /\ c[i + 1] = c[i] + 1
                                          /\ StateAfter(sk, c[i]) = StateAfter(sf, i)
           Z == {i \in Nat : Inv(i)}
<1>1. Len(f) \in Nat /\ Len(K) \in Nat /\ n \in Nat /\ n <= Len(f)
  BY DEF File
<1>2. Inv(0)
  BY DEF SelectCount
<1>3. ASSUME NEW i \in 0 .. n, Inv(i), StateAfter(sf, i) = F!Fresh PROVE StateAfter(sk, c[i]) = F!Fresh
  <2>1. CASE i = 0
    BY <1>3, <2>1, BeforeAll
  <2>2. CASE i # 0 /\ i \in places
    BY <1>3, <2>2
  <2>3. CASE i # 0 /\ i \notin places
    BY <1>3, <2>3
  <2> QED BY <2>1, <2>2, <2>3
<1>4. ASSUME NEW i \in 0 .. n - 1, Inv(i) PROVE Inv(i + 1) /\ Same(i)
  <2>1. i + 1 \in 1 .. Len(f) /\ i \in 0 .. n /\ i + 1 # 0 /\ (i + 1) - 1 = i
    BY <1>1
  <2>2. IF i + 1 \in places THEN c[i + 1] = c[i] + 1 /\ c[i + 1] \in 1 .. Len(K) /\ K[c[i + 1]] = f[i + 1]
        ELSE c[i + 1] = c[i]
    <3>1. IF i + 1 \in places THEN c[i + 1] = c[(i + 1) - 1] + 1 /\ c[i + 1] \in 1 .. Len(K) /\ K[c[i + 1]] = f[i + 1]
          ELSE c[i + 1] = c[(i + 1) - 1]
      BY <2>1 DEF SelectCount
    <3> QED BY <2>1, <3>1
  <2>9. c[i] \in Nat
    BY <2>1, <1>1 DEF SelectCount
  <2>3. StateAfter(sf, i) # F!Fresh => i # 0 /\ ~sf[i + 1].isHeader /\ (i + 1 \in places <=> i \in places)
    <3>1. CASE i = 0
      BY <3>1, BeforeAll
    <3>2. CASE i # 0
      <4>1. i \in 1 .. n - 1
        BY <3>2
      <4> QED BY <4>1, <3>2 DEF Together
    <3> QED BY <3>1, <3>2
  <2>4. CASE i + 1 \in places
    <3>1. StateAfter(sk, c[i]) = StateAfter(sf, i)
      <4>1. CASE StateAfter(sf, i) = F!Fresh
        BY <4>1, <1>3, <1>4, <2>1
      <4>2. CASE StateAfter(sf, i) # F!Fresh
        BY <4>2, <1>4, <2>3, <2>4
      <4> QED BY <4>1, <4>2
    <3> DEFINE k == c[i + 1]
    <3>2. k \in 1 .. Len(K) /\ k # 0 /\ k - 1 = c[i] /\ K[k] = f[i + 1]
      BY <2>2, <2>4, <2>9
    <3> HIDE DEF k
    <3>3. ScanLine(f, r, sf, i + 1) /\ ScanLine(K, r, sk, k)
      BY <2>1, <3>2, ScanFacts
    <3>4. sk[k].isHeader <=> sf[i + 1].isHeader
      BY <2>1, <3>1, <3>2, <3>3 DEF ScanLine
    <3>5. sk[k].state = sf[i + 1].state
      <4>1. sf[i + 1].state = IF sf[i + 1].isHeader THEN F!Fresh ELSE F!advanceTomlScanState(StateAfter(sf, i), f[i + 1].tokens)
        BY <3>3, <2>1 DEF ScanLine
      <4>2. sk[k].state = IF sk[k].isHeader THEN F!Fresh ELSE F!advanceTomlScanState(StateAfter(sk, k - 1), K[k].tokens)
        BY <3>3 DEF ScanLine
      <4> QED BY <4>1, <4>2, <3>1, <3>2, <3>4
    <3>6. StateAfter(sk, k) = StateAfter(sf, i + 1)
      BY <3>2, <3>5, <2>1 DEF StateAfter
    <3> QED BY <3>1, <3>6, <2>1, <2>2, <2>4 DEF k
  <2>5. CASE i + 1 \notin places
    <3>1. StateAfter(sk, c[i]) = F!Fresh
      <4>1. CASE StateAfter(sf, i) = F!Fresh
        BY <4>1, <1>3, <1>4, <2>1
      <4>2. CASE StateAfter(sf, i) # F!Fresh
        BY <4>2, <1>4, <2>3, <2>5
      <4> QED BY <4>1, <4>2
    <3> QED BY <3>1, <2>1, <2>2, <2>5
  <2> QED BY <2>4, <2>5
<1>5. \A i \in 0 .. n : Inv(i)
  <2>1. 0 \in Z
    BY <1>2
  <2>2. \A i \in 0 .. n - 1 : i \in Z => i + 1 \in Z
    <3>1. \A i \in 0 .. n - 1 : Inv(i) => Inv(i + 1)
      BY ONLY <1>4
    <3> HIDE DEF Inv
    <3> QED BY <3>1, <1>1
  <2> HIDE DEF Z
  <2>3. \A i \in 0 .. n : i \in Z
    BY <1>1, <2>1, <2>2, IntervalInduction
  <2> HIDE DEF Inv
  <2> QED BY <2>3 DEF Z
<1>6. \A i \in 0 .. n - 1 : Same(i)
  <2>1. \A i \in 0 .. n - 1 : Inv(i) => Same(i)
    BY ONLY <1>4
  <2>2. \A i \in 0 .. n - 1 : i \in 0 .. n
    BY <1>1
  <2> HIDE DEF Inv, Same
  <2> QED BY <1>5, <2>1, <2>2
<1>7. ASSUME NEW i \in 1 .. n, i \in places PROVE StateAfter(sk, c[i] - 1) = StateAfter(sf, i - 1)
  <2>1. i - 1 \in 0 .. n - 1 /\ (i - 1) + 1 = i /\ i - 1 \in 0 .. Len(f)
    BY <1>1
  <2>2. Same(i - 1)
    BY <1>6, <2>1
  <2>3. c[i - 1] \in Nat
    BY <2>1 DEF SelectCount
  <2>4. c[i] = c[i - 1] + 1 /\ StateAfter(sk, c[i - 1]) = StateAfter(sf, i - 1)
    BY <2>1, <2>2, <1>7
  <2>5. c[i] - 1 = c[i - 1]
    BY <2>3, <2>4
  <2> QED BY <2>4, <2>5
<1>8. n \in 0 .. n
  BY <1>1
<1>9. StateAfter(sf, n) = F!Fresh => StateAfter(sk, c[n]) = F!Fresh
  BY <1>3, <1>5, <1>8
<1> QED BY <1>7, <1>9

\* Where headers are recognised only with nothing open, a value stays in one place.
LEMMA ValuesStayTogether ==
  ASSUME NEW S, NEW f, File(S, f), NEW r \in BOOLEAN, ~r, NEW sf, IsScan(f, r, sf)
  PROVE  Together(f, sf, KeptPlaces(f, sf), Len(f))
<1>1. TomlFile(f) /\ Len(f) \in Nat
  BY FileIs DEF File
<1>2. ASSUME NEW i \in 1 .. Len(f), NEW h \in i + 1 .. Len(f), F!LeadsTo(sf, i, h)
      PROVE  StateAfter(sf, i - 1) = F!Fresh /\ StateAfter(sf, i) = F!Fresh
  <2>1. h \in i .. Len(f) /\ h \in 1 .. Len(f)
    BY <1>1
  <2>2. sf[h].isHeader /\ \A j \in i .. h - 1 : Quiet(f[j])
    BY <1>1, <1>2, <2>1, LeadsToIs DEF Quiet
  <2>3. ScanLine(f, r, sf, h)
    BY <2>1, ScanFacts
  <2>4. StateAfter(sf, h - 1) = F!Fresh
    BY <2>2, <2>3 DEF ScanLine
  <2>5. QuietBetween(f, i - 1, h - 1)
    <3>1. i - 1 \in Nat /\ h - 1 \in Nat /\ i - 1 <= h - 1 /\ h - 1 <= Len(f) /\ (i - 1) + 1 = i
      BY <1>1
    <3> QED BY <2>2, <3>1 DEF QuietBetween
  <2>6. \A j \in i - 1 .. h - 1 : StateAfter(sf, j) = StateAfter(sf, i - 1)
    BY <1>1, <2>1, <2>5, QuietStretch
  <2>7. i \in i - 1 .. h - 1 /\ h - 1 \in i - 1 .. h - 1
    BY <1>1
  <2> QED BY <2>4, <2>6, <2>7
<1>3. ASSUME NEW i \in 1 .. Len(f) - 1, StateAfter(sf, i) # F!Fresh
      PROVE  ~sf[i + 1].isHeader /\ (i + 1 \in KeptPlaces(f, sf) <=> i \in KeptPlaces(f, sf))
  <2>1. i \in 1 .. Len(f) /\ i + 1 \in 1 .. Len(f) /\ (i + 1) - 1 = i /\ i + 1 # 1
    BY <1>1
  <2>2. ScanLine(f, r, sf, i + 1)
    BY <2>1, ScanFacts
  <2>3. ~sf[i + 1].isHeader /\ sf[i + 1].start = sf[i].start /\ sf[i + 1].table = sf[i].table
    BY <2>1, <2>2, <1>3 DEF ScanLine
  <2>4. \A h \in i + 1 .. Len(f) : ~F!LeadsTo(sf, i, h)
    BY <1>2, <1>3, <2>1
  <2>5. \A h \in (i + 1) + 1 .. Len(f) : ~F!LeadsTo(sf, i + 1, h)
    BY <1>2, <1>3, <2>1
  <2>6. F!tomlSectionOwner(sf, i) = sf[i].table
    BY <1>1, <2>1, <2>4, Owner
  <2>7. F!tomlSectionOwner(sf, i + 1) = sf[i + 1].table
    BY <1>1, <2>1, <2>5, Owner
  <2>8. Kept(sf, i + 1) <=> Kept(sf, i)
    BY <2>3, <2>6, <2>7 DEF Kept
  <2> QED BY <2>1, <2>3, <2>8 DEF KeptPlaces
<1> QED BY <1>3 DEF Together

\* And so does a value above the first header.
LEMMA RootStaysTogether ==
  ASSUME NEW S, NEW f, File(S, f), NEW r \in BOOLEAN, NEW sf, IsScan(f, r, sf),
         NEW n \in 1 .. Len(f), ~Quiet(f[n]), \A h \in 1 .. n : ~sf[h].isHeader
  PROVE  Together(f, sf, KeptPlaces(f, sf), n)
<1>1. TomlFile(f) /\ Len(f) \in Nat
  BY FileIs DEF File
<1>2. ASSUME NEW i \in 1 .. n PROVE F!tomlSectionOwner(sf, i) = sf[i].table /\ i \in 1 .. Len(f)
  <2>1. i \in 1 .. Len(f)
    BY <1>1
  <2>2. ASSUME NEW h \in i + 1 .. Len(f), F!LeadsTo(sf, i, h) PROVE FALSE
    <3>1. h \in i .. Len(f) /\ h \in 1 .. Len(f)
      BY <1>1
    <3>2. sf[h].isHeader /\ \A j \in i .. h - 1 : Quiet(f[j])
      BY <1>1, <2>1, <2>2, <3>1, LeadsToIs DEF Quiet
    <3>3. CASE h <= n
      BY <3>1, <3>2, <3>3
    <3>4. CASE n < h
      <4>1. n \in i .. h - 1
        BY <1>1, <3>1, <3>4
      <4> QED BY <3>2, <4>1
    <3> QED BY <3>1, <3>3, <3>4
  <2> QED BY <1>1, <2>1, <2>2, Owner
<1>3. ASSUME NEW i \in 1 .. n - 1, StateAfter(sf, i) # F!Fresh
      PROVE  ~sf[i + 1].isHeader /\ (i + 1 \in KeptPlaces(f, sf) <=> i \in KeptPlaces(f, sf))
  <2>1. i \in 1 .. n /\ i + 1 \in 1 .. n /\ (i + 1) - 1 = i /\ i + 1 # 1 /\ i + 1 \in 1 .. Len(f)
    BY <1>1
  <2>2. ScanLine(f, r, sf, i + 1)
    BY <2>1, ScanFacts
  <2>3. ~sf[i + 1].isHeader
    BY <2>1
  <2>4. sf[i + 1].start = sf[i].start /\ sf[i + 1].table = sf[i].table
    BY <2>1, <2>2, <2>3, <1>3 DEF ScanLine
  <2>5. Kept(sf, i + 1) <=> Kept(sf, i)
    BY <1>2, <2>1, <2>4 DEF Kept
  <2> QED BY <1>2, <2>1, <2>3, <2>5 DEF KeptPlaces
<1> QED BY <1>3 DEF Together

LEMMA CountMonotone ==
  ASSUME NEW lines, Len(lines) \in Nat, NEW places, NEW kept, NEW c, SelectCount(lines, places, kept, c)
  PROVE  \A j \in 0 .. Len(lines) : \A i \in 0 .. j : c[i] <= c[j]
<1> DEFINE n == Len(lines)
           Inv(j) == \A i \in 0 .. j : c[i] <= c[j]
           Z == {j \in Nat : Inv(j)}
<1>1. \A i \in 0 .. n : c[i] \in Nat
  BY DEF SelectCount
<1>2. \A j \in 1 .. n : c[j] = c[j - 1] \/ c[j] = c[j - 1] + 1
  BY DEF SelectCount
<1>3. n \in Nat /\ 0 \in 0 .. n
  OBVIOUS
<1> HIDE DEF n
<1>4. Inv(0)
  <2>1. c[0] \in Nat /\ \A i \in 0 .. 0 : i = 0
    BY <1>1, <1>3
  <2> QED BY <2>1
<1>5. ASSUME NEW j \in 0 .. n - 1, Inv(j), NEW i \in 0 .. j + 1 PROVE c[i] <= c[j + 1]
  <2>1. j + 1 \in 1 .. n /\ (j + 1) - 1 = j /\ j \in 0 .. n /\ j + 1 \in 0 .. n /\ i \in 0 .. n
    BY <1>3
  <2>2. c[j] \in Nat /\ c[j + 1] \in Nat /\ c[i] \in Nat
    BY <1>1, <2>1
  <2>3. c[j] <= c[j + 1]
    BY <1>2, <2>1, <2>2
  <2>4. CASE i = j + 1
    BY <2>2, <2>4
  <2>5. CASE i \in 0 .. j
    BY <1>5, <2>2, <2>3, <2>5
  <2> QED BY <2>1, <2>4, <2>5
<1>6. \A j \in 0 .. n - 1 : Inv(j) => Inv(j + 1)
  BY ONLY <1>5
<1>7. 0 \in Z /\ \A j \in 0 .. n - 1 : j \in Z => j + 1 \in Z
  <2> HIDE DEF Inv
  <2> QED BY <1>3, <1>4, <1>6
<1> HIDE DEF Z, Inv
<1>8. \A j \in 0 .. n : j \in Z
  BY <1>3, <1>7, IntervalInduction
<1> QED BY <1>8 DEF Z, Inv, n

\* No managed table and no managed key at the root is left.
Clean(lines, scan) ==
  /\ \A k \in 1 .. Len(lines) : scan[k].isHeader => lines[k].name # F!codexManagedTable
  /\ \A k \in 1 .. Len(lines) :
       lines[k].shape = "key" /\ lines[k].name \in F!codexManagedKeys /\ scan[k].start = k => scan[k].table # RootTable

LEMMA StripCleans ==
  ASSUME NEW S, NEW f, File(S, f), NEW r \in BOOLEAN, NEW sf, IsScan(f, r, sf),
         NEW K, K = F!Select(f, KeptPlaces(f, sf)), NEW sk, IsScan(K, r, sk)
  PROVE  /\ File(S, K)
         /\ Clean(K, sk)
         /\ ~r /\ StateAfter(sf, Len(f)) = F!Fresh => StateAfter(sk, Len(K)) = F!Fresh
<1> DEFINE n == Len(f)
           places == KeptPlaces(f, sf)
<1>1. File(S, K) /\ TomlFile(K) /\ TomlFile(f) /\ Len(K) \in Nat /\ n \in Nat
  <2>1. File(S, K)
    BY SelectCounts DEF File
  <2> QED BY <2>1, FileIs DEF File
<1>2. PICK c : SelectCount(f, places, K, c)
  BY SelectCounts DEF File
<1>3. \A j \in places : j \in 1 .. n /\ j \in 0 .. n /\ c[j] \in 1 .. Len(K) /\ K[c[j]] = f[j]
  <2>1. \A j \in places : j \in 1 .. n /\ j \in 0 .. n
    BY <1>1 DEF KeptPlaces
  <2> QED BY <2>1, <1>2 DEF SelectCount
<1>4. \A k \in 1 .. Len(K) : \E j \in places : c[j] = k
  BY <1>2 DEF SelectCount
<1>5. \A j \in 1 .. n : j \in places <=> Kept(sf, j)
  BY DEF KeptPlaces
<1> HIDE DEF places, n
<1>6. ~r => \A j \in places : StateAfter(sk, c[j] - 1) = StateAfter(sf, j - 1)
  <2> SUFFICES ASSUME ~r PROVE \A j \in places : StateAfter(sk, c[j] - 1) = StateAfter(sf, j - 1)
    OBVIOUS
  <2>1. Together(f, sf, places, n)
    BY ValuesStayTogether DEF places, n
  <2>2. n \in 0 .. Len(f)
    BY <1>1 DEF n
  <2>3. \A i \in 1 .. n : i \in places => StateAfter(sk, c[i] - 1) = StateAfter(sf, i - 1)
    BY <1>1, <1>2, <2>1, <2>2, EnteredAlike
  <2> QED BY <1>3, <2>3
<1>7. ~r /\ StateAfter(sf, Len(f)) = F!Fresh => StateAfter(sk, Len(K)) = F!Fresh
  <2> SUFFICES ASSUME ~r, StateAfter(sf, Len(f)) = F!Fresh PROVE StateAfter(sk, Len(K)) = F!Fresh
    OBVIOUS
  <2>1. Together(f, sf, places, n)
    BY ValuesStayTogether DEF places, n
  <2>2. n \in 0 .. Len(f) /\ n = Len(f)
    BY <1>1 DEF n
  <2>3. StateAfter(sk, c[n]) = F!Fresh
    BY <1>1, <1>2, <2>1, <2>2, EnteredAlike
  <2>4. c[n] = Len(K)
    BY <1>2, <2>2 DEF SelectCount
  <2> QED BY <2>3, <2>4
<1>8. ASSUME NEW j \in places PROVE sk[c[j]].isHeader <=> sf[j].isHeader
  <2>1. ScanLine(f, r, sf, j) /\ ScanLine(K, r, sk, c[j])
    BY <1>3, ScanFacts DEF n
  <2>2. /\ sf[j].isHeader <=> f[j].shape = "header" /\ (StateAfter(sf, j - 1) = F!Fresh \/ r)
        /\ sk[c[j]].isHeader <=> K[c[j]].shape = "header" /\ (StateAfter(sk, c[j] - 1) = F!Fresh \/ r)
    BY <2>1 DEF ScanLine
  <2> QED BY <2>2, <1>3, <1>6
<1>9. ASSUME NEW j \in 1 .. n, ~Quiet(f[j])
      PROVE  /\ F!tomlSectionOwner(sf, j) = sf[j].table
             /\ sf[j].line = f[j]
             /\ sf[j].isHeader => f[j].shape = "header" /\ sf[j].table = f[j].name /\ sf[j].start = j
  <2>1. ScanLine(f, r, sf, j) /\ j \in 1 .. Len(f)
    BY ScanFacts DEF n
  <2>2. F!tomlSectionOwner(sf, j) = sf[j].table
    BY <1>1, <1>9, <2>1, Owner
  <2> QED BY <2>1, <2>2 DEF ScanLine
<1>10. ASSUME NEW j \in places, sf[j].isHeader PROVE f[j].name # F!codexManagedTable
  <2>1. ScanLine(f, r, sf, j) /\ Kept(sf, j)
    BY <1>3, <1>5, ScanFacts DEF n
  <2>2. ~Quiet(f[j])
    BY <1>10, <2>1 DEF ScanLine, Quiet
  <2> QED BY <1>3, <1>9, <1>10, <2>1, <2>2 DEF Kept
<1>11. ASSUME NEW k \in 1 .. Len(K), sk[k].isHeader PROVE K[k].name # F!codexManagedTable
  BY <1>3, <1>4, <1>8, <1>10, <1>11
<1>12. ASSUME NEW k \in 1 .. Len(K), K[k].shape = "key", K[k].name \in F!codexManagedKeys, sk[k].start = k,
              sk[k].table = RootTable
       PROVE  FALSE
  <2>1. PICK j \in places : c[j] = k
    BY <1>4
  <2>2. /\ j \in 1 .. n /\ j \in 1 .. Len(f) /\ f[j] = K[k] /\ ~Quiet(f[j]) /\ f[j].shape # "header"
        /\ ScanLine(f, r, sf, j) /\ ScanLine(K, r, sk, k) /\ Kept(sf, j)
    BY <1>3, <1>5, <1>12, <2>1, ScanFacts DEF n, Quiet
  <2>3. F!tomlSectionOwner(sf, j) = sf[j].table /\ sf[j].line = f[j] /\ sf[j].table # F!codexManagedTable
    BY <1>9, <2>2 DEF Kept
  <2>4. \A h \in 1 .. k : ~sk[h].isHeader
    BY <1>1, <1>12, TableOf
  <2>5. CASE \E h \in 1 .. j : sf[h].isHeader /\ sf[j].table = f[h].name
    <3>1. PICK h \in 1 .. j : sf[h].isHeader /\ sf[j].table = f[h].name
      BY <2>5
    <3>2. h \in 1 .. n /\ h \in 1 .. Len(f) /\ h \in 0 .. j /\ j \in 0 .. Len(f)
      BY <1>1, <2>2 DEF n
    <3>3. ScanLine(f, r, sf, h)
      BY <3>2, ScanFacts
    <3>4. f[h].shape = "header" /\ ~Quiet(f[h])
      BY <3>1, <3>3 DEF ScanLine, Quiet
    <3>5. Kept(sf, h)
      <4>1. F!tomlSectionOwner(sf, h) # F!codexManagedTable /\ sf[h].start = h /\ sf[h].line.shape # "key"
        BY <1>9, <2>3, <3>1, <3>2, <3>4
      <4> QED BY <4>1 DEF Kept, F!tomlRootKey
    <3>6. h \in places
      BY <1>5, <3>2, <3>5
    <3>7. sk[c[h]].isHeader /\ c[h] \in 1 .. Len(K)
      BY <1>3, <1>8, <3>1, <3>6
    <3>8. c[h] <= c[j]
      <4>1. Len(f) \in Nat
        BY <1>1 DEF n
      <4> QED BY <1>2, <3>2, <4>1, CountMonotone
    <3>9. c[h] \in 1 .. k
      BY <2>1, <3>7, <3>8
    <3> QED BY <2>4, <3>7, <3>9
  <2>6. CASE sf[j].table = RootTable /\ \A h \in 1 .. j : ~sf[h].isHeader
    <3>1. Together(f, sf, places, j)
      BY <2>2, <2>6, RootStaysTogether DEF places
    <3>2. j \in 0 .. Len(f) /\ j \in 1 .. j
      BY <1>1, <2>2 DEF n
    <3>3. StateAfter(sk, k - 1) = StateAfter(sf, j - 1)
      BY <1>1, <1>2, <2>1, <3>1, <3>2, EnteredAlike
    <3>4. StateAfter(sk, k - 1) = F!Fresh
      <4> SUFFICES ASSUME StateAfter(sk, k - 1) # F!Fresh PROVE FALSE
        OBVIOUS
      <4>1. k # 1
        <5>1. k = 1 => k - 1 = 0
          OBVIOUS
        <5> QED BY <5>1, BeforeAll
      <4>2. ~sk[k].isHeader /\ sk[k].start = sk[k - 1].start
        BY <2>2, <4>1 DEF ScanLine
      <4>3. k - 1 \in 1 .. Len(K)
        BY <4>1
      <4>4. sk[k - 1].start \in 1 .. k - 1
        BY <1>1, <4>3, Starts
      <4> QED BY <1>12, <4>2, <4>4
    <3>5. sf[j].start = j /\ ~sf[j].isHeader
      BY <2>2, <3>3, <3>4 DEF ScanLine
    <3>6. F!tomlRootKey(sf, j, F!codexManagedKeys)
      BY <1>12, <2>2, <2>3, <2>6, <3>5 DEF F!tomlRootKey, RootTable
    <3> QED BY <2>2, <3>5, <3>6 DEF Kept
  <2> QED BY <1>1, <2>2, <2>5, <2>6, TableOf
<1>13. Clean(K, sk)
  BY <1>11, <1>12 DEF Clean
<1> QED BY <1>1, <1>7, <1>13

LEMMA ClosedBy ==
  ASSUME NEW S, NEW lines, File(S, lines), NEW r \in BOOLEAN, ~r
  PROVE  F!Closed(lines) <=> StateAfter(F!classifyTomlLines(lines, r), Len(lines)) = F!Fresh
<1>1. r = FALSE
  OBVIOUS
<1> DEFINE scan == F!classifyTomlLines(lines, FALSE)
<1>2. IsScan(lines, FALSE, scan)
  BY ScanIs
<1>3. F!Closed(lines) <=> StateAfter(scan, Len(lines)) = F!Fresh
  BY <1>2, ClosedIs
<1> QED BY <1>1, <1>3

LEMMA AloneCloses ==
  ASSUME NEW S, NEW f, File(S, f), NEW A, A \in Seq(S), NEW B, B \in Seq(S),
         NEW p, NEW q, Alone(f, A, p, B, q)
  PROVE  File(S, A \o B) /\ (F!Closed(f) <=> F!Closed(A \o B))
<1> DEFINE C == A \o B
<1>1. File(S, C) /\ Len(C) = Len(A) + Len(B)
  BY DEF File
<1>2. PICK r \in BOOLEAN : ~r
  OBVIOUS
<1> DEFINE sf == F!classifyTomlLines(f, r)
           sc == F!classifyTomlLines(C, r)
<1>3. IsScan(f, r, sf) /\ IsScan(C, r, sc)
  BY <1>1, ScanIs
<1>4. F!Closed(f) <=> StateAfter(sf, Len(f)) = F!Fresh
  BY <1>2, ClosedBy
<1>5. F!Closed(C) <=> StateAfter(sc, Len(C)) = F!Fresh
  BY <1>1, <1>2, ClosedBy
<1> HIDE DEF sf, sc
<1>6. StateAfter(sf, Len(f)) = StateAfter(sc, Len(A) + Len(B))
  BY <1>3, LockstepAlone
<1> QED BY <1>1, <1>4, <1>5, <1>6

\* Quiet lines lead to a header below that is not of the managed table.
QuietFrom(lines, i, h) == \A j \in i .. h - 1 : Quiet(lines[j])

LEMMA LeadsOwner ==
  ASSUME NEW f, TomlFile(f), NEW r \in BOOLEAN, NEW sf, IsScan(f, r, sf),
         NEW i \in 1 .. Len(f), NEW h \in i .. Len(f), sf[h].isHeader, f[h].name # F!codexManagedTable,
         QuietFrom(f, i, h)
  PROVE  F!tomlSectionOwner(sf, i) = f[h].name /\ f[h].name # RootTable
<1>1. h \in 1 .. Len(f) /\ Len(f) \in Nat
  BY DEF TomlFile
<1>2. ScanLine(f, r, sf, h) /\ IsTomlLine(f[h])
  BY <1>1, ScanFacts DEF TomlFile
<1>3. f[h].shape = "header" /\ sf[h].table = f[h].name
  BY <1>2 DEF ScanLine
<1>4. sf[h].table # RootTable /\ sf[h].table # F!codexManagedTable
  BY <1>2, <1>3 DEF IsTomlLine
<1>5. CASE h = i
  <2>1. ~Quiet(f[i])
    BY <1>3, <1>5 DEF Quiet
  <2>2. F!tomlSectionOwner(sf, i) = sf[i].table
    BY <2>1, Owner
  <2> QED BY <1>3, <1>4, <1>5, <2>2
<1>6. CASE h # i
  <2>1. h \in i + 1 .. Len(f)
    BY <1>1, <1>6
  <2>2. F!LeadsTo(sf, i, h)
    BY <1>4, LeadsToIs DEF Quiet, QuietFrom
  <2>3. F!tomlSectionOwner(sf, i) = sf[h].table
    BY <2>1, <2>2, Owner
  <2> QED BY <1>3, <1>4, <2>3
<1> QED BY <1>5, <1>6

LEMMA LinesOfASubSeq ==
  ASSUME NEW S, NEW s, s \in Seq(S), NEW n \in 0 .. Len(s)
  PROVE  /\ SubSeq(s, 1, n) \in Seq(S) /\ Len(SubSeq(s, 1, n)) = n
         /\ \A i \in 1 .. n : SubSeq(s, 1, n)[i] = s[i]
         /\ SubSeq(s, n + 1, Len(s)) \in Seq(S) /\ Len(SubSeq(s, n + 1, Len(s))) = Len(s) - n
         /\ \A i \in 1 .. Len(s) - n : SubSeq(s, n + 1, Len(s))[i] = s[n + i]
<1>1. Len(s) \in Nat /\ n \in Nat /\ n <= Len(s)
  OBVIOUS
<1>2. SubSeq(s, 1, n) = [i \in 1 .. n |-> s[i]]
  <2>1. SubSeq(s, 1, n) = [i \in 1 .. (1 + n - 1) |-> s[i + 1 - 1]]
    BY DEF SubSeq
  <2>2. 1 + n - 1 = n /\ \A i \in 1 .. n : i + 1 - 1 = i
    BY <1>1
  <2> QED BY <2>1, <2>2
<1>3. SubSeq(s, n + 1, Len(s)) = [i \in 1 .. Len(s) - n |-> s[n + i]]
  <2>1. SubSeq(s, n + 1, Len(s)) = [i \in 1 .. (1 + Len(s) - (n + 1)) |-> s[i + (n + 1) - 1]]
    BY DEF SubSeq
  <2>2. 1 + Len(s) - (n + 1) = Len(s) - n /\ \A i \in 1 .. Len(s) - n : i + (n + 1) - 1 = n + i
    BY <1>1
  <2> QED BY <2>1, <2>2
<1>4. \A i \in 1 .. n : s[i] \in S
  BY <1>1
<1>5. \A i \in 1 .. Len(s) - n : s[n + i] \in S
  BY <1>1
<1>6. [i \in 1 .. n |-> s[i]] \in Seq(S) /\ Len([i \in 1 .. n |-> s[i]]) = n
  BY <1>1, <1>4
<1>7. [i \in 1 .. Len(s) - n |-> s[n + i]] \in Seq(S) /\ Len([i \in 1 .. Len(s) - n |-> s[n + i]]) = Len(s) - n
  BY <1>1, <1>5
<1> QED BY <1>2, <1>3, <1>6, <1>7

\* A clean file is its root, without headers, and its tables, which begin with
\* the lines that lead to a header.
LEMMA CleanSplits ==
  ASSUME NEW S, NEW K, File(S, K), NEW r \in BOOLEAN, NEW sk, sk = F!scanTomlLines(K), IsScan(K, r, sk), Clean(K, sk),
         NEW n, n = F!RootLength(K)
  PROVE  /\ n \in 0 .. Len(K)
         /\ \A i \in 1 .. n : ~sk[i].isHeader /\ sk[i].table = RootTable
         /\ n < Len(K) => \E h \in n + 1 .. Len(K) : sk[h].isHeader /\ \A j \in n + 1 .. h - 1 : Quiet(K[j])
         /\ n < Len(K) /\ n # 0 => ~Quiet(K[n])
<1>1. TomlFile(K) /\ Len(K) \in Nat
  BY FileIs DEF File
<1>2. /\ n \in 0 .. Len(K)
      /\ \A i \in 1 .. n : F!tomlSectionOwner(sk, i) = RootTable
      /\ n < Len(K) => F!tomlSectionOwner(sk, n + 1) # RootTable
  BY <1>1, RootLengthHas
<1>3. ASSUME NEW i \in 1 .. n PROVE ~sk[i].isHeader
  <2> SUFFICES ASSUME sk[i].isHeader PROVE FALSE
    OBVIOUS
  <2>1. i \in 1 .. Len(K)
    BY <1>1, <1>2
  <2>2. i \in i .. Len(K) /\ QuietFrom(K, i, i)
    BY <2>1 DEF QuietFrom
  <2>3. K[i].name # F!codexManagedTable
    BY <2>1 DEF Clean
  <2>4. F!tomlSectionOwner(sk, i) # RootTable
    BY <1>1, <2>1, <2>2, <2>3, LeadsOwner
  <2> QED BY <1>2, <2>4
<1>4. ASSUME NEW i \in 1 .. n PROVE sk[i].table = RootTable
  <2>1. i \in 1 .. Len(K) /\ \A h \in 1 .. i : h \in 1 .. n
    BY <1>1, <1>2
  <2> QED BY <1>1, <1>3, <2>1, TableOf
<1>5. ASSUME n < Len(K)
      PROVE  \E h \in n + 1 .. Len(K) : sk[h].isHeader /\ \A j \in n + 1 .. h - 1 : Quiet(K[j])
  <2>1. n + 1 \in 1 .. Len(K) /\ n + 1 \in n + 1 .. Len(K)
    BY <1>1, <1>2, <1>5
  <2>2. CASE \E h \in (n + 1) + 1 .. Len(K) : F!LeadsTo(sk, n + 1, h)
    <3>1. PICK h \in (n + 1) + 1 .. Len(K) : F!LeadsTo(sk, n + 1, h)
      BY <2>2
    <3>2. h \in n + 1 .. Len(K)
      BY <1>1, <2>1
    <3>3. sk[h].isHeader /\ \A j \in n + 1 .. h - 1 : Quiet(K[j])
      BY <1>1, <2>1, <3>1, <3>2, LeadsToIs DEF Quiet
    <3> QED BY <3>2, <3>3
  <2>3. CASE \A h \in (n + 1) + 1 .. Len(K) : ~F!LeadsTo(sk, n + 1, h)
    <3>1. F!tomlSectionOwner(sk, n + 1) = sk[n + 1].table
      BY <1>1, <2>1, <2>3, Owner
    <3>2. sk[n + 1].table # RootTable
      BY <1>2, <1>5, <3>1
    <3>3. PICK g \in 1 .. n + 1 : sk[g].isHeader
      BY <1>1, <2>1, <3>2, TableOf
    <3>4. g = n + 1
      BY <1>2, <1>3, <3>3
    <3>5. \A j \in n + 1 .. g - 1 : Quiet(K[j])
      BY <3>4, <1>2
    <3> QED BY <2>1, <3>3, <3>4, <3>5
  <2> QED BY <2>2, <2>3
<1>6. ASSUME n < Len(K), n # 0, Quiet(K[n]) PROVE FALSE
  <2>1. PICK h \in n + 1 .. Len(K) : sk[h].isHeader /\ \A j \in n + 1 .. h - 1 : Quiet(K[j])
    BY <1>5, <1>6
  <2>2. n \in 1 .. n /\ n \in 1 .. Len(K) /\ h \in n .. Len(K) /\ h \in 1 .. Len(K)
    BY <1>1, <1>2, <1>6
  <2>3. QuietFrom(K, n, h)
    <3>1. \A j \in n .. h - 1 : j = n \/ j \in n + 1 .. h - 1
      BY <1>2, <2>1
    <3> QED BY <1>6, <2>1, <3>1 DEF QuietFrom
  <2>4. K[h].name # F!codexManagedTable
    BY <2>1, <2>2 DEF Clean
  <2>5. F!tomlSectionOwner(sk, n) # RootTable
    BY <1>1, <2>1, <2>2, <2>3, <2>4, LeadsOwner
  <2> QED BY <1>2, <2>2, <2>5
<1> QED BY <1>2, <1>3, <1>4, <1>5, <1>6

\* What is kept of an employee's file: the statements A of its root and the
\* tables B, as the scan of the two of them tells.
Parts(A, B, sc) ==
  /\ Trimmed(A) /\ Trimmed(B)
  /\ \A k \in 1 .. Len(A) :
       /\ ~sc[k].isHeader
       /\ A[k].shape = "key" /\ A[k].name \in F!codexManagedKeys => StateAfter(sc, k - 1) # F!Fresh
  /\ Len(B) # 0 => \E h \in 1 .. Len(B) : sc[Len(A) + h].isHeader /\ \A j \in 1 .. h - 1 : Quiet(B[j])
  /\ \A k \in 1 .. Len(B) : sc[Len(A) + k].isHeader => B[k].name # F!codexManagedTable
  /\ Len(A) # 0 /\ Len(B) # 0 => ~Quiet(A[Len(A)])

\* The trimmed parts of a file cut in two stand alone in it.
LEMMA TrimmedParts ==
  ASSUME NEW S, NEW K, File(S, K), NEW n \in 0 .. Len(K),
         NEW A, A = F!trimBlankTomlLines(SubSeq(K, 1, n)),
         NEW B, B = F!trimBlankTomlLines(SubSeq(K, n + 1, Len(K)))
  PROVE  /\ A \in Seq(S) /\ Trimmed(A) /\ B \in Seq(S) /\ Trimmed(B)
         /\ \E p, q : Alone(K, A, p, B, q) /\ p + Len(A) <= n /\ n <= q
<1> DEFINE a == Len(A)
           b == Len(B)
           N == Len(K)
<1>1. n \in 0 .. N
  OBVIOUS
<1> DEFINE KR == SubSeq(K, 1, n)
           KT == SubSeq(K, n + 1, Len(K))
<1>2. /\ KR \in Seq(S) /\ Len(KR) = n /\ \A i \in 1 .. n : KR[i] = K[i]
      /\ KT \in Seq(S) /\ Len(KT) = N - n /\ \A i \in 1 .. N - n : KT[i] = K[n + i]
  BY <1>1, LinesOfASubSeq DEF File
<1> HIDE DEF KR, KT
<1>3. A \in Seq(S) /\ Trimmed(A) /\ \E p : Surrounded(KR, A, p)
  BY <1>2, TrimHas DEF KR
<1>4. B \in Seq(S) /\ Trimmed(B) /\ \E p : Surrounded(KT, B, p)
  BY <1>2, TrimHas DEF KT
<1>5. PICK p : Surrounded(KR, A, p)
  BY <1>3
<1>6. PICK u : Surrounded(KT, B, u)
  BY <1>4
<1> DEFINE q == n + u
<1>7. N \in Nat /\ n \in Nat /\ n <= N /\ a \in Nat /\ b \in Nat /\ p \in Nat /\ u \in Nat /\ p + a <= n /\ u + b <= N - n
  BY <1>1, <1>2, <1>3, <1>4, <1>5, <1>6 DEF Surrounded, File
<1>16. /\ \A k \in 1 .. a : KR[p + k] = A[k]
       /\ \A k \in 1 .. b : KT[u + k] = B[k]
       /\ \A i \in 1 .. n : i <= p \/ i > p + a => KR[i] = F!Blank
       /\ \A i \in 1 .. N - n : i <= u \/ i > u + b => KT[i] = F!Blank
  BY <1>2, <1>5, <1>6 DEF Surrounded
<1> HIDE DEF N, a, b
<1>8. \A k \in 1 .. a : p + k \in 1 .. n /\ p + k \in 1 .. N /\ K[p + k] = A[k]
  BY <1>2, <1>7, <1>16
<1>9. \A k \in 1 .. b : u + k \in 1 .. N - n /\ q + k \in n + 1 .. N /\ K[q + k] = B[k]
  <2> SUFFICES ASSUME NEW k \in 1 .. b PROVE u + k \in 1 .. N - n /\ q + k \in n + 1 .. N /\ K[q + k] = B[k]
    OBVIOUS
  <2>1. u + k \in 1 .. N - n /\ q + k \in n + 1 .. N /\ q + k = n + (u + k)
    BY <1>7
  <2>2. KT[u + k] = B[k] /\ KT[u + k] = K[n + (u + k)]
    BY <1>2, <1>16, <2>1
  <2> QED BY <2>1, <2>2
<1>10. \A i \in 1 .. N : i <= p \/ (i > p + a /\ i <= q) \/ i > q + b => K[i] = F!Blank
  <2> SUFFICES ASSUME NEW i \in 1 .. N, i <= p \/ (i > p + a /\ i <= q) \/ i > q + b PROVE K[i] = F!Blank
    OBVIOUS
  <2>1. CASE i <= n
    <3>1. i \in 1 .. n /\ (i <= p \/ i > p + a)
      BY <1>7, <2>1
    <3> QED BY <3>1, <1>2, <1>16
  <2>2. CASE i > n
    <3>1. i - n \in 1 .. N - n /\ n + (i - n) = i /\ (i - n <= u \/ i - n > u + b)
      BY <1>7, <2>2
    <3> QED BY <3>1, <1>2, <1>16
  <2> QED BY <1>7, <2>1, <2>2
<1>11. q \in Nat /\ p + a <= q /\ q + b <= N /\ n <= q
  BY <1>7
<1>12. Alone(K, A, p, B, q)
  BY <1>7, <1>8, <1>9, <1>10, <1>11 DEF Alone, Standing, N, a, b
<1>13. p + Len(A) <= n
  BY <1>7 DEF a
<1> HIDE DEF q
<1> QED BY <1>3, <1>4, <1>11, <1>12, <1>13

LEMMA PartsOf ==
  ASSUME NEW S, NEW K, File(S, K), NEW r \in BOOLEAN, NEW sk, sk = F!scanTomlLines(K), IsScan(K, r, sk), Clean(K, sk),
         NEW n, n = F!RootLength(K),
         NEW A, A = F!trimBlankTomlLines(SubSeq(K, 1, n)),
         NEW B, B = F!trimBlankTomlLines(SubSeq(K, n + 1, Len(K))),
         NEW sc, IsScan(A \o B, r, sc)
  PROVE  A \in Seq(S) /\ B \in Seq(S) /\ Parts(A, B, sc) /\ \E p, q : Alone(K, A, p, B, q)
<1> DEFINE a == Len(A)
           b == Len(B)
           N == Len(K)
<1>1. /\ n \in 0 .. N
      /\ \A i \in 1 .. n : ~sk[i].isHeader /\ sk[i].table = RootTable
      /\ n < N => \E h \in n + 1 .. N : sk[h].isHeader /\ \A j \in n + 1 .. h - 1 : Quiet(K[j])
      /\ n < N /\ n # 0 => ~Quiet(K[n])
  BY CleanSplits
<1>3. A \in Seq(S) /\ Trimmed(A) /\ B \in Seq(S) /\ Trimmed(B)
  BY <1>1, TrimmedParts
<1>12. PICK p, q : Alone(K, A, p, B, q) /\ p + Len(A) <= n /\ n <= q
  BY <1>1, TrimmedParts
<1>7. /\ N \in Nat /\ n \in Nat /\ n <= N /\ a \in Nat /\ b \in Nat /\ p \in Nat /\ q \in Nat
      /\ p + a <= n /\ n <= q /\ p + a <= q /\ q + b <= N
      /\ \A k \in 1 .. a : K[p + k] = A[k]
      /\ \A k \in 1 .. b : K[q + k] = B[k]
  BY <1>1, <1>3, <1>12 DEF Alone, Standing, File
<1>10. \A i \in 1 .. N : i <= p \/ (i > p + a /\ i <= q) \/ i > q + b => K[i] = F!Blank
  BY <1>12 DEF Alone
<1> HIDE DEF N, a, b
<1>8. \A k \in 1 .. a : p + k \in 1 .. n /\ p + k \in 1 .. N /\ K[p + k] = A[k]
  BY <1>7
<1>9. \A k \in 1 .. b : q + k \in n + 1 .. N /\ K[q + k] = B[k]
  BY <1>7
<1>13. SameScan(sk, p, sc, 0, a) /\ SameScan(sk, q, sc, a, b)
  BY <1>3, <1>12, LockstepAlone DEF a, b
<1>14. ASSUME NEW k \in 1 .. a
       PROVE  /\ ~sc[k].isHeader
              /\ A[k].shape = "key" /\ A[k].name \in F!codexManagedKeys => StateAfter(sc, k - 1) # F!Fresh
  <2>1. 0 + k = k /\ k - 1 \in 0 .. a /\ 0 + (k - 1) = k - 1 /\ (p + k) - 1 = p + (k - 1)
    BY <1>7
  <2>2. sk[p + k].isHeader <=> sc[0 + k].isHeader
    BY <1>13 DEF SameScan
  <2>3. StateAfter(sk, p + (k - 1)) = StateAfter(sc, 0 + (k - 1))
    BY <1>13, <2>1 DEF SameScan
  <2>4. ~sk[p + k].isHeader /\ sk[p + k].table = RootTable /\ K[p + k] = A[k] /\ p + k \in 1 .. Len(K)
    BY <1>1, <1>8 DEF N
  <2>5. StateAfter(sc, k - 1) = F!Fresh => sk[p + k].start = p + k
    <3>1. ScanLine(K, r, sk, p + k)
      BY <2>4, ScanFacts
    <3>2. StateAfter(sk, (p + k) - 1) = F!Fresh => sk[p + k].start = p + k
      BY <3>1 DEF ScanLine
    <3> QED BY <3>2, <2>1, <2>3
  <2> QED BY <2>1, <2>2, <2>4, <2>5 DEF Clean
<1>15. b # 0 => n < N
  BY <1>7
<1>17. ASSUME b # 0 PROVE \E h \in 1 .. b : sc[a + h].isHeader /\ \A j \in 1 .. h - 1 : Quiet(B[j])
  <2>1. PICK g \in n + 1 .. N : sk[g].isHeader /\ \A j \in n + 1 .. g - 1 : Quiet(K[j])
    BY <1>1, <1>15, <1>17
  <2>2. g \in 1 .. Len(K) /\ g \in 1 .. N
    BY <1>7 DEF N
  <2>3. K[g] # F!Blank
    <3>1. K[g].shape = "header"
      BY <2>1, <2>2, ScanFacts DEF ScanLine
    <3>2. F!Blank.shape = "blank"
      BY DEF F!Blank, F!Line
    <3> QED BY ONLY <3>1, <3>2
  <2>4. g > q /\ g <= q + b
    <3>1. ~(g <= p \/ (g > p + a /\ g <= q) \/ g > q + b)
      BY <1>10, <2>2, <2>3
    <3> QED BY <3>1, <1>7
  <2> DEFINE h == g - q
  <2>5. h \in 1 .. b /\ q + h = g
    BY <1>7, <2>4
  <2>6. \A j \in 1 .. h - 1 : j \in 1 .. b /\ q + j \in n + 1 .. g - 1
    BY <1>7, <2>4
  <2> HIDE DEF h
  <2>7. sc[a + h].isHeader
    BY <1>13, <2>1, <2>5 DEF SameScan
  <2>8. \A j \in 1 .. h - 1 : Quiet(B[j])
    BY <1>9, <2>1, <2>6
  <2> QED BY <2>5, <2>7, <2>8
<1>18. ASSUME NEW k \in 1 .. b, sc[a + k].isHeader PROVE B[k].name # F!codexManagedTable
  <2>1. sk[q + k].isHeader
    BY <1>13, <1>18 DEF SameScan
  <2>2. q + k \in 1 .. Len(K) /\ K[q + k] = B[k]
    BY <1>7, <1>9 DEF N
  <2> QED BY <2>1, <2>2 DEF Clean
<1>19. ASSUME a # 0, b # 0 PROVE ~Quiet(A[a])
  <2>1. n < N /\ n # 0 /\ n \in 1 .. N
    BY <1>7, <1>15, <1>19
  <2>2. ~Quiet(K[n])
    BY <1>1, <2>1
  <2>3. ~(n > p + a /\ n <= q)
    BY <1>10, <2>1, <2>2, BlankIsQuiet
  <2>4. n = p + a /\ a \in 1 .. a
    BY <1>7, <1>19, <2>3
  <2>5. K[p + a] = A[a]
    BY <1>8, <2>4
  <2> QED BY <2>2, <2>4, <2>5
<1>20. Parts(A, B, sc)
  BY <1>3, <1>14, <1>17, <1>18, <1>19 DEF Parts, a, b
<1> QED BY <1>3, <1>12, <1>20

\* Whatever blank lines stand around them, the merge finds the parts again.
LEMMA SplitIs ==
  ASSUME NEW S, NEW K, File(S, K), NEW A, A \in Seq(S), NEW B, B \in Seq(S), NEW p, NEW q, Alone(K, A, p, B, q),
         NEW r \in BOOLEAN, NEW sk, sk = F!scanTomlLines(K), IsScan(K, r, sk),
         NEW sc, IsScan(A \o B, r, sc), Parts(A, B, sc)
  PROVE  /\ F!trimBlankTomlLines(SubSeq(K, 1, F!RootLength(K))) = A
         /\ F!trimBlankTomlLines(SubSeq(K, F!RootLength(K) + 1, Len(K))) = B
<1> DEFINE a == Len(A)
           b == Len(B)
           N == Len(K)
           n == IF b = 0 THEN N ELSE IF a = 0 THEN 0 ELSE p + a
<1>1. /\ N \in Nat /\ a \in Nat /\ b \in Nat /\ p \in Nat /\ q \in Nat /\ p + a <= q /\ q + b <= N
      /\ \A k \in 1 .. a : K[p + k] = A[k]
      /\ \A k \in 1 .. b : K[q + k] = B[k]
      /\ \A i \in 1 .. N : i <= p \/ (i > p + a /\ i <= q) \/ i > q + b => K[i] = F!Blank
  BY DEF File, Alone, Standing
<1>2. TomlFile(K)
  BY FileIs
<1>3. SameScan(sk, p, sc, 0, a) /\ SameScan(sk, q, sc, a, b)
  BY LockstepAlone
<1>4. /\ Trimmed(A) /\ Trimmed(B)
      /\ \A k \in 1 .. a : ~sc[k].isHeader
      /\ b # 0 => \E h \in 1 .. b : sc[a + h].isHeader /\ \A j \in 1 .. h - 1 : Quiet(B[j])
      /\ \A k \in 1 .. b : sc[a + k].isHeader => B[k].name # F!codexManagedTable
      /\ a # 0 /\ b # 0 => ~Quiet(A[a])
  BY DEF Parts
<1> HIDE DEF a, b, N
<1>5. n \in 0 .. N
  BY <1>1
<1>6. ASSUME NEW i \in 1 .. N, i <= q \/ b = 0 PROVE ~sk[i].isHeader
  <2>1. CASE i \in p + 1 .. p + a
    <3>1. i - p \in 1 .. a /\ p + (i - p) = i /\ 0 + (i - p) = i - p
      BY <1>1, <2>1
    <3>2. sk[p + (i - p)].isHeader <=> sc[0 + (i - p)].isHeader
      BY <1>3, <3>1 DEF SameScan
    <3> QED BY <1>4, <3>1, <3>2
  <2>2. CASE i \notin p + 1 .. p + a
    <3>1. K[i] = F!Blank
      BY <1>1, <1>6, <2>2
    <3> QED BY <1>2, <3>1, BlankIsQuiet, QuietLine DEF N
  <2> QED BY <2>1, <2>2
<1>7. ASSUME NEW i \in 1 .. n PROVE F!tomlSectionOwner(sk, i) = RootTable
  <2>1. i \in 1 .. N /\ i \in 1 .. Len(K)
    BY <1>1, <1>5 DEF N
  <2>2. b = 0 \/ (b # 0 /\ a # 0 /\ i <= p + a)
    BY <1>1
  <2>3. \A g \in 1 .. i : ~sk[g].isHeader
    <3>1. \A g \in 1 .. i : g \in 1 .. N /\ (g <= q \/ b = 0)
      BY <1>1, <2>1, <2>2
    <3> QED BY <1>6, <3>1
  <2>4. sk[i].table = RootTable
    BY <1>2, <2>1, <2>3, TableOf
  <2>5. ASSUME NEW h \in i + 1 .. Len(K), F!LeadsTo(sk, i, h) PROVE FALSE
    <3>1. h \in i .. Len(K) /\ h \in 1 .. N
      BY <1>1, <2>1 DEF N
    <3>2. sk[h].isHeader /\ \A j \in i .. h - 1 : Quiet(K[j])
      BY <1>2, <2>1, <2>5, <3>1, LeadsToIs DEF Quiet
    <3>3. b # 0 /\ a # 0 /\ i <= p + a /\ h > q
      BY <1>1, <1>6, <2>2, <3>1, <3>2
    <3>4. p + a \in i .. h - 1 /\ a \in 1 .. a
      BY <1>1, <2>1, <3>1, <3>3
    <3>5. K[p + a] = A[a] /\ ~Quiet(A[a])
      BY <1>1, <1>4, <3>3, <3>4
    <3> QED BY <3>2, <3>4, <3>5
  <2> QED BY <1>2, <2>1, <2>4, <2>5, Owner
<1>8. ASSUME n < N PROVE F!tomlSectionOwner(sk, n + 1) # RootTable
  <2>1. b # 0 /\ n <= q /\ n \in Nat /\ (a = 0 \/ n = p + a) /\ (a = 0 => n = 0)
    BY <1>1, <1>8
  <2>2. PICK h \in 1 .. b : sc[a + h].isHeader /\ \A j \in 1 .. h - 1 : Quiet(B[j])
    BY <1>4, <2>1
  <2> HIDE DEF n
  <2>3. sk[q + h].isHeader
    BY <1>3, <2>2 DEF SameScan
  <2>4. K[q + h].name # F!codexManagedTable
    BY <1>1, <1>4, <2>2
  <2>5. \A j \in n + 1 .. (q + h) - 1 : Quiet(K[j])
    <3> SUFFICES ASSUME NEW j \in n + 1 .. (q + h) - 1 PROVE Quiet(K[j])
      OBVIOUS
    <3>1. CASE j <= q
      <4>1. j \in 1 .. N /\ (j <= p \/ (j > p + a /\ j <= q))
        BY <1>1, <2>1, <3>1
      <4>2. K[j] = F!Blank
        BY <1>1, <4>1
      <4> QED BY <4>2, BlankIsQuiet
    <3>2. CASE j > q
      <4>1. j - q \in 1 .. h - 1 /\ j - q \in 1 .. b /\ q + (j - q) = j
        BY <1>1, <2>1, <2>2, <3>2
      <4>2. K[j] = B[j - q]
        BY <1>1, <4>1
      <4> QED BY <2>2, <4>1, <4>2
    <3> QED BY <1>1, <2>1, <3>1, <3>2
  <2>6. n + 1 \in 1 .. Len(K) /\ q + h \in n + 1 .. Len(K)
    BY <1>1, <2>1, <2>2, <1>8 DEF N
  <2> DEFINE v == n + 1
             w == q + h
  <2>7. QuietFrom(K, v, w) /\ sk[w].isHeader /\ K[w].name # F!codexManagedTable
        /\ v \in 1 .. Len(K) /\ w \in v .. Len(K)
    BY <2>3, <2>4, <2>5, <2>6 DEF QuietFrom
  <2> HIDE DEF v, w
  <2>8. F!tomlSectionOwner(sk, v) # RootTable
    BY <1>2, <2>7, LeadsOwner
  <2> QED BY <2>8 DEF v
<1>9. F!RootLength(K) = n
  <2>1. Len(K) \in Nat /\ n \in 0 .. Len(K)
    BY <1>1, <1>5 DEF N
  <2> HIDE DEF n
  <2>2. n < Len(K) => F!tomlSectionOwner(sk, n + 1) # RootTable
    BY <1>8 DEF N
  <2>3. \A i \in 1 .. n : F!tomlSectionOwner(sk, i) = RootTable
    BY <1>7
  <2> QED BY <2>1, <2>2, <2>3, RootLengthIs
<1> DEFINE KR == SubSeq(K, 1, n)
           KT == SubSeq(K, n + 1, Len(K))
<1>10. /\ KR \in Seq(S) /\ Len(KR) = n /\ \A i \in 1 .. n : KR[i] = K[i]
       /\ KT \in Seq(S) /\ Len(KT) = N - n /\ \A i \in 1 .. N - n : KT[i] = K[n + i]
  <2> HIDE DEF n
  <2> QED BY <1>5, LinesOfASubSeq DEF File, N
<1> HIDE DEF KR, KT
<1>11. Surrounded(KR, A, IF a = 0 THEN 0 ELSE p)
  <2> DEFINE v == IF a = 0 THEN 0 ELSE p
  <2>1. v \in Nat /\ v + a <= n
    BY <1>1
  <2>2. \A k \in 1 .. a : KR[v + k] = A[k]
    <3> SUFFICES ASSUME NEW k \in 1 .. a PROVE KR[v + k] = A[k]
      OBVIOUS
    <3>1. v + k \in 1 .. n /\ v + k = p + k
      BY <1>1, <2>1
    <3> QED BY <1>1, <1>10, <3>1
  <2>3. \A i \in 1 .. n : i <= v \/ i > v + a => KR[i] = F!Blank
    <3> SUFFICES ASSUME NEW i \in 1 .. n, i <= v \/ i > v + a PROVE KR[i] = F!Blank
      OBVIOUS
    <3>1. i \in 1 .. N /\ (i <= p \/ (i > p + a /\ i <= q) \/ i > q + b)
      BY <1>1, <1>5
    <3> QED BY <1>1, <1>10, <3>1
  <2> HIDE DEF v, n
  <2>4. Surrounded(KR, A, v)
    BY <2>1, <2>2, <2>3, <1>10 DEF Surrounded, a
  <2> QED BY <2>4 DEF v
<1>12. Surrounded(KT, B, IF b = 0 THEN 0 ELSE q - n)
  <2> DEFINE v == IF b = 0 THEN 0 ELSE q - n
  <2>1. v \in Nat /\ v + b <= N - n
    BY <1>1
  <2>2. \A k \in 1 .. b : KT[v + k] = B[k]
    <3> SUFFICES ASSUME NEW k \in 1 .. b PROVE KT[v + k] = B[k]
      OBVIOUS
    <3>1. v + k \in 1 .. N - n /\ n + (v + k) = q + k
      BY <1>1, <2>1
    <3>2. KT[v + k] = K[q + k]
      BY <1>10, <3>1
    <3> QED BY <1>1, <3>2
  <2>3. \A i \in 1 .. N - n : i <= v \/ i > v + b => KT[i] = F!Blank
    <3> SUFFICES ASSUME NEW i \in 1 .. N - n, i <= v \/ i > v + b PROVE KT[i] = F!Blank
      OBVIOUS
    <3>1. n + i \in 1 .. N /\ (n + i <= p \/ (n + i > p + a /\ n + i <= q) \/ n + i > q + b)
      BY <1>1, <1>5
    <3> QED BY <1>1, <1>10, <3>1
  <2> HIDE DEF v, n
  <2>4. Surrounded(KT, B, v)
    BY <2>1, <2>2, <2>3, <1>10 DEF Surrounded, b
  <2> QED BY <2>4 DEF v
<1> HIDE DEF n
<1>13. F!trimBlankTomlLines(KR) = A
  BY <1>4, <1>10, <1>11, TrimIs
<1>14. F!trimBlankTomlLines(KT) = B
  BY <1>4, <1>10, <1>12, TrimIs
<1> QED BY <1>9, <1>13, <1>14 DEF KR, KT

Root0(m) == <<F!Setting("model", m), F!Setting("model_provider", "gateway")>>
Gate(t) == <<F!Header(F!codexManagedTable), F!Setting("experimental_bearer_token", t)>>
Roots(m, A) == IF A = <<>> THEN Root0(m) ELSE Root0(m) \o <<F!Blank>> \o A
WithGate(m, t, A) == Roots(m, A) \o <<F!Blank>> \o Gate(t)

\* The file the merge writes.
Out(m, t, A, B) == IF B = <<>> THEN WithGate(m, t, A) ELSE WithGate(m, t, A) \o <<F!Blank>> \o B

\* The fragment's lines.
Delivers(S, m, t) == {F!Blank, F!Setting("model", m), F!Setting("model_provider", "gateway"), F!Header(F!codexManagedTable),
                      F!Setting("experimental_bearer_token", t)} \subseteq S

\* Where the parts stand in it.
LaidOut(g, m, t, A, p, B, q) ==
  /\ p = IF A = <<>> THEN 2 ELSE 3
  /\ q = p + Len(A) + IF B = <<>> THEN 3 ELSE 4
  /\ Len(g) = q + Len(B)
  /\ g[1] = F!Setting("model", m) /\ g[2] = F!Setting("model_provider", "gateway")
  /\ p = 3 => g[3] = F!Blank
  /\ \A k \in 1 .. Len(A) : g[p + k] = A[k]
  /\ g[p + Len(A) + 1] = F!Blank /\ g[p + Len(A) + 2] = F!Header(F!codexManagedTable)
  /\ g[p + Len(A) + 3] = F!Setting("experimental_bearer_token", t)
  /\ q = p + Len(A) + 4 => g[q] = F!Blank
  /\ \A k \in 1 .. Len(B) : g[q + k] = B[k]

IsAppended(z, x, y) ==
  /\ Len(z) = Len(x) + Len(y)
  /\ \A i \in 1 .. Len(x) : z[i] = x[i]
  /\ \A i \in 1 .. Len(y) : z[Len(x) + i] = y[i]

LEMMA Appended ==
  ASSUME NEW S, NEW x, x \in Seq(S), NEW y, y \in Seq(S), NEW z, z = x \o y
  PROVE  z \in Seq(S) /\ IsAppended(z, x, y)
  BY DEF IsAppended

LEMMA RootsLaidOut ==
  ASSUME NEW S, NEW m, NEW t, Delivers(S, m, t), NEW A, A \in Seq(S)
  PROVE  LET p == IF A = <<>> THEN 2 ELSE 3
             x == Roots(m, A)
         IN /\ x \in Seq(S) /\ Len(x) = p + Len(A) /\ x # <<>>
            /\ x[1] = F!Setting("model", m) /\ x[2] = F!Setting("model_provider", "gateway")
            /\ p = 3 => x[3] = F!Blank
            /\ \A k \in 1 .. Len(A) : x[p + k] = A[k]
<1> DEFINE d == Root0(m)
           e == <<F!Blank>>
           db == d \o e
           x == Roots(m, A)
<1>1. d \in Seq(S) /\ Len(d) = 2 /\ d[1] = F!Setting("model", m) /\ d[2] = F!Setting("model_provider", "gateway")
  BY DEF Delivers, Root0
<1>2. e \in Seq(S) /\ Len(e) = 1 /\ e[1] = F!Blank
  BY DEF Delivers
<1> HIDE DEF d, e
<1>3. db \in Seq(S) /\ Len(db) = 3 /\ db[1] = d[1] /\ db[2] = d[2] /\ db[3] = F!Blank
  <2>1. /\ db \in Seq(S) /\ Len(db) = Len(d) + Len(e)
        /\ \A i \in 1 .. Len(d) : db[i] = d[i]
        /\ \A i \in 1 .. Len(e) : db[Len(d) + i] = e[i]
    <3>1. db \in Seq(S) /\ IsAppended(db, d, e)
      BY ONLY <1>1, <1>2, Appended DEF db
    <3> QED BY <3>1 DEF IsAppended
  <2> HIDE DEF db
  <2>2. 1 \in 1 .. Len(d) /\ 2 \in 1 .. Len(d) /\ 1 \in 1 .. Len(e) /\ Len(d) + 1 = 3
    BY <1>1, <1>2
  <2> QED BY <1>1, <1>2, <2>1, <2>2
<1> HIDE DEF db
<1>4. CASE A = <<>>
  <2>1. x = d /\ Len(A) = 0
    BY <1>4 DEF Roots, d
  <2> HIDE DEF x
  <2> QED BY <1>1, <1>4, <2>1 DEF x
<1>5. CASE A # <<>>
  <2>1. x = db \o A
    BY <1>5 DEF Roots, d, e, db
  <2>2. /\ x \in Seq(S) /\ Len(x) = 3 + Len(A)
        /\ \A i \in 1 .. 3 : x[i] = db[i]
        /\ \A i \in 1 .. Len(A) : x[3 + i] = A[i]
    <3> HIDE DEF x
    <3>1. /\ x \in Seq(S) /\ Len(x) = Len(db) + Len(A)
          /\ \A i \in 1 .. Len(db) : x[i] = db[i]
          /\ \A i \in 1 .. Len(A) : x[Len(db) + i] = A[i]
      <4>1. x \in Seq(S) /\ IsAppended(x, db, A)
        BY ONLY <2>1, <1>3, A \in Seq(S), Appended
      <4> QED BY <4>1 DEF IsAppended
    <3>2. Len(db) = 3
      BY <1>3
    <3> QED BY <3>1, <3>2
  <2> HIDE DEF x
  <2>3. x[1] = db[1] /\ x[2] = db[2] /\ x[3] = db[3]
    BY <2>2
  <2>4. x # <<>>
    BY <2>2
  <2> QED BY <1>1, <1>3, <1>5, <2>2, <2>3, <2>4 DEF x
<1> QED BY <1>4, <1>5

LEMMA OutLaidOut ==
  ASSUME NEW S, NEW m, NEW t, Delivers(S, m, t), NEW A, A \in Seq(S), NEW B, B \in Seq(S)
  PROVE  /\ Out(m, t, A, B) \in Seq(S)
         /\ \E p, q : LaidOut(Out(m, t, A, B), m, t, A, p, B, q)
<1> DEFINE p == IF A = <<>> THEN 2 ELSE 3
           x == Roots(m, A)
           e == <<F!Blank>>
           d == Gate(t)
           xe == x \o e
           w == WithGate(m, t, A)
           we == w \o e
           g == Out(m, t, A, B)
           a == Len(A)
<1>1. /\ x \in Seq(S) /\ Len(x) = p + a
      /\ x[1] = F!Setting("model", m) /\ x[2] = F!Setting("model_provider", "gateway")
      /\ p = 3 => x[3] = F!Blank
      /\ \A k \in 1 .. a : x[p + k] = A[k]
  BY RootsLaidOut
<1>2. e \in Seq(S) /\ Len(e) = 1 /\ e[1] = F!Blank
  BY DEF Delivers
<1>3. d \in Seq(S) /\ Len(d) = 2 /\ d[1] = F!Header(F!codexManagedTable) /\ d[2] = F!Setting("experimental_bearer_token", t)
  BY DEF Delivers, Gate
<1>4. p \in {2, 3} /\ a \in Nat /\ (p = 2 \/ a >= 1)
  OBVIOUS
<1>5. w = xe \o d
  BY DEF WithGate
<1>6. g = IF B = <<>> THEN w ELSE we \o B
  BY DEF Out
<1> HIDE DEF p, x, e, d, w, g, a
<1>7. /\ xe \in Seq(S) /\ Len(xe) = p + a + 1 /\ xe[p + a + 1] = F!Blank
      /\ \A i \in 1 .. p + a : xe[i] = x[i]
  <2>1. /\ xe \in Seq(S) /\ Len(xe) = Len(x) + Len(e)
        /\ \A i \in 1 .. Len(x) : xe[i] = x[i]
        /\ \A i \in 1 .. Len(e) : xe[Len(x) + i] = e[i]
    <3>1. xe \in Seq(S) /\ IsAppended(xe, x, e)
      BY ONLY <1>1, <1>2, Appended DEF xe
    <3> QED BY <3>1 DEF IsAppended
  <2> HIDE DEF xe
  <2>2. 1 \in 1 .. Len(e)
    BY <1>2
  <2> QED BY <1>1, <1>2, <2>1, <2>2
<1> HIDE DEF xe
<1>8. /\ w \in Seq(S) /\ Len(w) = p + a + 3 /\ w[p + a + 1] = F!Blank
      /\ w[p + a + 2] = F!Header(F!codexManagedTable) /\ w[p + a + 3] = F!Setting("experimental_bearer_token", t)
      /\ \A i \in 1 .. p + a : w[i] = x[i]
  <2>1. /\ w \in Seq(S) /\ Len(w) = Len(xe) + Len(d)
        /\ \A i \in 1 .. Len(xe) : w[i] = xe[i]
        /\ \A i \in 1 .. Len(d) : w[Len(xe) + i] = d[i]
    <3>1. w \in Seq(S) /\ IsAppended(w, xe, d)
      BY ONLY <1>5, <1>7, <1>3, Appended
    <3> QED BY <3>1 DEF IsAppended
  <2>2. /\ 1 \in 1 .. Len(d) /\ 2 \in 1 .. Len(d) /\ Len(xe) + 1 = p + a + 2 /\ Len(xe) + 2 = p + a + 3
        /\ p + a + 1 \in 1 .. Len(xe) /\ \A i \in 1 .. p + a : i \in 1 .. Len(xe)
    BY <1>3, <1>4, <1>7
  <2>3. w[p + a + 2] = d[1] /\ w[p + a + 3] = d[2] /\ w[p + a + 1] = xe[p + a + 1]
    BY <2>1, <2>2
  <2>4. Len(w) = p + a + 3
    BY <1>3, <1>4, <1>7, <2>1
  <2>5. \A i \in 1 .. p + a : w[i] = x[i]
    BY <1>7, <2>1, <2>2
  <2> QED BY <1>3, <1>7, <2>1, <2>3, <2>4, <2>5
<1>9. /\ we \in Seq(S) /\ Len(we) = p + a + 4 /\ we[p + a + 4] = F!Blank
      /\ \A i \in 1 .. p + a + 3 : we[i] = w[i]
  <2>1. /\ we \in Seq(S) /\ Len(we) = Len(w) + Len(e)
        /\ \A i \in 1 .. Len(w) : we[i] = w[i]
        /\ \A i \in 1 .. Len(e) : we[Len(w) + i] = e[i]
    <3>1. we \in Seq(S) /\ IsAppended(we, w, e)
      BY ONLY <1>8, <1>2, Appended DEF we
    <3> QED BY <3>1 DEF IsAppended
  <2> HIDE DEF we
  <2>2. 1 \in 1 .. Len(e) /\ Len(w) + 1 = p + a + 4
    BY <1>2, <1>4, <1>8
  <2>3. Len(we) = p + a + 4 /\ we[p + a + 4] = e[1]
    BY <1>2, <1>4, <1>8, <2>1, <2>2
  <2> QED BY <1>2, <1>8, <2>1, <2>3
<1> HIDE DEF we
<1> DEFINE z == IF B = <<>> THEN 3 ELSE 4
           q == p + a + z
<1>10. /\ g \in Seq(S) /\ Len(g) = q + Len(B)
       /\ \A i \in 1 .. p + a + 3 : g[i] = w[i]
       /\ q = p + a + 4 => g[q] = F!Blank
       /\ \A k \in 1 .. Len(B) : g[q + k] = B[k]
  <2>1. CASE B = <<>>
    <3>1. g = w /\ Len(B) = 0 /\ q = p + a + 3 /\ q # p + a + 4
      BY <1>4, <1>6, <2>1
    <3> QED BY <1>4, <1>8, <3>1
  <2>2. CASE B # <<>>
    <3>1. g = we \o B /\ q = p + a + 4
      BY <1>6, <2>2
    <3>2. /\ g \in Seq(S) /\ Len(g) = Len(we) + Len(B)
          /\ \A i \in 1 .. Len(we) : g[i] = we[i]
          /\ \A i \in 1 .. Len(B) : g[Len(we) + i] = B[i]
      <4>1. g \in Seq(S) /\ IsAppended(g, we, B)
        BY ONLY <1>9, <3>1, B \in Seq(S), Appended
      <4> QED BY <4>1 DEF IsAppended
    <3>3. p + a + 4 \in 1 .. Len(we) /\ \A i \in 1 .. p + a + 3 : i \in 1 .. Len(we)
      BY <1>4, <1>9
    <3>4. g[q] = F!Blank /\ \A i \in 1 .. p + a + 3 : g[i] = w[i]
      BY <1>9, <3>1, <3>2, <3>3
    <3> QED BY <1>9, <3>1, <3>2, <3>4
  <2> QED BY <2>1, <2>2
<1> HIDE DEF z, q
<1>11. \A i \in 1 .. p + a : i \in 1 .. p + a + 3 /\ g[i] = x[i]
  BY <1>4, <1>8, <1>10
<1>12. g[1] = x[1] /\ g[2] = x[2] /\ (p = 3 => g[3] = x[3])
  <2>1. 1 \in 1 .. p + a /\ 2 \in 1 .. p + a /\ (p = 3 => 3 \in 1 .. p + a)
    BY <1>4
  <2> QED BY <1>11, <2>1
<1>13. \A k \in 1 .. a : g[p + k] = A[k]
  <2>1. \A k \in 1 .. a : p + k \in 1 .. p + a
    BY <1>4
  <2> QED BY <1>1, <1>11, <2>1
<1>14. g[p + a + 1] = F!Blank /\ g[p + a + 2] = F!Header(F!codexManagedTable) /\ g[p + a + 3] = F!Setting("experimental_bearer_token", t)
  <2>1. p + a + 1 \in 1 .. p + a + 3 /\ p + a + 2 \in 1 .. p + a + 3 /\ p + a + 3 \in 1 .. p + a + 3
    BY <1>4
  <2> QED BY <1>8, <1>10, <2>1
<1>15. LaidOut(g, m, t, A, p, B, q)
  <2>1. p = IF A = <<>> THEN 2 ELSE 3
    BY DEF p
  <2>2. q = p + a + IF B = <<>> THEN 3 ELSE 4
    BY DEF q, z
  <2> QED BY <1>1, <1>10, <1>12, <1>13, <1>14, <2>1, <2>2 DEF LaidOut, a
<1> QED BY <1>10, <1>15 DEF g

\* A line without a token that is no header changes nothing.
LEMMA PlainLine ==
  ASSUME NEW lines, TomlFile(lines), NEW r \in BOOLEAN, NEW scan, IsScan(lines, r, scan),
         NEW i \in 1 .. Len(lines), lines[i].shape # "header", lines[i].tokens = <<>>
  PROVE  ~scan[i].isHeader /\ StateAfter(scan, i) = StateAfter(scan, i - 1)
<1>1. ScanLine(lines, r, scan, i) /\ i # 0
  BY ScanFacts
<1>2. ~scan[i].isHeader
  BY <1>1 DEF ScanLine
<1>3. scan[i].state = F!advanceTomlScanState(StateAfter(scan, i - 1), <<>>)
  BY <1>1, <1>2 DEF ScanLine
<1>4. StateAfter(scan, i - 1) \in State
  <2>1. CASE i = 1
    BY <2>1, FreshIsState DEF StateAfter
  <2>2. CASE i # 1
    <3>1. i - 1 \in 1 .. Len(lines) /\ i - 1 # 0
      BY <2>2 DEF TomlFile
    <3>2. ScanLine(lines, r, scan, i - 1)
      BY <3>1, ScanFacts
    <3> QED BY <3>1, <3>2 DEF StateAfter, ScanLine
  <2> QED BY <2>1, <2>2
<1>5. scan[i].state = StateAfter(scan, i - 1)
  BY <1>3, <1>4, AdvanceNothing
<1> QED BY <1>1, <1>2, <1>5 DEF StateAfter

\* A header is no token more than it opens and closes.
LEMMA HeaderIs ==
  ASSUME NEW table
  PROVE  /\ F!Header(table).shape = "header" /\ F!Header(table).name = table
         /\ F!Header(table).tokens = <<"open", "close">>
  BY DEF F!Header, F!Line

LEMMA HeaderLine ==
  ASSUME NEW lines, TomlFile(lines), NEW r \in BOOLEAN, NEW scan, IsScan(lines, r, scan),
         NEW i \in 1 .. Len(lines), lines[i] = F!Header(F!codexManagedTable)
  PROVE  /\ scan[i].isHeader <=> StateAfter(scan, i - 1) = F!Fresh \/ r
         /\ ~r => StateAfter(scan, i) = StateAfter(scan, i - 1)
         /\ r => StateAfter(scan, i) = F!Fresh
         /\ scan[i].isHeader => scan[i].table = F!codexManagedTable
<1>1. ScanLine(lines, r, scan, i) /\ i # 0
  BY ScanFacts
<1>2. lines[i].shape = "header" /\ lines[i].name = F!codexManagedTable /\ lines[i].tokens = <<"open", "close">>
  BY HeaderIs
<1>3. scan[i].isHeader <=> StateAfter(scan, i - 1) = F!Fresh \/ r
  BY <1>1, <1>2 DEF ScanLine
<1>4. scan[i].state = IF scan[i].isHeader THEN F!Fresh
                      ELSE F!advanceTomlScanState(StateAfter(scan, i - 1), <<"open", "close">>)
  BY <1>1, <1>2 DEF ScanLine
<1>5. StateAfter(scan, i - 1) \in State
  <2>1. CASE i = 1
    BY <2>1, FreshIsState DEF StateAfter
  <2>2. CASE i # 1
    <3>1. i - 1 \in 1 .. Len(lines) /\ i - 1 # 0
      BY <2>2 DEF TomlFile
    <3>2. ScanLine(lines, r, scan, i - 1)
      BY <3>1, ScanFacts
    <3> QED BY <3>1, <3>2 DEF StateAfter, ScanLine
  <2> QED BY <2>1, <2>2
<1>6. F!advanceTomlScanState(StateAfter(scan, i - 1), <<"open", "close">>) = StateAfter(scan, i - 1)
  BY <1>5, AdvanceHeader
<1>7. StateAfter(scan, i) = scan[i].state
  BY <1>1 DEF StateAfter
<1>8. ~r => StateAfter(scan, i) = StateAfter(scan, i - 1)
  BY <1>3, <1>4, <1>6, <1>7
<1>9. r => StateAfter(scan, i) = F!Fresh
  BY <1>3, <1>4, <1>7
<1>10. scan[i].isHeader => scan[i].table = F!codexManagedTable
  BY <1>1, <1>2 DEF ScanLine
<1> QED BY <1>3, <1>8, <1>9, <1>10

LEMMA SettingIs ==
  ASSUME NEW key, NEW value
  PROVE  /\ F!Setting(key, value).shape = "key" /\ F!Setting(key, value).name = key
         /\ F!Setting(key, value).tokens = <<>> /\ F!Setting(key, value).value = value
  BY DEF F!Setting, F!Line

\* What the merge writes is scanned as the parts are, and the managed table as
\* a header unless a value of the root is still open.
LEMMA OutScanned ==
  ASSUME NEW S, NEW g, File(S, g), NEW A, A \in Seq(S), NEW B, B \in Seq(S), NEW m, NEW t,
         NEW p, NEW q, LaidOut(g, m, t, A, p, B, q), NEW r \in BOOLEAN,
         NEW sg, IsScan(g, r, sg), NEW sc, IsScan(A \o B, r, sc)
  PROVE  /\ StateAfter(sg, 1) = F!Fresh /\ StateAfter(sg, 2) = F!Fresh
         /\ ~sg[1].isHeader /\ ~sg[2].isHeader
         /\ SameScan(sg, p, sc, 0, Len(A))
         /\ StateAfter(sg, p + Len(A) + 1) = StateAfter(sc, Len(A))
         /\ ~r => /\ StateAfter(sg, q) = StateAfter(sc, Len(A))
                  /\ SameScan(sg, q, sc, Len(A), Len(B))
                  /\ StateAfter(sg, Len(g)) = StateAfter(sc, Len(A) + Len(B))
<1> DEFINE a == Len(A)
           b == Len(B)
           C == A \o B
           u == p + a + 1
           N == Len(g)
<1>1. /\ a \in Nat /\ b \in Nat /\ p \in {2, 3} /\ q \in Nat /\ N \in Nat /\ N = q + b
      /\ q = u + 2 \/ q = u + 3
  <2>1. a \in Nat /\ b \in Nat
    OBVIOUS
  <2>2. p \in {2, 3} /\ (q = p + a + 3 \/ q = p + a + 4) /\ N = q + b
    BY DEF LaidOut
  <2> HIDE DEF a, b, N
  <2> QED BY <2>1, <2>2
<1>2. /\ TomlFile(g) /\ TomlFile(C) /\ Len(C) = a + b
      /\ \A k \in 1 .. a : C[k] = A[k]
      /\ \A k \in 1 .. b : C[a + k] = B[k]
  <2>1. File(S, C)
    BY DEF File
  <2> QED BY <2>1, FileIs
<1>3. /\ g[1] = F!Setting("model", m) /\ g[2] = F!Setting("model_provider", "gateway")
      /\ p = 3 => g[3] = F!Blank
      /\ g[u] = F!Blank /\ g[u + 1] = F!Header(F!codexManagedTable) /\ g[u + 2] = F!Setting("experimental_bearer_token", t)
      /\ q = u + 3 => g[q] = F!Blank
      /\ \A k \in 1 .. a : g[p + k] = A[k]
      /\ \A k \in 1 .. b : g[q + k] = B[k]
  <2>1. u + 1 = p + Len(A) + 2 /\ u + 2 = p + Len(A) + 3 /\ u + 3 = p + Len(A) + 4
    BY <1>1
  <2> QED BY <2>1 DEF LaidOut
<1>4. IsScan(C, r, sc)
  OBVIOUS
<1> HIDE DEF a, b, C, N, u
<1>5. u \in Nat /\ p + a = u - 1 /\ u >= 3 /\ u + 2 <= q
  BY <1>1 DEF u
<1>6. SameLines(g, p, C, 0, a) /\ SameLines(g, q, C, a, b)
  <2>1. \A k \in 1 .. a : g[p + k] = C[0 + k]
    BY <1>1, <1>2, <1>3
  <2>2. \A k \in 1 .. b : g[q + k] = C[a + k]
    BY <1>2, <1>3
  <2> QED BY <2>1, <2>2, <1>1, <1>2, <1>5 DEF SameLines, N
<1>7. /\ 1 \in 1 .. Len(g) /\ 2 \in 1 .. Len(g) /\ p \in 1 .. Len(g) /\ u \in 1 .. Len(g) /\ u + 1 \in 1 .. Len(g)
      /\ u + 2 \in 1 .. Len(g) /\ q \in 1 .. Len(g)
  BY <1>1, <1>5 DEF N
<1>8. StateAfter(sg, 1) = F!Fresh /\ ~sg[1].isHeader
  <2>1. g[1].shape # "header" /\ g[1].tokens = <<>>
    BY <1>3, SettingIs
  <2>2. ~sg[1].isHeader /\ StateAfter(sg, 1) = StateAfter(sg, 1 - 1)
    BY <1>2, <1>7, <2>1, PlainLine
  <2> QED BY <2>2, BeforeAll
<1>9. StateAfter(sg, 2) = F!Fresh /\ ~sg[2].isHeader
  <2>1. g[2].shape # "header" /\ g[2].tokens = <<>>
    BY <1>3, SettingIs
  <2>2. ~sg[2].isHeader /\ StateAfter(sg, 2) = StateAfter(sg, 2 - 1)
    BY <1>2, <1>7, <2>1, PlainLine
  <2> QED BY <2>2, <1>8
<1>10. ASSUME NEW i \in 1 .. Len(g), g[i] = F!Blank PROVE StateAfter(sg, i) = StateAfter(sg, i - 1)
  <2>1. Quiet(g[i])
    BY <1>10, BlankIsQuiet
  <2>2. sg[i].state = StateAfter(sg, i - 1)
    BY <1>2, <2>1, QuietLine
  <2> QED BY <2>2 DEF StateAfter
<1>11. StateAfter(sg, p) = StateAfter(sc, 0)
  <2>1. CASE p = 2
    BY <2>1, <1>9, BeforeAll
  <2>2. CASE p = 3
    <3>1. g[3] = F!Blank /\ 3 \in 1 .. Len(g)
      BY <1>3, <1>7, <2>2
    <3>2. StateAfter(sg, 3) = StateAfter(sg, 3 - 1)
      BY <1>10, <3>1
    <3> QED BY <2>2, <3>2, <1>9, BeforeAll
  <2> QED BY <1>1, <2>1, <2>2
<1>12. SameScan(sg, p, sc, 0, a) /\ StateAfter(sg, p + a) = StateAfter(sc, 0 + a)
  BY <1>2, <1>4, <1>6, <1>11, SameStretch
<1>13. StateAfter(sg, u) = StateAfter(sc, a)
  <2>1. StateAfter(sg, u) = StateAfter(sg, u - 1)
    BY <1>3, <1>7, <1>10
  <2>2. 0 + a = a
    BY <1>1
  <2> QED BY <1>5, <1>12, <2>1, <2>2
<1>14. ASSUME ~r
       PROVE  /\ StateAfter(sg, q) = StateAfter(sc, a)
              /\ SameScan(sg, q, sc, a, b)
              /\ StateAfter(sg, N) = StateAfter(sc, a + b)
  <2>1. (u + 1) - 1 = u /\ (u + 2) - 1 = u + 1 /\ (u + 3) - 1 = u + 2
    BY <1>5
  <2>2. StateAfter(sg, u + 1) = StateAfter(sg, (u + 1) - 1)
    BY <1>2, <1>3, <1>7, <1>14, HeaderLine
  <2>3. StateAfter(sg, u + 2) = StateAfter(sg, (u + 2) - 1)
    <3>1. g[u + 2].shape # "header" /\ g[u + 2].tokens = <<>>
      BY <1>3, SettingIs
    <3> QED BY <1>2, <1>7, <3>1, PlainLine
  <2>4. StateAfter(sg, u + 2) = StateAfter(sc, a)
    BY <1>13, <2>1, <2>2, <2>3
  <2>5. StateAfter(sg, q) = StateAfter(sc, a)
    <3>1. CASE q = u + 2
      BY <2>4, <3>1
    <3>2. CASE q = u + 3
      <4>1. StateAfter(sg, q) = StateAfter(sg, q - 1)
        BY <1>3, <1>7, <1>10, <3>2
      <4> QED BY <2>1, <2>4, <3>2, <4>1
    <3> QED BY <1>1, <3>1, <3>2
  <2>6. SameScan(sg, q, sc, a, b) /\ StateAfter(sg, q + b) = StateAfter(sc, a + b)
    BY <1>2, <1>4, <1>6, <2>5, SameStretch
  <2> QED BY <1>1, <2>5, <2>6
<1> QED BY <1>8, <1>9, <1>12, <1>13, <1>14 DEF a, b, N, u

LEMMA OutCloses ==
  ASSUME NEW S, NEW g, File(S, g), NEW A, A \in Seq(S), NEW B, B \in Seq(S), NEW m, NEW t,
         NEW p, NEW q, LaidOut(g, m, t, A, p, B, q)
  PROVE  F!Closed(g) <=> F!Closed(A \o B)
<1> DEFINE C == A \o B
<1>1. File(S, C) /\ Len(C) = Len(A) + Len(B)
  BY DEF File
<1>2. PICK r \in BOOLEAN : ~r
  OBVIOUS
<1> DEFINE sg == F!classifyTomlLines(g, r)
           sc == F!classifyTomlLines(C, r)
<1>3. IsScan(g, r, sg) /\ IsScan(C, r, sc)
  BY <1>1, ScanIs
<1>4. F!Closed(g) <=> StateAfter(sg, Len(g)) = F!Fresh
  BY <1>2, ClosedBy
<1>5. F!Closed(C) <=> StateAfter(sc, Len(C)) = F!Fresh
  BY <1>1, <1>2, ClosedBy
<1> HIDE DEF sg, sc
<1>6. StateAfter(sg, Len(g)) = StateAfter(sc, Len(A) + Len(B))
  BY <1>2, <1>3, OutScanned
<1> QED BY <1>1, <1>4, <1>5, <1>6

\* Where the parts' headers are in the file the merge writes.
LEMMA OutHeaders ==
  ASSUME NEW S, NEW g, File(S, g), NEW A, A \in Seq(S), NEW B, B \in Seq(S), NEW m, NEW t,
         NEW p, NEW q, LaidOut(g, m, t, A, p, B, q), NEW r \in BOOLEAN, r <=> ~F!Closed(A \o B),
         NEW sg, IsScan(g, r, sg), NEW sc, IsScan(A \o B, r, sc), Parts(A, B, sc)
  PROVE  LET u == p + Len(A) + 1 IN
         /\ \A i \in 1 .. u : ~sg[i].isHeader
         /\ sg[u + 1].isHeader /\ sg[u + 1].table = F!codexManagedTable
         /\ StateAfter(sg, u + 1) = F!Fresh
         /\ ~sg[u + 2].isHeader /\ sg[u + 2].table = F!codexManagedTable
         /\ StateAfter(sg, u + 2) = F!Fresh
         /\ \A k \in 1 .. Len(B) : sg[q + k].isHeader <=> sc[Len(A) + k].isHeader
<1> DEFINE a == Len(A)
           b == Len(B)
           C == A \o B
           u == p + a + 1
<1>1. /\ a \in Nat /\ b \in Nat /\ p \in {2, 3} /\ q \in Nat /\ Len(g) \in Nat /\ Len(g) = q + b
      /\ q = u + 2 \/ q = u + 3
  <2>1. a \in Nat /\ b \in Nat
    OBVIOUS
  <2>2. p \in {2, 3} /\ (q = p + a + 3 \/ q = p + a + 4) /\ Len(g) = q + b
    BY DEF LaidOut
  <2> HIDE DEF a, b
  <2> QED BY <2>1, <2>2
<1>2. /\ TomlFile(g) /\ TomlFile(C) /\ Len(C) = a + b /\ File(S, C)
      /\ \A k \in 1 .. a : C[k] = A[k]
      /\ \A k \in 1 .. b : C[a + k] = B[k]
  <2>1. File(S, C)
    BY DEF File
  <2> QED BY <2>1, FileIs
<1>3. /\ g[1] = F!Setting("model", m) /\ g[2] = F!Setting("model_provider", "gateway")
      /\ p = 3 => g[3] = F!Blank
      /\ g[u] = F!Blank /\ g[u + 1] = F!Header(F!codexManagedTable) /\ g[u + 2] = F!Setting("experimental_bearer_token", t)
      /\ q = u + 3 => g[q] = F!Blank
      /\ \A k \in 1 .. a : g[p + k] = A[k]
      /\ \A k \in 1 .. b : g[q + k] = B[k]
  <2>1. u + 1 = p + Len(A) + 2 /\ u + 2 = p + Len(A) + 3 /\ u + 3 = p + Len(A) + 4
    BY <1>1
  <2> QED BY <2>1 DEF LaidOut
<1>4. /\ ~sg[1].isHeader /\ ~sg[2].isHeader
      /\ SameScan(sg, p, sc, 0, a)
      /\ StateAfter(sg, u) = StateAfter(sc, a)
      /\ ~r => SameScan(sg, q, sc, a, b)
  BY OutScanned
<1>5. /\ \A k \in 1 .. a : ~sc[k].isHeader
      /\ b # 0 => \E h \in 1 .. b : sc[a + h].isHeader /\ \A j \in 1 .. h - 1 : Quiet(B[j])
  BY DEF Parts
<1>6. IsScan(C, r, sc)
  OBVIOUS
<1>7. ~r => StateAfter(F!classifyTomlLines(C, r), Len(C)) = F!Fresh
  BY <1>2, ClosedBy
<1> HIDE DEF a, b, C, u
<1>8. u \in Nat /\ p + a = u - 1 /\ u >= 3 /\ u + 2 <= q
  BY <1>1 DEF u
<1>9. /\ u \in 1 .. Len(g) /\ u + 1 \in 1 .. Len(g) /\ u + 2 \in 1 .. Len(g)
      /\ (u + 1) - 1 = u /\ (u + 2) - 1 = u + 1 /\ u + 2 # 1 /\ \A i \in 1 .. u : i \in 1 .. Len(g)
  BY <1>1, <1>8
<1>10. ASSUME NEW i \in 1 .. u PROVE ~sg[i].isHeader
  <2>1. CASE i \in {1, 2}
    BY <1>4, <2>1
  <2>2. CASE i \in p + 1 .. p + a
    <3>1. i - p \in 1 .. a /\ p + (i - p) = i /\ 0 + (i - p) = i - p
      BY <1>1, <2>2
    <3>2. sg[p + (i - p)].isHeader <=> sc[0 + (i - p)].isHeader
      BY <1>4, <3>1 DEF SameScan
    <3> QED BY <1>5, <3>1, <3>2
  <2>3. CASE i = u \/ (p = 3 /\ i = 3)
    <3>1. Quiet(g[i])
      BY <1>3, <2>3, BlankIsQuiet
    <3> QED BY <1>2, <1>9, <3>1, QuietLine
  <2>4. i \in {1, 2} \/ i \in p + 1 .. p + a \/ i = u \/ (p = 3 /\ i = 3)
    BY <1>1, <1>8
  <2> QED BY <2>1, <2>2, <2>3, <2>4
<1>11. ~r => StateAfter(sc, a) = F!Fresh
  <2> SUFFICES ASSUME ~r PROVE StateAfter(sc, a) = F!Fresh
    OBVIOUS
  <2>1. CASE b = 0
    <3> DEFINE sl == F!classifyTomlLines(C, r)
    <3>1. StateAfter(sl, Len(C)) = F!Fresh /\ IsScan(C, r, sl)
      BY <1>2, <1>7, ScanIs
    <3> HIDE DEF sl
    <3>2. StateAfter(sl, 0) = StateAfter(sc, 0)
      BY BeforeAll
    <3>3. SameLines(C, 0, C, 0, a)
      BY <1>1, <1>2 DEF SameLines
    <3>4. StateAfter(sl, 0 + a) = StateAfter(sc, 0 + a)
      BY <1>2, <1>6, <3>1, <3>2, <3>3, SameStretch
    <3> QED BY <1>1, <1>2, <2>1, <3>1, <3>4
  <2>2. CASE b # 0
    <3>1. PICK h \in 1 .. b : sc[a + h].isHeader /\ \A j \in 1 .. h - 1 : Quiet(B[j])
      BY <1>5, <2>2
    <3>2. a + h \in 1 .. Len(C) /\ (a + h) - 1 = a + (h - 1)
      BY <1>1, <1>2
    <3>3. ScanLine(C, r, sc, a + h)
      BY <1>6, <3>2, ScanFacts
    <3>4. StateAfter(sc, (a + h) - 1) = F!Fresh
      BY <3>1, <3>3 DEF ScanLine
    <3>5. QuietBetween(C, a, (a + h) - 1)
      <4>1. a \in Nat /\ (a + h) - 1 \in Nat /\ a <= (a + h) - 1 /\ (a + h) - 1 <= Len(C)
        BY <1>1, <1>2
      <4>2. ASSUME NEW i \in a + 1 .. (a + h) - 1 PROVE Quiet(C[i])
        <5>1. i - a \in 1 .. h - 1 /\ i - a \in 1 .. b /\ a + (i - a) = i
          BY <1>1
        <5>2. C[a + (i - a)] = B[i - a]
          BY <1>2, <5>1
        <5> QED BY <3>1, <5>1, <5>2
      <4> QED BY <4>1, <4>2 DEF QuietBetween
    <3>6. StateAfter(sc, (a + h) - 1) = StateAfter(sc, a)
      BY <1>2, <1>6, <3>5, QuietStretch
    <3> QED BY <3>4, <3>6
  <2> QED BY <2>1, <2>2
<1>12. sg[u + 1].isHeader /\ sg[u + 1].table = F!codexManagedTable /\ StateAfter(sg, u + 1) = F!Fresh
  <2>1. /\ sg[u + 1].isHeader <=> StateAfter(sg, (u + 1) - 1) = F!Fresh \/ r
        /\ ~r => StateAfter(sg, u + 1) = StateAfter(sg, (u + 1) - 1)
        /\ r => StateAfter(sg, u + 1) = F!Fresh
        /\ sg[u + 1].isHeader => sg[u + 1].table = F!codexManagedTable
    <3> DEFINE v == u + 1
    <3>1. v \in 1 .. Len(g) /\ g[v] = F!Header(F!codexManagedTable)
      BY <1>3, <1>9
    <3> HIDE DEF v
    <3>2. /\ sg[v].isHeader <=> StateAfter(sg, v - 1) = F!Fresh \/ r
          /\ ~r => StateAfter(sg, v) = StateAfter(sg, v - 1)
          /\ r => StateAfter(sg, v) = F!Fresh
          /\ sg[v].isHeader => sg[v].table = F!codexManagedTable
      BY <1>2, <3>1, HeaderLine
    <3> QED BY ONLY <3>2 DEF v
  <2> QED BY <1>4, <1>9, <1>11, <2>1
<1>13. ~sg[u + 2].isHeader /\ sg[u + 2].table = F!codexManagedTable /\ StateAfter(sg, u + 2) = F!Fresh
  <2>1. g[u + 2].shape # "header" /\ g[u + 2].tokens = <<>>
    BY <1>3, SettingIs
  <2>2. ~sg[u + 2].isHeader /\ StateAfter(sg, u + 2) = StateAfter(sg, (u + 2) - 1)
    BY <1>2, <1>9, <2>1, PlainLine
  <2>3. sg[u + 2].table = sg[(u + 2) - 1].table
    <3>1. ScanLine(g, r, sg, u + 2)
      BY <1>9, ScanFacts
    <3> QED BY <1>9, <2>2, <3>1 DEF ScanLine
  <2> QED BY <1>9, <1>12, <2>2, <2>3
<1>14. ASSUME NEW k \in 1 .. b PROVE sg[q + k].isHeader <=> sc[a + k].isHeader
  <2>1. CASE ~r
    BY <1>4, <2>1 DEF SameScan
  <2>2. CASE r
    <3>1. q + k \in 1 .. Len(g) /\ a + k \in 1 .. Len(C)
      BY <1>1, <1>2
    <3>2. ScanLine(g, r, sg, q + k) /\ ScanLine(C, r, sc, a + k)
      BY <1>6, <3>1, ScanFacts
    <3>3. g[q + k] = C[a + k]
      BY <1>2, <1>3
    <3>4. (sg[q + k].isHeader <=> g[q + k].shape = "header") /\ (sc[a + k].isHeader <=> C[a + k].shape = "header")
      BY <2>2, <3>2 DEF ScanLine
    <3> QED BY <3>3, <3>4
  <2> QED BY <2>1, <2>2
<1> QED BY <1>10, <1>12, <1>13, <1>14 DEF a, b, u

LEMMA RootIsNoTable == RootTable # F!codexManagedTable
  BY DEF RootTable, F!codexManagedTable

\* The merge removes from its own file just what it has put there.
LEMMA OutKept ==
  ASSUME NEW S, NEW g, File(S, g), NEW A, A \in Seq(S), NEW B, B \in Seq(S), NEW m, NEW t,
         NEW p, NEW q, LaidOut(g, m, t, A, p, B, q), NEW r \in BOOLEAN, r <=> ~F!Closed(A \o B),
         NEW sg, IsScan(g, r, sg), NEW sc, IsScan(A \o B, r, sc), Parts(A, B, sc)
  PROVE  LET u == p + Len(A) + 1 IN
         /\ KeptPlaces(g, sg) = (3 .. u) \cup (u + 3 .. Len(g))
         /\ \A i \in 1 .. u : F!tomlSectionOwner(sg, i) = RootTable
         /\ F!tomlSectionOwner(sg, u + 1) = F!codexManagedTable
         /\ sg[1].start = 1 /\ ~sg[1].isHeader /\ sg[1].line = g[1]
<1> DEFINE a == Len(A)
           b == Len(B)
           u == p + a + 1
<1>1. /\ a \in Nat /\ b \in Nat /\ p \in {2, 3} /\ q \in Nat /\ Len(g) \in Nat /\ Len(g) = q + b
      /\ (q = u + 2 /\ b = 0) \/ (q = u + 3 /\ b # 0)
      /\ TomlFile(g)
  <2>1. a \in Nat /\ b \in Nat /\ (B = <<>> <=> b = 0)
    OBVIOUS
  <2>2. p \in {2, 3} /\ ((q = p + a + 3 /\ B = <<>>) \/ (q = p + a + 4 /\ B # <<>>)) /\ Len(g) = q + b
    BY DEF LaidOut
  <2>3. TomlFile(g)
    BY FileIs
  <2> HIDE DEF a, b
  <2> QED BY <2>1, <2>2, <2>3
<1>2. /\ g[1] = F!Setting("model", m) /\ g[2] = F!Setting("model_provider", "gateway")
      /\ p = 3 => g[3] = F!Blank
      /\ g[u] = F!Blank /\ g[u + 1] = F!Header(F!codexManagedTable) /\ g[u + 2] = F!Setting("experimental_bearer_token", t)
      /\ q = u + 3 => g[q] = F!Blank
      /\ \A k \in 1 .. a : g[p + k] = A[k]
      /\ \A k \in 1 .. b : g[q + k] = B[k]
  <2>1. u + 1 = p + Len(A) + 2 /\ u + 2 = p + Len(A) + 3 /\ u + 3 = p + Len(A) + 4
    BY <1>1
  <2> QED BY <2>1 DEF LaidOut
<1>3. /\ StateAfter(sg, 1) = F!Fresh /\ StateAfter(sg, 2) = F!Fresh
      /\ SameScan(sg, p, sc, 0, a)
  BY OutScanned
<1>4. /\ \A i \in 1 .. u : ~sg[i].isHeader
      /\ sg[u + 1].isHeader /\ sg[u + 1].table = F!codexManagedTable
      /\ StateAfter(sg, u + 1) = F!Fresh
      /\ ~sg[u + 2].isHeader /\ sg[u + 2].table = F!codexManagedTable
      /\ StateAfter(sg, u + 2) = F!Fresh
      /\ \A k \in 1 .. b : sg[q + k].isHeader <=> sc[a + k].isHeader
  BY OutHeaders
<1>5. /\ \A k \in 1 .. a : A[k].shape = "key" /\ A[k].name \in F!codexManagedKeys => StateAfter(sc, k - 1) # F!Fresh
      /\ b # 0 => \E h \in 1 .. b : sc[a + h].isHeader /\ \A j \in 1 .. h - 1 : Quiet(B[j])
      /\ \A k \in 1 .. b : sc[a + k].isHeader => B[k].name # F!codexManagedTable
  BY DEF Parts
<1> HIDE DEF a, b, u
<1>6. u \in Nat /\ p + a = u - 1 /\ u >= 3 /\ u + 2 <= q
  BY <1>1 DEF u
<1>7. \A i \in 1 .. Len(g) : ScanLine(g, r, sg, i)
  BY ScanFacts
<1>8. ASSUME NEW i \in 1 .. u
      PROVE  /\ i \in 1 .. Len(g) /\ sg[i].table = RootTable
             /\ F!tomlSectionOwner(sg, i) = RootTable
  <2>1. i \in 1 .. Len(g) /\ \A h \in 1 .. i : h \in 1 .. u
    BY <1>1, <1>6
  <2>2. sg[i].table = RootTable
    <3>1. \A h \in 1 .. i : ~sg[h].isHeader
      BY <1>4, <2>1
    <3>2. TomlFile(g) /\ IsScan(g, r, sg) /\ i \in 1 .. Len(g) /\ r \in BOOLEAN
      BY <1>1, <2>1
    <3> QED BY ONLY <3>1, <3>2, TableOf
  <2>3. ASSUME NEW h \in i + 1 .. Len(g), F!LeadsTo(sg, i, h) PROVE FALSE
    <3>1. h \in i .. Len(g) /\ h \in 1 .. Len(g)
      BY <1>1, <2>1
    <3>2. /\ sg[h].isHeader
          /\ \A j \in i .. h - 1 : \/ g[j].shape = "comment"
                                   \/ g[j].shape = "blank" /\ sg[h].table # F!codexManagedTable
      BY <1>1, <2>1, <2>3, <3>1, LeadsToIs
    <3>3. h > u
      BY <1>4, <1>6, <3>1, <3>2
    <3>4. CASE h = u + 1
      <4>1. u \in i .. h - 1
        BY <1>6, <3>4
      <4>2. F!Blank.shape = "blank" /\ g[u] = F!Blank
        BY <1>2 DEF F!Blank, F!Line
      <4>3. g[u].shape = "blank"
        BY ONLY <4>2
      <4> QED BY <1>4, <3>2, <3>4, <4>1, <4>3
    <3>5. CASE h > u + 1
      <4>1. u + 1 \in i .. h - 1
        BY <1>6, <3>1, <3>5
      <4>2. g[u + 1].shape = "header"
        BY <1>2, HeaderIs
      <4> QED BY <3>2, <4>1, <4>2
    <3> QED BY <1>6, <3>1, <3>3, <3>4, <3>5
  <2> QED BY <1>1, <2>1, <2>2, <2>3, Owner
<1>9. 1 \in 1 .. u /\ 2 \in 1 .. u /\ \A i \in 3 .. u : i \in 1 .. u
  BY <1>6
<1>10. sg[1].start = 1 /\ sg[2].start = 2 /\ sg[1].line = g[1] /\ sg[2].line = g[2]
  <2>1. 1 \in 1 .. Len(g) /\ 2 \in 1 .. Len(g)
    BY <1>8, <1>9
  <2>2. ScanLine(g, r, sg, 1) /\ ScanLine(g, r, sg, 2)
    BY <1>7, <2>1
  <2>3. 2 - 1 = 1
    OBVIOUS
  <2> QED BY <1>3, <2>2, <2>3 DEF ScanLine
<1>11. ~Kept(sg, 1) /\ ~Kept(sg, 2)
  <2>1. "model" \in F!codexManagedKeys /\ "model_provider" \in F!codexManagedKeys
    BY DEF F!codexManagedKeys
  <2>2. sg[1].line.shape = "key" /\ sg[1].line.name = "model"
    BY <1>2, <1>10, SettingIs
  <2>3. sg[2].line.shape = "key" /\ sg[2].line.name = "model_provider"
    BY <1>2, <1>10, SettingIs
  <2>4. F!tomlSectionOwner(sg, 1) = "" /\ F!tomlSectionOwner(sg, 2) = ""
    BY <1>8, <1>9 DEF RootTable
  <2>5. ~sg[1].isHeader /\ ~sg[2].isHeader
    BY <1>4, <1>9
  <2>6. F!tomlRootKey(sg, 1, F!codexManagedKeys)
    BY <1>10, <2>1, <2>2, <2>4, <2>5 DEF F!tomlRootKey
  <2>7. F!tomlRootKey(sg, 2, F!codexManagedKeys)
    BY <1>10, <2>1, <2>3, <2>4, <2>5 DEF F!tomlRootKey
  <2> QED BY <1>10, <2>6, <2>7 DEF Kept
<1>12. ASSUME NEW i \in 3 .. u PROVE Kept(sg, i)
  <2>1. i \in 1 .. Len(g) /\ F!tomlSectionOwner(sg, i) # F!codexManagedTable
    BY <1>8, <1>9, RootIsNoTable
  <2> DEFINE s == sg[i].start
  <2>2. s \in 1 .. i /\ 2 < s /\ sg[s].start = s
    <3>1. 2 \in 0 .. i - 1
      OBVIOUS
    <3> QED BY <1>1, <1>3, <2>1, <3>1, Starts
  <2> HIDE DEF s
  <2>3. s \in 1 .. Len(g) /\ s \in 3 .. u /\ s - 1 \in 1 .. Len(g) /\ s # 1
    <3>1. s \in Int /\ s >= 3 /\ s <= i /\ i <= u /\ i <= Len(g) /\ u \in Int /\ Len(g) \in Int
      BY <1>1, <1>6, <2>1, <2>2
    <3> QED BY ONLY <3>1
  <2>4. ASSUME F!tomlRootKey(sg, s, F!codexManagedKeys) PROVE FALSE
    <3>1. ScanLine(g, r, sg, s)
      BY <1>7, <2>3
    <3>2. g[s].shape = "key" /\ g[s].name \in F!codexManagedKeys /\ ~sg[s].isHeader
      BY <2>4, <3>1 DEF F!tomlRootKey, ScanLine
    <3>3. s \in p + 1 .. p + a
      <4>1. F!Blank.shape = "blank"
        BY DEF F!Blank, F!Line
      <4>2. g[s] # F!Blank
        BY ONLY <3>2, <4>1
      <4>3. s # u /\ ~(p = 3 /\ s = 3)
        BY <1>2, <4>2
      <4> QED BY <1>1, <1>6, <2>3, <4>3
    <3>4. s - p \in 1 .. a /\ p + (s - p) = s /\ (s - p) - 1 \in 0 .. a /\ p + ((s - p) - 1) = s - 1
          /\ 0 + ((s - p) - 1) = (s - p) - 1
      BY <1>1, <3>3
    <3>5. A[s - p] = g[s]
      BY <1>2, <3>4
    <3>6. StateAfter(sc, (s - p) - 1) # F!Fresh
      BY <1>5, <3>2, <3>4, <3>5
    <3>7. StateAfter(sg, p + ((s - p) - 1)) = StateAfter(sc, 0 + ((s - p) - 1))
      BY <1>3, <3>4 DEF SameScan
    <3>8. StateAfter(sg, s - 1) # F!Fresh
      BY <3>4, <3>6, <3>7
    <3>9. sg[s].start = sg[s - 1].start
      BY <2>3, <3>1, <3>2, <3>8 DEF ScanLine
    <3>10. sg[s - 1].start \in 1 .. s - 1
      BY <1>1, <2>3, Starts
    <3> QED BY <2>2, <3>9, <3>10
  <2> QED BY <2>1, <2>4 DEF Kept, s
<1>13. ~Kept(sg, u + 1) /\ F!tomlSectionOwner(sg, u + 1) = F!codexManagedTable
  <2>1. u + 1 \in 1 .. Len(g)
    BY <1>1, <1>6
  <2>2. ~Quiet(g[u + 1])
    BY <1>2, HeaderIs DEF Quiet
  <2>3. F!tomlSectionOwner(sg, u + 1) = F!codexManagedTable
    BY <1>1, <1>4, <2>1, <2>2, Owner
  <2> QED BY <2>3 DEF Kept
<1>14. ~Kept(sg, u + 2)
  <2>1. u + 2 \in 1 .. Len(g)
    BY <1>1, <1>6
  <2>2. ~Quiet(g[u + 2])
    BY <1>2, SettingIs DEF Quiet
  <2>3. F!tomlSectionOwner(sg, u + 2) = F!codexManagedTable
    BY <1>1, <1>4, <2>1, <2>2, Owner
  <2> QED BY <2>3 DEF Kept
<1>15. ASSUME NEW i \in u + 3 .. Len(g)
       PROVE  F!tomlSectionOwner(sg, i) # F!codexManagedTable /\ F!tomlSectionOwner(sg, i) # RootTable
  <2>1. b # 0 /\ q = u + 3
    BY <1>1, <1>6
  <2>2. PICK h \in 1 .. b : sc[a + h].isHeader /\ \A j \in 1 .. h - 1 : Quiet(B[j])
    BY <1>5, <2>1
  <2>3. sg[q + h].isHeader /\ q + h \in 1 .. Len(g) /\ i \in 1 .. Len(g)
    BY <1>1, <1>4, <1>6, <2>2
  <2>4. ASSUME NEW x \in u + 3 .. Len(g), sg[x].isHeader
        PROVE  g[x].name # F!codexManagedTable /\ sg[x].table = g[x].name /\ g[x].name # RootTable
    <3>1. x \in 1 .. Len(g)
      BY <1>6
    <3>2. ScanLine(g, r, sg, x) /\ IsTomlLine(g[x])
      BY <1>1, <1>7, <3>1 DEF TomlFile
    <3>3. g[x].shape = "header" /\ sg[x].table = g[x].name /\ g[x].name # RootTable
      BY <2>4, <3>2 DEF ScanLine, IsTomlLine
    <3>4. x # q
      <4>1. F!Blank.shape = "blank"
        BY DEF F!Blank, F!Line
      <4>2. g[x] # F!Blank
        BY ONLY <3>3, <4>1
      <4> QED BY <1>2, <2>1, <4>2
    <3>5. x - q \in 1 .. b /\ q + (x - q) = x
      BY <1>1, <2>1, <3>4
    <3>6. sc[a + (x - q)].isHeader /\ g[x] = B[x - q]
      BY <1>2, <1>4, <2>4, <3>5
    <3> QED BY <1>5, <3>3, <3>5, <3>6
  <2>5. CASE i <= q + h
    <3>1. q + h \in i .. Len(g) /\ q + h \in u + 3 .. Len(g)
      BY <1>1, <1>6, <2>1, <2>3, <2>5
    <3>2. \A j \in i .. (q + h) - 1 : Quiet(g[j])
      <4> SUFFICES ASSUME NEW j \in i .. (q + h) - 1 PROVE Quiet(g[j])
        OBVIOUS
      <4>1. CASE j = q
        BY <1>2, <2>1, <4>1, BlankIsQuiet
      <4>2. CASE j # q
        <5>1. j - q \in 1 .. h - 1 /\ j - q \in 1 .. b /\ q + (j - q) = j
          <6>1. j \in Int /\ i \in Int /\ h \in Nat /\ i >= q /\ h <= b
            BY <1>1, <1>6, <2>1, <2>2
          <6>2. j >= i /\ j <= (q + h) - 1
            BY <6>1, <1>1
          <6>3. j - q >= 1 /\ j - q <= h - 1 /\ j - q \in Int
            BY <6>1, <6>2, <4>2, <1>1
          <6> QED BY <6>1, <6>3, <1>1
        <5>2. g[q + (j - q)] = B[j - q]
          BY <1>2, <5>1
        <5> QED BY <2>2, <5>1, <5>2
      <4> QED BY <4>1, <4>2
    <3>3. g[q + h].name # F!codexManagedTable
      BY <2>3, <2>4, <3>1
    <3>4. F!tomlSectionOwner(sg, i) = g[q + h].name /\ g[q + h].name # RootTable
      <4> DEFINE w == q + h
      <4>1. QuietFrom(g, i, w) /\ sg[w].isHeader /\ g[w].name # F!codexManagedTable
            /\ i \in 1 .. Len(g) /\ w \in i .. Len(g)
        BY <2>3, <3>1, <3>2, <3>3 DEF QuietFrom
      <4> HIDE DEF w
      <4>2. F!tomlSectionOwner(sg, i) = g[w].name /\ g[w].name # RootTable
        BY <1>1, <4>1, LeadsOwner
      <4> QED BY <4>2 DEF w
    <3> QED BY <3>3, <3>4
  <2>6. CASE i > q + h
    <3>1. PICK x \in 1 .. i : sg[x].isHeader /\ sg[i].table = g[x].name /\ \A y \in x + 1 .. i : ~sg[y].isHeader
      <4>1. q + h \in 1 .. i
        BY <1>1, <2>3, <2>6
      <4>2. \/ sg[i].table = RootTable /\ \A y \in 1 .. i : ~sg[y].isHeader
            \/ \E x \in 1 .. i : /\ sg[x].isHeader /\ sg[i].table = g[x].name
                                 /\ \A y \in x + 1 .. i : ~sg[y].isHeader
        <5>1. TomlFile(g) /\ IsScan(g, r, sg) /\ i \in 1 .. Len(g) /\ r \in BOOLEAN
          BY <1>1, <2>3
        <5> QED BY ONLY <5>1, TableOf
      <4> QED BY <2>3, <4>1, <4>2
    <3>2. x \in u + 3 .. Len(g)
      <4>1. ~(q + h \in x + 1 .. i)
        BY <2>3, <3>1
      <4> QED BY <1>1, <1>6, <2>1, <2>6, <3>1, <4>1
    <3>3. sg[i].table # F!codexManagedTable /\ sg[i].table # RootTable
      BY <2>4, <3>1, <3>2
    <3>4. ASSUME NEW y \in i + 1 .. Len(g), F!LeadsTo(sg, i, y)
          PROVE  F!tomlSectionOwner(sg, i) # F!codexManagedTable /\ F!tomlSectionOwner(sg, i) # RootTable
      <4>1. y \in i .. Len(g) /\ y \in u + 3 .. Len(g)
        BY <1>6
      <4>2. sg[y].isHeader
        BY <1>1, <2>3, <3>4, <4>1, LeadsToIs
      <4>3. F!tomlSectionOwner(sg, i) = sg[y].table
        BY <1>1, <2>3, <3>4, Owner
      <4> QED BY <2>4, <4>1, <4>2, <4>3
    <3>5. (\A y \in i + 1 .. Len(g) : ~F!LeadsTo(sg, i, y)) => F!tomlSectionOwner(sg, i) = sg[i].table
      BY <1>1, <2>3, Owner
    <3> QED BY <3>3, <3>4, <3>5
  <2> QED BY <1>1, <1>6, <2>1, <2>5, <2>6
<1>16. ASSUME NEW i \in u + 3 .. Len(g) PROVE Kept(sg, i)
  <2>1. i \in 1 .. Len(g) /\ u + 2 \in 0 .. i - 1
    BY <1>6
  <2>2. sg[i].start \in 1 .. i /\ u + 2 < sg[i].start
    BY <1>1, <1>4, <2>1, Starts
  <2>3. sg[i].start \in u + 3 .. Len(g)
    <3> DEFINE x == sg[i].start
    <3>1. x \in 1 .. i /\ u + 2 < x
      BY <2>2
    <3> HIDE DEF x
    <3>2. x \in u + 3 .. Len(g)
      BY <1>1, <1>6, <2>1, <3>1
    <3> QED BY <3>2 DEF x
  <2>4. F!tomlSectionOwner(sg, sg[i].start) # RootTable
    BY <1>15, <2>3
  <2>5. ~F!tomlRootKey(sg, sg[i].start, F!codexManagedKeys)
    BY <2>4 DEF F!tomlRootKey, RootTable
  <2> QED BY <1>15, <2>5 DEF Kept
<1>17. KeptPlaces(g, sg) = (3 .. u) \cup (u + 3 .. Len(g))
  <2>1. ASSUME NEW i \in 1 .. Len(g) PROVE Kept(sg, i) <=> i \in (3 .. u) \cup (u + 3 .. Len(g))
    <3>1. i \in {1, 2, u + 1, u + 2} \/ i \in 3 .. u \/ i \in u + 3 .. Len(g)
      BY <1>6
    <3>2. \A x \in {1, 2, u + 1, u + 2} : x \notin (3 .. u) \cup (u + 3 .. Len(g))
      BY <1>6
    <3> QED BY <1>11, <1>12, <1>13, <1>14, <1>16, <3>1, <3>2
  <2>2. (3 .. u) \cup (u + 3 .. Len(g)) \subseteq 1 .. Len(g)
    BY <1>1, <1>6
  <2> QED BY <2>1, <2>2 DEF KeptPlaces
<1> QED BY <1>4, <1>8, <1>9, <1>10, <1>13, <1>17 DEF u, a

\* Without the places the merge has put there, the employee's parts stand alone.
LEMMA OutStrips ==
  ASSUME NEW S, NEW g, File(S, g), NEW A, A \in Seq(S), NEW B, B \in Seq(S), NEW m, NEW t,
         NEW p, NEW q, LaidOut(g, m, t, A, p, B, q),
         NEW u, u = p + Len(A) + 1, NEW places, places = (3 .. u) \cup (u + 3 .. Len(g)),
         NEW K, K = F!Select(g, places)
  PROVE  File(S, K) /\ Alone(K, A, p - 2, B, q - 4)
<1> DEFINE a == Len(A)
           b == Len(B)
           n == Len(g)
<1>1. /\ a \in Nat /\ b \in Nat /\ n \in Nat /\ p \in {2, 3} /\ q \in Nat /\ n = q + b /\ u = p + a + 1
      /\ (q = u + 2 /\ b = 0) \/ (q = u + 3 /\ b # 0)
  <2>1. a \in Nat /\ b \in Nat /\ (B = <<>> <=> b = 0) /\ u = p + a + 1
    OBVIOUS
  <2>2. p \in {2, 3} /\ ((q = p + a + 3 /\ B = <<>>) \/ (q = p + a + 4 /\ B # <<>>)) /\ n = q + b
    BY DEF LaidOut
  <2> HIDE DEF a, b, n
  <2> QED BY <2>1, <2>2
<1>2. /\ p = 3 => g[3] = F!Blank
      /\ g[u] = F!Blank
      /\ q = u + 3 => g[u + 3] = F!Blank
      /\ \A k \in 1 .. a : g[p + k] = A[k]
      /\ \A k \in 1 .. b : g[q + k] = B[k]
  <2>1. u + 3 = p + Len(A) + 4
    BY <1>1
  <2> QED BY <2>1 DEF LaidOut
<1>3. K \in Seq(S) /\ \E c : SelectCount(g, places, K, c)
  BY SelectCounts DEF File
<1>4. PICK c : SelectCount(g, places, K, c)
  BY <1>3
<1> HIDE DEF a, b, n
<1>5. u \in Nat /\ u >= 3 /\ u + 2 <= n /\ 0 \in 0 .. n /\ 2 \in 0 .. n /\ u \in 0 .. n /\ u + 2 \in 0 .. n /\ n \in 0 .. n
      /\ 2 \in 0 .. n /\ u \in 2 .. n /\ u + 2 \in u .. n /\ n \in u + 2 .. n
  BY <1>1
<1>6. c[0] = 0 /\ c[n] = Len(K) /\ \A j \in 1 .. n : j \in places => K[c[j]] = g[j]
  BY <1>4 DEF SelectCount, n
<1> DEFINE In(x, y) == \A j \in x + 1 .. y : j \in places
           Outside(x, y) == \A j \in x + 1 .. y : j \notin places
           Rises(x, y) == \A j \in x .. y : c[j] = c[x] + (j - x)
           Rests(x, y) == \A j \in x .. y : c[j] = c[x]
<1>7. ASSUME NEW x \in 0 .. n, NEW y \in x .. n
      PROVE  (In(x, y) => Rises(x, y)) /\ (Outside(x, y) => Rests(x, y))
  <2>1. Len(g) \in Nat /\ x \in 0 .. Len(g) /\ y \in x .. Len(g)
    BY <1>1 DEF n
  <2>2. (\A j \in x + 1 .. y : j \in places) => \A j \in x .. y : c[j] = c[x] + (j - x)
    BY ONLY <1>4, <2>1, CountRuns
  <2>3. (\A j \in x + 1 .. y : j \notin places) => \A j \in x .. y : c[j] = c[x]
    BY ONLY <1>4, <2>1, CountRuns
  <2> QED BY <2>2, <2>3
<1>8. Outside(0, 2) /\ In(2, u) /\ Outside(u, u + 2) /\ In(u + 2, n)
  <2>1. Outside(0, 2)
    BY <1>5
  <2>2. In(2, u)
    BY <1>5
  <2>3. Outside(u, u + 2)
    BY <1>5
  <2>4. In(u + 2, n)
    BY <1>5 DEF n
  <2> QED BY <2>1, <2>2, <2>3, <2>4
<1> HIDE DEF In, Outside
<1>9. Rests(0, 2) /\ Rises(2, u) /\ Rests(u, u + 2) /\ Rises(u + 2, n)
  <2> HIDE DEF Rises, Rests
  <2>1. 2 \in 0 .. n /\ 0 \in 0 .. n /\ 2 \in 0 .. 2 /\ 2 \in 0 .. n /\ u \in 2 .. n /\ u \in 0 .. n
        /\ u + 2 \in u .. n /\ u + 2 \in 0 .. n /\ n \in u + 2 .. n
    BY <1>5
  <2> QED BY <1>7, <1>8, <2>1
<1>10. \A j \in u + 2 .. n : c[j] = c[u + 2] + (j - (u + 2))
  BY <1>9
<1>11. c[2] = 0 /\ c[u] = u - 2 /\ c[u + 2] = u - 2 /\ Len(K) = n - 4
  <2>1. c[2] = 0
    <3>1. 2 \in 0 .. 2
      OBVIOUS
    <3> QED BY <1>6, <1>9, <3>1
  <2>2. c[u] = c[2] + (u - 2)
    <3>1. u \in 2 .. u
      BY <1>5
    <3> QED BY <1>9, <3>1
  <2>3. c[u + 2] = c[u]
    <3>1. u + 2 \in u .. u + 2
      BY <1>5
    <3> QED BY <1>9, <3>1
  <2>4. c[n] = c[u + 2] + (n - (u + 2))
    <3>1. n \in u + 2 .. n
      BY <1>5
    <3> QED BY <1>10, <3>1
  <2>5. c[u] = u - 2
    BY <1>5, <2>1, <2>2
  <2>6. c[n] = n - 4
    BY <1>1, <1>5, <2>3, <2>4, <2>5
  <2> QED BY <1>6, <2>1, <2>3, <2>5, <2>6
<1>12. ASSUME NEW j \in 3 .. u PROVE K[j - 2] = g[j]
  <2>1. j \in places /\ j \in 1 .. n /\ j \in 2 .. u
    BY <1>5
  <2>2. K[c[j]] = g[j] /\ c[j] = c[2] + (j - 2)
    BY <1>6, <1>9, <2>1
  <2>3. j \in Int /\ 0 + (j - 2) = j - 2
    BY <1>5, <2>1
  <2>4. c[j] = j - 2
    BY ONLY <1>11, <2>2, <2>3
  <2> QED BY <2>2, <2>4
<1>13. ASSUME NEW j \in u + 3 .. n PROVE K[j - 4] = g[j]
  <2>1. j \in 1 .. n /\ j \in u + 2 .. n
    BY <1>1, <1>5
  <2>2. j \in places
    BY DEF n
  <2>3. K[c[j]] = g[j] /\ c[j] = c[u + 2] + (j - (u + 2))
    BY <1>6, <1>10, <2>1, <2>2
  <2>4. j \in Int /\ u \in Int /\ (u - 2) + (j - (u + 2)) = j - 4
    BY <1>5, <2>1
  <2>5. c[j] = j - 4
    BY ONLY <1>11, <2>3, <2>4
  <2> QED BY <2>3, <2>5
<1>14. ASSUME NEW k \in 1 .. a PROVE K[(p - 2) + k] = A[k]
  <2>1. p + k \in 3 .. u /\ (p + k) - 2 = (p - 2) + k
    BY <1>1
  <2> QED BY <1>2, <1>12, <2>1
<1>15. ASSUME NEW k \in 1 .. b PROVE K[(q - 4) + k] = B[k]
  <2>1. q + k \in u + 3 .. n /\ (q + k) - 4 = (q - 4) + k
    BY <1>1
  <2> QED BY <1>2, <1>13, <2>1
<1>16. ASSUME NEW i \in 1 .. Len(K), i <= p - 2 \/ (i > (p - 2) + a /\ i <= q - 4) \/ i > (q - 4) + b
       PROVE  K[i] = F!Blank
  <2>1. (p = 3 /\ i = 1) \/ i = u - 2 \/ (q = u + 3 /\ i = u - 1)
    <3>1. i \in Int /\ i >= 1 /\ i <= n - 4
      BY <1>1, <1>11
    <3>2. CASE i <= p - 2
      BY <1>1, <3>1, <3>2
    <3>3. CASE i > (p - 2) + a /\ i <= q - 4
      BY <1>1, <3>1, <3>3
    <3>4. ~(i > (q - 4) + b)
      BY <1>1, <3>1
    <3> QED BY <1>16, <3>2, <3>3, <3>4
  <2>2. CASE p = 3 /\ i = 1
    <3>1. 3 \in 3 .. u /\ 3 - 2 = 1
      BY <1>5
    <3> QED BY <1>2, <1>12, <2>2, <3>1
  <2>3. CASE i = u - 2
    <3>1. u \in 3 .. u
      BY <1>5
    <3> QED BY <1>2, <1>12, <2>3, <3>1
  <2>4. CASE q = u + 3 /\ i = u - 1
    <3>1. u + 3 \in u + 3 .. n /\ (u + 3) - 4 = u - 1
      BY <1>1, <2>4
    <3> QED BY <1>2, <1>13, <2>4, <3>1
  <2> QED BY <2>1, <2>2, <2>3, <2>4
<1>17. p - 2 \in Nat /\ q - 4 \in Nat /\ (p - 2) + a <= q - 4 /\ (q - 4) + b <= Len(K)
  BY <1>1, <1>11
<1>18. File(S, K)
  BY <1>3 DEF File
<1> QED BY <1>14, <1>15, <1>16, <1>17, <1>18 DEF Alone, Standing, a, b

LEMMA NotBlank ==
  ASSUME NEW l, l.shape = "key" \/ l.shape = "header"
  PROVE  l # F!Blank
<1>1. F!Blank.shape = "blank"
  BY DEF F!Blank, F!Line
<1> QED BY ONLY <1>1, l.shape = "key" \/ l.shape = "header"

LEMMA TrimNonEmpty ==
  ASSUME NEW S, NEW s, s \in Seq(S), NEW i \in 1 .. Len(s), s[i] # F!Blank
  PROVE  F!trimBlankTomlLines(s) # <<>>
<1> DEFINE t == F!trimBlankTomlLines(s)
<1>1. t \in Seq(S) /\ \E p : Surrounded(s, t, p)
  BY TrimHas
<1>2. PICK p : Surrounded(s, t, p)
  BY <1>1
<1> HIDE DEF t
<1>3. ASSUME t = <<>> PROVE FALSE
  <2>1. Len(t) = 0
    BY <1>3
  <2>2. p \in Nat /\ (i <= p \/ i > p + 0)
    BY <1>2 DEF Surrounded
  <2> QED BY <1>2, <2>1, <2>2 DEF Surrounded
<1> QED BY <1>3 DEF t

\* The fragment is what a merge with nothing of the employee's makes.
LEMMA FragmentIs ==
  ASSUME NEW m, NEW t
  PROVE  F!RenderGatewayConfig(m, t) = Out(m, t, <<>>, <<>>)
  BY DEF F!RenderGatewayConfig, Out, WithGate, Roots, Root0, Gate

LEMMA Assembled ==
  ASSUME NEW S, NEW m, NEW t, Delivers(S, m, t), NEW A, A \in Seq(S), NEW B, B \in Seq(S),
         NEW dr, F!trimBlankTomlLines(dr) = Root0(m), NEW dt, F!trimBlankTomlLines(dt) = Gate(t),
         NEW kr, F!trimBlankTomlLines(kr) = A, NEW kt, F!trimBlankTomlLines(kt) = B
  PROVE  F!appendTomlSection(F!appendTomlSection(F!appendTomlSection(F!appendTomlSection(<<>>, dr), kr), dt), kt)
           = Out(m, t, A, B)
<1>1. Root0(m) # <<>> /\ Gate(t) # <<>>
  BY DEF Root0, Gate
<1>2. F!appendTomlSection(<<>>, dr) = Root0(m)
  BY <1>1 DEF F!appendTomlSection
<1>3. F!appendTomlSection(Root0(m), kr) = Roots(m, A)
  BY <1>1 DEF F!appendTomlSection, Roots
<1>4. Roots(m, A) # <<>>
  BY RootsLaidOut
<1>5. F!appendTomlSection(Roots(m, A), dt) = WithGate(m, t, A)
  BY <1>1, <1>4 DEF F!appendTomlSection, WithGate
<1>6. WithGate(m, t, A) # <<>>
  <2>1. Roots(m, A) \in Seq(S) /\ <<F!Blank>> \in Seq(S) /\ Gate(t) \in Seq(S)
    BY RootsLaidOut DEF Gate, Delivers
  <2>2. Len(Gate(t)) = 2 /\ Len(<<F!Blank>>) = 1
    BY DEF Gate
  <2>3. Len(WithGate(m, t, A)) = Len(Roots(m, A)) + 1 + 2
    <3>1. ASSUME NEW x \in Seq(S), NEW y \in Seq(S), NEW z \in Seq(S)
          PROVE  Len(x \o y \o z) = Len(x) + Len(y) + Len(z)
      OBVIOUS
    <3>2. Len(WithGate(m, t, A)) = Len(Roots(m, A)) + Len(<<F!Blank>>) + Len(Gate(t))
      BY <2>1, <3>1 DEF WithGate
    <3> QED BY <2>2, <3>2
  <2>4. Len(Roots(m, A)) \in Nat
    BY <2>1
  <2>5. Len(WithGate(m, t, A)) # 0
    BY <2>3, <2>4
  <2>6. Len(<<>>) = 0
    OBVIOUS
  <2> QED BY ONLY <2>5, <2>6
<1>7. F!appendTomlSection(WithGate(m, t, A), kt) = Out(m, t, A, B)
  BY <1>6 DEF F!appendTomlSection, Out
<1> QED BY <1>2, <1>3, <1>5, <1>7

LEMMA NothingParts ==
  ASSUME NEW S, NEW r \in BOOLEAN, r <=> ~F!Closed(<<>> \o <<>>)
  PROVE  /\ ~r
         /\ \A sc : Parts(<<>>, <<>>, sc)
         /\ <<>> \o <<>> = <<>>
<1>1. <<>> \o <<>> = <<>>
  OBVIOUS
<1>2. F!Closed(<<>>)
  BY DEF F!Closed
<1>3. ASSUME NEW sc PROVE Parts(<<>>, <<>>, sc)
  <2>1. Len(<<>>) = 0 /\ 1 .. 0 = {}
    OBVIOUS
  <2> QED BY <2>1 DEF Parts, Trimmed
<1> QED BY <1>1, <1>2, <1>3

OutMarks(g, r, sg, u) ==
  /\ IsScan(g, r, sg)
  /\ KeptPlaces(g, sg) = (3 .. u) \cup (u + 3 .. Len(g))
  /\ \A i \in 1 .. u : F!tomlSectionOwner(sg, i) = RootTable
  /\ F!tomlSectionOwner(sg, u + 1) = F!codexManagedTable
  /\ sg[1].start = 1 /\ ~sg[1].isHeader /\ sg[1].line = g[1]

\* What a scan finds of the merge's own file.
LEMMA OutFacts ==
  ASSUME NEW S, NEW m, NEW t, NEW g, File(S, g), NEW A, A \in Seq(S), NEW B, B \in Seq(S),
         NEW p, NEW q, LaidOut(g, m, t, A, p, B, q), NEW r \in BOOLEAN, r <=> ~F!Closed(A \o B),
         NEW sc, IsScan(A \o B, r, sc), Parts(A, B, sc),
         NEW sg, sg = F!scanTomlLines(g), NEW u, u = p + Len(A) + 1
  PROVE  OutMarks(g, r, sg, u)
<1>1. IsScan(g, ~F!Closed(g), sg)
  BY ScanTomlIs
<1>2. ~F!Closed(g) <=> r
  BY OutCloses
<1>3. (~F!Closed(g)) = r
  BY <1>2, ScanTomlIs
<1>4. IsScan(g, r, sg)
  BY <1>1, <1>3
<1> QED BY <1>4, OutKept DEF OutMarks

LEMMA FragmentLaidOut ==
  ASSUME NEW S, NEW m, NEW t, Delivers(S, m, t), NEW I, I = F!RenderGatewayConfig(m, t)
  PROVE  /\ I \in Seq(S) /\ Len(I) = 5
         /\ I[1] = F!Setting("model", m) /\ I[2] = F!Setting("model_provider", "gateway") /\ I[3] = F!Blank
         /\ I[4] = F!Header(F!codexManagedTable) /\ I[5] = F!Setting("experimental_bearer_token", t)
         /\ \E p, q : p = 2 /\ LaidOut(I, m, t, <<>>, p, <<>>, q)
<1>1. /\ I \in Seq(S) /\ Len(I) = 5
      /\ I[1] = F!Setting("model", m) /\ I[2] = F!Setting("model_provider", "gateway") /\ I[3] = F!Blank
      /\ I[4] = F!Header(F!codexManagedTable) /\ I[5] = F!Setting("experimental_bearer_token", t)
  BY DEF F!RenderGatewayConfig, Delivers
<1>2. <<>> \in Seq(S)
  OBVIOUS
<1>3. \E p, q : LaidOut(Out(m, t, <<>>, <<>>), m, t, <<>>, p, <<>>, q)
  BY <1>2, OutLaidOut
<1>4. I = Out(m, t, <<>>, <<>>)
  BY FragmentIs
<1>5. PICK p, q : LaidOut(I, m, t, <<>>, p, <<>>, q)
  BY ONLY <1>3, <1>4
<1>6. p = 2
  BY <1>5 DEF LaidOut
<1> QED BY <1>1, <1>5, <1>6

LEMMA FragmentScanned ==
  ASSUME NEW S, TomlLines(S), NEW m, NEW t, Delivers(S, m, t), NEW I, I = F!RenderGatewayConfig(m, t),
         NEW si, si = F!scanTomlLines(I)
  PROVE  /\ \A i \in 1 .. 3 : F!tomlSectionOwner(si, i) = RootTable
         /\ F!tomlSectionOwner(si, 4) = F!codexManagedTable
         /\ si[1].start = 1 /\ ~si[1].isHeader
         /\ DOMAIN si = 1 .. 5 /\ \A i \in 1 .. 5 : si[i].line = I[i]
<1>1. I \in Seq(S) /\ Len(I) = 5 /\ \E p, q : p = 2 /\ LaidOut(I, m, t, <<>>, p, <<>>, q)
  BY FragmentLaidOut
<1>2. PICK p, q : p = 2 /\ LaidOut(I, m, t, <<>>, p, <<>>, q)
  BY <1>1
<1> DEFINE E == <<>>
           r == ~F!Closed(E \o E)
<1>3. E \in Seq(S) /\ E \o E = E /\ Len(E) = 0 /\ File(S, I) /\ File(S, E)
  BY <1>1 DEF File
<1>4. r \in BOOLEAN /\ (r <=> ~F!Closed(E \o E)) /\ \A sc : Parts(E, E, sc)
  BY <1>3, ScanTomlIs, NothingParts
<1>5. LaidOut(I, m, t, E, p, E, q)
  BY <1>2
<1> HIDE DEF r, E
<1>6. PICK sc : IsScan(E \o E, r, sc)
  BY <1>3, <1>4, ScanIs
<1>7. Parts(E, E, sc)
  BY <1>4
<1> DEFINE u == p + Len(E) + 1
<1>8. u = 3 /\ u + 1 = 4
  BY <1>2, <1>3
<1> HIDE DEF u
<1>9. OutMarks(I, r, si, u)
  <2>1. u = p + Len(E) + 1
    BY DEF u
  <2> QED BY <1>3, <1>4, <1>5, <1>6, <1>7, <2>1, OutFacts
<1>10. /\ IsScan(I, r, si)
       /\ \A i \in 1 .. 3 : F!tomlSectionOwner(si, i) = RootTable
       /\ F!tomlSectionOwner(si, 4) = F!codexManagedTable
       /\ si[1].start = 1 /\ ~si[1].isHeader
  BY <1>8, <1>9 DEF OutMarks
<1>11. DOMAIN si = 1 .. 5 /\ \A i \in 1 .. 5 : si[i].line = I[i]
  BY <1>1, <1>10 DEF IsScan, ScanLine
<1> QED BY <1>10, <1>11

LEMMA FragmentSplits ==
  ASSUME NEW S, TomlLines(S), NEW m, NEW t, Delivers(S, m, t), NEW I, I = F!RenderGatewayConfig(m, t)
  PROVE  /\ F!trimBlankTomlLines(F!splitTomlRootAndTables(I).root) = Root0(m)
         /\ F!trimBlankTomlLines(F!splitTomlRootAndTables(I).tables) = Gate(t)
<1>1. /\ I \in Seq(S) /\ Len(I) = 5
      /\ I[1] = F!Setting("model", m) /\ I[2] = F!Setting("model_provider", "gateway") /\ I[3] = F!Blank
      /\ I[4] = F!Header(F!codexManagedTable) /\ I[5] = F!Setting("experimental_bearer_token", t)
  BY FragmentLaidOut
<1>2. F!RootLength(I) = 3
  <2>1. \A i \in 1 .. 3 : F!tomlSectionOwner(F!scanTomlLines(I), i) = RootTable
    BY FragmentScanned
  <2>2. F!tomlSectionOwner(F!scanTomlLines(I), 3 + 1) # RootTable
    BY FragmentScanned, RootIsNoTable
  <2>3. 3 \in 0 .. Len(I) /\ Len(I) \in Nat
    BY <1>1
  <2> QED BY <2>1, <2>2, <2>3, RootLengthIs
<1> DEFINE Z == SubSeq(I, 1, 3)
           T == SubSeq(I, 4, 5)
<1>3. F!splitTomlRootAndTables(I).root = Z /\ F!splitTomlRootAndTables(I).tables = T
  <2>1. 3 + 1 = 4
    OBVIOUS
  <2> QED BY <1>1, <1>2, <2>1 DEF F!splitTomlRootAndTables
<1>4. Z \in Seq(S) /\ Len(Z) = 3 /\ Z[1] = I[1] /\ Z[2] = I[2] /\ Z[3] = I[3]
  <2> DEFINE n == 3
  <2>1. n \in 0 .. Len(I) /\ n = 3
    BY <1>1
  <2> HIDE DEF Z, n
  <2>2. SubSeq(I, 1, n) \in Seq(S) /\ Len(SubSeq(I, 1, n)) = n /\ \A i \in 1 .. n : SubSeq(I, 1, n)[i] = I[i]
    <3>1. I \in Seq(S) /\ n \in 0 .. Len(I)
      BY <1>1, <2>1
    <3> QED BY ONLY <3>1, LinesOfASubSeq
  <2>3. SubSeq(I, 1, n) = Z
    BY <2>1 DEF Z
  <2>4. 1 \in 1 .. 3 /\ 2 \in 1 .. 3 /\ 3 \in 1 .. 3
    OBVIOUS
  <2> QED BY <2>1, <2>2, <2>3, <2>4
<1>5. T \in Seq(S) /\ Len(T) = 2 /\ T[1] = I[4] /\ T[2] = I[5]
  <2> DEFINE n == 3
  <2>1. n \in 0 .. Len(I) /\ n + 1 = 4 /\ Len(I) - n = 2 /\ n + 2 = 5
    BY <1>1
  <2> HIDE DEF T, n
  <2>2. /\ SubSeq(I, n + 1, Len(I)) \in Seq(S) /\ Len(SubSeq(I, n + 1, Len(I))) = Len(I) - n
        /\ \A i \in 1 .. Len(I) - n : SubSeq(I, n + 1, Len(I))[i] = I[n + i]
    <3>1. I \in Seq(S) /\ n \in 0 .. Len(I)
      BY <1>1, <2>1
    <3> QED BY ONLY <3>1, LinesOfASubSeq
  <2>3. SubSeq(I, n + 1, Len(I)) = T
    BY <1>1, <2>1 DEF T
  <2>4. 1 \in 1 .. 2 /\ 2 \in 1 .. 2
    OBVIOUS
  <2> QED BY <2>1, <2>2, <2>3, <2>4
<1> HIDE DEF Z, T
<1>6. F!trimBlankTomlLines(Z) = Root0(m)
  <2> DEFINE s == Root0(m)
  <2>1. s \in Seq(S) /\ Len(s) = 2 /\ s[1] = F!Setting("model", m) /\ s[2] = F!Setting("model_provider", "gateway")
    BY DEF Root0, Delivers
  <2> HIDE DEF s
  <2>2. s[1] # F!Blank /\ s[Len(s)] # F!Blank
    BY <2>1, SettingIs, NotBlank
  <2>3. Surrounded(Z, s, 0)
    BY <1>1, <1>4, <2>1 DEF Surrounded
  <2>4. Trimmed(s)
    BY <2>2 DEF Trimmed
  <2> QED BY <1>4, <2>1, <2>3, <2>4, TrimIs DEF s
<1>7. F!trimBlankTomlLines(T) = Gate(t)
  <2> DEFINE s == Gate(t)
  <2>1. s \in Seq(S) /\ Len(s) = 2 /\ s[1] = F!Header(F!codexManagedTable) /\ s[2] = F!Setting("experimental_bearer_token", t)
    BY DEF Gate, Delivers
  <2> HIDE DEF s
  <2>2. s[1] # F!Blank /\ s[Len(s)] # F!Blank
    BY <2>1, SettingIs, HeaderIs, NotBlank
  <2>3. Surrounded(T, s, 0)
    BY <1>1, <1>5, <2>1 DEF Surrounded
  <2>4. Trimmed(s)
    BY <2>2 DEF Trimmed
  <2> QED BY <1>5, <2>1, <2>3, <2>4, TrimIs DEF s
<1> QED BY <1>3, <1>6, <1>7

\* Setting the model in a fragment makes the fragment with that model.
LEMMA FragmentWithModel ==
  ASSUME NEW S, TomlLines(S), NEW m, NEW t, Delivers(S, m, t), NEW n
  PROVE  F!setRootString(F!RenderGatewayConfig(m, t), "model", n) = F!RenderGatewayConfig(n, t)
<1> DEFINE I == F!RenderGatewayConfig(m, t)
           J == F!RenderGatewayConfig(n, t)
           si == F!scanTomlLines(I)
<1>1. /\ I \in Seq(S) /\ Len(I) = 5
      /\ I[1] = F!Setting("model", m) /\ I[2] = F!Setting("model_provider", "gateway") /\ I[3] = F!Blank
      /\ I[4] = F!Header(F!codexManagedTable) /\ I[5] = F!Setting("experimental_bearer_token", t)
  BY FragmentLaidOut
<1>2. /\ \A i \in 1 .. 3 : F!tomlSectionOwner(si, i) = RootTable
      /\ si[1].start = 1 /\ ~si[1].isHeader
      /\ \A i \in 1 .. 5 : si[i].line = I[i]
  BY FragmentScanned
<1>3. /\ DOMAIN J = 1 .. 5
      /\ J[1] = F!Setting("model", n) /\ J[2] = I[2] /\ J[3] = I[3] /\ J[4] = I[4] /\ J[5] = I[5]
  BY DEF F!RenderGatewayConfig
<1>4. DOMAIN I = 1 .. 5
  BY <1>1
<1>5. F!Blank.shape = "blank"
  BY DEF F!Blank, F!Line
<1>6. F!setRootString(I, "model", n) = [i \in DOMAIN I |-> IF F!tomlRootKey(si, i, {"model"}) THEN F!Setting("model", n) ELSE I[i]]
  BY DEF F!setRootString
<1>7. J = [i \in 1 .. 5 |-> J[i]]
  BY DEF F!RenderGatewayConfig
<1> HIDE DEF I, J, si
<1>8. F!tomlRootKey(si, 1, {"model"})
  <2>1. si[1].line.shape = "key" /\ si[1].line.name = "model"
    BY <1>1, <1>2, SettingIs
  <2>2. F!tomlSectionOwner(si, 1) = ""
    <3>1. 1 \in 1 .. 3
      OBVIOUS
    <3> QED BY <1>2, <3>1 DEF RootTable
  <2> QED BY <1>2, <2>1, <2>2 DEF F!tomlRootKey
<1>9. ASSUME NEW i \in 2 .. 5 PROVE ~F!tomlRootKey(si, i, {"model"})
  <2>1. I[i].shape # "key" \/ I[i].name # "model"
    <3>1. CASE i = 2
      BY <1>1, <3>1, SettingIs
    <3>2. CASE i = 3
      BY <1>1, <1>5, <3>2
    <3>3. CASE i = 4
      BY <1>1, <3>3, HeaderIs
    <3>4. CASE i = 5
      BY <1>1, <3>4, SettingIs
    <3> QED BY <3>1, <3>2, <3>3, <3>4
  <2>2. i \in 1 .. 5
    OBVIOUS
  <2>3. si[i].line = I[i]
    BY <1>2, <2>2
  <2>4. si[i].line.shape # "key" \/ si[i].line.name \notin {"model"}
    BY ONLY <2>1, <2>3
  <2> QED BY ONLY <2>4 DEF F!tomlRootKey
<1>10. \A i \in 1 .. 5 : (IF F!tomlRootKey(si, i, {"model"}) THEN F!Setting("model", n) ELSE I[i]) = J[i]
  <2>1. \A i \in 2 .. 5 : I[i] = J[i]
    <3>1. \A i \in 2 .. 5 : i = 2 \/ i = 3 \/ i = 4 \/ i = 5
      OBVIOUS
    <3> QED BY <1>3, <3>1
  <2>2. \A i \in 1 .. 5 : i = 1 \/ i \in 2 .. 5
    OBVIOUS
  <2> QED BY <1>3, <1>8, <1>9, <2>1, <2>2
<1>11. [i \in 1 .. 5 |-> IF F!tomlRootKey(si, i, {"model"}) THEN F!Setting("model", n) ELSE I[i]] = [i \in 1 .. 5 |-> J[i]]
  BY <1>10
<1>12. F!setRootString(I, "model", n) = J
  BY <1>4, <1>6, <1>7, <1>11
<1> QED BY <1>12 DEF I, J

Delivery(S, models, m0, t) == \A m \in models \cup {m0} : Delivers(S, m, t)
Merge(f, m0, t, models) == F!mergeCodexConfigKeeping(f, F!RenderGatewayConfig(m0, t), models)
Chosen(f, m0, models) == LET current == F!rootStringValue(f, "model") IN IF current \in models \ {""} THEN current ELSE m0
Choosable(m0, models) == (models \ {""}) \cup {m0}

LEMMA MergeIs ==
  ASSUME NEW S, TomlLines(S), NEW models, NEW m0, NEW t, Delivery(S, models, m0, t),
         NEW f, f \in Seq(S), F!trimBlankTomlLines(f) # <<>>,
         NEW K, K = F!stripCodexManaged(f), NEW n, n = F!RootLength(K),
         NEW A, A = F!trimBlankTomlLines(SubSeq(K, 1, n)), A \in Seq(S),
         NEW B, B = F!trimBlankTomlLines(SubSeq(K, n + 1, Len(K))), B \in Seq(S),
         NEW m, m = Chosen(f, m0, models)
  PROVE  m \in Choosable(m0, models) /\ m \in models \cup {m0} /\ Merge(f, m0, t, models) = Out(m, t, A, B)
<1> DEFINE current == F!rootStringValue(f, "model")
           I == F!RenderGatewayConfig(m0, t)
           J == IF current \in models \ {""} THEN F!setRootString(I, "model", current) ELSE I
           d == F!splitTomlRootAndTables(J)
           k == F!splitTomlRootAndTables(K)
<1>1. m \in Choosable(m0, models) /\ m \in models \cup {m0} /\ (m = IF current \in models \ {""} THEN current ELSE m0)
  BY DEF Chosen, Choosable
<1>2. Delivers(S, m0, t) /\ Delivers(S, m, t)
  BY <1>1 DEF Delivery
<1>3. J = F!RenderGatewayConfig(m, t)
  <2>1. F!setRootString(I, "model", current) = F!RenderGatewayConfig(current, t)
    BY <1>2, FragmentWithModel
  <2> QED BY <1>1, <2>1
<1>4. F!trimBlankTomlLines(d.root) = Root0(m) /\ F!trimBlankTomlLines(d.tables) = Gate(t)
  <2> HIDE DEF J
  <2> QED BY <1>2, <1>3, FragmentSplits
<1>5. F!trimBlankTomlLines(k.root) = A /\ F!trimBlankTomlLines(k.tables) = B
  BY DEF F!splitTomlRootAndTables
<1>6. Merge(f, m0, t, models)
        = F!appendTomlSection(F!appendTomlSection(F!appendTomlSection(F!appendTomlSection(<<>>, d.root), k.root), d.tables), k.tables)
  BY DEF Merge, F!mergeCodexConfigKeeping
<1> HIDE DEF d, k
<1>7. F!appendTomlSection(F!appendTomlSection(F!appendTomlSection(F!appendTomlSection(<<>>, d.root), k.root), d.tables), k.tables)
        = Out(m, t, A, B)
  BY <1>2, <1>4, <1>5, Assembled
<1> QED BY <1>1, <1>6, <1>7

\* A file the merge has made: the fragment around two parts that no scan takes
\* anything from.
MadeBy(S, g, m, t, A, B) ==
  /\ A \in Seq(S) /\ B \in Seq(S) /\ g = Out(m, t, A, B)
  /\ \E r \in BOOLEAN : /\ r <=> ~F!Closed(A \o B)
                        /\ \E sc : IsScan(A \o B, r, sc) /\ Parts(A, B, sc)

\* The merge of a file it has made writes the same file.
LEMMA Settled ==
  ASSUME NEW S, TomlLines(S), NEW models, NEW m0, NEW t, Delivery(S, models, m0, t),
         NEW m \in Choosable(m0, models), NEW A, NEW B, NEW g, MadeBy(S, g, m, t, A, B)
  PROVE  Merge(g, m0, t, models) = g
<1>1. A \in Seq(S) /\ B \in Seq(S) /\ g = Out(m, t, A, B) /\ Delivers(S, m, t)
  BY DEF MadeBy, Delivery, Choosable
<1>2. PICK r \in BOOLEAN : /\ r <=> ~F!Closed(A \o B)
                           /\ \E sc : IsScan(A \o B, r, sc) /\ Parts(A, B, sc)
  BY DEF MadeBy
<1>3. PICK sc : IsScan(A \o B, r, sc) /\ Parts(A, B, sc)
  BY <1>2
<1>4. g \in Seq(S) /\ \E p, q : LaidOut(g, m, t, A, p, B, q)
  BY <1>1, OutLaidOut
<1>5. PICK p, q : LaidOut(g, m, t, A, p, B, q)
  BY <1>4
<1>6. File(S, g)
  BY <1>4 DEF File
<1> DEFINE sg == F!scanTomlLines(g)
           u == p + Len(A) + 1
           K == F!stripCodexManaged(g)
           sk == F!scanTomlLines(K)
           n == F!RootLength(K)
<1>7. OutMarks(g, r, sg, u)
  BY <1>1, <1>2, <1>3, <1>5, <1>6, OutFacts
<1>8. K = F!Select(g, KeptPlaces(g, sg))
  BY StripIs
<1> HIDE DEF sg, K
<1>9. File(S, K) /\ Alone(K, A, p - 2, B, q - 4)
  <2> DEFINE places == (3 .. u) \cup (u + 3 .. Len(g))
  <2>1. KeptPlaces(g, sg) = places /\ K = F!Select(g, places)
    BY <1>7, <1>8 DEF OutMarks
  <2> HIDE DEF places, u
  <2>2. u = p + Len(A) + 1 /\ places = (3 .. u) \cup (u + 3 .. Len(g))
    BY DEF places, u
  <2> QED BY <1>1, <1>5, <1>6, <2>1, <2>2, OutStrips
<1>10. IsScan(K, r, sk)
  <2>1. IsScan(K, ~F!Closed(K), sk) /\ (~F!Closed(K)) \in BOOLEAN
    BY <1>9, ScanTomlIs
  <2>2. F!Closed(K) <=> F!Closed(A \o B)
    BY <1>1, <1>9, AloneCloses
  <2>3. (~F!Closed(K)) = r
    BY <1>2, <2>1, <2>2
  <2> QED BY <2>1, <2>3
<1> HIDE DEF sk
<1>11. F!trimBlankTomlLines(SubSeq(K, 1, n)) = A /\ F!trimBlankTomlLines(SubSeq(K, n + 1, Len(K))) = B
  <2>1. sk = F!scanTomlLines(K)
    BY DEF sk
  <2> QED BY <1>1, <1>2, <1>3, <1>9, <1>10, <2>1, SplitIs
<1>12. g[1] = F!Setting("model", m) /\ 1 \in 1 .. Len(g)
  <2>1. Len(g) # 0 /\ Len(g) \in Nat
    <3>1. Len(A) \in Nat /\ Len(B) \in Nat /\ p \in {2, 3}
      BY <1>1, <1>5 DEF LaidOut
    <3>2. Len(g) = q + Len(B) /\ (q = p + Len(A) + 3 \/ q = p + Len(A) + 4)
      BY <1>5 DEF LaidOut
    <3> QED BY <3>1, <3>2
  <2>2. g[1] = F!Setting("model", m)
    BY <1>5 DEF LaidOut
  <2>3. 1 \in 1 .. Len(g)
    BY <2>1
  <2> QED BY <2>2, <2>3
<1>13. F!trimBlankTomlLines(g) # <<>>
  <2>1. g[1] # F!Blank
    BY <1>12, SettingIs, NotBlank
  <2> QED BY <1>4, <1>12, <2>1, TrimNonEmpty
<1>14. F!rootStringValue(g, "model") = m
  <2> DEFINE at == {i \in DOMAIN sg : F!tomlRootKey(sg, i, {"model"})}
  <2>1. DOMAIN sg = 1 .. Len(g) /\ Len(g) \in Nat
    BY <1>4, <1>7 DEF OutMarks, IsScan
  <2>2. sg[1].start = 1 /\ ~sg[1].isHeader /\ sg[1].line = g[1]
    BY <1>7 DEF OutMarks
  <2>3. F!tomlSectionOwner(sg, 1) = ""
    <3>1. 1 \in 1 .. u
      <4>1. p \in {2, 3} /\ Len(A) \in Nat
        BY <1>1, <1>5 DEF LaidOut
      <4> QED BY <4>1
    <3> QED BY <1>7, <3>1 DEF OutMarks, RootTable
  <2>4. sg[1].line.shape = "key" /\ sg[1].line.name = "model" /\ sg[1].line.value = m
    BY <1>12, <2>2, SettingIs
  <2>5. F!tomlRootKey(sg, 1, {"model"})
    BY <2>2, <2>3, <2>4 DEF F!tomlRootKey
  <2>6. 1 \in at /\ \A i \in at : 1 <= i /\ i \in Nat
    BY <1>12, <2>1, <2>5
  <2>7. F!rootStringValue(g, "model") = IF at = {} THEN "" ELSE sg[F!Min(at)].line.value
    BY DEF F!rootStringValue, sg
  <2> HIDE DEF at
  <2>8. F!Min(at) = 1
    BY <2>6 DEF F!Min
  <2> QED BY <2>4, <2>6, <2>7, <2>8
<1>15. Chosen(g, m0, models) = m
  BY <1>14 DEF Chosen, Choosable
<1> HIDE DEF n
<1>16. n = F!RootLength(K) /\ K = F!stripCodexManaged(g)
  BY DEF n, K
<1> QED BY <1>1, <1>4, <1>11, <1>13, <1>15, <1>16, MergeIs

\* What a strip leaves of a file whose values are closed, or stay open, falls
\* into the two parts of a file the merge makes.
LEMMA MadeAtOnce ==
  ASSUME NEW S, NEW f, File(S, f), NEW K, K = F!stripCodexManaged(f),
         F!Closed(f) \/ ~F!Closed(K),
         NEW n, n = F!RootLength(K),
         NEW A, A = F!trimBlankTomlLines(SubSeq(K, 1, n)),
         NEW B, B = F!trimBlankTomlLines(SubSeq(K, n + 1, Len(K))), NEW m, NEW t
  PROVE  File(S, K) /\ MadeBy(S, Out(m, t, A, B), m, t, A, B)
<1> DEFINE r == ~F!Closed(f)
           sf == F!scanTomlLines(f)
           sk == F!scanTomlLines(K)
           sr == F!classifyTomlLines(K, r)
<1>1. r \in BOOLEAN /\ IsScan(f, r, sf)
  BY ScanTomlIs
<1>2. K = F!Select(f, KeptPlaces(f, sf))
  BY StripIs
<1>3. File(S, K)
  <2>1. K \in Seq(S)
    BY <1>2, SelectCounts DEF File
  <2> QED BY <2>1 DEF File
<1>4. IsScan(K, r, sr)
  <2> HIDE DEF r
  <2> QED BY <1>1, <1>3, ScanIs
<1>5. r <=> ~F!Closed(f)
  OBVIOUS
<1>6. ~r => StateAfter(sf, Len(f)) = F!Fresh
  <2> SUFFICES ASSUME ~r PROVE StateAfter(sf, Len(f)) = F!Fresh
    OBVIOUS
  <2>1. F!Closed(f)
    BY <1>5
  <2> DEFINE s0 == F!classifyTomlLines(f, r)
  <2>2. StateAfter(s0, Len(f)) = F!Fresh
    <3> HIDE DEF r
    <3> QED BY <1>1, <2>1, ClosedBy DEF r
  <2>3. sf = s0
    BY <1>1 DEF F!scanTomlLines
  <2> QED BY <2>2, <2>3
<1> HIDE DEF r, sf, sr
<1>7. Clean(K, sr) /\ (~r => StateAfter(sr, Len(K)) = F!Fresh)
  BY <1>1, <1>2, <1>4, <1>6, StripCleans
<1>8. r <=> ~F!Closed(K)
  <2>1. ~r => F!Closed(K)
    <3> SUFFICES ASSUME ~r PROVE F!Closed(K)
      OBVIOUS
    <3>1. F!Closed(K) <=> StateAfter(F!classifyTomlLines(K, r), Len(K)) = F!Fresh
      BY <1>1, <1>3, ClosedBy
    <3> QED BY <1>7, <3>1 DEF sr
  <2>2. r => ~F!Closed(K)
    BY <1>5
  <2> QED BY <2>1, <2>2
<1>9. sr = sk
  <2>1. (~F!Closed(K)) = r
    BY <1>1, <1>3, <1>8, ScanTomlIs
  <2> QED BY <2>1 DEF sr, F!scanTomlLines
<1> HIDE DEF sk
<1>10. sk = F!scanTomlLines(K) /\ IsScan(K, r, sk) /\ Clean(K, sk)
  BY <1>4, <1>7, <1>9 DEF sk
<1>11. A \in Seq(S) /\ B \in Seq(S) /\ \E p, q : Alone(K, A, p, B, q)
  <2>1. n \in 0 .. Len(K)
    BY <1>1, <1>3, <1>10, CleanSplits
  <2> QED BY <1>3, <2>1, TrimmedParts
<1>12. PICK p, q : Alone(K, A, p, B, q)
  BY <1>11
<1>13. File(S, A \o B) /\ (F!Closed(K) <=> F!Closed(A \o B))
  BY <1>3, <1>11, <1>12, AloneCloses
<1> DEFINE sc == F!classifyTomlLines(A \o B, r)
<1>14. IsScan(A \o B, r, sc)
  BY <1>1, <1>13, ScanIs
<1> HIDE DEF sc
<1>15. Parts(A, B, sc)
  BY <1>1, <1>3, <1>10, <1>14, PartsOf
<1>16. r <=> ~F!Closed(A \o B)
  BY <1>8, <1>13
<1> QED BY <1>1, <1>3, <1>11, <1>14, <1>15, <1>16 DEF MadeBy

LEMMA OutIsFile ==
  ASSUME NEW S, TomlLines(S), NEW m, NEW t, Delivers(S, m, t), NEW A, A \in Seq(S), NEW B, B \in Seq(S),
         NEW g, g = Out(m, t, A, B)
  PROVE  File(S, g) /\ (F!Closed(g) <=> F!Closed(A \o B))
<1>1. g \in Seq(S) /\ \E p, q : LaidOut(g, m, t, A, p, B, q)
  BY OutLaidOut
<1>2. File(S, g)
  BY <1>1 DEF File
<1>3. PICK p, q : LaidOut(g, m, t, A, p, B, q)
  BY <1>1
<1> QED BY <1>2, <1>3, OutCloses

\* A file with nothing in it is replaced by the fragment.
LEMMA BlankMerge ==
  ASSUME NEW S, TomlLines(S), NEW models, NEW m0, NEW t, Delivery(S, models, m0, t),
         NEW f, F!trimBlankTomlLines(f) = <<>>
  PROVE  LET g == Merge(f, m0, t, models) IN File(S, g) /\ F!Closed(g) /\ MadeBy(S, g, m0, t, <<>>, <<>>)
<1> DEFINE E == <<>>
           g == Merge(f, m0, t, models)
           r == ~F!Closed(E \o E)
<1>1. g = Out(m0, t, E, E)
  BY FragmentIs DEF Merge, F!mergeCodexConfigKeeping
<1>2. E \in Seq(S) /\ E \o E = E /\ F!Closed(E) /\ Delivers(S, m0, t) /\ File(S, E)
  BY DEF Delivery, F!Closed, File
<1>3. r \in BOOLEAN /\ (r <=> ~F!Closed(E \o E)) /\ \A sc : Parts(E, E, sc)
  BY <1>2, ScanTomlIs, NothingParts
<1> HIDE DEF E, g, r
<1>4. File(S, g) /\ (F!Closed(g) <=> F!Closed(E \o E))
  BY <1>1, <1>2, OutIsFile
<1>5. \E sc : IsScan(E \o E, r, sc)
  BY <1>2, <1>3, ScanIs
<1>6. MadeBy(S, g, m0, t, E, E)
  BY <1>1, <1>2, <1>3, <1>5 DEF MadeBy
<1> QED BY <1>2, <1>4, <1>6 DEF E, g

\* At once, if the strip opens no value that was closed and closes none that was open.
LEMMA SettlesAtOnce ==
  ASSUME NEW S, TomlLines(S), NEW models, NEW m0, NEW t, Delivery(S, models, m0, t),
         NEW f, f \in Seq(S), F!Closed(f) \/ ~F!Closed(F!stripCodexManaged(f)),
         NEW g, g = Merge(f, m0, t, models)
  PROVE  Merge(g, m0, t, models) = g
<1>1. CASE F!trimBlankTomlLines(f) = <<>>
  <2>1. MadeBy(S, g, m0, t, <<>>, <<>>) /\ m0 \in Choosable(m0, models)
    BY <1>1, BlankMerge DEF Choosable
  <2> QED BY <2>1, Settled
<1>2. CASE F!trimBlankTomlLines(f) # <<>>
  <2> DEFINE K == F!stripCodexManaged(f)
             n == F!RootLength(K)
             A == F!trimBlankTomlLines(SubSeq(K, 1, n))
             B == F!trimBlankTomlLines(SubSeq(K, n + 1, Len(K)))
             m == Chosen(f, m0, models)
  <2>1. File(S, f) /\ K = F!stripCodexManaged(f) /\ n = F!RootLength(K)
        /\ A = F!trimBlankTomlLines(SubSeq(K, 1, n)) /\ B = F!trimBlankTomlLines(SubSeq(K, n + 1, Len(K)))
        /\ m = Chosen(f, m0, models) /\ (F!Closed(f) \/ ~F!Closed(K))
    BY DEF File
  <2> HIDE DEF K, n, A, B, m
  <2>2. MadeBy(S, Out(m, t, A, B), m, t, A, B)
    BY <2>1, MadeAtOnce
  <2>3. A \in Seq(S) /\ B \in Seq(S)
    BY <2>2 DEF MadeBy
  <2>4. m \in Choosable(m0, models) /\ g = Out(m, t, A, B)
    BY <1>2, <2>1, <2>3, MergeIs
  <2>5. MadeBy(S, g, m, t, A, B)
    BY <2>2, <2>4
  <2> QED BY <2>4, <2>5, Settled
<1> QED BY <1>1, <1>2

\* Whatever a merge makes of a file whose strip closes what was open closes its values.
LEMMA MergeCloses ==
  ASSUME NEW S, TomlLines(S), NEW models, NEW m0, NEW t, Delivery(S, models, m0, t),
         NEW f, f \in Seq(S), F!Closed(F!stripCodexManaged(f)),
         NEW g, g = Merge(f, m0, t, models)
  PROVE  g \in Seq(S) /\ F!Closed(g)
<1>1. CASE F!trimBlankTomlLines(f) = <<>>
  BY <1>1, BlankMerge DEF File
<1>2. CASE F!trimBlankTomlLines(f) # <<>>
  <2> DEFINE K == F!stripCodexManaged(f)
             n == F!RootLength(K)
             A == F!trimBlankTomlLines(SubSeq(K, 1, n))
             B == F!trimBlankTomlLines(SubSeq(K, n + 1, Len(K)))
             m == Chosen(f, m0, models)
  <2>1. /\ K = F!stripCodexManaged(f) /\ n = F!RootLength(K) /\ F!Closed(K)
        /\ A = F!trimBlankTomlLines(SubSeq(K, 1, n)) /\ B = F!trimBlankTomlLines(SubSeq(K, n + 1, Len(K)))
        /\ m = Chosen(f, m0, models)
    OBVIOUS
  <2> HIDE DEF K, n, A, B, m
  <2>2. File(S, K)
    <3>1. K \in Seq(S)
      BY <2>1, StripIs, SelectCounts
    <3> QED BY <3>1 DEF File
  <2>3. A \in Seq(S) /\ B \in Seq(S) /\ \E p, q : Alone(K, A, p, B, q)
    <3>1. Len(K) \in Nat
      BY <2>2 DEF File
    <3>2. n \in 0 .. Len(K)
      BY <2>1, <3>1, RootLengthHas
    <3> QED BY <2>1, <2>2, <3>2, TrimmedParts
  <2>4. m \in models \cup {m0} /\ g = Out(m, t, A, B)
    BY <1>2, <2>1, <2>3, MergeIs
  <2>5. F!Closed(A \o B)
    BY <2>1, <2>2, <2>3, AloneCloses
  <2>6. Delivers(S, m, t)
    BY <2>4 DEF Delivery
  <2> QED BY <2>3, <2>4, <2>5, <2>6, OutIsFile DEF File
<1> QED BY <1>1, <1>2

\* Whatever lines stand in a file, as long as the scanner knows their tokens,
\* the second delivery of a package is the last that changes it; and the first
\* is, if the file closes the values it opens.
THEOREM AnyFileSettles ==
  ASSUME NEW S, TomlLines(S), NEW models, NEW m0, NEW t, Delivery(S, models, m0, t), NEW f, f \in Seq(S)
  PROVE  LET once == Merge(f, m0, t, models)
             twice == Merge(once, m0, t, models)
         IN /\ F!Closed(f) => twice = once
            /\ Merge(twice, m0, t, models) = twice
<1> DEFINE once == Merge(f, m0, t, models)
           twice == Merge(once, m0, t, models)
           C == F!Closed(f) \/ ~F!Closed(F!stripCodexManaged(f))
<1>1. CASE C
  <2>1. twice = once
    BY <1>1, SettlesAtOnce
  <2> QED BY <2>1
<1>2. CASE ~C
  <2>1. once \in Seq(S) /\ F!Closed(once)
    BY <1>2, MergeCloses
  <2> HIDE DEF once
  <2>2. Merge(twice, m0, t, models) = twice
    BY <2>1, SettlesAtOnce
  <2> QED BY <1>2, <2>2 DEF once
<1> QED BY <1>1, <1>2

-----------------------------------------------------------------------------
(* What a file says, and what a merge does to it. *)

\* A header opens and closes its brackets, and a one-line string is all there
\* is of its value.
Readable(S) ==
  \A l \in S : /\ l.shape = "header" => l.tokens = <<"open", "close">>
               /\ l.value # "" => l = F!Setting(l.name, l.value)

\* A scan without recovery.
Straight(S, lines, scan) ==
  File(S, lines) /\ Readable(S) /\ \E r \in BOOLEAN : ~r /\ IsScan(lines, r, scan)

LEMMA StraightIs ==
  ASSUME NEW S, NEW lines, NEW scan, Straight(S, lines, scan)
  PROVE  /\ File(S, lines) /\ TomlFile(lines) /\ lines \in Seq(S) /\ Len(lines) \in Nat
         /\ \A i \in 1 .. Len(lines) : lines[i] \in S
         /\ \A i \in 0 .. Len(lines) : StateAfter(scan, i) \in State
<1>1. File(S, lines) /\ TomlFile(lines)
  BY FileIs DEF Straight
<1>2. lines \in Seq(S)
  BY <1>1 DEF File
<1>3. \A i \in 1 .. Len(lines) : lines[i] \in S
  BY <1>2
<1>4. ASSUME NEW i \in 0 .. Len(lines) PROVE StateAfter(scan, i) \in State
  <2>1. CASE i = 0
    BY <2>1, FreshIsState DEF StateAfter
  <2>2. CASE i # 0
    <3>1. PICK r \in BOOLEAN : IsScan(lines, r, scan)
      BY DEF Straight
    <3>2. i \in 1 .. Len(lines)
      BY <1>2, <2>2
    <3>3. ScanLine(lines, r, scan, i)
      BY <3>1, <3>2, ScanFacts
    <3> QED BY <2>2, <3>3 DEF ScanLine, StateAfter
  <2> QED BY <2>1, <2>2
<1> QED BY <1>1, <1>2, <1>3, <1>4

LEMMA StraightLine ==
  ASSUME NEW S, NEW lines, NEW scan, Straight(S, lines, scan), NEW i \in 1 .. Len(lines)
  PROVE  /\ scan[i].isHeader <=> lines[i].shape = "header" /\ StateAfter(scan, i - 1) = F!Fresh
         /\ scan[i].isHeader => scan[i].table = lines[i].name
         /\ StateAfter(scan, i) = scan[i].state
         /\ scan[i].line = lines[i]
         /\ scan[i].start = i <=> StateAfter(scan, i - 1) = F!Fresh
         /\ ~Quiet(lines[i]) => F!tomlSectionOwner(scan, i) = scan[i].table
<1>1. PICK r \in BOOLEAN : ~r /\ IsScan(lines, r, scan)
  BY DEF Straight
<1>2. TomlFile(lines)
  BY StraightIs
<1>3. ScanLine(lines, r, scan, i)
  BY <1>1, ScanFacts
<1>4. i \in Nat /\ i # 0
  OBVIOUS
<1>5. scan[i].isHeader <=> lines[i].shape = "header" /\ StateAfter(scan, i - 1) = F!Fresh
  BY <1>1, <1>3 DEF ScanLine
<1>6. scan[i].start = i => StateAfter(scan, i - 1) = F!Fresh
  <2> SUFFICES ASSUME scan[i].start = i, StateAfter(scan, i - 1) # F!Fresh PROVE FALSE
    OBVIOUS
  <2>1. i # 1
    BY <1>4 DEF StateAfter
  <2>2. scan[i].start = scan[i - 1].start
    BY <1>3, <1>5, <2>1 DEF ScanLine
  <2> DEFINE k == i - 1
  <2>3. k \in 1 .. Len(lines) /\ k < i
    BY <1>2, <1>4, <2>1 DEF TomlFile
  <2> HIDE DEF k
  <2>4. scan[k].start \in 1 .. k
    BY <1>1, <1>2, <2>3, Starts
  <2>5. scan[k].start = i
    BY <2>2 DEF k
  <2> QED BY <2>3, <2>4, <2>5, <1>4
<1>7. ~Quiet(lines[i]) => F!tomlSectionOwner(scan, i) = scan[i].table
  BY <1>1, <1>2, Owner
<1>8. StateAfter(scan, i - 1) = F!Fresh => scan[i].start = i
  BY <1>3 DEF ScanLine
<1>9. StateAfter(scan, i) = scan[i].state /\ scan[i].line = lines[i] /\ (scan[i].isHeader => scan[i].table = lines[i].name)
  BY <1>3, <1>4 DEF ScanLine, StateAfter
<1> QED BY <1>5, <1>6, <1>7, <1>8, <1>9

\* The table a scan is in after line i.
TableAfter(scan, i) == IF i = 0 THEN RootTable ELSE scan[i].table

LEMMA StraightStep ==
  ASSUME NEW S, NEW lines, NEW scan, Straight(S, lines, scan), NEW i \in 1 .. Len(lines)
  PROVE  /\ StateAfter(scan, i) = F!advanceTomlScanState(StateAfter(scan, i - 1), lines[i].tokens)
         /\ TableAfter(scan, i) = IF StateAfter(scan, i - 1) = F!Fresh /\ lines[i].shape = "header"
                                  THEN lines[i].name ELSE TableAfter(scan, i - 1)
<1>1. PICK r \in BOOLEAN : ~r /\ IsScan(lines, r, scan)
  BY DEF Straight
<1>2. ScanLine(lines, r, scan, i)
  BY <1>1, ScanFacts
<1>3. i \in Nat /\ i # 0 /\ i - 1 \in 0 .. Len(lines) /\ (i # 1 => i - 1 # 0)
  BY StraightIs
<1>4. StateAfter(scan, i) = scan[i].state /\ TableAfter(scan, i) = scan[i].table
  BY <1>3 DEF StateAfter, TableAfter
<1>5. scan[i].isHeader <=> lines[i].shape = "header" /\ StateAfter(scan, i - 1) = F!Fresh
  BY StraightLine
<1>6. CASE scan[i].isHeader
  <2>1. lines[i].tokens = <<"open", "close">>
    <3>1. lines[i] \in S
      BY StraightIs
    <3> QED BY <1>5, <1>6, <3>1 DEF Straight, Readable
  <2>2. F!advanceTomlScanState(F!Fresh, <<"open", "close">>) = F!Fresh
    BY FreshIsState, AdvanceHeader
  <2>3. scan[i].state = F!Fresh /\ scan[i].table = lines[i].name
    BY <1>2, <1>6 DEF ScanLine
  <2> QED BY <1>4, <1>5, <1>6, <2>1, <2>2, <2>3
<1>7. CASE ~scan[i].isHeader
  <2>1. scan[i].state = F!advanceTomlScanState(StateAfter(scan, i - 1), lines[i].tokens)
    BY <1>2, <1>7 DEF ScanLine
  <2>2. scan[i].table = TableAfter(scan, i - 1)
    <3>1. CASE i = 1
      BY <1>2, <1>7, <3>1 DEF ScanLine, TableAfter
    <3>2. CASE i # 1
      BY <1>2, <1>3, <1>7, <3>2 DEF ScanLine, TableAfter
    <3> QED BY <3>1, <3>2
  <2> QED BY <1>4, <1>5, <1>7, <2>1, <2>2
<1> QED BY <1>6, <1>7

\* TOML reads a file as a scan without recovery does.
LEMMA ReadingIs ==
  ASSUME NEW S, NEW lines, NEW scan, Straight(S, lines, scan)
  PROVE  \A i \in 0 .. Len(lines) :
           F!Reading(lines)[i] = [state |-> StateAfter(scan, i), table |-> TableAfter(scan, i)]
<1> DEFINE n == Len(lines)
           Next1(b, i) == [state |-> F!advanceTomlScanState(b.state, lines[i].tokens),
                           table |-> IF b.state = F!Fresh /\ lines[i].shape = "header" THEN lines[i].name ELSE b.table]
           b0 == [state |-> F!Fresh, table |-> RootTable]
           Solves(f) == f = [i \in 0 .. n |-> IF i = 0 THEN b0 ELSE Next1(f[i - 1], i)]
           a == CHOOSE f : Solves(f)
           Mark1(i) == [state |-> StateAfter(scan, i), table |-> TableAfter(scan, i)]
           h == [i \in 0 .. n |-> Mark1(i)]
<1>1. F!Reading(lines) = a
  BY DEF F!Reading, RootTable
<1>2. n \in Nat
  BY StraightIs
<1>3. \A i \in 1 .. n : Mark1(i) = Next1(Mark1(i - 1), i)
  <2> SUFFICES ASSUME NEW i \in 1 .. n PROVE Mark1(i) = Next1(Mark1(i - 1), i)
    OBVIOUS
  <2>1. /\ StateAfter(scan, i) = F!advanceTomlScanState(StateAfter(scan, i - 1), lines[i].tokens)
        /\ TableAfter(scan, i) = IF StateAfter(scan, i - 1) = F!Fresh /\ lines[i].shape = "header"
                                 THEN lines[i].name ELSE TableAfter(scan, i - 1)
    BY StraightStep
  <2> QED BY <2>1
<1>4. Mark1(0) = b0
  BY DEF StateAfter, TableAfter
<1> HIDE DEF n, Next1, b0, Mark1
<1>5. Solves(h)
  <2>1. \A i \in 0 .. n : h[i] = IF i = 0 THEN b0 ELSE Next1(h[i - 1], i)
    <3> SUFFICES ASSUME NEW i \in 0 .. n, i # 0 PROVE h[i] = Next1(h[i - 1], i)
      BY <1>4
    <3>1. i \in 1 .. n /\ i - 1 \in 0 .. n
      BY <1>2
    <3> QED BY <1>3, <3>1
  <2> QED BY <2>1
<1>6. Solves(a)
  <2> HIDE DEF Solves, h
  <2> QED BY <1>5
<1>7. \A i \in 0 .. n : a[i] = IF i = 0 THEN b0 ELSE Next1(a[i - 1], i)
  <2> HIDE DEF a
  <2> QED BY <1>6
<1> HIDE DEF a, Solves, h
<1>8. \A i \in 0 .. n : a[i] = Mark1(i)
  <2> DEFINE Z == {i \in 0 .. n : a[i] = Mark1(i)}
  <2>1. 0 \in Z
    BY <1>2, <1>4, <1>7
  <2>2. \A i \in 0 .. n - 1 : i \in Z => i + 1 \in Z
    <3> SUFFICES ASSUME NEW i \in 0 .. n - 1, a[i] = Mark1(i) PROVE i + 1 \in 0 .. n /\ a[i + 1] = Mark1(i + 1)
      OBVIOUS
    <3>1. i + 1 \in 1 .. n /\ i + 1 \in 0 .. n /\ i + 1 # 0 /\ (i + 1) - 1 = i
      BY <1>2
    <3>2. a[i + 1] = Next1(a[(i + 1) - 1], i + 1)
      BY <3>1, <1>7
    <3>3. Mark1(i + 1) = Next1(Mark1((i + 1) - 1), i + 1)
      BY <3>1, <1>3
    <3> QED BY <3>1, <3>2, <3>3
  <2> HIDE DEF Z
  <2>3. \A i \in 0 .. n : i \in Z
    BY <1>2, <2>1, <2>2, IntervalInduction
  <2> QED BY <2>3 DEF Z
<1> QED BY <1>1, <1>8 DEF n, Mark1

\* The statements of a file and what each of them says, in terms of a scan.
Ends(lines, scan, i) == {j \in i .. Len(lines) : StateAfter(scan, j) = F!Fresh}
Stated(lines, scan) ==
  {i \in 1 .. Len(lines) : StateAfter(scan, i - 1) = F!Fresh /\ lines[i].shape \in {"header", "key"}}
Says(lines, scan, i) ==
  IF lines[i].shape = "header" THEN <<lines[i].name>>
  ELSE <<scan[i].table, lines[i].name, SubSeq(lines, i, F!Min(Ends(lines, scan, i)))>>
Sayings(lines, scan, places) == {Says(lines, scan, i) : i \in places}

Alike(lines, scan, i, j) ==
  /\ lines[i].shape = lines[j].shape /\ lines[i].name = lines[j].name
  /\ lines[i].shape = "header" \/ scan[i].table = scan[j].table
WellRead(lines, scan) ==
  /\ StateAfter(scan, Len(lines)) = F!Fresh
  /\ \A i \in 1 .. Len(lines) : StateAfter(scan, i - 1) = F!Fresh => lines[i].shape # "text"
  /\ \A i, j \in Stated(lines, scan) : i < j => ~Alike(lines, scan, i, j)

LEMMA MeaningIs ==
  ASSUME NEW S, NEW lines, NEW scan, Straight(S, lines, scan)
  PROVE  /\ F!Meaning(lines) = Sayings(lines, scan, Stated(lines, scan))
         /\ F!IsToml(lines) <=> WellRead(lines, scan)
<1> DEFINE read == F!Reading(lines)
           n == Len(lines)
<1>1. n \in Nat /\ DOMAIN lines = 1 .. n
  <2>1. lines \in Seq(S)
    BY StraightIs
  <2> QED BY <2>1
<1>2. \A i \in 0 .. n : read[i].state = StateAfter(scan, i) /\ read[i].table = TableAfter(scan, i)
  <2> SUFFICES ASSUME NEW i \in 0 .. n PROVE read[i].state = StateAfter(scan, i) /\ read[i].table = TableAfter(scan, i)
    OBVIOUS
  <2>1. F!Reading(lines)[i] = [state |-> StateAfter(scan, i), table |-> TableAfter(scan, i)]
    BY ReadingIs
  <2> QED BY <2>1
<1>9. F!Meaning(lines) = {F!Statement(lines, read, i) : i \in F!Statements(lines, read)}
  BY DEF F!Meaning
<1>10. F!IsToml(lines) <=>
         /\ read[n].state = F!Fresh
         /\ \A i \in DOMAIN lines : read[i - 1].state = F!Fresh => lines[i].shape # "text"
         /\ \A i, j \in F!Statements(lines, read) :
              i < j => ~(/\ lines[i].shape = lines[j].shape /\ lines[i].name = lines[j].name
                         /\ lines[i].shape = "header" \/ read[i].table = read[j].table)
  BY DEF F!IsToml
<1> HIDE DEF read
<1>3. \A i \in 1 .. n : read[i].table = scan[i].table /\ read[i - 1].state = StateAfter(scan, i - 1)
  <2> SUFFICES ASSUME NEW i \in 1 .. n PROVE read[i].table = scan[i].table /\ read[i - 1].state = StateAfter(scan, i - 1)
    OBVIOUS
  <2>1. i \in 0 .. n /\ i - 1 \in 0 .. n /\ i # 0
    BY <1>1
  <2> QED BY <2>1, <1>2 DEF TableAfter
<1>4. F!Statements(lines, read) = Stated(lines, scan)
  BY <1>1, <1>3 DEF F!Statements, Stated, n
<1>5. \A i \in 1 .. n : {j \in i .. n : read[j].state = F!Fresh} = Ends(lines, scan, i)
  <2> SUFFICES ASSUME NEW i \in 1 .. n PROVE \A j \in i .. n : read[j].state = StateAfter(scan, j)
    BY DEF Ends
  <2> QED BY <1>1, <1>2
<1>6. \A i \in Stated(lines, scan) : F!Statement(lines, read, i) = Says(lines, scan, i)
  <2> SUFFICES ASSUME NEW i \in 1 .. n PROVE F!Statement(lines, read, i) = Says(lines, scan, i)
    BY DEF Stated
  <2>1. F!Statement(lines, read, i)
          = IF lines[i].shape = "header" THEN <<lines[i].name>>
            ELSE <<read[i].table, lines[i].name, SubSeq(lines, i, F!Min({j \in i .. n : read[j].state = F!Fresh}))>>
    BY DEF F!Statement
  <2> QED BY <2>1, <1>3, <1>5 DEF Says
<1>7. F!Meaning(lines) = Sayings(lines, scan, Stated(lines, scan))
  BY <1>4, <1>6, <1>9 DEF Sayings
<1>8. F!IsToml(lines) <=> WellRead(lines, scan)
  <2>1. read[n].state = StateAfter(scan, n)
    BY <1>1, <1>2
  <2>2. \A i \in Stated(lines, scan) : i \in 1 .. n
    BY DEF Stated
  <2>3. (\A i \in DOMAIN lines : read[i - 1].state = F!Fresh => lines[i].shape # "text")
          <=> \A i \in 1 .. n : StateAfter(scan, i - 1) = F!Fresh => lines[i].shape # "text"
    BY <1>1, <1>3
  <2>4. \A i, j \in Stated(lines, scan) :
          (/\ lines[i].shape = lines[j].shape /\ lines[i].name = lines[j].name
           /\ lines[i].shape = "header" \/ read[i].table = read[j].table) <=> Alike(lines, scan, i, j)
    <3> SUFFICES ASSUME NEW i \in Stated(lines, scan), NEW j \in Stated(lines, scan)
                 PROVE  read[i].table = scan[i].table /\ read[j].table = scan[j].table
      BY DEF Alike
    <3> QED BY <1>3, <2>2
  <2> DEFINE Third == \A i, j \in Stated(lines, scan) : i < j => ~Alike(lines, scan, i, j)
  <2>5. (\A i, j \in F!Statements(lines, read) :
           i < j => ~(/\ lines[i].shape = lines[j].shape /\ lines[i].name = lines[j].name
                      /\ lines[i].shape = "header" \/ read[i].table = read[j].table)) <=> Third
    BY <1>4, <2>4
  <2> HIDE DEF Third
  <2>6. WellRead(lines, scan) <=>
          /\ StateAfter(scan, n) = F!Fresh
          /\ \A i \in 1 .. n : StateAfter(scan, i - 1) = F!Fresh => lines[i].shape # "text"
          /\ Third
    BY DEF WellRead, Third
  <2> QED BY ONLY <1>10, <2>1, <2>3, <2>5, <2>6
<1> QED BY <1>7, <1>8

-----------------------------------------------------------------------------
(* One file in step with another. *)

\* e leads from each line of X to the same line of Y, which is entered and left
\* alike; the lines of a value stay together.
InStep(X, sx, Y, sy, e) ==
  /\ \A i \in 1 .. Len(X) : /\ e[i] \in 1 .. Len(Y) /\ Y[e[i]] = X[i]
                            /\ StateAfter(sx, i - 1) = StateAfter(sy, e[i] - 1)
                            /\ StateAfter(sx, i) = StateAfter(sy, e[i])
  /\ \A i, j \in 1 .. Len(X) : i < j => e[i] < e[j]
  /\ \A i \in 1 .. Len(X) - 1 : StateAfter(sx, i) # F!Fresh => e[i + 1] = e[i] + 1
Reached(X, e) == {e[i] : i \in 1 .. Len(X)}

\* The header above a line comes along with it.
HeaderOf(sy, h, j) == sy[h].isHeader /\ \A g \in h + 1 .. j : ~sy[g].isHeader
Headed(X, sy, e) ==
  \A i \in 1 .. Len(X) : ~Quiet(X[i]) => \A h \in 1 .. e[i] : HeaderOf(sy, h, e[i]) => h \in Reached(X, e)
InTables(X, sx, sy, e) == \A i \in 1 .. Len(X) : ~Quiet(X[i]) => sx[i].table = sy[e[i]].table

LEMMA HeadersInStep ==
  ASSUME NEW S, NEW X, NEW sx, Straight(S, X, sx), NEW Y, NEW sy, Straight(S, Y, sy),
         NEW e, InStep(X, sx, Y, sy, e), NEW i \in 1 .. Len(X)
  PROVE  sx[i].isHeader <=> sy[e[i]].isHeader
<1>1. e[i] \in 1 .. Len(Y) /\ Y[e[i]] = X[i] /\ StateAfter(sx, i - 1) = StateAfter(sy, e[i] - 1)
  BY DEF InStep
<1> DEFINE j == e[i]
<1> HIDE DEF j
<1>2. j \in 1 .. Len(Y) /\ Y[j] = X[i] /\ StateAfter(sx, i - 1) = StateAfter(sy, j - 1)
  BY <1>1 DEF j
<1>3. sx[i].isHeader <=> X[i].shape = "header" /\ StateAfter(sx, i - 1) = F!Fresh
  BY StraightLine
<1>4. sy[j].isHeader <=> Y[j].shape = "header" /\ StateAfter(sy, j - 1) = F!Fresh
  BY <1>2, StraightLine
<1> QED BY <1>2, <1>3, <1>4 DEF j

LEMMA TablesInStep ==
  ASSUME NEW S, NEW X, NEW sx, Straight(S, X, sx), NEW Y, NEW sy, Straight(S, Y, sy),
         NEW e, InStep(X, sx, Y, sy, e), Headed(X, sy, e)
  PROVE  InTables(X, sx, sy, e)
<1> SUFFICES ASSUME NEW i \in 1 .. Len(X), ~Quiet(X[i]) PROVE sx[i].table = sy[e[i]].table
  BY DEF InTables
<1> DEFINE j == e[i]
<1>1. /\ \A k \in 1 .. Len(X) : e[k] \in 1 .. Len(Y) /\ Y[e[k]] = X[k]
      /\ \A k, l \in 1 .. Len(X) : k < l => e[k] < e[l]
  BY DEF InStep
<1>2. Len(X) \in Nat /\ Len(Y) \in Nat /\ TomlFile(X) /\ TomlFile(Y)
  BY StraightIs
<1>3. j \in 1 .. Len(Y)
  BY <1>1
<1>4. \A k \in 1 .. Len(X) : sx[k].isHeader <=> sy[e[k]].isHeader
  BY HeadersInStep
<1>5. \/ sx[i].table = RootTable /\ \A h \in 1 .. i : ~sx[h].isHeader
      \/ \E h \in 1 .. i : /\ sx[h].isHeader /\ sx[i].table = X[h].name
                           /\ \A g \in h + 1 .. i : ~sx[g].isHeader
  <2>1. PICK r \in BOOLEAN : ~r /\ IsScan(X, r, sx)
    BY DEF Straight
  <2> QED BY <1>2, <2>1, TableOf
<1>6. \/ sy[j].table = RootTable /\ \A h \in 1 .. j : ~sy[h].isHeader
      \/ \E h \in 1 .. j : /\ sy[h].isHeader /\ sy[j].table = Y[h].name
                           /\ \A g \in h + 1 .. j : ~sy[g].isHeader
  <2>1. PICK r \in BOOLEAN : ~r /\ IsScan(Y, r, sy)
    BY DEF Straight
  <2> HIDE DEF j
  <2> QED BY <1>2, <1>3, <2>1, TableOf
<1>7. \A k \in 1 .. i : k \in 1 .. Len(X) /\ e[k] \in 1 .. j
  <2> SUFFICES ASSUME NEW k \in 1 .. i PROVE k \in 1 .. Len(X) /\ e[k] \in 1 .. j
    OBVIOUS
  <2>1. k \in 1 .. Len(X)
    BY <1>2
  <2>2. k = i \/ k < i
    BY <1>2
  <2> QED BY <1>1, <1>2, <2>1, <2>2
<1>8. CASE sy[j].table = RootTable /\ \A h \in 1 .. j : ~sy[h].isHeader
  <2>1. \A k \in 1 .. i : ~sx[k].isHeader
    BY <1>4, <1>7, <1>8
  <2> QED BY <1>5, <1>8, <2>1
<1>9. CASE \E h \in 1 .. j : /\ sy[h].isHeader /\ sy[j].table = Y[h].name
                             /\ \A g \in h + 1 .. j : ~sy[g].isHeader
  <2>1. PICK h \in 1 .. j : sy[h].isHeader /\ sy[j].table = Y[h].name /\ \A g \in h + 1 .. j : ~sy[g].isHeader
    BY <1>9
  <2>2. HeaderOf(sy, h, e[i])
    BY <2>1 DEF HeaderOf
  <2>3. h \in Reached(X, e)
    BY <2>2 DEF Headed
  <2>4. PICK k \in 1 .. Len(X) : e[k] = h
    BY <2>3 DEF Reached
  <2>5. k \in 1 .. i
    <3> SUFFICES ASSUME i < k PROVE FALSE
      BY <1>2
    <3>1. e[i] < e[k]
      BY <1>1
    <3> QED BY <1>2, <1>3, <2>1, <2>4, <3>1
  <2>6. sx[k].isHeader
    BY <1>4, <2>1, <2>4
  <2>7. PICK l \in 1 .. i : sx[l].isHeader /\ sx[i].table = X[l].name /\ \A g \in l + 1 .. i : ~sx[g].isHeader
    BY <1>5, <2>5, <2>6
  <2>8. ~(l < k)
    <3> SUFFICES ASSUME l < k PROVE FALSE
      OBVIOUS
    <3>1. k \in l + 1 .. i
      BY <2>5
    <3> QED BY <2>6, <2>7, <3>1
  <2>9. ~(k < l)
    <3> SUFFICES ASSUME k < l PROVE FALSE
      OBVIOUS
    <3>1. l \in 1 .. Len(X) /\ e[l] \in 1 .. j /\ e[k] < e[l]
      BY <1>1, <1>7
    <3> DEFINE y == e[l]
    <3>2. sy[y].isHeader
      BY <1>4, <2>7, <3>1
    <3> HIDE DEF y
    <3>3. y \in 1 .. j /\ h < y
      BY <2>4, <3>1 DEF y
    <3>4. y \in h + 1 .. j
      BY <1>2, <1>3, <3>3
    <3> QED BY <2>1, <3>2, <3>4
  <2>10. l = k
    BY <2>8, <2>9
  <2> QED BY <1>1, <2>1, <2>4, <2>7, <2>10
<1> QED BY <1>6, <1>8, <1>9

\* The end of a value is the first line after which nothing is open.
EndsAt(scan, i, j) == StateAfter(scan, j) = F!Fresh /\ \A k \in i .. j - 1 : StateAfter(scan, k) # F!Fresh

LEMMA EndIs ==
  ASSUME NEW lines, Len(lines) \in Nat, NEW scan, NEW i \in 1 .. Len(lines), NEW j \in i .. Len(lines), EndsAt(scan, i, j)
  PROVE  F!Min(Ends(lines, scan, i)) = j
<1>1. j \in Ends(lines, scan, i)
  BY DEF EndsAt, Ends
<1>2. \A k \in Ends(lines, scan, i) : k \in Nat /\ j <= k
  <2> SUFFICES ASSUME NEW k \in i .. Len(lines), StateAfter(scan, k) = F!Fresh PROVE k \in Nat /\ j <= k
    BY DEF Ends
  <2>1. k \notin i .. j - 1
    BY DEF EndsAt
  <2> QED BY <2>1
<1>3. j \in Nat
  OBVIOUS
<1> DEFINE T == Ends(lines, scan, i)
<1> HIDE DEF T
<1>4. j \in T /\ \A y \in T : j <= y
  BY <1>1, <1>2 DEF T
<1>5. F!Min(T) \in T /\ \A y \in T : F!Min(T) <= y
  BY <1>4, Zenon DEF F!Min
<1>6. F!Min(T) = j
  <2>1. \A k \in T : k \in Nat
    BY <1>2 DEF T
  <2> DEFINE k == F!Min(T)
  <2>2. k \in T /\ k <= j /\ j <= k
    BY <1>4, <1>5
  <2> HIDE DEF k
  <2>3. k = j
    BY <1>3, <2>1, <2>2
  <2> QED BY <2>3 DEF k
<1> QED BY <1>6 DEF T

LEMMA EndHas ==
  ASSUME NEW lines, Len(lines) \in Nat, NEW scan, NEW i \in 1 .. Len(lines), StateAfter(scan, Len(lines)) = F!Fresh
  PROVE  \E j \in i .. Len(lines) : EndsAt(scan, i, j)
<1> DEFINE T == Ends(lines, scan, i)
<1>1. T \subseteq 0 .. Len(lines) /\ Len(lines) \in T
  BY DEF Ends
<1>2. PICK j \in T : \A y \in T : j <= y
  <2>1. T # {}
    BY <1>1
  <2> HIDE DEF T
  <2> QED BY <1>1, <2>1, LeastAndGreatest
<1>3. j \in i .. Len(lines) /\ StateAfter(scan, j) = F!Fresh
  BY <1>2 DEF Ends
<1>4. ASSUME NEW k \in i .. j - 1 PROVE StateAfter(scan, k) # F!Fresh
  <2>1. k \in i .. Len(lines) /\ ~(j <= k)
    BY <1>3
  <2>2. k \notin T
    BY <1>2, <2>1
  <2> QED BY <2>1, <2>2 DEF Ends
<1> QED BY <1>3, <1>4 DEF EndsAt

\* A value's lines run along.
LEMMA ValueInStep ==
  ASSUME NEW X, Len(X) \in Nat, NEW sx, NEW Y, NEW sy, NEW e, InStep(X, sx, Y, sy, e), Len(Y) \in Nat,
         NEW i \in 1 .. Len(X), NEW j \in i .. Len(X), EndsAt(sx, i, j)
  PROVE  \A m \in 0 .. j - i : e[i + m] = e[i] + m
<1> DEFINE n == j - i
           Z == {m \in 0 .. n : e[i + m] = e[i] + m}
<1>1. n \in Nat /\ i + 0 = i /\ e[i] \in 1 .. Len(Y)
  BY DEF InStep
<1>2. 0 \in Z
  BY <1>1
<1>3. ASSUME NEW m \in 0 .. n - 1, m \in Z PROVE m + 1 \in Z
  <2> DEFINE k == i + m
  <2>1. k \in i .. j - 1 /\ k \in 1 .. Len(X) - 1 /\ m + 1 \in 0 .. n /\ k + 1 = i + (m + 1)
    BY <1>1
  <2>2. e[k] = e[i] + m
    BY <1>3
  <2> HIDE DEF k
  <2>3. StateAfter(sx, k) # F!Fresh
    BY <2>1 DEF EndsAt
  <2>4. e[k + 1] = e[k] + 1
    BY <2>1, <2>3 DEF InStep
  <2>5. e[i + (m + 1)] = e[i] + (m + 1)
    BY <1>1, <2>1, <2>2, <2>4
  <2> QED BY <2>1, <2>5
<1> HIDE DEF Z, n
<1>4. \A m \in 0 .. n : m \in Z
  BY <1>1, <1>2, <1>3, IntervalInduction
<1> QED BY <1>4 DEF Z, n

Same(X, a, Y, b, m) == \A k \in 0 .. m : X[a + k] = Y[b + k]

LEMMA SubSeqSame ==
  ASSUME NEW X, NEW Y, NEW a \in Nat, NEW b \in Nat, NEW m \in Nat, Same(X, a, Y, b, m)
  PROVE  SubSeq(X, a, a + m) = SubSeq(Y, b, b + m)
<1>1. SubSeq(X, a, a + m) = [k \in 1 .. (1 + (a + m) - a) |-> X[k + a - 1]]
  BY DEF SubSeq
<1>2. SubSeq(Y, b, b + m) = [k \in 1 .. (1 + (b + m) - b) |-> Y[k + b - 1]]
  BY DEF SubSeq
<1>3. 1 + (a + m) - a = 1 + m /\ 1 + (b + m) - b = 1 + m
  OBVIOUS
<1>4. \A k \in 1 .. 1 + m : X[k + a - 1] = Y[k + b - 1]
  <2> SUFFICES ASSUME NEW k \in 1 .. 1 + m PROVE X[k + a - 1] = Y[k + b - 1]
    OBVIOUS
  <2>1. k - 1 \in 0 .. m /\ k + a - 1 = a + (k - 1) /\ k + b - 1 = b + (k - 1)
    OBVIOUS
  <2>2. X[a + (k - 1)] = Y[b + (k - 1)]
    BY <2>1 DEF Same
  <2> QED BY <2>1, <2>2
<1> QED BY <1>1, <1>2, <1>3, <1>4

\* Files in step say the same.
LEMMA SaysInStep ==
  ASSUME NEW S, NEW X, NEW sx, Straight(S, X, sx), NEW Y, NEW sy, Straight(S, Y, sy),
         NEW e, InStep(X, sx, Y, sy, e), InTables(X, sx, sy, e), StateAfter(sx, Len(X)) = F!Fresh,
         NEW i \in Stated(X, sx)
  PROVE  e[i] \in Stated(Y, sy) /\ Says(Y, sy, e[i]) = Says(X, sx, i)
<1>1. Len(X) \in Nat /\ Len(Y) \in Nat
  BY StraightIs
<1>2. i \in 1 .. Len(X) /\ StateAfter(sx, i - 1) = F!Fresh /\ X[i].shape \in {"header", "key"}
  BY DEF Stated
<1>3. e[i] \in 1 .. Len(Y) /\ Y[e[i]] = X[i] /\ StateAfter(sy, e[i] - 1) = F!Fresh
  BY <1>2 DEF InStep
<1>4. e[i] \in Stated(Y, sy)
  BY <1>2, <1>3 DEF Stated
<1>5. sx[i].table = sy[e[i]].table
  BY <1>2 DEF InTables, Quiet
<1>6. SubSeq(X, i, F!Min(Ends(X, sx, i))) = SubSeq(Y, e[i], F!Min(Ends(Y, sy, e[i])))
  <2>1. PICK j \in i .. Len(X) : EndsAt(sx, i, j)
    BY <1>1, <1>2, EndHas
  <2> DEFINE m == j - i
             b == e[i]
  <2>2. m \in Nat /\ j = i + m /\ b \in Nat
    BY <1>2, <1>3
  <2>3. \A k \in 0 .. m : e[i + k] = b + k
    BY <1>1, <1>2, <2>1, ValueInStep
  <2>4. \A k \in 0 .. m : i + k \in 1 .. Len(X)
    BY <1>1, <1>2, <2>1
  <2>5. \A k \in 0 .. m : b + k \in 1 .. Len(Y) /\ X[i + k] = Y[b + k] /\ StateAfter(sx, i + k) = StateAfter(sy, b + k)
    <3> SUFFICES ASSUME NEW k \in 0 .. m
                 PROVE  b + k \in 1 .. Len(Y) /\ X[i + k] = Y[b + k] /\ StateAfter(sx, i + k) = StateAfter(sy, b + k)
      OBVIOUS
    <3> DEFINE y == i + k
    <3>1. y \in 1 .. Len(X) /\ e[y] = b + k
      BY <2>3, <2>4
    <3> HIDE DEF y
    <3>2. e[y] \in 1 .. Len(Y) /\ Y[e[y]] = X[y] /\ StateAfter(sx, y) = StateAfter(sy, e[y])
      BY <3>1 DEF InStep
    <3> QED BY <3>1, <3>2 DEF y
  <2>6. F!Min(Ends(X, sx, i)) = i + m
    BY <1>1, <1>2, <2>1, <2>2, EndIs
  <2> HIDE DEF m, b
  <2>7. b + m \in b .. Len(Y) /\ b \in 1 .. Len(Y)
    <3>1. 0 \in 0 .. m /\ m \in 0 .. m /\ b + 0 = b
      BY <2>2
    <3> QED BY <2>2, <2>5, <3>1
  <2>8. EndsAt(sy, b, b + m)
    <3>1. StateAfter(sy, b + m) = F!Fresh
      <4>1. m \in 0 .. m
        BY <2>2
      <4> QED BY <2>1, <2>2, <2>5, <4>1 DEF EndsAt
    <3>2. ASSUME NEW k \in b .. (b + m) - 1 PROVE StateAfter(sy, k) # F!Fresh
      <4> DEFINE d == k - b
      <4>1. d \in 0 .. m /\ b + d = k /\ i + d \in i .. j - 1
        BY <1>2, <2>2
      <4> HIDE DEF d
      <4>2. StateAfter(sx, i + d) # F!Fresh
        BY <2>1, <4>1 DEF EndsAt
      <4> QED BY <2>5, <4>1, <4>2
    <3> QED BY <3>1, <3>2 DEF EndsAt
  <2>9. F!Min(Ends(Y, sy, b)) = b + m
    BY <1>1, <2>7, <2>8, EndIs
  <2>10. SubSeq(X, i, i + m) = SubSeq(Y, b, b + m)
    <3>1. i \in Nat /\ Same(X, i, Y, b, m)
      BY <1>2, <2>5 DEF Same
    <3> QED BY ONLY <2>2, <3>1, SubSeqSame
  <2>11. SubSeq(X, i, F!Min(Ends(X, sx, i))) = SubSeq(Y, b, F!Min(Ends(Y, sy, b)))
    BY <2>6, <2>9, <2>10
  <2> QED BY <2>11 DEF b
<1> QED BY <1>3, <1>4, <1>5, <1>6 DEF Says

LEMMA SayingsInStep ==
  ASSUME NEW S, NEW X, NEW sx, Straight(S, X, sx), NEW Y, NEW sy, Straight(S, Y, sy),
         NEW e, InStep(X, sx, Y, sy, e), InTables(X, sx, sy, e), StateAfter(sx, Len(X)) = F!Fresh
  PROVE  Sayings(X, sx, Stated(X, sx)) = Sayings(Y, sy, Stated(Y, sy) \cap Reached(X, e))
<1>1. ASSUME NEW s \in Sayings(X, sx, Stated(X, sx)) PROVE s \in Sayings(Y, sy, Stated(Y, sy) \cap Reached(X, e))
  <2>1. PICK i \in Stated(X, sx) : s = Says(X, sx, i)
    BY DEF Sayings
  <2>2. e[i] \in Stated(Y, sy) /\ Says(Y, sy, e[i]) = Says(X, sx, i)
    BY SaysInStep
  <2>3. e[i] \in Reached(X, e)
    BY DEF Reached, Stated
  <2> QED BY <2>1, <2>2, <2>3 DEF Sayings
<1>2. ASSUME NEW s \in Sayings(Y, sy, Stated(Y, sy) \cap Reached(X, e)) PROVE s \in Sayings(X, sx, Stated(X, sx))
  <2>1. PICK j \in Stated(Y, sy) \cap Reached(X, e) : s = Says(Y, sy, j)
    BY DEF Sayings
  <2>2. PICK i \in 1 .. Len(X) : e[i] = j
    BY <2>1 DEF Reached
  <2>3. Y[e[i]] = X[i] /\ StateAfter(sx, i - 1) = StateAfter(sy, e[i] - 1)
    BY DEF InStep
  <2>4. StateAfter(sy, j - 1) = F!Fresh /\ Y[j].shape \in {"header", "key"}
    BY <2>1 DEF Stated
  <2>5. i \in Stated(X, sx)
    BY <2>2, <2>3, <2>4 DEF Stated
  <2>6. Says(Y, sy, e[i]) = Says(X, sx, i)
    BY <2>5, SaysInStep
  <2> QED BY <2>1, <2>2, <2>5, <2>6 DEF Sayings
<1> QED BY <1>1, <1>2

\* What is in step with a file that TOML accepts is accepted, if nothing is open in the end.
LEMMA WellReadInStep ==
  ASSUME NEW S, NEW X, NEW sx, Straight(S, X, sx), NEW Y, NEW sy, Straight(S, Y, sy),
         NEW e, InStep(X, sx, Y, sy, e), InTables(X, sx, sy, e), StateAfter(sx, Len(X)) = F!Fresh,
         WellRead(Y, sy)
  PROVE  WellRead(X, sx)
<1>1. ASSUME NEW i \in 1 .. Len(X), StateAfter(sx, i - 1) = F!Fresh PROVE X[i].shape # "text"
  <2>1. e[i] \in 1 .. Len(Y) /\ Y[e[i]] = X[i] /\ StateAfter(sx, i - 1) = StateAfter(sy, e[i] - 1)
    BY DEF InStep
  <2> QED BY <1>1, <2>1 DEF WellRead
<1>2. ASSUME NEW i \in Stated(X, sx), NEW j \in Stated(X, sx), i < j PROVE ~Alike(X, sx, i, j)
  <2>1. e[i] \in Stated(Y, sy) /\ e[j] \in Stated(Y, sy)
    BY SaysInStep
  <2>2. i \in 1 .. Len(X) /\ j \in 1 .. Len(X) /\ ~Quiet(X[i]) /\ ~Quiet(X[j])
    BY DEF Stated, Quiet
  <2>3. e[i] < e[j] /\ Y[e[i]] = X[i] /\ Y[e[j]] = X[j]
    BY <1>2, <2>2 DEF InStep
  <2>4. sx[i].table = sy[e[i]].table /\ sx[j].table = sy[e[j]].table
    BY <2>2 DEF InTables
  <2>5. ~Alike(Y, sy, e[i], e[j])
    BY <2>1, <2>3 DEF WellRead
  <2> QED BY <2>3, <2>4, <2>5 DEF Alike
<1> QED BY <1>1, <1>2 DEF WellRead

-----------------------------------------------------------------------------
(* What a strip keeps is in step with the file. *)

\* e finds the place of each kept line.
Finds(places, K, n, c, e) ==
  /\ \A p \in 1 .. Len(K) : e[p] \in 1 .. n /\ e[p] \in places /\ c[e[p]] = p
  /\ \A j \in 1 .. n : j \in places => c[j] \in 1 .. Len(K) /\ e[c[j]] = j
  /\ \A i, j \in 1 .. Len(K) : i < j => e[i] < e[j]

LEMMA SelectFinds ==
  ASSUME NEW f, Len(f) \in Nat, NEW places, NEW K, Len(K) \in Nat, NEW c, SelectCount(f, places, K, c)
  PROVE  \E e : Finds(places, K, Len(f), c, e)
<1> DEFINE n == Len(f)
           At(p) == {j \in 1 .. n : j \in places /\ c[j] = p}
           e == [p \in 1 .. Len(K) |-> CHOOSE j \in At(p) : TRUE]
<1>1. \A i \in 0 .. n : c[i] \in Nat
  BY DEF SelectCount
<1>2. \A j \in 1 .. n : j \in places => c[j] = c[j - 1] + 1 /\ c[j] \in 1 .. Len(K)
  BY DEF SelectCount
<1>3. \A j \in 0 .. n : \A i \in 0 .. j : c[i] <= c[j]
  BY CountMonotone
<1>4. ASSUME NEW i \in 1 .. n, NEW j \in 1 .. n, i < j, j \in places PROVE c[i] < c[j]
  <2>1. j - 1 \in 0 .. n /\ i \in 0 .. j - 1 /\ i \in 0 .. n /\ j \in 0 .. n
    BY <1>4
  <2>2. c[i] <= c[j - 1] /\ c[j] = c[j - 1] + 1
    BY <1>2, <1>3, <1>4, <2>1
  <2> QED BY <1>1, <2>1, <2>2
<1>5. ASSUME NEW p \in 1 .. Len(K) PROVE e[p] \in 1 .. n /\ e[p] \in places /\ c[e[p]] = p
  <2>1. At(p) # {}
    BY DEF SelectCount
  <2>2. e[p] \in At(p)
    BY <2>1
  <2> QED BY <2>2
<1> HIDE DEF e
<1>6. ASSUME NEW j \in 1 .. n, j \in places PROVE c[j] \in 1 .. Len(K) /\ e[c[j]] = j
  <2> DEFINE k == e[c[j]]
  <2>1. c[j] \in 1 .. Len(K)
    BY <1>2, <1>6
  <2>2. k \in 1 .. n /\ k \in places /\ c[k] = c[j]
    BY <1>5, <2>1
  <2> HIDE DEF k
  <2>3. ~(k < j) /\ ~(j < k)
    BY <1>1, <1>4, <1>6, <2>2
  <2>4. k = j
    BY <2>2, <2>3
  <2> QED BY <2>1, <2>4 DEF k
<1>7. ASSUME NEW i \in 1 .. Len(K), NEW j \in 1 .. Len(K), i < j PROVE e[i] < e[j]
  <2> DEFINE x == e[i]
             y == e[j]
  <2>1. x \in 1 .. n /\ y \in 1 .. n /\ c[x] = i /\ c[y] = j /\ x \in places
    BY <1>5
  <2> HIDE DEF x, y
  <2>2. ~(y < x) /\ x # y
    BY <1>4, <1>7, <2>1
  <2>3. x < y
    BY <2>1, <2>2
  <2> QED BY <2>3 DEF x, y
<1> QED BY <1>5, <1>6, <1>7 DEF Finds

LEMMA KeptInStep ==
  ASSUME NEW S, NEW f, NEW sf, Straight(S, f, sf), NEW K, K = F!Select(f, KeptPlaces(f, sf)),
         NEW sk, Straight(S, K, sk)
  PROVE  \E e : /\ InStep(K, sk, f, sf, e) /\ Headed(K, sf, e)
                /\ Reached(K, e) = KeptPlaces(f, sf)
<1> DEFINE n == Len(f)
           places == KeptPlaces(f, sf)
<1>1. /\ File(S, f) /\ File(S, K) /\ n \in Nat /\ Len(K) \in Nat /\ TomlFile(f) /\ TomlFile(K)
  BY StraightIs
<1>2. PICK r \in BOOLEAN : ~r /\ IsScan(f, r, sf)
  BY DEF Straight
<1>3. IsScan(K, r, sk)
  BY <1>2 DEF Straight
<1>4. PICK c : SelectCount(f, places, K, c)
  BY <1>1, SelectCounts DEF File
<1>5. PICK e : Finds(places, K, n, c, e)
  BY <1>1, <1>4, SelectFinds
<1>6. Together(f, sf, places, n)
  BY <1>1, <1>2, ValuesStayTogether
<1>7. \A j \in 1 .. n : j \in places => StateAfter(sk, c[j] - 1) = StateAfter(sf, j - 1)
  <2>1. n \in 0 .. Len(f)
    BY <1>1
  <2> HIDE DEF places
  <2> QED BY <1>1, <1>2, <1>3, <1>4, <1>6, <2>1, EnteredAlike
<1> HIDE DEF n, places
<1>8. ASSUME NEW p \in 1 .. Len(K)
      PROVE  /\ e[p] \in 1 .. n /\ f[e[p]] = K[p]
             /\ StateAfter(sk, p - 1) = StateAfter(sf, e[p] - 1) /\ StateAfter(sk, p) = StateAfter(sf, e[p])
  <2> DEFINE j == e[p]
  <2>1. j \in 1 .. n /\ j \in places /\ c[j] = p
    BY <1>5 DEF Finds
  <2> HIDE DEF j
  <2>2. f[j] = K[p]
    BY <1>4, <2>1 DEF SelectCount, n
  <2>3. StateAfter(sk, p - 1) = StateAfter(sf, j - 1)
    BY <1>7, <2>1
  <2>4. StateAfter(sk, p) = F!advanceTomlScanState(StateAfter(sk, p - 1), K[p].tokens)
    BY StraightStep
  <2>5. StateAfter(sf, j) = F!advanceTomlScanState(StateAfter(sf, j - 1), f[j].tokens)
    BY <2>1, StraightStep DEF n
  <2>6. StateAfter(sk, p) = StateAfter(sf, j)
    BY <2>2, <2>3, <2>4, <2>5
  <2> QED BY <2>1, <2>2, <2>3, <2>6 DEF j
<1>9. ASSUME NEW p \in 1 .. Len(K) - 1, StateAfter(sk, p) # F!Fresh PROVE e[p + 1] = e[p] + 1
  <2> DEFINE j == e[p]
             k == e[p + 1]
  <2>1. p \in 1 .. Len(K) /\ p + 1 \in 1 .. Len(K) /\ p < p + 1
    BY <1>1
  <2>2. j \in 1 .. n /\ j \in places /\ c[j] = p /\ k \in 1 .. n /\ j < k
    BY <1>5, <2>1 DEF Finds
  <2>3. StateAfter(sf, j) # F!Fresh
    BY <1>8, <1>9, <2>1
  <2> HIDE DEF j, k
  <2>4. j \in 1 .. n - 1 /\ j + 1 \in 1 .. n /\ (j + 1) - 1 = j
    BY <1>1, <2>2
  <2>5. j + 1 \in places
    BY <1>6, <2>2, <2>3, <2>4 DEF Together
  <2>6. c[j + 1] = p + 1
    <3>1. c[j + 1] = c[(j + 1) - 1] + 1
      BY <1>4, <2>4, <2>5 DEF SelectCount, n
    <3> QED BY <2>2, <2>4, <3>1
  <2>7. e[c[j + 1]] = j + 1
    BY <1>5, <2>4, <2>5 DEF Finds
  <2> QED BY <2>6, <2>7 DEF j
<1>10. InStep(K, sk, f, sf, e)
  <2>1. \A i, j \in 1 .. Len(K) : i < j => e[i] < e[j]
    BY <1>5 DEF Finds
  <2> QED BY <1>8, <1>9, <2>1 DEF InStep, n
<1>11. Reached(K, e) = places
  <2>1. \A j \in places : j \in 1 .. n
    BY DEF places, KeptPlaces, n
  <2> QED BY <1>5, <2>1 DEF Reached, Finds
<1>12. Headed(K, sf, e)
  <2> SUFFICES ASSUME NEW i \in 1 .. Len(K), ~Quiet(K[i]), NEW h \in 1 .. e[i], HeaderOf(sf, h, e[i])
               PROVE  h \in places
    BY <1>11 DEF Headed
  <2> DEFINE j == e[i]
  <2>1. j \in 1 .. n /\ j \in places /\ ~Quiet(f[j]) /\ h \in 1 .. j /\ HeaderOf(sf, h, j)
    BY <1>5, <1>8 DEF Finds
  <2> HIDE DEF j
  <2>2. sf[h].isHeader /\ \A g \in h + 1 .. j : ~sf[g].isHeader
    BY <2>1 DEF HeaderOf
  <2>3. h \in 1 .. n /\ h \in 1 .. Len(f)
    BY <1>1, <2>1 DEF n
  <2>4. \E l \in 1 .. j : sf[l].isHeader /\ sf[j].table = f[l].name /\ \A g \in l + 1 .. j : ~sf[g].isHeader
    <3>1. \/ sf[j].table = RootTable /\ \A l \in 1 .. j : ~sf[l].isHeader
          \/ \E l \in 1 .. j : /\ sf[l].isHeader /\ sf[j].table = f[l].name
                               /\ \A g \in l + 1 .. j : ~sf[g].isHeader
      BY <1>1, <1>2, <2>1, TableOf DEF n
    <3> QED BY <2>1, <2>2, <3>1
  <2>5. PICK l \in 1 .. j : sf[l].isHeader /\ sf[j].table = f[l].name /\ \A g \in l + 1 .. j : ~sf[g].isHeader
    BY <2>4
  <2>6. l = h
    <3>1. ~(h < l)
      BY <2>1, <2>2, <2>5
    <3>2. ~(l < h)
      BY <2>1, <2>2, <2>5
    <3> QED BY <2>1, <3>1, <3>2
  <2>7. /\ sf[h].table = f[h].name /\ f[h].shape = "header"
        /\ sf[h].start = h
        /\ ~Quiet(f[h]) => F!tomlSectionOwner(sf, h) = sf[h].table
    BY <2>2, <2>3, StraightLine
  <2>8. F!tomlSectionOwner(sf, j) = sf[j].table
    BY <2>1, StraightLine DEF n
  <2>9. F!tomlSectionOwner(sf, j) # F!codexManagedTable
    BY <2>1 DEF places, KeptPlaces, Kept
  <2>10. ~Quiet(f[h])
    BY <2>7 DEF Quiet
  <2>11. F!tomlSectionOwner(sf, h) # F!codexManagedTable
    BY <2>5, <2>6, <2>7, <2>8, <2>9, <2>10
  <2>12. ~F!tomlRootKey(sf, sf[h].start, F!codexManagedKeys)
    BY <2>2, <2>7 DEF F!tomlRootKey
  <2> QED BY <2>3, <2>11, <2>12 DEF places, KeptPlaces, Kept
<1> QED BY <1>10, <1>11, <1>12 DEF places

\* A statement that is not of the managed settings.
Theirs(s) == s[1] # F!codexManagedTable /\ (Len(s) = 3 => ~(s[1] = "" /\ s[2] \in F!codexManagedKeys))

LEMMA KeptSays ==
  ASSUME NEW S, NEW f, NEW sf, Straight(S, f, sf), NEW i \in Stated(f, sf)
  PROVE  i \in KeptPlaces(f, sf) <=> Theirs(Says(f, sf, i))
<1>1. i \in 1 .. Len(f) /\ StateAfter(sf, i - 1) = F!Fresh /\ f[i].shape \in {"header", "key"}
  BY DEF Stated
<1>2. /\ sf[i].isHeader <=> f[i].shape = "header"
      /\ sf[i].isHeader => sf[i].table = f[i].name
      /\ sf[i].line = f[i] /\ sf[i].start = i
      /\ F!tomlSectionOwner(sf, i) = sf[i].table
  BY <1>1, StraightLine DEF Quiet
<1>3. i \in KeptPlaces(f, sf) <=> sf[i].table # F!codexManagedTable /\ ~F!tomlRootKey(sf, i, F!codexManagedKeys)
  BY <1>1, <1>2 DEF KeptPlaces, Kept
<1> DEFINE s == Says(f, sf, i)
<1>4. CASE f[i].shape = "header"
  <2>1. s = <<f[i].name>>
    BY <1>4 DEF Says
  <2>2. s[1] = f[i].name /\ Len(s) # 3
    BY <2>1
  <2>3. ~F!tomlRootKey(sf, i, F!codexManagedKeys)
    BY <1>2, <1>4 DEF F!tomlRootKey
  <2> HIDE DEF s
  <2> QED BY <1>2, <1>3, <1>4, <2>2, <2>3 DEF Theirs, s
<1>5. CASE f[i].shape = "key"
  <2> DEFINE v == SubSeq(f, i, F!Min(Ends(f, sf, i)))
  <2>1. s = <<sf[i].table, f[i].name, v>>
    BY <1>5 DEF Says
  <2> HIDE DEF v, s
  <2>2. s[1] = sf[i].table /\ s[2] = f[i].name /\ Len(s) = 3
    BY <2>1
  <2>3. F!tomlRootKey(sf, i, F!codexManagedKeys) <=> f[i].name \in F!codexManagedKeys /\ sf[i].table = ""
    BY <1>2, <1>5 DEF F!tomlRootKey
  <2>4. Theirs(s) <=> sf[i].table # F!codexManagedTable /\ ~(sf[i].table = "" /\ f[i].name \in F!codexManagedKeys)
    BY <2>2 DEF Theirs
  <2> QED BY <1>3, <2>3, <2>4 DEF s
<1> QED BY <1>1, <1>4, <1>5

\* The strip takes the managed statements and no others.
LEMMA StripSays ==
  ASSUME NEW S, NEW f, NEW sf, Straight(S, f, sf), WellRead(f, sf), NEW K, K = F!Select(f, KeptPlaces(f, sf)),
         NEW sk, Straight(S, K, sk)
  PROVE  /\ WellRead(K, sk) /\ StateAfter(sk, Len(K)) = F!Fresh
         /\ Sayings(K, sk, Stated(K, sk)) = {s \in Sayings(f, sf, Stated(f, sf)) : Theirs(s)}
<1>1. PICK e : InStep(K, sk, f, sf, e) /\ Headed(K, sf, e) /\ Reached(K, e) = KeptPlaces(f, sf)
  BY KeptInStep
<1>2. InTables(K, sk, sf, e)
  BY <1>1, TablesInStep
<1>3. StateAfter(sk, Len(K)) = F!Fresh
  <2>1. PICK r \in BOOLEAN : ~r /\ IsScan(f, r, sf)
    BY DEF Straight
  <2>2. IsScan(K, r, sk)
    BY <2>1 DEF Straight
  <2>3. StateAfter(sf, Len(f)) = F!Fresh /\ File(S, f)
    BY StraightIs DEF WellRead
  <2> QED BY <2>1, <2>2, <2>3, StripCleans
<1>4. WellRead(K, sk)
  BY <1>1, <1>2, <1>3, WellReadInStep
<1>5. Sayings(K, sk, Stated(K, sk)) = Sayings(f, sf, Stated(f, sf) \cap KeptPlaces(f, sf))
  BY <1>1, <1>2, <1>3, SayingsInStep
<1>6. \A i \in Stated(f, sf) : i \in KeptPlaces(f, sf) <=> Theirs(Says(f, sf, i))
  BY KeptSays
<1>7. Sayings(f, sf, Stated(f, sf) \cap KeptPlaces(f, sf)) = {s \in Sayings(f, sf, Stated(f, sf)) : Theirs(s)}
  BY <1>6 DEF Sayings
<1> QED BY <1>3, <1>4, <1>5, <1>7

-----------------------------------------------------------------------------
(* The parts of a file are in step with every file they stand in. *)

Placed(a, b, p, q) == [i \in 1 .. a + b |-> IF i <= a THEN p + i ELSE q + (i - a)]

LEMMA StandingInStep ==
  ASSUME NEW S, NEW A, A \in Seq(S), NEW B, B \in Seq(S), NEW Y, NEW p, NEW q, Standing(Y, A, p, B, q),
         Len(Y) \in Nat, NEW sy, NEW sc,
         SameScan(sy, p, sc, 0, Len(A)), SameScan(sy, q, sc, Len(A), Len(B)),
         Len(B) # 0 => StateAfter(sc, Len(A)) = F!Fresh,
         NEW e, e = Placed(Len(A), Len(B), p, q)
  PROVE  /\ InStep(A \o B, sc, Y, sy, e)
         /\ \A k \in 1 .. Len(A) : e[k] = p + k
         /\ \A k \in 1 .. Len(B) : e[Len(A) + k] = q + k
         /\ Reached(A \o B, e) = (p + 1 .. p + Len(A)) \cup (q + 1 .. q + Len(B))
<1> DEFINE a == Len(A)
           b == Len(B)
           C == A \o B
<1>1. /\ a \in Nat /\ b \in Nat /\ Len(C) = a + b /\ p \in Nat /\ q \in Nat
      /\ p + a <= q /\ q + b <= Len(Y)
      /\ \A k \in 1 .. a : Y[p + k] = A[k] /\ C[k] = A[k]
      /\ \A k \in 1 .. b : Y[q + k] = B[k] /\ C[a + k] = B[k]
  BY DEF Standing
<1>2. \A k \in 0 .. a : StateAfter(sy, p + k) = StateAfter(sc, 0 + k)
  BY DEF SameScan
<1>3. \A k \in 0 .. b : StateAfter(sy, q + k) = StateAfter(sc, a + k)
  BY DEF SameScan
<1>4. b # 0 => StateAfter(sc, a) = F!Fresh
  OBVIOUS
<1> HIDE DEF a, b, C
<1>5. ASSUME NEW k \in 1 .. a PROVE k \in 1 .. a + b /\ e[k] = p + k
  <2>1. k \in 1 .. a + b /\ k <= a
    BY <1>1
  <2> QED BY <2>1 DEF Placed, a, b
<1>6. ASSUME NEW k \in 1 .. b PROVE a + k \in 1 .. a + b /\ e[a + k] = q + k
  <2>1. a + k \in 1 .. a + b /\ ~(a + k <= a) /\ (a + k) - a = k
    BY <1>1
  <2>2. e = [i \in 1 .. a + b |-> IF i <= a THEN p + i ELSE q + (i - a)]
    BY DEF Placed, a, b
  <2> QED BY <2>1, <2>2
<1>7. \A i \in 1 .. a + b : i \in 1 .. a \/ \E k \in 1 .. b : i = a + k
  <2> SUFFICES ASSUME NEW i \in 1 .. a + b, ~(i \in 1 .. a) PROVE \E k \in 1 .. b : i = a + k
    OBVIOUS
  <2>1. i - a \in 1 .. b /\ i = a + (i - a)
    BY <1>1
  <2> QED BY <2>1
<1>8. ASSUME NEW i \in 1 .. a + b
      PROVE  /\ e[i] \in 1 .. Len(Y) /\ Y[e[i]] = C[i]
             /\ StateAfter(sc, i - 1) = StateAfter(sy, e[i] - 1) /\ StateAfter(sc, i) = StateAfter(sy, e[i])
  <2>1. CASE i \in 1 .. a
    <3>1. e[i] = p + i
      BY <1>5, <2>1
    <3>2. /\ i \in 0 .. a /\ i - 1 \in 0 .. a /\ 0 + i = i /\ 0 + (i - 1) = i - 1
          /\ (p + i) - 1 = p + (i - 1) /\ p + i \in 1 .. Len(Y)
      BY <1>1, <2>1
    <3>3. StateAfter(sy, p + i) = StateAfter(sc, 0 + i) /\ StateAfter(sy, p + (i - 1)) = StateAfter(sc, 0 + (i - 1))
      BY <1>2, <3>2
    <3>4. Y[p + i] = C[i]
      BY <1>1, <2>1
    <3> QED BY <3>1, <3>2, <3>3, <3>4
  <2>2. CASE \E k \in 1 .. b : i = a + k
    <3>1. PICK k \in 1 .. b : i = a + k
      BY <2>2
    <3>2. e[i] = q + k
      BY <1>6, <3>1
    <3>3. /\ k \in 0 .. b /\ k - 1 \in 0 .. b /\ a + (k - 1) = i - 1
          /\ (q + k) - 1 = q + (k - 1) /\ q + k \in 1 .. Len(Y)
      BY <1>1, <3>1
    <3>4. StateAfter(sy, q + k) = StateAfter(sc, a + k) /\ StateAfter(sy, q + (k - 1)) = StateAfter(sc, a + (k - 1))
      BY <1>3, <3>3
    <3>5. Y[q + k] = C[i]
      BY <1>1, <3>1
    <3> QED BY <3>1, <3>2, <3>3, <3>4, <3>5
  <2> QED BY <1>7, <2>1, <2>2
<1>9. ASSUME NEW i \in 1 .. a + b, NEW j \in 1 .. a + b, i < j PROVE e[i] < e[j]
  <2>1. CASE j \in 1 .. a
    <3>1. i \in 1 .. a
      BY <1>1, <1>9, <2>1
    <3>2. e[i] = p + i /\ e[j] = p + j
      BY <1>5, <2>1, <3>1
    <3> QED BY <1>1, <1>9, <3>2
  <2>2. CASE \E k \in 1 .. b : j = a + k
    <3>1. PICK k \in 1 .. b : j = a + k
      BY <2>2
    <3>2. e[j] = q + k
      BY <1>6, <3>1
    <3>3. CASE i \in 1 .. a
      <4>1. e[i] = p + i
        BY <1>5, <3>3
      <4> QED BY <1>1, <3>2, <3>3, <4>1
    <3>4. CASE \E l \in 1 .. b : i = a + l
      <4>1. PICK l \in 1 .. b : i = a + l
        BY <3>4
      <4>2. e[i] = q + l
        BY <1>6, <4>1
      <4> QED BY <1>1, <1>9, <3>1, <3>2, <4>1, <4>2
    <3> QED BY <1>7, <3>3, <3>4
  <2> QED BY <1>7, <2>1, <2>2
<1>10. ASSUME NEW i \in 1 .. (a + b) - 1, StateAfter(sc, i) # F!Fresh PROVE e[i + 1] = e[i] + 1
  <2>1. i \in 1 .. a + b /\ i + 1 \in 1 .. a + b
    BY <1>1
  <2>2. CASE i + 1 \in 1 .. a
    <3>1. i \in 1 .. a
      BY <1>1, <2>1, <2>2
    <3>2. e[i] = p + i /\ e[i + 1] = p + (i + 1)
      BY <1>5, <2>2, <3>1
    <3> QED BY <1>1, <3>2
  <2>3. CASE \E k \in 1 .. b : i + 1 = a + k
    <3>1. PICK k \in 1 .. b : i + 1 = a + k
      BY <2>3
    <3>2. i # a
      BY <1>1, <1>4, <1>10, <3>1
    <3>3. k - 1 \in 1 .. b /\ i = a + (k - 1)
      BY <1>1, <3>1, <3>2
    <3>4. e[i + 1] = q + k /\ e[i] = q + (k - 1)
      BY <1>6, <3>1, <3>3
    <3> QED BY <1>1, <3>4
  <2> QED BY <1>7, <2>1, <2>2, <2>3
<1>11. InStep(C, sc, Y, sy, e)
  <2>1. Len(C) = a + b
    BY <1>1
  <2> QED BY <1>8, <1>9, <1>10, <2>1 DEF InStep
<1>12. Reached(C, e) = (p + 1 .. p + a) \cup (q + 1 .. q + b)
  <2>1. ASSUME NEW x \in Reached(C, e) PROVE x \in (p + 1 .. p + a) \cup (q + 1 .. q + b)
    <3>1. PICK i \in 1 .. a + b : x = e[i]
      BY <1>1, <2>1 DEF Reached
    <3>2. CASE i \in 1 .. a
      BY <1>1, <1>5, <3>1, <3>2
    <3>3. CASE \E k \in 1 .. b : i = a + k
      <4>1. PICK k \in 1 .. b : i = a + k
        BY <3>3
      <4>2. x = q + k
        BY <1>6, <3>1, <4>1
      <4> QED BY <1>1, <4>2
    <3> QED BY <1>7, <3>2, <3>3
  <2>2. ASSUME NEW x \in p + 1 .. p + a PROVE x \in Reached(C, e)
    <3>1. x - p \in 1 .. a /\ x = p + (x - p)
      BY <1>1
    <3>2. x - p \in 1 .. a + b /\ e[x - p] = x
      BY <1>5, <3>1
    <3> QED BY <1>1, <3>2 DEF Reached
  <2>3. ASSUME NEW x \in q + 1 .. q + b PROVE x \in Reached(C, e)
    <3> DEFINE k == x - q
    <3>1. k \in 1 .. b /\ x = q + k
      BY <1>1
    <3> HIDE DEF k
    <3>2. a + k \in 1 .. a + b /\ e[a + k] = x
      BY <1>6, <3>1
    <3> QED BY <1>1, <3>2 DEF Reached
  <2> QED BY <2>1, <2>2, <2>3
<1> QED BY <1>5, <1>6, <1>11, <1>12 DEF a, b, C

\* Nothing is open where the tables begin.
LEMMA TablesBeginFresh ==
  ASSUME NEW S, NEW A, A \in Seq(S), NEW B, B \in Seq(S), NEW sc, Straight(S, A \o B, sc), Parts(A, B, sc), Len(B) # 0
  PROVE  StateAfter(sc, Len(A)) = F!Fresh
<1> DEFINE a == Len(A)
           b == Len(B)
           C == A \o B
<1>1. PICK h \in 1 .. b : sc[a + h].isHeader /\ \A j \in 1 .. h - 1 : Quiet(B[j])
  BY DEF Parts
<1>2. PICK r \in BOOLEAN : ~r /\ IsScan(C, r, sc)
  BY DEF Straight
<1>3. Straight(S, C, sc) /\ TomlFile(C) /\ Len(C) = a + b /\ a \in Nat /\ b \in Nat /\ \A k \in 1 .. b : C[a + k] = B[k]
  BY StraightIs
<1> HIDE DEF a, b, C
<1> DEFINE z == a + h - 1
<1>4. a + h \in 1 .. Len(C) /\ z \in Nat /\ a <= z /\ z <= Len(C) /\ (a + h) - 1 = z
  BY <1>3
<1>5. StateAfter(sc, (a + h) - 1) = F!Fresh
  <2> DEFINE y == a + h
  <2>1. y \in 1 .. Len(C) /\ sc[y].isHeader
    BY <1>1, <1>4
  <2> HIDE DEF y
  <2>2. StateAfter(sc, y - 1) = F!Fresh
    BY <1>3, <2>1, StraightLine
  <2> QED BY <2>2 DEF y
<1>6. QuietBetween(C, a, z)
  <2> SUFFICES ASSUME NEW i \in a + 1 .. z PROVE Quiet(C[i])
    BY <1>3, <1>4 DEF QuietBetween
  <2>1. i - a \in 1 .. h - 1 /\ i - a \in 1 .. b /\ i = a + (i - a)
    BY <1>3
  <2>2. C[a + (i - a)] = B[i - a]
    BY <1>3, <2>1
  <2>3. C[i] = B[i - a]
    BY <2>1, <2>2
  <2> QED BY <1>1, <2>1, <2>3
<1> HIDE DEF z
<1>7. StateAfter(sc, z) = StateAfter(sc, a)
  BY <1>2, <1>3, <1>6, QuietStretch
<1> QED BY <1>4, <1>5, <1>7 DEF a

\* What the parts say is what the file they are cut from says.
LEMMA PartsSay ==
  ASSUME NEW S, NEW K, NEW sk, Straight(S, K, sk), WellRead(K, sk),
         NEW A, A \in Seq(S), NEW B, B \in Seq(S), NEW p, NEW q, Alone(K, A, p, B, q),
         NEW sc, Straight(S, A \o B, sc), Parts(A, B, sc)
  PROVE  /\ WellRead(A \o B, sc)
         /\ Sayings(A \o B, sc, Stated(A \o B, sc)) = Sayings(K, sk, Stated(K, sk))
<1> DEFINE C == A \o B
           e == Placed(Len(A), Len(B), p, q)
<1>1. File(S, K) /\ Len(K) \in Nat /\ Len(C) = Len(A) + Len(B) /\ Standing(K, A, p, B, q)
  BY StraightIs DEF Alone
<1>2. PICK r \in BOOLEAN : ~r /\ IsScan(K, r, sk)
  BY DEF Straight
<1>3. IsScan(C, r, sc)
  BY <1>2 DEF Straight
<1>4. /\ SameScan(sk, p, sc, 0, Len(A)) /\ SameScan(sk, q, sc, Len(A), Len(B))
      /\ StateAfter(sk, Len(K)) = StateAfter(sc, Len(A) + Len(B))
  BY <1>1, <1>2, <1>3, LockstepAlone
<1>5. StateAfter(sc, Len(C)) = F!Fresh
  BY <1>1, <1>4 DEF WellRead
<1>6. Len(B) # 0 => StateAfter(sc, Len(A)) = F!Fresh
  BY TablesBeginFresh
<1>7. e = Placed(Len(A), Len(B), p, q)
  OBVIOUS
<1> HIDE DEF e
<1>8. InStep(C, sc, K, sk, e) /\ Reached(C, e) = (p + 1 .. p + Len(A)) \cup (q + 1 .. q + Len(B))
  BY <1>1, <1>4, <1>6, <1>7, StandingInStep
<1> HIDE DEF C
<1>9. \A i \in 1 .. Len(K) : K[i] # F!Blank => i \in Reached(C, e)
  <2> SUFFICES ASSUME NEW i \in 1 .. Len(K), K[i] # F!Blank
               PROVE  i \in (p + 1 .. p + Len(A)) \cup (q + 1 .. q + Len(B))
    BY <1>8
  <2>1. ~(i <= p \/ (i > p + Len(A) /\ i <= q) \/ i > q + Len(B))
    BY DEF Alone
  <2>2. p \in Nat /\ q \in Nat /\ Len(A) \in Nat /\ Len(B) \in Nat
    BY <1>1 DEF Standing
  <2> HIDE DEF C
  <2> QED BY <2>1, <2>2
<1>10. \A i \in 1 .. Len(K) : K[i].shape = "key" \/ K[i].shape = "header" => i \in Reached(C, e)
  <2> SUFFICES ASSUME NEW i \in 1 .. Len(K), K[i].shape = "key" \/ K[i].shape = "header" PROVE i \in Reached(C, e)
    OBVIOUS
  <2>1. K[i] # F!Blank
    BY NotBlank
  <2> QED BY <1>9, <2>1
<1>11. Headed(C, sk, e)
  <2> SUFFICES ASSUME NEW i \in 1 .. Len(C), NEW h \in 1 .. e[i], HeaderOf(sk, h, e[i]) PROVE h \in Reached(C, e)
    BY DEF Headed
  <2>1. sk[h].isHeader
    BY DEF HeaderOf
  <2>2. h \in 1 .. Len(K)
    <3> DEFINE y == e[i]
    <3>1. y \in 1 .. Len(K) /\ h \in 1 .. y
      BY <1>8 DEF InStep
    <3> HIDE DEF y
    <3> QED BY <1>1, <3>1
  <2>3. K[h].shape = "header"
    BY <2>1, <2>2, StraightLine
  <2> QED BY <1>10, <2>2, <2>3
<1>12. Straight(S, C, sc)
  BY DEF C
<1>13. InTables(C, sc, sk, e)
  BY <1>8, <1>11, <1>12, TablesInStep
<1>14. WellRead(C, sc)
  BY <1>5, <1>8, <1>12, <1>13, WellReadInStep
<1>15. Sayings(C, sc, Stated(C, sc)) = Sayings(K, sk, Stated(K, sk) \cap Reached(C, e))
  BY <1>5, <1>8, <1>12, <1>13, SayingsInStep
<1>16. Stated(K, sk) \cap Reached(C, e) = Stated(K, sk)
  BY <1>10 DEF Stated
<1> QED BY <1>14, <1>15, <1>16 DEF C

-----------------------------------------------------------------------------
(* What the merged file says. *)

LEMMA SubSeqOne == ASSUME NEW s, NEW i \in Nat PROVE SubSeq(s, i, i) = <<s[i]>>
<1>1. SubSeq(s, i, i) = [k \in 1 .. (1 + i - i) |-> s[k + i - 1]]
  BY DEF SubSeq
<1>2. 1 + i - i = 1 /\ \A k \in 1 .. 1 : k + i - 1 = i
  OBVIOUS
<1>3. SubSeq(s, i, i) = [k \in 1 .. 1 |-> s[i]]
  BY <1>1, <1>2
<1>4. [k \in 1 .. 1 |-> s[i]] = <<s[i]>>
  OBVIOUS
<1> QED BY <1>3, <1>4

\* A key whose value ends in its line.
LEMMA OneLine ==
  ASSUME NEW lines, Len(lines) \in Nat, NEW scan, NEW i \in 1 .. Len(lines), StateAfter(scan, i) = F!Fresh
  PROVE  SubSeq(lines, i, F!Min(Ends(lines, scan, i))) = <<lines[i]>>
<1>1. i \in i .. Len(lines) /\ EndsAt(scan, i, i) /\ i \in Nat
  <2>1. i .. i - 1 = {}
    OBVIOUS
  <2> QED BY <2>1 DEF EndsAt
<1>2. F!Min(Ends(lines, scan, i)) = i
  BY <1>1, EndIs
<1> QED BY <1>1, <1>2, SubSeqOne

\* The two parts C of a file that closes its values.
Cut(S, A, B, C, sc) ==
  /\ A \in Seq(S) /\ B \in Seq(S) /\ C = A \o B /\ F!Closed(C)
  /\ Straight(S, C, sc) /\ StateAfter(sc, Len(C)) = F!Fresh /\ Parts(A, B, sc)

\* What stands in the parts is not of the managed settings.
LEMMA PartsUntouched ==
  ASSUME NEW S, NEW A, NEW B, NEW C, NEW sc, Cut(S, A, B, C, sc), NEW k \in Stated(C, sc)
  PROVE  /\ C[k].shape = "header" => C[k].name # F!codexManagedTable
         /\ C[k].shape = "key" => /\ sc[k].table # F!codexManagedTable
                                  /\ ~(C[k].name \in F!codexManagedKeys /\ sc[k].table = RootTable)
<1> DEFINE a == Len(A)
           b == Len(B)
<1>1. /\ a \in Nat /\ b \in Nat /\ Len(C) = a + b /\ TomlFile(C)
      /\ \A x \in 1 .. a : C[x] = A[x]
      /\ \A x \in 1 .. b : C[a + x] = B[x]
      /\ Straight(S, C, sc)
  <2>1. A \in Seq(S) /\ B \in Seq(S) /\ C = A \o B /\ Straight(S, C, sc)
    BY DEF Cut
  <2> QED BY <2>1, StraightIs
<1>2. /\ \A x \in 1 .. a : /\ ~sc[x].isHeader
                           /\ A[x].shape = "key" /\ A[x].name \in F!codexManagedKeys => StateAfter(sc, x - 1) # F!Fresh
      /\ \A x \in 1 .. b : sc[a + x].isHeader => B[x].name # F!codexManagedTable
      /\ b # 0 => \E h \in 1 .. b : sc[a + h].isHeader /\ \A j \in 1 .. h - 1 : Quiet(B[j])
  BY DEF Cut, Parts
<1> HIDE DEF a, b
<1>3. k \in 1 .. a + b /\ StateAfter(sc, k - 1) = F!Fresh /\ C[k].shape \in {"header", "key"} /\ k \in 1 .. Len(C)
  BY <1>1 DEF Stated
<1>4. C[k].shape = "header" => sc[k].isHeader
  BY <1>1, <1>3, StraightLine
<1>5. \A x \in 1 .. a + b : sc[x].isHeader => C[x].name # F!codexManagedTable /\ x > a
  <2> SUFFICES ASSUME NEW x \in 1 .. a + b, sc[x].isHeader PROVE C[x].name # F!codexManagedTable /\ x > a
    OBVIOUS
  <2>1. x \notin 1 .. a
    BY <1>2
  <2> DEFINE y == x - a
  <2>2. y \in 1 .. b /\ x = a + y
    BY <1>1, <2>1
  <2> HIDE DEF y
  <2>3. sc[a + y].isHeader
    BY <2>2
  <2>4. B[y].name # F!codexManagedTable /\ C[a + y] = B[y]
    BY <1>1, <1>2, <2>2, <2>3
  <2>5. x > a
    BY <1>1, <2>2
  <2> QED BY <2>2, <2>4, <2>5
<1>6. \/ sc[k].table = RootTable /\ \A h \in 1 .. k : ~sc[h].isHeader
      \/ \E h \in 1 .. k : sc[h].isHeader /\ C[h].name # RootTable /\ sc[k].table = C[h].name
  <2>1. PICK r \in BOOLEAN : ~r /\ IsScan(C, r, sc)
    BY <1>1 DEF Straight
  <2>2. TomlFile(C) /\ k \in 1 .. Len(C)
    BY <1>1, <1>3
  <2>3. \/ sc[k].table = RootTable /\ \A h \in 1 .. k : ~sc[h].isHeader
        \/ \E h \in 1 .. k : /\ sc[h].isHeader /\ C[h].shape = "header" /\ C[h].name # RootTable
                             /\ sc[k].table = C[h].name
                             /\ \A g \in h + 1 .. k : ~sc[g].isHeader
    BY ONLY <2>1, <2>2, TableOf
  <2> QED BY <2>3
<1>7. sc[k].table # F!codexManagedTable
  <2>1. CASE sc[k].table = RootTable
    BY <2>1, RootIsNoTable
  <2>2. CASE \E h \in 1 .. k : sc[h].isHeader /\ C[h].name # RootTable /\ sc[k].table = C[h].name
    <3>1. PICK h \in 1 .. k : sc[h].isHeader /\ sc[k].table = C[h].name
      BY <2>2
    <3>2. h \in 1 .. a + b
      BY <1>1, <1>3
    <3> QED BY <1>5, <3>1, <3>2
  <2> QED BY <1>6, <2>1, <2>2
<1>8. ASSUME C[k].shape = "key", C[k].name \in F!codexManagedKeys, sc[k].table = RootTable PROVE FALSE
  <2>1. k \notin 1 .. a
    <3> SUFFICES ASSUME k \in 1 .. a PROVE FALSE
      OBVIOUS
    <3> QED BY <1>1, <1>2, <1>3, <1>8
  <2> DEFINE y == k - a
  <2>2. y \in 1 .. b /\ k = a + y /\ b # 0
    BY <1>1, <1>3, <2>1
  <2> HIDE DEF y
  <2>3. PICK h \in 1 .. b : sc[a + h].isHeader /\ \A j \in 1 .. h - 1 : Quiet(B[j])
    BY <1>2, <2>2
  <2>4. ~Quiet(B[y])
    <3>1. C[a + y] = B[y]
      BY <1>1, <2>2
    <3> QED BY <1>8, <2>2, <3>1 DEF Quiet
  <2>5. a + h \in 1 .. k
    <3>1. y \notin 1 .. h - 1
      BY <2>3, <2>4
    <3> QED BY <1>1, <2>2, <3>1
  <2>6. \E x \in 1 .. k : sc[x].isHeader /\ C[x].name # RootTable /\ sc[k].table = C[x].name
    BY <1>6, <2>3, <2>5
  <2> QED BY <1>8, <2>6
<1> QED BY <1>3, <1>4, <1>5, <1>7, <1>8

FragmentSays(m, t) ==
  {<<RootTable, "model", <<F!Setting("model", m)>>>>,
   <<RootTable, "model_provider", <<F!Setting("model_provider", "gateway")>>>>,
   <<F!codexManagedTable>>,
   <<F!codexManagedTable, "experimental_bearer_token", <<F!Setting("experimental_bearer_token", t)>>>>}

\* The fragment's four statements in the merged file.
FragmentStands(g, sg, m, t, u) ==
  /\ \A i \in {1, 2, u + 2} : g[i].shape = "key"
  /\ g[1].name = "model" /\ g[2].name = "model_provider" /\ g[u + 2].name = "experimental_bearer_token"
  /\ g[u + 1].shape = "header" /\ g[u + 1].name = F!codexManagedTable
  /\ sg[1].table = RootTable /\ sg[2].table = RootTable /\ sg[u + 2].table = F!codexManagedTable
  /\ {1, 2, u + 1, u + 2} \subseteq Stated(g, sg)
  /\ Sayings(g, sg, {1, 2, u + 1, u + 2}) = FragmentSays(m, t)

LEMMA FragmentSaid ==
  ASSUME NEW S, NEW A, NEW B, NEW C, NEW sc, Cut(S, A, B, C, sc), NEW m, NEW t, NEW g, NEW p, NEW q, LaidOut(g, m, t, A, p, B, q),
         NEW sg, Straight(S, g, sg), NEW u, u = p + Len(A) + 1
  PROVE  FragmentStands(g, sg, m, t, u)
<1>1. File(S, g) /\ Len(g) \in Nat
  BY StraightIs
<1>2. PICK r \in BOOLEAN : ~r /\ IsScan(g, r, sg)
  BY DEF Straight
<1>3. IsScan(A \o B, r, sc) /\ (r <=> ~F!Closed(A \o B)) /\ A \in Seq(S) /\ B \in Seq(S) /\ Parts(A, B, sc)
  BY <1>2 DEF Cut, Straight
<1>4. /\ u \in Nat /\ 2 <= u /\ u + 2 <= Len(g)
      /\ g[1] = F!Setting("model", m) /\ g[2] = F!Setting("model_provider", "gateway")
      /\ g[u + 1] = F!Header(F!codexManagedTable) /\ g[u + 2] = F!Setting("experimental_bearer_token", t)
  <2>1. Len(A) \in Nat /\ Len(B) \in Nat /\ p \in {2, 3}
    BY <1>3 DEF LaidOut
  <2>2. Len(g) = q + Len(B) /\ (q = p + Len(A) + 3 \/ q = p + Len(A) + 4)
    BY DEF LaidOut
  <2>3. u + 1 = p + Len(A) + 2 /\ u + 2 = p + Len(A) + 3
    BY <2>1
  <2>4. u \in Nat /\ 2 <= u /\ u + 2 <= Len(g)
    BY <2>1, <2>2
  <2> QED BY <2>3, <2>4 DEF LaidOut
<1>5. /\ sg[u + 1].isHeader
      /\ StateAfter(sg, u + 1) = F!Fresh /\ StateAfter(sg, u + 2) = F!Fresh
      /\ sg[u + 2].table = F!codexManagedTable
  BY <1>1, <1>2, <1>3, OutHeaders
<1>6. StateAfter(sg, 1) = F!Fresh /\ StateAfter(sg, 2) = F!Fresh
  BY <1>1, <1>2, <1>3, OutScanned
<1>7. \A i \in 1 .. u : F!tomlSectionOwner(sg, i) = RootTable
  BY <1>1, <1>2, <1>3, OutKept
<1> DEFINE v == u + 1
           w == u + 2
<1>8. 1 \in 1 .. Len(g) /\ 2 \in 1 .. Len(g) /\ v \in 1 .. Len(g) /\ w \in 1 .. Len(g) /\ w - 1 = v /\ 1 \in 1 .. u /\ 2 \in 1 .. u
  BY <1>1, <1>4
<1>9. /\ g[1].shape = "key" /\ g[1].name = "model" /\ g[2].shape = "key" /\ g[2].name = "model_provider"
      /\ g[w].shape = "key" /\ g[w].name = "experimental_bearer_token"
      /\ g[v].shape = "header" /\ g[v].name = F!codexManagedTable
  BY <1>4, SettingIs, HeaderIs
<1>10. sg[v].isHeader /\ StateAfter(sg, v) = F!Fresh /\ StateAfter(sg, w) = F!Fresh /\ sg[w].table = F!codexManagedTable
  BY <1>5
<1> HIDE DEF v, w
<1>11. sg[1].table = RootTable /\ sg[2].table = RootTable
  <2>1. ~Quiet(g[1]) /\ ~Quiet(g[2])
    BY <1>9 DEF Quiet
  <2>2. F!tomlSectionOwner(sg, 1) = sg[1].table /\ F!tomlSectionOwner(sg, 2) = sg[2].table
    BY <1>8, <2>1, StraightLine
  <2> QED BY <1>7, <1>8, <2>2
<1>12. StateAfter(sg, v - 1) = F!Fresh
  BY <1>8, <1>10, StraightLine
<1>13. 1 \in Stated(g, sg) /\ 2 \in Stated(g, sg) /\ v \in Stated(g, sg) /\ w \in Stated(g, sg)
  <2>1. StateAfter(sg, 1 - 1) = F!Fresh /\ StateAfter(sg, 2 - 1) = F!Fresh
    BY <1>6, BeforeAll
  <2>2. StateAfter(sg, w - 1) = F!Fresh
    BY <1>8, <1>10
  <2> QED BY <1>8, <1>9, <1>12, <2>1, <2>2 DEF Stated
<1>14. Says(g, sg, 1) = <<RootTable, "model", <<F!Setting("model", m)>>>>
  <2>1. SubSeq(g, 1, F!Min(Ends(g, sg, 1))) = <<g[1]>>
    BY <1>1, <1>6, <1>8, OneLine
  <2> QED BY <1>4, <1>9, <1>11, <2>1 DEF Says
<1>15. Says(g, sg, 2) = <<RootTable, "model_provider", <<F!Setting("model_provider", "gateway")>>>>
  <2>1. SubSeq(g, 2, F!Min(Ends(g, sg, 2))) = <<g[2]>>
    BY <1>1, <1>6, <1>8, OneLine
  <2> QED BY <1>4, <1>9, <1>11, <2>1 DEF Says
<1>16. Says(g, sg, w) = <<F!codexManagedTable, "experimental_bearer_token", <<F!Setting("experimental_bearer_token", t)>>>>
  <2>1. SubSeq(g, w, F!Min(Ends(g, sg, w))) = <<g[w]>>
    BY <1>1, <1>8, <1>10, OneLine
  <2>2. g[w] = F!Setting("experimental_bearer_token", t)
    BY <1>4 DEF w
  <2> QED BY <1>9, <1>10, <2>1, <2>2 DEF Says
<1>17. Says(g, sg, v) = <<F!codexManagedTable>>
  BY <1>9 DEF Says
<1>18. Sayings(g, sg, {1, 2, v, w}) = {Says(g, sg, 1), Says(g, sg, 2), Says(g, sg, v), Says(g, sg, w)}
  BY DEF Sayings
<1>19. Sayings(g, sg, {1, 2, v, w}) = FragmentSays(m, t)
  BY <1>14, <1>15, <1>16, <1>17, <1>18 DEF FragmentSays
<1> QED BY <1>9, <1>10, <1>11, <1>13, <1>19 DEF FragmentStands, v, w

\* The parts in the merged file, and where else there is anything but a blank line.
LEMMA PartsStand ==
  ASSUME NEW S, NEW A, NEW B, NEW C, NEW sc, Cut(S, A, B, C, sc),
         NEW m, NEW t, NEW g, NEW p, NEW q, LaidOut(g, m, t, A, p, B, q),
         NEW sg, Straight(S, g, sg), NEW u, u = p + Len(A) + 1
  PROVE  /\ \E e : /\ InStep(C, sc, g, sg, e) /\ Headed(C, sg, e)
                   /\ \A i \in 1 .. Len(g) : i \in {1, 2, u + 1, u + 2} \/ i \in Reached(C, e) \/ g[i] = F!Blank
         /\ StateAfter(sg, Len(g)) = F!Fresh
<1> DEFINE a == Len(A)
           b == Len(B)
           e == Placed(a, b, p, q)
<1>1. File(S, g) /\ Len(g) \in Nat
  BY StraightIs
<1>2. PICK r \in BOOLEAN : ~r /\ IsScan(g, r, sg)
  BY DEF Straight
<1>3. /\ IsScan(A \o B, r, sc) /\ (r <=> ~F!Closed(A \o B)) /\ A \in Seq(S) /\ B \in Seq(S) /\ Parts(A, B, sc)
      /\ C = A \o B /\ Straight(S, A \o B, sc) /\ StateAfter(sc, Len(C)) = F!Fresh
  BY <1>2 DEF Cut, Straight
<1>4. /\ a \in Nat /\ b \in Nat /\ p \in {2, 3} /\ q \in Nat /\ Len(g) = q + b /\ u = p + a + 1 /\ Len(C) = a + b
      /\ q = u + 2 \/ (q = u + 3 /\ g[q] = F!Blank)
      /\ p = 3 => g[3] = F!Blank
      /\ g[u] = F!Blank
  <2>1. a \in Nat /\ b \in Nat /\ Len(C) = a + b
    BY <1>3
  <2>2. p \in {2, 3} /\ (q = p + a + 3 \/ (q = p + a + 4 /\ g[q] = F!Blank)) /\ Len(g) = q + b
    BY DEF LaidOut
  <2>3. (p = 3 => g[3] = F!Blank) /\ g[u] = F!Blank
    BY DEF LaidOut
  <2> HIDE DEF a, b
  <2>4. u = p + a + 1
    BY DEF a
  <2> QED BY <2>1, <2>2, <2>3, <2>4
<1>5. /\ SameScan(sg, p, sc, 0, Len(A))
      /\ SameScan(sg, q, sc, Len(A), Len(B))
      /\ StateAfter(sg, Len(g)) = StateAfter(sc, Len(A) + Len(B))
  BY <1>1, <1>2, <1>3, OutScanned
<1>6. Standing(g, A, p, B, q)
  <2>1. (\A k \in 1 .. Len(A) : g[p + k] = A[k]) /\ (\A k \in 1 .. Len(B) : g[q + k] = B[k])
    BY DEF LaidOut
  <2>2. p \in Nat /\ q \in Nat /\ p + Len(A) <= q /\ q + Len(B) <= Len(g)
    BY <1>4
  <2> QED BY <2>1, <2>2 DEF Standing
<1>7. Len(B) # 0 => StateAfter(sc, Len(A)) = F!Fresh
  BY <1>3, TablesBeginFresh
<1>8. e = Placed(Len(A), Len(B), p, q)
  OBVIOUS
<1> HIDE DEF e
<1>9. /\ InStep(C, sc, g, sg, e)
      /\ \A k \in 1 .. a : e[k] = p + k
      /\ \A k \in 1 .. b : e[a + k] = q + k
      /\ Reached(C, e) = (p + 1 .. p + a) \cup (q + 1 .. q + b)
  <2>1. /\ InStep(A \o B, sc, g, sg, e)
        /\ \A k \in 1 .. Len(A) : e[k] = p + k
        /\ \A k \in 1 .. Len(B) : e[Len(A) + k] = q + k
        /\ Reached(A \o B, e) = (p + 1 .. p + Len(A)) \cup (q + 1 .. q + Len(B))
    BY <1>1, <1>3, <1>5, <1>6, <1>7, <1>8, StandingInStep
  <2> QED BY <1>3, <2>1
<1>10. \A i \in 1 .. u : ~sg[i].isHeader
  BY <1>1, <1>2, <1>3, OutHeaders
<1>11. \A k \in 1 .. b : sg[q + k].isHeader <=> sc[a + k].isHeader
  BY <1>1, <1>2, <1>3, OutHeaders
<1>12. /\ b # 0 => \E h \in 1 .. b : sc[a + h].isHeader /\ \A j \in 1 .. h - 1 : Quiet(B[j])
       /\ \A k \in 1 .. b : C[a + k] = B[k]
  BY <1>3 DEF Parts
<1> HIDE DEF a, b
<1>13. ASSUME NEW i \in 1 .. Len(g), i \notin {1, 2, u + 1, u + 2}, i \notin Reached(C, e) PROVE g[i] = F!Blank
  <2>1. i \notin p + 1 .. p + a /\ i \notin q + 1 .. q + b
    BY <1>9, <1>13
  <2>2. (i = 3 /\ p = 3) \/ i = u \/ (i = q /\ q = u + 3)
    BY <1>4, <1>13, <2>1
  <2> QED BY <1>4, <2>2
<1>14. ASSUME NEW i \in 1 .. Len(C), ~Quiet(C[i]), NEW h \in 1 .. e[i], HeaderOf(sg, h, e[i]) PROVE h \in Reached(C, e)
  <2>1. sg[h].isHeader /\ \A x \in h + 1 .. e[i] : ~sg[x].isHeader
    BY <1>14 DEF HeaderOf
  <2>2. CASE i \in 1 .. a
    <3>1. e[i] = p + i
      BY <1>9, <2>2
    <3>2. h \in 1 .. u
      BY <1>4, <2>2, <3>1
    <3> QED BY <1>10, <2>1, <3>2
  <2>3. CASE i \notin 1 .. a
    <3> DEFINE k == i - a
    <3>1. k \in 1 .. b /\ i = a + k /\ b # 0
      BY <1>4, <2>3
    <3> HIDE DEF k
    <3>2. e[i] = q + k /\ C[i] = B[k]
      BY <1>9, <1>12, <3>1
    <3>3. PICK x \in 1 .. b : sc[a + x].isHeader /\ \A j \in 1 .. x - 1 : Quiet(B[j])
      BY <1>12, <3>1
    <3>4. x <= k
      <4>1. k \notin 1 .. x - 1
        BY <1>14, <3>2, <3>3
      <4> QED BY <1>4, <3>1, <4>1
    <3>5. sg[q + x].isHeader
      BY <1>11, <3>3
    <3>6. q + x \notin h + 1 .. q + k
      BY <2>1, <3>2, <3>5
    <3>7. h \in 1 .. q + k
      BY <3>2
    <3>8. h \in q + 1 .. q + b
      BY <1>4, <3>1, <3>3, <3>4, <3>6, <3>7
    <3> QED BY <1>9, <3>8
  <2> QED BY <2>2, <2>3
<1>15. Headed(C, sg, e)
  BY <1>14 DEF Headed
<1>16. StateAfter(sg, Len(g)) = F!Fresh
  BY <1>3, <1>4, <1>5 DEF a, b
<1> QED BY <1>9, <1>13, <1>15, <1>16

LEMMA MergedSays ==
  ASSUME NEW S, NEW A, NEW B, NEW C, NEW sc, Cut(S, A, B, C, sc), WellRead(C, sc),
         NEW m, NEW t, NEW g, NEW p, NEW q, LaidOut(g, m, t, A, p, B, q), NEW sg, Straight(S, g, sg)
  PROVE  /\ WellRead(g, sg)
         /\ Sayings(g, sg, Stated(g, sg)) = Sayings(C, sc, Stated(C, sc)) \cup FragmentSays(m, t)
<1> DEFINE u == p + Len(A) + 1
           Four == {1, 2, u + 1, u + 2}
<1>1. u = p + Len(A) + 1 /\ StateAfter(sc, Len(C)) = F!Fresh /\ Straight(S, C, sc)
  BY DEF Cut
<1> HIDE DEF u
<1>2. FragmentStands(g, sg, m, t, u)
  BY <1>1, FragmentSaid
<1>3. PICK e : /\ InStep(C, sc, g, sg, e) /\ Headed(C, sg, e)
               /\ \A i \in 1 .. Len(g) : i \in Four \/ i \in Reached(C, e) \/ g[i] = F!Blank
  BY <1>1, PartsStand
<1>4. StateAfter(sg, Len(g)) = F!Fresh
  BY <1>1, PartsStand
<1>5. InTables(C, sc, sg, e)
  BY <1>1, <1>3, TablesInStep
<1>6. Sayings(C, sc, Stated(C, sc)) = Sayings(g, sg, Stated(g, sg) \cap Reached(C, e))
  BY <1>1, <1>3, <1>5, SayingsInStep
<1>7. F!Blank.shape = "blank"
  BY DEF F!Blank, F!Line
<1>8. Four \subseteq Stated(g, sg) /\ Sayings(g, sg, Four) = FragmentSays(m, t)
  BY <1>2 DEF FragmentStands
<1>9. \A i \in Stated(g, sg) : i \in Four \/ i \in Reached(C, e)
  BY <1>3, <1>7 DEF Stated
<1>10. /\ g[1].shape = "key" /\ g[2].shape = "key" /\ g[u + 2].shape = "key"
       /\ g[1].name = "model" /\ g[2].name = "model_provider" /\ g[u + 2].name = "experimental_bearer_token"
       /\ g[u + 1].shape = "header" /\ g[u + 1].name = F!codexManagedTable
       /\ sg[1].table = RootTable /\ sg[2].table = RootTable /\ sg[u + 2].table = F!codexManagedTable
  BY <1>2 DEF FragmentStands
<1>11. ASSUME NEW j \in Stated(g, sg) \cap Reached(C, e)
       PROVE  \E k \in Stated(C, sc) : e[k] = j /\ C[k] = g[j] /\ sc[k].table = sg[j].table
  <2>1. PICK k \in 1 .. Len(C) : e[k] = j
    BY DEF Reached
  <2>2. g[e[k]] = C[k] /\ StateAfter(sc, k - 1) = StateAfter(sg, e[k] - 1)
    BY <1>3 DEF InStep
  <2>3. StateAfter(sg, j - 1) = F!Fresh /\ g[j].shape \in {"header", "key"}
    BY DEF Stated
  <2>4. k \in Stated(C, sc)
    BY <2>1, <2>2, <2>3 DEF Stated
  <2>5. ~Quiet(C[k])
    BY <2>1, <2>2, <2>3 DEF Quiet
  <2>6. sc[k].table = sg[e[k]].table
    BY <1>5, <2>5 DEF InTables
  <2> QED BY <2>1, <2>2, <2>4, <2>6
<1>12. ASSUME NEW i \in Four, NEW j \in Stated(g, sg) \cap Reached(C, e) PROVE ~Alike(g, sg, i, j) /\ ~Alike(g, sg, j, i)
  <2>1. PICK k \in Stated(C, sc) : C[k] = g[j] /\ sc[k].table = sg[j].table
    BY <1>11
  <2>2. /\ C[k].shape = "header" => C[k].name # F!codexManagedTable
        /\ C[k].shape = "key" => /\ sc[k].table # F!codexManagedTable
                                 /\ ~(C[k].name \in F!codexManagedKeys /\ sc[k].table = RootTable)
    BY PartsUntouched
  <2>3. /\ g[j].shape = "header" => g[j].name # F!codexManagedTable
        /\ g[j].shape = "key" => /\ sg[j].table # F!codexManagedTable
                                 /\ ~(g[j].name \in F!codexManagedKeys /\ sg[j].table = RootTable)
    BY <2>1, <2>2
  <2>4. "model" \in F!codexManagedKeys /\ "model_provider" \in F!codexManagedKeys
    BY DEF F!codexManagedKeys
  <2>5. /\ g[i].shape = "header" => g[i].name = F!codexManagedTable
        /\ g[i].shape = "key" => \/ sg[i].table = F!codexManagedTable
                                 \/ g[i].name \in F!codexManagedKeys /\ sg[i].table = RootTable
        /\ g[i].shape \in {"header", "key"}
    BY <1>10, <2>4
  <2> QED BY <2>3, <2>5 DEF Alike
<1>13. ASSUME NEW i \in Four, NEW j \in Four, i < j PROVE ~Alike(g, sg, i, j)
  <2>1. u \in Nat /\ 2 <= u
    <3>1. p \in {2, 3} /\ Len(A) \in Nat
      BY DEF LaidOut, Cut
    <3> QED BY <1>1, <3>1
  <2>2. \/ i = 1 /\ j = 2
        \/ i \in {1, 2} /\ j \in {u + 1, u + 2}
        \/ i = u + 1 /\ j = u + 2
    BY <1>13, <2>1
  <2>3. g[i].shape # g[j].shape \/ g[i].name # g[j].name
    BY <1>10, <2>2
  <2> QED BY <2>3 DEF Alike
<1>14. ASSUME NEW i \in Stated(g, sg) \cap Reached(C, e), NEW j \in Stated(g, sg) \cap Reached(C, e), i < j
       PROVE  ~Alike(g, sg, i, j)
  <2>1. PICK k \in Stated(C, sc) : e[k] = i /\ C[k] = g[i] /\ sc[k].table = sg[i].table
    BY <1>11
  <2>2. PICK l \in Stated(C, sc) : e[l] = j /\ C[l] = g[j] /\ sc[l].table = sg[j].table
    BY <1>11
  <2>3. k \in 1 .. Len(C) /\ l \in 1 .. Len(C) /\ i \in 1 .. Len(g) /\ j \in 1 .. Len(g)
    BY DEF Stated
  <2>4. ~(l < k) /\ k # l
    <3>1. l < k => j < i
      BY <1>3, <2>1, <2>2, <2>3 DEF InStep
    <3> QED BY <1>14, <2>1, <2>2, <2>3, <3>1
  <2>5. k < l
    BY <2>3, <2>4
  <2>6. ~Alike(C, sc, k, l)
    BY <2>5 DEF WellRead
  <2> QED BY <2>1, <2>2, <2>6 DEF Alike
<1>15. \A i, j \in Stated(g, sg) : i < j => ~Alike(g, sg, i, j)
  BY <1>9, <1>12, <1>13, <1>14
<1>16. ASSUME NEW i \in 1 .. Len(g), StateAfter(sg, i - 1) = F!Fresh PROVE g[i].shape # "text"
  <2>1. CASE i \in Four
    BY <1>8, <2>1 DEF Stated
  <2>2. CASE i \in Reached(C, e)
    <3>1. PICK k \in 1 .. Len(C) : e[k] = i
      BY <2>2 DEF Reached
    <3>2. g[e[k]] = C[k] /\ StateAfter(sc, k - 1) = StateAfter(sg, e[k] - 1)
      BY <1>3 DEF InStep
    <3>3. C[k].shape # "text"
      BY <1>16, <3>1, <3>2 DEF WellRead
    <3> QED BY <3>1, <3>2, <3>3
  <2>3. CASE g[i] = F!Blank
    BY <1>7, <2>3
  <2> QED BY <1>3, <2>1, <2>2, <2>3
<1>17. WellRead(g, sg)
  BY <1>4, <1>15, <1>16 DEF WellRead
<1>18. Stated(g, sg) = (Stated(g, sg) \cap Reached(C, e)) \cup Four
  BY <1>8, <1>9
<1>19. Sayings(g, sg, Stated(g, sg)) = Sayings(g, sg, Stated(g, sg) \cap Reached(C, e)) \cup Sayings(g, sg, Four)
  <2> DEFINE P1 == Stated(g, sg)
             P2 == Stated(g, sg) \cap Reached(C, e)
  <2>1. P1 = P2 \cup Four
    BY <1>18
  <2> HIDE DEF P1, P2, Four
  <2>2. Sayings(g, sg, P1) = Sayings(g, sg, P2) \cup Sayings(g, sg, Four)
    BY <2>1 DEF Sayings
  <2> QED BY <2>2 DEF P1, P2
<1> QED BY <1>6, <1>8, <1>17, <1>19

\* A scan without recovery, of any file of readable lines.
LEMMA StraightHas ==
  ASSUME NEW S, Readable(S), NEW lines, File(S, lines)
  PROVE  /\ \E scan : Straight(S, lines, scan)
         /\ F!Closed(lines) => Straight(S, lines, F!scanTomlLines(lines))
<1>1. PICK r \in BOOLEAN : ~r
  OBVIOUS
<1>2. IsScan(lines, r, F!classifyTomlLines(lines, r))
  BY ScanIs
<1>3. Straight(S, lines, F!classifyTomlLines(lines, r))
  BY <1>1, <1>2 DEF Straight
<1>4. ASSUME F!Closed(lines) PROVE Straight(S, lines, F!scanTomlLines(lines))
  <2>1. (~F!Closed(lines)) = r
    BY <1>1, <1>4, ScanTomlIs
  <2>2. F!scanTomlLines(lines) = F!classifyTomlLines(lines, r)
    BY <2>1 DEF F!scanTomlLines
  <2> QED BY <1>3, <2>2
<1> QED BY <1>3, <1>4

LEMMA StraightCloses ==
  ASSUME NEW S, NEW lines, NEW scan, Straight(S, lines, scan)
  PROVE  F!Closed(lines) <=> StateAfter(scan, Len(lines)) = F!Fresh
<1>1. PICK r \in BOOLEAN : ~r /\ IsScan(lines, r, scan)
  BY DEF Straight
<1>2. File(S, lines) /\ TomlFile(lines) /\ Len(lines) \in Nat
  BY StraightIs
<1> DEFINE s0 == F!classifyTomlLines(lines, r)
<1>3. IsScan(lines, r, s0)
  BY <1>2, ScanIs
<1>4. F!Closed(lines) <=> StateAfter(s0, Len(lines)) = F!Fresh
  BY <1>1, <1>2, ClosedBy
<1> HIDE DEF s0
<1>5. StateAfter(s0, Len(lines)) = StateAfter(scan, Len(lines))
  <2> DEFINE z == 0
             n == Len(lines)
  <2>1. SameLines(lines, z, lines, z, n)
    BY <1>2 DEF SameLines
  <2>2. StateAfter(s0, z) = StateAfter(scan, z) /\ z + n = n
    BY <1>2 DEF StateAfter
  <2> HIDE DEF z, n
  <2>3. StateAfter(s0, z + n) = StateAfter(scan, z + n)
    BY <1>1, <1>2, <1>3, <2>1, <2>2, SameStretch
  <2> QED BY <2>2, <2>3 DEF n
<1> QED BY <1>4, <1>5

\* The fragment says its four statements.
LEMMA FragmentMeans ==
  ASSUME NEW S, TomlLines(S), Readable(S), NEW m, NEW t, Delivers(S, m, t)
  PROVE  /\ F!IsToml(F!RenderGatewayConfig(m, t))
         /\ F!Meaning(F!RenderGatewayConfig(m, t)) = FragmentSays(m, t)
<1> DEFINE E == <<>>
           I == F!RenderGatewayConfig(m, t)
<1>1. E \in Seq(S) /\ E \o E = E /\ Len(E) = 0 /\ F!Closed(E) /\ File(S, E) /\ I = Out(m, t, E, E)
  BY FragmentIs DEF F!Closed, File
<1>2. \A sc : Parts(E, E, sc)
  <2>1. Len(<<>>) = 0 /\ 1 .. 0 = {}
    OBVIOUS
  <2> QED BY <2>1 DEF Parts, Trimmed
<1> HIDE DEF E, I
<1>3. PICK sc : Straight(S, E, sc)
  BY <1>1, StraightHas
<1>4. StateAfter(sc, Len(E)) = F!Fresh
  BY <1>1 DEF StateAfter
<1>5. Cut(S, E, E, E, sc)
  BY <1>1, <1>2, <1>3, <1>4 DEF Cut
<1>6. Stated(E, sc) = {} /\ WellRead(E, sc)
  <2>1. 1 .. Len(E) = {}
    BY <1>1
  <2>2. Stated(E, sc) = {}
    BY <2>1 DEF Stated
  <2> QED BY <1>4, <2>1, <2>2 DEF WellRead
<1>7. I \in Seq(S) /\ \E p, q : LaidOut(I, m, t, E, p, E, q)
  BY <1>1, OutLaidOut
<1>8. PICK p, q : LaidOut(I, m, t, E, p, E, q)
  BY <1>7
<1>9. File(S, I)
  BY <1>7 DEF File
<1>10. PICK si : Straight(S, I, si)
  BY <1>9, StraightHas
<1>11. WellRead(I, si) /\ Sayings(I, si, Stated(I, si)) = Sayings(E, sc, Stated(E, sc)) \cup FragmentSays(m, t)
  BY <1>5, <1>6, <1>8, <1>10, MergedSays
<1>12. Sayings(E, sc, Stated(E, sc)) = {}
  BY <1>6 DEF Sayings
<1>13. F!Meaning(I) = Sayings(I, si, Stated(I, si)) /\ (F!IsToml(I) <=> WellRead(I, si))
  BY <1>10, MeaningIs
<1> QED BY <1>11, <1>12, <1>13 DEF I

LEMMA SubSeqFirst == ASSUME NEW s, NEW i \in Nat, NEW j \in Nat, i <= j PROVE SubSeq(s, i, j)[1] = s[i]
<1>1. SubSeq(s, i, j) = [k \in 1 .. (1 + j - i) |-> s[k + i - 1]]
  BY DEF SubSeq
<1>2. 1 \in 1 .. (1 + j - i) /\ 1 + i - 1 = i
  OBVIOUS
<1> QED BY <1>1, <1>2

\* The employee's model, as TOML reads it.
Chosens(f, models) == {m \in models \ {""} : <<"", "model", <<F!Setting("model", m)>>>> \in F!Meaning(f)}

LEMMA ChosenIs ==
  ASSUME NEW S, Readable(S), NEW f, File(S, f), F!IsToml(f), NEW m0, NEW models
  PROVE  Chosen(f, m0, models) = IF Chosens(f, models) = {} THEN m0 ELSE CHOOSE m \in Chosens(f, models) : TRUE
<1> DEFINE sf == F!scanTomlLines(f)
           current == F!rootStringValue(f, "model")
           at == {i \in DOMAIN sf : F!tomlRootKey(sf, i, {"model"})}
           chosens == Chosens(f, models)
<1>1. PICK s0 : Straight(S, f, s0)
  BY StraightHas
<1>2. F!Closed(f)
  <2>1. WellRead(f, s0)
    BY <1>1, MeaningIs
  <2> QED BY <1>1, <2>1, StraightCloses DEF WellRead
<1>3. Straight(S, f, sf)
  BY <1>2, StraightHas
<1>4. current = IF at = {} THEN "" ELSE sf[F!Min(at)].line.value
  BY DEF F!rootStringValue
<1>5. Chosen(f, m0, models) = IF current \in models \ {""} THEN current ELSE m0
  BY DEF Chosen
<1> HIDE DEF sf, current
<1>6. WellRead(f, sf) /\ F!Meaning(f) = Sayings(f, sf, Stated(f, sf))
  BY <1>3, MeaningIs
<1>7. DOMAIN sf = 1 .. Len(f) /\ Len(f) \in Nat /\ TomlFile(f)
  <2>1. PICK r \in BOOLEAN : ~r /\ IsScan(f, r, sf)
    BY <1>3 DEF Straight
  <2> QED BY <1>3, <2>1, StraightIs DEF IsScan
<1>8. \A i : i \in at <=> /\ i \in Stated(f, sf) /\ f[i].shape = "key" /\ f[i].name = "model" /\ sf[i].table = ""
  <2>1. ASSUME NEW i \in 1 .. Len(f), f[i].shape = "key"
        PROVE  /\ F!tomlRootKey(sf, i, {"model"}) <=>
                    f[i].name = "model" /\ StateAfter(sf, i - 1) = F!Fresh /\ sf[i].table = ""
    <3>1. /\ ~sf[i].isHeader /\ sf[i].line = f[i]
          /\ sf[i].start = i <=> StateAfter(sf, i - 1) = F!Fresh
          /\ F!tomlSectionOwner(sf, i) = sf[i].table
      BY <1>3, <2>1, StraightLine DEF Quiet
    <3> QED BY <2>1, <3>1 DEF F!tomlRootKey
  <2>2. ASSUME NEW i \in 1 .. Len(f), F!tomlRootKey(sf, i, {"model"}) PROVE f[i].shape = "key"
    <3>1. sf[i].line = f[i]
      BY <1>3, StraightLine
    <3> QED BY <2>2, <3>1 DEF F!tomlRootKey
  <2> QED BY <1>7, <2>1, <2>2 DEF Stated
<1> HIDE DEF at
<1>9. \A i, j \in at : i = j
  <2> SUFFICES ASSUME NEW i \in at, NEW j \in at, i < j PROVE FALSE
    <3>1. \A i \in at : i \in 1 .. Len(f)
      BY <1>8 DEF Stated
    <3>2. \A i, j \in at : ~(i < j)
      OBVIOUS
    <3> QED BY <1>7, <3>1, <3>2
  <2>1. i \in Stated(f, sf) /\ j \in Stated(f, sf) /\ Alike(f, sf, i, j)
    BY <1>8 DEF Alike
  <2> QED BY <1>6, <2>1 DEF WellRead
<1>10. ASSUME NEW m \in chosens
       PROVE  \E i \in at : f[i] = F!Setting("model", m)
  <2> DEFINE s == <<"", "model", <<F!Setting("model", m)>>>>
  <2>1. s \in Sayings(f, sf, Stated(f, sf))
    BY <1>6 DEF Chosens
  <2>2. PICK i \in Stated(f, sf) : s = Says(f, sf, i)
    BY <2>1 DEF Sayings
  <2>3. Len(s) = 3 /\ s[1] = "" /\ s[2] = "model" /\ s[3] = <<F!Setting("model", m)>>
    OBVIOUS
  <2> HIDE DEF s
  <2>4. f[i].shape = "key"
    <3>1. ASSUME f[i].shape = "header" PROVE FALSE
      <4>1. s = <<f[i].name>>
        BY <2>2, <3>1 DEF Says
      <4>2. Len(s) = 1
        BY <4>1
      <4>3. Len(s) = 3
        BY <2>3
      <4> QED BY ONLY <4>2, <4>3
    <3> QED BY <3>1 DEF Stated
  <2> DEFINE v == SubSeq(f, i, F!Min(Ends(f, sf, i)))
  <2>5. s = <<sf[i].table, f[i].name, v>>
    BY <2>2, <2>4 DEF Says
  <2>6. i \in 1 .. Len(f)
    BY DEF Stated
  <2> HIDE DEF v
  <2>7. sf[i].table = "" /\ f[i].name = "model" /\ v = <<F!Setting("model", m)>>
    BY <2>3, <2>5
  <2>8. i \in at
    BY <1>8, <2>4, <2>7
  <2>9. PICK j \in i .. Len(f) : EndsAt(sf, i, j)
    BY <1>6, <1>7, <2>6, EndHas DEF WellRead
  <2>10. v = SubSeq(f, i, j)
    <3>1. F!Min(Ends(f, sf, i)) = j
      BY <1>7, <2>6, <2>9, EndIs
    <3> QED BY <3>1 DEF v
  <2>11. v[1] = f[i]
    <3>1. i \in Nat /\ j \in Nat /\ i <= j
      BY <1>7, <2>6
    <3> QED BY ONLY <2>10, <3>1, SubSeqFirst
  <2>12. v[1] = F!Setting("model", m)
    BY <2>7
  <2> QED BY <2>8, <2>11, <2>12
<1>11. CASE at = {}
  <2>1. current = "" /\ chosens = {}
    BY <1>4, <1>10, <1>11
  <2> HIDE DEF chosens
  <2>2. Chosen(f, m0, models) = m0
    BY <1>5, <2>1
  <2> QED BY <2>1, <2>2 DEF chosens
<1>12. CASE at # {}
  <2>1. PICK i : i \in at
    BY <1>12
  <2>2. F!Min(at) = i
    <3>1. at = {i}
      BY <1>9, <2>1
    <3>2. i \in Nat
      <4>1. i \in 1 .. Len(f)
        BY <1>8, <2>1 DEF Stated
      <4> QED BY <4>1
    <3>3. F!Min({i}) = i
      BY <3>2 DEF F!Min
    <3> QED BY <3>1, <3>3
  <2>3. i \in 1 .. Len(f) /\ f[i].shape = "key" /\ f[i].name = "model" /\ sf[i].table = "" /\ i \in Stated(f, sf)
    BY <1>8, <2>1 DEF Stated
  <2>4. current = f[i].value
    <3>1. sf[i].line = f[i]
      BY <1>3, <2>3, StraightLine
    <3> QED BY <1>4, <1>12, <2>2, <3>1
  <2>5. ASSUME NEW m \in chosens PROVE m = current
    <3>1. f[i] = F!Setting("model", m)
      BY <1>9, <1>10, <2>1
    <3>2. F!Setting("model", m).value = m
      BY SettingIs
    <3> QED BY <2>4, <3>1, <3>2
  <2>6. ASSUME current \in models \ {""} PROVE current \in chosens
    <3>1. f[i] = F!Setting("model", current)
      <4>1. f[i] \in S
        BY <1>3, <2>3, StraightIs
      <4>2. f[i].value # ""
        BY <2>4, <2>6
      <4> QED BY <2>3, <2>4, <4>1, <4>2 DEF Readable
    <3>2. StateAfter(sf, i) = F!Fresh
      <4>1. PICK r \in BOOLEAN : ~r /\ IsScan(f, r, sf)
        BY <1>3 DEF Straight
      <4>2. f[i].tokens = <<>> /\ f[i].shape # "header"
        BY ONLY <3>1, SettingIs
      <4>3. StateAfter(sf, i) = StateAfter(sf, i - 1)
        BY <1>7, <2>3, <4>1, <4>2, PlainLine
      <4> QED BY <2>3, <4>3 DEF Stated
    <3>3. SubSeq(f, i, F!Min(Ends(f, sf, i))) = <<F!Setting("model", current)>>
      BY <1>7, <2>3, <3>1, <3>2, OneLine
    <3>4. Says(f, sf, i) = <<"", "model", <<F!Setting("model", current)>>>>
      BY <2>3, <3>3 DEF Says
    <3>5. Says(f, sf, i) \in Sayings(f, sf, Stated(f, sf))
      BY <2>3 DEF Sayings
    <3> QED BY <1>6, <2>6, <3>4, <3>5 DEF Chosens
  <2>7. chosens \subseteq models \ {""}
    BY DEF Chosens
  <2> HIDE DEF chosens
  <2>8. CASE current \in models \ {""}
    <3>1. chosens = {current}
      BY <2>5, <2>6, <2>8
    <3>2. (CHOOSE m \in chosens : TRUE) = current
      BY <3>1
    <3> QED BY <1>5, <2>8, <3>1, <3>2 DEF chosens
  <2>9. CASE current \notin models \ {""}
    <3>1. chosens = {}
      BY <2>5, <2>7, <2>9
    <3> QED BY <1>5, <2>9, <3>1 DEF chosens
  <2> QED BY <2>8, <2>9
<1> QED BY <1>11, <1>12

\* What a merge makes of a file that TOML accepts.
LEMMA MergeSays ==
  ASSUME NEW S, TomlLines(S), Readable(S), NEW models, NEW m0, NEW t, Delivery(S, models, m0, t),
         NEW f, f \in Seq(S), F!IsToml(f), F!trimBlankTomlLines(f) # <<>>,
         NEW m, m = Chosen(f, m0, models), NEW g, g = Merge(f, m0, t, models)
  PROVE  /\ m \in models \cup {m0} /\ F!IsToml(g)
         /\ F!Meaning(g) = {s \in F!Meaning(f) : Theirs(s)} \cup FragmentSays(m, t)
<1> DEFINE sf == F!scanTomlLines(f)
           K == F!stripCodexManaged(f)
           sk0 == F!scanTomlLines(K)
           n == F!RootLength(K)
           A == F!trimBlankTomlLines(SubSeq(K, 1, n))
           B == F!trimBlankTomlLines(SubSeq(K, n + 1, Len(K)))
           C == A \o B
<1>1. File(S, f)
  BY DEF File
<1>2. F!Closed(f)
  <2>1. PICK s0 : Straight(S, f, s0)
    BY <1>1, StraightHas
  <2>2. WellRead(f, s0)
    BY <2>1, MeaningIs
  <2> QED BY <2>1, <2>2, StraightCloses DEF WellRead
<1>3. Straight(S, f, sf)
  BY <1>1, <1>2, StraightHas
<1>4. WellRead(f, sf) /\ F!Meaning(f) = Sayings(f, sf, Stated(f, sf))
  BY <1>3, MeaningIs
<1>5. K = F!Select(f, KeptPlaces(f, sf))
  BY StripIs
<1>6. File(S, K)
  <2> HIDE DEF sf
  <2>1. K \in Seq(S)
    BY <1>5, SelectCounts
  <2> QED BY <2>1 DEF File
<1>7. /\ K = F!stripCodexManaged(f) /\ n = F!RootLength(K) /\ sk0 = F!scanTomlLines(K)
      /\ A = F!trimBlankTomlLines(SubSeq(K, 1, n)) /\ B = F!trimBlankTomlLines(SubSeq(K, n + 1, Len(K)))
  OBVIOUS
<1> HIDE DEF sf, K, n, A, B, sk0
<1>8. PICK sk : Straight(S, K, sk)
  BY <1>6, StraightHas
<1>9. WellRead(K, sk) /\ Sayings(K, sk, Stated(K, sk)) = {s \in Sayings(f, sf, Stated(f, sf)) : Theirs(s)}
  BY <1>3, <1>4, <1>5, <1>8, StripSays
<1>10. F!Closed(K)
  BY <1>8, <1>9, StraightCloses DEF WellRead
<1>11. Straight(S, K, sk0)
  BY <1>6, <1>7, <1>10, StraightHas
<1>12. A \in Seq(S) /\ B \in Seq(S) /\ \E p, q : Alone(K, A, p, B, q)
  <2>1. n \in 0 .. Len(K)
    <3>1. Len(K) \in Nat
      BY <1>6 DEF File
    <3> QED BY <1>7, <3>1, RootLengthHas
  <2> QED BY <1>6, <1>7, <2>1, TrimmedParts
<1>13. PICK p, q : Alone(K, A, p, B, q)
  BY <1>12
<1>14. File(S, C) /\ F!Closed(C)
  BY <1>6, <1>10, <1>12, <1>13, AloneCloses
<1>15. PICK sc : Straight(S, C, sc)
  BY <1>14, StraightHas
<1>16. Parts(A, B, sc)
  <2>2. PICK r \in BOOLEAN : ~r /\ IsScan(f, r, sf)
    BY <1>3 DEF Straight
  <2>3. IsScan(K, r, sk0) /\ IsScan(A \o B, r, sc)
    BY <1>11, <1>15, <2>2 DEF Straight
  <2>4. Clean(K, sk0)
    BY <1>1, <1>5, <2>2, <2>3, StripCleans
  <2> QED BY <1>6, <1>7, <2>2, <2>3, <2>4, PartsOf
<1>17. StateAfter(sc, Len(C)) = F!Fresh
  BY <1>14, <1>15, StraightCloses
<1>18. Cut(S, A, B, C, sc)
  BY <1>12, <1>14, <1>15, <1>16, <1>17 DEF Cut
<1>19. WellRead(C, sc) /\ Sayings(C, sc, Stated(C, sc)) = {s \in F!Meaning(f) : Theirs(s)}
  BY <1>4, <1>8, <1>9, <1>12, <1>13, <1>15, <1>16, PartsSay
<1> HIDE DEF C
<1>20. m \in models \cup {m0} /\ g = Out(m, t, A, B)
  BY <1>7, <1>12, MergeIs
<1>21. Delivers(S, m, t)
  BY <1>20 DEF Delivery
<1>22. g \in Seq(S) /\ \E x, y : LaidOut(g, m, t, A, x, B, y)
  BY <1>12, <1>20, <1>21, OutLaidOut
<1>23. PICK x, y : LaidOut(g, m, t, A, x, B, y)
  BY <1>22
<1>24. PICK sg : Straight(S, g, sg)
  BY <1>22, StraightHas DEF File
<1>25. WellRead(g, sg) /\ Sayings(g, sg, Stated(g, sg)) = Sayings(C, sc, Stated(C, sc)) \cup FragmentSays(m, t)
  BY <1>18, <1>19, <1>23, <1>24, MergedSays
<1>26. F!Meaning(g) = Sayings(g, sg, Stated(g, sg)) /\ (F!IsToml(g) <=> WellRead(g, sg))
  BY <1>24, MeaningIs
<1> QED BY <1>19, <1>20, <1>25, <1>26

\* A file with nothing in it says nothing.
LEMMA NothingSaid ==
  ASSUME NEW S, TomlLines(S), Readable(S), NEW f, f \in Seq(S), F!trimBlankTomlLines(f) = <<>>
  PROVE  F!Meaning(f) = {}
<1>1. File(S, f)
  BY DEF File
<1>2. PICK sf : Straight(S, f, sf)
  BY <1>1, StraightHas
<1>3. \A i \in 1 .. Len(f) : f[i] = F!Blank
  BY TrimNonEmpty
<1>4. F!Blank.shape = "blank"
  BY DEF F!Blank, F!Line
<1>5. Stated(f, sf) = {}
  BY <1>3, <1>4 DEF Stated
<1>6. Sayings(f, sf, Stated(f, sf)) = {}
  BY <1>5 DEF Sayings
<1> QED BY <1>2, <1>6, MeaningIs

\* Whatever lines stand in a file that TOML accepts, the merged file is accepted too
\* and says what the employee's said, but for the managed settings, and what the
\* fragment says with the model the employee had chosen from the catalog
\* (codextoml.go, mergeCodexConfigKeeping).
THEOREM AnyFileKeepsItsSettings ==
  ASSUME NEW S, TomlLines(S), Readable(S), NEW models, NEW m0, NEW t, Delivery(S, models, m0, t),
         NEW f, f \in Seq(S), F!IsToml(f)
  PROVE  /\ F!IsToml(Merge(f, m0, t, models))
         /\ F!Meaning(Merge(f, m0, t, models)) = F!MergedMeaning(f, m0, t, models)
<1> DEFINE g == Merge(f, m0, t, models)
           chosens == Chosens(f, models)
           m == IF chosens = {} THEN m0 ELSE CHOOSE x \in chosens : TRUE
<1>1. m \in models \cup {m0}
  <2>1. chosens \subseteq models
    BY DEF Chosens
  <2> HIDE DEF chosens
  <2> QED BY <2>1
<1>2. Delivers(S, m, t) /\ Delivers(S, m0, t)
  BY <1>1 DEF Delivery
<1>3. F!Meaning(F!RenderGatewayConfig(m, t)) = FragmentSays(m, t)
  <2> HIDE DEF m
  <2> QED BY <1>2, FragmentMeans
<1>4. F!MergedMeaning(f, m0, t, models) = {s \in F!Meaning(f) : Theirs(s)} \cup F!Meaning(F!RenderGatewayConfig(m, t))
  BY DEF F!MergedMeaning, Theirs, Chosens
<1> HIDE DEF m, chosens
<1>5. CASE F!trimBlankTomlLines(f) = <<>>
  <2>1. F!Meaning(f) = {}
    BY <1>5, NothingSaid
  <2>2. m = m0
    <3>1. chosens = {}
      BY <2>1 DEF chosens, Chosens
    <3> QED BY <3>1 DEF m
  <2>3. g = F!RenderGatewayConfig(m0, t)
    BY <1>5 DEF Merge, F!mergeCodexConfigKeeping
  <2>4. F!IsToml(g)
    BY <1>2, <2>3, FragmentMeans
  <2> HIDE DEF g
  <2>5. F!Meaning(g) = F!MergedMeaning(f, m0, t, models)
    BY <1>4, <2>1, <2>2, <2>3
  <2> QED BY <2>4, <2>5 DEF g
<1>6. CASE F!trimBlankTomlLines(f) # <<>>
  <2>1. Chosen(f, m0, models) = m
    <3>1. File(S, f)
      BY DEF File
    <3> QED BY <3>1, ChosenIs DEF m, chosens
  <2>2. F!IsToml(g) /\ F!Meaning(g) = {s \in F!Meaning(f) : Theirs(s)} \cup FragmentSays(m, t)
    <3>1. m = Chosen(f, m0, models) /\ g = Merge(f, m0, t, models)
      BY <2>1
    <3> HIDE DEF g
    <3> QED BY <1>6, <3>1, MergeSays
  <2> QED BY <1>3, <1>4, <2>2
<1> QED BY <1>5, <1>6

-----------------------------------------------------------------------------
(* The file of the model: any lines an employee writes, one after the other. *)

FileInv == which = "file" => file \in Seq(ManyLines)

\* The lines of the fragments that a package may deliver.
Delivered(models, m0, t) ==
  {F!Blank, F!Setting("model_provider", "gateway"), F!Header(F!codexManagedTable),
   F!Setting("experimental_bearer_token", t)} \cup {F!Setting("model", m) : m \in models \cup {m0}}

LEMMA SettingIsTomlLine == ASSUME NEW key, NEW value PROVE IsTomlLine(F!Setting(key, value))
<1>1. F!Setting(key, value).shape = "key" /\ F!Setting(key, value).tokens = <<>>
  BY SettingIs
<1>2. F!Setting(key, value) # F!Blank
  BY <1>1, NotBlank
<1>3. <<>> \in Seq(Tok)
  OBVIOUS
<1> QED BY <1>1, <1>2, <1>3 DEF IsTomlLine

LEMMA HeaderIsTomlLine == ASSUME NEW table, table # RootTable PROVE IsTomlLine(F!Header(table))
<1>1. F!Header(table).shape = "header" /\ F!Header(table).name = table /\ F!Header(table).tokens = <<"open", "close">>
  BY HeaderIs
<1>2. F!Header(table) # F!Blank
  BY <1>1, NotBlank
<1>3. <<"open", "close">> \in Seq(Tok)
  BY DEF Tok
<1> QED BY <1>1, <1>2, <1>3 DEF IsTomlLine

LEMMA OwnLinesAreToml == TomlLines(ManyLines)
<1> SUFFICES ASSUME NEW l \in ManyLines PROVE IsTomlLine(l)
  BY DEF TomlLines
<1>1. F!Blank.shape = "blank" /\ F!Blank.tokens = <<>> /\ <<>> \in Seq(Tok)
  BY DEF F!Blank, F!Line
<1>2. IsTomlLine(F!Blank)
  BY <1>1 DEF IsTomlLine
<1>3. IsTomlLine(F!Comment)
  <2>1. F!Comment.shape = "comment" /\ F!Comment.tokens = <<>>
    BY DEF F!Comment, F!Line
  <2>2. F!Comment # F!Blank
    BY ONLY <1>1, <2>1
  <2> QED BY <1>1, <2>1, <2>2 DEF IsTomlLine
<1>4. ASSUME NEW key, NEW token \in Tok PROVE IsTomlLine(F!Opening(key, token))
  <2>1. F!Opening(key, token).shape = "key" /\ F!Opening(key, token).tokens = <<token>> /\ <<token>> \in Seq(Tok)
    BY DEF F!Opening, F!Line
  <2>2. F!Opening(key, token) # F!Blank
    BY <2>1, NotBlank
  <2> QED BY <2>1, <2>2 DEF IsTomlLine
<1>5. ASSUME NEW token \in Tok PROVE IsTomlLine(F!Closing(token))
  <2>1. F!Closing(token).shape = "text" /\ F!Closing(token).tokens = <<token>> /\ <<token>> \in Seq(Tok)
    BY DEF F!Closing, F!Line
  <2>2. F!Closing(token) # F!Blank
    BY ONLY <1>1, <2>1
  <2> QED BY <2>1, <2>2 DEF IsTomlLine
<1>6. "own" # RootTable /\ F!codexManagedTable # RootTable
  BY DEF RootTable, F!codexManagedTable
<1>7. "open" \in Tok /\ "close" \in Tok /\ "basic" \in Tok
  BY DEF Tok
<1>8. \/ l = F!Blank \/ l = F!Comment \/ (\E key, value : l = F!Setting(key, value))
      \/ l = F!Header("own") \/ l = F!Header(F!codexManagedTable)
      \/ (\E key : l = F!Opening(key, "basic") \/ l = F!Opening(key, "open"))
      \/ l = F!Closing("close") \/ l = F!Closing("basic")
  BY DEF ManyLines, L!Blank, L!Comment, L!Setting, L!Header, L!Opening, L!Closing, L!Line, L!codexManagedTable,
         F!Blank, F!Comment, F!Setting, F!Header, F!Opening, F!Closing, F!Line, F!codexManagedTable
<1> QED BY <1>2, <1>3, <1>4, <1>5, <1>6, <1>7, <1>8, SettingIsTomlLine, HeaderIsTomlLine

LEMMA LinesAreToml ==
  ASSUME NEW models, NEW m0, NEW t, NEW S, S = ManyLines \cup Delivered(models, m0, t)
  PROVE  TomlLines(S) /\ Delivery(S, models, m0, t)
<1>1. ASSUME NEW l \in S PROVE IsTomlLine(l)
  <2>1. CASE l \in ManyLines
    BY <2>1, OwnLinesAreToml DEF TomlLines
  <2>2. CASE l \in Delivered(models, m0, t)
    <3>1. IsTomlLine(F!Header(F!codexManagedTable))
      BY HeaderIsTomlLine, RootIsNoTable
    <3>2. IsTomlLine(F!Blank)
      BY OwnLinesAreToml DEF TomlLines, ManyLines, L!Blank, L!Line, F!Blank, F!Line
    <3> QED BY <2>2, <3>1, <3>2, SettingIsTomlLine DEF Delivered
  <2> QED BY <2>1, <2>2
<1>2. Delivery(S, models, m0, t)
  BY DEF Delivery, Delivers, Delivered
<1> QED BY <1>1, <1>2 DEF TomlLines

LEMMA WritingKeepsFileInv ==
  ASSUME FileInv, Write PROVE file' \in Seq(ManyLines) \/ which # "file"
<1>1. CASE F!Publish(OneToken, Model) \/ F!Publish(OneToken, {OtherModel})
  BY <1>1 DEF F!Publish, FileInv
<1>2. CASE \E line \in ManyLines : published = 1 /\ F!Insert(Len(file) + 1, line)
  <2>1. PICK line \in ManyLines : F!Insert(Len(file) + 1, line)
    BY <1>2
  <2>2. file' = SubSeq(file, 1, (Len(file) + 1) - 1) \o <<line>> \o SubSeq(file, Len(file) + 1, Len(file))
    BY <2>1 DEF F!Insert, F!Edit
  <2>3. CASE which = "file"
    <3>1. file \in Seq(ManyLines)
      BY <2>3 DEF FileInv
    <3>2. SubSeq(file, 1, (Len(file) + 1) - 1) \in Seq(ManyLines) /\ SubSeq(file, Len(file) + 1, Len(file)) \in Seq(ManyLines)
          /\ <<line>> \in Seq(ManyLines)
      BY <3>1
    <3> QED BY <2>2, <3>2
  <2> QED BY <2>3
<1> QED BY <1>1, <1>2 DEF Write

LEMMA FileInvariance == Spec => []FileInv
<1>1. Init => FileInv
  BY DEF Init, F!Init, FileInv
<1>2. FileInv /\ [Next]_vars => FileInv'
  <2> SUFFICES ASSUME FileInv, [Next]_vars PROVE FileInv'
    OBVIOUS
  <2>1. CASE UNCHANGED vars
    BY <2>1 DEF vars, profileVars, FileInv
  <2>2. CASE (which = "poll" \/ which = "release") /\ UNCHANGED <<which, profileVars>>
    BY <2>2 DEF profileVars, FileInv
  <2>3. CASE which = "file" /\ Write /\ UNCHANGED which
    BY <2>3, WritingKeepsFileInv DEF FileInv
  <2>4. CASE which = "profile" /\ UNCHANGED which
    BY <2>4 DEF FileInv
  <2> QED BY <2>1, <2>2, <2>3, <2>4 DEF Next
<1> QED BY <1>1, <1>2, PTL DEF Spec

\* Whatever lines an employee has written into the file, one after the other,
\* the merge settles on it.
THEOREM DeliveriesSettle == Spec => []MergeSettles
<1>1. FileInv => MergeSettles
  <2> SUFFICES ASSUME FileInv, which = "file", package # F!NoPackage
               PROVE  LET once == F!Merged(package, file)
                          twice == F!Merged(package, once)
                      IN (F!Closed(file) => twice = once) /\ F!Merged(package, twice) = twice
    BY DEF MergeSettles, F!MergeSettles
  <2> DEFINE models == package.models
             m0 == F!DefaultModel(models)
             t == package.token
             S == ManyLines \cup Delivered(models, m0, t)
  <2>1. \A f : F!Merged(package, f) = Merge(f, m0, t, models)
    BY DEF F!Merged, Merge
  <2>2. file \in Seq(ManyLines)
    BY DEF FileInv
  <2>3. file \in Seq(S)
    <3> HIDE DEF S
    <3>1. ManyLines \subseteq S
      BY DEF S
    <3> QED BY <2>2, <3>1
  <2>4. TomlLines(S) /\ Delivery(S, models, m0, t)
    BY LinesAreToml
  <2> HIDE DEF models, m0, t, S
  <2> DEFINE once == Merge(file, m0, t, models)
             twice == Merge(once, m0, t, models)
  <2>5. (F!Closed(file) => twice = once) /\ Merge(twice, m0, t, models) = twice
    BY <2>3, <2>4, AnyFileSettles
  <2> QED BY <2>1, <2>5
<1> QED BY <1>1, FileInvariance, PTL

LEMMA LinesAreReadable ==
  ASSUME NEW models, NEW m0, NEW t, NEW S, S = ManyLines \cup Delivered(models, m0, t)
  PROVE  Readable(S)
<1> DEFINE Reads(l) == /\ l.shape = "header" => l.tokens = <<"open", "close">>
                       /\ l.value # "" => l = F!Setting(l.name, l.value)
<1>1. ASSUME NEW key, NEW value PROVE Reads(F!Setting(key, value))
  <2> DEFINE l == F!Setting(key, value)
  <2>1. l.shape = "key" /\ l.name = key /\ l.value = value /\ l = F!Setting(key, value)
    BY SettingIs
  <2> HIDE DEF l
  <2>2. l.shape # "header"
    BY <2>1
  <2>3. l = F!Setting(l.name, l.value)
    BY <2>1
  <2>4. Reads(l)
    BY <2>2, <2>3
  <2> QED BY <2>4 DEF l
<1>2. ASSUME NEW l, l.value = "", l.shape # "header" PROVE Reads(l)
  BY <1>2
<1>3. ASSUME NEW table PROVE Reads(F!Header(table))
  <2> DEFINE l == F!Header(table)
  <2>1. l.value = "" /\ l.tokens = <<"open", "close">>
    BY DEF F!Header, F!Line
  <2> HIDE DEF l
  <2>2. Reads(l)
    BY <2>1
  <2> QED BY <2>2 DEF l
<1> HIDE DEF Reads
<1>4. Reads(F!Blank)
  <2>1. F!Blank.value = "" /\ F!Blank.shape = "blank"
    BY DEF F!Blank, F!Line
  <2> QED BY <1>2, <2>1
<1>5. Reads(F!Comment)
  <2>1. F!Comment.value = "" /\ F!Comment.shape = "comment"
    BY DEF F!Comment, F!Line
  <2> QED BY <1>2, <2>1
<1>6. ASSUME NEW key, NEW token PROVE Reads(F!Opening(key, token))
  <2>1. F!Opening(key, token).value = "" /\ F!Opening(key, token).shape = "key"
    BY DEF F!Opening, F!Line
  <2> QED BY <1>2, <2>1
<1>7. ASSUME NEW token PROVE Reads(F!Closing(token))
  <2>1. F!Closing(token).value = "" /\ F!Closing(token).shape = "text"
    BY DEF F!Closing, F!Line
  <2> QED BY <1>2, <2>1
<1>8. ASSUME NEW l \in ManyLines PROVE Reads(l)
  <2>1. \/ l = F!Blank \/ l = F!Comment \/ (\E key, value : l = F!Setting(key, value))
        \/ (\E table : l = F!Header(table))
        \/ (\E key, token : l = F!Opening(key, token))
        \/ l = F!Closing("close") \/ l = F!Closing("basic")
    BY DEF ManyLines, L!Blank, L!Comment, L!Setting, L!Header, L!Opening, L!Closing, L!Line, L!codexManagedTable,
         F!Blank, F!Comment, F!Setting, F!Header, F!Opening, F!Closing, F!Line, F!codexManagedTable
  <2> QED BY <1>1, <1>3, <1>4, <1>5, <1>6, <1>7, <2>1
<1>9. ASSUME NEW l \in Delivered(models, m0, t) PROVE Reads(l)
  BY <1>1, <1>3, <1>4 DEF Delivered
<1>10. \A l \in S : Reads(l)
  BY <1>8, <1>9
<1> QED BY <1>10 DEF Readable, Reads

\* Whatever lines an employee has written into a file that TOML accepts, the
\* delivery keeps what they set.
THEOREM SettingsAreKept == Spec => []SettingsSurvive
<1>1. FileInv => SettingsSurvive
  <2> SUFFICES ASSUME FileInv, which = "file", package # F!NoPackage, F!IsToml(file)
               PROVE  /\ F!IsToml(F!Merged(package, file))
                      /\ F!Meaning(F!Merged(package, file))
                           = F!MergedMeaning(file, F!DefaultModel(package.models), package.token, package.models)
    BY DEF SettingsSurvive, F!SettingsSurvive
  <2> DEFINE models == package.models
             m0 == F!DefaultModel(models)
             t == package.token
             S == ManyLines \cup Delivered(models, m0, t)
  <2>1. F!Merged(package, file) = Merge(file, m0, t, models)
    BY DEF F!Merged, Merge
  <2>2. file \in Seq(S)
    <3>1. file \in Seq(ManyLines)
      BY DEF FileInv
    <3> HIDE DEF S
    <3>2. ManyLines \subseteq S
      BY DEF S
    <3> QED BY <3>1, <3>2
  <2>3. TomlLines(S) /\ Delivery(S, models, m0, t) /\ Readable(S)
    BY LinesAreToml, LinesAreReadable
  <2> HIDE DEF models, m0, t, S
  <2>4. /\ F!IsToml(Merge(file, m0, t, models))
        /\ F!Meaning(Merge(file, m0, t, models)) = F!MergedMeaning(file, m0, t, models)
    BY <2>2, <2>3, AnyFileKeepsItsSettings
  <2> QED BY <2>1, <2>4 DEF models, m0, t
<1> QED BY <1>1, FileInvariance, PTL
-----------------------------------------------------------------------------
(* The two instances of Profile differ in their bounds only. *)

LEMMA SameScanner ==
  /\ \A lines : D!scanTomlLines(lines) = F!scanTomlLines(lines)
  /\ \A scan, i : D!tomlSectionOwner(scan, i) = F!tomlSectionOwner(scan, i)
  /\ \A scan, i, keys : D!tomlRootKey(scan, i, keys) = F!tomlRootKey(scan, i, keys)
<1>1. ASSUME NEW lines PROVE D!scanTomlLines(lines) = F!scanTomlLines(lines)
  BY DEF D!scanTomlLines, F!scanTomlLines, D!Closed, F!Closed, D!classifyTomlLines, F!classifyTomlLines,
         D!classifyLine, F!classifyLine, D!Beginning, F!Beginning, D!advanceTomlScanState, F!advanceTomlScanState,
         D!advanceToken, F!advanceToken, D!Fresh, F!Fresh
<1>2. ASSUME NEW scan, NEW i PROVE D!tomlSectionOwner(scan, i) = F!tomlSectionOwner(scan, i)
  BY DEF D!tomlSectionOwner, F!tomlSectionOwner, D!LeadsTo, F!LeadsTo, D!codexManagedTable, F!codexManagedTable
<1>3. ASSUME NEW scan, NEW i, NEW keys PROVE D!tomlRootKey(scan, i, keys) = F!tomlRootKey(scan, i, keys)
  BY <1>2 DEF D!tomlRootKey, F!tomlRootKey
<1> QED BY <1>1, <1>2, <1>3

LEMMA SameSelect == \A lines, places : D!Select(lines, places) = F!Select(lines, places)
  BY DEF D!Select, F!Select

LEMMA SameRootLength == \A lines : D!RootLength(lines) = F!RootLength(lines)
<1> SUFFICES ASSUME NEW lines PROVE D!RootLength(lines) = F!RootLength(lines)
  OBVIOUS
<1> DEFINE scan == F!scanTomlLines(lines)
<1>1. D!scanTomlLines(lines) = scan
  BY SameScanner
<1> HIDE DEF scan
<1>2. D!RootLength(lines) = LET InTable(i) == F!tomlSectionOwner(scan, i) # ""
                            IN CHOOSE n \in 0 .. Len(lines) : (\A i \in 1 .. n : ~InTable(i)) /\ (n < Len(lines) => InTable(n + 1))
  BY <1>1, SameScanner DEF D!RootLength
<1> QED BY <1>2 DEF F!RootLength, scan

LEMMA SameStrip == \A lines : D!stripCodexManaged(lines) = F!stripCodexManaged(lines)
<1> SUFFICES ASSUME NEW lines PROVE D!stripCodexManaged(lines) = F!stripCodexManaged(lines)
  OBVIOUS
<1> DEFINE scan == F!scanTomlLines(lines)
<1>1. D!scanTomlLines(lines) = scan
  BY SameScanner
<1>2. D!codexManagedTable = F!codexManagedTable /\ D!codexManagedKeys = F!codexManagedKeys
  BY DEF D!codexManagedTable, F!codexManagedTable, D!codexManagedKeys, F!codexManagedKeys
<1> HIDE DEF scan
<1>3. D!stripCodexManaged(lines) = F!Select(lines, {i \in 1 .. Len(lines) :
                                     /\ F!tomlSectionOwner(scan, i) # F!codexManagedTable
                                     /\ ~F!tomlRootKey(scan, scan[i].start, F!codexManagedKeys)})
  BY <1>1, <1>2, SameScanner, SameSelect DEF D!stripCodexManaged
<1> QED BY <1>3 DEF F!stripCodexManaged, scan

LEMMA SameIdentity == \A lines : D!GatewayIdentity(lines) = F!GatewayIdentity(lines)
<1> SUFFICES ASSUME NEW lines PROVE D!GatewayIdentity(lines) = F!GatewayIdentity(lines)
  OBVIOUS
<1> DEFINE scan == F!scanTomlLines(lines)
<1>1. D!scanTomlLines(lines) = scan
  BY SameScanner
<1>2. D!codexManagedTable = F!codexManagedTable
  BY DEF D!codexManagedTable, F!codexManagedTable
<1> HIDE DEF scan
<1>3. D!GatewayIdentity(lines) = F!Select(lines, {i \in 1 .. Len(lines) :
       /\ scan[i].line.shape \notin {"blank", "comment"}
       /\ F!tomlSectionOwner(scan, i) = F!codexManagedTable \/ F!tomlRootKey(scan, i, {"model_provider"})})
  BY <1>1, <1>2, SameScanner, SameSelect DEF D!GatewayIdentity
<1> QED BY <1>3 DEF F!GatewayIdentity, scan

LEMMA SameModel ==
  /\ \A lines, key : D!rootStringValue(lines, key) = F!rootStringValue(lines, key)
  /\ \A lines, key, value : D!setRootString(lines, key, value) = F!setRootString(lines, key, value)
<1>1. ASSUME NEW lines, NEW key PROVE D!rootStringValue(lines, key) = F!rootStringValue(lines, key)
  <2> DEFINE scan == F!scanTomlLines(lines)
  <2>1. D!scanTomlLines(lines) = scan
    BY SameScanner
  <2>2. \A places : D!Min(places) = F!Min(places)
    BY DEF D!Min, F!Min
  <2> HIDE DEF scan
  <2>3. D!rootStringValue(lines, key) =
          LET at == {i \in DOMAIN scan : F!tomlRootKey(scan, i, {key})}
          IN IF at = {} THEN "" ELSE scan[F!Min(at)].line.value
    BY <2>1, <2>2, SameScanner DEF D!rootStringValue
  <2> QED BY <2>3 DEF F!rootStringValue, scan
<1>2. ASSUME NEW lines, NEW key, NEW value PROVE D!setRootString(lines, key, value) = F!setRootString(lines, key, value)
  <2> DEFINE scan == F!scanTomlLines(lines)
  <2>1. D!scanTomlLines(lines) = scan
    BY SameScanner
  <2>2. D!Setting(key, value) = F!Setting(key, value)
    BY DEF D!Setting, F!Setting, D!Line, F!Line
  <2> HIDE DEF scan
  <2>3. D!setRootString(lines, key, value) =
          [i \in DOMAIN lines |-> IF F!tomlRootKey(scan, i, {key}) THEN F!Setting(key, value) ELSE lines[i]]
    BY <2>1, <2>2, SameScanner DEF D!setRootString
  <2> QED BY <2>3 DEF F!setRootString, scan
<1> QED BY <1>1, <1>2

LEMMA SameSections ==
  /\ \A lines : D!trimBlankTomlLines(lines) = F!trimBlankTomlLines(lines)
  /\ \A out, section : D!appendTomlSection(out, section) = F!appendTomlSection(out, section)
  /\ \A lines : D!splitTomlRootAndTables(lines) = F!splitTomlRootAndTables(lines)
<1>1. D!Blank = F!Blank
  BY DEF D!Blank, F!Blank, D!Line, F!Line
<1>2. ASSUME NEW lines PROVE D!trimBlankTomlLines(lines) = F!trimBlankTomlLines(lines)
  BY <1>1 DEF D!trimBlankTomlLines, F!trimBlankTomlLines, D!Min, F!Min, D!Max, F!Max
<1>3. ASSUME NEW out, NEW section PROVE D!appendTomlSection(out, section) = F!appendTomlSection(out, section)
  BY <1>1, <1>2 DEF D!appendTomlSection, F!appendTomlSection
<1>4. ASSUME NEW lines PROVE D!splitTomlRootAndTables(lines) = F!splitTomlRootAndTables(lines)
  BY SameRootLength DEF D!splitTomlRootAndTables, F!splitTomlRootAndTables
<1> QED BY <1>2, <1>3, <1>4

LEMMA SameMerge == \A p, f : D!Merged(p, f) = Merge(f, D!DefaultModel(p.models), p.token, p.models)
<1> SUFFICES ASSUME NEW p, NEW f PROVE D!Merged(p, f) = Merge(f, D!DefaultModel(p.models), p.token, p.models)
  OBVIOUS
<1> DEFINE incoming == F!RenderGatewayConfig(D!DefaultModel(p.models), p.token)
           models == p.models
<1>1. D!RenderGatewayConfig(D!DefaultModel(p.models), p.token) = incoming
  BY DEF D!RenderGatewayConfig, F!RenderGatewayConfig, D!Setting, F!Setting, D!Header, F!Header, D!Blank, F!Blank, D!Line, F!Line,
         D!codexManagedTable, F!codexManagedTable
<1>2. D!Merged(p, f) = D!mergeCodexConfigKeeping(f, incoming, models)
  BY <1>1 DEF D!Merged
<1> HIDE DEF incoming, models
<1>3. D!mergeCodexConfigKeeping(f, incoming, models) = F!mergeCodexConfigKeeping(f, incoming, models)
  BY SameModel, SameSections, SameStrip DEF D!mergeCodexConfigKeeping, F!mergeCodexConfigKeeping
<1> QED BY <1>2, <1>3 DEF Merge, incoming, models

LEMMA SameMeaning ==
  \A lines : D!Meaning(lines) = F!Meaning(lines) /\ D!IsToml(lines) = F!IsToml(lines)
<1>1. D!Fresh = F!Fresh
  BY DEF D!Fresh, F!Fresh
<1>2. \A lines : D!Reading(lines) = F!Reading(lines)
  BY DEF D!Reading, F!Reading, D!advanceTomlScanState, F!advanceTomlScanState, D!advanceToken, F!advanceToken, D!Fresh, F!Fresh
<1>3. \A lines, read : D!Statements(lines, read) = F!Statements(lines, read)
  BY <1>1 DEF D!Statements, F!Statements
<1>4. \A lines, read, i : D!Statement(lines, read, i) = F!Statement(lines, read, i)
  BY <1>1 DEF D!Statement, F!Statement, D!Min, F!Min
<1>5. ASSUME NEW lines PROVE D!Meaning(lines) = F!Meaning(lines)
  BY <1>2, <1>3, <1>4 DEF D!Meaning, F!Meaning
<1>6. ASSUME NEW lines PROVE D!IsToml(lines) = F!IsToml(lines)
  BY <1>1, <1>2, <1>3 DEF D!IsToml, F!IsToml
<1> QED BY <1>5, <1>6

-----------------------------------------------------------------------------
(* The files of the delivery's story: no value in them hides a header, so a strip *)
(* takes every token that stands below one. *)

Bearer == "experimental_bearer_token"
Texted == F!Opening("text", "basic")

\* The lines of the story's files: what packages bring, and the one the
\* employee writes.
PlainLines ==
  {F!Blank, F!Setting("model_provider", "gateway"), F!Header(F!codexManagedTable)}
    \cup {F!Setting("model", m) : m \in Model} \cup {F!Setting(Bearer, t) : t \in Token}
StoryLines == PlainLines \cup {Texted}

\* There once at most.
OneText(f) == \A i, j \in 1 .. Len(f) : f[i] = Texted /\ f[j] = Texted => i = j

StoryFile(f) == f \in Seq(StoryLines) /\ OneText(f)

\* Below a header no line has another token than w.
Speaks(f, w) ==
  \A j \in 1 .. Len(f) : \A i \in 1 .. j : f[i].shape = "header" /\ f[j].name = Bearer => f[j].value = w

LEMMA TextedIs ==
  /\ Texted.shape = "key" /\ Texted.name = "text" /\ Texted.value = "" /\ Texted.tokens = <<"basic">>
  BY DEF Texted, F!Opening, F!Line

LEMMA StoryLineIs ==
  ASSUME NEW l \in StoryLines
  PROVE  /\ l.shape = "header" => l = F!Header(F!codexManagedTable)
         /\ l.shape # "header" /\ l # Texted => l.tokens = <<>>
         /\ l.shape \notin {"blank", "comment"} \/ l = F!Blank
         /\ l.value # "" => l = F!Setting(l.name, l.value)
<1>1. CASE l = F!Blank
  BY <1>1 DEF F!Blank, F!Line, F!Setting, Bearer, Texted, F!Opening
<1>2. CASE l = F!Header(F!codexManagedTable)
  BY <1>2 DEF F!Header, F!Line, F!Setting, Bearer
<1>3. ASSUME NEW key, NEW value, l = F!Setting(key, value) PROVE l.shape = "key" /\ l.name = key /\ l.value = value /\ l.tokens = <<>>
  BY <1>3, SettingIs
<1>4. CASE l = Texted
  BY <1>4, TextedIs, SettingIs DEF Bearer
<1>5. CASE \E key, value : l = F!Setting(key, value)
  BY <1>5, <1>3
<1> QED BY <1>1, <1>2, <1>4, <1>5 DEF StoryLines, PlainLines

LEMMA StoryIsToml == TomlLines(StoryLines) /\ Readable(StoryLines) /\ TomlLines(PlainLines)
<1>1. \A token \in Tok : \A key : IsTomlLine(F!Opening(key, token))
  <2> SUFFICES ASSUME NEW token \in Tok, NEW key PROVE IsTomlLine(F!Opening(key, token))
    OBVIOUS
  <2>1. F!Opening(key, token).shape = "key" /\ F!Opening(key, token).tokens = <<token>> /\ <<token>> \in Seq(Tok)
    BY DEF F!Opening, F!Line
  <2>2. F!Opening(key, token) # F!Blank
    BY <2>1, NotBlank
  <2> QED BY <2>1, <2>2 DEF IsTomlLine
<1>2. IsTomlLine(Texted)
  BY <1>1 DEF Texted, Tok
<1>3. IsTomlLine(F!Blank)
  BY OwnLinesAreToml DEF TomlLines, ManyLines, L!Blank, L!Line, F!Blank, F!Line
<1>4. IsTomlLine(F!Header(F!codexManagedTable))
  BY HeaderIsTomlLine, RootIsNoTable
<1>5. TomlLines(StoryLines) /\ TomlLines(PlainLines)
  BY <1>2, <1>3, <1>4, SettingIsTomlLine DEF TomlLines, StoryLines, PlainLines
<1>6. Readable(StoryLines)
  <2> SUFFICES ASSUME NEW l \in StoryLines
               PROVE  /\ l.shape = "header" => l.tokens = <<"open", "close">>
                      /\ l.value # "" => l = F!Setting(l.name, l.value)
    BY DEF Readable
  <2>1. l.value # "" => l = F!Setting(l.name, l.value)
    BY StoryLineIs
  <2>2. l.shape = "header" => l = F!Header(F!codexManagedTable)
    BY StoryLineIs
  <2> QED BY <2>1, <2>2, HeaderIs
<1> QED BY <1>5, <1>6

LEMMA StoryFileIs ==
  ASSUME NEW f, StoryFile(f)
  PROVE  /\ File(StoryLines, f) /\ TomlFile(f) /\ Len(f) \in Nat
         /\ \A i \in 1 .. Len(f) : f[i] \in StoryLines
         /\ (~F!Closed(f)) \in BOOLEAN /\ IsScan(f, ~F!Closed(f), F!scanTomlLines(f))
<1>1. File(StoryLines, f)
  BY StoryIsToml DEF StoryFile, File
<1> QED BY <1>1, FileIs, ScanTomlIs DEF StoryFile, File

\* With one such line at most, what is open after a line of a straight scan is
\* the string it opens.
LEMMA OneTextOpens ==
  ASSUME NEW f, StoryFile(f), NEW r \in BOOLEAN, ~r, NEW scan, IsScan(f, r, scan)
  PROVE  \A i \in 0 .. Len(f) : StateAfter(scan, i) = F!Fresh <=> \A k \in 1 .. i : f[k] # Texted
<1>1. TomlFile(f) /\ Len(f) \in Nat /\ \A i \in 1 .. Len(f) : f[i] \in StoryLines
  BY StoryFileIs
<1> DEFINE Z == {i \in 0 .. Len(f) : StateAfter(scan, i) = F!Fresh <=> \A k \in 1 .. i : f[k] # Texted}
<1>2. 0 \in Z
  BY <1>1, BeforeAll
<1>3. ASSUME NEW i \in 0 .. Len(f) - 1, i \in Z PROVE i + 1 \in Z
  <2> DEFINE j == i + 1
  <2>1. j \in 1 .. Len(f) /\ j - 1 = i
    BY <1>1
  <2>2. ScanLine(f, r, scan, j)
    BY <2>1, ScanFacts
  <2>3. CASE f[j].shape = "header"
    <3>1. f[j] = F!Header(F!codexManagedTable) /\ f[j] # Texted
      BY <1>1, <2>1, <2>3, StoryLineIs, TextedIs
    <3> HIDE DEF j
    <3>2. StateAfter(scan, j) = StateAfter(scan, j - 1)
      BY <1>1, <2>1, <3>1, HeaderLine
    <3> QED BY <1>1, <1>3, <2>1, <3>1, <3>2 DEF j
  <2>4. CASE f[j].shape # "header" /\ f[j] # Texted
    <3>1. f[j].tokens = <<>>
      BY <1>1, <2>1, <2>4, StoryLineIs
    <3> HIDE DEF j
    <3>2. StateAfter(scan, j) = StateAfter(scan, j - 1)
      BY <1>1, <2>1, <2>4, <3>1, PlainLine
    <3> QED BY <1>1, <1>3, <2>1, <2>4, <3>2 DEF j
  <2>5. CASE f[j] = Texted
    <3>1. \A k \in 1 .. i : f[k] # Texted
      BY <1>1, <2>1, <2>5 DEF StoryFile, OneText
    <3>2. StateAfter(scan, i) = F!Fresh
      BY <1>3, <3>1
    <3>3. ~scan[j].isHeader
      BY <2>2, <2>5, TextedIs DEF ScanLine
    <3>4. scan[j].state = F!advanceTomlScanState(F!Fresh, <<"basic">>)
      BY <2>1, <2>2, <2>5, <3>2, <3>3, TextedIs DEF ScanLine
    <3>5. F!advanceTomlScanState(F!Fresh, <<"basic">>) # F!Fresh
      <4>1. "basic" \in Tok /\ <<"basic">> \in Seq(Tok) /\ Len(<<"basic">>) = 1 /\ <<"basic">>[1] = "basic"
        BY DEF Tok
      <4> DEFINE tokens == <<"basic">>
      <4> HIDE DEF tokens
      <4>3. PICK after \in [0 .. Len(tokens) -> State] :
              /\ after[0] = F!Fresh
              /\ \A k \in 1 .. Len(tokens) : after[k] = F!advanceToken(after[k - 1], tokens[k])
              /\ F!advanceTomlScanState(F!Fresh, tokens) = after[Len(tokens)]
        BY <4>1, FreshIsState, AdvanceUnfolds DEF tokens
      <4>2. F!advanceTomlScanState(F!Fresh, <<"basic">>) = F!advanceToken(F!Fresh, "basic")
        BY <4>1, <4>3 DEF tokens
      <4> QED BY <4>2 DEF F!advanceToken, F!Fresh
    <3>6. StateAfter(scan, j) = scan[j].state
      BY <2>1 DEF StateAfter
    <3> QED BY <1>1, <2>1, <2>5, <3>4, <3>5, <3>6
  <2> QED BY <2>3, <2>4, <2>5
<1> HIDE DEF Z
<1>4. \A i \in 0 .. Len(f) : i \in Z
  BY <1>1, <1>2, <1>3, IntervalInduction
<1> QED BY <1>4 DEF Z

\* So the scanner recognises every header: either nothing is ever open, or the
\* string stays open and it recovers.
LEMMA HeadersAreSeen ==
  ASSUME NEW f, StoryFile(f), NEW scan, scan = F!scanTomlLines(f), NEW h \in 1 .. Len(f), f[h].shape = "header"
  PROVE  scan[h].isHeader /\ scan[h].table = F!codexManagedTable
<1> DEFINE r == ~F!Closed(f)
<1>1. /\ File(StoryLines, f) /\ TomlFile(f) /\ Len(f) \in Nat /\ f[h] \in StoryLines
      /\ r \in BOOLEAN /\ IsScan(f, r, scan)
  BY StoryFileIs
<1>0. scan = F!classifyTomlLines(f, r)
  BY DEF F!scanTomlLines
<1>6. r \/ F!Closed(f)
  OBVIOUS
<1> HIDE DEF r
<1>2. ScanLine(f, r, scan, h)
  BY <1>1, ScanFacts
<1>3. f[h] = F!Header(F!codexManagedTable)
  BY <1>1, StoryLineIs
<1>4. CASE r
  BY <1>2, <1>3, <1>4, HeaderIs DEF ScanLine
<1>5. CASE ~r
  <2>2. StateAfter(scan, Len(f)) = F!Fresh
    BY <1>0, <1>1, <1>5, <1>6, ClosedBy
  <2>1. \A i \in 0 .. Len(f) : StateAfter(scan, i) = F!Fresh <=> \A k \in 1 .. i : f[k] # Texted
    BY <1>1, <1>5, OneTextOpens
  <2>3. \A k \in 1 .. Len(f) : f[k] # Texted
    BY <1>1, <2>1, <2>2
  <2>4. StateAfter(scan, h - 1) = F!Fresh
    <3>1. h - 1 \in 0 .. Len(f) /\ 1 .. h - 1 \subseteq 1 .. Len(f)
      BY <1>1
    <3> QED BY <2>1, <2>3, <3>1
  <2> QED BY <1>2, <1>3, <2>4, HeaderIs DEF ScanLine
<1> QED BY <1>4, <1>5

NoHeader(f) == \A i \in 1 .. Len(f) : f[i].shape # "header"

\* A line with a header above it is in the managed table.
LEMMA BelowAHeader ==
  ASSUME NEW f, StoryFile(f), NEW scan, scan = F!scanTomlLines(f),
         NEW j \in 1 .. Len(f), NEW h \in 1 .. j, f[h].shape = "header"
  PROVE  F!tomlSectionOwner(scan, j) = F!codexManagedTable
<1> DEFINE r == ~F!Closed(f)
<1>1. /\ TomlFile(f) /\ Len(f) \in Nat /\ \A i \in 1 .. Len(f) : f[i] \in StoryLines
      /\ r \in BOOLEAN /\ IsScan(f, r, scan)
  BY StoryFileIs
<1> HIDE DEF r
<1>2. h \in 1 .. Len(f) /\ scan[h].isHeader
  BY <1>1, HeadersAreSeen
<1>3. scan[j].table = F!codexManagedTable
  <2>1. PICK g \in 1 .. j : f[g].shape = "header" /\ scan[j].table = f[g].name
    BY <1>1, <1>2, TableOf
  <2>2. g \in 1 .. Len(f)
    BY <1>1, <2>1
  <2>3. f[g] \in StoryLines
    BY <1>1, <2>2
  <2>4. f[g] = F!Header(F!codexManagedTable)
    BY <2>1, <2>3, StoryLineIs
  <2> QED BY <2>1, <2>4, HeaderIs
<1>4. \A g \in j + 1 .. Len(f) : F!LeadsTo(scan, j, g) => scan[g].table = F!codexManagedTable
  <2> SUFFICES ASSUME NEW g \in j + 1 .. Len(f), F!LeadsTo(scan, j, g) PROVE scan[g].table = F!codexManagedTable
    OBVIOUS
  <2>1. g \in j .. Len(f) /\ g \in 1 .. Len(f)
    BY <1>1
  <2>2. scan[g].isHeader
    BY <1>1, <2>1, LeadsToIs
  <2>3. f[g].shape = "header"
    BY <1>1, <2>1, <2>2, ScanFacts DEF ScanLine
  <2> QED BY <2>1, <2>3, HeadersAreSeen
<1> QED BY <1>1, <1>3, <1>4, Owner

\* A strip takes every header of such a file, and with it all below.
LEMMA StripTakesHeaders ==
  ASSUME NEW f, StoryFile(f), NEW K, K = F!stripCodexManaged(f)
  PROVE  StoryFile(K) /\ NoHeader(K)
<1> DEFINE scan == F!scanTomlLines(f)
           places == KeptPlaces(f, scan)
<1>1. f \in Seq(StoryLines) /\ OneText(f)
  BY DEF StoryFile
<1>2. K = F!Select(f, places)
  BY StripIs
<1>3. \A i \in places : i \in 1 .. Len(f) /\ F!tomlSectionOwner(scan, i) # F!codexManagedTable
  BY DEF KeptPlaces, Kept
<1> HIDE DEF scan, places
<1>4. K \in Seq(StoryLines)
  BY <1>1, <1>2, SelectCounts
<1>5. PICK c : SelectCount(f, places, K, c)
  BY <1>1, <1>2, SelectCounts
<1>6. \A p \in 1 .. Len(K) : \E j \in 1 .. Len(f) : j \in places /\ c[j] = p /\ K[p] = f[j]
  <2> SUFFICES ASSUME NEW p \in 1 .. Len(K) PROVE \E j \in 1 .. Len(f) : j \in places /\ c[j] = p /\ K[p] = f[j]
    OBVIOUS
  <2>1. PICK j \in 1 .. Len(f) : j \in places /\ c[j] = p
    BY <1>5 DEF SelectCount
  <2>2. K[c[j]] = f[j]
    BY <1>5, <2>1 DEF SelectCount
  <2> QED BY <2>1, <2>2
<1>7. NoHeader(K)
  <2> SUFFICES ASSUME NEW p \in 1 .. Len(K), K[p].shape = "header" PROVE FALSE
    BY DEF NoHeader
  <2>1. PICK j \in 1 .. Len(f) : j \in places /\ K[p] = f[j]
    BY <1>6
  <2>2. F!tomlSectionOwner(scan, j) = F!codexManagedTable
    BY <2>1, BelowAHeader DEF scan
  <2> QED BY <1>3, <2>1, <2>2
<1>8. OneText(K)
  <2> SUFFICES ASSUME NEW p \in 1 .. Len(K), NEW q \in 1 .. Len(K), K[p] = Texted, K[q] = Texted PROVE p = q
    BY DEF OneText
  <2>1. PICK i \in 1 .. Len(f) : c[i] = p /\ K[p] = f[i]
    BY <1>6
  <2>2. PICK j \in 1 .. Len(f) : c[j] = q /\ K[q] = f[j]
    BY <1>6
  <2>3. i = j
    BY <1>1, <2>1, <2>2 DEF OneText
  <2> QED BY <2>1, <2>2, <2>3
<1> QED BY <1>4, <1>7, <1>8 DEF StoryFile

\* Without a header it is all root.
LEMMA AllRoot ==
  ASSUME NEW K, StoryFile(K), NoHeader(K)
  PROVE  F!RootLength(K) = Len(K)
<1> DEFINE r == ~F!Closed(K)
           scan == F!scanTomlLines(K)
<1>1. TomlFile(K) /\ Len(K) \in Nat /\ r \in BOOLEAN /\ IsScan(K, r, scan)
  BY StoryFileIs
<1>2. \A i \in 1 .. Len(K) : F!tomlSectionOwner(scan, i) = RootTable
  <2> HIDE DEF r, scan
  <2> SUFFICES ASSUME NEW i \in 1 .. Len(K) PROVE F!tomlSectionOwner(scan, i) = RootTable
    OBVIOUS
  <2>1. \A h \in 1 .. Len(K) : ~scan[h].isHeader
    BY <1>1, ScanFacts DEF ScanLine, NoHeader
  <2>2. scan[i].table = RootTable
    <3>1. \A h \in 1 .. i : h \in 1 .. Len(K)
      BY <1>1
    <3> QED BY <1>1, <2>1, <3>1, TableOf
  <2>3. \A h \in i + 1 .. Len(K) : ~F!LeadsTo(scan, i, h)
    <3> SUFFICES ASSUME NEW h \in i + 1 .. Len(K) PROVE ~F!LeadsTo(scan, i, h)
      OBVIOUS
    <3>1. h \in i .. Len(K) /\ h \in 1 .. Len(K)
      BY <1>1
    <3> QED BY <1>1, <2>1, <3>1, LeadsToIs
  <2> QED BY <1>1, <2>2, <2>3, Owner
<1>3. Len(K) \in 0 .. Len(K)
  BY <1>1
<1> HIDE DEF r
<1> QED BY <1>1, <1>2, <1>3, RootLengthIs DEF scan

\* What a delivery of token t leaves.
Brought(g, t) ==
  /\ StoryFile(g) /\ Speaks(g, t)
  /\ \E h, j \in 1 .. Len(g) : h < j /\ g[h].shape = "header" /\ g[j] = F!Setting(Bearer, t)

LEMMA LaidOutBrings ==
  ASSUME NEW A, StoryFile(A), NoHeader(A), NEW g, g \in Seq(StoryLines), NEW m, NEW t, NEW p, NEW q,
         LaidOut(g, m, t, A, p, <<>>, q)
  PROVE  Brought(g, t)
<1> DEFINE u == p + Len(A) + 1
<1>1. Len(A) \in Nat /\ p \in {2, 3} /\ Len(g) = u + 2
  BY StoryFileIs DEF LaidOut
<1>2. /\ g[1] = F!Setting("model", m) /\ g[2] = F!Setting("model_provider", "gateway")
      /\ p = 3 => g[3] = F!Blank
      /\ \A k \in 1 .. Len(A) : g[p + k] = A[k]
      /\ g[u] = F!Blank /\ g[u + 1] = F!Header(F!codexManagedTable) /\ g[u + 2] = F!Setting(Bearer, t)
  <2>1. u + 1 = p + Len(A) + 2 /\ u + 2 = p + Len(A) + 3
    BY <1>1
  <2> QED BY <2>1 DEF LaidOut, Bearer
<1> HIDE DEF u
<1>3. \A i \in 1 .. Len(g) : \/ i \in {1, 2, u, u + 1, u + 2}
                             \/ i = 3 /\ p = 3
                             \/ i - p \in 1 .. Len(A) /\ i = p + (i - p)
  BY <1>1 DEF u
<1>4. F!Blank.shape = "blank" /\ Texted.name = "text" /\ Texted.shape = "key"
  BY TextedIs DEF F!Blank, F!Line
<1>5. u \in Nat /\ u > 2
  BY <1>1 DEF u
<1>6. \A i \in 1 .. Len(g) : g[i] = Texted => i - p \in 1 .. Len(A) /\ A[i - p] = Texted
  <2> SUFFICES ASSUME NEW i \in 1 .. Len(g), g[i] = Texted PROVE i - p \in 1 .. Len(A) /\ A[i - p] = Texted
    OBVIOUS
  <2>1. i \notin {1, 2, u, u + 1, u + 2} /\ ~(i = 3 /\ p = 3)
    BY <1>2, <1>4, SettingIs, HeaderIs DEF Bearer
  <2>2. i - p \in 1 .. Len(A) /\ i = p + (i - p)
    BY <1>3, <2>1
  <2> QED BY <1>2, <2>2
<1>7. OneText(g)
  <2> SUFFICES ASSUME NEW i \in 1 .. Len(g), NEW j \in 1 .. Len(g), g[i] = Texted, g[j] = Texted PROVE i = j
    BY DEF OneText
  <2>1. i - p = j - p
    BY <1>6 DEF StoryFile, OneText
  <2> QED BY <1>1, <2>1
<1>8. \A i \in 1 .. Len(g) : g[i].shape = "header" => i = u + 1
  <2> SUFFICES ASSUME NEW i \in 1 .. Len(g), g[i].shape = "header", i # u + 1 PROVE FALSE
    OBVIOUS
  <2>1. i \notin {1, 2, u, u + 2} /\ ~(i = 3 /\ p = 3)
    BY <1>2, <1>4, SettingIs DEF Bearer
  <2>2. i - p \in 1 .. Len(A) /\ i = p + (i - p)
    BY <1>3, <2>1
  <2> QED BY <1>2, <2>2 DEF NoHeader
<1>9. Speaks(g, t)
  <2> SUFFICES ASSUME NEW j \in 1 .. Len(g), NEW i \in 1 .. j, g[i].shape = "header", g[j].name = Bearer
               PROVE  g[j].value = t
    BY DEF Speaks
  <2>1. i = u + 1
    BY <1>1, <1>5, <1>8
  <2>2. j = u + 1 \/ j = u + 2
    BY <1>1, <1>5, <2>1
  <2>3. g[u + 1].name # Bearer
    BY <1>2, HeaderIs DEF F!codexManagedTable, Bearer
  <2> QED BY <1>2, <2>2, <2>3, SettingIs
<1>10. u + 1 \in 1 .. Len(g) /\ u + 2 \in 1 .. Len(g) /\ u + 1 < u + 2 /\ g[u + 1].shape = "header"
  BY <1>1, <1>2, <1>5, HeaderIs
<1> QED BY <1>2, <1>7, <1>9, <1>10 DEF Brought, StoryFile

\* The merge of such a file is one again, and speaks of the token delivered only.
LEMMA MergeBrings ==
  ASSUME NEW models \in SUBSET Model, NEW m0 \in Model, NEW t \in Token, NEW f, StoryFile(f)
  PROVE  Brought(Merge(f, m0, t, models), t)
<1>1. TomlLines(StoryLines) /\ f \in Seq(StoryLines)
  BY StoryIsToml DEF StoryFile
<1>2. Delivery(StoryLines, models, m0, t)
  BY DEF Delivery, Delivers, StoryLines, PlainLines, Bearer
<1>3. <<>> \in Seq(StoryLines) /\ StoryFile(<<>>) /\ NoHeader(<<>>)
  BY DEF StoryFile, OneText, NoHeader
<1>4. ASSUME NEW m, Delivers(StoryLines, m, t), NEW A, StoryFile(A), NoHeader(A), NEW B, B = <<>>
      PROVE  Brought(Out(m, t, A, B), t)
  <2>1. A \in Seq(StoryLines) /\ B \in Seq(StoryLines)
    BY <1>3, <1>4 DEF StoryFile
  <2>2. PICK p, q : LaidOut(Out(m, t, A, B), m, t, A, p, B, q)
    BY <1>4, <2>1, OutLaidOut
  <2>3. Out(m, t, A, B) \in Seq(StoryLines)
    BY <1>4, <2>1, OutLaidOut
  <2> HIDE DEF Out
  <2> QED BY <1>4, <2>2, <2>3, LaidOutBrings
<1>5. CASE F!trimBlankTomlLines(f) = <<>>
  <2>1. Merge(f, m0, t, models) = Out(m0, t, <<>>, <<>>)
    BY <1>1, <1>2, <1>5, BlankMerge DEF MadeBy
  <2>2. Delivers(StoryLines, m0, t)
    BY <1>2 DEF Delivery
  <2> QED BY <1>3, <1>4, <2>1, <2>2
<1>6. CASE F!trimBlankTomlLines(f) # <<>>
  <2> DEFINE K == F!stripCodexManaged(f)
             n == F!RootLength(K)
             A == F!trimBlankTomlLines(SubSeq(K, 1, n))
             B == F!trimBlankTomlLines(SubSeq(K, n + 1, Len(K)))
             m == Chosen(f, m0, models)
  <2>1. StoryFile(K) /\ NoHeader(K)
    BY StripTakesHeaders
  <2>2. n = Len(K) /\ Len(K) \in Nat /\ K \in Seq(StoryLines)
    BY <2>1, AllRoot, StoryFileIs DEF StoryFile
  <2> HIDE DEF K, n
  <2>3. n \in 0 .. Len(K)
    BY <2>2
  <2>4. B = <<>>
    <3>1. SubSeq(K, n + 1, Len(K)) \in Seq(StoryLines) /\ Len(SubSeq(K, n + 1, Len(K))) = 0
      BY <2>2, <2>3, LinesOfASubSeq
    <3>2. \A i \in DOMAIN SubSeq(K, n + 1, Len(K)) : FALSE
      BY <3>1
    <3> QED BY <3>2 DEF F!trimBlankTomlLines
  <2>5. A \in Seq(StoryLines) /\ NoHeader(A) /\ OneText(A)
    <3> DEFINE s == SubSeq(K, 1, n)
    <3>1. s \in Seq(StoryLines) /\ Len(s) = n /\ \A i \in 1 .. n : s[i] = K[i]
      BY <2>2, <2>3, LinesOfASubSeq
    <3>2. A = F!trimBlankTomlLines(s)
      OBVIOUS
    <3> HIDE DEF s, A
    <3>3. A \in Seq(StoryLines)
      BY <3>1, <3>2, TrimHas
    <3>4. PICK p : Surrounded(s, A, p)
      BY <3>1, <3>2, TrimHas
    <3>5. \A k \in 1 .. Len(A) : p + k \in 1 .. Len(K) /\ A[k] = K[p + k]
      BY <2>2, <3>1, <3>3, <3>4 DEF Surrounded
    <3>6. NoHeader(A)
      BY <2>1, <3>5 DEF NoHeader
    <3>7. OneText(A)
      <4> SUFFICES ASSUME NEW i \in 1 .. Len(A), NEW j \in 1 .. Len(A), A[i] = Texted, A[j] = Texted PROVE i = j
        BY DEF OneText
      <4>1. p + i = p + j
        BY <2>1, <3>5 DEF StoryFile, OneText
      <4> QED BY <3>4, <4>1 DEF Surrounded
    <3> QED BY <3>3, <3>6, <3>7
  <2>6. B \in Seq(StoryLines)
    BY <1>3, <2>4
  <2> HIDE DEF A, B, m
  <2>7. m \in models \cup {m0} /\ Merge(f, m0, t, models) = Out(m, t, A, B)
    BY <1>1, <1>2, <1>6, <2>5, <2>6, MergeIs DEF K, n, A, B, m
  <2>8. Delivers(StoryLines, m, t)
    BY <1>2, <2>7 DEF Delivery
  <2> QED BY <1>4, <2>4, <2>5, <2>7, <2>8 DEF StoryFile
<1> QED BY <1>5, <1>6

\* A file that speaks of another token has another identity: a delivery that
\* replaces the token is seen to.
LEMMA TokenIsIdentity ==
  ASSUME NEW f, StoryFile(f), NEW w, Speaks(f, w), NEW g, NEW t, Brought(g, t), w # t
  PROVE  F!GatewayIdentity(f) # F!GatewayIdentity(g)
<1> DEFINE Places(lines, scan) ==
             {i \in 1 .. Len(lines) :
                /\ scan[i].line.shape \notin {"blank", "comment"}
                /\ F!tomlSectionOwner(scan, i) = F!codexManagedTable \/ F!tomlRootKey(scan, i, {"model_provider"})}
           l == F!Setting(Bearer, t)
<1>1. \A lines : F!GatewayIdentity(lines) = F!Select(lines, Places(lines, F!scanTomlLines(lines)))
  BY DEF F!GatewayIdentity
<1>2. l.shape = "key" /\ l.name = Bearer /\ l.value = t
  BY SettingIs
<1>3. \E p \in 1 .. Len(F!GatewayIdentity(g)) : F!GatewayIdentity(g)[p] = l
  <2> DEFINE scan == F!scanTomlLines(g)
             places == Places(g, scan)
             r == ~F!Closed(g)
  <2>1. g \in Seq(StoryLines) /\ StoryFile(g)
    BY DEF Brought, StoryFile
  <2>2. Len(g) \in Nat /\ r \in BOOLEAN /\ IsScan(g, r, scan)
    BY <2>1, StoryFileIs
  <2>3. PICK h \in 1 .. Len(g), j \in 1 .. Len(g) : h < j /\ g[h].shape = "header" /\ g[j] = l
    BY DEF Brought
  <2>4. F!tomlSectionOwner(scan, j) = F!codexManagedTable
    <3>1. h \in 1 .. j
      BY <2>2, <2>3
    <3> QED BY <2>1, <2>3, <3>1, BelowAHeader
  <2>5. scan[j].line = g[j]
    <3> HIDE DEF scan, r
    <3> QED BY <2>2, ScanFacts DEF ScanLine
  <2>6. j \in places
    <3> HIDE DEF scan, l
    <3> QED BY <1>2, <2>3, <2>4, <2>5
  <2> HIDE DEF places, l
  <2>7. PICK c : SelectCount(g, places, F!Select(g, places), c)
    BY <2>1, SelectCounts
  <2>8. c[j] \in 1 .. Len(F!Select(g, places)) /\ F!Select(g, places)[c[j]] = l
    BY <2>3, <2>6, <2>7 DEF SelectCount
  <2>9. F!GatewayIdentity(g) = F!Select(g, places)
    BY <1>1 DEF places
  <2> QED BY <2>8, <2>9
<1>4. ~ \E p \in 1 .. Len(F!GatewayIdentity(f)) : F!GatewayIdentity(f)[p] = l
  <2> SUFFICES ASSUME NEW p \in 1 .. Len(F!GatewayIdentity(f)), F!GatewayIdentity(f)[p] = l PROVE FALSE
    OBVIOUS
  <2> DEFINE scan == F!scanTomlLines(f)
             places == Places(f, scan)
             r == ~F!Closed(f)
  <2>1. f \in Seq(StoryLines)
    BY DEF StoryFile
  <2>2. TomlFile(f) /\ Len(f) \in Nat /\ r \in BOOLEAN /\ IsScan(f, r, scan)
    BY StoryFileIs
  <2>3. F!GatewayIdentity(f) = F!Select(f, places)
    BY <1>1
  <2>4. \A j \in places : F!tomlSectionOwner(scan, j) = F!codexManagedTable \/ F!tomlRootKey(scan, j, {"model_provider"})
    OBVIOUS
  <2> HIDE DEF places, l
  <2>5. PICK c : SelectCount(f, places, F!Select(f, places), c)
    BY <2>1, SelectCounts
  <2>6. PICK j \in 1 .. Len(f) : j \in places /\ f[j] = l
    <3>1. p \in 1 .. Len(F!Select(f, places)) /\ F!Select(f, places)[p] = l
      BY <2>3
    <3>2. PICK j \in 1 .. Len(f) : j \in places /\ c[j] = p
      BY <2>5, <3>1 DEF SelectCount
    <3>3. F!Select(f, places)[c[j]] = f[j]
      BY <2>5, <3>2 DEF SelectCount
    <3> QED BY <3>1, <3>2, <3>3
  <2> HIDE DEF scan, r
  <2>7. ~F!tomlRootKey(scan, j, {"model_provider"})
    <3>1. scan[j].line = f[j]
      BY <2>2, ScanFacts DEF ScanLine
    <3> QED BY <1>2, <2>6, <3>1 DEF F!tomlRootKey, Bearer
  <2>8. scan[j].table = F!codexManagedTable
    <3>1. ~Quiet(f[j])
      BY <1>2, <2>6 DEF Quiet
    <3> QED BY <2>2, <2>4, <2>6, <2>7, <3>1, Owner
  <2>9. PICK h \in 1 .. j : f[h].shape = "header"
    BY <2>2, <2>8, RootIsNoTable, TableOf
  <2> QED BY <1>2, <2>6, <2>9 DEF Speaks
<1> QED BY <1>3, <1>4

\* A token that Codex reads from the managed table stands below a header.
LEMMA ReadTokenIs ==
  ASSUME NEW f, StoryFile(f), NEW w, Speaks(f, w), F!IsToml(f), NEW line, line.name = Bearer,
         <<F!codexManagedTable, line.name, <<line>>>> \in F!Meaning(f)
  PROVE  line.value = w
<1> DEFINE r == FALSE
           scan == F!classifyTomlLines(f, r)
<1>1. TomlFile(f) /\ File(StoryLines, f) /\ Len(f) \in Nat
  BY StoryFileIs
<1>2. r \in BOOLEAN /\ ~r
  OBVIOUS
<1> HIDE DEF r
<1>3. IsScan(f, r, scan)
  BY <1>1, <1>2, ScanIs
<1> HIDE DEF scan
<1>4. Straight(StoryLines, f, scan)
  BY <1>1, <1>2, <1>3, StoryIsToml DEF Straight
<1>5. StateAfter(scan, Len(f)) = F!Fresh
  BY <1>4, MeaningIs DEF WellRead
<1>6. PICK i \in Stated(f, scan) : <<F!codexManagedTable, line.name, <<line>>>> = Says(f, scan, i)
  BY <1>4, MeaningIs DEF Sayings
<1>7. i \in 1 .. Len(f)
  BY <1>6 DEF Stated
<1>8. f[i].shape # "header"
  BY <1>6 DEF Says
<1>9. scan[i].table = F!codexManagedTable /\ f[i].name = Bearer /\ <<line>> = SubSeq(f, i, F!Min(Ends(f, scan, i)))
  BY <1>6, <1>8 DEF Says
<1>10. PICK e \in i .. Len(f) : F!Min(Ends(f, scan, i)) = e
  BY <1>1, <1>5, <1>7, EndHas, EndIs
<1>11. line = f[i]
  <2>1. f \in Seq(StoryLines)
    BY DEF StoryFile
  <2>2. SubSeq(f, i, e)[1] = f[i]
    BY <1>7, <1>10, <2>1
  <2>3. <<line>> = SubSeq(f, i, e)
    BY <1>9, <1>10
  <2>4. <<line>>[1] = line
    OBVIOUS
  <2> HIDE DEF Bearer
  <2> QED BY ONLY <2>2, <2>3, <2>4
<1>12. PICK h \in 1 .. i : f[h].shape = "header"
  BY <1>1, <1>2, <1>3, <1>7, <1>9, RootIsNoTable, TableOf
<1> QED BY <1>7, <1>9, <1>11, <1>12 DEF Speaks

\* What an edit leaves: e leads from each line but the one written to the same
\* line before.
Edited(f, g, e, new) ==
  /\ \A i \in 1 .. Len(g) : g[i] = new \/ (e[i] \in 1 .. Len(f) /\ g[i] = f[e[i]])
  /\ \A i, j \in 1 .. Len(g) : i < j => e[i] < e[j] \/ g[i] = new \/ g[j] = new

LEMMA EditSpeaks ==
  ASSUME NEW f, Len(f) \in Nat, NEW w, Speaks(f, w), NEW g, Len(g) \in Nat, NEW e, NEW new,
         new.shape = "key", new.name # Bearer, Edited(f, g, e, new)
  PROVE  Speaks(g, w)
<1> SUFFICES ASSUME NEW j \in 1 .. Len(g), NEW i \in 1 .. j, g[i].shape = "header", g[j].name = Bearer
             PROVE  g[j].value = w
  BY DEF Speaks
<1>1. i \in 1 .. Len(g) /\ g[i] # new /\ g[j] # new
  OBVIOUS
<1>2. e[i] \in 1 .. Len(f) /\ g[i] = f[e[i]] /\ e[j] \in 1 .. Len(f) /\ g[j] = f[e[j]]
  BY <1>1 DEF Edited
<1>3. i = j \/ e[i] < e[j]
  BY <1>1 DEF Edited
<1>4. e[i] \in 1 .. e[j]
  BY <1>2, <1>3
<1> QED BY <1>2, <1>4 DEF Speaks

LEMMA MergeIsFile ==
  ASSUME NEW S, TomlLines(S), NEW models, NEW m0, NEW t, Delivery(S, models, m0, t), NEW f, f \in Seq(S)
  PROVE  Merge(f, m0, t, models) \in Seq(S)
<1>1. CASE F!trimBlankTomlLines(f) = <<>>
  BY <1>1, BlankMerge DEF File
<1>2. CASE F!trimBlankTomlLines(f) # <<>>
  <2> DEFINE K == F!stripCodexManaged(f)
             n == F!RootLength(K)
             A == F!trimBlankTomlLines(SubSeq(K, 1, n))
             B == F!trimBlankTomlLines(SubSeq(K, n + 1, Len(K)))
             m == Chosen(f, m0, models)
  <2>1. K \in Seq(S)
    BY StripIs, SelectCounts
  <2>2. n \in 0 .. Len(K)
    <3> HIDE DEF K
    <3> QED BY <2>1, RootLengthHas
  <2> HIDE DEF K, n
  <2>3. A \in Seq(S) /\ B \in Seq(S)
    BY <2>1, <2>2, LinesOfASubSeq, TrimHas
  <2> HIDE DEF A, B, m
  <2>4. m \in models \cup {m0} /\ Merge(f, m0, t, models) = Out(m, t, A, B)
    BY <1>2, <2>3, MergeIs DEF K, n, A, B, m
  <2>5. Delivers(S, m, t)
    BY <2>4 DEF Delivery
  <2> QED BY <2>3, <2>4, <2>5, OutLaidOut
<1> QED BY <1>1, <1>2

-----------------------------------------------------------------------------
(* The one edit of an employee. *)

\* Before the one edit nothing of the employee's is in the file.
FileKept ==
  /\ edits \in Nat /\ StoryFile(file)
  /\ edits = 0 => file \in Seq(PlainLines)

LEMMA PlainIsStory ==
  ASSUME NEW f, f \in Seq(PlainLines)
  PROVE  StoryFile(f) /\ \A i \in 1 .. Len(f) : f[i] # Texted
<1>1. Texted \notin PlainLines
  <2>1. F!Blank.shape # "key" /\ F!Header(F!codexManagedTable).shape # "key"
    BY HeaderIs DEF F!Blank, F!Line
  <2>2. \A key, value : key # "text" => F!Setting(key, value) # Texted
    <3> SUFFICES ASSUME NEW key, NEW value, key # "text" PROVE F!Setting(key, value) # Texted
      OBVIOUS
    <3>1. F!Setting(key, value).name = key
      BY SettingIs
    <3> HIDE DEF Texted
    <3> QED BY <3>1, TextedIs
  <2>3. "model" # "text" /\ "model_provider" # "text" /\ Bearer # "text"
    BY DEF Bearer
  <2> HIDE DEF Texted, Bearer
  <2> QED BY <2>1, <2>2, <2>3, TextedIs DEF PlainLines
<1>2. PlainLines \subseteq StoryLines
  BY DEF StoryLines
<1> HIDE DEF PlainLines, StoryLines
<1>3. \A i \in 1 .. Len(f) : f[i] \in PlainLines
  OBVIOUS
<1>4. f \in Seq(StoryLines)
  BY <1>2
<1> QED BY <1>1, <1>3, <1>4 DEF StoryFile, OneText

\* An edit of a file without such a line.
LEMMA EditKeeps ==
  ASSUME NEW f, f \in Seq(PlainLines), NEW w, Speaks(f, w), NEW g, g \in Seq(StoryLines), NEW e, NEW new,
         new.shape = "key", new.name # Bearer, Edited(f, g, e, new),
         new = Texted => \A i, j \in 1 .. Len(g) : g[i] = new /\ g[j] = new => i = j
  PROVE  StoryFile(g) /\ Speaks(g, w)
<1>1. \A i \in 1 .. Len(f) : f[i] # Texted
  BY PlainIsStory
<1>2. OneText(g)
  <2> SUFFICES ASSUME NEW i \in 1 .. Len(g), NEW j \in 1 .. Len(g), g[i] = Texted, g[j] = Texted PROVE i = j
    BY DEF OneText
  <2>1. g[i] = new /\ g[j] = new
    BY <1>1 DEF Edited
  <2> QED BY <2>1
<1>3. Speaks(g, w)
  <2> HIDE DEF PlainLines, StoryLines
  <2>1. Len(f) \in Nat /\ Len(g) \in Nat
    OBVIOUS
  <2> QED BY <2>1, EditSpeaks
<1> QED BY <1>2, <1>3 DEF StoryFile

Joins(S, z, x, y) ==
  /\ z \in Seq(S) /\ Len(z) = Len(x) + Len(y)
  /\ \A k \in 1 .. Len(x) : z[k] = x[k]
  /\ \A k \in Len(x) + 1 .. Len(z) : k - Len(x) \in 1 .. Len(y) /\ z[k] = y[k - Len(x)]

LEMMA Joined ==
  ASSUME NEW S, NEW x, x \in Seq(S), NEW y, y \in Seq(S), NEW z, z = x \o y
  PROVE  Joins(S, z, x, y)
<1>1. z \in Seq(S) /\ IsAppended(z, x, y)
  BY Appended
<1>2. Len(x) \in Nat /\ Len(y) \in Nat
  OBVIOUS
<1>3. ASSUME NEW k \in Len(x) + 1 .. Len(z) PROVE k - Len(x) \in 1 .. Len(y) /\ z[k] = y[k - Len(x)]
  <2>1. Len(z) = Len(x) + Len(y) /\ \A j \in 1 .. Len(y) : z[Len(x) + j] = y[j]
    BY <1>1 DEF IsAppended
  <2>2. k - Len(x) \in 1 .. Len(y) /\ Len(x) + (k - Len(x)) = k
    BY ONLY <1>2, <2>1, k \in Len(x) + 1 .. Len(z)
  <2> QED BY ONLY <2>1, <2>2
<1> QED BY <1>1, <1>3 DEF IsAppended, Joins

\* The lines around the place of an edit.
With(S, f, n, l, g) ==
  /\ g \in Seq(S) /\ Len(g) = Len(f) + 1
  /\ \A k \in 1 .. Len(g) : \/ k <= n /\ g[k] = f[k]
                            \/ k = n + 1 /\ g[k] = l
                            \/ k > n + 1 /\ g[k] = f[k - 1]

LEMMA Inserted ==
  ASSUME NEW S, NEW f, f \in Seq(S), NEW n \in 0 .. Len(f), NEW l \in S,
         NEW g, g = SubSeq(f, 1, n) \o <<l>> \o SubSeq(f, n + 1, Len(f))
  PROVE  With(S, f, n, l, g)
<1> DEFINE x == SubSeq(f, 1, n)
           y == SubSeq(f, n + 1, Len(f))
           z == x \o <<l>>
<1>1. g = z \o y /\ <<l>> \in Seq(S) /\ Len(<<l>>) = 1 /\ <<l>>[1] = l /\ Len(f) \in Nat
  OBVIOUS
<1>2. /\ x \in Seq(S) /\ Len(x) = n /\ \A k \in 1 .. n : x[k] = f[k]
      /\ y \in Seq(S) /\ Len(y) = Len(f) - n /\ \A k \in 1 .. Len(f) - n : y[k] = f[n + k]
  BY LinesOfASubSeq
<1> HIDE DEF x, y
<1>3. /\ z \in Seq(S) /\ Len(z) = n + 1
      /\ \A k \in 1 .. n : z[k] = f[k]
      /\ z[n + 1] = l
  <2> DEFINE one == <<l>>
  <2>1. one \in Seq(S) /\ Len(one) = 1 /\ one[1] = l /\ z = x \o one
    BY <1>1
  <2> HIDE DEF one, z
  <2>2. /\ z \in Seq(S) /\ Len(z) = Len(x) + Len(one)
        /\ \A k \in 1 .. Len(x) : z[k] = x[k]
        /\ \A k \in Len(x) + 1 .. Len(z) : k - Len(x) \in 1 .. Len(one) /\ z[k] = one[k - Len(x)]
    <3>1. x \in Seq(S)
      BY <1>2
    <3>2. Joins(S, z, x, one)
      BY ONLY <2>1, <3>1, Joined
    <3> QED BY ONLY <3>2 DEF Joins
  <2>3. n + 1 \in Len(x) + 1 .. Len(z) /\ (n + 1) - Len(x) = 1
    BY ONLY <1>2, <2>1, <2>2, n \in 0 .. Len(f), <1>1
  <2> QED BY ONLY <1>2, <2>1, <2>2, <2>3
<1> HIDE DEF z
<1>4. /\ g \in Seq(S) /\ Len(g) = Len(z) + Len(y)
      /\ \A k \in 1 .. Len(z) : g[k] = z[k]
      /\ \A k \in Len(z) + 1 .. Len(g) : k - Len(z) \in 1 .. Len(y) /\ g[k] = y[k - Len(z)]
  <2>1. z \in Seq(S) /\ y \in Seq(S)
    BY <1>2, <1>3
  <2>2. Joins(S, g, z, y)
    BY ONLY <1>1, <2>1, Joined
  <2> QED BY ONLY <2>2 DEF Joins
<1>5. n \in Nat /\ Len(f) \in Nat /\ n <= Len(f)
  BY <1>1
<1>6. Len(g) = Len(f) + 1
  BY ONLY <1>2, <1>3, <1>4, <1>5
<1>7. ASSUME NEW k \in 1 .. Len(g)
      PROVE  (k <= n /\ g[k] = f[k]) \/ (k = n + 1 /\ g[k] = l) \/ (k > n + 1 /\ g[k] = f[k - 1])
  <2>1. CASE k <= n
    <3>1. k \in 1 .. n /\ k \in 1 .. Len(z)
      BY ONLY <1>3, <1>5, <2>1, k \in 1 .. Len(g)
    <3> QED BY ONLY <1>3, <1>4, <2>1, <3>1
  <2>2. CASE k = n + 1
    <3>1. k \in 1 .. Len(z)
      BY ONLY <1>3, <1>5, <2>2
    <3> QED BY ONLY <1>3, <1>4, <2>2, <3>1
  <2>3. CASE k > n + 1
    <3>1. k \in Len(z) + 1 .. Len(g) /\ k - (n + 1) \in Int /\ n + (k - (n + 1)) = k - 1
      BY ONLY <1>3, <1>5, <1>6, <2>3, k \in 1 .. Len(g)
    <3>2. k - (n + 1) \in 1 .. Len(y) /\ g[k] = y[k - (n + 1)]
      BY ONLY <1>3, <1>4, <3>1
    <3>3. y[k - (n + 1)] = f[n + (k - (n + 1))]
      BY ONLY <1>2, <3>2
    <3> QED BY ONLY <2>3, <3>1, <3>2, <3>3
  <2> QED BY ONLY <1>5, <2>1, <2>2, <2>3, k \in 1 .. Len(g)
<1> QED BY <1>4, <1>6, <1>7 DEF With

Without(S, f, n, g) ==
  /\ g \in Seq(S)
  /\ \A k \in 1 .. Len(g) : \/ k <= n /\ g[k] = f[k]
                            \/ k > n /\ k + 1 \in 1 .. Len(f) /\ g[k] = f[k + 1]

LEMMA Deleted ==
  ASSUME NEW S, NEW f, f \in Seq(S), NEW n \in 0 .. Len(f), n < Len(f),
         NEW g, g = SubSeq(f, 1, n) \o SubSeq(f, n + 2, Len(f))
  PROVE  Without(S, f, n, g)
<1> DEFINE x == SubSeq(f, 1, n)
           m == n + 1
           y == SubSeq(f, m + 1, Len(f))
<1>1. g = x \o y /\ Len(f) \in Nat /\ n \in Nat /\ m \in 0 .. Len(f)
  OBVIOUS
<1>0. m = n + 1
  OBVIOUS
<1> HIDE DEF m
<1>2. /\ x \in Seq(S) /\ Len(x) = n /\ \A k \in 1 .. n : x[k] = f[k]
      /\ y \in Seq(S) /\ Len(y) = Len(f) - m /\ \A k \in 1 .. Len(f) - m : y[k] = f[m + k]
  BY <1>1, LinesOfASubSeq
<1> HIDE DEF x, y
<1>3. /\ g \in Seq(S) /\ Len(g) = Len(x) + Len(y)
      /\ \A k \in 1 .. Len(x) : g[k] = x[k]
      /\ \A k \in Len(x) + 1 .. Len(g) : k - Len(x) \in 1 .. Len(y) /\ g[k] = y[k - Len(x)]
  <2>1. x \in Seq(S) /\ y \in Seq(S)
    BY <1>2
  <2>2. Joins(S, g, x, y)
    BY ONLY <1>1, <2>1, Joined
  <2> QED BY ONLY <2>2 DEF Joins
<1>4. ASSUME NEW k \in 1 .. Len(g)
      PROVE  (k <= n /\ g[k] = f[k]) \/ (k > n /\ k + 1 \in 1 .. Len(f) /\ g[k] = f[k + 1])
  <2>1. CASE k <= n
    <3>1. k \in 1 .. n
      BY ONLY <1>1, <2>1, k \in 1 .. Len(g)
    <3> QED BY ONLY <1>2, <1>3, <2>1, <3>1
  <2>2. CASE k > n
    <3>1. k \in n + 1 .. Len(g) /\ k - n \in Int /\ m + (k - n) = k + 1
      BY ONLY <1>0, <1>1, <2>2, k \in 1 .. Len(g)
    <3>2. k - n \in 1 .. Len(y) /\ g[k] = y[k - n]
      BY ONLY <1>2, <1>3, <3>1
    <3>3. y[k - n] = f[m + (k - n)]
      BY ONLY <1>2, <3>2
    <3>4. k + 1 \in 1 .. Len(f)
      BY ONLY <1>0, <1>1, <1>2, <3>1, <3>2
    <3> QED BY ONLY <2>2, <3>1, <3>2, <3>3, <3>4
  <2> QED BY ONLY <1>1, <2>1, <2>2, k \in 1 .. Len(g)
<1> QED BY <1>3, <1>4 DEF Without

LEMMA InsertKeeps ==
  ASSUME NEW f, f \in Seq(PlainLines), NEW w, Speaks(f, w), NEW i \in 1 .. Len(f) + 1,
         NEW g, g = SubSeq(f, 1, i - 1) \o <<Texted>> \o SubSeq(f, i, Len(f))
  PROVE  StoryFile(g) /\ Speaks(g, w)
<1> DEFINE n == i - 1
<1>1. n \in 0 .. Len(f) /\ i = n + 1 /\ Len(f) \in Nat
  OBVIOUS
<1> HIDE DEF n
<1>2. g = SubSeq(f, 1, n) \o <<Texted>> \o SubSeq(f, n + 1, Len(f))
  BY <1>1 DEF n
<1>3. f \in Seq(StoryLines) /\ Texted \in StoryLines
  BY PlainIsStory DEF StoryFile, StoryLines
<1> HIDE DEF PlainLines, StoryLines, Texted
<1>4. /\ g \in Seq(StoryLines) /\ Len(g) = Len(f) + 1
      /\ \A k \in 1 .. Len(g) : \/ k <= n /\ g[k] = f[k]
                                \/ k = n + 1 /\ g[k] = Texted
                                \/ k > n + 1 /\ g[k] = f[k - 1]
  <2>1. With(StoryLines, f, n, Texted, g)
    BY ONLY <1>1, <1>2, <1>3, Inserted
  <2> QED BY ONLY <2>1 DEF With
<1>5. \A k \in 1 .. Len(f) : f[k] # Texted
  BY PlainIsStory
<1>6. \A k \in 1 .. Len(g) : g[k] = Texted => k = n + 1
  BY ONLY <1>1, <1>4, <1>5
<1> DEFINE e == [k \in 1 .. Len(g) |-> IF k <= n THEN k ELSE k - 1]
<1>7. Edited(f, g, e, Texted)
  BY ONLY <1>1, <1>4 DEF Edited
<1> HIDE DEF e
<1>8. \A j, k \in 1 .. Len(g) : g[j] = Texted /\ g[k] = Texted => j = k
  BY ONLY <1>6
<1>9. Texted.shape = "key" /\ Texted.name # Bearer
  BY TextedIs DEF Bearer
<1> QED BY <1>4, <1>7, <1>8, <1>9, EditKeeps

LEMMA DeleteKeeps ==
  ASSUME NEW f, f \in Seq(PlainLines), NEW w, Speaks(f, w), NEW i \in 1 .. Len(f),
         NEW g, g = SubSeq(f, 1, i - 1) \o SubSeq(f, i + 1, Len(f))
  PROVE  StoryFile(g) /\ Speaks(g, w)
<1> DEFINE n == i - 1
<1>1. n \in 0 .. Len(f) /\ n < Len(f) /\ i + 1 = n + 2 /\ Len(f) \in Nat
  OBVIOUS
<1> HIDE DEF n
<1>2. g = SubSeq(f, 1, n) \o SubSeq(f, n + 2, Len(f))
  BY <1>1 DEF n
<1>3. f \in Seq(PlainLines)
  OBVIOUS
<1> HIDE DEF PlainLines, Texted
<1>4. /\ g \in Seq(PlainLines)
      /\ \A k \in 1 .. Len(g) : \/ k <= n /\ g[k] = f[k]
                                \/ k > n /\ k + 1 \in 1 .. Len(f) /\ g[k] = f[k + 1]
  <2>1. Without(PlainLines, f, n, g)
    BY ONLY <1>1, <1>2, <1>3, Deleted
  <2> QED BY ONLY <2>1 DEF Without
<1>5. Len(g) \in Nat
  BY ONLY <1>4
<1> DEFINE e == [k \in 1 .. Len(g) |-> IF k <= n THEN k ELSE k + 1]
<1>6. Edited(f, g, e, Texted)
  BY ONLY <1>1, <1>4, <1>5 DEF Edited
<1> HIDE DEF e
<1>7. StoryFile(g) /\ g \in Seq(StoryLines) /\ \A k \in 1 .. Len(g) : g[k] # Texted
  BY <1>4, PlainIsStory DEF StoryFile
<1>8. Texted.shape = "key" /\ Texted.name # Bearer
  BY TextedIs DEF Bearer
<1> QED BY <1>6, <1>7, <1>8, EditKeeps

LEMMA PickKeeps ==
  ASSUME NEW f, f \in Seq(PlainLines), NEW w, Speaks(f, w), NEW m \in Model,
         NEW g, g = F!setRootString(f, "model", m)
  PROVE  StoryFile(g) /\ Speaks(g, w)
<1> DEFINE new == F!Setting("model", m)
           e == [k \in 1 .. Len(g) |-> k]
<1>1. new \in PlainLines
  BY DEF PlainLines
<1>2. new.shape = "key" /\ new.name # Bearer /\ new # Texted
  <2>1. new.shape = "key" /\ new.name = "model"
    BY SettingIs
  <2> HIDE DEF new
  <2> QED BY <2>1, TextedIs DEF Bearer
<1> HIDE DEF PlainLines, new
<1>3. Len(f) \in Nat /\ DOMAIN f = 1 .. Len(f)
  OBVIOUS
<1>4. g = [k \in 1 .. Len(f) |-> IF F!tomlRootKey(F!scanTomlLines(f), k, {"model"}) THEN new ELSE f[k]]
  BY <1>3 DEF F!setRootString, new
<1>5. g \in Seq(PlainLines) /\ Len(g) = Len(f)
  BY <1>1, <1>3, <1>4
<1>6. Edited(f, g, e, new)
  BY <1>3, <1>4, <1>5 DEF Edited
<1> HIDE DEF e
<1>7. g \in Seq(StoryLines)
  BY <1>5, PlainIsStory DEF StoryFile
<1> QED BY <1>2, <1>6, <1>7, EditKeeps

-----------------------------------------------------------------------------
(* The delivery as a process. *)

\* A package is known by its number.
Numbered(p) == p.n = package.n => p = package

Order ==
  /\ package \in D!Package /\ mark \in D!Package
  /\ package.n = published /\ mark.n <= published /\ delivery.of.n <= published
  /\ Numbered(mark) /\ Numbered(delivery.of)
  /\ delivery.pc = "write" => mark.n < delivery.of.n

Phases ==
  /\ delivery \in [pc : {"idle", "write", "stop"}, of : D!Package, todo : SUBSET D!Entry, cred : BOOLEAN]
  /\ cut \in BOOLEAN
  /\ delivery.pc = "idle" => ~delivery.cred
  /\ delivery.pc = "stop" => delivery.todo = {}
  /\ "config.toml" \in delivery.todo => ~delivery.cred

\* w is the token of the file.  A Codex that has another one is stopped at the
\* end of the delivery, unless that was cut short.
Holds(w) ==
  /\ Speaks(file, w)
  /\ session = D!NoToken \/ session = w \/ cut = TRUE \/ delivery.cred = TRUE
  /\ mark = package => w = package.token
  /\ delivery.pc # "idle" /\ "config.toml" \notin delivery.todo => w = delivery.of.token

Deliveries == Order /\ Phases
StoryInv == FileKept /\ Deliveries /\ \E w : Holds(w)
TokenInv == IF which = "profile" THEN StoryInv ELSE session = D!NoToken

LEMMA PackageIs ==
  ASSUME NEW p \in D!Package
  PROVE  /\ p.n \in Nat /\ p.n <= MaxPackage
         /\ p.n # 0 => p.token \in Token /\ p.models \in SUBSET Model /\ p.models # {}
  BY FleetAssumption DEF D!ProfileAssumption, D!Package, D!NoPackage

LEMMA IdleIs ==
  /\ D!Idle \in [pc : {"idle", "write", "stop"}, of : D!Package, todo : SUBSET D!Entry, cred : BOOLEAN]
  /\ D!Idle.pc = "idle" /\ D!Idle.of.n = 0 /\ D!Idle.todo = {} /\ D!Idle.cred = FALSE /\ D!Idle.of = D!NoPackage
  BY DEF D!Idle, D!Package, D!NoPackage

\* The delivery ends, with or without its mark.
LEMMA EndsIdle ==
  ASSUME Deliveries, delivery' = D!Idle, UNCHANGED <<package, published>>,
         mark' \in {mark, delivery.of}, cut' \in BOOLEAN
  PROVE  Deliveries'
<1>1. D!Idle.of \in D!Package /\ (D!Idle.of.n = package.n => D!Idle.of = package)
  <2>1. package.n = 0 => package = D!NoPackage
    BY DEF Deliveries, Order, D!Package, D!NoPackage
  <2> QED BY <2>1, IdleIs
<1>2. delivery.of \in D!Package
  BY DEF Deliveries, Phases
<1>3. package.n \in Nat
  BY PackageIs DEF Deliveries, Order
<1>4. Order'
  BY <1>1, <1>2, <1>3, IdleIs DEF Deliveries, Order, Numbered
<1>5. Phases'
  BY IdleIs DEF Deliveries, Phases
<1> QED BY <1>4, <1>5 DEF Deliveries

LEMMA PublishKeeps ==
  ASSUME StoryInv, NEW t \in Token, NEW ms \in (SUBSET Model) \ {{}}, D!Publish(t, ms)
  PROVE  StoryInv'
<1>1. package.n = published /\ published \in Nat /\ published < MaxPackage /\ mark.n \in Nat /\ delivery.of.n \in Nat
      /\ mark.n <= published /\ delivery.of.n <= published
  BY PackageIs DEF StoryInv, Deliveries, Order, Phases, D!Publish
<1>2. package' = [token |-> t, models |-> ms, n |-> published + 1] /\ published' = published + 1
      /\ UNCHANGED <<file, mark, delivery, session, cut, edits>>
  BY DEF D!Publish
<1>3. package'.n = published + 1 /\ package' \in D!Package
  BY <1>1, <1>2, FleetAssumption DEF D!ProfileAssumption, D!Package
<1>4. mark' # package' /\ mark'.n # package'.n /\ delivery'.of.n # package'.n
  BY <1>1, <1>2, <1>3
<1>5. Order'
  BY <1>1, <1>2, <1>3, <1>4 DEF StoryInv, Deliveries, Order, Numbered
<1>6. Phases' /\ FileKept'
  BY <1>2 DEF StoryInv, Deliveries, Phases, FileKept
<1>7. \E w : Holds(w)'
  BY <1>2, <1>4 DEF StoryInv, Holds
<1> QED BY <1>5, <1>6, <1>7 DEF StoryInv, Deliveries

LEMMA FetchKeeps ==
  ASSUME StoryInv, D!Fetch
  PROVE  StoryInv'
<1>1. /\ delivery = D!Idle /\ package # mark /\ UNCHANGED <<package, published, file, mark, session, cut, edits>>
      /\ delivery' = [pc |-> "write", of |-> package, todo |-> D!Entry, cred |-> FALSE]
  BY DEF D!Fetch
<1>2. delivery'.pc = "write" /\ delivery'.of = package /\ delivery'.todo = D!Entry /\ delivery'.cred = FALSE
  BY <1>1
<1>3. package.n \in Nat /\ mark.n \in Nat /\ package \in D!Package
  BY PackageIs DEF StoryInv, Deliveries, Order
<1>4. Order'
  BY <1>1, <1>2, <1>3 DEF StoryInv, Deliveries, Order, Numbered
<1>5. Phases'
  BY <1>1, <1>2, <1>3 DEF StoryInv, Deliveries, Phases
<1>6. FileKept'
  BY <1>1 DEF StoryInv, FileKept
<1>7. \E w : Holds(w)'
  BY <1>1, <1>2, IdleIs DEF StoryInv, Holds, D!Entry
<1> QED BY <1>4, <1>5, <1>6, <1>7 DEF StoryInv, Deliveries

\* A delivery that replaces the token will stop Codex.
LEMMA WriteConfigKeeps ==
  ASSUME StoryInv, D!WriteConfig
  PROVE  StoryInv'
<1> DEFINE p == delivery.of
           g == D!Merged(p, file)
           m0 == D!DefaultModel(p.models)
<1>1. /\ delivery.pc = "write" /\ "config.toml" \in delivery.todo /\ file' = g
      /\ delivery' = [delivery EXCEPT !.todo = @ \ {"config.toml"}, !.cred = D!GatewayIdentity(file) # D!GatewayIdentity(g)]
      /\ UNCHANGED <<package, published, mark, session, cut, edits>>
  BY DEF D!WriteConfig
<1>2. /\ delivery'.pc = "write" /\ delivery'.of = p /\ delivery'.todo = delivery.todo \ {"config.toml"}
      /\ delivery'.cred = (D!GatewayIdentity(file) # D!GatewayIdentity(g))
      /\ delivery' \in [pc : {"idle", "write", "stop"}, of : D!Package, todo : SUBSET D!Entry, cred : BOOLEAN]
  <2> DEFINE b == D!GatewayIdentity(file) # D!GatewayIdentity(g)
  <2>1. b \in BOOLEAN /\ delivery' = [delivery EXCEPT !.todo = @ \ {"config.toml"}, !.cred = b]
    BY <1>1
  <2> HIDE DEF b, g, p
  <2>2. delivery \in [pc : {"idle", "write", "stop"}, of : D!Package, todo : SUBSET D!Entry, cred : BOOLEAN]
    BY DEF StoryInv, Deliveries, Phases
  <2>3. /\ delivery'.pc = "write" /\ delivery'.of = delivery.of /\ delivery'.todo = delivery.todo \ {"config.toml"}
        /\ delivery'.cred = b
        /\ delivery' \in [pc : {"idle", "write", "stop"}, of : D!Package, todo : SUBSET D!Entry, cred : BOOLEAN]
    BY ONLY <1>1, <2>1, <2>2
  <2> QED BY <2>3 DEF b, p
<1>3. p \in D!Package /\ mark \in D!Package /\ mark.n \in Nat /\ p.n \in Nat /\ mark.n < p.n /\ p.n <= package.n /\ ~delivery.cred
  BY <1>1, PackageIs DEF StoryInv, Deliveries, Order, Phases
<1>4. p.token \in Token /\ p.models \in SUBSET Model /\ p.models # {}
  BY <1>3, PackageIs
<1>5. m0 \in Model
  <2>1. m0 \in p.models
    BY <1>4 DEF D!DefaultModel
  <2> QED BY <1>4, <2>1
<1>6. g = Merge(file, m0, p.token, p.models) /\ StoryFile(file) /\ edits \in Nat
  BY SameMerge DEF StoryInv, FileKept
<1>7. Brought(g, p.token)
  <2> HIDE DEF g, m0, p
  <2> QED BY <1>4, <1>5, <1>6, MergeBrings
<1>8. edits = 0 => g \in Seq(PlainLines)
  <2> SUFFICES ASSUME edits = 0 PROVE g \in Seq(PlainLines)
    OBVIOUS
  <2>1. file \in Seq(PlainLines)
    BY DEF StoryInv, FileKept
  <2>2. Delivery(PlainLines, p.models, m0, p.token)
    <3> HIDE DEF m0, p
    <3> QED BY <1>4, <1>5 DEF Delivery, Delivers, PlainLines, Bearer
  <2> HIDE DEF g, m0, p
  <2> QED BY <1>6, <2>1, <2>2, StoryIsToml, MergeIsFile
<1>9. PICK w : Holds(w)
  BY DEF StoryInv
<1>10. w # p.token => delivery'.cred = TRUE
  <2>1. w # p.token => F!GatewayIdentity(file) # F!GatewayIdentity(g)
    <3>1. Speaks(file, w)
      BY <1>9 DEF Holds
    <3> HIDE DEF g, p
    <3> QED BY <1>6, <1>7, <3>1, TokenIsIdentity
  <2> QED BY <1>2, <2>1, SameIdentity
<1> HIDE DEF g, m0, p
<1>11. mark # package
  BY <1>3
<1>12. Order'
  BY <1>1, <1>2, <1>3 DEF StoryInv, Deliveries, Order, Numbered, p
<1>13. Phases'
  BY <1>1, <1>2 DEF StoryInv, Deliveries, Phases
<1>14. FileKept'
  BY <1>1, <1>6, <1>7, <1>8 DEF FileKept, Brought
<1>15. Speaks(file', p.token)
  BY <1>1, <1>7 DEF Brought
<1>16. session' = D!NoToken \/ session' = p.token \/ cut' = TRUE \/ delivery'.cred = TRUE
  BY <1>1, <1>3, <1>9, <1>10 DEF Holds
<1>17. Holds(p.token)'
  <2> DEFINE t == p.token
  <2>1. delivery'.of.token = t
    BY <1>2
  <2>2. mark' # package'
    BY <1>1, <1>11
  <2>3. Speaks(file', t) /\ (session' = D!NoToken \/ session' = t \/ cut' = TRUE \/ delivery'.cred = TRUE)
    BY <1>15, <1>16
  <2> QED BY <2>1, <2>2, <2>3 DEF Holds, p
<1> QED BY <1>12, <1>13, <1>14, <1>17 DEF StoryInv, Deliveries

LEMMA WriteModelsKeeps ==
  ASSUME StoryInv, D!WriteModels
  PROVE  StoryInv'
<1>1. delivery' = [delivery EXCEPT !.todo = @ \ {"models.json"}] /\ UNCHANGED <<package, published, file, mark, session, cut, edits>>
  BY DEF D!WriteModels
<1>2. delivery \in [pc : {"idle", "write", "stop"}, of : D!Package, todo : SUBSET D!Entry, cred : BOOLEAN]
  BY DEF StoryInv, Deliveries, Phases
<1>3. /\ delivery'.pc = delivery.pc /\ delivery'.of = delivery.of /\ delivery'.cred = delivery.cred
      /\ delivery'.todo = delivery.todo \ {"models.json"}
      /\ delivery' \in [pc : {"idle", "write", "stop"}, of : D!Package, todo : SUBSET D!Entry, cred : BOOLEAN]
  BY ONLY <1>1, <1>2
<1>4. "config.toml" \in delivery'.todo <=> "config.toml" \in delivery.todo
  BY <1>3
<1>5. Order' /\ Phases' /\ FileKept'
  BY <1>1, <1>3, <1>4 DEF StoryInv, Deliveries, Order, Numbered, Phases, FileKept
<1>6. \E w : Holds(w)'
  BY <1>1, <1>3, <1>4 DEF StoryInv, Holds
<1> QED BY <1>5, <1>6 DEF StoryInv, Deliveries

\* What a delivery leaves undone is remembered as cut short.
LEMMA CutShortKeeps ==
  ASSUME StoryInv, delivery' = D!Idle, cut' = (cut \/ delivery.cred),
         UNCHANGED <<package, published, file, mark, session, edits>>
  PROVE  StoryInv'
<1>1. cut \in BOOLEAN /\ delivery.cred \in BOOLEAN
  BY DEF StoryInv, Deliveries, Phases
<1>2. cut' \in BOOLEAN /\ (cut = TRUE \/ delivery.cred = TRUE => cut' = TRUE)
  BY <1>1
<1>3. Deliveries'
  BY <1>2, EndsIdle DEF StoryInv
<1>4. \E w : Holds(w)'
  BY <1>2, IdleIs DEF StoryInv, Holds
<1> QED BY <1>3, <1>4 DEF StoryInv, FileKept

LEMMA MarkKeeps ==
  ASSUME StoryInv, D!writeCredsMark
  PROVE  StoryInv'
<1>1. /\ delivery.pc = "write" /\ delivery.todo = {} /\ mark' = delivery.of
      /\ delivery' = IF delivery.cred THEN [delivery EXCEPT !.pc = "stop"] ELSE D!Idle
      /\ UNCHANGED <<package, published, file, session, cut, edits>>
  BY DEF D!writeCredsMark
<1>2. PICK w : Holds(w)
  BY DEF StoryInv
<1>3. w = delivery.of.token
  BY <1>1, <1>2 DEF Holds
<1>4. mark' = package' => w = package'.token
  BY <1>1, <1>3
<1>5. cut \in BOOLEAN /\ delivery.cred \in BOOLEAN
  BY DEF StoryInv, Deliveries, Phases
<1>6. CASE delivery.cred
  <2>1. delivery' = [delivery EXCEPT !.pc = "stop"]
    BY <1>1, <1>6
  <2>2. delivery \in [pc : {"idle", "write", "stop"}, of : D!Package, todo : SUBSET D!Entry, cred : BOOLEAN]
    BY DEF StoryInv, Deliveries, Phases
  <2>3. /\ delivery'.pc = "stop" /\ delivery'.of = delivery.of /\ delivery'.cred = delivery.cred /\ delivery'.todo = delivery.todo
        /\ delivery' \in [pc : {"idle", "write", "stop"}, of : D!Package, todo : SUBSET D!Entry, cred : BOOLEAN]
    BY ONLY <2>1, <2>2
  <2>4. Order'
    BY <1>1, <2>2, <2>3 DEF StoryInv, Deliveries, Order, Numbered
  <2>5. Phases'
    BY <1>1, <2>3 DEF StoryInv, Deliveries, Phases
  <2>6. Holds(w)'
    BY <1>1, <1>2, <1>3, <1>4, <2>3 DEF Holds
  <2> QED BY <1>1, <2>4, <2>5, <2>6 DEF StoryInv, Deliveries, FileKept
<1>7. CASE ~delivery.cred
  <2>1. delivery' = D!Idle
    BY <1>1, <1>7
  <2>2. Deliveries'
    BY <1>1, <1>5, <2>1, EndsIdle DEF StoryInv
  <2>3. Holds(w)'
    BY <1>1, <1>2, <1>4, <1>7, <2>1, IdleIs DEF Holds
  <2> QED BY <1>1, <2>2, <2>3 DEF StoryInv, FileKept
<1> QED BY <1>6, <1>7

LEMMA StopKeeps ==
  ASSUME StoryInv, D!StopCodex
  PROVE  StoryInv'
<1>1. session' = D!NoToken /\ cut' = FALSE /\ delivery' = D!Idle /\ UNCHANGED <<package, published, file, mark, edits>>
  BY DEF D!StopCodex
<1>2. Deliveries'
  BY <1>1, EndsIdle DEF StoryInv
<1>3. \E w : Holds(w)'
  BY <1>1, IdleIs DEF StoryInv, Holds
<1> QED BY <1>1, <1>2, <1>3 DEF StoryInv, FileKept

\* The employee's one edit leaves the token of the file.
LEMMA EditingKeeps ==
  ASSUME StoryInv, NEW g, D!Edit(g),
         \A w : file \in Seq(PlainLines) /\ Speaks(file, w) => StoryFile(g) /\ Speaks(g, w)
  PROVE  StoryInv'
<1>1. edits < 1 /\ edits' = edits + 1 /\ file' = g /\ UNCHANGED <<package, published, mark, delivery, session, cut>>
  BY DEF D!Edit
<1>2. edits \in Nat /\ edits = 0 /\ file \in Seq(PlainLines)
  BY <1>1 DEF StoryInv, FileKept
<1>3. PICK w : Holds(w)
  BY DEF StoryInv
<1>4. StoryFile(g) /\ Speaks(g, w)
  BY <1>2, <1>3 DEF Holds
<1>5. FileKept'
  BY <1>1, <1>2, <1>4 DEF FileKept
<1>6. Holds(w)'
  BY <1>1, <1>3, <1>4 DEF Holds
<1>7. Deliveries'
  BY <1>1 DEF StoryInv, Deliveries, Order, Numbered, Phases
<1> QED BY <1>5, <1>6, <1>7 DEF StoryInv

LEMMA EmployeeKeeps ==
  ASSUME StoryInv,
         \/ \E i \in 1 .. Len(file) + 1, line \in {L!Opening("text", "basic")} : D!Insert(i, line)
         \/ \E i \in DOMAIN file : D!Delete(i)
         \/ \E m \in Model : D!PickModel(m)
  PROVE  StoryInv'
<1>1. ASSUME NEW i \in 1 .. Len(file) + 1, D!Insert(i, L!Opening("text", "basic")) PROVE StoryInv'
  <2> DEFINE g == SubSeq(file, 1, i - 1) \o <<Texted>> \o SubSeq(file, i, Len(file))
  <2>1. L!Opening("text", "basic") = Texted
    BY DEF Texted, L!Opening, F!Opening, L!Line, F!Line
  <2>2. D!Edit(g)
    BY <1>1, <2>1 DEF D!Insert
  <2>3. ASSUME NEW w, file \in Seq(PlainLines), Speaks(file, w) PROVE StoryFile(g) /\ Speaks(g, w)
    BY <2>3, InsertKeeps
  <2> HIDE DEF g
  <2> QED BY <2>2, <2>3, EditingKeeps
<1>2. ASSUME NEW i \in DOMAIN file, D!Delete(i) PROVE StoryInv'
  <2> DEFINE g == SubSeq(file, 1, i - 1) \o SubSeq(file, i + 1, Len(file))
  <2>1. D!Edit(g)
    BY <1>2 DEF D!Delete
  <2>2. ASSUME NEW w, file \in Seq(PlainLines), Speaks(file, w) PROVE StoryFile(g) /\ Speaks(g, w)
    <3>1. i \in 1 .. Len(file)
      BY <2>2
    <3> QED BY <2>2, <3>1, DeleteKeeps
  <2> HIDE DEF g
  <2> QED BY <2>1, <2>2, EditingKeeps
<1>3. ASSUME NEW m \in Model, D!PickModel(m) PROVE StoryInv'
  <2> DEFINE g == F!setRootString(file, "model", m)
  <2>1. D!Edit(g)
    <3>1. D!Edit(D!setRootString(file, "model", m))
      BY <1>3 DEF D!PickModel
    <3>2. D!setRootString(file, "model", m) = g
      BY SameModel
    <3> QED BY <3>1, <3>2
  <2>2. ASSUME NEW w, file \in Seq(PlainLines), Speaks(file, w) PROVE StoryFile(g) /\ Speaks(g, w)
    BY <2>2, PickKeeps
  <2> HIDE DEF g
  <2> QED BY <2>1, <2>2, EditingKeeps
<1> QED BY <1>1, <1>2, <1>3

\* Codex reads the token of the file.
LEMMA StartKeeps ==
  ASSUME StoryInv, D!StartCodex
  PROVE  StoryInv'
<1>1. D!IsToml(file) /\ cut' = FALSE /\ UNCHANGED <<package, published, file, mark, delivery, edits>>
  BY DEF D!StartCodex
<1>2. PICK line : /\ line.name = Bearer
                  /\ <<D!codexManagedTable, line.name, <<line>>>> \in D!Meaning(file)
                  /\ session' = line.value
  BY Zenon DEF D!StartCodex, Bearer
<1>3. F!IsToml(file) /\ <<F!codexManagedTable, line.name, <<line>>>> \in F!Meaning(file)
  <2>1. D!codexManagedTable = F!codexManagedTable
    BY DEF D!codexManagedTable, F!codexManagedTable
  <2> QED BY <1>1, <1>2, <2>1, SameMeaning
<1>4. PICK w : Holds(w)
  BY DEF StoryInv
<1>5. session' = w
  <2>1. StoryFile(file) /\ Speaks(file, w)
    BY <1>4 DEF StoryInv, FileKept, Holds
  <2>2. line.value = w
    BY <1>2, <1>3, <2>1, ReadTokenIs
  <2> QED BY <1>2, <2>2
<1>6. Holds(w)'
  BY <1>1, <1>4, <1>5 DEF Holds
<1>7. Deliveries' /\ FileKept'
  BY <1>1 DEF StoryInv, Deliveries, Order, Numbered, Phases, FileKept
<1> QED BY <1>6, <1>7 DEF StoryInv

LEMMA StoryInitially == Init => TokenInv
<1> SUFFICES ASSUME Init PROVE TokenInv
  OBVIOUS
<1>1. /\ package = F!NoPackage /\ published = 0 /\ file = <<>> /\ mark = F!NoPackage /\ delivery = F!Idle
      /\ session = F!NoToken /\ cut = FALSE /\ edits = 0
  BY DEF Init, F!Init
<1>2. F!NoToken = D!NoToken /\ F!NoPackage = D!NoPackage /\ F!Idle = D!Idle
  BY DEF F!NoToken, D!NoToken, F!NoPackage, D!NoPackage, F!Idle, D!Idle
<1>3. FileKept
  BY <1>1 DEF FileKept, StoryFile, OneText
<1>4. D!NoPackage \in D!Package /\ D!NoPackage.n = 0 /\ D!NoPackage.token = D!NoToken
  BY DEF D!Package, D!NoPackage
<1>5. Deliveries
  <2>1. delivery.of.n = 0 /\ mark.n = 0 /\ package.n = 0 /\ delivery.pc = "idle" /\ mark = package /\ delivery.of = package
    BY <1>1, <1>2, <1>4, IdleIs
  <2>2. package \in D!Package /\ mark \in D!Package
    BY <1>1, <1>2, <1>4
  <2>3. Order
    BY <1>1, <2>1, <2>2 DEF Order, Numbered
  <2>4. Phases
    BY <1>1, <1>2, IdleIs DEF Phases
  <2> QED BY <2>3, <2>4 DEF Deliveries
<1>6. Holds(D!NoToken)
  BY <1>1, <1>2, <1>4, IdleIs DEF Holds, Speaks
<1> QED BY <1>1, <1>2, <1>3, <1>5, <1>6 DEF TokenInv, StoryInv

LEMMA StoryStep == StoryInv /\ D!Next => StoryInv'
<1> SUFFICES ASSUME StoryInv, D!Next PROVE StoryInv'
  OBVIOUS
<1>1. CASE \E t \in Token, ms \in (SUBSET Model) \ {{}} : D!Publish(t, ms)
  BY <1>1, PublishKeeps
<1>2. CASE D!Fetch
  BY <1>2, FetchKeeps
<1>3. CASE D!WriteConfig
  BY <1>3, WriteConfigKeeps
<1>4. CASE D!WriteModels
  BY <1>4, WriteModelsKeeps
<1>5. CASE D!WriteFails
  BY <1>5, CutShortKeeps DEF D!WriteFails
<1>6. CASE D!writeCredsMark
  BY <1>6, MarkKeeps
<1>7. CASE D!StopCodex
  BY <1>7, StopKeeps
<1>8. CASE D!RestartAgent
  BY <1>8, CutShortKeeps DEF D!RestartAgent
<1>9. CASE \/ \E i \in 1 .. Len(file) + 1, line \in {L!Opening("text", "basic")} : D!Insert(i, line)
           \/ \E i \in DOMAIN file : D!Delete(i)
           \/ \E m \in Model : D!PickModel(m)
  BY <1>9, EmployeeKeeps
<1>10. CASE D!StartCodex
  BY <1>10, StartKeeps
<1> QED BY <1>1, <1>2, <1>3, <1>4, <1>5, <1>6, <1>7, <1>8, <1>9, <1>10 DEF D!Next

LEMMA TokenInvariance == Spec => []TokenInv
<1>1. TokenInv /\ [Next]_vars => TokenInv'
  <2> SUFFICES ASSUME TokenInv, [Next]_vars PROVE TokenInv'
    OBVIOUS
  <2>1. CASE UNCHANGED vars
    BY <2>1 DEF vars, profileVars, TokenInv, StoryInv, FileKept, Deliveries, Order, Numbered, Phases, Holds
  <2>2. CASE (which = "poll" \/ which = "release") /\ UNCHANGED <<which, profileVars>>
    BY <2>2 DEF profileVars, TokenInv
  <2>3. CASE which = "file" /\ Write /\ UNCHANGED which
    <3>1. UNCHANGED session
      BY <2>3 DEF Write, F!Publish, F!Insert, F!Edit
    <3> QED BY <2>3, <3>1 DEF TokenInv
  <2>4. CASE which = "profile" /\ D!Next /\ UNCHANGED which
    BY <2>4, StoryStep DEF TokenInv
  <2> QED BY <2>1, <2>2, <2>3, <2>4 DEF Next
<1> QED BY <1>1, StoryInitially, PTL DEF Spec

\* Whatever tokens and models are published, and wherever the delivery fails or
\* the agent is restarted, a package delivered to the end leaves no Codex on an
\* older token (deploy.go, Deploy; codexproc, StopForUser).
THEOREM OldTokensAreDropped == Spec => []NobodyKeepsAnOldToken
<1>1. TokenInv => NobodyKeepsAnOldToken
  <2> SUFFICES ASSUME TokenInv, delivery = D!Idle, mark = package, session # D!NoToken, ~cut
               PROVE  session = package.token
    BY DEF NobodyKeepsAnOldToken, D!NobodyKeepsAnOldToken
  <2>1. StoryInv
    BY DEF TokenInv
  <2>2. PICK w : Holds(w)
    BY <2>1 DEF StoryInv
  <2> QED BY <2>2, IdleIs DEF Holds
<1> QED BY <1>1, TokenInvariance, PTL
=============================================================================
