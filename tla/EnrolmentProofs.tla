-------------------------- MODULE EnrolmentProofs --------------------------
(***************************************************************************)
(* Proofs about Enrolment, for every set of machines and processes and     *)
(* every value of the bounds.                                              *)
(***************************************************************************)
EXTENDS Enrolment, TLAPS

-----------------------------------------------------------------------------
(* What the steps of the processes and of the console keep.                *)

\* All steps but Enrol that are taken by a process.
OwnStep(p) ==
  \/ Ask(p) \/ EnrolRefused(p) \/ EnrolLost(p) \/ SaveToken(p) \/ Reset(p)
  \/ Poll(p) \/ PollEnds(p) \/ Start(p) \/ CallRefused(p) \/ Note(p) \/ Exit(p) \/ Crash(p)

LEMMA OwnStepTypes ==
  ASSUME TypeOK, NEW p \in Process, OwnStep(p)
  PROVE  TypeOK'
<1> USE EnrolmentAssumption DEF EnrolmentAssumption
<1>1. UNCHANGED consoleVars /\ UNCHANGED pruning
  BY DEF OwnStep, Ask, EnrolRefused, EnrolLost, SaveToken, Reset, Poll, PollEnds, Start,
     CallRefused, Note, Exit, Crash
<1>2. happened' \in 0 .. MaxEvents
  BY DEF OwnStep, Ask, EnrolRefused, EnrolLost, SaveToken, Reset, Poll, PollEnds, Start,
     CallRefused, Note, Exit, Crash, Happens, TypeOK
<1>3. /\ At[p] \in Machine /\ proc[p] \in Proc /\ device[At[p]] \in Device
      /\ saved[At[p]] \in Token \cup {NoToken}
  BY DEF TypeOK
<1>4. saved' \in [Machine -> Token \cup {NoToken}]
  <2>1. CASE SaveToken(p)
    BY <1>3, <2>1 DEF SaveToken, TypeOK, Proc
  <2>2. CASE ~SaveToken(p)
    BY <2>2 DEF OwnStep, Ask, EnrolRefused, EnrolLost, Reset, Poll, PollEnds, Start,
       CallRefused, Note, Exit, Crash, TypeOK
  <2> QED
    BY <2>1, <2>2
<1>5. \E q \in Proc : proc' = [proc EXCEPT ![p] = q]
  <2>1. NewDevice \in Device
    BY DEF NewDevice, Device
  <2>2. Stopped \in Proc /\ AfterFailure(p) \in Proc
    BY <1>3, <2>1 DEF Stopped, AfterFailure, Proc
  <2>3. CASE Ask(p)
    <3>1. [proc[p] EXCEPT !.pc = "asking", !.before = device[At[p]]] \in Proc
      BY <1>3 DEF Proc
    <3> QED
      BY <2>3, <3>1 DEF Ask
  <2>4. CASE EnrolRefused(p) \/ EnrolLost(p)
    BY <2>2, <2>4 DEF EnrolRefused, EnrolLost
  <2>5. CASE SaveToken(p)
    <3>1. [proc[p] EXCEPT !.pc = "saved"] \in Proc
      BY <1>3 DEF Proc
    <3> QED
      BY <2>5, <3>1 DEF SaveToken
  <2>6. CASE Reset(p)
    <3>1. [proc[p] EXCEPT !.pc = "loop", !.client = proc[p].reply, !.refused = FALSE,
                          !.before = NewDevice, !.reply = NoToken] \in Proc
      BY <1>3, <2>1 DEF Proc
    <3> QED
      BY <2>6, <3>1 DEF Reset
  <2>7. CASE Poll(p)
    <3>1. /\ [proc[p] EXCEPT !.pc = "polling"] \in Proc
          /\ [proc[p] EXCEPT !.refused = TRUE] \in Proc
      BY <1>3 DEF Proc
    <3> QED
      BY <2>7, <3>1 DEF Poll
  <2>8. CASE PollEnds(p)
    <3>1. [proc[p] EXCEPT !.pc = "loop"] \in Proc
      BY <1>3 DEF Proc
    <3> QED
      BY <2>8, <3>1 DEF PollEnds
  <2>9. CASE Start(p)
    <3>1. [proc[p] EXCEPT !.pc = "loop", !.client = saved[At[p]]] \in Proc
      BY <1>3 DEF Proc
    <3> QED
      BY <2>9, <3>1 DEF Start
  <2>10. CASE CallRefused(p) \/ Note(p)
    <3>1. /\ [proc[p] EXCEPT !.rejection = TRUE] \in Proc
          /\ [proc[p] EXCEPT !.rejection = FALSE, !.refused = TRUE] \in Proc
      BY <1>3 DEF Proc
    <3> QED
      BY <2>10, <3>1 DEF CallRefused, Note
  <2>11. CASE Exit(p) \/ Crash(p)
    BY <2>2, <2>11 DEF Exit, Crash
  <2> QED
    BY <2>3, <2>4, <2>5, <2>6, <2>7, <2>8, <2>9, <2>10, <2>11 DEF OwnStep
<1>6. proc' \in [Process -> Proc]
  BY <1>5 DEF TypeOK
<1> QED
  BY <1>1, <1>2, <1>4, <1>6 DEF TypeOK, consoleVars

\* A mark is all that an enrolment under way is given by what overtakes it.
LEMMA OvertakenProcesses ==
  ASSUME TypeOK, NEW m \in Machine, NEW what \in {"issued", "forgotten"}
  PROVE  /\ Overtaken(m, what) \in [Process -> Proc]
         /\ \A q \in Process :
              \/ Overtaken(m, what)[q] = proc[q] /\ ~(At[q] = m /\ proc[q].pc = "asking")
              \/ /\ At[q] = m /\ proc[q].pc = "asking"
                 /\ Overtaken(m, what)[q] = [proc[q] EXCEPT !.since = @ \cup {what}]
<1>1. ASSUME NEW q \in Process
      PROVE  proc[q] \in Proc /\ [proc[q] EXCEPT !.since = @ \cup {what}] \in Proc
  <2>1. proc[q] \in Proc /\ proc[q].since \cup {what} \in SUBSET {"issued", "forgotten"}
    BY DEF TypeOK, Proc
  <2> DEFINE marks == proc[q].since \cup {what}
  <2> HIDE DEF marks
  <2>2. [proc[q] EXCEPT !.since = marks] \in Proc
    BY <2>1 DEF Proc, marks
  <2> QED
    BY <2>1, <2>2 DEF marks
<1> QED
  BY <1>1 DEF Overtaken, TypeOK

LEMMA EnrolTypes ==
  ASSUME TypeOK, NEW p \in Process, Enrol(p)
  PROVE  TypeOK'
<1> USE EnrolmentAssumption DEF EnrolmentAssumption
<1>1. /\ At[p] \in Machine /\ proc[p] \in Proc /\ device[At[p]] \in Device
      /\ minted \in Nat /\ minted' = minted + 1 /\ minted' \in 1 .. MaxToken
  <2>1. At[p] \in Machine /\ proc[p] \in Proc /\ device[At[p]] \in Device
    BY DEF TypeOK
  <2>2. minted \in 0 .. MaxToken /\ minted < MaxToken /\ minted' = minted + 1
    BY DEF TypeOK, Enrol
  <2> QED
    BY <2>1, <2>2
<1>2. device' \in [Machine -> Device]
  <2>1. Enrolled(device[At[p]]) \in Device
    BY <1>1 DEF Enrolled, Device
  <2> QED
    BY <1>1, <2>1 DEF Enrol, TypeOK
<1>3. issued' \in [Token -> Machine \cup {NoMachine}]
  BY <1>1 DEF Enrol, TypeOK
<1>4. live' \subseteq 1 .. minted' /\ \A t \in live' : issued'[t] \in Machine
  <2>1. SUFFICES ASSUME NEW t \in live'
                 PROVE  t \in 1 .. minted' /\ issued'[t] \in Machine
    OBVIOUS
  <2>2. CASE t = minted'
    BY <1>1, <2>2 DEF Enrol, TypeOK, Token
  <2>3. CASE t # minted'
    <3>1. t \in live /\ t \in 1 .. minted
      BY <2>3 DEF Enrol, Retained, TypeOK
    <3>2. t \in Token /\ issued'[t] = issued[t]
      BY <1>1, <2>3, <3>1 DEF Enrol, TypeOK, Token
    <3> QED
      BY <1>1, <3>1, <3>2 DEF TypeOK
  <2> QED
    BY <2>2, <2>3
<1>5. proc' \in [Process -> Proc]
  <2>1. /\ Overtaken(At[p], "issued") \in [Process -> Proc]
        /\ Overtaken(At[p], "issued")[p] \in Proc
    BY <1>1, OvertakenProcesses
  <2>2. [Overtaken(At[p], "issued")[p] EXCEPT !.pc = "granted", !.reply = minted', !.since = {}] \in Proc
    BY <1>1, <2>1 DEF Proc, Token
  <2> QED
    BY <2>1, <2>2 DEF Enrol, TypeOK
<1>6. \A m \in Machine : device'[m] = device[m] \/ device'[m].known
  BY <1>1 DEF Enrol, Enrolled, TypeOK, Device
<1>7. \A m \in Machine : ~device'[m].known => device'[m] = NewDevice
  BY <1>6 DEF TypeOK
<1>8. pruning' # NoMachine => device'[pruning'].known
  <2>1. pruning # NoMachine => pruning \in Machine /\ device[pruning].known
    BY DEF TypeOK
  <2> QED
    BY <1>6, <2>1 DEF Enrol
<1> QED
  BY <1>1, <1>2, <1>3, <1>4, <1>5, <1>7, <1>8 DEF Enrol, TypeOK

\* The operations of the console: tokens end, no token appears, and a machine
\* that is known stays so, while one that is not is left alone; no window is
\* taken away but by the clock, and nobody is taken back.
TokensFade ==
  /\ minted' = minted /\ issued' = issued /\ live' \subseteq live
  /\ device' \in [Machine -> Device]
  /\ \A m \in Machine : device[m].known => device'[m].known
  /\ \A m \in Machine : device'[m] = device[m] \/ device'[m].known
  /\ \A m \in Machine : device[m].window # "none" => device'[m].window # "none"
  /\ \A m \in Machine : device[m].revoked => device'[m].revoked

ConsoleStep == (\E m \in Machine : Console(m)) \/ PruneForgets

LEMMA ConsoleFades ==
  ASSUME TypeOK, ConsoleStep
  PROVE  TokensFade
<1>1. /\ minted' = minted /\ issued' = issued /\ live' \subseteq live
  BY DEF ConsoleStep, Console, AllowReenrol, RevokeDeviceToken, ForgetMachine, BindMachine,
     ImportStatus, PruneLooks, PruneForgets, WindowExpires, WeekPasses, Tokens, consoleVars
<1>2. CASE PruneForgets
  <2>1. pruning \in Machine /\ device[pruning] \in Device /\ device[pruning].known
    BY <1>2 DEF PruneForgets, TypeOK
  <2> QED
    BY <1>1, <1>2, <2>1 DEF PruneForgets, TypeOK, TokensFade, Device
<1>3. ASSUME NEW m \in Machine, Console(m)
      PROVE  TokensFade
  <2>1. /\ device[m] \in Device
        /\ ~device[m].known => device[m].window = "none" /\ ~device[m].api
    BY DEF TypeOK, NewDevice
  <2>2. CASE AllowReenrol(m) \/ RevokeDeviceToken(m)
    BY SMTT(60), <1>1, <2>1, <2>2 DEF AllowReenrol, RevokeDeviceToken, TypeOK, TokensFade, Device
  <2>3. CASE ForgetMachine(m)
    BY <1>1, <2>1, <2>3 DEF ForgetMachine, TypeOK, TokensFade, Device
  <2>4. CASE BindMachine(m)
    <3>1. [device[m] EXCEPT !.known = TRUE, !.assigned = TRUE] \in Device
      BY <2>1 DEF Device
    <3> QED
      BY <1>1, <2>4, <3>1 DEF BindMachine, TypeOK, TokensFade, Device
  <2>5. CASE ImportStatus(m)
    <3>1. [device[m] EXCEPT !.known = TRUE] \in Device
      BY <2>1 DEF Device
    <3> QED
      BY <1>1, <2>5, <3>1 DEF ImportStatus, TypeOK, TokensFade, Device
  <2>6. CASE PruneLooks(m)
    BY <1>1, <2>6 DEF PruneLooks, TypeOK, TokensFade, consoleVars
  <2>7. CASE WindowExpires(m)
    <3>1. [device[m] EXCEPT !.window = "over"] \in Device
      BY <2>1 DEF Device
    <3>2. device[m].known
      BY <2>1, <2>7 DEF WindowExpires
    <3> QED
      BY <1>1, <2>1, <2>7, <3>1, <3>2 DEF WindowExpires, TypeOK, TokensFade, Device
  <2>8. CASE WeekPasses(m)
    <3>1. [device[m] EXCEPT !.weekOld = TRUE] \in Device
      BY <2>1 DEF Device
    <3>2. device[m].known
      BY <2>1, <2>8 DEF WeekPasses
    <3> QED
      BY <1>1, <2>1, <2>8, <3>1, <3>2 DEF WeekPasses, TypeOK, TokensFade, Device
  <2> QED
    BY <1>3, <2>2, <2>3, <2>4, <2>5, <2>6, <2>7, <2>8 DEF Console
<1> QED
  BY <1>2, <1>3 DEF ConsoleStep

\* An enrolment under way at process q goes on as it was, but for a mark.
GoesOn(q) ==
  /\ proc'[q].pc = proc[q].pc /\ proc'[q].client = proc[q].client
  /\ proc'[q].reply = proc[q].reply /\ proc'[q].before = proc[q].before
  /\ proc[q].since \subseteq proc'[q].since

LEMMA MarksGoOn ==
  ASSUME TypeOK, NEW m \in Machine, NEW what \in {"issued", "forgotten"}, NEW q \in Process,
         proc'[q] = Overtaken(m, what)[q]
  PROVE  /\ GoesOn(q)
         /\ At[q] = m /\ proc[q].pc = "asking" => what \in proc'[q].since
<1>1. proc[q] \in Proc
  BY DEF TypeOK
<1>2. CASE Overtaken(m, what)[q] = proc[q] /\ ~(At[q] = m /\ proc[q].pc = "asking")
  BY <1>2 DEF GoesOn
<1>3. CASE Overtaken(m, what)[q] = [proc[q] EXCEPT !.since = @ \cup {what}]
  <2> DEFINE marks == proc[q].since \cup {what}
  <2>1. proc[q].since \subseteq marks /\ what \in marks
    OBVIOUS
  <2>2. proc'[q] = [proc[q] EXCEPT !.since = marks]
    BY <1>3
  <2> HIDE DEF marks
  <2> QED
    BY <1>1, <2>1, <2>2 DEF GoesOn, Proc
<1> QED
  BY <1>2, <1>3, OvertakenProcesses

\* What the console does to a machine is heard by the enrolments under way when
\* it forgets the machine.
LEMMA ConsoleMarks ==
  ASSUME TypeOK, ConsoleStep
  PROVE  /\ saved' = saved /\ proc' \in [Process -> Proc]
         /\ \A q \in Process : GoesOn(q)
         /\ \A q \in Process : proc[q].pc = "asking" /\ device'[At[q]].revoked =>
              device[At[q]].revoked \/ "forgotten" \in proc'[q].since
<1>1. ASSUME NEW m \in Machine, proc' = Overtaken(m, "forgotten"),
             \A n \in Machine \ {m} : device'[n] = device[n]
      PROVE  /\ proc' \in [Process -> Proc]
             /\ \A q \in Process : GoesOn(q)
             /\ \A q \in Process : proc[q].pc = "asking" /\ device'[At[q]].revoked =>
                  device[At[q]].revoked \/ "forgotten" \in proc'[q].since
  <2>1. proc' \in [Process -> Proc]
    BY <1>1, OvertakenProcesses
  <2>2. \A q \in Process : /\ GoesOn(q)
                           /\ At[q] = m /\ proc[q].pc = "asking" => "forgotten" \in proc'[q].since
    BY <1>1, MarksGoOn
  <2> QED
    BY <1>1, <2>1, <2>2, EnrolmentAssumption DEF EnrolmentAssumption
<1>2. CASE PruneForgets
  <2>1. pruning \in Machine /\ proc' = Overtaken(pruning, "forgotten") /\ saved' = saved
    BY <1>2 DEF PruneForgets, TypeOK
  <2>2. \A n \in Machine \ {pruning} : device'[n] = device[n]
    BY <1>2 DEF PruneForgets, TypeOK
  <2> QED
    BY <1>1, <2>1, <2>2
<1>3. ASSUME NEW m \in Machine, ForgetMachine(m)
      PROVE  /\ proc' = Overtaken(m, "forgotten") /\ saved' = saved
             /\ \A n \in Machine \ {m} : device'[n] = device[n]
  BY <1>3 DEF ForgetMachine, TypeOK
<1>4. ASSUME NEW m \in Machine, Console(m), ~ForgetMachine(m)
      PROVE  /\ proc' = proc /\ saved' = saved
             /\ \A n \in Machine : device'[n].revoked = device[n].revoked
  <2>1. device[m] \in Device /\ device \in [Machine -> Device]
    BY DEF TypeOK
  <2>2. CASE AllowReenrol(m) \/ RevokeDeviceToken(m)
    BY <2>1, <2>2 DEF AllowReenrol, RevokeDeviceToken, Device
  <2>3. CASE BindMachine(m) \/ ImportStatus(m)
    BY <2>1, <2>3 DEF BindMachine, ImportStatus, Device
  <2>4. CASE PruneLooks(m)
    BY <2>4 DEF PruneLooks, consoleVars
  <2>5. CASE WindowExpires(m) \/ WeekPasses(m)
    BY <2>1, <2>5 DEF WindowExpires, WeekPasses, Device
  <2> QED
    BY <1>4, <2>2, <2>3, <2>4, <2>5 DEF Console
<1>5. ASSUME proc' = proc, saved' = saved, \A n \in Machine : device'[n].revoked = device[n].revoked
      PROVE  /\ proc' \in [Process -> Proc]
             /\ \A q \in Process : GoesOn(q)
             /\ \A q \in Process : proc[q].pc = "asking" /\ device'[At[q]].revoked =>
                  device[At[q]].revoked
  BY <1>5, EnrolmentAssumption DEF TypeOK, GoesOn, EnrolmentAssumption
<1> QED
  BY <1>1, <1>2, <1>3, <1>4, <1>5 DEF ConsoleStep

LEMMA ConsoleTypes ==
  ASSUME TypeOK, ConsoleStep
  PROVE  TypeOK'
<1> USE EnrolmentAssumption DEF EnrolmentAssumption
<1>1. TokensFade
  BY ConsoleFades
<1>2. saved' = saved /\ proc' \in [Process -> Proc]
  BY ConsoleMarks
<1>3. pruning' = pruning \/ pruning' \in Machine \cup {NoMachine}
  BY DEF ConsoleStep, Console, AllowReenrol, RevokeDeviceToken, ForgetMachine, BindMachine,
     ImportStatus, PruneLooks, PruneForgets, WindowExpires, WeekPasses
<1>4. happened' = happened \/ (happened < MaxEvents /\ happened' = happened + 1)
  BY DEF ConsoleStep, Console, AllowReenrol, RevokeDeviceToken, ForgetMachine, BindMachine,
     ImportStatus, PruneLooks, PruneForgets, WindowExpires, WeekPasses, Happens
<1>5. happened' \in 0 .. MaxEvents
  BY <1>4 DEF TypeOK
<1>6. \A m \in Machine : ~device'[m].known => device'[m] = NewDevice
  BY <1>1 DEF TokensFade, TypeOK
<1>7. pruning' # NoMachine => device'[pruning'].known
  <2>1. CASE pruning' = pruning
    BY <1>1, <2>1 DEF TokensFade, TypeOK
  <2>2. ASSUME NEW m \in Machine, PruneLooks(m)
        PROVE  pruning' = m /\ device' = device /\ device[m].known
    BY <2>2 DEF PruneLooks, TypeOK, NewDevice, consoleVars
  <2>3. CASE PruneForgets
    BY <2>3 DEF PruneForgets
  <2>4. \/ pruning' = pruning \/ PruneForgets
        \/ \E m \in Machine : PruneLooks(m)
    BY DEF ConsoleStep, Console, AllowReenrol, RevokeDeviceToken, ForgetMachine, BindMachine,
       ImportStatus, WindowExpires, WeekPasses
  <2> QED
    BY <2>1, <2>2, <2>3, <2>4
<1> QED
  BY <1>1, <1>2, <1>3, <1>5, <1>6, <1>7 DEF TokensFade, TypeOK

DiskStep == \E m \in Machine : Wipe(m) \/ \E n \in Machine : Clone(m, n)

LEMMA DiskTypes ==
  ASSUME TypeOK, DiskStep
  PROVE  TypeOK'
<1> USE EnrolmentAssumption DEF EnrolmentAssumption
<1>1. happened' \in 0 .. MaxEvents /\ UNCHANGED consoleVars /\ UNCHANGED pruning
  BY DEF DiskStep, Wipe, Clone, Happens, TypeOK
<1>2. saved' \in [Machine -> Token \cup {NoToken}]
  BY DEF DiskStep, Wipe, Clone, TypeOK
<1>3. Stopped \in Proc
  BY DEF Stopped, NewDevice, Proc, Device
<1>4. proc' \in [Process -> Proc]
  BY <1>3 DEF DiskStep, Wipe, Clone, TypeOK
<1> QED
  BY <1>1, <1>2, <1>4 DEF TypeOK, consoleVars

LEMMA StepsAre ==
  ASSUME Next
  PROVE  \/ \E p \in Process : OwnStep(p) \/ Enrol(p)
         \/ ConsoleStep
         \/ DiskStep
  BY DEF Next, Agent, Step, OwnStep, ConsoleStep, DiskStep

LEMMA TypeStep ==
  ASSUME TypeOK, [Next]_vars
  PROVE  TypeOK'
<1>1. CASE UNCHANGED vars
  BY <1>1 DEF vars, consoleVars, TypeOK
<1>2. CASE Next
  BY <1>2, StepsAre, OwnStepTypes, EnrolTypes, ConsoleTypes, DiskTypes
<1> QED
  BY <1>1, <1>2

LEMMA InitTypes ==
  ASSUME Init
  PROVE  TypeOK
  BY EnrolmentAssumption DEF Init, TypeOK, EnrolmentAssumption, Device, NewDevice, Proc, Stopped,
     Token, NoToken

\* Every variable has its type, and what has no row has nothing.
THEOREM EnrolmentTypes == Spec => []TypeOK
<1>1. Init => TypeOK
  BY InitTypes
<1>2. TypeOK /\ [Next]_vars => TypeOK'
  BY TypeStep
<1> QED
  BY <1>1, <1>2, PTL DEF Spec

-----------------------------------------------------------------------------
(* A machine has one token.                                                *)

\* What a process does with its tokens, outside of Enrol.
TokensMove(p) ==
  /\ \A q \in Process \ {p} : proc'[q] = proc[q]
  /\ proc'[p].client \in {NoToken, proc[p].client, proc[p].reply, saved[At[p]]}
  /\ proc'[p].reply \in {NoToken, proc[p].reply}
  /\ proc'[p].pc \in {"granted", "saved"} =>
       proc[p].pc \in {"granted", "saved"} /\ proc'[p].reply = proc[p].reply
  /\ \/ saved' = saved
     \/ saved' = [saved EXCEPT ![At[p]] = proc[p].reply]

LEMMA OwnStepMoves ==
  ASSUME TypeOK, NEW p \in Process, OwnStep(p)
  PROVE  TokensMove(p)
<1>1. proc \in [Process -> Proc] /\ proc[p] \in Proc
  BY DEF TypeOK
<1>2. CASE Ask(p) \/ Poll(p) \/ PollEnds(p)
  BY <1>1, <1>2 DEF Ask, Poll, PollEnds, TokensMove, Proc
<1>3. CASE EnrolRefused(p) \/ EnrolLost(p)
  <2>1. proc' = [proc EXCEPT ![p] = AfterFailure(p)] /\ saved' = saved
    BY <1>3 DEF EnrolRefused, EnrolLost
  <2>2. /\ AfterFailure(p).pc \in {"loop", "over"} /\ AfterFailure(p).reply = NoToken
        /\ AfterFailure(p).client = proc[p].client
    BY <1>1 DEF AfterFailure, Proc
  <2> QED
    BY <1>1, <2>1, <2>2 DEF TokensMove
<1>4. CASE SaveToken(p)
  BY <1>1, <1>4 DEF SaveToken, TokensMove, Proc
<1>5. CASE Reset(p)
  BY <1>1, <1>5 DEF Reset, TokensMove, Proc
<1>6. CASE Start(p)
  BY <1>1, <1>6 DEF Start, TokensMove, Proc
<1>7. CASE CallRefused(p) \/ Note(p)
  BY <1>1, <1>7 DEF CallRefused, Note, TokensMove, Proc
<1>8. CASE Exit(p) \/ Crash(p)
  BY <1>1, <1>8 DEF Exit, Crash, Stopped, TokensMove, Proc
<1> QED
  BY <1>2, <1>3, <1>4, <1>5, <1>6, <1>7, <1>8 DEF OwnStep

LEMMA OwnStepConsole ==
  ASSUME NEW p \in Process, OwnStep(p)
  PROVE  UNCHANGED consoleVars
  BY DEF OwnStep, Ask, EnrolRefused, EnrolLost, SaveToken, Reset, Poll, PollEnds, Start,
     CallRefused, Note, Exit, Crash

LEMMA OwnStepMinted ==
  ASSUME TypeOK, TokensWereMinted, NEW p \in Process, OwnStep(p)
  PROVE  TokensWereMinted'
<1>1. TokensMove(p) /\ minted' = minted
  BY OwnStepMoves, OwnStepConsole DEF consoleVars
<1>2. At[p] \in Machine /\ minted \in Nat /\ 0 <= minted
  BY EnrolmentAssumption DEF EnrolmentAssumption, TypeOK
<1>3. proc[p].client <= minted /\ proc[p].reply <= minted /\ saved[At[p]] <= minted
  BY <1>2 DEF TokensWereMinted
<1>4. proc'[p].client <= minted /\ proc'[p].reply <= minted
  BY <1>1, <1>2, <1>3 DEF TokensMove, NoToken
<1>5. \A m \in Machine : saved'[m] <= minted
  BY <1>1, <1>3 DEF TokensMove, TokensWereMinted, TypeOK
<1>6. proc'[p].pc \in {"granted", "saved"} => proc'[p].reply # NoToken
  BY <1>1 DEF TokensMove, TokensWereMinted
<1>7. \A q \in Process \ {p} : proc'[q] = proc[q]
  BY <1>1 DEF TokensMove
<1> QED
  BY <1>1, <1>4, <1>5, <1>6, <1>7 DEF TokensWereMinted

\* After an enrolment its token is the machine's only one.
LEMMA EnrolledTokens ==
  ASSUME TypeOK, NEW p \in Process, Enrol(p)
  PROVE  /\ minted \in Nat /\ minted' = minted + 1 /\ minted' \in Token
         /\ issued'[minted'] = At[p]
         /\ \A t \in live' : t = minted' \/ (t \in live /\ issued'[t] = issued[t] /\ issued[t] # At[p])
<1>1. minted \in 0 .. MaxToken /\ minted < MaxToken /\ minted' = minted + 1
  BY DEF TypeOK, Enrol
<1>2. minted \in Nat /\ minted' \in Token
  BY <1>1, EnrolmentAssumption DEF Token, EnrolmentAssumption
<1>3. issued'[minted'] = At[p] /\ \A t \in Token \ {minted'} : issued'[t] = issued[t]
  BY <1>2 DEF Enrol, TypeOK
<1>4. \A t \in live' : t = minted' \/ (t \in live /\ issued[t] # At[p])
  BY DEF Enrol, Retained, LiveOf
<1>5. \A t \in live : t \in Token /\ t # minted'
  BY <1>1, EnrolmentAssumption DEF Token, TypeOK, EnrolmentAssumption
<1> QED
  BY <1>1, <1>2, <1>3, <1>4, <1>5

\* The other enrolments of the machine are marked.
LEMMA EnrolMarks ==
  ASSUME TypeOK, NEW p \in Process, Enrol(p)
  PROVE  /\ proc'[p].client = proc[p].client /\ proc'[p].reply = minted'
         /\ proc'[p].pc = "granted"
         /\ \A q \in Process \ {p} :
              /\ GoesOn(q)
              /\ At[q] = At[p] /\ proc[q].pc = "asking" => "issued" \in proc'[q].since
<1> DEFINE marked == Overtaken(At[p], "issued")
<1>1. At[p] \in Machine /\ proc[p] \in Proc
  BY EnrolmentAssumption DEF TypeOK, EnrolmentAssumption
<1>2. /\ marked \in [Process -> Proc]
      /\ \/ marked[p] = proc[p]
         \/ marked[p] = [proc[p] EXCEPT !.since = @ \cup {"issued"}]
  BY <1>1, OvertakenProcesses
<1>3. marked[p].client = proc[p].client
  BY <1>1, <1>2 DEF Proc
<1>4. proc' = [marked EXCEPT ![p].pc = "granted", ![p].reply = minted', ![p].since = {}]
  BY DEF Enrol
<1> HIDE DEF marked
<1>5. /\ proc'[p].client = proc[p].client /\ proc'[p].reply = minted'
      /\ proc'[p].pc = "granted"
  BY <1>2, <1>3, <1>4 DEF Proc
<1>6. \A q \in Process \ {p} : proc'[q] = Overtaken(At[p], "issued")[q]
  BY <1>2, <1>4 DEF marked
<1>7. \A q \in Process \ {p} :
        /\ GoesOn(q)
        /\ At[q] = At[p] /\ proc[q].pc = "asking" => "issued" \in proc'[q].since
  BY <1>1, <1>6, MarksGoOn
<1> QED
  BY <1>5, <1>7

LEMMA EnrolInv ==
  ASSUME EnrolmentInv, NEW p \in Process, Enrol(p)
  PROVE  EnrolmentInv'
<1> DEFINE new == minted'
<1>1. TypeOK /\ TypeOK'
  BY EnrolTypes DEF EnrolmentInv
<1>2. /\ minted \in Nat /\ minted' = minted + 1 /\ minted' \in Token
      /\ issued'[minted'] = At[p]
      /\ \A t \in live' : t = minted' \/ (t \in live /\ issued'[t] = issued[t] /\ issued[t] # At[p])
  BY <1>1, EnrolledTokens
<1>3. OneTokenPerMachine'
  <2>1. SUFFICES ASSUME NEW t \in live', NEW u \in live', issued'[t] = issued'[u]
                 PROVE  t = u
    BY DEF OneTokenPerMachine
  <2> QED
    BY <1>2, <2>1 DEF EnrolmentInv, OneTokenPerMachine
<1>4. TokensWereMinted'
  <2>1. \A m \in Machine : saved'[m] <= minted'
    <3>1. SUFFICES ASSUME NEW m \in Machine
                   PROVE  saved[m] <= minted'
      BY DEF Enrol
    <3>2. saved[m] <= minted /\ saved[m] \in Nat
      BY DEF EnrolmentInv, TypeOK, TokensWereMinted, Token, NoToken
    <3> QED
      BY <1>2, <3>2
  <2>2. /\ proc'[p].client = proc[p].client /\ proc'[p].reply = minted'
        /\ \A q \in Process \ {p} : /\ proc'[q].pc = proc[q].pc
                                    /\ proc'[q].client = proc[q].client
                                    /\ proc'[q].reply = proc[q].reply
    BY <1>1, EnrolMarks DEF GoesOn
  <2>3. \A q \in Process : proc[q].client <= minted' /\ proc[q].reply <= minted'
    <3>1. SUFFICES ASSUME NEW q \in Process
                   PROVE  proc[q].client <= minted' /\ proc[q].reply <= minted'
      OBVIOUS
    <3>2. proc[q].client \in Nat /\ proc[q].reply \in Nat
      BY <1>1 DEF TypeOK, Proc, Token, NoToken
    <3>3. proc[q].client <= minted /\ proc[q].reply <= minted
      BY DEF EnrolmentInv, TokensWereMinted
    <3> QED
      BY <1>2, <3>2, <3>3
  <2>4. minted' # NoToken /\ minted' <= minted'
    BY <1>2 DEF NoToken
  <2> QED
    BY <2>1, <2>2, <2>3, <2>4 DEF EnrolmentInv, TokensWereMinted
<1>5. LiveMachinesAreKnown'
  <2>1. device'[At[p]].known
    BY <1>1, EnrolmentAssumption DEF Enrol, Enrolled, TypeOK, Device, EnrolmentAssumption
  <2>2. \A m \in Machine \ {At[p]} : device'[m] = device[m]
    BY <1>1 DEF Enrol, TypeOK
  <2>3. \A t \in live : issued[t] \in Machine
    BY <1>1 DEF TypeOK
  <2> QED
    BY <1>2, <2>1, <2>2, <2>3 DEF EnrolmentInv, LiveMachinesAreKnown
<1> QED
  BY <1>1, <1>3, <1>4, <1>5 DEF EnrolmentInv

LEMMA InvStep ==
  ASSUME EnrolmentInv, [Next]_vars
  PROVE  EnrolmentInv'
<1>1. TypeOK /\ TypeOK'
  BY TypeStep DEF EnrolmentInv
<1>2. ASSUME NEW p \in Process, OwnStep(p)
      PROVE  EnrolmentInv'
  BY <1>1, <1>2, OwnStepMinted, OwnStepConsole
     DEF EnrolmentInv, OneTokenPerMachine, LiveMachinesAreKnown, consoleVars
<1>3. CASE ConsoleStep
  <2>1. TokensFade /\ saved' = saved /\ \A q \in Process : GoesOn(q)
    BY <1>1, <1>3, ConsoleFades, ConsoleMarks
  <2> QED
    BY <1>1, <2>1 DEF EnrolmentInv, GoesOn, OneTokenPerMachine, TokensWereMinted, LiveMachinesAreKnown,
       TokensFade, TypeOK
<1>4. CASE DiskStep
  <2>1. UNCHANGED consoleVars
    BY <1>4 DEF DiskStep, Wipe, Clone
  <2>2. \A m \in Machine : saved'[m] = NoToken \/ \E n \in Machine : saved'[m] = saved[n]
    BY <1>1, <1>4 DEF DiskStep, Wipe, Clone, TypeOK
  <2>3. \A q \in Process : proc'[q] = proc[q] \/ proc'[q] = Stopped
    BY <1>1, <1>4 DEF DiskStep, Wipe, Clone, TypeOK
  <2>4. NoToken <= minted
    BY <1>1 DEF TypeOK, NoToken
  <2> QED
    BY <1>1, <2>1, <2>2, <2>3, <2>4 DEF EnrolmentInv, OneTokenPerMachine, TokensWereMinted,
       LiveMachinesAreKnown, consoleVars, Stopped
<1>5. CASE UNCHANGED vars
  BY <1>1, <1>5 DEF vars, consoleVars, EnrolmentInv, OneTokenPerMachine, TokensWereMinted,
     LiveMachinesAreKnown
<1> QED
  BY <1>2, <1>3, <1>4, <1>5, EnrolInv, StepsAre

\* A machine has at most one live token, every token in use or in a file was
\* issued, and only machines that are known have one.
THEOREM EnrolmentInvariance == Spec => []EnrolmentInv
<1>1. Init => EnrolmentInv
  <2>1. Init => TypeOK
    BY InitTypes
  <2> QED
    BY <2>1, EnrolmentAssumption DEF Init, EnrolmentInv, OneTokenPerMachine, TokensWereMinted,
       LiveMachinesAreKnown, Stopped, NoToken, EnrolmentAssumption
<1>2. EnrolmentInv /\ [Next]_vars => EnrolmentInv'
  BY InvStep
<1> QED
  BY <1>1, <1>2, PTL DEF Spec

\* Two enrolments of one machine never leave it with two tokens that work.
THEOREM OneToken == Spec => []OneTokenPerMachine
<1>1. EnrolmentInv => OneTokenPerMachine
  BY DEF EnrolmentInv
<1> QED
  BY <1>1, EnrolmentInvariance, PTL

-----------------------------------------------------------------------------
(* What an enrolment has read, and who is let in by it.                    *)

\* ReadStillHolds for one process.
ReadingHolds(q) ==
  proc[q].pc = "asking" =>
    /\ "issued" \notin proc[q].since =>
         /\ ~proc[q].before.known => LiveOf(At[q]) = {}
         /\ proc[q].before.window = "open" => device[At[q]].window # "none"
    /\ "forgotten" \notin proc[q].since /\ device[At[q]].revoked =>
         /\ proc[q].before.revoked
         /\ proc[q].before.window = "open" => device[At[q]].window # "none"

\* A process that asks knows what the console has of its machine now.
LEMMA AskReads ==
  ASSUME EnrolmentInv, NEW p \in Process, Ask(p)
  PROVE  ReadingHolds(p)'
<1>1. proc \in [Process -> Proc] /\ proc[p] \in Proc /\ At[p] \in Machine
  BY EnrolmentAssumption DEF EnrolmentInv, TypeOK, EnrolmentAssumption
<1>2. /\ proc'[p].before = device[At[p]]
      /\ device' = device /\ issued' = issued /\ live' = live
  BY <1>1 DEF Ask, consoleVars, Proc
<1>3. ~device[At[p]].known => LiveOf(At[p]) = {}
  BY <1>1 DEF EnrolmentInv, LiveMachinesAreKnown, LiveOf
<1> QED
  BY <1>2, <1>3 DEF ReadingHolds, LiveOf

LEMMA OwnStepReads ==
  ASSUME EnrolmentInv, NEW p \in Process, ReadingHolds(p), OwnStep(p)
  PROVE  ReadingHolds(p)'
<1>1. proc \in [Process -> Proc] /\ proc[p] \in Proc
  BY DEF EnrolmentInv, TypeOK
<1>2. device' = device /\ issued' = issued /\ live' = live
  BY OwnStepConsole DEF consoleVars
<1>3. LiveOf(At[p])' = LiveOf(At[p])
  BY <1>2 DEF LiveOf
<1>4. CASE CallRefused(p) \/ Note(p)
  <2>1. /\ proc'[p].pc = proc[p].pc /\ proc'[p].before = proc[p].before
        /\ proc'[p].since = proc[p].since
    BY <1>1, <1>4 DEF CallRefused, Note, Proc
  <2> QED
    BY <1>2, <1>3, <2>1 DEF ReadingHolds
<1>5. CASE ~(CallRefused(p) \/ Note(p) \/ Ask(p))
  <2>1. CASE EnrolRefused(p) \/ EnrolLost(p)
    <3>1. AfterFailure(p).pc \in {"loop", "over"}
      BY <1>1 DEF AfterFailure, Proc
    <3>2. proc'[p] = AfterFailure(p)
      BY <1>1, <2>1 DEF EnrolRefused, EnrolLost
    <3> QED
      BY <3>1, <3>2 DEF ReadingHolds
  <2>2. CASE ~(EnrolRefused(p) \/ EnrolLost(p))
    <3>1. proc'[p].pc \in {"off", "loop", "saved", "polling"}
      <4>1. CASE Exit(p) \/ Crash(p)
        BY <1>1, <4>1 DEF Exit, Crash, Stopped
      <4>2. CASE Poll(p)
        BY <1>1, <4>2 DEF Poll, Proc
      <4>3. CASE SaveToken(p) \/ Reset(p) \/ PollEnds(p) \/ Start(p)
        BY <1>1, <4>3 DEF SaveToken, Reset, PollEnds, Start, Proc
      <4> QED
        BY <1>5, <2>2, <4>1, <4>2, <4>3 DEF OwnStep
    <3> QED
      BY <3>1 DEF ReadingHolds
  <2> QED
    BY <2>1, <2>2
<1> QED
  BY <1>4, <1>5, AskReads

\* An enrolment ends the readings of the others of its machine, and marks them.
LEMMA EnrolReads ==
  ASSUME EnrolmentInv, NEW p \in Process, NEW q \in Process, ReadingHolds(q), Enrol(p)
  PROVE  ReadingHolds(q)'
<1>1. TypeOK /\ At[p] \in Machine /\ At[q] \in Machine
  BY EnrolmentAssumption DEF EnrolmentInv, TypeOK, EnrolmentAssumption
<1>2. CASE q = p
  BY <1>1, <1>2, EnrolMarks DEF ReadingHolds
<1>3. CASE q # p
  <2>1. /\ GoesOn(q)
        /\ At[q] = At[p] /\ proc[q].pc = "asking" => "issued" \in proc'[q].since
    BY <1>1, <1>3, EnrolMarks
  <2>2. CASE At[q] = At[p]
    <3>1. ~device'[At[q]].revoked
      BY <1>1, <2>2 DEF Enrol, Enrolled, TypeOK, Device
    <3> QED
      BY <2>1, <2>2, <3>1 DEF ReadingHolds, GoesOn
  <2>3. CASE At[q] # At[p]
    <3>1. /\ issued'[minted'] = At[p]
          /\ \A t \in live' : t = minted' \/ (t \in live /\ issued'[t] = issued[t])
      BY <1>1, EnrolledTokens
    <3>2. LiveOf(At[q])' \subseteq LiveOf(At[q])
      BY <2>3, <3>1 DEF LiveOf
    <3>3. device'[At[q]] = device[At[q]]
      BY <1>1, <2>3 DEF Enrol, TypeOK
    <3> QED
      BY <2>1, <3>2, <3>3 DEF ReadingHolds, GoesOn
  <2> QED
    BY <2>2, <2>3
<1> QED
  BY <1>2, <1>3

LEMMA ReadStep ==
  ASSUME EnrolmentInv, ReadStillHolds, [Next]_vars
  PROVE  ReadStillHolds'
<1>1. TypeOK
  BY DEF EnrolmentInv
<1>2. SUFFICES ASSUME NEW q \in Process
               PROVE  ReadingHolds(q)'
  BY DEF ReadStillHolds, ReadingHolds
<1>3. ReadingHolds(q) /\ At[q] \in Machine
  BY EnrolmentAssumption DEF ReadStillHolds, ReadingHolds, EnrolmentAssumption
<1>4. ASSUME NEW p \in Process, OwnStep(p)
      PROVE  ReadingHolds(q)'
  <2>1. CASE p = q
    BY <1>3, <1>4, <2>1, OwnStepReads
  <2>2. CASE p # q
    <3>1. proc'[q] = proc[q] /\ UNCHANGED consoleVars
      BY <1>1, <1>4, <2>2, OwnStepMoves, OwnStepConsole DEF TokensMove
    <3> QED
      BY <1>3, <3>1 DEF ReadingHolds, consoleVars, LiveOf
  <2> QED
    BY <2>1, <2>2
<1>5. CASE ConsoleStep
  <2>1. /\ TokensFade /\ GoesOn(q)
        /\ proc[q].pc = "asking" /\ device'[At[q]].revoked =>
             device[At[q]].revoked \/ "forgotten" \in proc'[q].since
    BY <1>1, <1>5, ConsoleFades, ConsoleMarks
  <2>2. LiveOf(At[q])' \subseteq LiveOf(At[q])
    BY <2>1 DEF TokensFade, LiveOf
  <2>3. device[At[q]].window # "none" => device'[At[q]].window # "none"
    BY <1>3, <2>1 DEF TokensFade
  <2> QED
    BY <1>3, <2>1, <2>2, <2>3 DEF ReadingHolds, GoesOn
<1>6. CASE DiskStep
  <2>1. LiveOf(At[q])' = LiveOf(At[q]) /\ device' = device
    BY <1>6 DEF DiskStep, Wipe, Clone, consoleVars, LiveOf
  <2>2. proc'[q] = proc[q] \/ proc'[q] = Stopped
    BY <1>1, <1>6 DEF DiskStep, Wipe, Clone, TypeOK
  <2> QED
    BY <1>3, <2>1, <2>2 DEF ReadingHolds, Stopped
<1>7. CASE UNCHANGED vars
  BY <1>3, <1>7 DEF vars, consoleVars, ReadingHolds, LiveOf
<1> QED
  BY <1>3, <1>4, <1>5, <1>6, <1>7, EnrolReads, StepsAre

\* However many processes of a machine enrol at once, what one of them read of
\* its row holds until the machine is given a token, or forgotten.
THEOREM ReadingsInvariance == Spec => []ReadStillHolds
<1>1. Init => ReadStillHolds
  BY DEF Init, ReadStillHolds, Stopped
<1>2. EnrolmentInv /\ ReadStillHolds /\ [Next]_vars => ReadStillHolds'
  BY ReadStep
<1> QED
  BY <1>1, <1>2, EnrolmentInvariance, PTL DEF Spec

\* An enrolment that ends a token, or takes a forgotten machine back, came
\* through a window, or had read the row before.
LEMMA WhoIsLetIn ==
  ASSUME EnrolmentInv, ReadStillHolds, NEW p \in Process, Enrol(p)
  PROVE  /\ LiveOf(At[p]) # {} => device[At[p]].window # "none" \/ EnrolsLate(At[p], "issued")
         /\ device[At[p]].revoked =>
              device[At[p]].window # "none" \/ EnrolsLate(At[p], "forgotten")
<1>1. proc[p].pc = "asking" /\ Admitted(p)
  BY DEF Enrol
<1>2. proc'[p].pc = "granted"
  BY EnrolMarks DEF EnrolmentInv
<1>3. /\ "issued" \in proc[p].since => EnrolsLate(At[p], "issued")
      /\ "forgotten" \in proc[p].since => EnrolsLate(At[p], "forgotten")
  BY <1>1, <1>2 DEF EnrolsLate
<1>4. CASE LiveOf(At[p]) # {} /\ "issued" \notin proc[p].since
  <2>1. device[At[p]].window # "none"
    BY <1>1, <1>4 DEF ReadStillHolds, Admitted, Admits
  <2> QED
    BY <2>1
<1>5. CASE device[At[p]].revoked /\ "forgotten" \notin proc[p].since
  <2>1. device[At[p]].window # "none"
    BY <1>1, <1>5 DEF ReadStillHolds, Admitted, Admits
  <2> QED
    BY <2>1
<1>6. LiveOf(At[p]) # {} => device[At[p]].window # "none" \/ EnrolsLate(At[p], "issued")
  BY <1>3, <1>4
<1>7. device[At[p]].revoked => device[At[p]].window # "none" \/ EnrolsLate(At[p], "forgotten")
  BY <1>3, <1>5
<1> QED
  BY <1>6, <1>7

\* What ends tokens.
LEMMA ConsentStep ==
  ASSUME EnrolmentInv, ReadStillHolds, [Next]_vars, NEW t \in live \ live'
  PROVE  \/ device[issued[t]].window # "none"
         \/ device'[issued[t]].window = "open"
         \/ device'[issued[t]].revoked
         \/ EnrolsLate(issued[t], "issued")
<1>1. TypeOK /\ issued[t] \in Machine /\ t \in live /\ t \notin live'
  BY DEF EnrolmentInv, TypeOK
<1>2. ASSUME NEW p \in Process, Enrol(p)
      PROVE  device[issued[t]].window # "none" \/ EnrolsLate(issued[t], "issued")
  <2>1. t \in LiveOf(At[p]) /\ issued[t] = At[p]
    BY <1>1, <1>2 DEF Enrol, Retained, LiveOf
  <2>2. device[At[p]].window # "none" \/ EnrolsLate(At[p], "issued")
    BY <1>2, <2>1, WhoIsLetIn
  <2> QED
    BY <2>1, <2>2
<1>3. ASSUME NEW p \in Process, OwnStep(p)
      PROVE  FALSE
  BY <1>1, <1>3, OwnStepConsole DEF consoleVars
<1>4. ASSUME NEW m \in Machine, Console(m)
      PROVE  device'[issued[t]].window = "open"
  <2>1. RevokeDeviceToken(m)
    BY <1>1, <1>4 DEF Console, AllowReenrol, ForgetMachine, BindMachine, ImportStatus, PruneLooks,
       WindowExpires, WeekPasses, consoleVars
  <2>2. issued[t] = m
    BY <1>1, <2>1 DEF RevokeDeviceToken, Tokens, LiveOf
  <2>3. device[m] \in Device
    BY <1>1 DEF TypeOK
  <2> QED
    BY <1>1, <2>1, <2>2, <2>3 DEF RevokeDeviceToken, TypeOK, Device
<1>5. CASE PruneForgets
  <2>1. issued[t] = pruning
    BY <1>1, <1>5 DEF PruneForgets, Tokens, LiveOf
  <2>2. device[pruning] \in Device
    BY <1>1, <2>1 DEF TypeOK
  <2> QED
    BY <1>1, <1>5, <2>1, <2>2 DEF PruneForgets, TypeOK, Device
<1>6. CASE DiskStep \/ UNCHANGED vars
  BY <1>1, <1>6 DEF DiskStep, Wipe, Clone, vars, consoleVars
<1> QED
  BY <1>2, <1>3, <1>4, <1>5, <1>6, StepsAre DEF ConsoleStep

LEMMA WindowStep ==
  ASSUME EnrolmentInv, ReadStillHolds, [Next]_vars, NEW m \in Machine, TakenBack(m)
  PROVE  device[m].window # "none" \/ EnrolsLate(m, "forgotten")
<1>1. TypeOK /\ device[m].revoked /\ ~device'[m].revoked
  BY DEF EnrolmentInv, TakenBack
<1>2. ASSUME NEW p \in Process, Enrol(p)
      PROVE  device[m].window # "none" \/ EnrolsLate(m, "forgotten")
  <2>1. At[p] = m
    BY <1>1, <1>2 DEF Enrol, TypeOK
  <2> QED
    BY <1>1, <1>2, <2>1, WhoIsLetIn
<1>3. ASSUME NEW p \in Process, OwnStep(p)
      PROVE  FALSE
  BY <1>1, <1>3, OwnStepConsole DEF consoleVars
<1>4. CASE ConsoleStep
  BY <1>1, <1>4, ConsoleFades DEF TokensFade
<1>5. CASE DiskStep \/ UNCHANGED vars
  BY <1>1, <1>5 DEF DiskStep, Wipe, Clone, vars, consoleVars
<1> QED
  BY <1>2, <1>3, <1>4, <1>5, StepsAre

\* A machine's token ends only by an act of the administrator, by pruning, by
\* its own enrolment through a window, or by one that overlapped with the
\* enrolment the token was issued to.
THEOREM Consent == Spec => TokensEndByConsent
<1>1. EnrolmentInv /\ ReadStillHolds /\ [Next]_vars =>
        [\A t \in live \ live' :
           \/ device[issued[t]].window # "none"
           \/ device'[issued[t]].window = "open"
           \/ device'[issued[t]].revoked
           \/ EnrolsLate(issued[t], "issued")]_vars
  BY ConsentStep
<1> QED
  BY <1>1, EnrolmentInvariance, ReadingsInvariance, PTL DEF Spec, TokensEndByConsent

\* A machine that was forgotten or pruned is taken back only through a window,
\* or by an enrolment that had read its row before.
THEOREM ThroughTheWindow == Spec => BackThroughAWindow
<1>1. EnrolmentInv /\ ReadStillHolds /\ [Next]_vars =>
        [\A m \in Machine :
           TakenBack(m) => device[m].window # "none" \/ EnrolsLate(m, "forgotten")]_vars
  BY WindowStep
<1> QED
  BY <1>1, EnrolmentInvariance, ReadingsInvariance, PTL DEF Spec, BackThroughAWindow
=============================================================================
