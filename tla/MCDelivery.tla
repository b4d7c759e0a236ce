----------------------------- MODULE MCDelivery -----------------------------
(***************************************************************************)
(* Delivery on a small instance: two employees with a Windows user each.   *)
(* Two stories: in "desk" the agent and Windows have the mishaps and Codex *)
(* runs, on a machine that is nobody's or a's to begin with; in "console"  *)
(* accounts can be opened again and machines forgotten, the console or the *)
(* bucket fails and the bucket channel, which the machine is on there, is  *)
(* switched off.                                                           *)
(***************************************************************************)
EXTENDS Delivery, TLC

CONSTANTS a, b, ua, ub

VARIABLE story

OwnNames == a :> ua @@ b :> ub

MCInit ==
  /\ Init /\ story \in {"desk", "console"}
  /\ story = "desk" => \A d \in Device : machine[d].holder # b
  /\ story = "console" => \A d \in Device : machine[d].holder = Nobody /\ agent[d].channel = "oss"

Loops == \E w \in Worker : Claim(w) \/ Work(w)

Desk ==
  \/ /\ Console /\ UNCHANGED writing
     /\ \A e \in Employee : account'[e].epoch < MaxEpoch
     /\ \A d \in Device : ~machine'[d].gone
  \/ Loops
  \/ \E d \in Desks :
       \/ Cycle(d) \/ NoAnswer(d) \/ WithdrawFails(d) \/ DeployFails(d) \/ RevokeFails(d)
       \/ StopCodexFails(d) \/ RestartAgent(d)
  \/ People

ConsoleFails ==
  \/ Console /\ UNCHANGED asker
  \/ Loops
  \/ CrashConsole \/ \E w \in Worker : Lapse(w) \/ FailWrite(w) \/ RefuseExport(w)
  \/ \E d \in Desks : Cycle(d) \/ BeginCycleBlind(d)
  \/ \E d \in Desks, u \in User : SignIn(d, u)

MCNext ==
  \/ story = "desk" /\ Desk /\ UNCHANGED story
  \/ story = "console" /\ ConsoleFails /\ UNCHANGED story

MCFairSpec == MCInit /\ [][MCNext]_<<vars, story>> /\ Fairness
=============================================================================
