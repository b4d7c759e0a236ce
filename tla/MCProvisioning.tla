--------------------------- MODULE MCProvisioning ---------------------------
(***************************************************************************)
(* An instance of Provisioning for TLC that tells three stories, because   *)
(* the product of their bounds is out of reach: in "loops" two loops work  *)
(* beside each other, with one edit of the models or a key that the        *)
(* gateway loses; in "edits" at most one loop is busy, with two edits and  *)
(* another mishap; in "mishaps" one fair loop has the mishaps of the cfg.  *)
(***************************************************************************)
EXTENDS Provisioning, TLC

VARIABLE story

MCInit == Init /\ story \in {"loops", "edits"}

\* A mishap of this step is a key lost by the gateway.
LosesKey == mishaps' # mishaps /\ (\E k \in Epoch : KeyLost(k))

MCNext ==
  /\ Next
  /\ IF story = "loops"
     THEN edits' + mishaps' <= 1 /\ (IF mishaps' = mishaps THEN TRUE ELSE LosesKey)
     ELSE /\ Cardinality({w \in Worker : hand'[w].pc # "idle"}) <= 1
          /\ ~LosesKey
  /\ UNCHANGED story

MCSpec == MCInit /\ [][MCNext]_<<vars, story>>

MishapInit == Init /\ story = "mishaps"
MishapNext == Next /\ UNCHANGED story
MishapSpec == MishapInit /\ [][MishapNext]_<<vars, story>> /\ Fairness

\* With one loop at a time, the models chosen last reach the key.  With two,
\* a handler may push models that it read before another edit.
EditsConverge == story = "edits" => ModelsConverge

MCSymmetry == Permutations(Worker) \cup Permutations(Models)
=============================================================================
