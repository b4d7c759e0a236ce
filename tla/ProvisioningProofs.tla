------------------------- MODULE ProvisioningProofs -------------------------
(***************************************************************************)
(* Proofs about Provisioning, for every set of loops and models and every  *)
(* value of the bounds.                                                    *)
(***************************************************************************)
EXTENDS MCProvisioning, FiniteSetTheorems, TLAPS

-----------------------------------------------------------------------------
(* Types.                                                                  *)

LEMMA JobTypes ==
  /\ \A j \in Job : j.kind = "provision" => j.epoch \in Epoch
  /\ \A j \in Job : j.epoch \in Nat
  /\ NoJob.kind = "none" /\ NoJob.epoch = 0
  BY DEF Job, Provision, Revoke, Remove, Reconcile, NoJob, Epoch

LEMMA SettleType ==
  ASSUME Board!BoardTypeOK, NEW J, NEW S, \A j \in J : S[j] \in Board!JobState,
         Board!Settle(J, S)
  PROVE  Board!BoardTypeOK'
  BY DEF Board!BoardTypeOK, Board!Settle

LEMMA PostType ==
  ASSUME Board!BoardTypeOK, NEW j, Board!Post(j)
  PROVE  Board!BoardTypeOK'
<1>1. \A i \in {j} : [k \in {j} |-> "waiting"][i] \in Board!JobState
  BY DEF Board!JobState
<1> QED
  BY <1>1, SettleType DEF Board!Post

LEMMA SupersedeType ==
  ASSUME Board!BoardTypeOK, NEW k, NEW j, SupersedeAndEnqueue(k, j)
  PROVE  Board!BoardTypeOK'
<1> DEFINE new == IF state[j] \in {"absent", "failed"} THEN {j} ELSE {}
           J == OpenJobsBelow(k) \cup new
           S == [i \in J |-> IF i = j THEN "waiting" ELSE "dropped"]
<1>1. \A i \in J : S[i] \in Board!JobState
  BY DEF Board!JobState
<1>2. Board!Settle(J, S)
  BY DEF SupersedeAndEnqueue
<1> HIDE DEF J, S
<1> QED
  BY <1>1, <1>2, SettleType

LEMMA MishapCounts ==
  ASSUME TypeOK, NEW m, Mishap(m)
  PROVE  mishaps' \in 0 .. MaxMishaps
  BY ProvisioningAssumption DEF TypeOK, Mishap, ProvisioningAssumption

-----------------------------------------------------------------------------
(* Steps by what they leave alone.                                         *)

\* No grant is made, revoked or given another token.
GrantsKept ==
  /\ grant' \in [Epoch -> Grant]
  /\ \A k \in Epoch : grant'[k].desired = grant[k].desired /\ grant'[k].cred = grant[k].cred

LEMMA UnchangedGrantsKept ==
  ASSUME TypeOK, UNCHANGED grant
  PROVE  GrantsKept
  BY DEF TypeOK, GrantsKept

LEMMA RecordsKept ==
  ASSUME ProvisioningInv, GrantsKept, UNCHANGED <<status, epoch, cred, raced>>
  PROVE  OneActiveGrant' /\ ActiveGrantHoldsLiveCredential' /\ GrantMatchesAccount' /\ NoTokenForLeavers'
  BY DEF ProvisioningInv, GrantsKept, OneActiveGrant, ActiveGrantHoldsLiveCredential,
         GrantMatchesAccount, NoTokenForLeavers

\* Steps of the queue and the gateway alone.
LEMMA OutsideStep ==
  ASSUME ProvisioningInv, UNCHANGED <<status, epoch, recordVars, hand, raced, unpushed>>,
         wanted' \in Models \cup {NoModels}, edits' \in 0 .. MaxEdits,
         key' \in [Epoch -> Key], Board!BoardTypeOK', mishaps' \in 0 .. MaxMishaps
  PROVE  ProvisioningInv'
<1>1. GrantsKept /\ UNCHANGED cred
  BY UnchangedGrantsKept DEF ProvisioningInv, recordVars
<1>2. TypeOK'
  BY DEF ProvisioningInv, TypeOK, recordVars
<1>3. HandsAreTimely'
  BY DEF ProvisioningInv, HandsAreTimely, Timely
<1> QED
  BY <1>1, <1>2, <1>3, RecordsKept DEF ProvisioningInv

\* The hand of w goes to p with its job.
Moves(w, p) ==
  /\ hand' \in [Worker -> Hand]
  /\ \A v \in Worker : v # w => hand'[v] = hand[v]
  /\ hand'[w].pc = p
  /\ hand'[w].job = hand[w].job

\* Steps of one handler that may get from where it is to p.
LEMMA HandStep ==
  ASSUME ProvisioningInv, NEW w \in Worker, NEW p \in Pc \ {"idle"}, Moves(w, p),
         GrantsKept, UNCHANGED <<accountVars, cred, raced>>, unpushed' \in SUBSET Epoch,
         key' \in [Epoch -> Key], Board!BoardTypeOK', mishaps' \in 0 .. MaxMishaps,
         \/ p \in Returned
         \/ hand[w].pc \notin {"load"} \cup Returned
         \/ hand[w].job.epoch = epoch /\ status = "active",
         p \in ProvisionPcs => hand[w].job.kind = "provision",
         p \in {"update", "reread", "commit", "takeback", "withdraw"} => hand'[w].token # NoToken,
         p = "commit" => hand[w].job.epoch = epoch /\ hand[w].pc \notin {"load"} \cup Returned
  PROVE  ProvisioningInv'
<1> USE DEF ProvisioningInv
<1>1. HandFitsItsPlace(hand'[w])
  BY DEF Moves, HandFitsItsPlace
<1>2. \A v \in Worker : HandFitsItsPlace(hand'[v])
  BY <1>1 DEF Moves, TypeOK
<1>3. TypeOK'
  BY <1>2 DEF TypeOK, Moves, GrantsKept, accountVars
<1>4. epoch \in Nat /\ hand[w].job.epoch \in Nat
  BY JobTypes DEF TypeOK, Hand, NoJob
<1>5. Timely(hand[w])
  BY DEF HandsAreTimely
<1>6. Timely(hand[w])'
  <2>1. hand'[w].pc = p /\ hand'[w].job = hand[w].job /\ UNCHANGED <<epoch, status, raced>>
    BY DEF Moves, accountVars
  <2>2. p = "commit" => hand[w].job.kind = "provision"
    BY DEF ProvisionPcs
  <2> QED
    BY <1>4, <1>5, <2>1, <2>2 DEF Timely
<1>7. HandsAreTimely'
  <2>1. \A v \in Worker \ {w} : Timely(hand[v])'
    BY DEF Moves, HandsAreTimely, Timely, accountVars
  <2> QED
    BY <1>6, <2>1 DEF HandsAreTimely
<1>8. OneActiveGrant' /\ ActiveGrantHoldsLiveCredential' /\ GrantMatchesAccount' /\ NoTokenForLeavers'
  BY RecordsKept DEF accountVars
<1> QED
  BY <1>3, <1>7, <1>8

LEMMA GotoMoves ==
  ASSUME TypeOK, NEW w \in Worker, NEW p \in Pc, Goto(w, p)
  PROVE  Moves(w, p) /\ hand'[w].token = hand[w].token
  BY DEF TypeOK, Goto, Moves, Hand

LEMMA GotoKeepsTodo ==
  ASSUME TypeOK, NEW w \in Worker, NEW p \in Pc, Goto(w, p)
  PROVE  hand'[w].todo = hand[w].todo
<1>1. hand'[w] = [hand[w] EXCEPT !.pc = p] /\ hand[w] \in Hand
  BY DEF TypeOK, Goto
<1> QED BY <1>1 DEF Hand

LEMMA HandMoves ==
  ASSUME TypeOK, NEW w \in Worker, NEW h \in Hand, hand' = [hand EXCEPT ![w] = h],
         h.job = hand[w].job
  PROVE  Moves(w, h.pc) /\ hand'[w] = h
  BY DEF TypeOK, Moves

LEMMA EmptyIsHand == EmptyHand \in Hand
  BY DEF EmptyHand, Hand, Pc, NoToken

LEMMA ReturnMoves ==
  ASSUME TypeOK, NEW w \in Worker, NEW p \in Returned, Return(w, p)
  PROVE  Moves(w, p)
<1> DEFINE h == [EmptyHand EXCEPT !.job = hand[w].job, !.pc = p]
<1>1. h \in Hand /\ h.pc = p /\ h.job = hand[w].job
  BY EmptyIsHand DEF Hand, TypeOK, Returned, Pc
<1>2. hand' = [hand EXCEPT ![w] = h]
  BY DEF Return
<1> HIDE DEF h
<1> QED
  BY <1>1, <1>2 DEF TypeOK, Moves

\* A handler that returns may do so from anywhere.
LEMMA ReturnStep ==
  ASSUME ProvisioningInv, NEW w \in Worker, NEW p \in Returned, Return(w, p),
         GrantsKept, UNCHANGED <<accountVars, cred, raced>>, unpushed' \in SUBSET Epoch,
         key' \in [Epoch -> Key], Board!BoardTypeOK', mishaps' \in 0 .. MaxMishaps
  PROVE  ProvisioningInv'
<1>1. Moves(w, p)
  BY ReturnMoves DEF ProvisioningInv
<1>2. p \in Pc \ {"idle"} /\ p \notin ProvisionPcs
      /\ p \notin {"update", "reread", "commit", "takeback", "withdraw"}
  BY DEF Returned, Pc, ProvisionPcs
<1> QED
  BY <1>1, <1>2, HandStep

-----------------------------------------------------------------------------
(* The steps of the handlers.                                              *)

LEMMA HandlerFrame ==
  ASSUME ProvisioningInv, UNCHANGED <<accountVars, boardVars, mishaps, raced>>
  PROVE  /\ UNCHANGED <<accountVars, boardVars, raced>>
         /\ Board!BoardTypeOK' /\ mishaps' \in 0 .. MaxMishaps
  BY DEF boardVars, Board!BoardTypeOK, ProvisioningInv, TypeOK

LEMMA MostHandlersFrame ==
  ASSUME ProvisioningInv, UNCHANGED unchangedByHandlers
  PROVE  UNCHANGED <<accountVars, boardVars, mishaps, raced>> /\ unpushed' \in SUBSET Epoch
  BY DEF unchangedByHandlers, ProvisioningInv, TypeOK

\* Between two steps of a handler's work.
LEMMA WorkStep ==
  ASSUME ProvisioningInv, UNCHANGED unchangedByHandlers, NEW w \in Worker,
         NEW p \in Pc \ {"idle", "commit"}, Moves(w, p),
         hand[w].pc \notin {"load"} \cup Returned,
         GrantsKept, UNCHANGED cred, key' \in [Epoch -> Key],
         p \in ProvisionPcs => hand[w].job.kind = "provision",
         p \in {"update", "reread", "takeback", "withdraw"} => hand'[w].token # NoToken
  PROVE  ProvisioningInv'
  BY MostHandlersFrame, HandlerFrame, HandStep

LEMMA WorkReturns ==
  ASSUME ProvisioningInv, UNCHANGED unchangedByHandlers, NEW w \in Worker, NEW p \in Returned,
         Return(w, p), GrantsKept, UNCHANGED cred, key' \in [Epoch -> Key]
  PROVE  ProvisioningInv'
  BY MostHandlersFrame, HandlerFrame, ReturnStep

\* What the steps may take for granted of what they leave alone.
LEMMA Frame ==
  ASSUME ProvisioningInv
  PROVE  /\ key \in [Epoch -> Key] /\ hand \in [Worker -> Hand]
         /\ UNCHANGED recordVars => GrantsKept /\ UNCHANGED cred
         /\ \A k \in Epoch : [key EXCEPT ![k] = NoKey] \in [Epoch -> Key]
         /\ \A w \in Worker : hand[w].pc \in ProvisionPcs =>
              hand[w].job.kind = "provision" /\ hand[w].job.epoch \in Epoch
<1>1. UNCHANGED recordVars => GrantsKept /\ UNCHANGED cred
  BY UnchangedGrantsKept DEF ProvisioningInv, recordVars
<1>2. NoKey \in Key
  BY DEF NoKey, Key
<1>3. \A w \in Worker : hand[w].pc \in ProvisionPcs =>
        hand[w].job.kind = "provision" /\ hand[w].job.epoch \in Epoch
  BY JobTypes DEF ProvisioningInv, TypeOK, HandFitsItsPlace, Hand
<1> QED
  BY <1>1, <1>2, <1>3 DEF ProvisioningInv, TypeOK

\* Where the handlers can be found.
LEMMA Places ==
  /\ ProvisionPcs \subseteq Pc \ {"idle"} /\ Returned \subseteq Pc \ {"idle"}
  /\ {"list", "retire", "look", "repair", "record"} \subseteq Pc \ {"idle"}
  /\ Returned \cap ProvisionPcs = {} /\ Returned \cap {"list", "retire", "look", "repair", "record"} = {}
  /\ ProvisionPcs \cap {"list", "retire", "look", "repair", "record"} = {}
  BY DEF Pc, ProvisionPcs, Returned

LEMMA ProvisionPlaces ==
  /\ {"check", "match", "update", "note", "find", "unkey", "mint", "reread", "commit",
      "takeback", "withdraw"} \subseteq ProvisionPcs
  /\ {"check", "match", "note", "find", "unkey", "mint"}
       \cap {"update", "reread", "takeback", "withdraw", "commit"} = {}
  /\ "load" \notin {"check", "match", "update", "note", "find", "unkey", "mint", "reread",
                    "commit", "takeback", "withdraw"}
  /\ {"ok", "retry", "permanent"} \subseteq Returned
  BY DEF ProvisionPcs, Returned

LEMMA ListGrantsInv ==
  ASSUME ProvisioningInv, NEW w \in Worker, ListGrants(w) PROVE ProvisioningInv'
<1> DEFINE p == IF hand[w].job.kind = "reconcile" THEN "look" ELSE "retire"
           K == IF hand[w].job.kind = "reconcile" THEN {k \in Epoch : grant[k].desired # "none"} ELSE ToRetire
           T == {[epoch |-> k, desired |-> grant[k].desired] : k \in K}
<1>1. T \in SUBSET Listed
  <2>1. \A k \in K : k \in Epoch /\ grant[k].desired \in {"active", "revoked"}
    BY DEF ProvisioningInv, TypeOK, Grant, ToRetire
  <2> QED
    BY <2>1 DEF Listed
<1>2. p \in {"look", "retire"}
  OBVIOUS
<1>3. hand' = [hand EXCEPT ![w].todo = T, ![w].pc = p] /\ hand[w].pc = "list"
  BY DEF ListGrants
<1> HIDE DEF p, T
<1>4. Moves(w, p)
  BY <1>1, <1>2, <1>3, Frame, Places DEF Moves, Hand
<1> QED
  BY <1>2, <1>3, <1>4, Frame, Places, WorkStep DEF ListGrants, gatewayVars

LEMMA LeaveLoopInv ==
  ASSUME ProvisioningInv, UNCHANGED unchangedByHandlers, NEW w \in Worker, LeaveLoop(w),
         hand[w].pc \in {"retire", "look"},
         UNCHANGED <<recordVars>>, key' \in [Epoch -> Key]
  PROVE  ProvisioningInv'
<1>1. CASE hand[w].job.kind = "provision"
  <2>1. Moves(w, "check")
    BY <1>1, Frame DEF LeaveLoop, Moves, Hand, Pc
  <2>2. "check" \in ProvisionPcs \ {"commit", "update", "reread", "takeback", "withdraw"}
    BY DEF ProvisionPcs
  <2> QED
    BY <1>1, <2>1, <2>2, Frame, Places, WorkStep
<1>2. CASE hand[w].job.kind # "provision"
  BY <1>2, Frame, WorkReturns DEF LeaveLoop, Returned
<1> QED
  BY <1>1, <1>2

LEMMA retireOldKeysInv ==
  ASSUME ProvisioningInv, NEW w \in Worker, retireOldKeys(w) PROVE ProvisioningInv'
<1>1. PICK g \in Listed :
        DeleteKeyByAlias(g.epoch, hand' = [hand EXCEPT ![w].pc = "record", ![w].seen = "revoked"], LeaveLoop(w))
  BY DEF retireOldKeys
<1>2. g.epoch \in Epoch
  BY DEF Listed
<1>3. UNCHANGED <<unchangedByHandlers, recordVars>> /\ key' \in [Epoch -> Key] /\ hand[w].pc = "retire"
  BY <1>1, <1>2, Frame DEF DeleteKeyByAlias, retireOldKeys
<1>4. CASE hand' = [hand EXCEPT ![w].pc = "record", ![w].seen = "revoked"]
  <2>1. Moves(w, "record")
    <3> DEFINE h == [hand[w] EXCEPT !.pc = "record", !.seen = "revoked"]
    <3>0. hand[w] \in Hand
      BY Frame
    <3>1. h \in Hand /\ h.pc = "record" /\ h.job = hand[w].job
      BY <3>0 DEF Hand, Pc
    <3>2. hand' = [hand EXCEPT ![w] = h]
      BY <1>4
    <3> HIDE DEF h
    <3> QED
      BY <3>1, <3>2, HandMoves DEF ProvisioningInv
  <2> QED
    BY <1>3, <2>1, Frame, Places, WorkStep
<1>5. CASE LeaveLoop(w)
  BY <1>3, <1>5, LeaveLoopInv
<1> QED
  BY <1>1, <1>4, <1>5 DEF DeleteKeyByAlias

LEMMA NothingLeftInv ==
  ASSUME ProvisioningInv, NEW w \in Worker, NothingLeft(w) PROVE ProvisioningInv'
  BY Frame, LeaveLoopInv DEF NothingLeft, gatewayVars

LEMMA LookGoesOn ==
  ASSUME NEW w, Look(w)
  PROVE  \E p \in {"repair", "record"}, s \in {"active", "revoked", "missing"} :
           hand' = [hand EXCEPT ![w].pc = p, ![w].seen = s]
<1>1. PICK g \in Listed :
        hand' = [hand EXCEPT
          ![w].pc = IF OnGateway(g.epoch) /\ g.desired = "revoked" THEN "repair" ELSE "record",
          ![w].seen = IF OnGateway(g.epoch) THEN g.desired ELSE "missing"]
  BY DEF Look
<1>2. g.desired \in {"active", "revoked"}
  BY DEF Listed
<1> QED BY <1>1, <1>2

LEMMA LookInv ==
  ASSUME ProvisioningInv, NEW w \in Worker, Look(w) PROVE ProvisioningInv'
<1>1. PICK p \in {"repair", "record"}, s \in {"active", "revoked", "missing"} :
        hand' = [hand EXCEPT ![w].pc = p, ![w].seen = s]
  BY LookGoesOn
<1>2. Moves(w, p)
  <2> DEFINE h == [hand[w] EXCEPT !.pc = p, !.seen = s]
  <2>1. hand' = [hand EXCEPT ![w] = h] /\ hand[w] \in Hand
    BY <1>1, Frame
  <2>2. h \in Hand /\ h.pc = p /\ h.job = hand[w].job
    BY <2>1 DEF Hand, Pc
  <2> HIDE DEF h
  <2> QED
    BY <2>1, <2>2, HandMoves DEF ProvisioningInv
<1>3. key' \in [Epoch -> Key]
  BY Frame DEF Look, gatewayVars
<1> QED
  BY <1>2, <1>3, Frame, Places, WorkStep DEF Look

LEMMA RepairInv ==
  ASSUME ProvisioningInv, NEW w \in Worker, Repair(w) PROVE ProvisioningInv'
<1>1. PICK g \in Listed : DeleteKeyByAlias(g.epoch, Goto(w, "record"), Return(w, "ok"))
  BY DEF Repair
<1>2. /\ key' \in [Epoch -> Key] /\ UNCHANGED <<unchangedByHandlers, recordVars>>
      /\ Goto(w, "record") \/ Return(w, "ok")
  BY <1>1, Frame DEF DeleteKeyByAlias, Listed
<1>3. CASE Goto(w, "record")
  <2>1. Moves(w, "record")
    BY <1>3, Places, GotoMoves DEF ProvisioningInv
  <2> QED BY <1>2, <2>1, Frame, Places, WorkStep DEF Repair
<1>4. CASE Return(w, "ok")
  BY <1>2, <1>4, Frame, ProvisionPlaces, WorkReturns
<1> QED BY <1>2, <1>3, <1>4

LEMMA RecordActualInv ==
  ASSUME ProvisioningInv, NEW w \in Worker, RecordActual(w) PROVE ProvisioningInv'
<1> DEFINE p == IF hand[w].job.kind = "reconcile" THEN "look" ELSE "retire"
<1>1. PICK g \in Listed :
        /\ grant' = [grant EXCEPT ![g.epoch].actual = hand[w].seen]
        /\ hand' = [hand EXCEPT ![w].todo = @ \ {g}, ![w].seen = "missing", ![w].pc = p]
  BY DEF RecordActual
<1>2. g.epoch \in Epoch /\ hand[w].seen \in {"active", "revoked", "missing"}
  BY Frame DEF Listed, Hand
<1>3. GrantsKept
  BY <1>1, <1>2 DEF GrantsKept, ProvisioningInv, TypeOK, Grant
<1>4. p \in {"look", "retire"}
  OBVIOUS
<1> HIDE DEF p
<1>5. Moves(w, p)
  <2> DEFINE h == [hand[w] EXCEPT !.todo = @ \ {g}, !.seen = "missing", !.pc = p]
  <2>1. hand[w].todo \ {g} \in SUBSET Listed
    BY Frame DEF Hand
  <2>0. hand[w] \in Hand
    BY Frame
  <2>2. h \in Hand /\ h.pc = p /\ h.job = hand[w].job
    BY <1>4, <2>0, <2>1 DEF Hand, Pc
  <2>3. hand' = [hand EXCEPT ![w] = h]
    BY <1>1
  <2> HIDE DEF h
  <2> QED
    BY <2>2, <2>3, HandMoves DEF ProvisioningInv
<1> QED
  BY <1>3, <1>4, <1>5, Frame, Places, WorkStep DEF RecordActual, gatewayVars

LEMMA LoadInv ==
  ASSUME ProvisioningInv, NEW w \in Worker, Load(w) PROVE ProvisioningInv'
<1>1. CASE status = "active" /\ epoch = hand[w].job.epoch
  <2>1. hand' = [hand EXCEPT ![w].pc = "upsert", ![w].models = wanted] /\ hand[w].pc = "load"
    BY <1>1 DEF Load
  <2>2. wanted \in Models \cup {NoModels}
    BY DEF ProvisioningInv, TypeOK
  <2>3. Moves(w, "upsert")
    <3> DEFINE h == [hand[w] EXCEPT !.pc = "upsert", !.models = wanted]
    <3>1. hand[w] \in Hand
      BY Frame
    <3>2. h \in Hand /\ h.pc = "upsert" /\ h.job = hand[w].job
      BY <2>2, <3>1 DEF Hand, Pc
    <3>3. hand' = [hand EXCEPT ![w] = h]
      BY <2>1
    <3> HIDE DEF h
    <3> QED
      BY <3>2, <3>3, HandMoves DEF ProvisioningInv
  <2>4. "load" \in ProvisionPcs /\ "upsert" \in ProvisionPcs
          /\ "upsert" \notin {"update", "reread", "commit", "takeback", "withdraw"}
    BY DEF ProvisionPcs
  <2>5. UNCHANGED <<accountVars, cred, raced>> /\ unpushed' \in SUBSET Epoch /\ key' \in [Epoch -> Key]
          /\ Board!BoardTypeOK' /\ mishaps' \in 0 .. MaxMishaps /\ GrantsKept
    BY MostHandlersFrame, HandlerFrame, Frame DEF Load, gatewayVars
  <2> QED
    BY <1>1, <2>1, <2>3, <2>4, <2>5, Frame, Places, HandStep
<1>2. CASE ~(status = "active" /\ epoch = hand[w].job.epoch)
  BY <1>2, Frame, WorkReturns DEF Load, gatewayVars, Returned
<1> QED
  BY <1>1, <1>2

LEMMA UpsertUserInv ==
  ASSUME ProvisioningInv, NEW w \in Worker, UpsertUser(w) PROVE ProvisioningInv'
<1>1. Moves(w, "list") /\ hand[w].pc = "upsert"
  BY GotoMoves, Places DEF UpsertUser, ProvisioningInv
<1>2. "upsert" \in ProvisionPcs
  BY DEF ProvisionPcs
<1> QED
  BY <1>1, <1>2, Frame, Places, WorkStep DEF UpsertUser, gatewayVars

\* The rest works for an epoch of a provisioning task.
\* A step that only goes to another place, with the token in hand.
LEMMA GotoStep ==
  ASSUME ProvisioningInv, UNCHANGED unchangedByHandlers, NEW w \in Worker,
         hand[w].pc \in ProvisionPcs \ {"load"},
         NEW p \in ProvisionPcs \ {"commit"}, Goto(w, p),
         UNCHANGED <<recordVars>>, key' \in [Epoch -> Key],
         p \in {"update", "reread", "takeback", "withdraw"} => hand[w].token # NoToken
  PROVE  ProvisioningInv'
<1>1. p \in Pc \ {"idle", "commit"} /\ hand[w].pc \notin {"load"} \cup Returned
  BY Places
<1>2. Moves(w, p) /\ hand'[w].token = hand[w].token
  BY <1>1, GotoMoves DEF ProvisioningInv
<1>3. hand[w].job.kind = "provision" /\ GrantsKept /\ UNCHANGED cred
  BY Frame
<1> QED
  BY <1>1, <1>2, <1>3, WorkStep

LEMMA alreadyIssuedInv ==
  ASSUME ProvisioningInv, NEW w \in Worker, alreadyIssued(w) PROVE ProvisioningInv'
<1> DEFINE k == hand[w].job.epoch
           issued == grant[k].desired = "active" /\ cred # NoToken /\ cred = grant[k].cred
           same == grant[k].models = hand[w].models
<1>1. hand[w].pc = "check" /\ hand[w].pc \in ProvisionPcs \ {"load"}
        /\ UNCHANGED <<unchangedByHandlers, cred, gatewayVars>>
  BY ProvisionPlaces DEF alreadyIssued
<1>2. k \in Epoch /\ hand[w] \in Hand /\ grant[k] \in Grant /\ hand[w].job.kind = "provision"
        /\ key' \in [Epoch -> Key]
  BY <1>1, Frame DEF ProvisioningInv, TypeOK, gatewayVars
<1>3. CASE ~issued
  <2>1. Goto(w, "find") /\ UNCHANGED grant
    BY <1>3 DEF alreadyIssued
  <2>2. "find" \in ProvisionPcs \ {"commit", "update", "reread", "takeback", "withdraw"}
    BY DEF ProvisionPcs
  <2> QED
    BY <1>1, <1>2, <2>1, <2>2, GotoStep DEF recordVars, gatewayVars
<1>4. CASE issued /\ same
  <2>1. grant' = [grant EXCEPT ![k].actual = "active"] /\ Return(w, "ok")
    BY <1>4 DEF alreadyIssued
  <2>2. GrantsKept
    BY <1>2, <2>1 DEF GrantsKept, ProvisioningInv, TypeOK, Grant
  <2> QED
    BY <1>1, <1>2, <2>1, <2>2, ProvisionPlaces, WorkReturns
<1>5. CASE issued /\ ~same
  <2> DEFINE h == [hand[w] EXCEPT !.pc = "match", !.seen = grant[k].actual]
  <2>1. hand' = [hand EXCEPT ![w] = h] /\ UNCHANGED grant
    BY <1>5 DEF alreadyIssued
  <2>2. grant[k].actual \in {"active", "revoked", "missing"}
    BY <1>2 DEF Grant
  <2>3. h \in Hand /\ h.pc = "match" /\ h.job = hand[w].job
    BY <1>2, <2>2 DEF Hand, Pc
  <2> HIDE DEF h
  <2>4. Moves(w, "match")
    BY <2>1, <2>3, HandMoves DEF ProvisioningInv
  <2>5. "match" \in Pc \ {"idle", "commit", "update", "reread", "takeback", "withdraw"}
    BY DEF Pc
  <2>6. GrantsKept
    BY <2>1, UnchangedGrantsKept DEF ProvisioningInv
  <2> QED
    BY <1>1, <1>2, <2>4, <2>5, <2>6, Places, WorkStep
<1> QED
  BY <1>3, <1>4, <1>5

LEMMA MatchKeyInv ==
  ASSUME ProvisioningInv, NEW w \in Worker, MatchKey(w) PROVE ProvisioningInv'
<1> DEFINE k == hand[w].job.epoch
           p == IF OnGateway(k) THEN "update" ELSE "find"
           h == [hand[w] EXCEPT !.pc = p, !.token = key[k].token]
<1>1. hand[w].pc = "match" /\ hand[w].pc \in ProvisionPcs \ {"load"}
        /\ UNCHANGED <<unchangedByHandlers, recordVars, gatewayVars>>
  BY ProvisionPlaces DEF MatchKey
<1>2. k \in Epoch /\ hand[w] \in Hand /\ hand[w].job.kind = "provision"
        /\ key' \in [Epoch -> Key] /\ key[k] \in Key
  BY <1>1, Frame DEF gatewayVars
<1>3. key[k].token \in Token \cup {NoToken} /\ (p = "update" => key[k].token # NoToken)
  BY <1>2 DEF Key, OnGateway
<1>4. p \in {"update", "find"}
  OBVIOUS
<1>5. hand' = [hand EXCEPT ![w] = h]
  BY DEF MatchKey
<1> HIDE DEF k, p
<1>6. h \in Hand /\ h.pc = p /\ h.job = hand[w].job /\ h.token = key[k].token
  BY <1>2, <1>3, <1>4 DEF Hand, Pc
<1> HIDE DEF h
<1>7. Moves(w, p) /\ hand'[w] = h
  BY <1>5, <1>6, HandMoves DEF ProvisioningInv
<1>8. p \in Pc \ {"idle", "commit"} /\ p \notin {"reread", "takeback", "withdraw"}
  BY <1>4 DEF Pc
<1> QED
  BY <1>1, <1>2, <1>3, <1>6, <1>7, <1>8, Places, Frame, WorkStep

LEMMA UpdateKeyInv ==
  ASSUME ProvisioningInv, NEW w \in Worker, UpdateKey(w) PROVE ProvisioningInv'
<1> DEFINE k == hand[w].job.epoch
           there == key[k].token = hand[w].token
           p == IF there THEN "note" ELSE "find"
<1>1. hand[w].pc \in ProvisionPcs \ {"load"} /\ UNCHANGED <<unchangedByHandlers, recordVars>>
  BY ProvisionPlaces DEF UpdateKey
<1>2. k \in Epoch /\ hand[w].models \in Models \cup {NoModels}
  BY <1>1, Frame DEF Hand
<1>3. key' \in [Epoch -> Key]
  <2>1. key' = IF there THEN [key EXCEPT ![k].models = hand[w].models] ELSE key
    BY DEF UpdateKey
  <2> QED
    BY <1>2, <2>1, Frame DEF Key
<1>4. Goto(w, p) /\ p \in {"note", "find"}
  BY DEF UpdateKey
<1>5. p \in ProvisionPcs \ {"commit"} /\ p \notin {"update", "reread", "takeback", "withdraw"}
  BY <1>4 DEF ProvisionPcs
<1> HIDE DEF p
<1> QED
  BY <1>1, <1>3, <1>4, <1>5, GotoStep

LEMMA NoteModelsKeepsGrants ==
  ASSUME ProvisioningInv, NEW w \in Worker, NoteModels(w) PROVE GrantsKept
<1> DEFINE k == hand[w].job.epoch
<1>1. hand[w].pc \in ProvisionPcs
  BY ProvisionPlaces DEF NoteModels
<1>2. k \in Epoch /\ hand[w].models \in Models \cup {NoModels}
  BY <1>1, Frame DEF Hand
<1>3. grant \in [Epoch -> Grant] /\ grant[k] \in Grant
  BY <1>2 DEF ProvisioningInv, TypeOK
<1> DEFINE a == IF hand[w].seen = "active" THEN grant[k].actual ELSE "active"
           g == [grant[k] EXCEPT !.models = hand[w].models, !.actual = a]
<1>4. a \in {"active", "revoked", "missing"}
  BY <1>3 DEF Grant
<1> HIDE DEF a
<1>5. g \in Grant /\ g.desired = grant[k].desired /\ g.cred = grant[k].cred
  BY <1>2, <1>3, <1>4 DEF Grant
<1>6. grant' = [grant EXCEPT ![k] = g]
  BY <1>2, <1>3 DEF NoteModels, a, Grant
<1> HIDE DEF g, k
<1> QED BY <1>2, <1>3, <1>5, <1>6 DEF GrantsKept

LEMMA NoteModelsInv ==
  ASSUME ProvisioningInv, NEW w \in Worker, NoteModels(w) PROVE ProvisioningInv'
<1>1. unpushed' \in SUBSET Epoch /\ UNCHANGED <<accountVars, boardVars, mishaps, raced>>
  BY DEF NoteModels, ProvisioningInv, TypeOK
<1> QED
  BY <1>1, NoteModelsKeepsGrants, HandlerFrame, Frame, ProvisionPlaces, ReturnStep DEF NoteModels, gatewayVars

LEMMA FindKeyInv ==
  ASSUME ProvisioningInv, NEW w \in Worker, FindKey(w) PROVE ProvisioningInv'
<1> DEFINE p == IF OnGateway(hand[w].job.epoch) THEN "unkey" ELSE "mint"
<1>1. Goto(w, p) /\ p \in {"unkey", "mint"} /\ hand[w].pc \in ProvisionPcs \ {"load"}
  BY ProvisionPlaces DEF FindKey
<1>2. p \in ProvisionPcs \ {"commit"} /\ p \notin {"update", "reread", "takeback", "withdraw"}
  BY <1>1 DEF ProvisionPcs
<1> HIDE DEF p
<1> QED
  BY <1>1, <1>2, Frame, GotoStep DEF FindKey, gatewayVars

\* What deleting the key of its epoch does whatever the answer.
LEMMA DeletesOwnKey ==
  ASSUME ProvisioningInv, NEW w \in Worker, hand[w].pc \in ProvisionPcs,
         key' = [key EXCEPT ![hand[w].job.epoch] = NoKey]
  PROVE  key' \in [Epoch -> Key]
  BY Frame

LEMMA ReplaceKeyInv ==
  ASSUME ProvisioningInv, NEW w \in Worker, ReplaceKey(w) PROVE ProvisioningInv'
<1>1. /\ UNCHANGED <<unchangedByHandlers, recordVars>>
      /\ key' = [key EXCEPT ![hand[w].job.epoch] = NoKey]
      /\ Goto(w, "mint") \/ Return(w, "ok")
      /\ hand[w].pc = "unkey"
  BY DEF ReplaceKey, DeleteKeyByAlias
<1>2. hand[w].pc \in ProvisionPcs \ {"load"} /\ key' \in [Epoch -> Key]
  BY <1>1, ProvisionPlaces, DeletesOwnKey
<1>3. "mint" \in ProvisionPcs \ {"commit", "update", "reread", "takeback", "withdraw"}
  BY DEF ProvisionPcs
<1>4. CASE Goto(w, "mint")
  BY <1>1, <1>2, <1>3, <1>4, GotoStep
<1>5. CASE Return(w, "ok")
  BY <1>1, <1>2, <1>5, Frame, ProvisionPlaces, WorkReturns
<1> QED
  BY <1>1, <1>4, <1>5

LEMMA TakeBackInv ==
  ASSUME ProvisioningInv, NEW w \in Worker, TakeBack(w) \/ WithdrawKey(w) PROVE ProvisioningInv'
<1>1. /\ UNCHANGED <<unchangedByHandlers, recordVars>>
      /\ key' = [key EXCEPT ![hand[w].job.epoch] = NoKey]
      /\ Return(w, "retry") \/ Return(w, "permanent")
      /\ hand[w].pc \in {"takeback", "withdraw"}
  BY DEF TakeBack, WithdrawKey, DeleteKeyByAlias
<1>2. key' \in [Epoch -> Key]
  BY <1>1, ProvisionPlaces, DeletesOwnKey
<1> QED
  BY <1>1, <1>2, Frame, ProvisionPlaces, WorkReturns

LEMMA GenerateKeyInv ==
  ASSUME ProvisioningInv, NEW w \in Worker, GenerateKey(w) PROVE ProvisioningInv'
<1> DEFINE k == hand[w].job.epoch
<1>1. hand[w].pc = "mint" /\ hand[w].pc \in ProvisionPcs \ {"load"}
        /\ UNCHANGED <<unchangedByHandlers, recordVars>>
  BY ProvisionPlaces DEF GenerateKey
<1>2. k \in Epoch /\ hand[w] \in Hand /\ hand[w].job.kind = "provision"
        /\ hand[w].models \in Models \cup {NoModels}
  BY <1>1, Frame DEF Hand
<1>3. CASE OnGateway(k)
  BY <1>1, <1>3, Frame, ProvisionPlaces, WorkReturns DEF GenerateKey
<1>4. CASE ~OnGateway(k)
  <2>1. PICK t \in Token \ Used :
          /\ key' = [key EXCEPT ![k] = [token |-> t, models |-> hand[w].models]]
          /\ hand' = [hand EXCEPT ![w].pc = "reread", ![w].token = t]
    BY <1>4 DEF GenerateKey
  <2> DEFINE h == [hand[w] EXCEPT !.pc = "reread", !.token = t]
  <2>2. t \in Token /\ t # NoToken
    BY DEF Token, NoToken
  <2>3. key' \in [Epoch -> Key]
    <3>1. [token |-> t, models |-> hand[w].models] \in Key
      BY <1>2, <2>2 DEF Key
    <3> QED
      BY <1>2, <2>1, <3>1, Frame
  <2>4. h \in Hand /\ h.pc = "reread" /\ h.job = hand[w].job /\ h.token = t
    BY <1>2, <2>2 DEF Hand, Pc
  <2>5. hand' = [hand EXCEPT ![w] = h]
    BY <2>1
  <2> HIDE DEF h
  <2>6. Moves(w, "reread") /\ hand'[w].token = t
    BY <2>4, <2>5, HandMoves DEF ProvisioningInv
  <2>7. "reread" \in Pc \ {"idle", "commit"}
    BY DEF Pc
  <2> QED
    BY <1>1, <1>2, <2>2, <2>3, <2>6, <2>7, Frame, Places, WorkStep
<1> QED
  BY <1>3, <1>4

LEMMA ReReadEmployeeInv ==
  ASSUME ProvisioningInv, NEW w \in Worker, ReReadEmployee(w) PROVE ProvisioningInv'
<1>1. /\ hand[w].pc = "reread" /\ hand[w].pc \in ProvisionPcs \ {"load"}
      /\ UNCHANGED <<unchangedByHandlers, recordVars, gatewayVars>>
  BY ProvisionPlaces DEF ReReadEmployee
<1>2. hand[w].token # NoToken /\ hand[w].job.kind = "provision"
  BY <1>1, Frame DEF ProvisioningInv, TypeOK, HandFitsItsPlace
<1>3. CASE epoch = hand[w].job.epoch
  <2>1. Moves(w, "commit") /\ hand'[w].token = hand[w].token
    BY <1>3, GotoMoves, Places, ProvisionPlaces DEF ReReadEmployee, ProvisioningInv
  <2>2. "commit" \in Pc \ {"idle"} /\ hand[w].pc \notin {"load"} \cup Returned
    BY <1>1, Places DEF Pc
  <2>3. UNCHANGED <<accountVars, cred, raced>> /\ unpushed' \in SUBSET Epoch /\ key' \in [Epoch -> Key]
          /\ Board!BoardTypeOK' /\ mishaps' \in 0 .. MaxMishaps /\ GrantsKept
    BY <1>1, MostHandlersFrame, HandlerFrame, Frame DEF gatewayVars
  <2> QED
    BY <1>2, <1>3, <2>1, <2>2, <2>3, HandStep
<1>4. CASE epoch # hand[w].job.epoch
  <2>1. Goto(w, "withdraw") /\ "withdraw" \in ProvisionPcs \ {"commit"}
    BY <1>4, ProvisionPlaces DEF ReReadEmployee
  <2> QED
    BY <1>1, <1>2, <2>1, Frame, GotoStep DEF gatewayVars
<1> QED
  BY <1>3, <1>4

-----------------------------------------------------------------------------
(* Storing a token.                                                        *)

\* The loop's hand is emptied, but for its job, and everything else keeps its
\* type: hands stay as timely as they were.
LEMMA HandsStayTimely ==
  ASSUME ProvisioningInv, NEW w \in Worker, NEW h \in Hand, hand' = [hand EXCEPT ![w] = h],
         HandFitsItsPlace(h), Timely(h), UNCHANGED <<status, epoch, raced>>
  PROVE  /\ hand' \in [Worker -> Hand]
         /\ \A v \in Worker : HandFitsItsPlace(hand'[v])
         /\ HandsAreTimely'
<1>1. hand' \in [Worker -> Hand] /\ hand'[w] = h /\ \A v \in Worker : v # w => hand'[v] = hand[v]
  BY DEF ProvisioningInv, TypeOK
<1>2. \A v \in Worker : HandFitsItsPlace(hand'[v])
  BY <1>1 DEF ProvisioningInv, TypeOK
<1>3. \A v \in Worker : Timely(hand[v])'
  BY <1>1 DEF ProvisioningInv, HandsAreTimely, Timely
<1> QED
  BY <1>1, <1>2, <1>3 DEF HandsAreTimely

LEMMA EmptyHandedFits ==
  ASSUME NEW j \in Job \cup {NoJob}, NEW p \in Returned
  PROVE  LET h == [EmptyHand EXCEPT !.job = j, !.pc = p]
         IN  h \in Hand /\ HandFitsItsPlace(h) /\ Timely(h)
<1> DEFINE h == [EmptyHand EXCEPT !.job = j, !.pc = p]
<1>1. h \in Hand /\ h.pc = p
  BY EmptyIsHand DEF Hand, Returned, Pc
<1>2. p # "idle" /\ p # "commit" /\ p \notin ProvisionPcs
        /\ p \notin {"update", "reread", "commit", "takeback", "withdraw"}
  BY DEF Returned, ProvisionPcs
<1> HIDE DEF h
<1>3. HandFitsItsPlace(h) /\ Timely(h)
  BY <1>1, <1>2 DEF HandFitsItsPlace, Timely
<1> QED
  BY <1>1, <1>3 DEF h

\* Nothing else is active when the grant is stored, and whoever stores it is
\* timely.
LEMMA CommitInv ==
  ASSUME ProvisioningInv, NEW w \in Worker, Commit(w) PROVE ProvisioningInv'
<1> DEFINE k == hand[w].job.epoch
           refused == grant[k].desired # "none" \/ \E i \in Epoch : grant[i].desired = "active"
           new == [desired |-> "active", actual |-> "active", cred |-> hand[w].token, models |-> hand[w].models]
<1>1. hand[w].pc = "commit" /\ hand[w].pc \in ProvisionPcs
        /\ UNCHANGED <<accountVars, boardVars, mishaps, raced, gatewayVars>> /\ unpushed' \in SUBSET Epoch
  BY ProvisionPlaces DEF Commit, ProvisioningInv, TypeOK
<1>2. CASE refused
  BY <1>1, <1>2, HandlerFrame, Frame, ProvisionPlaces, ReturnStep DEF Commit, gatewayVars
<1>3. CASE ~refused
  <2>1. /\ cred' = hand[w].token
        /\ grant' = [grant EXCEPT ![k] = new]
        /\ Return(w, "ok")
    BY <1>3 DEF Commit
  <2>2. k \in Epoch /\ hand[w] \in Hand /\ hand[w].token # NoToken
    BY <1>1, Frame DEF ProvisioningInv, TypeOK, HandFitsItsPlace
  <2>3. new \in Grant /\ new.desired = "active" /\ new.cred = hand[w].token
    BY <2>2 DEF Hand, Grant
  <2>4. k \in raced \/ (k = epoch /\ status = "active")
    BY <1>1 DEF ProvisioningInv, HandsAreTimely, Timely
  <2> HIDE DEF new, k
  <2>5. /\ grant' \in [Epoch -> Grant] /\ cred' \in Token \cup {NoToken}
        /\ grant'[k].desired = "active" /\ grant'[k].cred = cred' /\ cred' # NoToken
    BY <2>1, <2>2, <2>3 DEF ProvisioningInv, TypeOK, Hand
  <2>6. \A i \in Epoch : i # k => grant'[i].desired # "active"
    BY <1>3, <2>1, <2>2 DEF ProvisioningInv, TypeOK
  <2>7. UNCHANGED <<accountVars, boardVars, raced, key>>
          /\ Board!BoardTypeOK' /\ mishaps' \in 0 .. MaxMishaps
    BY <1>1, HandlerFrame DEF gatewayVars
  <2>8. hand' \in [Worker -> Hand] /\ (\A v \in Worker : HandFitsItsPlace(hand'[v])) /\ HandsAreTimely'
    <3> DEFINE h == [EmptyHand EXCEPT !.job = hand[w].job, !.pc = "ok"]
    <3>1. hand' = [hand EXCEPT ![w] = h]
      BY <2>1 DEF Return
    <3>2. hand[w].job \in Job \cup {NoJob} /\ "ok" \in Returned
      BY <2>2 DEF Hand, Returned
    <3>3. h \in Hand /\ HandFitsItsPlace(h) /\ Timely(h)
      BY <3>2, EmptyHandedFits
    <3>4. UNCHANGED <<status, epoch, raced>>
      BY <2>7 DEF accountVars
    <3> HIDE DEF h
    <3> QED
      BY <3>1, <3>3, <3>4, HandsStayTimely
  <2>9. TypeOK'
    BY <1>1, <2>5, <2>7, <2>8 DEF ProvisioningInv, TypeOK, accountVars
  <2>10. OneActiveGrant' /\ ActiveGrantHoldsLiveCredential'
    BY <2>5, <2>6 DEF OneActiveGrant, ActiveGrantHoldsLiveCredential
  <2>11. GrantMatchesAccount' /\ NoTokenForLeavers'
    BY <2>4, <2>6, <2>7 DEF GrantMatchesAccount, NoTokenForLeavers, accountVars
  <2> QED
    BY <2>8, <2>9, <2>10, <2>11 DEF ProvisioningInv
<1> QED
  BY <1>2, <1>3

-----------------------------------------------------------------------------
(* The console.                                                            *)

LEMMA InitProvisioningInv == Init => ProvisioningInv
<1> SUFFICES ASSUME Init PROVE ProvisioningInv
  OBVIOUS
<1> USE ProvisioningAssumption DEF Init, ProvisioningAssumption
<1>1. NoGrant \in Grant /\ NoKey \in Key /\ NoGrant.desired = "none"
  BY DEF NoGrant, Grant, NoKey, Key
<1>2. Board!BoardTypeOK
  BY DEF Board!BoardInit, Board!BoardTypeOK, Board!JobState
<1>3. HandFitsItsPlace(EmptyHand) /\ Timely(EmptyHand)
  BY JobTypes DEF HandFitsItsPlace, EmptyHand, Timely, ProvisionPcs
<1>4. TypeOK
  <2>1. epoch \in 0 .. MaxEpoch /\ edits \in 0 .. MaxEdits /\ mishaps \in 0 .. MaxMishaps
    OBVIOUS
  <2>2. grant \in [Epoch -> Grant] /\ key \in [Epoch -> Key] /\ hand \in [Worker -> Hand]
          /\ \A w \in Worker : HandFitsItsPlace(hand[w])
    BY <1>1, <1>3, EmptyIsHand
  <2> QED
    BY <1>2, <2>1, <2>2 DEF TypeOK
<1> QED
  BY <1>1, <1>3, <1>4 DEF ProvisioningInv, HandsAreTimely, OneActiveGrant,
     ActiveGrantHoldsLiveCredential, GrantMatchesAccount, NoTokenForLeavers, NoToken

\* Onboarding, re-issuing and offboarding: every grant is revoked, and a hand
\* that was timely is late now or has raced.
LEMMA AccountMoves ==
  ASSUME ProvisioningInv, revokeGrant, NoteRace, UNCHANGED <<edits, gatewayVars, hand, mishaps, unpushed>>,
         status' \in {"absent", "active", "offboarded", "deleted"},
         epoch' \in 0 .. MaxEpoch, epoch < epoch' \/ (epoch' = epoch /\ status # "active"),
         wanted' \in Models \cup {NoModels}, Board!BoardTypeOK',
         cred' \in {cred, NoToken}, status' # "active" => cred' = NoToken
  PROVE  ProvisioningInv'
<1> USE DEF ProvisioningInv
<1>1. /\ grant' \in [Epoch -> Grant]
      /\ \A k \in Epoch : grant'[k].desired # "active"
  <2>1. \A k \in Epoch : grant[k] \in Grant /\ [grant[k] EXCEPT !.desired = "revoked"] \in Grant
                           /\ [grant[k] EXCEPT !.desired = "revoked"].desired # "active"
    BY DEF TypeOK, Grant
  <2> QED
    BY <2>1 DEF revokeGrant
<1>2. raced' \in SUBSET Epoch /\ raced \subseteq raced'
        /\ \A w \in Worker : hand[w].pc = "commit" => hand[w].job.epoch \in raced'
  <2>1. \A w \in Worker : hand[w].pc = "commit" => hand[w].job.epoch \in Epoch
    BY Frame, ProvisionPlaces
  <2> QED
    BY <2>1 DEF NoteRace, TypeOK
<1>3. TypeOK'
  BY <1>1, <1>2 DEF TypeOK, gatewayVars, HandFitsItsPlace
<1>4. HandsAreTimely'
  <2> SUFFICES ASSUME NEW w \in Worker PROVE Timely(hand[w])'
    BY DEF HandsAreTimely
  <2>1. epoch \in Nat /\ epoch' \in Nat /\ hand[w].job.epoch \in Nat
    BY Frame, JobTypes DEF TypeOK, Hand, NoJob
  <2>2. Timely(hand[w])
    BY DEF HandsAreTimely
  <2> QED
    BY <1>2, <2>1, <2>2 DEF Timely
<1>5. OneActiveGrant' /\ ActiveGrantHoldsLiveCredential' /\ GrantMatchesAccount'
  BY <1>1 DEF OneActiveGrant, ActiveGrantHoldsLiveCredential, GrantMatchesAccount
<1>6. NoTokenForLeavers'
  BY DEF NoTokenForLeavers
<1> QED
  BY <1>3, <1>4, <1>5, <1>6

LEMMA OnboardInv ==
  ASSUME ProvisioningInv, NEW m \in Models, Onboard(m) PROVE ProvisioningInv'
<1>1. epoch \in Nat /\ epoch + 1 \in 0 .. MaxEpoch /\ epoch < epoch + 1
  BY ProvisioningAssumption DEF ProvisioningInv, TypeOK, Onboard, ProvisioningAssumption
<1>2. Board!BoardTypeOK'
  BY SupersedeType DEF ProvisioningInv, TypeOK, Onboard, replaceOutstandingWork
<1> QED
  BY <1>1, <1>2, AccountMoves DEF Onboard, replaceOutstandingWork

LEMMA ReissueInv ==
  ASSUME ProvisioningInv, Reissue PROVE ProvisioningInv'
<1>1. epoch \in Nat /\ epoch + 1 \in 0 .. MaxEpoch /\ epoch < epoch + 1
  BY ProvisioningAssumption DEF ProvisioningInv, TypeOK, Reissue, ProvisioningAssumption
<1>2. Board!BoardTypeOK' /\ wanted' \in Models \cup {NoModels}
  BY SupersedeType DEF ProvisioningInv, TypeOK, Reissue, replaceOutstandingWork
<1> QED
  BY <1>1, <1>2, AccountMoves DEF Reissue, replaceOutstandingWork

LEMMA OffboardInv ==
  ASSUME ProvisioningInv, Offboard PROVE ProvisioningInv'
<1>1. epoch' \in 0 .. MaxEpoch /\ (epoch < epoch' \/ (epoch' = epoch /\ status # "active"))
  BY ProvisioningAssumption DEF ProvisioningInv, TypeOK, Offboard, ProvisioningAssumption
<1>2. Board!BoardTypeOK' /\ wanted' \in Models \cup {NoModels}
  BY SupersedeType DEF ProvisioningInv, TypeOK, Offboard
<1> QED
  BY <1>1, <1>2, AccountMoves DEF Offboard

LEMMA DeleteInv ==
  ASSUME ProvisioningInv, Delete PROVE ProvisioningInv'
<1> USE DEF ProvisioningInv, Delete, recordVars, gatewayVars
<1>1. Board!BoardTypeOK'
  BY SupersedeType DEF TypeOK
<1>2. TypeOK'
  BY <1>1 DEF TypeOK, HandFitsItsPlace
<1>3. HandsAreTimely'
  BY DEF HandsAreTimely, Timely
<1> QED
  BY <1>2, <1>3 DEF OneActiveGrant, ActiveGrantHoldsLiveCredential, GrantMatchesAccount, NoTokenForLeavers

LEMMA EditInv ==
  ASSUME ProvisioningInv, (\E m \in Models : SetModels(m)) \/ SetQuota PROVE ProvisioningInv'
<1>1. Board!BoardTypeOK'
  BY PostType DEF ProvisioningInv, TypeOK, SetModels, SetQuota
<1>2. wanted' \in Models \cup {NoModels} /\ edits' \in 0 .. MaxEdits
  BY ProvisioningAssumption DEF ProvisioningInv, TypeOK, SetModels, SetQuota, ProvisioningAssumption
<1> QED
  BY <1>1, <1>2, Frame, OutsideStep DEF ProvisioningInv, TypeOK, SetModels, SetQuota, gatewayVars

-----------------------------------------------------------------------------
(* The queue, the loops and mishaps.                                       *)

\* Steps of the queue alone.
LEMMA BoardStep ==
  ASSUME ProvisioningInv, UNCHANGED <<accountVars, recordVars, gatewayVars, hand, raced, unpushed>>,
         Board!BoardTypeOK', mishaps' \in 0 .. MaxMishaps
  PROVE  ProvisioningInv'
  BY Frame, OutsideStep DEF ProvisioningInv, TypeOK, accountVars, gatewayVars

LEMMA QueueInv ==
  ASSUME ProvisioningInv,
         \/ \E j \in Job : actionTaskRetry(j) \/ actionTaskCancel(j) \/ LeaseLapses(j)
         \/ EnqueueReconcile \/ Sweep
  PROVE  ProvisioningInv'
<1> USE DEF ProvisioningInv, TypeOK
<1>1. ASSUME NEW j \in Job, actionTaskRetry(j)
      PROVE  ProvisioningInv'
  <2>1. Board!BoardTypeOK'
    BY <1>1, PostType DEF actionTaskRetry
  <2> QED
    BY <1>1, <2>1, BoardStep DEF actionTaskRetry
<1>2. ASSUME NEW j \in Job, actionTaskCancel(j)
      PROVE  ProvisioningInv'
  <2>1. \A i \in {j} : [k \in {j} |-> "dropped"][i] \in Board!JobState
    BY DEF Board!JobState
  <2>2. Board!BoardTypeOK'
    BY <1>2, <2>1, SettleType DEF actionTaskCancel, Board!Withdraw
  <2> QED
    BY <1>2, <2>2, MishapCounts, BoardStep DEF actionTaskCancel
<1>3. ASSUME NEW j \in Job, LeaseLapses(j)
      PROVE  ProvisioningInv'
  <2>1. PICK s \in {"waiting", "failed"} : Board!GiveBack({j}, [i \in {j} |-> s])
    BY <1>3 DEF LeaseLapses
  <2>2. \A i \in {j} : [k \in {j} |-> s][i] \in Board!JobState
    BY DEF Board!JobState
  <2>3. Board!BoardTypeOK'
    BY <2>1, <2>2, SettleType DEF Board!GiveBack
  <2> QED
    BY <1>3, <2>3, MishapCounts, BoardStep DEF LeaseLapses
<1>4. CASE EnqueueReconcile
  <2>1. \A i \in {Reconcile} : [j \in {Reconcile} |-> "waiting"][i] \in Board!JobState
    BY DEF Board!JobState
  <2>2. Board!BoardTypeOK'
    BY <1>4, <2>1, SettleType DEF EnqueueReconcile
  <2> QED
    BY <1>4, <2>2, BoardStep DEF EnqueueReconcile
<1>5. CASE Sweep
  <2> DEFINE J == {j \in Job : state[j] = "held" /\ \A w \in Worker : holder[j] = w => hand[w].job # j}
  <2>1. PICK S \in [J -> {"waiting", "failed"}] : Board!GiveBack(J, S)
    BY <1>5 DEF Sweep
  <2> HIDE DEF J
  <2>2. \A j \in J : S[j] \in Board!JobState
    BY DEF Board!JobState
  <2>3. Board!BoardTypeOK'
    BY <2>1, <2>2, SettleType DEF Board!GiveBack
  <2> QED
    BY <1>5, <2>3, BoardStep DEF Sweep
<1> QED
  BY <1>1, <1>2, <1>3, <1>4, <1>5

LEMMA KeyLostInv ==
  ASSUME ProvisioningInv, NEW k \in Epoch, KeyLost(k) PROVE ProvisioningInv'
<1>1. Board!BoardTypeOK' /\ mishaps' \in 0 .. MaxMishaps /\ key' \in [Epoch -> Key]
  BY MishapCounts, Frame DEF ProvisioningInv, TypeOK, KeyLost, boardVars, Board!BoardTypeOK
<1> QED
  BY <1>1, OutsideStep DEF ProvisioningInv, TypeOK, KeyLost, accountVars

\* A loop takes up a job, or puts down what it has.
LEMMA HandSet ==
  ASSUME ProvisioningInv, NEW w \in Worker, NEW h \in Hand, hand' = [hand EXCEPT ![w] = h],
         HandFitsItsPlace(h), Timely(h),
         UNCHANGED <<accountVars, recordVars, gatewayVars, raced, unpushed>>,
         Board!BoardTypeOK', mishaps' \in 0 .. MaxMishaps
  PROVE  ProvisioningInv'
<1>1. hand' \in [Worker -> Hand] /\ (\A v \in Worker : HandFitsItsPlace(hand'[v])) /\ HandsAreTimely'
  BY HandsStayTimely DEF accountVars
<1>2. TypeOK'
  BY <1>1 DEF ProvisioningInv, TypeOK, accountVars, recordVars, gatewayVars
<1>3. GrantsKept /\ UNCHANGED <<status, epoch, cred, raced, unpushed>>
  BY Frame DEF accountVars
<1> QED
  BY <1>1, <1>2, <1>3, RecordsKept DEF ProvisioningInv

LEMMA EmptyFits == HandFitsItsPlace(EmptyHand) /\ Timely(EmptyHand)
  BY DEF HandFitsItsPlace, Timely, EmptyHand, NoJob, ProvisionPcs

LEMMA TakeInv ==
  ASSUME ProvisioningInv, NEW w \in Worker, NEW j \in Job, Take(w, j) PROVE ProvisioningInv'
<1> DEFINE p == CASE j.kind = "provision" -> "load"
                  [] j.kind = "delete"    -> "permanent"
                  [] OTHER                -> "list"
           h == [EmptyHand EXCEPT !.job = j, !.pc = p]
<1>1. p \in {"load", "permanent", "list"} /\ (p = "load" => j.kind = "provision")
        /\ (p = "list" => j.kind # "provision")
  OBVIOUS
<1>2. hand' = [hand EXCEPT ![w] = h]
  BY DEF Take
<1> HIDE DEF p
<1>3. h \in Hand /\ h.pc = p /\ h.job = j
  BY <1>1, EmptyIsHand DEF Hand, Pc
<1> HIDE DEF h
<1>4. HandFitsItsPlace(h) /\ Timely(h)
  BY <1>1, <1>3 DEF HandFitsItsPlace, Timely, ProvisionPcs, Returned
<1>5. Board!BoardTypeOK'
  BY DEF Take, Board!Take, Board!BoardTypeOK, Board!JobState, ProvisioningInv, TypeOK
<1>6. mishaps' \in 0 .. MaxMishaps
  BY DEF Take, ProvisioningInv, TypeOK
<1> QED
  BY <1>2, <1>3, <1>4, <1>5, <1>6, HandSet DEF Take

LEMMA ReportInv ==
  ASSUME ProvisioningInv, NEW w \in Worker, Report(w) PROVE ProvisioningInv'
<1>1. Board!BoardTypeOK'
  <2>1. CASE UNCHANGED boardVars
    BY <2>1 DEF boardVars, Board!BoardTypeOK, ProvisioningInv, TypeOK
  <2>2. CASE ~UNCHANGED boardVars
    <3>1. PICK s \in {"done", "failed", "waiting"} : Board!Close(w, hand[w].job, s)
      BY <2>2 DEF Report
    <3> DEFINE j == hand[w].job
    <3>2. \A i \in {j} : [k \in {j} |-> s][i] \in Board!JobState
      BY DEF Board!JobState
    <3> QED
      BY <3>1, <3>2, SettleType DEF Board!Close, ProvisioningInv, TypeOK
  <2> QED
    BY <2>1, <2>2
<1>2. hand' = [hand EXCEPT ![w] = EmptyHand]
  BY DEF Report, Forget
<1>3. mishaps' \in 0 .. MaxMishaps
  BY DEF Report, ProvisioningInv, TypeOK
<1> QED
  BY <1>1, <1>2, <1>3, EmptyIsHand, EmptyFits, HandSet DEF Report

LEMMA CrashInv ==
  ASSUME ProvisioningInv, NEW w \in Worker, Crash(w) PROVE ProvisioningInv'
<1>1. Board!BoardTypeOK' /\ mishaps' \in 0 .. MaxMishaps
  BY MishapCounts DEF Crash, boardVars, Board!BoardTypeOK, ProvisioningInv, TypeOK
<1> QED
  BY <1>1, EmptyIsHand, EmptyFits, HandSet DEF Crash, Forget

LEMMA ErrorInv ==
  ASSUME ProvisioningInv, NEW w \in Worker, HandlerErrors(w)
  PROVE  ProvisioningInv'
<1>1. Board!BoardTypeOK' /\ mishaps' \in 0 .. MaxMishaps
  BY MishapCounts DEF HandlerErrors, boardVars, Board!BoardTypeOK, ProvisioningInv, TypeOK
<1>2. UNCHANGED <<accountVars, recordVars, gatewayVars, raced>> /\ Return(w, "retry") /\ unpushed' \in SUBSET Epoch
  BY DEF HandlerErrors, ProvisioningInv, TypeOK
<1> QED
  BY <1>1, <1>2, Frame, ProvisionPlaces, ReturnStep DEF gatewayVars

\* A handler that is told 404 goes where it would go without its call.
LEMMA NotFoundInv ==
  ASSUME ProvisioningInv, NEW w \in Worker, AnswersNotFound(w)
  PROVE  ProvisioningInv'
<1>1. Board!BoardTypeOK' /\ mishaps' \in 0 .. MaxMishaps
  BY MishapCounts DEF AnswersNotFound, boardVars, Board!BoardTypeOK, ProvisioningInv, TypeOK
<1>2. UNCHANGED <<accountVars, recordVars, gatewayVars, raced>> /\ key' \in [Epoch -> Key] /\ GrantsKept /\ UNCHANGED cred
  BY Frame DEF AnswersNotFound, gatewayVars
<1>3. unpushed' \in SUBSET Epoch
  <2>1. hand[w].pc \in ProvisionPcs => hand[w].job.epoch \in Epoch
    BY Frame
  <2> QED BY <2>1 DEF AnswersNotFound, ProvisioningInv, TypeOK
<1>4. CASE Return(w, "ok")
  BY <1>1, <1>2, <1>3, <1>4, ProvisionPlaces, ReturnStep
<1>5. CASE hand[w].pc \in {"match", "update"} /\ Goto(w, "find")
  <2>1. hand[w].pc \in ProvisionPcs \ {"load"} /\ "find" \in ProvisionPcs \ {"commit"}
        /\ "find" \notin {"update", "reread", "commit", "takeback", "withdraw"}
    BY <1>5 DEF ProvisionPcs
  <2>2. hand[w].pc \notin {"load"} \cup Returned /\ "find" \in Pc \ {"idle"} /\ hand[w].job.kind = "provision"
    BY <2>1, Places, Frame
  <2>3. Moves(w, "find")
    BY <1>5, <2>2, GotoMoves DEF ProvisioningInv
  <2> QED BY <1>1, <1>2, <1>3, <2>1, <2>2, <2>3, HandStep
<1>6. CASE hand[w].pc = "retire" /\ hand[w].job.kind = "provision"
           /\ hand' = [hand EXCEPT ![w].pc = "check", ![w].todo = {}]
  <2> DEFINE h == [hand[w] EXCEPT !.pc = "check", !.todo = {}]
  <2>1. hand' = [hand EXCEPT ![w] = h] /\ hand[w] \in Hand
    BY <1>6, Frame
  <2>2. h \in Hand /\ h.pc = "check" /\ h.job = hand[w].job
    BY <2>1 DEF Hand, Pc
  <2> HIDE DEF h
  <2>3. Moves(w, "check") /\ "check" \in Pc \ {"idle"} /\ hand[w].pc \notin {"load"} \cup Returned
    BY <1>6, <2>1, <2>2, HandMoves DEF ProvisioningInv, Pc, Returned
  <2> QED BY <1>1, <1>2, <1>3, <1>6, <2>3, HandStep
<1> QED BY <1>4, <1>5, <1>6 DEF AnswersNotFound, LeaveLoop

LEMMA SealFailsInv ==
  ASSUME ProvisioningInv, NEW w \in Worker, SealFails(w) PROVE ProvisioningInv'
<1>1. Board!BoardTypeOK' /\ mishaps' \in 0 .. MaxMishaps
  BY MishapCounts DEF SealFails, boardVars, Board!BoardTypeOK, ProvisioningInv, TypeOK
<1>2. hand[w].pc = "reread" /\ hand[w].token # NoToken /\ hand[w].job.kind = "provision"
  BY Frame, ProvisionPlaces DEF SealFails, ProvisioningInv, TypeOK, HandFitsItsPlace
<1>3. "takeback" \in Pc \ {"idle"} /\ hand[w].pc \notin {"load"} \cup Returned
  BY <1>2 DEF Pc, Returned
<1>4. Moves(w, "takeback") /\ hand'[w].token = hand[w].token
  BY <1>3, GotoMoves DEF SealFails, ProvisioningInv
<1>5. UNCHANGED <<accountVars, recordVars, key, raced>> /\ unpushed' \in SUBSET Epoch
  BY DEF SealFails, gatewayVars, ProvisioningInv, TypeOK
<1> QED
  BY <1>1, <1>2, <1>3, <1>4, <1>5, Frame, HandStep

-----------------------------------------------------------------------------
(* The invariant.                                                          *)

LEMMA HandleInv ==
  ASSUME ProvisioningInv, NEW w \in Worker, Handle(w) PROVE ProvisioningInv'
  BY ListGrantsInv, retireOldKeysInv, NothingLeftInv, LookInv, RepairInv, RecordActualInv, LoadInv,
     UpsertUserInv, alreadyIssuedInv, MatchKeyInv, UpdateKeyInv, NoteModelsInv, FindKeyInv,
     ReplaceKeyInv, GenerateKeyInv, TakeBackInv, ReReadEmployeeInv, CommitInv DEF Handle

LEMMA NextInv ==
  ASSUME ProvisioningInv, [Next]_vars PROVE ProvisioningInv'
<1>1. CASE Admin
  BY <1>1, OnboardInv, EditInv, ReissueInv, OffboardInv, DeleteInv, QueueInv DEF Admin
<1>2. CASE EnqueueReconcile \/ Sweep
  BY <1>2, QueueInv
<1>3. ASSUME NEW w \in Worker, (\E j \in Job : Take(w, j)) \/ Handle(w) \/ Report(w)
      PROVE  ProvisioningInv'
  BY <1>3, TakeInv, HandleInv, ReportInv
<1>4. CASE Misfortune
  BY <1>4, CrashInv, ErrorInv, NotFoundInv, SealFailsInv, QueueInv, KeyLostInv DEF Misfortune
<1>5. CASE UNCHANGED vars
  <2>1. Board!BoardTypeOK'
    BY <1>5 DEF vars, boardVars, Board!BoardTypeOK, ProvisioningInv, TypeOK
  <2> QED
    BY <1>5, <2>1, BoardStep DEF vars, ProvisioningInv, TypeOK
<1> QED
  BY <1>1, <1>2, <1>3, <1>4, <1>5 DEF Next

\* Account, records, gateway, queue and hands agree as ProvisioningInv says,
\* whatever loops, mishaps and administrators do: what the unique indexes, the
\* two looks at the employee and the transactions of ops.go preserve together.
THEOREM ProvisioningInvariance == Spec => []ProvisioningInv
<1>1. Init => ProvisioningInv
  BY InitProvisioningInv
<1>2. ProvisioningInv /\ [Next]_vars => ProvisioningInv'
  BY NextInv
<1> QED
  BY <1>1, <1>2, PTL DEF Spec

\* Rows, keys and hands keep their types, and a loop that is to store, update
\* or withdraw a token has one.
THEOREM ProvisioningTypes == Spec => []TypeOK
<1>1. ProvisioningInv => TypeOK
  BY DEF ProvisioningInv
<1> QED
  BY <1>1, ProvisioningInvariance, PTL

\* The grant the console believes in is for the token it delivers.
THEOREM DeliveredTokenIsGranted == Spec => []ActiveGrantHoldsLiveCredential
<1>1. ProvisioningInv => ActiveGrantHoldsLiveCredential
  BY DEF ProvisioningInv
<1> QED
  BY <1>1, ProvisioningInvariance, PTL

\* An active grant is for the account's current epoch, but for the one window
\* between the re-read of the employee and the commit.
THEOREM GrantsFollowAccounts == Spec => []GrantMatchesAccount
<1>1. ProvisioningInv => GrantMatchesAccount
  BY DEF ProvisioningInv
<1> QED
  BY <1>1, ProvisioningInvariance, PTL

\* The same window is the only way in which somebody who left keeps a token.
THEOREM LeaversKeepNoToken == Spec => []NoTokenForLeavers
<1>1. ProvisioningInv => NoTokenForLeavers
  BY DEF ProvisioningInv
<1> QED
  BY <1>1, ProvisioningInvariance, PTL

-----------------------------------------------------------------------------
(* The stored token works.  This takes more than ProvisioningInv: what a   *)
(* handler has seen of the grant must still hold when it deletes or stores *)
(* a key, which two handlers at once do not grant each other.              *)

\* No two loops are at work at the same time.
OneAtATime == \A v, w \in Worker : Busy(v) /\ Busy(w) => v = w

\* From here on a provisioning handler deletes or makes the epoch's key.
AtKey == {"find", "unkey", "mint", "reread", "takeback", "withdraw", "commit"}

\* Nothing says that the epoch's key is to be kept: no token is stored for it,
\* or a push for it has been ended by a 404.
Free(k) == grant[k].desired # "active" \/ k \in unpushed

USE DEF Free

\* What a hand relies on: it is at the key only while that is free, it stores
\* the token the gateway has, and what it is to retire was revoked and remains so.
Knows(h, gr, ky, un) ==
  /\ h.pc \in AtKey => gr[h.job.epoch].desired # "active" \/ h.job.epoch \in un
  /\ h.pc \in {"update", "reread", "commit"} => ky[h.job.epoch].token = h.token
  /\ h.pc = "note" => ky[h.job.epoch].token # NoToken
  /\ \A g \in h.todo : g.desired = "revoked" => gr[g.epoch].desired = "revoked"
  /\ h.job.kind # "reconcile" => \A g \in h.todo : g.desired = "revoked"
  /\ h.pc = "retire" => h.job.kind # "reconcile"
  /\ h.pc \in {"look", "repair"} => h.job.kind = "reconcile"

\* The gateway has a key that is not free; with the stored token, if it answers
\* no call with 404.
KeysFit ==
  \A k \in Epoch : ~Free(k) =>
    /\ key[k].token # NoToken
    /\ "notfound" \notin Mishaps => key[k].token = cred

TokenInv ==
  /\ "notfound" \notin Mishaps => unpushed = {}
  /\ KeysFit
  /\ \A w \in Worker : Knows(hand[w], grant, key, unpushed)

\* Grants keep what is wanted of them.
DesiredKept == \A k \in Epoch : grant'[k].desired = grant[k].desired

LEMMA HandlersLeave ==
  UNCHANGED unchangedByHandlers => UNCHANGED <<status, epoch, wanted, edits, state, unpushed>>
BY DEF unchangedByHandlers, accountVars, boardVars

LEMMA SameGrantsDesired == UNCHANGED recordVars => DesiredKept /\ UNCHANGED cred
BY DEF DesiredKept, recordVars

LEMMA InEpoch ==
  ASSUME NEW h \in Hand, HandFitsItsPlace(h)
  PROVE  /\ \A g \in h.todo : g.epoch \in Epoch
         /\ h.pc \in AtKey => h.job.epoch \in Epoch
<1>1. \A g \in h.todo : g.epoch \in Epoch
  BY DEF Hand, Listed
<1>2. AtKey \subseteq ProvisionPcs
  BY DEF AtKey, ProvisionPcs
<1> QED BY <1>1, <1>2, JobTypes DEF HandFitsItsPlace, Hand

\* What a hand relies on does not depend on more than this.
LEMMA KnowsStill ==
  ASSUME NEW h \in Hand, HandFitsItsPlace(h), NEW gr, NEW gr2, NEW ky, NEW ky2,
         \A k \in Epoch : (gr2[k].desired = "active" => gr[k].desired = "active")
                       /\ (gr[k].desired = "revoked" => gr2[k].desired = "revoked"),
         h.pc \in {"update", "reread", "commit", "note"} => ky2[h.job.epoch].token = ky[h.job.epoch].token,
         NEW un,
         Knows(h, gr, ky, un)
  PROVE  Knows(h, gr2, ky2, un)
BY InEpoch DEF Knows, AtKey

LEMMA RestingKnows ==
  ASSUME NEW h, NEW gr, NEW ky, NEW un, h.todo = {}, h.pc \notin AtKey \cup {"retire", "look", "repair", "update", "note"}
  PROVE  Knows(h, gr, ky, un)
BY DEF Knows, AtKey

LEMMA EmptyKnows == \A gr, ky, un : Knows(EmptyHand, gr, ky, un)
BY RestingKnows DEF EmptyHand, AtKey

LEMMA HandTypes ==
  ASSUME ProvisioningInv, NEW w \in Worker
  PROVE  hand[w] \in Hand /\ HandFitsItsPlace(hand[w])
BY DEF ProvisioningInv, TypeOK

\* A step that touches one hand and neither the keys nor what is wanted.
LEMMA HandKeepsTokens ==
  ASSUME ProvisioningInv, TokenInv, NEW w \in Worker,
         \A v \in Worker : v # w => hand'[v] = hand[v],
         DesiredKept, UNCHANGED <<cred, key, unpushed>>,
         hand'[w] \in Hand, HandFitsItsPlace(hand'[w]), Knows(hand'[w], grant, key, unpushed)
  PROVE  TokenInv'
<1>1. KeysFit'
  BY DEF TokenInv, KeysFit, DesiredKept
<1>2. ASSUME NEW v \in Worker, v # w PROVE Knows(hand'[v], grant', key', unpushed')
  BY <1>2, HandTypes, KnowsStill DEF TokenInv, DesiredKept
<1>3. Knows(hand'[w], grant', key', unpushed')
  BY KnowsStill DEF DesiredKept
<1> QED BY <1>1, <1>2, <1>3 DEF TokenInv

\* A step of the loop that is at work alone, at the keys.
LEMMA KeyStepKeepsTokens ==
  ASSUME ProvisioningInv, TokenInv, OneAtATime, NEW w \in Worker, Busy(w),
         \A v \in Worker : v # w => hand'[v] = hand[v],
         UNCHANGED <<grant, cred, unpushed>>,
         \A k \in Epoch : ~Free(k) => key'[k].token = key[k].token,
         Knows(hand'[w], grant, key', unpushed)
  PROVE  TokenInv'
<1>1. KeysFit'
  BY DEF TokenInv, KeysFit
<1>2. ASSUME NEW v \in Worker, v # w PROVE Knows(hand'[v], grant', key', unpushed')
  <2>1. hand[v] = EmptyHand
    BY <1>2, HandTypes DEF OneAtATime, Busy, HandFitsItsPlace
  <2> QED BY <1>2, <2>1, EmptyKnows
<1> QED BY <1>1, <1>2 DEF TokenInv

\* A step that leaves hands and keys alone and at most revokes grants.
LEMMA OthersKeepTokens ==
  ASSUME ProvisioningInv, TokenInv, UNCHANGED <<hand, key, unpushed>>,
         \A k \in Epoch :
           /\ grant'[k].desired = "active" => grant[k].desired = "active" /\ cred' = cred
           /\ grant[k].desired = "revoked" => grant'[k].desired = "revoked"
  PROVE  TokenInv'
<1>1. KeysFit'
  BY DEF TokenInv, KeysFit
<1>2. ASSUME NEW v \in Worker PROVE Knows(hand'[v], grant', key', unpushed')
  BY HandTypes, KnowsStill DEF TokenInv
<1> QED BY <1>1, <1>2 DEF TokenInv

\* A hand that goes on with the same job, with nothing new to go through.
LEMMA MovesKnow ==
  ASSUME ProvisioningInv, TokenInv, NEW w \in Worker, NEW p, Moves(w, p),
         hand'[w].todo \subseteq hand[w].todo,
         p \in AtKey => Free(hand[w].job.epoch), p # "note",
         p = "retire" => hand[w].job.kind # "reconcile",
         p \in {"look", "repair"} => hand[w].job.kind = "reconcile",
         p \in {"update", "reread", "commit"} => key[hand[w].job.epoch].token = hand'[w].token
  PROVE  Knows(hand'[w], grant, key, unpushed)
BY DEF TokenInv, Knows, Moves

\* The same step with the keys left alone.
LEMMA MoveKeepsTokens ==
  ASSUME ProvisioningInv, TokenInv, ProvisioningInv', NEW w \in Worker, NEW p, Moves(w, p),
         hand'[w].todo \subseteq hand[w].todo,
         p \in AtKey => Free(hand[w].job.epoch), p # "note",
         p = "retire" => hand[w].job.kind # "reconcile",
         p \in {"look", "repair"} => hand[w].job.kind = "reconcile",
         p \in {"update", "reread", "commit"} => key[hand[w].job.epoch].token = hand'[w].token,
         DesiredKept, UNCHANGED <<cred, key, unpushed>>
  PROVE  TokenInv'
<1>1. hand'[w] \in Hand /\ HandFitsItsPlace(hand'[w])
  BY DEF ProvisioningInv, TypeOK
<1>2. Knows(hand'[w], grant, key, unpushed)
  BY MovesKnow
<1> QED BY <1>1, <1>2, HandKeepsTokens DEF Moves

LEMMA ReturnRests ==
  ASSUME ProvisioningInv, NEW w \in Worker, NEW p \in Returned, Return(w, p)
  PROVE  /\ \A v \in Worker : v # w => hand'[v] = hand[v]
         /\ hand'[w].todo = {} /\ hand'[w].pc \notin AtKey \cup {"retire", "look", "repair", "update", "note"}
<1>1. p \notin AtKey \cup {"retire", "look", "repair", "update", "note"}
  BY DEF Returned, AtKey
<1> QED BY <1>1 DEF Return, ProvisioningInv, TypeOK, EmptyHand

LEMMA ReturnKeepsTokens ==
  ASSUME ProvisioningInv, ProvisioningInv', TokenInv, NEW w \in Worker, NEW p \in Returned, Return(w, p),
         DesiredKept, UNCHANGED <<cred, key, unpushed>>
  PROVE  TokenInv'
<1>1. hand'[w] \in Hand /\ HandFitsItsPlace(hand'[w])
  BY DEF ProvisioningInv, TypeOK
<1> QED BY <1>1, ReturnRests, RestingKnows, HandKeepsTokens

\* Goto and the like: the hand is the old one with another place.
LEMMA GotoKeepsTokens ==
  ASSUME ProvisioningInv, TokenInv, ProvisioningInv', NEW w \in Worker, NEW p \in Pc, Goto(w, p),
         p \in AtKey => Free(hand[w].job.epoch), p # "note",
         p \notin {"retire", "look", "repair"},
         p \in {"update", "reread", "commit"} => key[hand[w].job.epoch].token = hand[w].token,
         UNCHANGED <<recordVars, key, unpushed>>
  PROVE  TokenInv'
<1>1. Moves(w, p) /\ hand'[w].token = hand[w].token
  BY GotoMoves DEF ProvisioningInv
<1>2. hand'[w].todo = hand[w].todo
  BY HandTypes DEF Goto, ProvisioningInv, TypeOK, Hand
<1> QED BY <1>1, <1>2, SameGrantsDesired, MoveKeepsTokens

\* A handler is busy.
LEMMA HandlersAreBusy == \A w \in Worker : hand[w].pc \in AtKey \cup {"retire", "look", "update"} => Busy(w)
BY DEF Busy, AtKey

LEMMA ListGrantsTokens ==
  ASSUME ProvisioningInv, TokenInv, ProvisioningInv', NEW w \in Worker, ListGrants(w) PROVE TokenInv'
<1> DEFINE p == IF hand[w].job.kind = "reconcile" THEN "look" ELSE "retire"
           K == IF hand[w].job.kind = "reconcile" THEN {k \in Epoch : grant[k].desired # "none"} ELSE ToRetire
           T == {[epoch |-> k, desired |-> grant[k].desired] : k \in K}
<1>1. \A g \in T : /\ g.desired = "revoked" => grant[g.epoch].desired = "revoked"
                   /\ hand[w].job.kind # "reconcile" => g.desired = "revoked"
  BY DEF ToRetire
<1>2. p \in {"look", "retire"}
  OBVIOUS
<1>3. hand' = [hand EXCEPT ![w].todo = T, ![w].pc = p]
  BY DEF ListGrants
<1> HIDE DEF p, K, T
<1>4. /\ \A v \in Worker : v # w => hand'[v] = hand[v]
      /\ hand'[w].todo = T /\ hand'[w].pc = p /\ hand'[w].job = hand[w].job
  BY <1>3, HandTypes DEF ProvisioningInv, TypeOK, Hand
<1>5. Knows(hand'[w], grant, key, unpushed)
  <2>1. p \notin AtKey /\ p \notin {"update", "reread", "commit"}
    BY <1>2 DEF AtKey
  <2>2. /\ p = "retire" => hand[w].job.kind # "reconcile"
        /\ p \in {"look", "repair"} => hand[w].job.kind = "reconcile"
    BY DEF p
  <2>3. \A g \in hand'[w].todo :
          /\ g.desired = "revoked" => grant[g.epoch].desired = "revoked"
          /\ hand'[w].job.kind # "reconcile" => g.desired = "revoked"
    <3> SUFFICES ASSUME NEW g \in hand'[w].todo
                 PROVE  /\ g.desired = "revoked" => grant[g.epoch].desired = "revoked"
                        /\ hand'[w].job.kind # "reconcile" => g.desired = "revoked"
      OBVIOUS
    <3>1. g \in T /\ hand'[w].job = hand[w].job
      BY <1>4
    <3>2. /\ g.desired = "revoked" => grant[g.epoch].desired = "revoked"
          /\ hand[w].job.kind # "reconcile" => g.desired = "revoked"
      BY <1>1, <3>1
    <3> QED BY <3>1, <3>2
  <2>4. p \notin {"update", "reread", "commit", "note"}
    BY <1>2
  <2> QED BY <1>4, <2>1, <2>2, <2>3, <2>4 DEF Knows
<1>6. DesiredKept /\ UNCHANGED <<cred, key, unpushed>>
  BY SameGrantsDesired DEF ListGrants, gatewayVars, unchangedByHandlers
<1>7. hand'[w] \in Hand /\ HandFitsItsPlace(hand'[w])
  BY DEF ProvisioningInv, TypeOK
<1> QED BY <1>4, <1>5, <1>6, <1>7, HandKeepsTokens

\* Leaving the loop over the grants: nothing is left to go through.
LEMMA LeaveLoopRests ==
  ASSUME ProvisioningInv, NEW w \in Worker, LeaveLoop(w)
  PROVE  /\ \A v \in Worker : v # w => hand'[v] = hand[v]
         /\ hand'[w].todo = {} /\ hand'[w].pc \notin AtKey \cup {"retire", "look", "repair", "update", "note"}
<1>1. CASE hand[w].job.kind = "provision"
  BY <1>1, HandTypes DEF LeaveLoop, ProvisioningInv, TypeOK, Hand, AtKey
<1>2. CASE hand[w].job.kind # "provision"
  <2>1. Return(w, "ok") /\ "ok" \in Returned
    BY <1>2 DEF LeaveLoop, Returned
  <2> QED BY <2>1, ReturnRests
<1> QED BY <1>1, <1>2

LEMMA NothingLeftTokens ==
  ASSUME ProvisioningInv, TokenInv, ProvisioningInv', NEW w \in Worker, NothingLeft(w) PROVE TokenInv'
<1>1. DesiredKept /\ UNCHANGED <<cred, key, unpushed>> /\ LeaveLoop(w)
  BY SameGrantsDesired DEF NothingLeft, gatewayVars, unchangedByHandlers
<1>2. hand'[w] \in Hand /\ HandFitsItsPlace(hand'[w])
  BY DEF ProvisioningInv, TypeOK
<1> QED BY <1>1, <1>2, LeaveLoopRests, RestingKnows, HandKeepsTokens

\* The key of a grant that was revoked when it was listed is deleted.
LEMMA retireOldKeysTokens ==
  ASSUME ProvisioningInv, TokenInv, OneAtATime, NEW w \in Worker, retireOldKeys(w) PROVE TokenInv'
<1>1. PICK g \in Listed :
        /\ IsNext(w, g)
        /\ DeleteKeyByAlias(g.epoch, hand' = [hand EXCEPT ![w].pc = "record", ![w].seen = "revoked"], LeaveLoop(w))
  BY DEF retireOldKeys
<1>2. g.epoch \in Epoch /\ g \in hand[w].todo
  BY <1>1 DEF Listed, IsNext
<1>3. hand[w].pc = "retire" /\ Busy(w)
  BY DEF retireOldKeys, Busy
<1>4. grant[g.epoch].desired = "revoked"
  BY <1>2, <1>3 DEF TokenInv, Knows
<1>5. key' = [key EXCEPT ![g.epoch] = NoKey] /\ UNCHANGED <<grant, cred, unpushed>>
  BY <1>1 DEF DeleteKeyByAlias, recordVars, unchangedByHandlers
<1>6. \A k \in Epoch : ~Free(k) => key'[k].token = key[k].token
  BY <1>4, <1>5 DEF ProvisioningInv, TypeOK
<1>7. CASE hand' = [hand EXCEPT ![w].pc = "record", ![w].seen = "revoked"]
  <2>1. /\ \A v \in Worker : v # w => hand'[v] = hand[v]
        /\ hand'[w].todo = hand[w].todo /\ hand'[w].pc = "record" /\ hand'[w].job = hand[w].job
    BY <1>7, HandTypes DEF ProvisioningInv, TypeOK, Hand
  <2>2. Knows(hand'[w], grant, key', unpushed)
    BY <2>1 DEF TokenInv, Knows, AtKey
  <2> QED BY <1>3, <1>5, <1>6, <2>1, <2>2, KeyStepKeepsTokens
<1>8. CASE LeaveLoop(w)
  <2>1. Knows(hand'[w], grant, key', unpushed)
    BY <1>8, LeaveLoopRests, RestingKnows
  <2> QED BY <1>3, <1>5, <1>6, <1>8, <2>1, LeaveLoopRests, KeyStepKeepsTokens
<1> QED BY <1>1, <1>7, <1>8 DEF DeleteKeyByAlias

\* The reconciliation deletes only what was revoked when it was listed.
LEMMA LookTokens ==
  ASSUME ProvisioningInv, TokenInv, ProvisioningInv', NEW w \in Worker, Look(w) PROVE TokenInv'
<1>1. PICK p \in {"repair", "record"}, a \in {"active", "revoked", "missing"} :
        hand' = [hand EXCEPT ![w].pc = p, ![w].seen = a]
  BY LookGoesOn
<1>2. UNCHANGED <<cred, key, unpushed>> /\ DesiredKept
  BY SameGrantsDesired DEF Look, gatewayVars, unchangedByHandlers
<1>3. Moves(w, p) /\ hand'[w].todo = hand[w].todo
  <2>1. hand' \in [Worker -> Hand] /\ hand \in [Worker -> Hand]
    BY DEF ProvisioningInv, TypeOK
  <2>2. /\ hand'[w] = [hand[w] EXCEPT !.pc = p, !.seen = a]
        /\ \A v \in Worker : v # w => hand'[v] = hand[v]
    BY <1>1, <2>1
  <2> QED BY <2>1, <2>2 DEF Moves, Hand
<1>4. p \notin AtKey /\ p \notin {"note", "retire", "update", "reread", "commit"}
  BY DEF AtKey
<1>5. hand[w].job.kind = "reconcile"
  BY DEF Look, TokenInv, Knows
<1> QED BY <1>2, <1>3, <1>4, <1>5, MoveKeepsTokens

\* What it deletes is of a grant that was revoked then and is so still.
LEMMA RepairTokens ==
  ASSUME ProvisioningInv, TokenInv, OneAtATime, NEW w \in Worker, Repair(w) PROVE TokenInv'
<1>1. PICK g \in Listed :
        /\ IsNext(w, g) /\ g.desired = "revoked"
        /\ DeleteKeyByAlias(g.epoch, Goto(w, "record"), Return(w, "ok"))
  BY DEF Repair
<1>2. g.epoch \in Epoch /\ g \in hand[w].todo /\ hand[w].pc = "repair" /\ Busy(w)
  BY <1>1 DEF Listed, IsNext, Repair, Busy
<1>3. /\ key' = [key EXCEPT ![g.epoch] = NoKey] /\ UNCHANGED <<grant, cred, unpushed>>
      /\ Goto(w, "record") \/ Return(w, "ok")
  BY <1>1 DEF DeleteKeyByAlias, recordVars, unchangedByHandlers
<1>4. grant[g.epoch].desired = "revoked"
  BY <1>1, <1>2 DEF TokenInv, Knows
<1>5. \A k \in Epoch : ~Free(k) => key'[k].token = key[k].token
  BY <1>3, <1>4 DEF ProvisioningInv, TypeOK
<1>6. CASE Goto(w, "record")
  <2>1. Moves(w, "record") /\ hand'[w].todo = hand[w].todo
    BY <1>6, Places, GotoMoves, GotoKeepsTodo DEF ProvisioningInv
  <2>2. Knows(hand'[w], grant, key', unpushed)
    BY <2>1 DEF TokenInv, Knows, AtKey, Moves
  <2> QED BY <1>2, <1>3, <1>5, <2>1, <2>2, KeyStepKeepsTokens DEF Moves
<1>7. CASE Return(w, "ok")
  BY <1>2, <1>3, <1>5, <1>7, ReturnRests, RestingKnows, KeyStepKeepsTokens DEF Returned
<1> QED BY <1>3, <1>6, <1>7

LEMMA RecordActualTokens ==
  ASSUME ProvisioningInv, TokenInv, ProvisioningInv', NEW w \in Worker, RecordActual(w) PROVE TokenInv'
<1> DEFINE p == IF hand[w].job.kind = "reconcile" THEN "look" ELSE "retire"
<1>1. PICK g \in Listed :
        /\ grant' = [grant EXCEPT ![g.epoch].actual = hand[w].seen]
        /\ hand' = [hand EXCEPT ![w].todo = @ \ {g}, ![w].seen = "missing", ![w].pc = p]
  BY DEF RecordActual
<1>2. /\ p \in {"look", "retire"}
      /\ IF p = "look" THEN hand[w].job.kind = "reconcile" ELSE hand[w].job.kind # "reconcile"
  OBVIOUS
<1> HIDE DEF p
<1>3. Moves(w, p) /\ hand'[w].todo \subseteq hand[w].todo
  <2>1. hand' \in [Worker -> Hand]
    BY DEF ProvisioningInv, TypeOK
  <2> QED BY <1>1, <2>1, HandTypes DEF Moves, ProvisioningInv, TypeOK, Hand
<1>4. DesiredKept
  BY <1>1 DEF DesiredKept, ProvisioningInv, TypeOK, Grant
<1>5. UNCHANGED <<cred, key, unpushed>>
  BY DEF RecordActual, gatewayVars, unchangedByHandlers
<1>6. p \notin AtKey /\ p \notin {"update", "reread", "commit"}
  BY <1>2 DEF AtKey
<1> QED BY <1>2, <1>3, <1>4, <1>5, <1>6, MoveKeepsTokens

LEMMA LoadTokens ==
  ASSUME ProvisioningInv, TokenInv, ProvisioningInv', NEW w \in Worker, Load(w) PROVE TokenInv'
<1>1. DesiredKept /\ UNCHANGED <<cred, key, unpushed>>
  BY SameGrantsDesired DEF Load, gatewayVars, unchangedByHandlers
<1>2. CASE Return(w, "permanent")
  BY <1>1, <1>2, ReturnKeepsTokens DEF Returned
<1>3. CASE hand' = [hand EXCEPT ![w].pc = "upsert", ![w].models = wanted]
  <2>1. Moves(w, "upsert") /\ hand'[w].todo \subseteq hand[w].todo
    <3>1. hand' \in [Worker -> Hand] /\ hand \in [Worker -> Hand]
      BY DEF ProvisioningInv, TypeOK
    <3>2. \A v \in Worker : v # w => hand'[v] = hand[v]
      BY <1>3, <3>1
    <3>3. hand'[w] = [hand[w] EXCEPT !.pc = "upsert", !.models = wanted]
      BY <1>3, <3>1
    <3>4. hand'[w].pc = "upsert" /\ hand'[w].job = hand[w].job /\ hand'[w].todo = hand[w].todo
      BY <3>1, <3>3 DEF Hand
    <3> QED BY <3>1, <3>2, <3>4 DEF Moves
  <2>2. "upsert" \notin AtKey
    BY DEF AtKey
  <2> QED BY <1>1, <2>1, <2>2, MoveKeepsTokens
<1> QED BY <1>2, <1>3 DEF Load

LEMMA UpsertUserTokens ==
  ASSUME ProvisioningInv, TokenInv, ProvisioningInv', NEW w \in Worker, UpsertUser(w) PROVE TokenInv'
<1>1. Goto(w, "list") /\ UNCHANGED <<recordVars, key, unpushed>>
  BY DEF UpsertUser, gatewayVars, unchangedByHandlers
<1>2. "list" \in Pc /\ "list" \notin AtKey
  BY DEF Pc, AtKey
<1> QED BY <1>1, <1>2, GotoKeepsTokens

LEMMA alreadyIssuedTokens ==
  ASSUME ProvisioningInv, TokenInv, ProvisioningInv', NEW w \in Worker, alreadyIssued(w) PROVE TokenInv'
<1> DEFINE k == hand[w].job.epoch
           issued == grant[k].desired = "active" /\ cred # NoToken /\ cred = grant[k].cred
           same == grant[k].models = hand[w].models
<1>1. hand[w].pc = "check" /\ "check" \in ProvisionPcs /\ UNCHANGED <<cred, key, unpushed>>
  BY DEF alreadyIssued, gatewayVars, ProvisionPcs, unchangedByHandlers
<1>2. k \in Epoch
  BY <1>1, Frame
<1>3. DesiredKept
  BY <1>2 DEF alreadyIssued, DesiredKept, ProvisioningInv, TypeOK, Grant
<1>4. CASE ~issued /\ Goto(w, "find")
  <2>1. grant[k].desired # "active"
    BY <1>2, <1>4 DEF ProvisioningInv, ActiveGrantHoldsLiveCredential
  <2>2. "find" \in Pc
    BY DEF Pc
  <2>3. Moves(w, "find") /\ hand'[w].todo = hand[w].todo
    BY <1>4, <2>2, GotoMoves, GotoKeepsTodo DEF ProvisioningInv
  <2> QED BY <1>1, <1>3, <2>1, <2>3, MoveKeepsTokens
<1>5. CASE Return(w, "ok")
  BY <1>1, <1>3, <1>5, ReturnKeepsTokens DEF Returned
<1>6. CASE hand' = [hand EXCEPT ![w].pc = "match", ![w].seen = grant[k].actual]
  <2>1. Moves(w, "match") /\ hand'[w].todo = hand[w].todo
    <3>1. hand' \in [Worker -> Hand] /\ hand \in [Worker -> Hand]
      BY DEF ProvisioningInv, TypeOK
    <3>2. \A v \in Worker : v # w => hand'[v] = hand[v]
      BY <1>6, <3>1
    <3>3. hand'[w] = [hand[w] EXCEPT !.pc = "match", !.seen = grant[k].actual]
      BY <1>6, <3>1
    <3>4. hand'[w].pc = "match" /\ hand'[w].job = hand[w].job /\ hand'[w].todo = hand[w].todo
      BY <3>1, <3>3 DEF Hand
    <3> QED BY <3>1, <3>2, <3>4 DEF Moves
  <2>2. "match" \notin AtKey
    BY DEF AtKey
  <2> QED BY <1>1, <1>3, <2>1, <2>2, MoveKeepsTokens
<1> QED BY <1>4, <1>5, <1>6 DEF alreadyIssued

\* A key that is not there is one whose grant is not active: the stored token works.
LEMMA MatchKeyTokens ==
  ASSUME ProvisioningInv, TokenInv, ProvisioningInv', NEW w \in Worker, MatchKey(w) PROVE TokenInv'
<1> DEFINE k == hand[w].job.epoch
           p == IF OnGateway(k) THEN "update" ELSE "find"
<1>1. hand[w].pc = "match" /\ "match" \in ProvisionPcs /\ UNCHANGED <<cred, key, unpushed>> /\ DesiredKept
  BY SameGrantsDesired DEF MatchKey, gatewayVars, ProvisionPcs, unchangedByHandlers
<1>2. k \in Epoch
  BY <1>1, Frame
<1>3. ~OnGateway(k) => Free(k)
  BY <1>2 DEF OnGateway, TokenInv, KeysFit
<1>4. hand' = [hand EXCEPT ![w].pc = p, ![w].token = key[k].token]
  BY DEF MatchKey
<1>5. p \in AtKey => Free(k)
  BY <1>3 DEF AtKey
<1>6. p \in {"update", "find"}
  OBVIOUS
<1> HIDE DEF p
<1>7. Moves(w, p) /\ hand'[w].todo = hand[w].todo
  <2>1. hand' \in [Worker -> Hand] /\ hand \in [Worker -> Hand]
    BY DEF ProvisioningInv, TypeOK
  <2>2. \A v \in Worker : v # w => hand'[v] = hand[v]
    BY <1>4, <2>1
  <2>3. hand'[w] = [hand[w] EXCEPT !.pc = p, !.token = key[k].token]
    BY <1>4, <2>1
  <2>4. hand'[w].pc = p /\ hand'[w].job = hand[w].job /\ hand'[w].todo = hand[w].todo
    BY <2>1, <2>3 DEF Hand
  <2> QED BY <2>1, <2>2, <2>4 DEF Moves
<1>8. p \notin {"note", "reread", "commit", "retire", "look", "repair"}
  BY <1>6
<1>9. hand'[w].token = key[k].token
  <2>1. hand[w] \in Hand /\ hand \in [Worker -> Hand]
    BY DEF ProvisioningInv, TypeOK
  <2>2. hand'[w] = [hand[w] EXCEPT !.pc = p, !.token = key[k].token]
    BY <1>4, <2>1
  <2> QED BY <2>1, <2>2 DEF Hand
<1> QED BY <1>1, <1>5, <1>7, <1>8, <1>9, MoveKeepsTokens

LEMMA UpdateKeyTokens ==
  ASSUME ProvisioningInv, TokenInv, ProvisioningInv', OneAtATime, NEW w \in Worker, UpdateKey(w) PROVE TokenInv'
<1> DEFINE k == hand[w].job.epoch
<1>1. hand[w].pc = "update" /\ "update" \in ProvisionPcs /\ Busy(w) /\ UNCHANGED <<grant, cred, unpushed>>
  BY DEF UpdateKey, Busy, recordVars, ProvisionPcs, unchangedByHandlers
<1>2. k \in Epoch
  BY <1>1, Frame
<1>3. key[k].token = hand[w].token
  BY <1>1 DEF TokenInv, Knows
<1>4. key' = [key EXCEPT ![k].models = hand[w].models] /\ Goto(w, "note")
  BY <1>3 DEF UpdateKey
<1>5. \A i \in Epoch : key'[i].token = key[i].token
  BY <1>2, <1>4 DEF ProvisioningInv, TypeOK, Key
<1>6. Moves(w, "note") /\ hand'[w].todo = hand[w].todo
  <2>1. "note" \in Pc
    BY DEF Pc
  <2> QED BY <1>4, <2>1, GotoMoves, GotoKeepsTodo DEF ProvisioningInv
<1>7. Knows(hand'[w], grant, key', unpushed)
  <2>1. "note" \notin AtKey
    BY DEF AtKey
  <2>2. key'[k].token # NoToken
    BY <1>1, <1>2, <1>3, <1>5, HandTypes DEF HandFitsItsPlace
  <2> QED BY <1>6, <2>1, <2>2 DEF TokenInv, Knows, Moves
<1> QED BY <1>1, <1>4, <1>5, <1>6, <1>7, KeyStepKeepsTokens DEF Moves

\* The key that was pushed to is there, so that its epoch is in order again.
LEMMA NoteModelsTokens ==
  ASSUME ProvisioningInv, TokenInv, OneAtATime, NEW w \in Worker, NoteModels(w) PROVE TokenInv'
<1> DEFINE k == hand[w].job.epoch
<1>1. /\ hand[w].pc = "note" /\ "note" \in ProvisionPcs /\ UNCHANGED <<cred, key>> /\ Return(w, "ok")
      /\ unpushed' = unpushed \ {k}
  BY DEF NoteModels, gatewayVars, ProvisionPcs
<1>2. k \in Epoch /\ key[k].token # NoToken
  BY <1>1, Frame DEF TokenInv, Knows
<1>3. DesiredKept
  BY NoteModelsKeepsGrants DEF GrantsKept, DesiredKept
<1>4. KeysFit' /\ ("notfound" \notin Mishaps => unpushed' = {})
  BY <1>1, <1>2, <1>3 DEF TokenInv, KeysFit, DesiredKept
<1>5. Knows(hand'[w], grant', key', unpushed')
  BY <1>1, ReturnRests, RestingKnows DEF Returned
<1>6. ASSUME NEW v \in Worker, v # w PROVE Knows(hand'[v], grant', key', unpushed')
  <2>1. hand[v] = EmptyHand
    BY <1>1, <1>6, HandTypes DEF OneAtATime, Busy, HandFitsItsPlace
  <2>2. hand'[v] = hand[v]
    BY <1>1, <1>6, ReturnRests DEF Returned
  <2> QED BY <2>1, <2>2, EmptyKnows
<1> QED BY <1>4, <1>5, <1>6 DEF TokenInv

LEMMA FindKeyTokens ==
  ASSUME ProvisioningInv, TokenInv, ProvisioningInv', NEW w \in Worker, FindKey(w) PROVE TokenInv'
<1> DEFINE p == IF OnGateway(hand[w].job.epoch) THEN "unkey" ELSE "mint"
<1>1. Goto(w, p) /\ UNCHANGED <<recordVars, key, unpushed>> /\ hand[w].pc = "find" /\ "find" \in AtKey
  BY DEF FindKey, gatewayVars, AtKey, unchangedByHandlers
<1>2. p \in Pc /\ p \notin {"retire", "look", "repair", "note", "update", "reread", "commit"}
  BY DEF Pc
<1>3. Free(hand[w].job.epoch)
  BY <1>1 DEF TokenInv, Knows
<1> HIDE DEF p
<1> QED BY <1>1, <1>2, <1>3, GotoKeepsTokens

\* Deleting the epoch's key while no token is stored for it, and going on.
LEMMA DeletesOwnTokens ==
  ASSUME ProvisioningInv, TokenInv, OneAtATime, NEW w \in Worker, hand[w].pc \in AtKey,
         key' = [key EXCEPT ![hand[w].job.epoch] = NoKey],
         UNCHANGED <<grant, cred, unpushed>>,
         \A v \in Worker : v # w => hand'[v] = hand[v],
         Knows(hand'[w], grant, key', unpushed)
  PROVE  TokenInv'
<1>1. Free(hand[w].job.epoch)
  BY DEF TokenInv, Knows
<1>2. \A k \in Epoch : ~Free(k) => key'[k].token = key[k].token
  BY <1>1 DEF ProvisioningInv, TypeOK
<1> QED BY <1>2, HandlersAreBusy, KeyStepKeepsTokens

LEMMA ReplaceKeyTokens ==
  ASSUME ProvisioningInv, TokenInv, OneAtATime, NEW w \in Worker, ReplaceKey(w) PROVE TokenInv'
<1>1. /\ hand[w].pc = "unkey" /\ hand[w].pc \in AtKey
      /\ key' = [key EXCEPT ![hand[w].job.epoch] = NoKey]
      /\ UNCHANGED <<grant, cred, unpushed>>
      /\ Goto(w, "mint") \/ Return(w, "ok")
  BY DEF ReplaceKey, DeleteKeyByAlias, recordVars, AtKey, unchangedByHandlers
<1>2. CASE Goto(w, "mint")
  <2>1. "mint" \in Pc
    BY DEF Pc
  <2>2. Moves(w, "mint") /\ hand'[w].todo = hand[w].todo
    BY <1>2, <2>1, GotoMoves, GotoKeepsTodo DEF ProvisioningInv
  <2>3. Knows(hand'[w], grant, key', unpushed)
    BY <1>1, <2>2 DEF TokenInv, Knows, Moves
  <2> QED BY <1>1, <2>2, <2>3, DeletesOwnTokens DEF Moves
<1>3. CASE Return(w, "ok")
  <2>1. "ok" \in Returned
    BY DEF Returned
  <2> QED BY <1>1, <1>3, <2>1, ReturnRests, RestingKnows, DeletesOwnTokens
<1> QED BY <1>1, <1>2, <1>3

LEMMA TakeBackTokens ==
  ASSUME ProvisioningInv, TokenInv, OneAtATime, NEW w \in Worker, TakeBack(w) \/ WithdrawKey(w)
  PROVE  TokenInv'
<1>1. /\ hand[w].pc \in AtKey
      /\ key' = [key EXCEPT ![hand[w].job.epoch] = NoKey]
      /\ UNCHANGED <<grant, cred, unpushed>>
      /\ Return(w, "retry") \/ Return(w, "permanent")
  BY DEF TakeBack, WithdrawKey, DeleteKeyByAlias, recordVars, AtKey, unchangedByHandlers
<1>2. PICK p \in Returned : Return(w, p)
  BY <1>1 DEF Returned
<1> QED BY <1>1, <1>2, ReturnRests, RestingKnows, DeletesOwnTokens

\* The new token is in the gateway and in the hand.
LEMMA GenerateKeyTokens ==
  ASSUME ProvisioningInv, ProvisioningInv', TokenInv, OneAtATime, NEW w \in Worker, GenerateKey(w)
  PROVE  TokenInv'
<1> DEFINE k == hand[w].job.epoch
<1>1. hand[w].pc = "mint" /\ "mint" \in ProvisionPcs /\ "mint" \in AtKey /\ UNCHANGED recordVars
  BY DEF GenerateKey, ProvisionPcs, AtKey
<1>2. k \in Epoch /\ Free(k)
  BY <1>1, Frame DEF TokenInv, Knows
<1>3. CASE OnGateway(k)
  <2>1. Return(w, "permanent") /\ UNCHANGED key
    BY <1>3 DEF GenerateKey
  <2> QED BY <1>1, <2>1, SameGrantsDesired, HandlersLeave, ReturnKeepsTokens DEF Returned, GenerateKey
<1>4. CASE ~OnGateway(k)
  <2>1. PICK t \in Token \ Used :
          /\ key' = [key EXCEPT ![k] = [token |-> t, models |-> hand[w].models]]
          /\ hand' = [hand EXCEPT ![w].pc = "reread", ![w].token = t]
    BY <1>4 DEF GenerateKey
  <2>2. \A i \in Epoch : ~Free(i) => key'[i].token = key[i].token
    BY <1>2, <2>1 DEF ProvisioningInv, TypeOK
  <2>3. key'[k].token = t
    BY <1>2, <2>1 DEF ProvisioningInv, TypeOK
  <2>4. /\ \A v \in Worker : v # w => hand'[v] = hand[v]
        /\ hand'[w].todo = hand[w].todo /\ hand'[w].pc = "reread"
        /\ hand'[w].job = hand[w].job /\ hand'[w].token = t
    BY <2>1, HandTypes DEF ProvisioningInv, TypeOK, Hand
  <2>5. Knows(hand'[w], grant, key', unpushed)
    BY <1>2, <2>3, <2>4 DEF TokenInv, Knows
  <2> QED BY <1>1, <2>2, <2>4, <2>5, HandlersAreBusy, HandlersLeave, KeyStepKeepsTokens DEF recordVars, GenerateKey
<1> QED BY <1>3, <1>4

LEMMA ReReadEmployeeTokens ==
  ASSUME ProvisioningInv, TokenInv, ProvisioningInv', NEW w \in Worker, ReReadEmployee(w) PROVE TokenInv'
<1> DEFINE p == IF epoch = hand[w].job.epoch THEN "commit" ELSE "withdraw"
<1>1. Goto(w, p) /\ UNCHANGED <<recordVars, key, unpushed>> /\ hand[w].pc = "reread" /\ "reread" \in AtKey
  BY DEF ReReadEmployee, gatewayVars, AtKey, unchangedByHandlers
<1>2. p \in Pc /\ p \notin {"retire", "look", "repair", "note"}
  BY DEF Pc
<1>3. Free(hand[w].job.epoch) /\ key[hand[w].job.epoch].token = hand[w].token
  BY <1>1 DEF TokenInv, Knows
<1> HIDE DEF p
<1> QED BY <1>1, <1>2, <1>3, GotoKeepsTokens

LEMMA SealFailsTokens ==
  ASSUME ProvisioningInv, TokenInv, ProvisioningInv', NEW w \in Worker, SealFails(w) PROVE TokenInv'
<1>1. Goto(w, "takeback") /\ UNCHANGED <<recordVars, key, unpushed>> /\ hand[w].pc = "reread" /\ "reread" \in AtKey
  BY DEF SealFails, gatewayVars, AtKey
<1>2. "takeback" \in Pc
  BY DEF Pc
<1>3. Free(hand[w].job.epoch)
  BY <1>1 DEF TokenInv, Knows
<1> QED BY <1>1, <1>2, <1>3, GotoKeepsTokens

\* What is stored is the token the gateway has.
LEMMA CommitTokens ==
  ASSUME ProvisioningInv, ProvisioningInv', TokenInv, OneAtATime, NEW w \in Worker, Commit(w)
  PROVE  TokenInv'
<1> DEFINE k == hand[w].job.epoch
           refused == grant[k].desired # "none" \/ \E i \in Epoch : grant[i].desired = "active"
           new == [desired |-> "active", actual |-> "active", cred |-> hand[w].token, models |-> hand[w].models]
<1>1. hand[w].pc = "commit" /\ "commit" \in ProvisionPcs /\ UNCHANGED key
  BY DEF Commit, gatewayVars, ProvisionPcs
<1>2. k \in Epoch /\ key[k].token = hand[w].token /\ hand[w].token # NoToken
  BY <1>1, Frame, HandTypes DEF TokenInv, Knows, HandFitsItsPlace
<1>3. CASE refused
  <2>1. Return(w, "retry") /\ UNCHANGED <<recordVars, unpushed>>
    BY <1>3 DEF Commit
  <2> QED BY <1>1, <2>1, SameGrantsDesired, ReturnKeepsTokens DEF Returned
<1>4. CASE ~refused
  <2>1. /\ cred' = hand[w].token /\ grant' = [grant EXCEPT ![k] = new] /\ Return(w, "ok")
        /\ unpushed' = unpushed \ {k}
    BY <1>4 DEF Commit
  <2>2. \A i \in Epoch : i # k => grant'[i].desired # "active"
    BY <1>4, <2>1 DEF ProvisioningInv, TypeOK
  <2>3. KeysFit' /\ ("notfound" \notin Mishaps => unpushed' = {})
    BY <1>1, <1>2, <2>1, <2>2 DEF KeysFit, TokenInv
  <2>4. Knows(hand'[w], grant', key', unpushed') /\ \A v \in Worker : v # w => hand'[v] = hand[v]
    BY <2>1, ReturnRests, RestingKnows DEF Returned
  <2>5. ASSUME NEW v \in Worker, v # w PROVE Knows(hand'[v], grant', key', unpushed')
    <3>1. hand[v] = EmptyHand
      BY <1>1, <2>5, HandTypes DEF OneAtATime, Busy, HandFitsItsPlace
    <3> QED BY <2>4, <2>5, <3>1, EmptyKnows
  <2> QED BY <2>3, <2>4, <2>5 DEF TokenInv
<1> QED BY <1>3, <1>4

LEMMA HandleTokens ==
  ASSUME ProvisioningInv, ProvisioningInv', TokenInv, OneAtATime, NEW w \in Worker, Handle(w)
  PROVE  TokenInv'
BY ListGrantsTokens, retireOldKeysTokens, NothingLeftTokens, LookTokens, RepairTokens, RecordActualTokens, LoadTokens,
   UpsertUserTokens, alreadyIssuedTokens, MatchKeyTokens, UpdateKeyTokens, NoteModelsTokens,
   FindKeyTokens, ReplaceKeyTokens, GenerateKeyTokens, TakeBackTokens, ReReadEmployeeTokens,
   CommitTokens DEF Handle

\* A loop takes up a job, or puts down what it has.
LEMMA HandSetTokens ==
  ASSUME ProvisioningInv, ProvisioningInv', TokenInv, NEW w \in Worker, NEW h,
         hand' = [hand EXCEPT ![w] = h], h.todo = {}, h.pc \notin AtKey \cup {"retire", "look", "repair", "update", "note"},
         UNCHANGED <<recordVars, key, unpushed>>
  PROVE  TokenInv'
<1>1. hand'[w] = h /\ \A v \in Worker : v # w => hand'[v] = hand[v]
  BY DEF ProvisioningInv, TypeOK
<1>2. hand'[w] \in Hand /\ HandFitsItsPlace(hand'[w])
  BY DEF ProvisioningInv, TypeOK
<1>3. Knows(hand'[w], grant, key, unpushed)
  BY <1>1, RestingKnows
<1> QED BY <1>1, <1>2, <1>3, SameGrantsDesired, HandKeepsTokens

LEMMA TakeTokens ==
  ASSUME ProvisioningInv, ProvisioningInv', TokenInv, NEW w \in Worker, NEW j \in Job, Take(w, j)
  PROVE  TokenInv'
<1> DEFINE p == CASE j.kind = "provision" -> "load"
                  [] j.kind = "delete"    -> "permanent"
                  [] OTHER                -> "list"
           h == [EmptyHand EXCEPT !.job = j, !.pc = p]
<1>1. p \in {"load", "permanent", "list"}
  OBVIOUS
<1>2. hand' = [hand EXCEPT ![w] = h] /\ UNCHANGED <<recordVars, key, unpushed>>
  BY DEF Take, gatewayVars
<1> HIDE DEF p
<1>3. h.todo = {} /\ h.pc = p
  BY DEF EmptyHand
<1>4. p \notin AtKey \cup {"retire", "look", "repair", "update", "note"}
  BY <1>1 DEF AtKey
<1> HIDE DEF h
<1> QED BY <1>2, <1>3, <1>4, HandSetTokens

LEMMA PutDownTokens ==
  ASSUME ProvisioningInv, ProvisioningInv', TokenInv, NEW w \in Worker, Report(w) \/ Crash(w)
  PROVE  TokenInv'
<1>1. hand' = [hand EXCEPT ![w] = EmptyHand] /\ UNCHANGED <<recordVars, key, unpushed>>
  BY DEF Report, Crash, Forget, gatewayVars
<1>2. EmptyHand.todo = {} /\ EmptyHand.pc \notin AtKey \cup {"retire", "look", "repair", "update", "note"}
  BY DEF EmptyHand, AtKey
<1> QED BY <1>1, <1>2, HandSetTokens

LEMMA ErrorTokens ==
  ASSUME ProvisioningInv, ProvisioningInv', TokenInv, NEW w \in Worker, HandlerErrors(w)
  PROVE  TokenInv'
<1>1. UNCHANGED <<recordVars, key, unpushed>> /\ Return(w, "retry") /\ "retry" \in Returned
  BY DEF HandlerErrors, gatewayVars, Returned
<1> QED BY <1>1, SameGrantsDesired, ReturnKeepsTokens

\* A key that the gateway denies having is free from then on.
LEMMA NotFoundTokens ==
  ASSUME ProvisioningInv, TokenInv, OneAtATime, NEW w \in Worker, AnswersNotFound(w)
  PROVE  TokenInv'
<1>1. "notfound" \in Mishaps /\ UNCHANGED <<grant, cred, key>> /\ unpushed \subseteq unpushed'
  BY DEF AnswersNotFound, Mishap, recordVars, gatewayVars
<1>2. KeysFit'
  BY <1>1 DEF TokenInv, KeysFit
<1>3. Busy(w)
  BY DEF AnswersNotFound, Busy
<1>4. /\ \A v \in Worker : v # w => hand'[v] = hand[v]
      /\ Knows(hand'[w], grant', key', unpushed')
  <2>1. CASE Return(w, "ok")
    BY <2>1, ReturnRests, RestingKnows DEF Returned
  <2>2. CASE LeaveLoop(w)
    BY <2>2, LeaveLoopRests, RestingKnows
  <2>3. CASE hand[w].pc \in {"match", "update"} /\ Goto(w, "find")
    <3>1. Moves(w, "find") /\ hand'[w].todo = hand[w].todo
      <4>1. "find" \in Pc
        BY DEF Pc
      <4> QED BY <2>3, <4>1, GotoMoves, GotoKeepsTodo DEF ProvisioningInv
    <3>2. hand[w].job.epoch \in unpushed'
      BY <2>3 DEF AnswersNotFound, ProvisionPcs
    <3> QED BY <1>1, <3>1, <3>2 DEF TokenInv, Knows, Moves
  <2> QED BY <2>1, <2>2, <2>3 DEF AnswersNotFound
<1>5. ASSUME NEW v \in Worker, v # w PROVE Knows(hand'[v], grant', key', unpushed')
  <2>1. hand[v] = EmptyHand
    BY <1>3, <1>5, HandTypes DEF OneAtATime, Busy, HandFitsItsPlace
  <2> QED BY <1>4, <1>5, <2>1, EmptyKnows
<1> QED BY <1>1, <1>2, <1>4, <1>5 DEF TokenInv

\* The console revokes grants and gives none.
LEMMA AdminTokens ==
  ASSUME ProvisioningInv, TokenInv, Admin \/ EnqueueReconcile \/ Sweep \/ \E j \in Job : LeaseLapses(j)
  PROVE  TokenInv'
<1>1. CASE revokeGrant /\ UNCHANGED <<hand, key, unpushed>>
  <2>1. \A k \in Epoch : grant[k] \in Grant /\ [grant[k] EXCEPT !.desired = "revoked"].desired = "revoked"
    BY DEF ProvisioningInv, TypeOK, Grant
  <2>2. \A k \in Epoch : /\ grant'[k].desired # "active"
                         /\ grant[k].desired = "revoked" => grant'[k].desired = "revoked"
    BY <1>1, <2>1 DEF revokeGrant
  <2> QED BY <1>1, <2>2, OthersKeepTokens
<1>2. CASE UNCHANGED <<recordVars, hand, key, unpushed>>
  BY <1>2, OthersKeepTokens DEF recordVars
<1>3. (revokeGrant /\ UNCHANGED <<hand, key, unpushed>>) \/ UNCHANGED <<recordVars, hand, key, unpushed>>
  BY DEF Admin, Onboard, Reissue, Offboard, Delete, SetModels, SetQuota, replaceOutstandingWork,
         actionTaskRetry, actionTaskCancel, EnqueueReconcile, Sweep, LeaseLapses, gatewayVars
<1> QED BY <1>1, <1>2, <1>3

\* The gateway loses no key here: that is the one thing no handler can prevent.
LEMMA NextTokens ==
  ASSUME ~\E k \in Epoch : KeyLost(k), ProvisioningInv, TokenInv, OneAtATime, [Next]_vars
  PROVE  TokenInv'
<1>1. ProvisioningInv'
  BY NextInv
<1>2. CASE Admin \/ EnqueueReconcile \/ Sweep
  BY <1>2, AdminTokens
<1>3. ASSUME NEW w \in Worker, (\E j \in Job : Take(w, j)) \/ Handle(w) \/ Report(w)
      PROVE  TokenInv'
  BY <1>1, <1>3, TakeTokens, HandleTokens, PutDownTokens
<1>4. CASE Misfortune
  BY <1>1, <1>4, PutDownTokens, ErrorTokens, NotFoundTokens, SealFailsTokens, AdminTokens DEF Misfortune
<1>5. CASE UNCHANGED vars
  <2>1. UNCHANGED <<hand, key, grant, cred, unpushed>>
    BY <1>5 DEF vars, recordVars, gatewayVars
  <2> QED BY <2>1, OthersKeepTokens
<1> QED BY <1>2, <1>3, <1>4, <1>5 DEF Next

LEMMA InitTokens == Init => TokenInv
<1> SUFFICES ASSUME Init PROVE TokenInv
  OBVIOUS
<1>1. \A w \in Worker : hand[w] = EmptyHand
  BY DEF Init
<1>2. KeysFit /\ unpushed = {}
  BY DEF Init, KeysFit, NoGrant
<1> QED BY <1>1, <1>2, EmptyKnows DEF TokenInv

\* The token stored for the machines is the one the gateway knows, whatever
\* crashes, fails, is cancelled or cannot be sealed, as long as no two loops
\* are at work at the same moment and the gateway keeps its keys and denies none
\* of them (a 404 of /key/list or /key/update makes alreadyIssued go on to replace
\* the key of a stored token, gateway.go:295-308 and 497-499): the order of
\* GatewayProvision.Run (look for a stored token, delete the stray key, mint,
\* store) replaces no key under a stored token.
THEOREM StoredTokensWork ==
  ASSUME Mishaps \cap {"loss", "notfound"} = {}
  PROVE  Spec /\ []OneAtATime => []StoredTokenWorks
<1>1. Init => TokenInv
  BY InitTokens
<1>2. ProvisioningInv /\ OneAtATime /\ TokenInv /\ [Next]_vars => TokenInv'
  BY NextTokens DEF KeyLost, Mishap
<1>3. TokenInv => StoredTokenWorks
  BY DEF TokenInv, KeysFit, StoredTokenWorks
<1> QED
  BY <1>1, <1>2, <1>3, ProvisioningInvariance, PTL DEF Spec

\* One console is enough for that: its Worker works one task after the other,
\* and a second console may be run without one (dbmode.go:54, worker.go:164).
THEOREM OneLoopKeepsTokensWorking ==
  ASSUME Mishaps \cap {"loss", "notfound"} = {}, \A v, w \in Worker : v = w
  PROVE  Spec => []StoredTokenWorks
<1>1. OneAtATime
  BY DEF OneAtATime
<1>2. []OneAtATime
  BY <1>1, PTL
<1> QED
  BY <1>2, StoredTokensWork, PTL

-----------------------------------------------------------------------------
(* The models chosen last reach the key.  A handler carries the models it  *)
(* read until it has pushed and recorded them; if they are old by then,    *)
(* another provisioning of the epoch is outstanding.                       *)

\* A task somebody still has to do, or to ask for again.
Unfinished(j) == state[j] \notin {"absent", "done"}

\* Besides j, another provisioning of its epoch is outstanding.
ToCome(j) == \E n \in 0 .. MaxEdits : Provision(j.epoch, n) # j /\ Unfinished(Provision(j.epoch, n))

\* A provisioning handler that has read the employee and has not returned.
Past(h) == h.job.kind = "provision" /\ h.pc \notin {"idle", "load"} \cup Returned

\* What it will push is what is wanted, or something newer is to come.
PushesLatest(h) == Past(h) /\ h.job.epoch = epoch => h.models = wanted \/ ToCome(h.job)

\* So is what it has recorded when it reports success.
LeavesLatest(h) ==
  h.job.kind = "provision" /\ h.pc = "ok" /\ h.job.epoch = epoch /\ ~Free(epoch)
    => grant[h.job.epoch].models = wanted \/ ToCome(h.job)

\* A key that is made or updated, and not yet recorded, has the models of the hand.
KeyIsInHand(h) == h.pc \in {"reread", "commit", "note"} => key[h.job.epoch].models = h.models

HandIsLatest(h) ==
  /\ h.job.kind = "provision" => Unfinished(h.job)
  /\ PushesLatest(h)
  /\ LeavesLatest(h)
  /\ KeyIsInHand(h)

OpenedHasEpoch == status # "absent" => epoch \in Epoch

\* The task of an edit to come has never been posted.
MarksAreNew == \A k \in Epoch, n \in 0 .. MaxEdits : n > edits => state[Provision(k, n)] = "absent"

KeysMatchGrants ==
  \A k \in Epoch : ~Free(k) =>
    key[k].models = grant[k].models \/ \E w \in Worker : hand[w].pc = "note" /\ hand[w].job.epoch = k

SettledIsLatest ==
  status = "active" /\ ~Free(epoch) /\ (\A n \in 0 .. MaxEdits : ~Unfinished(Provision(epoch, n)))
    => grant[epoch].models = wanted

EditsInv ==
  /\ OpenedHasEpoch
  /\ MarksAreNew
  /\ \A w \in Worker : HandIsLatest(hand[w])
  /\ KeysMatchGrants
  /\ SettledIsLatest

LEMMA ProvisionJobs ==
  /\ \A k \in Epoch, n \in 0 .. MaxEdits : Provision(k, n) \in Job
  /\ \A j \in Job : j.kind = "provision" => \E n \in 0 .. MaxEdits : j = Provision(j.epoch, n)
  /\ \A k, n, l, m : Provision(k, n) = Provision(l, m) => k = l /\ n = m
BY DEF Job, Provision, Revoke, Remove, Reconcile

LEMMA IdleIsLatest == HandIsLatest(EmptyHand)
BY DEF HandIsLatest, PushesLatest, LeavesLatest, KeyIsInHand, Past, EmptyHand, NoJob

\* Nothing is finished, and nothing that was posted is forgotten.
BoardGrows == \A j \in Job : state'[j] = state[j] \/ state'[j] \notin {"absent", "done"}

LEMMA SettleGrows ==
  ASSUME NEW J, NEW S, \A j \in J : S[j] \notin {"absent", "done"}, Board!Settle(J, S)
  PROVE  BoardGrows
BY DEF Board!Settle, BoardGrows

LEMMA SettleMarks ==
  ASSUME TypeOK, MarksAreNew, NEW J, NEW S, Board!Settle(J, S), edits' \in 0 .. MaxEdits, edits <= edits',
         \A k \in Epoch, n \in 0 .. MaxEdits : n > edits' /\ Provision(k, n) \in J => state[Provision(k, n)] # "absent"
  PROVE  MarksAreNew'
<1> SUFFICES ASSUME NEW k \in Epoch, NEW n \in 0 .. MaxEdits, n > edits'
             PROVE  state'[Provision(k, n)] = "absent"
  BY DEF MarksAreNew
<1>1. n > edits
  <2>1. edits \in Int /\ edits' \in Int /\ n \in Int
    BY DEF TypeOK
  <2> QED BY <2>1
<1>2. state[Provision(k, n)] = "absent"
  BY <1>1 DEF MarksAreNew
<1> QED BY <1>2, ProvisionJobs DEF Board!Settle

LEMMA UnfinishedStays ==
  ASSUME BoardGrows
  PROVE  \A k \in Epoch, n \in 0 .. MaxEdits :
           state[Provision(k, n)] \notin {"absent", "done"} => state'[Provision(k, n)] \notin {"absent", "done"}
BY ProvisionJobs DEF BoardGrows

LEMMA HandJob ==
  ASSUME ProvisioningInv, NEW w \in Worker, hand[w].job.kind = "provision"
  PROVE  /\ hand[w].job \in Job /\ hand[w].job.epoch \in Epoch
         /\ \E n \in 0 .. MaxEdits : hand[w].job = Provision(hand[w].job.epoch, n)
<1>1. hand[w].job \in Job
  BY HandTypes DEF Hand, NoJob
<1> QED BY <1>1, JobTypes, ProvisionJobs

\* What is to come besides the job in hand is still to come.
LEMMA ToComeStays ==
  ASSUME ProvisioningInv, BoardGrows, NEW w \in Worker, hand'[w].job = hand[w].job,
         hand[w].job.kind = "provision", ToCome(hand[w].job)
  PROVE  ToCome(hand[w].job)'
<1>1. hand[w].job.epoch \in Epoch
  BY HandJob
<1> QED BY <1>1, UnfinishedStays DEF ToCome, Unfinished

-----------------------------------------------------------------------------
(* Steps that leave the hands alone.                                       *)

\* A hand that does not change while what is wanted stays as it is.
LEMMA HandStaysLatest ==
  ASSUME ProvisioningInv, NEW w \in Worker, HandIsLatest(hand[w]), BoardGrows, hand'[w] = hand[w],
         UNCHANGED <<epoch, wanted, key, unpushed>>,
         \A k \in Epoch : grant'[k].desired = "active" => grant'[k] = grant[k]
  PROVE  HandIsLatest(hand[w])'
<1> DEFINE j == hand[w].job
<1>1. j.kind = "provision" => j \in Job /\ j.epoch \in Epoch
  BY HandJob
<1>2. j.kind = "provision" => Unfinished(hand[w].job)'
  BY <1>1 DEF HandIsLatest, BoardGrows, Unfinished
<1>3. j.kind = "provision" /\ ToCome(hand[w].job) => ToCome(hand[w].job)'
  BY ToComeStays
<1>4. PushesLatest(hand[w])'
  BY <1>3 DEF HandIsLatest, PushesLatest, Past
<1>5. LeavesLatest(hand[w])'
  BY <1>1, <1>3 DEF HandIsLatest, LeavesLatest
<1>6. KeyIsInHand(hand[w])'
  BY DEF HandIsLatest, KeyIsInHand
<1> QED BY <1>2, <1>4, <1>5, <1>6 DEF HandIsLatest

LEMMA SettledStays ==
  ASSUME ProvisioningInv, SettledIsLatest, OpenedHasEpoch, BoardGrows, UNCHANGED <<epoch, wanted, unpushed>>,
         status' = "active" => status = "active",
         \A k \in Epoch : grant'[k].desired = "active" => grant'[k] = grant[k]
  PROVE  SettledIsLatest'
<1> SUFFICES ASSUME status' = "active", ~Free(epoch)',
                    \A n \in 0 .. MaxEdits : state'[Provision(epoch, n)] \in {"absent", "done"}
             PROVE  grant'[epoch].models = wanted
  BY DEF SettledIsLatest, Unfinished
<1>1. epoch \in Epoch /\ status = "active"
  BY DEF OpenedHasEpoch
<1>2. grant'[epoch] = grant[epoch]
  BY <1>1
<1>3. \A n \in 0 .. MaxEdits : ~Unfinished(Provision(epoch, n))
  BY <1>1, UnfinishedStays DEF Unfinished
<1> QED BY <1>1, <1>2, <1>3 DEF SettledIsLatest

LEMMA SameStepEdits ==
  ASSUME ProvisioningInv, EditsInv, BoardGrows, MarksAreNew',
         UNCHANGED <<epoch, wanted, hand, key, unpushed>>,
         status' = "active" => status = "active", status' # "absent" => status # "absent",
         \A k \in Epoch : grant'[k].desired = "active" => grant'[k] = grant[k]
  PROVE  EditsInv'
<1>1. OpenedHasEpoch'
  BY DEF EditsInv, OpenedHasEpoch
<1>2. ASSUME NEW w \in Worker PROVE HandIsLatest(hand[w])'
  BY HandStaysLatest DEF EditsInv
<1>3. KeysMatchGrants'
  BY DEF EditsInv, KeysMatchGrants
<1>4. SettledIsLatest'
  BY SettledStays DEF EditsInv
<1> QED BY <1>1, <1>2, <1>3, <1>4 DEF EditsInv

\* The account moves on: what any hand carries is of an epoch that is over.
LEMMA EpochStepEdits ==
  ASSUME ProvisioningInv, EditsInv, BoardGrows, MarksAreNew', UNCHANGED <<hand, key, unpushed>>,
         epoch' \in Epoch, epoch' = epoch + 1,
         \A k \in Epoch : grant'[k].desired # "active"
  PROVE  EditsInv'
<1>1. OpenedHasEpoch' /\ KeysMatchGrants' /\ SettledIsLatest'
  BY DEF OpenedHasEpoch, KeysMatchGrants, SettledIsLatest
<1>2. ASSUME NEW w \in Worker PROVE HandIsLatest(hand[w])'
  <2> DEFINE j == hand[w].job
  <2>1. j.kind = "provision" => j \in Job /\ j.epoch \in Epoch
    BY HandJob
  <2>2. HandIsLatest(hand[w]) /\ hand'[w] = hand[w]
    BY DEF EditsInv
  <2>3. j.kind = "provision" => Unfinished(hand[w].job)'
    BY <2>1, <2>2 DEF HandIsLatest, BoardGrows, Unfinished
  <2>4. ~(Past(hand[w]) /\ j.epoch = epoch')
    <3>1. Timely(hand[w]) /\ epoch \in Nat /\ j.epoch \in Nat
      BY HandTypes, JobTypes DEF ProvisioningInv, HandsAreTimely, TypeOK, Hand, NoJob
    <3> QED BY <3>1 DEF Timely, Past
  <2>5. PushesLatest(hand[w])'
    BY <2>2, <2>4 DEF PushesLatest, Past
  <2>6. LeavesLatest(hand[w])'
    BY <2>1, <2>2 DEF LeavesLatest
  <2>7. KeyIsInHand(hand[w])'
    BY <2>2 DEF HandIsLatest, KeyIsInHand
  <2> QED BY <2>2, <2>3, <2>5, <2>6, <2>7 DEF HandIsLatest
<1> QED BY <1>1, <1>2 DEF EditsInv

\* An edit: its own task is to come, whatever is being pushed.
LEMMA EditStepEdits ==
  ASSUME ProvisioningInv, EditsInv, status # "absent", edits < MaxEdits, edits' = edits + 1,
         Board!Post(Provision(epoch, edits + 1)), UNCHANGED <<status, epoch, grant, key, hand, unpushed>>
  PROVE  EditsInv'
<1> DEFINE n == edits + 1
           j == Provision(epoch, n)
<1>1. epoch \in Epoch /\ n \in 0 .. MaxEdits /\ edits \in Nat /\ n > edits
  BY ProvisioningAssumption DEF EditsInv, OpenedHasEpoch, ProvisioningInv, TypeOK, ProvisioningAssumption
<1>2. j \in Job /\ state[j] = "absent"
  BY <1>1, ProvisionJobs DEF EditsInv, MarksAreNew
<1>3. Board!Settle({j}, [i \in {j} |-> "waiting"])
  BY DEF Board!Post
<1>4. state'[j] = "waiting"
  BY <1>2, <1>3 DEF Board!Settle
<1>5. BoardGrows
  BY <1>3 DEF Board!Settle, BoardGrows
<1>6. MarksAreNew'
  <2>1. \A k \in Epoch, m \in 0 .. MaxEdits : m > edits' /\ Provision(k, m) \in {j} => state[Provision(k, m)] # "absent"
    <3>1. \A m \in 0 .. MaxEdits : m > edits' => m # n
      BY <1>1
    <3> QED BY <3>1, ProvisionJobs
  <2>2. TypeOK /\ MarksAreNew /\ edits' \in 0 .. MaxEdits /\ edits <= edits'
    BY <1>1 DEF EditsInv, ProvisioningInv
  <2> HIDE DEF j, n
  <2> QED BY <1>3, <2>1, <2>2, SettleMarks
<1>7. OpenedHasEpoch' /\ KeysMatchGrants'
  BY DEF EditsInv, OpenedHasEpoch, KeysMatchGrants
<1>8. SettledIsLatest'
  BY <1>1, <1>4 DEF SettledIsLatest, Unfinished
<1>9. ASSUME NEW w \in Worker PROVE HandIsLatest(hand[w])'
  <2>1. HandIsLatest(hand[w]) /\ hand'[w] = hand[w]
    BY DEF EditsInv
  <2>2. hand[w].job.kind = "provision" => hand[w].job \in Job
    BY HandJob
  <2>3. hand[w].job.kind = "provision" => Unfinished(hand[w].job)'
    BY <1>5, <2>1, <2>2 DEF HandIsLatest, BoardGrows, Unfinished
  <2>4. hand[w].job.kind = "provision" => hand[w].job # j
    BY <1>2, <2>1 DEF HandIsLatest, Unfinished
  <2>5. hand[w].job.kind = "provision" /\ hand[w].job.epoch = epoch => ToCome(hand[w].job)'
    BY <1>1, <1>4, <2>1, <2>4 DEF ToCome, Unfinished
  <2>6. PushesLatest(hand[w])' /\ LeavesLatest(hand[w])'
    BY <2>1, <2>5 DEF PushesLatest, LeavesLatest, Past
  <2>7. KeyIsInHand(hand[w])'
    BY <2>1 DEF HandIsLatest, KeyIsInHand
  <2> QED BY <2>1, <2>3, <2>6, <2>7 DEF HandIsLatest
<1> QED BY <1>6, <1>7, <1>8, <1>9 DEF EditsInv

LEMMA SupersedeEdits ==
  ASSUME ProvisioningInv, EditsInv, NEW k, NEW j, SupersedeAndEnqueue(k, j), UNCHANGED edits,
         j.kind = "provision" => j.edit = 0
  PROVE  BoardGrows /\ MarksAreNew'
<1> DEFINE J == OpenJobsBelow(k) \cup (IF state[j] \in {"absent", "failed"} THEN {j} ELSE {})
           S == [i \in J |-> IF i = j THEN "waiting" ELSE "dropped"]
<1>1. Board!Settle(J, S)
  BY DEF SupersedeAndEnqueue
<1>2. \A i \in J : S[i] \notin {"absent", "done"}
  OBVIOUS
<1>3. \A l \in Epoch, n \in 0 .. MaxEdits : n > edits' /\ Provision(l, n) \in J => state[Provision(l, n)] # "absent"
  <2> SUFFICES ASSUME NEW l \in Epoch, NEW n \in 0 .. MaxEdits, n > edits', Provision(l, n) \in J
               PROVE  state[Provision(l, n)] # "absent"
    OBVIOUS
  <2>1. n # 0
    BY DEF ProvisioningInv, TypeOK
  <2>2. Provision(l, n) # j
    BY <2>1 DEF Provision
  <2> QED BY <2>2 DEF OpenJobsBelow, Board!OpenStates
<1>4. TypeOK /\ MarksAreNew /\ edits' \in 0 .. MaxEdits /\ edits <= edits'
  BY DEF EditsInv, ProvisioningInv, TypeOK
<1> HIDE DEF J, S
<1> QED BY <1>1, <1>2, <1>3, <1>4, SettleGrows, SettleMarks

\* Jobs that are on the board already are given back, dropped or asked for again.
LEMMA SettleEdits ==
  ASSUME ProvisioningInv, EditsInv, NEW J, NEW S, Board!Settle(J, S), UNCHANGED edits,
         \A j \in J : S[j] \notin {"absent", "done"} /\ (j.kind = "provision" => state[j] # "absent")
  PROVE  BoardGrows /\ MarksAreNew'
<1>1. \A k \in Epoch, n \in 0 .. MaxEdits : n > edits' /\ Provision(k, n) \in J => state[Provision(k, n)] # "absent"
  BY DEF Provision
<1>2. TypeOK /\ MarksAreNew /\ edits' \in 0 .. MaxEdits /\ edits <= edits'
  BY DEF EditsInv, ProvisioningInv, TypeOK
<1> QED BY <1>1, <1>2, SettleGrows, SettleMarks

LEMMA RevokeGrantEdits ==
  ASSUME ProvisioningInv, revokeGrant
  PROVE  \A k \in Epoch : grant'[k].desired # "active"
<1>1. \A k \in Epoch : grant[k] \in Grant /\ [grant[k] EXCEPT !.desired = "revoked"].desired = "revoked"
  BY DEF ProvisioningInv, TypeOK, Grant
<1> QED BY <1>1 DEF revokeGrant

LEMMA AdminEdits ==
  ASSUME ProvisioningInv, ProvisioningInv', EditsInv, Admin
  PROVE  EditsInv'
<1>1. ASSUME replaceOutstandingWork(epoch + 1), epoch' = epoch + 1, epoch < MaxEpoch, UNCHANGED <<edits, key, hand, unpushed>>
      PROVE  EditsInv'
  <2>1. Provision(epoch + 1, 0).edit = 0 /\ epoch' \in Epoch
    BY <1>1, ProvisioningAssumption DEF Provision, ProvisioningInv, TypeOK, Epoch, ProvisioningAssumption
  <2>2. BoardGrows /\ MarksAreNew'
    BY <1>1, <2>1, SupersedeEdits DEF replaceOutstandingWork
  <2>3. \A k \in Epoch : grant'[k].desired # "active"
    BY <1>1, RevokeGrantEdits DEF replaceOutstandingWork
  <2> QED BY <1>1, <2>1, <2>2, <2>3, EpochStepEdits
<1>2. ASSUME NEW m \in Models, Onboard(m) PROVE EditsInv'
  BY <1>1, <1>2 DEF Onboard, gatewayVars
<1>3. CASE Reissue
  BY <1>1, <1>3 DEF Reissue, gatewayVars
<1>4. CASE Offboard
  <2> DEFINE k == IF status = "active" THEN epoch + 1 ELSE epoch
  <2>1. epoch' = k /\ SupersedeAndEnqueue(k, Revoke(k)) /\ revokeGrant /\ UNCHANGED <<wanted, edits, hand, key, unpushed>>
    BY <1>4 DEF Offboard, gatewayVars
  <2>2. BoardGrows /\ MarksAreNew'
    BY <2>1, SupersedeEdits DEF Revoke
  <2>3. \A i \in Epoch : grant'[i].desired # "active"
    BY <2>1, RevokeGrantEdits
  <2>4. CASE status = "active"
    <3>1. epoch' \in Epoch
      BY <1>4, <2>1, <2>4, ProvisioningAssumption DEF Offboard, ProvisioningInv, TypeOK, Epoch, ProvisioningAssumption
    <3> QED BY <2>1, <2>2, <2>3, <2>4, <3>1, EpochStepEdits
  <2>5. CASE status # "active"
    <3>1. status' = "offboarded" /\ status = "offboarded" /\ epoch' = epoch
      BY <1>4, <2>1, <2>5 DEF Offboard
    <3> QED BY <2>1, <2>2, <2>3, <3>1, SameStepEdits
  <2> QED BY <2>4, <2>5
<1>5. CASE Delete
  <2>1. /\ SupersedeAndEnqueue(epoch + 1, Remove(epoch)) /\ UNCHANGED <<epoch, wanted, edits, grant, hand, key, unpushed>>
        /\ status = "offboarded" /\ status' = "deleted"
    BY <1>5 DEF Delete, recordVars, gatewayVars
  <2>2. BoardGrows /\ MarksAreNew'
    BY <2>1, SupersedeEdits DEF Remove
  <2> QED BY <2>1, <2>2, SameStepEdits
<1>6. CASE SetQuota \/ \E m \in Models : SetModels(m)
  BY <1>6, EditStepEdits DEF SetQuota, SetModels, recordVars, gatewayVars
<1>7. ASSUME NEW j \in Job, actionTaskRetry(j) PROVE EditsInv'
  <2>1. Board!Settle({j}, [i \in {j} |-> "waiting"]) /\ state[j] = "failed"
    BY <1>7 DEF actionTaskRetry, Board!Post
  <2>2. UNCHANGED <<status, epoch, wanted, edits, grant, hand, key, unpushed>>
    BY <1>7 DEF actionTaskRetry, accountVars, recordVars, gatewayVars
  <2>3. BoardGrows /\ MarksAreNew'
    BY <2>1, <2>2, SettleEdits
  <2> QED BY <2>2, <2>3, SameStepEdits
<1>8. ASSUME NEW j \in Job, actionTaskCancel(j) PROVE EditsInv'
  <2>1. Board!Settle({j}, [i \in {j} |-> "dropped"]) /\ state[j] # "absent"
    BY <1>8 DEF actionTaskCancel, Board!Withdraw, Board!OpenStates
  <2>2. UNCHANGED <<status, epoch, wanted, edits, grant, hand, key, unpushed>>
    BY <1>8 DEF actionTaskCancel, accountVars, recordVars, gatewayVars
  <2>3. BoardGrows /\ MarksAreNew'
    BY <2>1, <2>2, SettleEdits
  <2> QED BY <2>2, <2>3, SameStepEdits
<1> QED BY <1>2, <1>3, <1>4, <1>5, <1>6, <1>7, <1>8 DEF Admin

\* The scheduler and the sweep.
LEMMA BoardEdits ==
  ASSUME ProvisioningInv, EditsInv, EnqueueReconcile \/ Sweep \/ \E j \in Job : LeaseLapses(j)
  PROVE  EditsInv'
<1>1. UNCHANGED <<status, epoch, wanted, edits, grant, hand, key, unpushed>>
  BY DEF EnqueueReconcile, Sweep, LeaseLapses, accountVars, recordVars, gatewayVars
<1>2. CASE EnqueueReconcile
  <2>1. Board!Settle({Reconcile}, [j \in {Reconcile} |-> "waiting"]) /\ Reconcile.kind # "provision"
    BY <1>2 DEF EnqueueReconcile, Reconcile
  <2>2. BoardGrows /\ MarksAreNew'
    BY <1>1, <2>1, SettleEdits
  <2> QED BY <1>1, <2>2, SameStepEdits
<1>3. ASSUME NEW J, NEW S \in [J -> {"waiting", "failed"}], Board!GiveBack(J, S) PROVE EditsInv'
  <2>1. Board!Settle(J, S) /\ \A j \in J : S[j] \notin {"absent", "done"} /\ state[j] # "absent"
    BY <1>3 DEF Board!GiveBack
  <2>2. BoardGrows /\ MarksAreNew'
    BY <1>1, <2>1, SettleEdits
  <2> QED BY <1>1, <2>2, SameStepEdits
<1>4. CASE Sweep
  BY <1>3, <1>4 DEF Sweep
<1>5. ASSUME NEW j \in Job, LeaseLapses(j) PROVE EditsInv'
  <2>1. PICK s \in {"waiting", "failed"} : Board!GiveBack({j}, [i \in {j} |-> s])
    BY <1>5 DEF LeaseLapses
  <2>2. [i \in {j} |-> s] \in [{j} -> {"waiting", "failed"}]
    OBVIOUS
  <2> QED BY <1>3, <2>1, <2>2
<1> QED BY <1>2, <1>4, <1>5

-----------------------------------------------------------------------------
(* Taking a job and reporting on it.                                       *)

LEMMA EmptyIsLatest ==
  ASSUME NEW w \in Worker, hand'[w] = EmptyHand
  PROVE  HandIsLatest(hand[w])'
BY DEF HandIsLatest, PushesLatest, LeavesLatest, KeyIsInHand, Past, EmptyHand, NoJob

\* While one loop is at work, the others have nothing in hand.
LEMMA OthersAreIdle ==
  ASSUME ProvisioningInv, OneAtATime, NEW w \in Worker, Busy(w)
  PROVE  \A v \in Worker : v # w => hand[v] = EmptyHand /\ hand[v].pc = "idle"
BY HandTypes DEF OneAtATime, Busy, HandFitsItsPlace

LEMMA TakeEdits ==
  ASSUME ProvisioningInv, EditsInv, NEW w \in Worker, NEW j \in Job, Take(w, j)
  PROVE  EditsInv'
<1> DEFINE p == CASE j.kind = "provision" -> "load"
                  [] j.kind = "delete"    -> "permanent"
                  [] OTHER                -> "list"
           h == [EmptyHand EXCEPT !.job = j, !.pc = p]
<1>1. p \in {"load", "permanent", "list"} /\ (j.kind = "provision" => p = "load")
  OBVIOUS
<1>2. /\ hand' = [hand EXCEPT ![w] = h] /\ hand[w].pc = "idle"
      /\ UNCHANGED <<status, epoch, wanted, edits, grant, key, unpushed>>
      /\ state[j] = "waiting" /\ state' = [state EXCEPT ![j] = "held"]
  BY DEF Take, Busy, Board!Take, accountVars, recordVars, gatewayVars
<1> HIDE DEF p
<1>3. h.job = j /\ h.pc = p
  BY DEF EmptyHand
<1> HIDE DEF h
<1>4. hand'[w] = h /\ \A v \in Worker : v # w => hand'[v] = hand[v]
  BY <1>2 DEF ProvisioningInv, TypeOK
<1>5. state \in [Job -> Board!JobState]
  BY DEF ProvisioningInv, TypeOK, Board!BoardTypeOK
<1>6. BoardGrows
  BY <1>2, <1>5 DEF BoardGrows
<1>7. OpenedHasEpoch'
  BY <1>2 DEF EditsInv, OpenedHasEpoch
<1>8. MarksAreNew'
  BY <1>2, <1>5, ProvisionJobs DEF EditsInv, MarksAreNew
<1>9. HandIsLatest(hand[w])'
  <2>1. Unfinished(hand[w].job)'
    BY <1>2, <1>3, <1>4, <1>5 DEF Unfinished
  <2>2. ~Past(hand[w])' /\ hand'[w].pc \notin {"ok", "reread", "commit", "note"}
    BY <1>1, <1>3, <1>4 DEF Past
  <2> QED BY <2>1, <2>2 DEF HandIsLatest, PushesLatest, LeavesLatest, KeyIsInHand
<1>10. ASSUME NEW v \in Worker PROVE HandIsLatest(hand[v])'
  <2>1. CASE v = w
    BY <1>9, <2>1
  <2>2. CASE v # w
    BY <1>2, <1>4, <1>6, <2>2, HandStaysLatest DEF EditsInv
  <2> QED BY <2>1, <2>2
<1>11. KeysMatchGrants'
  BY <1>2, <1>4 DEF EditsInv, KeysMatchGrants
<1>12. SettledIsLatest'
  BY <1>2, <1>6, SettledStays DEF EditsInv
<1> QED BY <1>7, <1>8, <1>10, <1>11, <1>12 DEF EditsInv

\* A success leaves nothing old behind: what is not the latest is followed by another task.
LEMMA ReportEdits ==
  ASSUME ProvisioningInv, EditsInv, OneAtATime, NEW w \in Worker, Report(w)
  PROVE  EditsInv'
<1> DEFINE j == hand[w].job
<1>1. /\ hand' = [hand EXCEPT ![w] = EmptyHand] /\ hand[w].pc \in Returned
      /\ UNCHANGED <<status, epoch, wanted, edits, grant, key, unpushed>>
  BY DEF Report, Forget, accountVars, recordVars, gatewayVars
<1>2. Busy(w) /\ hand[w].pc # "note"
  BY <1>1 DEF Busy, Returned
<1>3. \A v \in Worker : hand'[v] = EmptyHand
  BY <1>1, <1>2, OthersAreIdle DEF ProvisioningInv, TypeOK
<1>4. \A v \in Worker : HandIsLatest(hand[v])'
  BY <1>3, EmptyIsLatest
<1>5. OpenedHasEpoch'
  BY <1>1 DEF EditsInv, OpenedHasEpoch
<1>6. KeysMatchGrants'
  <2>1. \A v \in Worker : hand[v].pc # "note"
    BY <1>2, OthersAreIdle
  <2> QED BY <1>1, <2>1 DEF EditsInv, KeysMatchGrants
<1>7. CASE UNCHANGED state
  <2>1. BoardGrows /\ MarksAreNew'
    BY <1>1, <1>7 DEF BoardGrows, EditsInv, MarksAreNew
  <2>2. SettledIsLatest'
    BY <1>1, <2>1, SettledStays DEF EditsInv
  <2> QED BY <1>4, <1>5, <1>6, <2>1, <2>2 DEF EditsInv
<1>8. ASSUME NEW s, Board!Close(w, j, s), s = "done" => hand[w].pc = "ok", s # "absent"
      PROVE  EditsInv'
  <2>1. Board!Settle({j}, [i \in {j} |-> s]) /\ state[j] = "held"
    BY <1>8 DEF Board!Close
  <2>2. MarksAreNew'
    <3>1. TypeOK /\ MarksAreNew /\ edits' \in 0 .. MaxEdits /\ edits <= edits'
      BY <1>1 DEF EditsInv, ProvisioningInv, TypeOK
    <3>2. \A k \in Epoch, n \in 0 .. MaxEdits : n > edits' /\ Provision(k, n) \in {j} => state[Provision(k, n)] # "absent"
      BY <2>1
    <3> HIDE DEF j
    <3> QED BY <2>1, <3>1, <3>2, SettleMarks
  <2>3. SettledIsLatest'
    <3>1. CASE s # "done"
      <4>1. BoardGrows
        BY <1>8, <2>1, <3>1 DEF Board!Settle, BoardGrows
      <4> QED BY <1>1, <4>1, SettledStays DEF EditsInv
    <3>2. CASE s = "done"
      <4> SUFFICES ASSUME status = "active", ~Free(epoch),
                          \A n \in 0 .. MaxEdits : state'[Provision(epoch, n)] \in {"absent", "done"}
                   PROVE  grant[epoch].models = wanted
        BY <1>1 DEF SettledIsLatest, Unfinished
      <4>1. epoch \in Epoch
        BY DEF EditsInv, OpenedHasEpoch
      <4>2. \A n \in 0 .. MaxEdits : Provision(epoch, n) # j => ~Unfinished(Provision(epoch, n))
        BY <2>1, <4>1, ProvisionJobs DEF Board!Settle, Unfinished
      <4>3. CASE \A n \in 0 .. MaxEdits : ~Unfinished(Provision(epoch, n))
        BY <4>3 DEF EditsInv, SettledIsLatest
      <4>4. CASE \E n \in 0 .. MaxEdits : j = Provision(epoch, n)
        <5>1. j.kind = "provision" /\ j.epoch = epoch
          BY <4>4 DEF Provision
        <5>2. LeavesLatest(hand[w]) /\ hand[w].pc = "ok"
          BY <1>8, <3>2 DEF EditsInv, HandIsLatest
        <5>3. ~ToCome(j)
          BY <4>2, <5>1 DEF ToCome
        <5> QED BY <5>1, <5>2, <5>3 DEF LeavesLatest
      <4> QED BY <4>2, <4>3, <4>4
    <3> QED BY <3>1, <3>2
  <2> QED BY <1>4, <1>5, <1>6, <2>2, <2>3 DEF EditsInv
<1>9. \/ UNCHANGED state
      \/ \E s \in {"done", "failed", "waiting"} : Board!Close(w, j, s) /\ (s = "done" => hand[w].pc = "ok")
  <2> DEFINE outcomes == CASE hand[w].pc = "ok" -> {"done"}
                           [] hand[w].pc = "permanent" -> {"failed"}
                           [] OTHER -> {"waiting", "failed"}
  <2>1. UNCHANGED state \/ \E s \in outcomes : Board!Close(w, j, s)
    BY DEF Report, boardVars
  <2>2. \A s \in outcomes : s \in {"done", "failed", "waiting"} /\ (s = "done" => hand[w].pc = "ok")
    OBVIOUS
  <2> HIDE DEF outcomes, j
  <2> QED BY <2>1, <2>2
<1> QED BY <1>7, <1>8, <1>9

-----------------------------------------------------------------------------
(* The handlers.                                                           *)

Works(w) ==
  /\ hand[w].pc \notin {"idle"} \cup Returned
  /\ \A v \in Worker : v # w => hand'[v] = hand[v]
  /\ hand'[w].job = hand[w].job
  /\ UNCHANGED <<status, epoch, wanted, edits, state>>

\* A step of the one handler at work.
LEMMA WorkEdits ==
  ASSUME ProvisioningInv, EditsInv, OneAtATime, NEW w \in Worker, Works(w),
         PushesLatest(hand[w])', LeavesLatest(hand[w])', KeyIsInHand(hand[w])',
         \A k \in Epoch : ~Free(k)' =>
           /\ key'[k].models = grant'[k].models \/ (hand'[w].pc = "note" /\ hand'[w].job.epoch = k)
           /\ \/ ~Free(k) /\ grant'[k].models = grant[k].models
              \/ hand[w].job.kind = "provision" /\ hand[w].job.epoch = k
  PROVE  EditsInv'
<1>1. OpenedHasEpoch' /\ MarksAreNew'
  BY DEF Works, EditsInv, OpenedHasEpoch, MarksAreNew
<1>2. HandIsLatest(hand[w])'
  BY DEF Works, EditsInv, HandIsLatest, Unfinished
<1>3. ASSUME NEW v \in Worker, v # w PROVE HandIsLatest(hand[v])'
  <2>1. hand'[v] = EmptyHand
    BY <1>3, OthersAreIdle DEF Works, Busy
  <2> QED BY <2>1, EmptyIsLatest
<1>4. KeysMatchGrants'
  BY DEF KeysMatchGrants
<1>5. SettledIsLatest'
  <2> SUFFICES ASSUME status = "active", ~Free(epoch)',
                      \A n \in 0 .. MaxEdits : ~Unfinished(Provision(epoch, n))
               PROVE  grant'[epoch].models = wanted
    BY DEF Works, SettledIsLatest, Unfinished
  <2>1. epoch \in Epoch
    BY DEF EditsInv, OpenedHasEpoch
  <2>2. ~(hand[w].job.kind = "provision" /\ hand[w].job.epoch = epoch)
    BY HandJob DEF EditsInv, HandIsLatest
  <2>3. ~Free(epoch) /\ grant'[epoch].models = grant[epoch].models
    BY <2>1, <2>2 DEF Works
  <2> QED BY <2>3 DEF EditsInv, SettledIsLatest
<1> QED BY <1>1, <1>2, <1>3, <1>4, <1>5 DEF EditsInv

\* Grants are wanted as they were, with the same models; and the key of none of
\* them gets other models.
GrantsLook ==
  \A k \in Epoch :
    /\ grant'[k].desired = grant[k].desired /\ grant'[k].models = grant[k].models
    /\ ~Free(k) => key'[k].models = key[k].models

LEMMA GrantsLookSame == UNCHANGED <<grant, key>> => GrantsLook
BY DEF GrantsLook

\* A handler that goes on to p with what it carries.
Onward(w, p) ==
  /\ \A v \in Worker : v # w => hand'[v] = hand[v]
  /\ hand'[w].pc = p
  /\ hand'[w].job = hand[w].job
  /\ hand'[w].models = hand[w].models

LEMMA KeysStillMatch ==
  ASSUME ProvisioningInv, EditsInv, OneAtATime, NEW w \in Worker, Works(w), hand[w].pc # "note", GrantsLook,
         unpushed \subseteq unpushed'
  PROVE  \A k \in Epoch : ~Free(k)' =>
           /\ key'[k].models = grant'[k].models
           /\ ~Free(k) /\ grant'[k].models = grant[k].models
<1>1. \A v \in Worker : hand[v].pc # "note"
  BY OthersAreIdle DEF Works, Busy
<1> QED BY <1>1 DEF GrantsLook, EditsInv, KeysMatchGrants

LEMMA OnwardEdits ==
  ASSUME ProvisioningInv, EditsInv, OneAtATime, NEW w \in Worker, NEW p, Onward(w, p),
         hand[w].pc \notin {"idle", "load", "note"} \cup Returned,
         p \notin {"note", "ok"},
         p \in {"reread", "commit"} => key'[hand[w].job.epoch].models = hand[w].models,
         GrantsLook, UNCHANGED <<status, epoch, wanted, edits, state>>, unpushed \subseteq unpushed'
  PROVE  EditsInv'
<1>1. Works(w)
  BY DEF Works, Onward
<1>2. PushesLatest(hand[w])'
  BY DEF Onward, EditsInv, HandIsLatest, PushesLatest, Past, ToCome, Unfinished
<1>3. LeavesLatest(hand[w])' /\ KeyIsInHand(hand[w])'
  BY DEF Onward, LeavesLatest, KeyIsInHand
<1> QED BY <1>1, <1>2, <1>3, KeysStillMatch, WorkEdits

LEMMA ReturnPlaces ==
  ASSUME ProvisioningInv, NEW w \in Worker, NEW p \in Returned, Return(w, p)
  PROVE  /\ \A v \in Worker : v # w => hand'[v] = hand[v]
         /\ hand'[w].pc = p /\ hand'[w].job = hand[w].job
BY DEF Return, ProvisioningInv, TypeOK, EmptyHand

LEMMA ReturnEdits ==
  ASSUME ProvisioningInv, EditsInv, OneAtATime, NEW w \in Worker, NEW p \in Returned, Return(w, p),
         hand[w].pc \notin {"idle", "note"} \cup Returned,
         p = "ok" => \/ hand[w].job.kind # "provision"
                     \/ Free(hand[w].job.epoch) \/ hand[w].job.epoch \in unpushed'
                     \/ hand[w].pc # "load" /\ grant[hand[w].job.epoch].models = hand[w].models,
         GrantsLook, UNCHANGED <<status, epoch, wanted, edits, state>>, unpushed \subseteq unpushed'
  PROVE  EditsInv'
<1>1. Works(w) /\ hand'[w].pc = p /\ hand'[w].job = hand[w].job
  BY ReturnPlaces DEF Works
<1>2. PushesLatest(hand[w])' /\ KeyIsInHand(hand[w])'
  BY <1>1 DEF PushesLatest, KeyIsInHand, Past, Returned
<1>3. LeavesLatest(hand[w])'
  <2> SUFFICES ASSUME hand[w].job.kind = "provision", p = "ok", hand[w].job.epoch = epoch,
                      grant'[hand[w].job.epoch].desired = "active", hand[w].job.epoch \notin unpushed'
               PROVE  grant'[hand[w].job.epoch].models = wanted \/ ToCome(hand[w].job)
    BY <1>1 DEF LeavesLatest, ToCome, Unfinished
  <2>1. hand[w].job.epoch \in Epoch
    BY HandJob
  <2>2. hand[w].pc # "load" /\ grant[hand[w].job.epoch].models = hand[w].models
    BY <2>1 DEF GrantsLook
  <2>3. hand[w].models = wanted \/ ToCome(hand[w].job)
    BY <2>2 DEF EditsInv, HandIsLatest, PushesLatest, Past
  <2> QED BY <2>1, <2>2, <2>3 DEF GrantsLook
<1> QED BY <1>1, <1>2, <1>3, KeysStillMatch, WorkEdits

LEMMA HandFields ==
  ASSUME ProvisioningInv, NEW w \in Worker
  PROVE  hand \in [Worker -> Hand] /\ hand[w] \in Hand
BY DEF ProvisioningInv, TypeOK

LEMMA GotoOnward ==
  ASSUME ProvisioningInv, NEW w \in Worker, NEW p \in Pc, Goto(w, p)
  PROVE  Onward(w, p)
<1>1. hand'[w] = [hand[w] EXCEPT !.pc = p] /\ \A v \in Worker : v # w => hand'[v] = hand[v]
  BY HandFields DEF Goto
<1> QED BY <1>1, HandFields DEF Onward, Hand

LEMMA ListGrantsEdits ==
  ASSUME ProvisioningInv, EditsInv, OneAtATime, NEW w \in Worker, ListGrants(w) PROVE EditsInv'
<1> DEFINE p == IF hand[w].job.kind = "reconcile" THEN "look" ELSE "retire"
<1>1. PICK T : hand' = [hand EXCEPT ![w].todo = T, ![w].pc = p]
  BY DEF ListGrants
<1>2. hand[w].pc = "list" /\ UNCHANGED <<grant, key>> /\ UNCHANGED <<status, epoch, wanted, edits, state, unpushed>>
  BY HandlersLeave DEF ListGrants, recordVars, gatewayVars
<1>3. p \in {"look", "retire"}
  OBVIOUS
<1> HIDE DEF p
<1>4. Onward(w, p)
  <2>1. hand'[w] = [hand[w] EXCEPT !.todo = T, !.pc = p] /\ \A v \in Worker : v # w => hand'[v] = hand[v]
    BY <1>1, HandFields
  <2> QED BY <2>1, HandFields DEF Onward, Hand
<1> QED BY <1>2, <1>3, <1>4, GrantsLookSame, OnwardEdits DEF Returned

\* Leaving the loop over the grants.
LEMMA LeaveLoopEdits ==
  ASSUME ProvisioningInv, EditsInv, OneAtATime, NEW w \in Worker, LeaveLoop(w),
         hand[w].pc \in {"retire", "look"}, GrantsLook, UNCHANGED <<status, epoch, wanted, edits, state>>,
         unpushed \subseteq unpushed'
  PROVE  EditsInv'
<1>1. CASE hand[w].job.kind = "provision"
  <2>1. hand' = [hand EXCEPT ![w].pc = "check", ![w].todo = {}]
    BY <1>1 DEF LeaveLoop
  <2>2. hand'[w] = [hand[w] EXCEPT !.pc = "check", !.todo = {}] /\ \A v \in Worker : v # w => hand'[v] = hand[v]
    BY <2>1, HandFields
  <2>3. Onward(w, "check")
    BY <2>2, HandFields DEF Onward, Hand
  <2> QED BY <2>3, OnwardEdits DEF Returned
<1>2. CASE hand[w].job.kind # "provision"
  BY <1>2, ReturnEdits DEF LeaveLoop, Returned
<1> QED BY <1>1, <1>2

LEMMA NothingLeftEdits ==
  ASSUME ProvisioningInv, EditsInv, OneAtATime, NEW w \in Worker, NothingLeft(w) PROVE EditsInv'
<1>1. UNCHANGED <<grant, key>> /\ UNCHANGED <<status, epoch, wanted, edits, state, unpushed>>
  BY HandlersLeave DEF NothingLeft, recordVars, gatewayVars
<1> QED BY <1>1, GrantsLookSame, LeaveLoopEdits DEF NothingLeft

\* The keys that are deleted are those of grants that are not active.
LEMMA DeletesLook ==
  ASSUME ProvisioningInv, NEW k \in Epoch, Free(k),
         key' = [key EXCEPT ![k] = NoKey], UNCHANGED grant
  PROVE  GrantsLook
BY DEF GrantsLook, ProvisioningInv, TypeOK

LEMMA retireOldKeysEdits ==
  ASSUME ProvisioningInv, TokenInv, EditsInv, OneAtATime, NEW w \in Worker, retireOldKeys(w) PROVE EditsInv'
<1>1. PICK g \in Listed :
        /\ IsNext(w, g)
        /\ DeleteKeyByAlias(g.epoch, hand' = [hand EXCEPT ![w].pc = "record", ![w].seen = "revoked"], LeaveLoop(w))
  BY DEF retireOldKeys
<1>2. g.epoch \in Epoch /\ g \in hand[w].todo /\ hand[w].pc = "retire"
  BY <1>1 DEF Listed, IsNext, retireOldKeys
<1>3. grant[g.epoch].desired = "revoked"
  BY <1>2 DEF TokenInv, Knows
<1>4. /\ key' = [key EXCEPT ![g.epoch] = NoKey] /\ UNCHANGED grant
      /\ UNCHANGED <<status, epoch, wanted, edits, state, unpushed>>
  BY <1>1, HandlersLeave DEF DeleteKeyByAlias, recordVars
<1>5. GrantsLook
  BY <1>2, <1>3, <1>4, DeletesLook
<1>6. CASE hand' = [hand EXCEPT ![w].pc = "record", ![w].seen = "revoked"]
  <2>1. /\ hand'[w] = [hand[w] EXCEPT !.pc = "record", !.seen = "revoked"]
        /\ \A v \in Worker : v # w => hand'[v] = hand[v]
    BY <1>6, HandFields
  <2>2. Onward(w, "record")
    BY <2>1, HandFields DEF Onward, Hand
  <2> QED BY <1>2, <1>4, <1>5, <2>2, OnwardEdits DEF Returned
<1>7. CASE LeaveLoop(w)
  BY <1>2, <1>4, <1>5, <1>7, LeaveLoopEdits
<1> QED BY <1>1, <1>6, <1>7 DEF DeleteKeyByAlias

LEMMA LookEdits ==
  ASSUME ProvisioningInv, EditsInv, OneAtATime, NEW w \in Worker, Look(w) PROVE EditsInv'
<1>1. PICK p \in {"repair", "record"}, a \in {"active", "revoked", "missing"} :
        hand' = [hand EXCEPT ![w].pc = p, ![w].seen = a]
  BY LookGoesOn
<1>2. hand[w].pc = "look" /\ UNCHANGED <<grant, key>> /\ UNCHANGED <<status, epoch, wanted, edits, state, unpushed>>
  BY HandlersLeave DEF Look, recordVars, gatewayVars
<1>3. Onward(w, p)
  <2>1. /\ hand'[w] = [hand[w] EXCEPT !.pc = p, !.seen = a]
        /\ \A v \in Worker : v # w => hand'[v] = hand[v]
    BY <1>1, HandFields
  <2> QED BY <2>1, HandFields DEF Onward, Hand
<1> QED BY <1>2, <1>3, GrantsLookSame, OnwardEdits DEF Returned

LEMMA RepairEdits ==
  ASSUME ProvisioningInv, TokenInv, EditsInv, OneAtATime, NEW w \in Worker, Repair(w) PROVE EditsInv'
<1>1. PICK g \in Listed :
        /\ IsNext(w, g) /\ g.desired = "revoked"
        /\ DeleteKeyByAlias(g.epoch, Goto(w, "record"), Return(w, "ok"))
  BY DEF Repair
<1>2. g.epoch \in Epoch /\ g \in hand[w].todo /\ hand[w].pc = "repair"
  BY <1>1 DEF Listed, IsNext, Repair
<1>3. grant[g.epoch].desired = "revoked"
  BY <1>1, <1>2 DEF TokenInv, Knows
<1>4. /\ key' = [key EXCEPT ![g.epoch] = NoKey] /\ UNCHANGED grant
      /\ UNCHANGED <<status, epoch, wanted, edits, state, unpushed>>
      /\ Goto(w, "record") \/ Return(w, "ok")
  BY <1>1, HandlersLeave DEF DeleteKeyByAlias, recordVars
<1>5. GrantsLook
  BY <1>2, <1>3, <1>4, DeletesLook
<1>6. CASE Goto(w, "record")
  <2>1. Onward(w, "record")
    BY <1>6, Places, GotoOnward
  <2> QED BY <1>2, <1>4, <1>5, <2>1, OnwardEdits DEF Returned
<1>7. CASE Return(w, "ok")
  <2>1. hand[w].job.kind # "provision"
    BY <1>2 DEF TokenInv, Knows
  <2> QED BY <1>2, <1>4, <1>5, <1>7, <2>1, ReturnEdits DEF Returned
<1> QED BY <1>4, <1>6, <1>7

LEMMA RecordActualEdits ==
  ASSUME ProvisioningInv, EditsInv, OneAtATime, NEW w \in Worker, RecordActual(w) PROVE EditsInv'
<1> DEFINE p == IF hand[w].job.kind = "reconcile" THEN "look" ELSE "retire"
<1>1. PICK g \in Listed :
        /\ grant' = [grant EXCEPT ![g.epoch].actual = hand[w].seen]
        /\ hand' = [hand EXCEPT ![w].todo = @ \ {g}, ![w].seen = "missing", ![w].pc = p]
  BY DEF RecordActual
<1>2. hand[w].pc = "record" /\ UNCHANGED key /\ UNCHANGED <<status, epoch, wanted, edits, state, unpushed>>
  BY HandlersLeave DEF RecordActual, gatewayVars
<1>3. p \in {"look", "retire"}
  OBVIOUS
<1> HIDE DEF p
<1>4. Onward(w, p)
  <2>1. /\ hand'[w] = [hand[w] EXCEPT !.todo = @ \ {g}, !.seen = "missing", !.pc = p]
        /\ \A v \in Worker : v # w => hand'[v] = hand[v]
    BY <1>1, HandFields
  <2> QED BY <2>1, HandFields DEF Onward, Hand
<1>5. GrantsLook
  BY <1>1, <1>2 DEF GrantsLook, ProvisioningInv, TypeOK, Grant
<1> QED BY <1>2, <1>3, <1>4, <1>5, OnwardEdits DEF Returned

\* What is loaded is what is wanted.
LEMMA LoadEdits ==
  ASSUME ProvisioningInv, EditsInv, OneAtATime, NEW w \in Worker, Load(w) PROVE EditsInv'
<1>1. hand[w].pc = "load" /\ UNCHANGED <<grant, key>> /\ UNCHANGED <<status, epoch, wanted, edits, state, unpushed>>
  BY HandlersLeave DEF Load, recordVars, gatewayVars
<1>2. CASE Return(w, "permanent")
  BY <1>1, <1>2, GrantsLookSame, ReturnEdits DEF Returned
<1>3. CASE hand' = [hand EXCEPT ![w].pc = "upsert", ![w].models = wanted]
  <2>1. /\ hand'[w] = [hand[w] EXCEPT !.pc = "upsert", !.models = wanted]
        /\ \A v \in Worker : v # w => hand'[v] = hand[v]
    BY <1>3, HandFields
  <2>2. hand'[w].pc = "upsert" /\ hand'[w].models = wanted /\ hand'[w].job = hand[w].job
    BY <2>1, HandFields DEF Hand
  <2>3. Works(w)
    BY <1>1, <2>1, <2>2 DEF Works, Returned
  <2>4. PushesLatest(hand[w])' /\ LeavesLatest(hand[w])' /\ KeyIsInHand(hand[w])'
    BY <1>1, <2>2 DEF PushesLatest, LeavesLatest, KeyIsInHand
  <2>5. hand[w].pc # "note" /\ GrantsLook
    BY <1>1, GrantsLookSame
  <2> QED BY <1>1, <2>3, <2>4, <2>5, KeysStillMatch, WorkEdits
<1> QED BY <1>2, <1>3 DEF Load

LEMMA UpsertUserEdits ==
  ASSUME ProvisioningInv, EditsInv, OneAtATime, NEW w \in Worker, UpsertUser(w) PROVE EditsInv'
<1>1. hand[w].pc = "upsert" /\ UNCHANGED <<grant, key>> /\ UNCHANGED <<status, epoch, wanted, edits, state, unpushed>>
  BY HandlersLeave DEF UpsertUser, recordVars, gatewayVars
<1>2. Onward(w, "list")
  BY GotoOnward DEF UpsertUser, Pc
<1> QED BY <1>1, <1>2, GrantsLookSame, OnwardEdits DEF Returned

\* Success without a change: the grant's models are those in hand.
LEMMA alreadyIssuedEdits ==
  ASSUME ProvisioningInv, EditsInv, OneAtATime, NEW w \in Worker, alreadyIssued(w) PROVE EditsInv'
<1> DEFINE k == hand[w].job.epoch
<1>1. hand[w].pc = "check" /\ UNCHANGED key /\ UNCHANGED <<status, epoch, wanted, edits, state, unpushed>>
  BY HandlersLeave DEF alreadyIssued, gatewayVars
<1>2. GrantsLook
  BY <1>1 DEF alreadyIssued, GrantsLook, ProvisioningInv, TypeOK, Grant
<1>3. CASE Goto(w, "find")
  <2>1. Onward(w, "find")
    BY <1>3, GotoOnward DEF Pc
  <2> QED BY <1>1, <1>2, <2>1, OnwardEdits DEF Returned
<1>4. CASE grant[k].models = hand[w].models /\ Return(w, "ok")
  BY <1>1, <1>2, <1>4, ReturnEdits DEF Returned
<1>5. CASE hand' = [hand EXCEPT ![w].pc = "match", ![w].seen = grant[k].actual]
  <2>1. /\ hand'[w] = [hand[w] EXCEPT !.pc = "match", !.seen = grant[k].actual]
        /\ \A v \in Worker : v # w => hand'[v] = hand[v]
    BY <1>5, HandFields
  <2>2. Onward(w, "match")
    BY <2>1, HandFields DEF Onward, Hand
  <2> QED BY <1>1, <1>2, <2>2, OnwardEdits DEF Returned
<1> QED BY <1>3, <1>4, <1>5 DEF alreadyIssued

LEMMA MatchKeyEdits ==
  ASSUME ProvisioningInv, EditsInv, OneAtATime, NEW w \in Worker, MatchKey(w) PROVE EditsInv'
<1> DEFINE p == IF OnGateway(hand[w].job.epoch) THEN "update" ELSE "find"
<1>1. PICK t : hand' = [hand EXCEPT ![w].pc = p, ![w].token = t]
  BY DEF MatchKey
<1>2. hand[w].pc = "match" /\ UNCHANGED <<grant, key>> /\ UNCHANGED <<status, epoch, wanted, edits, state, unpushed>>
  BY HandlersLeave DEF MatchKey, recordVars, gatewayVars
<1>3. p \in {"update", "find"}
  OBVIOUS
<1> HIDE DEF p
<1>4. Onward(w, p)
  <2>1. hand'[w] = [hand[w] EXCEPT !.pc = p, !.token = t] /\ \A v \in Worker : v # w => hand'[v] = hand[v]
    BY <1>1, HandFields
  <2> QED BY <2>1, HandFields DEF Onward, Hand
<1> QED BY <1>2, <1>3, <1>4, GrantsLookSame, OnwardEdits DEF Returned

\* The key has the models in hand, and its grant is about to.
LEMMA UpdateKeyEdits ==
  ASSUME ProvisioningInv, TokenInv, EditsInv, OneAtATime, NEW w \in Worker, UpdateKey(w) PROVE EditsInv'
<1> DEFINE k == hand[w].job.epoch
<1>1. /\ hand[w].pc = "update" /\ "update" \in ProvisionPcs
      /\ UNCHANGED grant /\ UNCHANGED <<status, epoch, wanted, edits, state, unpushed>>
  BY HandlersLeave DEF UpdateKey, recordVars, ProvisionPcs
<1>2. k \in Epoch
  BY <1>1, Frame
<1>3. key' = [key EXCEPT ![k].models = hand[w].models] /\ Goto(w, "note")
  BY <1>1 DEF UpdateKey, TokenInv, Knows
<1>4. Onward(w, "note")
  BY <1>3, GotoOnward DEF Pc
<1>5. Works(w)
  BY <1>1, <1>4 DEF Onward, Works, Returned
<1>6. key'[k].models = hand[w].models /\ \A i \in Epoch : i # k => key'[i] = key[i]
  BY <1>2, <1>3 DEF ProvisioningInv, TypeOK, Key
<1>7. PushesLatest(hand[w])'
  BY <1>1, <1>4 DEF Onward, EditsInv, HandIsLatest, PushesLatest, Past, Returned, ToCome, Unfinished
<1>8. LeavesLatest(hand[w])' /\ KeyIsInHand(hand[w])'
  BY <1>4, <1>6 DEF Onward, LeavesLatest, KeyIsInHand
<1>9. \A i \in Epoch : ~Free(i)' =>
        /\ key'[i].models = grant'[i].models \/ (hand'[w].pc = "note" /\ hand'[w].job.epoch = i)
        /\ ~Free(i) /\ grant'[i].models = grant[i].models
  <2>1. \A v \in Worker : hand[v].pc # "note"
    BY <1>1, OthersAreIdle DEF Busy
  <2>2. hand'[w].pc = "note" /\ hand'[w].job.epoch = k
    BY <1>4 DEF Onward
  <2> HIDE DEF k
  <2> QED BY <1>1, <1>6, <2>1, <2>2 DEF EditsInv, KeysMatchGrants
<1> QED BY <1>5, <1>7, <1>8, <1>9, WorkEdits

\* The grant follows the key.
LEMMA NoteModelsEdits ==
  ASSUME ProvisioningInv, EditsInv, OneAtATime, NEW w \in Worker, NoteModels(w) PROVE EditsInv'
<1> DEFINE k == hand[w].job.epoch
<1>1. /\ hand[w].pc = "note" /\ "note" \in ProvisionPcs
      /\ UNCHANGED key /\ UNCHANGED <<status, epoch, wanted, edits, state>> /\ Return(w, "ok")
      /\ unpushed' = unpushed \ {k}
  BY DEF NoteModels, gatewayVars, ProvisionPcs, accountVars, boardVars
<1>2. k \in Epoch /\ hand[w].job.kind = "provision"
  BY <1>1, Frame, HandTypes DEF HandFitsItsPlace
<1>3. /\ grant'[k].models = hand[w].models /\ grant'[k].desired = grant[k].desired
      /\ \A i \in Epoch : i # k => grant'[i] = grant[i]
  BY <1>2 DEF NoteModels, ProvisioningInv, TypeOK, Grant
<1>4. Works(w) /\ hand'[w].pc = "ok" /\ hand'[w].job = hand[w].job
  BY <1>1, ReturnPlaces DEF Works, Returned
<1>5. PushesLatest(hand[w])' /\ KeyIsInHand(hand[w])'
  BY <1>4 DEF PushesLatest, KeyIsInHand, Past, Returned
<1>6. k = epoch => hand[w].models = wanted \/ ToCome(hand[w].job)
  BY <1>1, <1>2 DEF EditsInv, HandIsLatest, PushesLatest, Past, Returned
<1>7. LeavesLatest(hand[w])'
  BY <1>1, <1>3, <1>4, <1>6 DEF LeavesLatest, ToCome, Unfinished
<1>8. key[k].models = hand[w].models
  BY <1>1 DEF EditsInv, HandIsLatest, KeyIsInHand
<1>9. ASSUME NEW i \in Epoch, ~Free(i)'
      PROVE  /\ key'[i].models = grant'[i].models
             /\ (~Free(i) /\ grant'[i].models = grant[i].models) \/ k = i
  <2>1. CASE i = k
    BY <1>1, <1>3, <1>8, <2>1
  <2>2. CASE i # k
    <3>1. \A v \in Worker : ~(hand[v].pc = "note" /\ hand[v].job.epoch = i)
      BY <1>1, <2>2, OthersAreIdle DEF Busy
    <3>2. grant'[i] = grant[i]
      BY <1>3, <2>2
    <3> QED BY <1>1, <1>9, <3>1, <3>2 DEF EditsInv, KeysMatchGrants
  <2> QED BY <2>1, <2>2
<1> QED BY <1>2, <1>4, <1>5, <1>7, <1>9, WorkEdits

\* At the key of an epoch nobody has a token of.
LEMMA AtKeyIsFree ==
  ASSUME ProvisioningInv, TokenInv, NEW w \in Worker, hand[w].pc \in AtKey
  PROVE  hand[w].job.epoch \in Epoch /\ Free(hand[w].job.epoch)
BY HandTypes, InEpoch DEF TokenInv, Knows

LEMMA FindKeyEdits ==
  ASSUME ProvisioningInv, EditsInv, OneAtATime, NEW w \in Worker, FindKey(w) PROVE EditsInv'
<1> DEFINE p == IF OnGateway(hand[w].job.epoch) THEN "unkey" ELSE "mint"
<1>1. /\ Goto(w, p) /\ hand[w].pc = "find" /\ UNCHANGED <<grant, key>>
      /\ UNCHANGED <<status, epoch, wanted, edits, state, unpushed>>
  BY HandlersLeave DEF FindKey, recordVars, gatewayVars
<1>2. p \in Pc /\ p \in {"unkey", "mint"}
  BY DEF Pc
<1> HIDE DEF p
<1>3. Onward(w, p)
  BY <1>1, <1>2, GotoOnward
<1> QED BY <1>1, <1>2, <1>3, GrantsLookSame, OnwardEdits DEF Returned

\* The key that is replaced, taken back or withdrawn is of no active grant.
LEMMA DeletesKeyEdits ==
  ASSUME ProvisioningInv, TokenInv, EditsInv, OneAtATime, NEW w \in Worker,
         ReplaceKey(w) \/ TakeBack(w) \/ WithdrawKey(w)
  PROVE  EditsInv'
<1>1. /\ hand[w].pc \in {"unkey", "takeback", "withdraw"} /\ hand[w].pc \in AtKey
      /\ key' = [key EXCEPT ![hand[w].job.epoch] = NoKey] /\ UNCHANGED grant
      /\ UNCHANGED <<status, epoch, wanted, edits, state, unpushed>>
  BY HandlersLeave DEF ReplaceKey, TakeBack, WithdrawKey, DeleteKeyByAlias, recordVars, AtKey
<1>2. Free(hand[w].job.epoch) /\ GrantsLook
  BY <1>1, AtKeyIsFree, DeletesLook
<1>3. Goto(w, "mint") \/ \E p \in Returned : Return(w, p)
  BY DEF ReplaceKey, TakeBack, WithdrawKey, DeleteKeyByAlias, Returned
<1>4. CASE Goto(w, "mint")
  <2>1. Onward(w, "mint")
    BY <1>4, GotoOnward DEF Pc
  <2> QED BY <1>1, <1>2, <2>1, OnwardEdits DEF Returned
<1>5. ASSUME NEW p \in Returned, Return(w, p) PROVE EditsInv'
  BY <1>1, <1>2, <1>5, ReturnEdits DEF Returned
<1> QED BY <1>3, <1>4, <1>5

LEMMA GenerateKeyEdits ==
  ASSUME ProvisioningInv, TokenInv, EditsInv, OneAtATime, NEW w \in Worker, GenerateKey(w) PROVE EditsInv'
<1> DEFINE k == hand[w].job.epoch
<1>1. hand[w].pc = "mint" /\ hand[w].pc \in AtKey /\ UNCHANGED grant /\ UNCHANGED <<status, epoch, wanted, edits, state, unpushed>>
  BY HandlersLeave DEF GenerateKey, recordVars, AtKey
<1>2. k \in Epoch /\ Free(k)
  BY <1>1, AtKeyIsFree
<1>3. CASE Return(w, "permanent") /\ UNCHANGED key
  BY <1>1, <1>3, GrantsLookSame, ReturnEdits DEF Returned
<1>4. ASSUME NEW t, key' = [key EXCEPT ![k] = [token |-> t, models |-> hand[w].models]],
             hand' = [hand EXCEPT ![w].pc = "reread", ![w].token = t]
      PROVE  EditsInv'
  <2>1. key'[k].models = hand[w].models /\ GrantsLook
    BY <1>1, <1>2, <1>4 DEF GrantsLook, ProvisioningInv, TypeOK
  <2>2. /\ hand'[w] = [hand[w] EXCEPT !.pc = "reread", !.token = t]
        /\ \A v \in Worker : v # w => hand'[v] = hand[v]
    BY <1>4, HandFields
  <2>3. Onward(w, "reread")
    BY <2>2, HandFields DEF Onward, Hand
  <2> QED BY <1>1, <2>1, <2>3, OnwardEdits DEF Returned
<1> QED BY <1>3, <1>4 DEF GenerateKey

\* From the second look on, the key still has the models in hand.
LEMMA ReReadEdits ==
  ASSUME ProvisioningInv, EditsInv, OneAtATime, NEW w \in Worker, ReReadEmployee(w) \/ SealFails(w) PROVE EditsInv'
<1>1. hand[w].pc = "reread" /\ UNCHANGED <<grant, key>> /\ UNCHANGED <<status, epoch, wanted, edits, state, unpushed>>
  BY HandlersLeave DEF ReReadEmployee, SealFails, accountVars, boardVars, recordVars, gatewayVars
<1>2. PICK p \in {"commit", "withdraw", "takeback"} : Goto(w, p)
  BY DEF ReReadEmployee, SealFails
<1>3. Onward(w, p)
  BY <1>2, GotoOnward DEF Pc
<1>4. key'[hand[w].job.epoch].models = hand[w].models
  BY <1>1 DEF EditsInv, HandIsLatest, KeyIsInHand
<1> QED BY <1>1, <1>3, <1>4, GrantsLookSame, OnwardEdits DEF Returned

\* The grant that is stored has the models of the key that was made for it.
LEMMA CommitEdits ==
  ASSUME ProvisioningInv, EditsInv, OneAtATime, NEW w \in Worker, Commit(w) PROVE EditsInv'
<1> DEFINE k == hand[w].job.epoch
           refused == grant[k].desired # "none" \/ \E i \in Epoch : grant[i].desired = "active"
           new == [desired |-> "active", actual |-> "active", cred |-> hand[w].token, models |-> hand[w].models]
<1>1. /\ hand[w].pc = "commit" /\ "commit" \in ProvisionPcs
      /\ UNCHANGED key /\ UNCHANGED <<status, epoch, wanted, edits, state>>
  BY DEF Commit, gatewayVars, ProvisionPcs, accountVars, boardVars
<1>2. CASE refused
  <2>1. Return(w, "retry") /\ UNCHANGED <<grant, unpushed>>
    BY <1>2 DEF Commit, recordVars
  <2> QED BY <1>1, <2>1, GrantsLookSame, ReturnEdits DEF Returned
<1>3. CASE ~refused
  <2>1. grant' = [grant EXCEPT ![k] = new] /\ Return(w, "ok")
    BY <1>3 DEF Commit
  <2>2. k \in Epoch /\ hand[w].job.kind = "provision"
    BY <1>1, Frame, HandTypes DEF HandFitsItsPlace
  <2>3. grant'[k].models = hand[w].models /\ \A i \in Epoch : grant'[i].desired = "active" => i = k
    BY <1>3, <2>1, <2>2 DEF ProvisioningInv, TypeOK
  <2>4. Works(w) /\ hand'[w].pc = "ok" /\ hand'[w].job = hand[w].job
    BY <1>1, <2>1, ReturnPlaces DEF Works, Returned
  <2>5. PushesLatest(hand[w])' /\ KeyIsInHand(hand[w])'
    BY <2>4 DEF PushesLatest, KeyIsInHand, Past, Returned
  <2>6. k = epoch => hand[w].models = wanted \/ ToCome(hand[w].job)
    BY <1>1, <2>2 DEF EditsInv, HandIsLatest, PushesLatest, Past, Returned
  <2>7. LeavesLatest(hand[w])'
    BY <1>1, <2>3, <2>4, <2>6 DEF LeavesLatest, ToCome, Unfinished
  <2>8. key'[k].models = hand[w].models
    BY <1>1 DEF EditsInv, HandIsLatest, KeyIsInHand
  <2> HIDE DEF k
  <2>9. \A i \in Epoch : ~Free(i)' => key'[i].models = grant'[i].models /\ k = i
    BY <2>3, <2>8
  <2> USE DEF k
  <2> QED BY <2>2, <2>4, <2>5, <2>7, <2>9, WorkEdits
<1> QED BY <1>2, <1>3

\* After a 404 nothing is claimed of the epoch.
LEMMA NotFoundEdits ==
  ASSUME ProvisioningInv, TokenInv, EditsInv, OneAtATime, NEW w \in Worker, AnswersNotFound(w) PROVE EditsInv'
<1>1. /\ UNCHANGED <<grant, key>> /\ UNCHANGED <<status, epoch, wanted, edits, state>>
      /\ unpushed \subseteq unpushed' /\ hand[w].pc \notin {"idle", "load", "note"} \cup Returned
  BY DEF AnswersNotFound, accountVars, recordVars, gatewayVars, boardVars, Returned
<1>2. CASE hand[w].pc \in {"match", "update"} /\ Goto(w, "find")
  <2>1. Onward(w, "find")
    BY <1>2, GotoOnward DEF Pc
  <2> QED BY <1>1, <2>1, GrantsLookSame, OnwardEdits
<1>3. CASE hand[w].pc = "retire" /\ LeaveLoop(w)
  BY <1>1, <1>3, GrantsLookSame, LeaveLoopEdits
<1>4. CASE hand[w].pc \in {"upsert", "find", "unkey", "mint", "look", "repair"} /\ Return(w, "ok")
  <2>1. CASE hand[w].pc \in ProvisionPcs
    <3>1. hand[w].job.epoch \in unpushed'
      BY <2>1 DEF AnswersNotFound
    <3> QED BY <1>1, <1>4, <3>1, GrantsLookSame, ReturnEdits DEF Returned
  <2>2. CASE hand[w].pc \in {"look", "repair"}
    <3>1. hand[w].job.kind # "provision"
      BY <2>2 DEF TokenInv, Knows
    <3> QED BY <1>1, <1>4, <3>1, GrantsLookSame, ReturnEdits DEF Returned
  <2> QED BY <1>4, <2>1, <2>2 DEF ProvisionPcs
<1> QED BY <1>2, <1>3, <1>4 DEF AnswersNotFound

LEMMA HandleEdits ==
  ASSUME ProvisioningInv, TokenInv, EditsInv, OneAtATime, NEW w \in Worker, Handle(w)
  PROVE  EditsInv'
BY ListGrantsEdits, retireOldKeysEdits, NothingLeftEdits, LookEdits, RepairEdits, RecordActualEdits, LoadEdits,
   UpsertUserEdits, alreadyIssuedEdits, MatchKeyEdits, UpdateKeyEdits, NoteModelsEdits, FindKeyEdits,
   DeletesKeyEdits, GenerateKeyEdits, ReReadEdits, CommitEdits DEF Handle

\* A handler dies or gives up between the key and the grant's row only if it
\* crashes or a call gets no answer.
LEMMA NextEdits ==
  ASSUME Mishaps \cap {"crash", "error"} = {}, ~\E k \in Epoch : KeyLost(k),
         ProvisioningInv, TokenInv, EditsInv, OneAtATime, [Next]_vars
  PROVE  EditsInv'
<1>1. ProvisioningInv'
  BY NextInv
<1>2. CASE Admin \/ EnqueueReconcile \/ Sweep
  BY <1>1, <1>2, AdminEdits, BoardEdits
<1>3. ASSUME NEW w \in Worker, (\E j \in Job : Take(w, j)) \/ Handle(w) \/ Report(w)
      PROVE  EditsInv'
  BY <1>3, TakeEdits, HandleEdits, ReportEdits
<1>4. CASE Misfortune
  <2>1. \A w \in Worker : ~Crash(w) /\ ~HandlerErrors(w)
    BY DEF Crash, HandlerErrors, Mishap
  <2> QED BY <1>4, <2>1, NotFoundEdits, ReReadEdits, BoardEdits DEF Misfortune
<1>5. CASE UNCHANGED vars
  <2>1. UNCHANGED <<status, epoch, wanted, edits, grant, key, state, hand, unpushed>>
    BY <1>5 DEF vars, accountVars, recordVars, gatewayVars, boardVars
  <2>2. BoardGrows /\ MarksAreNew'
    BY <2>1 DEF BoardGrows, EditsInv, MarksAreNew
  <2> QED BY <2>1, <2>2, SameStepEdits
<1> QED BY <1>2, <1>3, <1>4, <1>5 DEF Next

LEMMA InitEdits == Init => EditsInv
<1> SUFFICES ASSUME Init PROVE EditsInv
  OBVIOUS
<1>1. \A w \in Worker : hand[w] = EmptyHand
  BY DEF Init
<1>2. \A w \in Worker : HandIsLatest(hand[w])
  BY <1>1, IdleIsLatest
<1>3. status = "absent" /\ \A k \in Epoch : grant[k].desired # "active"
  BY DEF Init, NoGrant
<1>4. MarksAreNew
  BY ProvisionJobs DEF Init, MarksAreNew, Board!BoardInit
<1> QED BY <1>2, <1>3, <1>4 DEF EditsInv, OpenedHasEpoch, KeysMatchGrants, SettledIsLatest

LEMMA EditsMeet == EditsInv => ModelsConverge
<1> SUFFICES ASSUME EditsInv, Quiet, status = "active", ~Free(epoch),
                    \A n \in 0 .. MaxEdits : ProvisionSucceeded(epoch, n)
             PROVE  grant[epoch].models = wanted /\ key[epoch].models \in {wanted, NoModels}
  BY DEF ModelsConverge
<1>1. grant[epoch].models = wanted
  BY DEF EditsInv, SettledIsLatest, ProvisionSucceeded, Unfinished
<1>2. \A w \in Worker : hand[w].pc # "note"
  BY DEF Quiet, Busy
<1>3. epoch \in Epoch
  BY DEF EditsInv, OpenedHasEpoch
<1>4. key[epoch].models = grant[epoch].models
  BY <1>2, <1>3 DEF EditsInv, KeysMatchGrants
<1> QED BY <1>1, <1>4

\* The models chosen last reach the key, and no older ones replace them: once no
\* provisioning of the epoch is outstanding, the grant's row and the key say what
\* the employee's row says.  For this no two loops may be at work at the same
\* moment, no call may go unanswered and no console die between the key's update
\* and the grant's (gateway.go:306-309); tasks may be cancelled, lapse and be
\* retried.
THEOREM ModelsReachTheKey ==
  ASSUME Mishaps \cap {"crash", "error", "loss"} = {}
  PROVE  Spec /\ []OneAtATime => []ModelsConverge
<1>1. Init => TokenInv /\ EditsInv
  BY InitTokens, InitEdits
<1>2. ProvisioningInv /\ OneAtATime /\ TokenInv /\ EditsInv /\ [Next]_vars => TokenInv' /\ EditsInv'
  <2>1. ~\E k \in Epoch : KeyLost(k)
    BY DEF KeyLost, Mishap
  <2> QED BY <2>1, NextTokens, NextEdits
<1>3. EditsInv => ModelsConverge
  BY EditsMeet
<1> QED
  BY <1>1, <1>2, <1>3, ProvisioningInvariance, PTL DEF Spec

\* What holds of a run in which at most one loop is busy.
AloneInv == story = "edits" => OneAtATime /\ TokenInv /\ EditsInv

LEMMA AtMostOneBusy ==
  ASSUME IsFiniteSet(Worker), Cardinality({w \in Worker : hand'[w].pc # "idle"}) <= 1
  PROVE  OneAtATime'
<1> DEFINE B == {w \in Worker : hand'[w].pc # "idle"}
<1> SUFFICES ASSUME NEW v \in B, NEW w \in B PROVE v = w
  BY DEF OneAtATime, Busy
<1>1. IsFiniteSet(B)
  BY FS_Subset
<1> HIDE DEF B
<1>2. Cardinality({v, w}) <= Cardinality(B)
  BY <1>1, FS_Subset
<1>3. v # w => Cardinality({v, w}) = 2
  <2>1. v # w => IsFiniteSet({w}) /\ Cardinality({w}) = 1 /\ v \notin {w} /\ {v, w} = {w} \cup {v}
    BY FS_Singleton
  <2>2. v # w => Cardinality({w} \cup {v}) = 1 + 1
    BY <2>1, FS_AddElement
  <2> QED BY <2>1, <2>2
<1>4. Cardinality({v, w}) \in Nat /\ Cardinality(B) \in Nat
  <2>1. IsFiniteSet({v, w})
    BY <1>1, FS_Subset
  <2> QED BY <1>1, <2>1, FS_CardinalityType
<1>5. Cardinality(B) <= 1
  BY DEF B
<1> QED BY <1>2, <1>3, <1>4, <1>5

\* The same in the runs the model checker makes: in the story "edits", in which
\* the gateway loses no key, every edit is met.
THEOREM EditsAreMet ==
  ASSUME IsFiniteSet(Worker), Mishaps \cap {"crash", "error"} = {}
  PROVE  MCSpec => []EditsConverge
<1>1. MCInit => ProvisioningInv /\ AloneInv
  <2> SUFFICES ASSUME MCInit PROVE ProvisioningInv /\ AloneInv
    OBVIOUS
  <2>1. OneAtATime
    BY DEF MCInit, Init, OneAtATime, Busy, EmptyHand
  <2> QED BY <2>1, InitProvisioningInv, InitTokens, InitEdits DEF MCInit, AloneInv
<1>2. ProvisioningInv /\ AloneInv /\ [MCNext]_<<vars, story>> => ProvisioningInv' /\ AloneInv'
  <2> SUFFICES ASSUME ProvisioningInv, AloneInv, [MCNext]_<<vars, story>> PROVE ProvisioningInv' /\ AloneInv'
    OBVIOUS
  <2>1. [Next]_vars /\ story' = story
    BY DEF MCNext
  <2>2. ProvisioningInv'
    BY <2>1, NextInv
  <2>3. CASE story # "edits"
    BY <2>1, <2>2, <2>3 DEF AloneInv
  <2>4. CASE story = "edits" /\ UNCHANGED vars
    <3>1. UNCHANGED hand /\ ~\E k \in Epoch : KeyLost(k)
      BY <2>4 DEF vars, KeyLost, Mishap, ProvisioningInv, TypeOK
    <3>2. OneAtATime' /\ OneAtATime /\ TokenInv /\ EditsInv
      BY <2>4, <3>1 DEF AloneInv, OneAtATime, Busy
    <3> QED BY <2>1, <2>2, <3>1, <3>2, NextTokens, NextEdits DEF AloneInv
  <2>5. CASE story = "edits" /\ MCNext
    <3>1. Cardinality({w \in Worker : hand'[w].pc # "idle"}) <= 1 /\ ~LosesKey
      BY <2>5 DEF MCNext
    <3>2. OneAtATime'
      BY <3>1, AtMostOneBusy
    <3>3. ~\E k \in Epoch : KeyLost(k)
      BY <3>1 DEF LosesKey, KeyLost, Mishap, ProvisioningInv, TypeOK
    <3> QED BY <2>1, <2>2, <2>5, <3>2, <3>3, NextTokens, NextEdits DEF AloneInv
  <2> QED BY <2>3, <2>4, <2>5
<1>3. AloneInv => EditsConverge
  BY EditsMeet DEF AloneInv, EditsConverge
<1> QED
  BY <1>1, <1>2, <1>3, PTL DEF MCSpec

=============================================================================
