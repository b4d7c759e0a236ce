--------------------------- MODULE ConsoleProofs ----------------------------
(***************************************************************************)
(* What TLAPS proves of the stories of MCConsole, for every value of its   *)
(* constants.  Each story has an inductive invariant in its own module; a  *)
(* step of the composite is a step of one story and leaves the others      *)
(* alone, which is all that the composition adds.                          *)
(***************************************************************************)
EXTENDS MCConsole, FiniteSets, FiniteSetTheorems, SequenceTheorems, TLAPS

\* A step of the composite, as each story sees it.
LEMMA StepOfAStory ==
  ASSUME [Next]_vars
  PROVE  /\ T!Next \/ UNCHANGED ticketVars
         /\ S!Next \/ UNCHANGED signInVars
         /\ K!Next \/ UNCHANGED keyVars
         /\ U!Next \/ UNCHANGED updateVars
         /\ F!Next \/ UNCHANGED rosterVars
<1>1. CASE Next
  BY <1>1 DEF Next
<1>2. CASE UNCHANGED vars
  BY <1>2 DEF vars, ticketVars, signInVars, keyVars, updateVars, rosterVars
<1> QED
  BY <1>1, <1>2

-----------------------------------------------------------------------------
(* The replacement of an agent. *)

LEMMA UpdateStart == Init => U!UpdateInv
  BY DEF Init, U!Init, U!UpdateInv, U!RollbackCopyKept

LEMMA UpdateStep ==
  ASSUME U!UpdateInv, U!Next \/ UNCHANGED updateVars
  PROVE  U!UpdateInv'
<1> USE DEF U!UpdateInv, U!RollbackCopyKept, U!files, U!Up
<1>1. CASE U!ApplyUpdate
  BY <1>1 DEF U!ApplyUpdate
<1>2. CASE U!StopAndWait
  BY <1>2 DEF U!StopAndWait
<1>3. CASE U!MoveAside
  BY <1>3 DEF U!MoveAside
<1>4. CASE U!MoveInPlace
  BY <1>4 DEF U!MoveInPlace
<1>5. CASE U!StartAndWait
  BY <1>5 DEF U!StartAndWait
<1>6. CASE U!RemoveBackup
  BY <1>6 DEF U!RemoveBackup
<1>7. CASE U!Cleanup
  BY <1>7 DEF U!Cleanup
<1>8. CASE U!PowerCut
  BY <1>8 DEF U!PowerCut
<1>9. CASE U!Boot
  BY <1>9 DEF U!Boot
<1>10. CASE UNCHANGED updateVars
  BY <1>10 DEF updateVars
<1> QED
  BY <1>1, <1>2, <1>3, <1>4, <1>5, <1>6, <1>7, <1>8, <1>9, <1>10 DEF U!Next

\* Whatever fails while an agent is replaced, and wherever the power is cut, an
\* image that has run before is on the disk (updater_windows.go, service_windows.go).
THEOREM RollbackCopyIsKept == Spec => []RollbackCopyKept
<1>1. U!UpdateInv /\ [Next]_vars => U!UpdateInv'
  BY StepOfAStory, UpdateStep
<1>2. U!UpdateInv => RollbackCopyKept
  BY DEF U!UpdateInv, RollbackCopyKept
<1> QED
  BY UpdateStart, <1>1, <1>2, PTL DEF Spec

-----------------------------------------------------------------------------
(* The change of the master key. *)

LEMMA KeyStart == Init => K!KeyInv
  BY DEF Init, K!Init, K!KeyInv, K!TypeOK, K!KeysAreNeverLost, K!KeysAtHand, K!Needed, K!Referenced,
         K!NoCommand, K!NoKey

\* Every command and every act of the operator keeps the types.
LEMMA KeyTypes ==
  ASSUME K!TypeOK, K!Next \/ UNCHANGED keyVars
  PROVE  K!TypeOK'
<1> USE DEF K!TypeOK, K!files, K!rows
<1>1. CASE K!AddKey
  <2>1. /\ file.current \in Nat /\ file.keys \in SUBSET Nat /\ file.torn \in BOOLEAN
    OBVIOUS
  <2>2. file' = [current |-> file.current + 1, keys |-> file.keys \cup {file.current + 1}, torn |-> file.torn]
    BY <1>1 DEF K!AddKey
  <2>3. file' \in [current : Nat, keys : SUBSET Nat, torn : BOOLEAN]
    BY <2>1, <2>2
  <2> QED
    BY <1>1, <2>3 DEF K!AddKey
<1>2. CASE K!RestartConsole
  BY <1>2 DEF K!RestartConsole, K!Load
<1>3. CASE K!RestoreBackup
  BY <1>3 DEF K!RestoreBackup
<1>4. CASE \E c \in Credential : K!IssueCredential(c) \/ K!Retire(c)
  BY SMTT(60), <1>4 DEF K!IssueCredential, K!Retire, K!Seal
<1>5. CASE K!SetTOTP
  <2>1. seals' \in Nat /\ seed' \in [of : Nat, key : Nat]
    BY <1>5 DEF K!SetTOTP, K!Seal
  <2> QED
    BY <1>5, <2>1 DEF K!SetTOTP
<1>6. CASE K!SaveChannel
  <2>1. seals' \in Nat /\ secret' \in [key : Nat, version : Nat]
    BY <1>6 DEF K!SaveChannel, K!Seal
  <2> QED
    BY <1>6, <2>1 DEF K!SaveChannel
<1>7. CASE K!Start
  BY <1>7 DEF K!Start, K!NoCommand, K!NoKey
<1>8. CASE K!ListCredentials
  BY <1>8 DEF K!ListCredentials, K!NotSealedWith, K!At
<1>9. CASE K!Reseal
  <2>1. credential' \in [Credential -> [state : {"none", "live", "retired"}, key : Nat]]
    BY <1>9 DEF K!Reseal
  <2> QED
    BY <1>9, <2>1 DEF K!Reseal
<1>10. CASE K!ResealTOTP
  <2>1. seed' \in [of : Nat, key : Nat]
    BY <1>10 DEF K!ResealTOTP
  <2>2. rekey' = [rekey EXCEPT !.step = "setting", !.secret = secret]
    BY <1>10 DEF K!ResealTOTP
  <2> QED
    BY ZenonT(60), <1>10, <2>1, <2>2 DEF K!ResealTOTP
<1>11. CASE K!ResealSettings
  BY <1>11 DEF K!ResealSettings, K!At, K!NoCommand, K!NoKey
<1>12. CASE K!referencedKeyVersions
  <2>1. K!Referenced \in SUBSET Nat
    BY DEF K!Referenced, K!NoKey
  <2> QED
    BY <1>12, <2>1 DEF K!referencedKeyVersions
<1>13. CASE K!PruneKeyFile
  BY <1>13 DEF K!PruneKeyFile, K!At, K!NoCommand, K!NoKey
<1>14. CASE K!WriteFile
  BY <1>14 DEF K!WriteFile, K!NoCommand, K!NoKey
<1>15. CASE K!Stops
  BY ZenonT(60), <1>15 DEF K!Stops, K!NoCommand, K!NoKey
<1>16. CASE UNCHANGED keyVars
  BY <1>16 DEF keyVars
<1> QED
  BY <1>1, <1>2, <1>3, <1>4, <1>5, <1>6, <1>7, <1>8, <1>9, <1>10, <1>11, <1>12, <1>13, <1>14, <1>15,
     <1>16 DEF K!Next

\* What is sealed while the files stay as they are is sealed with the console's key,
\* which the command, if it runs, keeps: the rest of the invariant is as before.
LEMMA SealedWithCurrent ==
  ASSUME K!KeyInv, K!TypeOK', UNCHANGED <<file, copy, ring>>,
         K!Needed' \subseteq K!Needed \cup {ring.current},
         rekey' = K!NoCommand \/ ( /\ rekey'.current = rekey.current
                                   /\ rekey # K!NoCommand
                                   /\ rekey'.referenced = rekey.referenced
                                   /\ rekey'.step = rekey.step \/ rekey'.step \notin {"prune", "write"})
                             \/ rekey' = rekey
  PROVE  K!KeyInv'
<1>1. K!KeysAtHand' = K!KeysAtHand
  BY DEF K!KeysAtHand
<1>2. K!KeysAreNeverLost'
  BY <1>1 DEF K!KeyInv, K!KeysAreNeverLost
<1>3. CASE rekey' = K!NoCommand
  BY <1>1, <1>2, <1>3 DEF K!KeyInv, K!NoCommand
<1>4. CASE rekey # K!NoCommand /\ rekey' # K!NoCommand
  <2>1. rekey'.current = rekey.current /\ rekey'.referenced = rekey.referenced
    BY <1>4
  <2>2. ring.current = file.current /\ rekey.current = file.current /\ ~file.torn
    BY <1>4 DEF K!KeyInv
  <2>3. rekey'.step \in {"prune", "write"} => rekey'.step = rekey.step
    BY <1>4
  <2> QED
    BY <1>1, <1>2, <2>1, <2>2, <2>3 DEF K!KeyInv
<1>5. CASE rekey' = rekey /\ rekey = K!NoCommand
  BY <1>3, <1>5
<1> QED
  BY <1>3, <1>4, <1>5

LEMMA KeyStep ==
  ASSUME K!KeyInv, K!Next \/ UNCHANGED keyVars
  PROVE  K!KeyInv'
<1>t. K!TypeOK'
  BY KeyTypes DEF K!KeyInv
<1>n. UNCHANGED K!rows => K!Needed' = K!Needed
  BY DEF K!rows, K!Needed, K!Referenced
<1>k. UNCHANGED <<file, copy>> => K!KeysAtHand' = K!KeysAtHand
  BY DEF K!KeysAtHand
<1>m. Credential = DOMAIN credential
  BY DEF K!KeyInv, K!TypeOK
<1> USE DEF K!files, K!rows
<1>1. CASE K!AddKey
  <2>1. /\ ~file.torn /\ rekey' = K!NoCommand /\ rekey = K!NoCommand /\ ring' = ring /\ copy' = copy
        /\ file' = [file EXCEPT !.current = @ + 1, !.keys = @ \cup {file.current + 1}]
    BY <1>1 DEF K!AddKey
  <2>2. ~file'.torn /\ file'.current \in file'.keys /\ file.keys \subseteq file'.keys
    BY <2>1 DEF K!KeyInv, K!TypeOK
  <2>3. K!Needed' = K!Needed
    BY <1>1, <1>n DEF K!AddKey
  <2> QED
    BY <1>t, <2>1, <2>2, <2>3 DEF K!KeyInv, K!KeysAreNeverLost, K!KeysAtHand, K!NoCommand
<1>2. CASE K!RestartConsole
  <2>1. ring' = [current |-> file.current, keys |-> file.keys] /\ UNCHANGED <<file, copy, rekey>> /\ ~file.torn
    BY <1>2 DEF K!RestartConsole, K!Load
  <2>2. K!Needed' = K!Needed
    BY <1>2, <1>n DEF K!RestartConsole
  <2> QED
    BY <1>t, <1>k, <2>1, <2>2 DEF K!KeyInv, K!KeysAreNeverLost, K!KeysAtHand, K!NoCommand
<1>3. CASE K!RestoreBackup
  <2>1. /\ file.torn /\ UNCHANGED <<copy, ring, rekey>>
        /\ file'.keys = copy /\ ~file'.torn /\ file'.current = file.current
    BY <1>3 DEF K!RestoreBackup, K!KeyInv, K!TypeOK
  <2>2. K!Needed' = K!Needed
    BY <1>3, <1>n DEF K!RestoreBackup
  <2> QED
    BY <1>t, <2>1, <2>2 DEF K!KeyInv, K!KeysAreNeverLost, K!KeysAtHand, K!NoCommand
<1>4. ASSUME NEW c \in Credential, K!IssueCredential(c) PROVE K!KeyInv'
  <2>1. /\ credential' = [credential EXCEPT ![c] = [state |-> "live", key |-> ring.current]]
        /\ UNCHANGED <<file, copy, ring, seed, secret, rekey>>
    BY <1>4 DEF K!IssueCredential, K!Seal
  <2>2. K!Needed' \subseteq K!Needed \cup {ring.current}
    BY <2>1, <1>m DEF K!Needed, K!Referenced
  <2> QED
    BY <1>t, <2>1, <2>2, SealedWithCurrent
<1>5. ASSUME NEW c \in Credential, K!Retire(c) PROVE K!KeyInv'
  <2>1. /\ credential[c].state = "live" /\ credential' = [credential EXCEPT ![c].state = "retired"]
        /\ UNCHANGED <<file, copy, ring, seed, secret, rekey>>
    BY <1>5 DEF K!Retire
  <2>2. \A d \in Credential : credential'[d].key = credential[d].key
                                /\ (credential'[d].state # "none" <=> credential[d].state # "none")
    BY <2>1 DEF K!KeyInv, K!TypeOK
  <2>3. K!Needed' \subseteq K!Needed \cup {ring.current}
    BY <2>1, <2>2 DEF K!Needed, K!Referenced
  <2> QED
    BY <1>t, <2>1, <2>3, SealedWithCurrent
<1>6. CASE K!SetTOTP \/ K!SaveChannel
  <2>1. /\ UNCHANGED <<file, copy, ring, credential, rekey>>
        /\ seed'.key \in {seed.key, ring.current} /\ secret'.key \in {secret.key, ring.current}
    BY <1>6 DEF K!SetTOTP, K!SaveChannel, K!Seal
  <2>2. K!Needed' \subseteq K!Needed \cup {ring.current}
    BY <2>1 DEF K!Needed, K!Referenced
  <2> QED
    BY <1>t, <2>1, <2>2, SealedWithCurrent
<1>7. CASE K!Start
  <2>1. /\ rekey = K!NoCommand /\ ~file.torn /\ ring = [current |-> file.current, keys |-> file.keys]
        /\ rekey' = [K!NoCommand EXCEPT !.step = "list", !.current = file.current, !.keys = file.keys]
        /\ UNCHANGED <<file, copy, ring>>
    BY <1>7 DEF K!Start, K!Load
  <2>2. rekey'.step = "list" /\ rekey'.current = file.current
    BY <2>1 DEF K!NoCommand
  <2>3. K!Needed' = K!Needed
    BY <1>7, <1>n DEF K!Start
  <2> QED
    BY <1>t, <1>k, <2>1, <2>2, <2>3 DEF K!KeyInv, K!KeysAreNeverLost
<1>8. CASE K!ListCredentials \/ K!ResealSettings \/ K!ResealTOTP \/ K!Reseal
  <2>1. rekey # K!NoCommand /\ UNCHANGED <<file, copy, ring>>
    BY <1>8 DEF K!ListCredentials, K!ResealSettings, K!ResealTOTP, K!Reseal, K!At, K!NoCommand
  <2>2. rekey.current = ring.current
    BY <2>1 DEF K!KeyInv
  <2>3. K!Needed' \subseteq K!Needed \cup {ring.current}
    <3>1. CASE K!Reseal
      <4>1. /\ \A d \in Credential : credential'[d].state = credential[d].state
                                       /\ credential'[d].key \in {credential[d].key, ring.current}
            /\ UNCHANGED <<seed, secret>>
        BY <3>1, <2>2 DEF K!Reseal, K!KeyInv, K!TypeOK
      <4> QED
        BY <4>1 DEF K!Needed, K!Referenced
    <3>2. CASE K!ListCredentials \/ K!ResealSettings \/ K!ResealTOTP
      <4>1. /\ UNCHANGED credential
            /\ seed'.key \in {seed.key, ring.current} /\ secret'.key \in {secret.key, ring.current}
        BY <3>2, <2>2 DEF K!ListCredentials, K!ResealSettings, K!ResealTOTP
      <4> QED
        BY <4>1 DEF K!Needed, K!Referenced
    <3> QED
      BY <1>8, <3>1, <3>2
  <2>4. \/ rekey' = K!NoCommand
        \/ /\ rekey'.current = rekey.current
           /\ rekey'.referenced = rekey.referenced
           /\ rekey'.step \notin {"prune", "write"}
    BY ZenonT(60), <1>8 DEF K!ListCredentials, K!ResealSettings, K!ResealTOTP, K!Reseal, K!KeyInv, K!TypeOK
  <2> QED
    BY <1>t, <2>1, <2>3, <2>4, SealedWithCurrent
<1>9. CASE K!referencedKeyVersions
  <2>1. rekey' = [rekey EXCEPT !.step = "prune", !.referenced = K!Referenced] /\ rekey.step = "referenced"
          /\ UNCHANGED <<file, copy, ring>>
    BY <1>9 DEF K!referencedKeyVersions, K!At
  <2>2. /\ rekey'.step = "prune" /\ rekey'.referenced = K!Referenced /\ rekey'.current = rekey.current
        /\ rekey # K!NoCommand
    BY <2>1 DEF K!KeyInv, K!TypeOK, K!NoCommand
  <2>3. K!Needed' = K!Needed
    BY <1>9, <1>n DEF K!referencedKeyVersions
  <2>4. K!Needed = K!Referenced
    BY DEF K!Needed, K!Referenced
  <2> QED
    BY <1>t, <1>k, <2>1, <2>2, <2>3, <2>4 DEF K!KeyInv, K!KeysAreNeverLost
<1>10. CASE K!PruneKeyFile
  <2>1. /\ rekey.step = "prune" /\ UNCHANGED <<file, ring>>
        /\ \/ copy' = file.keys /\ rekey' = [rekey EXCEPT !.step = "write"]
           \/ copy' = copy /\ rekey' = K!NoCommand
    BY <1>10 DEF K!PruneKeyFile, K!At
  <2>2. /\ rekey # K!NoCommand /\ ~file.torn
        /\ rekey' = K!NoCommand \/ (rekey'.step = "write" /\ rekey'.referenced = rekey.referenced
                                    /\ rekey'.current = rekey.current /\ copy' = file.keys)
    BY <2>1 DEF K!KeyInv, K!TypeOK, K!NoCommand
  <2>3. K!Needed' = K!Needed
    BY <1>10, <1>n DEF K!PruneKeyFile
  <2> QED
    BY <1>t, <2>1, <2>2, <2>3 DEF K!KeyInv, K!KeysAreNeverLost, K!KeysAtHand, K!NoCommand
<1>11. CASE K!WriteFile
  <2>1. /\ rekey.step = "write" /\ rekey' = K!NoCommand /\ UNCHANGED <<copy, ring>>
        /\ file' = [file EXCEPT !.keys = @ \cap ({file.current} \cup rekey.referenced)]
    BY <1>11 DEF K!WriteFile, K!At
  <2>2. /\ rekey # K!NoCommand /\ ~file.torn /\ ~file'.torn /\ file'.current = file.current
        /\ file'.keys = file.keys \cap ({file.current} \cup rekey.referenced)
    BY <2>1 DEF K!KeyInv, K!TypeOK, K!NoCommand
  <2>3. K!Needed' = K!Needed
    BY <1>11, <1>n DEF K!WriteFile
  <2> QED
    BY <1>t, <2>1, <2>2, <2>3 DEF K!KeyInv, K!KeysAreNeverLost, K!KeysAtHand, K!NoCommand
<1>12. CASE K!Stops
  <2>1. /\ rekey # K!NoCommand /\ rekey' = K!NoCommand /\ UNCHANGED <<copy, ring>>
        /\ file' = file \/ (rekey.step = "write" /\ file' = [file EXCEPT !.torn = TRUE])
    BY <1>12 DEF K!Stops, K!At
  <2>2. /\ ~file.torn /\ file'.current = file.current /\ file'.keys = file.keys
        /\ file'.torn => copy = file.keys
    BY <2>1 DEF K!KeyInv, K!TypeOK, K!NoCommand
  <2>3. K!Needed' = K!Needed
    BY <1>12, <1>n DEF K!Stops
  <2> QED
    BY <1>t, <2>1, <2>2, <2>3 DEF K!KeyInv, K!KeysAreNeverLost, K!KeysAtHand, K!NoCommand
<1>13. CASE UNCHANGED keyVars
  <2>1. UNCHANGED <<file, copy, ring, rekey>> /\ K!Needed' = K!Needed
    BY <1>13, <1>n DEF keyVars
  <2> QED
    BY <1>t, <2>1, SealedWithCurrent
<1> QED
  BY <1>1, <1>2, <1>3, <1>4, <1>5, <1>6, <1>7, <1>8, <1>9, <1>10, <1>11, <1>12, <1>13 DEF K!Next

\* secrets.go:90: "dropping a key makes a row unreadable for ever".  Whatever is stored,
\* the key file or the copy beside it has its key, wherever the command is stopped.
THEOREM StoredKeysAreKept == Spec => []KeysAreNeverLost
<1>1. K!KeyInv /\ [Next]_vars => K!KeyInv'
  BY StepOfAStory, KeyStep
<1>2. K!KeyInv => KeysAreNeverLost
  BY DEF K!KeyInv, KeysAreNeverLost
<1> QED
  BY KeyStart, <1>1, <1>2, PTL DEF Spec

-----------------------------------------------------------------------------
(* Tickets. *)

TicketRow == [status : T!Status, kind : Kinds \cup {"none"}, owner : T!Owner, version : Nat, request : Nat]
Proposal == [manager : BOOLEAN, decision : {"none", "approved", "rejected"}, by : T!Owner, role : T!Role]

LEMMA TicketStart == Init => T!TicketInv
<1> SUFFICES ASSUME Init PROVE T!TicketInv
  OBVIOUS
<1> USE DEF Init, T!Init, T!NoTicket, T!Owner
<1>1. contacts \in [Contact -> [role : T!Role, disabled : BOOLEAN]]
  BY DEF T!Role
<1>2. ticket \in TicketRow
  BY DEF TicketRow, T!Status
<1>3. proposals \in Seq(Proposal)
  OBVIOUS
<1>4. T!TypeOK
  BY <1>1, <1>2, <1>3 DEF T!TypeOK, TicketRow, Proposal
<1> QED
  BY <1>4 DEF T!TicketInv

\* What every change of the row does.
LEMMA Advancing ==
  ASSUME T!TypeOK, NEW status \in T!Status, T!Advance(status)
  PROVE  /\ ticket' \in TicketRow
         /\ ticket'.status = status /\ ticket'.kind = ticket.kind /\ ticket'.owner = ticket.owner
         /\ ticket'.version = ticket.version + 1
<1>1. ticket \in TicketRow
  BY DEF T!TypeOK, TicketRow
<1>2. ticket' = [status |-> status, kind |-> ticket.kind, owner |-> ticket.owner,
                 version |-> ticket.version + 1, request |-> ticket.request]
  BY <1>1 DEF T!Advance, TicketRow
<1> QED
  BY <1>1, <1>2 DEF TicketRow

LEMMA Recording ==
  ASSUME T!TypeOK, NEW actor \in {"admin", "customer"}, NEW public \in BOOLEAN, NEW version,
         T!Record(actor, public, version)
  PROVE  /\ last' \in [public : BOOLEAN, saw : BOOLEAN] /\ word' \in {"none", "admin", "customer"}
         /\ last'.public = public /\ (version = ticket.version => last'.saw)
         /\ ~public => word' = word
<1>1. (version = ticket.version) \in BOOLEAN
  OBVIOUS
<1> QED
  BY <1>1 DEF T!TypeOK, T!Record

\* What a change of the ticket that leaves its proposals alone has to respect.
Respects ==
  /\ ticket' \in TicketRow /\ UNCHANGED proposals
  /\ ticket'.kind = ticket.kind /\ ticket'.owner = ticket.owner
  /\ ticket'.version > 0
  /\ ticket'.status = "done" /\ ticket.kind \in {"account-delete", "quota"} =>
       ticket.status = "done" \/ T!Approved
Recorded == last' \in [public : BOOLEAN, saw : BOOLEAN] /\ word' \in {"none", "admin", "customer"}
Stands == UNCHANGED <<contacts, moves>> /\ page' \in [Contact \cup Admin -> Nat]

LEMMA Respecting ==
  ASSUME T!TicketInv, Respects, Recorded, Stands
  PROVE  T!TicketInv'
<1>1. T!TypeOK'
  BY DEF T!TicketInv, T!TypeOK, Respects, Recorded, Stands, TicketRow
<1>2. T!Approved' = T!Approved
  BY DEF T!Approved, Respects
<1>3. ticket'.version # 0
  BY DEF Respects, TicketRow
<1> QED
  BY <1>1, <1>2, <1>3 DEF T!TicketInv, Respects

LEMMA PagesAreNumbered ==
  ASSUME T!TypeOK, T!Overtaken
  PROVE  page' \in [Contact \cup Admin -> Nat]
  BY DEF T!TypeOK, T!Overtaken

\* A comment, a change of the status, a reply.
LEMMA EventStep ==
  ASSUME T!TicketInv, NEW actor \in {"admin", "customer"}, NEW kind, NEW public \in BOOLEAN,
         NEW next \in T!Status, NEW version, T!AddEvent(actor, kind, public, next, version)
  PROVE  Respects /\ Recorded
<1>1. /\ T!TypeOK /\ T!Advance(next) /\ T!Record(actor, public, version) /\ UNCHANGED proposals
      /\ next = "done" /\ ticket.kind \in {"account-delete", "quota"} => T!Approved
  BY DEF T!AddEvent, T!TicketInv
<1>2. /\ ticket' \in TicketRow
      /\ ticket'.status = next /\ ticket'.kind = ticket.kind /\ ticket'.owner = ticket.owner
      /\ ticket'.version = ticket.version + 1
  BY <1>1, Advancing
<1>3. ticket'.version > 0
  BY <1>1, <1>2 DEF T!TypeOK
<1>4. Recorded
  BY <1>1, Recording DEF Recorded
<1> QED
  BY <1>1, <1>2, <1>3, <1>4 DEF Respects

\* The other changes that leave the status as it is.
LEMMA SameStatusStep ==
  ASSUME T!TicketInv, NEW actor \in {"admin", "customer"}, NEW public \in BOOLEAN, NEW version,
         T!Record(actor, public, version), T!Advance(ticket.status), UNCHANGED proposals
  PROVE  Respects /\ Recorded
<1>1. T!TypeOK /\ ticket.status \in T!Status
  BY DEF T!TicketInv, T!TypeOK
<1>2. /\ ticket' \in TicketRow
      /\ ticket'.status = ticket.status /\ ticket'.kind = ticket.kind /\ ticket'.owner = ticket.owner
      /\ ticket'.version = ticket.version + 1
  BY <1>1, Advancing
<1>3. ticket'.version > 0
  BY <1>1, <1>2 DEF T!TypeOK
<1>4. Recorded
  BY <1>1, Recording DEF Recorded
<1> QED
  BY <1>2, <1>3, <1>4 DEF Respects

\* A proposal is made while the ticket is open, and waits for its decision.
LEMMA ProposalStep ==
  ASSUME T!TicketInv, NEW version, NEW manager \in BOOLEAN, T!SaveProposal(version, manager), Stands
  PROVE  T!TicketInv'
<1> DEFINE new == [manager |-> manager, decision |-> "none", by |-> Nobody, role |-> "employee"]
<1>1. /\ T!TypeOK /\ T!Advance("waiting_customer") /\ T!Record("admin", TRUE, version)
      /\ proposals' = Append(proposals, new)
  BY DEF T!SaveProposal, T!TicketInv
<1>2. /\ ticket' \in TicketRow /\ ticket'.status = "waiting_customer" /\ ticket'.owner = ticket.owner
      /\ ticket'.version = ticket.version + 1
  BY <1>1, Advancing DEF T!Status
<1>3. Recorded
  BY <1>1, Recording DEF Recorded
<1>4. new \in Proposal /\ proposals \in Seq(Proposal)
  BY <1>1 DEF Proposal, T!Owner, T!Role, T!TypeOK
<1>5. proposals' \in Seq(Proposal)
  BY <1>1, <1>4
<1>6. T!TypeOK'
  BY <1>1, <1>2, <1>3, <1>5 DEF T!TypeOK, Stands, Recorded, TicketRow, Proposal
<1>7. ticket'.version # 0
  BY <1>1, <1>2 DEF T!TypeOK
<1>8. ASSUME NEW i \in DOMAIN proposals', proposals'[i].decision = "approved"
      PROVE  i \in DOMAIN proposals /\ proposals'[i] = proposals[i]
  <2>1. i \in 1 .. Len(proposals) + 1
    BY <1>1, <1>4, <1>8
  <2>2. i # Len(proposals) + 1
    BY <1>1, <1>4, <1>8
  <2> QED
    BY <1>1, <1>4, <2>1, <2>2
<1> QED
  BY <1>2, <1>6, <1>7, <1>8 DEF T!TicketInv

\* A proposal is decided by somebody entitled to decide it.
LEMMA DecisionStep ==
  ASSUME T!TicketInv, NEW c \in Contact, NEW version, NEW id \in DOMAIN proposals,
         NEW decision \in {"approved", "rejected"}, T!DecideProposal(c, version, id, decision), Stands
  PROVE  T!TicketInv'
<1> DEFINE decided == [manager |-> proposals[id].manager, decision |-> decision, by |-> c,
                       role |-> contacts[c].role]
<1>1. /\ T!TypeOK /\ T!Advance("working") /\ T!Record("customer", TRUE, version)
      /\ IF proposals[id].manager THEN contacts[c].role = "manager"
         ELSE ticket.owner = c \/ contacts[c].role = "manager"
      /\ proposals' = [proposals EXCEPT ![id].decision = decision, ![id].by = c, ![id].role = contacts[c].role]
  BY DEF T!DecideProposal, T!TicketInv
<1>2. /\ ticket' \in TicketRow /\ ticket'.status = "working" /\ ticket'.owner = ticket.owner
      /\ ticket'.version = ticket.version + 1
  BY <1>1, Advancing DEF T!Status
<1>3. Recorded
  BY <1>1, Recording DEF Recorded
<1>4. proposals \in Seq(Proposal) /\ proposals[id] \in Proposal
  <2>1. proposals \in Seq(Proposal)
    BY <1>1 DEF T!TypeOK, Proposal
  <2> QED
    BY <2>1
<1>5. decided \in Proposal
  BY <1>1, <1>4 DEF Proposal, T!TypeOK, T!Owner
<1>6. proposals' = [proposals EXCEPT ![id] = decided]
  <2>1. DOMAIN proposals' = DOMAIN proposals /\ proposals' = [i \in DOMAIN proposals |-> proposals'[i]]
    BY <1>1
  <2>2. \A i \in DOMAIN proposals : i # id => proposals'[i] = proposals[i]
    BY <1>1
  <2>3. proposals'[id] = decided
    <3>1. proposals'[id] = [[[proposals[id] EXCEPT !.decision = decision] EXCEPT !.by = c] EXCEPT !.role = contacts[c].role]
      BY <1>1
    <3>2. proposals[id] = [manager |-> proposals[id].manager, decision |-> proposals[id].decision,
                           by |-> proposals[id].by, role |-> proposals[id].role]
      BY <1>4 DEF Proposal
    <3> QED
      BY <3>1, <3>2
  <2> HIDE DEF decided
  <2> QED
    BY <2>1, <2>2, <2>3
<1>7. proposals' \in Seq(Proposal)
  BY <1>4, <1>5, <1>6
<1>8. T!TypeOK'
  BY <1>1, <1>2, <1>3, <1>7 DEF T!TypeOK, Stands, Recorded, TicketRow, Proposal
<1>9. ticket'.version # 0
  BY <1>1, <1>2 DEF T!TypeOK
<1>10. ASSUME NEW i \in DOMAIN proposals', proposals'[i].decision = "approved"
       PROVE  proposals'[i].role = "manager" \/ (~proposals'[i].manager /\ proposals'[i].by = ticket'.owner)
  <2>1. CASE i = id
    <3>1. proposals'[i] = decided
      BY <1>4, <1>6, <2>1
    <3> QED
      BY <1>1, <1>2, <3>1
  <2>2. CASE i # id
    <3>1. i \in DOMAIN proposals /\ proposals'[i] = proposals[i]
      BY <1>4, <1>6, <1>10, <2>2
    <3> QED
      BY <1>2, <1>10, <3>1 DEF T!TicketInv
  <2> QED
    BY <2>1, <2>2
<1> QED
  BY <1>2, <1>8, <1>9, <1>10 DEF T!TicketInv

LEMMA CreateStep ==
  ASSUME T!TicketInv, NEW owner \in T!Owner, NEW kind \in Kinds, T!create(owner, kind),
         UNCHANGED <<contacts, moves, page>>
  PROVE  T!TicketInv'
<1>1. /\ T!TypeOK /\ ticket.version = 0 /\ proposals = <<>> /\ UNCHANGED proposals
      /\ ticket' = [status |-> "new", kind |-> kind, owner |-> owner, version |-> 1, request |-> 1]
      /\ T!Record(IF owner = Nobody THEN "admin" ELSE "customer", TRUE, 0)
  BY DEF T!create, T!TicketInv
<1>2. ticket' \in TicketRow
  BY <1>1 DEF TicketRow, T!Status
<1>3. Recorded
  BY <1>1, Recording DEF Recorded
<1>4. T!TypeOK'
  BY <1>1, <1>2, <1>3 DEF T!TypeOK, TicketRow, Recorded
<1> QED
  BY <1>1, <1>4 DEF T!TicketInv

\* What an administrator sends from a page.
LEMMA AdminStep ==
  ASSUME T!TicketInv, NEW a \in Admin, T!actionTicket(a)
  PROVE  T!TicketInv'
<1>1. Stands
  BY PagesAreNumbered DEF T!actionTicket, T!people, T!TicketInv, Stands
<1>2. ASSUME NEW manager \in BOOLEAN, T!SaveProposal(page[a], manager) PROVE T!TicketInv'
  BY <1>1, <1>2, ProposalStep
<1>3. ASSUME NEW stage, T!SaveChangeImplementation(page[a], stage) PROVE T!TicketInv'
  BY <1>1, <1>3, SameStatusStep, Respecting DEF T!SaveChangeImplementation
<1>4. ASSUME NEW public \in BOOLEAN, T!AddEvent("admin", "comment", public, ticket.status, page[a])
      PROVE  T!TicketInv'
  <2>1. ticket.status \in T!Status
    BY DEF T!TicketInv, T!TypeOK
  <2> QED
    BY <1>1, <1>4, <2>1, EventStep, Respecting
<1>5. ASSUME NEW next \in T!Status \ {"none"}, T!AddEvent("admin", "status", TRUE, next, page[a])
      PROVE  T!TicketInv'
  BY <1>1, <1>5, EventStep, Respecting
<1>6. CASE T!Assign(page[a])
  BY <1>1, <1>6, SameStatusStep, Respecting DEF T!Assign
<1>7. CASE T!LinkTask(page[a])
  <2>1. T!TypeOK /\ T!Record("admin", FALSE, page[a]) /\ ticket.version > 0 /\ UNCHANGED <<ticket, proposals>>
    BY <1>7 DEF T!LinkTask, T!TicketInv
  <2>2. Recorded
    BY <2>1, Recording DEF Recorded
  <2>3. Respects
    BY <2>1 DEF Respects, T!TypeOK, TicketRow
  <2> QED
    BY <1>1, <2>2, <2>3, Respecting
<1> QED
  BY <1>2, <1>3, <1>4, <1>5, <1>6, <1>7 DEF T!actionTicket

\* What a customer sends from a page.
LEMMA CustomerStep ==
  ASSUME T!TicketInv, NEW c \in Contact, T!customerPost(c)
  PROVE  T!TicketInv'
<1>1. Stands
  BY PagesAreNumbered DEF T!customerPost, T!people, T!TicketInv, Stands
<1>2. CASE T!UpdateDailyRequest(c, page[c])
  <2>1. /\ T!TypeOK /\ ticket.status = "new" /\ T!Record("customer", TRUE, page[c]) /\ UNCHANGED proposals
        /\ ticket' = [ticket EXCEPT !.version = @ + 1, !.request = @ + 1]
    BY <1>2 DEF T!UpdateDailyRequest, T!TicketInv
  <2>2. ticket \in TicketRow
    BY <2>1 DEF T!TypeOK, TicketRow
  <2>3. ticket' = [status |-> ticket.status, kind |-> ticket.kind, owner |-> ticket.owner,
                   version |-> ticket.version + 1, request |-> ticket.request + 1]
    BY <2>1, <2>2 DEF TicketRow
  <2>4. Respects
    BY <2>1, <2>2, <2>3 DEF Respects, TicketRow
  <2>5. Recorded
    BY <2>1, Recording DEF Recorded
  <2> QED
    BY <1>1, <2>4, <2>5, Respecting
<1>3. CASE T!handleCustomerReply(c, ticket.status, page[c])
  <2>1. ticket.status \in T!Status /\ T!AfterReply(ticket.status) \in T!Status
    BY DEF T!TicketInv, T!TypeOK, T!AfterReply, T!Status
  <2>2. \E kind \in {"comment", "status"}, next \in T!Status : T!AddEvent("customer", kind, TRUE, next, page[c])
    BY <1>3, <2>1 DEF T!handleCustomerReply, T!Status
  <2> QED
    BY <1>1, <2>2, EventStep, Respecting
<1>4. ASSUME NEW id \in DOMAIN proposals, NEW d \in {"approved", "rejected"},
             T!DecideProposal(c, page[c], id, d)
      PROVE  T!TicketInv'
  BY <1>1, <1>4, DecisionStep
<1>5. CASE T!ConfirmChangeResult(c, page[c])
  BY <1>1, <1>5, SameStatusStep, Respecting DEF T!ConfirmChangeResult
<1> QED
  BY <1>2, <1>3, <1>4, <1>5 DEF T!customerPost

LEMMA TicketStep ==
  ASSUME T!TicketInv, T!Next \/ UNCHANGED ticketVars
  PROVE  T!TicketInv'
<1>1. CASE \E c \in Contact : (\E d \in BOOLEAN : T!SetContactDisabled(c, d))
                              \/ (\E role \in T!Role : T!SetContactRole(c, role))
  <2>1. UNCHANGED <<ticket, last, word, proposals, changes, page>>
    BY <1>1 DEF T!SetContactDisabled, T!SetContactRole, T!paper
  <2>2. contacts' \in [Contact -> [role : T!Role, disabled : BOOLEAN]] /\ moves' \in Nat
    <3>1. moves' \in Nat
      BY <1>1 DEF T!SetContactDisabled, T!SetContactRole, T!Move, T!TicketInv, T!TypeOK
    <3>2. PICK c \in Contact : (\E d \in BOOLEAN : contacts' = [contacts EXCEPT ![c].disabled = d])
                               \/ (\E role \in T!Role : contacts' = [contacts EXCEPT ![c].role = role])
      BY <1>1 DEF T!SetContactDisabled, T!SetContactRole
    <3>3. contacts \in [Contact -> [role : T!Role, disabled : BOOLEAN]]
      BY DEF T!TicketInv, T!TypeOK
    <3>4. CASE \E d \in BOOLEAN : contacts' = [contacts EXCEPT ![c].disabled = d]
      BY <3>1, <3>3, <3>4
    <3>5. CASE \E role \in T!Role : contacts' = [contacts EXCEPT ![c].role = role]
      BY <3>1, <3>3, <3>5
    <3> QED
      BY <3>1, <3>2, <3>4, <3>5
  <2>3. T!TypeOK'
    BY <2>1, <2>2 DEF T!TicketInv, T!TypeOK
  <2> QED
    BY <2>1, <2>3 DEF T!TicketInv, T!Approved
<1>2. ASSUME NEW c \in Contact, T!customerPost(c) PROVE T!TicketInv'
  BY <1>2, CustomerStep
<1>3. ASSUME NEW c \in Contact, NEW kind \in Kinds, T!handleCustomerCreateTicket(c, kind) PROVE T!TicketInv'
  BY <1>3, CreateStep DEF T!handleCustomerCreateTicket, T!Owner, T!people
<1>4. ASSUME NEW p \in Contact \cup Admin, T!OpenPage(p) PROVE T!TicketInv'
  <2>1. UNCHANGED <<ticket, last, word, proposals, contacts, moves>> /\ page' = [page EXCEPT ![p] = ticket.version]
    BY <1>4 DEF T!OpenPage, T!people, T!paper
  <2>2. T!TypeOK'
    BY <2>1 DEF T!TicketInv, T!TypeOK
  <2> QED
    BY <2>1, <2>2 DEF T!TicketInv, T!Approved
<1>5. ASSUME NEW kind \in Kinds, T!CreateByAdmin(kind) PROVE T!TicketInv'
  BY <1>5, CreateStep DEF T!CreateByAdmin, T!Owner, T!people
<1>6. ASSUME NEW a \in Admin, T!actionTicket(a) PROVE T!TicketInv'
  BY <1>6, AdminStep
<1>7. CASE UNCHANGED ticketVars
  <2>1. UNCHANGED <<ticket, last, word, proposals, contacts, moves, page>>
    BY <1>7 DEF ticketVars
  <2> QED
    BY <2>1 DEF T!TicketInv, T!TypeOK, T!Approved
<1> QED
  BY <1>1, <1>2, <1>3, <1>4, <1>5, <1>6, <1>7 DEF T!Next

\* tickets.go: an account is deleted, or a quota raised, only by the latest proposal,
\* and only when somebody entitled to it has approved that one.
THEOREM DoneTicketIsAgreed == Spec => []DoneIsAgreed
<1>1. T!TicketInv /\ [Next]_vars => T!TicketInv'
  BY StepOfAStory, TicketStep
<1>2. T!TicketInv => DoneIsAgreed
  <2> SUFFICES ASSUME T!TicketInv, ticket.status = "done", ticket.kind \in {"account-delete", "quota"}
               PROVE  /\ proposals # <<>>
                      /\ proposals[Len(proposals)].decision = "approved"
                      /\ \/ proposals[Len(proposals)].role = "manager"
                         \/ /\ ~proposals[Len(proposals)].manager
                            /\ proposals[Len(proposals)].by = ticket.owner
    BY DEF DoneIsAgreed, T!DoneIsAgreed, T!Last
  <2>1. proposals # <<>> /\ proposals[Len(proposals)].decision = "approved" /\ proposals \in Seq(Proposal)
    BY DEF T!TicketInv, T!Approved, T!TypeOK, Proposal, T!Last
  <2>2. Len(proposals) \in DOMAIN proposals
    BY <2>1
  <2> QED
    BY <2>1, <2>2 DEF T!TicketInv, T!Last
<1> QED
  BY TicketStart, <1>1, <1>2, PTL DEF Spec

\* What a step does to a customer who waits.
Heard ==
  T!NeedsAction /\ ticket.status # "new" /\ ~T!Needs(ticket', word') => last'.public /\ last'.saw

LEMMA SpokenIsHeard ==
  ASSUME T!TypeOK, NEW actor \in {"admin", "customer"}, T!Record(actor, TRUE, ticket.version)
  PROVE  Heard
  BY Recording DEF Heard

LEMMA UnspokenIsHeard ==
  ASSUME ticket'.status = ticket.status, ticket'.owner = ticket.owner, word' = word
  PROVE  Heard
  BY DEF Heard, T!NeedsAction, T!Needs

LEMMA CommentIsHeard ==
  ASSUME T!TypeOK, NEW public \in BOOLEAN, NEW kind, NEW version,
         T!AddEvent("admin", kind, public, ticket.status, version)
  PROVE  Heard
<1>1. /\ version = ticket.version /\ T!Record("admin", public, version)
      /\ T!Advance(ticket.status) /\ ticket.status \in T!Status
  BY DEF T!AddEvent, T!TypeOK
<1>2. ticket'.status = ticket.status /\ ticket'.owner = ticket.owner
  BY <1>1, Advancing
<1>3. CASE public
  BY <1>1, <1>3, SpokenIsHeard
<1>4. CASE ~public
  BY <1>1, <1>2, <1>4, Recording, UnspokenIsHeard
<1> QED
  BY <1>3, <1>4

LEMMA HearingStep ==
  ASSUME T!TicketInv, T!Next \/ UNCHANGED ticketVars
  PROVE  Heard
<1>t. T!TypeOK /\ ticket.status \in T!Status
  BY DEF T!TicketInv, T!TypeOK
<1>1. CASE UNCHANGED <<ticket, word>>
  BY <1>1, UnspokenIsHeard
<1>2. ASSUME NEW owner, NEW kind, T!create(owner, kind) PROVE Heard
  <2>1. ticket.status = "none"
    BY <1>2 DEF T!create, T!TicketInv
  <2> QED
    BY <2>1 DEF Heard, T!NeedsAction, T!Needs
<1>3. ASSUME NEW a \in Admin, T!actionTicket(a) PROVE Heard
  <2>1. ASSUME NEW manager \in BOOLEAN, T!SaveProposal(page[a], manager) PROVE Heard
    BY <1>t, <2>1, SpokenIsHeard DEF T!SaveProposal
  <2>2. ASSUME NEW stage, T!SaveChangeImplementation(page[a], stage) PROVE Heard
    BY <1>t, <2>2, SpokenIsHeard DEF T!SaveChangeImplementation
  <2>3. ASSUME NEW public \in BOOLEAN, T!AddEvent("admin", "comment", public, ticket.status, page[a]) PROVE Heard
    BY <1>t, <2>3, CommentIsHeard
  <2>4. ASSUME NEW next, T!AddEvent("admin", "status", TRUE, next, page[a]) PROVE Heard
    BY <1>t, <2>4, SpokenIsHeard DEF T!AddEvent
  <2>5. ASSUME T!Assign(page[a]) PROVE Heard
    <3>1. word' = word
      BY <1>t, <2>5, Recording DEF T!Assign
    <3>2. ticket'.status = ticket.status /\ ticket'.owner = ticket.owner
      BY <1>t, <2>5, Advancing DEF T!Assign
    <3> QED
      BY <3>1, <3>2, UnspokenIsHeard
  <2>6. ASSUME T!LinkTask(page[a]) PROVE Heard
    BY <1>t, <2>6, Recording, UnspokenIsHeard DEF T!LinkTask
  <2> QED
    BY <1>3, <2>1, <2>2, <2>3, <2>4, <2>5, <2>6 DEF T!actionTicket
<1>4. ASSUME NEW c \in Contact, T!customerPost(c) PROVE Heard
  <2>1. T!Record("customer", TRUE, page[c]) /\ page[c] = ticket.version
    BY <1>4 DEF T!customerPost, T!UpdateDailyRequest, T!handleCustomerReply, T!DecideProposal,
                T!ConfirmChangeResult, T!AddEvent
  <2> QED
    BY <1>t, <2>1, SpokenIsHeard
<1> QED
  BY <1>1, <1>2, <1>3, <1>4
  DEF T!Next, ticketVars, T!SetContactDisabled, T!SetContactRole, T!paper, T!OpenPage,
      T!handleCustomerCreateTicket, T!CreateByAdmin

\* dbstore/tickets.go:347-349: a customer who waits stops waiting only when somebody
\* who has seen the ticket as it is says something in public.
THEOREM WaitingCustomerIsHeard == Spec => CustomerIsHeard
<1>1. T!TicketInv /\ [Next]_vars => T!TicketInv'
  BY StepOfAStory, TicketStep
<1>2. T!TicketInv /\ [Next]_vars =>
        [T!NeedsAction /\ ticket.status # "new" /\ ~T!Needs(ticket', word') =>
           last'.public /\ last'.saw]_(T!vars)
  BY StepOfAStory, HearingStep DEF Heard
<1> QED
  BY TicketStart, <1>1, <1>2, PTL DEF Spec, CustomerIsHeard, T!CustomerIsHeard

-----------------------------------------------------------------------------
(* Signing in, and switching accounts off. *)

RequestRow == [step : {"idle", "password", "code", "session", "clear", "statement", "commit"},
               of : Account, target : Account, others : BOOLEAN]

\* The sets of SignIn are counted as everywhere.
LEMMA SignInCounts ==
  ASSUME NEW X
  PROVE  S!Cardinality(X) = Cardinality(X) /\ (S!IsFiniteSet(X) <=> IsFiniteSet(X))
  BY DEF S!Cardinality, Cardinality, S!IsFiniteSet, IsFiniteSet

LEMMA SignInConstants ==
  /\ First \in Administers /\ Administers \subseteq Account /\ Careless \subseteq Account
  /\ IsFiniteSet(Request) /\ MaxFailures \in Nat \ {0}
  BY ConsoleAssumption, SignInCounts DEF ConsoleAssumption, S!SignInAssumption

\* The bound on the guesses, in terms of the library's counting.
LEMMA TriesAreCounted ==
  /\ S!TriesInv <=> \A a \in Account : wrong[a] + Cardinality(S!Trying(a)) < MaxFailures + Cardinality(Request) + unrecorded[a]
  /\ S!TriesInv' <=> \A a \in Account : wrong'[a] + Cardinality(S!Trying(a)') < MaxFailures + Cardinality(Request) + unrecorded'[a]
  BY SignInCounts DEF S!TriesInv

LEMMA SignInStart == Init => S!SignInInv
<1> SUFFICES ASSUME Init PROVE S!SignInInv
  OBVIOUS
<1> USE SignInConstants
<1>1. /\ account = [a \in Account |-> IF a = First THEN "enabled" ELSE "none"]
      /\ wrong = [a \in Account |-> 0] /\ unrecorded = [a \in Account |-> 0]
      /\ locked = [a \in Account |-> 0] /\ ~loophole
      /\ req = [r \in Request |-> S!Idle] /\ loophole \in BOOLEAN
  BY DEF Init, S!Init
<1>2. S!TypeOK
  BY <1>1 DEF S!TypeOK, S!Idle
<1>3. S!TriesInv
  <2>1. \A a \in Account : S!Trying(a) = {}
    BY <1>1 DEF S!Trying, S!Idle
  <2>2. Cardinality(Request) \in Nat
    BY FS_CardinalityType
  <2>3. ASSUME NEW a \in Account
        PROVE  wrong[a] + Cardinality(S!Trying(a)) < MaxFailures + Cardinality(Request) + unrecorded[a]
    <3>1. Cardinality(S!Trying(a)) = 0
      BY <2>1, FS_EmptySet
    <3>2. wrong[a] = 0 /\ unrecorded[a] = 0
      BY <1>1
    <3> QED
      BY <2>2, <3>1, <3>2
  <2> QED
    BY <2>3, TriesAreCounted
<1>4. S!SwitchInv
  BY <1>1 DEF S!SwitchInv, S!SomebodyCanUndo, S!Enabled, S!Switching, S!Idle
<1> QED
  BY <1>2, <1>3, <1>4 DEF S!SignInInv

\* A request goes on, ends or begins: what its row is afterwards.
LEMMA RequestRows ==
  ASSUME S!TypeOK, NEW r \in Request, NEW row \in RequestRow, req' = [req EXCEPT ![r] = row]
  PROVE  /\ req' \in [Request -> RequestRow]
         /\ req'[r] = row /\ \A q \in Request : q # r => req'[q] = req[q]
  BY DEF S!TypeOK, RequestRow

LEMMA GoesOn ==
  ASSUME S!TypeOK, NEW r \in Request,
         NEW step \in {"idle", "password", "code", "session", "clear", "statement", "commit"}, S!Goto(r, step)
  PROVE  req' = [req EXCEPT ![r] = [step |-> step, of |-> req[r].of, target |-> req[r].target,
                                    others |-> req[r].others]]
<1>1. req[r] \in RequestRow
  BY DEF S!TypeOK, RequestRow
<1>2. [req[r] EXCEPT !.step = step] = [step |-> step, of |-> req[r].of, target |-> req[r].target,
                                       others |-> req[r].others]
  BY <1>1 DEF RequestRow
<1>3. req' = [req EXCEPT ![r] = [req[r] EXCEPT !.step = step]]
  BY DEF S!Goto
<1> QED
  BY <1>2, <1>3

LEMMA IdleRow == S!Idle \in RequestRow /\ S!Idle.step = "idle"
  BY SignInConstants DEF S!Idle, RequestRow

\* The number of attempts on the way, before and after.
LEMMA TryingIsFinite ==
  ASSUME NEW a \in Account
  PROVE  IsFiniteSet(S!Trying(a)) /\ Cardinality(S!Trying(a)) \in Nat
         /\ Cardinality(S!Trying(a)) <= Cardinality(Request) /\ Cardinality(Request) \in Nat
  BY SignInConstants, FS_Subset, FS_CardinalityType DEF S!Trying

\* Nobody new tries: the attempts counted and those on the way stay within the limit.
LEMMA FewerTry ==
  ASSUME S!SignInInv, S!TypeOK',
         \A r \in Request : req'[r].step \in {"password", "code"} =>
           req[r].step \in {"password", "code"} /\ req'[r].of = req[r].of,
         \A a \in Account :
           \/ wrong'[a] + unrecorded[a] <= wrong[a] + unrecorded'[a]
           \/ /\ wrong'[a] + unrecorded[a] = wrong[a] + unrecorded'[a] + 1
              /\ \E r \in Request : r \in S!Trying(a) /\ req'[r].step \notin {"password", "code"}
  PROVE  S!TriesInv'
<1> SUFFICES ASSUME NEW a \in Account
             PROVE  wrong'[a] + Cardinality(S!Trying(a)') < MaxFailures + Cardinality(Request) + unrecorded'[a]
  BY TriesAreCounted
<1>1. S!Trying(a)' \subseteq S!Trying(a)
  BY DEF S!Trying
<1>2. IsFiniteSet(S!Trying(a)) /\ Cardinality(S!Trying(a)) \in Nat /\ Cardinality(Request) \in Nat
  BY TryingIsFinite
<1>3. /\ IsFiniteSet(S!Trying(a)') /\ Cardinality(S!Trying(a)') \in Nat
      /\ Cardinality(S!Trying(a)') <= Cardinality(S!Trying(a))
  BY <1>1, <1>2, FS_Subset, FS_CardinalityType
<1>4. /\ wrong[a] \in Nat /\ wrong'[a] \in Nat /\ MaxFailures \in Nat
      /\ unrecorded[a] \in Nat /\ unrecorded'[a] \in Nat
  BY SignInConstants DEF S!SignInInv, S!TypeOK
<1>5. wrong[a] + Cardinality(S!Trying(a)) < MaxFailures + Cardinality(Request) + unrecorded[a]
  BY TriesAreCounted DEF S!SignInInv
<1>6. CASE wrong'[a] + unrecorded[a] <= wrong[a] + unrecorded'[a]
  BY <1>2, <1>3, <1>4, <1>5, <1>6
<1>7. CASE wrong'[a] + unrecorded[a] = wrong[a] + unrecorded'[a] + 1
          /\ \E r \in Request : r \in S!Trying(a) /\ req'[r].step \notin {"password", "code"}
  <2>1. PICK r \in Request : r \in S!Trying(a) /\ req'[r].step \notin {"password", "code"}
    BY <1>7
  <2>2. S!Trying(a)' \subseteq S!Trying(a) \ {r}
    BY <1>1, <2>1 DEF S!Trying
  <2>3. IsFiniteSet(S!Trying(a) \ {r}) /\ Cardinality(S!Trying(a) \ {r}) = Cardinality(S!Trying(a)) - 1
    BY <1>2, <2>1, FS_RemoveElement
  <2>4. Cardinality(S!Trying(a)') <= Cardinality(S!Trying(a)) - 1
    BY <2>2, <2>3, FS_Subset
  <2> QED
    BY <1>2, <1>3, <1>4, <1>5, <1>7, <2>4
<1> QED
  BY <1>6, <1>7

\* Nobody is switched off, and who was switching goes on as an administrator that is on.
LEMMA NobodyIsSwitchedOff ==
  ASSUME S!SignInInv,
         \A a \in Account : account[a] = "enabled" => account'[a] = "enabled",
         loophole' = loophole,
         ~loophole => \A r \in Request : S!Switching(r)' =>
           req'[r].of \in Administers /\ req'[r].of # req'[r].target /\ account'[req'[r].of] = "enabled"
  PROVE  S!SwitchInv'
<1>1. S!SomebodyCanUndo'
  BY SignInConstants DEF S!SignInInv, S!SwitchInv, S!SomebodyCanUndo, S!Enabled
<1> QED
  BY <1>1 DEF S!SwitchInv, S!Enabled

\* Those who switch and are not the request itself stay as they are.
LEMMA SameSwitching ==
  ASSUME S!SignInInv, UNCHANGED <<account, loophole>>,
         \A r \in Request : S!Switching(r)' =>
           S!Switching(r) /\ req'[r].of = req[r].of /\ req'[r].target = req[r].target
  PROVE  S!SwitchInv'
  BY DEF S!SignInInv, S!SwitchInv, S!SomebodyCanUndo, S!Enabled

\* A request that neither tries a password nor switches an account begins, goes on or ends.
LEMMA PlainStep ==
  ASSUME S!SignInInv, NEW r \in Request, NEW row \in RequestRow, req' = [req EXCEPT ![r] = row],
         row.step \notin {"password", "code", "statement", "commit"},
         UNCHANGED <<account, wrong, unrecorded, locked, loophole>>
  PROVE  S!SignInInv'
<1>t. S!TypeOK
  BY DEF S!SignInInv
<1>1. /\ req' \in [Request -> RequestRow]
      /\ req'[r] = row /\ \A q \in Request : q # r => req'[q] = req[q]
  BY <1>t, RequestRows
<1>2. S!TypeOK'
  BY <1>t, <1>1 DEF S!TypeOK, RequestRow
<1>3. \A q \in Request : req'[q].step \in {"password", "code"} =>
        req[q].step \in {"password", "code"} /\ req'[q].of = req[q].of
  BY <1>1
<1>4. \A a \in Account : wrong'[a] + unrecorded[a] <= wrong[a] + unrecorded'[a]
  BY <1>t DEF S!TypeOK
<1>5. S!TriesInv'
  BY <1>2, <1>3, <1>4, FewerTry
<1>6. \A q \in Request : S!Switching(q)' =>
        S!Switching(q) /\ req'[q].of = req[q].of /\ req'[q].target = req[q].target
  BY <1>1 DEF S!Switching
<1>7. S!SwitchInv'
  BY <1>6, SameSwitching
<1> QED
  BY <1>2, <1>5, <1>7 DEF S!SignInInv

\* Accounts, requests and wrong attempts stay, or there are fewer of these.
LEMMA NoRequestMoves ==
  ASSUME S!SignInInv, S!TypeOK', UNCHANGED <<req, loophole>>,
         \A a \in Account : wrong'[a] + unrecorded[a] <= wrong[a] + unrecorded'[a],
         \A a \in Account : account[a] = "enabled" => account'[a] = "enabled"
  PROVE  S!SignInInv'
<1>1. S!TriesInv'
  BY FewerTry
<1>2. ~loophole => \A r \in Request : S!Switching(r)' =>
        req'[r].of \in Administers /\ req'[r].of # req'[r].target /\ account'[req'[r].of] = "enabled"
  BY SignInConstants DEF S!SignInInv, S!SwitchInv, S!Switching, S!Enabled
<1>3. S!SwitchInv'
  BY <1>2, NobodyIsSwitchedOff
<1> QED
  BY <1>1, <1>3 DEF S!SignInInv

\* An attempt is let in: the count is below the limit.
LEMMA LetIn ==
  ASSUME S!SignInInv, NEW r \in Request, NEW a \in Account, S!SignIn(r, a)
  PROVE  S!SignInInv'
<1>t. /\ S!TypeOK /\ MaxFailures \in Nat
      /\ wrong[a] \in Nat /\ unrecorded[a] \in Nat /\ locked[a] \in Nat
  BY SignInConstants DEF S!SignInInv, S!TypeOK
<1>1. CASE S!LockedOut(a)
  <2>1. UNCHANGED <<account, wrong, unrecorded, req, loophole>> /\ locked' = [locked EXCEPT ![a] = @ + 1]
    BY <1>1 DEF S!SignIn, S!who
  <2>2. S!TypeOK'
    BY <1>t, <2>1 DEF S!TypeOK
  <2>3. \A b \in Account : wrong'[b] + unrecorded[b] <= wrong[b] + unrecorded'[b]
    BY <1>t, <2>1 DEF S!TypeOK
  <2> QED
    BY <2>1, <2>2, <2>3, NoRequestMoves
<1>2. CASE ~S!LockedOut(a)
  <2> DEFINE row == [step |-> "password", of |-> a, target |-> First, others |-> FALSE]
  <2>1. UNCHANGED <<account, wrong, unrecorded, locked, loophole>> /\ req' = [req EXCEPT ![r] = row] /\ req[r].step = "idle"
    BY <1>2 DEF S!SignIn, S!who, S!At, S!Idle
  <2>2. row \in RequestRow
    BY SignInConstants DEF RequestRow
  <2>3. /\ req' \in [Request -> RequestRow]
        /\ req'[r] = row /\ \A q \in Request : q # r => req'[q] = req[q]
    BY <1>t, <2>1, <2>2, RequestRows
  <2>4. S!TypeOK'
    BY <1>t, <2>1, <2>3 DEF S!TypeOK, RequestRow
  <2>5. ASSUME NEW b \in Account
        PROVE  wrong'[b] + Cardinality(S!Trying(b)') < MaxFailures + Cardinality(Request) + unrecorded'[b]
    <3>1. CASE b = a
      <4>1. /\ S!Trying(a)' \subseteq Request /\ Cardinality(S!Trying(a)') <= Cardinality(Request)
            /\ Cardinality(S!Trying(a)') \in Nat /\ Cardinality(Request) \in Nat
        BY SignInConstants, FS_Subset, FS_CardinalityType DEF S!Trying
      <4>2. wrong[a] + locked[a] < MaxFailures + unrecorded[a]
        BY <1>t, <1>2 DEF S!LockedOut
      <4> QED
        BY <1>t, <2>1, <3>1, <4>1, <4>2
    <3>2. CASE b # a
      <4>1. S!Trying(b)' = S!Trying(b)
        BY <2>1, <2>3, <3>2 DEF S!Trying
      <4> QED
        BY <2>1, <4>1, TriesAreCounted DEF S!SignInInv
    <3> QED
      BY <3>1, <3>2
  <2>6. S!TriesInv'
    BY <2>5, TriesAreCounted
  <2>7. \A q \in Request : S!Switching(q)' =>
          S!Switching(q) /\ req'[q].of = req[q].of /\ req'[q].target = req[q].target
    BY <2>3 DEF S!Switching
  <2>8. S!SwitchInv'
    BY <2>1, <2>7, SameSwitching
  <2> QED
    BY <2>4, <2>6, <2>8 DEF S!SignInInv
<1> QED
  BY <1>1, <1>2

\* An attempt turns out wrong: it is counted, and is over.
LEMMA WrongStep ==
  ASSUME S!SignInInv, NEW r \in Request, req[r].step \in {"password", "code"},
         S!Wrong(req[r].of), S!End(r), UNCHANGED <<account, locked, loophole>>
  PROVE  S!SignInInv'
<1>t. S!TypeOK /\ req[r] \in RequestRow
  BY DEF S!SignInInv, S!TypeOK, RequestRow
<1>1. /\ req' \in [Request -> RequestRow]
      /\ req'[r] = S!Idle /\ \A q \in Request : q # r => req'[q] = req[q]
  BY <1>t, RequestRows, IdleRow DEF S!End
<1>2. /\ wrong' = [wrong EXCEPT ![req[r].of] = @ + 1] /\ req[r].of \in Account
      /\ unrecorded' = unrecorded \/ unrecorded' = [unrecorded EXCEPT ![req[r].of] = @ + 1]
  BY <1>t DEF S!Wrong, RequestRow
<1>3. S!TypeOK'
  BY <1>t, <1>1, <1>2 DEF S!TypeOK, RequestRow
<1>4. \A q \in Request : req'[q].step \in {"password", "code"} =>
        req[q].step \in {"password", "code"} /\ req'[q].of = req[q].of
  BY <1>1, IdleRow
<1>5. ASSUME NEW a \in Account
      PROVE  \/ wrong'[a] + unrecorded[a] <= wrong[a] + unrecorded'[a]
             \/ /\ wrong'[a] + unrecorded[a] = wrong[a] + unrecorded'[a] + 1
                /\ \E q \in Request : q \in S!Trying(a) /\ req'[q].step \notin {"password", "code"}
  <2>1. CASE a = req[r].of
    <3>1. r \in S!Trying(a) /\ req'[r].step \notin {"password", "code"}
      BY <1>1, <2>1, IdleRow DEF S!Trying
    <3>2. \/ wrong'[a] + unrecorded[a] = wrong[a] + unrecorded'[a] + 1
          \/ wrong'[a] + unrecorded[a] <= wrong[a] + unrecorded'[a]
      BY <1>t, <1>2, <2>1 DEF S!TypeOK
    <3> QED
      BY <3>1, <3>2
  <2>2. CASE a # req[r].of
    BY <1>t, <1>2, <2>2 DEF S!TypeOK
  <2> QED
    BY <2>1, <2>2
<1>6. S!TriesInv'
  BY <1>3, <1>4, <1>5, FewerTry
<1>7. \A q \in Request : S!Switching(q)' =>
        S!Switching(q) /\ req'[q].of = req[q].of /\ req'[q].target = req[q].target
  BY <1>1, IdleRow DEF S!Switching
<1>8. S!SwitchInv'
  BY <1>7, SameSwitching
<1> QED
  BY <1>3, <1>6, <1>8 DEF S!SignInInv

\* The request of an attempt goes on to the next step, or ends.
LEMMA PasswordStep ==
  ASSUME S!SignInInv, NEW r \in Request, S!VerifyPassword(r) \/ S!checkSecondFactor(r)
  PROVE  S!SignInInv'
<1>t. S!TypeOK /\ req[r] \in RequestRow
  BY DEF S!SignInInv, S!TypeOK, RequestRow
<1> USE DEF S!VerifyPassword, S!checkSecondFactor, S!At, S!who
<1>1. UNCHANGED <<account, locked, loophole>> /\ req[r].step \in {"password", "code"}
  OBVIOUS
<1>2. CASE S!Wrong(req[r].of) /\ S!End(r)
  BY <1>1, <1>2, WrongStep
<1>3. CASE S!End(r) /\ UNCHANGED <<wrong, unrecorded>>
  BY <1>1, <1>3, PlainStep, IdleRow DEF S!End
<1>4. CASE S!Goto(r, "session") /\ UNCHANGED <<wrong, unrecorded>>
  <2> DEFINE row == [step |-> "session", of |-> req[r].of, target |-> req[r].target, others |-> req[r].others]
  <2>1. row \in RequestRow
    BY <1>t DEF RequestRow
  <2>2. req' = [req EXCEPT ![r] = row]
    BY <1>t, <1>4, GoesOn
  <2> QED
    BY <1>1, <1>4, <2>1, <2>2, PlainStep
<1>5. CASE S!Goto(r, "code") /\ UNCHANGED <<wrong, unrecorded>>
  <2> DEFINE row == [step |-> "code", of |-> req[r].of, target |-> req[r].target, others |-> req[r].others]
  <2>1. row \in RequestRow
    BY <1>t DEF RequestRow
  <2>2. req' = [req EXCEPT ![r] = row]
    BY <1>t, <1>5, GoesOn
  <2>3. /\ req' \in [Request -> RequestRow]
        /\ req'[r] = row /\ \A q \in Request : q # r => req'[q] = req[q]
    BY <1>t, <2>1, <2>2, RequestRows
  <2>4. S!TypeOK'
    BY <1>t, <1>1, <1>5, <2>3 DEF S!TypeOK, RequestRow
  <2>5. \A a \in Account : wrong'[a] + unrecorded[a] <= wrong[a] + unrecorded'[a]
    BY <1>t, <1>5 DEF S!TypeOK
  <2>6. S!TriesInv'
    BY <1>1, <2>3, <2>4, <2>5, FewerTry
  <2>7. S!SwitchInv'
    BY <1>1, <2>3, SameSwitching DEF S!Switching
  <2> QED
    BY <2>4, <2>6, <2>7 DEF S!SignInInv
<1> QED
  BY <1>2, <1>3, <1>4, <1>5

\* Steps of requests that neither try nor switch.
LEMMA OtherRequests ==
  ASSUME S!SignInInv, NEW r \in Request, NEW a \in Account,
         S!openSession(r) \/ S!DeleteSessionsFor(r) \/ S!CompleteEnrolment(r, a) \/ S!ChangePassword(r, a)
  PROVE  S!SignInInv'
<1>1. UNCHANGED <<account, wrong, unrecorded, locked, loophole>>
  BY DEF S!openSession, S!DeleteSessionsFor, S!CompleteEnrolment, S!ChangePassword, S!who, S!tries
<1>2. req' = [req EXCEPT ![r] = S!Idle]
      \/ req' = [req EXCEPT ![r] = [step |-> "clear", of |-> First, target |-> a, others |-> FALSE]]
  BY DEF S!openSession, S!DeleteSessionsFor, S!CompleteEnrolment, S!ChangePassword, S!End, S!Idle
<1>3. [step |-> "clear", of |-> First, target |-> a, others |-> FALSE] \in RequestRow
  BY SignInConstants DEF RequestRow
<1>4. CASE req' = [req EXCEPT ![r] = S!Idle]
  BY <1>1, <1>4, IdleRow, PlainStep
<1>5. CASE req' = [req EXCEPT ![r] = [step |-> "clear", of |-> First, target |-> a, others |-> FALSE]]
  BY <1>1, <1>3, <1>5, PlainStep
<1> QED
  BY <1>2, <1>4, <1>5

\* Somebody is about to be switched off, by an administrator who is not.
LEMMA SwitchBegins ==
  ASSUME S!SignInInv, NEW r \in Request, NEW by \in Account, NEW a \in Account,
         NEW asShown \in BOOLEAN, S!actionAdminSetDisabled(r, by, a, asShown)
  PROVE  S!SignInInv'
<1> DEFINE row == [step |-> "statement", of |-> by, target |-> a, others |-> FALSE]
<1>t. S!TypeOK
  BY DEF S!SignInInv
<1>1. /\ UNCHANGED <<account, wrong, unrecorded, locked>> /\ req' = [req EXCEPT ![r] = row]
      /\ account[by] = "enabled" /\ by \in Administers
      /\ loophole' = TRUE \/ (loophole' = loophole /\ by # a)
  <2>1. loophole' = (loophole \/ (by = a /\ ~asShown)) /\ (asShown => by # a)
    BY DEF S!actionAdminSetDisabled
  <2>2. loophole' = TRUE \/ (loophole' = loophole /\ by # a)
    BY <2>1, <1>t DEF S!TypeOK
  <2> QED
    BY <2>2 DEF S!actionAdminSetDisabled, S!who, S!tries, S!Session, S!Enabled
<1>2. row \in RequestRow
  BY DEF RequestRow
<1>3. /\ req' \in [Request -> RequestRow]
      /\ req'[r] = row /\ \A q \in Request : q # r => req'[q] = req[q]
  BY <1>t, <1>1, <1>2, RequestRows
<1>4. S!TypeOK'
  BY <1>t, <1>1, <1>3 DEF S!TypeOK, RequestRow
<1>5. \A b \in Account : wrong'[b] + unrecorded[b] <= wrong[b] + unrecorded'[b]
  BY <1>t, <1>1 DEF S!TypeOK
<1>6. S!TriesInv'
  BY <1>3, <1>4, <1>5, FewerTry
<1>7. ASSUME loophole' = loophole, by # a
      PROVE  ~loophole => \A q \in Request : S!Switching(q)' =>
               req'[q].of \in Administers /\ req'[q].of # req'[q].target /\ account'[req'[q].of] = "enabled"
  <2> SUFFICES ASSUME ~loophole, NEW q \in Request, S!Switching(q)'
               PROVE  req'[q].of \in Administers /\ req'[q].of # req'[q].target /\ account'[req'[q].of] = "enabled"
    OBVIOUS
  <2>1. CASE q = r
    BY <1>1, <1>3, <1>7, <2>1
  <2>2. CASE q # r
    BY <1>1, <1>3, <2>2 DEF S!SignInInv, S!SwitchInv, S!Switching, S!Enabled
  <2> QED
    BY <2>1, <2>2
<1>8. CASE loophole' = loophole /\ by # a
  <2>1. S!SwitchInv'
    BY <1>1, <1>7, <1>8, NobodyIsSwitchedOff
  <2> QED
    BY <1>4, <1>6, <2>1 DEF S!SignInInv
<1>9. CASE loophole' = TRUE
  BY <1>4, <1>6, <1>9 DEF S!SignInInv, S!SwitchInv, S!SomebodyCanUndo
<1> QED
  BY <1>1, <1>8, <1>9

\* The statement looks.
LEMMA SwitchLooks ==
  ASSUME S!SignInInv, NEW r \in Request, S!SetDisabled(r)
  PROVE  S!SignInInv'
<1> DEFINE others == \E b \in Account \ {req[r].target} : S!Enabled(b)
           row == [step |-> "commit", of |-> req[r].of, target |-> req[r].target, others |-> others]
<1>t. S!TypeOK /\ req[r] \in RequestRow
  BY DEF S!SignInInv, S!TypeOK, RequestRow
<1>1. /\ UNCHANGED <<account, wrong, unrecorded, locked, loophole>> /\ req[r].step = "statement"
      /\ req' = [req EXCEPT ![r] = row]
  BY DEF S!SetDisabled, S!who, S!tries, S!At
<1>2. row \in RequestRow
  BY <1>t DEF RequestRow
<1> HIDE DEF others
<1>4. /\ req' \in [Request -> RequestRow]
      /\ req'[r] = row /\ \A q \in Request : q # r => req'[q] = req[q]
  BY <1>t, <1>1, <1>2, RequestRows
<1>5. S!TypeOK'
  BY <1>t, <1>1, <1>4 DEF S!TypeOK, RequestRow
<1>6. \A b \in Account : wrong'[b] + unrecorded[b] <= wrong[b] + unrecorded'[b]
  BY <1>t, <1>1 DEF S!TypeOK
<1>7. S!TriesInv'
  BY <1>4, <1>5, <1>6, FewerTry
<1>8. S!SwitchInv'
  BY <1>1, <1>4, SameSwitching DEF S!Switching
<1> QED
  BY <1>5, <1>7, <1>8 DEF S!SignInInv

\* The statement ends: an account is off, and the administrator who did it is on,
\* or somebody else was at it too.
LEMMA SwitchEnds ==
  ASSUME S!SignInInv, NEW r \in Request, S!CommitDisabled(r)
  PROVE  S!SignInInv'
<1> DEFINE a == req[r].target
           cleared == [step |-> "clear", of |-> req[r].of, target |-> req[r].target, others |-> req[r].others]
<1>t. S!TypeOK /\ req[r] \in RequestRow /\ a \in Account
  BY DEF S!SignInInv, S!TypeOK, RequestRow
<1>1. CASE ~req[r].others
  <2>1. UNCHANGED <<account, wrong, unrecorded, locked, loophole>> /\ req' = [req EXCEPT ![r] = S!Idle]
    BY <1>1 DEF S!CommitDisabled, S!End, S!tries
  <2> QED
    BY <2>1, PlainStep, IdleRow
<1>2. CASE req[r].others
  <2>1. /\ account' = [account EXCEPT ![a] = "disabled"] /\ UNCHANGED <<wrong, unrecorded, locked>> /\ S!Goto(r, "clear")
        /\ loophole' = (loophole \/ \E q \in Request \ {r} : req[q].step \in {"statement", "commit"})
        /\ req[r].step = "commit"
    BY <1>2 DEF S!CommitDisabled, S!tries, S!At
  <2>2. cleared \in RequestRow /\ req' = [req EXCEPT ![r] = cleared]
    BY <1>t, <2>1, GoesOn DEF RequestRow
  <2>3. /\ req' \in [Request -> RequestRow]
        /\ req'[r] = cleared /\ \A q \in Request : q # r => req'[q] = req[q]
    BY <1>t, <2>2, RequestRows
  <2>4. S!TypeOK'
    BY <1>t, <2>1, <2>3 DEF S!TypeOK, RequestRow
  <2>5. \A b \in Account : wrong'[b] + unrecorded[b] <= wrong[b] + unrecorded'[b]
    BY <1>t, <2>1 DEF S!TypeOK
  <2>6. S!TriesInv'
    BY <2>3, <2>4, <2>5, FewerTry
  <2>7. ASSUME loophole' PROVE S!SwitchInv'
    BY <2>7 DEF S!SwitchInv, S!SomebodyCanUndo
  <2>8. ASSUME ~loophole' PROVE S!SwitchInv'
    <3>0. ~loophole /\ \A q \in Request \ {r} : req[q].step \notin {"statement", "commit"}
      BY <2>1, <2>8, Zenon
    <3>1. ~loophole /\ \A q \in Request : ~S!Switching(q)'
      BY <2>3, <3>0 DEF S!Switching
    <3>2. req[r].of \in Administers /\ req[r].of # a /\ account[req[r].of] = "enabled"
      BY <2>1, <3>1 DEF S!SignInInv, S!SwitchInv, S!Switching, S!Enabled
    <3>3. account'[req[r].of] = "enabled"
      BY <1>t, <2>1, <3>2, SignInConstants DEF S!TypeOK
    <3>4. S!SomebodyCanUndo'
      BY <3>2, <3>3 DEF S!SomebodyCanUndo, S!Enabled
    <3> QED
      BY <3>1, <3>4 DEF S!SwitchInv
  <2>9. S!SwitchInv'
    BY <2>7, <2>8
  <2> QED
    BY <2>4, <2>6, <2>9 DEF S!SignInInv
<1> QED
  BY <1>1, <1>2

\* A start of the console ends all requests.
LEMMA RestartStep ==
  ASSUME S!SignInInv, S!RestartConsole
  PROVE  S!SignInInv'
<1>t. S!TypeOK
  BY DEF S!SignInInv
<1>1. /\ req' = [r \in Request |-> S!Idle] /\ UNCHANGED <<wrong, unrecorded, locked, loophole>>
      /\ account' = account \/ \E a \in Administers : account' = [account EXCEPT ![a] = "enabled"]
  BY DEF S!RestartConsole, S!tries
<1>2. \A a \in Account : account[a] = "enabled" => account'[a] = "enabled"
  BY <1>t, <1>1 DEF S!TypeOK
<1>3. account' \in [Account -> {"none", "enabled", "disabled"}]
  BY <1>t, <1>1 DEF S!TypeOK
<1>4. req' \in [Request -> RequestRow] /\ \A r \in Request : req'[r].step = "idle"
  BY <1>1, IdleRow
<1>5. S!TypeOK'
  BY <1>t, <1>1, <1>3, <1>4 DEF S!TypeOK, RequestRow
<1>6. \A a \in Account : wrong'[a] + unrecorded[a] <= wrong[a] + unrecorded'[a]
  BY <1>t, <1>1 DEF S!TypeOK
<1>7. S!TriesInv'
  BY <1>4, <1>5, <1>6, FewerTry
<1>8. S!SwitchInv'
  BY <1>1, <1>2, <1>4, NobodyIsSwitchedOff DEF S!Switching
<1> QED
  BY <1>5, <1>7, <1>8 DEF S!SignInInv

LEMMA SignInStep ==
  ASSUME S!SignInInv, S!Next \/ UNCHANGED signInVars
  PROVE  S!SignInInv'
<1>t. S!TypeOK
  BY DEF S!SignInInv
<1>1. ASSUME NEW r \in Request,
             S!VerifyPassword(r) \/ S!checkSecondFactor(r) \/ S!SetDisabled(r) \/ S!CommitDisabled(r)
      PROVE  S!SignInInv'
  BY <1>1, PasswordStep, SwitchLooks, SwitchEnds
<1>2. ASSUME NEW r \in Request, S!openSession(r) \/ S!DeleteSessionsFor(r) PROVE S!SignInInv'
  BY <1>2, OtherRequests, SignInConstants
<1>3. ASSUME NEW r \in Request, NEW a \in Account,
             S!SignIn(r, a) \/ S!CompleteEnrolment(r, a) \/ S!ChangePassword(r, a)
      PROVE  S!SignInInv'
  BY <1>3, LetIn, OtherRequests
<1>4. ASSUME NEW r \in Request, NEW by \in Account, NEW a \in Account, NEW asShown \in BOOLEAN,
             S!actionAdminSetDisabled(r, by, a, asShown)
      PROVE  S!SignInInv'
  BY <1>4, SwitchBegins
<1>5. ASSUME NEW a \in Account, S!WindowPasses(a) PROVE S!SignInInv'
  <2>1. UNCHANGED <<account, req, loophole>>
        /\ \/ /\ wrong[a] > unrecorded[a] /\ wrong' = [wrong EXCEPT ![a] = @ - 1]
              /\ UNCHANGED <<unrecorded, locked>>
           \/ /\ unrecorded[a] > 0 /\ unrecorded' = [unrecorded EXCEPT ![a] = @ - 1]
              /\ wrong' = [wrong EXCEPT ![a] = @ - 1] /\ UNCHANGED locked
           \/ locked[a] > 0 /\ locked' = [locked EXCEPT ![a] = @ - 1] /\ UNCHANGED <<wrong, unrecorded>>
    BY <1>5 DEF S!WindowPasses, S!who
  <2>2. S!TypeOK' /\ \A b \in Account : wrong'[b] + unrecorded[b] <= wrong[b] + unrecorded'[b]
    BY <1>t, <2>1 DEF S!TypeOK
  <2> QED
    BY <2>1, <2>2, NoRequestMoves
<1>6. ASSUME UNCHANGED <<account, wrong, unrecorded, locked, req, loophole>> PROVE S!SignInInv'
  <2>1. S!TypeOK' /\ \A b \in Account : wrong'[b] + unrecorded[b] <= wrong[b] + unrecorded'[b]
    BY <1>t, <1>6 DEF S!TypeOK
  <2> QED
    BY <1>6, <2>1, NoRequestMoves
<1>7. ASSUME NEW by \in Account, NEW a \in Account, S!actionAdminCreate(by, a) \/ S!Enable(by, a)
      PROVE  S!SignInInv'
  <2>1. UNCHANGED <<wrong, unrecorded, locked, req, loophole>> /\ account' = [account EXCEPT ![a] = "enabled"]
    BY <1>7 DEF S!actionAdminCreate, S!Enable, S!tries
  <2>2. S!TypeOK' /\ \A b \in Account : wrong'[b] + unrecorded[b] <= wrong[b] + unrecorded'[b]
    BY <1>t, <2>1 DEF S!TypeOK
  <2>3. \A b \in Account : account[b] = "enabled" => account'[b] = "enabled"
    BY <1>t, <2>1 DEF S!TypeOK
  <2> QED
    BY <2>1, <2>2, <2>3, NoRequestMoves
<1>8. CASE S!RestartConsole
  BY <1>8, RestartStep
<1>9. CASE \E a \in Account : S!SignOut(a) \/ S!EnrolmentExpires(a)
  BY <1>6, <1>9 DEF S!SignOut, S!EnrolmentExpires, S!who, S!tries
<1>10. CASE UNCHANGED signInVars
  BY <1>6, <1>10 DEF signInVars
<1> QED
  BY <1>1, <1>2, <1>3, <1>4, <1>5, <1>7, <1>8, <1>9, <1>10 DEF S!Next

\* authn.go:226: however sign-ins overlap, what is tried beyond the limit is what was
\* already past the count, and what left no row to count.
THEOREM GuessesStayBounded == Spec => []GuessesAreBounded
<1>1. S!SignInInv /\ [Next]_vars => S!SignInInv'
  BY StepOfAStory, SignInStep
<1>2. S!SignInInv => GuessesAreBounded
  <2> SUFFICES ASSUME S!SignInInv, NEW a \in Account
               PROVE  wrong[a] < MaxFailures + Cardinality(Request) + unrecorded[a]
    BY SignInCounts DEF GuessesAreBounded, S!GuessesAreBounded
  <2>1. wrong[a] + Cardinality(S!Trying(a)) < MaxFailures + Cardinality(Request) + unrecorded[a]
    BY TriesAreCounted DEF S!SignInInv
  <2>2. wrong[a] \in Nat /\ unrecorded[a] \in Nat /\ MaxFailures \in Nat
    BY SignInConstants DEF S!SignInInv, S!TypeOK
  <2> QED
    BY <2>1, <2>2, TryingIsFinite
<1> QED
  BY SignInStart, <1>1, <1>2, PTL DEF Spec

\* dbstore/admins.go:178: somebody is left who can undo it, unless two requests were
\* switching accounts off at once or an administrator named itself in other letters.
THEOREM SwitchingOffCanBeUndone == Spec => []SomebodyCanUndo
<1>1. S!SignInInv /\ [Next]_vars => S!SignInInv'
  BY StepOfAStory, SignInStep
<1>2. S!SignInInv => SomebodyCanUndo
  BY DEF S!SignInInv, S!SwitchInv, SomebodyCanUndo
<1> QED
  BY SignInStart, <1>1, <1>2, PTL DEF Spec

-----------------------------------------------------------------------------
(* The console that keeps files. *)

Steps == {"idle", "load", "save", "active", "key", "user", "update", "replace", "mint",
          "publish", "withdraw", "revoke", "files"}
Job == [pc : Steps, op : {"none", "onboard", "offboard", "profile", "reissue", "models"},
        who : Person \cup {"none"}, copy : [Person -> F!Entry],
        models : SUBSET (UNION Choice), clean : BOOLEAN]

LEMMA RosterConstants ==
  /\ Existing \subseteq Person /\ Choice # {}
  /\ F!Nothing \in F!Access /\ F!NoRoster \in [Person -> F!Entry] /\ F!Resting \in Job
  /\ F!Resting.pc = "idle" /\ F!Resting.clean = TRUE
<1>1. F!NoRoster \in [Person -> F!Entry]
  BY DEF F!NoRoster, F!Entry
<1>2. F!Resting \in Job
  BY <1>1 DEF F!Resting, Job, Steps, F!NoModels
<1> QED
  BY <1>1, <1>2, ConsoleAssumption
  DEF ConsoleAssumption, F!FileConsoleAssumption, F!Nothing, F!NoToken, F!NoModels, F!Access, F!Resting

LEMMA RosterStart == Init => F!RosterInv
<1> SUFFICES ASSUME Init PROVE F!RosterInv
  OBVIOUS
<1> USE RosterConstants
<1>1. /\ roster = [p \in Person |-> IF p \in Existing THEN "enabled" ELSE "absent"]
      /\ user = [p \in Person |-> IF p \in Existing THEN F!Given.models ELSE F!NoUser]
      /\ key = [p \in Person |-> IF p \in Existing THEN F!Given ELSE F!Nothing] /\ archive = key
      /\ request = [r \in Request |-> F!Resting]
      /\ issued = 1 /\ result = [p \in Person |-> "none"] /\ overwritten = {}
  BY DEF Init, F!Init
<1>2. F!Given \in F!Access /\ F!Given.models \in SUBSET (UNION Choice)
  <2>1. (CHOOSE m \in Choice : TRUE) \in Choice
    OBVIOUS
  <2> QED
    BY <2>1 DEF F!Given, F!Access
<1>3. /\ roster \in [Person -> F!Entry] /\ key \in [Person -> F!Access] /\ archive \in [Person -> F!Access]
      /\ user \in [Person -> (SUBSET (UNION Choice)) \cup {F!NoUser, F!Unlisted}]
      /\ request \in [Request -> Job]
  BY <1>1, <1>2 DEF F!Entry
<1>4. F!TypeOK
  BY <1>1, <1>3 DEF F!TypeOK, Job, Steps
<1>5. \A r \in Request : ~F!Busy(r)
  BY <1>1 DEF F!Busy, F!At
<1>6. \A p \in Person : F!AsReported(p)
  BY <1>1 DEF F!AsReported
<1> QED
  BY <1>4, <1>5, <1>6 DEF F!RosterInv

\* What is left of a request's row when it goes on.
LEMMA JobGoesOn ==
  ASSUME NEW row \in Job, NEW pc \in Steps
  PROVE  /\ [row EXCEPT !.pc = pc] \in Job
         /\ [row EXCEPT !.pc = pc].pc = pc
         /\ [row EXCEPT !.pc = pc].op = row.op /\ [row EXCEPT !.pc = pc].who = row.who
         /\ [row EXCEPT !.pc = pc].models = row.models /\ [row EXCEPT !.pc = pc].copy = row.copy
         /\ [row EXCEPT !.pc = pc].clean = row.clean
  BY DEF Job

RosterTypes ==
  /\ roster \in [Person -> F!Entry]
  /\ user \in [Person -> (SUBSET (UNION Choice)) \cup {F!NoUser, F!Unlisted}]
  /\ key \in [Person -> F!Access] /\ archive \in [Person -> F!Access]
  /\ issued \in Nat /\ overwritten \subseteq Person

LEMMA RosterTyped ==
  /\ F!TypeOK <=> /\ RosterTypes /\ request \in [Request -> Job]
                  /\ result \in [Person -> {"none", "ok", "error", "died"}]
  /\ F!TypeOK' <=> /\ RosterTypes' /\ request' \in [Request -> Job]
                   /\ result' \in [Person -> {"none", "ok", "error", "died"}]
  BY DEF F!TypeOK, RosterTypes, Job, Steps

LEMMA Working ==
  ASSUME F!RosterInv, NEW r \in Request, F!Busy(r)
  PROVE  /\ RosterTypes /\ request \in [Request -> Job] /\ request[r] \in Job
         /\ result \in [Person -> {"none", "ok", "error", "died"}]
         /\ F!Who(r) \in Person /\ F!SoFar(r)
<1>1. F!TypeOK /\ F!SoFar(r)
  BY DEF F!RosterInv
<1> QED
  BY <1>1, RosterTyped DEF F!SoFar

\* An operation touches its employee only; writing the roster may touch the entries of
\* others, and then says so.
Untouched(p) ==
  \A q \in Person \ {p} :
    /\ user'[q] = user[q] /\ key'[q] = key[q] /\ archive'[q] = archive[q] /\ result'[q] = result[q]
    /\ F!Closed(q)' => F!Closed(q)

\* Then a step keeps the invariant if what it leaves of its own request and employee does.
LEMMA OwnStep ==
  ASSUME F!RosterInv, UNCHANGED retired, NEW r \in Request, F!Busy(r), NEW p \in Person, p = F!Who(r),
         RosterTypes', request' \in [Request -> Job], result' \in [Person -> {"none", "ok", "error", "died"}],
         Untouched(p), \A q \in Request \ {r} : request'[q] = request[q],
         \/ request'[r].pc = "idle" /\ F!AsReported(p)'
         \/ request'[r].pc # "idle" /\ request'[r].who = p /\ F!SoFar(r)'
  PROVE  F!RosterInv'
<1>1. F!TypeOK'
  BY RosterTyped
<1>2. ASSUME NEW q \in Person \ {p}, F!AsReported(q) PROVE F!AsReported(q)'
  BY <1>2 DEF Untouched, F!AsReported, F!Delivered, F!HasList, F!Covers, F!ShutOut
<1>3. ASSUME NEW s \in Request \ {r}, F!Busy(s)' PROVE F!Busy(s) /\ F!Who(s)' = F!Who(s) /\ F!Who(s) # p
  <2>1. F!Busy(s) /\ F!Who(s)' = F!Who(s)
    BY <1>3 DEF F!Busy, F!At, F!Who
  <2> QED
    BY <2>1 DEF F!RosterInv
<1>4. ASSUME NEW s \in Request, F!Busy(s)' PROVE F!SoFar(s)'
  <2>1. CASE s = r
    BY <1>4, <2>1 DEF F!Busy, F!At
  <2>2. CASE s # r
    <3>1. F!SoFar(s) /\ F!Who(s) \in Person \ {p} /\ F!Who(s)' = F!Who(s)
      BY <1>3, <1>4, <2>2, Working
    <3>2. F!AsReported(F!Who(s)) => F!AsReported(F!Who(s))'
      BY <1>2, <3>1 DEF Untouched, F!AsReported, F!Delivered, F!HasList, F!Covers, F!ShutOut, F!Who
    <3>3. request'[s] = request[s]
      BY <2>2
    <3> QED
      BY <3>1, <3>2, <3>3 DEF F!SoFar, Untouched, F!HasList, F!Covers, F!Who
  <2> QED
    BY <2>1, <2>2
<1>5. ASSUME NEW s \in Request, NEW u \in Request, F!Busy(s)', F!Busy(u)', F!Who(s)' = F!Who(u)' PROVE s = u
  <2>1. CASE s # r /\ u # r
    BY <1>3, <1>5, <2>1 DEF F!RosterInv
  <2>2. ASSUME s = r, u # r PROVE FALSE
    BY <1>3, <1>5, <2>2 DEF F!Busy, F!At, F!Who
  <2>3. ASSUME s # r, u = r PROVE FALSE
    BY <1>3, <1>5, <2>3 DEF F!Busy, F!At, F!Who
  <2> QED
    BY <2>1, <2>2, <2>3
<1>6. ASSUME NEW q \in Person, \A s \in Request : F!Busy(s)' => F!Who(s)' # q PROVE F!AsReported(q)'
  <2>1. CASE q = p
    BY <1>6, <2>1 DEF F!Busy, F!At, F!Who
  <2>2. CASE q # p
    <3>1. \A s \in Request : F!Busy(s) => F!Who(s) # q
      BY <1>6, <2>2 DEF F!Busy, F!At, F!Who
    <3>2. F!AsReported(q)
      BY <3>1 DEF F!RosterInv
    <3> QED
      BY <1>2, <2>2, <3>2
  <2> QED
    BY <2>1, <2>2
<1> QED
  BY <1>1, <1>4, <1>5, <1>6 DEF F!RosterInv

LEMMA GoesTo ==
  ASSUME F!RosterInv, NEW r \in Request, F!Busy(r), NEW pc \in Steps, F!Go(r, pc)
  PROVE  /\ request' \in [Request -> Job] /\ \A q \in Request \ {r} : request'[q] = request[q]
         /\ request'[r].pc = pc /\ request'[r].op = request[r].op /\ request'[r].who = request[r].who
         /\ request'[r].models = request[r].models /\ request'[r].clean = request[r].clean
<1>1. request \in [Request -> Job] /\ request[r] \in Job
  BY Working
<1>2. request' = [request EXCEPT ![r] = [request[r] EXCEPT !.pc = pc]]
  BY DEF F!Go
<1> QED
  BY <1>1, <1>2, JobGoesOn

LEMMA Finishes ==
  ASSUME F!RosterInv, NEW r \in Request, F!Busy(r), NEW outcome \in {"ok", "error"}, F!Finish(r, outcome)
  PROVE  /\ request' \in [Request -> Job] /\ \A q \in Request \ {r} : request'[q] = request[q]
         /\ request'[r].pc = "idle"
         /\ result' \in [Person -> {"none", "ok", "error", "died"}]
         /\ \A q \in Person \ {F!Who(r)} : result'[q] = result[q]
         /\ outcome = "error" => result'[F!Who(r)] = "error"
         /\ outcome = "ok" /\ ~F!Settles(request[r].op) => result' = result
<1>1. request \in [Request -> Job] /\ F!Who(r) \in Person /\ result \in [Person -> {"none", "ok", "error", "died"}]
  BY Working
<1>2. request' = [request EXCEPT ![r] = F!Resting]
      /\ result' = IF F!Settles(request[r].op) \/ outcome = "error"
                   THEN [result EXCEPT ![F!Who(r)] = outcome] ELSE result
  BY DEF F!Finish, F!Who
<1>3. request' \in [Request -> Job] /\ (\A q \in Request \ {r} : request'[q] = request[q]) /\ request'[r].pc = "idle"
  BY <1>1, <1>2, RosterConstants
<1> QED
  BY <1>1, <1>2, <1>3

\* Whatever an operation has done: reporting an error claims nothing.
LEMMA Failing ==
  ASSUME F!RosterInv, UNCHANGED retired, NEW r \in Request, F!Busy(r), NEW p \in Person, p = F!Who(r), F!Finish(r, "error"),
         RosterTypes', UNCHANGED <<roster, overwritten>>,
         \A q \in Person \ {p} : user'[q] = user[q] /\ key'[q] = key[q] /\ archive'[q] = archive[q]
  PROVE  F!RosterInv'
<1>1. /\ request' \in [Request -> Job] /\ \A q \in Request \ {r} : request'[q] = request[q]
      /\ request'[r].pc = "idle"
      /\ result' \in [Person -> {"none", "ok", "error", "died"}]
      /\ \A q \in Person \ {p} : result'[q] = result[q]
      /\ result'[p] = "error"
  BY Finishes
<1>2. Untouched(p)
  BY <1>1 DEF Untouched, F!Closed
<1>3. F!AsReported(p)'
  BY <1>1 DEF F!AsReported
<1> QED
  BY <1>1, <1>2, <1>3, OwnStep

\* An operation that only looks goes on.
LEMMA Looking ==
  ASSUME F!RosterInv, UNCHANGED retired, NEW r \in Request, F!Busy(r), NEW p \in Person, p = F!Who(r),
         UNCHANGED <<roster, user, key, archive, issued, result, overwritten>>,
         request' \in [Request -> Job], \A q \in Request \ {r} : request'[q] = request[q],
         request'[r].pc # "idle", request'[r].who = p, F!SoFar(r)'
  PROVE  F!RosterInv'
<1>1. RosterTypes /\ result \in [Person -> {"none", "ok", "error", "died"}]
  BY Working
<1>2. RosterTypes' /\ result' \in [Person -> {"none", "ok", "error", "died"}]
  BY <1>1 DEF RosterTypes
<1>3. Untouched(p)
  BY DEF Untouched, F!Closed
<1> QED
  BY <1>2, <1>3, OwnStep

LEMMA LoadStep ==
  ASSUME F!RosterInv, UNCHANGED retired, NEW r \in Request, NEW p \in Person, p = F!Who(r), F!LoadUsers(r)
  PROVE  F!RosterInv'
<1>1. request[r].pc = "load" /\ F!Busy(r) /\ UNCHANGED <<roster, user, key, archive, issued, overwritten>>
  BY DEF F!LoadUsers, F!At, F!Busy, F!outside
<1>2. /\ RosterTypes /\ request \in [Request -> Job] /\ request[r] \in Job /\ p \in Person /\ F!SoFar(r)
  BY <1>1, Working
<1>3. RosterTypes'
  BY <1>1, <1>2 DEF RosterTypes
<1>4. request[r].op \in {"onboard", "offboard", "profile"} /\ F!AsReported(p)
  BY <1>1, <1>2 DEF F!SoFar, F!Fits
<1>5. CASE F!Finish(r, "error")
  BY <1>1, <1>2, <1>3, <1>5, Failing
<1>6. CASE request[r].op = "offboard" /\ F!Go(r, "revoke") /\ UNCHANGED result
  <2>1. /\ request' \in [Request -> Job] /\ \A q \in Request \ {r} : request'[q] = request[q]
        /\ request'[r].pc = "revoke" /\ request'[r].op = "offboard" /\ request'[r].who = p
    BY <1>1, <1>6, GoesTo DEF Steps, F!Who
  <2>2. F!SoFar(r)'
    BY <1>2, <2>1 DEF F!SoFar, F!Fits, F!Who
  <2> QED
    BY <1>1, <1>2, <1>6, <2>1, <2>2, Looking
<1>7. CASE request' = [request EXCEPT ![r].pc = "save", ![r].copy = roster] /\ UNCHANGED result
  <2>a. PICK new : new = [request[r] EXCEPT !.pc = "save", !.copy = roster]
    OBVIOUS
  <2>1. request' = [request EXCEPT ![r] = new]
    BY <1>7, <2>a
  <2>0. /\ new \in Job
        /\ new.pc = "save" /\ new.op = request[r].op /\ new.who = request[r].who
    <3>1. roster \in [Person -> F!Entry] /\ "save" \in Steps
      BY <1>2 DEF RosterTypes, Steps
    <3> QED
      BY <1>2, <2>a, <3>1 DEF Job
  <2>2. /\ request' \in [Request -> Job] /\ \A q \in Request \ {r} : request'[q] = request[q]
        /\ request'[r].pc = "save" /\ request'[r].op = request[r].op /\ request'[r].who = p
    BY <1>2, <2>0, <2>1 DEF F!Who
  <2>3. F!AsReported(p)'
    BY <1>1, <1>4, <1>7 DEF F!AsReported, F!Delivered, F!HasList, F!Covers, F!Closed, F!ShutOut
  <2>4. F!SoFar(r)'
    BY <1>2, <1>4, <2>2, <2>3 DEF F!SoFar, F!Fits, F!Who
  <2> QED
    BY <1>1, <1>2, <1>7, <2>2, <2>4, Looking
<1> QED
  BY <1>5, <1>6, <1>7 DEF F!LoadUsers

LEMMA SaveStep ==
  ASSUME F!RosterInv, UNCHANGED retired, NEW r \in Request, NEW p \in Person, p = F!Who(r), F!SaveUsers(r)
  PROVE  F!RosterInv'
<1>1. /\ request[r].pc = "save" /\ F!Busy(r) /\ UNCHANGED <<user, key, archive, issued>>
      /\ roster' = [request[r].copy EXCEPT ![p] = IF request[r].op = "offboard" THEN "disabled" ELSE "enabled"]
      /\ overwritten' = overwritten \cup {q \in Person \ {p} : request[r].copy[q] # roster[q]}
  BY DEF F!SaveUsers, F!At, F!Busy, F!outside
<1>2. /\ RosterTypes /\ request \in [Request -> Job] /\ request[r] \in Job /\ p \in Person /\ F!SoFar(r)
      /\ result \in [Person -> {"none", "ok", "error", "died"}]
  BY <1>1, Working
<1>3. request[r].op \in {"onboard", "offboard", "profile"} /\ F!AsReported(p) /\ request[r].copy \in [Person -> F!Entry]
  BY <1>1, <1>2 DEF F!SoFar, F!Fits, Job
<1>4. roster' \in [Person -> F!Entry]
  BY <1>1, <1>2, <1>3 DEF F!Entry
<1>5. RosterTypes'
  BY <1>1, <1>2, <1>4 DEF RosterTypes
<1>6. \A q \in Person \ {p} : F!Closed(q)' => F!Closed(q)
  BY <1>1, <1>2, <1>3 DEF F!Closed, RosterTypes
<1>7. request[r].op # "offboard" => ~F!Closed(p)'
  BY <1>1, <1>2, <1>3 DEF F!Closed
<1>8. CASE F!Finish(r, "ok") /\ request[r].op = "profile"
  <2>1. /\ request' \in [Request -> Job] /\ \A q \in Request \ {r} : request'[q] = request[q]
        /\ request'[r].pc = "idle" /\ result' = result
    BY <1>1, <1>8, Finishes DEF F!Settles
  <2>2. F!AsReported(p)'
    BY <1>1, <1>3, <1>7, <1>8, <2>1 DEF F!AsReported, F!Delivered, F!HasList, F!Covers
  <2>3. Untouched(p)
    BY <1>1, <1>6, <2>1 DEF Untouched
  <2> QED
    BY <1>1, <1>2, <1>5, <2>1, <2>2, <2>3, OwnStep
<1>9. ASSUME NEW pc \in {"revoke", "user"}, F!Go(r, pc), UNCHANGED result,
             pc = "revoke" <=> request[r].op = "offboard", request[r].op # "profile"
      PROVE  F!RosterInv'
  <2>1. /\ request' \in [Request -> Job] /\ \A q \in Request \ {r} : request'[q] = request[q]
        /\ request'[r].pc = pc /\ request'[r].op = request[r].op /\ request'[r].who = p
    BY <1>1, <1>9, GoesTo DEF Steps, F!Who
  <2>2. request[r].op = "onboard" => F!AsReported(p)'
    BY <1>1, <1>3, <1>7, <1>9 DEF F!AsReported, F!Delivered, F!HasList, F!Covers
  <2>3. F!SoFar(r)'
    BY <1>2, <1>3, <1>7, <1>9, <2>1, <2>2 DEF F!SoFar, F!Fits, F!Who
  <2>4. Untouched(p)
    BY <1>1, <1>6, <1>9 DEF Untouched
  <2>5. result' \in [Person -> {"none", "ok", "error", "died"}]
    BY <1>2, <1>9
  <2> QED
    BY <1>1, <1>2, <1>5, <1>9, <2>1, <2>3, <2>4, <2>5, OwnStep
<1> QED
  BY <1>8, <1>9 DEF F!SaveUsers

LEMMA ActiveStep ==
  ASSUME F!RosterInv, UNCHANGED retired, NEW r \in Request, NEW p \in Person, p = F!Who(r), F!requireActive(r)
  PROVE  F!RosterInv'
<1>1. request[r].pc = "active" /\ F!Busy(r) /\ UNCHANGED <<roster, user, key, archive, issued, overwritten>>
  BY DEF F!requireActive, F!At, F!Busy, F!outside
<1>2. /\ RosterTypes /\ p \in Person /\ F!SoFar(r)
  BY <1>1, Working
<1>3. RosterTypes'
  BY <1>1, <1>2 DEF RosterTypes
<1>4. request[r].op \in {"reissue", "models"} /\ F!AsReported(p)
  BY <1>1, <1>2 DEF F!SoFar, F!Fits
<1>5. CASE F!Finish(r, "error")
  BY <1>1, <1>2, <1>3, <1>5, Failing
<1>6. ASSUME NEW pc \in {"user", "key"}, F!Go(r, pc), UNCHANGED result, roster[p] = "enabled",
             pc = "user" <=> request[r].op = "reissue"
      PROVE  F!RosterInv'
  <2>1. /\ request' \in [Request -> Job] /\ \A q \in Request \ {r} : request'[q] = request[q]
        /\ request'[r].pc = pc /\ request'[r].op = request[r].op /\ request'[r].who = p
    BY <1>1, <1>6, GoesTo DEF Steps, F!Who
  <2>2. F!AsReported(p)' /\ ~F!Closed(p)'
    BY <1>1, <1>4, <1>6 DEF F!AsReported, F!Delivered, F!HasList, F!Covers, F!Closed, F!ShutOut
  <2>3. F!SoFar(r)'
    BY <1>2, <1>4, <1>6, <2>1, <2>2 DEF F!SoFar, F!Fits, F!Who
  <2> QED
    BY <1>1, <1>2, <1>6, <2>1, <2>3, Looking
<1> QED
  BY <1>4, <1>5, <1>6 DEF F!requireActive

\* What a step that leaves the roster does to the others.
LEMMA OthersStay ==
  ASSUME NEW p \in Person, UNCHANGED <<roster, overwritten>>,
         \A q \in Person \ {p} : /\ user'[q] = user[q] /\ key'[q] = key[q] /\ archive'[q] = archive[q]
                                 /\ result'[q] = result[q]
  PROVE  Untouched(p)
  BY DEF Untouched, F!Closed

LEMMA UserStep ==
  ASSUME F!RosterInv, UNCHANGED retired, NEW r \in Request, NEW p \in Person, p = F!Who(r), F!ensureGatewayUser(r)
  PROVE  F!RosterInv'
<1> DEFINE reissue == request[r].op = "reissue"
           models == IF reissue THEN F!Reissued(r) ELSE request[r].models
           pc == IF request[r].op = "models" THEN "update" ELSE "replace"
<1>1. request[r].pc = "user" /\ F!Busy(r) /\ UNCHANGED <<roster, key, archive, issued, overwritten>>
  BY DEF F!ensureGatewayUser, F!At, F!Busy
<1>2. /\ RosterTypes /\ request \in [Request -> Job] /\ request[r] \in Job /\ F!SoFar(r)
      /\ result \in [Person -> {"none", "ok", "error", "died"}]
  BY <1>1, Working
<1>3. request[r].op \in {"onboard", "reissue", "models"} /\ F!AsReported(p) /\ ~F!Closed(p)
      /\ (request[r].op = "models" => key[p] # F!Nothing)
  BY <1>1, <1>2 DEF F!SoFar, F!Fits
<1>4. CASE F!Finish(r, "error") /\ UNCHANGED user
  <2>1. RosterTypes'
    BY <1>1, <1>2, <1>4 DEF RosterTypes
  <2> QED
    BY <1>1, <1>2, <1>4, <2>1, Failing
<1>5. CASE /\ user' = [user EXCEPT ![p] = IF reissue THEN (IF @ = F!NoUser THEN F!Unlisted ELSE @) ELSE request[r].models]
           /\ request' = [request EXCEPT ![r].models = IF reissue THEN F!Reissued(r) ELSE @, ![r].pc = pc]
           /\ UNCHANGED result
  <2>a. PICK new : new = [request[r] EXCEPT !.models = models, !.pc = pc]
    OBVIOUS
  <2>1. request' = [request EXCEPT ![r] = new]
    BY <1>5, <2>a
  <2>2. models \in SUBSET (UNION Choice) /\ pc \in Steps
    <3>1. user[p] \in (SUBSET (UNION Choice)) \cup {F!NoUser, F!Unlisted} /\ request[r].models \in SUBSET (UNION Choice)
      BY <1>2 DEF RosterTypes, Job
    <3> QED
      BY <3>1 DEF Steps, F!HasList, F!Reissued, F!keepAvailable, F!Who
  <2> HIDE DEF models, pc
  <2>3. new \in Job /\ new.pc = pc /\ new.op = request[r].op /\ new.who = request[r].who /\ new.models = models
    BY <1>2, <2>2, <2>a DEF Job
  <2>4. /\ request' \in [Request -> Job] /\ \A q \in Request \ {r} : request'[q] = request[q]
        /\ request'[r].pc = pc /\ request'[r].op = request[r].op /\ request'[r].who = p /\ request'[r].models = models
    BY <1>2, <2>1, <2>3 DEF F!Who
  <2>5. /\ user' = [user EXCEPT ![p] = user'[p]]
        /\ user'[p] = IF reissue THEN (IF user[p] = F!NoUser THEN F!Unlisted ELSE user[p]) ELSE request[r].models
    BY <1>2, <1>5 DEF RosterTypes
  <2>6. RosterTypes' /\ result' \in [Person -> {"none", "ok", "error", "died"}]
    <3>1. user' \in [Person -> (SUBSET (UNION Choice)) \cup {F!NoUser, F!Unlisted}]
      BY <1>2, <2>5 DEF RosterTypes, Job
    <3> QED
      BY <1>1, <1>2, <1>5, <3>1 DEF RosterTypes
  <2>7. F!SoFar(r)'
    <3>1. ~F!Closed(p)'
      BY <1>1, <1>3 DEF F!Closed
    <3>2. CASE request[r].op = "models"
      <4>1. user'[p] = models /\ pc = "update"
        BY <2>5, <3>2 DEF models, pc
      <4>2. result'[p] = "ok" => key'[p].token = archive'[p].token
        BY <1>1, <1>3, <1>5 DEF F!AsReported, F!Delivered
      <4> QED
        BY <1>1, <1>3, <2>4, <3>1, <3>2, <4>1, <4>2 DEF F!SoFar, F!Fits, F!Who
    <3>3. CASE request[r].op # "models"
      <4>1. pc = "replace"
        BY <3>3 DEF pc
      <4>2. ASSUME user'[p] \notin {F!NoUser, F!Unlisted}
            PROVE  models \subseteq user'[p] /\ user'[p] \ models \subseteq retired
        <5>1. CASE ~reissue
          BY <2>5, <5>1 DEF models
        <5>2. CASE reissue
          <6>1. user'[p] = user[p] /\ F!HasList(p)
            BY <2>5, <4>2, <5>2 DEF F!HasList
          <6>2. models = user[p] \ retired
            BY <5>2, <6>1 DEF models, F!Reissued, F!keepAvailable, F!Who
          <6> QED
            BY <6>1, <6>2
        <5> QED
          BY <5>1, <5>2
      <4> QED
        BY <1>3, <2>4, <3>1, <3>3, <4>1, <4>2 DEF F!SoFar, F!Fits, F!Who, F!HasList, F!Covers
    <3> QED
      BY <3>2, <3>3
  <2>8. Untouched(p)
    BY <1>1, <1>5, <2>5, OthersStay
  <2>9. pc # "idle"
    BY DEF pc
  <2> QED
    BY <1>1, <1>2, <2>4, <2>6, <2>7, <2>8, <2>9, OwnStep
<1> QED
  BY <1>4, <1>5 DEF F!ensureGatewayUser

LEMMA ReplaceStep ==
  ASSUME F!RosterInv, UNCHANGED retired, NEW r \in Request, NEW p \in Person, p = F!Who(r), F!DeletePrevious(r)
  PROVE  F!RosterInv'
<1>1. request[r].pc = "replace" /\ F!Busy(r) /\ UNCHANGED <<roster, user, archive, issued, overwritten>>
  BY DEF F!DeletePrevious, F!At, F!Busy
<1>2. /\ RosterTypes /\ F!SoFar(r) /\ result \in [Person -> {"none", "ok", "error", "died"}]
  BY <1>1, Working
<1>3. request[r].op \in {"onboard", "reissue"} /\ ~F!Closed(p) /\ (F!HasList(p) => F!Covers(p, request[r].models))
  BY <1>1, <1>2 DEF F!SoFar, F!Fits
<1>4. CASE F!Finish(r, "error") /\ UNCHANGED key
  <2>1. RosterTypes'
    BY <1>1, <1>2, <1>4 DEF RosterTypes
  <2> QED
    BY <1>1, <1>2, <1>4, <2>1, Failing
<1>5. CASE key' = [key EXCEPT ![p] = F!Nothing] /\ F!Go(r, "mint") /\ UNCHANGED result
  <2>1. /\ request' \in [Request -> Job] /\ \A q \in Request \ {r} : request'[q] = request[q]
        /\ request'[r].pc = "mint" /\ request'[r].op = request[r].op /\ request'[r].who = p
        /\ request'[r].models = request[r].models
    BY <1>1, <1>5, GoesTo DEF Steps, F!Who
  <2>2. RosterTypes' /\ \A q \in Person \ {p} : key'[q] = key[q]
    BY <1>1, <1>2, <1>5, RosterConstants DEF RosterTypes
  <2>3. F!SoFar(r)'
    BY <1>1, <1>3, <2>1 DEF F!SoFar, F!Fits, F!Who, F!HasList, F!Covers, F!Closed
  <2>4. Untouched(p) /\ result' \in [Person -> {"none", "ok", "error", "died"}]
    BY <1>1, <1>2, <1>5, <2>2, OthersStay
  <2> QED
    BY <1>1, <2>1, <2>2, <2>3, <2>4, OwnStep
<1> QED
  BY <1>4, <1>5 DEF F!DeletePrevious

\* A token is minted with the models of the request.
LEMMA MintedAccess ==
  ASSUME RosterTypes, NEW row \in Job
  PROVE  [token |-> issued + 1, models |-> row.models] \in F!Access
  BY DEF RosterTypes, Job, F!Access

LEMMA MintStep ==
  ASSUME F!RosterInv, UNCHANGED retired, NEW r \in Request, NEW p \in Person, p = F!Who(r), F!GenerateKey(r)
  PROVE  F!RosterInv'
<1>1. /\ request[r].pc = "mint" /\ F!Busy(r) /\ UNCHANGED <<roster, user, archive, result, overwritten>>
      /\ issued' = issued + 1 /\ F!Go(r, "publish")
      /\ key' = [key EXCEPT ![p] = [token |-> issued + 1, models |-> request[r].models]]
  BY DEF F!GenerateKey, F!At, F!Busy
<1>2. /\ RosterTypes /\ F!SoFar(r) /\ request[r] \in Job /\ result \in [Person -> {"none", "ok", "error", "died"}]
  BY <1>1, Working
<1>3. request[r].op \in {"onboard", "reissue"} /\ ~F!Closed(p) /\ (F!HasList(p) => F!Covers(p, request[r].models))
  BY <1>1, <1>2 DEF F!SoFar, F!Fits
<1>4. /\ request' \in [Request -> Job] /\ \A q \in Request \ {r} : request'[q] = request[q]
      /\ request'[r].pc = "publish" /\ request'[r].op = request[r].op /\ request'[r].who = p
      /\ request'[r].models = request[r].models
  BY <1>1, GoesTo DEF Steps, F!Who
<1>5. RosterTypes' /\ (\A q \in Person \ {p} : key'[q] = key[q]) /\ key'[p].models = request[r].models
  BY <1>1, <1>2, MintedAccess DEF RosterTypes
<1>6. F!SoFar(r)'
  BY <1>1, <1>3, <1>4, <1>5 DEF F!SoFar, F!Fits, F!Who, F!HasList, F!Covers, F!Closed
<1>7. Untouched(p) /\ result' \in [Person -> {"none", "ok", "error", "died"}]
  BY <1>1, <1>2, <1>5, OthersStay
<1> QED
  BY <1>1, <1>4, <1>5, <1>6, <1>7, OwnStep

LEMMA PublishStep ==
  ASSUME F!RosterInv, UNCHANGED retired, NEW r \in Request, NEW p \in Person, p = F!Who(r), F!PublishCredentials(r)
  PROVE  F!RosterInv'
<1> DEFINE token == IF request[r].op = "models" THEN archive[p].token ELSE key[p].token
<1>1. request[r].pc = "publish" /\ F!Busy(r) /\ UNCHANGED <<roster, user, key, issued, overwritten>>
  BY DEF F!PublishCredentials, F!At, F!Busy
<1>2. /\ RosterTypes /\ F!SoFar(r) /\ request[r] \in Job /\ result \in [Person -> {"none", "ok", "error", "died"}]
  BY <1>1, Working
<1>3. /\ request[r].op \in {"onboard", "reissue", "models"} /\ ~F!Closed(p) /\ key[p].models = request[r].models
      /\ request[r].op # "models" => (F!HasList(p) => F!Covers(p, request[r].models))
      /\ request[r].op = "models" => user[p] \in {F!NoUser, request[r].models}
                                     /\ (result[p] = "ok" => key[p].token = archive[p].token)
  BY <1>1, <1>2 DEF F!SoFar, F!Fits
<1>4. CASE UNCHANGED archive /\ F!Finish(r, "error")
  <2>1. RosterTypes'
    BY <1>1, <1>2, <1>4 DEF RosterTypes
  <2> QED
    BY <1>1, <1>2, <1>4, <2>1, Failing
<1>5. CASE UNCHANGED <<archive, result>> /\ F!Go(r, "withdraw") /\ request[r].op # "models"
  <2>1. /\ request' \in [Request -> Job] /\ \A q \in Request \ {r} : request'[q] = request[q]
        /\ request'[r].pc = "withdraw" /\ request'[r].op = request[r].op /\ request'[r].who = p
    BY <1>1, <1>5, GoesTo DEF Steps, F!Who
  <2>2. F!SoFar(r)'
    BY <1>3, <1>5, <2>1 DEF F!SoFar, F!Fits, F!Who
  <2> QED
    BY <1>1, <1>5, <2>1, <2>2, Looking
<1>6. CASE archive' = [archive EXCEPT ![p] = [token |-> token, models |-> request[r].models]] /\ F!Finish(r, "ok")
  <2>1. /\ request' \in [Request -> Job] /\ \A q \in Request \ {r} : request'[q] = request[q]
        /\ request'[r].pc = "idle"
        /\ result' \in [Person -> {"none", "ok", "error", "died"}]
        /\ \A q \in Person \ {p} : result'[q] = result[q]
        /\ request[r].op = "models" => result' = result
    BY <1>1, <1>6, Finishes DEF F!Settles
  <2>2. key[p] \in F!Access /\ archive[p] \in F!Access
    BY <1>2 DEF RosterTypes
  <2>3. [token |-> token, models |-> request[r].models] \in F!Access
    BY <1>2, <2>2 DEF F!Access, Job
  <2>4. archive'[p] = [token |-> token, models |-> request[r].models]
        /\ \A q \in Person \ {p} : archive'[q] = archive[q]
    BY <1>2, <1>6 DEF RosterTypes
  <2>5. RosterTypes'
    BY <1>1, <1>2, <1>6, <2>3 DEF RosterTypes
  <2>6. Untouched(p)
    BY <1>1, <2>1, <2>4, OthersStay
  <2>7. ASSUME result'[p] = "ok" PROVE F!Delivered(p)'
    <3>1. token = key[p].token
      BY <1>3, <2>1, <2>7
    <3>2. key[p] = [token |-> key[p].token, models |-> key[p].models]
      BY <2>2 DEF F!Access
    <3>3. archive'[p] = key[p]
      BY <1>3, <2>4, <3>1, <3>2
    <3>4. F!HasList(p) => F!Covers(p, request[r].models)
      BY <1>3 DEF F!HasList, F!Covers
    <3> QED
      BY <1>1, <1>3, <3>3, <3>4 DEF F!Delivered, F!HasList, F!Covers
  <2>8. F!AsReported(p)'
    BY <1>1, <1>3, <2>7 DEF F!AsReported, F!Closed
  <2> QED
    BY <1>1, <2>1, <2>5, <2>6, <2>8, OwnStep
<1> QED
  BY <1>4, <1>5, <1>6 DEF F!PublishCredentials

\* What ends with an error, whatever it has done to the key.
LEMMA ErrorStep ==
  ASSUME F!RosterInv, UNCHANGED retired, NEW r \in Request, NEW p \in Person, p = F!Who(r), F!AliasTaken(r) \/ F!WithdrawToken(r)
  PROVE  F!RosterInv'
<1>1. /\ F!Busy(r) /\ UNCHANGED <<roster, user, archive, issued, overwritten>> /\ F!Finish(r, "error")
      /\ key' = key \/ key' = [key EXCEPT ![p] = F!Nothing]
  BY DEF F!AliasTaken, F!WithdrawToken, F!At, F!Busy, F!outside
<1>2. RosterTypes
  BY <1>1, Working
<1>3. RosterTypes' /\ \A q \in Person \ {p} : key'[q] = key[q]
  BY <1>1, <1>2, RosterConstants DEF RosterTypes
<1> QED
  BY <1>1, <1>3, Failing

LEMMA FindStep ==
  ASSUME F!RosterInv, UNCHANGED retired, NEW r \in Request, NEW p \in Person, p = F!Who(r), F!FindKey(r)
  PROVE  F!RosterInv'
<1>1. request[r].pc = "key" /\ F!Busy(r) /\ UNCHANGED <<roster, user, key, archive, issued, overwritten>>
  BY DEF F!FindKey, F!At, F!Busy, F!outside
<1>2. /\ RosterTypes /\ F!SoFar(r)
  BY <1>1, Working
<1>3. request[r].op = "models" /\ F!AsReported(p) /\ ~F!Closed(p)
  BY <1>1, <1>2 DEF F!SoFar, F!Fits
<1>4. CASE F!Finish(r, "error")
  <2>1. RosterTypes'
    BY <1>1, <1>2 DEF RosterTypes
  <2> QED
    BY <1>1, <1>4, <2>1, Failing
<1>5. ASSUME NEW pc \in {"update", "user"}, F!Go(r, pc), UNCHANGED result, key[p] # F!Nothing,
             pc = "update" => user[p] = F!NoUser
      PROVE  F!RosterInv'
  <2>1. /\ request' \in [Request -> Job] /\ \A q \in Request \ {r} : request'[q] = request[q]
        /\ request'[r].pc = pc /\ request'[r].op = "models" /\ request'[r].who = p
    BY <1>1, <1>3, <1>5, GoesTo DEF Steps, F!Who
  <2>2. F!AsReported(p)' /\ ~F!Closed(p)'
    BY <1>1, <1>3, <1>5 DEF F!AsReported, F!Delivered, F!HasList, F!Covers, F!Closed, F!ShutOut
  <2>3. result[p] = "ok" => key[p].token = archive[p].token
    BY <1>3 DEF F!AsReported, F!Delivered
  <2>4. F!SoFar(r)'
    BY <1>1, <1>5, <2>1, <2>2, <2>3 DEF F!SoFar, F!Fits, F!Who
  <2> QED
    BY <1>1, <1>5, <2>1, <2>4, Looking
<1> QED
  BY <1>4, <1>5 DEF F!FindKey

LEMMA UpdateKeyStep ==
  ASSUME F!RosterInv, UNCHANGED retired, NEW r \in Request, NEW p \in Person, p = F!Who(r), F!UpdateKey(r)
  PROVE  F!RosterInv'
<1>1. /\ request[r].pc = "update" /\ F!Busy(r) /\ UNCHANGED <<roster, user, archive, issued, result, overwritten>>
      /\ key' = [key EXCEPT ![p] = IF @ = F!Nothing THEN F!Nothing ELSE [@ EXCEPT !.models = request[r].models]]
      /\ F!Go(r, "publish")
  BY DEF F!UpdateKey, F!At, F!Busy
<1>2. /\ RosterTypes /\ F!SoFar(r) /\ request[r] \in Job /\ result \in [Person -> {"none", "ok", "error", "died"}]
  BY <1>1, Working
<1>3. /\ request[r].op = "models" /\ ~F!Closed(p) /\ key[p] # F!Nothing
      /\ user[p] \in {F!NoUser, request[r].models}
      /\ result[p] = "ok" => key[p].token = archive[p].token
  BY <1>1, <1>2 DEF F!SoFar, F!Fits
<1>4. /\ request' \in [Request -> Job] /\ \A q \in Request \ {r} : request'[q] = request[q]
      /\ request'[r].pc = "publish" /\ request'[r].op = "models" /\ request'[r].who = p
      /\ request'[r].models = request[r].models
  BY <1>1, <1>3, GoesTo DEF Steps, F!Who
<1>5. /\ key'[p] = [token |-> key[p].token, models |-> request[r].models]
      /\ \A q \in Person \ {p} : key'[q] = key[q]
      /\ DOMAIN key' = Person /\ key' = [q \in Person |-> key'[q]]
  <2>1. key[p] = [token |-> key[p].token, models |-> key[p].models]
    BY <1>2 DEF RosterTypes, F!Access
  <2>2. [key[p] EXCEPT !.models = request[r].models] = [token |-> key[p].token, models |-> request[r].models]
    BY <2>1
  <2>3. key' = [key EXCEPT ![p] = [token |-> key[p].token, models |-> request[r].models]]
    BY <1>1, <1>3, <2>2
  <2> QED
    BY <1>2, <2>3 DEF RosterTypes
<1>6. RosterTypes'
  <2>1. [token |-> key[p].token, models |-> request[r].models] \in F!Access
    BY <1>2 DEF RosterTypes, Job, F!Access
  <2>2. \A q \in Person : key'[q] \in F!Access
    BY <1>2, <1>5, <2>1 DEF RosterTypes
  <2>3. key' \in [Person -> F!Access]
    BY <1>5, <2>2
  <2> QED
    BY <1>1, <1>2, <2>3 DEF RosterTypes
<1>7. F!SoFar(r)'
  <2>1. key'[p].models = request[r].models /\ key'[p].token = key[p].token
    BY <1>5
  <2> QED
    BY <1>1, <1>3, <1>4, <2>1 DEF F!SoFar, F!Fits, F!Who, F!Closed
<1>8. Untouched(p) /\ result' \in [Person -> {"none", "ok", "error", "died"}]
  BY <1>1, <1>2, <1>5, OthersStay
<1> QED
  BY <1>1, <1>4, <1>6, <1>7, <1>8, OwnStep

LEMMA RevokeStep ==
  ASSUME F!RosterInv, UNCHANGED retired, NEW r \in Request, NEW p \in Person, p = F!Who(r), F!Revoke(r)
  PROVE  F!RosterInv'
<1>1. /\ request[r].pc = "revoke" /\ F!Busy(r) /\ UNCHANGED <<roster, user, archive, issued, result, overwritten>>
      /\ key' = [key EXCEPT ![p] = F!Nothing] /\ F!Go(r, "files")
  BY DEF F!Revoke, F!At, F!Busy
<1>2. /\ RosterTypes /\ F!SoFar(r) /\ result \in [Person -> {"none", "ok", "error", "died"}]
  BY <1>1, Working
<1>3. /\ request' \in [Request -> Job] /\ \A q \in Request \ {r} : request'[q] = request[q]
      /\ request'[r].pc = "files" /\ request'[r].op = request[r].op /\ request'[r].who = p
  BY <1>1, GoesTo DEF Steps, F!Who
<1>4. RosterTypes' /\ (\A q \in Person \ {p} : key'[q] = key[q]) /\ key'[p] = F!Nothing
  BY <1>1, <1>2, RosterConstants DEF RosterTypes
<1>5. F!SoFar(r)'
  <2>1. request[r].op = "offboard"
    BY <1>1, <1>2 DEF F!SoFar, F!Fits
  <2> QED
    BY <1>3, <1>4, <2>1 DEF F!SoFar, F!Fits, F!Who, F!Nothing
<1>6. Untouched(p) /\ result' \in [Person -> {"none", "ok", "error", "died"}]
  BY <1>1, <1>2, <1>4, OthersStay
<1> QED
  BY <1>1, <1>3, <1>4, <1>5, <1>6, OwnStep

LEMMA FilesStep ==
  ASSUME F!RosterInv, UNCHANGED retired, NEW r \in Request, NEW p \in Person, p = F!Who(r), F!WithdrawFiles(r)
  PROVE  F!RosterInv'
<1>1. /\ request[r].pc = "files" /\ F!Busy(r) /\ UNCHANGED <<roster, user, key, issued, overwritten>>
      /\ archive' = [archive EXCEPT ![p] = F!Nothing]
      /\ F!Finish(r, IF request[r].clean THEN "ok" ELSE "error")
  BY DEF F!WithdrawFiles, F!At, F!Busy
<1>2. /\ RosterTypes /\ F!SoFar(r)
  BY <1>1, Working
<1>3. request[r].clean => key[p] = F!Nothing
  BY <1>1, <1>2 DEF F!SoFar
<1>4. RosterTypes' /\ (\A q \in Person \ {p} : archive'[q] = archive[q]) /\ archive'[p] = F!Nothing
  BY <1>1, <1>2, RosterConstants DEF RosterTypes
<1>5. CASE ~request[r].clean
  BY <1>1, <1>4, <1>5, Failing
<1>6. CASE request[r].clean
  <2>1. /\ request' \in [Request -> Job] /\ \A q \in Request \ {r} : request'[q] = request[q]
        /\ request'[r].pc = "idle"
        /\ result' \in [Person -> {"none", "ok", "error", "died"}]
        /\ \A q \in Person \ {p} : result'[q] = result[q]
    BY <1>1, <1>6, Finishes
  <2>2. F!AsReported(p)'
    BY <1>1, <1>3, <1>4, <1>6 DEF F!AsReported, F!Delivered, F!ShutOut, F!Nothing
  <2>3. Untouched(p)
    BY <1>1, <1>4, <2>1, OthersStay
  <2> QED
    BY <1>1, <1>4, <2>1, <2>2, <2>3, OwnStep
<1> QED
  BY <1>5, <1>6

LEMMA FaultStep ==
  ASSUME F!RosterInv, UNCHANGED retired, NEW r \in Request, NEW p \in Person, p = F!Who(r), F!CallFails(r)
  PROVE  F!RosterInv'
<1>1. F!Busy(r) /\ UNCHANGED <<roster, user, key, archive, issued, overwritten>>
  BY DEF F!CallFails, F!At, F!Busy, F!outside
<1>2. /\ RosterTypes /\ F!SoFar(r) /\ request \in [Request -> Job] /\ request[r] \in Job
  BY <1>1, Working
<1>3. CASE F!Finish(r, "error")
  <2>1. RosterTypes'
    BY <1>1, <1>2 DEF RosterTypes
  <2> QED
    BY <1>1, <1>3, <2>1, Failing
<1>4. CASE request[r].pc = "publish" /\ request[r].op # "models" /\ F!Go(r, "withdraw") /\ UNCHANGED result
  <2>1. /\ request' \in [Request -> Job] /\ \A q \in Request \ {r} : request'[q] = request[q]
        /\ request'[r].pc = "withdraw" /\ request'[r].op = request[r].op /\ request'[r].who = p
    BY <1>1, <1>4, GoesTo DEF Steps, F!Who
  <2>2. request[r].op \in {"onboard", "reissue"}
    BY <1>2, <1>4 DEF F!SoFar, F!Fits
  <2>3. F!SoFar(r)'
    BY <2>1, <2>2 DEF F!SoFar, F!Fits, F!Who
  <2> QED
    BY <1>1, <1>4, <2>1, <2>3, Looking
<1>5. CASE /\ request[r].pc = "revoke" /\ UNCHANGED result
           /\ request' = [request EXCEPT ![r].pc = "files", ![r].clean = FALSE]
  <2>1. PICK new : new = [request[r] EXCEPT !.pc = "files", !.clean = FALSE]
    OBVIOUS
  <2>2. request' = [request EXCEPT ![r] = new]
    BY <1>5, <2>1
  <2>3. new \in Job /\ new.pc = "files" /\ new.op = request[r].op /\ new.who = request[r].who /\ ~new.clean
    BY <1>2, <2>1 DEF Job, Steps
  <2>4. /\ request' \in [Request -> Job] /\ \A q \in Request \ {r} : request'[q] = request[q]
        /\ request'[r].pc = "files" /\ request'[r].op = request[r].op /\ request'[r].who = p /\ ~request'[r].clean
    BY <1>2, <2>2, <2>3 DEF F!Who
  <2>5. F!SoFar(r)'
    BY <1>2, <1>5, <2>4 DEF F!SoFar, F!Fits, F!Who
  <2> QED
    BY <1>1, <1>5, <2>4, <2>5, Looking
<1> QED
  BY <1>3, <1>4, <1>5 DEF F!CallFails, F!At

LEMMA LostStep ==
  ASSUME F!RosterInv, UNCHANGED retired, NEW r \in Request, NEW p \in Person, p = F!Who(r), F!AnswerLost(r)
  PROVE  F!RosterInv'
<1>1. F!Busy(r) /\ UNCHANGED <<roster, user, overwritten>>
  BY DEF F!AnswerLost, F!At, F!Busy
<1>2. /\ RosterTypes /\ F!SoFar(r) /\ request[r] \in Job /\ result \in [Person -> {"none", "ok", "error", "died"}]
  BY <1>1, Working
<1>3. CASE F!Finish(r, "error") /\ UNCHANGED <<archive, issued>> /\ key' = [key EXCEPT ![p] = F!Nothing]
  <2>1. RosterTypes' /\ \A q \in Person \ {p} : key'[q] = key[q]
    BY <1>1, <1>2, <1>3, RosterConstants DEF RosterTypes
  <2> QED
    BY <1>1, <1>3, <2>1, Failing
<1>4. CASE /\ F!Finish(r, "error") /\ UNCHANGED archive /\ issued' = issued + 1
           /\ key' = [key EXCEPT ![p] = [token |-> issued + 1, models |-> request[r].models]]
  <2>1. RosterTypes' /\ \A q \in Person \ {p} : key'[q] = key[q]
    BY <1>1, <1>2, <1>4, MintedAccess DEF RosterTypes
  <2> QED
    BY <1>1, <1>4, <2>1, Failing
<1>5. CASE /\ request[r].pc = "publish" /\ request[r].op # "models" /\ F!Go(r, "withdraw")
           /\ UNCHANGED <<key, issued, result>>
           /\ archive' = [archive EXCEPT ![p] = [token |-> key[p].token, models |-> request[r].models]]
  <2>1. /\ request' \in [Request -> Job] /\ \A q \in Request \ {r} : request'[q] = request[q]
        /\ request'[r].pc = "withdraw" /\ request'[r].op = request[r].op /\ request'[r].who = p
    BY <1>1, <1>5, GoesTo DEF Steps, F!Who
  <2>2. request[r].op \in {"onboard", "reissue"}
    BY <1>2, <1>5 DEF F!SoFar, F!Fits
  <2>3. F!SoFar(r)'
    BY <2>1, <2>2 DEF F!SoFar, F!Fits, F!Who
  <2>4. [token |-> key[p].token, models |-> request[r].models] \in F!Access
    BY <1>2 DEF RosterTypes, F!Access, Job
  <2>5. RosterTypes' /\ \A q \in Person \ {p} : archive'[q] = archive[q]
    BY <1>1, <1>2, <1>5, <2>4 DEF RosterTypes
  <2>6. Untouched(p) /\ result' \in [Person -> {"none", "ok", "error", "died"}]
    BY <1>1, <1>2, <1>5, <2>5, OthersStay
  <2> QED
    BY <1>1, <2>1, <2>3, <2>5, <2>6, OwnStep
<1> QED
  BY <1>3, <1>4, <1>5 DEF F!AnswerLost, F!At

\* The process dies: nobody is told that anything was done.
LEMMA DeathStep ==
  ASSUME F!RosterInv, UNCHANGED retired, F!Dies
  PROVE  F!RosterInv'
<1>1. /\ request' = [r \in Request |-> F!Resting]
      /\ result' = [p \in Person |-> IF \E r \in Request : F!Who(r) = p THEN "died" ELSE result[p]]
      /\ UNCHANGED <<roster, user, key, archive, issued, overwritten>>
  BY DEF F!Dies, F!outside
<1>2. RosterTypes /\ result \in [Person -> {"none", "ok", "error", "died"}]
  BY RosterTyped DEF F!RosterInv
<1>3. RosterTypes' /\ request' \in [Request -> Job] /\ \A r \in Request : ~F!Busy(r)'
  BY <1>1, <1>2, RosterConstants DEF RosterTypes, F!Busy, F!At
<1>4. result' \in [Person -> {"none", "ok", "error", "died"}]
  BY <1>1, <1>2
<1>5. ASSUME NEW p \in Person, result'[p] = "ok" PROVE F!AsReported(p) /\ result[p] = "ok"
  <2>1. \A r \in Request : F!Who(r) # p
    BY <1>1, <1>5
  <2>2. result[p] = "ok"
    BY <1>1, <1>5, <2>1
  <2> QED
    BY <2>1, <2>2 DEF F!RosterInv
<1>6. \A p \in Person : F!AsReported(p)'
  BY <1>1, <1>5 DEF F!AsReported, F!Delivered, F!HasList, F!Covers, F!Closed, F!ShutOut
<1>7. F!TypeOK'
  BY <1>3, <1>4, RosterTyped
<1> QED
  BY <1>3, <1>6, <1>7 DEF F!RosterInv

\* An operation begins when nobody works on the employee: things are as reported.
LEMMA BeginStep ==
  ASSUME F!RosterInv, UNCHANGED retired, NEW r \in Request, NEW p \in Person,
         NEW op \in {"onboard", "offboard", "profile", "reissue", "models"},
         NEW models \in SUBSET (UNION Choice), F!Begin(r, op, p, models)
  PROVE  F!RosterInv'
<1> DEFINE pc == F!FirstStep[op]
<1>1. /\ request[r] = F!Resting /\ UNCHANGED <<roster, user, key, archive, issued, result, overwritten>>
      /\ request' = [request EXCEPT ![r] = [F!Resting EXCEPT !.pc = pc, !.op = op, !.who = p, !.models = models]]
      /\ \A s \in Request : F!Who(s) # p
  BY DEF F!Begin, F!outside, F!LockFree, F!Who
<1>2. /\ RosterTypes /\ request \in [Request -> Job] /\ result \in [Person -> {"none", "ok", "error", "died"}]
  BY RosterTyped DEF F!RosterInv
<1>3. /\ pc \in {"load", "active"} /\ F!Fits(pc, op)
  BY DEF F!FirstStep, F!Fits
<1> HIDE DEF pc
<1>4. PICK new : new = [F!Resting EXCEPT !.pc = pc, !.op = op, !.who = p, !.models = models]
  OBVIOUS
<1>5. new \in Job /\ new.pc = pc /\ new.op = op /\ new.who = p
  BY <1>3, <1>4, RosterConstants DEF Job, Steps
<1>6. /\ request' \in [Request -> Job] /\ \A s \in Request \ {r} : request'[s] = request[s]
      /\ request'[r] = new
  BY <1>1, <1>2, <1>4, <1>5
<1>7. F!TypeOK'
  BY <1>1, <1>2, <1>6, RosterTyped DEF RosterTypes
<1>8. ~F!Busy(r)
  BY <1>1, RosterConstants DEF F!Busy, F!At
<1>9. \A q \in Person : F!AsReported(q) => F!AsReported(q)'
  BY <1>1 DEF F!AsReported, F!Delivered, F!HasList, F!Covers, F!Closed, F!ShutOut
<1>10. F!AsReported(p)
  BY <1>1 DEF F!RosterInv
<1>11. F!SoFar(r)'
  BY <1>3, <1>5, <1>6, <1>9, <1>10 DEF F!SoFar, F!Who
<1>12. ASSUME NEW s \in Request \ {r}
       PROVE  /\ F!Busy(s)' = F!Busy(s) /\ F!Who(s)' = F!Who(s) /\ F!Who(s) # p
              /\ F!Busy(s) => F!SoFar(s)'
  <2>1. F!Busy(s)' = F!Busy(s) /\ F!Who(s)' = F!Who(s) /\ F!Who(s) # p
    BY <1>1, <1>6 DEF F!Busy, F!At, F!Who
  <2>2. ASSUME F!Busy(s) PROVE F!SoFar(s)'
    <3>1. F!SoFar(s) /\ F!Who(s) \in Person /\ request'[s] = request[s]
      BY <1>6, <2>2, Working
    <3> QED
      BY <1>1, <3>1 DEF F!SoFar, F!AsReported, F!Delivered, F!HasList, F!Covers, F!Closed, F!ShutOut, F!Who
  <2> QED
    BY <2>1, <2>2
<1>13. F!Who(r)' = p /\ F!Busy(r)'
  BY <1>3, <1>5, <1>6 DEF F!Who, F!Busy, F!At
<1>14. \A s \in Request : F!Busy(s)' => F!SoFar(s)'
  BY <1>11, <1>12
<1>15. \A s, u \in Request : F!Busy(s)' /\ F!Busy(u)' /\ F!Who(s)' = F!Who(u)' => s = u
  BY <1>12, <1>13 DEF F!RosterInv
<1>16. ASSUME NEW q \in Person, \A s \in Request : F!Busy(s)' => F!Who(s)' # q PROVE F!AsReported(q)'
  <2>1. \A s \in Request : F!Busy(s) => F!Who(s) # q
    BY <1>8, <1>12, <1>16
  <2> QED
    BY <1>9, <2>1 DEF F!RosterInv
<1> QED
  BY <1>7, <1>14, <1>15, <1>16 DEF F!RosterInv

LEMMA RosterStep ==
  ASSUME F!RosterInv, F!Next \/ UNCHANGED rosterVars
  PROVE  F!RosterInv'
<1>1. ASSUME NEW r \in Request, NEW p \in Person, NEW models \in Choice, UNCHANGED retired,
             F!Begin(r, "onboard", p, models) \/ F!Begin(r, "models", p, models)
      PROVE  F!RosterInv'
  <2>1. models \in SUBSET (UNION Choice)
    OBVIOUS
  <2> QED
    BY <1>1, <2>1, BeginStep
<1>2. ASSUME NEW r \in Request, NEW p \in Person, UNCHANGED retired,
             F!Begin(r, "offboard", p, F!NoModels) \/ F!Begin(r, "profile", p, F!NoModels)
               \/ F!Begin(r, "reissue", p, UNION Choice)
      PROVE  F!RosterInv'
  <2>1. F!NoModels \in SUBSET (UNION Choice) /\ UNION Choice \in SUBSET (UNION Choice)
    BY DEF F!NoModels
  <2> QED
    BY <1>2, <2>1, BeginStep
<1>3. ASSUME NEW r \in Request, UNCHANGED retired,
             \/ F!LoadUsers(r) \/ F!SaveUsers(r) \/ F!requireActive(r) \/ F!ensureGatewayUser(r)
             \/ F!DeletePrevious(r) \/ F!GenerateKey(r) \/ F!AliasTaken(r) \/ F!PublishCredentials(r)
             \/ F!WithdrawToken(r) \/ F!FindKey(r) \/ F!UpdateKey(r) \/ F!Revoke(r) \/ F!WithdrawFiles(r)
             \/ F!CallFails(r) \/ F!AnswerLost(r)
      PROVE  F!RosterInv'
  <2>1. F!Busy(r)
    BY <1>3 DEF F!LoadUsers, F!SaveUsers, F!requireActive, F!ensureGatewayUser, F!DeletePrevious, F!GenerateKey,
                F!AliasTaken, F!PublishCredentials, F!WithdrawToken, F!FindKey, F!UpdateKey, F!Revoke,
                F!WithdrawFiles, F!CallFails, F!AnswerLost, F!Busy, F!At
  <2>2. PICK p \in Person : p = F!Who(r)
    BY <2>1, Working
  <2> QED
    BY <1>3, <2>2, LoadStep, SaveStep, ActiveStep, UserStep, ReplaceStep, MintStep, ErrorStep, PublishStep,
       FindStep, UpdateKeyStep, RevokeStep, FilesStep, FaultStep, LostStep
<1>4. CASE F!Dies /\ UNCHANGED retired
  BY <1>4, DeathStep
<1>5. CASE UNCHANGED rosterVars \/ F!Retire
  <2>1. UNCHANGED <<roster, user, key, archive, request, issued, result, overwritten>> /\ retired \subseteq retired'
    BY <1>5 DEF rosterVars, F!Retire, F!outside
  <2> QED
    BY <2>1 DEF F!RosterInv, F!TypeOK, F!SoFar, F!AsReported, F!Delivered, F!HasList, F!Covers, F!Closed, F!ShutOut, F!Who,
                F!Busy, F!At
<1> QED
  BY <1>1, <1>2, <1>3, <1>4, <1>5 DEF F!Next, F!Operate

\* admincore: whatever failed before, once opening, reissuing or closing an account is reported
\* as done and nobody works on it, the token on the gateway is the one delivered.
THEOREM ReportedIsDelivered == Spec => []DoneMeansDelivered
<1>1. F!RosterInv /\ [Next]_vars => F!RosterInv'
  BY StepOfAStory, RosterStep
<1>2. F!RosterInv => DoneMeansDelivered
  BY DEF F!RosterInv, DoneMeansDelivered, F!DoneMeansDelivered, F!Quiet, F!LockFree, F!AsReported, F!Who
<1> QED
  BY RosterStart, <1>1, <1>2, PTL DEF Spec

\* admincore: somebody whose account is closed has no token and no files, but for failures that
\* were reported, and unless another roster was written over the closing.
THEOREM ClosedAccountsAreEmpty == Spec => []LeaversAreShutOut
<1>1. F!RosterInv /\ [Next]_vars => F!RosterInv'
  BY StepOfAStory, RosterStep
<1>2. F!RosterInv => LeaversAreShutOut
  BY DEF F!RosterInv, LeaversAreShutOut, F!LeaversAreShutOut, F!Quiet, F!LockFree, F!AsReported, F!Who
<1> QED
  BY RosterStart, <1>1, <1>2, PTL DEF Spec
=============================================================================
