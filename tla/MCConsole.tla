----------------------------- MODULE MCConsole -----------------------------
(***************************************************************************)
(* Stories about people and the console checked in one run: tickets, the  *)
(* administrators' sign-in, the master key, the replacement of an agent,   *)
(* and the accounts of the console that keeps files.  They share no state; *)
(* which of them a behaviour tells is chosen at the start.  Signing in is  *)
(* told twice: with wrong answers and few events (FewEvents), and with     *)
(* more events and nobody who mistypes.                                    *)
(***************************************************************************)
EXTENDS Naturals

CONSTANTS
  Contact, Manager, Admin, Nobody, Kinds, MaxVersion, MaxMove,
  Account, First, Administers, Careless, Request, MaxFailures, MaxEvent, FewEvents,
  Credential, MaxKey, MaxSeal, MaxUpdate, MaxFault,
  Person, Existing, Choice, Retirable, MaxOperation, MaxOutage

VARIABLES
  which,
  contacts, ticket, last, word, proposals, changes, page, moves,
  account, enrolled, codes, pending, session, wrong, unrecorded, locked, req, loophole, events,
  file, copy, ring, credential, seed, secret, rekey, seals, cuts,
  current, staged, backup, service, helper, seen, faults,
  roster, user, key, archive, request, issued, retired, result, overwritten, operations, outages

T == INSTANCE Tickets
S == INSTANCE SignIn
K == INSTANCE MasterKey WITH backup <- copy, faults <- cuts
U == INSTANCE SelfUpdate
F == INSTANCE FileConsole WITH MaxFault <- MaxOutage, faults <- outages

ASSUME ConsoleAssumption ==
  /\ T!TicketsAssumption /\ S!SignInAssumption /\ K!MasterKeyAssumption /\ U!SelfUpdateAssumption
  /\ F!FileConsoleAssumption

ticketVars == <<contacts, ticket, last, word, proposals, changes, page, moves>>
signInVars == <<account, enrolled, codes, pending, session, wrong, unrecorded, locked, req, loophole, events>>
keyVars == <<file, copy, ring, credential, seed, secret, rekey, seals, cuts>>
updateVars == <<current, staged, backup, service, helper, seen, faults>>
rosterVars == <<roster, user, key, archive, request, issued, retired, result, overwritten, operations, outages>>
vars == <<which, ticketVars, signInVars, keyVars, updateVars, rosterVars>>

Init ==
  /\ which \in {"ticket", "sign-in", "accounts", "key", "update", "roster"}
  /\ T!Init /\ S!Init /\ K!Init /\ U!Init /\ F!Init
Next ==
  \/ which = "ticket" /\ T!Next /\ UNCHANGED <<which, signInVars, keyVars, updateVars, rosterVars>>
  \/ which = "sign-in" /\ S!Next /\ events' <= FewEvents
     /\ UNCHANGED <<which, ticketVars, keyVars, updateVars, rosterVars>>
  \/ which = "accounts" /\ S!Next /\ UNCHANGED wrong
     /\ UNCHANGED <<which, ticketVars, keyVars, updateVars, rosterVars>>
  \/ which = "key" /\ K!Next /\ UNCHANGED <<which, ticketVars, signInVars, updateVars, rosterVars>>
  \/ which = "update" /\ U!Next /\ UNCHANGED <<which, ticketVars, signInVars, keyVars, rosterVars>>
  \/ which = "roster" /\ F!Next /\ UNCHANGED <<which, ticketVars, signInVars, keyVars, updateVars>>

Spec == Init /\ [][Next]_vars

DoneIsAgreed == T!DoneIsAgreed
CustomerIsHeard == T!CustomerIsHeard
GuessesAreBounded == S!GuessesAreBounded
SomebodyCanUndo == S!SomebodyCanUndo
KeysAreNeverLost == K!KeysAreNeverLost
RollbackCopyKept == U!RollbackCopyKept
DoneMeansDelivered == F!DoneMeansDelivered
LeaversAreShutOut == F!LeaversAreShutOut
=============================================================================
