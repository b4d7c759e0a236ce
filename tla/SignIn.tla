------------------------------- MODULE SignIn -------------------------------
(***************************************************************************)
(* Administrators of the console: signing in with a password and a second  *)
(* factor, setting the factor up, and switching accounts off and on        *)
(* (authn/authn.go, dbstore/admins.go, adminweb/dbmode.go).  Requests run  *)
(* beside each other, and each statement is a step: the database is at     *)
(* READ COMMITTED, so a statement sees what was committed when it began.   *)
(*                                                                         *)
(* Whether a password or a code is right is the person's choice.  The      *)
(* count of attempts from one address works like the one for one account   *)
(* and is left out, as are the two life times of a session.                *)
(*                                                                         *)
(* A definition marked "Slip" is not part of the model: it is what a       *)
(* plausible mistake would make of the definition after it.                *)
(***************************************************************************)
EXTENDS Naturals, FiniteSets

CONSTANTS
  Account,       \* accounts that can exist
  First,         \* the one that EnsureFirstAccount makes
  Administers,   \* those with the role admin
  Request,       \* requests that may run at a time
  Careless,      \* bound: those who mistype
  MaxFailures,   \* MaxFailuresPerUser
  MaxEvent       \* bound: accounts made, toggled, passwords changed, restarts

SignInAssumption ==
  /\ First \in Administers /\ Administers \subseteq Account /\ Careless \subseteq Account
  /\ IsFiniteSet(Request)
  /\ MaxFailures \in Nat \ {0} /\ MaxEvent \in Nat

VARIABLES
  account,    \* admin_principals: none, enabled or disabled
  enrolled,   \* who has an authenticator
  codes,      \* whether any recovery code is left
  pending,    \* who holds the cookie of an enrolment that was begun
  session,    \* who has a session in admin_sessions
  wrong,      \* attempts of the window that were tried and were wrong
  unrecorded, \* those of them that left no row in admin_login_attempts
  locked,     \* rows of the window for attempts that were refused untried
  req,        \* where each request is
  loophole,   \* history: an account was switched off while another request was to,
              \* or was to be by an administrator who wrote its own name otherwise
  events      \* counter for the bound

vars == <<account, enrolled, codes, pending, session, wrong, unrecorded, locked, req, loophole,
          events>>
who == <<account, enrolled, codes>>
tries == <<wrong, unrecorded, locked>>

Idle == [step |-> "idle", of |-> First, target |-> First, others |-> FALSE]

Init ==
  /\ account = [a \in Account |-> IF a = First THEN "enabled" ELSE "none"]
  /\ enrolled = {} /\ codes = {}
  /\ pending = {} /\ session = {}
  /\ wrong = [a \in Account |-> 0] /\ unrecorded = [a \in Account |-> 0]
  /\ locked = [a \in Account |-> 0]
  /\ req = [r \in Request |-> Idle]
  /\ loophole = FALSE
  /\ events = 0

Event == events < MaxEvent /\ events' = events + 1
Enabled(a) == account[a] = "enabled"
At(r, step) == req[r].step = step
Goto(r, step) == req' = [req EXCEPT ![r].step = step]
End(r) == req' = [req EXCEPT ![r] = Idle]

-----------------------------------------------------------------------------
(* Signing in                                                              *)

\* record, for an attempt that was tried: that the row is not written, the request
\* being over or the database away, changes nothing else.
Wrong(a) ==
  /\ a \in Careless
  /\ wrong' = [wrong EXCEPT ![a] = @ + 1]
  /\ \/ UNCHANGED <<unrecorded, events>>
     \/ Event /\ unrecorded' = [unrecorded EXCEPT ![a] = @ + 1]

\* RecentFailures counts the rows: refused attempts are among them.
SlipLockedOut(a) == wrong[a] + locked[a] > MaxFailures + unrecorded[a]
LockedOut(a) == wrong[a] + locked[a] >= MaxFailures + unrecorded[a]

SignIn(r, a) ==
  /\ At(r, "idle")
  /\ IF LockedOut(a)
       THEN /\ locked[a] < MaxFailures   \* bound: more of them change nothing
            /\ locked' = [locked EXCEPT ![a] = @ + 1]
            /\ UNCHANGED req
       ELSE /\ req' = [req EXCEPT ![r] = [Idle EXCEPT !.step = "password", !.of = a]]
            /\ UNCHANGED locked
  /\ UNCHANGED <<who, pending, session, wrong, unrecorded, loophole, events>>

\* The row is read and the password verified.
VerifyPassword(r) ==
  LET a == req[r].of IN
  /\ At(r, "password")
  /\ \/ Wrong(a) /\ End(r) /\ UNCHANGED pending   \* unknown, disabled or mismatched
     \/ /\ Enabled(a) /\ a \notin enrolled
        /\ pending' = pending \cup {a}
        /\ End(r) /\ UNCHANGED <<wrong, unrecorded, events>>
     \/ /\ Enabled(a) /\ a \in enrolled
        /\ Goto(r, "code") /\ UNCHANGED <<wrong, unrecorded, events, pending>>
  /\ UNCHANGED <<who, session, locked, loophole>>

checkSecondFactor(r) ==
  LET a == req[r].of IN
  /\ At(r, "code")
  /\ \/ Wrong(a) /\ End(r) /\ UNCHANGED codes
     \/ Goto(r, "session") /\ UNCHANGED <<codes, wrong, unrecorded, events>>
     \/ \* ReplaceRecoveryHashes, by what the row held before
        /\ a \in codes
        /\ codes' \in {codes, codes \ {a}}
        /\ Goto(r, "session") /\ UNCHANGED <<wrong, unrecorded, events>>
  /\ UNCHANGED <<account, enrolled, pending, session, locked, loophole>>

openSession(r) ==
  /\ At(r, "session")
  /\ session' = session \cup {req[r].of}
  /\ End(r)
  /\ UNCHANGED <<who, pending, tries, loophole, events>>

WindowPasses(a) ==
  /\ \/ /\ wrong[a] > unrecorded[a] /\ wrong' = [wrong EXCEPT ![a] = @ - 1]
        /\ UNCHANGED <<unrecorded, locked>>
     \/ /\ unrecorded[a] > 0 /\ unrecorded' = [unrecorded EXCEPT ![a] = @ - 1]
        /\ wrong' = [wrong EXCEPT ![a] = @ - 1]
        /\ UNCHANGED locked
     \/ locked[a] > 0 /\ locked' = [locked EXCEPT ![a] = @ - 1] /\ UNCHANGED <<wrong, unrecorded>>
  /\ UNCHANGED <<who, pending, session, req, loophole, events>>

SignOut(a) ==
  /\ a \in session
  /\ session' = session \ {a}
  /\ UNCHANGED <<who, pending, tries, req, loophole, events>>

-----------------------------------------------------------------------------
(* An account's own factors                                                *)

\* SetTOTP and, in a statement of its own, the end of its sessions.
CompleteEnrolment(r, a) ==
  /\ a \in pending /\ At(r, "idle")
  /\ account[a] # "none"
  /\ enrolled' = enrolled \cup {a} /\ codes' = codes \cup {a}
  /\ pending' = pending \ {a}
  /\ req' = [req EXCEPT ![r] = [Idle EXCEPT !.step = "clear", !.target = a]]
  /\ UNCHANGED <<account, session, tries, loophole, events>>

EnrolmentExpires(a) ==
  /\ a \in pending
  /\ pending' = pending \ {a}
  /\ UNCHANGED <<who, session, tries, req, loophole, events>>

\* A request of somebody who is signed in and not switched off.
Session(a) == a \in session /\ Enabled(a)

ChangePassword(r, a) ==
  /\ Event /\ At(r, "idle") /\ Session(a)
  /\ req' = [req EXCEPT ![r] = [Idle EXCEPT !.step = "clear", !.target = a]]
  /\ UNCHANGED <<who, pending, session, tries, loophole>>

DeleteSessionsFor(r) ==
  /\ At(r, "clear")
  /\ session' = session \ {req[r].target}
  /\ End(r)
  /\ UNCHANGED <<who, pending, tries, loophole, events>>

-----------------------------------------------------------------------------
(* Making accounts and switching them off                                  *)

actionAdminCreate(by, a) ==
  /\ Event
  /\ Session(by) /\ by \in Administers
  /\ account[a] = "none"
  /\ account' = [account EXCEPT ![a] = "enabled"]
  /\ UNCHANGED <<enrolled, codes, pending, session, tries, req, loophole>>

\* The look at the session: an admin, and not oneself, which is asked of the name as
\* it is written in the form; the account is found by its letters in lower case.
SlipToggle(r, by, a, asShown) ==
  /\ Event /\ At(r, "idle")
  /\ Session(by) /\ by \in Administers /\ account[a] # "none"
  /\ req' = [req EXCEPT ![r] = [step |-> "statement", of |-> by, target |-> a, others |-> FALSE]]
  /\ loophole' = (loophole \/ (by = a /\ ~asShown))
  /\ UNCHANGED <<who, pending, session, tries>>
actionAdminSetDisabled(r, by, a, asShown) ==
  /\ Event /\ At(r, "idle")
  /\ Session(by) /\ by \in Administers /\ account[a] # "none"
  /\ asShown => by # a
  /\ req' = [req EXCEPT ![r] = [step |-> "statement", of |-> by, target |-> a, others |-> FALSE]]
  /\ loophole' = (loophole \/ (by = a /\ ~asShown))
  /\ UNCHANGED <<who, pending, session, tries>>

\* The statement begins: it sees which other accounts are enabled.
SetDisabled(r) ==
  /\ At(r, "statement")
  /\ req' = [req EXCEPT ![r] = [step |-> "commit", of |-> @.of, target |-> @.target,
                                others |-> \E b \in Account \ {req[r].target} : Enabled(b)]]
  /\ UNCHANGED <<who, pending, session, tries, loophole, events>>

\* It ends; a row that it may not change is refused.
CommitDisabled(r) ==
  LET a == req[r].target IN
  /\ At(r, "commit")
  /\ IF req[r].others
       THEN /\ account' = [account EXCEPT ![a] = "disabled"]
            /\ loophole' = (loophole \/ \E q \in Request \ {r} : req[q].step \in {"statement", "commit"})
            /\ Goto(r, "clear")
       ELSE End(r) /\ UNCHANGED <<account, loophole>>
  /\ UNCHANGED <<enrolled, codes, pending, session, tries, events>>

Enable(by, a) ==
  /\ Event
  /\ Session(by) /\ by \in Administers
  /\ account[a] = "disabled"
  /\ account' = [account EXCEPT ![a] = "enabled"]
  /\ UNCHANGED <<enrolled, codes, pending, session, tries, req, loophole>>

\* A start of the console: requests end where they are, and EnsureFirstAccount
\* makes an account when none is enabled.  Its name is new.
RestartConsole ==
  /\ Event
  /\ req' = [r \in Request |-> Idle]
  /\ IF \E a \in Account : Enabled(a) THEN UNCHANGED account
     ELSE \E a \in Administers :
            account[a] = "none" /\ account' = [account EXCEPT ![a] = "enabled"]
  /\ UNCHANGED <<enrolled, codes, pending, session, tries, loophole>>

-----------------------------------------------------------------------------
Next ==
  \/ \E r \in Request :
       \/ VerifyPassword(r) \/ checkSecondFactor(r) \/ openSession(r)
       \/ DeleteSessionsFor(r) \/ SetDisabled(r) \/ CommitDisabled(r)
       \/ \E a \in Account : SignIn(r, a) \/ CompleteEnrolment(r, a) \/ ChangePassword(r, a)
       \/ \E by, a \in Account, asShown \in BOOLEAN : actionAdminSetDisabled(r, by, a, asShown)
  \/ \E a \in Account : WindowPasses(a) \/ SignOut(a) \/ EnrolmentExpires(a)
  \/ \E by, a \in Account : actionAdminCreate(by, a) \/ Enable(by, a)
  \/ RestartConsole

Spec == Init /\ [][Next]_vars

-----------------------------------------------------------------------------
\* authn.go:226: the lockout is consulted first.  However sign-ins overlap, what
\* is tried beyond the limit is what was already past the count, and what left no row
\* to count.
GuessesAreBounded ==
  \A a \in Account : wrong[a] < MaxFailures + Cardinality(Request) + unrecorded[a]

\* Somebody is left who can undo it (dbstore/admins.go:178), unless two requests
\* were switching accounts off at once or an administrator switched itself off, which
\* the console refuses only to a name written as it is stored (dbmode.go:640).
SomebodyCanUndo == loophole \/ \E a \in Administers : Enabled(a)

\* dbstore/admins.go:180: "The check and the write are one statement, so two people
\* disabling two accounts at once cannot both pass it."
SomebodyCanSignIn == \E a \in Account : Enabled(a)

TypeOK ==
  /\ account \in [Account -> {"none", "enabled", "disabled"}]
  /\ wrong \in [Account -> Nat] /\ unrecorded \in [Account -> Nat] /\ locked \in [Account -> Nat]
  /\ \A a \in Account : unrecorded[a] <= wrong[a]
  /\ req \in [Request -> [step : {"idle", "password", "code", "session", "clear", "statement", "commit"},
                          of : Account, target : Account, others : BOOLEAN]]
  /\ loophole \in BOOLEAN

\* Why: each attempt that has passed the count can be wrong once more.
Trying(a) == {r \in Request : req[r].step \in {"password", "code"} /\ req[r].of = a}
TriesInv ==
  \A a \in Account :
    wrong[a] + Cardinality(Trying(a)) < MaxFailures + Cardinality(Request) + unrecorded[a]

\* Why: who switches another account off is an administrator whose own stays on, for
\* as long as nobody else is at it.
Switching(r) == req[r].step \in {"statement", "commit"}
SwitchInv ==
  /\ SomebodyCanUndo
  /\ ~loophole => \A r \in Request : Switching(r) =>
       req[r].of \in Administers /\ req[r].of # req[r].target /\ Enabled(req[r].of)

SignInInv == TypeOK /\ TriesInv /\ SwitchInv
=============================================================================
