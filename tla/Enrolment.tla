----------------------------- MODULE Enrolment -----------------------------
(***************************************************************************)
(* How a machine gets and keeps the token it speaks to the console with:   *)
(* the console's side (internal/deviceapi/enrol.go, dbstore/devicetokens.go*)
(* and devices.go, the operations of internal/ops on machines, the weekly  *)
(* pruning) and the agent's (cmd/agent/console.go, agentcore/source_api.go,*)
(* agentapi/tokenstore.go).                                                *)
(*                                                                         *)
(* A machine is its host name.  Several processes of the agent may run on  *)
(* it and share the token file: the service, and the one-shot commands     *)
(* (`setup' ends with a synchronisation in its own process right after it  *)
(* started the service).                                                   *)
(*                                                                         *)
(* The transaction of an enrolment is two steps.  Its first read takes no  *)
(* lock; from EnsureByHostname on it holds the lock of the device's row,   *)
(* which every other operation on the machine takes as well, so the rest   *)
(* is one step with the commit.  Time passes in actions: a window is open  *)
(* or over, an enrolment is a week old or is not.                          *)
(*                                                                         *)
(* Left out: rotation of a token, for which no agent asks; the limiter and *)
(* the address filter, which refuse without a trace; last_seen_at.         *)
(*                                                                         *)
(* A definition marked "Slip" is not part of the model: it is what a       *)
(* plausible mistake would make of the definition after it, kept to show   *)
(* that a property notices.                                                *)
(***************************************************************************)
EXTENDS Naturals, FiniteSets

CONSTANTS
  Machine,
  NoMachine,
  Process,
  At,         \* the machine a process runs on
  Service,    \* the processes that run the service loop
  MaxToken,   \* bound: tokens ever issued
  Events,     \* what administrators and fate may do, out of EventKinds
  MaxEvents   \* bound: how many of them

\* allow .. bind: the administrator's operations.  bucket: a status report of
\* an older agent is imported.  prune: the weekly pruning looks.  crash: a
\* service dies.  lost: an enrolment is not answered, or the token cannot be
\* saved.  wipe, clone: a disk is reinstalled, or captured for a new machine.
EventKinds == {"allow", "revoke", "forget", "bind", "bucket", "prune",
               "crash", "lost", "wipe", "clone"}

ASSUME EnrolmentAssumption ==
  /\ NoMachine \notin Machine
  /\ At \in [Process -> Machine]
  /\ Service \subseteq Process
  /\ MaxToken \in Nat
  /\ Events \subseteq EventKinds
  /\ MaxEvents \in Nat

VARIABLES
  device,    \* devices, with whether bindings has rows of it
  minted,    \* how many tokens were issued
  issued,    \* device_tokens.device_id
  live,      \* the tokens with revoked_at null
  saved,     \* the token file of a machine
  proc,      \* the agent's processes
  pruning,   \* the machine the pruning is about to forget
  happened

consoleVars == <<device, minted, issued, live>>
vars == <<consoleVars, saved, proc, pruning, happened>>

Token == 1 .. MaxToken
NoToken == 0

Device == [known : BOOLEAN,       \* the row exists
           revoked : BOOLEAN,     \* status = 'revoked'
           api : BOOLEAN,         \* channel = 'api'
           window : {"none", "open", "over"},   \* reenrol_allowed_until
           assigned : BOOLEAN,    \* somebody had the machine once
           weekOld : BOOLEAN]     \* enrolled_at is a week ago
NewDevice == [known |-> FALSE, revoked |-> FALSE, api |-> FALSE, window |-> "none",
              assigned |-> FALSE, weekOld |-> FALSE]

\* loop .. polling is consoleWaiter and enrolUntilDone, or newSyncer of a
\* one-shot command, for which everything is over when it was refused.
Proc == [pc : {"off", "loop", "asking", "granted", "saved", "polling", "over"},
         client : Token \cup {NoToken},   \* Client.Token
         refused : BOOLEAN,               \* APISource.unauthorized
         before : Device,                 \* what the enrolment read first
         since : SUBSET {"issued", "forgotten"},  \* history: what became of the machine since
         reply : Token \cup {NoToken},
         rejection : BOOLEAN]   \* a 401 is on its way to the syncing goroutine
Stopped == [pc |-> "off", client |-> NoToken, refused |-> FALSE, before |-> NewDevice,
            since |-> {}, reply |-> NoToken, rejection |-> FALSE]

LiveOf(m) == {t \in live : issued[t] = m}

\* The processes after m was given a token, or forgotten: the enrolments under
\* way that read its row before are marked.
Overtaken(m, what) ==
  [p \in Process |->
    IF At[p] = m /\ proc[p].pc = "asking" THEN [proc[p] EXCEPT !.since = @ \cup {what}] ELSE proc[p]]

\* Authenticate.
Accepts(t) == t \in live /\ ~device[issued[t]].revoked

\* Slip: the name in the report is taken as it comes.
SpeaksForAnyone(t, m) == t # NoToken /\ Accepts(t)

\* Token t speaks for machine m: handleStatus compares the names.
SpeaksFor(t, m) == t # NoToken /\ Accepts(t) /\ issued[t] = m

Init ==
  /\ device = [m \in Machine |-> NewDevice]
  /\ minted = 0
  /\ issued = [t \in Token |-> NoMachine]
  /\ live = {}
  /\ saved = [m \in Machine |-> NoToken]
  /\ proc = [p \in Process |-> Stopped]
  /\ pruning = NoMachine
  /\ happened = 0

Happens(kind) ==
  /\ kind \in Events
  /\ happened < MaxEvents
  /\ happened' = happened + 1

-----------------------------------------------------------------------------
(* Enrolling.                                                              *)

\* Slip: a machine without a live token needs no window.
AdmitsWithoutToken(m, before) == ~before.known \/ before.window = "open" \/ LiveOf(m) = {}

\* Slip: a machine that nobody was ever assigned to needs none.
AdmitsUnassigned(m, before) ==
  \/ ~before.known
  \/ before.window = "open"
  \/ ~device[m].assigned /\ ~before.revoked

\* What handleEnrol asks before it issues a token: of the row as the first
\* read saw it, and of the tokens and bindings as they are.
Admits(m, before) ==
  \/ ~before.known
  \/ before.window = "open"
  \/ LiveOf(m) = {} /\ ~device[m].assigned /\ ~before.revoked /\ ~before.api

\* SetEnrolled, after Reactivate for a forgotten machine.
Enrolled(d) == [d EXCEPT !.known = TRUE, !.revoked = FALSE, !.api = TRUE,
                         !.window = "none", !.weekOld = FALSE]

\* Issue: the tokens that are left when a new one is issued to m.
Retained(m) == live \ LiveOf(m)

\* Slip: a refusal is taken for a passing fault.
NeedsFirstEnrol(p) == proc[p].client = NoToken

\* The service asks when it has no token or was refused; a command when it
\* found no token.
NeedsEnrol(p) == proc[p].client = NoToken \/ (p \in Service /\ proc[p].refused)

Ask(p) ==
  /\ proc[p].pc = "loop"
  /\ NeedsEnrol(p)
  /\ proc' = [proc EXCEPT ![p].pc = "asking", ![p].before = device[At[p]]]
  /\ UNCHANGED <<consoleVars, saved, pruning, happened>>

\* A row that appeared after the first read and was forgotten since makes
\* SetEnrolled fail.
Admitted(p) ==
  /\ Admits(At[p], proc[p].before)
  /\ proc[p].before.known \/ ~device[At[p]].revoked

Enrol(p) ==
  /\ proc[p].pc = "asking"
  /\ Admitted(p)
  /\ minted < MaxToken
  /\ minted' = minted + 1
  /\ issued' = [issued EXCEPT ![minted'] = At[p]]
  /\ live' = Retained(At[p]) \cup {minted'}
  /\ device' = [device EXCEPT ![At[p]] = Enrolled(@)]
  /\ proc' = [Overtaken(At[p], "issued") EXCEPT ![p].pc = "granted", ![p].reply = minted',
                                                ![p].since = {}]
  /\ UNCHANGED <<saved, pruning, happened>>

\* Where a failed enrolment leaves the process: the service waits and asks
\* again, a command has nothing to synchronise with.
AfterFailure(p) == [proc[p] EXCEPT !.pc = IF p \in Service THEN "loop" ELSE "over",
                                   !.before = NewDevice, !.since = {}, !.reply = NoToken]

EnrolRefused(p) ==
  /\ proc[p].pc = "asking"
  /\ ~Admitted(p)
  /\ proc' = [proc EXCEPT ![p] = AfterFailure(p)]
  /\ UNCHANGED <<consoleVars, saved, pruning, happened>>

EnrolLost(p) ==
  /\ proc[p].pc \in {"asking", "granted"}
  /\ Happens("lost")
  /\ proc' = [proc EXCEPT ![p] = AfterFailure(p)]
  /\ UNCHANGED <<consoleVars, saved, pruning>>

SaveToken(p) ==
  /\ proc[p].pc = "granted"
  /\ saved' = [saved EXCEPT ![At[p]] = proc[p].reply]
  /\ proc' = [proc EXCEPT ![p].pc = "saved"]
  /\ UNCHANGED <<consoleVars, pruning, happened>>

Reset(p) ==
  /\ proc[p].pc = "saved"
  /\ proc' = [proc EXCEPT ![p].pc = "loop", ![p].client = proc[p].reply, ![p].refused = FALSE,
                          ![p].before = NewDevice, ![p].reply = NoToken]
  /\ UNCHANGED <<consoleVars, saved, pruning, happened>>

-----------------------------------------------------------------------------
(* Speaking to the console.                                                *)

\* A poll is refused at once or held; the answer is the waiter's own.
Poll(p) ==
  /\ p \in Service
  /\ proc[p].pc = "loop"
  /\ ~NeedsEnrol(p)
  /\ proc' = IF Accepts(proc[p].client)
             THEN [proc EXCEPT ![p].pc = "polling"]
             ELSE [proc EXCEPT ![p].refused = TRUE]
  /\ UNCHANGED <<consoleVars, saved, pruning, happened>>

PollEnds(p) ==
  /\ proc[p].pc = "polling"
  /\ proc' = [proc EXCEPT ![p].pc = "loop"]
  /\ UNCHANGED <<consoleVars, saved, pruning, happened>>

\* A call of the synchronisation is refused: 401, or a status report with the
\* token of another machine.  Calls that are answered change nothing here.
CallRefused(p) ==
  /\ p \in Service
  /\ proc[p].client # NoToken
  /\ ~proc[p].rejection
  /\ ~SpeaksFor(proc[p].client, At[p])
  /\ proc' = [proc EXCEPT ![p].rejection = TRUE]
  /\ UNCHANGED <<consoleVars, saved, pruning, happened>>

\* note: whichever token the source has by now.
Note(p) ==
  /\ proc[p].rejection
  /\ proc' = [proc EXCEPT ![p].rejection = FALSE, ![p].refused = TRUE]
  /\ UNCHANGED <<consoleVars, saved, pruning, happened>>

Start(p) ==
  /\ proc[p].pc = "off"
  /\ proc' = [proc EXCEPT ![p].pc = "loop", ![p].client = saved[At[p]]]
  /\ UNCHANGED <<consoleVars, saved, pruning, happened>>

\* A command ends when it has what it needs, or nothing to do it with.
Exit(p) ==
  /\ p \notin Service
  /\ \/ proc[p].pc = "over"
     \/ proc[p].pc = "loop" /\ ~NeedsEnrol(p)
  /\ proc' = [proc EXCEPT ![p] = Stopped]
  /\ UNCHANGED <<consoleVars, saved, pruning, happened>>

Crash(p) ==
  /\ proc[p].pc # "off"
  /\ Happens("crash")
  /\ proc' = [proc EXCEPT ![p] = Stopped]
  /\ UNCHANGED <<consoleVars, saved, pruning>>

Idle(m) == \A p \in Process : At[p] = m => proc[p].pc = "off"

\* The token file goes with the disk, or prepare-image removes it.
Wipe(m) ==
  /\ Happens("wipe")
  /\ saved' = [saved EXCEPT ![m] = NoToken]
  /\ proc' = [p \in Process |-> IF At[p] = m THEN Stopped ELSE proc[p]]
  /\ UNCHANGED <<consoleVars, pruning>>

\* m is captured as an image without prepare-image, and n made from it.
Clone(m, n) ==
  /\ saved[n] = NoToken
  /\ Idle(n)
  /\ Happens("clone")
  /\ saved' = [saved EXCEPT ![n] = saved[m]]
  /\ UNCHANGED <<consoleVars, proc, pruning>>

-----------------------------------------------------------------------------
(* The console's other operations on a machine.                            *)

Tokens(t) == UNCHANGED <<minted, issued>> /\ live' = t

AllowReenrol(m) ==
  /\ device[m].known
  /\ Happens("allow")
  /\ device' = [device EXCEPT ![m].window = "open"]
  /\ UNCHANGED <<minted, issued, live, saved, proc, pruning>>

RevokeDeviceToken(m) ==
  /\ device[m].known
  /\ Happens("revoke")
  /\ Tokens(live \ LiveOf(m))
  /\ device' = [device EXCEPT ![m].window = "open"]
  /\ UNCHANGED <<saved, proc, pruning>>

\* The tokens and the window stay as they are.
ForgetMachine(m) ==
  /\ device[m].known
  /\ Happens("forget")
  /\ device' = [device EXCEPT ![m].revoked = TRUE]
  /\ proc' = Overtaken(m, "forgotten")
  /\ UNCHANGED <<minted, issued, live, saved, pruning>>

BindMachine(m) ==
  /\ Happens("bind")
  /\ device' = [device EXCEPT ![m].known = TRUE, ![m].assigned = TRUE]
  /\ UNCHANGED <<minted, issued, live, saved, proc, pruning>>

\* The bucket's import registers whoever left a status report there.
ImportStatus(m) ==
  /\ Happens("bucket")
  /\ device' = [device EXCEPT ![m].known = TRUE]
  /\ UNCHANGED <<minted, issued, live, saved, proc, pruning>>

\* The list of devices and the history of bindings are read before the
\* transaction that forgets.
PruneLooks(m) ==
  /\ pruning = NoMachine
  /\ device[m].api /\ device[m].weekOld /\ ~device[m].revoked /\ ~device[m].assigned
  /\ Happens("prune")
  /\ pruning' = m
  /\ UNCHANGED <<consoleVars, saved, proc>>

PruneForgets ==
  /\ pruning # NoMachine
  /\ Tokens(live \ LiveOf(pruning))
  /\ device' = [device EXCEPT ![pruning].revoked = TRUE]
  /\ pruning' = NoMachine
  /\ proc' = Overtaken(pruning, "forgotten")
  /\ UNCHANGED <<saved, happened>>

WindowExpires(m) ==
  /\ device[m].window = "open"
  /\ device' = [device EXCEPT ![m].window = "over"]
  /\ UNCHANGED <<minted, issued, live, saved, proc, pruning, happened>>

\* No request takes a week.
WeekPasses(m) ==
  /\ device[m].api /\ ~device[m].weekOld
  /\ \A p \in Process : At[p] = m => proc[p].pc \in {"off", "loop", "polling", "over"}
  /\ device' = [device EXCEPT ![m].weekOld = TRUE]
  /\ UNCHANGED <<minted, issued, live, saved, proc, pruning, happened>>

-----------------------------------------------------------------------------
Step(p) ==
  \/ Ask(p) \/ Enrol(p) \/ EnrolRefused(p) \/ SaveToken(p) \/ Reset(p)
  \/ Poll(p) \/ PollEnds(p) \/ Start(p)

Agent(p) == Step(p) \/ EnrolLost(p) \/ CallRefused(p) \/ Note(p) \/ Exit(p) \/ Crash(p)

Console(m) ==
  \/ AllowReenrol(m) \/ RevokeDeviceToken(m) \/ ForgetMachine(m)
  \/ BindMachine(m) \/ ImportStatus(m) \/ PruneLooks(m)
  \/ WindowExpires(m) \/ WeekPasses(m)

Next ==
  \/ \E p \in Process : Agent(p)
  \/ \E m \in Machine : Console(m) \/ Wipe(m) \/ \E n \in Machine : Clone(m, n)
  \/ PruneForgets

Spec == Init /\ [][Next]_vars

\* The service is restarted when it dies, its loops run, and a cycle comes
\* round at least once an interval, so a refusal is heard.
Fairness ==
  /\ \A p \in Service : WF_vars(Step(p)) /\ WF_vars(CallRefused(p)) /\ WF_vars(Note(p))
  /\ WF_vars(PruneForgets)

-----------------------------------------------------------------------------
(* Correctness.                                                            *)

\* Every variable has its type, and a machine without a row has nothing that
\* would be in it.
TypeOK ==
  /\ device \in [Machine -> Device]
  /\ minted \in 0 .. MaxToken
  /\ issued \in [Token -> Machine \cup {NoMachine}]
  /\ live \subseteq 1 .. minted
  /\ \A t \in live : issued[t] \in Machine
  /\ saved \in [Machine -> Token \cup {NoToken}]
  /\ proc \in [Process -> Proc]
  /\ pruning \in Machine \cup {NoMachine}
  /\ happened \in 0 .. MaxEvents
  /\ \A m \in Machine : ~device[m].known => device[m] = NewDevice
  /\ pruning # NoMachine => device[pruning].known

\* However enrolments overlap, a machine has at most one live token: Issue
\* ends the others, and the lock of the device's row keeps two of them apart.
OneTokenPerMachine == \A t, u \in live : issued[t] = issued[u] => t = u

\* The pieces the invariants rest on.  A token in use was issued; a token works
\* only for a machine that the console knows.
TokensWereMinted ==
  /\ \A m \in Machine : saved[m] <= minted
  /\ \A p \in Process : proc[p].client <= minted /\ proc[p].reply <= minted
  /\ \A p \in Process : proc[p].pc \in {"granted", "saved"} => proc[p].reply # NoToken

LiveMachinesAreKnown == \A t \in live : device[issued[t]].known

\* What an enrolment under way has read of its row holds still where nothing
\* overtook it: until the machine is given a token no token appears, and none
\* but that takes a window away or takes a forgotten machine back.
ReadStillHolds ==
  \A p \in Process : proc[p].pc = "asking" =>
    /\ "issued" \notin proc[p].since =>
         /\ ~proc[p].before.known => LiveOf(At[p]) = {}
         /\ proc[p].before.window = "open" => device[At[p]].window # "none"
    /\ "forgotten" \notin proc[p].since /\ device[At[p]].revoked =>
         /\ proc[p].before.revoked
         /\ proc[p].before.window = "open" => device[At[p]].window # "none"

\* A machine has one token at most, and what else must hold for the steps to
\* keep it so.
EnrolmentInv == TypeOK /\ OneTokenPerMachine /\ TokensWereMinted /\ LiveMachinesAreKnown

\* An enrolment of m that is let in had read its row before that happened to m.
EnrolsLate(m, what) ==
  \E p \in Process :
    At[p] = m /\ proc[p].pc = "asking" /\ proc'[p].pc = "granted" /\ what \in proc[p].since

\* A token ends only because the administrator revoked it, because its machine
\* was pruned, because the machine enrolled through a window that was opened
\* for it (and may have closed behind it by the clock), or because two
\* enrolments of the machine overlapped, as those of `setup' and of the service
\* it started do: the one that read its row before the token was issued.  The
\* refused attempt of a machine that is known disturbs nobody.
TokensEndByConsent ==
  [][\A t \in live \ live' :
       \/ device[issued[t]].window # "none"
       \/ device'[issued[t]].window = "open"
       \/ device'[issued[t]].revoked
       \/ EnrolsLate(issued[t], "issued")]_vars

TakenBack(m) == device[m].revoked /\ ~device'[m].revoked

\* A machine that was forgotten or pruned is taken back only through a window,
\* or by an enrolment that had read its row already.
BackThroughAWindow ==
  [][\A m \in Machine :
       TakenBack(m) => device[m].window # "none" \/ EnrolsLate(m, "forgotten")]_vars

\* The machine of p has a token, and p is not the process that has it: another
\* one was let in.
LetInAnother(p) == LiveOf(At[p]) \ {proc[p].client, proc[p].reply} # {}

\* Once nothing happens any more, a service for whose machine a window is open
\* gets a token that works before the window is over, whatever it lost before
\* and whether or not it knew that it was locked out; unless another process of
\* the machine went through the window before it, which closes it.
AnOpenWindowLetsItIn ==
  \A p \in Service :
    (/\ device[At[p]].window = "open"
     /\ pruning # At[p]
     /\ happened = MaxEvents)
    ~> \/ SpeaksFor(proc[p].client, At[p])
       \/ device[At[p]].window = "over"
       \/ device[At[p]].window = "none" /\ LetInAnother(p)

\* A machine made from another's image, which starts with its token, finds out
\* by its first status report and enrols under its own name, if that is new.
ClonesBecomeThemselves ==
  \A p \in Service :
    (/\ proc[p].client # NoToken /\ issued[proc[p].client] # At[p]
     /\ ~device[At[p]].known
     /\ happened = MaxEvents)
    ~> proc[p].client \in LiveOf(At[p])

=============================================================================
