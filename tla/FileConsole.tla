---------------------------- MODULE FileConsole -----------------------------
(***************************************************************************)
(* The console without a database (admincore): the roster is one object    *)
(* that is read, changed and written back whole, an employee's token is on *)
(* the gateway and their archive in the bucket.  An operation makes one    *)
(* call after the other; operations on one employee exclude each other     *)
(* (lockProvision), those on different employees do not.                   *)
(***************************************************************************)
EXTENDS Naturals, FiniteSets

CONSTANTS
  Person, Request,
  Existing,     \* employees whose account was opened before
  Choice,       \* allowlists
  Retirable,    \* bound: models that the gateway may stop serving
  MaxOperation, \* bound: operations begun
  MaxFault      \* bound: calls that fail, and deaths of the process

FileConsoleAssumption ==
  /\ Existing \subseteq Person /\ Cardinality(Existing) <= 1 /\ Choice # {}
  /\ MaxOperation \in Nat /\ MaxFault \in Nat

VARIABLES
  roster,     \* admin/users.json
  user,       \* the gateway's user: the models it may use, if it has a list of them
  key,        \* the gateway's key under the employee's alias
  archive,    \* credentials.zip
  request,    \* what each request is doing
  issued,     \* tokens minted so far
  retired,    \* models that the gateway served before and does no longer
  result,     \* how the last operation on the employee's access ended
  overwritten,\* history: employees whose entry a stale roster was written over
  operations, faults

vars == <<roster, user, key, archive, request, issued, retired, result, overwritten, operations, faults>>
outside == <<user, key, archive>>

Entry == {"absent", "enabled", "disabled"}
NoModels == {}
NoUser == {"no user"}
Unlisted == {"any"}
NoToken == 0
Nothing == [token |-> NoToken, models |-> NoModels]
Access == [token : Nat, models : SUBSET (UNION Choice)]
NoRoster == [p \in Person |-> "absent"]
Resting == [pc |-> "idle", op |-> "none", who |-> "none", copy |-> NoRoster, models |-> NoModels, clean |-> TRUE]

Given == [token |-> 1, models |-> CHOOSE m \in Choice : TRUE]

Init ==
  /\ roster = [p \in Person |-> IF p \in Existing THEN "enabled" ELSE "absent"]
  /\ user = [p \in Person |-> IF p \in Existing THEN Given.models ELSE NoUser]
  /\ key = [p \in Person |-> IF p \in Existing THEN Given ELSE Nothing] /\ archive = key
  /\ request = [r \in Request |-> Resting]
  /\ issued = 1 /\ retired = {} /\ result = [p \in Person |-> "none"] /\ overwritten = {}
  /\ operations = 0 /\ faults = 0

\* Two requests for one employee at once, as without lockProvision.
SlipLockFree(p) == TRUE
LockFree(p) == \A r \in Request : request[r].who # p

\* What an operation begins with: those that change the roster load it.
FirstStep == [onboard |-> "load", offboard |-> "load", profile |-> "load", reissue |-> "active", models |-> "active"]

Begin(r, op, p, models) ==
  /\ request[r] = Resting /\ operations < MaxOperation
  /\ LockFree(p)
  /\ operations' = operations + 1
  /\ request' = [request EXCEPT ![r] = [Resting EXCEPT !.pc = FirstStep[op], !.op = op, !.who = p, !.models = models]]
  /\ UNCHANGED <<roster, outside, issued, result, overwritten, faults>>

Go(r, pc) == request' = [request EXCEPT ![r].pc = pc]

\* Only what issues or withdraws access says anything of it.
Settles(op) == op \in {"onboard", "offboard", "reissue"}
Finish(r, outcome) ==
  /\ request' = [request EXCEPT ![r] = Resting]
  /\ result' = IF Settles(request[r].op) \/ outcome = "error" THEN [result EXCEPT ![request[r].who] = outcome] ELSE result

At(r, pc) == request[r].pc = pc
Who(r) == request[r].who

-----------------------------------------------------------------------------
(* The steps. *)

\* LoadUsers; only onboarding adds an entry, a profile is an active employee's.
LoadUsers(r) ==
  LET p == Who(r) IN
  /\ At(r, "load")
  /\ IF request[r].op = "profile" /\ roster[p] # "enabled" THEN Finish(r, "error")
     ELSE IF request[r].op = "offboard" /\ roster[p] = "absent" THEN Go(r, "revoke") /\ UNCHANGED result
     ELSE /\ request' = [request EXCEPT ![r].pc = "save", ![r].copy = roster]
          /\ UNCHANGED result
  /\ UNCHANGED <<roster, outside, issued, overwritten, operations, faults>>

\* SaveUsers writes the whole roster as it was read, with one entry changed.
SaveUsers(r) ==
  LET p == Who(r)  copy == request[r].copy IN
  /\ At(r, "save")
  /\ roster' = [copy EXCEPT ![p] = IF request[r].op = "offboard" THEN "disabled" ELSE "enabled"]
  /\ overwritten' = overwritten \cup {q \in Person \ {p} : copy[q] # roster[q]}
  /\ IF request[r].op = "profile" THEN Finish(r, "ok")
     ELSE Go(r, IF request[r].op = "offboard" THEN "revoke" ELSE "user") /\ UNCHANGED result
  /\ UNCHANGED <<outside, issued, operations, faults>>

requireActive(r) ==
  LET p == Who(r) IN
  /\ At(r, "active")
  /\ IF roster[p] # "enabled" THEN Finish(r, "error")
     ELSE Go(r, IF request[r].op = "reissue" THEN "user" ELSE "key") /\ UNCHANGED result
  /\ UNCHANGED <<roster, outside, issued, overwritten, operations, faults>>

\* Models that are asked for must be served; of a list that is on record, those
\* are kept that are.
resolveAllowlist(models) == models \cap retired = {}
keepAvailable(models) == models \ retired

\* The list of a user is what a token is reissued for.
HasList(p) == user[p] \notin {NoUser, Unlisted}
Reissued(r) == keepAvailable(IF HasList(Who(r)) THEN user[Who(r)] ELSE request[r].models)

\* The default models are minted over those the user was given.
SlipUser(r) ==
  LET p == Who(r)  reissue == request[r].op = "reissue" IN
  /\ At(r, "user")
  /\ user' = [user EXCEPT ![p] = IF reissue THEN (IF @ = NoUser THEN Unlisted ELSE @) ELSE request[r].models]
  /\ Go(r, IF request[r].op = "models" THEN "update" ELSE "replace")
  /\ UNCHANGED <<roster, key, archive, issued, result, overwritten, operations, faults>>

\* Opening an account and choosing models set the list; reissuing leaves the user
\* as it is, or makes one without a list, and wants a model that is left.
ensureGatewayUser(r) ==
  LET p == Who(r)  reissue == request[r].op = "reissue" IN
  /\ At(r, "user")
  /\ IF \/ reissue /\ (roster[p] = "absent" \/ Reissued(r) = NoModels)
        \/ request[r].op = "onboard" /\ ~resolveAllowlist(request[r].models)
     THEN Finish(r, "error") /\ UNCHANGED user
     ELSE /\ user' = [user EXCEPT ![p] = IF reissue THEN (IF @ = NoUser THEN Unlisted ELSE @) ELSE request[r].models]
          /\ request' = [request EXCEPT ![r].models = IF reissue THEN Reissued(r) ELSE @,
                                        ![r].pc = IF request[r].op = "models" THEN "update" ELSE "replace"]
          /\ UNCHANGED result
  /\ UNCHANGED <<roster, key, archive, issued, overwritten, operations, faults>>

\* Onboarding reads the roster and the catalog again before it touches the key.
DeletePrevious(r) ==
  LET p == Who(r) IN
  /\ At(r, "replace")
  /\ IF request[r].op = "onboard" /\ (roster[p] = "absent" \/ ~resolveAllowlist(request[r].models))
     THEN Finish(r, "error") /\ UNCHANGED key
     ELSE /\ key' = [key EXCEPT ![p] = Nothing]
          /\ Go(r, "mint") /\ UNCHANGED result
  /\ UNCHANGED <<roster, user, archive, issued, overwritten, operations, faults>>

GenerateKey(r) ==
  LET p == Who(r) IN
  /\ At(r, "mint")
  /\ key[p] = Nothing
  /\ issued' = issued + 1
  /\ key' = [key EXCEPT ![p] = [token |-> issued + 1, models |-> request[r].models]]
  /\ Go(r, "publish")
  /\ UNCHANGED <<roster, user, archive, result, overwritten, operations, faults>>

\* The alias is taken: another operation has minted since.
AliasTaken(r) ==
  /\ At(r, "mint") /\ key[Who(r)] # Nothing
  /\ Finish(r, "error")
  /\ UNCHANGED <<roster, outside, issued, overwritten, operations, faults>>

\* PublishCredentials merges into the archive; it too wants a roster entry.
PublishCredentials(r) ==
  LET p == Who(r) IN
  /\ At(r, "publish")
  /\ IF roster[p] = "absent"
     THEN /\ IF request[r].op = "models" THEN Finish(r, "error") ELSE Go(r, "withdraw") /\ UNCHANGED result
          /\ UNCHANGED archive
     ELSE /\ archive' = [archive EXCEPT ![p] = [token |-> IF request[r].op = "models" THEN @.token ELSE key[p].token,
                                                models |-> request[r].models]]
          /\ Finish(r, "ok")
  /\ UNCHANGED <<roster, user, key, issued, overwritten, operations, faults>>

\* Nothing live is left unreferenced; that deleting fails goes unnoticed.
WithdrawToken(r) ==
  /\ At(r, "withdraw")
  /\ key' = [key EXCEPT ![Who(r)] = Nothing]
  /\ Finish(r, "error")
  /\ UNCHANGED <<roster, user, archive, issued, overwritten, operations, faults>>

\* SetModels: the token must be there; then the user, the token and the catalog.
FindKey(r) ==
  /\ At(r, "key")
  /\ IF roster[Who(r)] = "absent" \/ key[Who(r)] = Nothing \/ ~resolveAllowlist(request[r].models)
     THEN Finish(r, "error")
     ELSE Go(r, IF user[Who(r)] = NoUser THEN "update" ELSE "user") /\ UNCHANGED result
  /\ UNCHANGED <<roster, outside, issued, overwritten, operations, faults>>

UpdateKey(r) ==
  LET p == Who(r) IN
  /\ At(r, "update")
  /\ key' = [key EXCEPT ![p] = IF @ = Nothing THEN Nothing ELSE [@ EXCEPT !.models = request[r].models]]
  /\ Go(r, "publish")
  /\ UNCHANGED <<roster, user, archive, issued, result, overwritten, operations, faults>>

\* Offboard goes on after a step that failed, and says so at the end.
Revoke(r) ==
  /\ At(r, "revoke")
  /\ key' = [key EXCEPT ![Who(r)] = Nothing]
  /\ Go(r, "files")
  /\ UNCHANGED <<roster, user, archive, issued, result, overwritten, operations, faults>>

WithdrawFiles(r) ==
  /\ At(r, "files")
  /\ archive' = [archive EXCEPT ![Who(r)] = Nothing]
  /\ Finish(r, IF request[r].clean THEN "ok" ELSE "error")
  /\ UNCHANGED <<roster, user, key, issued, overwritten, operations, faults>>

-----------------------------------------------------------------------------
(* Faults. *)

\* A call fails before it has an effect; what follows depends on the call.
CallFails(r) ==
  /\ ~At(r, "idle") /\ faults < MaxFault
  /\ faults' = faults + 1
  /\ IF At(r, "revoke")
       THEN request' = [request EXCEPT ![r].pc = "files", ![r].clean = FALSE] /\ UNCHANGED result
     ELSE IF At(r, "publish") /\ request[r].op # "models" THEN Go(r, "withdraw") /\ UNCHANGED result
     ELSE Finish(r, "error")
  /\ UNCHANGED <<roster, outside, issued, overwritten, operations>>

\* The call was carried out and its answer was lost.
AnswerLost(r) ==
  LET p == Who(r) IN
  /\ ~At(r, "idle") /\ faults < MaxFault /\ faults' = faults + 1
  /\ roster[p] # "absent"
  /\ \/ /\ At(r, "replace")
        /\ key' = [key EXCEPT ![p] = Nothing]
        /\ Finish(r, "error") /\ UNCHANGED <<archive, issued>>
     \/ /\ At(r, "mint") /\ key[p] = Nothing
        /\ issued' = issued + 1
        /\ key' = [key EXCEPT ![p] = [token |-> issued + 1, models |-> request[r].models]]
        /\ Finish(r, "error") /\ UNCHANGED archive
     \/ /\ At(r, "publish") /\ request[r].op # "models"
        /\ archive' = [archive EXCEPT ![p] = [token |-> key[p].token, models |-> request[r].models]]
        /\ Go(r, "withdraw") /\ UNCHANGED <<key, issued, result>>
  /\ UNCHANGED <<roster, user, overwritten, operations>>

\* The process dies with all its requests.
Dies ==
  /\ \E r \in Request : request[r] # Resting
  /\ faults < MaxFault
  /\ faults' = faults + 1
  /\ result' = [p \in Person |-> IF \E r \in Request : Who(r) = p THEN "died" ELSE result[p]]
  /\ request' = [r \in Request |-> Resting]
  /\ UNCHANGED <<roster, outside, issued, overwritten, operations>>

\* The gateway stops serving a model.
Retire ==
  /\ \E m \in Retirable \ retired : retired' = retired \cup {m}
  /\ UNCHANGED <<roster, outside, request, issued, result, overwritten, operations, faults>>

Operate ==
  \/ \E r \in Request, p \in Person, models \in Choice :
       Begin(r, "onboard", p, models) \/ Begin(r, "models", p, models)
  \/ \E r \in Request, p \in Person :
       \/ Begin(r, "offboard", p, NoModels) \/ Begin(r, "profile", p, NoModels)
       \/ Begin(r, "reissue", p, UNION Choice)
  \/ \E r \in Request :
       \/ LoadUsers(r) \/ SaveUsers(r) \/ requireActive(r) \/ ensureGatewayUser(r) \/ DeletePrevious(r)
       \/ GenerateKey(r) \/ AliasTaken(r) \/ PublishCredentials(r) \/ WithdrawToken(r)
       \/ FindKey(r) \/ UpdateKey(r) \/ Revoke(r) \/ WithdrawFiles(r)
       \/ CallFails(r) \/ AnswerLost(r)
  \/ Dies
Next == (Operate /\ UNCHANGED retired) \/ Retire

Spec == Init /\ [][Next]_vars

-----------------------------------------------------------------------------
TypeOK ==
  /\ roster \in [Person -> Entry]
  /\ user \in [Person -> (SUBSET (UNION Choice)) \cup {NoUser, Unlisted}]
  /\ key \in [Person -> Access] /\ archive \in [Person -> Access]
  /\ request \in [Request -> [pc : {"idle", "load", "save", "active", "key", "user", "update", "replace", "mint",
                                    "publish", "withdraw", "revoke", "files"},
                              op : {"none", "onboard", "offboard", "profile", "reissue", "models"},
                              who : Person \cup {"none"}, copy : [Person -> Entry],
                              models : SUBSET (UNION Choice), clean : BOOLEAN]]
  /\ issued \in Nat
  /\ result \in [Person -> {"none", "ok", "error", "died"}] /\ overwritten \subseteq Person

Quiet(p) == LockFree(p)

\* Whatever failed before: once opening, reissuing or closing an account is
\* reported as done and nobody works on it, the token on the gateway is the one
\* delivered ("a delivery failure withdraws the token just minted so nothing live is
\* left unreferenced"), and its models are those of its user's list, but for models
\* that the gateway has stopped serving: reissuing leaves those out and the list alone.
Covers(p, models) == models \subseteq user[p] /\ user[p] \ models \subseteq retired
Delivered(p) == key[p] = archive[p] /\ (key[p] # Nothing /\ HasList(p) => Covers(p, key[p].models))
DoneMeansDelivered == \A p \in Person : Quiet(p) /\ result[p] = "ok" => Delivered(p)

\* Somebody whose account is closed has no token and no files, but for failures
\* that were reported, and unless another roster was written over the closing.
Closed(p) == roster[p] = "disabled" /\ p \notin overwritten
ShutOut(p) == key[p] = Nothing /\ archive[p] = Nothing
LeaversAreShutOut == \A p \in Person : Quiet(p) /\ Closed(p) /\ result[p] = "ok" => ShutOut(p)

\* Why: what an operation has left to be as it was reported, and what it has done so
\* far of what it will report.  Changing models keeps the last report, so that the
\* token it finds must be the delivered one.
AsReported(p) == result[p] = "ok" => Delivered(p) /\ (Closed(p) => ShutOut(p))
Fits(pc, op) ==
  /\ pc \in {"load", "save"} => op \in {"onboard", "offboard", "profile"}
  /\ pc = "active" => op \in {"reissue", "models"}
  /\ pc \in {"key", "update"} => op = "models"
  /\ pc \in {"user", "publish"} => op \in {"onboard", "reissue", "models"}
  /\ pc \in {"replace", "mint", "withdraw"} => op \in {"onboard", "reissue"}
  /\ pc \in {"revoke", "files"} => op = "offboard"
SoFar(r) ==
  LET p == Who(r)  pc == request[r].pc  op == request[r].op  models == request[r].models IN
  /\ p \in Person /\ Fits(pc, op)
  /\ pc \in {"load", "save", "active", "key", "user"} => AsReported(p)
  /\ pc \in {"key", "user", "update", "replace", "mint", "publish"} => ~Closed(p)
  /\ pc \in {"replace", "mint", "publish"} /\ op # "models" => (HasList(p) => Covers(p, models))
  /\ pc = "publish" => key[p].models = models
  /\ pc \in {"user", "update"} /\ op = "models" => key[p] # Nothing
  /\ pc \in {"update", "publish"} /\ op = "models" =>
       user[p] \in {NoUser, models} /\ (result[p] = "ok" => key[p].token = archive[p].token)
  /\ pc = "files" /\ request[r].clean => key[p] = Nothing
Busy(r) == ~At(r, "idle")
RosterInv ==
  /\ TypeOK
  /\ \A r \in Request : Busy(r) => SoFar(r)
  /\ \A r1, r2 \in Request : Busy(r1) /\ Busy(r2) /\ Who(r1) = Who(r2) => r1 = r2
  /\ \A p \in Person : (\A r \in Request : Busy(r) => Who(r) # p) => AsReported(p)
=============================================================================
