------------------------------ MODULE Profile -------------------------------
(***************************************************************************)
(* One employee's .codex directory: the agent delivers a package into it   *)
(* file by file (creds/deploy.go) and ends a running Codex when the token  *)
(* has moved, while the employee edits config.toml and uses Codex.         *)
(***************************************************************************)
EXTENDS CodexConfig

CONSTANTS
  Token, Model,   \* strings
  Own,            \* the lines an employee writes
  MaxPackage,     \* bound: packages published
  MaxEdit,        \* bound: edits
  MaxFault        \* bound: writes that fail, and restarts of the agent

ProfileAssumption ==
  /\ Token \subseteq STRING /\ Model \subseteq STRING /\ Model # {}
  /\ MaxPackage \in Nat /\ MaxEdit \in Nat /\ MaxFault \in Nat

VARIABLES
  package,    \* what the console has published
  published,  \* counter for the bound
  file,       \* config.toml; the empty sequence is no file
  catalog,    \* the models in models.json
  mark,       \* creds marker: the package delivered last
  delivery,   \* the delivery under way
  session,    \* the token of the running Codex
  cut,        \* history: a delivery was cut short after config.toml was written
  edits, faults

vars == <<package, published, file, catalog, mark, delivery, session, cut, edits, faults>>

NoToken == ""
NoPackage == [token |-> NoToken, models |-> {}, n |-> 0]
Package == {NoPackage} \cup [token : Token, models : (SUBSET Model) \ {{}}, n : 1 .. MaxPackage]

\* todo are the entries not yet written, cred is CredentialChanged.
Idle == [pc |-> "idle", of |-> NoPackage, todo |-> {}, cred |-> FALSE]
Entry == {"config.toml", "models.json"}

\* The order of models in the package is sorted; the first is the default.
DefaultModel(models) == CHOOSE m \in models : TRUE

Merged(p, f) ==
  mergeCodexConfigKeeping(f, RenderGatewayConfig(DefaultModel(p.models), p.token), p.models)

Init ==
  /\ package = NoPackage /\ published = 0
  /\ file = <<>> /\ catalog = {} /\ mark = NoPackage
  /\ delivery = Idle /\ session = NoToken /\ cut = FALSE
  /\ edits = 0 /\ faults = 0

\* A new token, or other models with the same token.
Publish(token, models) ==
  /\ published < MaxPackage
  /\ published' = published + 1
  /\ package' = [token |-> token, models |-> models, n |-> published + 1]
  /\ UNCHANGED <<file, catalog, mark, delivery, session, cut, edits, faults>>

-----------------------------------------------------------------------------
(* The agent. *)

\* A package that is not the one of the marker is fetched and unpacked.
Fetch ==
  /\ delivery = Idle
  /\ package # NoPackage /\ package # mark
  /\ delivery' = [pc |-> "write", of |-> package, todo |-> Entry, cred |-> FALSE]
  /\ UNCHANGED <<package, published, file, catalog, mark, session, cut, edits, faults>>

WriteConfig ==
  LET payload == Merged(delivery.of, file) IN
  /\ delivery.pc = "write" /\ "config.toml" \in delivery.todo
  /\ file' = payload
  /\ delivery' = [delivery EXCEPT !.todo = @ \ {"config.toml"},
                                  !.cred = GatewayIdentity(file) # GatewayIdentity(payload)]
  /\ UNCHANGED <<package, published, catalog, mark, session, cut, edits, faults>>

WriteModels ==
  /\ delivery.pc = "write" /\ "models.json" \in delivery.todo
  /\ catalog' = delivery.of.models
  /\ delivery' = [delivery EXCEPT !.todo = @ \ {"models.json"}]
  /\ UNCHANGED <<package, published, file, mark, session, cut, edits, faults>>

\* The cycle reports the error and goes on; what was written stays.
WriteFails ==
  /\ delivery.pc = "write" /\ delivery.todo # {}
  /\ faults < MaxFault
  /\ faults' = faults + 1
  /\ delivery' = Idle
  /\ cut' = (cut \/ delivery.cred)
  /\ UNCHANGED <<package, published, file, catalog, mark, session, edits>>

writeCredsMark ==
  /\ delivery.pc = "write" /\ delivery.todo = {}
  /\ mark' = delivery.of
  /\ delivery' = IF delivery.cred THEN [delivery EXCEPT !.pc = "stop"] ELSE Idle
  /\ UNCHANGED <<package, published, file, catalog, session, cut, edits, faults>>

StopCodex ==
  /\ delivery.pc = "stop"
  /\ session' = NoToken
  /\ cut' = FALSE
  /\ delivery' = Idle
  /\ UNCHANGED <<package, published, file, catalog, mark, edits, faults>>

RestartAgent ==
  /\ delivery # Idle
  /\ faults < MaxFault
  /\ faults' = faults + 1
  /\ delivery' = Idle
  /\ cut' = (cut \/ delivery.cred)
  /\ UNCHANGED <<package, published, file, catalog, mark, session, edits>>

-----------------------------------------------------------------------------
(* The employee. *)

Edit(f) ==
  /\ edits < MaxEdit
  /\ edits' = edits + 1
  /\ file' = f
  /\ UNCHANGED <<package, published, catalog, mark, delivery, session, cut, faults>>

Insert(i, line) == Edit(SubSeq(file, 1, i - 1) \o <<line>> \o SubSeq(file, i, Len(file)))
Delete(i) == Edit(SubSeq(file, 1, i - 1) \o SubSeq(file, i + 1, Len(file)))

\* Codex writes the model that is picked.
PickModel(m) ==
  /\ session # NoToken /\ edits < MaxEdit
  /\ rootStringValue(file, "model") \notin {"", m}
  /\ Edit(setRootString(file, "model", m))

\* Codex starts if it can read its file, and keeps the token it has read.
StartCodex ==
  /\ session = NoToken
  /\ IsToml(file)
  /\ \E line \in Range(file) :
       /\ line.name = "experimental_bearer_token"
       /\ <<codexManagedTable, line.name, <<line>>>> \in Meaning(file)
       /\ session' = line.value
  /\ cut' = FALSE
  /\ UNCHANGED <<package, published, file, catalog, mark, delivery, edits, faults>>

Next ==
  \/ \E t \in Token, ms \in (SUBSET Model) \ {{}} : Publish(t, ms)
  \/ Fetch \/ WriteConfig \/ WriteModels \/ WriteFails \/ writeCredsMark \/ StopCodex \/ RestartAgent
  \/ \E i \in 1 .. Len(file) + 1, line \in Own : Insert(i, line)
  \/ \E i \in DOMAIN file : Delete(i)
  \/ \E m \in Model : PickModel(m)
  \/ StartCodex

Spec == Init /\ [][Next]_vars

-----------------------------------------------------------------------------
TypeOK ==
  /\ package \in Package /\ mark \in Package /\ delivery.of \in Package
  /\ catalog \subseteq Model /\ session \in Token \cup {NoToken}

\* Whatever the employee has made of the file, the second delivery of a
\* package leaves a file that every further one writes again: it stops growing,
\* and the agent takes no further delivery for a change.  The first already
\* does if the file closes every value it opens.
MergeSettles ==
  package # NoPackage =>
    \E once \in {Merged(package, file)} : \E twice \in {Merged(package, once)} :
       /\ Closed(file) => twice = once
       /\ Merged(package, twice) = twice

\* What is said of the merge: "redelivering the same package writes the same
\* bytes and is not mistaken for a change" (codextoml.go:74).
RedeliveryChangesNothing ==
  package # NoPackage => LET once == Merged(package, file) IN Merged(package, once) = once

\* A delivery changes nothing an employee has set: the merged file means what
\* the employee's file meant, with the managed settings replaced.
SettingsSurvive ==
  package # NoPackage /\ IsToml(file) =>
    LET merged == Merged(package, file) IN
    /\ IsToml(merged)
    /\ Meaning(merged) = MergedMeaning(file, DefaultModel(package.models), package.token, package.models)

\* Once a package is delivered nobody's Codex goes on with an older token,
\* unless the delivery was cut short between the file and the stop.
NobodyKeepsAnOldToken ==
  delivery = Idle /\ mark = package /\ session # NoToken /\ ~cut => session = package.token
=============================================================================
