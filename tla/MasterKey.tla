----------------------------- MODULE MasterKey -----------------------------
(***************************************************************************)
(* Changing the master key: the key file (secrets/secrets.go), the command *)
(* that re-seals what is stored (migrate/rekey.go, secrets/rekey.go) and   *)
(* drops keys from the file, beside a console that keeps sealing.          *)
(*                                                                         *)
(* The operator follows docs/superpowers/plans/2026-09-21-usage-alerts-    *)
(* rotation.md:38: a new key, a restart of the console, the command.  What *)
(* is sealed opens with the key of its version and no other; bytes and     *)
(* associated data are left out.  There is one administrator's seed and    *)
(* one channel secret.                                                     *)
(*                                                                         *)
(* A definition marked "Slip" is not part of the model: it is what a       *)
(* plausible mistake would make of the definition after it.                *)
(***************************************************************************)
EXTENDS Naturals

CONSTANTS
  Credential,  \* rows that credential_versions can have
  MaxKey,      \* bound: key versions
  MaxSeal,     \* bound: seeds and channel secrets that are set
  MaxFault     \* bound: commands that are interrupted

MasterKeyAssumption == MaxKey \in Nat \ {0} /\ MaxSeal \in Nat /\ MaxFault \in Nat

VARIABLES
  file,       \* the key file: current, keys, and whether its writing was cut short
  backup,     \* the keys of its .bak
  ring,       \* the keys the console has loaded
  credential, \* credential_versions
  seed,       \* the seed in admin_principals, with the key it is sealed under
  secret,     \* the channel secret in settings, with the version of the setting
  rekey,      \* the command
  seals, faults   \* counters for the bounds

vars == <<file, backup, ring, credential, seed, secret, rekey, seals, faults>>
files == <<file, backup>>
rows == <<credential, seed, secret>>

NoKey == 0
NoCommand == [step |-> "none", current |-> NoKey, keys |-> {}, due |-> {}, seed |-> [of |-> 0, key |-> NoKey],
              secret |-> [key |-> NoKey, version |-> 0], referenced |-> {}]

Init ==
  /\ file = [current |-> 1, keys |-> {1}, torn |-> FALSE]
  /\ backup = {}
  /\ ring = [current |-> 1, keys |-> {1}]
  /\ credential = [c \in Credential |-> [state |-> "none", key |-> NoKey]]
  /\ seed = [of |-> 0, key |-> NoKey]
  /\ secret = [key |-> NoKey, version |-> 0]
  /\ rekey = NoCommand
  /\ seals = 0 /\ faults = 0

\* NewFileKeyring
Load == [current |-> file.current, keys |-> file.keys]
Opens(keys, key) == key \in keys

-----------------------------------------------------------------------------
(* The operator and the console                                            *)

AddKey ==
  /\ rekey = NoCommand /\ ~file.torn
  /\ file.current < MaxKey
  /\ file' = [file EXCEPT !.current = @ + 1, !.keys = @ \cup {file.current + 1}]
  /\ UNCHANGED <<backup, ring, rows, rekey, seals, faults>>

RestartConsole ==
  /\ ~file.torn /\ ring # Load
  /\ ring' = Load
  /\ UNCHANGED <<files, rows, rekey, seals, faults>>

RestoreBackup ==
  /\ file.torn
  /\ file' = [file EXCEPT !.keys = backup, !.torn = FALSE]
  /\ UNCHANGED <<backup, ring, rows, rekey, seals, faults>>

Seal == ring.current

IssueCredential(c) ==
  /\ credential[c].state = "none"
  /\ credential' = [credential EXCEPT ![c] = [state |-> "live", key |-> Seal]]
  /\ UNCHANGED <<files, ring, seed, secret, rekey, seals, faults>>

Retire(c) ==
  /\ credential[c].state = "live"
  /\ credential' = [credential EXCEPT ![c].state = "retired"]
  /\ UNCHANGED <<files, ring, seed, secret, rekey, seals, faults>>

SetTOTP ==
  /\ seals < MaxSeal /\ seals' = seals + 1
  /\ seed' = [of |-> seals', key |-> Seal]
  /\ UNCHANGED <<files, ring, credential, secret, rekey, faults>>

SaveChannel ==
  /\ seals < MaxSeal /\ seals' = seals + 1
  /\ secret' = [key |-> Seal, version |-> secret.version + 1]
  /\ UNCHANGED <<files, ring, credential, seed, rekey, faults>>

-----------------------------------------------------------------------------
(* The command                                                             *)

At(step) == rekey.step = step

\* main.go loads the file; the console has been restarted with it.
Start ==
  /\ rekey = NoCommand /\ ~file.torn
  /\ ring = Load
  /\ rekey' = [NoCommand EXCEPT !.step = "list", !.current = file.current, !.keys = file.keys]
  /\ UNCHANGED <<files, ring, rows, seals, faults>>

NotSealedWith(key) == {c \in Credential : credential[c].state = "live" /\ credential[c].key # key}

ListCredentials ==
  /\ At("list")
  /\ rekey' = IF NotSealedWith(rekey.current) = {}
              THEN [rekey EXCEPT !.step = "seed", !.seed = seed]
              ELSE [rekey EXCEPT !.step = "reseal", !.due = NotSealedWith(rekey.current)]
  /\ UNCHANGED <<files, ring, rows, seals, faults>>

\* One transaction for what was listed, by row.
Reseal ==
  /\ At("reseal")
  /\ \A c \in rekey.due : Opens(rekey.keys, credential[c].key)
  /\ credential' = [c \in Credential |->
       IF c \in rekey.due THEN [credential[c] EXCEPT !.key = rekey.current] ELSE credential[c]]
  /\ rekey' = [rekey EXCEPT !.step = "list", !.due = {}]
  /\ UNCHANGED <<files, ring, seed, secret, seals, faults>>

\* What was read is sealed anew and written by the row's id.
ResealTOTP ==
  /\ At("seed")
  /\ IF rekey.seed.key \in {NoKey, rekey.current} THEN UNCHANGED seed
     ELSE /\ Opens(rekey.keys, rekey.seed.key)
          /\ seed' = [of |-> rekey.seed.of, key |-> rekey.current]
  /\ rekey' = [rekey EXCEPT !.step = "setting", !.secret = secret]
  /\ UNCHANGED <<files, ring, credential, secret, seals, faults>>

\* A setting that changed meanwhile ends the command.
ResealSettings ==
  /\ At("setting")
  /\ IF rekey.secret.key \in {NoKey, rekey.current}
       THEN rekey' = [rekey EXCEPT !.step = "referenced"] /\ UNCHANGED secret
     ELSE IF Opens(rekey.keys, rekey.secret.key) /\ secret.version = rekey.secret.version
       THEN /\ secret' = [key |-> rekey.current, version |-> secret.version + 1]
            /\ rekey' = [rekey EXCEPT !.step = "referenced"]
     ELSE rekey' = NoCommand /\ UNCHANGED secret
  /\ UNCHANGED <<files, ring, credential, seed, seals, faults>>

\* Of retired credentials too; three queries, the first of them counts most.
SlipReferenced ==
  {credential[c].key : c \in {d \in Credential : credential[d].state = "live"}}
    \cup ({seed.key, secret.key} \ {NoKey})
Referenced ==
  {credential[c].key : c \in {d \in Credential : credential[d].state # "none"}}
    \cup ({seed.key, secret.key} \ {NoKey})

referencedKeyVersions ==
  /\ At("referenced")
  /\ rekey' = [rekey EXCEPT !.step = "prune", !.referenced = Referenced]
  /\ UNCHANGED <<files, ring, rows, seals, faults>>

\* With -prune-unused.  The copy first, then the file, neither by renaming.
PruneKeyFile ==
  LET keep == {file.current} \cup rekey.referenced IN
  /\ At("prune")
  /\ IF rekey.referenced \subseteq file.keys /\ ~file.keys \subseteq keep
       THEN backup' = file.keys /\ rekey' = [rekey EXCEPT !.step = "write"]
       ELSE UNCHANGED backup /\ rekey' = NoCommand
  /\ UNCHANGED <<file, ring, rows, seals, faults>>

WriteFile ==
  /\ At("write")
  /\ file' = [file EXCEPT !.keys = @ \cap ({file.current} \cup rekey.referenced)]
  /\ rekey' = NoCommand
  /\ UNCHANGED <<backup, ring, rows, seals, faults>>

\* Without the flag, interrupted, or cut off while it writes.
Stops ==
  /\ rekey # NoCommand
  /\ faults < MaxFault /\ faults' = faults + 1
  /\ rekey' = NoCommand
  /\ \/ UNCHANGED file
     \/ At("write") /\ file' = [file EXCEPT !.torn = TRUE]
  /\ UNCHANGED <<backup, ring, rows, seals>>

-----------------------------------------------------------------------------
Next ==
  \/ AddKey \/ RestartConsole \/ RestoreBackup
  \/ \E c \in Credential : IssueCredential(c) \/ Retire(c)
  \/ SetTOTP \/ SaveChannel
  \/ Start \/ ListCredentials \/ Reseal \/ ResealTOTP \/ ResealSettings
  \/ referencedKeyVersions \/ PruneKeyFile \/ WriteFile \/ Stops

Spec == Init /\ [][Next]_vars

-----------------------------------------------------------------------------
TypeOK ==
  /\ file \in [current : Nat, keys : SUBSET Nat, torn : BOOLEAN]
  /\ backup \subseteq Nat
  /\ ring \in [current : Nat, keys : SUBSET Nat]
  /\ credential \in [Credential -> [state : {"none", "live", "retired"}, key : Nat]]
  /\ seed \in [of : Nat, key : Nat]
  /\ secret \in [key : Nat, version : Nat]
  /\ rekey \in [step : {"none", "list", "reseal", "seed", "setting", "referenced", "prune", "write"},
                current : Nat, keys : SUBSET Nat, due : SUBSET Credential, seed : [of : Nat, key : Nat],
                secret : [key : Nat, version : Nat], referenced : SUBSET Nat]
  /\ seals \in Nat

Needed == Referenced \cup {credential[c].key : c \in {d \in Credential : credential[d].state = "retired"}}
KeysAtHand == IF file.torn THEN backup ELSE file.keys

\* secrets.go:90: dropping a key makes a row unreadable for ever.  Whatever is stored,
\* retired credentials included, the file or the copy beside it has its key.
KeysAreNeverLost == Needed \subseteq KeysAtHand

\* Why: the console seals with a key it has at hand.  While the command runs the
\* file stays as it was read and the console uses it, so that what is sealed after the
\* command has looked is sealed under the key that it keeps.
KeyInv ==
  /\ TypeOK
  /\ KeysAreNeverLost
  /\ ring.current \in KeysAtHand
  /\ ~file.torn => file.current \in file.keys
  /\ file.torn => file.current \in backup /\ rekey = NoCommand
  /\ rekey # NoCommand =>
       /\ ring.current = file.current
       /\ rekey.current = file.current
  /\ rekey.step = "prune" \/ rekey.step = "write" => Needed \subseteq {file.current} \cup rekey.referenced
  /\ rekey.step = "write" => backup = file.keys
=============================================================================
