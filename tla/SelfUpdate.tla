----------------------------- MODULE SelfUpdate -----------------------------
(***************************************************************************)
(* How the agent is replaced on disk (cmd/agent/updater_windows.go) by a   *)
(* helper that stops the service, swaps two files and starts the service   *)
(* again (internal/winsvc/service_windows.go), with a machine that may     *)
(* lose its power at any step.                                             *)
(*                                                                         *)
(* A definition marked "Slip" is not part of the model: it is what a       *)
(* plausible mistake would make of the definition after it.                *)
(***************************************************************************)
EXTENDS Naturals

CONSTANTS
  MaxUpdate,   \* bound: updates
  MaxFault     \* bound: steps that fail, and power cuts

SelfUpdateAssumption == MaxUpdate \in Nat /\ MaxFault \in Nat

VARIABLES
  current,   \* the image at agent.exe: 0 is none, a later one has a higher number
  staged,    \* agent.exe.new
  backup,    \* agent.exe.old
  service,   \* as the service manager sees it
  helper,    \* the copy of the agent that does the work
  seen,      \* history: the images that have run as the service
  faults     \* counter for the bound

vars == <<current, staged, backup, service, helper, seen, faults>>
files == <<current, staged, backup>>

Image == 0 .. MaxUpdate + 1

Init ==
  /\ current = 1 /\ staged = 0 /\ backup = 0
  /\ service = "running"
  /\ helper = "none"
  /\ seen = {1}
  /\ faults = 0

Fault == faults < MaxFault /\ faults' = faults + 1

\* The service is up, from the image in place.
Up ==
  /\ current # 0
  /\ service' = "running"
  /\ seen' = seen \cup {current}

\* ApplyUpdate stages the image and starts the helper, or leaves nothing behind.
ApplyUpdate ==
  /\ service = "running" /\ helper = "none"
  /\ current <= MaxUpdate
  /\ staged' = current + 1
  /\ helper' = "stop"
  /\ UNCHANGED <<current, backup, service, seen, faults>>

\* StopAndWait asks the service to stop and looks until it has.
StopAndWait ==
  /\ helper = "stop"
  /\ \/ service' = "stopped" /\ helper' = "aside" /\ UNCHANGED faults
     \/ Fault /\ helper' = "none" /\ service' \in {"running", "stopped"}
  /\ UNCHANGED <<files, seen>>

\* The running image is moved out of the way, which may not succeed in a minute.
MoveAside ==
  /\ helper = "aside"
  /\ \/ /\ backup' = current /\ current' = 0
        /\ helper' = "swap"
        /\ UNCHANGED faults
     \/ Fault /\ helper' = "restart" /\ UNCHANGED <<current, backup>>
  /\ UNCHANGED <<staged, service, seen>>

\* The new image takes its place; if it cannot, the old one is moved back, and
\* whether that succeeds is not looked at.
MoveInPlace ==
  /\ helper = "swap"
  /\ \/ /\ current' = staged /\ staged' = 0
        /\ helper' = "start"
        /\ UNCHANGED <<backup, faults>>
     \/ /\ Fault
        /\ \/ current' = backup /\ backup' = 0
           \/ UNCHANGED <<current, backup>>
        /\ helper' = "restart"
        /\ UNCHANGED staged
  /\ UNCHANGED <<service, seen>>

\* The start is asked for, nobody waits for it.
SlipStartAndWait ==
  /\ helper \in {"start", "restart"}
  /\ helper' = IF helper = "start" THEN "clean" ELSE "none"
  /\ \/ Up /\ UNCHANGED faults
     \/ Fault /\ UNCHANGED <<service, seen>>
  /\ UNCHANGED files

\* StartAndWait: asked for, and waited for.  When it fails, as it does with no
\* image in place, the backup stays.
StartAndWait ==
  /\ helper \in {"start", "restart"}
  /\ \/ /\ Up
        /\ helper' = IF helper = "start" THEN "clean" ELSE "none"
        /\ UNCHANGED faults
     \/ /\ IF current = 0 THEN UNCHANGED faults ELSE Fault
        /\ helper' = "none"
        /\ UNCHANGED <<service, seen>>
  /\ UNCHANGED files

\* removeUpdateBackup, which may give up on a file that is held.
RemoveBackup ==
  /\ helper = "clean"
  /\ helper' = "none"
  /\ \/ backup' = 0 /\ UNCHANGED faults
     \/ Fault /\ UNCHANGED backup
  /\ UNCHANGED <<current, staged, service, seen>>

\* cleanupUpdateHelpers, when the service has started.
Cleanup ==
  /\ service = "running" /\ backup # 0
  /\ backup' = 0
  /\ UNCHANGED <<current, staged, service, helper, seen, faults>>

PowerCut ==
  /\ Fault
  /\ service' = "stopped"
  /\ helper' = "none"
  /\ UNCHANGED <<files, seen>>

\* The service starts with the machine, or by an administrator's hand.
Boot ==
  /\ service = "stopped" /\ helper = "none"
  /\ Up
  /\ UNCHANGED <<files, helper, faults>>

Next ==
  \/ ApplyUpdate \/ StopAndWait \/ MoveAside \/ MoveInPlace \/ StartAndWait
  \/ RemoveBackup \/ Cleanup \/ PowerCut \/ Boot

Spec == Init /\ [][Next]_vars

TypeOK ==
  /\ current \in Image /\ staged \in Image /\ backup \in Image
  /\ service \in {"running", "stopped"}
  /\ helper \in {"none", "stop", "aside", "swap", "start", "restart", "clean"}
  /\ seen \subseteq Image /\ faults \in 0 .. MaxFault

\* service_windows.go:94: "callers replacing the service image must not delete
\* their rollback copy before the new process is actually up."  Whatever fails,
\* an image that has run before is on the disk.
RollbackCopyKept == {current, backup} \cap seen # {}

\* Why: what runs has run; the image that is moved aside has run, and so has the
\* one started anew, or its copy; and while the new one is untried the service is
\* down and the old one is kept.
UpdateInv ==
  /\ RollbackCopyKept
  /\ service = "running" => current \in seen
  /\ helper \in {"stop", "aside", "clean"} => current \in seen
  /\ helper = "restart" => current \in seen \/ (current = 0 /\ backup \in seen)
  /\ helper \in {"swap", "start"} => backup \in seen
  /\ helper = "swap" => current = 0
  /\ helper \in {"aside", "swap", "start", "restart"} => service = "stopped"
=============================================================================
