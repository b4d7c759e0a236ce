----------------------- MODULE ApplicationTasksProofs -----------------------
(***************************************************************************)
(* Proofs about ApplicationTasks, for every set of applications, versions  *)
(* and administrators and every value of the bounds.                       *)
(***************************************************************************)
EXTENDS ApplicationTasks, TLAPS

-----------------------------------------------------------------------------
(* Steps by what they do to the table.                                     *)

\* All but creating and claiming: rows keep what they are tasks for and their
\* attempts, and nothing is opened or leased.
RowsFade ==
  /\ created' = created
  /\ row' \in [Id -> Row]
  /\ \A i \in Id :
       /\ row'[i].app = row[i].app /\ row'[i].version = row[i].version
       /\ row'[i].attempts = row[i].attempts
       /\ row'[i].state = "absent" <=> row[i].state = "absent"
       /\ row'[i].state \in OpenStates => row'[i].state = row[i].state
       /\ row'[i].live => row[i].live /\ row'[i].state = "running"

LEMMA UnchangedFades ==
  ASSUME TypeOK, RowsAreTasks, UNCHANGED <<created, row>>
  PROVE  RowsFade
  BY DEF TypeOK, RowsAreTasks, RowsFade

\* A row that is closed or loses its lease fades.
LEMMA ClosingFades ==
  ASSUME TypeOK, RowsAreTasks, created' = created,
         NEW i \in Id, NEW s \in Outcome, IsOpen(i),
         row' = [row EXCEPT ![i].state = s, ![i].live = FALSE]
  PROVE  RowsFade
  BY ZenonT(60) DEF TypeOK, RowsAreTasks, RowsFade, IsOpen, OpenStates, Outcome, Row, RowState

LEMMA LapsingFades ==
  ASSUME TypeOK, RowsAreTasks, created' = created,
         NEW i \in Id, row' = [row EXCEPT ![i].live = FALSE]
  PROVE  RowsFade
  BY ZenonT(60) DEF TypeOK, RowsAreTasks, RowsFade, Row

LEMMA FinishFades ==
  ASSUME TypeOK, RowsAreTasks, created' = created,
         NEW i \in Id, NEW n, NEW s \in Outcome, Finish(i, n, s)
  PROVE  RowsFade
<1>1. CASE Holds(i, n)
  <2>1. IsOpen(i)
    BY <1>1 DEF Holds, IsOpen, OpenStates
  <2>2. row' = [row EXCEPT ![i].state = s, ![i].live = FALSE]
    BY <1>1 DEF Finish
  <2> QED
    BY <2>1, <2>2, ClosingFades
<1>2. CASE ~Holds(i, n)
  BY <1>2, UnchangedFades DEF Finish
<1> QED
  BY <1>1, <1>2

\* What a fading table keeps.
LEMMA FadingKeeps ==
  ASSUME TypeOK, RowsAreTasks, OneOpenPerApp, RowsFade
  PROVE  /\ RowsAreTasks'
         /\ OneOpenPerApp'
         /\ \A i \in Id, n \in Nat : Holds(i, n)' => Holds(i, n)
<1>1. RowsAreTasks'
  BY DEF RowsAreTasks, RowsFade
<1>2. \A i \in Id : IsOpen(i)' => IsOpen(i) /\ row'[i].app = row[i].app
  BY DEF RowsFade, IsOpen
<1>3. OneOpenPerApp'
  BY <1>2 DEF OneOpenPerApp
<1>4. \A i \in Id, n \in Nat : Holds(i, n)' => Holds(i, n)
  BY DEF Holds, RowsFade, OpenStates
<1> QED
  BY <1>1, <1>3, <1>4

\* The numbers an agent and a message carry are in range.
LEMMA InRange ==
  ASSUME TypeOK
  PROVE  /\ created \in Nat /\ 1 .. created \subseteq Id
         /\ agent.id \in 0 .. MaxTask /\ agent.n \in Nat
         /\ \A m \in wire : m.id \in Id /\ m.n \in Nat
  BY ApplicationAssumption DEF TypeOK, Agent, Message, Id, ApplicationAssumption

\* The agent goes on with its task or with none, messages arrive, and what is
\* installed changes only by the agent's work or an outlived installer.
LEMMA FadingStep ==
  ASSUME ApplicationInv, TypeOK', RowsFade, AgentSpeaksTruth',
         agent'.pc = "idle" \/ (agent.pc # "idle" /\ agent'.id = agent.id /\ agent'.n = agent.n),
         wire' \subseteq wire,
         outlived \subseteq outlived',
         \A a \in App : installed'[a] = installed[a] \/ Outlived(a)'
                          \/ (agent.pc # "idle" /\ ThisApp = a)
  PROVE  ApplicationInv'
<1> USE DEF ApplicationInv
<1>1. RowsAreTasks' /\ OneOpenPerApp' /\ \A i \in Id, n \in Nat : Holds(i, n)' => Holds(i, n)
  BY FadingKeeps
<1>2. \A i \in Id : row'[i].app = row[i].app /\ row'[i].version = row[i].version
                      /\ row'[i].attempts = row[i].attempts
  BY DEF RowsFade
<1>3. AgentHasTask'
  BY <1>2, InRange DEF AgentHasTask, RowsFade
<1>4. MessagesAreOfAttempts'
  BY <1>2, InRange DEF MessagesAreOfAttempts, RowsFade
<1>5. AcceptableReportsAreLast'
  <2> SUFFICES ASSUME NEW m \in wire', Holds(m.id, m.n)', agent'.pc # "idle"
               PROVE  row'[agent'.id].app # row'[m.id].app
    BY DEF AcceptableReportsAreLast
  <2>1. m \in wire /\ m.id \in Id /\ Holds(m.id, m.n)
    BY <1>1, InRange
  <2>2. agent.id \in Id /\ agent'.id = agent.id
    BY InRange DEF AgentHasTask
  <2>3. row[agent.id].app # row[m.id].app
    BY <2>1 DEF AcceptableReportsAreLast
  <2> QED
    BY <1>2, <2>1, <2>2, <2>3
<1>6. MessagesSpeakTruth'
  <2> SUFFICES ASSUME NEW m \in wire', Holds(m.id, m.n)', m.outcome = "succeeded"
               PROVE  MayBeInstalled(m.id)'
    BY DEF MessagesSpeakTruth
  <2>1. m \in wire /\ m.id \in Id /\ Holds(m.id, m.n)
    BY <1>1, InRange
  <2>2. MayBeInstalled(m.id)
    BY <2>1 DEF MessagesSpeakTruth
  <2>3. row[m.id].app \in App
    BY <2>1, InRange DEF MessagesAreOfAttempts, RowsAreTasks
  <2>4. agent.pc # "idle" => row[m.id].app # ThisApp
    BY <2>1 DEF AcceptableReportsAreLast, ThisApp
  <2>5. Outlived(row[m.id].app) => Outlived(row[m.id].app)'
    BY <1>2, <2>1 DEF Outlived
  <2>6. installed'[row[m.id].app] = installed[row[m.id].app] \/ Outlived(row[m.id].app)'
    BY <1>2, <2>1, <2>3, <2>4 DEF Outlived
  <2>7. row'[m.id].app = row[m.id].app /\ row'[m.id].version = row[m.id].version
    BY <1>2, <2>1
  <2> QED
    BY <2>2, <2>5, <2>6, <2>7 DEF MayBeInstalled, Outlived
<1> QED
  BY <1>1, <1>3, <1>4, <1>5, <1>6

-----------------------------------------------------------------------------
(* Initially, and the console.                                             *)

LEMMA InitApplicationInv == Init => ApplicationInv
<1> SUFFICES ASSUME Init PROVE ApplicationInv
  OBVIOUS
<1> USE ApplicationAssumption DEF Init, ApplicationAssumption
<1>1. TypeOK
  BY DEF TypeOK, Id, Row, RowState, AbsentRow, Agent, IdleAgent, Pc, Outcome, Message
<1>2. RowsAreTasks
  BY DEF RowsAreTasks, Id, AbsentRow
<1>3. OneOpenPerApp
  BY DEF OneOpenPerApp, IsOpen, AbsentRow, OpenStates
<1>4. AgentHasTask /\ MessagesAreOfAttempts /\ AcceptableReportsAreLast
        /\ AgentSpeaksTruth /\ MessagesSpeakTruth
  BY DEF AgentHasTask, MessagesAreOfAttempts, AcceptableReportsAreLast,
         AgentSpeaksTruth, SaysInstalled, MessagesSpeakTruth, IdleAgent
<1> QED
  BY <1>1, <1>2, <1>3, <1>4 DEF ApplicationInv

\* A new row changes nothing of what rows, agent and messages were about.
LEMMA CreateInv ==
  ASSUME ApplicationInv, NEW a \in App, NEW v \in Version,
         Create(a, v), asking' \in [Admin -> Request \cup {NoRequest}],
         UNCHANGED <<machineVars, wire, mishaps>>
  PROVE  ApplicationInv'
<1> USE ApplicationAssumption DEF ApplicationInv, ApplicationAssumption
<1> DEFINE c == created + 1
<1>1. created \in Nat /\ c \in Id /\ created' = c
  <2>1. created \in Nat
    BY InRange
  <2>2. created < MaxTask /\ created' = created + 1
    BY DEF Create
  <2> QED
    BY <2>1, <2>2 DEF Id
<1>2. \A i \in Id : i <= created =>
        /\ row'[i].app = row[i].app /\ row'[i].version = row[i].version
        /\ row'[i].attempts = row[i].attempts
        /\ row'[i].state = IF i \in OpenFor(a) THEN "cancelled" ELSE row[i].state
        /\ row'[i].live = IF i \in OpenFor(a) THEN FALSE ELSE row[i].live
        /\ row'[i] \in Row
  <2> SUFFICES ASSUME NEW i \in Id, i <= created
               PROVE  /\ row'[i].app = row[i].app /\ row'[i].version = row[i].version
                      /\ row'[i].attempts = row[i].attempts
                      /\ row'[i].state = IF i \in OpenFor(a) THEN "cancelled" ELSE row[i].state
                      /\ row'[i].live = IF i \in OpenFor(a) THEN FALSE ELSE row[i].live
                      /\ row'[i] \in Row
    OBVIOUS
  <2>1. i # created + 1 /\ row[i] \in Row
    BY <1>1 DEF TypeOK, Id
  <2>2. row'[i] = IF i \in OpenFor(a) THEN [row[i] EXCEPT !.state = "cancelled", !.live = FALSE]
                                      ELSE row[i]
    BY <2>1 DEF Create
  <2> QED
    BY <2>1, <2>2 DEF Row, RowState, Outcome
<1>3. row'[c] = NewRow(a, v)
  BY <1>1 DEF Create
<1>4. \A i \in Id : i > c => row'[i] = row[i] /\ row'[i] \in Row /\ row[i].state = "absent"
  <2> SUFFICES ASSUME NEW i \in Id, i > c
               PROVE  row'[i] = row[i] /\ row'[i] \in Row /\ row[i].state = "absent"
    OBVIOUS
  <2>1. row[i].state = "absent" /\ row[i] \in Row
    BY <1>1 DEF RowsAreTasks, TypeOK, Id
  <2>2. i \notin OpenFor(a) /\ i # created + 1
    BY <1>1, <2>1 DEF OpenFor, IsOpen, OpenStates, Id
  <2> QED
    BY <2>1, <2>2 DEF Create
<1>5. \A i \in Id : i <= created \/ i = c \/ i > c
  BY <1>1 DEF Id
<1>6. NewRow(a, v) \in Row /\ NewRow(a, v).state = "pending" /\ NewRow(a, v).app = a
        /\ NewRow(a, v).version = v /\ ~NewRow(a, v).live
  BY DEF NewRow, AbsentRow, Row, RowState, OpenStates
<1> HIDE DEF c
<1>7. row' \in [Id -> Row]
  <2>1. \A i \in Id : row'[i] \in Row
    BY <1>2, <1>3, <1>4, <1>5, <1>6
  <2>2. row' = [i \in Id |-> row'[i]]
    BY DEF Create
  <2> QED
    BY <2>1, <2>2
<1>8. TypeOK'
  BY <1>1, <1>7 DEF TypeOK, machineVars, Id
<1>9. RowsAreTasks'
  <2> SUFFICES ASSUME NEW i \in Id
               PROVE  /\ row'[i].state = "absent" <=> i > c
                      /\ i <= c => row'[i].app \in App /\ row'[i].version \in Version
                      /\ row'[i].live => row'[i].state = "running"
    BY <1>1 DEF RowsAreTasks
  <2>1. CASE i <= created
    <3>1. ~(i > c) /\ row[i].state # "absent"
      BY <1>1, <2>1 DEF RowsAreTasks, c, Id
    <3> QED
      BY <1>2, <2>1, <3>1 DEF RowsAreTasks
  <2>2. CASE i = c
    BY <1>1, <1>3, <1>6, <2>2 DEF Id
  <2>3. CASE i > c
    BY <1>1, <1>4, <2>3 DEF RowsAreTasks, Id
  <2> QED
    BY <1>5, <2>1, <2>2, <2>3
<1>10. \A i \in Id : IsOpen(i)' => i = c \/ (i <= created /\ IsOpen(i) /\ row[i].app # a)
  <2> SUFFICES ASSUME NEW i \in Id, row'[i].state \in OpenStates, i # c
               PROVE  i <= created /\ IsOpen(i) /\ row[i].app # a
    BY DEF IsOpen
  <2>1. i <= created
    BY <1>4, <1>5 DEF OpenStates
  <2>2. i \notin OpenFor(a)
    BY <1>2, <2>1 DEF OpenStates
  <2>3. row[i].state \in OpenStates
    BY <1>2, <2>1, <2>2
  <2> QED
    BY <2>1, <2>2, <2>3 DEF OpenFor, IsOpen
<1>11. OneOpenPerApp'
  <2>1. \A i \in Id :
          IsOpen(i)' => \/ row'[i].app = a /\ i = c
                        \/ row'[i].app # a /\ IsOpen(i) /\ row'[i].app = row[i].app
    <3> SUFFICES ASSUME NEW i \in Id, IsOpen(i)'
                 PROVE  \/ row'[i].app = a /\ i = c
                        \/ row'[i].app # a /\ IsOpen(i) /\ row'[i].app = row[i].app
      OBVIOUS
    <3>1. CASE i = c
      BY <1>3, <1>6, <3>1
    <3>2. CASE i <= created /\ IsOpen(i) /\ row[i].app # a
      BY ONLY <1>2, <3>2, i \in Id
    <3> QED
      BY <1>10, <3>1, <3>2
  <2> QED
    BY <2>1 DEF OneOpenPerApp
<1>12. AgentHasTask'
  <2> SUFFICES ASSUME agent.pc # "idle"
               PROVE  agent.id \in 1 .. c /\ agent.n \in 1 .. row'[agent.id].attempts
    BY <1>1 DEF AgentHasTask, machineVars
  <2>1. agent.id \in 1 .. created /\ agent.n \in 1 .. row[agent.id].attempts
    BY DEF AgentHasTask
  <2>2. agent.id \in Id /\ agent.id <= created /\ agent.id \in 1 .. c
    BY <1>1, <2>1, InRange DEF c
  <2>3. row'[agent.id].attempts = row[agent.id].attempts
    BY ONLY <1>2, <2>2
  <2> QED
    BY <2>1, <2>2, <2>3
<1>13. MessagesAreOfAttempts'
  <2> SUFFICES ASSUME NEW m \in wire
               PROVE  m.id \in 1 .. c /\ m.n \in 1 .. row'[m.id].attempts
    BY <1>1 DEF MessagesAreOfAttempts
  <2>1. m.id \in 1 .. created /\ m.n \in 1 .. row[m.id].attempts
    BY DEF MessagesAreOfAttempts
  <2>2. m.id \in Id /\ m.id <= created /\ m.id \in 1 .. c
    BY <1>1, <2>1, InRange DEF c
  <2>3. row'[m.id].attempts = row[m.id].attempts
    BY ONLY <1>2, <2>2
  <2> QED
    BY <2>1, <2>2, <2>3
<1>14. \A i \in Id, n \in Nat : i <= created /\ Holds(i, n)' => Holds(i, n)
  BY <1>2 DEF Holds
<1>15. \A m \in wire : m.id \in Id /\ m.n \in Nat /\ m.id <= created
  BY InRange DEF MessagesAreOfAttempts
<1>16. agent.pc # "idle" => agent.id \in Id /\ agent.id <= created
  BY InRange DEF AgentHasTask
<1>17. AcceptableReportsAreLast'
  BY <1>2, <1>14, <1>15, <1>16 DEF AcceptableReportsAreLast, machineVars
<1>18. \A i \in Id : i <= created /\ MayBeInstalled(i) => MayBeInstalled(i)'
  BY <1>2 DEF MayBeInstalled, Outlived, machineVars
<1>19. AgentSpeaksTruth'
  BY <1>16, <1>18 DEF AgentSpeaksTruth, SaysInstalled, machineVars
<1>20. MessagesSpeakTruth'
  BY <1>14, <1>15, <1>18 DEF MessagesSpeakTruth
<1> QED
  BY <1>8, <1>9, <1>11, <1>12, <1>13, <1>17, <1>19, <1>20

LEMMA CreateAskedInv ==
  ASSUME ApplicationInv, NEW d \in Admin, CreateAsked(d)
  PROVE  ApplicationInv'
<1>1. asking[d] \in Request
  BY DEF ApplicationInv, TypeOK, CreateAsked
<1>2. asking[d].app \in App /\ asking[d].version \in Version
  BY <1>1 DEF Request
<1>3. asking' \in [Admin -> Request \cup {NoRequest}]
  BY DEF ApplicationInv, TypeOK, CreateAsked
<1> QED
  BY <1>2, <1>3, CreateInv DEF CreateAsked

LEMMA RetryInv ==
  ASSUME ApplicationInv, NEW i \in Id, Retry(i)
  PROVE  ApplicationInv'
<1>1. row[i].app \in App /\ row[i].version \in Version
  BY InRange DEF ApplicationInv, RowsAreTasks, Retry, Id
<1>2. asking' \in [Admin -> Request \cup {NoRequest}]
  BY DEF ApplicationInv, TypeOK, Retry
<1> QED
  BY <1>1, <1>2, CreateInv DEF Retry

\* Steps that leave the machine and its reports alone.
LEMMA TableOnlyStep ==
  ASSUME ApplicationInv, RowsFade, mishaps' \in 0 .. MaxMishaps,
         asking' \in [Admin -> Request \cup {NoRequest}],
         UNCHANGED <<machineVars, wire>>
  PROVE  ApplicationInv'
<1> USE DEF ApplicationInv, machineVars
<1>1. TypeOK'
  BY DEF TypeOK, RowsFade
<1>2. \A i \in Id : row'[i].app = row[i].app /\ row'[i].version = row[i].version
  BY DEF RowsFade
<1>3. AgentSpeaksTruth'
  <2>1. SaysInstalled' => SaysInstalled /\ agent.id \in Id
    BY InRange DEF SaysInstalled, AgentHasTask
  <2> QED
    BY <1>2, <2>1 DEF AgentSpeaksTruth, MayBeInstalled, Outlived
<1> QED
  BY <1>1, <1>3, FadingStep

LEMMA AskInstallInv ==
  ASSUME ApplicationInv, NEW d \in Admin, NEW a \in App, NEW v \in Version, AskInstall(d, a, v)
  PROVE  ApplicationInv'
<1>1. RowsFade
  BY UnchangedFades DEF ApplicationInv, AskInstall
<1>2. asking' \in [Admin -> Request \cup {NoRequest}] /\ mishaps' \in 0 .. MaxMishaps
  BY DEF ApplicationInv, TypeOK, AskInstall, Request
<1> QED
  BY <1>1, <1>2, TableOnlyStep DEF AskInstall

LEMMA CancelInv ==
  ASSUME ApplicationInv, NEW i \in Id, Cancel(i)
  PROVE  ApplicationInv'
<1>1. RowsFade
  BY ClosingFades DEF ApplicationInv, Cancel, Outcome
<1>2. asking' \in [Admin -> Request \cup {NoRequest}] /\ mishaps' \in 0 .. MaxMishaps
  BY DEF ApplicationInv, TypeOK, Cancel
<1> QED
  BY <1>1, <1>2, TableOnlyStep DEF Cancel

\* A mishap more is within the bound.
LEMMA MishapCounts ==
  ASSUME TypeOK, NEW m, Mishap(m)
  PROVE  mishaps' \in 0 .. MaxMishaps
  BY ApplicationAssumption DEF TypeOK, Mishap, ApplicationAssumption

LEMMA LapseInv ==
  ASSUME ApplicationInv, NEW i \in Id, LeaseLapses(i) \/ LeaseLapsesEarly(i)
  PROVE  ApplicationInv'
<1>1. RowsFade
  BY LapsingFades DEF ApplicationInv, LeaseLapses, LeaseLapsesEarly
<1>2. asking' \in [Admin -> Request \cup {NoRequest}] /\ mishaps' \in 0 .. MaxMishaps
  BY MishapCounts DEF ApplicationInv, TypeOK, LeaseLapses, LeaseLapsesEarly
<1> QED
  BY <1>1, <1>2, TableOnlyStep DEF LeaseLapses, LeaseLapsesEarly

-----------------------------------------------------------------------------
(* The agent.                                                              *)

\* A step of the agent's process alone.
LEMMA AgentStep ==
  ASSUME ApplicationInv, UNCHANGED <<consoleVars, wire>>,
         agent' \in Agent, mishaps' \in 0 .. MaxMishaps,
         installed' \in [App -> Version \cup {NoVersion}],
         outlived' \in SUBSET [app : App, version : Version], outlived \subseteq outlived',
         agent'.pc = "idle" \/ (agent.pc # "idle" /\ agent'.id = agent.id /\ agent'.n = agent.n),
         SaysInstalled' => MayBeInstalled(agent.id)',
         \A a \in App : installed'[a] = installed[a] \/ (\E o \in outlived' : o.app = a)
                          \/ (agent.pc # "idle" /\ ThisApp = a)
  PROVE  ApplicationInv'
<1>1. TypeOK'
  BY DEF ApplicationInv, TypeOK, consoleVars
<1>2. RowsFade
  BY UnchangedFades DEF ApplicationInv, consoleVars
<1>3. AgentSpeaksTruth'
  BY DEF AgentSpeaksTruth, SaysInstalled, MayBeInstalled
<1> QED
  BY <1>1, <1>2, <1>3, FadingStep DEF Outlived

\* The task of an agent at work is a task.
LEMMA AgentTask ==
  ASSUME ApplicationInv, agent.pc # "idle"
  PROVE  agent.id \in Id /\ ThisApp \in App /\ ThisVersion \in Version
  BY InRange DEF ApplicationInv, AgentHasTask, RowsAreTasks, ThisApp, ThisVersion

\* A step within an attempt, which leaves the machine as it is.
LEMMA WorkStep ==
  ASSUME ApplicationInv, UNCHANGED <<unchangedByWork, installed>>, agent.pc # "idle",
         agent' \in Agent, agent'.id = agent.id, agent'.n = agent.n,
         SaysInstalled' => SaysInstalled \/ installed[ThisApp] = ThisVersion
  PROVE  ApplicationInv'
<1>1. UNCHANGED <<consoleVars, wire, outlived, installed, mishaps>>
  BY DEF unchangedByWork
<1>2. SaysInstalled' => MayBeInstalled(agent.id)'
  BY <1>1 DEF ApplicationInv, AgentSpeaksTruth, MayBeInstalled, Outlived, ThisApp, ThisVersion, consoleVars
<1> QED
  BY <1>1, <1>2, AgentStep DEF ApplicationInv, TypeOK

LEMMA GotoAgent ==
  ASSUME TypeOK, NEW pc \in Pc, Goto(pc)
  PROVE  agent' \in Agent /\ agent'.pc = pc /\ agent'.id = agent.id /\ agent'.n = agent.n
  BY DEF TypeOK, Agent, Goto

LEMMA GiveUpAgent ==
  ASSUME TypeOK, GiveUp
  PROVE  /\ agent' \in Agent /\ agent'.id = agent.id /\ agent'.n = agent.n
         /\ agent'.pc = "decide" /\ ~agent'.ok /\ ~SaysInstalled'
  BY DEF TypeOK, Agent, GiveUp, Pc, SaysInstalled

LEMMA ReadManifestInv ==
  ASSUME ApplicationInv, ReadManifest PROVE ApplicationInv'
<1>1. agent.pc # "idle" /\ "look" \in Pc
  BY DEF ReadManifest, Pc, Working
<1>2. CASE Goto("look")
  BY <1>1, <1>2, GotoAgent, WorkStep DEF ReadManifest, ApplicationInv, SaysInstalled
<1>3. CASE GiveUp
  BY <1>1, <1>3, GiveUpAgent, WorkStep DEF ReadManifest, ApplicationInv
<1> QED
  BY <1>2, <1>3 DEF ReadManifest

LEMMA LookForInstalledInv ==
  ASSUME ApplicationInv, LookForInstalled PROVE ApplicationInv'
<1>1. agent.pc # "idle" /\ "confirm" \in Pc /\ "download" \in Pc
  BY DEF LookForInstalled, Pc, Working
<1>2. CASE installed[ThisApp] = ThisVersion
  BY <1>1, <1>2, GotoAgent, WorkStep DEF LookForInstalled, ApplicationInv
<1>3. CASE installed[ThisApp] # ThisVersion
  BY <1>1, <1>3, GotoAgent, WorkStep DEF LookForInstalled, ApplicationInv, SaysInstalled
<1> QED
  BY <1>2, <1>3

LEMMA DownloadInv ==
  ASSUME ApplicationInv, Download PROVE ApplicationInv'
<1>1. agent.pc # "idle" /\ "install" \in Pc
  BY DEF Download, Pc, Working
<1>2. CASE Goto("install")
  BY <1>1, <1>2, GotoAgent, WorkStep DEF Download, ApplicationInv, SaysInstalled
<1>3. CASE GiveUp
  BY <1>1, <1>3, GiveUpAgent, WorkStep DEF Download, ApplicationInv
<1> QED
  BY <1>2, <1>3 DEF Download

LEMMA StartInstallerInv ==
  ASSUME ApplicationInv, StartInstaller PROVE ApplicationInv'
<1>1. agent.pc # "idle" /\ "installing" \in Pc
  BY DEF StartInstaller, Pc, Working
<1>2. CASE Goto("installing")
  BY <1>1, <1>2, GotoAgent, WorkStep DEF StartInstaller, ApplicationInv, SaysInstalled
<1>3. CASE GiveUp
  BY <1>1, <1>3, GiveUpAgent, WorkStep DEF StartInstaller, ApplicationInv
<1> QED
  BY <1>2, <1>3 DEF StartInstaller

\* Only the application of the task at hand changes.
LEMMA InstallingInv ==
  ASSUME ApplicationInv, UNCHANGED unchangedByWork, agent.pc # "idle",
         agent' \in Agent, agent'.id = agent.id, agent'.n = agent.n,
         NEW v \in Version \cup {NoVersion}, installed' = [installed EXCEPT ![ThisApp] = v],
         SaysInstalled' => v = ThisVersion
  PROVE  ApplicationInv'
<1>1. UNCHANGED <<consoleVars, wire, outlived, mishaps>>
  BY DEF unchangedByWork
<1>2. ThisApp \in App /\ agent.id \in Id
  BY AgentTask
<1>3. /\ installed' \in [App -> Version \cup {NoVersion}]
      /\ installed'[ThisApp] = v
      /\ \A a \in App : a # ThisApp => installed'[a] = installed[a]
  BY <1>2 DEF ApplicationInv, TypeOK
<1>4. SaysInstalled' => MayBeInstalled(agent.id)'
  BY <1>1, <1>3 DEF MayBeInstalled, ThisApp, ThisVersion, consoleVars
<1> QED
  BY <1>1, <1>3, <1>4, AgentStep DEF ApplicationInv, TypeOK

LEMMA InstallerEndsInv ==
  ASSUME ApplicationInv, InstallerEnds PROVE ApplicationInv'
<1>1. agent.pc # "idle" /\ "confirm" \in Pc
  BY DEF InstallerEnds, Pc, Working
<1>2. ThisVersion \in Version
  BY <1>1, AgentTask
<1> QED
  BY <1>1, <1>2, GotoAgent, InstallingInv DEF InstallerEnds, ApplicationInv

LEMMA InstallerKilledInv ==
  ASSUME ApplicationInv, InstallerKilled PROVE ApplicationInv'
<1>1. agent.pc # "idle"
  BY DEF InstallerKilled
<1>2. PICK v \in {installed[ThisApp], ThisVersion} : installed' = [installed EXCEPT ![ThisApp] = v]
  BY DEF InstallerKilled
<1>3. v \in Version \cup {NoVersion}
  BY <1>1, AgentTask DEF ApplicationInv, TypeOK
<1> QED
  BY <1>1, <1>2, <1>3, GiveUpAgent, InstallingInv DEF InstallerKilled, ApplicationInv

LEMMA InstallerFailsInv ==
  ASSUME ApplicationInv, InstallerFailsAtLength PROVE ApplicationInv'
<1>1. agent.pc = "installing" /\ mishaps' \in 0 .. MaxMishaps
  BY MishapCounts DEF InstallerFailsAtLength, ApplicationInv
<1>2. PICK v \in {installed[ThisApp], ThisVersion} : installed' = [installed EXCEPT ![ThisApp] = v]
  BY DEF InstallerFailsAtLength
<1>3. ThisApp \in App /\ v \in Version \cup {NoVersion}
  BY <1>1, AgentTask DEF ApplicationInv, TypeOK
<1>4. /\ agent' \in Agent /\ agent'.id = agent.id /\ agent'.n = agent.n
      /\ agent'.pc = "decide" /\ ~agent'.ok
  BY DEF InstallerFailsAtLength, ApplicationInv, TypeOK, Agent, Pc
<1>5. ~SaysInstalled'
  BY <1>4 DEF SaysInstalled
<1>6. /\ installed' \in [App -> Version \cup {NoVersion}]
      /\ \A a \in App : a # ThisApp => installed'[a] = installed[a]
  BY <1>2, <1>3 DEF ApplicationInv, TypeOK
<1> QED
  BY <1>1, <1>4, <1>5, <1>6, AgentStep DEF InstallerFailsAtLength, ApplicationInv, TypeOK

LEMMA ConfirmInv ==
  ASSUME ApplicationInv, Confirm PROVE ApplicationInv'
<1>1. /\ agent' \in Agent /\ agent'.id = agent.id /\ agent'.n = agent.n
      /\ agent.pc # "idle" /\ SaysInstalled
  BY DEF Confirm, ApplicationInv, TypeOK, Agent, Pc, SaysInstalled
<1> QED
  BY <1>1, WorkStep DEF Confirm

LEMMA AttemptFailsInv ==
  ASSUME ApplicationInv, AttemptFails PROVE ApplicationInv'
<1>1. agent.pc # "idle"
  BY DEF AttemptFails, Working
<1> QED
  BY <1>1, GiveUpAgent, WorkStep DEF AttemptFails, ApplicationInv

LEMMA DecideInv ==
  ASSUME ApplicationInv, Decide PROVE ApplicationInv'
<1>1. /\ agent' \in Agent /\ agent'.id = agent.id /\ agent'.n = agent.n /\ agent.pc # "idle"
      /\ SaysInstalled' => agent.pc = "decide" /\ agent.ok
  BY DEF Decide, ApplicationInv, TypeOK, Agent, Pc, Outcome, SaysInstalled
<1> QED
  BY <1>1, WorkStep DEF Decide, SaysInstalled

LEMMA IdleIsAgent == IdleAgent \in Agent /\ IdleAgent.pc = "idle"
  BY ApplicationAssumption DEF IdleAgent, Agent, Pc, Outcome, ApplicationAssumption

LEMMA BackToIdleAgent ==
  ASSUME TypeOK, BackToIdle
  PROVE  agent' \in Agent /\ agent'.pc = "idle"
<1>1. agent.stopping \in BOOLEAN
  BY DEF TypeOK, Agent
<1>2. /\ agent' = [IdleAgent EXCEPT !.stopping = agent.stopping]
      /\ \A b \in BOOLEAN : [IdleAgent EXCEPT !.stopping = b] \in Agent
                             /\ [IdleAgent EXCEPT !.stopping = b].pc = "idle"
  BY IdleIsAgent DEF BackToIdle, Agent
<1> QED
  BY <1>1, <1>2

LEMMA ClaimingAgent ==
  ASSUME NEW i \in Id, NEW n \in Nat,
         agent' = [IdleAgent EXCEPT !.pc = "manifest", !.id = i, !.n = n, !.renewing = TRUE]
  PROVE  agent' \in Agent /\ agent'.pc = "manifest" /\ agent'.id = i /\ agent'.n = n
<1>1. agent' = [pc |-> "manifest", id |-> i, n |-> n, ok |-> FALSE, cancelled |-> FALSE,
                renewing |-> TRUE, outcome |-> "failed", long |-> FALSE, stopping |-> FALSE]
  BY DEF IdleAgent
<1>2. i \in 0 .. MaxTask
  BY ApplicationAssumption DEF Id, ApplicationAssumption
<1>3. "manifest" \in Pc /\ "failed" \in Outcome
  BY DEF Pc, Working, Outcome
<1>4. agent' \in Agent
  BY ONLY <1>1, <1>2, <1>3, n \in Nat DEF Agent
<1> QED
  BY <1>1, <1>4

\* A claimed row is the only open one of its application, and no report of an
\* earlier attempt at it is acceptable any more.
LEMMA ClaimRowInv ==
  ASSUME ApplicationInv, NEW i \in Id, ClaimRow(i), created' = created,
         UNCHANGED <<asking, installed, outlived, wire>>, mishaps' \in 0 .. MaxMishaps,
         agent' = agent \/ agent' = [IdleAgent EXCEPT !.pc = "manifest", !.id = i,
                                       !.n = row[i].attempts + 1, !.renewing = TRUE]
  PROVE  ApplicationInv'
<1> USE DEF ApplicationInv
<1>1. row[i] \in Row /\ IsOpen(i) /\ agent.pc = "idle"
  BY DEF TypeOK, ClaimRow, Claimable, IsOpen, OpenStates
<1>2. row' = [row EXCEPT ![i].state = "running", ![i].attempts = @ + 1, ![i].live = TRUE]
  BY DEF ClaimRow
<1>3. /\ row' \in [Id -> Row]
      /\ \A k \in Id : row'[k].app = row[k].app /\ row'[k].version = row[k].version
      /\ \A k \in Id : k # i => row'[k] = row[k]
      /\ row'[i].state = "running" /\ row'[i].attempts = row[i].attempts + 1
  BY <1>1, <1>2 DEF TypeOK, Row, RowState, OpenStates
<1>4. row[i].attempts \in Nat /\ i \in 1 .. created
  BY <1>1, InRange DEF Row, RowsAreTasks, IsOpen, OpenStates, Id
<1>5. agent' \in Agent /\ ~SaysInstalled'
  <2>1. CASE agent' = agent
    BY <1>1, <2>1 DEF TypeOK, SaysInstalled
  <2>2. CASE agent' # agent
    <3>1. row[i].attempts + 1 \in Nat
      BY <1>4
    <3> QED
      BY <2>2, <3>1, ClaimingAgent DEF SaysInstalled
  <2> QED
    BY <2>1, <2>2
<1>6. TypeOK'
  BY <1>3, <1>5 DEF TypeOK
<1>7. RowsAreTasks'
  <2>1. \A k \in Id : row'[k].live => row'[k].state = "running"
    BY <1>3 DEF RowsAreTasks
  <2>2. \A k \in Id : row'[k].state = "absent" <=> row[k].state = "absent"
    BY <1>1, <1>3 DEF IsOpen, OpenStates
  <2> QED
    BY <1>3, <2>1, <2>2 DEF RowsAreTasks
<1>8. OneOpenPerApp'
  BY <1>1, <1>3 DEF OneOpenPerApp, IsOpen
<1>9. AgentHasTask'
  <2>1. CASE agent' = agent
    BY <1>1, <2>1 DEF AgentHasTask
  <2>2. CASE agent' # agent
    <3>1. agent'.id = i /\ agent'.n = row[i].attempts + 1
      <4>1. row[i].attempts + 1 \in Nat
        BY <1>4
      <4> QED
        BY <2>2, <4>1, ClaimingAgent
    <3> QED
      BY <1>3, <1>4, <3>1 DEF AgentHasTask
  <2> QED
    BY <2>1, <2>2
<1>10. MessagesAreOfAttempts'
  <2> SUFFICES ASSUME NEW m \in wire
               PROVE  m.id \in 1 .. created /\ m.n \in 1 .. row'[m.id].attempts
    BY DEF MessagesAreOfAttempts
  <2>1. m.id \in 1 .. created /\ m.n \in 1 .. row[m.id].attempts /\ m.id \in Id
    BY InRange DEF MessagesAreOfAttempts
  <2>2. m.id # i => row'[m.id].attempts = row[m.id].attempts
    BY <1>3, <2>1
  <2> QED
    BY <1>3, <1>4, <2>1, <2>2
<1>11. \A m \in wire : m.id \in Id /\ (Holds(m.id, m.n)' => m.id # i /\ Holds(m.id, m.n))
  <2> SUFFICES ASSUME NEW m \in wire
               PROVE  m.id \in Id /\ (Holds(m.id, m.n)' => m.id # i /\ Holds(m.id, m.n))
    OBVIOUS
  <2>1. m.id \in Id /\ m.n \in Nat /\ m.n \in 1 .. row[m.id].attempts
    BY InRange DEF MessagesAreOfAttempts
  <2>2. CASE m.id = i
    BY <1>3, <1>4, <2>1, <2>2 DEF Holds
  <2>3. CASE m.id # i
    BY <1>3, <2>1, <2>3 DEF Holds
  <2> QED
    BY <2>1, <2>2, <2>3
<1>12. AcceptableReportsAreLast'
  <2> SUFFICES ASSUME NEW m \in wire, Holds(m.id, m.n)', agent'.pc # "idle"
               PROVE  row'[agent'.id].app # row'[m.id].app
    BY DEF AcceptableReportsAreLast
  <2>1. agent'.id = i
    BY <1>1 DEF IdleAgent
  <2>2. m.id \in Id /\ m.id # i /\ IsOpen(m.id)
    BY <1>11 DEF Holds, IsOpen, OpenStates
  <2>3. row[m.id].app # row[i].app
    BY <1>1, <2>2 DEF OneOpenPerApp
  <2> QED
    BY <1>3, <2>1, <2>2, <2>3
<1>13. AgentSpeaksTruth'
  BY <1>5 DEF AgentSpeaksTruth
<1>14. MessagesSpeakTruth'
  BY <1>3, <1>11 DEF MessagesSpeakTruth, MayBeInstalled, Outlived
<1> QED
  BY <1>6, <1>7, <1>8, <1>9, <1>10, <1>12, <1>13, <1>14

LEMMA ClaimInv ==
  ASSUME ApplicationInv, NEW i \in Id, Claim(i) \/ ClaimUnanswered(i)
  PROVE  ApplicationInv'
<1>1. mishaps' \in 0 .. MaxMishaps
  BY MishapCounts DEF ApplicationInv, TypeOK, Claim, ClaimUnanswered
<1> QED
  BY <1>1, ClaimRowInv DEF Claim, ClaimUnanswered, machineVars

LEMMA CancelWorkInv ==
  ASSUME ApplicationInv, CancelWork, mishaps' \in 0 .. MaxMishaps
  PROVE  ApplicationInv'
<1>1. /\ agent' \in Agent /\ agent'.id = agent.id /\ agent'.n = agent.n /\ agent'.pc = agent.pc
      /\ SaysInstalled' => SaysInstalled
  BY DEF CancelWork, ApplicationInv, TypeOK, Agent, SaysInstalled
<1>2. SaysInstalled' => MayBeInstalled(agent.id)'
  BY <1>1 DEF ApplicationInv, AgentSpeaksTruth, MayBeInstalled, Outlived, CancelWork, consoleVars
<1> QED
  BY <1>1, <1>2, AgentStep DEF CancelWork, ApplicationInv, TypeOK

LEMMA StopInv ==
  ASSUME ApplicationInv, Stop PROVE ApplicationInv'
<1>1. /\ agent' \in Agent /\ agent'.id = agent.id /\ agent'.n = agent.n /\ agent'.pc = agent.pc
      /\ SaysInstalled' => SaysInstalled
  BY DEF Stop, ApplicationInv, TypeOK, Agent, SaysInstalled
<1>2. SaysInstalled' => MayBeInstalled(agent.id)'
  BY <1>1 DEF ApplicationInv, AgentSpeaksTruth, MayBeInstalled, Outlived, Stop, consoleVars
<1>3. mishaps' \in 0 .. MaxMishaps
  BY MishapCounts DEF ApplicationInv, Stop
<1> QED
  BY <1>1, <1>2, <1>3, AgentStep DEF Stop, ApplicationInv, TypeOK

LEMMA ProcessEndsInv ==
  ASSUME ApplicationInv, Crash \/ Exit PROVE ApplicationInv'
<1>1. mishaps' \in 0 .. MaxMishaps
  BY MishapCounts DEF ApplicationInv, TypeOK, Crash, Exit
<1>2. ProcessEnds
  BY DEF Crash, Exit
<1>3. agent' \in Agent /\ agent'.pc = "idle" /\ ~SaysInstalled'
  BY <1>2, ApplicationAssumption DEF ProcessEnds, IdleAgent, Agent, Pc, Outcome, SaysInstalled, ApplicationAssumption
<1>4. outlived' \in SUBSET [app : App, version : Version] /\ outlived \subseteq outlived'
  <2>1. CASE agent.pc = "installing"
    <3>1. row[agent.id].app \in App /\ row[agent.id].version \in Version
      BY <2>1, AgentTask DEF ThisApp, ThisVersion
    <3> QED
      BY <1>2, <2>1, <3>1 DEF ProcessEnds, ApplicationInv, TypeOK
  <2>2. CASE agent.pc # "installing"
    BY <1>2, <2>2 DEF ProcessEnds, ApplicationInv, TypeOK
  <2> QED
    BY <2>1, <2>2
<1> QED
  BY <1>1, <1>2, <1>3, <1>4, AgentStep DEF ProcessEnds, ApplicationInv, TypeOK

LEMMA OutlivedInstallsInv ==
  ASSUME ApplicationInv, NEW o \in outlived, OutlivedInstalls(o)
  PROVE  ApplicationInv'
<1>1. o.app \in App /\ o.version \in Version
  BY DEF ApplicationInv, TypeOK
<1>2. /\ installed' \in [App -> Version \cup {NoVersion}]
      /\ \A a \in App : installed'[a] = installed[a] \/ o.app = a
  BY <1>1 DEF OutlivedInstalls, ApplicationInv, TypeOK
<1>3. SaysInstalled' => MayBeInstalled(agent.id)'
  <2> SUFFICES ASSUME SaysInstalled PROVE MayBeInstalled(agent.id)'
    BY DEF SaysInstalled, OutlivedInstalls
  <2>1. row[agent.id].app \in App /\ MayBeInstalled(agent.id)
    BY AgentTask DEF ApplicationInv, AgentSpeaksTruth, SaysInstalled, ThisApp
  <2>2. CASE o.app = row[agent.id].app
    BY <2>2 DEF MayBeInstalled, Outlived, OutlivedInstalls, consoleVars
  <2>3. CASE o.app # row[agent.id].app
    BY <1>2, <2>1, <2>3 DEF MayBeInstalled, Outlived, OutlivedInstalls, consoleVars
  <2> QED
    BY <2>2, <2>3
<1> QED
  BY <1>2, <1>3, AgentStep DEF OutlivedInstalls, ApplicationInv, TypeOK

-----------------------------------------------------------------------------
(* Reports.                                                                *)

LEMMA ReportInv ==
  ASSUME ApplicationInv, Report PROVE ApplicationInv'
<1> USE DEF ApplicationInv
<1>1. agent.id \in Id /\ agent.outcome \in Outcome
  BY AgentTask DEF Report, TypeOK, Agent
<1>2. RowsFade
  BY <1>1, FinishFades, UnchangedFades DEF Report
<1>3. agent' \in Agent /\ agent'.pc = "idle"
  BY BackToIdleAgent DEF Report
<1>4. TypeOK'
  BY <1>2, <1>3 DEF Report, TypeOK, RowsFade
<1>5. AgentSpeaksTruth'
  BY <1>3 DEF AgentSpeaksTruth, SaysInstalled
<1> QED
  BY <1>2, <1>3, <1>4, <1>5, FadingStep DEF Report

LEMMA ReportArrivesInv ==
  ASSUME ApplicationInv, NEW m \in wire, ReportArrives(m)
  PROVE  ApplicationInv'
<1> USE DEF ApplicationInv
<1>1. m.id \in Id /\ m.outcome \in Outcome
  BY DEF TypeOK, Message
<1>2. RowsFade
  BY <1>1, FinishFades DEF ReportArrives
<1>3. TypeOK'
  BY <1>2 DEF ReportArrives, TypeOK, RowsFade, machineVars
<1>4. AgentSpeaksTruth'
  <2>1. SaysInstalled' => SaysInstalled /\ agent.id \in Id
    BY AgentTask DEF SaysInstalled, ReportArrives, machineVars
  <2> QED
    BY <1>2, <2>1 DEF AgentSpeaksTruth, MayBeInstalled, Outlived, RowsFade, ReportArrives, machineVars
<1> QED
  BY <1>2, <1>3, <1>4, FadingStep DEF ReportArrives, machineVars

\* The report of the attempt at hand is about the agent's task, whose
\* application no other acceptable report is about, and says what it may.
LEMMA ReportDelayedInv ==
  ASSUME ApplicationInv, ReportDelayed PROVE ApplicationInv'
<1> USE DEF ApplicationInv
<1> DEFINE new == [id |-> agent.id, n |-> agent.n, outcome |-> agent.outcome]
<1>1. agent.id \in Id /\ agent.outcome \in Outcome /\ agent.n \in Nat /\ agent.pc = "report"
  BY AgentTask, InRange DEF ReportDelayed, TypeOK, Agent
<1>2. agent' \in Agent /\ agent'.pc = "idle"
  BY BackToIdleAgent DEF ReportDelayed
<1>3. mishaps' \in 0 .. MaxMishaps /\ wire' = wire \cup {new}
  BY MishapCounts DEF ReportDelayed
<1>4. TypeOK'
  BY <1>1, <1>2, <1>3 DEF ReportDelayed, TypeOK, Message, consoleVars
<1>5. RowsAreTasks' /\ OneOpenPerApp'
  BY DEF ReportDelayed, consoleVars, RowsAreTasks, OneOpenPerApp, IsOpen
<1>6. AgentHasTask' /\ AcceptableReportsAreLast' /\ AgentSpeaksTruth'
  BY <1>2 DEF AgentHasTask, AcceptableReportsAreLast, AgentSpeaksTruth, SaysInstalled
<1>7. MessagesAreOfAttempts'
  BY <1>1, <1>3 DEF MessagesAreOfAttempts, AgentHasTask, ReportDelayed, consoleVars
<1>8. new.outcome = "succeeded" => MayBeInstalled(new.id)
  BY <1>1 DEF AgentSpeaksTruth, SaysInstalled
<1>9. MessagesSpeakTruth'
  BY <1>3, <1>8 DEF MessagesSpeakTruth, MayBeInstalled, Outlived, Holds, ReportDelayed, consoleVars
<1> QED
  BY <1>4, <1>5, <1>6, <1>7, <1>9

-----------------------------------------------------------------------------
(* The invariant.                                                          *)

LEMMA NextInv ==
  ASSUME ApplicationInv, [Next]_vars
  PROVE  ApplicationInv'
<1>1. CASE Console
  BY <1>1, CreateAskedInv, AskInstallInv, RetryInv, CancelInv DEF Console
<1>2. CASE \E i \in Id : Claim(i)
  BY <1>2, ClaimInv
<1>3. CASE Work
  BY <1>3, ReadManifestInv, LookForInstalledInv, DownloadInv, StartInstallerInv, InstallerEndsInv,
     InstallerKilledInv, ConfirmInv, AttemptFailsInv, DecideInv, ReportInv DEF Work
<1>4. CASE Elsewhere
  <2>1. CASE RenewRefused \/ RenewUnanswered
    <3>1. mishaps' \in 0 .. MaxMishaps
      BY <2>1, MishapCounts DEF ApplicationInv, TypeOK, RenewRefused, RenewUnanswered
    <3> QED
      BY <2>1, <3>1, CancelWorkInv DEF RenewRefused, RenewUnanswered
  <2> QED
    BY <1>4, <2>1, LapseInv, ClaimInv, ReportArrivesInv, OutlivedInstallsInv, ProcessEndsInv,
       StopInv, ReportDelayedInv, InstallerFailsInv DEF Elsewhere
<1>5. CASE UNCHANGED vars
  BY <1>5 DEF vars, consoleVars, machineVars, ApplicationInv, TypeOK, RowsAreTasks, OneOpenPerApp,
     IsOpen, AgentHasTask, MessagesAreOfAttempts, AcceptableReportsAreLast, Holds, AgentSpeaksTruth,
     SaysInstalled, MessagesSpeakTruth, MayBeInstalled, Outlived
<1> QED
  BY <1>1, <1>2, <1>3, <1>4, <1>5 DEF Next

\* The table, the agent's work, the machine and delayed reports always agree
\* as ApplicationInv says: what the statements of application_tasks.go and the
\* loop of application_worker.go preserve together.
THEOREM ApplicationInvariance == Spec => []ApplicationInv
<1>1. Init => ApplicationInv
  BY InitApplicationInv
<1>2. ApplicationInv /\ [Next]_vars => ApplicationInv'
  BY NextInv
<1> QED
  BY <1>1, <1>2, PTL DEF Spec

\* Columns, variables and messages keep their types.
THEOREM ApplicationTypes == Spec => []TypeOK
<1>1. ApplicationInv => TypeOK
  BY DEF ApplicationInv
<1> QED
  BY <1>1, ApplicationInvariance, PTL

\* Requests, retries and cancellations in any order leave at most one task open
\* for an application: Create never meets the unique index.
THEOREM OneOpenTask == Spec => []OneOpenPerApp
<1>1. ApplicationInv => OneOpenPerApp
  BY DEF ApplicationInv
<1> QED
  BY <1>1, ApplicationInvariance, PTL

-----------------------------------------------------------------------------
(* How a row ends.                                                         *)

\* The result o, reported by the agent or by a message, is that of the
\* attempt that holds row i.
Reported(i, o) ==
  /\ Holds(i, row[i].attempts)
  /\ \/ agent.pc = "report" /\ agent.id = i /\ agent.n = row[i].attempts /\ agent.outcome = o
     \/ \E m \in wire : m.id = i /\ m.n = row[i].attempts /\ m.outcome = o

\* What one step may do to row i: nothing once it has ended, and to end it
\* otherwise than cancelled, write what was reported.
EndsWell(i) ==
  /\ row[i].state \in Outcome => row'[i] = row[i]
  /\ row'[i].state \in {"succeeded", "failed"} /\ row'[i].state # row[i].state =>
       Reported(i, row'[i].state)

LEMMA SameRowEndsWell ==
  ASSUME NEW i \in Id, row' = row
  PROVE  EndsWell(i)
  BY DEF EndsWell

LEMMA CreateEndsWell ==
  ASSUME ApplicationInv, NEW i \in Id, NEW a \in App, NEW v \in Version, Create(a, v)
  PROVE  EndsWell(i)
<1>1. row[i] \in Row /\ (row[i].state = "absent" <=> i > created) /\ created \in Nat
  BY InRange DEF ApplicationInv, TypeOK, RowsAreTasks
<1>2. CASE i = created + 1
  <2>1. row[i].state = "absent"
    BY <1>1, <1>2
  <2>2. row'[i].state = "pending"
    BY <1>2 DEF Create, NewRow, AbsentRow
  <2> QED
    BY <2>1, <2>2 DEF EndsWell, Outcome
<1>3. CASE i # created + 1 /\ i \in OpenFor(a)
  <2>1. row'[i].state = "cancelled"
    BY <1>1, <1>3 DEF Create, Row
  <2> QED
    BY <1>3, <2>1 DEF EndsWell, OpenFor, IsOpen, OpenStates, Outcome
<1>4. CASE i # created + 1 /\ i \notin OpenFor(a)
  <2>1. row'[i] = row[i]
    BY <1>4 DEF Create
  <2> QED
    BY <2>1 DEF EndsWell
<1> QED
  BY <1>2, <1>3, <1>4

LEMMA FinishEndsWell ==
  ASSUME ApplicationInv, NEW i \in Id, NEW k \in Id, NEW n, NEW o \in Outcome, Finish(k, n, o),
         \/ agent.pc = "report" /\ agent.id = k /\ agent.n = n /\ agent.outcome = o
         \/ \E m \in wire : m.id = k /\ m.n = n /\ m.outcome = o
  PROVE  EndsWell(i)
<1>1. row \in [Id -> Row]
  BY DEF ApplicationInv, TypeOK
<1>2. CASE Holds(k, n) /\ k = i
  <2>1. row[i].state = "running" /\ row[i].attempts = n /\ Holds(i, row[i].attempts)
    BY <1>2 DEF Holds
  <2>2. row'[i].state = o
    BY <1>1, <1>2 DEF Finish, Row
  <2>3. Reported(i, o)
    BY <1>2, <2>1 DEF Reported
  <2> QED
    BY <2>1, <2>2, <2>3 DEF EndsWell, Outcome
<1>3. CASE ~Holds(k, n) \/ k # i
  <2>1. row'[i] = row[i]
    BY <1>1, <1>3 DEF Finish
  <2> QED
    BY <2>1 DEF EndsWell
<1> QED
  BY <1>2, <1>3

LEMMA StepEndsWell ==
  ASSUME ApplicationInv, [Next]_vars, NEW i \in Id
  PROVE  EndsWell(i)
<1> USE DEF ApplicationInv
<1>1. row \in [Id -> Row]
  BY DEF TypeOK
<1>2. ASSUME NEW d \in Admin, CreateAsked(d)
      PROVE  EndsWell(i)
  <2>1. asking[d].app \in App /\ asking[d].version \in Version
    BY <1>2 DEF TypeOK, CreateAsked, Request
  <2> QED
    BY <1>2, <2>1, CreateEndsWell DEF CreateAsked
<1>3. ASSUME NEW k \in Id, Retry(k)
      PROVE  EndsWell(i)
  <2>1. row[k].app \in App /\ row[k].version \in Version
    BY <1>3, InRange DEF RowsAreTasks, Retry, Id
  <2> QED
    BY <1>3, <2>1, CreateEndsWell DEF Retry
<1>4. ASSUME NEW k \in Id, Cancel(k)
      PROVE  EndsWell(i)
  BY <1>1, <1>4 DEF Cancel, EndsWell, IsOpen, OpenStates, Outcome, Row
<1>5. ASSUME NEW k \in Id, LeaseLapses(k) \/ LeaseLapsesEarly(k)
      PROVE  EndsWell(i)
  BY <1>1, <1>5 DEF LeaseLapses, LeaseLapsesEarly, EndsWell, Holds, Outcome, Row
<1>6. ASSUME NEW k \in Id, Claim(k) \/ ClaimUnanswered(k)
      PROVE  EndsWell(i)
  BY <1>1, <1>6 DEF Claim, ClaimUnanswered, ClaimRow, Claimable, EndsWell, Outcome, Row
<1>7. CASE Report
  <2>1. agent.id \in Id /\ agent.outcome \in Outcome
    BY <1>7, AgentTask DEF Report, TypeOK, Agent
  <2> QED
    BY <1>7, <2>1, FinishEndsWell, SameRowEndsWell DEF Report
<1>8. ASSUME NEW m \in wire, ReportArrives(m)
      PROVE  EndsWell(i)
  <2>1. m.id \in Id /\ m.outcome \in Outcome
    BY DEF TypeOK, Message
  <2> QED
    BY <1>8, <2>1, FinishEndsWell DEF ReportArrives
<1>9. CASE \E d \in Admin, a \in App, v \in Version : AskInstall(d, a, v)
  BY <1>9, SameRowEndsWell DEF AskInstall
<1>10. CASE Work /\ ~Report
  BY <1>10, SameRowEndsWell DEF Work, ReadManifest, LookForInstalled, Download, StartInstaller,
     InstallerEnds, InstallerKilled, Confirm, AttemptFails, Decide, unchangedByWork, consoleVars
<1>11. CASE \/ InstallerFailsAtLength
            \/ Crash \/ Stop \/ Exit \/ RenewRefused \/ RenewUnanswered \/ ReportDelayed
            \/ \E o \in outlived : OutlivedInstalls(o)
  BY <1>11, SameRowEndsWell DEF InstallerFailsAtLength, Crash, Stop, Exit, ProcessEnds, RenewRefused, RenewUnanswered,
     CancelWork, ReportDelayed, OutlivedInstalls, consoleVars
<1>12. CASE UNCHANGED vars
  BY <1>12, SameRowEndsWell DEF vars, consoleVars
<1> QED
  BY <1>2, <1>3, <1>4, <1>5, <1>6, <1>7, <1>8, <1>9, <1>10, <1>11, <1>12
  DEF Next, Console, Work, Elsewhere

\* An attempt is ended by its own report or by the console, and what has ended
\* is never written again.
THEOREM EndsAreOwned == Spec => EndedByItsAttempt
<1>1. ASSUME ApplicationInv, [Next]_vars
      PROVE  [\A i \in Id :
               /\ row[i].state \in Outcome => row'[i] = row[i]
               /\ row[i].state = "running" /\ row'[i].state \in {"succeeded", "failed"} =>
                    \/ agent.pc = "report" /\ agent.id = i /\ agent.n = row[i].attempts
                    \/ \E m \in wire : m.id = i /\ m.n = row[i].attempts]_vars
  <2> SUFFICES ASSUME NEW i \in Id
               PROVE  /\ row[i].state \in Outcome => row'[i] = row[i]
                      /\ row[i].state = "running" /\ row'[i].state \in {"succeeded", "failed"} =>
                           \/ agent.pc = "report" /\ agent.id = i /\ agent.n = row[i].attempts
                           \/ \E m \in wire : m.id = i /\ m.n = row[i].attempts
    OBVIOUS
  <2>1. EndsWell(i)
    BY <1>1, StepEndsWell
  <2> QED
    BY <2>1 DEF EndsWell, Reported
<1> QED
  BY <1>1, ApplicationInvariance, PTL DEF Spec, EndedByItsAttempt

\* A recorded success is true of the machine when it is recorded, unless an
\* installer that outlived its agent interferes.
THEOREM SuccessIsReal == Spec => SuccessMeansInstalled
<1>1. ASSUME ApplicationInv, [Next]_vars
      PROVE  [\A i \in Id :
               row[i].state # "succeeded" /\ row'[i].state = "succeeded" => MayBeInstalled(i)]_vars
  <2> SUFFICES ASSUME NEW i \in Id, row[i].state # "succeeded", row'[i].state = "succeeded"
               PROVE  MayBeInstalled(i)
    OBVIOUS
  <2>1. Reported(i, "succeeded")
    BY <1>1, StepEndsWell DEF EndsWell
  <2>2. CASE agent.pc = "report" /\ agent.id = i /\ agent.outcome = "succeeded"
    BY <1>1, <2>2 DEF ApplicationInv, AgentSpeaksTruth, SaysInstalled
  <2>3. CASE \E m \in wire : m.id = i /\ m.n = row[i].attempts /\ m.outcome = "succeeded"
    BY <1>1, <2>1, <2>3 DEF ApplicationInv, MessagesSpeakTruth, Reported
  <2> QED
    BY <2>1, <2>2, <2>3 DEF Reported
<1> QED
  BY <1>1, ApplicationInvariance, PTL DEF Spec, SuccessMeansInstalled
=============================================================================
