--------------------------- MODULE DeliveryProofs ---------------------------
(***************************************************************************)
(* What TLAPS proves of Delivery, for every value of its constants.  The   *)
(* invariant DeliveryInv has a part for what an export leaves behind, one  *)
(* for whose files there are, one for the Codex that runs, one for restart *)
(* requests and one for what an agent reads while the console is at rest.  *)
(* Each part is kept by the actions that touch its variables; the others   *)
(* leave them alone.                                                       *)
(***************************************************************************)
EXTENDS Delivery, TLAPS

\* The values that stand for nothing are of the types they stand in.
LEMMA Constants ==
  /\ Nothing \in MaybeContent /\ NoMark \in Mark /\ Absent \in Document /\ Idle \in Hand
  /\ 0 \in Epoch /\ 1 \in Epoch /\ 0 \in Nonce /\ Epoch \subseteq Nat /\ Nonce \subseteq Nat
<1>1. 0 \in Epoch /\ 1 \in Epoch /\ 0 \in Nonce /\ Epoch \subseteq Nat /\ Nonce \subseteq Nat
  BY DeliveryAssumption DEF Assumptions, Epoch, Nonce
<1>2. Nothing \in MaybeContent
  BY DEF MaybeContent
<1>3. NoMark \in Mark
  BY <1>2 DEF Mark, NoMark
<1>4. Absent \in Document
  BY <1>1 DEF Document, Absent
<1>5. Idle \in Hand
  BY <1>1, <1>2, <1>4 DEF Idle, Hand
<1> QED
  BY <1>1, <1>2, <1>3, <1>4, <1>5

\* A task is about a machine or a person, and has an epoch.
LEMMA Jobs ==
  /\ \A d \in Device : DeviceJob(d) \in Job /\ DeviceJob(d).about = d
  /\ \A e \in Employee, k \in Epoch :
       EmployeeJob(e, k) \in Job /\ EmployeeJob(e, k).about = e /\ EmployeeJob(e, k).epoch = k
  /\ \A j \in Job : j.about \in Device \cup Employee /\ j.about # Nobody /\ j.epoch \in Epoch
  /\ NoJob \notin Job /\ NoJob.about = Nobody
<1>1. \A d \in Device : DeviceJob(d) \in Job /\ DeviceJob(d).about = d /\ DeviceJob(d).epoch = 0
  BY DEF DeviceJob, Job
<1>2. \A e \in Employee, k \in Epoch :
        EmployeeJob(e, k) \in Job /\ EmployeeJob(e, k).about = e /\ EmployeeJob(e, k).epoch = k
  BY DEF EmployeeJob, Job
<1>3. \A j \in Job : j.about \in Device \cup Employee /\ j.epoch \in Epoch
  BY <1>1, <1>2, Constants DEF Job
<1>4. Nobody \notin Device \cup Employee
  BY DeliveryAssumption DEF Assumptions
<1>5. NoJob.about = Nobody
  BY DEF NoJob
<1> QED
  BY <1>1, <1>2, <1>3, <1>4, <1>5

\* What an export is to write is of the type of what it writes.
LEMMA Documents ==
  ASSUME TypeOK
  PROVE  /\ \A d \in Device : Build(d) \in Document
         /\ \A e \in Employee : Deliverable(e) \in MaybeContent
<1>1. ASSUME NEW d \in Device PROVE Build(d) \in Document
  <2>1. CASE machine[d].gone \/ machine[d].holder = Nobody
    BY <2>1, Constants DEF Build
  <2>2. CASE ~(machine[d].gone \/ machine[d].holder = Nobody)
    <3>1. machine[d].holder \in Employee /\ machine[d].nonce \in Nonce
      BY <2>2 DEF TypeOK, Machine
    <3>2. UserOf[machine[d].holder] \in User
      BY <3>1, DeliveryAssumption DEF Assumptions
    <3> QED
      BY <2>2, <3>1, <3>2 DEF Build, Document
  <2> QED
    BY <2>1, <2>2
<1>2. ASSUME NEW e \in Employee PROVE Deliverable(e) \in MaybeContent
  <2>1. account[e].token \in Epoch
    BY DEF TypeOK, Account
  <2> QED
    BY <2>1, Constants DEF Deliverable, MaybeContent, Content
<1> QED
  BY <1>1, <1>2

\* A requeued task is one of the type, and nothing is lost.
LEMMA Requeuing ==
  ASSUME TypeOK, NEW j \in Job
  PROVE  /\ Requeued(j) \subseteq Job /\ due \subseteq Requeued(j) /\ Requeued(j) \subseteq due \cup {j}
BY DEF Requeued, TypeOK

-----------------------------------------------------------------------------
(* Types. *)

LEMMA TypesStart == Init => TypeOK
<1> SUFFICES ASSUME Init PROVE TypeOK
  OBVIOUS
<1>a. Assumptions
  BY DeliveryAssumption
<1>1. account \in [Employee -> Account]
  BY Constants DEF Init, Account
<1>2. machine \in [Device -> Machine]
  <2>1. \A h \in Staff \cup {Nobody} : [holder |-> h, nonce |-> 0, gone |-> FALSE] \in Machine
    BY <1>a, Constants DEF Machine, Assumptions
  <2> QED
    BY <2>1 DEF Init
<1>3. bundle \in [Employee -> [epoch : Epoch, token : Epoch]]
  BY <1>1 DEF Init, Account
<1>4. archive \in [User -> MaybeContent]
  <2>1. \A e \in Employee : [emp |-> e, token |-> 1] \in MaybeContent
    BY Constants DEF MaybeContent, Content
  <2>2. \A u \in User : (\E e \in Staff : UserOf[e] = u) => (CHOOSE e \in Staff : UserOf[e] = u) \in Employee
    BY <1>a DEF Assumptions
  <2> QED
    BY <2>1, <2>2, Constants DEF Init
<1>5. object \in [Device -> Document]
  <2>1. \A d \in Device : machine[d].holder # Nobody => machine[d].holder \in Employee
    BY <1>2 DEF Machine
  <2>2. \A e \in Employee : [user |-> UserOf[e], nonce |-> 0] \in Document
    BY <1>a, Constants DEF Assumptions, Document
  <2> QED
    BY <2>1, <2>2, Constants DEF Init
<1>6. hand \in [Worker -> Hand]
  BY Constants DEF Init
<1>7. agent \in [Device -> Agent]
  <2>1. \A c \in Channels : NewAgent(c) \in Agent
    BY <1>a, Constants DEF Assumptions, NewAgent, Agent
  <2> QED
    BY <2>1 DEF Init
<1>8. /\ profile \in [Device -> [User -> MaybeContent]]
      /\ session \in [Device -> [User -> MaybeContent]]
      /\ local \in [Device -> SUBSET User]
  BY <1>a, Constants DEF Init, Assumptions
<1>9. asker \in [Nonce -> Employee \cup {Nobody}]
  BY DEF Init
<1>10. /\ writing \in BOOLEAN /\ due \subseteq Job /\ failed \subseteq Employee \cup Device /\ events \in Nat /\ toggles \in Nat
       /\ crossed \subseteq Device /\ quiet \subseteq Device
  BY DEF Init
<1> QED
  BY <1>1, <1>2, <1>3, <1>4, <1>5, <1>6, <1>7, <1>8, <1>9, <1>10 DEF TypeOK

-----------------------------------------------------------------------------
(* What each step of a loop makes of what it is doing. *)

\* A record with the fields of a loop is one, if each field is of its type.
LEMMA IsHand ==
  ASSUME NEW h \in Hand, NEW n,
         DOMAIN n = DOMAIN h, n = [z \in DOMAIN n |-> n[z]],
         n.job \in Job \cup {NoJob}, n.pc \in {"idle", "publish", "next", "write"},
         n.content \in MaybeContent, n.epoch \in Epoch, n.image \in Document,
         n.target \in Device \cup {Nobody}, n.locks \in SUBSET (Employee \cup Device),
         n.todo \in SUBSET Device
  PROVE n \in Hand
<1>1. DOMAIN h = {"job", "pc", "content", "epoch", "image", "target", "locks", "todo"}
  BY DEF Hand
<1>2. n = [z \in {"job", "pc", "content", "epoch", "image", "target", "locks", "todo"} |-> n[z]]
  BY <1>1
<1> QED
  BY <1>2 DEF Hand

\* A claimed task leaves the queue; the loop that claimed it has read what to write.
LEMMA ClaimDoes ==
  ASSUME TypeOK, NEW w \in Worker, Claim(w)
  PROVE  \E j \in due, n \in Hand :
           /\ hand[w].pc = "idle" /\ LockFree(w, j.about)
           /\ due' = due \ {j} /\ hand' = [hand EXCEPT ![w] = n]
           /\ n.job = j /\ n.locks = {j.about}
           /\ \/ /\ j.about \in Device /\ n.pc = "write" /\ n.image = Build(j.about) /\ n.target = j.about
                 /\ n.todo = {}
              \/ /\ j.about \in Employee /\ n.pc = "publish"
                 /\ n.content = Deliverable(j.about) /\ n.epoch = account[j.about].epoch
           /\ failed' = failed \ {j.about}
           /\ UNCHANGED <<bundle, archive, object, events, exportFrame>>
<1>1. PICK j \in due :
        LET x == j.about  h == [Idle EXCEPT !.job = j, !.locks = {x}] IN
        /\ LockFree(w, x)
        /\ due' = due \ {j} /\ failed' = failed \ {x}
        /\ hand' = [hand EXCEPT ![w] = IF x \in Device THEN [h EXCEPT !.image = Build(x), !.target = x, !.pc = "write"]
                                       ELSE [h EXCEPT !.content = Deliverable(x), !.epoch = account[x].epoch,
                                                      !.pc = "publish"]]
  BY DEF Claim, Go
<1>2. j \in Job /\ j.about \in Device \cup Employee
  BY Jobs DEF TypeOK
<1>f. hand[w].pc = "idle" /\ UNCHANGED <<bundle, archive, object, events, exportFrame>>
  BY DEF Claim
<1>3. CASE j.about \in Device
  <2>1. PICK n : n = [[Idle EXCEPT !.job = j, !.locks = {j.about}] EXCEPT !.image = Build(j.about), !.target = j.about,
                                                                         !.pc = "write"]
    OBVIOUS
  <2>2. hand' = [hand EXCEPT ![w] = n]
    BY <1>1, <1>3, <2>1
  <2> QED
    <3>1. /\ n \in Hand /\ n.job = j /\ n.locks = {j.about} /\ n.pc = "write" /\ n.image = Build(j.about)
          /\ n.target = j.about /\ n.todo = {}
      <4>1. Build(j.about) \in Document
        BY <1>3, Documents
      <4> QED
        BY <1>2, <1>3, <2>1, <4>1, Constants DEF Idle, Hand
    <3> QED
      BY <1>1, <1>f, <1>3, <2>2, <3>1
<1>4. CASE j.about \notin Device
  <2>1. PICK n : n = [[Idle EXCEPT !.job = j, !.locks = {j.about}] EXCEPT !.content = Deliverable(j.about),
                                                                         !.epoch = account[j.about].epoch, !.pc = "publish"]
    OBVIOUS
  <2>2. hand' = [hand EXCEPT ![w] = n]
    BY <1>1, <1>4, <2>1
  <2> QED
    <3>1. /\ n \in Hand /\ n.job = j /\ n.locks = {j.about} /\ n.pc = "publish" /\ n.content = Deliverable(j.about)
          /\ n.epoch = account[j.about].epoch /\ j.about \in Employee
      <4>1. j.about \in Employee /\ Deliverable(j.about) \in MaybeContent /\ account[j.about].epoch \in Epoch
        BY <1>2, <1>4, Documents DEF TypeOK, Account
      <4> QED
        BY <1>2, <2>1, <4>1, Constants DEF Idle, Hand
    <3> QED
      BY <1>1, <1>f, <2>2, <3>1
<1> QED
  BY <1>3, <1>4

\* Publishing leaves the loop with the machines of the employee to refresh.
LEMMA PublishDoes ==
  ASSUME TypeOK, NEW w \in Worker, Publish(w)
  PROVE  \E n \in Hand :
           LET h == hand[w] IN
           /\ h.pc = "publish" /\ hand' = [hand EXCEPT ![w] = n]
           /\ n.job = h.job /\ n.pc = "next" /\ n.content = h.content /\ n.epoch = h.epoch /\ n.locks = h.locks
           /\ n.image = h.image /\ n.target = h.target
           /\ archive' = IF writing THEN [archive EXCEPT ![UserOf[h.job.about]] = h.content] ELSE archive
           /\ UNCHANGED <<due, failed, bundle, object, events, exportFrame>>
<1> DEFINE T == {d \in Device : machine[d].holder = hand[w].job.about}
<1>1. PICK n : n = [hand[w] EXCEPT !.todo = T, !.pc = "next"]
  OBVIOUS
<1>2. hand[w] \in Hand /\ T \subseteq Device
  BY DEF TypeOK
<1>3. /\ n.job = hand[w].job /\ n.pc = "next" /\ n.content = hand[w].content /\ n.epoch = hand[w].epoch
      /\ n.locks = hand[w].locks /\ n.image = hand[w].image /\ n.target = hand[w].target /\ n.todo = T
      /\ DOMAIN n = DOMAIN hand[w] /\ n = [z \in DOMAIN n |-> n[z]]
  <2> HIDE DEF T
  <2> QED
    BY <1>1, <1>2 DEF Hand
<1>4. n \in Hand
  <2> HIDE DEF T
  <2>1. /\ n.job \in Job \cup {NoJob} /\ n.content \in MaybeContent /\ n.epoch \in Epoch /\ n.image \in Document
        /\ n.target \in Device \cup {Nobody} /\ n.locks \in SUBSET (Employee \cup Device) /\ n.todo \in SUBSET Device
    BY <1>2, <1>3 DEF Hand
  <2> QED
    BY <1>2, <1>3, <2>1, IsHand
<1> QED
  BY <1>1, <1>3, <1>4 DEF Publish, Go

\* Refreshing a machine takes its lock and reads what to write.
LEMMA NextBindingDoes ==
  ASSUME TypeOK, NEW w \in Worker, NextBinding(w)
  PROVE  \E d \in Device, n \in Hand :
           LET h == hand[w] IN
           /\ h.pc = "next" /\ d \in h.todo /\ LockFree(w, d) /\ hand' = [hand EXCEPT ![w] = n]
           /\ n.job = h.job /\ n.pc = "write" /\ n.content = h.content /\ n.epoch = h.epoch
           /\ n.locks = h.locks \cup {d} /\ n.image = Build(d) /\ n.target = d
           /\ UNCHANGED <<due, storeVars, events, exportFrame>>
<1>1. PICK d \in hand[w].todo :
        /\ LockFree(w, d)
        /\ hand' = [hand EXCEPT ![w] = [hand[w] EXCEPT !.locks = @ \cup {d}, !.image = Build(d), !.target = d,
                                                      !.todo = @ \ {d}, !.pc = "write"]]
  BY DEF NextBinding, Go
<1>2. PICK n : n = [hand[w] EXCEPT !.locks = @ \cup {d}, !.image = Build(d), !.target = d,
                                  !.todo = @ \ {d}, !.pc = "write"]
  OBVIOUS
<1>3. hand[w] \in Hand /\ d \in Device
  BY DEF TypeOK, Hand
<1>4. Build(d) \in Document
  BY <1>3, Documents
<1>5. /\ n.job = hand[w].job /\ n.pc = "write" /\ n.content = hand[w].content /\ n.epoch = hand[w].epoch
      /\ n.locks = hand[w].locks \cup {d} /\ n.image = Build(d) /\ n.target = d /\ n.todo = hand[w].todo \ {d}
      /\ DOMAIN n = DOMAIN hand[w] /\ n = [z \in DOMAIN n |-> n[z]]
  BY <1>2, <1>3 DEF Hand
<1>6. n \in Hand
  <2>1. /\ n.job \in Job \cup {NoJob} /\ n.content \in MaybeContent /\ n.epoch \in Epoch /\ n.image \in Document
        /\ n.target \in Device \cup {Nobody} /\ n.locks \in SUBSET (Employee \cup Device) /\ n.todo \in SUBSET Device
    BY <1>3, <1>4, <1>5 DEF Hand
  <2> QED
    BY <1>3, <1>5, <2>1, IsHand
<1> QED
  BY <1>1, <1>2, <1>3, <1>5, <1>6 DEF NextBinding

\* Writing a binding changes nothing else of what the loop is doing.
LEMMA WriteBindingDoes ==
  ASSUME TypeOK, NEW w \in Worker, WriteBinding(w)
  PROVE  \E n \in Hand :
           LET h == hand[w] IN
           /\ h.pc = "write" /\ hand' = [hand EXCEPT ![w] = n]
           /\ n.job = h.job /\ n.pc = "next" /\ n.content = h.content /\ n.epoch = h.epoch /\ n.locks = h.locks
           /\ n.image = h.image /\ n.target = h.target /\ n.todo = h.todo
           /\ object' = IF writing THEN [object EXCEPT ![h.target] = h.image] ELSE object
           /\ UNCHANGED <<due, failed, bundle, archive, events, exportFrame>>
<1>1. PICK n : n = [hand[w] EXCEPT !.pc = "next"]
  OBVIOUS
<1>2. hand[w] \in Hand
  BY DEF TypeOK
<1>3. /\ n \in Hand /\ n.job = hand[w].job /\ n.pc = "next" /\ n.content = hand[w].content /\ n.epoch = hand[w].epoch
      /\ n.locks = hand[w].locks /\ n.image = hand[w].image /\ n.target = hand[w].target /\ n.todo = hand[w].todo
  BY <1>1, <1>2 DEF Hand
<1> QED
  BY <1>1, <1>3 DEF WriteBinding, Go

-----------------------------------------------------------------------------
(* What each step of a cycle makes of the agent. *)

\* What stays of an agent that ends its cycle.
LEMMA RestedIs ==
  ASSUME NEW a \in Agent, NEW n, n = Rested(a)
  PROVE  /\ n \in Agent /\ n.pc = "rest" /\ n.bind = a.bind /\ n.channel = a.channel /\ n.noted = a.noted
         /\ n.cut = a.cut /\ n.left = a.left /\ n.ends = {} /\ n.mark = a.mark
<1>1. /\ n.channel = a.channel /\ n.pc = "rest" /\ n.bind = a.bind /\ n.mark = a.mark /\ n.etag = NoMark
      /\ n.ends = {} /\ n.swept = FALSE /\ n.noted = a.noted /\ n.left = a.left /\ n.cut = a.cut
  BY DEF Rested, Agent
<1>2. n = [z \in {"channel", "pc", "bind", "mark", "etag", "ends", "swept", "noted", "left", "cut"} |-> n[z]]
  BY DEF Rested, Agent
<1>3. n \in Agent
  BY <1>1, <1>2, Constants DEF Agent
<1> QED
  BY <1>1, <1>3

\* What follows the credentials is a pending request or the end.
LEMMA OnwardIs ==
  ASSUME NEW d, NEW a \in Agent, NEW n, n = Onward(d, a)
  PROVE  /\ n \in Agent /\ n.pc \in {"rest", "nudge"} /\ n.bind = a.bind /\ n.channel = a.channel
         /\ n.noted = a.noted /\ n.cut = a.cut /\ n.left = a.left /\ n.mark = a.mark
         /\ n.pc = "nudge" => n.bind.nonce # 0 /\ n.noted # n.bind.nonce
<1>1. CASE Pending(d, a)
  <2>1. n = [a EXCEPT !.pc = "nudge"]
    BY <1>1 DEF Onward
  <2>2. n \in Agent /\ n.pc = "nudge" /\ n.bind = a.bind /\ n.channel = a.channel /\ n.noted = a.noted /\ n.cut = a.cut
        /\ n.left = a.left /\ n.mark = a.mark
    BY <2>1 DEF Agent
  <2> QED
    BY <1>1, <2>2 DEF Pending
<1>2. CASE ~Pending(d, a)
  BY <1>2, RestedIs DEF Onward
<1> QED
  BY <1>1, <1>2

\* A cycle begins with a document and knows from it what to do.
LEMMA BegunIs ==
  ASSUME TypeOK, NEW d \in Device, NEW doc \in Document, NEW n, n = Begun(d, doc)
  PROVE  /\ n \in Agent /\ n.pc \in {"rest", "ask", "revoke"} /\ n.bind = doc /\ n.channel = agent[d].channel
         /\ n.noted = agent[d].noted /\ n.cut = agent[d].cut /\ n.left = agent[d].left
         /\ n.pc = "ask" => doc.user \in User \cap local[d]
         /\ n.pc = "revoke" => doc.user = NoUser
<1>1. agent[d] \in Agent /\ doc.user \in User \cup {NoUser}
  BY DEF TypeOK, Document
<1>2. PICK my : my = [agent[d] EXCEPT !.bind = doc]
  OBVIOUS
<1>3. /\ my \in Agent /\ my.bind = doc /\ my.channel = agent[d].channel /\ my.noted = agent[d].noted
      /\ my.cut = agent[d].cut /\ my.left = agent[d].left
  BY <1>1, <1>2 DEF Agent
<1>4. CASE doc.user = NoUser
  <2>1. n = [my EXCEPT !.pc = "revoke"]
    BY <1>2, <1>4 DEF Begun
  <2>2. /\ n \in Agent /\ n.pc = "revoke" /\ n.bind = doc /\ n.channel = my.channel /\ n.noted = my.noted
        /\ n.cut = my.cut /\ n.left = my.left
    BY <1>3, <2>1 DEF Agent
  <2> QED
    BY <1>3, <1>4, <2>2
<1>5. CASE doc.user # NoUser /\ doc.user \in local[d]
  <2>1. n = [my EXCEPT !.pc = "ask"]
    BY <1>2, <1>5 DEF Begun
  <2>2. /\ n \in Agent /\ n.pc = "ask" /\ n.bind = doc /\ n.channel = my.channel /\ n.noted = my.noted
        /\ n.cut = my.cut /\ n.left = my.left
    BY <1>3, <2>1 DEF Agent
  <2> QED
    BY <1>1, <1>3, <1>5, <2>2
<1>6. CASE doc.user # NoUser /\ doc.user \notin local[d]
  <2>1. n = Rested(my)
    BY <1>2, <1>6 DEF Begun
  <2> QED
    BY <1>3, <2>1, RestedIs
<1> QED
  BY <1>4, <1>5, <1>6

\* What is served, and what an agent is answered, is nothing or somebody's token.
LEMMA Answers ==
  ASSUME TypeOK, NEW d \in Device, agent[d].bind.user \in User
  PROVE  /\ Answer(d) \in Mark
         /\ Answer(d) # NoMark => Answer(d).content \in Content /\ Answer(d).content # Nothing
         /\ agent[d].channel = "oss" /\ Answer(d) # NoMark => Answer(d).content = archive[agent[d].bind.user]
         /\ agent[d].channel = "oss" /\ Answer(d) = NoMark => archive[agent[d].bind.user] = Nothing
<1>0. agent[d].channel \in {"oss", "api"}
  BY DEF TypeOK, Agent
<1>1. \A u \in User : archive[u] # Nothing =>
        /\ archive[u] \in Content
        /\ [via |-> "oss", content |-> archive[u]] \in Mark
        /\ [via |-> "oss", content |-> archive[u]].content = archive[u]
        /\ [via |-> "oss", content |-> archive[u]] # NoMark
  BY DEF TypeOK, MaybeContent, Mark, NoMark
<1>2. CASE agent[d].channel = "oss"
  BY <1>1, <1>2, Constants DEF Answer
<1>3. CASE agent[d].channel = "api"
  <2>1. CASE machine[d].holder = Nobody
    BY <1>3, <2>1, Constants DEF Answer, Served
  <2>2. CASE machine[d].holder # Nobody
    <3> DEFINE e == machine[d].holder
    <3>1. e \in Employee /\ UserOf[e] \in User /\ bundle[e].token \in Epoch
      BY <2>2, DeliveryAssumption DEF TypeOK, Machine, Assumptions
    <3>2. [via |-> "api", content |-> [emp |-> e, token |-> bundle[e].token]] \in Mark
          /\ [emp |-> e, token |-> bundle[e].token] \in Content /\ [emp |-> e, token |-> bundle[e].token] # Nothing
      BY <2>2, <3>1 DEF Mark, MaybeContent, Content, Nothing
    <3> QED
      BY <1>1, <1>3, <2>2, <3>1, <3>2, Constants DEF Answer, Served
  <2> QED
    BY <2>1, <2>2
<1> QED
  BY <1>0, <1>2, <1>3

\* An agent that goes on with the cycle it is in; and one that ends it, or sees to a request.
Keeps(a, n) ==
  n \in Agent /\ n.bind = a.bind /\ n.channel = a.channel /\ n.noted = a.noted /\ n.cut = a.cut
Done(n) ==
  n.pc \in {"rest", "nudge"} /\ (n.pc = "nudge" => n.bind.nonce # 0 /\ n.noted # n.bind.nonce)

\* An agent that is turned into another.
LEMMA Turned ==
  ASSUME TypeOK, NEW d \in Device, NEW n, Turn(d, n)
  PROVE  agent'[d] = n /\ \A c \in Device \ {d} : agent'[c] = agent[c]
BY DEF Turn, TypeOK

\* At one machine, what some users have is replaced.
Files == [Device -> [User -> MaybeContent]]
Replaced(p, q, d, S, c) ==
  /\ q \in Files
  /\ \A v \in User : q[d][v] = IF v \in S THEN c ELSE p[d][v]
  /\ \A x \in Device \ {d} : q[x] = p[x]

\* One user's.
LEMMA ReplacedForOne ==
  ASSUME NEW p \in Files, NEW d \in Device, NEW u, NEW c \in MaybeContent, NEW q, q = [p EXCEPT ![d][u] = c]
  PROVE  Replaced(p, q, d, {u}, c)
<1>1. q[d] = [p[d] EXCEPT ![u] = c] /\ q \in Files /\ \A x \in Device \ {d} : q[x] = p[x]
  BY DEF Files
<1>2. p[d] \in [User -> MaybeContent]
  BY DEF Files
<1> QED
  BY <1>1, <1>2 DEF Replaced

\* Those of several.
LEMMA ReplacedForSome ==
  ASSUME NEW p \in Files, NEW d \in Device, NEW S, NEW c \in MaybeContent,
         NEW q, q = [p EXCEPT ![d] = [u \in User |-> IF u \in S THEN c ELSE p[d][u]]]
  PROVE  Replaced(p, q, d, S, c)
<1> DEFINE r == [u \in User |-> IF u \in S THEN c ELSE p[d][u]]
<1>1. r \in [User -> MaybeContent] /\ \A v \in User : r[v] = IF v \in S THEN c ELSE p[d][v]
  BY DEF Files
<1> HIDE DEF r
<1>2. q[d] = r /\ q \in Files /\ \A x \in Device \ {d} : q[x] = p[x]
  <2>1. q = [p EXCEPT ![d] = r]
    BY DEF r
  <2> QED
    BY <1>1, <2>1 DEF Files
<1> QED
  BY <1>1, <1>2 DEF Replaced

\* An agent with other marks, steps and users, and for the rest the one it was.
Remake(a, m, t, E, L, k, p) ==
  [a EXCEPT !.mark = m, !.etag = t, !.ends = E, !.left = L, !.cut = k, !.pc = p]

LEMMA Remade ==
  ASSUME NEW a \in Agent, NEW m \in Mark, NEW t \in Mark, NEW E \in SUBSET User, NEW L \in SUBSET User,
         NEW k \in BOOLEAN, NEW p \in {"rest", "ask", "mark", "revoke", "end", "nudge", "noted"},
         NEW n, n = Remake(a, m, t, E, L, k, p)
  PROVE  /\ n \in Agent /\ n.pc = p /\ n.ends = E /\ n.left = L /\ n.cut = k /\ n.mark = m
         /\ n.bind = a.bind /\ n.channel = a.channel /\ n.noted = a.noted
<1>1. /\ n.channel = a.channel /\ n.pc = p /\ n.bind = a.bind /\ n.mark = m /\ n.etag = t /\ n.ends = E
      /\ n.swept = a.swept /\ n.noted = a.noted /\ n.left = L /\ n.cut = k
      /\ n = [z \in {"channel", "pc", "bind", "mark", "etag", "ends", "swept", "noted", "left", "cut"} |-> n[z]]
  BY DEF Agent, Remake
<1>2. n \in Agent
  BY <1>1 DEF Agent
<1> QED
  BY <1>1, <1>2

\* The fields of an agent are of their types.
LEMMA Fields ==
  ASSUME NEW a \in Agent
  PROVE  /\ a.mark \in Mark /\ a.etag \in Mark /\ a.ends \in SUBSET User /\ a.left \in SUBSET User
         /\ a.cut \in BOOLEAN /\ a.pc \in {"rest", "ask", "mark", "revoke", "end", "nudge", "noted"}
BY DEF Agent

\* The files are taken away, and then the Codex that has read them is ended.
LEMMA WithdrawDoes ==
  ASSUME TypeOK, Bound, NEW d \in Device, Withdraw(d)
  PROVE  LET u == agent[d].bind.user IN
         /\ agent[d].pc = "ask" /\ u \in User /\ Answer(d) = NoMark
         /\ Replaced(profile, profile', d, {u}, Nothing)
         /\ \E n : /\ Turn(d, n) /\ Keeps(agent[d], n)
                  /\ \/ u \notin Managed(d) /\ Done(n) /\ n.left = agent[d].left
                     \/ n.pc = "end" /\ n.ends = {u} /\ n.left = agent[d].left \ {u}
         /\ UNCHANGED <<session, local, events, crossed, quiet, deskFrame>>
<1> DEFINE u == agent[d].bind.user
<1>1. agent[d] \in Agent /\ agent[d].pc = "ask" /\ u \in User
  BY DEF TypeOK, Withdraw, Bound
<1>r. Replaced(profile, profile', d, {u}, Nothing)
  <2>1. profile' = [profile EXCEPT ![d][u] = Nothing] /\ profile \in Files
    BY DEF Withdraw, TypeOK, Files
  <2> QED
    BY <2>1, ReplacedForOne, Constants
<1>2. CASE u \notin Managed(d)
  <2>1. PICK n : n = Onward(d, agent[d])
    OBVIOUS
  <2>2. Turn(d, n)
    BY <1>2, <2>1 DEF Withdraw
  <2>3. Keeps(agent[d], n) /\ Done(n) /\ n.left = agent[d].left
    BY <1>1, <2>1, OnwardIs DEF Keeps, Done
  <2> QED
    BY <1>1, <1>r, <1>2, <2>2, <2>3 DEF Withdraw
<1>3. CASE u \in Managed(d)
  <2>0. PICK E, L : E = {u} /\ L = agent[d].left \ {u}
    OBVIOUS
  <2>1. PICK n : n = [agent[d] EXCEPT !.mark = NoMark, !.left = L, !.ends = E, !.pc = "end"]
    OBVIOUS
  <2>2. Turn(d, n)
    BY <1>3, <2>0, <2>1 DEF Withdraw
  <2>3. Keeps(agent[d], n) /\ n.pc = "end" /\ n.ends = E /\ n.left = L
    <3>1. E \in SUBSET User /\ L \in SUBSET User /\ agent[d].etag \in Mark /\ agent[d].cut \in BOOLEAN /\ NoMark \in Mark
      BY <1>1, <2>0, Fields, Constants
    <3>2. n = Remake(agent[d], NoMark, agent[d].etag, E, L, agent[d].cut, "end")
      BY <1>1, <2>1 DEF Agent, Remake
    <3> QED
      BY <1>1, <3>1, <3>2, Remade DEF Keeps
  <2> QED
    BY <1>1, <1>r, <2>0, <2>2, <2>3 DEF Withdraw
<1> QED
  BY <1>2, <1>3

\* The token's file is taken away, and another one stays.
LEMMA WithdrawFailsDoes ==
  ASSUME TypeOK, Bound, NEW d \in Device, WithdrawFails(d)
  PROVE  LET u == agent[d].bind.user IN
         /\ agent[d].pc = "ask" /\ u \in User /\ Answer(d) = NoMark
         /\ Replaced(profile, profile', d, {u}, Nothing)
         /\ \E n : Turn(d, n) /\ Keeps(agent[d], n) /\ Done(n) /\ n.left = agent[d].left \cup {u}
         /\ Mishap("files") /\ UNCHANGED <<session, local, crossed, quiet, deskFrame>>
<1> DEFINE u == agent[d].bind.user
<1>1. agent[d] \in Agent /\ agent[d].pc = "ask" /\ u \in User
  BY DEF TypeOK, WithdrawFails, Bound
<1>r. Replaced(profile, profile', d, {u}, Nothing)
  <2>1. profile' = [profile EXCEPT ![d][u] = Nothing] /\ profile \in Files
    BY DEF WithdrawFails, TypeOK, Files
  <2> QED
    BY <2>1, ReplacedForOne, Constants
<1>2. PICK L : L = agent[d].left \cup {u}
  OBVIOUS
<1>3. PICK b : b = [agent[d] EXCEPT !.left = L]
  OBVIOUS
<1>4. Keeps(agent[d], b) /\ b.left = L
  <2>1. L \in SUBSET User /\ agent[d].etag \in Mark /\ agent[d].mark \in Mark /\ agent[d].ends \in SUBSET User
        /\ agent[d].cut \in BOOLEAN
    BY <1>1, <1>2, Fields
  <2>2. b = Remake(agent[d], agent[d].mark, agent[d].etag, agent[d].ends, L, agent[d].cut, "ask")
    BY <1>1, <1>3 DEF Agent, Remake
  <2> QED
    BY <1>1, <2>1, <2>2, Remade DEF Keeps
<1>5. PICK n : n = Onward(d, b)
  OBVIOUS
<1>6. Turn(d, n)
  BY <1>2, <1>3, <1>5 DEF WithdrawFails
<1>7. Keeps(agent[d], n) /\ Done(n) /\ n.left = L
  BY <1>4, <1>5, OnwardIs DEF Keeps, Done
<1> QED
  BY <1>1, <1>r, <1>2, <1>6, <1>7 DEF WithdrawFails

\* What is there already, or was not answered, changes nothing but the step of the cycle.
LEMMA PassDoes ==
  ASSUME TypeOK, Bound, NEW d \in Device, Unchanged(d) \/ NoAnswer(d)
  PROVE  /\ agent[d].pc = "ask"
         /\ \E n : Turn(d, n) /\ Keeps(agent[d], n) /\ Done(n) /\ n.left = agent[d].left
         /\ UNCHANGED <<profile, session, local, crossed, quiet, deskFrame>>
<1>1. agent[d] \in Agent /\ agent[d].pc = "ask"
  BY DEF TypeOK, Unchanged, NoAnswer
<1>2. PICK n : n = Onward(d, agent[d])
  OBVIOUS
<1>3. Turn(d, n)
  BY <1>2 DEF Unchanged, NoAnswer
<1>4. Keeps(agent[d], n) /\ Done(n) /\ n.left = agent[d].left
  BY <1>1, <1>2, OnwardIs DEF Keeps, Done
<1> QED
  BY <1>1, <1>3, <1>4 DEF Unchanged, NoAnswer

\* The files are put into the profile of the user of the cycle, before the marker.
LEMMA DeployDoes ==
  ASSUME TypeOK, Bound, NEW d \in Device, Deploy(d)
  PROVE  LET u == agent[d].bind.user  c == Answer(d).content IN
         /\ agent[d].pc = "ask" /\ u \in User /\ c \in Content /\ c # Nothing /\ Answer(d) # NoMark
         /\ Replaced(profile, profile', d, {u}, c)
         /\ \E n : /\ Turn(d, n) /\ Keeps(agent[d], n) /\ n.pc = "mark" /\ n.left = agent[d].left \ {u}
                  /\ n.ends = IF profile[d][u] = c THEN {} ELSE {u}
         /\ UNCHANGED <<session, local, events, crossed, quiet, deskFrame>>
<1> DEFINE u == agent[d].bind.user
           c == Answer(d).content
<1>1. agent[d] \in Agent /\ agent[d].pc = "ask" /\ u \in User
  BY DEF TypeOK, Deploy, Bound
<1>2. Answer(d) \in Mark /\ c \in Content /\ c # Nothing /\ Answer(d) # NoMark
  BY <1>1, Answers DEF Deploy
<1>0. PICK E, L : E = (IF profile[d][u] = c THEN {} ELSE {u}) /\ L = agent[d].left \ {u}
  OBVIOUS
<1>3. PICK n : n = [agent[d] EXCEPT !.etag = Answer(d), !.left = L, !.pc = "mark", !.ends = E]
  OBVIOUS
<1>4. Turn(d, n)
  BY <1>0, <1>3 DEF Deploy
<1>5. Keeps(agent[d], n) /\ n.pc = "mark" /\ n.ends = E /\ n.left = L
  <2>1. E \in SUBSET User /\ L \in SUBSET User /\ agent[d].mark \in Mark /\ agent[d].cut \in BOOLEAN
    BY <1>0, <1>1, Fields
  <2>2. PICK t : t = Answer(d)
    OBVIOUS
  <2>3. n = Remake(agent[d], agent[d].mark, t, E, L, agent[d].cut, "mark")
    BY <1>1, <1>3, <2>2 DEF Agent, Remake
  <2> QED
    BY <1>1, <1>2, <2>1, <2>2, <2>3, Remade DEF Keeps
<1>7. Replaced(profile, profile', d, {u}, c)
  <2>1. profile' = [profile EXCEPT ![d][u] = c] /\ profile \in Files /\ c \in MaybeContent
    BY <1>2 DEF Deploy, TypeOK, Files, MaybeContent
  <2> HIDE DEF u, c
  <2> QED
    BY <2>1, ReplacedForOne
<1> QED
  BY <1>0, <1>1, <1>2, <1>4, <1>5, <1>7 DEF Deploy

\* The token's file is put there, and the delivery goes no further.
LEMMA DeployFailsDoes ==
  ASSUME TypeOK, Bound, NEW d \in Device, DeployFails(d)
  PROVE  LET u == agent[d].bind.user  c == Answer(d).content IN
         /\ agent[d].pc = "ask" /\ u \in User /\ c \in Content /\ c # Nothing /\ Answer(d) # NoMark
         /\ Replaced(profile, profile', d, {u}, c)
         /\ \E n : /\ Turn(d, n) /\ n \in Agent /\ n.bind = agent[d].bind /\ n.channel = agent[d].channel
                  /\ n.noted = agent[d].noted /\ n.cut = TRUE /\ n.left = agent[d].left \ {u} /\ Done(n)
         /\ Mishap("files") /\ UNCHANGED <<session, local, crossed, quiet, deskFrame>>
<1> DEFINE u == agent[d].bind.user
           c == Answer(d).content
<1>1. agent[d] \in Agent /\ agent[d].pc = "ask" /\ u \in User
  BY DEF TypeOK, DeployFails, Bound
<1>2. c \in Content /\ c # Nothing /\ Answer(d) # NoMark
  BY <1>1, Answers DEF DeployFails
<1>0. PICK L : L = agent[d].left \ {u}
  OBVIOUS
<1>3. PICK b : b = [agent[d] EXCEPT !.left = L, !.cut = TRUE]
  OBVIOUS
<1>4. /\ b \in Agent /\ b.bind = agent[d].bind /\ b.channel = agent[d].channel /\ b.noted = agent[d].noted
      /\ b.cut = TRUE /\ b.left = L
  <2>0. PICK yes \in BOOLEAN : yes = TRUE
    OBVIOUS
  <2>1. /\ L \in SUBSET User /\ agent[d].etag \in Mark /\ agent[d].mark \in Mark /\ agent[d].ends \in SUBSET User
        /\ yes \in BOOLEAN
    BY <1>0, <1>1, <2>0, Fields
  <2>2. b = Remake(agent[d], agent[d].mark, agent[d].etag, agent[d].ends, L, yes, "ask")
    BY <1>1, <1>3, <2>0 DEF Agent, Remake
  <2>3. b.bind = agent[d].bind /\ b.channel = agent[d].channel /\ b.noted = agent[d].noted /\ b.cut = yes /\ b.left = L
        /\ b \in Agent
    BY <1>1, <2>1, <2>2, Remade
  <2> QED
    BY <2>0, <2>3
<1>5. PICK n : n = Onward(d, b)
  OBVIOUS
<1>6. Turn(d, n)
  BY <1>0, <1>3, <1>5 DEF DeployFails
<1>8. /\ n \in Agent /\ n.bind = agent[d].bind /\ n.channel = agent[d].channel /\ n.noted = agent[d].noted
      /\ n.cut = TRUE /\ n.left = L /\ Done(n)
  BY <1>4, <1>5, OnwardIs DEF Done
<1>7. Replaced(profile, profile', d, {u}, c)
  <2>1. profile' = [profile EXCEPT ![d][u] = c] /\ profile \in Files /\ c \in MaybeContent
    BY <1>2 DEF DeployFails, TypeOK, Files, MaybeContent
  <2> HIDE DEF u, c
  <2> QED
    BY <2>1, ReplacedForOne
<1> QED
  BY <1>0, <1>1, <1>2, <1>6, <1>7, <1>8 DEF DeployFails

\* The marker is written; a Codex that holds another token is ended next.
LEMMA WriteMarkDoes ==
  ASSUME TypeOK, NEW d \in Device, WriteMark(d)
  PROVE  /\ agent[d].pc = "mark"
         /\ \E n : /\ Turn(d, n) /\ Keeps(agent[d], n) /\ n.left = agent[d].left
                  /\ \/ agent[d].ends = {} /\ Done(n)
                     \/ n.pc = "end" /\ n.ends = agent[d].ends
         /\ UNCHANGED <<profile, session, local, events, crossed, quiet, deskFrame>>
<1> DEFINE a == agent[d]
<1>1. a \in Agent /\ a.etag \in Mark /\ a.ends \in SUBSET User
  BY DEF TypeOK, Agent
<1>2. CASE a.ends = {}
  <2>1. PICK b : b = [a EXCEPT !.mark = a.etag]
    OBVIOUS
  <2>2. PICK n : n = Onward(d, b)
    OBVIOUS
  <2>3. Turn(d, n)
    BY <1>2, <2>1, <2>2 DEF WriteMark
  <2>4. b \in Agent /\ b.bind = a.bind /\ b.channel = a.channel /\ b.noted = a.noted /\ b.cut = a.cut /\ b.left = a.left
    BY <1>1, <2>1 DEF Agent
  <2>5. Keeps(a, n) /\ Done(n) /\ n.left = a.left
    BY <2>2, <2>4, OnwardIs DEF Keeps, Done
  <2> QED
    BY <1>2, <2>3, <2>5 DEF WriteMark
<1>3. CASE a.ends # {}
  <2>1. PICK n : n = [a EXCEPT !.mark = a.etag, !.pc = "end"]
    OBVIOUS
  <2>2. Turn(d, n)
    BY <1>3, <2>1 DEF WriteMark
  <2>3. Keeps(a, n) /\ n.pc = "end" /\ n.ends = a.ends /\ n.left = a.left
    <3>1. /\ n.channel = a.channel /\ n.pc = "end" /\ n.bind = a.bind /\ n.mark = a.etag /\ n.etag = a.etag
          /\ n.ends = a.ends /\ n.swept = a.swept /\ n.noted = a.noted /\ n.left = a.left /\ n.cut = a.cut
          /\ n = [z \in {"channel", "pc", "bind", "mark", "etag", "ends", "swept", "noted", "left", "cut"} |-> n[z]]
      BY <1>1, <2>1 DEF Agent
    <3>2. n \in Agent
      BY <1>1, <3>1 DEF Agent
    <3> QED
      BY <3>1, <3>2 DEF Keeps
  <2> QED
    BY <2>2, <2>3 DEF WriteMark
<1> QED
  BY <1>2, <1>3

\* With nobody assigned the files leave every profile there is, but for what stays.
LEMMA RevokeDoes ==
  ASSUME TypeOK, NEW d \in Device, NEW half \in SUBSET Managed(d), NEW kept, Revoke(d, half, kept)
  PROVE  /\ agent[d].pc = "revoke"
         /\ Replaced(profile, profile', d, local[d] \ kept, Nothing)
         /\ \E n : /\ Turn(d, n) /\ Keeps(agent[d], n) /\ n.pc = "end"
                  /\ n.ends = Managed(d) \ (half \cup kept) /\ n.left = half
         /\ UNCHANGED <<session, local, crossed, quiet, deskFrame>>
<1> DEFINE a == agent[d]
<1>0. PICK E, L, S : E = Managed(d) \ (half \cup kept) /\ L = half /\ S = local[d] \ kept
  OBVIOUS
<1>1. a \in Agent /\ E \in SUBSET User /\ L \in SUBSET User
  BY <1>0 DEF TypeOK, Managed
<1>2. PICK n : n = [a EXCEPT !.left = L, !.ends = E, !.pc = "end"]
  OBVIOUS
<1>3. Turn(d, n)
  BY <1>0, <1>2 DEF Revoke
<1>4. Keeps(a, n) /\ n.pc = "end" /\ n.ends = E /\ n.left = L
  <2>1. n = Remake(a, a.mark, a.etag, E, L, a.cut, "end")
    BY <1>1, <1>2 DEF Agent, Remake
  <2> QED
    BY <1>1, <2>1, Fields, Remade DEF Keeps
<1>5. profile' = [profile EXCEPT ![d] = [u \in User |-> IF u \in S THEN Nothing ELSE profile[d][u]]]
  BY <1>0 DEF Revoke
<1>6. Replaced(profile, profile', d, S, Nothing)
  <2>1. profile \in Files
    BY DEF TypeOK, Files
  <2> QED
    BY <1>5, <2>1, ReplacedForSome, Constants
<1> QED
  BY <1>0, <1>3, <1>4, <1>6 DEF Revoke

\* What stays when something does is the files of users who have some.
Spared(d, half, kept) ==
  half \in SUBSET Managed(d) /\ kept \cap half = {} /\ \A u \in kept : profile[d][u] # Nothing

\* Both ways in which files are taken from every profile.
LEMMA RevokeAllDoes ==
  ASSUME TypeOK, NEW d \in Device, RevokeAll(d) \/ RevokeFails(d)
  PROVE  \E half, kept :
           /\ agent[d].pc = "revoke" /\ Spared(d, half, kept)
           /\ Replaced(profile, profile', d, local[d] \ kept, Nothing)
           /\ \E n : /\ Turn(d, n) /\ Keeps(agent[d], n) /\ n.pc = "end"
                    /\ n.ends = Managed(d) \ (half \cup kept) /\ n.left = half
           /\ UNCHANGED events \/ Mishap("files")
           /\ UNCHANGED <<session, local, crossed, quiet, deskFrame>>
<1>1. PICK half, kept : /\ half \in SUBSET Managed(d) /\ Spared(d, half, kept) /\ Revoke(d, half, kept)
                        /\ UNCHANGED events \/ Mishap("files")
  <2>1. CASE RevokeAll(d)
    <3>1. PICK none : none = {}
      OBVIOUS
    <3>2. Revoke(d, none, none) /\ UNCHANGED events
      BY <2>1, <3>1 DEF RevokeAll
    <3>3. none \in SUBSET Managed(d) /\ Spared(d, none, none)
      BY <3>1 DEF Spared
    <3> QED
      BY <3>2, <3>3
  <2>2. CASE RevokeFails(d)
    <3>1. PICK half \in SUBSET Managed(d) : \E kept \in SUBSET {u \in Managed(d) \ half : profile[d][u] # Nothing} :
            Revoke(d, half, kept)
      BY <2>2 DEF RevokeFails
    <3>2. PICK kept \in SUBSET {u \in Managed(d) \ half : profile[d][u] # Nothing} : Revoke(d, half, kept)
      BY <3>1
    <3>3. Spared(d, half, kept)
      BY <3>2 DEF Spared
    <3> QED
      BY <2>2, <3>2, <3>3 DEF RevokeFails
  <2> QED
    BY <2>1, <2>2
<1>2. /\ agent[d].pc = "revoke"
      /\ Replaced(profile, profile', d, local[d] \ kept, Nothing)
      /\ \E n : /\ Turn(d, n) /\ Keeps(agent[d], n) /\ n.pc = "end"
               /\ n.ends = Managed(d) \ (half \cup kept) /\ n.left = half
      /\ UNCHANGED <<session, local, crossed, quiet, deskFrame>>
  BY <1>1, RevokeDoes
<1> QED
  BY <1>1, <1>2

\* What follows the end of a Codex.
LEMMA AfterEndIs ==
  ASSUME NEW d, NEW a \in Agent, NEW n, n = AfterEnd(d, a)
  PROVE  Keeps(a, n) /\ Done(n) /\ n.left = a.left
<1>1. CASE a.bind.user = NoUser
  <2>1. PICK b : b = [a EXCEPT !.mark = NoMark]
    OBVIOUS
  <2>2. b \in Agent /\ b.bind = a.bind /\ b.channel = a.channel /\ b.noted = a.noted /\ b.cut = a.cut /\ b.left = a.left
    BY <2>1, Constants DEF Agent
  <2>3. n = Rested(b)
    BY <1>1, <2>1 DEF AfterEnd
  <2> QED
    BY <2>2, <2>3, RestedIs DEF Keeps, Done
<1>2. CASE a.bind.user # NoUser
  <2>1. PICK b : b = [a EXCEPT !.swept = TRUE]
    OBVIOUS
  <2>2. b \in Agent /\ b.bind = a.bind /\ b.channel = a.channel /\ b.noted = a.noted /\ b.cut = a.cut /\ b.left = a.left
    BY <2>1 DEF Agent
  <2>3. n = Onward(d, b)
    BY <1>2, <2>1 DEF AfterEnd
  <2> QED
    BY <2>2, <2>3, OnwardIs DEF Keeps, Done
<1> QED
  BY <1>1, <1>2

\* The Codex of those whose files went is ended; the cycle goes on.
LEMMA StopCodexDoes ==
  ASSUME TypeOK, NEW d \in Device, StopCodex(d)
  PROVE  /\ agent[d].pc = "end"
         /\ Replaced(session, session', d, agent[d].ends, Nothing)
         /\ \E n : Turn(d, n) /\ Keeps(agent[d], n) /\ Done(n) /\ n.left = agent[d].left
         /\ UNCHANGED <<profile, local, events, crossed, quiet, deskFrame>>
<1>1. agent[d] \in Agent
  BY DEF TypeOK
<1>2. PICK n : n = AfterEnd(d, agent[d])
  OBVIOUS
<1>3. Turn(d, n)
  BY <1>2 DEF StopCodex
<1>4. Keeps(agent[d], n) /\ Done(n) /\ n.left = agent[d].left
  BY <1>1, <1>2, AfterEndIs
<1>5. session' = [session EXCEPT ![d] = [u \in User |-> IF u \in agent[d].ends THEN Nothing ELSE session[d][u]]]
  BY DEF StopCodex
<1>6. Replaced(session, session', d, agent[d].ends, Nothing)
  <2>1. session \in Files
    BY DEF TypeOK, Files
  <2> QED
    BY <1>5, <2>1, ReplacedForSome, Constants
<1> QED
  BY <1>3, <1>4, <1>6 DEF StopCodex

\* A kill that is refused is noted in the history.
LEMMA StopCodexFailsDoes ==
  ASSUME TypeOK, NEW d \in Device, StopCodexFails(d)
  PROVE  /\ agent[d].pc = "end"
         /\ \E n : /\ Turn(d, n) /\ n \in Agent /\ n.bind = agent[d].bind /\ n.channel = agent[d].channel
                  /\ n.noted = agent[d].noted /\ n.left = agent[d].left /\ n.cut = TRUE /\ Done(n)
         /\ UNCHANGED <<profile, session, local, crossed, quiet, deskFrame>>
<1>1. agent[d] \in Agent
  BY DEF TypeOK
<1>2. PICK b : b = AfterEnd(d, agent[d])
  OBVIOUS
<1>3. Keeps(agent[d], b) /\ Done(b) /\ b.left = agent[d].left
  BY <1>1, <1>2, AfterEndIs
<1>4. PICK n : n = [b EXCEPT !.cut = TRUE]
  OBVIOUS
<1>5. Turn(d, n)
  BY <1>2, <1>4 DEF StopCodexFails
<1>6. n \in Agent /\ n.bind = b.bind /\ n.channel = b.channel /\ n.noted = b.noted /\ n.cut = TRUE /\ n.pc = b.pc
      /\ n.left = b.left
  BY <1>3, <1>4 DEF Keeps, Agent
<1>7. Done(n) /\ n.bind = agent[d].bind /\ n.channel = agent[d].channel /\ n.noted = agent[d].noted
      /\ n.left = agent[d].left
  BY <1>3, <1>6 DEF Done, Keeps
<1> QED
  BY <1>5, <1>6, <1>7 DEF StopCodexFails

\* The restart that was asked for.
LEMMA CarryOutRestartDoes ==
  ASSUME TypeOK, NEW d \in Device, CarryOutRestart(d)
  PROVE  /\ agent[d].pc = "nudge"
         /\ session' = session \/ Replaced(session, session', d, {agent[d].bind.user}, Nothing)
         /\ \E n : Turn(d, n) /\ Keeps(agent[d], n) /\ n.pc = "noted" /\ n.left = agent[d].left
         /\ UNCHANGED <<profile, local, events, crossed, quiet, deskFrame>>
<1>1. agent[d] \in Agent
  BY DEF TypeOK
<1>2. PICK n : n = [agent[d] EXCEPT !.pc = "noted"]
  OBVIOUS
<1>3. Turn(d, n)
  BY <1>2 DEF CarryOutRestart
<1>4. Keeps(agent[d], n) /\ n.pc = "noted" /\ n.left = agent[d].left
  BY <1>1, <1>2 DEF Keeps, Agent
<1>5. session' \in {session, [session EXCEPT ![d][agent[d].bind.user] = Nothing]}
  BY DEF CarryOutRestart
<1>6. session' = session \/ Replaced(session, session', d, {agent[d].bind.user}, Nothing)
  <2>1. session \in Files
    BY DEF TypeOK, Files
  <2> QED
    BY <1>5, <2>1, ReplacedForOne, Constants
<1> QED
  BY <1>3, <1>4, <1>6 DEF CarryOutRestart

\* The marker names the request of the cycle.
LEMMA NoteRestartDoes ==
  ASSUME TypeOK, NEW d \in Device, NoteRestart(d)
  PROVE  /\ agent[d].pc = "noted"
         /\ \E n : /\ Turn(d, n) /\ n \in Agent /\ n.pc = "rest" /\ n.bind = agent[d].bind
                  /\ n.channel = agent[d].channel /\ n.noted = agent[d].bind.nonce /\ n.cut = agent[d].cut /\ n.left = agent[d].left
         /\ UNCHANGED <<profile, session, local, events, crossed, quiet, deskFrame>>
<1> DEFINE a == agent[d]
<1>1. a \in Agent /\ a.bind.nonce \in Nonce
  BY DEF TypeOK, Agent, Document
<1>2. PICK b : b = [a EXCEPT !.noted = a.bind.nonce]
  OBVIOUS
<1>3. PICK n : n = Rested(b)
  OBVIOUS
<1>4. Turn(d, n)
  BY <1>2, <1>3 DEF NoteRestart
<1>5. /\ b \in Agent /\ b.noted = a.bind.nonce /\ b.bind = a.bind /\ b.channel = a.channel /\ b.cut = a.cut
      /\ b.left = a.left
  BY <1>1, <1>2 DEF Agent
<1>6. /\ n \in Agent /\ n.pc = "rest" /\ n.bind = b.bind /\ n.channel = b.channel /\ n.noted = b.noted
      /\ n.cut = b.cut /\ n.left = b.left
  BY <1>3, <1>5, RestedIs
<1> QED
  BY <1>4, <1>5, <1>6 DEF NoteRestart

\* A restarted agent has lost the document and what it was in the middle of.
LEMMA RestartAgentDoes ==
  ASSUME TypeOK, NEW d \in Device, RestartAgent(d)
  PROVE  /\ \E n : /\ Turn(d, n) /\ n \in Agent /\ n.pc = "rest" /\ n.bind = Absent
                  /\ n.channel = agent[d].channel /\ n.noted = agent[d].noted
                  /\ n.cut = (agent[d].cut \/ CutShort(agent[d])) /\ n.left = agent[d].left
         /\ UNCHANGED <<profile, session, local, crossed, quiet, deskFrame>>
<1> DEFINE a == agent[d]
<1>1. a \in Agent /\ a.cut \in BOOLEAN /\ CutShort(a) \in BOOLEAN
  BY DEF TypeOK, Agent, CutShort
<1>2. PICK b : b = [a EXCEPT !.bind = Absent, !.cut = a.cut \/ CutShort(a)]
  OBVIOUS
<1>3. PICK n : n = Rested(b)
  OBVIOUS
<1>4. Turn(d, n)
  BY <1>2, <1>3 DEF RestartAgent
<1>5. /\ b \in Agent /\ b.noted = a.noted /\ b.bind = Absent /\ b.channel = a.channel /\ b.cut = (a.cut \/ CutShort(a))
      /\ b.left = a.left
  <2>1. PICK c : c = (a.cut \/ CutShort(a))
    OBVIOUS
  <2>2. c \in BOOLEAN
    BY <2>1
  <2>3. b = [a EXCEPT !.bind = Absent, !.cut = c]
    BY <1>2, <2>1
  <2>4. /\ b.channel = a.channel /\ b.pc = a.pc /\ b.bind = Absent /\ b.mark = a.mark /\ b.etag = a.etag
        /\ b.ends = a.ends /\ b.swept = a.swept /\ b.noted = a.noted /\ b.left = a.left /\ b.cut = c
        /\ b = [z \in {"channel", "pc", "bind", "mark", "etag", "ends", "swept", "noted", "left", "cut"} |-> b[z]]
    BY <1>1, <2>3 DEF Agent
  <2>5. b \in Agent
    BY <1>1, <2>2, <2>4, Constants DEF Agent
  <2> QED
    BY <2>1, <2>4, <2>5
<1>6. /\ n \in Agent /\ n.pc = "rest" /\ n.bind = b.bind /\ n.channel = b.channel /\ n.noted = b.noted
      /\ n.cut = b.cut /\ n.left = b.left
  BY <1>3, <1>5, RestedIs
<1> QED
  BY <1>4, <1>5, <1>6 DEF RestartAgent

\* From now on the agent asks the console.
LEMMA EnrolLateDoes ==
  ASSUME TypeOK, NEW d \in Device, EnrolLate(d)
  PROVE  /\ agent[d].pc = "rest"
         /\ \E n : /\ Turn(d, n) /\ n \in Agent /\ n.pc = "rest" /\ n.bind = agent[d].bind /\ n.channel = "api"
                  /\ n.noted = agent[d].noted /\ n.cut = agent[d].cut /\ n.left = agent[d].left
         /\ UNCHANGED <<profile, session, local, events, crossed, quiet, deskFrame>>
<1>1. agent[d] \in Agent /\ agent[d].pc = "rest"
  BY DEF TypeOK, EnrolLate
<1>2. PICK n : n = [agent[d] EXCEPT !.channel = "api"]
  OBVIOUS
<1>3. Turn(d, n)
  BY <1>2 DEF EnrolLate
<1>4. /\ n \in Agent /\ n.pc = "rest" /\ n.bind = agent[d].bind /\ n.channel = "api" /\ n.noted = agent[d].noted
      /\ n.cut = agent[d].cut /\ n.left = agent[d].left
  BY <1>1, <1>2 DEF Agent
<1> QED
  BY <1>1, <1>3, <1>4 DEF EnrolLate

\* What a cycle begins with: what the console wrote, what it says, or what could be had without either.
LEMMA BeginDoes ==
  ASSUME TypeOK, NEW d \in Device, BeginCycle(d) \/ BeginCycleBlind(d)
  PROVE  /\ agent[d].pc = "rest"
         /\ \E doc \in Document, n \in Agent :
              /\ Turn(d, n) /\ n.pc \in {"rest", "ask", "revoke"} /\ n.bind = doc /\ n.channel = agent[d].channel
              /\ n.noted = agent[d].noted /\ n.cut = agent[d].cut /\ n.left = agent[d].left
              /\ n.pc = "ask" => doc.user \in User \cap local[d]
              /\ n.pc = "revoke" => doc.user = NoUser
              /\ doc \in IF agent[d].channel = "oss" THEN {object[d], Absent} ELSE {Build(d), agent[d].bind}
              /\ BeginCycle(d) => doc = IF agent[d].channel = "oss" THEN object[d] ELSE Build(d)
         /\ UNCHANGED <<profile, session, local, deskFrame>>
<1>0. object[d] \in Document /\ Build(d) \in Document /\ Absent \in Document /\ agent[d].bind \in Document
  BY Documents, Constants DEF TypeOK, Agent
<1>f. agent[d].pc = "rest" /\ UNCHANGED <<profile, session, local, deskFrame>>
  BY DEF BeginCycle, BeginCycleBlind
<1> DEFINE Sees(doc) ==
      /\ doc \in IF agent[d].channel = "oss" THEN {object[d], Absent} ELSE {Build(d), agent[d].bind}
      /\ BeginCycle(d) => doc = IF agent[d].channel = "oss" THEN object[d] ELSE Build(d)
<1>1. \E doc \in Document : Turn(d, Begun(d, doc)) /\ Sees(doc)
  <2>1. CASE BeginCycle(d)
    <3>1. PICK doc : doc = IF agent[d].channel = "oss" THEN object[d] ELSE Build(d)
      OBVIOUS
    <3> QED
      BY <1>0, <2>1, <3>1 DEF BeginCycle
  <2>2. CASE ~BeginCycle(d)
    <3>1. PICK doc : doc = IF agent[d].channel = "oss" THEN Absent ELSE agent[d].bind
      OBVIOUS
    <3>2. BeginCycleBlind(d)
      BY <2>2
    <3> QED
      BY <1>0, <2>2, <3>1, <3>2 DEF BeginCycleBlind
  <2> QED
    BY <2>1, <2>2
<1>2. PICK doc \in Document : Turn(d, Begun(d, doc)) /\ Sees(doc)
  BY <1>1
<1>3. PICK n : n = Begun(d, doc)
  OBVIOUS
<1>4. /\ n \in Agent /\ n.pc \in {"rest", "ask", "revoke"} /\ n.bind = doc /\ n.channel = agent[d].channel
      /\ n.noted = agent[d].noted /\ n.cut = agent[d].cut /\ n.left = agent[d].left
      /\ n.pc = "ask" => doc.user \in User \cap local[d]
      /\ n.pc = "revoke" => doc.user = NoUser
  BY <1>3, BegunIs
<1> QED
  BY <1>f, <1>2, <1>3, <1>4

-----------------------------------------------------------------------------
(* What the console's operations have in common. *)

\* An account changes, and work for where it is now is queued.
AccountStep(e) ==
  /\ account' \in [Employee -> Account]
  /\ \A f \in Employee \ {e} : account'[f] = account[f]
  /\ account'[e].status # "none" /\ account'[e].epoch >= account[e].epoch
  /\ \A j \in due : j.about # e => j \in due'
  /\ \A j \in due' : j \in due \/ j = EmployeeJob(e, account'[e].epoch)
  /\ account'[e].epoch = account[e].epoch \/ \A j \in due' : j.about = e => j = EmployeeJob(e, account'[e].epoch)
  /\ EmployeeJob(e, account'[e].epoch) \in due'
  /\ quiet' = {} /\ events' \in Nat
  /\ UNCHANGED <<machine, writing, storeVars, hand, deskVars, toggles, asker, crossed>>

\* A machine changes, and its export is queued.
MachineStep(d) ==
  /\ machine' \in [Device -> Machine]
  /\ \A c \in Device \ {d} : machine'[c] = machine[c]
  /\ machine'[d].holder = Nobody \/ Known(machine'[d].holder)
  /\ due \subseteq due' /\ DeviceJob(d) \in due'
  /\ \A j \in due' : \/ j \in due \/ j = DeviceJob(d)
                    \/ \E e \in Employee : j = EmployeeJob(e, account[e].epoch) /\ Known(e)
  /\ \/ machine'[d].nonce = 0 /\ asker' = asker
     \/ \E n \in Nonce \ {0} :
          /\ asker[n] = Nobody /\ \A i \in 1 .. n - 1 : asker[i] # Nobody
          /\ machine[d].holder # Nobody /\ machine'[d].holder = machine[d].holder
          /\ machine'[d].nonce = n /\ asker' = [asker EXCEPT ![n] = machine[d].holder]
  /\ crossed' \subseteq Device /\ quiet' = {} /\ events' \in Nat
  /\ UNCHANGED <<account, writing, storeVars, hand, deskVars, toggles>>

\* Every operation on an account is such a step.
LEMMA AccountSteps ==
  ASSUME TypeOK, NEW e \in Employee,
         Onboard(e) \/ Reissue(e) \/ StoreToken(e) \/ Offboard(e) \/ Delete(e)
  PROVE  AccountStep(e)
<1>0. account[e] \in Account /\ account[e].epoch \in Epoch /\ due \subseteq Job /\ Epoch \subseteq Nat /\ 0 \in Epoch
      /\ \A k \in Epoch : k < MaxEpoch => k + 1 \in Epoch
  BY Constants, DeliveryAssumption DEF TypeOK, Account, Assumptions, Epoch
<1>c. account[e].epoch \in Nat
  BY <1>0
<1>a. ASSUME NEW k \in Epoch, due' = {j \in due : j.about # e} \cup {EmployeeJob(e, k)}
      PROVE  /\ \A j \in due : j.about # e => j \in due'
             /\ \A j \in due' : j \in due \/ j = EmployeeJob(e, k)
             /\ \A j \in due' : j.about = e => j = EmployeeJob(e, k)
             /\ EmployeeJob(e, k) \in due'
  BY <1>a
<1>b. ASSUME NEW k \in Epoch, due' = due \cup {EmployeeJob(e, k)}
      PROVE  /\ \A j \in due : j.about # e => j \in due'
             /\ \A j \in due' : j \in due \/ j = EmployeeJob(e, k)
             /\ EmployeeJob(e, k) \in due'
  BY <1>b
<1>2. CASE Onboard(e)
  <2>1. PICK a : a = [account[e] EXCEPT !.status = "open", !.epoch = account[e].epoch + 1]
    OBVIOUS
  <2>2. account' = [account EXCEPT ![e] = a] /\ account[e].epoch < MaxEpoch
    BY <1>2, <2>1 DEF Onboard, TypeOK
  <2>3. a \in Account /\ a.status = "open" /\ a.epoch = account[e].epoch + 1
    BY <1>0, <2>1, <2>2 DEF Account
  <2>4. account'[e] = a /\ account' \in [Employee -> Account] /\ \A f \in Employee \ {e} : account'[f] = account[f]
    BY <2>2, <2>3 DEF TypeOK
  <2>5. due' = {j \in due : j.about # e} \cup {EmployeeJob(e, account'[e].epoch)}
    BY <1>2, <2>3, <2>4 DEF Onboard, ReplaceExports
  <2>6. quiet' = {} /\ events' \in Nat /\ UNCHANGED <<machine, writing, storeVars, hand, deskVars, toggles, asker, crossed>>
    BY <1>2 DEF Onboard, Decision, Event, TypeOK
  <2>7. account'[e].epoch \in Epoch /\ account'[e].epoch >= account[e].epoch /\ account'[e].status # "none"
    <3>1. a.epoch \in Epoch
      BY <2>3 DEF Account
    <3>2. a.epoch >= account[e].epoch /\ a.status # "none"
      BY <1>c, <2>3
    <3> QED
      BY <2>4, <3>1, <3>2
  <2> QED
    BY <1>a, <2>4, <2>5, <2>6, <2>7 DEF AccountStep
<1>3. CASE Reissue(e)
  <2>1. PICK a : a = [account[e] EXCEPT !.epoch = account[e].epoch + 1]
    OBVIOUS
  <2>2. account' = [account EXCEPT ![e] = a] /\ account[e].epoch < MaxEpoch /\ account[e].status = "open"
    BY <1>3, <2>1 DEF Reissue, TypeOK, Open
  <2>3. a \in Account /\ a.status = "open" /\ a.epoch = account[e].epoch + 1
    BY <1>0, <2>1, <2>2 DEF Account
  <2>4. account'[e] = a /\ account' \in [Employee -> Account] /\ \A f \in Employee \ {e} : account'[f] = account[f]
    BY <2>2, <2>3 DEF TypeOK
  <2>5. due' = {j \in due : j.about # e} \cup {EmployeeJob(e, account'[e].epoch)}
    BY <1>3, <2>3, <2>4 DEF Reissue, ReplaceExports
  <2>6. quiet' = {} /\ events' \in Nat /\ UNCHANGED <<machine, writing, storeVars, hand, deskVars, toggles, asker, crossed>>
    BY <1>3 DEF Reissue, Decision, Event, TypeOK
  <2>7. account'[e].epoch \in Epoch /\ account'[e].epoch >= account[e].epoch /\ account'[e].status # "none"
    <3>1. a.epoch \in Epoch
      BY <2>3 DEF Account
    <3>2. a.epoch >= account[e].epoch /\ a.status # "none"
      BY <1>c, <2>3
    <3> QED
      BY <2>4, <3>1, <3>2
  <2> QED
    BY <1>a, <2>4, <2>5, <2>6, <2>7 DEF AccountStep
<1>4. CASE StoreToken(e)
  <2>1. PICK a : a = [account[e] EXCEPT !.token = account[e].epoch]
    OBVIOUS
  <2>2. account' = [account EXCEPT ![e] = a] /\ account[e].status = "open"
    BY <1>4, <2>1 DEF StoreToken, TypeOK, Open
  <2>3. a \in Account /\ a.status = "open" /\ a.epoch = account[e].epoch
    BY <1>0, <2>1, <2>2 DEF Account
  <2>4. account'[e] = a /\ account' \in [Employee -> Account] /\ \A f \in Employee \ {e} : account'[f] = account[f]
    BY <2>2, <2>3 DEF TypeOK
  <2>5. due' = due \cup {EmployeeJob(e, account'[e].epoch)}
    BY <1>4, <2>3, <2>4 DEF StoreToken
  <2>6. quiet' = {} /\ events' \in Nat /\ UNCHANGED <<machine, writing, storeVars, hand, deskVars, toggles, asker, crossed>>
    BY <1>4 DEF StoreToken, TypeOK, countVars
  <2>7. account'[e].epoch \in Epoch /\ account'[e].epoch >= account[e].epoch /\ account'[e].status # "none"
    <3>1. a.epoch \in Epoch
      BY <2>3 DEF Account
    <3>2. a.epoch >= account[e].epoch /\ a.status # "none"
      BY <1>c, <2>3
    <3> QED
      BY <2>4, <3>1, <3>2
  <2> QED
    BY <1>b, <2>3, <2>4, <2>5, <2>6, <2>7 DEF AccountStep
<1>5. CASE Offboard(e)
  <2>1. PICK a : a = [status |-> "closed", epoch |-> account[e].epoch + 1, token |-> 0]
    OBVIOUS
  <2>2. account' = [account EXCEPT ![e] = a] /\ account[e].epoch < MaxEpoch
    BY <1>5, <2>1 DEF Offboard, TypeOK
  <2>3. a \in Account /\ a.status = "closed" /\ a.epoch = account[e].epoch + 1
    BY <1>0, <2>1, <2>2 DEF Account
  <2>4. account'[e] = a /\ account' \in [Employee -> Account] /\ \A f \in Employee \ {e} : account'[f] = account[f]
    BY <2>2, <2>3 DEF TypeOK
  <2>5. due' = {j \in due : j.about # e} \cup {EmployeeJob(e, account'[e].epoch)}
    BY <1>5, <2>3, <2>4 DEF Offboard, ReplaceExports
  <2>6. quiet' = {} /\ events' \in Nat /\ UNCHANGED <<machine, writing, storeVars, hand, deskVars, toggles, asker, crossed>>
    BY <1>5 DEF Offboard, Decision, Event, TypeOK
  <2>7. account'[e].epoch \in Epoch /\ account'[e].epoch >= account[e].epoch /\ account'[e].status # "none"
    <3>1. a.epoch \in Epoch
      BY <2>3 DEF Account
    <3>2. a.epoch >= account[e].epoch /\ a.status # "none"
      BY <1>c, <2>3
    <3> QED
      BY <2>4, <3>1, <3>2
  <2> QED
    BY <1>a, <2>4, <2>5, <2>6, <2>7 DEF AccountStep
<1>6. CASE Delete(e)
  <2>1. PICK a : a = [account[e] EXCEPT !.status = "deleted"]
    OBVIOUS
  <2>2. account' = [account EXCEPT ![e] = a]
    BY <1>6, <2>1 DEF Delete, TypeOK
  <2>3. a \in Account /\ a.status = "deleted" /\ a.epoch = account[e].epoch
    BY <1>0, <2>1, <2>2 DEF Account
  <2>4. account'[e] = a /\ account' \in [Employee -> Account] /\ \A f \in Employee \ {e} : account'[f] = account[f]
    BY <2>2, <2>3 DEF TypeOK
  <2>5. due' = {j \in due : j.about # e} \cup {EmployeeJob(e, account'[e].epoch)}
    BY <1>6, <2>3, <2>4 DEF Delete, ReplaceExports
  <2>6. quiet' = {} /\ events' \in Nat /\ UNCHANGED <<machine, writing, storeVars, hand, deskVars, toggles, asker, crossed>>
    BY <1>6 DEF Delete, Decision, Event, TypeOK
  <2>7. account'[e].epoch \in Epoch /\ account'[e].epoch >= account[e].epoch /\ account'[e].status # "none"
    <3>1. a.epoch \in Epoch
      BY <2>3 DEF Account
    <3>2. a.epoch >= account[e].epoch /\ a.status # "none"
      BY <1>c, <2>3
    <3> QED
      BY <2>4, <3>1, <3>2
  <2> QED
    BY <1>a, <2>4, <2>5, <2>6, <2>7 DEF AccountStep
<1> QED
  BY <1>2, <1>3, <1>4, <1>5, <1>6

\* Every operation on a machine is such a step.
LEMMA MachineSteps ==
  ASSUME TypeOK, Accounted, NEW d \in Device,
         (\E e \in Employee : BindMachine(d, e)) \/ UnbindMachine(d) \/ ForgetMachine(d) \/ RequestCodexRestart(d)
  PROVE  MachineStep(d)
<1>0. /\ machine[d] \in Machine /\ machine[d].holder \in Employee \cup {Nobody} /\ machine[d].gone \in BOOLEAN
      /\ due \subseteq Job /\ 0 \in Nonce
      /\ machine[d].holder # Nobody => Known(machine[d].holder)
      /\ Nobody \notin Employee
  BY Constants, DeliveryAssumption DEF TypeOK, Machine, Accounted, Assumptions
<1>1. ASSUME NEW m \in Machine, machine' = [machine EXCEPT ![d] = m]
      PROVE  machine' \in [Device -> Machine] /\ machine'[d] = m /\ \A c \in Device \ {d} : machine'[c] = machine[c]
  BY <1>1 DEF TypeOK
<1>2. Crossing(d) \subseteq Device
  BY DEF Crossing, TypeOK
<1>3. ASSUME NEW P, P \subseteq Employee \cup {Nobody}, \A e \in P \ {Nobody} : Known(e), due' = MoveExports(d, P)
      PROVE  /\ due \subseteq due' /\ DeviceJob(d) \in due'
             /\ \A j \in due' : \/ j \in due \/ j = DeviceJob(d)
                               \/ \E e \in Employee : j = EmployeeJob(e, account[e].epoch) /\ Known(e)
  BY <1>3 DEF MoveExports
<1>4. ASSUME NEW e \in Employee, BindMachine(d, e) PROVE MachineStep(d)
  <2>1. PICK m : m = [machine[d] EXCEPT !.holder = e, !.nonce = 0]
    OBVIOUS
  <2>2. machine' = [machine EXCEPT ![d] = m]
    BY <1>4, <2>1 DEF BindMachine, TypeOK
  <2>3. m \in Machine /\ m.holder = e /\ m.nonce = 0
    BY <1>0, <2>1 DEF Machine
  <2>4. Known(e)
    BY <1>4 DEF BindMachine, Open, Known
  <2>5. /\ due \subseteq due' /\ DeviceJob(d) \in due'
        /\ \A j \in due' : \/ j \in due \/ j = DeviceJob(d)
                          \/ \E f \in Employee : j = EmployeeJob(f, account[f].epoch) /\ Known(f)
    <3>1. due' = MoveExports(d, {e, machine[d].holder})
      BY <1>4 DEF BindMachine
    <3>2. {e, machine[d].holder} \subseteq Employee \cup {Nobody} /\ \A f \in {e, machine[d].holder} \ {Nobody} : Known(f)
      BY <1>0, <2>4
    <3> QED
      BY <1>3, <3>1, <3>2
  <2>6. /\ quiet' = {} /\ events' \in Nat /\ crossed' \subseteq Device /\ asker' = asker
        /\ UNCHANGED <<account, writing, storeVars, hand, deskVars, toggles>>
    <3>1. events < MaxEvents /\ events' = events + 1 /\ quiet' = {} /\ crossed' = Crossing(d)
      BY <1>4 DEF BindMachine, Decision, Event
    <3>2. UNCHANGED <<account, writing, storeVars, hand, deskVars, toggles, asker>>
      BY <1>4 DEF BindMachine
    <3> QED
      BY <1>2, <3>1, <3>2 DEF TypeOK
  <2> QED
    BY <1>1, <2>2, <2>3, <2>4, <2>5, <2>6 DEF MachineStep
<1>5. CASE UnbindMachine(d)
  <2>1. PICK m : m = [machine[d] EXCEPT !.holder = Nobody, !.nonce = 0]
    OBVIOUS
  <2>2. machine' = [machine EXCEPT ![d] = m]
    BY <1>5, <2>1 DEF UnbindMachine, TypeOK
  <2>3. m \in Machine /\ m.holder = Nobody /\ m.nonce = 0
    BY <1>0, <2>1 DEF Machine
  <2>5. /\ due \subseteq due' /\ DeviceJob(d) \in due'
        /\ \A j \in due' : \/ j \in due \/ j = DeviceJob(d)
                          \/ \E f \in Employee : j = EmployeeJob(f, account[f].epoch) /\ Known(f)
    <3>1. due' = MoveExports(d, {})
      BY <1>5 DEF UnbindMachine
    <3> QED
      BY <1>3, <3>1
  <2>6. /\ quiet' = {} /\ events' \in Nat /\ crossed' \subseteq Device /\ asker' = asker
        /\ UNCHANGED <<account, writing, storeVars, hand, deskVars, toggles>>
    BY <1>2, <1>5 DEF UnbindMachine, Decision, Event, TypeOK
  <2> QED
    BY <1>1, <2>2, <2>3, <2>5, <2>6 DEF MachineStep
<1>6. CASE ForgetMachine(d)
  <2>1. PICK m : m = [holder |-> Nobody, nonce |-> 0, gone |-> TRUE]
    OBVIOUS
  <2>2. machine' = [machine EXCEPT ![d] = m]
    BY <1>6, <2>1 DEF ForgetMachine, TypeOK
  <2>3. m \in Machine /\ m.holder = Nobody /\ m.nonce = 0
    BY <1>0, <2>1 DEF Machine
  <2>5. /\ due \subseteq due' /\ DeviceJob(d) \in due'
        /\ \A j \in due' : \/ j \in due \/ j = DeviceJob(d)
                          \/ \E f \in Employee : j = EmployeeJob(f, account[f].epoch) /\ Known(f)
    <3>1. due' = MoveExports(d, {machine[d].holder})
      BY <1>6 DEF ForgetMachine
    <3>2. {machine[d].holder} \subseteq Employee \cup {Nobody} /\ \A f \in {machine[d].holder} \ {Nobody} : Known(f)
      BY <1>0
    <3> QED
      BY <1>3, <3>1, <3>2
  <2>6. /\ quiet' = {} /\ events' \in Nat /\ crossed' \subseteq Device /\ asker' = asker
        /\ UNCHANGED <<account, writing, storeVars, hand, deskVars, toggles>>
    BY <1>2, <1>6 DEF ForgetMachine, Decision, Event, TypeOK
  <2> QED
    BY <1>1, <2>2, <2>3, <2>5, <2>6 DEF MachineStep
<1>7. CASE RequestCodexRestart(d)
  <2>1. PICK n \in Nonce \ {0} :
          /\ asker[n] = Nobody
          /\ \A i \in 1 .. n - 1 : asker[i] # Nobody
          /\ machine' = [machine EXCEPT ![d].nonce = n]
          /\ asker' = [asker EXCEPT ![n] = machine[d].holder]
    BY <1>7 DEF RequestCodexRestart
  <2>2. PICK m : m = [machine[d] EXCEPT !.nonce = n]
    OBVIOUS
  <2>3. machine' = [machine EXCEPT ![d] = m]
    BY <2>1, <2>2 DEF TypeOK
  <2>4. m \in Machine /\ m.holder = machine[d].holder /\ m.nonce = n
    BY <1>0, <2>2 DEF Machine
  <2>5. /\ due \subseteq due' /\ DeviceJob(d) \in due'
        /\ \A j \in due' : \/ j \in due \/ j = DeviceJob(d)
                          \/ \E f \in Employee : j = EmployeeJob(f, account[f].epoch) /\ Known(f)
    <3>1. due' = MoveExports(d, {})
      BY <1>7 DEF RequestCodexRestart
    <3> QED
      BY <1>3, <3>1
  <2>6. machine[d].holder # Nobody /\ Known(machine[d].holder) /\ quiet' = {} /\ events' \in Nat /\ crossed' \subseteq Device
        /\ UNCHANGED <<account, writing, storeVars, hand, deskVars, toggles>>
    BY <1>0, <1>7 DEF RequestCodexRestart, Decision, Event, TypeOK
  <2> QED
    BY <1>1, <2>1, <2>3, <2>4, <2>5, <2>6 DEF MachineStep
<1> QED
  BY <1>4, <1>5, <1>6, <1>7

-----------------------------------------------------------------------------
(* Types and bindings. *)

\* What may happen at a machine.
DeskAction(d) ==
  \/ Cycle(d) \/ BeginCycleBlind(d) \/ NoAnswer(d) \/ WithdrawFails(d) \/ DeployFails(d) \/ RevokeFails(d)
  \/ StopCodexFails(d) \/ RestartAgent(d) \/ EnrolLate(d)
  \/ \E u \in User : SignIn(d, u) \/ StartCodex(d, u)

\* What a loop may do, or what may happen to it.
LoopAction(w) == Claim(w) \/ Work(w) \/ Lapse(w) \/ FailWrite(w) \/ RefuseExport(w)

\* Every step is one of the console, of a loop, of all loops at once, or of a machine.
LEMMA Steps ==
  ASSUME TypeOK, Accounted, Next
  PROVE  \/ \E e \in Employee : AccountStep(e)
         \/ \E d \in Device : MachineStep(d)
         \/ SwitchChannel
         \/ \E w \in Worker : LoopAction(w)
         \/ CrashConsole
         \/ \E d \in Device : DeskAction(d)
<1>1. CASE Console
  BY <1>1, AccountSteps, MachineSteps DEF Console
<1>2. CASE \E w \in Worker : Claim(w) \/ Work(w)
  BY <1>2 DEF LoopAction
<1>3. CASE \E d \in Desks : Cycle(d)
  BY <1>3, DeliveryAssumption DEF Assumptions, DeskAction
<1>4. CASE Trouble
  BY <1>4, DeliveryAssumption DEF Assumptions, Trouble, LoopAction, DeskAction
<1>5. CASE People
  BY <1>5, DeliveryAssumption DEF Assumptions, People, DeskAction
<1> QED
  BY <1>1, <1>2, <1>3, <1>4, <1>5 DEF Next

\* An agent that is turned into an agent of the type leaves all of them of the type.
LEMMA TurnedTypes ==
  ASSUME TypeOK, Bound, NEW d \in Device, NEW n \in Agent, Turn(d, n),
         n.pc = "ask" => n.bind.user \in User, n.pc = "revoke" => n.bind.user = NoUser
  PROVE  agent' \in [Device -> Agent] /\ Bound'
<1>1. agent' \in [Device -> Agent]
  BY DEF Turn, TypeOK
<1>2. agent'[d] = n /\ \A c \in Device \ {d} : agent'[c] = agent[c]
  BY Turned
<1> QED
  BY <1>1, <1>2 DEF Bound

\* What happens at a machine leaves types and bindings as they should be, and the rest alone.
LEMMA DeskTypes ==
  ASSUME TypeOK, Bound, NEW d \in Device, DeskAction(d)
  PROVE  TypeOK' /\ Bound' /\ UNCHANGED deskFrame
<1> DEFINE P == Files
           Others == profile' \in P /\ session' \in P /\ local' \in [Device -> SUBSET User]
                     /\ events' \in Nat /\ crossed' \subseteq Device /\ quiet' \subseteq Device
<1>0. /\ profile \in P /\ session \in P /\ local \in [Device -> SUBSET User] /\ Nothing \in MaybeContent
      /\ Content \subseteq MaybeContent
  BY Constants DEF TypeOK, MaybeContent, Files
<1>1. ASSUME agent' \in [Device -> Agent], Others, UNCHANGED deskFrame
      PROVE  TypeOK'
  BY <1>1 DEF Files, TypeOK, deskFrame, consoleVars, storeVars
<1>2. ASSUME UNCHANGED <<crossed, quiet>>
      PROVE  crossed' \subseteq Device /\ quiet' \subseteq Device
  BY <1>2 DEF TypeOK
<1>e. events \in Nat /\ \A k \in MishapKinds : Mishap(k) => events' \in Nat
  BY DEF TypeOK, Mishap, Event
<1> HIDE DEF P
<1>3. CASE BeginCycle(d) \/ BeginCycleBlind(d)
  <2>1. PICK doc \in Document, n \in Agent :
          Turn(d, n) /\ n.bind = doc /\ (n.pc = "ask" => doc.user \in User) /\ (n.pc = "revoke" => doc.user = NoUser)
    BY <1>3, BeginDoes
  <2>2. agent' \in [Device -> Agent] /\ Bound'
    BY <2>1, TurnedTypes
  <2>3. UNCHANGED <<profile, session, local>> /\ UNCHANGED deskFrame
    BY <1>3, BeginDoes
  <2>4. events' \in Nat /\ crossed' \subseteq Device /\ quiet' \subseteq Device
    BY <1>3, <1>e DEF BeginCycle, BeginCycleBlind, TypeOK, Mishap, Event
  <2> QED
    BY <1>0, <1>1, <2>2, <2>3, <2>4
<1>4. CASE Withdraw(d) \/ WithdrawFails(d)
  <2>1. PICK n : Turn(d, n) /\ Keeps(agent[d], n) /\ (Done(n) \/ n.pc = "end")
    BY <1>4, WithdrawDoes, WithdrawFailsDoes
  <2>2. agent' \in [Device -> Agent] /\ Bound'
    BY <2>1, TurnedTypes DEF Keeps, Done
  <2>3. profile' \in P
    BY <1>4, WithdrawDoes, WithdrawFailsDoes DEF P, Replaced
  <2>4. UNCHANGED <<session, local, crossed, quiet, deskFrame>> /\ events' \in Nat
    BY <1>4, <1>e, WithdrawDoes, WithdrawFailsDoes DEF MishapKinds
  <2> QED
    BY <1>0, <1>1, <1>2, <2>2, <2>3, <2>4
<1>5. CASE Unchanged(d) \/ NoAnswer(d)
  <2>1. PICK n : Turn(d, n) /\ Keeps(agent[d], n) /\ Done(n)
    BY <1>5, PassDoes
  <2>2. agent' \in [Device -> Agent] /\ Bound'
    BY <2>1, TurnedTypes DEF Keeps, Done
  <2>3. UNCHANGED <<profile, session, local, crossed, quiet, deskFrame>>
    BY <1>5, PassDoes
  <2>4. events' \in Nat
    BY <1>5, <1>e DEF Unchanged, NoAnswer, MishapKinds
  <2> QED
    BY <1>0, <1>1, <1>2, <2>2, <2>3, <2>4
<1>6. CASE Deploy(d) \/ DeployFails(d)
  <2>1. PICK n : Turn(d, n) /\ n \in Agent /\ (n.pc = "mark" \/ Done(n))
    BY <1>6, DeployDoes, DeployFailsDoes DEF Keeps
  <2>2. agent' \in [Device -> Agent] /\ Bound'
    BY <2>1, TurnedTypes DEF Done
  <2>3. profile' \in P
    BY <1>6, DeployDoes, DeployFailsDoes DEF P, Replaced
  <2>4. UNCHANGED <<session, local, crossed, quiet, deskFrame>> /\ events' \in Nat
    BY <1>6, <1>e, DeployDoes, DeployFailsDoes DEF MishapKinds
  <2> QED
    BY <1>0, <1>1, <1>2, <2>2, <2>3, <2>4
<1>7. CASE WriteMark(d)
  <2>1. PICK n : Turn(d, n) /\ Keeps(agent[d], n) /\ (Done(n) \/ n.pc = "end")
    BY <1>7, WriteMarkDoes
  <2>2. agent' \in [Device -> Agent] /\ Bound'
    BY <2>1, TurnedTypes DEF Keeps, Done
  <2>3. UNCHANGED <<profile, session, local, events, crossed, quiet, deskFrame>>
    BY <1>7, WriteMarkDoes
  <2> QED
    BY <1>0, <1>1, <1>2, <1>e, <2>2, <2>3
<1>8. CASE RevokeAll(d) \/ RevokeFails(d)
  <2>1. PICK n : Turn(d, n) /\ Keeps(agent[d], n) /\ n.pc = "end"
    BY <1>8, RevokeAllDoes
  <2>2. agent' \in [Device -> Agent] /\ Bound'
    BY <2>1, TurnedTypes DEF Keeps
  <2>3. profile' \in P
    BY <1>8, RevokeAllDoes DEF P, Replaced
  <2>4. UNCHANGED <<session, local, crossed, quiet, deskFrame>> /\ events' \in Nat
    BY <1>8, <1>e, RevokeAllDoes DEF MishapKinds
  <2> QED
    BY <1>0, <1>1, <1>2, <1>e, <2>2, <2>3, <2>4
<1>9. CASE StopCodex(d)
  <2>1. PICK n : Turn(d, n) /\ Keeps(agent[d], n) /\ Done(n)
    BY <1>9, StopCodexDoes
  <2>2. agent' \in [Device -> Agent] /\ Bound'
    BY <2>1, TurnedTypes DEF Keeps, Done
  <2>3. session' \in P
    BY <1>9, StopCodexDoes DEF P, Replaced
  <2>4. UNCHANGED <<profile, local, events, crossed, quiet, deskFrame>>
    BY <1>9, StopCodexDoes
  <2> QED
    BY <1>0, <1>1, <1>2, <1>e, <2>2, <2>3, <2>4
<1>10. CASE StopCodexFails(d)
  <2>1. PICK n : Turn(d, n) /\ n \in Agent /\ Done(n)
    BY <1>10, StopCodexFailsDoes
  <2>2. agent' \in [Device -> Agent] /\ Bound'
    BY <2>1, TurnedTypes DEF Done
  <2>3. UNCHANGED <<profile, session, local, crossed, quiet, deskFrame>>
    BY <1>10, StopCodexFailsDoes
  <2>4. events' \in Nat
    BY <1>10, <1>e DEF StopCodexFails, MishapKinds
  <2> QED
    BY <1>0, <1>1, <1>2, <2>2, <2>3, <2>4
<1>11. CASE CarryOutRestart(d)
  <2>1. PICK n : Turn(d, n) /\ Keeps(agent[d], n) /\ n.pc = "noted"
    BY <1>11, CarryOutRestartDoes
  <2>2. agent' \in [Device -> Agent] /\ Bound'
    BY <2>1, TurnedTypes DEF Keeps
  <2>3. session' \in P /\ UNCHANGED <<profile, local, events, crossed, quiet, deskFrame>>
    BY <1>0, <1>11, CarryOutRestartDoes DEF P, Replaced
  <2> QED
    BY <1>0, <1>1, <1>2, <1>e, <2>2, <2>3
<1>12. CASE NoteRestart(d) \/ RestartAgent(d) \/ EnrolLate(d)
  <2>1. PICK n : Turn(d, n) /\ n \in Agent /\ n.pc = "rest"
    BY <1>12, NoteRestartDoes, RestartAgentDoes, EnrolLateDoes
  <2>2. agent' \in [Device -> Agent] /\ Bound'
    BY <2>1, TurnedTypes
  <2>3. UNCHANGED <<profile, session, local, crossed, quiet, deskFrame>>
    BY <1>12, NoteRestartDoes, RestartAgentDoes, EnrolLateDoes
  <2>4. events' \in Nat
    BY <1>12, <1>e DEF NoteRestart, RestartAgent, EnrolLate, MishapKinds
  <2> QED
    BY <1>0, <1>1, <1>2, <2>2, <2>3, <2>4
<1>13. ASSUME NEW u \in User, SignIn(d, u) PROVE TypeOK' /\ Bound' /\ UNCHANGED deskFrame
  <2>1. UNCHANGED <<agent, profile, session, events, crossed, quiet>> /\ UNCHANGED deskFrame
    BY <1>13 DEF SignIn
  <2>2. local' \in [Device -> SUBSET User]
    BY <1>0, <1>13 DEF SignIn
  <2>3. agent' \in [Device -> Agent] /\ Bound'
    BY <2>1 DEF TypeOK, Bound
  <2> QED
    BY <1>0, <1>1, <1>2, <1>e, <2>1, <2>2, <2>3
<1>14. ASSUME NEW u \in User, StartCodex(d, u) PROVE TypeOK' /\ Bound' /\ UNCHANGED deskFrame
  <2>1. UNCHANGED <<agent, profile, local, events, crossed, quiet>> /\ UNCHANGED deskFrame
    BY <1>14 DEF StartCodex
  <2>2. session' \in P
    <3>1. profile[d][u] \in MaybeContent /\ session \in Files
      BY <1>0 DEF P, Files
    <3>2. session' = [session EXCEPT ![d][u] = profile[d][u]]
      BY <1>14 DEF StartCodex
    <3> QED
      <4>1. PICK c : c = profile[d][u]
        OBVIOUS
      <4>2. session' = [session EXCEPT ![d][u] = c] /\ c \in MaybeContent
        BY <3>1, <3>2, <4>1
      <4>3. Replaced(session, session', d, {u}, c)
        BY <3>1, <4>2, ReplacedForOne
      <4> QED
        BY <4>3 DEF P, Replaced
  <2>3. agent' \in [Device -> Agent] /\ Bound'
    BY <2>1 DEF TypeOK, Bound
  <2> QED
    BY <1>0, <1>1, <1>2, <1>e, <2>1, <2>2, <2>3
<1>15. UNCHANGED deskFrame
  BY BeginDoes, WithdrawDoes, WithdrawFailsDoes, PassDoes, DeployDoes, DeployFailsDoes, WriteMarkDoes, RevokeAllDoes,
     StopCodexDoes, StopCodexFailsDoes, CarryOutRestartDoes, NoteRestartDoes, RestartAgentDoes, EnrolLateDoes, <1>13, <1>14 DEF DeskAction, Cycle
<1> QED
  BY <1>3, <1>4, <1>5, <1>6, <1>7, <1>8, <1>9, <1>10, <1>11, <1>12, <1>13, <1>14, <1>15 DEF DeskAction, Cycle

\* What becomes of an agent in one step: the document is kept, lost or read anew; the
\* marker is kept or names the request of the cycle.
NextOf(d, n) ==
  LET my == agent[d] IN
  /\ n \in Agent /\ n.channel \in {my.channel, "api"}
  /\ \/ n.bind \in {my.bind, Absent}
     \/ my.channel = "oss" /\ n.bind = object[d]
     \/ my.channel = "api" /\ n.bind = Build(d)
  /\ \/ n.noted = my.noted
     \/ n.noted = my.bind.nonce /\ n.bind = my.bind
  /\ n.pc = "nudge" => n.bind.nonce # 0 /\ n.noted # n.bind.nonce
  /\ n.pc \in {"ask", "revoke"} => my.pc = "rest"
\* Every step of an agent does that.
LEMMA DeskTurn ==
  ASSUME TypeOK, Bound, NEW d \in Device,
         \/ Cycle(d) \/ BeginCycleBlind(d) \/ NoAnswer(d) \/ WithdrawFails(d) \/ DeployFails(d) \/ RevokeFails(d)
         \/ StopCodexFails(d) \/ RestartAgent(d) \/ EnrolLate(d)
  PROVE  \E n : Turn(d, n) /\ NextOf(d, n)
<1>0. agent[d] \in Agent /\ agent[d].channel \in {"oss", "api"}
  BY DEF TypeOK, Agent
<1>1. ASSUME NEW n, Turn(d, n), Keeps(agent[d], n), Done(n) \/ n.pc \in {"mark", "end", "noted"}
      PROVE  \E m : Turn(d, m) /\ NextOf(d, m)
  BY <1>1 DEF Keeps, Done, NextOf
<1>2. CASE BeginCycle(d) \/ BeginCycleBlind(d)
  <2>1. PICK doc \in Document, n \in Agent :
          /\ Turn(d, n) /\ n.pc \in {"rest", "ask", "revoke"} /\ n.bind = doc /\ n.channel = agent[d].channel
          /\ n.noted = agent[d].noted
          /\ doc \in IF agent[d].channel = "oss" THEN {object[d], Absent} ELSE {Build(d), agent[d].bind}
    BY <1>2, BeginDoes
  <2>2. agent[d].pc = "rest"
    BY <1>2, BeginDoes
  <2> QED
    BY <1>0, <2>1, <2>2 DEF NextOf
<1>3. CASE Withdraw(d) \/ WithdrawFails(d)
  BY <1>1, <1>3, WithdrawDoes, WithdrawFailsDoes
<1>4. CASE Unchanged(d) \/ NoAnswer(d)
  BY <1>1, <1>4, PassDoes
<1>5. CASE Deploy(d)
  BY <1>1, <1>5, DeployDoes
<1>6. CASE WriteMark(d)
  BY <1>1, <1>6, WriteMarkDoes
<1>7. CASE RevokeAll(d) \/ RevokeFails(d)
  BY <1>1, <1>7, RevokeAllDoes
<1>8. CASE StopCodex(d)
  BY <1>1, <1>8, StopCodexDoes
<1>9. CASE CarryOutRestart(d)
  BY <1>1, <1>9, CarryOutRestartDoes
<1>10. CASE StopCodexFails(d) \/ DeployFails(d)
  <2>1. PICK n : /\ Turn(d, n) /\ n \in Agent /\ n.bind = agent[d].bind /\ n.channel = agent[d].channel
                 /\ n.noted = agent[d].noted /\ Done(n)
    BY <1>10, StopCodexFailsDoes, DeployFailsDoes
  <2> QED
    BY <2>1 DEF NextOf, Done
<1>11. CASE NoteRestart(d)
  BY <1>11, NoteRestartDoes DEF NextOf
<1>12. CASE RestartAgent(d)
  BY <1>12, RestartAgentDoes DEF NextOf
<1>13. CASE EnrolLate(d)
  BY <1>13, EnrolLateDoes DEF NextOf
<1> QED
  BY <1>2, <1>3, <1>4, <1>5, <1>6, <1>7, <1>8, <1>9, <1>10, <1>11, <1>12, <1>13 DEF Cycle

-----------------------------------------------------------------------------
(* Loops and locks. *)

\* A loop that is doing something has a task.
LEMMA Working ==
  ASSUME TypeOK, Locked, NEW w \in Worker, hand[w].pc # "idle"
  PROVE  hand[w].job \in Job /\ hand[w].job.about \in hand[w].locks
BY DEF TypeOK, Hand, Locked, Holding

\* A loop that is turned into another.
LEMMA Gone ==
  ASSUME TypeOK, NEW w \in Worker, NEW n, hand' = [hand EXCEPT ![w] = n]
  PROVE  hand'[w] = n /\ \A v \in Worker \ {w} : hand'[v] = hand[v]
BY DEF TypeOK

\* A loop may be turned into one that keeps its locks or has none that others hold.
LEMMA LockedAfter ==
  ASSUME TypeOK, Locked, NEW w \in Worker, NEW n \in Hand, hand' = [hand EXCEPT ![w] = n], Holding(n),
         \A v \in Worker \ {w} : hand[v].locks \cap n.locks = {}
  PROVE  hand' \in [Worker -> Hand] /\ Locked'
<1>1. hand' \in [Worker -> Hand]
  BY DEF TypeOK
<1>2. hand'[w] = n /\ \A v \in Worker \ {w} : hand'[v] = hand[v]
  BY Gone
<1>3. ASSUME NEW v \in Worker PROVE Holding(hand'[v])
  BY <1>2 DEF Locked
<1>4. ASSUME NEW u \in Worker, NEW v \in Worker, u # v PROVE hand'[u].locks \cap hand'[v].locks = {}
  BY <1>2, <1>4 DEF Locked
<1>5. \A v \in Worker : Holding(hand[v])'
  BY <1>3 DEF Holding, Idle, NoJob
<1> QED
  BY <1>1, <1>4, <1>5 DEF Locked

\* No loop gets a lock another one holds; types stay as they should be.
LEMMA LoopTypes ==
  ASSUME TypeOK, Locked, (\E w \in Worker : LoopAction(w)) \/ CrashConsole
  PROVE  TypeOK' /\ Locked' /\ UNCHANGED exportFrame
<1>1. ASSUME hand' \in [Worker -> Hand], due' \subseteq Job, failed' \subseteq Employee \cup Device, events' \in Nat, bundle' \in [Employee -> [epoch : Epoch, token : Epoch]],
             archive' \in [User -> MaybeContent], object' \in [Device -> Document], UNCHANGED exportFrame
      PROVE  TypeOK'
  BY <1>1 DEF TypeOK, exportFrame, consoleVars, deskVars, pastVars
<1>2. ASSUME UNCHANGED storeVars
      PROVE  /\ failed' \subseteq Employee \cup Device /\ bundle' \in [Employee -> [epoch : Epoch, token : Epoch]]
             /\ archive' \in [User -> MaybeContent] /\ object' \in [Device -> Document]
  BY <1>2 DEF TypeOK, storeVars
<1>e. events \in Nat /\ failed \subseteq Employee \cup Device /\ due \subseteq Job /\ hand \in [Worker -> Hand] /\ \A k \in MishapKinds : Mishap(k) => events' \in Nat
  BY DEF TypeOK, Mishap, Event
<1>l. ASSUME NEW w \in Worker, NEW x, LockFree(w, x)
      PROVE  \A v \in Worker \ {w} : x \notin hand[v].locks
  BY <1>l DEF LockFree
<1>h. \A w \in Worker : Holding(hand[w])
  BY DEF Locked
<1>d. \A v, w \in Worker : v # w => hand[v].locks \cap hand[w].locks = {}
  BY DEF Locked
<1>x. Employee \cap Device = {}
  BY DeliveryAssumption DEF Assumptions
<1>3. ASSUME NEW w \in Worker, Claim(w) PROVE TypeOK' /\ Locked' /\ UNCHANGED exportFrame
  <2>1. PICK j \in due, n \in Hand :
           /\ LockFree(w, j.about)
           /\ due' = due \ {j} /\ hand' = [hand EXCEPT ![w] = n]
           /\ n.job = j /\ n.locks = {j.about}
           /\ \/ j.about \in Device /\ n.pc = "write" /\ n.target = j.about /\ n.todo = {}
              \/ j.about \in Employee /\ n.pc = "publish"
           /\ failed' = failed \ {j.about}
           /\ UNCHANGED <<bundle, archive, object, events, exportFrame>>
    BY <1>3, ClaimDoes
  <2>2. j # NoJob /\ Employee \cap Device = {}
    BY <1>e, Jobs, DeliveryAssumption DEF Assumptions
  <2>4. Holding(n)
    BY <2>1, <2>2 DEF Holding
  <2>5. \A v \in Worker \ {w} : hand[v].locks \cap n.locks = {}
    BY <2>1, <1>l
  <2>3. hand' \in [Worker -> Hand] /\ Locked'
    BY <2>1, <2>4, <2>5, LockedAfter
  <2>6. /\ bundle' \in [Employee -> [epoch : Epoch, token : Epoch]]
        /\ archive' \in [User -> MaybeContent] /\ object' \in [Device -> Document]
    BY <2>1 DEF TypeOK
  <2> QED
    BY <1>1, <1>e, <2>1, <2>3, <2>6
<1>4. ASSUME NEW w \in Worker, Publish(w) PROVE TypeOK' /\ Locked' /\ UNCHANGED exportFrame
  <2>1. PICK n \in Hand :
           LET h == hand[w] IN
           /\ h.pc = "publish" /\ hand' = [hand EXCEPT ![w] = n]
           /\ n.job = h.job /\ n.pc = "next" /\ n.locks = h.locks
           /\ archive' = IF writing THEN [archive EXCEPT ![UserOf[h.job.about]] = h.content] ELSE archive
           /\ UNCHANGED <<due, failed, bundle, object, events, exportFrame>>
    BY <1>4, PublishDoes
  <2>5. Holding(n)
    BY <2>1, <1>h, <1>x DEF Holding
  <2>6. \A v \in Worker \ {w} : hand[v].locks \cap n.locks = {}
    BY <2>1, <1>d
  <2>2. hand' \in [Worker -> Hand] /\ Locked'
    BY <2>1, <2>5, <2>6, LockedAfter
  <2>3. archive' \in [User -> MaybeContent]
    <3>1. hand[w].content \in MaybeContent
      BY <1>e DEF Hand
    <3> QED
      BY <2>1, <3>1 DEF TypeOK
  <2>4. bundle' \in [Employee -> [epoch : Epoch, token : Epoch]] /\ object' \in [Device -> Document]
    BY <2>1 DEF TypeOK
  <2> QED
    BY <1>1, <1>e, <2>1, <2>2, <2>3, <2>4
<1>5. ASSUME NEW w \in Worker, NextBinding(w) PROVE TypeOK' /\ Locked' /\ UNCHANGED exportFrame
  <2>1. PICK d \in Device, n \in Hand :
           LET h == hand[w] IN
           /\ h.pc = "next" /\ d \in h.todo /\ LockFree(w, d) /\ hand' = [hand EXCEPT ![w] = n]
           /\ n.job = h.job /\ n.pc = "write"
           /\ n.locks = h.locks \cup {d} /\ n.target = d
           /\ UNCHANGED <<due, storeVars, events, exportFrame>>
    BY <1>5, NextBindingDoes
  <2>2. hand[w].job.about \notin Device
    BY <2>1, <1>h DEF Holding
  <2>4. Holding(n)
    BY <2>1, <2>2, <1>h DEF Holding
  <2>5. \A v \in Worker \ {w} : hand[v].locks \cap n.locks = {}
    BY <2>1, <1>d, <1>l
  <2>3. hand' \in [Worker -> Hand] /\ Locked'
    BY <2>1, <2>4, <2>5, LockedAfter
  <2> QED
    BY <1>1, <1>2, <1>e, <2>1, <2>3
<1>6. ASSUME NEW w \in Worker, WriteBinding(w) PROVE TypeOK' /\ Locked' /\ UNCHANGED exportFrame
  <2>1. PICK n \in Hand :
           LET h == hand[w] IN
           /\ h.pc = "write" /\ hand' = [hand EXCEPT ![w] = n]
           /\ n.job = h.job /\ n.pc = "next" /\ n.locks = h.locks /\ n.todo = h.todo
           /\ object' = IF writing THEN [object EXCEPT ![h.target] = h.image] ELSE object
           /\ UNCHANGED <<due, failed, bundle, archive, events, exportFrame>>
    BY <1>6, WriteBindingDoes
  <2>5. Holding(n)
    BY <2>1, <1>h, <1>x DEF Holding
  <2>6. \A v \in Worker \ {w} : hand[v].locks \cap n.locks = {}
    BY <2>1, <1>d
  <2>2. hand' \in [Worker -> Hand] /\ Locked'
    BY <2>1, <2>5, <2>6, LockedAfter
  <2>3. object' \in [Device -> Document]
    <3>1. hand[w].image \in Document
      BY <1>e DEF Hand
    <3> QED
      BY <2>1, <3>1 DEF TypeOK
  <2>4. bundle' \in [Employee -> [epoch : Epoch, token : Epoch]] /\ archive' \in [User -> MaybeContent]
    BY <2>1 DEF TypeOK
  <2> QED
    BY <1>1, <1>e, <2>1, <2>2, <2>3, <2>4
<1>i. ASSUME NEW w \in Worker, hand' = [hand EXCEPT ![w] = Idle]
      PROVE  hand' \in [Worker -> Hand] /\ Locked'
  <2>1. Idle.locks = {} /\ Idle \in Hand /\ Holding(Idle)
    BY Constants, Jobs, DeliveryAssumption DEF Idle, Holding, Assumptions
  <2> QED
    BY <1>i, <2>1, LockedAfter
<1>7. ASSUME NEW w \in Worker, Commit(w) PROVE TypeOK' /\ Locked' /\ UNCHANGED exportFrame
  <2>1. hand' = [hand EXCEPT ![w] = Idle] /\ UNCHANGED <<due, failed, archive, object, events, exportFrame>>
    BY <1>7 DEF Commit, Go
  <2>2. bundle' \in [Employee -> [epoch : Epoch, token : Epoch]]
    <3>1. hand[w].epoch \in Epoch /\ hand[w].content.token \in Epoch
      BY <1>e, Constants DEF Hand, MaybeContent, Content, Nothing
    <3>2. [epoch |-> hand[w].epoch, token |-> hand[w].content.token] \in [epoch : Epoch, token : Epoch]
      BY <3>1
    <3>3. PICK b : b = [epoch |-> hand[w].epoch, token |-> hand[w].content.token]
      OBVIOUS
    <3>4. bundle' = bundle \/ bundle' = [bundle EXCEPT ![hand[w].job.about] = b]
      BY <1>7, <3>3 DEF Commit
    <3> QED
      BY <3>2, <3>3, <3>4 DEF TypeOK
  <2>3. archive' \in [User -> MaybeContent] /\ object' \in [Device -> Document]
    BY <2>1 DEF TypeOK
  <2> QED
    BY <1>1, <1>e, <1>i, <2>1, <2>2, <2>3
<1>8. ASSUME NEW w \in Worker, Lapse(w) \/ FailWrite(w) PROVE TypeOK' /\ Locked' /\ UNCHANGED exportFrame
  <2>1. hand[w].pc # "idle" /\ due' = Requeued(hand[w].job) /\ UNCHANGED <<storeVars, exportFrame>>
    BY <1>8 DEF Lapse, FailWrite
  <2>2. due' \subseteq Job
    BY <2>1, Working, Requeuing
  <2>3. events' \in Nat
    BY <1>8, <1>e DEF Lapse, FailWrite, MishapKinds
  <2>4. hand' \in [Worker -> Hand] /\ Locked'
    <3>1. CASE Lapse(w)
      <4>1. hand' = hand
        BY <3>1 DEF Lapse
      <4> QED
        BY <1>e, <4>1 DEF Locked, Holding
    <3>2. CASE FailWrite(w)
      BY <3>2, <1>i DEF FailWrite, Go
    <3> QED
      BY <1>8, <3>1, <3>2
  <2> QED
    BY <1>1, <1>2, <2>1, <2>2, <2>3, <2>4
<1>10. ASSUME NEW w \in Worker, RefuseExport(w) PROVE TypeOK' /\ Locked' /\ UNCHANGED exportFrame
  <2>1. /\ hand[w].pc # "idle" /\ failed' = failed \cup {hand[w].job.about} /\ hand' = [hand EXCEPT ![w] = Idle]
        /\ UNCHANGED <<due, bundle, archive, object, exportFrame>>
    BY <1>10 DEF RefuseExport, Go
  <2>2. hand[w].job.about \in Employee \cup Device
    BY <2>1, Working, Jobs
  <2>3. events' \in Nat
    BY <1>10, <1>e DEF RefuseExport, MishapKinds
  <2>4. hand' \in [Worker -> Hand] /\ Locked'
    BY <2>1, <1>i
  <2>5. /\ bundle' \in [Employee -> [epoch : Epoch, token : Epoch]]
        /\ archive' \in [User -> MaybeContent] /\ object' \in [Device -> Document]
    BY <2>1 DEF TypeOK
  <2> QED
    BY <1>1, <1>e, <2>1, <2>2, <2>3, <2>4, <2>5
<1>9. CASE CrashConsole
  <2>1. /\ hand' = [w \in Worker |-> Idle] /\ UNCHANGED <<storeVars, exportFrame>>
        /\ due' = UNION {Requeued(hand[w].job) : w \in {v \in Worker : hand[v].pc # "idle"}}
    BY <1>9 DEF CrashConsole
  <2>2. due' \subseteq Job
    <3>1. \A w \in Worker : hand[w].pc # "idle" => Requeued(hand[w].job) \subseteq Job
      BY Working, Requeuing
    <3> QED
      BY <2>1, <3>1
  <2>3. hand' \in [Worker -> Hand] /\ Locked'
    BY <2>1, Constants DEF Locked, Holding, Idle
  <2>4. events' \in Nat
    BY <1>9, <1>e DEF CrashConsole, MishapKinds
  <2> QED
    BY <1>1, <1>2, <2>1, <2>2, <2>3, <2>4
<1> QED
  BY <1>3, <1>4, <1>5, <1>6, <1>7, <1>8, <1>9, <1>10 DEF LoopAction, Work

\* The console's operations leave types, locks and bindings as they should be.
LEMMA ConsoleTypes ==
  ASSUME TypeOK, Locked, Bound,
         \/ \E e \in Employee : AccountStep(e)
         \/ \E d \in Device : MachineStep(d)
         \/ SwitchChannel
  PROVE  TypeOK' /\ Locked' /\ Bound'
<1>0. /\ \A d \in Device : DeviceJob(d) \in Job
      /\ \A e \in Employee, k \in Epoch : EmployeeJob(e, k) \in Job
      /\ \A e \in Employee : account[e].epoch \in Epoch
  BY Jobs DEF TypeOK, Account
<1>1. ASSUME NEW e \in Employee, AccountStep(e) PROVE TypeOK' /\ UNCHANGED <<hand, agent>>
  <2>1. due' \subseteq Job
    <3>1. account'[e].epoch \in Epoch
      BY <1>1 DEF AccountStep, Account
    <3>2. \A j \in due' : j \in due \/ j = EmployeeJob(e, account'[e].epoch)
      BY <1>1 DEF AccountStep
    <3> QED
      BY <1>0, <3>1, <3>2 DEF TypeOK
  <2> QED
    BY <1>1, <2>1 DEF AccountStep, TypeOK, storeVars, deskVars
<1>2. ASSUME NEW d \in Device, MachineStep(d) PROVE TypeOK' /\ UNCHANGED <<hand, agent>>
  <2>1. due' \subseteq Job
    <3>2. \A j \in due' : \/ j \in due \/ j = DeviceJob(d)
                        \/ \E e \in Employee : j = EmployeeJob(e, account[e].epoch)
      BY <1>2 DEF MachineStep
    <3>3. \A e \in Employee : EmployeeJob(e, account[e].epoch) \in Job
      BY <1>0
    <3>4. due \subseteq Job
      BY DEF TypeOK
    <3> QED
      BY <1>0, <3>2, <3>3, <3>4
  <2>2. asker' \in [Nonce -> Employee \cup {Nobody}]
    <3>1. machine[d].holder \in Employee \cup {Nobody}
      BY DEF TypeOK, Machine
    <3>2. asker' = asker \/ \E n \in Nonce : asker' = [asker EXCEPT ![n] = machine[d].holder]
      BY <1>2 DEF MachineStep
    <3>3. ASSUME NEW n \in Nonce, asker' = [asker EXCEPT ![n] = machine[d].holder]
          PROVE  asker' \in [Nonce -> Employee \cup {Nobody}]
      BY <3>1, <3>3 DEF TypeOK
    <3>4. asker \in [Nonce -> Employee \cup {Nobody}]
      BY DEF TypeOK
    <3> QED
      BY <3>2, <3>3, <3>4
  <2> QED
    BY <1>2, <2>1, <2>2 DEF MachineStep, TypeOK, storeVars, deskVars
<1>3. ASSUME SwitchChannel PROVE TypeOK' /\ UNCHANGED <<hand, agent>>
  BY <1>3 DEF SwitchChannel, Decision, Event, TypeOK, storeVars, deskVars
<1>4. ASSUME UNCHANGED <<hand, agent>> PROVE Locked' /\ Bound'
  BY <1>4 DEF Locked, Holding, Bound, Idle, NoJob
<1> QED
  BY <1>1, <1>2, <1>3, <1>4

-----------------------------------------------------------------------------
(* Accounts and the work that is queued for them. *)

\* Work that is put back, or is for an epoch that was left, is queued.
LEMMA PutBack ==
  ASSUME TypeOK, Locked, Accounted, NEW w \in Worker, hand[w].pc # "idle"
  PROVE  LET j == hand[w].job IN
         /\ due \subseteq Requeued(j) /\ Requeued(j) \subseteq due \cup {j}
         /\ \E i \in Requeued(j) : i.about = j.about
         /\ \A i \in Requeued(j) \ due : \A e \in Employee : i.about = e => i.epoch >= account[e].epoch
<1> DEFINE j == hand[w].job
<1>1. j \in Job /\ j.epoch \in Nat /\ j.about \in Device \cup Employee /\ \A e \in Employee : account[e].epoch \in Nat
  BY Working, Jobs, Constants DEF TypeOK, Account
<1>2. due \subseteq Requeued(j) /\ Requeued(j) \subseteq due \cup {j}
  BY <1>1, Requeuing
<1>3. \A e \in Employee : j.about = e /\ j.epoch < account[e].epoch => \E i \in due : i.about = e
  BY DEF Accounted, Queued
<1>4. \E i \in Requeued(j) : i.about = j.about
  BY <1>1, <1>2, <1>3 DEF Requeued
<1>5. \A i \in Requeued(j) \ due : \A e \in Employee : i.about = e => i.epoch >= account[e].epoch
  BY <1>1 DEF Requeued
<1> QED
  BY <1>2, <1>4, <1>5

\* Work a loop loses is queued again.
LEMMA Returned ==
  ASSUME TypeOK, Locked, Accounted, (\E w \in Worker : Lapse(w) \/ FailWrite(w)) \/ CrashConsole
  PROVE  /\ due \subseteq due'
         /\ \A i \in due' \ due : /\ \E w \in Worker : i = hand[w].job /\ hand[w].pc # "idle"
                                /\ \A e \in Employee : i.about = e => i.epoch >= account[e].epoch
         /\ \A w \in Worker : hand'[w] = hand[w] \/ (hand'[w] = Idle /\ \A x \in Employee \cup Device : hand[w].job.about = x => Queued(x)')
<1>1. ASSUME NEW w \in Worker, Lapse(w) \/ FailWrite(w)
      PROVE  /\ hand[w].pc # "idle" /\ due' = Requeued(hand[w].job)
             /\ hand' = hand \/ hand' = [hand EXCEPT ![w] = Idle]
  BY <1>1 DEF Lapse, FailWrite, Go
<1>2. ASSUME NEW w \in Worker, Lapse(w) \/ FailWrite(w)
      PROVE  /\ due \subseteq due'
             /\ \A i \in due' \ due : /\ \E v \in Worker : i = hand[v].job /\ hand[v].pc # "idle"
                                    /\ \A e \in Employee : i.about = e => i.epoch >= account[e].epoch
             /\ \A v \in Worker : hand'[v] = hand[v] \/ (hand'[v] = Idle /\ \A x \in Employee \cup Device : hand[v].job.about = x => Queued(x)')
  <2>1. hand[w].pc # "idle" /\ due' = Requeued(hand[w].job)
    BY <1>1, <1>2
  <2>2. /\ due \subseteq due' /\ due' \subseteq due \cup {hand[w].job}
        /\ \E i \in due' : i.about = hand[w].job.about
        /\ \A i \in due' \ due : \A e \in Employee : i.about = e => i.epoch >= account[e].epoch
    BY <2>1, PutBack
  <2>3. \A x \in Employee \cup Device : hand[w].job.about = x => Queued(x)'
    BY <2>2 DEF Queued
  <2>4. \A v \in Worker : hand'[v] = hand[v] \/ (v = w /\ hand'[v] = Idle)
    BY <1>1, <1>2 DEF TypeOK
  <2>5. \A i \in due' \ due : i = hand[w].job
    BY <2>2
  <2> QED
    BY <2>1, <2>2, <2>3, <2>4, <2>5
<1>3. CASE CrashConsole
  <2>1. PICK w \in Worker : hand[w] # Idle
    BY <1>3 DEF CrashConsole
  <2>2. hand[w].pc # "idle"
    BY <2>1 DEF Locked, Holding
  <2>3. /\ hand' = [v \in Worker |-> Idle]
        /\ \A i : i \in due' <=> \E v \in Worker : hand[v].pc # "idle" /\ i \in Requeued(hand[v].job)
    BY <1>3 DEF CrashConsole
  <2>4. ASSUME NEW v \in Worker, hand[v].pc # "idle"
        PROVE  /\ due \subseteq due' /\ \A x \in Employee \cup Device : hand[v].job.about = x => Queued(x)'
    <3>1. due \subseteq Requeued(hand[v].job) /\ \E i \in Requeued(hand[v].job) : i.about = hand[v].job.about
      BY <2>4, PutBack
    <3>2. Requeued(hand[v].job) \subseteq due'
      BY <2>3, <2>4
    <3> QED
      BY <3>1, <3>2 DEF Queued
  <2>5. ASSUME NEW i \in due' \ due
        PROVE  /\ \E v \in Worker : i = hand[v].job /\ hand[v].pc # "idle"
               /\ \A e \in Employee : i.about = e => i.epoch >= account[e].epoch
    <3>1. PICK v \in Worker : hand[v].pc # "idle" /\ i \in Requeued(hand[v].job)
      BY <2>3
    <3>2. i \in Requeued(hand[v].job) \ due /\ i = hand[v].job
      BY <3>1, PutBack
    <3> QED
      BY <3>1, <3>2, PutBack
  <2>6. ASSUME NEW v \in Worker, hand[v].pc = "idle"
        PROVE  \A x \in Employee \cup Device : hand[v].job.about # x
    BY <2>6, Jobs, DeliveryAssumption DEF Locked, Holding, Assumptions
  <2> QED
    BY <2>2, <2>3, <2>4, <2>5, <2>6
<1> QED
  BY <1>2, <1>3

\* What a loop gives up is noted as failed, and nothing else changes.
LEMMA RefuseDoes ==
  ASSUME TypeOK, Locked, NEW w \in Worker, RefuseExport(w)
  PROVE  /\ hand[w].pc \in {"publish", "write"} /\ hand[w].job.about \in Employee \cup Device
         /\ failed' = failed \cup {hand[w].job.about}
         /\ hand'[w] = Idle /\ \A v \in Worker \ {w} : hand'[v] = hand[v]
         /\ UNCHANGED <<due, bundle, archive, object>>
<1>1. hand[w].pc \in {"publish", "write"} /\ hand' = [hand EXCEPT ![w] = Idle]
  BY DEF RefuseExport, Go
<1>2. hand[w].job.about \in Employee \cup Device
  BY <1>1, Working, Jobs
<1> QED
  BY <1>1, <1>2, Gone DEF RefuseExport

\* What a loop does leaves the accounts' work accounted for.
LEMMA LoopAccounts ==
  ASSUME TypeOK, Locked, Accounted, (\E w \in Worker : LoopAction(w)) \/ CrashConsole
  PROVE  Accounted'
<1>0. /\ UNCHANGED <<account, machine>>
      /\ \A e \in Employee : Known(e)' <=> Known(e)
  BY LoopTypes DEF exportFrame, consoleVars, Known
<1>n. Idle.job.about \notin Employee
  BY Jobs, DeliveryAssumption DEF Idle, Assumptions
<1>t. /\ \A w \in Worker : hand[w].epoch \in Nat
      /\ \A e \in Employee : bundle[e].epoch \in Nat /\ account[e].epoch \in Nat
  BY Constants DEF TypeOK, Hand, Account
<1>m. \A d \in Device : machine[d].holder \in Employee \cup {Nobody}
  BY DEF TypeOK, Machine
<1>1. ASSUME \A e \in Employee : Queued(e)' => Known(e),
             \A e \in Employee : \A j \in due' : j.about = e => j.epoch >= account[e].epoch,
             \A e \in Employee : bundle'[e].epoch <= account[e].epoch,
             \A w \in Worker : \A e \in Employee :
               hand'[w].job.about = e =>
                 Known(e) /\ hand'[w].epoch <= account[e].epoch /\ (hand'[w].job.epoch < account[e].epoch => Queued(e)')
      PROVE  Accounted'
  BY <1>0, <1>m, <1>1 DEF Accounted
<1>2. ASSUME NEW w \in Worker, Claim(w) PROVE Accounted'
  <2>1. PICK j \in due, n \in Hand :
           /\ LockFree(w, j.about)
           /\ due' = due \ {j} /\ hand' = [hand EXCEPT ![w] = n]
           /\ n.job = j
           /\ j.about \in Device \/ n.epoch = account[j.about].epoch
           /\ bundle' = bundle
    BY <1>2, ClaimDoes
  <2>2. hand'[w] = n /\ \A v \in Worker \ {w} : hand'[v] = hand[v]
    BY <2>1, Gone
  <2>3. ASSUME NEW v \in Worker \ {w}, NEW e \in Employee, hand[v].job.about = e
        PROVE  j.about # e
    <3>1. hand[v].pc # "idle"
      BY <1>n, <2>3 DEF Locked, Holding
    <3> QED
      BY <2>1, <2>3, <3>1, Working DEF LockFree
  <2>4. \A e \in Employee : e # j.about /\ Queued(e) => Queued(e)'
    BY <2>1 DEF Queued
  <2>5. \A e \in Employee : Queued(e)' => Queued(e)
    BY <2>1 DEF Queued
  <2>6. \A e \in Employee : j.about = e => j.epoch >= account[e].epoch /\ Known(e) /\ j.epoch \in Nat
    BY Jobs, Constants DEF Accounted, Queued, TypeOK
  <2>7. \A v \in Worker : \A e \in Employee :
          hand'[v].job.about = e =>
            Known(e) /\ hand'[v].epoch <= account[e].epoch /\ (hand'[v].job.epoch < account[e].epoch => Queued(e)')
    <3> TAKE v \in Worker
    <3> TAKE e \in Employee
    <3>1. CASE v = w
      <4>1. Employee \cap Device = {}
        BY DeliveryAssumption DEF Assumptions
      <4> QED
        BY <1>t, <2>1, <2>2, <2>6, <3>1, <4>1
    <3>2. CASE v # w
      BY <2>2, <2>3, <2>4, <3>2 DEF Accounted
    <3> QED
      BY <3>1, <3>2
  <2> QED
    BY <1>1, <2>1, <2>5, <2>7 DEF Accounted
<1>3. ASSUME NEW w \in Worker, Publish(w) \/ NextBinding(w) \/ WriteBinding(w) PROVE Accounted'
  <2>1. PICK n \in Hand :
           hand' = [hand EXCEPT ![w] = n] /\ n.job = hand[w].job /\ n.epoch = hand[w].epoch /\ UNCHANGED <<due, bundle>>
    BY <1>3, PublishDoes, NextBindingDoes, WriteBindingDoes DEF storeVars
  <2>2. \A v \in Worker : hand'[v].job = hand[v].job /\ hand'[v].epoch = hand[v].epoch
    BY <2>1, Gone
  <2>3. \A e \in Employee : Queued(e)' <=> Queued(e)
    BY <2>1 DEF Queued
  <2> QED
    BY <1>1, <2>1, <2>2, <2>3 DEF Accounted
<1>4. ASSUME NEW w \in Worker, Commit(w) PROVE Accounted'
  <2>1. hand' = [hand EXCEPT ![w] = Idle] /\ due' = due
    BY <1>4 DEF Commit, Go
  <2>2. hand'[w] = Idle /\ \A v \in Worker \ {w} : hand'[v] = hand[v]
    BY <2>1, Gone
  <2>3. \A e \in Employee : Queued(e)' <=> Queued(e)
    BY <2>1 DEF Queued
  <2>4. \A e \in Employee : bundle'[e].epoch <= account[e].epoch
    <3>1. PICK b : b = [epoch |-> hand[w].epoch, token |-> hand[w].content.token]
      OBVIOUS
    <3>2. bundle' = bundle \/ bundle' = [bundle EXCEPT ![hand[w].job.about] = b]
      BY <1>4, <3>1 DEF Commit
    <3>3. b.epoch = hand[w].epoch
      BY <3>1
    <3>4. \A e \in Employee : hand[w].job.about = e => hand[w].epoch <= account[e].epoch
      BY DEF Accounted
    <3> QED
      BY <3>2, <3>3, <3>4 DEF Accounted, TypeOK
  <2> QED
    BY <1>1, <1>n, <2>1, <2>2, <2>3, <2>4 DEF Accounted
<1>5. ASSUME (\E w \in Worker : Lapse(w) \/ FailWrite(w)) \/ CrashConsole PROVE Accounted'
  <2>1. bundle' = bundle
    BY <1>5 DEF Lapse, FailWrite, CrashConsole, storeVars
  <2>2. \A e \in Employee : Queued(e) => Queued(e)'
    BY <1>5, Returned DEF Queued
  <2>3. \A e \in Employee : Queued(e)' => Known(e)
    BY <1>5, Returned DEF Queued, Accounted
  <2>4. \A e \in Employee : \A j \in due' : j.about = e => j.epoch >= account[e].epoch
    BY <1>5, Returned DEF Accounted
  <2>5. \A v \in Worker : hand'[v] = hand[v] \/ hand'[v] = Idle
    BY <1>5, Returned
  <2> QED
    BY <1>1, <1>n, <2>1, <2>2, <2>3, <2>4, <2>5 DEF Accounted
<1>6. ASSUME NEW w \in Worker, RefuseExport(w) PROVE Accounted'
  <2>1. /\ UNCHANGED <<due, bundle>> /\ hand'[w] = Idle /\ \A v \in Worker \ {w} : hand'[v] = hand[v]
    BY <1>6, RefuseDoes
  <2>2. \A e \in Employee : Queued(e)' <=> Queued(e)
    BY <2>1 DEF Queued
  <2> QED
    BY <1>1, <1>n, <2>1, <2>2 DEF Accounted
<1> QED
  BY <1>2, <1>3, <1>4, <1>5, <1>6 DEF LoopAction, Work

\* What an operation on an account queues and leaves queued.
LEMMA AccountQueue ==
  ASSUME TypeOK, NEW e \in Employee, AccountStep(e)
  PROVE  /\ Queued(e)' /\ Known(e)'
         /\ \A x : x # e => (Queued(x)' <=> Queued(x))
         /\ \A f \in Employee : Known(f) => Known(f)'
         /\ \A j \in due' : j.about # e => j \in due
         /\ \A j \in due' : j.about = e => \/ j \in due /\ account'[e].epoch = account[e].epoch
                                        \/ j.epoch = account'[e].epoch
         /\ \A f \in Employee : account[f].epoch \in Nat /\ account'[f].epoch \in Nat
<1> DEFINE k == account'[e].epoch
<1>1. k \in Epoch /\ \A f \in Employee : account[f].epoch \in Epoch /\ account'[f].epoch \in Epoch
  BY DEF AccountStep, TypeOK, Account
<1>2. EmployeeJob(e, k).about = e /\ EmployeeJob(e, k).epoch = k
  BY <1>1, Jobs
<1>3. /\ \A j \in due : j.about # e => j \in due'
      /\ \A j \in due' : j \in due \/ j = EmployeeJob(e, k)
      /\ k = account[e].epoch \/ \A j \in due' : j.about = e => j = EmployeeJob(e, k)
      /\ EmployeeJob(e, k) \in due'
      /\ account'[e].status # "none" /\ \A f \in Employee \ {e} : account'[f] = account[f]
  BY DEF AccountStep
<1>4. Queued(e)' /\ \A x : x # e => (Queued(x)' <=> Queued(x))
  BY <1>2, <1>3 DEF Queued
<1>5. Known(e)' /\ \A f \in Employee : Known(f) => Known(f)'
  BY <1>3 DEF Known
<1>6. Epoch \subseteq Nat
  BY Constants
<1> HIDE DEF k
<1>7. \A j \in due' : j.about = e => (j \in due /\ k = account[e].epoch) \/ j.epoch = k
  BY <1>2, <1>3
<1> QED
  BY <1>1, <1>2, <1>3, <1>4, <1>5, <1>6, <1>7 DEF k

\* What an operation on a machine queues and leaves queued.
LEMMA MachineQueue ==
  ASSUME TypeOK, NEW d \in Device, MachineStep(d)
  PROVE  /\ Queued(d)' /\ \A x : Queued(x) => Queued(x)'
         /\ \A f \in Employee : (Known(f)' <=> Known(f)) /\ (Queued(f)' => Queued(f) \/ Known(f))
         /\ \A j \in due' : \A e \in Employee : j.about = e => j \in due \/ j.epoch = account[e].epoch
<1>1. /\ due \subseteq due' /\ DeviceJob(d) \in due' /\ account' = account
      /\ \A j \in due' : \/ j \in due \/ j = DeviceJob(d)
                        \/ \E e \in Employee : j = EmployeeJob(e, account[e].epoch) /\ Known(e)
  BY DEF MachineStep
<1>2. DeviceJob(d).about = d /\ d \notin Employee
  BY Jobs, DeliveryAssumption DEF Assumptions
<1>3. \A e \in Employee : /\ EmployeeJob(e, account[e].epoch).about = e
                        /\ EmployeeJob(e, account[e].epoch).epoch = account[e].epoch
  <2>1. \A e \in Employee : account[e].epoch \in Epoch
    BY DEF TypeOK, Account
  <2> QED
    BY <2>1, Jobs
<1> QED
  BY <1>1, <1>2, <1>3 DEF Queued, Known

\* The console's operations leave the accounts' work accounted for.
LEMMA ConsoleAccounts ==
  ASSUME TypeOK, Accounted,
         \/ \E e \in Employee : AccountStep(e)
         \/ \E d \in Device : MachineStep(d)
         \/ SwitchChannel
  PROVE  Accounted'
<1>m. \A d \in Device : machine[d].holder \in Employee \cup {Nobody}
  BY DEF TypeOK, Machine
<1>t. /\ \A w \in Worker : hand[w].epoch \in Nat /\ hand[w].job.epoch \in Nat
      /\ \A e \in Employee : bundle[e].epoch \in Nat
  <2>1. \A w \in Worker : hand[w].epoch \in Epoch /\ hand[w].job \in Job \cup {NoJob}
    BY DEF TypeOK, Hand
  <2>2. NoJob.epoch \in Nat /\ \A j \in Job : j.epoch \in Nat
    BY Jobs, Constants DEF NoJob
  <2>3. \A e \in Employee : bundle[e].epoch \in Nat
    BY Constants DEF TypeOK
  <2> QED
    BY <2>1, <2>2, <2>3, Constants
<1>1. ASSUME NEW e \in Employee, AccountStep(e) PROVE Accounted'
  <2>1. UNCHANGED <<machine, bundle, hand>> /\ account'[e].epoch >= account[e].epoch
        /\ \A f \in Employee \ {e} : account'[f] = account[f]
    BY <1>1 DEF AccountStep, storeVars
  <2>2. /\ Queued(e)' /\ Known(e)'
        /\ \A x : x # e => (Queued(x)' <=> Queued(x))
        /\ \A f \in Employee : Known(f) => Known(f)'
        /\ \A j \in due' : j.about # e => j \in due
        /\ \A j \in due' : j.about = e => \/ j \in due /\ account'[e].epoch = account[e].epoch
                                       \/ j.epoch = account'[e].epoch
        /\ \A f \in Employee : account[f].epoch \in Nat /\ account'[f].epoch \in Nat
    BY <1>1, AccountQueue
  <2>3. (\A d \in Device : machine[d].holder # Nobody => Known(machine[d].holder))'
    <3>1. \A d \in Device : machine[d].holder # Nobody => account'[machine[d].holder].status # "none"
      BY <1>m, <2>2 DEF Accounted, Known
    <3> QED
      BY <2>1, <3>1 DEF Known
  <2>4. \A f \in Employee :
          /\ Queued(f)' => Known(f)'
          /\ \A j \in due' : j.about = f => j.epoch >= account'[f].epoch
          /\ bundle'[f].epoch <= account'[f].epoch
    <3> TAKE f \in Employee
    <3>1. CASE f = e
      BY <1>t, <2>1, <2>2, <3>1 DEF Accounted
    <3>2. CASE f # e
      BY <2>1, <2>2, <3>2 DEF Accounted
    <3> QED
      BY <3>1, <3>2
  <2>5. \A w \in Worker : \A f \in Employee :
          hand'[w].job.about = f =>
            Known(f)' /\ hand'[w].epoch <= account'[f].epoch /\ (hand'[w].job.epoch < account'[f].epoch => Queued(f)')
    <3> TAKE w \in Worker
    <3> TAKE f \in Employee
    <3>1. CASE f = e
      BY <1>t, <2>1, <2>2, <3>1 DEF Accounted
    <3>2. CASE f # e
      BY <2>1, <2>2, <3>2 DEF Accounted
    <3> QED
      BY <3>1, <3>2
  <2> QED
    BY <2>3, <2>4, <2>5 DEF Accounted
<1>2. ASSUME NEW d \in Device, MachineStep(d) PROVE Accounted'
  <2>1. /\ UNCHANGED <<account, bundle, hand>> /\ machine'[d].holder \in Employee \cup {Nobody}
        /\ machine'[d].holder = Nobody \/ account[machine'[d].holder].status # "none"
        /\ \A c \in Device \ {d} : machine'[c] = machine[c]
    <3>1. machine'[d].holder \in Employee \cup {Nobody}
      BY <1>2 DEF MachineStep, Machine
    <3>2. /\ machine'[d].holder = Nobody \/ Known(machine'[d].holder)
          /\ UNCHANGED <<account, bundle, hand>> /\ \A c \in Device \ {d} : machine'[c] = machine[c]
      BY <1>2 DEF MachineStep, storeVars
    <3> QED
      BY <3>1, <3>2 DEF Known
  <2>2. /\ Queued(d)' /\ \A x : Queued(x) => Queued(x)'
        /\ \A f \in Employee : (Known(f)' <=> Known(f)) /\ (Queued(f)' => Queued(f) \/ Known(f))
        /\ \A j \in due' : \A e \in Employee : j.about = e => j \in due \/ j.epoch = account[e].epoch
    BY <1>2, MachineQueue
  <2>3. \A c \in Device : machine'[c].holder # Nobody => account'[machine'[c].holder].status # "none"
    BY <1>m, <2>1 DEF Accounted, Known
  <2>4. \A e \in Employee : account[e].epoch \in Nat
    BY Constants DEF TypeOK, Account
  <2>5. \A f \in Employee :
          /\ Queued(f)' => Known(f)'
          /\ \A j \in due' : j.about = f => j.epoch >= account'[f].epoch
          /\ bundle'[f].epoch <= account'[f].epoch
    BY <2>1, <2>2, <2>4 DEF Accounted
  <2>6. \A w \in Worker : \A f \in Employee :
          hand'[w].job.about = f =>
            Known(f)' /\ hand'[w].epoch <= account'[f].epoch /\ (hand'[w].job.epoch < account'[f].epoch => Queued(f)')
    BY <2>1, <2>2 DEF Accounted
  <2>7. (\A c \in Device : machine[c].holder # Nobody => Known(machine[c].holder))'
    BY <2>3 DEF Known
  <2> QED
    BY <2>5, <2>6, <2>7 DEF Accounted
<1>3. CASE SwitchChannel
  BY <1>3 DEF SwitchChannel, storeVars, Accounted, Known, Queued
<1> QED
  BY <1>1, <1>2, <1>3

-----------------------------------------------------------------------------
(* What has been exported, and what will be. *)

\* While a loop works, what the database says stays as it is.
LEMMA LoopLeaves ==
  ASSUME TypeOK, Locked, (\E w \in Worker : LoopAction(w)) \/ CrashConsole
  PROVE  /\ UNCHANGED <<account, machine, writing, toggles>>
         /\ \A d : Build(d)' = Build(d)
         /\ \A e : Deliverable(e)' = Deliverable(e) /\ (Known(e)' <=> Known(e)) /\ (OwnName(e)' <=> OwnName(e))
<1>1. UNCHANGED <<account, machine, writing, toggles>>
  BY LoopTypes DEF exportFrame, consoleVars
<1> QED
  BY <1>1 DEF Build, Deliverable, Open, Known, OwnName

\* A loop with a task, and one that is about to write, keep others from claiming it.
LEMMA NotClaimed ==
  ASSUME TypeOK, Locked, NEW w \in Worker, NEW x, LockFree(w, x), NEW v \in Worker \ {w}
  PROVE  /\ hand[v].pc # "idle" => hand[v].job.about # x
         /\ hand[v].pc = "write" => hand[v].target # x
BY Working DEF LockFree, Locked, Holding

\* What a loop has read is what the database says, or somebody is asked to read it again.
LEMMA LoopRead ==
  ASSUME TypeOK, Locked, Accounted, Read, (\E w \in Worker : LoopAction(w)) \/ CrashConsole
  PROVE  Read'
<1>0. /\ account' = account
      /\ \A d : Build(d)' = Build(d) /\ \A e : Deliverable(e)' = Deliverable(e)
  BY LoopLeaves
<1>i. /\ \A w \in Worker : hand[w].pc = "idle" => \A x \in Employee \cup Device : hand[w].job.about # x
      /\ Idle.pc = "idle" /\ \A x \in Employee \cup Device : Idle.job.about # x
  BY Jobs, DeliveryAssumption DEF Locked, Holding, Assumptions, Idle
<1>g. \A w \in Worker : hand[w].pc = "write" => hand[w].target \in Device
  BY DEF Locked, Holding
<1>1. ASSUME \A w \in Worker : /\ hand'[w].pc = "write" => \/ hand'[w].image = Build(hand'[w].target)
                                                        \/ \E j \in due' : j.about = hand'[w].target
                              /\ \A e \in Employee :
                                   hand'[w].job.about = e =>
                                     \/ \E j \in due' : j.about = e
                                     \/ hand'[w].content = Deliverable(e) /\ hand'[w].epoch = account[e].epoch
      PROVE  Read'
  BY <1>0, <1>1 DEF Read, Queued
<1>2. ASSUME NEW w \in Worker, Claim(w) PROVE Read'
  <2>1. PICK j \in due, n \in Hand :
           /\ hand[w].pc = "idle" /\ LockFree(w, j.about)
           /\ due' = due \ {j} /\ hand' = [hand EXCEPT ![w] = n] /\ n.job = j
           /\ \/ j.about \in Device /\ n.pc = "write" /\ n.image = Build(j.about) /\ n.target = j.about
              \/ /\ j.about \in Employee /\ n.pc = "publish"
                 /\ n.content = Deliverable(j.about) /\ n.epoch = account[j.about].epoch
    BY <1>2, ClaimDoes
  <2>2. hand'[w] = n /\ \A v \in Worker \ {w} : hand'[v] = hand[v]
    BY <2>1, Gone
  <2>3. \A v \in Worker \ {w} :
          /\ hand[v].pc # "idle" => hand[v].job.about # j.about
          /\ hand[v].pc = "write" => hand[v].target # j.about
    BY <2>1, NotClaimed
  <2>4. \A x : x # j.about /\ (\E i \in due : i.about = x) => \E i \in due' : i.about = x
    BY <2>1
  <2>5. Employee \cap Device = {}
    BY DeliveryAssumption DEF Assumptions
  <2>6. ASSUME NEW v \in Worker
        PROVE  /\ hand'[v].pc = "write" => \/ hand'[v].image = Build(hand'[v].target)
                                         \/ \E i \in due' : i.about = hand'[v].target
               /\ \A e \in Employee :
                    hand'[v].job.about = e =>
                      \/ \E i \in due' : i.about = e
                      \/ hand'[v].content = Deliverable(e) /\ hand'[v].epoch = account[e].epoch
    <3>1. CASE v = w
      BY <2>1, <2>2, <2>5, <3>1
    <3>2. CASE v # w
      <4>1. /\ hand[v].pc = "write" => hand[v].image = Build(hand[v].target) \/ \E i \in due : i.about = hand[v].target
            /\ \A e \in Employee :
                 hand[v].job.about = e =>
                   (\E i \in due : i.about = e) \/ (hand[v].content = Deliverable(e) /\ hand[v].epoch = account[e].epoch)
        BY DEF Read, Queued
      <4>2. hand'[v] = hand[v]
        BY <2>2, <3>2
      <4>3. hand[v].pc = "write" =>
              hand[v].image = Build(hand[v].target) \/ \E i \in due' : i.about = hand[v].target
        BY <2>3, <2>4, <3>2, <4>1
      <4>4. ASSUME NEW e \in Employee, hand[v].job.about = e
            PROVE  (\E i \in due' : i.about = e) \/ (hand[v].content = Deliverable(e) /\ hand[v].epoch = account[e].epoch)
        <5>1. e # j.about
          BY <1>i, <2>3, <3>2, <4>4
        <5> QED
          BY <2>4, <4>1, <4>4, <5>1
      <4> QED
        BY <4>2, <4>3, <4>4
    <3> QED
      BY <3>1, <3>2
  <2> QED
    BY <1>1, <2>6
<1>3. ASSUME NEW w \in Worker, Publish(w) \/ NextBinding(w) \/ WriteBinding(w) PROVE Read'
  <2>1. PICK n \in Hand :
           /\ hand' = [hand EXCEPT ![w] = n] /\ n.job = hand[w].job /\ n.epoch = hand[w].epoch
           /\ n.content = hand[w].content /\ due' = due
           /\ n.pc = "write" => n.image = Build(n.target)
    BY <1>3, PublishDoes, NextBindingDoes, WriteBindingDoes
  <2>2. hand'[w] = n /\ \A v \in Worker \ {w} : hand'[v] = hand[v]
    BY <2>1, Gone
  <2> QED
    BY <1>1, <2>1, <2>2 DEF Read, Queued
<1>4. ASSUME NEW w \in Worker, Commit(w) PROVE Read'
  <2>1. hand' = [hand EXCEPT ![w] = Idle] /\ due' = due
    BY <1>4 DEF Commit, Go
  <2>2. hand'[w] = Idle /\ \A v \in Worker \ {w} : hand'[v] = hand[v]
    BY <2>1, Gone
  <2> QED
    BY <1>1, <1>i, <2>1, <2>2 DEF Read, Queued
<1>5. ASSUME (\E w \in Worker : Lapse(w) \/ FailWrite(w)) \/ CrashConsole PROVE Read'
  <2>1. due \subseteq due' /\ \A v \in Worker : hand'[v] = hand[v] \/ hand'[v] = Idle
    BY <1>5, Returned
  <2> QED
    BY <1>1, <1>i, <2>1 DEF Read, Queued
<1>6. ASSUME NEW w \in Worker, RefuseExport(w) PROVE Read'
  <2>1. due' = due /\ hand'[w] = Idle /\ \A v \in Worker \ {w} : hand'[v] = hand[v]
    BY <1>6, RefuseDoes
  <2> QED
    BY <1>1, <1>i, <2>1 DEF Read, Queued
<1> QED
  BY <1>2, <1>3, <1>4, <1>5, <1>6 DEF LoopAction, Work

\* Who is about to write something is still about to, has written it, or has it queued again.
LEMMA LoopWritten ==
  ASSUME TypeOK, Locked, Accounted, Read, Written, (\E w \in Worker : LoopAction(w)) \/ CrashConsole
  PROVE  Written'
<1>0. /\ UNCHANGED <<account, machine, writing, toggles>>
      /\ \A d : Build(d)' = Build(d)
      /\ \A e : Deliverable(e)' = Deliverable(e) /\ (Known(e)' <=> Known(e)) /\ (OwnName(e)' <=> OwnName(e))
  BY LoopLeaves
<1> SUFFICES ASSUME toggles = 0
             PROVE  /\ writing'
                    /\ \A d \in Device :
                         \/ object'[d] = Build(d) \/ (\E j \in due' : j.about = d) \/ d \in failed'
                         \/ \E w \in Worker : hand'[w].pc = "write" /\ hand'[w].job.about = d
                    /\ \A e \in Employee :
                         Known(e) /\ OwnName(e) =>
                           \/ archive'[UserOf[e]] = Deliverable(e) \/ (\E j \in due' : j.about = e) \/ e \in failed'
                           \/ \E w \in Worker : hand'[w].pc = "publish" /\ hand'[w].job.about = e
  BY <1>0 DEF Written, Queued
<1>1. writing' = TRUE /\ writing
  BY <1>0 DEF Written, TypeOK
<1>d. ASSUME NEW d \in Device
      PROVE  \/ object[d] = Build(d) \/ (\E j \in due : j.about = d) \/ d \in failed
             \/ \E w \in Worker : hand[w].pc = "write" /\ hand[w].job.about = d
  BY DEF Written, Queued
<1>e. ASSUME NEW e \in Employee, Known(e), OwnName(e)
      PROVE  \/ archive[UserOf[e]] = Deliverable(e) \/ (\E j \in due : j.about = e) \/ e \in failed
             \/ \E w \in Worker : hand[w].pc = "publish" /\ hand[w].job.about = e
  BY <1>e DEF Written, Queued
<1>u. \A e \in Employee : UserOf[e] \in User
  BY DeliveryAssumption DEF Assumptions
<1> DEFINE G(d) == \/ object'[d] = Build(d) \/ (\E j \in due' : j.about = d) \/ d \in failed'
                   \/ \E w \in Worker : hand'[w].pc = "write" /\ hand'[w].job.about = d
           H(e) == \/ archive'[UserOf[e]] = Deliverable(e) \/ (\E j \in due' : j.about = e) \/ e \in failed'
                   \/ \E w \in Worker : hand'[w].pc = "publish" /\ hand'[w].job.about = e
<1>2. ASSUME NEW w \in Worker, Claim(w)
      PROVE  (\A d \in Device : G(d)) /\ (\A e \in Employee : Known(e) /\ OwnName(e) => H(e))
  <2>1. PICK j \in due, n \in Hand :
           /\ hand[w].pc = "idle"
           /\ due' = due \ {j} /\ hand' = [hand EXCEPT ![w] = n] /\ n.job = j
           /\ (j.about \in Device /\ n.pc = "write") \/ (j.about \in Employee /\ n.pc = "publish")
           /\ failed' = failed \ {j.about} /\ UNCHANGED <<archive, object>>
    BY <1>2, ClaimDoes
  <2>2. hand'[w] = n /\ \A v \in Worker \ {w} : hand'[v] = hand[v]
    BY <2>1, Gone
  <2>3. Employee \cap Device = {}
    BY DeliveryAssumption DEF Assumptions
  <2>4. ASSUME NEW d \in Device PROVE G(d)
    <3>1. CASE object[d] = Build(d)
      BY <2>1, <3>1
    <3>2. CASE \E i \in due : i.about = d
      BY <2>1, <2>2, <2>3, <3>2
    <3>3. CASE \E v \in Worker : hand[v].pc = "write" /\ hand[v].job.about = d
      BY <2>1, <2>2, <3>3
    <3>4. CASE d \in failed
      BY <2>1, <2>2, <2>3, <3>4
    <3> QED
      BY <1>d, <3>1, <3>2, <3>3, <3>4
  <2>5. ASSUME NEW e \in Employee, Known(e), OwnName(e) PROVE H(e)
    <3>1. CASE archive[UserOf[e]] = Deliverable(e)
      BY <2>1, <3>1
    <3>2. CASE \E i \in due : i.about = e
      BY <2>1, <2>2, <2>3, <3>2
    <3>3. CASE \E v \in Worker : hand[v].pc = "publish" /\ hand[v].job.about = e
      BY <2>1, <2>2, <3>3
    <3>4. CASE e \in failed
      BY <2>1, <2>2, <2>3, <3>4
    <3> QED
      BY <1>e, <2>5, <3>1, <3>2, <3>3, <3>4
  <2> QED
    BY <2>4, <2>5
<1>3. ASSUME NEW w \in Worker, Publish(w)
      PROVE  (\A d \in Device : G(d)) /\ (\A e \in Employee : Known(e) /\ OwnName(e) => H(e))
  <2>1. PICK n \in Hand :
           /\ hand[w].pc = "publish" /\ hand' = [hand EXCEPT ![w] = n]
           /\ archive' = IF writing THEN [archive EXCEPT ![UserOf[hand[w].job.about]] = hand[w].content] ELSE archive
           /\ UNCHANGED <<due, failed, object>>
    BY <1>3, PublishDoes
  <2>2. \A v \in Worker \ {w} : hand'[v] = hand[v]
    BY <2>1, Gone
  <2>3. PICK f \in Employee : f = hand[w].job.about
    BY <2>1 DEF Locked, Holding
  <2>4. Known(f) /\ ((\E j \in due : j.about = f) \/ hand[w].content = Deliverable(f))
    BY <2>3 DEF Accounted, Read, Queued
  <2>5. ASSUME NEW d \in Device PROVE G(d)
    BY <1>d, <2>1, <2>2
  <2>6. ASSUME NEW e \in Employee, Known(e), OwnName(e) PROVE H(e)
    <3>1. CASE e = f
      BY <1>1, <1>u, <2>1, <2>3, <2>4, <3>1 DEF TypeOK
    <3>2. CASE e # f
      <4>1. UserOf[f] # UserOf[e]
        BY <2>4, <2>6, <3>2 DEF OwnName, Known
      <4>2. archive'[UserOf[e]] = archive[UserOf[e]]
        BY <1>1, <1>u, <2>1, <2>3, <4>1 DEF TypeOK
      <4> QED
        BY <1>e, <2>1, <2>2, <2>3, <2>6, <3>2, <4>2
    <3> QED
      BY <3>1, <3>2
  <2> QED
    BY <2>5, <2>6
<1>4. ASSUME NEW w \in Worker, NextBinding(w) \/ Commit(w)
      PROVE  (\A d \in Device : G(d)) /\ (\A e \in Employee : Known(e) /\ OwnName(e) => H(e))
  <2>1. hand[w].pc = "next" /\ \E n : hand' = [hand EXCEPT ![w] = n]
    BY <1>4 DEF NextBinding, Commit, Go
  <2>2. \A v \in Worker \ {w} : hand'[v] = hand[v]
    BY <2>1, Gone
  <2>3. UNCHANGED <<due, failed, archive, object>>
    BY <1>4 DEF NextBinding, Commit, storeVars
  <2>4. ASSUME NEW d \in Device PROVE G(d)
    BY <1>d, <2>1, <2>2, <2>3
  <2>5. ASSUME NEW e \in Employee, Known(e), OwnName(e) PROVE H(e)
    BY <1>e, <2>1, <2>2, <2>3, <2>5
  <2> QED
    BY <2>4, <2>5
<1>5. ASSUME NEW w \in Worker, WriteBinding(w)
      PROVE  (\A d \in Device : G(d)) /\ (\A e \in Employee : Known(e) /\ OwnName(e) => H(e))
  <2>1. PICK n \in Hand :
           /\ hand[w].pc = "write" /\ hand' = [hand EXCEPT ![w] = n]
           /\ object' = IF writing THEN [object EXCEPT ![hand[w].target] = hand[w].image] ELSE object
           /\ UNCHANGED <<due, failed, archive>>
    BY <1>5, WriteBindingDoes
  <2>2. \A v \in Worker \ {w} : hand'[v] = hand[v]
    BY <2>1, Gone
  <2>3. hand[w].job.about \in Device => hand[w].target = hand[w].job.about
    BY <2>1 DEF Locked, Holding
  <2>4. hand[w].image = Build(hand[w].target) \/ \E j \in due : j.about = hand[w].target
    BY <2>1 DEF Read, Queued
  <2>5. ASSUME NEW d \in Device PROVE G(d)
    <3>1. CASE d = hand[w].target
      BY <1>1, <2>1, <2>4, <3>1 DEF TypeOK
    <3>2. CASE d # hand[w].target
      <4>1. object'[d] = object[d]
        BY <1>1, <2>1, <3>2 DEF TypeOK
      <4> QED
        BY <1>d, <2>1, <2>2, <2>3, <3>2, <4>1
    <3> QED
      BY <3>1, <3>2
  <2>6. ASSUME NEW e \in Employee, Known(e), OwnName(e) PROVE H(e)
    BY <1>e, <2>1, <2>2, <2>6
  <2> QED
    BY <2>5, <2>6
<1>6. ASSUME (\E w \in Worker : Lapse(w) \/ FailWrite(w)) \/ CrashConsole
      PROVE  (\A d \in Device : G(d)) /\ (\A e \in Employee : Known(e) /\ OwnName(e) => H(e))
  <2>1. /\ due \subseteq due'
        /\ \A w \in Worker : \/ hand'[w] = hand[w]
                            \/ \A x \in Employee \cup Device : hand[w].job.about = x => \E j \in due' : j.about = x
    BY <1>6, Returned DEF Queued
  <2>2. UNCHANGED <<failed, archive, object>>
    BY <1>6 DEF Lapse, FailWrite, CrashConsole, storeVars
  <2>3. ASSUME NEW d \in Device PROVE G(d)
    BY <1>d, <2>1, <2>2
  <2>4. ASSUME NEW e \in Employee, Known(e), OwnName(e) PROVE H(e)
    BY <1>e, <2>1, <2>2, <2>4
  <2> QED
    BY <2>3, <2>4
<1>7. ASSUME NEW w \in Worker, RefuseExport(w)
      PROVE  (\A d \in Device : G(d)) /\ (\A e \in Employee : Known(e) /\ OwnName(e) => H(e))
  <2>1. /\ \A v \in Worker \ {w} : hand'[v] = hand[v]
        /\ failed' = failed \cup {hand[w].job.about} /\ UNCHANGED <<due, archive, object>>
    BY <1>7, RefuseDoes
  <2>2. ASSUME NEW d \in Device PROVE G(d)
    BY <1>d, <2>1
  <2>3. ASSUME NEW e \in Employee, Known(e), OwnName(e) PROVE H(e)
    BY <1>e, <2>1, <2>3
  <2> QED
    BY <2>2, <2>3
<1> QED
  BY <1>1, <1>2, <1>3, <1>4, <1>5, <1>6, <1>7 DEF LoopAction, Work

\* A bundle is stored by who commits; whoever does not has the work queued again.
LEMMA LoopStored ==
  ASSUME TypeOK, Locked, Accounted, Read, Stored, (\E w \in Worker : LoopAction(w)) \/ CrashConsole
  PROVE  Stored'
<1>0. /\ account' = account
      /\ \A e : Deliverable(e)' = Deliverable(e)
  BY LoopLeaves
<1> SUFFICES ASSUME NEW e \in Employee
             PROVE  \/ bundle'[e] = [epoch |-> account[e].epoch, token |-> Deliverable(e).token]
                    \/ \E j \in due' : j.about = e
                    \/ \E w \in Worker : hand'[w].job.about = e
                    \/ e \in failed'
  BY <1>0 DEF Stored, Queued, Writing
<1>1. \/ bundle[e] = [epoch |-> account[e].epoch, token |-> Deliverable(e).token]
      \/ \E j \in due : j.about = e
      \/ \E w \in Worker : hand[w].job.about = e
      \/ e \in failed
  BY DEF Stored, Queued, Writing
<1>i. \A w \in Worker : hand[w].pc = "idle" => hand[w].job.about # e
  BY Jobs, DeliveryAssumption DEF Locked, Holding, Assumptions
<1>2. ASSUME NEW w \in Worker, Claim(w)
      PROVE  \/ bundle'[e] = bundle[e] /\ \E j \in due' : j.about = e
             \/ bundle'[e] = bundle[e] /\ (~\E j \in due : j.about = e) /\ (e \in failed => e \in failed')
             \/ \E v \in Worker : hand'[v].job.about = e
  <2>1. PICK j \in due, n \in Hand :
           /\ due' = due \ {j} /\ hand' = [hand EXCEPT ![w] = n] /\ n.job = j /\ bundle' = bundle
           /\ failed' = failed \ {j.about}
    BY <1>2, ClaimDoes
  <2>2. hand'[w] = n
    BY <2>1, Gone
  <2> QED
    BY <2>1, <2>2
<1>3. ASSUME NEW w \in Worker, Claim(w), NEW v \in Worker, hand[v].job.about = e
      PROVE  hand'[v].job.about = e
  <2>1. hand[w].pc = "idle" /\ \E n : hand' = [hand EXCEPT ![w] = n]
    BY <1>3, ClaimDoes
  <2>2. v # w
    BY <1>3, <1>i, <2>1
  <2>3. hand'[v] = hand[v]
    BY <2>1, <2>2, Gone
  <2> QED
    BY <1>3, <2>3
<1>4. ASSUME NEW w \in Worker, Publish(w) \/ NextBinding(w) \/ WriteBinding(w)
      PROVE  UNCHANGED <<due, failed, bundle>> /\ \A v \in Worker : hand'[v].job = hand[v].job
  <2>1. PICK n \in Hand : hand' = [hand EXCEPT ![w] = n] /\ n.job = hand[w].job /\ UNCHANGED <<due, failed, bundle>>
    BY <1>4, PublishDoes, NextBindingDoes, WriteBindingDoes DEF storeVars
  <2> QED
    BY <2>1, Gone
<1>5. ASSUME NEW w \in Worker, Commit(w)
      PROVE  \/ bundle'[e] = [epoch |-> account[e].epoch, token |-> Deliverable(e).token]
             \/ \E j \in due' : j.about = e
             \/ \E v \in Worker : hand'[v].job.about = e
             \/ e \in failed'
  <2>1. hand' = [hand EXCEPT ![w] = Idle] /\ UNCHANGED <<due, failed>>
    BY <1>5 DEF Commit, Go
  <2>2. \A v \in Worker \ {w} : hand'[v] = hand[v]
    BY <2>1, Gone
  <2>3. CASE hand[w].job.about = e
    <3>1. CASE \E j \in due : j.about = e
      BY <2>1, <3>1
    <3>2. CASE ~\E j \in due : j.about = e
      <4>1. hand[w].content = Deliverable(e) /\ hand[w].epoch = account[e].epoch
        BY <2>3, <3>2 DEF Read, Queued
      <4>2. e \notin Device /\ ~(hand[w].epoch < bundle[e].epoch)
        <5>1. bundle[e].epoch <= account[e].epoch /\ bundle[e].epoch \in Nat /\ account[e].epoch \in Nat
          BY Constants DEF Accounted, TypeOK, Account
        <5> QED
          BY <4>1, <5>1, DeliveryAssumption DEF Assumptions
      <4>3. bundle' = [bundle EXCEPT ![e] = [epoch |-> hand[w].epoch, token |-> hand[w].content.token]]
        BY <1>5, <2>3, <4>2 DEF Commit
      <4> QED
        BY <4>1, <4>3 DEF TypeOK
    <3> QED
      BY <3>1, <3>2
  <2>4. CASE hand[w].job.about # e
    <3>1. PICK b : b = [epoch |-> hand[w].epoch, token |-> hand[w].content.token]
      OBVIOUS
    <3>2. bundle' = bundle \/ bundle' = [bundle EXCEPT ![hand[w].job.about] = b]
      BY <1>5, <3>1 DEF Commit
    <3>3. bundle'[e] = bundle[e]
      BY <2>4, <3>2 DEF TypeOK
    <3> QED
      BY <1>1, <2>1, <2>2, <2>4, <3>3
  <2> QED
    BY <2>3, <2>4
<1>6. ASSUME (\E w \in Worker : Lapse(w) \/ FailWrite(w)) \/ CrashConsole
      PROVE  /\ UNCHANGED <<bundle, failed>> /\ due \subseteq due'
             /\ \A w \in Worker : hand[w].job.about = e => hand'[w] = hand[w] \/ \E j \in due' : j.about = e
  <2>1. UNCHANGED <<bundle, failed>>
    BY <1>6 DEF Lapse, FailWrite, CrashConsole, storeVars
  <2> QED
    BY <1>6, <2>1, Returned DEF Queued
<1>7. ASSUME NEW w \in Worker, Claim(w)
      PROVE  \/ bundle'[e] = [epoch |-> account[e].epoch, token |-> Deliverable(e).token]
             \/ \E j \in due' : j.about = e
             \/ \E v \in Worker : hand'[v].job.about = e
             \/ e \in failed'
  BY <1>1, <1>2, <1>3, <1>7
<1>8. ASSUME NEW w \in Worker, Publish(w) \/ NextBinding(w) \/ WriteBinding(w)
      PROVE  \/ bundle'[e] = [epoch |-> account[e].epoch, token |-> Deliverable(e).token]
             \/ \E j \in due' : j.about = e
             \/ \E v \in Worker : hand'[v].job.about = e
             \/ e \in failed'
  BY <1>1, <1>4, <1>8
<1>9. ASSUME (\E w \in Worker : Lapse(w) \/ FailWrite(w)) \/ CrashConsole
      PROVE  \/ bundle'[e] = [epoch |-> account[e].epoch, token |-> Deliverable(e).token]
             \/ \E j \in due' : j.about = e
             \/ \E v \in Worker : hand'[v].job.about = e
             \/ e \in failed'
  BY <1>1, <1>6, <1>9
<1>10. ASSUME NEW w \in Worker, RefuseExport(w)
      PROVE  \/ bundle'[e] = [epoch |-> account[e].epoch, token |-> Deliverable(e).token]
             \/ \E j \in due' : j.about = e
             \/ \E v \in Worker : hand'[v].job.about = e
             \/ e \in failed'
  <2>1. /\ \A v \in Worker \ {w} : hand'[v] = hand[v]
        /\ failed' = failed \cup {hand[w].job.about} /\ UNCHANGED <<due, bundle>>
    BY <1>10, RefuseDoes
  <2> QED
    BY <1>1, <2>1
<1> QED
  BY <1>5, <1>7, <1>8, <1>9, <1>10 DEF LoopAction, Work

\* What the console changes is queued in the same transaction.
LEMMA ConsoleExported ==
  ASSUME TypeOK, Locked, Accounted, Exported,
         \/ \E e \in Employee : AccountStep(e)
         \/ \E d \in Device : MachineStep(d)
         \/ SwitchChannel
  PROVE  Exported'
<1>t. /\ \A w \in Worker : hand[w].pc = "write" => hand[w].target \in Device
      /\ Employee \cap Device = {} /\ toggles \in Nat
  BY DeliveryAssumption DEF Assumptions, Locked, Holding, TypeOK
<1>1. ASSUME NEW e \in Employee, AccountStep(e) PROVE Exported'
  <2>1. /\ Queued(e)' /\ \A x : x # e => (Queued(x)' <=> Queued(x))
    BY <1>1, AccountQueue
  <2>2. /\ UNCHANGED <<machine, writing, failed, bundle, archive, object, hand, toggles>>
        /\ \A f \in Employee \ {e} : account'[f] = account[f]
        /\ account'[e].status # "none"
    BY <1>1 DEF AccountStep, storeVars
  <2>3. /\ \A d \in Device : Build(d)' = Build(d)
        /\ \A f \in Employee \ {e} : Deliverable(f)' = Deliverable(f) /\ (Known(f)' <=> Known(f))
        /\ \A f \in Employee \ {e} : OwnName(f)' => OwnName(f)
    <3>1. \A d \in Device : Build(d)' = Build(d)
      BY <2>2 DEF Build
    <3>2. \A f \in Employee \ {e} : Deliverable(f)' = Deliverable(f) /\ (Known(f)' <=> Known(f))
      BY <2>2 DEF Deliverable, Open, Known
    <3>3. \A f \in Employee \ {e} : OwnName(f)' => OwnName(f)
      BY <2>2 DEF OwnName
    <3> QED
      BY <3>1, <3>2, <3>3
  <2>4. Read'
    <3> SUFFICES ASSUME NEW w \in Worker
                 PROVE  /\ hand[w].pc = "write" => hand[w].image = Build(hand[w].target) \/ Queued(hand[w].target)
                        /\ \A f \in Employee :
                             hand[w].job.about = f =>
                               Queued(f)' \/ (hand[w].content = Deliverable(f)' /\ hand[w].epoch = account'[f].epoch)
                        /\ hand[w].pc = "write" /\ Queued(hand[w].target) => \E j \in due' : j.about = hand[w].target
                        /\ hand[w].pc = "write" /\ hand[w].image = Build(hand[w].target) =>
                             hand'[w].image = Build(hand[w].target)'
      BY <2>2 DEF Read, Queued
    <3>1. hand[w].pc = "write" => hand[w].image = Build(hand[w].target) \/ Queued(hand[w].target)
      BY DEF Exported, Read
    <3>2. \A f \in Employee :
            hand[w].job.about = f => Queued(f)' \/ (hand[w].content = Deliverable(f)' /\ hand[w].epoch = account'[f].epoch)
      BY <2>1, <2>2, <2>3 DEF Exported, Read
    <3>3. hand[w].pc = "write" /\ Queued(hand[w].target) => \E j \in due' : j.about = hand[w].target
      <4>1. \A x \in Device : Queued(x) => \E j \in due' : j.about = x
        BY <1>t, <2>1 DEF Queued
      <4> QED
        BY <1>t, <4>1
    <3>4. hand[w].pc = "write" /\ hand[w].image = Build(hand[w].target) => hand'[w].image = Build(hand[w].target)'
      BY <2>2 DEF Build
    <3> QED
      BY <3>1, <3>2, <3>3, <3>4
  <2>5. Written'
    BY <1>t, <2>1, <2>2, <2>3 DEF Exported, Written
  <2>6. Stored'
    BY <2>1, <2>2, <2>3 DEF Exported, Stored, Writing
  <2> QED
    BY <2>4, <2>5, <2>6 DEF Exported
<1>2. ASSUME NEW d \in Device, MachineStep(d) PROVE Exported'
  <2>1. Queued(d)' /\ \A x : Queued(x) => Queued(x)'
    BY <1>2, MachineQueue
  <2>2. /\ UNCHANGED <<account, writing, failed, bundle, archive, object, hand, toggles>>
        /\ \A c \in Device \ {d} : machine'[c] = machine[c]
    BY <1>2 DEF MachineStep, storeVars
  <2>3. /\ \A c \in Device \ {d} : Build(c)' = Build(c)
        /\ \A f \in Employee : Deliverable(f)' = Deliverable(f) /\ (Known(f)' <=> Known(f)) /\ (OwnName(f)' <=> OwnName(f))
    BY <2>2 DEF Build, Deliverable, Open, Known, OwnName
  <2>4. Read'
    <3>1. \A x : Queued(x) => \E j \in due' : j.about = x
      BY <2>1 DEF Queued
    <3>2. \A w \in Worker :
            hand[w].pc = "write" => \/ hand[w].image = Build(hand[w].target) /\ hand[w].target # d
                                    \/ \E j \in due' : j.about = hand[w].target
      <4>1. \E j \in due' : j.about = d
        BY <2>1 DEF Queued
      <4> QED
        BY <3>1, <4>1 DEF Exported, Read
    <3>3. \A w \in Worker : \A f \in Employee :
            hand[w].job.about = f => \/ \E j \in due' : j.about = f
                                     \/ hand[w].content = Deliverable(f)' /\ hand[w].epoch = account'[f].epoch
      BY <3>1, <2>2, <2>3 DEF Exported, Read
    <3>4. \A w \in Worker : hand[w].pc = "write" /\ hand[w].target # d => hand'[w].target \in Device \ {d}
      BY <1>t, <2>2
    <3>5. \A c \in Device \ {d} : \A i : i = Build(c) => i = Build(c)'
      BY <2>3
    <3> SUFFICES ASSUME NEW w \in Worker, hand[w].pc = "write", hand[w].image = Build(hand[w].target), hand[w].target # d
                 PROVE  hand'[w].image = Build(hand[w].target)'
      BY <2>2, <3>2, <3>3 DEF Read, Queued
    <3>6. hand[w].target \in Device \ {d}
      BY <1>t
    <3>7. machine'[hand'[w].target] = machine[hand[w].target]
      BY <2>2, <3>6
    <3> QED
      BY <2>2, <3>7 DEF Build
  <2>5. Written'
    BY <2>1, <2>2, <2>3 DEF Exported, Written
  <2>6. Stored'
    BY <2>1, <2>2, <2>3 DEF Exported, Stored, Writing
  <2> QED
    BY <2>4, <2>5, <2>6 DEF Exported
<1>3. CASE SwitchChannel
  <2>1. UNCHANGED <<account, machine, due, failed, bundle, archive, object, hand>> /\ toggles' = toggles + 1
    BY <1>3 DEF SwitchChannel, storeVars
  <2>2. Written'
    BY <1>t, <2>1 DEF Written
  <2>3. Read' /\ Stored'
    BY <2>1 DEF Exported, Read, Stored, Queued, Writing, Build, Deliverable, Open
  <2> QED
    BY <2>2, <2>3 DEF Exported
<1> QED
  BY <1>1, <1>2, <1>3

\* What happens at a machine is nothing to the exports.
LEMMA DeskLeaves ==
  ASSUME Locked, Accounted, Exported, UNCHANGED deskFrame
  PROVE  Locked' /\ Accounted' /\ Exported'
<1>1. UNCHANGED <<account, machine, writing, due, failed, bundle, archive, object, hand, toggles>>
  BY DEF deskFrame, consoleVars, storeVars
<1>2. Locked'
  BY <1>1 DEF Locked, Holding, Idle, NoJob
<1>3. Accounted'
  BY <1>1 DEF Accounted, Known, Queued
<1>4. Exported'
  BY <1>1 DEF Exported, Read, Written, Stored, Queued, Writing, Build, Deliverable, Open, Known, OwnName
<1> QED
  BY <1>2, <1>3, <1>4

\* The console starts with everything exported.
LEMMA ExportStart == Init => ExportInv
<1> SUFFICES ASSUME Init PROVE ExportInv
  OBVIOUS
<1>1. TypeOK
  BY TypesStart
<1>i. /\ \A w \in Worker : hand[w] = Idle
      /\ Idle.pc = "idle" /\ Idle.job = NoJob /\ Idle.job.about = Nobody /\ Idle.locks = {} /\ Idle.todo = {}
      /\ Nobody \notin Employee \cup Device /\ due = {}
  BY DeliveryAssumption DEF Init, Idle, NoJob, Assumptions
<1>2. Locked
  BY <1>i DEF Locked, Holding
<1>3. Bound
  <2>1. \A d \in Device : agent[d].pc = "rest"
    BY DEF Init, NewAgent
  <2> QED
    BY <2>1 DEF Bound
<1>a. /\ \A e \in Employee : account[e] = IF e \in Staff THEN [status |-> "open", epoch |-> 1, token |-> 1]
                                        ELSE [status |-> "none", epoch |-> 0, token |-> 0]
      /\ \A e \in Employee : bundle[e] = [epoch |-> account[e].epoch, token |-> account[e].token]
      /\ \A d \in Device : /\ machine[d].holder \in Staff \cup {Nobody} /\ machine[d].nonce = 0 /\ machine[d].gone = FALSE
                          /\ object[d] = IF machine[d].holder = Nobody THEN Absent
                                         ELSE [user |-> UserOf[machine[d].holder], nonce |-> 0]
      /\ Staff \subseteq Employee
  BY DeliveryAssumption DEF Init, Assumptions
<1>4. Accounted
  <2>1. ASSUME NEW e \in Employee
        PROVE  /\ bundle[e].epoch = account[e].epoch /\ account[e].epoch \in Nat
               /\ e \in Staff => account[e].status = "open"
    <3>1. bundle[e] = [epoch |-> account[e].epoch, token |-> account[e].token]
      BY <1>a
    <3>2. bundle[e].epoch = account[e].epoch
      BY <3>1
    <3>3. CASE e \in Staff
      <4>1. account[e] = [status |-> "open", epoch |-> 1, token |-> 1]
        BY <1>a, <3>3
      <4>2. account[e].epoch = 1 /\ account[e].status = "open"
        BY <4>1
      <4> QED
        BY <3>2, <4>2
    <3>4. CASE e \notin Staff
      <4>1. account[e] = [status |-> "none", epoch |-> 0, token |-> 0]
        BY <1>a, <3>4
      <4>2. account[e].epoch = 0
        BY <4>1
      <4> QED
        BY <3>2, <3>4, <4>2
    <3> QED
      BY <3>3, <3>4
  <2>2. \A d \in Device : machine[d].holder # Nobody => Known(machine[d].holder)
    BY <1>a, <2>1 DEF Known
  <2>3. \A e \in Employee : bundle[e].epoch <= account[e].epoch /\ ~Queued(e) /\ \A w \in Worker : hand[w].job.about # e
    BY <1>i, <2>1 DEF Queued
  <2> QED
    BY <1>i, <2>2, <2>3 DEF Accounted
<1>5. Read
  BY <1>i DEF Read
<1>6. \A e \in Employee : Deliverable(e) = IF e \in Staff THEN [emp |-> e, token |-> 1] ELSE Nothing
  BY <1>a DEF Deliverable, Open
<1>7. Written
  <2>1. \A d \in Device : object[d] = Build(d)
    BY <1>a DEF Build
  <2>2. \A e \in Employee : Known(e) => e \in Staff
    BY <1>a DEF Known
  <2>3. ASSUME NEW e \in Staff PROVE archive[UserOf[e]] = [emp |-> e, token |-> 1]
    <3>1. \A f \in Staff : UserOf[f] = UserOf[e] => f = e
      BY DeliveryAssumption DEF Assumptions
    <3>2. (CHOOSE f \in Staff : UserOf[f] = UserOf[e]) = e
      BY <3>1
    <3>3. UserOf[e] \in User
      BY <1>a, DeliveryAssumption DEF Assumptions
    <3> QED
      BY <3>2, <3>3 DEF Init
  <2>4. writing
    BY DEF Init
  <2> QED
    BY <1>6, <2>1, <2>2, <2>3, <2>4 DEF Written
<1>8. Stored
  <2>1. \A e \in Employee : Deliverable(e).token = account[e].token
    BY <1>a, <1>6 DEF Nothing
  <2> QED
    BY <1>a, <2>1 DEF Stored
<1> QED
  BY <1>1, <1>2, <1>3, <1>4, <1>5, <1>7, <1>8 DEF ExportInv, Exported

\* Every step keeps what is known of the exports.
LEMMA ExportStep == ExportInv /\ [Next]_vars => ExportInv'
<1> SUFFICES ASSUME ExportInv, [Next]_vars PROVE ExportInv'
  OBVIOUS
<1> USE DEF ExportInv
<1>1. CASE UNCHANGED vars
  <2>1. UNCHANGED <<account, machine, writing, due, failed, bundle, archive, object, hand, agent, profile, session,
                    local, events, toggles, asker, crossed, quiet>>
    BY <1>1 DEF vars, consoleVars, storeVars, deskVars, countVars, pastVars
  <2>2. UNCHANGED deskFrame
    BY <1>1 DEF vars, deskFrame, countVars, pastVars
  <2>3. TypeOK' /\ Bound'
    BY <2>1 DEF TypeOK, Bound
  <2> QED
    BY <2>2, <2>3, DeskLeaves
<1>2. CASE Next
  <2>1. CASE \/ \E e \in Employee : AccountStep(e)
             \/ \E d \in Device : MachineStep(d)
             \/ SwitchChannel
    BY <2>1, ConsoleTypes, ConsoleAccounts, ConsoleExported
  <2>2. CASE (\E w \in Worker : LoopAction(w)) \/ CrashConsole
    <3>1. TypeOK' /\ Locked' /\ agent' = agent
      BY <2>2, LoopTypes DEF exportFrame, deskVars
    <3>2. Bound'
      BY <3>1 DEF Bound
    <3> QED
      BY <2>2, <3>1, <3>2, LoopAccounts, LoopRead, LoopWritten, LoopStored DEF Exported
  <2>3. CASE \E d \in Device : DeskAction(d)
    BY <2>3, DeskTypes, DeskLeaves
  <2> QED
    BY <1>2, <2>1, <2>2, <2>3, Steps
<1> QED
  BY <1>1, <1>2

\* The invariant says what the exports promise: whatever order they ran in, what is left
\* unqueued is written.
LEMMA ExportMeansCurrent == ExportInv => SettledMeansCurrent
<1>1. \A x \in Employee \cup Device : x # Nobody
  BY DeliveryAssumption DEF Assumptions
<1> QED
  BY <1>1 DEF ExportInv, Exported, Written, SettledMeansCurrent, Unsettled, Known

\* While the bucket's channel has never been off: once nothing is left to do for a machine,
\* or for an employee, and the last export of it did not end failed, the bucket says what the
\* database says (internal/worker/export.go, internal/ops).
THEOREM SettledIsCurrent == Spec => []SettledMeansCurrent
BY ExportStart, ExportStep, ExportMeansCurrent, PTL DEF Spec

-----------------------------------------------------------------------------
(* Whose files there are, and whose Codex runs on them. *)

\* A profile gets, on the bucket's channel, what the bucket has under its name.
LEMMA OwnedStep ==
  ASSUME ExportInv, Owned, [Next]_vars
  PROVE  Owned'
<1> USE DEF ExportInv
<1>n. Nobody \notin Employee /\ \A e \in Employee : UserOf[e] \in User
  BY DeliveryAssumption DEF Assumptions
<1>1. ASSUME UNCHANGED <<hand, archive, agent, profile>> PROVE Owned'
  BY <1>1 DEF Owned, IsOf
<1>2. ASSUME NEW w \in Worker, LoopAction(w) PROVE Owned'
  <2>1. UNCHANGED <<agent, profile>>
    BY <1>2, LoopTypes DEF exportFrame, deskVars
  <2>2. ASSUME \A v \in Worker : hand'[v].pc = "publish" => \/ hand'[v].content = Nothing
                                                         \/ hand'[v].content.emp = hand'[v].job.about,
               \A u \in User : archive'[u] = archive[u] \/ archive'[u] = Nothing \/ UserOf[archive'[u].emp] = u
        PROVE  Owned'
    BY <2>1, <2>2 DEF Owned, IsOf
  <2>3. CASE Claim(w)
    <3>1. PICK j \in due, n \in Hand :
             /\ hand' = [hand EXCEPT ![w] = n] /\ n.job = j
             /\ n.pc = "write" \/ n.content = Deliverable(j.about)
             /\ archive' = archive
      BY <2>3, ClaimDoes
    <3>2. hand'[w] = n /\ \A v \in Worker \ {w} : hand'[v] = hand[v]
      BY <3>1, Gone
    <3>3. Deliverable(j.about) = Nothing \/ Deliverable(j.about).emp = j.about
      BY DEF Deliverable
    <3> QED
      BY <2>2, <3>1, <3>2, <3>3 DEF Owned
  <2>4. CASE Publish(w)
    <3>1. PICK n \in Hand :
             /\ hand[w].pc = "publish" /\ hand' = [hand EXCEPT ![w] = n] /\ n.pc = "next"
             /\ archive' = IF writing THEN [archive EXCEPT ![UserOf[hand[w].job.about]] = hand[w].content] ELSE archive
      BY <2>4, PublishDoes
    <3>2. hand'[w] = n /\ \A v \in Worker \ {w} : hand'[v] = hand[v]
      BY <3>1, Gone
    <3>3. hand[w].content = Nothing \/ hand[w].content.emp = hand[w].job.about
      BY <3>1 DEF Owned
    <3>4. \A u \in User : archive'[u] = archive[u] \/ archive'[u] = Nothing \/ UserOf[archive'[u].emp] = u
      BY <3>1, <3>3 DEF TypeOK
    <3> QED
      BY <2>2, <3>1, <3>2, <3>4 DEF Owned
  <2>5. CASE NextBinding(w) \/ WriteBinding(w)
    <3>1. PICK n \in Hand : hand' = [hand EXCEPT ![w] = n] /\ n.pc # "publish" /\ archive' = archive
      BY <2>5, NextBindingDoes, WriteBindingDoes DEF storeVars
    <3>2. hand'[w] = n /\ \A v \in Worker \ {w} : hand'[v] = hand[v]
      BY <3>1, Gone
    <3> QED
      BY <2>2, <3>1, <3>2 DEF Owned
  <2>6. CASE Commit(w) \/ FailWrite(w)
    <3>1. hand' = [hand EXCEPT ![w] = Idle] /\ archive' = archive
      BY <2>6 DEF Commit, FailWrite, Go, storeVars
    <3>2. hand'[w] = Idle /\ \A v \in Worker \ {w} : hand'[v] = hand[v]
      BY <3>1, Gone
    <3>3. Idle.pc # "publish"
      BY DEF Idle
    <3> QED
      BY <2>2, <3>1, <3>2, <3>3 DEF Owned
  <2>7. CASE Lapse(w)
    BY <2>1, <2>7, <1>1 DEF Lapse, storeVars
  <2>8. CASE RefuseExport(w)
    <3>1. hand'[w] = Idle /\ (\A v \in Worker \ {w} : hand'[v] = hand[v]) /\ archive' = archive
      BY <2>8, RefuseDoes
    <3>2. Idle.pc # "publish"
      BY DEF Idle
    <3> QED
      BY <2>2, <3>1, <3>2 DEF Owned
  <2> QED
    BY <1>2, <2>3, <2>4, <2>5, <2>6, <2>7, <2>8 DEF LoopAction, Work
<1>3. CASE CrashConsole
  <2>1. hand' = [w \in Worker |-> Idle] /\ UNCHANGED <<archive, agent, profile>>
    BY <1>3 DEF CrashConsole, storeVars, exportFrame, deskVars
  <2> QED
    BY <2>1 DEF Owned, IsOf, Idle
<1>4. ASSUME NEW d \in Device, DeskAction(d) PROVE Owned'
  <2>1. UNCHANGED <<hand, archive>>
    BY <1>4, DeskTypes DEF deskFrame, storeVars
  <2>2. ASSUME \A c \in Device : agent'[c].channel = "oss" => agent[c].channel = "oss",
               \A c \in Device, u \in User :
                 agent[c].channel = "oss" => \/ profile'[c][u] = profile[c][u] \/ profile'[c][u] = Nothing
                                            \/ profile'[c][u] = archive[u]
        PROVE  Owned'
    BY <2>1, <2>2 DEF Owned, IsOf
  <2>3. \A c \in Device : agent'[c].channel = "oss" => agent[c].channel = "oss"
    <3>1. ASSUME NEW n, Turn(d, n), n.channel \in {agent[d].channel, "api"}
          PROVE  \A c \in Device : agent'[c].channel = "oss" => agent[c].channel = "oss"
      BY <3>1, Turned
    <3>2. CASE \E u \in User : SignIn(d, u) \/ StartCodex(d, u)
      BY <3>2 DEF SignIn, StartCodex
    <3>3. CASE \/ Cycle(d) \/ BeginCycleBlind(d) \/ NoAnswer(d) \/ WithdrawFails(d) \/ DeployFails(d) \/ RevokeFails(d)
               \/ StopCodexFails(d) \/ RestartAgent(d) \/ EnrolLate(d)
      <4>1. \E n : Turn(d, n) /\ n.channel \in {agent[d].channel, "api"}
        BY <3>3, DeskTurn DEF NextOf
      <4> QED
        BY <3>1, <4>1
    <3> QED
      BY <1>4, <3>2, <3>3 DEF DeskAction
  <2>4. CASE Withdraw(d) \/ WithdrawFails(d)
    <3>1. Replaced(profile, profile', d, {agent[d].bind.user}, Nothing)
      BY <2>4, WithdrawDoes, WithdrawFailsDoes
    <3> QED
      BY <2>2, <2>3, <3>1 DEF Replaced
  <2>5. CASE RevokeAll(d) \/ RevokeFails(d)
    <3>1. PICK kept : Replaced(profile, profile', d, local[d] \ kept, Nothing)
      BY <2>5, RevokeAllDoes
    <3> QED
      BY <2>2, <2>3, <3>1 DEF Replaced
  <2>6. CASE Deploy(d) \/ DeployFails(d)
    <3>1. Replaced(profile, profile', d, {agent[d].bind.user}, Answer(d).content)
          /\ agent[d].bind.user \in User /\ Answer(d) # NoMark
      BY <2>6, DeployDoes, DeployFailsDoes
    <3>2. agent[d].channel = "oss" => Answer(d).content = archive[agent[d].bind.user]
      BY <3>1, Answers
    <3> QED
      BY <2>2, <2>3, <3>1, <3>2 DEF Replaced
  <2>7. CASE profile' = profile
    BY <2>2, <2>3, <2>7
  <2>8. \/ Withdraw(d) \/ RevokeAll(d) \/ Deploy(d) \/ WithdrawFails(d) \/ RevokeFails(d) \/ DeployFails(d)
        \/ profile' = profile
    <3>1. CASE \E u \in User : SignIn(d, u) \/ StartCodex(d, u)
      BY <3>1 DEF SignIn, StartCodex
    <3>2. CASE BeginCycle(d) \/ Unchanged(d) \/ WriteMark(d) \/ StopCodex(d) \/ CarryOutRestart(d) \/ NoteRestart(d)
      BY <3>2 DEF BeginCycle, Unchanged, WriteMark, StopCodex, CarryOutRestart, NoteRestart
    <3>3. CASE BeginCycleBlind(d) \/ NoAnswer(d) \/ StopCodexFails(d) \/ RestartAgent(d) \/ EnrolLate(d)
      BY <3>3 DEF BeginCycleBlind, NoAnswer, StopCodexFails, RestartAgent, EnrolLate
    <3> QED
      BY <1>4, <3>1, <3>2, <3>3 DEF DeskAction, Cycle
  <2> QED
    BY <2>4, <2>5, <2>6, <2>7, <2>8
<1>5. CASE \/ \E e \in Employee : AccountStep(e)
           \/ \E d \in Device : MachineStep(d)
           \/ SwitchChannel
  <2>1. UNCHANGED <<hand, archive, agent, profile>>
    BY <1>5 DEF AccountStep, MachineStep, SwitchChannel, storeVars, deskVars
  <2> QED
    BY <1>1, <2>1
<1>6. CASE UNCHANGED vars
  BY <1>1, <1>6 DEF vars, storeVars, deskVars
<1>7. CASE Next
  BY <1>2, <1>3, <1>4, <1>5, <1>7, Steps
<1> QED
  BY <1>6, <1>7

\* It holds at the start, when no profile has a file.
LEMMA OwnedStart == Init => Owned
<1> SUFFICES ASSUME Init PROVE Owned
  OBVIOUS
<1>1. \A w \in Worker : hand[w].pc # "publish"
  BY DEF Init, Idle
<1>2. \A u \in User : archive[u] = Nothing \/ UserOf[archive[u].emp] = u
  BY DEF Init
<1>3. \A d \in Device, u \in User : profile[d][u] = Nothing
  BY DEF Init
<1> QED
  BY <1>1, <1>2, <1>3 DEF Owned, IsOf

\* A machine on the bucket's channel puts a token in its owner's profile only.
THEOREM FilesStayWithTheirOwners == Spec => []FilesAreTheirOwners
<1>1. Init => ExportInv /\ Owned
  BY ExportStart, OwnedStart
<1>2. ExportInv /\ Owned /\ [Next]_vars => (ExportInv /\ Owned)'
  BY ExportStep, OwnedStep
<1>3. Owned => FilesAreTheirOwners
  BY DEF Owned, IsOf, FilesAreTheirOwners
<1> QED
  BY <1>1, <1>2, <1>3, PTL DEF Spec

-----------------------------------------------------------------------------
(* Files and running programs. *)

\* What the invariant says of one machine: the agent, what it has delivered to whom, what
\* runs there, who has a profile.
Tidy(a, files, running, people) ==
  /\ a.left \subseteq people /\ (a.pc = "ask" => a.bind.user \in people)
  /\ a.cut \/ \A u \in User : \/ running[u] \in {Nothing, files[u]}
                              \/ a.pc \in {"mark", "end"} /\ u \in a.ends
                              \/ u \in a.left /\ files[u] = Nothing

\* The invariant in those words.
LEMMA SweptIs == Swept <=> \A d \in Device : Tidy(agent[d], profile[d], session[d], local[d])
BY DEF Swept, Tidy, Halfway

\* One machine's step leaves the others as they are.
LEMMA SweptAfter ==
  ASSUME Swept, NEW d \in Device,
         \A c \in Device \ {d} :
           agent'[c] = agent[c] /\ profile'[c] = profile[c] /\ session'[c] = session[c] /\ local'[c] = local[c],
         Tidy(agent'[d], profile'[d], session'[d], local'[d])
  PROVE  Swept'
<1>1. \A c \in Device : Tidy(agent'[c], profile'[c], session'[c], local'[c])
  BY SweptIs
<1> QED
  BY <1>1 DEF Swept, Tidy, Halfway

\* What an agent has taken from under a running Codex it ends, or is cut short, or there is
\* more to take: one step.
LEMMA SweptStep ==
  ASSUME ExportInv, Swept, [Next]_vars
  PROVE  Swept'
<1> USE DEF ExportInv
<1>1. ASSUME UNCHANGED <<agent, profile, session, local>> PROVE Swept'
  BY <1>1 DEF Swept, Halfway
<1>2. ASSUME NEW w \in Worker, LoopAction(w) PROVE Swept'
  BY <1>1, <1>2, LoopTypes DEF exportFrame, deskVars
<1>3. CASE CrashConsole
  BY <1>1, <1>3 DEF CrashConsole, exportFrame, deskVars
<1>4. ASSUME NEW d \in Device, DeskAction(d) PROVE Swept'
  <2> DEFINE a == agent[d]
  <2>0. /\ a.left \subseteq local[d] /\ (a.pc = "ask" => a.bind.user \in local[d]) /\ local[d] \subseteq User
        /\ a.cut \/ \A u \in User : \/ session[d][u] \in {Nothing, profile[d][u]}
                                    \/ a.pc \in {"mark", "end"} /\ u \in a.ends
                                    \/ u \in a.left /\ profile[d][u] = Nothing
        /\ profile \in Files /\ session \in Files
    BY DEF Swept, Halfway, TypeOK, Files
  <2>1. ASSUME NEW n, Turn(d, n), local' = local,
               \A c \in Device \ {d} : profile'[c] = profile[c] /\ session'[c] = session[c],
               n.left \subseteq local[d] /\ (n.pc = "ask" => n.bind.user \in local[d]),
               n.cut \/ \A u \in User : \/ session'[d][u] \in {Nothing, profile'[d][u]}
                                        \/ n.pc \in {"mark", "end"} /\ u \in n.ends
                                        \/ u \in n.left /\ profile'[d][u] = Nothing
        PROVE  Swept'
    <3>1. Tidy(agent'[d], profile'[d], session'[d], local'[d])
      BY <2>1, Turned DEF Tidy
    <3> QED
      BY <2>1, <3>1, Turned, SweptAfter
  <2>2. CASE BeginCycle(d) \/ BeginCycleBlind(d) \/ EnrolLate(d)
    <3>1. PICK n : Turn(d, n) /\ n.cut = a.cut /\ n.left = a.left /\ (n.pc = "ask" => n.bind.user \in local[d])
      BY <2>2, BeginDoes, EnrolLateDoes
    <3>2. a.pc = "rest" /\ UNCHANGED <<profile, session, local>>
      BY <2>2, BeginDoes, EnrolLateDoes
    <3> QED
      BY <2>0, <2>1, <3>1, <3>2
  <2>3. CASE Withdraw(d)
    <3> DEFINE u == a.bind.user
    <3>1. PICK n : /\ Turn(d, n) /\ n.cut = a.cut /\ n.pc # "ask"
                   /\ \/ u \notin Managed(d) /\ n.left = a.left
                      \/ n.pc = "end" /\ n.ends = {u} /\ n.left = a.left \ {u}
      BY <2>3, WithdrawDoes DEF Keeps, Done
    <3>2. /\ a.pc = "ask" /\ Replaced(profile, profile', d, {u}, Nothing) /\ session' = session /\ local' = local
      BY <2>3, WithdrawDoes
    <3>3. u \notin Managed(d) => profile[d][u] = Nothing /\ u \notin a.left
      BY <2>0, <3>2 DEF Managed
    <3> QED
      BY <2>0, <2>1, <3>1, <3>2, <3>3 DEF Replaced
  <2>15. CASE WithdrawFails(d)
    <3> DEFINE u == a.bind.user
    <3>1. PICK n : Turn(d, n) /\ n.cut = a.cut /\ n.pc # "ask" /\ n.left = a.left \cup {u}
      BY <2>15, WithdrawFailsDoes DEF Keeps, Done
    <3>2. /\ a.pc = "ask" /\ Replaced(profile, profile', d, {u}, Nothing) /\ session' = session /\ local' = local
      BY <2>15, WithdrawFailsDoes
    <3> QED
      BY <2>0, <2>1, <3>1, <3>2 DEF Replaced
  <2>4. CASE Unchanged(d) \/ NoAnswer(d)
    <3>1. PICK n : Turn(d, n) /\ n.cut = a.cut /\ n.pc # "ask" /\ n.left = a.left
      BY <2>4, PassDoes DEF Keeps, Done
    <3>2. a.pc = "ask" /\ UNCHANGED <<profile, session, local>>
      BY <2>4, PassDoes
    <3> QED
      BY <2>0, <2>1, <3>1, <3>2
  <2>5. CASE Deploy(d)
    <3> DEFINE u == a.bind.user
               c == Answer(d).content
    <3>1. PICK n : /\ Turn(d, n) /\ n.cut = a.cut /\ n.pc = "mark" /\ n.left = a.left \ {u}
                   /\ n.ends = IF profile[d][u] = c THEN {} ELSE {u}
      BY <2>5, DeployDoes DEF Keeps
    <3>2. /\ a.pc = "ask" /\ Replaced(profile, profile', d, {u}, c) /\ session' = session /\ local' = local
          /\ c # Nothing
      BY <2>5, DeployDoes
    <3> HIDE DEF c
    <3> QED
      BY <2>0, <2>1, <3>1, <3>2 DEF Replaced
  <2>16. CASE DeployFails(d)
    <3> DEFINE u == a.bind.user
               c == Answer(d).content
    <3>1. PICK n : Turn(d, n) /\ n.cut = TRUE /\ n.pc # "ask" /\ n.left = a.left \ {u}
      BY <2>16, DeployFailsDoes DEF Done
    <3>2. Replaced(profile, profile', d, {u}, c) /\ session' = session /\ local' = local
      BY <2>16, DeployFailsDoes
    <3> HIDE DEF c
    <3> QED
      BY <2>0, <2>1, <3>1, <3>2 DEF Replaced
  <2>6. CASE WriteMark(d)
    <3>1. PICK n : /\ Turn(d, n) /\ n.cut = a.cut /\ n.pc # "ask" /\ n.left = a.left
                   /\ (a.ends = {} \/ (n.pc = "end" /\ n.ends = a.ends))
      BY <2>6, WriteMarkDoes DEF Keeps, Done
    <3>2. UNCHANGED <<profile, session, local>>
      BY <2>6, WriteMarkDoes
    <3> QED
      BY <2>0, <2>1, <3>1, <3>2
  <2>7. CASE RevokeAll(d) \/ RevokeFails(d)
    <3>1. PICK half, kept :
            /\ a.pc = "revoke" /\ Spared(d, half, kept)
            /\ Replaced(profile, profile', d, local[d] \ kept, Nothing)
            /\ \E n : /\ Turn(d, n) /\ Keeps(a, n) /\ n.pc = "end"
                     /\ n.ends = Managed(d) \ (half \cup kept) /\ n.left = half
            /\ UNCHANGED <<session, local>>
      BY <2>7, RevokeAllDoes
    <3>2. PICK n : Turn(d, n) /\ n.cut = a.cut /\ n.pc = "end" /\ n.ends = Managed(d) \ (half \cup kept) /\ n.left = half
      BY <3>1 DEF Keeps
    <3>3. half \subseteq local[d] /\ \A u \in kept : profile[d][u] # Nothing
      BY <3>1 DEF Spared, Managed
    <3>4. \A u \in local[d] : profile[d][u] # Nothing \/ u \in a.left => u \in Managed(d)
      BY DEF Managed
    <3>5. ASSUME a.cut # TRUE, NEW u \in User
          PROVE  \/ session'[d][u] \in {Nothing, profile'[d][u]}
                 \/ u \in Managed(d) \ (half \cup kept)
                 \/ u \in half /\ profile'[d][u] = Nothing
      <4>1. session[d][u] \in {Nothing, profile[d][u]} \/ (u \in a.left /\ profile[d][u] = Nothing)
        BY <2>0, <3>1, <3>5
      <4>2. profile'[d][u] = IF u \in local[d] \ kept THEN Nothing ELSE profile[d][u]
        BY <3>1 DEF Replaced
      <4> QED
        BY <2>0, <3>1, <3>3, <3>4, <4>1, <4>2
    <3>6. a.cut \in BOOLEAN
      BY DEF TypeOK, Agent
    <3> QED
      BY <2>1, <3>1, <3>2, <3>3, <3>5, <3>6 DEF Replaced
  <2>8. CASE StopCodex(d)
    <3>1. PICK n : Turn(d, n) /\ n.cut = a.cut /\ n.pc # "ask" /\ n.left = a.left
      BY <2>8, StopCodexDoes DEF Keeps, Done
    <3>2. Replaced(session, session', d, a.ends, Nothing) /\ profile' = profile /\ local' = local
      BY <2>8, StopCodexDoes
    <3> QED
      BY <2>0, <2>1, <3>1, <3>2 DEF Replaced
  <2>9. CASE StopCodexFails(d)
    <3>1. PICK n : Turn(d, n) /\ n.cut = TRUE /\ n.pc # "ask" /\ n.left = a.left
      BY <2>9, StopCodexFailsDoes DEF Done
    <3>2. UNCHANGED <<profile, session, local>>
      BY <2>9, StopCodexFailsDoes
    <3> QED
      BY <2>0, <2>1, <3>1, <3>2
  <2>10. CASE CarryOutRestart(d)
    <3>1. PICK n : Turn(d, n) /\ n.cut = a.cut /\ n.pc # "ask" /\ n.left = a.left
      BY <2>10, CarryOutRestartDoes DEF Keeps
    <3>2. /\ a.pc = "nudge" /\ profile' = profile /\ local' = local
          /\ session' = session \/ Replaced(session, session', d, {a.bind.user}, Nothing)
      BY <2>10, CarryOutRestartDoes
    <3> QED
      BY <2>0, <2>1, <3>1, <3>2 DEF Replaced
  <2>11. CASE NoteRestart(d)
    <3>1. PICK n : Turn(d, n) /\ n.cut = a.cut /\ n.pc # "ask" /\ n.left = a.left
      BY <2>11, NoteRestartDoes
    <3>2. a.pc = "noted" /\ UNCHANGED <<profile, session, local>>
      BY <2>11, NoteRestartDoes
    <3> QED
      BY <2>0, <2>1, <3>1, <3>2
  <2>12. CASE RestartAgent(d)
    <3>1. PICK n : Turn(d, n) /\ n.cut = (a.cut \/ CutShort(a)) /\ n.pc # "ask" /\ n.left = a.left
      BY <2>12, RestartAgentDoes
    <3>2. UNCHANGED <<profile, session, local>>
      BY <2>12, RestartAgentDoes
    <3> QED
      BY <2>0, <2>1, <3>1, <3>2 DEF CutShort
  <2>13. ASSUME NEW u \in User, SignIn(d, u) PROVE Swept'
    <3>1. local' = [local EXCEPT ![d] = @ \cup {u}] /\ UNCHANGED <<agent, profile, session>>
      BY <2>13 DEF SignIn
    <3>2. /\ local[d] \subseteq local'[d] /\ \A c \in Device \ {d} : local'[c] = local[c]
      BY <3>1 DEF TypeOK
    <3>3. Tidy(agent'[d], profile'[d], session'[d], local'[d])
      BY <2>0, <3>1, <3>2 DEF Tidy
    <3> QED
      BY <3>1, <3>2, <3>3, SweptAfter
  <2>14. ASSUME NEW u \in User, StartCodex(d, u) PROVE Swept'
    <3>1. PICK c : c = profile[d][u]
      OBVIOUS
    <3>2. session' = [session EXCEPT ![d][u] = c] /\ UNCHANGED <<agent, profile, local>>
      BY <2>14, <3>1 DEF StartCodex
    <3>3. c \in MaybeContent
      BY <2>0, <3>1 DEF Files
    <3>4. Replaced(session, session', d, {u}, c)
      BY <2>0, <3>2, <3>3, ReplacedForOne
    <3>5. Tidy(agent'[d], profile'[d], session'[d], local'[d])
      BY <2>0, <3>1, <3>2, <3>4 DEF Tidy, Replaced
    <3> QED
      BY <3>2, <3>4, <3>5, SweptAfter DEF Replaced
  <2> QED
    BY <1>4, <2>2, <2>3, <2>4, <2>5, <2>6, <2>7, <2>8, <2>9, <2>10, <2>11, <2>12, <2>13, <2>14, <2>15, <2>16
       DEF DeskAction, Cycle
<1>5. CASE \/ \E e \in Employee : AccountStep(e)
           \/ \E d \in Device : MachineStep(d)
           \/ SwitchChannel
  BY <1>1, <1>5 DEF AccountStep, MachineStep, SwitchChannel, deskVars
<1>6. CASE UNCHANGED vars
  BY <1>1, <1>6 DEF vars, deskVars
<1>7. CASE Next
  BY <1>2, <1>3, <1>4, <1>5, <1>7, Steps
<1> QED
  BY <1>6, <1>7

\* It holds at the start, when no agent has run yet.
LEMMA SweptStart == Init => Swept
<1> SUFFICES ASSUME Init PROVE Swept
  OBVIOUS
<1>1. \A d \in Device : agent[d].pc = "rest" /\ agent[d].left = {}
  BY DEF Init, NewAgent
<1>2. \A d \in Device, u \in User : session[d][u] = Nothing
  BY DEF Init
<1> QED
  BY <1>1, <1>2 DEF Swept

\* No running Codex holds a token whose file was taken away or replaced when the agent is at
\* rest, but for one the agent could not finish with: the step was cut short, or the rest of
\* the user's files could not be removed and is there still (internal/agentcore/sync.go).
THEOREM SessionsEndWithTheirFiles == Spec => []NoSessionOutlivesItsFile
<1>1. Init => ExportInv /\ Swept
  BY ExportStart, SweptStart
<1>2. ExportInv /\ Swept /\ [Next]_vars => (ExportInv /\ Swept)'
  BY ExportStep, SweptStep
<1>3. Swept => NoSessionOutlivesItsFile
  BY DEF Swept, NoSessionOutlivesItsFile
<1> QED
  BY <1>1, <1>2, <1>3, PTL DEF Spec

-----------------------------------------------------------------------------
(* Requests to restart Codex. *)

\* What the invariant says of one machine, given what it is made of: the agent, the
\* object, the pending nonce.
Traced(my, obj, now) ==
  /\ Asked(obj) /\ Asked(my.bind)
  /\ my.noted # 0 => asker[my.noted] # Nobody
  /\ NotAfter(my.noted, my.bind.nonce) /\ NotAfter(my.noted, now) /\ NotAfter(my.bind.nonce, now)
  /\ NotAfter(obj.nonce, now)
  /\ my.pc = "nudge" => my.bind.nonce # 0 /\ my.noted # my.bind.nonce
  /\ my.channel = "oss" => NotAfter(my.noted, obj.nonce) /\ NotAfter(my.bind.nonce, obj.nonce)
\* And of an image that is about to be written.
Imaged(img, my, obj, now) ==
  /\ Asked(img)
  /\ NotAfter(obj.nonce, img.nonce) /\ NotAfter(img.nonce, now)
  /\ my.channel = "oss" => NotAfter(my.noted, img.nonce) /\ NotAfter(my.bind.nonce, img.nonce)
Consecutive == \A m, n \in Nonce \ {0} : m < n /\ asker[n] # Nobody => asker[m] # Nobody
Standing(d) ==
  machine[d].nonce # 0 => machine[d].holder # Nobody /\ asker[machine[d].nonce] = machine[d].holder

\* The invariant in those words.
LEMMA RequestedIs ==
  Requested <=>
    /\ Consecutive
    /\ \A d \in Device :
         /\ Standing(d) /\ Traced(agent[d], object[d], machine[d].nonce)
         /\ \A w \in Worker : Writes(w, d) => Imaged(hand[w].image, agent[d], object[d], machine[d].nonce)
BY DEF Requested, Consecutive, Standing, Traced, Imaged

\* The same after a step.
LEMMA RequestedNow ==
  ASSUME Consecutive',
         \A d \in Device : Standing(d)',
         \A d \in Device : Traced(agent[d], object[d], machine[d].nonce)',
         \A d \in Device : \A w \in Worker :
           Writes(w, d)' => Imaged(hand[w].image, agent[d], object[d], machine[d].nonce)'
  PROVE  Requested'
BY DEF Requested, Consecutive, Standing, Traced, Imaged

\* What the console tells a machine is a request made for the one it tells of.
LEMMA BuildIsAsked ==
  ASSUME TypeOK, Requested, NEW d \in Device
  PROVE  Asked(Build(d)) /\ Build(d).nonce \in {0, machine[d].nonce}
<1>1. Standing(d)
  BY RequestedIs
<1>2. CASE Build(d) = Absent
  BY <1>2 DEF Absent, Asked
<1>3. CASE Build(d) = [user |-> UserOf[machine[d].holder], nonce |-> machine[d].nonce]
  <2>1. Build(d).user = UserOf[machine[d].holder] /\ Build(d).nonce = machine[d].nonce
    BY <1>3
  <2> QED
    BY <1>1, <2>1, DeliveryAssumption DEF Standing, Asked, Assumptions
<1> QED
  BY <1>2, <1>3 DEF Build

\* Requests are in order along a machine's path: one step.
LEMMA RequestedStep ==
  ASSUME ExportInv, Requested, [Next]_vars
  PROVE  Requested'
<1> USE DEF ExportInv
<1>a. /\ Nonce \subseteq Nat /\ 0 \in Nonce /\ Nobody \notin Employee
      /\ \A d \in Device : /\ machine[d].nonce \in Nonce /\ agent[d].noted \in Nonce
                           /\ agent[d].bind \in Document /\ object[d] \in Document
      /\ \A w \in Worker : hand[w].image \in Document
  BY Constants, DeliveryAssumption DEF TypeOK, Machine, Agent, Hand, Assumptions
<1>b. \A doc \in Document : doc.nonce \in Nonce
  BY DEF Document
<1>c. /\ Consecutive
      /\ \A d \in Device : Standing(d) /\ Traced(agent[d], object[d], machine[d].nonce)
      /\ \A d \in Device, w \in Worker :
           Writes(w, d) => Imaged(hand[w].image, agent[d], object[d], machine[d].nonce)
  BY RequestedIs
<1>1. ASSUME UNCHANGED <<machine, object, hand, agent, asker>> PROVE Requested'
  BY <1>1 DEF Requested, Asked, Writes
<1>2. ASSUME NEW e \in Employee, AccountStep(e) PROVE Requested'
  BY <1>1, <1>2 DEF AccountStep, storeVars, deskVars
<1>3. CASE SwitchChannel
  BY <1>1, <1>3 DEF SwitchChannel, storeVars, deskVars
<1>4. ASSUME NEW d \in Device, MachineStep(d) PROVE Requested'
  <2>0. /\ UNCHANGED <<object, hand, agent>>
        /\ \A c \in Device \ {d} : machine'[c] = machine[c]
    BY <1>4 DEF MachineStep, storeVars, deskVars
  <2>1. CASE machine'[d].nonce = 0 /\ asker' = asker
    <3>1. Consecutive' /\ \A c \in Device : Standing(c)'
      BY <1>c, <2>0, <2>1 DEF Consecutive, Standing
    <3>2. \A c \in Device : Traced(agent[c], object[c], machine[c].nonce)'
      BY <1>c, <2>0, <2>1 DEF Traced, Asked, NotAfter
    <3>3. \A c \in Device : \A w \in Worker :
            Writes(w, c)' => Imaged(hand[w].image, agent[c], object[c], machine[c].nonce)'
      BY <1>c, <2>0, <2>1 DEF Imaged, Asked, NotAfter, Writes
    <3> QED
      BY <3>1, <3>2, <3>3, RequestedNow
  <2>2. ASSUME NEW n \in Nonce \ {0},
               asker[n] = Nobody /\ \A i \in 1 .. n - 1 : asker[i] # Nobody,
               machine[d].holder # Nobody /\ machine'[d].holder = machine[d].holder,
               machine'[d].nonce = n /\ asker' = [asker EXCEPT ![n] = machine[d].holder]
        PROVE  Requested'
    <3>1. n \in Nat /\ asker'[n] = machine[d].holder /\ \A m \in Nonce \ {n} : asker'[m] = asker[m]
      BY <1>a, <2>2 DEF TypeOK
    <3>2. \A m \in Nonce \ {0} : asker[m] # Nobody => m < n /\ asker'[m] = asker[m]
      BY <1>a, <1>c, <2>2, <3>1 DEF Consecutive
    <3>3. Consecutive'
      <4> SUFFICES ASSUME NEW m \in Nonce \ {0}, NEW k \in Nonce \ {0}, m < k, asker'[k] # Nobody
                   PROVE  asker'[m] # Nobody
        BY DEF Consecutive
      <4>1. m \in Nat /\ k \in Nat
        BY <1>a
      <4>2. CASE k = n
        BY <2>2, <3>1, <4>1, <4>2
      <4>3. CASE k # n
        BY <1>c, <2>2, <3>1, <4>1, <4>3 DEF Consecutive
      <4> QED
        BY <4>2, <4>3
    <3>4. \A c \in Device : Standing(c)'
      <4>1. Standing(d)'
        BY <2>2, <3>1 DEF Standing
      <4>2. \A c \in Device \ {d} : Standing(c)'
        BY <1>a, <1>c, <2>0, <2>2, <3>2 DEF Standing
      <4> QED
        BY <4>1, <4>2
    <3>5. \A doc \in Document : Asked(doc) => Asked(doc)' /\ NotAfter(doc.nonce, n)
      <4> SUFFICES ASSUME NEW doc \in Document, Asked(doc)
                   PROVE  Asked(doc)' /\ NotAfter(doc.nonce, n)
        OBVIOUS
      <4>1. PICK k \in Nonce : k = doc.nonce
        BY <1>b
      <4>2. CASE k = 0
        BY <4>1, <4>2 DEF Asked, NotAfter
      <4>3. CASE k # 0
        <5>1. asker[k] # Nobody /\ UserOf[asker[k]] = doc.user
          BY <4>1, <4>3 DEF Asked
        <5>2. k < n /\ asker'[k] = asker[k]
          BY <3>2, <4>3, <5>1
        <5>3. k \in Nat
          BY <1>a
        <5> QED
          BY <3>1, <4>1, <5>1, <5>2, <5>3 DEF Asked, NotAfter
      <4> QED
        BY <4>2, <4>3
    <3>6. \A c \in Device : Traced(agent[c], object[c], machine[c].nonce)'
      <4> SUFFICES ASSUME NEW c \in Device PROVE Traced(agent[c], object[c], machine[c].nonce)'
        OBVIOUS
      <4>1. Asked(object[c])' /\ Asked(agent[c].bind)'
        BY <1>a, <1>c, <2>0, <3>5 DEF Traced, Asked
      <4>2. agent[c].noted # 0 => asker'[agent[c].noted] # Nobody /\ agent[c].noted < n
        BY <1>a, <1>c, <3>2 DEF Traced
      <4>3. /\ NotAfter(agent[c].noted, machine'[c].nonce) /\ NotAfter(agent[c].bind.nonce, machine'[c].nonce)
            /\ NotAfter(object[c].nonce, machine'[c].nonce)
        <5>1. CASE c = d
          <6>1. NotAfter(object[c].nonce, n) /\ NotAfter(agent[c].bind.nonce, n)
            BY <1>a, <1>c, <3>5 DEF Traced
          <6>2. NotAfter(agent[c].noted, n)
            <7>1. PICK k \in Nonce : k = agent[c].noted
              BY <1>a
            <7>2. k \in Nat /\ (k # 0 => k < n)
              BY <1>a, <4>2, <7>1
            <7> QED
              BY <3>1, <7>1, <7>2 DEF NotAfter
          <6> QED
            BY <2>2, <5>1, <6>1, <6>2
        <5>2. CASE c # d
          BY <1>c, <2>0, <5>2 DEF Traced
        <5> QED
          BY <5>1, <5>2
      <4> QED
        BY <1>c, <2>0, <4>1, <4>2, <4>3 DEF Traced, NotAfter
    <3>7. \A c \in Device : \A w \in Worker :
            Writes(w, c)' => Imaged(hand[w].image, agent[c], object[c], machine[c].nonce)'
      <4> SUFFICES ASSUME NEW c \in Device, NEW w \in Worker, Writes(w, c)
                   PROVE  Imaged(hand[w].image, agent[c], object[c], machine[c].nonce)'
        BY <2>0 DEF Writes
      <4>1. Imaged(hand[w].image, agent[c], object[c], machine[c].nonce)
        BY <1>c
      <4>2. Asked(hand[w].image)' /\ NotAfter(hand[w].image.nonce, machine'[c].nonce)
        <5>1. Asked(hand[w].image)'
          BY <1>a, <2>0, <3>5, <4>1 DEF Imaged, Asked
        <5>2. CASE c = d
          BY <1>a, <2>2, <3>5, <4>1, <5>1, <5>2 DEF Imaged
        <5>3. CASE c # d
          BY <2>0, <4>1, <5>1, <5>3 DEF Imaged
        <5> QED
          BY <5>1, <5>2, <5>3
      <4> QED
        BY <2>0, <4>1, <4>2 DEF Imaged, NotAfter
    <3> QED
      BY <3>3, <3>4, <3>6, <3>7, RequestedNow
  <2> QED
    BY <1>4, <2>1, <2>2 DEF MachineStep
<1>5. ASSUME NEW w \in Worker, LoopAction(w) PROVE Requested'
  <2>0. UNCHANGED <<machine, agent, asker>>
    BY <1>5, LoopTypes DEF exportFrame, consoleVars, deskVars, pastVars
  <2>1. Consecutive' /\ \A c \in Device : Standing(c)'
    BY <1>c, <2>0 DEF Consecutive, Standing
  <2>2. ASSUME object' = object,
               \A v \in Worker : \A c \in Device :
                 Writes(v, c)' => \/ Writes(v, c) /\ hand'[v].image = hand[v].image
                                  \/ hand'[v].image = Build(c)
        PROVE  Requested'
    <3>1. \A c \in Device : Traced(agent[c], object[c], machine[c].nonce)'
      BY <1>c, <2>0, <2>2 DEF Traced, Asked
    <3>2. \A c \in Device : \A v \in Worker :
            Writes(v, c)' => Imaged(hand[v].image, agent[c], object[c], machine[c].nonce)'
      <4> SUFFICES ASSUME NEW c \in Device, NEW v \in Worker, Writes(v, c)'
                   PROVE  Imaged(hand[v].image, agent[c], object[c], machine[c].nonce)'
        OBVIOUS
      <4>1. PICK img : img = hand'[v].image
        OBVIOUS
      <4>2. Imaged(img, agent[c], object[c], machine[c].nonce)
        <5>1. CASE Writes(v, c) /\ hand'[v].image = hand[v].image
          BY <1>c, <4>1, <5>1
        <5>2. CASE hand'[v].image = Build(c)
          <6>1. Asked(img) /\ img.nonce \in {0, machine[c].nonce}
            BY <4>1, <5>2, BuildIsAsked
          <6>2. PICK my \in Agent, obj \in Document, now \in Nonce :
                   my = agent[c] /\ obj = object[c] /\ now = machine[c].nonce
            BY <1>a DEF TypeOK
          <6>3. Traced(my, obj, now) /\ now \in Nat
            BY <1>a, <1>c, <6>2
          <6>4. CASE img.nonce = 0
            BY <6>1, <6>2, <6>4 DEF Imaged, NotAfter
          <6>5. CASE img.nonce = now
            BY <6>1, <6>2, <6>3, <6>5 DEF Imaged, Traced, NotAfter
          <6> QED
            BY <6>1, <6>2, <6>4, <6>5
        <5> QED
          BY <2>2, <5>1, <5>2
      <4> QED
        BY <2>0, <2>2, <4>1, <4>2 DEF Imaged, Asked
    <3> QED
      BY <2>1, <3>1, <3>2, RequestedNow
  <2>3. CASE Claim(w)
    <3>1. PICK j \in due, n \in Hand :
             /\ hand' = [hand EXCEPT ![w] = n] /\ object' = object
             /\ n.pc = "write" => n.image = Build(j.about) /\ n.target = j.about
      BY <2>3, ClaimDoes
    <3>2. hand'[w] = n /\ \A v \in Worker \ {w} : hand'[v] = hand[v]
      BY <3>1, Gone
    <3> QED
      BY <2>2, <3>1, <3>2 DEF Writes
  <2>4. CASE Publish(w)
    <3>1. PICK n \in Hand : hand' = [hand EXCEPT ![w] = n] /\ object' = object /\ n.pc = "next"
      BY <2>4, PublishDoes
    <3>2. hand'[w] = n /\ \A v \in Worker \ {w} : hand'[v] = hand[v]
      BY <3>1, Gone
    <3> QED
      BY <2>2, <3>1, <3>2 DEF Writes
  <2>5. CASE NextBinding(w)
    <3>1. PICK d \in Device, n \in Hand :
             hand' = [hand EXCEPT ![w] = n] /\ object' = object /\ n.image = Build(d) /\ n.target = d
      BY <2>5, NextBindingDoes DEF storeVars
    <3>2. hand'[w] = n /\ \A v \in Worker \ {w} : hand'[v] = hand[v]
      BY <3>1, Gone
    <3> QED
      BY <2>2, <3>1, <3>2 DEF Writes
  <2>6. CASE WriteBinding(w)
    <3>1. PICK n \in Hand :
             /\ hand[w].pc = "write" /\ hand' = [hand EXCEPT ![w] = n] /\ n.pc = "next"
             /\ object' = IF writing THEN [object EXCEPT ![hand[w].target] = hand[w].image] ELSE object
      BY <2>6, WriteBindingDoes
    <3>2. hand'[w] = n /\ \A v \in Worker \ {w} : hand'[v] = hand[v]
      BY <3>1, Gone
    <3>3. hand[w].target \in Device \cap hand[w].locks /\ Writes(w, hand[w].target)
      BY <3>1 DEF Locked, Holding, Writes
    <3>4. CASE ~writing
      BY <2>2, <3>1, <3>2, <3>4 DEF Writes
    <3>5. CASE writing
      <4>1. PICK d \in Device, img \in Document : d = hand[w].target /\ img = hand[w].image
        BY <1>a, <3>3
      <4>2. object' = [object EXCEPT ![d] = img]
        BY <3>1, <3>5, <4>1
      <4>3. object'[d] = img /\ \A c \in Device \ {d} : object'[c] = object[c]
        BY <4>2 DEF TypeOK
      <4>4. Imaged(img, agent[d], object[d], machine[d].nonce)
        BY <1>c, <3>3, <4>1
      <4>5. \A c \in Device : Traced(agent[c], object[c], machine[c].nonce)'
        <5>1. Traced(agent[d], object[d], machine[d].nonce)'
          BY <1>c, <2>0, <4>3, <4>4 DEF Traced, Imaged, Asked
        <5>2. \A c \in Device \ {d} : Traced(agent[c], object[c], machine[c].nonce)'
          BY <1>c, <2>0, <4>3 DEF Traced, Asked
        <5> QED
          BY <5>1, <5>2
      <4>6. \A c \in Device : \A v \in Worker :
              Writes(v, c)' => Writes(v, c) /\ c # d /\ hand'[v].image = hand[v].image
        <5> SUFFICES ASSUME NEW c \in Device, NEW v \in Worker, Writes(v, c)'
                     PROVE  Writes(v, c) /\ c # d /\ hand'[v].image = hand[v].image
          OBVIOUS
        <5>1. v # w
          BY <3>1, <3>2 DEF Writes
        <5>2. Writes(v, c) /\ hand'[v].image = hand[v].image
          BY <3>2, <5>1 DEF Writes
        <5>3. c \in hand[v].locks
          BY <5>2 DEF Writes, Locked, Holding
        <5> QED
          BY <3>3, <4>1, <5>1, <5>2, <5>3 DEF Locked
      <4>7. \A c \in Device : \A v \in Worker :
              Writes(v, c)' => Imaged(hand[v].image, agent[c], object[c], machine[c].nonce)'
        BY <1>c, <2>0, <4>3, <4>6 DEF Imaged, Asked
      <4> QED
        BY <2>1, <4>5, <4>7, RequestedNow
    <3> QED
      BY <3>4, <3>5 DEF TypeOK
  <2>7. CASE Commit(w) \/ FailWrite(w)
    <3>1. hand' = [hand EXCEPT ![w] = Idle] /\ object' = object
      BY <2>7 DEF Commit, FailWrite, Go, storeVars
    <3>2. hand'[w] = Idle /\ \A v \in Worker \ {w} : hand'[v] = hand[v]
      BY <3>1, Gone
    <3>3. Idle.pc # "write"
      BY DEF Idle
    <3> QED
      BY <2>2, <3>1, <3>2, <3>3 DEF Writes
  <2>8. CASE Lapse(w)
    BY <1>1, <2>0, <2>8 DEF Lapse, storeVars
  <2>9. CASE RefuseExport(w)
    <3>1. hand'[w] = Idle /\ (\A v \in Worker \ {w} : hand'[v] = hand[v]) /\ object' = object
      BY <2>9, RefuseDoes
    <3>2. Idle.pc # "write"
      BY DEF Idle
    <3> QED
      BY <2>2, <3>1, <3>2 DEF Writes
  <2> QED
    BY <1>5, <2>3, <2>4, <2>5, <2>6, <2>7, <2>8, <2>9 DEF LoopAction, Work
<1>6. CASE CrashConsole
  <2>1. UNCHANGED <<machine, agent, asker, object>> /\ hand' = [w \in Worker |-> Idle]
    BY <1>6 DEF CrashConsole, storeVars, exportFrame, consoleVars, deskVars, pastVars
  <2>2. \A w \in Worker, d \in Device : ~Writes(w, d)'
    BY <2>1 DEF Writes, Idle
  <2>3. Consecutive' /\ \A c \in Device : Standing(c)' /\ Traced(agent[c], object[c], machine[c].nonce)'
    BY <1>c, <2>1 DEF Consecutive, Standing, Traced, Asked
  <2> QED
    BY <2>2, <2>3, RequestedNow
<1>7. ASSUME NEW d \in Device, DeskAction(d) PROVE Requested'
  <2>0. UNCHANGED <<machine, object, hand, asker>>
    BY <1>7, DeskTypes DEF deskFrame, consoleVars, storeVars
  <2>1. CASE \E u \in User : SignIn(d, u) \/ StartCodex(d, u)
    BY <1>1, <2>0, <2>1 DEF SignIn, StartCodex
  <2>2. CASE \/ Cycle(d) \/ BeginCycleBlind(d) \/ NoAnswer(d) \/ WithdrawFails(d) \/ DeployFails(d) \/ RevokeFails(d)
             \/ StopCodexFails(d) \/ RestartAgent(d) \/ EnrolLate(d)
    <3>1. PICK n : Turn(d, n) /\ NextOf(d, n)
      BY <2>2, DeskTurn
    <3>2. agent'[d] = n /\ \A c \in Device \ {d} : agent'[c] = agent[c]
      BY <3>1, Turned
    <3>3. n.bind \in Document /\ n.noted \in Nonce
      BY <3>1 DEF NextOf, Agent
    <3>4. \/ n.bind \in {agent[d].bind, Absent}
          \/ agent[d].channel = "oss" /\ n.bind = object[d]
          \/ n.bind = Build(d) /\ agent[d].channel = "api"
      BY <3>1 DEF NextOf
    <3>5. /\ n.noted = agent[d].noted \/ (n.noted = agent[d].bind.nonce /\ n.bind = agent[d].bind)
          /\ n.pc = "nudge" => n.bind.nonce # 0 /\ n.noted # n.bind.nonce
          /\ agent[d].channel \in {"oss", "api"} /\ n.channel \in {agent[d].channel, "api"}
      BY <3>1 DEF NextOf, TypeOK, Agent
    <3>6. PICK x \in Document, my \in Agent, obj \in Document, now \in Nonce :
             x = n.bind /\ my = agent[d] /\ obj = object[d] /\ now = machine[d].nonce
      BY <1>a, <3>3 DEF TypeOK
    <3>7. /\ Asked(x)
          /\ \/ x.nonce \in {0, my.bind.nonce}
             \/ my.channel = "oss" /\ x.nonce = obj.nonce
             \/ my.channel = "api" /\ x.nonce = now
      BY <1>c, <3>4, <3>6, BuildIsAsked DEF Traced, Absent, Asked
    <3>8. Traced(my, obj, now)
      BY <1>c, <3>6
    <3>9. x.nonce \in Nat /\ my.bind.nonce \in Nat /\ obj.nonce \in Nat /\ now \in Nat /\ my.noted \in Nat
      BY <1>a, <1>b, <3>6
    <3>10. /\ n.noted # 0 => asker[n.noted] # Nobody
           /\ NotAfter(n.noted, x.nonce) /\ NotAfter(n.noted, now) /\ NotAfter(x.nonce, now)
           /\ n.channel = "oss" => NotAfter(n.noted, obj.nonce) /\ NotAfter(x.nonce, obj.nonce)
      <4>1. CASE n.noted = my.noted
        BY <3>5, <3>6, <3>7, <3>8, <3>9, <4>1 DEF Traced, NotAfter
      <4>2. CASE n.noted = my.bind.nonce /\ x = my.bind
        BY <3>5, <3>6, <3>7, <3>8, <3>9, <4>2 DEF Traced, NotAfter, Asked
      <4> QED
        BY <3>5, <3>6, <4>1, <4>2
    <3>11. Traced(n, obj, now)
      BY <3>5, <3>6, <3>7, <3>8, <3>10 DEF Traced
    <3>12. \A c \in Device : Traced(agent[c], object[c], machine[c].nonce)'
      <4>1. Traced(agent[d], object[d], machine[d].nonce)'
        BY <2>0, <3>2, <3>6, <3>11 DEF Traced, Asked
      <4>2. \A c \in Device \ {d} : Traced(agent[c], object[c], machine[c].nonce)'
        BY <1>c, <2>0, <3>2 DEF Traced, Asked
      <4> QED
        BY <4>1, <4>2
    <3>13. \A c \in Device : \A w \in Worker :
             Writes(w, c)' => Imaged(hand[w].image, agent[c], object[c], machine[c].nonce)'
      <4>1. ASSUME NEW w \in Worker, Writes(w, d)
            PROVE  Imaged(hand[w].image, agent[d], object[d], machine[d].nonce)'
        <5>1. PICK img \in Document : img = hand[w].image
          BY <1>a
        <5>2. Imaged(img, my, obj, now) /\ img.nonce \in Nat
          BY <1>a, <1>b, <1>c, <3>6, <4>1, <5>1
        <5>3. n.channel = "oss" => NotAfter(n.noted, img.nonce) /\ NotAfter(x.nonce, img.nonce)
          <6>1. CASE n.noted = my.noted
            BY <3>5, <3>6, <3>7, <3>9, <5>2, <6>1 DEF Imaged, NotAfter
          <6>2. CASE n.noted = my.bind.nonce /\ x = my.bind
            BY <3>5, <3>6, <5>2, <6>2 DEF Imaged
          <6> QED
            BY <3>5, <3>6, <6>1, <6>2
        <5>4. Imaged(img, n, obj, now)
          BY <3>6, <5>2, <5>3 DEF Imaged
        <5> QED
          BY <2>0, <3>2, <3>6, <5>1, <5>4 DEF Imaged, Asked
      <4>2. \A c \in Device \ {d} : \A w \in Worker :
              Writes(w, c) => Imaged(hand[w].image, agent[c], object[c], machine[c].nonce)'
        BY <1>c, <2>0, <3>2 DEF Imaged, Asked
      <4>3. \A c \in Device, w \in Worker : Writes(w, c)' <=> Writes(w, c)
        BY <2>0 DEF Writes
      <4> QED
        BY <4>1, <4>2, <4>3
    <3>14. Consecutive' /\ \A c \in Device : Standing(c)'
      BY <1>c, <2>0 DEF Consecutive, Standing
    <3> QED
      BY <3>12, <3>13, <3>14, RequestedNow
  <2> QED
    BY <1>7, <2>1, <2>2 DEF DeskAction
<1>8. CASE UNCHANGED vars
  BY <1>1, <1>8 DEF vars, consoleVars, storeVars, deskVars, pastVars
<1>9. CASE Next
  BY <1>2, <1>3, <1>4, <1>5, <1>6, <1>7, <1>9, Steps
<1> QED
  BY <1>8, <1>9

\* At the start nobody has asked for anything.
LEMMA RequestedStart == Init => Requested
<1> SUFFICES ASSUME Init PROVE Requested
  OBVIOUS
<1>1. \A d \in Device : machine[d].nonce = 0 /\ object[d].nonce = 0
  BY DEF Init, Absent
<1>2. \A d \in Device : /\ agent[d].noted = 0 /\ agent[d].bind = Absent /\ agent[d].pc = "rest"
  BY DEF Init, NewAgent
<1>3. \A w \in Worker : hand[w].pc = "idle"
  BY DEF Init, Idle
<1>4. Consecutive
  BY DEF Init, Consecutive
<1> QED
  BY <1>1, <1>2, <1>3, <1>4 DEF Requested, Consecutive, Asked, NotAfter, Writes, Absent

\* A restart request ends only the Codex of the person it was made for, and only a
\* request that was not carried out before.
THEOREM RestartsReachTheirOwner == Spec => RestartReachesItsOwner
<1>1. Init => ExportInv /\ Requested
  BY ExportStart, RequestedStart
<1>2. ExportInv /\ Requested /\ [Next]_vars => (ExportInv /\ Requested)'
  BY ExportStep, RequestedStep
<1>3. ExportInv /\ Requested =>
        \A d \in Device : agent[d].pc = "nudge" =>
          /\ UserOf[asker[agent[d].bind.nonce]] = agent[d].bind.user
          /\ agent[d].noted < agent[d].bind.nonce
  <2> SUFFICES ASSUME ExportInv, Requested, NEW d \in Device, agent[d].pc = "nudge"
               PROVE  /\ UserOf[asker[agent[d].bind.nonce]] = agent[d].bind.user
                      /\ agent[d].noted < agent[d].bind.nonce
    OBVIOUS
  <2>1. agent[d].noted \in Nat /\ agent[d].bind.nonce \in Nat
    BY Constants DEF ExportInv, TypeOK, Agent, Document
  <2> QED
    BY <2>1 DEF Requested, Asked, NotAfter
<1>4. ExportInv /\ Requested =>
        [\A d \in Device :
           agent[d].pc = "nudge" /\ agent'[d].pc = "noted" =>
             /\ UserOf[asker[agent[d].bind.nonce]] = agent[d].bind.user
             /\ agent[d].noted < agent[d].bind.nonce]_vars
  BY <1>3
<1> QED
  BY <1>1, <1>2, <1>4, PTL DEF Spec, RestartReachesItsOwner

-----------------------------------------------------------------------------
(* A console at rest and the cycle of an agent. *)

\* What is at rest stays so while loops work: they put back only what they had.
LEMMA RestIsKept ==
  ASSUME TypeOK, Locked, Accounted, NEW x \in Device \cup Employee, AtRest(x),
         (\E w \in Worker : LoopAction(w)) \/ CrashConsole
  PROVE  AtRest(x)'
<1>0. x # Nobody /\ Idle.job.about # x
  BY DeliveryAssumption DEF Assumptions, Idle, NoJob
<1>1. ASSUME \A i \in due' : i \in due \/ \E v \in Worker : i = hand[v].job,
             \A v \in Worker : \/ hand'[v].job = hand[v].job \/ hand'[v] = Idle
                               \/ hand'[v].job \in due,
             \A y \in failed' : y \in failed \/ \E v \in Worker : y = hand[v].job.about
      PROVE  AtRest(x)'
  BY <1>0, <1>1 DEF AtRest, Queued, Writing
<1>2. ASSUME NEW w \in Worker, Claim(w) PROVE AtRest(x)'
  <2>1. PICK j \in due, n \in Hand : /\ due' = due \ {j} /\ hand' = [hand EXCEPT ![w] = n] /\ n.job = j
                                   /\ failed' \subseteq failed
    BY <1>2, ClaimDoes
  <2>2. hand'[w] = n /\ \A v \in Worker \ {w} : hand'[v] = hand[v]
    BY <2>1, Gone
  <2> QED
    BY <1>1, <2>1, <2>2
<1>3. ASSUME NEW w \in Worker, Publish(w) \/ NextBinding(w) \/ WriteBinding(w) PROVE AtRest(x)'
  <2>1. PICK n \in Hand : hand' = [hand EXCEPT ![w] = n] /\ n.job = hand[w].job /\ UNCHANGED <<due, failed>>
    BY <1>3, PublishDoes, NextBindingDoes, WriteBindingDoes DEF storeVars
  <2>2. hand'[w] = n /\ \A v \in Worker \ {w} : hand'[v] = hand[v]
    BY <2>1, Gone
  <2> QED
    BY <1>1, <2>1, <2>2
<1>4. ASSUME NEW w \in Worker, Commit(w) PROVE AtRest(x)'
  <2>1. hand' = [hand EXCEPT ![w] = Idle] /\ UNCHANGED <<due, failed>>
    BY <1>4 DEF Commit, Go
  <2>2. hand'[w] = Idle /\ \A v \in Worker \ {w} : hand'[v] = hand[v]
    BY <2>1, Gone
  <2> QED
    BY <1>1, <2>1, <2>2
<1>5. ASSUME (\E w \in Worker : Lapse(w) \/ FailWrite(w)) \/ CrashConsole PROVE AtRest(x)'
  <2>1. /\ \A i \in due' \ due : \E w \in Worker : i = hand[w].job
        /\ \A w \in Worker : hand'[w] = hand[w] \/ hand'[w] = Idle
    BY <1>5, Returned
  <2>2. failed' = failed
    BY <1>5 DEF Lapse, FailWrite, CrashConsole, storeVars
  <2> QED
    BY <1>1, <2>1, <2>2
<1>6. ASSUME NEW w \in Worker, RefuseExport(w) PROVE AtRest(x)'
  <2>1. /\ hand'[w] = Idle /\ \A v \in Worker \ {w} : hand'[v] = hand[v]
        /\ due' = due /\ failed' = failed \cup {hand[w].job.about}
    BY <1>6, RefuseDoes
  <2> QED
    BY <1>1, <2>1
<1> QED
  BY <1>2, <1>3, <1>4, <1>5, <1>6 DEF LoopAction, Work

\* A cycle that has begun never goes back to where the credentials are asked for.
LEMMA UnderWay ==
  ASSUME TypeOK, Bound, NEW d \in Device, DeskAction(d), ~BeginCycle(d), ~BeginCycleBlind(d)
  PROVE  /\ quiet' = quiet
         /\ \/ agent' = agent
            \/ \E n : Turn(d, n) /\ n.pc \notin {"ask", "revoke"}
<1>1. CASE Withdraw(d) \/ WithdrawFails(d)
  BY <1>1, WithdrawDoes, WithdrawFailsDoes DEF Done
<1>2. CASE Unchanged(d) \/ NoAnswer(d)
  BY <1>2, PassDoes DEF Done
<1>3. CASE Deploy(d) \/ DeployFails(d)
  BY <1>3, DeployDoes, DeployFailsDoes DEF Done
<1>4. CASE WriteMark(d)
  BY <1>4, WriteMarkDoes DEF Done
<1>5. CASE RevokeAll(d) \/ RevokeFails(d)
  BY <1>5, RevokeAllDoes
<1>6. CASE StopCodex(d)
  BY <1>6, StopCodexDoes DEF Done
<1>7. CASE StopCodexFails(d)
  BY <1>7, StopCodexFailsDoes DEF Done
<1>8. CASE CarryOutRestart(d)
  BY <1>8, CarryOutRestartDoes
<1>9. CASE NoteRestart(d)
  BY <1>9, NoteRestartDoes
<1>10. CASE RestartAgent(d)
  BY <1>10, RestartAgentDoes
<1>11. CASE EnrolLate(d)
  BY <1>11, EnrolLateDoes
<1>12. CASE \E u \in User : SignIn(d, u) \/ StartCodex(d, u)
  BY <1>12 DEF SignIn, StartCodex
<1> QED
  BY <1>1, <1>2, <1>3, <1>4, <1>5, <1>6, <1>7, <1>8, <1>9, <1>10, <1>11, <1>12 DEF DeskAction, Cycle

\* What the invariant says of a machine whose console side is at rest.
Calm(d) ==
  /\ AtRest(d) /\ (machine[d].holder # Nobody => AtRest(machine[d].holder))
  /\ agent[d].pc \in {"ask", "revoke"} =>
       agent[d].bind = Build(d) /\ (agent[d].channel = "oss" => toggles = 0)

\* One machine's step leaves the calm of the others.
LEMMA CalmOf ==
  ASSUME NEW c \in Device, Calm(c), UNCHANGED deskFrame,
         agent'[c] = agent[c] \/ agent'[c].pc \notin {"ask", "revoke"}
  PROVE  Calm(c)'
<1>1. UNCHANGED <<due, failed, hand, machine, toggles>>
  BY DEF deskFrame, consoleVars, storeVars
<1>2. AtRest(c)' /\ (machine'[c].holder # Nobody => AtRest(machine[c].holder)')
  BY <1>1 DEF Calm, AtRest, Queued, Writing
<1>3. Build(c)' = Build(c)
  BY <1>1 DEF Build
<1> QED
  BY <1>1, <1>2, <1>3 DEF Calm

\* While the console side of a machine is at rest, its agent acts on what the console says.
LEMMA UndisturbedStep ==
  ASSUME ExportInv, Undisturbed, [Next]_vars
  PROVE  Undisturbed'
<1> USE DEF ExportInv
<1>a. quiet \subseteq Device /\ \A d \in Device : machine[d].holder \in Employee \cup {Nobody}
  BY DEF TypeOK, Machine
<1>b. \A d \in quiet : Calm(d)
  BY DEF Undisturbed, Calm
<1>c. ASSUME \A d \in quiet' : Calm(d)' PROVE Undisturbed'
  BY <1>c DEF Undisturbed, Calm
<1>1. CASE quiet' = {}
  BY <1>1 DEF Undisturbed
<1>2. CASE (\E w \in Worker : LoopAction(w)) \/ CrashConsole
  <2>1. UNCHANGED <<machine, agent, toggles, quiet>>
    BY <1>2, LoopTypes DEF exportFrame, consoleVars, deskVars, pastVars
  <2>2. ASSUME NEW d \in quiet PROVE Calm(d)'
    <3>1. Build(d)' = Build(d)
      BY <2>1 DEF Build
    <3>2. AtRest(d)'
      BY <1>2, <1>a, <1>b, RestIsKept DEF Calm
    <3>3. ASSUME machine[d].holder # Nobody PROVE AtRest(machine[d].holder)'
      <4>1. PICK h \in Employee : h = machine[d].holder
        BY <1>a, <3>3
      <4>2. AtRest(h)
        BY <1>b, <3>3, <4>1 DEF Calm
      <4>3. AtRest(h)'
        BY <1>2, <4>2, RestIsKept
      <4> QED
        BY <2>1, <4>1, <4>3
    <3> QED
      BY <1>b, <2>1, <3>1, <3>2, <3>3 DEF Calm
  <2> QED
    BY <1>c, <2>1, <2>2
<1>3. ASSUME NEW d \in Device, DeskAction(d) PROVE Undisturbed'
  <2>0. UNCHANGED deskFrame
    BY <1>3, DeskTypes
  <2>1. ASSUME NEW n, Turn(d, n), quiet' \subseteq quiet \cup {d},
               d \in quiet' => Calm(d)'
        PROVE  Undisturbed'
    <3>1. \A c \in Device \ {d} : agent'[c] = agent[c]
      BY <2>1, Turned
    <3>2. ASSUME NEW c \in quiet', c # d PROVE Calm(c)'
      BY <1>a, <1>b, <2>0, <2>1, <3>1, <3>2, CalmOf
    <3> QED
      BY <1>c, <2>1, <3>2
  <2>2. CASE ~BeginCycle(d) /\ ~BeginCycleBlind(d)
    <3>1. CASE agent' = agent
      BY <1>a, <1>b, <1>c, <1>3, <2>0, <2>2, <3>1, UnderWay, CalmOf
    <3>2. ASSUME NEW n, Turn(d, n), n.pc \notin {"ask", "revoke"} PROVE Undisturbed'
      <4>1. quiet' = quiet /\ agent'[d].pc \notin {"ask", "revoke"}
        BY <1>3, <2>2, <3>2, UnderWay, Turned
      <4>2. d \in quiet' => Calm(d)'
        BY <1>b, <2>0, <4>1, CalmOf
      <4> QED
        BY <2>1, <3>2, <4>1, <4>2
    <3> QED
      BY <1>3, <2>2, <3>1, <3>2, UnderWay
  <2>3. CASE BeginCycleBlind(d)
    <3>1. PICK n : Turn(d, n)
      BY <2>3, BeginDoes
    <3>2. quiet' = quiet \ {d}
      BY <2>3 DEF BeginCycleBlind
    <3> QED
      BY <2>1, <3>1, <3>2
  <2>4. CASE BeginCycle(d)
    <3>1. PICK n : Turn(d, n) /\ n.channel = agent[d].channel
                   /\ n.bind = IF agent[d].channel = "oss" THEN object[d] ELSE Build(d)
      BY <2>4, BeginDoes
    <3>2. quiet' = IF \/ Unsettled(d) \/ Unsettled(machine[d].holder)
                      \/ {d, machine[d].holder} \cap failed # {}
                      \/ agent[d].channel = "oss" /\ toggles # 0
                   THEN quiet \ {d} ELSE quiet \cup {d}
      BY <2>4 DEF BeginCycle
    <3>3. ASSUME d \in quiet' PROVE Calm(d)'
      <4>1. /\ ~Unsettled(d) /\ ~Unsettled(machine[d].holder) /\ d \notin failed /\ machine[d].holder \notin failed
            /\ (agent[d].channel = "oss" => toggles = 0)
        BY <3>2, <3>3
      <4>2. d # Nobody
        BY DeliveryAssumption DEF Assumptions
      <4>3. AtRest(d) /\ (machine[d].holder # Nobody => AtRest(machine[d].holder))
        BY <4>1, <4>2 DEF Unsettled, AtRest, Writing
      <4>4. agent[d].channel = "oss" => object[d] = Build(d)
        BY <4>1, <4>3 DEF Exported, Written, AtRest, Writing
      <4>5. UNCHANGED <<due, failed, hand, machine, toggles>>
        BY <2>0 DEF deskFrame, consoleVars, storeVars
      <4>6. Build(d)' = Build(d)
        BY <4>5 DEF Build
      <4>7. AtRest(d)' /\ (machine'[d].holder # Nobody => AtRest(machine[d].holder)')
        BY <4>3, <4>5 DEF AtRest, Queued, Writing
      <4>8. agent'[d] = n
        BY <3>1, Turned
      <4>9. n.bind = Build(d)
        BY <3>1, <4>4
      <4> QED
        BY <3>1, <4>1, <4>5, <4>6, <4>7, <4>8, <4>9 DEF Calm
    <3> QED
      BY <2>1, <3>1, <3>2, <3>3
  <2> QED
    BY <2>2, <2>3, <2>4
<1>4. CASE \/ \E e \in Employee : AccountStep(e)
           \/ \E d \in Device : MachineStep(d)
           \/ SwitchChannel
  BY <1>1, <1>4 DEF AccountStep, MachineStep, SwitchChannel, Decision
<1>5. CASE UNCHANGED vars
  <2>1. UNCHANGED <<deskFrame, agent, quiet>>
    BY <1>5 DEF vars, deskFrame, consoleVars, storeVars, countVars, pastVars, deskVars
  <2> QED
    BY <1>a, <1>b, <1>c, <2>1, CalmOf
<1>6. CASE Next
  BY <1>2, <1>3, <1>4, <1>6, Steps
<1> QED
  BY <1>5, <1>6

\* A cycle that began, and still is, beside a console at rest takes a user's files away
\* for a reason only.
LEMMA TakenForAReason ==
  ASSUME ExportInv, Undisturbed, [Next]_vars, NEW d \in quiet, NEW u \in User,
         profile[d][u] # Nothing, profile'[d][u] = Nothing
  PROVE  LET h == machine[d].holder IN
         Build(d).user # u \/ Deliverable(h) = Nothing \/ (agent[d].channel = "oss" /\ ~OwnName(h))
<1> USE DEF ExportInv
<1> DEFINE h == machine[d].holder
<1>a. d \in Device /\ h \in Employee \cup {Nobody} /\ NoUser \notin User /\ Nobody \notin Employee
  BY DeliveryAssumption DEF TypeOK, Machine, Assumptions
<1>b. Calm(d)
  BY DEF Undisturbed, Calm
<1>1. profile' # profile
  OBVIOUS
<1>2. \E c \in Device : DeskAction(c)
  <2>1. Next
    BY <1>1 DEF vars, deskVars
  <2>2. ASSUME NEW w \in Worker, LoopAction(w) PROVE FALSE
    BY <1>1, <2>2, LoopTypes DEF exportFrame, deskVars
  <2>3. ~CrashConsole
    BY <1>1 DEF CrashConsole, exportFrame, deskVars
  <2>4. /\ ~\E e \in Employee : AccountStep(e)
        /\ ~\E c \in Device : MachineStep(c)
        /\ ~SwitchChannel
    BY <1>1 DEF AccountStep, MachineStep, SwitchChannel, deskVars
  <2> QED
    BY <2>1, <2>2, <2>3, <2>4, Steps
<1>3. PICK c \in Device : DeskAction(c)
  BY <1>2
<1>4. Withdraw(c) \/ RevokeAll(c) \/ Deploy(c) \/ WithdrawFails(c) \/ RevokeFails(c) \/ DeployFails(c)
  <2>1. CASE \E v \in User : SignIn(c, v) \/ StartCodex(c, v)
    BY <1>1, <2>1 DEF SignIn, StartCodex
  <2>2. CASE BeginCycle(c) \/ Unchanged(c) \/ WriteMark(c) \/ StopCodex(c) \/ CarryOutRestart(c) \/ NoteRestart(c)
    BY <1>1, <2>2 DEF BeginCycle, Unchanged, WriteMark, StopCodex, CarryOutRestart, NoteRestart
  <2>3. CASE BeginCycleBlind(c) \/ NoAnswer(c) \/ StopCodexFails(c) \/ RestartAgent(c) \/ EnrolLate(c)
    BY <1>1, <2>3 DEF BeginCycleBlind, NoAnswer, StopCodexFails, RestartAgent, EnrolLate
  <2> QED
    BY <1>3, <2>1, <2>2, <2>3 DEF DeskAction, Cycle
<1>5. CASE Deploy(c) \/ DeployFails(c)
  <2>1. Replaced(profile, profile', c, {agent[c].bind.user}, Answer(c).content) /\ Answer(c).content # Nothing
    BY <1>5, DeployDoes, DeployFailsDoes
  <2> QED
    BY <1>a, <2>1 DEF Replaced
<1>6. CASE RevokeAll(c) \/ RevokeFails(c)
  <2>1. PICK kept : Replaced(profile, profile', c, local[c] \ kept, Nothing) /\ agent[c].pc = "revoke"
    BY <1>6, RevokeAllDoes
  <2>2. c = d
    BY <1>a, <2>1 DEF Replaced
  <2>3. agent[d].bind.user = NoUser /\ agent[d].bind = Build(d)
    BY <1>a, <1>b, <2>1, <2>2 DEF Bound, Calm
  <2> QED
    BY <1>a, <2>3
<1>7. CASE Withdraw(c) \/ WithdrawFails(c)
  <2>1. /\ Replaced(profile, profile', c, {agent[c].bind.user}, Nothing)
        /\ agent[c].pc = "ask" /\ agent[c].bind.user \in User /\ Answer(c) = NoMark
    BY <1>7, WithdrawDoes, WithdrawFailsDoes
  <2>2. c = d /\ agent[d].bind.user = u
    BY <1>a, <2>1 DEF Replaced
  <2>3. agent[d].bind = Build(d) /\ (agent[d].channel = "oss" => toggles = 0)
    BY <1>b, <2>1, <2>2 DEF Calm
  <2>4. Build(d) # Absent
    BY <1>a, <2>2, <2>3 DEF Absent
  <2>5. h # Nobody /\ Build(d) = [user |-> UserOf[h], nonce |-> machine[d].nonce]
    BY <2>4 DEF Build
  <2>6. h \in Employee /\ u = UserOf[h] /\ Known(h) /\ AtRest(h)
    BY <1>a, <1>b, <2>2, <2>3, <2>5 DEF Accounted, Calm
  <2>7. CASE agent[d].channel = "oss"
    <3>1. archive[u] = Nothing
      BY <1>a, <2>1, <2>2, <2>7, Answers
    <3>2. OwnName(h) => archive[u] = Deliverable(h)
      BY <2>3, <2>6, <2>7 DEF Exported, Written, AtRest, Writing
    <3> QED
      BY <2>7, <3>1, <3>2
  <2>8. CASE agent[d].channel # "oss"
    <3>1. Served(d) = NoMark
      BY <1>a, <2>1, <2>2, <2>8 DEF Answer, TypeOK, Agent
    <3>2. bundle[h] = [epoch |-> account[h].epoch, token |-> Deliverable(h).token]
      BY <2>6 DEF Exported, Stored, AtRest
    <3>3. bundle[h].epoch = account[h].epoch /\ bundle[h].token = Deliverable(h).token
      BY <3>2
    <3>4. bundle[h].token = 0
      BY <2>5, <3>1, <3>3 DEF Served, NoMark
    <3>5. CASE Open(h) /\ account[h].token # 0
      <4>1. Deliverable(h).token = account[h].token
        BY <3>5 DEF Deliverable
      <4> QED
        BY <3>3, <3>4, <3>5, <4>1
    <3>6. CASE ~(Open(h) /\ account[h].token # 0)
      BY <3>6 DEF Deliverable
    <3> QED
      BY <3>5, <3>6
  <2> QED
    BY <2>7, <2>8
<1> QED
  BY <1>4, <1>5, <1>6, <1>7

\* While the console side of a machine is at rest throughout a cycle, that cycle takes
\* away the files of a user only if the console says so.
THEOREM FilesGoForAReason == Spec => RemovedForAReason
<1>1. Init => ExportInv /\ Undisturbed
  BY ExportStart DEF Init, Undisturbed
<1>2. ExportInv /\ Undisturbed /\ [Next]_vars => (ExportInv /\ Undisturbed)'
  BY ExportStep, UndisturbedStep
<1>3. ExportInv /\ Undisturbed /\ [Next]_vars =>
        [\A d \in quiet : \A u \in User :
           profile[d][u] # Nothing /\ profile'[d][u] = Nothing =>
             LET h == machine[d].holder IN
             Build(d).user # u \/ Deliverable(h) = Nothing \/ (agent[d].channel = "oss" /\ ~OwnName(h))]_vars
  BY TakenForAReason
<1> QED
  BY <1>1, <1>2, <1>3, PTL DEF Spec, RemovedForAReason

=============================================================================
