---------------------------- MODULE DutiesProofs ----------------------------
(***************************************************************************)
(* What TLAPS proves of the stories of MCDuties, for every value of its    *)
(* constants.  A step of the composite is a step of one story and leaves   *)
(* the others alone; each story has an inductive invariant in its module.  *)
(***************************************************************************)
EXTENDS MCDuties, Sequences, FiniteSetTheorems, TLAPS

\* A step of the composite, as the stories of the model list and of the alerts see it.
LEMMA StepOfADuty ==
  ASSUME [Next]_vars
  PROVE  /\ C!Next \/ UNCHANGED catalogVars
         /\ A!Next \/ UNCHANGED alertVars
<1>1. CASE Next
  <2>1. Evaluations \/ Notices => A!Next
    BY DEF Evaluations, Notices, A!Next
  <2> QED
    BY <1>1, <2>1 DEF Next, Catalogs
<1>2. CASE UNCHANGED vars
  BY <1>2 DEF vars, alertVars, catalogVars
<1> QED
  BY <1>1, <1>2

-----------------------------------------------------------------------------
(* The delivery of the model list. *)

\* No machine has said anything yet.
LEMMA CatalogStart == Init => C!CatalogInv
<1> SUFFICES ASSUME Init PROVE C!CatalogInv
  OBVIOUS
<1>1. /\ fetcher = [d \in Direct |-> [status |-> C!NoStatus, due |-> FALSE]]
      /\ report = [d \in Direct |-> [status |-> C!NoStatus, after |-> {}]]
      /\ had = [d \in Direct |-> {}]
  BY DEF Init, C!Init
<1>2. ~C!NoStatus.applied
  BY DEF C!NoStatus
<1> QED
  BY <1>1, <1>2 DEF C!CatalogInv, C!HadIt

\* Only a machine's own cycle and report touch what it says and had.
LEMMA CatalogStep ==
  ASSUME C!CatalogInv, C!Next \/ UNCHANGED catalogVars
  PROVE  C!CatalogInv'
<1> USE DEF C!world, C!console, C!machines, C!CatalogInv
<1>1. CASE UNCHANGED <<fetcher, report, had>>
  BY <1>1 DEF C!HadIt
<1>2. CASE \/ C!GatewayChanges \/ C!OpenPage \/ C!ReadGateway \/ C!actionModelsDeliver \/ C!actionChannelPause
           \/ \E e \in Employee : C!Leaves(e) \/ C!RetryCatalogDelivery(e)
           \/ \E d \in Direct : \E e \in Employee \cup {Nobody} : C!Rebinds(d, e)
           \/ \E i \in DOMAIN task : C!RunExport(i) \/ C!ExportFails(i)
           \/ UNCHANGED catalogVars
  <2>1. UNCHANGED <<fetcher, report, had>>
    BY <1>2 DEF C!GatewayChanges, C!OpenPage, C!ReadGateway, C!actionModelsDeliver, C!actionChannelPause, C!SetChannelPaused,
       C!Leaves, C!RetryCatalogDelivery, C!Rebinds, C!RunExport, C!ExportFails, catalogVars
  <2> QED
    BY <1>1, <2>1
<1>3. ASSUME NEW d \in Direct, C!Fetch(d) PROVE C!CatalogInv'
  <2>1. PICK given : given = IF holder[d] = Nobody THEN C!None ELSE wrapped[holder[d]]
    OBVIOUS
  <2>2. \/ /\ fetcher' = [fetcher EXCEPT ![d] = [due |-> TRUE,
                status |-> [user |-> holder[d], etag |-> given, applied |-> given # C!None, error |-> FALSE]]]
           /\ had' = [had EXCEPT ![d] = @ \cup ({given} \ {C!None})]
        \/ /\ fetcher' = [fetcher EXCEPT ![d] = [due |-> TRUE,
                status |-> [user |-> holder[d], etag |-> C!None, applied |-> FALSE, error |-> TRUE]]]
           /\ UNCHANGED had
    BY <1>3, <2>1 DEF C!Fetch
  <2>3. report' = report
    BY <1>3 DEF C!Fetch
  <2>4. \A c \in Direct : had[c] \subseteq had'[c]
    BY <2>2
  <2>5. \A c \in Direct \ {d} : fetcher'[c] = fetcher[c]
    BY <2>2
  <2>6. fetcher'[d].status.applied /\ ~fetcher'[d].status.error => fetcher'[d].status.etag \in had'[d]
    <3>1. CASE /\ fetcher'[d].status = [user |-> holder[d], etag |-> given, applied |-> given # C!None, error |-> FALSE]
               /\ had'[d] = had[d] \cup ({given} \ {C!None})
      <4>1. fetcher'[d].status.etag = given /\ fetcher'[d].status.applied = (given # C!None)
        BY <3>1
      <4> QED
        BY <3>1, <4>1
    <3>2. CASE fetcher'[d].status = [user |-> holder[d], etag |-> C!None, applied |-> FALSE, error |-> TRUE]
      BY <3>2
    <3>3. CASE /\ fetcher' = [fetcher EXCEPT ![d] = [due |-> TRUE, status |->
                    [user |-> holder[d], etag |-> given, applied |-> given # C!None, error |-> FALSE]]]
               /\ had' = [had EXCEPT ![d] = @ \cup ({given} \ {C!None})]
      BY <3>1, <3>3
    <3>4. CASE fetcher' = [fetcher EXCEPT ![d] = [due |-> TRUE,
                 status |-> [user |-> holder[d], etag |-> C!None, applied |-> FALSE, error |-> TRUE]]]
      BY <3>2, <3>4
    <3> QED
      BY <2>2, <3>3, <3>4
  <2>7. DOMAIN fetcher' = Direct /\ DOMAIN report' = Direct /\ DOMAIN had' = Direct
    BY <2>2, <2>3
  <2> QED
    BY <2>3, <2>4, <2>5, <2>6, <2>7 DEF C!HadIt
<1>4. ASSUME NEW d \in Direct, C!Report(d) PROVE C!CatalogInv'
  <2>1. /\ had' = had
        /\ report' = [report EXCEPT ![d] = [status |-> fetcher[d].status, after |-> C!Ended]]
        /\ fetcher' = [fetcher EXCEPT ![d] = [due |-> FALSE, status |-> @.status]]
    BY <1>4 DEF C!Report
  <2>2. \A c \in Direct : fetcher'[c].status = fetcher[c].status
                            /\ report'[c].status \in {report[c].status, fetcher[c].status}
    BY <2>1
  <2> QED
    BY <2>1, <2>2 DEF C!HadIt
<1> QED
  BY <1>2, <1>3, <1>4 DEF C!Next

\* A machine on the API channel that the page shows as having the new list once had on
\* its disk what is delivered now (adminweb/models.go): the page compares the etag of a
\* report, and a report carries only what was put on the disk.
THEOREM ShownMachinesHadIt == Spec => []ReceivedOnTheApi
<1>1. C!CatalogInv /\ [Next]_vars => C!CatalogInv'
  BY StepOfADuty, CatalogStep
<1>2. C!CatalogInv => ReceivedOnTheApi
  <2> SUFFICES ASSUME C!CatalogInv, NEW r \in C!Received, r[2] \in Direct
               PROVE  wrapped[r[1]] \in had[r[2]]
    BY DEF ReceivedOnTheApi, C!ReceivedOnTheApi
  <2>1. C!arrival(r[2], r[1], setting.last.tasks[r[1]])
    BY DEF C!Received
  <2> QED
    BY <2>1 DEF C!arrival, C!CatalogInv, C!HadIt
<1> QED
  BY CatalogStart, <1>1, <1>2, PTL DEF Spec

-----------------------------------------------------------------------------
(* The evaluation of alerts and their delivery. *)

\* The six kinds are told apart by their place.
LEMMA SixKinds ==
  /\ DOMAIN A!Kinds = 1..6 /\ Len(A!Kinds) = 6
  /\ \A j, k \in DOMAIN A!Kinds : A!Kinds[j] = A!Kinds[k] => j = k
BY DEF A!Kinds

\* What the rules find can be told apart from other alerts.
LEMMA StandingIsNamed == \A w : A!Standing(w) \subseteq A!Fingerprints
BY DEF A!Standing, A!offlineMachines, A!failedRollouts, A!offboardCleanup, A!budgets, A!gatewayDrift,
       A!tasksGivenUp, A!Fingerprints

\* An evaluation with some of its fields written anew.
LEMMA Rewritten ==
  ASSUME NEW r \in A!Evaluation, NEW x, NEW y
  PROVE  /\ [r EXCEPT !.step = "resolve", !.left = x] =
             [step |-> "resolve", kind |-> r.kind, open |-> r.open, want |-> r.want, left |-> x,
              skipped |-> r.skipped, gone |-> r.gone, excused |-> r.excused]
        /\ [r EXCEPT !.step = "read", !.kind = x, !.want = {}, !.left = {}] =
             [step |-> "read", kind |-> x, open |-> r.open, want |-> {}, left |-> {},
              skipped |-> r.skipped, gone |-> r.gone, excused |-> r.excused]
        /\ [r EXCEPT !.step = "done", !.kind = x, !.want = {}, !.left = {}, !.open = {}] =
             [step |-> "done", kind |-> x, open |-> {}, want |-> {}, left |-> {},
              skipped |-> r.skipped, gone |-> r.gone, excused |-> r.excused]
        /\ [r EXCEPT !.excused = @ \cup x] =
             [step |-> r.step, kind |-> r.kind, open |-> r.open, want |-> r.want, left |-> r.left,
              skipped |-> r.skipped, gone |-> r.gone, excused |-> r.excused \cup x]
        /\ [r EXCEPT !.skipped = @ \cup x] =
             [step |-> r.step, kind |-> r.kind, open |-> r.open, want |-> r.want, left |-> r.left,
              skipped |-> r.skipped \cup x, gone |-> r.gone, excused |-> r.excused]
        /\ [r EXCEPT !.gone = @ \cup x] =
             [step |-> r.step, kind |-> r.kind, open |-> r.open, want |-> r.want, left |-> r.left,
              skipped |-> r.skipped, gone |-> r.gone \cup x, excused |-> r.excused]
        /\ [r EXCEPT !.left = @ \ x] =
             [step |-> r.step, kind |-> r.kind, open |-> r.open, want |-> r.want, left |-> r.left \ x,
              skipped |-> r.skipped, gone |-> r.gone, excused |-> r.excused]
<1>d. DOMAIN r = {"step", "kind", "open", "want", "left", "skipped", "gone", "excused"}
  BY DEF A!Evaluation
<1>1. [r EXCEPT !.step = "resolve", !.left = x] =
             [step |-> "resolve", kind |-> r.kind, open |-> r.open, want |-> r.want, left |-> x,
              skipped |-> r.skipped, gone |-> r.gone, excused |-> r.excused]
  <2>1. PICK n : n = [r EXCEPT !.step = "resolve", !.left = x]
    OBVIOUS
  <2>2. DOMAIN n = {"step", "kind", "open", "want", "left", "skipped", "gone", "excused"}
    BY <1>d, <2>1
  <2>3. /\ n.step = "resolve" /\ n.kind = r.kind /\ n.open = r.open /\ n.want = r.want
        /\ n.left = x /\ n.skipped = r.skipped /\ n.gone = r.gone /\ n.excused = r.excused
    BY <1>d, <2>1
  <2>4. n = [z \in {"step", "kind", "open", "want", "left", "skipped", "gone", "excused"} |-> n[z]]
    BY <2>1, <2>2
  <2> QED
    BY <2>1, <2>3, <2>4
<1>2. [r EXCEPT !.step = "read", !.kind = x, !.want = {}, !.left = {}] =
             [step |-> "read", kind |-> x, open |-> r.open, want |-> {}, left |-> {},
              skipped |-> r.skipped, gone |-> r.gone, excused |-> r.excused]
  <2>1. PICK n : n = [r EXCEPT !.step = "read", !.kind = x, !.want = {}, !.left = {}]
    OBVIOUS
  <2>2. DOMAIN n = {"step", "kind", "open", "want", "left", "skipped", "gone", "excused"}
    BY <1>d, <2>1
  <2>3. /\ n.step = "read" /\ n.kind = x /\ n.open = r.open /\ n.want = {}
        /\ n.left = {} /\ n.skipped = r.skipped /\ n.gone = r.gone /\ n.excused = r.excused
    BY <1>d, <2>1
  <2>4. n = [z \in {"step", "kind", "open", "want", "left", "skipped", "gone", "excused"} |-> n[z]]
    BY <2>1, <2>2
  <2> QED
    BY <2>1, <2>3, <2>4
<1>3. [r EXCEPT !.step = "done", !.kind = x, !.want = {}, !.left = {}, !.open = {}] =
             [step |-> "done", kind |-> x, open |-> {}, want |-> {}, left |-> {},
              skipped |-> r.skipped, gone |-> r.gone, excused |-> r.excused]
  <2>1. PICK n : n = [r EXCEPT !.step = "done", !.kind = x, !.want = {}, !.left = {}, !.open = {}]
    OBVIOUS
  <2>2. DOMAIN n = {"step", "kind", "open", "want", "left", "skipped", "gone", "excused"}
    BY <1>d, <2>1
  <2>3. /\ n.step = "done" /\ n.kind = x /\ n.open = {} /\ n.want = {}
        /\ n.left = {} /\ n.skipped = r.skipped /\ n.gone = r.gone /\ n.excused = r.excused
    BY <1>d, <2>1
  <2>4. n = [z \in {"step", "kind", "open", "want", "left", "skipped", "gone", "excused"} |-> n[z]]
    BY <2>1, <2>2
  <2> QED
    BY <2>1, <2>3, <2>4
<1>5. [r EXCEPT !.excused = @ \cup x] =
             [step |-> r.step, kind |-> r.kind, open |-> r.open, want |-> r.want, left |-> r.left,
              skipped |-> r.skipped, gone |-> r.gone, excused |-> r.excused \cup x]
  BY <1>d
<1>6. [r EXCEPT !.skipped = @ \cup x] =
             [step |-> r.step, kind |-> r.kind, open |-> r.open, want |-> r.want, left |-> r.left,
              skipped |-> r.skipped \cup x, gone |-> r.gone, excused |-> r.excused]
  BY <1>d
<1>7. [r EXCEPT !.gone = @ \cup x] =
             [step |-> r.step, kind |-> r.kind, open |-> r.open, want |-> r.want, left |-> r.left,
              skipped |-> r.skipped, gone |-> r.gone \cup x, excused |-> r.excused]
  BY <1>d
<1>8. [r EXCEPT !.left = @ \ x] =
             [step |-> r.step, kind |-> r.kind, open |-> r.open, want |-> r.want, left |-> r.left \ x,
              skipped |-> r.skipped, gone |-> r.gone, excused |-> r.excused]
  BY <1>d
<1> QED
  BY <1>1, <1>2, <1>3, <1>5, <1>6, <1>7, <1>8

\* An evaluation that has read its rule's inputs.
LEMMA RewrittenRead ==
  ASSUME NEW r \in A!Evaluation, NEW x, NEW y
  PROVE  [r EXCEPT !.step = "open", !.want = x, !.left = y] =
           [step |-> "open", kind |-> r.kind, open |-> r.open, want |-> x, left |-> y,
            skipped |-> r.skipped, gone |-> r.gone, excused |-> r.excused]
<1>d. DOMAIN r = {"step", "kind", "open", "want", "left", "skipped", "gone", "excused"}
  BY DEF A!Evaluation
<1>1. PICK n : n = [r EXCEPT !.step = "open", !.want = x, !.left = y]
  OBVIOUS
<1>2. DOMAIN n = {"step", "kind", "open", "want", "left", "skipped", "gone", "excused"}
  BY <1>d, <1>1
<1>3. /\ n.step = "open" /\ n.kind = r.kind /\ n.open = r.open /\ n.want = x
      /\ n.left = y /\ n.skipped = r.skipped /\ n.gone = r.gone /\ n.excused = r.excused
  BY <1>d, <1>1
<1>4. n = [z \in {"step", "kind", "open", "want", "left", "skipped", "gone", "excused"} |-> n[z]]
  BY <1>1, <1>2
<1> QED
  BY <1>1, <1>3, <1>4

\* A delivery with some of its fields written anew.
LEMMA RewrittenDelivery ==
  ASSUME NEW r \in A!Delivery, NEW x, NEW y
  PROVE  /\ [r EXCEPT !.step = "mark", !.at = x, !.took = y] =
              [step |-> "mark", waiting |-> r.waiting, to |-> r.to, at |-> x, took |-> y]
         /\ [r EXCEPT !.step = "send", !.waiting = x, !.at = <<>>, !.took = {}] =
              [step |-> "send", waiting |-> x, to |-> r.to, at |-> <<>>, took |-> {}]
<1>d. DOMAIN r = {"step", "waiting", "to", "at", "took"}
  BY DEF A!Delivery
<1>1. PICK n : n = [r EXCEPT !.step = "mark", !.at = x, !.took = y]
  OBVIOUS
<1>2. n.step = "mark" /\ n.waiting = r.waiting /\ n.to = r.to /\ n.at = x /\ n.took = y
  BY <1>d, <1>1
<1>3. n = [z \in {"step", "waiting", "to", "at", "took"} |-> n[z]]
  BY <1>d, <1>1
<1>4. n = [step |-> "mark", waiting |-> r.waiting, to |-> r.to, at |-> x, took |-> y]
  BY <1>2, <1>3
<1>5. PICK m : m = [r EXCEPT !.step = "send", !.waiting = x, !.at = <<>>, !.took = {}]
  OBVIOUS
<1>6. m.step = "send" /\ m.waiting = x /\ m.to = r.to /\ m.at = <<>> /\ m.took = {}
  BY <1>d, <1>5
<1>7. m = [z \in {"step", "waiting", "to", "at", "took"} |-> m[z]]
  BY <1>d, <1>5
<1>8. m = [step |-> "send", waiting |-> x, to |-> r.to, at |-> <<>>, took |-> {}]
  BY <1>6, <1>7
<1> QED
  BY <1>1, <1>4, <1>5, <1>8

\* An evaluation that is done with a kind goes on to the next.
LEMMA NextKindKeeps ==
  ASSUME NEW r \in A!Evaluation, NEW rows, NEW w, r.step # "idle",
         A!Fingerprints \ A!Standing(w) \subseteq r.gone,
         \A f \in A!Owed(r) : f[1] \in A!Past(r) \cup {A!Kinds[r.kind]} => rows[f].open
  PROVE  A!NextKind(r) \in A!Evaluation /\ A!OnCourse(A!NextKind(r), rows, w)
<1>1. CASE r.kind < 6
  <2>1. PICK n : n = [step |-> "read", kind |-> r.kind + 1, open |-> r.open, want |-> {}, left |-> {},
                      skipped |-> r.skipped, gone |-> r.gone, excused |-> r.excused]
    OBVIOUS
  <2>n. A!NextKind(r) = n
    <3>1. A!NextKind(r) = [r EXCEPT !.step = "read", !.kind = @ + 1, !.want = {}, !.left = {}]
      BY <1>1, SixKinds DEF A!NextKind
    <3>2. [r EXCEPT !.step = "read", !.kind = @ + 1, !.want = {}, !.left = {}]
            = [r EXCEPT !.step = "read", !.kind = r.kind + 1, !.want = {}, !.left = {}]
      OBVIOUS
    <3> QED
      BY <2>1, <3>1, <3>2, Rewritten
  <2>2. r.kind + 1 \in 1..6
    BY <1>1, SixKinds DEF A!Evaluation
  <2>3. n \in A!Evaluation
    BY <2>1, <2>2, SixKinds DEF A!Evaluation
  <2>4. A!Owed(n) = A!Owed(r)
    BY <2>1 DEF A!Owed
  <2>5. A!Past(n) \subseteq A!Past(r) \cup {A!Kinds[r.kind]}
    BY <2>1, SixKinds DEF A!Past, A!Evaluation
  <2> QED
    <3>1. n.step = "read" /\ n.gone = r.gone
      BY <2>1
    <3> QED
      BY <2>n, <2>3, <2>4, <2>5, <3>1 DEF A!OnCourse
<1>2. CASE r.kind = 6
  <2>1. PICK n : n = [step |-> "done", kind |-> 1, open |-> {}, want |-> {}, left |-> {},
                      skipped |-> r.skipped, gone |-> r.gone, excused |-> r.excused]
    OBVIOUS
  <2>n. A!NextKind(r) = n
    <3>1. A!NextKind(r) = [r EXCEPT !.step = "done", !.kind = 1, !.want = {}, !.left = {}, !.open = {}]
      BY <1>2, SixKinds DEF A!NextKind
    <3> QED
      BY <2>1, <3>1, Rewritten
  <2>2. n \in A!Evaluation
    BY <2>1, SixKinds DEF A!Evaluation
  <2>3. A!Owed(n) = A!Owed(r)
    BY <2>1 DEF A!Owed
  <2>4. A!Past(n) \subseteq A!Past(r) \cup {A!Kinds[r.kind]}
    <3> SUFFICES ASSUME NEW k \in 1..6 PROVE A!Kinds[k] \in A!Past(r) \cup {A!Kinds[r.kind]}
      BY SixKinds DEF A!Past
    <3>1. k < r.kind \/ k = r.kind
      BY <1>2
    <3> QED
      BY <3>1, SixKinds DEF A!Past
  <2> QED
    <3>1. n.step = "done" /\ n.gone = r.gone
      BY <2>1
    <3> QED
      BY <2>n, <2>2, <2>3, <2>4, <3>1 DEF A!OnCourse
<1> QED
  BY <1>1, <1>2, SixKinds DEF A!Evaluation

\* What is left to do of a kind stays so, or the kind is resolved, or it is over.
LEMMA ProceedKeeps ==
  ASSUME NEW r \in A!Evaluation, NEW rows, NEW w, r.step \in {"open", "resolve"}, A!OnCourse(r, rows, w)
  PROVE  A!Proceed(r) \in A!Evaluation /\ A!OnCourse(A!Proceed(r), rows, w)
<1>1. PICK stale : stale = A!OfKind(r.open, A!Kinds[r.kind]) \ r.want
  OBVIOUS
<1>2. CASE r.left # {}
  BY <1>2 DEF A!Proceed
<1>3. CASE r.left = {} /\ r.step = "open" /\ stale # {}
  <2>1. PICK n : n = [step |-> "resolve", kind |-> r.kind, open |-> r.open, want |-> r.want, left |-> stale,
                      skipped |-> r.skipped, gone |-> r.gone, excused |-> r.excused]
    OBVIOUS
  <2>2. A!Proceed(r) = n
    BY <1>1, <1>3, <2>1, Rewritten DEF A!Proceed
  <2>3. stale \subseteq r.gone /\ stale \subseteq A!Fingerprints
    BY <1>1, <1>3 DEF A!OnCourse, A!OfKind, A!Evaluation
  <2>4. n \in A!Evaluation
    BY <2>1, <2>3 DEF A!Evaluation
  <2>5. A!Owed(n) = A!Owed(r)
    BY <2>1 DEF A!Owed
  <2>6. A!Past(n) \subseteq A!Past(r) \cup {A!Kinds[r.kind]}
    BY <2>1, SixKinds DEF A!Past, A!Evaluation
  <2>7. \A f \in A!Owed(r) : f[1] \in A!Past(n) => rows[f].open
    BY <1>3, <2>6 DEF A!OnCourse
  <2> QED
    BY <1>3, <2>1, <2>2, <2>3, <2>4, <2>5, <2>7 DEF A!OnCourse
<1>4. CASE r.left = {} /\ ~(r.step = "open" /\ stale # {})
  <2>1. A!Proceed(r) = A!NextKind(r)
    BY <1>1, <1>4 DEF A!Proceed
  <2>2. r.step = "resolve" => A!Kinds[r.kind] \in A!Past(r)
    BY SixKinds DEF A!Past, A!Evaluation
  <2>3. \A f \in A!Owed(r) : f[1] \in A!Past(r) \cup {A!Kinds[r.kind]} => rows[f].open
    BY <1>4, <2>2 DEF A!OnCourse
  <2> QED
    BY <2>1, <2>3, NextKindKeeps DEF A!OnCourse
<1> QED
  BY <1>2, <1>3, <1>4

\* An evaluation stays on course while nothing is closed that it has opened or found.
LEMMA MoreOpenKeeps ==
  ASSUME NEW r, NEW rows, NEW new, NEW w, A!OnCourse(r, rows, w),
         \A f \in A!Owed(r) : rows[f].open => new[f].open
  PROVE  A!OnCourse(r, new, w)
BY DEF A!OnCourse

\* And while what somebody else closes is no longer its own.
LEMMA ExcuseKeeps ==
  ASSUME NEW r \in A!Evaluation, NEW rows, NEW new, NEW w, NEW f \in A!Fingerprints, A!OnCourse(r, rows, w),
         \A g \in A!Fingerprints \ {f} : rows[g].open => new[g].open
  PROVE  A!Excuse(r, f) \in A!Evaluation /\ A!OnCourse(A!Excuse(r, f), new, w)
<1>1. CASE r.step = "idle"
  BY <1>1 DEF A!Excuse, A!OnCourse
<1>2. CASE r.step # "idle"
  <2>1. PICK n : n = [step |-> r.step, kind |-> r.kind, open |-> r.open, want |-> r.want, left |-> r.left,
                      skipped |-> r.skipped, gone |-> r.gone, excused |-> r.excused \cup {f}]
    OBVIOUS
  <2>2. A!Excuse(r, f) = n
    BY <1>2, <2>1, Rewritten DEF A!Excuse
  <2>3. n \in A!Evaluation
    BY <2>1 DEF A!Evaluation
  <2>4. A!Owed(n) = A!Owed(r) \ {f}
    BY <2>1 DEF A!Owed
  <2>5. A!Past(n) = A!Past(r)
    BY <2>1 DEF A!Past
  <2>6. A!Owed(r) \subseteq A!Fingerprints
    BY DEF A!Owed
  <2> QED
    <3>1. /\ n.step = r.step /\ n.gone = r.gone /\ n.left = r.left
          /\ n.want = r.want /\ n.kind = r.kind
      BY <2>1
    <3> QED
      BY <1>2, <2>2, <2>3, <2>4, <2>5, <2>6, <3>1 DEF A!OnCourse
<1> QED
  BY <1>1, <1>2

\* What a delivery has in hand stays true of rows that are opened anew or closed.
LEMMA SentKeeps ==
  ASSUME NEW r \in A!Delivery, NEW rows \in [A!Fingerprints -> A!Row], NEW new \in [A!Fingerprints -> A!Row],
         A!Sent(r, rows),
         \A f \in A!Fingerprints :
           /\ rows[f].spell <= new[f].spell
           /\ rows[f].spell = new[f].spell => rows[f].heard \subseteq new[f].heard
  PROVE  A!Sent(r, new)
<1>1. \A f \in A!Fingerprints : rows[f].spell \in Nat /\ new[f].spell \in Nat
  BY DEF A!Row
<1>2. \A m \in r.waiting : m[1] \in A!Fingerprints /\ m[2] \in Nat
  BY DEF A!Delivery
<1>3. \A m \in r.waiting : m[2] <= new[m[1]].spell
  BY <1>1, <1>2 DEF A!Sent
<1>4. ASSUME r.step = "mark", new[r.at[1]].spell = r.at[2] PROVE r.took \subseteq new[r.at[1]].heard
  <2>1. r.at \in r.waiting /\ r.at[1] \in A!Fingerprints /\ r.at[2] \in Nat
    BY <1>2, <1>4 DEF A!Sent
  <2>2. r.at[2] <= rows[r.at[1]].spell /\ rows[r.at[1]].spell <= new[r.at[1]].spell
    BY <2>1 DEF A!Sent
  <2>3. rows[r.at[1]].spell = r.at[2]
    <3>1. rows[r.at[1]].spell \in Nat /\ new[r.at[1]].spell \in Nat
      BY <1>1, <2>1
    <3>2. new[r.at[1]].spell = r.at[2]
      BY <1>4
    <3> QED
      BY <2>1, <2>2, <3>1, <3>2
  <2> QED
    BY <1>4, <2>1, <2>3 DEF A!Sent
<1> QED
  BY <1>3, <1>4 DEF A!Sent

\* A row that is opened, if it is not: a new spell that nobody was told of.
LEMMA OpenRow ==
  ASSUME A!TypeOK, NEW f, NEW new, new = A!Open(f)
  PROVE  /\ new \in [A!Fingerprints -> A!Row]
         /\ f \in A!Fingerprints => new[f].open
         /\ \A g \in A!Fingerprints :
              /\ alert[g].open => new[g].open
              /\ alert[g].spell <= new[g].spell
              /\ new[g] = alert[g] \/ (new[g].spell > alert[g].spell /\ ~new[g].told)
<1>1. CASE alert[f].open
  BY <1>1 DEF A!Open, A!TypeOK, A!Row
<1>2. CASE ~alert[f].open
  <2>1. PICK row : row = [open |-> TRUE, spell |-> alert[f].spell + 1, told |-> FALSE, to |-> {}, heard |-> {}, tries |-> 0]
    OBVIOUS
  <2>2. new = [alert EXCEPT ![f] = row]
    BY <1>2, <2>1 DEF A!Open
  <2>3. \A g \in A!Fingerprints : alert[g].spell \in Nat
    BY DEF A!TypeOK, A!Row
  <2>4. f \in A!Fingerprints => row \in A!Row
    BY <2>1, <2>3 DEF A!Row
  <2>5. new \in [A!Fingerprints -> A!Row]
    BY <2>2, <2>4 DEF A!TypeOK
  <2>6. f \in A!Fingerprints => new[f] = row
    BY <2>2 DEF A!TypeOK
  <2>7. \A g \in A!Fingerprints \ {f} : new[g] = alert[g]
    BY <2>2 DEF A!TypeOK
  <2>8. row.open /\ row.spell = alert[f].spell + 1 /\ ~row.told
    BY <2>1
  <2> QED
    BY <1>2, <2>3, <2>5, <2>6, <2>7, <2>8
<1> QED
  BY <1>1, <1>2

\* A row that is closed is otherwise as it was.
LEMMA ResolveRow ==
  ASSUME A!TypeOK, NEW f \in A!Fingerprints, NEW new, new = A!Resolve(f)
  PROVE  /\ new \in [A!Fingerprints -> A!Row]
         /\ \A g \in A!Fingerprints \ {f} : new[g] = alert[g]
         /\ new[f].spell = alert[f].spell /\ new[f].told = alert[f].told
         /\ new[f].to = alert[f].to /\ new[f].heard = alert[f].heard
<1>1. alert[f] \in A!Row
  BY DEF A!TypeOK
<1>2. PICK row : row = [alert[f] EXCEPT !.open = FALSE]
  OBVIOUS
<1>3. row \in A!Row /\ row.spell = alert[f].spell /\ row.told = alert[f].told
      /\ row.to = alert[f].to /\ row.heard = alert[f].heard
  BY <1>1, <1>2 DEF A!Row
<1>4. new = [alert EXCEPT ![f] = row]
  BY <1>2 DEF A!Resolve
<1> QED
  BY <1>3, <1>4 DEF A!TypeOK

\* While rows are only opened and closed, deliveries and marks stay true.
LEMMA RowsKeep ==
  ASSUME A!AlertsInv, UNCHANGED notify, NEW f \in A!Fingerprints,
         alert' = alert \/ alert' = A!Open(f) \/ alert' = A!Resolve(f)
  PROVE  /\ alert' \in [A!Fingerprints -> A!Row]
         /\ \A n \in Notifier : A!Sent(notify'[n], alert')
         /\ \A g \in A!Fingerprints : alert'[g].told => alert'[g].to \subseteq alert'[g].heard
<1>1. alert' \in [A!Fingerprints -> A!Row]
  BY OpenRow, ResolveRow DEF A!AlertsInv, A!TypeOK
<1>2. \A g \in A!Fingerprints :
        \/ alert'[g] = alert[g]
        \/ alert'[g].spell > alert[g].spell /\ ~alert'[g].told
        \/ alert'[g].spell = alert[g].spell /\ alert'[g].told = alert[g].told
           /\ alert'[g].to = alert[g].to /\ alert'[g].heard = alert[g].heard
  <2>1. CASE alert' = A!Open(f)
    BY <2>1, OpenRow DEF A!AlertsInv
  <2>2. CASE alert' = A!Resolve(f)
    <3>1. /\ \A g \in A!Fingerprints \ {f} : alert'[g] = alert[g]
          /\ alert'[f].spell = alert[f].spell /\ alert'[f].told = alert[f].told
          /\ alert'[f].to = alert[f].to /\ alert'[f].heard = alert[f].heard
      BY <2>2, ResolveRow DEF A!AlertsInv
    <3> QED
      BY <3>1
  <2> QED
    BY <2>1, <2>2
<1>3. \A g \in A!Fingerprints : alert[g].spell \in Nat /\ alert'[g].spell \in Nat
  BY <1>1 DEF A!AlertsInv, A!TypeOK, A!Row
<1>4. \A n \in Notifier : A!Sent(notify[n], alert')
  <2> SUFFICES ASSUME NEW n \in Notifier PROVE A!Sent(notify[n], alert')
    OBVIOUS
  <2>1. notify[n] \in A!Delivery /\ A!Sent(notify[n], alert) /\ alert \in [A!Fingerprints -> A!Row]
    BY DEF A!AlertsInv, A!TypeOK
  <2>2. \A g \in A!Fingerprints :
          /\ alert[g].spell <= alert'[g].spell
          /\ alert[g].spell = alert'[g].spell => alert[g].heard \subseteq alert'[g].heard
    BY <1>2, <1>3
  <2> QED
    BY <1>1, <2>1, <2>2, SentKeeps
<1>5. \A g \in A!Fingerprints : alert'[g].told => alert'[g].to \subseteq alert'[g].heard
  BY <1>2 DEF A!AlertsInv
<1> QED
  BY <1>1, <1>4, <1>5

\* When the world changes, evaluations that are under way saw what is gone.
LEMMA BecomesKeeps ==
  ASSUME A!AlertsInv, NEW w, A!Becomes(w), \A f \in A!Fingerprints : alert[f].open => alert'[f].open
  PROVE  eval' \in [Eval -> A!Evaluation] /\ \A e \in Eval : A!OnCourse(eval'[e], alert', world')
<1>1. world' = w /\ DOMAIN eval' = Eval /\ eval' = [e \in Eval |-> eval'[e]]
  BY DEF A!Becomes
<1>2. \A e \in Eval : eval[e] \in A!Evaluation /\ A!OnCourse(eval[e], alert, world)
  BY DEF A!AlertsInv, A!TypeOK
<1>3. ASSUME NEW e \in Eval PROVE eval'[e] \in A!Evaluation /\ A!OnCourse(eval'[e], alert', w)
  <2>1. CASE eval[e].step = "idle"
    <3>1. eval'[e] = A!NoEval
      BY <2>1 DEF A!Becomes
    <3>2. A!NoEval \in A!Evaluation /\ A!NoEval.step = "idle"
      BY SixKinds DEF A!NoEval, A!Evaluation
    <3> QED
      BY <3>1, <3>2 DEF A!OnCourse
  <2>2. CASE eval[e].step # "idle"
    <3>1. PICK r : r = eval[e]
      OBVIOUS
    <3>2. PICK lost : lost = A!Fingerprints \ A!Standing(w)
      OBVIOUS
    <3>3. PICK n : n = [step |-> r.step, kind |-> r.kind, open |-> r.open, want |-> r.want, left |-> r.left,
                        skipped |-> r.skipped, gone |-> r.gone \cup lost, excused |-> r.excused]
      OBVIOUS
    <3>4. eval'[e] = [r EXCEPT !.gone = @ \cup lost]
      BY <2>2, <3>1, <3>2 DEF A!Becomes
    <3>5. r \in A!Evaluation
      BY <1>2, <3>1
    <3>6. eval'[e] = n
      BY <3>3, <3>4, <3>5, Rewritten
    <3>7. n \in A!Evaluation
      BY <3>2, <3>3, <3>5 DEF A!Evaluation
    <3>8. A!Owed(n) \subseteq A!Owed(r) /\ A!Past(n) = A!Past(r)
      BY <3>3 DEF A!Owed, A!Past
    <3>9. /\ n.step = r.step /\ n.gone = r.gone \cup lost /\ n.left = r.left
          /\ n.want = r.want /\ n.kind = r.kind
      BY <3>3
    <3>10. A!Owed(r) \subseteq A!Fingerprints
      BY DEF A!Owed
    <3>11. A!OnCourse(r, alert, world) /\ r.step # "idle"
      BY <1>2, <2>2, <3>1
    <3>12. A!OnCourse(n, alert', w)
      BY <3>2, <3>8, <3>9, <3>10, <3>11 DEF A!OnCourse
    <3> QED
      BY <3>6, <3>7, <3>12
  <2> QED
    BY <2>1, <2>2
<1> QED
  BY <1>1, <1>3

\* An idle evaluation and an idle delivery are on course whatever there is.
LEMMA IdleKeeps ==
  /\ A!NoEval \in A!Evaluation /\ \A rows, w : A!OnCourse(A!NoEval, rows, w)
  /\ A!NoNotify \in A!Delivery /\ \A rows : A!Sent(A!NoNotify, rows)
<1>1. A!NoEval \in A!Evaluation /\ A!NoEval.step = "idle"
  BY SixKinds DEF A!NoEval, A!Evaluation
<1>2. A!NoNotify \in A!Delivery /\ A!NoNotify.step = "idle" /\ A!NoNotify.waiting = {}
  BY DEF A!NoNotify, A!Delivery
<1> QED
  BY <1>1, <1>2 DEF A!OnCourse, A!Sent

\* Nothing is open and nothing is under way.
LEMMA AlertsStart == Init => A!AlertsInv
<1> SUFFICES ASSUME Init PROVE A!AlertsInv
  OBVIOUS
<1>1. PICK row : row = [open |-> FALSE, spell |-> 0, told |-> FALSE, to |-> {}, heard |-> {}, tries |-> 0]
  OBVIOUS
<1>2. /\ settings = [on |-> TRUE, channels |-> {}]
      /\ alert = [f \in A!Fingerprints |-> row]
      /\ eval = [e \in Eval |-> A!NoEval]
      /\ notify = [n \in Notifier |-> A!NoNotify]
  BY <1>1 DEF Init, A!Init
<1>3. row \in A!Row /\ ~row.told
  BY <1>1 DEF A!Row
<1>4. settings \in [on : BOOLEAN, channels : SUBSET Channel]
  BY <1>2
<1>5. /\ alert \in [A!Fingerprints -> A!Row] /\ eval \in [Eval -> A!Evaluation]
      /\ notify \in [Notifier -> A!Delivery]
  BY <1>2, <1>3, IdleKeeps
<1> QED
  BY <1>2, <1>3, <1>4, <1>5, IdleKeeps DEF A!AlertsInv, A!TypeOK

\* Of an evaluation's steps: the rows as they are after one of its statements.
LEMMA StatementKeeps ==
  ASSUME A!AlertsInv, NEW e \in Eval, NEW f \in eval[e].left, eval[e].step \in {"open", "resolve"},
         alert' = IF eval[e].step = "open" THEN A!Open(f) ELSE A!Resolve(f),
         world' = world,
         eval' = [d \in Eval |->
               IF d = e THEN A!Proceed([eval[e] EXCEPT !.left = @ \ {f}])
               ELSE IF eval[e].step = "resolve" THEN A!Excuse(eval[d], f)
               ELSE eval[d]]
  PROVE  eval' \in [Eval -> A!Evaluation] /\ \A d \in Eval : A!OnCourse(eval'[d], alert', world')
<1>1. \A d \in Eval : eval[d] \in A!Evaluation /\ A!OnCourse(eval[d], alert, world)
  BY DEF A!AlertsInv, A!TypeOK
<1>2. PICK r : r = eval[e]
  OBVIOUS
<1>3. r \in A!Evaluation /\ A!OnCourse(r, alert, world) /\ r.step \in {"open", "resolve"} /\ f \in r.left
  BY <1>1, <1>2
<1>4. f \in A!Fingerprints
  BY <1>3 DEF A!Evaluation
<1>5. PICK n : n = [step |-> r.step, kind |-> r.kind, open |-> r.open, want |-> r.want, left |-> r.left \ {f},
                    skipped |-> r.skipped, gone |-> r.gone, excused |-> r.excused]
  OBVIOUS
<1>6. eval'[e] = A!Proceed(n)
  <2>1. [r EXCEPT !.left = @ \ {f}] = n
    BY <1>3, <1>5, Rewritten
  <2> QED
    BY <1>2, <2>1
<1>7. n \in A!Evaluation
  BY <1>3, <1>5 DEF A!Evaluation
<1>8. /\ n.step = r.step /\ n.gone = r.gone /\ n.left = r.left \ {f}
      /\ n.want = r.want /\ n.kind = r.kind
  BY <1>5
<1>9. A!Owed(n) = A!Owed(r) /\ A!Past(n) = A!Past(r) /\ A!Owed(r) \subseteq A!Fingerprints \ r.gone
  BY <1>5 DEF A!Owed, A!Past
<1>10. CASE r.step = "open"
  <2>1. alert'[f].open /\ \A g \in A!Fingerprints : alert[g].open => alert'[g].open
    BY <1>2, <1>4, <1>10, OpenRow DEF A!AlertsInv
  <2>2. A!OnCourse(n, alert', world)
    BY <1>3, <1>8, <1>9, <1>10, <2>1 DEF A!OnCourse
  <2>3. A!OnCourse(A!Proceed(n), alert', world) /\ A!Proceed(n) \in A!Evaluation
    BY <1>7, <1>8, <1>10, <2>2, ProceedKeeps
  <2>4. ASSUME NEW d \in Eval \ {e} PROVE eval'[d] \in A!Evaluation /\ A!OnCourse(eval'[d], alert', world)
    <3>1. eval'[d] = eval[d]
      BY <1>2, <1>10
    <3>2. A!Owed(eval[d]) \subseteq A!Fingerprints
      BY DEF A!Owed
    <3> QED
      BY <1>1, <2>1, <3>1, <3>2, MoreOpenKeeps
  <2> QED
    BY <1>6, <2>3, <2>4
<1>11. CASE r.step = "resolve"
  <2>1. \A g \in A!Fingerprints \ {f} : alert'[g] = alert[g]
    BY <1>2, <1>4, <1>11, ResolveRow DEF A!AlertsInv
  <2>2. f \in r.gone
    BY <1>3, <1>11 DEF A!OnCourse
  <2>3. A!OnCourse(n, alert', world)
    BY <1>3, <1>8, <1>9, <1>11, <2>1, <2>2 DEF A!OnCourse
  <2>4. A!OnCourse(A!Proceed(n), alert', world) /\ A!Proceed(n) \in A!Evaluation
    BY <1>7, <1>8, <1>11, <2>3, ProceedKeeps
  <2>5. ASSUME NEW d \in Eval \ {e} PROVE eval'[d] \in A!Evaluation /\ A!OnCourse(eval'[d], alert', world)
    <3>1. eval'[d] = A!Excuse(eval[d], f)
      BY <1>2, <1>11
    <3> QED
      BY <1>1, <1>4, <2>1, <3>1, ExcuseKeeps
  <2> QED
    BY <1>6, <2>4, <2>5
<1> QED
  BY <1>3, <1>10, <1>11

\* A kind that is skipped is one less to answer for.
LEMMA SkippedKeeps ==
  ASSUME NEW r \in A!Evaluation, NEW rows, NEW w, r.step # "idle", A!OnCourse(r, rows, w)
  PROVE  LET n == A!NextKind([r EXCEPT !.skipped = @ \cup {A!Kinds[r.kind]}]) IN
         n \in A!Evaluation /\ A!OnCourse(n, rows, w)
<1>1. PICK s : s = [step |-> r.step, kind |-> r.kind, open |-> r.open, want |-> r.want, left |-> r.left,
                    skipped |-> r.skipped \cup {A!Kinds[r.kind]}, gone |-> r.gone, excused |-> r.excused]
  OBVIOUS
<1>2. [r EXCEPT !.skipped = @ \cup {A!Kinds[r.kind]}] = s
  BY <1>1, Rewritten
<1>3. s \in A!Evaluation
  BY <1>1 DEF A!Evaluation
<1>4. A!Owed(s) = {f \in A!Owed(r) : f[1] # A!Kinds[r.kind]} /\ A!Past(s) = A!Past(r)
  BY <1>1 DEF A!Owed, A!Past
<1>5. s.step = r.step /\ s.gone = r.gone /\ s.kind = r.kind
  BY <1>1
<1>6. \A f \in A!Owed(s) : f[1] \in A!Past(s) \cup {A!Kinds[s.kind]} => rows[f].open
  BY <1>4, <1>5 DEF A!OnCourse
<1>7. A!Fingerprints \ A!Standing(w) \subseteq s.gone
  BY <1>5 DEF A!OnCourse
<1>8. A!NextKind(s) \in A!Evaluation /\ A!OnCourse(A!NextKind(s), rows, w)
  BY <1>3, <1>5, <1>6, <1>7, NextKindKeeps
<1> QED
  BY <1>2, <1>8

\* An evaluation that reads what its rule is about, or skips it.
LEMMA ReadKeeps ==
  ASSUME A!AlertsInv, NEW e \in Eval, A!Read(e)
  PROVE  eval' \in [Eval -> A!Evaluation] /\ \A d \in Eval : A!OnCourse(eval'[d], alert', world')
<1>1. \A d \in Eval : eval[d] \in A!Evaluation /\ A!OnCourse(eval[d], alert, world)
  BY DEF A!AlertsInv, A!TypeOK
<1>2. PICK r : r = eval[e]
  OBVIOUS
<1>3. r \in A!Evaluation /\ A!OnCourse(r, alert, world) /\ r.step = "read"
  BY <1>1, <1>2 DEF A!Read
<1>4. PICK kind : kind = A!Kinds[r.kind]
  OBVIOUS
<1>5. PICK want : want = A!Wanted(kind, world)
  OBVIOUS
<1>6. PICK left : left = IF kind \in A!Hooked THEN {} ELSE want
  OBVIOUS
<1>7. want \subseteq A!Fingerprints /\ left \subseteq A!Fingerprints
  BY <1>5, <1>6, StandingIsNamed DEF A!Wanted, A!OfKind
<1>8. UNCHANGED <<alert, world>>
  BY DEF A!Read
<1>9. A!Fingerprints \ A!Standing(world) \subseteq r.gone
  BY <1>3 DEF A!OnCourse
<1>10. CASE eval' = [eval EXCEPT ![e] = A!Proceed([eval[e] EXCEPT !.step = "open", !.want = want, !.left = left])]
  <2>1. PICK n : n = [step |-> "open", kind |-> r.kind, open |-> r.open, want |-> want, left |-> left,
                      skipped |-> r.skipped, gone |-> r.gone, excused |-> r.excused]
    OBVIOUS
  <2>2. [r EXCEPT !.step = "open", !.want = want, !.left = left] = n
    BY <1>3, <2>1, RewrittenRead
  <2>3. eval' = [eval EXCEPT ![e] = A!Proceed(n)]
    BY <1>2, <1>10, <2>2
  <2>4. n \in A!Evaluation
    BY <1>3, <1>7, <2>1 DEF A!Evaluation
  <2>5. /\ n.step = "open" /\ n.gone = r.gone /\ n.left = left
        /\ n.want = want /\ n.kind = r.kind
    BY <2>1
  <2>6. A!Owed(n) = A!Owed(r) /\ A!Past(n) \subseteq A!Past(r)
    BY <2>1, <1>3 DEF A!Owed, A!Past
  <2>7. A!OfKind(A!Fingerprints, kind) \ want \subseteq r.gone
    BY <1>5, <1>9 DEF A!Wanted, A!OfKind
  <2>8. \A f \in A!Owed(n) : f[1] = kind => f \in left
    <3> SUFFICES ASSUME NEW f \in A!Owed(n), f[1] = kind PROVE f \in left
      OBVIOUS
    <3>1. f \in A!Fingerprints /\ f \notin r.gone /\ kind \notin A!Hooked
      BY <2>1 DEF A!Owed
    <3>2. f \in want
      BY <2>7, <3>1 DEF A!OfKind
    <3> QED
      BY <1>6, <3>1, <3>2
  <2>9. A!OnCourse(n, alert, world)
    BY <1>3, <1>4, <1>9, <2>5, <2>6, <2>7, <2>8 DEF A!OnCourse
  <2>10. A!OnCourse(A!Proceed(n), alert, world) /\ A!Proceed(n) \in A!Evaluation
    BY <2>4, <2>5, <2>9, ProceedKeeps
  <2> QED
    BY <1>1, <1>8, <2>3, <2>10 DEF A!AlertsInv, A!TypeOK
<1>11. CASE eval' = [eval EXCEPT ![e] = A!NextKind([eval[e] EXCEPT !.skipped = @ \cup {kind}])]
  <2>1. PICK n : n = A!NextKind([r EXCEPT !.skipped = @ \cup {A!Kinds[r.kind]}])
    OBVIOUS
  <2>2. n \in A!Evaluation /\ A!OnCourse(n, alert, world)
    BY <1>3, <2>1, SkippedKeeps
  <2>3. eval' = [eval EXCEPT ![e] = n]
    BY <1>2, <1>4, <1>11, <2>1
  <2> QED
    BY <1>1, <1>8, <2>2, <2>3 DEF A!AlertsInv, A!TypeOK
<1>12. \/ eval' = [eval EXCEPT ![e] = A!Proceed([eval[e] EXCEPT !.step = "open", !.want = want, !.left = left])]
       \/ eval' = [eval EXCEPT ![e] = A!NextKind([eval[e] EXCEPT !.skipped = @ \cup {kind}])]
  BY <1>2, <1>4, <1>5, <1>6 DEF A!Read
<1> QED
  BY <1>10, <1>11, <1>12

\* A delivery takes what is waiting.
LEMMA DeliverKeeps ==
  ASSUME A!AlertsInv, NEW n \in Notifier, A!Deliver(n)
  PROVE  A!AlertsInv'
<1>1. PICK r : r = [A!NoNotify EXCEPT !.step = "send", !.to = settings.channels,
                      !.waiting = {<<f, alert[f].spell>> : f \in A!Unnotified}]
  OBVIOUS
<1>2. UNCHANGED <<world, settings, alert, eval>> /\ notify' = [notify EXCEPT ![n] = r]
  BY <1>1 DEF A!Deliver
<1>3. r = [step |-> "send", waiting |-> {<<f, alert[f].spell>> : f \in A!Unnotified}, to |-> settings.channels,
           at |-> <<>>, took |-> {}]
  BY <1>1 DEF A!NoNotify
<1>4. \A f \in A!Fingerprints : alert[f].spell \in Nat
  BY DEF A!AlertsInv, A!TypeOK, A!Row
<1>5. A!Unnotified \subseteq A!Fingerprints
  BY DEF A!Unnotified
<1>6. {<<f, alert[f].spell>> : f \in A!Unnotified} \subseteq A!Fingerprints \X Nat
  BY <1>4, <1>5
<1>7. settings.channels \subseteq Channel
  BY DEF A!AlertsInv, A!TypeOK
<1>8. r \in A!Delivery
  BY <1>3, <1>6, <1>7 DEF A!Delivery
<1>9. A!Sent(r, alert)
  <2>1. r.step = "send" /\ r.waiting = {<<f, alert[f].spell>> : f \in A!Unnotified}
    BY <1>3
  <2>2. \A m \in r.waiting : m[2] <= alert[m[1]].spell
    BY <1>4, <1>5, <2>1
  <2> QED
    BY <2>1, <2>2 DEF A!Sent
<1> QED
  BY <1>2, <1>8, <1>9 DEF A!AlertsInv, A!TypeOK

\* An alert is sent, and its row, if it is still that spell's, has been heard of.
LEMMA SendKeeps ==
  ASSUME A!AlertsInv, NEW n \in Notifier, A!Send(n)
  PROVE  A!AlertsInv'
<1>1. PICK r : r = notify[n]
  OBVIOUS
<1>2. r \in A!Delivery /\ A!Sent(r, alert) /\ r.step = "send"
  BY <1>1 DEF A!AlertsInv, A!TypeOK, A!Send
<1>3. PICK m \in r.waiting, took \in SUBSET r.to :
        /\ notify' = [notify EXCEPT ![n].step = "mark", ![n].at = m, ![n].took = took]
        /\ alert' = IF alert[m[1]].spell = m[2] THEN [alert EXCEPT ![m[1]].heard = @ \cup took] ELSE alert
  BY <1>1 DEF A!Send
<1>4. m \in A!Fingerprints \X Nat /\ m[1] \in A!Fingerprints /\ m[2] \in Nat /\ took \subseteq Channel
  BY <1>2 DEF A!Delivery
<1>5. PICK s : s = [step |-> "mark", waiting |-> r.waiting, to |-> r.to, at |-> m, took |-> took]
  OBVIOUS
<1>6. notify' = [notify EXCEPT ![n] = s]
  <2>1. [r EXCEPT !.step = "mark", !.at = m, !.took = took] = s
    BY <1>2, <1>5, RewrittenDelivery
  <2> QED
    BY <1>1, <1>3, <2>1 DEF A!AlertsInv, A!TypeOK
<1>7. s \in A!Delivery
  BY <1>2, <1>4, <1>5 DEF A!Delivery
<1>8. /\ alert' \in [A!Fingerprints -> A!Row]
      /\ \A f \in A!Fingerprints :
           /\ alert'[f].open = alert[f].open /\ alert'[f].spell = alert[f].spell
           /\ alert'[f].told = alert[f].told /\ alert'[f].to = alert[f].to
           /\ alert[f].heard \subseteq alert'[f].heard
      /\ alert'[m[1]].spell = m[2] => took \subseteq alert'[m[1]].heard
  <2>1. CASE alert[m[1]].spell # m[2]
    BY <1>3, <2>1 DEF A!AlertsInv, A!TypeOK
  <2>2. CASE alert[m[1]].spell = m[2]
    <3>1. PICK row : row = [alert[m[1]] EXCEPT !.heard = @ \cup took]
      OBVIOUS
    <3>2. alert[m[1]] \in A!Row
      BY <1>4 DEF A!AlertsInv, A!TypeOK
    <3>3. /\ row \in A!Row /\ row.open = alert[m[1]].open /\ row.spell = alert[m[1]].spell
          /\ row.told = alert[m[1]].told /\ row.to = alert[m[1]].to /\ row.heard = alert[m[1]].heard \cup took
      BY <1>4, <3>1, <3>2 DEF A!Row
    <3>4. alert' = [alert EXCEPT ![m[1]] = row]
      BY <1>3, <2>2, <3>1
    <3> QED
      BY <1>4, <3>3, <3>4 DEF A!AlertsInv, A!TypeOK
  <2> QED
    BY <2>1, <2>2
<1>9. UNCHANGED <<world, settings, eval>>
  BY DEF A!Send
<1>10. A!Sent(s, alert')
  <2>1. /\ s.step = "mark" /\ s.at = m /\ s.took = took /\ s.waiting = r.waiting /\ s.to = r.to
    BY <1>5
  <2>2. \A k \in r.waiting : k[1] \in A!Fingerprints
    BY <1>2 DEF A!Delivery
  <2> QED
    BY <1>2, <1>3, <1>8, <2>1, <2>2 DEF A!Sent
<1>11. ASSUME NEW k \in Notifier PROVE A!Sent(notify'[k], alert') /\ notify'[k] \in A!Delivery
  <2>1. CASE k = n
    BY <1>6, <1>7, <1>10, <2>1 DEF A!AlertsInv, A!TypeOK
  <2>2. CASE k # n
    <3>1. notify'[k] = notify[k] /\ notify[k] \in A!Delivery /\ A!Sent(notify[k], alert)
          /\ alert \in [A!Fingerprints -> A!Row]
      BY <1>6, <2>2 DEF A!AlertsInv, A!TypeOK
    <3>2. \A f \in A!Fingerprints : alert[f].spell <= alert'[f].spell
      BY <1>8 DEF A!Row
    <3> QED
      BY <1>8, <3>1, <3>2, SentKeeps
  <2> QED
    BY <2>1, <2>2
<1>12. ASSUME NEW e \in Eval PROVE A!OnCourse(eval[e], alert', world)
  <2>1. A!Owed(eval[e]) \subseteq A!Fingerprints
    BY DEF A!Owed
  <2> QED
    BY <1>8, <2>1, MoreOpenKeeps DEF A!AlertsInv
<1>13. notify' \in [Notifier -> A!Delivery]
  BY <1>6, <1>7 DEF A!AlertsInv, A!TypeOK
<1> QED
  BY <1>8, <1>9, <1>11, <1>12, <1>13 DEF A!AlertsInv, A!TypeOK

\* A delivery writes down what came of an alert it sent.
LEMMA MarkKeeps ==
  ASSUME A!AlertsInv, NEW n \in Notifier, A!Mark(n)
  PROVE  A!AlertsInv'
<1>1. PICK r : r = notify[n]
  OBVIOUS
<1>2. r \in A!Delivery /\ A!Sent(r, alert) /\ r.step = "mark"
  BY <1>1 DEF A!AlertsInv, A!TypeOK, A!Mark
<1>3. PICK f, spell : f = r.at[1] /\ spell = r.at[2]
  OBVIOUS
<1>4. f \in A!Fingerprints /\ spell \in Nat /\ r.took \subseteq r.to /\ r.to \subseteq Channel
      /\ (alert[f].spell = spell => r.took \subseteq alert[f].heard)
  BY <1>2, <1>3 DEF A!Delivery, A!Sent
<1>5. alert' = A!MarkNotified(f, spell, r.to, r.took = r.to)
  BY <1>1, <1>3 DEF A!Mark
<1>6. /\ alert' \in [A!Fingerprints -> A!Row]
      /\ \A g \in A!Fingerprints :
           alert'[g].open = alert[g].open /\ alert'[g].spell = alert[g].spell /\ alert'[g].heard = alert[g].heard
      /\ \A g \in A!Fingerprints :
           \/ alert'[g].told = alert[g].told /\ alert'[g].to = alert[g].to
           \/ g = f /\ r.took = r.to /\ alert[f].spell = spell /\ alert'[f].to = r.to
  <2>1. CASE alert[f].spell # spell
    BY <1>5, <2>1 DEF A!MarkNotified, A!AlertsInv, A!TypeOK
  <2>2. CASE alert[f].spell = spell /\ r.took = r.to
    <3>1. PICK row : row = [alert[f] EXCEPT !.told = TRUE, !.to = r.to]
      OBVIOUS
    <3>2. alert[f] \in A!Row
      BY <1>4 DEF A!AlertsInv, A!TypeOK
    <3>3. row \in A!Row /\ row.open = alert[f].open /\ row.spell = alert[f].spell /\ row.heard = alert[f].heard
          /\ row.to = r.to
      BY <1>4, <3>1, <3>2 DEF A!Row
    <3>4. alert' = [alert EXCEPT ![f] = row]
      BY <1>5, <2>2, <3>1 DEF A!MarkNotified, A!AlertsInv, A!TypeOK
    <3> QED
      BY <1>4, <2>2, <3>3, <3>4 DEF A!AlertsInv, A!TypeOK
  <2>3. CASE alert[f].spell = spell /\ r.took # r.to
    <3>1. PICK row : row = [alert[f] EXCEPT !.tries = @ + 1]
      OBVIOUS
    <3>2. alert[f] \in A!Row
      BY <1>4 DEF A!AlertsInv, A!TypeOK
    <3>3. row \in A!Row /\ row.open = alert[f].open /\ row.spell = alert[f].spell /\ row.heard = alert[f].heard
          /\ row.to = alert[f].to /\ row.told = alert[f].told
      BY <1>4, <3>1, <3>2 DEF A!Row
    <3>4. alert' = [alert EXCEPT ![f] = row]
      BY <1>5, <2>3, <3>1 DEF A!MarkNotified
    <3> QED
      BY <1>4, <2>3, <3>3, <3>4 DEF A!AlertsInv, A!TypeOK
  <2> QED
    BY <2>1, <2>2, <2>3
<1>7. UNCHANGED <<world, settings, eval>>
  BY DEF A!Mark
<1>8. \A g \in A!Fingerprints : alert'[g].told => alert'[g].to \subseteq alert'[g].heard
  BY <1>4, <1>6 DEF A!AlertsInv
<1>9. PICK s : s = IF r.waiting = {r.at} THEN A!NoNotify
                   ELSE [step |-> "send", waiting |-> r.waiting \ {r.at}, to |-> r.to, at |-> <<>>, took |-> {}]
  OBVIOUS
<1>10. notify' = [notify EXCEPT ![n] = s]
  <2>1. [r EXCEPT !.step = "send", !.waiting = @ \ {r.at}, !.at = <<>>, !.took = {}]
          = [step |-> "send", waiting |-> r.waiting \ {r.at}, to |-> r.to, at |-> <<>>, took |-> {}]
    BY <1>2, RewrittenDelivery
  <2> QED
    BY <1>1, <1>9, <2>1 DEF A!Mark
<1>11. s \in A!Delivery /\ A!Sent(s, alert)
  <2>1. CASE s = A!NoNotify
    BY <2>1, IdleKeeps
  <2>2. CASE s = [step |-> "send", waiting |-> r.waiting \ {r.at}, to |-> r.to, at |-> <<>>, took |-> {}]
    <3>1. s \in A!Delivery
      BY <1>2, <2>2 DEF A!Delivery
    <3>2. s.step = "send" /\ s.waiting \subseteq r.waiting
      BY <2>2
    <3> QED
      BY <1>2, <3>1, <3>2 DEF A!Sent
  <2> QED
    BY <1>9, <2>1, <2>2
<1>12. ASSUME NEW k \in Notifier PROVE A!Sent(notify'[k], alert') /\ notify'[k] \in A!Delivery
  <2>1. notify'[k] \in A!Delivery /\ A!Sent(notify'[k], alert)
    BY <1>10, <1>11 DEF A!AlertsInv, A!TypeOK
  <2>2. \A g \in A!Fingerprints : alert[g].spell <= alert'[g].spell
    BY <1>6 DEF A!Row
  <2>3. alert \in [A!Fingerprints -> A!Row]
    BY DEF A!AlertsInv, A!TypeOK
  <2> QED
    BY <1>6, <2>1, <2>2, <2>3, SentKeeps
<1>13. ASSUME NEW e \in Eval PROVE A!OnCourse(eval[e], alert', world)
  <2>1. A!Owed(eval[e]) \subseteq A!Fingerprints
    BY DEF A!Owed
  <2> QED
    BY <1>6, <2>1, MoreOpenKeeps DEF A!AlertsInv
<1>14. notify' \in [Notifier -> A!Delivery]
  BY <1>10, <1>11 DEF A!AlertsInv, A!TypeOK
<1> QED
  BY <1>6, <1>7, <1>8, <1>12, <1>13, <1>14 DEF A!AlertsInv, A!TypeOK

\* Every step of an evaluation, of a delivery and of the world keeps the invariant.
LEMMA AlertsStep ==
  ASSUME A!AlertsInv, A!Next \/ UNCHANGED alertVars
  PROVE  A!AlertsInv'
<1>f. \A f \in A!Fingerprints : alert[f].open => alert[f].open
  OBVIOUS
<1>g. <<"gateway_drift", "it">> \in A!Fingerprints /\ <<"task_failed", "it">> \in A!Fingerprints
  BY DEF A!Fingerprints
<1>1. ASSUME NEW w, A!Becomes(w), UNCHANGED <<settings, notify>>,
             NEW f \in A!Fingerprints, alert' = alert \/ alert' = A!Open(f)
      PROVE  A!AlertsInv'
  <2>1. \A g \in A!Fingerprints : alert[g].open => alert'[g].open
    BY <1>1, OpenRow DEF A!AlertsInv
  <2>2. eval' \in [Eval -> A!Evaluation] /\ \A e \in Eval : A!OnCourse(eval'[e], alert', world')
    BY <1>1, <2>1, BecomesKeeps
  <2> QED
    BY <1>1, <2>2, RowsKeep DEF A!AlertsInv, A!TypeOK
<1>2. CASE A!Changes
  <2>1. UNCHANGED <<settings, alert, notify>> /\ \E w : A!Becomes(w)
    BY <1>2 DEF A!Changes
  <2>2. PICK w : A!Becomes(w)
    BY <2>1
  <2>3. PICK f \in A!Fingerprints : TRUE
    BY <1>g
  <2> QED
    BY <1>1, <2>1, <2>2, <2>3
<1>3. CASE A!OpenDriftAlert
  <2>1. UNCHANGED <<settings, notify>> /\ alert' = A!Open(<<"gateway_drift", "it">>) /\ \E w : A!Becomes(w)
    BY <1>3 DEF A!OpenDriftAlert
  <2> QED
    BY <1>1, <1>g, <2>1
<1>4. CASE A!OpenTaskFailedAlert
  <2>1. /\ UNCHANGED <<settings, notify>> /\ (alert' = alert \/ alert' = A!Open(<<"task_failed", "it">>))
        /\ \E w : A!Becomes(w)
    BY <1>4 DEF A!OpenTaskFailedAlert
  <2> QED
    BY <1>1, <1>g, <2>1
<1>5. CASE A!actionAlertSettings \/ A!actionAlertChannels
  <2>1. UNCHANGED <<world, alert, eval, notify>>
    BY <1>5 DEF A!actionAlertSettings, A!actionAlertChannels
  <2>2. settings' \in [on : BOOLEAN, channels : SUBSET Channel]
    BY <1>5 DEF A!actionAlertSettings, A!actionAlertChannels, A!AlertsInv, A!TypeOK
  <2> QED
    BY <2>1, <2>2 DEF A!AlertsInv, A!TypeOK
<1>6. ASSUME NEW f \in A!Fingerprints, A!ResolveAlert(f) PROVE A!AlertsInv'
  <2>1. /\ UNCHANGED <<world, settings, notify>> /\ alert' = A!Resolve(f)
        /\ eval' = [e \in Eval |-> A!Excuse(eval[e], f)]
    BY <1>6 DEF A!ResolveAlert
  <2>2. \A g \in A!Fingerprints \ {f} : alert'[g] = alert[g]
    BY <2>1, ResolveRow DEF A!AlertsInv
  <2>3. ASSUME NEW e \in Eval PROVE eval'[e] \in A!Evaluation /\ A!OnCourse(eval'[e], alert', world)
    BY <2>1, <2>2, ExcuseKeeps DEF A!AlertsInv, A!TypeOK
  <2> QED
    BY <2>1, <2>3, RowsKeep DEF A!AlertsInv, A!TypeOK
<1>7. ASSUME NEW e \in Eval, A!Run(e) PROVE A!AlertsInv'
  <2>1. PICK n : n = [A!NoEval EXCEPT !.step = "read", !.open = {f \in A!Fingerprints : alert[f].open},
                        !.gone = A!Fingerprints \ A!Standing(world)]
    OBVIOUS
  <2>2. /\ UNCHANGED <<world, settings, alert, notify>> /\ eval' = [eval EXCEPT ![e] = n]
    BY <1>7, <2>1 DEF A!Run
  <2>3. n = [step |-> "read", kind |-> 1, open |-> {f \in A!Fingerprints : alert[f].open}, want |-> {}, left |-> {},
             skipped |-> {}, gone |-> A!Fingerprints \ A!Standing(world), excused |-> {}]
    BY <2>1 DEF A!NoEval
  <2>4. n \in A!Evaluation
    BY <2>3, SixKinds DEF A!Evaluation
  <2>5. n.step = "read" /\ n.gone = A!Fingerprints \ A!Standing(world) /\ A!Past(n) = {}
    BY <2>3, SixKinds DEF A!Past
  <2>6. A!OnCourse(n, alert, world)
    BY <2>5 DEF A!OnCourse
  <2> QED
    BY <2>2, <2>4, <2>6 DEF A!AlertsInv, A!TypeOK
<1>8. ASSUME NEW e \in Eval, A!Read(e) PROVE A!AlertsInv'
  BY <1>8, ReadKeeps DEF A!Read, A!AlertsInv, A!TypeOK
<1>9. ASSUME NEW e \in Eval, A!reconcile(e) PROVE A!AlertsInv'
  <2>1. eval[e] \in A!Evaluation /\ A!OnCourse(eval[e], alert, world) /\ eval[e].step \in {"open", "resolve"}
    BY <1>9 DEF A!reconcile, A!AlertsInv, A!TypeOK
  <2>2. ASSUME NEW f \in eval[e].left,
               alert' = IF eval[e].step = "open" THEN A!Open(f) ELSE A!Resolve(f),
               eval' = [d \in Eval |->
                 IF d = e THEN A!Proceed([eval[e] EXCEPT !.left = @ \ {f}])
                 ELSE IF eval[e].step = "resolve" THEN A!Excuse(eval[d], f)
                 ELSE eval[d]]
        PROVE  A!AlertsInv'
    <3>1. f \in A!Fingerprints
      BY <2>1 DEF A!Evaluation
    <3>2. UNCHANGED <<world, settings, notify>>
      BY <1>9 DEF A!reconcile
    <3>3. eval' \in [Eval -> A!Evaluation] /\ \A d \in Eval : A!OnCourse(eval'[d], alert', world')
      BY <2>1, <2>2, <3>2, StatementKeeps
    <3> QED
      BY <2>2, <3>1, <3>2, <3>3, RowsKeep DEF A!AlertsInv, A!TypeOK
  <2>3. ASSUME eval' = [eval EXCEPT ![e] = A!NextKind([eval[e] EXCEPT !.skipped = @ \cup {A!Kinds[eval[e].kind]}])],
               UNCHANGED alert
        PROVE  A!AlertsInv'
    <3>1. UNCHANGED <<world, settings, notify>>
      BY <1>9 DEF A!reconcile
    <3>2. PICK n : n = A!NextKind([eval[e] EXCEPT !.skipped = @ \cup {A!Kinds[eval[e].kind]}])
      OBVIOUS
    <3>3. n \in A!Evaluation /\ A!OnCourse(n, alert, world)
      BY <2>1, <3>2, SkippedKeeps
    <3>4. eval' = [eval EXCEPT ![e] = n]
      BY <2>3, <3>2
    <3> QED
      BY <2>3, <3>1, <3>3, <3>4 DEF A!AlertsInv, A!TypeOK
  <2>4. \/ \E f \in eval[e].left :
             /\ alert' = IF eval[e].step = "open" THEN A!Open(f) ELSE A!Resolve(f)
             /\ eval' = [d \in Eval |->
                  IF d = e THEN A!Proceed([eval[e] EXCEPT !.left = @ \ {f}])
                  ELSE IF eval[e].step = "resolve" THEN A!Excuse(eval[d], f)
                  ELSE eval[d]]
        \/ /\ eval' = [eval EXCEPT ![e] = A!NextKind([eval[e] EXCEPT !.skipped = @ \cup {A!Kinds[eval[e].kind]}])]
           /\ UNCHANGED alert
    BY <1>9 DEF A!reconcile
  <2> QED
    BY <2>2, <2>3, <2>4
<1>10. ASSUME NEW e \in Eval, A!Ended(e) PROVE A!AlertsInv'
  BY <1>10, IdleKeeps DEF A!Ended, A!AlertsInv, A!TypeOK
<1>11. ASSUME NEW n \in Notifier, A!Deliver(n) PROVE A!AlertsInv'
  BY <1>11, DeliverKeeps
<1>12. ASSUME NEW n \in Notifier, A!Send(n) PROVE A!AlertsInv'
  BY <1>12, SendKeeps
<1>13. ASSUME NEW n \in Notifier, A!Mark(n) PROVE A!AlertsInv'
  BY <1>13, MarkKeeps
<1>14. ASSUME NEW n \in Notifier, A!DeliveryDies(n) PROVE A!AlertsInv'
  BY <1>14, IdleKeeps DEF A!DeliveryDies, A!AlertsInv, A!TypeOK
<1>15. CASE UNCHANGED alertVars
  BY <1>15 DEF alertVars, A!AlertsInv, A!TypeOK
<1> QED
  BY <1>2, <1>3, <1>4, <1>5, <1>6, <1>7, <1>8, <1>9, <1>10, <1>11, <1>12, <1>13, <1>14, <1>15 DEF A!Next

\* What an evaluation resolves, it saw gone while it ran; nothing is resolved on missing
\* data, and what two evaluations do to each other does not matter (worker/alerts.go).
THEOREM OnlyWhatIsGoneIsResolved == Spec => ResolvedOnlyIfGone
<1>1. A!AlertsInv /\ [Next]_vars => A!AlertsInv'
  BY StepOfADuty, AlertsStep
<1>2. A!AlertsInv /\ [Next]_vars =>
        [\A e \in Eval, f \in A!Fingerprints :
           eval[e].step = "resolve" /\ f \in eval[e].left \ eval'[e].left /\ alert'[f] # alert[f]
             => f \in eval[e].gone]_(A!vars)
  BY DEF A!AlertsInv, A!OnCourse
<1> QED
  BY AlertsStart, <1>1, <1>2, PTL DEF Spec, ResolvedOnlyIfGone, A!ResolvedOnlyIfGone

\* A condition that was there from the start of an evaluation to its end has an open alert
\* then, unless its rule was skipped or somebody closed the alert (worker/alerts.go).
THEOREM StandingConditionsAreAlerted == Spec => []StandingConditionsAreOpen
<1>1. A!AlertsInv /\ [Next]_vars => A!AlertsInv'
  BY StepOfADuty, AlertsStep
<1>2. A!AlertsInv => StandingConditionsAreOpen
  <2> SUFFICES ASSUME A!AlertsInv, NEW e \in Eval, eval[e].step = "done",
                      NEW f \in A!Standing(world) \ (eval[e].gone \cup eval[e].excused),
                      f[1] \notin A!Hooked \cup eval[e].skipped
               PROVE  alert[f].open
    BY DEF StandingConditionsAreOpen, A!StandingConditionsAreOpen
  <2>1. f \in A!Owed(eval[e])
    BY StandingIsNamed DEF A!Owed
  <2>2. f[1] \in A!Past(eval[e])
    <3>1. \E k \in DOMAIN A!Kinds : f[1] = A!Kinds[k]
      BY SixKinds DEF A!Kinds, A!Standing, A!offlineMachines, A!failedRollouts, A!offboardCleanup, A!budgets,
         A!gatewayDrift, A!tasksGivenUp
    <3> QED
      BY <3>1 DEF A!Past
  <2> QED
    BY <2>1, <2>2 DEF A!AlertsInv, A!OnCourse
<1> QED
  BY AlertsStart, <1>1, <1>2, PTL DEF Spec

\* An alert that counts as told was taken by every channel there was, and not in an
\* earlier spell of the same condition (worker/notify.go, dbstore/alerts.go).
THEOREM ToldChannelsHeard == Spec => []ToldMeansHeard
<1>1. A!AlertsInv /\ [Next]_vars => A!AlertsInv'
  BY StepOfADuty, AlertsStep
<1>2. A!AlertsInv => ToldMeansHeard
  BY DEF ToldMeansHeard, A!ToldMeansHeard, A!AlertsInv
<1> QED
  BY AlertsStart, <1>1, <1>2, PTL DEF Spec

-----------------------------------------------------------------------------
(* The exports: what DeliveryProofs proves of them, for this instance. *)

D == INSTANCE DeliveryProofs WITH
       Staff <- Employee, Desks <- {}, Present <- {ua}, Coders <- {}, Channels <- {"oss"}, MaxRestarts <- 0,
       MaxEvents <- 3

\* D instantiates what X does: what the console does is the same in both.
LEMMA SameConsole == X!Console => D!Console
BY DEF
       X!Open, X!Event, X!Decision, X!ReplaceExports, X!NameIsFree, X!Onboard, X!Reissue, X!StoreToken,
       X!Offboard, X!Delete, X!Crossing, X!MoveExports, X!BindMachine, X!UnbindMachine, X!ForgetMachine,
       X!RequestCodexRestart, X!SwitchChannel, X!Console, X!EmployeeJob, X!DeviceJob, X!Nonce, X!storeVars,
       X!deskVars, X!countVars, D!Open, D!Event, D!Decision, D!ReplaceExports, D!NameIsFree, D!Onboard,
       D!Reissue, D!StoreToken, D!Offboard, D!Delete, D!Crossing, D!MoveExports, D!BindMachine,
       D!UnbindMachine, D!ForgetMachine, D!RequestCodexRestart, D!SwitchChannel, D!Console, D!EmployeeJob,
       D!DeviceJob, D!Nonce, D!storeVars, D!deskVars, D!countVars

\* What the loops do is the same, and what happens to them.
LEMMA SameLoops ==
  /\ \A w \in Worker : X!Claim(w) \/ X!Work(w) => D!Claim(w) \/ D!Work(w)
  /\ X!Trouble => D!Trouble
BY DEF X!Trouble, D!Trouble,
       X!MishapKinds, X!Event, X!Mishap, X!Open, X!Nothing, X!Absent, X!NoJob, X!Idle, X!Build,
       X!Deliverable, X!Go, X!Requeued, X!LockFree, X!Claim, X!Publish, X!NextBinding, X!WriteBinding,
       X!Commit, X!Work, X!Lapse, X!FailWrite, X!RefuseExport, X!CrashConsole, X!consoleVars, X!storeVars,
       X!deskVars, X!pastVars, X!exportFrame, D!MishapKinds, D!Event, D!Mishap, D!Open, D!Nothing, D!Absent, D!NoJob,
       D!Idle, D!Build, D!Deliverable, D!Go, D!Requeued, D!LockFree, D!Claim, D!Publish, D!NextBinding,
       D!WriteBinding, D!Commit, D!Work, D!Lapse, D!FailWrite, D!RefuseExport, D!CrashConsole, D!consoleVars,
       D!storeVars, D!deskVars, D!pastVars, D!exportFrame

\* No agent runs here, so every step is one of those.
LEMMA SameStep == X!Next => D!Next
BY SameConsole, SameLoops DEF X!Next, D!Next, X!People

\* They start alike.
LEMMA SameStart == X!Init => D!Init
BY DEF X!Init, D!Init, X!Nothing, D!Nothing, X!Idle, D!Idle, X!NoJob, D!NoJob, X!Absent, D!Absent,
       X!NewAgent, D!NewAgent, X!NoMark, D!NoMark, X!Nonce, D!Nonce

\* While the bucket's channel has never been off, what is left alone says what the database
\* says, in whatever order the exports of any number of loops ran (worker/export.go).
THEOREM ExportsSettleOnThePresent == Spec => []SettledMeansCurrent
<1>a. D!Assumptions
  BY DutiesAssumption DEF X!Assumptions, D!Assumptions, X!MishapKinds, D!MishapKinds
<1>1. Init => D!ExportInv
  BY <1>a, SameStart, D!ExportStart DEF Init
<1>2. D!ExportInv /\ [Next]_vars => D!ExportInv'
  <2> SUFFICES ASSUME D!ExportInv, [Next]_vars PROVE D!ExportInv'
    OBVIOUS
  <2>1. X!Next \/ UNCHANGED exportVars
    BY DEF Next, OneMachine, vars
  <2>2. [D!Next]_(D!vars)
    BY <2>1, SameStep DEF exportVars, D!vars, D!consoleVars, D!storeVars, D!deskVars, D!countVars, D!pastVars
  <2> QED
    BY <1>a, <2>2, D!ExportStep
<1>3. D!ExportInv => SettledMeansCurrent
  <2>1. D!ExportInv => D!SettledMeansCurrent
    BY <1>a, D!ExportMeansCurrent
  <2> QED
    BY <2>1 DEF SettledMeansCurrent, X!SettledMeansCurrent, D!SettledMeansCurrent, X!Unsettled, D!Unsettled,
       X!Queued, D!Queued, X!Build, D!Build, X!Absent, D!Absent, X!OwnName, D!OwnName, X!Deliverable, D!Deliverable,
       X!Open, D!Open, X!Nothing, D!Nothing
<1> QED
  BY <1>1, <1>2, <1>3, PTL DEF Spec
=============================================================================
