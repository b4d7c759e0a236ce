------------------------------ MODULE Tickets ------------------------------
(***************************************************************************)
(* One ticket, from its form to its end: customers and administrators who  *)
(* act from pages that may be old (adminweb/tickets.go), and the           *)
(* transactions that take what they send (dbstore/tickets.go and its       *)
(* ticket_*.go).  A handler's own looks at the session and at the ticket   *)
(* are fresher than the page and older than the transaction, which checks  *)
(* the page's version: look and transaction are one step here.  Texts and  *)
(* form fields are left out, and customers' sessions and passwords.        *)
(*                                                                         *)
(* A definition marked "Slip" is not part of the model: it is what a       *)
(* plausible mistake would make of the definition after it.                *)
(***************************************************************************)
EXTENDS Naturals, Sequences, SequencesExt

CONSTANTS
  Contact,      \* customer contacts
  Manager,      \* those that are created as managers
  Admin,        \* administrators and operators, who may do the same here
  Nobody,       \* the owner of an internal ticket
  Kinds,        \* the request kinds that are made
  MaxVersion,   \* bound: changes of the ticket
  MaxMove       \* bound: changes of the contacts

TicketsAssumption ==
  /\ Nobody \notin Contact /\ Manager \subseteq Contact /\ Contact \cap Admin = {}
  /\ Kinds \subseteq {"account-delete", "quota", "problem", "environment"}
  /\ MaxVersion \in Nat /\ MaxMove \in Nat

Role == {"manager", "employee"}
Status == {"none", "new", "working", "waiting_customer", "done", "closed"}

VARIABLES
  contacts,    \* customer_contacts: role and disabled_at
  ticket,      \* the row of tickets
  last,        \* the latest of its events, and whether its author saw the ticket as it was
  word,        \* who spoke last in public
  proposals,   \* ticket_proposals with their decisions
  changes,     \* ticket_change_entries
  page,        \* the version of the ticket that a person's page shows: 0 is none, and
               \* 1 stands for every version that has been overtaken
  moves        \* counter for the bound

people == <<contacts, moves>>
paper == <<ticket, last, word, proposals, changes>>
vars == <<contacts, ticket, last, word, proposals, changes, page, moves>>

NoTicket == [status |-> "none", kind |-> "none", owner |-> Nobody, version |-> 0, request |-> 0]

Init ==
  /\ contacts = [c \in Contact |-> [role |-> IF c \in Manager THEN "manager" ELSE "employee", disabled |-> FALSE]]
  /\ ticket = NoTicket
  /\ last = [public |-> FALSE, saw |-> FALSE]
  /\ word = "none"
  /\ proposals = <<>> /\ changes = <<>>
  /\ page = [p \in Contact \cup Admin |-> 0]
  /\ moves = 0

-----------------------------------------------------------------------------
(* Contacts                                                                *)

Move == moves < MaxMove /\ moves' = moves + 1
Fresh == ticket.version < MaxVersion   \* bound

SetContactDisabled(c, disabled) ==
  /\ Move
  /\ contacts' = [contacts EXCEPT ![c].disabled = disabled]
  /\ UNCHANGED <<paper, page>>

SetContactRole(c, role) ==
  /\ Move
  /\ contacts' = [contacts EXCEPT ![c].role = role]
  /\ UNCHANGED <<paper, page>>

-----------------------------------------------------------------------------
(* Pages                                                                   *)

\* Whoever is not disabled can have a session.
customerSession(c) == ~contacts[c].disabled

GetForContact(c) ==
  /\ ticket.owner # Nobody
  /\ ticket.owner = c \/ contacts[c].role = "manager"

Readers == Admin \cup {c \in Contact : customerSession(c) /\ GetForContact(c)}

OpenPage(p) ==
  /\ ticket.version > 0 /\ p \in Readers
  /\ page' = [page EXCEPT ![p] = ticket.version]
  /\ UNCHANGED <<people, paper>>

-----------------------------------------------------------------------------
(* The transactions                                                        *)

Needs(t, w) ==
  \/ t.status = "new"
  \/ t.status = "working" /\ t.owner # Nobody /\ w = "customer"
NeedsAction == Needs(ticket, word)

\* An event is kept with its author; only a public one counts as a word.
SlipRecord(actor, public, version) ==
  /\ last' = [public |-> public, saw |-> version = ticket.version]
  /\ word' = actor
Record(actor, public, version) ==
  /\ last' = [public |-> public, saw |-> version = ticket.version]
  /\ word' = IF public THEN actor ELSE word

\* The pages that a change has overtaken are all refused alike.
Overtaken ==
  page' = [p \in DOMAIN page |->
             IF page[p] = 0 \/ ticket'.version = ticket.version THEN page[p] ELSE 1]

Advance(status) == ticket' = [ticket EXCEPT !.status = status, !.version = @ + 1]

create(owner, kind) ==
  /\ ticket.version = 0
  /\ ticket' = [status |-> "new", kind |-> kind, owner |-> owner, version |-> 1, request |-> 1]
  /\ Record(IF owner = Nobody THEN "admin" ELSE "customer", TRUE, 0)
  /\ UNCHANGED <<proposals, changes>>

validTicketTransition(from, to, actor) ==
  \/ from = to
  \/ /\ actor = "customer"
     /\ <<from, to>> \in {<<"waiting_customer", "working">>, <<"done", "new">>, <<"done", "closed">>,
                          <<"new", "closed">>}
  \/ /\ actor = "admin"
     /\ <<from, to>> \in {<<"new", "working">>, <<"new", "waiting_customer">>, <<"new", "closed">>,
                          <<"working", "waiting_customer">>, <<"working", "done">>, <<"working", "closed">>,
                          <<"waiting_customer", "working">>, <<"waiting_customer", "closed">>,
                          <<"done", "new">>, <<"done", "closed">>}

\* The latest proposal is the one that counts.
SlipApproved == \E i \in DOMAIN proposals : proposals[i].decision = "approved"
Approved == proposals # <<>> /\ Last(proposals).decision = "approved"

AddEvent(actor, kind, public, next, version) ==
  /\ version = ticket.version
  /\ validTicketTransition(ticket.status, next, actor)
  /\ ~(kind = "comment" /\ ticket.status = "closed")
  /\ next = "done" /\ ticket.kind \in {"account-delete", "quota"} => Approved
  /\ Advance(next)
  /\ Record(actor, public, version)
  /\ UNCHANGED <<proposals, changes>>

UpdateDailyRequest(c, version) ==
  /\ ticket.owner = c /\ version = ticket.version /\ ticket.status = "new"
  /\ ticket.kind # "environment"
  /\ ticket' = [ticket EXCEPT !.version = @ + 1, !.request = @ + 1]
  /\ Record("customer", TRUE, version)
  /\ UNCHANGED <<proposals, changes>>

SaveProposal(version, manager) ==
  /\ ticket.kind \in {"account-delete", "quota"}
  /\ ticket.status \notin {"done", "closed"} /\ version = ticket.version
  /\ proposals' = Append(proposals, [manager |-> manager, decision |-> "none", by |-> Nobody, role |-> "employee"])
  /\ Advance("waiting_customer")
  /\ Record("admin", TRUE, version)
  /\ UNCHANGED changes

\* The page may name any proposal: it reads the row first and the proposal after.
DecideProposal(c, version, id, decision) ==
  /\ ticket.owner # Nobody
  /\ version = ticket.version /\ ticket.status = "waiting_customer"
  /\ ~contacts[c].disabled
  /\ id = Len(proposals)
  /\ IF proposals[id].manager THEN contacts[c].role = "manager"
     ELSE ticket.owner = c \/ contacts[c].role = "manager"
  /\ proposals[id].decision = "none"
  /\ proposals' = [proposals EXCEPT ![id].decision = decision, ![id].by = c, ![id].role = contacts[c].role]
  /\ Advance("working")
  /\ Record("customer", TRUE, version)
  /\ UNCHANGED changes

SaveChangeImplementation(version, stage) ==
  /\ ticket.kind = "environment" /\ ticket.status # "closed"
  /\ version = ticket.version
  /\ changes' = Append(changes, [kind |-> "implementation", stage |-> stage])
  /\ Advance(ticket.status)
  /\ Record("admin", TRUE, version)
  /\ UNCHANGED proposals

\* The result waits when the latest entry is an implementation that says so:
\* the latest confirmation is then older than it.
ConfirmChangeResult(c, version) ==
  /\ ticket.owner = c
  /\ ticket.kind = "environment" /\ ticket.status # "closed"
  /\ version = ticket.version
  /\ changes # <<>> /\ Last(changes) = [kind |-> "implementation", stage |-> "waiting_customer_result"]
  /\ changes' = Append(changes, [kind |-> "confirmation", stage |-> "none"])
  /\ Advance(ticket.status)
  /\ Record("customer", TRUE, version)
  /\ UNCHANGED proposals

-----------------------------------------------------------------------------
(* Administrators                                                          *)

CreateByAdmin(kind) ==
  /\ create(Nobody, kind)
  /\ UNCHANGED <<people, page>>

\* Assigning, linking a subject and linking a task: internal events; the last
\* looks at no version and moves none.
Assign(version) ==
  /\ version = ticket.version
  /\ Advance(ticket.status)
  /\ Record("admin", FALSE, version)
  /\ UNCHANGED <<proposals, changes>>

LinkTask(version) ==
  /\ ticket.version > 0
  /\ Record("admin", FALSE, version)
  /\ UNCHANGED <<ticket, proposals, changes>>

actionTicket(a) ==
  /\ page[a] > 0 /\ Fresh
  /\ \/ \E manager \in BOOLEAN :
          /\ ticket.kind = "account-delete" => manager
          /\ SaveProposal(page[a], manager)
     \/ \E stage \in {"executing", "waiting_customer_result"} : SaveChangeImplementation(page[a], stage)
     \/ \E public \in BOOLEAN : AddEvent("admin", "comment", public, ticket.status, page[a])
     \/ \E next \in Status \ {"none"} : AddEvent("admin", "status", TRUE, next, page[a])
     \/ Assign(page[a])
     \/ LinkTask(page[a])
  /\ Overtaken
  /\ UNCHANGED people

-----------------------------------------------------------------------------
(* Customers                                                               *)

\* What the ticket becomes by a plain reply.
AfterReply(status) ==
  IF status = "waiting_customer" THEN "working" ELSE IF status = "done" THEN "new" ELSE status

\* Cancel, ask to cancel, confirm the result, or just reply.
handleCustomerReply(c, status, version) ==
  /\ ticket.owner = c
  /\ \/ status = "new" /\ AddEvent("customer", "status", TRUE, "closed", version)
     \/ status \in {"working", "waiting_customer"} /\ AddEvent("customer", "comment", TRUE, "working", version)
     \/ status = "done" /\ ticket.kind # "environment" /\ AddEvent("customer", "status", TRUE, "closed", version)
     \/ AddEvent("customer", "comment", TRUE, AfterReply(status), version)

\* Only managers ask for accounts to be changed, and for the older forms.
MayAsk(c, kind) == kind \in {"account-delete", "environment"} => contacts[c].role = "manager"

handleCustomerCreateTicket(c, kind) ==
  /\ customerSession(c) /\ MayAsk(c, kind)
  /\ create(c, kind)
  /\ UNCHANGED <<people, page>>

customerPost(c) ==
  /\ customerSession(c) /\ page[c] > 0 /\ Fresh
  /\ \/ MayAsk(c, ticket.kind) /\ UpdateDailyRequest(c, page[c])
     \/ handleCustomerReply(c, ticket.status, page[c])
     \/ \E id \in DOMAIN proposals, d \in {"approved", "rejected"} : DecideProposal(c, page[c], id, d)
     \/ ConfirmChangeResult(c, page[c])
  /\ Overtaken
  /\ UNCHANGED people

-----------------------------------------------------------------------------
Next ==
  \/ \E c \in Contact :
       \/ \E disabled \in BOOLEAN : SetContactDisabled(c, disabled)
       \/ \E role \in Role : SetContactRole(c, role)
       \/ customerPost(c)
       \/ \E kind \in Kinds : handleCustomerCreateTicket(c, kind)
  \/ \E p \in Contact \cup Admin : OpenPage(p)
  \/ \E kind \in Kinds : CreateByAdmin(kind)
  \/ \E a \in Admin : actionTicket(a)

Spec == Init /\ [][Next]_vars

-----------------------------------------------------------------------------
Owner == Contact \cup {Nobody}

TypeOK ==
  /\ contacts \in [Contact -> [role : Role, disabled : BOOLEAN]]
  /\ ticket \in [status : Status, kind : Kinds \cup {"none"}, owner : Owner, version : Nat, request : Nat]
  /\ last \in [public : BOOLEAN, saw : BOOLEAN]
  /\ word \in {"none", "admin", "customer"}
  /\ proposals \in Seq([manager : BOOLEAN, decision : {"none", "approved", "rejected"}, by : Owner, role : Role])
  /\ page \in [Contact \cup Admin -> Nat]
  /\ moves \in Nat

\* What AddEvent asks before it lets a ticket be done: an account is deleted, or
\* a quota raised, only by the latest proposal, which somebody entitled to it
\* has approved: a manager where the proposal asks for one, else the owner or
\* a manager.
DoneIsAgreed ==
  ticket.status = "done" /\ ticket.kind \in {"account-delete", "quota"} =>
    /\ proposals # <<>>
    /\ LET p == Last(proposals) IN
       /\ p.decision = "approved"
       /\ p.role = "manager" \/ (~p.manager /\ p.by = ticket.owner)

\* dbstore/tickets.go:347-349: "Private notes and assignment changes must not
\* clear that signal", nor may a page that is older than the customer's word:
\* a customer who waits stops waiting only when somebody who has seen the
\* ticket as it is says something in public.
CustomerIsHeard ==
  [][NeedsAction /\ ticket.status # "new" /\ ~Needs(ticket', word') =>
       last'.public /\ last'.saw]_vars

\* Why a done ticket is agreed: nobody but somebody entitled approves, the owner
\* stays the owner, and nothing is proposed while the ticket is done or before it is made.
TicketInv ==
  /\ TypeOK
  /\ ticket.version = 0 => ticket.status = "none" /\ proposals = <<>>
  /\ \A i \in DOMAIN proposals :
       proposals[i].decision = "approved" =>
         proposals[i].role = "manager" \/ (~proposals[i].manager /\ proposals[i].by = ticket.owner)
  /\ ticket.status = "done" /\ ticket.kind \in {"account-delete", "quota"} => Approved
=============================================================================
