------------------------------- MODULE Billing -------------------------------
(* The billing columns of one business.  Messages that were sent deduct     *)
(* credits and report overage to Stripe (track_message_sent); webhook       *)
(* deliveries grant credits and overwrite the subscription.  Stripe sells   *)
(* through the links the program creates, emits events, delivers each until *)
(* it is answered with 200, in any order, and may deliver one again.        *)
(*                                                                          *)
(* A sender has flushed its message before it reads the business and so     *)
(* holds SQLite's write lock; a webhook handler reads without it.  A commit *)
(* writes the columns whose value the session changed.                      *)
EXTENDS Integers, Sequences, FiniteSets

CONSTANTS
  Senders,      \* sessions that send messages
  Hooks,        \* sessions of the Stripe webhook
  Nobody,       \* the lock is free
  Sold,         \* what the owner may buy: "seat", "addon", "messaging"
  Subs,         \* subscriptions Stripe may create
  Metered,      \* those to which the operator has added the messaging price
  Customers,    \* customers Stripe may create
  NoSub,
  NoCustomer,
  Pack,         \* credits of a top-up and of a month (1000)
  InOrder,      \* whether Stripe delivers an event only after the earlier ones
  MaxLinks,     \* bound: links the owner holds unpaid
  MaxQuantity,  \* bound: segments of one message
  MaxSent,      \* bound: segments sent in all
  MaxEvents,    \* bound: events
  MaxFaults     \* bound: failing calls, and deliveries of what is already answered or in hand

ASSUME BillingAssumption ==
  /\ Senders \cap Hooks = {} /\ Nobody \notin Senders \cup Hooks
  /\ Sold \subseteq {"seat", "addon", "messaging"} /\ Metered \subseteq Subs /\ NoSub \notin Subs /\ NoCustomer \notin Customers
  /\ InOrder \in BOOLEAN /\ Pack \in Nat /\ MaxLinks \in Nat /\ MaxQuantity \in Nat /\ MaxSent \in Nat
  /\ MaxEvents \in Nat /\ MaxFaults \in Nat

Sessions == Senders \cup Hooks

VARIABLES
  row,        \* the committed billing columns of the business
  lock,       \* the sender that holds the database's write lock
  sess,       \* sess[w]: where session w stands, its quantity or event, the row it read and will write
  links,      \* payment links nobody has paid yet
  subs,       \* subs[s]: subscription s as Stripe has it
  events,     \* the events Stripe has emitted
  answered,   \* the events answered with 200
  sent,       \* segments the providers accepted
  reported,   \* segments reported to Stripe as overage
  granted,    \* credits granted by committed deliveries
  faults      \* counts failing calls and repeated deliveries

vars == <<row, lock, sess, links, subs, events, answered, sent, reported,
          granted, faults>>
stripeVars == <<links, subs, events>>

\* Of the scopes a new business starts with, the one an addon is sold for.
NewBusiness == [customer |-> NoCustomer, subscription |-> NoSub, status |-> "free",
                seats |-> 1, addons |-> {"campaigns"}, credits |-> 0, count |-> 0]

Idle == [pc |-> "idle", arg |-> 0, seen |-> NewBusiness, new |-> NewBusiness]

Init ==
  /\ row = NewBusiness
  /\ lock = Nobody
  /\ sess = [w \in Sessions |-> Idle]
  /\ links = {}
  /\ subs = [s \in Subs |-> [item |-> "none", customer |-> NoCustomer, status |-> "none"]]
  /\ events = <<>>
  /\ answered = {}
  /\ sent = 0 /\ reported = 0 /\ granted = 0 /\ faults = 0

Open(w, pc, arg, new) ==
  sess' = [sess EXCEPT ![w] = [pc |-> pc, arg |-> arg, seen |-> row, new |-> new]]
Goto(w, pc) == sess' = [sess EXCEPT ![w].pc = pc]
Close(w) == sess' = [sess EXCEPT ![w] = Idle]
Fault == faults < MaxFaults /\ faults' = faults + 1

\* The row after the commit of session w: the columns it changed, over the
\* row as other sessions have left it.
Flushed(w) ==
  [c \in DOMAIN row |->
     IF sess[w].new[c] = sess[w].seen[c] THEN row[c] ELSE sess[w].new[c]]

-----------------------------------------------------------------------------
(* Stripe and the owner who pays *)

Event(type, customer, sub, item, status) ==
  [type |-> type, customer |-> customer, sub |-> sub, item |-> item, status |-> status]

\* The owner asks for an upgrade: the link carries the customer known so far.
RequestLink(item) ==
  /\ links' = links \cup {[item |-> item, customer |-> row.customer]}
  /\ links' # links /\ Cardinality(links') <= MaxLinks /\ Len(events) < MaxEvents
  /\ UNCHANGED <<row, lock, sess, subs, events, answered, sent, reported, granted, faults>>

\* A payment without a customer stays without one, a subscription creates one.
CustomersFor(link) ==
  IF link.customer # NoCustomer \/ link.item = "messaging" THEN {link.customer}
  ELSE Customers \ {subs[s].customer : s \in Subs}

Pay(link) ==
  /\ \E c \in CustomersFor(link) :
       IF link.item = "messaging"
         THEN /\ events' = Append(events, Event("checkout", c, NoSub, "messaging", "paid"))
              /\ UNCHANGED subs
         ELSE \E s \in {x \in Subs : subs[x].status = "none"} :
              /\ subs' = [subs EXCEPT ![s] = [item |-> link.item, customer |-> c, status |-> "active"]]
              /\ events' = Append(Append(events, Event("checkout", c, s, link.item, "active")),
                                  Event("updated", c, s, link.item, "active"))
  /\ Len(events') <= MaxEvents
  /\ links' = links \ {link}
  /\ UNCHANGED <<row, lock, sess, answered, sent, reported, granted, faults>>

\* A subscription ends, or its next invoice is created.
Cancel(s) ==
  /\ subs[s].status = "active"
  /\ subs' = [subs EXCEPT ![s].status = "canceled"]
  /\ events' = Append(events, Event("deleted", subs[s].customer, s, subs[s].item, "canceled"))

Invoice(s) ==
  /\ subs[s].status = "active"
  /\ events' = Append(events, Event("invoice", subs[s].customer, s, subs[s].item, "open"))
  /\ UNCHANGED subs

Renew(s) ==
  /\ Cancel(s) \/ Invoice(s)
  /\ Len(events) < MaxEvents
  /\ UNCHANGED <<row, lock, sess, links, answered, sent, reported, granted, faults>>

-----------------------------------------------------------------------------
(* Webhook deliveries *)

\* The business by the metadata of a checkout, else by its customer.
Found(e) == e.type = "checkout" \/ row.customer = e.customer

CheckoutKeepsEventStatus(e) ==
  [row EXCEPT !.customer = e.customer, !.status = e.status]

CheckoutCompleted(e) ==
  IF e.sub = NoSub
    THEN [row EXCEPT !.customer = e.customer]
    ELSE [row EXCEPT !.customer = e.customer, !.subscription = e.sub, !.status = "active"]

\* All of it comes from the one subscription of the event.
SubscriptionUpdated(e) ==
  [row EXCEPT !.status = e.status,
              !.seats = IF e.item = "seat" THEN 2 ELSE 1,
              !.addons = IF e.item = "addon" THEN {"campaign_messaging"} ELSE {}]

WithPack(r) == [r EXCEPT !.credits = @ + Pack]
InvoiceCreated == [WithPack(row) EXCEPT !.count = 0]

Handled(e) ==
  CASE e.type = "checkout" -> CheckoutCompleted(e)
    [] e.type = "invoice" -> InvoiceCreated
    [] OTHER -> SubscriptionUpdated(e)

\* Nobody handles event i and it has not been answered with 200.
Due(i) == i \notin answered /\ \A h \in Hooks : sess[h].pc # "idle" => sess[h].arg # i

Receive(h, i) ==
  /\ sess[h].pc = "idle"
  /\ InOrder => 1..(i - 1) \subseteq answered
  /\ (Due(i) /\ UNCHANGED faults) \/ (~Due(i) /\ Fault)
  /\ IF Found(events[i])
       THEN /\ Open(h, IF events[i].item = "messaging" THEN "items" ELSE "commit",
                    i, Handled(events[i]))
            /\ UNCHANGED answered
       ELSE answered' = answered \cup {i} /\ UNCHANGED sess
  /\ UNCHANGED <<row, lock, stripeVars, sent, reported, granted>>

\* The line items tell a top-up from other payments; an error is only logged.
LineItems(h) ==
  /\ sess[h].pc = "items"
  /\ \/ /\ sess' = [sess EXCEPT ![h].pc = "commit", ![h].new = WithPack(@)]
        /\ UNCHANGED faults
     \/ Goto(h, "commit") /\ Fault
  /\ UNCHANGED <<row, lock, stripeVars, answered, sent, reported, granted>>

HookCommits(h) ==
  /\ sess[h].pc = "commit"
  /\ lock = Nobody \/ sess[h].new = sess[h].seen
  /\ row' = Flushed(h)
  /\ granted' = IF sess[h].new.credits = sess[h].seen.credits THEN granted ELSE granted + Pack
  /\ answered' = answered \cup {sess[h].arg}
  /\ Close(h)
  /\ UNCHANGED <<lock, stripeVars, sent, reported, faults>>

\* An exception, or a sender holds the lock for longer than SQLite waits: 500.
HookFails(h) ==
  /\ sess[h].pc # "idle"
  /\ (sess[h].pc = "commit" /\ lock # Nobody /\ UNCHANGED faults) \/ Fault
  /\ Close(h)
  /\ UNCHANGED <<row, lock, stripeVars, answered, sent, reported, granted>>

-----------------------------------------------------------------------------
(* Messages *)

Positive(n) == IF n > 0 THEN n ELSE 0
BillableDebtToo(q, credits) == Positive(q - credits)
Billable(q, credits) == Positive(q - Positive(credits))

WithoutLock(s) == UNCHANGED lock
TakeLock(s) == lock = Nobody /\ lock' = s

OverageTwice(q) == [row EXCEPT !.credits = @ - q - Billable(q, @), !.count = @ + q]
Deducted(q) == [row EXCEPT !.credits = @ - q, !.count = @ + q]

\* The provider has accepted q segments; the flush of the message takes the
\* lock.  Only an overage of a subscription with a messaging item is reported.
TrackMessageSent(s, q) ==
  /\ sess[s].pc = "idle"
  /\ sent + q <= MaxSent
  /\ TakeLock(s)
  /\ sent' = sent + q
  /\ Open(s, IF Billable(q, row.credits) > 0 /\ row.subscription \in Metered
               THEN "report" ELSE "commit",
          q, Deducted(q))
  /\ UNCHANGED <<row, stripeVars, answered, reported, granted, faults>>

\* An error of the call is swallowed, and Stripe may have counted nevertheless.
Report(s) ==
  /\ sess[s].pc = "report"
  /\ LET more == reported + Billable(sess[s].arg, sess[s].seen.credits) IN
       \/ reported' = more /\ UNCHANGED faults
       \/ reported' \in {reported, more} /\ Fault
  /\ Goto(s, "commit")
  /\ UNCHANGED <<row, lock, stripeVars, answered, sent, granted>>

SenderCommits(s) ==
  /\ sess[s].pc = "commit"
  /\ row' = Flushed(s)
  /\ lock' = Nobody
  /\ Close(s)
  /\ UNCHANGED <<stripeVars, answered, sent, reported, granted, faults>>

ForgetRollback == UNCHANGED lock
Rollback == lock' = Nobody

SenderFails(s) ==
  /\ sess[s].pc # "idle"
  /\ Fault
  /\ Rollback
  /\ Close(s)
  /\ UNCHANGED <<row, stripeVars, answered, sent, reported, granted>>

-----------------------------------------------------------------------------
HookStep(h) == LineItems(h) \/ HookCommits(h) \/ HookFails(h)
SenderStep(s) == Report(s) \/ SenderCommits(s) \/ SenderFails(s)
Stripe ==
  \/ \E link \in links : Pay(link)
  \/ \E s \in Subs : Renew(s)

Next ==
  \/ \E item \in Sold : RequestLink(item)
  \/ Stripe
  \/ \E h \in Hooks : HookStep(h) \/ \E i \in DOMAIN events : Receive(h, i)
  \/ \E s \in Senders : SenderStep(s) \/ \E q \in 1..MaxQuantity : TrackMessageSent(s, q)

Spec == Init /\ [][Next]_vars

\* Stripe goes on delivering what is not answered, and a session ends.
FairSpec ==
  /\ Spec
  /\ \A i \in 1..MaxEvents :
       WF_vars(\E h \in Hooks : i <= Len(events) /\ Due(i) /\ Receive(h, i))
  /\ \A h \in Hooks : WF_vars(HookStep(h))
  /\ \A s \in Senders : WF_vars(SenderStep(s))

-----------------------------------------------------------------------------
(* Properties *)

Business ==
  [customer : Customers \cup {NoCustomer}, subscription : Subs \cup {NoSub},
   status : {"free", "active", "canceled"}, seats : {1, 2},
   addons : SUBSET {"campaigns", "campaign_messaging"}, credits : Int, count : Nat]

Session ==
  [pc : {"idle", "items", "report", "commit"}, arg : Nat, seen : Business, new : Business]

EventType ==
  [type : {"checkout", "updated", "deleted", "invoice"}, customer : Customers \cup {NoCustomer},
   sub : Subs \cup {NoSub}, item : Sold, status : {"paid", "active", "canceled", "open"}]

\* Every variable keeps its type: above all, the row holds only the statuses,
\* seats and addons the handlers can write.
TypeOK ==
  /\ row \in Business
  /\ lock \in Senders \cup {Nobody}
  /\ sess \in [Sessions -> Session]
  /\ links \subseteq [item : Sold, customer : Customers \cup {NoCustomer}]
  /\ subs \in [Subs -> [item : Sold \cup {"none"}, customer : Customers \cup {NoCustomer},
                        status : {"none", "active", "canceled"}]]
  /\ events \in Seq(EventType)
  /\ answered \subseteq DOMAIN events
  /\ sent \in Nat /\ reported \in Nat /\ granted \in Nat /\ faults \in Nat

\* However sends and deliveries overlap, fail and repeat, the balance never
\* exceeds what deliveries granted and never falls below minus what was sent,
\* and the period's count never exceeds what was sent.
UsageWithinBounds ==
  /\ -sent <= row.credits /\ row.credits <= granted
  /\ row.count <= sent

\* A business is never metered for more segments than it sent, whatever its
\* debt and whichever reports fail.
MeteredWithinSent == reported <= sent

\* At the moment usage is reported, the committed balance does not cover it:
\* no top-up or monthly allowance that was granted meanwhile is ignored.
MeteredByCurrentBalance ==
  [][\A s \in Senders :
       sess[s].pc = "report" /\ reported' # reported
         => reported' - reported <= Billable(sess[s].arg, row.credits)]_vars

\* A send never undoes what a webhook delivery committed: it lowers the balance
\* by its own segments and leaves the subscription alone.
SendsKeepGrants ==
  [][\A s \in Senders :
       sess[s].pc = "commit" /\ sess'[s].pc = "idle" /\ row' # row
         => row' = [row EXCEPT !.credits = @ - sess[s].arg, !.count = @ + sess[s].arg]]_vars

\* Every event is answered with 200 in the end.
EventsAnswered == \A i \in 1..MaxEvents : i <= Len(events) ~> i \in answered

AtRest == answered = DOMAIN events /\ \A w \in Sessions : sess[w].pc = "idle"

\* Once everything is handled, each paid top-up is in the balance.
TopUpsAreCredited ==
  AtRest => row.credits >=
    Pack * Cardinality({i \in DOMAIN events : events[i].item = "messaging"}) - sent

\* Once everything is handled, what a running subscription sold can be used:
\* the seat is in the limit, the scope the addon unlocks is in the addons.
PurchasesApply ==
  AtRest => \A s \in Subs : subs[s].status = "active" =>
    /\ subs[s].item = "seat" => row.seats = 2
    /\ subs[s].item = "addon" => "campaigns" \in row.addons
=============================================================================
