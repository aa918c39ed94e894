---------------------------- MODULE BillingProofs ----------------------------
(* Proofs about Billing: the inductive invariant, and from it the bounds of  *)
(* the balance and of the metered usage, and that a send works on the        *)
(* balance as it is, because it holds the lock from its read to its commit.  *)
EXTENDS Billing, FiniteSetTheorems, TLAPS

-----------------------------------------------------------------------------
(* The inductive invariant *)

\* Subscription events carry a subscription's status, and only payments name
\* the messaging item.
Sound(e) ==
  /\ e.type \in {"updated", "deleted"} => e.status \in {"active", "canceled"}
  /\ e.item = "messaging" => e.type = "checkout"

EventsSound == \A i \in DOMAIN events : Sound(events[i])

\* What runs as a subscription was sold as one.
SubsSound ==
  \A s \in Subs : subs[s].status = "active" => subs[s].item \in Sold \ {"messaging"}

\* A sender is at work exactly while it holds the lock.
LockHeld == \A s \in Senders : sess[s].pc # "idle" <=> lock = s

\* A sender at work has the committed row in hand, and what it deducts and
\* reports is already counted in sent.
SenderMemory ==
  \A s \in Senders :
    /\ sess[s].pc \in {"idle", "report", "commit"}
    /\ sess[s].pc # "idle" =>
         /\ sess[s].seen = row
         /\ sess[s].new = [row EXCEPT !.credits = @ - sess[s].arg, !.count = @ + sess[s].arg]
         /\ sess[s].arg <= sent + row.credits
         /\ sess[s].arg + row.count <= sent
    /\ sess[s].pc = "report" => reported + sess[s].arg <= sent

\* A delivery may have read an old row, but one within the bounds, and adds at
\* most one pack to it.
HookMemory ==
  \A h \in Hooks :
    /\ sess[h].pc \in {"idle", "items", "commit"}
    /\ sess[h].pc # "idle" =>
         /\ sess[h].arg \in DOMAIN events
         /\ -sent <= sess[h].seen.credits /\ sess[h].seen.credits <= granted
         /\ sess[h].new.credits \in {sess[h].seen.credits, sess[h].seen.credits + Pack}
         /\ sess[h].seen.count <= sent
         /\ sess[h].new.count \in {sess[h].seen.count, 0}
    /\ sess[h].pc = "items" => sess[h].new.credits = sess[h].seen.credits

BillingInv ==
  /\ TypeOK
  /\ EventsSound /\ SubsSound
  /\ LockHeld
  /\ SenderMemory
  /\ HookMemory
  /\ UsageWithinBounds
  /\ MeteredWithinSent

-----------------------------------------------------------------------------
(* Records and sequences *)

\* The row of a business that has done nothing yet, and an idle session.
LEMMA IdleTyped == NewBusiness \in Business /\ Idle \in Session
<1>1. NewBusiness \in Business
  BY DEF NewBusiness, Business
<1>2. QED BY <1>1 DEF Idle, Session

\* What Open, Goto and Close do to the sessions.
LEMMA OpenEffect ==
  ASSUME TypeOK, NEW w \in Sessions, NEW pc \in {"idle", "items", "report", "commit"},
         NEW arg \in Nat, NEW new \in Business, Open(w, pc, arg, new)
  PROVE  /\ sess' \in [Sessions -> Session]
         /\ sess'[w] = [pc |-> pc, arg |-> arg, seen |-> row, new |-> new]
         /\ \A v \in Sessions \ {w} : sess'[v] = sess[v]
<1>1. [pc |-> pc, arg |-> arg, seen |-> row, new |-> new] \in Session
  BY DEF TypeOK, Session
<1>2. QED BY <1>1 DEF TypeOK, Open

LEMMA GotoEffect ==
  ASSUME TypeOK, NEW w \in Sessions, NEW pc \in {"idle", "items", "report", "commit"},
         Goto(w, pc)
  PROVE  /\ sess' \in [Sessions -> Session]
         /\ sess'[w] = [sess[w] EXCEPT !.pc = pc]
         /\ \A v \in Sessions \ {w} : sess'[v] = sess[v]
<1>1. sess[w] \in Session
  BY DEF TypeOK
<1>2. [sess[w] EXCEPT !.pc = pc] \in Session
  BY <1>1 DEF Session
<1>3. sess' = [sess EXCEPT ![w] = [sess[w] EXCEPT !.pc = pc]]
  BY DEF Goto
<1>4. QED BY <1>2, <1>3 DEF TypeOK

LEMMA CloseEffect ==
  ASSUME TypeOK, NEW w \in Sessions, Close(w)
  PROVE  /\ sess' \in [Sessions -> Session]
         /\ sess'[w] = Idle
         /\ \A v \in Sessions \ {w} : sess'[v] = sess[v]
BY IdleTyped DEF TypeOK, Close

\* A commit leaves a row of the right type, the row itself when the session
\* changed nothing, and the session's row when it had read the committed one.
LEMMA FlushedRow ==
  ASSUME TypeOK, NEW w \in Sessions
  PROVE  /\ Flushed(w) \in Business
         /\ Flushed(w).credits = IF sess[w].new.credits = sess[w].seen.credits
                                   THEN row.credits ELSE sess[w].new.credits
         /\ Flushed(w).count = IF sess[w].new.count = sess[w].seen.count
                                 THEN row.count ELSE sess[w].new.count
         /\ sess[w].new = sess[w].seen => Flushed(w) = row
         /\ sess[w].seen = row => Flushed(w) = sess[w].new
<1> DEFINE new == sess[w].new
           seen == sess[w].seen
<1>1. row \in Business /\ new \in Business /\ seen \in Business
  BY DEF TypeOK, Session
<1>2. Flushed(w) = [c \in DOMAIN row |-> IF new[c] = seen[c] THEN row[c] ELSE new[c]]
  BY DEF Flushed
<1> HIDE DEF new, seen
<1>3. DOMAIN row = {"customer", "subscription", "status", "seats", "addons", "credits", "count"}
  BY <1>1 DEF Business
<1>4. DOMAIN new = DOMAIN row
  BY <1>1, <1>3 DEF Business
<1>5. new = seen => Flushed(w) = row
  BY <1>1, <1>2 DEF Business
<1>6. seen = row => Flushed(w) = new
  BY <1>1, <1>2, <1>4 DEF Business
<1>7. Flushed(w).credits = IF new.credits = seen.credits THEN row.credits ELSE new.credits
  BY <1>2, <1>3
<1>8. Flushed(w).count = IF new.count = seen.count THEN row.count ELSE new.count
  BY <1>2, <1>3
<1>9. Flushed(w) \in Business
  BY <1>1, <1>2, <1>3 DEF Business
<1>10. QED BY <1>5, <1>6, <1>7, <1>8, <1>9 DEF new, seen

\* A further event keeps the earlier ones at their places.
LEMMA AppendEvent ==
  ASSUME NEW es \in Seq(EventType), \A i \in DOMAIN es : Sound(es[i]),
         NEW e \in EventType, Sound(e)
  PROVE  /\ Append(es, e) \in Seq(EventType)
         /\ DOMAIN es \subseteq DOMAIN Append(es, e)
         /\ \A i \in DOMAIN Append(es, e) : Sound(Append(es, e)[i])
<1> DEFINE r == Append(es, e)
<1>1. /\ r \in Seq(EventType)
      /\ DOMAIN r = 1 .. Len(es) + 1 /\ DOMAIN es = 1 .. Len(es) /\ Len(es) \in Nat
      /\ \A i \in 1 .. Len(es) : r[i] = es[i]
      /\ r[Len(es) + 1] = e
  OBVIOUS
<1> HIDE DEF r
<1>2. ASSUME NEW i \in DOMAIN r PROVE Sound(r[i])
  <2>1. i \in DOMAIN es \/ i = Len(es) + 1
    BY <1>1
  <2>2. QED BY <1>1, <2>1
<1>3. QED BY <1>1, <1>2 DEF r

-----------------------------------------------------------------------------
(* The invariant holds initially and is kept by every step *)

LEMMA BillingInit == Init => BillingInv
<1> SUFFICES ASSUME Init PROVE BillingInv
  OBVIOUS
<1> USE DEF Init
<1>1. TypeOK
  <2>1. row \in Business /\ sess \in [Sessions -> Session]
    BY IdleTyped
  <2>2. events \in Seq(EventType) /\ DOMAIN events = {}
    OBVIOUS
  <2>3. QED BY <2>1, <2>2 DEF TypeOK
<1>2. \A w \in Sessions : sess[w].pc = "idle"
  BY DEF Idle
<1>3. LockHeld /\ SenderMemory /\ HookMemory
  BY <1>2, BillingAssumption DEF LockHeld, SenderMemory, HookMemory, Sessions
<1>4. EventsSound /\ SubsSound /\ UsageWithinBounds /\ MeteredWithinSent
  BY DEF EventsSound, SubsSound, UsageWithinBounds, MeteredWithinSent, NewBusiness
<1>5. QED BY <1>1, <1>3, <1>4 DEF BillingInv

\* What Stripe and the owner do touches neither the row nor a session.
LEMMA OutsideStep ==
  ASSUME BillingInv, UNCHANGED <<row, lock, sess, answered, sent, reported, granted, faults>>,
         links' \subseteq [item : Sold, customer : Customers \cup {NoCustomer}],
         subs' \in [Subs -> [item : Sold \cup {"none"}, customer : Customers \cup {NoCustomer},
                             status : {"none", "active", "canceled"}]],
         events' \in Seq(EventType), DOMAIN events \subseteq DOMAIN events', EventsSound', SubsSound'
  PROVE  BillingInv'
<1>1. TypeOK'
  BY DEF BillingInv, TypeOK
<1>2. HookMemory'
  BY Zenon DEF BillingInv, HookMemory
<1>3. LockHeld' /\ SenderMemory' /\ UsageWithinBounds' /\ MeteredWithinSent'
  BY DEF BillingInv, LockHeld, SenderMemory, UsageWithinBounds, MeteredWithinSent
<1>4. QED BY <1>1, <1>2, <1>3 DEF BillingInv

LEMMA RequestLinkStep ==
  ASSUME BillingInv, NEW item \in Sold, RequestLink(item)
  PROVE  BillingInv'
<1>1. row.customer \in Customers \cup {NoCustomer}
  BY DEF BillingInv, TypeOK, Business
<1>2. links' \subseteq [item : Sold, customer : Customers \cup {NoCustomer}]
  BY <1>1 DEF RequestLink, BillingInv, TypeOK
<1>3. EventsSound' /\ SubsSound'
  BY DEF RequestLink, BillingInv, EventsSound, SubsSound
<1>4. QED BY <1>2, <1>3, OutsideStep DEF RequestLink, BillingInv, TypeOK

LEMMA PayStep ==
  ASSUME BillingInv, NEW link \in links, Pay(link)
  PROVE  BillingInv'
<1>1. /\ link.item \in Sold /\ link.customer \in Customers \cup {NoCustomer}
      /\ links' \subseteq [item : Sold, customer : Customers \cup {NoCustomer}]
  BY DEF Pay, BillingInv, TypeOK
<1>2. PICK c \in CustomersFor(link) :
        IF link.item = "messaging"
          THEN /\ events' = Append(events, Event("checkout", c, NoSub, "messaging", "paid"))
               /\ UNCHANGED subs
          ELSE \E s \in {x \in Subs : subs[x].status = "none"} :
               /\ subs' = [subs EXCEPT ![s] = [item |-> link.item, customer |-> c, status |-> "active"]]
               /\ events' = Append(Append(events, Event("checkout", c, s, link.item, "active")),
                                   Event("updated", c, s, link.item, "active"))
  BY DEF Pay
<1>3. c \in Customers \cup {NoCustomer}
  BY <1>1 DEF CustomersFor
<1>4. events \in Seq(EventType) /\ \A i \in DOMAIN events : Sound(events[i])
  BY DEF BillingInv, TypeOK, EventsSound
<1>5. CASE link.item = "messaging"
  <2> DEFINE e == Event("checkout", c, NoSub, "messaging", "paid")
  <2>1. e \in EventType /\ Sound(e)
    BY <1>1, <1>3, <1>5 DEF Event, EventType, Sound
  <2>2. events' = Append(events, e) /\ subs' = subs
    BY <1>2, <1>5
  <2> HIDE DEF e
  <2>3. events' \in Seq(EventType) /\ DOMAIN events \subseteq DOMAIN events' /\ EventsSound'
    BY <1>4, <2>1, <2>2, AppendEvent DEF EventsSound
  <2>4. SubsSound'
    BY <2>2 DEF BillingInv, SubsSound
  <2>5. QED BY <1>1, <2>2, <2>3, <2>4, OutsideStep DEF Pay, BillingInv, TypeOK
<1>6. CASE link.item # "messaging"
  <2>1. PICK s \in Subs :
          /\ subs' = [subs EXCEPT ![s] = [item |-> link.item, customer |-> c, status |-> "active"]]
          /\ events' = Append(Append(events, Event("checkout", c, s, link.item, "active")),
                              Event("updated", c, s, link.item, "active"))
    BY <1>2, <1>6
  <2> DEFINE e == Event("checkout", c, s, link.item, "active")
             f == Event("updated", c, s, link.item, "active")
             es == Append(events, e)
  <2>2. e \in EventType /\ Sound(e) /\ f \in EventType /\ Sound(f)
    BY <1>1, <1>3, <1>6 DEF Event, EventType, Sound
  <2>3. events' = Append(es, f)
    BY <2>1
  <2> HIDE DEF e, f
  <2>4. /\ es \in Seq(EventType) /\ DOMAIN events \subseteq DOMAIN es
        /\ \A i \in DOMAIN es : Sound(es[i])
    BY <1>4, <2>2, AppendEvent
  <2> HIDE DEF es
  <2>5. events' \in Seq(EventType) /\ DOMAIN es \subseteq DOMAIN events' /\ EventsSound'
    BY <2>2, <2>3, <2>4, AppendEvent DEF EventsSound
  <2>6. subs' \in [Subs -> [item : Sold \cup {"none"}, customer : Customers \cup {NoCustomer},
                            status : {"none", "active", "canceled"}]]
    BY <1>1, <1>3, <2>1 DEF BillingInv, TypeOK
  <2>7. SubsSound'
    BY <1>1, <1>6, <2>1 DEF BillingInv, TypeOK, SubsSound
  <2>8. QED BY <1>1, <2>4, <2>5, <2>6, <2>7, OutsideStep DEF Pay
<1>7. QED BY <1>5, <1>6

LEMMA RenewStep ==
  ASSUME BillingInv, NEW s \in Subs, Renew(s)
  PROVE  BillingInv'
<1>1. PICK type \in {"deleted", "invoice"}, status \in {"canceled", "open"} :
        /\ events' = Append(events, Event(type, subs[s].customer, s, subs[s].item, status))
        /\ type = "deleted" => status = "canceled"
  BY DEF Renew, Cancel, Invoice
<1>2. subs[s].status = "active"
  BY DEF Renew, Cancel, Invoice
<1>3. /\ subs[s].item \in Sold \ {"messaging"}
      /\ subs[s].customer \in Customers \cup {NoCustomer}
  BY <1>2 DEF BillingInv, SubsSound, TypeOK
<1> DEFINE e == Event(type, subs[s].customer, s, subs[s].item, status)
<1>4. e \in EventType /\ Sound(e)
  BY <1>1, <1>3 DEF Event, EventType, Sound
<1>5. events' = Append(events, e)
  BY <1>1
<1> HIDE DEF e
<1>6. events' \in Seq(EventType) /\ DOMAIN events \subseteq DOMAIN events' /\ EventsSound'
  BY <1>4, <1>5, AppendEvent DEF BillingInv, TypeOK, EventsSound
<1>7. PICK st \in {"active", "canceled"} :
        subs' = [subs EXCEPT ![s] = [item |-> subs[s].item, customer |-> subs[s].customer, status |-> st]]
  <2>1. subs[s] \in [item : Sold \cup {"none"}, customer : Customers \cup {NoCustomer},
                     status : {"none", "active", "canceled"}]
    BY DEF BillingInv, TypeOK
  <2>2. CASE Cancel(s)
    <3>1. subs' = [subs EXCEPT ![s] = [subs[s] EXCEPT !.status = "canceled"]]
      BY <2>2 DEF Cancel
    <3>2. [subs[s] EXCEPT !.status = "canceled"]
            = [item |-> subs[s].item, customer |-> subs[s].customer, status |-> "canceled"]
      BY <2>1
    <3>3. QED BY <3>1, <3>2
  <2>3. CASE Invoice(s)
    <3>1. subs[s] = [item |-> subs[s].item, customer |-> subs[s].customer, status |-> "active"]
      BY <1>2, <2>1
    <3>2. subs' = [subs EXCEPT ![s] = subs[s]]
      BY <2>3 DEF Invoice, BillingInv, TypeOK
    <3>3. QED BY <3>1, <3>2
  <2>4. QED BY <2>2, <2>3 DEF Renew
<1>8. /\ SubsSound'
      /\ subs' \in [Subs -> [item : Sold \cup {"none"}, customer : Customers \cup {NoCustomer},
                             status : {"none", "active", "canceled"}]]
  BY <1>3, <1>7 DEF BillingInv, SubsSound, TypeOK
<1>9. links' \subseteq [item : Sold, customer : Customers \cup {NoCustomer}]
  BY DEF Renew, BillingInv, TypeOK
<1>10. QED BY <1>6, <1>8, <1>9, OutsideStep DEF Renew

\* A pack changes the balance and nothing else.
LEMMA PackAdded ==
  ASSUME NEW r \in Business
  PROVE  WithPack(r) = [customer |-> r.customer, subscription |-> r.subscription,
               status |-> r.status, seats |-> r.seats, addons |-> r.addons,
               credits |-> r.credits + Pack, count |-> r.count]
<1> DEFINE more == r.credits + Pack
<1>1. WithPack(r) = [r EXCEPT !.credits = more]
  BY DEF WithPack
<1> HIDE DEF more
<1>2. [r EXCEPT !.credits = more]
        = [customer |-> r.customer, subscription |-> r.subscription,
           status |-> r.status, seats |-> r.seats, addons |-> r.addons,
           credits |-> more, count |-> r.count]
  BY DEF Business
<1>3. QED BY <1>1, <1>2 DEF more

\* A handler writes a row of the right type, adds at most a pack to the
\* balance, and leaves the balance of a payment to its line items.
LEMMA HandledRow ==
  ASSUME TypeOK, NEW e \in EventType, Sound(e)
  PROVE  /\ Handled(e) \in Business
         /\ Handled(e).credits \in {row.credits, row.credits + Pack}
         /\ Handled(e).count \in {row.count, 0}
         /\ e.item = "messaging" => Handled(e).credits = row.credits
<1>1. row \in Business /\ Pack \in Nat
  BY BillingAssumption DEF TypeOK
<1>2. CASE e.type = "checkout"
  <2>1. Handled(e) = CheckoutCompleted(e)
    BY <1>2 DEF Handled
  <2>2. e.customer \in Customers \cup {NoCustomer} /\ e.sub \in Subs \cup {NoSub}
    BY DEF EventType
  <2>3. row = [customer |-> row.customer, subscription |-> row.subscription,
               status |-> row.status, seats |-> row.seats, addons |-> row.addons,
               credits |-> row.credits, count |-> row.count]
    BY <1>1 DEF Business
  <2>4. \E sub \in Subs \cup {NoSub}, status \in {row.status, "active"} :
          Handled(e) = [customer |-> e.customer, subscription |-> sub,
               status |-> status, seats |-> row.seats, addons |-> row.addons,
               credits |-> row.credits, count |-> row.count]
    <3>1. CASE e.sub = NoSub
      <4>1. Handled(e) = [row EXCEPT !.customer = e.customer]
        BY <2>1, <3>1 DEF CheckoutCompleted
      <4>2. QED BY <1>1, <2>3, <4>1 DEF Business
    <3>2. CASE e.sub # NoSub
      <4>1. Handled(e) = [row EXCEPT !.customer = e.customer, !.subscription = e.sub,
                                     !.status = "active"]
        BY <2>1, <3>2 DEF CheckoutCompleted
      <4>2. QED BY <1>1, <2>2, <2>3, <4>1 DEF Business
    <3>3. QED BY <3>1, <3>2
  <2>5. QED BY <1>1, <2>2, <2>4 DEF Business
<1>3. CASE e.type = "invoice"
  <2>1. Handled(e) = InvoiceCreated /\ e.item # "messaging"
    BY <1>3 DEF Handled, Sound
  <2>2. InvoiceCreated = [customer |-> row.customer, subscription |-> row.subscription,
               status |-> row.status, seats |-> row.seats, addons |-> row.addons,
               credits |-> row.credits + Pack, count |-> 0]
    BY <1>1, PackAdded DEF InvoiceCreated
  <2>3. QED BY <1>1, <2>1, <2>2 DEF Business
<1>4. CASE e.type \in {"updated", "deleted"}
  <2>1. Handled(e) = SubscriptionUpdated(e)
    BY <1>4 DEF Handled
  <2>2. e.status \in {"active", "canceled"}
    BY <1>4 DEF Sound
  <2>3. PICK seats \in {1, 2}, addons \in SUBSET {"campaign_messaging"} :
          SubscriptionUpdated(e) = [row EXCEPT !.status = e.status, !.seats = seats,
                                               !.addons = addons]
    BY DEF SubscriptionUpdated
  <2>4. Handled(e) = [customer |-> row.customer, subscription |-> row.subscription,
               status |-> e.status, seats |-> seats, addons |-> addons,
               credits |-> row.credits, count |-> row.count]
    BY <1>1, <2>1, <2>3 DEF Business
  <2>5. QED BY <1>1, <2>2, <2>4 DEF Business
<1>5. QED BY <1>2, <1>3, <1>4 DEF EventType

LEMMA ReceiveStep ==
  ASSUME BillingInv, NEW h \in Hooks, NEW i \in DOMAIN events, Receive(h, i)
  PROVE  BillingInv'
<1>1. faults' \in Nat /\ UNCHANGED <<row, lock, links, subs, events, sent, reported, granted>>
  BY BillingAssumption DEF Receive, Fault, stripeVars, BillingInv, TypeOK
<1>2. h \in Sessions /\ h \notin Senders
  BY BillingAssumption DEF Sessions
<1>3. CASE ~Found(events[i])
  <2>1. sess' = sess /\ answered' = answered \cup {i}
    BY <1>3 DEF Receive
  <2>2. TypeOK'
    <3>1. TypeOK /\ answered' \subseteq DOMAIN events
      BY Zenon, <2>1 DEF BillingInv, TypeOK
    <3>2. QED BY <1>1, <2>1, <3>1 DEF TypeOK
  <2>3. /\ EventsSound' /\ SubsSound' /\ LockHeld' /\ SenderMemory' /\ HookMemory'
        /\ UsageWithinBounds' /\ MeteredWithinSent'
    BY <1>1, <2>1 DEF BillingInv, EventsSound, SubsSound, LockHeld, SenderMemory, HookMemory,
       UsageWithinBounds, MeteredWithinSent
  <2>4. QED BY <2>2, <2>3 DEF BillingInv
<1>4. CASE Found(events[i])
  <2> DEFINE e == events[i]
             pc == IF e.item = "messaging" THEN "items" ELSE "commit"
  <2>1. e \in EventType /\ Sound(e) /\ i \in Nat
    BY DEF BillingInv, TypeOK, EventsSound
  <2>2. /\ Handled(e) \in Business
        /\ Handled(e).credits \in {row.credits, row.credits + Pack}
        /\ Handled(e).count \in {row.count, 0}
        /\ pc = "items" => Handled(e).credits = row.credits
    BY <2>1, HandledRow DEF BillingInv
  <2>3. Open(h, pc, i, Handled(e)) /\ answered' = answered
    BY <1>4 DEF Receive
  <2>4. /\ sess' \in [Sessions -> Session]
        /\ sess'[h] = [pc |-> pc, arg |-> i, seen |-> row, new |-> Handled(e)]
        /\ \A v \in Sessions \ {h} : sess'[v] = sess[v]
    BY <1>2, <2>1, <2>2, <2>3, OpenEffect DEF BillingInv
  <2> HIDE DEF e, pc
  <2>5. pc \in {"items", "commit"}
    BY DEF pc
  <2>6. TypeOK'
    BY Zenon, <1>1, <2>3, <2>4 DEF BillingInv, TypeOK
  <2>7. LockHeld' /\ SenderMemory'
    BY <1>1, <1>2, <2>4 DEF BillingInv, LockHeld, SenderMemory, Sessions
  <2>8. HookMemory'
    <3>1. row.count <= sent /\ -sent <= row.credits /\ row.credits <= granted
      BY DEF BillingInv, UsageWithinBounds
    <3>2. QED BY <1>1, <2>2, <2>4, <2>5, <3>1 DEF BillingInv, HookMemory, Sessions
  <2>9. EventsSound' /\ SubsSound' /\ UsageWithinBounds' /\ MeteredWithinSent'
    BY <1>1 DEF BillingInv, EventsSound, SubsSound, UsageWithinBounds, MeteredWithinSent
  <2>10. QED BY <2>6, <2>7, <2>8, <2>9 DEF BillingInv
<1>5. QED BY <1>3, <1>4

LEMMA LineItemsStep ==
  ASSUME BillingInv, NEW h \in Hooks, LineItems(h)
  PROVE  BillingInv'
<1>1. /\ faults' \in Nat
      /\ UNCHANGED <<row, lock, links, subs, events, answered, sent, reported, granted>>
  BY BillingAssumption DEF LineItems, Fault, stripeVars, BillingInv, TypeOK
<1>2. /\ h \in Sessions /\ h \notin Senders /\ sess[h] \in Session /\ Pack \in Nat
      /\ sess[h].pc = "items"
  BY BillingAssumption DEF Sessions, BillingInv, TypeOK, LineItems
<1>3. PICK new \in {sess[h].new, WithPack(sess[h].new)} :
        sess' = [sess EXCEPT ![h] = [pc |-> "commit", arg |-> sess[h].arg,
                                     seen |-> sess[h].seen, new |-> new]]
  <2>1. CASE sess' = [sess EXCEPT ![h].pc = "commit", ![h].new = WithPack(@)]
    <3> DEFINE new == WithPack(sess[h].new)
    <3>1. sess' = [sess EXCEPT ![h] = [sess[h] EXCEPT !.pc = "commit", !.new = new]]
      BY <2>1
    <3> HIDE DEF new
    <3>2. [sess[h] EXCEPT !.pc = "commit", !.new = new]
            = [pc |-> "commit", arg |-> sess[h].arg, seen |-> sess[h].seen, new |-> new]
      <4> DEFINE t == [sess[h] EXCEPT !.pc = "commit"]
      <4>1. t = [pc |-> "commit", arg |-> sess[h].arg, seen |-> sess[h].seen, new |-> sess[h].new]
        BY <1>2 DEF Session
      <4>2. [sess[h] EXCEPT !.pc = "commit", !.new = new] = [t EXCEPT !.new = new]
        OBVIOUS
      <4> HIDE DEF t
      <4>3. t \in Session
        BY <1>2, <4>1 DEF Session
      <4>4. [t EXCEPT !.new = new] = [pc |-> t.pc, arg |-> t.arg, seen |-> t.seen, new |-> new]
        BY <4>3 DEF Session
      <4>5. QED BY <4>1, <4>2, <4>4
    <3>3. QED BY <3>1, <3>2 DEF new
  <2>2. CASE Goto(h, "commit")
    <3>1. sess' = [sess EXCEPT ![h] = [sess[h] EXCEPT !.pc = "commit"]]
      BY <2>2 DEF Goto
    <3>2. [sess[h] EXCEPT !.pc = "commit"]
            = [pc |-> "commit", arg |-> sess[h].arg, seen |-> sess[h].seen, new |-> sess[h].new]
      BY <1>2 DEF Session
    <3>3. QED BY <3>1, <3>2
  <2>3. QED BY <2>1, <2>2 DEF LineItems
<1>4. sess[h].new \in Business /\ sess[h].seen \in Business
  BY <1>2 DEF Session
<1>5. /\ new \in Business /\ new.count = sess[h].new.count
      /\ new.credits \in {sess[h].new.credits, sess[h].new.credits + Pack}
  <2>1. CASE new = sess[h].new
    BY <1>4, <2>1
  <2>2. CASE new = WithPack(sess[h].new)
    BY <1>2, <1>4, <2>2, PackAdded DEF Business
  <2>3. QED BY <2>1, <2>2
<1>6. /\ sess' \in [Sessions -> Session]
      /\ sess'[h] = [pc |-> "commit", arg |-> sess[h].arg, seen |-> sess[h].seen, new |-> new]
      /\ \A v \in Sessions \ {h} : sess'[v] = sess[v]
  BY <1>2, <1>3, <1>5 DEF BillingInv, TypeOK, Session
<1>7. TypeOK'
  BY <1>1, <1>6 DEF BillingInv, TypeOK
<1>8. LockHeld' /\ SenderMemory'
  BY <1>1, <1>2, <1>6 DEF BillingInv, LockHeld, SenderMemory, Sessions
<1>9. HookMemory'
  <2>1. sess[h].new.credits = sess[h].seen.credits
    BY <1>2 DEF BillingInv, HookMemory
  <2>2. QED BY <1>1, <1>2, <1>5, <1>6, <2>1 DEF BillingInv, HookMemory, Sessions
<1>10. EventsSound' /\ SubsSound' /\ UsageWithinBounds' /\ MeteredWithinSent'
  BY <1>1 DEF BillingInv, EventsSound, SubsSound, UsageWithinBounds, MeteredWithinSent
<1>11. QED BY <1>7, <1>8, <1>9, <1>10 DEF BillingInv

LEMMA HookCommitsStep ==
  ASSUME BillingInv, NEW h \in Hooks, HookCommits(h)
  PROVE  BillingInv'
<1>1. /\ UNCHANGED <<lock, links, subs, events, sent, reported, faults>>
      /\ row' = Flushed(h) /\ answered' = answered \cup {sess[h].arg} /\ Close(h)
  BY DEF HookCommits, stripeVars
<1>2. /\ h \in Sessions /\ h \notin Senders
      /\ sess[h] \in Session /\ row \in Business /\ Pack \in Nat
      /\ sent \in Nat /\ granted \in Nat
  BY BillingAssumption DEF Sessions, BillingInv, TypeOK
<1>3. /\ sess' \in [Sessions -> Session]
      /\ sess'[h] = Idle
      /\ \A v \in Sessions \ {h} : sess'[v] = sess[v]
  BY <1>1, <1>2, CloseEffect DEF BillingInv
<1>4. /\ sess[h].arg \in DOMAIN events
      /\ -sent <= sess[h].seen.credits /\ sess[h].seen.credits <= granted
      /\ sess[h].new.credits \in {sess[h].seen.credits, sess[h].seen.credits + Pack}
      /\ sess[h].seen.count <= sent
      /\ sess[h].new.count \in {sess[h].seen.count, 0}
  BY DEF HookCommits, BillingInv, HookMemory
<1>5. /\ sess[h].new \in Business /\ sess[h].seen \in Business
  BY <1>2 DEF Session
<1>6. /\ sess[h].seen.credits \in Int /\ row.credits \in Int /\ row.count \in Nat
      /\ sess[h].seen.count \in Nat
  BY <1>2, <1>5 DEF Business
<1>7. /\ row' \in Business
      /\ row'.credits = IF sess[h].new.credits = sess[h].seen.credits
                          THEN row.credits ELSE sess[h].new.credits
      /\ row'.count = IF sess[h].new.count = sess[h].seen.count
                        THEN row.count ELSE sess[h].new.count
      /\ sess[h].new = sess[h].seen => row' = row
  BY <1>1, <1>2, FlushedRow DEF BillingInv
<1>8. /\ granted' \in Nat /\ granted <= granted'
      /\ sess[h].new.credits # sess[h].seen.credits => granted' = granted + Pack
  BY <1>2 DEF HookCommits
<1>9. TypeOK'
  BY <1>1, <1>3, <1>4, <1>7, <1>8 DEF BillingInv, TypeOK
<1>10. UsageWithinBounds' /\ MeteredWithinSent'
  BY <1>1, <1>2, <1>4, <1>6, <1>7, <1>8 DEF BillingInv, UsageWithinBounds, MeteredWithinSent
<1>11. LockHeld' /\ SenderMemory'
  <2>1. \A s \in Senders : s \in Sessions \ {h} /\ sess'[s] = sess[s]
    BY <1>2, <1>3 DEF Sessions
  <2>2. LockHeld'
    BY <1>1, <2>1 DEF BillingInv, LockHeld
  <2>3. CASE lock = Nobody
    <3>1. \A s \in Senders : sess[s].pc = "idle"
      BY <2>3, BillingAssumption DEF BillingInv, LockHeld
    <3>2. SenderMemory'
      BY <2>1, <3>1 DEF SenderMemory
    <3>3. QED BY <2>2, <3>2
  <2>4. CASE sess[h].new = sess[h].seen
    <3>1. row' = row
      BY <1>7, <2>4
    <3>2. SenderMemory'
      BY <1>1, <2>1, <3>1 DEF BillingInv, SenderMemory
    <3>3. QED BY <2>2, <3>2
  <2>5. QED BY <2>3, <2>4 DEF HookCommits
<1>12. HookMemory'
  <2> SUFFICES ASSUME NEW g \in Hooks
               PROVE  HookMemory!(g)'
    BY DEF HookMemory
  <2>1. CASE g = h
    BY <1>3, <2>1 DEF Idle
  <2>2. CASE g # h
    <3>1. sess'[g] = sess[g] /\ sess[g] \in Session
      BY <1>3, <2>2 DEF Sessions, BillingInv, TypeOK
    <3>2. sess[g].seen.credits \in Int
      BY <3>1 DEF Session, Business
    <3>3. QED BY <1>1, <1>2, <1>8, <3>1, <3>2 DEF BillingInv, HookMemory
  <2>3. QED BY <2>1, <2>2
<1>13. EventsSound' /\ SubsSound'
  BY <1>1 DEF BillingInv, EventsSound, SubsSound
<1>14. QED BY <1>9, <1>10, <1>11, <1>12, <1>13 DEF BillingInv

\* A session that ends without a commit, a sender's or a handler's.
LEMMA HookFailsStep ==
  ASSUME BillingInv, NEW h \in Hooks, HookFails(h)
  PROVE  BillingInv'
<1>1. /\ faults' \in Nat /\ Close(h)
      /\ UNCHANGED <<row, lock, links, subs, events, answered, sent, reported, granted>>
  BY BillingAssumption DEF HookFails, Fault, stripeVars, BillingInv, TypeOK
<1>2. h \in Sessions /\ h \notin Senders
  BY BillingAssumption DEF Sessions
<1>3. /\ sess' \in [Sessions -> Session]
      /\ sess'[h] = Idle
      /\ \A v \in Sessions \ {h} : sess'[v] = sess[v]
  BY <1>1, <1>2, CloseEffect DEF BillingInv
<1>4. TypeOK'
  BY Zenon, <1>1, <1>3 DEF BillingInv, TypeOK
<1>5. LockHeld' /\ SenderMemory'
  BY <1>1, <1>2, <1>3 DEF BillingInv, LockHeld, SenderMemory, Sessions
<1>6. HookMemory'
  BY <1>1, <1>2, <1>3 DEF BillingInv, HookMemory, Sessions, Idle
<1>7. EventsSound' /\ SubsSound' /\ UsageWithinBounds' /\ MeteredWithinSent'
  BY <1>1 DEF BillingInv, EventsSound, SubsSound, UsageWithinBounds, MeteredWithinSent
<1>8. QED BY <1>4, <1>5, <1>6, <1>7 DEF BillingInv

\* What is reported for q segments is between nothing and all of them.
LEMMA BillableBound ==
  ASSUME NEW q \in Nat, NEW credits \in Int
  PROVE  Billable(q, credits) \in Nat /\ Billable(q, credits) <= q
<1>1. Positive(credits) \in Nat
  BY DEF Positive
<1>2. q - Positive(credits) \in Int /\ q - Positive(credits) <= q
  BY <1>1
<1>3. QED BY <1>2 DEF Billable, Positive

\* A send deducts from the balance, counts, and leaves the other columns alone.
LEMMA DeductedRow ==
  ASSUME NEW r \in Business, NEW q \in Nat
  PROVE  LET d == [r EXCEPT !.credits = @ - q, !.count = @ + q] IN
         /\ d \in Business
         /\ d.credits = r.credits - q
         /\ d.count = r.count + q
<1>1. r.credits \in Int /\ r.count \in Nat
  BY DEF Business
<1> DEFINE less == r.credits - q
           more == r.count + q
<1>2. less \in Int /\ more \in Nat
  BY <1>1
<1>3. [r EXCEPT !.credits = @ - q, !.count = @ + q]
        = [r EXCEPT !.credits = less, !.count = more]
  OBVIOUS
<1> HIDE DEF less, more
<1>4. [r EXCEPT !.credits = less, !.count = more] =
        [customer |-> r.customer, subscription |-> r.subscription, status |-> r.status,
         seats |-> r.seats, addons |-> r.addons, credits |-> less, count |-> more]
  <2> DEFINE t == [r EXCEPT !.credits = less]
  <2>1. t = [customer |-> r.customer, subscription |-> r.subscription, status |-> r.status,
             seats |-> r.seats, addons |-> r.addons, credits |-> less, count |-> r.count]
    BY DEF Business
  <2>2. [r EXCEPT !.credits = less, !.count = more] = [t EXCEPT !.count = more]
    OBVIOUS
  <2> HIDE DEF t
  <2>3. t \in Business
    BY <1>2, <2>1 DEF Business
  <2>4. [t EXCEPT !.count = more] =
          [customer |-> t.customer, subscription |-> t.subscription, status |-> t.status,
           seats |-> t.seats, addons |-> t.addons, credits |-> t.credits, count |-> more]
    BY <2>3 DEF Business
  <2>5. QED BY <2>1, <2>2, <2>4
<1>5. [r EXCEPT !.credits = less, !.count = more] \in Business
  BY <1>2, <1>4 DEF Business
<1>6. QED BY <1>3, <1>4, <1>5 DEF less, more

LEMMA TrackMessageSentStep ==
  ASSUME BillingInv, NEW s \in Senders, NEW q \in 1..MaxQuantity, TrackMessageSent(s, q)
  PROVE  BillingInv'
<1> DEFINE pc == IF Billable(q, row.credits) > 0 /\ row.subscription \in Metered
                   THEN "report" ELSE "commit"
<1>1. /\ UNCHANGED <<row, links, subs, events, answered, reported, granted, faults>>
      /\ lock = Nobody /\ lock' = s /\ sent' = sent + q
      /\ Open(s, pc, q, Deducted(q))
  BY DEF TrackMessageSent, TakeLock, stripeVars
<1>2. /\ s \in Sessions /\ s \notin Hooks /\ s # Nobody /\ q \in Nat
      /\ row \in Business /\ sent \in Nat
  BY BillingAssumption DEF Sessions, BillingInv, TypeOK
<1> HIDE DEF pc
<1>3. pc \in {"report", "commit"}
  BY DEF pc
<1>4. Deducted(q) \in Business
  BY <1>2, DeductedRow DEF Deducted
<1>5. /\ sess' \in [Sessions -> Session]
      /\ sess'[s] = [pc |-> pc, arg |-> q, seen |-> row, new |-> Deducted(q)]
      /\ \A v \in Sessions \ {s} : sess'[v] = sess[v]
  BY <1>1, <1>2, <1>3, <1>4, OpenEffect DEF BillingInv
<1>6. \A v \in Senders : sess[v].pc = "idle"
  BY <1>1, BillingAssumption DEF BillingInv, LockHeld
<1>7. row.credits \in Int /\ row.count \in Nat
  BY <1>2 DEF Business
<1>8. TypeOK'
  BY <1>1, <1>2, <1>5 DEF BillingInv, TypeOK
<1>9. LockHeld'
  BY <1>1, <1>2, <1>3, <1>5, <1>6 DEF LockHeld, Sessions
<1>10. SenderMemory'
  <2> SUFFICES ASSUME NEW v \in Senders PROVE SenderMemory!(v)'
    BY DEF SenderMemory
  <2>1. CASE v = s
    <3>1. sess'[s].arg = q /\ sess'[s].seen = row' /\ sess'[s].pc = pc
      BY <1>1, <1>5
    <3>2. sess'[s].new = [row' EXCEPT !.credits = @ - sess'[s].arg, !.count = @ + sess'[s].arg]
      BY <1>1, <1>5 DEF Deducted
    <3>3. q <= sent' + row'.credits /\ q + row'.count <= sent'
      BY <1>1, <1>2, <1>7 DEF BillingInv, UsageWithinBounds
    <3>4. reported' + q <= sent'
      BY <1>1, <1>2 DEF BillingInv, MeteredWithinSent, TypeOK
    <3>5. QED BY <1>3, <2>1, <3>1, <3>2, <3>3, <3>4
  <2>2. CASE v # s
    BY <1>5, <1>6, <2>2 DEF Sessions
  <2>3. QED BY <2>1, <2>2
<1>11. HookMemory'
  <2> SUFFICES ASSUME NEW g \in Hooks PROVE HookMemory!(g)'
    BY DEF HookMemory
  <2>1. sess'[g] = sess[g] /\ sess[g] \in Session
    BY <1>2, <1>5 DEF Sessions, BillingInv, TypeOK
  <2>2. sess[g].seen.credits \in Int /\ sess[g].seen.count \in Nat
    BY <2>1 DEF Session, Business
  <2>3. QED BY <1>1, <1>2, <2>1, <2>2 DEF BillingInv, HookMemory
<1>12. /\ EventsSound' /\ SubsSound' /\ UsageWithinBounds' /\ MeteredWithinSent'
  BY <1>1, <1>2, <1>7
  DEF BillingInv, EventsSound, SubsSound, UsageWithinBounds, MeteredWithinSent, TypeOK
<1>13. QED BY <1>8, <1>9, <1>10, <1>11, <1>12 DEF BillingInv

LEMMA ReportStep ==
  ASSUME BillingInv, NEW s \in Senders, Report(s)
  PROVE  BillingInv'
<1>1. /\ UNCHANGED <<row, lock, links, subs, events, answered, sent, granted>>
      /\ faults' \in Nat /\ sess[s].pc = "report" /\ Goto(s, "commit")
  BY BillingAssumption DEF Report, Fault, stripeVars, BillingInv, TypeOK
<1>2. /\ s \in Sessions /\ s \notin Hooks /\ sess[s] \in Session
      /\ reported \in Nat /\ sent \in Nat
  BY BillingAssumption DEF Sessions, BillingInv, TypeOK
<1>3. reported' \in Nat /\ reported' <= reported + sess[s].arg
  <2> DEFINE b == Billable(sess[s].arg, sess[s].seen.credits)
  <2>1. sess[s].arg \in Nat /\ sess[s].seen.credits \in Int
    BY <1>2 DEF Session, Business
  <2>2. b \in Nat /\ b <= sess[s].arg
    BY <2>1, BillableBound
  <2>3. reported' \in {reported, reported + b}
    BY DEF Report
  <2> HIDE DEF b
  <2>4. QED BY <1>2, <2>1, <2>2, <2>3
<1>4. /\ sess' \in [Sessions -> Session]
      /\ sess'[s] = [sess[s] EXCEPT !.pc = "commit"]
      /\ \A v \in Sessions \ {s} : sess'[v] = sess[v]
  BY <1>1, <1>2, GotoEffect DEF BillingInv
<1>5. /\ sess'[s].pc = "commit" /\ sess'[s].arg = sess[s].arg
      /\ sess'[s].seen = sess[s].seen /\ sess'[s].new = sess[s].new
  BY <1>2, <1>4 DEF Session
<1>6. TypeOK'
  BY <1>1, <1>3, <1>4 DEF BillingInv, TypeOK
<1>7. LockHeld'
  BY <1>1, <1>2, <1>4, <1>5 DEF BillingInv, LockHeld, Sessions
<1>8. SenderMemory'
  <2> SUFFICES ASSUME NEW v \in Senders PROVE SenderMemory!(v)'
    BY DEF SenderMemory
  <2>1. CASE v = s
    BY <1>1, <1>5, <2>1 DEF BillingInv, SenderMemory
  <2>2. CASE v # s
    <3>1. sess'[v] = sess[v] /\ sess[v].pc = "idle"
      BY <1>1, <1>4, <2>2 DEF BillingInv, LockHeld, Sessions
    <3>2. QED BY <3>1
  <2>3. QED BY <2>1, <2>2
<1>9. HookMemory'
  BY <1>1, <1>2, <1>4 DEF BillingInv, HookMemory, Sessions
<1>10. MeteredWithinSent'
  <2>1. reported + sess[s].arg <= sent /\ sess[s].arg \in Nat
    BY <1>1, <1>2 DEF BillingInv, SenderMemory, Session
  <2>2. QED BY <1>1, <1>2, <1>3, <2>1 DEF MeteredWithinSent
<1>11. EventsSound' /\ SubsSound' /\ UsageWithinBounds'
  BY <1>1 DEF BillingInv, EventsSound, SubsSound, UsageWithinBounds
<1>12. QED BY <1>6, <1>7, <1>8, <1>9, <1>10, <1>11 DEF BillingInv

LEMMA SenderCommitsStep ==
  ASSUME BillingInv, NEW s \in Senders, SenderCommits(s)
  PROVE  /\ BillingInv'
         /\ row' = [row EXCEPT !.credits = @ - sess[s].arg, !.count = @ + sess[s].arg]
<1>1. /\ UNCHANGED <<links, subs, events, answered, sent, reported, granted, faults>>
      /\ row' = Flushed(s) /\ lock' = Nobody /\ Close(s) /\ sess[s].pc = "commit"
  BY DEF SenderCommits, stripeVars
<1>2. /\ s \in Sessions /\ s \notin Hooks /\ sess[s] \in Session /\ sess[s].arg \in Nat
      /\ row \in Business /\ row.credits \in Int /\ row.count \in Nat
      /\ sent \in Nat /\ granted \in Nat
  BY BillingAssumption DEF Sessions, BillingInv, TypeOK, Session, Business
<1>3. /\ sess' \in [Sessions -> Session]
      /\ sess'[s] = Idle
      /\ \A v \in Sessions \ {s} : sess'[v] = sess[v]
  BY <1>1, <1>2, CloseEffect DEF BillingInv
<1>4. /\ sess[s].seen = row
      /\ sess[s].new = [row EXCEPT !.credits = @ - sess[s].arg, !.count = @ + sess[s].arg]
      /\ sess[s].arg <= sent + row.credits
      /\ sess[s].arg + row.count <= sent
  BY <1>1 DEF BillingInv, SenderMemory
<1>5. row' = [row EXCEPT !.credits = @ - sess[s].arg, !.count = @ + sess[s].arg]
  BY <1>1, <1>2, <1>4, FlushedRow DEF BillingInv
<1>6. /\ row' \in Business
      /\ row'.credits = row.credits - sess[s].arg
      /\ row'.count = row.count + sess[s].arg
  BY <1>2, <1>5, DeductedRow
<1>7. TypeOK'
  BY <1>1, <1>3, <1>6 DEF BillingInv, TypeOK
<1>8. \A v \in Senders : sess'[v].pc = "idle"
  <2> SUFFICES ASSUME NEW v \in Senders PROVE sess'[v].pc = "idle"
    OBVIOUS
  <2>1. CASE v = s
    BY <1>3, <2>1 DEF Idle
  <2>2. CASE v # s
    BY Zenon, <1>1, <1>3, <2>2 DEF BillingInv, LockHeld, Sessions
  <2>3. QED BY <2>1, <2>2
<1>9. LockHeld' /\ SenderMemory'
  BY <1>1, <1>8, BillingAssumption DEF LockHeld, SenderMemory
<1>10. HookMemory'
  BY <1>1, <1>2, <1>3 DEF BillingInv, HookMemory, Sessions
<1>11. UsageWithinBounds' /\ MeteredWithinSent'
  BY <1>1, <1>2, <1>4, <1>6 DEF BillingInv, UsageWithinBounds, MeteredWithinSent
<1>12. EventsSound' /\ SubsSound'
  BY <1>1 DEF BillingInv, EventsSound, SubsSound
<1>13. QED BY <1>5, <1>7, <1>9, <1>10, <1>11, <1>12 DEF BillingInv

LEMMA SenderFailsStep ==
  ASSUME BillingInv, NEW s \in Senders, SenderFails(s)
  PROVE  BillingInv'
<1>1. /\ UNCHANGED <<row, links, subs, events, answered, sent, reported, granted>>
      /\ faults' \in Nat /\ lock' = Nobody /\ Close(s) /\ sess[s].pc # "idle"
  BY BillingAssumption DEF SenderFails, Rollback, Fault, stripeVars, BillingInv, TypeOK
<1>2. s \in Sessions /\ s \notin Hooks
  BY BillingAssumption DEF Sessions
<1>3. /\ sess' \in [Sessions -> Session]
      /\ sess'[s] = Idle
      /\ \A v \in Sessions \ {s} : sess'[v] = sess[v]
  BY <1>1, <1>2, CloseEffect DEF BillingInv
<1>4. TypeOK'
  BY <1>1, <1>3 DEF BillingInv, TypeOK
<1>5. \A v \in Senders : sess'[v].pc = "idle"
  <2> SUFFICES ASSUME NEW v \in Senders PROVE sess'[v].pc = "idle"
    OBVIOUS
  <2>1. CASE v = s
    BY <1>3, <2>1 DEF Idle
  <2>2. CASE v # s
    BY <1>1, <1>3, <2>2 DEF BillingInv, LockHeld, Sessions
  <2>3. QED BY <2>1, <2>2
<1>6. LockHeld' /\ SenderMemory'
  BY <1>1, <1>5, BillingAssumption DEF LockHeld, SenderMemory
<1>7. HookMemory'
  BY <1>1, <1>2, <1>3 DEF BillingInv, HookMemory, Sessions
<1>8. EventsSound' /\ SubsSound' /\ UsageWithinBounds' /\ MeteredWithinSent'
  BY <1>1 DEF BillingInv, EventsSound, SubsSound, UsageWithinBounds, MeteredWithinSent
<1>9. QED BY <1>4, <1>6, <1>7, <1>8 DEF BillingInv

LEMMA BillingStep == BillingInv /\ [Next]_vars => BillingInv'
<1> SUFFICES ASSUME BillingInv, [Next]_vars PROVE BillingInv'
  BY Zenon
<1>1. CASE UNCHANGED vars
  BY <1>1 DEF vars, BillingInv, TypeOK, EventsSound, SubsSound, LockHeld, SenderMemory,
     HookMemory, UsageWithinBounds, MeteredWithinSent
<1>2. CASE \E item \in Sold : RequestLink(item)
  BY <1>2, RequestLinkStep
<1>3. CASE Stripe
  BY <1>3, PayStep, RenewStep DEF Stripe
<1>4. CASE \E h \in Hooks : HookStep(h) \/ \E i \in DOMAIN events : Receive(h, i)
  BY <1>4, LineItemsStep, HookCommitsStep, HookFailsStep, ReceiveStep DEF HookStep
<1>5. CASE \E s \in Senders : SenderStep(s) \/ \E q \in 1..MaxQuantity : TrackMessageSent(s, q)
  BY <1>5, ReportStep, SenderCommitsStep, SenderFailsStep, TrackMessageSentStep DEF SenderStep
<1>6. QED BY <1>1, <1>2, <1>3, <1>4, <1>5 DEF Next

-----------------------------------------------------------------------------
(* Theorems *)

\* The invariant holds in every reachable state.
THEOREM BillingInvariant == Spec => []BillingInv
BY BillingInit, BillingStep, PTL DEF Spec

\* Every variable keeps its type: the handlers of events in any order never
\* write a status, a seat limit or an addon the columns do not know.
THEOREM BillingTypes == Spec => []TypeOK
<1>1. BillingInv => TypeOK
  BY DEF BillingInv
<1>2. QED BY <1>1, BillingInvariant, PTL

\* The balance stays between minus what was sent and what was granted, however
\* sends and deliveries overlap, fail and repeat.
THEOREM BalanceIsBounded == Spec => []UsageWithinBounds
<1>1. BillingInv => UsageWithinBounds
  BY DEF BillingInv
<1>2. QED BY <1>1, BillingInvariant, PTL

\* track_message_sent never reports more segments than were sent.
THEOREM NotMeteredTwice == Spec => []MeteredWithinSent
<1>1. BillingInv => MeteredWithinSent
  BY DEF BillingInv
<1>2. QED BY <1>1, BillingInvariant, PTL

\* Only commits change the row, and only report changes what is reported.
LEMMA WhoWrites ==
  ASSUME Next
  PROVE  /\ row' # row => \/ \E h \in Hooks : HookCommits(h)
                          \/ \E s \in Senders : SenderCommits(s)
         /\ reported' # reported => \E s \in Senders : Report(s)
<1> USE DEF stripeVars
<1>1. CASE \E item \in Sold : RequestLink(item)
  BY <1>1 DEF RequestLink
<1>2. CASE Stripe
  BY <1>2 DEF Stripe, Pay, Renew
<1>3. ASSUME NEW h \in Hooks, HookStep(h) \/ \E i \in DOMAIN events : Receive(h, i)
      PROVE  reported' = reported /\ (row' # row => HookCommits(h))
  BY <1>3 DEF HookStep, LineItems, HookCommits, HookFails, Receive
<1>4. ASSUME NEW s \in Senders, SenderStep(s) \/ \E q \in 1..MaxQuantity : TrackMessageSent(s, q)
      PROVE  (row' # row => SenderCommits(s)) /\ (reported' # reported => Report(s))
  BY <1>4 DEF SenderStep, Report, SenderCommits, SenderFails, TrackMessageSent
<1>5. QED BY <1>1, <1>2, <1>3, <1>4 DEF Next

\* A send's commit subtracts its own segments from the committed balance:
\* nothing a webhook delivery wrote is lost to it.
THEOREM GrantsSurviveSends == Spec => SendsKeepGrants
<1>1. BillingInv /\ [Next]_vars =>
        [\A s \in Senders :
           sess[s].pc = "commit" /\ sess'[s].pc = "idle" /\ row' # row
             => row' = [row EXCEPT !.credits = @ - sess[s].arg, !.count = @ + sess[s].arg]]_vars
  <2> SUFFICES ASSUME BillingInv, Next, NEW s \in Senders,
                      sess[s].pc = "commit", sess'[s].pc = "idle", row' # row
               PROVE  row' = [row EXCEPT !.credits = @ - sess[s].arg, !.count = @ + sess[s].arg]
    OBVIOUS
  <2>1. s \in Sessions /\ s \notin Hooks /\ sess \in [Sessions -> Session]
    BY BillingAssumption DEF Sessions, BillingInv, TypeOK
  <2>2. ASSUME NEW h \in Hooks, HookCommits(h) PROVE FALSE
    <3>1. sess' = [sess EXCEPT ![h] = Idle] /\ h # s
      BY <2>1, <2>2 DEF HookCommits, Close
    <3>2. QED BY <2>1, <3>1
  <2>3. ASSUME NEW v \in Senders, SenderCommits(v) PROVE v = s
    <3>1. sess' = [sess EXCEPT ![v] = Idle]
      BY <2>3 DEF SenderCommits, Close
    <3>2. QED BY <2>1, <3>1
  <2>4. SenderCommits(s)
    BY <2>2, <2>3, WhoWrites
  <2>5. QED BY <2>4, SenderCommitsStep
<1>2. QED BY <1>1, BillingInvariant, PTL DEF Spec, SendsKeepGrants

\* Usage is computed from the balance as it is when the report is made.
THEOREM MeteringIsCurrent == Spec => MeteredByCurrentBalance
<1>1. BillingInv /\ [Next]_vars =>
        [\A s \in Senders :
           sess[s].pc = "report" /\ reported' # reported
             => reported' - reported <= Billable(sess[s].arg, row.credits)]_vars
  <2> SUFFICES ASSUME BillingInv, Next, NEW s \in Senders,
                      sess[s].pc = "report", reported' # reported
               PROVE  reported' - reported <= Billable(sess[s].arg, row.credits)
    OBVIOUS
  <2>1. PICK v \in Senders : Report(v)
    BY WhoWrites
  <2>2. lock = s /\ lock = v
    BY <2>1 DEF BillingInv, LockHeld, Report
  <2>3. sess[s].seen = row
    BY DEF BillingInv, SenderMemory
  <2> DEFINE b == Billable(sess[s].arg, row.credits)
  <2>4. reported' \in {reported, reported + b}
    BY <2>1, <2>2, <2>3 DEF Report
  <2>5. b \in Nat /\ reported \in Nat
    <3>1. sess[s].arg \in Nat /\ row.credits \in Int /\ reported \in Nat
      BY DEF BillingInv, TypeOK, Session, Business, Sessions
    <3>2. QED BY <3>1, BillableBound
  <2> HIDE DEF b
  <2>6. reported' = reported + b
    BY <2>4
  <2>7. reported' - reported <= b
    BY <2>5, <2>6
  <2>8. QED BY <2>7 DEF b
<1>2. QED BY <1>1, BillingInvariant, PTL DEF Spec, MeteredByCurrentBalance

-----------------------------------------------------------------------------
(* Top-ups, when deliveries are handled one after the other *)

\* One webhook session, and no call that fails.
InTurn == MaxFaults = 0 /\ \A g, h \in Hooks : g = h

\* The top-ups that were answered, and the least balance they call for.
Paid == {i \in answered : events[i].item = "messaging"}
Owed == Pack * Cardinality(Paid) - sent

\* The balance covers them, also after the send under way; a delivery under way
\* is of an event not answered yet, has read a balance that covers the others,
\* and is about to write a pack more if it is of a top-up.
TopUpsInv ==
  /\ Owed <= row.credits
  /\ \A s \in Senders : sess[s].pc # "idle" => Owed <= row.credits - sess[s].arg
  /\ \A h \in Hooks : sess[h].pc # "idle" =>
       /\ sess[h].arg \notin answered
       /\ Owed <= sess[h].seen.credits
       /\ sess[h].pc = "commit" /\ events[sess[h].arg].item = "messaging"
            => sess[h].new.credits = sess[h].seen.credits + Pack

LEMMA PaidIsFinite == ASSUME TypeOK PROVE IsFiniteSet(Paid)
<1>1. DOMAIN events = 1 .. Len(events) /\ Len(events) \in Nat
  BY DEF TypeOK
<1>2. IsFiniteSet(1 .. Len(events))
  BY <1>1, FS_Interval
<1>3. Paid \subseteq 1 .. Len(events)
  BY <1>1 DEF TypeOK, Paid
<1>4. QED BY <1>2, <1>3, FS_Subset

LEMMA OwedTyped == ASSUME TypeOK PROVE Owed \in Int
<1> DEFINE n == Cardinality(Paid)
<1>1. n \in Nat
  BY PaidIsFinite, FS_CardinalityType
<1>2. Owed = Pack * n - sent
  BY DEF Owed
<1> HIDE DEF n
<1>3. Pack \in Nat /\ sent \in Nat
  BY BillingAssumption DEF TypeOK
<1>4. Pack * n \in Nat
  BY <1>1, <1>3
<1>5. QED BY <1>2, <1>3, <1>4

\* One more top-up answered calls for one more pack.
LEMMA OneMorePaid ==
  ASSUME TypeOK, NEW i, i \notin answered, sent' = sent, Paid' = Paid \cup {i}
  PROVE  Owed' = Owed + Pack
<1> DEFINE n == Cardinality(Paid)
<1>1. n \in Nat
  BY PaidIsFinite, FS_CardinalityType
<1>2. i \notin Paid
  BY DEF Paid
<1>3. Cardinality(Paid \cup {i}) = n + 1
  BY <1>2, PaidIsFinite, FS_AddElement
<1>4. Owed = Pack * n - sent /\ Owed' = Pack * (n + 1) - sent
  BY <1>3 DEF Owed
<1> HIDE DEF n
<1>5. Pack \in Nat /\ sent \in Nat
  BY BillingAssumption DEF TypeOK
<1>6. Pack * (n + 1) = Pack * n + Pack /\ Pack * n \in Nat
  BY <1>1, <1>5
<1>7. QED BY <1>4, <1>5, <1>6

LEMMA TopUpsInit == Init => TopUpsInv
<1> SUFFICES ASSUME Init PROVE TopUpsInv
  OBVIOUS
<1>1. Paid = {}
  BY DEF Init, Paid
<1>2. Cardinality(Paid) = 0
  BY <1>1, FS_EmptySet
<1>3. Owed = 0 /\ row.credits = 0
  BY <1>2, BillingAssumption DEF Owed, Init, NewBusiness
<1>4. \A w \in Sessions : sess[w].pc = "idle"
  BY DEF Init, Idle
<1>5. QED BY <1>3, <1>4 DEF TopUpsInv, Sessions

\* Stripe adds events and changes nothing else that counts here.
LEMMA TopUpsOutside ==
  ASSUME BillingInv, TopUpsInv, UNCHANGED <<row, sess, answered, sent>>,
         \A i \in DOMAIN events : events'[i] = events[i]
  PROVE  TopUpsInv'
<1>1. answered \subseteq DOMAIN events
  BY DEF BillingInv, TypeOK
<1>2. Paid' = Paid
  BY <1>1 DEF Paid
<1>3. Owed' = Owed
  BY <1>2 DEF Owed
<1>4. \A h \in Hooks : sess[h].pc # "idle" => events'[sess[h].arg] = events[sess[h].arg]
  BY DEF BillingInv, HookMemory
<1>5. QED BY <1>3, <1>4 DEF TopUpsInv

LEMMA EventsStay ==
  ASSUME BillingInv, Stripe \/ \E item \in Sold : RequestLink(item)
  PROVE  /\ \A i \in DOMAIN events : events'[i] = events[i]
         /\ UNCHANGED <<row, sess, answered, sent>>
<1>1. events \in Seq(EventType)
  BY DEF BillingInv, TypeOK
<1>2. ASSUME NEW e PROVE \A i \in DOMAIN events : Append(events, e)[i] = events[i]
  <2>1. DOMAIN events = 1 .. Len(events) /\ Len(events) \in Nat
    BY <1>1
  <2>2. QED BY <1>1, <2>1
<1>3. ASSUME NEW e, NEW f
      PROVE  \A i \in DOMAIN events : Append(Append(events, e), f)[i] = events[i]
  <2> DEFINE es == events
             U == {es[i] : i \in DOMAIN es} \cup {e, f}
  <2>1. es \in Seq(U) /\ DOMAIN es = 1 .. Len(es) /\ Len(es) \in Nat /\ e \in U /\ f \in U
    BY <1>1
  <2> HIDE DEF es, U
  <2>2. /\ Append(es, e) \in Seq(U) /\ Len(Append(es, e)) = Len(es) + 1
        /\ \A i \in 1 .. Len(es) : Append(es, e)[i] = es[i]
    BY <2>1
  <2> DEFINE fs == Append(es, e)
  <2> HIDE DEF fs
  <2>3. fs \in Seq(U) /\ Len(fs) = Len(es) + 1 /\ \A i \in 1 .. Len(es) : fs[i] = es[i]
    BY <2>2 DEF fs
  <2>4. \A i \in 1 .. Len(fs) : Append(fs, f)[i] = fs[i]
    BY <2>1, <2>3
  <2>5. \A i \in DOMAIN es : Append(fs, f)[i] = es[i]
    BY <2>1, <2>3, <2>4
  <2>6. QED BY <2>5 DEF fs, es
<1>4. ASSUME NEW link \in links, Pay(link)
      PROVE  \A i \in DOMAIN events : events'[i] = events[i]
  BY <1>2, <1>3, <1>4 DEF Pay
<1>5. ASSUME NEW s \in Subs, Renew(s)
      PROVE  \A i \in DOMAIN events : events'[i] = events[i]
  BY <1>2, <1>5 DEF Renew, Cancel, Invoice
<1>6. ASSUME NEW item \in Sold, RequestLink(item) PROVE events' = events
  BY <1>6 DEF RequestLink
<1>7. \A i \in DOMAIN events : events'[i] = events[i]
  BY <1>4, <1>5, <1>6 DEF Stripe
<1>8. UNCHANGED <<row, sess, answered, sent>>
  BY DEF Stripe, Pay, Renew, RequestLink
<1>9. QED BY <1>7, <1>8

\* A step that leaves the row, what is answered and the other sessions alone.
LEMMA TopUpsKept ==
  ASSUME BillingInv, TopUpsInv, NEW w \in Sessions,
         UNCHANGED <<row, events, answered>>, Owed' <= Owed, Owed' \in Int,
         \A v \in Sessions \ {w} : sess'[v] = sess[v],
         w \in Senders /\ sess'[w].pc # "idle" => Owed' <= row.credits - sess'[w].arg,
         w \in Hooks /\ sess'[w].pc # "idle" =>
            /\ sess'[w].arg \notin answered
            /\ Owed' <= sess'[w].seen.credits
            /\ sess'[w].pc = "commit" /\ events[sess'[w].arg].item = "messaging"
                 => sess'[w].new.credits = sess'[w].seen.credits + Pack
  PROVE  TopUpsInv'
<1>1. Owed \in Int /\ row.credits \in Int
  BY OwedTyped DEF BillingInv, TypeOK, Business
<1>2. Owed' <= row'.credits
  BY <1>1 DEF TopUpsInv
<1>3. ASSUME NEW s \in Senders, sess'[s].pc # "idle" PROVE Owed' <= row'.credits - sess'[s].arg
  <2>1. CASE s = w
    BY <1>3, <2>1
  <2>2. CASE s # w
    <3>1. sess'[s] = sess[s] /\ sess[s].arg \in Nat
      BY <2>2 DEF Sessions, BillingInv, TypeOK, Session
    <3>2. Owed <= row.credits - sess[s].arg
      BY <1>3, <3>1 DEF TopUpsInv
    <3>3. QED BY <1>1, <3>1, <3>2
  <2>3. QED BY <2>1, <2>2
<1>4. ASSUME NEW h \in Hooks, sess'[h].pc # "idle"
      PROVE  /\ sess'[h].arg \notin answered'
             /\ Owed' <= sess'[h].seen.credits
             /\ sess'[h].pc = "commit" /\ events'[sess'[h].arg].item = "messaging"
                  => sess'[h].new.credits = sess'[h].seen.credits + Pack
  <2>1. CASE h = w
    BY <1>4, <2>1
  <2>2. CASE h # w
    <3>1. sess'[h] = sess[h] /\ sess[h].seen.credits \in Int
      BY <2>2 DEF Sessions, BillingInv, TypeOK, Session, Business
    <3>2. /\ sess[h].arg \notin answered
          /\ Owed <= sess[h].seen.credits
          /\ sess[h].pc = "commit" /\ events[sess[h].arg].item = "messaging"
               => sess[h].new.credits = sess[h].seen.credits + Pack
      BY <1>4, <3>1 DEF TopUpsInv
    <3>3. QED BY <1>1, <3>1, <3>2
  <2>3. QED BY <2>1, <2>2
<1>5. QED BY <1>2, <1>3, <1>4 DEF TopUpsInv

LEMMA SameOwed == ASSUME UNCHANGED <<events, answered, sent>> PROVE Owed' = Owed
BY DEF Owed, Paid

LEMMA TopUpsReceive ==
  ASSUME InTurn, BillingInv, TopUpsInv, NEW h \in Hooks, NEW i \in DOMAIN events, Receive(h, i)
  PROVE  TopUpsInv'
<1>1. UNCHANGED <<row, events, sent>> /\ h \in Sessions /\ h \notin Senders
  BY BillingAssumption DEF Receive, stripeVars, Sessions
<1>2. Due(i) /\ i \notin answered
  BY BillingAssumption DEF Receive, Fault, InTurn, Due, BillingInv, TypeOK
<1>3. Owed \in Int /\ i \in Nat
  BY OwedTyped DEF BillingInv, TypeOK
<1>4. events[i] \in EventType /\ Sound(events[i])
  BY DEF BillingInv, TypeOK, EventsSound
<1>5. CASE Found(events[i])
  <2> DEFINE pc == IF events[i].item = "messaging" THEN "items" ELSE "commit"
  <2>1. Open(h, pc, i, Handled(events[i])) /\ answered' = answered
    BY <1>5 DEF Receive
  <2>2. Handled(events[i]) \in Business
    BY <1>4, HandledRow DEF BillingInv
  <2>3. /\ sess'[h] = [pc |-> pc, arg |-> i, seen |-> row, new |-> Handled(events[i])]
        /\ \A v \in Sessions \ {h} : sess'[v] = sess[v]
    BY <1>1, <1>3, <2>1, <2>2, OpenEffect DEF BillingInv
  <2>4. sess'[h].arg = i /\ sess'[h].seen = row /\ sess'[h].pc = pc
    BY <2>3
  <2>5. Owed' = Owed
    BY <1>1, <2>1, SameOwed
  <2>6. Owed <= row.credits
    BY DEF TopUpsInv
  <2>7. QED BY <1>1, <1>2, <1>3, <2>1, <2>3, <2>4, <2>5, <2>6, TopUpsKept
<1>6. CASE ~Found(events[i])
  <2>1. sess' = sess /\ answered' = answered \cup {i}
    BY <1>6 DEF Receive
  <2>2. events[i].item # "messaging"
    BY <1>4, <1>6 DEF Found, Sound
  <2>3. Paid' = Paid
    BY <1>1, <2>1, <2>2 DEF Paid
  <2>4. Owed' = Owed
    BY <1>1, <2>3 DEF Owed
  <2>5. \A g \in Hooks : sess[g].pc # "idle" => sess[g].arg # i
    BY <1>2 DEF Due
  <2>6. QED BY <1>1, <2>1, <2>4, <2>5 DEF TopUpsInv
<1>7. QED BY <1>5, <1>6

LEMMA TopUpsLineItems ==
  ASSUME InTurn, BillingInv, TopUpsInv, NEW h \in Hooks, LineItems(h)
  PROVE  TopUpsInv'
<1>1. /\ UNCHANGED <<row, events, answered, sent>> /\ h \in Sessions /\ h \notin Senders
      /\ sess[h].pc = "items" /\ sess[h] \in Session
  BY BillingAssumption DEF LineItems, stripeVars, Sessions, BillingInv, TypeOK
<1>2. sess' = [sess EXCEPT ![h].pc = "commit", ![h].new = WithPack(@)]
  <2>1. ~Fault
    BY BillingAssumption DEF Fault, InTurn, BillingInv, TypeOK
  <2>2. QED BY <2>1 DEF LineItems
<1>3. sess \in [Sessions -> Session]
  BY DEF BillingInv, TypeOK
<1>4. \A v \in Sessions \ {h} : sess'[v] = sess[v]
  BY <1>2, <1>3
<1> DEFINE more == WithPack(sess[h].new)
<1>5. sess'[h] = [sess[h] EXCEPT !.pc = "commit", !.new = more]
  BY <1>1, <1>2, <1>3
<1> HIDE DEF more
<1>6. sess'[h].arg = sess[h].arg /\ sess'[h].seen = sess[h].seen /\ sess'[h].new = more
  BY <1>1, <1>5 DEF Session
<1>7. sess[h].new.credits = sess[h].seen.credits /\ sess[h].new \in Business
  BY <1>1 DEF BillingInv, HookMemory, Session
<1>8. more.credits = sess[h].seen.credits + Pack
  BY <1>7, PackAdded DEF more
<1>9. sess[h].arg \notin answered /\ Owed <= sess[h].seen.credits
  BY <1>1 DEF TopUpsInv
<1>10. Owed' = Owed /\ Owed \in Int
  BY <1>1, SameOwed, OwedTyped DEF BillingInv
<1>11. QED BY <1>1, <1>4, <1>6, <1>8, <1>9, <1>10, TopUpsKept

LEMMA TopUpsCommit ==
  ASSUME InTurn, BillingInv, TopUpsInv, NEW h \in Hooks, HookCommits(h)
  PROVE  TopUpsInv'
<1> DEFINE i == sess[h].arg
           seen == sess[h].seen.credits
           new == sess[h].new.credits
<1>1. /\ UNCHANGED <<lock, events, sent>> /\ answered' = answered \cup {i} /\ Close(h)
      /\ row' = Flushed(h) /\ sess[h].pc = "commit"
      /\ lock = Nobody \/ sess[h].new = sess[h].seen
  BY DEF HookCommits, stripeVars
<1>2. h \in Sessions /\ h \notin Senders /\ sess[h] \in Session
  BY BillingAssumption DEF Sessions, BillingInv, TypeOK
<1>3. sess'[h] = Idle /\ \A v \in Sessions \ {h} : sess'[v] = sess[v]
  BY <1>1, <1>2, CloseEffect DEF BillingInv
<1>4. /\ row'.credits = IF new = seen THEN row.credits ELSE new
      /\ sess[h].new = sess[h].seen => row' = row
  BY <1>1, <1>2, FlushedRow DEF BillingInv
<1>5. /\ i \notin answered /\ Owed <= seen /\ Owed <= row.credits
      /\ events[i].item = "messaging" => new = seen + Pack
  BY <1>1 DEF TopUpsInv
<1>6. new \in {seen, seen + Pack}
  BY <1>1 DEF BillingInv, HookMemory
<1>7. seen \in Int /\ new \in Int /\ row.credits \in Int /\ Pack \in Nat /\ Owed \in Int
  BY <1>2, OwedTyped, BillingAssumption DEF BillingInv, TypeOK, Session, Business
<1>8. Owed' = IF events[i].item = "messaging" THEN Owed + Pack ELSE Owed
  <2>1. CASE events[i].item = "messaging"
    <3>1. Paid' = Paid \cup {i}
      BY <1>1, <2>1 DEF Paid
    <3>2. QED BY <1>1, <1>5, <2>1, <3>1, OneMorePaid DEF BillingInv
  <2>2. CASE events[i].item # "messaging"
    <3>1. Paid' = Paid
      BY <1>1, <2>2 DEF Paid
    <3>2. QED BY <1>1, <2>2, <3>1 DEF Owed
  <2>3. QED BY <2>1, <2>2
<1>9. \A g \in Hooks : sess'[g].pc = "idle"
  BY <1>3 DEF InTurn, Idle
<1>10. \A s \in Senders : s \in Sessions \ {h} /\ sess'[s] = sess[s]
  BY <1>2, <1>3 DEF Sessions
<1> HIDE DEF i, seen, new
<1>11. Owed' <= row'.credits
  BY <1>4, <1>5, <1>6, <1>7, <1>8
<1>12. ASSUME NEW s \in Senders, sess[s].pc # "idle"
       PROVE  Owed' <= row'.credits - sess[s].arg
  <2>1. lock # Nobody
    BY <1>12, BillingAssumption DEF BillingInv, LockHeld
  <2>2. row' = row /\ new = seen
    BY <1>1, <1>4, <2>1 DEF new, seen
  <2>3. Owed' = Owed
    BY <1>5, <1>7, <1>8, <2>2
  <2>4. Owed <= row.credits - sess[s].arg
    BY <1>12 DEF TopUpsInv
  <2>5. QED BY <2>2, <2>3, <2>4
<1>13. QED BY <1>9, <1>10, <1>11, <1>12 DEF TopUpsInv

LEMMA TopUpsSend ==
  ASSUME BillingInv, TopUpsInv, NEW s \in Senders, NEW q \in 1..MaxQuantity,
         TrackMessageSent(s, q)
  PROVE  TopUpsInv'
<1> DEFINE pc == IF Billable(q, row.credits) > 0 /\ row.subscription \in Metered
                   THEN "report" ELSE "commit"
<1>1. /\ UNCHANGED <<row, events, answered>> /\ sent' = sent + q /\ Open(s, pc, q, Deducted(q))
      /\ s \in Sessions /\ s \notin Hooks /\ q \in Nat /\ sent \in Nat /\ row \in Business
  BY BillingAssumption DEF TrackMessageSent, stripeVars, Sessions, BillingInv, TypeOK
<1>2. pc \in {"report", "commit"}
  OBVIOUS
<1> HIDE DEF pc
<1>3. Deducted(q) \in Business
  BY <1>1, DeductedRow DEF Deducted
<1>4. /\ sess'[s] = [pc |-> pc, arg |-> q, seen |-> row, new |-> Deducted(q)]
      /\ \A v \in Sessions \ {s} : sess'[v] = sess[v]
  BY <1>1, <1>2, <1>3, OpenEffect DEF BillingInv
<1>5. Owed \in Int /\ row.credits \in Int
  BY OwedTyped DEF BillingInv, TypeOK, Business
<1>6. Owed' = Owed - q
  <2> DEFINE n == Pack * Cardinality(Paid)
  <2>1. Owed = n - sent /\ Owed' = n - sent'
    BY <1>1 DEF Owed, Paid
  <2>2. n \in Int
    <3>1. Cardinality(Paid) \in Nat /\ Pack \in Nat
      BY PaidIsFinite, FS_CardinalityType, BillingAssumption DEF BillingInv
    <3>2. QED BY <3>1
  <2> HIDE DEF n
  <2>3. QED BY <1>1, <2>1, <2>2
<1>7. Owed <= row.credits
  BY DEF TopUpsInv
<1>8. sess'[s].arg = q /\ Owed' <= Owed /\ Owed' <= row.credits - q /\ Owed' \in Int
  BY <1>1, <1>4, <1>5, <1>6, <1>7
<1>9. QED BY <1>1, <1>4, <1>8, TopUpsKept

LEMMA TopUpsReport ==
  ASSUME BillingInv, TopUpsInv, NEW s \in Senders, Report(s)
  PROVE  TopUpsInv'
<1>1. /\ UNCHANGED <<row, events, answered, sent>> /\ Goto(s, "commit") /\ sess[s].pc = "report"
      /\ s \in Sessions /\ s \notin Hooks /\ sess[s] \in Session
  BY BillingAssumption DEF Report, stripeVars, Sessions, BillingInv, TypeOK
<1>2. sess'[s] = [sess[s] EXCEPT !.pc = "commit"] /\ \A v \in Sessions \ {s} : sess'[v] = sess[v]
  BY <1>1, GotoEffect DEF BillingInv
<1>3. sess'[s].arg = sess[s].arg
  BY <1>1, <1>2 DEF Session
<1>4. Owed <= row.credits - sess[s].arg
  BY <1>1 DEF TopUpsInv
<1>5. Owed' = Owed /\ Owed \in Int
  BY <1>1, SameOwed, OwedTyped DEF BillingInv
<1>6. Owed' <= Owed /\ Owed' \in Int /\ Owed' <= row.credits - sess'[s].arg
  BY <1>3, <1>4, <1>5
<1>7. QED BY <1>1, <1>2, <1>6, TopUpsKept

LEMMA TopUpsSenderCommits ==
  ASSUME BillingInv, TopUpsInv, NEW s \in Senders, SenderCommits(s)
  PROVE  TopUpsInv'
<1>1. /\ UNCHANGED <<events, answered, sent>> /\ Close(s) /\ sess[s].pc = "commit"
      /\ s \in Sessions /\ s \notin Hooks /\ sess[s].arg \in Nat /\ row \in Business
  BY BillingAssumption DEF SenderCommits, stripeVars, Sessions, BillingInv, TypeOK, Session
<1>2. sess'[s] = Idle /\ \A v \in Sessions \ {s} : sess'[v] = sess[v]
  BY <1>1, CloseEffect DEF BillingInv
<1>3. row'.credits = row.credits - sess[s].arg
  BY <1>1, SenderCommitsStep, DeductedRow
<1>4. Owed <= row.credits - sess[s].arg
  BY <1>1 DEF TopUpsInv
<1>5. Owed' = Owed
  BY <1>1, SameOwed
<1>6. \A v \in Senders : sess'[v].pc = "idle"
  <2>1. \A v \in Senders : v # s => sess[v].pc = "idle"
    BY <1>1 DEF BillingInv, LockHeld
  <2>2. QED BY <1>2, <2>1 DEF Idle, Sessions
<1>7. \A h \in Hooks : sess'[h] = sess[h]
  BY <1>1, <1>2 DEF Sessions
<1>8. QED BY <1>1, <1>3, <1>4, <1>5, <1>6, <1>7 DEF TopUpsInv

\* A session that closes without a commit.
LEMMA TopUpsFails ==
  ASSUME BillingInv, TopUpsInv,
         (\E h \in Hooks : HookFails(h)) \/ (\E s \in Senders : SenderFails(s))
  PROVE  TopUpsInv'
<1>1. PICK w \in Sessions : Close(w) /\ UNCHANGED <<row, events, answered, sent>>
  BY DEF HookFails, SenderFails, stripeVars, Sessions
<1>2. sess'[w] = Idle /\ \A v \in Sessions \ {w} : sess'[v] = sess[v]
  BY <1>1, CloseEffect DEF BillingInv
<1>3. sess'[w].pc = "idle"
  BY <1>2 DEF Idle
<1>4. Owed' = Owed /\ Owed \in Int
  BY <1>1, SameOwed, OwedTyped DEF BillingInv
<1>5. QED BY <1>1, <1>2, <1>3, <1>4, TopUpsKept

LEMMA TopUpsStep == InTurn /\ BillingInv /\ TopUpsInv /\ [Next]_vars => TopUpsInv'
<1> SUFFICES ASSUME InTurn, BillingInv, TopUpsInv, [Next]_vars PROVE TopUpsInv'
  OBVIOUS
<1>1. CASE UNCHANGED vars
  BY <1>1, SameOwed DEF vars, TopUpsInv
<1>2. CASE Stripe \/ \E item \in Sold : RequestLink(item)
  BY <1>2, EventsStay, TopUpsOutside
<1>3. CASE \E h \in Hooks : HookStep(h) \/ \E i \in DOMAIN events : Receive(h, i)
  BY <1>3, TopUpsLineItems, TopUpsCommit, TopUpsFails, TopUpsReceive DEF HookStep
<1>4. CASE \E s \in Senders : SenderStep(s) \/ \E q \in 1..MaxQuantity : TrackMessageSent(s, q)
  BY <1>4, TopUpsReport, TopUpsSenderCommits, TopUpsFails, TopUpsSend DEF SenderStep
<1>5. QED BY <1>1, <1>2, <1>3, <1>4 DEF Next

\* Deliveries handled one after the other, whose calls do not fail, credit every
\* paid top-up, whatever is sent meanwhile: overlap and a failing look at the line
\* items are what can lose one.
THEOREM TopUpsInTurn == ASSUME InTurn PROVE Spec => []TopUpsAreCredited
<1>1. Init => TopUpsInv
  BY TopUpsInit
<1>2. BillingInv /\ TopUpsInv /\ [Next]_vars => TopUpsInv'
  BY TopUpsStep
<1>3. BillingInv /\ TopUpsInv => TopUpsAreCredited
  <2> SUFFICES ASSUME BillingInv, TopUpsInv, AtRest
               PROVE  row.credits >=
                 Pack * Cardinality({i \in DOMAIN events : events[i].item = "messaging"}) - sent
    BY DEF TopUpsAreCredited
  <2>1. Paid = {i \in DOMAIN events : events[i].item = "messaging"}
    BY DEF AtRest, Paid
  <2>2. Owed = Pack * Cardinality({i \in DOMAIN events : events[i].item = "messaging"}) - sent
    BY <2>1 DEF Owed
  <2>3. Owed <= row.credits /\ Owed \in Int /\ row.credits \in Int
    BY OwedTyped DEF TopUpsInv, BillingInv, TypeOK, Business
  <2>4. row.credits >= Owed
    BY <2>3
  <2>5. QED BY <2>2, <2>4
<1>4. QED BY <1>1, <1>2, <1>3, BillingInvariant, PTL DEF Spec
=============================================================================
