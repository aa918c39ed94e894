------------------------------ MODULE MCSales ------------------------------
(***************************************************************************)
(* Sales, Automation, Invoicing and Messaging on small instances.  They    *)
(* share no row a property of theirs is about, so a behaviour is one of    *)
(* one of them.                                                            *)
(***************************************************************************)
EXTENDS Sales, Automation, Invoicing, Messaging

VARIABLE part  \* the module whose steps this behaviour takes

mcVars == <<vars, autoVars, invoicingVars, messagingVars, part>>

\* One of the states Sales may start in is enough for the behaviours of the others.
MCInit == /\ SalesInit /\ AutomationInit /\ InvoicingInit /\ Init
          /\ part \in {"sales", "automation", "invoicing", "messaging"}
          /\ part # "sales" => Rows(customer) = {}

\* The module a behaviour is one of takes a step, and the others none.
OfSales(A) == part = "sales" /\ A /\ UNCHANGED <<autoVars, invoicingVars, messagingVars, part>>
OfAutomation(A) == part = "automation" /\ A /\ UNCHANGED <<vars, invoicingVars, messagingVars, part>>
OfInvoicing(A) == part = "invoicing" /\ A /\ UNCHANGED <<vars, autoVars, messagingVars, part>>
OfMessaging(A) == part = "messaging" /\ A /\ UNCHANGED <<vars, autoVars, invoicingVars, part>>

MCNext == \/ OfSales(SalesNext) \/ OfAutomation(AutomationNext)
          \/ OfInvoicing(InvoicingNext) \/ OfMessaging(Next)

\* The fairness of the modules.
MCSpec ==
    /\ MCInit /\ [][MCNext]_mcVars
    /\ \A s \in Sessions : WF_mcVars(OfSales(Continue(s)))
    /\ WF_mcVars(OfAutomation(AutomationRun))
    /\ WF_mcVars(OfMessaging(WorkerTake \/ WorkerBreak)) /\ WF_mcVars(OfMessaging(StopReturns))
    /\ \A m \in Messages : WF_mcVars(OfMessaging(HandleEvent(m)))
    /\ \A s \in Senders : WF_mcVars(OfMessaging(Send(s)))

\* Every variable of the modules keeps its type.
TypesOK == SalesTypeOK /\ AutomationTypeOK /\ InvoicingTypeOK /\ TypeOK

=============================================================================
