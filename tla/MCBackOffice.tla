---------------------------- MODULE MCBackOffice ----------------------------
(***************************************************************************)
(* The components that share nothing but the database, side by side: a     *)
(* behaviour picks one of them and leaves the others in their initial      *)
(* states, so that one run explores each on its own instance.              *)
(***************************************************************************)
EXTENDS Work, Campaign, Accounts, Catalogue, DataManagement, Calendar,
        Dispatch, TLC

CONSTANT Parts  \* the components this run explores

VARIABLE part

vars == <<workVars, campaignVars, accountVars, catalogueVars, dataVars, calendarVars,
          dispatchVars, part>>

Init == /\ WorkInit /\ CampaignInit /\ AccountsInit /\ CatalogueInit /\ DataInit
        /\ CalendarInit /\ DispatchInit
        /\ part \in Parts
        /\ part # "work" => \A j \in WorkJobs : work[j].employee = Unset
        /\ linked \in {{}, IF part = "calendar" THEN Staff ELSE {}}

NotWork == UNCHANGED <<campaignVars, accountVars, catalogueVars, dataVars, calendarVars, dispatchVars>>
NotCampaign == UNCHANGED <<workVars, accountVars, catalogueVars, dataVars, calendarVars,
                           dispatchVars>>
NotAccounts == UNCHANGED <<workVars, campaignVars, catalogueVars, dataVars, calendarVars,
                          dispatchVars>>
NotCatalogue == UNCHANGED <<workVars, campaignVars, accountVars, dataVars, calendarVars,
                          dispatchVars>>
NotData == UNCHANGED <<workVars, campaignVars, accountVars, catalogueVars, calendarVars,
                          dispatchVars>>
NotCalendar == UNCHANGED <<workVars, campaignVars, accountVars, catalogueVars, dataVars, dispatchVars>>
NotDispatch == UNCHANGED <<workVars, campaignVars, accountVars, catalogueVars, dataVars,
                           calendarVars>>

Next == /\ UNCHANGED part
        /\ \/ part = "work" /\ WorkNext /\ NotWork
           \/ part = "campaign" /\ CampaignNext /\ NotCampaign
           \/ part = "accounts" /\ AccountsNext /\ NotAccounts
           \/ part = "catalogue" /\ CatalogueNext /\ NotCatalogue
           \/ part = "import" /\ ImportNext /\ NotData
           \/ part = "export" /\ ExportNext /\ NotData
           \/ part = "calendar" /\ CalendarNext /\ NotCalendar
           \/ part = "dispatch" /\ DispatchNext /\ NotDispatch

Spec == Init /\ [][Next]_vars

\* Executions and webhook flows, of the largest instances, are alike.
Symmetry == Permutations(Tasks) \cup Permutations(Flows)

\* Every variable of the component that moves keeps its type.
TypesOK == /\ part = "work" => WorkTypeOK
           /\ part = "campaign" => CampaignTypeOK
           /\ part = "accounts" => AccountsTypeOK
           /\ part = "catalogue" => CatalogueTypeOK
           /\ part \in {"import", "export"} => DataTypeOK
           /\ part = "calendar" => CalendarTypeOK
           /\ part = "dispatch" => DispatchTypeOK

=============================================================================
