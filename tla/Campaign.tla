------------------------------ MODULE Campaign ------------------------------
(***************************************************************************)
(* Campaigns (services/campaign_service): a message to many customers,     *)
(* prepared by a request and sent by a background task.                    *)
(*                                                                         *)
(* The task keeps using the session of the request that started it.  When  *)
(* that request ends its session is closed: what was not committed is      *)
(* rolled back, and objects the task has already loaded belong to no       *)
(* session any more, so that changing them writes nothing.                 *)
(***************************************************************************)
EXTENDS Naturals, FiniteSets

CONSTANTS
    Campaigns, Contacts,
    Tasks,          \* background tasks that execute a campaign
    NoRow,          \* no such row yet
    MaxRuns         \* bound: executions begun

CampaignStatus == {"DRAFT", "SCHEDULED", "SENDING", "COMPLETED", "FAILED", "CANCELLED"}
RecipientStatus == {"PENDING", "SENT", "FAILED", "DELETED"}

ASSUME CampaignAssumption ==
    /\ Campaigns # {} /\ IsFiniteSet(Contacts)
    /\ MaxRuns \in Nat
    /\ NoRow \notin Campaigns \cup Contacts \cup RecipientStatus
                     \cup [status : CampaignStatus, total : Nat, sent : Nat, failed : Nat]

VARIABLES
    campaign,    \* campaigns table
    recipient,   \* campaign_recipients: one row per campaign and contact
    contact,     \* customers: is there an address, is there a row
    task,        \* the background tasks
    handed,      \* history: messages handed to the provider, per recipient
    raced,       \* history: campaigns taken up twice, unmarked or unprepared
    runs         \* executions begun

campaignVars == <<campaign, recipient, contact, task, handed, raced, runs>>

-----------------------------------------------------------------------------
CampaignRow == [status : CampaignStatus, total : Nat, sent : Nat, failed : Nat]

\* A task: its step, its campaign object, the recipients it loaded and has not
\* handled, the one in its hands with the provider's answer, and whether the
\* campaign object and the recipients still belong to its session.
TaskRecord == [at : {"idle", "tested", "marked", "sending", "answered"},
               of : Campaigns, copy : CampaignRow, list : SUBSET Contacts,
               current : Contacts \cup {NoRow}, ok : BOOLEAN,
               owns : BOOLEAN, ownsRows : BOOLEAN, closed : BOOLEAN]
NoTask == [at |-> "idle", of |-> CHOOSE c \in Campaigns : TRUE,
           copy |-> [status |-> "DRAFT", total |-> 0, sent |-> 0, failed |-> 0],
           list |-> {}, current |-> NoRow, ok |-> FALSE,
           owns |-> TRUE, ownsRows |-> TRUE, closed |-> FALSE]

Addressed == {k \in Contacts : contact[k] = "reachable"}
Update(t, rec) == task' = [task EXCEPT ![t] = rec]

\* A commit of the task writes the campaign's changed columns if it still owns it.
SaveCampaign(t, new) ==
    LET x == task[t] IN
    campaign' = IF x.owns
                THEN [campaign EXCEPT ![x.of] =
                        [f \in DOMAIN new |-> IF new[f] = x.copy[f] THEN @[f] ELSE new[f]]]
                ELSE campaign

CampaignInit ==
    /\ campaign = [c \in Campaigns |-> NoRow]
    /\ recipient = [c \in Campaigns |-> [k \in Contacts |-> NoRow]]
    /\ contact = [k \in Contacts |-> "reachable"]
    /\ task = [t \in Tasks |-> NoTask]
    /\ handed = [c \in Campaigns |-> [k \in Contacts |-> 0]]
    /\ raced = {} /\ runs = 0

-----------------------------------------------------------------------------
\* MassEmailTool and POST /campaigns: create_campaign commits the draft ...
CreateCampaign(c) ==
    /\ campaign[c] = NoRow
    /\ campaign' = [campaign EXCEPT ![c] = [status |-> "DRAFT", total |-> 0, sent |-> 0, failed |-> 0]]
    /\ UNCHANGED <<recipient, contact, task, handed, raced, runs>>

\* ... and prepare_audience, in a second transaction that may never come, adds
\* the customers that have an address.  The campaign is listed already: it may
\* even be executing by then.
PrepareAudience(c) ==
    /\ campaign[c] # NoRow
    /\ \A k \in Contacts : recipient[c][k] = NoRow
    /\ recipient' = [recipient EXCEPT ![c] = [k \in Contacts |->
                        IF k \in Addressed THEN "PENDING" ELSE NoRow]]
    /\ campaign' = [campaign EXCEPT ![c].total = Cardinality(Addressed)]
    /\ raced' = IF \/ campaign[c].status # "DRAFT"
                   \/ \E t \in Tasks : task[t].at # "idle" /\ task[t].of = c
                THEN raced \cup {c} ELSE raced
    /\ UNCHANGED <<contact, task, handed, runs>>

\* A customer loses the address, or is deleted.
ContactChanges(k, to) ==
    /\ contact[k] = "reachable"
    /\ contact' = [contact EXCEPT ![k] = to]
    /\ UNCHANGED <<campaign, recipient, task, handed, raced, runs>>

\* Mutant of Executable: a campaign that was interrupted may be executed again.
ExecutableAgain(status) == status \in {"DRAFT", "SCHEDULED", "SENDING"}

\* execute_campaign refuses any other status.
Executable(status) == status \in {"DRAFT", "SCHEDULED"}

\* ExecuteBlastTool and POST /campaigns/{id}/execute start a task.
ExecuteTest(t, c) ==
    /\ task[t].at = "idle" /\ runs < MaxRuns
    /\ campaign[c] # NoRow /\ Executable(campaign[c].status)
    /\ Update(t, [NoTask EXCEPT !.at = "tested", !.of = c, !.copy = campaign[c]])
    /\ raced' = IF \E u \in Tasks : task[u].at = "tested" /\ task[u].of = c
                THEN raced \cup {c} ELSE raced
    /\ runs' = runs + 1
    /\ UNCHANGED <<campaign, recipient, contact, handed>>

\* SENDING is committed.
ExecuteMark(t) ==
    LET new == [task[t].copy EXCEPT !.status = "SENDING"] IN
    /\ task[t].at = "tested"
    /\ SaveCampaign(t, new)
    /\ Update(t, [task[t] EXCEPT !.at = "marked", !.copy = new])
    /\ UNCHANGED <<recipient, contact, handed, raced, runs>>

\* The pending recipients are loaded.
ExecuteList(t) ==
    LET x == task[t] IN
    /\ x.at = "marked"
    /\ Update(t, [x EXCEPT !.at = "sending", !.ownsRows = TRUE,
                           !.list = {k \in Contacts : recipient[x.of][k] = "PENDING"}])
    /\ UNCHANGED <<campaign, recipient, contact, handed, raced, runs>>

\* The next recipient: skipped when the customer is gone, failed at once when
\* the address is, else handed to the provider, which accepts or refuses it.
ExecuteSend(t, k) ==
    LET x == task[t] IN
    /\ x.at = "sending" /\ k \in x.list
    /\ \/ /\ contact[k] = "gone"
          /\ Update(t, [x EXCEPT !.list = @ \ {k}])
          /\ UNCHANGED handed
       \/ /\ contact[k] = "unreachable"
          /\ Update(t, [x EXCEPT !.list = @ \ {k}, !.at = "answered", !.current = k, !.ok = FALSE])
          /\ UNCHANGED handed
       \/ \E ok \in BOOLEAN :
            /\ contact[k] = "reachable"
            /\ Update(t, [x EXCEPT !.list = @ \ {k}, !.at = "answered", !.current = k, !.ok = ok])
            /\ handed' = [handed EXCEPT ![x.of][k] = @ + 1]
    /\ UNCHANGED <<campaign, recipient, contact, raced, runs>>

\* Mutant of Counted: failures are counted where successes are.
CountedAsSent(copy, ok) == [copy EXCEPT !.sent = @ + 1]

Counted(copy, ok) ==
    IF ok THEN [copy EXCEPT !.sent = @ + 1] ELSE [copy EXCEPT !.failed = @ + 1]

\* The recipient's outcome and the campaign's counters are committed together.
ExecuteRecord(t) ==
    LET x == task[t]
        new == Counted(x.copy, x.ok) IN
    /\ x.at = "answered"
    /\ recipient' = IF x.ownsRows
                    THEN [recipient EXCEPT ![x.of][x.current] = IF x.ok THEN "SENT" ELSE "FAILED"]
                    ELSE recipient
    /\ SaveCampaign(t, new)
    /\ Update(t, [x EXCEPT !.at = "sending", !.copy = new, !.current = NoRow])
    /\ UNCHANGED <<contact, handed, raced, runs>>

ExecuteDone(t) ==
    /\ task[t].at = "sending" /\ task[t].list = {}
    /\ SaveCampaign(t, [task[t].copy EXCEPT !.status = "COMPLETED"])
    /\ Update(t, NoTask)
    /\ UNCHANGED <<recipient, contact, handed, raced, runs>>

\* The request that started the task ends and closes the session they share.
RequestEnds(t) ==
    LET x == task[t] IN
    /\ x.at # "idle" /\ ~x.closed
    /\ Update(t, [x EXCEPT !.closed = TRUE, !.owns = FALSE, !.ownsRows = FALSE])
    /\ raced' = IF x.at = "tested" THEN raced \cup {x.of} ELSE raced
    /\ UNCHANGED <<campaign, recipient, contact, handed, runs>>

\* An exception outside the loop's try, or a restart of the process.
TaskDies(t) ==
    /\ task[t].at # "idle"
    /\ Update(t, NoTask)
    /\ UNCHANGED <<campaign, recipient, contact, handed, raced, runs>>

CampaignNext ==
    \/ \E c \in Campaigns : \/ CreateCampaign(c) \/ PrepareAudience(c)
                            \/ \E t \in Tasks : ExecuteTest(t, c)
    \/ \E k \in Contacts, to \in {"unreachable", "gone"} : ContactChanges(k, to)
    \/ \E t \in Tasks :
         \/ ExecuteMark(t) \/ ExecuteList(t) \/ ExecuteRecord(t) \/ ExecuteDone(t)
         \/ RequestEnds(t) \/ TaskDies(t)
         \/ \E k \in Contacts : ExecuteSend(t, k)

CampaignSpec == CampaignInit /\ [][CampaignNext]_campaignVars

-----------------------------------------------------------------------------
(* Properties *)

\* Every row, task and counter has the columns the code declares.
CampaignTypeOK ==
    /\ campaign \in [Campaigns -> CampaignRow \cup {NoRow}]
    /\ recipient \in [Campaigns -> [Contacts -> RecipientStatus \cup {NoRow}]]
    /\ contact \in [Contacts -> {"reachable", "unreachable", "gone"}]
    /\ task \in [Tasks -> TaskRecord]
    /\ handed \in [Campaigns -> [Contacts -> Nat]]
    /\ raced \subseteq Campaigns /\ runs \in 0..MaxRuns

\* execute_campaign's status test: whatever fails or is repeated, a recipient is
\* handed to the provider at most once, unless two tasks passed the test before
\* either marked the campaign, the session was closed before the mark, or the
\* campaign was executed before its audience was there.
BlastOnce ==
    \A c \in Campaigns \ raced, k \in Contacts : handed[c][k] <= 1

\* A campaign that says COMPLETED (and did not race) has handled every recipient
\* whose customer still exists, and its counters are those of its recipients.
CompletedAddsUp ==
    \A c \in Campaigns \ raced :
      (campaign[c] # NoRow /\ campaign[c].status = "COMPLETED") =>
        /\ \A k \in Contacts : recipient[c][k] = "PENDING" => contact[k] = "gone"
        /\ campaign[c].sent = Cardinality({k \in Contacts : recipient[c][k] = "SENT"})
        /\ campaign[c].failed = Cardinality({k \in Contacts : recipient[c][k] = "FAILED"})

=============================================================================
