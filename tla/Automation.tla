----------------------------- MODULE Automation -----------------------------
(***************************************************************************)
(* The automation job (services/automation_service): every five minutes it *)
(* looks for quotes left unanswered, to draft a follow-up, and for paid    *)
(* jobs, to ask for a review.  APScheduler runs one instance of it at a    *)
(* time.                                                                   *)
(***************************************************************************)
EXTENDS Naturals

CONSTANTS
    PaidJobs, SentQuotes,  \* what it looks for
    MaxFailures            \* bound: runs another error ends

ASSUME AutomationAssumption ==
    /\ PaidJobs \cap SentQuotes = {}
    /\ MaxFailures \in Nat

VARIABLES
    due,         \* jobs paid, and quotes sent, longer ago than the delay
    messageLog,  \* log rows: a review request per job, a draft per quote
    auto,        \* the run: its step, what it loaded, the rows it has not committed
    asked,       \* history: review requests queued per job
    failures     \* runs another error ended

autoVars == <<due, messageLog, auto, asked, failures>>

Ended == [at |-> "idle", todo |-> {}, added |-> {}]

AutomationInit ==
    /\ due = {} /\ messageLog = {}
    /\ auto = Ended
    /\ asked = [j \in PaidJobs |-> 0]
    /\ failures = 0

-----------------------------------------------------------------------------
\* A quote is sent, or a job paid, and the delay goes by.
BecomesDue(i) ==
    /\ i \notin due
    /\ due' = due \cup {i}
    /\ UNCHANGED <<messageLog, auto, asked, failures>>

\* A quote that is answered is no longer looked for.
QuoteAnswered(q) ==
    /\ q \in due
    /\ due' = due \ {q}
    /\ UNCHANGED <<messageLog, auto, asked, failures>>

\* A run loads the quotes that are due.
AutomationStarts ==
    /\ auto.at = "idle"
    /\ auto' = [at |-> "followups", todo |-> due \cap SentQuotes, added |-> {}]
    /\ UNCHANGED <<due, messageLog, asked, failures>>

\* No log row for it yet: the query sees committed rows and this session's own.
NotLogged(i) == i \notin messageLog \cup auto.added

\* The items whose customer is loaded with them: select(...).join(Customer)
\* filters by the customer and loads none, and neither does anything before it
\* in the run's session.
CustomerLoaded == {}

\* One due item: it is skipped when its row exists; reading a customer that is
\* not loaded raises under the async session, which ends the run (the error is
\* logged) and rolls back what it has added; else a row is added.
Processed(i) ==
    CASE ~NotLogged(i) -> [auto EXCEPT !.todo = @ \ {i}]
      [] NotLogged(i) /\ i \notin CustomerLoaded -> Ended
      [] NotLogged(i) /\ i \in CustomerLoaded ->
           [auto EXCEPT !.todo = @ \ {i}, !.added = @ \cup {i}]

\* Each quote gets a draft unless it has one.
DraftFollowup(q) ==
    /\ auto.at = "followups" /\ q \in auto.todo
    /\ auto' = Processed(q)
    /\ UNCHANGED <<due, messageLog, asked, failures>>

\* All drafts are committed together; the paid jobs are loaded next.
FollowupsCommit ==
    /\ auto.at = "followups" /\ auto.todo = {}
    /\ messageLog' = messageLog \cup auto.added
    /\ auto' = [at |-> "reviews", todo |-> due \cap PaidJobs, added |-> {}]
    /\ UNCHANGED <<due, asked, failures>>

\* A review request is queued for each job without a row, once its customer's
\* name is read, and a row added that says so ...
AskReview(j) ==
    /\ auto.at = "reviews" /\ j \in auto.todo
    /\ asked' = IF NotLogged(j) /\ j \in CustomerLoaded
                THEN [asked EXCEPT ![j] = @ + 1] ELSE asked
    /\ auto' = Processed(j)
    /\ UNCHANGED <<due, messageLog, failures>>

\* ... which is committed with the rows of the other jobs.
ReviewsCommit ==
    /\ auto.at = "reviews" /\ auto.todo = {}
    /\ messageLog' = messageLog \cup auto.added
    /\ auto' = Ended
    /\ UNCHANGED <<due, asked, failures>>

\* Any other error ends the run in the same way.
AutomationFails ==
    /\ auto.at # "idle" /\ failures < MaxFailures
    /\ auto' = Ended
    /\ failures' = failures + 1
    /\ UNCHANGED <<due, messageLog, asked>>

AutomationRun ==
    \/ AutomationStarts \/ FollowupsCommit \/ ReviewsCommit
    \/ \E q \in SentQuotes : DraftFollowup(q)
    \/ \E j \in PaidJobs : AskReview(j)

AutomationNext ==
    \/ AutomationRun \/ AutomationFails
    \/ \E i \in PaidJobs \cup SentQuotes : BecomesDue(i)
    \/ \E q \in SentQuotes : QuoteAnswered(q)

\* The interval trigger goes on firing whatever a run did.
AutomationSpec == AutomationInit /\ [][AutomationNext]_autoVars /\ WF_autoVars(AutomationRun)

-----------------------------------------------------------------------------
(* Properties *)

\* Rows, steps and counters are of the types the code declares.
AutomationTypeOK ==
    /\ due \subseteq PaidJobs \cup SentQuotes
    /\ messageLog \subseteq PaidJobs \cup SentQuotes
    /\ auto \in [at : {"idle", "followups", "reviews"},
                  todo : SUBSET (PaidJobs \cup SentQuotes),
                  added : SUBSET (PaidJobs \cup SentQuotes)]
    /\ asked \in [PaidJobs -> Nat]
    /\ failures \in 0..MaxFailures

\* A paid job's review request goes out ("Automatically sent a follow-up asking
\* for a review"), as long as the job runs again every five minutes.
ReviewsAreAsked ==
    \A j \in PaidJobs : (j \in due) ~> (asked[j] > 0)

=============================================================================
