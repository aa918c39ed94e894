# HereCRM: a TLA+ verification

HereCRM is a CRM for small service businesses that is mostly used by chatting
with it: over WhatsApp, SMS, email or the web app a user asks for something, a
language model turns the text into a tool call, the user confirms it, and the
tool changes the database and lets customers know. It is one Python process:
FastAPI on one asyncio loop, an SQLite file behind async SQLAlchemy sessions,
background tasks for the outgoing queue, automations and a scheduler.

Two facts shape every model here. Coroutines interleave only at an `await`, so
an action is the code between two awaits at which something else can run. And
sessions meet only in the database: a session reads without a lock, takes the
one write lock at its first flush, keeps it until it commits or rolls back, and
keeps its objects unchanged after a commit (`expire_on_commit=False`).

## Inventory

| Component | State | Operations | Talks to | Hard part | What makes it correct |
|---|---|---|---|---|---|
| Outgoing messages, `messaging_service.py` | in-memory queue, worker task, `_running`, `MessageLog` rows | event handlers, enqueue, send, start, stop | event bus, provider, billing | errors and cancellation between the provider call and the commits; restart | at most one attempt, no lost message, bill agrees with log |
| Conversation, `whatsapp_service.py`, `chat/`, `pwa/chat.py` | `conversation_states` row, drafts, timers | webhook turn, confirm, cancel, undo, web send and execute, auto-confirm | parser, tools, billing, messaging | overlapping turns, commits midway, stale copies of the row, timers | a draft is run at most once, never after its cancellation; the row holds what the user was asked |
| Event bus, `events.py` | subscribers | subscribe, emit | all services | one failing handler beside others | the others still run |
| Lifespan, `main.py` | the services' run state | start, shutdown with 5 s limit | messaging, automation, scheduler | cancelled shutdown | nothing is sent after it |
| Sessions, `database.py`, `repositories/` | transactions, identity maps | flush, commit, rollback | SQLite | lock waits, stale objects | no lost update |
| Billing, `billing_service.py`, `stripe_webhook.py` | credits, seats, subscription | deduct, checkout, subscription and invoice events | Stripe | redelivered and reordered events, lost updates | each payment is credited once |
| CRM, `crm_service.py`, `pipeline_handlers.py` | customers, jobs, requests, pipeline stage | create, update, convert | event bus | handlers run in sessions of their own after a commit | one job per request; the stage follows jobs and quotes |
| Quotes, `quote_service.py` | quote status | create, send, confirm by link | storage, messaging, event bus | confirm against confirm | one job per accepted quote; ACCEPTED is final |
| Campaigns, `campaign_service.py` | campaign and recipient status | prepare, execute | messaging, email | crash or second execution while SENDING | each recipient once; counters agree with recipients |
| Automation, scheduler | `MessageLog` rows as markers | periodic runs | messaging | an error ends a run for all that is due | one follow-up per quote, one review request per job |
| Time tracking, `time_tracking.py` | shift start, job status, durations | check in/out, start, pause, finish | | check then act | one running job per employee; no worked time lost |
| Accounts, `auth_service.py`, `invitation.py` | users, businesses, invitations | first contact, invite, join | messaging | two first messages at once, one token used twice | one user per identity, one use per invitation |
| Assignment, calendar sync | `employee_id`, calendar event id | assign, unassign, sync | Google Calendar | events out of order | the calendar shows the job as it is |
| Service catalogue cache, `cache.py` | cached rows per business | read, fill, invalidate | repositories | fill after invalidate | never older than the last change |
| Import and export, `data_management.py` | import and export jobs, files | import lines in a savepoint, export to the object store | storage | a line that fails, imports side by side, a request that dies | a job reports what became of its lines |
| Line items and invoices, `inference_service.py`, `invoice_service.py` | `line_items`, job value, invoices | infer, create, replace, price, invoice | storage, mapper events | overlapping edits, rounding | the value is the sum; one invoice nobody forced |
| Routing, `routing_tools.py`, `services/routing/` | jobs' technician, day and coordinates | search, geocode, solve, apply | geocoder, solver, messaging | jobs change during a solver of up to 30 s | a plan undoes no work |
| Permissions, `rbac_service.py` | a static table | test a role against a tool | all tools | | owner-only tools are the owners' |
| Parsing, accounting, webhooks out, reports | little or none | | external services | | see "Not modelled" |

`PROJECT.json` lists these components with their status, and under `hazards`
what in each of them is hard to test, at its line, with the properties that
would notice.

## Modules

| Module | What it is |
|---|---|
| `MessageDelivery` | what the messaging service promises for each message: one row, at most one attempt, one outcome, SENT only if the provider accepted it |
| `Messaging` | the messaging service: handlers, queue, worker, direct senders, the steps of `send_message`, start, stop, the lifespan's timeout, crashes |
| `DraftLifecycle` | what the assistant promises for the actions it proposes: one pending draft, each executed, dropped or given up once, in the order of the messages |
| `Conversation` | the conversation row, webhook turns, the web chat's two requests, auto-confirm timers, the write lock |
| `Billing` | the billing columns of a business: sends that deduct and report, webhook deliveries that grant and overwrite, Stripe beside them |
| `Sales` | customers and their pipeline stage, requests, quotes and the jobs made from them, the event handlers, the undo of the last chat action |
| `Automation` | the periodic run that drafts follow-ups and asks for reviews |
| `Invoicing` | line items, the job's value that a mapper event keeps, invoices |
| `Work` | shifts; start, pause, finish and assignment of jobs on stale copies |
| `Campaign` | a campaign's audience and its execution in a background task |
| `Accounts` | users, businesses, invitations: first contact, Clerk's webhooks, joins, team tools |
| `Catalogue` | the service catalogue, its process-wide cache, the tools that change it |
| `AtomicImport` | what an import promises: its whole file at one moment or nothing, at most one customer per number |
| `DataManagement` | imports and exports from PROCESSING to their end |
| `Calendar` | the copy of jobs in their employees' Google calendars |
| `Dispatch` | autoroute from its searches to the commit |
| `MessagingProofs`, `BillingProofs`, `WorkProofs`, `CampaignProofs`, `ConversationProofs` | theorems about the module, checked by TLAPS |
| `SalesProofs` | theorems about `Sales`, `Automation`, `Invoicing` and what `MCSales` puts side by side |
| `OfficeProofs` | theorems about `Accounts`, `Catalogue` and `DataManagement` |
| `PlanningProofs` | theorems about `Dispatch`, `Calendar` and the components of `MCBackOffice` side by side |
| `MCMessaging`, `MCConversation`, `MCBilling`, `MCAutomation`, `MCCalendar` | the small instances of one module |
| `MCSales` | `Sales`, `Automation`, `Invoicing` and `Messaging` on small instances |
| `MCBackOffice` | `Work`, `Campaign`, `Accounts`, `Catalogue`, `DataManagement`, `Calendar` and `Dispatch` on small instances |

`MessageDelivery`, `DraftLifecycle` and `AtomicImport` are the abstract
specifications that `Messaging`, `Conversation` and `DataManagement` implement.
The modules `MCSales` and `MCBackOffice` put components side by side that share
no row a property of theirs is about: a variable `part` picks one of them for
each behaviour, so that one run explores each on its own instance. What the
components exchange is inside the modules: events and their handlers in `Sales`
and `Calendar`, messages as `queue` in `Messaging` and as the counts `asked` and
`handed` elsewhere.

### Messaging

| Model | Code |
|---|---|
| `queue`, `running`, `pc[Worker]` | `_queue`, `_running`, where `_worker_task` stands |
| `log[m]` | the committed status of the message's `MessageLog` row |
| `attempts`, `accepted` | calls to the provider, and what it took on (known to the provider only) |
| `billed` | credits deducted by `track_message_sent` in a committed transaction |
| `cut` | history: messages whose send an error, a cancel or a crash cut short |
| `Emit`, `HandleEvent` | `event_bus.emit`, the handlers' lookups and `enqueue_message` |
| `LogPending`, `CallProvider`, `RecordOutcome`, `RecordError` | the four segments of `send_message` |
| `WorkerTake`, `WorkerBreak`, `AfterSend` | `process_queue` |
| `Start`, `Stop`, `StopReturns`, `StopTimesOut`, `Crash` | the service's start and stop, the lifespan, the end of the process |

`send_message` commits the PENDING row, calls the provider, then commits the
status and the credits together. A provider may accept a message and its answer
still be lost: `accepted` and `answer` are chosen separately. EMAIL has no branch
in `send_message` and ends as FAILED (`Unroutable`). `wait_for`'s one-second
timeout only re-tests `_running`, which is set while the worker waits for a
message, so it is not a step of its own. A model's message is what one handler makes
of one event; a second start in one process registers the handlers again
(`events.py` keeps a list), and an event then has two messages, each of which the
properties are about.

### Conversation

| Model | Code |
|---|---|
| `row` | the user's `conversation_states` row: `state`, `draft_data`, `pending_action_timestamp`, `last_action_metadata` |
| `lock` | SQLite's write lock |
| `base[t]`, `mem[t]`, `written[t]` | a session's copy of the row: as loaded or flushed, as assigned, and the columns already flushed |
| `Load` | `handle_message` flushes the user's message, which takes the lock, then reads the row |
| `ConfirmYes`, `ConfirmOther`, `Begin`, `Run`, `RunFails` | `ConfirmationHandler` and `execute_draft` |
| `Onboard`, `Join`, `InMode`, `HandlerCommits`, `Command`, `Undo`, `Parse`, `Answer`, `Draft` | the other handlers |
| `Close` | the commit in `track_message_sent`, or the web chat's own |
| `WebConfirm`, `TimerFires` | `POST /execute` and the auto-confirm task: both read the row without the lock |
| `Fail`, `LockTimeout`, `Crash` | exceptions and cancelled requests, "database is locked", the end of the process |

A commit writes only the columns whose value the session changed (`Merge`,
`Dirty`), so two stale sessions can leave a row that neither of them had in
memory. A tool is known by whether it commits before it returns (`Committing`)
and whether it returns metadata for undo (`Tracked`). The preference
`confirm_by_default` may have any value at each message. `runs`, `undone`,
`cancelled`, `asked`, `latest` and `offered` are history for the properties.

### Billing

| Model | Code |
|---|---|
| `row` | the committed billing columns of one `businesses` row |
| `lock` | SQLite's write lock, here held by a sender only: a delivery writes and commits in one step |
| `sess[w]` | an open session: where it stands, its event or quantity, the row it read (`seen`) and the row it will write (`new`) |
| `links`, `subs`, `events` | what Stripe knows: unpaid links, subscriptions, events emitted |
| `answered` | events the webhook answered with 200; the others are delivered again |
| `sent`, `reported`, `granted` | segments the providers took, segments reported as overage, credits granted by committed deliveries |
| `RequestLink` | `create_checkout_session` and `create_topup_session` as the tools call them |
| `Pay`, `Renew` | the owner and Stripe |
| `Receive`, `LineItems`, `HookCommits`, `HookFails` | `stripe_webhook` and the three handlers of `process_webhook` |
| `TrackMessageSent`, `Report`, `SenderCommits`, `SenderFails` | `track_message_sent` and `_report_overage`, to the end of the caller's transaction |

A handler reads the business, computes absolute values, may await Stripe, and
commits; `Flushed` writes the columns whose value it changed over the row as
others have left it. A sender has flushed its message before it reads the row,
so `TrackMessageSent` takes the lock and reads in one step. A delivery reads
without the lock, which is what makes its copy stale. The subscription and its
metadata are as the program creates them: one seat or addon per link, no metadata
on the subscription itself, so only a checkout finds its business by id. No link
that the program creates carries the messaging price, so `Metered` names the
subscriptions to which an operator added it. Stripe's side is external: each paid
subscription link is assumed to emit a checkout and an `updated` event, and
`InOrder` says whether events are delivered one after the other.

### Sales

| Model | Code |
|---|---|
| `customer`, `quote`, `job`, `request`, `workflow` | the tables, with the columns this path reads and writes |
| `op[s]` | what a chat user's or HTTP client's session is doing, with the copies it holds |
| `last[s]` | `last_action_metadata` |
| `AddLeadLookup`/`Insert`, `AddJobLookup`/`Commit`, `StoreRequest`, `EditCustomer`, `UpdateCustomerStage`, `UpdateWorkflowSettings` | the chat tools |
| `PwaCreateCustomer`, `PwaUpdateCustomer`, `PwaCreateJob`, `PwaCreateQuote`, `PwaCreateRequest`, `UpdateRequest`, `DeleteRequest` | the web routes |
| `ConvertRead`, `ConvertToJob`, `ConvertToQuote`, `DeleteConverted`, `ConvertMark` | `convert_request`: the new row is committed first, the request deleted second |
| `CreateQuote`, `SendQuote`, `ConfirmRead`, `ConfirmCommit` | `quote_service` and the public link |
| `JobCreatedCount`/`Write`, `ContactRead`/`Write`, `HandlerFails` | `pipeline_handlers`, awaited by the session that emitted the event |
| `UndoCreate`, `UndoUpdate`, `UndoPromote` | the undo of the last chat action |

An operation is split where it awaits between a read and a write that depends on
it. Two confirmations that overlap both make a job: `AcceptanceIsFinal` says of an
accepted quote that nobody is in the middle of writing that from then on the link,
however often and late it is used, changes nothing. That a converted request is
deleted only after its successor is committed is `RequestsAreKept`.

`send_quote` never gets as far as SENT. `create_quote` ends with a refresh of the
quote, which leaves its lines unloaded; `get_quote` does not load them; the PDF
template reads them, and the lazy load raises under the async session. So
`SendQuote` ends the tool and changes nothing, `QUOTE_SENT` is never emitted, and
the handler that moves a customer to QUOTED is not modelled, since nothing
reaches it. A quote becomes SENT by the web form only (`PwaCreateQuote`).

### Automation and Invoicing

| Model | Code |
|---|---|
| `due`, `messageLog` | what the two queries of a run find, and the `MessageLog` rows that mark what was done |
| `auto` | the run: its step, what it loaded, the rows it has not committed |
| `AutomationStarts`, `DraftFollowup`, `FollowupsCommit`, `AskReview`, `ReviewsCommit`, `AutomationFails` | `automation_service`, one run at a time |
| `CustomerLoaded`, `Processed` | one due item: skipped when it has a row, else its customer is read, which none of the queries loads |
| `bill`, `lineItem`, `invoice` | a job's value, `line_items`, `invoices` |
| `Reconciled`, `Rounded` | `infer_line_items`: quantity and unit price from what was stated and the list price, in cents and hundredths |
| `Synced` | the mapper events that set the job's value to the sum of its lines |
| `CreateBill`, `CreatePlainBill`, `EditBillRead`/`Commit`, `SetPrice`, `SendInvoice`, `InvoiceCommit` | `create_job`, `update_job`, the schedule tool with a price, the invoice tool |

`select(Job).join(Customer)` filters by the customer and loads none, and each run
opens a session of its own, so `job.customer.name` and `quote.customer.name` raise.
A run therefore ends at the first due item without a row, before it queues or adds
anything, and so does the next: `CustomerLoaded` is empty. `ReviewsAreAsked` states
what the specification promises, and the run `automation_reviews` refutes it; there
is no other property of `Automation` worth stating while nothing is ever asked.

Two edits of one job's lines that overlap leave the lines of
both, and the value follows (`BillsHold`); a price set beside the lines makes the
value disagree with them, which `priced` remembers. A deleted line stays `Removed`
and its id does not come again: a flush inserts before it deletes, an edit replaces
lines by at least one (the route turns an empty list into none), and SQLite's next id
is one more than the highest. A job whose creation is undone is left to `Sales`.

### Work

| Model | Code |
|---|---|
| `shift`, `work` | `current_shift_start`; a job's status, employee, start, total and completion |
| `call[s]` | a session's operation, with its copy of the job and what is left of the form |
| `CheckIn`, `CheckOutRead`/`Write` | the shift tools |
| `StartJob`/`Commit`, `PauseCommit`, `FinishJob`/`Commit` | `start_job`, `pause_job`, `finish_job` |
| `UpdateJob`, `ApplyCommit`, `AssignJob` | `update_job` from its status transition to the rest of the form; `assign_job` |

A commit writes the columns that differ from the session's copy (`Written`).
`excused` names the employees for whom the test for another running job cannot
hold: two starts overlapped, or a form or an assignment handed them a running job.

### Campaign

| Model | Code |
|---|---|
| `campaign`, `recipient`, `contact` | the rows, and whether a customer has an address |
| `task[t]` | a background task of `execute_campaign`, its campaign object and its recipients, and whether they still belong to its session |
| `CreateCampaign`, `PrepareAudience` | two transactions of the tool or the route |
| `ExecuteTest`, `ExecuteMark`, `ExecuteList`, `ExecuteSend`, `ExecuteRecord`, `ExecuteDone` | the steps between the awaits of `execute_campaign` |
| `RequestEnds` | the request that started the task closes the session they share |
| `TaskDies` | an exception outside the loop, a restart |

After `RequestEnds` the task's objects write nothing any more: a campaign may stay
SENDING with its recipients PENDING although all were sent to. `raced` holds the
campaigns taken up twice before either task marked them, whose session was closed
before the mark, or whose audience came after the execution began.

### Accounts and Catalogue

| Model | Code |
|---|---|
| `user`, `business`, `invitation` | the tables, users by the identity that the unique columns keep in one row |
| `FirstContact`, `SyncClerkUser`, `SyncClerkOrg`, `SyncClerkMembership`, `DeleteClerkUser`, `JitCreateUser`, `ChooseCreate` | `auth_service`, Clerk's webhooks in any order and repeatedly, a login, the onboarding choice |
| `CreateInvitation`, `JoinRead`, `JoinByCode`, `JoinCommit` | `invitation` |
| `Chat` | the first message or draft of a user who came by Clerk: a conversation row |
| `PickMember`, `Promote`, `Dismiss` | the team tools, guarded by `Permitted` |
| `catalogue`, `cached` | the committed services of a business; the cache's entry |
| `desk[s]` | a session: its uncommitted catalogue, the listing it read |
| `ListCached`, `ListQuery`, `ListFill` | `get_all_for_business` |
| `EditService`, `DeleteService`, `AddServiceLookup`/`Flush`, `PwaCreateService`, `CommitCatalogue`, `RollbackCatalogue` | the tools and the route; the mapper events drop the entry at the flush (`Invalidated`) |

`User.conversation_state` has no cascade and its key is the user's, so deleting a user
who has such a row raises at the flush: `Dismiss` is for members who never wrote
(`chats`), and `LeaveBusinessTool`, which only somebody who writes can run, never
succeeds and is no action. `DeleteClerkUser` deletes the conversation row first.

The cache is dropped at the flush and not at the commit, so another session can
fill it with the old rows in between; `lapsed` marks that.

### DataManagement, Calendar and Dispatch

| Model | Code |
|---|---|
| `importJob[i]` | an import's row, its request's step and its savepoint |
| `ImportStart`, `ImportBegin`, `ImportLine`, `ImportLineFails`, `ImportCommit`, `ImportDies` | `import_data`; the flush of the count takes the write lock, so that imports look customers up one after the other |
| `Outcome`, `Atomic` | the status as users read it, and with it the mapping to `AtomicImport`: `ImportCommit` is the moment at which a file is taken in or refused, what comes before is invisible |
| `exportReq[x]`, `bucket`, `ExportStart` ... `ExportCommit` | `export_data` and the object store, whose keys have the second |
| `calJob`, `linked`, `inCalendar`, `madeFor` | jobs, linked employees, and what Google has |
| `flow[f]` | a request or background task: the form, the events to emit, the handler at work |
| `CreateCalJob`, `EditRead`/`Commit`, `AssignCalJob`, `ConnectCalendar` | what changes a job or a link, and the events each emits |
| `HandlerLoads`, `ResyncLoads`, `GoogleCreates`/`Updates`/`Deletes`/`Fails`, `HandlerCommits` | `calendar_sync_handler` and `google_calendar_service` |
| `visit`, `planner[p]` | jobs; an autoroute with its copies and the solution |
| `RoutesPending`, `RoutesScheduled`, `GeocodeJobs`, `Solve`, `ApplyRoute`, `ScheduleCommit` | `_calculate` and `apply_schedule`; a chat turn has the lock throughout, a web request from its first flush |
| `Elsewhere` | any other session's change of a job, to any of the statuses `MovedTo` |

A line of an import leaves a customer or a record, or is skipped without a word: a
line without a name in a file of customers, jobs or quotes, and every line of a file
of invoices (`ImportsSomething`). The import completes all the same and its
`record_count` is the whole file's. Specification 007 would have such a file refused
(story 1, FR-004); `FinishedAsReported` and `AtomicImport`
therefore speak of the lines that leave something, and count the skipped ones apart.

Histories say when a promise does not bind: `astray` names the jobs whose event
was lost by two handlers at once, a death between Google's answer and the commit,
a deleted job, or a move that the code does not announce.

## What the runs show

| Run | Checks | Result |
|---|---|---|
| `messaging_restart` | `process_queue`: "Runs indefinitely until stopped" | violated |
| `conversation` | types; the row offers exactly the draft the last turn asked about; undo reverts the latest action; turns take effect as if handled one after the other (`DraftLifecycle`); the write lock is always released | hold |
| `conversation_web` | a row that awaits a confirmation holds a draft; webhook turns run only the draft the row still offers; what was cancelled stays cancelled | hold |
| `conversation_twice` | a draft is executed at most once (SC-004 of spec 009) | violated |
| `conversation_auto` | an announced auto-confirmation happens (FR-006 of spec 009) | violated |
| `billing` | types; the balance lies between minus what was sent and what was granted; no more is metered than was sent, and never what the current balance covers; a send keeps what deliveries committed; every event is answered | hold |
| `billing_topup` | a paid top-up raises the credits (story 7 of spec 010) | violated |
| `billing_purchases` | a bought addon unlocks its tools (story 5 of spec 010) | violated |
| `sales` | `Sales`: types; quotes and their jobs point at each other; an accepted quote stays so with its jobs; a request is deleted by a user or after its successor; a created job is noted in the pipeline. `Invoicing`: values, stated totals, invoices and amounts due agree. `Messaging`: at most one attempt per message; every handed-over message accounted for; credits deducted exactly for SENT rows; a stopped worker is quiet; `Messaging` implements `MessageDelivery`; every queued message leaves the queue while the service is up | hold |
| `automation_reviews` | a paid job is followed up by a request for a review (story 2 of spec 003) | violated |
| `back_office` | types; no second of work is counted twice; one running job per employee; each recipient once, and a COMPLETED campaign's counters are those of its recipients; an invitation admits one person and is accepted with the join; the cached catalogue is the committed one; imports and exports are as their status says, skipped lines apart; each import takes effect at one moment or not at all, with one customer per number (`DataManagement` implements `AtomicImport`); events in calendars are named by their jobs; a plan undoes no work | hold, but for the cases the histories `excused`, `raced`, `twice`, `lapsed`, `astray` name |
| `calendar` | a reassigned job's event moves to the new calendar (spec 024) | violated |

Seven disagreements with the documents came out of it.

*Messaging restart.* A worker that leaves its loop by the flag, or is cancelled
while `stop()` awaits it, leaves the sentinel behind. The worker of a later
`start()` in the same process reads it and ends, and `_running` stays set, so
nothing starts it again. The deployed lifespan starts the service once per
process, and so far the docstring is right: `FirstWorkerRunsUntilStopped` is
proved. Test suites and reloads that run the lifespan twice meet it.

*Double execution.* A draft is reset after its tool returns, in the turn's own
commit. Tools such as `create_job` commit earlier, "for other sessions to see
it", and with that commit the turn gives up the lock while the row still offers
the draft. With such tools excluded (`Committing = {}`, run `conversation`) the
lock makes turns sequential and no draft is executed twice. Nor does a commit midway
harm any draft but its own: `ResolvedOnce` says of the others, whichever turns hand
over the lock beside them, that they are executed or cancelled, once, and is proved.

*Auto-confirm.* The deadline is written with an offset, comes back from the
database without one, and comparing the two raises. The error is logged and the
action stays pending. The run's mutant shows what a working comparison would
meet next: the timer reads the row without the lock, and executes a draft the
user's own turn is just confirming or cancelling.

*Lost top-up.* Two deliveries that overlap both read the balance, await Stripe,
and write it back as a number; the later commit overwrites the earlier pack and
both events are answered with 200. The same happens to an invoice's monthly
allowance, and to the deduction of a message sent in between, which is why
`UsageWithinBounds` bounds the balance and does not fix it. A redelivered event
is not recognised and grants its pack again; `granted` counts that as granted.
Handled one after the other, with no failing call, deliveries lose nothing, whatever
is sent beside them (theorem `TopUpsInTurn`): the overlap is one cause. The other
needs none: an error while the line items are looked up is logged, and the rest is
committed and answered with 200.

*Addon without its scope.* The subscription handler stores the ids of the addons
bought (`campaign_messaging`), the tools ask for a scope (`campaigns`), and the
scope a new business starts with is overwritten. The run needs no failure and no
reordering. The module shows more of the same handler: the seats and addons
follow the last event's subscription alone, so buying an addon after a seat takes
the seat away; an `updated` event that comes before its checkout finds no
business and is answered with 200; a cancelled subscription keeps what it sold.

*Calendar.* `update_job` announces that an employee lost a job, `assign_job` does
not. After the chat's assignment tool moves a job, the handler looks for its event
in the new employee's calendar, finds none and forgets the id; the old employee's
calendar keeps the event for good.

*Reviews.* Reading the customer of a due job raises, as described under
`Automation`; the run that finds one ends there, every five minutes. Nothing fails in
this instance but what the job itself does. Drafts of follow-ups end likewise.

Every property of a passing run comes with a mutant in `PROJECT.json`: a change
of one definition that a plausible bug would make, under which TLC finds the
property violated. The variants stand in the modules before the definition they
change.

## Bounds

`conversation`: two webhook turns, two drafts, five messages, one fault. Undo
after two confirmed drafts takes five messages; two turns suffice for every
overlap of two, and each message gets a session of its own. About 63,000 states.
`conversation_web` has two webhook turns and a web request that can be a `/send`
or an `/execute`, one draft that commits midway and one that does not, both of
one tool, four messages and one fault. About 152,000 states.

`billing`: one sender beside two webhook sessions, seats and top-ups for sale, one
subscription to which the messaging price was added, one link open at a time,
three events, one fault, two segments sent with packs of one credit, so that the
balance is positive, zero and negative in turn. Two deliveries are what a lost
update takes, three events let a checkout, its update and an invoice or a top-up
be reordered. A second sender would wait for the lock, which the proofs treat for
any number. About 168,000 states.

`sales`: two customers, two requests, one quote and two jobs, two sessions and three
operations: enough for a conversion beside an edit or an undo, for a link used
twice beside an edit, and for two jobs of one customer. A second quote would be
independent of the first. `Invoicing` has one job, three line ids, two sessions, four
operations, and quantities, prices and totals whose quotients do and do not come out
even. `Automation` has two jobs, one quote and two other failures.
`Messaging` has three messages (two that the handlers can queue, one on an unroutable
channel for direct sends), the worker and one direct sender, two starts, one database
or billing error. Two queued messages are needed to see one wait behind the other,
two starts for a left-over queue, and the direct sender to see two sends at once.
`Sales` may start with a customer or without one; the other three modules are
explored beside one of these states. About 157,000 states.

`back_office`, per component: two jobs, one employee, two callers, three calls and one
tick of the clock (`Work`: two starts that overlap, or a start, a pause and a finish
on stale copies); one campaign, two contacts, two tasks, two executions; two people,
two businesses of which Clerk knows one, one invitation, two turns, five operations;
two services, one name, two prices, two sessions, three changes; two imports of up to
two lines, one number and lines without one, one customer added beside them (a line
can find the customer of the other line, of the other import and of the request); two
exports of two businesses within two seconds; one job, two employees, two events, two
flows, three changes and one failure; two jobs, two technicians, two planners, one
day, two plans, one other change, to a status of each kind (`MovedTo`: back to
SCHEDULED, started, paused, cancelled). Each bound lets the two actors whose overlap
is at stake both run, and one more step come after. `SYMMETRY` permutes tasks and
flows, which the properties of this run (invariants, action properties and a
refinement, no liveness) treat alike. About 1.62 million states.

The violation runs use the smallest instance with the behaviour.
`CHECK_DEADLOCK FALSE` everywhere: a service that is down, or a user who sends
no more messages, is a proper end.

## Fairness

`Messaging`: each sender's next step and the worker's `get` are weakly fair, since
awaits of the provider (which has a timeout) and of the database return; nothing is
assumed of events, of start and stop, or of faults. `Conversation`: a turn that has
begun goes on or gives up waiting for the lock (SQLite's busy timeout is five
seconds), and a sleeping timer wakes up. Nothing is assumed of messages or crashes,
nor that the lock is handed out fairly. `Billing`: Stripe delivers an event again
until it is answered (it retries for three days), and a session ends, by its commit,
an error, or the end of the wait for the lock. Nothing is assumed of payments,
messages or faults. `Sales`: a session inside an operation goes on, as the event loop
resumes every suspended coroutine; nothing is assumed of calls or of which errors
occur. `Automation`: the interval trigger fires again whatever a run did, so that runs
take steps. In `MCSales` each module's fairness is that of its steps within the
composition. The other modules state safety only and assume no fairness.

## Proofs

`MessagingProofs` proves, for any sets of messages and requests and any bounds, that
`MessagingInv` is inductive, and from it its types, the four safety properties of the
run `sales` that are about messages and the refinement of `MessageDelivery`. The only
assumptions are `MessagingAssumption` (the sentinel and the worker are not messages or
requests, the bounds are naturals), which TLC evaluates in every run.

The safety properties are not inductive: that a message is attempted once needs
to know that it is in one place. `OnePlace` says that a message is in the queue
at most once and not there while a sender holds it, and that no two senders hold
it; `SenderStates` and `HeldRows` tie a sender's program point to the row and the
attempts of the message it holds; `WaitingRows` says that a message still waiting
has no row; `RowsAgree` ties the row to the provider's view; `LifeAgrees` ties
`_running` to the lifespan. There is one lemma per action and three about the
queue (`PutMessage`, `PutSentinel`, `GetMessage`). The refinement is one lemma for
the initial states and one for a step, with `MessagingInv` on both sides.
`FirstWorkerKeepsOn` needs a second invariant, `FreshQueue`: in the first start the
queue holds no sentinel unless the service is stopping.

`BillingProofs` proves, for any number of senders, deliveries, events, customers
and subscriptions and any size of a pack, that `BillingInv` is inductive, and from
it types, `UsageWithinBounds`, `MeteredWithinSent`, `MeteredByCurrentBalance` and
`SendsKeepGrants`. The assumption is `BillingAssumption` (senders and deliveries
are disjoint, the sizes are naturals). `LockHeld` and `SenderMemory` say why a
sender is exact: only the holder of the lock is in a transaction, nobody else
commits a change meanwhile, so its copy is the committed row and its new values
are that row less its own segments. `HookMemory` says why a stale delivery stays
within bounds: what it read was within the bounds, the bounds only widen, and it
adds one pack, which its commit also adds to `granted`. `MeteredWithinSent` needs
that the segments of a sender about to report are in `sent` and not yet in
`reported`; `MeteredByCurrentBalance` is `SenderMemory` at the report.
`TopUpsInTurn` assumes `InTurn` (at most one delivery under way, no faults) and adds
`TopUpsInv`: the balance covers the packs that were answered, also after the send
under way, and the delivery under way has read a balance that covers them. A send
that commits between its read and its commit lowers the balance, and the commit of
the delivery puts back what it read, which is in the owner's favour.

`ConversationProofs` proves in two stages. `ConvInv` holds of every instance, the
web chat and the handlers that commit midway included. It says of each turn what
it will write to the row: the columns it has flushed or changed, and for the
draft one that nobody has been shown yet, or none (`Writing`), so that no commit
of some columns over those of another session tears state and draft apart; that
a webhook turn keeps the lock from its read to the commit of what it ran, so it
runs only what the row still offers (`Running`, `Working`); and that auto-confirm
never runs a draft (`RowSound`: the stored time has no offset, the task's has).
Types, `ConfirmableHasDraft`, `ChatRunsPending` and `CancelledStaysCancelled` follow.
The second stage assumes `Serial`, that is `Webs = {}` and `Committing = {}`: the
instance of the run `conversation`. The other three properties fail without it,
since a web request beside a turn, or a turn that goes on after a commit, does
overwrite what another one asked. Under it `SerialInv` adds that a turn with the lock sees
the row it is going to replace, and that one without it has committed and has at
most a reset left to write; `AskedIsPending`, `UndoRevertsLatest` and the refinement of
`DraftLifecycle` follow, the last by a lemma that every commit is one resolution
of the pending draft and perhaps one proposal (`SerialCommit`).
Between the two stages stands `ConversationResolvedOnce`, which assumes `Webs = {}`
alone: `OnceSound` says that a draft which the row still holds has not been executed, and
one that was executed has been offered, so it is never proposed again; `Working` says
that a turn which runs such a draft keeps the lock, and the row the draft, until the
commit that also resets it.

The other proof modules follow the same plan: a typed invariant of named
parts, one lemma per action, temporal theorems at the end; each rests on its
modules' named assumptions alone. These say that sentinels are none of the values they
stand beside, that bounds are naturals, that a set from which a default is chosen has
a member (`CalJobs # {}`, `Bills # {}`), and that a row's origin tells quotes from requests.
`RowsAssumption`, `CalRowAssumption` and `InvoicingRowsAssumption` say of model values
what TLC takes for granted: that no record is one.

- `WorkProofs`: `WorkedWithinElapsed` and `OneRunningJob`. `RowsTimely` and
  `CopiesTimely` say of every row and of every session's copy that its total is no
  more than its start, and its start no more than the clock: a commit from a stale
  copy mixes columns of two such rows and keeps that. `StartsAllowed` says that a
  start under way still excludes every other running job of its employee, `Single`
  that two running jobs of one employee are the same, both unless `excused`.
- `CampaignProofs`: `BlastOnce` and `CompletedAddsUp`. `Sound` says what a task knows
  by its step (nothing was sent before the mark SENDING, nobody else can take the
  campaign up after it, nobody on its list was sent to), `OneTask` that a campaign has
  one task, `UntouchedUnsent` that a campaign that can still be executed sent nothing.
  On top, `TasksKeep`: a task whose session is open holds the row as it is, with the
  counters of its recipients, and what is PENDING is on its list, in its hands or
  without a customer; a task whose session was closed can complete nothing. The
  cardinalities step by `OneMore`; the number of contacts must be finite.
- `SalesProofs`, for `Sales`: `QuoteJobsMatch`, `RequestsAreKept` and `AcceptanceIsFinal`.
  `HoldsRows` says that what an operation goes on with are rows that are still there:
  nothing deletes customers or quotes, and an undo deletes only the job that its
  session's last action names. That job was made without a quote (`NamesJob`), so
  an undo never takes a quote's job away, and the job of an operation under way is in no
  record that can be undone (`OwnJobs`), so a conversion that comes to delete its request
  still has what it made (`MadeFrom`). `AcceptanceIsFinal` nests temporal operators:
  for one quote and one set of jobs, `Accepted` and `Settled` is itself inductive given
  `SalesInv`, since a new confirmation reads ACCEPTED and ends.
- `SalesProofs`, for `Invoicing`: `BillsHold`. A commit inserts a job's new lines, deletes
  those its session holds, and sets the value to the sum of what is left (`FlushSound`).
  What it holds are, or were, lines of its own job (`HoldsOwnLines`), so no other job's
  lines, hence no other job's value, change; this needs that the id of a deleted
  line is not used again (`Removed`), without which an edit deletes a line of another
  job. One turn at a time is about to commit an invoice (`OneTurn`), and its job has
  none (`HoldsInvoice`). That a sum is a number, and that it depends on its
  lines only, is proved of the community modules' `SumFunction` by induction on the
  subsets of a finite set (`LeastSubset`); the table of line items must be finite.
- `SalesProofs`, for `MCSales`: `PartsKeepInvariants`. A step of one module is a stutter
  of the others, so what each keeps alone the composition keeps: all the invariants of
  the run `sales`.
- `OfficeProofs`, for `Accounts`: `InvitationHonoured`. `JoinsByRow` says that a turn joins
  by an invitation that exists, `OneReader` that at most one turn is about to use an
  invitation, by which nobody has joined yet, unless `twice` has it.
- `OfficeProofs`, for `Catalogue`: `CacheIsCurrent`. A view under way belongs to the only
  session that holds the lock, and a flush has emptied the cache; a query nobody has
  overtaken shows what is committed.
- `OfficeProofs`, for `DataManagement`: `FinishedAsReported` and `ImportsDeduplicate`
  (no import's commit adds a customer under a number that has one).
  `LinesAddUp` says that the lines taken, those skipped and those left are the file's,
  and that an import outside its savepoint holds none. Customers are added under the write lock,
  which one import has (`OneHolder`), so a number looked up in the savepoint is still
  free when it commits (`OnlyOnes`). `FilesAsNamed` and `KeysAreHeld` say that the file
  under a key is of the business and kinds in its name, whoever stored it last.
  `ImportsTakeEffectAtOnce` is the refinement of `AtomicImport`. It needs `AllWithin`:
  the new customers of an import are of as many different numbers, or lines without
  one, as it has taken lines, and what it will commit as records is no more than that;
  an import that failed has nothing left to commit. The cardinality steps line by line.
- `PlanningProofs`, for `Dispatch`: `RoutesKeepProgress`, by `HeldToRoute` (a copy is a
  PENDING or SCHEDULED row as it was read) and `GivenIsHeld` (only copied jobs are
  given), since the columns a commit writes are those that differ from the copy.
- `PlanningProofs`, for `Calendar`: `EventsAreNamed`. Of a job that is not astray one
  handler is at work at most (`OneHandler`), with a copy that names the event of the
  row (`CopiesCurrent`); a job it has not called Google for has the id it was loaded
  with (`FlowSound`); its event is the one the handler is to commit (`NamedByHandler`),
  or, with no handler at work, the row's (`NamedByRow`). Four lemmas carry the actions: steps
  beside the handlers, a load, an answer of Google, and the end by a commit or a death.
- `PlanningProofs`, for `MCBackOffice`: `PartsImplementTheirSpecs`. A step of one component
  is a step or a stutter of each, so the composition implements the seven specifications,
  and `BackOfficeTypes` and `BackOfficeKeepsPromises` carry over all that the run
  `back_office` checks.

Only model-checked: liveness (`QueuedIsHandled`, `LockIsReleased`,
`EventsAnswered`, `ConversionNoted`), which the installed provers do
not reach, and the runs that expect a violation. Every invariant and every safety
property of the passing runs is a theorem.

Proved and in no run: `FirstWorkerRunsUntilStopped`, `ResolvedOnce` and, for deliveries in
turn, `TopUpsAreCredited`, which say how far the promises of three violation runs do
hold; and `ImportsDeduplicate`, which speaks of the same commits as `ImportsAreAtomic`.

## Not modelled

- A webhook request that carries several messages handles them in one session,
  whose row is not refreshed in between; the model has one message per session.
- The four menu modes are one state, since they differ in their tools only;
  `Conversation` knows a tool by its commits, the other modules by what it changes.
- The text, the provider formats, phone numbers and templates.
- The fields of a draft: `/execute` runs the arguments it is sent, which the
  model has as another draft of the same tool (`Twins`).
- A send whose transaction waits for the lock in vain: the provider took a message
  that no row shows. In `Billing` such a message is not counted as sent.
- A chat session's copy of the business that was loaded earlier in its turn.
- Stripe's signature check and its price catalogue.
- A database other than SQLite, which would replace the lock by row locks.
- In `Sales`: addresses, tags, notes and the searches by them; a quote's lines and
  PDF.
- Invoices from the web form, which end with an error before they write (the
  job's line items are loaded lazily outside the session's greenlet), and a
  schedule tool's line items, which fail likewise. Two forced invoices within one
  second share a file name. Lazy loads also fail exports of quotes and invoices,
  which is one of the causes of `ExportFails`.
- Services beyond the first hundred, which the listing does not return.
- `unassign_job`, which nothing calls, and reading operations: availability,
  reports, search, the dashboard's routes, `check_shifts` of the scheduler (it reads
  and queues one message per employee).
- Language model parsing: an external answer, nondeterministic in `Conversation`.
- QuickBooks: `run_sync` reads a column that `Business` lacks and ends as FAILED
  before its first record, and the chat tools call it with an argument it does not
  take, so there is no behaviour to check. Outgoing customer webhooks are posted
  once, logged, and not retried.
- The routing solver's optimality, distances and arrival times; notices that
  autoroute queues before its commit (`ScheduleFails` keeps them queued), and that it
  emits no event, so calendars do not follow.
- The database backup (one blocking step), schema migrations, the engine registry,
  templates, logging, and the front end.
