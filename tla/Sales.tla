------------------------------- MODULE Sales -------------------------------
(***************************************************************************)
(* The sales path of one business: customers and their pipeline stage,    *)
(* requests, quotes, and the jobs made from them (services/crm_service,   *)
(* services/quote_service, services/pipeline_handlers, the chat tools and  *)
(* PWA routes that call them, and the undo of the last chat action).       *)
(*                                                                         *)
(* Every caller is a session: a chat user or an HTTP client with a         *)
(* database session of its own.  Reads take no lock and keep their copies  *)
(* (expire_on_commit=False), so an operation is split where it awaits      *)
(* between a read and the write that depends on it; a flush and the commit *)
(* that follows it hold the write lock and are one action.  emit() awaits  *)
(* its handlers, so the pipeline handlers are steps of the session that    *)
(* emitted the event.                                                      *)
(***************************************************************************)
EXTENDS Naturals, FiniteSets

CONSTANTS
    Customers, Quotes, Jobs, Requests,  \* ids the tables can hold
    Names,          \* customer names a user can type
    GeneralCustomer, \* the name a conversion gives the first customer
    Known,          \* customers the business may start with
    Sessions,       \* chat users and HTTP clients
    None, Gone,     \* no row yet; a deleted row
    ToolStages,     \* stages a user sets by hand
    EditStatuses,   \* request statuses a user sets by hand
    QuotingChoices, \* values the owner gives the quoting setting
    PwaStatuses,    \* quote statuses the PWA form sends
    MaxOps          \* bound: operations begun in one behaviour

PipelineStage ==
    {"NEW_LEAD", "NOT_CONTACTED", "CONTACTED", "QUOTED", "CONVERTED_ONCE",
     "CONVERTED_RECURRENT", "NOT_INTERESTED", "LOST"}
QuoteStatus == {"DRAFT", "SENT", "ACCEPTED", "REJECTED", "EXPIRED"}
RequestStatus == {"PENDING", "CONVERTED", "DISMISSED", "COMPLETED", "LOGGED"}
QuotingWorkflow == {"NEVER", "MANUAL", "AUTOMATIC"}
PromotionAction == {"SCHEDULE", "COMPLETE", "LOG", "QUOTE"}

Converted == {"CONVERTED_ONCE", "CONVERTED_RECURRENT"}

ASSUME SalesAssumption ==
    /\ ToolStages \subseteq PipelineStage
    /\ EditStatuses \subseteq RequestStatus
    /\ PwaStatuses \subseteq QuoteStatus
    /\ GeneralCustomer \in Names /\ Known \subseteq Customers
    /\ QuotingChoices \subseteq QuotingWorkflow
    /\ MaxOps \in Nat
    /\ None \notin Customers \cup Quotes \cup Jobs \cup Requests \cup Names
    /\ {None, Gone} \cap (RequestStatus \cup PipelineStage) = {}
    /\ None # Gone
    /\ Quotes \cap Requests = {}  \* a job's origin is one or the other

VARIABLES
    customer,   \* customers table
    quote,      \* quotes table
    job,        \* jobs table
    request,    \* requests table: the status of each request
    workflow,   \* the business's quoting setting
    op,         \* what each session is doing, and the copies it holds
    last,       \* last_action_metadata of each chat user
    started     \* operations begun so far

vars == <<customer, quote, job, request, workflow, op, last, started>>

-----------------------------------------------------------------------------
CustomerRow == [name : Names, stage : PipelineStage]
QuoteRow == [customer : Customers, status : QuoteStatus,
             job : Jobs \cup {None}, origin : Requests \cup {None}]
RequestRow == RequestStatus
JobRow == [customer : Customers, origin : Quotes \cup Requests \cup {None}]

ASSUME RowsAssumption == {None, Gone} \cap (CustomerRow \cup QuoteRow \cup JobRow) = {}

\* What the undo of the last action needs: the action, its row, the old status.
\* "other" is an action no branch of the undo matches, "none" is NULL.
Metadata == [action : {"none", "create job", "create request", "update request",
                       "promote job", "other"},
             j : Jobs \cup {None}, r : Requests \cup {None},
             old : RequestStatus \cup {None}]
NoMeta == [action |-> "none", j |-> None, r |-> None, old |-> None]
Other == [NoMeta EXCEPT !.action = "other"]

Steps == {"idle", "addLead", "addJob", "convert", "sending", "confirm",
          "created", "counted", "contact", "contactSeen", "missed", "delete", "failed"}
Op == [at : Steps, n : Names \cup {None}, c : Customers \cup {None},
       q : Quotes \cup {None}, r : Requests \cup {None},
       stage : PipelineStage \cup {None}, count : Nat, meta : Metadata]
Idle == [at |-> "idle", n |-> None, c |-> None, q |-> None, r |-> None,
         stage |-> None, count |-> 0, meta |-> NoMeta]

Rows(table) == {x \in DOMAIN table : table[x] \notin {None, Gone}}
IsNew(x, table) == x = CHOOSE y \in DOMAIN table : table[y] = None
CanInsert(x, table) == table[x] = None /\ IsNew(x, table)

\* The chat's look-ups by name; a search from a chat tool leaves dates, stage
\* and radius at their defaults, so only the text conditions select.
Named(n) == {c \in Rows(customer) : customer[c].name = n}
Search(n) == Named(n)
\* get_by_name is scalar_one_or_none: two rows of one name make it raise.
LookupRaises(n) == Cardinality(Named(n)) > 1
FoundByName(n) == IF Named(n) = {} THEN None ELSE CHOOSE c \in Named(n) : TRUE

JobsOf(c) == {j \in Rows(job) : job[j].customer = c}

SalesInit ==
    /\ \E n \in Names, k \in SUBSET Known : customer = [c \in Customers |->
            IF c \in k THEN [name |-> n, stage |-> "NOT_CONTACTED"] ELSE None]
    /\ quote = [q \in Quotes |-> None]
    /\ job = [j \in Jobs |-> None]
    /\ request = [r \in Requests |-> None]
    /\ workflow = "MANUAL"
    /\ op = [s \in Sessions |-> Idle]
    /\ last = [s \in Sessions |-> NoMeta]
    /\ started = 0

\* A session takes up an operation, and moves to the step its await suspends it at.
Begin(s) == /\ op[s].at = "idle" /\ started < MaxOps
            /\ started' = started + 1
At(s, step) == op[s].at = step
GoTo(s, rec) == op' = [op EXCEPT ![s] = rec]
\* The tool returned: the chat turn saves its metadata in the conversation row.
Close(s) == /\ GoTo(s, Idle)
            /\ last' = [last EXCEPT ![s] = IF op[s].meta.action = "none" THEN @ ELSE op[s].meta]
\* An operation of one transaction, which leaves the session idle.
OneShot(s) == Begin(s) /\ UNCHANGED op

-----------------------------------------------------------------------------
(* Customers *)

\* AddLeadTool: look the name up, then (geocoding in between) insert.
AddLeadLookup(s, n) ==
    /\ Begin(s) /\ Named(n) = {}
    /\ GoTo(s, [Idle EXCEPT !.at = "addLead", !.n = n, !.meta = Other])
    /\ UNCHANGED <<customer, quote, job, request, workflow, last>>

AddLeadInsert(s) ==
    /\ At(s, "addLead")
    /\ \E c \in Customers :
         /\ CanInsert(c, customer)
         /\ customer' = [customer EXCEPT ![c] = [name |-> op[s].n, stage |-> "NOT_CONTACTED"]]
    /\ Close(s)
    /\ UNCHANGED <<quote, job, request, workflow, started>>

\* EditCustomerTool: refuses unless the search finds exactly one customer.
EditCustomer(s, n, new) ==
    /\ OneShot(s)
    /\ Cardinality(Search(n)) = 1
    /\ customer' = [c \in Customers |->
                      IF c \in Search(n) THEN [customer[c] EXCEPT !.name = new]
                                         ELSE customer[c]]
    /\ last' = [last EXCEPT ![s] = Other]
    /\ UNCHANGED <<quote, job, request, workflow>>

\* UpdateCustomerStageTool.
UpdateCustomerStage(s, n, stage) ==
    /\ OneShot(s)
    /\ Cardinality(Search(n)) = 1
    /\ customer' = [c \in Customers |->
                      IF c \in Search(n) THEN [customer[c] EXCEPT !.stage = stage]
                                         ELSE customer[c]]
    /\ last' = [last EXCEPT ![s] = Other]
    /\ UNCHANGED <<quote, job, request, workflow>>

\* POST /customers: no look-up for a customer of that name.
PwaCreateCustomer(s, n, stage) ==
    /\ OneShot(s)
    /\ \E c \in Customers :
         /\ CanInsert(c, customer)
         /\ customer' = [customer EXCEPT ![c] = [name |-> n, stage |-> stage]]
    /\ UNCHANGED <<quote, job, request, workflow, last>>

\* PATCH /customers/{id}: the fields the form sends are written.
PwaUpdateCustomer(s, c, stage) ==
    /\ OneShot(s) /\ c \in Rows(customer)
    /\ customer' = [customer EXCEPT ![c].stage = stage]
    /\ UNCHANGED <<quote, job, request, workflow, last>>

\* UpdateWorkflowSettingsTool: update_settings, for the setting this path reads.
UpdateWorkflowSettings(s, quoting) ==
    /\ OneShot(s)
    /\ workflow' = quoting
    /\ last' = [last EXCEPT ![s] = Other]
    /\ UNCHANGED <<customer, quote, job, request>>

-----------------------------------------------------------------------------
(* Jobs *)

\* create_job: the job (and a customer flushed before it) is committed, then
\* JOB_CREATED is emitted; rec is what the session goes on with.
CreateJob(s, c, origin, rec) ==
    \E j \in Jobs :
      /\ CanInsert(j, job)
      /\ job' = [job EXCEPT ![j] = [customer |-> c, origin |-> origin]]
      /\ GoTo(s, [rec EXCEPT !.at = "created", !.c = c, !.meta.j = j])

\* The customer an operation found, or one it adds in the same transaction.
WithCustomer(found, n, c) ==
    IF found # None
    THEN c = found /\ UNCHANGED customer
    ELSE /\ CanInsert(c, customer)
         /\ customer' = [customer EXCEPT ![c] = [name |-> n, stage |-> "NOT_CONTACTED"]]

\* AddJobTool: find the customer, geocode, infer line items ...
AddJobLookup(s, n) ==
    /\ Begin(s) /\ ~LookupRaises(n)
    /\ GoTo(s, [Idle EXCEPT !.at = "addJob", !.n = n, !.c = FoundByName(n)])
    /\ UNCHANGED <<customer, quote, job, request, workflow, last>>

\* ... then add the customer if there was none, and the job.
AddJobCommit(s) ==
    /\ At(s, "addJob")
    /\ \E c \in Customers :
         /\ WithCustomer(op[s].c, op[s].n, c)
         /\ CreateJob(s, c, None, [Idle EXCEPT !.meta.action = "create job"])
    /\ UNCHANGED <<quote, request, workflow, last, started>>

\* POST /jobs.
PwaCreateJob(s, c) ==
    /\ Begin(s) /\ c \in Rows(customer)
    /\ CreateJob(s, c, None, Idle)
    /\ UNCHANGED <<customer, quote, request, workflow, last>>

-----------------------------------------------------------------------------
(* Requests *)

InsertRequest(r) ==
    /\ CanInsert(r, request)
    /\ request' = [request EXCEPT ![r] = "PENDING"]

\* AddRequestTool: the request, then CONTACT_EVENT when it names a customer.
StoreRequest(s, n) ==
    /\ Begin(s) /\ ~LookupRaises(n)
    /\ \E r \in Requests :
         LET meta == [NoMeta EXCEPT !.action = "create request", !.r = r] IN
         /\ InsertRequest(r)
         /\ IF Named(n) # {}
            THEN /\ GoTo(s, [Idle EXCEPT !.at = "contact", !.c = FoundByName(n), !.meta = meta])
                 /\ UNCHANGED last
            ELSE /\ last' = [last EXCEPT ![s] = meta]
                 /\ UNCHANGED op
    /\ UNCHANGED <<customer, quote, job, workflow>>

\* POST /requests.
PwaCreateRequest(s) ==
    /\ OneShot(s)
    /\ \E r \in Requests : InsertRequest(r)
    /\ UNCHANGED <<customer, quote, job, workflow, last>>

\* PATCH /requests/{id}.
UpdateRequest(s, r, status) ==
    /\ OneShot(s) /\ r \in Rows(request)
    /\ request' = [request EXCEPT ![r] = status]
    /\ UNCHANGED <<customer, quote, job, workflow, last>>

\* DELETE /requests/{id}.
DeleteRequest(s, r) ==
    /\ OneShot(s) /\ r \in Rows(request)
    /\ request' = [request EXCEPT ![r] = Gone]
    /\ UNCHANGED <<customer, quote, job, workflow, last>>

\* Mutant of ConvertRead: the request is deleted before anything is made from it.
ConvertDeletesFirst(s, r, action) ==
    /\ Begin(s) /\ r \in Rows(request)
    /\ \E c \in (IF Rows(customer) = {} THEN {None} ELSE Rows(customer)) :
         GoTo(s, [Idle EXCEPT !.at = "convert", !.r = r, !.c = c, !.n = GeneralCustomer,
                              !.meta.action = IF action = "SCHEDULE" THEN "promote job"
                                                                     ELSE "other"])
    /\ request' = [request EXCEPT ![r] = Gone]
    /\ UNCHANGED <<customer, quote, job, workflow, last>>

\* ConvertRequestTool, SCHEDULE or QUOTE: the request and a customer are read ...
ConvertRead(s, r, action) ==
    /\ Begin(s) /\ r \in Rows(request)
    /\ \E c \in (IF Rows(customer) = {} THEN {None} ELSE Rows(customer)) :
         GoTo(s, [Idle EXCEPT !.at = "convert", !.r = r, !.c = c, !.n = GeneralCustomer,
                              !.meta.action = IF action = "SCHEDULE" THEN "promote job"
                                                                     ELSE "other"])
    /\ UNCHANGED <<customer, quote, job, request, workflow, last>>

\* ... a job is created from it (committed, JOB_CREATED) ...
ConvertToJob(s) ==
    /\ At(s, "convert") /\ op[s].meta.action = "promote job"
    /\ \E c \in Customers :
         /\ WithCustomer(op[s].c, op[s].n, c)
         /\ CreateJob(s, c, op[s].r, [op[s] EXCEPT !.meta.r = op[s].r])
    /\ UNCHANGED <<quote, request, workflow, last, started>>

\* ... or a draft quote, once create_from_request has found it again ...
ConvertToQuote(s) ==
    /\ At(s, "convert") /\ op[s].meta.action = "other"
    /\ op[s].r \in Rows(request)
    /\ \E c \in Customers, q \in Quotes :
         /\ WithCustomer(op[s].c, op[s].n, c)
         /\ CanInsert(q, quote)
         /\ quote' = [quote EXCEPT ![q] = [customer |-> c, status |-> "DRAFT",
                                           job |-> None, origin |-> op[s].r]]
    /\ GoTo(s, [op[s] EXCEPT !.at = "delete"])
    /\ UNCHANGED <<job, request, workflow, last, started>>

\* ... and the request is deleted in a second transaction (a row that is
\* already deleted only warns).
DeleteConverted(s) ==
    /\ At(s, "delete")
    /\ request' = [request EXCEPT ![op[s].r] = Gone]
    /\ Close(s)
    /\ UNCHANGED <<customer, quote, job, workflow, started>>

\* Mutant of ConvertMark: the action's name is stored for the status.
MarkedWithAction(s, r, action) ==
    /\ OneShot(s) /\ r \in Rows(request)
    /\ request' = [request EXCEPT ![r] = action]
    /\ last' = [last EXCEPT ![s] = [NoMeta EXCEPT !.action = "update request", !.r = r,
                                                  !.old = request[r]]]
    /\ UNCHANGED <<customer, quote, job, workflow>>

\* ConvertRequestTool, COMPLETE or LOG.
ConvertMark(s, r, action) ==
    /\ OneShot(s) /\ r \in Rows(request)
    /\ request' = [request EXCEPT ![r] = IF action = "COMPLETE" THEN "COMPLETED" ELSE "LOGGED"]
    /\ last' = [last EXCEPT ![s] = [NoMeta EXCEPT !.action = "update request", !.r = r,
                                                  !.old = request[r]]]
    /\ UNCHANGED <<customer, quote, job, workflow>>

-----------------------------------------------------------------------------
(* Quotes *)

InsertQuote(q, c, status) ==
    /\ CanInsert(q, quote)
    /\ quote' = [quote EXCEPT ![q] = [customer |-> c, status |-> status,
                                      job |-> None, origin |-> None]]

\* CreateQuoteTool: refused while quoting is NEVER or the customer is not
\* unique; create_quote commits a draft, which send_quote then works on.
CreateQuote(s, n) ==
    /\ Begin(s)
    /\ workflow # "NEVER"
    /\ Cardinality(Search(n)) = 1
    /\ \E q \in Quotes :
         /\ InsertQuote(q, FoundByName(n), "DRAFT")
         /\ GoTo(s, [Idle EXCEPT !.at = "sending", !.q = q, !.meta = Other])
    /\ UNCHANGED <<customer, job, request, workflow, last>>

\* POST /quotes: whatever status the form sends, and no event.
PwaCreateQuote(s, c, status) ==
    /\ OneShot(s) /\ c \in Rows(customer)
    /\ \E q \in Quotes : InsertQuote(q, c, status)
    /\ UNCHANGED <<customer, job, request, workflow, last>>

\* send_quote: the PDF template reads the quote's lines, which the refresh that
\* ended create_quote has unloaded and get_quote does not load, so that making
\* the PDF always raises before anything is uploaded, queued or written: SENT is
\* never written here and QUOTE_SENT never emitted.  The tool reports it and
\* returns.
SendQuote(s) ==
    /\ At(s, "sending")
    /\ Close(s)
    /\ UNCHANGED <<customer, quote, job, request, workflow, started>>

\* Mutant of ConfirmRead: no test for a quote that is already accepted.
ConfirmAnyQuote(s, q) ==
    /\ Begin(s) /\ q \in Rows(quote)
    /\ GoTo(s, [Idle EXCEPT !.at = "confirm", !.q = q])
    /\ UNCHANGED <<customer, quote, job, request, workflow, last>>

\* confirm_quote, the public link: an accepted quote is returned as it is ...
ConfirmRead(s, q) ==
    /\ Begin(s) /\ q \in Rows(quote)
    /\ quote[q].status # "ACCEPTED"
    /\ GoTo(s, [Idle EXCEPT !.at = "confirm", !.q = q])
    /\ UNCHANGED <<customer, quote, job, request, workflow, last>>

\* Mutant of ConfirmCommit: the quote never learns its job.
ConfirmForgetsJob(s) ==
    /\ At(s, "confirm")
    /\ \E j \in Jobs :
         /\ CanInsert(j, job)
         /\ job' = [job EXCEPT ![j] = [customer |-> quote[op[s].q].customer,
                                       origin |-> op[s].q]]
         /\ quote' = [quote EXCEPT ![op[s].q].status = "ACCEPTED"]
    /\ GoTo(s, Idle)
    /\ UNCHANGED <<customer, request, workflow, last, started>>

\* ... any other becomes ACCEPTED with a new job, in one transaction
\* (QUOTE_ACCEPTED has no subscriber, JOB_CREATED is not emitted).
ConfirmCommit(s) ==
    /\ At(s, "confirm")
    /\ \E j \in Jobs :
         /\ CanInsert(j, job)
         /\ job' = [job EXCEPT ![j] = [customer |-> quote[op[s].q].customer,
                                       origin |-> op[s].q]]
         /\ quote' = [quote EXCEPT ![op[s].q].status = "ACCEPTED", ![op[s].q].job = j]
    /\ GoTo(s, Idle)
    /\ UNCHANGED <<customer, request, workflow, last, started>>

-----------------------------------------------------------------------------
(* Pipeline handlers, run inside emit() of the session's operation *)

\* The event is handled: a conversion deletes its request, others return.
Resume(s) ==
    IF op[s].r # None /\ op[s].meta.action = "promote job"
    THEN GoTo(s, [op[s] EXCEPT !.at = "delete"]) /\ UNCHANGED last
    ELSE Close(s)

\* handle_job_created counts the customer's jobs ...
JobCreatedCount(s) ==
    /\ At(s, "created")
    /\ GoTo(s, [op[s] EXCEPT !.at = "counted", !.count = Cardinality(JobsOf(op[s].c))])
    /\ UNCHANGED <<customer, quote, job, request, workflow, last, started>>

\* Mutant of JobCreatedWrite: a customer's later jobs change nothing.
OnlyFirstJobCounts(s) ==
    /\ At(s, "counted")
    /\ customer' = IF op[s].count = 1
                   THEN [customer EXCEPT ![op[s].c].stage = "CONVERTED_ONCE"]
                   ELSE customer
    /\ Resume(s)
    /\ UNCHANGED <<quote, job, request, workflow, started>>

\* ... and writes the stage that count stands for.
JobCreatedWrite(s) ==
    /\ At(s, "counted")
    /\ customer' =
         CASE op[s].count = 0 -> customer
           [] op[s].count = 1 -> [customer EXCEPT ![op[s].c].stage = "CONVERTED_ONCE"]
           [] op[s].count > 1 -> [customer EXCEPT ![op[s].c].stage = "CONVERTED_RECURRENT"]
    /\ Resume(s)
    /\ UNCHANGED <<quote, job, request, workflow, started>>

\* handle_contact_event: a customer read as NOT_CONTACTED becomes CONTACTED.
ContactRead(s) ==
    /\ At(s, "contact")
    /\ GoTo(s, [op[s] EXCEPT !.at = "contactSeen", !.stage = customer[op[s].c].stage])
    /\ UNCHANGED <<customer, quote, job, request, workflow, last, started>>

ContactWrite(s) ==
    /\ At(s, "contactSeen")
    /\ customer' = IF op[s].stage = "NOT_CONTACTED"
                   THEN [customer EXCEPT ![op[s].c].stage = "CONTACTED"]
                   ELSE customer
    /\ Resume(s)
    /\ UNCHANGED <<quote, job, request, workflow, started>>

\* A handler that raises is logged by emit(); the operation goes on.
HandlerFails(s) ==
    /\ op[s].at \in {"created", "counted", "contact", "contactSeen"}
    /\ GoTo(s, [op[s] EXCEPT !.at = "missed"])
    /\ UNCHANGED <<customer, quote, job, request, workflow, last, started>>

AfterMissed(s) ==
    /\ At(s, "missed")
    /\ Resume(s)
    /\ UNCHANGED <<customer, quote, job, request, workflow, started>>

-----------------------------------------------------------------------------
(* Undo of the last chat action; it commits with the turn *)

UndoCreate(s) ==
    LET m == last[s] IN
    /\ OneShot(s)
    /\ \/ /\ m.action = "create job" /\ m.j \in Rows(job)
          /\ job' = [job EXCEPT ![m.j] = Gone]
          /\ UNCHANGED request
       \/ /\ m.action = "create request" /\ m.r \in Rows(request)
          /\ request' = [request EXCEPT ![m.r] = Gone]
          /\ UNCHANGED job
    /\ last' = [last EXCEPT ![s] = NoMeta]
    /\ UNCHANGED <<customer, quote, workflow>>

UndoUpdate(s) ==
    LET m == last[s] IN
    /\ OneShot(s)
    /\ m.action = "update request" /\ m.r \in Rows(request)
    /\ request' = [request EXCEPT ![m.r] = m.old]
    /\ last' = [last EXCEPT ![s] = NoMeta]
    /\ UNCHANGED <<customer, quote, job, workflow>>

\* The promoted request comes back as a new row, and its job is deleted.
UndoPromote(s) ==
    LET m == last[s] IN
    /\ OneShot(s)
    /\ m.action = "promote job" /\ m.j \in Rows(job)
    /\ \E r \in Requests : InsertRequest(r)
    /\ job' = [job EXCEPT ![m.j] = Gone]
    /\ last' = [last EXCEPT ![s] = NoMeta]
    /\ UNCHANGED <<customer, quote, workflow>>

-----------------------------------------------------------------------------
\* An exception or a lost process ends the operation; nothing uncommitted stays.
Fail(s) ==
    /\ op[s].at \notin {"idle", "failed"}
    /\ GoTo(s, [Idle EXCEPT !.at = "failed"])
    /\ UNCHANGED <<customer, quote, job, request, workflow, last, started>>

NextCall(s) ==
    /\ At(s, "failed")
    /\ GoTo(s, Idle)
    /\ UNCHANGED <<customer, quote, job, request, workflow, last, started>>

\* What a session inside an operation does next.
Continue(s) ==
    \/ AddLeadInsert(s) \/ AddJobCommit(s)
    \/ ConvertToJob(s) \/ ConvertToQuote(s) \/ DeleteConverted(s)
    \/ SendQuote(s) \/ ConfirmCommit(s)
    \/ JobCreatedCount(s) \/ JobCreatedWrite(s)
    \/ ContactRead(s) \/ ContactWrite(s) \/ AfterMissed(s) \/ NextCall(s)

Call(s) ==
    \/ \E n \in Names :
         \/ AddLeadLookup(s, n) \/ AddJobLookup(s, n)
         \/ StoreRequest(s, n) \/ CreateQuote(s, n)
         \/ \E new \in Names : EditCustomer(s, n, new)
         \/ \E stage \in ToolStages : UpdateCustomerStage(s, n, stage) \/ PwaCreateCustomer(s, n, stage)
    \/ \E c \in Customers :
         \/ PwaCreateJob(s, c)
         \/ \E stage \in ToolStages : PwaUpdateCustomer(s, c, stage)
         \/ \E status \in PwaStatuses : PwaCreateQuote(s, c, status)
    \/ \E r \in Requests :
         \/ DeleteRequest(s, r)
         \/ \E status \in EditStatuses : UpdateRequest(s, r, status)
         \/ \E action \in {"SCHEDULE", "QUOTE"} : ConvertRead(s, r, action)
         \/ \E action \in {"COMPLETE", "LOG"} : ConvertMark(s, r, action)
    \/ \E q \in Quotes : ConfirmRead(s, q)
    \/ \E quoting \in QuotingChoices : UpdateWorkflowSettings(s, quoting)
    \/ PwaCreateRequest(s)
    \/ UndoCreate(s) \/ UndoUpdate(s) \/ UndoPromote(s)

SalesNext == \E s \in Sessions : Call(s) \/ Continue(s) \/ HandlerFails(s) \/ Fail(s)

\* The event loop resumes every suspended coroutine in the end.
SalesSpec == /\ SalesInit /\ [][SalesNext]_vars
             /\ \A s \in Sessions : WF_vars(Continue(s))

-----------------------------------------------------------------------------
(* Properties *)

\* Every row, copy and metadata record has the columns the code declares.
SalesTypeOK ==
    /\ customer \in [Customers -> CustomerRow \cup {None}]
    /\ quote \in [Quotes -> QuoteRow \cup {None}]
    /\ job \in [Jobs -> JobRow \cup {None, Gone}]
    /\ request \in [Requests -> RequestRow \cup {None, Gone}]
    /\ workflow \in QuotingWorkflow
    /\ op \in [Sessions -> Op]
    /\ last \in [Sessions -> Metadata]
    /\ started \in 0..MaxOps

\* A job made from a quote is a job of the quote's customer, and a quote with a
\* job points at one of its own: confirm_quote writes the two rows together.
QuoteJobsMatch ==
    \A q \in Rows(quote) :
      LET made == {j \in Rows(job) : job[j].origin = q} IN
      /\ \A j \in made : job[j].customer = quote[q].customer
      /\ made # {} => quote[q].job \in made
      /\ quote[q].job # None => quote[q].job \in made

\* No session is between its read of quote q and the write that follows.
Settled(q) == \A s \in Sessions : op[s].q = q => op[s].at # "confirm"

\* Quote q is accepted and J are the jobs made from it.
Accepted(q, J) == /\ q \in Rows(quote) /\ quote[q].status = "ACCEPTED"
                  /\ J = {j \in Rows(job) : job[j].origin = q}

\* Once a quote is accepted and no session is in the middle of writing it, it
\* stays accepted with the jobs it has: however often and however late the
\* public link is used again, it makes no second job (confirm_quote's "Already
\* accepted").
AcceptanceIsFinal ==
    \A q \in Quotes, J \in SUBSET Jobs :
      []((Accepted(q, J) /\ Settled(q)) => []Accepted(q, J))

\* A request leaves the table only because a user deleted it (a call of one
\* transaction), or once a job or a quote made from it is committed:
\* convert_request creates first and deletes second, whatever fails in between.
RequestsAreKept ==
    [][\A r \in Rows(request) :
         request'[r] = Gone =>
            \/ op' = op
            \/ \E j \in Rows(job) : job[j].origin = r
            \/ \E q \in Rows(quote) : quote[q].origin = r]_vars

\* A created job is noted: its customer reaches a converted stage, whatever
\* stage it had and however many jobs came before, unless the handler failed.
ConversionNoted ==
    \A s \in Sessions, c \in Customers :
      (At(s, "created") /\ op[s].c = c)
        ~> (op[s].at \in {"missed", "failed"}
            \/ (c \in Rows(customer) /\ customer[c].stage \in Converted))

=============================================================================
