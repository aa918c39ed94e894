---------------------------- MODULE SalesProofs ----------------------------
(***************************************************************************)
(* Proofs about the sales path, the automation job that follows its quotes *)
(* and paid jobs, the bills made of them, and the modules MCSales runs side*)
(* by side.                                                                *)
(*                                                                         *)
(* Sales: what an operation holds between its steps names rows that stay:  *)
(* nothing deletes customers or quotes, an undo deletes only the job of    *)
(* its own session's last action, that job was made without a quote, and   *)
(* an operation under way keeps its job to itself until it closes.  From   *)
(* this, quotes and the jobs made from them match, a conversion loses no   *)
(* request, and an acceptance is final.                                    *)
(*                                                                         *)
(* Automation: its types.                                                  *)
(*                                                                         *)
(* Invoicing: what is billed adds up; the part on it says how.             *)
(***************************************************************************)
EXTENDS MCSales, MessagingProofs, FiniteSetTheorems, TLAPS

-----------------------------------------------------------------------------
(* The inductive invariant *)

\* The steps at which a handler of the session's event is at work.
Emitting == {"created", "counted", "contact", "contactSeen"}

\* What a session goes on with names rows that are there.
HoldsRows(x) ==
    /\ x.at \in {"addLead", "addJob", "convert"} => x.n \in Names
    /\ x.at \in {"addJob", "convert"} => x.c \in Rows(customer) \cup {None}
    /\ x.at \in Emitting => x.c \in Rows(customer)
    /\ x.at = "confirm" => x.q \in Rows(quote)
    /\ x.at \in {"convert", "delete"} => x.r \in Requests
    /\ x.at = "convert" => x.meta.j = None

\* A record of an action names a status to go back to, and a job that was made
\* without a quote: what is undone belongs to no quote.
NamesJob(m) ==
    /\ m.action = "update request" => m.old \in RequestStatus
    /\ m.j # None => /\ job[m.j] # None
                     /\ m.j \in Rows(job) => job[m.j].origin \notin Quotes

\* A conversion that has made its job, or its quote, still has it when it comes
\* to delete the request.
Promotes(x) == x.meta.action = "promote job" /\ x.at # "convert"
MadeFrom(x) ==
    /\ Promotes(x) => x.meta.j \in Rows(job) /\ job[x.meta.j].origin = x.r
    /\ (x.at = "delete" /\ ~Promotes(x)) => \E q \in Rows(quote) : quote[q].origin = x.r

Sound(s) == HoldsRows(op[s]) /\ NamesJob(op[s].meta) /\ MadeFrom(op[s]) /\ NamesJob(last[s])

\* The job of an operation under way is nobody's last action yet, nor of another
\* operation: nobody can undo it.
OwnJobs ==
    \A s, t \in Sessions : op[s].meta.j # None =>
        /\ last[t].j # op[s].meta.j
        /\ t # s => op[t].meta.j # op[s].meta.j

\* A job made from a quote has a quote.
QuoteOfJob == \A j \in Rows(job) : job[j].origin \in Quotes => job[j].origin \in Rows(quote)

QuotesAndJobs == QuoteOfJob /\ QuoteJobsMatch

\* The part of QuoteJobsMatch about one quote.
MatchesJobs(q) ==
    LET made == {i \in Rows(job) : job[i].origin = q} IN
    /\ \A i \in made : job[i].customer = quote[q].customer
    /\ made # {} => quote[q].job \in made
    /\ quote[q].job # None => quote[q].job \in made

SalesInv == /\ SalesTypeOK
            /\ IsFiniteSet(Rows(job))
            /\ \A s \in Sessions : Sound(s)
            /\ OwnJobs
            /\ QuotesAndJobs

-----------------------------------------------------------------------------
(* Tables *)

\* The rows of a table are the ids that hold one.
LEMMA RowsOfTable ==
  ASSUME NEW S, NEW R, NEW table \in [S -> R \cup {None, Gone}], {None, Gone} \cap R = {}
  PROVE  Rows(table) = {x \in S : table[x] \in R}
<1>1. DOMAIN table = S /\ \A x \in S : table[x] \in R \cup {None, Gone}
  OBVIOUS
<1>2. QED BY <1>1 DEF Rows

\* A row put into a table is there beside the others.
LEMMA RowPut ==
  ASSUME NEW S, NEW R, {None, Gone} \cap R = {},
         NEW old \in [S -> R \cup {None, Gone}], NEW new \in [S -> R \cup {None, Gone}],
         NEW x \in S, new[x] \in R, \A y \in S \ {x} : new[y] = old[y]
  PROVE  Rows(new) = Rows(old) \cup {x}
<1>1. Rows(new) = {y \in S : new[y] \in R} /\ Rows(old) = {y \in S : old[y] \in R}
  BY RowsOfTable
<1>2. QED BY <1>1

\* The tables of the module are such tables.
LEMMA Tables ==
  ASSUME SalesTypeOK
  PROVE  /\ customer \in [Customers -> CustomerRow \cup {None, Gone}]
         /\ quote \in [Quotes -> QuoteRow \cup {None, Gone}]
         /\ job \in [Jobs -> JobRow \cup {None, Gone}]
         /\ request \in [Requests -> RequestRow \cup {None, Gone}]
         /\ Rows(customer) = {c \in Customers : customer[c] \in CustomerRow}
         /\ Rows(quote) = {q \in Quotes : quote[q] \in QuoteRow}
         /\ Rows(job) = {j \in Jobs : job[j] \in JobRow}
         /\ Rows(request) = {r \in Requests : request[r] \in RequestRow}
<1>1. /\ {None, Gone} \cap CustomerRow = {} /\ {None, Gone} \cap QuoteRow = {}
      /\ {None, Gone} \cap JobRow = {} /\ {None, Gone} \cap RequestRow = {}
  BY RowsAssumption, SalesAssumption DEF RequestRow
<1>2. /\ customer \in [Customers -> CustomerRow \cup {None, Gone}]
      /\ quote \in [Quotes -> QuoteRow \cup {None, Gone}]
      /\ job \in [Jobs -> JobRow \cup {None, Gone}]
      /\ request \in [Requests -> RequestRow \cup {None, Gone}]
  BY DEF SalesTypeOK
<1>3. /\ Rows(customer) = {c \in Customers : customer[c] \in CustomerRow}
      /\ Rows(quote) = {q \in Quotes : quote[q] \in QuoteRow}
  <2>1. Rows(customer) = {c \in Customers : customer[c] \in CustomerRow}
    BY <1>1, <1>2, RowsOfTable
  <2>2. Rows(quote) = {q \in Quotes : quote[q] \in QuoteRow}
    BY <1>1, <1>2, RowsOfTable
  <2>3. QED BY <2>1, <2>2
<1>4. /\ Rows(job) = {j \in Jobs : job[j] \in JobRow}
      /\ Rows(request) = {r \in Requests : request[r] \in RequestRow}
  <2>1. Rows(job) = {j \in Jobs : job[j] \in JobRow}
    BY <1>1, <1>2, RowsOfTable
  <2>2. Rows(request) = {r \in Requests : request[r] \in RequestRow}
    BY <1>1, <1>2, RowsOfTable
  <2>3. QED BY <2>1, <2>2
<1>5. QED BY <1>2, <1>3, <1>4

\* A row added where there was none, or written over a row.
LEMMA CustomerPut ==
  ASSUME SalesTypeOK, NEW c \in Customers, NEW row \in CustomerRow,
         customer' = [customer EXCEPT ![c] = row]
  PROVE  /\ customer' \in [Customers -> CustomerRow \cup {None}]
         /\ Rows(customer') = Rows(customer) \cup {c}
<1> DEFINE new == customer'
<1>1. /\ new \in [Customers -> CustomerRow \cup {None}]
      /\ new[c] \in CustomerRow /\ \A d \in Customers \ {c} : new[d] = customer[d]
  BY DEF SalesTypeOK
<1>2. new = customer'
  OBVIOUS
<1> HIDE DEF new
<1>3. {None, Gone} \cap CustomerRow = {} /\ customer \in [Customers -> CustomerRow \cup {None, Gone}]
  BY Tables, RowsAssumption
<1>4. new \in [Customers -> CustomerRow \cup {None, Gone}]
  BY <1>1
<1>5. Rows(new) = Rows(customer) \cup {c}
  BY <1>1, <1>3, <1>4, RowPut
<1>6. QED BY <1>1, <1>2, <1>5

\* A stage is written to a customer there is.
LEMMA StageWritten ==
  ASSUME SalesTypeOK, NEW c \in Rows(customer), NEW st \in PipelineStage,
         customer' = [customer EXCEPT ![c].stage = st]
  PROVE  /\ customer' \in [Customers -> CustomerRow \cup {None}]
         /\ Rows(customer') = Rows(customer)
<1>1. c \in Customers /\ customer[c] \in CustomerRow
  BY Tables
<1> DEFINE row == [customer[c] EXCEPT !.stage = st]
<1>2. row \in CustomerRow
  BY <1>1 DEF CustomerRow
<1>3. customer' = [customer EXCEPT ![c] = row]
  OBVIOUS
<1> HIDE DEF row
<1>4. /\ customer' \in [Customers -> CustomerRow \cup {None}]
      /\ Rows(customer') = Rows(customer) \cup {c}
  BY <1>1, <1>2, <1>3, CustomerPut
<1>5. QED BY <1>4

\* Rows rewritten in place, as an edit by name does.
LEMMA CustomersRewritten ==
  ASSUME SalesTypeOK, NEW T \in SUBSET Rows(customer),
         customer' \in [Customers -> CustomerRow \cup {None}],
         \A c \in Customers : c \in T \/ customer'[c] = customer[c],
         \A c \in T : customer'[c] \in CustomerRow
  PROVE  Rows(customer') = Rows(customer)
<1>1. {None, Gone} \cap CustomerRow = {} /\ customer' \in [Customers -> CustomerRow \cup {None, Gone}]
  BY RowsAssumption
<1>2. Rows(customer') = {c \in Customers : customer'[c] \in CustomerRow}
  BY <1>1, RowsOfTable
<1>3. Rows(customer) = {c \in Customers : customer[c] \in CustomerRow}
  BY Tables
<1>4. QED BY <1>2, <1>3

LEMMA QuotePut ==
  ASSUME SalesTypeOK, NEW q \in Quotes, NEW row \in QuoteRow,
         quote' = [quote EXCEPT ![q] = row]
  PROVE  /\ quote' \in [Quotes -> QuoteRow \cup {None}]
         /\ Rows(quote') = Rows(quote) \cup {q}
         /\ quote'[q] = row
         /\ \A p \in Quotes \ {q} : quote'[p] = quote[p]
<1> DEFINE new == quote'
<1>1. /\ new \in [Quotes -> QuoteRow \cup {None}]
      /\ new[q] = row /\ \A p \in Quotes \ {q} : new[p] = quote[p]
  BY DEF SalesTypeOK
<1>2. new = quote'
  OBVIOUS
<1> HIDE DEF new
<1>3. {None, Gone} \cap QuoteRow = {} /\ quote \in [Quotes -> QuoteRow \cup {None, Gone}]
  BY Tables, RowsAssumption
<1>4. new \in [Quotes -> QuoteRow \cup {None, Gone}]
  BY <1>1
<1>5. Rows(new) = Rows(quote) \cup {q}
  BY <1>1, <1>3, <1>4, RowPut
<1>6. QED BY <1>1, <1>2, <1>5

LEMMA JobPut ==
  ASSUME SalesTypeOK, NEW j \in Jobs, NEW row \in JobRow,
         job' = [job EXCEPT ![j] = row]
  PROVE  /\ job' \in [Jobs -> JobRow \cup {None, Gone}]
         /\ Rows(job') = Rows(job) \cup {j}
         /\ job'[j] = row
         /\ \A i \in Jobs \ {j} : job'[i] = job[i]
<1> DEFINE new == job'
<1>1. /\ new \in [Jobs -> JobRow \cup {None, Gone}]
      /\ new[j] = row /\ \A i \in Jobs \ {j} : new[i] = job[i]
  BY DEF SalesTypeOK
<1>2. new = job'
  OBVIOUS
<1> HIDE DEF new
<1>3. {None, Gone} \cap JobRow = {} /\ job \in [Jobs -> JobRow \cup {None, Gone}]
  BY Tables, RowsAssumption
<1>4. Rows(new) = Rows(job) \cup {j}
  BY <1>1, <1>3, RowPut
<1>5. QED BY <1>1, <1>2, <1>4

\* A job that is undone leaves the table, and its id is not given again.
LEMMA JobGone ==
  ASSUME SalesTypeOK, NEW j \in Rows(job), job' = [job EXCEPT ![j] = Gone]
  PROVE  /\ job' \in [Jobs -> JobRow \cup {None, Gone}]
         /\ Rows(job') = Rows(job) \ {j}
         /\ job'[j] = Gone
         /\ \A i \in Jobs \ {j} : job'[i] = job[i]
<1> DEFINE new == job'
<1>1. j \in Jobs /\ Rows(job) = {i \in Jobs : job[i] \in JobRow}
  BY Tables
<1>2. /\ new \in [Jobs -> JobRow \cup {None, Gone}]
      /\ new[j] = Gone /\ \A i \in Jobs \ {j} : new[i] = job[i]
  BY <1>1 DEF SalesTypeOK
<1>3. new = job'
  OBVIOUS
<1> HIDE DEF new
<1>4. {None, Gone} \cap JobRow = {}
  BY RowsAssumption
<1>5. Rows(new) = {i \in Jobs : new[i] \in JobRow}
  BY <1>2, <1>4, RowsOfTable
<1>6. Rows(new) = Rows(job) \ {j}
  BY <1>1, <1>2, <1>4, <1>5
<1>7. QED BY <1>2, <1>3, <1>6

-----------------------------------------------------------------------------
(* Sessions *)

LEMMA IdleTyped ==
  /\ NoMeta \in Metadata /\ Other \in Metadata /\ Idle \in Op
  /\ NoMeta.action = "none" /\ NoMeta.j = None
  /\ Other.action = "other" /\ Other.j = None
  /\ Idle.at = "idle" /\ Idle.meta = NoMeta
BY DEF NoMeta, Other, Idle, Metadata, Op, Steps

\* What the other sessions hold stays as it is.
OnlyIn(s) == \A t \in Sessions \ {s} : op'[t] = op[t] /\ last'[t] = last[t]

LEMMA GoesTo ==
  ASSUME SalesTypeOK, NEW s \in Sessions, NEW rec \in Op, GoTo(s, rec)
  PROVE  /\ op' \in [Sessions -> Op] /\ op'[s] = rec
         /\ \A t \in Sessions \ {s} : op'[t] = op[t]
BY DEF GoTo, SalesTypeOK

LEMMA LastNoted ==
  ASSUME SalesTypeOK, NEW s \in Sessions, NEW m \in Metadata, last' = [last EXCEPT ![s] = m]
  PROVE  /\ last' \in [Sessions -> Metadata] /\ last'[s] = m
         /\ \A t \in Sessions \ {s} : last'[t] = last[t]
BY DEF SalesTypeOK

LEMMA OpTyped ==
  ASSUME SalesTypeOK, NEW s \in Sessions
  PROVE  op[s] \in Op /\ op[s].meta \in Metadata /\ last[s] \in Metadata
BY DEF SalesTypeOK, Op

LEMMA Closes ==
  ASSUME SalesTypeOK, NEW s \in Sessions, Close(s)
  PROVE  /\ op' \in [Sessions -> Op] /\ op'[s] = Idle
         /\ last' \in [Sessions -> Metadata] /\ last'[s] \in {last[s], op[s].meta}
         /\ OnlyIn(s)
<1>1. op'[s] = Idle /\ op' \in [Sessions -> Op] /\ \A t \in Sessions \ {s} : op'[t] = op[t]
  BY IdleTyped, GoesTo DEF Close
<1> DEFINE m == IF op[s].meta.action = "none" THEN last[s] ELSE op[s].meta
<1>2. m \in Metadata /\ m \in {last[s], op[s].meta}
  BY OpTyped
<1>3. last' = [last EXCEPT ![s] = m]
  BY DEF Close
<1> HIDE DEF m
<1>4. last' \in [Sessions -> Metadata] /\ last'[s] = m /\ \A t \in Sessions \ {s} : last'[t] = last[t]
  BY <1>2, <1>3, LastNoted
<1>5. QED BY <1>1, <1>2, <1>4 DEF OnlyIn

-----------------------------------------------------------------------------
(* What a step of one session leaves the others *)

\* Rows stay; a job may go, and its id is not given again.
TablesKept ==
    /\ Rows(customer) \subseteq Rows(customer')
    /\ \A q \in Rows(quote) : q \in Rows(quote') /\ quote'[q].origin = quote[q].origin
    /\ \A j \in Jobs : job[j] # None => job'[j] # None
    /\ \A j \in Rows(job') : job[j] # None => j \in Rows(job) /\ job'[j] = job[j]

\* No job goes that another session promotes a request with.
PromotedStay(s) ==
    \A t \in Sessions \ {s} : Promotes(op[t]) => op[t].meta.j \in Rows(job')

\* The session goes on with its job, or a new one, and keeps in its last action
\* the job that was there or hands over the one it had.
JobsPassed(s) ==
    /\ op'[s].meta.j # None => op'[s].meta.j = op[s].meta.j \/ job[op'[s].meta.j] = None
    /\ last'[s].j # None => \/ last'[s].j = last[s].j
                            \/ last'[s].j = op[s].meta.j /\ op'[s].meta.j = None

LEMMA OthersSound ==
  ASSUME SalesInv, TablesKept, NEW s \in Sessions, OnlyIn(s), PromotedStay(s),
         NEW t \in Sessions \ {s}
  PROVE  Sound(t)'
<1>1. op'[t] = op[t] /\ last'[t] = last[t] /\ Sound(t)
  BY DEF OnlyIn, SalesInv
<1>2. op[t].meta \in Metadata /\ last[t] \in Metadata
  BY OpTyped DEF SalesInv
<1>3. HoldsRows(op[t])'
  BY <1>1 DEF Sound, HoldsRows, TablesKept, Emitting
<1>4. \A m \in Metadata : NamesJob(m) => NamesJob(m)'
  <2> SUFFICES ASSUME NEW m \in Metadata, NamesJob(m) PROVE NamesJob(m)'
    OBVIOUS
  <2>1. m.j \in Jobs \cup {None}
    BY DEF Metadata
  <2>2. QED BY <2>1 DEF NamesJob, TablesKept
<1>5. NamesJob(op[t].meta)' /\ NamesJob(last[t])'
  BY <1>1, <1>2, <1>4 DEF Sound, NamesJob
<1>6. Promotes(op[t]) => op[t].meta.j \in Rows(job') /\ job'[op[t].meta.j] = job[op[t].meta.j]
  <2> SUFFICES ASSUME Promotes(op[t]) PROVE op[t].meta.j \in Rows(job') /\ job'[op[t].meta.j] = job[op[t].meta.j]
    OBVIOUS
  <2>1. op[t].meta.j \in Rows(job') /\ op[t].meta.j \in Rows(job)
    BY <1>1 DEF PromotedStay, Sound, MadeFrom
  <2>2. job[op[t].meta.j] # None
    BY <2>1 DEF Rows
  <2>3. QED BY <2>1, <2>2 DEF TablesKept
<1>7. MadeFrom(op[t])'
  BY <1>1, <1>6 DEF Sound, MadeFrom, TablesKept, Promotes
<1>8. QED BY <1>3, <1>5, <1>7 DEF Sound

LEMMA JobsStayOwn ==
  ASSUME SalesInv, NEW s \in Sessions, OnlyIn(s), JobsPassed(s)
  PROVE  OwnJobs'
<1> SUFFICES ASSUME NEW a \in Sessions, NEW b \in Sessions, op'[a].meta.j # None
             PROVE  /\ last'[b].j # op'[a].meta.j
                    /\ b # a => op'[b].meta.j # op'[a].meta.j
  BY DEF OwnJobs
<1>1. \A t \in Sessions : /\ NamesJob(op[t].meta) /\ NamesJob(last[t])
                          /\ t # s => op'[t] = op[t] /\ last'[t] = last[t]
  BY DEF SalesInv, Sound, OnlyIn
<1>2. \A t, u \in Sessions : op[t].meta.j # None =>
        last[u].j # op[t].meta.j /\ (u # t => op[u].meta.j # op[t].meta.j)
  BY DEF SalesInv, OwnJobs
<1>3. \A t \in Sessions : /\ op[t].meta.j # None => job[op[t].meta.j] # None
                          /\ last[t].j # None => job[last[t].j] # None
  BY <1>1 DEF NamesJob
<1>4. CASE a = s /\ b = s
  BY <1>2, <1>3, <1>4 DEF JobsPassed
<1>5. CASE a = s /\ b # s
  BY <1>1, <1>2, <1>3, <1>5 DEF JobsPassed
<1>6. CASE a # s /\ b = s
  BY <1>1, <1>2, <1>3, <1>6 DEF JobsPassed
<1>7. CASE a # s /\ b # s
  BY <1>1, <1>2, <1>7
<1>8. QED BY <1>4, <1>5, <1>6, <1>7

\* The invariant after a step of session s, from what the step must show.
LEMMA StepKeeps ==
  ASSUME SalesInv, NEW s \in Sessions, SalesTypeOK', OnlyIn(s), TablesKept, PromotedStay(s),
         JobsPassed(s), Sound(s)', QuotesAndJobs', IsFiniteSet(Rows(job'))
  PROVE  SalesInv'
<1>1. \A t \in Sessions : Sound(t)'
  BY OthersSound
<1>2. OwnJobs'
  BY JobsStayOwn
<1>3. IsFiniteSet(Rows(job))'
  BY DEF Rows
<1>4. QED BY <1>1, <1>2, <1>3 DEF SalesInv

\* Most steps leave quotes and jobs alone.
LEMMA QuietStep ==
  ASSUME SalesInv, NEW s \in Sessions, UNCHANGED <<quote, job>>, OnlyIn(s),
         customer' \in [Customers -> CustomerRow \cup {None}], Rows(customer) \subseteq Rows(customer'),
         request' \in [Requests -> RequestRow \cup {None, Gone}],
         workflow' \in QuotingWorkflow,
         op' \in [Sessions -> Op], last' \in [Sessions -> Metadata], started' \in 0..MaxOps,
         JobsPassed(s), Sound(s)'
  PROVE  SalesInv'
<1>1. SalesTypeOK'
  BY DEF SalesInv, SalesTypeOK
<1>2. Rows(job') = Rows(job) /\ Rows(quote') = Rows(quote)
  BY DEF Rows
<1>3. TablesKept
  BY <1>2 DEF TablesKept
<1>4. PromotedStay(s)
  BY <1>2 DEF PromotedStay, SalesInv, Sound, MadeFrom
<1>5. QuotesAndJobs' /\ IsFiniteSet(Rows(job'))
  BY <1>2 DEF SalesInv, QuotesAndJobs, QuoteOfJob, QuoteJobsMatch
<1>6. QED BY <1>1, <1>3, <1>4, <1>5, StepKeeps

LEMMA Counted == ASSUME SalesTypeOK, NEW s \in Sessions, Begin(s) PROVE started' \in 0..MaxOps
<1>1. started \in 0..MaxOps
  BY DEF SalesTypeOK
<1>2. MaxOps \in Nat
  BY SalesAssumption
<1>3. QED BY <1>1, <1>2 DEF Begin

\* A session that goes on, and changes no table.
LEMMA MovingStep ==
  ASSUME SalesInv, NEW s \in Sessions, NEW rec \in Op, GoTo(s, rec),
         UNCHANGED <<customer, quote, job, request, workflow, last>>, started' \in 0..MaxOps,
         HoldsRows(rec), NamesJob(rec.meta), MadeFrom(rec), rec.meta.j \in {None, op[s].meta.j}
  PROVE  SalesInv'
<1>1. SalesTypeOK
  BY DEF SalesInv
<1>2. /\ op' \in [Sessions -> Op] /\ op'[s] = rec
      /\ \A t \in Sessions \ {s} : op'[t] = op[t]
  BY <1>1, GoesTo
<1>3. OnlyIn(s)
  BY <1>2 DEF OnlyIn
<1>4. JobsPassed(s)
  BY <1>2 DEF JobsPassed
<1>5. Sound(s)'
  <2>1. Sound(s)
    BY DEF SalesInv
  <2>2. HoldsRows(op[s])'
    BY <1>2 DEF HoldsRows, Rows
  <2>3. NamesJob(op[s].meta)' /\ NamesJob(last[s])'
    BY <1>2, <2>1 DEF Sound, NamesJob, Rows
  <2>4. MadeFrom(op[s])'
    BY <1>2 DEF MadeFrom, Promotes, Rows
  <2>5. QED BY <2>2, <2>3, <2>4 DEF Sound
<1>6. /\ customer' \in [Customers -> CustomerRow \cup {None}] /\ Rows(customer) \subseteq Rows(customer')
      /\ request' \in [Requests -> RequestRow \cup {None, Gone}]
      /\ workflow' \in QuotingWorkflow
      /\ last' \in [Sessions -> Metadata]
  BY <1>1 DEF SalesTypeOK
<1>7. QED BY <1>2, <1>3, <1>4, <1>5, <1>6, QuietStep

\* An operation that ends.
LEMMA ClosingStep ==
  ASSUME SalesInv, NEW s \in Sessions, Close(s), UNCHANGED <<quote, job, workflow, started>>,
         customer' \in [Customers -> CustomerRow \cup {None}], Rows(customer) \subseteq Rows(customer'),
         request' \in [Requests -> RequestRow \cup {None, Gone}]
  PROVE  SalesInv'
<1>1. SalesTypeOK /\ Sound(s)
  BY DEF SalesInv
<1>2. /\ op' \in [Sessions -> Op] /\ op'[s] = Idle
      /\ last' \in [Sessions -> Metadata] /\ last'[s] \in {last[s], op[s].meta}
      /\ OnlyIn(s)
  BY <1>1, Closes
<1>3. Idle.at = "idle" /\ Idle.meta.j = None /\ Idle.meta.action = "none"
  BY IdleTyped
<1>4. JobsPassed(s)
  BY <1>2, <1>3 DEF JobsPassed
<1>5. Sound(s)'
  <2>1. HoldsRows(op[s])' /\ MadeFrom(op[s])' /\ NamesJob(op[s].meta)'
    BY <1>2, <1>3 DEF HoldsRows, MadeFrom, NamesJob, Promotes, Emitting
  <2>2. NamesJob(last[s])'
    BY <1>1, <1>2 DEF Sound, NamesJob, Rows
  <2>3. QED BY <2>1, <2>2 DEF Sound
<1>6. /\ workflow' \in QuotingWorkflow
      /\ started' \in 0..MaxOps
  BY <1>1 DEF SalesTypeOK
<1>7. QED BY <1>2, <1>4, <1>5, <1>6, QuietStep

\* An operation of one transaction that leaves quotes and jobs alone.
LEMMA OneShotStep ==
  ASSUME SalesInv, NEW s \in Sessions, OneShot(s), UNCHANGED <<quote, job>>,
         customer' \in [Customers -> CustomerRow \cup {None}], Rows(customer) \subseteq Rows(customer'),
         request' \in [Requests -> RequestRow \cup {None, Gone}],
         workflow' \in QuotingWorkflow,
         NEW m \in Metadata, last' = [last EXCEPT ![s] = m],
         m = last[s] \/ (m.j = None /\ (m.action = "update request" => m.old \in RequestStatus))
  PROVE  SalesInv'
<1>1. SalesTypeOK /\ Sound(s)
  BY DEF SalesInv
<1>2. started' \in 0..MaxOps
  BY <1>1, Counted DEF OneShot
<1>3. op' = op /\ op' \in [Sessions -> Op]
  BY <1>1 DEF OneShot, SalesTypeOK
<1>4. /\ last' \in [Sessions -> Metadata] /\ last'[s] = m
      /\ \A t \in Sessions \ {s} : last'[t] = last[t]
  BY <1>1, LastNoted
<1>5. OnlyIn(s) /\ JobsPassed(s)
  BY <1>3, <1>4 DEF OnlyIn, JobsPassed
<1>6. Sound(s)'
  <2>1. op[s].at = "idle"
    BY DEF OneShot, Begin
  <2>2. HoldsRows(op[s])'
    BY <1>3, <2>1 DEF HoldsRows, Emitting
  <2>3. MadeFrom(op[s])' /\ NamesJob(op[s].meta)'
    BY <1>1, <1>3, <2>1 DEF Sound, MadeFrom, NamesJob, Promotes, Rows
  <2>4. NamesJob(last[s])'
    BY <1>1, <1>4 DEF Sound, NamesJob, Rows
  <2>5. QED BY <2>2, <2>3, <2>4 DEF Sound
<1>7. QED BY <1>2, <1>3, <1>4, <1>5, <1>6, QuietStep

\* The same, with the last action left as it is.
LEMMA FormStep ==
  ASSUME SalesInv, NEW s \in Sessions, OneShot(s), UNCHANGED <<quote, job, last>>,
         customer' \in [Customers -> CustomerRow \cup {None}], Rows(customer) \subseteq Rows(customer'),
         request' \in [Requests -> RequestRow \cup {None, Gone}],
         workflow' \in QuotingWorkflow
  PROVE  SalesInv'
<1> DEFINE m == last[s]
<1>1. m \in Metadata /\ last' = [last EXCEPT ![s] = m]
  BY OpTyped DEF SalesInv, SalesTypeOK
<1>2. m = last[s]
  OBVIOUS
<1> HIDE DEF m
<1>3. QED BY <1>1, <1>2, OneShotStep

-----------------------------------------------------------------------------
(* Customers, settings *)

\* A customer added under an id that held none.
LEMMA CustomerAdded ==
  ASSUME SalesTypeOK, NEW c \in Customers, NEW n \in Names, NEW st \in PipelineStage,
         customer' = [customer EXCEPT ![c] = [name |-> n, stage |-> st]]
  PROVE  /\ customer' \in [Customers -> CustomerRow \cup {None}]
         /\ Rows(customer') = Rows(customer) \cup {c}
<1> DEFINE row == [name |-> n, stage |-> st]
<1>1. row \in CustomerRow
  BY DEF CustomerRow
<1>2. customer' = [customer EXCEPT ![c] = row]
  OBVIOUS
<1> HIDE DEF row
<1>3. QED BY <1>1, <1>2, CustomerPut

\* What leaves the tables alone leaves them typed.
LEMMA SameTables ==
  ASSUME SalesTypeOK
  PROVE  /\ UNCHANGED customer => /\ customer' \in [Customers -> CustomerRow \cup {None}]
                                  /\ Rows(customer) \subseteq Rows(customer')
         /\ UNCHANGED request => request' \in [Requests -> RequestRow \cup {None, Gone}]
         /\ UNCHANGED workflow => workflow' \in QuotingWorkflow
         /\ UNCHANGED started => started' \in 0..MaxOps
BY DEF SalesTypeOK

LEMMA AddLeadLookupStep ==
  ASSUME SalesInv, NEW s \in Sessions, NEW n \in Names, AddLeadLookup(s, n)
  PROVE  SalesInv'
<1> DEFINE rec == [Idle EXCEPT !.at = "addLead", !.n = n, !.meta = Other]
<1>1. rec \in Op /\ rec.at = "addLead" /\ rec.n = n /\ rec.meta = Other
  BY IdleTyped DEF Op, Steps, Idle
<1>2. GoTo(s, rec) /\ UNCHANGED <<customer, quote, job, request, workflow, last>>
  BY DEF AddLeadLookup
<1>3. started' \in 0..MaxOps
  BY Counted DEF AddLeadLookup, SalesInv
<1> HIDE DEF rec
<1>4. HoldsRows(rec) /\ NamesJob(rec.meta) /\ MadeFrom(rec) /\ rec.meta.j = None
  BY <1>1, IdleTyped DEF HoldsRows, NamesJob, MadeFrom, Promotes, Emitting
<1>5. QED BY <1>1, <1>2, <1>3, <1>4, MovingStep

LEMMA AddLeadInsertStep ==
  ASSUME SalesInv, NEW s \in Sessions, AddLeadInsert(s)
  PROVE  SalesInv'
<1>1. SalesTypeOK /\ op[s].n \in Names
  BY DEF SalesInv, Sound, HoldsRows, AddLeadInsert, At
<1>2. PICK c \in Customers :
        customer' = [customer EXCEPT ![c] = [name |-> op[s].n, stage |-> "NOT_CONTACTED"]]
  BY DEF AddLeadInsert
<1>3. "NOT_CONTACTED" \in PipelineStage
  BY DEF PipelineStage
<1>4. /\ customer' \in [Customers -> CustomerRow \cup {None}]
      /\ Rows(customer') = Rows(customer) \cup {c}
  BY <1>1, <1>2, <1>3, CustomerAdded
<1>5. Close(s) /\ UNCHANGED <<quote, job, request, workflow, started>>
  BY DEF AddLeadInsert
<1>6. request' \in [Requests -> RequestRow \cup {None, Gone}]
  BY <1>1, <1>5, SameTables
<1>7. QED BY <1>4, <1>5, <1>6, ClosingStep

\* An edit of the one customer a search has found.
LEMMA EditStep ==
  ASSUME SalesInv, NEW s \in Sessions, NEW n \in Names, NEW new \in Names,
         NEW st \in PipelineStage,
         EditCustomer(s, n, new) \/ UpdateCustomerStage(s, n, st)
  PROVE  SalesInv'
<1>1. SalesTypeOK
  BY DEF SalesInv
<1>2. Search(n) \subseteq Rows(customer) /\ \A c \in Search(n) : customer[c] \in CustomerRow
  BY <1>1, Tables DEF Search, Named
<1>3. /\ customer' \in [Customers -> CustomerRow \cup {None}]
      /\ \A c \in Customers : c \in Search(n) \/ customer'[c] = customer[c]
      /\ \A c \in Search(n) : customer'[c] \in CustomerRow
  <2>1. CASE EditCustomer(s, n, new)
    <3>1. customer' = [c \in Customers |-> IF c \in Search(n) THEN [customer[c] EXCEPT !.name = new]
                                                             ELSE customer[c]]
      BY <2>1 DEF EditCustomer
    <3>2. \A c \in Search(n) : [customer[c] EXCEPT !.name = new] \in CustomerRow
      BY <1>2 DEF CustomerRow
    <3>3. QED BY <1>1, <1>2, <3>1, <3>2, Tables DEF SalesTypeOK
  <2>2. CASE UpdateCustomerStage(s, n, st)
    <3>1. customer' = [c \in Customers |-> IF c \in Search(n) THEN [customer[c] EXCEPT !.stage = st]
                                                             ELSE customer[c]]
      BY <2>2 DEF UpdateCustomerStage
    <3>2. \A c \in Search(n) : [customer[c] EXCEPT !.stage = st] \in CustomerRow
      BY <1>1, <1>2 DEF CustomerRow
    <3>3. QED BY <1>1, <1>2, <3>1, <3>2, Tables DEF SalesTypeOK
  <2>3. QED BY <2>1, <2>2
<1>4. Rows(customer') = Rows(customer)
  BY <1>1, <1>2, <1>3, CustomersRewritten
<1>5. /\ OneShot(s) /\ last' = [last EXCEPT ![s] = Other]
      /\ UNCHANGED <<quote, job, request, workflow>>
  BY DEF EditCustomer, UpdateCustomerStage
<1>6. /\ request' \in [Requests -> RequestRow \cup {None, Gone}]
      /\ workflow' \in QuotingWorkflow
  BY <1>1, <1>5, SameTables
<1>7. QED BY <1>3, <1>4, <1>5, <1>6, IdleTyped, OneShotStep

\* The web forms for a customer, and the settings.
LEMMA CustomerFormStep ==
  ASSUME SalesInv, NEW s \in Sessions, NEW n \in Names, NEW c, NEW st \in PipelineStage,
         PwaCreateCustomer(s, n, st) \/ PwaUpdateCustomer(s, c, st)
  PROVE  SalesInv'
<1>1. SalesTypeOK
  BY DEF SalesInv
<1>2. /\ customer' \in [Customers -> CustomerRow \cup {None}]
      /\ Rows(customer) \subseteq Rows(customer')
  <2>1. CASE PwaCreateCustomer(s, n, st)
    <3>1. PICK d \in Customers : customer' = [customer EXCEPT ![d] = [name |-> n, stage |-> st]]
      BY <2>1 DEF PwaCreateCustomer
    <3>2. QED BY <1>1, <3>1, CustomerAdded
  <2>2. CASE PwaUpdateCustomer(s, c, st)
    <3>1. c \in Rows(customer) /\ customer' = [customer EXCEPT ![c].stage = st]
      BY <2>2 DEF PwaUpdateCustomer
    <3>2. QED BY <1>1, <3>1, StageWritten
  <2>3. QED BY <2>1, <2>2
<1>3. OneShot(s) /\ UNCHANGED <<quote, job, request, workflow, last>>
  BY DEF PwaCreateCustomer, PwaUpdateCustomer
<1>4. /\ request' \in [Requests -> RequestRow \cup {None, Gone}]
      /\ workflow' \in QuotingWorkflow
  BY <1>1, <1>3, SameTables
<1>5. QED BY <1>2, <1>3, <1>4, FormStep

LEMMA SettingsStep ==
  ASSUME SalesInv, NEW s \in Sessions, NEW quoting \in QuotingChoices,
         UpdateWorkflowSettings(s, quoting)
  PROVE  SalesInv'
<1>1. SalesTypeOK /\ quoting \in QuotingWorkflow
  BY SalesAssumption DEF SalesInv
<1>2. workflow' \in QuotingWorkflow
  BY <1>1 DEF UpdateWorkflowSettings
<1>3. OneShot(s) /\ last' = [last EXCEPT ![s] = Other] /\ UNCHANGED <<customer, quote, job, request>>
  BY DEF UpdateWorkflowSettings
<1>4. /\ customer' \in [Customers -> CustomerRow \cup {None}]
      /\ Rows(customer) \subseteq Rows(customer')
      /\ request' \in [Requests -> RequestRow \cup {None, Gone}]
  BY <1>1, <1>3, SameTables
<1>5. QED BY <1>2, <1>3, <1>4, IdleTyped, OneShotStep

-----------------------------------------------------------------------------
(* Jobs *)

\* A job put where there was none.
LEMMA JobAdded ==
  ASSUME SalesInv, NEW j \in Jobs, CanInsert(j, job), NEW row \in JobRow,
         job' = [job EXCEPT ![j] = row]
  PROVE  /\ job' \in [Jobs -> JobRow \cup {None, Gone}]
         /\ Rows(job') = Rows(job) \cup {j} /\ IsFiniteSet(Rows(job'))
         /\ job[j] = None /\ j \notin Rows(job) /\ job'[j] = row /\ job'[j] # None
         /\ \A i \in Jobs \ {j} : job'[i] = job[i]
<1>1. SalesTypeOK /\ IsFiniteSet(Rows(job))
  BY DEF SalesInv
<1>2. /\ job' \in [Jobs -> JobRow \cup {None, Gone}]
      /\ Rows(job') = Rows(job) \cup {j}
      /\ job'[j] = row
      /\ \A i \in Jobs \ {j} : job'[i] = job[i]
  BY <1>1, JobPut
<1>6. IsFiniteSet(Rows(job) \cup {j})
  BY <1>1, FS_AddElement
<1>3. IsFiniteSet(Rows(job'))
  BY <1>2, <1>6
<1>4. job[j] = None /\ j \notin Rows(job)
  BY DEF CanInsert, Rows
<1>5. row # None
  BY RowsAssumption
<1>7. QED BY <1>2, <1>3, <1>4, <1>5

\* A job made without a quote changes nothing about quotes and their jobs.
LEMMA JobBesideQuotes ==
  ASSUME SalesInv, NEW j \in Jobs, CanInsert(j, job), NEW row \in JobRow,
         job' = [job EXCEPT ![j] = row], row.origin \notin Quotes, UNCHANGED quote
  PROVE  QuotesAndJobs'
<1>1. /\ Rows(job') = Rows(job) \cup {j} /\ j \notin Rows(job) /\ job'[j] = row
      /\ \A i \in Jobs \ {j} : job'[i] = job[i]
  BY JobAdded
<1>2. Rows(job) \subseteq Jobs /\ Rows(quote) \subseteq Quotes
  BY Tables DEF SalesInv
<1>3. \A i \in Rows(job) : job'[i] = job[i]
  BY <1>1, <1>2
<1>4. Rows(quote') = Rows(quote) /\ QuotesAndJobs
  BY DEF Rows, SalesInv
<1>5. QuoteOfJob'
  BY <1>1, <1>3, <1>4 DEF QuotesAndJobs, QuoteOfJob
<1>6. \A q \in Quotes : {i \in Rows(job') : job'[i].origin = q} = {i \in Rows(job) : job[i].origin = q}
  BY <1>1, <1>3
<1>7. QuoteJobsMatch'
  <2> SUFFICES ASSUME NEW q \in Rows(quote)
               PROVE MatchesJobs(q)'
    BY <1>4 DEF QuoteJobsMatch, MatchesJobs
  <2> DEFINE made == {i \in Rows(job) : job[i].origin = q}
  <2>1. /\ \A i \in made : job[i].customer = quote[q].customer
        /\ made # {} => quote[q].job \in made
        /\ quote[q].job # None => quote[q].job \in made
    BY <1>4 DEF QuotesAndJobs, QuoteJobsMatch
  <2>2. {i \in Rows(job') : job'[i].origin = q} = made
    BY <1>2, <1>6
  <2>3. \A i \in made : job'[i].customer = job[i].customer
    BY <1>3
  <2>4. /\ \A i \in made : job'[i].customer = quote'[q].customer
        /\ made # {} => quote'[q].job \in made
        /\ quote'[q].job # None => quote'[q].job \in made
    BY <2>1, <2>3
  <2>5. QED BY <2>2, <2>4 DEF MatchesJobs
<1>8. QED BY <1>5, <1>7 DEF QuotesAndJobs

\* create_job, for whichever operation calls it.
LEMMA CreateJobStep ==
  ASSUME SalesInv, NEW s \in Sessions, NEW c \in Customers, NEW origin \in Requests \cup {None},
         NEW rec \in Op, CreateJob(s, c, origin, rec),
         customer' \in [Customers -> CustomerRow \cup {None}],
         Rows(customer) \subseteq Rows(customer'), c \in Rows(customer'),
         UNCHANGED <<quote, request, workflow, last>>, started' \in 0..MaxOps,
         rec.meta.action # "update request",
         rec.meta.action = "promote job" => rec.r = origin
  PROVE  SalesInv'
<1> DEFINE row == [customer |-> c, origin |-> origin]
<1>1. PICK j \in Jobs : /\ CanInsert(j, job) /\ job' = [job EXCEPT ![j] = row]
                        /\ GoTo(s, [rec EXCEPT !.at = "created", !.c = c, !.meta.j = j])
  BY DEF CreateJob
<1> DEFINE new == [rec EXCEPT !.at = "created", !.c = c, !.meta.j = j]
<1>2. row \in JobRow /\ row.origin = origin /\ origin \notin Quotes
  BY SalesAssumption DEF JobRow
<1>3. /\ new \in Op /\ new.at = "created" /\ new.c = c /\ new.meta.j = j /\ new.r = rec.r
      /\ new.meta.action = rec.meta.action
  BY DEF Op, Metadata, Steps
<1>4. GoTo(s, new)
  BY <1>1
<1> HIDE DEF row, new
<1>5. SalesTypeOK /\ Sound(s)
  BY DEF SalesInv
<1>6. /\ op' \in [Sessions -> Op] /\ op'[s] = new
      /\ \A t \in Sessions \ {s} : op'[t] = op[t]
  BY <1>3, <1>4, <1>5, GoesTo
<1>7. /\ job' \in [Jobs -> JobRow \cup {None, Gone}]
      /\ Rows(job') = Rows(job) \cup {j} /\ IsFiniteSet(Rows(job'))
      /\ job[j] = None /\ j \notin Rows(job) /\ job'[j] = row /\ job'[j] # None
      /\ \A i \in Jobs \ {j} : job'[i] = job[i]
  BY <1>1, <1>2, JobAdded
<1>8. QuotesAndJobs'
  BY <1>1, <1>2, JobBesideQuotes
<1>9. SalesTypeOK'
  BY <1>5, <1>6, <1>7 DEF SalesTypeOK
<1>10. Rows(quote') = Rows(quote) /\ Rows(job) \subseteq Jobs
  BY <1>5, Tables DEF Rows
<1>11. TablesKept
  BY <1>7, <1>10 DEF TablesKept
<1>12. OnlyIn(s) /\ PromotedStay(s) /\ JobsPassed(s)
  <2>1. PromotedStay(s)
    BY <1>7 DEF PromotedStay, SalesInv, Sound, MadeFrom
  <2>2. QED BY <1>3, <1>6, <1>7, <2>1 DEF OnlyIn, JobsPassed
<1>13. Sound(s)'
  <2>1. HoldsRows(op[s])'
    BY <1>3, <1>6 DEF HoldsRows, Emitting
  <2>2. NamesJob(op[s].meta)'
    BY <1>2, <1>3, <1>6, <1>7 DEF NamesJob
  <2>3. MadeFrom(op[s])'
    BY <1>2, <1>3, <1>6, <1>7 DEF MadeFrom, Promotes
  <2>4. last[s].j \in Jobs \cup {None}
    BY <1>5, OpTyped DEF Metadata
  <2>5. NamesJob(last[s])'
    BY <1>5, <1>7, <2>4 DEF Sound, NamesJob
  <2>6. QED BY <2>1, <2>2, <2>3, <2>5 DEF Sound
<1>14. QED BY <1>7, <1>8, <1>9, <1>11, <1>12, <1>13, StepKeeps

\* The customer an operation goes on with is, or becomes, a row.
LEMMA CustomerThere ==
  ASSUME SalesTypeOK, NEW found \in Rows(customer) \cup {None}, NEW n \in Names, NEW c \in Customers,
         WithCustomer(found, n, c)
  PROVE  /\ customer' \in [Customers -> CustomerRow \cup {None}]
         /\ Rows(customer) \subseteq Rows(customer') /\ c \in Rows(customer')
<1>1. CASE found # None
  <2>1. c \in Rows(customer) /\ customer' = customer
    BY <1>1 DEF WithCustomer
  <2>2. QED BY <2>1, SameTables
<1>2. CASE found = None
  <2>1. customer' = [customer EXCEPT ![c] = [name |-> n, stage |-> "NOT_CONTACTED"]]
    BY <1>2 DEF WithCustomer
  <2>2. "NOT_CONTACTED" \in PipelineStage
    BY DEF PipelineStage
  <2>3. QED BY <2>1, <2>2, CustomerAdded
<1>3. QED BY <1>1, <1>2

LEMMA FoundTyped ==
  ASSUME SalesTypeOK, NEW n \in Names
  PROVE  FoundByName(n) \in Rows(customer) \cup {None} /\ Rows(customer) \subseteq Customers
<1>1. Rows(customer) \subseteq Customers
  BY Tables
<1>2. QED BY <1>1 DEF FoundByName, Named

LEMMA AddJobLookupStep ==
  ASSUME SalesInv, NEW s \in Sessions, NEW n \in Names, AddJobLookup(s, n)
  PROVE  SalesInv'
<1> DEFINE rec == [Idle EXCEPT !.at = "addJob", !.n = n, !.c = FoundByName(n)]
<1>1. FoundByName(n) \in Rows(customer) \cup {None} /\ Rows(customer) \subseteq Customers
  BY FoundTyped DEF SalesInv
<1>2. rec \in Op /\ rec.at = "addJob" /\ rec.n = n /\ rec.c = FoundByName(n) /\ rec.meta = NoMeta
  BY <1>1, IdleTyped DEF Op, Steps, Idle
<1>3. GoTo(s, rec) /\ UNCHANGED <<customer, quote, job, request, workflow, last>>
  BY DEF AddJobLookup
<1>4. started' \in 0..MaxOps
  BY Counted DEF AddJobLookup, SalesInv
<1> HIDE DEF rec
<1>5. HoldsRows(rec) /\ NamesJob(rec.meta) /\ MadeFrom(rec) /\ rec.meta.j = None
  BY <1>1, <1>2, IdleTyped DEF HoldsRows, NamesJob, MadeFrom, Promotes, Emitting
<1>6. QED BY <1>2, <1>3, <1>4, <1>5, MovingStep

LEMMA MetaOf ==
  ASSUME NEW x \in Op, NEW action \in {"create job", "promote job", "other"}
  PROVE  /\ [x EXCEPT !.meta.action = action] \in Op
         /\ [x EXCEPT !.meta.action = action].meta.action = action
         /\ [x EXCEPT !.meta.action = action].meta.j = x.meta.j
<1>1. x.meta \in Metadata
  BY DEF Op
<1> DEFINE m == [x.meta EXCEPT !.action = action]
<1>2. m \in Metadata /\ m.action = action /\ m.j = x.meta.j
  BY <1>1 DEF Metadata
<1>3. [x EXCEPT !.meta.action = action] = [x EXCEPT !.meta = m]
  OBVIOUS
<1> HIDE DEF m
<1>4. QED BY <1>2, <1>3 DEF Op

LEMMA AddJobCommitStep ==
  ASSUME SalesInv, NEW s \in Sessions, AddJobCommit(s)
  PROVE  SalesInv'
<1> DEFINE rec == [Idle EXCEPT !.meta.action = "create job"]
<1>1. PICK c \in Customers : WithCustomer(op[s].c, op[s].n, c) /\ CreateJob(s, c, None, rec)
  BY DEF AddJobCommit
<1>2. rec \in Op /\ rec.meta.action = "create job"
  BY IdleTyped, MetaOf
<1> HIDE DEF rec
<1>3. SalesTypeOK /\ op[s].c \in Rows(customer) \cup {None} /\ op[s].n \in Names
  BY DEF SalesInv, Sound, HoldsRows, AddJobCommit, At
<1>4. /\ customer' \in [Customers -> CustomerRow \cup {None}]
      /\ Rows(customer) \subseteq Rows(customer') /\ c \in Rows(customer')
  BY <1>1, <1>3, CustomerThere
<1>5. UNCHANGED <<quote, request, workflow, last>> /\ started' \in 0..MaxOps
  BY <1>3, SameTables DEF AddJobCommit
<1>6. QED BY <1>1, <1>2, <1>4, <1>5, CreateJobStep

LEMMA PwaCreateJobStep ==
  ASSUME SalesInv, NEW s \in Sessions, NEW c \in Customers, PwaCreateJob(s, c)
  PROVE  SalesInv'
<1>1. CreateJob(s, c, None, Idle) /\ c \in Rows(customer)
  BY DEF PwaCreateJob
<1>2. /\ customer' \in [Customers -> CustomerRow \cup {None}] /\ Rows(customer') = Rows(customer)
      /\ UNCHANGED <<quote, request, workflow, last>> /\ started' \in 0..MaxOps
  BY SameTables, Counted DEF PwaCreateJob, SalesInv
<1>3. Idle \in Op /\ Idle.meta.action = "none"
  BY IdleTyped
<1>4. QED BY <1>1, <1>2, <1>3, CreateJobStep

-----------------------------------------------------------------------------
(* Requests *)

LEMMA RequestAdded ==
  ASSUME SalesTypeOK, NEW r \in Requests, NEW status \in RequestRow \cup {Gone},
         request' = [request EXCEPT ![r] = status]
  PROVE  request' \in [Requests -> RequestRow \cup {None, Gone}]
BY DEF SalesTypeOK

LEMMA PendingTyped == "PENDING" \in RequestRow
BY DEF RequestRow, RequestStatus

LEMMA StoreRequestStep ==
  ASSUME SalesInv, NEW s \in Sessions, NEW n \in Names, StoreRequest(s, n)
  PROVE  SalesInv'
<1>1. PICK r \in Requests :
        LET meta == [NoMeta EXCEPT !.action = "create request", !.r = r] IN
        /\ InsertRequest(r)
        /\ IF Named(n) # {}
           THEN /\ GoTo(s, [Idle EXCEPT !.at = "contact", !.c = FoundByName(n), !.meta = meta])
                /\ UNCHANGED last
           ELSE /\ last' = [last EXCEPT ![s] = meta]
                /\ UNCHANGED op
  BY DEF StoreRequest
<1> DEFINE meta == [NoMeta EXCEPT !.action = "create request", !.r = r]
           rec == [Idle EXCEPT !.at = "contact", !.c = FoundByName(n), !.meta = meta]
<1>2. meta \in Metadata /\ meta.action = "create request" /\ meta.j = None
  BY IdleTyped DEF Metadata, NoMeta
<1>3. SalesTypeOK
  BY DEF SalesInv
<1>4. request' \in [Requests -> RequestRow \cup {None, Gone}]
  BY <1>1, <1>3, PendingTyped, RequestAdded DEF InsertRequest
<1>5. UNCHANGED <<customer, quote, job, workflow>> /\ started' \in 0..MaxOps
  BY <1>3, Counted DEF StoreRequest
<1>6. /\ customer' \in [Customers -> CustomerRow \cup {None}] /\ Rows(customer') = Rows(customer)
      /\ workflow' \in QuotingWorkflow
  BY <1>3, <1>5, SameTables
<1>7. CASE Named(n) = {}
  <2>1. OneShot(s) /\ last' = [last EXCEPT ![s] = meta]
    BY <1>1, <1>7 DEF StoreRequest, OneShot
  <2> HIDE DEF meta
  <2>2. QED BY <1>2, <1>4, <1>5, <1>6, <2>1, OneShotStep
<1>8. CASE Named(n) # {}
  <2>1. FoundByName(n) \in Rows(customer) /\ Rows(customer) \subseteq Customers
    BY <1>3, <1>8, Tables DEF FoundByName, Named
  <2> HIDE DEF meta
  <2>2. rec \in Op /\ rec.at = "contact" /\ rec.c = FoundByName(n) /\ rec.meta = meta
    BY <1>2, <2>1, IdleTyped DEF Op, Steps, Idle
  <2>3. GoTo(s, rec) /\ last' = last
    BY <1>1, <1>8 DEF meta
  <2> HIDE DEF rec
  <2>4. /\ op' \in [Sessions -> Op] /\ op'[s] = rec
        /\ \A t \in Sessions \ {s} : op'[t] = op[t]
    BY <1>3, <2>2, <2>3, GoesTo
  <2>5. OnlyIn(s) /\ JobsPassed(s) /\ last' \in [Sessions -> Metadata]
    BY <1>2, <1>3, <2>2, <2>3, <2>4 DEF OnlyIn, JobsPassed, SalesTypeOK
  <2>6. HoldsRows(op[s])' /\ MadeFrom(op[s])' /\ NamesJob(op[s].meta)'
    BY <1>2, <1>5, <2>1, <2>2, <2>4 DEF HoldsRows, MadeFrom, NamesJob, Promotes, Emitting, Rows
  <2>7. NamesJob(last[s])'
    BY <1>5, <2>3 DEF SalesInv, Sound, NamesJob, Rows
  <2>8. Sound(s)'
    BY <2>6, <2>7 DEF Sound
  <2>9. QED BY <1>4, <1>5, <1>6, <2>4, <2>5, <2>8, QuietStep
<1>9. QED BY Zenon, <1>7, <1>8

\* The forms for a request, and the marks of a conversion without a job.
LEMMA RequestFormStep ==
  ASSUME SalesInv, NEW s \in Sessions, NEW r, NEW status \in RequestStatus,
         PwaCreateRequest(s) \/ UpdateRequest(s, r, status) \/ DeleteRequest(s, r)
  PROVE  SalesInv'
<1>1. SalesTypeOK
  BY DEF SalesInv
<1>2. status \in RequestRow /\ Rows(request) \subseteq Requests
  BY <1>1, Tables DEF RequestRow
<1>3. request' \in [Requests -> RequestRow \cup {None, Gone}]
  <2>1. CASE PwaCreateRequest(s)
    BY <1>1, <2>1, PendingTyped, RequestAdded DEF PwaCreateRequest, InsertRequest
  <2>2. CASE UpdateRequest(s, r, status)
    BY <1>1, <1>2, <2>2, RequestAdded DEF UpdateRequest
  <2>3. CASE DeleteRequest(s, r)
    BY <1>1, <1>2, <2>3, RequestAdded DEF DeleteRequest
  <2>4. QED BY <2>1, <2>2, <2>3
<1>4. OneShot(s) /\ UNCHANGED <<customer, quote, job, workflow, last>>
  BY DEF PwaCreateRequest, UpdateRequest, DeleteRequest
<1>5. /\ customer' \in [Customers -> CustomerRow \cup {None}] /\ Rows(customer) \subseteq Rows(customer')
      /\ workflow' \in QuotingWorkflow
  BY <1>1, <1>4, SameTables
<1>6. QED BY <1>3, <1>4, <1>5, FormStep

LEMMA ConvertMarkStep ==
  ASSUME SalesInv, NEW s \in Sessions, NEW r \in Requests, NEW action, ConvertMark(s, r, action)
  PROVE  SalesInv'
<1>1. SalesTypeOK
  BY DEF SalesInv
<1>2. request[r] \in RequestStatus
  BY <1>1, Tables DEF ConvertMark, RequestRow
<1> DEFINE m == [NoMeta EXCEPT !.action = "update request", !.r = r, !.old = request[r]]
<1>3. m \in Metadata /\ m.j = None /\ m.old \in RequestStatus
  BY <1>2, IdleTyped DEF Metadata, NoMeta
<1>4. OneShot(s) /\ last' = [last EXCEPT ![s] = m] /\ UNCHANGED <<customer, quote, job, workflow>>
  BY DEF ConvertMark
<1> HIDE DEF m
<1>5. {"COMPLETED", "LOGGED"} \subseteq RequestRow
  BY DEF RequestRow, RequestStatus
<1>6. request' \in [Requests -> RequestRow \cup {None, Gone}]
  BY <1>1, <1>5, RequestAdded DEF ConvertMark
<1>7. /\ customer' \in [Customers -> CustomerRow \cup {None}] /\ Rows(customer) \subseteq Rows(customer')
      /\ workflow' \in QuotingWorkflow
  BY <1>1, <1>4, SameTables
<1>8. QED BY <1>3, <1>4, <1>6, <1>7, OneShotStep

LEMMA ConvertReadStep ==
  ASSUME SalesInv, NEW s \in Sessions, NEW r \in Requests, NEW action, ConvertRead(s, r, action)
  PROVE  SalesInv'
<1> DEFINE cs == IF Rows(customer) = {} THEN {None} ELSE Rows(customer)
           act == IF action = "SCHEDULE" THEN "promote job" ELSE "other"
           base(c) == [Idle EXCEPT !.at = "convert", !.r = r, !.c = c, !.n = GeneralCustomer]
           rec(c) == [base(c) EXCEPT !.meta.action = act]
<1>1. PICK c \in cs :
        GoTo(s, [Idle EXCEPT !.at = "convert", !.r = r, !.c = c, !.n = GeneralCustomer,
                             !.meta.action = act])
  BY DEF ConvertRead
<1>2. c \in Rows(customer) \cup {None} /\ Rows(customer) \subseteq Customers /\ GeneralCustomer \in Names
  BY Tables, SalesAssumption DEF SalesInv
<1>3. /\ base(c) \in Op /\ base(c).at = "convert" /\ base(c).r = r /\ base(c).c = c
      /\ base(c).n = GeneralCustomer /\ base(c).meta = NoMeta
  BY <1>2, IdleTyped DEF Op, Steps, Idle
<1>4. /\ rec(c) \in Op /\ rec(c).meta.action = act /\ rec(c).meta.j = None
      /\ rec(c).at = "convert" /\ rec(c).r = r /\ rec(c).c = c /\ rec(c).n = GeneralCustomer
  <2> HIDE DEF base
  <2>1. act \in {"create job", "promote job", "other"}
    OBVIOUS
  <2> HIDE DEF act
  <2>2. rec(c) \in Op /\ rec(c).meta.action = act /\ rec(c).meta.j = base(c).meta.j
    BY <1>3, <2>1, MetaOf
  <2>3. base(c).meta.j = None
    BY <1>3, IdleTyped
  <2>4. rec(c).at = "convert" /\ rec(c).r = r /\ rec(c).c = c /\ rec(c).n = GeneralCustomer
    BY <1>3 DEF Op
  <2>5. QED BY <2>2, <2>3, <2>4
<1>5. GoTo(s, rec(c))
  BY <1>1 DEF GoTo, Idle
<1>6. UNCHANGED <<customer, quote, job, request, workflow, last>> /\ started' \in 0..MaxOps
  BY Counted DEF ConvertRead, SalesInv
<1>7. \E x \in Op : /\ GoTo(s, x) /\ x.at = "convert" /\ x.r = r /\ x.c = c /\ x.n = GeneralCustomer
                    /\ x.meta.j = None /\ x.meta.action \in {"promote job", "other"}
  BY <1>4, <1>5
<1> HIDE DEF rec
<1>8. PICK x \in Op : /\ GoTo(s, x) /\ x.at = "convert" /\ x.r = r /\ x.c = c /\ x.n = GeneralCustomer
                      /\ x.meta.j = None /\ x.meta.action \in {"promote job", "other"}
  BY <1>7
<1>9. HoldsRows(x) /\ NamesJob(x.meta) /\ MadeFrom(x)
  BY <1>2, <1>8 DEF HoldsRows, NamesJob, MadeFrom, Promotes, Emitting
<1>10. QED BY <1>6, <1>8, <1>9, MovingStep

LEMMA ConvertToJobStep ==
  ASSUME SalesInv, NEW s \in Sessions, ConvertToJob(s)
  PROVE  SalesInv'
<1> DEFINE rec == [op[s] EXCEPT !.meta.r = op[s].r]
<1>1. PICK c \in Customers : WithCustomer(op[s].c, op[s].n, c) /\ CreateJob(s, c, op[s].r, rec)
  BY DEF ConvertToJob
<1>2. /\ SalesTypeOK /\ op[s] \in Op /\ op[s].meta \in Metadata
      /\ op[s].c \in Rows(customer) \cup {None} /\ op[s].n \in Names /\ op[s].r \in Requests
  BY OpTyped DEF SalesInv, Sound, HoldsRows, ConvertToJob, At
<1>3. rec \in Op /\ rec.meta.action = "promote job" /\ rec.r = op[s].r
  BY <1>2 DEF Op, Metadata, ConvertToJob
<1> HIDE DEF rec
<1>4. /\ customer' \in [Customers -> CustomerRow \cup {None}]
      /\ Rows(customer) \subseteq Rows(customer') /\ c \in Rows(customer')
  BY <1>1, <1>2, CustomerThere
<1>5. UNCHANGED <<quote, request, workflow, last>> /\ started' \in 0..MaxOps
  BY <1>2, SameTables DEF ConvertToJob
<1>6. QED BY <1>1, <1>2, <1>3, <1>4, <1>5, CreateJobStep

LEMMA DeleteConvertedStep ==
  ASSUME SalesInv, NEW s \in Sessions, DeleteConverted(s)
  PROVE  SalesInv'
<1>1. SalesTypeOK /\ op[s].r \in Requests
  BY DEF SalesInv, Sound, HoldsRows, DeleteConverted, At
<1>2. request' \in [Requests -> RequestRow \cup {None, Gone}]
  BY <1>1, RequestAdded DEF DeleteConverted
<1>3. Close(s) /\ UNCHANGED <<customer, quote, job, workflow, started>>
  BY DEF DeleteConverted
<1>4. customer' \in [Customers -> CustomerRow \cup {None}] /\ Rows(customer) \subseteq Rows(customer')
  BY <1>1, <1>3, SameTables
<1>5. QED BY <1>2, <1>3, <1>4, ClosingStep

-----------------------------------------------------------------------------
(* Quotes *)

\* A quote added without a job, or one whose job and customer stay.
LEMMA QuotesKept ==
  ASSUME SalesInv, UNCHANGED job, Rows(customer) \subseteq Rows(customer'),
         quote' \in [Quotes -> QuoteRow \cup {None}],
         \A q \in Rows(quote) :
            /\ q \in Rows(quote') /\ quote'[q].customer = quote[q].customer
            /\ quote'[q].job = quote[q].job /\ quote'[q].origin = quote[q].origin,
         \A q \in Rows(quote') \ Rows(quote) : quote'[q].job = None
  PROVE  TablesKept /\ QuotesAndJobs' /\ IsFiniteSet(Rows(job')) /\ \A t \in Sessions : PromotedStay(t)
<1>1. /\ SalesTypeOK /\ QuotesAndJobs /\ Rows(job') = Rows(job) /\ IsFiniteSet(Rows(job))
      /\ \A t \in Sessions : Sound(t)
  BY DEF SalesInv, Rows
<1>2. TablesKept
  BY <1>1 DEF TablesKept
<1>3. QuoteOfJob'
  BY <1>1 DEF QuotesAndJobs, QuoteOfJob
<1>4. QuoteJobsMatch'
  <2> SUFFICES ASSUME NEW q \in Rows(quote')
               PROVE LET made == {j \in Rows(job) : job[j].origin = q} IN
                     /\ \A j \in made : job[j].customer = quote'[q].customer
                     /\ made # {} => quote'[q].job \in made
                     /\ quote'[q].job # None => quote'[q].job \in made
    BY <1>1 DEF QuoteJobsMatch
  <2>1. CASE q \in Rows(quote)
    <3>1. /\ quote'[q].customer = quote[q].customer /\ quote'[q].job = quote[q].job
      BY <2>1
    <3>2. LET made == {j \in Rows(job) : job[j].origin = q} IN
          /\ \A j \in made : job[j].customer = quote[q].customer
          /\ made # {} => quote[q].job \in made
          /\ quote[q].job # None => quote[q].job \in made
      BY <1>1, <2>1 DEF QuotesAndJobs, QuoteJobsMatch
    <3>3. QED BY <3>1, <3>2
  <2>2. CASE q \notin Rows(quote)
    <3>1. q \in Quotes
      BY DEF Rows
    <3>2. {j \in Rows(job) : job[j].origin = q} = {}
      BY <1>1, <2>2, <3>1 DEF QuotesAndJobs, QuoteOfJob
    <3>3. QED BY <2>2, <3>2
  <2>3. QED BY <2>1, <2>2
<1>5. \A t \in Sessions : PromotedStay(t)
  BY <1>1 DEF PromotedStay, Sound, MadeFrom
<1>6. QED BY <1>1, <1>2, <1>3, <1>4, <1>5 DEF QuotesAndJobs

\* A quote put under an id that held none.
LEMMA QuoteAdded ==
  ASSUME SalesInv, UNCHANGED job, Rows(customer) \subseteq Rows(customer'),
         NEW q \in Quotes, CanInsert(q, quote), NEW row \in QuoteRow, row.job = None,
         quote' = [quote EXCEPT ![q] = row]
  PROVE  /\ quote' \in [Quotes -> QuoteRow \cup {None}] /\ q \in Rows(quote') /\ quote'[q] = row
         /\ q \notin Rows(quote)
         /\ \A p \in Rows(quote) : quote'[p] = quote[p]
         /\ TablesKept /\ QuotesAndJobs' /\ IsFiniteSet(Rows(job'))
         /\ \A t \in Sessions : PromotedStay(t)
<1>1. /\ quote' \in [Quotes -> QuoteRow \cup {None}]
      /\ Rows(quote') = Rows(quote) \cup {q}
      /\ quote'[q] = row
      /\ \A p \in Quotes \ {q} : quote'[p] = quote[p]
  BY QuotePut DEF SalesInv
<1>2. q \notin Rows(quote) /\ Rows(quote) \subseteq Quotes
  BY Tables DEF CanInsert, Rows, SalesInv
<1>3. \A p \in Rows(quote) : p \in Rows(quote') /\ quote'[p] = quote[p]
  BY <1>1, <1>2
<1>4. \A p \in Rows(quote') \ Rows(quote) : quote'[p].job = None
  BY <1>1
<1>5. TablesKept /\ QuotesAndJobs' /\ IsFiniteSet(Rows(job')) /\ \A t \in Sessions : PromotedStay(t)
  BY <1>1, <1>3, <1>4, QuotesKept
<1>6. QED BY <1>1, <1>2, <1>3, <1>5

LEMMA NewQuote ==
  ASSUME NEW c \in Customers, NEW status \in QuoteStatus, NEW origin \in Requests \cup {None}
  PROVE  /\ [customer |-> c, status |-> status, job |-> None, origin |-> origin] \in QuoteRow
         /\ [customer |-> c, status |-> status, job |-> None, origin |-> origin].job = None
         /\ [customer |-> c, status |-> status, job |-> None, origin |-> origin].origin = origin
         /\ "DRAFT" \in QuoteStatus
BY DEF QuoteRow, QuoteStatus

LEMMA ConvertToQuoteStep ==
  ASSUME SalesInv, NEW s \in Sessions, ConvertToQuote(s)
  PROVE  SalesInv'
<1>1. PICK c \in Customers, q \in Quotes :
         /\ WithCustomer(op[s].c, op[s].n, c)
         /\ CanInsert(q, quote)
         /\ quote' = [quote EXCEPT ![q] = [customer |-> c, status |-> "DRAFT",
                                           job |-> None, origin |-> op[s].r]]
  BY DEF ConvertToQuote
<1> DEFINE row == [customer |-> c, status |-> "DRAFT", job |-> None, origin |-> op[s].r]
           rec == [op[s] EXCEPT !.at = "delete"]
<1>2. /\ SalesTypeOK /\ Sound(s) /\ op[s] \in Op /\ last[s] \in Metadata
      /\ op[s].c \in Rows(customer) \cup {None} /\ op[s].n \in Names /\ op[s].r \in Requests
  BY OpTyped DEF SalesInv, Sound, HoldsRows, ConvertToQuote, At
<1>3. /\ customer' \in [Customers -> CustomerRow \cup {None}]
      /\ Rows(customer) \subseteq Rows(customer')
  BY <1>1, <1>2, CustomerThere
<1>4. row \in QuoteRow /\ row.job = None /\ row.origin = op[s].r
  <2>1. "DRAFT" \in QuoteStatus
    BY DEF QuoteStatus
  <2>2. QED BY <1>2, <2>1, NewQuote
<1>5. /\ rec \in Op /\ rec.at = "delete" /\ rec.r = op[s].r /\ rec.meta = op[s].meta
      /\ op[s].meta.action = "other" /\ GoTo(s, rec)
  BY <1>2 DEF Op, Steps, ConvertToQuote
<1>6. quote' = [quote EXCEPT ![q] = row]
  BY <1>1
<1> HIDE DEF row, rec
<1>7. UNCHANGED <<job, request, workflow, last, started>>
  BY DEF ConvertToQuote
<1>8. /\ quote' \in [Quotes -> QuoteRow \cup {None}] /\ q \in Rows(quote') /\ quote'[q] = row
      /\ TablesKept /\ QuotesAndJobs' /\ IsFiniteSet(Rows(job')) /\ PromotedStay(s)
  BY <1>1, <1>3, <1>4, <1>6, <1>7, QuoteAdded
<1>9. /\ op' \in [Sessions -> Op] /\ op'[s] = rec
      /\ \A t \in Sessions \ {s} : op'[t] = op[t]
  BY <1>2, <1>5, GoesTo
<1>10. OnlyIn(s) /\ JobsPassed(s)
  BY <1>5, <1>7, <1>9 DEF OnlyIn, JobsPassed
<1>11. SalesTypeOK'
  BY <1>2, <1>3, <1>7, <1>8, <1>9 DEF SalesTypeOK
<1>12. Sound(s)'
  <2>1. HoldsRows(op[s])'
    BY <1>2, <1>5, <1>9 DEF HoldsRows, Emitting
  <2>2. NamesJob(op[s].meta)' /\ NamesJob(last[s])'
    BY <1>2, <1>5, <1>7, <1>9 DEF Sound, NamesJob, Rows
  <2>3. MadeFrom(op[s])'
    BY <1>4, <1>5, <1>8, <1>9 DEF MadeFrom, Promotes
  <2>4. QED BY <2>1, <2>2, <2>3 DEF Sound
<1>13. QED BY <1>8, <1>10, <1>11, <1>12, StepKeeps

LEMMA CreateQuoteStep ==
  ASSUME SalesInv, NEW s \in Sessions, NEW n \in Names, CreateQuote(s, n)
  PROVE  SalesInv'
<1> DEFINE c == FoundByName(n)
           row == [customer |-> c, status |-> "DRAFT", job |-> None, origin |-> None]
<1>1. PICK q \in Quotes :
         /\ InsertQuote(q, c, "DRAFT")
         /\ GoTo(s, [Idle EXCEPT !.at = "sending", !.q = q, !.meta = Other])
  BY DEF CreateQuote
<1> DEFINE rec == [Idle EXCEPT !.at = "sending", !.q = q, !.meta = Other]
<1>2. SalesTypeOK /\ Sound(s) /\ last[s] \in Metadata
  BY OpTyped DEF SalesInv
<1>3. c \in Customers /\ c \in Rows(customer)
  <2>1. Named(n) # {}
    BY FS_EmptySet DEF CreateQuote, Search
  <2>2. Rows(customer) \subseteq Customers
    BY <1>2, Tables
  <2>3. QED BY <2>1, <2>2 DEF FoundByName, Named
<1> HIDE DEF c
<1>4. row \in QuoteRow /\ row.job = None
  <2>1. "DRAFT" \in QuoteStatus
    BY DEF QuoteStatus
  <2>2. QED BY <1>3, <2>1, NewQuote
<1>5. /\ rec \in Op /\ rec.at = "sending" /\ rec.q = q /\ rec.meta = Other /\ GoTo(s, rec)
  BY <1>1, <1>3, IdleTyped DEF Op, Steps, Idle
<1>6. CanInsert(q, quote) /\ quote' = [quote EXCEPT ![q] = row]
  BY <1>1 DEF InsertQuote
<1> HIDE DEF row, rec
<1>7. UNCHANGED <<customer, job, request, workflow, last>> /\ started' \in 0..MaxOps
  BY <1>2, Counted DEF CreateQuote
<1>8. /\ quote' \in [Quotes -> QuoteRow \cup {None}] /\ q \in Rows(quote')
      /\ TablesKept /\ QuotesAndJobs' /\ IsFiniteSet(Rows(job')) /\ PromotedStay(s)
  <2>1. Rows(customer) \subseteq Rows(customer')
    BY <1>7
  <2>2. QED BY <1>4, <1>6, <1>7, <2>1, QuoteAdded
<1>9. /\ op' \in [Sessions -> Op] /\ op'[s] = rec
      /\ \A t \in Sessions \ {s} : op'[t] = op[t]
  BY <1>2, <1>5, GoesTo
<1>10. OnlyIn(s) /\ JobsPassed(s)
  BY <1>5, <1>7, <1>9, IdleTyped DEF OnlyIn, JobsPassed
<1>11. SalesTypeOK'
  BY <1>2, <1>7, <1>8, <1>9 DEF SalesTypeOK
<1>12. Sound(s)'
  <2>1. HoldsRows(op[s])' /\ MadeFrom(op[s])' /\ NamesJob(op[s].meta)'
    BY <1>3, <1>5, <1>7, <1>8, <1>9, IdleTyped DEF HoldsRows, MadeFrom, NamesJob, Promotes, Emitting
  <2>2. NamesJob(last[s])'
    BY <1>2, <1>7 DEF Sound, NamesJob, Rows
  <2>3. QED BY <2>1, <2>2 DEF Sound
<1>13. QED BY <1>8, <1>10, <1>11, <1>12, StepKeeps

LEMMA PwaCreateQuoteStep ==
  ASSUME SalesInv, NEW s \in Sessions, NEW c \in Customers, NEW status \in PwaStatuses,
         PwaCreateQuote(s, c, status)
  PROVE  SalesInv'
<1> DEFINE row == [customer |-> c, status |-> status, job |-> None, origin |-> None]
<1>1. PICK q \in Quotes : InsertQuote(q, c, status)
  BY DEF PwaCreateQuote
<1>2. SalesTypeOK /\ Sound(s) /\ status \in QuoteStatus /\ op[s].at = "idle"
  BY SalesAssumption DEF SalesInv, PwaCreateQuote, OneShot, Begin
<1>3. row \in QuoteRow /\ row.job = None
  BY <1>2, NewQuote
<1>4. CanInsert(q, quote) /\ quote' = [quote EXCEPT ![q] = row]
  BY <1>1 DEF InsertQuote
<1> HIDE DEF row
<1>5. UNCHANGED <<customer, job, request, workflow, last, op>> /\ started' \in 0..MaxOps
  BY <1>2, Counted DEF PwaCreateQuote, OneShot
<1>6. /\ quote' \in [Quotes -> QuoteRow \cup {None}]
      /\ TablesKept /\ QuotesAndJobs' /\ IsFiniteSet(Rows(job')) /\ PromotedStay(s)
  <2>1. Rows(customer) \subseteq Rows(customer')
    BY <1>5
  <2>2. QED BY <1>3, <1>4, <1>5, <2>1, QuoteAdded
<1>7. OnlyIn(s) /\ JobsPassed(s)
  BY <1>5 DEF OnlyIn, JobsPassed
<1>8. SalesTypeOK'
  BY <1>2, <1>5, <1>6 DEF SalesTypeOK
<1>9. Sound(s)'
  <2>1. HoldsRows(op[s])'
    BY <1>2, <1>5 DEF HoldsRows, Emitting
  <2>2. NamesJob(op[s].meta)' /\ NamesJob(last[s])'
    BY <1>2, <1>5 DEF Sound, NamesJob, Rows
  <2>3. MadeFrom(op[s])'
    BY <1>2, <1>5 DEF Sound, MadeFrom, Promotes, Rows
  <2>4. QED BY <2>1, <2>2, <2>3 DEF Sound
<1>10. QED BY <1>6, <1>7, <1>8, <1>9, StepKeeps

LEMMA ConfirmReadStep ==
  ASSUME SalesInv, NEW s \in Sessions, NEW q \in Quotes, ConfirmRead(s, q)
  PROVE  SalesInv'
<1> DEFINE rec == [Idle EXCEPT !.at = "confirm", !.q = q]
<1>1. rec \in Op /\ rec.at = "confirm" /\ rec.q = q /\ rec.meta = NoMeta
  BY IdleTyped DEF Op, Steps, Idle
<1>2. GoTo(s, rec) /\ UNCHANGED <<customer, quote, job, request, workflow, last>> /\ q \in Rows(quote)
  BY DEF ConfirmRead
<1>3. started' \in 0..MaxOps
  BY Counted DEF ConfirmRead, SalesInv
<1> HIDE DEF rec
<1>4. HoldsRows(rec) /\ NamesJob(rec.meta) /\ MadeFrom(rec) /\ rec.meta.j = None
  BY <1>1, <1>2, IdleTyped DEF HoldsRows, NamesJob, MadeFrom, Promotes, Emitting
<1>5. QED BY <1>1, <1>2, <1>3, <1>4, MovingStep

\* The two rows of a confirmation: the quote has the new job, and its customer.
LEMMA JobOfQuote ==
  ASSUME SalesInv, NEW q \in Rows(quote), NEW j \in Jobs, CanInsert(j, job),
         NEW jobRow \in JobRow, NEW quoteRow \in QuoteRow,
         job' = [job EXCEPT ![j] = jobRow], quote' = [quote EXCEPT ![q] = quoteRow],
         jobRow.customer = quote[q].customer, jobRow.origin = q,
         quoteRow.customer = quote[q].customer, quoteRow.job = j
  PROVE  QuotesAndJobs'
<1>1. /\ Rows(job') = Rows(job) \cup {j} /\ j \notin Rows(job) /\ job'[j] = jobRow
      /\ \A i \in Jobs \ {j} : job'[i] = job[i]
  BY JobAdded
<1>2. SalesTypeOK /\ q \in Quotes /\ Rows(quote) \subseteq Quotes /\ Rows(job) \subseteq Jobs
  BY Tables DEF SalesInv
<1>3. /\ Rows(quote') = Rows(quote) \cup {q} /\ quote'[q] = quoteRow
      /\ \A p \in Quotes \ {q} : quote'[p] = quote[p]
  BY <1>2, QuotePut
<1>4. Rows(quote') = Rows(quote)
  BY <1>3
<1>5. \A i \in Rows(job) : job'[i] = job[i]
  BY <1>1, <1>2
<1>6. QuotesAndJobs
  BY DEF SalesInv
<1>7. QuoteOfJob'
  BY <1>1, <1>4, <1>5, <1>6 DEF QuotesAndJobs, QuoteOfJob
<1>8. QuoteJobsMatch'
  <2> SUFFICES ASSUME NEW p \in Rows(quote)
               PROVE LET made == {i \in Rows(job') : job'[i].origin = p} IN
                     /\ \A i \in made : job'[i].customer = quote'[p].customer
                     /\ made # {} => quote'[p].job \in made
                     /\ quote'[p].job # None => quote'[p].job \in made
    BY <1>4 DEF QuoteJobsMatch
  <2> DEFINE old == {i \in Rows(job) : job[i].origin = p}
  <2>1. /\ \A i \in old : job[i].customer = quote[p].customer
        /\ old # {} => quote[p].job \in old
        /\ quote[p].job # None => quote[p].job \in old
    BY <1>6 DEF QuotesAndJobs, QuoteJobsMatch
  <2>2. {i \in Rows(job') : job'[i].origin = p} = IF p = q THEN old \cup {j} ELSE old
    BY <1>1, <1>5
  <2>3. \A i \in old : job'[i].customer = quote[p].customer
    BY <1>5, <2>1
  <2> HIDE DEF old
  <2>4. CASE p = q
    <3>1. {i \in Rows(job') : job'[i].origin = p} = old \cup {j}
      BY <2>2, <2>4
    <3>2. quote'[p].customer = quote[p].customer /\ quote'[p].job = j
      BY <1>3, <2>4
    <3>3. job'[j].customer = quote[p].customer
      BY <1>1, <2>4
    <3>4. \A i \in old \cup {j} : job'[i].customer = quote'[p].customer
      BY <2>3, <3>2, <3>3
    <3>5. QED BY <3>1, <3>2, <3>4
  <2>5. CASE p # q
    <3>1. quote'[p] = quote[p]
      BY <1>2, <1>3, <2>5
    <3>2. QED BY <2>1, <2>2, <2>3, <2>5, <3>1
  <2>6. QED BY <2>4, <2>5
<1>9. QED BY <1>7, <1>8 DEF QuotesAndJobs

LEMMA ConfirmCommitStep ==
  ASSUME SalesInv, NEW s \in Sessions, ConfirmCommit(s)
  PROVE  SalesInv'
<1>1. PICK q : q = op[s].q
  OBVIOUS
<1>2. /\ SalesTypeOK /\ Sound(s) /\ op[s] \in Op /\ last[s] \in Metadata /\ q \in Rows(quote)
  BY <1>1, OpTyped DEF SalesInv, Sound, HoldsRows, ConfirmCommit, At
<1>3. q \in Quotes /\ quote[q] \in QuoteRow /\ Rows(quote) \subseteq Quotes /\ Rows(job) \subseteq Jobs
  BY <1>2, Tables
<1>4. PICK j \in Jobs :
         /\ CanInsert(j, job)
         /\ job' = [job EXCEPT ![j] = [customer |-> quote[q].customer, origin |-> q]]
         /\ quote' = [quote EXCEPT ![q].status = "ACCEPTED", ![q].job = j]
  BY <1>1 DEF ConfirmCommit
<1> DEFINE jobRow == [customer |-> quote[q].customer, origin |-> q]
           quoteRow == [quote[q] EXCEPT !.status = "ACCEPTED", !.job = j]
<1>5. jobRow \in JobRow /\ jobRow.customer = quote[q].customer /\ jobRow.origin = q
  BY <1>3 DEF JobRow, QuoteRow
<1>6. /\ quoteRow \in QuoteRow /\ quoteRow.customer = quote[q].customer /\ quoteRow.job = j
      /\ quoteRow.origin = quote[q].origin
  BY <1>3 DEF QuoteRow, QuoteStatus
<1>7. job' = [job EXCEPT ![j] = jobRow]
  BY <1>4
<1>8. quote' = [quote EXCEPT ![q] = quoteRow]
  BY <1>3, <1>4 DEF QuoteRow
<1> HIDE DEF jobRow, quoteRow
<1>9. QuotesAndJobs'
  <2>1. CanInsert(j, job)
    BY <1>4
  <2>2. QED BY <1>2, <1>5, <1>6, <1>7, <1>8, <2>1, JobOfQuote
<1>10. /\ job' \in [Jobs -> JobRow \cup {None, Gone}]
       /\ Rows(job') = Rows(job) \cup {j} /\ IsFiniteSet(Rows(job'))
       /\ job[j] = None /\ j \notin Rows(job) /\ job'[j] = jobRow /\ job'[j] # None
       /\ \A i \in Jobs \ {j} : job'[i] = job[i]
  BY <1>4, <1>5, <1>7, JobAdded
<1>11. /\ quote' \in [Quotes -> QuoteRow \cup {None}]
       /\ Rows(quote') = Rows(quote) \cup {q}
       /\ quote'[q] = quoteRow
       /\ \A p \in Quotes \ {q} : quote'[p] = quote[p]
  BY <1>2, <1>3, <1>6, <1>8, QuotePut
<1>12. GoTo(s, Idle) /\ UNCHANGED <<customer, request, workflow, last, started>>
  BY DEF ConfirmCommit
<1>13. /\ op' \in [Sessions -> Op] /\ op'[s] = Idle
       /\ \A t \in Sessions \ {s} : op'[t] = op[t]
  BY <1>2, <1>12, IdleTyped, GoesTo
<1>14. TablesKept
  <2>1. \A p \in Rows(quote) : p \in Rows(quote') /\ quote'[p].origin = quote[p].origin
    BY <1>3, <1>6, <1>11
  <2>2. Rows(customer) \subseteq Rows(customer')
    BY <1>12
  <2>3. QED BY <1>3, <1>10, <2>1, <2>2 DEF TablesKept
<1>15. OnlyIn(s) /\ JobsPassed(s)
  BY <1>12, <1>13, IdleTyped DEF OnlyIn, JobsPassed
<1>16. PromotedStay(s)
  BY <1>10 DEF PromotedStay, SalesInv, Sound, MadeFrom
<1>17. SalesTypeOK'
  BY <1>2, <1>10, <1>11, <1>12, <1>13 DEF SalesTypeOK
<1>18. Sound(s)'
  <2>1. HoldsRows(op[s])' /\ MadeFrom(op[s])' /\ NamesJob(op[s].meta)'
    BY <1>13, IdleTyped DEF HoldsRows, MadeFrom, NamesJob, Promotes, Emitting
  <2>2. last[s].j \in Jobs \cup {None} /\ NamesJob(last[s])
    BY <1>2 DEF Metadata, Sound
  <2>3. NamesJob(last[s])'
    BY <1>10, <1>12, <2>2 DEF NamesJob
  <2>4. QED BY <2>1, <2>3 DEF Sound
<1>19. QED BY <1>9, <1>10, <1>14, <1>15, <1>16, <1>17, <1>18, StepKeeps

-----------------------------------------------------------------------------
(* Pipeline handlers *)

\* The event is handled: the operation ends, or a conversion goes on to delete
\* its request.
LEMMA ResumingStep ==
  ASSUME SalesInv, NEW s \in Sessions, op[s].at \in {"counted", "contactSeen", "missed"},
         Resume(s), UNCHANGED <<quote, job, request, workflow, started>>,
         customer' \in [Customers -> CustomerRow \cup {None}], Rows(customer) \subseteq Rows(customer')
  PROVE  SalesInv'
<1>1. SalesTypeOK /\ Sound(s) /\ op[s] \in Op /\ op[s].meta \in Metadata
  BY OpTyped DEF SalesInv
<1>2. /\ request' \in [Requests -> RequestRow \cup {None, Gone}]
      /\ workflow' \in QuotingWorkflow
      /\ started' \in 0..MaxOps
  BY <1>1, SameTables
<1>3. CASE ~(op[s].r # None /\ op[s].meta.action = "promote job")
  <2>1. Close(s)
    BY <1>3 DEF Resume
  <2>2. QED BY <1>2, <2>1, ClosingStep
<1>4. CASE op[s].r # None /\ op[s].meta.action = "promote job"
  <2> DEFINE rec == [op[s] EXCEPT !.at = "delete"]
  <2>1. GoTo(s, rec) /\ last' = last
    BY <1>4 DEF Resume
  <2>2. /\ rec \in Op /\ rec.at = "delete" /\ rec.r = op[s].r /\ rec.meta = op[s].meta
        /\ op[s].r \in Requests
    BY <1>1, <1>4 DEF Op, Steps
  <2> HIDE DEF rec
  <2>3. /\ op' \in [Sessions -> Op] /\ op'[s] = rec
        /\ \A t \in Sessions \ {s} : op'[t] = op[t]
    BY <1>1, <2>1, <2>2, GoesTo
  <2>4. OnlyIn(s) /\ JobsPassed(s) /\ last' \in [Sessions -> Metadata]
    BY <1>1, <2>1, <2>2, <2>3 DEF OnlyIn, JobsPassed, SalesTypeOK
  <2>5. HoldsRows(op[s])'
    BY <2>2, <2>3 DEF HoldsRows, Emitting
  <2>6. NamesJob(op[s].meta)' /\ NamesJob(last[s])'
    BY <1>1, <2>1, <2>2, <2>3 DEF Sound, NamesJob, Rows
  <2>7. MadeFrom(op[s])'
    BY <1>1, <1>4, <2>2, <2>3 DEF Sound, MadeFrom, Promotes, Rows
  <2>8. Sound(s)'
    BY <2>5, <2>6, <2>7 DEF Sound
  <2>9. QED BY <1>2, <2>3, <2>4, <2>8, QuietStep
<1>5. QED BY <1>3, <1>4

\* A handler loads the customer, or the count, or fails: the session goes on
\* with another copy.
LEMMA HandlerReadStep ==
  ASSUME SalesInv, NEW s \in Sessions,
         JobCreatedCount(s) \/ ContactRead(s) \/ HandlerFails(s)
  PROVE  SalesInv'
<1>1. /\ SalesTypeOK /\ Sound(s) /\ op[s] \in Op /\ op[s].at \in Emitting
      /\ op[s].c \in Rows(customer)
  BY OpTyped DEF SalesInv, Sound, HoldsRows, Emitting, JobCreatedCount, ContactRead,
                 HandlerFails, At
<1>2. customer[op[s].c].stage \in PipelineStage
  BY <1>1, Tables DEF CustomerRow
<1>3. Cardinality(JobsOf(op[s].c)) \in Nat
  <2>1. IsFiniteSet(JobsOf(op[s].c))
    BY FS_Subset DEF SalesInv, JobsOf
  <2>2. QED BY <2>1, FS_CardinalityType
<1>4. UNCHANGED <<customer, quote, job, request, workflow, last, started>>
  BY DEF JobCreatedCount, ContactRead, HandlerFails
<1>5. started' \in 0..MaxOps
  <2>1. started \in 0..MaxOps
    BY Zenon, <1>1 DEF SalesTypeOK
  <2>2. QED BY <1>4, <2>1
<1>6. PICK step \in {"counted", "contactSeen", "missed"},
           st \in PipelineStage \cup {None}, count \in Nat :
        GoTo(s, [op[s] EXCEPT !.at = step, !.stage = st, !.count = count])
  <2>1. op[s].stage \in PipelineStage \cup {None} /\ op[s].count \in Nat
    BY <1>1 DEF Op
  <2>2. CASE ContactRead(s)
    <3>1. GoTo(s, [op[s] EXCEPT !.at = "contactSeen", !.stage = customer[op[s].c].stage,
                                !.count = op[s].count])
      BY <1>1, <2>2 DEF ContactRead, GoTo, Op
    <3>2. QED BY <1>2, <2>1, <3>1
  <2>3. CASE JobCreatedCount(s)
    <3>1. GoTo(s, [op[s] EXCEPT !.at = "counted", !.stage = op[s].stage,
                                !.count = Cardinality(JobsOf(op[s].c))])
      BY <1>1, <2>3 DEF JobCreatedCount, GoTo, Op
    <3>2. QED BY <1>3, <2>1, <3>1
  <2>4. CASE HandlerFails(s)
    <3>1. GoTo(s, [op[s] EXCEPT !.at = "missed", !.stage = op[s].stage, !.count = op[s].count])
      BY <1>1, <2>4 DEF HandlerFails, GoTo, Op
    <3>2. QED BY <2>1, <3>1
  <2>5. QED BY <2>2, <2>3, <2>4
<1> DEFINE rec == [op[s] EXCEPT !.at = step, !.stage = st, !.count = count]
<1>7. /\ rec \in Op /\ rec.at = step /\ rec.c = op[s].c /\ rec.meta = op[s].meta /\ rec.r = op[s].r
      /\ GoTo(s, rec)
  <2>1. step \in Steps
    BY DEF Steps
  <2>2. rec \in Op
    BY <1>1, <2>1 DEF Op
  <2>3. rec.at = step /\ rec.c = op[s].c /\ rec.meta = op[s].meta /\ rec.r = op[s].r
    BY <1>1 DEF Op
  <2>4. GoTo(s, rec)
    BY <1>6
  <2>5. QED BY <2>2, <2>3, <2>4
<1> HIDE DEF rec
<1>8. HoldsRows(rec)
  BY <1>1, <1>7 DEF HoldsRows, Emitting
<1>9. NamesJob(rec.meta) /\ rec.meta.j = op[s].meta.j
  BY <1>1, <1>7 DEF Sound
<1>10. MadeFrom(rec)
  BY <1>1, <1>7 DEF Sound, MadeFrom, Promotes, Emitting
<1>11. QED BY <1>4, <1>5, <1>7, <1>8, <1>9, <1>10, MovingStep

LEMMA HandlerWriteStep ==
  ASSUME SalesInv, NEW s \in Sessions,
         JobCreatedWrite(s) \/ ContactWrite(s) \/ AfterMissed(s)
  PROVE  SalesInv'
<1>1. /\ SalesTypeOK /\ op[s].at \in {"counted", "contactSeen", "missed"}
      /\ op[s].at # "missed" => op[s].c \in Rows(customer)
      /\ op[s].count \in Nat
  <2>1. SalesTypeOK /\ op[s].count \in Nat
    BY OpTyped DEF SalesInv, Op
  <2>2. QED BY <2>1 DEF SalesInv, Sound, HoldsRows, Emitting, JobCreatedWrite,
                       ContactWrite, AfterMissed, At
<1>2. Resume(s) /\ UNCHANGED <<quote, job, request, workflow, started>>
  BY DEF JobCreatedWrite, ContactWrite, AfterMissed
<1>3. \/ customer' = customer
      \/ /\ op[s].c \in Rows(customer)
         /\ \E st \in PipelineStage : customer' = [customer EXCEPT ![op[s].c].stage = st]
  <2>1. {"QUOTED", "CONTACTED", "CONVERTED_ONCE", "CONVERTED_RECURRENT"} \subseteq PipelineStage
    BY DEF PipelineStage
  <2>2. CASE JobCreatedWrite(s)
    <3>1. op[s].c \in Rows(customer)
      BY <1>1, <2>2 DEF JobCreatedWrite, At
    <3>2. op[s].count = 0 \/ op[s].count = 1 \/ op[s].count > 1
      BY <1>1
    <3>3. \/ customer' = customer
          \/ customer' = [customer EXCEPT ![op[s].c].stage = "CONVERTED_ONCE"]
          \/ customer' = [customer EXCEPT ![op[s].c].stage = "CONVERTED_RECURRENT"]
      BY <1>1, <2>2, <3>2 DEF JobCreatedWrite
    <3>4. QED BY <2>1, <3>1, <3>3
  <2>3. CASE ContactWrite(s)
    BY <1>1, <2>1, <2>3 DEF ContactWrite, At
  <2>4. CASE AfterMissed(s)
    BY <2>4 DEF AfterMissed
  <2>5. QED BY <2>2, <2>3, <2>4
<1>4. customer' \in [Customers -> CustomerRow \cup {None}] /\ Rows(customer) \subseteq Rows(customer')
  BY <1>1, <1>3, SameTables, StageWritten
<1>5. QED BY <1>1, <1>2, <1>4, ResumingStep

-----------------------------------------------------------------------------
(* Undo *)

LEMMA UndoUpdateStep ==
  ASSUME SalesInv, NEW s \in Sessions, UndoUpdate(s)
  PROVE  SalesInv'
<1>1. SalesTypeOK /\ last[s] \in Metadata /\ last[s].old \in RequestRow
  BY OpTyped DEF SalesInv, Sound, NamesJob, UndoUpdate, RequestRow
<1>2. last[s].r \in Requests
  BY <1>1, Tables DEF UndoUpdate
<1>3. request' \in [Requests -> RequestRow \cup {None, Gone}]
  <2>1. request' = [request EXCEPT ![last[s].r] = last[s].old]
    BY DEF UndoUpdate
  <2>2. QED BY <1>1, <1>2, <2>1, RequestAdded
<1>4. OneShot(s) /\ last' = [last EXCEPT ![s] = NoMeta] /\ UNCHANGED <<customer, quote, job, workflow>>
  BY DEF UndoUpdate
<1>5. /\ customer' \in [Customers -> CustomerRow \cup {None}] /\ Rows(customer) \subseteq Rows(customer')
      /\ workflow' \in QuotingWorkflow
  BY <1>1, <1>4, SameTables
<1>6. QED BY <1>3, <1>4, <1>5, IdleTyped, OneShotStep

\* The job of a last action is deleted: it belongs to no quote, and no operation
\* is about to count on it.
LEMMA JobUndone ==
  ASSUME SalesInv, NEW s \in Sessions, OneShot(s), last[s].j \in Rows(job),
         job' = [job EXCEPT ![last[s].j] = Gone], last' = [last EXCEPT ![s] = NoMeta],
         request' \in [Requests -> RequestRow \cup {None, Gone}],
         UNCHANGED <<customer, quote, workflow>>
  PROVE  SalesInv'
<1>1. PICK j : j = last[s].j
  OBVIOUS
<1>2. /\ SalesTypeOK /\ Sound(s) /\ op[s].meta \in Metadata /\ op[s].at = "idle"
      /\ j \in Rows(job) /\ Rows(job) \subseteq Jobs /\ IsFiniteSet(Rows(job)) /\ QuotesAndJobs
      /\ \A t \in Sessions : Sound(t)
  BY <1>1, OpTyped, Tables DEF SalesInv, OneShot, Begin
<1>3. j # None /\ job[j].origin \notin Quotes
  <2>1. None \notin Jobs
    BY SalesAssumption
  <2>2. QED BY <1>1, <1>2, <2>1 DEF Sound, NamesJob
<1>4. job' = [job EXCEPT ![j] = Gone]
  BY <1>1
<1>5. /\ job' \in [Jobs -> JobRow \cup {None, Gone}]
      /\ Rows(job') = Rows(job) \ {j}
      /\ job'[j] = Gone
      /\ \A i \in Jobs \ {j} : job'[i] = job[i]
  BY <1>2, <1>4, JobGone
<1>6. None # Gone
  BY SalesAssumption
<1>7. /\ last' \in [Sessions -> Metadata] /\ last'[s] = NoMeta
      /\ \A t \in Sessions \ {s} : last'[t] = last[t]
  BY <1>2, IdleTyped, LastNoted
<1>8. op' = op /\ started' \in 0..MaxOps
  BY <1>2, Counted DEF OneShot
<1>9. \A t \in Sessions : Promotes(op[t]) => op[t].meta.j \in Rows(job')
  <2> SUFFICES ASSUME NEW t \in Sessions, Promotes(op[t]) PROVE op[t].meta.j \in Rows(job')
    OBVIOUS
  <2>1. op[t].meta.j \in Rows(job)
    BY <1>2 DEF Sound, MadeFrom
  <2>2. op[t].meta.j # None
    BY <1>2, <2>1, SalesAssumption
  <2>3. op[t].meta.j # j
    BY <1>1, <2>2 DEF SalesInv, OwnJobs
  <2>4. QED BY <1>5, <2>1, <2>3
<1>10. TablesKept
  BY <1>2, <1>5, <1>6 DEF TablesKept
<1>11. OnlyIn(s) /\ PromotedStay(s) /\ JobsPassed(s)
  BY <1>7, <1>8, <1>9, IdleTyped DEF OnlyIn, PromotedStay, JobsPassed
<1>12. IsFiniteSet(Rows(job'))
  <2>1. IsFiniteSet(Rows(job) \ {j})
    BY <1>2, FS_Subset
  <2>2. QED BY <1>5, <2>1
<1>13. \A i \in Rows(job') : i \in Rows(job) /\ job'[i] = job[i]
  BY <1>2, <1>5
<1>14. Rows(quote') = Rows(quote)
  OBVIOUS
<1>15. QuotesAndJobs'
  <2>1. QuoteOfJob'
    BY <1>2, <1>13, <1>14 DEF QuotesAndJobs, QuoteOfJob
  <2>2. \A q \in Quotes : {i \in Rows(job') : job'[i].origin = q} = {i \in Rows(job) : job[i].origin = q}
    BY <1>3, <1>5, <1>13
  <2>3. QuoteJobsMatch'
    <3> SUFFICES ASSUME NEW q \in Rows(quote)
                 PROVE MatchesJobs(q)'
      BY <1>14 DEF QuoteJobsMatch, MatchesJobs
    <3> DEFINE made == {i \in Rows(job) : job[i].origin = q}
    <3>1. /\ \A i \in made : job[i].customer = quote[q].customer
          /\ made # {} => quote[q].job \in made
          /\ quote[q].job # None => quote[q].job \in made
      BY <1>2 DEF QuotesAndJobs, QuoteJobsMatch
    <3>2. q \in Quotes
      BY DEF Rows, SalesInv, SalesTypeOK
    <3>3. {i \in Rows(job') : job'[i].origin = q} = made
      BY <2>2, <3>2
    <3>4. \A i \in made : job'[i].customer = job[i].customer
      BY <1>13, <3>3
    <3>5. /\ \A i \in made : job'[i].customer = quote'[q].customer
          /\ made # {} => quote'[q].job \in made
          /\ quote'[q].job # None => quote'[q].job \in made
      BY <3>1, <3>4
    <3>6. QED BY <3>3, <3>5 DEF MatchesJobs
  <2>4. QED BY <2>1, <2>3 DEF QuotesAndJobs
<1>16. SalesTypeOK'
  BY <1>2, <1>5, <1>7, <1>8 DEF SalesTypeOK
<1>17. Sound(s)'
  <2>1. HoldsRows(op[s])'
    BY <1>2, <1>8 DEF HoldsRows, Emitting
  <2>2. NamesJob(op[s].meta)'
    <3>1. op[s].meta.j \in Jobs \cup {None} /\ NamesJob(op[s].meta)
      BY <1>2 DEF Metadata, Sound
    <3>2. QED BY <1>8, <1>10, <3>1 DEF NamesJob, TablesKept
  <2>3. MadeFrom(op[s])'
    BY <1>2, <1>8, <1>9, <1>13 DEF Sound, MadeFrom, Promotes
  <2>4. NamesJob(last[s])'
    BY <1>7, IdleTyped DEF NamesJob
  <2>5. QED BY <2>1, <2>2, <2>3, <2>4 DEF Sound
<1>18. QED BY <1>10, <1>11, <1>12, <1>15, <1>16, <1>17, StepKeeps

LEMMA UndoCreateStep ==
  ASSUME SalesInv, NEW s \in Sessions, UndoCreate(s)
  PROVE  SalesInv'
<1>1. /\ OneShot(s) /\ last' = [last EXCEPT ![s] = NoMeta] /\ UNCHANGED <<customer, quote, workflow>>
      /\ SalesTypeOK
  BY DEF UndoCreate, SalesInv
<1>2. CASE last[s].j \in Rows(job) /\ job' = [job EXCEPT ![last[s].j] = Gone] /\ UNCHANGED request
  <2>1. request' \in [Requests -> RequestRow \cup {None, Gone}]
    BY <1>1, <1>2, SameTables
  <2>2. QED BY <1>1, <1>2, <2>1, JobUndone
<1>3. CASE last[s].r \in Rows(request) /\ request' = [request EXCEPT ![last[s].r] = Gone] /\ UNCHANGED job
  <2>1. last[s].r \in Requests
    BY <1>1, <1>3, Tables
  <2>2. request' \in [Requests -> RequestRow \cup {None, Gone}]
    BY <1>1, <1>3, <2>1, RequestAdded
  <2>3. /\ customer' \in [Customers -> CustomerRow \cup {None}] /\ Rows(customer) \subseteq Rows(customer')
        /\ workflow' \in QuotingWorkflow
    BY <1>1, SameTables
  <2>4. QED BY <1>1, <1>3, <2>2, <2>3, IdleTyped, OneShotStep
<1>4. QED BY <1>2, <1>3 DEF UndoCreate

LEMMA UndoPromoteStep ==
  ASSUME SalesInv, NEW s \in Sessions, UndoPromote(s)
  PROVE  SalesInv'
<1>1. /\ OneShot(s) /\ last' = [last EXCEPT ![s] = NoMeta] /\ UNCHANGED <<customer, quote, workflow>>
      /\ last[s].j \in Rows(job) /\ job' = [job EXCEPT ![last[s].j] = Gone]
  BY DEF UndoPromote
<1>2. PICK r \in Requests : request' = [request EXCEPT ![r] = "PENDING"]
  BY DEF UndoPromote, InsertRequest
<1>3. request' \in [Requests -> RequestRow \cup {None, Gone}]
  BY <1>2, PendingTyped, RequestAdded DEF SalesInv
<1>4. QED BY <1>1, <1>3, JobUndone

-----------------------------------------------------------------------------
(* Failures *)

\* An operation that is cut short, or the session that comes after it.
LEMMA FailStep ==
  ASSUME SalesInv, NEW s \in Sessions, Fail(s) \/ NextCall(s) \/ SendQuote(s)
  PROVE  SalesInv'
<1>1. CASE SendQuote(s)
  <2>1. /\ customer' \in [Customers -> CustomerRow \cup {None}] /\ Rows(customer) \subseteq Rows(customer')
        /\ request' \in [Requests -> RequestRow \cup {None, Gone}]
    BY <1>1, SameTables DEF SendQuote, SalesInv
  <2>2. Close(s) /\ UNCHANGED <<quote, job, workflow, started>>
    BY <1>1 DEF SendQuote
  <2>3. QED BY <2>1, <2>2, ClosingStep
<1>2. CASE Fail(s) \/ NextCall(s)
  <2>1. PICK rec : /\ rec \in {Idle, [Idle EXCEPT !.at = "failed"]} /\ GoTo(s, rec)
    BY <1>2 DEF Fail, NextCall
  <2>2. rec \in Op /\ rec.at \in {"idle", "failed"} /\ rec.meta = NoMeta
    BY <2>1, IdleTyped DEF Op, Steps, Idle
  <2>3. UNCHANGED <<customer, quote, job, request, workflow, last>> /\ started' \in 0..MaxOps
    BY <1>2, SameTables DEF Fail, NextCall, SalesInv
  <2>4. HoldsRows(rec) /\ NamesJob(rec.meta) /\ MadeFrom(rec) /\ rec.meta.j = None
    BY <2>2, IdleTyped DEF HoldsRows, NamesJob, MadeFrom, Promotes, Emitting
  <2>5. QED BY <2>1, <2>2, <2>3, <2>4, MovingStep
<1>3. QED BY <1>1, <1>2

-----------------------------------------------------------------------------
(* The invariant *)

LEMMA SalesInitially == SalesInit => SalesInv
<1> SUFFICES ASSUME SalesInit PROVE SalesInv
  OBVIOUS
<1>1. customer \in [Customers -> CustomerRow \cup {None}]
  BY DEF SalesInit, CustomerRow, PipelineStage
<1>2. started \in 0..MaxOps
  BY SalesAssumption DEF SalesInit
<1>3. SalesTypeOK
  BY <1>1, <1>2, IdleTyped DEF SalesInit, SalesTypeOK, QuotingWorkflow
<1>4. Rows(job) = {} /\ Rows(quote) = {}
  BY DEF SalesInit, Rows
<1>5. \A s \in Sessions : op[s] = Idle /\ last[s] = NoMeta
  BY DEF SalesInit
<1>6. \A s \in Sessions : Sound(s)
  BY <1>5, IdleTyped DEF Sound, HoldsRows, NamesJob, MadeFrom, Promotes, Emitting
<1>7. OwnJobs
  BY <1>5, IdleTyped DEF OwnJobs
<1>8. QuotesAndJobs
  BY <1>4 DEF QuotesAndJobs, QuoteOfJob, QuoteJobsMatch
<1>9. QED BY <1>3, <1>4, <1>6, <1>7, <1>8, FS_EmptySet DEF SalesInv

LEMMA SalesStep == SalesInv /\ [SalesNext]_vars => SalesInv'
<1> SUFFICES ASSUME SalesInv, [SalesNext]_vars PROVE SalesInv'
  OBVIOUS
<1>1. CASE UNCHANGED vars
  <2>1. SalesTypeOK' /\ IsFiniteSet(Rows(job))'
    BY <1>1 DEF vars, SalesInv, SalesTypeOK, Rows
  <2>2. ASSUME NEW s \in Sessions PROVE Sound(s)'
    <3>1. Sound(s)
      BY DEF SalesInv
    <3>2. /\ UNCHANGED customer /\ UNCHANGED quote /\ UNCHANGED job /\ UNCHANGED op
          /\ UNCHANGED last
      BY <1>1 DEF vars
    <3>3. HoldsRows(op[s])'
      BY <3>1, <3>2 DEF Sound, HoldsRows, Rows
    <3>4. NamesJob(op[s].meta)' /\ NamesJob(last[s])'
      BY <3>1, <3>2 DEF Sound, NamesJob, Rows
    <3>5. MadeFrom(op[s])'
      BY <3>1, <3>2 DEF Sound, MadeFrom, Promotes, Rows
    <3>6. QED BY <3>3, <3>4, <3>5 DEF Sound
  <2>3. OwnJobs' /\ QuotesAndJobs'
    BY <1>1 DEF vars, SalesInv, OwnJobs, QuotesAndJobs, QuoteOfJob, QuoteJobsMatch, Rows
  <2>4. QED BY <2>1, <2>2, <2>3 DEF SalesInv
<1>2. CASE SalesNext
  <2>1. PICK s \in Sessions : \/ Call(s) \/ Continue(s)
                              \/ HandlerFails(s) \/ Fail(s)
    BY <1>2 DEF SalesNext
  <2>2. CASE Continue(s)
    BY <2>2, AddLeadInsertStep, AddJobCommitStep, ConvertToJobStep, ConvertToQuoteStep,
       DeleteConvertedStep, ConfirmCommitStep, HandlerReadStep, HandlerWriteStep,
       FailStep DEF Continue
  <2>3. CASE Call(s)
    <3>0. /\ ToolStages \subseteq PipelineStage /\ EditStatuses \subseteq RequestStatus
          /\ GeneralCustomer \in Names /\ "LOST" \in PipelineStage /\ "PENDING" \in RequestStatus
      BY SalesAssumption DEF PipelineStage, RequestStatus
    <3>1. ASSUME NEW n \in Names,
                 AddLeadLookup(s, n) \/ AddJobLookup(s, n) \/ StoreRequest(s, n) \/ CreateQuote(s, n)
          PROVE  SalesInv'
      BY <3>1, AddLeadLookupStep, AddJobLookupStep, StoreRequestStep, CreateQuoteStep
    <3>2. ASSUME NEW n \in Names, NEW new \in Names, EditCustomer(s, n, new)
          PROVE  SalesInv'
      BY <3>0, <3>2, EditStep
    <3>3. ASSUME NEW n \in Names, NEW st \in ToolStages,
                 UpdateCustomerStage(s, n, st) \/ PwaCreateCustomer(s, n, st)
          PROVE  SalesInv'
      <4>1. st \in PipelineStage
        BY <3>0
      <4>2. CASE UpdateCustomerStage(s, n, st)
        BY <4>1, <4>2, EditStep
      <4>3. CASE PwaCreateCustomer(s, n, st)
        BY <4>1, <4>3, CustomerFormStep
      <4>4. QED BY <3>3, <4>2, <4>3
    <3>4. ASSUME NEW c \in Customers, NEW st \in ToolStages, PwaUpdateCustomer(s, c, st)
          PROVE  SalesInv'
      BY <3>0, <3>4, CustomerFormStep
    <3>5. ASSUME NEW c \in Customers, NEW status \in PwaStatuses, PwaCreateQuote(s, c, status)
          PROVE  SalesInv'
      BY <3>5, PwaCreateQuoteStep
    <3>6. ASSUME NEW c \in Customers, PwaCreateJob(s, c)
          PROVE  SalesInv'
      BY <3>6, PwaCreateJobStep
    <3>7. ASSUME NEW r \in Requests, NEW status \in EditStatuses, UpdateRequest(s, r, status)
          PROVE  SalesInv'
      BY <3>0, <3>7, RequestFormStep
    <3>8. ASSUME NEW r \in Requests, DeleteRequest(s, r)
          PROVE  SalesInv'
      BY <3>0, <3>8, RequestFormStep
    <3>9. ASSUME NEW r \in Requests, NEW action, ConvertRead(s, r, action) \/ ConvertMark(s, r, action)
          PROVE  SalesInv'
      BY <3>9, ConvertReadStep, ConvertMarkStep
    <3>10. CASE PwaCreateRequest(s)
      BY <3>0, <3>10, RequestFormStep
    <3>11. ASSUME NEW q \in Quotes, ConfirmRead(s, q)
           PROVE  SalesInv'
      BY <3>11, ConfirmReadStep
    <3>12. ASSUME NEW quoting \in QuotingChoices,
                  UpdateWorkflowSettings(s, quoting)
           PROVE  SalesInv'
      BY <3>12, SettingsStep
    <3>13. CASE UndoCreate(s) \/ UndoUpdate(s) \/ UndoPromote(s)
      BY <3>13, UndoCreateStep, UndoUpdateStep, UndoPromoteStep
    <3>14. ASSUME NEW n \in Names,
                  \/ AddLeadLookup(s, n) \/ AddJobLookup(s, n)
                  \/ StoreRequest(s, n) \/ CreateQuote(s, n)
                  \/ \E new \in Names : EditCustomer(s, n, new)
                  \/ \E st \in ToolStages :
                       UpdateCustomerStage(s, n, st) \/ PwaCreateCustomer(s, n, st)
           PROVE  SalesInv'
      BY <3>1, <3>2, <3>3, <3>14
    <3>15. ASSUME NEW c \in Customers,
                  \/ PwaCreateJob(s, c)
                  \/ \E st \in ToolStages : PwaUpdateCustomer(s, c, st)
                  \/ \E status \in PwaStatuses : PwaCreateQuote(s, c, status)
           PROVE  SalesInv'
      BY <3>4, <3>5, <3>6, <3>15
    <3>16. ASSUME NEW r \in Requests,
                  \/ DeleteRequest(s, r)
                  \/ \E status \in EditStatuses : UpdateRequest(s, r, status)
                  \/ \E action \in {"SCHEDULE", "QUOTE"} : ConvertRead(s, r, action)
                  \/ \E action \in {"COMPLETE", "LOG"} : ConvertMark(s, r, action)
           PROVE  SalesInv'
      BY <3>7, <3>8, <3>9, <3>16
    <3>17. QED
      BY <2>3, <3>10, <3>11, <3>12, <3>13, <3>14, <3>15, <3>16 DEF Call
  <2>4. QED BY <2>1, <2>2, <2>3, HandlerReadStep, FailStep
<1>3. QED BY <1>1, <1>2

\* In every reachable state the tables are typed, operations hold rows, and
\* quotes and jobs match.
THEOREM SalesInvariant == SalesSpec => []SalesInv
<1>1. SalesInit => SalesInv
  BY SalesInitially
<1>2. SalesInv /\ [SalesNext]_vars => SalesInv'
  BY SalesStep
<1>3. QED BY <1>1, <1>2, PTL DEF SalesSpec

\* Every row, copy and record of an action keeps its type.
THEOREM SalesTypes == SalesSpec => []SalesTypeOK
<1>1. SalesInv => SalesTypeOK
  BY DEF SalesInv
<1>2. QED BY <1>1, SalesInvariant, PTL

\* Quotes and the jobs made from them agree, whatever is confirmed, sent, undone
\* or cut short in between.
THEOREM QuotesMatchTheirJobs == SalesSpec => []QuoteJobsMatch
<1>1. SalesInv => QuoteJobsMatch
  BY DEF SalesInv, QuotesAndJobs
<1>2. QED BY <1>1, SalesInvariant, PTL

-----------------------------------------------------------------------------
(* Requests are kept *)

\* An operation of several transactions deletes a request only at its end.
LEMMA RequestTouched ==
  ASSUME NEW s \in Sessions,
         Call(s) \/ Continue(s) \/ HandlerFails(s) \/ Fail(s)
  PROVE  \/ request' = request \/ op' = op \/ DeleteConverted(s)
         \/ \E r \in Requests : InsertRequest(r)
<1>1. CASE Call(s)
  <2>1. ASSUME NEW n \in Names,
               \/ AddLeadLookup(s, n) \/ AddJobLookup(s, n)
               \/ StoreRequest(s, n) \/ CreateQuote(s, n)
               \/ \E new \in Names : EditCustomer(s, n, new)
               \/ \E st \in ToolStages :
                    UpdateCustomerStage(s, n, st) \/ PwaCreateCustomer(s, n, st)
        PROVE  request' = request \/ op' = op \/ \E r \in Requests : InsertRequest(r)
    BY <2>1 DEF AddLeadLookup, AddJobLookup, StoreRequest, CreateQuote, EditCustomer,
                UpdateCustomerStage, PwaCreateCustomer
  <2>2. ASSUME NEW c \in Customers,
               \/ PwaCreateJob(s, c)
               \/ \E st \in ToolStages : PwaUpdateCustomer(s, c, st)
               \/ \E status \in PwaStatuses : PwaCreateQuote(s, c, status)
        PROVE  request' = request
    BY <2>2 DEF PwaCreateJob, PwaUpdateCustomer, PwaCreateQuote
  <2>3. ASSUME NEW r \in Requests,
               \/ DeleteRequest(s, r)
               \/ \E status \in EditStatuses : UpdateRequest(s, r, status)
               \/ \E action \in {"SCHEDULE", "QUOTE"} : ConvertRead(s, r, action)
               \/ \E action \in {"COMPLETE", "LOG"} : ConvertMark(s, r, action)
        PROVE  request' = request \/ op' = op
    BY <2>3 DEF DeleteRequest, UpdateRequest, ConvertRead, ConvertMark, OneShot
  <2>4. ASSUME NEW q \in Quotes, ConfirmRead(s, q)
        PROVE  request' = request
    BY <2>4 DEF ConfirmRead
  <2>5. ASSUME NEW quoting \in QuotingChoices,
               UpdateWorkflowSettings(s, quoting)
        PROVE  request' = request
    BY <2>5 DEF UpdateWorkflowSettings
  <2>6. CASE PwaCreateRequest(s) \/ UndoCreate(s) \/ UndoUpdate(s) \/ UndoPromote(s)
    <3>1. CASE PwaCreateRequest(s)
      BY <3>1 DEF PwaCreateRequest
    <3>2. CASE UndoCreate(s)
      BY <3>2 DEF UndoCreate, OneShot
    <3>3. CASE UndoUpdate(s)
      BY <3>3 DEF UndoUpdate, OneShot
    <3>4. CASE UndoPromote(s)
      BY <3>4 DEF UndoPromote, OneShot
    <3>5. QED BY <2>6, <3>1, <3>2, <3>3, <3>4
  <2>7. QED BY <1>1, <2>1, <2>2, <2>3, <2>4, <2>5, <2>6 DEF Call
<1>2. CASE Continue(s)
  BY Zenon, <1>2 DEF Continue, AddLeadInsert, AddJobCommit, ConvertToJob, ConvertToQuote, SendQuote,
              ConfirmCommit, JobCreatedCount, JobCreatedWrite,
              ContactRead, ContactWrite, AfterMissed, NextCall
<1>3. CASE HandlerFails(s) \/ Fail(s)
  BY <1>3 DEF HandlerFails, Fail
<1>4. QED BY <1>1, <1>2, <1>3

\* Whatever leaves the table in an operation under way, a job or a quote made
\* from it is there.
LEMMA RequestKeptStep ==
  ASSUME SalesInv, SalesNext, NEW r \in Rows(request), request'[r] = Gone
  PROVE  \/ op' = op
         \/ \E j \in Rows(job) : job[j].origin = r
         \/ \E q \in Rows(quote) : quote[q].origin = r
<1>1. PICK s \in Sessions : Call(s) \/ Continue(s) \/ HandlerFails(s) \/ Fail(s)
  BY DEF SalesNext
<1>2. SalesTypeOK /\ Sound(s) /\ r \in Requests /\ request[r] # Gone /\ request[r] # None
  BY Tables DEF SalesInv, Rows
<1>3. \/ request' = request \/ op' = op \/ DeleteConverted(s)
      \/ \E i \in Requests : InsertRequest(i)
  BY <1>1, RequestTouched
<1>4. CASE DeleteConverted(s)
  <2>1. op[s].at = "delete" /\ request' = [request EXCEPT ![op[s].r] = Gone]
    BY <1>4 DEF DeleteConverted, At
  <2>2. op[s].r = r
    BY <1>2, <2>1 DEF SalesTypeOK
  <2>3. QED BY <1>2, <2>1, <2>2 DEF Sound, MadeFrom
<1>5. CASE \E i \in Requests : InsertRequest(i)
  <2>1. PICK i \in Requests : request[i] = None /\ request' = [request EXCEPT ![i] = "PENDING"]
    BY <1>5 DEF InsertRequest, CanInsert
  <2>2. i # r
    BY <1>2, <2>1
  <2>3. request'[r] = request[r]
    BY <1>2, <2>1, <2>2 DEF SalesTypeOK
  <2>4. QED BY <1>2, <2>3
<1>6. QED BY <1>2, <1>3, <1>4, <1>5

\* A request leaves the table only because a user deleted it, or once a job or a
\* quote made from it is committed, whatever fails, overlaps or is undone.
THEOREM ConversionsLoseNoRequest == SalesSpec => RequestsAreKept
<1>1. SalesInv /\ [SalesNext]_vars =>
        [\A r \in Rows(request) :
           request'[r] = Gone =>
              \/ op' = op
              \/ \E j \in Rows(job) : job[j].origin = r
              \/ \E q \in Rows(quote) : quote[q].origin = r]_vars
  BY RequestKeptStep
<1>2. QED BY <1>1, SalesInvariant, PTL DEF SalesSpec, RequestsAreKept

-----------------------------------------------------------------------------
(* An acceptance is final *)

Final(q, J) == Accepted(q, J) /\ Settled(q)
Writing == {"confirm"}
Made(q) == {j \in Rows(job) : job[j].origin = q}

\* A session that goes to a record holds it, and the others hold theirs.
LEMMA Holds ==
  ASSUME SalesTypeOK, NEW s \in Sessions, NEW rec, GoTo(s, rec)
  PROVE  op'[s] = rec /\ \A t \in Sessions \ {s} : op'[t] = op[t]
BY DEF GoTo, SalesTypeOK

\* An acceptance stays when its quote and the jobs made from it do, and the
\* session that moves is not about to write the quote.
LEMMA Untouched ==
  ASSUME NEW q \in Quotes, NEW J \in SUBSET Jobs, Final(q, J), NEW s \in Sessions,
         q \in Rows(quote'), quote'[q] = quote[q], Made(q)' = Made(q),
         \A t \in Sessions \ {s} : op'[t] = op[t],
         op'[s] = op[s] \/ op'[s].at \notin Writing \/ op'[s].q # q
  PROVE  Final(q, J)'
<1>1. /\ quote[q].status = "ACCEPTED" /\ J = Made(q)
      /\ \A t \in Sessions : op[t].q = q => op[t].at \notin Writing
  BY DEF Final, Accepted, Settled, Made, Writing
<1>2. Accepted(q, J)'
  <2>1. J = Made(q)'
    BY <1>1
  <2>2. quote'[q].status = "ACCEPTED"
    BY <1>1
  <2>3. Rows(quote)' = Rows(quote')
    BY DEF Rows
  <2>4. QED BY <2>1, <2>2, <2>3 DEF Accepted, Made
<1>3. \A t \in Sessions : op'[t].q = q => op'[t].at \notin Writing
  <2> SUFFICES ASSUME NEW t \in Sessions, op'[t].q = q PROVE op'[t].at \notin Writing
    OBVIOUS
  <2>1. CASE t = s
    BY <1>1, <2>1
  <2>2. CASE t # s
    BY <1>1, <2>2
  <2>3. QED BY <2>1, <2>2
<1>4. Settled(q)'
  BY <1>3 DEF Settled, Writing
<1>5. QED BY <1>2, <1>4 DEF Final

\* What leaves quotes and jobs alone leaves an acceptance alone.
LEMMA Elsewhere ==
  ASSUME NEW q \in Quotes, NEW J \in SUBSET Jobs, Final(q, J), NEW s \in Sessions,
         UNCHANGED <<quote, job>>, \A t \in Sessions \ {s} : op'[t] = op[t],
         op'[s] = op[s] \/ op'[s].at \notin Writing \/ op'[s].q # q
  PROVE  Final(q, J)'
<1>1. q \in Rows(quote') /\ quote'[q] = quote[q] /\ Made(q)' = Made(q)
  BY DEF Final, Accepted, Made, Rows
<1>2. QED BY <1>1, Untouched

\* Where a step that writes neither quotes nor jobs leaves its session.
LEMMA AcceptedElsewhere ==
  ASSUME SalesInv, NEW q \in Quotes, NEW J \in SUBSET Jobs, Final(q, J), NEW s \in Sessions,
         UNCHANGED <<quote, job>>,
         \/ OneShot(s)
         \/ Close(s)
         \/ \E rec : GoTo(s, rec) /\ (rec.at \notin Writing \/ rec.q # q)
  PROVE  Final(q, J)'
<1>1. SalesTypeOK
  BY DEF SalesInv
<1>2. CASE OneShot(s)
  <2>1. op' = op
    BY <1>2 DEF OneShot
  <2>2. QED BY <2>1, Elsewhere
<1>3. CASE Close(s)
  <2>1. op'[s] = Idle /\ \A t \in Sessions \ {s} : op'[t] = op[t]
    BY <1>1, <1>3, Holds DEF Close
  <2>2. op'[s].at \notin Writing
    BY <2>1, IdleTyped DEF Writing
  <2>3. QED BY <2>1, <2>2, Elsewhere
<1>4. ASSUME NEW rec, GoTo(s, rec), rec.at \notin Writing \/ rec.q # q
      PROVE  Final(q, J)'
  <2>1. op'[s] = rec /\ \A t \in Sessions \ {s} : op'[t] = op[t]
    BY <1>1, <1>4, Holds
  <2>2. QED BY <1>4, <2>1, Elsewhere
<1>5. QED BY <1>2, <1>3, <1>4

\* The jobs of a quote stay when a job is made without one, or undone.
LEMMA MadeElsewhere ==
  ASSUME SalesInv, NEW q \in Quotes, NEW j \in Jobs,
         \/ /\ CanInsert(j, job)
            /\ \E row \in JobRow : row.origin # q /\ job' = [job EXCEPT ![j] = row]
         \/ /\ j \in Rows(job) /\ job[j].origin # q /\ job' = [job EXCEPT ![j] = Gone]
  PROVE  Made(q)' = Made(q)
<1>1. SalesTypeOK /\ Rows(job) \subseteq Jobs
  BY Tables DEF SalesInv
<1>2. Rows(job)' = Rows(job')
  BY DEF Rows
<1>3. ASSUME NEW row \in JobRow, row.origin # q, CanInsert(j, job), job' = [job EXCEPT ![j] = row]
      PROVE  Made(q)' = Made(q)
  <2>1. /\ Rows(job') = Rows(job) \cup {j} /\ j \notin Rows(job) /\ job'[j] = row
        /\ \A i \in Jobs \ {j} : job'[i] = job[i]
    BY <1>3, JobAdded
  <2>2. \A i \in Rows(job) : job'[i] = job[i]
    BY <1>1, <2>1
  <2>3. {i \in Rows(job') : job'[i].origin = q} = {i \in Rows(job) : job[i].origin = q}
    BY <1>3, <2>1, <2>2
  <2>4. QED BY <1>2, <2>3 DEF Made
<1>4. ASSUME j \in Rows(job), job[j].origin # q, job' = [job EXCEPT ![j] = Gone]
      PROVE  Made(q)' = Made(q)
  <2>1. Rows(job') = Rows(job) \ {j} /\ \A i \in Jobs \ {j} : job'[i] = job[i]
    BY <1>1, <1>4, JobGone
  <2>2. \A i \in Rows(job') : job'[i] = job[i]
    BY <1>1, <2>1
  <2>3. {i \in Rows(job') : job'[i].origin = q} = {i \in Rows(job) : job[i].origin = q}
    BY <1>4, <2>1, <2>2
  <2>4. QED BY <1>2, <2>3 DEF Made
<1>5. QED BY <1>3, <1>4

\* create_job makes a job that no quote is the origin of.
LEMMA AcceptedBesideJob ==
  ASSUME SalesInv, NEW q \in Quotes, NEW J \in SUBSET Jobs, Final(q, J), NEW s \in Sessions,
         NEW c \in Customers, NEW origin \in Requests \cup {None}, NEW rec \in Op,
         CreateJob(s, c, origin, rec), UNCHANGED quote
  PROVE  Final(q, J)'
<1> DEFINE row == [customer |-> c, origin |-> origin]
<1>1. PICK j \in Jobs : /\ CanInsert(j, job) /\ job' = [job EXCEPT ![j] = row]
                        /\ GoTo(s, [rec EXCEPT !.at = "created", !.c = c, !.meta.j = j])
  BY DEF CreateJob
<1> DEFINE new == [rec EXCEPT !.at = "created", !.c = c, !.meta.j = j]
<1>2. row \in JobRow /\ row.origin # q
  BY SalesAssumption DEF JobRow
<1>3. new.at = "created"
  BY DEF Op
<1>4. GoTo(s, new)
  BY <1>1
<1> HIDE DEF row, new
<1>5. op'[s] = new /\ \A t \in Sessions \ {s} : op'[t] = op[t]
  BY <1>4, Holds DEF SalesInv
<1>6. Made(q)' = Made(q)
  BY <1>1, <1>2, MadeElsewhere
<1>7. q \in Rows(quote') /\ quote'[q] = quote[q]
  BY DEF Final, Accepted
<1>8. op'[s].at \notin Writing
  BY <1>3, <1>5 DEF Writing
<1>9. QED BY <1>5, <1>6, <1>7, <1>8, Untouched

\* A job that is undone was not made from a quote.
LEMMA AcceptedBesideUndo ==
  ASSUME SalesInv, NEW q \in Quotes, NEW J \in SUBSET Jobs, Final(q, J), NEW s \in Sessions,
         last[s].j \in Rows(job), job' = [job EXCEPT ![last[s].j] = Gone],
         OneShot(s), UNCHANGED quote
  PROVE  Final(q, J)'
<1>1. PICK j : j = last[s].j
  OBVIOUS
<1>2. j \in Jobs /\ j \in Rows(job) /\ j # None /\ NamesJob(last[s])
  BY <1>1, Tables, SalesAssumption DEF SalesInv, Sound
<1>3. job[j].origin # q /\ job' = [job EXCEPT ![j] = Gone]
  BY <1>1, <1>2 DEF NamesJob
<1>4. Made(q)' = Made(q)
  BY <1>2, <1>3, MadeElsewhere
<1>5. q \in Rows(quote') /\ quote'[q] = quote[q] /\ op' = op
  BY DEF Final, Accepted, OneShot
<1>6. QED BY <1>4, <1>5, Untouched

\* A new quote is another quote.
LEMMA AcceptedBesideQuote ==
  ASSUME SalesInv, NEW q \in Quotes, NEW J \in SUBSET Jobs, Final(q, J), NEW s \in Sessions,
         NEW p \in Quotes, CanInsert(p, quote), NEW row \in QuoteRow,
         quote' = [quote EXCEPT ![p] = row], UNCHANGED job,
         \/ op' = op
         \/ \E rec : GoTo(s, rec) /\ (rec.at \notin Writing \/ rec.q = p)
  PROVE  Final(q, J)'
<1>1. q \in Rows(quote) /\ p \notin Rows(quote)
  BY DEF Final, Accepted, CanInsert, Rows
<1>2. q \in Rows(quote') /\ quote'[q] = quote[q]
  <2>1. Rows(quote') = Rows(quote) \cup {p} /\ \A i \in Quotes \ {p} : quote'[i] = quote[i]
    BY QuotePut DEF SalesInv
  <2>2. QED BY <1>1, <2>1
<1>3. Made(q)' = Made(q)
  BY DEF Made, Rows
<1>4. CASE op' = op
  BY <1>2, <1>3, <1>4, Untouched
<1>5. ASSUME NEW rec, GoTo(s, rec), rec.at \notin Writing \/ rec.q = p
      PROVE  Final(q, J)'
  <2>1. op'[s] = rec /\ \A t \in Sessions \ {s} : op'[t] = op[t]
    BY <1>5, Holds DEF SalesInv
  <2>2. op'[s].at \notin Writing \/ op'[s].q # q
    BY <1>1, <1>5, <2>1
  <2>3. QED BY <1>2, <1>3, <2>1, <2>2, Untouched
<1>6. QED BY <1>4, <1>5

\* An operation that makes a job without a quote.
LEMMA JobCallKeepsAccepted ==
  ASSUME SalesInv, NEW q \in Quotes, NEW J \in SUBSET Jobs, Final(q, J), NEW s \in Sessions,
         AddJobCommit(s) \/ ConvertToJob(s) \/ \E c \in Customers : PwaCreateJob(s, c)
  PROVE  Final(q, J)'
<1>1. SalesTypeOK /\ op[s] \in Op
  BY OpTyped DEF SalesInv
<1>2. CASE AddJobCommit(s)
  <2> DEFINE rec == [Idle EXCEPT !.meta.action = "create job"]
  <2>1. PICK c \in Customers : CreateJob(s, c, None, rec)
    BY <1>2 DEF AddJobCommit
  <2>2. rec \in Op
    BY IdleTyped, MetaOf
  <2> HIDE DEF rec
  <2>3. UNCHANGED quote
    BY <1>2 DEF AddJobCommit
  <2>4. QED BY <2>1, <2>2, <2>3, AcceptedBesideJob
<1>3. CASE ConvertToJob(s)
  <2> DEFINE rec == [op[s] EXCEPT !.meta.r = op[s].r]
  <2>1. PICK c \in Customers : CreateJob(s, c, op[s].r, rec)
    BY <1>3 DEF ConvertToJob
  <2>2. rec \in Op /\ op[s].r \in Requests
    BY <1>1, <1>3 DEF Op, Metadata, ConvertToJob, At, SalesInv, Sound, HoldsRows
  <2> HIDE DEF rec
  <2>3. UNCHANGED quote
    BY <1>3 DEF ConvertToJob
  <2>4. QED BY <2>1, <2>2, <2>3, AcceptedBesideJob
<1>4. ASSUME NEW c \in Customers, PwaCreateJob(s, c)
      PROVE  Final(q, J)'
  <2>1. CreateJob(s, c, None, Idle) /\ UNCHANGED quote
    BY <1>4 DEF PwaCreateJob
  <2>2. QED BY <2>1, IdleTyped, AcceptedBesideJob
<1>5. QED BY <1>2, <1>3, <1>4

\* An operation that makes a quote.
LEMMA QuoteCallKeepsAccepted ==
  ASSUME SalesInv, NEW q \in Quotes, NEW J \in SUBSET Jobs, Final(q, J), NEW s \in Sessions,
         \/ ConvertToQuote(s)
         \/ \E n \in Names : CreateQuote(s, n)
         \/ \E c \in Customers, status \in PwaStatuses : PwaCreateQuote(s, c, status)
  PROVE  Final(q, J)'
<1>1. SalesTypeOK /\ op[s] \in Op
  BY OpTyped DEF SalesInv
<1>2. CASE ConvertToQuote(s)
  <2>1. PICK c \in Customers, p \in Quotes :
           /\ CanInsert(p, quote)
           /\ quote' = [quote EXCEPT ![p] = [customer |-> c, status |-> "DRAFT",
                                             job |-> None, origin |-> op[s].r]]
    BY <1>2 DEF ConvertToQuote
  <2> DEFINE row == [customer |-> c, status |-> "DRAFT", job |-> None, origin |-> op[s].r]
             rec == [op[s] EXCEPT !.at = "delete"]
  <2>2. row \in QuoteRow
    <3>1. op[s].r \in Requests /\ "DRAFT" \in QuoteStatus
      BY <1>2 DEF SalesInv, Sound, HoldsRows, ConvertToQuote, At, QuoteStatus
    <3>2. QED BY <3>1, NewQuote
  <2>3. GoTo(s, rec) /\ rec.at \notin Writing /\ UNCHANGED job
    BY <1>1, <1>2 DEF ConvertToQuote, Writing, Op
  <2>4. CanInsert(p, quote) /\ quote' = [quote EXCEPT ![p] = row]
    BY <2>1
  <2> HIDE DEF row, rec
  <2>5. QED BY <2>2, <2>3, <2>4, AcceptedBesideQuote
<1>3. ASSUME NEW n \in Names, CreateQuote(s, n)
      PROVE  Final(q, J)'
  <2> DEFINE c == FoundByName(n)
             row == [customer |-> c, status |-> "DRAFT", job |-> None, origin |-> None]
  <2>1. PICK p \in Quotes :
           /\ InsertQuote(p, c, "DRAFT")
           /\ GoTo(s, [Idle EXCEPT !.at = "sending", !.q = p, !.meta = Other])
    BY <1>3 DEF CreateQuote
  <2> DEFINE rec == [Idle EXCEPT !.at = "sending", !.q = p, !.meta = Other]
  <2>2. c \in Customers
    <3>1. Named(n) # {}
      <4>1. Cardinality(Named(n)) = 1
        BY <1>3 DEF CreateQuote, Search
      <4>2. QED BY <4>1, FS_EmptySet
    <3>2. Rows(customer) \subseteq Customers
      BY <1>1, Tables
    <3>3. QED BY <3>1, <3>2 DEF FoundByName, Named
  <2> HIDE DEF c
  <2>3. row \in QuoteRow
    <3>1. "DRAFT" \in QuoteStatus
      BY DEF QuoteStatus
    <3>2. QED BY <2>2, <3>1, NewQuote
  <2>4. GoTo(s, rec) /\ rec.q = p /\ UNCHANGED job
    BY <1>3, <2>1 DEF CreateQuote, Idle
  <2>5. CanInsert(p, quote) /\ quote' = [quote EXCEPT ![p] = row]
    BY <2>1 DEF InsertQuote
  <2> HIDE DEF row, rec
  <2>6. QED BY <2>3, <2>4, <2>5, AcceptedBesideQuote
<1>4. ASSUME NEW c \in Customers, NEW status \in PwaStatuses, PwaCreateQuote(s, c, status)
      PROVE  Final(q, J)'
  <2> DEFINE row == [customer |-> c, status |-> status, job |-> None, origin |-> None]
  <2>1. PICK p \in Quotes : InsertQuote(p, c, status)
    BY <1>4 DEF PwaCreateQuote
  <2>2. status \in QuoteStatus
    BY SalesAssumption
  <2>3. row \in QuoteRow
    BY <2>2, NewQuote
  <2>4. CanInsert(p, quote) /\ quote' = [quote EXCEPT ![p] = row]
    BY <2>1 DEF InsertQuote
  <2> HIDE DEF row
  <2>5. UNCHANGED job /\ op' = op
    BY <1>4 DEF PwaCreateQuote, OneShot
  <2>6. QED BY <2>3, <2>4, <2>5, AcceptedBesideQuote
<1>5. QED BY <1>2, <1>3, <1>4

\* A confirmation writes another quote: this one is settled.
LEMMA ConfirmKeepsAccepted ==
  ASSUME SalesInv, NEW q \in Quotes, NEW J \in SUBSET Jobs, Final(q, J), NEW s \in Sessions,
         ConfirmCommit(s)
  PROVE  Final(q, J)'
<1>1. PICK p : p = op[s].q
  OBVIOUS
<1>2. SalesTypeOK /\ op[s] \in Op /\ p \in Rows(quote) /\ p # q
  BY <1>1, OpTyped
     DEF SalesInv, Sound, HoldsRows, ConfirmCommit, At, Final, Settled
<1>3. p \in Quotes /\ quote[p] \in QuoteRow /\ q \in Rows(quote)
  BY <1>2, Tables DEF Final, Accepted
<1>4. ASSUME NEW row \in QuoteRow, quote' = [quote EXCEPT ![p] = row]
      PROVE  q \in Rows(quote') /\ quote'[q] = quote[q]
  <2>1. Rows(quote') = Rows(quote) \cup {p} /\ \A i \in Quotes \ {p} : quote'[i] = quote[i]
    BY <1>2, <1>3, <1>4, QuotePut
  <2>2. QED BY <1>2, <1>3, <2>1
<1>5. PICK j \in Jobs :
         /\ CanInsert(j, job)
         /\ job' = [job EXCEPT ![j] = [customer |-> quote[p].customer, origin |-> p]]
         /\ quote' = [quote EXCEPT ![p].status = "ACCEPTED", ![p].job = j]
  BY <1>1 DEF ConfirmCommit
<1> DEFINE jobRow == [customer |-> quote[p].customer, origin |-> p]
           row == [quote[p] EXCEPT !.status = "ACCEPTED", !.job = j]
<1>6. row \in QuoteRow /\ jobRow \in JobRow /\ jobRow.origin # q
  BY <1>2, <1>3 DEF QuoteRow, QuoteStatus, JobRow
<1>7. quote' = [quote EXCEPT ![p] = row]
  BY <1>3, <1>5 DEF QuoteRow
<1>8. CanInsert(j, job) /\ job' = [job EXCEPT ![j] = jobRow]
  BY <1>5
<1> HIDE DEF row, jobRow
<1>9. q \in Rows(quote') /\ quote'[q] = quote[q]
  BY <1>4, <1>6, <1>7
<1>10. Made(q)' = Made(q)
  BY <1>6, <1>8, MadeElsewhere
<1>11. GoTo(s, Idle)
  BY DEF ConfirmCommit
<1>12. op'[s] = Idle /\ \A t \in Sessions \ {s} : op'[t] = op[t]
  BY <1>2, <1>11, Holds
<1>13. op'[s].at \notin Writing
  BY <1>12, IdleTyped DEF Writing
<1>14. QED BY Zenon, <1>9, <1>10, <1>12, <1>13, Untouched

\* The calls and the steps that write neither quotes nor jobs.
LEMMA QuietCallKeepsAccepted ==
  ASSUME SalesInv, NEW q \in Quotes, NEW J \in SUBSET Jobs, Final(q, J), NEW s \in Sessions,
         UNCHANGED <<quote, job>>,
         \/ OneShot(s) \/ Close(s) \/ Resume(s)
         \/ \E rec : GoTo(s, rec) /\ rec.at \notin Writing
  PROVE  Final(q, J)'
<1>1. CASE Resume(s)
  <2>1. op[s] \in Op
    BY OpTyped DEF SalesInv
  <2>2. [op[s] EXCEPT !.at = "delete"].at \notin Writing
    BY <2>1 DEF Writing, Op
  <2>3. QED BY <1>1, <2>2, AcceptedElsewhere DEF Resume
<1>2. QED BY <1>1, AcceptedElsewhere

LEMMA LookupKeepsAccepted ==
  ASSUME SalesInv, NEW q \in Quotes, NEW J \in SUBSET Jobs, Final(q, J), NEW s \in Sessions,
         NEW n \in Names, AddLeadLookup(s, n) \/ AddJobLookup(s, n) \/ StoreRequest(s, n)
  PROVE  Final(q, J)'
<1>1. UNCHANGED <<quote, job>>
  BY DEF AddLeadLookup, AddJobLookup, StoreRequest
<1>2. CASE AddLeadLookup(s, n)
  <2> DEFINE rec == [Idle EXCEPT !.at = "addLead", !.n = n, !.meta = Other]
  <2>1. GoTo(s, rec) /\ rec.at \notin Writing
    BY <1>2 DEF AddLeadLookup, Writing, Idle
  <2>2. QED BY <1>1, <2>1, QuietCallKeepsAccepted
<1>3. CASE AddJobLookup(s, n)
  <2> DEFINE rec == [Idle EXCEPT !.at = "addJob", !.n = n, !.c = FoundByName(n)]
  <2>1. GoTo(s, rec) /\ rec.at \notin Writing
    BY <1>3 DEF AddJobLookup, Writing, Idle
  <2>2. QED BY <1>1, <2>1, QuietCallKeepsAccepted
<1>4. CASE StoreRequest(s, n)
  <2>1. CASE op' = op
    BY <1>1, <2>1, Elsewhere
  <2>2. ASSUME NEW meta, GoTo(s, [Idle EXCEPT !.at = "contact", !.c = FoundByName(n), !.meta = meta])
        PROVE  Final(q, J)'
    <3> DEFINE rec == [Idle EXCEPT !.at = "contact", !.c = FoundByName(n), !.meta = meta]
    <3>1. GoTo(s, rec) /\ rec.at \notin Writing
      BY <2>2 DEF Writing, Idle
    <3>2. QED BY <1>1, <3>1, QuietCallKeepsAccepted
  <2>3. op' = op \/ \E meta : GoTo(s, [Idle EXCEPT !.at = "contact", !.c = FoundByName(n), !.meta = meta])
    BY <1>4 DEF StoreRequest
  <2>4. QED BY <2>1, <2>2, <2>3
<1>5. QED BY Zenon, <1>2, <1>3, <1>4

LEMMA RequestCallKeepsAccepted ==
  ASSUME SalesInv, NEW q \in Quotes, NEW J \in SUBSET Jobs, Final(q, J), NEW s \in Sessions,
         NEW r, NEW action, ConvertRead(s, r, action)
  PROVE  Final(q, J)'
<1>1. PICK c, act :
        GoTo(s, [Idle EXCEPT !.at = "convert", !.r = r, !.c = c, !.n = GeneralCustomer,
                             !.meta.action = act])
  BY DEF ConvertRead
<1> DEFINE rec == [Idle EXCEPT !.at = "convert", !.r = r, !.c = c, !.n = GeneralCustomer,
                               !.meta.action = act]
<1>2. GoTo(s, rec) /\ rec.at \notin Writing
  BY <1>1 DEF Writing, Idle
<1> HIDE DEF rec
<1>3. UNCHANGED <<quote, job>>
  BY DEF ConvertRead
<1>4. QED BY <1>2, <1>3, QuietCallKeepsAccepted

LEMMA ConfirmReadKeepsAccepted ==
  ASSUME SalesInv, NEW q \in Quotes, NEW J \in SUBSET Jobs, Final(q, J), NEW s \in Sessions,
         NEW p \in Quotes, ConfirmRead(s, p)
  PROVE  Final(q, J)'
<1> DEFINE rec == [Idle EXCEPT !.at = "confirm", !.q = p]
<1>1. p # q
  BY DEF ConfirmRead, Final, Accepted
<1>2. GoTo(s, rec) /\ rec.q = p /\ UNCHANGED <<quote, job>>
  BY DEF ConfirmRead, Idle
<1> HIDE DEF rec
<1>3. QED BY <1>1, <1>2, AcceptedElsewhere

LEMMA StepKeepsAccepted ==
  ASSUME SalesInv, NEW q \in Quotes, NEW J \in SUBSET Jobs, Final(q, J), NEW s \in Sessions,
         Continue(s) \/ HandlerFails(s) \/ Fail(s)
  PROVE  Final(q, J)'
<1>1. op[s] \in Op
  BY OpTyped DEF SalesInv
<1>2. CASE AddJobCommit(s) \/ ConvertToJob(s)
  BY <1>2, JobCallKeepsAccepted
<1>3. CASE ConvertToQuote(s)
  BY <1>3, QuoteCallKeepsAccepted
<1>4. CASE ConfirmCommit(s)
  BY <1>4, ConfirmKeepsAccepted
<1>5. CASE AddLeadInsert(s) \/ DeleteConverted(s) \/ SendQuote(s)
  <2>1. Close(s) /\ UNCHANGED <<quote, job>>
    BY <1>5 DEF AddLeadInsert, DeleteConverted, SendQuote
  <2>2. QED BY <2>1, QuietCallKeepsAccepted
<1>6. CASE JobCreatedWrite(s) \/ ContactWrite(s) \/ AfterMissed(s)
  <2>1. Resume(s) /\ UNCHANGED <<quote, job>>
    BY <1>6 DEF JobCreatedWrite, ContactWrite, AfterMissed
  <2>2. QED BY <2>1, QuietCallKeepsAccepted
<1>7. ASSUME NEW step \in {"contactSeen"}, NEW st, UNCHANGED <<quote, job>>,
             GoTo(s, [op[s] EXCEPT !.at = step, !.stage = st])
      PROVE  Final(q, J)'
  <2> DEFINE rec == [op[s] EXCEPT !.at = step, !.stage = st]
  <2>1. GoTo(s, rec) /\ rec.at \notin Writing
    BY <1>1, <1>7 DEF Writing, Op
  <2>2. QED BY <1>7, <2>1, QuietCallKeepsAccepted
<1>8. CASE ContactRead(s)
  BY <1>7, <1>8 DEF ContactRead
<1>9. CASE JobCreatedCount(s)
  <2> DEFINE rec == [op[s] EXCEPT !.at = "counted", !.count = Cardinality(JobsOf(op[s].c))]
  <2>1. GoTo(s, rec) /\ rec.at \notin Writing /\ UNCHANGED <<quote, job>>
    BY <1>1, <1>9 DEF JobCreatedCount, Writing, Op
  <2> HIDE DEF rec
  <2>2. QED BY <2>1, QuietCallKeepsAccepted
<1>10. CASE HandlerFails(s)
  <2> DEFINE rec == [op[s] EXCEPT !.at = "missed"]
  <2>1. GoTo(s, rec) /\ rec.at \notin Writing /\ UNCHANGED <<quote, job>>
    BY <1>1, <1>10 DEF HandlerFails, Writing, Op
  <2> HIDE DEF rec
  <2>2. QED BY <2>1, QuietCallKeepsAccepted
<1>11. CASE Fail(s) \/ NextCall(s)
  <2>1. PICK rec : rec \in {Idle, [Idle EXCEPT !.at = "failed"]} /\ GoTo(s, rec)
    BY <1>11 DEF Fail, NextCall
  <2>2. rec.at \notin Writing
    BY <2>1, IdleTyped DEF Writing, Idle
  <2>3. UNCHANGED <<quote, job>>
    BY <1>11 DEF Fail, NextCall
  <2>4. QED BY <2>1, <2>2, <2>3, QuietCallKeepsAccepted
<1>12. QED BY <1>2, <1>3, <1>4, <1>5, <1>6, <1>8, <1>9, <1>10, <1>11 DEF Continue

LEMMA CallKeepsAccepted ==
  ASSUME SalesInv, NEW q \in Quotes, NEW J \in SUBSET Jobs, Final(q, J), NEW s \in Sessions, Call(s)
  PROVE  Final(q, J)'
<1>1. ASSUME NEW n \in Names,
             \/ AddLeadLookup(s, n) \/ AddJobLookup(s, n)
             \/ StoreRequest(s, n) \/ CreateQuote(s, n)
             \/ \E new \in Names : EditCustomer(s, n, new)
             \/ \E st \in ToolStages :
                  UpdateCustomerStage(s, n, st) \/ PwaCreateCustomer(s, n, st)
      PROVE  Final(q, J)'
  <2>1. CASE \/ \E new \in Names : EditCustomer(s, n, new)
             \/ \E st \in ToolStages :
                  UpdateCustomerStage(s, n, st) \/ PwaCreateCustomer(s, n, st)
    <3>1. OneShot(s) /\ UNCHANGED <<quote, job>>
      BY <2>1 DEF EditCustomer, UpdateCustomerStage, PwaCreateCustomer
    <3>2. QED BY <3>1, QuietCallKeepsAccepted
  <2>2. QED BY <1>1, <2>1, LookupKeepsAccepted, QuoteCallKeepsAccepted
<1>2. ASSUME NEW c \in Customers,
             \/ PwaCreateJob(s, c)
             \/ \E st \in ToolStages : PwaUpdateCustomer(s, c, st)
             \/ \E status \in PwaStatuses : PwaCreateQuote(s, c, status)
      PROVE  Final(q, J)'
  <2>1. CASE \E st \in ToolStages : PwaUpdateCustomer(s, c, st)
    <3>1. OneShot(s) /\ UNCHANGED <<quote, job>>
      BY <2>1 DEF PwaUpdateCustomer
    <3>2. QED BY <3>1, QuietCallKeepsAccepted
  <2>2. QED BY <1>2, <2>1, JobCallKeepsAccepted, QuoteCallKeepsAccepted
<1>3. ASSUME NEW r \in Requests,
             \/ DeleteRequest(s, r)
             \/ \E status \in EditStatuses : UpdateRequest(s, r, status)
             \/ \E action \in {"SCHEDULE", "QUOTE"} : ConvertRead(s, r, action)
             \/ \E action \in {"COMPLETE", "LOG"} : ConvertMark(s, r, action)
      PROVE  Final(q, J)'
  <2>1. CASE \/ DeleteRequest(s, r)
             \/ \E status \in EditStatuses : UpdateRequest(s, r, status)
             \/ \E action \in {"COMPLETE", "LOG"} : ConvertMark(s, r, action)
    <3>1. OneShot(s) /\ UNCHANGED <<quote, job>>
      BY <2>1 DEF DeleteRequest, UpdateRequest, ConvertMark
    <3>2. QED BY <3>1, QuietCallKeepsAccepted
  <2>2. QED BY <1>3, <2>1, RequestCallKeepsAccepted
<1>4. ASSUME NEW p \in Quotes, ConfirmRead(s, p)
      PROVE  Final(q, J)'
  BY <1>4, ConfirmReadKeepsAccepted
<1>5. CASE \/ \E quoting \in QuotingChoices :
                UpdateWorkflowSettings(s, quoting)
           \/ PwaCreateRequest(s) \/ UndoUpdate(s)
  <2>1. OneShot(s) /\ UNCHANGED <<quote, job>>
    BY <1>5 DEF UpdateWorkflowSettings, PwaCreateRequest, UndoUpdate
  <2>2. QED BY <2>1, QuietCallKeepsAccepted
<1>6. CASE UndoCreate(s) \/ UndoPromote(s)
  <2>1. OneShot(s) /\ UNCHANGED quote
    BY <1>6 DEF UndoCreate, UndoPromote
  <2>2. CASE UNCHANGED job
    BY <2>1, <2>2, QuietCallKeepsAccepted
  <2>3. CASE last[s].j \in Rows(job) /\ job' = [job EXCEPT ![last[s].j] = Gone]
    BY <2>1, <2>3, AcceptedBesideUndo
  <2>4. QED BY <1>6, <2>2, <2>3 DEF UndoCreate, UndoPromote
<1>7. QED BY <1>1, <1>2, <1>3, <1>4, <1>5, <1>6 DEF Call

LEMMA FinalStep ==
  ASSUME NEW q \in Quotes, NEW J \in SUBSET Jobs, SalesInv, Final(q, J), [SalesNext]_vars
  PROVE  Final(q, J)'
<1>1. CASE UNCHANGED vars
  BY <1>1 DEF vars, Final, Accepted, Settled, Rows
<1>2. CASE SalesNext
  BY <1>2, CallKeepsAccepted, StepKeepsAccepted DEF SalesNext
<1>3. QED BY <1>1, <1>2

\* Once a quote is accepted and no session is in the middle of writing it, it
\* stays accepted and gets no second job: not from another use of the public
\* link, an undo, or another session's quotes and jobs.
THEOREM AcceptedForGood == SalesSpec => AcceptanceIsFinal
<1> SUFFICES ASSUME NEW q \in Quotes, NEW J \in SUBSET Jobs
             PROVE  SalesSpec => []((Accepted(q, J) /\ Settled(q)) => []Accepted(q, J))
  BY DEF AcceptanceIsFinal
<1>1. SalesInv /\ Final(q, J) /\ [SalesNext]_vars => Final(q, J)'
  BY FinalStep
<1>2. Final(q, J) => Accepted(q, J)
  BY DEF Final
<1>3. Accepted(q, J) /\ Settled(q) => Final(q, J)
  BY DEF Final
<1>4. QED BY <1>1, <1>2, <1>3, SalesInvariant, PTL DEF SalesSpec

-----------------------------------------------------------------------------
(* The automation job *)

Items == PaidJobs \cup SentQuotes

RunRecord == [at : {"idle", "followups", "reviews"}, todo : SUBSET Items, added : SUBSET Items]

LEMMA AutomationInitTypes == AutomationInit => AutomationTypeOK
BY AutomationAssumption DEF AutomationInit, AutomationTypeOK, Ended

\* Whatever becomes of a due item, the run stays a run.
LEMMA ProcessedTyped ==
  ASSUME auto \in RunRecord, NEW i \in Items
  PROVE  Processed(i) \in RunRecord
<1>1. CASE ~NotLogged(i)
  BY <1>1 DEF Processed, RunRecord
<1>2. CASE NotLogged(i) /\ i \notin CustomerLoaded
  BY <1>2 DEF Processed, RunRecord, Ended
<1>3. CASE NotLogged(i) /\ i \in CustomerLoaded
  BY <1>3 DEF Processed, RunRecord
<1>4. QED BY <1>1, <1>2, <1>3

LEMMA AutomationStep == AutomationTypeOK /\ [AutomationNext]_autoVars => AutomationTypeOK'
<1> SUFFICES ASSUME AutomationTypeOK, [AutomationNext]_autoVars PROVE AutomationTypeOK'
  OBVIOUS
<1>1. /\ auto \in RunRecord /\ due \subseteq Items /\ messageLog \subseteq Items
      /\ asked \in [PaidJobs -> Nat] /\ failures \in 0..MaxFailures
  BY DEF AutomationTypeOK, RunRecord, Items
<1>2. CASE UNCHANGED autoVars
  BY <1>2 DEF autoVars, AutomationTypeOK
<1>3. CASE AutomationStarts \/ FollowupsCommit \/ ReviewsCommit
  <2>1. /\ auto' \in RunRecord /\ messageLog' \subseteq Items
        /\ UNCHANGED <<due, asked, failures>>
    BY <1>1, <1>3 DEF AutomationStarts, FollowupsCommit, ReviewsCommit, Ended, RunRecord, Items
  <2>2. QED BY <1>1, <2>1 DEF AutomationTypeOK, RunRecord, Items
<1>4. ASSUME NEW q \in SentQuotes, DraftFollowup(q) PROVE AutomationTypeOK'
  <2>1. auto' \in RunRecord
    BY <1>1, <1>4, ProcessedTyped DEF DraftFollowup, Items
  <2>2. UNCHANGED <<due, messageLog, asked, failures>>
    BY <1>4 DEF DraftFollowup
  <2>3. QED BY <1>1, <2>1, <2>2 DEF AutomationTypeOK, RunRecord, Items
<1>5. ASSUME NEW j \in PaidJobs, AskReview(j) PROVE AutomationTypeOK'
  <2>1. auto' \in RunRecord
    BY <1>1, <1>5, ProcessedTyped DEF AskReview, Items
  <2>2. asked' = asked \/ asked' = [asked EXCEPT ![j] = asked[j] + 1]
    BY <1>5 DEF AskReview
  <2>3. asked' \in [PaidJobs -> Nat]
    BY <1>1, <2>2
  <2>4. UNCHANGED <<due, messageLog, failures>>
    BY <1>5 DEF AskReview
  <2>5. QED BY <1>1, <2>1, <2>3, <2>4 DEF AutomationTypeOK, RunRecord, Items
<1>6. CASE AutomationFails
  <2>1. /\ auto' \in RunRecord /\ failures' = failures + 1 /\ failures < MaxFailures
        /\ UNCHANGED <<due, messageLog, asked>>
    BY <1>6 DEF AutomationFails, Ended, RunRecord
  <2>2. failures' \in 0..MaxFailures
    BY <1>1, <2>1, AutomationAssumption
  <2>3. QED BY <1>1, <2>1, <2>2 DEF AutomationTypeOK, RunRecord, Items
<1>7. ASSUME NEW i \in Items, BecomesDue(i) \/ QuoteAnswered(i) PROVE AutomationTypeOK'
  <2>1. due' \subseteq Items /\ UNCHANGED <<messageLog, auto, asked, failures>>
    BY <1>1, <1>7 DEF BecomesDue, QuoteAnswered
  <2>2. QED BY <1>1, <2>1 DEF AutomationTypeOK, RunRecord, Items
<1>8. QED BY <1>2, <1>3, <1>4, <1>5, <1>6, <1>7 DEF AutomationNext, AutomationRun, Items

\* The log, the run and its counters keep the types the code declares, whatever
\* raises and wherever.
THEOREM AutomationTypes == AutomationSpec => []AutomationTypeOK
BY AutomationInitTypes, AutomationStep, PTL DEF AutomationSpec

-----------------------------------------------------------------------------
(***************************************************************************)
(* Sums over finite sets.  Induction is on the subset order, which is well *)
(* founded: the smallest subset at which a claim about sums fails is not   *)
(* empty, and without its picked element the claim holds.                  *)
(***************************************************************************)

\* Of a set of subsets of a finite set one has no proper subset in it.
LEMMA LeastSubset ==
  ASSUME NEW S, IsFiniteSet(S), NEW T, T \subseteq SUBSET S, T # {}
  PROVE  \E s \in T : \A t \in T : t \subseteq s => t = s
<1>1. T \subseteq FiniteSubsetsOf(S)
  BY FS_Subset DEF FiniteSubsetsOf
<1>2. PICK s \in T : \A t \in T : <<t, s>> \notin StrictSubsetOrdering(S)
  BY <1>1, FS_StrictSubsetOrderingWellFounded, WFMin
<1>3. ASSUME NEW t \in T, t \subseteq s PROVE t = s
  BY <1>2, <1>3 DEF StrictSubsetOrdering
<1>4. QED BY <1>3

Pick(s) == CHOOSE x \in s : TRUE

\* g gives the partial sums of f over the subsets of S.
Sums(f, S, g) == g = [s \in SUBSET S |-> IF s = {} THEN 0 ELSE f[Pick(s)] + g[s \ {Pick(s)}]]

\* SumFunction is the value of such a function at the whole domain.
LEMMA SumUnfolds ==
  ASSUME NEW f
  PROVE  SumFunction(f) = (CHOOSE g : Sums(f, DOMAIN f, g))[DOMAIN f]
BY DEF SumFunction, SumFunctionOnSet, FoldFunctionOnSet, MapThenFoldSet, Sums, Pick

\* The picked element is one of the set.
LEMMA PickIn == \A s : s # {} => Pick(s) \in s
BY DEF Pick

\* The smallest subset at which two such functions differ is not empty, and
\* without its picked element they agree.
LEMMA SumsUnique ==
  ASSUME NEW f, NEW S, IsFiniteSet(S), NEW g, NEW h, Sums(f, S, g), Sums(f, S, h)
  PROVE  g = h
<1> DEFINE T == {s \in SUBSET S : g[s] # h[s]}
<1>1. ASSUME NEW s \in T, \A t \in T : t \subseteq s => t = s PROVE FALSE
  <2>1. g[s] = (IF s = {} THEN 0 ELSE f[Pick(s)] + g[s \ {Pick(s)}])
    BY DEF Sums
  <2>2. h[s] = (IF s = {} THEN 0 ELSE f[Pick(s)] + h[s \ {Pick(s)}])
    BY DEF Sums
  <2>3. s # {} /\ Pick(s) \in s
    BY <2>1, <2>2, PickIn
  <2>4. s \ {Pick(s)} \in SUBSET S /\ s \ {Pick(s)} \notin T
    BY <1>1, <2>3
  <2>5. g[s \ {Pick(s)}] = h[s \ {Pick(s)}]
    BY <2>4
  <2>6. QED BY <2>1, <2>2, <2>3, <2>5
<1>2. T = {}
  <2>1. T \subseteq SUBSET S
    OBVIOUS
  <2> HIDE DEF T
  <2>2. QED BY <1>1, <2>1, LeastSubset
<1>3. QED BY <1>2 DEF Sums

\* The partial sums up to a smaller set.
Part(g, s) == [t \in SUBSET s |-> g[t]]

LEMMA PartSums ==
  ASSUME NEW f, NEW S, NEW s \in SUBSET S, NEW g, Sums(f, S, g)
  PROVE  Sums(f, s, Part(g, s))
<1> DEFINE p == Part(g, s)
<1>1. \A t \in SUBSET s : p[t] = (IF t = {} THEN 0 ELSE f[Pick(t)] + p[t \ {Pick(t)}])
  BY DEF Sums, Part
<1>2. p = [t \in SUBSET s |-> p[t]]
  BY DEF Part
<1> HIDE DEF p
<1>3. Sums(f, s, p)
  BY <1>1, <1>2 DEF Sums
<1>4. QED BY <1>3 DEF p

\* The partial sums up to S come from those up to its proper subsets, which
\* agree where they overlap.
LEMMA SumsExist ==
  ASSUME NEW f, NEW S, IsFiniteSet(S)
  PROVE  \E g : Sums(f, S, g)
<1> DEFINE T == {s \in SUBSET S : ~ \E g : Sums(f, s, g)}
<1>1. ASSUME NEW s \in T, \A t \in T : t \subseteq s => t = s PROVE FALSE
  <2> DEFINE up(t) == CHOOSE g : Sums(f, t, g)
             value(t) == IF t = {} THEN 0 ELSE f[Pick(t)] + up(t \ {Pick(t)})[t \ {Pick(t)}]
             h == [t \in SUBSET s |-> value(t)]
  <2>1. ASSUME NEW t \in SUBSET s, t # s PROVE Sums(f, t, up(t)) /\ IsFiniteSet(t)
    <3>1. \E g : Sums(f, t, g)
      BY <1>1, <2>1
    <3>2. QED BY <3>1, FS_Subset
  <2>2. ASSUME NEW t \in SUBSET s, t # s, NEW u \in SUBSET t PROVE up(t)[u] = up(u)[u]
    <3>1. Sums(f, t, up(t)) /\ IsFiniteSet(t) /\ u # s /\ u \in SUBSET s
      BY <2>1, <2>2
    <3>2. Sums(f, u, up(u)) /\ IsFiniteSet(u)
      BY <2>1, <3>1
    <3> HIDE DEF up
    <3>3. Sums(f, u, Part(up(t), u))
      BY <3>1, PartSums
    <3>4. Part(up(t), u) = up(u)
      BY <3>2, <3>3, SumsUnique
    <3>5. QED BY <3>4 DEF Part
  <2>3. ASSUME NEW t \in SUBSET s, t # s PROVE h[t] = up(t)[t]
    <3>1. Sums(f, t, up(t))
      BY <2>1, <2>3
    <3> HIDE DEF up
    <3>2. up(t)[t] = (IF t = {} THEN 0 ELSE f[Pick(t)] + up(t)[t \ {Pick(t)}])
      BY <3>1 DEF Sums
    <3>3. t # {} => up(t)[t \ {Pick(t)}] = up(t \ {Pick(t)})[t \ {Pick(t)}]
      BY <2>2, <2>3
    <3>4. QED BY <3>2, <3>3
  <2>4. ASSUME NEW t \in SUBSET s
        PROVE  h[t] = (IF t = {} THEN 0 ELSE f[Pick(t)] + h[t \ {Pick(t)}])
    <3>1. h[t] = value(t)
      OBVIOUS
    <3>2. t # {} => t \ {Pick(t)} \in SUBSET s /\ t \ {Pick(t)} # s
      BY PickIn
    <3>3. t # {} => h[t \ {Pick(t)}] = up(t \ {Pick(t)})[t \ {Pick(t)}]
      BY <2>3, <3>2
    <3> HIDE DEF up, h
    <3>4. QED BY <3>1, <3>3
  <2>5. h = [t \in SUBSET s |-> h[t]]
    OBVIOUS
  <2> HIDE DEF h
  <2>6. Sums(f, s, h)
    BY <2>4, <2>5 DEF Sums
  <2>7. QED BY <2>6
<1>2. T = {}
  <2>1. T \subseteq SUBSET S
    OBVIOUS
  <2> HIDE DEF T
  <2>2. QED BY <1>1, <2>1, LeastSubset
<1>3. QED BY <1>2

\* A sum of naturals over a finite set is a natural.
LEMMA SumOfNats ==
  ASSUME NEW f, IsFiniteSet(DOMAIN f), \A x \in DOMAIN f : f[x] \in Nat
  PROVE  SumFunction(f) \in Nat
<1> DEFINE S == DOMAIN f
           g == CHOOSE g : Sums(f, S, g)
           T == {s \in SUBSET S : g[s] \notin Nat}
<1>1. Sums(f, S, g)
  BY SumsExist
<1> HIDE DEF g
<1>2. ASSUME NEW s \in T, \A t \in T : t \subseteq s => t = s PROVE FALSE
  <2>1. g[s] = (IF s = {} THEN 0 ELSE f[Pick(s)] + g[s \ {Pick(s)}])
    BY <1>1 DEF Sums
  <2>2. s # {} /\ Pick(s) \in s
    BY <2>1, PickIn
  <2>3. g[s \ {Pick(s)}] \in Nat
    BY <1>2, <2>2
  <2>4. QED BY <2>1, <2>2, <2>3
<1>3. T = {}
  <2>1. T \subseteq SUBSET S
    OBVIOUS
  <2> HIDE DEF T
  <2>2. QED BY <1>2, <2>1, LeastSubset
<1>4. QED BY <1>3, SumUnfolds DEF g

-----------------------------------------------------------------------------
(***************************************************************************)
(* Invoicing: a commit sets a job's value to the sum of the lines it       *)
(* leaves, and no step of another job touches them: what a session deletes *)
(* are lines of its own job, since the id of a deleted line is not used    *)
(* again.  An invoice is made under the write lock by a turn that saw none *)
(* of its job, and lists the lines whose sum is due.                       *)
(***************************************************************************)

IsLine(r) == r \notin {NotSaid, Removed}

\* The step's part of StatedTotalKept: what a line costs is the total stated for it.
KeepsTotal(r) ==
    (r.from.total # NotSaid /\ r.from.unit = NotSaid /\ r.from.quantity # 0 /\ r.from.listed # 0) =>
      LET off == r.quantity * r.unit - 100 * r.from.total IN
      \/ 2 * off \in (-r.unit)..r.unit
      \/ 2 * off \in (-r.quantity)..r.quantity
LinesKeepTotals == \A l \in LineIds : IsLine(lineItem[l]) => KeepsTotal(lineItem[l])

\* A line's job is there.
LinesHaveBills == \A l \in LineIds : IsLine(lineItem[l]) => bill[lineItem[l].job] # NotSaid

\* The lines an edit holds are, or were, lines of its job.
HoldsOwnLines(c) ==
    c.at = "edit" => /\ bill[c.job] # NotSaid
                     /\ \A l \in c.held : /\ lineItem[l] # NotSaid
                                          /\ IsLine(lineItem[l]) => lineItem[l].job = c.job

\* One turn has the write lock; its invoice adds up, and is the first of its
\* job that nobody forced.
AddsUp(d) == (d.listed # NotSaid /\ ~d.priced) => d.due = d.listed
HoldsInvoice(c) ==
    c.at = "invoice" =>
      /\ c.document # NotSaid /\ AddsUp(c.document)
      /\ ~c.document.forced => ~Invoiced(c.document.job)
OneTurn == \A s, t \in Clerks : clerk[s].at = "invoice" /\ clerk[t].at = "invoice" => s = t

InvoicingInv == /\ InvoicingTypeOK
                /\ ValueIsSum /\ LinesKeepTotals /\ LinesHaveBills
                /\ \A s \in Clerks : HoldsOwnLines(clerk[s]) /\ HoldsInvoice(clerk[s])
                /\ OneTurn /\ InvoicedOnce /\ DueIsListed

-----------------------------------------------------------------------------
(* Rounding *)

\* round(n / d, 2) is off by at most half a unit.
LEMMA RoundedBounds ==
  ASSUME NEW n \in Nat, NEW d \in Nat \ {0}, NEW r \in Rounded(n, d)
  PROVE  r \in Nat /\ 2 * (r * d - n) \in (-d)..d
<1> DEFINE q == n \div d
<1>1. q \in Nat
  OBVIOUS
<1>2. r \in {q, q + 1} /\ 2 * (n - r * d) <= d /\ 2 * (r * d - n) <= d
  BY DEF Rounded
<1> HIDE DEF q
<1>3. r \in Nat
  BY <1>1, <1>2
<1>4. r * d \in Nat
  BY <1>3
<1>5. 2 * (r * d - n) \in Int /\ -d <= 2 * (r * d - n) /\ 2 * (r * d - n) <= d
  BY <1>2, <1>4
<1>6. QED BY <1>3, <1>5

\* The same of a line's quantity and price, for the item s it came from.
Splits(s, x) ==
    (s.total # NotSaid /\ s.unit = NotSaid /\ s.quantity # 0 /\ s.listed # 0) =>
      LET off == x.quantity * x.unit - 100 * s.total IN
      \/ 2 * off \in (-x.unit)..x.unit
      \/ 2 * off \in (-x.quantity)..x.quantity

LEMMA ReconciledSplits ==
  ASSUME NEW s \in Item, NEW x \in Reconciled(s)
  PROVE  x.quantity \in Nat /\ x.unit \in Nat /\ Splits(s, x)
<1>1. /\ Quantities \subseteq Nat /\ UnitPrices \subseteq Nat /\ Totals \subseteq Nat
      /\ ListPrices \subseteq Nat /\ NotSaid \notin Nat
  BY InvoicingAssumption
<1>2. /\ s.quantity \in Nat /\ s.unit \in Nat \cup {NotSaid}
      /\ s.total \in Nat \cup {NotSaid} /\ s.listed \in Nat \cup {NotSaid}
  BY <1>1 DEF Item, Said, Form
<1>3. CASE s.unit # NotSaid
  <2>1. x = [quantity |-> s.quantity, unit |-> s.unit]
    BY <1>3 DEF Reconciled
  <2>2. QED BY <1>2, <1>3, <2>1 DEF Splits
<1>4. CASE s.unit = NotSaid /\ s.total = NotSaid
  <2>1. x = [quantity |-> s.quantity, unit |-> IF s.listed = NotSaid THEN 0 ELSE s.listed]
    BY <1>4 DEF Reconciled
  <2>2. QED BY <1>2, <1>4, <2>1 DEF Splits
<1>5. CASE s.unit = NotSaid /\ s.total # NotSaid /\ s.listed # NotSaid /\ s.quantity = 100
  <2>1. CASE s.listed = 0
    <3>1. x = [quantity |-> 100, unit |-> 0]
      BY <1>5, <2>1 DEF Reconciled
    <3>2. QED BY <2>1, <3>1 DEF Splits
  <2>2. CASE s.listed # 0
    <3>1. PICK q \in Rounded(100 * s.total, s.listed) : x = [quantity |-> q, unit |-> s.listed]
      BY <1>5, <2>2 DEF Reconciled
    <3>2. 100 * s.total \in Nat /\ s.listed \in Nat \ {0}
      BY <1>2, <1>5, <2>2
    <3>3. q \in Nat /\ 2 * (q * s.listed - 100 * s.total) \in (-s.listed)..s.listed
      BY <3>2, RoundedBounds
    <3>4. QED BY <3>1, <3>2, <3>3 DEF Splits
  <2>3. QED BY <2>1, <2>2
<1>6. CASE /\ s.unit = NotSaid /\ s.total # NotSaid
           /\ ~(s.listed # NotSaid /\ s.quantity = 100)
  <2>1. CASE s.quantity = 0
    <3>1. x = [quantity |-> 0, unit |-> 0]
      BY <1>6, <2>1 DEF Reconciled
    <3>2. QED BY <2>1, <3>1 DEF Splits
  <2>2. CASE s.quantity # 0
    <3>1. PICK u \in Rounded(100 * s.total, s.quantity) : x = [quantity |-> s.quantity, unit |-> u]
      BY <1>6, <2>2 DEF Reconciled
    <3>2. 100 * s.total \in Nat /\ s.quantity \in Nat \ {0}
      BY <1>2, <1>6, <2>2
    <3>3. u \in Nat /\ 2 * (u * s.quantity - 100 * s.total) \in (-s.quantity)..s.quantity
      BY <3>2, RoundedBounds
    <3>4. s.quantity * u = u * s.quantity
      BY <3>2, <3>3
    <3>5. QED BY <3>1, <3>2, <3>3, <3>4 DEF Splits
  <2>3. QED BY <2>1, <2>2
<1>7. QED BY <1>3, <1>4, <1>5, <1>6

\* A line made for an item of job j.
LEMMA RowSound ==
  ASSUME NEW j \in Bills, NEW s \in Item, NEW x \in Reconciled(s)
  PROVE  /\ Row(j, s, x) \in LineRow /\ Row(j, s, x).job = j /\ KeepsTotal(Row(j, s, x))
         /\ IsLine(Row(j, s, x))
<1>1. x.quantity \in Nat /\ x.unit \in Nat /\ Splits(s, x)
  BY ReconciledSplits
<1> DEFINE r == Row(j, s, x)
<1>2. /\ r \in LineRow /\ r.job = j /\ r.quantity = x.quantity /\ r.unit = x.unit /\ r.from = s
  BY <1>1 DEF Row, LineRow
<1> HIDE DEF r
<1>3. KeepsTotal(r)
  BY <1>1, <1>2 DEF KeepsTotal, Splits
<1>4. IsLine(r)
  BY <1>2, InvoicingRowsAssumption DEF IsLine
<1>5. QED BY <1>2, <1>3, <1>4 DEF r

\* The lines of one flush: on ids never used, one per item.
LEMMA NewLinesSound ==
  ASSUME NEW j \in Bills, NEW items \in SUBSET Item, NEW new \in NewLines(j, items)
  PROVE  /\ DOMAIN new \subseteq Free
         /\ \A l \in DOMAIN new : /\ new[l] \in LineRow /\ new[l].job = j
                                  /\ KeepsTotal(new[l]) /\ IsLine(new[l])
<1>1. PICK ids \in kSubset(Cardinality(items), Free) : new \in [ids -> RowsFor(j, items)]
  BY DEF NewLines
<1>2. ids \subseteq Free
  BY <1>1 DEF kSubset
<1>3. ASSUME NEW l \in ids
      PROVE  new[l] \in LineRow /\ new[l].job = j /\ KeepsTotal(new[l]) /\ IsLine(new[l])
  <2>1. new[l] \in RowsFor(j, items)
    BY <1>1
  <2>2. PICK s \in items : \E x \in Reconciled(s) : new[l] = Row(j, s, x)
    BY <2>1 DEF RowsFor
  <2>3. s \in Item
    OBVIOUS
  <2>4. QED BY <2>2, <2>3, RowSound
<1>4. QED BY <1>1, <1>2, <1>3

-----------------------------------------------------------------------------
(* Sums of lines *)

LineTables == [LineIds -> LineRow \cup {NotSaid, Removed}]

\* What a job's lines cost is a number.
LEMMA SumTyped == ASSUME NEW rows \in LineTables, NEW j \in Bills PROVE Sum(rows, j) \in Nat
<1> DEFINE costs == [l \in LinesOf(rows, j) |-> rows[l].quantity * rows[l].unit]
<1>1. LinesOf(rows, j) \subseteq LineIds /\ IsFiniteSet(LinesOf(rows, j))
  BY FS_Subset, InvoicingAssumption DEF LinesOf
<1>2. ASSUME NEW l \in LinesOf(rows, j) PROVE rows[l].quantity * rows[l].unit \in Nat
  <2>1. rows[l] \in LineRow
    BY DEF LinesOf, LineTables
  <2>2. rows[l].quantity \in Nat /\ rows[l].unit \in Nat
    BY <2>1 DEF LineRow
  <2>3. QED BY <2>2
<1>3. DOMAIN costs = LinesOf(rows, j) /\ \A l \in DOMAIN costs : costs[l] \in Nat
  BY <1>2
<1>4. Sum(rows, j) = SumFunction(costs)
  BY DEF Sum
<1> HIDE DEF costs
<1>5. QED BY <1>1, <1>3, <1>4, SumOfNats

LineOf(r, j) == IsLine(r) /\ r.job = j

\* It is that of the same lines in another table.
LEMMA SumKept ==
  ASSUME NEW rows \in LineTables, NEW other \in LineTables, NEW j \in Bills,
         \A l \in LineIds : (LineOf(rows[l], j) \/ LineOf(other[l], j)) => rows[l] = other[l]
  PROVE  LinesOf(other, j) = LinesOf(rows, j) /\ Sum(other, j) = Sum(rows, j)
<1>1. LinesOf(other, j) = LinesOf(rows, j)
  BY DEF LinesOf, LineOf, IsLine
<1>2. \A l \in LinesOf(rows, j) : rows[l] = other[l]
  BY DEF LinesOf, LineOf, IsLine
<1>3. [l \in LinesOf(other, j) |-> other[l].quantity * other[l].unit]
        = [l \in LinesOf(rows, j) |-> rows[l].quantity * rows[l].unit]
  BY <1>1, <1>2
<1>4. QED BY <1>1, <1>3 DEF Sum

\* A flush of job j: lines it holds of j go, new ones of j come, and its value
\* is what they cost.
LEMMA FlushSound ==
  ASSUME InvoicingInv, NEW j \in Bills, NEW items \in SUBSET Item, NEW new \in NewLines(j, items),
         NEW held \in SUBSET LineIds,
         \A l \in held : lineItem[l] # NotSaid /\ (IsLine(lineItem[l]) => lineItem[l].job = j),
         lineItem' = Replaced(lineItem, held, new),
         bill' = [bill EXCEPT ![j] = Synced(lineItem, held, new, j)],
         priced \ {j} \subseteq priced'
  PROVE  /\ bill' \in [Bills -> Nat \cup {NotSaid}] /\ bill'[j] # NotSaid
         /\ \A k \in Bills \ {j} : bill'[k] = bill[k]
         /\ lineItem' \in LineTables
         /\ \A l \in LineIds : lineItem[l] # NotSaid => lineItem'[l] \in {lineItem[l], Removed}
         /\ ValueIsSum' /\ LinesKeepTotals' /\ LinesHaveBills'
<1> DEFINE rows == lineItem'
<1>1. /\ lineItem \in LineTables /\ bill \in [Bills -> Nat \cup {NotSaid}]
      /\ ValueIsSum /\ LinesKeepTotals /\ LinesHaveBills
  BY DEF InvoicingInv, InvoicingTypeOK, LineTables
<1>2. /\ DOMAIN new \subseteq Free
      /\ \A l \in DOMAIN new : /\ new[l] \in LineRow /\ new[l].job = j
                               /\ KeepsTotal(new[l]) /\ IsLine(new[l])
  BY NewLinesSound
<1>3. rows = [l \in LineIds |-> IF l \in DOMAIN new THEN new[l]
                                ELSE IF l \in held THEN Removed ELSE lineItem[l]]
  BY DEF Replaced
<1>4. rows \in LineTables
  BY <1>1, <1>2, <1>3 DEF LineTables
<1>5. rows = lineItem'
  OBVIOUS
<1>6. bill' = [bill EXCEPT ![j] = Sum(rows, j)]
  BY DEF Synced
<1> HIDE DEF rows
<1>7. Sum(rows, j) \in Nat /\ NotSaid \notin Nat
  BY <1>4, SumTyped, InvoicingAssumption
<1>8. /\ bill' \in [Bills -> Nat \cup {NotSaid}] /\ bill'[j] = Sum(rows, j)
      /\ \A k \in Bills \ {j} : bill'[k] = bill[k]
  BY <1>1, <1>6, <1>7
<1>9. ASSUME NEW l \in LineIds
      PROVE  \/ l \in DOMAIN new /\ lineItem[l] = NotSaid /\ rows[l] = new[l]
             \/ l \in held /\ rows[l] = Removed
             \/ rows[l] = lineItem[l]
  BY <1>2, <1>3 DEF Free
<1>10. \A l \in LineIds : lineItem[l] # NotSaid => rows[l] \in {lineItem[l], Removed}
  BY <1>9
<1>11. ASSUME NEW k \in Bills, k # j
       PROVE  LinesOf(rows, k) = LinesOf(lineItem, k) /\ Sum(rows, k) = Sum(lineItem, k)
  <2>1. ASSUME NEW l \in LineIds
        PROVE  (LineOf(lineItem[l], k) \/ LineOf(rows[l], k)) => lineItem[l] = rows[l]
    BY <1>2, <1>9, <1>11 DEF LineOf, IsLine
  <2>2. QED BY <1>1, <1>4, <2>1, SumKept
<1>12. \A k \in Bills : (LinesOf(rows, k) # {} /\ k \notin priced') => bill'[k] = Sum(rows, k)
  <2> SUFFICES ASSUME NEW k \in Bills, LinesOf(rows, k) # {}, k \notin priced'
               PROVE  bill'[k] = Sum(rows, k)
    OBVIOUS
  <2>1. CASE k = j
    BY <1>8, <2>1
  <2>2. CASE k # j
    <3>1. LinesOf(rows, k) = LinesOf(lineItem, k) /\ Sum(rows, k) = Sum(lineItem, k)
      BY <1>11, <2>2
    <3>2. bill[k] = Sum(lineItem, k)
      BY <1>1, <2>2, <3>1 DEF ValueIsSum
    <3>3. QED BY <1>8, <2>2, <3>1, <3>2
  <2>3. QED BY <2>1, <2>2
<1>13. \A l \in LineIds : IsLine(rows[l]) => KeepsTotal(rows[l]) /\ bill'[rows[l].job] # NotSaid
  <2> SUFFICES ASSUME NEW l \in LineIds, IsLine(rows[l])
               PROVE  KeepsTotal(rows[l]) /\ bill'[rows[l].job] # NotSaid
    OBVIOUS
  <2>1. CASE rows[l] = lineItem[l]
    <3>1. KeepsTotal(lineItem[l]) /\ bill[lineItem[l].job] # NotSaid
      BY <1>1, <2>1 DEF LinesKeepTotals, LinesHaveBills
    <3>2. lineItem[l].job \in Bills
      BY <1>1, <2>1 DEF LineTables, IsLine, LineRow
    <3>3. QED BY <1>7, <1>8, <2>1, <3>1, <3>2
  <2>2. CASE l \in DOMAIN new /\ rows[l] = new[l]
    BY <1>2, <1>7, <1>8, <2>2
  <2>3. rows[l] # Removed
    BY DEF IsLine
  <2>4. QED BY <1>9, <2>1, <2>2, <2>3
<1>14. ValueIsSum' /\ LinesKeepTotals' /\ LinesHaveBills'
  BY <1>12, <1>13 DEF ValueIsSum, LinesKeepTotals, LinesHaveBills, rows
<1>15. QED BY <1>4, <1>7, <1>8, <1>10, <1>14 DEF rows

-----------------------------------------------------------------------------
(* Sessions *)

LEMMA NoClerkTyped == NoClerk \in ClerkRecord /\ NoClerk.at = "idle"
<1>1. (CHOOSE j \in Bills : TRUE) \in Bills
  BY InvoicingAssumption
<1>2. QED BY <1>1 DEF NoClerk, ClerkRecord

LEMMA SaleCounts == ASSUME InvoicingInv, Sale PROVE sales' \in 0..MaxSales
BY InvoicingAssumption DEF InvoicingInv, InvoicingTypeOK, Sale

\* What a session holds is untouched by a step that removes no job and changes
\* lines only by deleting them.
LEMMA ClerkHolds ==
  ASSUME NEW c \in ClerkRecord, HoldsOwnLines(c), HoldsInvoice(c), UNCHANGED invoice,
         \A k \in Bills : bill[k] # NotSaid => bill'[k] # NotSaid,
         \A l \in LineIds : lineItem[l] # NotSaid => lineItem'[l] \in {lineItem[l], Removed}
  PROVE  HoldsOwnLines(c)' /\ HoldsInvoice(c)'
<1>1. c.job \in Bills /\ c.held \subseteq LineIds
  BY DEF ClerkRecord
<1>2. HoldsOwnLines(c)'
  BY <1>1, InvoicingAssumption DEF HoldsOwnLines, IsLine
<1>3. HoldsInvoice(c)'
  BY DEF HoldsInvoice, AddsUp, Invoiced
<1>4. QED BY <1>2, <1>3

\* A step that changes jobs and lines, and no session but one it ends.
LEMMA TablesChange ==
  ASSUME InvoicingInv, NEW S \in SUBSET Clerks,
         clerk' = [s \in Clerks |-> IF s \in S THEN NoClerk ELSE clerk[s]], UNCHANGED invoice,
         bill' \in [Bills -> Nat \cup {NotSaid}], lineItem' \in LineTables, priced' \subseteq Bills,
         sales' \in 0..MaxSales, ValueIsSum', LinesKeepTotals', LinesHaveBills',
         \A k \in Bills : bill[k] # NotSaid => bill'[k] # NotSaid,
         \A l \in LineIds : lineItem[l] # NotSaid => lineItem'[l] \in {lineItem[l], Removed}
  PROVE  InvoicingInv'
<1>1. /\ InvoicingTypeOK /\ OneTurn /\ InvoicedOnce /\ DueIsListed
      /\ \A s \in Clerks : HoldsOwnLines(clerk[s]) /\ HoldsInvoice(clerk[s])
      /\ clerk \in [Clerks -> ClerkRecord]
  BY DEF InvoicingInv, InvoicingTypeOK
<1> DEFINE new == clerk'
<1>2. /\ new \in [Clerks -> ClerkRecord]
      /\ \A s \in Clerks : new[s] = clerk[s] \/ new[s] = NoClerk
  BY <1>1, NoClerkTyped
<1>3. new = clerk'
  OBVIOUS
<1> HIDE DEF new
<1>4. InvoicingTypeOK'
  BY <1>1, <1>2, <1>3 DEF InvoicingTypeOK, LineTables
<1>5. ASSUME NEW s \in Clerks PROVE (HoldsOwnLines(clerk[s]) /\ HoldsInvoice(clerk[s]))'
  <2>1. CASE new[s] = NoClerk
    BY <1>3, <2>1, NoClerkTyped DEF HoldsOwnLines, HoldsInvoice
  <2>2. CASE new[s] = clerk[s]
    <3> DEFINE c == clerk[s]
    <3>1. c \in ClerkRecord /\ HoldsOwnLines(c) /\ HoldsInvoice(c)
      BY <1>1
    <3> HIDE DEF c
    <3>2. PICK d \in ClerkRecord : d = c
      BY <3>1
    <3>3. HoldsOwnLines(d)' /\ HoldsInvoice(d)'
      BY <3>1, <3>2, ClerkHolds
    <3>4. clerk'[s] = d
      BY <1>3, <2>2, <3>2 DEF c
    <3>5. QED BY <3>3, <3>4 DEF HoldsOwnLines, HoldsInvoice
  <2>3. QED BY <1>2, <2>1, <2>2
<1>6. OneTurn'
  BY <1>1, <1>2, <1>3, NoClerkTyped DEF OneTurn
<1>7. InvoicedOnce' /\ DueIsListed'
  BY <1>1 DEF InvoicedOnce, DueIsListed
<1>8. QED BY <1>4, <1>5, <1>6, <1>7 DEF InvoicingInv

LEMMA CreateBillStep ==
  ASSUME InvoicingInv, NEW j \in Bills, NEW i \in Item, CreateBill(j, {i}) PROVE InvoicingInv'
<1>1. PICK new \in NewLines(j, {i}) : /\ lineItem' = Replaced(lineItem, {}, new)
                                      /\ bill' = [bill EXCEPT ![j] = Synced(lineItem, {}, new, j)]
  BY DEF CreateBill
<1>2. {i} \in SUBSET Item /\ {} \in SUBSET LineIds /\ priced \ {j} \subseteq priced'
  BY DEF CreateBill
<1>3. /\ bill' \in [Bills -> Nat \cup {NotSaid}] /\ bill'[j] # NotSaid
      /\ \A k \in Bills \ {j} : bill'[k] = bill[k]
      /\ lineItem' \in LineTables
      /\ \A l \in LineIds : lineItem[l] # NotSaid => lineItem'[l] \in {lineItem[l], Removed}
      /\ ValueIsSum' /\ LinesKeepTotals' /\ LinesHaveBills'
  BY <1>1, <1>2, FlushSound
<1>4. \A k \in Bills : bill[k] # NotSaid => bill'[k] # NotSaid
  BY <1>3
<1>5. clerk \in [Clerks -> ClerkRecord] /\ priced' \subseteq Bills
  BY DEF CreateBill, InvoicingInv, InvoicingTypeOK
<1>6. clerk' = clerk /\ UNCHANGED invoice
  BY DEF CreateBill
<1> DEFINE ends == {}
<1>7. clerk' = [s \in Clerks |-> IF s \in ends THEN NoClerk ELSE clerk[s]] /\ ends \in SUBSET Clerks
  BY <1>5, <1>6
<1>8. sales' \in 0..MaxSales
  BY SaleCounts DEF CreateBill
<1> HIDE DEF ends
<1>9. QED BY <1>3, <1>4, <1>5, <1>6, <1>7, <1>8, TablesChange

LEMMA EditBillCommitStep ==
  ASSUME InvoicingInv, NEW s \in Clerks, EditBillCommit(s) PROVE InvoicingInv'
<1> DEFINE c == clerk[s]
           j == c.job
           held == c.held
           items == c.items
<1>1. /\ c \in ClerkRecord /\ c.at = "edit" /\ HoldsOwnLines(c) /\ clerk \in [Clerks -> ClerkRecord]
      /\ priced \subseteq Bills /\ sales \in 0..MaxSales
  BY DEF EditBillCommit, InvoicingInv, InvoicingTypeOK
<1>2. j \in Bills /\ held \in SUBSET LineIds /\ items \in SUBSET Item
  BY <1>1 DEF ClerkRecord, Item
<1>3. PICK new \in NewLines(j, items) : /\ lineItem' = Replaced(lineItem, held, new)
                                        /\ bill' = [bill EXCEPT ![j] = Synced(lineItem, held, new, j)]
  BY DEF EditBillCommit
<1>4. /\ clerk' = [clerk EXCEPT ![s] = NoClerk] /\ priced' = priced \ {j}
      /\ UNCHANGED invoice /\ sales' = sales
  BY DEF EditBillCommit
<1>5. \A l \in held : lineItem[l] # NotSaid /\ (IsLine(lineItem[l]) => lineItem[l].job = j)
  BY <1>1 DEF HoldsOwnLines
<1>6. clerk' = [t \in Clerks |-> IF t \in {s} THEN NoClerk ELSE clerk[t]]
  BY <1>1, <1>4
<1> HIDE DEF c, j, held, items
<1>7. priced \ {j} \subseteq priced'
  BY <1>4
<1>8. /\ bill' \in [Bills -> Nat \cup {NotSaid}] /\ bill'[j] # NotSaid
      /\ \A k \in Bills \ {j} : bill'[k] = bill[k]
      /\ lineItem' \in LineTables
      /\ \A l \in LineIds : lineItem[l] # NotSaid => lineItem'[l] \in {lineItem[l], Removed}
      /\ ValueIsSum' /\ LinesKeepTotals' /\ LinesHaveBills'
  BY <1>2, <1>3, <1>5, <1>7, FlushSound
<1>9. \A k \in Bills : bill[k] # NotSaid => bill'[k] # NotSaid
  BY <1>8
<1>10. priced' \subseteq Bills /\ sales' \in 0..MaxSales /\ UNCHANGED invoice /\ {s} \in SUBSET Clerks
  BY <1>1, <1>4
<1>11. QED BY <1>6, <1>8, <1>9, <1>10, TablesChange

\* A value that is set: by a new job without items, or beside its lines.
LEMMA ValueSet ==
  ASSUME InvoicingInv, NEW j \in Bills, NEW price \in Totals, Sale,
         bill' = [bill EXCEPT ![j] = 100 * price], UNCHANGED <<lineItem, invoice, clerk>>,
         priced' \subseteq Bills, priced \subseteq priced',
         LinesOf(lineItem, j) = {} \/ j \in priced'
  PROVE  InvoicingInv'
<1>1. /\ clerk \in [Clerks -> ClerkRecord] /\ bill \in [Bills -> Nat \cup {NotSaid}]
      /\ lineItem \in LineTables /\ ValueIsSum /\ LinesKeepTotals /\ LinesHaveBills
  BY DEF InvoicingInv, InvoicingTypeOK, LineTables
<1>2. 100 * price \in Nat /\ NotSaid \notin Nat
  BY InvoicingAssumption
<1>3. /\ bill' \in [Bills -> Nat \cup {NotSaid}] /\ bill'[j] # NotSaid
      /\ \A k \in Bills \ {j} : bill'[k] = bill[k]
  BY <1>1, <1>2
<1>4. lineItem' = lineItem
  OBVIOUS
<1>5. ValueIsSum'
  BY <1>1, <1>3, <1>4 DEF ValueIsSum
<1>6. LinesKeepTotals' /\ LinesHaveBills'
  <2>1. \A l \in LineIds : IsLine(lineItem[l]) => lineItem[l].job \in Bills
    BY <1>1 DEF LineTables, IsLine, LineRow
  <2>2. QED BY <1>1, <1>3, <1>4, <2>1 DEF LinesKeepTotals, LinesHaveBills
<1> DEFINE ends == {}
<1>7. clerk' = [s \in Clerks |-> IF s \in ends THEN NoClerk ELSE clerk[s]] /\ ends \in SUBSET Clerks
  BY <1>1
<1>8. \A k \in Bills : bill[k] # NotSaid => bill'[k] # NotSaid
  BY <1>3
<1>9. /\ lineItem' \in LineTables /\ UNCHANGED invoice
      /\ \A l \in LineIds : lineItem[l] # NotSaid => lineItem'[l] \in {lineItem[l], Removed}
  BY <1>1, <1>4
<1>10. sales' \in 0..MaxSales
  BY SaleCounts
<1> HIDE DEF ends
<1>11. QED BY <1>1, <1>3, <1>5, <1>6, <1>7, <1>8, <1>9, <1>10, TablesChange

LEMMA CreatePlainBillStep ==
  ASSUME InvoicingInv, NEW j \in Bills, NEW price \in Totals, CreatePlainBill(j, price)
  PROVE  InvoicingInv'
<1>1. LinesHaveBills /\ priced \subseteq Bills
  BY DEF InvoicingInv, InvoicingTypeOK
<1>2. LinesOf(lineItem, j) = {}
  BY <1>1 DEF CreatePlainBill, LinesHaveBills, LinesOf, IsLine
<1>3. /\ bill' = [bill EXCEPT ![j] = 100 * price] /\ UNCHANGED <<lineItem, invoice, clerk>>
      /\ priced' = priced /\ Sale
  BY DEF CreatePlainBill
<1>4. priced \subseteq priced' /\ priced' \subseteq Bills
  BY <1>1, <1>3
<1>5. QED BY <1>2, <1>3, <1>4, ValueSet

LEMMA SetPriceStep ==
  ASSUME InvoicingInv, NEW j \in Bills, NEW price \in Totals, SetPrice(j, price)
  PROVE  InvoicingInv'
<1>1. priced \subseteq Bills
  BY DEF InvoicingInv, InvoicingTypeOK
<1>2. /\ bill' = [bill EXCEPT ![j] = 100 * price] /\ UNCHANGED <<lineItem, invoice, clerk>>
      /\ priced' = priced \cup {j} /\ Sale
  BY DEF SetPrice
<1>3. priced \subseteq priced' /\ priced' \subseteq Bills /\ j \in priced'
  BY <1>1, <1>2
<1>4. QED BY <1>2, <1>3, ValueSet

\* What a session comes to hold, when nothing but its turn changes.
LEMMA ClerkTurns ==
  ASSUME InvoicingInv, NEW s \in Clerks, NEW c \in ClerkRecord,
         clerk' = [clerk EXCEPT ![s] = c], UNCHANGED <<bill, lineItem, invoice, priced>>,
         sales' \in 0..MaxSales, HoldsOwnLines(c), HoldsInvoice(c), c.at = "invoice" => NoTurn
  PROVE  InvoicingInv'
<1>1. /\ InvoicingTypeOK /\ ValueIsSum /\ LinesKeepTotals /\ LinesHaveBills
      /\ OneTurn /\ InvoicedOnce /\ DueIsListed
      /\ \A t \in Clerks : HoldsOwnLines(clerk[t]) /\ HoldsInvoice(clerk[t])
      /\ clerk \in [Clerks -> ClerkRecord]
  BY DEF InvoicingInv, InvoicingTypeOK
<1>2. bill' = bill /\ lineItem' = lineItem /\ invoice' = invoice /\ priced' = priced
  OBVIOUS
<1> DEFINE new == clerk'
<1>3. new \in [Clerks -> ClerkRecord] /\ new[s] = c /\ \A t \in Clerks \ {s} : new[t] = clerk[t]
  BY <1>1
<1>4. new = clerk'
  OBVIOUS
<1> HIDE DEF new
<1>5. InvoicingTypeOK'
  BY <1>1, <1>2, <1>3, <1>4 DEF InvoicingTypeOK
<1>6. ASSUME NEW t \in Clerks PROVE (HoldsOwnLines(clerk[t]) /\ HoldsInvoice(clerk[t]))'
  <2>1. HoldsOwnLines(new[t]) /\ HoldsInvoice(new[t])
    BY <1>1, <1>3
  <2>2. QED BY <1>2, <1>4, <2>1 DEF HoldsOwnLines, HoldsInvoice, AddsUp, Invoiced
<1>7. OneTurn'
  BY <1>1, <1>3, <1>4 DEF OneTurn, NoTurn
<1>8. /\ ValueIsSum' /\ LinesKeepTotals' /\ LinesHaveBills'
      /\ InvoicedOnce' /\ DueIsListed'
  BY <1>1, <1>2 DEF ValueIsSum, LinesKeepTotals, LinesHaveBills, InvoicedOnce, DueIsListed
<1>9. QED BY <1>5, <1>6, <1>7, <1>8 DEF InvoicingInv

LEMMA EditBillReadStep ==
  ASSUME InvoicingInv, NEW s \in Clerks, NEW j \in Bills, NEW items \in SUBSET Form,
         EditBillRead(s, j, items)
  PROVE  InvoicingInv'
<1> DEFINE c == [NoClerk EXCEPT !.at = "edit", !.job = j, !.items = items,
                                !.held = LinesOf(lineItem, j)]
<1>1. LinesOf(lineItem, j) \in SUBSET LineIds
  BY DEF LinesOf
<1>2. /\ c \in ClerkRecord /\ c.at = "edit" /\ c.job = j /\ c.held = LinesOf(lineItem, j)
  BY <1>1, NoClerkTyped DEF ClerkRecord
<1>3. clerk' = [clerk EXCEPT ![s] = c] /\ UNCHANGED <<bill, lineItem, invoice, priced>>
  BY DEF EditBillRead
<1> HIDE DEF c
<1>4. HoldsOwnLines(c)
  BY <1>2 DEF HoldsOwnLines, LinesOf, IsLine, EditBillRead
<1>5. HoldsInvoice(c) /\ c.at # "invoice"
  BY <1>2 DEF HoldsInvoice
<1>6. sales' \in 0..MaxSales
  BY SaleCounts DEF EditBillRead
<1>7. QED BY <1>2, <1>3, <1>4, <1>5, <1>6, ClerkTurns

LEMMA SendInvoiceStep ==
  ASSUME InvoicingInv, NEW s \in Clerks, NEW j \in Bills, NEW forced \in BOOLEAN,
         SendInvoice(s, j, forced)
  PROVE  InvoicingInv'
<1> DEFINE d == Billed(j, forced)
<1>1. lineItem \in LineTables /\ bill \in [Bills -> Nat \cup {NotSaid}] /\ ValueIsSum
  BY DEF InvoicingInv, InvoicingTypeOK, LineTables
<1>2. bill[j] \in Nat
  BY <1>1 DEF SendInvoice
<1>3. Sum(lineItem, j) \in Nat
  BY <1>1, SumTyped
<1>4. /\ d \in Invoice /\ d.job = j /\ d.forced = forced /\ d.priced = (j \in priced)
      /\ d.due = bill[j]
      /\ d.listed = IF LinesOf(lineItem, j) = {} THEN NotSaid ELSE Sum(lineItem, j)
  BY <1>2, <1>3 DEF Billed, Invoice
<1> DEFINE c == [NoClerk EXCEPT !.at = "invoice", !.job = j, !.document = d]
<1>5. clerk' = [clerk EXCEPT ![s] = c] /\ UNCHANGED <<bill, lineItem, invoice, priced>>
  BY DEF SendInvoice
<1> HIDE DEF d
<1>6. c \in ClerkRecord /\ c.at = "invoice" /\ c.document = d
  BY <1>4, NoClerkTyped DEF ClerkRecord
<1> HIDE DEF c
<1>7. AddsUp(d)
  BY <1>1, <1>4 DEF AddsUp, ValueIsSum
<1>8. d # NotSaid
  BY <1>4, InvoicingRowsAssumption
<1>9. ~d.forced => ~Invoiced(d.job)
  BY <1>4 DEF SendInvoice
<1>10. HoldsInvoice(c)
  BY <1>6, <1>7, <1>8, <1>9 DEF HoldsInvoice
<1>11. HoldsOwnLines(c)
  BY <1>6 DEF HoldsOwnLines
<1>12. sales' \in 0..MaxSales /\ NoTurn
  BY SaleCounts DEF SendInvoice, MayInvoice
<1>13. QED BY <1>5, <1>6, <1>10, <1>11, <1>12, ClerkTurns

LEMMA ClerkFailsStep ==
  ASSUME InvoicingInv, NEW s \in Clerks, ClerkFails(s) PROVE InvoicingInv'
<1>1. HoldsOwnLines(NoClerk) /\ HoldsInvoice(NoClerk) /\ NoClerk.at # "invoice"
  BY NoClerkTyped DEF HoldsOwnLines, HoldsInvoice
<1>2. sales' \in 0..MaxSales
  BY DEF ClerkFails, InvoicingInv, InvoicingTypeOK
<1>3. clerk' = [clerk EXCEPT ![s] = NoClerk] /\ UNCHANGED <<bill, lineItem, invoice, priced>>
  BY DEF ClerkFails
<1>4. QED BY <1>1, <1>2, <1>3, NoClerkTyped, ClerkTurns

\* The turn that commits was the only one, and its job's first if nobody forced it.
LEMMA InvoiceCommitStep ==
  ASSUME InvoicingInv, NEW s \in Clerks, InvoiceCommit(s) PROVE InvoicingInv'
<1>1. /\ InvoicingTypeOK /\ ValueIsSum /\ LinesKeepTotals /\ LinesHaveBills
      /\ OneTurn /\ InvoicedOnce /\ DueIsListed
      /\ \A t \in Clerks : HoldsOwnLines(clerk[t]) /\ HoldsInvoice(clerk[t])
      /\ clerk \in [Clerks -> ClerkRecord] /\ invoice \in [InvoiceIds -> Invoice \cup {NotSaid}]
  BY DEF InvoicingInv, InvoicingTypeOK
<1> DEFINE d == clerk[s].document
<1>2. clerk[s].at = "invoice" /\ d \in Invoice \cup {NotSaid}
  BY <1>1 DEF InvoiceCommit, ClerkRecord
<1>3. /\ d \in Invoice /\ d # NotSaid /\ AddsUp(d)
      /\ ~d.forced => ~Invoiced(d.job)
  BY <1>1, <1>2 DEF HoldsInvoice
<1>4. PICK i \in InvoiceIds : invoice[i] = NotSaid /\ invoice' = [invoice EXCEPT ![i] = d]
  BY DEF InvoiceCommit
<1>5. /\ clerk' = [clerk EXCEPT ![s] = NoClerk] /\ bill' = bill /\ lineItem' = lineItem
      /\ priced' = priced /\ sales' = sales
  BY DEF InvoiceCommit
<1> HIDE DEF d
<1> DEFINE rows == invoice'
           new == clerk'
<1>6. rows \in [InvoiceIds -> Invoice \cup {NotSaid}] /\ rows[i] = d
      /\ \A k \in InvoiceIds \ {i} : rows[k] = invoice[k]
  BY <1>1, <1>3, <1>4
<1>7. new \in [Clerks -> ClerkRecord] /\ new[s] = NoClerk
      /\ \A t \in Clerks \ {s} : new[t] = clerk[t]
  BY <1>1, <1>5, NoClerkTyped
<1>8. rows = invoice' /\ new = clerk'
  OBVIOUS
<1> HIDE DEF rows, new
<1>9. InvoicingTypeOK'
  BY <1>1, <1>5, <1>6, <1>7, <1>8 DEF InvoicingTypeOK
<1>10. ASSUME NEW t \in Clerks PROVE new[t].at # "invoice"
  BY <1>1, <1>2, <1>7, NoClerkTyped DEF OneTurn
<1>11. ASSUME NEW t \in Clerks PROVE (HoldsOwnLines(clerk[t]) /\ HoldsInvoice(clerk[t]))'
  <2>1. HoldsOwnLines(new[t])
    BY <1>1, <1>7, NoClerkTyped DEF HoldsOwnLines
  <2>2. HoldsOwnLines(clerk[t])'
    BY <1>5, <1>8, <2>1 DEF HoldsOwnLines
  <2>3. HoldsInvoice(clerk[t])'
    BY <1>8, <1>10 DEF HoldsInvoice
  <2>4. QED BY <2>2, <2>3
<1>12. OneTurn'
  BY <1>8, <1>10 DEF OneTurn
<1>13. InvoicedOnce'
  <2>1. ASSUME NEW k \in InvoiceIds, k # i, invoice[k] # NotSaid, invoice[k].job = d.job
        PROVE  d.forced
    BY <1>3, <2>1 DEF Invoiced
  <2>2. QED BY <1>1, <1>6, <1>8, <2>1 DEF InvoicedOnce
<1>14. DueIsListed'
  BY <1>1, <1>3, <1>6, <1>8 DEF DueIsListed, AddsUp
<1>15. ValueIsSum' /\ LinesKeepTotals' /\ LinesHaveBills'
  BY <1>1, <1>5 DEF ValueIsSum, LinesKeepTotals, LinesHaveBills
<1>16. QED BY <1>9, <1>11, <1>12, <1>13, <1>14, <1>15 DEF InvoicingInv

LEMMA InvoicingInitInv == InvoicingInit => InvoicingInv
<1> SUFFICES ASSUME InvoicingInit PROVE InvoicingInv
  OBVIOUS
<1>1. /\ bill = [j \in Bills |-> NotSaid] /\ lineItem = [l \in LineIds |-> NotSaid]
      /\ invoice = [i \in InvoiceIds |-> NotSaid] /\ clerk = [s \in Clerks |-> NoClerk]
      /\ priced = {} /\ sales = 0
  BY DEF InvoicingInit
<1>2. InvoicingTypeOK
  BY <1>1, NoClerkTyped, InvoicingAssumption DEF InvoicingTypeOK
<1>3. \A j \in Bills : LinesOf(lineItem, j) = {}
  BY <1>1 DEF LinesOf
<1>4. ValueIsSum
  BY <1>3 DEF ValueIsSum
<1>5. LinesKeepTotals /\ LinesHaveBills
  BY <1>1 DEF LinesKeepTotals, LinesHaveBills, IsLine
<1>6. \A s \in Clerks : clerk[s].at = "idle"
  BY <1>1, NoClerkTyped
<1>7. /\ \A s \in Clerks : HoldsOwnLines(clerk[s]) /\ HoldsInvoice(clerk[s])
      /\ OneTurn
  BY <1>6 DEF HoldsOwnLines, HoldsInvoice, OneTurn
<1>8. InvoicedOnce /\ DueIsListed
  BY <1>1 DEF InvoicedOnce, DueIsListed
<1>9. QED BY <1>2, <1>4, <1>5, <1>7, <1>8 DEF InvoicingInv

LEMMA InvoicingStep == InvoicingInv /\ [InvoicingNext]_invoicingVars => InvoicingInv'
<1> SUFFICES ASSUME InvoicingInv, [InvoicingNext]_invoicingVars PROVE InvoicingInv'
  OBVIOUS
<1>1. ASSUME NEW j \in Bills, NEW i \in Item, CreateBill(j, {i}) PROVE InvoicingInv'
  BY <1>1, CreateBillStep
<1>2. ASSUME NEW j \in Bills, NEW p \in Totals, CreatePlainBill(j, p) PROVE InvoicingInv'
  BY <1>2, CreatePlainBillStep
<1>3. ASSUME NEW j \in Bills, NEW p \in Totals, SetPrice(j, p) PROVE InvoicingInv'
  BY <1>3, SetPriceStep
<1>4. ASSUME NEW j \in Bills, NEW s \in Clerks, NEW items \in SUBSET Form, EditBillRead(s, j, items)
      PROVE  InvoicingInv'
  BY <1>4, EditBillReadStep
<1>5. ASSUME NEW j \in Bills, NEW s \in Clerks, NEW forced \in BOOLEAN, SendInvoice(s, j, forced)
      PROVE  InvoicingInv'
  BY <1>5, SendInvoiceStep
<1>6. ASSUME NEW s \in Clerks, EditBillCommit(s) PROVE InvoicingInv'
  BY <1>6, EditBillCommitStep
<1>7. ASSUME NEW s \in Clerks, InvoiceCommit(s) PROVE InvoicingInv'
  BY <1>7, InvoiceCommitStep
<1>8. ASSUME NEW s \in Clerks, ClerkFails(s) PROVE InvoicingInv'
  BY <1>8, ClerkFailsStep
<1>9. CASE UNCHANGED invoicingVars
  BY <1>9 DEF invoicingVars, InvoicingInv, InvoicingTypeOK, ValueIsSum, LinesKeepTotals,
     LinesHaveBills, HoldsOwnLines, HoldsInvoice, AddsUp, Invoiced, OneTurn, InvoicedOnce,
     DueIsListed
<1>10. QED BY <1>1, <1>2, <1>3, <1>4, <1>5, <1>6, <1>7, <1>8, <1>9 DEF InvoicingNext

\* What holds of jobs, lines, invoices and the sessions that write them.
THEOREM InvoicingInvariant == InvoicingSpec => []InvoicingInv
BY InvoicingInitInv, InvoicingStep, PTL DEF InvoicingSpec

\* Rows and sessions have the columns the code declares.
THEOREM InvoicingTypes == InvoicingSpec => []InvoicingTypeOK
<1>1. InvoicingInv => InvoicingTypeOK
  BY DEF InvoicingInv
<1>2. QED BY <1>1, InvoicingInvariant, PTL

LEMMA InvoicingBills == InvoicingInv => BillsHold
<1>1. LinesKeepTotals => StatedTotalKept
  BY DEF LinesKeepTotals, KeepsTotal, IsLine, StatedTotalKept
<1>2. QED BY <1>1 DEF InvoicingInv, BillsHold

\* "If line items exist, they define the value"; a stated total is what its line
\* costs, up to rounding; a job has one invoice nobody forced, and what is due on
\* an invoice is what it lists, unless a price was set beside the lines.
THEOREM BillsAddUp == InvoicingSpec => []BillsHold
BY InvoicingBills, InvoicingInvariant, PTL

-----------------------------------------------------------------------------
(* The four of them side by side, as MCSales runs them *)

PartsInv == SalesInv /\ AutomationTypeOK /\ InvoicingInv /\ MessagingInv

\* Each module's invariant is kept by its own steps and those beside it.
LEMMA PartsStep == PartsInv /\ [MCNext]_mcVars => PartsInv'
<1> SUFFICES ASSUME PartsInv, [MCNext]_mcVars
             PROVE  SalesInv' /\ AutomationTypeOK' /\ InvoicingInv' /\ MessagingInv'
  BY DEF PartsInv
<1>1. /\ [SalesNext]_vars /\ [AutomationNext]_autoVars
      /\ [InvoicingNext]_invoicingVars /\ [Next]_messagingVars
  BY DEF MCNext, OfSales, OfAutomation, OfInvoicing, OfMessaging, mcVars
<1>2. SalesInv'
  BY <1>1, SalesStep DEF PartsInv
<1>3. AutomationTypeOK'
  BY <1>1, AutomationStep DEF PartsInv
<1>4. InvoicingInv'
  BY <1>1, InvoicingStep DEF PartsInv
<1>5. MessagingInv'
  BY <1>1, MessagingStep DEF PartsInv
<1>6. QED BY <1>2, <1>3, <1>4, <1>5

\* Every invariant of the run sales: the four modules keep their types side by
\* side, and what each promises of its rows holds beside the steps of the others.
THEOREM PartsKeepInvariants ==
  MCSpec => [](/\ TypesOK /\ QuoteJobsMatch /\ BillsHold
               /\ AtMostOneAttempt /\ Accounted /\ BilledExactlyWhenSent /\ QuietWhenDown)
<1>1. MCInit => PartsInv
  BY SalesInitially, AutomationInitTypes, InvoicingInitInv, MessagingInit DEF MCInit, PartsInv
<1>2. PartsInv => TypesOK
  BY DEF PartsInv, SalesInv, InvoicingInv, MessagingInv, TypesOK
<1>3. PartsInv => QuoteJobsMatch /\ BillsHold
  BY InvoicingBills DEF PartsInv, SalesInv, QuotesAndJobs
<1>4. MessagingInv => AtMostOneAttempt /\ Accounted /\ BilledExactlyWhenSent /\ QuietWhenDown
  BY DEF MessagingInv, LifeAgrees
<1>5. PartsInv => /\ TypesOK /\ QuoteJobsMatch /\ BillsHold
                  /\ AtMostOneAttempt /\ Accounted /\ BilledExactlyWhenSent /\ QuietWhenDown
  BY <1>2, <1>3, <1>4 DEF PartsInv
<1>6. QED BY <1>1, <1>5, PartsStep, PTL DEF MCSpec

=============================================================================
