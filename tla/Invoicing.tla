------------------------------ MODULE Invoicing ------------------------------
(***************************************************************************)
(* What a job costs: the line items a chat message or a web form gives it  *)
(* (services/inference_service, create_job and update_job of crm_service), *)
(* the job's value that a mapper event keeps at their sum, and the         *)
(* invoices made of it (services/invoice_service).                         *)
(*                                                                         *)
(* Quantities are hundredths and prices cents, as round(x, 2) leaves them; *)
(* a product of the two, which the code does not round, is what a line     *)
(* costs.  A chat turn holds the write lock from its first flush to its    *)
(* commit; a web request has it only while it commits.                     *)
(***************************************************************************)
EXTENDS Integers, FiniteSetsExt

CONSTANTS
    Bills,                           \* jobs
    LineIds, InvoiceIds,
    Clerks,                          \* chat turns and web requests
    Quantities, UnitPrices, Totals,  \* what people state
    ListPrices,                      \* prices of catalogue services
    NotSaid,                         \* None, NULL and no row
    Removed,                         \* a deleted row
    MaxSales                         \* bound: operations begun

ASSUME InvoicingAssumption ==
    /\ Quantities \cup UnitPrices \cup Totals \cup ListPrices \subseteq Nat
    /\ NotSaid \notin Nat \cup Bills /\ Removed # NotSaid
    /\ MaxSales \in Nat
    /\ Bills # {} /\ IsFiniteSet(LineIds)

VARIABLES
    bill,      \* jobs table: value
    lineItem,  \* line_items table
    invoice,   \* invoices table
    clerk,     \* what each session is doing
    priced,    \* history: jobs whose value was last set to a price beside their lines
    sales      \* operations begun so far

invoicingVars == <<bill, lineItem, invoice, clerk, priced, sales>>

-----------------------------------------------------------------------------
(* Line items *)

\* An item as the model understood a message, with the list price of the
\* service it matches, and as a form sends it.
Said == [quantity : Quantities, unit : UnitPrices \cup {NotSaid},
         total : Totals \cup {NotSaid}, listed : ListPrices \cup {NotSaid}]
Form == [quantity : Quantities, unit : UnitPrices, total : {NotSaid}, listed : {NotSaid}]
Item == Said \cup Form

LineRow == [job : Bills, quantity : Nat, unit : Nat, from : Item]

\* round(n / d, 2): a nearest integer, either one when there are two.
Rounded(n, d) == LET q == n \div d IN
                 {r \in {q, q + 1} : 2 * (n - r * d) <= d /\ 2 * (r * d - n) <= d}

\* Mutant of Reconciled: the list price fills the gap and the quantity stays.
ListPriceOnly(s) ==
    {[quantity |-> s.quantity,
      unit |-> IF s.unit # NotSaid THEN s.unit ELSE IF s.listed # NotSaid THEN s.listed ELSE 0]}

\* infer_line_items: the quantity and the unit price that a stated total, or the
\* catalogue, suggests for what was not stated.
Reconciled(s) ==
    IF s.unit # NotSaid THEN {[quantity |-> s.quantity, unit |-> s.unit]}
    ELSE IF s.total = NotSaid
    THEN {[quantity |-> s.quantity, unit |-> IF s.listed = NotSaid THEN 0 ELSE s.listed]}
    ELSE IF s.listed # NotSaid /\ s.quantity = 100
    THEN IF s.listed = 0 THEN {[quantity |-> 100, unit |-> 0]}
         ELSE {[quantity |-> q, unit |-> s.listed] : q \in Rounded(100 * s.total, s.listed)}
    ELSE IF s.quantity = 0 THEN {[quantity |-> 0, unit |-> 0]}
    ELSE {[quantity |-> s.quantity, unit |-> u] : u \in Rounded(100 * s.total, s.quantity)}

Row(j, item, x) == [job |-> j, quantity |-> x.quantity, unit |-> x.unit, from |-> item]

LinesOf(rows, j) == {l \in LineIds : rows[l] \notin {NotSaid, Removed} /\ rows[l].job = j}
Sum(rows, j) == SumFunction([l \in LinesOf(rows, j) |-> rows[l].quantity * rows[l].unit])

\* Lines of a job replaced: those the session holds are deleted, the new inserted.
Replaced(rows, held, new) == [l \in LineIds |-> IF l \in DOMAIN new THEN new[l]
                                                ELSE IF l \in held THEN Removed ELSE rows[l]]

\* update_job_value after the inserts and the deletions: the sum of what is left.
Synced(rows, held, new, j) == Sum(Replaced(rows, held, new), j)

-----------------------------------------------------------------------------
(* Sessions *)

\* What an invoice shows: the cost of the lines it lists, none if there are none,
\* and the amount due; whether it was forced; as history, whether the job was priced.
Invoice == [job : Bills, listed : Nat \cup {NotSaid}, due : Nat, forced : BOOLEAN,
            priced : BOOLEAN]
ASSUME InvoicingRowsAssumption == {NotSaid, Removed} \cap (LineRow \cup Invoice) = {}

\* A web edit holds the job's lines as it read them and the form's items; a turn
\* that makes an invoice holds its document.
ClerkRecord == [at : {"idle", "edit", "invoice"}, job : Bills, held : SUBSET LineIds,
                items : SUBSET Form, document : Invoice \cup {NotSaid}]
NoClerk == [at |-> "idle", job |-> CHOOSE j \in Bills : TRUE, held |-> {}, items |-> {},
            document |-> NotSaid]

InvoicingInit ==
    /\ bill = [j \in Bills |-> NotSaid]
    /\ lineItem = [l \in LineIds |-> NotSaid]
    /\ invoice = [i \in InvoiceIds |-> NotSaid]
    /\ clerk = [s \in Clerks |-> NoClerk]
    /\ priced = {} /\ sales = 0

Sale == sales < MaxSales /\ sales' = sales + 1
NoTurn == \A s \in Clerks : clerk[s].at # "invoice"
\* A flush inserts before it deletes, so the next id is never a deleted line's.
Free == {l \in LineIds : lineItem[l] = NotSaid}

\* One new line per item, with the ids the table gives them.
RowsFor(j, items) == UNION {{Row(j, i, x) : x \in Reconciled(i)} : i \in items}
NewLines(j, items) ==
    {new \in UNION {[ids -> RowsFor(j, items)] : ids \in kSubset(Cardinality(items), Free)} :
       {new[l].from : l \in DOMAIN new} = items}

\* create_job: the value given is overwritten if there are items.
CreateBill(j, items) ==
    /\ Sale /\ NoTurn /\ bill[j] = NotSaid
    /\ \E new \in NewLines(j, items) :
         /\ lineItem' = Replaced(lineItem, {}, new)
         /\ bill' = [bill EXCEPT ![j] = Synced(lineItem, {}, new, j)]
    /\ UNCHANGED <<invoice, clerk, priced>>

\* Without items the value is what was stated, or 0.
CreatePlainBill(j, price) ==
    /\ Sale /\ NoTurn /\ bill[j] = NotSaid
    /\ bill' = [bill EXCEPT ![j] = 100 * price]
    /\ UNCHANGED <<lineItem, invoice, clerk, priced>>

\* PATCH /jobs/{id} with items: update_job reads the job and its lines ...
EditBillRead(s, j, items) ==
    /\ Sale /\ clerk[s].at = "idle" /\ bill[j] # NotSaid
    /\ clerk' = [clerk EXCEPT ![s] = [NoClerk EXCEPT !.at = "edit", !.job = j, !.items = items,
                                                     !.held = LinesOf(lineItem, j)]]
    /\ UNCHANGED <<bill, lineItem, invoice, priced>>

\* ... and, after geocoding, replaces the lines it knows of.
EditBillCommit(s) ==
    LET c == clerk[s] IN
    /\ c.at = "edit" /\ NoTurn
    /\ \E new \in NewLines(c.job, c.items) :
         /\ lineItem' = Replaced(lineItem, c.held, new)
         /\ bill' = [bill EXCEPT ![c.job] = Synced(lineItem, c.held, new, c.job)]
    /\ priced' = priced \ {c.job}
    /\ clerk' = [clerk EXCEPT ![s] = NoClerk]
    /\ UNCHANGED <<invoice, sales>>

\* ScheduleJobTool with a price: update_job sets the value and leaves the lines.
SetPrice(j, price) ==
    /\ Sale /\ NoTurn /\ bill[j] # NotSaid
    /\ bill' = [bill EXCEPT ![j] = 100 * price]
    /\ priced' = priced \cup {j}
    /\ UNCHANGED <<lineItem, invoice, clerk>>

MayInvoice(s) == clerk[s].at = "idle" /\ NoTurn

Invoiced(j) == \E i \in InvoiceIds : invoice[i] # NotSaid /\ invoice[i].job = j

\* generate_invoice: the document lists the job's lines, the template shows its value.
Billed(j, forced) ==
    [job |-> j, listed |-> IF LinesOf(lineItem, j) = {} THEN NotSaid ELSE Sum(lineItem, j),
     due |-> bill[j], forced |-> forced, priced |-> j \in priced]

\* SendInvoiceTool: an existing invoice is returned, unless a new one is forced;
\* the PDF is made and uploaded, the row flushed.
SendInvoice(s, j, forced) ==
    /\ Sale /\ MayInvoice(s) /\ bill[j] # NotSaid
    /\ Invoiced(j) => forced
    /\ clerk' = [clerk EXCEPT ![s] = [NoClerk EXCEPT !.at = "invoice", !.job = j,
                                                     !.document = Billed(j, forced)]]
    /\ UNCHANGED <<bill, lineItem, invoice, priced>>

\* The turn's commit.
InvoiceCommit(s) ==
    /\ clerk[s].at = "invoice"
    /\ \E i \in InvoiceIds :
         /\ invoice[i] = NotSaid
         /\ invoice' = [invoice EXCEPT ![i] = clerk[s].document]
    /\ clerk' = [clerk EXCEPT ![s] = NoClerk]
    /\ UNCHANGED <<bill, lineItem, priced, sales>>

\* An error of the storage or the database, or a restart.
ClerkFails(s) ==
    /\ clerk[s].at # "idle"
    /\ clerk' = [clerk EXCEPT ![s] = NoClerk]
    /\ UNCHANGED <<bill, lineItem, invoice, priced, sales>>

InvoicingNext ==
    \/ \E j \in Bills :
         \/ \E i \in Item : CreateBill(j, {i})
         \/ \E p \in Totals : CreatePlainBill(j, p) \/ SetPrice(j, p)
         \/ \E s \in Clerks :
              \/ \E items \in SUBSET Form : items # {} /\ EditBillRead(s, j, items)
              \/ \E forced \in BOOLEAN : SendInvoice(s, j, forced)
    \/ \E s \in Clerks : EditBillCommit(s) \/ InvoiceCommit(s) \/ ClerkFails(s)

InvoicingSpec == InvoicingInit /\ [][InvoicingNext]_invoicingVars

-----------------------------------------------------------------------------
(* Properties *)

\* Rows, sessions and counters have the columns the code declares.
InvoicingTypeOK ==
    /\ bill \in [Bills -> Nat \cup {NotSaid}]
    /\ lineItem \in [LineIds -> LineRow \cup {NotSaid, Removed}]
    /\ invoice \in [InvoiceIds -> Invoice \cup {NotSaid}]
    /\ clerk \in [Clerks -> ClerkRecord]
    /\ priced \subseteq Bills /\ sales \in 0..MaxSales

\* "If line items exist, they define the value": also after edits that overlap
\* and leave the lines of both, unless a price was set beside them.
ValueIsSum ==
    \A j \in Bills :
      (LinesOf(lineItem, j) # {} /\ j \notin priced) => bill[j] = Sum(lineItem, j)

\* A stated total is what the line costs, up to the rounding of the quantity or
\* the unit price it is divided into, when no unit price was stated with it.
StatedTotalKept ==
    \A l \in LineIds :
      LET row == lineItem[l] IN
      (row \notin {NotSaid, Removed} /\ row.from.total # NotSaid /\ row.from.unit = NotSaid
          /\ row.from.quantity # 0 /\ row.from.listed # 0) =>
        LET off == row.quantity * row.unit - 100 * row.from.total IN
        \/ 2 * off \in (-row.unit)..row.unit
        \/ 2 * off \in (-row.quantity)..row.quantity

\* A job has at most one invoice nobody forced, whatever turns overlap or fail.
InvoicedOnce ==
    \A i, k \in InvoiceIds :
      (/\ invoice[i] # NotSaid /\ invoice[k] # NotSaid
       /\ invoice[i].job = invoice[k].job
       /\ ~invoice[i].forced /\ ~invoice[k].forced) => i = k

\* The amount due on an invoice is the cost of the lines it lists, unless a price
\* was set beside them: then the document contradicts itself.
DueIsListed ==
    \A i \in InvoiceIds :
      (invoice[i] # NotSaid /\ invoice[i].listed # NotSaid /\ ~invoice[i].priced) =>
        invoice[i].due = invoice[i].listed

\* What a customer is asked to pay.
BillsHold == ValueIsSum /\ StatedTotalKept /\ InvoicedOnce /\ DueIsListed

=============================================================================
