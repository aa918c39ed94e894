--------------------------- MODULE DataManagement ---------------------------
(***************************************************************************)
(* Data import, of one business, and export (services/data_management).    *)
(*                                                                         *)
(* An import commits its job as PROCESSING, fetches the file, and then, in *)
(* a savepoint, adds the file's rows one by one; a row's customer is found *)
(* by phone number or created.  The job and the rows are committed         *)
(* together.  Only the count of records has been flushed before the first  *)
(* row: that takes the write lock, so that imports look customers up and   *)
(* add them one after the other.                                           *)
(***************************************************************************)
EXTENDS Naturals

CONSTANTS
    Phones,         \* numbers as the import stores them, digits only
    NoPhone,
    Imports, Exports,
    Tenants,        \* businesses that export
    MaxLines,       \* bound: lines of a file
    MaxAdded,       \* bound: customers added by other requests
    MaxSecond       \* bound: seconds of the clock

ImportStatus == {"PENDING", "PROCESSING", "COMPLETED", "FAILED"}
ExportStatus == {"PENDING", "PROCESSING", "COMPLETED", "FAILED"}
Kinds == {"customers", "jobs"}

ASSUME DataAssumption ==
    /\ MaxLines \in Nat /\ MaxAdded \in Nat /\ MaxSecond \in Nat
    /\ NoPhone \notin Phones
    /\ Tenants # {}

VARIABLES
    directory,  \* committed customers per phone number
    records,    \* committed jobs, quotes, requests or expenses of the imports
    importJob,  \* import_jobs and the requests that run them
    exportReq,  \* export_requests and the requests that run them
    bucket,     \* the object store: whose file a key holds
    second,     \* the clock, as file names show it
    added       \* customers other requests have added

dataVars == <<directory, records, importJob, exportReq, bucket, second, added>>

-----------------------------------------------------------------------------
Numbers == Phones \cup {NoPhone}

\* An import: its row (status, record_count); its request's step, the lines to
\* come, the customers and records in the savepoint, the lines behind them and
\* the lines that were skipped; and, as history, how many lines of the file have
\* been committed.
ImportRecord == [status : ImportStatus, count : Nat,
                 at : {"new", "fetch", "rows", "failed", "done"},
                 left : Nat, customers : [Numbers -> Nat], others : Nat,
                 taken : Nat, skipped : Nat, kept : Nat]
NoCustomers == [p \in Numbers |-> 0]
NewImport == [status |-> "PENDING", count |-> 0, at |-> "new", left |-> 0,
              customers |-> NoCustomers, others |-> 0, taken |-> 0, skipped |-> 0, kept |-> 0]

\* A file's key: exports/<business>/export_<what>_<business>_<second>.
Key == [of : Tenants, kinds : SUBSET Kinds, second : Nat]

\* An export: its row, its request's step, what is left to read, and the key.
ExportRecord == [status : ExportStatus, at : {"new", "reading", "stored", "failed", "done"},
                 of : Tenants, kinds : SUBSET Kinds, left : SUBSET Kinds, key : Key]
NewExport == [status |-> "PENDING", at |-> "new", of |-> CHOOSE b \in Tenants : TRUE,
              kinds |-> {}, left |-> {}, key |-> [of |-> CHOOSE b \in Tenants : TRUE,
                                                  kinds |-> {}, second |-> 0]]

DataInit ==
    /\ directory = NoCustomers
    /\ records = 0
    /\ importJob = [i \in Imports |-> NewImport]
    /\ exportReq = [x \in Exports |-> NewExport]
    /\ bucket = {} /\ second = 0 /\ added = 0

\* The write lock: held from the flush of the count to the commit.
Holds(i) == importJob[i].at \in {"rows", "failed"}
Unlocked == \A i \in Imports : ~Holds(i)
Import(i, rec) == importJob' = [importJob EXCEPT ![i] = rec]
Export(x, rec) == exportReq' = [exportReq EXCEPT ![x] = rec]
ExportsUnchanged == UNCHANGED <<exportReq, bucket, second>>

-----------------------------------------------------------------------------
(* Import *)

\* Customers come from other requests, too: tools, forms and webhooks.
AddCustomer(p) ==
    /\ added < MaxAdded /\ added' = added + 1 /\ Unlocked
    /\ directory' = [directory EXCEPT ![p] = @ + 1]
    /\ UNCHANGED <<records, importJob>> /\ ExportsUnchanged

ImportStart(i) ==
    /\ importJob[i].at = "new" /\ Unlocked
    /\ Import(i, [importJob[i] EXCEPT !.at = "fetch", !.status = "PROCESSING"])
    /\ UNCHANGED <<directory, records, added>> /\ ExportsUnchanged

\* The download is refused or the file cannot be parsed: FAILED is committed.
ImportUnreadable(i) ==
    /\ importJob[i].at = "fetch" /\ Unlocked
    /\ Import(i, [importJob[i] EXCEPT !.at = "done", !.status = "FAILED"])
    /\ UNCHANGED <<directory, records, added>> /\ ExportsUnchanged

\* Mutant of ImportBegin: the count is not flushed until the end.
BeginUnlocked(i, n) ==
    /\ importJob[i].at = "fetch"
    /\ Import(i, [importJob[i] EXCEPT !.at = "rows", !.count = n, !.left = n])
    /\ UNCHANGED <<directory, records, added>> /\ ExportsUnchanged

\* begin_nested flushes the count of n lines.
ImportBegin(i, n) ==
    /\ importJob[i].at = "fetch" /\ Unlocked
    /\ Import(i, [importJob[i] EXCEPT !.at = "rows", !.count = n, !.left = n])
    /\ UNCHANGED <<directory, records, added>> /\ ExportsUnchanged

\* How many customers of this number the session sees.
Matching(i, p) == directory[p] + importJob[i].customers[p]

\* A line leaves a customer, when it has a name, or a record of its own: jobs
\* and quotes with their customer, requests with or without one, expenses
\* without.  Any other line is skipped, and nobody is told: one without a name
\* of a file of customers, jobs or quotes, and every line of a file of invoices.
ImportsSomething(named, record) == named \/ record

\* One line; two customers of one number are an error.
ImportLine(i, p, named, record) ==
    LET x == importJob[i]
        known == p # NoPhone /\ Matching(i, p) > 0 IN
    /\ x.at = "rows" /\ x.left > 0
    /\ (named /\ p # NoPhone) => Matching(i, p) <= 1
    /\ Import(i, [x EXCEPT !.left = @ - 1,
                           !.taken = IF ImportsSomething(named, record) THEN @ + 1 ELSE @,
                           !.skipped = IF ImportsSomething(named, record) THEN @ ELSE @ + 1,
                           !.customers[p] = IF named /\ ~known THEN @ + 1 ELSE @,
                           !.others = IF record THEN @ + 1 ELSE @])
    /\ UNCHANGED <<directory, records, added>> /\ ExportsUnchanged

\* Mutant of RolledBack: there is no savepoint.
KeepLines(x) == x

\* An error in a line rolls the savepoint back.
RolledBack(x) == [x EXCEPT !.customers = NoCustomers, !.others = 0, !.taken = 0, !.skipped = 0]

ImportLineFails(i) ==
    /\ importJob[i].at = "rows" /\ importJob[i].left > 0
    /\ Import(i, [RolledBack(importJob[i]) EXCEPT !.at = "failed"])
    /\ UNCHANGED <<directory, records, added>> /\ ExportsUnchanged

\* The commit of the rows and the job.
ImportCommit(i) ==
    LET x == importJob[i] IN
    /\ Holds(i) /\ (x.at = "rows" => x.left = 0)
    /\ directory' = [p \in Numbers |-> directory[p] + x.customers[p]]
    /\ records' = records + x.others
    /\ Import(i, [x EXCEPT !.at = "done", !.kept = x.taken, !.left = 0,
                           !.customers = NoCustomers, !.others = 0, !.taken = 0,
                           !.status = IF x.at = "rows" THEN "COMPLETED" ELSE "FAILED"])
    /\ UNCHANGED added /\ ExportsUnchanged

\* A lock timeout, a cancelled request or a restart: the job stays PROCESSING.
ImportDies(i) ==
    /\ importJob[i].at \in {"fetch", "rows", "failed"}
    /\ Import(i, [NewImport EXCEPT !.at = "done", !.status = "PROCESSING"])
    /\ UNCHANGED <<directory, records, added>> /\ ExportsUnchanged

-----------------------------------------------------------------------------
(* Export *)

ExportRest == UNCHANGED <<directory, records, importJob, added>>

\* One kind, or all of them.
ExportStart(x, b, kinds) ==
    /\ exportReq[x].at = "new" /\ Unlocked
    /\ Export(x, [exportReq[x] EXCEPT !.at = "reading", !.status = "PROCESSING",
                                      !.of = b, !.kinds = kinds, !.left = kinds])
    /\ UNCHANGED <<bucket, second>> /\ ExportRest

\* Each kind is a query of its own.
ExportRead(x, k) ==
    /\ exportReq[x].at = "reading" /\ k \in exportReq[x].left
    /\ Export(x, [exportReq[x] EXCEPT !.left = @ \ {k}])
    /\ UNCHANGED <<bucket, second>> /\ ExportRest

FileKey(e, t) == [of |-> e.of, kinds |-> e.kinds, second |-> t]

\* The upload replaces a file of the same name.
ExportUpload(x) ==
    LET key == FileKey(exportReq[x], second) IN
    /\ exportReq[x].at = "reading" /\ exportReq[x].left = {}
    /\ bucket' = {e \in bucket : e[1] # key} \cup {<<key, x>>}
    /\ Export(x, [exportReq[x] EXCEPT !.at = "stored", !.key = key])
    /\ UNCHANGED second /\ ExportRest

ExportFails(x) ==
    /\ exportReq[x].at = "reading"
    /\ Export(x, [exportReq[x] EXCEPT !.at = "failed"])
    /\ UNCHANGED <<bucket, second>> /\ ExportRest

ExportCommit(x) ==
    LET e == exportReq[x] IN
    /\ e.at \in {"stored", "failed"} /\ Unlocked
    /\ Export(x, [e EXCEPT !.at = "done",
                           !.status = IF e.at = "stored" THEN "COMPLETED" ELSE "FAILED"])
    /\ UNCHANGED <<bucket, second>> /\ ExportRest

ExportDies(x) ==
    /\ exportReq[x].at \in {"reading", "stored", "failed"}
    /\ Export(x, [exportReq[x] EXCEPT !.at = "done"])
    /\ UNCHANGED <<bucket, second>> /\ ExportRest

NextSecond ==
    /\ second < MaxSecond /\ second' = second + 1
    /\ UNCHANGED <<exportReq, bucket>> /\ ExportRest

ImportNext ==
    \/ \E p \in Numbers : AddCustomer(p)
    \/ \E i \in Imports :
         \/ ImportStart(i) \/ ImportUnreadable(i) \/ ImportLineFails(i)
         \/ ImportCommit(i) \/ ImportDies(i)
         \/ \E n \in 0..MaxLines : ImportBegin(i, n)
         \/ \E p \in Numbers, named, record \in BOOLEAN : ImportLine(i, p, named, record)

ExportNext ==
    \/ NextSecond
    \/ \E x \in Exports :
         \/ ExportUpload(x) \/ ExportFails(x) \/ ExportCommit(x) \/ ExportDies(x)
         \/ \E b \in Tenants, kinds \in {Kinds} \cup {{k} : k \in Kinds} : ExportStart(x, b, kinds)
         \/ \E k \in Kinds : ExportRead(x, k)

DataNext == ImportNext \/ ExportNext

DataSpec == DataInit /\ [][DataNext]_dataVars

-----------------------------------------------------------------------------
(* Properties *)

\* Rows, requests and counters are of the types the code declares.
DataTypeOK ==
    /\ directory \in [Numbers -> Nat]
    /\ records \in Nat
    /\ importJob \in [Imports -> ImportRecord]
    /\ exportReq \in [Exports -> ExportRecord]
    /\ bucket \subseteq Key \X Exports
    /\ second \in 0..MaxSecond /\ added \in 0..MaxAdded

\* A COMPLETED import has gone through its whole file: each line's customer or
\* record is in the database, but for the lines that were skipped, which
\* record_count counts all the same (spec 007 would have such a file refused); an
\* import that failed, died or still runs has no line there, whichever failed.
\* The link of a COMPLETED export opens a file of its business that holds the
\* kinds that were asked for, although another export may have replaced its own.
\* (The key tells kinds apart and not filters: within a second the file may be of
\* another filter.)
FinishedAsReported ==
    /\ \A i \in Imports :
         IF importJob[i].status = "COMPLETED"
         THEN importJob[i].kept + importJob[i].skipped = importJob[i].count
         ELSE importJob[i].kept = 0
    /\ \A x \in Exports : exportReq[x].status = "COMPLETED" =>
         \E y \in Exports : /\ <<exportReq[x].key, y>> \in bucket
                             /\ exportReq[y].of = exportReq[x].of
                             /\ exportReq[y].kinds = exportReq[x].kinds

\* _get_or_create_customer_from_row: an import's commit never adds a customer
\* under a number that has one, whatever is imported or added beside it.
ImportsDeduplicate ==
    [][\A p \in Phones, i \in Imports :
         (directory'[p] > directory[p] /\ importJob'[i].at # importJob[i].at)
            => directory'[p] = 1]_dataVars

\* The status that users read: PENDING and PROCESSING promise nothing.
Outcome(i) ==
    IF importJob[i].status \in {"COMPLETED", "FAILED"} THEN importJob[i].status ELSE "OPEN"

\* Imports implement the atomic import.
Atomic == INSTANCE AtomicImport
            WITH outcome <- [i \in Imports |-> Outcome(i)],
                 kept <- [i \in Imports |-> importJob[i].kept]

\* import_data: line by line in a savepoint, beside other imports and requests, an
\* import is as if the lines of its file that name a customer or make a record had
\* been taken in at one moment, or none of them.
ImportsAreAtomic == Atomic!Spec

=============================================================================
