SPECIFICATION MCSpec
CONSTANTS
    Customers = {c1, c2}
    Quotes = {q1}
    Jobs = {j1, j2}
    Requests = {r1, r2}
    Names = {n1}
    GeneralCustomer = n1
    Known = {c1}
    QuotingChoices = {"NEVER"}
    Sessions = {s1, s2}
    None = None
    Gone = Gone
    ToolStages = {"LOST"}
    EditStatuses = {"DISMISSED"}
    PwaStatuses = {"SENT"}
    MaxOps = 3
    PaidJobs = {pj1, pj2}
    SentQuotes = {sq1}
    MaxFailures = 2
    Bills = {b1}
    LineIds = {l1, l2, l3}
    InvoiceIds = {i1, i2}
    Clerks = {k1, k2}
    Quantities = {100, 250}
    UnitPrices = {400}
    Totals = {1000}
    ListPrices = {0, 300}
    NotSaid = NotSaid
    Removed = Removed
    MaxSales = 4
    Messages = {m1, m2, m3}
    Callers = {d1}
    Worker = worker
    Sentinel = sentinel
    NoMessage = nomessage
    Reachable = {m1, m2}
    Unroutable = {m3}
    Billable = {m1, m2}
    MaxStarts = 2
    MaxFaults = 1
INVARIANTS TypesOK QuoteJobsMatch BillsHold AtMostOneAttempt Accounted BilledExactlyWhenSent QuietWhenDown
PROPERTIES AcceptanceIsFinal RequestsAreKept ConversionNoted DeliverySpec QueuedIsHandled
CHECK_DEADLOCK FALSE
