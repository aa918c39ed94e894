SPECIFICATION Spec
CONSTANTS
    Parts = {"work", "campaign", "accounts", "catalogue", "import", "export", "calendar",
             "dispatch"}
    WorkJobs = {w1, w2}
    Employees = {e1}
    Callers = {p1, p2}
    Unset = Unset
    Nobody = Nobody
    WorkStatuses = {"IN_PROGRESS", "PAUSED", "CANCELLED"}
    MaxTime = 1
    MaxCalls = 3
    Campaigns = {k1}
    Contacts = {a1, a2}
    Tasks = {t1, t2}
    NoRow = NoRow
    MaxRuns = 2
    People = {u1, u2}
    Businesses = {b1, b2}
    Orgs = {b2}
    Invites = {i1}
    Turns = {n1, n2}
    NoUser = NoUser
    MaxActs = 5
    ServiceIds = {v1, v2}
    Titles = {l1}
    Prices = {1, 2}
    Desks = {d1, d2}
    Missing = Missing
    MaxEdits = 3
    Phones = {h1}
    NoPhone = NoPhone
    Imports = {m1, m2}
    Exports = {x1, x2}
    Tenants = {g1, g2}
    MaxLines = 2
    MaxAdded = 1
    MaxSecond = 1
    CalJobs = {c1}
    Staff = {s1, s2}
    Events = {v1, v2}
    NoOne = NoOne
    Flows = {f1, f2}
    MaxChanges = 3
    MaxTrouble = 1
    Visits = {x1, x2}
    Crew = {y1, y2}
    Based = {y1, y2}
    Placed = {x1}
    MovedTo = {"SCHEDULED", "IN_PROGRESS", "PAUSED", "CANCELLED"}
    Planners = {z1, z2}
    Days = {0}
    Open = Open
    MaxPlans = 2
    MaxMoves = 1
INVARIANTS TypesOK WorkedWithinElapsed OneRunningJob BlastOnce CompletedAddsUp InvitationHonoured
INVARIANTS CacheIsCurrent FinishedAsReported EventsAreNamed
PROPERTIES ImportsAreAtomic RoutesKeepProgress
SYMMETRY Symmetry
CHECK_DEADLOCK FALSE
