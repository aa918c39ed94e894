SPECIFICATION CalendarSpec
CONSTANTS
    CalJobs = {c1}
    Staff = {s1, s2}
    Events = {v1, v2}
    NoOne = NoOne
    Flows = {f1}
    MaxChanges = 3
    MaxTrouble = 0
INVARIANT EventsMoveAlong
CHECK_DEADLOCK FALSE
