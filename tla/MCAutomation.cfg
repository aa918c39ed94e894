\* No other error: the runs end by what the job itself reads.
SPECIFICATION AutomationSpec
CONSTANTS
    PaidJobs = {pj1, pj2}
    SentQuotes = {}
    MaxFailures = 0
PROPERTY ReviewsAreAsked
CHECK_DEADLOCK FALSE
