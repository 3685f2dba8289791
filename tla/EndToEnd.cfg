CONSTANTS
    Runs = {r1}
    d1 = d1
    d2 = d2
    k1 = k1
    k2 = k2
    p1 = p1
    Deliveries = {d1, d2}
    Unnamed = {}
    Eligible = {d1, d2}
    Keys = {k1, k2}
    PRs = {p1}
    KeyOf <- MCKeyOf
    PROf <- MCPROf
    Reports = {"succeeded", "review_failed", "stale"}
    MaxAttempts = 2
    MaxCrashes = 1
    HeadOf <- MCHeadOf
    JobPolicies <- MCPolicies
    Findings = {"major"}
    Blocking = {"major"}
    OnAddedLine = {"major"}
    PageSize = 1
    MaxHead = 2
    MaxComments = 1
CHECK_DEADLOCK FALSE
SPECIFICATION SystemSpec
INVARIANTS
    SavedReviewIsSeen
    RowsAreTrue

    
    
