CONSTANTS
    Runs = {r1, r2}
    d1 = d1
    d2 = d2
    d3 = d3
    k1 = k1
    k2 = k2
    p1 = p1
    Deliveries = {d1, d3}
    Unnamed = {}
    Eligible = {d1, d3}
    Keys = {k1, k2}
    PRs = {p1}
    KeyOf <- MCKeyOf
    PROf <- MCPROf
    Reports = {}
    MaxAttempts = 0
    MaxCrashes = 1
CHECK_DEADLOCK FALSE
SPECIFICATION FairSpec
PROPERTIES
    EveryRunEnds
