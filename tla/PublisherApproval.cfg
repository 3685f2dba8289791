CONSTANTS
    Runs = {r1}
    majorIn = majorIn
    majorOut = majorOut
    minorIn = minorIn
    Findings = {majorOut}
    Blocking <- MCBlocking
    OnAddedLine <- MCOnAddedLine
    PageSize = 100
    MaxHead = 2
    MaxComments = 0
    MaxReruns = 0
CHECK_DEADLOCK FALSE
SPECIFICATION Spec
INVARIANTS
    NoApprovalOverFinding
