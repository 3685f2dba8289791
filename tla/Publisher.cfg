CONSTANTS
    Runs = {r1}
    majorIn = majorIn
    majorOut = majorOut
    minorIn = minorIn
    Findings = {majorIn, minorIn}
    Blocking <- MCBlocking
    OnAddedLine <- MCOnAddedLine
    PageSize = 1
    MaxHead = 2
    MaxComments = 1
    MaxReruns = 1
CHECK_DEADLOCK FALSE
SPECIFICATION FairSpec
INVARIANTS
    TypeOK
    SummaryComesFirst
    ReportIsTrue
    SummaryUpsert
    NoApprovalOverVisibleFinding
PROPERTIES
    AlwaysReports
