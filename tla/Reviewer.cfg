CONSTANTS
    Inherit = Inherit
    repo = repo
    Repo = repo
    MaxUnits = 2
    Defaults <- MCDefaults
    RuleLists <- MCRuleLists
    Diffs <- MCDiffs
    Replies <- MCReplies
    MaxCallCost = 1
CHECK_DEADLOCK FALSE
SPECIFICATION Spec
INVARIANTS
    TypeOK
    CallsBounded
    SpendBounded
    
    
    TruncationIsTold
