CONSTANTS
    Refs <- MCRefs
    Commits = {"c1", "c2"}
    ForgeList <- MCForgeList
    NoSecret = "none"
    NoCommit = "none"
    Gone = Gone
    Inherit = Inherit
    Defaults <- MCDefaults
    RuleLists <- MCRuleLists
    Prompts = {"p"}
    MaxEvents = 3
    MaxRows = 2
CHECK_DEADLOCK FALSE
SPECIFICATION Spec
INVARIANTS
    TypeOK
    OneActiveRun
    StaysOnItsForge
    ForkPolicyKept
    CommitGetsRun
