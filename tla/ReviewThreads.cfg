CONSTANTS
    Concerns = {a, b}
    Lengths = {9}
    Page = 3
    PageComments = 2
    maxThreads = 2
    maxThreadComment = 1
    maxCommentChars = 2
    maxThreadsBytes = 4
    MaxPosted = 3
    MaxReplies = 2
SYMMETRY Symmetry
CHECK_DEADLOCK FALSE
SPECIFICATION Spec
INVARIANTS
    TypeOK
    BlockBounded
PROPERTIES
    OwnFindingRaisedAgain
    
