CONSTANTS
    a = a
    b = b
    u = u
    quoted = quoted
    Files = {a, u}
    Paths = {a, u, quoted}
    Name <- MCName
    DevNull = DevNull
    NoFile = NoFile
    Kinds = {"plain", "dashes", "pluses", "long"}
    MaxLine = 3
CHECK_DEADLOCK FALSE
SPECIFICATION Spec
INVARIANTS
    TypeOK
    OnlyAddedLines
    AllAddedLines
