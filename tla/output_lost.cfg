SPECIFICATION ExecutionSpec
CONSTANTS
    MaxLines = 2
    LongLines = FALSE
INVARIANT OutputIsKept
