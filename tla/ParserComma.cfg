CONSTANTS
    Name <- Names
    Reserved <- NoName
    NaN = NaN
    Tables <- MCTables
    TokenLists <- TwoArguments
SPECIFICATION Spec
CHECK_DEADLOCK FALSE
INVARIANTS CommaTerminates
