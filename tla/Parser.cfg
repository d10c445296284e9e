CONSTANTS
    Name <- Names
    Reserved <- NoName
    NaN = NaN
    Tables <- MCTables
    TokenLists <- Clauses
SPECIFICATION Spec
CHECK_DEADLOCK FALSE
INVARIANTS TypeOK NeverThrows BracesStayBehind KeptIsMeant MeantIsAccepted
PROPERTY EveryClauseIsRead
