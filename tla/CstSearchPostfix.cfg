\* A clause with a postfix operator, and a position on the left of it.
CONSTANTS
    None = None
    Files <- AllFiles
SPECIFICATION Spec
INVARIANT SearchReturns
