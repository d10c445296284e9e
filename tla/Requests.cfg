\* Clauses of every form are indexed; requests are made about three clauses, the first of
\* many forms, with and without spaces, the last perhaps without its end.
SPECIFICATION RequestsSpec
CONSTANTS
    Files <- MCFiles
    None = None
INVARIANTS
    NamesAgree
    CallersMatch
    HeadsAreDefined
    GoalsAreReferenced
    DefinitionsAreFound
    ReferencesAreFound
    OutlineIsComplete
    RangesFit
PROPERTY
    EveryRequestIsServed
\* where no request is made, the parser stops at the end of the file
CHECK_DEADLOCK FALSE
