SPECIFICATION Spec
CONSTANTS
    None = None
    Short = 3
    Long = 5
    Texts <- MCTexts
INVARIANTS ClausesAreTheText InvalidIsReported ClausesAreInOrder
