\* One clause of every nesting of two forms; three clauses that start on lines of their
\* own, broken into lines at one more place, the last perhaps without its end.
CONSTANTS
    None = None
    Files <- AllFiles
SPECIFICATION Spec
INVARIANT FindsWhatIsThere
