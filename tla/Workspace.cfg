SPECIFICATION WorkspaceSpec

CONSTANTS
  f1 = f1
  f2 = f2
  f3 = f3
  is = is
  likes = likes
  curly = curly
  Name <- OneName
  Reserved <- ReservedNames
  NaN = NaN
  Uri <- ThreeFiles
  Programs <- GraphPrograms
  Disks <- GraphDisks
  Builtin <- BuiltinTable
  Absent = Absent
  Pending = Pending
  Unreadable = Unreadable
  Closed = Closed
  MaxValidations = 3
  MaxEdits = 1

CHECK_DEADLOCK FALSE

INVARIANT
  StaleOnlyBehindImports
PROPERTIES
  EveryLoadEnds
  ImplementsStore
