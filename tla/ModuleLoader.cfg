SPECIFICATION Spec

CONSTANTS
  f1 = f1
  f2 = f2
  f3 = f3
  is = is
  likes = likes
  curly = curly
  Name <- Names
  Reserved <- ReservedNames
  NaN = NaN
  Uri <- ThreeFiles
  Programs <- AllPrograms
  Disks <- AllDisks
  Builtin <- BuiltinTable
  Absent = Absent
  Pending = Pending
  Unreadable = Unreadable
  MaxValidations = 3

CHECK_DEADLOCK FALSE

INVARIANTS
  TypeOK
  NoReentry
  PendingOnlyUnreadable
  NoSilentReservedOperator
  TablesAgree
  TermsAgree
  OperatorsComeFromImports
