---------------------------- MODULE ModuleLoader ----------------------------
(***************************************************************************)
(* One validation seen from inside: the parser takes the clauses of a      *)
(* document one at a time and evaluates its directives, and use_module     *)
(* reads, parses and absorbs another file in the middle of it              *)
(* (server/src/indexer.ts, parser-on-moo.ts, operators.ts).  A parse is    *)
(* synchronous: its parsers form a stack and only the top one moves.       *)
(*                                                                         *)
(* A program is a sequence of items: the directives that touch tables or   *)
(* files, and terms.  A term stands for a clause whose reading depends on  *)
(* an operator.  A conjunction of directives is its items in order.        *)
(***************************************************************************)
EXTENDS OperatorTable, Sequences, FiniteSets

CONSTANTS
  Uri,             \* files
  Programs,        \* contents a file may have
  Disks,           \* the programs that the files may have together
  Builtin,         \* the builtin operators
  Absent,          \* no entry in DocumentManager
  Pending,         \* the entry undefined: a parse is under way, or has failed
  Unreadable,      \* on disk: the file cannot be read
  MaxValidations   \* bound: validations in one behaviour

VARIABLES
  disk,             \* disk[u]: the program of the file
  DocumentManager,  \* DocumentManager[u]: Absent, Pending or an analysis
  default_table,    \* the builtin operators, shared by every parser
  stack,            \* the parsers at work, the innermost first
  validated,        \* validated[u]: how often u was validated
  reported,         \* reported[u]: the errors of the last validation of u
  before            \* DocumentManager when the validation under way began

vars == <<disk, DocumentManager, default_table, stack, validated, reported,
          before>>

\* The items a program is made of.  The precedence and the type of an op/3 are
\* what the program says, right or wrong; "exports" is the rest of an export list
\* that is being walked.
OpItem == [kind : {"op"}, prec : Nat \cup {NaN}, type : STRING, name : Name]
Export == OpItem \cup [kind : {"predicate"}]
ProgramItem == OpItem \cup [kind : {"term"}, name : Name]
                      \cup [kind : {"use_module"}, file : Uri]
                      \cup [kind : {"module", "exports"}, exports : Seq(Export)]

Error == {"permission", "precedence", "type", "list", "unreadable"}

ASSUME ProgramsAreItems == Programs \subseteq Seq(ProgramItem)
ASSUME BuiltinIsTable == Builtin \in Table
ASSUME UnreadableIsNone == Unreadable \notin Programs
ASSUME DisksHavePrograms == Disks \subseteq [Uri -> Programs \cup {Unreadable}]

\* How a name reads after a term.
Reading == [type : OpType \cup {"none"}, opPrec : Nat, lPrec : Nat, rPrec : Nat]

Analyses == [user : Table, terms : Seq(Reading), version : Nat]

ASSUME EntriesDiffer ==
  /\ Absent # Pending
  /\ {Absent, Pending} \cap Analyses = {}
  /\ {Absent, Pending} \cap Nat = {}
ASSUME BoundIsNat == MaxValidations \in Nat

Top == stack[1]
Item == Top.rest[1]
Busy == stack # << >>

\* A wrong variant: a nested parser goes on with the operators of its importer.
TableOfImporter == IF Busy THEN Top.user ELSE EmptyTable

\* The operators a new parser starts with, beside the builtin ones.
InitialTable == EmptyTable

\* A parser for u, when the file has this program.
Parser(u, program) == [uri |-> u, rest |-> program, user |-> InitialTable,
                       terms |-> << >>, errors |-> {}]

Validations == {v \in Uri \X (1..MaxValidations) : v[2] <= validated[v[1]]}

Tables == [default |-> default_table, user |-> Top.user]

\* What parse returns; version is 0 for a file read by use_module.
Analysis(parser, version) ==
  [user |-> parser.user, terms |-> parser.terms, version |-> version]

Known(u) == DocumentManager[u] \notin {Absent, Pending}

Init ==
  /\ disk \in Disks
  /\ DocumentManager = [u \in Uri |-> Absent]
  /\ default_table = Builtin
  /\ stack = << >>
  /\ validated = [u \in Uri |-> 0]
  /\ reported = [u \in Uri |-> {}]
  /\ before = DocumentManager

-----------------------------------------------------------------------------
(* validateTextDocument calls the parser. *)

Begin(u, program) ==
  /\ ~Busy
  /\ Cardinality(Validations) < MaxValidations
  /\ DocumentManager' = [DocumentManager EXCEPT ![u] = Pending]
  /\ stack' = <<Parser(u, program)>>
  /\ validated' = [validated EXCEPT ![u] = @ + 1]
  /\ before' = DocumentManager
  /\ UNCHANGED <<disk, default_table, reported>>

\* The document is as on disk (for one that is being edited see Workspace).
Validate(u) == disk[u] # Unreadable /\ Begin(u, disk[u])

\* The parser at the top has an item of this kind next.
Has(kind) == Busy /\ Top.rest # << >> /\ Item.kind = kind

\* The top parser goes on with the rest of its program, with these tables and
\* with more errors.
Consume(result) ==
  /\ stack' = <<[Top EXCEPT !.rest = Tail(@), !.user = result.tables.user,
                            !.errors = @ \cup result.errors]>> \o Tail(stack)
  /\ default_table' = result.tables.default

\* A term is read with the operators known at that point.
Term ==
  /\ Has("term")
  /\ stack' = <<[Top EXCEPT !.rest = Tail(@),
                            !.terms = Append(@, infixop(Tables, Item.name))]>>
              \o Tail(stack)
  /\ UNCHANGED <<disk, DocumentManager, default_table, validated, reported, before>>

\* :- op(prec, type, name).
OpDirective ==
  /\ Has("op")
  /\ Consume(op(Tables, Item.prec, Item.type, Item.name))
  /\ UNCHANGED <<disk, DocumentManager, validated, reported, before>>

\* The top parser has these items next.
Replace(items, errors) ==
  stack' = <<[Top EXCEPT !.rest = items, !.errors = @ \cup errors]>> \o Tail(stack)

\* :- module(name, exports).  An empty list is not taken for a list.
ModuleDirective ==
  /\ Has("module")
  /\ Replace(<<[kind |-> "exports", exports |-> Item.exports]>> \o Tail(Top.rest),
             IF Item.exports = << >> THEN {"list"} ELSE {})
  /\ UNCHANGED <<disk, DocumentManager, default_table, validated, reported, before>>

\* A wrong variant: the walk goes on after an export of another kind.
AllExports(exports) ==
  (IF exports[1].kind = "op" THEN <<exports[1]>> ELSE << >>)
    \o <<[kind |-> "exports", exports |-> Tail(exports)]>>

\* The walk over an export list: an operator is defined and the rest walked; the
\* first export of another kind ends it.
publicList(exports) ==
  IF exports[1].kind = "op"
  THEN <<exports[1], [kind |-> "exports", exports |-> Tail(exports)]>>
  ELSE << >>

Exports ==
  /\ Has("exports")
  /\ Replace((IF Item.exports = << >> THEN << >> ELSE publicList(Item.exports))
               \o Tail(Top.rest), {})
  /\ UNCHANGED <<disk, DocumentManager, default_table, validated, reported, before>>

-----------------------------------------------------------------------------
(* :- use_module(file). *)

\* The file is analysed: its operators are absorbed.
ImportKnown ==
  /\ Has("use_module")
  /\ Known(Item.file)
  /\ Consume(absorb(Tables, DocumentManager[Item.file].user))
  /\ UNCHANGED <<disk, DocumentManager, validated, reported, before>>

\* A wrong variant: an undefined entry is waited for, as the requests of the server do.
ImportWaits ==
  /\ Has("use_module")
  /\ DocumentManager[Item.file] = Pending
  /\ UNCHANGED vars

\* Its entry is undefined, because it is being parsed, further down the stack,
\* or could not be read: the directive does nothing.
ImportPending ==
  /\ Has("use_module")
  /\ DocumentManager[Item.file] = Pending
  /\ Consume([tables |-> Tables, errors |-> {}])
  /\ UNCHANGED <<disk, DocumentManager, validated, reported, before>>

ImportUnreadable ==
  /\ Has("use_module")
  /\ DocumentManager[Item.file] = Absent
  /\ disk[Item.file] = Unreadable
  /\ DocumentManager' = [DocumentManager EXCEPT ![Item.file] = Pending]
  /\ Consume([tables |-> Tables, errors |-> {"unreadable"}])
  /\ UNCHANGED <<disk, validated, reported, before>>

\* The import reads a file that has no entry, and marks it.
MarkedBeforeReading(u) == DocumentManager[u] = Absent

\* A wrong variant: any file without an analysis is read.
NotAnalysed(u) == ~Known(u)

ToRead(u) == MarkedBeforeReading(u)

ImportReads ==
  /\ Has("use_module")
  /\ ToRead(Item.file)
  /\ disk[Item.file] # Unreadable
  /\ DocumentManager' = [DocumentManager EXCEPT ![Item.file] = Pending]
  /\ stack' = <<Parser(Item.file, disk[Item.file])>> \o stack
  /\ UNCHANGED <<disk, default_table, validated, reported, before>>

\* A wrong variant: the analysis of an imported file is not stored.
NotStored == DocumentManager

\* The analysis of an imported file is stored.
StoredImport == [DocumentManager EXCEPT ![Top.uri] = Analysis(Top, 0)]

\* The nested parse ends: its analysis is stored, its errors are dropped, and
\* the parser that imported it absorbs its operators and goes on.
Return ==
  /\ Len(stack) > 1
  /\ Top.rest = << >>
  /\ LET importer == stack[2]
         result   == absorb([default |-> default_table, user |-> importer.user],
                            Top.user)
     IN  stack' = <<[importer EXCEPT !.rest = Tail(@),
                                     !.user = result.tables.user,
                                     !.errors = @ \cup result.errors]>>
                  \o Tail(Tail(stack))
  /\ DocumentManager' = StoredImport
  /\ UNCHANGED <<disk, default_table, validated, reported, before>>

\* The parse of the validated document ends.
Finish ==
  /\ Len(stack) = 1
  /\ Top.rest = << >>
  /\ DocumentManager' =
       [DocumentManager EXCEPT ![Top.uri] = Analysis(Top, validated[Top.uri])]
  /\ reported' = [reported EXCEPT ![Top.uri] = Top.errors]
  /\ stack' = << >>
  /\ UNCHANGED <<disk, default_table, validated, before>>

\* A parse throws: every parser on the stack is gone, their entries stay.  Only
\* Workspace has this step.
Throw ==
  /\ Busy
  /\ stack' = << >>
  /\ UNCHANGED <<disk, DocumentManager, default_table, validated, reported, before>>

Import == ImportKnown \/ ImportPending \/ ImportUnreadable \/ ImportReads

Step == Term \/ OpDirective \/ ModuleDirective \/ Exports \/ Import \/ Return \/ Finish

Next == (\E u \in Uri : Validate(u)) \/ Step

Spec == Init /\ [][Next]_vars

-----------------------------------------------------------------------------
(* Properties. *)

Parsers == [uri : Uri, rest : Seq(ProgramItem), user : Table,
            terms : Seq(Reading), errors : SUBSET Error]

\* Every variable keeps its type.
TypeOK ==
  /\ disk \in [Uri -> Programs \cup {Unreadable}]
  /\ DocumentManager \in [Uri -> Analyses \cup {Absent, Pending}]
  /\ before \in [Uri -> Analyses \cup {Absent, Pending}]
  /\ default_table \in Table
  /\ stack \in Seq(Parsers)
  /\ validated \in [Uri -> Nat]
  /\ reported \in [Uri -> SUBSET Error]

\* No file is parsed inside its own parse, however the files import each other:
\* the parsers on the stack read different files (use_module_1 marks the entry
\* before it reads the file).
NoReentry ==
  \A i, j \in 1..Len(stack) : stack[i].uri = stack[j].uri => i = j

\* Between validations, while no parse throws, an undefined entry is one of a file
\* that could not be read: no import leaves another entry undefined.
PendingOnlyUnreadable ==
  ~Busy => \A u \in Uri : DocumentManager[u] = Pending => disk[u] = Unreadable

\* A document that ends up with an operator of a reserved name, defined or
\* imported, was told that it has no permission to modify it.
NoSilentReservedOperator ==
  \A u \in Uri :
    Known(u) /\ DocumentManager[u].version > 0
      /\ (\E key \in Key : key[1] \in Reserved /\ DocumentManager[u].user[key] # 0)
    => "permission" \in reported[u]

\* What the session layer takes a validation for: one step that replaces the
\* entry of the document and otherwise only adds entries for files without one.
Seen(entry) == IF entry \in {Absent, Pending} THEN entry ELSE entry.version

Store == INSTANCE AnalysisStore
  WITH content <- validated,
       analysis <- [u \in Uri |-> Seen(IF Busy THEN before[u] ELSE DocumentManager[u])],
       Broken <- Pending

\* The loader implements the store of analyses the session layer relies on.
ImplementsStore == Store!Spec
=============================================================================
