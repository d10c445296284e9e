------------------------------ MODULE Workspace ------------------------------
(***************************************************************************)
(* The loader while its files change: a document is opened, edited and     *)
(* saved between the parses, and what the parses read is then not one      *)
(* program a file but two, the text of the open document                   *)
(* (validateTextDocument, server.ts) and the file on disk (use_module_1,   *)
(* indexer.ts).  How a validation waits for its settings is in             *)
(* LanguageServer; here it comes at any time after the change it is for.   *)
(***************************************************************************)
EXTENDS ModuleLoaderReference

CONSTANTS
  Closed,    \* the text of a document that is not open
  MaxEdits   \* bound: edits in one behaviour

VARIABLES
  text,      \* text[u]: the program in the editor
  owed,      \* owed[u]: validations of u that wait for its settings
  edits,     \* how many edits there were
  program,   \* program[u]: what the entry of u was made from
  since      \* since[u]: the files whose entries were made since that of u was

editorVars == <<text, owed, edits>>
history    == <<program, since>>
allVars    == <<vars, editorVars, history>>

ASSUME ClosedIsNone == Closed \notin Programs \cup {Unreadable}
ASSUME EditsAreNat == MaxEdits \in Nat

WorkspaceInit ==
  /\ Init
  /\ text = [u \in Uri |-> Closed]
  /\ owed = [u \in Uri |-> 0]
  /\ edits = 0
  /\ program = [u \in Uri |-> Unreadable]
  /\ since = [u \in Uri |-> {}]

\* A step of the loader that makes the entry of a file anew notes from what: from
\* nothing when it becomes undefined, else from what its parser has read.
Made == {u \in Uri : DocumentManager'[u] # DocumentManager[u]}

Note ==
  /\ program' = [u \in Uri |-> IF u \notin Made THEN program[u]
                               ELSE IF DocumentManager'[u] = Pending THEN Unreadable
                               ELSE IF Len(stack) = 1 THEN text[u]
                               ELSE disk[u]]
  /\ since' = [u \in Uri |-> IF u \in Made THEN {} ELSE since[u] \cup Made]

-----------------------------------------------------------------------------
(* The editor.  It changes nothing during a parse, which is synchronous.       *)

Editor(u, content) ==
  /\ ~Busy
  /\ text' = [text EXCEPT ![u] = content]
  /\ owed' = [owed EXCEPT ![u] = @ + 1]
  /\ UNCHANGED <<vars, history>>

\* onDidChangeContent comes when a document is opened and when it is edited.
Open(u) ==
  /\ text[u] = Closed
  /\ disk[u] # Unreadable
  /\ Editor(u, disk[u])
  /\ UNCHANGED edits

Edit(u, content) ==
  /\ text[u] # Closed
  /\ edits < MaxEdits
  /\ edits' = edits + 1
  /\ Editor(u, content)

\* The client may tell the server, which logs it (onDidChangeWatchedFiles).
Save(u) ==
  /\ ~Busy
  /\ text[u] # Closed
  /\ disk' = [disk EXCEPT ![u] = text[u]]
  /\ UNCHANGED <<DocumentManager, default_table, stack, validated, reported, before,
                 editorVars, history>>

\* A wrong variant: the document as it is on disk.
SavedText(u) == disk[u]

\* The text the document has by now.
CurrentText(u) == text[u]

\* validateTextDocument goes on when it has the settings.
ValidateText(u) ==
  /\ owed[u] > 0
  /\ owed' = [owed EXCEPT ![u] = @ - 1]
  /\ Begin(u, CurrentText(u))
  /\ Note
  /\ UNCHANGED <<text, edits>>

LoaderStep == Step /\ Note /\ UNCHANGED editorVars

\* A parse may throw at any point.
LoaderThrow == Throw /\ UNCHANGED <<editorVars, history>>

WorkspaceNext ==
  \/ \E u \in Uri : Open(u) \/ Save(u) \/ ValidateText(u) \/ \E p \in Programs : Edit(u, p)
  \/ LoaderStep
  \/ LoaderThrow

\* A parse is a call: once begun it goes on.
WorkspaceSpec == WorkspaceInit /\ [][WorkspaceNext]_allVars /\ WF_allVars(LoaderStep)

-----------------------------------------------------------------------------
(* Properties.                                                                 *)

\* No import of u, near or far, was analysed after a file that imports it.
ImportsAreSettled(u) ==
  \A v \in Reached(program, u) \cup {u} : Imports(program, v) \cap since[v] = {}

\* Importers go stale in one way only: while nothing that a document reaches was
\* analysed after a file that imports it, the document has the operators that the
\* last analysed texts mean, those of the editor for open documents, whatever was
\* opened, edited, saved, read from disk or failed in between (use_module_1
\* absorbs what an import has at the time, and is not told when that changes).
StaleOnlyBehindImports ==
  \A u \in Uri :
    Known(u) /\ Acyclic(program, u) /\ ImportsAreSettled(u) =>
      DocumentManager[u].user = ReferenceTables(program)[u]

\* Every validation ends, also when files import each other in a cycle.
EveryLoadEnds == Busy ~> ~Busy
=============================================================================
