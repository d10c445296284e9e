-------------------------- MODULE Workspace_proofs --------------------------
(***************************************************************************)
(* The loader keeps its promises while its files change: what              *)
(* ModuleLoader_proofs shows of every program a validation may read holds  *)
(* for the texts of an editor that opens, edits and saves at any time.     *)
(***************************************************************************)
EXTENDS Workspace, ModuleLoader_proofs

\* A validation is owed to open documents only, and these have a program.
TextTypeOK ==
  /\ text \in [Uri -> Programs \cup {Closed}]
  /\ owed \in [Uri -> Nat]
  /\ \A u \in Uri : owed[u] > 0 => text[u] # Closed

WorkspaceInv ==
  /\ IInv
  /\ TextTypeOK
  /\ ParsersAreTold
  /\ NoSilentReservedOperator

-----------------------------------------------------------------------------
(* A step moves the loader, or the editor with at most a file on disk. *)

\* What the loader can see of a step of the editor.
OnlyDisk ==
  /\ disk' \in [Uri -> Programs \cup {Unreadable}]
  /\ UNCHANGED <<DocumentManager, default_table, stack, validated, reported, before>>

LEMMA StepKinds ==
  ASSUME TypeOK, TextTypeOK, [WorkspaceNext]_allVars
  PROVE  [Runs]_vars \/ OnlyDisk
  <1>1. ASSUME NEW u \in Uri, ValidateText(u)
        PROVE  Runs
    <2>1. text[u] \in Programs
      BY <1>1 DEF ValidateText, TextTypeOK
    <2>2. Begin(u, text[u])
      BY <1>1 DEF ValidateText, CurrentText
    <2>3. QED
      BY <2>1, <2>2 DEF Runs
  <1>2. ASSUME NEW u \in Uri, Save(u)
        PROVE  OnlyDisk
    <2>1. text[u] \in Programs
      BY <1>2 DEF Save, TextTypeOK
    <2>2. disk' = [disk EXCEPT ![u] = text[u]]
      BY <1>2 DEF Save
    <2>3. disk' \in [Uri -> Programs \cup {Unreadable}]
      BY <2>1, <2>2 DEF TypeOK
    <2>4. QED
      BY <1>2, <2>3 DEF Save, OnlyDisk
  <1>3. ASSUME NEW u \in Uri, Open(u) \/ \E p \in Programs : Edit(u, p)
        PROVE  UNCHANGED vars
    BY <1>3 DEF Open, Edit, Editor
  <1>4. LoaderStep \/ LoaderThrow => Runs
    BY DEF LoaderStep, LoaderThrow, Runs
  <1>5. UNCHANGED allVars => UNCHANGED vars
    BY DEF allVars
  <1>6. QED
    BY <1>1, <1>2, <1>3, <1>4, <1>5 DEF WorkspaceNext

\* The editor keeps its own types.
LEMMA TextStep ==
  ASSUME TypeOK, TextTypeOK, [WorkspaceNext]_allVars
  PROVE  TextTypeOK'
  <1>1. ASSUME NEW u \in Uri, NEW p \in Programs, Editor(u, p)
        PROVE  TextTypeOK'
    <2>1. p # Closed
      BY ClosedIsNone
    <2>2. QED
      BY <1>1, <2>1 DEF Editor, TextTypeOK
  <1>2. ASSUME NEW u \in Uri, Open(u)
        PROVE  TextTypeOK'
    <2>1. disk[u] \in Programs
      BY <1>2 DEF Open, TypeOK
    <2>2. QED
      BY <1>1, <1>2, <2>1 DEF Open
  <1>3. ASSUME NEW u \in Uri, NEW p \in Programs, Edit(u, p)
        PROVE  TextTypeOK'
    BY <1>1, <1>3 DEF Edit
  <1>4. ASSUME NEW u \in Uri, ValidateText(u)
        PROVE  TextTypeOK'
    <2>1. text' = text /\ owed' = [owed EXCEPT ![u] = @ - 1] /\ owed[u] > 0
      BY <1>4 DEF ValidateText
    <2>2. owed' \in [Uri -> Nat]
      BY <2>1 DEF TextTypeOK
    <2>3. \A v \in Uri : owed'[v] > 0 => owed[v] > 0
      BY <2>1 DEF TextTypeOK
    <2>4. QED
      BY <2>1, <2>2, <2>3 DEF TextTypeOK
  <1>5. (\E u \in Uri : Save(u)) \/ LoaderStep \/ LoaderThrow \/ UNCHANGED allVars
          => UNCHANGED <<text, owed>>
    BY DEF Save, LoaderStep, LoaderThrow, allVars, editorVars
  <1>6. UNCHANGED <<text, owed>> => TextTypeOK'
    BY DEF TextTypeOK
  <1>7. QED
    BY <1>2, <1>3, <1>4, <1>5, <1>6 DEF WorkspaceNext

\* What the loader keeps does not depend on the files on disk.
LEMMA DiskStep ==
  ASSUME IInv, ParsersAreTold, NoSilentReservedOperator, OnlyDisk
  PROVE  IInv' /\ ParsersAreTold' /\ NoSilentReservedOperator'
  <1>1. TypeOK'
    BY DEF IInv, TypeOK, OnlyDisk
  <1>2. StackInv'
    <2>1. ImportersWait' /\ NoReentry' /\ ParsedArePending' /\ NestedWereAbsent'
      BY DEF IInv, StackInv, ImportersWait, NoReentry, ParsedArePending, NestedWereAbsent,
             OnlyDisk
    <2>2. OnlyAbsentFilled'
      BY DEF IInv, StackInv, OnlyAbsentFilled, OnlyDisk, Seen, Busy
    <2>3. QED
      BY <2>1, <2>2 DEF StackInv
  <1>3. VersionsAreValidations'
    BY DEF IInv, VersionsAreValidations, OnlyDisk, Seen, Busy
  <1>4. ParsersAreTold' /\ NoSilentReservedOperator'
    BY DEF ParsersAreTold, NoSilentReservedOperator, OnlyDisk, Known
  <1>5. QED
    BY <1>1, <1>2, <1>3, <1>4 DEF IInv

\* The invariant is kept by every step.
LEMMA WorkspaceStep ==
  ASSUME WorkspaceInv, [WorkspaceNext]_allVars
  PROVE  WorkspaceInv'
  <1> USE DEF WorkspaceInv
  <1>1. TypeOK
    BY DEF IInv
  <1>2. TextTypeOK'
    BY <1>1, TextStep
  <1>3. CASE [Runs]_vars
    BY <1>2, <1>3, TypeStep, StackStep, VersionStep, ToldStep, SilentStep DEF IInv, StackInv
  <1>4. CASE OnlyDisk
    BY <1>2, <1>4, DiskStep
  <1>5. QED
    BY <1>1, <1>3, <1>4, StepKinds

\* It holds before anything was opened.
LEMMA WorkspaceStart ==
  ASSUME WorkspaceInit
  PROVE  WorkspaceInv
  <1>1. TextTypeOK
    BY DEF WorkspaceInit, TextTypeOK
  <1>2. QED
    BY <1>1, InitInv DEF WorkspaceInit, WorkspaceInv

\* It always holds.
LEMMA WorkspaceInductive == WorkspaceSpec => []WorkspaceInv
  BY WorkspaceStart, WorkspaceStep, PTL DEF WorkspaceSpec

-----------------------------------------------------------------------------
(* What a parser has read, and has ahead, together mean what its text means, *)
(* whatever the files it has not imported yet turn out to be.                *)

\* The text the parser at place i reads, and the files whose entries stay as they are
\* until it ends: those with an entry whose parsers are not above it.
ReadBy(i) == IF i = Len(stack) THEN text[stack[i].uri] ELSE disk[stack[i].uri]

SettledFor(i) == {w \in Uri : /\ DocumentManager[w] # Absent
                              /\ \A j \in 1..(i - 1) : stack[j].uri # w}

\* A table with these items ahead comes to what the content means, for all tables of
\* the other files that are those of S now.
Follows(table, rest, content, S, current) ==
  \A X \in [Uri -> Table] : (\A w \in S : X[w] = current[w])
    => After(table, Items(rest), X) = After(EmptyTable, Items(content), X)

ParserFollows(i) ==
  /\ ReadBy(i) \in Programs
  /\ Follows(stack[i].user, stack[i].rest, ReadBy(i), SettledFor(i), Absorbed)

ParsersFollow == \A i \in 1..Len(stack) : ParserFollows(i)

\* An entry is what its text means while no import was made after it.
EntryFollows(u) ==
  Known(u) /\ u \notin Imports(program, u) /\ Imports(program, u) \cap since[u] = {}
    => DocumentManager[u].user = After(EmptyTable, Items(program[u]), Absorbed)

EntriesFollow == \A u \in Uri : EntryFollows(u)

\* What an analysis was made from is known, and nothing else is.
ProgramsKnown ==
  /\ program \in Contents
  /\ \A u \in Uri : Known(u) <=> program[u] # Unreadable

\* A settled file more, or one that no longer counts, changes nothing.
LEMMA FollowsMore ==
  ASSUME NEW t, NEW rest, NEW content, NEW S, NEW T, NEW f, NEW g, S \subseteq T,
         \A w \in S : f[w] = g[w], Follows(t, rest, content, S, f)
  PROVE  Follows(t, rest, content, T, g)
  BY DEF Follows

\* A parser that takes an item whose import, if it is one, is settled then.
LEMMA FollowsItem ==
  ASSUME NEW t, NEW rest, NEW x \in PlainItem, NEW more, Items(more) \in Seq(PlainItem),
         Items(rest) = <<x>> \o Items(more), NEW imported, NEW content,
         NEW S, NEW T, NEW f, NEW g, S \subseteq T, \A w \in S : f[w] = g[w],
         x.kind = "use_module" => x.file \in T /\ imported[x.file] = g[x.file],
         Follows(t, rest, content, S, f)
  PROVE  Follows(AfterOne(t, x, imported), more, content, T, g)
  <1> SUFFICES ASSUME NEW X \in [Uri -> Table], \A w \in T : X[w] = g[w]
               PROVE  After(AfterOne(t, x, imported), Items(more), X)
                        = After(EmptyTable, Items(content), X)
    BY DEF Follows
  <1>1. After(t, Items(rest), X) = After(EmptyTable, Items(content), X)
    BY DEF Follows
  <1>2. AfterOne(t, x, imported) = AfterOne(t, x, X)
    <2>1. CASE x.kind = "use_module"
      <3>1. imported[x.file] = X[x.file]
        BY <2>1
      <3>2. QED
        BY <2>1, <3>1 DEF AfterOne, SaysAnything, PrecedenceOf, DefinesOperator
    <2>2. CASE x.kind # "use_module"
      BY <2>2 DEF AfterOne, SaysAnything, PrecedenceOf, DefinesOperator
    <2>3. QED
      BY <2>1, <2>2
  <1>3. After(t, <<x>> \o Items(more), X) = After(AfterOne(t, x, X), Items(more), X)
    BY AfterFirst
  <1>4. QED
    BY <1>1, <1>2, <1>3

\* At its end it has the table its text means with the other tables there are.
LEMMA FollowsEnd ==
  ASSUME NEW t \in Table, NEW content, NEW S, NEW f \in [Uri -> Table],
         Follows(t, << >>, content, S, f)
  PROVE  t = After(EmptyTable, Items(content), f)
  <1>1. After(t, Items(<< >>), f) = After(EmptyTable, Items(content), f)
    BY DEF Follows
  <1>2. QED
    BY <1>1, ItemsNone, AfterNone

\* A new parser has its whole text ahead.
LEMMA FollowsNew ==
  ASSUME NEW content, NEW S, NEW f
  PROVE  Follows(EmptyTable, content, content, S, f)
  BY DEF Follows

\* Every file has a table, an empty one before it is analysed.
LEMMA AbsorbedTyped ==
  ASSUME TypeOK
  PROVE  Absorbed \in [Uri -> Table]
  <1>1. ASSUME NEW u \in Uri, Known(u)
        PROVE  DocumentManager[u].user \in Table
    BY <1>1 DEF Known, TypeOK, Analyses
  <1>2. QED
    BY <1>1, EmptyIsTable DEF Absorbed

\* How a step of the loader changes entries.
LEMMA EntryKinds ==
  ASSUME TypeOK, Runs, NEW u \in Uri
  PROVE  \/ DocumentManager'[u] = DocumentManager[u]
         \/ DocumentManager'[u] = Pending
         \/ /\ Return \/ Finish
            /\ u = Top.uri /\ \E n \in Nat : DocumentManager'[u] = Analysis(Top, n)
  <1>1. CASE Return
    BY <1>1 DEF Return, StoredImport, TypeOK
  <1>2. CASE Finish
    <2>1. Top.uri \in Uri
      BY <1>2, StackUris DEF Finish, Top
    <2>2. validated[Top.uri] \in Nat
      BY <2>1 DEF TypeOK
    <2>3. DocumentManager' = [DocumentManager EXCEPT ![Top.uri] = Analysis(Top, validated[Top.uri])]
      BY <1>2 DEF Finish
    <2>4. QED
      BY <1>2, <2>2, <2>3 DEF TypeOK
  <1>3. CASE (\E w \in Uri, q \in Programs : Begin(w, q)) \/ ImportReads \/ ImportUnreadable
    BY <1>3 DEF Begin, ImportReads, ImportUnreadable, TypeOK
  <1>4. CASE Term \/ OpDirective \/ ModuleDirective \/ Exports \/ ImportKnown \/ ImportPending \/ Throw
    BY <1>4 DEF Term, OpDirective, ModuleDirective, Exports, ImportKnown, ImportPending, Throw
  <1>5. QED
    BY <1>1, <1>2, <1>3, <1>4 DEF Runs, Step, Import

\* An entry that a step leaves alone still follows: if it is to count, its imports
\* were left alone too.
LEMMA KeptEntry ==
  ASSUME TypeOK, ProgramsKnown, EntriesFollow, Note, NEW u \in Uri, u \notin Made
  PROVE  EntryFollows(u)'
  <1> SUFFICES ASSUME Known(u)', u \notin Imports(program', u),
                      Imports(program', u) \cap since'[u] = {}
               PROVE  DocumentManager'[u].user = After(EmptyTable, Items(program'[u]), Absorbed')
    BY DEF EntryFollows
  <1>1. DocumentManager'[u] = DocumentManager[u]
    BY DEF Made
  <1>2. Known(u)
    BY <1>1 DEF Known
  <1>3. program'[u] = program[u] /\ since'[u] = since[u] \cup Made
    BY DEF Note
  <1>4. Imports(program', u) = Imports(program, u)
    BY <1>3 DEF Imports
  <1>5. Imports(program, u) \cap since[u] = {} /\ Imports(program, u) \cap Made = {}
    BY <1>3, <1>4
  <1>6. DocumentManager[u].user = After(EmptyTable, Items(program[u]), Absorbed)
    BY <1>2, <1>4, <1>5 DEF EntriesFollow, EntryFollows
  <1>7. program \in Contents /\ program[u] # Unreadable
    BY <1>2 DEF ProgramsKnown
  <1>8. ASSUME NEW w \in Imports(program, u)
        PROVE  Absorbed'[w] = Absorbed[w]
    <2>1. w \in Uri /\ w \notin Made
      BY <1>5, <1>7, ImportsTyped
    <2>2. DocumentManager'[w] = DocumentManager[w]
      BY <2>1 DEF Made
    <2>3. Known(w)' <=> Known(w)
      BY <2>2 DEF Known
    <2>4. QED
      BY <2>1, <2>2, <2>3 DEF Absorbed
  <1>9. After(EmptyTable, Items(program[u]), Absorbed) = After(EmptyTable, Items(program[u]), Absorbed')
    <2>1. Items(program[u]) \in Seq(PlainItem)
      BY <1>7, ProgramsAreItems, ItemsTyped DEF Contents
    <2>2. PICK f, g : f = Absorbed /\ g = Absorbed'
      OBVIOUS
    <2>3. \A i \in DOMAIN Items(program[u]) : Items(program[u])[i].kind = "use_module"
            => f[Items(program[u])[i].file] = g[Items(program[u])[i].file]
      BY <1>7, <1>8, <2>2, ItemsAreImports
    <2>4. After(EmptyTable, Items(program[u]), f) = After(EmptyTable, Items(program[u]), g)
      BY <2>1, <2>3, AfterSame
    <2>5. QED
      BY <2>2, <2>4
  <1>10. QED
    BY <1>1, <1>3, <1>6, <1>9

\* A step that changes no table.
LEMMA SameTables ==
  ASSUME \A u \in Uri : \/ DocumentManager'[u] = DocumentManager[u]
                        \/ ~Known(u) /\ DocumentManager'[u] = Pending
  PROVE  Absorbed' = Absorbed
  <1>1. \A u \in Uri : Known(u)' <=> Known(u)
    BY DEF Known
  <1>2. \A u \in Uri : Known(u)' => DocumentManager'[u] = DocumentManager[u]
    BY DEF Known
  <1>3. QED
    BY <1>1, <1>2 DEF Absorbed

\* A parser that is where it was, or one place further.
LEMMA ParserStays ==
  ASSUME TypeOK, ParsersFollow, UNCHANGED <<text, disk>>, NEW i \in 1..Len(stack), NEW k \in Nat,
         stack'[k] = stack[i], k = Len(stack') <=> i = Len(stack),
         SettledFor(i) \subseteq SettledFor(k)',
         \A w \in SettledFor(i) : Absorbed[w] = Absorbed'[w]
  PROVE  ParserFollows(k)'
  <1>1. ReadBy(k)' = ReadBy(i)
    BY DEF ReadBy
  <1>2. PICK c, f, g, S, T : /\ c = ReadBy(i) /\ f = Absorbed /\ g = Absorbed'
                             /\ S = SettledFor(i) /\ T = SettledFor(k)'
    OBVIOUS
  <1>3. c \in Programs /\ Follows(stack[i].user, stack[i].rest, c, S, f)
    BY <1>2 DEF ParsersFollow, ParserFollows
  <1>4. Follows(stack[i].user, stack[i].rest, c, T, g)
    BY <1>2, <1>3, FollowsMore
  <1>5. QED
    BY <1>1, <1>2, <1>3, <1>4 DEF ParserFollows

\* A parser that takes an item.
LEMMA ParserTakes ==
  ASSUME TypeOK, ParsersFollow, UNCHANGED <<text, disk>>, NEW i \in 1..Len(stack), NEW k \in Nat,
         k = Len(stack') <=> i = Len(stack), stack'[k] \in Parsers,
         stack'[k].uri = stack[i].uri, NEW x \in PlainItem, NEW imported,
         Items(stack[i].rest) = <<x>> \o Items(stack'[k].rest),
         stack'[k].user = AfterOne(stack[i].user, x, imported),
         x.kind = "use_module" => x.file \in SettledFor(k)' /\ imported[x.file] = Absorbed'[x.file],
         SettledFor(i) \subseteq SettledFor(k)',
         \A w \in SettledFor(i) : Absorbed[w] = Absorbed'[w]
  PROVE  ParserFollows(k)'
  <1>1. ReadBy(k)' = ReadBy(i)
    BY DEF ReadBy
  <1>2. PICK c, f, g, S, T : /\ c = ReadBy(i) /\ f = Absorbed /\ g = Absorbed'
                             /\ S = SettledFor(i) /\ T = SettledFor(k)'
    OBVIOUS
  <1>3. c \in Programs /\ Follows(stack[i].user, stack[i].rest, c, S, f)
    BY <1>2 DEF ParsersFollow, ParserFollows
  <1>4. PICK p, q : p = stack[i] /\ q = stack'[k]
    OBVIOUS
  <1>5. Items(q.rest) \in Seq(PlainItem)
    BY <1>4, ItemsTyped DEF Parsers
  <1>6. Follows(AfterOne(p.user, x, imported), q.rest, c, T, g)
    <2>1. /\ Items(p.rest) = <<x>> \o Items(q.rest) /\ Follows(p.user, p.rest, c, S, f)
          /\ S \subseteq T /\ \A w \in S : f[w] = g[w]
          /\ x.kind = "use_module" => x.file \in T /\ imported[x.file] = g[x.file]
      BY <1>2, <1>3, <1>4
    <2>2. QED
      BY <1>5, <2>1, FollowsItem
  <1>7. Follows(stack'[k].user, stack'[k].rest, c, T, g)
    BY <1>4, <1>6
  <1>8. QED
    BY <1>1, <1>2, <1>3, <1>7 DEF ParserFollows

\* The parser at the top goes on.
LEMMA AdvancingFollows ==
  ASSUME TypeOK, TypeOK', ParsersFollow, AdvancingStep, text' = text
  PROVE  ParsersFollow'
  <1>1. /\ Len(stack') = Len(stack) /\ Len(stack) \in Nat \ {0}
        /\ \A i \in 1..Len(stack) : stack'[i].uri = stack[i].uri
        /\ \A i \in 2..Len(stack) : stack'[i] = stack[i]
    BY StepAdvances, AdvanceShape
  <1>2. disk' = disk
    BY DEF AdvancingStep, Term, OpDirective, ModuleDirective, Exports, ImportKnown,
           ImportPending, ImportUnreadable
  <1>3. \A u \in Uri : \/ DocumentManager'[u] = DocumentManager[u]
                       \/ ~Known(u) /\ DocumentManager'[u] = Pending
    <2>1. CASE ImportUnreadable
      BY <2>1 DEF ImportUnreadable, TypeOK, Known
    <2>2. CASE ~ImportUnreadable
      BY <2>2 DEF AdvancingStep, Term, OpDirective, ModuleDirective, Exports, ImportKnown,
                  ImportPending
    <2>3. QED
      BY <2>1, <2>2
  <1>4. Absorbed' = Absorbed
    BY <1>3, SameTables
  <1>5. ASSUME NEW i \in 1..Len(stack)
        PROVE  SettledFor(i) \subseteq SettledFor(i)'
    <2>1. \A j \in 1..(i - 1) : stack'[j].uri = stack[j].uri
      BY <1>1, <1>5
    <2>2. \A u \in Uri : DocumentManager[u] # Absent => DocumentManager'[u] # Absent
      BY <1>3, EntriesDiffer
    <2>3. QED
      BY <2>1, <2>2 DEF SettledFor
  <1>6. PICK q : stack' = <<q>> \o Tail(stack) /\ Takes(Top, q)
    BY TopTakes
  <1>7. stack'[1] = q /\ Top = stack[1] /\ stack'[1] \in Parsers /\ 1 \in 1..Len(stack)
    <2>1. 1 \in 1..Len(stack')
      BY <1>1
    <2>2. Tail(stack) \in Seq(Parsers)
      BY <1>1 DEF TypeOK
    <2>3. stack'[1] = q
      BY <1>6, <2>2
    <2>4. stack'[1] \in Parsers
      BY <2>1 DEF TypeOK
    <2>5. QED
      BY <1>1, <2>3, <2>4 DEF Top
  <1>8. ASSUME NEW i \in 1..Len(stack)
        PROVE  ParserFollows(i)'
    <2>1. i \in Nat /\ SettledFor(i) \subseteq SettledFor(i)'
      BY <1>1, <1>5
    <2>2. CASE i # 1
      <3>1. stack'[i] = stack[i]
        BY <1>1, <2>2
      <3>2. QED
        BY <1>1, <1>2, <1>4, <2>1, <3>1, ParserStays
    <2>3. CASE i = 1 /\ Items(q.rest) = Items(Top.rest) /\ q.user = Top.user
      <3>1. ReadBy(1)' = ReadBy(1)
        BY <1>1, <1>2, <1>7 DEF ReadBy
      <3>2. PICK c, f, S, T : c = ReadBy(1) /\ f = Absorbed /\ S = SettledFor(1) /\ T = SettledFor(1)'
        OBVIOUS
      <3>3. c \in Programs /\ Follows(Top.user, Top.rest, c, S, f)
        BY <1>7, <3>2 DEF ParsersFollow, ParserFollows
      <3>4. Follows(q.user, q.rest, c, T, f)
        <4>1. S \subseteq T
          BY <2>1, <2>3, <3>2
        <4>2. Follows(Top.user, Top.rest, c, T, f)
          BY <3>3, <4>1, FollowsMore
        <4>3. QED
          BY <2>3, <4>2 DEF Follows
      <3>5. ReadBy(1)' \in Programs /\ Follows(stack'[1].user, stack'[1].rest, ReadBy(1)', SettledFor(1)', Absorbed')
        BY <1>4, <1>7, <3>1, <3>2, <3>3, <3>4
      <3>6. QED
        BY <2>3, <3>5 DEF ParserFollows
    <2>4. CASE i = 1 /\ \E x : /\ TakesItem(Top, q, x, Absorbed)
                               /\ x.kind = "use_module" => DocumentManager'[x.file] # Absent
      <3>1. PICK x : /\ TakesItem(Top, q, x, Absorbed)
                     /\ x.kind = "use_module" => DocumentManager'[x.file] # Absent
        BY <2>4
      <3>2. /\ x \in PlainItem /\ Items(stack[1].rest) = <<x>> \o Items(stack'[1].rest)
            /\ stack'[1].user = AfterOne(stack[1].user, x, Absorbed)
        BY <1>7, <3>1 DEF TakesItem
      <3>3. x.kind = "use_module" => x.file \in SettledFor(1)'
        <4>1. x.kind = "use_module" => x.file \in Uri
          BY <3>2, ItemFields DEF PlainItem
        <4>2. QED
          BY <3>1, <4>1 DEF SettledFor
      <3>4. PICK f : f = Absorbed
        OBVIOUS
      <3>5. ParserFollows(1)'
        BY <1>1, <1>2, <1>4, <1>7, <2>1, <2>4, <3>2, <3>3, ParserTakes
      <3>6. QED
        BY <2>4, <3>5
    <2>5. QED
      BY <1>6, <2>2, <2>3, <2>4 DEF Takes
  <1>9. QED
    BY <1>1, <1>8 DEF ParsersFollow

\* An import is read: its parser has everything ahead, the others wait.
LEMMA ReadingFollows ==
  ASSUME TypeOK, TypeOK', ParsersFollow, ImportReads, text' = text
  PROVE  ParsersFollow'
  <1>1. /\ Len(stack') = Len(stack) + 1 /\ Len(stack) \in Nat \ {0}
        /\ stack'[1].uri = Item.file /\ Item.file \in Uri
        /\ \A i \in 2..(Len(stack) + 1) : stack'[i] = stack[i - 1]
    BY PushShape
  <1>2. /\ disk' = disk /\ disk[Item.file] # Unreadable /\ DocumentManager[Item.file] = Absent
        /\ DocumentManager' = [DocumentManager EXCEPT ![Item.file] = Pending]
        /\ stack' = <<Parser(Item.file, disk[Item.file])>> \o stack
    BY DEF ImportReads, ToRead, MarkedBeforeReading
  <1>3. \A u \in Uri : \/ DocumentManager'[u] = DocumentManager[u] /\ u # Item.file
                       \/ ~Known(u) /\ DocumentManager'[u] = Pending
    BY <1>1, <1>2 DEF Known, TypeOK
  <1>4. Absorbed' = Absorbed
    BY <1>3, SameTables
  <1>5. ASSUME NEW i \in 1..Len(stack), NEW w \in SettledFor(i)
        PROVE  w \in SettledFor(i + 1)'
    <2>1. w \in Uri /\ DocumentManager[w] # Absent /\ w # Item.file
      BY <1>2 DEF SettledFor
    <2>2. DocumentManager'[w] # Absent
      BY <1>3, <2>1, EntriesDiffer
    <2>3. ASSUME NEW j \in 1..((i + 1) - 1)
          PROVE  stack'[j].uri # w
      <3>1. CASE j = 1
        BY <1>1, <2>1, <3>1
      <3>2. CASE j # 1
        <4>1. stack'[j] = stack[j - 1] /\ j - 1 \in 1..(i - 1)
          BY <1>1, <3>2
        <4>2. QED
          BY <4>1 DEF SettledFor
      <3>3. QED
        BY <3>1, <3>2
    <2>4. QED
      BY <2>1, <2>2, <2>3 DEF SettledFor
  <1>6. ParserFollows(1)'
    <2>1. stack'[1] = Parser(Item.file, disk[Item.file])
      BY <1>1, <1>2 DEF TypeOK
    <2>2. stack'[1].rest = disk[Item.file] /\ stack'[1].user = EmptyTable
      BY <2>1 DEF Parser, InitialTable
    <2>3. 1 # Len(stack')
      BY <1>1
    <2>4. ReadBy(1)' = disk[Item.file]
      BY <1>1, <1>2, <2>3 DEF ReadBy
    <2>5. disk[Item.file] \in Programs
      BY <1>1, <1>2 DEF TypeOK
    <2>6. QED
      BY <2>2, <2>4, <2>5, FollowsNew DEF ParserFollows
  <1>7. ASSUME NEW k \in 1..Len(stack'), k # 1
        PROVE  ParserFollows(k)'
    <2>1. PICK i \in 1..Len(stack) : k = i + 1
      <3>1. k - 1 \in 1..Len(stack) /\ k = (k - 1) + 1
        BY <1>1, <1>7
      <3>2. QED
        BY <3>1
    <2>2. stack'[k] = stack[i] /\ k \in Nat /\ (k = Len(stack') <=> i = Len(stack))
      BY <1>1, <2>1
    <2>3. SettledFor(i) \subseteq SettledFor(k)'
      BY <1>5, <2>1
    <2>4. QED
      BY <1>2, <1>4, <2>2, <2>3, ParserStays
  <1>8. QED
    BY <1>6, <1>7 DEF ParsersFollow

\* How a nested parse ends.
LEMMA ReturnEntries ==
  ASSUME TypeOK, Return
  PROVE  /\ Top.uri \in Uri /\ Absorbed'[Top.uri] = Top.user
         /\ \A w \in Uri : w # Top.uri => Absorbed'[w] = Absorbed[w]
         /\ \A w \in Uri : DocumentManager[w] # Absent => DocumentManager'[w] # Absent
         /\ DocumentManager'[Top.uri] # Absent
  <1>1. Len(stack) > 1 /\ DocumentManager' = [DocumentManager EXCEPT ![Top.uri] = Analysis(Top, 0)]
    BY DEF Return, StoredImport
  <1>2. Top \in Parsers /\ Top.uri \in Uri
    BY <1>1, StackUris DEF Top
  <1>3. Analysis(Top, 0) \in Analyses /\ Analysis(Top, 0).user = Top.user
    BY <1>2 DEF Analysis, Analyses, Parsers
  <1>4. Analysis(Top, 0) \notin {Absent, Pending}
    BY <1>3, EntriesDiffer
  <1>5. \A w \in Uri : DocumentManager'[w] = IF w = Top.uri THEN Analysis(Top, 0)
                                             ELSE DocumentManager[w]
    BY <1>1 DEF TypeOK
  <1>6. PICK t, a : t = Top.uri /\ a = Analysis(Top, 0)
    OBVIOUS
  <1>7. Known(t)' /\ \A w \in Uri : w # t => (Known(w)' <=> Known(w))
    BY <1>2, <1>4, <1>5, <1>6 DEF Known
  <1>8. Absorbed'[t] = a.user
    BY <1>2, <1>5, <1>6, <1>7 DEF Absorbed
  <1>9. \A w \in Uri : w # t => Absorbed'[w] = Absorbed[w]
    BY <1>5, <1>6, <1>7 DEF Absorbed
  <1>10. \A w \in Uri : DocumentManager[w] # Absent => DocumentManager'[w] # Absent
    BY <1>4, <1>5
  <1>11. QED
    BY <1>2, <1>3, <1>4, <1>5, <1>6, <1>8, <1>9, <1>10

\* A nested parse ends: its importer takes the import, the others wait.
LEMMA ReturnFollows ==
  ASSUME TypeOK, TypeOK', ImportersWait, ParsersFollow, Return, text' = text
  PROVE  ParsersFollow'
  <1>1. /\ Len(stack') = Len(stack) - 1 /\ Len(stack) \in Nat /\ Len(stack) > 1
        /\ stack'[1].uri = stack[2].uri
        /\ \A i \in 2..(Len(stack) - 1) : stack'[i] = stack[i + 1]
    BY PopShape
  <1>2. disk' = disk
    BY DEF Return
  <1>3. /\ Top.uri \in Uri /\ Absorbed'[Top.uri] = Top.user
        /\ \A w \in Uri : w # Top.uri => Absorbed'[w] = Absorbed[w]
        /\ \A w \in Uri : DocumentManager[w] # Absent => DocumentManager'[w] # Absent
        /\ DocumentManager'[Top.uri] # Absent
    BY ReturnEntries
  <1>4. ASSUME NEW k \in 1..Len(stack'), NEW w \in SettledFor(k + 1)
        PROVE  w \in SettledFor(k)' /\ Absorbed[w] = Absorbed'[w]
    <2>1. w \in Uri /\ DocumentManager[w] # Absent /\ \A j \in 1..((k + 1) - 1) : stack[j].uri # w
      BY DEF SettledFor
    <2>2. 1 \in 1..((k + 1) - 1)
      OBVIOUS
    <2>3. w # Top.uri
      BY <2>1, <2>2 DEF Top
    <2>4. \A j \in 1..(k - 1) : stack'[j].uri # w
      <3> TAKE j \in 1..(k - 1)
      <3>1. stack'[j].uri = stack[j + 1].uri
        <4>1. CASE j = 1
          BY <1>1, <4>1
        <4>2. CASE j # 1
          <5>1. j \in 2..(Len(stack) - 1)
            BY <1>1, <4>2
          <5>2. QED
            BY <1>1, <5>1
        <4>3. QED
          BY <4>1, <4>2
      <3>2. j + 1 \in 1..((k + 1) - 1)
        OBVIOUS
      <3>3. QED
        BY <2>1, <3>1, <3>2
    <2>5. QED
      BY <1>3, <2>1, <2>3, <2>4 DEF SettledFor
  <1>5. ASSUME NEW k \in 2..Len(stack')
        PROVE  ParserFollows(k)'
    <2>1. /\ k + 1 \in 1..Len(stack) /\ stack'[k] = stack[k + 1] /\ k \in Nat
          /\ k = Len(stack') <=> k + 1 = Len(stack)
      BY <1>1
    <2>2. /\ SettledFor(k + 1) \subseteq SettledFor(k)'
          /\ \A w \in SettledFor(k + 1) : Absorbed[w] = Absorbed'[w]
      BY <1>4
    <2>3. QED
      BY <1>2, <2>1, <2>2, ParserStays
  <1>6. ParserFollows(1)'
    <2> DEFINE p == stack[2]
               x == p.rest[1]
               q == stack'[1]
               imported == [w \in Uri |-> Top.user]
    <2>1. /\ stack \in Seq(Parsers) /\ Top = stack[1] /\ Top \in Parsers /\ p \in Parsers
          /\ Tail(Tail(stack)) \in Seq(Parsers)
      <3>1. stack \in Seq(Parsers) /\ Top = stack[1]
        BY DEF TypeOK, Top
      <3>2. stack[1] \in Parsers /\ p \in Parsers
        BY <1>1, <3>1
      <3>3. Tail(Tail(stack)) \in Seq(Parsers)
        BY <1>1, <3>1, TailOfTail
      <3>4. QED
        BY <3>1, <3>2, <3>3
    <2>2. p.rest # << >> /\ x.kind = "use_module" /\ x.file = Top.uri
      <3>1. 2 \in 2..Len(stack) /\ 2 - 1 = 1
        BY <1>1
      <3>2. QED
        BY <2>1, <3>1 DEF ImportersWait
    <2>3. p.user \in Table /\ p.rest \in Seq(ProgramItem) /\ Top.user \in Table
      BY <2>1 DEF Parsers
    <2>4. q.uri = p.uri /\ q.rest = Tail(p.rest) /\ q.user = Union(p.user, Top.user)
      <3> DEFINE result == absorb([default |-> default_table, user |-> p.user], Top.user)
                 r == [p EXCEPT !.rest = Tail(@), !.user = result.tables.user,
                                !.errors = @ \cup result.errors]
      <3>1. stack' = <<r>> \o Tail(Tail(stack))
        BY DEF Return
      <3>2. result.tables.user = Union(p.user, Top.user)
        BY DEF absorb
      <3>3. r.uri = p.uri /\ r.rest = Tail(p.rest) /\ r.user = result.tables.user
        BY <2>1 DEF Parsers
      <3> HIDE DEF r, result
      <3>4. q = r
        BY <2>1, <3>1
      <3>5. QED
        BY <3>2, <3>3, <3>4
    <2>5. q \in Parsers
      <3>1. stack' \in Seq(Parsers) /\ 1 \in 1..Len(stack')
        BY <1>1 DEF TypeOK
      <3>2. QED
        BY <3>1
    <2>6. x \in PlainItem /\ Items(p.rest) = <<x>> \o Items(q.rest)
      BY <2>2, <2>3, <2>4, PlainNext
    <2>7. imported[x.file] = Top.user
      BY <1>3, <2>2
    <2>8. q.user = AfterOne(p.user, x, imported)
      <3>1. Union(p.user, Top.user) = AfterOne(p.user, x, imported)
        <4> HIDE DEF imported, x, p
        <4>1. QED
          BY <2>2, <2>3, <2>7, UnionIsAfter
      <3>2. QED
        BY <2>4, <3>1
    <2>9. x.file \in SettledFor(1)' /\ imported[x.file] = Absorbed'[x.file]
      <3>1. \A j \in 1..(1 - 1) : FALSE
        OBVIOUS
      <3>2. QED
        BY <1>3, <2>2, <2>7, <3>1 DEF SettledFor
    <2>10. /\ 2 \in 1..Len(stack) /\ 1 \in Nat /\ (1 = Len(stack') <=> 2 = Len(stack))
           /\ 1 \in 1..Len(stack') /\ 1 + 1 = 2
      BY <1>1
    <2>11. /\ SettledFor(2) \subseteq SettledFor(1)'
           /\ \A w \in SettledFor(2) : Absorbed[w] = Absorbed'[w]
      BY <1>4, <2>10
    <2>12. stack'[1].uri = stack[2].uri
      BY <2>4
    <2> HIDE DEF x, imported
    <2>13. QED
      BY <1>2, <2>12, <2>4, <2>5, <2>6, <2>8, <2>9, <2>10, <2>11, ParserTakes
  <1>7. QED
    BY <1>5, <1>6 DEF ParsersFollow

\* A validation begins with the text of its document.
LEMMA BeginFollows ==
  ASSUME NEW u \in Uri, text[u] \in Programs, Begin(u, text[u]), text' = text
  PROVE  ParsersFollow'
  <1>1. stack' = <<Parser(u, text[u])>> /\ Len(stack') = 1
    BY DEF Begin
  <1>2. stack'[1].uri = u /\ stack'[1].rest = text[u] /\ stack'[1].user = EmptyTable
    BY <1>1 DEF Parser, InitialTable
  <1>3. ReadBy(1)' = text[u]
    BY <1>1, <1>2 DEF ReadBy
  <1>4. ParserFollows(1)'
    BY <1>2, <1>3, FollowsNew DEF ParserFollows
  <1>5. QED
    BY <1>1, <1>4 DEF ParsersFollow

\* No parser is at work.
LEMMA IdleFollows ==
  ASSUME stack = << >>
  PROVE  ParsersFollow
  <1>1. Len(stack) = 0
    OBVIOUS
  <1>2. QED
    BY <1>1 DEF ParsersFollow

\* What a step notes of the entries it makes.
LEMMA NotedPrograms ==
  ASSUME TypeOK, ParsersFollow, ProgramsKnown, Runs, Note
  PROVE  ProgramsKnown'
  <1>1. ASSUME NEW u \in Uri
        PROVE  program'[u] \in Programs \cup {Unreadable} /\ (Known(u)' <=> program'[u] # Unreadable)
    <2>0. program[u] \in Programs \cup {Unreadable}
      BY DEF ProgramsKnown, Contents
    <2>1. CASE u \notin Made
      <3>1. DocumentManager'[u] = DocumentManager[u] /\ program'[u] = program[u]
        BY <2>1 DEF Made, Note
      <3>2. Known(u)' <=> Known(u)
        BY <3>1 DEF Known
      <3>3. QED
        BY <2>0, <3>1, <3>2 DEF ProgramsKnown
    <2>2. CASE u \in Made /\ DocumentManager'[u] = Pending
      BY <2>2 DEF Note, Known
    <2>3. CASE u \in Made /\ DocumentManager'[u] # Pending
      <3>1. /\ Return \/ Finish
            /\ u = Top.uri
        BY <2>3, EntryKinds DEF Made
      <3>2. PICK n \in Nat : DocumentManager'[u] = Analysis(Top, n)
        BY <2>3, EntryKinds DEF Made
      <3>3. Len(stack) \in Nat /\ Len(stack) > 0 /\ Top = stack[1]
        BY <3>1, StackUris DEF Return, Finish, Top
      <3>4. Top \in Parsers
        BY <3>3, StackUris
      <3>5. DocumentManager'[u] \in Analyses
        BY <3>2, <3>4 DEF Analysis, Analyses, Parsers
      <3>6. Known(u)'
        BY <3>5, EntriesDiffer DEF Known
      <3>7. program'[u] = ReadBy(1)
        BY <2>3, <3>1, <3>3 DEF Note, ReadBy
      <3>8. program'[u] \in Programs
        BY <3>3, <3>7 DEF ParsersFollow, ParserFollows
      <3>9. QED
        BY <3>6, <3>8, UnreadableIsNone
    <2>4. QED
      BY <2>1, <2>2, <2>3
  <1>2. program' \in Contents
    BY <1>1 DEF Note, Contents
  <1>3. QED
    BY <1>1, <1>2 DEF ProgramsKnown

\* A new entry is what its text means.
LEMMA NewEntry ==
  ASSUME TypeOK, ParsersFollow, ProgramsKnown', Runs, Note, NEW u \in Made
  PROVE  EntryFollows(u)'
  <1> SUFFICES ASSUME Known(u)', u \notin Imports(program', u)
               PROVE  DocumentManager'[u].user = After(EmptyTable, Items(program'[u]), Absorbed')
    BY DEF EntryFollows
  <1>1. u \in Uri /\ DocumentManager'[u] # DocumentManager[u] /\ DocumentManager'[u] # Pending
    BY DEF Made, Known
  <1>2. /\ Return \/ Finish
        /\ u = Top.uri
    BY <1>1, EntryKinds
  <1>3. PICK n \in Nat : DocumentManager'[u] = Analysis(Top, n)
    BY <1>1, EntryKinds
  <1>4. Len(stack) \in Nat /\ Len(stack) > 0 /\ Top = stack[1] /\ Top.rest = << >>
    BY <1>2, StackUris DEF Return, Finish, Top
  <1>5. Top \in Parsers /\ Top.user \in Table
    BY <1>4, StackUris DEF Parsers
  <1>6. program'[u] = ReadBy(1)
    BY <1>1, <1>2, <1>4 DEF Note, ReadBy
  <1>7. ParserFollows(1)
    BY <1>4 DEF ParsersFollow
  <1>8. PICK t, c, f, g, S : /\ t = Top.user /\ c = ReadBy(1) /\ f = Absorbed /\ g = Absorbed'
                             /\ S = SettledFor(1)
    OBVIOUS
  <1>9. f \in [Uri -> Table]
    BY <1>8, AbsorbedTyped
  <1>10. Follows(t, << >>, c, S, f) /\ t \in Table
    BY <1>4, <1>5, <1>7, <1>8 DEF ParserFollows
  <1>11. t = After(EmptyTable, Items(c), f)
    BY <1>9, <1>10, FollowsEnd
  <1>12. \A w \in Uri : w # u => DocumentManager'[w] = DocumentManager[w]
    BY <1>2 DEF Return, StoredImport, Finish, TypeOK
  <1>13. \A w \in Uri : w # u => (Known(w)' <=> Known(w))
    BY <1>12 DEF Known
  <1>14. \A w \in Uri : w # u => g[w] = f[w]
    BY <1>8, <1>12, <1>13 DEF Absorbed
  <1>15. PICK d : d = program'
    OBVIOUS
  <1>16. d \in Contents /\ d[u] # Unreadable /\ d[u] = c
    BY <1>1, <1>6, <1>8, <1>15 DEF ProgramsKnown
  <1>17. \A w \in Imports(d, u) : w \in Uri /\ w # u
    BY <1>1, <1>15, <1>16, ImportsTyped
  <1>18. \A i \in DOMAIN Items(c) : Items(c)[i].kind = "use_module"
           => f[Items(c)[i].file] = g[Items(c)[i].file]
    BY <1>1, <1>14, <1>16, <1>17, ItemsAreImports
  <1>19. Items(c) \in Seq(PlainItem)
    BY <1>1, <1>16, ProgramsAreItems, ItemsTyped DEF Contents
  <1>20. After(EmptyTable, Items(c), f) = After(EmptyTable, Items(c), g)
    BY <1>18, <1>19, AfterSame
  <1>21. DocumentManager'[u].user = Top.user
    BY <1>3 DEF Analysis
  <1>22. QED
    BY <1>8, <1>11, <1>15, <1>16, <1>20, <1>21

\* Every parser, and every entry whose imports are settled, means what its text means.
FollowInv ==
  /\ WorkspaceInv
  /\ ParsersFollow
  /\ EntriesFollow
  /\ ProgramsKnown

\* Every step keeps it.
LEMMA FollowStep ==
  ASSUME FollowInv, [WorkspaceNext]_allVars
  PROVE  FollowInv'
  <1>1. TypeOK /\ TextTypeOK /\ ImportersWait /\ ParsersFollow /\ EntriesFollow /\ ProgramsKnown
    BY DEF FollowInv, WorkspaceInv, IInv, StackInv
  <1>2. WorkspaceInv' /\ TypeOK'
    BY WorkspaceStep DEF FollowInv, WorkspaceInv, IInv
  <1>3. ASSUME Runs, Note, ParsersFollow'
        PROVE  ParsersFollow' /\ EntriesFollow' /\ ProgramsKnown'
    <2>1. ProgramsKnown'
      BY <1>1, <1>3, NotedPrograms
    <2>2. ASSUME NEW u \in Uri
          PROVE  EntryFollows(u)'
      BY <1>1, <1>3, <2>1, KeptEntry, NewEntry
    <2>3. QED
      BY <1>3, <2>1, <2>2 DEF EntriesFollow
  <1>4. ASSUME UNCHANGED <<DocumentManager, history>>
        PROVE  EntriesFollow' /\ ProgramsKnown'
    <2>1. DocumentManager' = DocumentManager /\ program' = program /\ since' = since
      BY <1>4 DEF history
    <2>2. \A u \in Uri : Known(u)' <=> Known(u)
      BY <2>1 DEF Known
    <2>3. Absorbed' = Absorbed
      BY <2>1, <2>2 DEF Absorbed
    <2>4. \A u \in Uri : EntryFollows(u)' <=> EntryFollows(u)
      BY <2>1, <2>2, <2>3 DEF EntryFollows, Imports
    <2>5. QED
      BY <1>1, <2>1, <2>2, <2>4 DEF EntriesFollow, ProgramsKnown
  <1>5. CASE LoaderStep
    <2>1. Step /\ Note /\ text' = text
      BY <1>5 DEF LoaderStep, editorVars
    <2>2. Runs
      BY <2>1 DEF Runs
    <2>3. Finish => ParsersFollow'
      <3>1. ASSUME Finish PROVE stack' = << >>
        BY <3>1 DEF Finish
      <3>2. ASSUME Finish PROVE Len(stack') = 0
        BY <3>1, <3>2
      <3>3. QED
        BY <3>2 DEF ParsersFollow
    <2>4. ParsersFollow'
      BY <1>1, <1>2, <2>1, <2>3, AdvancingFollows, ReadingFollows, ReturnFollows
         DEF Step, Import, AdvancingStep
    <2>5. QED
      BY <1>2, <1>3, <2>1, <2>2, <2>4 DEF FollowInv
  <1>6. ASSUME NEW u \in Uri, ValidateText(u)
        PROVE  FollowInv'
    <2>1. Begin(u, text[u]) /\ Note /\ text' = text /\ owed[u] > 0
      BY <1>6 DEF ValidateText, CurrentText
    <2>2. text[u] \in Programs
      BY <1>1, <2>1 DEF TextTypeOK
    <2>3. ParsersFollow' /\ Runs
      BY <2>1, <2>2, BeginFollows DEF Runs
    <2>4. QED
      BY <1>2, <1>3, <2>1, <2>3 DEF FollowInv
  <1>7. ASSUME stack' = << >>
        PROVE  ParsersFollow'
    <2>1. Len(stack') = 0
      BY <1>7
    <2>2. QED
      BY <2>1 DEF ParsersFollow
  <1>8. CASE LoaderThrow
    <2>1. stack' = << >> /\ UNCHANGED <<DocumentManager, history>>
      BY <1>8 DEF LoaderThrow, Throw
    <2>2. QED
      BY <1>2, <1>4, <1>7, <2>1 DEF FollowInv
  <1>9. ASSUME NEW u \in Uri, Open(u) \/ Save(u) \/ \E p \in Programs : Edit(u, p)
        PROVE  FollowInv'
    <2>1. stack' = << >> /\ UNCHANGED <<DocumentManager, history>>
      BY <1>9 DEF Open, Save, Edit, Editor, Busy, vars
    <2>2. QED
      BY <1>2, <1>4, <1>7, <2>1 DEF FollowInv
  <1>10. CASE UNCHANGED allVars
    <2>1. UNCHANGED <<DocumentManager, disk, stack, text, history>>
      BY <1>10 DEF allVars, vars, editorVars
    <2>2. \A u \in Uri : Known(u)' <=> Known(u)
      BY <2>1 DEF Known
    <2>3. Absorbed' = Absorbed
      BY <2>1, <2>2 DEF Absorbed
    <2>4. \A i \in 1..Len(stack) : ReadBy(i)' = ReadBy(i) /\ SettledFor(i)' = SettledFor(i)
      BY <2>1 DEF ReadBy, SettledFor
    <2>5. ParsersFollow'
      BY <1>1, <2>1, <2>3, <2>4 DEF ParsersFollow, ParserFollows
    <2>6. QED
      BY <1>2, <1>4, <2>1, <2>5 DEF FollowInv
  <1>11. QED
    BY <1>5, <1>6, <1>8, <1>9, <1>10 DEF WorkspaceNext

\* It holds at the start.
LEMMA FollowInit ==
  ASSUME WorkspaceInit
  PROVE  FollowInv
  <1>1. WorkspaceInv
    BY WorkspaceStart
  <1>2. stack = << >> /\ \A u \in Uri : ~Known(u) /\ program[u] = Unreadable
    BY DEF WorkspaceInit, Init, Known
  <1>3. ParsersFollow
    BY <1>2, IdleFollows
  <1>4. EntriesFollow
    BY <1>2 DEF EntriesFollow, EntryFollows
  <1>5. ProgramsKnown
    BY <1>2 DEF WorkspaceInit, ProgramsKnown, Contents
  <1>6. QED
    BY <1>1, <1>3, <1>4, <1>5 DEF FollowInv

\* It always holds.
LEMMA AlwaysFollows == WorkspaceSpec => []FollowInv
  BY FollowInit, FollowStep, PTL DEF WorkspaceSpec

-----------------------------------------------------------------------------
(* Settled imports, near and far. *)

\* An entry of a file whose imports, near and far, are settled, is what the files it
\* reaches mean: if not, the first file it reaches for which that is wrong would have
\* only imports for which it is right.
LEMMA SettledAgree ==
  ASSUME FollowInv, NEW u \in Uri, Acyclic(program, u), ImportsAreSettled(u)
  PROVE  Absorbed[u] = ReferenceTables(program)[u]
  <1>1. PICK d, A, R : d = program /\ A = Absorbed /\ R = ReferenceTables(program)
    OBVIOUS
  <1> DEFINE All == Reached(d, u) \cup {u}
             bad == {w \in All : A[w] # R[w]}
             H(w) == Cardinality(Reached(d, w))
             heights == {H(w) : w \in bad}
  <1>2. ProgramsKnown /\ EntriesFollow /\ d \in Contents /\ Acyclic(d, u)
    BY <1>1 DEF FollowInv, ProgramsKnown
  <1>3. ASSUME NEW w \in All
        PROVE  /\ w \in Uri /\ Acyclic(d, w) /\ w \notin Imports(d, w)
               /\ Imports(d, w) \subseteq All
               /\ R[w] = TablesAfter(d, R)[w]
               /\ H(w) \in Nat /\ \A x \in Imports(d, w) : H(x) < H(w)
    <2>1. w \in Uri /\ Reached(d, w) \subseteq Reached(d, u)
      BY <1>2, ReachedFurther
    <2>2. Acyclic(d, w)
      BY <1>2, <2>1 DEF Acyclic
    <2>3. Imports(d, w) \subseteq Reached(d, w)
      BY <1>2, <2>1, ReachedImports
    <2>4. w \notin Reached(d, w)
      BY <2>2 DEF Acyclic
    <2>5. R[w] = TablesAfter(d, R)[w]
      BY <1>1, <1>2, <2>1, <2>2, TablesAreFixed
    <2>6. H(w) \in Nat /\ \A x \in Imports(d, w) : H(x) < H(w)
      BY <1>2, <2>1, <2>2, AcyclicHeight
    <2>7. QED
      BY <2>1, <2>2, <2>3, <2>4, <2>5, <2>6
  <1>4. ASSUME NEW w \in All, \A x \in Imports(d, w) : A[x] = R[x]
        PROVE  A[w] = R[w]
    <2>1. w \in Uri /\ w \notin Imports(d, w) /\ R[w] = TablesAfter(d, R)[w]
      BY <1>3
    <2>2. TablesAfter(d, R)[w] = TablesAfter(d, A)[w]
      BY <1>2, <1>4, <2>1, TablesAfterSame
    <2>3. CASE ~Known(w)
      <3>1. A[w] = EmptyTable
        BY <1>1, <2>1, <2>3 DEF Absorbed
      <3>2. d[w] = Unreadable
        BY <1>1, <1>2, <2>1, <2>3 DEF ProgramsKnown
      <3>3. QED
        BY <2>1, <3>1, <3>2 DEF TablesAfter
    <2>4. CASE Known(w)
      <3>1. A[w] = DocumentManager[w].user
        BY <1>1, <2>1, <2>4 DEF Absorbed
      <3>2. d[w] # Unreadable
        BY <1>1, <1>2, <2>1, <2>4 DEF ProgramsKnown
      <3>3. Imports(program, w) \cap since[w] = {}
        BY <1>1 DEF ImportsAreSettled
      <3>4. DocumentManager[w].user = After(EmptyTable, Items(d[w]), A)
        BY <1>1, <1>2, <2>1, <2>4, <3>3 DEF EntriesFollow, EntryFollows
      <3>5. QED
        BY <2>1, <2>2, <3>1, <3>2, <3>4 DEF TablesAfter
    <2>5. QED
      BY <2>3, <2>4
  <1> HIDE DEF H, All
  <1>5. bad = {}
    <2> SUFFICES ASSUME bad # {} PROVE FALSE
      OBVIOUS
    <2>1. heights \subseteq Nat /\ heights # {}
      BY <1>3
    <2>2. PICK m \in heights : \A k \in heights : m <= k
      <3> HIDE DEF heights
      <3>1. QED
        BY <2>1, Least
    <2>3. PICK w \in bad : m = H(w)
      BY <2>2
    <2>4. w \in All /\ A[w] # R[w]
      BY <2>3
    <2>5. PICK x \in Imports(d, w) : A[x] # R[x]
      BY <1>4, <2>4
    <2>6. x \in All /\ H(x) < H(w)
      BY <1>3, <2>4
    <2>7. H(x) \in Nat /\ H(w) \in Nat
      BY <1>3, <2>4, <2>6
    <2>8. H(w) <= H(x)
      BY <2>2, <2>3, <2>5, <2>6
    <2>9. QED
      BY <2>6, <2>7, <2>8
  <1>6. u \in All
    BY DEF All
  <1>7. QED
    BY <1>1, <1>5, <1>6

-----------------------------------------------------------------------------
(* Theorems. *)

\* No file is parsed inside its own parse, although a file may read, in the
\* editor and on disk, as two programs that import different files.
THEOREM NoFileInsideItselfWhileEdited == WorkspaceSpec => []NoReentry
  <1>1. WorkspaceInv => NoReentry
    BY DEF WorkspaceInv, IInv, StackInv
  <1>2. QED
    BY <1>1, WorkspaceInductive, PTL

\* A document that has an operator of a reserved name was told, whatever was
\* edited and saved since the files it imports were read.
THEOREM ReservedOperatorsAreToldWhileEdited == WorkspaceSpec => []NoSilentReservedOperator
  <1>1. WorkspaceInv => NoSilentReservedOperator
    BY DEF WorkspaceInv
  <1>2. QED
    BY <1>1, WorkspaceInductive, PTL

\* Edits and saves change nothing the readers of the store see; every validation
\* is to them the one step the session layer takes it for.
THEOREM EditedLoaderImplementsStore == WorkspaceSpec => ImplementsStore
  <1>1. WorkspaceInit => Store!Init
    BY SeenNone DEF WorkspaceInit, Init, Store!Init, Busy
  <1>2. WorkspaceInv /\ [WorkspaceNext]_allVars => [Store!Next]_(Store!storeVars)
    <2> SUFFICES ASSUME WorkspaceInv, [WorkspaceNext]_allVars
                 PROVE  [Store!Next]_(Store!storeVars)
      OBVIOUS
    <2>1. IInv /\ TypeOK /\ TextTypeOK
      BY DEF WorkspaceInv, IInv
    <2>2. CASE [Runs]_vars
      BY <2>1, <2>2, StoreStep
    <2>3. CASE OnlyDisk
      <3>1. UNCHANGED Store!storeVars
        BY <2>3 DEF OnlyDisk, Store!storeVars, Seen, Busy
      <3>2. QED
        BY <3>1
    <2>4. QED
      BY <2>1, <2>2, <2>3, StepKinds
  <1>3. QED
    BY <1>1, <1>2, WorkspaceInductive, PTL
       DEF WorkspaceSpec, ImplementsStore, Store!Spec

\* Importers go stale in one way only, whatever was opened, edited, saved, read from
\* disk or failed in between: by an import, near or far, that was analysed after a file
\* that imports it.
THEOREM StaleOnlyBehind == WorkspaceSpec => []StaleOnlyBehindImports
  <1>1. FollowInv => StaleOnlyBehindImports
    <2> SUFFICES ASSUME FollowInv, NEW u \in Uri, Known(u), Acyclic(program, u),
                        ImportsAreSettled(u)
                 PROVE  DocumentManager[u].user = ReferenceTables(program)[u]
      BY DEF StaleOnlyBehindImports
    <2>1. Absorbed[u] = DocumentManager[u].user
      BY DEF Absorbed
    <2>2. QED
      BY <2>1, SettledAgree
  <1>2. QED
    BY <1>1, AlwaysFollows, PTL

\* Also while documents are edited and saved, every step of a validation leaves less to be
\* loaded.
THEOREM EveryStepOfALoadCountsWhileEdited == WorkspaceSpec => [][LoaderStep => LoadsLess]_allVars
  <1>1. WorkspaceInv /\ [WorkspaceNext]_allVars => [LoaderStep => LoadsLess]_allVars
    BY EveryStepLoadsLess DEF WorkspaceInv, LoaderStep
  <1>2. QED
    BY <1>1, WorkspaceInductive, PTL DEF WorkspaceSpec
=============================================================================
