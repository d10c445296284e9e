------------------------ MODULE ModuleLoader_proofs ------------------------
(***************************************************************************)
(* Proofs about ModuleLoader, for every set of files, every program and    *)
(* every import graph: types, the recursion of use_module never enters a   *)
(* file twice, a document is told of its reserved operators, and the       *)
(* loader implements the store of analyses the session layer relies on.    *)
(***************************************************************************)
EXTENDS ModuleLoaderReference, SequenceTheorems, FiniteSetTheorems, WellFoundedInduction,
        TLAPS

-----------------------------------------------------------------------------
(* Operators on tables. *)

\* The fields an item has follow from its kind.
LEMMA ItemFields ==
  ASSUME NEW x \in ProgramItem
  PROVE  /\ x.kind = "op" => x.prec \in Nat \cup {NaN} /\ x.name \in Name
         /\ x.kind = "term" => x.name \in Name
         /\ x.kind = "use_module" => x.file \in Uri
         /\ x.kind \in {"module", "exports"} => x.exports \in Seq(Export)
  BY DEF ProgramItem, OpItem

TablePair == [default : Table, user : Table]

\* op/3 leaves tables, and adds only errors it has a name for.
LEMMA OpTyped ==
  ASSUME NEW t \in TablePair, NEW prec \in Nat \cup {NaN}, NEW type, NEW name \in Name
  PROVE  /\ op(t, prec, type, name).tables \in TablePair
         /\ op(t, prec, type, name).errors \subseteq Error
  <1>1. CASE check(prec, type) # {}
    BY <1>1 DEF op, check, Error
  <1>2. CASE check(prec, type) = {}
    <2>1. type \in OpType /\ (prec = NaN \/ prec \in 0..MaxPrecedence)
      BY <1>2, NotANumber DEF check, MaxPrecedence
    <2>2. <<name, type>> \in Key
      BY <2>1 DEF Key
    <2>3. op_3(t, prec, type, name) \in TablePair
      <3>1. CASE prec = NaN
        BY <3>1, NotANumber DEF op_3
      <3>2. CASE prec # NaN /\ prec = 0
        <4>1. /\ [t.default EXCEPT ![<<name, type>>] = 0] \in Table
              /\ [t.user EXCEPT ![<<name, type>>] = 0] \in Table
          <5>1. t.default \in Table /\ t.user \in Table
            BY DEF TablePair
          <5>2. 0 \in 0..MaxPrecedence
            BY DEF MaxPrecedence
          <5>3. QED
            BY <2>2, <5>1, <5>2 DEF Table
        <4>2. QED
          BY <3>2, <4>1 DEF op_3, TablePair
      <3>3. CASE prec # NaN /\ prec # 0
        <4>1. [t.user EXCEPT ![<<name, type>>] = prec] \in Table
          <5>1. t.user \in Table
            BY DEF TablePair
          <5>2. prec \in 0..MaxPrecedence
            BY <2>1, <3>3
          <5>3. QED
            BY <2>2, <5>1, <5>2 DEF Table
        <4>2. op_3(t, prec, type, name)
                = [default |-> t.default, user |-> [t.user EXCEPT ![<<name, type>>] = prec]]
          BY <3>3 DEF op_3, TablePair
        <4>3. QED
          BY <4>1, <4>2 DEF TablePair
      <3>4. QED
        BY <3>1, <3>2, <3>3
    <2>4. QED
      BY <1>2, <2>3 DEF op, PermissionErrors, Error
  <1>3. QED
    BY <1>1, <1>2

\* Importing leaves tables, and adds only permission errors.
LEMMA AbsorbTyped ==
  ASSUME NEW t \in TablePair, NEW other \in Table
  PROVE  /\ absorb(t, other).tables \in TablePair
         /\ absorb(t, other).errors \subseteq Error
  <1>1. Union(t.user, other) \in Table
    BY DEF Union, Table, TablePair
  <1>2. absorb(t, other).tables = [default |-> t.default, user |-> Union(t.user, other)]
    BY DEF absorb, TablePair
  <1>3. AbsorbErrors(other) \subseteq {"permission"}
    BY DEF AbsorbErrors, PermissionErrors
  <1>4. QED
    BY <1>1, <1>2, <1>3 DEF absorb, TablePair, Error

\* A lookup gives a precedence.
LEMMA CurrentOpTyped ==
  ASSUME NEW t \in TablePair, NEW name \in Name, NEW type \in OpType
  PROVE  current_op(t, name, type) \in 0..MaxPrecedence
  <1>1. <<name, type>> \in Key
    BY DEF Key
  <1>2. QED
    BY <1>1 DEF current_op, Table, TablePair

\* The reading of a name has its type; its sides do not go below zero.
LEMMA InfixTyped ==
  ASSUME NEW t \in TablePair, NEW name \in Name
  PROVE  infixop(t, name) \in Reading
  <1>1. ASSUME NEW type \in {"xfx", "xfy", "yfx"}
        PROVE  current_op(t, name, type) \in Nat
    <2>1. type \in OpType
      BY DEF OpType
    <2>2. current_op(t, name, type) \in 0..MaxPrecedence
      BY <2>1, CurrentOpTyped
    <2>3. QED
      BY <2>2 DEF MaxPrecedence
  <1>2. QED
    BY <1>1 DEF infixop, NoOperator, Reading, OpType

-----------------------------------------------------------------------------
(* Types. *)

\* The parser at the top, and its item when it has one.
LEMMA TopTyped ==
  ASSUME TypeOK, Busy
  PROVE  /\ Top \in Parsers
         /\ Tail(stack) \in Seq(Parsers)
         /\ Tables \in TablePair
         /\ Top.rest # << >> => Item \in ProgramItem /\ Tail(Top.rest) \in Seq(ProgramItem)
  <1>1. stack \in Seq(Parsers) /\ stack # << >>
    BY DEF TypeOK, Busy
  <1>2. Top \in Parsers /\ Tail(stack) \in Seq(Parsers)
    BY <1>1 DEF Top
  <1>3. Top.rest \in Seq(ProgramItem) /\ Top.user \in Table
    BY <1>2 DEF Parsers
  <1>4. Tables \in TablePair
    BY <1>3 DEF Tables, TablePair, TypeOK
  <1>5. Top.rest # << >> => Item \in ProgramItem /\ Tail(Top.rest) \in Seq(ProgramItem)
    BY <1>3 DEF Item
  <1>6. QED
    BY <1>2, <1>4, <1>5

\* Going on with a result of the right type.
LEMMA ConsumeTyped ==
  ASSUME TypeOK, Busy, Top.rest # << >>, NEW result, Consume(result),
         result.tables \in TablePair, result.errors \subseteq Error
  PROVE  stack' \in Seq(Parsers) /\ default_table' \in Table
  <1> DEFINE p == [Top EXCEPT !.rest = Tail(@), !.user = result.tables.user,
                              !.errors = @ \cup result.errors]
  <1>1. p \in Parsers
    BY TopTyped DEF Parsers, TablePair
  <1>2. <<p>> \o Tail(stack) \in Seq(Parsers)
    BY <1>1, TopTyped
  <1>3. QED
    BY <1>2 DEF Consume, TablePair

\* Going on with other items.
LEMMA ReplaceTyped ==
  ASSUME TypeOK, Busy, NEW items \in Seq(ProgramItem), NEW errors \in SUBSET Error,
         Replace(items, errors)
  PROVE  stack' \in Seq(Parsers)
  <1>1. [Top EXCEPT !.rest = items, !.errors = @ \cup errors] \in Parsers
    BY TopTyped DEF Parsers
  <1>2. QED
    BY <1>1, TopTyped DEF Replace

\* A parser that starts on a program.
LEMMA ParserTyped ==
  ASSUME NEW u \in Uri, NEW q \in Programs
  PROVE  Parser(u, q) \in Parsers
  <1>1. q \in Seq(ProgramItem)
    BY ProgramsAreItems
  <1>2. EmptyTable \in Table
    BY DEF EmptyTable, Table, MaxPrecedence
  <1>3. QED
    BY <1>1, <1>2 DEF Parser, InitialTable, Parsers

\* The result of a parse is an analysis.
LEMMA AnalysisTyped ==
  ASSUME NEW p \in Parsers, NEW n \in Nat
  PROVE  Analysis(p, n) \in Analyses
  BY DEF Analysis, Analyses, Parsers

\* A parser that waits for a nested one has the use_module it evaluates next.
ImportersWait ==
  \A i \in 2..Len(stack) : /\ stack[i].rest # << >>
                           /\ stack[i].rest[1].kind = "use_module"
                           /\ stack[i].rest[1].file = stack[i - 1].uri

\* What is below the two topmost parsers.
LEMMA TailOfTail ==
  ASSUME NEW S, NEW s \in Seq(S), Len(s) > 1
  PROVE  Tail(Tail(s)) \in Seq(S)
  <1> DEFINE t == Tail(s)
  <1>1. t \in Seq(S) /\ Len(t) = Len(s) - 1 /\ Len(t) > 0
    OBVIOUS
  <1> HIDE DEF t
  <1>2. t # << >>
    BY <1>1
  <1>3. Tail(t) \in Seq(S)
    BY <1>1, <1>2
  <1>4. QED
    BY <1>3 DEF t

\* The steps of a loader whose validations read any program, and may throw.
Runs == (\E u \in Uri, q \in Programs : Begin(u, q)) \/ Step \/ Throw

\* A validation reads the program on disk.
LEMMA NextRuns ==
  ASSUME TypeOK, [Next]_vars
  PROVE  [Runs]_vars
  <1>1. ASSUME NEW u \in Uri, Validate(u)
        PROVE  Runs
    <2>1. disk[u] \in Programs
      BY <1>1 DEF Validate, TypeOK
    <2>2. QED
      BY <1>1, <2>1 DEF Validate, Runs
  <1>2. QED
    BY <1>1 DEF Next, Runs

\* Every step keeps the types.
LEMMA TypeStep ==
  ASSUME TypeOK, ImportersWait, [Runs]_vars
  PROVE  TypeOK'
  <1>1. ASSUME NEW u \in Uri, NEW q \in Programs, Begin(u, q)
        PROVE  TypeOK'
    <2>1. <<Parser(u, q)>> \in Seq(Parsers)
      BY <1>1, ParserTyped DEF Begin
    <2>2. QED
      BY <1>1, <2>1 DEF Begin, TypeOK
  <1>2. CASE Term
    <2> DEFINE p == [Top EXCEPT !.rest = Tail(@),
                                !.terms = Append(@, infixop(Tables, Item.name))]
    <2>1. infixop(Tables, Item.name) \in Reading
      BY <1>2, TopTyped, ItemFields, InfixTyped DEF Term, Has
    <2>2. p \in Parsers
      <3>1. Top \in Parsers /\ Tail(Top.rest) \in Seq(ProgramItem)
        BY <1>2, TopTyped DEF Term, Has
      <3>2. Append(Top.terms, infixop(Tables, Item.name)) \in Seq(Reading)
        BY <2>1, <3>1 DEF Parsers
      <3>3. QED
        BY <3>1, <3>2 DEF Parsers
    <2>3. <<p>> \o Tail(stack) \in Seq(Parsers)
      BY <1>2, <2>2, TopTyped DEF Term, Has
    <2>4. QED
      BY <1>2, <2>3 DEF Term, TypeOK
  <1>3. CASE OpDirective
    <2>1. Busy /\ Top.rest # << >> /\ Item.kind = "op"
      BY <1>3 DEF OpDirective, Has
    <2>2. LET r == op(Tables, Item.prec, Item.type, Item.name)
          IN  r.tables \in TablePair /\ r.errors \subseteq Error
      BY <2>1, TopTyped, ItemFields, OpTyped
    <2>3. stack' \in Seq(Parsers) /\ default_table' \in Table
      BY <1>3, <2>1, <2>2, ConsumeTyped DEF OpDirective
    <2>4. QED
      BY <1>3, <2>3 DEF OpDirective, TypeOK
  <1>4. CASE ModuleDirective
    <2> DEFINE items == <<[kind |-> "exports", exports |-> Item.exports]>> \o Tail(Top.rest)
               errors == IF Item.exports = << >> THEN {"list"} ELSE {}
    <2>1. Busy /\ Top.rest # << >> /\ Item.kind = "module"
      BY <1>4 DEF ModuleDirective, Has
    <2>2. [kind |-> "exports", exports |-> Item.exports] \in ProgramItem
      BY <2>1, TopTyped, ItemFields DEF ProgramItem
    <2>3. items \in Seq(ProgramItem) /\ errors \subseteq Error
      BY <2>1, <2>2, TopTyped DEF Error
    <2>4. stack' \in Seq(Parsers)
      BY <1>4, <2>1, <2>3, ReplaceTyped DEF ModuleDirective
    <2>5. QED
      BY <1>4, <2>4 DEF ModuleDirective, TypeOK
  <1>4a. CASE Exports
    <2> DEFINE walked == IF Item.exports = << >> THEN << >> ELSE publicList(Item.exports)
    <2>1. Busy /\ Top.rest # << >> /\ Item.kind = "exports"
      BY <1>4a DEF Exports, Has
    <2>2. walked \in Seq(ProgramItem)
      <3>1. Item.exports \in Seq(Export)
        BY <2>1, TopTyped, ItemFields
      <3>2. CASE Item.exports # << >> /\ Item.exports[1].kind = "op"
        <4>1. Item.exports[1] \in Export /\ Tail(Item.exports) \in Seq(Export)
          BY <3>1, <3>2
        <4>2. Item.exports[1] \in ProgramItem
          BY <3>2, <4>1 DEF Export, ProgramItem
        <4>3. [kind |-> "exports", exports |-> Tail(Item.exports)] \in ProgramItem
          BY <4>1 DEF ProgramItem
        <4>4. QED
          BY <3>2, <4>2, <4>3 DEF publicList
      <3>3. QED
        BY <3>2 DEF publicList
    <2>3. walked \o Tail(Top.rest) \in Seq(ProgramItem)
      BY <2>1, <2>2, TopTyped
    <2>4. stack' \in Seq(Parsers)
      <3>1. Replace(walked \o Tail(Top.rest), {})
        BY <1>4a DEF Exports
      <3>2. {} \in SUBSET Error
        OBVIOUS
      <3>3. QED
        BY <2>1, <2>3, <3>1, <3>2, ReplaceTyped
    <2>5. QED
      BY <1>4a, <2>4 DEF Exports, TypeOK
  <1>5. CASE ImportKnown
    <2> DEFINE w == Item.file
    <2>1. Busy /\ Top.rest # << >> /\ w \in Uri
      BY <1>5, TopTyped, ItemFields DEF ImportKnown, Has
    <2>2. DocumentManager[w].user \in Table
      BY <1>5, <2>1 DEF ImportKnown, Known, TypeOK, Analyses
    <2>3. LET r == absorb(Tables, DocumentManager[w].user)
          IN  r.tables \in TablePair /\ r.errors \subseteq Error
      BY <2>1, <2>2, TopTyped, AbsorbTyped
    <2>4. stack' \in Seq(Parsers) /\ default_table' \in Table
      BY <1>5, <2>1, <2>3, ConsumeTyped DEF ImportKnown
    <2>5. QED
      BY <1>5, <2>4 DEF ImportKnown, TypeOK
  <1>6. CASE ImportPending
    <2>1. Busy /\ Top.rest # << >>
      BY <1>6 DEF ImportPending, Has
    <2>2. stack' \in Seq(Parsers) /\ default_table' \in Table
      BY <1>6, <2>1, TopTyped, ConsumeTyped DEF ImportPending
    <2>3. QED
      BY <1>6, <2>2 DEF ImportPending, TypeOK
  <1>7. CASE ImportUnreadable
    <2>1. Busy /\ Top.rest # << >>
      BY <1>7 DEF ImportUnreadable, Has
    <2>2. stack' \in Seq(Parsers) /\ default_table' \in Table
      BY <1>7, <2>1, TopTyped, ConsumeTyped DEF ImportUnreadable, Error
    <2>3. QED
      BY <1>7, <2>2 DEF ImportUnreadable, TypeOK
  <1>8. CASE ImportReads
    <2>1. Busy /\ Top.rest # << >> /\ Item.file \in Uri
      BY <1>8, TopTyped, ItemFields DEF ImportReads, Has
    <2>2. Parser(Item.file, disk[Item.file]) \in Parsers
      <3>1. disk[Item.file] \in Programs
        BY <1>8, <2>1 DEF ImportReads, TypeOK
      <3>2. QED
        BY <2>1, <3>1, ParserTyped
    <2>3. <<Parser(Item.file, disk[Item.file])>> \o stack \in Seq(Parsers)
      BY <2>2 DEF TypeOK
    <2>4. QED
      BY <1>8, <2>3 DEF ImportReads, TypeOK
  <1>9. CASE Return
    <2> DEFINE importer == stack[2]
               result == absorb([default |-> default_table, user |-> importer.user], Top.user)
               p == [importer EXCEPT !.rest = Tail(@), !.user = result.tables.user,
                                     !.errors = @ \cup result.errors]
    <2>1. Top \in Parsers /\ importer \in Parsers /\ Tail(Tail(stack)) \in Seq(Parsers)
      <3>1. stack \in Seq(Parsers) /\ Len(stack) > 1
        BY <1>9 DEF Return, TypeOK
      <3>2. Tail(Tail(stack)) \in Seq(Parsers)
        BY <3>1, TailOfTail
      <3>3. QED
        BY <3>1, <3>2 DEF Top
    <2>2. result.tables \in TablePair /\ result.errors \subseteq Error
      BY <2>1, AbsorbTyped DEF TablePair, Parsers, TypeOK
    <2>3. Tail(importer.rest) \in Seq(ProgramItem)
      <3>1. importer.rest # << >>
        <4>1. Len(stack) \in Nat /\ 2 \in 2..Len(stack)
          BY <1>9 DEF Return, TypeOK
        <4>2. QED
          BY <4>1 DEF ImportersWait
      <3>2. importer.rest \in Seq(ProgramItem)
        BY <2>1 DEF Parsers
      <3>3. QED
        BY <3>1, <3>2
    <2>4. p \in Parsers
      BY <2>1, <2>2, <2>3 DEF Parsers, TablePair
    <2>5. <<p>> \o Tail(Tail(stack)) \in Seq(Parsers)
      BY <2>1, <2>4
    <2>6. Analysis(Top, 0) \in Analyses
      BY <2>1, AnalysisTyped
    <2>7. QED
      BY <1>9, <2>5, <2>6 DEF Return, StoredImport, TypeOK
  <1>10. CASE Finish
    <2>1. Top \in Parsers
      <3>1. stack \in Seq(Parsers) /\ Len(stack) = 1
        BY <1>10 DEF Finish, TypeOK
      <3>2. QED
        BY <3>1 DEF Top
    <2>2. Analysis(Top, validated[Top.uri]) \in Analyses
      BY <2>1, AnalysisTyped DEF TypeOK, Parsers
    <2>3. QED
      BY <1>10, <2>1, <2>2 DEF Finish, TypeOK, Parsers
  <1>11. CASE Throw
    BY <1>11 DEF Throw, TypeOK
  <1>12. CASE UNCHANGED vars
    BY <1>12 DEF vars, TypeOK
  <1>13. QED
    BY <1>1, <1>2, <1>3, <1>4, <1>4a, <1>5, <1>6, <1>7, <1>8, <1>9, <1>10, <1>11, <1>12
       DEF Runs, Step, Import

-----------------------------------------------------------------------------
(* How a step changes the stack. *)

\* The parser at the top goes on; nothing below it changes.
Advances ==
  /\ Busy
  /\ \E p : p.uri = Top.uri /\ stack' = <<p>> \o Tail(stack)

AdvancingStep ==
  \/ Term \/ OpDirective \/ ModuleDirective \/ Exports
  \/ ImportKnown \/ ImportPending \/ ImportUnreadable

\* Steps of the top parser that start and end no parse.
LEMMA StepAdvances ==
  ASSUME AdvancingStep, TypeOK
  PROVE  Advances
  <1>1. Busy
    BY DEF AdvancingStep, Term, OpDirective, ModuleDirective, Exports, ImportKnown,
           ImportPending, ImportUnreadable, Has
  <1>2. Top \in Parsers
    BY <1>1, TopTyped
  <1>3. ASSUME NEW result, Consume(result)
        PROVE  Advances
    BY <1>1, <1>2, <1>3 DEF Consume, Advances, Parsers
  <1>4. ASSUME NEW items, NEW errors, Replace(items, errors)
        PROVE  Advances
    BY <1>1, <1>2, <1>4 DEF Replace, Advances, Parsers
  <1>5. CASE Term
    BY <1>1, <1>2, <1>5 DEF Term, Advances, Parsers
  <1>6. CASE OpDirective
    BY <1>3, <1>6 DEF OpDirective
  <1>7. CASE ModuleDirective
    BY <1>4, <1>7 DEF ModuleDirective
  <1>8. CASE Exports
    BY <1>4, <1>8 DEF Exports
  <1>9. CASE ImportKnown
    BY <1>3, <1>9 DEF ImportKnown
  <1>10. CASE ImportPending
    BY <1>3, <1>10 DEF ImportPending
  <1>11. CASE ImportUnreadable
    BY <1>3, <1>11 DEF ImportUnreadable
  <1>12. QED
    BY <1>5, <1>6, <1>7, <1>8, <1>9, <1>10, <1>11 DEF AdvancingStep

\* What these change of the stack.
LEMMA AdvanceShape ==
  ASSUME TypeOK, Advances
  PROVE  /\ Len(stack') = Len(stack) /\ Len(stack) \in Nat \ {0}
         /\ \A i \in 1..Len(stack) : stack'[i].uri = stack[i].uri
         /\ \A i \in 2..Len(stack) : stack'[i] = stack[i]
  <1>1. PICK p : p.uri = Top.uri /\ stack' = <<p>> \o Tail(stack)
    BY DEF Advances
  <1>2. stack \in Seq(Parsers) /\ stack # << >>
    BY DEF TypeOK, Advances, Busy
  <1>3. Len(stack) \in Nat \ {0} /\ Len(Tail(stack)) = Len(stack) - 1
    BY <1>2
  <1>4. \A i \in 1..(Len(stack) - 1) : Tail(stack)[i] = stack[i + 1]
    BY <1>2
  <1>5. Len(stack') = Len(stack) /\ stack'[1] = p
    BY <1>1, <1>3
  <1>6. ASSUME NEW i \in 2..Len(stack)
        PROVE  stack'[i] = stack[i]
    <2>1. stack'[i] = Tail(stack)[i - 1]
      BY <1>1, <1>3
    <2>2. QED
      BY <1>3, <1>4, <2>1
  <1>7. QED
    BY <1>1, <1>3, <1>5, <1>6 DEF Top

\* A nested parse begins.
LEMMA PushShape ==
  ASSUME TypeOK, ImportReads
  PROVE  /\ Len(stack') = Len(stack) + 1 /\ Len(stack) \in Nat \ {0}
         /\ stack'[1].uri = Item.file /\ Item.file \in Uri
         /\ \A i \in 2..(Len(stack) + 1) : stack'[i] = stack[i - 1]
         /\ Top.rest # << >>
  <1>1. stack \in Seq(Parsers) /\ stack # << >> /\ stack' = <<Parser(Item.file, disk[Item.file])>> \o stack
    BY DEF TypeOK, ImportReads, Has, Busy
  <1>2. Top.rest # << >> /\ Item.file \in Uri
    BY TopTyped, ItemFields DEF ImportReads, Has
  <1>3. stack'[1].uri = Item.file
    BY <1>1 DEF Parser
  <1>4. QED
    BY <1>1, <1>2, <1>3

\* A nested parse ends.
LEMMA PopShape ==
  ASSUME TypeOK, Return
  PROVE  /\ Len(stack') = Len(stack) - 1 /\ Len(stack) \in Nat /\ Len(stack) > 1
         /\ stack'[1].uri = stack[2].uri
         /\ \A i \in 2..(Len(stack) - 1) : stack'[i] = stack[i + 1]
  <1>1. stack \in Seq(Parsers) /\ Len(stack) > 1
    BY DEF TypeOK, Return
  <1>2. PICK p : p.uri = stack[2].uri /\ stack' = <<p>> \o Tail(Tail(stack))
    <2>1. stack[2] \in Parsers
      BY <1>1
    <2>2. QED
      BY <2>1 DEF Return, Parsers
  <1>3. /\ Tail(stack) \in Seq(Parsers) /\ Len(Tail(stack)) = Len(stack) - 1
        /\ \A i \in 1..(Len(stack) - 1) : Tail(stack)[i] = stack[i + 1]
    BY <1>1
  <1>4. /\ Len(Tail(Tail(stack))) = Len(stack) - 2
        /\ \A i \in 1..(Len(stack) - 2) : Tail(Tail(stack))[i] = stack[i + 2]
    <2> DEFINE t == Tail(stack)
    <2>1. t \in Seq(Parsers) /\ Len(t) = Len(stack) - 1 /\ Len(t) > 0
      BY <1>1, <1>3
    <2>2. \A i \in 1..Len(t) : t[i] = stack[i + 1]
      BY <1>3
    <2> HIDE DEF t
    <2>3. t # << >>
      BY <2>1
    <2>4. Len(Tail(t)) = Len(t) - 1 /\ \A i \in 1..(Len(t) - 1) : Tail(t)[i] = t[i + 1]
      BY <2>1, <2>3
    <2>5. Len(Tail(t)) = Len(stack) - 2 /\ \A i \in 1..(Len(stack) - 2) : Tail(t)[i] = stack[i + 2]
      BY <1>1, <2>1, <2>2, <2>4
    <2>6. QED
      BY <2>5 DEF t
  <1>5. Len(stack') = Len(stack) - 1 /\ stack'[1] = p
    BY <1>1, <1>2, <1>4
  <1>6. ASSUME NEW i \in 2..(Len(stack) - 1)
        PROVE  stack'[i] = stack[i + 1]
    <2>1. stack'[i] = Tail(Tail(stack))[i - 1]
      BY <1>1, <1>2, <1>4
    <2>2. QED
      BY <1>1, <1>4, <2>1
  <1>7. QED
    BY <1>1, <1>2, <1>5, <1>6

-----------------------------------------------------------------------------
(* No file is parsed inside its own parse. *)

\* Every file that is being parsed has its entry undefined.
ParsedArePending ==
  \A i \in 1..Len(stack) : DocumentManager[stack[i].uri] = Pending

\* Only the validated document, at the bottom of the stack, had an entry when
\* the validation began.
NestedWereAbsent ==
  \A i \in 1..(Len(stack) - 1) : before[stack[i].uri] = Absent

\* Files whose entry is not undefined have no parser at work, and what the
\* validation under way did to entries other than that of its document is to
\* fill some that were absent.
OnlyAbsentFilled ==
  Busy => \A w \in Uri : w # stack[Len(stack)].uri =>
    \/ DocumentManager[w] = before[w]
    \/ before[w] = Absent /\ Seen(DocumentManager[w]) \in {Pending, 0}

StackInv ==
  /\ ImportersWait
  /\ NoReentry
  /\ ParsedArePending
  /\ NestedWereAbsent
  /\ OnlyAbsentFilled

\* An analysis shows its version.
LEMMA SeenAnalysis ==
  ASSUME NEW p \in Parsers, NEW n \in Nat
  PROVE  Seen(Analysis(p, n)) = n
  <1>1. Analysis(p, n) \notin {Absent, Pending}
    BY AnalysisTyped, EntriesDiffer
  <1>2. Analysis(p, n).version = n
    BY DEF Analysis
  <1>3. QED
    BY <1>1, <1>2 DEF Seen

\* A parser has a document.
LEMMA StackUris ==
  ASSUME TypeOK
  PROVE  /\ Len(stack) \in Nat
         /\ \A i \in 1..Len(stack) : stack[i] \in Parsers /\ stack[i].uri \in Uri
  <1>1. stack \in Seq(Parsers)
    BY DEF TypeOK
  <1>2. Len(stack) \in Nat /\ \A i \in 1..Len(stack) : stack[i] \in Parsers
    BY <1>1
  <1>3. \A p \in Parsers : p.uri \in Uri
    BY DEF Parsers
  <1>4. QED
    BY <1>2, <1>3

\* The steps of the top parser that fill no entry but that of an unreadable file.
LEMMA StackAdvances ==
  ASSUME TypeOK, StackInv, Advances, Top.rest # << >>, before' = before,
         \/ DocumentManager' = DocumentManager
         \/ \E w \in Uri : /\ DocumentManager[w] = Absent
                           /\ DocumentManager' = [DocumentManager EXCEPT ![w] = Pending]
  PROVE  StackInv'
  <1>1. /\ Len(stack') = Len(stack) /\ Len(stack) \in Nat \ {0}
        /\ \A i \in 1..Len(stack) : stack'[i].uri = stack[i].uri
        /\ \A i \in 2..Len(stack) : stack'[i] = stack[i]
    BY AdvanceShape
  <1>2. \A w \in Uri :
          \/ DocumentManager'[w] = DocumentManager[w]
          \/ DocumentManager[w] = Absent /\ DocumentManager'[w] = Pending
    <2>1. CASE DocumentManager' = DocumentManager
      BY <2>1
    <2>2. CASE \E w \in Uri : /\ DocumentManager[w] = Absent
                             /\ DocumentManager' = [DocumentManager EXCEPT ![w] = Pending]
      <3>1. PICK v \in Uri : /\ DocumentManager[v] = Absent
                            /\ DocumentManager' = [DocumentManager EXCEPT ![v] = Pending]
        BY <2>2
      <3>2. \A w \in Uri : DocumentManager'[w]
                            = IF w = v THEN Pending ELSE DocumentManager[w]
        BY <3>1 DEF TypeOK
      <3>3. QED
        BY <3>1, <3>2
    <2>3. QED
      BY <2>1, <2>2
  <1>3. ImportersWait'
    <2>1. \A i \in 2..Len(stack) : i - 1 \in 1..Len(stack)
      BY <1>1
    <2>2. QED
      BY <1>1, <2>1 DEF StackInv, ImportersWait
  <1>4. NoReentry'
    BY <1>1 DEF StackInv, NoReentry
  <1>5. ParsedArePending'
    BY <1>1, <1>2, StackUris DEF StackInv, ParsedArePending
  <1>6. NestedWereAbsent'
    BY <1>1, StackUris DEF StackInv, NestedWereAbsent
  <1>7. OnlyAbsentFilled'
    <2>1. Busy /\ stack'[Len(stack')].uri = stack[Len(stack)].uri
      BY <1>1 DEF Advances
    <2>2. ASSUME NEW w \in Uri, w # stack[Len(stack)].uri
          PROVE  \/ DocumentManager'[w] = before[w]
                 \/ before[w] = Absent /\ Seen(DocumentManager'[w]) \in {Pending, 0}
      <3>1. CASE DocumentManager'[w] = DocumentManager[w]
        BY <2>1, <2>2, <3>1 DEF StackInv, OnlyAbsentFilled
      <3>2. CASE DocumentManager[w] = Absent /\ DocumentManager'[w] = Pending
        <4>1. Seen(DocumentManager'[w]) = Pending
          BY <3>2 DEF Seen
        <4>2. before[w] = Absent
          <5>1. Seen(Absent) = Absent /\ Absent # Pending /\ Absent # 0
            BY EntriesDiffer DEF Seen
          <5>2. QED
            BY <2>1, <2>2, <3>2, <5>1 DEF StackInv, OnlyAbsentFilled
        <4>3. QED
          BY <4>1, <4>2
      <3>3. QED
        BY <1>2, <3>1, <3>2
    <2>3. QED
      BY <2>1, <2>2 DEF OnlyAbsentFilled
  <1>8. QED
    BY <1>3, <1>4, <1>5, <1>6, <1>7 DEF StackInv

\* Every step keeps the stack of parsers what it is.
LEMMA StackStep ==
  ASSUME TypeOK, StackInv, [Runs]_vars
  PROVE  StackInv'
  <1>1. ASSUME NEW u \in Uri, NEW q \in Programs, Begin(u, q)
        PROVE  StackInv'
    <2>1. stack' = <<Parser(u, q)>> /\ Len(stack') = 1 /\ stack'[1].uri = u
      BY <1>1 DEF Begin, Parser
    <2>2. ImportersWait' /\ NoReentry' /\ NestedWereAbsent'
      BY <2>1 DEF ImportersWait, NoReentry, NestedWereAbsent
    <2>3. /\ DocumentManager' = [DocumentManager EXCEPT ![u] = Pending]
          /\ before' = DocumentManager
      BY <1>1 DEF Begin
    <2>4. ParsedArePending'
      BY <2>1, <2>3 DEF ParsedArePending, TypeOK
    <2>5. OnlyAbsentFilled'
      BY <2>1, <2>3 DEF OnlyAbsentFilled, TypeOK
    <2>6. QED
      BY <2>2, <2>4, <2>5 DEF StackInv
  <1>2. CASE AdvancingStep
    <2>1. Advances
      BY <1>2, StepAdvances
    <2>2. Top.rest # << >> /\ before' = before
      BY <1>2 DEF AdvancingStep, Term, OpDirective, ModuleDirective, Exports, ImportKnown,
           ImportPending, ImportUnreadable, Has
    <2>3. \/ DocumentManager' = DocumentManager
          \/ \E w \in Uri : /\ DocumentManager[w] = Absent
                            /\ DocumentManager' = [DocumentManager EXCEPT ![w] = Pending]
      <3>1. CASE ImportUnreadable
        <4>1. Item.file \in Uri
          BY <3>1, TopTyped, ItemFields DEF ImportUnreadable, Has
        <4>2. QED
          BY <3>1, <4>1 DEF ImportUnreadable
      <3>2. CASE ~ImportUnreadable
        BY <1>2, <3>2 DEF AdvancingStep, Term, OpDirective, ModuleDirective, Exports,
                          ImportKnown, ImportPending
      <3>3. QED
        BY <3>1, <3>2
    <2>4. QED
      BY <2>1, <2>2, <2>3, StackAdvances
  <1>3. CASE ImportReads
    <2> DEFINE f == Item.file
               n == Len(stack)
    <2>1. /\ Len(stack') = n + 1 /\ n \in Nat \ {0}
          /\ stack'[1].uri = f /\ f \in Uri
          /\ \A i \in 2..(n + 1) : stack'[i] = stack[i - 1]
          /\ Top.rest # << >>
      BY <1>3, PushShape
    <2>2. /\ DocumentManager[f] = Absent /\ before' = before /\ Busy
          /\ DocumentManager' = [DocumentManager EXCEPT ![f] = Pending]
      BY <1>3 DEF ImportReads, ToRead, MarkedBeforeReading, Has
    <2>3. \A i \in 1..n : stack[i].uri # f
      BY <2>2, EntriesDiffer DEF StackInv, ParsedArePending
    <2>4. ImportersWait'
      <3>1. ASSUME NEW i \in 2..(n + 1)
            PROVE  /\ stack'[i].rest # << >> /\ stack'[i].rest[1].kind = "use_module"
                   /\ stack'[i].rest[1].file = stack'[i - 1].uri
        <4>1. stack'[i] = stack[i - 1]
          BY <2>1
        <4>2. CASE i = 2
          <5>1. stack'[i] = Top /\ stack'[i - 1].uri = f
            BY <2>1, <4>1, <4>2 DEF Top
          <5>2. Item.kind = "use_module"
            BY <1>3 DEF ImportReads, Has
          <5>3. QED
            BY <2>1, <5>1, <5>2 DEF Item
        <4>3. CASE i # 2
          <5>1. i - 1 \in 2..n /\ stack'[i - 1] = stack[(i - 1) - 1]
            BY <2>1, <4>3
          <5>2. QED
            BY <4>1, <5>1 DEF StackInv, ImportersWait
        <4>4. QED
          BY <4>2, <4>3
      <3>2. QED
        BY <2>1, <3>1 DEF ImportersWait
    <2>5. NoReentry'
      <3>1. ASSUME NEW i \in 1..(n + 1), NEW j \in 1..(n + 1), stack'[i].uri = stack'[j].uri
            PROVE  i = j
        <4>1. \A k \in 2..(n + 1) : k - 1 \in 1..n /\ stack'[k].uri = stack[k - 1].uri
          BY <2>1
        <4>2. \A k \in 2..(n + 1) : stack'[k].uri # f
          BY <2>3, <4>1
        <4>3. CASE i = 1 \/ j = 1
          BY <2>1, <3>1, <4>2, <4>3
        <4>4. CASE i # 1 /\ j # 1
          <5>1. i \in 2..(n + 1) /\ j \in 2..(n + 1)
            BY <2>1, <4>4
          <5>2. i - 1 = j - 1
            BY <3>1, <4>1, <5>1 DEF StackInv, NoReentry
          <5>3. QED
            BY <5>1, <5>2
        <4>5. QED
          BY <4>3, <4>4
      <3>2. QED
        BY <2>1, <3>1 DEF NoReentry
    <2>6. ParsedArePending'
      <3>1. \A w \in Uri : DocumentManager[w] = Pending => DocumentManager'[w] = Pending
        BY <2>2 DEF TypeOK
      <3>2. DocumentManager'[f] = Pending
        BY <2>1, <2>2 DEF TypeOK
      <3>3. ASSUME NEW i \in 1..(n + 1)
            PROVE  DocumentManager'[stack'[i].uri] = Pending
        <4>1. CASE i = 1
          BY <2>1, <3>2, <4>1
        <4>2. CASE i # 1
          <5>1. i - 1 \in 1..n /\ stack'[i] = stack[i - 1]
            BY <2>1, <4>2
          <5>2. QED
            BY <3>1, <5>1, StackUris DEF StackInv, ParsedArePending
        <4>3. QED
          BY <4>1, <4>2
      <3>4. QED
        BY <2>1, <3>3 DEF ParsedArePending
    <2>7. f # stack[n].uri
      BY <2>1, <2>3
    <2>8. before[f] = Absent
      <3>1. Seen(Absent) = Absent /\ Absent # Pending /\ Absent # 0
        BY EntriesDiffer DEF Seen
      <3>2. QED
        BY <2>1, <2>2, <2>7, <3>1 DEF StackInv, OnlyAbsentFilled
    <2>9. NestedWereAbsent'
      <3>1. ASSUME NEW i \in 1..n
            PROVE  before[stack'[i].uri] = Absent
        <4>1. CASE i = 1
          BY <2>1, <2>8, <4>1
        <4>2. CASE i # 1
          <5>1. i - 1 \in 1..(n - 1) /\ stack'[i] = stack[i - 1]
            BY <2>1, <4>2
          <5>2. QED
            BY <5>1 DEF StackInv, NestedWereAbsent
        <4>3. QED
          BY <4>1, <4>2
      <3>2. Len(stack') - 1 = n
        BY <2>1
      <3>3. QED
        BY <2>2, <3>1, <3>2 DEF NestedWereAbsent
    <2>10. OnlyAbsentFilled'
      <3>1. stack'[Len(stack')] = stack[n]
        BY <2>1
      <3>2. ASSUME NEW w \in Uri, w # stack[n].uri
            PROVE  \/ DocumentManager'[w] = before[w]
                   \/ before[w] = Absent /\ Seen(DocumentManager'[w]) \in {Pending, 0}
        <4>1. CASE w = f
          <5>1. DocumentManager'[w] = Pending
            BY <2>1, <2>2, <4>1 DEF TypeOK
          <5>2. QED
            BY <2>8, <4>1, <5>1 DEF Seen
        <4>2. CASE w # f
          <5>1. DocumentManager'[w] = DocumentManager[w]
            BY <2>2, <4>2 DEF TypeOK
          <5>2. QED
            BY <2>2, <3>2, <5>1 DEF StackInv, OnlyAbsentFilled
        <4>3. QED
          BY <4>1, <4>2
      <3>3. QED
        BY <2>2, <3>1, <3>2 DEF OnlyAbsentFilled
    <2>11. QED
      BY <2>4, <2>5, <2>6, <2>9, <2>10 DEF StackInv
  <1>4. CASE Return
    <2> DEFINE n == Len(stack)
    <2>1. /\ Len(stack') = n - 1 /\ n \in Nat /\ n > 1
          /\ stack'[1].uri = stack[2].uri
          /\ \A i \in 2..(n - 1) : stack'[i] = stack[i + 1]
      BY <1>4, PopShape
    <2>2. \A i \in 1..(n - 1) : i + 1 \in 2..n /\ stack'[i].uri = stack[i + 1].uri
      BY <2>1
    <2>3. /\ Top \in Parsers /\ Top.uri = stack[1].uri /\ Top.uri \in Uri
          /\ DocumentManager' = [DocumentManager EXCEPT ![Top.uri] = Analysis(Top, 0)]
          /\ before' = before
      BY <1>4, <2>1, StackUris DEF Return, StoredImport, Top
    <2>4. \A i \in 2..n : stack[i].uri # Top.uri
      BY <2>1, <2>3 DEF StackInv, NoReentry
    <2>5. ImportersWait'
      <3>1. ASSUME NEW i \in 2..(n - 1)
            PROVE  /\ stack'[i].rest # << >> /\ stack'[i].rest[1].kind = "use_module"
                   /\ stack'[i].rest[1].file = stack'[i - 1].uri
        <4>1. stack'[i] = stack[i + 1] /\ i + 1 \in 2..n /\ (i + 1) - 1 = (i - 1) + 1
          BY <2>1
        <4>2. stack'[i - 1].uri = stack[(i - 1) + 1].uri
          BY <2>1, <2>2
        <4>3. QED
          BY <4>1, <4>2 DEF StackInv, ImportersWait
      <3>2. QED
        BY <2>1, <3>1 DEF ImportersWait
    <2>6. NoReentry'
      <3>1. ASSUME NEW i \in 1..(n - 1), NEW j \in 1..(n - 1), stack'[i].uri = stack'[j].uri
            PROVE  i = j
        <4>1. i + 1 \in 1..n /\ j + 1 \in 1..n /\ stack[i + 1].uri = stack[j + 1].uri
          BY <2>1, <2>2, <3>1
        <4>2. i + 1 = j + 1
          BY <4>1 DEF StackInv, NoReentry
        <4>3. QED
          BY <2>1, <4>2
      <3>2. QED
        BY <2>1, <3>1 DEF NoReentry
    <2>7. ParsedArePending'
      <3>1. ASSUME NEW i \in 1..(n - 1)
            PROVE  DocumentManager'[stack'[i].uri] = Pending
        <4>1. i + 1 \in 1..n /\ stack'[i].uri = stack[i + 1].uri
          BY <2>1, <2>2
        <4>2. stack[i + 1].uri \in Uri /\ stack[i + 1].uri # Top.uri
          BY <2>2, <2>4, <4>1, StackUris
        <4>3. DocumentManager[stack[i + 1].uri] = Pending
          BY <4>1 DEF StackInv, ParsedArePending
        <4>4. QED
          BY <2>3, <4>1, <4>2, <4>3 DEF TypeOK
      <3>2. QED
        BY <2>1, <3>1 DEF ParsedArePending
    <2>8. NestedWereAbsent'
      <3>1. ASSUME NEW i \in 1..(n - 2)
            PROVE  before[stack'[i].uri] = Absent
        <4>1. i + 1 \in 1..(n - 1) /\ stack'[i].uri = stack[i + 1].uri
          BY <2>1, <2>2
        <4>2. QED
          BY <4>1 DEF StackInv, NestedWereAbsent
      <3>2. Len(stack') - 1 = n - 2
        BY <2>1
      <3>3. QED
        BY <2>3, <3>1, <3>2 DEF NestedWereAbsent
    <2>9. OnlyAbsentFilled'
      <3>1. stack'[Len(stack')].uri = stack[n].uri /\ Busy
        BY <2>1, <2>2 DEF Busy
      <3>2. ASSUME NEW w \in Uri, w # stack[n].uri
            PROVE  \/ DocumentManager'[w] = before[w]
                   \/ before[w] = Absent /\ Seen(DocumentManager'[w]) \in {Pending, 0}
        <4>1. CASE w = Top.uri
          <5>1. before[w] = Absent
            <6>1. 1 \in 1..(n - 1)
              BY <2>1
            <6>2. QED
              BY <2>3, <4>1, <6>1 DEF StackInv, NestedWereAbsent
          <5>2. Seen(DocumentManager'[w]) = 0
            BY <2>3, <4>1, SeenAnalysis DEF TypeOK
          <5>3. QED
            BY <5>1, <5>2
        <4>2. CASE w # Top.uri
          <5>1. DocumentManager'[w] = DocumentManager[w]
            BY <2>3, <4>2 DEF TypeOK
          <5>2. QED
            BY <3>1, <3>2, <5>1 DEF StackInv, OnlyAbsentFilled
        <4>3. QED
          BY <4>1, <4>2
      <3>3. QED
        BY <2>3, <3>1, <3>2 DEF OnlyAbsentFilled
    <2>10. QED
      BY <2>5, <2>6, <2>7, <2>8, <2>9 DEF StackInv
  <1>5. CASE Finish \/ Throw
    <2>1. stack' = << >> /\ Len(stack') = 0
      BY <1>5 DEF Finish, Throw
    <2>2. QED
      BY <2>1 DEF StackInv, ImportersWait, NoReentry, ParsedArePending, NestedWereAbsent,
                  OnlyAbsentFilled, Busy
  <1>6. CASE UNCHANGED vars
    BY <1>6 DEF vars, StackInv, ImportersWait, NoReentry, ParsedArePending, NestedWereAbsent,
                OnlyAbsentFilled, Busy, Seen
  <1>7. QED
    BY <1>1, <1>2, <1>3, <1>4, <1>5, <1>6 DEF Runs, Step, Import, AdvancingStep

-----------------------------------------------------------------------------
(* The loader implements the store of analyses. *)

\* An analysis is not newer than the validations of its document, and a
\* validation under way has been counted.
VersionsAreValidations ==
  /\ \A u \in Uri : /\ Seen(DocumentManager[u]) \in Nat => Seen(DocumentManager[u]) <= validated[u]
                    /\ Seen(before[u]) \in Nat => Seen(before[u]) <= validated[u]
  /\ Busy => validated[stack[Len(stack)].uri] > 0

IInv == TypeOK /\ StackInv /\ VersionsAreValidations

\* Neither of the entries that are no analysis shows a version.
LEMMA SeenNone ==
  /\ Seen(Absent) = Absent /\ Seen(Pending) = Pending
  /\ Absent \notin Nat /\ Pending \notin Nat
  BY EntriesDiffer DEF Seen

\* The document at the bottom of the stack stays while the stack is not empty.
LEMMA BottomStays ==
  ASSUME TypeOK, \/ AdvancingStep \/ ImportReads \/ Return
  PROVE  Busy /\ Busy' /\ stack'[Len(stack')].uri = stack[Len(stack)].uri
  <1>1. CASE AdvancingStep
    <2>1. Advances
      BY <1>1, StepAdvances
    <2>2. QED
      <3>1. /\ Len(stack') = Len(stack) /\ Len(stack) \in Nat \ {0}
            /\ \A i \in 1..Len(stack) : stack'[i].uri = stack[i].uri
        BY <2>1, AdvanceShape
      <3>2. stack' # << >>
        BY <3>1
      <3>3. QED
        BY <2>1, <3>1, <3>2 DEF Advances, Busy
  <1>2. CASE ImportReads
    <2>1. /\ Len(stack') = Len(stack) + 1 /\ Len(stack) \in Nat \ {0}
          /\ \A i \in 2..(Len(stack) + 1) : stack'[i] = stack[i - 1]
      BY <1>2, PushShape
    <2>2. stack' # << >> /\ stack'[Len(stack')] = stack[Len(stack)]
      BY <2>1
    <2>3. QED
      BY <1>2, <2>2 DEF Busy, ImportReads, Has
  <1>3. CASE Return
    <2>1. /\ Len(stack') = Len(stack) - 1 /\ Len(stack) \in Nat /\ Len(stack) > 1
          /\ stack'[1].uri = stack[2].uri
          /\ \A i \in 2..(Len(stack) - 1) : stack'[i] = stack[i + 1]
      BY <1>3, PopShape
    <2>2. stack # << >> /\ stack' # << >>
      BY <2>1
    <2>3. stack'[Len(stack')].uri = stack[Len(stack)].uri
      <3>1. CASE Len(stack) = 2
        BY <2>1, <3>1
      <3>2. CASE Len(stack) > 2
        BY <2>1, <3>2
      <3>3. QED
        BY <2>1, <3>1, <3>2
    <2>4. QED
      BY <2>2, <2>3 DEF Busy
  <1>4. QED
    BY <1>1, <1>2, <1>3

\* These steps change entries only from Absent to Pending and from Pending to a
\* version 0, and count no validation.
LEMMA StepEntries ==
  ASSUME TypeOK, \/ AdvancingStep \/ ImportReads \/ Return
  PROVE  /\ before' = before /\ validated' = validated
         /\ \A w \in Uri : \/ DocumentManager'[w] = DocumentManager[w]
                           \/ Seen(DocumentManager'[w]) \in {Pending, 0}
  <1>1. CASE AdvancingStep /\ ~ImportUnreadable
    BY <1>1 DEF AdvancingStep, Term, OpDirective, ModuleDirective, Exports, ImportKnown,
                ImportPending
  <1>2. CASE ImportUnreadable \/ ImportReads
    <2>1. DocumentManager' = [DocumentManager EXCEPT ![Item.file] = Pending]
      BY <1>2 DEF ImportUnreadable, ImportReads
    <2>2. \A w \in Uri : DocumentManager'[w] = DocumentManager[w] \/ DocumentManager'[w] = Pending
      BY <2>1 DEF TypeOK
    <2>3. before' = before /\ validated' = validated
      BY <1>2 DEF ImportUnreadable, ImportReads
    <2>4. QED
      BY <2>2, <2>3, SeenNone
  <1>3. CASE Return
    <2>1. Top \in Parsers
      BY <1>3, PopShape, StackUris DEF Top
    <2>2. Seen(Analysis(Top, 0)) = 0
      BY <2>1, SeenAnalysis
    <2>3. DocumentManager' = [DocumentManager EXCEPT ![Top.uri] = Analysis(Top, 0)]
      BY <1>3 DEF Return, StoredImport
    <2>4. \A w \in Uri : \/ DocumentManager'[w] = DocumentManager[w]
                         \/ DocumentManager'[w] = Analysis(Top, 0)
      BY <2>3 DEF TypeOK
    <2>5. before' = before /\ validated' = validated
      BY <1>3 DEF Return
    <2>6. QED
      BY <2>2, <2>4, <2>5
  <1>4. QED
    BY <1>1, <1>2, <1>3

\* The end of a validation.
LEMMA FinishEntries ==
  ASSUME TypeOK, Finish
  PROVE  LET u == stack[Len(stack)].uri
         IN  /\ u \in Uri /\ validated' = validated /\ before' = before
             /\ Seen(DocumentManager'[u]) = validated[u]
             /\ \A w \in Uri : w # u => DocumentManager'[w] = DocumentManager[w]
  <1>1. Len(stack) = 1 /\ Top \in Parsers /\ Top = stack[Len(stack)] /\ Top.uri \in Uri
    BY StackUris DEF Finish, Top
  <1>2. DocumentManager'
          = [DocumentManager EXCEPT ![Top.uri] = Analysis(Top, validated[Top.uri])]
    BY DEF Finish
  <1>3. Seen(Analysis(Top, validated[Top.uri])) = validated[Top.uri]
    BY <1>1, SeenAnalysis DEF TypeOK
  <1>4. /\ DocumentManager'[Top.uri] = Analysis(Top, validated[Top.uri])
        /\ \A w \in Uri : w # Top.uri => DocumentManager'[w] = DocumentManager[w]
    BY <1>1, <1>2 DEF TypeOK
  <1>5. QED
    BY <1>1, <1>3, <1>4 DEF Finish

\* Every step keeps versions below the validations of their document.
LEMMA VersionStep ==
  ASSUME TypeOK, StackInv, VersionsAreValidations, [Runs]_vars
  PROVE  VersionsAreValidations'
  <1>1. ASSUME NEW u \in Uri, NEW q \in Programs, Begin(u, q)
        PROVE  VersionsAreValidations'
    <2>1. /\ DocumentManager' = [DocumentManager EXCEPT ![u] = Pending]
          /\ before' = DocumentManager
          /\ validated' = [validated EXCEPT ![u] = @ + 1]
          /\ stack' = <<Parser(u, q)>>
      BY <1>1 DEF Begin
    <2>2. stack'[Len(stack')].uri = u
      BY <2>1 DEF Parser
    <2>3. validated'[u] > 0 /\ \A w \in Uri : validated'[w] >= validated[w] /\ validated[w] \in Nat
                                               /\ validated'[w] \in Nat
      BY <2>1 DEF TypeOK
    <2>4. \A w \in Uri : DocumentManager'[w] = DocumentManager[w] \/ DocumentManager'[w] = Pending
      BY <2>1 DEF TypeOK
    <2>5. ASSUME NEW w \in Uri
          PROVE  /\ Seen(DocumentManager'[w]) \in Nat => Seen(DocumentManager'[w]) <= validated'[w]
                 /\ Seen(before'[w]) \in Nat => Seen(before'[w]) <= validated'[w]
      BY <2>1, <2>3, <2>4, SeenNone DEF VersionsAreValidations
    <2>6. QED
      BY <2>2, <2>3, <2>5 DEF VersionsAreValidations, Seen
  <1>2. CASE AdvancingStep \/ ImportReads \/ Return
    <2>1. Busy /\ Busy' /\ stack'[Len(stack')].uri = stack[Len(stack)].uri
      BY <1>2, BottomStays
    <2>2. /\ before' = before /\ validated' = validated
          /\ \A w \in Uri : \/ DocumentManager'[w] = DocumentManager[w]
                            \/ Seen(DocumentManager'[w]) \in {Pending, 0}
      BY <1>2, StepEntries
    <2>3. \A w \in Uri : validated[w] \in Nat
      BY DEF TypeOK
    <2>4. ASSUME NEW w \in Uri
          PROVE  /\ Seen(DocumentManager'[w]) \in Nat => Seen(DocumentManager'[w]) <= validated'[w]
                 /\ Seen(before'[w]) \in Nat => Seen(before'[w]) <= validated'[w]
      BY <2>2, <2>3, SeenNone DEF VersionsAreValidations
    <2>5. QED
      BY <2>1, <2>2, <2>4 DEF VersionsAreValidations, Seen
  <1>3. CASE Finish
    <2> DEFINE u == stack[Len(stack)].uri
    <2>1. /\ u \in Uri /\ validated' = validated /\ before' = before
          /\ Seen(DocumentManager'[u]) = validated[u]
          /\ \A w \in Uri : w # u => DocumentManager'[w] = DocumentManager[w]
      BY <1>3, FinishEntries
    <2>2. \A w \in Uri : validated[w] \in Nat
      BY DEF TypeOK
    <2>3. ASSUME NEW w \in Uri
          PROVE  /\ Seen(DocumentManager'[w]) \in Nat => Seen(DocumentManager'[w]) <= validated'[w]
                 /\ Seen(before'[w]) \in Nat => Seen(before'[w]) <= validated'[w]
      BY <2>1, <2>2 DEF VersionsAreValidations
    <2>4. ~Busy'
      BY <1>3 DEF Finish, Busy
    <2>5. QED
      BY <2>3, <2>4 DEF VersionsAreValidations, Seen
  <1>4. CASE Throw
    BY <1>4 DEF Throw, VersionsAreValidations, Busy, Seen
  <1>5. CASE UNCHANGED vars
    BY <1>5 DEF vars, VersionsAreValidations, Busy, Seen
  <1>6. QED
    BY <1>1, <1>2, <1>3, <1>4, <1>5 DEF Runs, Step, Import, AdvancingStep

\* The whole of a validation, when it is over, is one step of the store.
LEMMA LoadIsAnalysis ==
  ASSUME TypeOK, StackInv, Busy, ~Busy', validated' = validated,
         NEW result,
         LET u == stack[Len(stack)].uri
         IN  /\ u \in Uri
             /\ Seen(DocumentManager'[u]) = result
             /\ result = Pending \/ Store!NotOlder(result, Seen(before[u]))
             /\ \A w \in Uri : w # u => DocumentManager'[w] = DocumentManager[w]
  PROVE  Store!Analyse(stack[Len(stack)].uri, result)
  <1> DEFINE u == stack[Len(stack)].uri
             shown == [w \in Uri |-> Seen(IF Busy THEN before[w] ELSE DocumentManager[w])]
             imported == {w \in Uri \ {u} : shown[w] = Absent /\ Seen(DocumentManager'[w]) # Absent}
             failed == {w \in imported : Seen(DocumentManager'[w]) = Pending}
  <1>1. \A w \in Uri : shown[w] = Seen(before[w])
    OBVIOUS
  <1>2. shown' = [w \in Uri |-> Seen(DocumentManager'[w])]
    BY DEF Seen
  <1>3. \A w \in Uri : w # u =>
          \/ Seen(DocumentManager'[w]) = shown[w]
          \/ shown[w] = Absent /\ Seen(DocumentManager'[w]) \in {Pending, 0}
    BY <1>1, SeenNone DEF StackInv, OnlyAbsentFilled
  <1>4. shown' = [w \in Uri |-> IF w = u THEN result
                                ELSE IF w \in failed THEN Pending
                                ELSE IF w \in imported THEN 0
                                ELSE shown[w]]
    <2>1. ASSUME NEW w \in Uri
          PROVE  Seen(DocumentManager'[w]) = IF w = u THEN result
                                ELSE IF w \in failed THEN Pending
                                ELSE IF w \in imported THEN 0
                                ELSE shown[w]
      BY <1>3, SeenNone, EntriesDiffer
    <2>2. QED
      BY <1>2, <2>1
  <1>5. /\ imported \in SUBSET {w \in Uri \ {u} : shown[w] = Absent}
        /\ failed \in SUBSET imported
    OBVIOUS
  <1>6. result = Pending \/ Store!NotOlder(result, shown[u])
    BY <1>1
  <1>7. \E im \in SUBSET {w \in Uri \ {u} : shown[w] = Absent} :
          \E fa \in SUBSET im :
            shown' = [w \in Uri |-> IF w = u THEN result
                                    ELSE IF w \in fa THEN Pending
                                    ELSE IF w \in im THEN 0
                                    ELSE shown[w]]
    <2> HIDE DEF imported, failed, shown, u
    <2>1. QED
      BY <1>4, <1>5
  <1>8. QED
    <2> HIDE DEF imported, failed
    <2>1. QED
      BY <1>6, <1>7 DEF Store!Analyse

\* Every step is a step of the store, or changes nothing the store shows.
LEMMA StoreStep ==
  ASSUME IInv, [Runs]_vars
  PROVE  [Store!Next]_(Store!storeVars)
  <1> USE DEF IInv
  <1> DEFINE bottom == stack[Len(stack)].uri
  <1>1. ASSUME NEW u \in Uri, NEW q \in Programs, Begin(u, q)
        PROVE  Store!Give(u)
    <2>1. ~Busy /\ Busy' /\ before' = DocumentManager /\ validated' = [validated EXCEPT ![u] = @ + 1]
      BY <1>1 DEF Begin, Busy
    <2>2. QED
      BY <2>1 DEF Store!Give, Seen
  <1>2. CASE AdvancingStep \/ ImportReads \/ Return
    <2>1. Busy /\ Busy' /\ before' = before /\ validated' = validated
      BY <1>2, BottomStays, StepEntries
    <2>2. QED
      BY <2>1 DEF Store!storeVars, Seen
  <1>3. CASE Finish
    <2>1. /\ bottom \in Uri /\ validated' = validated /\ before' = before
          /\ Seen(DocumentManager'[bottom]) = validated[bottom]
          /\ \A w \in Uri : w # bottom => DocumentManager'[w] = DocumentManager[w]
      BY <1>3, FinishEntries
    <2>2. Busy /\ ~Busy'
      BY <1>3 DEF Finish, Busy
    <2>3. validated[bottom] \in Nat /\ validated[bottom] > 0
      BY <2>1, <2>2 DEF VersionsAreValidations, TypeOK
    <2>4. Store!NotOlder(validated[bottom], Seen(before[bottom]))
      BY <2>1, <2>3 DEF Store!NotOlder, VersionsAreValidations
    <2>5. Store!Analyse(bottom, validated[bottom])
      BY <2>1, <2>2, <2>4, LoadIsAnalysis
    <2>6. validated[bottom] \in 1..validated[bottom]
      BY <2>3
    <2>7. QED
      BY <2>1, <2>5, <2>6 DEF Store!Next
  <1>4. CASE Throw
    <2>1. Busy /\ ~Busy' /\ validated' = validated /\ DocumentManager' = DocumentManager
      BY <1>4 DEF Throw, Busy
    <2>2. bottom \in Uri /\ DocumentManager[bottom] = Pending
      <3>1. Len(stack) \in Nat /\ Len(stack) > 0
        BY <2>1 DEF Busy, TypeOK
      <3>2. Len(stack) \in 1..Len(stack)
        BY <3>1
      <3>3. QED
        BY <3>2, StackUris DEF StackInv, ParsedArePending
    <2>3. Seen(DocumentManager'[bottom]) = Pending
      BY <2>1, <2>2, SeenNone
    <2>4. Store!Analyse(bottom, Pending)
      BY <2>1, <2>2, <2>3, LoadIsAnalysis
    <2>5. QED
      BY <2>2, <2>4 DEF Store!Next
  <1>5. CASE UNCHANGED vars
    BY <1>5 DEF vars, Store!storeVars, Busy, Seen
  <1>6. QED
    BY <1>1, <1>2, <1>3, <1>4, <1>5 DEF Runs, Step, Import, AdvancingStep, Store!Next

-----------------------------------------------------------------------------
(* Reserved names. *)

\* A parser whose table has an operator of a reserved name has the error for it.
Told(p) ==
  (\E key \in Key : key[1] \in Reserved /\ p.user[key] # 0) => "permission" \in p.errors

ParsersAreTold == \A i \in 1..Len(stack) : Told(stack[i])

\* What a step adds to a table that is reserved comes with the error.
AddsWithError(t, result) ==
  \A key \in Key : key[1] \in Reserved /\ result.tables.user[key] # 0
                     => t.user[key] # 0 \/ "permission" \in result.errors

\* op/3 adds no operator of a reserved name without the error.
LEMMA OpAdds ==
  ASSUME NEW t \in TablePair, NEW prec \in Nat \cup {NaN}, NEW type, NEW name \in Name
  PROVE  AddsWithError(t, op(t, prec, type, name))
  <1>1. CASE check(prec, type) # {}
    BY <1>1 DEF op, AddsWithError
  <1>2. CASE check(prec, type) = {}
    <2>1. t.user \in [Key -> 0..MaxPrecedence]
      BY DEF TablePair, Table
    <2>2. ASSUME NEW key \in Key, key[1] \in Reserved,
                 op_3(t, prec, type, name).user[key] # 0, t.user[key] = 0
          PROVE  name \in Reserved
      <3>1. CASE prec = NaN
        BY <2>2, <3>1, NotANumber DEF op_3
      <3>2. CASE prec # NaN /\ prec = 0
        <4>1. op_3(t, prec, type, name).user = [t.user EXCEPT ![<<name, type>>] = 0]
          BY <3>2 DEF op_3
        <4>2. QED
          BY <2>1, <2>2, <4>1
      <3>3. CASE prec # NaN /\ prec # 0
        <4>1. op_3(t, prec, type, name).user = [t.user EXCEPT ![<<name, type>>] = prec]
          BY <3>3 DEF op_3, TablePair
        <4>2. key = <<name, type>>
          BY <2>1, <2>2, <4>1
        <4>3. QED
          BY <2>2, <4>2
      <3>4. QED
        BY <3>1, <3>2, <3>3
    <2>3. QED
      BY <1>2, <2>2 DEF op, AddsWithError, PermissionErrors
  <1>3. QED
    BY <1>1, <1>2

\* Nor does an import.
LEMMA AbsorbAdds ==
  ASSUME NEW t \in TablePair, NEW other \in Table
  PROVE  AddsWithError(t, absorb(t, other))
  <1>1. absorb(t, other).tables.user = Union(t.user, other)
    BY DEF absorb, TablePair
  <1>2. ASSUME NEW key \in Key, key[1] \in Reserved, other[key] # 0
        PROVE  "permission" \in AbsorbErrors(other)
    <2>1. PermissionErrors(key[1]) = {"permission"}
      BY <1>2 DEF PermissionErrors
    <2>2. QED
      BY <1>2, <2>1 DEF AbsorbErrors
  <1>3. QED
    BY <1>1, <1>2 DEF AddsWithError, Union, absorb

\* Going on with such a result keeps a parser told.
LEMMA ToldStays ==
  ASSUME NEW p \in Parsers, Told(p), NEW t, t.user = p.user, NEW result,
         AddsWithError(t, result), NEW rest
  PROVE  Told([p EXCEPT !.rest = rest, !.user = result.tables.user,
                        !.errors = @ \cup result.errors])
  BY DEF Told, AddsWithError, Parsers

\* A told parser that goes on with such a result stays told.
LEMMA ConsumeTold ==
  ASSUME TypeOK, Busy, ParsersAreTold, NEW result, Consume(result),
         AddsWithError(Tables, result)
  PROVE  ParsersAreTold'
  <1> DEFINE p == [Top EXCEPT !.rest = Tail(@), !.user = result.tables.user,
                              !.errors = @ \cup result.errors]
  <1>1. Advances /\ stack' = <<p>> \o Tail(stack) /\ Top \in Parsers
    BY TopTyped DEF Consume, Advances, Parsers
  <1>2. /\ Len(stack') = Len(stack) /\ Len(stack) \in Nat \ {0}
        /\ \A i \in 2..Len(stack) : stack'[i] = stack[i]
    BY <1>1, AdvanceShape
  <1>3. stack'[1] = p
    BY <1>1, TopTyped
  <1>4. Told(Top) /\ Tables.user = Top.user
    BY <1>2 DEF ParsersAreTold, Top, Tables
  <1>5. Told(p)
    <2>1. Told([Top EXCEPT !.rest = Tail(Top.rest), !.user = result.tables.user,
                           !.errors = @ \cup result.errors])
      BY <1>1, <1>4, ToldStays
    <2>2. QED
      BY <2>1
  <1> HIDE DEF p
  <1>6. QED
    BY <1>2, <1>3, <1>5 DEF ParsersAreTold

\* The other steps of the top parser change neither its table nor its errors
\* for the worse.
LEMMA ReplaceTold ==
  ASSUME TypeOK, Busy, ParsersAreTold, NEW p, p.uri = Top.uri, p.user = Top.user,
         Top.errors \subseteq p.errors, stack' = <<p>> \o Tail(stack)
  PROVE  ParsersAreTold'
  <1>1. Advances
    BY DEF Advances
  <1>2. /\ Len(stack') = Len(stack) /\ Len(stack) \in Nat \ {0}
        /\ \A i \in 2..Len(stack) : stack'[i] = stack[i]
    BY <1>1, AdvanceShape
  <1>3. stack'[1] = p
    BY TopTyped
  <1>4. Told(p)
    BY <1>2 DEF ParsersAreTold, Told, Top
  <1>5. QED
    BY <1>2, <1>3, <1>4 DEF ParsersAreTold

\* A parser starts without operators of its own.
LEMMA ParserTold ==
  ASSUME NEW u, NEW q
  PROVE  Told(Parser(u, q))
  BY DEF Told, Parser, InitialTable, EmptyTable

\* Every step keeps parsers told.
LEMMA ToldStep ==
  ASSUME TypeOK, StackInv, ParsersAreTold, [Runs]_vars
  PROVE  ParsersAreTold'
  <1>1. ASSUME NEW u \in Uri, NEW q \in Programs, Begin(u, q)
        PROVE  ParsersAreTold'
    BY <1>1, ParserTold DEF Begin, ParsersAreTold
  <1>2. CASE Term
    BY <1>2, ReplaceTold, TopTyped DEF Term, Has, Parsers
  <1>3. CASE OpDirective
    <2>1. Busy /\ Top.rest # << >> /\ Item.kind = "op"
      BY <1>3 DEF OpDirective, Has
    <2>2. AddsWithError(Tables, op(Tables, Item.prec, Item.type, Item.name))
      BY <2>1, TopTyped, ItemFields, OpAdds
    <2>3. QED
      BY <1>3, <2>1, <2>2, ConsumeTold DEF OpDirective
  <1>4. CASE ModuleDirective \/ Exports
    <2>1. Busy /\ Top \in Parsers
      BY <1>4, TopTyped DEF ModuleDirective, Exports, Has
    <2>2. PICK items, errors : Replace(items, errors)
      BY <1>4 DEF ModuleDirective, Exports
    <2>3. QED
      BY <2>1, <2>2, ReplaceTold DEF Replace, Parsers
  <1>5. CASE ImportKnown
    <2>1. Busy /\ Item.file \in Uri
      BY <1>5, TopTyped, ItemFields DEF ImportKnown, Has
    <2>2. DocumentManager[Item.file].user \in Table
      BY <1>5, <2>1 DEF ImportKnown, Known, TypeOK, Analyses
    <2>3. AddsWithError(Tables, absorb(Tables, DocumentManager[Item.file].user))
      BY <2>1, <2>2, TopTyped, AbsorbAdds
    <2>4. QED
      BY <1>5, <2>1, <2>3, ConsumeTold DEF ImportKnown
  <1>6. CASE ImportPending \/ ImportUnreadable
    <2>1. Busy
      BY <1>6 DEF ImportPending, ImportUnreadable, Has
    <2>2. PICK errors : Consume([tables |-> Tables, errors |-> errors])
      BY <1>6 DEF ImportPending, ImportUnreadable
    <2>3. AddsWithError(Tables, [tables |-> Tables, errors |-> errors])
      BY DEF AddsWithError
    <2>4. QED
      BY <2>1, <2>2, <2>3, ConsumeTold
  <1>7. CASE ImportReads
    <2>1. /\ Len(stack') = Len(stack) + 1 /\ Len(stack) \in Nat \ {0}
          /\ \A i \in 2..(Len(stack) + 1) : stack'[i] = stack[i - 1]
      BY <1>7, PushShape
    <2>2. stack'[1] = Parser(Item.file, disk[Item.file])
      BY <1>7, <2>1 DEF ImportReads, TypeOK
    <2>3. Told(stack'[1])
      BY <2>2, ParserTold
    <2>4. ASSUME NEW i \in 2..(Len(stack) + 1)
          PROVE  Told(stack'[i])
      <3>1. i - 1 \in 1..Len(stack) /\ stack'[i] = stack[i - 1]
        BY <2>1
      <3>2. QED
        BY <3>1 DEF ParsersAreTold
    <2>5. QED
      BY <2>1, <2>3, <2>4 DEF ParsersAreTold
  <1>8. CASE Return
    <2> DEFINE importer == stack[2]
               t == [default |-> default_table, user |-> importer.user]
               result == absorb(t, Top.user)
               p == [importer EXCEPT !.rest = Tail(@), !.user = result.tables.user,
                                     !.errors = @ \cup result.errors]
    <2>1. /\ Len(stack') = Len(stack) - 1 /\ Len(stack) \in Nat /\ Len(stack) > 1
          /\ \A i \in 2..(Len(stack) - 1) : stack'[i] = stack[i + 1]
      BY <1>8, PopShape
    <2>2. Top \in Parsers /\ importer \in Parsers
      BY <2>1, StackUris DEF Top
    <2>3. t \in TablePair /\ Top.user \in Table /\ t.user = importer.user
      BY <2>2 DEF TablePair, Parsers, TypeOK
    <2>4. AddsWithError(t, result)
      BY <2>3, AbsorbAdds
    <2>5. Told(importer)
      BY <2>1 DEF ParsersAreTold
    <2>6. Told(p)
      <3>1. Told([importer EXCEPT !.rest = Tail(importer.rest), !.user = result.tables.user,
                                  !.errors = @ \cup result.errors])
        BY <2>2, <2>3, <2>4, <2>5, ToldStays
      <3>2. QED
        BY <3>1
    <2>7. stack'[1] = p
      <3>1. stack' = <<p>> \o Tail(Tail(stack))
        BY <1>8 DEF Return
      <3>2. Tail(Tail(stack)) \in Seq(Parsers)
        BY <2>1, TailOfTail DEF TypeOK
      <3> HIDE DEF p
      <3>3. QED
        BY <3>1, <3>2
    <2>8. ASSUME NEW i \in 2..(Len(stack) - 1)
          PROVE  Told(stack'[i])
      <3>1. i + 1 \in 1..Len(stack) /\ stack'[i] = stack[i + 1]
        BY <2>1
      <3>2. QED
        BY <3>1 DEF ParsersAreTold
    <2> HIDE DEF p
    <2>9. QED
      BY <2>1, <2>6, <2>7, <2>8 DEF ParsersAreTold
  <1>9. CASE Finish \/ Throw
    BY <1>9 DEF Finish, Throw, ParsersAreTold
  <1>10. CASE UNCHANGED vars
    BY <1>10 DEF vars, ParsersAreTold
  <1>11. QED
    BY <1>1, <1>2, <1>3, <1>4, <1>5, <1>6, <1>7, <1>8, <1>9, <1>10 DEF Runs, Step, Import

\* Every step keeps documents told.
LEMMA SilentStep ==
  ASSUME TypeOK, StackInv, ParsersAreTold, NoSilentReservedOperator, [Runs]_vars
  PROVE  NoSilentReservedOperator'
  <1> SUFFICES ASSUME NEW u \in Uri, Known(u)', (DocumentManager[u].version > 0)',
                      (\E key \in Key : key[1] \in Reserved /\ DocumentManager[u].user[key] # 0)'
               PROVE  "permission" \in reported'[u]
    BY DEF NoSilentReservedOperator
  <1>1. CASE DocumentManager'[u] = DocumentManager[u] /\ reported'[u] = reported[u]
    BY <1>1 DEF NoSilentReservedOperator, Known
  <1>2. ASSUME NEW v \in Uri, NEW q \in Programs, Begin(v, q)
        PROVE  DocumentManager'[u] = DocumentManager[u] /\ reported'[u] = reported[u]
    BY <1>2 DEF Begin, TypeOK, Known
  <1>3. CASE AdvancingStep \/ ImportReads
    <2>1. /\ reported' = reported
          /\ \/ DocumentManager' = DocumentManager
             \/ DocumentManager' = [DocumentManager EXCEPT ![Item.file] = Pending]
      BY <1>3 DEF AdvancingStep, Term, OpDirective, ModuleDirective, Exports, ImportKnown,
                  ImportPending, ImportUnreadable, ImportReads
    <2>2. QED
      BY <1>1, <2>1 DEF TypeOK, Known
  <1>4. CASE Return
    <2>1. /\ DocumentManager' = [DocumentManager EXCEPT ![Top.uri] = Analysis(Top, 0)]
          /\ reported' = reported
      BY <1>4 DEF Return, StoredImport
    <2>2. DocumentManager'[u] = DocumentManager[u] \/ DocumentManager'[u] = Analysis(Top, 0)
      BY <2>1 DEF TypeOK
    <2>3. Analysis(Top, 0).version = 0
      BY DEF Analysis
    <2>4. QED
      BY <1>1, <2>1, <2>2, <2>3
  <1>5. CASE Finish
    <2>1. Len(stack) = 1 /\ Top = stack[1] /\ Top \in Parsers
      BY <1>5, StackUris DEF Finish, Top
    <2>2. /\ DocumentManager'
               = [DocumentManager EXCEPT ![Top.uri] = Analysis(Top, validated[Top.uri])]
          /\ reported' = [reported EXCEPT ![Top.uri] = Top.errors]
      BY <1>5 DEF Finish
    <2>3. CASE u = Top.uri
      <3>1. DocumentManager'[u].user = Top.user /\ reported'[u] = Top.errors
        BY <2>2, <2>3 DEF TypeOK, Analysis
      <3>2. Told(Top)
        BY <2>1 DEF ParsersAreTold
      <3>3. QED
        BY <3>1, <3>2 DEF Told
    <2>4. CASE u # Top.uri
      <3>1. DocumentManager'[u] = DocumentManager[u] /\ reported'[u] = reported[u]
        BY <2>2, <2>4 DEF TypeOK
      <3>2. QED
        BY <1>1, <3>1
    <2>5. QED
      BY <2>3, <2>4
  <1>6. CASE Throw
    BY <1>1, <1>6 DEF Throw
  <1>7. CASE UNCHANGED vars
    BY <1>1, <1>7 DEF vars
  <1>8. QED
    BY <1>1, <1>2, <1>3, <1>4, <1>5, <1>6, <1>7 DEF Runs, Step, Import, AdvancingStep

-----------------------------------------------------------------------------
(* Undefined entries. *)

\* An undefined entry is being parsed, or its file cannot be read.
PendingIsParsed ==
  \A u \in Uri : DocumentManager[u] = Pending =>
    disk[u] = Unreadable \/ \E i \in 1..Len(stack) : stack[i].uri = u

\* Every step of a parse that does not throw keeps it so.
LEMMA PendingStep ==
  ASSUME TypeOK, StackInv, PendingIsParsed, [Next]_vars
  PROVE  PendingIsParsed'
  <1> SUFFICES ASSUME NEW u \in Uri, DocumentManager'[u] = Pending, disk'[u] # Unreadable
               PROVE  \E i \in 1..Len(stack') : stack'[i].uri = u
    BY DEF PendingIsParsed
  <1>1. disk' = disk
    BY DEF Next, Validate, Begin, Step, Import, Term, OpDirective, ModuleDirective, Exports,
           ImportKnown, ImportPending, ImportUnreadable, ImportReads, Return, Finish, vars
  <1>2. ASSUME NEW v \in Uri, Validate(v)
        PROVE  \E i \in 1..Len(stack') : stack'[i].uri = u
    <2>1. stack' = <<Parser(v, disk[v])>> /\ Len(stack') = 1 /\ stack'[1].uri = v
      BY <1>2 DEF Validate, Begin, Parser
    <2>2. u = v
      <3>1. Len(stack) = 0 /\ DocumentManager' = [DocumentManager EXCEPT ![v] = Pending]
        BY <1>2 DEF Validate, Begin, Busy
      <3>2. u # v => DocumentManager[u] = Pending
        BY <3>1 DEF TypeOK
      <3>3. QED
        BY <1>1, <3>1, <3>2 DEF PendingIsParsed
    <2>3. QED
      BY <2>1, <2>2
  <1>3. CASE AdvancingStep
    <2>1. /\ Len(stack') = Len(stack)
          /\ \A i \in 1..Len(stack) : stack'[i].uri = stack[i].uri
      BY <1>3, StepAdvances, AdvanceShape
    <2>2. DocumentManager[u] = Pending
      <3>1. CASE ImportUnreadable
        <4>1. /\ DocumentManager' = [DocumentManager EXCEPT ![Item.file] = Pending]
              /\ disk[Item.file] = Unreadable
          BY <3>1 DEF ImportUnreadable
        <4>2. u # Item.file
          BY <1>1, <4>1
        <4>3. QED
          BY <4>1, <4>2 DEF TypeOK
      <3>2. CASE ~ImportUnreadable
        BY <1>3, <3>2 DEF AdvancingStep, Term, OpDirective, ModuleDirective, Exports,
                          ImportKnown, ImportPending
      <3>3. QED
        BY <3>1, <3>2
    <2>3. QED
      BY <1>1, <2>1, <2>2 DEF PendingIsParsed
  <1>4. CASE ImportReads
    <2>1. /\ Len(stack') = Len(stack) + 1 /\ Len(stack) \in Nat \ {0}
          /\ stack'[1].uri = Item.file
          /\ \A i \in 2..(Len(stack) + 1) : stack'[i] = stack[i - 1]
      BY <1>4, PushShape
    <2>2. CASE u = Item.file
      BY <2>1, <2>2
    <2>3. CASE u # Item.file
      <3>1. DocumentManager' = [DocumentManager EXCEPT ![Item.file] = Pending]
        BY <1>4 DEF ImportReads
      <3>2. DocumentManager[u] = Pending
        BY <2>3, <3>1 DEF TypeOK
      <3>3. PICK i \in 1..Len(stack) : stack[i].uri = u
        BY <1>1, <3>2 DEF PendingIsParsed
      <3>4. i + 1 \in 1..Len(stack') /\ stack'[i + 1] = stack[i]
        BY <2>1
      <3>5. QED
        BY <3>3, <3>4
    <2>4. QED
      BY <2>2, <2>3
  <1>5. CASE Return
    <2>1. /\ Len(stack') = Len(stack) - 1 /\ Len(stack) \in Nat /\ Len(stack) > 1
          /\ stack'[1].uri = stack[2].uri
          /\ \A i \in 2..(Len(stack) - 1) : stack'[i] = stack[i + 1]
      BY <1>5, PopShape
    <2>2. Top \in Parsers /\ Top = stack[1]
      BY <2>1, StackUris DEF Top
    <2>3. Analysis(Top, 0) # Pending
      BY <2>2, AnalysisTyped, EntriesDiffer
    <2>4. DocumentManager' = [DocumentManager EXCEPT ![Top.uri] = Analysis(Top, 0)]
      BY <1>5 DEF Return, StoredImport
    <2>5. u # Top.uri /\ DocumentManager[u] = Pending
      BY <2>3, <2>4 DEF TypeOK
    <2>6. PICK i \in 1..Len(stack) : stack[i].uri = u
      BY <1>1, <2>5 DEF PendingIsParsed
    <2>7. i # 1
      BY <2>2, <2>5, <2>6
    <2>8. i - 1 \in 1..Len(stack') /\ stack'[i - 1].uri = stack[i].uri
      <3>1. CASE i = 2
        BY <2>1, <3>1
      <3>2. CASE i # 2
        BY <2>1, <2>7, <3>2
      <3>3. QED
        BY <3>1, <3>2
    <2>9. QED
      BY <2>6, <2>8
  <1>6. CASE Finish
    <2>1. Len(stack) = 1 /\ Top = stack[1] /\ Top \in Parsers
      BY <1>6, StackUris DEF Finish, Top
    <2>2. Analysis(Top, validated[Top.uri]) # Pending
      BY <2>1, AnalysisTyped, EntriesDiffer DEF TypeOK, Parsers
    <2>3. DocumentManager'
            = [DocumentManager EXCEPT ![Top.uri] = Analysis(Top, validated[Top.uri])]
      BY <1>6 DEF Finish
    <2>4. u # Top.uri /\ DocumentManager[u] = Pending
      BY <2>2, <2>3 DEF TypeOK
    <2>5. QED
      BY <1>1, <2>1, <2>4 DEF PendingIsParsed
  <1>7. CASE UNCHANGED vars
    BY <1>1, <1>7 DEF vars, PendingIsParsed
  <1>8. QED
    BY <1>2, <1>3, <1>4, <1>5, <1>6, <1>7 DEF Next, Step, Import, AdvancingStep

-----------------------------------------------------------------------------
(* Numbers and functions defined by recursion. *)

\* A set of numbers has a least one.
LEMMA Least ==
  ASSUME NEW S, S \subseteq Nat, S # {}
  PROVE  \E m \in S : \A k \in S : m <= k
  <1>1. PICK n \in Nat : n \in S
    OBVIOUS
  <1> DEFINE D == 0..n
             R == StrictSubsetOrdering(D)
             upTo == {0..k : k \in S \cap D}
  <1>2. IsWellFoundedOn(R, SUBSET D)
    <2>1. 0 \in Int /\ n \in Int
      OBVIOUS
    <2>2. IsFiniteSet(D)
      BY <2>1, FS_Interval
    <2> HIDE DEF D
    <2>3. QED
      BY <2>2, FS_StrictSubsetOrderingWellFounded, FS_FiniteSubsetsOfFinite
  <1>3. upTo \subseteq SUBSET D /\ upTo # {}
    BY <1>1
  <1>4. PICK T \in upTo : \A U \in upTo : <<U, T>> \notin R
    <2> HIDE DEF upTo, R
    <2>1. QED
      BY <1>2, <1>3, WFMin
  <1>5. PICK m \in S \cap D : T = 0..m
    BY <1>4
  <1>6. ASSUME NEW k \in S, ~(m <= k)
        PROVE  FALSE
    <2>1. k \in Nat /\ m \in Nat /\ k < m /\ m \in D
      BY <1>5, <1>6
    <2>2. k \in S \cap D /\ 0..k \subseteq 0..m /\ 0..k # 0..m
      BY <1>6, <2>1
    <2>3. 0..k \in upTo /\ <<0..k, T>> \in R
      BY <1>3, <1>4, <1>5, <2>2 DEF StrictSubsetOrdering
    <2>4. QED
      BY <1>4, <2>3
  <1>7. QED
    BY <1>5, <1>6

\* A bounded one has a largest.
LEMMA Largest ==
  ASSUME NEW n \in Nat, NEW S, S \subseteq 0..n, S # {}
  PROVE  Max(S) \in S /\ \A k \in S : k <= Max(S)
  <1> DEFINE T == {n - k : k \in S}
  <1>1. T \subseteq Nat /\ T # {}
    <2>1. \A k \in S : n - k \in Nat
      OBVIOUS
    <2>2. QED
      BY <2>1
  <1>2. PICK t \in T : \A k \in T : t <= k
    <2> HIDE DEF T
    <2>1. QED
      BY <1>1, Least
  <1>3. PICK m \in S : t = n - m
    BY <1>2
  <1>4. \A k \in S : m >= k
    <2> TAKE k \in S
    <2>1. n - m <= n - k
      BY <1>2, <1>3
    <2>2. QED
      BY <2>1
  <1>5. Max(S) \in S /\ \A k \in S : Max(S) >= k
    BY <1>4 DEF Max
  <1>6. QED
    BY <1>5

\* Induction over an interval, for a set.
LEMMA Induction ==
  ASSUME NEW n \in Nat, NEW S, 0 \in S, \A k \in 0..(n - 1) : k \in S => k + 1 \in S
  PROVE  0..n \subseteq S
  <1> DEFINE T == 0..n \ S
  <1> SUFFICES ASSUME T # {} PROVE FALSE
    OBVIOUS
  <1>1. T \subseteq Nat
    OBVIOUS
  <1>2. PICK m \in T : \A k \in T : m <= k
    <2> HIDE DEF T
    <2>1. QED
      BY <1>1, Least
  <1>3. m # 0 /\ m \in 0..n
    BY <1>2
  <1>4. m - 1 \in 0..(n - 1) /\ m - 1 \in S
    BY <1>2, <1>3
  <1>5. m \in S
    BY <1>3, <1>4
  <1>6. QED
    BY <1>2, <1>5

\* The first values of a function that is computed step by step, by F from x.
Computed(f, m, x, F) == f[0] = x /\ \A k \in 1..m : f[k] = F[k][f[k - 1]]

\* There is one.
LEMMA Iterates ==
  ASSUME NEW n \in Nat, NEW X, NEW x \in X, NEW F \in [1..n -> [X -> X]]
  PROVE  \E f \in [0..n -> X] : Computed(f, n, x, F)
  <1> DEFINE S == {m \in 0..n : \E f \in [0..n -> X] : Computed(f, m, x, F)}
  <1>1. 0 \in S
    <2> DEFINE f == [k \in 0..n |-> x]
    <2>1. f \in [0..n -> X] /\ f[0] = x /\ \A k \in 1..0 : f[k] = F[k][f[k - 1]]
      OBVIOUS
    <2> HIDE DEF f
    <2>2. Computed(f, 0, x, F)
      BY <2>1 DEF Computed
    <2>3. QED
      BY <2>1, <2>2
  <1>2. ASSUME NEW m \in 0..(n - 1), m \in S
        PROVE  m + 1 \in S
    <2>1. PICK f \in [0..n -> X] : Computed(f, m, x, F)
      BY <1>2
    <2>2. f[m] \in X /\ m + 1 \in 1..n
      OBVIOUS
    <2>3. F[m + 1][f[m]] \in X
      BY <2>2
    <2> DEFINE g == [f EXCEPT ![m + 1] = F[m + 1][f[m]]]
    <2>4. /\ g \in [0..n -> X] /\ g[m + 1] = F[m + 1][f[m]]
          /\ \A k \in 0..n : k # m + 1 => g[k] = f[k]
      BY <2>2, <2>3
    <2> HIDE DEF g
    <2>5. g[0] = x
      BY <2>1, <2>4 DEF Computed
    <2>6. ASSUME NEW k \in 1..(m + 1)
          PROVE  g[k] = F[k][g[k - 1]]
      <3>1. k - 1 \in 0..n /\ k \in 0..n /\ k - 1 # m + 1
        BY <2>2
      <3>2. g[k - 1] = f[k - 1]
        BY <2>4, <3>1
      <3>3. CASE k = m + 1
        BY <2>4, <3>2, <3>3
      <3>4. CASE k # m + 1
        BY <2>1, <2>4, <3>1, <3>2, <3>4 DEF Computed
      <3>5. QED
        BY <3>3, <3>4
    <2>7. Computed(g, m + 1, x, F)
      BY <2>5, <2>6 DEF Computed
    <2>8. QED
      BY <2>2, <2>4, <2>7
  <1>3. 0..n \subseteq S
    <2> HIDE DEF S
    <2>1. QED
      BY <1>1, <1>2, Induction
  <1>4. n \in S
    BY <1>3
  <1>5. QED
    BY <1>4

-----------------------------------------------------------------------------
(* Flattening a sequence of sequences, from its front. *)

\* The prefixes a flattening goes through.
Flattened(ss, f) ==
  f = [i \in 1..Len(ss) |-> IF i = 1 THEN ss[i] ELSE f[i - 1] \o ss[i]]

PrefixesOf(ss, n, f) ==
  /\ FlattenSeq(ss) = f[n]
  /\ f[1] = ss[1]
  /\ \A i \in 2..n : f[i] = f[i - 1] \o ss[i]

\* The prefixes of a flattened sequence exist, and the last of them is FlattenSeq.
LEMMA FlattenSteps ==
  ASSUME NEW S, NEW ss, NEW n \in Nat \ {0}, Len(ss) = n, \A i \in 1..n : ss[i] \in Seq(S)
  PROVE  \E f \in [1..n -> Seq(S)] : PrefixesOf(ss, n, f)
  <1>1. Len(ss) = n /\ \A i \in 1..n : ss[i] \in Seq(S)
    OBVIOUS
  <1> DEFINE F == [i \in 1..n |-> [s \in Seq(S) |-> IF i = 1 THEN ss[i] ELSE s \o ss[i]]]
  <1>2. /\ F \in [1..n -> [Seq(S) -> Seq(S)]]
        /\ \A i \in 1..n, s \in Seq(S) : F[i][s] = IF i = 1 THEN ss[i] ELSE s \o ss[i]
    <2>1. \A i \in 1..n, s \in Seq(S) : (IF i = 1 THEN ss[i] ELSE s \o ss[i]) \in Seq(S)
      BY <1>1
    <2>2. QED
      BY <2>1
  <1> HIDE DEF F
  <1>3. PICK h \in [0..n -> Seq(S)] : Computed(h, n, << >>, F)
    <2>1. << >> \in Seq(S)
      OBVIOUS
    <2>2. QED
      BY <1>1, <1>2, <2>1, Iterates
  <1>4. \A i \in 1..n : h[i] = IF i = 1 THEN ss[i] ELSE h[i - 1] \o ss[i]
    <2> TAKE i \in 1..n
    <2>1. i - 1 \in 0..n
      OBVIOUS
    <2>2. h[i] = F[i][h[i - 1]] /\ h[i - 1] \in Seq(S)
      BY <1>3, <2>1 DEF Computed
    <2>3. QED
      BY <1>2, <2>2
  <1> DEFINE f == [i \in 1..n |-> h[i]]
  <1>5. \A i \in 1..n : f[i] = h[i]
    OBVIOUS
  <1>6. \A i \in 1..n : f[i] = IF i = 1 THEN ss[i] ELSE f[i - 1] \o ss[i]
    <2> TAKE i \in 1..n
    <2>1. i # 1 => i - 1 \in 1..n
      OBVIOUS
    <2>2. QED
      BY <1>4, <1>5, <2>1
  <1>7. f = [i \in 1..n |-> f[i]]
    OBVIOUS
  <1> HIDE DEF f
  <1>8. Flattened(ss, f)
    BY <1>1, <1>6, <1>7 DEF Flattened
  <1> DEFINE g == CHOOSE k : Flattened(ss, k)
  <1>9. Flattened(ss, g)
    BY <1>8
  <1>10. FlattenSeq(ss) = g[n]
    BY <1>1 DEF FlattenSeq, Flattened
  <1> HIDE DEF g
  <1>11. g = [i \in 1..n |-> IF i = 1 THEN ss[i] ELSE g[i - 1] \o ss[i]]
    BY <1>1, <1>9 DEF Flattened
  <1>12. \A i \in 1..n : g[i] = IF i = 1 THEN ss[i] ELSE g[i - 1] \o ss[i]
    BY <1>11
  <1>13. \A i \in 1..n : g[i] \in Seq(S)
    <2> DEFINE P(i) == g[i] \in Seq(S)
               T == {i \in 0..n : i # 0 => P(i)}
    <2>1. 0 \in T
      OBVIOUS
    <2>2. ASSUME NEW i \in 0..(n - 1), i \in T
          PROVE  i + 1 \in T
      <3>1. i + 1 \in 1..n /\ (i + 1) - 1 = i
        OBVIOUS
      <3>2. ss[i + 1] \in Seq(S)
        BY <1>1, <3>1
      <3>3. g[i + 1] = IF i + 1 = 1 THEN ss[i + 1] ELSE g[i] \o ss[i + 1]
        BY <1>12, <3>1
      <3>4. CASE i = 0
        BY <3>2, <3>3, <3>4
      <3>5. CASE i # 0
        <4>1. g[i] \in Seq(S)
          BY <2>2, <3>5
        <4>1a. i + 1 # 1
          BY <3>5
        <4>2. g[i + 1] = g[i] \o ss[i + 1]
          BY <3>3, <4>1a, Zenon
        <4>3. g[i + 1] \in Seq(S)
          BY <3>2, <4>1, <4>2
        <4> HIDE DEF P
        <4>4. P(i + 1) /\ i + 1 \in 0..n
          BY <3>1, <4>3 DEF P
        <4>5. QED
          BY <4>4
      <3>6. QED
        BY <3>4, <3>5
    <2>3. 0..n \subseteq T
      <3> HIDE DEF T
      <3>1. QED
        BY <2>1, <2>2, Induction
    <2>4. QED
      BY <2>3
  <1>14. g \in [1..n -> Seq(S)]
    BY <1>11, <1>13
  <1>15. g[1] = ss[1]
    BY <1>12
  <1>16. \A i \in 2..n : g[i] = g[i - 1] \o ss[i]
    <2> TAKE i \in 2..n
    <2>1. i \in 1..n /\ i # 1
      OBVIOUS
    <2>2. QED
      BY <1>12, <2>1
  <1>17. PrefixesOf(ss, n, g)
    BY <1>10, <1>15, <1>16 DEF PrefixesOf
  <1>18. QED
    BY <1>14, <1>17

\* Concatenation is associative.
LEMMA Associative ==
  ASSUME NEW S, NEW a \in Seq(S), NEW b \in Seq(S), NEW c \in Seq(S)
  PROVE  (a \o b) \o c = a \o (b \o c)
  BY ConcatAssociative

\* The first sequence comes first.
LEMMA FlattenFirst ==
  ASSUME NEW S, NEW s \in Seq(S), NEW ss \in Seq(Seq(S))
  PROVE  FlattenSeq(<<s>> \o ss) = s \o FlattenSeq(ss)
  <1> DEFINE tt == <<s>> \o ss
  <1>0. \A b, c \in Seq(S) : (s \o b) \o c = s \o (b \o c)
    <2> TAKE b, c \in Seq(S)
    <2>1. QED
      BY Associative
  <1>1. PICK n \in Nat : Len(ss) = n
    OBVIOUS
  <1>2. /\ tt \in Seq(Seq(S)) /\ Len(tt) = n + 1 /\ tt[1] = s /\ tt # << >>
        /\ \A i \in 1..n : tt[i + 1] = ss[i] /\ ss[i] \in Seq(S)
    BY <1>1
  <1> HIDE DEF tt
  <1>3. PICK g \in [1..(n + 1) -> Seq(S)] : PrefixesOf(tt, n + 1, g)
    <2>1. ASSUME NEW i \in 1..(n + 1)
          PROVE  tt[i] \in Seq(S)
      <3>1. CASE i = 1
        BY <1>2, <3>1
      <3>2. CASE i # 1
        <4>1. i - 1 \in 1..n /\ (i - 1) + 1 = i
          BY <3>2
        <4>2. QED
          BY <1>2, <4>1
      <3>3. QED
        BY <3>1, <3>2
    <2>2. n + 1 \in Nat \ {0}
      OBVIOUS
    <2>3. QED
      BY <1>2, <2>1, <2>2, FlattenSteps
  <1>3a. /\ FlattenSeq(tt) = g[n + 1]
         /\ g[1] = tt[1]
         /\ \A i \in 2..(n + 1) : g[i] = g[i - 1] \o tt[i]
    BY <1>3 DEF PrefixesOf
  <1>4. CASE n = 0
    <2>1. ss = << >> /\ FlattenSeq(ss) = << >>
      BY <1>1, <1>4 DEF FlattenSeq
    <2>2. FlattenSeq(tt) = s
      BY <1>2, <1>3a, <1>4
    <2>3. QED
      BY <2>1, <2>2 DEF tt
  <1>5. CASE n # 0
    <2>0. PICK f \in [1..n -> Seq(S)] : PrefixesOf(ss, n, f)
      BY <1>1, <1>2, <1>5, FlattenSteps
    <2>1. /\ FlattenSeq(ss) = f[n]
          /\ f[1] = ss[1]
          /\ \A i \in 2..n : f[i] = f[i - 1] \o ss[i]
      BY <2>0 DEF PrefixesOf
    <2> DEFINE P(i) == g[i + 1] = s \o f[i]
               T == {i \in 0..n : i # 0 => P(i)}
    <2>2. 0 \in T
      OBVIOUS
    <2>3. ASSUME NEW i \in 0..(n - 1), i \in T
          PROVE  i + 1 \in T
      <3>1. /\ i + 1 \in 1..n /\ (i + 1) - 1 = i /\ (i + 1) + 1 \in 2..(n + 1)
            /\ ((i + 1) + 1) - 1 = i + 1
        OBVIOUS
      <3>2. tt[(i + 1) + 1] = ss[i + 1] /\ ss[i + 1] \in Seq(S)
        BY <1>2, <3>1
      <3>3. g[(i + 1) + 1] = g[i + 1] \o ss[i + 1]
        BY <1>3a, <3>1, <3>2
      <3>4. CASE i = 0
        <4>0. i + 1 = 1 /\ (i + 1) + 1 = 2
          BY <3>4
        <4>1. g[2] = g[1] \o ss[1] /\ g[1] = s /\ f[1] = ss[1]
          BY <1>2, <1>3a, <2>1, <3>3, <4>0, Zenon
        <4>2. P(1) /\ i + 1 = 1
          BY <3>4, <4>1
        <4> HIDE DEF P
        <4>3. QED
          BY <3>1, <4>2
      <3>5. CASE i # 0
        <4>1. g[i + 1] = s \o f[i] /\ i \in 1..n /\ i + 1 \in 2..n
          BY <2>3, <3>1, <3>5
        <4>2. f[i + 1] = f[i] \o ss[i + 1] /\ f[i] \in Seq(S)
          BY <2>1, <3>1, <4>1
        <4>3. (s \o f[i]) \o ss[i + 1] = s \o (f[i] \o ss[i + 1])
          <5>1. f[i] \in Seq(S) /\ ss[i + 1] \in Seq(S)
            BY <3>2, <4>2
          <5>2. QED
            BY <1>0, <5>1
        <4>4. g[(i + 1) + 1] = s \o f[i + 1]
          BY <3>3, <4>1, <4>2, <4>3
        <4>5. P(i + 1) /\ i + 1 \in 0..n
          BY <3>1, <4>4
        <4> HIDE DEF P
        <4>6. QED
          BY <4>5
      <3>6. QED
        BY <3>4, <3>5
    <2>4. 0..n \subseteq T
      <3> HIDE DEF T
      <3>1. QED
        BY <2>2, <2>3, Induction
    <2>5. n \in T
      BY <2>4
    <2>6. QED
      BY <1>3a, <1>5, <2>1, <2>5 DEF tt
  <1>6. QED
    BY <1>4, <1>5

-----------------------------------------------------------------------------
(* What the items of a program say. *)

\* The items that say something themselves.
PlainItem == {x \in ProgramItem : x.kind \in {"op", "term", "use_module"}}

\* The leading operators of an export list, from its front.
LEMMA LeadingOpsEnd ==
  ASSUME NEW e \in Seq(Export), e = << >> \/ e[1].kind # "op"
  PROVE  LeadingOps(e) = << >>
  <1> DEFINE heads == {n \in 0..Len(e) : \A i \in 1..n : e[i].kind = "op"}
  <1>1. Len(e) \in Nat
    OBVIOUS
  <1>2. heads \subseteq 0..Len(e) /\ 0 \in heads
    BY <1>1
  <1>3. \A n \in heads : n = 0
    BY <1>1
  <1>4. Max(heads) = 0
    <2> HIDE DEF heads
    <2>1. QED
      BY <1>1, <1>2, <1>3, Largest
  <1>5. LeadingOps(e) = SubSeq(e, 1, 0)
    BY <1>4 DEF LeadingOps
  <1>6. QED
    BY <1>5

\* An operator at the head of an export list leads.
LEMMA LeadingOpsFirst ==
  ASSUME NEW e \in Seq(Export), e # << >>, e[1].kind = "op"
  PROVE  LeadingOps(e) = <<e[1]>> \o LeadingOps(Tail(e))
  <1> DEFINE t == Tail(e)
             heads == {n \in 0..Len(e) : \A i \in 1..n : e[i].kind = "op"}
             later == {n \in 0..Len(t) : \A i \in 1..n : t[i].kind = "op"}
  <1>1. PICK m \in Nat : Len(e) = m + 1
    <2>1. Len(e) \in Nat \ {0}
      OBVIOUS
    <2>2. Len(e) - 1 \in Nat /\ Len(e) = (Len(e) - 1) + 1
      BY <2>1
    <2>3. QED
      BY <2>2
  <1>2. t \in Seq(Export) /\ Len(t) = m /\ \A i \in 1..m : t[i] = e[i + 1]
    BY <1>1
  <1> HIDE DEF t
  <1>3. Max(later) \in later /\ \A k \in later : k <= Max(later)
    <2>1. later \subseteq 0..m /\ 0 \in later
      BY <1>2
    <2> HIDE DEF later
    <2>2. QED
      BY <2>1, Largest
  <1>4. Max(heads) \in heads /\ \A k \in heads : k <= Max(heads)
    <2>1. heads \subseteq 0..(m + 1) /\ 0 \in heads /\ m + 1 \in Nat
      BY <1>1
    <2> HIDE DEF heads
    <2>2. QED
      BY <2>1, Largest
  <1>5. \A n \in 0..m : n + 1 \in heads <=> n \in later
    <2> SUFFICES ASSUME NEW n \in 0..m
                 PROVE  n + 1 \in heads <=> n \in later
      OBVIOUS
    <2>1. (\A i \in 1..(n + 1) : e[i].kind = "op") <=> (\A i \in 1..n : t[i].kind = "op")
      <3>1. ASSUME \A i \in 1..(n + 1) : e[i].kind = "op", NEW i \in 1..n
            PROVE  t[i].kind = "op"
        BY <1>2, <3>1
      <3>2. ASSUME \A i \in 1..n : t[i].kind = "op", NEW i \in 1..(n + 1)
            PROVE  e[i].kind = "op"
        <4>1. CASE i = 1
          BY <4>1
        <4>2. CASE i # 1
          <5>1. i - 1 \in 1..n /\ i - 1 \in 1..m /\ (i - 1) + 1 = i
            BY <4>2
          <5>2. t[i - 1] = e[i]
            BY <1>2, <5>1
          <5>3. QED
            BY <3>2, <5>1, <5>2
        <4>3. QED
          BY <4>1, <4>2
      <3>3. QED
        BY <3>1, <3>2
    <2>2. QED
      BY <1>1, <1>2, <2>1
  <1>6. Max(heads) = Max(later) + 1
    <2>1. heads \subseteq 0..(m + 1) /\ later \subseteq 0..m
      BY <1>1, <1>2
    <2> HIDE DEF heads, later
    <2>2. Max(later) \in 0..m /\ Max(later) + 1 \in heads
      BY <1>3, <1>5, <2>1
    <2>3. Max(heads) \in 0..(m + 1) /\ Max(heads) >= Max(later) + 1
      BY <1>4, <2>1, <2>2
    <2>4. Max(heads) - 1 \in 0..m /\ (Max(heads) - 1) + 1 = Max(heads)
      BY <2>2, <2>3
    <2>5. Max(heads) - 1 \in later
      BY <1>4, <1>5, <2>4
    <2>6. Max(heads) - 1 <= Max(later)
      BY <1>3, <2>5
    <2>7. QED
      BY <2>2, <2>3, <2>6
  <1>7. PICK k \in 0..m : Max(later) = k
    BY <1>2, <1>3
  <1>8. LeadingOps(e) = SubSeq(e, 1, k + 1) /\ LeadingOps(t) = SubSeq(t, 1, k)
    BY <1>6, <1>7 DEF LeadingOps
  <1>9. SubSeq(e, 1, k + 1) = <<e[1]>> \o SubSeq(t, 1, k)
    <2>1. \A i \in 1..(k + 1) : SubSeq(e, 1, k + 1)[i] = e[i]
      BY <1>1
    <2>2. \A i \in 1..k : SubSeq(t, 1, k)[i] = t[i]
      BY <1>2
    <2>3. /\ SubSeq(e, 1, k + 1) \in Seq(Export) /\ Len(SubSeq(e, 1, k + 1)) = k + 1
          /\ SubSeq(t, 1, k) \in Seq(Export) /\ Len(SubSeq(t, 1, k)) = k
          /\ e[1] \in Export
      BY <1>1, <1>2
    <2> DEFINE a == SubSeq(e, 1, k + 1)
               b == SubSeq(t, 1, k)
    <2> HIDE DEF a, b
    <2>4. /\ a \in Seq(Export) /\ Len(a) = k + 1 /\ b \in Seq(Export) /\ Len(b) = k
          /\ a[1] = e[1] /\ \A i \in 1..k : a[i + 1] = b[i]
      <3>1. \A i \in 1..k : a[i + 1] = b[i]
        <4> TAKE i \in 1..k
        <4>1. i + 1 \in 1..(k + 1) /\ i \in 1..m
          OBVIOUS
        <4>2. a[i + 1] = e[i + 1] /\ b[i] = t[i] /\ t[i] = e[i + 1]
          BY <1>2, <2>1, <2>2, <4>1 DEF a, b
        <4>3. QED
          BY <4>2
      <3>2. a[1] = e[1]
        BY <2>1 DEF a
      <3>3. QED
        BY <2>3, <3>1, <3>2 DEF a, b
    <2>5. a = <<e[1]>> \o b
      <3> DEFINE c == <<e[1]>> \o b
      <3>1. c \in Seq(Export) /\ Len(c) = k + 1 /\ c[1] = e[1] /\ \A i \in 1..k : c[i + 1] = b[i]
        BY <2>3, <2>4
      <3> HIDE DEF c
      <3>2. \A i \in 1..(k + 1) : a[i] = c[i]
        <4> TAKE i \in 1..(k + 1)
        <4>1. CASE i = 1
          BY <2>4, <3>1, <4>1
        <4>2. CASE i # 1
          <5>1. i - 1 \in 1..k /\ (i - 1) + 1 = i
            BY <4>2
          <5>2. QED
            BY <2>4, <3>1, <5>1
        <4>3. QED
          BY <4>1, <4>2
      <3>3. a = c
        BY <2>4, <3>1, <3>2
      <3>4. QED
        BY <3>3 DEF c
    <2>6. QED
      BY <2>5 DEF a, b
  <1>10. QED
    BY <1>8, <1>9 DEF t

\* The leading operators are operators.
LEMMA LeadingOpsAreOps ==
  ASSUME NEW e \in Seq(Export)
  PROVE  LeadingOps(e) \in Seq(OpItem)
  <1> DEFINE heads == {n \in 0..Len(e) : \A i \in 1..n : e[i].kind = "op"}
  <1>1. PICK m \in Nat : Len(e) = m
    OBVIOUS
  <1>2. Max(heads) \in heads
    <2>1. heads \subseteq 0..m /\ 0 \in heads
      BY <1>1
    <2> HIDE DEF heads
    <2>2. QED
      BY <2>1, Largest
  <1>3. PICK k \in 0..m : Max(heads) = k /\ \A i \in 1..k : e[i].kind = "op"
    BY <1>1, <1>2
  <1>4. LeadingOps(e) = SubSeq(e, 1, k)
    BY <1>3 DEF LeadingOps
  <1>5. ASSUME NEW i \in 1..k
        PROVE  e[i] \in OpItem
    <2>1. e[i] \in Export /\ e[i].kind = "op"
      BY <1>1, <1>3
    <2>2. \A x \in Export : x.kind = "op" => x \in OpItem
      BY DEF Export
    <2>3. QED
      BY <2>1, <2>2
  <1>6. /\ SubSeq(e, 1, k) \in Seq(Export) /\ Len(SubSeq(e, 1, k)) = k
        /\ \A i \in 1..k : SubSeq(e, 1, k)[i] = e[i]
    BY <1>1
  <1> DEFINE s == SubSeq(e, 1, k)
  <1> HIDE DEF s
  <1>7. s \in Seq(Export) /\ Len(s) = k /\ \A i \in 1..k : s[i] \in OpItem
    BY <1>5, <1>6 DEF s
  <1>8. s \in Seq(OpItem)
    BY <1>7
  <1>9. QED
    BY <1>4, <1>8 DEF s

\* What leads an export list is plain.
LEMMA LeadingOpsTyped ==
  ASSUME NEW e \in Seq(Export)
  PROVE  LeadingOps(e) \in Seq(PlainItem)
  <1>1. OpItem \subseteq PlainItem
    BY DEF PlainItem, ProgramItem, OpItem
  <1> DEFINE q == LeadingOps(e)
  <1>2. q \in Seq(OpItem)
    BY LeadingOpsAreOps
  <1> HIDE DEF q
  <1>3. q \in Seq(PlainItem)
    BY <1>1, <1>2
  <1>4. QED
    BY <1>3 DEF q

\* What an item says is said by plain items.
LEMMA SaysTyped ==
  ASSUME NEW x \in ProgramItem
  PROVE  Says(x) \in Seq(PlainItem)
  <1>1. CASE x.kind \in {"module", "exports"}
    BY <1>1, ItemFields, LeadingOpsTyped DEF Says
  <1>2. CASE x.kind \notin {"module", "exports"}
    <2>1. x \in PlainItem
      BY <1>2 DEF PlainItem, ProgramItem, OpItem
    <2>2. <<x>> \in Seq(PlainItem)
      BY <2>1
    <2>3. QED
      BY <1>2, <2>2 DEF Says
  <1>3. QED
    BY <1>1, <1>2

\* The items of a program, from its front.
LEMMA ItemsNone == Items(<< >>) = << >>
  <1>1. DOMAIN << >> = {}
    OBVIOUS
  <1>2. [i \in DOMAIN << >> |-> Says(<< >>[i])] = << >>
    BY <1>1
  <1>3. FlattenSeq(<< >>) = << >>
    BY DEF FlattenSeq
  <1>4. QED
    BY <1>2, <1>3 DEF Items

\* The first item of a program says its part first.
LEMMA ItemsFirst ==
  ASSUME NEW x \in ProgramItem, NEW r \in Seq(ProgramItem)
  PROVE  Items(<<x>> \o r) = Says(x) \o Items(r)
  <1> DEFINE p == <<x>> \o r
             ss == [i \in DOMAIN r |-> Says(r[i])]
             tt == [i \in DOMAIN p |-> Says(p[i])]
  <1>1. PICK n \in Nat : Len(r) = n
    OBVIOUS
  <1>2. DOMAIN r = 1..n /\ DOMAIN p = 1..(n + 1) /\ p[1] = x /\ \A i \in 1..n : p[i + 1] = r[i]
    BY <1>1
  <1>3. \A i \in 1..n : r[i] \in ProgramItem
    BY <1>1
  <1>4. ss \in Seq(Seq(PlainItem)) /\ Len(ss) = n /\ \A i \in 1..n : ss[i] = Says(r[i])
    <2>1. \A i \in 1..n : Says(r[i]) \in Seq(PlainItem)
      BY <1>3, SaysTyped
    <2>2. ss = [i \in 1..n |-> Says(r[i])]
      BY <1>2
    <2> HIDE DEF ss
    <2>3. ss \in [1..n -> Seq(PlainItem)]
      BY <2>1, <2>2
    <2> DEFINE T == Seq(PlainItem)
    <2>4. ss \in [1..n -> T]
      BY <2>3
    <2> HIDE DEF T
    <2>5. ss \in Seq(T) /\ Len(ss) = n
      BY <2>4
    <2>6. QED
      BY <2>2, <2>5 DEF T
  <1>5. tt = <<Says(x)>> \o ss
    <2>1. tt = [i \in 1..(n + 1) |-> Says(p[i])]
      BY <1>2
    <2> DEFINE uu == <<Says(x)>> \o ss
    <2> HIDE DEF p, ss, tt
    <2>2. Says(x) \in Seq(PlainItem)
      BY SaysTyped
    <2> DEFINE T == Seq(PlainItem)
               a == Says(x)
    <2>3. a \in T /\ ss \in Seq(T)
      BY <1>4, <2>2
    <2> HIDE DEF T, a
    <2>4. uu \in Seq(T) /\ Len(uu) = n + 1 /\ uu[1] = a /\ \A i \in 1..n : uu[i + 1] = ss[i]
      BY <1>4, <2>3 DEF a
    <2> HIDE DEF uu
    <2>5. \A i \in 1..(n + 1) : Says(p[i]) = uu[i]
      <3> TAKE i \in 1..(n + 1)
      <3>1. CASE i = 1
        BY <1>2, <2>4, <3>1 DEF a
      <3>2. CASE i # 1
        <4>1. i - 1 \in 1..n /\ (i - 1) + 1 = i
          BY <3>2
        <4>2. p[i] = r[i - 1] /\ uu[i] = ss[i - 1]
          BY <1>2, <2>4, <4>1
        <4>3. QED
          BY <1>4, <4>1, <4>2
      <3>3. QED
        BY <3>1, <3>2
    <2>6. uu = [i \in 1..(n + 1) |-> uu[i]]
      BY <2>4
    <2>7. tt = uu
      BY <2>1, <2>5, <2>6
    <2>8. QED
      BY <2>7 DEF uu
  <1>6. FlattenSeq(<<Says(x)>> \o ss) = Says(x) \o FlattenSeq(ss)
    <2> HIDE DEF ss
    <2>1. QED
      BY <1>4, SaysTyped, FlattenFirst
  <1>7. Items(p) = FlattenSeq(tt) /\ Items(r) = FlattenSeq(ss)
    BY DEF Items
  <1>8. QED
    BY <1>5, <1>6, <1>7

\* The same of a program that has an item.
LEMMA ItemsRest ==
  ASSUME NEW p \in Seq(ProgramItem), p # << >>
  PROVE  Items(p) = Says(p[1]) \o Items(Tail(p))
  <1>1. p[1] \in ProgramItem /\ Tail(p) \in Seq(ProgramItem) /\ p = <<p[1]>> \o Tail(p)
    OBVIOUS
  <1>2. Items(<<p[1]>> \o Tail(p)) = Says(p[1]) \o Items(Tail(p))
    <2> DEFINE x == p[1]
               r == Tail(p)
    <2>1. x \in ProgramItem /\ r \in Seq(ProgramItem)
      BY <1>1
    <2> HIDE DEF x, r
    <2>2. Items(<<x>> \o r) = Says(x) \o Items(r)
      BY <2>1, ItemsFirst
    <2>3. QED
      BY <2>2 DEF x, r
  <1>3. QED
    BY <1>1, <1>2

\* They are what the single items say.
LEMMA ItemsWithin ==
  ASSUME NEW S, NEW p \in Seq(ProgramItem), \A i \in 1..Len(p) : Says(p[i]) \in Seq(S)
  PROVE  Items(p) \in Seq(S)
  <1> DEFINE ss == [i \in DOMAIN p |-> Says(p[i])]
  <1>1. PICK n \in Nat : Len(p) = n /\ DOMAIN p = 1..n
    OBVIOUS
  <1>2. \A i \in 1..n : Says(p[i]) \in Seq(S)
    BY <1>1
  <1>3. ss = [i \in 1..n |-> Says(p[i])]
    BY <1>1
  <1> HIDE DEF ss
  <1>4. ss \in [1..n -> Seq(S)]
    BY <1>2, <1>3
  <1>5. Len(ss) = n /\ \A i \in 1..n : ss[i] \in Seq(S)
    <2> DEFINE T == Seq(S)
    <2>1. ss \in [1..n -> T]
      BY <1>4
    <2> HIDE DEF T
    <2>2. Len(ss) = n /\ \A i \in 1..n : ss[i] \in T
      BY <2>1
    <2>3. QED
      BY <2>2 DEF T
  <1>6. Items(p) = FlattenSeq(ss)
    BY DEF Items, ss
  <1>7. CASE n = 0
    <2>1. p = << >>
      BY <1>1, <1>7
    <2>2. << >> \in Seq(S)
      OBVIOUS
    <2>3. QED
      BY <2>1, <2>2, ItemsNone
  <1>8. CASE n # 0
    <2>1. PICK f \in [1..n -> Seq(S)] : PrefixesOf(ss, n, f)
      BY <1>5, <1>8, FlattenSteps
    <2>2. FlattenSeq(ss) = f[n] /\ n \in 1..n
      BY <1>8, <2>1 DEF PrefixesOf
    <2>3. QED
      BY <1>6, <2>1, <2>2
  <1>9. QED
    BY <1>7, <1>8

\* They are plain.
LEMMA ItemsTyped ==
  ASSUME NEW p \in Seq(ProgramItem)
  PROVE  Items(p) \in Seq(PlainItem)
  <1>1. \A i \in 1..Len(p) : Says(p[i]) \in Seq(PlainItem)
    <2>1. \A i \in 1..Len(p) : p[i] \in ProgramItem
      OBVIOUS
    <2>2. QED
      BY <2>1, SaysTyped
  <1>2. QED
    BY <1>1, ItemsWithin

\* The use_module among them stand in the program.
LEMMA ItemsImport ==
  ASSUME NEW p \in Seq(ProgramItem), NEW i \in DOMAIN Items(p), Items(p)[i].kind = "use_module"
  PROVE  Items(p)[i] \in ProgramItem /\ \E j \in DOMAIN p : p[j] = Items(p)[i]
  <1> DEFINE S == {x \in PlainItem : x.kind = "use_module" => \E j \in DOMAIN p : p[j] = x}
  <1>1. PICK n \in Nat : Len(p) = n /\ DOMAIN p = 1..n /\ \A j \in 1..n : p[j] \in ProgramItem
    OBVIOUS
  <1>2. ASSUME NEW j \in 1..n
        PROVE  Says(p[j]) \in Seq(S)
    <2>1. p[j] \in ProgramItem
      BY <1>1
    <2>2. CASE p[j].kind \in {"module", "exports"}
      <3>1. p[j].exports \in Seq(Export)
        BY <2>1, <2>2, ItemFields
      <3> DEFINE e == p[j].exports
      <3> HIDE DEF e
      <3>2. LeadingOps(e) \in Seq(OpItem)
        BY <3>1, LeadingOpsAreOps DEF e
      <3>3. OpItem \subseteq S
        BY DEF PlainItem, ProgramItem, OpItem
      <3> HIDE DEF S
      <3> DEFINE q == LeadingOps(e)
      <3>4. Says(p[j]) = q
        BY <2>2 DEF Says, e
      <3> HIDE DEF q
      <3>5. q \in Seq(S)
        <4>1. q \in Seq(OpItem)
          BY <3>2 DEF q
        <4>2. QED
          BY <3>3, <4>1
      <3>6. QED
        BY <3>4, <3>5
    <2>3. CASE p[j].kind \notin {"module", "exports"}
      <3>1. p[j] \in PlainItem
        BY <2>1, <2>3 DEF PlainItem, ProgramItem, OpItem
      <3>2. p[j] \in S
        BY <1>1, <3>1
      <3> HIDE DEF S
      <3>3. <<p[j]>> \in Seq(S)
        BY <3>2
      <3>4. QED
        BY <2>3, <3>3 DEF Says
    <2>4. QED
      BY <2>2, <2>3
  <1> HIDE DEF S
  <1>3. Items(p) \in Seq(S)
    BY <1>1, <1>2, ItemsWithin
  <1>4. Items(p)[i] \in S
    BY <1>3
  <1>5. QED
    BY <1>4 DEF S, PlainItem

-----------------------------------------------------------------------------
(* What items make of a table. *)

\* What one item makes of it.
AfterOne(table, item, imported) ==
  [key \in Key |-> IF SaysAnything(item, key, imported) THEN PrecedenceOf(item, key, imported)
                   ELSE table[key]]

\* No item changes nothing.
LEMMA AfterNone ==
  ASSUME NEW t \in Table, NEW imported
  PROVE  After(t, << >>, imported) = t
  <1>1. DOMAIN << >> = {}
    OBVIOUS
  <1>2. After(t, << >>, imported) = [key \in Key |-> t[key]]
    BY <1>1 DEF After
  <1>3. QED
    BY <1>2 DEF Table

\* Items take effect one by one, from the first.
LEMMA AfterFirst ==
  ASSUME NEW t, NEW imported, NEW x \in PlainItem, NEW s \in Seq(PlainItem)
  PROVE  After(t, <<x>> \o s, imported) = After(AfterOne(t, x, imported), s, imported)
  <1> DEFINE a == <<x>> \o s
             one == AfterOne(t, x, imported)
             Of(i, key) == SaysAnything(s[i], key, imported)
             those(key) == {i \in DOMAIN s : SaysAnything(s[i], key, imported)}
             allOf(key) == {i \in DOMAIN a : SaysAnything(a[i], key, imported)}
             value(key) == IF those(key) = {} THEN one[key]
                           ELSE PrecedenceOf(s[Max(those(key))], key, imported)
             allValue(key) == IF allOf(key) = {} THEN t[key]
                              ELSE PrecedenceOf(a[Max(allOf(key))], key, imported)
  <1>1. PICK n \in Nat : Len(s) = n
    OBVIOUS
  <1>2. /\ DOMAIN s = 1..n /\ DOMAIN a = 1..(n + 1) /\ a[1] = x
        /\ \A i \in 1..n : a[i + 1] = s[i]
    BY <1>1
  <1> HIDE DEF a
  <1>3. ASSUME NEW key \in Key
        PROVE  allValue(key) = value(key)
    <2>1. \A i \in 1..n : i + 1 \in allOf(key) <=> i \in those(key)
      <3> TAKE i \in 1..n
      <3>1. i + 1 \in 1..(n + 1)
        OBVIOUS
      <3>2. QED
        BY <1>2, <3>1
    <2>2. 1 \in allOf(key) <=> SaysAnything(x, key, imported)
      BY <1>2
    <2>3. those(key) \subseteq 1..n /\ allOf(key) \subseteq 1..(n + 1)
      BY <1>2
    <2>4. one[key] = IF SaysAnything(x, key, imported) THEN PrecedenceOf(x, key, imported) ELSE t[key]
      BY DEF AfterOne
    <2> DEFINE B == those(key)
               A == allOf(key)
    <2> HIDE DEF A, B, one
    <2>5. /\ B \subseteq 1..n /\ A \subseteq 1..(n + 1)
          /\ \A i \in 1..n : i + 1 \in A <=> i \in B
      BY <2>1, <2>3 DEF A, B
    <2>6. CASE B # {}
      <3>1. Max(B) \in B /\ \A k \in B : k <= Max(B)
        <4>1. B \subseteq 0..n
          BY <2>5
        <4>2. QED
          BY <2>6, <4>1, Largest
      <3>2. Max(B) \in 1..n /\ Max(B) + 1 \in A
        BY <2>5, <3>1
      <3>3. Max(A) \in A /\ \A k \in A : k <= Max(A)
        <4>1. A \subseteq 0..(n + 1) /\ n + 1 \in Nat
          BY <2>5
        <4>2. QED
          BY <3>2, <4>1, Largest
      <3>4. Max(A) \in 1..(n + 1) /\ Max(A) >= Max(B) + 1
        BY <2>5, <3>2, <3>3
      <3>5. Max(A) - 1 \in 1..n /\ (Max(A) - 1) + 1 = Max(A)
        BY <3>2, <3>4
      <3>6. Max(A) - 1 <= Max(B)
        BY <2>5, <3>1, <3>3, <3>5
      <3>7. Max(A) = Max(B) + 1
        BY <3>2, <3>4, <3>6
      <3>8. a[Max(A)] = s[Max(B)]
        BY <1>2, <3>2, <3>7
      <3>9. A # {}
        BY <3>2
      <3>10. QED
        BY <2>6, <3>8, <3>9 DEF A, B
    <2>7. CASE B = {}
      <3>1. ASSUME NEW i \in A
            PROVE  i = 1
        <4>1. i \in 1..(n + 1)
          BY <2>5
        <4>2. CASE i # 1
          <5>1. i - 1 \in 1..n /\ (i - 1) + 1 = i
            BY <4>1, <4>2
          <5>2. i - 1 \in B
            BY <2>5, <5>1
          <5>3. QED
            BY <2>7, <5>2
        <4>3. QED
          BY <4>2
      <3>2. CASE SaysAnything(x, key, imported)
        <4>1. 1 \in A
          BY <2>2, <3>2 DEF A
        <4>2. A \subseteq 0..(n + 1) /\ n + 1 \in Nat
          BY <2>5
        <4>3. Max(A) \in A
          BY <4>1, <4>2, Largest
        <4>4. Max(A) = 1
          BY <3>1, <4>3
        <4>5. a[Max(A)] = x /\ A # {}
          BY <1>2, <4>1, <4>4
        <4>6. QED
          BY <2>4, <2>7, <3>2, <4>5 DEF A, B
      <3>3. CASE ~SaysAnything(x, key, imported)
        <4>1. A = {}
          BY <2>2, <3>1, <3>3 DEF A
        <4>2. QED
          BY <2>4, <2>7, <3>3, <4>1 DEF A, B
      <3>4. QED
        BY <3>2, <3>3
    <2>8. QED
      BY <2>6, <2>7
  <1>4. After(t, a, imported) = [key \in Key |-> allValue(key)]
    BY DEF After
  <1>5. After(one, s, imported) = [key \in Key |-> value(key)]
    BY DEF After
  <1> HIDE DEF allValue, value, one
  <1>6. After(t, a, imported) = After(one, s, imported)
    BY <1>3, <1>4, <1>5
  <1>7. QED
    BY <1>6 DEF a, one

\* It stays a table when the imported ones are.
LEMMA AfterTyped ==
  ASSUME NEW t \in Table, NEW imported \in [Uri -> Table], NEW s \in Seq(PlainItem)
  PROVE  After(t, s, imported) \in Table
  <1>1. ASSUME NEW x \in PlainItem, NEW key \in Key, SaysAnything(x, key, imported)
        PROVE  PrecedenceOf(x, key, imported) \in 0..MaxPrecedence
    <2>1. CASE x.kind = "op"
      <3>1. DefinesOperator(x)
        BY <1>1, <2>1 DEF SaysAnything
      <3>2. QED
        BY <2>1, <3>1 DEF DefinesOperator, PrecedenceOf
    <2>2. CASE x.kind # "op"
      <3>1. x.kind = "use_module"
        BY <1>1, <2>2 DEF SaysAnything, DefinesOperator
      <3>2. x.file \in Uri
        BY <3>1, ItemFields DEF PlainItem
      <3>3. imported[x.file][key] \in 0..MaxPrecedence
        BY <3>2 DEF Table
      <3>4. QED
        BY <2>2, <3>3 DEF PrecedenceOf
    <2>3. QED
      BY <2>1, <2>2
  <1>2. PICK n \in Nat : Len(s) = n /\ DOMAIN s = 1..n
    OBVIOUS
  <1>3. ASSUME NEW key \in Key
        PROVE  After(t, s, imported)[key] \in 0..MaxPrecedence
    <2> DEFINE those == {i \in DOMAIN s : SaysAnything(s[i], key, imported)}
    <2>1. After(t, s, imported)[key] = IF those = {} THEN t[key]
                                       ELSE PrecedenceOf(s[Max(those)], key, imported)
      BY DEF After
    <2>2. CASE those = {}
      BY <2>1, <2>2 DEF Table
    <2>3. CASE those # {}
      <3>1. those \subseteq 0..n
        BY <1>2
      <3>2. Max(those) \in those
        <4> HIDE DEF those
        <4>1. QED
          BY <2>3, <3>1, Largest
      <3>3. s[Max(those)] \in PlainItem /\ SaysAnything(s[Max(those)], key, imported)
        BY <3>2
      <3> HIDE DEF those
      <3>4. PrecedenceOf(s[Max(those)], key, imported) \in 0..MaxPrecedence
        BY <1>1, <3>3
      <3>5. QED
        BY <2>1, <2>3, <3>4
    <2>4. QED
      BY <2>2, <2>3
  <1>4. After(t, s, imported) = [key \in Key |-> After(t, s, imported)[key]]
    BY DEF After
  <1>5. QED
    BY <1>3, <1>4 DEF Table

\* Only the tables of the files that are imported matter.
LEMMA AfterSame ==
  ASSUME NEW t, NEW f, NEW g, NEW s \in Seq(PlainItem),
         \A i \in DOMAIN s : s[i].kind = "use_module" => f[s[i].file] = g[s[i].file]
  PROVE  After(t, s, f) = After(t, s, g)
  <1>1. ASSUME NEW i \in DOMAIN s, NEW key \in Key
        PROVE  /\ SaysAnything(s[i], key, f) <=> SaysAnything(s[i], key, g)
               /\ SaysAnything(s[i], key, f) => PrecedenceOf(s[i], key, f) = PrecedenceOf(s[i], key, g)
    <2>1. CASE s[i].kind = "use_module"
      BY <2>1 DEF SaysAnything, PrecedenceOf
    <2>2. CASE s[i].kind # "use_module"
      BY <2>2 DEF SaysAnything, PrecedenceOf, DefinesOperator
    <2>3. QED
      BY <2>1, <2>2
  <1> DEFINE F(key) == {i \in DOMAIN s : SaysAnything(s[i], key, f)}
             G(key) == {i \in DOMAIN s : SaysAnything(s[i], key, g)}
             A(key) == IF F(key) = {} THEN t[key] ELSE PrecedenceOf(s[Max(F(key))], key, f)
             B(key) == IF G(key) = {} THEN t[key] ELSE PrecedenceOf(s[Max(G(key))], key, g)
  <1>2. PICK n \in Nat : Len(s) = n /\ DOMAIN s = 1..n
    OBVIOUS
  <1>3. ASSUME NEW key \in Key
        PROVE  A(key) = B(key)
    <2>1. F(key) = G(key)
      BY <1>1
    <2>2. CASE F(key) = {}
      BY <2>1, <2>2
    <2>3. CASE F(key) # {}
      <3>1. F(key) \subseteq 0..n
        BY <1>2
      <3>2. Max(F(key)) \in F(key)
        <4> HIDE DEF F
        <4>1. QED
          BY <2>3, <3>1, Largest
      <3>3. /\ Max(F(key)) \in DOMAIN s
            /\ SaysAnything(s[Max(F(key))], key, f)
        BY <3>2
      <3> HIDE DEF F, G
      <3>4. PrecedenceOf(s[Max(F(key))], key, f) = PrecedenceOf(s[Max(F(key))], key, g)
        BY <1>1, <3>3
      <3>5. QED
        BY <2>1, <2>3, <3>4
    <2>4. QED
      BY <2>2, <2>3
  <1>4. After(t, s, f) = [key \in Key |-> A(key)] /\ After(t, s, g) = [key \in Key |-> B(key)]
    BY DEF After
  <1> HIDE DEF A, B
  <1>5. QED
    BY <1>3, <1>4

-----------------------------------------------------------------------------
(* What a file reaches. *)

Contents == [Uri -> Programs \cup {Unreadable}]

\* A file imports files.
LEMMA ImportsTyped ==
  ASSUME NEW d \in Contents, NEW u \in Uri
  PROVE  Imports(d, u) \subseteq Uri
  <1>1. CASE d[u] = Unreadable
    BY <1>1 DEF Imports
  <1>2. CASE d[u] # Unreadable
    <2>1. d[u] \in Seq(ProgramItem)
      BY <1>2, ProgramsAreItems DEF Contents
    <2>2. \A i \in DOMAIN d[u] : d[u][i] \in ProgramItem
      BY <2>1
    <2>3. \A i \in DOMAIN d[u] : d[u][i].kind = "use_module" => d[u][i].file \in Uri
      BY <2>2, ItemFields
    <2>4. QED
      BY <1>2, <2>3 DEF Imports
  <1>3. QED
    BY <1>1, <1>2

\* A file reaches files.
LEMMA ReachedTyped ==
  ASSUME NEW d, NEW u
  PROVE  Reached(d, u) \subseteq Uri
  BY DEF Reached

\* Every set closed under imports that holds those of u holds what u reaches.
LEMMA ReachedLeast ==
  ASSUME NEW d, NEW u, NEW S \in SUBSET Uri, Imports(d, u) \subseteq S, HasItsImports(d, S)
  PROVE  Reached(d, u) \subseteq S
  BY DEF Reached

\* What a file reaches holds its imports and theirs.
LEMMA ReachedImports ==
  ASSUME NEW d \in Contents, NEW u \in Uri
  PROVE  Imports(d, u) \subseteq Reached(d, u) /\ HasItsImports(d, Reached(d, u))
  <1>1. Imports(d, u) \subseteq Reached(d, u)
    BY ImportsTyped DEF Reached
  <1>2. ASSUME NEW w \in Reached(d, u), NEW x \in Imports(d, w)
        PROVE  x \in Reached(d, u)
    <2>1. w \in Uri /\ x \in Uri
      BY <1>2, ReachedTyped, ImportsTyped
    <2>2. ASSUME NEW S \in SUBSET Uri, Imports(d, u) \subseteq S, HasItsImports(d, S)
          PROVE  x \in S
      <3>1. w \in S
        BY <1>2, <2>2 DEF Reached
      <3>2. QED
        BY <1>2, <2>2, <3>1 DEF HasItsImports
    <2>3. QED
      BY <2>1, <2>2 DEF Reached
  <1>3. QED
    BY <1>1, <1>2 DEF HasItsImports

\* What is reached from an import is reached.
LEMMA ReachedFurther ==
  ASSUME NEW d \in Contents, NEW u \in Uri, NEW w \in Reached(d, u)
  PROVE  w \in Uri /\ Reached(d, w) \subseteq Reached(d, u)
  <1>1. w \in Uri /\ Reached(d, u) \in SUBSET Uri
    BY ReachedTyped
  <1>2. HasItsImports(d, Reached(d, u)) /\ Imports(d, w) \subseteq Reached(d, u)
    BY ReachedImports DEF HasItsImports
  <1>3. QED
    BY <1>1, <1>2, ReachedLeast

\* The imports of a file that reaches no cycle reach none, and less.
LEMMA AcyclicImports ==
  ASSUME NEW d \in Contents, NEW u \in Uri, Acyclic(d, u), NEW w \in Imports(d, u)
  PROVE  /\ w \in Uri /\ w \in Reached(d, u) /\ Acyclic(d, w)
         /\ Reached(d, w) \subseteq Reached(d, u) /\ w \notin Reached(d, w)
  <1>1. w \in Uri /\ w \in Reached(d, u)
    BY ReachedImports, ImportsTyped
  <1>2. Reached(d, w) \subseteq Reached(d, u)
    BY <1>1, ReachedFurther
  <1>3. QED
    BY <1>1, <1>2 DEF Acyclic

-----------------------------------------------------------------------------
(* The tables files mean, by one step of the recursion. *)

EmptyTables == [u \in Uri |-> EmptyTable]

TablesAfter(d, tables) ==
  [u \in Uri |-> IF d[u] = Unreadable THEN EmptyTable
                 ELSE After(EmptyTable, Items(d[u]), tables)]

\* The empty table is one.
LEMMA EmptyIsTable == EmptyTable \in Table
  BY DEF EmptyTable, Table, MaxPrecedence

\* It gives every file a table.
LEMMA TablesAfterTyped ==
  ASSUME NEW d \in Contents, NEW t \in [Uri -> Table]
  PROVE  TablesAfter(d, t) \in [Uri -> Table]
  <1>1. ASSUME NEW u \in Uri, d[u] # Unreadable
        PROVE  After(EmptyTable, Items(d[u]), t) \in Table
    <2>1. d[u] \in Seq(ProgramItem)
      BY <1>1, ProgramsAreItems DEF Contents
    <2>2. Items(d[u]) \in Seq(PlainItem)
      BY <2>1, ItemsTyped
    <2>3. QED
      BY <2>2, AfterTyped, EmptyIsTable
  <1>2. QED
    BY <1>1, EmptyIsTable DEF TablesAfter

\* ReferenceTables is the last of the tables found in as many rounds as there are files.
LEMMA TablesSteps ==
  ASSUME NEW d \in Contents
  PROVE  \E f \in [0..Cardinality(Uri) -> [Uri -> Table]] :
           /\ ReferenceTables(d) = f[Cardinality(Uri)]
           /\ \A k \in 1..Cardinality(Uri) : f[k] = TablesAfter(d, f[k - 1])
  <1>1. PICK n \in Nat : Cardinality(Uri) = n
    BY FilesAreFinite, FS_CardinalityType
  <1> DEFINE X == [Uri -> Table]
             F == [k \in 1..n |-> [t \in X |-> TablesAfter(d, t)]]
             T(k, f) == [u \in Uri |-> IF k = 0 \/ d[u] = Unreadable THEN EmptyTable
                                       ELSE After(EmptyTable, Items(d[u]), f[k - 1])]
             Fits(f) == f = [k \in 0..n |-> T(k, f)]
  <1>2. EmptyTables \in X
    BY EmptyIsTable DEF EmptyTables
  <1>3. F \in [1..n -> [X -> X]] /\ \A k \in 1..n, t \in X : F[k][t] = TablesAfter(d, t)
    BY TablesAfterTyped
  <1> HIDE DEF F
  <1>4. PICK h \in [0..n -> X] : Computed(h, n, EmptyTables, F)
    <2> HIDE DEF X
    <2>1. QED
      BY <1>2, <1>3, Iterates
  <1>5. \A k, f : /\ k = 0 => T(k, f) = EmptyTables
                  /\ k # 0 => T(k, f) = TablesAfter(d, f[k - 1])
    BY DEF EmptyTables, TablesAfter
  <1> HIDE DEF T
  <1>6. ASSUME NEW k \in 0..n
        PROVE  h[k] = T(k, h)
    <2>1. CASE k = 0
      BY <1>4, <1>5, <2>1 DEF Computed
    <2>2. CASE k # 0
      <3>1. k \in 1..n /\ k - 1 \in 0..n
        BY <2>2
      <3>2. h[k] = F[k][h[k - 1]] /\ h[k - 1] \in X
        BY <1>4, <3>1 DEF Computed
      <3>3. h[k] = TablesAfter(d, h[k - 1])
        BY <1>3, <3>1, <3>2
      <3>4. QED
        BY <1>5, <2>2, <3>3
    <2>3. QED
      BY <2>1, <2>2
  <1>7. Fits(h)
    <2>1. h = [k \in 0..n |-> h[k]]
      OBVIOUS
    <2>2. QED
      BY <1>6, <2>1
  <1> DEFINE g == CHOOSE f : Fits(f)
  <1>8. Fits(g)
    BY <1>7
  <1>9. ReferenceTables(d) = g[n]
    BY <1>1 DEF ReferenceTables, T
  <1> HIDE DEF g
  <1>10. \A k \in 0..n : g[k] = T(k, g)
    BY <1>8
  <1>11. g \in [0..n -> X]
    <2> DEFINE S == {k \in 0..n : g[k] \in X}
    <2>1. 0 \in S
      BY <1>2, <1>5, <1>10
    <2>2. ASSUME NEW k \in 0..(n - 1), k \in S
          PROVE  k + 1 \in S
      <3>1. k + 1 \in 0..n /\ (k + 1) - 1 = k /\ k + 1 # 0
        OBVIOUS
      <3>2. g[k + 1] = TablesAfter(d, g[k])
        BY <1>5, <1>10, <3>1
      <3>3. g[k + 1] \in X
        BY <2>2, <3>2, TablesAfterTyped
      <3>4. QED
        BY <3>1, <3>3
    <2>3. 0..n \subseteq S
      <3> HIDE DEF S
      <3>1. QED
        BY <2>1, <2>2, Induction
    <2>4. \A k \in 0..n : g[k] \in X
      BY <2>3
    <2>5. g = [k \in 0..n |-> T(k, g)]
      BY <1>8
    <2>6. g = [k \in 0..n |-> g[k]]
      BY <1>10, <2>5
    <2> HIDE DEF X
    <2>7. QED
      BY <2>4, <2>6
  <1>12. \A k \in 1..n : g[k] = TablesAfter(d, g[k - 1])
    <2> TAKE k \in 1..n
    <2>1. k \in 0..n /\ k # 0
      OBVIOUS
    <2>2. QED
      BY <1>5, <1>10, <2>1
  <1>13. QED
    BY <1>1, <1>9, <1>11, <1>12

\* A file that reaches no cycle reaches fewer files than there are, and its imports
\* fewer than itself.
LEMMA AcyclicHeight ==
  ASSUME NEW d \in Contents, NEW u \in Uri, Acyclic(d, u)
  PROVE  /\ Cardinality(Reached(d, u)) \in Nat
         /\ Cardinality(Reached(d, u)) < Cardinality(Uri)
         /\ \A w \in Imports(d, u) : Cardinality(Reached(d, w)) < Cardinality(Reached(d, u))
  <1>1. ASSUME NEW S, IsFiniteSet(S), NEW T \in SUBSET S, NEW x \in S, x \notin T
        PROVE  Cardinality(T) \in Nat /\ Cardinality(T) < Cardinality(S)
    <2>1. IsFiniteSet(T) /\ Cardinality(T) <= Cardinality(S) /\ (Cardinality(S) = Cardinality(T) => S = T)
      BY <1>1, FS_Subset
    <2>2. Cardinality(T) \in Nat /\ Cardinality(S) \in Nat
      BY <1>1, <2>1, FS_CardinalityType
    <2>3. S # T
      BY <1>1
    <2>4. QED
      BY <2>1, <2>2, <2>3
  <1>2. Reached(d, u) \in SUBSET Uri /\ u \notin Reached(d, u)
    BY ReachedTyped DEF Acyclic
  <1>3. Cardinality(Reached(d, u)) \in Nat /\ Cardinality(Reached(d, u)) < Cardinality(Uri)
    BY <1>1, <1>2, FilesAreFinite
  <1>4. IsFiniteSet(Reached(d, u))
    BY <1>2, FilesAreFinite, FS_Subset
  <1>5. ASSUME NEW w \in Imports(d, u)
        PROVE  Cardinality(Reached(d, w)) < Cardinality(Reached(d, u))
    <2>1. w \in Reached(d, u) /\ Reached(d, w) \in SUBSET Reached(d, u) /\ w \notin Reached(d, w)
      BY AcyclicImports
    <2>2. QED
      BY <1>1, <1>4, <2>1
  <1>6. QED
    BY <1>3, <1>5

\* The items of a file that import a file import one of its imports.
LEMMA ItemsAreImports ==
  ASSUME NEW d \in Contents, NEW u \in Uri, d[u] # Unreadable,
         NEW i \in DOMAIN Items(d[u]), Items(d[u])[i].kind = "use_module"
  PROVE  Items(d[u])[i].file \in Imports(d, u)
  <1>1. d[u] \in Seq(ProgramItem)
    BY ProgramsAreItems DEF Contents
  <1>2. \E j \in DOMAIN d[u] : d[u][j] = Items(d[u])[i]
    BY <1>1, ItemsImport
  <1>3. QED
    BY <1>2 DEF Imports

\* Two meanings of all files that agree on the imports of a file agree on it.
LEMMA TablesAfterSame ==
  ASSUME NEW d \in Contents, NEW u \in Uri, NEW f, NEW g,
         \A w \in Imports(d, u) : f[w] = g[w]
  PROVE  TablesAfter(d, f)[u] = TablesAfter(d, g)[u]
  <1>1. CASE d[u] = Unreadable
    BY <1>1 DEF TablesAfter
  <1>2. CASE d[u] # Unreadable
    <2>1. Items(d[u]) \in Seq(PlainItem)
      BY <1>2, ProgramsAreItems, ItemsTyped DEF Contents
    <2>2. \A i \in DOMAIN Items(d[u]) : Items(d[u])[i].kind = "use_module" =>
            f[Items(d[u])[i].file] = g[Items(d[u])[i].file]
      BY <1>2, ItemsAreImports
    <2>3. After(EmptyTable, Items(d[u]), f) = After(EmptyTable, Items(d[u]), g)
      BY <2>1, <2>2, AfterSame
    <2>4. QED
      BY <1>2, <2>3 DEF TablesAfter
  <1>3. QED
    BY <1>1, <1>2

\* The recursion is deep enough for every file that reaches no cycle.
LEMMA TablesAreFixed ==
  ASSUME NEW d \in Contents, NEW u \in Uri, Acyclic(d, u)
  PROVE  /\ ReferenceTables(d)[u] = TablesAfter(d, ReferenceTables(d))[u]
         /\ ReferenceTables(d) \in [Uri -> Table]
  <1>1. PICK n \in Nat : Cardinality(Uri) = n
    BY FilesAreFinite, FS_CardinalityType
  <1>2. PICK f \in [0..n -> [Uri -> Table]] :
           /\ ReferenceTables(d) = f[n]
           /\ \A k \in 1..n : f[k] = TablesAfter(d, f[k - 1])
    BY <1>1, TablesSteps
  <1> DEFINE H(w) == Cardinality(Reached(d, w))
             All == {w \in Uri : Acyclic(d, w)}
             Settled(w) == \A k, l \in 1..n : H(w) < k /\ H(w) < l => f[k][w] = f[l][w]
             bad == {w \in All : ~Settled(w)}
             heights == {H(w) : w \in bad}
  <1>3. \A w \in All : H(w) \in Nat /\ H(w) < n
    BY <1>1, AcyclicHeight
  <1>3a. \A w \in All : \A x \in Imports(d, w) : x \in All /\ H(x) < H(w)
    BY AcyclicHeight, AcyclicImports
  <1> HIDE DEF H, All
  <1>4. bad = {}
    <2> SUFFICES ASSUME bad # {} PROVE FALSE
      OBVIOUS
    <2>1. heights \subseteq Nat /\ heights # {}
      BY <1>3
    <2>2. PICK m \in heights : \A k \in heights : m <= k
      <3> HIDE DEF heights
      <3>1. QED
        BY <2>1, Least
    <2>3. PICK w \in bad : m = H(w)
      BY <2>2
    <2>4. w \in All /\ ~Settled(w)
      BY <2>3
    <2>5. \A x \in Imports(d, w) : x \in All /\ Settled(x)
      <3> SUFFICES ASSUME NEW x \in Imports(d, w), ~Settled(x) PROVE FALSE
        BY <1>3a, <2>4
      <3> HIDE DEF Settled
      <3>1. x \in All /\ H(x) < H(w) /\ H(x) \in Nat /\ H(w) \in Nat
        BY <1>3, <1>3a, <2>4
      <3>2. H(x) \in heights
        BY <3>1
      <3>3. H(w) <= H(x)
        BY <2>2, <2>3, <3>2
      <3>4. QED
        BY <3>1, <3>3
    <2>6. ASSUME NEW k \in 1..n, NEW l \in 1..n, H(w) < k, H(w) < l
          PROVE  f[k][w] = f[l][w]
      <3>1. w \in Uri
        BY <2>4 DEF All
      <3>2. ASSUME NEW x \in Imports(d, w)
            PROVE  f[k - 1][x] = f[l - 1][x]
        <4>1. x \in All /\ H(x) < H(w) /\ H(x) \in Nat /\ H(w) \in Nat
          BY <1>3, <1>3a, <2>4, <3>2
        <4>2. k - 1 \in 1..n /\ l - 1 \in 1..n /\ H(x) < k - 1 /\ H(x) < l - 1
          BY <2>6, <4>1
        <4>3. QED
          BY <2>5, <3>2, <4>2
      <3>3. f[k] = TablesAfter(d, f[k - 1]) /\ f[l] = TablesAfter(d, f[l - 1])
        BY <1>2
      <3>4. QED
        BY <3>1, <3>2, <3>3, TablesAfterSame
    <2>7. QED
      BY <2>4, <2>6
  <1>5. u \in All
    BY DEF All
  <1>6. H(u) \in Nat /\ H(u) < n /\ n \in 1..n
    BY <1>3, <1>5
  <1>7. \A x \in Imports(d, u) : f[n - 1][x] = f[n][x]
    <2> TAKE x \in Imports(d, u)
    <2>1. x \in All /\ H(x) < H(u) /\ H(x) \in Nat
      BY <1>3, <1>3a, <1>5
    <2>2. n - 1 \in 1..n /\ H(x) < n - 1 /\ H(x) < n
      BY <1>6, <2>1
    <2>3. Settled(x)
      BY <1>4, <2>1
    <2>4. QED
      BY <1>6, <2>2, <2>3
  <1>8. f[n] = TablesAfter(d, f[n - 1])
    BY <1>2, <1>6
  <1>9. TablesAfter(d, f[n - 1])[u] = TablesAfter(d, f[n])[u]
    BY <1>7, TablesAfterSame
  <1>10. f[n] \in [Uri -> Table]
    BY <1>6
  <1>11. QED
    BY <1>2, <1>8, <1>9, <1>10

-----------------------------------------------------------------------------
(* A parser takes the items of its program one by one. *)

\* What an import adds: the operators of the analysis there is.
Absorbed == [u \in Uri |-> IF Known(u) THEN DocumentManager[u].user ELSE EmptyTable]

\* A plain item and what it makes of tables and terms.
TakesItem(p, q, x, imported) ==
  /\ x \in PlainItem
  /\ Items(p.rest) = <<x>> \o Items(q.rest)
  /\ q.user = AfterOne(p.user, x, imported)
  /\ q.terms = IF x.kind = "term"
               THEN Append(p.terms, infixop([default |-> default_table, user |-> p.user], x.name))
               ELSE p.terms

\* p goes on as q, with the same items ahead or with one less; a file it imports
\* has an entry from then on.
Takes(p, q) ==
  /\ q.uri = p.uri
  /\ \/ /\ Items(q.rest) = Items(p.rest)
        /\ q.user = p.user /\ q.terms = p.terms
     \/ \E x : /\ TakesItem(p, q, x, Absorbed)
               /\ x.kind = "use_module" =>
                    /\ DocumentManager[x.file] # Absent \/ disk[x.file] = Unreadable
                    /\ DocumentManager'[x.file] # Absent

\* The next item of a parser that is plain is the first of its items.
LEMMA PlainNext ==
  ASSUME NEW r \in Seq(ProgramItem), r # << >>, r[1].kind \in {"op", "term", "use_module"}
  PROVE  r[1] \in PlainItem /\ Items(r) = <<r[1]>> \o Items(Tail(r))
  <1>1. r[1] \in ProgramItem
    OBVIOUS
  <1>2. Says(r[1]) = <<r[1]>>
    BY DEF Says
  <1>3. QED
    BY <1>1, <1>2, ItemsRest DEF PlainItem

\* An operator definition sets what it says.
LEMMA OpIsAfter ==
  ASSUME NEW t \in TablePair, NEW x \in PlainItem, x.kind = "op", NEW imported
  PROVE  op(t, x.prec, x.type, x.name).tables.user = AfterOne(t.user, x, imported)
  <1>1. x.prec \in Nat \cup {NaN} /\ x.name \in Name
    BY ItemFields DEF PlainItem
  <1>2. \A key \in Key : SaysAnything(x, key, imported) <=> DefinesOperator(x) /\ KeyOf(x) = key
    BY DEF SaysAnything
  <1>3. \A key \in Key : PrecedenceOf(x, key, imported) = x.prec
    BY DEF PrecedenceOf
  <1>4. t.user \in Table /\ t.user = [key \in Key |-> t.user[key]]
    BY DEF TablePair, Table
  <1>5. CASE DefinesOperator(x)
    <2>1. x.prec \in Nat /\ x.prec <= MaxPrecedence /\ x.type \in OpType /\ x.prec # NaN
      BY <1>5, NotANumber DEF DefinesOperator, MaxPrecedence
    <2>2. check(x.prec, x.type) = {}
      BY <2>1 DEF check, MaxPrecedence
    <2>3. op(t, x.prec, x.type, x.name).tables = op_3(t, x.prec, x.type, x.name)
      BY <2>2 DEF op
    <2>4. op_3(t, x.prec, x.type, x.name).user = [t.user EXCEPT ![<<x.name, x.type>>] = x.prec]
      <3>1. CASE x.prec = 0
        BY <2>1, <3>1 DEF op_3
      <3>2. CASE x.prec # 0
        BY <2>1, <3>2 DEF op_3, TablePair
      <3>3. QED
        BY <3>1, <3>2
    <2>5. AfterOne(t.user, x, imported)
            = [key \in Key |-> IF <<x.name, x.type>> = key THEN x.prec ELSE t.user[key]]
      <3>1. \A key \in Key : (IF SaysAnything(x, key, imported) THEN PrecedenceOf(x, key, imported)
                              ELSE t.user[key])
                             = IF <<x.name, x.type>> = key THEN x.prec ELSE t.user[key]
        BY <1>2, <1>3, <1>5 DEF KeyOf
      <3>2. QED
        BY <3>1 DEF AfterOne
    <2> DEFINE k == <<x.name, x.type>>
               f == t.user
    <2>6. f = [key \in Key |-> f[key]]
      BY <1>4
    <2> HIDE DEF k, f
    <2>7. [f EXCEPT ![k] = x.prec] = [key \in Key |-> IF k = key THEN x.prec ELSE f[key]]
      BY <2>6
    <2>8. QED
      BY <2>3, <2>4, <2>5, <2>7 DEF k, f
  <1>6. CASE ~DefinesOperator(x)
    <2>1. AfterOne(t.user, x, imported) = t.user
      <3>1. AfterOne(t.user, x, imported) = [key \in Key |-> t.user[key]]
        BY <1>2, <1>6 DEF AfterOne
      <3>2. QED
        BY <1>4, <3>1
    <2>2. CASE check(x.prec, x.type) # {}
      <3>1. op(t, x.prec, x.type, x.name).tables = t
        BY <2>2 DEF op
      <3>2. QED
        BY <2>1, <3>1
    <2>3. CASE check(x.prec, x.type) = {}
      <3>1. x.prec = NaN
        <4>1. x.type \in OpType /\ (x.prec = NaN \/ ~(x.prec > MaxPrecedence))
          BY <2>3 DEF check
        <4>2. x.prec = NaN \/ x.prec \in 0..MaxPrecedence
          BY <1>1, <4>1 DEF MaxPrecedence
        <4>3. QED
          BY <1>6, <4>1, <4>2 DEF DefinesOperator
      <3>2. op(t, x.prec, x.type, x.name).tables = op_3(t, x.prec, x.type, x.name)
        BY <2>3 DEF op
      <3>3. op_3(t, x.prec, x.type, x.name) = t
        BY <3>1, NotANumber DEF op_3
      <3>4. QED
        BY <2>1, <3>2, <3>3
    <2>4. QED
      BY <2>2, <2>3
  <1>7. QED
    BY <1>5, <1>6

\* An import adds the operators of the other table.
LEMMA UnionIsAfter ==
  ASSUME NEW t \in Table, NEW o \in Table, NEW x, x.kind = "use_module", NEW imported,
         imported[x.file] = o
  PROVE  Union(t, o) = AfterOne(t, x, imported)
  <1>1. \A key \in Key : SaysAnything(x, key, imported) <=> o[key] # 0
    BY DEF SaysAnything, DefinesOperator
  <1>2. \A key \in Key : PrecedenceOf(x, key, imported) = o[key]
    BY DEF PrecedenceOf
  <1>3. \A key \in Key : (IF o[key] # 0 THEN o[key] ELSE t[key])
                         = IF SaysAnything(x, key, imported) THEN PrecedenceOf(x, key, imported)
                           ELSE t[key]
    BY <1>1, <1>2
  <1>4. QED
    BY <1>3 DEF Union, AfterOne

\* A term, and an import of a file without operators, leave a table as it is.
LEMMA NothingIsAfter ==
  ASSUME NEW t \in Table, NEW x, NEW imported,
         \/ x.kind = "term"
         \/ x.kind = "use_module" /\ imported[x.file] = EmptyTable
  PROVE  AfterOne(t, x, imported) = t
  <1>1. \A key \in Key : ~SaysAnything(x, key, imported)
    BY DEF SaysAnything, DefinesOperator, EmptyTable
  <1>2. AfterOne(t, x, imported) = [key \in Key |-> t[key]]
    BY <1>1 DEF AfterOne
  <1>3. QED
    BY <1>2 DEF Table

\* The items ahead while an export list is walked.
LEMMA ModuleItems ==
  ASSUME NEW r \in Seq(ProgramItem), r # << >>, r[1].kind = "module"
  PROVE  Items(<<[kind |-> "exports", exports |-> r[1].exports]>> \o Tail(r)) = Items(r)
  <1> DEFINE y == [kind |-> "exports", exports |-> r[1].exports]
  <1>1. r[1] \in ProgramItem /\ Tail(r) \in Seq(ProgramItem)
    OBVIOUS
  <1>2. r[1].exports \in Seq(Export)
    BY <1>1, ItemFields
  <1>3. y \in ProgramItem /\ Says(y) = LeadingOps(r[1].exports)
    BY <1>2 DEF ProgramItem, Says
  <1>4. Says(r[1]) = LeadingOps(r[1].exports)
    BY DEF Says
  <1> HIDE DEF y
  <1>5. Items(<<y>> \o Tail(r)) = Says(y) \o Items(Tail(r))
    BY <1>1, <1>3, ItemsFirst
  <1>6. Items(r) = Says(r[1]) \o Items(Tail(r))
    BY ItemsRest
  <1>7. QED
    BY <1>3, <1>4, <1>5, <1>6 DEF y

\* Two items before a sequence.
LEMMA TwoFirst ==
  ASSUME NEW S, NEW a \in S, NEW b \in S, NEW c \in Seq(S)
  PROVE  <<a, b>> \o c = <<a>> \o (<<b>> \o c)
  <1> DEFINE l == <<a, b>> \o c
             q == <<b>> \o c
             r == <<a>> \o q
  <1>1. /\ Len(l) = Len(c) + 2 /\ l \in Seq(S)
        /\ l[1] = a /\ l[2] = b /\ \A i \in 1..Len(c) : l[i + 2] = c[i]
    OBVIOUS
  <1>2. /\ Len(q) = Len(c) + 1 /\ q \in Seq(S)
        /\ q[1] = b /\ \A i \in 1..Len(c) : q[i + 1] = c[i]
    OBVIOUS
  <1> HIDE DEF q, l
  <1>3. /\ Len(r) = Len(c) + 2 /\ r \in Seq(S)
        /\ r[1] = a /\ r[2] = b /\ \A i \in 1..Len(c) : r[i + 2] = c[i]
    BY <1>2
  <1> HIDE DEF r
  <1>4. \A i \in 1..Len(l) : l[i] = r[i]
    <2> TAKE i \in 1..Len(l)
    <2>1. CASE i = 1
      BY <1>1, <1>3, <2>1
    <2>2. CASE i = 2
      BY <1>1, <1>3, <2>2
    <2>3. CASE i > 2
      <3>1. i - 2 \in 1..Len(c) /\ i = (i - 2) + 2
        BY <1>1, <2>3
      <3>2. l[(i - 2) + 2] = c[i - 2] /\ r[(i - 2) + 2] = c[i - 2]
        BY <1>1, <1>3, <3>1
      <3>3. QED
        BY <3>1, <3>2
    <2>4. QED
      BY <1>1, <2>1, <2>2, <2>3
  <1>5. Len(l) = Len(r) /\ l \in Seq(S) /\ r \in Seq(S)
    BY <1>1, <1>3
  <1>6. l = r
    BY <1>4, <1>5, SeqEqual
  <1>7. QED
    BY <1>6 DEF l, r, q

\* The items ahead while the rest of an export list is walked.
LEMMA ExportsItems ==
  ASSUME NEW r \in Seq(ProgramItem), r # << >>, r[1].kind = "exports"
  PROVE  Items((IF r[1].exports = << >> THEN << >> ELSE publicList(r[1].exports)) \o Tail(r))
           = Items(r)
  <1> DEFINE e == r[1].exports
             t == Tail(r)
             walked == IF e = << >> THEN << >> ELSE publicList(e)
  <1>1. r[1] \in ProgramItem /\ t \in Seq(ProgramItem)
    OBVIOUS
  <1>2. e \in Seq(Export)
    BY <1>1, ItemFields
  <1>3. Items(r) = LeadingOps(e) \o Items(t)
    <2>1. Says(r[1]) = LeadingOps(e)
      BY DEF Says
    <2>2. QED
      BY <2>1, ItemsRest
  <1>4. Items(t) \in Seq(PlainItem) /\ LeadingOps(e) \in Seq(PlainItem)
    BY <1>1, <1>2, ItemsTyped, LeadingOpsTyped
  <1> HIDE DEF e, t
  <1>5. CASE e = << >> \/ e[1].kind # "op"
    <2>1. walked = << >>
      BY <1>5 DEF publicList
    <2>2. LeadingOps(e) = << >>
      BY <1>2, <1>5, LeadingOpsEnd
    <2>3. walked \o t = t
      BY <1>1, <2>1
    <2> DEFINE i == Items(t)
    <2>4. i \in Seq(PlainItem)
      BY <1>4
    <2> HIDE DEF i
    <2>5. << >> \o i = i
      BY <2>4
    <2>6. QED
      BY <1>3, <2>2, <2>3, <2>5 DEF e, t, i
  <1>6. CASE e # << >> /\ e[1].kind = "op"
    <2> DEFINE x == e[1]
               y == [kind |-> "exports", exports |-> Tail(e)]
    <2>1. x \in Export /\ Tail(e) \in Seq(Export)
      BY <1>2, <1>6
    <2>2. x \in OpItem /\ x \in ProgramItem /\ Says(x) = <<x>>
      BY <1>6, <2>1 DEF Export, ProgramItem, Says
    <2>3. y \in ProgramItem /\ Says(y) = LeadingOps(Tail(e))
      BY <2>1 DEF ProgramItem, Says
    <2>4. walked = <<x, y>>
      BY <1>6 DEF publicList
    <2>5. LeadingOps(e) = <<x>> \o LeadingOps(Tail(e))
      BY <1>2, <1>6, LeadingOpsFirst
    <2>6. LeadingOps(Tail(e)) \in Seq(PlainItem)
      BY <2>1, LeadingOpsTyped
    <2> HIDE DEF x, y
    <2>7. <<x, y>> \o t = <<x>> \o (<<y>> \o t) /\ <<y>> \o t \in Seq(ProgramItem)
      <3>1. x \in ProgramItem /\ y \in ProgramItem
        BY <2>2, <2>3
      <3>2. <<x, y>> \o t = <<x>> \o (<<y>> \o t)
        BY <1>1, <3>1, TwoFirst
      <3>3. <<y>> \o t \in Seq(ProgramItem)
        BY <1>1, <3>1
      <3>4. QED
        BY <3>2, <3>3
    <2>8. Items(<<x>> \o (<<y>> \o t)) = <<x>> \o Items(<<y>> \o t)
      BY <2>2, <2>7, ItemsFirst
    <2>9. Items(<<y>> \o t) = LeadingOps(Tail(e)) \o Items(t)
      BY <1>1, <2>3, ItemsFirst
    <2> DEFINE i == Items(t)
               l == LeadingOps(Tail(e))
    <2>10. i \in Seq(PlainItem) /\ l \in Seq(PlainItem) /\ x \in PlainItem
      BY <1>4, <1>6, <2>2, <2>6 DEF PlainItem, x
    <2> HIDE DEF i, l
    <2>11. (<<x>> \o l) \o i = <<x>> \o (l \o i)
      BY <2>10
    <2>12. QED
      BY <1>3, <2>4, <2>5, <2>7, <2>8, <2>9, <2>11 DEF e, t, i, l
  <1>7. QED
    BY <1>5, <1>6

\* A step of the parser at the top that starts and ends no parse.
LEMMA TopTakes ==
  ASSUME TypeOK, AdvancingStep
  PROVE  \E q : stack' = <<q>> \o Tail(stack) /\ Takes(Top, q)
  <1>1. /\ Busy /\ Top \in Parsers
        /\ Top.rest \in Seq(ProgramItem) /\ Top.user \in Table
        /\ Tables = [default |-> default_table, user |-> Top.user] /\ Tables \in TablePair
    BY TopTyped DEF AdvancingStep, Term, OpDirective, ModuleDirective, Exports, ImportKnown,
           ImportPending, ImportUnreadable, Has, Parsers, Tables
  \* The parser goes on with the rest of its program.
  <1>2. ASSUME NEW result, Consume(result), Top.rest # << >>, Item \in PlainItem,
               Items(Top.rest) = <<Item>> \o Items(Tail(Top.rest)),
               Item.kind # "term",
               result.tables.user = AfterOne(Top.user, Item, Absorbed),
               Item.kind = "use_module" =>
                 /\ DocumentManager[Item.file] # Absent \/ disk[Item.file] = Unreadable
                 /\ DocumentManager'[Item.file] # Absent
        PROVE  \E q : stack' = <<q>> \o Tail(stack) /\ Takes(Top, q)
    <2> DEFINE q == [Top EXCEPT !.rest = Tail(@), !.user = result.tables.user,
                                !.errors = @ \cup result.errors]
    <2>1. /\ q.uri = Top.uri /\ q.rest = Tail(Top.rest) /\ q.terms = Top.terms
          /\ q.user = AfterOne(Top.user, Item, Absorbed)
      BY <1>1, <1>2 DEF Parsers
    <2>2. stack' = <<q>> \o Tail(stack)
      BY <1>2 DEF Consume
    <2> HIDE DEF q
    <2>3. TakesItem(Top, q, Item, Absorbed)
      BY <1>2, <2>1 DEF TakesItem
    <2>4. Takes(Top, q)
      BY <1>2, <2>1, <2>3 DEF Takes
    <2>5. QED
      BY <2>2, <2>4
  \* It goes on with the same items.
  <1>3. ASSUME NEW items, NEW errors, Replace(items, errors), Items(items) = Items(Top.rest)
        PROVE  \E q : stack' = <<q>> \o Tail(stack) /\ Takes(Top, q)
    <2> DEFINE q == [Top EXCEPT !.rest = items, !.errors = @ \cup errors]
    <2>1. q.uri = Top.uri /\ q.rest = items /\ q.terms = Top.terms /\ q.user = Top.user
      BY <1>1 DEF Parsers
    <2>2. stack' = <<q>> \o Tail(stack)
      BY <1>3 DEF Replace
    <2> HIDE DEF q
    <2>3. Takes(Top, q)
      BY <1>3, <2>1 DEF Takes
    <2>4. QED
      BY <2>2, <2>3
  \* The next item is plain.
  <1>4. ASSUME Top.rest # << >>, Item.kind \in {"op", "term", "use_module"}
        PROVE  Item \in PlainItem /\ Items(Top.rest) = <<Item>> \o Items(Tail(Top.rest))
    BY <1>1, <1>4, PlainNext DEF Item
  <1>5. CASE Term
    <2>1. Top.rest # << >> /\ Item.kind = "term"
      BY <1>5 DEF Term, Has
    <2>2. Item \in PlainItem /\ Items(Top.rest) = <<Item>> \o Items(Tail(Top.rest))
      BY <1>4, <2>1
    <2> DEFINE q == [Top EXCEPT !.rest = Tail(@),
                                !.terms = Append(@, infixop(Tables, Item.name))]
    <2>3. /\ q.uri = Top.uri /\ q.rest = Tail(Top.rest) /\ q.user = Top.user
          /\ q.terms = Append(Top.terms, infixop([default |-> default_table, user |-> Top.user],
                                                 Item.name))
      BY <1>1 DEF Parsers
    <2>4. stack' = <<q>> \o Tail(stack)
      BY <1>5 DEF Term
    <2>5. AfterOne(Top.user, Item, Absorbed) = Top.user
      BY <1>1, <2>1, NothingIsAfter
    <2> HIDE DEF q
    <2>6. TakesItem(Top, q, Item, Absorbed)
      BY <2>1, <2>2, <2>3, <2>5 DEF TakesItem
    <2>7. Takes(Top, q)
      BY <2>1, <2>3, <2>6 DEF Takes
    <2>8. QED
      BY <2>4, <2>7
  <1>6. CASE OpDirective
    <2>1. Top.rest # << >> /\ Item.kind = "op"
      BY <1>6 DEF OpDirective, Has
    <2>2. Item \in PlainItem /\ Items(Top.rest) = <<Item>> \o Items(Tail(Top.rest))
      BY <1>4, <2>1
    <2>3. op(Tables, Item.prec, Item.type, Item.name).tables.user
            = AfterOne(Tables.user, Item, Absorbed)
      BY <1>1, <2>1, <2>2, OpIsAfter
    <2>4. Tables.user = Top.user
      BY <1>1
    <2>5. QED
      BY <1>2, <1>6, <2>1, <2>2, <2>3, <2>4 DEF OpDirective
  <1>7. CASE ModuleDirective
    <2>1. Top.rest # << >> /\ Item.kind = "module"
      BY <1>7 DEF ModuleDirective, Has
    <2>2. Items(<<[kind |-> "exports", exports |-> Item.exports]>> \o Tail(Top.rest))
            = Items(Top.rest)
      BY <1>1, <2>1, ModuleItems DEF Item
    <2>3. QED
      BY <1>3, <1>7, <2>2 DEF ModuleDirective
  <1>8. CASE Exports
    <2>1. Top.rest # << >> /\ Item.kind = "exports"
      BY <1>8 DEF Exports, Has
    <2>2. Items((IF Item.exports = << >> THEN << >> ELSE publicList(Item.exports)) \o Tail(Top.rest))
            = Items(Top.rest)
      BY <1>1, <2>1, ExportsItems DEF Item
    <2>3. QED
      BY <1>3, <1>8, <2>2 DEF Exports
  <1>9. CASE ImportKnown
    <2>1. Top.rest # << >> /\ Item.kind = "use_module" /\ Known(Item.file)
      BY <1>9 DEF ImportKnown, Has
    <2>2. Item \in PlainItem /\ Items(Top.rest) = <<Item>> \o Items(Tail(Top.rest))
      BY <1>4, <2>1
    <2>3. Item.file \in Uri
      BY <2>1, <2>2, ItemFields DEF PlainItem
    <2> DEFINE other == DocumentManager[Item.file].user
    <2>4. other \in Table
      BY <2>1, <2>3 DEF Known, TypeOK, Analyses
    <2>5. Absorbed[Item.file] = other
      BY <2>1, <2>3 DEF Absorbed
    <2> HIDE DEF other
    <2>6. Union(Top.user, other) = AfterOne(Top.user, Item, Absorbed)
      BY <1>1, <2>1, <2>4, <2>5, UnionIsAfter
    <2>7. absorb(Tables, other).tables.user = Union(Top.user, other)
      BY <1>1 DEF absorb
    <2>8. Consume(absorb(Tables, other))
      BY <1>9 DEF ImportKnown, other
    <2>9. DocumentManager[Item.file] # Absent /\ DocumentManager' = DocumentManager
      BY <1>9, <2>1 DEF Known, ImportKnown
    <2>10. Item.kind # "term"
      BY <2>1
    <2>11. QED
      BY <1>2, <2>1, <2>2, <2>6, <2>7, <2>8, <2>9, <2>10
  <1>10. CASE ImportPending \/ ImportUnreadable
    <2>1. /\ Top.rest # << >> /\ Item.kind = "use_module" /\ ~Known(Item.file)
          /\ DocumentManager[Item.file] # Absent \/ disk[Item.file] = Unreadable
      BY <1>10, EntriesDiffer DEF ImportPending, ImportUnreadable, Has, Known
    <2>2. Item \in PlainItem /\ Items(Top.rest) = <<Item>> \o Items(Tail(Top.rest))
      BY <1>4, <2>1
    <2>3. Item.file \in Uri
      BY <2>1, <2>2, ItemFields DEF PlainItem
    <2>4. Absorbed[Item.file] = EmptyTable
      BY <2>1, <2>3 DEF Absorbed
    <2>5. AfterOne(Top.user, Item, Absorbed) = Top.user
      BY <1>1, <2>1, <2>4, NothingIsAfter
    <2>6. PICK errors : Consume([tables |-> Tables, errors |-> errors])
      BY <1>10 DEF ImportPending, ImportUnreadable
    <2>7. Tables.user = Top.user /\ Item.kind # "term"
      BY <1>1, <2>1
    <2>8. DocumentManager'[Item.file] # Absent
      BY <1>10, <2>3, EntriesDiffer DEF ImportPending, ImportUnreadable, TypeOK
    <2>9. QED
      BY <1>2, <2>1, <2>2, <2>5, <2>6, <2>7, <2>8
  <1>11. QED
    BY <1>5, <1>6, <1>7, <1>8, <1>9, <1>10 DEF AdvancingStep

-----------------------------------------------------------------------------
(* How terms read. *)

Pairs(table) == [default |-> Builtin, user |-> table]

\* A name reads as the parser reads it.
LEMMA ReadingIs ==
  ASSUME NEW table \in Table, NEW name \in Name
  PROVE  /\ ReferenceReading(table, name) = infixop(Pairs(table), name)
         /\ ReferenceReading(table, name) \in Reading
  <1> DEFINE visible(t) == IF Builtin[<<name, t>>] # 0 THEN Builtin[<<name, t>>]
                           ELSE table[<<name, t>>]
             types == <<"xfx", "xfy", "yfx">>
             I == {i \in 1..Len(types) : visible(types[i]) # 0}
             first == IF I # {} THEN Min(I) ELSE 0
             prec == visible(types[first])
             reading == IF first = 0 THEN NoOperator
                        ELSE [type |-> types[first], opPrec |-> prec,
                              lPrec |-> IF types[first] = "yfx" THEN prec ELSE prec - 1,
                              rPrec |-> IF types[first] = "xfy" THEN prec ELSE prec - 1]
  <1>1. ReferenceReading(table, name) = reading
    BY DEF ReferenceReading, SelectInSeq
  <1>2. Len(types) = 3 /\ types[1] = "xfx" /\ types[2] = "xfy" /\ types[3] = "yfx"
    OBVIOUS
  <1>3. \A t : current_op(Pairs(table), name, t) = visible(t)
    BY DEF current_op, Pairs
  <1>4. \A t \in {"xfx", "xfy", "yfx"} : visible(t) \in Nat
    <2> TAKE t \in {"xfx", "xfy", "yfx"}
    <2>1. t \in OpType
      BY DEF OpType
    <2>2. <<name, t>> \in Key
      BY <2>1 DEF Key
    <2>3. Builtin[<<name, t>>] \in 0..MaxPrecedence /\ table[<<name, t>>] \in 0..MaxPrecedence
      BY <2>2, BuiltinIsTable DEF Table
    <2> DEFINE b == Builtin[<<name, t>>]
               o == table[<<name, t>>]
    <2>4. b \in 0..1200 /\ o \in 0..1200 /\ visible(t) = IF b # 0 THEN b ELSE o
      BY <2>3 DEF MaxPrecedence
    <2> HIDE DEF b, o, visible
    <2>5. QED
      BY <2>4
  <1> HIDE DEF visible, types
  <1>9. ReferenceReading(table, name) = infixop(Pairs(table), name)
    <2>5. CASE visible("xfx") # 0
      <3>1. I \subseteq 1..3 /\ 1 \in I
        BY <1>2, <2>5
      <3>2. first = 1
        BY <3>1 DEF Min
      <3>3. reading = [type |-> "xfx", opPrec |-> visible("xfx"), lPrec |-> visible("xfx") - 1,
                       rPrec |-> visible("xfx") - 1]
        BY <1>2, <3>2
      <3>4. infixop(Pairs(table), name) = reading
        BY <1>3, <2>5, <3>3 DEF infixop
      <3>5. QED
        BY <1>1, <3>4
    <2>6. CASE visible("xfx") = 0 /\ visible("xfy") # 0
      <3>1. I \subseteq 1..3 /\ 1 \notin I /\ 2 \in I
        BY <1>2, <2>6
      <3>2. first = 2
        <4>1. 2 \in I /\ \A j \in I : 2 <= j
          BY <3>1
        <4> HIDE DEF I
        <4>2. QED
          BY <4>1 DEF Min
      <3>3. reading = [type |-> "xfy", opPrec |-> visible("xfy"), lPrec |-> visible("xfy") - 1,
                       rPrec |-> visible("xfy")]
        BY <1>2, <3>2
      <3>4. infixop(Pairs(table), name) = reading
        BY <1>3, <1>4, <2>6, <3>3 DEF infixop
      <3>5. QED
        BY <1>1, <3>4
    <2>7. CASE visible("xfx") = 0 /\ visible("xfy") = 0 /\ visible("yfx") # 0
      <3>1. I \subseteq 1..3 /\ 1 \notin I /\ 2 \notin I /\ 3 \in I
        BY <1>2, <2>7
      <3>2. first = 3
        <4>1. 3 \in I /\ \A j \in I : 3 <= j
          BY <3>1
        <4> HIDE DEF I
        <4>2. QED
          BY <4>1 DEF Min
      <3>3. reading = [type |-> "yfx", opPrec |-> visible("yfx"), lPrec |-> visible("yfx"),
                       rPrec |-> visible("yfx") - 1]
        BY <1>2, <3>2
      <3>4. infixop(Pairs(table), name) = reading
        BY <1>3, <1>4, <2>7, <3>3 DEF infixop
      <3>5. QED
        BY <1>1, <3>4
    <2>8. CASE visible("xfx") = 0 /\ visible("xfy") = 0 /\ visible("yfx") = 0
      <3>1. \A i \in 1..3 : i = 1 \/ i = 2 \/ i = 3
        OBVIOUS
      <3>2. I = {}
        BY <1>2, <2>8, <3>1
      <3>3. reading = NoOperator
        BY <3>2
      <3>4. infixop(Pairs(table), name) = NoOperator
        BY <1>3, <2>8 DEF infixop
      <3> HIDE DEF reading
      <3>5. QED
        BY <1>1, <3>3, <3>4
    <2>9. QED
      BY <2>5, <2>6, <2>7, <2>8
  <1>10. Pairs(table) \in TablePair
    BY BuiltinIsTable DEF Pairs, TablePair
  <1>11. QED
    BY <1>9, <1>10, InfixTyped

ReadingOne(table, x) == IF x.kind = "term" THEN <<ReferenceReading(table, x.name)>> ELSE << >>

\* No item has no reading.
LEMMA ReadingsNone ==
  ASSUME NEW t, NEW imported
  PROVE  ReadingsOf(t, << >>, imported) = << >>
  <1>1. DOMAIN << >> = {}
    OBVIOUS
  <1> DEFINE R(i) == IF << >>[i].kind = "term"
                     THEN <<ReferenceReading(After(t, SubSeq(<< >>, 1, i - 1), imported), << >>[i].name)>>
                     ELSE << >>
  <1>2. [i \in DOMAIN << >> |-> R(i)] = << >>
    <2> HIDE DEF R
    <2>1. QED
      BY <1>1
  <1>3. FlattenSeq(<< >>) = << >>
    BY DEF FlattenSeq
  <1>4. QED
    BY <1>2, <1>3 DEF ReadingsOf

\* One item leaves a table a table.
LEMMA AfterOneTyped ==
  ASSUME NEW t \in Table, NEW x \in PlainItem, NEW imported,
         x.kind = "use_module" => imported[x.file] \in Table
  PROVE  AfterOne(t, x, imported) \in Table
  <1>1. ASSUME NEW key \in Key, SaysAnything(x, key, imported)
        PROVE  PrecedenceOf(x, key, imported) \in 0..MaxPrecedence
    <2>1. CASE x.kind = "op"
      <3>1. DefinesOperator(x)
        BY <1>1, <2>1 DEF SaysAnything
      <3>2. QED
        BY <2>1, <3>1 DEF DefinesOperator, PrecedenceOf
    <2>2. CASE x.kind # "op"
      <3>1. x.kind = "use_module"
        BY <1>1, <2>2 DEF SaysAnything, DefinesOperator
      <3>2. imported[x.file][key] \in 0..MaxPrecedence
        BY <3>1 DEF Table
      <3>3. QED
        BY <2>2, <3>2 DEF PrecedenceOf
    <2>3. QED
      BY <2>1, <2>2
  <1>2. \A key \in Key : t[key] \in 0..MaxPrecedence
    BY DEF Table
  <1> DEFINE value(key) == IF SaysAnything(x, key, imported) THEN PrecedenceOf(x, key, imported)
                           ELSE t[key]
  <1>3. \A key \in Key : value(key) \in 0..MaxPrecedence
    BY <1>1, <1>2
  <1>4. AfterOne(t, x, imported) = [key \in Key |-> value(key)]
    BY DEF AfterOne
  <1> HIDE DEF value
  <1>5. QED
    BY <1>3, <1>4 DEF Table

\* The reading of the i-th of some items, if it is a term.
ReadingAt(table, items, imported, i) ==
  IF items[i].kind = "term"
  THEN <<ReferenceReading(After(table, SubSeq(items, 1, i - 1), imported), items[i].name)>>
  ELSE << >>

\* It has at most one.
LEMMA ReadingAtTyped ==
  ASSUME NEW t \in Table, NEW imported \in [Uri -> Table], NEW s \in Seq(PlainItem),
         NEW i \in DOMAIN s
  PROVE  ReadingAt(t, s, imported, i) \in Seq(Reading)
  <1>1. PICK n \in Nat : Len(s) = n /\ DOMAIN s = 1..n
    OBVIOUS
  <1>2. SubSeq(s, 1, i - 1) \in Seq(PlainItem)
    BY <1>1, SubSeqProperties
  <1> DEFINE u == After(t, SubSeq(s, 1, i - 1), imported)
  <1>3. u \in Table
    BY <1>2, AfterTyped
  <1> HIDE DEF u
  <1>4. CASE s[i].kind = "term"
    <2>1. s[i] \in PlainItem
      OBVIOUS
    <2>2. s[i].name \in Name
      BY <1>4, <2>1, ItemFields DEF PlainItem
    <2> DEFINE r == ReferenceReading(u, s[i].name)
    <2>3. r \in Reading
      BY <1>3, <2>2, ReadingIs
    <2> HIDE DEF r
    <2>4. <<r>> \in Seq(Reading)
      BY <2>3
    <2>5. QED
      BY <1>4, <2>4 DEF ReadingAt, r, u
  <1>5. CASE s[i].kind # "term"
    BY <1>5 DEF ReadingAt
  <1>6. QED
    BY <1>4, <1>5

\* The items up to one, from the first.
LEMMA SubSeqFirst ==
  ASSUME NEW S, NEW x \in S, NEW s \in Seq(S), NEW i \in 1..Len(s)
  PROVE  SubSeq(<<x>> \o s, 1, i) = <<x>> \o SubSeq(s, 1, i - 1)
  <1> DEFINE a == <<x>> \o s
             b == SubSeq(s, 1, i - 1)
             l == SubSeq(a, 1, i)
             r == <<x>> \o b
  <1>1. PICK n \in Nat : Len(s) = n /\ i \in 1..n /\ \A j \in 1..n : s[j] \in S
    OBVIOUS
  <1>2. a[1] = x /\ \A j \in 1..n : a[j + 1] = s[j]
    BY <1>1
  <1>3. /\ b \in Seq(S) /\ Len(b) = i - 1
        /\ \A j \in 1..(i - 1) : b[j] = s[j]
    <2>1. \A j \in 1..(i - 1) : s[j] \in S
      BY <1>1
    <2>2. /\ b \in Seq(S) /\ Len(b) = IF 1 <= i - 1 THEN (i - 1) - 1 + 1 ELSE 0
          /\ \A j \in 1..((i - 1) - 1 + 1) : b[j] = s[1 + j - 1]
      BY <1>1, <2>1, SubSeqProperties
    <2> HIDE DEF b
    <2>3. (i - 1) - 1 + 1 = i - 1 /\ \A j \in 1..(i - 1) : 1 + j - 1 = j
      BY <1>1
    <2>4. QED
      BY <1>1, <2>2, <2>3
  <1>4. /\ l \in Seq(S) /\ Len(l) = i
        /\ \A j \in 1..i : l[j] = a[j]
    <2>1. \A j \in 1..i : a[j] \in S
      <3> HIDE DEF a
      <3> TAKE j \in 1..i
      <3>1. CASE j = 1
        BY <1>2, <3>1
      <3>2. CASE j # 1
        <4>1. j - 1 \in 1..n /\ (j - 1) + 1 = j
          BY <1>1, <3>2
        <4>2. QED
          BY <1>1, <1>2, <4>1
      <3>3. QED
        BY <3>1, <3>2
    <2> HIDE DEF a
    <2>2. /\ l \in Seq(S) /\ Len(l) = IF 1 <= i THEN i - 1 + 1 ELSE 0
          /\ \A j \in 1..(i - 1 + 1) : l[j] = a[1 + j - 1]
      BY <1>1, <2>1, SubSeqProperties
    <2> HIDE DEF l
    <2>3. i - 1 + 1 = i /\ \A j \in 1..i : 1 + j - 1 = j
      BY <1>1
    <2>4. QED
      BY <1>1, <2>2, <2>3
  <1> HIDE DEF a, b, l
  <1>5. /\ r \in Seq(S) /\ Len(r) = i /\ r[1] = x
        /\ \A j \in 1..(i - 1) : r[j + 1] = b[j]
    BY <1>1, <1>3
  <1> HIDE DEF r
  <1>6. \A j \in 1..i : l[j] = r[j]
    <2> TAKE j \in 1..i
    <2>1. CASE j = 1
      BY <1>1, <1>2, <1>4, <1>5, <2>1
    <2>2. CASE j # 1
      <3>1. j - 1 \in 1..(i - 1) /\ j - 1 \in 1..n /\ (j - 1) + 1 = j
        BY <1>1, <2>2
      <3>2. l[j] = s[j - 1] /\ r[j] = s[j - 1]
        BY <1>2, <1>3, <1>4, <1>5, <3>1
      <3>3. QED
        BY <3>2
    <2>3. QED
      BY <2>1, <2>2
  <1>7. Len(l) = Len(r) /\ \A j \in 1..Len(l) : l[j] = r[j]
    BY <1>4, <1>5, <1>6
  <1>8. l = r
    BY <1>4, <1>5, <1>7, SeqEqual
  <1>9. QED
    BY <1>8 DEF a, b, l, r

\* Terms read one by one, from the first.
LEMMA ReadingsFirst ==
  ASSUME NEW t \in Table, NEW imported \in [Uri -> Table], NEW x \in PlainItem,
         NEW s \in Seq(PlainItem)
  PROVE  ReadingsOf(t, <<x>> \o s, imported)
           = ReadingOne(t, x) \o ReadingsOf(AfterOne(t, x, imported), s, imported)
  <1> DEFINE a == <<x>> \o s
             one == AfterOne(t, x, imported)
             A(i) == ReadingAt(t, a, imported, i)
             B(i) == ReadingAt(one, s, imported, i)
  <1>1. PICK n \in Nat : Len(s) = n
    OBVIOUS
  <1>2. /\ DOMAIN s = 1..n /\ DOMAIN a = 1..(n + 1) /\ a[1] = x /\ a \in Seq(PlainItem)
        /\ \A i \in 1..n : a[i + 1] = s[i]
    BY <1>1
  <1>3. one \in Table
    <2>1. x.kind = "use_module" => imported[x.file] \in Table
      BY ItemFields DEF PlainItem
    <2>2. QED
      BY <2>1, AfterOneTyped
  <1>4. A(1) = ReadingOne(t, x)
    <2>1. SubSeq(a, 1, 0) = << >>
      BY <1>2, SubSeqProperties
    <2>2. 1 - 1 = 0
      OBVIOUS
    <2>3. After(t, << >>, imported) = t
      BY AfterNone
    <2> HIDE DEF a
    <2>4. QED
      BY <1>2, <2>1, <2>2, <2>3 DEF ReadingAt, ReadingOne
  <1>5. ASSUME NEW i \in 1..n
        PROVE  A(i + 1) = B(i)
    <2>1. SubSeq(a, 1, i) = <<x>> \o SubSeq(s, 1, i - 1)
      BY <1>1, SubSeqFirst
    <2>2. SubSeq(s, 1, i - 1) \in Seq(PlainItem)
      BY <1>1, SubSeqProperties
    <2> DEFINE b == SubSeq(s, 1, i - 1)
    <2>3. b \in Seq(PlainItem)
      BY <2>2
    <2> HIDE DEF b
    <2>4. After(t, <<x>> \o b, imported) = After(one, b, imported)
      BY <2>3, AfterFirst
    <2>5. (i + 1) - 1 = i /\ a[i + 1] = s[i]
      BY <1>2
    <2> HIDE DEF a, one
    <2>6. QED
      BY <2>1, <2>4, <2>5 DEF ReadingAt, b
  <1> DEFINE ss == [i \in 1..n |-> B(i)]
             tt == [i \in 1..(n + 1) |-> A(i)]
  <1>6. ReadingsOf(t, a, imported) = FlattenSeq(tt)
    <2> HIDE DEF a
    <2>1. QED
      BY <1>2 DEF ReadingsOf, ReadingAt
  <1>7. ReadingsOf(one, s, imported) = FlattenSeq(ss)
    <2> HIDE DEF one
    <2>1. QED
      BY <1>2 DEF ReadingsOf, ReadingAt
  <1>8. \A i \in 1..n : B(i) \in Seq(Reading)
    <2> HIDE DEF one
    <2>1. QED
      BY <1>2, <1>3, ReadingAtTyped
  <1>9. A(1) \in Seq(Reading)
    <2>1. 1 \in DOMAIN a
      BY <1>2
    <2> HIDE DEF a
    <2>2. QED
      BY <1>2, <2>1, ReadingAtTyped
  <1> HIDE DEF A, B
  <1> DEFINE T == Seq(Reading)
  <1>10. \A i \in 1..n : B(i) \in T
    BY <1>8
  <1>11. A(1) \in T
    BY <1>9
  <1> HIDE DEF T
  <1>12. ss \in Seq(T) /\ Len(ss) = n /\ \A i \in 1..n : ss[i] = B(i)
    BY <1>10
  <1>13. tt = <<A(1)>> \o ss
    <2> DEFINE uu == <<A(1)>> \o ss
               h == A(1)
    <2> HIDE DEF ss, h
    <2>1. h \in T
      BY <1>11 DEF h
    <2>2. <<h>> \o ss \in Seq(T) /\ Len(<<h>> \o ss) = n + 1 /\ (<<h>> \o ss)[1] = h
          /\ \A i \in 1..n : (<<h>> \o ss)[i + 1] = ss[i]
      BY <1>12, <2>1
    <2>3. uu = <<h>> \o ss
      BY DEF h
    <2> HIDE DEF uu
    <2>4. \A i \in 1..(n + 1) : A(i) = uu[i]
      <3> TAKE i \in 1..(n + 1)
      <3>1. CASE i = 1
        BY <2>2, <2>3, <3>1 DEF h
      <3>2. CASE i # 1
        <4>1. i - 1 \in 1..n /\ (i - 1) + 1 = i
          BY <3>2
        <4>2. A(i) = B(i - 1) /\ uu[i] = ss[i - 1]
          BY <1>5, <2>2, <2>3, <4>1
        <4>3. QED
          BY <1>12, <4>1, <4>2
      <3>3. QED
        BY <3>1, <3>2
    <2>5. uu = [i \in 1..(n + 1) |-> uu[i]]
      BY <2>2, <2>3
    <2>6. QED
      BY <2>4, <2>5 DEF uu
  <1> HIDE DEF ss
  <1>14. FlattenSeq(<<A(1)>> \o ss) = A(1) \o FlattenSeq(ss)
    <2>1. A(1) \in Seq(Reading) /\ ss \in Seq(Seq(Reading))
      BY <1>9, <1>12 DEF T
    <2> DEFINE h == A(1)
    <2> HIDE DEF h
    <2>2. h \in Seq(Reading)
      BY <2>1 DEF h
    <2>3. FlattenSeq(<<h>> \o ss) = h \o FlattenSeq(ss)
      BY <2>1, <2>2, FlattenFirst
    <2>4. QED
      BY <2>3 DEF h
  <1>15. QED
    BY <1>4, <1>6, <1>7, <1>13, <1>14

\* The terms of a file have readings.
LEMMA ReadingsTyped ==
  ASSUME NEW t \in Table, NEW imported \in [Uri -> Table], NEW s \in Seq(PlainItem)
  PROVE  ReadingsOf(t, s, imported) \in Seq(Reading)
  <1>1. PICK n \in Nat : Len(s) = n /\ DOMAIN s = 1..n
    OBVIOUS
  <1> DEFINE A(i) == ReadingAt(t, s, imported, i)
             ss == [i \in 1..n |-> A(i)]
  <1>2. \A i \in 1..n : A(i) \in Seq(Reading)
    BY <1>1, ReadingAtTyped
  <1>3. ReadingsOf(t, s, imported) = FlattenSeq(ss)
    BY <1>1 DEF ReadingsOf, ReadingAt
  <1> HIDE DEF A
  <1>4. Len(ss) = n /\ \A i \in 1..n : ss[i] = A(i)
    OBVIOUS
  <1>5. CASE n = 0
    <2>1. ss = << >>
      BY <1>5
    <2>2. FlattenSeq(ss) = << >>
      BY <2>1 DEF FlattenSeq
    <2>3. QED
      BY <1>3, <2>2
  <1>6. CASE n # 0
    <2> HIDE DEF ss
    <2>1. \A i \in 1..n : ss[i] \in Seq(Reading)
      BY <1>2, <1>4
    <2>2. n \in Nat \ {0}
      BY <1>6
    <2>3. PICK f \in [1..n -> Seq(Reading)] : PrefixesOf(ss, n, f)
      BY <1>4, <2>1, <2>2, FlattenSteps
    <2>4. FlattenSeq(ss) = f[n] /\ n \in 1..n
      BY <2>2, <2>3 DEF PrefixesOf
    <2>5. QED
      BY <1>3, <2>3, <2>4
  <1>7. QED
    BY <1>5, <1>6

-----------------------------------------------------------------------------
(* What parsers and entries have in common with the meaning of their files. *)

\* Some file that u reaches, or u itself, defines the operator with this precedence.
Defined(d, u, key, prec) ==
  \E w \in {v \in Reached(d, u) \cup {u} : d[v] # Unreadable} :
    \E item \in OwnOps(d[w]) : KeyOf(item) = key /\ item.prec = prec

\* Every operator of a table is defined so.
Accounted(d, u, table) == \A key \in Key : table[key] # 0 => Defined(d, u, key, table[key])

\* An empty table has nothing to account for.
LEMMA EmptyAccounted ==
  ASSUME NEW d, NEW u
  PROVE  Accounted(d, u, EmptyTable)
  BY DEF Accounted, EmptyTable

\* What an import defines, the importer reaches.
LEMMA DefinedByImport ==
  ASSUME NEW d \in Contents, NEW u \in Uri, NEW w \in Imports(d, u), NEW key, NEW prec,
         Defined(d, w, key, prec)
  PROVE  Defined(d, u, key, prec)
  <1>1. w \in Reached(d, u)
    BY ReachedImports
  <1>2. Reached(d, w) \cup {w} \subseteq Reached(d, u) \cup {u}
    BY <1>1, ReachedFurther
  <1>3. QED
    BY <1>2 DEF Defined

\* A program's own item, or an import, adds what is defined.
LEMMA AccountedAfter ==
  ASSUME NEW d \in Contents, NEW u \in Uri, d[u] # Unreadable, NEW t, Accounted(d, u, t),
         NEW x \in Range(Items(d[u])), NEW imported,
         x.kind = "use_module" => /\ x.file \in Imports(d, u)
                                  /\ Accounted(d, x.file, imported[x.file])
  PROVE  Accounted(d, u, AfterOne(t, x, imported))
  <1> SUFFICES ASSUME NEW key \in Key, AfterOne(t, x, imported)[key] # 0
               PROVE  Defined(d, u, key, AfterOne(t, x, imported)[key])
    BY DEF Accounted
  <1> DEFINE prec == AfterOne(t, x, imported)[key]
  <1>1. prec = IF SaysAnything(x, key, imported) THEN PrecedenceOf(x, key, imported) ELSE t[key]
    BY DEF AfterOne
  <1> HIDE DEF prec
  <1>2. CASE ~SaysAnything(x, key, imported)
    BY <1>1, <1>2 DEF Accounted, prec
  <1>3. CASE SaysAnything(x, key, imported) /\ x.kind = "op"
    <2>1. DefinesOperator(x) /\ KeyOf(x) = key
      BY <1>3 DEF SaysAnything
    <2>2. prec = x.prec
      BY <1>1, <1>3 DEF PrecedenceOf
    <2>3. x \in OwnOps(d[u])
      BY <2>1 DEF OwnOps
    <2>4. QED
      BY <2>1, <2>2, <2>3 DEF Defined, prec
  <1>4. CASE SaysAnything(x, key, imported) /\ x.kind # "op"
    <2>1. x.kind = "use_module" /\ imported[x.file][key] # 0
      BY <1>4 DEF SaysAnything, DefinesOperator
    <2>2. prec = imported[x.file][key]
      BY <1>1, <1>4 DEF PrecedenceOf
    <2>3. Defined(d, x.file, key, prec)
      BY <2>1, <2>2 DEF Accounted
    <2>4. QED
      BY <2>1, <2>3, DefinedByImport DEF prec
  <1>5. QED
    BY <1>2, <1>3, <1>4

\* What a parser has read, and has ahead, together mean what its file means;
\* agrees: no builtin operator was abolished.
Means(d, agrees, p) ==
  Acyclic(d, p.uri) =>
    /\ After(p.user, Items(p.rest), ReferenceTables(d)) = ReferenceTables(d)[p.uri]
    /\ agrees => p.terms \o ReadingsOf(p.user, Items(p.rest), ReferenceTables(d))
                   = ReferenceTerms(d, p.uri)

ParserFits(d, agrees, p) ==
  /\ d[p.uri] # Unreadable
  /\ Range(Items(p.rest)) \subseteq Range(Items(d[p.uri]))
  /\ Accounted(d, p.uri, p.user)
  /\ Means(d, agrees, p)

\* A new parser has everything ahead.
LEMMA NewFits ==
  ASSUME NEW d \in Contents, NEW u \in Uri, d[u] # Unreadable, NEW agrees \in BOOLEAN
  PROVE  ParserFits(d, agrees, Parser(u, d[u]))
  <1> DEFINE p == Parser(u, d[u])
  <1>1. p.uri = u /\ p.rest = d[u] /\ p.user = EmptyTable /\ p.terms = << >>
    BY DEF Parser, InitialTable
  <1> HIDE DEF p
  <1>2. ASSUME Acyclic(d, u)
        PROVE  Means(d, agrees, p)
    <2>1. /\ ReferenceTables(d)[u] = TablesAfter(d, ReferenceTables(d))[u]
          /\ ReferenceTables(d) \in [Uri -> Table]
      BY <1>2, TablesAreFixed
    <2>2. ReferenceTables(d)[u] = After(EmptyTable, Items(d[u]), ReferenceTables(d))
      BY <2>1 DEF TablesAfter
    <2>3. ReferenceTerms(d, u) \in Seq(Reading)
      <3>1. Items(d[u]) \in Seq(PlainItem)
        BY ProgramsAreItems, ItemsTyped DEF Contents
      <3>2. QED
        BY <2>1, <3>1, EmptyIsTable, ReadingsTyped DEF ReferenceTerms
    <2>4. << >> \o ReferenceTerms(d, u) = ReferenceTerms(d, u)
      <3> DEFINE r == ReferenceTerms(d, u)
      <3>1. r \in Seq(Reading)
        BY <2>3
      <3> HIDE DEF r
      <3>2. << >> \o r = r
        BY <3>1
      <3>3. QED
        BY <3>2 DEF r
    <2>5. ReadingsOf(EmptyTable, Items(d[u]), ReferenceTables(d)) = ReferenceTerms(d, u)
      BY DEF ReferenceTerms
    <2>6. QED
      BY <1>1, <2>2, <2>4, <2>5 DEF Means
  <1>3. Means(d, agrees, p)
    BY <1>1, <1>2 DEF Means
  <1>4. QED
    BY <1>1, <1>3, EmptyAccounted DEF ParserFits, p

\* The members of a sequence, from its front.
LEMMA RangeFirst ==
  ASSUME NEW S, NEW x \in S, NEW s \in Seq(S)
  PROVE  Range(<<x>> \o s) = {x} \cup Range(s)
  <1>1. PICK n \in Nat : Len(s) = n
    OBVIOUS
  <1> DEFINE a == <<x>> \o s
  <1>2. /\ DOMAIN s = 1..n /\ DOMAIN a = 1..(n + 1) /\ a[1] = x
        /\ \A i \in 1..n : a[i + 1] = s[i]
    BY <1>1
  <1> HIDE DEF a
  <1>3. Range(a) \subseteq {x} \cup Range(s)
    <2> SUFFICES ASSUME NEW i \in 1..(n + 1) PROVE a[i] \in {x} \cup Range(s)
      BY <1>2 DEF Range
    <2>1. CASE i = 1
      BY <1>2, <2>1
    <2>2. CASE i # 1
      <3>1. i - 1 \in 1..n /\ (i - 1) + 1 = i
        BY <2>2
      <3>2. QED
        BY <1>2, <3>1 DEF Range
    <2>3. QED
      BY <2>1, <2>2
  <1>4. x \in Range(a)
    <2>1. 1 \in 1..(n + 1)
      OBVIOUS
    <2>2. QED
      BY <1>2, <2>1 DEF Range
  <1>5. Range(s) \subseteq Range(a)
    <2> SUFFICES ASSUME NEW i \in 1..n PROVE s[i] \in Range(a)
      BY <1>2 DEF Range
    <2>1. i + 1 \in 1..(n + 1)
      OBVIOUS
    <2>2. QED
      BY <1>2, <2>1 DEF Range
  <1>6. QED
    BY <1>3, <1>4, <1>5 DEF a

\* A parser that takes one of its items goes on meaning the same.
LEMMA ItemTaken ==
  ASSUME NEW d \in Contents, NEW agrees \in BOOLEAN, NEW p \in Parsers, NEW q \in Parsers,
         ParserFits(d, agrees, p), q.uri = p.uri, NEW x \in PlainItem, NEW imported, NEW reading,
         Items(p.rest) = <<x>> \o Items(q.rest),
         q.user = AfterOne(p.user, x, imported),
         q.terms = IF x.kind = "term" THEN Append(p.terms, reading) ELSE p.terms,
         agrees /\ x.kind = "term" => reading = infixop(Pairs(p.user), x.name),
         x.kind = "use_module" =>
           /\ Accounted(d, x.file, imported[x.file])
           /\ Acyclic(d, p.uri) => imported[x.file] = ReferenceTables(d)[x.file]
  PROVE  ParserFits(d, agrees, q)
  <1> DEFINE u == p.uri
             Ref == ReferenceTables(d)
             items == Items(q.rest)
  <1>1. /\ u \in Uri /\ p.user \in Table /\ p.terms \in Seq(Reading)
        /\ q.rest \in Seq(ProgramItem)
    BY DEF Parsers
  <1>2. items \in Seq(PlainItem)
    BY <1>1, ItemsTyped
  <1>3. d[u] # Unreadable /\ Range(Items(p.rest)) \subseteq Range(Items(d[u]))
    BY DEF ParserFits
  <1>4. Range(<<x>> \o items) = {x} \cup Range(items)
    <2> HIDE DEF items
    <2>1. QED
      BY <1>2, RangeFirst
  <1>5. x \in Range(Items(d[u])) /\ Range(items) \subseteq Range(Items(d[u]))
    BY <1>3, <1>4
  <1>6. x.kind = "use_module" => x.file \in Imports(d, u)
    BY <1>1, <1>3, <1>5, ItemsAreImports DEF Range
  <1>7. Accounted(d, u, q.user)
    BY <1>1, <1>3, <1>5, <1>6, AccountedAfter DEF ParserFits
  <1>8. ASSUME Acyclic(d, u)
        PROVE  Means(d, agrees, q)
    <2>1. Ref \in [Uri -> Table]
      BY <1>1, <1>8, TablesAreFixed
    <2>2. AfterOne(p.user, x, imported) = AfterOne(p.user, x, Ref)
      <3>1. CASE x.kind = "use_module"
        BY <1>8, <3>1 DEF AfterOne, SaysAnything, PrecedenceOf, DefinesOperator
      <3>2. CASE x.kind # "use_module"
        BY <3>2 DEF AfterOne, SaysAnything, PrecedenceOf, DefinesOperator
      <3>3. QED
        BY <3>1, <3>2
    <2>3. /\ After(p.user, <<x>> \o items, Ref) = Ref[u]
          /\ agrees => p.terms \o ReadingsOf(p.user, <<x>> \o items, Ref) = ReferenceTerms(d, u)
      BY <1>8 DEF ParserFits, Means
    <2> HIDE DEF Ref, items
    <2>4. After(q.user, items, Ref) = Ref[u]
      BY <1>2, <2>2, <2>3, AfterFirst
    <2>5. ASSUME agrees
          PROVE  q.terms \o ReadingsOf(q.user, items, Ref) = ReferenceTerms(d, u)
      <3> DEFINE r == ReadingsOf(q.user, items, Ref)
                 one == ReadingOne(p.user, x)
      <3>1. ReadingsOf(p.user, <<x>> \o items, Ref) = one \o r
        BY <1>1, <1>2, <2>1, <2>2, ReadingsFirst
      <3>2. q.user \in Table
        BY DEF Parsers
      <3>3. r \in Seq(Reading)
        BY <1>2, <2>1, <3>2, ReadingsTyped
      <3>4. one \in Seq(Reading) /\ q.terms = p.terms \o one
        <4>1. CASE x.kind = "term"
          <5>1. x.name \in Name
            BY <4>1, ItemFields DEF PlainItem
          <5>2. reading = ReferenceReading(p.user, x.name) /\ reading \in Reading
            BY <1>1, <2>5, <4>1, <5>1, ReadingIs
          <5>3. one = <<reading>> /\ q.terms = Append(p.terms, reading)
            BY <4>1, <5>2 DEF ReadingOne
          <5> HIDE DEF one
          <5>4. Append(p.terms, reading) = p.terms \o <<reading>> /\ <<reading>> \in Seq(Reading)
            BY <1>1, <5>2
          <5>5. QED
            BY <5>3, <5>4
        <4>2. CASE x.kind # "term"
          <5>1. one = << >> /\ q.terms = p.terms
            BY <4>2 DEF ReadingOne
          <5> HIDE DEF one
          <5>2. p.terms \o << >> = p.terms /\ << >> \in Seq(Reading)
            BY <1>1
          <5>3. QED
            BY <5>1, <5>2
        <4>3. QED
          BY <4>1, <4>2
      <3> HIDE DEF r, one
      <3> DEFINE a == p.terms
      <3>4a. a \in Seq(Reading) /\ one \in Seq(Reading)
        BY <1>1, <3>4
      <3> HIDE DEF a
      <3>4b. (a \o one) \o r = a \o (one \o r)
        BY <3>3, <3>4a, Associative
      <3>5. (p.terms \o one) \o r = p.terms \o (one \o r)
        BY <3>4b DEF a
      <3>6. QED
        BY <2>3, <2>5, <3>1, <3>4, <3>5 DEF r
    <2>6. QED
      BY <2>4, <2>5 DEF Means, Ref, items
  <1>9. Means(d, agrees, q)
    BY <1>8 DEF Means
  <1>10. QED
    BY <1>3, <1>5, <1>7, <1>9 DEF ParserFits

\* An analysis means what its file means.
EntryFits(d, agrees, u, entry) ==
  /\ Accounted(d, u, entry.user)
  /\ Acyclic(d, u) => /\ entry.user = ReferenceTables(d)[u]
                      /\ agrees => entry.terms = ReferenceTerms(d, u)

\* A parser at its end leaves one.
LEMMA EndFits ==
  ASSUME NEW d, NEW agrees \in BOOLEAN, NEW p \in Parsers, ParserFits(d, agrees, p),
         p.rest = << >>, NEW n
  PROVE  EntryFits(d, agrees, p.uri, Analysis(p, n))
  <1>1. Analysis(p, n).user = p.user /\ Analysis(p, n).terms = p.terms
    BY DEF Analysis
  <1>2. p.user \in Table /\ p.terms \in Seq(Reading)
    BY DEF Parsers
  <1>3. Items(p.rest) = << >>
    BY ItemsNone
  <1>4. After(p.user, << >>, ReferenceTables(d)) = p.user
    BY <1>2, AfterNone
  <1>5. ReadingsOf(p.user, << >>, ReferenceTables(d)) = << >>
    BY ReadingsNone
  <1>6. p.terms \o << >> = p.terms
    BY <1>2
  <1>7. QED
    BY <1>1, <1>3, <1>4, <1>5, <1>6 DEF ParserFits, Means, EntryFits

\* Nothing is lost when a builtin operator is abolished.
LEMMA FitsLess ==
  ASSUME NEW d, NEW a \in BOOLEAN, NEW b \in BOOLEAN, b => a
  PROVE  /\ \A p : ParserFits(d, a, p) => ParserFits(d, b, p)
         /\ \A u, entry : EntryFits(d, a, u, entry) => EntryFits(d, b, u, entry)
  BY DEF ParserFits, Means, EntryFits

Agrees == default_table = Builtin

\* Only builtin operators are in the builtin table.
DefaultFits == \A key \in Key : default_table[key] \in {0, Builtin[key]}

\* Every step keeps it so, and a builtin operator that was abolished is not defined again.
LEMMA DefaultStep ==
  ASSUME TypeOK, DefaultFits, [Next]_vars
  PROVE  DefaultFits' /\ (Agrees' => Agrees)
  <1>1. \/ default_table' = default_table
        \/ \E key \in Key : default_table' = [default_table EXCEPT ![key] = 0]
    <2>1. CASE OpDirective
      <3>1. /\ Busy /\ Top.rest # << >> /\ Item.kind = "op"
            /\ default_table' = op(Tables, Item.prec, Item.type, Item.name).tables.default
        BY <2>1 DEF OpDirective, Has, Consume
      <3>2. Item \in ProgramItem /\ Item.name \in Name /\ Item.prec \in Nat \cup {NaN}
        BY <3>1, TopTyped, ItemFields
      <3>3. Tables.default = default_table
        BY DEF Tables
      <3>4. CASE check(Item.prec, Item.type) # {}
        BY <3>1, <3>3, <3>4 DEF op
      <3>5. CASE check(Item.prec, Item.type) = {}
        <4>1. Item.type \in OpType
          BY <3>5 DEF check
        <4>2. <<Item.name, Item.type>> \in Key
          BY <3>2, <4>1 DEF Key
        <4>3. default_table' = op_3(Tables, Item.prec, Item.type, Item.name).default
          BY <3>1, <3>5 DEF op
        <4>4. CASE Item.prec = NaN
          <5>1. op_3(Tables, Item.prec, Item.type, Item.name) = Tables
            BY <4>4, NotANumber DEF op_3
          <5>2. QED
            BY <3>3, <4>3, <5>1
        <4>5. CASE Item.prec = 0
          <5>1. op_3(Tables, Item.prec, Item.type, Item.name).default
                  = [default_table EXCEPT ![<<Item.name, Item.type>>] = 0]
            BY <3>3, <4>5, NotANumber DEF op_3
          <5>2. QED
            BY <4>2, <4>3, <5>1
        <4>6. CASE Item.prec # NaN /\ Item.prec # 0
          <5>1. op_3(Tables, Item.prec, Item.type, Item.name).default = default_table
            BY <4>6 DEF op_3, Tables
          <5>2. QED
            BY <4>3, <5>1
        <4>7. QED
          BY <4>4, <4>5, <4>6
      <3>6. QED
        BY <3>4, <3>5
    <2>2. CASE ImportKnown \/ ImportPending \/ ImportUnreadable
      BY <2>2 DEF ImportKnown, ImportPending, ImportUnreadable, Consume, absorb, Tables
    <2>3. CASE ~(OpDirective \/ ImportKnown \/ ImportPending \/ ImportUnreadable)
      BY <2>3 DEF Next, Validate, Begin, Step, Import, Term, ModuleDirective, Exports,
                  ImportReads, Return, Finish, vars
    <2>4. QED
      BY <2>1, <2>2, <2>3
  <1>2. CASE default_table' = default_table
    BY <1>2 DEF DefaultFits, Agrees
  <1>3. ASSUME NEW key \in Key, default_table' = [default_table EXCEPT ![key] = 0]
        PROVE  DefaultFits' /\ (Agrees' => Agrees)
    <2>1. default_table \in [Key -> 0..MaxPrecedence] /\ Builtin \in [Key -> 0..MaxPrecedence]
      BY BuiltinIsTable DEF TypeOK, Table
    <2>2. \A k \in Key : default_table'[k] = IF k = key THEN 0 ELSE default_table[k]
      BY <1>3, <2>1
    <2>3. DefaultFits'
      BY <2>2 DEF DefaultFits
    <2>4. ASSUME Agrees' PROVE Agrees
      <3>1. \A k \in Key : Builtin[k] = IF k = key THEN 0 ELSE default_table[k]
        BY <2>2, <2>4 DEF Agrees
      <3>2. \A k \in Key : default_table[k] = Builtin[k]
        BY <3>1 DEF DefaultFits
      <3>3. QED
        BY <2>1, <3>2 DEF Agrees
    <2>5. QED
      BY <2>3, <2>4
  <1>4. QED
    BY <1>1, <1>2, <1>3

\* The parsers at work fit, and their files reach those of the parsers above them.
StackFits(d) ==
  /\ \A i \in 1..Len(stack) : ParserFits(d, Agrees, stack[i])
  /\ \A i, j \in 1..Len(stack) : i < j => stack[i].uri \in Reached(d, stack[j].uri)

EntriesFit(d) ==
  \A u \in Uri : Known(u) => EntryFits(d, Agrees, u, DocumentManager[u])

\* What an import absorbs is what the imported file means.
LEMMA AbsorbedFits ==
  ASSUME NEW d \in Contents, d = disk, TypeOK, PendingIsParsed, StackFits(d), EntriesFit(d), Busy,
         NEW file \in Imports(d, Top.uri), DocumentManager[file] # Absent \/ disk[file] = Unreadable
  PROVE  /\ Absorbed[file] \in Table
         /\ Accounted(d, file, Absorbed[file])
         /\ Acyclic(d, Top.uri) => Absorbed[file] = ReferenceTables(d)[file]
  <1>1. Top \in Parsers /\ Top = stack[1] /\ Top.uri \in Uri /\ Len(stack) \in Nat \ {0}
    BY TopTyped DEF Top, Parsers, Busy, TypeOK
  <1>2. file \in Uri /\ file \in Reached(d, Top.uri)
    BY <1>1, ImportsTyped, ReachedImports
  <1>3. CASE Known(file)
    <2>1. Absorbed[file] = DocumentManager[file].user
      BY <1>2, <1>3 DEF Absorbed
    <2>2. DocumentManager[file] \in Analyses
      BY <1>2, <1>3 DEF Known, TypeOK
    <2>3. Absorbed[file] \in Table
      BY <2>1, <2>2 DEF Analyses
    <2>4. EntryFits(d, Agrees, file, DocumentManager[file])
      BY <1>2, <1>3 DEF EntriesFit
    <2>5. Acyclic(d, Top.uri) => Acyclic(d, file)
      BY <1>1, AcyclicImports
    <2>6. QED
      BY <2>1, <2>3, <2>4, <2>5 DEF EntryFits
  <1>4. CASE ~Known(file)
    <2>1. Absorbed[file] = EmptyTable
      BY <1>2, <1>4 DEF Absorbed
    <2>2. ASSUME Acyclic(d, Top.uri)
          PROVE  ReferenceTables(d)[file] = EmptyTable
      <3>1. d[file] = Unreadable
        <4> SUFFICES ASSUME d[file] # Unreadable PROVE FALSE
          OBVIOUS
        <4>1. DocumentManager[file] = Pending
          BY <1>4 DEF Known
        <4>2. PICK i \in 1..Len(stack) : stack[i].uri = file
          BY <1>2, <4>1 DEF PendingIsParsed
        <4>3. Top.uri \in Reached(d, Top.uri)
          <5>1. CASE i = 1
            BY <1>1, <1>2, <4>2, <5>1
          <5>2. CASE i # 1
            <6>1. 1 \in 1..Len(stack) /\ 1 < i
              BY <1>1, <5>2
            <6>2. Top.uri \in Reached(d, file)
              BY <1>1, <4>2, <6>1 DEF StackFits
            <6>3. Reached(d, file) \subseteq Reached(d, Top.uri)
              BY <1>1, <1>2, ReachedFurther
            <6>4. QED
              BY <6>2, <6>3
          <5>3. QED
            BY <5>1, <5>2
        <4>4. QED
          BY <2>2, <4>3 DEF Acyclic
      <3>2. Acyclic(d, file)
        BY <1>1, <2>2, AcyclicImports
      <3>3. ReferenceTables(d)[file] = TablesAfter(d, ReferenceTables(d))[file]
        BY <1>2, <3>2, TablesAreFixed
      <3>4. QED
        BY <1>2, <3>1, <3>3 DEF TablesAfter
    <2>3. QED
      BY <2>1, <2>2, EmptyIsTable, EmptyAccounted
  <1>5. QED
    BY <1>3, <1>4

\* A file that a parser imports next is one its file imports.
LEMMA NextIsImport ==
  ASSUME NEW d \in Contents, NEW agrees \in BOOLEAN, NEW p \in Parsers, ParserFits(d, agrees, p),
         NEW x \in PlainItem, NEW s \in Seq(PlainItem), Items(p.rest) = <<x>> \o s,
         x.kind = "use_module"
  PROVE  x.file \in Imports(d, p.uri)
  <1>1. Range(<<x>> \o s) = {x} \cup Range(s)
    BY RangeFirst
  <1>2. x \in Range(Items(d[p.uri])) /\ d[p.uri] # Unreadable
    BY <1>1 DEF ParserFits
  <1>3. p.uri \in Uri
    BY DEF Parsers
  <1>4. PICK i \in DOMAIN Items(d[p.uri]) : Items(d[p.uri])[i] = x
    BY <1>2 DEF Range
  <1>5. QED
    BY <1>2, <1>3, <1>4, ItemsAreImports

\* Entries that change are undefined, or mean what their files mean.
LEMMA EntriesStep ==
  ASSUME NEW d, NEW b, b = Agrees', Agrees' => Agrees, EntriesFit(d),
         \A u \in Uri : \/ DocumentManager'[u] = DocumentManager[u]
                        \/ DocumentManager'[u] = Pending
                        \/ EntryFits(d, b, u, DocumentManager'[u])
  PROVE  EntriesFit(d)'
  <1> SUFFICES ASSUME NEW u \in Uri, Known(u)'
               PROVE  EntryFits(d, Agrees', u, DocumentManager'[u])
    BY DEF EntriesFit
  <1>1. DocumentManager'[u] # Pending /\ DocumentManager'[u] # Absent
    BY DEF Known
  <1>2. CASE DocumentManager'[u] = DocumentManager[u]
    <2>1. EntryFits(d, Agrees, u, DocumentManager[u])
      BY <1>1, <1>2 DEF EntriesFit, Known
    <2>2. Agrees \in BOOLEAN /\ Agrees' \in BOOLEAN
      BY DEF Agrees
    <2>3. EntryFits(d, Agrees', u, DocumentManager[u])
      BY <2>1, <2>2, FitsLess
    <2>4. QED
      BY <1>2, <2>3
  <1>3. CASE EntryFits(d, b, u, DocumentManager'[u])
    BY <1>3
  <1>4. QED
    BY <1>1, <1>2, <1>3

\* The parser at the top goes on.
LEMMA TopFits ==
  ASSUME NEW d \in Contents, d = disk, TypeOK, TypeOK', PendingIsParsed,
         StackFits(d), EntriesFit(d), NEW b \in BOOLEAN, b => Agrees, AdvancingStep
  PROVE  ParserFits(d, b, stack'[1])
  <1>1. PICK q : stack' = <<q>> \o Tail(stack) /\ Takes(Top, q)
    BY TopTakes
  <1>2. /\ Busy /\ Top \in Parsers /\ Top = stack[1] /\ Len(stack) \in Nat \ {0}
        /\ Tail(stack) \in Seq(Parsers)
    BY StepAdvances, TopTyped DEF Advances, Top, Busy, TypeOK
  <1>3. q = stack'[1]
    BY <1>1, <1>2
  <1>4. q \in Parsers
    <2>1. stack' \in Seq(Parsers) /\ 1 \in 1..Len(stack')
      BY <1>1, <1>2 DEF TypeOK
    <2>2. QED
      BY <1>3, <2>1
  <1>5. ParserFits(d, Agrees, Top) /\ Agrees \in BOOLEAN
    BY <1>2 DEF StackFits, Agrees
  <1>6. ParserFits(d, b, Top)
    BY <1>5, FitsLess
  <1>7. CASE Items(q.rest) = Items(Top.rest) /\ q.user = Top.user /\ q.terms = Top.terms
    <2>1. q.uri = Top.uri
      BY <1>1 DEF Takes
    <2>2. QED
      BY <1>3, <1>6, <1>7, <2>1 DEF ParserFits, Means
  <1>8. CASE \E x : /\ TakesItem(Top, q, x, Absorbed)
                    /\ x.kind = "use_module" =>
                         /\ DocumentManager[x.file] # Absent \/ disk[x.file] = Unreadable
                         /\ DocumentManager'[x.file] # Absent
    <2>1. PICK x : /\ TakesItem(Top, q, x, Absorbed)
                   /\ x.kind = "use_module" =>
                        DocumentManager[x.file] # Absent \/ disk[x.file] = Unreadable
      BY <1>8
    <2> DEFINE reading == infixop([default |-> default_table, user |-> Top.user], x.name)
    <2>2. /\ x \in PlainItem /\ Items(Top.rest) = <<x>> \o Items(q.rest)
          /\ q.user = AfterOne(Top.user, x, Absorbed)
          /\ q.terms = IF x.kind = "term" THEN Append(Top.terms, reading) ELSE Top.terms
      BY <2>1 DEF TakesItem
    <2>3. b => reading = infixop(Pairs(Top.user), x.name)
      BY DEF Agrees, Pairs
    <2>4. Items(q.rest) \in Seq(PlainItem)
      BY <1>4, ItemsTyped DEF Parsers
    <2>5. ASSUME x.kind = "use_module"
          PROVE  /\ Accounted(d, x.file, Absorbed[x.file])
                 /\ Acyclic(d, Top.uri) => Absorbed[x.file] = ReferenceTables(d)[x.file]
      <3>1. x.file \in Imports(d, Top.uri)
        BY <1>2, <1>6, <2>2, <2>4, <2>5, NextIsImport
      <3>2. QED
        BY <1>2, <2>1, <2>5, <3>1, AbsorbedFits
    <2>6. q.uri = Top.uri
      BY <1>1 DEF Takes
    <2> HIDE DEF reading
    <2>7. ParserFits(d, b, q)
      BY <1>2, <1>4, <1>6, <2>2, <2>3, <2>5, <2>6, ItemTaken
    <2>8. QED
      BY <1>3, <2>7
  <1>9. QED
    BY <1>1, <1>7, <1>8 DEF Takes

\* The importer goes on after a nested parse.
LEMMA ImporterFits ==
  ASSUME NEW d \in Contents, d = disk, TypeOK, TypeOK', ImportersWait, StackFits(d),
         NEW b \in BOOLEAN, b => Agrees, Return
  PROVE  ParserFits(d, b, stack'[1])
  <1> DEFINE p == stack[2]
             x == p.rest[1]
             q == stack'[1]
             imported == [w \in Uri |-> Top.user]
  <1>1. /\ Len(stack) \in Nat /\ Len(stack) > 1 /\ stack \in Seq(Parsers)
        /\ Top = stack[1] /\ Top \in Parsers /\ p \in Parsers /\ Top.rest = << >>
        /\ Tail(Tail(stack)) \in Seq(Parsers)
    BY TailOfTail DEF Return, TypeOK, Top
  <1>2. /\ p.rest # << >> /\ x.kind = "use_module" /\ x.file = Top.uri
    <2>1. 2 \in 2..Len(stack) /\ 2 - 1 = 1
      BY <1>1
    <2>2. QED
      BY <1>1, <2>1 DEF ImportersWait
  <1>3. /\ p.user \in Table /\ p.rest \in Seq(ProgramItem) /\ Top.user \in Table /\ Top.uri \in Uri
        /\ p.uri \in Uri
    BY <1>1 DEF Parsers
  <1>4. q.uri = p.uri /\ q.rest = Tail(p.rest) /\ q.terms = p.terms
        /\ q.user = Union(p.user, Top.user)
    <2> DEFINE result == absorb([default |-> default_table, user |-> p.user], Top.user)
               r == [p EXCEPT !.rest = Tail(@), !.user = result.tables.user,
                              !.errors = @ \cup result.errors]
    <2>1. stack' = <<r>> \o Tail(Tail(stack))
      BY DEF Return
    <2>2. result.tables.user = Union(p.user, Top.user)
      BY DEF absorb
    <2>3. r.uri = p.uri /\ r.rest = Tail(p.rest) /\ r.terms = p.terms
          /\ r.user = result.tables.user
      BY <1>1 DEF Parsers
    <2> HIDE DEF r, result
    <2>4. q = r
      BY <1>1, <2>1
    <2>5. QED
      BY <2>2, <2>3, <2>4
  <1>5. q \in Parsers
    <2>1. stack' \in Seq(Parsers) /\ Len(stack') = Len(stack) - 1
      BY PopShape DEF TypeOK
    <2>2. 1 \in 1..Len(stack')
      BY <1>1, <2>1
    <2>3. QED
      BY <2>1, <2>2
  <1>6. x \in PlainItem /\ Items(p.rest) = <<x>> \o Items(q.rest)
    BY <1>2, <1>3, <1>4, PlainNext
  <1>7. q.user = AfterOne(p.user, x, imported)
    <2>1. imported[x.file] = Top.user
      BY <1>2, <1>3
    <2>2. Union(p.user, Top.user) = AfterOne(p.user, x, imported)
      <3> HIDE DEF imported, x, p
      <3>1. QED
        BY <1>2, <1>3, <2>1, UnionIsAfter
    <2>3. QED
      BY <1>4, <2>2
  <1>8. ParserFits(d, Agrees, Top) /\ ParserFits(d, Agrees, p) /\ Agrees \in BOOLEAN
    <2>1. 1 \in 1..Len(stack) /\ 2 \in 1..Len(stack)
      BY <1>1
    <2>2. QED
      BY <1>1, <2>1 DEF StackFits, Agrees
  <1>9. ParserFits(d, b, p)
    BY <1>8, FitsLess
  <1>10. EntryFits(d, Agrees, Top.uri, Analysis(Top, 0))
    BY <1>1, <1>8, EndFits
  <1>11. Analysis(Top, 0).user = Top.user
    BY DEF Analysis
  <1>12. Items(q.rest) \in Seq(PlainItem)
    BY <1>5, ItemsTyped DEF Parsers
  <1>13. x.file \in Imports(d, p.uri)
    <2> HIDE DEF x, p, q
    <2>1. QED
      BY <1>1, <1>2, <1>6, <1>9, <1>12, NextIsImport
  <1>14. /\ Accounted(d, x.file, imported[x.file])
         /\ Acyclic(d, p.uri) => imported[x.file] = ReferenceTables(d)[x.file]
    <2>1. Acyclic(d, p.uri) => Acyclic(d, x.file)
      BY <1>3, <1>13, AcyclicImports
    <2>2. imported[x.file] = Top.user
      BY <1>2, <1>3
    <2>3. QED
      BY <1>2, <1>10, <1>11, <2>1, <2>2 DEF EntryFits
  <1> HIDE DEF p, x, q, imported
  <1>15. ParserFits(d, b, q)
    BY <1>1, <1>2, <1>4, <1>5, <1>6, <1>7, <1>9, <1>14, ItemTaken
  <1>16. QED
    BY <1>15 DEF q

\* How a step that leaves parsers but the first in place keeps them fitting.
LEMMA BelowFits ==
  ASSUME NEW d \in Contents, TypeOK, StackFits(d), NEW b, b = Agrees', Agrees' => Agrees,
         NEW n \in Nat, Len(stack') = n, NEW k \in Int, n > 0,
         \A i \in 2..n : i + k \in 2..Len(stack) /\ stack'[i] = stack[i + k],
         n > 1 => stack'[1].uri = stack[1 + k].uri /\ 1 + k \in 1..Len(stack),
         ParserFits(d, b, stack'[1])
  PROVE  StackFits(d)'
  <1>1. Agrees \in BOOLEAN /\ Agrees' \in BOOLEAN
    BY DEF Agrees
  <1>2. ASSUME NEW i \in 1..n
        PROVE  ParserFits(d, Agrees', stack'[i])
    <2>1. CASE i = 1
      BY <2>1
    <2>2. CASE i # 1
      <3>1. i + k \in 1..Len(stack) /\ stack'[i] = stack[i + k]
        BY <2>2
      <3>2. ParserFits(d, Agrees, stack[i + k])
        BY <3>1 DEF StackFits
      <3>3. ParserFits(d, Agrees', stack[i + k])
        BY <1>1, <3>2, FitsLess
      <3>4. QED
        BY <3>1, <3>3
    <2>3. QED
      BY <2>1, <2>2
  <1>3. \A i \in 1..n : n > 1 => i + k \in 1..Len(stack) /\ stack'[i].uri = stack[i + k].uri
    <2> TAKE i \in 1..n
    <2>1. CASE i = 1
      BY <2>1
    <2>2. CASE i # 1
      BY <2>2
    <2>3. QED
      BY <2>1, <2>2
  <1>4. ASSUME NEW i \in 1..n, NEW j \in 1..n, i < j
        PROVE  stack'[i].uri \in Reached(d, stack'[j].uri)
    <2>1. i + k \in 1..Len(stack) /\ j + k \in 1..Len(stack) /\ i + k < j + k
      BY <1>3, <1>4
    <2>2. stack'[i].uri = stack[i + k].uri /\ stack'[j].uri = stack[j + k].uri
      BY <1>3, <1>4
    <2>3. QED
      BY <2>1, <2>2 DEF StackFits
  <1>5. QED
    BY <1>2, <1>4 DEF StackFits

\* Every step keeps parsers and entries fitting.
LEMMA FitsStep ==
  ASSUME NEW d \in Contents, d = disk, disk' = disk, TypeOK, TypeOK', StackInv, PendingIsParsed,
         StackFits(d), EntriesFit(d), Agrees' => Agrees, [Next]_vars
  PROVE  StackFits(d)' /\ EntriesFit(d)'
  <1>0. PICK b \in BOOLEAN : b = Agrees'
    BY DEF Agrees
  <1>1. CASE AdvancingStep
    <2>1. ParserFits(d, b, stack'[1])
      BY <1>0, <1>1, TopFits
    <2>2. /\ Len(stack') = Len(stack) /\ Len(stack) \in Nat \ {0}
          /\ \A i \in 1..Len(stack) : stack'[i].uri = stack[i].uri
          /\ \A i \in 2..Len(stack) : stack'[i] = stack[i]
      BY <1>1, StepAdvances, AdvanceShape
    <2>3. StackFits(d)'
      <3>1. /\ \A i \in 2..Len(stack) : i + 0 \in 2..Len(stack) /\ stack'[i] = stack[i + 0]
            /\ Len(stack) > 1 => stack'[1].uri = stack[1 + 0].uri /\ 1 + 0 \in 1..Len(stack)
        BY <2>2
      <3>2. QED
        BY <1>0, <2>1, <2>2, <3>1, BelowFits
    <2>4. \A u \in Uri : DocumentManager'[u] \in {DocumentManager[u], Pending}
      <3>1. CASE ImportUnreadable
        BY <3>1 DEF ImportUnreadable, TypeOK
      <3>2. CASE ~ImportUnreadable
        BY <1>1, <3>2 DEF AdvancingStep, Term, OpDirective, ModuleDirective, Exports,
                          ImportKnown, ImportPending
      <3>3. QED
        BY <3>1, <3>2
    <2>5. EntriesFit(d)'
      BY <1>0, <2>4, EntriesStep
    <2>6. QED
      BY <2>3, <2>5
  <1>2. CASE ImportReads
    <2>1. /\ Len(stack') = Len(stack) + 1 /\ Len(stack) \in Nat \ {0}
          /\ stack'[1].uri = Item.file /\ Item.file \in Uri
          /\ \A i \in 2..(Len(stack) + 1) : stack'[i] = stack[i - 1]
          /\ Top.rest # << >>
      BY <1>2, PushShape
    <2>2. /\ Busy /\ Item.kind = "use_module" /\ disk[Item.file] # Unreadable
          /\ stack' = <<Parser(Item.file, disk[Item.file])>> \o stack
          /\ DocumentManager' = [DocumentManager EXCEPT ![Item.file] = Pending]
      BY <1>2 DEF ImportReads, Has
    <2>3. Top \in Parsers /\ Top = stack[1] /\ Top.rest \in Seq(ProgramItem) /\ Top.uri \in Uri
      BY <2>2, TopTyped DEF Top, Parsers
    <2>4. Item \in PlainItem /\ Items(Top.rest) = <<Item>> \o Items(Tail(Top.rest))
      BY <2>1, <2>2, <2>3, PlainNext DEF Item
    <2>5. Items(Tail(Top.rest)) \in Seq(PlainItem)
      <3>1. Tail(Top.rest) \in Seq(ProgramItem)
        BY <2>1, <2>3
      <3>2. QED
        BY <3>1, ItemsTyped
    <2>6. ParserFits(d, Agrees, Top) /\ Agrees \in BOOLEAN
      BY <2>1, <2>3 DEF StackFits, Agrees
    <2>7. Item.file \in Imports(d, Top.uri)
      BY <2>2, <2>3, <2>4, <2>5, <2>6, NextIsImport
    <2>8. Item.file \in Reached(d, Top.uri)
      BY <2>3, <2>7, ReachedImports
    <2>9. stack'[1] = Parser(Item.file, disk[Item.file])
      BY <2>1, <2>2 DEF TypeOK
    <2>10. ParserFits(d, b, stack'[1])
      BY <2>1, <2>2, <2>9, NewFits
    <2>11. ASSUME NEW i \in 1..Len(stack')
           PROVE  ParserFits(d, Agrees', stack'[i])
      <3>1. CASE i = 1
        BY <1>0, <2>10, <3>1
      <3>2. CASE i # 1
        <4>1. i - 1 \in 1..Len(stack) /\ stack'[i] = stack[i - 1]
          BY <2>1, <3>2
        <4>2. ParserFits(d, Agrees, stack[i - 1])
          BY <4>1 DEF StackFits
        <4>3. ParserFits(d, Agrees', stack[i - 1])
          BY <1>0, <2>6, <4>2, FitsLess
        <4>4. QED
          BY <4>1, <4>3
      <3>3. QED
        BY <3>1, <3>2
    <2>12. ASSUME NEW i \in 1..Len(stack'), NEW j \in 1..Len(stack'), i < j
           PROVE  stack'[i].uri \in Reached(d, stack'[j].uri)
      <3>1. j - 1 \in 1..Len(stack) /\ stack'[j] = stack[j - 1]
        BY <2>1, <2>12
      <3>2. CASE i # 1
        <4>1. i - 1 \in 1..Len(stack) /\ stack'[i] = stack[i - 1] /\ i - 1 < j - 1
          BY <2>1, <2>12, <3>2
        <4>2. QED
          BY <3>1, <4>1 DEF StackFits
      <3>3. CASE i = 1 /\ j = 2
        BY <2>1, <2>3, <2>8, <3>1, <3>3
      <3>4. CASE i = 1 /\ j # 2
        <4>1. 1 \in 1..Len(stack) /\ 1 < j - 1
          BY <2>1, <2>12, <3>1, <3>4
        <4>2. Top.uri \in Reached(d, stack[j - 1].uri)
          BY <2>3, <3>1, <4>1 DEF StackFits
        <4>3. stack[j - 1].uri \in Uri
          BY <3>1, StackUris
        <4>4. Reached(d, Top.uri) \subseteq Reached(d, stack[j - 1].uri)
          BY <4>2, <4>3, ReachedFurther
        <4>5. QED
          BY <2>1, <2>8, <3>1, <3>4, <4>4
      <3>5. QED
        BY <3>2, <3>3, <3>4
    <2>13. StackFits(d)'
      BY <2>11, <2>12 DEF StackFits
    <2>14. \A u \in Uri : DocumentManager'[u] \in {DocumentManager[u], Pending}
      BY <2>2 DEF TypeOK
    <2>15. QED
      BY <1>0, <2>13, <2>14, EntriesStep
  <1>3. CASE Return
    <2>1. /\ Len(stack') = Len(stack) - 1 /\ Len(stack) \in Nat /\ Len(stack) > 1
          /\ stack'[1].uri = stack[2].uri
          /\ \A i \in 2..(Len(stack) - 1) : stack'[i] = stack[i + 1]
      BY <1>3, PopShape
    <2>2. ParserFits(d, b, stack'[1])
      BY <1>0, <1>3, ImporterFits DEF StackInv
    <2>3. StackFits(d)'
      <3>1. /\ \A i \in 2..(Len(stack) - 1) : i + 1 \in 2..Len(stack) /\ stack'[i] = stack[i + 1]
            /\ stack'[1].uri = stack[1 + 1].uri /\ 1 + 1 \in 1..Len(stack)
            /\ Len(stack) - 1 \in Nat /\ Len(stack) - 1 > 0
        BY <2>1
      <3>2. QED
        BY <1>0, <2>1, <2>2, <3>1, BelowFits
    <2>4. /\ Top \in Parsers /\ Top = stack[1] /\ Top.rest = << >> /\ Top.uri \in Uri
          /\ DocumentManager' = [DocumentManager EXCEPT ![Top.uri] = Analysis(Top, 0)]
      BY <1>3, <2>1, StackUris DEF Top, Return, StoredImport
    <2>5. ParserFits(d, Agrees, Top) /\ Agrees \in BOOLEAN
      BY <2>1, <2>4 DEF StackFits, Agrees
    <2>6. ParserFits(d, b, Top)
      BY <1>0, <2>5, FitsLess
    <2>7. EntryFits(d, b, Top.uri, Analysis(Top, 0))
      BY <2>4, <2>6, EndFits
    <2>8. \A u \in Uri : DocumentManager'[u] = IF u = Top.uri THEN Analysis(Top, 0)
                                               ELSE DocumentManager[u]
      BY <2>4 DEF TypeOK
    <2>9. \A u \in Uri : DocumentManager'[u] = DocumentManager[u]
                         \/ EntryFits(d, b, u, DocumentManager'[u])
      BY <2>7, <2>8
    <2>10. QED
      BY <1>0, <2>3, <2>9, EntriesStep
  <1>4. CASE Finish
    <2>1. /\ Len(stack) = 1 /\ Top = stack[1] /\ Top \in Parsers /\ Top.rest = << >>
          /\ Top.uri \in Uri /\ stack' = << >>
      BY <1>4, StackUris DEF Finish, Top
    <2> DEFINE entry == Analysis(Top, validated[Top.uri])
    <2>2. \A u \in Uri : DocumentManager'[u] = IF u = Top.uri THEN entry ELSE DocumentManager[u]
      BY <1>4 DEF Finish, TypeOK
    <2>3. ParserFits(d, Agrees, Top) /\ Agrees \in BOOLEAN
      BY <2>1 DEF StackFits, Agrees
    <2>4. ParserFits(d, b, Top)
      BY <1>0, <2>3, FitsLess
    <2>5. EntryFits(d, b, Top.uri, entry)
      BY <2>1, <2>4, EndFits
    <2> HIDE DEF entry
    <2>6. \A u \in Uri : DocumentManager'[u] = DocumentManager[u]
                         \/ EntryFits(d, b, u, DocumentManager'[u])
      BY <2>2, <2>5
    <2>7. StackFits(d)'
      <3>1. Len(stack') = 0
        BY <2>1
      <3>2. QED
        BY <3>1 DEF StackFits
    <2>8. QED
      BY <1>0, <2>6, <2>7, EntriesStep
  <1>5. ASSUME NEW u \in Uri, Validate(u)
        PROVE  StackFits(d)' /\ EntriesFit(d)'
    <2>1. /\ disk[u] # Unreadable /\ stack' = <<Parser(u, disk[u])>>
          /\ DocumentManager' = [DocumentManager EXCEPT ![u] = Pending]
      BY <1>5 DEF Validate, Begin
    <2>2. Len(stack') = 1 /\ stack'[1] = Parser(u, disk[u])
      BY <2>1
    <2>3. ParserFits(d, b, stack'[1])
      BY <2>1, <2>2, NewFits
    <2>4. /\ \A i \in 1..1 : i = 1
          /\ \A i \in 2..1 : FALSE
      OBVIOUS
    <2>5. StackFits(d)'
      BY <1>0, <2>2, <2>3, <2>4 DEF StackFits
    <2>6. \A w \in Uri : DocumentManager'[w] \in {DocumentManager[w], Pending}
      BY <2>1 DEF TypeOK
    <2>7. QED
      BY <1>0, <2>5, <2>6, EntriesStep
  <1>6. CASE UNCHANGED vars
    BY <1>6 DEF vars, StackFits, EntriesFit, Agrees, Known
  <1>7. QED
    BY <1>1, <1>2, <1>3, <1>4, <1>5, <1>6 DEF Next, Step, Import, AdvancingStep

-----------------------------------------------------------------------------
(* Theorems. *)

\* Everything holds before the first validation.
LEMMA InitInv ==
  ASSUME Init
  PROVE  IInv /\ ParsersAreTold /\ NoSilentReservedOperator /\ PendingIsParsed
  <1>1. stack = << >> /\ Len(stack) = 0 /\ ~Busy
    BY DEF Init, Busy
  <1>2. TypeOK
    BY BuiltinIsTable, DisksHavePrograms DEF Init, TypeOK
  <1>3. StackInv
    BY <1>1 DEF StackInv, ImportersWait, NoReentry, ParsedArePending, NestedWereAbsent,
                OnlyAbsentFilled
  <1>4. \A u \in Uri : DocumentManager[u] = Absent /\ before[u] = Absent
    BY DEF Init
  <1>5. VersionsAreValidations
    BY <1>1, <1>4, SeenNone DEF VersionsAreValidations
  <1>6. NoSilentReservedOperator
    BY <1>4 DEF NoSilentReservedOperator, Known
  <1>7. PendingIsParsed
    BY <1>4, EntriesDiffer DEF PendingIsParsed
  <1>8. QED
    BY <1>1, <1>2, <1>3, <1>5, <1>6, <1>7 DEF IInv, ParsersAreTold

\* IInv is inductive.
LEMMA Inductive == Spec => []IInv
  <1>1. Init => IInv
    BY InitInv
  <1>2. IInv /\ [Next]_vars => IInv'
    BY NextRuns, TypeStep, StackStep, VersionStep DEF IInv, StackInv
  <1>3. QED
    BY <1>1, <1>2, PTL DEF Spec

\* Every parser and every analysis means what its file means.
LoaderFits ==
  /\ IInv /\ PendingIsParsed
  /\ DefaultFits
  /\ StackFits(disk)
  /\ EntriesFit(disk)

\* It holds before the first validation.
LEMMA LoaderFitsInit ==
  ASSUME Init
  PROVE  LoaderFits
  <1>1. Len(stack) = 0 /\ \A u \in Uri : ~Known(u)
    BY DEF Init, Known
  <1>2. StackFits(disk) /\ EntriesFit(disk)
    BY <1>1 DEF StackFits, EntriesFit
  <1>3. DefaultFits
    BY DEF Init, DefaultFits
  <1>4. QED
    BY <1>2, <1>3, InitInv DEF LoaderFits

\* Every step keeps it.
LEMMA LoaderFitsStep ==
  ASSUME LoaderFits, [Next]_vars
  PROVE  LoaderFits'
  <1>1. IInv' /\ PendingIsParsed'
    BY NextRuns, TypeStep, StackStep, VersionStep, PendingStep DEF LoaderFits, IInv, StackInv
  <1>2. DefaultFits' /\ (Agrees' => Agrees)
    BY DefaultStep DEF LoaderFits, IInv
  <1>3. disk' = disk
    BY DEF Next, Validate, Begin, Step, Import, Term, OpDirective, ModuleDirective, Exports,
           ImportKnown, ImportPending, ImportUnreadable, ImportReads, Return, Finish, vars
  <1>4. PICK d : d = disk
    OBVIOUS
  <1>5. d \in Contents
    BY <1>4 DEF LoaderFits, IInv, TypeOK, Contents
  <1>6. StackFits(d)' /\ EntriesFit(d)'
    <2>1. StackFits(d) /\ EntriesFit(d) /\ TypeOK /\ TypeOK' /\ StackInv /\ PendingIsParsed
      BY <1>1, <1>4 DEF LoaderFits, IInv
    <2>2. QED
      BY <1>2, <1>3, <1>4, <1>5, <2>1, FitsStep
  <1>7. StackFits(disk)' /\ EntriesFit(disk)'
    BY <1>3, <1>4, <1>6
  <1>8. QED
    BY <1>1, <1>2, <1>7 DEF LoaderFits

\* It always holds.
LEMMA AlwaysFits == Spec => []LoaderFits
  BY LoaderFitsInit, LoaderFitsStep, PTL DEF Spec

\* Every variable keeps its type, for every set of programs made of items.
THEOREM TypeCorrect == Spec => []TypeOK
  <1>1. IInv => TypeOK
    BY DEF IInv
  <1>2. QED
    BY <1>1, Inductive, PTL

\* use_module never enters a file that is being parsed, whatever imports what:
\* the depth of the recursion is at most the number of files.
THEOREM NoFileInsideItself == Spec => []NoReentry
  <1>1. IInv => NoReentry
    BY DEF IInv, StackInv
  <1>2. QED
    BY <1>1, Inductive, PTL

\* A document that has an operator of a reserved name was told.
THEOREM ReservedOperatorsAreTold == Spec => []NoSilentReservedOperator
  <1> DEFINE Inv == ParsersAreTold /\ NoSilentReservedOperator
  <1>1. Init => Inv
    BY InitInv
  <1>2. IInv /\ Inv /\ [Next]_vars => Inv'
    BY NextRuns, ToldStep, SilentStep DEF IInv
  <1>3. QED
    BY <1>1, <1>2, Inductive, PTL DEF Spec

\* When no parse throws, only files that cannot be read are left undefined.
THEOREM UndefinedAreUnreadable == Spec => []PendingOnlyUnreadable
  <1>1. Init => PendingIsParsed
    BY InitInv
  <1>2. IInv /\ PendingIsParsed /\ [Next]_vars => PendingIsParsed'
    BY PendingStep DEF IInv
  <1>3. PendingIsParsed => PendingOnlyUnreadable
    <2>1. ~Busy => Len(stack) = 0
      BY DEF Busy
    <2>2. QED
      BY <2>1 DEF PendingIsParsed, PendingOnlyUnreadable
  <1>4. QED
    BY <1>1, <1>2, <1>3, Inductive, PTL DEF Spec

\* The loader implements the store of analyses: a validation, with all the files
\* it loads, is to its readers one step that replaces the entry of the document
\* by a newer one and adds entries for files without one.
THEOREM LoaderImplementsStore == Spec => ImplementsStore
  <1>1. Init => Store!Init
    BY SeenNone DEF Init, Store!Init, Busy
  <1>2. IInv /\ [Next]_vars => [Store!Next]_(Store!storeVars)
    BY NextRuns, StoreStep DEF IInv
  <1>3. QED
    BY <1>1, <1>2, Inductive, PTL DEF Spec, ImplementsStore, Store!Spec

\* The table of a file that reaches no import cycle is what its program and its
\* imports mean, whatever was validated before, and whether an import was read,
\* found analysed or could not be read.
THEOREM TablesAlwaysAgree == Spec => []TablesAgree
  <1>1. LoaderFits => TablesAgree
    BY DEF LoaderFits, EntriesFit, EntryFits, TablesAgree
  <1>2. QED
    BY <1>1, AlwaysFits, PTL

\* While no builtin operator is abolished, the terms of such a file are read with
\* exactly the operators of the items before them.
THEOREM TermsAlwaysAgree == Spec => []TermsAgree
  <1>1. LoaderFits => TermsAgree
    BY DEF LoaderFits, EntriesFit, EntryFits, TermsAgree, Agrees
  <1>2. QED
    BY <1>1, AlwaysFits, PTL

\* With import cycles too, every operator of a table is defined, with that
\* precedence, by the file or by one it reaches.
THEOREM OperatorsAlwaysComeFromImports == Spec => []OperatorsComeFromImports
  <1>1. LoaderFits => OperatorsComeFromImports
    BY DEF LoaderFits, EntriesFit, EntryFits, OperatorsComeFromImports, Accounted, Defined
  <1>2. QED
    BY <1>1, AlwaysFits, PTL

-----------------------------------------------------------------------------
(* A load comes to an end. *)

AbsentFiles == {u \in Uri : DocumentManager[u] = Absent}

\* An item that stands for less of the list that the next item of the parser stands for.
IsLess(x) ==
  \/ x.kind = "op" /\ Item.kind = "exports"
  \/ x.kind = "exports" /\ Item.kind = "module"
  \/ x.kind = "exports" /\ Item.kind = "exports" /\ Len(x.exports) < Len(Item.exports)

\* The top parser is done with its next item, in whose place are lesser ones at most.
GetsOn ==
  \E p, others : /\ stack' = <<p>> \o Tail(stack)
                 /\ p.rest = others \o Tail(Top.rest)
                 /\ \A i \in 1..Len(others) : IsLess(others[i])

\* What is left to be loaded gets less: a file is entered that had no entry, or a parse
\* ends, or a parser gets on; and no file loses its entry.
LoadsLess ==
  /\ AbsentFiles' \subseteq AbsentFiles
  /\ \/ AbsentFiles' # AbsentFiles
     \/ Len(stack') < Len(stack)
     \/ GetsOn

\* A parser that goes on with the rest of its items.
LEMMA ConsumeGetsOn ==
  ASSUME TypeOK, Busy, Top.rest # << >>,
         NEW p, p.rest = Tail(Top.rest), stack' = <<p>> \o Tail(stack)
  PROVE  GetsOn
  <1>1. Tail(Top.rest) \in Seq(ProgramItem)
    BY TopTyped
  <1>2. p.rest = << >> \o Tail(Top.rest)
    BY <1>1
  <1>3. \A i \in 1..Len(<< >>) : IsLess(<< >>[i])
    OBVIOUS
  <1>4. QED
    BY <1>2, <1>3 DEF GetsOn

LEMMA ReplaceGetsOn ==
  ASSUME TypeOK, Busy, NEW others, NEW errors, Replace(others \o Tail(Top.rest), errors),
         \A i \in 1..Len(others) : IsLess(others[i])
  PROVE  GetsOn
  <1> DEFINE p == [Top EXCEPT !.rest = others \o Tail(Top.rest), !.errors = @ \cup errors]
  <1>1. p.rest = others \o Tail(Top.rest)
    BY TopTyped DEF Parsers
  <1>2. stack' = <<p>> \o Tail(stack)
    BY DEF Replace
  <1> HIDE DEF p
  <1>3. QED
    BY <1>1, <1>2 DEF GetsOn

LEMMA ExportsGetOn ==
  ASSUME TypeOK, Exports
  PROVE  GetsOn
  <1>1. Busy /\ Top.rest # << >> /\ Item.kind = "exports"
    BY DEF Exports, Has
  <1>2. Item.exports \in Seq(Export)
    BY <1>1, TopTyped, ItemFields
  <1> DEFINE others == IF Item.exports = << >> THEN << >> ELSE publicList(Item.exports)
  <1>3. Replace(others \o Tail(Top.rest), {})
    BY DEF Exports
  <1>4. CASE others = << >>
    <2>1. \A i \in 1..Len(<< >>) : IsLess(<< >>[i])
      OBVIOUS
    <2>2. QED
      BY <1>1, <1>3, <1>4, <2>1, ReplaceGetsOn
  <1>5. CASE others # << >>
    <2> DEFINE walked == [kind |-> "exports", exports |-> Tail(Item.exports)]
    <2>1. /\ Item.exports # << >> /\ Item.exports[1].kind = "op"
          /\ others = <<Item.exports[1], walked>>
      BY <1>5 DEF publicList
    <2>2. Len(Tail(Item.exports)) < Len(Item.exports)
      BY <1>2, <2>1
    <2>3. IsLess(walked)
      BY <1>1, <2>2 DEF IsLess
    <2>4. IsLess(Item.exports[1])
      BY <1>1, <2>1 DEF IsLess
    <2> HIDE DEF walked
    <2>5. \A i \in 1..Len(<<Item.exports[1], walked>>) : IsLess(<<Item.exports[1], walked>>[i])
      BY <2>3, <2>4
    <2>6. QED
      BY <1>1, <1>3, <2>1, <2>5, ReplaceGetsOn
  <1>6. QED
    BY <1>4, <1>5

LEMMA ModuleGetsOn ==
  ASSUME TypeOK, ModuleDirective
  PROVE  GetsOn
  <1> DEFINE walked == [kind |-> "exports", exports |-> Item.exports]
             others == <<walked>>
             errors == IF Item.exports = << >> THEN {"list"} ELSE {}
  <1>1. Busy /\ Top.rest # << >> /\ Item.kind = "module"
    BY DEF ModuleDirective, Has
  <1>2. Replace(others \o Tail(Top.rest), errors)
    BY DEF ModuleDirective
  <1>3. IsLess(walked)
    BY <1>1 DEF IsLess
  <1> HIDE DEF walked, errors
  <1>4. \A i \in 1..Len(others) : IsLess(others[i])
    BY <1>3
  <1> HIDE DEF others
  <1>5. QED
    BY <1>1, <1>2, <1>4, ReplaceGetsOn

\* An entry that is set to something else than Absent.
LEMMA NoEntryIsLost ==
  ASSUME NEW u, NEW entry, entry # Absent, TypeOK,
         DocumentManager' = [DocumentManager EXCEPT ![u] = entry]
  PROVE  AbsentFiles' \subseteq AbsentFiles
  BY DEF AbsentFiles, TypeOK

LEMMA EveryStepLoadsLess ==
  ASSUME IInv, Step
  PROVE  LoadsLess
  <1>t. TypeOK
    BY DEF IInv
  <1>p. Pending # Absent
    BY EntriesDiffer
  <1>k. ASSUME UNCHANGED DocumentManager PROVE AbsentFiles' \subseteq AbsentFiles
    BY <1>k DEF AbsentFiles
  <1>c. ASSUME Busy, Top.rest # << >>, NEW result, Consume(result) PROVE GetsOn
    <2> DEFINE p == [Top EXCEPT !.rest = Tail(@), !.user = result.tables.user,
                                !.errors = @ \cup result.errors]
    <2>1. p.rest = Tail(Top.rest)
      BY <1>t, <1>c, TopTyped DEF Parsers
    <2>2. stack' = <<p>> \o Tail(stack)
      BY <1>c DEF Consume
    <2> HIDE DEF p
    <2>3. QED
      BY <1>t, <1>c, <2>1, <2>2, ConsumeGetsOn
  <1>1. CASE Term
    <2> DEFINE p == [Top EXCEPT !.rest = Tail(@),
                                !.terms = Append(@, infixop(Tables, Item.name))]
    <2>1. Busy /\ Top.rest # << >> /\ stack' = <<p>> \o Tail(stack) /\ UNCHANGED DocumentManager
      BY <1>1 DEF Term, Has
    <2>2. p.rest = Tail(Top.rest)
      BY <1>t, <2>1, TopTyped DEF Parsers
    <2> HIDE DEF p
    <2>3. QED
      BY <1>t, <1>k, <2>1, <2>2, ConsumeGetsOn DEF LoadsLess
  <1>2. CASE OpDirective
    BY <1>2, <1>c, <1>k DEF OpDirective, Has, LoadsLess
  <1>3. CASE ModuleDirective
    BY <1>3, <1>t, <1>k, ModuleGetsOn DEF ModuleDirective, LoadsLess
  <1>4. CASE Exports
    BY <1>4, <1>t, <1>k, ExportsGetOn DEF Exports, LoadsLess
  <1>5. CASE ImportKnown
    BY <1>5, <1>c, <1>k DEF ImportKnown, Has, LoadsLess
  <1>6. CASE ImportPending
    BY <1>6, <1>c, <1>k DEF ImportPending, Has, LoadsLess
  <1>7. CASE ImportUnreadable
    <2>1. AbsentFiles' \subseteq AbsentFiles
      BY <1>7, <1>t, <1>p, NoEntryIsLost DEF ImportUnreadable
    <2>2. GetsOn
      BY <1>7, <1>c DEF ImportUnreadable, Has
    <2>3. QED
      BY <2>1, <2>2 DEF LoadsLess
  <1>8. CASE ImportReads
    <2>1. AbsentFiles' \subseteq AbsentFiles
      BY <1>8, <1>t, <1>p, NoEntryIsLost DEF ImportReads
    <2>2. Item.file \in Uri
      BY <1>8, <1>t, PushShape
    <2>3. Item.file \in AbsentFiles /\ Item.file \notin AbsentFiles'
      BY <1>8, <1>t, <1>p, <2>2 DEF ImportReads, ToRead, MarkedBeforeReading, AbsentFiles, TypeOK
    <2>4. QED
      BY <2>1, <2>3 DEF LoadsLess
  <1>9. CASE Return
    <2>1. Len(stack') < Len(stack)
      BY <1>9, <1>t, PopShape
    <2>2. Top \in Parsers
      BY <1>9, <1>t, TopTyped DEF Return, Busy
    <2>3. Analysis(Top, 0) # Absent
      BY <2>2, AnalysisTyped, EntriesDiffer
    <2>4. AbsentFiles' \subseteq AbsentFiles
      BY <1>9, <1>t, <2>3, NoEntryIsLost DEF Return, StoredImport
    <2>5. QED
      BY <2>1, <2>4 DEF LoadsLess
  <1>10. CASE Finish
    <2>1. Len(stack) = 1 /\ stack' = << >>
      BY <1>10 DEF Finish
    <2>2. Busy
      BY <2>1 DEF Busy
    <2>3. Top \in Parsers
      BY <1>t, <2>2, TopTyped
    <2>4. validated[Top.uri] \in Nat
      BY <1>t, <2>3 DEF TypeOK, Parsers
    <2>5. Analysis(Top, validated[Top.uri]) # Absent
      BY <2>3, <2>4, AnalysisTyped, EntriesDiffer
    <2>6. AbsentFiles' \subseteq AbsentFiles
      BY <1>10, <1>t, <2>5, NoEntryIsLost DEF Finish
    <2>7. QED
      BY <2>1, <2>6 DEF LoadsLess
  <1>11. QED
    BY <1>1, <1>2, <1>3, <1>4, <1>5, <1>6, <1>7, <1>8, <1>9, <1>10 DEF Step, Import

\* Every step of a validation leaves less to be loaded, also when files import each other
\* in a cycle: with finitely many files, none goes on for ever.
THEOREM EveryStepOfALoadCounts == Spec => [][Step => LoadsLess]_vars
  <1>1. IInv /\ [Next]_vars => [Step => LoadsLess]_vars
    BY EveryStepLoadsLess
  <1>2. QED
    BY <1>1, Inductive, PTL DEF Spec
=============================================================================
