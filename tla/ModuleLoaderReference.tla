----------------------- MODULE ModuleLoaderReference -----------------------
(***************************************************************************)
(* What a file means, by definition instead of by loading: the operators   *)
(* of a file are given by the last item of its program that says anything  *)
(* of them, an import saying what the imported file means.  The loader has *)
(* to agree, whatever was validated before and in whatever order.          *)
(*                                                                         *)
(* Everything is said of files that have the programs d[u].                *)
(***************************************************************************)
EXTENDS ModuleLoader, SequencesExt

ASSUME FilesAreFinite == IsFiniteSet(Uri)

\* The files a file imports, and those it reaches: all sets that hold its imports
\* and the imports of their own members have these.
Imports(d, u) ==
  IF d[u] = Unreadable THEN {}
  ELSE {d[u][i].file : i \in {j \in DOMAIN d[u] : d[u][j].kind = "use_module"}}

HasItsImports(d, S) == \A w \in S : Imports(d, w) \subseteq S

Reached(d, u) ==
  {w \in Uri : \A S \in SUBSET Uri : Imports(d, u) \subseteq S /\ HasItsImports(d, S)
                                       => w \in S}

Acyclic(d, u) == \A w \in Reached(d, u) \cup {u} : w \notin Reached(d, w)

\* The operators at the head of an export list.
LeadingOps(exports) ==
  LET heads == {n \in 0..Len(exports) : \A i \in 1..n : exports[i].kind = "op"}
  IN  SubSeq(exports, 1, Max(heads))

\* A program, or what a parser has left of one, with every export list replaced
\* by its leading operators.
Says(item) ==
  IF item.kind \in {"module", "exports"} THEN LeadingOps(item.exports) ELSE <<item>>

Items(program) == FlattenSeq([i \in DOMAIN program |-> Says(program[i])])

KeyOf(item) == <<item.name, item.type>>

\* A definition with an invalid precedence or type says nothing.
DefinesOperator(item) ==
  item.kind = "op" /\ item.prec \in 0..MaxPrecedence /\ item.type \in OpType

\* The operators a program defines itself, with their precedence.
OwnOps(program) == {item \in Range(Items(program)) : DefinesOperator(item)}

\* Whether an item says anything of a key, and what, when imported[w] is the table
\* of file w.
SaysAnything(item, key, imported) ==
  \/ DefinesOperator(item) /\ KeyOf(item) = key
  \/ item.kind = "use_module" /\ imported[item.file][key] # 0

PrecedenceOf(item, key, imported) ==
  IF item.kind = "op" THEN item.prec ELSE imported[item.file][key]

\* What a table becomes: what the last item that says anything of a key says.
After(table, items, imported) ==
  [key \in Key |->
     LET those == {i \in DOMAIN items : SaysAnything(items[i], key, imported)}
     IN  IF those = {} THEN table[key]
         ELSE PrecedenceOf(items[Max(those)], key, imported)]

\* The table each file means, from those of the files it imports.
ReferenceTables(d) ==
  LET tables[depth \in 0..Cardinality(Uri)] ==
        [u \in Uri |->
           IF depth = 0 \/ d[u] = Unreadable THEN EmptyTable
           ELSE After(EmptyTable, Items(d[u]), tables[depth - 1])]
  IN  tables[Cardinality(Uri)]

\* How a name reads after a term: as the first infix type it has, its arguments
\* below its precedence on an x side; a builtin operator hides one of the file.
ReferenceReading(table, name) ==
  LET visible(t) == IF Builtin[<<name, t>>] # 0 THEN Builtin[<<name, t>>] ELSE table[<<name, t>>]
      types == <<"xfx", "xfy", "yfx">>
      first == SelectInSeq(types, LAMBDA t : visible(t) # 0)
      prec == visible(types[first])
  IN  IF first = 0 THEN NoOperator
      ELSE [type |-> types[first], opPrec |-> prec,
            lPrec |-> IF types[first] = "yfx" THEN prec ELSE prec - 1,
            rPrec |-> IF types[first] = "xfy" THEN prec ELSE prec - 1]

\* How the terms among some items read: with the operators of the items before.
ReadingsOf(table, items, imported) ==
  FlattenSeq([i \in DOMAIN items |->
    IF items[i].kind = "term"
    THEN <<ReferenceReading(After(table, SubSeq(items, 1, i - 1), imported), items[i].name)>>
    ELSE << >>])

ReferenceTerms(d, u) == ReadingsOf(EmptyTable, Items(d[u]), ReferenceTables(d))

\* The table of a file that reaches no import cycle is what its program and its
\* imports mean: it does not depend on which documents were validated before, in
\* which order, nor on whether its imports were already analysed (the two ways
\* through use_module_1), and unreadable imports add nothing.
TablesAgree ==
  ~Busy => \A u \in Uri : Known(u) /\ Acyclic(disk, u) =>
             DocumentManager[u].user = ReferenceTables(disk)[u]

\* Its terms are read with exactly the operators of the items before them, as
\* long as no document has abolished a builtin operator (operators.ts:33 does so
\* for every later parse of every document).
TermsAgree ==
  ~Busy /\ default_table = Builtin =>
    \A u \in Uri : Known(u) /\ Acyclic(disk, u) =>
      DocumentManager[u].terms = ReferenceTerms(disk, u)

\* With import cycles a table may miss operators, but it never has one that no
\* file it reaches defines with that precedence: operators do not leak from one
\* document into another that does not import it.
OperatorsComeFromImports ==
  \A u \in Uri : Known(u) =>
    LET table == DocumentManager[u].user
    IN  \A key \in {k \in Key : table[k] # 0} :
          \E w \in {v \in Reached(disk, u) \cup {u} : disk[v] # Unreadable} :
            \E item \in OwnOps(disk[w]) :
              KeyOf(item) = key /\ item.prec = table[key]
=============================================================================
