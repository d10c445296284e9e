--------------------------- MODULE CstSearch_proofs ---------------------------
(***************************************************************************)
(* Proofs about CstSearch, for every set of well-formed files.  First what *)
(* the order of the tokens means for one comparison, then the inductive    *)
(* invariant: the clause, the argument or the node that is searched for is *)
(* always in the window, or below the node, that the search looks at.      *)
(***************************************************************************)
EXTENDS CstSearch, TLAPS

LeftTypes == {"clause", "infix", "postfix", "dict"}

\* m is at the position p, in the subtree of n
IsAt(f, p, m) == f.token[m] # None /\ Touches(p, f.token[m])
Has(f, p, n)  == \E m \in f.under[n] : IsAt(f, p, m)

\* Files are well-formed.
LEMMA FileShape ==
  ASSUME NEW f \in Files
  PROVE  /\ WellFormed(f)
         /\ IsFile(f)
         /\ AreInOrder(f)
         /\ \A n \in NodesOf(f) : IsNested(f, n) /\ IsOrdered(f, n)
  BY FilesAssumption DEF WellFormed

\* What the type of a node says about its arguments.
LEMMA ArgsShape ==
  ASSUME NEW f \in Files, NEW n \in NodesOf(f)
  PROVE  /\ f.args[n] \in Seq(NodesOf(f))
         /\ Len(f.args[n]) \in Nat
         /\ \A i \in 1..Len(f.args[n]) : f.args[n][i] \in NodesOf(f)
         /\ f.type[n] \in LeftTypes \cup {"prefix", "compound"} => 1 \in 1..Len(f.args[n])
         /\ f.type[n] \in {"clause", "prefix", "postfix"} => Len(f.args[n]) = 1
         /\ f.type[n] = "infix" => Len(f.args[n]) = 2
         /\ f.type[n] = "atomic" => Len(f.args[n]) = 0
  <1>1. IsFile(f)
    BY FileShape
  <1>2. f.args[n] \in Seq(NodesOf(f))
    BY <1>1 DEF IsFile
  <1>3. Len(f.args[n]) \in Nat /\ Len(f.args[n]) \in Arity(f.type[n])
    BY <1>1, <1>2 DEF IsFile
  <1>4. f.type[n] \in {"clause", "atomic", "compound", "prefix", "infix", "postfix", "dict"}
    BY <1>1 DEF IsFile
  <1>5. \A i \in 1..Len(f.args[n]) : f.args[n][i] \in NodesOf(f)
    BY <1>2
  <1>6. CASE f.type[n] \in {"clause", "prefix", "postfix"}
    <2>1. Len(f.args[n]) = 1
      BY <1>3, <1>6 DEF Arity
    <2>. QED
      BY <1>2, <1>5, <1>6, <2>1 DEF LeftTypes
  <1>7. CASE f.type[n] = "infix"
    <2>1. Len(f.args[n]) = 2
      BY <1>3, <1>7 DEF Arity
    <2>. QED
      BY <1>2, <1>5, <1>7, <2>1 DEF LeftTypes
  <1>8. CASE f.type[n] \in {"compound", "dict"}
    <2>1. Len(f.args[n]) \in Nat \ {0}
      BY <1>3, <1>8 DEF Arity
    <2>. QED
      BY <1>2, <1>5, <1>8, <2>1 DEF LeftTypes
  <1>9. CASE f.type[n] = "atomic"
    <2>1. Len(f.args[n]) = 0
      BY <1>3, <1>9 DEF Arity
    <2>. QED
      BY <1>2, <1>5, <1>9, <2>1 DEF LeftTypes
  <1>. QED
    BY <1>4, <1>6, <1>7, <1>8, <1>9

\* Positions, tokens and ranges are numbers and pairs of numbers.
LEMMA RangeShape ==
  ASSUME NEW f \in Files, NEW n \in NodesOf(f)
  PROVE  /\ f.range[n].start \in Nat /\ f.range[n].end \in Nat
         /\ f.range[n].start \in PositionsOf(f) /\ f.range[n].end \in PositionsOf(f)
         /\ f.range[n].start <= f.range[n].end
         /\ f.token[n] # None => f.token[n].start \in Nat /\ f.token[n].end \in Nat
  <1>1. IsFile(f) /\ IsNested(f, n)
    BY FileShape
  <1>2. f.range[n] \in Ranges(f) /\ f.token[n] \in Ranges(f) \cup {None}
    BY <1>1 DEF IsFile
  <1>3. PositionsOf(f) \subseteq Nat
    BY <1>1 DEF IsFile
  <1>. QED
    BY <1>1, <1>2, <1>3 DEF Ranges, IsNested

\* A subtree: the node, and the subtrees of its arguments.
LEMMA SubtreeShape ==
  ASSUME NEW f \in Files, NEW n \in NodesOf(f)
  PROVE  /\ n \in f.under[n]
         /\ f.under[n] \subseteq NodesOf(f)
         /\ \A i \in 1..Len(f.args[n]) : f.under[f.args[n][i]] \subseteq f.under[n]
         /\ \A m \in f.under[n] : m = n \/ \E i \in 1..Len(f.args[n]) : m \in f.under[f.args[n][i]]
         /\ \A m \in f.under[n] : f.token[m] = None => m = n
         /\ \A m \in f.under[n] : f.token[m] # None =>
               /\ f.range[n].start <= f.token[m].start
               /\ f.token[m].start <= f.token[m].end
               /\ f.token[m].end <= f.range[n].end
  <1>1. IsFile(f) /\ IsNested(f, n)
    BY FileShape
  <1>2. f.under[n] \subseteq NodesOf(f)
    BY <1>1 DEF IsFile
  <1>. QED
    BY <1>1, <1>2 DEF IsNested

\* The token of an argument is on its own side of the token of the node.
LEMMA Sides ==
  ASSUME NEW f \in Files, NEW n \in NodesOf(f), f.token[n] # None,
         NEW i \in 1..Len(f.args[n]),
         NEW m \in f.under[f.args[n][i]], f.token[m] # None
  PROVE  IF f.type[n] \in LeftTypes /\ i = 1 THEN f.token[m].end <= f.token[n].start
                                             ELSE f.token[n].end <= f.token[m].start
  <1>. DEFINE a == f.args[n][i]
  <1>1. a \in NodesOf(f)
    BY ArgsShape
  <1>2. m \in NodesOf(f)
    BY <1>1, SubtreeShape
  <1>3. f.range[a].start <= f.token[m].start /\ f.token[m].end <= f.range[a].end
    BY <1>1, SubtreeShape
  <1>4. IF f.type[n] \in LeftTypes /\ i = 1 THEN f.range[a].end <= f.token[n].start
                                            ELSE f.token[n].end <= f.range[a].start
    <2>1. IsOrdered(f, n)
      BY FileShape
    <2>. QED
      BY <2>1 DEF IsOrdered, LeftTypes
  <1>. QED
    BY <1>1, <1>2, <1>3, <1>4, RangeShape

\* On the left of the token there is at most the first argument.
LEMMA FoundOnLeft ==
  ASSUME NEW f \in Files, NEW n \in NodesOf(f), NEW p \in Nat, Has(f, p, n),
         f.token[n] # None, IsLeft(p, f.token[n])
  PROVE  f.type[n] \in LeftTypes /\ Has(f, p, f.args[n][1])
  <1>1. PICK m \in f.under[n] : IsAt(f, p, m)
    BY DEF Has
  <1>2. m \in NodesOf(f)
    BY SubtreeShape
  <1>3. m # n
    BY <1>1, RangeShape DEF IsAt, Touches
  <1>4. PICK i \in 1..Len(f.args[n]) : m \in f.under[f.args[n][i]]
    BY <1>3, SubtreeShape
  <1>5. f.type[n] \in LeftTypes /\ i = 1
    <2>1. SUFFICES ASSUME ~ (f.type[n] \in LeftTypes /\ i = 1) PROVE FALSE
      OBVIOUS
    <2>2. f.token[n].end <= f.token[m].start
      BY <1>1, <1>4, <2>1, Sides DEF IsAt
    <2>3. f.token[n].start <= f.token[n].end
      BY SubtreeShape
    <2>. QED
      BY <1>1, <1>2, <2>2, <2>3, RangeShape DEF IsAt, Touches, IsLeft
  <1>. QED
    BY <1>1, <1>4, <1>5 DEF Has

\* On the right of the token there are the other arguments.
LEMMA FoundOnRight ==
  ASSUME NEW f \in Files, NEW n \in NodesOf(f), NEW p \in Nat, Has(f, p, n),
         f.token[n] # None, IsRight(p, f.token[n])
  PROVE  \E i \in 1..Len(f.args[n]) :
            Has(f, p, f.args[n][i]) /\ ~ (f.type[n] \in LeftTypes /\ i = 1)
  <1>1. PICK m \in f.under[n] : IsAt(f, p, m)
    BY DEF Has
  <1>2. m \in NodesOf(f)
    BY SubtreeShape
  <1>3. m # n
    BY <1>1, RangeShape DEF IsAt, Touches
  <1>4. PICK i \in 1..Len(f.args[n]) : m \in f.under[f.args[n][i]]
    BY <1>3, SubtreeShape
  <1>5. ~ (f.type[n] \in LeftTypes /\ i = 1)
    <2>1. SUFFICES ASSUME f.type[n] \in LeftTypes /\ i = 1 PROVE FALSE
      OBVIOUS
    <2>2. f.token[m].end <= f.token[n].start
      BY <1>1, <1>4, <2>1, Sides DEF IsAt
    <2>3. f.token[n].start <= f.token[n].end
      BY SubtreeShape
    <2>. QED
      BY <1>1, <1>2, <2>2, <2>3, RangeShape DEF IsAt, Touches, IsRight
  <1>. QED
    BY <1>1, <1>4, <1>5 DEF Has

\* What is at the position in an argument is in the range of the argument.
LEMMA HasInRange ==
  ASSUME NEW f \in Files, NEW n \in NodesOf(f), NEW p \in Nat, Has(f, p, n)
  PROVE  f.range[n].start <= p /\ p <= f.range[n].end
  <1>1. PICK m \in f.under[n] : IsAt(f, p, m)
    BY DEF Has
  <1>2. m \in NodesOf(f)
    BY SubtreeShape
  <1>. QED
    BY <1>1, <1>2, SubtreeShape, RangeShape DEF IsAt, Touches, IsLeft, IsRight

\* One comparison of Args.search with its j-th argument, when the i-th has a
\* token at the position.
LEMMA ArgsInOrder ==
  ASSUME NEW f \in Files, NEW n \in NodesOf(f), NEW p \in Nat,
         f.type[n] \in {"compound", "dict"},
         NEW i \in 1..Len(f.args[n]), NEW j \in 1..Len(f.args[n]),
         Has(f, p, f.args[n][i])
  PROVE  LET range == f.range[f.args[n][j]]
         IN  /\ IsLeft(p, range) => i < j
             /\ IsRight(p, range) => j < i
             /\ Touches(p, range) => Has(f, p, f.args[n][j]) \/ (j = 1 /\ i = 2)
             /\ Touches(p, range) /\ j # i => Len(f.args[n]) = 2
  <1>. DEFINE arg(k) == f.range[f.args[n][k]]
  <1>0. \A k \in 1..Len(f.args[n]) : f.args[n][k] \in NodesOf(f)
    BY ArgsShape
  <1>1. \A k \in 1..Len(f.args[n]) :
          arg(k).start \in Nat /\ arg(k).end \in Nat /\ arg(k).start <= arg(k).end
    BY <1>0, RangeShape
  <1>2. arg(i).start <= p /\ p <= arg(i).end
    BY <1>0, HasInRange
  <1>3. \A k, l \in 1..Len(f.args[n]) : k < l =>
          \/ arg(k).end < arg(l).start
          \/ /\ Len(f.args[n]) = 2
             /\ arg(1).end = arg(2).start
             /\ f.token[f.args[n][2]].start = arg(2).start
    BY FileShape DEF IsOrdered
  <1>4. Len(f.args[n]) \in Nat
    BY ArgsShape
  <1>. HIDE DEF arg
  <1>5. \A k, l \in 1..Len(f.args[n]) : k < l => arg(k).end <= arg(l).start
    <2>. SUFFICES ASSUME NEW k \in 1..Len(f.args[n]), NEW l \in 1..Len(f.args[n]), k < l
                  PROVE  arg(k).end <= arg(l).start
      OBVIOUS
    <2>1. CASE arg(k).end < arg(l).start
      BY <1>1, <2>1
    <2>2. CASE Len(f.args[n]) = 2 /\ arg(1).end = arg(2).start
      <3>1. k = 1 /\ l = 2
        BY <2>2
      <3>. QED
        BY <1>1, <2>2, <3>1
    <2>. QED
      BY <1>3, <2>1, <2>2
  <1>6. IsLeft(p, arg(j)) => i < j
    BY <1>1, <1>2, <1>5 DEF IsLeft
  <1>7. IsRight(p, arg(j)) => j < i
    BY <1>1, <1>2, <1>5 DEF IsRight
  <1>8. Touches(p, arg(j)) /\ j # i => Len(f.args[n]) = 2
    BY <1>1, <1>2, <1>3 DEF Touches, IsLeft, IsRight
  <1>9. ASSUME Touches(p, arg(j)), i < j
        PROVE  Has(f, p, f.args[n][j])
    <2>0. Len(f.args[n]) = 2
      <3>1. j # i
        BY <1>9
      <3>. QED
        BY <1>8, <1>9, <3>1, Zenon
    <2>1. i = 1 /\ j = 2
      BY <1>9, <2>0
    <2>. DEFINE a == f.args[n][2]
    <2>2. f.token[a].start = arg(2).start /\ p = arg(2).start
      <3>1. arg(1).end \in Nat /\ arg(2).start \in Nat
        BY <1>1, <2>1
      <3>2. p <= arg(1).end /\ arg(2).start <= p
        BY <1>2, <1>9, <2>1, <3>1 DEF Touches, IsLeft
      <3>3. \/ arg(1).end < arg(2).start
            \/ arg(1).end = arg(2).start /\ f.token[a].start = arg(2).start
        BY <1>3, <2>1
      <3>. QED
        BY <3>1, <3>2, <3>3
    <2>3. a \in NodesOf(f) /\ a \in f.under[a]
      BY <1>0, <2>1, SubtreeShape
    <2>4. CASE f.token[a] # None
      <3>1. f.token[a].start <= f.token[a].end /\ f.token[a].start \in Nat /\ f.token[a].end \in Nat
        BY <2>3, <2>4, SubtreeShape, RangeShape
      <3>2. IsAt(f, p, a)
        BY <2>2, <2>4, <3>1 DEF IsAt, Touches, IsLeft, IsRight
      <3>. QED
        BY <2>1, <2>3, <3>2 DEF Has
    <2>5. CASE f.token[a] = None
      \* only a clause has no token, and a clause is no argument
      <3>1. a \in f.under[n]
        BY <2>1, <2>3, SubtreeShape
      <3>2. a = n
        BY <2>5, <3>1, SubtreeShape
      <3>3. f.type[a] = "clause"
        BY <2>3, <2>5, FileShape DEF IsFile
      <3>. QED
        BY <3>2, <3>3
    <2>. QED
      BY <2>4, <2>5
  <1>10. ASSUME Touches(p, arg(j)), j < i
         PROVE  j = 1 /\ i = 2
    BY <1>4, <1>8, <1>10
  <1>11. Touches(p, arg(j)) => Has(f, p, f.args[n][j]) \/ (j = 1 /\ i = 2)
    BY <1>9, <1>10
  <1>. QED
    BY <1>6, <1>7, <1>8, <1>11 DEF arg

\* Clauses follow each other, line by line.
LEMMA ClausesInOrder ==
  ASSUME NEW f \in Files, NEW i \in 1..Len(f.clauses), NEW j \in 1..Len(f.clauses), i < j
  PROVE  f.line[f.range[f.clauses[i]].end] <= f.line[f.range[f.clauses[j]].start]
  <1>1. IsFile(f) /\ AreInOrder(f)
    BY FileShape
  <1>2. f.clauses[i] \in NodesOf(f) /\ f.clauses[j] \in NodesOf(f)
    BY <1>1 DEF IsFile
  <1>3. f.range[f.clauses[i]].end <= f.range[f.clauses[j]].start
    BY <1>1 DEF AreInOrder
  <1>. QED
    BY <1>1, <1>2, <1>3, RangeShape DEF IsFile

\* A clause starts on the line it ends on, or before it.
LEMMA LinesOfClause ==
  ASSUME NEW f \in Files, NEW i \in 1..Len(f.clauses)
  PROVE  LET range == f.range[f.clauses[i]]
         IN  /\ f.line[range.start] \in Nat /\ f.line[range.end] \in Nat
             /\ f.line[range.start] <= f.line[range.end]
  <1>1. IsFile(f)
    BY FileShape
  <1>2. f.clauses[i] \in NodesOf(f)
    BY <1>1 DEF IsFile
  <1>. QED
    BY <1>1, <1>2, RangeShape DEF IsFile

--------------------------------------------------------------------------------
Clause(i) == file.clauses[i]

\* The window of a bisection is in the array, which is that of the clauses or
\* that of the arguments of a node that has them.
WindowInArray ==
  /\ method = "fileCst" => high <= Len(file.clauses)
  /\ method = "Args" => /\ file.type[node] \in {"compound", "dict"}
                        /\ high <= Len(file.args[node])

\* The clauses with text on the line are in the window.
ClausesInWindow ==
  method = "fileCst" =>
    \A i \in 1..Len(file.clauses) :
      Clause(i) \in ClausesHere => low < i /\ i <= high

\* The search goes on below a clause with text on the line.
BelowClause ==
  method \in {"node", "Args"} =>
    \E c \in ClausesHere : file.under[node] \subseteq file.under[c]

\* c is the clause the search is for: the only one on the line, and complete.
Sought(c) == ClausesHere = {c} /\ file.token[c] # None

\* What is at the position in the clause is where the search is going.
KeepsSight ==
  \A c \in ClausesHere : Sought(c) /\ Has(file, pos, c) =>
    /\ method = "node" => Has(file, pos, node)
    /\ method = "Args" => \E i \in 1..Len(file.args[node]) :
                              low < i /\ i <= high /\ Has(file, pos, file.args[node][i])
    /\ method = "return" => result # None

\* What is returned is at the position, below a clause with text on the line.
ReturnsWhatIsThere ==
  method = "return" /\ result # None =>
    \E c \in ClausesHere : result \in file.under[c] /\ IsAt(file, pos, result)

IInv ==
  /\ file \in Files
  /\ TypeOK
  /\ WindowInArray
  /\ ClausesInWindow
  /\ BelowClause
  /\ KeepsSight
  /\ ReturnsWhatIsThere

LEMMA Initially == Init => IInv
  <1>. SUFFICES ASSUME Init PROVE IInv
    OBVIOUS
  <1>1. IsFile(file)
    BY FileShape DEF Init, Start
  <1>2. TypeOK
    BY <1>1 DEF Init, Start, TypeOK, IsFile
  <1>. QED
    BY <1>2 DEF Init, Start, IInv, WindowInArray, ClausesInWindow, BelowClause, KeepsSight,
                ReturnsWhatIsThere

\* A clause with text on the line is one of the file's, and a node.
LEMMA ClausesAreNodes ==
  ASSUME file \in Files, TypeOK
  PROVE  /\ Len(file.clauses) \in Nat
         /\ \A i \in 1..Len(file.clauses) : Clause(i) \in NodesOf(file)
         /\ \A i \in 1..Len(file.clauses) : file.type[Clause(i)] = "clause"
         /\ ClausesHere \subseteq NodesOf(file)
         /\ \A c \in ClausesHere : \E i \in 1..Len(file.clauses) : c = Clause(i)
         /\ \A i \in 1..Len(file.clauses) :
               Clause(i) \in ClausesHere <=>
                 /\ Line(file.range[Clause(i)].start) <= Line(pos)
                 /\ Line(pos) <= Line(file.range[Clause(i)].end)
  <1>1. IsFile(file)
    BY FileShape
  <1>2. file.clauses \in Seq(NodesOf(file))
    BY <1>1 DEF IsFile
  <1>3. /\ Len(file.clauses) \in Nat
        /\ DOMAIN file.clauses = 1..Len(file.clauses)
        /\ \A i \in 1..Len(file.clauses) : Clause(i) \in NodesOf(file)
    BY <1>2 DEF Clause
  <1>4. ToSet(file.clauses) = {Clause(i) : i \in 1..Len(file.clauses)}
    BY <1>3 DEF ToSet, Clause
  <1>5. \A i \in 1..Len(file.clauses) : file.type[Clause(i)] = "clause"
    BY <1>1 DEF IsFile, Clause
  <1>6. ClausesHere \subseteq {Clause(i) : i \in 1..Len(file.clauses)}
    BY <1>4 DEF ClausesHere
  <1>7. Line(pos) \in Nat
    BY <1>1 DEF TypeOK, IsFile, Line
  <1>8. ASSUME NEW i \in 1..Len(file.clauses)
        PROVE  Clause(i) \in ClausesHere <=>
                 /\ Line(file.range[Clause(i)].start) <= Line(pos)
                 /\ Line(pos) <= Line(file.range[Clause(i)].end)
    <2>1. /\ Line(file.range[Clause(i)].start) \in Nat
          /\ Line(file.range[Clause(i)].end) \in Nat
      BY LinesOfClause DEF Line, Clause
    <2>2. Clause(i) \in ClausesHere <=> Line(pos) \in LinesOf(Clause(i))
      BY <1>4 DEF ClausesHere
    <2>. QED
      BY <1>7, <2>1, <2>2 DEF LinesOf
  <1>. QED
    BY <1>3, <1>5, <1>6, <1>8

\* The element a bisection looks at is in its window.
LEMMA MidInWindow ==
  ASSUME low \in Nat, high \in Nat, low < high
  PROVE  Mid \in Nat /\ low <= Mid /\ Mid < high
  BY DEF Mid

\* A new search: all clauses are in the window.
LEMMA SearchStarts == IInv /\ fileCst_search => IInv'
  <1>. SUFFICES ASSUME IInv, fileCst_search PROVE IInv'
    OBVIOUS
  <1>. USE DEF IInv, fileCst_search
  <1>1. Len(file.clauses) \in Nat
    BY ClausesAreNodes
  <1>2. TypeOK'
    BY <1>1 DEF TypeOK
  <1>3. ClausesInWindow' /\ WindowInArray'
    BY <1>1 DEF ClausesInWindow, WindowInArray
  <1>4. BelowClause' /\ KeepsSight' /\ ReturnsWhatIsThere'
    BY DEF BelowClause, KeepsSight, ReturnsWhatIsThere
  <1>. QED
    BY <1>2, <1>3, <1>4

\* A step that leaves the file and the position leaves what is asked for.
LEMMA SameQuestion ==
  ASSUME UNCHANGED <<file, pos>>
  PROVE  /\ ClausesHere' = ClausesHere
         /\ \A c : Sought(c)' = Sought(c)
         /\ \A i : Clause(i)' = Clause(i)
  BY DEF ClausesHere, LinesOf, Line, Sought, Clause

\* The bisection over lines keeps the clauses on the line in the window, and
\* enters one of them.
LEMMA LineStep == IInv /\ BisectClauses => IInv'
  <1>. SUFFICES ASSUME IInv, BisectClauses PROVE IInv'
    OBVIOUS
  <1>. USE DEF IInv
  <1>. DEFINE j == Mid + 1
              range == file.range[Clause(j)]
  <1>1. /\ method = "fileCst" /\ low < high /\ UNCHANGED <<file, pos, throwing>>
        /\ Item = Clause(j)
    BY DEF BisectClauses, Item, Items, Clause
  <1>2. low \in Nat /\ high \in Nat /\ high <= Len(file.clauses) /\ Len(file.clauses) \in Nat
    BY <1>1, ClausesAreNodes DEF TypeOK, WindowInArray
  <1>3. Mid \in Nat /\ low <= Mid /\ Mid < high /\ j \in 1..Len(file.clauses)
    BY <1>1, <1>2, MidInWindow
  <1>4. /\ Line(pos) \in Nat
        /\ \A i \in 1..Len(file.clauses) :
             /\ Line(file.range[Clause(i)].start) \in Nat
             /\ Line(file.range[Clause(i)].end) \in Nat
             /\ Line(file.range[Clause(i)].start) <= Line(file.range[Clause(i)].end)
    <2>1. Line(pos) \in Nat
      BY FileShape DEF TypeOK, IsFile, Line
    <2>. QED
      BY <2>1, LinesOfClause DEF Line, Clause
  <1>5. \A i, k \in 1..Len(file.clauses) : i < k =>
          Line(file.range[Clause(i)].end) <= Line(file.range[Clause(k)].start)
    BY ClausesInOrder DEF Line, Clause
  <1>6. \A i \in 1..Len(file.clauses) : Clause(i) \in ClausesHere =>
          /\ low < i /\ i <= high
          /\ Line(file.range[Clause(i)].start) <= Line(pos)
          /\ Line(pos) <= Line(file.range[Clause(i)].end)
    BY <1>1, ClausesAreNodes DEF ClausesInWindow
  <1>7. ClausesHere' = ClausesHere /\ (\A i : Clause(i)' = Clause(i)) /\ \A c : Sought(c)' = Sought(c)
    BY <1>1, SameQuestion
  <1>8. CASE LineIsLeft(range) /\ GoLeft
    <2>. HIDE DEF j, range
    <2>1. \A i \in 1..Len(file.clauses) : Clause(i) \in ClausesHere => i < j
      BY <1>3, <1>4, <1>5, <1>6, <1>8 DEF LineIsLeft, range
    <2>2. high' = Mid /\ UNCHANGED <<low, method, node, result>>
      BY <1>8 DEF GoLeft
    <2>3. ClausesInWindow'
      BY <1>1, <1>3, <1>6, <1>7, <2>1, <2>2 DEF ClausesInWindow, j
    <2>4. TypeOK' /\ WindowInArray'
      BY <1>1, <1>2, <1>3, <2>2 DEF TypeOK, WindowInArray
    <2>5. BelowClause' /\ KeepsSight' /\ ReturnsWhatIsThere'
      BY <1>1, <2>2 DEF BelowClause, KeepsSight, ReturnsWhatIsThere
    <2>. QED
      BY <1>1, <2>3, <2>4, <2>5
  <1>9. CASE LineIsRight(range) /\ GoRight
    <2>. HIDE DEF j, range
    <2>1. \A i \in 1..Len(file.clauses) : Clause(i) \in ClausesHere => j < i
      <3>. SUFFICES ASSUME NEW i \in 1..Len(file.clauses), Clause(i) \in ClausesHere, ~ (j < i)
                    PROVE  FALSE
        OBVIOUS
      <3>1. Line(file.range[Clause(j)].end) < Line(pos) /\ Line(pos) <= Line(file.range[Clause(i)].end)
        BY <1>6, <1>9 DEF LineIsRight, range
      <3>2. CASE i = j
        BY <1>4, <3>1, <3>2
      <3>3. CASE i < j
        <4>1. Line(file.range[Clause(i)].end) <= Line(file.range[Clause(j)].start)
          BY <1>3, <1>5, <3>3
        <4>. QED
          BY <1>3, <1>4, <3>1, <4>1
      <3>. QED
        BY <1>3, <3>2, <3>3
    <2>2. low' = j /\ UNCHANGED <<high, method, node, result>>
      BY <1>9 DEF GoRight, j
    <2>3. ClausesInWindow'
      BY <1>1, <1>3, <1>6, <1>7, <2>1, <2>2 DEF ClausesInWindow
    <2>4. TypeOK' /\ WindowInArray'
      BY <1>1, <1>2, <1>3, <2>2 DEF TypeOK, WindowInArray
    <2>5. BelowClause' /\ KeepsSight' /\ ReturnsWhatIsThere'
      BY <1>1, <2>2 DEF BelowClause, KeepsSight, ReturnsWhatIsThere
    <2>. QED
      BY <1>1, <2>3, <2>4, <2>5
  <1>10. CASE ~ LineIsLeft(range) /\ ~ LineIsRight(range) /\ SearchNode(Clause(j))
    <2>1. Clause(j) \in ClausesHere /\ Clause(j) \in NodesOf(file)
      BY <1>3, <1>4, <1>10, ClausesAreNodes DEF LineIsLeft, LineIsRight
    <2>. HIDE DEF j, range
    <2>2. method' = "node" /\ node' = Clause(j) /\ UNCHANGED <<low, high, result>>
      BY <1>10 DEF SearchNode
    <2>3. TypeOK'
      BY <1>1, <2>1, <2>2, FileShape DEF TypeOK, IsFile
    <2>4. WindowInArray' /\ ClausesInWindow' /\ ReturnsWhatIsThere'
      BY <2>2 DEF WindowInArray, ClausesInWindow, ReturnsWhatIsThere
    <2>5. BelowClause'
      BY <1>1, <1>7, <2>1, <2>2 DEF BelowClause
    <2>6. KeepsSight'
      <3>1. \A c : Sought(c) => c = Clause(j)
        BY <2>1 DEF Sought
      <3>. QED
        BY <1>1, <1>7, <2>2, <3>1 DEF KeepsSight
    <2>. QED
      BY <1>1, <2>3, <2>4, <2>5, <2>6
  <1>. QED
    BY <1>1, <1>8, <1>9, <1>10 DEF BisectClauses

\* The bisection of arguments keeps an argument that has a token at the position
\* in the window, and enters one that has.
LEMMA ArgStep == IInv /\ BisectArgs => IInv'
  <1>. SUFFICES ASSUME IInv, BisectArgs PROVE IInv'
    OBVIOUS
  <1>. USE DEF IInv
  <1>. DEFINE j == Mid + 1
              a == file.args[node][j]
              range == file.range[a]
              Seen(i) == low < i /\ i <= high /\ Has(file, pos, file.args[node][i])
  <1>1. /\ method = "Args" /\ low < high /\ UNCHANGED <<file, pos, throwing>>
        /\ Item = a
    BY DEF BisectArgs, Item, Items
  <1>2. node \in NodesOf(file) /\ pos \in Nat
    BY <1>1, FileShape DEF TypeOK, IsFile
  <1>3. /\ low \in Nat /\ high \in Nat /\ high <= Len(file.args[node])
        /\ Len(file.args[node]) \in Nat /\ file.type[node] \in {"compound", "dict"}
    BY <1>1, <1>2, ArgsShape DEF TypeOK, WindowInArray
  <1>4. Mid \in Nat /\ low <= Mid /\ Mid < high /\ j \in 1..Len(file.args[node])
    BY <1>1, <1>3, MidInWindow
  <1>5. a \in NodesOf(file)
    BY <1>2, <1>4, ArgsShape
  <1>6. ClausesHere' = ClausesHere /\ \A c : Sought(c)' = Sought(c)
    BY <1>1, SameQuestion
  <1>7. \A c \in ClausesHere : Sought(c) /\ Has(file, pos, c) =>
          \E i \in 1..Len(file.args[node]) : Seen(i)
    BY <1>1 DEF KeepsSight
  <1>8. ASSUME NEW i \in 1..Len(file.args[node]), Seen(i)
        PROVE  /\ IsLeft(pos, range) => i < j
               /\ IsRight(pos, range) => j < i
               /\ Touches(pos, range) => Has(file, pos, a)
    <2>1. /\ IsLeft(pos, range) => i < j
          /\ IsRight(pos, range) => j < i
          /\ Touches(pos, range) => Has(file, pos, a) \/ (j = 1 /\ i = 2)
          /\ Touches(pos, range) /\ j # i => Len(file.args[node]) = 2
      BY <1>2, <1>3, <1>4, <1>8, ArgsInOrder
    <2>2. ~ (j = 1 /\ i = 2)
      BY <1>3, <1>8 DEF Mid
    <2>. QED
      BY <2>1, <2>2
  <1>. HIDE DEF j, a, range, Seen
  <1>9. CASE IsLeft(pos, range) /\ GoLeft
    <2>1. high' = Mid /\ UNCHANGED <<low, method, node, result>>
      BY <1>9 DEF GoLeft
    <2>2. \A i \in 1..Len(file.args[node]) : Seen(i) => low < i /\ i <= Mid /\ Has(file, pos, file.args[node][i])
      BY <1>4, <1>8, <1>9 DEF Seen, j
    <2>3. KeepsSight'
      BY <1>1, <1>6, <1>7, <2>1, <2>2 DEF KeepsSight
    <2>4. TypeOK' /\ WindowInArray'
      BY <1>1, <1>3, <1>4, <2>1 DEF TypeOK, WindowInArray
    <2>5. BelowClause' /\ ClausesInWindow' /\ ReturnsWhatIsThere'
      BY <1>1, <1>6, <2>1 DEF BelowClause, ClausesInWindow, ReturnsWhatIsThere
    <2>. QED
      BY <1>1, <2>3, <2>4, <2>5
  <1>10. CASE IsRight(pos, range) /\ GoRight
    <2>1. low' = j /\ UNCHANGED <<high, method, node, result>>
      BY <1>10 DEF GoRight, j
    <2>2. \A i \in 1..Len(file.args[node]) : Seen(i) => j < i /\ i <= high /\ Has(file, pos, file.args[node][i])
      BY <1>8, <1>10 DEF Seen
    <2>3. KeepsSight'
      BY <1>1, <1>6, <1>7, <2>1, <2>2 DEF KeepsSight
    <2>4. TypeOK' /\ WindowInArray'
      BY <1>1, <1>3, <1>4, <2>1 DEF TypeOK, WindowInArray
    <2>5. BelowClause' /\ ClausesInWindow' /\ ReturnsWhatIsThere'
      BY <1>1, <1>6, <2>1 DEF BelowClause, ClausesInWindow, ReturnsWhatIsThere
    <2>. QED
      BY <1>1, <2>3, <2>4, <2>5
  <1>11. CASE Touches(pos, range) /\ SearchNode(a)
    <2>1. method' = "node" /\ node' = a /\ UNCHANGED <<low, high, result>>
      BY <1>11 DEF SearchNode
    <2>2. \A i \in 1..Len(file.args[node]) : Seen(i) => Has(file, pos, a)
      BY <1>8, <1>11
    <2>3. KeepsSight'
      BY <1>1, <1>6, <1>7, <2>1, <2>2 DEF KeepsSight
    <2>4. TypeOK' /\ WindowInArray'
      BY <1>1, <1>3, <1>5, <2>1, FileShape DEF TypeOK, WindowInArray, IsFile
    <2>5. ClausesInWindow' /\ ReturnsWhatIsThere'
      BY <2>1 DEF ClausesInWindow, ReturnsWhatIsThere
    <2>6. BelowClause'
      <3>1. file.under[a] \subseteq file.under[node]
        BY <1>2, <1>4, SubtreeShape DEF a
      <3>2. PICK c \in ClausesHere : file.under[node] \subseteq file.under[c]
        BY <1>1 DEF BelowClause
      <3>. QED
        BY <1>1, <1>6, <2>1, <3>1, <3>2 DEF BelowClause
    <2>. QED
      BY <1>1, <2>3, <2>4, <2>5, <2>6
  <1>. QED
    BY <1>1, <1>9, <1>10, <1>11 DEF BisectArgs, range

\* A window that is empty has nothing that is sought.
LEMMA EmptyStep == IInv /\ NothingLeft => IInv'
  <1>. SUFFICES ASSUME IInv, NothingLeft PROVE IInv'
    OBVIOUS
  <1>. USE DEF IInv
  <1>1. /\ method \in {"fileCst", "Args"} /\ low >= high /\ UNCHANGED <<file, pos, throwing>>
        /\ method' = "return" /\ result' = None /\ node' = None /\ UNCHANGED <<low, high>>
    BY DEF NothingLeft, Return
  <1>2. ClausesHere' = ClausesHere /\ \A c : Sought(c)' = Sought(c)
    BY <1>1, SameQuestion
  <1>3. TypeOK' /\ WindowInArray' /\ ClausesInWindow' /\ BelowClause' /\ ReturnsWhatIsThere'
    BY <1>1 DEF TypeOK, WindowInArray, ClausesInWindow, BelowClause, ReturnsWhatIsThere
  <1>4. ASSUME NEW c \in ClausesHere, Sought(c), Has(file, pos, c) PROVE FALSE
    <2>1. low \in Nat /\ high \in Nat
      BY DEF TypeOK
    <2>2. CASE method = "fileCst"
      <3>1. PICK i \in 1..Len(file.clauses) : c = Clause(i)
        BY ClausesAreNodes
      <3>2. low < i /\ i <= high
        BY <2>2, <3>1 DEF ClausesInWindow
      <3>. QED
        BY <1>1, <2>1, <3>2
    <2>3. CASE method = "Args"
      <3>1. PICK i \in 1..Len(file.args[node]) : low < i /\ i <= high
        BY <1>4, <2>3 DEF KeepsSight
      <3>. QED
        BY <1>1, <2>1, <3>1
    <2>. QED
      BY <1>1, <2>2, <2>3
  <1>5. KeepsSight'
    BY <1>1, <1>2, <1>4 DEF KeepsSight
  <1>. QED
    BY <1>1, <1>3, <1>5

\* From a node the search goes on to an argument of it: what has to be shown.
LEMMA Descends ==
  ASSUME IInv, method = "node", UNCHANGED <<file, pos>>,
         NEW i \in 1..Len(file.args[node]), SearchNode(file.args[node][i]),
         throwing' \in BOOLEAN,
         Has(file, pos, node) => Has(file, pos, file.args[node][i])
  PROVE  IInv'
  <1>. USE DEF IInv
  <1>. DEFINE a == file.args[node][i]
  <1>1. method' = "node" /\ node' = a /\ UNCHANGED <<low, high, result>>
    BY DEF SearchNode
  <1>2. node \in NodesOf(file)
    BY DEF TypeOK
  <1>3. a \in NodesOf(file) /\ a # None
    BY <1>2, ArgsShape, FileShape DEF IsFile
  <1>4. ClausesHere' = ClausesHere /\ \A c : Sought(c)' = Sought(c)
    BY SameQuestion
  <1>5. file.under[a] \subseteq file.under[node]
    BY <1>2, SubtreeShape
  <1>6. PICK c \in ClausesHere : file.under[node] \subseteq file.under[c]
    BY DEF BelowClause
  <1>7. Has(file, pos, node) => Has(file, pos, a)
    OBVIOUS
  <1>. HIDE DEF a
  <1>8. TypeOK' /\ WindowInArray' /\ ClausesInWindow' /\ ReturnsWhatIsThere'
    BY <1>1, <1>3 DEF TypeOK, WindowInArray, ClausesInWindow, ReturnsWhatIsThere
  <1>9. BelowClause'
    BY <1>1, <1>4, <1>5, <1>6 DEF BelowClause
  <1>10. KeepsSight'
    BY <1>1, <1>4, <1>7 DEF KeepsSight
  <1>. QED
    BY <1>8, <1>9, <1>10

\* From a node the search returns undefined: there must be nothing sought in it.
LEMMA GivesUp ==
  ASSUME IInv, method = "node", UNCHANGED <<file, pos>>, Return(None), throwing' \in BOOLEAN,
         \A c \in ClausesHere : Sought(c) => ~ Has(file, pos, node)
  PROVE  IInv'
  <1>. USE DEF IInv
  <1>1. method' = "return" /\ result' = None /\ node' = None /\ UNCHANGED <<low, high>>
    BY DEF Return
  <1>2. ClausesHere' = ClausesHere /\ \A c : Sought(c)' = Sought(c)
    BY SameQuestion
  <1>3. TypeOK' /\ WindowInArray' /\ ClausesInWindow' /\ BelowClause' /\ ReturnsWhatIsThere'
    BY <1>1 DEF TypeOK, WindowInArray, ClausesInWindow, BelowClause, ReturnsWhatIsThere
  <1>4. KeepsSight'
    BY <1>1, <1>2 DEF KeepsSight
  <1>. QED
    BY <1>3, <1>4

\* The comparison with the token of a node.
LEMMA NodeStep == IInv /\ checkFunctorRange => IInv'
  <1>. SUFFICES ASSUME IInv, checkFunctorRange PROVE IInv'
    OBVIOUS
  <1>1. /\ method = "node" /\ UNCHANGED <<file, pos>> /\ throwing' \in BOOLEAN
    BY DEF checkFunctorRange, IInv, TypeOK, Throws
  <1>2. file \in Files /\ node \in NodesOf(file) /\ pos \in Nat
    BY <1>1, FileShape DEF IInv, TypeOK, IsFile
  <1>3. file.type[node] \in {"clause", "atomic", "compound", "prefix", "infix", "postfix", "dict"}
    BY <1>2, FileShape DEF IsFile
  <1>4. CASE Token = None /\ Return(None)
    <2>1. ASSUME NEW c \in ClausesHere, Sought(c) PROVE ~ Has(file, pos, node)
      <3>1. file.under[node] \subseteq file.under[c]
        BY <1>1, <2>1 DEF IInv, BelowClause, Sought
      <3>2. c \in NodesOf(file)
        BY <1>2, ClausesAreNodes DEF IInv
      <3>3. node = c
        BY <1>2, <1>4, <3>1, <3>2, SubtreeShape DEF Token
      <3>. QED
        BY <1>4, <2>1, <3>3 DEF Token, Sought
    <2>. QED
      BY <1>1, <1>4, <2>1, GivesUp
  <1>5. CASE Token # None /\ IsLeft(pos, Token) /\ SearchLeft
    <2>1. Has(file, pos, node) => file.type[node] \in LeftTypes /\ Has(file, pos, file.args[node][1])
      BY <1>2, <1>5, FoundOnLeft DEF Token
    <2>2. CASE file.type[node] \in LeftTypes
      <3>1. SearchNode(file.args[node][1])
        BY <1>5, <2>2 DEF SearchLeft, LeftTypes
      <3>2. 1 \in 1..Len(file.args[node])
        BY <1>2, <2>2, ArgsShape
      <3>. QED
        BY <1>1, <2>1, <3>1, <3>2, Descends
    <2>3. CASE file.type[node] \notin LeftTypes
      <3>1. Return(None)
        BY <1>5, <2>3 DEF SearchLeft, LeftTypes
      <3>. QED
        BY <1>1, <2>1, <2>3, <3>1, GivesUp
    <2>. QED
      BY <2>2, <2>3
  <1>6. CASE Token # None /\ IsRight(pos, Token) /\ SearchRight
    <2>1. Has(file, pos, node) =>
            \E i \in 1..Len(file.args[node]) :
              Has(file, pos, file.args[node][i]) /\ ~ (file.type[node] \in LeftTypes /\ i = 1)
      BY <1>2, <1>6, FoundOnRight DEF Token
    <2>2. CASE file.type[node] = "prefix"
      <3>1. SearchNode(file.args[node][1])
        BY <1>6, <2>2 DEF SearchRight
      <3>2. Len(file.args[node]) = 1
        BY <1>2, <2>2, ArgsShape
      <3>3. Has(file, pos, node) => Has(file, pos, file.args[node][1])
        BY <2>1, <3>2
      <3>. QED
        BY <1>1, <3>1, <3>2, <3>3, Descends
    <2>3. CASE file.type[node] = "infix"
      <3>1. SearchNode(file.args[node][2])
        BY <1>6, <2>3 DEF SearchRight
      <3>2. Len(file.args[node]) = 2
        BY <1>2, <2>3, ArgsShape
      <3>3. Has(file, pos, node) => Has(file, pos, file.args[node][2])
        BY <2>1, <2>3, <3>2 DEF LeftTypes
      <3>. QED
        BY <1>1, <3>1, <3>2, <3>3, Descends
    <2>4. CASE file.type[node] \in {"atomic", "clause", "postfix"}
      <3>1. Return(None)
        BY <1>6, <2>4 DEF SearchRight
      <3>2. ~ Has(file, pos, node)
        <4>1. Len(file.args[node]) = IF file.type[node] = "atomic" THEN 0 ELSE 1
          BY <1>2, <2>4, ArgsShape
        <4>. QED
          BY <2>1, <2>4, <4>1 DEF LeftTypes
      <3>. QED
        BY <1>1, <3>1, <3>2, GivesUp
    <2>5. CASE file.type[node] \in {"compound", "dict"}
      <3>1. /\ method' = "Args" /\ node' = node /\ UNCHANGED result
            /\ low' = 0 /\ high' = Len(file.args[node])
        BY <1>6, <2>5 DEF SearchRight, SearchArgs
      <3>2. Len(file.args[node]) \in Nat
        BY <1>2, ArgsShape
      <3>3. ClausesHere' = ClausesHere /\ \A c : Sought(c)' = Sought(c)
        BY <1>1, SameQuestion
      <3>4. TypeOK' /\ WindowInArray'
        BY <1>1, <1>2, <2>5, <3>1, <3>2 DEF IInv, TypeOK, WindowInArray
      <3>5. ClausesInWindow' /\ ReturnsWhatIsThere'
        BY <3>1 DEF ClausesInWindow, ReturnsWhatIsThere
      <3>6. BelowClause'
        BY <1>1, <3>1, <3>3 DEF IInv, BelowClause
      <3>7. Has(file, pos, node) =>
              \E i \in 1..Len(file.args[node]) :
                0 < i /\ i <= Len(file.args[node]) /\ Has(file, pos, file.args[node][i])
        BY <2>1, <3>2
      <3>8. \A c \in ClausesHere : Sought(c) /\ Has(file, pos, c) => Has(file, pos, node)
        BY <1>1 DEF IInv, KeepsSight
      <3>9. KeepsSight'
        BY <1>1, <3>1, <3>3, <3>7, <3>8 DEF KeepsSight
      <3>. QED
        BY <1>1, <3>4, <3>5, <3>6, <3>9 DEF IInv
    <2>. QED
      BY <1>3, <2>2, <2>3, <2>4, <2>5
  <1>7. CASE Token # None /\ Touches(pos, Token) /\ Return(node)
    <2>1. method' = "return" /\ result' = node /\ node' = None /\ UNCHANGED <<low, high>>
      BY <1>7 DEF Return
    <2>2. ClausesHere' = ClausesHere /\ \A c : Sought(c)' = Sought(c)
      BY <1>1, SameQuestion
    <2>3. node # None
      BY <1>2, FileShape DEF IsFile
    <2>4. TypeOK' /\ WindowInArray' /\ ClausesInWindow' /\ BelowClause' /\ KeepsSight'
      BY <1>1, <1>2, <2>1, <2>3
         DEF IInv, TypeOK, WindowInArray, ClausesInWindow, BelowClause, KeepsSight
    <2>5. PICK c \in ClausesHere : file.under[node] \subseteq file.under[c]
      BY <1>1 DEF IInv, BelowClause
    <2>6. node \in file.under[c] /\ IsAt(file, pos, node)
      BY <1>2, <1>7, <2>5, SubtreeShape DEF IsAt, Token
    <2>7. ReturnsWhatIsThere'
      BY <1>1, <2>1, <2>2, <2>6 DEF ReturnsWhatIsThere
    <2>. QED
      BY <1>1, <2>4, <2>7 DEF IInv
  <1>. QED
    BY <1>4, <1>5, <1>6, <1>7 DEF checkFunctorRange

LEMMA Inductive == IInv /\ [Next]_vars => IInv'
  <1>1. IInv /\ UNCHANGED vars => IInv'
    BY DEF vars, IInv, TypeOK, WindowInArray, ClausesInWindow, BelowClause, KeepsSight,
           ReturnsWhatIsThere, Sought, ClausesHere, LinesOf, Line, Clause
  <1>. QED
    BY <1>1, SearchStarts, LineStep, ArgStep, EmptyStep, NodeStep DEF Next, Step

(***************************************************************************)
(* The types of the search: in particular the window stays in the array,   *)
(* and the node searched in is a node of the file.                         *)
(***************************************************************************)
THEOREM TypeCorrect == Spec => []TypeOK
  <1>1. IInv => TypeOK
    BY DEF IInv
  <1>. QED
    BY <1>1, Initially, Inductive, PTL DEF Spec

\* The two parts of the invariant that are about what a search returns.
LEMMA FindsIt == IInv => FindsWhatIsThere
  <1>. SUFFICES ASSUME IInv, method = "return" 
                PROVE  /\ ClausesHere = {} => result = None
                       /\ \A c \in ClausesHere :
                            ClausesHere = {c} /\ file.token[c] # None =>
                              IF TouchedIn(c) = {} THEN result = None ELSE result \in TouchedIn(c)
    BY DEF FindsWhatIsThere
  <1>1. result # None =>
          \E c \in ClausesHere : result \in file.under[c] /\ IsAt(file, pos, result)
    BY DEF IInv, ReturnsWhatIsThere
  <1>2. \A c : TouchedIn(c) = {m \in file.under[c] : IsAt(file, pos, m)}
    BY DEF TouchedIn, IsAt
  <1>3. ASSUME NEW c \in ClausesHere, ClausesHere = {c}, file.token[c] # None
        PROVE  IF TouchedIn(c) = {} THEN result = None ELSE result \in TouchedIn(c)
    <2>1. result # None => result \in TouchedIn(c)
      BY <1>1, <1>2, <1>3
    <2>2. TouchedIn(c) # {} => Has(file, pos, c)
      BY <1>2 DEF Has
    <2>3. Has(file, pos, c) => result # None
      BY <1>3 DEF IInv, KeepsSight, Sought
    <2>. QED
      BY <2>1, <2>2, <2>3
  <1>. QED
    BY <1>1, <1>3

(***************************************************************************)
(* In every well-formed file, fileCst.search finds what is at a position   *)
(* of a clause that is complete and has its lines for itself, and nothing  *)
(* where nothing is.                                                       *)
(***************************************************************************)
THEOREM SearchIsCorrect == Spec => []FindsWhatIsThere
  BY FindsIt, Initially, Inductive, PTL DEF Spec

--------------------------------------------------------------------------------
(* The search of one position comes to an end. *)

\* What is left to be searched gets less: a clause is entered, or a smaller window of
\* the array, or the arguments of the node after its token, or what is below a node
\* without the node itself.
Narrows ==
  \/ method' = "return"
  \/ method = "fileCst" /\ method' = "node"
  \/ method' = method /\ node' = node /\ high' - low' \in 0..(high - low - 1)
  \/ method = "node" /\ method' = "Args" /\ node' = node
  \/ method' = "node" /\ file.under[node'] \subseteq file.under[node] \ {node}

\* A step to an argument leaves the node it is an argument of behind.
LEMMA ArgIsBelow ==
  ASSUME IInv, node # None, UNCHANGED file,
         NEW i \in 1..Len(file.args[node]), SearchNode(file.args[node][i])
  PROVE  Narrows
  <1>1. node \in NodesOf(file) /\ IsNested(file, node)
    BY FileShape DEF IInv, TypeOK
  <1>2. file.under[file.args[node][i]] \subseteq file.under[node]
    BY <1>1, SubtreeShape DEF IInv
  <1>3. node \notin file.under[file.args[node][i]]
    BY <1>1 DEF IsNested
  <1>. QED
    BY <1>2, <1>3 DEF SearchNode, Narrows

\* A step of a bisection.
LEMMA WindowNarrows ==
  ASSUME IInv, low < high, GoLeft \/ GoRight
  PROVE  Narrows
  <1>1. low \in Nat /\ high \in Nat
    BY DEF IInv, TypeOK
  <1>2. Mid \in Nat /\ low <= Mid /\ Mid < high
    BY <1>1, MidInWindow
  <1>3. high' - low' \in 0..(high - low - 1)
    BY <1>1, <1>2 DEF GoLeft, GoRight
  <1>. QED
    BY <1>3 DEF GoLeft, GoRight, Narrows

LEMMA EveryStepNarrows ==
  ASSUME IInv, Step
  PROVE  Narrows
  <1>1. CASE BisectClauses
    <2>1. CASE GoLeft \/ GoRight
      BY <1>1, <2>1, WindowNarrows DEF BisectClauses
    <2>2. CASE SearchNode(Item)
      BY <1>1, <2>2 DEF BisectClauses, SearchNode, Narrows
    <2>. QED
      BY <1>1, <2>1, <2>2 DEF BisectClauses
  <1>2. CASE BisectArgs
    <2>1. CASE GoLeft \/ GoRight
      BY <1>2, <2>1, WindowNarrows DEF BisectArgs
    <2>2. CASE SearchNode(Item)
      <3>1. /\ method = "Args" /\ low < high /\ UNCHANGED file
            /\ Item = file.args[node][Mid + 1]
        BY <1>2 DEF BisectArgs, Item, Items
      <3>2. /\ node # None /\ node \in NodesOf(file) /\ low \in Nat /\ high \in Nat
            /\ high <= Len(file.args[node])
        BY <3>1 DEF IInv, TypeOK, WindowInArray
      <3>3. Mid \in Nat /\ Mid < high
        BY <3>1, <3>2, MidInWindow
      <3>4. Len(file.args[node]) \in Nat
        BY <3>2, ArgsShape DEF IInv
      <3>5. Mid + 1 \in 1..Len(file.args[node])
        BY <3>2, <3>3, <3>4
      <3>. QED
        BY <2>2, <3>1, <3>2, <3>5, ArgIsBelow
    <2>. QED
      BY <1>2, <2>1, <2>2 DEF BisectArgs
  <1>3. CASE NothingLeft
    BY <1>3 DEF NothingLeft, Return, Narrows
  <1>4. CASE checkFunctorRange
    <2>1. /\ method = "node" /\ UNCHANGED file
          /\ file \in Files /\ node \in NodesOf(file) /\ node # None
      BY <1>4 DEF checkFunctorRange, IInv, TypeOK
    <2>2. CASE \E i \in 1..Len(file.args[node]) : SearchNode(file.args[node][i])
      BY <2>1, <2>2, ArgIsBelow
    <2>3. CASE \E value : Return(value)
      BY <2>3 DEF Return, Narrows
    <2>4. CASE SearchArgs(node)
      BY <2>1, <2>4 DEF SearchArgs, Narrows
    <2>5. CASE SearchLeft
      <3>1. CASE file.type[node] \in LeftTypes
        <4>1. 1 \in 1..Len(file.args[node])
          BY <2>1, <3>1, ArgsShape
        <4>. QED
          BY <2>2, <2>5, <3>1, <4>1 DEF SearchLeft, LeftTypes
      <3>2. CASE file.type[node] \notin LeftTypes
        BY <2>3, <2>5, <3>2 DEF SearchLeft, LeftTypes
      <3>. QED
        BY <3>1, <3>2
    <2>6. CASE SearchRight
      <3>1. file.type[node] \in {"clause", "atomic", "compound", "prefix", "infix",
                                 "postfix", "dict"}
        BY <2>1, FileShape DEF IsFile
      <3>2. CASE file.type[node] \in {"compound", "dict"}
        BY <2>4, <2>6, <3>2 DEF SearchRight
      <3>3. CASE file.type[node] = "prefix"
        <4>1. 1 \in 1..Len(file.args[node])
          BY <2>1, <3>3, ArgsShape
        <4>. QED
          BY <2>2, <2>6, <3>3, <4>1 DEF SearchRight
      <3>4. CASE file.type[node] = "infix"
        <4>1. Len(file.args[node]) = 2
          BY <2>1, <3>4, ArgsShape
        <4>2. 2 \in 1..Len(file.args[node])
          BY <4>1
        <4>. QED
          BY <2>2, <2>6, <3>4, <4>2 DEF SearchRight
      <3>5. CASE file.type[node] \in {"atomic", "clause", "postfix"}
        BY <2>3, <2>6, <3>5 DEF SearchRight
      <3>. QED
        BY <3>1, <3>2, <3>3, <3>4, <3>5
    <2>. QED
      BY <1>4, <2>3, <2>5, <2>6 DEF checkFunctorRange
  <1>. QED
    BY <1>1, <1>2, <1>3, <1>4 DEF Step

(***************************************************************************)
(* No step of a search leaves it where it was: the window of a bisection   *)
(* shrinks (GoRight drops the element it looked at), and a node that was   *)
(* left for an argument is not met again.  A file has finitely many nodes, *)
(* so no search of it goes on for ever.                                    *)
(***************************************************************************)
THEOREM EverySearchNarrows == Spec => [][Step => Narrows]_vars
  <1>1. IInv /\ [Next]_vars => [Step => Narrows]_vars
    BY EveryStepNarrows
  <1>. QED
    BY <1>1, Initially, Inductive, PTL DEF Spec

================================================================================
