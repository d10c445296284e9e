------------------------------- MODULE CstSearch -------------------------------
(***************************************************************************)
(* The search of cst2.ts: fileCst.search finds the clause a position is in *)
(* by bisection over lines, Args.search an argument by bisection over      *)
(* ranges, and the search of a node compares the position with the node's  *)
(* own token (checkFunctorRange) and goes on to its left or right part.    *)
(* Every call but the one in postfix_compound is a tail call, so a search  *)
(* is one activation at a time.                                            *)
(*                                                                         *)
(* A position is the number of its character in the text; which line it is *)
(* on is a function of it.  A file gives for each node what the            *)
(* constructors of cst2.ts computed.                                       *)
(***************************************************************************)
EXTENDS Integers, Sequences, SequencesExt

CONSTANTS
    Files,   \* the parsed files a search may be made in
    None     \* undefined

(***************************************************************************)
(* A parsed file:                                                          *)
(*   clauses  the clauses, in the order of the text                        *)
(*   type     of a node: "clause", "atomic", "compound" (lists too),       *)
(*            "prefix", "infix", "postfix", "dict"                         *)
(*   token    the range of its own token; None for a clause without end    *)
(*   range    its getRange()                                               *)
(*   args     its arguments; the term of a clause                          *)
(*   under    it and everything below it                                   *)
(*   line     the line of each position of the text                        *)
(***************************************************************************)
NodesOf(f)     == DOMAIN f.type
PositionsOf(f) == DOMAIN f.line

Ranges(f) == [start : PositionsOf(f), end : PositionsOf(f)]

Arity(type) ==
    CASE type = "atomic"                          -> {0}
      [] type \in {"clause", "prefix", "postfix"} -> {1}
      [] type = "infix"                           -> {2}
      [] type \in {"compound", "dict"}            -> Nat \ {0}

(***************************************************************************)
(* What the shape of a file is, and that the parts of a node follow each   *)
(* other in the text: a token ends before, or where, the next one starts.  *)
(***************************************************************************)
IsFile(f) ==
    /\ None \notin NodesOf(f)
    /\ IsFiniteSet(NodesOf(f))
    /\ 0 \in PositionsOf(f) /\ PositionsOf(f) \subseteq Nat
    /\ f.clauses \in Seq(NodesOf(f))
    /\ f.range \in [NodesOf(f) -> Ranges(f)]
    /\ f.token \in [NodesOf(f) -> Ranges(f) \cup {None}]
    /\ f.args \in [NodesOf(f) -> Seq(NodesOf(f))]
    /\ f.under \in [NodesOf(f) -> SUBSET NodesOf(f)]
    /\ f.line \in [PositionsOf(f) -> Nat]
    /\ \A p, q \in PositionsOf(f) : p <= q => f.line[p] <= f.line[q]
    /\ \A n \in NodesOf(f) :
          /\ f.type[n] \in {"clause", "atomic", "compound", "prefix", "infix",
                            "postfix", "dict"}
          /\ Len(f.args[n]) \in Arity(f.type[n])
          /\ f.token[n] = None => f.type[n] = "clause"
    /\ \A i \in 1..Len(f.clauses) : f.type[f.clauses[i]] = "clause"

\* n's subtree is n and the subtrees of its arguments, which n is in none of, inside
\* its range
IsNested(f, n) ==
    /\ f.range[n].start <= f.range[n].end
    /\ f.under[n] = {n} \cup UNION {f.under[f.args[n][i]] : i \in 1..Len(f.args[n])}
    /\ \A i \in 1..Len(f.args[n]) : n \notin f.under[f.args[n][i]]
    /\ \A m \in f.under[n] :
          IF f.token[m] = None THEN m = n
          ELSE /\ f.range[n].start <= f.token[m].start
               /\ f.token[m].start <= f.token[m].end
               /\ f.token[m].end <= f.range[n].end

\* the arguments on the left of n's token end before it, those on the right
\* start after it; arguments that are bisected share no position, except that an
\* item of a list may end where the token of its rest starts
IsOrdered(f, n) ==
    LET arg(i) == f.range[f.args[n][i]]
        onLeft == IF f.type[n] \in {"clause", "infix", "postfix", "dict"} THEN {1} ELSE {}
    IN  /\ f.token[n] # None => \A i \in 1..Len(f.args[n]) :
              IF i \in onLeft THEN arg(i).end <= f.token[n].start
                              ELSE f.token[n].end <= arg(i).start
        /\ f.type[n] \in {"compound", "dict"} =>
              \A i, j \in 1..Len(f.args[n]) : i < j =>
                  \/ arg(i).end < arg(j).start
                  \/ /\ Len(f.args[n]) = 2
                     /\ arg(1).end = arg(2).start
                     /\ f.token[f.args[n][2]].start = arg(2).start

\* the text of a clause ends before the next one's starts
AreInOrder(f) ==
    \A i, j \in 1..Len(f.clauses) : i < j =>
        f.range[f.clauses[i]].end <= f.range[f.clauses[j]].start

WellFormed(f) ==
    /\ IsFile(f)
    /\ AreInOrder(f)
    /\ \A n \in NodesOf(f) : IsNested(f, n) /\ IsOrdered(f, n)

ASSUME FilesAssumption == \A f \in Files : WellFormed(f)

--------------------------------------------------------------------------------
VARIABLES
    file,      \* the file the search is in
    pos,       \* the position asked for
    method,    \* which search is running; "idle" before the first, "return" after one
    node,      \* the node whose search it is, or whose arguments are searched
    low, high, \* the window of a bisection
    throwing,  \* the search is called by that of a postfix_compound
    result     \* what it returned, or threw

vars == <<file, pos, method, node, low, high, throwing, result>>

Line(p) == file.line[p]
Token   == file.token[node]

Items == IF method = "fileCst" THEN file.clauses ELSE file.args[node]
Mid   == (low + high) \div 2
Item  == Items[Mid + 1]          \* a JavaScript array starts at 0

IsLeft(p, range)  == p < range.start
IsRight(p, range) == range.end < p
Touches(p, range) == ~ IsLeft(p, range) /\ ~ IsRight(p, range)

TouchedIn(n) == {m \in file.under[n] : file.token[m] # None /\ Touches(pos, file.token[m])}

\* before the first search
Start ==
    /\ pos = 0
    /\ method = "idle"
    /\ node = None
    /\ low = 0
    /\ high = 0
    /\ throwing = FALSE
    /\ result = None

Init == file \in Files /\ Start

--------------------------------------------------------------------------------
(* Where a search goes on, or ends. *)
SearchNode(n) == method' = "node" /\ node' = n /\ UNCHANGED <<low, high, result>>

\* a plausible mistake: the arguments are searched from the second on
SearchLaterArgs(n) ==
    /\ method' = "Args"
    /\ node' = n
    /\ low' = 1
    /\ high' = Len(file.args[n])
    /\ UNCHANGED result

SearchArgs(n) ==
    /\ method' = "Args"
    /\ node' = n
    /\ low' = 0
    /\ high' = Len(file.args[n])
    /\ UNCHANGED result

Return(value) ==
    /\ method' = "return"
    /\ result' = value
    /\ node' = None
    /\ UNCHANGED <<low, high>>

\* a plausible mistake: the element looked at is not dropped on the left
GoRightNowhere == low' = Mid /\ UNCHANGED <<high, method, node, result>>

GoLeft  == high' = Mid /\ UNCHANGED <<low, method, node, result>>
GoRight == low' = Mid + 1 /\ UNCHANGED <<high, method, node, result>>

\* a request asks for a position of the file: fileCst.search is called
fileCst_search ==
    /\ method \in {"idle", "return"}
    /\ pos' \in PositionsOf(file)
    /\ method' = "fileCst"
    /\ node' = None
    /\ low' = 0
    /\ high' = Len(file.clauses)
    /\ throwing' = FALSE
    /\ result' = None
    /\ UNCHANGED file

\* fileCst.search compares lines only
\* (with a plausible mistake: a clause that starts on the line is passed over)
LineIsNotRight(range) == Line(pos) <= Line(range.start)

LineIsLeft(range)  == Line(pos) < Line(range.start)
LineIsRight(range) == Line(range.end) < Line(pos)

BisectClauses ==
    /\ method = "fileCst"
    /\ low < high
    /\ LET range == file.range[Item]
       IN  \/ LineIsLeft(range) /\ GoLeft
           \/ ~ LineIsLeft(range) /\ LineIsRight(range) /\ GoRight
           \/ ~ LineIsLeft(range) /\ ~ LineIsRight(range) /\ SearchNode(Item)
    /\ UNCHANGED <<file, pos, throwing>>

BisectArgs ==
    /\ method = "Args"
    /\ low < high
    /\ LET range == file.range[Item]
       IN  \/ IsLeft(pos, range) /\ GoLeft
           \/ ~ IsLeft(pos, range) /\ IsRight(pos, range) /\ GoRight
           \/ Touches(pos, range) /\ SearchNode(Item)
    /\ UNCHANGED <<file, pos, throwing>>

NothingLeft ==
    /\ method \in {"fileCst", "Args"}
    /\ low >= high
    /\ Return(None)
    /\ UNCHANGED <<file, pos, throwing>>

\* the left and right parts each class gives to checkFunctorRange
SearchLeft ==
    IF file.type[node] \in {"clause", "infix", "postfix", "dict"}
    THEN SearchNode(file.args[node][1])
    ELSE Return(None)

SearchRight ==
    CASE file.type[node] \in {"compound", "dict"}             -> SearchArgs(node)
      [] file.type[node] = "prefix"                           -> SearchNode(file.args[node][1])
      [] file.type[node] = "infix"                            -> SearchNode(file.args[node][2])
      [] file.type[node] \in {"atomic", "clause", "postfix"}  -> Return(None)

\* postfix_compound.search throws what checkFunctorRange returns
Throws(n) == file.type[n] = "postfix"

checkFunctorRange ==
    /\ method = "node"
    /\ throwing' = (throwing \/ Throws(node))
    /\ \/ Token = None /\ Return(None)
       \/ Token # None /\ IsLeft(pos, Token) /\ SearchLeft
       \/ Token # None /\ IsRight(pos, Token) /\ SearchRight
       \/ Token # None /\ Touches(pos, Token) /\ Return(node)
    /\ UNCHANGED <<file, pos>>

Step == BisectClauses \/ BisectArgs \/ NothingLeft \/ checkFunctorRange
Next == fileCst_search \/ Step

\* a search is a synchronous call
Spec == Init /\ [][Next]_vars /\ WF_vars(Step)

--------------------------------------------------------------------------------
TypeOK ==
    /\ pos \in PositionsOf(file)
    /\ method \in {"idle", "fileCst", "node", "Args", "return"}
    /\ node \in NodesOf(file) \cup {None}
    /\ (node = None) = (method \notin {"node", "Args"})
    /\ low \in Nat
    /\ high \in Nat
    /\ throwing \in BOOLEAN
    /\ result \in NodesOf(file) \cup {None}

LinesOf(c) == Line(file.range[c].start)..Line(file.range[c].end)

\* the clauses that have text on the line of the position
ClausesHere == {c \in ToSet(file.clauses) : Line(pos) \in LinesOf(c)}

(***************************************************************************)
(* Goto Definition and Find References start from the node fileCst.search  *)
(* gives for the position of the cursor (server.ts, onDefinition and       *)
(* onReferences).  In a clause that has its end and its lines for itself,  *)
(* that is a node whose token is at the position, whenever there is one,   *)
(* through whatever lists, operators and arguments it is nested in; and    *)
(* where there is no token, nothing.  At a position where one token ends   *)
(* and another starts it is one of the two.                                *)
(***************************************************************************)
FindsWhatIsThere ==
    method = "return" =>
        /\ ClausesHere = {} => result = None
        /\ \A c \in ClausesHere :
              ClausesHere = {c} /\ file.token[c] # None =>
                  IF TouchedIn(c) = {} THEN result = None ELSE result \in TouchedIn(c)

(***************************************************************************)
(* The search of every node returns a node or undefined, as its signature  *)
(* says (cst2.ts, "search(pos:Position):CstNode|undefined").               *)
(***************************************************************************)
SearchReturns == method = "return" => ~ throwing

================================================================================
