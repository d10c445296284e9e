-------------------------------- MODULE Requests --------------------------------
(***************************************************************************)
(* The requests an editor makes about a document (server.ts: onDefinition, *)
(* onReferences, onDocumentSymbol, onHover), over the parts they are made  *)
(* of: the indexer that fills the graph while the document is parsed, the  *)
(* search that finds the node at the cursor, and the handlers that look    *)
(* the name of the node up in the graph.  A request waits until the        *)
(* analysis is in DocumentManager (LanguageServer has that wait); from     *)
(* there on a handler does not await anything, so the tree and the graph,  *)
(* which it gets in two calls, are of one analysis.                        *)
(***************************************************************************)
EXTENDS Indexer

(***************************************************************************)
(* A file that requests are made about is what Indexer takes for one, with *)
(* a field more: `tree`, what CstSearch takes for one, of the same nodes   *)
(* and of one node more for each clause.                                   *)
(* Bound: where `tree` is None no request is made.                         *)
(***************************************************************************)
TreeFits(f) ==
    /\ Len(f.tree.clauses) = Len(f.terms)
    /\ \A c \in 1..Len(f.terms) : f.tree.args[f.tree.clauses[c]] = <<f.terms[c]>>
    /\ DOMAIN f.tree.type = NodesOf(f) \cup {f.tree.clauses[c] : c \in 1..Len(f.terms)}
    /\ \A n \in NodesOf(f) : f.tree.type[n] # "clause" /\ f.tree.args[n] = f.args[n]

Trees == {f.tree : f \in {g \in Files : g.tree # None}}

VARIABLES
    pos, method, node, low, high, throwing, result,   \* of CstSearch
    request,   \* what is asked: None before the first request
    answer     \* what the last request was answered with, None before

searching   == <<pos, method, node, low, high, throwing, result>>
requestVars == <<vars, searching, request, answer>>

Tree == file.tree

Search == INSTANCE CstSearch WITH Files <- Trees, file <- Tree

ASSUME TreesAssumption ==
    \A f \in Files : f.tree = None \/ (Search!WellFormed(f.tree) /\ TreeFits(f))

\* the requests that come with a position
AtPosition == {"definition", "references", "hover"}

ASSUME NoneAssumption == None \notin AtPosition \cup {"documentSymbol"}

RequestsInit ==
    /\ Init
    /\ Search!Start
    /\ request = None
    /\ answer = None

\* validateTextDocument: Parser.parse, clause by clause
parse ==
    /\ UNCHANGED <<searching, request, answer>>
    /\ Next

Parsed == next = Len(file.terms) /\ calls = <<>>

Idle == request = None \/ answer # None

--------------------------------------------------------------------------------
(* What the handlers make their answers from. *)

Answer(items) == [error |-> FALSE, items |-> items]
Failure       == [error |-> TRUE, items |-> {}]

ClauseNodes == {Tree.clauses[c] : c \in Clauses}

\* a plausible mistake: the range of the end, where there is one
RangeOfEnd(c) ==
    LET end == Tree.token[Tree.clauses[c]]
    IN  IF end # None THEN end ELSE Tree.range[Tree.clauses[c]]

\* clause.getRange()
ClauseRange(c) == Tree.range[Tree.clauses[c]]

\* tokenRange(clause.callerNode!.token)
SelectionRange(c) == Tree.token[callerNode[c]]

FirstOf(set) == CHOOSE c \in set : \A d \in set : c <= d

\* a plausible mistake: the latest clause
LatestClause(k) == CHOOSE c \in definitionsMap[k] : \A d \in definitionsMap[k] : d <= c

\* the clause entered first, as a Set is iterated in the order of its insertions
SymbolClause(k) == FirstOf(definitionsMap[k])

\* a plausible mistake: getDefinations gives one clause of the predicate
OneDefinition(n) ==
    IF n \in ClauseNodes \/ definitionsMap[name[n]] = {} THEN {}
    ELSE {FirstOf(definitionsMap[name[n]])}

\* a clause is no node with a name; it is found where its "." is
getDefinations(n) == IF n \in ClauseNodes THEN {} ELSE definitionsMap[name[n]]
getReferences(n)  == IF n \in ClauseNodes THEN {} ELSE referencesMap[name[n]]

Symbols ==
    {[name |-> k, range |-> ClauseRange(SymbolClause(k)),
      selectionRange |-> SelectionRange(SymbolClause(k))]
        : k \in {key \in DOMAIN definitionsMap : definitionsMap[key] # {}}}

Links(n) ==
    {[origin |-> Tree.range[n], range |-> ClauseRange(c), selectionRange |-> SelectionRange(c)]
        : c \in getDefinations(n)}

Locations(n) == {Tree.token[m] : m \in getReferences(n)}

Hover(n) == {[name |-> IF n \in ClauseNodes THEN None ELSE name[n], range |-> Tree.range[n]]}

AnswerTo(kind, n) ==
    CASE kind = "definition" -> Links(n)
      [] kind = "references" -> Locations(n)
      [] kind = "hover"      -> Hover(n)

--------------------------------------------------------------------------------
(* The requests. *)

Ask(kind) ==
    /\ Parsed /\ Tree # None /\ Idle
    /\ request' = kind
    /\ answer' = None
    /\ UNCHANGED vars

\* fileCst.search(position), its first call
AskAtPosition(kind) == Ask(kind) /\ Search!fileCst_search

AskForSymbols == Ask("documentSymbol") /\ UNCHANGED searching

search ==
    /\ request \in AtPosition /\ answer = None
    /\ UNCHANGED <<vars, request, answer>>
    /\ Search!Step

Reply(a) == answer' = a /\ UNCHANGED <<vars, searching, request>>

onDocumentSymbol ==
    /\ request = "documentSymbol" /\ answer = None
    /\ Reply(Answer(Symbols))

\* onDefinition, onReferences and onHover: what the search throws, they throw
AnswerAtPosition ==
    /\ request \in AtPosition /\ answer = None
    /\ method = "return"
    /\ \/ throwing /\ Reply(Failure)
       \/ ~ throwing /\ result = None /\ Reply(Answer({}))
       \/ ~ throwing /\ result # None /\ Reply(Answer(AnswerTo(request, result)))

Serve == search \/ onDocumentSymbol \/ AnswerAtPosition

RequestsNext ==
    \/ parse
    \/ \E kind \in AtPosition : AskAtPosition(kind)
    \/ AskForSymbols
    \/ Serve

\* parse, and a handler that has the analysis, are synchronous
RequestsSpec ==
    /\ RequestsInit
    /\ [][RequestsNext]_requestVars
    /\ WF_requestVars(parse)
    /\ WF_requestVars(Serve)

--------------------------------------------------------------------------------
(* What the text of the document says, by the reference of Indexer.  Clauses  *)
(* with a module in front (m:p. and the like) are among the clauses of no     *)
(* predicate here, as the graph has them under none (indexer.ts:31-35).       *)

Answered(kind) == request = kind /\ answer # None

\* the names of the predicates that the node n is a head or a goal of
Predicates(n) ==
    {k \in DOMAIN definitionsMap :
        \E c \in Clauses : <<n, k>> \in DefinedHeads(c) \cup GoalsOf(c, FALSE)}

ClausesOf(k) == {c \in Clauses : k \in {head[2] : head \in DefinedHeads(c)}}

CallsOf(k) == {n \in DOMAIN name : \E c \in Clauses : <<n, k>> \in GoalsOf(c, FALSE)}

\* The cursor is at the token of n and no other, in a clause that has its lines for
\* itself and its end.
CursorAt(n) ==
    \E c \in ClauseNodes :
        /\ Search!ClausesHere = {c}
        /\ Tree.token[c] # None
        /\ Search!TouchedIn(c) = {n}

(***************************************************************************)
(* Goto Definition on a goal, a nonterminal or a head leads to the clauses *)
(* of the predicate that it calls or is of, to all of them, clauses with a *)
(* module in front apart, and to no other ones (README.md:4): with the     *)
(* cursor at its token, through the search, the renaming of grammar rules  *)
(* and the graph.                                                          *)
(***************************************************************************)
DefinitionsAreFound ==
    Answered("definition") /\ ~ throwing =>
        \A n \in DOMAIN name : CursorAt(n) =>
            \A k \in Predicates(n) :
                {link.range : link \in answer.items} = {ClauseRange(c) : c \in ClausesOf(k)}

(***************************************************************************)
(* Find References on a goal, a nonterminal or a head shows every goal of  *)
(* that predicate in the file (README.md:5), m:g in rules, what grammar    *)
(* rules have under \+ and clauses with a module in front apart; and       *)
(* everything it shows is a term of that name at the end of the walk, in   *)
(* whatever clause (the p of a fact m:p., which is named p/2 then, is      *)
(* shown with the references of p/2).                                      *)
(***************************************************************************)
ReferencesAreFound ==
    Answered("references") /\ ~ throwing =>
        \A n \in DOMAIN name : CursorAt(n) =>
            \A k \in Predicates(n) :
                /\ {Tree.token[g] : g \in CallsOf(k)} \subseteq answer.items
                /\ answer.items \subseteq {Tree.token[m] : m \in {x \in DOMAIN name : name[x] = k}}

(***************************************************************************)
(* What Goto Definition and Find References show is of the name that the   *)
(* node under the cursor has: the terms that are shown have that name, and *)
(* so have the caller nodes of the clauses, whose tokens are selected.     *)
(***************************************************************************)
AnswersAreOfOneName ==
    request \in {"definition", "references"} /\ answer # None /\ result \in Nodes =>
        \A item \in answer.items :
            \E n \in Nodes :
                /\ name[n] = name[result]
                /\ \/ request = "references" /\ item = Tree.token[n]
                   \/ request = "definition" /\ item.selectionRange = Tree.token[n]

(***************************************************************************)
(* The outline (README.md:2) has each predicate of the file that has a     *)
(* clause without a module in front, once, at the first such clause, under *)
(* the name its goals are looked up by.  A predicate that only clauses     *)
(* like m:p. are of is missing: that gap is indexer.ts:31-35.              *)
(***************************************************************************)
OutlineIsComplete ==
    Answered("documentSymbol") =>
        {[name |-> s.name, range |-> s.range] : s \in answer.items} =
            {[name |-> k, range |-> ClauseRange(FirstOf(ClausesOf(k)))]
                : k \in {key \in DOMAIN definitionsMap : ClausesOf(key) # {}}}

Within(inner, outer) == outer.start <= inner.start /\ inner.end <= outer.end

(***************************************************************************)
(* The ranges of an answer fit together: a selection range is inside the   *)
(* range it is of (an editor refuses a symbol whose is not), and what an   *)
(* answer says it is about is where the cursor is.  The first is computed  *)
(* from the caller node that the indexer set, the second from the start    *)
(* and end tokens that constructors copied from each other.                *)
(***************************************************************************)
RangesFit ==
    answer # None => \A item \in answer.items :
        /\ request \in {"documentSymbol", "definition"} => Within(item.selectionRange, item.range)
        /\ request = "definition" => Search!Touches(pos, item.origin)
        /\ request = "hover" => Search!Touches(pos, item.range)

(***************************************************************************)
(* Every document is walked to its end, and every request is answered,     *)
(* whatever the document and the position: parse, search and the handlers  *)
(* run in the loop that serves every other request.                        *)
(***************************************************************************)
EveryRequestIsServed ==
    /\ <>[] Parsed
    /\ request # None ~> answer # None
================================================================================
