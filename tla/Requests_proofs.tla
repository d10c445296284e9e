---------------------------- MODULE Requests_proofs ----------------------------
(***************************************************************************)
(* Proofs about Requests, for all files.  To the graph a request is a      *)
(* stuttering step, and to the search the parse is one, so what            *)
(* Indexer_proofs shows of the walk and CstSearch_proofs of the search     *)
(* holds with requests; and once a request is made the walk is over, so an *)
(* answer stays what the handler makes of the graph and the node found.    *)
(***************************************************************************)
EXTENDS Requests, Indexer_proofs

Found == INSTANCE CstSearch_proofs WITH Files <- Trees, file <- Tree

LEMMA RequestsKeepGraph ==
    ASSUME RequestsNext, ~ parse
    PROVE  UNCHANGED vars
BY DEF RequestsNext, AskAtPosition, AskForSymbols, Ask, Serve, search, onDocumentSymbol,
       AnswerAtPosition, Reply

LEMMA GraphStep ==
    ASSUME [RequestsNext]_requestVars
    PROVE  [Next]_vars
<1>1. CASE parse
    BY <1>1 DEF parse
<1>2. CASE RequestsNext /\ ~ parse
    BY <1>2, RequestsKeepGraph
<1>3. CASE UNCHANGED requestVars
    BY <1>3 DEF requestVars
<1> QED
    BY <1>1, <1>2, <1>3

\* The session layer sees the indexer of Indexer: whatever is asked, and whenever, the
\* graph is filled by its walk and by nothing else.
THEOREM RequestsOnlyRead == RequestsSpec => Init /\ [][Next]_vars
<1>1. RequestsInit => Init
    BY DEF RequestsInit
<1> QED
    BY <1>1, GraphStep, PTL DEF RequestsSpec

GraphInv == IInv /\ HeadsInv /\ GoalsInv

LEMMA GraphInvHolds == RequestsSpec => []GraphInv
<1>1. Init => GraphInv
    BY InitInv, HeadsInit, GoalsInit DEF GraphInv
<1>2. GraphInv /\ [Next]_vars => GraphInv'
    BY StepInv, HeadsStep, GoalsStep DEF GraphInv
<1> QED
    BY <1>1, <1>2, RequestsOnlyRead, PTL

\* With requests too, every node that onReferences finds under a name has that name.
THEOREM NamesAgreeForRequests == RequestsSpec => []NamesAgree
<1>1. GraphInv => NamesAgree
    BY DEF GraphInv, IInv
<1> QED
    BY <1>1, GraphInvHolds, PTL

\* The two handlers that read clause.callerNode!.token without a test, onDefinition and
\* onDocumentSymbol, find a caller node there.
THEOREM CallersMatchForRequests == RequestsSpec => []CallersMatch
<1>1. GraphInv => CallersMatch
    BY DEF GraphInv, IInv
<1> QED
    BY <1>1, GraphInvHolds, PTL

\* What the requests are answered from has every clause under its head, those with a module
\* in front (m:p. and the like) apart, and every goal under the name it calls, with the gaps
\* that GoalsAreReferenced names.
THEOREM GraphIsCompleteForRequests == RequestsSpec => [](HeadsAreDefined /\ GoalsAreReferenced)
<1>1. GraphInv => HeadsAreDefined /\ GoalsAreReferenced
    BY HeadsAreSettled, GoalsAreEntered DEF GraphInv
<1> QED
    BY <1>1, GraphInvHolds, PTL

--------------------------------------------------------------------------------
(* The search of a request is that of CstSearch. *)

LEMMA TreesAreWellFormed == \A f \in Trees : Found!WellFormed(f)
<1>1. \A f : Search!WellFormed(f) <=> Found!WellFormed(f)
    BY DEF Search!WellFormed, Found!WellFormed, Search!IsFile, Found!IsFile,
           Search!AreInOrder, Found!AreInOrder, Search!IsNested, Found!IsNested,
           Search!IsOrdered, Found!IsOrdered, Search!NodesOf, Found!NodesOf,
           Search!PositionsOf, Found!PositionsOf, Search!Ranges, Found!Ranges,
           Search!Arity, Found!Arity, Search!IsFiniteSet, Found!IsFiniteSet
<1> QED
    BY <1>1, TreesAssumption DEF Trees

LEMMA SearchIsFound ==
    /\ Search!Next => Found!Next
    /\ Search!Step => Found!Step
<1>1. Search!fileCst_search => Found!fileCst_search
    BY DEF Search!fileCst_search, Found!fileCst_search, Search!PositionsOf, Found!PositionsOf
<1>2. Search!BisectClauses => Found!BisectClauses
    BY DEF Search!BisectClauses, Found!BisectClauses, Search!LineIsLeft, Found!LineIsLeft,
           Search!LineIsRight, Found!LineIsRight, Search!GoLeft, Found!GoLeft,
           Search!GoRight, Found!GoRight, Search!SearchNode, Found!SearchNode,
           Search!Line, Found!Line, Search!Item, Found!Item, Search!Items, Found!Items,
           Search!Mid, Found!Mid
<1>3. Search!BisectArgs => Found!BisectArgs
    BY DEF Search!BisectArgs, Found!BisectArgs, Search!IsLeft, Found!IsLeft,
           Search!IsRight, Found!IsRight, Search!Touches, Found!Touches,
           Search!GoLeft, Found!GoLeft, Search!GoRight, Found!GoRight,
           Search!SearchNode, Found!SearchNode, Search!Item, Found!Item,
           Search!Items, Found!Items, Search!Mid, Found!Mid
<1>4. Search!NothingLeft => Found!NothingLeft
    BY DEF Search!NothingLeft, Found!NothingLeft, Search!Return, Found!Return
<1>5. Search!checkFunctorRange => Found!checkFunctorRange
    BY DEF Search!checkFunctorRange, Found!checkFunctorRange, Search!IsLeft, Found!IsLeft,
           Search!IsRight, Found!IsRight, Search!Touches, Found!Touches,
           Search!Token, Found!Token, Search!Throws, Found!Throws,
           Search!SearchLeft, Found!SearchLeft, Search!SearchRight, Found!SearchRight,
           Search!SearchNode, Found!SearchNode, Search!SearchArgs, Found!SearchArgs,
           Search!Return, Found!Return
<1> QED
    BY <1>1, <1>2, <1>3, <1>4, <1>5 DEF Search!Next, Found!Next, Search!Step, Found!Step

LEMMA SearchStep ==
    ASSUME [RequestsNext]_requestVars
    PROVE  [Found!Next]_(Found!vars)
<1>1. CASE parse
    BY <1>1 DEF parse, Next, NextClause, Step, searching, Found!vars, Tree
<1>2. CASE search
    <2>1. Search!Next
        BY <1>2 DEF search, Search!Next
    <2> QED
        BY <2>1, SearchIsFound
<1>3. ASSUME NEW kind \in AtPosition, AskAtPosition(kind) PROVE Found!Next
    <2>1. Search!Next
        BY <1>3 DEF AskAtPosition, Search!Next
    <2> QED
        BY <2>1, SearchIsFound
<1>4. CASE UNCHANGED <<vars, searching>>
    BY <1>4 DEF vars, searching, Found!vars, Tree
<1>5. AskForSymbols \/ onDocumentSymbol \/ AnswerAtPosition => UNCHANGED <<vars, searching>>
    BY DEF AskForSymbols, onDocumentSymbol, AnswerAtPosition, Ask, Reply
<1>6. UNCHANGED requestVars => UNCHANGED <<vars, searching>>
    BY DEF requestVars
<1> QED
    BY <1>1, <1>2, <1>3, <1>4, <1>5, <1>6 DEF RequestsNext, Serve

\* What CstSearch_proofs shows of every search, where there is a tree to search in.
SearchInv == Tree # None => Found!IInv

LEMMA SearchInvHolds == RequestsSpec => []SearchInv
<1>1. ASSUME RequestsInit PROVE SearchInv
    <2>1. SUFFICES ASSUME Tree # None PROVE Found!IInv
        BY DEF SearchInv
    <2>2. Tree \in Trees
        BY <1>1, <2>1 DEF RequestsInit, Init, Tree, Trees
    <2>3. Found!Init
        BY <1>1, <2>2 DEF RequestsInit, Search!Start, Found!Init, Found!Start
    <2> QED
        BY <2>3, TreesAreWellFormed, Found!Initially
<1>2. ASSUME SearchInv, [RequestsNext]_requestVars PROVE SearchInv'
    <2>1. [Found!Next]_(Found!vars)
        BY <1>2, SearchStep
    <2>2. Tree' = Tree
        BY <1>2, GraphStep DEF Next, NextClause, Step, vars, Tree
    <2>3. Found!IInv => Found!IInv'
        BY <2>1, TreesAreWellFormed, Found!Inductive
    <2> QED
        BY <1>2, <2>2, <2>3 DEF SearchInv
<1> QED
    BY <1>1, <1>2, PTL DEF RequestsSpec

--------------------------------------------------------------------------------
(* What an answer is made from. *)

\* The walk is over before anything is asked, and the answer is what the handler makes of
\* the graph, and of what the search has returned.
AnswersInv ==
    /\ request # None => Parsed /\ Tree # None
    /\ answer # None => request \in AtPosition \cup {"documentSymbol"}
    /\ answer # None /\ request = "documentSymbol" => answer = Answer(Symbols)
    /\ answer # None /\ request \in AtPosition =>
          /\ method = "return"
          /\ throwing => answer = Failure
          /\ ~ throwing /\ result = None => answer = Answer({})
          /\ ~ throwing /\ result # None => answer = Answer(AnswerTo(request, result))

LEMMA WalkIsOver ==
    ASSUME Parsed, IInv
    PROVE  ~ Next
<1>1. next = Len(file.terms) /\ next \in Nat /\ calls = <<>>
    BY DEF Parsed, IInv, TypeOK
<1> QED
    BY <1>1 DEF Next, NextClause, Step, addRefAndIndexArg, index, ruleHead, ruleBody, DCGHead,
                DCGBody, ruleEval, publicList, Runs

\* While the graph stays as it is, so does what is made from it.
LEMMA SameAnswers ==
    ASSUME UNCHANGED vars
    PROVE  /\ Parsed' = Parsed /\ Tree' = Tree /\ Symbols' = Symbols
           /\ \A kind, n : AnswerTo(kind, n)' = AnswerTo(kind, n)
<1>1. /\ Parsed' = Parsed /\ Tree' = Tree /\ ClauseNodes' = ClauseNodes
      /\ name' = name /\ definitionsMap' = definitionsMap /\ referencesMap' = referencesMap
      /\ callerNode' = callerNode
    BY DEF vars, Parsed, Tree, ClauseNodes, Clauses
<1>2. \A c : ClauseRange(c)' = ClauseRange(c) /\ SelectionRange(c)' = SelectionRange(c)
    BY <1>1 DEF ClauseRange, SelectionRange
<1>3. Symbols' = Symbols
    BY <1>1, <1>2 DEF Symbols, SymbolClause, FirstOf, ClauseRange, SelectionRange
<1>4. \A n : Links(n)' = Links(n) /\ Locations(n)' = Locations(n) /\ Hover(n)' = Hover(n)
    BY <1>1, <1>2 DEF Links, Locations, Hover, getDefinations, getReferences
<1>5. \A kind, n : AnswerTo(kind, n)' = AnswerTo(kind, n)
    BY <1>4 DEF AnswerTo
<1> QED
    BY <1>1, <1>3, <1>5

LEMMA AskStep ==
    ASSUME AnswersInv, NEW kind \in AtPosition \cup {"documentSymbol"}, Ask(kind)
    PROVE  AnswersInv'
<1>1. answer' = None /\ Parsed' /\ Tree' # None
    BY SameAnswers DEF Ask
<1> QED
    BY <1>1 DEF AnswersInv

LEMMA AnswersStep ==
    ASSUME IInv, AnswersInv, [RequestsNext]_requestVars
    PROVE  AnswersInv'
<1>1. CASE parse
    <2>1. request = None /\ answer = None
        BY <1>1, WalkIsOver, NoneAssumption DEF AnswersInv, parse
    <2> QED
        BY <1>1, <2>1 DEF AnswersInv, parse
<1>2. CASE search
    <2>1. answer' = None /\ request' = request /\ Parsed' = Parsed /\ Tree' = Tree
        BY <1>2, SameAnswers DEF search
    <2> QED
        BY <2>1 DEF AnswersInv
<1>3. CASE onDocumentSymbol
    <2>1. /\ request = "documentSymbol" /\ request' = request /\ answer' = Answer(Symbols)
          /\ Parsed' = Parsed /\ Tree' = Tree /\ Symbols' = Symbols
        BY <1>3, SameAnswers DEF onDocumentSymbol, Reply
    <2>2. request # None /\ request \notin AtPosition
        BY <2>1, NoneAssumption DEF AtPosition
    <2> QED
        BY <2>1, <2>2 DEF AnswersInv, Answer
<1>4. CASE AnswerAtPosition
    <2>1. /\ request \in AtPosition /\ request' = request /\ method = "return"
          /\ UNCHANGED <<method, throwing, result>>
          /\ Parsed' = Parsed /\ Tree' = Tree
          /\ \A kind, n : AnswerTo(kind, n)' = AnswerTo(kind, n)
        BY <1>4, SameAnswers DEF AnswerAtPosition, Reply, searching
    <2>2. request # None /\ request # "documentSymbol"
        BY <2>1, NoneAssumption DEF AtPosition
    <2>3. /\ throwing => answer' = Failure
          /\ ~ throwing /\ result = None => answer' = Answer({})
          /\ ~ throwing /\ result # None => answer' = Answer(AnswerTo(request, result))
        BY <1>4 DEF AnswerAtPosition, Reply
    <2>4. AnswerTo(request, result)' = AnswerTo(request, result)
        BY <2>1
    <2>5. /\ throwing' => answer' = Failure'
          /\ ~ throwing' /\ result' = None => answer' = Answer({})'
          /\ ~ throwing' /\ result' # None => answer' = Answer(AnswerTo(request, result))'
        BY <2>1, <2>3, <2>4 DEF Answer, Failure
    <2> QED
        BY <2>1, <2>2, <2>5 DEF AnswersInv
<1>5. ASSUME NEW kind \in AtPosition, AskAtPosition(kind) PROVE AnswersInv'
    BY <1>5, AskStep DEF AskAtPosition
<1>6. CASE AskForSymbols
    BY <1>6, AskStep DEF AskForSymbols
<1>7. CASE UNCHANGED requestVars
    <2>1. /\ UNCHANGED <<request, answer, method, throwing, result>>
          /\ Parsed' = Parsed /\ Tree' = Tree /\ Symbols' = Symbols
          /\ \A kind, n : AnswerTo(kind, n)' = AnswerTo(kind, n)
        BY <1>7, SameAnswers DEF requestVars, searching
    <2>2. AnswerTo(request, result)' = AnswerTo(request, result)
        BY <2>1
    <2> QED
        BY <2>1, <2>2 DEF AnswersInv, Answer, Failure
<1> QED
    BY <1>1, <1>2, <1>3, <1>4, <1>5, <1>6, <1>7 DEF RequestsNext, Serve

RequestsInv == GraphInv /\ SearchInv /\ AnswersInv

LEMMA RequestsInvHolds == RequestsSpec => []RequestsInv
<1>1. RequestsInit => AnswersInv
    BY NoneAssumption DEF RequestsInit, AnswersInv
<1>2. GraphInv => IInv
    BY DEF GraphInv
<1>3. GraphInv /\ SearchInv /\ AnswersInv => RequestsInv
    BY DEF RequestsInv
<1> QED
    BY <1>1, <1>2, <1>3, AnswersStep, GraphInvHolds, SearchInvHolds, PTL DEF RequestsSpec

--------------------------------------------------------------------------------
(* Outline, definitions and references: what the text says. *)

\* The graph when the walk is over: the clauses under a name are those that the text
\* makes clauses of it, the goals that call it are among the nodes under it, and these
\* have that name.
LEMMA GraphOfText ==
    ASSUME GraphInv, Parsed, NEW k \in Names(file)
    PROVE  /\ definitionsMap[k] = ClausesOf(k)
           /\ CallsOf(k) \subseteq referencesMap[k]
           /\ referencesMap[k] \subseteq {x \in DOMAIN name : name[x] = k}
<1>1. TypeOK /\ NamesAgree /\ HeadsAreDefined /\ GoalsAreReferenced
    BY HeadsAreSettled, GoalsAreEntered DEF GraphInv, IInv
<1>2. \A c \in Clauses : Analysed(c)
    BY <1>1 DEF Parsed, Analysed, Clauses, TypeOK
<1>3. ASSUME NEW c \in Clauses PROVE c \in definitionsMap[k] <=> k \in {d[2] : d \in DefinedHeads(c)}
    <2>1. {l \in Names(file) : c \in definitionsMap[l]} = {d[2] : d \in DefinedHeads(c)}
        BY <1>1, <1>2 DEF HeadsAreDefined
    <2> QED
        BY <2>1
<1>4. definitionsMap[k] \subseteq Clauses
    BY <1>1 DEF TypeOK
<1>5. definitionsMap[k] = ClausesOf(k)
    BY <1>3, <1>4 DEF ClausesOf
<1>6. ASSUME NEW n \in CallsOf(k) PROVE n \in referencesMap[k]
    <2>1. PICK c \in Clauses : <<n, k>> \in GoalsOf(c, FALSE)
        BY <1>6 DEF CallsOf
    <2>2. \A g \in GoalsOf(c, FALSE) : g[1] \in referencesMap[g[2]]
        BY <1>1, <1>2 DEF GoalsAreReferenced
    <2>3. <<n, k>>[1] = n /\ <<n, k>>[2] = k
        OBVIOUS
    <2> QED
        BY <2>1, <2>2, <2>3
<1>7. referencesMap[k] \subseteq {x \in DOMAIN name : name[x] = k}
    BY <1>1 DEF TypeOK, NamesAgree
<1> QED
    BY <1>5, <1>6, <1>7

\* A node that is a head or a goal of a predicate has its name.
LEMMA PredicateIsName ==
    ASSUME GraphInv, Parsed, NEW n, NEW k \in Predicates(n)
    PROVE  k \in Names(file) /\ name[n] = k
<1>1. TypeOK /\ CallersMatch /\ HeadsAreDefined
    BY HeadsAreSettled DEF GraphInv, IInv
<1>2. k \in Names(file) /\ DOMAIN definitionsMap = Names(file) /\ DOMAIN name = Nodes
    BY <1>1 DEF TypeOK, Predicates
<1>3. PICK c \in Clauses : <<n, k>> \in DefinedHeads(c) \cup GoalsOf(c, FALSE)
    BY DEF Predicates
<1>4. CASE <<n, k>> \in DefinedHeads(c)
    <2>1. Analysed(c)
        BY <1>1 DEF Parsed, Analysed, Clauses, TypeOK
    <2>2. <<n, k>>[1] = n /\ <<n, k>>[2] = k
        OBVIOUS
    <2>3. n \in {callerNode[c]} \ {None} /\ k \in {l \in Names(file) : c \in definitionsMap[l]}
        <3>1. n \in {d[1] : d \in DefinedHeads(c)} /\ k \in {d[2] : d \in DefinedHeads(c)}
            BY <1>4, <2>2
        <3> QED
            BY <1>1, <2>1, <3>1 DEF HeadsAreDefined
    <2> QED
        BY <1>1, <1>2, <2>3 DEF CallersMatch
<1>5. CASE <<n, k>> \in GoalsOf(c, FALSE)
    <2>1. <<n, k>> \in Nodes \X Names(file)
        BY <1>5, GoalsAreNodes DEF GraphInv, IInv
    <2>2. n \in CallsOf(k)
        BY <1>2, <1>5, <2>1 DEF CallsOf
    <2> QED
        BY <1>2, <2>2, GraphOfText
<1> QED
    BY <1>2, <1>3, <1>4, <1>5

\* The tree that requests are made of fits the nodes that are indexed.
LEMMA TreeOfFile ==
    ASSUME file \in Files, Tree # None
    PROVE  Tree \in Trees /\ Found!WellFormed(Tree) /\ TreeFits(file)
BY TreesAssumption, TreesAreWellFormed DEF Tree, Trees

\* A clause is no node of a term.
LEMMA NodesAreNoClauses ==
    ASSUME file \in Files, Tree # None, NEW n \in Nodes
    PROVE  n \notin ClauseNodes /\ n \in Found!NodesOf(Tree) /\ Tree.token[n] # None
<1>1. Found!IsFile(Tree) /\ TreeFits(file)
    BY TreeOfFile DEF Found!WellFormed
<1>2. n \in DOMAIN Tree.type /\ Tree.type[n] # "clause"
    BY <1>1 DEF TreeFits, Nodes, Tree
<1>3. \A c \in Clauses : Tree.type[Tree.clauses[c]] = "clause"
    BY <1>1 DEF TreeFits, Clauses, Tree, Found!IsFile
<1>4. n \notin ClauseNodes
    BY <1>2, <1>3 DEF ClauseNodes
<1> QED
    BY <1>1, <1>2, <1>4 DEF Found!NodesOf, Found!IsFile

\* The search finds what the cursor is at.
LEMMA CursorIsFound ==
    ASSUME RequestsInv, Tree # None, method = "return", NEW n, CursorAt(n)
    PROVE  result = n
<1>1. Found!FindsWhatIsThere
    <2>1. Found!IInv
        BY DEF RequestsInv, SearchInv
    <2> QED
        BY <2>1, TreesAreWellFormed, Found!FindsIt
<1>2. PICK c \in ClauseNodes : Search!ClausesHere = {c} /\ Tree.token[c] # None /\ Search!TouchedIn(c) = {n}
    BY DEF CursorAt
<1>3. Found!ClausesHere = {c}
    BY <1>2 DEF Search!ClausesHere, Found!ClausesHere, Search!Line, Found!Line,
                Search!LinesOf, Found!LinesOf, Search!ToSet, Found!ToSet
<1>4. Found!TouchedIn(c) = {n}
    BY <1>2 DEF Search!TouchedIn, Found!TouchedIn, Search!Touches, Found!Touches,
                Search!IsLeft, Found!IsLeft, Search!IsRight, Found!IsRight
<1>5. Found!ClausesHere = {c} /\ Tree.token[c] # None =>
          IF Found!TouchedIn(c) = {} THEN result = None ELSE result \in Found!TouchedIn(c)
    BY <1>1, <1>3 DEF Found!FindsWhatIsThere
<1>6. Found!TouchedIn(c) # {}
    BY <1>4
<1>7. result \in Found!TouchedIn(c)
    BY <1>2, <1>3, <1>5, <1>6
<1> QED
    BY <1>4, <1>7

\* What the handlers of a request at a position have when they answer about a node.
LEMMA AnswerAtCursor ==
    ASSUME RequestsInv, answer # None, request \in AtPosition, ~ throwing,
           NEW n \in DOMAIN name, CursorAt(n)
    PROVE  /\ GraphInv /\ Parsed /\ n \in Nodes /\ n \notin ClauseNodes
           /\ answer.items = AnswerTo(request, n)
<1>1. GraphInv /\ SearchInv /\ AnswersInv
    BY DEF RequestsInv
<1>2. request # None
    BY NoneAssumption
<1>3. Parsed /\ Tree # None /\ method = "return"
    BY <1>1, <1>2 DEF AnswersInv
<1>4. result = n
    BY <1>3, CursorIsFound
<1>5. file \in Files /\ n \in Nodes
    BY <1>1 DEF GraphInv, IInv, TypeOK
<1>6. n # None
    BY <1>5, FilesAssumption DEF IsFile, Nodes
<1>7. n \notin ClauseNodes
    BY <1>3, <1>5, NodesAreNoClauses
<1>8. answer = Answer(AnswerTo(request, n))
    BY <1>1, <1>4, <1>6 DEF AnswersInv
<1> QED
    BY <1>1, <1>3, <1>5, <1>7, <1>8 DEF Answer

\* With the cursor at the token of a head or a goal, whatever is nested in what, Goto
\* Definition leads to the clauses of the predicate, to all of them but those with a module
\* in front (m:p. and the like), and to no others.
THEOREM DefinitionsAreAlwaysFound == RequestsSpec => []DefinitionsAreFound
<1>1. ASSUME RequestsInv PROVE DefinitionsAreFound
    <2>1. SUFFICES ASSUME Answered("definition"), ~ throwing, NEW n \in DOMAIN name, CursorAt(n),
                          NEW k \in Predicates(n)
                   PROVE  {link.range : link \in answer.items} = {ClauseRange(c) : c \in ClausesOf(k)}
        BY DEF DefinitionsAreFound
    <2>2. answer # None /\ request = "definition" /\ request \in AtPosition
        BY <2>1 DEF Answered, AtPosition
    <2>3. /\ GraphInv /\ Parsed /\ n \in Nodes /\ n \notin ClauseNodes
          /\ answer.items = AnswerTo(request, n)
        BY <1>1, <2>1, <2>2, AnswerAtCursor
    <2>4. answer.items = Links(n)
        BY <2>2, <2>3 DEF AnswerTo
    <2>5. k \in Names(file) /\ name[n] = k /\ definitionsMap[k] = ClausesOf(k)
        BY <2>3, PredicateIsName, GraphOfText
    <2>6. getDefinations(n) = ClausesOf(k)
        BY <2>3, <2>5 DEF getDefinations
    <2>7. {link.range : link \in Links(n)} = {ClauseRange(c) : c \in getDefinations(n)}
        <3> DEFINE L(c) == [origin |-> Tree.range[n], range |-> ClauseRange(c),
                            selectionRange |-> SelectionRange(c)]
        <3>1. \A c : L(c).range = ClauseRange(c)
            OBVIOUS
        <3>2. Links(n) = {L(c) : c \in getDefinations(n)}
            BY DEF Links
        <3> HIDE DEF L
        <3> QED
            BY <3>1, <3>2
    <2> QED
        BY <2>4, <2>6, <2>7
<1> QED
    BY <1>1, RequestsInvHolds, PTL

\* Find References shows every goal of the predicate under the cursor, and nothing that has
\* another name.
THEOREM ReferencesAreAlwaysFound == RequestsSpec => []ReferencesAreFound
<1>1. ASSUME RequestsInv PROVE ReferencesAreFound
    <2>1. SUFFICES ASSUME Answered("references"), ~ throwing, NEW n \in DOMAIN name, CursorAt(n),
                          NEW k \in Predicates(n)
                   PROVE  /\ {Tree.token[g] : g \in CallsOf(k)} \subseteq answer.items
                          /\ answer.items \subseteq {Tree.token[m] : m \in {x \in DOMAIN name : name[x] = k}}
        BY DEF ReferencesAreFound
    <2>2. answer # None /\ request = "references" /\ request \in AtPosition
        BY <2>1 DEF Answered, AtPosition
    <2>3. /\ GraphInv /\ Parsed /\ n \in Nodes /\ n \notin ClauseNodes
          /\ answer.items = AnswerTo(request, n)
        BY <1>1, <2>1, <2>2, AnswerAtCursor
    <2>4. answer.items = Locations(n)
        BY <2>2, <2>3 DEF AnswerTo
    <2>5. /\ k \in Names(file) /\ name[n] = k
          /\ CallsOf(k) \subseteq referencesMap[k]
          /\ referencesMap[k] \subseteq {x \in DOMAIN name : name[x] = k}
        BY <2>3, PredicateIsName, GraphOfText
    <2>6. getReferences(n) = referencesMap[k]
        BY <2>3, <2>5 DEF getReferences
    <2> QED
        BY <2>4, <2>5, <2>6 DEF Locations
<1> QED
    BY <1>1, RequestsInvHolds, PTL

\* The outline has every predicate of the file that has a clause without a module in front,
\* each once and at the first of these clauses.
THEOREM OutlineIsAlwaysComplete == RequestsSpec => []OutlineIsComplete
<1>1. ASSUME RequestsInv PROVE OutlineIsComplete
    <2> DEFINE shown == {key \in DOMAIN definitionsMap : ClausesOf(key) # {}}
    <2>1. SUFFICES ASSUME Answered("documentSymbol")
                   PROVE  {[name |-> s.name, range |-> s.range] : s \in answer.items} =
                              {[name |-> k, range |-> ClauseRange(FirstOf(ClausesOf(k)))] : k \in shown}
        BY DEF OutlineIsComplete
    <2>2. answer = Answer(Symbols) /\ Parsed /\ GraphInv
        BY <1>1, <2>1, NoneAssumption DEF RequestsInv, AnswersInv, Answered
    <2>3. answer.items = Symbols
        BY <2>2 DEF Answer
    <2>4. DOMAIN definitionsMap = Names(file)
        BY <2>2 DEF GraphInv, IInv, TypeOK
    <2>5. \A k \in DOMAIN definitionsMap : definitionsMap[k] = ClausesOf(k)
        BY <2>2, <2>4, GraphOfText
    <2>6. Symbols = {[name |-> k, range |-> ClauseRange(FirstOf(ClausesOf(k))),
                      selectionRange |-> SelectionRange(FirstOf(ClausesOf(k)))] : k \in shown}
        BY <2>5 DEF Symbols, SymbolClause
    <2>7. {[name |-> s.name, range |-> s.range] : s \in Symbols} =
              {[name |-> k, range |-> ClauseRange(FirstOf(ClausesOf(k)))] : k \in shown}
        <3> DEFINE S(k) == [name |-> k, range |-> ClauseRange(FirstOf(ClausesOf(k))),
                            selectionRange |-> SelectionRange(FirstOf(ClausesOf(k)))]
        <3>1. \A k : S(k).name = k /\ S(k).range = ClauseRange(FirstOf(ClausesOf(k)))
            OBVIOUS
        <3>2. Symbols = {S(k) : k \in shown}
            BY <2>6
        <3> HIDE DEF S, shown
        <3> QED
            BY <3>1, <3>2
    <2> QED
        BY <2>3, <2>7
<1> QED
    BY <1>1, RequestsInvHolds, PTL

\* Goto Definition and Find References never show anything of another name than that
\* of the node under the cursor, whatever the clauses are.
THEOREM OneNameIsShown == RequestsSpec => []AnswersAreOfOneName
<1>1. ASSUME RequestsInv PROVE AnswersAreOfOneName
    <2>1. SUFFICES ASSUME request \in {"definition", "references"}, answer # None, result \in Nodes,
                          NEW item \in answer.items
                   PROVE  \E n \in Nodes :
                             /\ name[n] = name[result]
                             /\ \/ request = "references" /\ item = Tree.token[n]
                                \/ request = "definition" /\ item.selectionRange = Tree.token[n]
        BY DEF AnswersAreOfOneName
    <2>2. TypeOK /\ NamesAgree /\ CallersMatch /\ AnswersInv /\ request \in AtPosition
        BY <1>1, <2>1 DEF RequestsInv, GraphInv, IInv, AtPosition
    <2>3. answer = Failure \/ answer = Answer({}) \/ answer = Answer(AnswerTo(request, result))
        BY <2>1, <2>2 DEF AnswersInv
    <2>4. item \in AnswerTo(request, result)
        BY <2>1, <2>3 DEF Answer, Failure
    <2>5. name[result] \in Names(file)
        BY <2>1, <2>2 DEF TypeOK
    <2>6. CASE request = "references"
        <3>1. item \in Locations(result)
            BY <2>4, <2>6 DEF AnswerTo
        <3>2. PICK n \in getReferences(result) : item = Tree.token[n]
            BY <3>1 DEF Locations
        <3>3. n \in referencesMap[name[result]]
            BY <3>2 DEF getReferences
        <3> QED
            BY <2>2, <2>5, <2>6, <3>2, <3>3 DEF TypeOK, NamesAgree
    <2>7. CASE request = "definition"
        <3>1. item \in Links(result)
            BY <2>4, <2>7 DEF AnswerTo
        <3>2. PICK c \in getDefinations(result) : item.selectionRange = SelectionRange(c)
            BY <3>1 DEF Links
        <3>3. c \in definitionsMap[name[result]] /\ c \in Clauses
            BY <2>2, <2>5, <3>2 DEF getDefinations, TypeOK
        <3>4. callerNode[c] \in Nodes /\ name[callerNode[c]] = name[result]
            BY <2>2, <2>5, <3>3 DEF TypeOK, CallersMatch
        <3> QED
            BY <2>7, <3>2, <3>4 DEF SelectionRange
    <2> QED
        BY <2>1, <2>6, <2>7
<1> QED
    BY <1>1, RequestsInvHolds, PTL

--------------------------------------------------------------------------------
(* The ranges of answers. *)

\* Heads are found in the terms they are heads of.
LEMMA UnqualifiedUnder ==
    ASSUME file \in Files, NEW n \in Nodes
    PROVE  Unqualified[n] \in U(n)
<1> DEFINE T == {m \in Nodes : Unqualified[m] \notin U(m)}
<1> SUFFICES ASSUME T # {} PROVE FALSE
    OBVIOUS
<1>1. PICK m \in T : \A i \in 1..Len(file.args[m]) : file.args[m][i] \notin T
    BY LowestNode
<1>2. CASE Reads(m, {":"}, 2)
    <2>1. PICK i \in 1..Len(file.args[m]) : Sub(m, 2) = file.args[m][i]
        BY <1>2, ReadsArgument
    <2>2. Sub(m, 2) \in Nodes \ T /\ U(Sub(m, 2)) \subseteq U(m)
        BY <1>1, <2>1, Subtrees
    <2>3. Unqualified[m] = Unqualified[Sub(m, 2)]
        BY <1>2, UnqualifiedEquation
    <2> QED
        BY <1>1, <2>2, <2>3
<1>3. CASE ~ Reads(m, {":"}, 2)
    <2>1. Unqualified[m] = m
        BY <1>3, UnqualifiedEquation
    <2> QED
        BY <1>1, <2>1, Subtrees
<1> QED
    BY <1>2, <1>3

LEMMA DCGHeadUnder ==
    ASSUME file \in Files, NEW n \in Nodes
    PROVE  DCGHeadOf[n] \in U(n)
<1> DEFINE T == {m \in Nodes : DCGHeadOf[m] \notin U(m)}
<1> SUFFICES ASSUME T # {} PROVE FALSE
    OBVIOUS
<1>1. PICK m \in T : \A i \in 1..Len(file.args[m]) : file.args[m][i] \notin T
    BY LowestNode
<1>2. ASSUME NEW i \in 1..Len(file.args[m]), DCGHeadOf[m] = DCGHeadOf[file.args[m][i]] PROVE FALSE
    <2>1. file.args[m][i] \in Nodes \ T /\ U(file.args[m][i]) \subseteq U(m)
        BY <1>1, Subtrees
    <2> QED
        BY <1>1, <1>2, <2>1
<1>3. CASE Reads(m, {","}, 2)
    <2>1. DCGHeadOf[m] = DCGHeadOf[Sub(m, 1)]
        BY <1>3, DCGHeadEquation
    <2>2. \E i \in 1..Len(file.args[m]) : Sub(m, 1) = file.args[m][i]
        BY <1>3, ReadsArgument
    <2> QED
        BY <1>2, <2>1, <2>2
<1>4. CASE Reads(m, {":"}, 2)
    <2>1. DCGHeadOf[m] = DCGHeadOf[Sub(m, 2)]
        BY <1>4, DCGHeadEquation
    <2>2. \E i \in 1..Len(file.args[m]) : Sub(m, 2) = file.args[m][i]
        BY <1>4, ReadsArgument
    <2> QED
        BY <1>2, <2>1, <2>2
<1>5. CASE ~ Reads(m, {","}, 2) /\ ~ Reads(m, {":"}, 2)
    <2>1. DCGHeadOf[m] = m
        BY <1>5, DCGHeadEquation
    <2> QED
        BY <1>1, <2>1, Subtrees
<1> QED
    BY <1>3, <1>4, <1>5

LEMMA HeadsUnder ==
    ASSUME file \in Files, NEW c \in Clauses, NEW d \in DefinedHeads(c)
    PROVE  d[1] \in U(Term(c))
<1>1. Term(c) \in Nodes
    BY FilesAssumption DEF IsFile, Term, Clauses, Nodes
<1>2. \A m, k : <<m, k>>[1] = m
    OBVIOUS
\* a head is looked for in the first argument
<1>3. ASSUME NEW vs, Reads(Term(c), vs, 2)
      PROVE  Sub(Term(c), 1) \in Nodes /\ U(Sub(Term(c), 1)) \subseteq U(Term(c))
    <2>1. \E i \in 1..Len(file.args[Term(c)]) : Sub(Term(c), 1) = file.args[Term(c)][i]
        BY <1>1, <1>3, ReadsArgument
    <2> QED
        BY <1>1, <2>1, Subtrees
<1>4. CASE Reads(Term(c), {":-"}, 2)
    <2>1. d[1] = Unqualified[Sub(Term(c), 1)]
        BY <1>1, <1>2, <1>4, HeadsEquation
    <2> QED
        BY <1>3, <1>4, <2>1, UnqualifiedUnder
<1>5. CASE Reads(Term(c), {"-->"}, 2)
    <2>1. d[1] = DCGHeadOf[Sub(Term(c), 1)]
        BY <1>1, <1>2, <1>5, HeadsEquation
    <2> QED
        BY <1>3, <1>5, <2>1, DCGHeadUnder
<1>6. CASE Reads(Term(c), {":-"}, 1) \/ Reads(Term(c), {":"}, 2)
    <2>1. DefinedHeads(c) = {}
        BY <1>1, <1>6, HeadsEquation
    <2> QED
        BY <2>1
<1>7. CASE ~ (\/ Reads(Term(c), {":-"}, 2) \/ Reads(Term(c), {"-->"}, 2)
              \/ Reads(Term(c), {":-"}, 1) \/ Reads(Term(c), {":"}, 2))
    <2>1. d[1] = Term(c)
        BY <1>1, <1>2, <1>7, HeadsEquation
    <2> QED
        BY <1>1, <2>1, Subtrees
<1> QED
    BY <1>4, <1>5, <1>6, <1>7

\* What is below a node for the indexer is below it for the search.
LEMMA UnderInTree ==
    ASSUME file \in Files, Tree # None, NEW n \in Nodes
    PROVE  U(n) \subseteq Tree.under[n]
<1> DEFINE T == {m \in Nodes : ~ (U(m) \subseteq Tree.under[m])}
<1> SUFFICES ASSUME T # {} PROVE FALSE
    OBVIOUS
<1>1. PICK m \in T : \A i \in 1..Len(file.args[m]) : file.args[m][i] \notin T
    BY LowestNode
<1>2. Found!WellFormed(Tree) /\ TreeFits(file) /\ IsForest(file) /\ m \in NodesOf(file)
    BY <1>1, TreeOfFile, FilesAssumption DEF Nodes
<1>3. m \in Found!NodesOf(Tree) /\ Tree.args[m] = file.args[m]
    BY <1>2 DEF TreeFits, Tree, Found!NodesOf
<1>4. U(m) = {m} \cup UNION {U(file.args[m][i]) : i \in 1..Len(file.args[m])}
    BY <1>2 DEF IsForest, U
<1>5. Tree.under[m] = {m} \cup UNION {Tree.under[Tree.args[m][i]] : i \in 1..Len(Tree.args[m])}
    BY <1>2, <1>3 DEF Found!WellFormed, Found!IsNested
<1>6. ASSUME NEW i \in 1..Len(file.args[m]) PROVE U(file.args[m][i]) \subseteq Tree.under[file.args[m][i]]
    BY <1>1, Subtrees
<1>7. U(m) \subseteq Tree.under[m]
    BY <1>3, <1>4, <1>5, <1>6
<1> QED
    BY <1>1, <1>7

\* The caller node of a clause is in the range of the clause.
LEMMA CallerIsWithin ==
    ASSUME GraphInv, Parsed, Tree # None, NEW k \in Names(file), NEW c \in definitionsMap[k]
    PROVE  Within(SelectionRange(c), ClauseRange(c))
<1>1. TypeOK /\ CallersMatch /\ HeadsAreDefined /\ file \in Files
    BY HeadsAreSettled DEF GraphInv, IInv
<1>2. c \in Clauses /\ callerNode[c] # None
    BY <1>1 DEF TypeOK, CallersMatch
<1>3. Analysed(c)
    BY <1>1, <1>2 DEF Parsed, Analysed, Clauses, TypeOK
<1>4. callerNode[c] \in U(Term(c)) /\ callerNode[c] \in Nodes
    <2>1. {callerNode[c]} \ {None} = {d[1] : d \in DefinedHeads(c)}
        BY <1>1, <1>2, <1>3 DEF HeadsAreDefined
    <2>2. PICK d \in DefinedHeads(c) : callerNode[c] = d[1]
        BY <1>2, <2>1
    <2> QED
        BY <1>1, <1>2, <2>2, HeadsUnder DEF TypeOK
<1> DEFINE clause == Tree.clauses[c]
<1>5. Found!WellFormed(Tree) /\ TreeFits(file)
    BY <1>1, TreeOfFile
<1>6. /\ clause \in Found!NodesOf(Tree) /\ Tree.args[clause] = <<Term(c)>>
    BY <1>2, <1>5 DEF Found!WellFormed, Found!IsFile, TreeFits, Clauses, Tree, Term
<1>7. Term(c) \in Nodes
    BY <1>1, <1>2, FilesAssumption DEF IsFile, Term, Clauses, Nodes
<1>8. Tree.under[Term(c)] \subseteq Tree.under[clause]
    <2>1. Tree.under[clause] =
              {clause} \cup UNION {Tree.under[Tree.args[clause][i]] : i \in 1..Len(Tree.args[clause])}
        BY <1>5, <1>6 DEF Found!WellFormed, Found!IsNested
    <2>2. 1 \in 1..Len(<<Term(c)>>) /\ <<Term(c)>>[1] = Term(c)
        OBVIOUS
    <2> HIDE DEF clause
    <2>3. 1 \in 1..Len(Tree.args[clause]) /\ Tree.args[clause][1] = Term(c)
        BY <1>6, <2>2
    <2> QED
        BY <2>1, <2>3
<1>9. callerNode[c] \in Tree.under[clause] /\ Tree.token[callerNode[c]] # None
    BY <1>1, <1>4, <1>7, <1>8, UnderInTree, NodesAreNoClauses
<1>10. /\ Tree.range[clause].start <= Tree.token[callerNode[c]].start
       /\ Tree.token[callerNode[c]].end <= Tree.range[clause].end
    BY <1>5, <1>6, <1>9 DEF Found!WellFormed, Found!IsNested
<1> QED
    BY <1>10 DEF Within, SelectionRange, ClauseRange

\* A set of clauses has a first one.
LEMMA FirstIsThere ==
    ASSUME file \in Files, NEW S, S \subseteq Clauses, S # {}
    PROVE  FirstOf(S) \in S
<1> DEFINE R == StrictSubsetOrdering(Clauses)
           upTo == {1..c : c \in S}
<1>1. Len(file.terms) \in Nat
    BY FilesAssumption DEF IsFile
<1>2. IsFiniteSet(Clauses)
    BY <1>1, FS_Interval DEF Clauses
<1>3. IsWellFoundedOn(R, SUBSET Clauses)
    BY <1>2, FS_StrictSubsetOrderingWellFounded, FS_FiniteSubsetsOfFinite
<1>4. upTo \subseteq SUBSET Clauses /\ upTo # {}
    <2>1. ASSUME NEW c \in S PROVE 1..c \in SUBSET Clauses
        <3>1. c \in Nat /\ c <= Len(file.terms)
            BY <1>1 DEF Clauses
        <3>2. 1..c \subseteq Clauses
            BY <1>1, <3>1 DEF Clauses
        <3> QED
            BY <3>2
    <2> QED
        BY <2>1
<1>5. PICK u \in upTo : \A v \in upTo : <<v, u>> \notin R
    BY <1>3, <1>4, WFMin
<1>6. PICK c \in S : u = 1..c
    BY <1>5
<1>7. ASSUME NEW d \in S, ~ (c <= d) PROVE FALSE
    <2>1. c \in Nat /\ d \in Nat /\ d < c /\ c \in 1..c /\ c \notin 1..d /\ 1..d \subseteq 1..c
        BY <1>1, <1>7 DEF Clauses
    <2>2. 1..d \in upTo /\ 1..d # u /\ 1..d \subseteq u
        BY <1>6, <2>1
    <2>3. <<1..d, u>> \in R
        BY <1>4, <1>5, <2>2 DEF StrictSubsetOrdering
    <2> QED
        BY <1>5, <2>2, <2>3
<1>8. \A d \in S : c <= d
    BY <1>7
<1> QED
    BY <1>6, <1>8 DEF FirstOf

\* What is found is where the position is.
LEMMA FoundIsTouched ==
    ASSUME SearchInv, Tree # None, method = "return", result # None
    PROVE  Search!Touches(pos, Tree.range[result])
<1>1. Found!IInv
    BY DEF SearchInv
<1>2. PICK c \in Found!ClausesHere : result \in Tree.under[c] /\ Found!IsAt(Tree, pos, result)
    BY <1>1 DEF Found!IInv, Found!ReturnsWhatIsThere
<1>3. /\ Tree \in Trees /\ result \in Found!NodesOf(Tree) /\ pos \in Found!PositionsOf(Tree)
    BY <1>1 DEF Found!IInv, Found!TypeOK
<1>4. Tree.token[result] # None /\ Found!Touches(pos, Tree.token[result])
    BY <1>2 DEF Found!IsAt
<1>5. /\ Tree.range[result].start \in Nat /\ Tree.range[result].end \in Nat
      /\ Tree.token[result].start \in Nat /\ Tree.token[result].end \in Nat
    BY <1>3, <1>4, TreesAreWellFormed, Found!RangeShape
<1>6. /\ Tree.range[result].start <= Tree.token[result].start
      /\ Tree.token[result].end <= Tree.range[result].end
    <2>1. result \in Tree.under[result]
        BY <1>3, TreesAreWellFormed, Found!SubtreeShape
    <2> QED
        BY <1>3, <1>4, <2>1, TreesAreWellFormed, Found!SubtreeShape
<1>7. pos \in Nat
    BY <1>3, TreesAreWellFormed DEF Found!WellFormed, Found!IsFile
<1> QED
    BY <1>4, <1>5, <1>6, <1>7 DEF Found!Touches, Found!IsLeft, Found!IsRight,
                                   Search!Touches, Search!IsLeft, Search!IsRight

LEMMA FoundIsNode ==
    ASSUME SearchInv, Tree # None, file \in Files, method = "return", result # None,
           result \notin ClauseNodes
    PROVE  result \in Nodes
<1>1. result \in Found!NodesOf(Tree)
    BY DEF SearchInv, Found!IInv, Found!TypeOK
<1>2. TreeFits(file)
    BY TreeOfFile
<1> QED
    BY <1>1, <1>2 DEF TreeFits, ClauseNodes, Clauses, Nodes, Tree, Found!NodesOf

\* The ranges of an answer fit together: the name of a clause is selected inside the clause,
\* and what a definition link or a hover says it is about is where the cursor is.
THEOREM RangesAlwaysFit == RequestsSpec => []RangesFit
<1>1. ASSUME RequestsInv PROVE RangesFit
    <2>1. SUFFICES ASSUME answer # None, NEW item \in answer.items
                   PROVE  /\ request \in {"documentSymbol", "definition"} => Within(item.selectionRange, item.range)
                          /\ request = "definition" => Search!Touches(pos, item.origin)
                          /\ request = "hover" => Search!Touches(pos, item.range)
        BY DEF RangesFit
    <2>2. GraphInv /\ SearchInv /\ AnswersInv /\ request # None
        BY <1>1, <2>1, NoneAssumption DEF RequestsInv, AnswersInv
    <2>3. Parsed /\ Tree # None /\ file \in Files /\ TypeOK
        BY <2>2 DEF AnswersInv, GraphInv, IInv
    <2>4. CASE request = "documentSymbol"
        <3>1. answer.items = Symbols
            BY <2>1, <2>2, <2>4 DEF AnswersInv, Answer
        <3>2. PICK k \in {key \in DOMAIN definitionsMap : definitionsMap[key] # {}} :
                  item = [name |-> k, range |-> ClauseRange(SymbolClause(k)),
                          selectionRange |-> SelectionRange(SymbolClause(k))]
            BY <2>1, <3>1 DEF Symbols
        <3>3. k \in Names(file) /\ definitionsMap[k] \subseteq Clauses /\ definitionsMap[k] # {}
            BY <2>3, <3>2 DEF TypeOK
        <3>4. SymbolClause(k) \in definitionsMap[k]
            BY <2>3, <3>3, FirstIsThere DEF SymbolClause
        <3>5. Within(SelectionRange(SymbolClause(k)), ClauseRange(SymbolClause(k)))
            BY <2>2, <2>3, <3>3, <3>4, CallerIsWithin
        <3>6. item.range = ClauseRange(SymbolClause(k)) /\ item.selectionRange = SelectionRange(SymbolClause(k))
            BY <3>2
        <3> QED
            BY <2>4, <3>5, <3>6
    <2>5. CASE request \in AtPosition
        <3>1. /\ method = "return"
              /\ answer = Failure \/ answer = Answer({})
                 \/ (result # None /\ answer = Answer(AnswerTo(request, result)))
            BY <2>1, <2>2, <2>5 DEF AnswersInv
        <3>2. result # None /\ item \in AnswerTo(request, result)
            BY <2>1, <3>1 DEF Answer, Failure
        <3>3. Search!Touches(pos, Tree.range[result])
            BY <2>2, <2>3, <3>1, <3>2, FoundIsTouched
        <3>4. CASE request = "definition"
            <4>1. item \in Links(result)
                BY <3>2, <3>4 DEF AnswerTo
            <4>2. PICK c \in getDefinations(result) :
                      item = [origin |-> Tree.range[result], range |-> ClauseRange(c),
                              selectionRange |-> SelectionRange(c)]
                BY <4>1 DEF Links
            <4>3. /\ item.origin = Tree.range[result] /\ item.range = ClauseRange(c)
                  /\ item.selectionRange = SelectionRange(c)
                BY <4>2
            <4>4. result \notin ClauseNodes /\ c \in definitionsMap[name[result]]
                BY <4>2 DEF getDefinations
            <4>5. result \in Nodes
                BY <2>2, <2>3, <3>1, <3>2, <4>4, FoundIsNode
            <4>6. name[result] \in Names(file)
                BY <2>3, <4>5 DEF TypeOK
            <4>7. Within(SelectionRange(c), ClauseRange(c))
                BY <2>2, <2>3, <4>4, <4>6, CallerIsWithin
            <4> QED
                BY <3>3, <3>4, <4>3, <4>7
        <3>5. CASE request = "hover"
            <4>1. item \in Hover(result)
                BY <3>2, <3>5 DEF AnswerTo
            <4>2. item.range = Tree.range[result]
                BY <4>1 DEF Hover
            <4> QED
                BY <3>3, <3>5, <4>2
        <3>6. CASE request = "references"
            BY <3>6
        <3> QED
            BY <2>5, <3>4, <3>5, <3>6 DEF AtPosition
    <2> QED
        BY <2>2, <2>1, <2>4, <2>5 DEF AnswersInv
<1> QED
    BY <1>1, RequestsInvHolds, PTL

--------------------------------------------------------------------------------
(* Requests come to an end. *)

\* Whatever the document and the position, every step of the search that a request waits for
\* leaves less to be searched, in a tree of finitely many nodes: the loop that serves all
\* requests gets out of it, and the handler answers.
THEOREM SearchesOfRequestsNarrow == RequestsSpec => [][search => Found!Narrows]_requestVars
<1>1. ASSUME SearchInv, TypeOK, AnswersInv, search PROVE Found!Narrows
    <2>1. Found!Step
        BY <1>1, SearchIsFound DEF search
    <2>2. Tree # None
        BY <1>1, NoneAssumption DEF search, AnswersInv, AtPosition
    <2>3. Found!IInv
        BY <1>1, <2>2 DEF SearchInv
    <2> QED
        BY <2>1, <2>3, TreesAreWellFormed, Found!EveryStepNarrows
<1>2. RequestsInv => SearchInv /\ TypeOK /\ AnswersInv
    BY DEF RequestsInv, GraphInv, IInv
<1>3. RequestsInv /\ [RequestsNext]_requestVars => [search => Found!Narrows]_requestVars
    BY <1>1, <1>2
<1> QED
    BY <1>3, RequestsInvHolds, PTL DEF RequestsSpec

================================================================================
