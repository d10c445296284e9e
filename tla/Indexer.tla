--------------------------------- MODULE Indexer ---------------------------------
(***************************************************************************)
(* The indexer (indexer.ts) and the graph it fills (graph.ts): the walk    *)
(* over the term of each clause that Parser.parse starts with              *)
(* clause.analyse.  The calls of the walk are a stack, the one that runs   *)
(* on top; a call that has others as its last deeds is replaced by them.   *)
(* What op/3, module/2 and use_module/1 do to operators and other files is *)
(* in ModuleLoader; here is what they add to the graph.                    *)
(*                                                                         *)
(* The name of a node is <<value>> for "value" and <<value, n>> for        *)
(* "value/n".                                                              *)
(***************************************************************************)
EXTENDS Integers, Sequences, FiniteSets

CONSTANTS
    Files,   \* the files that may be indexed
    None     \* undefined

(***************************************************************************)
(* A file: the terms of its clauses, and of each node its class in cst2.ts *)
(* ("atom", "atomic" for the other Atomics, "list", "compound"), its       *)
(* value, its arguments, and the nodes of its subtree.                     *)
(***************************************************************************)
NodesOf(f) == DOMAIN f.class

IsFile(f) ==
    /\ IsFiniteSet(NodesOf(f))
    /\ None \notin NodesOf(f)
    /\ f.terms \in Seq(NodesOf(f))
    /\ f.class \in [NodesOf(f) -> {"atom", "atomic", "list", "compound"}]
    /\ DOMAIN f.value = NodesOf(f)
    /\ f.args \in [NodesOf(f) -> Seq(NodesOf(f))]
    /\ f.under \in [NodesOf(f) -> SUBSET NodesOf(f)]
    /\ \A n \in NodesOf(f) :
          /\ f.class[n] = "list" => Len(f.args[n]) = 2
          /\ f.class[n] \in {"atom", "atomic"} => f.args[n] = <<>>

\* The subtrees of the arguments of a node, and those of the clauses, are apart.
IsForest(f) ==
    /\ \A n \in NodesOf(f) :
          /\ f.under[n] = {n} \cup UNION {f.under[f.args[n][i]] : i \in 1..Len(f.args[n])}
          /\ \A i, j \in 1..Len(f.args[n]) :
                /\ n \notin f.under[f.args[n][i]]
                /\ i # j => f.under[f.args[n][i]] \cap f.under[f.args[n][j]] = {}
    /\ \A i, j \in 1..Len(f.terms) :
          i # j => f.under[f.terms[i]] \cap f.under[f.terms[j]] = {}

ASSUME FilesAssumption == \A f \in Files : IsFile(f) /\ IsForest(f)

--------------------------------------------------------------------------------
VARIABLES
    file,            \* the file
    next,            \* the number of clauses the parser has produced
    calls,           \* the stack of calls of the walk over the last of them
    name,            \* the name of each node
    callerNode,      \* of each clause, the node that it is a clause of
    definitionsMap,  \* of a name, the clauses that define it
    referencesMap    \* of a name, the nodes that refer to it

graph == <<definitionsMap, referencesMap>>
vars  == <<file, next, calls, name, callerNode, definitionsMap, referencesMap>>

Nodes   == NodesOf(file)
Clauses == 1..Len(file.terms)

\* the constructors of cst2.ts
InitialName(f, n) ==
    CASE f.class[n] \in {"atom", "atomic"} -> <<f.value[n]>>
      [] f.class[n] = "list"               -> <<"[|]", 2>>
      [] f.class[n] = "compound"           -> <<f.value[n], Len(f.args[n])>>

\* a plausible mistake in dcg_extend: no argument more
NotExtended(n) == InitialName(file, n)

\* what dcg_extend makes of it
Extended(n) ==
    CASE file.class[n] = "atom"                  -> <<file.value[n], 2>>
      [] file.class[n] = "atomic"                -> name[n]
      [] file.class[n] \in {"list", "compound"}  -> <<file.value[n], Len(file.args[n]) + 2>>

Names(f) ==
    {<<"true">>} \cup
    UNION {{<<f.value[n]>>, InitialName(f, n), <<f.value[n], 2>>, <<f.value[n], Len(f.args[n]) + 2>>}
              : n \in NodesOf(f)}

\* with a new graph
Start ==
    /\ next = 0
    /\ calls = <<>>
    /\ name = [n \in NodesOf(file) |-> InitialName(file, n)]
    /\ callerNode = [c \in 1..Len(file.terms) |-> None]
    /\ definitionsMap = [k \in Names(file) |-> {}]
    /\ referencesMap = [k \in Names(file) |-> {}]

Init == file \in Files /\ Start

--------------------------------------------------------------------------------
Call(fn, n) == [fn |-> fn, node |-> n]
Top         == calls[1]
Node        == Top.node
Arg(i)      == file.args[Node][i]
Runs(fn)    == calls # <<>> /\ Top.fn = fn

\* the call that runs ends, or goes on with `others`
GoOnWith(others) == calls' = others \o Tail(calls)
Walks(others)    == GoOnWith(others) /\ UNCHANGED <<name, callerNode, graph>>

IsNamed(n, functors, arity) == \E v \in functors : name[n] = <<v, arity>>

addReference(n, k) ==
    referencesMap' = [referencesMap EXCEPT ![k] = @ \cup {n}]

addDefinition(k) ==
    definitionsMap' = [definitionsMap EXCEPT ![k] = @ \cup {next}]

SetCaller == callerNode' = [callerNode EXCEPT ![next] = Node]

\* Parser.parse: the next clause is read, and its analysis starts
NextClause ==
    /\ calls = <<>>
    /\ next < Len(file.terms)
    /\ next' = next + 1
    /\ calls' = <<Call("index", file.terms[next + 1])>>
    /\ UNCHANGED <<file, name, callerNode, graph>>

\* addRefAndIndexArg: the node, then its arguments
RefArgs(n) == [i \in 1..Len(file.args[n]) |-> Call("addRefAndIndexArg", file.args[n][i])]

addRefAndIndexArg ==
    /\ Runs("addRefAndIndexArg")
    /\ addReference(Node, name[Node])
    /\ GoOnWith(RefArgs(Node))
    /\ UNCHANGED <<name, callerNode, definitionsMap>>

Rule(n)      == IsNamed(n, {":-"}, 2)
Grammar(n)   == IsNamed(n, {"-->"}, 2)
Directive(n) == IsNamed(n, {":-"}, 1)
Qualified(n) == IsNamed(n, {":"}, 2)

Fact(n) == ~ (Rule(n) \/ Grammar(n) \/ Directive(n) \/ Qualified(n))

index ==
    /\ Runs("index")
    /\ \/ /\ Directive(Node)
          /\ Walks(<<Call("ruleEval", Arg(1))>>)
       \/ /\ Rule(Node)
          /\ Walks(<<Call("ruleHead", Arg(1)), Call("ruleBody", Arg(2))>>)
       \/ /\ Grammar(Node)
          /\ Walks(<<Call("DCGHead", Arg(1)), Call("DCGBody", Arg(2))>>)
       \/ /\ Qualified(Node)
          /\ Walks(<<Call("addRefAndIndexArg", Arg(1)), Call("DCGBody", Arg(2))>>)
       \/ /\ Fact(Node)
          /\ addDefinition(name[Node])
          /\ SetCaller
          /\ GoOnWith(<<>>)
          /\ UNCHANGED <<name, referencesMap>>

ruleHead ==
    /\ Runs("ruleHead")
    /\ \/ /\ Qualified(Node)
          /\ Walks(<<Call("addRefAndIndexArg", Arg(1)), Call("ruleHead", Arg(2))>>)
       \/ /\ ~ Qualified(Node)
          /\ addDefinition(name[Node])
          /\ SetCaller
          /\ GoOnWith(<<Call("addRefAndIndexArg", Node)>>)
          /\ UNCHANGED <<name, referencesMap>>

\* a plausible mistake: one control structure is forgotten
ControlButSoftCut(n) == IsNamed(n, {",", ";", "|", "->"}, 2)

\* the control structures of both kinds of bodies
Control(n) == IsNamed(n, {",", ";", "|", "*->", "->"}, 2)
Negated(n) == IsNamed(n, {"\\+"}, 1)

ruleBody ==
    /\ Runs("ruleBody")
    /\ \/ /\ Control(Node)
          /\ Walks(<<Call("ruleBody", Arg(1)), Call("ruleBody", Arg(2))>>)
       \/ /\ Negated(Node)
          /\ Walks(<<Call("ruleBody", Arg(1))>>)
       \/ /\ Qualified(Node)   \* the second call is made with the module again
          /\ Walks(<<Call("addRefAndIndexArg", Arg(1)), Call("ruleBody", Arg(1))>>)
       \/ /\ ~ (Control(Node) \/ Negated(Node) \/ Qualified(Node))
          /\ addReference(Node, name[Node])
          /\ GoOnWith(<<Call("addRefAndIndexArg", Node)>>)
          /\ UNCHANGED <<name, callerNode, definitionsMap>>

\* dcg_extend
Extend == name' = [name EXCEPT ![Node] = Extended(Node)]

\* a plausible mistake: the head is entered under the name it had before
DefinedHead(n) == name[n]

\* the name a grammar rule is defined under
HeadName(n) == Extended(n)

\* how the pushback n is walked
PushbackWalk(n) == "DCGBody"

DCGHead ==
    /\ Runs("DCGHead")
    /\ \/ /\ IsNamed(Node, {","}, 2)
          /\ Walks(<<Call("DCGHead", Arg(1)), Call(PushbackWalk(Arg(2)), Arg(2))>>)
       \/ /\ Qualified(Node)
          /\ Walks(<<Call("addRefAndIndexArg", Arg(1)), Call("DCGHead", Arg(2))>>)
       \/ /\ ~ (IsNamed(Node, {","}, 2) \/ Qualified(Node))
          /\ Extend
          /\ SetCaller
          /\ addDefinition(HeadName(Node))
          /\ GoOnWith(<<Call("addRefAndIndexArg", Node)>>)
          /\ UNCHANGED referencesMap

\* the names DCGBody has a case for, beside control, negation and modules
Terminals(n) == name[n] = <<"[|]", 2>>
Braces(n)    == IsNamed(n, {"{}"}, 1)
Skipped(n)   == name[n] \in {<<"!">>, <<"[]">>}
Empty(n)     == name[n] = <<"{}">>

DCGControl(n) == Control(n) \/ Grammar(n)

Nonterminal(n) ==
    ~ (\/ DCGControl(n) \/ Qualified(n) \/ Terminals(n)
       \/ Braces(n) \/ Negated(n) \/ Skipped(n) \/ Empty(n))

\* a plausible mistake: the reference is entered under the name it had before
ReferredName(n) == name[n]

\* the name a nonterminal is referred to by
BodyName(n) == Extended(n)

DCGBody ==
    /\ Runs("DCGBody")
    /\ \/ /\ DCGControl(Node)
          /\ Walks(<<Call("DCGBody", Arg(1)), Call("DCGBody", Arg(2))>>)
       \/ /\ Qualified(Node)
          /\ Walks(<<Call("addRefAndIndexArg", Arg(1)), Call("DCGBody", Arg(2))>>)
       \/ /\ Terminals(Node)
          /\ Walks(<<Call("addRefAndIndexArg", Arg(1)), Call("addRefAndIndexArg", Arg(2))>>)
       \/ /\ Braces(Node) \/ Negated(Node)
          /\ Walks(<<Call("addRefAndIndexArg", Arg(1))>>)
       \/ /\ Skipped(Node)
          /\ Walks(<<>>)
       \/ /\ Empty(Node)
          /\ name' = [name EXCEPT ![Node] = <<"true">>]
          /\ GoOnWith(<<>>)
          /\ UNCHANGED <<callerNode, graph>>
       \/ /\ Nonterminal(Node)
          /\ Extend
          /\ addReference(Node, BodyName(Node))
          /\ GoOnWith(<<>>)
          /\ UNCHANGED <<callerNode, definitionsMap>>

\* module/2: the export list is walked, then the directive is indexed like others
ModuleCalls ==
    IF file.class[Arg(1)] = "atom" /\ file.class[Arg(2)] = "list"
    THEN <<Call("publicList", Arg(2)), Call("addRefAndIndexArg", Node)>>
    ELSE <<Call("addRefAndIndexArg", Node)>>

\* use_module/1: the directive, and library(L), are referred to; the name of a file is not
UseModule ==
    /\ IsNamed(Node, {"use_module"}, 1)
    /\ LET library == {n \in {Arg(1)} : IsNamed(n, {"library"}, 1)}
       IN  referencesMap' = [k \in DOMAIN referencesMap |->
                referencesMap[k] \cup {n \in {Node} \cup library : name[n] = k}]
    /\ GoOnWith(<<>>)
    /\ UNCHANGED <<name, callerNode, definitionsMap>>

ruleEval ==
    /\ Runs("ruleEval")
    /\ \/ /\ IsNamed(Node, {","}, 2)
          /\ Walks(<<Call("ruleEval", Arg(1)), Call("ruleEval", Arg(2))>>)
       \/ /\ IsNamed(Node, {"module"}, 2)
          /\ Walks(ModuleCalls)
       \/ UseModule
       \/ /\ ~ IsNamed(Node, {",", "module"}, 2) /\ ~ IsNamed(Node, {"use_module"}, 1)
          /\ Walks(<<Call("addRefAndIndexArg", Node)>>)

RestOfList(n) == file.args[n][2]

\* publicList: operators are indexed, up to the first export that is none
publicList ==
    /\ Runs("publicList")
    /\ \/ /\ Terminals(Node) /\ IsNamed(Arg(1), {"op"}, 3)
          /\ Walks(<<Call("addRefAndIndexArg", Arg(1)), Call("publicList", RestOfList(Node))>>)
       \/ /\ Terminals(Node) /\ ~ IsNamed(Arg(1), {"op"}, 3)
          /\ Walks(<<>>)
       \/ /\ ~ Terminals(Node)
          /\ Walks(<<Call("addRefAndIndexArg", Node)>>)

Step ==
    /\ \/ addRefAndIndexArg \/ index \/ ruleHead \/ ruleBody
       \/ DCGHead \/ DCGBody \/ ruleEval \/ publicList
    /\ UNCHANGED <<file, next>>

Next == NextClause \/ Step

\* parse is a synchronous call
Spec == Init /\ [][Next]_vars /\ WF_vars(Next)

--------------------------------------------------------------------------------
(***************************************************************************)
(* What the server answers from: between two walks, definitionsMap and     *)
(* callerNode give the outline and the definitions of a name, and          *)
(* referencesMap its references.                                           *)
(***************************************************************************)
Functions == {"addRefAndIndexArg", "index", "ruleHead", "ruleBody",
              "DCGHead", "DCGBody", "ruleEval", "publicList"}

\* The graph keeps clauses by names and nodes by names, and the stack the calls.
TypeOK ==
    /\ next \in 0..Len(file.terms)
    /\ calls \in Seq([fn : Functions, node : Nodes])
    /\ name \in [Nodes -> Names(file)]
    /\ callerNode \in [Clauses -> Nodes \cup {None}]
    /\ definitionsMap \in [Names(file) -> SUBSET Clauses]
    /\ referencesMap \in [Names(file) -> SUBSET Nodes]

\* A node is kept under the name that it has: a name is given to a node (by
\* dcg_extend, or "true" to {}) before the node is entered, never after.
\* onReferences looks a node up by the name it has now.
NamesAgree == \A k \in DOMAIN referencesMap : \A n \in referencesMap[k] : name[n] = k

\* A clause that defines a name has a caller node with that name: onDefinition
\* and onDocumentSymbol read clause.callerNode!.token without a test.
CallersMatch ==
    \A k \in DOMAIN definitionsMap : \A c \in definitionsMap[k] :
        callerNode[c] # None /\ name[callerNode[c]] = k

\* A clause is given to one head: no part of its walk, pushback and nested
\* modules included, replaces the caller node that the head has set.
OneCallerPerClause ==
    [][\A c \in Clauses : callerNode[c] # None => callerNode'[c] = callerNode[c]]_vars

--------------------------------------------------------------------------------
\* The head that a clause is for, and its goals, by the text of the clause alone.
Text(n)             == InitialName(file, n)
Reads(n, vs, arity) == \E v \in vs : Text(n) = <<v, arity>>
Sub(n, i)           == file.args[n][i]
Term(c)             == file.terms[c]

\* what the modules in front of a term are of
Unqualified[n \in Nodes] == IF Reads(n, {":"}, 2) THEN Unqualified[Sub(n, 2)] ELSE n

DCGHeadOf[n \in Nodes] ==
    CASE Reads(n, {","}, 2) -> DCGHeadOf[Sub(n, 1)]
      [] Reads(n, {":"}, 2) -> DCGHeadOf[Sub(n, 2)]
      [] OTHER              -> n

\* the name of a predicate that n is the head or a goal of in a grammar rule
Called(n) == IF file.class[n] = "atomic" THEN Text(n) ELSE <<file.value[n], Len(file.args[n]) + 2>>

\* the head of the clause and the name it defines, if it is a clause of a predicate: a
\* fact, a rule or a grammar rule, with modules in front of it or not
HeadsOf(c) ==
    LET t == Unqualified[Term(c)]
    IN  CASE Reads(t, {":-"}, 1) -> {}
          [] Reads(t, {":-"}, 2) -> LET h == Unqualified[Sub(t, 1)] IN {<<h, Text(h)>>}
          [] Reads(t, {"-->"}, 2) -> LET h == DCGHeadOf[Sub(t, 1)] IN {<<h, Called(h)>>}
          [] OTHER -> {<<t, Text(t)>>}

\* m:p., m:(h :- b). and the like: index (31-35) walks what is behind the module as the
\* body of a grammar rule, so that it renames p to p/2, enters it as a reference, and
\* defines nothing
InModule(c) == Reads(Term(c), {":"}, 2)

\* the heads that are defined, then
DefinedHeads(c) == IF InModule(c) THEN {} ELSE HeadsOf(c)

Analysed(c) == c < next \/ (c = next /\ calls = <<>>)

\* A clause that has been walked, unless it has a module in front, is a clause of its
\* head, under the name of the predicate that the head is of (a grammar rule's with two
\* arguments more), and of no other: the outline and Goto Definition show it there and
\* only there.  A clause with a module in front is under no name, which is a gap of
\* index (31-35): its head is shown nowhere.
HeadsAreDefined ==
    \A c \in Clauses : Analysed(c) =>
        /\ {callerNode[c]} \ {None} = {d[1] : d \in DefinedHeads(c)}
        /\ {k \in Names(file) : c \in definitionsMap[k]} = {d[2] : d \in DefinedHeads(c)}

\* The goals of a rule's body and the nonterminals of a grammar rule's, and the
\* names they call; `reaches` says whether the goal m:g of a rule is followed to g.
\* What a grammar rule has under \+ is left out, and clauses with a module in front are.
RuleGoals(reaches) ==
    LET goals[n \in Nodes] ==
            CASE Reads(n, {",", ";", "|", "*->", "->"}, 2) -> goals[Sub(n, 1)] \cup goals[Sub(n, 2)]
              [] Reads(n, {"\\+"}, 1) -> goals[Sub(n, 1)]
              [] Reads(n, {":"}, 2)   -> IF reaches THEN goals[Sub(n, 2)] ELSE {}
              [] OTHER                -> {<<n, Text(n)>>}
    IN  goals

Nonterminals(reaches) ==
    LET goals[n \in Nodes] ==
            CASE Reads(n, {",", ";", "|", "*->", "->", "-->"}, 2) -> goals[Sub(n, 1)] \cup goals[Sub(n, 2)]
              [] Reads(n, {"\\+"}, 1) -> {}
              [] Reads(n, {":"}, 2)   -> goals[Sub(n, 2)]
              [] Reads(n, {"{}"}, 1)  -> RuleGoals(reaches)[Sub(n, 1)]
              [] Text(n) \in {<<"[|]", 2>>, <<"!">>, <<"[]">>, <<"{}">>} -> {}
              [] OTHER                -> {<<n, Called(n)>>}
    IN  goals

GoalsOf(c, reaches) ==
    CASE Reads(Term(c), {":-"}, 2)  -> RuleGoals(reaches)[Sub(Term(c), 2)]
      [] Reads(Term(c), {"-->"}, 2) -> Nonterminals(reaches)[Sub(Term(c), 2)]
      [] OTHER                      -> {}

\* Every goal and every nonterminal, m:g in a rule, \+ b in a grammar rule and clauses
\* with a module in front apart, is found under the name of the predicate it calls: Find References and Goto
\* Definition on it meet the name that the heads of the predicate are kept under.
GoalsAreReferenced ==
    \A c \in Clauses : Analysed(c) =>
        \A g \in GoalsOf(c, FALSE) : g[1] \in referencesMap[g[2]]

\* Find References "(Only in one file)" (README.md:5) finds every goal of the file.
\* It does not: see ruleBody, which goes into m and not into g for m:g.
EveryGoalIsReferenced ==
    \A c \in Clauses : Analysed(c) =>
        \A g \in GoalsOf(c, TRUE) : g[1] \in referencesMap[g[2]]

================================================================================
