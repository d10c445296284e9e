----------------------------- MODULE Indexer_proofs -----------------------------
(***************************************************************************)
(* Proofs about Indexer, for all files.  The walk renames nodes while it   *)
(* enters others in the graph; the graph stays right because a call that   *)
(* may rename nodes has its subtree for itself: no other call on the stack *)
(* looks into it, and no node of it is in the graph yet.                   *)
(***************************************************************************)
EXTENDS Indexer, FiniteSetTheorems, WellFoundedInduction, TLAPS

U(n) == file.under[n]

Calls == [fn : Functions, node : Nodes]

\* the calls that may rename nodes, and those that look for the head of the clause
Renames == {"index", "DCGHead", "DCGBody"}
Leads   == {"index", "ruleHead", "DCGHead"}

\* Every call but addRefAndIndexArg, which asks for no name, finds the names that
\* the constructors gave.
FreshNames ==
    \A i \in 1..Len(calls) : calls[i].fn # "addRefAndIndexArg" =>
        \A m \in U(calls[i].node) : name[m] = InitialName(file, m)

\* The subtree of a call that renames is apart from those of the others,
Apart ==
    \A i, j \in 1..Len(calls) :
        i # j /\ calls[i].fn \in Renames => U(calls[i].node) \cap U(calls[j].node) = {}

\* and nothing of it is in the graph.
NotEntered ==
    \A i \in 1..Len(calls) : calls[i].fn \in Renames =>
        \A m \in U(calls[i].node) :
            /\ \A k \in Names(file) : m \notin referencesMap[k]
            /\ \A c \in Clauses : callerNode[c] # m

\* Nothing has been done to the clauses that are still to come.
Untouched ==
    \A c \in Clauses : c > next =>
        /\ callerNode[c] = None
        /\ \A m \in U(file.terms[c]) :
              /\ name[m] = InitialName(file, m)
              /\ \A k \in Names(file) : m \notin referencesMap[k]
              /\ \A d \in Clauses : callerNode[d] # m
              /\ \A i \in 1..Len(calls) : m \notin U(calls[i].node)

\* The head of the clause is looked for by one call, until there is a caller node.
OneLead ==
    \A i \in 1..Len(calls) : calls[i].fn \in Leads =>
        /\ next \in Clauses
        /\ callerNode[next] = None
        /\ \A j \in 1..Len(calls) : calls[j].fn \in Leads => i = j

IInv ==
    /\ file \in Files
    /\ TypeOK
    /\ NamesAgree
    /\ CallersMatch
    /\ FreshNames
    /\ Apart
    /\ NotEntered
    /\ Untouched
    /\ OneLead
    /\ calls # <<>> => next \in Clauses

--------------------------------------------------------------------------------
\* A node that has a name with an arity n has n arguments.
LEMMA Arity ==
    ASSUME NEW f \in Files, NEW n \in NodesOf(f), NEW v, NEW k \in Nat,
           InitialName(f, n) = <<v, k>>
    PROVE  Len(f.args[n]) = k
<1>1. IsFile(f)
    BY FilesAssumption
<1>2. f.class[n] \in {"atom", "atomic", "list", "compound"}
    BY <1>1 DEF IsFile
<1>3. CASE f.class[n] \in {"atom", "atomic"}
    <2>1. InitialName(f, n) = <<f.value[n]>>
        BY <1>3 DEF InitialName
    <2>2. <<f.value[n]>> # <<v, k>>
        BY Len(<<f.value[n]>>) = 1, Len(<<v, k>>) = 2
    <2> QED
        BY <2>1, <2>2
<1>4. CASE f.class[n] = "list"
    <2>1. InitialName(f, n) = <<"[|]", 2>>
        BY <1>4 DEF InitialName
    <2>2. \A m \in NodesOf(f) : f.class[m] = "list" => Len(f.args[m]) = 2
        BY <1>1 DEF IsFile
    <2>3. Len(f.args[n]) = 2
        BY <1>4, <2>2
    <2>4. k = 2
        BY <2>1
    <2> QED
        BY <2>3, <2>4
<1>5. CASE f.class[n] = "compound"
    <2>1. InitialName(f, n) = <<f.value[n], Len(f.args[n])>>
        BY <1>5 DEF InitialName
    <2>2. Len(f.args[n]) = InitialName(f, n)[2]
        BY <2>1
    <2> QED
        BY <2>2
<1> QED
    BY <1>2, <1>3, <1>4, <1>5

\* The arguments of a node are nodes, with subtrees of their own inside its subtree.
LEMMA Subtrees ==
    ASSUME file \in Files, NEW n \in Nodes
    PROVE  /\ n \in U(n)
           /\ file.args[n] \in Seq(Nodes)
           /\ \A i \in 1..Len(file.args[n]) :
                 /\ file.args[n][i] \in Nodes
                 /\ U(file.args[n][i]) \subseteq U(n)
           /\ \A i, j \in 1..Len(file.args[n]) :
                 i # j => U(file.args[n][i]) \cap U(file.args[n][j]) = {}
<1>1. IsFile(file) /\ IsForest(file)
    BY FilesAssumption
<1>2. file.args[n] \in Seq(Nodes)
    BY <1>1 DEF IsFile, Nodes
<1>3. U(n) = {n} \cup UNION {file.under[file.args[n][i]] : i \in 1..Len(file.args[n])}
    BY <1>1 DEF IsForest, Nodes, U
<1>4. \A i, j \in 1..Len(file.args[n]) :
          i # j => U(file.args[n][i]) \cap U(file.args[n][j]) = {}
    BY <1>1 DEF IsForest, Nodes, U
<1>5. \A i \in 1..Len(file.args[n]) : U(file.args[n][i]) \subseteq U(n)
    BY <1>3 DEF U
<1>6. \A i \in 1..Len(file.args[n]) : file.args[n][i] \in Nodes
    BY <1>2
<1>7. n \in U(n)
    BY <1>3
<1> HIDE DEF U
<1> QED
    BY <1>2, <1>4, <1>5, <1>6, <1>7

\* The names that a node may get are among those of the graph.
LEMMA NamesOfNodes ==
    ASSUME NEW f \in Files, NEW n \in NodesOf(f)
    PROVE  /\ InitialName(f, n) \in Names(f)
           /\ <<f.value[n], 2>> \in Names(f)
           /\ <<f.value[n], Len(f.args[n]) + 2>> \in Names(f)
           /\ <<"true">> \in Names(f)
BY DEF Names

LEMMA ExtendedIsName ==
    ASSUME file \in Files, NEW n \in Nodes, name[n] \in Names(file)
    PROVE  Extended(n) \in Names(file)
<1>1. IsFile(file)
    BY FilesAssumption
<1>2. file.class[n] \in {"atom", "atomic", "list", "compound"}
    BY <1>1 DEF IsFile, Nodes
<1>3. /\ <<file.value[n], 2>> \in Names(file)
      /\ <<file.value[n], Len(file.args[n]) + 2>> \in Names(file)
    BY NamesOfNodes DEF Nodes
<1>4. CASE file.class[n] = "atom"
    BY <1>3, <1>4 DEF Extended
<1>5. CASE file.class[n] = "atomic"
    BY <1>5 DEF Extended
<1>6. CASE file.class[n] \in {"list", "compound"}
    BY <1>3, <1>6 DEF Extended
<1> QED
    BY <1>2, <1>4, <1>5, <1>6

\* The stack after the top is replaced.
LEMMA Stack ==
    ASSUME NEW S, NEW s \in Seq(S), s # <<>>, NEW t \in Seq(S)
    PROVE  /\ t \o Tail(s) \in Seq(S)
           /\ Len(t \o Tail(s)) = Len(t) + Len(s) - 1
           /\ \A i \in 1..Len(t) : (t \o Tail(s))[i] = t[i]
           /\ \A i \in 1..Len(t \o Tail(s)) : i > Len(t) =>
                 /\ i - Len(t) + 1 \in 2..Len(s)
                 /\ (t \o Tail(s))[i] = s[i - Len(t) + 1]
<1>1. Tail(s) \in Seq(S) /\ Len(Tail(s)) = Len(s) - 1
    OBVIOUS
<1>2. \A i \in 1..Len(s) - 1 : Tail(s)[i] = s[i + 1]
    OBVIOUS
<1>3. t \o Tail(s) \in Seq(S) /\ Len(t \o Tail(s)) = Len(t) + Len(s) - 1
    BY <1>1
<1>4. \A i \in 1..Len(t) : (t \o Tail(s))[i] = t[i]
    BY <1>1
<1>5. ASSUME NEW i \in 1..Len(t \o Tail(s)), i > Len(t)
      PROVE  /\ i - Len(t) + 1 \in 2..Len(s)
             /\ (t \o Tail(s))[i] = s[i - Len(t) + 1]
    <2>1. i - Len(t) \in 1..Len(s) - 1
        BY <1>3, <1>5
    <2>2. (t \o Tail(s))[i] = Tail(s)[i - Len(t)]
        BY <1>1, <1>3, <1>5
    <2> QED
        BY <2>1, <2>2, <1>2
<1> QED
    BY <1>3, <1>4, <1>5

--------------------------------------------------------------------------------
(***************************************************************************)
(* What the calls have in common: the one that runs works on its subtree,  *)
(* and goes on with calls for parts of it.                                 *)
(***************************************************************************)
\* the calls that follow are for parts of the subtree, and may do what the one may
GoesDown(others) ==
    /\ others \in Seq(Calls)
    /\ \A i \in 1..Len(others) :
          /\ U(others[i].node) \subseteq U(Node)
          /\ others[i].fn \in Renames => Top.fn \in Renames
          /\ others[i].fn \in Leads => Top.fn \in Leads
          /\ Top.fn = "addRefAndIndexArg" => others[i].fn = "addRefAndIndexArg"
    /\ \A i, j \in 1..Len(others) : i # j =>
          /\ others[i].fn \in Renames => U(others[i].node) \cap U(others[j].node) = {}
          /\ others[i].fn \in Leads => others[j].fn \notin Leads

\* names change in the subtree only, and only before calls that ask for none
NamesChange(others) ==
    /\ name' \in [Nodes -> Names(file)]
    /\ \A m \in Nodes : name'[m] # name[m] =>
          /\ m \in U(Node)
          /\ Top.fn \in Renames
          /\ \A i \in 1..Len(others) : others[i].fn = "addRefAndIndexArg"

\* the graph gets nodes of the subtree only, and only if nothing in it will be renamed
GraphGrows(others) ==
    /\ referencesMap' \in [Names(file) -> SUBSET Nodes]
    /\ \A k \in Names(file) : \A n \in referencesMap'[k] : n \notin referencesMap[k] =>
          /\ n \in U(Node)
          /\ name'[n] = k
          /\ \A i \in 1..Len(others) : others[i].fn \notin Renames

\* the clause gets its caller node with its definition, from the call that looks for it
ClauseIsGiven(others) ==
    \/ callerNode' = callerNode /\ definitionsMap' = definitionsMap
    \/ /\ Top.fn \in Leads
       /\ callerNode' = [callerNode EXCEPT ![next] = Node]
       /\ definitionsMap' = [definitionsMap EXCEPT ![name'[Node]] = @ \cup {next}]
       /\ \A i \in 1..Len(others) : others[i].fn \notin Leads \cup Renames

LEMMA TopIsCall ==
    ASSUME calls # <<>>, calls \in Seq(Calls)
    PROVE  Top \in Calls /\ Node \in Nodes /\ Top = calls[1] /\ 1 \in 1..Len(calls) /\ Node = calls[1].node
<1>1. 1 \in 1..Len(calls)
    OBVIOUS
<1>2. calls[1] \in Calls
    BY <1>1
<1>3. Top = calls[1] /\ Node = Top.node
    BY DEF Top, Node
<1> QED
    BY <1>1, <1>2, <1>3 DEF Calls

LEMMA Calling ==
    ASSUME IInv, calls # <<>>, NEW others, GoOnWith(others), UNCHANGED <<file, next>>,
           GoesDown(others), NamesChange(others), GraphGrows(others), ClauseIsGiven(others)
    PROVE  IInv'
<1> USE DEF IInv
<1>n. next \in Clauses /\ Clauses = 1..Len(file.terms)
    BY DEF Clauses
<1>s. calls \in Seq(Calls) /\ others \in Seq(Calls)
    BY DEF TypeOK, Calls, GoesDown
<1>t. Top \in Calls /\ Node \in Nodes /\ Top = calls[1] /\ 1 \in 1..Len(calls) /\ Node = calls[1].node
    BY <1>s, TopIsCall
<1>u. Node \in U(Node)
    BY <1>t, Subtrees
\* a call of the new stack is one of others, or an old one below the top
<1> DEFINE old(i) == i - Len(others) + 1
<1>1. /\ calls' \in Seq(Calls)
      /\ \A i \in 1..Len(calls') : i <= Len(others) => i \in 1..Len(others) /\ calls'[i] = others[i]
      /\ \A i \in 1..Len(calls') : i > Len(others) =>
            old(i) \in 1..Len(calls) /\ old(i) # 1 /\ calls'[i] = calls[old(i)]
    <2>1. calls' = others \o Tail(calls)
        BY DEF GoOnWith
    <2> HIDE DEF IInv, old
    <2>2. /\ others \o Tail(calls) \in Seq(Calls)
          /\ \A i \in 1..Len(others) : (others \o Tail(calls))[i] = others[i]
          /\ \A i \in 1..Len(others \o Tail(calls)) : i > Len(others) =>
                /\ i - Len(others) + 1 \in 2..Len(calls)
                /\ (others \o Tail(calls))[i] = calls[i - Len(others) + 1]
        BY <1>s, Stack
    <2>3. /\ calls' \in Seq(Calls)
          /\ \A i \in 1..Len(others) : calls'[i] = others[i]
          /\ \A i \in 1..Len(calls') : i > Len(others) =>
                /\ old(i) \in 2..Len(calls)
                /\ calls'[i] = calls[old(i)]
        BY <2>1, <2>2 DEF old
    <2>4. Len(others) \in Nat /\ Len(calls) \in Nat
        BY <1>s
    <2> QED
        BY <2>3, <2>4
<1>2. \A i \in 1..Len(calls') : calls'[i] \in Calls
    BY <1>1
<1>3. \A i, j \in 1..Len(calls') :
          i > Len(others) /\ j > Len(others) /\ i # j => old(i) # old(j)
    BY <1>s, <1>1
<1> HIDE DEF old
\* what the top has for itself it does not share with the calls below
<1>4. ASSUME NEW i \in 1..Len(calls'), i > Len(others), Top.fn \in Renames
      PROVE  U(calls'[i].node) \cap U(Node) = {}
    BY <1>1, <1>4, <1>t DEF Apart
<1>5. ASSUME NEW i \in 1..Len(calls'), i > Len(others), calls'[i].fn \in Renames
      PROVE  U(calls'[i].node) \cap U(Node) = {}
    BY <1>1, <1>5, <1>t DEF Apart
<1>o. /\ IsFile(file)
      /\ Nodes' = Nodes /\ Clauses' = Clauses /\ Names(file)' = Names(file)
      /\ next' = next /\ file' = file
    BY FilesAssumption DEF Nodes, Clauses
<1>p. /\ None \notin Nodes
      /\ \A n \in Nodes : U(n) \subseteq Nodes
      /\ \A n : U(n)' = U(n)
    BY <1>o DEF IsFile, Nodes, U
<1>q. /\ callerNode \in [Clauses -> Nodes \cup {None}]
      /\ definitionsMap \in [Names(file) -> SUBSET Clauses]
      /\ referencesMap \in [Names(file) -> SUBSET Nodes]
      /\ name' \in [Nodes -> Names(file)]
      /\ referencesMap' \in [Names(file) -> SUBSET Nodes]
    BY DEF TypeOK, NamesChange, GraphGrows
<1>6. TypeOK'
    <2>1. callerNode' \in [Clauses -> Nodes \cup {None}]
        BY <1>q, <1>t, <1>n DEF ClauseIsGiven
    <2>2. definitionsMap' \in [Names(file) -> SUBSET Clauses]
        BY <1>q, <1>t, <1>n DEF ClauseIsGiven
    <2>3. calls' \in Seq([fn : Functions, node : Nodes])
        BY <1>1 DEF Calls
    <2>4. next' \in 0..Len(file.terms)'
        BY <1>o DEF TypeOK
    <2> QED
        BY <1>o, <1>q, <2>1, <2>2, <2>3, <2>4 DEF TypeOK
\* a node of the graph is not renamed
<1>a. ASSUME NEW m \in Nodes, name'[m] # name[m]
      PROVE  /\ \A k \in Names(file) : m \notin referencesMap[k]
             /\ \A c \in Clauses : callerNode[c] # m
    BY <1>a, <1>t DEF NamesChange, NotEntered
<1>7. NamesAgree'
    <2> SUFFICES ASSUME NEW k \in Names(file), NEW n \in referencesMap'[k]
                 PROVE  name'[n] = k
        BY <1>q DEF NamesAgree
    <2>1. n \in Nodes
        BY <1>q
    <2>2. CASE n \notin referencesMap[k]
        BY <2>2 DEF GraphGrows
    <2>3. CASE n \in referencesMap[k]
        <3>1. name[n] = k
            BY <1>q, <2>3 DEF NamesAgree
        <3> QED
            BY <3>1, <2>1, <2>3, <1>a
    <2> QED
        BY <2>2, <2>3
<1>8. CallersMatch'
    <2> SUFFICES ASSUME NEW k \in Names(file), NEW c \in definitionsMap'[k]
                 PROVE  callerNode'[c] # None /\ name'[callerNode'[c]] = k
        BY <1>6, <1>o DEF CallersMatch, TypeOK
    <2>1. ASSUME c \in definitionsMap[k], callerNode'[c] = callerNode[c]
          PROVE  callerNode'[c] # None /\ name'[callerNode'[c]] = k
        <3>1. /\ c \in Clauses
              /\ callerNode[c] # None
              /\ name[callerNode[c]] = k
            BY <1>q, <2>1 DEF CallersMatch
        <3>2. callerNode[c] \in Nodes
            BY <3>1, <1>q
        <3>3. name'[callerNode[c]] = name[callerNode[c]]
            BY <3>1, <3>2, <1>a
        <3> QED
            BY <3>1, <3>3, <2>1
    <2>2. CASE callerNode' = callerNode /\ definitionsMap' = definitionsMap
        BY <2>1, <2>2
    <2>3. CASE /\ Top.fn \in Leads
               /\ callerNode' = [callerNode EXCEPT ![next] = Node]
               /\ definitionsMap' = [definitionsMap EXCEPT ![name'[Node]] = @ \cup {next}]
        <3>1. callerNode[next] = None
            BY <2>3, <1>t DEF OneLead
        <3>2. callerNode'[next] = Node /\ Node # None
            BY <2>3, <1>n, <1>p, <1>q, <1>t
        <3>3. CASE c \in definitionsMap[k]
            <4>1. c # next
                BY <3>1, <3>3, <1>q DEF CallersMatch
            <4>2. callerNode'[c] = callerNode[c]
                BY <4>1, <2>3, <1>q, <3>3
            <4> QED
                BY <4>2, <3>3, <2>1
        <3>4. CASE c \notin definitionsMap[k]
            <4>1. k = name'[Node] /\ c = next
                BY <2>3, <3>4, <1>q
            <4> QED
                BY <4>1, <3>2
        <3> QED
            BY <3>3, <3>4
    <2> QED
        BY <2>2, <2>3 DEF ClauseIsGiven
<1>9. FreshNames'
    <2> SUFFICES ASSUME NEW i \in 1..Len(calls'), calls'[i].fn # "addRefAndIndexArg",
                        NEW m \in U(calls'[i].node)
                 PROVE  name'[m] = InitialName(file, m)
        BY <1>o, <1>p DEF FreshNames
    <2>1. m \in Nodes
        BY <1>2, <1>p DEF Calls
    <2>2. CASE i <= Len(others)
        <3>1. i \in 1..Len(others) /\ calls'[i] = others[i]
            BY <1>1, <2>2
        <3>2. m \in U(Node) /\ Top.fn # "addRefAndIndexArg"
            BY <3>1 DEF GoesDown
        <3>3. name[m] = InitialName(file, m)
            BY <3>2, <1>t DEF FreshNames
        <3> QED
            BY <2>1, <3>1, <3>3 DEF NamesChange
    <2>3. CASE i > Len(others)
        <3>1. name[m] = InitialName(file, m)
            BY <1>1, <2>3 DEF FreshNames
        <3>2. Top.fn \in Renames => m \notin U(Node)
            BY <1>4, <2>3
        <3> QED
            BY <2>1, <3>1, <3>2 DEF NamesChange
    <2>4. i <= Len(others) \/ i > Len(others)
        BY <1>s
    <2> QED
        BY <2>2, <2>3, <2>4
<1>10. Apart'
    <2> SUFFICES ASSUME NEW i \in 1..Len(calls'), NEW j \in 1..Len(calls'), i # j,
                        calls'[i].fn \in Renames
                 PROVE  U(calls'[i].node) \cap U(calls'[j].node) = {}
        BY <1>p DEF Apart
    <2>1. CASE i <= Len(others) /\ j <= Len(others)
        BY <2>1, <1>1 DEF GoesDown
    <2>2. CASE i <= Len(others) /\ j > Len(others)
        <3>1. U(calls'[i].node) \subseteq U(Node) /\ Top.fn \in Renames
            BY <2>2, <1>1 DEF GoesDown
        <3> QED
            BY <2>2, <3>1, <1>4
    <2>3. CASE i > Len(others) /\ j <= Len(others)
        <3>1. U(calls'[j].node) \subseteq U(Node)
            BY <2>3, <1>1 DEF GoesDown
        <3> QED
            BY <2>3, <3>1, <1>5
    <2>4. CASE i > Len(others) /\ j > Len(others)
        BY <2>4, <1>1, <1>3 DEF Apart
    <2>5. \A l \in {i, j} : l <= Len(others) \/ l > Len(others)
        BY <1>s
    <2> QED
        BY <2>1, <2>2, <2>3, <2>4, <2>5
\* a node enters the graph only from the subtree of the top
<1>b. ASSUME NEW m, \/ \E k \in Names(file) : m \in referencesMap'[k] /\ m \notin referencesMap[k]
                    \/ \E c \in Clauses : callerNode'[c] = m /\ callerNode[c] # m
      PROVE  /\ m \in U(Node)
             /\ \A i \in 1..Len(others) : others[i].fn \notin Renames
    <2>1. CASE \E k \in Names(file) : m \in referencesMap'[k] /\ m \notin referencesMap[k]
        BY <2>1 DEF GraphGrows
    <2>2. CASE \E c \in Clauses : callerNode'[c] = m /\ callerNode[c] # m
        <3>1. callerNode' # callerNode
            BY <2>2
        <3>2. /\ callerNode' = [callerNode EXCEPT ![next] = Node]
              /\ \A i \in 1..Len(others) : others[i].fn \notin Renames
            BY <3>1 DEF ClauseIsGiven
        <3>3. m = Node
            BY <2>2, <3>2, <1>q
        <3> QED
            BY <3>2, <3>3, <1>u
    <2> QED
        BY <1>b, <2>1, <2>2
<1>11. NotEntered'
    <2> SUFFICES ASSUME NEW i \in 1..Len(calls'), calls'[i].fn \in Renames,
                        NEW m \in U(calls'[i].node)
                 PROVE  /\ \A k \in Names(file) : m \notin referencesMap'[k]
                        /\ \A c \in Clauses : callerNode'[c] # m
        BY <1>o, <1>p DEF NotEntered
    <2>1. CASE i <= Len(others)
        <3>1. i \in 1..Len(others) /\ calls'[i] = others[i]
            BY <1>1, <2>1
        <3>2. m \in U(Node) /\ Top.fn \in Renames
            BY <3>1 DEF GoesDown
        <3>3. /\ \A k \in Names(file) : m \notin referencesMap[k]
              /\ \A c \in Clauses : callerNode[c] # m
            BY <3>2, <1>t DEF NotEntered
        <3> QED
            BY <3>1, <3>3, <1>b
    <2>2. CASE i > Len(others)
        <3>1. /\ \A k \in Names(file) : m \notin referencesMap[k]
              /\ \A c \in Clauses : callerNode[c] # m
            BY <1>1, <2>2 DEF NotEntered
        <3>2. m \notin U(Node)
            BY <1>5, <2>2
        <3> QED
            BY <3>1, <3>2, <1>b
    <2>3. i <= Len(others) \/ i > Len(others)
        BY <1>s
    <2> QED
        BY <2>1, <2>2, <2>3
<1>12. Untouched'
    <2> SUFFICES ASSUME NEW c \in Clauses, c > next
                 PROVE  /\ callerNode'[c] = None
                        /\ \A m \in U(file.terms[c]) :
                              /\ name'[m] = InitialName(file, m)
                              /\ \A k \in Names(file) : m \notin referencesMap'[k]
                              /\ \A d \in Clauses : callerNode'[d] # m
                              /\ \A i \in 1..Len(calls') : m \notin U(calls'[i].node)
        BY <1>o, <1>p DEF Untouched
    <2>1. callerNode[c] = None /\ c # next
        BY DEF Untouched, TypeOK
    <2>2. callerNode'[c] = None
        BY <2>1, <1>q DEF ClauseIsGiven
    <2>3. ASSUME NEW m \in U(file.terms[c])
          PROVE  /\ name'[m] = InitialName(file, m)
                 /\ \A k \in Names(file) : m \notin referencesMap'[k]
                 /\ \A d \in Clauses : callerNode'[d] # m
                 /\ \A i \in 1..Len(calls') : m \notin U(calls'[i].node)
        <3>1. /\ name[m] = InitialName(file, m)
              /\ \A k \in Names(file) : m \notin referencesMap[k]
              /\ \A d \in Clauses : callerNode[d] # m
              /\ \A i \in 1..Len(calls) : m \notin U(calls[i].node)
            BY DEF Untouched
        <3>2. m \notin U(Node)
            BY <3>1, <1>t
        <3>3. m \in Nodes
            <4>1. file.terms \in Seq(Nodes)
                BY <1>o DEF IsFile, Nodes
            <4>2. file.terms[c] \in Nodes
                BY <4>1, <1>n
            <4> QED
                BY <4>2, <1>p
        <3>4. name'[m] = name[m]
            BY <3>2, <3>3 DEF NamesChange
        <3>5. ASSUME NEW i \in 1..Len(calls')
              PROVE  m \notin U(calls'[i].node)
            <4>1. CASE i <= Len(others)
                BY <4>1, <1>1, <3>2 DEF GoesDown
            <4>2. CASE i > Len(others)
                BY <4>2, <1>1, <3>1
            <4>3. i <= Len(others) \/ i > Len(others)
                BY <1>s
            <4> QED
                BY <4>1, <4>2, <4>3
        <3> QED
            BY <3>1, <3>2, <3>4, <3>5, <1>b
    <2> QED
        BY <2>2, <2>3
<1>13. OneLead'
    <2> SUFFICES ASSUME NEW i \in 1..Len(calls'), calls'[i].fn \in Leads
                 PROVE  /\ callerNode'[next] = None
                        /\ \A j \in 1..Len(calls') : calls'[j].fn \in Leads => i = j
        BY <1>o, <1>n DEF OneLead
    <2>1. \A j \in 1..Len(calls') : j <= Len(others) \/ j > Len(others)
        BY <1>s
    \* the calls below the top that look for the head, do so instead of the top
    <2>2. ASSUME NEW j \in 1..Len(calls'), j > Len(others), calls'[j].fn \in Leads
          PROVE  Top.fn \notin Leads
        BY <1>1, <2>2, <1>t DEF OneLead
    <2>3. ASSUME NEW j \in 1..Len(calls'), j <= Len(others), calls'[j].fn \in Leads
          PROVE  Top.fn \in Leads /\ j \in 1..Len(others) /\ others[j].fn \in Leads
        BY <1>1, <2>3 DEF GoesDown
    <2>4. callerNode[next] = None
        <3>1. CASE i <= Len(others)
            BY <3>1, <2>3, <1>t DEF OneLead
        <3>2. CASE i > Len(others)
            BY <3>2, <1>1 DEF OneLead
        <3> QED
            BY <3>1, <3>2, <2>1
    <2>5. callerNode' = callerNode
        BY <2>1, <2>2, <2>3 DEF ClauseIsGiven
    <2>6. ASSUME NEW j \in 1..Len(calls'), calls'[j].fn \in Leads
          PROVE  i = j
        <3>1. CASE i <= Len(others) /\ j <= Len(others)
            BY <3>1, <2>3, <2>6 DEF GoesDown
        <3>2. CASE i > Len(others) /\ j > Len(others)
            BY <3>2, <2>6, <1>1, <1>3 DEF OneLead
        <3> QED
            BY <3>1, <3>2, <2>1, <2>2, <2>3, <2>6
    <2> QED
        BY <2>4, <2>5, <2>6
<1> QED
    BY <1>6, <1>7, <1>8, <1>9, <1>10, <1>11, <1>12, <1>13, <1>n, <1>o

\* A call that only goes on with others.
LEMMA Walking ==
    ASSUME IInv, calls # <<>>, NEW others, Walks(others), UNCHANGED <<file, next>>, GoesDown(others)
    PROVE  IInv'
<1>1. GoOnWith(others) /\ name' = name /\ callerNode' = callerNode
      /\ definitionsMap' = definitionsMap /\ referencesMap' = referencesMap
    BY DEF Walks, graph
<1>2. NamesChange(others)
    BY <1>1 DEF NamesChange, IInv, TypeOK
<1>3. GraphGrows(others)
    BY <1>1 DEF GraphGrows, IInv, TypeOK
<1>4. ClauseIsGiven(others)
    BY <1>1 DEF ClauseIsGiven
<1> QED
    BY <1>1, <1>2, <1>3, <1>4, Calling

\* What a call may go on with: nothing, one call, two calls.
LEMMA NoCall == GoesDown(<<>>)
BY DEF GoesDown

LEMMA OneCall ==
    ASSUME NEW f \in Functions, NEW n \in Nodes, U(n) \subseteq U(Node),
           f \in Renames => Top.fn \in Renames,
           f \in Leads => Top.fn \in Leads,
           Top.fn = "addRefAndIndexArg" => f = "addRefAndIndexArg"
    PROVE  GoesDown(<<Call(f, n)>>)
<1> DEFINE others == <<Call(f, n)>>
<1>1. Call(f, n) \in Calls /\ Call(f, n).fn = f /\ Call(f, n).node = n
    BY DEF Call, Calls
<1>2. others \in Seq(Calls) /\ Len(others) = 1 /\ others[1] = Call(f, n)
    BY <1>1
<1>3. \A i \in 1..Len(others) : others[i].fn = f /\ others[i].node = n
    BY <1>1, <1>2
<1>4. \A i, j \in 1..Len(others) : i = j
    BY <1>2
<1> HIDE DEF others
<1> QED
    BY <1>2, <1>3, <1>4 DEF GoesDown, others

LEMMA TwoCalls ==
    ASSUME NEW f \in Functions, NEW m \in Nodes, NEW g \in Functions, NEW n \in Nodes,
           U(m) \subseteq U(Node), U(n) \subseteq U(Node),
           f \in Renames \/ g \in Renames => Top.fn \in Renames /\ U(m) \cap U(n) = {},
           f \in Leads \/ g \in Leads => Top.fn \in Leads,
           f \notin Leads \/ g \notin Leads,
           Top.fn # "addRefAndIndexArg"
    PROVE  GoesDown(<<Call(f, m), Call(g, n)>>)
<1> DEFINE others == <<Call(f, m), Call(g, n)>>
<1>1. /\ Call(f, m) \in Calls /\ Call(f, m).fn = f /\ Call(f, m).node = m
      /\ Call(g, n) \in Calls /\ Call(g, n).fn = g /\ Call(g, n).node = n
    BY DEF Call, Calls
<1>2. /\ others \in Seq(Calls) /\ Len(others) = 2
      /\ others[1] = Call(f, m) /\ others[2] = Call(g, n)
    BY <1>1
<1>3. \A i \in 1..Len(others) : i = 1 \/ i = 2
    BY <1>2
<1>4. /\ others[1].fn = f /\ others[1].node = m
      /\ others[2].fn = g /\ others[2].node = n
    BY <1>1, <1>2
<1> HIDE DEF others
<1>5. ASSUME NEW i \in 1..Len(others)
      PROVE  /\ U(others[i].node) \subseteq U(Node)
             /\ others[i].fn \in Renames => Top.fn \in Renames
             /\ others[i].fn \in Leads => Top.fn \in Leads
    BY <1>3, <1>4
<1>6. ASSUME NEW i \in 1..Len(others), NEW j \in 1..Len(others), i # j
      PROVE  /\ others[i].fn \in Renames => U(others[i].node) \cap U(others[j].node) = {}
             /\ others[i].fn \in Leads => others[j].fn \notin Leads
    <2>1. (i = 1 \/ i = 2) /\ (j = 1 \/ j = 2)
        BY <1>3
    <2>2. i # j
        BY <1>6
    <2>3. CASE i = 1 /\ j = 2
        BY <2>3, <1>4
    <2>4. CASE i = 2 /\ j = 1
        BY <2>4, <1>4
    <2> QED
        BY <2>1, <2>2, <2>3, <2>4
<1> QED
    BY <1>2, <1>5, <1>6 DEF GoesDown, others

\* The call that runs finds the name its node was made with, and so its arguments.
LEMMA Arguments ==
    ASSUME IInv, calls # <<>>, Top.fn # "addRefAndIndexArg",
           NEW k \in {1, 2}, NEW v, name[Node] = <<v, k>>
    PROVE  /\ Arg(1) \in Nodes /\ U(Arg(1)) \subseteq U(Node)
           /\ k = 2 => /\ Arg(2) \in Nodes /\ U(Arg(2)) \subseteq U(Node)
                       /\ U(Arg(1)) \cap U(Arg(2)) = {}
                       /\ Arg(2) = RestOfList(Node)
<1>1. Node \in Nodes /\ Top = calls[1] /\ 1 \in 1..Len(calls) /\ Node = calls[1].node
    BY TopIsCall DEF IInv, TypeOK, Calls
<1>2. Node \in U(Node)
    BY <1>1, Subtrees DEF IInv
<1>3. name[Node] = InitialName(file, Node)
    BY <1>1, <1>2 DEF IInv, FreshNames
<1>4. Len(file.args[Node]) = k
    BY <1>1, <1>3, Arity DEF IInv, Nodes
<1>5. /\ \A i \in 1..k : Arg(i) \in Nodes /\ U(Arg(i)) \subseteq U(Node)
      /\ \A i, j \in 1..k : i # j => U(Arg(i)) \cap U(Arg(j)) = {}
    BY <1>1, <1>4, Subtrees DEF IInv, Arg
<1>6. 1 \in 1..k /\ (k = 2 => 2 \in 1..k /\ 1 # 2)
    OBVIOUS
<1>7. Arg(2) = RestOfList(Node)
    BY DEF Arg, RestOfList
<1> QED
    BY <1>5, <1>6, <1>7

--------------------------------------------------------------------------------
LEMMA InitInv == ASSUME Init PROVE IInv
<1> USE DEF Init, Start
<1>1. file \in Files /\ IsFile(file)
    BY FilesAssumption
<1>2. /\ calls = <<>> /\ Len(calls) = 0 /\ 1..Len(calls) = {}
    OBVIOUS
<1>3. Len(file.terms) \in Nat
    BY <1>1 DEF IsFile
<1>4. name \in [Nodes -> Names(file)]
    BY <1>1, NamesOfNodes DEF Nodes
<1>5. TypeOK
    BY <1>2, <1>3, <1>4 DEF TypeOK, Clauses
<1>6. NamesAgree /\ CallersMatch
    BY DEF NamesAgree, CallersMatch
<1>7. FreshNames /\ Apart /\ NotEntered /\ OneLead
    BY <1>2 DEF FreshNames, Apart, NotEntered, OneLead
<1>8. None \notin Nodes /\ \A n \in Nodes : U(n) \subseteq Nodes
    BY <1>1 DEF IsFile, Nodes, U
<1>9. \A c \in Clauses : file.terms[c] \in Nodes
    BY <1>1 DEF IsFile, Nodes, Clauses
<1>10. Untouched
    BY <1>2, <1>8, <1>9 DEF Untouched, Clauses, Nodes
<1> QED
    BY <1>1, <1>2, <1>5, <1>6, <1>7, <1>10 DEF IInv

LEMMA NextClauseInv == ASSUME IInv, NextClause PROVE IInv'
<1> USE DEF IInv, NextClause
<1> DEFINE t == file.terms[next + 1]
<1>1. IsFile(file) /\ IsForest(file)
    BY FilesAssumption
<1>2. /\ next \in Nat /\ next + 1 \in Clauses /\ Clauses = 1..Len(file.terms)
      /\ next' = next + 1
    BY <1>1 DEF TypeOK, Clauses, IsFile
<1>3. t \in Nodes
    BY <1>1, <1>2 DEF IsFile, Nodes
<1> HIDE DEF t
<1>4. calls' = <<Call("index", t)>>
    BY DEF t
<1>5. /\ calls' \in Seq([fn : Functions, node : Nodes])
      /\ Len(calls') = 1
      /\ calls'[1].fn = "index" /\ calls'[1].node = t
    BY <1>3, <1>4 DEF Call, Functions
<1>6. \A i \in 1..Len(calls') : i = 1
    BY <1>5
<1>7. /\ Nodes' = Nodes /\ Clauses' = Clauses /\ Names(file)' = Names(file)
      /\ file' = file /\ \A n : U(n)' = U(n)
      /\ name' = name /\ callerNode' = callerNode
      /\ definitionsMap' = definitionsMap /\ referencesMap' = referencesMap
    BY DEF Nodes, Clauses, U, graph
<1>8. /\ callerNode[next + 1] = None
      /\ \A m \in U(t) :
            /\ name[m] = InitialName(file, m)
            /\ \A k \in Names(file) : m \notin referencesMap[k]
            /\ \A d \in Clauses : callerNode[d] # m
    <2>1. Untouched
        OBVIOUS
    <2>2. next + 1 \in Clauses /\ next + 1 > next
        BY <1>2
    <2> HIDE DEF IInv, NextClause
    <2> QED
        BY <2>1, <2>2 DEF Untouched, t
<1>9. TypeOK'
    BY <1>2, <1>5, <1>7 DEF TypeOK
<1>10. NamesAgree' /\ CallersMatch'
    BY <1>7 DEF NamesAgree, CallersMatch
<1>11. FreshNames'
    BY <1>5, <1>6, <1>7, <1>8 DEF FreshNames
<1>12. Apart'
    BY <1>6 DEF Apart
<1>13. NotEntered'
    BY <1>5, <1>6, <1>7, <1>8 DEF NotEntered
<1>14. Untouched'
    <2> SUFFICES ASSUME NEW c \in Clauses, c > next + 1
                 PROVE  /\ callerNode[c] = None
                        /\ \A m \in U(file.terms[c]) :
                              /\ name[m] = InitialName(file, m)
                              /\ \A k \in Names(file) : m \notin referencesMap[k]
                              /\ \A d \in Clauses : callerNode[d] # m
                              /\ \A i \in 1..Len(calls') : m \notin U(calls'[i].node)
        <3> HIDE DEF IInv, NextClause
        <3>1. file'.terms = file.terms
            BY <1>7
        <3> QED
            BY <1>2, <1>7, <3>1 DEF Untouched
    <2>1. c > next /\ c # next + 1
        BY <1>2
    <2>2. U(file.terms[c]) \cap U(t) = {}
        BY <1>1, <1>2, <2>1 DEF IsForest, U, t
    <2> QED
        BY <2>1, <2>2, <1>5, <1>6 DEF Untouched
<1>15. OneLead'
    BY <1>2, <1>6, <1>7, <1>8 DEF OneLead
<1> QED
    BY <1>2, <1>7, <1>9, <1>10, <1>11, <1>12, <1>13, <1>14, <1>15

--------------------------------------------------------------------------------
\* What the calls do to the graph and to names is within bounds.
LEMMA OneRef ==
    ASSUME NEW n
    PROVE  \A i \in 1..Len(<<Call("addRefAndIndexArg", n)>>) :
               <<Call("addRefAndIndexArg", n)>>[i].fn = "addRefAndIndexArg"
<1>1. Call("addRefAndIndexArg", n).fn = "addRefAndIndexArg"
    BY DEF Call
<1> DEFINE c == Call("addRefAndIndexArg", n)
<1> HIDE DEF c
<1>2. \A i \in 1..Len(<<c>>) : <<c>>[i] = c
    OBVIOUS
<1> QED
    BY <1>1, <1>2 DEF c

LEMMA TopNode ==
    ASSUME IInv, calls # <<>>
    PROVE  /\ Top \in Calls /\ Node \in Nodes /\ Node \in U(Node) /\ next \in Clauses
           /\ name[Node] \in Names(file) /\ Extended(Node) \in Names(file)
<1>1. Top \in Calls /\ Node \in Nodes
    BY TopIsCall DEF IInv, TypeOK, Calls
<1>2. Node \in U(Node)
    BY <1>1, Subtrees DEF IInv
<1>3. name[Node] \in Names(file)
    BY <1>1 DEF IInv, TypeOK
<1> QED
    BY <1>1, <1>2, <1>3, ExtendedIsName DEF IInv

LEMMA SameNames ==
    ASSUME IInv, NEW others, name' = name
    PROVE  NamesChange(others)
BY DEF NamesChange, IInv, TypeOK

LEMMA SameReferences ==
    ASSUME IInv, NEW others, referencesMap' = referencesMap
    PROVE  GraphGrows(others)
BY DEF GraphGrows, IInv, TypeOK

LEMMA SameDefinitions ==
    ASSUME NEW others, callerNode' = callerNode, definitionsMap' = definitionsMap
    PROVE  ClauseIsGiven(others)
BY DEF ClauseIsGiven

LEMMA Renaming ==
    ASSUME IInv, calls # <<>>, Top.fn \in Renames, NEW k \in Names(file),
           name' = [name EXCEPT ![Node] = k], NEW others,
           \A i \in 1..Len(others) : others[i].fn = "addRefAndIndexArg"
    PROVE  NamesChange(others)
<1>1. name \in [Nodes -> Names(file)]
    BY DEF IInv, TypeOK
<1>2. Node \in Nodes /\ Node \in U(Node)
    BY TopNode
<1>3. name' \in [Nodes -> Names(file)]
    BY <1>1, <1>2
<1>4. \A m \in Nodes : name'[m] # name[m] => m = Node
    BY <1>1
<1> QED
    BY <1>2, <1>3, <1>4 DEF NamesChange

LEMMA Entering ==
    ASSUME IInv, calls # <<>>, NEW k \in Names(file), addReference(Node, k), name'[Node] = k,
           NEW others, \A i \in 1..Len(others) : others[i].fn = "addRefAndIndexArg"
    PROVE  GraphGrows(others)
<1>1. referencesMap \in [Names(file) -> SUBSET Nodes]
    BY DEF IInv, TypeOK
<1>2. Node \in Nodes /\ Node \in U(Node)
    BY TopNode
<1>3. referencesMap' = [referencesMap EXCEPT ![k] = @ \cup {Node}]
    BY DEF addReference
<1>4. referencesMap' \in [Names(file) -> SUBSET Nodes]
    BY <1>1, <1>2, <1>3
<1>5. \A l \in Names(file) : \A n \in referencesMap'[l] :
          n \notin referencesMap[l] => n = Node /\ l = k
    BY <1>1, <1>3
<1>6. \A i \in 1..Len(others) : others[i].fn \notin Renames
    BY DEF Renames
<1> QED
    BY <1>2, <1>4, <1>5, <1>6 DEF GraphGrows

LEMMA Giving ==
    ASSUME IInv, calls # <<>>, Top.fn \in Leads, NEW k, addDefinition(k), SetCaller,
           name'[Node] = k, NEW others,
           \A i \in 1..Len(others) : others[i].fn = "addRefAndIndexArg"
    PROVE  ClauseIsGiven(others)
<1>1. \A i \in 1..Len(others) : others[i].fn \notin Leads \cup Renames
    BY DEF Leads, Renames
<1> QED
    BY <1>1 DEF ClauseIsGiven, addDefinition, SetCaller

--------------------------------------------------------------------------------
\* The functions of the walk, one by one.
LEMMA addRefInv ==
    ASSUME IInv, addRefAndIndexArg, UNCHANGED <<file, next>>
    PROVE  IInv'
<1> DEFINE others == RefArgs(Node)
<1>1. calls # <<>> /\ Top.fn = "addRefAndIndexArg"
    BY DEF addRefAndIndexArg, Runs
<1>2. GoOnWith(others) /\ addReference(Node, name[Node])
      /\ name' = name /\ callerNode' = callerNode /\ definitionsMap' = definitionsMap
    BY DEF addRefAndIndexArg
<1>3. /\ file.args[Node] \in Seq(Nodes)
      /\ \A i \in 1..Len(file.args[Node]) : U(file.args[Node][i]) \subseteq U(Node)
    BY <1>1, TopNode, Subtrees DEF IInv
<1>4. /\ others \in Seq(Calls)
      /\ \A i \in 1..Len(others) :
            /\ i \in 1..Len(file.args[Node])
            /\ others[i].fn = "addRefAndIndexArg"
            /\ others[i].node = file.args[Node][i]
    BY <1>3 DEF RefArgs, Call, Calls, Functions
<1> HIDE DEF others
<1>5. GoesDown(others)
    BY <1>3, <1>4 DEF GoesDown, Renames, Leads
<1>6. GraphGrows(others)
    BY <1>1, <1>2, <1>4, TopNode, Entering
<1> QED
    BY <1>1, <1>2, <1>5, <1>6, SameNames, SameDefinitions, Calling

LEMMA indexInv ==
    ASSUME IInv, index, UNCHANGED <<file, next>>
    PROVE  IInv'
<1>1. calls # <<>> /\ Top.fn = "index"
    BY DEF index, Runs
<1>2. Top.fn \in Renames /\ Top.fn \in Leads /\ Top.fn # "addRefAndIndexArg"
    BY <1>1 DEF Renames, Leads
<1>3. CASE Directive(Node) /\ Walks(<<Call("ruleEval", Arg(1))>>)
    <2>1. Arg(1) \in Nodes /\ U(Arg(1)) \subseteq U(Node)
        BY <1>1, <1>2, <1>3, Arguments DEF Directive, IsNamed
    <2>2. GoesDown(<<Call("ruleEval", Arg(1))>>)
        BY <1>2, <2>1, OneCall DEF Functions
    <2> QED
        BY <1>1, <1>3, <2>2, Walking
<1>4. ASSUME NEW f \in Functions, NEW h \in Functions, h \notin Leads, f # "index", h # "index",
             NEW v, name[Node] = <<v, 2>>,
             Walks(<<Call(f, Arg(1)), Call(h, Arg(2))>>)
      PROVE  IInv'
    <2>1. /\ Arg(1) \in Nodes /\ U(Arg(1)) \subseteq U(Node)
          /\ Arg(2) \in Nodes /\ U(Arg(2)) \subseteq U(Node)
          /\ U(Arg(1)) \cap U(Arg(2)) = {}
        BY <1>1, <1>2, <1>4, Arguments
    <2>2. GoesDown(<<Call(f, Arg(1)), Call(h, Arg(2))>>)
        BY <1>2, <1>4, <2>1, TwoCalls
    <2> QED
        BY <1>1, <1>4, <2>2, Walking
<1>5. CASE Rule(Node) /\ Walks(<<Call("ruleHead", Arg(1)), Call("ruleBody", Arg(2))>>)
    BY <1>4, <1>5 DEF Rule, IsNamed, Functions, Leads
<1>6. CASE Grammar(Node) /\ Walks(<<Call("DCGHead", Arg(1)), Call("DCGBody", Arg(2))>>)
    BY <1>4, <1>6 DEF Grammar, IsNamed, Functions, Leads
<1>7. CASE Qualified(Node) /\ Walks(<<Call("addRefAndIndexArg", Arg(1)), Call("DCGBody", Arg(2))>>)
    BY <1>4, <1>7 DEF Qualified, IsNamed, Functions, Leads
<1>8. CASE /\ addDefinition(name[Node])
           /\ SetCaller
           /\ GoOnWith(<<>>)
           /\ UNCHANGED <<name, referencesMap>>
    <2>1. \A i \in 1..Len(<<>>) : <<>>[i].fn = "addRefAndIndexArg"
        OBVIOUS
    <2>2. ClauseIsGiven(<<>>)
        BY <1>1, <1>2, <1>8, <2>1, Giving
    <2> QED
        BY <1>1, <1>8, <2>2, NoCall, SameNames, SameReferences, Calling
<1> QED
    BY <1>3, <1>5, <1>6, <1>7, <1>8 DEF index

\* a head is entered and walked
LEMMA ruleHeadInv ==
    ASSUME IInv, ruleHead, UNCHANGED <<file, next>>
    PROVE  IInv'
<1>1. calls # <<>> /\ Top.fn = "ruleHead"
    BY DEF ruleHead, Runs
<1>2. Top.fn \notin Renames /\ Top.fn \in Leads /\ Top.fn # "addRefAndIndexArg"
    BY <1>1 DEF Renames, Leads
<1>3. CASE Qualified(Node)
           /\ Walks(<<Call("addRefAndIndexArg", Arg(1)), Call("ruleHead", Arg(2))>>)
    <2>1. /\ Arg(1) \in Nodes /\ U(Arg(1)) \subseteq U(Node)
          /\ Arg(2) \in Nodes /\ U(Arg(2)) \subseteq U(Node)
        BY <1>1, <1>2, <1>3, Arguments DEF Qualified, IsNamed
    <2>2. GoesDown(<<Call("addRefAndIndexArg", Arg(1)), Call("ruleHead", Arg(2))>>)
        BY <1>2, <2>1, TwoCalls DEF Functions, Renames, Leads
    <2> QED
        BY <1>1, <1>3, <2>2, Walking
<1>4. CASE /\ addDefinition(name[Node])
           /\ SetCaller
           /\ GoOnWith(<<Call("addRefAndIndexArg", Node)>>)
           /\ UNCHANGED <<name, referencesMap>>
    <2>1. GoesDown(<<Call("addRefAndIndexArg", Node)>>)
        BY <1>1, TopNode, OneCall DEF Functions, Renames, Leads
    <2>2. ClauseIsGiven(<<Call("addRefAndIndexArg", Node)>>)
        BY <1>1, <1>2, <1>4, OneRef, Giving
    <2> QED
        BY <1>1, <1>4, <2>1, <2>2, SameNames, SameReferences, Calling
<1> QED
    BY <1>3, <1>4 DEF ruleHead

LEMMA ruleBodyInv ==
    ASSUME IInv, ruleBody, UNCHANGED <<file, next>>
    PROVE  IInv'
<1>1. calls # <<>> /\ Top.fn = "ruleBody"
    BY DEF ruleBody, Runs
<1>2. Top.fn \notin Renames /\ Top.fn \notin Leads /\ Top.fn # "addRefAndIndexArg"
    BY <1>1 DEF Renames, Leads
<1>3. CASE Control(Node)
           /\ Walks(<<Call("ruleBody", Arg(1)), Call("ruleBody", Arg(2))>>)
    <2>1. /\ Arg(1) \in Nodes /\ U(Arg(1)) \subseteq U(Node)
          /\ Arg(2) \in Nodes /\ U(Arg(2)) \subseteq U(Node)
        BY <1>1, <1>2, <1>3, Arguments DEF Control, IsNamed
    <2>2. GoesDown(<<Call("ruleBody", Arg(1)), Call("ruleBody", Arg(2))>>)
        BY <1>2, <2>1, TwoCalls DEF Functions, Renames, Leads
    <2> QED
        BY <1>1, <1>3, <2>2, Walking
<1>4. CASE Negated(Node) /\ Walks(<<Call("ruleBody", Arg(1))>>)
    <2>1. Arg(1) \in Nodes /\ U(Arg(1)) \subseteq U(Node)
        BY <1>1, <1>2, <1>4, Arguments DEF Negated, IsNamed
    <2>2. GoesDown(<<Call("ruleBody", Arg(1))>>)
        BY <1>2, <2>1, OneCall DEF Functions, Renames, Leads
    <2> QED
        BY <1>1, <1>4, <2>2, Walking
<1>5. CASE Qualified(Node)
           /\ Walks(<<Call("addRefAndIndexArg", Arg(1)), Call("ruleBody", Arg(1))>>)
    <2>1. Arg(1) \in Nodes /\ U(Arg(1)) \subseteq U(Node)
        BY <1>1, <1>2, <1>5, Arguments DEF Qualified, IsNamed
    <2>2. GoesDown(<<Call("addRefAndIndexArg", Arg(1)), Call("ruleBody", Arg(1))>>)
        BY <1>2, <2>1, TwoCalls DEF Functions, Renames, Leads
    <2> QED
        BY <1>1, <1>5, <2>2, Walking
<1>6. CASE /\ addReference(Node, name[Node])
           /\ GoOnWith(<<Call("addRefAndIndexArg", Node)>>)
           /\ UNCHANGED <<name, callerNode, definitionsMap>>
    <2>1. GoesDown(<<Call("addRefAndIndexArg", Node)>>)
        BY <1>1, TopNode, OneCall DEF Functions, Renames, Leads
    <2>2. GraphGrows(<<Call("addRefAndIndexArg", Node)>>)
        BY <1>1, <1>6, TopNode, OneRef, Entering
    <2> QED
        BY <1>1, <1>6, <2>1, <2>2, SameNames, SameDefinitions, Calling
<1> QED
    BY <1>3, <1>4, <1>5, <1>6 DEF ruleBody

LEMMA DCGHeadInv ==
    ASSUME IInv, DCGHead, UNCHANGED <<file, next>>
    PROVE  IInv'
<1>1. calls # <<>> /\ Top.fn = "DCGHead"
    BY DEF DCGHead, Runs
<1>2. Top.fn \in Renames /\ Top.fn \in Leads /\ Top.fn # "addRefAndIndexArg"
    BY <1>1 DEF Renames, Leads
<1>3. CASE IsNamed(Node, {","}, 2)
           /\ Walks(<<Call("DCGHead", Arg(1)), Call("DCGBody", Arg(2))>>)
    <2>1. /\ Arg(1) \in Nodes /\ U(Arg(1)) \subseteq U(Node)
          /\ Arg(2) \in Nodes /\ U(Arg(2)) \subseteq U(Node)
          /\ U(Arg(1)) \cap U(Arg(2)) = {}
          /\ Arg(2) = RestOfList(Node)
        BY <1>1, <1>2, <1>3, Arguments DEF IsNamed
    <2>2. GoesDown(<<Call("DCGHead", Arg(1)), Call("DCGBody", Arg(2))>>)
        BY <1>2, <2>1, TwoCalls DEF Functions, Renames, Leads
    <2> QED
        BY <1>1, <1>3, <2>2, Walking
<1>4. CASE Qualified(Node)
           /\ Walks(<<Call("addRefAndIndexArg", Arg(1)), Call("DCGHead", Arg(2))>>)
    <2>1. /\ Arg(1) \in Nodes /\ U(Arg(1)) \subseteq U(Node)
          /\ Arg(2) \in Nodes /\ U(Arg(2)) \subseteq U(Node)
          /\ U(Arg(1)) \cap U(Arg(2)) = {}
          /\ Arg(2) = RestOfList(Node)
        BY <1>1, <1>2, <1>4, Arguments DEF Qualified, IsNamed
    <2>2. GoesDown(<<Call("addRefAndIndexArg", Arg(1)), Call("DCGHead", Arg(2))>>)
        BY <1>2, <2>1, TwoCalls DEF Functions, Renames, Leads
    <2> QED
        BY <1>1, <1>4, <2>2, Walking
<1>5. CASE /\ Extend
           /\ SetCaller
           /\ addDefinition(HeadName(Node))
           /\ GoOnWith(<<Call("addRefAndIndexArg", Node)>>)
           /\ UNCHANGED referencesMap
    <2>1. GoesDown(<<Call("addRefAndIndexArg", Node)>>)
        BY <1>1, TopNode, OneCall DEF Functions, Renames, Leads
    <2>2. name' = [name EXCEPT ![Node] = Extended(Node)] /\ HeadName(Node) = Extended(Node)
        BY <1>5 DEF Extend, HeadName
    <2>3. name'[Node] = HeadName(Node)
        BY <1>1, <2>2, TopNode DEF IInv, TypeOK
    <2>4. NamesChange(<<Call("addRefAndIndexArg", Node)>>)
        BY <1>1, <1>2, <2>2, TopNode, OneRef, Renaming
    <2>5. ClauseIsGiven(<<Call("addRefAndIndexArg", Node)>>)
        BY <1>1, <1>2, <1>5, <2>3, OneRef, Giving
    <2> QED
        BY <1>1, <1>5, <2>1, <2>4, <2>5, SameReferences, Calling
<1>6. PushbackWalk(Arg(2)) = "DCGBody"
    BY DEF PushbackWalk
<1> QED
    BY <1>3, <1>4, <1>5, <1>6 DEF DCGHead

LEMMA DCGBodyInv ==
    ASSUME IInv, DCGBody, UNCHANGED <<file, next>>
    PROVE  IInv'
<1>1. calls # <<>> /\ Top.fn = "DCGBody"
    BY DEF DCGBody, Runs
<1>2. Top.fn \in Renames /\ Top.fn \notin Leads /\ Top.fn # "addRefAndIndexArg"
    BY <1>1 DEF Renames, Leads
<1>0. \A i \in 1..Len(<<>>) : <<>>[i].fn = "addRefAndIndexArg"
    OBVIOUS
<1>3. CASE DCGControl(Node)
           /\ Walks(<<Call("DCGBody", Arg(1)), Call("DCGBody", Arg(2))>>)
    <2>1. /\ Arg(1) \in Nodes /\ U(Arg(1)) \subseteq U(Node)
          /\ Arg(2) \in Nodes /\ U(Arg(2)) \subseteq U(Node)
          /\ U(Arg(1)) \cap U(Arg(2)) = {}
          /\ Arg(2) = RestOfList(Node)
        BY <1>1, <1>2, <1>3, Arguments DEF DCGControl, Control, Grammar, IsNamed
    <2>2. GoesDown(<<Call("DCGBody", Arg(1)), Call("DCGBody", Arg(2))>>)
        BY <1>2, <2>1, TwoCalls DEF Functions, Renames, Leads
    <2> QED
        BY <1>1, <1>3, <2>2, Walking
<1>4. CASE Qualified(Node)
           /\ Walks(<<Call("addRefAndIndexArg", Arg(1)), Call("DCGBody", Arg(2))>>)
    <2>1. /\ Arg(1) \in Nodes /\ U(Arg(1)) \subseteq U(Node)
          /\ Arg(2) \in Nodes /\ U(Arg(2)) \subseteq U(Node)
          /\ U(Arg(1)) \cap U(Arg(2)) = {}
          /\ Arg(2) = RestOfList(Node)
        BY <1>1, <1>2, <1>4, Arguments DEF Qualified, IsNamed
    <2>2. GoesDown(<<Call("addRefAndIndexArg", Arg(1)), Call("DCGBody", Arg(2))>>)
        BY <1>2, <2>1, TwoCalls DEF Functions, Renames, Leads
    <2> QED
        BY <1>1, <1>4, <2>2, Walking
<1>5. CASE Terminals(Node)
           /\ Walks(<<Call("addRefAndIndexArg", Arg(1)), Call("addRefAndIndexArg", Arg(2))>>)
    <2>1. /\ Arg(1) \in Nodes /\ U(Arg(1)) \subseteq U(Node)
          /\ Arg(2) \in Nodes /\ U(Arg(2)) \subseteq U(Node)
          /\ U(Arg(1)) \cap U(Arg(2)) = {}
          /\ Arg(2) = RestOfList(Node)
        BY <1>1, <1>2, <1>5, Arguments DEF Terminals
    <2>2. GoesDown(<<Call("addRefAndIndexArg", Arg(1)), Call("addRefAndIndexArg", Arg(2))>>)
        BY <1>2, <2>1, TwoCalls DEF Functions, Renames, Leads
    <2> QED
        BY <1>1, <1>5, <2>2, Walking
<1>6. CASE (Braces(Node) \/ Negated(Node)) /\ Walks(<<Call("addRefAndIndexArg", Arg(1))>>)
    <2>1. Arg(1) \in Nodes /\ U(Arg(1)) \subseteq U(Node)
        BY <1>1, <1>2, <1>6, Arguments DEF Braces, Negated, IsNamed
    <2>2. GoesDown(<<Call("addRefAndIndexArg", Arg(1))>>)
        BY <1>2, <2>1, OneCall DEF Functions, Renames, Leads
    <2> QED
        BY <1>1, <1>6, <2>2, Walking
<1>7. CASE Walks(<<>>)
    BY <1>1, <1>7, NoCall, Walking
<1>8. CASE /\ name' = [name EXCEPT ![Node] = <<"true">>]
           /\ GoOnWith(<<>>)
           /\ UNCHANGED <<callerNode, graph>>
    <2>1. <<"true">> \in Names(file)
        BY <1>1, TopNode, NamesOfNodes DEF IInv, Nodes
    <2>2. NamesChange(<<>>)
        BY <1>0, <1>1, <1>2, <1>8, <2>1, Renaming
    <2>3. callerNode' = callerNode /\ definitionsMap' = definitionsMap /\ referencesMap' = referencesMap
        BY <1>8 DEF graph
    <2> QED
        BY <1>1, <1>8, <2>2, <2>3, NoCall, SameReferences, SameDefinitions, Calling
<1>9. CASE /\ Extend
           /\ addReference(Node, BodyName(Node))
           /\ GoOnWith(<<>>)
           /\ UNCHANGED <<callerNode, definitionsMap>>
    <2>1. name' = [name EXCEPT ![Node] = Extended(Node)] /\ BodyName(Node) = Extended(Node)
        BY <1>9 DEF Extend, BodyName
    <2>2. name'[Node] = BodyName(Node)
        BY <1>1, <2>1, TopNode DEF IInv, TypeOK
    <2>3. NamesChange(<<>>)
        BY <1>0, <1>1, <1>2, <2>1, TopNode, Renaming
    <2>4. GraphGrows(<<>>)
        BY <1>0, <1>1, <1>9, <2>1, <2>2, TopNode, Entering
    <2> QED
        BY <1>1, <1>9, <2>3, <2>4, NoCall, SameDefinitions, Calling
<1> QED
    BY <1>3, <1>4, <1>5, <1>6, <1>7, <1>8, <1>9 DEF DCGBody

LEMMA ruleEvalInv ==
    ASSUME IInv, ruleEval, UNCHANGED <<file, next>>
    PROVE  IInv'
<1>1. calls # <<>> /\ Top.fn = "ruleEval"
    BY DEF ruleEval, Runs
<1>2. Top.fn \notin Renames /\ Top.fn \notin Leads /\ Top.fn # "addRefAndIndexArg"
    BY <1>1 DEF Renames, Leads
<1>3. CASE IsNamed(Node, {","}, 2)
           /\ Walks(<<Call("ruleEval", Arg(1)), Call("ruleEval", Arg(2))>>)
    <2>1. /\ Arg(1) \in Nodes /\ U(Arg(1)) \subseteq U(Node)
          /\ Arg(2) \in Nodes /\ U(Arg(2)) \subseteq U(Node)
          /\ U(Arg(1)) \cap U(Arg(2)) = {}
          /\ Arg(2) = RestOfList(Node)
        BY <1>1, <1>2, <1>3, Arguments DEF IsNamed
    <2>2. GoesDown(<<Call("ruleEval", Arg(1)), Call("ruleEval", Arg(2))>>)
        BY <1>2, <2>1, TwoCalls DEF Functions, Renames, Leads
    <2> QED
        BY <1>1, <1>3, <2>2, Walking
<1>4. CASE Walks(<<Call("addRefAndIndexArg", Node)>>)
    <2>1. GoesDown(<<Call("addRefAndIndexArg", Node)>>)
        BY <1>1, TopNode, OneCall DEF Functions, Renames, Leads
    <2> QED
        BY <1>1, <1>4, <2>1, Walking
<1>5. CASE IsNamed(Node, {"module"}, 2) /\ Walks(ModuleCalls)
    <2>1. Arg(2) \in Nodes /\ U(Arg(2)) \subseteq U(Node) /\ Node \in Nodes
        BY <1>1, <1>2, <1>5, Arguments, TopNode DEF IsNamed
    <2>2. GoesDown(<<Call("publicList", Arg(2)), Call("addRefAndIndexArg", Node)>>)
        BY <1>2, <2>1, TwoCalls DEF Functions, Renames, Leads
    <2>3. \/ ModuleCalls = <<Call("publicList", Arg(2)), Call("addRefAndIndexArg", Node)>>
          \/ ModuleCalls = <<Call("addRefAndIndexArg", Node)>>
        BY DEF ModuleCalls
    <2> QED
        BY <1>1, <1>4, <1>5, <2>2, <2>3, Walking
<1>6. CASE UseModule
    <2>1. /\ IsNamed(Node, {"use_module"}, 1)
          /\ GoOnWith(<<>>)
          /\ name' = name /\ callerNode' = callerNode /\ definitionsMap' = definitionsMap
        BY <1>6 DEF UseModule
    <2>2. Arg(1) \in Nodes /\ U(Arg(1)) \subseteq U(Node)
        BY <1>1, <1>2, <2>1, Arguments DEF IsNamed
    <2>3. Node \in Nodes /\ Node \in U(Node) /\ Arg(1) \in U(Arg(1))
        BY <1>1, <2>2, TopNode, Subtrees DEF IInv
    <2>4. referencesMap \in [Names(file) -> SUBSET Nodes]
        BY DEF IInv, TypeOK
    <2>5. PICK added \in SUBSET {Node, Arg(1)} :
              referencesMap' = [k \in DOMAIN referencesMap |->
                  referencesMap[k] \cup {n \in added : name[n] = k}]
        <3> DEFINE library == {n \in {Arg(1)} : IsNamed(n, {"library"}, 1)}
        <3>1. referencesMap' = [k \in DOMAIN referencesMap |->
                  referencesMap[k] \cup {n \in {Node} \cup library : name[n] = k}]
            BY <1>6 DEF UseModule
        <3>2. {Node} \cup library \in SUBSET {Node, Arg(1)}
            OBVIOUS
        <3> QED
            BY <3>1, <3>2
    <2>6. /\ referencesMap' \in [Names(file) -> SUBSET Nodes]
          /\ \A k \in Names(file) : \A n \in referencesMap'[k] :
                n \notin referencesMap[k] => n \in {Node, Arg(1)} /\ name[n] = k
        BY <2>2, <2>3, <2>4, <2>5
    <2>7. GraphGrows(<<>>)
        <3>1. \A i \in 1..Len(<<>>) : <<>>[i].fn \notin Renames
            OBVIOUS
        <3> QED
            BY <2>1, <2>2, <2>3, <2>6, <3>1 DEF GraphGrows
    <2> QED
        BY <1>1, <2>1, <2>7, NoCall, SameNames, SameDefinitions, Calling
<1> QED
    BY <1>3, <1>4, <1>5, <1>6 DEF ruleEval

LEMMA publicListInv ==
    ASSUME IInv, publicList, UNCHANGED <<file, next>>
    PROVE  IInv'
<1>1. calls # <<>> /\ Top.fn = "publicList"
    BY DEF publicList, Runs
<1>2. Top.fn \notin Renames /\ Top.fn \notin Leads /\ Top.fn # "addRefAndIndexArg"
    BY <1>1 DEF Renames, Leads
<1>3. CASE Terminals(Node)
           /\ Walks(<<Call("addRefAndIndexArg", Arg(1)), Call("publicList", RestOfList(Node))>>)
    <2>1. /\ Arg(1) \in Nodes /\ U(Arg(1)) \subseteq U(Node)
          /\ Arg(2) \in Nodes /\ U(Arg(2)) \subseteq U(Node)
          /\ U(Arg(1)) \cap U(Arg(2)) = {}
          /\ Arg(2) = RestOfList(Node)
        BY <1>1, <1>2, <1>3, Arguments DEF Terminals
    <2>2. GoesDown(<<Call("addRefAndIndexArg", Arg(1)), Call("publicList", RestOfList(Node))>>)
        BY <1>2, <2>1, TwoCalls DEF Functions, Renames, Leads
    <2> QED
        BY <1>1, <1>3, <2>2, Walking
<1>4. CASE Walks(<<>>)
    BY <1>1, <1>4, NoCall, Walking
<1>5. CASE Walks(<<Call("addRefAndIndexArg", Node)>>)
    <2>1. GoesDown(<<Call("addRefAndIndexArg", Node)>>)
        BY <1>1, TopNode, OneCall DEF Functions, Renames, Leads
    <2> QED
        BY <1>1, <1>5, <2>1, Walking
<1> QED
    BY <1>3, <1>4, <1>5 DEF publicList

--------------------------------------------------------------------------------
LEMMA StepInv == ASSUME IInv, [Next]_vars PROVE IInv'
<1>1. CASE NextClause
    BY <1>1, NextClauseInv
<1>2. CASE Step
    BY <1>2, addRefInv, indexInv, ruleHeadInv, ruleBodyInv, DCGHeadInv, DCGBodyInv,
       ruleEvalInv, publicListInv DEF Step
<1>3. CASE UNCHANGED vars
    BY <1>3 DEF vars, IInv, TypeOK, NamesAgree, CallersMatch, FreshNames, Apart, NotEntered,
                Untouched, OneLead, Nodes, Clauses, U
<1> QED
    BY <1>1, <1>2, <1>3 DEF Next

LEMMA IInvHolds == Spec => []IInv
BY InitInv, StepInv, PTL DEF Spec

\* Every call of the walk is for a node of the file: the casts "node as Compound"
\* of indexer.ts are only made of nodes with that many arguments.
THEOREM TypeCorrect == Spec => []TypeOK
<1>1. IInv => TypeOK
    BY DEF IInv
<1> QED
    BY <1>1, IInvHolds, PTL

\* Every node that onReferences finds under a name has that name, although
\* dcg_extend renames nodes all along.
THEOREM NamesAlwaysAgree == Spec => []NamesAgree
<1>1. IInv => NamesAgree
    BY DEF IInv
<1> QED
    BY <1>1, IInvHolds, PTL

\* The clauses that onDefinition finds under a name have a caller node, of that name.
THEOREM CallersAlwaysMatch == Spec => []CallersMatch
<1>1. IInv => CallersMatch
    BY DEF IInv
<1> QED
    BY <1>1, IInvHolds, PTL

\* A clause keeps the caller node it has got: one call of its walk looks for the
\* head, and ends when it has found it.
THEOREM CallersAreKept == Spec => OneCallerPerClause
<1> DEFINE Kept == \A c \in Clauses : callerNode[c] # None => callerNode'[c] = callerNode[c]
<1>1. ASSUME IInv, Next PROVE Kept
    <2>1. callerNode \in [Clauses -> Nodes \cup {None}]
        BY <1>1 DEF IInv, TypeOK
    <2>2. CASE callerNode' = callerNode
        BY <2>2
    <2>3. ASSUME SetCaller, calls # <<>>, Top.fn \in Leads
          PROVE  Kept
        <3>1. Top = calls[1] /\ 1 \in 1..Len(calls)
            BY <1>1, <2>3, TopIsCall DEF IInv, TypeOK, Calls
        <3>2. callerNode[next] = None
            BY <1>1, <2>3, <3>1 DEF IInv, OneLead
        <3> QED
            BY <2>1, <2>3, <3>2 DEF SetCaller
    <2>4. \/ callerNode' = callerNode
          \/ SetCaller /\ calls # <<>> /\ Top.fn \in Leads
        BY <1>1 DEF Next, NextClause, Step, addRefAndIndexArg, index, ruleHead, ruleBody, DCGHead,
           DCGBody, ruleEval, publicList, UseModule, Walks, Runs, Leads
    <2> QED
        BY <2>2, <2>3, <2>4
<1>2. ASSUME IInv, [Next]_vars PROVE [Kept]_vars
    BY <1>1, <1>2
<1> QED
    BY <1>2, IInvHolds, PTL DEF Spec, OneCallerPerClause

(***************************************************************************)
(* Recursion over a term.  A node is not in the subtrees of its arguments, *)
(* so a set of nodes has one without an argument in it, and a function on  *)
(* nodes may be defined by its values at the arguments.                    *)
(***************************************************************************)
\* Every set of nodes has a node none of whose arguments is in it.
LEMMA LowestNode ==
    ASSUME file \in Files, NEW T, T \subseteq Nodes, T # {}
    PROVE  \E n \in T : \A i \in 1..Len(file.args[n]) : file.args[n][i] \notin T
<1> DEFINE R == StrictSubsetOrdering(Nodes)
           unders == {U(n) : n \in T}
<1>1. IsFile(file) /\ IsForest(file)
    BY FilesAssumption
<1>2. IsFiniteSet(Nodes)
    BY <1>1 DEF IsFile, Nodes
<1>3. IsWellFoundedOn(R, SUBSET Nodes)
    BY <1>2, FS_StrictSubsetOrderingWellFounded, FS_FiniteSubsetsOfFinite
<1>4. \A n \in Nodes : U(n) \subseteq Nodes
    BY <1>1 DEF IsFile, Nodes, U
<1>5. unders \subseteq SUBSET Nodes /\ unders # {}
    BY <1>4
<1>6. PICK u \in unders : \A v \in unders : <<v, u>> \notin R
    BY <1>3, <1>5, WFMin
<1>7. PICK n \in T : u = U(n)
    BY <1>6
<1>8. ASSUME NEW i \in 1..Len(file.args[n]), file.args[n][i] \in T
      PROVE  FALSE
    <2> DEFINE a == file.args[n][i]
    <2>1. n \in U(n) /\ U(a) \subseteq U(n)
        BY <1>7, <1>8, Subtrees
    <2>2. n \notin U(a)
        <3>1. n \in NodesOf(file)
            BY <1>7 DEF Nodes
        <3> QED
            BY <1>1, <3>1, <1>8 DEF IsForest, U
    <2>3. U(a) \in unders /\ <<U(a), u>> \in R
        BY <1>7, <1>8, <1>4, <2>1, <2>2 DEF StrictSubsetOrdering
    <2> QED
        BY <1>6, <2>3
<1> QED
    BY <1>7, <1>8

\* B[n] gives a function's value at n, and looks at its values at the arguments only.
LooksDown(B, V) ==
    \A n \in Nodes : \A f \in [Nodes -> V] :
        /\ B[n][f] \in V
        /\ \A g \in [Nodes -> V] :
              (\A i \in 1..Len(file.args[n]) : f[file.args[n][i]] = g[file.args[n][i]])
                 => B[n][f] = B[n][g]

\* B gives all the values of a function.
HasSolution(B, V) == \E f \in [Nodes -> V] : \A n \in Nodes : f[n] = B[n][f]

LEMMA Recursion ==
    ASSUME file \in Files, NEW V, V # {}, NEW B, LooksDown(B, V)
    PROVE  HasSolution(B, V)
<1> USE DEF LooksDown, HasSolution
<1> DEFINE R == StrictSubsetOrdering(Nodes)
           Closed(D) == \A n \in D : \A i \in 1..Len(file.args[n]) : file.args[n][i] \in D
           Solves(D, f) == \A n \in D : f[n] = B[n][f]
           left == {T \in SUBSET Nodes :
                       Closed(Nodes \ T) /\ \E f \in [Nodes -> V] : Solves(Nodes \ T, f)}
<1>1. IsFiniteSet(Nodes)
    <2>1. IsFile(file)
        BY FilesAssumption
    <2> QED
        BY <2>1 DEF IsFile, Nodes
<1>2. IsWellFoundedOn(R, SUBSET Nodes)
    BY <1>1, FS_StrictSubsetOrderingWellFounded, FS_FiniteSubsetsOfFinite
<1>3. Nodes \in left
    <2>1. Nodes \ Nodes = {}
        OBVIOUS
    <2>2. PICK v : v \in V
        OBVIOUS
    <2>3. [n \in Nodes |-> v] \in [Nodes -> V]
        BY <2>2
    <2>4. Closed(Nodes \ Nodes) /\ Solves(Nodes \ Nodes, [n \in Nodes |-> v])
        BY <2>1
    <2> QED
        BY <2>3, <2>4
<1>4. PICK T \in left : \A y \in left : <<y, T>> \notin R
    <2>1. left \subseteq SUBSET Nodes /\ left # {}
        BY <1>3
    <2> HIDE DEF left, R
    <2> QED
        BY <1>2, <2>1, WFMin
<1>5. PICK f \in [Nodes -> V] : Solves(Nodes \ T, f)
    BY <1>4
<1>6. CASE T = {}
    BY <1>5, <1>6
<1>7. CASE T # {}
    <2>1. PICK n \in T : \A i \in 1..Len(file.args[n]) : file.args[n][i] \notin T
        BY <1>4, <1>7, LowestNode
    <2> DEFINE g == [f EXCEPT ![n] = B[n][f]]
               rest == T \ {n}
    <2>2. n \in Nodes /\ T \subseteq Nodes /\ Closed(Nodes \ T)
        BY <1>4
    <2>3. B[n][f] \in V
        BY <2>2
    <2>4. g \in [Nodes -> V] /\ g[n] = B[n][f] /\ \A m \in Nodes : m # n => g[m] = f[m]
        BY <2>2, <2>3
    <2>5. \A m \in Nodes : \A i \in 1..Len(file.args[m]) : file.args[m][i] \in Nodes
        BY Subtrees
    <2>6. Nodes \ rest = (Nodes \ T) \cup {n}
        BY <2>2
    <2> HIDE DEF g
    <2>7. Closed(Nodes \ rest)
        BY <2>1, <2>2, <2>5, <2>6
    <2>8. ASSUME NEW m \in Nodes \ rest
          PROVE  B[m][f] = B[m][g]
        <3>1. \A i \in 1..Len(file.args[m]) : file.args[m][i] \in Nodes \ T
            BY <2>1, <2>2, <2>5, <2>6
        <3>2. \A i \in 1..Len(file.args[m]) : f[file.args[m][i]] = g[file.args[m][i]]
            BY <3>1, <2>1, <2>4
        <3> QED
            BY <3>2, <2>4
    <2>9. Solves(Nodes \ rest, g)
        BY <1>5, <2>2, <2>4, <2>6, <2>8
    <2>10. rest \in left
        BY <2>2, <2>4, <2>7, <2>9
    <2>11. <<rest, T>> \in R
        BY <2>1, <2>2 DEF StrictSubsetOrdering
    <2> QED
        BY <1>4, <2>10, <2>11
<1> QED
    BY <1>6, <1>7

\* A node reads one functor.
LEMMA Functor ==
    ASSUME NEW n, NEW vs, NEW k, Reads(n, vs, k)
    PROVE  Len(Text(n)) = 2 /\ Text(n)[1] \in vs /\ Text(n)[2] = k
<1>1. PICK v \in vs : Text(n) = <<v, k>>
    BY DEF Reads
<1>2. Len(<<v, k>>) = 2 /\ <<v, k>>[1] = v /\ <<v, k>>[2] = k
    OBVIOUS
<1> QED
    BY <1>1, <1>2

\* A node that reads v/k has k arguments.
LEMMA ReadsArguments ==
    ASSUME file \in Files, NEW n \in Nodes, NEW vs, NEW k \in {1, 2}, Reads(n, vs, k)
    PROVE  /\ Len(file.args[n]) = k
           /\ Sub(n, 1) \in Nodes
           /\ k = 2 => Sub(n, 2) \in Nodes
<1>1. Len(file.args[n]) = k
    BY Arity DEF Reads, Text, Nodes
<1>2. \A i \in 1..k : file.args[n][i] \in Nodes
    BY <1>1, Subtrees
<1> QED
    BY <1>1, <1>2 DEF Sub

\* The head of a rule, by the equation that defines it.
LEMMA UnqualifiedEquation ==
    ASSUME file \in Files, NEW n \in Nodes
    PROVE  /\ Unqualified[n] \in Nodes
           /\ Unqualified[n] = IF Reads(n, {":"}, 2) THEN Unqualified[Sub(n, 2)] ELSE n
<1> DEFINE B == [m \in Nodes |-> [f \in [Nodes -> Nodes] |->
                    IF Reads(m, {":"}, 2) THEN f[Sub(m, 2)] ELSE m]]
<1>1. ASSUME NEW m \in Nodes, NEW f \in [Nodes -> Nodes]
      PROVE  /\ B[m][f] \in Nodes
             /\ \A g \in [Nodes -> Nodes] :
                   (\A i \in 1..Len(file.args[m]) : f[file.args[m][i]] = g[file.args[m][i]])
                      => B[m][f] = B[m][g]
    <2>1. CASE ~ Reads(m, {":"}, 2)
        BY <2>1
    <2>2. CASE Reads(m, {":"}, 2)
        <3>1. Len(file.args[m]) = 2 /\ Sub(m, 2) \in Nodes
            BY <2>2, ReadsArguments
        <3>2. 2 \in 1..Len(file.args[m]) /\ Sub(m, 2) = file.args[m][2]
            BY <3>1 DEF Sub
        <3> QED
            BY <2>2, <3>1, <3>2
    <2> QED
        BY <2>1, <2>2
<1> HIDE DEF B
<1>2. PICK f \in [Nodes -> Nodes] : \A m \in Nodes : f[m] = B[m][f]
    <2>1. LooksDown(B, Nodes)
        BY <1>1 DEF LooksDown
    <2> QED
        BY <2>1, Nodes # {}, Recursion DEF HasSolution
<1>3. f = [m \in Nodes |-> IF Reads(m, {":"}, 2) THEN f[Sub(m, 2)] ELSE m]
    BY <1>2 DEF B
<1>4. Unqualified = [m \in Nodes |-> IF Reads(m, {":"}, 2) THEN Unqualified[Sub(m, 2)] ELSE m]
    BY <1>3 DEF Unqualified
<1>5. \A m \in Nodes : Unqualified[m] = IF Reads(m, {":"}, 2) THEN Unqualified[Sub(m, 2)] ELSE m
    BY <1>4
<1>6. \A m \in Nodes : Unqualified[m] \in Nodes
    <2> DEFINE T == {m \in Nodes : Unqualified[m] \notin Nodes}
    <2> SUFFICES ASSUME T # {} PROVE FALSE
        OBVIOUS
    <2>1. PICK m \in T : \A i \in 1..Len(file.args[m]) : file.args[m][i] \notin T
        BY LowestNode
    <2>2. Unqualified[m] = IF Reads(m, {":"}, 2) THEN Unqualified[Sub(m, 2)] ELSE m
        BY <1>5
    <2>3. Reads(m, {":"}, 2)
        BY <2>2
    <2>4. Len(file.args[m]) = 2 /\ Sub(m, 2) \in Nodes /\ Sub(m, 2) = file.args[m][2]
        BY <2>3, ReadsArguments DEF Sub
    <2> QED
        BY <2>1, <2>2, <2>3, <2>4
<1> QED
    BY <1>5, <1>6

\* The head of a grammar rule likewise.
LEMMA DCGHeadEquation ==
    ASSUME file \in Files, NEW n \in Nodes
    PROVE  /\ DCGHeadOf[n] \in Nodes
           /\ Reads(n, {","}, 2) => DCGHeadOf[n] = DCGHeadOf[Sub(n, 1)]
           /\ Reads(n, {":"}, 2) => DCGHeadOf[n] = DCGHeadOf[Sub(n, 2)]
           /\ ~ Reads(n, {","}, 2) /\ ~ Reads(n, {":"}, 2) => DCGHeadOf[n] = n
<1> DEFINE Value(m, f) == CASE Reads(m, {","}, 2) -> f[Sub(m, 1)]
                            [] Reads(m, {":"}, 2) -> f[Sub(m, 2)]
                            [] OTHER              -> m
           B == [m \in Nodes |-> [f \in [Nodes -> Nodes] |-> Value(m, f)]]
<1>1. ASSUME NEW m \in Nodes, NEW f
      PROVE  /\ Reads(m, {","}, 2) => Value(m, f) = f[Sub(m, 1)]
             /\ Reads(m, {":"}, 2) => Value(m, f) = f[Sub(m, 2)]
             /\ ~ Reads(m, {","}, 2) /\ ~ Reads(m, {":"}, 2) => Value(m, f) = m
    <2>1. ~ (Reads(m, {","}, 2) /\ Reads(m, {":"}, 2))
        <3>1. ASSUME Reads(m, {","}, 2), Reads(m, {":"}, 2) PROVE FALSE
            <4>1. Text(m)[1] \in {","} /\ Text(m)[1] \in {":"}
                BY <3>1, Functor
            <4> QED
                BY <4>1
        <3> QED
            BY <3>1
    <2>2. CASE Reads(m, {","}, 2)
        BY <2>1, <2>2
    <2>3. CASE Reads(m, {":"}, 2)
        BY <2>1, <2>3
    <2>4. CASE ~ Reads(m, {","}, 2) /\ ~ Reads(m, {":"}, 2)
        BY <2>4
    <2> QED
        BY <2>1, <2>2, <2>3, <2>4
<1> HIDE DEF Value
<1>2. ASSUME NEW m \in Nodes, NEW v, Reads(m, {v}, 2)
      PROVE  /\ Sub(m, 1) \in Nodes /\ Sub(m, 2) \in Nodes
             /\ \E i \in 1..Len(file.args[m]) : Sub(m, 1) = file.args[m][i]
             /\ \E i \in 1..Len(file.args[m]) : Sub(m, 2) = file.args[m][i]
    <2>1. Len(file.args[m]) = 2 /\ Sub(m, 1) \in Nodes /\ Sub(m, 2) \in Nodes
        BY <1>2, ReadsArguments
    <2>2. 1 \in 1..Len(file.args[m]) /\ 2 \in 1..Len(file.args[m])
        BY <2>1
    <2> QED
        BY <2>1, <2>2 DEF Sub
<1>3. PICK f \in [Nodes -> Nodes] : \A m \in Nodes : f[m] = B[m][f]
    <2>1. \A m \in Nodes : \A f \in [Nodes -> Nodes] : B[m][f] = Value(m, f)
        OBVIOUS
    <2> HIDE DEF B
    <2>3. ASSUME NEW m \in Nodes, NEW f \in [Nodes -> Nodes]
          PROVE  Value(m, f) \in Nodes
        BY <1>1, <1>2
    <2>4. ASSUME NEW m \in Nodes, NEW f \in [Nodes -> Nodes], NEW g \in [Nodes -> Nodes],
                 \A i \in 1..Len(file.args[m]) : f[file.args[m][i]] = g[file.args[m][i]]
          PROVE  Value(m, f) = Value(m, g)
        <3>1. CASE Reads(m, {","}, 2)
            <4>1. PICK i \in 1..Len(file.args[m]) : Sub(m, 1) = file.args[m][i]
                BY <3>1, <1>2
            <4>2. f[Sub(m, 1)] = g[Sub(m, 1)]
                BY <4>1, <2>4
            <4> QED
                BY <4>2, <3>1, <1>1
        <3>2. CASE Reads(m, {":"}, 2)
            <4>1. PICK i \in 1..Len(file.args[m]) : Sub(m, 2) = file.args[m][i]
                BY <3>2, <1>2
            <4>2. f[Sub(m, 2)] = g[Sub(m, 2)]
                BY <4>1, <2>4
            <4> QED
                BY <4>2, <3>2, <1>1
        <3>3. CASE ~ Reads(m, {","}, 2) /\ ~ Reads(m, {":"}, 2)
            BY <3>3, <1>1
        <3> QED
            BY <3>1, <3>2, <3>3
    <2>2. LooksDown(B, Nodes)
        <3> SUFFICES ASSUME NEW m \in Nodes, NEW f \in [Nodes -> Nodes]
                     PROVE  /\ B[m][f] \in Nodes
                            /\ \A g \in [Nodes -> Nodes] :
                                  (\A i \in 1..Len(file.args[m]) : f[file.args[m][i]] = g[file.args[m][i]])
                                     => B[m][f] = B[m][g]
            BY DEF LooksDown
        <3>1. B[m][f] \in Nodes
            BY <2>1, <2>3
        <3>2. ASSUME NEW g \in [Nodes -> Nodes],
                     \A i \in 1..Len(file.args[m]) : f[file.args[m][i]] = g[file.args[m][i]]
              PROVE  B[m][f] = B[m][g]
            BY <2>1, <2>4, <3>2
        <3> QED
            BY <3>1, <3>2
    <2> QED
        BY <2>2, Nodes # {}, Recursion DEF HasSolution
<1>4. f = [m \in Nodes |-> Value(m, f)]
    BY <1>3 DEF B
<1>5. DCGHeadOf = [m \in Nodes |-> Value(m, DCGHeadOf)]
    BY <1>4 DEF DCGHeadOf, Value
<1>6. \A m \in Nodes : DCGHeadOf[m] = Value(m, DCGHeadOf)
    BY <1>5
<1>7. \A m \in Nodes : DCGHeadOf[m] \in Nodes
    <2> DEFINE T == {m \in Nodes : DCGHeadOf[m] \notin Nodes}
    <2> SUFFICES ASSUME T # {} PROVE FALSE
        OBVIOUS
    <2>1. PICK m \in T : \A i \in 1..Len(file.args[m]) : file.args[m][i] \notin T
        BY LowestNode
    <2>2. Reads(m, {","}, 2) \/ Reads(m, {":"}, 2)
        BY <1>1, <1>6, <2>1
    <2>3. DCGHeadOf[m] \in {DCGHeadOf[Sub(m, 1)], DCGHeadOf[Sub(m, 2)]}
        BY <1>1, <1>6, <2>2
    <2>4. /\ Sub(m, 1) \in Nodes /\ Sub(m, 1) \notin T
          /\ Sub(m, 2) \in Nodes /\ Sub(m, 2) \notin T
        BY <1>2, <2>1, <2>2
    <2> QED
        BY <2>1, <2>3, <2>4
<1> QED
    BY <1>1, <1>6, <1>7

\* what bodies are made of
Controls == {",", ";", "|", "*->", "->"}

\* the nodes of a subtree with their texts
TextsIn(n) == {<<m, Text(m)>> : m \in U(n)}

\* What an argument is when the node reads a functor that has it.
LEMMA ReadsArgument ==
    ASSUME file \in Files, NEW n \in Nodes, NEW vs, NEW k \in {1, 2}, Reads(n, vs, k)
    PROVE  /\ \E i \in 1..Len(file.args[n]) : Sub(n, 1) = file.args[n][i]
           /\ k = 2 => \E i \in 1..Len(file.args[n]) : Sub(n, 2) = file.args[n][i]
<1>1. Len(file.args[n]) = k
    BY ReadsArguments
<1>2. 1 \in 1..Len(file.args[n]) /\ (k = 2 => 2 \in 1..Len(file.args[n]))
    BY <1>1
<1> QED
    BY <1>2 DEF Sub

\* The goals of a body, by the equation that defines them.
LEMMA RuleGoalsEquation ==
    ASSUME file \in Files, NEW r \in BOOLEAN, NEW n \in Nodes
    PROVE  /\ RuleGoals(r)[n] \subseteq TextsIn(n)
           /\ Reads(n, Controls, 2) =>
                  RuleGoals(r)[n] = RuleGoals(r)[Sub(n, 1)] \cup RuleGoals(r)[Sub(n, 2)]
           /\ Reads(n, {"\\+"}, 1) => RuleGoals(r)[n] = RuleGoals(r)[Sub(n, 1)]
           /\ Reads(n, {":"}, 2) => RuleGoals(r)[n] = IF r THEN RuleGoals(r)[Sub(n, 2)] ELSE {}
           /\ ~ Reads(n, Controls, 2) /\ ~ Reads(n, {"\\+"}, 1) /\ ~ Reads(n, {":"}, 2) =>
                  RuleGoals(r)[n] = {<<n, Text(n)>>}
<1> DEFINE V == SUBSET {<<m, Text(m)>> : m \in Nodes}
           Value(m, f) ==
               CASE Reads(m, Controls, 2) -> f[Sub(m, 1)] \cup f[Sub(m, 2)]
                 [] Reads(m, {"\\+"}, 1)  -> f[Sub(m, 1)]
                 [] Reads(m, {":"}, 2)    -> IF r THEN f[Sub(m, 2)] ELSE {}
                 [] OTHER                 -> {<<m, Text(m)>>}
           B == [m \in Nodes |-> [f \in [Nodes -> V] |-> Value(m, f)]]
           Otherwise(m) == ~ Reads(m, Controls, 2) /\ ~ Reads(m, {"\\+"}, 1) /\ ~ Reads(m, {":"}, 2)
<1>1. ASSUME NEW m \in Nodes
      PROVE  /\ ~ (Reads(m, Controls, 2) /\ Reads(m, {"\\+"}, 1))
             /\ ~ (Reads(m, Controls, 2) /\ Reads(m, {":"}, 2))
             /\ ~ (Reads(m, {"\\+"}, 1) /\ Reads(m, {":"}, 2))
    <2>1. Reads(m, Controls, 2) => Text(m)[1] \in Controls
        BY Functor
    <2>2. Reads(m, {"\\+"}, 1) => Text(m)[1] \in {"\\+"}
        BY Functor
    <2>3. Reads(m, {":"}, 2) => Text(m)[1] \in {":"}
        BY Functor
    <2> QED
        BY <2>1, <2>2, <2>3 DEF Controls
<1>2. ASSUME NEW m \in Nodes, NEW f
      PROVE  /\ Reads(m, Controls, 2) => Value(m, f) = f[Sub(m, 1)] \cup f[Sub(m, 2)]
             /\ Reads(m, {"\\+"}, 1) => Value(m, f) = f[Sub(m, 1)]
             /\ Reads(m, {":"}, 2) => Value(m, f) = IF r THEN f[Sub(m, 2)] ELSE {}
             /\ Otherwise(m) => Value(m, f) = {<<m, Text(m)>>}
    BY <1>1
<1> HIDE DEF Value, V
<1>3. PICK f \in [Nodes -> V] : \A m \in Nodes : f[m] = B[m][f]
    <2>1. \A m \in Nodes : \A f \in [Nodes -> V] : B[m][f] = Value(m, f)
        OBVIOUS
    <2> HIDE DEF B
    <2>2. ASSUME NEW m \in Nodes, NEW f \in [Nodes -> V]
          PROVE  Value(m, f) \in V
        <3>1. CASE Reads(m, Controls, 2)
            BY <3>1, <1>2, ReadsArguments DEF V
        <3>2. CASE Reads(m, {"\\+"}, 1)
            BY <3>2, <1>2, ReadsArguments DEF V
        <3>3. CASE Reads(m, {":"}, 2)
            BY <3>3, <1>2, ReadsArguments DEF V
        <3>4. CASE Otherwise(m)
            BY <3>4, <1>2 DEF V
        <3> QED
            BY <3>1, <3>2, <3>3, <3>4
    <2>3. ASSUME NEW m \in Nodes, NEW f \in [Nodes -> V], NEW g \in [Nodes -> V],
                 \A i \in 1..Len(file.args[m]) : f[file.args[m][i]] = g[file.args[m][i]]
          PROVE  Value(m, f) = Value(m, g)
        <3>1. CASE Reads(m, Controls, 2)
            <4>1. f[Sub(m, 1)] = g[Sub(m, 1)] /\ f[Sub(m, 2)] = g[Sub(m, 2)]
                BY <2>3, <3>1, ReadsArgument
            <4> QED
                BY <3>1, <4>1, <1>2
        <3>2. CASE Reads(m, {"\\+"}, 1)
            <4>1. f[Sub(m, 1)] = g[Sub(m, 1)]
                BY <2>3, <3>2, ReadsArgument
            <4> QED
                BY <3>2, <4>1, <1>2
        <3>3. CASE Reads(m, {":"}, 2)
            <4>1. f[Sub(m, 2)] = g[Sub(m, 2)]
                BY <2>3, <3>3, ReadsArgument
            <4> QED
                BY <3>3, <4>1, <1>2
        <3>4. CASE Otherwise(m)
            BY <3>4, <1>2
        <3> QED
            BY <3>1, <3>2, <3>3, <3>4
    <2>4. LooksDown(B, V)
        <3> SUFFICES ASSUME NEW m \in Nodes, NEW f \in [Nodes -> V]
                     PROVE  /\ B[m][f] \in V
                            /\ \A g \in [Nodes -> V] :
                                  (\A i \in 1..Len(file.args[m]) : f[file.args[m][i]] = g[file.args[m][i]])
                                     => B[m][f] = B[m][g]
            BY DEF LooksDown
        <3>1. B[m][f] \in V
            BY <2>1, <2>2
        <3>2. ASSUME NEW g \in [Nodes -> V],
                     \A i \in 1..Len(file.args[m]) : f[file.args[m][i]] = g[file.args[m][i]]
              PROVE  B[m][f] = B[m][g]
            BY <2>1, <2>3, <3>2
        <3> QED
            BY <3>1, <3>2
    <2>5. V # {}
        BY DEF V
    <2>6. HasSolution(B, V)
        BY <2>4, <2>5, Recursion
    <2> QED
        BY <2>6 DEF HasSolution
<1>4. f = [m \in Nodes |-> Value(m, f)]
    BY <1>3 DEF B
<1>5. RuleGoals(r) = [m \in Nodes |-> Value(m, RuleGoals(r))]
    BY <1>4 DEF RuleGoals, Value, Controls
<1>6. \A m \in Nodes : RuleGoals(r)[m] = Value(m, RuleGoals(r))
    BY <1>5
<1>7. \A m \in Nodes : RuleGoals(r)[m] \subseteq TextsIn(m)
    <2> DEFINE T == {m \in Nodes : ~ (RuleGoals(r)[m] \subseteq TextsIn(m))}
    <2> SUFFICES ASSUME T # {} PROVE FALSE
        OBVIOUS
    <2>1. PICK m \in T : \A i \in 1..Len(file.args[m]) : file.args[m][i] \notin T
        BY LowestNode
    <2>2. /\ RuleGoals(r)[m] = Value(m, RuleGoals(r))
          /\ m \in U(m)
        BY <1>6, Subtrees
    <2>3. ASSUME NEW i \in 1..Len(file.args[m])
          PROVE  RuleGoals(r)[file.args[m][i]] \subseteq TextsIn(m)
        <3>1. file.args[m][i] \in Nodes \ T /\ U(file.args[m][i]) \subseteq U(m)
            BY <2>1, Subtrees
        <3>2. RuleGoals(r)[file.args[m][i]] \subseteq TextsIn(file.args[m][i])
            BY <3>1
        <3> QED
            BY <3>1, <3>2 DEF TextsIn
    <2>4. CASE Reads(m, Controls, 2)
        <3>1. /\ RuleGoals(r)[m] = RuleGoals(r)[Sub(m, 1)] \cup RuleGoals(r)[Sub(m, 2)]
              /\ RuleGoals(r)[Sub(m, 1)] \subseteq TextsIn(m)
              /\ RuleGoals(r)[Sub(m, 2)] \subseteq TextsIn(m)
            BY <2>2, <2>3, <2>4, <1>2, ReadsArgument
        <3> QED
            BY <2>1, <3>1
    <2>5. CASE Reads(m, {"\\+"}, 1)
        <3>1. /\ RuleGoals(r)[m] = RuleGoals(r)[Sub(m, 1)]
              /\ RuleGoals(r)[Sub(m, 1)] \subseteq TextsIn(m)
            BY <2>2, <2>3, <2>5, <1>2, ReadsArgument
        <3> QED
            BY <2>1, <3>1
    <2>6. CASE Reads(m, {":"}, 2)
        <3>1. /\ RuleGoals(r)[m] = IF r THEN RuleGoals(r)[Sub(m, 2)] ELSE {}
              /\ RuleGoals(r)[Sub(m, 2)] \subseteq TextsIn(m)
            BY <2>2, <2>3, <2>6, <1>2, ReadsArgument
        <3> QED
            BY <2>1, <3>1
    <2>7. CASE Otherwise(m)
        <3>1. RuleGoals(r)[m] = {<<m, Text(m)>>}
            BY <2>2, <2>7, <1>2
        <3> QED
            BY <2>1, <2>2, <3>1 DEF TextsIn
    <2> QED
        BY <2>4, <2>5, <2>6, <2>7
<1> QED
    BY <1>2, <1>6, <1>7

\* what grammar rules have beside, and the nodes that are no goals
GrammarControls == {",", ";", "|", "*->", "->", "-->"}
Silent          == {<<"[|]", 2>>, <<"!">>, <<"[]">>, <<"{}">>}

Speaks(n) ==
    ~ (\/ Reads(n, GrammarControls, 2) \/ Reads(n, {"\\+"}, 1) \/ Reads(n, {":"}, 2)
       \/ Reads(n, {"{}"}, 1) \/ Text(n) \in Silent)

\* The nonterminals of a body, by the equation that defines them.
LEMMA NonterminalsEquation ==
    ASSUME file \in Files, NEW r \in BOOLEAN, NEW n \in Nodes
    PROVE  /\ Nonterminals(r)[n] \subseteq Nodes \X Names(file)
           /\ Reads(n, GrammarControls, 2) =>
                  Nonterminals(r)[n] = Nonterminals(r)[Sub(n, 1)] \cup Nonterminals(r)[Sub(n, 2)]
           /\ Reads(n, {"\\+"}, 1) => Nonterminals(r)[n] = {}
           /\ Reads(n, {":"}, 2) => Nonterminals(r)[n] = Nonterminals(r)[Sub(n, 2)]
           /\ Reads(n, {"{}"}, 1) => Nonterminals(r)[n] = RuleGoals(r)[Sub(n, 1)]
           /\ Text(n) \in Silent => Nonterminals(r)[n] = {}
           /\ Speaks(n) => Nonterminals(r)[n] = {<<n, Called(n)>>}
<1> DEFINE V == SUBSET (Nodes \X Names(file))
           Value(m, f) ==
               CASE Reads(m, GrammarControls, 2) -> f[Sub(m, 1)] \cup f[Sub(m, 2)]
                 [] Reads(m, {"\\+"}, 1)         -> {}
                 [] Reads(m, {":"}, 2)           -> f[Sub(m, 2)]
                 [] Reads(m, {"{}"}, 1)          -> RuleGoals(r)[Sub(m, 1)]
                 [] Text(m) \in Silent           -> {}
                 [] OTHER                        -> {<<m, Called(m)>>}
           B == [m \in Nodes |-> [f \in [Nodes -> V] |-> Value(m, f)]]
<1>1. ASSUME NEW m \in Nodes
      PROVE  /\ ~ (Reads(m, GrammarControls, 2) /\ Reads(m, {"\\+"}, 1))
             /\ ~ (Reads(m, GrammarControls, 2) /\ Reads(m, {":"}, 2))
             /\ ~ (Reads(m, GrammarControls, 2) /\ Reads(m, {"{}"}, 1))
             /\ ~ (Reads(m, {"\\+"}, 1) /\ Reads(m, {":"}, 2))
             /\ ~ (Reads(m, {"\\+"}, 1) /\ Reads(m, {"{}"}, 1))
             /\ ~ (Reads(m, {":"}, 2) /\ Reads(m, {"{}"}, 1))
             /\ Text(m) \in Silent => ~ Reads(m, GrammarControls, 2) /\ ~ Reads(m, {"\\+"}, 1)
                                      /\ ~ Reads(m, {":"}, 2) /\ ~ Reads(m, {"{}"}, 1)
    <2>1. Reads(m, GrammarControls, 2) => Len(Text(m)) = 2 /\ Text(m)[1] \in GrammarControls
        BY Functor
    <2>2. Reads(m, {"\\+"}, 1) => Len(Text(m)) = 2 /\ Text(m)[1] \in {"\\+"}
        BY Functor
    <2>3. Reads(m, {":"}, 2) => Len(Text(m)) = 2 /\ Text(m)[1] \in {":"}
        BY Functor
    <2>4. Reads(m, {"{}"}, 1) => Len(Text(m)) = 2 /\ Text(m)[1] \in {"{}"}
        BY Functor
    <2>5. Text(m) \in Silent => (Len(Text(m)) = 2 => Text(m)[1] = "[|]")
        <3>1. ASSUME NEW v, Text(m) = <<v>> PROVE Len(Text(m)) = 1
            <4>1. Len(<<v>>) = 1
                OBVIOUS
            <4> QED
                BY <3>1, <4>1
        <3>2. ASSUME Text(m) = <<"[|]", 2>> PROVE Text(m)[1] = "[|]"
            <4>1. <<"[|]", 2>>[1] = "[|]"
                OBVIOUS
            <4> QED
                BY <3>2, <4>1
        <3>3. Text(m) \in Silent => Text(m) = <<"[|]", 2>> \/ Text(m) = <<"!">>
                                    \/ Text(m) = <<"[]">> \/ Text(m) = <<"{}">>
            BY DEF Silent
        <3>4. Text(m) = <<"!">> \/ Text(m) = <<"[]">> \/ Text(m) = <<"{}">> => Len(Text(m)) = 1
            BY <3>1
        <3>5. Len(Text(m)) = 1 => ~ (Len(Text(m)) = 2)
            OBVIOUS
        <3> QED
            BY <3>2, <3>3, <3>4, <3>5
    <2> QED
        BY <2>1, <2>2, <2>3, <2>4, <2>5 DEF GrammarControls
<1>2. ASSUME NEW m \in Nodes, NEW f
      PROVE  /\ Reads(m, GrammarControls, 2) => Value(m, f) = f[Sub(m, 1)] \cup f[Sub(m, 2)]
             /\ Reads(m, {"\\+"}, 1) => Value(m, f) = {}
             /\ Reads(m, {":"}, 2) => Value(m, f) = f[Sub(m, 2)]
             /\ Reads(m, {"{}"}, 1) => Value(m, f) = RuleGoals(r)[Sub(m, 1)]
             /\ Text(m) \in Silent => Value(m, f) = {}
             /\ Speaks(m) => Value(m, f) = {<<m, Called(m)>>}
    <2>1. /\ Speaks(m) => ~ Reads(m, GrammarControls, 2) /\ ~ Reads(m, {"\\+"}, 1) /\ ~ Reads(m, {":"}, 2)
                          /\ ~ Reads(m, {"{}"}, 1) /\ Text(m) \notin Silent
        BY DEF Speaks
    <2>2. Reads(m, GrammarControls, 2) => Value(m, f) = f[Sub(m, 1)] \cup f[Sub(m, 2)]
        BY <1>1
    <2>3. Reads(m, {"\\+"}, 1) => Value(m, f) = {}
        BY <1>1
    <2>4. Reads(m, {":"}, 2) => Value(m, f) = f[Sub(m, 2)]
        BY <1>1
    <2>5. Reads(m, {"{}"}, 1) => Value(m, f) = RuleGoals(r)[Sub(m, 1)]
        BY <1>1
    <2>6. Text(m) \in Silent => Value(m, f) = {}
        BY <1>1
    <2>7. Speaks(m) => Value(m, f) = {<<m, Called(m)>>}
        BY <2>1
    <2> HIDE DEF Value
    <2> QED
        BY <2>2, <2>3, <2>4, <2>5, <2>6, <2>7
<1> HIDE DEF Value, V
<1>3. ASSUME NEW m \in Nodes
      PROVE  /\ <<m, Called(m)>> \in Nodes \X Names(file)
             /\ Reads(m, {"{}"}, 1) => RuleGoals(r)[Sub(m, 1)] \subseteq Nodes \X Names(file)
    <2>1. Called(m) \in Names(file)
        BY NamesOfNodes DEF Called, Text, Nodes
    <2>2. ASSUME NEW k \in Nodes PROVE TextsIn(k) \subseteq Nodes \X Names(file)
        <3>1. U(k) \subseteq Nodes
            BY FilesAssumption DEF IsFile, U, Nodes
        <3>2. \A l \in Nodes : Text(l) \in Names(file)
            BY NamesOfNodes DEF Text, Nodes
        <3> QED
            BY <3>1, <3>2 DEF TextsIn
    <2>3. ASSUME Reads(m, {"{}"}, 1)
          PROVE  RuleGoals(r)[Sub(m, 1)] \subseteq Nodes \X Names(file)
        <3>1. Sub(m, 1) \in Nodes
            BY <2>3, ReadsArguments
        <3>2. RuleGoals(r)[Sub(m, 1)] \subseteq TextsIn(Sub(m, 1))
            BY <3>1, RuleGoalsEquation
        <3> QED
            BY <3>1, <3>2, <2>2
    <2> QED
        BY <2>1, <2>3
<1>4. PICK f \in [Nodes -> V] : \A m \in Nodes : f[m] = B[m][f]
    <2>1. \A m \in Nodes : \A f \in [Nodes -> V] : B[m][f] = Value(m, f)
        OBVIOUS
    <2> HIDE DEF B
    <2>2. ASSUME NEW m \in Nodes, NEW f \in [Nodes -> V]
          PROVE  Value(m, f) \in V
        <3>1. CASE Reads(m, GrammarControls, 2)
            BY <3>1, <1>2, ReadsArguments DEF V
        <3>2. CASE Reads(m, {"\\+"}, 1) \/ Text(m) \in Silent
            BY <3>2, <1>2 DEF V
        <3>3. CASE Reads(m, {":"}, 2)
            <4>1. Sub(m, 2) \in Nodes
                BY <3>3, ReadsArguments
            <4>2. f[Sub(m, 2)] \in V
                BY <4>1
            <4> QED
                BY <4>2, <3>3, <1>2
        <3>4. CASE Reads(m, {"{}"}, 1)
            BY <3>4, <1>2, <1>3 DEF V
        <3>5. CASE Speaks(m)
            BY <3>5, <1>2, <1>3 DEF V
        <3> QED
            BY <3>1, <3>2, <3>3, <3>4, <3>5 DEF Speaks
    <2>3. ASSUME NEW m \in Nodes, NEW f \in [Nodes -> V], NEW g \in [Nodes -> V],
                 \A i \in 1..Len(file.args[m]) : f[file.args[m][i]] = g[file.args[m][i]]
          PROVE  Value(m, f) = Value(m, g)
        <3>1. CASE Reads(m, GrammarControls, 2)
            <4>1. f[Sub(m, 1)] = g[Sub(m, 1)] /\ f[Sub(m, 2)] = g[Sub(m, 2)]
                BY <2>3, <3>1, ReadsArgument
            <4> QED
                BY <3>1, <4>1, <1>2
        <3>2. CASE Reads(m, {"\\+"}, 1) \/ Reads(m, {"{}"}, 1) \/ Text(m) \in Silent \/ Speaks(m)
            BY <3>2, <1>2
        <3>3. CASE Reads(m, {":"}, 2)
            <4>1. f[Sub(m, 2)] = g[Sub(m, 2)]
                BY <2>3, <3>3, ReadsArgument
            <4> QED
                BY <3>3, <4>1, <1>2
        <3> QED
            BY <3>1, <3>2, <3>3 DEF Speaks
    <2>4. LooksDown(B, V)
        <3> SUFFICES ASSUME NEW m \in Nodes, NEW f \in [Nodes -> V]
                     PROVE  /\ B[m][f] \in V
                            /\ \A g \in [Nodes -> V] :
                                  (\A i \in 1..Len(file.args[m]) : f[file.args[m][i]] = g[file.args[m][i]])
                                     => B[m][f] = B[m][g]
            BY DEF LooksDown
        <3>1. B[m][f] \in V
            BY <2>1, <2>2
        <3>2. ASSUME NEW g \in [Nodes -> V],
                     \A i \in 1..Len(file.args[m]) : f[file.args[m][i]] = g[file.args[m][i]]
              PROVE  B[m][f] = B[m][g]
            BY <2>1, <2>3, <3>2
        <3> QED
            BY <3>1, <3>2
    <2>5. V # {}
        BY DEF V
    <2>6. HasSolution(B, V)
        BY <2>4, <2>5, Recursion
    <2> QED
        BY <2>6 DEF HasSolution
<1>5. f = [m \in Nodes |-> Value(m, f)]
    BY <1>4 DEF B
<1>6. Nonterminals(r) = [m \in Nodes |-> Value(m, Nonterminals(r))]
    BY <1>5 DEF Nonterminals, Value, GrammarControls, Silent
<1>7. \A m \in Nodes : Nonterminals(r)[m] = Value(m, Nonterminals(r))
    BY <1>6
<1>8. \A m \in Nodes : Nonterminals(r)[m] \subseteq Nodes \X Names(file)
    <2> DEFINE T == {m \in Nodes : ~ (Nonterminals(r)[m] \subseteq Nodes \X Names(file))}
    <2> SUFFICES ASSUME T # {} PROVE FALSE
        OBVIOUS
    <2>1. PICK m \in T : \A i \in 1..Len(file.args[m]) : file.args[m][i] \notin T
        BY LowestNode
    <2>2. Nonterminals(r)[m] = Value(m, Nonterminals(r))
        BY <1>7
    <2>3. ASSUME NEW i \in 1..Len(file.args[m])
          PROVE  Nonterminals(r)[file.args[m][i]] \subseteq Nodes \X Names(file)
        BY <2>1, Subtrees
    <2>4. CASE Reads(m, GrammarControls, 2)
        <3>1. /\ Nonterminals(r)[m] = Nonterminals(r)[Sub(m, 1)] \cup Nonterminals(r)[Sub(m, 2)]
              /\ Nonterminals(r)[Sub(m, 1)] \subseteq Nodes \X Names(file)
              /\ Nonterminals(r)[Sub(m, 2)] \subseteq Nodes \X Names(file)
            BY <2>2, <2>3, <2>4, <1>2, ReadsArgument
        <3> QED
            BY <2>1, <3>1
    <2>5. CASE Reads(m, {":"}, 2)
        <3>1. /\ Nonterminals(r)[m] = Nonterminals(r)[Sub(m, 2)]
              /\ Nonterminals(r)[Sub(m, 2)] \subseteq Nodes \X Names(file)
            BY <2>2, <2>3, <2>5, <1>2, ReadsArgument
        <3> QED
            BY <2>1, <3>1
    <2>6. CASE Reads(m, {"\\+"}, 1) \/ Text(m) \in Silent
        <3>1. Nonterminals(r)[m] = {}
            BY <2>2, <2>6, <1>2
        <3> QED
            BY <2>1, <3>1
    <2>7. CASE Reads(m, {"{}"}, 1)
        <3>1. Nonterminals(r)[m] = RuleGoals(r)[Sub(m, 1)]
            BY <2>2, <2>7, <1>2
        <3> QED
            BY <2>1, <2>7, <3>1, <1>3
    <2>8. CASE Speaks(m)
        <3>1. Nonterminals(r)[m] = {<<m, Called(m)>>}
            BY <2>2, <2>8, <1>2
        <3> QED
            BY <2>1, <3>1, <1>3
    <2> QED
        BY <2>4, <2>5, <2>6, <2>7, <2>8 DEF Speaks
<1> QED
    BY <1>2, <1>7, <1>8

\* What the text of a file says changes with the file only.
LEMMA SameText ==
    ASSUME file' = file
    PROVE  /\ Unqualified' = Unqualified /\ DCGHeadOf' = DCGHeadOf
           /\ \A n : Text(n)' = Text(n) /\ Called(n)' = Called(n)
           /\ \A c : DefinedHeads(c)' = DefinedHeads(c)
<1>1. Unqualified' = Unqualified
    BY DEF Unqualified, Nodes, Reads, Text, Sub, NodesOf, InitialName
<1>2. DCGHeadOf' = DCGHeadOf
    BY DEF DCGHeadOf, Nodes, Reads, Text, Sub, NodesOf, InitialName
<1>3. \A n : Text(n)' = Text(n) /\ Called(n)' = Called(n)
    BY DEF Text, Called, InitialName
<1>4. \A c : DefinedHeads(c)' = DefinedHeads(c)
    BY <1>1, <1>2 DEF DefinedHeads, InModule, HeadsOf, Reads, Term, Sub, Text, Called, InitialName
<1> QED
    BY <1>1, <1>2, <1>3, <1>4

LEMMA SameGoals ==
    ASSUME file' = file
    PROVE  /\ \A r : RuleGoals(r)' = RuleGoals(r)
           /\ \A r : Nonterminals(r)' = Nonterminals(r)
           /\ \A c, r : GoalsOf(c, r)' = GoalsOf(c, r)
<1>1. \A r : RuleGoals(r)' = RuleGoals(r)
    BY DEF RuleGoals, Nodes, Reads, Text, Sub, NodesOf, InitialName
<1>2. \A r : Nonterminals(r)' = Nonterminals(r)
    BY <1>1 DEF Nonterminals, Nodes, Reads, Text, Sub, NodesOf, InitialName, Called
<1>3. \A c, r : GoalsOf(c, r)' = GoalsOf(c, r)
    BY <1>1, <1>2 DEF GoalsOf, Reads, Term, Sub, Text, InitialName
<1> QED
    BY <1>1, <1>2, <1>3

\* The stack after the top is replaced has the calls that replace it and the others.
LEMMA NewStack ==
    ASSUME calls # <<>>, calls \in Seq(Calls), NEW others \in Seq(Calls), GoOnWith(others)
    PROVE  /\ \A i \in 1..Len(calls') :
                 \/ \E j \in 1..Len(others) : calls'[i] = others[j]
                 \/ \E j \in 1..Len(calls) : j # 1 /\ calls'[i] = calls[j]
           /\ \A j \in 1..Len(others) : \E i \in 1..Len(calls') : calls'[i] = others[j]
           /\ \A j \in 1..Len(calls) : j # 1 => \E i \in 1..Len(calls') : calls'[i] = calls[j]
<1> DEFINE s == others \o Tail(calls)
<1>1. /\ s \in Seq(Calls)
      /\ Len(s) = Len(others) + Len(calls) - 1
      /\ \A i \in 1..Len(others) : s[i] = others[i]
      /\ \A i \in 1..Len(s) : i > Len(others) =>
            i - Len(others) + 1 \in 2..Len(calls) /\ s[i] = calls[i - Len(others) + 1]
    BY Stack
<1>2. calls' = s
    BY DEF GoOnWith
<1>3. Len(others) \in Nat /\ Len(calls) \in Nat /\ Len(calls) > 0
    OBVIOUS
<1> HIDE DEF s
<1>4. ASSUME NEW i \in 1..Len(s)
      PROVE  \/ \E j \in 1..Len(others) : s[i] = others[j]
             \/ \E j \in 1..Len(calls) : j # 1 /\ s[i] = calls[j]
    <2>1. CASE i <= Len(others)
        <3>1. i \in 1..Len(others)
            BY <2>1, <1>3, <1>1
        <3> QED
            BY <3>1, <1>1
    <2>2. CASE i > Len(others)
        <3>1. i - Len(others) + 1 \in 1..Len(calls) /\ i - Len(others) + 1 # 1
            BY <2>2, <1>1, <1>3
        <3> QED
            BY <3>1, <2>2, <1>1
    <2> QED
        BY <2>1, <2>2, <1>3
<1>5. ASSUME NEW j \in 1..Len(others)
      PROVE  \E i \in 1..Len(s) : s[i] = others[j]
    <2>1. j \in 1..Len(s)
        BY <1>1, <1>3
    <2> QED
        BY <2>1, <1>1
<1>6. ASSUME NEW j \in 1..Len(calls), j # 1
      PROVE  \E i \in 1..Len(s) : s[i] = calls[j]
    <2> DEFINE i == j + Len(others) - 1
    <2>1. i \in 1..Len(s) /\ i > Len(others) /\ i - Len(others) + 1 = j
        BY <1>1, <1>3, <1>6
    <2> HIDE DEF i
    <2> QED
        BY <2>1, <1>1
<1> QED
    BY <1>2, <1>4, <1>5, <1>6

\* The head of a clause and the name that is defined, form by form.
LEMMA HeadsEquation ==
    ASSUME file \in Files, NEW c, Term(c) \in Nodes
    PROVE  /\ Reads(Term(c), {":-"}, 2) =>
                  DefinedHeads(c) = {<<Unqualified[Sub(Term(c), 1)], Text(Unqualified[Sub(Term(c), 1)])>>}
           /\ Reads(Term(c), {"-->"}, 2) =>
                  DefinedHeads(c) = {<<DCGHeadOf[Sub(Term(c), 1)], Called(DCGHeadOf[Sub(Term(c), 1)])>>}
           /\ Reads(Term(c), {":-"}, 1) \/ Reads(Term(c), {":"}, 2) => DefinedHeads(c) = {}
           /\ ~ (\/ Reads(Term(c), {":-"}, 2) \/ Reads(Term(c), {"-->"}, 2)
                 \/ Reads(Term(c), {":-"}, 1) \/ Reads(Term(c), {":"}, 2)) =>
                  DefinedHeads(c) = {<<Term(c), Text(Term(c))>>}
<1> DEFINE t == Term(c)
<1>1. Reads(t, {":-"}, 2) => Text(t)[1] = ":-" /\ Text(t)[2] = 2
    BY Functor
<1>2. Reads(t, {"-->"}, 2) => Text(t)[1] = "-->" /\ Text(t)[2] = 2
    BY Functor
<1>3. Reads(t, {":-"}, 1) => Text(t)[1] = ":-" /\ Text(t)[2] = 1
    BY Functor
<1>4. Reads(t, {":"}, 2) => Text(t)[1] = ":" /\ Text(t)[2] = 2
    BY Functor
<1>5. /\ ~ (Reads(t, {":-"}, 2) /\ (Reads(t, {"-->"}, 2) \/ Reads(t, {":-"}, 1) \/ Reads(t, {":"}, 2)))
      /\ ~ (Reads(t, {"-->"}, 2) /\ (Reads(t, {":-"}, 1) \/ Reads(t, {":"}, 2)))
    BY <1>1, <1>2, <1>3, <1>4
<1>6. ~ Reads(t, {":"}, 2) => Unqualified[t] = t
    BY UnqualifiedEquation
<1> HIDE DEF t
<1>7. ~ Reads(t, {":"}, 2) =>
          DefinedHeads(c) = CASE Reads(t, {":-"}, 1) -> {}
                              [] Reads(t, {":-"}, 2) -> {<<Unqualified[Sub(t, 1)], Text(Unqualified[Sub(t, 1)])>>}
                              [] Reads(t, {"-->"}, 2) -> {<<DCGHeadOf[Sub(t, 1)], Called(DCGHeadOf[Sub(t, 1)])>>}
                              [] OTHER -> {<<t, Text(t)>>}
    BY <1>6 DEF DefinedHeads, InModule, HeadsOf, t
<1>8. Reads(t, {":"}, 2) => DefinedHeads(c) = {}
    BY DEF DefinedHeads, InModule, t
<1>9. Reads(t, {":-"}, 2) =>
          DefinedHeads(c) = {<<Unqualified[Sub(t, 1)], Text(Unqualified[Sub(t, 1)])>>}
    BY <1>5, <1>7
<1>10. Reads(t, {"-->"}, 2) =>
          DefinedHeads(c) = {<<DCGHeadOf[Sub(t, 1)], Called(DCGHeadOf[Sub(t, 1)])>>}
    BY <1>5, <1>7
<1>11. Reads(t, {":-"}, 1) => DefinedHeads(c) = {}
    BY <1>5, <1>7, <1>8
<1>12. ~ (Reads(t, {":-"}, 2) \/ Reads(t, {"-->"}, 2) \/ Reads(t, {":-"}, 1) \/ Reads(t, {":"}, 2)) =>
          DefinedHeads(c) = {<<t, Text(t)>>}
    BY <1>7
<1> QED
    BY <1>8, <1>9, <1>10, <1>11, <1>12 DEF t

\* A call that asks for names finds the text.
LEMMA FreshTop ==
    ASSUME IInv, calls # <<>>, Top.fn # "addRefAndIndexArg"
    PROVE  /\ Node \in Nodes
           /\ \A m \in U(Node) : name[m] = Text(m)
           /\ name[Node] = Text(Node)
           /\ \A vs, k : IsNamed(Node, vs, k) <=> Reads(Node, vs, k)
<1>1. Node \in Nodes /\ Top = calls[1] /\ 1 \in 1..Len(calls) /\ Node = calls[1].node
    BY TopIsCall DEF IInv, TypeOK, Calls
<1>2. Node \in U(Node)
    BY <1>1, Subtrees DEF IInv
<1>3. \A m \in U(Node) : name[m] = Text(m)
    BY <1>1 DEF IInv, FreshNames, Text
<1>4. name[Node] = Text(Node)
    BY <1>2, <1>3
<1> QED
    BY <1>1, <1>3, <1>4 DEF IsNamed, Reads

--------------------------------------------------------------------------------
(***************************************************************************)
(* The clauses that are walked are defined by their heads: the call that   *)
(* looks for the head of a clause is on the way to the one the text gives, *)
(* and when there is none any more the clause is settled.                  *)
(***************************************************************************)
Settled(c) ==
    /\ {callerNode[c]} \ {None} = {d[1] : d \in DefinedHeads(c)}
    /\ {k \in Names(file) : c \in definitionsMap[k]} = {d[2] : d \in DefinedHeads(c)}

Undefined(c) == callerNode[c] = None /\ \A k \in Names(file) : c \notin definitionsMap[k]

\* a call leads to the head of the clause
Leading(call) ==
    \/ call.fn = "index" /\ call.node = Term(next)
    \/ /\ call.fn = "ruleHead"
       /\ DefinedHeads(next) = {<<Unqualified[call.node], Text(Unqualified[call.node])>>}
    \/ /\ call.fn = "DCGHead"
       /\ DefinedHeads(next) = {<<DCGHeadOf[call.node], Called(DCGHeadOf[call.node])>>}

HeadsInv ==
    /\ \A c \in Clauses : c < next => Settled(c)
    /\ \A c \in Clauses : c > next => Undefined(c)
    /\ next \in Clauses /\ (\A i \in 1..Len(calls) : calls[i].fn \notin Leads) => Settled(next)
    /\ \A i \in 1..Len(calls) : calls[i].fn \in Leads => Undefined(next) /\ Leading(calls[i])

\* how the search for the head goes on
HeadGoesOn(others) ==
    \/ /\ callerNode' = callerNode /\ definitionsMap' = definitionsMap
       /\ \/ Top.fn \notin Leads /\ \A j \in 1..Len(others) : others[j].fn \notin Leads
          \/ /\ Top.fn \in Leads
             /\ \E j \in 1..Len(others) : others[j].fn \in Leads
             /\ \A j \in 1..Len(others) : others[j].fn \in Leads => Leading(others[j])
          \/ /\ Top.fn \in Leads
             /\ \A j \in 1..Len(others) : others[j].fn \notin Leads
             /\ DefinedHeads(next) = {}
    \/ /\ Top.fn \in Leads
       /\ \A j \in 1..Len(others) : others[j].fn \notin Leads
       /\ \E k \in Names(file) :
             /\ DefinedHeads(next) = {<<Node, k>>}
             /\ callerNode' = [callerNode EXCEPT ![next] = Node]
             /\ definitionsMap' = [definitionsMap EXCEPT ![k] = @ \cup {next}]

LEMMA HeadStep ==
    ASSUME IInv, HeadsInv, calls # <<>>, NEW others \in Seq(Calls), GoOnWith(others),
           UNCHANGED <<file, next>>, HeadGoesOn(others)
    PROVE  HeadsInv'
<1>1. /\ calls \in Seq(Calls) /\ next \in Clauses
      /\ callerNode \in [Clauses -> Nodes \cup {None}]
      /\ definitionsMap \in [Names(file) -> SUBSET Clauses]
      /\ None \notin Nodes
    BY FilesAssumption DEF IInv, TypeOK, Calls, IsFile, Nodes
<1>2. Top = calls[1] /\ 1 \in 1..Len(calls) /\ Node \in Nodes
    BY <1>1, TopIsCall
<1>3. /\ file' = file /\ next' = next /\ Clauses' = Clauses /\ Names(file)' = Names(file)
      /\ Unqualified' = Unqualified /\ DCGHeadOf' = DCGHeadOf
      /\ \A n : Text(n)' = Text(n) /\ Called(n)' = Called(n)
      /\ \A c : DefinedHeads(c)' = DefinedHeads(c)
    BY SameText DEF Clauses
<1>4. /\ \A i \in 1..Len(calls') :
            \/ \E j \in 1..Len(others) : calls'[i] = others[j]
            \/ \E j \in 1..Len(calls) : j # 1 /\ calls'[i] = calls[j]
      /\ \A j \in 1..Len(others) : \E i \in 1..Len(calls') : calls'[i] = others[j]
      /\ \A j \in 1..Len(calls) : j # 1 => \E i \in 1..Len(calls') : calls'[i] = calls[j]
    BY <1>1, NewStack
<1>5. \A call : Leading(call)' = Leading(call)
    BY <1>3 DEF Leading, Term
\* the other clauses stay as they are
<1>6. ASSUME NEW c \in Clauses, c # next
      PROVE  /\ Settled(c) => Settled(c)'
             /\ Undefined(c) => Undefined(c)'
    <2>1. callerNode'[c] = callerNode[c]
        BY <1>1, <1>6 DEF HeadGoesOn
    <2>2. \A k \in Names(file) : c \in definitionsMap'[k] <=> c \in definitionsMap[k]
        BY <1>1, <1>6 DEF HeadGoesOn
    <2> QED
        BY <1>3, <2>1, <2>2 DEF Settled, Undefined
<1>7. \A c \in Clauses : c < next => Settled(c)'
    BY <1>1, <1>6 DEF HeadsInv, Clauses
<1>8. \A c \in Clauses : c > next => Undefined(c)'
    BY <1>1, <1>6 DEF HeadsInv, Clauses
\* a call below a leading top does not lead
<1>9. Top.fn \in Leads => \A j \in 1..Len(calls) : j # 1 => calls[j].fn \notin Leads
    BY <1>2 DEF IInv, OneLead
<1>10. Top.fn \in Leads => Undefined(next)
    BY <1>2 DEF HeadsInv
<1>11. /\ (\A i \in 1..Len(calls') : calls'[i].fn \notin Leads) => Settled(next)'
       /\ \A i \in 1..Len(calls') : calls'[i].fn \in Leads => Undefined(next)' /\ Leading(calls'[i])
    <2>1. CASE /\ callerNode' = callerNode /\ definitionsMap' = definitionsMap
               /\ Top.fn \notin Leads /\ \A j \in 1..Len(others) : others[j].fn \notin Leads
        <3>1. Settled(next)' = Settled(next) /\ Undefined(next)' = Undefined(next)
            BY <2>1, <1>3 DEF Settled, Undefined
        <3>2. (\A i \in 1..Len(calls') : calls'[i].fn \notin Leads)
                 => \A j \in 1..Len(calls) : calls[j].fn \notin Leads
            BY <2>1, <1>2, <1>4
        <3>3. ASSUME NEW i \in 1..Len(calls'), calls'[i].fn \in Leads
              PROVE  Undefined(next) /\ Leading(calls'[i])
            <4>1. PICK j \in 1..Len(calls) : calls'[i] = calls[j]
                BY <2>1, <3>3, <1>4
            <4> QED
                BY <4>1, <3>3 DEF HeadsInv
        <3> QED
            BY <3>1, <3>2, <3>3, <1>1 DEF HeadsInv
    <2>2. CASE /\ callerNode' = callerNode /\ definitionsMap' = definitionsMap
               /\ Top.fn \in Leads
               /\ \E j \in 1..Len(others) : others[j].fn \in Leads
               /\ \A j \in 1..Len(others) : others[j].fn \in Leads => Leading(others[j])
        <3>1. Undefined(next)'
            BY <2>2, <1>3, <1>10 DEF Undefined
        <3>2. \E i \in 1..Len(calls') : calls'[i].fn \in Leads
            BY <2>2, <1>4
        <3>3. ASSUME NEW i \in 1..Len(calls'), calls'[i].fn \in Leads
              PROVE  Leading(calls'[i])
            BY <2>2, <3>3, <1>4, <1>9
        <3> QED
            BY <3>1, <3>2, <3>3
    <2>3. ASSUME Top.fn \in Leads, \A j \in 1..Len(others) : others[j].fn \notin Leads
          PROVE  \A i \in 1..Len(calls') : calls'[i].fn \notin Leads
        BY <2>3, <1>4, <1>9
    <2>4. CASE /\ callerNode' = callerNode /\ definitionsMap' = definitionsMap
               /\ Top.fn \in Leads
               /\ \A j \in 1..Len(others) : others[j].fn \notin Leads
               /\ DefinedHeads(next) = {}
        <3>1. /\ callerNode'[next] = None
              /\ \A k \in Names(file) : next \notin definitionsMap'[k]
            BY <2>4, <1>10 DEF Undefined
        <3>2. Settled(next)'
            BY <3>1, <2>4, <1>3 DEF Settled
        <3> QED
            BY <2>3, <2>4, <3>2
    <2>5. ASSUME Top.fn \in Leads, \A j \in 1..Len(others) : others[j].fn \notin Leads,
                 NEW k \in Names(file), DefinedHeads(next) = {<<Node, k>>},
                 callerNode' = [callerNode EXCEPT ![next] = Node],
                 definitionsMap' = [definitionsMap EXCEPT ![k] = @ \cup {next}]
          PROVE  Settled(next)'
        <3>1. callerNode'[next] = Node /\ Node # None
            BY <2>5, <1>1, <1>2
        <3>2. \A l \in Names(file) : next \in definitionsMap'[l] <=> l = k
            BY <2>5, <1>1, <1>10 DEF Undefined
        <3>3. /\ {d[1] : d \in DefinedHeads(next)} = {Node}
              /\ {d[2] : d \in DefinedHeads(next)} = {k}
            BY <2>5
        <3> QED
            BY <3>1, <3>2, <3>3, <1>3 DEF Settled
    <2> QED
        BY <2>1, <2>2, <2>3, <2>4, <2>5 DEF HeadGoesOn
<1> QED
    BY <1>3, <1>5, <1>7, <1>8, <1>11 DEF HeadsInv

LEMMA HeadsInit == ASSUME Init PROVE HeadsInv
<1>1. next = 0 /\ Len(calls) = 0 /\ 1..Len(calls) = {}
    BY DEF Init, Start
<1>2. \A c \in Clauses : Undefined(c)
    BY DEF Init, Start, Clauses, Undefined
<1>3. ~ (next \in Clauses)
    BY <1>1 DEF Clauses
<1>4. \A c \in Clauses : ~ (c < next)
    BY <1>1 DEF Clauses
<1> QED
    BY <1>1, <1>2, <1>3, <1>4 DEF HeadsInv

LEMMA NextClauseHeads == ASSUME IInv, HeadsInv, NextClause PROVE HeadsInv'
<1>1. /\ calls = <<>> /\ Len(calls) = 0 /\ 1..Len(calls) = {}
      /\ next' = next + 1 /\ next \in 0..Len(file.terms) /\ next < Len(file.terms)
      /\ Len(file.terms) \in Nat /\ Clauses = 1..Len(file.terms)
    BY FilesAssumption DEF NextClause, IInv, TypeOK, Clauses, IsFile
<1>2. /\ file' = file /\ Clauses' = Clauses /\ Names(file)' = Names(file)
      /\ callerNode' = callerNode /\ definitionsMap' = definitionsMap
      /\ \A c : DefinedHeads(c)' = DefinedHeads(c)
    BY SameText DEF NextClause, Clauses, graph
<1>3. \A c \in Clauses : Settled(c)' = Settled(c) /\ Undefined(c)' = Undefined(c)
    BY <1>2 DEF Settled, Undefined
<1>4. /\ Len(calls') = 1
      /\ calls'[1].fn = "index" /\ calls'[1].node = file.terms[next']
    BY <1>1 DEF NextClause, Call
<1>5. \A i \in 1..Len(calls') : i = 1
    BY <1>4
<1>6. \A c \in Clauses : c < next' => Settled(c)'
    BY <1>1, <1>3 DEF HeadsInv
<1>7. \A c \in Clauses : c > next' => Undefined(c)'
    BY <1>1, <1>3 DEF HeadsInv
<1>8. next' \in Clauses /\ next' > next
    BY <1>1
<1>9. PICK c \in Clauses : c = next'
    BY <1>8
<1>10. Undefined(c)'
    BY <1>3, <1>8, <1>9 DEF HeadsInv
<1>11. Undefined(next)'
    BY <1>9, <1>10
<1>12. Leading(calls[1])'
    BY <1>2, <1>4 DEF Leading, Term
<1>13. \A i \in 1..Len(calls') : Undefined(next)' /\ Leading(calls[i])'
    BY <1>5, <1>11, <1>12
<1>14. ~ (\A i \in 1..Len(calls') : calls'[i].fn \notin Leads)
    BY <1>4 DEF Leads
<1> QED
    BY <1>2, <1>6, <1>7, <1>13, <1>14 DEF HeadsInv

\* A call that is not a lead and goes on with none leaves the heads alone.
LEMMA NoLead ==
    ASSUME IInv, HeadsInv, calls # <<>>, Top.fn \notin Leads,
           NEW others, others \in Seq(Calls), GoOnWith(others), UNCHANGED <<file, next>>,
           callerNode' = callerNode, definitionsMap' = definitionsMap,
           \A j \in 1..Len(others) : others[j].fn \notin Leads
    PROVE  HeadsInv'
<1>1. HeadGoesOn(others)
    BY DEF HeadGoesOn
<1> QED
    BY <1>1, HeadStep

LEMMA OneOther ==
    ASSUME NEW f \in Functions, NEW n \in Nodes
    PROVE  /\ <<Call(f, n)>> \in Seq(Calls)
           /\ \A j \in 1..Len(<<Call(f, n)>>) : <<Call(f, n)>>[j] = Call(f, n)
           /\ 1 \in 1..Len(<<Call(f, n)>>) /\ <<Call(f, n)>>[1] = Call(f, n)
           /\ Call(f, n).fn = f /\ Call(f, n).node = n
<1>1. Call(f, n) \in Calls /\ Call(f, n).fn = f /\ Call(f, n).node = n
    BY DEF Call, Calls
<1> DEFINE c == Call(f, n)
<1> HIDE DEF c
<1>2. c \in Calls
    BY <1>1 DEF c
<1>3. <<c>> \in Seq(Calls) /\ (\A j \in 1..Len(<<c>>) : <<c>>[j] = c) /\ 1 \in 1..Len(<<c>>) /\ <<c>>[1] = c
    BY <1>2
<1> QED
    BY <1>1, <1>3 DEF c

LEMMA TwoOthers ==
    ASSUME NEW f \in Functions, NEW m \in Nodes, NEW g \in Functions, NEW n \in Nodes
    PROVE  LET others == <<Call(f, m), Call(g, n)>> IN
           /\ others \in Seq(Calls)
           /\ \A j \in 1..Len(others) : others[j] = Call(f, m) \/ others[j] = Call(g, n)
           /\ 1 \in 1..Len(others) /\ others[1] = Call(f, m)
           /\ 2 \in 1..Len(others) /\ others[2] = Call(g, n)
           /\ Call(f, m).fn = f /\ Call(f, m).node = m
           /\ Call(g, n).fn = g /\ Call(g, n).node = n
<1>1. /\ Call(f, m) \in Calls /\ Call(f, m).fn = f /\ Call(f, m).node = m
      /\ Call(g, n) \in Calls /\ Call(g, n).fn = g /\ Call(g, n).node = n
    BY DEF Call, Calls
<1> DEFINE c == Call(f, m)
           d == Call(g, n)
<1> HIDE DEF c, d
<1>2. c \in Calls /\ d \in Calls
    BY <1>1 DEF c, d
<1>3. /\ <<c, d>> \in Seq(Calls)
      /\ \A j \in 1..Len(<<c, d>>) : <<c, d>>[j] = c \/ <<c, d>>[j] = d
      /\ 1 \in 1..Len(<<c, d>>) /\ <<c, d>>[1] = c
      /\ 2 \in 1..Len(<<c, d>>) /\ <<c, d>>[2] = d
    BY <1>2
<1> QED
    BY <1>1, <1>3 DEF c, d

LEMMA NoLeadWalks ==
    ASSUME IInv, HeadsInv, calls # <<>>, Top.fn \notin Leads, UNCHANGED <<file, next>>,
           callerNode' = callerNode, definitionsMap' = definitionsMap
    PROVE  /\ GoOnWith(<<>>) => HeadsInv'
           /\ \A f \in Functions \ Leads : \A n \in Nodes : GoOnWith(<<Call(f, n)>>) => HeadsInv'
           /\ \A f, g \in Functions \ Leads : \A m, n \in Nodes :
                 GoOnWith(<<Call(f, m), Call(g, n)>>) => HeadsInv'
<1>1. ASSUME GoOnWith(<<>>) PROVE HeadsInv'
    <2>1. <<>> \in Seq(Calls) /\ \A j \in 1..Len(<<>>) : <<>>[j].fn \notin Leads
        OBVIOUS
    <2> QED
        BY <1>1, <2>1, NoLead
<1>2. ASSUME NEW f \in Functions \ Leads, NEW n \in Nodes, GoOnWith(<<Call(f, n)>>)
      PROVE  HeadsInv'
    <2> DEFINE others == <<Call(f, n)>>
    <2>1. others \in Seq(Calls) /\ \A j \in 1..Len(others) : others[j].fn \notin Leads
        BY OneOther
    <2> QED
        BY <1>2, <2>1, NoLead
<1>3. ASSUME NEW f \in Functions \ Leads, NEW g \in Functions \ Leads, NEW m \in Nodes, NEW n \in Nodes,
             GoOnWith(<<Call(f, m), Call(g, n)>>)
      PROVE  HeadsInv'
    <2> DEFINE others == <<Call(f, m), Call(g, n)>>
    <2>1. others \in Seq(Calls) /\ \A j \in 1..Len(others) : others[j].fn \notin Leads
        BY TwoOthers
    <2> QED
        BY <1>3, <2>1, NoLead
<1> QED
    BY <1>1, <1>2, <1>3

\* The functions that look for no head.
LEMMA addRefHeads ==
    ASSUME IInv, HeadsInv, addRefAndIndexArg, UNCHANGED <<file, next>>
    PROVE  HeadsInv'
<1> DEFINE others == RefArgs(Node)
<1>1. /\ calls # <<>> /\ Top.fn \notin Leads
      /\ GoOnWith(others) /\ callerNode' = callerNode /\ definitionsMap' = definitionsMap
    BY DEF addRefAndIndexArg, Runs, Leads
<1>2. file.args[Node] \in Seq(Nodes)
    BY <1>1, TopNode, Subtrees DEF IInv
<1>3. others \in Seq(Calls) /\ \A j \in 1..Len(others) : others[j].fn \notin Leads
    BY <1>2 DEF RefArgs, Call, Calls, Functions, Leads
<1> HIDE DEF others
<1> QED
    BY <1>1, <1>3, NoLead

\* The arguments that a call may go on with.
LEMMA Args ==
    ASSUME IInv, calls # <<>>, Top.fn # "addRefAndIndexArg", NEW vs
    PROVE  /\ IsNamed(Node, vs, 1) => Arg(1) \in Nodes
           /\ IsNamed(Node, vs, 2) => Arg(1) \in Nodes /\ Arg(2) \in Nodes
<1>1. ASSUME NEW v, name[Node] = <<v, 1>> PROVE Arg(1) \in Nodes
    BY <1>1, Arguments
<1>2. ASSUME NEW v, name[Node] = <<v, 2>> PROVE Arg(1) \in Nodes /\ Arg(2) \in Nodes
    BY <1>2, Arguments
<1> QED
    BY <1>1, <1>2 DEF IsNamed

LEMMA ruleBodyHeads ==
    ASSUME IInv, HeadsInv, ruleBody, UNCHANGED <<file, next>>
    PROVE  HeadsInv'
<1>1. /\ calls # <<>> /\ Top.fn \notin Leads /\ Top.fn # "addRefAndIndexArg"
      /\ callerNode' = callerNode /\ definitionsMap' = definitionsMap
      /\ {"addRefAndIndexArg", "ruleBody"} \subseteq Functions \ Leads
    BY DEF ruleBody, Runs, Walks, graph, Functions, Leads
<1>2. Node \in Nodes
    BY <1>1, TopNode
<1>3. CASE Control(Node) /\ GoOnWith(<<Call("ruleBody", Arg(1)), Call("ruleBody", Arg(2))>>)
    BY <1>1, <1>3, Args, NoLeadWalks DEF Control
<1>4. CASE Negated(Node) /\ GoOnWith(<<Call("ruleBody", Arg(1))>>)
    BY <1>1, <1>4, Args, NoLeadWalks DEF Negated
<1>5. CASE Qualified(Node) /\ GoOnWith(<<Call("addRefAndIndexArg", Arg(1)), Call("ruleBody", Arg(1))>>)
    BY <1>1, <1>5, Args, NoLeadWalks DEF Qualified
<1>6. CASE GoOnWith(<<Call("addRefAndIndexArg", Node)>>)
    BY <1>1, <1>2, <1>6, NoLeadWalks
<1> QED
    BY <1>3, <1>4, <1>5, <1>6 DEF ruleBody, Walks

LEMMA DCGBodyHeads ==
    ASSUME IInv, HeadsInv, DCGBody, UNCHANGED <<file, next>>
    PROVE  HeadsInv'
<1>1. /\ calls # <<>> /\ Top.fn \notin Leads /\ Top.fn # "addRefAndIndexArg"
      /\ callerNode' = callerNode /\ definitionsMap' = definitionsMap
      /\ {"addRefAndIndexArg", "DCGBody"} \subseteq Functions \ Leads
    BY DEF DCGBody, Runs, Walks, graph, Functions, Leads
<1>2. CASE DCGControl(Node) /\ GoOnWith(<<Call("DCGBody", Arg(1)), Call("DCGBody", Arg(2))>>)
    BY <1>1, <1>2, Args, NoLeadWalks DEF DCGControl, Control, Grammar
<1>3. CASE Qualified(Node) /\ GoOnWith(<<Call("addRefAndIndexArg", Arg(1)), Call("DCGBody", Arg(2))>>)
    BY <1>1, <1>3, Args, NoLeadWalks DEF Qualified
<1>4. CASE Terminals(Node)
           /\ GoOnWith(<<Call("addRefAndIndexArg", Arg(1)), Call("addRefAndIndexArg", Arg(2))>>)
    BY <1>1, <1>4, Arguments, NoLeadWalks DEF Terminals
<1>5. CASE (Braces(Node) \/ Negated(Node)) /\ GoOnWith(<<Call("addRefAndIndexArg", Arg(1))>>)
    BY <1>1, <1>5, Args, NoLeadWalks DEF Braces, Negated
<1>6. CASE GoOnWith(<<>>)
    BY <1>1, <1>6, NoLeadWalks
<1> QED
    BY <1>2, <1>3, <1>4, <1>5, <1>6 DEF DCGBody, Walks

LEMMA ruleEvalHeads ==
    ASSUME IInv, HeadsInv, ruleEval, UNCHANGED <<file, next>>
    PROVE  HeadsInv'
<1>1. /\ calls # <<>> /\ Top.fn \notin Leads /\ Top.fn # "addRefAndIndexArg"
      /\ callerNode' = callerNode /\ definitionsMap' = definitionsMap
      /\ {"addRefAndIndexArg", "ruleEval", "publicList"} \subseteq Functions \ Leads
    BY DEF ruleEval, Runs, Walks, UseModule, graph, Functions, Leads
<1>2. Node \in Nodes
    BY <1>1, TopNode
<1>3. CASE IsNamed(Node, {","}, 2) /\ GoOnWith(<<Call("ruleEval", Arg(1)), Call("ruleEval", Arg(2))>>)
    BY <1>1, <1>3, Args, NoLeadWalks
<1>4. CASE GoOnWith(<<Call("addRefAndIndexArg", Node)>>)
    BY <1>1, <1>2, <1>4, NoLeadWalks
<1>5. CASE IsNamed(Node, {"module"}, 2) /\ GoOnWith(ModuleCalls)
    <2>1. GoOnWith(<<Call("publicList", Arg(2)), Call("addRefAndIndexArg", Node)>>) => HeadsInv'
        BY <1>1, <1>2, <1>5, Args, NoLeadWalks
    <2> QED
        BY <1>4, <1>5, <2>1 DEF ModuleCalls
<1>6. CASE GoOnWith(<<>>)
    BY <1>1, <1>6, NoLeadWalks
<1> QED
    BY <1>3, <1>4, <1>5, <1>6 DEF ruleEval, Walks, UseModule

LEMMA publicListHeads ==
    ASSUME IInv, HeadsInv, publicList, UNCHANGED <<file, next>>
    PROVE  HeadsInv'
<1>1. /\ calls # <<>> /\ Top.fn \notin Leads /\ Top.fn # "addRefAndIndexArg"
      /\ callerNode' = callerNode /\ definitionsMap' = definitionsMap
      /\ {"addRefAndIndexArg", "publicList"} \subseteq Functions \ Leads
    BY DEF publicList, Runs, Walks, graph, Functions, Leads
<1>2. Node \in Nodes
    BY <1>1, TopNode
<1>3. CASE Terminals(Node)
           /\ GoOnWith(<<Call("addRefAndIndexArg", Arg(1)), Call("publicList", RestOfList(Node))>>)
    <2>1. Arg(1) \in Nodes /\ Arg(2) \in Nodes /\ Arg(2) = RestOfList(Node)
        BY <1>1, <1>3, Arguments DEF Terminals
    <2> QED
        BY <1>1, <1>3, <2>1, NoLeadWalks
<1>4. CASE GoOnWith(<<Call("addRefAndIndexArg", Node)>>)
    BY <1>1, <1>2, <1>4, NoLeadWalks
<1>5. CASE GoOnWith(<<>>)
    BY <1>1, <1>5, NoLeadWalks
<1> QED
    BY <1>3, <1>4, <1>5 DEF publicList, Walks

\* dcg_extend gives a node the name that the text says it calls.
LEMMA ExtendedIsCalled ==
    ASSUME file \in Files, NEW n \in Nodes, name[n] = Text(n)
    PROVE  Extended(n) = Called(n)
<1>1. /\ file.class[n] \in {"atom", "atomic", "list", "compound"}
      /\ file.class[n] = "atom" => file.args[n] = <<>>
    BY FilesAssumption DEF IsFile, Nodes
<1>2. CASE file.class[n] = "atom"
    <2>1. Len(file.args[n]) + 2 = 2
        BY <1>1, <1>2
    <2> QED
        BY <1>2, <2>1 DEF Extended, Called
<1>3. CASE file.class[n] = "atomic"
    BY <1>3 DEF Extended, Called
<1>4. CASE file.class[n] \in {"list", "compound"}
    BY <1>4 DEF Extended, Called
<1> QED
    BY <1>1, <1>2, <1>3, <1>4

\* The functions that look for the head.
LEMMA LeadingTop ==
    ASSUME IInv, HeadsInv, calls # <<>>, Top.fn \in Leads
    PROVE  Undefined(next) /\ Leading(Top)
<1>1. Top = calls[1] /\ 1 \in 1..Len(calls)
    BY TopIsCall DEF IInv, TypeOK, Calls
<1> QED
    BY <1>1 DEF HeadsInv

LEMMA indexHeads ==
    ASSUME IInv, HeadsInv, index, UNCHANGED <<file, next>>
    PROVE  HeadsInv'
<1>1. calls # <<>> /\ Top.fn = "index" /\ Top.fn \in Leads /\ Top.fn # "addRefAndIndexArg"
    BY DEF index, Runs, Leads
<1>2. Node = Term(next)
    BY <1>1, LeadingTop DEF Leading, Node
<1>3. /\ Node \in Nodes /\ name[Node] = Text(Node) /\ name[Node] \in Names(file)
      /\ \A vs, k : IsNamed(Node, vs, k) <=> Reads(Term(next), vs, k)
    BY <1>1, <1>2, FreshTop, TopNode
<1>4. Arg(1) = Sub(Term(next), 1) /\ file \in Files /\ Term(next) \in Nodes
    BY <1>2, <1>3 DEF Arg, Sub, IInv
\* the clause has no head: a call that looks for none, or two, follow
<1>5. ASSUME DefinedHeads(next) = {}, NEW others \in Seq(Calls), Walks(others),
             \A j \in 1..Len(others) : others[j].fn \notin Leads
      PROVE  HeadsInv'
    <2>1. HeadGoesOn(others)
        BY <1>1, <1>5 DEF HeadGoesOn, Walks, graph
    <2> QED
        BY <1>1, <1>5, <2>1, HeadStep DEF Walks
<1>6. CASE Directive(Node) /\ Walks(<<Call("ruleEval", Arg(1))>>)
    <2>1. DefinedHeads(next) = {} /\ Arg(1) \in Nodes
        BY <1>1, <1>3, <1>4, <1>6, HeadsEquation, Args DEF Directive
    <2>2. /\ <<Call("ruleEval", Arg(1))>> \in Seq(Calls)
          /\ \A j \in 1..Len(<<Call("ruleEval", Arg(1))>>) : <<Call("ruleEval", Arg(1))>>[j].fn \notin Leads
        BY <2>1, OneOther DEF Functions, Leads
    <2> QED
        BY <1>5, <1>6, <2>1, <2>2
<1>7. CASE Qualified(Node) /\ Walks(<<Call("addRefAndIndexArg", Arg(1)), Call("DCGBody", Arg(2))>>)
    <2> DEFINE others == <<Call("addRefAndIndexArg", Arg(1)), Call("DCGBody", Arg(2))>>
    <2>1. DefinedHeads(next) = {} /\ Arg(1) \in Nodes /\ Arg(2) \in Nodes
        BY <1>1, <1>3, <1>4, <1>7, HeadsEquation, Args DEF Qualified
    <2>2. others \in Seq(Calls) /\ \A j \in 1..Len(others) : others[j].fn \notin Leads
        BY <2>1, TwoOthers DEF Functions, Leads
    <2> QED
        BY <1>5, <1>7, <2>1, <2>2
\* the clause has one: the call that looks for it is the first of two
<1>8. ASSUME NEW f \in Leads, NEW g \in Functions \ Leads, IsNamed(Node, {":-", "-->"}, 2),
             Leading(Call(f, Arg(1))), Walks(<<Call(f, Arg(1)), Call(g, Arg(2))>>)
      PROVE  HeadsInv'
    <2> DEFINE others == <<Call(f, Arg(1)), Call(g, Arg(2))>>
    <2>1. f \in Functions /\ g \in Functions /\ Arg(1) \in Nodes /\ Arg(2) \in Nodes
        BY <1>1, <1>8, Args DEF Functions, Leads
    <2>2. /\ others \in Seq(Calls)
          /\ \E j \in 1..Len(others) : others[j].fn \in Leads
          /\ \A j \in 1..Len(others) : others[j].fn \in Leads => Leading(others[j])
        BY <1>8, <2>1, TwoOthers
    <2> HIDE DEF others
    <2>3. HeadGoesOn(others)
        BY <1>1, <1>8, <2>2 DEF HeadGoesOn, Walks, graph, others
    <2>4. GoOnWith(others)
        BY <1>8 DEF Walks, others
    <2> QED
        BY <1>1, <2>2, <2>3, <2>4, HeadStep
<1>9. CASE Rule(Node) /\ Walks(<<Call("ruleHead", Arg(1)), Call("ruleBody", Arg(2))>>)
    <2>1. Leading(Call("ruleHead", Arg(1)))
        BY <1>3, <1>4, <1>9, HeadsEquation DEF Rule, Leading, Call
    <2>2. IsNamed(Node, {":-", "-->"}, 2)
        BY <1>9 DEF Rule, IsNamed
    <2>3. "ruleHead" \in Leads /\ "ruleBody" \in Functions \ Leads
        BY DEF Functions, Leads
    <2> QED
        BY <1>8, <1>9, <2>1, <2>2, <2>3
<1>10. CASE Grammar(Node) /\ Walks(<<Call("DCGHead", Arg(1)), Call("DCGBody", Arg(2))>>)
    <2>1. Leading(Call("DCGHead", Arg(1)))
        BY <1>3, <1>4, <1>10, HeadsEquation DEF Grammar, Leading, Call
    <2>2. IsNamed(Node, {":-", "-->"}, 2)
        BY <1>10 DEF Grammar, IsNamed
    <2>3. "DCGHead" \in Leads /\ "DCGBody" \in Functions \ Leads
        BY DEF Functions, Leads
    <2> QED
        BY <1>8, <1>10, <2>1, <2>2, <2>3
\* the clause is its head
<1>11. CASE Fact(Node) /\ addDefinition(name[Node]) /\ SetCaller /\ GoOnWith(<<>>)
    <2>1. DefinedHeads(next) = {<<Node, name[Node]>>}
        BY <1>2, <1>3, <1>4, <1>11, HeadsEquation DEF Fact, Rule, Grammar, Directive, Qualified
    <2>2. <<>> \in Seq(Calls) /\ \A j \in 1..Len(<<>>) : <<>>[j].fn \notin Leads
        OBVIOUS
    <2>3. HeadGoesOn(<<>>)
        BY <1>1, <1>3, <1>11, <2>1, <2>2 DEF HeadGoesOn, addDefinition, SetCaller
    <2> QED
        BY <1>1, <1>11, <2>2, <2>3, HeadStep
<1> QED
    BY <1>6, <1>7, <1>9, <1>10, <1>11 DEF index

LEMMA ruleHeadHeads ==
    ASSUME IInv, HeadsInv, ruleHead, UNCHANGED <<file, next>>
    PROVE  HeadsInv'
<1>1. calls # <<>> /\ Top.fn = "ruleHead" /\ Top.fn \in Leads /\ Top.fn # "addRefAndIndexArg"
    BY DEF ruleHead, Runs, Leads
<1>2. DefinedHeads(next) = {<<Unqualified[Node], Text(Unqualified[Node])>>}
    BY <1>1, LeadingTop DEF Leading, Node
<1>3. /\ Node \in Nodes /\ name[Node] = Text(Node) /\ name[Node] \in Names(file)
      /\ Qualified(Node) <=> Reads(Node, {":"}, 2)
    BY <1>1, FreshTop, TopNode DEF Qualified
<1>4. Unqualified[Node] = IF Reads(Node, {":"}, 2) THEN Unqualified[Sub(Node, 2)] ELSE Node
    BY <1>3, UnqualifiedEquation DEF IInv
<1>5. CASE Qualified(Node) /\ Walks(<<Call("addRefAndIndexArg", Arg(1)), Call("ruleHead", Arg(2))>>)
    <2> DEFINE others == <<Call("addRefAndIndexArg", Arg(1)), Call("ruleHead", Arg(2))>>
    <2>1. Arg(1) \in Nodes /\ Arg(2) \in Nodes
        BY <1>1, <1>5, Args DEF Qualified
    <2>2. Leading(Call("ruleHead", Arg(2)))
        BY <1>2, <1>3, <1>4, <1>5 DEF Leading, Call, Arg, Sub
    <2>3. /\ others \in Seq(Calls)
          /\ \E j \in 1..Len(others) : others[j].fn \in Leads
          /\ \A j \in 1..Len(others) : others[j].fn \in Leads => Leading(others[j])
        BY <2>1, <2>2, TwoOthers DEF Functions, Leads
    <2> HIDE DEF others
    <2>4. HeadGoesOn(others) /\ GoOnWith(others)
        BY <1>1, <1>5, <2>3 DEF HeadGoesOn, Walks, graph, others
    <2> QED
        BY <1>1, <2>3, <2>4, HeadStep
<1>6. CASE /\ ~ Qualified(Node)
           /\ addDefinition(name[Node]) /\ SetCaller
           /\ GoOnWith(<<Call("addRefAndIndexArg", Node)>>)
    <2> DEFINE others == <<Call("addRefAndIndexArg", Node)>>
    <2>1. DefinedHeads(next) = {<<Node, name[Node]>>}
        BY <1>2, <1>3, <1>4, <1>6
    <2>2. "addRefAndIndexArg" \in Functions /\ "addRefAndIndexArg" \notin Leads
        BY DEF Functions, Leads
    <2>3. others \in Seq(Calls) /\ \A j \in 1..Len(others) : others[j].fn \notin Leads
        <3>1. Node \in Nodes
            BY <1>3
        <3> QED
            BY <2>2, <3>1, OneOther
    <2> HIDE DEF others
    <2>4. HeadGoesOn(others)
        BY <1>1, <1>3, <1>6, <2>1, <2>3 DEF HeadGoesOn, addDefinition, SetCaller
    <2> QED
        BY <1>1, <1>6, <2>3, <2>4, HeadStep DEF others
<1> QED
    BY <1>5, <1>6 DEF ruleHead

LEMMA DCGHeadHeads ==
    ASSUME IInv, HeadsInv, DCGHead, UNCHANGED <<file, next>>
    PROVE  HeadsInv'
<1>1. calls # <<>> /\ Top.fn = "DCGHead" /\ Top.fn \in Leads /\ Top.fn # "addRefAndIndexArg"
    BY DEF DCGHead, Runs, Leads
<1>2. DefinedHeads(next) = {<<DCGHeadOf[Node], Called(DCGHeadOf[Node])>>}
    BY <1>1, LeadingTop DEF Leading, Node
<1>3. /\ Node \in Nodes /\ name[Node] = Text(Node) /\ Extended(Node) \in Names(file)
      /\ IsNamed(Node, {","}, 2) <=> Reads(Node, {","}, 2)
      /\ Qualified(Node) <=> Reads(Node, {":"}, 2)
    BY <1>1, FreshTop, TopNode DEF Qualified
<1>4. /\ Reads(Node, {","}, 2) => DCGHeadOf[Node] = DCGHeadOf[Sub(Node, 1)]
      /\ Reads(Node, {":"}, 2) => DCGHeadOf[Node] = DCGHeadOf[Sub(Node, 2)]
      /\ ~ Reads(Node, {","}, 2) /\ ~ Reads(Node, {":"}, 2) => DCGHeadOf[Node] = Node
    BY <1>3, DCGHeadEquation DEF IInv
\* one of two calls goes on
<1>5. ASSUME NEW others \in Seq(Calls), Walks(others),
             \E j \in 1..Len(others) : others[j].fn \in Leads,
             \A j \in 1..Len(others) : others[j].fn \in Leads => Leading(others[j])
      PROVE  HeadsInv'
    <2>1. HeadGoesOn(others) /\ GoOnWith(others)
        BY <1>1, <1>5 DEF HeadGoesOn, Walks, graph
    <2> QED
        BY <1>1, <1>5, <2>1, HeadStep
<1>6. CASE IsNamed(Node, {","}, 2) /\ Walks(<<Call("DCGHead", Arg(1)), Call("DCGBody", Arg(2))>>)
    <2> DEFINE others == <<Call("DCGHead", Arg(1)), Call("DCGBody", Arg(2))>>
    <2>1. Arg(1) \in Nodes /\ Arg(2) \in Nodes
        BY <1>1, <1>6, Args
    <2>2. Leading(Call("DCGHead", Arg(1)))
        BY <1>2, <1>3, <1>4, <1>6 DEF Leading, Call, Arg, Sub
    <2>3. /\ others \in Seq(Calls)
          /\ \E j \in 1..Len(others) : others[j].fn \in Leads
          /\ \A j \in 1..Len(others) : others[j].fn \in Leads => Leading(others[j])
        BY <2>1, <2>2, TwoOthers DEF Functions, Leads
    <2> QED
        BY <1>5, <1>6, <2>3
<1>7. CASE Qualified(Node) /\ Walks(<<Call("addRefAndIndexArg", Arg(1)), Call("DCGHead", Arg(2))>>)
    <2> DEFINE others == <<Call("addRefAndIndexArg", Arg(1)), Call("DCGHead", Arg(2))>>
    <2>1. Arg(1) \in Nodes /\ Arg(2) \in Nodes
        BY <1>1, <1>7, Args DEF Qualified
    <2>2. Leading(Call("DCGHead", Arg(2)))
        BY <1>2, <1>3, <1>4, <1>7 DEF Leading, Call, Arg, Sub
    <2>3. /\ others \in Seq(Calls)
          /\ \E j \in 1..Len(others) : others[j].fn \in Leads
          /\ \A j \in 1..Len(others) : others[j].fn \in Leads => Leading(others[j])
        BY <2>1, <2>2, TwoOthers DEF Functions, Leads
    <2> QED
        BY <1>5, <1>7, <2>3
<1>8. CASE /\ ~ (IsNamed(Node, {","}, 2) \/ Qualified(Node))
           /\ SetCaller /\ addDefinition(HeadName(Node))
           /\ GoOnWith(<<Call("addRefAndIndexArg", Node)>>)
    <2> DEFINE others == <<Call("addRefAndIndexArg", Node)>>
    <2>1. HeadName(Node) = Called(Node) /\ HeadName(Node) \in Names(file)
        BY <1>3, ExtendedIsCalled DEF HeadName, IInv
    <2>2. DefinedHeads(next) = {<<Node, HeadName(Node)>>}
        BY <1>2, <1>3, <1>4, <1>8, <2>1
    <2>3. "addRefAndIndexArg" \in Functions /\ "addRefAndIndexArg" \notin Leads
        BY DEF Functions, Leads
    <2>4. others \in Seq(Calls) /\ \A j \in 1..Len(others) : others[j].fn \notin Leads
        <3>1. Node \in Nodes
            BY <1>3
        <3> QED
            BY <2>3, <3>1, OneOther
    <2> HIDE DEF others
    <2>5. HeadGoesOn(others)
        BY <1>1, <1>8, <2>1, <2>2, <2>4 DEF HeadGoesOn, addDefinition, SetCaller
    <2> QED
        BY <1>1, <1>8, <2>4, <2>5, HeadStep DEF others
<1>9. PushbackWalk(Arg(2)) = "DCGBody"
    BY DEF PushbackWalk
<1> QED
    BY <1>6, <1>7, <1>8, <1>9 DEF DCGHead

LEMMA HeadsStep == ASSUME IInv, HeadsInv, [Next]_vars PROVE HeadsInv'
<1>1. CASE NextClause
    BY <1>1, NextClauseHeads
<1>2. CASE Step
    BY <1>2, addRefHeads, indexHeads, ruleHeadHeads, ruleBodyHeads, DCGHeadHeads, DCGBodyHeads,
       ruleEvalHeads, publicListHeads DEF Step
<1>3. CASE UNCHANGED vars
    <2>1. /\ file' = file /\ next' = next /\ calls' = calls /\ Clauses' = Clauses
          /\ callerNode' = callerNode /\ definitionsMap' = definitionsMap
          /\ \A c : DefinedHeads(c)' = DefinedHeads(c) /\ Unqualified' = Unqualified /\ DCGHeadOf' = DCGHeadOf
          /\ \A n : Text(n)' = Text(n) /\ Called(n)' = Called(n)
        BY <1>3, SameText DEF vars, Clauses
    <2>2. /\ \A c : Settled(c)' = Settled(c) /\ Undefined(c)' = Undefined(c)
          /\ \A call : Leading(call)' = Leading(call)
        BY <2>1 DEF Settled, Undefined, Leading, Term
    <2> QED
        BY <2>1, <2>2 DEF HeadsInv
<1> QED
    BY <1>1, <1>2, <1>3 DEF Next

LEMMA HeadsAreSettled == ASSUME IInv, HeadsInv PROVE HeadsAreDefined
<1> SUFFICES ASSUME NEW c \in Clauses, Analysed(c) PROVE Settled(c)
    BY DEF HeadsAreDefined, Settled
<1>1. CASE c < next
    BY <1>1 DEF HeadsInv
<1>2. CASE c = next /\ calls = <<>>
    BY <1>2 DEF HeadsInv
<1> QED
    BY <1>1, <1>2 DEF Analysed

\* Every clause that has been walked, those with a module in front (m:p. and the like)
\* apart, is shown, in the outline and by Goto Definition, as a clause of the predicate
\* that its text makes it a clause of, and of no other.
THEOREM HeadsAreAlwaysDefined == Spec => []HeadsAreDefined
<1>1. IInv /\ HeadsInv => HeadsAreDefined
    BY HeadsAreSettled
<1>2. Init => IInv /\ HeadsInv
    BY InitInv, HeadsInit
<1>3. IInv /\ HeadsInv /\ [Next]_vars => (IInv /\ HeadsInv)'
    BY StepInv, HeadsStep
<1> QED
    BY <1>1, <1>2, <1>3, PTL DEF Spec

\* The goals of a clause, form by form.
LEMMA GoalsEquation ==
    ASSUME NEW c
    PROVE  /\ Reads(Term(c), {":-"}, 2) => GoalsOf(c, FALSE) = RuleGoals(FALSE)[Sub(Term(c), 2)]
           /\ Reads(Term(c), {"-->"}, 2) => GoalsOf(c, FALSE) = Nonterminals(FALSE)[Sub(Term(c), 2)]
           /\ ~ Reads(Term(c), {":-"}, 2) /\ ~ Reads(Term(c), {"-->"}, 2) => GoalsOf(c, FALSE) = {}
<1>1. Reads(Term(c), {":-"}, 2) => Text(Term(c))[1] = ":-"
    BY Functor
<1>2. Reads(Term(c), {"-->"}, 2) => Text(Term(c))[1] = "-->"
    BY Functor
<1>3. ~ (Reads(Term(c), {":-"}, 2) /\ Reads(Term(c), {"-->"}, 2))
    BY <1>1, <1>2
<1>4. Reads(Term(c), {":-"}, 2) => GoalsOf(c, FALSE) = RuleGoals(FALSE)[Sub(Term(c), 2)]
    BY <1>3 DEF GoalsOf
<1>5. Reads(Term(c), {"-->"}, 2) => GoalsOf(c, FALSE) = Nonterminals(FALSE)[Sub(Term(c), 2)]
    BY <1>3 DEF GoalsOf
<1>6. ~ Reads(Term(c), {":-"}, 2) /\ ~ Reads(Term(c), {"-->"}, 2) => GoalsOf(c, FALSE) = {}
    BY DEF GoalsOf
<1> QED
    BY <1>4, <1>5, <1>6

\* Goals are nodes under names that the graph has.
LEMMA GoalsAreNodes ==
    ASSUME file \in Files, NEW c \in Clauses
    PROVE  GoalsOf(c, FALSE) \subseteq Nodes \X Names(file)
<1>1. Term(c) \in Nodes
    BY FilesAssumption DEF IsFile, Term, Clauses, Nodes
<1>2. ASSUME NEW n \in Nodes PROVE RuleGoals(FALSE)[n] \subseteq Nodes \X Names(file)
    <2>1. RuleGoals(FALSE)[n] \subseteq TextsIn(n)
        BY RuleGoalsEquation
    <2>2. U(n) \subseteq Nodes
        BY FilesAssumption DEF IsFile, U, Nodes
    <2>3. \A m \in Nodes : Text(m) \in Names(file)
        BY NamesOfNodes DEF Text, Nodes
    <2>4. TextsIn(n) \subseteq Nodes \X Names(file)
        BY <2>2, <2>3 DEF TextsIn
    <2> QED
        BY <2>1, <2>4
<1>3. ASSUME NEW n \in Nodes PROVE Nonterminals(FALSE)[n] \subseteq Nodes \X Names(file)
    BY NonterminalsEquation
<1>4. Reads(Term(c), {":-"}, 2) \/ Reads(Term(c), {"-->"}, 2) => Sub(Term(c), 2) \in Nodes
    BY <1>1, ReadsArguments
<1>5. CASE Reads(Term(c), {":-"}, 2)
    BY <1>2, <1>4, <1>5, GoalsEquation
<1>6. CASE Reads(Term(c), {"-->"}, 2)
    BY <1>3, <1>4, <1>6, GoalsEquation
<1>7. CASE ~ Reads(Term(c), {":-"}, 2) /\ ~ Reads(Term(c), {"-->"}, 2)
    <2>1. GoalsOf(c, FALSE) = {}
        BY <1>7, GoalsEquation
    <2> QED
        BY <2>1
<1> QED
    BY <1>5, <1>6, <1>7

--------------------------------------------------------------------------------
(***************************************************************************)
(* The goals of the clauses that are walked are in the graph, or a call    *)
(* that will enter them is on the stack.                                   *)
(***************************************************************************)
\* what a call will enter if nodes have the names nm
PendingUnder(call, nm) ==
    CASE call.fn = "index"             -> GoalsOf(next, FALSE)
      [] call.fn = "ruleBody"          -> RuleGoals(FALSE)[call.node]
      [] call.fn = "DCGBody"           -> Nonterminals(FALSE)[call.node]
      [] call.fn = "addRefAndIndexArg" -> {<<m, nm[m]>> : m \in U(call.node)}
      [] OTHER                         -> {}

Pending(call) == PendingUnder(call, name)

Referred(g) == g[1] \in referencesMap[g[2]]

GoalsInv ==
    \A c \in Clauses : c <= next =>
        \A g \in GoalsOf(c, FALSE) :
            Referred(g) \/ (c = next /\ \E i \in 1..Len(calls) : g \in Pending(calls[i]))

LEMMA PendingByFunction ==
    ASSUME NEW call, NEW nm
    PROVE  /\ call.fn = "index" => PendingUnder(call, nm) = GoalsOf(next, FALSE)
           /\ call.fn = "ruleBody" => PendingUnder(call, nm) = RuleGoals(FALSE)[call.node]
           /\ call.fn = "DCGBody" => PendingUnder(call, nm) = Nonterminals(FALSE)[call.node]
           /\ call.fn = "addRefAndIndexArg" =>
                  PendingUnder(call, nm) = {<<m, nm[m]>> : m \in U(call.node)}
           /\ call.fn \in {"ruleHead", "DCGHead", "ruleEval", "publicList"} => PendingUnder(call, nm) = {}
BY DEF PendingUnder

LEMMA GoalStep ==
    ASSUME IInv, GoalsInv, calls # <<>>, NEW others \in Seq(Calls), GoOnWith(others),
           UNCHANGED <<file, next>>,
           \A m \in Nodes : name'[m] # name[m] => m \in U(Node) /\ Top.fn \in Renames,
           \A k \in Names(file) : referencesMap[k] \subseteq referencesMap'[k],
           \A g \in Pending(Top) :
               \/ g[1] \in referencesMap'[g[2]]
               \/ \E j \in 1..Len(others) : g \in PendingUnder(others[j], name')
    PROVE  GoalsInv'
<1>1. calls \in Seq(Calls) /\ next \in Clauses
    BY DEF IInv, TypeOK, Calls
<1>2. Top = calls[1] /\ 1 \in 1..Len(calls) /\ Node = calls[1].node
    BY <1>1, TopIsCall
<1>3. /\ file' = file /\ next' = next /\ Clauses' = Clauses
      /\ RuleGoals(FALSE)' = RuleGoals(FALSE) /\ Nonterminals(FALSE)' = Nonterminals(FALSE)
      /\ \A c : GoalsOf(c, FALSE)' = GoalsOf(c, FALSE)
      /\ \A n : U(n)' = U(n)
    BY SameGoals DEF Clauses, U
<1>4. /\ \A j \in 1..Len(others) : \E i \in 1..Len(calls') : calls'[i] = others[j]
      /\ \A j \in 1..Len(calls) : j # 1 => \E i \in 1..Len(calls') : calls'[i] = calls[j]
    BY <1>1, NewStack
<1>5. \A call : Pending(call)' = PendingUnder(call, name')
    BY <1>3 DEF Pending, PendingUnder
<1>6. \A n \in Nodes : U(n) \subseteq Nodes
    BY FilesAssumption DEF IInv, IsFile, Nodes, U
\* a call below the top goes on to wait for what it waits for
<1>7. ASSUME NEW j \in 1..Len(calls), j # 1
      PROVE  PendingUnder(calls[j], name') = Pending(calls[j])
    <2>1. calls[j] \in Calls
        BY <1>1
    <2>2. CASE calls[j].fn = "addRefAndIndexArg"
        <3>1. Top.fn \in Renames => U(calls[j].node) \cap U(Node) = {}
            BY <1>2, <1>7 DEF IInv, Apart
        <3>2. U(calls[j].node) \subseteq Nodes
            BY <2>1, <1>6 DEF Calls
        <3>3. \A m \in U(calls[j].node) : name'[m] = name[m]
            BY <3>1, <3>2
        <3>4. /\ PendingUnder(calls[j], name') = {<<m, name'[m]>> : m \in U(calls[j].node)}
              /\ PendingUnder(calls[j], name) = {<<m, name[m]>> : m \in U(calls[j].node)}
            BY <2>2, PendingByFunction
        <3> QED
            BY <3>3, <3>4 DEF Pending
    <2>3. CASE calls[j].fn # "addRefAndIndexArg"
        BY <2>1, <2>3, PendingByFunction DEF Pending, Calls, Functions
    <2> QED
        BY <2>2, <2>3
<1>8. SUFFICES ASSUME NEW c \in Clauses, c <= next, NEW g \in GoalsOf(c, FALSE),
                      g[1] \notin referencesMap'[g[2]]
               PROVE  c = next /\ \E i \in 1..Len(calls') : g \in PendingUnder(calls'[i], name')
    BY <1>3, <1>5 DEF GoalsInv, Referred
<1>9. g[2] \in Names(file)
    BY GoalsAreNodes DEF IInv
<1>10. ~ Referred(g)
    BY <1>8, <1>9 DEF Referred
<1>11. c = next
    BY <1>8, <1>10 DEF GoalsInv
<1>12. PICK i \in 1..Len(calls) : g \in Pending(calls[i])
    BY <1>8, <1>10 DEF GoalsInv
<1>13. CASE i = 1
    BY <1>2, <1>4, <1>8, <1>11, <1>12, <1>13
<1>14. CASE i # 1
    BY <1>4, <1>7, <1>11, <1>12, <1>14
<1> QED
    BY <1>13, <1>14

LEMMA GoalsInit == ASSUME Init PROVE GoalsInv
<1>1. \A c \in Clauses : ~ (c <= next)
    BY DEF Init, Start, Clauses
<1> QED
    BY <1>1 DEF GoalsInv

LEMMA NextClauseGoals == ASSUME IInv, GoalsInv, NextClause PROVE GoalsInv'
<1>1. /\ calls = <<>> /\ Len(calls) = 0 /\ 1..Len(calls) = {}
      /\ next' = next + 1 /\ next \in 0..Len(file.terms) /\ next < Len(file.terms)
      /\ Len(file.terms) \in Nat /\ Clauses = 1..Len(file.terms)
    BY FilesAssumption DEF NextClause, IInv, TypeOK, Clauses, IsFile
<1>2. /\ Clauses' = Clauses /\ referencesMap' = referencesMap
      /\ \A c : GoalsOf(c, FALSE)' = GoalsOf(c, FALSE)
    BY SameGoals DEF NextClause, Clauses, graph
<1>3. calls'[1].fn = "index" /\ 1 \in 1..Len(calls')
    BY DEF NextClause, Call
<1>4. Pending(calls[1])' = GoalsOf(next, FALSE)'
    BY <1>3 DEF Pending, PendingUnder
<1>5. ASSUME NEW c \in Clauses, c <= next', NEW g \in GoalsOf(c, FALSE)
      PROVE  \/ g[1] \in referencesMap'[g[2]]
             \/ c = next' /\ \E i \in 1..Len(calls') : g \in Pending(calls[i])'
    <2>1. CASE c <= next
        BY <1>1, <1>2, <1>5, <2>1 DEF GoalsInv, Referred
    <2>2. CASE c = next'
        <3>1. g \in GoalsOf(next, FALSE)'
            BY <1>2, <1>5, <2>2
        <3> QED
            BY <1>3, <1>4, <2>2, <3>1
    <2>3. c <= next \/ c = next'
        BY <1>1, <1>5
    <2> QED
        BY <2>1, <2>2, <2>3
<1> QED
    BY <1>2, <1>5 DEF GoalsInv, Referred

\* What a call that gives no name adds to the graph.
LEMMA Growth ==
    ASSUME IInv, calls # <<>>
    PROVE  /\ referencesMap' = referencesMap =>
                  \A k \in Names(file) : referencesMap[k] \subseteq referencesMap'[k]
           /\ \A k \in Names(file) : addReference(Node, k) =>
                  /\ Node \in referencesMap'[k]
                  /\ \A l \in Names(file) : referencesMap[l] \subseteq referencesMap'[l]
<1>1. referencesMap \in [Names(file) -> SUBSET Nodes]
    BY DEF IInv, TypeOK
<1> QED
    BY <1>1 DEF addReference

\* A call that waits for nothing.
LEMMA NoGoals ==
    ASSUME IInv, GoalsInv, calls # <<>>, Pending(Top) = {}, UNCHANGED <<file, next>>,
           \A m \in Nodes : name'[m] # name[m] => m \in U(Node) /\ Top.fn \in Renames,
           \A k \in Names(file) : referencesMap[k] \subseteq referencesMap'[k],
           NEW others \in Seq(Calls), GoOnWith(others)
    PROVE  GoalsInv'
<1>1. \A g \in Pending(Top) : \/ g[1] \in referencesMap'[g[2]]
                              \/ \E j \in 1..Len(others) : g \in PendingUnder(others[j], name')
    OBVIOUS
<1> QED
    BY <1>1, GoalStep

\* A call that goes on with others that wait for the same.
LEMMA GoalsWalk ==
    ASSUME IInv, GoalsInv, calls # <<>>, UNCHANGED <<file, next>>,
           NEW others \in Seq(Calls), Walks(others),
           \A g \in Pending(Top) : \E j \in 1..Len(others) : g \in Pending(others[j])
    PROVE  GoalsInv'
<1>1. GoOnWith(others) /\ name' = name /\ referencesMap' = referencesMap
    BY DEF Walks, graph
<1>2. \A k \in Names(file) : referencesMap[k] \subseteq referencesMap'[k]
    BY <1>1
<1>3. \A m \in Nodes : name'[m] # name[m] => m \in U(Node) /\ Top.fn \in Renames
    BY <1>1
<1>4. \A g \in Pending(Top) : \E j \in 1..Len(others) : g \in PendingUnder(others[j], name')
    BY <1>1 DEF Pending
<1> QED
    BY <1>1, <1>2, <1>3, <1>4, GoalStep

LEMMA addRefGoals ==
    ASSUME IInv, GoalsInv, addRefAndIndexArg, UNCHANGED <<file, next>>
    PROVE  GoalsInv'
<1> DEFINE others == RefArgs(Node)
<1>1. /\ calls # <<>> /\ Top.fn = "addRefAndIndexArg"
      /\ GoOnWith(others) /\ name' = name /\ addReference(Node, name[Node])
    BY DEF addRefAndIndexArg, Runs
<1>2. Node \in Nodes /\ name[Node] \in Names(file)
    BY <1>1, TopNode
<1>3. file.args[Node] \in Seq(Nodes)
    BY <1>2, Subtrees DEF IInv
<1>4. /\ others \in Seq(Calls) /\ Len(others) = Len(file.args[Node])
      /\ \A j \in 1..Len(others) :
            others[j].fn = "addRefAndIndexArg" /\ others[j].node = file.args[Node][j]
    BY <1>3 DEF RefArgs, Call, Calls, Functions
<1>5. U(Node) = {Node} \cup UNION {U(file.args[Node][i]) : i \in 1..Len(file.args[Node])}
    <2>1. IsForest(file) /\ Node \in NodesOf(file)
        BY <1>2, FilesAssumption DEF IInv, Nodes
    <2> QED
        BY <2>1 DEF IsForest, U
<1> HIDE DEF others
<1>6. /\ Node \in referencesMap'[name[Node]]
      /\ \A l \in Names(file) : referencesMap[l] \subseteq referencesMap'[l]
    BY <1>1, <1>2, Growth
<1>7. ASSUME NEW g \in Pending(Top)
      PROVE  \/ g[1] \in referencesMap'[g[2]]
             \/ \E j \in 1..Len(others) : g \in PendingUnder(others[j], name')
    <2>1. Pending(Top) = {<<m, name[m]>> : m \in U(Node)}
        BY <1>1, PendingByFunction DEF Pending, Node
    <2>2. PICK m \in U(Node) : g = <<m, name[m]>>
        BY <2>1
    <2>3. CASE m = Node
        BY <2>2, <2>3, <1>6
    <2>4. CASE m # Node
        <3>1. PICK j \in 1..Len(file.args[Node]) : m \in U(file.args[Node][j])
            BY <2>4, <1>5
        <3>2. PendingUnder(others[j], name') = {<<l, name'[l]>> : l \in U(file.args[Node][j])}
            BY <1>4, PendingByFunction
        <3> QED
            BY <3>1, <3>2, <2>2, <1>1, <1>4
    <2> QED
        BY <2>3, <2>4
<1>8. \A m \in Nodes : name'[m] # name[m] => m \in U(Node) /\ Top.fn \in Renames
    BY <1>1
<1> QED
    BY <1>1, <1>4, <1>6, <1>7, <1>8, GoalStep

LEMMA indexGoals ==
    ASSUME IInv, HeadsInv, GoalsInv, index, UNCHANGED <<file, next>>
    PROVE  GoalsInv'
<1>1. calls # <<>> /\ Top.fn = "index" /\ Top.fn \in Leads /\ Top.fn # "addRefAndIndexArg"
    BY DEF index, Runs, Leads
<1>2. Node = Term(next)
    BY <1>1, LeadingTop DEF Leading, Node
<1>3. /\ Node \in Nodes
      /\ \A vs, k : IsNamed(Node, vs, k) <=> Reads(Term(next), vs, k)
    BY <1>1, <1>2, FreshTop
<1>4. Arg(2) = Sub(Term(next), 2)
    BY <1>2 DEF Arg, Sub
<1>5. Pending(Top) = GoalsOf(next, FALSE)
    BY <1>1, PendingByFunction DEF Pending
\* without a body there are no goals
<1>6. ASSUME ~ Rule(Node), ~ Grammar(Node), NEW others \in Seq(Calls), GoOnWith(others),
             name' = name, referencesMap' = referencesMap
      PROVE  GoalsInv'
    <2>1. Pending(Top) = {}
        BY <1>3, <1>5, <1>6, GoalsEquation DEF Rule, Grammar
    <2> QED
        BY <1>1, <1>6, <2>1, Growth, NoGoals
<1>7. CASE ~ Rule(Node) /\ ~ Grammar(Node)
    <2>1. CASE Directive(Node) /\ Walks(<<Call("ruleEval", Arg(1))>>)
        <3>1. <<Call("ruleEval", Arg(1))>> \in Seq(Calls)
            BY <1>1, <2>1, Args, OneOther DEF Directive, Functions
        <3> QED
            BY <1>6, <1>7, <2>1, <3>1 DEF Walks, graph
    <2>2. CASE Qualified(Node) /\ Walks(<<Call("addRefAndIndexArg", Arg(1)), Call("DCGBody", Arg(2))>>)
        <3>1. <<Call("addRefAndIndexArg", Arg(1)), Call("DCGBody", Arg(2))>> \in Seq(Calls)
            BY <1>1, <2>2, Args, TwoOthers DEF Qualified, Functions
        <3> QED
            BY <1>6, <1>7, <2>2, <3>1 DEF Walks, graph
    <2>3. CASE GoOnWith(<<>>) /\ UNCHANGED <<name, referencesMap>>
        <3>1. <<>> \in Seq(Calls)
            OBVIOUS
        <3> QED
            BY <1>6, <1>7, <2>3, <3>1
    <2> QED
        BY <1>7, <2>1, <2>2, <2>3 DEF index
\* a body waits for what the clause waits for
<1>8. ASSUME NEW f \in Functions, NEW g \in {"ruleBody", "DCGBody"}, IsNamed(Node, {":-", "-->"}, 2),
             Pending(Call(g, Arg(2))) = GoalsOf(next, FALSE),
             Walks(<<Call(f, Arg(1)), Call(g, Arg(2))>>)
      PROVE  GoalsInv'
    <2> DEFINE others == <<Call(f, Arg(1)), Call(g, Arg(2))>>
    <2>1. g \in Functions /\ Arg(1) \in Nodes /\ Arg(2) \in Nodes
        BY <1>1, <1>8, Args DEF Functions
    <2>2. others \in Seq(Calls) /\ 2 \in 1..Len(others) /\ others[2] = Call(g, Arg(2))
        BY <1>8, <2>1, TwoOthers
    <2> HIDE DEF others
    <2>3. \A x \in Pending(Top) : \E j \in 1..Len(others) : x \in Pending(others[j])
        BY <1>5, <1>8, <2>2
    <2> QED
        BY <1>1, <1>8, <2>2, <2>3, GoalsWalk DEF others
<1>9. CASE Rule(Node) /\ Walks(<<Call("ruleHead", Arg(1)), Call("ruleBody", Arg(2))>>)
    <2>1. Call("ruleBody", Arg(2)).fn = "ruleBody" /\ Call("ruleBody", Arg(2)).node = Arg(2)
        BY DEF Call
    <2>2. Pending(Call("ruleBody", Arg(2))) = GoalsOf(next, FALSE)
        BY <1>3, <1>4, <1>9, <2>1, PendingByFunction, GoalsEquation DEF Rule, Pending
    <2>3. IsNamed(Node, {":-", "-->"}, 2) /\ "ruleHead" \in Functions
        BY <1>9 DEF Rule, IsNamed, Functions
    <2> QED
        BY <1>8, <1>9, <2>2, <2>3
<1>10. CASE Grammar(Node) /\ Walks(<<Call("DCGHead", Arg(1)), Call("DCGBody", Arg(2))>>)
    <2>1. Call("DCGBody", Arg(2)).fn = "DCGBody" /\ Call("DCGBody", Arg(2)).node = Arg(2)
        BY DEF Call
    <2>2. Pending(Call("DCGBody", Arg(2))) = GoalsOf(next, FALSE)
        BY <1>3, <1>4, <1>10, <2>1, PendingByFunction, GoalsEquation DEF Grammar, Pending
    <2>3. IsNamed(Node, {":-", "-->"}, 2) /\ "DCGHead" \in Functions
        BY <1>10 DEF Grammar, IsNamed, Functions
    <2> QED
        BY <1>8, <1>10, <2>2, <2>3
<1>11. Fact(Node) => ~ Rule(Node) /\ ~ Grammar(Node)
    BY DEF Fact
<1>12. Directive(Node) \/ Qualified(Node) => ~ Rule(Node) /\ ~ Grammar(Node)
    <2>1. /\ Directive(Node) => Text(Node)[1] = ":-" /\ Text(Node)[2] = 1
          /\ Qualified(Node) => Text(Node)[1] = ":"
          /\ Rule(Node) => Text(Node)[1] = ":-" /\ Text(Node)[2] = 2
          /\ Grammar(Node) => Text(Node)[1] = "-->"
        BY <1>2, <1>3, Functor DEF Directive, Qualified, Rule, Grammar
    <2> QED
        BY <2>1
<1> QED
    BY <1>7, <1>9, <1>10, <1>11, <1>12 DEF index

LEMMA headGoals ==
    ASSUME IInv, GoalsInv, ruleHead \/ DCGHead, UNCHANGED <<file, next>>
    PROVE  GoalsInv'
<1>1. /\ calls # <<>> /\ Top.fn \in {"ruleHead", "DCGHead"} /\ Top.fn # "addRefAndIndexArg"
      /\ referencesMap' = referencesMap
    BY DEF ruleHead, DCGHead, Runs, Walks, graph
<1>2. Pending(Top) = {}
    BY <1>1, PendingByFunction DEF Pending
<1>3. Node \in Nodes /\ Node \in U(Node)
    BY <1>1, TopNode
<1>4. \A m \in Nodes : name'[m] # name[m] => m \in U(Node) /\ Top.fn \in Renames
    <2>1. name \in [Nodes -> Names(file)]
        BY DEF IInv, TypeOK
    <2>2. CASE ruleHead
        <3>1. name' = name
            BY <2>2 DEF ruleHead, Walks
        <3> QED
            BY <3>1
    <2>3. CASE DCGHead
        <3>1. name' = name \/ name' = [name EXCEPT ![Node] = Extended(Node)]
            BY <2>3 DEF DCGHead, Walks, Extend
        <3>2. Top.fn \in Renames
            BY <2>3 DEF DCGHead, Runs, Renames
        <3> QED
            BY <2>1, <3>1, <3>2, <1>3
    <2> QED
        BY <2>2, <2>3
<1>5. \A others \in Seq(Calls) : GoOnWith(others) => GoalsInv'
    BY <1>1, <1>2, <1>4, Growth, NoGoals
<1>6. {"addRefAndIndexArg", "ruleHead", "DCGHead", "DCGBody"} \subseteq Functions
    BY DEF Functions
<1>7. CASE GoOnWith(<<Call("addRefAndIndexArg", Node)>>)
    BY <1>3, <1>5, <1>6, <1>7, OneOther
<1>8. CASE Qualified(Node) /\ \E f \in {"ruleHead", "DCGHead"} :
               GoOnWith(<<Call("addRefAndIndexArg", Arg(1)), Call(f, Arg(2))>>)
    BY <1>1, <1>5, <1>6, <1>8, Args, TwoOthers DEF Qualified
<1>9. CASE IsNamed(Node, {","}, 2) /\ GoOnWith(<<Call("DCGHead", Arg(1)), Call("DCGBody", Arg(2))>>)
    <2>1. Arg(1) \in Nodes /\ Arg(2) \in Nodes
        BY <1>1, <1>9, Args
    <2>2. <<Call("DCGHead", Arg(1)), Call("DCGBody", Arg(2))>> \in Seq(Calls)
        BY <1>6, <2>1, TwoOthers
    <2> QED
        BY <1>5, <1>9, <2>2
<1>10. PushbackWalk(Arg(2)) = "DCGBody"
    BY DEF PushbackWalk
<1> QED
    BY <1>7, <1>8, <1>9, <1>10 DEF ruleHead, DCGHead, Walks

\* What the calls that follow wait for, by what they are called with.
LEMMA PendingCalls ==
    ASSUME NEW n
    PROVE  /\ Pending(Call("ruleBody", n)) = RuleGoals(FALSE)[n]
           /\ Pending(Call("DCGBody", n)) = Nonterminals(FALSE)[n]
           /\ Pending(Call("addRefAndIndexArg", n)) = {<<m, name[m]>> : m \in U(n)}
<1>1. \A f : Call(f, n).fn = f /\ Call(f, n).node = n
    BY DEF Call
<1>2. Pending(Call("ruleBody", n)) = RuleGoals(FALSE)[n]
    <2> DEFINE c == Call("ruleBody", n)
    <2>1. c.fn = "ruleBody" /\ c.node = n
        BY <1>1
    <2> HIDE DEF c
    <2>2. PendingUnder(c, name) = RuleGoals(FALSE)[n]
        BY <2>1, PendingByFunction
    <2> QED
        BY <2>2 DEF Pending, c
<1>3. Pending(Call("DCGBody", n)) = Nonterminals(FALSE)[n]
    <2> DEFINE c == Call("DCGBody", n)
    <2>1. c.fn = "DCGBody" /\ c.node = n
        BY <1>1
    <2> HIDE DEF c
    <2>2. PendingUnder(c, name) = Nonterminals(FALSE)[n]
        BY <2>1, PendingByFunction
    <2> QED
        BY <2>2 DEF Pending, c
<1>4. Pending(Call("addRefAndIndexArg", n)) = {<<m, name[m]>> : m \in U(n)}
    <2> DEFINE c == Call("addRefAndIndexArg", n)
    <2>1. c.fn = "addRefAndIndexArg" /\ c.node = n
        BY <1>1
    <2> HIDE DEF c
    <2>2. PendingUnder(c, name) = {<<m, name[m]>> : m \in U(n)}
        BY <2>1, PendingByFunction
    <2> QED
        BY <2>2 DEF Pending, c
<1> QED
    BY <1>2, <1>3, <1>4

\* One call follows, or two.
LEMMA GoalsWalkOne ==
    ASSUME IInv, GoalsInv, calls # <<>>, UNCHANGED <<file, next>>,
           NEW f \in Functions, NEW n \in Nodes, Walks(<<Call(f, n)>>),
           Pending(Top) \subseteq Pending(Call(f, n))
    PROVE  GoalsInv'
<1> DEFINE others == <<Call(f, n)>>
<1>1. others \in Seq(Calls) /\ 1 \in 1..Len(others) /\ others[1] = Call(f, n)
    BY OneOther
<1> HIDE DEF others
<1>2. \A g \in Pending(Top) : \E j \in 1..Len(others) : g \in Pending(others[j])
    BY <1>1
<1> QED
    BY <1>1, <1>2, GoalsWalk DEF others

LEMMA GoalsWalkTwo ==
    ASSUME IInv, GoalsInv, calls # <<>>, UNCHANGED <<file, next>>,
           NEW f \in Functions, NEW m \in Nodes, NEW g \in Functions, NEW n \in Nodes,
           Walks(<<Call(f, m), Call(g, n)>>),
           Pending(Top) \subseteq Pending(Call(f, m)) \cup Pending(Call(g, n))
    PROVE  GoalsInv'
<1> DEFINE others == <<Call(f, m), Call(g, n)>>
<1>1. /\ others \in Seq(Calls)
      /\ 1 \in 1..Len(others) /\ others[1] = Call(f, m)
      /\ 2 \in 1..Len(others) /\ others[2] = Call(g, n)
    BY TwoOthers
<1> HIDE DEF others
<1>2. \A x \in Pending(Top) : \E j \in 1..Len(others) : x \in Pending(others[j])
    BY <1>1
<1> QED
    BY <1>1, <1>2, GoalsWalk DEF others

\* The goal is entered, and nothing else was to be.
LEMMA GoalEntered ==
    ASSUME IInv, GoalsInv, calls # <<>>, UNCHANGED <<file, next>>,
           NEW k \in Names(file), addReference(Node, k), Pending(Top) = {<<Node, k>>},
           \A m \in Nodes : name'[m] # name[m] => m \in U(Node) /\ Top.fn \in Renames,
           NEW others \in Seq(Calls), GoOnWith(others)
    PROVE  GoalsInv'
<1>1. /\ Node \in referencesMap'[k]
      /\ \A l \in Names(file) : referencesMap[l] \subseteq referencesMap'[l]
    BY Growth
<1>2. \A g \in Pending(Top) : g[1] \in referencesMap'[g[2]]
    BY <1>1
<1> QED
    BY <1>1, <1>2, GoalStep

LEMMA ruleBodyGoals ==
    ASSUME IInv, GoalsInv, ruleBody, UNCHANGED <<file, next>>
    PROVE  GoalsInv'
<1>1. /\ calls # <<>> /\ Top.fn = "ruleBody" /\ Top.fn # "addRefAndIndexArg"
      /\ "ruleBody" \in Functions /\ "addRefAndIndexArg" \in Functions
    BY DEF ruleBody, Runs, Functions
<1>2. /\ Node \in Nodes /\ name[Node] = Text(Node) /\ name[Node] \in Names(file)
      /\ \A vs, k : IsNamed(Node, vs, k) <=> Reads(Node, vs, k)
    BY <1>1, FreshTop, TopNode
<1>3. Pending(Top) = RuleGoals(FALSE)[Node]
    BY <1>1, PendingByFunction DEF Pending, Node
<1>4. /\ Reads(Node, Controls, 2) =>
             RuleGoals(FALSE)[Node] = RuleGoals(FALSE)[Sub(Node, 1)] \cup RuleGoals(FALSE)[Sub(Node, 2)]
      /\ Reads(Node, {"\\+"}, 1) => RuleGoals(FALSE)[Node] = RuleGoals(FALSE)[Sub(Node, 1)]
      /\ Reads(Node, {":"}, 2) => RuleGoals(FALSE)[Node] = {}
      /\ ~ Reads(Node, Controls, 2) /\ ~ Reads(Node, {"\\+"}, 1) /\ ~ Reads(Node, {":"}, 2) =>
             RuleGoals(FALSE)[Node] = {<<Node, Text(Node)>>}
    BY <1>2, RuleGoalsEquation DEF IInv
<1>5. Arg(1) = Sub(Node, 1) /\ Arg(2) = Sub(Node, 2)
    BY DEF Arg, Sub
<1>6. /\ Control(Node) <=> Reads(Node, Controls, 2)
      /\ Negated(Node) <=> Reads(Node, {"\\+"}, 1)
      /\ Qualified(Node) <=> Reads(Node, {":"}, 2)
    BY <1>2 DEF Control, Negated, Qualified, Controls
<1>7. CASE Control(Node) /\ Walks(<<Call("ruleBody", Arg(1)), Call("ruleBody", Arg(2))>>)
    <2>1. Arg(1) \in Nodes /\ Arg(2) \in Nodes
        BY <1>1, <1>7, Args DEF Control
    <2>2. Pending(Top) \subseteq Pending(Call("ruleBody", Arg(1))) \cup Pending(Call("ruleBody", Arg(2)))
        BY <1>3, <1>4, <1>5, <1>6, <1>7, PendingCalls
    <2> QED
        BY <1>1, <1>7, <2>1, <2>2, GoalsWalkTwo
<1>8. CASE Negated(Node) /\ Walks(<<Call("ruleBody", Arg(1))>>)
    <2>1. Arg(1) \in Nodes
        BY <1>1, <1>8, Args DEF Negated
    <2>2. Pending(Top) \subseteq Pending(Call("ruleBody", Arg(1)))
        BY <1>3, <1>4, <1>5, <1>6, <1>8, PendingCalls
    <2> QED
        BY <1>1, <1>8, <2>1, <2>2, GoalsWalkOne
<1>9. CASE Qualified(Node) /\ Walks(<<Call("addRefAndIndexArg", Arg(1)), Call("ruleBody", Arg(1))>>)
    <2>1. Arg(1) \in Nodes
        BY <1>1, <1>9, Args DEF Qualified
    <2>2. Pending(Top) = {}
        BY <1>3, <1>4, <1>6, <1>9
    <2> QED
        BY <1>1, <1>9, <2>1, <2>2, GoalsWalkTwo
<1>10. CASE /\ ~ (Control(Node) \/ Negated(Node) \/ Qualified(Node))
            /\ addReference(Node, name[Node]) /\ name' = name
            /\ GoOnWith(<<Call("addRefAndIndexArg", Node)>>)
    <2>1. Pending(Top) = {<<Node, name[Node]>>}
        BY <1>2, <1>3, <1>4, <1>6, <1>10
    <2>2. <<Call("addRefAndIndexArg", Node)>> \in Seq(Calls)
        BY <1>1, <1>2, OneOther
    <2>3. \A m \in Nodes : name'[m] # name[m] => m \in U(Node) /\ Top.fn \in Renames
        BY <1>10
    <2> QED
        BY <1>1, <1>2, <1>10, <2>1, <2>2, <2>3, GoalEntered
<1> QED
    BY <1>7, <1>8, <1>9, <1>10 DEF ruleBody

LEMMA DCGBodyGoals ==
    ASSUME IInv, GoalsInv, DCGBody, UNCHANGED <<file, next>>
    PROVE  GoalsInv'
<1>1. /\ calls # <<>> /\ Top.fn = "DCGBody" /\ Top.fn # "addRefAndIndexArg" /\ Top.fn \in Renames
      /\ "DCGBody" \in Functions /\ "addRefAndIndexArg" \in Functions
    BY DEF DCGBody, Runs, Functions, Renames
<1>2. /\ Node \in Nodes /\ Node \in U(Node) /\ name[Node] = Text(Node) /\ Extended(Node) \in Names(file)
      /\ \A m \in U(Node) : name[m] = Text(m)
      /\ \A vs, k : IsNamed(Node, vs, k) <=> Reads(Node, vs, k)
    BY <1>1, FreshTop, TopNode
<1>3. Pending(Top) = Nonterminals(FALSE)[Node]
    BY <1>1, PendingByFunction DEF Pending, Node
<1>4. /\ Reads(Node, GrammarControls, 2) =>
             Nonterminals(FALSE)[Node] = Nonterminals(FALSE)[Sub(Node, 1)] \cup Nonterminals(FALSE)[Sub(Node, 2)]
      /\ Reads(Node, {"\\+"}, 1) => Nonterminals(FALSE)[Node] = {}
      /\ Reads(Node, {":"}, 2) => Nonterminals(FALSE)[Node] = Nonterminals(FALSE)[Sub(Node, 2)]
      /\ Reads(Node, {"{}"}, 1) => Nonterminals(FALSE)[Node] = RuleGoals(FALSE)[Sub(Node, 1)]
      /\ Text(Node) \in Silent => Nonterminals(FALSE)[Node] = {}
      /\ Speaks(Node) => Nonterminals(FALSE)[Node] = {<<Node, Called(Node)>>}
    BY <1>2, NonterminalsEquation DEF IInv
<1>5. Arg(1) = Sub(Node, 1) /\ Arg(2) = Sub(Node, 2)
    BY DEF Arg, Sub
<1>6. /\ DCGControl(Node) <=> Reads(Node, GrammarControls, 2)
      /\ Negated(Node) <=> Reads(Node, {"\\+"}, 1)
      /\ Qualified(Node) <=> Reads(Node, {":"}, 2)
      /\ Braces(Node) <=> Reads(Node, {"{}"}, 1)
      /\ Terminals(Node) \/ Skipped(Node) \/ Empty(Node) <=> Text(Node) \in Silent
    <2>1. DCGControl(Node) <=> Reads(Node, GrammarControls, 2)
        <3>1. DCGControl(Node) <=> IsNamed(Node, GrammarControls, 2)
            BY DEF DCGControl, Control, Grammar, GrammarControls, IsNamed
        <3> QED
            BY <1>2, <3>1
    <2>2. /\ Negated(Node) <=> Reads(Node, {"\\+"}, 1)
          /\ Qualified(Node) <=> Reads(Node, {":"}, 2)
          /\ Braces(Node) <=> Reads(Node, {"{}"}, 1)
        BY <1>2 DEF Negated, Qualified, Braces
    <2>3. Terminals(Node) \/ Skipped(Node) \/ Empty(Node) <=> Text(Node) \in Silent
        <3>1. Terminals(Node) \/ Skipped(Node) \/ Empty(Node) <=> name[Node] \in Silent
            BY DEF Terminals, Skipped, Empty, Silent
        <3> QED
            BY <1>2, <3>1
    <2> QED
        BY <2>1, <2>2, <2>3
<1>7. CASE DCGControl(Node) /\ Walks(<<Call("DCGBody", Arg(1)), Call("DCGBody", Arg(2))>>)
    <2>1. Arg(1) \in Nodes /\ Arg(2) \in Nodes
        <3>1. IsNamed(Node, GrammarControls, 2)
            BY <1>2, <1>6, <1>7
        <3> QED
            BY <1>1, <3>1, Args
    <2>2. Pending(Top) \subseteq Pending(Call("DCGBody", Arg(1))) \cup Pending(Call("DCGBody", Arg(2)))
        BY <1>3, <1>4, <1>5, <1>6, <1>7, PendingCalls
    <2> QED
        BY <1>1, <1>7, <2>1, <2>2, GoalsWalkTwo
<1>8. CASE Qualified(Node) /\ Walks(<<Call("addRefAndIndexArg", Arg(1)), Call("DCGBody", Arg(2))>>)
    <2>1. Arg(1) \in Nodes /\ Arg(2) \in Nodes
        BY <1>1, <1>8, Args DEF Qualified
    <2>2. Pending(Top) \subseteq Pending(Call("DCGBody", Arg(2)))
        BY <1>3, <1>4, <1>5, <1>6, <1>8, PendingCalls
    <2> QED
        BY <1>1, <1>8, <2>1, <2>2, GoalsWalkTwo
<1>9. CASE Terminals(Node) /\ Walks(<<Call("addRefAndIndexArg", Arg(1)), Call("addRefAndIndexArg", Arg(2))>>)
    <2>1. Arg(1) \in Nodes /\ Arg(2) \in Nodes
        BY <1>1, <1>9, Arguments DEF Terminals
    <2>2. Pending(Top) = {}
        BY <1>3, <1>4, <1>6, <1>9
    <2> QED
        BY <1>1, <1>9, <2>1, <2>2, GoalsWalkTwo
<1>10. CASE Negated(Node) /\ Walks(<<Call("addRefAndIndexArg", Arg(1))>>)
    <2>1. Arg(1) \in Nodes
        BY <1>1, <1>10, Args DEF Negated
    <2>2. Pending(Top) = {}
        BY <1>3, <1>4, <1>6, <1>10
    <2> QED
        BY <1>1, <1>10, <2>1, <2>2, GoalsWalkOne
\* what {} has are goals, under the names that they still have
<1>11. CASE Braces(Node) /\ Walks(<<Call("addRefAndIndexArg", Arg(1))>>)
    <2>1. Arg(1) \in Nodes
        BY <1>1, <1>11, Args DEF Braces
    <2>2. RuleGoals(FALSE)[Arg(1)] \subseteq TextsIn(Arg(1))
        BY <2>1, RuleGoalsEquation DEF IInv
    <2>3. U(Arg(1)) \subseteq U(Node)
        <3>1. \E i \in 1..Len(file.args[Node]) : Sub(Node, 1) = file.args[Node][i]
            BY <1>2, <1>6, <1>11, ReadsArgument DEF IInv
        <3> QED
            BY <1>2, <1>5, <3>1, Subtrees DEF IInv
    <2>4. TextsIn(Arg(1)) = {<<m, name[m]>> : m \in U(Arg(1))}
        BY <1>2, <2>3 DEF TextsIn
    <2>5. Pending(Top) \subseteq Pending(Call("addRefAndIndexArg", Arg(1)))
        BY <1>3, <1>4, <1>5, <1>6, <1>11, <2>2, <2>4, PendingCalls
    <2> QED
        BY <1>1, <1>11, <2>1, <2>5, GoalsWalkOne
<1>12. CASE (Skipped(Node) \/ Empty(Node)) /\ GoOnWith(<<>>) /\ referencesMap' = referencesMap
            /\ (name' = name \/ name' = [name EXCEPT ![Node] = <<"true">>])
    <2>1. Pending(Top) = {}
        BY <1>3, <1>4, <1>6, <1>12
    <2>2. \A m \in Nodes : name'[m] # name[m] => m \in U(Node) /\ Top.fn \in Renames
        <3>1. name \in [Nodes -> Names(file)]
            BY DEF IInv, TypeOK
        <3> QED
            BY <1>1, <1>2, <1>12, <3>1
    <2>3. <<>> \in Seq(Calls)
        OBVIOUS
    <2>4. \A k \in Names(file) : referencesMap[k] \subseteq referencesMap'[k]
        BY <1>12
    <2> QED
        BY <1>1, <1>12, <2>1, <2>2, <2>3, <2>4, NoGoals
<1>13. CASE Nonterminal(Node) /\ Extend /\ addReference(Node, BodyName(Node)) /\ GoOnWith(<<>>)
    <2>1. Speaks(Node)
        BY <1>6, <1>13 DEF Nonterminal, Speaks
    <2>2. BodyName(Node) = Called(Node) /\ BodyName(Node) \in Names(file)
        BY <1>2, ExtendedIsCalled DEF BodyName, IInv
    <2>3. Pending(Top) = {<<Node, BodyName(Node)>>}
        BY <1>3, <1>4, <2>1, <2>2
    <2>4. \A m \in Nodes : name'[m] # name[m] => m \in U(Node) /\ Top.fn \in Renames
        <3>1. name \in [Nodes -> Names(file)] /\ name' = [name EXCEPT ![Node] = Extended(Node)]
            BY <1>13 DEF IInv, TypeOK, Extend
        <3> QED
            BY <1>1, <1>2, <3>1
    <2>5. <<>> \in Seq(Calls)
        OBVIOUS
    <2> QED
        BY <1>1, <1>13, <2>2, <2>3, <2>4, <2>5, GoalEntered
<1>14. Walks(<<>>) => GoOnWith(<<>>) /\ referencesMap' = referencesMap /\ name' = name
    BY DEF Walks, graph
<1> QED
    BY <1>7, <1>8, <1>9, <1>10, <1>11, <1>12, <1>13, <1>14 DEF DCGBody, graph

LEMMA ruleEvalGoals ==
    ASSUME IInv, GoalsInv, ruleEval, UNCHANGED <<file, next>>
    PROVE  GoalsInv'
<1>1. /\ calls # <<>> /\ Top.fn = "ruleEval" /\ Top.fn # "addRefAndIndexArg"
      /\ {"addRefAndIndexArg", "ruleEval", "publicList"} \subseteq Functions
    BY DEF ruleEval, Runs, Functions
<1>2. Node \in Nodes
    BY <1>1, TopNode
<1>3. Pending(Top) = {}
    BY <1>1, PendingByFunction DEF Pending
<1>4. CASE IsNamed(Node, {","}, 2) /\ Walks(<<Call("ruleEval", Arg(1)), Call("ruleEval", Arg(2))>>)
    <2>1. Arg(1) \in Nodes /\ Arg(2) \in Nodes
        BY <1>1, <1>4, Args
    <2> QED
        BY <1>1, <1>3, <1>4, <2>1, GoalsWalkTwo
<1>5. CASE Walks(<<Call("addRefAndIndexArg", Node)>>)
    BY <1>1, <1>2, <1>3, <1>5, GoalsWalkOne
<1>6. CASE IsNamed(Node, {"module"}, 2) /\ Walks(ModuleCalls)
    <2>1. Arg(2) \in Nodes
        BY <1>1, <1>6, Args
    <2>2. Walks(<<Call("publicList", Arg(2)), Call("addRefAndIndexArg", Node)>>) => GoalsInv'
        BY <1>1, <1>2, <1>3, <2>1, GoalsWalkTwo
    <2> QED
        BY <1>5, <1>6, <2>2 DEF ModuleCalls
<1>7. CASE UseModule
    <2>1. name' = name /\ GoOnWith(<<>>)
        BY <1>7 DEF UseModule
    <2>2. \A k \in Names(file) : referencesMap[k] \subseteq referencesMap'[k]
        <3>1. DOMAIN referencesMap = Names(file)
            BY DEF IInv, TypeOK
        <3> QED
            BY <1>7, <3>1 DEF UseModule
    <2>3. <<>> \in Seq(Calls)
        OBVIOUS
    <2>4. \A m \in Nodes : name'[m] # name[m] => m \in U(Node) /\ Top.fn \in Renames
        BY <2>1
    <2> QED
        BY <1>1, <1>3, <2>1, <2>2, <2>3, <2>4, NoGoals
<1> QED
    BY <1>4, <1>5, <1>6, <1>7 DEF ruleEval

LEMMA publicListGoals ==
    ASSUME IInv, GoalsInv, publicList, UNCHANGED <<file, next>>
    PROVE  GoalsInv'
<1>1. /\ calls # <<>> /\ Top.fn = "publicList" /\ Top.fn # "addRefAndIndexArg"
      /\ {"addRefAndIndexArg", "publicList"} \subseteq Functions
    BY DEF publicList, Runs, Functions
<1>2. Node \in Nodes
    BY <1>1, TopNode
<1>3. Pending(Top) = {}
    BY <1>1, PendingByFunction DEF Pending
<1>4. CASE Terminals(Node)
           /\ Walks(<<Call("addRefAndIndexArg", Arg(1)), Call("publicList", RestOfList(Node))>>)
    <2>1. Arg(1) \in Nodes /\ RestOfList(Node) \in Nodes
        BY <1>1, <1>4, Arguments DEF Terminals, Arg, RestOfList
    <2> QED
        BY <1>1, <1>3, <1>4, <2>1, GoalsWalkTwo
<1>5. CASE Walks(<<>>)
    <2>1. <<>> \in Seq(Calls)
        OBVIOUS
    <2> QED
        BY <1>1, <1>3, <1>5, <2>1, GoalsWalk
<1>6. CASE Walks(<<Call("addRefAndIndexArg", Node)>>)
    BY <1>1, <1>2, <1>3, <1>6, GoalsWalkOne
<1> QED
    BY <1>4, <1>5, <1>6 DEF publicList

LEMMA GoalsStep == ASSUME IInv, HeadsInv, GoalsInv, [Next]_vars PROVE GoalsInv'
<1>1. CASE NextClause
    BY <1>1, NextClauseGoals
<1>2. CASE Step
    BY <1>2, addRefGoals, indexGoals, headGoals, ruleBodyGoals, DCGBodyGoals, ruleEvalGoals,
       publicListGoals DEF Step
<1>3. CASE UNCHANGED vars
    <2>1. /\ file' = file /\ next' = next /\ calls' = calls /\ Clauses' = Clauses
          /\ referencesMap' = referencesMap /\ name' = name
          /\ RuleGoals(FALSE)' = RuleGoals(FALSE) /\ Nonterminals(FALSE)' = Nonterminals(FALSE)
          /\ \A c : GoalsOf(c, FALSE)' = GoalsOf(c, FALSE)
          /\ \A n : U(n)' = U(n)
        BY <1>3, SameGoals DEF vars, Clauses, graph, U
    <2>2. \A call : Pending(call)' = Pending(call)
        BY <2>1 DEF Pending, PendingUnder
    <2> QED
        BY <2>1, <2>2 DEF GoalsInv, Referred
<1> QED
    BY <1>1, <1>2, <1>3 DEF Next

LEMMA GoalsAreEntered == ASSUME IInv, GoalsInv PROVE GoalsAreReferenced
<1> SUFFICES ASSUME NEW c \in Clauses, Analysed(c), NEW g \in GoalsOf(c, FALSE)
             PROVE  Referred(g)
    BY DEF GoalsAreReferenced, Referred
<1>1. c \in Int /\ next \in Int
    BY DEF IInv, TypeOK, Clauses
<1>2. c <= next
    BY <1>1 DEF Analysed
<1>3. Referred(g) \/ (c = next /\ \E i \in 1..Len(calls) : g \in Pending(calls[i]))
    BY <1>2 DEF GoalsInv
<1>4. CASE c = next /\ calls = <<>>
    <2>1. 1..Len(calls) = {}
        BY <1>4
    <2> QED
        BY <1>3, <2>1
<1>5. CASE c < next
    <2>1. c # next
        BY <1>1, <1>5
    <2> QED
        BY <1>3, <2>1
<1> QED
    BY <1>4, <1>5 DEF Analysed

\* Every goal of a rule that has been walked and every nonterminal of a grammar rule is
\* found under the name it calls, what is m:g in a rule, \+ b in a grammar rule, or in a
\* clause with a module in front apart.
THEOREM GoalsAreAlwaysReferenced == Spec => []GoalsAreReferenced
<1>1. IInv /\ GoalsInv => GoalsAreReferenced
    BY GoalsAreEntered
<1>2. Init => IInv /\ HeadsInv /\ GoalsInv
    BY InitInv, HeadsInit, GoalsInit
<1>3. IInv /\ HeadsInv /\ GoalsInv /\ [Next]_vars => (IInv /\ HeadsInv /\ GoalsInv)'
    BY StepInv, HeadsStep, GoalsStep
<1> QED
    BY <1>1, <1>2, <1>3, PTL DEF Spec

--------------------------------------------------------------------------------
(* The walk over a clause comes to an end. *)

IsBelow(n) == U(n) \subseteq U(Node) \ {Node}

\* A call that is less than the one that runs: it is for a part of the node, or it enters
\* the node itself, which only a call of another kind goes on with.
IsLess(call) ==
    \/ IsBelow(call.node)
    \/ call.node = Node /\ call.fn = "addRefAndIndexArg" /\ Top.fn # "addRefAndIndexArg"

\* The call that runs is gone, and the calls in its place are all less.
Descends == \E others : GoOnWith(others) /\ \A i \in 1..Len(others) : IsLess(others[i])

LEMMA ArgIsBelow ==
    ASSUME file \in Files, Node \in Nodes, NEW i \in 1..Len(file.args[Node])
    PROVE  IsBelow(Arg(i))
<1>1. IsForest(file)
    BY FilesAssumption
<1>2. Node \notin file.under[file.args[Node][i]]
    BY <1>1 DEF IsForest, Nodes
<1>3. U(file.args[Node][i]) \subseteq U(Node)
    BY Subtrees
<1> QED
    BY <1>2, <1>3 DEF IsBelow, Arg, U

\* What the call that runs takes for arguments of its node is below it.
LEMMA ArgumentsAreBelow ==
    ASSUME IInv, calls # <<>>, Top.fn # "addRefAndIndexArg",
           NEW k \in {1, 2}, NEW v, name[Node] = <<v, k>>
    PROVE  IsBelow(Arg(1)) /\ (k = 2 => IsBelow(Arg(2)) /\ IsBelow(RestOfList(Node)))
<1>1. Node \in Nodes /\ Top = calls[1] /\ 1 \in 1..Len(calls) /\ Node = calls[1].node
    BY TopIsCall DEF IInv, TypeOK, Calls
<1>2. Node \in U(Node)
    BY <1>1, Subtrees DEF IInv
<1>3. name[Node] = InitialName(file, Node)
    BY <1>1, <1>2 DEF IInv, FreshNames
<1>4. Len(file.args[Node]) = k
    BY <1>1, <1>3, Arity DEF IInv, Nodes
<1>5. \A i \in 1..k : IsBelow(Arg(i))
    BY <1>1, <1>4, ArgIsBelow DEF IInv
<1>6. 1 \in 1..k /\ (k = 2 => 2 \in 1..k) /\ Arg(2) = RestOfList(Node)
    BY DEF Arg, RestOfList
<1> QED
    BY <1>5, <1>6

LEMMA DescendsToNone == ASSUME GoOnWith(<<>>) PROVE Descends
BY DEF Descends

LEMMA DescendsToOne ==
    ASSUME NEW f, NEW n, GoOnWith(<<Call(f, n)>>), IsLess(Call(f, n))
    PROVE  Descends
<1> DEFINE others == <<Call(f, n)>>
<1>1. \A i \in 1..Len(others) : others[i] = Call(f, n)
    OBVIOUS
<1> HIDE DEF others
<1>2. GoOnWith(others)
    BY DEF others
<1> QED
    BY <1>1, <1>2 DEF Descends

LEMMA DescendsToTwo ==
    ASSUME NEW f, NEW m, NEW g, NEW n, GoOnWith(<<Call(f, m), Call(g, n)>>),
           IsLess(Call(f, m)), IsLess(Call(g, n))
    PROVE  Descends
<1> DEFINE others == <<Call(f, m), Call(g, n)>>
<1>1. \A i \in 1..Len(others) : others[i] = Call(f, m) \/ others[i] = Call(g, n)
    OBVIOUS
<1> HIDE DEF others
<1>2. GoOnWith(others)
    BY DEF others
<1> QED
    BY <1>1, <1>2 DEF Descends

LEMMA LessCall ==
    /\ \A f, n : IsBelow(n) => IsLess(Call(f, n))
    /\ Top.fn # "addRefAndIndexArg" => IsLess(Call("addRefAndIndexArg", Node))
BY DEF IsLess, Call

\* Calls for the arguments of a node with a name of that arity.
LEMMA DescendsToArgs ==
    ASSUME IInv, calls # <<>>, Top.fn # "addRefAndIndexArg", NEW f, NEW g, NEW functors
    PROVE  /\ IsNamed(Node, functors, 1) /\ GoOnWith(<<Call(f, Arg(1))>>) => Descends
           /\ IsNamed(Node, functors, 2) /\ GoOnWith(<<Call(f, Arg(1)), Call(g, Arg(2))>>) => Descends
           /\ IsNamed(Node, functors, 2) /\ GoOnWith(<<Call(f, Arg(1)), Call(g, Arg(1))>>) => Descends
           /\ IsNamed(Node, functors, 2) /\ GoOnWith(<<Call(f, Arg(1)), Call(g, RestOfList(Node))>>)
                => Descends
<1>1. IsNamed(Node, functors, 1) => IsBelow(Arg(1))
    BY ArgumentsAreBelow DEF IsNamed
<1>2. IsNamed(Node, functors, 2) =>
          IsBelow(Arg(1)) /\ IsBelow(Arg(2)) /\ IsBelow(RestOfList(Node))
    BY ArgumentsAreBelow DEF IsNamed
<1> QED
    BY <1>1, <1>2, LessCall, DescendsToOne, DescendsToTwo

LEMMA EveryStepDescends ==
    ASSUME IInv, Step
    PROVE  Descends
<1>t. ASSUME calls # <<>> PROVE file \in Files /\ Node \in Nodes
    BY <1>t, TopIsCall DEF IInv, TypeOK, Calls
<1>n. ASSUME calls # <<>>, Top.fn # "addRefAndIndexArg",
             GoOnWith(<<Call("addRefAndIndexArg", Node)>>)
      PROVE  Descends
    BY <1>n, LessCall, DescendsToOne
<1>1. CASE addRefAndIndexArg
    <2>1. calls # <<>> /\ GoOnWith(RefArgs(Node))
        BY <1>1 DEF addRefAndIndexArg, Runs
    <2>2. ASSUME NEW i \in 1..Len(RefArgs(Node)) PROVE IsLess(RefArgs(Node)[i])
        <3>1. file.args[Node] \in Seq(Nodes)
            BY <1>t, <2>1, Subtrees
        <3>2. i \in 1..Len(file.args[Node]) /\ RefArgs(Node)[i] = Call("addRefAndIndexArg", Arg(i))
            BY <3>1, <2>2 DEF RefArgs, Arg
        <3> QED
            BY <1>t, <2>1, <3>2, ArgIsBelow, LessCall
    <2> QED
        BY <2>1, <2>2 DEF Descends
<1>2. CASE index
    <2>1. calls # <<>> /\ Top.fn # "addRefAndIndexArg"
        BY <1>2 DEF index, Runs
    <2> QED
        BY <1>2, <2>1, DescendsToArgs, DescendsToNone
           DEF index, Walks, Directive, Rule, Grammar, Qualified
<1>3. CASE ruleHead
    <2>1. calls # <<>> /\ Top.fn # "addRefAndIndexArg"
        BY <1>3 DEF ruleHead, Runs
    <2> QED
        BY <1>3, <1>n, <2>1, DescendsToArgs DEF ruleHead, Walks, Qualified
<1>4. CASE ruleBody
    <2>1. calls # <<>> /\ Top.fn # "addRefAndIndexArg"
        BY <1>4 DEF ruleBody, Runs
    <2> QED
        BY <1>4, <1>n, <2>1, DescendsToArgs DEF ruleBody, Walks, Control, Negated, Qualified
<1>5. CASE DCGHead
    <2>1. calls # <<>> /\ Top.fn # "addRefAndIndexArg"
        BY <1>5 DEF DCGHead, Runs
    <2> QED
        BY <1>5, <1>n, <2>1, DescendsToArgs DEF DCGHead, Walks, Qualified
<1>6. CASE DCGBody
    <2>1. calls # <<>> /\ Top.fn # "addRefAndIndexArg"
        BY <1>6 DEF DCGBody, Runs
    <2>2. Terminals(Node) => IsNamed(Node, {"[|]"}, 2)
        BY DEF Terminals, IsNamed
    <2> QED
        BY <1>6, <2>1, <2>2, DescendsToArgs, DescendsToNone
           DEF DCGBody, Walks, DCGControl, Control, Grammar, Negated, Braces, Qualified
<1>7. CASE ruleEval
    <2>1. calls # <<>> /\ Top.fn # "addRefAndIndexArg"
        BY <1>7 DEF ruleEval, Runs
    <2>2. CASE IsNamed(Node, {"module"}, 2) /\ Walks(ModuleCalls)
        <3>1. IsBelow(Arg(2))
            BY <2>1, <2>2, ArgumentsAreBelow DEF IsNamed
        <3> QED
            BY <1>n, <2>1, <2>2, <3>1, LessCall, DescendsToTwo DEF Walks, ModuleCalls
    <2> QED
        BY <1>7, <1>n, <2>1, <2>2, DescendsToArgs, DescendsToNone
           DEF ruleEval, UseModule, Walks
<1>8. CASE publicList
    <2>1. calls # <<>> /\ Top.fn # "addRefAndIndexArg"
        BY <1>8 DEF publicList, Runs
    <2>2. Terminals(Node) => IsNamed(Node, {"[|]"}, 2)
        BY DEF Terminals, IsNamed
    <2> QED
        BY <1>8, <1>n, <2>1, <2>2, DescendsToArgs, DescendsToNone DEF publicList, Walks
<1> QED
    BY <1>1, <1>2, <1>3, <1>4, <1>5, <1>6, <1>7, <1>8 DEF Step

\* Whatever the names of the nodes have become, every function of the walk goes on with what
\* is below its node, or enters the node itself, which it did not do before: in a tree of
\* finitely many nodes no call goes on for ever.
THEOREM EveryWalkDescends == Spec => [][Step => Descends]_vars
<1>1. IInv /\ [Next]_vars => [Step => Descends]_vars
    BY EveryStepDescends
<1> QED
    BY <1>1, IInvHolds, PTL DEF Spec

================================================================================
