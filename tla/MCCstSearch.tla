------------------------------- MODULE MCCstSearch -------------------------------
(* Files for CstSearch: every layout of a range of small programs. *)
EXTENDS CstSearch

Cst == INSTANCE CstNodes

Node(is, args) == [is |-> is, args |-> args]
Atom == Node("atom", <<>>)
Nil  == Node("nil", <<>>)
Leaf == {Atom, Node("neg", <<>>)}

\* every form with its arguments in the places of a and b
Forms(a, b) ==
    {Node(is, <<a>>) : is \in {"compound", "prefix", "postfix", "curly", "paren"}}
    \cup {Node(is, <<a, b>>) : is \in {"compound", "infix"}}
    \cup {Node("list", <<a, rest>>) : rest \in {Nil, b, Node("cell", <<b, Nil>>)}}
    \cup {Node("dict", <<Atom, a, b>>)}

Terms1 == UNION {Forms(a, b) : a \in Leaf, b \in Leaf}
Terms2 == UNION {Forms(a, b) \cup Forms(b, a) : a \in Terms1, b \in {Atom}}

OneClause == {<<[term |-> t, end |-> TRUE]>> : t \in Leaf \cup Terms1 \cup Terms2}

\* a few terms of several tokens, for files of several clauses, the last
\* perhaps without its end
Some == {Node("infix", <<Atom, Atom>>), Node("postfix", <<Atom>>),
         Node("compound", <<Atom, Node("list", <<Atom, Nil>>)>>)}

ThreeClauses ==
    {[k \in 1..3 |-> [term |-> ts[k], end |-> k < 3 \/ ended]]
        : ts \in [1..3 -> Some], ended \in BOOLEAN}

\* where the clauses of a text end
ClauseBreaks(lexemes, S) ==
    {Cst!EndOf(lexemes, S, i) : i \in {j \in 1..Len(lexemes) - 1 : lexemes[j].class = "end"}}

\* Lines matter between clauses only: with several, at most one line break beside
\* those at the ends of clauses.
AllFiles ==
    UNION {LET lexemes == Cst!TextOfFile(text)
               S == Cst!Starts(lexemes, space)
               between == ClauseBreaks(lexemes, S)
               anywhere == IF Len(text) = 1 THEN {} ELSE Cst!Breaks(lexemes, S)
           IN  {Cst!Parsed(text, lexemes, S, between \cup extra)
                   : extra \in {{}} \cup {{b} : b \in anywhere}}
              : text \in OneClause \cup ThreeClauses, space \in {0, 1}}

================================================================================
