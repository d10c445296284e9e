-------------------------------- MODULE CstNodes --------------------------------
(***************************************************************************)
(* The nodes of cst2.ts: from the text of a file to the tokens and ranges  *)
(* its nodes get from their constructors.  A file is written here as a     *)
(* sequence of clauses, each a term with or without the "." at its end; a  *)
(* term is a record of its form and its arguments:                         *)
(*   atom, neg (a negative number), compound, prefix, infix, postfix,      *)
(*   curly ({a}), dict (tag{k:v}), paren (a term in parentheses),          *)
(*   list and cell (an item and the rest: a cell, nil or the tail), nil.   *)
(* A node is named by its clause and the argument positions that lead to   *)
(* it; a clause has its term as argument 1.                                *)
(***************************************************************************)
EXTENDS Integers, Sequences, SequencesExt, FiniteSets

CONSTANT None

(***************************************************************************)
(* The text: a lexeme has the node whose token it is (or None), the list   *)
(* it closes (or None), a length, and a class; two neighbours of one class *)
(* other than "solo" need a space between them, "joined" ones allow none.  *)
(***************************************************************************)
Lexeme(n, class, length) == [node |-> n, closes |-> None, class |-> class, length |-> length]
Punctuation              == Lexeme(None, "solo", 1)
Close(n, list)           == [Lexeme(n, "solo", 1) EXCEPT !.closes = list]

RECURSIVE TextOf(_, _), TextOfArgs(_, _, _), TextOfRest(_, _, _), TextOfPairs(_, _, _)

\* the arguments from the i-th on, with commas between them
TextOfArgs(args, n, i) ==
    IF i > Len(args) THEN <<>>
    ELSE (IF i = 1 THEN <<>> ELSE <<Punctuation>>)
         \o TextOf(args[i], Append(n, i)) \o TextOfArgs(args, n, i + 1)

\* the keys and values of a dict: key : value, key : value
TextOfPairs(args, n, i) ==
    IF i > Len(args) THEN <<>>
    ELSE (IF i = 2 THEN <<>> ELSE <<Punctuation>>)
         \o TextOf(args[i], Append(n, i)) \o TextOfPairs(args, n, i + 1)

\* what follows an item of the list: a comma, which is the token of the next
\* cell; the bracket, which is the token of []; or the tail
TextOfRest(t, n, list) ==
    CASE t.is = "cell" -> <<Lexeme(n, "solo", 1)>> \o TextOf(t.args[1], Append(n, 1))
                                                   \o TextOfRest(t.args[2], Append(n, 2), list)
      [] t.is = "nil"  -> <<Close(n, list)>>
      [] OTHER         -> <<Punctuation>> \o TextOf(t, n) \o <<Close(None, list)>>

TextOf(t, n) ==
    LET arg(i) == TextOf(t.args[i], Append(n, i)) IN
    CASE t.is = "atom"     -> <<Lexeme(n, "word", 2)>>
      [] t.is = "neg"      -> <<Lexeme(n, "symbol", 1), Lexeme(n, "word", 1)>>
      [] t.is = "compound" -> <<Lexeme(n, "word", 1), Lexeme(None, "joined", 1)>>
                              \o TextOfArgs(t.args, n, 1) \o <<Punctuation>>
      [] t.is = "prefix"   -> <<Lexeme(n, "symbol", 1)>> \o arg(1)
      [] t.is = "infix"    -> arg(1) \o <<Lexeme(n, "symbol", 2)>> \o arg(2)
      [] t.is = "postfix"  -> arg(1) \o <<Lexeme(n, "symbol", 1)>>
      [] t.is = "curly"    -> <<Lexeme(n, "solo", 1)>> \o arg(1) \o <<Punctuation>>
      [] t.is = "paren"    -> <<Lexeme(None, "joined", 2)>> \o TextOf(t.args[1], n) \o <<Punctuation>>
      [] t.is = "dict"     -> arg(1) \o <<Lexeme(n, "solo", 1)>>
                              \o TextOfPairs(t.args, n, 2) \o <<Punctuation>>
      [] t.is = "list"     -> <<Lexeme(n, "solo", 1)>> \o arg(1)
                              \o TextOfRest(t.args[2], Append(n, 2), n)

TextOfClause(c, k) ==
    TextOf(c.term, <<k, 1>>) \o (IF c.end THEN <<Lexeme(<<k>>, "end", 1)>> ELSE <<>>)

TextOfFile(clauses) == FlattenSeq([k \in 1..Len(clauses) |-> TextOfClause(clauses[k], k)])

(***************************************************************************)
(* Positions: `space` characters between neighbours where it is free.      *)
(***************************************************************************)
Gap(l, r, space) ==
    CASE r.class = "joined"                       -> 0
      [] l.class = "end"                          -> 1
      [] l.class = "symbol" /\ r.class = "end"    -> 1
      [] l.class = r.class /\ l.class # "solo"    -> 1
      [] OTHER                                    -> space

\* where each lexeme starts
Starts(lexemes, space) ==
    LET start[i \in 1..Len(lexemes)] ==
          IF i = 1 THEN 0
          ELSE start[i - 1] + lexemes[i - 1].length + Gap(lexemes[i - 1], lexemes[i], space)
    IN  start

(***************************************************************************)
(* The nodes: tokenToRange of the token, and of startToken and endToken as *)
(* the constructors set them.  S gives for each lexeme where it starts.    *)
(***************************************************************************)
LexemesOf(lexemes, n) == {i \in 1..Len(lexemes) : lexemes[i].node = n}
EndOf(lexemes, S, i)  == S[i] + lexemes[i].length

\* TwoTokenToOne: a negative number starts at its minus and has the length of both
TokenRange(lexemes, S, n) ==
    LET own == LexemesOf(lexemes, n)
        i   == CHOOSE j \in own : \A k \in own : j <= k
        length == IF own = {i} THEN lexemes[i].length ELSE lexemes[i].length + lexemes[i + 1].length
    IN  IF own = {} THEN None ELSE [start |-> S[i], end |-> S[i] + length]

RECURSIVE StartToken(_, _, _, _), EndToken(_, _, _, _, _), Nodes(_, _, _, _, _)

StartToken(t, n, lexemes, S) ==
    IF t.is \in {"infix", "postfix", "dict"}
    THEN StartToken(t.args[1], Append(n, 1), lexemes, S)
    ELSE IF t.is = "paren" THEN StartToken(t.args[1], n, lexemes, S)
    ELSE TokenRange(lexemes, S, n).start

\* the bracket read_list returned, for the list at n
Bracket(lexemes, S, n) ==
    EndOf(lexemes, S, CHOOSE i \in 1..Len(lexemes) : lexemes[i].closes = n)

\* refreshEndToken: a list hands its end down to the list that is its rest
Refreshed(t, n, lexemes, S, outer) ==
    IF outer # None THEN outer ELSE Bracket(lexemes, S, n)

EndToken(t, n, lexemes, S, outer) ==
    LET own == LexemesOf(lexemes, n)
        last == Len(t.args)
    IN  CASE t.is \in {"list", "cell"} -> Refreshed(t, n, lexemes, S, outer)
          [] t.is = "paren"            -> EndToken(t.args[1], n, lexemes, S, outer)
          [] t.is = "neg"              -> EndOf(lexemes, S, CHOOSE j \in own : \A k \in own : k <= j)
          [] t.is \in {"compound", "prefix", "infix", "curly", "dict"}
                                       -> EndToken(t.args[last], Append(n, last), lexemes, S, None)
          [] OTHER                     -> TokenRange(lexemes, S, n).end

TypeOf(t) ==
    CASE t.is \in {"atom", "neg", "nil"}                    -> "atomic"
      [] t.is \in {"compound", "curly", "list", "cell"}     -> "compound"
      [] OTHER                                              -> t.is

\* the nodes of a term, as records
Nodes(t, n, lexemes, S, outer) ==
    IF t.is = "paren" THEN Nodes(t.args[1], n, lexemes, S, outer)
    ELSE
    LET close == IF t.is \in {"list", "cell"} THEN Refreshed(t, n, lexemes, S, outer) ELSE None
        \* only the last argument of a list is refreshed with it
        down(i) == IF i = Len(t.args) /\ t.args[i].is \in {"list", "cell"} THEN close ELSE None
    IN  {[node  |-> n,
          type  |-> TypeOf(t),
          token |-> TokenRange(lexemes, S, n),
          range |-> [start |-> StartToken(t, n, lexemes, S),
                     end   |-> EndToken(t, n, lexemes, S, outer)],
          arity |-> Len(t.args)]}
        \cup UNION {Nodes(t.args[i], Append(n, i), lexemes, S, down(i)) : i \in 1..Len(t.args)}

\* clause.getRange: from the start of the term to the "." or the end of the term
ClauseNode(c, k, lexemes, S) ==
    LET token == TokenRange(lexemes, S, <<k>>) IN
    [node  |-> <<k>>,
     type  |-> "clause",
     token |-> token,
     range |-> [start |-> StartToken(c.term, <<k, 1>>, lexemes, S),
                end   |-> IF token # None THEN token.end
                          ELSE EndToken(c.term, <<k, 1>>, lexemes, S, None)],
     arity |-> 1]

\* the places a text may be broken into lines: between tokens, and in an atom
Breaks(lexemes, S) ==
    {EndOf(lexemes, S, i) : i \in {j \in 1..Len(lexemes) - 1 : EndOf(lexemes, S, j) < S[j + 1]}}
    \cup {S[i] : i \in {j \in 1..Len(lexemes) : lexemes[j].class = "word" /\ lexemes[j].length > 1}}

\* the parsed file, with line breaks after the positions in `breaks`
Parsed(clauses, lexemes, S, breaks) ==
    LET records == UNION {{ClauseNode(clauses[k], k, lexemes, S)}
                          \cup Nodes(clauses[k].term, <<k, 1>>, lexemes, S, None)
                              : k \in 1..Len(clauses)}
        nodes == {r.node : r \in records}
        of == [n \in nodes |-> CHOOSE r \in records : r.node = n]
        last == EndOf(lexemes, S, Len(lexemes)) + 1
    IN  [clauses |-> [k \in 1..Len(clauses) |-> <<k>>],
         type    |-> [n \in nodes |-> of[n].type],
         token   |-> [n \in nodes |-> of[n].token],
         range   |-> [n \in nodes |-> of[n].range],
         args    |-> [n \in nodes |-> [i \in 1..of[n].arity |-> Append(n, i)]],
         under   |-> [n \in nodes |-> {m \in nodes : IsPrefix(n, m)}],
         line    |-> [p \in 0..last |-> Cardinality({b \in breaks : b < p})]]

================================================================================
