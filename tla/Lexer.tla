--------------------------------- MODULE Lexer ---------------------------------
(***************************************************************************)
(* From the text of a file to its clauses: the rules of the tokenizer      *)
(* (lexer-by-moo.ts), the loop that gathers the tokens of one clause       *)
(* (getTokens), and Parser.next and Parser.parse, which ask for one clause *)
(* after the other (parser-on-moo.ts).  Reading a list of tokens as a term *)
(* is in Parser; here is which tokens the lists have.                      *)
(*                                                                         *)
(* A text is a sequence of characters, of which only matters what the      *)
(* rules tell apart:                                                       *)
(*   "sp", "nl"  blanks and line ends                                      *)
(*   "a"         a c e f: a code may have them behind 0'\, and a           *)
(*               hexadecimal number has them                               *)
(*   "n"         n r s t v: a code may have them behind 0'\                *)
(*   "d"         d and A to F: a hexadecimal number has them               *)
(*   "x"         x, of 0'\x41 and 0x41                                     *)
(*   "u"         other letters                                             *)
(*   "0", "2"    zero, and 2 to 7                                          *)
(*   ","         the characters that are tokens: ) , ; ! [ ] { } |         *)
(*   "("         one of these too, and with the layout before it another   *)
(*   "+"         a symbol character other than . / * and \                 *)
(*   "double"    the double quote                                          *)
(*   "back"      the backquote                                             *)
(*   "other"     a character of no rule but the last                       *)
(* Left out are b, o and _ (of the numbers 0b1, 0o7 and 1_000), and 1, 8   *)
(* and 9, which are digits that are not octal or begin no radix.           *)
(***************************************************************************)
EXTENDS Integers, Sequences, FiniteSets

CONSTANTS
    Texts,   \* the texts a file may have
    None     \* no end

Layout     == {"sp", "nl"}
SymbolChar == {".", "/", "*", "\\", "+"}
Digit      == {"0", "2"}
Hex        == Digit \cup {"a", "d"}
Letter     == {"a", "n", "d", "x", "u"}
Alnum      == Digit \cup Letter
Solo       == {"(", ","}
Quote      == {"'", "double", "back"}
Character  == Layout \cup SymbolChar \cup Alnum \cup Solo \cup Quote \cup {"%", "other"}

\* [abcefnrstv\\'"`\r\n]: what may be escaped in a character code
Escaped == Quote \cup {"a", "n", "\\", "nl"}

ASSUME TextsAssumption == Texts \subseteq Seq(Character)
ASSUME NoneAssumption == None \notin Nat

VARIABLES
    text,     \* the text of the file
    index,    \* where the tokenizer is
    tokens,   \* the tokens of the clause that is being gathered
    errors,   \* where no rule fits, in that clause
    clauses,  \* the token lists of the clauses parse has got
    reported, \* where an invalid token was reported
    parsed    \* parse has returned

vars == <<text, index, tokens, errors, clauses, reported, parsed>>

--------------------------------------------------------------------------------
(* The rules of the tokenizer.  Each gives where its match at i ends; that is  *)
(* i if it does not match, as no rule matches nothing.                         *)

End   == Len(text) + 1
At(i) == IF i \in 1..Len(text) THEN text[i] ELSE "eof"

First(S) == CHOOSE j \in S : \A k \in S : j <= k

\* the run of characters of a set
EndOfRun(set, i) == First({j \in i..End : At(j) \notin set})

\* the text goes on with two characters
Pair(i, c, d) == At(i) = c /\ At(i + 1) = d

\* a mistake easily made: the full stop before a comment is forgotten
EndBeforeLayout(i) == IF At(i) = "." /\ At(i + 1) \in Layout \cup {"eof"} THEN i + 1 ELSE i

\* \.(?=\t|\n|\r|$(?![\r\n])|%| )
end(i) == IF At(i) = "." /\ At(i + 1) \in Layout \cup {"%", "eof"} THEN i + 1 ELSE i

\* \s+\(
open(i) ==
    LET j == EndOfRun(Layout, i)
    IN  IF j # i /\ At(j) = "(" THEN j + 1 ELSE i

\* \s+
ws(i) == EndOfRun(Layout, i)

\* \%.*?$
line_comment(i) == IF At(i) = "%" THEN EndOfRun(Character \ {"nl"}, i) ELSE i

\* \/\*[\s\S]*?\*\/
block_comment(i) ==
    LET closings == {j \in i + 2..End : Pair(j, "*", "/")}
    IN  IF Pair(i, "/", "*") /\ closings # {} THEN First(closings) + 2 ELSE i

\* the atoms and brackets of one character
solo(i) == IF At(i) \in Solo THEN i + 1 ELSE i

(***************************************************************************)
(* "(?:""|\\(?:.|\n)|(?!").)*" and the same with the other quotes.  A      *)
(* regular expression takes the first alternative that leads to a match: a *)
(* doubled quote, an escape, one more character, and the end only if none  *)
(* does.  What "one more character" may not be is the quote, but for the   *)
(* rule of `, which has " there.                                           *)
(***************************************************************************)
Barred(q) == IF q = "back" THEN "double" ELSE q

Closing(q, i) ==
    LET closing[j \in i..End + 1] ==
            LET ways == << <<Pair(j, q, q), j + 2>>,
                           <<At(j) = "\\" /\ At(j + 1) # "eof", j + 2>>,
                           <<At(j) \notin {Barred(q), "nl", "eof"}, j + 1>> >>
                fits == {k \in DOMAIN ways : ways[k][1] /\ closing[ways[k][2]] # None}
            IN  IF fits # {} THEN closing[ways[First(fits)][2]]
                ELSE IF At(j) = q THEN j
                ELSE None
    IN  closing[i]

\* a mistake easily made: the quotes are paired without a look at what is between
NextQuote(q, i) ==
    LET quotes == {j \in i + 1..End : At(j) = q}
    IN  IF At(i) = q /\ quotes # {} THEN First(quotes) + 1 ELSE i

quoted(q, i) ==
    IF At(i) = q /\ Closing(q, i + 1) \in i + 1..Len(text) THEN Closing(q, i + 1) + 1 ELSE i

\* [a-z][_0-9a-zA-Z]* and [_A-Z][_0-9a-zA-Z]*
name(i) == IF At(i) \in Letter THEN EndOfRun(Alnum, i) ELSE i

\* [#$&*+\-./:<=>?@^~\\]+
symbol(i) == EndOfRun(SymbolChar, i)

\* x[0-9A-Fa-f]{1,4}\\?
hexEscape(i) ==
    LET run == EndOfRun(Hex, i + 1)
        j   == IF run <= i + 5 THEN run ELSE i + 5
    IN  IF At(j) = "\\" THEN j + 1 ELSE j

(***************************************************************************)
(* 0' and a character that is not \, or 0'\ and an escape: one character,  *)
(* a hexadecimal or an octal number.  \u and \U are none: the [ that the   *)
(* rule has behind them is escaped, so that it fits no number but only the *)
(* texts 0'\u[0-9A-Fa-f]]]] and 0'\U[0-9A-Fa-f]]]]]]]] (left out here).    *)
(***************************************************************************)
code(i) ==
    IF ~ Pair(i, "0", "'") THEN i
    ELSE IF At(i + 2) \notin {"\\", "nl", "eof"} THEN i + 3
    ELSE IF At(i + 2) # "\\" THEN i
    ELSE IF At(i + 3) \in Escaped THEN i + 4
    ELSE IF At(i + 3) = "x" /\ At(i + 4) \in Hex THEN hexEscape(i + 3)
    ELSE IF At(i + 3) \in Digit THEN EndOfRun(Digit, i + 3)
    ELSE i

\* 0x[0-9A-Fa-f]+
hexadecimal(i) == IF Pair(i, "0", "x") /\ At(i + 2) \in Hex THEN EndOfRun(Hex, i + 2) ELSE i

\* [2-9]'[0-9]+
radix(i) == IF Pair(i, "2", "'") /\ At(i + 2) \in Digit THEN EndOfRun(Digit, i + 2) ELSE i

\* [0-9](?:[0-9_ ]*[0-9])?
digits(i) ==
    LET run == EndOfRun(Digit \cup {"sp"}, i)
    IN  IF At(i) \in Digit
        THEN First({j \in i..run : \A k \in j..run - 1 : At(k) \notin Digit})
        ELSE i

\* .
error(i) == IF At(i) \notin {"nl", "eof"} THEN i + 1 ELSE i

--------------------------------------------------------------------------------
(* One regular expression is compiled from all the rules, which are tried in    *)
(* the order of the file.                                                       *)

Rules(i) ==
    << <<"end", end(i)>>, <<"open", open(i)>>, <<"ws", ws(i)>>,
       <<"line_comment", line_comment(i)>>, <<"block_comment", block_comment(i)>>,
       <<"solo", solo(i)>>, <<"string", quoted("double", i)>>, <<"string", quoted("back", i)>>,
       <<"integer", code(i)>>, <<"integer", hexadecimal(i)>>, <<"integer", radix(i)>>,
       <<"integer", digits(i)>>,
       <<"atom", name(i)>>, <<"atom", symbol(i)>>, <<"atom", quoted("'", i)>>,
       <<"error", error(i)>> >>

FirstFit(i, rules) ==
    LET fits == {k \in DOMAIN rules : rules[k][2] > i}
    IN  {[type |-> rules[k][1], from |-> i, to |-> rules[k][2]] :
            k \in {k \in fits : \A l \in fits : k <= l}}

\* the token that comes next, if any (the rules are bound to be evaluated once)
Tokens(i) == UNION {FirstFit(i, rules) : rules \in {Rules(i)}}

\* the loop of getTokens goes on behind layout and comments
skip(t) ==
    /\ t.type \in {"ws", "line_comment", "block_comment"}
    /\ index' = t.to
    /\ UNCHANGED <<text, tokens, errors, clauses, reported, parsed>>

\* a character of no rule is kept apart
invalid(t) ==
    /\ t.type = "error"
    /\ index' = t.to
    /\ errors' = errors \cup {t.from}
    /\ UNCHANGED <<text, tokens, clauses, reported, parsed>>

gather(t) ==
    /\ t.type \in {"open", "solo", "string", "integer", "atom"}
    /\ index' = t.to
    /\ tokens' = Append(tokens, t)
    /\ UNCHANGED <<text, errors, clauses, reported, parsed>>

\* a mistake easily made: the list of tokens is used again for the next clause
nextWithoutReset(endToken) ==
    /\ reported' = reported \cup errors
    /\ errors' = {}
    /\ IF tokens = <<>> \/ index = End
       THEN parsed' = TRUE /\ UNCHANGED clauses
       ELSE clauses' = Append(clauses, [tokens |-> tokens, end |-> endToken]) /\ UNCHANGED parsed
    /\ UNCHANGED <<text, tokens>>

(***************************************************************************)
(* Parser.next, when getTokens returns: the invalid tokens are reported,   *)
(* and without tokens there is no clause, which ends the loop of parse,    *)
(* be it at the end of the text or at a full stop of its own.              *)
(***************************************************************************)
next(endToken) ==
    /\ reported' = reported \cup errors
    /\ errors' = {}
    /\ tokens' = <<>>
    /\ IF tokens = <<>>
       THEN parsed' = TRUE /\ UNCHANGED clauses
       ELSE clauses' = Append(clauses, [tokens |-> tokens, end |-> endToken]) /\ UNCHANGED parsed
    /\ UNCHANGED text

nextAtEnd(t) ==
    /\ t.type = "end"
    /\ next(t.from)
    /\ index' = t.to

nextAtEndOfText ==
    /\ index = End
    /\ next(None)
    /\ UNCHANGED index

Init ==
    /\ text \in Texts
    /\ index = 1
    /\ tokens = <<>>
    /\ errors = {}
    /\ clauses = <<>>
    /\ reported = {}
    /\ parsed = FALSE

returned == parsed /\ UNCHANGED vars

Next ==
    \/ /\ ~ parsed
       /\ \/ \E t \in Tokens(index) : skip(t) \/ invalid(t) \/ gather(t) \/ nextAtEnd(t)
          \/ nextAtEndOfText
    \/ returned

Spec == Init /\ [][Next]_vars

--------------------------------------------------------------------------------
TokenTypes == {"end", "open", "ws", "line_comment", "block_comment", "solo", "string",
               "integer", "atom", "error"}

TokenType == [type : TokenTypes, from : 1..Len(text), to : 2..End]

ClauseType == [tokens : Seq(TokenType), end : (1..Len(text)) \cup {None}]

TypeOK ==
    /\ text \in Seq(Character)
    /\ index \in 1..End
    /\ tokens \in Seq(TokenType)
    /\ errors \subseteq 1..Len(text)
    /\ clauses \in Seq(ClauseType)
    /\ reported \subseteq 1..Len(text)
    /\ parsed \in BOOLEAN

Behind(list, i) == \A k \in DOMAIN list : list[k].from >= i
UpTo(list, i)   == \A k \in DOMAIN list : list[k].to <= i

InARow(list) == \A k, l \in DOMAIN list : k < l => list[k].to <= list[l].from

(* The tokens of a clause follow one another in the text, and a full stop lies *)
(* between the tokens of a clause and those of every later one (getTokens and  *)
(* Parser.next).  The search for the node at a position counts on it.          *)
ClausesAreInOrder ==
    /\ \A k \in DOMAIN clauses : InARow(clauses[k].tokens)
    /\ \A k, l \in DOMAIN clauses :
          k < l => /\ clauses[k].end # None
                   /\ UpTo(clauses[k].tokens, clauses[k].end)
                   /\ Behind(clauses[l].tokens, clauses[k].end + 1)

================================================================================
