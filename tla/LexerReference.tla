---------------------------- MODULE LexerReference ----------------------------
(***************************************************************************)
(* Which clauses a text has, said without tokens: a reader goes over the   *)
(* characters once, from left to right, and knows of each only what it is  *)
(* in the middle of.  A full stop in the middle of nothing ends a clause.  *)
(***************************************************************************)
EXTENDS Lexer

FullStop(i) == At(i) = "." /\ At(i + 1) \in Layout \cup {"%", "eof"}

(***************************************************************************)
(* A mode is what the reader is in the middle of, with the quote that ends *)
(* it.  "gap" is behind a blank in a number; "quote" behind a quote that   *)
(* may be the first of two; "zero" and "two" behind the first digit of a   *)
(* number.  "broken": no clause has such a text, or it is one of those     *)
(* that SWI-Prolog and this tokenizer do not read alike:                   *)
(*   - 0'', which is a whole code here, and digits before a quote (22'F)   *)
(*   - the codes 0'\u0041, 0'\U00000041, 0'\d and the like, which are none *)
(*     here: 0 is a number, and the quote begins a quoted atom that takes  *)
(*     a full stop in, or is reported as invalid                           *)
(*   - codes that have a \ behind their octal digits, or more than four    *)
(*     hexadecimal digits, and in quotes an octal or hexadecimal escape    *)
(*     that \ ends: here the \ begins something else                       *)
(*   - `codes`                                                             *)
(***************************************************************************)
In(what) == <<what, "none">>

Begins(i) ==
    CASE At(i) = "%"                                     -> In("line")
      [] Pair(i, "/", "*")                               -> In("opening")
      [] At(i) \in SymbolChar \ {"/"} /\ ~ FullStop(i)   -> In("symbol")
      [] At(i) = "/" /\ At(i + 1) # "*"                  -> In("symbol")
      [] At(i) \in {"'", "double"}                       -> <<"quoted", At(i)>>
      [] At(i) = "back"                                  -> In("broken")
      [] At(i) \in Letter                                -> In("name")
      [] At(i) = "0"                                     -> In("zero")
      [] At(i) = "2"                                     -> In("two")
      [] OTHER                                           -> In("between")

\* What the i-th character is read as if it does not begin anything.
GoesOn(m, i) ==
    LET c == At(i)
        q == m[2]
    IN  CASE m[1] = "line"    -> IF c = "nl" THEN In("between") ELSE m
          [] m[1] = "opening" -> In("block")
          [] m[1] = "block"   -> IF Pair(i, "*", "/") THEN In("closing") ELSE m
          [] m[1] = "closing" -> In("between")
          [] m[1] = "quoted"  -> CASE c = q    -> <<"quote", q>>
                                   [] c = "\\" -> <<"escape", q>>
                                   [] c = "nl" -> In("broken")
                                   [] OTHER    -> m
          [] m[1] = "escape"  -> IF c \in Digit \cup {"x"} THEN In("broken") ELSE <<"quoted", q>>
          [] m[1] = "quote" /\ c = q                   -> <<"quoted", q>>
          [] m[1] = "symbol" /\ c \in SymbolChar       -> m
          [] m[1] = "name" /\ c \in Alnum              -> m
          [] m[1] \in {"zero", "two", "digits", "gap"} /\ c \in Digit -> In("digits")
          [] m[1] \in {"zero", "two", "digits", "gap"} /\ c = "sp"    -> In("gap")
          [] m[1] = "digits" /\ c = "'"                -> In("broken")
          [] m[1] = "two" /\ c = "'" /\ At(i + 1) \in Digit -> In("radix")
          [] m[1] = "radix" /\ c \in Digit             -> m
          [] m[1] = "zero" /\ c = "'"                  -> In("code")
          [] m[1] = "zero" /\ c = "x" /\ At(i + 1) \in Hex -> In("hexadecimal")
          [] m[1] = "hexadecimal" /\ c \in Hex         -> m
          [] m[1] = "code"    -> CASE c = "\\"         -> In("codeEscape")
                                   [] c \in {"'", "nl"} -> In("broken")
                                   [] OTHER            -> In("between")
          [] m[1] = "codeEscape" -> CASE c \in Escaped -> In("between")
                                      [] c = "x" /\ At(i + 1) \in Hex -> In("hex")
                                      [] c \in Digit   -> In("octal")
                                      [] OTHER         -> In("broken")
          [] m[1] = "hex" /\ c \in Hex                 -> IF At(i - 5) = "x" THEN In("broken") ELSE m
          [] m[1] = "hex" /\ c = "\\"                  -> In("between")
          [] m[1] = "octal" /\ c \in Digit             -> m
          [] m[1] = "octal" /\ c = "\\"                -> In("broken")
          [] m[1] = "broken"                           -> m
          [] OTHER                                     -> Begins(i)

\* What the reader is in the middle of before each character, and at the end.
Mode ==
    LET mode[i \in 1..End] == IF i = 1 THEN In("between") ELSE GoesOn(mode[i - 1], i - 1)
    IN  mode

Free   == {"between", "quote", "name", "zero", "two", "digits", "gap", "radix", "octal", "hex",
           "hexadecimal"}
Remark == {"line", "opening", "block", "closing"}

WellFormed(mode) == mode[End][1] \in Free \cup {"symbol", "line"}

Stops(mode)   == {i \in 1..Len(text) : FullStop(i) /\ mode[i][1] \in Free}
Invalid(mode) == {i \in 1..Len(text) : At(i) = "other" /\ mode[i][1] \in Free \cup {"symbol"}}
Comments(mode) ==
    {i \in 1..Len(text) : mode[i][1] \in Remark \/ mode[i + 1][1] \in {"line", "opening"}}

\* The characters of the terms, without blanks.
Words(mode) ==
    {i \in 1..Len(text) : At(i) \notin Layout} \ (Stops(mode) \cup Invalid(mode) \cup Comments(mode))

\* What stands between the full stop before e and e.
Before(mode, e) == {i \in Words(mode) : i < e /\ \A s \in Stops(mode) : s < e => s < i}

(***************************************************************************)
(* Up to where parse reads: a full stop with no term before it is taken    *)
(* for the end of the text, whatever follows.                              *)
(***************************************************************************)
IsRead(mode, i) == \A s \in Stops(mode) : s < i => Before(mode, s) # {}

Ends(mode) == {e \in Stops(mode) \cup {End} : IsRead(mode, e) /\ Before(mode, e) # {}}

ClausesOf(mode) == {<<Before(mode, e), e>> : e \in Ends(mode)}

\* The characters of a list of tokens, without blanks.
CharactersOf(list) ==
    {i \in UNION {list[k].from .. list[k].to - 1 : k \in DOMAIN list} : At(i) \notin Layout}

\* Where a clause ends.
EndOf(clause) == IF clause.end = None THEN End ELSE clause.end

--------------------------------------------------------------------------------
(* The clauses parse gets are the clauses of the text up to the first full     *)
(* stop of its own, in their order, each with its whole text and its own full  *)
(* stop: no quote, comment, character code or symbol atom makes a clause run   *)
(* into the next one or end too soon (the rules of lexer-by-moo.ts, getTokens, *)
(* Parser.next and Parser.parse).  Said of the texts that are not "broken": a  *)
(* text with 0'\u0041, for one, may well be cut elsewhere (line 33).           *)
ClausesAreTheText ==
    parsed => LET mode == Mode
              IN  WellFormed(mode) =>
                    /\ {<<CharactersOf(clauses[k].tokens), EndOf(clauses[k])>> : k \in DOMAIN clauses}
                         = ClausesOf(mode)
                    /\ \A k, l \in DOMAIN clauses : k < l => EndOf(clauses[k]) < EndOf(clauses[l])

(* A character is reported as an invalid token if and only if it is one, where *)
(* parse reads: not in a quoted atom, a string, a comment or a character code  *)
(* (the rule error, getTokens and Parser.next).  Said of the texts that are    *)
(* not "broken": the quote of 0'\u0041 may be reported (line 33).              *)
InvalidIsReported ==
    parsed => LET mode == Mode
              IN  WellFormed(mode) => reported = {i \in Invalid(mode) : IsRead(mode, i)}

================================================================================
