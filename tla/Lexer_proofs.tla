------------------------------ MODULE Lexer_proofs ------------------------------
(***************************************************************************)
(* Proofs about Lexer, for all texts.  Every rule ends behind the place    *)
(* where it begins and not behind the text, whatever the characters; from  *)
(* that the tokens of the clauses are in order, and no character is        *)
(* without a rule.  Then that the clauses are those of the reader of       *)
(* LexerReference, who knows no tokens: the rules are gone through one by  *)
(* one, each with what the reader is in the middle of behind it.           *)
(***************************************************************************)
EXTENDS LexerReference, WellFoundedInduction, TLAPS

LEMMA FirstIsLeast ==
    ASSUME NEW S, S \subseteq Nat, S # {}
    PROVE  First(S) \in S /\ \A k \in S : First(S) <= k
<1> DEFINE Below == OpToRel(<, Nat)
<1>0. IsWellFoundedOn(Below, Nat)
  BY NatLessThanWellFounded
<1>1. PICK j \in S : \A k \in S : ~ (<<k, j>> \in Below)
  <2> HIDE DEF Below
  <2> QED
    BY <1>0, WFMin
<1>2. ASSUME NEW k \in S  PROVE j <= k
  <2>1. ~ (<<k, j>> \in {ss \in Nat \X Nat : ss[1] < ss[2]})
    BY <1>1, Zenon DEF OpToRel
  <2>2. k \in Nat /\ j \in Nat
    OBVIOUS
  <2> HIDE DEF Below
  <2> QED
    BY <2>1, <2>2
<1> QED
  BY <1>2 DEF First

\* A text and a place in it or at its end.
IsPlace(i) == text \in Seq(Character) /\ i \in 1..End

LEMMA PlacesOfCharacters ==
    ASSUME text \in Seq(Character)
    PROVE  /\ Len(text) \in Nat
           /\ "eof" \notin Character
           /\ \A j \in Int : At(j) # "eof" <=> j \in 1..Len(text)
           /\ \A j \in 1..Len(text) : At(j) \in Character
<1>1. "eof" \notin Character
  BY DEF Character, Layout, SymbolChar, Alnum, Letter, Digit, Solo, Quote
<1> QED
  BY <1>1 DEF At, End

\* A run ends before the first character that is not of its set.
LEMMA RunsEnd ==
    ASSUME NEW i, IsPlace(i), NEW set, "eof" \notin set
    PROVE  /\ EndOfRun(set, i) \in i..End
           /\ At(EndOfRun(set, i)) \notin set
           /\ \A k \in i..EndOfRun(set, i) - 1 : At(k) \in set
           /\ At(i) \in set => EndOfRun(set, i) \in i + 1..End
<1> DEFINE outside == {j \in i..End : At(j) \notin set}
           r       == EndOfRun(set, i)
<1>1. At(End) = "eof"
  BY PlacesOfCharacters DEF IsPlace, End
<1>2. i \in Nat /\ End \in Nat /\ End \in outside /\ outside \subseteq Nat
  BY <1>1, PlacesOfCharacters DEF IsPlace, End
<1>3. r \in outside /\ \A k \in outside : r <= k
  <2>1. First(outside) \in outside /\ \A k \in outside : First(outside) <= k
    <3> HIDE DEF outside
    <3> QED
      BY <1>2, FirstIsLeast
  <2> QED
    BY <2>1 DEF EndOfRun
<1> HIDE DEF r
<1>4. ASSUME NEW k \in i..r - 1  PROVE At(k) \in set
  <2>1. k \in i..End /\ ~ r <= k
    BY <1>2, <1>3
  <2> QED
    BY <1>3, <2>1
<1>5. At(i) \in set => r \in i + 1..End
  BY <1>2, <1>3
<1> QED
  BY <1>3, <1>4, <1>5 DEF r

(* Each rule ends behind its beginning, or there if it does not match, and not *)
(* behind the text.                                                            *)

LEMMA EndOfClauseRule ==
    ASSUME NEW i, IsPlace(i)  PROVE  end(i) \in i..End
  BY PlacesOfCharacters DEF end, IsPlace, End

LEMMA LayoutRules ==
    ASSUME NEW i, IsPlace(i)
    PROVE  open(i) \in i..End /\ ws(i) \in i..End
<1>1. "eof" \notin Layout
  BY DEF Layout
<1>2. /\ EndOfRun(Layout, i) \in i..End
      /\ At(EndOfRun(Layout, i)) \notin Layout
  BY <1>1, RunsEnd
<1> QED
  BY <1>2, PlacesOfCharacters DEF open, ws, IsPlace, End

LEMMA CommentRules ==
    ASSUME NEW i, IsPlace(i)
    PROVE  line_comment(i) \in i..End /\ block_comment(i) \in i..End
<1>1. line_comment(i) \in i..End
  BY RunsEnd, PlacesOfCharacters DEF line_comment, IsPlace, End
<1>2. block_comment(i) \in i..End
  <2> DEFINE closings == {j \in i + 2..End : Pair(j, "*", "/")}
  <2>1. closings \subseteq Nat
    BY DEF IsPlace, End
  <2>2. CASE closings = {}
    BY <2>2 DEF block_comment, IsPlace, End
  <2>3. CASE closings # {}
    <3>1. First(closings) \in closings
      BY <2>1, <2>3, FirstIsLeast
    <3>2. First(closings) + 2 \in i..End
      BY <3>1, PlacesOfCharacters DEF Pair, IsPlace, End
    <3> QED
      BY <3>2, PlacesOfCharacters DEF block_comment, IsPlace, End
  <2> QED
    BY <2>2, <2>3
<1> QED
  BY <1>1, <1>2

LEMMA SoloRules ==
    ASSUME NEW i, IsPlace(i)
    PROVE  /\ solo(i) \in i..End
           /\ error(i) \in i..End
           /\ i \in 1..Len(text) => error(i) > i \/ ws(i) > i
<1>1. "eof" \notin Solo /\ "eof" \notin Layout
  BY DEF Solo, Layout
<1>2. solo(i) \in i..End /\ error(i) \in i..End
  BY <1>1, PlacesOfCharacters DEF solo, error, IsPlace, End
<1>3. At(i) = "nl" => ws(i) > i
  <2>1. At(i) \in Layout => EndOfRun(Layout, i) \in i + 1..End
    BY <1>1, RunsEnd
  <2>2. i \in Nat
    BY DEF IsPlace
  <2> QED
    BY <2>1, <2>2 DEF ws, Layout
<1>4. i \in 1..Len(text) => error(i) > i \/ ws(i) > i
  BY <1>3, PlacesOfCharacters DEF error, IsPlace, End
<1> QED
  BY <1>2, <1>4

LEMMA QuotedRule ==
    ASSUME NEW i, IsPlace(i), NEW q  PROVE  quoted(q, i) \in i..End
  BY PlacesOfCharacters DEF quoted, IsPlace, End

LEMMA NumberRules ==
    ASSUME NEW i, IsPlace(i)
    PROVE  /\ code(i) \in i..End /\ radix(i) \in i..End /\ digits(i) \in i..End
           /\ hexadecimal(i) \in i..End
<1>1. /\ "eof" \notin Digit /\ "eof" \notin Digit \cup {"sp"} /\ "eof" \notin Escaped
      /\ "eof" \notin Hex
  BY DEF Digit, Hex, Escaped, Quote
<1>2. \A j \in i..End : EndOfRun(Digit, j) \in j..End /\ EndOfRun(Hex, j) \in j..End
  <2>1. \A j \in i..End : IsPlace(j)
    BY PlacesOfCharacters DEF IsPlace, End
  <2> QED
    BY <1>1, <2>1, RunsEnd
<1>3. code(i) \in i..End
  <2>0. Len(text) \in Nat /\ End = Len(text) + 1 /\ i \in 1..End
    BY PlacesOfCharacters DEF IsPlace, End
  <2>1. \A j \in i..End : At(j) # "eof" => j + 1 \in i..End
    BY <2>0, PlacesOfCharacters DEF IsPlace
  <2>2. CASE ~ Pair(i, "0", "'")
    BY <2>0, <2>2 DEF code
  <2>3. CASE Pair(i, "0", "'")
    <3>1. i + 2 \in i..End
      BY <2>0, <2>3, PlacesOfCharacters DEF Pair, IsPlace
    <3>2. At(i + 2) # "eof" => i + 3 \in i..End
      BY <2>0, <2>1, <3>1
    <3>3. CASE At(i + 2) \notin {"\\", "nl", "eof"}
      BY <2>3, <3>2, <3>3 DEF code
    <3>4. CASE At(i + 2) \in {"nl", "eof"}
      BY <2>0, <2>3, <3>4 DEF code
    <3>5. CASE At(i + 2) = "\\"
      <4>1. i + 3 \in i..End /\ (At(i + 3) # "eof" => i + 4 \in i..End)
        BY <2>0, <2>1, <3>2, <3>5
      <4>2. code(i) = IF At(i + 3) \in Escaped THEN i + 4
                      ELSE IF At(i + 3) = "x" /\ At(i + 4) \in Hex THEN hexEscape(i + 3)
                      ELSE IF At(i + 3) \in Digit THEN EndOfRun(Digit, i + 3)
                      ELSE i
        BY <2>3, <3>5 DEF code
      <4>3. EndOfRun(Digit, i + 3) \in i + 3..End
        BY <1>2, <4>1
      <4>4. EndOfRun(Digit, i + 3) \in i..End
        BY <2>0, <4>3
      <4>5. At(i + 3) = "x" => hexEscape(i + 3) \in i..End
        <5> SUFFICES ASSUME At(i + 3) = "x"  PROVE hexEscape(i + 3) \in i..End
          OBVIOUS
        <5>1. i + 4 \in i..End /\ i + 3 + 1 = i + 4 /\ i + 3 + 5 = i + 8
          BY <2>0, <4>1
        <5>2. PICK run \in i + 4..End : run = EndOfRun(Hex, i + 3 + 1)
          BY <1>2, <5>1
        <5>3. PICK j \in i + 4..End : hexEscape(i + 3) = IF At(j) = "\\" THEN j + 1 ELSE j
          <6>1. CASE run <= i + 3 + 5
            BY <5>2, <6>1 DEF hexEscape
          <6>2. CASE ~ run <= i + 3 + 5
            <7>1. i + 3 + 5 \in i + 4..End
              BY <2>0, <6>2
            <7> QED
              BY <5>2, <6>2, <7>1 DEF hexEscape
          <6> QED
            BY <6>1, <6>2
        <5>4. j \in i..End
          BY <2>0
        <5> QED
          BY <2>1, <5>3, <5>4
      <4>6. i \in i..End
        BY <2>0
      <4>7. At(i + 3) \in Escaped => i + 4 \in i..End
        BY <1>1, <4>1
      <4> HIDE DEF hexEscape
      <4> QED
        BY <4>2, <4>4, <4>5, <4>6, <4>7
    <3> QED
      BY <3>3, <3>4, <3>5
  <2> QED
    BY <2>2, <2>3
<1>4. radix(i) \in i..End
  <2>1. CASE Pair(i, "2", "'") /\ At(i + 2) \in Digit
    <3>1. At(i) # "eof" /\ At(i + 1) # "eof"
      BY <2>1 DEF Pair
    <3>2. i \in Nat /\ End = Len(text) + 1 /\ Len(text) \in Nat /\ i + 2 \in i..End
      BY <3>1, PlacesOfCharacters DEF IsPlace, End
    <3>3. PICK r \in i + 2..End : r = EndOfRun(Digit, i + 2)
      BY <1>2, <3>2
    <3>4. radix(i) = EndOfRun(Digit, i + 2) /\ r \in i..End
      BY <2>1, <3>2 DEF radix
    <3> QED
      BY <3>3, <3>4
  <2>2. CASE ~ (Pair(i, "2", "'") /\ At(i + 2) \in Digit)
    BY <2>2, PlacesOfCharacters DEF radix, IsPlace, End
  <2> QED
    BY <2>1, <2>2
<1>5. digits(i) \in i..End
  <2> DEFINE run  == EndOfRun(Digit \cup {"sp"}, i)
             rest == {j \in i..run : \A k \in j..run - 1 : At(k) \notin Digit}
  <2>1. run \in i..End
    BY <1>1, RunsEnd
  <2>2. run \in rest /\ rest \subseteq Nat
    <3> HIDE DEF run
    <3>1. run \in i..run /\ i \in Nat
      BY <2>1, PlacesOfCharacters DEF IsPlace, End
    <3>2. run..run - 1 = {}
      BY <3>1
    <3> QED
      BY <3>1, <3>2
  <2>3. First(rest) \in rest
    BY <2>2, FirstIsLeast
  <2>4. First(rest) \in i..End
    BY <2>1, <2>3, PlacesOfCharacters DEF IsPlace, End
  <2> QED
    BY <2>4, PlacesOfCharacters DEF digits, IsPlace, End
<1>6. hexadecimal(i) \in i..End
  <2>1. CASE Pair(i, "0", "x") /\ At(i + 2) \in Hex
    <3>1. At(i) # "eof" /\ At(i + 1) # "eof"
      BY <2>1 DEF Pair
    <3>2. i \in Nat /\ End = Len(text) + 1 /\ Len(text) \in Nat /\ i + 2 \in i..End
      BY <3>1, PlacesOfCharacters DEF IsPlace, End
    <3>3. EndOfRun(Hex, i + 2) \in i + 2..End
      BY <1>2, <3>2
    <3>4. hexadecimal(i) = EndOfRun(Hex, i + 2)
      BY <2>1 DEF hexadecimal
    <3>5. PICK r \in i + 2..End : r = EndOfRun(Hex, i + 2)
      BY <3>3
    <3>6. r \in i..End
      BY <3>2, <3>5
    <3> QED
      BY <3>4, <3>5, <3>6
  <2>2. CASE ~ (Pair(i, "0", "x") /\ At(i + 2) \in Hex)
    BY <2>2, PlacesOfCharacters DEF hexadecimal, IsPlace, End
  <2> QED
    BY <2>1, <2>2
<1> QED
  BY <1>3, <1>4, <1>5, <1>6

LEMMA NameRules ==
    ASSUME NEW i, IsPlace(i)
    PROVE  name(i) \in i..End /\ symbol(i) \in i..End
<1>1. "eof" \notin Alnum /\ "eof" \notin SymbolChar
  BY DEF Alnum, Letter, Digit, SymbolChar
<1>2. EndOfRun(Alnum, i) \in i..End /\ EndOfRun(SymbolChar, i) \in i..End
  BY <1>1, RunsEnd
<1> QED
  BY <1>2, PlacesOfCharacters DEF name, symbol, IsPlace, End

LEMMA ListOfSixteen ==
    ASSUME NEW P,
           NEW a \in P, NEW b \in P, NEW c \in P, NEW d \in P, NEW e \in P,
           NEW f \in P, NEW g \in P, NEW h \in P, NEW j \in P, NEW k \in P,
           NEW l \in P, NEW m \in P, NEW n \in P, NEW o \in P, NEW p \in P,
           NEW q \in P
    PROVE  LET list == <<a, b, c, d, e, f, g, h, j, k, l, m, n, o, p, q>>
           IN  DOMAIN list = 1..16 /\ \A x \in 1..16 : list[x] \in P
  OBVIOUS

LEMMA RulesEnd ==
    ASSUME NEW i, IsPlace(i)
    PROVE  /\ DOMAIN Rules(i) = 1..16
           /\ \A k \in 1..16 : Rules(i)[k][1] \in TokenTypes /\ Rules(i)[k][2] \in i..End
           /\ Rules(i)[3][2] = ws(i) /\ Rules(i)[16][2] = error(i)
<1>1. end(i) \in i..End
  BY EndOfClauseRule
<1>2. open(i) \in i..End /\ ws(i) \in i..End
  BY LayoutRules
<1>3. line_comment(i) \in i..End /\ block_comment(i) \in i..End
  BY CommentRules
<1>4. solo(i) \in i..End /\ error(i) \in i..End
  BY SoloRules
<1>5. quoted("double", i) \in i..End /\ quoted("back", i) \in i..End /\ quoted("'", i) \in i..End
  BY QuotedRule
<1>6. code(i) \in i..End /\ radix(i) \in i..End /\ digits(i) \in i..End
      /\ hexadecimal(i) \in i..End
  BY NumberRules
<1>7. name(i) \in i..End /\ symbol(i) \in i..End
  BY NameRules
<1> DEFINE Fit == TokenTypes \X (i..End)
<1>8. /\ <<"end", end(i)>> \in Fit /\ <<"open", open(i)>> \in Fit
      /\ <<"ws", ws(i)>> \in Fit
      /\ <<"line_comment", line_comment(i)>> \in Fit
      /\ <<"block_comment", block_comment(i)>> \in Fit
      /\ <<"solo", solo(i)>> \in Fit /\ <<"error", error(i)>> \in Fit
      /\ <<"string", quoted("double", i)>> \in Fit /\ <<"string", quoted("back", i)>> \in Fit
      /\ <<"integer", code(i)>> \in Fit /\ <<"integer", radix(i)>> \in Fit
      /\ <<"integer", digits(i)>> \in Fit /\ <<"integer", hexadecimal(i)>> \in Fit
      /\ <<"atom", name(i)>> \in Fit /\ <<"atom", symbol(i)>> \in Fit
      /\ <<"atom", quoted("'", i)>> \in Fit
  BY <1>1, <1>2, <1>3, <1>4, <1>5, <1>6, <1>7 DEF TokenTypes
<1>9. DOMAIN Rules(i) = 1..16 /\ \A k \in 1..16 : Rules(i)[k] \in Fit
  <2> HIDE DEF Fit
  <2> QED
    BY <1>8, ListOfSixteen DEF Rules
<1>10. Rules(i)[3] = <<"ws", ws(i)>> /\ Rules(i)[16] = <<"error", error(i)>>
  BY DEF Rules
<1>11. \A k \in 1..16 : Rules(i)[k][1] \in TokenTypes /\ Rules(i)[k][2] \in i..End
  BY <1>9
<1> QED
  BY <1>9, <1>10, <1>11

LEMMA TokensAreTyped ==
    ASSUME NEW i, IsPlace(i), NEW t \in Tokens(i)
    PROVE  t \in TokenType /\ t.from = i /\ t.to \in i + 1..End /\ i \in 1..Len(text)
<1>1. PICK k \in 1..16 : /\ Rules(i)[k][2] > i
                         /\ t = [type |-> Rules(i)[k][1], from |-> i, to |-> Rules(i)[k][2]]
  BY RulesEnd DEF Tokens, FirstFit
<1>2. Rules(i)[k][1] \in TokenTypes /\ Rules(i)[k][2] \in i..End
  BY RulesEnd
<1>3. /\ i \in Nat \ {0} /\ Len(text) \in Nat /\ End = Len(text) + 1
      /\ Rules(i)[k][2] > i
  BY <1>1, PlacesOfCharacters DEF IsPlace, End
<1>4. Rules(i)[k][2] \in 2..End /\ Rules(i)[k][2] \in i + 1..End /\ i \in 1..Len(text)
  BY <1>2, <1>3
<1> QED
  BY <1>1, <1>2, <1>4 DEF TokenType

--------------------------------------------------------------------------------
(* No character is without a rule: wherever the tokenizer is in a text, a      *)
(* token comes next, so that it never throws and never stands still (the rules *)
(* ws and error of lexer-by-moo.ts fit between them every character).          *)
THEOREM EveryCharacterHasARule ==
    ASSUME text \in Seq(Character), NEW i \in 1..Len(text)
    PROVE  Tokens(i) # {}
<1> DEFINE fits == {k \in DOMAIN Rules(i) : Rules(i)[k][2] > i}
<1>1. IsPlace(i)
  BY PlacesOfCharacters DEF IsPlace, End
<1>2. 3 \in fits \/ 16 \in fits
  BY <1>1, RulesEnd, SoloRules
<1>3. fits \subseteq Nat
  <2>1. DOMAIN Rules(i) = 1..16
    BY <1>1, RulesEnd
  <2>2. 1..16 \subseteq Nat
    OBVIOUS
  <2> QED
    BY <2>1, <2>2
<1>4. First(fits) \in fits /\ \A l \in fits : First(fits) <= l
  BY <1>2, <1>3, FirstIsLeast
<1>5. FirstFit(i, Rules(i)) # {}
  BY <1>4 DEF FirstFit
<1> QED
  BY <1>5 DEF Tokens

--------------------------------------------------------------------------------
(* Every variable keeps its type: the tokens of a clause and the characters    *)
(* that are reported are places of the text (getTokens and Parser.next).       *)
THEOREM TypeCorrect == Spec => []TypeOK
<1>1. Init => TypeOK
  <2> SUFFICES ASSUME Init  PROVE TypeOK
    OBVIOUS
  <2>1. text \in Seq(Character)
    BY TextsAssumption DEF Init
  <2>2. 1 \in 1..End
    BY <2>1 DEF End
  <2>3. tokens \in Seq(TokenType) /\ clauses \in Seq(ClauseType)
    BY DEF Init
  <2> QED
    BY <2>1, <2>2, <2>3 DEF Init, TypeOK
<1>2. TypeOK /\ [Next]_vars => TypeOK'
  <2> SUFFICES ASSUME TypeOK, [Next]_vars  PROVE TypeOK'
    OBVIOUS
  <2>0. IsPlace(index) /\ Len(text) \in Nat
    BY PlacesOfCharacters DEF TypeOK, IsPlace
  <2>1. ASSUME NEW t \in Tokens(index)
        PROVE  t \in TokenType /\ t.to \in 1..End /\ t.from \in 1..Len(text) /\ t.from = index
    BY <2>0, TokensAreTyped DEF TokenType, End
  <2>2. ASSUME NEW t \in Tokens(index), skip(t)  PROVE TypeOK'
    BY <2>1, <2>2 DEF skip, TypeOK, End, TokenType, ClauseType
  <2>3. ASSUME NEW t \in Tokens(index), invalid(t)  PROVE TypeOK'
    BY <2>1, <2>3 DEF invalid, TypeOK, End, TokenType, ClauseType
  <2>4. ASSUME NEW t \in Tokens(index), gather(t)  PROVE TypeOK'
    BY <2>1, <2>4 DEF gather, TypeOK, End, TokenType, ClauseType
  <2>5. ASSUME NEW e \in (1..Len(text)) \cup {None}, next(e), index' \in 1..End  PROVE TypeOK'
    <3>1. TokenType' = TokenType /\ ClauseType' = ClauseType /\ End' = End
      BY <2>5 DEF next, TokenType, ClauseType, End
    <3>2. [tokens |-> tokens, end |-> e] \in ClauseType
      BY DEF TypeOK, ClauseType
    <3>3. clauses' \in Seq(ClauseType)
      <4> DEFINE c == [tokens |-> tokens, end |-> e]
      <4>1. clauses \in Seq(ClauseType) /\ (clauses' = clauses \/ clauses' = Append(clauses, c))
        BY <2>5, Zenon DEF next, TypeOK
      <4> HIDE DEF c
      <4>2. c \in ClauseType
        BY <3>2 DEF c
      <4> QED
        BY <4>1, <4>2
    <3>4. tokens' \in Seq(TokenType)
      BY <2>5 DEF next
    <3> QED
      BY <2>5, <3>1, <3>3, <3>4 DEF next, TypeOK
  <2>6. ASSUME NEW t \in Tokens(index), nextAtEnd(t)  PROVE TypeOK'
    BY <2>1, <2>5, <2>6 DEF nextAtEnd
  <2>7. CASE nextAtEndOfText
    BY <2>5, <2>7 DEF nextAtEndOfText, TypeOK
  <2>8. CASE UNCHANGED vars
    BY <2>8 DEF vars, TypeOK, End, TokenType, ClauseType
  <2> QED
    BY <2>2, <2>3, <2>4, <2>6, <2>7, <2>8 DEF Next, returned
<1> QED
  BY <1>1, <1>2, PTL DEF Spec

--------------------------------------------------------------------------------
(* What is gathered lies between the full stop of the last clause and the      *)
(* tokenizer; a clause without full stop is the last, at the end of the text.  *)
Gathered ==
    /\ InARow(tokens)
    /\ UpTo(tokens, index)
    /\ \A k \in DOMAIN clauses :
          /\ UpTo(clauses[k].tokens, index)
          /\ clauses[k].end = None => index = End /\ tokens = <<>>
          /\ clauses[k].end # None => /\ clauses[k].end < index
                                      /\ UpTo(clauses[k].tokens, clauses[k].end)
                                      /\ Behind(tokens, clauses[k].end + 1)

OrderInv == TypeOK /\ Gathered /\ ClausesAreInOrder

Span == [type : TokenTypes, from : Int, to : Int]

LEMMA TokensAreSpans ==
    ASSUME text \in Seq(Character)  PROVE Seq(TokenType) \subseteq Seq(Span)
<1>1. TokenType \subseteq Span
  BY PlacesOfCharacters DEF TokenType, Span, End
<1> QED
  BY <1>1

LEMMA UpToLater ==
    ASSUME NEW list \in Seq(Span), NEW i \in Int, NEW j \in Int, UpTo(list, i), i <= j
    PROVE  UpTo(list, j)
<1>1. \A k \in DOMAIN list : list[k] \in Span
  OBVIOUS
<1>2. \A k \in DOMAIN list : list[k].to \in Int
  BY <1>1 DEF Span
<1> QED
  BY <1>2 DEF UpTo

LEMMA AppendedInARow ==
    ASSUME NEW list \in Seq(Span), NEW t \in Span, InARow(list), UpTo(list, t.from),
           t.from <= t.to
    PROVE  /\ InARow(Append(list, t)) /\ UpTo(Append(list, t), t.to)
           /\ \A i \in Int : Behind(list, i) /\ i <= t.from => Behind(Append(list, t), i)
<1> DEFINE new == Append(list, t)
<1>1. /\ DOMAIN new = 1..Len(list) + 1 /\ DOMAIN list = 1..Len(list) /\ Len(list) \in Nat
      /\ new[Len(list) + 1] = t
      /\ \A k \in DOMAIN list : new[k] = list[k] /\ list[k] \in Span
  OBVIOUS
<1>2. t.from \in Int /\ t.to \in Int
  BY DEF Span
<1> HIDE DEF new
<1>3. \A k, l \in DOMAIN new : k < l => k \in DOMAIN list /\ (l \in DOMAIN list \/ l = Len(list) + 1)
  BY <1>1
<1>4. InARow(new)
  BY <1>1, <1>3 DEF InARow, UpTo
<1>5. \A k \in DOMAIN new : k \in DOMAIN list \/ k = Len(list) + 1
  BY <1>1
<1>6. UpTo(new, t.to)
  <2>1. UpTo(list, t.to)
    BY <1>2, UpToLater
  <2> QED
    BY <1>1, <1>2, <1>5, <2>1 DEF UpTo
<1>7. \A i \in Int : Behind(list, i) /\ i <= t.from => Behind(new, i)
  BY <1>1, <1>5 DEF Behind
<1> QED
  BY <1>4, <1>6, <1>7 DEF new

LEMMA OrderIsKept ==
    ASSUME OrderInv, TypeOK', [Next]_vars  PROVE OrderInv'
<1> USE DEF OrderInv
<1>0. IsPlace(index) /\ Len(text) \in Nat /\ index \in Int /\ End \in Int /\ End = Len(text) + 1
  BY PlacesOfCharacters DEF TypeOK, IsPlace, End
<1>1. ASSUME NEW t \in Tokens(index)
      PROVE  t \in Span /\ t.from = index /\ t.to \in index + 1..End /\ index # End
  BY <1>0, TokensAreTyped DEF TokenType, Span
<1>2. tokens \in Seq(Span) /\ \A k \in DOMAIN clauses : clauses[k].tokens \in Seq(Span)
  <2>1. \A k \in DOMAIN clauses : clauses[k] \in ClauseType
    BY DEF TypeOK
  <2>2. \A k \in DOMAIN clauses : clauses[k].tokens \in Seq(TokenType)
    BY <2>1 DEF ClauseType
  <2> QED
    BY <2>2, TokensAreSpans DEF TypeOK
<1>3. \A k \in DOMAIN clauses : clauses[k].end \in Int \cup {None}
  <2>1. \A k \in DOMAIN clauses : clauses[k] \in ClauseType
    BY DEF TypeOK
  <2> QED
    BY <1>0, <2>1 DEF ClauseType
<1>4. ASSUME NEW t \in Tokens(index), skip(t) \/ invalid(t)  PROVE OrderInv'
  <2>1. index' = t.to /\ tokens' = tokens /\ clauses' = clauses /\ End' = End
    BY <1>4 DEF skip, invalid, End
  <2>2. index <= index' /\ index' \in Int
    BY <1>0, <1>1, <2>1
  <2>3. \A list \in Seq(Span) : UpTo(list, index) => UpTo(list, index')
    BY <1>0, <2>2, UpToLater
  <2>4. Gathered'
    BY <1>0, <1>1, <1>2, <1>3, <2>1, <2>2, <2>3, NoneAssumption DEF Gathered
  <2> QED
    BY <2>1, <2>4 DEF ClausesAreInOrder
<1>5. ASSUME NEW t \in Tokens(index), gather(t)  PROVE OrderInv'
  <2>1. index' = t.to /\ tokens' = Append(tokens, t) /\ clauses' = clauses /\ End' = End
    BY <1>5 DEF gather, End
  <2>2. index <= index' /\ index' \in Int
    BY <1>0, <1>1, <2>1
  <2>3. \A list \in Seq(Span) : UpTo(list, index) => UpTo(list, index')
    BY <1>0, <2>2, UpToLater
  <2>4. /\ InARow(tokens') /\ UpTo(tokens', index')
        /\ \A i \in Int : Behind(tokens, i) /\ i <= index => Behind(tokens', i)
    BY <1>0, <1>1, <1>2, <2>1, <2>2, AppendedInARow DEF Gathered
  <2>5. Gathered'
    BY <1>0, <1>1, <1>2, <1>3, <2>1, <2>2, <2>3, <2>4, NoneAssumption DEF Gathered
  <2> QED
    BY <2>1, <2>5 DEF ClausesAreInOrder
<1>6. ASSUME NEW e \in (1..Len(text)) \cup {None}, next(e),
             \/ e = None /\ index = End /\ index' = End
             \/ e = index /\ index' \in index + 1..End
      PROVE  OrderInv'
  <2>1. index <= index' /\ index' \in Int /\ index' \in 1..End
    BY <1>0, <1>6 DEF IsPlace
  <2>2. \A list \in Seq(Span) : UpTo(list, index) => UpTo(list, index')
    BY <1>0, <2>1, UpToLater
  <2>3. /\ tokens' = <<>> /\ End' = End
        /\ InARow(tokens') /\ UpTo(tokens', index') /\ \A i : Behind(tokens', i)
    BY <1>6 DEF next, End, InARow, UpTo, Behind
  <2>4. CASE tokens = <<>>
    <3>1. clauses' = clauses
      BY <1>6, <2>4 DEF next
    <3>2. Gathered'
      BY <1>0, <1>2, <1>3, <1>6, <2>1, <2>2, <2>3, <3>1, NoneAssumption DEF Gathered
    <3> QED
      BY <3>1, <3>2 DEF ClausesAreInOrder
  <2>5. CASE tokens # <<>>
    <3> DEFINE c == [tokens |-> tokens, end |-> e]
               n == Len(clauses)
    <3>1. clauses' = Append(clauses, c)
      BY <1>6, <2>5 DEF next
    <3>2. c.tokens = tokens /\ c.end = e
      OBVIOUS
    <3> HIDE DEF c
    <3>3. /\ n \in Nat /\ DOMAIN clauses = 1..n /\ DOMAIN clauses' = 1..n + 1
          /\ clauses'[n + 1] = c /\ \A k \in 1..n : clauses'[k] = clauses[k]
      BY <3>1 DEF TypeOK
    <3> HIDE DEF n
    <3>4. \A k \in 1..n : /\ clauses[k].end # None
                           /\ UpTo(clauses[k].tokens, index)
                           /\ clauses[k].end < index
                           /\ UpTo(clauses[k].tokens, clauses[k].end)
                           /\ Behind(tokens, clauses[k].end + 1)
      BY <2>5, <3>3 DEF Gathered
    <3>5. /\ UpTo(tokens, index) /\ InARow(tokens)
          /\ e # None => e = index /\ e < index' /\ UpTo(tokens, e)
          /\ e = None => index' = End
      <4>1. index \in Nat /\ UpTo(tokens, index) /\ InARow(tokens)
        BY <1>0 DEF IsPlace, Gathered
      <4>2. CASE e = None /\ index = End /\ index' = End
        BY <4>1, <4>2
      <4>3. CASE e = index /\ index' \in index + 1..End
        BY <1>0, <4>1, <4>3, NoneAssumption
      <4> QED
        BY <1>6, <4>2, <4>3
    <3>6. \A k \in 1..n + 1 : k \in 1..n \/ k = n + 1
      BY <3>3
    <3>7. Gathered'
      <4>1. ASSUME NEW k \in 1..n
            PROVE  /\ UpTo(clauses'[k].tokens, index') /\ clauses'[k].end # None
                   /\ clauses'[k].end < index' /\ UpTo(clauses'[k].tokens, clauses'[k].end)
        <5>1. clauses'[k] = clauses[k] /\ k \in DOMAIN clauses
          BY <3>3
        <5>2. clauses[k].tokens \in Seq(Span) /\ clauses[k].end \in Int
          BY <1>2, <1>3, <3>4, <5>1
        <5>3. UpTo(clauses[k].tokens, index')
          BY <2>2, <3>4, <5>2
        <5>4. clauses[k].end < index'
          BY <1>0, <2>1, <3>4, <5>2
        <5> QED
          BY <3>4, <5>1, <5>3, <5>4
      <4>2. /\ UpTo(clauses'[n + 1].tokens, index')
            /\ clauses'[n + 1].end = None => index' = End'
            /\ clauses'[n + 1].end # None =>
                 clauses'[n + 1].end < index' /\ UpTo(clauses'[n + 1].tokens, clauses'[n + 1].end)
        BY <1>2, <2>2, <2>3, <3>2, <3>3, <3>5
      <4> QED
        BY <2>3, <3>3, <3>6, <4>1, <4>2 DEF Gathered
    <3>8. ClausesAreInOrder'
      <4>1. \A k \in 1..n + 1 : InARow(clauses'[k].tokens)
        BY <3>2, <3>3, <3>5, <3>6 DEF ClausesAreInOrder
      <4>2. ASSUME NEW k \in 1..n + 1, NEW l \in 1..n + 1, k < l
            PROVE  /\ clauses'[k].end # None
                   /\ UpTo(clauses'[k].tokens, clauses'[k].end)
                   /\ Behind(clauses'[l].tokens, clauses'[k].end + 1)
        <5>1. k \in 1..n
          BY <4>2, <3>3
        <5>2. CASE l \in 1..n
          BY <4>2, <5>1, <5>2, <3>3, <3>4 DEF ClausesAreInOrder
        <5>3. CASE l = n + 1
          BY <5>1, <5>3, <3>2, <3>3, <3>4
        <5> QED
          BY <3>6, <5>2, <5>3
      <4> QED
        BY <3>3, <4>1, <4>2 DEF ClausesAreInOrder
    <3> QED
      BY <3>7, <3>8
  <2> QED
    BY <2>4, <2>5
<1>7. ASSUME NEW t \in Tokens(index), nextAtEnd(t)  PROVE OrderInv'
  <2>1. next(index) /\ index' \in index + 1..End
    BY <1>1, <1>7 DEF nextAtEnd
  <2>2. index \in 1..Len(text)
    BY <1>0, TokensAreTyped
  <2> QED
    BY <1>6, <2>1, <2>2
<1>8. CASE nextAtEndOfText
  BY <1>6, <1>8 DEF nextAtEndOfText
<1>9. CASE UNCHANGED vars
  BY <1>9 DEF vars, Gathered, ClausesAreInOrder, InARow, UpTo, Behind, End
<1> QED
  BY <1>4, <1>5, <1>7, <1>8, <1>9 DEF Next, returned

(* The clauses of every file are in the order of the text and do not overlap:  *)
(* a full stop that belongs to no other clause lies between any two (getTokens *)
(* and Parser.next).  The search for the node at a position counts on it.      *)
THEOREM InOrder == Spec => []ClausesAreInOrder
<1>1. Init /\ TypeOK => OrderInv
  BY DEF Init, OrderInv, Gathered, ClausesAreInOrder, InARow, UpTo
<1>2. TypeOK' /\ OrderInv /\ [Next]_vars => OrderInv'
  BY OrderIsKept
<1>3. OrderInv => ClausesAreInOrder
  BY DEF OrderInv
<1> QED
  BY <1>1, <1>2, <1>3, TypeCorrect, PTL DEF Spec

--------------------------------------------------------------------------------
(* The reader of LexerReference goes over the text with the tokenizer: where a  *)
(* token ends, it is in the middle of nothing that the next character goes on  *)
(* with.  First, what a mode is followed by.                                   *)

\* Induction over an interval.
LEMMA Along ==
    ASSUME NEW S, NEW a \in Nat, NEW b \in Int, a \in S,
           \A j \in a..b - 1 : j \in S => j + 1 \in S
    PROVE  \A j \in a..b : j \in S
<1> SUFFICES ASSUME (a..b) \ S # {}  PROVE FALSE
  OBVIOUS
<1>1. PICK j \in (a..b) \ S : \A k \in (a..b) \ S : j <= k
  <2> DEFINE T == (a..b) \ S
  <2>1. T \subseteq Nat /\ T # {}
    OBVIOUS
  <2>2. First(T) \in T /\ \A k \in T : First(T) <= k
    <3> HIDE DEF T
    <3> QED
      BY <2>1, FirstIsLeast
  <2> QED
    BY <2>2
<1>2. j # a
  OBVIOUS
<1>3. j - 1 \in a..b - 1 /\ j - 1 \in a..b /\ ~ j <= j - 1
  BY <1>2
<1>4. j - 1 \in S
  BY <1>1, <1>3
<1> QED
  BY <1>3, <1>4

\* What the modes of a text are.
IsModes(f) ==
    /\ f[1] = In("between")
    /\ \A i \in 1..Len(text) : f[i + 1] = GoesOn(f[i], i)

LEMMA BeginsAs ==
    ASSUME NEW i
    PROVE  /\ At(i) = "%" => Begins(i) = In("line")
           /\ Pair(i, "/", "*") => Begins(i) = In("opening")
           /\ At(i) \in SymbolChar /\ ~ FullStop(i) /\ ~ Pair(i, "/", "*")
                => Begins(i) = In("symbol")
           /\ FullStop(i) => Begins(i) = In("between")
           /\ At(i) \in {"'", "double"} => Begins(i) = <<"quoted", At(i)>>
           /\ At(i) = "back" => Begins(i) = In("broken")
           /\ At(i) \in Letter => Begins(i) = In("name")
           /\ At(i) = "0" => Begins(i) = In("zero")
           /\ At(i) = "2" => Begins(i) = In("two")
           /\ At(i) \in Layout \cup Solo \cup {"other", "eof"} => Begins(i) = In("between")
<1>1. At(i) = "%" => Begins(i) = In("line")
  BY DEF Begins, Pair, FullStop, SymbolChar, Letter
<1>2. Pair(i, "/", "*") => Begins(i) = In("opening")
  BY DEF Begins, Pair, FullStop, SymbolChar, Letter
<1>3. At(i) \in SymbolChar /\ ~ FullStop(i) /\ ~ Pair(i, "/", "*") => Begins(i) = In("symbol")
  BY DEF Begins, Pair, FullStop, SymbolChar, Letter
<1>4. FullStop(i) => Begins(i) = In("between")
  BY DEF Begins, Pair, FullStop, SymbolChar, Letter
<1>5. At(i) \in {"'", "double"} => Begins(i) = <<"quoted", At(i)>>
  BY DEF Begins, Pair, FullStop, SymbolChar, Letter
<1>6. At(i) = "back" => Begins(i) = In("broken")
  BY DEF Begins, Pair, FullStop, SymbolChar, Letter
<1>7. /\ At(i) \in Letter => Begins(i) = In("name")
      /\ At(i) = "0" => Begins(i) = In("zero")
      /\ At(i) = "2" => Begins(i) = In("two")
  BY DEF Begins, Pair, FullStop, SymbolChar, Letter
<1>8. At(i) \in Layout \cup Solo \cup {"other", "eof"} => Begins(i) = In("between")
  BY DEF Begins, Pair, FullStop, SymbolChar, Letter, Layout, Solo
<1> QED
  BY <1>1, <1>2, <1>3, <1>4, <1>5, <1>6, <1>7, <1>8

LEMMA GoesOnAs ==
    ASSUME NEW m, NEW i
    PROVE  /\ m[1] = "line" => GoesOn(m, i) = IF At(i) = "nl" THEN In("between") ELSE m
           /\ m[1] = "opening" => GoesOn(m, i) = In("block")
           /\ m[1] = "block" => GoesOn(m, i) = IF Pair(i, "*", "/") THEN In("closing") ELSE m
           /\ m[1] = "closing" => GoesOn(m, i) = In("between")
           /\ m[1] = "between" => GoesOn(m, i) = Begins(i)
           /\ m[1] = "broken" => GoesOn(m, i) = m
           /\ m[1] = "escape" =>
             GoesOn(m, i) = IF At(i) \in Digit \cup {"x"} THEN In("broken") ELSE <<"quoted", m[2]>>
           /\ m[1] = "quote" =>
             GoesOn(m, i) = IF At(i) = m[2] THEN <<"quoted", m[2]>> ELSE Begins(i)
           /\ m[1] = "symbol" => GoesOn(m, i) = IF At(i) \in SymbolChar THEN m ELSE Begins(i)
           /\ m[1] = "name" => GoesOn(m, i) = IF At(i) \in Alnum THEN m ELSE Begins(i)
           /\ m[1] = "radix" => GoesOn(m, i) = IF At(i) \in Digit THEN m ELSE Begins(i)
           /\ m[1] = "hexadecimal" => GoesOn(m, i) = IF At(i) \in Hex THEN m ELSE Begins(i)
<1>1. m[1] = "line" => GoesOn(m, i) = IF At(i) = "nl" THEN In("between") ELSE m
  BY DEF GoesOn
<1>2. m[1] = "opening" => GoesOn(m, i) = In("block")
  BY DEF GoesOn
<1>3. m[1] = "block" => GoesOn(m, i) = IF Pair(i, "*", "/") THEN In("closing") ELSE m
  BY DEF GoesOn
<1>4. m[1] = "closing" => GoesOn(m, i) = In("between")
  BY DEF GoesOn
<1>5. m[1] = "between" => GoesOn(m, i) = Begins(i)
  BY DEF GoesOn
<1>6. m[1] = "broken" => GoesOn(m, i) = m
  BY DEF GoesOn
<1>7. m[1] = "escape" =>
             GoesOn(m, i) = IF At(i) \in Digit \cup {"x"} THEN In("broken") ELSE <<"quoted", m[2]>>
  BY DEF GoesOn
<1>8. m[1] = "quote" =>
             GoesOn(m, i) = IF At(i) = m[2] THEN <<"quoted", m[2]>> ELSE Begins(i)
  BY DEF GoesOn
<1>9. m[1] = "symbol" => GoesOn(m, i) = IF At(i) \in SymbolChar THEN m ELSE Begins(i)
  BY DEF GoesOn
<1>10. m[1] = "name" => GoesOn(m, i) = IF At(i) \in Alnum THEN m ELSE Begins(i)
  BY DEF GoesOn
<1>11. m[1] = "radix" => GoesOn(m, i) = IF At(i) \in Digit THEN m ELSE Begins(i)
  BY DEF GoesOn
<1>12. m[1] = "hexadecimal" => GoesOn(m, i) = IF At(i) \in Hex THEN m ELSE Begins(i)
  BY DEF GoesOn
<1> QED
  BY <1>1, <1>2, <1>3, <1>4, <1>5, <1>6, <1>7, <1>8, <1>9, <1>10, <1>11, <1>12

LEMMA GoesOnInQuotes ==
    ASSUME NEW m, NEW i, m[1] = "quoted", m[2] \in {"'", "double"}
    PROVE  /\ At(i) = m[2] => GoesOn(m, i) = <<"quote", m[2]>>
           /\ At(i) # m[2] /\ At(i) = "\\" => GoesOn(m, i) = <<"escape", m[2]>>
           /\ At(i) # m[2] /\ At(i) = "nl" => GoesOn(m, i) = In("broken")
           /\ At(i) \notin {m[2], "\\", "nl"} => GoesOn(m, i) = m
BY DEF GoesOn

LEMMA GoesOnInNumbers ==
    ASSUME NEW m, NEW i
    PROVE  /\ m[1] \in {"zero", "two", "digits", "gap"} =>
                /\ At(i) \in Digit => GoesOn(m, i) = In("digits")
                /\ At(i) = "sp" => GoesOn(m, i) = In("gap")
           /\ m[1] = "gap" /\ At(i) \notin Digit \cup {"sp"} => GoesOn(m, i) = Begins(i)
           /\ m[1] = "digits" /\ At(i) \notin Digit \cup {"sp"} =>
                GoesOn(m, i) = IF At(i) = "'" THEN In("broken") ELSE Begins(i)
           /\ m[1] = "two" /\ At(i) \notin Digit \cup {"sp"} =>
                GoesOn(m, i) = IF At(i) = "'" /\ At(i + 1) \in Digit THEN In("radix") ELSE Begins(i)
           /\ m[1] = "zero" /\ At(i) \notin Digit \cup {"sp"} =>
                GoesOn(m, i) = IF At(i) = "'" THEN In("code")
                               ELSE IF At(i) = "x" /\ At(i + 1) \in Hex THEN In("hexadecimal")
                               ELSE Begins(i)
BY DEF GoesOn, Digit

LEMMA GoesOnInCodes ==
    ASSUME NEW m, NEW i
    PROVE  /\ m[1] = "code" =>
                GoesOn(m, i) = IF At(i) = "\\" THEN In("codeEscape")
                               ELSE IF At(i) \in {"'", "nl"} THEN In("broken") ELSE In("between")
           /\ m[1] = "codeEscape" =>
                GoesOn(m, i) = IF At(i) \in Escaped THEN In("between")
                               ELSE IF At(i) = "x" /\ At(i + 1) \in Hex THEN In("hex")
                               ELSE IF At(i) \in Digit THEN In("octal") ELSE In("broken")
           /\ m[1] = "hex" =>
                GoesOn(m, i) = IF At(i) \in Hex THEN (IF At(i - 5) = "x" THEN In("broken") ELSE m)
                               ELSE IF At(i) = "\\" THEN In("between") ELSE Begins(i)
           /\ m[1] = "octal" =>
                GoesOn(m, i) = IF At(i) \in Digit THEN m
                               ELSE IF At(i) = "\\" THEN In("broken") ELSE Begins(i)
BY DEF GoesOn, Digit, Hex, Escaped, Quote

\* The function in Mode is there.
LEMMA ModesAre ==
    ASSUME text \in Seq(Character)
    PROVE  IsModes(Mode)
<1> DEFINE Rule(g, i) == IF i = 1 THEN In("between") ELSE GoesOn(g[i - 1], i - 1)
           Known == {n \in 1..End : \E g : g = [i \in 1..n |-> Rule(g, i)]}
<1>1. Len(text) \in Nat /\ End = Len(text) + 1
  BY DEF End
<1>2. 1 \in Known
  <2> DEFINE g == [i \in 1..1 |-> In("between")]
  <2>1. g = [i \in 1..1 |-> Rule(g, i)]
    OBVIOUS
  <2> HIDE DEF g, Rule
  <2> QED
    BY <1>1, <2>1
<1>3. ASSUME NEW n \in 1..End - 1, n \in Known
      PROVE  n + 1 \in Known
  <2>1. PICK g : g = [i \in 1..n |-> Rule(g, i)]
    BY <1>3
  <2> DEFINE h == [i \in 1..n + 1 |-> IF i = n + 1 THEN Rule(g, i) ELSE g[i]]
  <2>2. \A i \in 1..n + 1 : i # 1 => i - 1 \in 1..n /\ h[i - 1] = g[i - 1]
    OBVIOUS
  <2>3. \A i \in 1..n + 1 : Rule(h, i) = Rule(g, i)
    BY <2>2
  <2>4. \A i \in 1..n : g[i] = Rule(g, i)
    <3> HIDE DEF Rule
    <3> QED
      BY <2>1
  <2>5. h = [i \in 1..n + 1 |-> Rule(h, i)]
    <3> HIDE DEF Rule
    <3>1. \A i \in 1..n + 1 : h[i] = Rule(h, i)
      BY <2>3, <2>4
    <3> QED
      BY <3>1
  <2> HIDE DEF h, Rule
  <2> QED
    BY <1>1, <2>5
<1>4. End \in Known
  <2>1. \A j \in 1..End : j \in Known
    <3>1. 1 \in Nat /\ End \in Int
      BY <1>1
    <3>2. \A j \in 1..End - 1 : j \in Known => j + 1 \in Known
      BY <1>3
    <3> HIDE DEF Known
    <3> QED
      BY <1>2, <3>1, <3>2, Along
  <2> HIDE DEF Known
  <2> QED
    BY <1>1, <2>1
<1>5. PICK g : g = [i \in 1..End |-> Rule(g, i)]
  <2> HIDE DEF Rule
  <2> QED
    BY <1>4
<1>6. Mode = [i \in 1..End |-> Rule(Mode, i)]
  BY <1>5 DEF Mode
<1>7. \A i \in 1..End : Mode[i] = Rule(Mode, i)
  <2> HIDE DEF Rule
  <2> QED
    BY <1>6
<1>8. Mode[1] = In("between")
  BY <1>1, <1>7
<1>9. ASSUME NEW i \in 1..Len(text)  PROVE Mode[i + 1] = GoesOn(Mode[i], i)
  <2>1. i + 1 \in 1..End /\ i + 1 # 1 /\ (i + 1) - 1 = i
    BY <1>1
  <2> QED
    BY <1>7, <2>1
<1> QED
  BY <1>8, <1>9 DEF IsModes

\* A text whose clauses the reader can tell, and its modes.
Read(f) == text \in Seq(Character) /\ IsModes(f) /\ WellFormed(f)

LEMMA NextMode ==
    ASSUME NEW f, Read(f), NEW i \in 1..Len(text)
    PROVE  f[i + 1] = GoesOn(f[i], i)
  BY DEF Read, IsModes

\* A text that has a broken mode has it to its end.
LEMMA NeverBroken ==
    ASSUME NEW f, Read(f), NEW j \in 1..End
    PROVE  f[j][1] # "broken"
<1> SUFFICES ASSUME f[j][1] = "broken"  PROVE FALSE
  OBVIOUS
<1> DEFINE S == {k \in j..End : f[k][1] = "broken"}
<1>1. Len(text) \in Nat /\ End = Len(text) + 1 /\ j \in Nat
  BY DEF End, Read
<1>2. ASSUME NEW k \in j..End - 1, k \in S  PROVE k + 1 \in S
  <2>1. k \in 1..Len(text)
    BY <1>1
  <2>2. f[k + 1] = f[k]
    BY <1>2, <2>1, NextMode, GoesOnAs
  <2> QED
    BY <1>1, <1>2, <2>2
<1>3. j \in S
  BY <1>1
<1>4. End \in S
  <2>1. \A k \in j..End : k \in S
    <3>1. j \in Nat /\ End \in Int
      BY <1>1
    <3>2. \A k \in j..End - 1 : k \in S => k + 1 \in S
      BY <1>2
    <3> HIDE DEF S
    <3> QED
      BY <1>3, <3>1, <3>2, Along
  <2> HIDE DEF S
  <2> QED
    BY <1>1, <2>1
<1> QED
  BY <1>4 DEF Read, WellFormed, Free

\* The text does not end in the middle of these.
LEMMA LastMode ==
    ASSUME NEW f, Read(f), NEW i \in 1..End,
           f[i][1] \in {"opening", "block", "closing", "quoted", "escape", "code", "codeEscape"}
    PROVE  i \in 1..Len(text) /\ At(i) # "eof"
<1>1. i # End
  BY DEF Read, WellFormed, Free
<1>2. text \in Seq(Character)
  BY DEF Read
<1> QED
  BY <1>1, <1>2, PlacesOfCharacters DEF End

--------------------------------------------------------------------------------
(* A quoted item ends where the reader is behind a quote that is not doubled:  *)
(* of the ways to go on, the first that leads to an end is the one the reader  *)
(* takes, as in a text whose clauses it can tell each of them leads to one.    *)

\* How the search for the end of a quoted item goes on at j, if g has what it
\* comes to behind j.
Ways(q, j) ==
    << <<Pair(j, q, q), j + 2>>,
       <<At(j) = "\\" /\ At(j + 1) # "eof", j + 2>>,
       <<At(j) \notin {Barred(q), "nl", "eof"}, j + 1>> >>

Leading(q, j, g) == {k \in DOMAIN Ways(q, j) : Ways(q, j)[k][1] /\ g[Ways(q, j)[k][2]] # None}

ClosingAt(q, j, g) ==
    IF Leading(q, j, g) # {} THEN g[Ways(q, j)[First(Leading(q, j, g))][2]]
    ELSE IF At(j) = q THEN j
    ELSE None

\* Which of the ways lead on, and which is taken.
LEMMA WhichWays ==
    ASSUME NEW q, NEW j, NEW g
    PROVE  /\ Leading(q, j, g) \subseteq 1..3
           /\ 1 \in Leading(q, j, g) <=> Pair(j, q, q) /\ g[j + 2] # None
           /\ 2 \in Leading(q, j, g) <=> At(j) = "\\" /\ At(j + 1) # "eof" /\ g[j + 2] # None
           /\ 3 \in Leading(q, j, g) <=> At(j) \notin {Barred(q), "nl", "eof"} /\ g[j + 1] # None
           /\ Ways(q, j)[1][2] = j + 2 /\ Ways(q, j)[2][2] = j + 2 /\ Ways(q, j)[3][2] = j + 1
<1> DEFINE one   == Pair(j, q, q)
           two   == At(j) = "\\" /\ At(j + 1) # "eof"
           three == At(j) \notin {Barred(q), "nl", "eof"}
<1>0. one \in BOOLEAN /\ two \in BOOLEAN /\ three \in BOOLEAN
  BY DEF Pair
<1>1. Ways(q, j) = << <<one, j + 2>>, <<two, j + 2>>, <<three, j + 1>> >>
  BY DEF Ways
<1> HIDE DEF one, two, three
<1>2. /\ DOMAIN Ways(q, j) = 1..3
      /\ Ways(q, j)[1] = <<one, j + 2>> /\ Ways(q, j)[2] = <<two, j + 2>>
      /\ Ways(q, j)[3] = <<three, j + 1>>
  BY <1>1
<1>3. /\ Ways(q, j)[1][1] = one /\ Ways(q, j)[2][1] = two /\ Ways(q, j)[3][1] = three
      /\ Ways(q, j)[1][2] = j + 2 /\ Ways(q, j)[2][2] = j + 2 /\ Ways(q, j)[3][2] = j + 1
  BY <1>2
<1>4. /\ Leading(q, j, g) \subseteq 1..3
      /\ 1 \in Leading(q, j, g) <=> one /\ g[j + 2] # None
      /\ 2 \in Leading(q, j, g) <=> two /\ g[j + 2] # None
      /\ 3 \in Leading(q, j, g) <=> three /\ g[j + 1] # None
  BY <1>0, <1>2, <1>3 DEF Leading
<1> QED
  BY <1>3, <1>4 DEF one, two, three

LEMMA ClosingAtIs ==
    ASSUME NEW q, NEW j, NEW g
    PROVE  LET doubled == Pair(j, q, q) /\ g[j + 2] # None
               escaped == At(j) = "\\" /\ At(j + 1) # "eof" /\ g[j + 2] # None
               other   == At(j) \notin {Barred(q), "nl", "eof"} /\ g[j + 1] # None
           IN  ClosingAt(q, j, g) = IF doubled \/ escaped THEN g[j + 2]
                                    ELSE IF other THEN g[j + 1]
                                    ELSE IF At(j) = q THEN j
                                    ELSE None
<1> DEFINE S == Leading(q, j, g)
<1>1. /\ S \subseteq 1..3
      /\ S # {} => First(S) \in S /\ \A k \in S : First(S) <= k
  <2>1. S \subseteq 1..3 /\ S \subseteq Nat
    BY WhichWays
  <2> HIDE DEF S
  <2> QED
    BY <2>1, FirstIsLeast
<1> HIDE DEF S
<1>2. S # {} => \/ First(S) = 1 /\ 1 \in S
                \/ First(S) = 2 /\ 2 \in S /\ 1 \notin S
                \/ First(S) = 3 /\ 3 \in S /\ 1 \notin S /\ 2 \notin S
  <2> SUFFICES ASSUME S # {}
               PROVE  \/ First(S) = 1 /\ 1 \in S
                      \/ First(S) = 2 /\ 2 \in S /\ 1 \notin S
                      \/ First(S) = 3 /\ 3 \in S /\ 1 \notin S /\ 2 \notin S
    OBVIOUS
  <2>1. PICK n : n = First(S)
    OBVIOUS
  <2>2. n \in S /\ \A k \in S : n <= k
    BY <1>1, <2>1
  <2>3. n = 1 \/ n = 2 \/ n = 3
    BY <1>1, <2>2
  <2>4. 1 \in S => n <= 1
    BY <2>2
  <2>5. 2 \in S => n <= 2
    BY <2>2
  <2> QED
    BY <2>1, <2>2, <2>3, <2>4, <2>5
<1>3. S = {} => 1 \notin S /\ 2 \notin S /\ 3 \notin S
  OBVIOUS
<1>4. ClosingAt(q, j, g) = IF S # {} THEN g[Ways(q, j)[First(S)][2]] ELSE IF At(j) = q THEN j ELSE None
  BY DEF ClosingAt, S
<1>5. /\ 1 \in S <=> Pair(j, q, q) /\ g[j + 2] # None
      /\ 2 \in S <=> At(j) = "\\" /\ At(j + 1) # "eof" /\ g[j + 2] # None
      /\ 3 \in S <=> At(j) \notin {Barred(q), "nl", "eof"} /\ g[j + 1] # None
      /\ Ways(q, j)[1][2] = j + 2 /\ Ways(q, j)[2][2] = j + 2 /\ Ways(q, j)[3][2] = j + 1
  BY WhichWays DEF S
<1> QED
  BY <1>2, <1>3, <1>4, <1>5

\* The function in Closing is there.
LEMMA ClosingsAre ==
    ASSUME text \in Seq(Character), NEW q, q # "eof", NEW i \in 1..End
    PROVE  \E g : /\ Closing(q, i) = g[i]
                  /\ \A j \in i..End + 1 : g[j] = ClosingAt(q, j, g)
<1> DEFINE Known == {n \in 0..End + 1 - i :
                        \E g : g = [j \in End + 1 - n..End + 1 |-> ClosingAt(q, j, g)]}
<1>1. Len(text) \in Nat /\ End = Len(text) + 1 /\ i \in Nat
  BY DEF End
<1>2. \A j \in Int : \A g : j >= End => ClosingAt(q, j, g) = None
  <2> TAKE j \in Int
  <2> TAKE g
  <2> HAVE j >= End
  <2>1. j \notin 1..Len(text)
    BY <1>1
  <2>2. At(j) = "eof"
    BY <2>1, PlacesOfCharacters
  <2> QED
    BY <2>2, ClosingAtIs DEF Pair
<1>3. 0 \in Known
  <2> DEFINE g == [j \in End + 1..End + 1 |-> None]
  <2>1. g = [j \in End + 1 - 0..End + 1 |-> ClosingAt(q, j, g)]
    <3>1. \A j \in End + 1..End + 1 : ClosingAt(q, j, g) = None
      <4> HIDE DEF g
      <4> QED
        BY <1>1, <1>2
    <3>2. End + 1 - 0..End + 1 = End + 1..End + 1
      BY <1>1
    <3> QED
      BY <3>1, <3>2
  <2> HIDE DEF g
  <2> QED
    BY <1>1, <2>1
<1>4. ASSUME NEW n \in 0..(End + 1 - i) - 1, n \in Known
      PROVE  n + 1 \in Known
  <2>1. PICK g : g = [j \in End + 1 - n..End + 1 |-> ClosingAt(q, j, g)]
    BY <1>4
  <2> DEFINE a == End + 1 - (n + 1)
             h == [j \in a..End + 1 |-> IF j = a THEN ClosingAt(q, j, g) ELSE g[j]]
  <2>2. a \in Int /\ a + 1 = End + 1 - n /\ n + 1 \in 0..End + 1 - i /\ n \in Nat /\ a <= End
    BY <1>1
  <2>3. g = [j \in a + 1..End + 1 |-> ClosingAt(q, j, g)]
    BY <2>1, <2>2
  <2> HIDE DEF a
  <2>4. \A j \in a + 1..End + 1 : h[j] = g[j] /\ g[j] = ClosingAt(q, j, g)
    <3>1. \A j \in a + 1..End + 1 : g[j] = ClosingAt(q, j, g)
      BY <2>3
    <3>2. \A j \in a + 1..End + 1 : j \in a..End + 1 /\ j # a
      BY <1>1, <2>2
    <3> QED
      BY <3>1, <3>2
  <2>5. \A j \in a..End + 1 : ClosingAt(q, j, h) = ClosingAt(q, j, g)
    <3> TAKE j \in a..End + 1
    <3>1. CASE j >= End
      BY <1>1, <1>2, <2>2, <3>1
    <3>2. CASE ~ j >= End
      <4>1. j + 1 \in a + 1..End + 1 /\ j + 2 \in a + 1..End + 1
        BY <1>1, <2>2, <3>2
      <4>2. h[j + 1] = g[j + 1] /\ h[j + 2] = g[j + 2]
        BY <2>4, <4>1
      <4> HIDE DEF h
      <4> QED
        BY <4>2, ClosingAtIs
    <3> QED
      BY <3>1, <3>2
  <2>6. \A j \in a..End + 1 : h[j] = ClosingAt(q, j, h)
    <3>1. \A j \in a..End + 1 : j # a => j \in a + 1..End + 1
      BY <1>1, <2>2
    <3>2. a \in a..End + 1 /\ h[a] = ClosingAt(q, a, g)
      BY <1>1, <2>2
    <3>3. h[a] = ClosingAt(q, a, h)
      BY <2>5, <3>2
    <3> QED
      BY <2>4, <2>5, <3>1, <3>3
  <2>7. h = [j \in a..End + 1 |-> h[j]]
    OBVIOUS
  <2> HIDE DEF h
  <2>8. h = [j \in a..End + 1 |-> ClosingAt(q, j, h)]
    BY <2>6, <2>7
  <2> QED
    BY <2>2, <2>8 DEF a
<1>5. End + 1 - i \in Known
  <2> DEFINE m == End + 1 - i
  <2>1. m \in Nat
    BY <1>1
  <2>2. \A n \in 0..m - 1 : n \in Known => n + 1 \in Known
    BY <1>4
  <2> HIDE DEF Known, m
  <2>3. \A n \in 0..m : n \in Known
    BY <1>3, <2>1, <2>2, Along
  <2>4. m \in Known
    BY <2>1, <2>3
  <2> QED
    BY <2>4 DEF m
<1>6. End + 1 - (End + 1 - i) = i
  BY <1>1
<1>7. PICK g : g = [j \in i..End + 1 |-> ClosingAt(q, j, g)]
  BY <1>5, <1>6
<1> DEFINE c == CHOOSE h : h = [j \in i..End + 1 |-> ClosingAt(q, j, h)]
<1>8. c = [j \in i..End + 1 |-> ClosingAt(q, j, c)]
  BY <1>7
<1>9. Closing(q, i) = c[i]
  BY DEF Closing, ClosingAt, Leading, Ways
<1> HIDE DEF c
<1>10. \A j \in i..End + 1 : c[j] = ClosingAt(q, j, c)
  BY <1>8
<1> QED
  BY <1>9, <1>10

\* The same from above.
LEMMA Downwards ==
    ASSUME NEW S, NEW a \in Nat, NEW b \in Nat, a <= b, b \in S,
           \A j \in a..b - 1 : (\A k \in j + 1..b : k \in S) => j \in S
    PROVE  \A j \in a..b : j \in S
<1> DEFINE T == {n \in 0..b - a : \A k \in b - n..b : k \in S}
<1>1. 0 \in T /\ b - a \in Nat
  OBVIOUS
<1>2. ASSUME NEW n \in 0..(b - a) - 1, n \in T  PROVE n + 1 \in T
  <2>1. b - (n + 1) \in a..b - 1 /\ (b - (n + 1)) + 1 = b - n /\ n + 1 \in 0..b - a
    OBVIOUS
  <2>2. \A k \in b - n..b : k \in S
    BY <1>2
  <2>3. b - (n + 1) \in S
    BY <2>1, <2>2
  <2>4. \A k \in b - (n + 1)..b : k = b - (n + 1) \/ k \in b - n..b
    BY <2>1
  <2> QED
    BY <2>1, <2>2, <2>3, <2>4
<1>3. b - a \in T
  <2>1. \A n \in 0..(b - a) - 1 : n \in T => n + 1 \in T
    BY <1>2
  <2>2. \A n \in 0..b - a : n \in T
    <3> DEFINE m == b - a
    <3>1. m \in Int /\ \A n \in 0..m - 1 : n \in T => n + 1 \in T
      BY <2>1
    <3> HIDE DEF T, m
    <3>2. \A n \in 0..m : n \in T
      BY <1>1, <3>1, Along
    <3> QED
      BY <3>2 DEF m
  <2> HIDE DEF T
  <2> QED
    BY <1>1, <2>2
<1>4. \A k \in b - (b - a)..b : k \in S
  BY <1>3
<1> QED
  BY <1>4

\* The quoted item that begins before j ends at c.
Closes(f, q, j, c) ==
    /\ c \in j..Len(text) /\ At(c) = q
    /\ f[c + 1] = <<"quote", q>> /\ At(c + 1) # q
    /\ \A k \in j..c : f[k][1] \in {"quoted", "escape"} \/ (f[k][1] = "quote" /\ At(k) = q)

\* The search and the reader go on in the same way at each character.
LEMMA QuotedOn ==
    ASSUME NEW f, Read(f), NEW q \in {"'", "double"}, NEW j \in 1..End, NEW g,
           f[j] = <<"quoted", q>>, g[j] = ClosingAt(q, j, g),
           \A k \in {j + 1, j + 2} : k \in 1..End /\ f[k] = <<"quoted", q>> => Closes(f, q, k, g[k])
    PROVE  Closes(f, q, j, g[j])
<1>1. /\ Len(text) \in Nat /\ End = Len(text) + 1 /\ j \in 1..Len(text) /\ text \in Seq(Character)
      /\ At(j) # "eof" /\ f[j][1] = "quoted" /\ f[j][2] = q
  BY LastMode DEF Read, End
<1>2. /\ f[j + 1] = GoesOn(f[j], j) /\ j + 1 \in 1..End
      /\ j + 1 \in 1..Len(text) => f[j + 2] = GoesOn(f[j + 1], j + 1) /\ j + 2 \in 1..End
  <2>1. j + 1 \in 1..Len(text) => f[(j + 1) + 1] = GoesOn(f[j + 1], j + 1)
    BY NextMode
  <2> QED
    BY <1>1, <2>1, NextMode
<1>3. /\ At(j) = q => f[j + 1] = <<"quote", q>>
      /\ At(j) # q /\ At(j) = "\\" => f[j + 1] = <<"escape", q>>
      /\ At(j) # q /\ At(j) = "nl" => f[j + 1] = In("broken")
      /\ At(j) \notin {q, "\\", "nl"} => f[j + 1] = f[j]
  BY <1>1, <1>2, GoesOnInQuotes
<1>4. g[j] = IF \/ Pair(j, q, q) /\ g[j + 2] # None
                \/ At(j) = "\\" /\ At(j + 1) # "eof" /\ g[j + 2] # None
             THEN g[j + 2]
             ELSE IF At(j) \notin {q, "nl", "eof"} /\ g[j + 1] # None THEN g[j + 1]
             ELSE IF At(j) = q THEN j
             ELSE None
  <2>1. Barred(q) = q
    BY DEF Barred
  <2> QED
    BY <2>1, ClosingAtIs
<1>5. ASSUME NEW k \in {j + 1, j + 2}, k \in 1..End, f[k] = <<"quoted", q>>
      PROVE  Closes(f, q, k, g[k]) /\ g[k] # None
  <2>1. Closes(f, q, k, g[k])
    BY <1>5
  <2>2. g[k] \in Nat
    BY <1>1, <1>5, <2>1 DEF Closes
  <2> QED
    BY <2>1, <2>2, NoneAssumption
<1>6. ASSUME NEW n \in {j + 1, j + 2}, Closes(f, q, n, g[n]), g[j] = g[n], n \in 1..End,
             n = j + 2 => f[j + 1][1] = "escape" \/ (f[j + 1][1] = "quote" /\ At(j + 1) = q)
      PROVE  Closes(f, q, j, g[j])
  <2>1. g[j] \in n..Len(text) /\ n \in Nat /\ j \in Nat
    BY <1>1, <1>6 DEF Closes
  <2>2. g[j] \in j..Len(text)
    BY <1>1, <2>1
  <2>3. \A k \in j..g[j] : k = j \/ k \in n..g[j] \/ (k = j + 1 /\ n = j + 2)
    BY <2>1
  <2>4. ASSUME NEW k \in j..g[j]
        PROVE  f[k][1] \in {"quoted", "escape"} \/ (f[k][1] = "quote" /\ At(k) = q)
    <3>1. CASE k = j
      BY <1>1, <3>1
    <3>2. CASE k \in n..g[j]
      BY <1>6, <3>2 DEF Closes
    <3>3. CASE k = j + 1 /\ n = j + 2
      BY <1>6, <3>3
    <3> QED
      BY <2>3, <3>1, <3>2, <3>3
  <2> QED
    BY <1>6, <2>2, <2>4 DEF Closes
<1>7. CASE At(j) = q
  <2>0. f[j + 1][1] = "quote" /\ f[j + 1][2] = q
    BY <1>3, <1>7
  <2>1. CASE At(j + 1) = q
    <3>1. j + 1 \in 1..Len(text)
      BY <1>1, <1>2, <2>1, PlacesOfCharacters
    <3>2. f[j + 2] = <<"quoted", q>> /\ j + 2 \in 1..End
      BY <1>2, <2>0, <2>1, <3>1, GoesOnAs
    <3>3. Closes(f, q, j + 2, g[j + 2]) /\ g[j + 2] # None
      BY <1>5, <3>2
    <3>4. g[j] = g[j + 2]
      BY <1>4, <1>7, <2>1, <3>3 DEF Pair
    <3> QED
      BY <1>6, <2>0, <2>1, <3>2, <3>3, <3>4
  <2>2. CASE At(j + 1) # q
    <3>1. g[j] = j
      BY <1>4, <1>7, <2>2 DEF Pair
    <3> QED
      BY <1>1, <1>3, <1>7, <2>2, <3>1 DEF Closes
  <2> QED
    BY <2>1, <2>2
<1>8. CASE At(j) = "\\"
  <2>1. f[j + 1] = <<"escape", q>> /\ f[j + 1][1] = "escape" /\ f[j + 1][2] = q
    BY <1>3, <1>8
  <2>2. j + 1 \in 1..Len(text) /\ At(j + 1) # "eof"
    BY <1>2, <2>1, LastMode
  <2>3. j + 2 \in 1..End /\ f[j + 2] = <<"quoted", q>>
    <3>1. j + 2 \in 1..End /\ f[j + 2] = GoesOn(f[j + 1], j + 1)
      BY <1>2, <2>2
    <3>2. f[j + 2] = IF At(j + 1) \in Digit \cup {"x"} THEN In("broken") ELSE <<"quoted", q>>
      BY <2>1, <3>1, GoesOnAs
    <3>3. f[j + 2][1] # "broken"
      BY <3>1, NeverBroken
    <3> QED
      BY <3>1, <3>2, <3>3 DEF In
  <2>4. Closes(f, q, j + 2, g[j + 2]) /\ g[j + 2] # None
    BY <1>5, <2>3
  <2>5. g[j] = g[j + 2]
    BY <1>4, <1>8, <2>2, <2>4
  <2>6. j + 2 \in {j + 1, j + 2}
    OBVIOUS
  <2> QED
    BY <1>6, <2>1, <2>3, <2>4, <2>5, <2>6
<1>9. CASE At(j) \notin {q, "\\"}
  <2>1. At(j) # "nl"
    <3>1. f[j + 1][1] # "broken"
      BY <1>2, NeverBroken
    <3> QED
      BY <1>3, <1>9, <3>1 DEF In
  <2>2. f[j + 1] = <<"quoted", q>>
    BY <1>3, <1>9, <2>1
  <2>3. Closes(f, q, j + 1, g[j + 1]) /\ g[j + 1] # None
    BY <1>2, <1>5, <2>2
  <2>4. g[j] = g[j + 1]
    BY <1>1, <1>4, <1>9, <2>1, <2>3 DEF Pair
  <2>5. j + 1 \in {j + 1, j + 2} /\ j + 1 # j + 2
    BY <1>1
  <2> QED
    BY <1>2, <1>6, <2>3, <2>4, <2>5
<1> QED
  BY <1>7, <1>8, <1>9

LEMMA QuotesClose ==
    ASSUME NEW f, Read(f), NEW q \in {"'", "double"}, NEW i \in 1..Len(text), At(i) = q,
           f[i + 1] = <<"quoted", q>>
    PROVE  /\ Closes(f, q, i + 1, Closing(q, i + 1))
           /\ quoted(q, i) = Closing(q, i + 1) + 1
<1>1. Len(text) \in Nat /\ End = Len(text) + 1 /\ i + 1 \in 1..End /\ text \in Seq(Character)
  BY DEF Read, End
<1>2. PICK g : /\ Closing(q, i + 1) = g[i + 1]
               /\ \A j \in i + 1..End + 1 : g[j] = ClosingAt(q, j, g)
  BY <1>1, ClosingsAre
<1> DEFINE S == {j \in i + 1..End : f[j] = <<"quoted", q>> => Closes(f, q, j, g[j])}
<1>3. End \in S
  <2>1. f[End] # <<"quoted", q>>
    BY DEF Read, WellFormed, Free
  <2> QED
    BY <1>1, <2>1
<1>4. ASSUME NEW j \in i + 1..End - 1, \A k \in j + 1..End : k \in S
      PROVE  j \in S
  <2>1. \A k \in {j + 1, j + 2} : k \in 1..End => k \in j + 1..End
    BY <1>1
  <2>2. \A k \in {j + 1, j + 2} : k \in 1..End /\ f[k] = <<"quoted", q>> => Closes(f, q, k, g[k])
    BY <1>4, <2>1
  <2>3. j \in 1..End /\ j \in i + 1..End /\ j \in i + 1..End + 1
    BY <1>1
  <2>4. f[j] = <<"quoted", q>> => Closes(f, q, j, g[j])
    BY <1>2, <2>2, <2>3, QuotedOn
  <2> QED
    BY <2>3, <2>4
<1>5. i + 1 \in S
  <2>1. \A j \in i + 1..End - 1 : (\A k \in j + 1..End : k \in S) => j \in S
    BY <1>4
  <2>2. i + 1 \in Nat /\ End \in Nat /\ i + 1 <= End /\ i + 1 \in i + 1..End
    BY <1>1
  <2> HIDE DEF S
  <2> QED
    BY <1>3, <2>1, <2>2, Downwards
<1>6. Closes(f, q, i + 1, Closing(q, i + 1))
  BY <1>2, <1>5
<1> QED
  BY <1>6 DEF quoted, Closes

--------------------------------------------------------------------------------
(* Each rule takes the reader from one place between two tokens to the next,   *)
(* and what lies between them is of one kind: no character of a term, or       *)
(* nothing else but blanks.                                                    *)

\* Behind the blanks at i there is no digit.
NoDigitBehind(i) == \A k \in i..End : (\A l \in i..k - 1 : At(l) = "sp") => At(k) \notin Digit

(* The tokenizer may be at i, between two tokens: the reader is in the middle  *)
(* of nothing that the next character goes on with, except for the blanks      *)
(* behind a number.                                                            *)
Ready(f, i) ==
    /\ i \in 1..End
    /\ f[i][1] \in Free \cup {"symbol", "line"}
    /\ f[i][1] = "line" => i = End \/ At(i) = "nl"
    /\ \/ i = End
       \/ f[i + 1] = Begins(i)
       \/ At(i) = "sp" /\ f[i + 1] = In("gap") /\ NoDigitBehind(i)

\* What lies from i to before j is no character of a term, or is one.
Skipped(f, i, j)  == \A k \in i..j - 1 : k \notin Words(f) \cup Stops(f) \cup Invalid(f)
Gathers(f, i, j) ==
    /\ \A k \in i..j - 1 : At(k) \in Layout \/ k \in Words(f)
    /\ \E k \in i..j - 1 : k \in Words(f)

LEMMA Places ==
    ASSUME NEW f, Read(f)
    PROVE  /\ text \in Seq(Character) /\ Len(text) \in Nat /\ End = Len(text) + 1
           /\ \A j \in Int : At(j) # "eof" <=> j \in 1..Len(text)
           /\ \A j \in 1..End : IsPlace(j) /\ j \in Nat
           /\ \A j \in 1..Len(text) : At(j) \in Character
<1>1. text \in Seq(Character)
  BY DEF Read
<1> QED
  BY <1>1, PlacesOfCharacters DEF IsPlace, End

LEMMA ReadyBehindNothing ==
    ASSUME NEW f, Read(f), NEW i \in 1..End, f[i][1] = "between"
    PROVE  Ready(f, i)
<1>1. i = End \/ i \in 1..Len(text)
  BY Places
<1>2. i \in 1..Len(text) => f[i + 1] = Begins(i)
  BY NextMode, GoesOnAs
<1> QED
  BY <1>1, <1>2 DEF Ready, Free

LEMMA BeginsHere ==
    ASSUME NEW f, Read(f), NEW i, Ready(f, i), At(i) \notin {"sp", "eof"}
    PROVE  /\ i \in 1..Len(text) /\ i + 1 \in 1..End
           /\ f[i + 1] = Begins(i)
           /\ f[i][1] \in Free \cup {"symbol", "line"}
           /\ At(i) # "nl" => f[i][1] \in Free \cup {"symbol"} /\ f[i][1] \notin Remark
<1>1. i \in 1..Len(text) /\ i + 1 \in 1..End /\ i # End
  BY Places DEF Ready
<1>2. At(i) # "nl" => f[i][1] \in Free \cup {"symbol"}
  BY <1>1 DEF Ready
<1>3. \A x \in Free \cup {"symbol"} : x \notin Remark
  BY DEF Free, Remark
<1> QED
  BY <1>1, <1>2, <1>3 DEF Ready

LEMMA ReadsEnd ==
    ASSUME NEW f, Read(f), NEW i, Ready(f, i), end(i) > i
    PROVE  end(i) = i + 1 /\ i \in Stops(f) /\ Ready(f, i + 1)
<1>0. i \in Nat
  BY Places DEF Ready
<1>1. end(i) = i + 1 /\ FullStop(i) /\ At(i) = "."
  BY <1>0 DEF end, FullStop
<1>2. /\ i \in 1..Len(text) /\ i + 1 \in 1..End /\ f[i + 1] = Begins(i)
      /\ f[i][1] \in Free \cup {"symbol"}
  BY <1>1, BeginsHere
<1>3. f[i + 1] = In("between") /\ f[i + 1][1] = "between"
  BY <1>1, <1>2, BeginsAs DEF In
<1>4. f[i][1] # "symbol"
  <2>1. f[i][1] = "symbol" => f[i + 1] = f[i]
    BY <1>1, <1>2, NextMode, GoesOnAs DEF SymbolChar
  <2> QED
    BY <1>3, <2>1
<1>5. Ready(f, i + 1)
  BY <1>2, <1>3, ReadyBehindNothing
<1> QED
  BY <1>1, <1>2, <1>4, <1>5 DEF Stops

\* A word is what is none of the others.
LEMMA IsAWord ==
    ASSUME NEW f, NEW k \in 1..Len(text), At(k) \notin Layout,
           f[k][1] \notin Remark, f[k + 1][1] \notin {"line", "opening"},
           FullStop(k) => f[k][1] \notin Free,
           At(k) = "other" => f[k][1] \notin Free \cup {"symbol"}
    PROVE  k \in Words(f)
  BY DEF Words, Stops, Invalid, Comments

LEMMA NoStop ==
    ASSUME NEW k, At(k) # "."
    PROVE  ~ FullStop(k)
  BY DEF FullStop

LEMMA ReadsSolo ==
    ASSUME NEW f, Read(f), NEW i, Ready(f, i), At(i) \in Solo
    PROVE  Ready(f, i + 1) /\ Gathers(f, i, i + 1)
<1>1. /\ At(i) \notin {"sp", "eof", "nl", ".", "other"} /\ At(i) \notin Layout
  BY DEF Solo, Layout
<1>2. /\ i \in 1..Len(text) /\ i + 1 \in 1..End /\ f[i + 1] = Begins(i)
      /\ f[i][1] \notin Remark
  BY <1>1, BeginsHere
<1>3. f[i + 1][1] = "between"
  BY <1>2, BeginsAs DEF In
<1>4. i \in Words(f)
  BY <1>1, <1>2, <1>3, IsAWord, NoStop
<1>5. i..i + 1 - 1 = {i}
  BY <1>2
<1>6. Ready(f, i + 1)
  BY <1>2, <1>3, ReadyBehindNothing
<1> QED
  BY <1>4, <1>5, <1>6 DEF Gathers

\* What the reader is in the middle of behind layout.
Blank(f, i, k) ==
    \/ f[k] = In("between")
    \/ f[k] = In("gap") /\ NoDigitBehind(i) /\ \A l \in i..k - 1 : At(l) = "sp"

LEMMA LayoutModes ==
    ASSUME NEW f, Read(f), NEW i, Ready(f, i), At(i) \in Layout
    PROVE  /\ EndOfRun(Layout, i) \in i + 1..End
           /\ \A k \in i..EndOfRun(Layout, i) - 1 : At(k) \in Layout
           /\ \A k \in i + 1..EndOfRun(Layout, i) : Blank(f, i, k)
           /\ At(EndOfRun(Layout, i)) \notin Layout
<1> DEFINE j == EndOfRun(Layout, i)
<1>1. /\ j \in i + 1..End /\ \A k \in i..j - 1 : At(k) \in Layout
      /\ At(j) \notin Layout
  <2>1. "eof" \notin Layout
    BY DEF Layout
  <2> QED
    BY <2>1, RunsEnd, Places DEF Ready
<1> HIDE DEF j
<1>2. Len(text) \in Nat /\ End = Len(text) + 1 /\ i \in 1..Len(text) /\ j \in Nat
  BY <1>1, Places DEF Ready
<1> DEFINE S == {k \in i + 1..j : Blank(f, i, k)}
<1>3. i + 1 \in S
  <2>1. f[i + 1] = Begins(i) => f[i + 1] = In("between")
    BY BeginsAs
  <2>2. \A l \in i..(i + 1) - 1 : l = i
    BY <1>2
  <2>3. Blank(f, i, i + 1)
    BY <1>2, <2>1, <2>2 DEF Ready, Blank
  <2> QED
    BY <1>1, <1>2, <2>3
<1>4. ASSUME NEW k \in i + 1..j - 1, k \in S  PROVE k + 1 \in S
  <2>1. k \in 1..Len(text) /\ k + 1 \in i + 1..j /\ k \in i..j - 1
    BY <1>1, <1>2
  <2>2. f[k + 1] = GoesOn(f[k], k) /\ At(k) \in Layout
    BY <1>1, <2>1, NextMode
  <2>3. CASE f[k] = In("between")
    <3>1. f[k + 1] = In("between")
      BY <2>2, <2>3, GoesOnAs, BeginsAs DEF In
    <3> QED
      BY <2>1, <3>1 DEF Blank
  <2>4. CASE /\ f[k] = In("gap") /\ NoDigitBehind(i) /\ \A l \in i..k - 1 : At(l) = "sp"
    <3>1. CASE At(k) = "sp"
      <4>1. f[k + 1] = In("gap")
        BY <2>2, <2>4, <3>1, GoesOnInNumbers DEF In
      <4>2. \A l \in i..(k + 1) - 1 : l = k \/ l \in i..k - 1
        BY <1>2, <2>1
      <4> QED
        BY <2>1, <2>4, <3>1, <4>1, <4>2 DEF Blank
    <3>2. CASE At(k) # "sp"
      <4>1. At(k) \notin Digit \cup {"sp"}
        BY <2>2, <3>2 DEF Layout, Digit
      <4>2. f[k + 1] = In("between")
        BY <2>2, <2>4, <4>1, GoesOnInNumbers, BeginsAs DEF In
      <4> QED
        BY <2>1, <4>2 DEF Blank
    <3> QED
      BY <3>1, <3>2
  <2> QED
    BY <1>4, <2>3, <2>4 DEF Blank
<1>5. \A k \in i + 1..j : k \in S
  <2>1. \A k \in i + 1..j - 1 : k \in S => k + 1 \in S
    BY <1>4
  <2>2. i + 1 \in Nat /\ j \in Int
    BY <1>2
  <2> HIDE DEF S
  <2> QED
    BY <1>3, <2>1, <2>2, Along
<1> QED
  BY <1>1, <1>5 DEF j

LEMMA ReadsLayout ==
    ASSUME NEW f, Read(f), NEW i, Ready(f, i), At(i) \in Layout
    PROVE  /\ Ready(f, ws(i)) /\ Skipped(f, i, ws(i))
           /\ At(ws(i)) = "(" => Ready(f, ws(i) + 1) /\ Gathers(f, i, ws(i) + 1)
<1> DEFINE j == EndOfRun(Layout, i)
<1>1. /\ j \in i + 1..End /\ \A k \in i..j - 1 : At(k) \in Layout
      /\ Blank(f, i, j) /\ At(j) \notin Layout
  <2>1. /\ EndOfRun(Layout, i) \in i + 1..End
        /\ \A k \in i..EndOfRun(Layout, i) - 1 : At(k) \in Layout
        /\ \A k \in i + 1..EndOfRun(Layout, i) : Blank(f, i, k)
        /\ At(EndOfRun(Layout, i)) \notin Layout
    BY LayoutModes
  <2>2. j \in i + 1..j
    BY <2>1, Places DEF Ready
  <2> QED
    BY <2>1, <2>2
<1>2. ws(i) = j
  BY DEF ws
<1> HIDE DEF j
<1>3. Len(text) \in Nat /\ End = Len(text) + 1 /\ i \in 1..Len(text) /\ j \in 1..End
  BY <1>1, Places DEF Ready
<1>4. Skipped(f, i, j)
  BY <1>1 DEF Skipped, Words, Stops, Invalid, FullStop, Layout
<1>5. f[j] = In("gap") => At(j) \notin Digit \cup {"sp"}
  <2>1. j \in i..End
    BY <1>3, <1>1
  <2>2. f[j] = In("gap") => At(j) \notin Digit
    BY <1>1, <2>1 DEF Blank, NoDigitBehind, In
  <2> QED
    BY <1>1, <2>2 DEF Layout
<1>6. j \in 1..Len(text) => f[j + 1] = Begins(j)
  BY <1>1, <1>5, NextMode, GoesOnAs, GoesOnInNumbers DEF Blank, In
<1>7. f[j][1] \in Free /\ f[j][1] # "line"
  BY <1>1 DEF Blank, In, Free
<1>8. Ready(f, j)
  BY <1>3, <1>6, <1>7 DEF Ready
<1>9. ASSUME At(j) = "("  PROVE Ready(f, j + 1) /\ Gathers(f, i, j + 1)
  <2>1. At(j) \in Solo
    BY <1>9 DEF Solo
  <2>2. Ready(f, j + 1) /\ Gathers(f, j, j + 1)
    BY <1>8, <2>1, ReadsSolo
  <2>3. \A k \in i..(j + 1) - 1 : k \in i..j - 1 \/ k \in j..(j + 1) - 1
    BY <1>3
  <2>4. \A k \in j..(j + 1) - 1 : k \in i..(j + 1) - 1
    BY <1>1, <1>3
  <2> QED
    BY <1>1, <2>2, <2>3, <2>4 DEF Gathers
<1> QED
  BY <1>2, <1>4, <1>8, <1>9

\* The reader stays in the middle of something over a run of characters.
LEMMA ModeStays ==
    ASSUME NEW f, Read(f), NEW a \in 1..End, NEW b \in a..End, NEW what,
           f[a][1] = what,
           \A k \in a..b - 1 : k \in 1..Len(text) /\ f[k][1] = what => f[k + 1][1] = what
    PROVE  \A k \in a..b : f[k][1] = what
<1> DEFINE S == {k \in a..b : f[k][1] = what}
<1>1. Len(text) \in Nat /\ End = Len(text) + 1 /\ a \in Nat /\ b \in Nat /\ b <= End
  BY Places
<1>2. \A k \in a..b - 1 : k \in S => k + 1 \in S
  BY <1>1
<1>3. a \in S
  BY <1>1
<1>4. a \in Nat /\ b \in Int
  BY <1>1
<1>5. \A k \in a..b : k \in S
  <2> HIDE DEF S
  <2> QED
    BY <1>2, <1>3, <1>4, Along
<1> QED
  BY <1>5

LEMMA ReadsLineComment ==
    ASSUME NEW f, Read(f), NEW i, Ready(f, i), At(i) = "%"
    PROVE  LET j == line_comment(i) IN j > i /\ Ready(f, j) /\ Skipped(f, i, j)
<1> DEFINE j == EndOfRun(Character \ {"nl"}, i)
<1>1. /\ i \in 1..Len(text) /\ i + 1 \in 1..End /\ f[i + 1] = In("line")
  BY BeginsHere, BeginsAs
<1>2. /\ j \in i + 1..End /\ At(j) \notin Character \ {"nl"}
      /\ \A k \in i..j - 1 : At(k) \in Character \ {"nl"}
  <2>1. "eof" \notin Character \ {"nl"} /\ "%" \in Character \ {"nl"}
    BY PlacesOfCharacters, Places DEF Character
  <2>2. IsPlace(i)
    BY <1>1, Places
  <2> QED
    BY <2>1, <2>2, RunsEnd
<1>3. line_comment(i) = j
  BY DEF line_comment
<1> HIDE DEF j
<1>4. Len(text) \in Nat /\ End = Len(text) + 1 /\ j \in 1..End
  BY <1>1, <1>2, Places
<1>5. \A k \in i + 1..j : f[k][1] = "line"
  <2>1. ASSUME NEW k \in i + 1..j - 1, f[k][1] = "line"  PROVE f[k + 1][1] = "line"
    <3>1. k \in 1..Len(text) /\ k \in i..j - 1
      BY <1>1, <1>2, <1>4
    <3> QED
      BY <1>2, <2>1, <3>1, NextMode, GoesOnAs
  <2>2. f[i + 1][1] = "line"
    BY <1>1 DEF In
  <2> QED
    BY <1>1, <1>2, <2>1, <2>2, ModeStays
<1>6. j = End \/ At(j) = "nl"
  BY <1>2, <1>4, Places
<1>7. f[j][1] = "line"
  BY <1>1, <1>2, <1>5
<1>8. j # End => f[j + 1] = Begins(j)
  <2> SUFFICES ASSUME j # End  PROVE f[j + 1] = Begins(j)
    OBVIOUS
  <2>1. j \in 1..Len(text) /\ At(j) = "nl"
    BY <1>4, <1>6
  <2> QED
    BY <1>7, <2>1, NextMode, GoesOnAs, BeginsAs DEF Layout
<1>9. Ready(f, j)
  BY <1>4, <1>6, <1>7, <1>8 DEF Ready
<1>10. ASSUME NEW k \in i..j - 1
       PROVE  k \notin Words(f) \cup Stops(f) \cup Invalid(f)
  <2>1. CASE k = i
    BY <1>1, <2>1 DEF Words, Comments, Stops, Invalid, FullStop, In
  <2>2. CASE k # i
    <3>1. k \in i + 1..j
      BY <1>1, <1>4, <2>2
    <3>2. f[k][1] = "line"
      BY <1>5, <3>1
    <3> QED
      BY <3>2 DEF Words, Comments, Stops, Invalid, Remark, Free
  <2> QED
    BY <2>1, <2>2
<1>11. j > i
  BY <1>1, <1>2
<1> QED
  BY <1>3, <1>9, <1>10, <1>11 DEF Skipped

LEMMA ReadsBlockComment ==
    ASSUME NEW f, Read(f), NEW i, Ready(f, i), Pair(i, "/", "*")
    PROVE  LET j == block_comment(i) IN j > i /\ Ready(f, j) /\ Skipped(f, i, j)
<1> DEFINE closings == {j \in i + 2..End : Pair(j, "*", "/")}
<1>1. /\ i \in 1..Len(text) /\ i + 1 \in 1..Len(text) /\ i + 2 \in 1..End
      /\ f[i + 1] = In("opening") /\ f[i + 2] = In("block")
      /\ At(i) = "/" /\ At(i + 1) = "*"
  <2>1. At(i) = "/" /\ At(i + 1) = "*"
    BY DEF Pair
  <2>2. i \in 1..Len(text) /\ i + 1 \in 1..End /\ f[i + 1] = In("opening")
    BY <2>1, BeginsHere, BeginsAs
  <2>3. i + 1 \in 1..Len(text) /\ i + 2 \in 1..End
    BY <2>1, <2>2, Places
  <2>4. f[i + 1 + 1] = GoesOn(f[i + 1], i + 1)
    BY <2>3, NextMode
  <2>5. f[i + 2] = In("block")
    BY <2>2, <2>3, <2>4, GoesOnAs DEF In
  <2> QED
    BY <2>1, <2>2, <2>3, <2>5
<1>2. Len(text) \in Nat /\ End = Len(text) + 1
  BY Places
<1>3. ASSUME NEW b \in i + 2..End, \A k \in i + 2..b - 1 : ~ Pair(k, "*", "/")
      PROVE  \A k \in i + 2..b : f[k][1] = "block"
  <2>1. ASSUME NEW k \in i + 2..b - 1, k \in 1..Len(text) /\ f[k][1] = "block"
        PROVE  f[k + 1][1] = "block"
    BY <1>3, <2>1, NextMode, GoesOnAs
  <2>2. f[i + 2][1] = "block"
    BY <1>1 DEF In
  <2> QED
    BY <1>1, <2>1, <2>2, ModeStays
<1>4. closings # {}
  <2> SUFFICES ASSUME closings = {}  PROVE FALSE
    OBVIOUS
  <2>1. End \in i + 2..End
    BY <1>1, <1>2
  <2>2. f[End][1] = "block"
    BY <1>2, <1>3, <2>1
  <2> QED
    BY <1>2, <2>2, LastMode
<1> DEFINE j == First(closings)
<1>5. j \in i + 2..End /\ Pair(j, "*", "/") /\ \A k \in i + 2..j - 1 : ~ Pair(k, "*", "/")
  <2>1. closings \subseteq Nat
    BY <1>1, <1>2
  <2>2. j \in closings /\ \A k \in closings : j <= k
    <3> HIDE DEF closings
    <3> QED
      BY <1>4, <2>1, FirstIsLeast
  <2> HIDE DEF j
  <2>3. \A k \in i + 2..j - 1 : k \in i + 2..End /\ ~ j <= k
    BY <1>2, <2>2
  <2> QED
    BY <2>2, <2>3
<1>6. block_comment(i) = j + 2
  BY <1>4 DEF block_comment
<1> HIDE DEF j, closings
<1>7. /\ j \in 1..Len(text) /\ j + 1 \in 1..Len(text) /\ j + 2 \in 1..End
      /\ At(j) = "*" /\ At(j + 1) = "/"
  <2>1. At(j) = "*" /\ At(j + 1) = "/" /\ j \in 1..End
    BY <1>1, <1>2, <1>5 DEF Pair
  <2> QED
    BY <1>2, <2>1, Places
<1>8. \A k \in i + 2..j : f[k][1] = "block"
  BY <1>3, <1>5
<1>9. f[j + 1][1] = "closing" /\ f[j + 2][1] = "between"
  <2>1. f[j][1] = "block"
    BY <1>1, <1>5, <1>8
  <2>2. f[j + 1] = GoesOn(f[j], j) /\ f[j + 1 + 1] = GoesOn(f[j + 1], j + 1)
    BY <1>7, NextMode
  <2>3. f[j + 1] = In("closing")
    BY <1>5, <2>1, <2>2, GoesOnAs
  <2>4. f[j + 1 + 1] = In("between")
    BY <2>2, <2>3, GoesOnAs DEF In
  <2>5. j + 1 + 1 = j + 2
    BY <1>7
  <2> QED
    BY <2>3, <2>4, <2>5 DEF In
<1>10. Ready(f, j + 2)
  BY <1>7, <1>9, ReadyBehindNothing
<1>11. ASSUME NEW k \in i..(j + 2) - 1
       PROVE  k \notin Words(f) \cup Stops(f) \cup Invalid(f)
  <2>1. CASE k = i
    BY <1>1, <2>1 DEF Words, Comments, Stops, Invalid, FullStop, In
  <2>2. CASE k # i
    <3>1. k = i + 1 \/ k \in i + 2..j \/ k = j + 1
      BY <1>1, <1>5, <1>7, <2>2
    <3>2. f[k][1] \in {"opening", "block", "closing"}
      BY <1>1, <1>8, <1>9, <3>1 DEF In
    <3> QED
      BY <3>2 DEF Words, Comments, Stops, Invalid, Remark, Free
  <2> QED
    BY <2>1, <2>2
<1>12. j + 2 > i
  BY <1>1, <1>5, <1>7
<1> QED
  BY <1>6, <1>10, <1>11, <1>12 DEF Skipped

LEMMA ReadsQuoted ==
    ASSUME NEW f, Read(f), NEW i, Ready(f, i), NEW q \in {"'", "double"}, At(i) = q
    PROVE  LET j == quoted(q, i) IN j > i /\ Ready(f, j) /\ Gathers(f, i, j)
<1>1. /\ i \in 1..Len(text) /\ i + 1 \in 1..End /\ f[i + 1] = <<"quoted", q>>
      /\ f[i][1] \notin Remark
  BY BeginsHere, BeginsAs
<1>2. Len(text) \in Nat /\ End = Len(text) + 1
  BY Places
<1> DEFINE c == Closing(q, i + 1)
<1>3. Closes(f, q, i + 1, c) /\ quoted(q, i) = c + 1
  BY <1>1, QuotesClose
<1> HIDE DEF c
<1>4. /\ c \in i + 1..Len(text) /\ At(c) = q
      /\ f[c + 1] = <<"quote", q>> /\ At(c + 1) # q
      /\ \A k \in i + 1..c : f[k][1] \in {"quoted", "escape"} \/ (f[k][1] = "quote" /\ At(k) = q)
  BY <1>3 DEF Closes
<1>5. Ready(f, c + 1)
  <2>1. c + 1 \in 1..End /\ (c + 1 = End \/ c + 1 \in 1..Len(text))
    BY <1>1, <1>2, <1>4
  <2>2. f[c + 1][1] = "quote" /\ f[c + 1][2] = q
    BY <1>4
  <2>3. c + 1 \in 1..Len(text) => f[c + 1 + 1] = Begins(c + 1)
    BY <1>4, <2>2, NextMode, GoesOnAs
  <2> QED
    BY <2>1, <2>2, <2>3 DEF Ready, Free
<1>6. ASSUME NEW k \in i..(c + 1) - 1, At(k) \notin Layout
      PROVE  k \in Words(f)
  <2>1. k \in 1..Len(text) /\ (k = i \/ k \in i + 1..c)
    BY <1>1, <1>4, <1>2
  <2>2. k + 1 \in i + 1..c \/ k + 1 = c + 1
    BY <1>1, <1>4, <1>2
  <2>3. f[k + 1][1] \in {"quoted", "escape", "quote"}
    BY <1>4, <2>2
  <2>4. CASE k = i
    BY <1>1, <1>6, <2>1, <2>3, <2>4, IsAWord, NoStop
  <2>5. CASE k \in i + 1..c
    <3>1. f[k][1] \in {"quoted", "escape"} \/ (f[k][1] = "quote" /\ At(k) = q)
      BY <1>4, <2>5
    <3>2. f[k][1] \notin Remark
      BY <3>1 DEF Remark
    <3>3. FullStop(k) => f[k][1] \notin Free
      BY <3>1, NoStop DEF Free
    <3>4. At(k) = "other" => f[k][1] \notin Free \cup {"symbol"}
      BY <3>1 DEF Free
    <3> QED
      BY <1>6, <2>1, <2>3, <3>2, <3>3, <3>4, IsAWord
  <2> QED
    BY <2>1, <2>4, <2>5
<1>7. i \in i..(c + 1) - 1 /\ At(i) \notin Layout /\ c + 1 > i
  BY <1>1, <1>4 DEF Layout
<1> QED
  BY <1>3, <1>5, <1>6, <1>7 DEF Gathers

\* Behind a run of characters that a mode goes on with, something else begins.
LEMMA ReadsRun ==
    ASSUME NEW f, Read(f), NEW a \in 1..End, NEW j \in a..End, NEW set,
           At(j) \notin set, \A k \in a..j - 1 : At(k) \in set,
           NEW what \in {"octal", "radix", "hexadecimal", "name", "symbol"}, f[a][1] = what,
           what \in {"octal", "radix"} => set = Digit,
           what = "hexadecimal" => set = Hex, what = "name" => set = Alnum,
           what = "symbol" => set = SymbolChar
    PROVE  (\A k \in a..j : f[k][1] = what) /\ Ready(f, j)
<1>1. Len(text) \in Nat /\ End = Len(text) + 1 /\ j \in 1..End /\ j \in a..j
  BY Places
<1>2. ASSUME NEW k \in 1..Len(text), f[k][1] = what
      PROVE  /\ At(k) \in set => f[k + 1] = f[k]
             /\ At(k) \notin set => f[k + 1] = Begins(k)
  <2>1. f[k + 1] = GoesOn(f[k], k)
    BY NextMode
  <2>2. k + 1 \in 1..End
    BY <1>1
  <2>3. f[k + 1][1] # "broken"
    BY <2>2, NeverBroken
  <2>4. CASE what = "octal"
    BY <1>2, <2>1, <2>3, <2>4, GoesOnInCodes DEF In
  <2>5. CASE what = "radix"
    BY <1>2, <2>1, <2>5, GoesOnAs
  <2>6. CASE what = "name"
    BY <1>2, <2>1, <2>6, GoesOnAs
  <2>7. CASE what = "symbol"
    BY <1>2, <2>1, <2>7, GoesOnAs
  <2>8. CASE what = "hexadecimal"
    BY <1>2, <2>1, <2>8, GoesOnAs
  <2> QED
    BY <2>4, <2>5, <2>6, <2>7, <2>8
<1>3. \A k \in a..j : f[k][1] = what
  <2>1. \A k \in a..j - 1 : k \in 1..Len(text) /\ f[k][1] = what => f[k + 1][1] = what
    BY <1>2
  <2> QED
    BY <2>1, ModeStays
<1>4. f[j][1] = what /\ what \in Free \cup {"symbol"} /\ what # "line"
  BY <1>1, <1>3 DEF Free
<1>5. j \in 1..Len(text) => f[j + 1] = Begins(j)
  BY <1>2, <1>4
<1>6. j = End \/ j \in 1..Len(text)
  BY <1>1
<1>7. Ready(f, j)
  BY <1>1, <1>4, <1>5, <1>6 DEF Ready
<1> QED
  BY <1>3, <1>7

\* What the sets of characters have in common.
LEMMA Sets ==
    /\ "eof" \notin Digit /\ "eof" \notin Alnum /\ "eof" \notin SymbolChar
    /\ "eof" \notin Hex
    /\ \A c \in Digit : c \in Alnum /\ c \in Hex
    /\ \A c \in Hex \cup Letter : c \in Alnum
    /\ "x" \in Letter /\ "x" \notin Hex /\ "\\" \notin Hex
    /\ \A c \in Alnum \cup SymbolChar : c \notin Layout /\ c # "other" /\ c # "sp" /\ c # "eof" /\ c # "nl"
    /\ \A c \in Alnum : c # "." /\ c \notin Quote
  BY DEF Digit, Hex, Letter, Alnum, SymbolChar, Layout, Quote

LEMMA ReadsName ==
    ASSUME NEW f, Read(f), NEW i, Ready(f, i), At(i) \in Letter
    PROVE  LET j == name(i) IN j > i /\ Ready(f, j) /\ Gathers(f, i, j)
<1>1. /\ i \in 1..Len(text) /\ i + 1 \in 1..End /\ f[i + 1] = In("name")
      /\ f[i][1] \notin Remark
  BY BeginsHere, BeginsAs, Sets
<1>2. Len(text) \in Nat /\ End = Len(text) + 1
  BY Places
<1> DEFINE j == EndOfRun(Alnum, i)
<1>3. /\ j \in i + 1..End /\ At(j) \notin Alnum /\ \A k \in i..j - 1 : At(k) \in Alnum
      /\ name(i) = j
  <2>1. IsPlace(i) /\ At(i) \in Alnum
    BY <1>1, Places, Sets
  <2> QED
    BY <2>1, RunsEnd, Sets DEF name
<1>4. f[i + 1][1] = "name"
  BY <1>1 DEF In
<1> HIDE DEF j
<1>5. (\A k \in i + 1..j : f[k][1] = "name") /\ Ready(f, j)
  <2>1. \A k \in i + 1..j - 1 : At(k) \in Alnum
    BY <1>1, <1>3
  <2> QED
    BY <1>1, <1>3, <1>4, <2>1, ReadsRun
<1>7. ASSUME NEW k \in i..j - 1  PROVE k \in Words(f)
  <2>1. k \in 1..Len(text) /\ k + 1 \in i + 1..j /\ (k = i \/ k \in i + 1..j)
    BY <1>1, <1>2, <1>3
  <2>2. f[k + 1][1] = "name" /\ f[k][1] \notin Remark
    BY <1>1, <1>5, <2>1 DEF Remark
  <2>3. At(k) \notin Layout /\ At(k) # "." /\ At(k) # "other"
    BY <1>3, Sets
  <2> QED
    BY <2>1, <2>2, <2>3, IsAWord, NoStop
<1>8. i \in i..j - 1 /\ j > i
  BY <1>1, <1>3
<1> QED
  BY <1>3, <1>5, <1>7, <1>8 DEF Gathers

LEMMA ReadsSymbol ==
    ASSUME NEW f, Read(f), NEW i, Ready(f, i), At(i) \in SymbolChar, ~ FullStop(i),
           ~ Pair(i, "/", "*")
    PROVE  LET j == symbol(i) IN j > i /\ Ready(f, j) /\ Gathers(f, i, j)
<1>1. /\ i \in 1..Len(text) /\ i + 1 \in 1..End /\ f[i + 1] = In("symbol")
      /\ f[i][1] \notin Remark
  BY BeginsHere, BeginsAs, Sets
<1>2. Len(text) \in Nat /\ End = Len(text) + 1
  BY Places
<1> DEFINE j == EndOfRun(SymbolChar, i)
<1>3. /\ j \in i + 1..End /\ At(j) \notin SymbolChar /\ \A k \in i..j - 1 : At(k) \in SymbolChar
      /\ symbol(i) = j
  <2>1. IsPlace(i)
    BY <1>1, <1>2, Places
  <2> QED
    BY <2>1, RunsEnd, Sets DEF symbol
<1>4. f[i + 1][1] = "symbol"
  BY <1>1 DEF In
<1> HIDE DEF j
<1>5. (\A k \in i + 1..j : f[k][1] = "symbol") /\ Ready(f, j)
  <2>1. \A k \in i + 1..j - 1 : At(k) \in SymbolChar
    BY <1>1, <1>3
  <2> QED
    BY <1>1, <1>3, <1>4, <2>1, ReadsRun
<1>7. ASSUME NEW k \in i..j - 1  PROVE k \in Words(f)
  <2>1. k \in 1..Len(text) /\ k + 1 \in i + 1..j /\ (k = i \/ k \in i + 1..j)
    BY <1>1, <1>2, <1>3
  <2>2. f[k + 1][1] = "symbol" /\ f[k][1] \notin Remark
    BY <1>1, <1>5, <2>1 DEF Remark
  <2>3. At(k) \notin Layout /\ At(k) # "other"
    BY <1>3, Sets
  <2>4. FullStop(k) => f[k][1] \notin Free
    BY <1>5, <2>1 DEF Free
  <2> QED
    BY <2>1, <2>2, <2>3, <2>4, IsAWord
<1>8. i \in i..j - 1 /\ j > i
  BY <1>1, <1>3
<1> QED
  BY <1>3, <1>5, <1>7, <1>8 DEF Gathers

\* Behind 0'\x are at most four hexadecimal digits, as the text has no more, and
\* perhaps a \ that belongs to them.
LEMMA ReadsHexEscape ==
    ASSUME NEW f, Read(f), NEW i \in 1..Len(text), At(i) = "x", At(i + 1) \in Hex,
           f[i + 1] = In("hex")
    PROVE  LET j == hexEscape(i)
           IN  j > i + 1 /\ Ready(f, j) /\ \A k \in i + 1..j - 1 : k \in Words(f)
<1> DEFINE run == EndOfRun(Hex, i + 1)
           j   == hexEscape(i)
<1>1. Len(text) \in Nat /\ End = Len(text) + 1 /\ i \in Nat /\ i + 1 \in 1..End
  BY Places
<1>2. /\ run \in i + 2..End /\ At(run) \notin Hex
      /\ \A k \in i + 1..run - 1 : At(k) \in Hex
  <2>1. IsPlace(i + 1) /\ i + 1 + 1 = i + 2
    BY <1>1, Places
  <2> QED
    BY <2>1, RunsEnd, Sets
<1>3. j = LET l == IF run <= i + 5 THEN run ELSE i + 5 IN IF At(l) = "\\" THEN l + 1 ELSE l
  BY DEF hexEscape
<1> HIDE DEF run, j
<1>4. ASSUME NEW k \in i + 1..run - 1, f[k][1] = "hex"
      PROVE  f[k + 1][1] = "hex" /\ At(k - 5) # "x"
  <2>1. k \in 1..Len(text) /\ k + 1 \in 1..End
    BY <1>1, <1>2
  <2>2. f[k + 1] = GoesOn(f[k], k) /\ f[k + 1][1] # "broken"
    BY <2>1, NextMode, NeverBroken
  <2> QED
    BY <1>2, <1>4, <2>2, GoesOnInCodes DEF In
<1>5. \A k \in i + 1..run : f[k][1] = "hex"
  <2>1. f[i + 1][1] = "hex" /\ run \in i + 1..End
    BY <1>1, <1>2 DEF In
  <2>2. \A k \in i + 1..run - 1 :
            k \in 1..Len(text) /\ f[k][1] = "hex" => f[k + 1][1] = "hex"
    BY <1>4
  <2>3. i + 1 \in 1..End /\ run \in i + 1..End
    BY <1>1, <2>1
  <2> DEFINE a == i + 1
  <2>4. \A k \in a..run : f[k][1] = "hex"
    <3>1. a \in 1..End /\ run \in a..End /\ f[a][1] = "hex"
      BY <2>1, <2>3
    <3>2. \A k \in a..run - 1 : k \in 1..Len(text) /\ f[k][1] = "hex" => f[k + 1][1] = "hex"
      BY <2>2
    <3> HIDE DEF a
    <3> QED
      BY <3>1, <3>2, ModeStays
  <2> QED
    BY <2>4
<1>6. run <= i + 5
  <2> SUFFICES ASSUME ~ run <= i + 5  PROVE FALSE
    OBVIOUS
  <2>1. i + 5 \in i + 1..run - 1 /\ i + 5 \in i + 1..run /\ (i + 5) - 5 = i
    BY <1>1, <1>2
  <2>2. At((i + 5) - 5) # "x"
    BY <1>4, <1>5, <2>1
  <2> QED
    BY <2>1, <2>2
<1>7. j = IF At(run) = "\\" THEN run + 1 ELSE run
  BY <1>3, <1>6
<1>8. run \in 1..End /\ f[run][1] = "hex"
  BY <1>1, <1>2, <1>5
<1>9. run \in 1..Len(text) =>
          /\ f[run + 1] = GoesOn(f[run], run) /\ run + 1 \in 1..End
          /\ f[run + 1] = IF At(run) = "\\" THEN In("between") ELSE Begins(run)
  <2> SUFFICES ASSUME run \in 1..Len(text)
               PROVE  /\ f[run + 1] = GoesOn(f[run], run) /\ run + 1 \in 1..End
                      /\ f[run + 1] = IF At(run) = "\\" THEN In("between") ELSE Begins(run)
    OBVIOUS
  <2>1. f[run + 1] = GoesOn(f[run], run) /\ run + 1 \in 1..End
    BY <1>1, NextMode
  <2> QED
    BY <1>2, <1>8, <2>1, GoesOnInCodes
<1>10. ASSUME NEW k \in i + 1..run - 1  PROVE k \in Words(f)
  <2>1. k \in 1..Len(text) /\ k \in i + 1..run /\ k + 1 \in i + 1..run
    BY <1>1, <1>2
  <2>2. f[k][1] = "hex" /\ f[k + 1][1] = "hex" /\ At(k) \in Alnum
    BY <1>2, <1>5, <2>1, Sets
  <2> QED
    BY <2>1, <2>2, IsAWord, NoStop, Sets DEF Remark
<1>11. CASE At(run) = "\\"
  <2>1. run \in 1..Len(text)
    BY <1>8, <1>11, Places
  <2>2. f[run + 1] = In("between") /\ run + 1 \in 1..End
    BY <1>9, <1>11, <2>1
  <2>3. Ready(f, run + 1)
    BY <2>2, ReadyBehindNothing DEF In
  <2>4. run \in Words(f)
    BY <1>8, <1>11, <2>1, <2>2, IsAWord, NoStop DEF Remark, In, Layout
  <2>5. \A k \in i + 1..(run + 1) - 1 : k = run \/ k \in i + 1..run - 1
    BY <1>1, <1>2
  <2>6. run + 1 > i + 1
    BY <1>1, <1>2
  <2> QED
    BY <1>7, <1>10, <1>11, <2>3, <2>4, <2>5, <2>6 DEF j
<1>12. CASE At(run) # "\\"
  <2>1. run = End \/ run \in 1..Len(text)
    BY <1>1, <1>8
  <2>2. Ready(f, run)
    BY <1>8, <1>9, <1>12, <2>1 DEF Ready, Free
  <2>3. run > i + 1
    BY <1>1, <1>2
  <2> QED
    BY <1>7, <1>10, <1>12, <2>2, <2>3 DEF j
<1> QED
  BY <1>11, <1>12

LEMMA ReadsCode ==
    ASSUME NEW f, Read(f), NEW i, Ready(f, i), Pair(i, "0", "'")
    PROVE  LET j == code(i) IN j > i /\ Ready(f, j) /\ Gathers(f, i, j)
<1>1. Len(text) \in Nat /\ End = Len(text) + 1 /\ At(i) = "0" /\ At(i + 1) = "'"
  BY Places DEF Pair
<1>2. /\ i \in 1..Len(text) /\ i + 1 \in 1..Len(text) /\ i + 2 \in 1..End
      /\ f[i + 1] = In("zero") /\ f[i][1] \notin Remark
  <2>1. /\ i \in 1..Len(text) /\ i + 1 \in 1..End
        /\ f[i + 1] = In("zero") /\ f[i][1] \notin Remark
    BY <1>1, BeginsHere, BeginsAs
  <2>2. i + 1 \in 1..Len(text)
    BY <1>1, <2>1, Places
  <2> QED
    BY <1>1, <2>1, <2>2
<1>3. f[i + 2] = In("code") /\ f[i + 2][1] = "code"
  <2>1. f[i + 1 + 1] = GoesOn(f[i + 1], i + 1) /\ f[i + 1][1] = "zero" /\ i + 1 + 1 = i + 2
    BY <1>2, NextMode DEF In
  <2>2. At(i + 1) \notin Digit \cup {"sp"}
    BY <1>1 DEF Digit
  <2> QED
    BY <1>1, <2>1, <2>2, GoesOnInNumbers DEF In
<1>4. i + 2 \in 1..Len(text) /\ At(i + 2) # "eof" /\ i + 3 \in 1..End
  <2>1. i + 2 \in 1..Len(text) /\ At(i + 2) # "eof"
    BY <1>2, <1>3, LastMode
  <2> QED
    BY <1>1, <1>2, <2>1
<1>5. /\ At(i + 2) \notin {"'", "nl"}
      /\ f[i + 3] = IF At(i + 2) = "\\" THEN In("codeEscape") ELSE In("between")
  <2>1. f[i + 2 + 1] = GoesOn(f[i + 2], i + 2) /\ i + 2 + 1 = i + 3
    BY <1>2, <1>4, NextMode
  <2>2. f[i + 3][1] # "broken"
    BY <1>4, NeverBroken
  <2> QED
    BY <1>3, <2>1, <2>2, GoesOnInCodes DEF In
<1>6. i \in Words(f) /\ i + 1 \in Words(f)
  <2>1. i \in Words(f)
    BY <1>1, <1>2, IsAWord, NoStop DEF In, Layout
  <2>2. f[i + 1][1] \notin Remark /\ f[i + 1 + 1][1] \notin {"line", "opening"}
    BY <1>2, <1>3 DEF In, Remark
  <2>3. i + 1 \in Words(f)
    BY <1>1, <1>2, <2>2, IsAWord, NoStop DEF Layout
  <2> QED
    BY <2>1, <2>3
<1>7. At(i + 2) \notin Layout => i + 2 \in Words(f)
  <2>1. f[i + 2][1] \notin Remark \cup Free \cup {"symbol"} /\ f[i + 2 + 1][1] \notin {"line", "opening"}
    <3>1. i + 2 + 1 = i + 3
      BY <1>2
    <3> QED
      BY <1>3, <1>5, <3>1 DEF Remark, Free, In
  <2> QED
    BY <1>4, <2>1, IsAWord
<1>8. CASE At(i + 2) # "\\"
  <2>1. code(i) = i + 3
    BY <1>4, <1>5, <1>8 DEF code
  <2>2. Ready(f, i + 3)
    BY <1>4, <1>5, <1>8, ReadyBehindNothing DEF In
  <2>3. \A k \in i..(i + 3) - 1 : k = i \/ k = i + 1 \/ k = i + 2
    BY <1>2
  <2>4. i \in i..(i + 3) - 1 /\ i + 3 > i
    BY <1>2
  <2> QED
    BY <1>6, <1>7, <2>1, <2>2, <2>3, <2>4 DEF Gathers
<1>9. CASE At(i + 2) = "\\"
  <2>1. f[i + 3] = In("codeEscape") /\ f[i + 3][1] = "codeEscape"
    BY <1>5, <1>9 DEF In
  <2>2. i + 3 \in 1..Len(text) /\ At(i + 3) # "eof" /\ i + 4 \in 1..End
    <3>1. i + 3 \in 1..Len(text) /\ At(i + 3) # "eof"
      BY <1>4, <2>1, LastMode
    <3> QED
      BY <1>1, <1>2, <3>1
  <2>3. \/ At(i + 3) \in Escaped /\ f[i + 4] = In("between")
        \/ /\ At(i + 3) = "x" /\ At(i + 4) \in Hex /\ At(i + 3) \notin Escaped
           /\ f[i + 4] = In("hex")
        \/ At(i + 3) \in Digit /\ At(i + 3) \notin Escaped /\ f[i + 4] = In("octal")
    <3>1. f[i + 3 + 1] = GoesOn(f[i + 3], i + 3) /\ i + 3 + 1 = i + 4
      BY <1>2, <2>2, NextMode
    <3>2. f[i + 4][1] # "broken" /\ "x" \notin Escaped
      BY <2>2, NeverBroken DEF Escaped, Quote
    <3> QED
      BY <2>1, <3>1, <3>2, GoesOnInCodes DEF In
  <2>4. At(i + 3) \notin Layout => i + 3 \in Words(f)
    <3>1. f[i + 3][1] \notin Remark \cup Free \cup {"symbol"} /\ f[i + 3 + 1][1] \notin {"line", "opening"}
      <4>1. f[i + 4][1] \in {"between", "hex", "octal"} /\ i + 3 + 1 = i + 4
        BY <1>2, <2>3 DEF In
      <4> QED
        BY <2>1, <4>1 DEF Remark, Free
    <3> QED
      BY <2>2, <3>1, IsAWord
  <2>5. CASE At(i + 3) \in Escaped /\ f[i + 4] = In("between")
    <3>1. code(i) = i + 4
      BY <1>9, <2>5 DEF code
    <3>2. Ready(f, i + 4)
      BY <2>2, <2>5, ReadyBehindNothing DEF In
    <3>3. \A k \in i..(i + 4) - 1 : k = i \/ k = i + 1 \/ k = i + 2 \/ k = i + 3
      BY <1>2
    <3>4. i \in i..(i + 4) - 1 /\ i + 4 > i
      BY <1>2
    <3> QED
      BY <1>6, <1>7, <2>4, <3>1, <3>2, <3>3, <3>4 DEF Gathers
  <2>6. CASE At(i + 3) \in Digit /\ At(i + 3) \notin Escaped /\ f[i + 4] = In("octal")
    <3> DEFINE j == EndOfRun(Digit, i + 3)
    <3>1. At(i + 3) \in Digit /\ f[i + 4][1] = "octal" /\ At(i + 3) # "x"
      BY <2>6 DEF In, Digit
    <3>2. code(i) = j
      BY <1>9, <2>6, <3>1 DEF code
    <3>3. /\ j \in i + 4..End /\ At(j) \notin Digit
          /\ \A k \in i + 3..j - 1 : At(k) \in Digit
      <4>1. IsPlace(i + 3) /\ i + 3 + 1 = i + 4
        BY <1>2, <1>4, Places
      <4> QED
        BY <3>1, <4>1, RunsEnd, Sets
    <3> HIDE DEF j
    <3>4. (\A k \in i + 4..j : f[k][1] = "octal") /\ Ready(f, j)
      <4>1. \A k \in i + 4..j - 1 : At(k) \in Digit
        BY <1>2, <3>3
      <4> QED
        BY <2>2, <3>1, <3>3, <4>1, ReadsRun
    <3>5. ASSUME NEW k \in i + 4..j - 1  PROVE k \in Words(f)
      <4>1. k \in 1..Len(text) /\ k \in i + 4..j /\ k + 1 \in i + 4..j /\ k \in i + 3..j - 1
        BY <1>1, <1>2, <3>3
      <4>2. f[k][1] = "octal" /\ f[k + 1][1] = "octal" /\ At(k) \in Alnum
        BY <3>3, <3>4, <4>1, Sets
      <4> QED
        BY <4>1, <4>2, IsAWord, NoStop, Sets DEF Remark
    <3>6. \A k \in i..j - 1 : k = i \/ k = i + 1 \/ k = i + 2 \/ k = i + 3 \/ k \in i + 4..j - 1
      BY <1>2
    <3>7. i \in i..j - 1 /\ j > i
      BY <1>2, <3>3
    <3> QED
      BY <1>6, <1>7, <2>4, <3>2, <3>4, <3>5, <3>6, <3>7 DEF Gathers
  <2>7. CASE /\ At(i + 3) = "x" /\ At(i + 4) \in Hex /\ At(i + 3) \notin Escaped
             /\ f[i + 4] = In("hex")
    <3> DEFINE j == hexEscape(i + 3)
    <3>1. code(i) = j
      BY <1>9, <2>7 DEF code
    <3>2. i + 3 + 1 = i + 4
      BY <1>2
    <3>3. j > i + 4 /\ Ready(f, j) /\ \A k \in i + 4..j - 1 : k \in Words(f)
      BY <2>2, <2>7, <3>2, ReadsHexEscape
    <3>4. j \in Nat
      BY <3>3, Places DEF Ready
    <3> HIDE DEF j
    <3>5. i + 3 \in Words(f)
      BY <2>4, <2>7 DEF Layout
    <3>6. \A k \in i..j - 1 : k = i \/ k = i + 1 \/ k = i + 2 \/ k = i + 3 \/ k \in i + 4..j - 1
      BY <1>2, <3>4
    <3>7. i \in i..j - 1 /\ j > i
      BY <1>2, <3>3, <3>4
    <3> QED
      BY <1>6, <1>7, <3>1, <3>3, <3>5, <3>6, <3>7 DEF Gathers
  <2> QED
    BY <2>3, <2>5, <2>6, <2>7
<1> QED
  BY <1>8, <1>9

\* Characters of numbers are characters of terms wherever no comment, stop or
\* invalid character is told.
LEMMA DigitsAreWords ==
    ASSUME NEW f, NEW k \in 1..Len(text), At(k) \in Digit,
           f[k][1] \notin Remark, f[k + 1][1] \notin {"line", "opening"}
    PROVE  k \in Words(f)
<1>1. At(k) \notin Layout /\ At(k) # "." /\ At(k) # "other"
  BY Sets
<1> QED
  BY <1>1, IsAWord, NoStop

LEMMA ReadsRadix ==
    ASSUME NEW f, Read(f), NEW i, Ready(f, i), Pair(i, "2", "'"), At(i + 2) \in Digit
    PROVE  LET j == radix(i) IN j > i /\ Ready(f, j) /\ Gathers(f, i, j)
<1>1. Len(text) \in Nat /\ End = Len(text) + 1 /\ At(i) = "2" /\ At(i + 1) = "'"
  BY Places DEF Pair
<1>2. /\ i \in 1..Len(text) /\ i + 1 \in 1..Len(text) /\ i + 2 \in 1..Len(text)
      /\ i + 3 \in 1..End /\ i + 2 \in 1..End /\ i + 1 \in 1..End /\ i + 1 + 1 = i + 2 /\ i + 2 + 1 = i + 3
      /\ f[i + 1] = In("two") /\ f[i][1] \notin Remark
  <2>1. /\ i \in 1..Len(text) /\ i + 1 \in 1..End
        /\ f[i + 1] = In("two") /\ f[i][1] \notin Remark
    BY <1>1, BeginsHere, BeginsAs
  <2>2. At(i + 2) # "eof"
    BY Sets
  <2>3. i + 1 \in 1..Len(text) /\ i + 2 \in 1..Len(text)
    BY <1>1, <2>1, <2>2, Places
  <2> QED
    BY <1>1, <2>1, <2>3
<1>3. f[i + 2] = In("radix") /\ f[i + 2][1] = "radix"
  <2>1. f[i + 1 + 1] = GoesOn(f[i + 1], i + 1) /\ f[i + 1][1] = "two"
    BY <1>2, NextMode DEF In
  <2>2. At(i + 1) \notin Digit \cup {"sp"} /\ At(i + 1 + 1) \in Digit
    BY <1>1, <1>2 DEF Digit
  <2> QED
    BY <1>1, <1>2, <2>1, <2>2, GoesOnInNumbers DEF In
<1> DEFINE j == EndOfRun(Digit, i + 2)
<1>4. radix(i) = j
  BY DEF radix
<1>5. j \in i + 3..End /\ At(j) \notin Digit /\ \A k \in i + 2..j - 1 : At(k) \in Digit
  <2>1. IsPlace(i + 2)
    BY <1>2, Places
  <2> QED
    BY <1>2, <2>1, RunsEnd, Sets
<1> HIDE DEF j
<1>6. (\A k \in i + 2..j : f[k][1] = "radix") /\ Ready(f, j)
  <2>1. j \in i + 2..End
    BY <1>2, <1>5
  <2> QED
    BY <1>2, <1>3, <1>5, <2>1, ReadsRun
<1>7. i \in Words(f) /\ i + 1 \in Words(f)
  <2>1. At(i) \in Digit /\ f[i + 1][1] = "two"
    BY <1>1, <1>2 DEF Digit, In
  <2>2. i \in Words(f)
    BY <1>2, <2>1, DigitsAreWords
  <2>3. f[i + 1][1] \notin Remark /\ f[i + 1 + 1][1] = "radix"
    BY <1>2, <1>3, <2>1 DEF Remark
  <2>4. i + 1 \in Words(f)
    BY <1>1, <1>2, <2>3, IsAWord, NoStop DEF Layout
  <2> QED
    BY <2>2, <2>4
<1>8. ASSUME NEW k \in i + 2..j - 1  PROVE k \in Words(f)
  <2>1. k \in 1..Len(text) /\ k \in i + 2..j /\ k + 1 \in i + 2..j
    BY <1>1, <1>2, <1>5
  <2>2. f[k][1] = "radix" /\ f[k + 1][1] = "radix"
    BY <1>6, <2>1
  <2> QED
    BY <1>5, <2>1, <2>2, DigitsAreWords DEF Remark
<1>9. \A k \in i..j - 1 : k = i \/ k = i + 1 \/ k \in i + 2..j - 1
  BY <1>2
<1>10. i \in i..j - 1 /\ j > i
  BY <1>2, <1>5
<1> QED
  BY <1>4, <1>6, <1>7, <1>8, <1>9, <1>10 DEF Gathers

LEMMA ReadsHexadecimal ==
    ASSUME NEW f, Read(f), NEW i, Ready(f, i), Pair(i, "0", "x"), At(i + 2) \in Hex
    PROVE  LET j == hexadecimal(i) IN j > i /\ Ready(f, j) /\ Gathers(f, i, j)
<1>1. Len(text) \in Nat /\ End = Len(text) + 1 /\ At(i) = "0" /\ At(i + 1) = "x"
  BY Places DEF Pair
<1>2. /\ i \in 1..Len(text) /\ i + 1 \in 1..Len(text) /\ i + 2 \in 1..Len(text)
      /\ i + 3 \in 1..End /\ i + 2 \in 1..End /\ i + 1 \in 1..End /\ i + 1 + 1 = i + 2 /\ i + 2 + 1 = i + 3
      /\ f[i + 1] = In("zero") /\ f[i][1] \notin Remark
  <2>1. /\ i \in 1..Len(text) /\ i + 1 \in 1..End
        /\ f[i + 1] = In("zero") /\ f[i][1] \notin Remark
    BY <1>1, BeginsHere, BeginsAs
  <2>2. At(i + 2) # "eof"
    BY Sets
  <2>3. i + 1 \in 1..Len(text) /\ i + 2 \in 1..Len(text)
    BY <1>1, <2>1, <2>2, Places
  <2> QED
    BY <1>1, <2>1, <2>3
<1>3. f[i + 2] = In("hexadecimal") /\ f[i + 2][1] = "hexadecimal"
  <2>1. f[i + 1 + 1] = GoesOn(f[i + 1], i + 1) /\ f[i + 1][1] = "zero"
    BY <1>2, NextMode DEF In
  <2>2. At(i + 1) \notin Digit \cup {"sp"} /\ At(i + 1 + 1) \in Hex
    BY <1>1, <1>2 DEF Digit
  <2> QED
    BY <1>1, <1>2, <2>1, <2>2, GoesOnInNumbers DEF In
<1> DEFINE j == EndOfRun(Hex, i + 2)
<1>4. hexadecimal(i) = j
  BY DEF hexadecimal
<1>5. j \in i + 3..End /\ At(j) \notin Hex /\ \A k \in i + 2..j - 1 : At(k) \in Hex
  <2>1. IsPlace(i + 2)
    BY <1>2, Places
  <2> QED
    BY <1>2, <2>1, RunsEnd, Sets
<1> HIDE DEF j
<1>6. (\A k \in i + 2..j : f[k][1] = "hexadecimal") /\ Ready(f, j)
  <2>1. j \in i + 2..End
    BY <1>2, <1>5
  <2> QED
    BY <1>2, <1>3, <1>5, <2>1, ReadsRun
<1>7. i \in Words(f) /\ i + 1 \in Words(f)
  <2>1. At(i) \in Digit /\ f[i + 1][1] = "zero"
    BY <1>1, <1>2 DEF Digit, In
  <2>2. i \in Words(f)
    BY <1>2, <2>1, DigitsAreWords
  <2>3. f[i + 1][1] \notin Remark /\ f[i + 1 + 1][1] = "hexadecimal"
    BY <1>2, <1>3, <2>1 DEF Remark
  <2>4. i + 1 \in Words(f)
    BY <1>1, <1>2, <2>3, IsAWord, NoStop DEF Layout
  <2> QED
    BY <2>2, <2>4
<1>8. ASSUME NEW k \in i + 2..j - 1  PROVE k \in Words(f)
  <2>1. k \in 1..Len(text) /\ k \in i + 2..j /\ k + 1 \in i + 2..j
    BY <1>1, <1>2, <1>5
  <2>2. f[k][1] = "hexadecimal" /\ f[k + 1][1] = "hexadecimal" /\ At(k) \in Alnum
    BY <1>5, <1>6, <2>1, Sets
  <2> QED
    BY <2>1, <2>2, IsAWord, NoStop, Sets DEF Remark
<1>9. \A k \in i..j - 1 : k = i \/ k = i + 1 \/ k \in i + 2..j - 1
  BY <1>2
<1>10. i \in i..j - 1 /\ j > i
  BY <1>2, <1>5
<1> QED
  BY <1>4, <1>6, <1>7, <1>8, <1>9, <1>10 DEF Gathers

\* What the rule of numbers fits: up to the last digit before something that is
\* neither a digit nor a blank.
LEMMA DigitsEnd ==
    ASSUME text \in Seq(Character), NEW i \in 1..Len(text), At(i) \in Digit
    PROVE  LET j == digits(i)
           IN  /\ j \in i + 1..End /\ At(j - 1) \in Digit /\ At(j) \notin Digit
               /\ \A k \in i..j - 1 : At(k) \in Digit \cup {"sp"}
               /\ NoDigitBehind(j)
<1> DEFINE run  == EndOfRun(Digit \cup {"sp"}, i)
           rest == {j \in i..run : \A k \in j..run - 1 : At(k) \notin Digit}
           j    == First(rest)
<1>1. Len(text) \in Nat /\ End = Len(text) + 1 /\ i \in Nat /\ IsPlace(i)
  BY PlacesOfCharacters DEF End, IsPlace
<1>2. /\ run \in i + 1..End /\ At(run) \notin Digit \cup {"sp"}
      /\ \A k \in i..run - 1 : At(k) \in Digit \cup {"sp"}
  <2>1. "eof" \notin Digit \cup {"sp"}
    BY Sets
  <2> QED
    BY <1>1, <2>1, RunsEnd
<1>3. digits(i) = j
  BY DEF digits
<1> HIDE DEF run
<1>4. run \in rest /\ rest \subseteq Nat
  <2>1. run \in i..run /\ run..run - 1 = {}
    BY <1>1, <1>2
  <2> QED
    BY <1>1, <2>1
<1>5. j \in rest /\ \A k \in rest : j <= k
  <2> HIDE DEF rest
  <2> QED
    BY <1>4, FirstIsLeast
<1> HIDE DEF j
<1>6. j \in i..run /\ \A k \in j..run - 1 : At(k) \notin Digit
  BY <1>5
<1>7. j # i
  <2>1. i \in i..run - 1
    BY <1>1, <1>2
  <2> QED
    BY <1>6, <2>1
<1>8. At(j - 1) \in Digit
  <2>1. j - 1 \in i..run /\ ~ j <= j - 1
    BY <1>1, <1>2, <1>6, <1>7
  <2>2. j - 1 \notin rest
    BY <1>5, <2>1
  <2>3. PICK k \in j - 1..run - 1 : At(k) \in Digit
    BY <2>1, <2>2
  <2>4. k = j - 1 \/ k \in j..run - 1
    BY <1>1, <1>2, <1>6
  <2> QED
    BY <1>6, <2>3, <2>4
<1>9. At(j) \notin Digit
  <2>1. j = run \/ j \in j..run - 1
    BY <1>1, <1>2, <1>6
  <2> QED
    BY <1>2, <1>6, <2>1
<1>10. NoDigitBehind(j)
  <2> SUFFICES ASSUME NEW k \in j..End, \A l \in j..k - 1 : At(l) = "sp"
               PROVE  At(k) \notin Digit
    BY DEF NoDigitBehind
  <2>1. ~ run \in j..k - 1
    BY <1>2
  <2>2. k = run \/ k \in j..run - 1
    BY <1>1, <1>2, <1>6, <2>1
  <2> QED
    BY <1>2, <1>6, <2>2
<1>11. j \in i + 1..End /\ \A k \in i..j - 1 : k \in i..run - 1
  BY <1>1, <1>2, <1>6, <1>7
<1> QED
  BY <1>2, <1>3, <1>8, <1>9, <1>10, <1>11

LEMMA ReadsDigits ==
    ASSUME NEW f, Read(f), NEW i, Ready(f, i), At(i) \in Digit, ~ Pair(i, "0", "'"),
           ~ (Pair(i, "0", "x") /\ At(i + 2) \in Hex), ~ (Pair(i, "2", "'") /\ At(i + 2) \in Digit)
    PROVE  LET j == digits(i) IN j > i /\ Ready(f, j) /\ Gathers(f, i, j)
<1> DEFINE j == digits(i)
           Number == {"zero", "two", "digits", "gap"}
<1>1. Len(text) \in Nat /\ End = Len(text) + 1 /\ text \in Seq(Character)
  BY Places
<1>2. /\ i \in 1..Len(text) /\ i + 1 \in 1..End
      /\ f[i + 1] = IF At(i) = "0" THEN In("zero") ELSE In("two")
      /\ f[i][1] \notin Remark
  <2>1. At(i) \notin {"sp", "eof", "nl"} /\ (At(i) = "0" \/ At(i) = "2")
    BY DEF Digit
  <2> QED
    BY <2>1, BeginsHere, BeginsAs
<1>3. /\ j \in i + 1..End /\ At(j - 1) \in Digit /\ At(j) \notin Digit
      /\ \A k \in i..j - 1 : At(k) \in Digit \cup {"sp"}
      /\ NoDigitBehind(j)
  BY <1>1, <1>2, DigitsEnd
<1> HIDE DEF j
<1>4. ASSUME NEW k \in i + 1..j - 1, f[k][1] \in Number
      PROVE  /\ f[k + 1][1] \in Number
             /\ At(k) \in Digit => f[k + 1] = In("digits")
  <2>1. k \in 1..Len(text) /\ k \in i..j - 1
    BY <1>1, <1>2, <1>3
  <2>2. f[k + 1] = GoesOn(f[k], k) /\ At(k) \in Digit \cup {"sp"}
    BY <1>3, <2>1, NextMode
  <2> QED
    BY <1>4, <2>2, GoesOnInNumbers DEF In
<1>5. \A k \in i + 1..j : f[k][1] \in Number
  <2> DEFINE S == {k \in i + 1..j : f[k][1] \in Number}
  <2>1. i + 1 \in S /\ i + 1 \in Nat /\ j \in Int
    BY <1>1, <1>2, <1>3 DEF In
  <2>2. \A k \in i + 1..j - 1 : k \in S => k + 1 \in S
    BY <1>2, <1>3, <1>4
  <2>3. \A k \in i + 1..j : k \in S
    <3> HIDE DEF S
    <3> QED
      BY <2>1, <2>2, Along
  <2> QED
    BY <2>3
<1>6. f[j] = In("digits") \/ (j = i + 1 /\ f[j] = IF At(i) = "0" THEN In("zero") ELSE In("two"))
  <2>1. CASE j = i + 1
    BY <1>2, <2>1
  <2>2. CASE j # i + 1
    <3>1. j - 1 \in i + 1..j - 1 /\ j - 1 \in i + 1..j /\ j - 1 + 1 = j
      BY <1>2, <1>3, <2>2
    <3> QED
      BY <1>3, <1>4, <1>5, <3>1
  <2> QED
    BY <2>1, <2>2
<1>8. ASSUME j # End
      PROVE  \/ f[j + 1] = Begins(j)
             \/ At(j) = "sp" /\ f[j + 1] = In("gap")
  <2>1. j \in 1..Len(text) /\ j + 1 \in 1..End
    BY <1>1, <1>2, <1>3, <1>8
  <2>2. f[j + 1] = GoesOn(f[j], j) /\ f[j + 1][1] # "broken"
    BY <2>1, NextMode, NeverBroken
  <2>3. CASE At(j) = "sp"
    BY <1>6, <2>2, <2>3, GoesOnInNumbers DEF In
  <2>4. CASE At(j) # "sp"
    <3>1. At(j) \notin Digit \cup {"sp"}
      BY <1>3, <2>4
    <3>2. CASE f[j] = In("digits")
      BY <2>2, <3>1, <3>2, GoesOnInNumbers DEF In
    <3>3. CASE j = i + 1 /\ At(i) = "0" /\ f[j] = In("zero")
      <4>1. At(j) # "'" /\ ~ (At(j) = "x" /\ At(j + 1) \in Hex)
        <5>1. j + 1 = i + 2
          BY <1>2, <3>3
        <5> QED
          BY <3>3, <5>1 DEF Pair
      <4> QED
        BY <2>2, <3>1, <3>3, <4>1, GoesOnInNumbers DEF In
    <3>4. CASE j = i + 1 /\ At(i) # "0" /\ f[j] = In("two")
      <4>1. At(i) = "2" /\ j + 1 = i + 2
        BY <1>2, <3>4 DEF Digit
      <4>2. ~ (At(j) = "'" /\ At(j + 1) \in Digit)
        BY <3>4, <4>1 DEF Pair
      <4> QED
        BY <2>2, <3>1, <3>4, <4>2, GoesOnInNumbers DEF In
    <3> QED
      BY <1>6, <3>2, <3>3, <3>4
  <2> QED
    BY <2>3, <2>4
<1>9. Ready(f, j)
  <2>1. j \in 1..End /\ f[j][1] \in Free /\ f[j][1] # "line"
    BY <1>2, <1>3, <1>6 DEF In, Free
  <2> QED
    BY <1>3, <1>8, <2>1 DEF Ready
<1>10. ASSUME NEW k \in i..j - 1, At(k) \notin Layout  PROVE k \in Words(f)
  <2>1. k \in 1..Len(text) /\ k + 1 \in i + 1..j /\ (k = i \/ k \in i + 1..j)
    BY <1>1, <1>2, <1>3
  <2>2. At(k) \in Digit
    BY <1>3, <1>10 DEF Layout
  <2>3. f[k][1] \notin Remark /\ f[k + 1][1] \notin {"line", "opening"}
    BY <1>2, <1>5, <2>1 DEF Remark
  <2> QED
    BY <2>1, <2>2, <2>3, DigitsAreWords
<1>11. i \in i..j - 1 /\ At(i) \notin Layout /\ j > i
  BY <1>2, <1>3, Sets
<1>12. Gathers(f, i, j)
  <2>1. i \in Words(f)
    BY <1>10, <1>11
  <2> QED
    BY <1>10, <1>11, <2>1 DEF Gathers
<1> QED
  BY <1>9, <1>11, <1>12 DEF j

LEMMA RuleValues ==
    ASSUME NEW i
    PROVE  /\ Rules(i)[1] = <<"end", end(i)>> /\ Rules(i)[2] = <<"open", open(i)>>
           /\ Rules(i)[3] = <<"ws", ws(i)>>
           /\ Rules(i)[4] = <<"line_comment", line_comment(i)>>
           /\ Rules(i)[5] = <<"block_comment", block_comment(i)>>
           /\ Rules(i)[6] = <<"solo", solo(i)>>
           /\ Rules(i)[7] = <<"string", quoted("double", i)>>
           /\ Rules(i)[8] = <<"string", quoted("back", i)>>
           /\ Rules(i)[9] = <<"integer", code(i)>> /\ Rules(i)[10] = <<"integer", hexadecimal(i)>>
           /\ Rules(i)[11] = <<"integer", radix(i)>> /\ Rules(i)[12] = <<"integer", digits(i)>>
           /\ Rules(i)[13] = <<"atom", name(i)>> /\ Rules(i)[14] = <<"atom", symbol(i)>>
           /\ Rules(i)[15] = <<"atom", quoted("'", i)>> /\ Rules(i)[16] = <<"error", error(i)>>
  BY DEF Rules

\* Which characters the rules fit at.
LEMMA RulesFit ==
    ASSUME NEW f, Read(f), NEW i \in 1..End
    PROVE  /\ ws(i) > i => At(i) \in Layout
           /\ open(i) > i => At(i) \in Layout /\ At(ws(i)) = "(" /\ open(i) = ws(i) + 1
           /\ line_comment(i) > i => At(i) = "%"
           /\ block_comment(i) > i => Pair(i, "/", "*")
           /\ solo(i) > i => At(i) \in Solo /\ solo(i) = i + 1
           /\ \A q : quoted(q, i) > i => At(i) = q
           /\ code(i) > i => Pair(i, "0", "'")
           /\ hexadecimal(i) > i => Pair(i, "0", "x") /\ At(i + 2) \in Hex
           /\ radix(i) > i => Pair(i, "2", "'") /\ At(i + 2) \in Digit
           /\ digits(i) > i => At(i) \in Digit
           /\ name(i) > i => At(i) \in Letter
           /\ symbol(i) > i => At(i) \in SymbolChar
           /\ error(i) > i => At(i) \notin {"nl", "eof"} /\ error(i) = i + 1
           /\ FullStop(i) => end(i) > i
<1>1. i \in Nat /\ IsPlace(i)
  BY Places
<1>2. \A set : "eof" \notin set /\ EndOfRun(set, i) # i => At(i) \in set
  <2> TAKE set
  <2> HAVE "eof" \notin set /\ EndOfRun(set, i) # i
  <2>1. /\ EndOfRun(set, i) \in i..End
        /\ \A k \in i..EndOfRun(set, i) - 1 : At(k) \in set
    BY <1>1, RunsEnd
  <2>2. i \in i..EndOfRun(set, i) - 1
    BY <1>1, <2>1
  <2> QED
    BY <2>1, <2>2
<1>3. "eof" \notin Layout /\ "eof" \notin SymbolChar
  BY Sets DEF Layout
<1>4. ws(i) > i => At(i) \in Layout
  BY <1>1, <1>2, <1>3 DEF ws
<1>5. open(i) > i => At(i) \in Layout /\ At(ws(i)) = "(" /\ open(i) = ws(i) + 1
  BY <1>1, <1>2, <1>3 DEF open, ws
<1>6. /\ line_comment(i) > i => At(i) = "%"
      /\ block_comment(i) > i => Pair(i, "/", "*")
      /\ solo(i) > i => At(i) \in Solo /\ solo(i) = i + 1
      /\ \A q : quoted(q, i) > i => At(i) = q
  BY <1>1 DEF line_comment, block_comment, solo, quoted
<1>7. /\ code(i) > i => Pair(i, "0", "'")
      /\ hexadecimal(i) > i => Pair(i, "0", "x") /\ At(i + 2) \in Hex
      /\ radix(i) > i => Pair(i, "2", "'") /\ At(i + 2) \in Digit
      /\ digits(i) > i => At(i) \in Digit
      /\ name(i) > i => At(i) \in Letter
  BY <1>1 DEF code, hexadecimal, radix, digits, name
<1>8. symbol(i) > i => At(i) \in SymbolChar
  BY <1>1, <1>2, <1>3 DEF symbol
<1>9. /\ error(i) > i => At(i) \notin {"nl", "eof"} /\ error(i) = i + 1
      /\ FullStop(i) => end(i) > i
  BY <1>1 DEF error, end, FullStop
<1> QED
  BY <1>4, <1>5, <1>6, <1>7, <1>8, <1>9

\* What the token at i does to the reader.
Fits(f, i, type, to) ==
    /\ Ready(f, to)
    /\ type \in {"ws", "line_comment", "block_comment"} => Skipped(f, i, to)
    /\ type = "error" => to = i + 1 /\ i \in Invalid(f)
    /\ type = "end" => to = i + 1 /\ i \in Stops(f)
    /\ type \in {"open", "solo", "string", "integer", "atom"} => Gathers(f, i, to)

LEMMA NoBackquote ==
    ASSUME NEW f, Read(f), NEW i, Ready(f, i)
    PROVE  At(i) # "back"
<1> SUFFICES ASSUME At(i) = "back"  PROVE FALSE
  OBVIOUS
<1>1. i + 1 \in 1..End /\ f[i + 1] = In("broken")
  BY BeginsHere, BeginsAs
<1> QED
  BY <1>1, NeverBroken DEF In

\* Where no other rule fits, the character is one of no rule.
LEMMA ReadsError ==
    ASSUME NEW f, Read(f), NEW i, Ready(f, i),
           \A k \in 1..15 : ~ Rules(i)[k][2] > i, error(i) > i
    PROVE  Ready(f, i + 1) /\ i \in Invalid(f)
<1>1. i \in 1..End /\ i \in Nat /\ At(i) \notin {"nl", "eof"} /\ ~ FullStop(i)
  <2>1. i \in 1..End /\ i \in Nat
    BY Places DEF Ready
  <2>2. Rules(i)[1][2] = end(i)
    BY RuleValues
  <2> QED
    BY <2>1, <2>2, RulesFit
<1>2. i \in 1..Len(text) /\ At(i) \in Character
  BY <1>1, Places
<1>3. /\ ~ ws(i) > i /\ ~ line_comment(i) > i /\ ~ block_comment(i) > i /\ ~ solo(i) > i
      /\ ~ quoted("double", i) > i /\ ~ quoted("'", i) > i
      /\ ~ code(i) > i /\ ~ hexadecimal(i) > i /\ ~ radix(i) > i /\ ~ digits(i) > i /\ ~ name(i) > i /\ ~ symbol(i) > i
  <2>1. /\ Rules(i)[3][2] = ws(i) /\ Rules(i)[4][2] = line_comment(i)
        /\ Rules(i)[5][2] = block_comment(i) /\ Rules(i)[6][2] = solo(i)
        /\ Rules(i)[7][2] = quoted("double", i) /\ Rules(i)[9][2] = code(i)
        /\ Rules(i)[10][2] = hexadecimal(i) /\ Rules(i)[11][2] = radix(i)
        /\ Rules(i)[12][2] = digits(i) /\ Rules(i)[13][2] = name(i)
        /\ Rules(i)[14][2] = symbol(i) /\ Rules(i)[15][2] = quoted("'", i)
    BY RuleValues
  <2> QED
    BY <2>1
<1>4. At(i) \notin Layout
  <2>1. At(i) \in Layout => ws(i) \in i + 1..End
    BY <1>1, LayoutModes DEF ws
  <2> QED
    BY <1>1, <1>3, <2>1
<1>5. At(i) # "%"
  BY <1>3, ReadsLineComment
<1>6. At(i) \notin SymbolChar
  <2>1. ~ Pair(i, "/", "*")
    BY <1>3, ReadsBlockComment
  <2> QED
    BY <1>1, <1>3, <2>1, ReadsSymbol
<1>7. At(i) \notin Digit
  <2>1. /\ ~ Pair(i, "0", "'") /\ ~ (Pair(i, "0", "x") /\ At(i + 2) \in Hex)
        /\ ~ (Pair(i, "2", "'") /\ At(i + 2) \in Digit)
    BY <1>3, ReadsCode, ReadsHexadecimal, ReadsRadix
  <2> QED
    BY <1>3, <2>1, ReadsDigits
<1>8. At(i) \notin Quote
  <2>1. At(i) \notin {"'", "double"}
    BY <1>3, ReadsQuoted
  <2> QED
    BY <2>1, NoBackquote DEF Quote
<1>9. At(i) \notin Letter /\ At(i) \notin Solo
  <2>1. At(i) \notin Letter
    BY <1>3, ReadsName
  <2>2. At(i) \in Solo => solo(i) > i
    BY <1>1 DEF solo
  <2> QED
    BY <1>3, <2>1, <2>2
<1>10. At(i) = "other"
  BY <1>2, <1>4, <1>5, <1>6, <1>7, <1>8, <1>9 DEF Character, Alnum
<1>11. /\ i + 1 \in 1..End /\ f[i + 1] = In("between") /\ f[i][1] \in Free \cup {"symbol"}
  BY <1>10, BeginsHere, BeginsAs
<1>12. Ready(f, i + 1)
  BY <1>11, ReadyBehindNothing DEF In
<1> QED
  BY <1>2, <1>10, <1>11, <1>12 DEF Invalid

LEMMA ReadsToken ==
    ASSUME NEW f, Read(f), NEW i, Ready(f, i), NEW t \in Tokens(i)
    PROVE  t.from = i /\ t.to > i /\ Fits(f, i, t.type, t.to)
<1>1. i \in 1..End /\ i \in Nat /\ IsPlace(i)
  BY Places DEF Ready
<1>2. PICK k \in 1..16 : /\ Rules(i)[k][2] > i
                         /\ t = [type |-> Rules(i)[k][1], from |-> i, to |-> Rules(i)[k][2]]
                         /\ \A l \in 1..k - 1 : ~ Rules(i)[l][2] > i
  <2>1. DOMAIN Rules(i) = 1..16
    BY <1>1, RulesEnd
  <2>2. PICK k \in DOMAIN Rules(i) :
                  /\ Rules(i)[k][2] > i
                  /\ t = [type |-> Rules(i)[k][1], from |-> i, to |-> Rules(i)[k][2]]
                  /\ \A l \in DOMAIN Rules(i) : Rules(i)[l][2] > i => k <= l
    BY DEF Tokens, FirstFit
  <2>3. \A l \in 1..k - 1 : l \in DOMAIN Rules(i) /\ ~ k <= l
    BY <2>1, <2>2
  <2> QED
    BY <2>1, <2>2, <2>3
<1> DEFINE type == Rules(i)[k][1]
           to   == Rules(i)[k][2]
<1>3. t.type = type /\ t.from = i /\ t.to = to /\ to > i
  BY <1>2
<1>4. CASE k = 1
  <2>1. type = "end" /\ to = end(i)
    BY <1>4, RuleValues
  <2> QED
    BY <1>3, <2>1, ReadsEnd DEF Fits
<1>5. CASE k = 2
  <2>1. type = "open" /\ to = open(i)
    BY <1>5, RuleValues
  <2>2. At(i) \in Layout /\ At(ws(i)) = "(" /\ to = ws(i) + 1
    BY <1>1, <1>3, <2>1, RulesFit
  <2> QED
    BY <1>3, <2>1, <2>2, ReadsLayout DEF Fits
<1>6. CASE k = 3
  <2>1. type = "ws" /\ to = ws(i)
    BY <1>6, RuleValues
  <2>2. At(i) \in Layout
    BY <1>1, <1>3, <2>1, RulesFit
  <2> QED
    BY <1>3, <2>1, <2>2, ReadsLayout DEF Fits
<1>7. CASE k = 4
  <2>1. type = "line_comment" /\ to = line_comment(i)
    BY <1>7, RuleValues
  <2>2. At(i) = "%"
    BY <1>1, <1>3, <2>1, RulesFit
  <2> QED
    BY <1>3, <2>1, <2>2, ReadsLineComment DEF Fits
<1>8. CASE k = 5
  <2>1. type = "block_comment" /\ to = block_comment(i)
    BY <1>8, RuleValues
  <2>2. Pair(i, "/", "*")
    BY <1>1, <1>3, <2>1, RulesFit
  <2> QED
    BY <1>3, <2>1, <2>2, ReadsBlockComment DEF Fits
<1>9. CASE k = 6
  <2>1. type = "solo" /\ to = solo(i)
    BY <1>9, RuleValues
  <2>2. At(i) \in Solo /\ to = i + 1
    BY <1>1, <1>3, <2>1, RulesFit
  <2> QED
    BY <1>3, <2>1, <2>2, ReadsSolo DEF Fits
<1>10. CASE k = 7
  <2>1. type = "string" /\ to = quoted("double", i)
    BY <1>10, RuleValues
  <2>2. At(i) = "double"
    BY <1>1, <1>3, <2>1, RulesFit
  <2> QED
    BY <1>3, <2>1, <2>2, ReadsQuoted DEF Fits
<1>11. CASE k = 8
  <2>1. to = quoted("back", i)
    BY <1>11, RuleValues
  <2>2. At(i) = "back"
    BY <1>1, <1>3, <2>1, RulesFit
  <2> QED
    BY <2>2, NoBackquote
<1>12. CASE k = 9
  <2>1. type = "integer" /\ to = code(i)
    BY <1>12, RuleValues
  <2>2. Pair(i, "0", "'")
    BY <1>1, <1>3, <2>1, RulesFit
  <2> QED
    BY <1>3, <2>1, <2>2, ReadsCode DEF Fits
<1>13. CASE k = 10
  <2>1. type = "integer" /\ to = hexadecimal(i)
    BY <1>13, RuleValues
  <2>2. Pair(i, "0", "x") /\ At(i + 2) \in Hex
    BY <1>1, <1>3, <2>1, RulesFit
  <2> QED
    BY <1>3, <2>1, <2>2, ReadsHexadecimal DEF Fits
<1>14. CASE k = 11
  <2>1. type = "integer" /\ to = radix(i)
    BY <1>14, RuleValues
  <2>2. Pair(i, "2", "'") /\ At(i + 2) \in Digit
    BY <1>1, <1>3, <2>1, RulesFit
  <2> QED
    BY <1>3, <2>1, <2>2, ReadsRadix DEF Fits
<1>15. CASE k = 12
  <2>1. type = "integer" /\ to = digits(i)
    BY <1>15, RuleValues
  <2>2. At(i) \in Digit
    BY <1>1, <1>3, <2>1, RulesFit
  <2>3. ~ code(i) > i /\ ~ hexadecimal(i) > i /\ ~ radix(i) > i
    <3>1. 9 \in 1..k - 1 /\ 10 \in 1..k - 1 /\ 11 \in 1..k - 1
      BY <1>15
    <3>2. /\ Rules(i)[9][2] = code(i) /\ Rules(i)[10][2] = hexadecimal(i)
          /\ Rules(i)[11][2] = radix(i)
      BY RuleValues
    <3> QED
      BY <1>2, <3>1, <3>2
  <2>4. /\ ~ Pair(i, "0", "'") /\ ~ (Pair(i, "0", "x") /\ At(i + 2) \in Hex)
        /\ ~ (Pair(i, "2", "'") /\ At(i + 2) \in Digit)
    BY <2>3, ReadsCode, ReadsHexadecimal, ReadsRadix
  <2> QED
    BY <1>3, <2>1, <2>2, <2>4, ReadsDigits DEF Fits
<1>16. CASE k = 13
  <2>1. type = "atom" /\ to = name(i)
    BY <1>16, RuleValues
  <2>2. At(i) \in Letter
    BY <1>1, <1>3, <2>1, RulesFit
  <2> QED
    BY <1>3, <2>1, <2>2, ReadsName DEF Fits
<1>17. CASE k = 14
  <2>1. type = "atom" /\ to = symbol(i)
    BY <1>17, RuleValues
  <2>2. At(i) \in SymbolChar
    BY <1>1, <1>3, <2>1, RulesFit
  <2>3. ~ end(i) > i /\ ~ block_comment(i) > i
    <3>1. 1 \in 1..k - 1 /\ 5 \in 1..k - 1
      BY <1>17
    <3>2. Rules(i)[1][2] = end(i) /\ Rules(i)[5][2] = block_comment(i)
      BY RuleValues
    <3> QED
      BY <1>2, <3>1, <3>2
  <2>4. ~ FullStop(i) /\ ~ Pair(i, "/", "*")
    BY <1>1, <2>3, RulesFit, ReadsBlockComment
  <2> QED
    BY <1>3, <2>1, <2>2, <2>4, ReadsSymbol DEF Fits
<1>18. CASE k = 15
  <2>1. type = "atom" /\ to = quoted("'", i)
    BY <1>18, RuleValues
  <2>2. At(i) = "'"
    BY <1>1, <1>3, <2>1, RulesFit
  <2> QED
    BY <1>3, <2>1, <2>2, ReadsQuoted DEF Fits
<1>19. CASE k = 16
  <2>1. type = "error" /\ to = error(i)
    BY <1>19, RuleValues
  <2>2. to = i + 1
    BY <1>1, <1>3, <2>1, RulesFit
  <2>3. 1..k - 1 = 1..15
    BY <1>19
  <2>4. \A l \in 1..15 : ~ Rules(i)[l][2] > i
    BY <1>2, <2>3
  <2>5. Ready(f, i + 1) /\ i \in Invalid(f)
    BY <1>3, <2>1, <2>4, ReadsError
  <2> QED
    BY <1>3, <2>1, <2>2, <2>5 DEF Fits
<1> QED
  BY <1>4, <1>5, <1>6, <1>7, <1>8, <1>9, <1>10, <1>11, <1>12, <1>13, <1>14, <1>15, <1>16,
     <1>17, <1>18, <1>19

--------------------------------------------------------------------------------
(* What getTokens and Parser.next have at a place between two tokens is what   *)
(* the reader tells of the text up to there.                                   *)

\* What the reader tells is told of the text alone.
LEMMA TextOnly ==
    ASSUME NEW f, text' = text
    PROVE  /\ Read(f)' = Read(f) /\ End' = End
           /\ Words(f)' = Words(f) /\ Stops(f)' = Stops(f) /\ Invalid(f)' = Invalid(f)
           /\ \A i : Ready(f, i)' = Ready(f, i)
           /\ \A list : CharactersOf(list)' = CharactersOf(list)
           /\ \A c : EndOf(c)' = EndOf(c)
<1>1. End' = End /\ \A i : At(i)' = At(i)
  BY DEF End, At
<1>2. \A i : FullStop(i)' = FullStop(i)
  BY <1>1 DEF FullStop
<1>3. \A i, c, d : Pair(i, c, d)' = Pair(i, c, d)
  BY <1>1 DEF Pair
<1>4. \A i : Begins(i)' = Begins(i)
  BY <1>1, <1>2, <1>3 DEF Begins
<1>5. \A m, i : GoesOn(m, i)' = GoesOn(m, i)
  BY <1>1, <1>3, <1>4 DEF GoesOn
<1>6. IsModes(f)' = IsModes(f) /\ WellFormed(f)' = WellFormed(f)
  BY <1>1, <1>5 DEF IsModes, WellFormed
<1>7. Read(f)' = Read(f)
  BY <1>6 DEF Read
<1>8. Stops(f)' = Stops(f) /\ Invalid(f)' = Invalid(f) /\ Comments(f)' = Comments(f)
  BY <1>1, <1>2 DEF Stops, Invalid, Comments
<1>9. Words(f)' = Words(f)
  BY <1>1, <1>8 DEF Words
<1>10. \A i : NoDigitBehind(i)' = NoDigitBehind(i)
  BY <1>1 DEF NoDigitBehind
<1>11. \A i : Ready(f, i)' = Ready(f, i)
  BY <1>1, <1>4, <1>10 DEF Ready
<1>12. \A list : CharactersOf(list)' = CharactersOf(list)
  BY <1>1 DEF CharactersOf
<1>13. \A c : EndOf(c)' = EndOf(c)
  BY <1>1 DEF EndOf
<1> QED
  BY <1>1, <1>7, <1>8, <1>9, <1>11, <1>12, <1>13

\* What of X lies behind the last of S before e.
Since(S, X, e) == {i \in X : i < e /\ \A s \in S : s < e => s < i}

LEMMA SinceMoves ==
    ASSUME NEW S, NEW X, S \subseteq Nat, X \subseteq Nat, NEW a \in Nat, NEW b \in Nat, a <= b,
           \A k \in a..b - 1 : k \notin S
    PROVE  \A i : i \in Since(S, X, b) <=> i \in Since(S, X, a) \/ (i \in X /\ i \in a..b - 1)
<1>1. \A s \in S : s < b <=> s < a
  <2> TAKE s \in S
  <2>1. s \in Nat /\ s \notin a..b - 1
    OBVIOUS
  <2> QED
    BY <2>1
<1>2. ASSUME NEW i \in X
      PROVE  i \in Since(S, X, b) <=> i \in Since(S, X, a) \/ i \in a..b - 1
  <2>1. i \in Nat /\ \A s \in S : s \in Nat
    OBVIOUS
  <2>2. CASE i < a
    <3>1. i < b /\ i \notin a..b - 1
      BY <2>1, <2>2
    <3> QED
      BY <1>1, <2>2, <3>1 DEF Since
  <2>3. CASE ~ i < a
    <3>1. i \in a..b - 1 <=> i < b
      BY <2>1, <2>3
    <3>2. \A s \in S : s < b => s < i
      BY <1>1, <2>1, <2>3
    <3>3. i \notin Since(S, X, a)
      BY <2>3 DEF Since
    <3> QED
      BY <3>1, <3>2, <3>3 DEF Since
  <2> QED
    BY <2>2, <2>3
<1> QED
  BY <1>2 DEF Since

LEMMA SinceStop ==
    ASSUME NEW S, NEW X, X \subseteq Nat, NEW s \in S, s \in Nat
    PROVE  Since(S, X, s + 1) = {}
<1>1. ASSUME NEW i \in X, i < s + 1, s < i  PROVE FALSE
  <2>1. i \in Nat
    OBVIOUS
  <2> QED
    BY <1>1, <2>1
<1>2. s < s + 1
  OBVIOUS
<1> QED
  BY <1>1, <1>2 DEF Since

\* The clauses that are got, as the reader would tell them.
Got == {<<CharactersOf(c.tokens), EndOf(c)>> : c \in {clauses[k] : k \in DOMAIN clauses}}

EndsInOrder == \A k, l \in DOMAIN clauses : k < l => EndOf(clauses[k]) < EndOf(clauses[l])

\* The loop of parse is between two tokens of the text.
Reading(f) ==
    /\ ~ parsed
    /\ Ready(f, index)
    /\ CharactersOf(tokens) = Before(f, index)
    /\ tokens = <<>> <=> Before(f, index) = {}
    /\ errors = Since(Stops(f), Invalid(f), index)
    /\ IsRead(f, index)
    /\ reported = {k \in Invalid(f) : \E s \in Stops(f) : k < s /\ s < index}
    /\ Got = {<<Before(f, e), e>> : e \in {s \in Stops(f) : s < index}}
    /\ EndsInOrder

\* The clauses are got; parse returns now or finds at the end that none is left.
Done(f) ==
    /\ parsed \/ (index = End /\ tokens = <<>> /\ errors = {})
    /\ Got = ClausesOf(f)
    /\ EndsInOrder
    /\ reported = {k \in Invalid(f) : IsRead(f, k)}

TextInv == \A f : Read(f) => Reading(f) \/ Done(f)

LEMMA Sorts ==
    ASSUME NEW f
    PROVE  /\ Words(f) \subseteq 1..Len(text) /\ Stops(f) \subseteq 1..Len(text)
           /\ Invalid(f) \subseteq 1..Len(text)
           /\ \A k \in Words(f) : k \notin Stops(f) /\ k \notin Invalid(f) /\ At(k) \notin Layout
           /\ \A k \in Invalid(f) : k \notin Stops(f)
           /\ \A k \in Stops(f) \cup Invalid(f) : At(k) \notin Layout
  BY DEF Words, Stops, Invalid, FullStop, Layout

LEMMA AppendedCharacters ==
    ASSUME tokens \in Seq(TokenType), NEW t \in TokenType
    PROVE  CharactersOf(Append(tokens, t)) =
             CharactersOf(tokens) \cup {k \in t.from..t.to - 1 : At(k) \notin Layout}
<1> DEFINE new == Append(tokens, t)
<1>1. /\ DOMAIN new = 1..Len(tokens) + 1 /\ DOMAIN tokens = 1..Len(tokens) /\ Len(tokens) \in Nat
      /\ new[Len(tokens) + 1] = t /\ \A k \in 1..Len(tokens) : new[k] = tokens[k]
  OBVIOUS
<1> HIDE DEF new
<1>2. \A k \in DOMAIN new : k \in DOMAIN tokens \/ k = Len(tokens) + 1
  BY <1>1
<1>3. Len(tokens) + 1 \in DOMAIN new /\ \A k \in DOMAIN tokens : k \in DOMAIN new
  BY <1>1
<1>4. \A list, i : i \in CharactersOf(list) <=>
        At(i) \notin Layout /\ \E k \in DOMAIN list : i \in list[k].from..list[k].to - 1
  BY DEF CharactersOf
<1>5. ASSUME NEW i
      PROVE  (\E k \in DOMAIN new : i \in new[k].from..new[k].to - 1) <=>
             \/ \E k \in DOMAIN tokens : i \in tokens[k].from..tokens[k].to - 1
             \/ i \in t.from..t.to - 1
  BY <1>1, <1>2, <1>3
<1>6. \A i : i \in CharactersOf(new) <=>
        i \in CharactersOf(tokens) \/ (i \in t.from..t.to - 1 /\ At(i) \notin Layout)
  BY <1>4, <1>5
<1>7. CharactersOf(new) = CharactersOf(tokens) \cup {k \in t.from..t.to - 1 : At(k) \notin Layout}
  BY <1>6
<1> QED
  BY <1>7 DEF new

\* And of the place, if it is of one.
LEMMA PlaceOnly ==
    ASSUME NEW f, NEW i, text' = text, index' = i
    PROVE  /\ Ready(f, index)' = Ready(f, i)
           /\ Before(f, index)' = Before(f, i)
           /\ IsRead(f, index)' = IsRead(f, i)
<1>1. End' = End /\ Stops(f)' = Stops(f) /\ Words(f)' = Words(f) /\ \A j : At(j)' = At(j)
  BY TextOnly DEF At
<1>2. At(index)' = At(i) /\ At(index + 1)' = At(i + 1)
  BY DEF At
<1>3. Begins(index)' = Begins(i)
  BY <1>2 DEF Begins, FullStop, Pair
<1>4. NoDigitBehind(index)' = NoDigitBehind(i)
  BY <1>1 DEF NoDigitBehind
<1>5. Ready(f, index)' = Ready(f, i)
  BY <1>1, <1>2, <1>3, <1>4 DEF Ready
<1>6. Before(f, index)' = Before(f, i)
  BY <1>1 DEF Before
<1>7. \A s : Before(f, s)' = Before(f, s)
  BY <1>1 DEF Before
<1>8. IsRead(f, index)' = IsRead(f, i)
  BY <1>1, <1>7 DEF IsRead
<1> QED
  BY <1>5, <1>6, <1>8

LEMMA SameClauses ==
    ASSUME text' = text, clauses' = clauses
    PROVE  Got' = Got /\ EndsInOrder' = EndsInOrder
<1>1. /\ \A list : CharactersOf(list)' = CharactersOf(list)
      /\ \A c : EndOf(c)' = EndOf(c)
      /\ End' = End
  BY TextOnly
<1>2. Got' = Got
  BY <1>1 DEF Got
<1>3. EndsInOrder' = EndsInOrder
  BY <1>1 DEF EndsInOrder, EndOf
<1> QED
  BY <1>2, <1>3

(* One lemma for each kind of step: a token that is no full stop, a full stop, *)
(* the end of the text.                                                        *)
LEMMA ReadsOn ==
    ASSUME TypeOK, NEW f, Read(f), Reading(f), NEW t \in Tokens(index),
           skip(t) \/ invalid(t) \/ gather(t)
    PROVE  Reading(f)'
<1>1. PICK a, b : a = index /\ b = t.to
  OBVIOUS
<1>2. /\ text' = text /\ clauses' = clauses /\ reported' = reported /\ parsed' = parsed
      /\ index' = b /\ t \in Tokens(a)
      /\ t.type \in {"ws", "line_comment", "block_comment", "error"} => tokens' = tokens
      /\ t.type # "error" => errors' = errors
      /\ t.type = "error" => errors' = errors \cup {t.from}
      /\ t.type \in {"open", "solo", "string", "integer", "atom"} => tokens' = Append(tokens, t)
      /\ t.type \in {"ws", "line_comment", "block_comment", "error",
                     "open", "solo", "string", "integer", "atom"}
  BY <1>1 DEF skip, invalid, gather
<1>3. Ready(f, a) /\ IsRead(f, a)
  BY <1>1 DEF Reading
<1>4. t.from = a /\ b > a /\ Fits(f, a, t.type, b)
  BY <1>1, <1>2, <1>3, ReadsToken
<1>5. a \in Nat /\ b \in Nat /\ Ready(f, b)
  BY <1>3, <1>4, Places DEF Ready, Fits
<1> DEFINE W == Words(f)
           S == Stops(f)
           V == Invalid(f)
           passed == a..b - 1
<1>6. W \subseteq Nat /\ S \subseteq Nat /\ V \subseteq Nat
  BY Sorts, Places
<1> DEFINE Words2 == W \cap passed
           Invalid2 == V \cap passed
<1>8. \A k \in passed : k \notin S
  <2>1. CASE t.type \in {"ws", "line_comment", "block_comment"}
    BY <1>4, <2>1 DEF Fits, Skipped
  <2>2. CASE t.type = "error"
    <3>1. passed = {a} /\ a \in V
      BY <1>4, <1>5, <2>2 DEF Fits
    <3> QED
      BY <3>1, Sorts
  <2>3. CASE t.type \in {"open", "solo", "string", "integer", "atom"}
    BY <1>4, <2>3, Sorts DEF Fits, Gathers
  <2> QED
    BY <1>2, <2>1, <2>2, <2>3
<1>9. /\ t.type \in {"ws", "line_comment", "block_comment"} => Words2 = {} /\ Invalid2 = {}
      /\ t.type = "error" => Words2 = {} /\ Invalid2 = {a}
      /\ t.type \in {"open", "solo", "string", "integer", "atom"} =>
           /\ Words2 = {k \in passed : At(k) \notin Layout} /\ Words2 # {}
           /\ Invalid2 = {}
  <2>1. CASE t.type \in {"ws", "line_comment", "block_comment"}
    BY <1>4, <2>1 DEF Fits, Skipped
  <2>2. CASE t.type = "error"
    <3>1. passed = {a} /\ a \in V
      BY <1>4, <1>5, <2>2 DEF Fits
    <3> QED
      BY <2>2, <3>1, Sorts
  <2>3. CASE t.type \in {"open", "solo", "string", "integer", "atom"}
    <3>1. /\ \A k \in passed : At(k) \in Layout \/ k \in W
          /\ \E k \in passed : k \in W
      BY <1>4, <2>3 DEF Fits, Gathers
    <3> QED
      BY <2>3, <3>1, Sorts
  <2> QED
    BY <1>2, <2>1, <2>2, <2>3
<1>10. /\ Before(f, a) = Since(S, W, a) /\ Before(f, b) = Since(S, W, b)
  BY DEF Before, Since
<1>11. /\ Before(f, b) = Before(f, a) \cup Words2
       /\ Since(S, V, b) = Since(S, V, a) \cup Invalid2
  <2>1. a <= b /\ \A k \in a..b - 1 : k \notin S
    BY <1>4, <1>5, <1>8
  <2>2. ASSUME NEW X, X \subseteq Nat
        PROVE  \A i : i \in Since(S, X, b) <=> i \in Since(S, X, a) \/ (i \in X /\ i \in a..b - 1)
    <3> HIDE DEF S
    <3> QED
      BY <1>5, <1>6, <2>1, <2>2, SinceMoves
  <2>3. \A i : i \in Since(S, W, b) <=> i \in Since(S, W, a) \/ (i \in W /\ i \in passed)
    BY <1>6, <2>2
  <2>4. \A i : i \in Since(S, V, b) <=> i \in Since(S, V, a) \/ (i \in V /\ i \in passed)
    BY <1>6, <2>2
  <2> HIDE DEF W, S, V, passed
  <2> QED
    BY <1>10, <2>3, <2>4
<1>12. \A s \in S : s < b <=> s < a
  <2> TAKE s \in S
  <2>1. s \in Nat /\ s \notin passed
    BY <1>6, <1>8
  <2> QED
    BY <1>4, <1>5, <2>1
<1> HIDE DEF W, S, V, Words2, Invalid2, passed
<1>13. /\ Ready(f, index)' = Ready(f, b) /\ Before(f, index)' = Before(f, b)
       /\ IsRead(f, index)' = IsRead(f, b)
       /\ Stops(f)' = S /\ Invalid(f)' = V /\ (\A e : Before(f, e)' = Before(f, e))
       /\ Got' = Got /\ EndsInOrder' = EndsInOrder
  <2>1. Stops(f)' = S /\ Invalid(f)' = V /\ Words(f)' = Words(f)
    BY <1>2, TextOnly DEF S, V
  <2>2. \A e : Before(f, e)' = Before(f, e)
    BY <2>1 DEF Before, S
  <2> QED
    BY <1>2, <2>1, <2>2, PlaceOnly, SameClauses
<1>14. CharactersOf(tokens)' = Before(f, b) /\ (tokens' = <<>> <=> Before(f, b) = {})
  <2>1. PICK list : list = tokens'
    OBVIOUS
  <2>2. CharactersOf(tokens)' = CharactersOf(list)
    BY <1>2, <2>1 DEF CharactersOf, At
  <2>3. CharactersOf(tokens) = Before(f, a) /\ (tokens = <<>> <=> Before(f, a) = {})
    BY <1>1 DEF Reading
  <2>4. CASE t.type \in {"ws", "line_comment", "block_comment", "error"}
    BY <1>2, <1>9, <1>11, <2>1, <2>2, <2>3, <2>4
  <2>5. CASE t.type \in {"open", "solo", "string", "integer", "atom"}
    <3>1. tokens \in Seq(TokenType) /\ t \in TokenType /\ tokens' = Append(tokens, t)
      BY <1>1, <1>2, <1>5, <2>5, <1>3, Places, TokensAreTyped DEF TypeOK, Ready
    <3>2. CharactersOf(list) = CharactersOf(tokens) \cup {k \in passed : At(k) \notin Layout}
      BY <1>1, <1>4, <2>1, <3>1, AppendedCharacters DEF passed
    <3>3. tokens' # <<>>
      BY <3>1
    <3> QED
      BY <1>9, <1>11, <2>2, <2>3, <2>5, <3>2, <3>3
  <2> QED
    BY <1>2, <2>4, <2>5
<1>15. errors' = Since(S, V, b)
  <2>1. errors = Since(S, V, a)
    BY <1>1 DEF Reading, S, V
  <2> QED
    BY <1>2, <1>4, <1>9, <1>11, <2>1
<1>16. IsRead(f, b)
  BY <1>3, <1>12 DEF IsRead, S
<1>17. reported' = {k \in V : \E s \in S : k < s /\ s < b}
  <2>1. reported = {k \in V : \E s \in S : k < s /\ s < a}
    BY <1>1 DEF Reading, S, V
  <2> QED
    BY <1>2, <1>12, <2>1
<1>18. Got = {<<Before(f, e), e>> : e \in {s \in S : s < b}}
  <2>1. Got = {<<Before(f, e), e>> : e \in {s \in S : s < a}}
    BY <1>1 DEF Reading, S
  <2>2. {s \in S : s < b} = {s \in S : s < a}
    BY <1>12
  <2> QED
    BY <2>1, <2>2
<1>19. ~ parsed' /\ EndsInOrder
  BY <1>2 DEF Reading
<1>20. Since(Stops(f), Invalid(f), index)' = Since(S, V, b)
  BY <1>2, <1>13 DEF Since
<1> QED
  BY <1>2, <1>5, <1>13, <1>14, <1>15, <1>16, <1>17, <1>18, <1>19, <1>20 DEF Reading

LEMMA OneMoreClause ==
    ASSUME clauses \in Seq(ClauseType), NEW list, NEW e,
           text' = text, clauses' = Append(clauses, [tokens |-> list, end |-> e])
    PROVE  LET last == IF e = None THEN End ELSE e
           IN  /\ Got' = Got \cup {<<CharactersOf(list), last>>}
               /\ EndsInOrder /\ (\A k \in DOMAIN clauses : EndOf(clauses[k]) < last)
                    => EndsInOrder'
<1> DEFINE c == [tokens |-> list, end |-> e]
           n == Len(clauses)
           last == IF e = None THEN End ELSE e
<1>1. /\ \A l : CharactersOf(l)' = CharactersOf(l)
      /\ \A x : EndOf(x)' = EndOf(x)
      /\ End' = End
  BY TextOnly
<1>2. c.tokens = list /\ c.end = e /\ EndOf(c) = last
  BY DEF EndOf
<1> HIDE DEF c, last
<1>3. /\ n \in Nat /\ DOMAIN clauses = 1..n /\ DOMAIN clauses' = 1..n + 1
      /\ clauses'[n + 1] = c /\ \A k \in 1..n : clauses'[k] = clauses[k]
  BY DEF c
<1> HIDE DEF n
<1>4. {clauses'[k] : k \in DOMAIN clauses'} = {clauses[k] : k \in DOMAIN clauses} \cup {c}
  <2>1. \A k \in 1..n + 1 : k \in 1..n \/ k = n + 1
    BY <1>3
  <2>2. n + 1 \in 1..n + 1 /\ \A k \in 1..n : k \in 1..n + 1
    BY <1>3
  <2> QED
    BY <1>3, <2>1, <2>2
<1>5. Got' = Got \cup {<<CharactersOf(list), last>>}
  <2>1. Got' = {<<CharactersOf(x.tokens), EndOf(x)>> : x \in {clauses'[k] : k \in DOMAIN clauses'}}
    BY <1>1 DEF Got
  <2> DEFINE old == {clauses[k] : k \in DOMAIN clauses}
  <2>2. Got' = {<<CharactersOf(x.tokens), EndOf(x)>> : x \in old \cup {c}}
    BY <1>4, <2>1
  <2>3. Got = {<<CharactersOf(x.tokens), EndOf(x)>> : x \in old}
    BY DEF Got
  <2> HIDE DEF old
  <2> QED
    BY <1>2, <2>2, <2>3
<1>6. ASSUME EndsInOrder, \A k \in DOMAIN clauses : EndOf(clauses[k]) < last
      PROVE  EndsInOrder'
  <2>1. \A k \in DOMAIN clauses' : EndOf(clauses[k])' = EndOf(clauses'[k])
    BY <1>1 DEF EndOf
  <2> SUFFICES ASSUME NEW k \in 1..n + 1, NEW l \in 1..n + 1, k < l
               PROVE  EndOf(clauses'[k]) < EndOf(clauses'[l])
    BY <1>3, <2>1 DEF EndsInOrder
  <2>2. k \in 1..n /\ (l \in 1..n \/ l = n + 1)
    BY <1>3
  <2> QED
    BY <1>2, <1>3, <1>6, <2>2 DEF EndsInOrder
<1> QED
  BY <1>5, <1>6 DEF last

LEMMA EndsOf ==
    ASSUME NEW f, NEW E, Got = {<<Before(f, e), e>> : e \in E}
    PROVE  \A k \in DOMAIN clauses : EndOf(clauses[k]) \in E
<1> TAKE k \in DOMAIN clauses
<1>1. PICK c, x, y : c = clauses[k] /\ x = CharactersOf(c.tokens) /\ y = EndOf(c)
  OBVIOUS
<1>2. <<x, y>> \in Got
  BY <1>1 DEF Got
<1>3. PICK e \in E : <<x, y>> = <<Before(f, e), e>>
  BY <1>2
<1> QED
  BY <1>1, <1>3

\* What is reported with the clause that ends at e.
LEMMA ReportedThen ==
    ASSUME NEW S, NEW V, S \subseteq Nat, V \subseteq Nat, \A k \in V : k \notin S, NEW a \in Nat
    PROVE  {k \in V : \E s \in S : k < s /\ s < a} \cup Since(S, V, a) = {k \in V : k < a}
<1>1. ASSUME NEW k \in V
      PROVE  (\E s \in S : k < s /\ s < a) \/ k \in Since(S, V, a) <=> k < a
  <2>1. k \in Nat /\ \A s \in S : s \in Nat /\ s # k
    OBVIOUS
  <2>2. (\E s \in S : k < s /\ s < a) => k < a
    BY <2>1
  <2>3. k \in Since(S, V, a) => k < a
    BY DEF Since
  <2>4. k < a /\ ~ (\E s \in S : k < s /\ s < a) => k \in Since(S, V, a)
    <3> SUFFICES ASSUME k < a, ~ \E s \in S : k < s /\ s < a
                 PROVE  k \in Since(S, V, a)
      OBVIOUS
    <3>1. \A s \in S : s < a => s < k
      BY <2>1
    <3> QED
      BY <3>1 DEF Since
  <2> QED
    BY <2>2, <2>3, <2>4
<1>2. \A k \in Since(S, V, a) : k \in V
  BY DEF Since
<1> QED
  BY <1>1, <1>2

LEMMA NothingIsReadBehind ==
    ASSUME NEW f, NEW s \in Stops(f), Before(f, s) = {}
    PROVE  \A e : s < e => ~ IsRead(f, e)
  BY DEF IsRead

\* The same at another place of the same text.
LEMMA SameReading ==
    ASSUME NEW f, text' = text
    PROVE  /\ \A e : Before(f, e)' = Before(f, e) /\ IsRead(f, e)' = IsRead(f, e)
           /\ Ends(f)' = Ends(f) /\ ClausesOf(f)' = ClausesOf(f)
<1>1. /\ Words(f)' = Words(f) /\ Stops(f)' = Stops(f) /\ End' = End
  BY TextOnly
<1>2. \A e : Before(f, e)' = Before(f, e)
  BY <1>1 DEF Before
<1>3. \A e : IsRead(f, e)' = IsRead(f, e)
  BY <1>1, <1>2 DEF IsRead
<1>4. Ends(f)' = Ends(f)
  BY <1>1, <1>2, <1>3 DEF Ends
<1>5. ClausesOf(f)' = ClausesOf(f)
  BY <1>2, <1>4 DEF ClausesOf
<1> QED
  BY <1>2, <1>3, <1>4, <1>5

\* The facts about a state that next starts from.
LEMMA NextFrom ==
    ASSUME NEW f, Read(f), Reading(f), NEW e, next(e), text' = text
    PROVE  /\ reported' = {k \in Invalid(f) : k < index}
           /\ errors' = {} /\ tokens' = <<>>
           /\ index \in Nat /\ index \in 1..End
           /\ Words(f) \subseteq Nat /\ Stops(f) \subseteq Nat /\ Invalid(f) \subseteq Nat
<1>1. Words(f) \subseteq Nat /\ Stops(f) \subseteq Nat /\ Invalid(f) \subseteq Nat
  BY Sorts, Places
<1>2. index \in Nat /\ index \in 1..End
  BY Places DEF Reading, Ready
<1>3. PICK S, V, a : S = Stops(f) /\ V = Invalid(f) /\ a = index
  OBVIOUS
<1>4. \A k \in V : k \notin S
  BY <1>3, Sorts
<1>5. {k \in V : \E s \in S : k < s /\ s < a} \cup Since(S, V, a) = {k \in V : k < a}
  BY <1>1, <1>2, <1>3, <1>4, ReportedThen
<1>6. reported = {k \in V : \E s \in S : k < s /\ s < a} /\ errors = Since(S, V, a)
  BY <1>3 DEF Reading
<1>7. reported' = {k \in V : k < a}
  BY <1>5, <1>6 DEF next
<1> QED
  BY <1>1, <1>2, <1>3, <1>7 DEF next

LEMMA ReadsAStop ==
    ASSUME TypeOK, NEW f, Read(f), Reading(f), NEW t \in Tokens(index), nextAtEnd(t)
    PROVE  Reading(f)' \/ Done(f)'
<1>1. PICK a, S, V, W : a = index /\ S = Stops(f) /\ V = Invalid(f) /\ W = Words(f)
  OBVIOUS
<1>2. /\ t.from = a /\ t.to = a + 1 /\ a \in S /\ Ready(f, a + 1) /\ IsRead(f, a)
      /\ CharactersOf(tokens) = Before(f, a) /\ (tokens = <<>> <=> Before(f, a) = {})
      /\ Got = {<<Before(f, e), e>> : e \in {s \in S : s < a}} /\ EndsInOrder /\ ~ parsed
  <2>1. t.type = "end"
    BY DEF nextAtEnd
  <2>2. t.from = index /\ Fits(f, index, t.type, t.to)
    BY ReadsToken DEF Reading
  <2>3. t.to = index + 1 /\ index \in Stops(f) /\ Ready(f, t.to)
    BY <2>1, <2>2 DEF Fits
  <2> QED
    BY <1>1, <2>2, <2>3 DEF Reading
<1>3. next(a) /\ text' = text /\ index' = a + 1
  BY <1>2 DEF nextAtEnd, next
<1>4. /\ reported' = {k \in V : k < a} /\ errors' = {} /\ tokens' = <<>>
      /\ a \in Nat /\ W \subseteq Nat /\ S \subseteq Nat /\ V \subseteq Nat
  BY <1>1, <1>3, NextFrom
<1>5. /\ Words(f)' = W /\ Stops(f)' = S /\ Invalid(f)' = V
      /\ \A e : Before(f, e)' = Before(f, e) /\ IsRead(f, e)' = IsRead(f, e)
      /\ ClausesOf(f)' = ClausesOf(f) /\ Ends(f)' = Ends(f)
      /\ Ready(f, index)' = Ready(f, a + 1) /\ Before(f, index)' = Before(f, a + 1)
      /\ IsRead(f, index)' = IsRead(f, a + 1)
  <2>1. /\ Words(f)' = W /\ Stops(f)' = S /\ Invalid(f)' = V
    BY <1>1, <1>3, TextOnly
  <2>2. /\ \A e : Before(f, e)' = Before(f, e) /\ IsRead(f, e)' = IsRead(f, e)
        /\ ClausesOf(f)' = ClausesOf(f) /\ Ends(f)' = Ends(f)
    BY <1>3, SameReading
  <2>3. /\ Ready(f, index)' = Ready(f, a + 1) /\ Before(f, index)' = Before(f, a + 1)
        /\ IsRead(f, index)' = IsRead(f, a + 1)
    BY <1>3, PlaceOnly
  <2> QED
    BY <2>1, <2>2, <2>3
<1>6. \A s \in S : s < a + 1 <=> s < a \/ s = a
  <2> TAKE s \in S
  <2>1. s \in Nat
    BY <1>4
  <2> QED
    BY <1>4, <2>1
<1>7. CASE tokens # <<>>
  <2>1. Before(f, a) # {} /\ a \in 1..Len(text) /\ a # None
    BY <1>1, <1>2, <1>4, <1>7, Sorts, NoneAssumption
  <2>2. clauses' = Append(clauses, [tokens |-> tokens, end |-> a]) /\ parsed' = parsed
    BY <1>3, <1>7 DEF next
  <2>3. clauses \in Seq(ClauseType)
    BY DEF TypeOK
  <2>4. Got' = Got \cup {<<CharactersOf(tokens), a>>}
    BY <1>3, <2>1, <2>2, <2>3, OneMoreClause
  <2>5. EndsInOrder'
    <3>1. \A k \in DOMAIN clauses : EndOf(clauses[k]) \in {s \in S : s < a}
      BY <1>2, EndsOf
    <3>2. \A k \in DOMAIN clauses : EndOf(clauses[k]) < a
      BY <3>1
    <3> QED
      BY <1>2, <1>3, <2>1, <2>2, <2>3, <3>2, OneMoreClause
  <2>6. Got' = {<<Before(f, e), e>> : e \in {s \in S : s < a + 1}}
    <3>1. {s \in S : s < a + 1} = {s \in S : s < a} \cup {a}
      BY <1>2, <1>6
    <3> QED
      BY <1>2, <2>4, <3>1
  <2>7. Before(f, a + 1) = {} /\ Since(S, V, a + 1) = {}
    <3>1. Before(f, a + 1) = Since(S, W, a + 1)
      BY <1>1 DEF Before, Since
    <3>2. Since(S, W, a + 1) = {}
      BY <1>2, <1>4, SinceStop
    <3>3. Since(S, V, a + 1) = {}
      BY <1>2, <1>4, SinceStop
    <3> QED
      BY <3>1, <3>2, <3>3
  <2>8. IsRead(f, a + 1)
    BY <1>1, <1>2, <1>6, <2>1 DEF IsRead
  <2>9. CharactersOf(tokens)' = {}
    BY <1>4 DEF CharactersOf
  <2>10. {k \in V : k < a} = {k \in V : \E s \in S : k < s /\ s < a + 1}
    <3>1. ASSUME NEW k \in V  PROVE k < a <=> \E s \in S : k < s /\ s < a + 1
      <4>1. k \in Nat /\ \A s \in S : s \in Nat
        BY <1>4
      <4> QED
        BY <1>2, <1>4, <1>6, <4>1
    <3> QED
      BY <3>1
  <2>11. Since(Stops(f), Invalid(f), index)' = Since(S, V, a + 1)
    BY <1>3, <1>5 DEF Since
  <2> QED
    BY <1>2, <1>3, <1>4, <1>5, <2>2, <2>5, <2>6, <2>7, <2>8, <2>9, <2>10, <2>11 DEF Reading
<1>8. CASE tokens = <<>>
  <2>1. Before(f, a) = {}
    BY <1>2, <1>8
  <2>2. parsed' /\ clauses' = clauses
    BY <1>3, <1>8 DEF next
  <2>3. Got' = Got /\ EndsInOrder' = EndsInOrder
    BY <1>3, <2>2, SameClauses
  <2>4. \A e : a < e => ~ IsRead(f, e)
    BY <1>1, <1>2, <2>1, NothingIsReadBehind
  <2>5. \A e \in Nat : e < a => IsRead(f, e)
    <3> TAKE e \in Nat
    <3> HAVE e < a
    <3>1. \A s \in S : s < e => s < a
      BY <1>4
    <3> QED
      BY <1>1, <1>2, <3>1 DEF IsRead
  <2>6. Ends(f) = {s \in S : s < a}
    <3>1. End \in Nat /\ a < End
      BY <1>1, <1>2, Sorts, Places
    <3>2. \A e \in S \cup {End} : e \in Nat /\ (e < a \/ e = a \/ a < e)
      BY <1>4, <3>1
    <3>3. \A e \in S : e < a => Before(f, e) # {}
      BY <1>1, <1>2 DEF IsRead
    <3>4. ASSUME NEW e \in S \cup {End}
          PROVE  IsRead(f, e) /\ Before(f, e) # {} <=> e \in S /\ e < a
      <4>1. CASE e < a
        <5>1. e # End /\ e \in Nat
          BY <1>4, <3>1, <3>2, <4>1
        <5> QED
          BY <2>5, <3>3, <4>1, <5>1
      <4>2. CASE e = a
        BY <1>4, <2>1, <4>2
      <4>3. CASE a < e
        BY <1>4, <2>4, <3>2, <4>3
      <4> QED
        BY <3>2, <4>1, <4>2, <4>3
    <3>5. Ends(f) = {e \in S \cup {End} : IsRead(f, e) /\ Before(f, e) # {}}
      BY <1>1 DEF Ends
    <3> QED
      BY <3>4, <3>5
  <2>7. Got = ClausesOf(f)
    BY <1>2, <2>6 DEF ClausesOf
  <2>8. {k \in V : k < a} = {k \in V : IsRead(f, k)}
    <3>1. ASSUME NEW k \in V  PROVE k < a <=> IsRead(f, k)
      <4>1. k \in Nat /\ k # a
        BY <1>1, <1>2, <1>4, Sorts
      <4>2. k < a \/ a < k
        BY <1>4, <4>1
      <4> QED
        BY <1>4, <2>4, <2>5, <4>1, <4>2
    <3> QED
      BY <3>1
  <2> QED
    BY <1>2, <1>4, <1>5, <2>2, <2>3, <2>7, <2>8 DEF Done
<1> QED
  BY <1>7, <1>8

LEMMA ReadsTheEnd ==
    ASSUME TypeOK, NEW f, Read(f), Reading(f), nextAtEndOfText
    PROVE  Done(f)'
<1>1. PICK a, S, V, W : a = End /\ S = Stops(f) /\ V = Invalid(f) /\ W = Words(f)
  OBVIOUS
<1>2. /\ index = a /\ IsRead(f, a)
      /\ CharactersOf(tokens) = Before(f, a) /\ (tokens = <<>> <=> Before(f, a) = {})
      /\ Got = {<<Before(f, e), e>> : e \in {s \in S : s < a}} /\ EndsInOrder /\ ~ parsed
  BY <1>1 DEF Reading, nextAtEndOfText
<1>3. next(None) /\ text' = text /\ index' = a
  BY <1>2 DEF nextAtEndOfText, next
<1>4. /\ reported' = {k \in V : k < a} /\ errors' = {} /\ tokens' = <<>>
      /\ a \in Nat /\ W \subseteq Nat /\ S \subseteq Nat /\ V \subseteq Nat
  BY <1>1, <1>2, <1>3, NextFrom
<1>5. /\ Invalid(f)' = V /\ End' = a
      /\ \A e : Before(f, e)' = Before(f, e) /\ IsRead(f, e)' = IsRead(f, e)
      /\ ClausesOf(f)' = ClausesOf(f)
  BY <1>1, <1>3, TextOnly, SameReading
<1>6. \A k \in S \cup V : k < a
  BY <1>1, Sorts, Places
<1>7. \A e \in Nat : e <= a => IsRead(f, e)
  <2> TAKE e \in Nat
  <2> HAVE e <= a
  <2>1. \A s \in S : s < e => s < a
    BY <1>6
  <2> QED
    BY <1>1, <1>2, <2>1 DEF IsRead
<1>8. {k \in V : k < a} = {k \in V : IsRead(f, k)}
  <2>1. \A k \in V : k < a /\ IsRead(f, k)
    <3> TAKE k \in V
    <3>1. k \in Nat /\ k < a /\ k <= a
      BY <1>4, <1>6
    <3> QED
      BY <1>7, <3>1
  <2> QED
    BY <2>1
<1>9. Ends(f) = IF Before(f, a) = {} THEN S ELSE S \cup {a}
  <2>1. \A e \in S : IsRead(f, e) /\ Before(f, e) # {}
    <3> TAKE e \in S
    <3>1. e \in Nat /\ e < a /\ e <= a
      BY <1>4, <1>6
    <3> QED
      BY <1>1, <1>2, <1>7, <3>1 DEF IsRead
  <2>2. Ends(f) = {e \in S \cup {a} : IsRead(f, e) /\ Before(f, e) # {}}
    BY <1>1 DEF Ends
  <2> QED
    BY <1>2, <2>1, <2>2
<1>10. {s \in S : s < a} = S
  BY <1>6
<1>11. CASE tokens # <<>>
  <2>1. clauses' = Append(clauses, [tokens |-> tokens, end |-> None])
    BY <1>3, <1>11 DEF next
  <2>2. clauses \in Seq(ClauseType)
    BY DEF TypeOK
  <2>3. Got' = Got \cup {<<CharactersOf(tokens), a>>}
    BY <1>1, <1>3, <2>1, <2>2, OneMoreClause
  <2>4. EndsInOrder'
    <3>1. \A k \in DOMAIN clauses : EndOf(clauses[k]) \in {s \in S : s < a}
      BY <1>2, EndsOf
    <3>2. \A k \in DOMAIN clauses : EndOf(clauses[k]) < a
      BY <3>1
    <3> QED
      BY <1>1, <1>2, <1>3, <2>1, <2>2, <3>2, OneMoreClause
  <2>5. Got' = ClausesOf(f)
    <3>1. Ends(f) = S \cup {a}
      BY <1>2, <1>9, <1>11
    <3>2. Got = {<<Before(f, e), e>> : e \in S}
      BY <1>2, <1>10
    <3> QED
      BY <1>2, <2>3, <3>1, <3>2 DEF ClausesOf
  <2> QED
    BY <1>3, <1>4, <1>5, <1>8, <2>4, <2>5 DEF Done
<1>12. CASE tokens = <<>>
  <2>1. parsed' /\ clauses' = clauses
    BY <1>3, <1>12 DEF next
  <2>2. Got' = Got /\ EndsInOrder' = EndsInOrder
    BY <1>3, <2>1, SameClauses
  <2>3. Got = ClausesOf(f)
    BY <1>2, <1>9, <1>10, <1>12 DEF ClausesOf
  <2> QED
    BY <1>2, <1>4, <1>5, <1>8, <2>1, <2>2, <2>3 DEF Done
<1> QED
  BY <1>11, <1>12

LEMMA TextInvKept ==
    ASSUME TextInv, TypeOK, [Next]_vars
    PROVE  TextInv'
<1>0. text' = text
  BY DEF Next, skip, invalid, gather, nextAtEnd, nextAtEndOfText, next, returned, vars
<1> SUFFICES ASSUME NEW f, Read(f)
             PROVE  Reading(f)' \/ Done(f)'
  BY <1>0, TextOnly DEF TextInv
<1>1. Reading(f) \/ Done(f)
  BY DEF TextInv
<1>2. CASE UNCHANGED vars
  <2>1. text' = text /\ clauses' = clauses
    BY <1>2 DEF vars
  <2>2. /\ Words(f)' = Words(f) /\ Stops(f)' = Stops(f) /\ Invalid(f)' = Invalid(f)
        /\ End' = End /\ Ready(f, index)' = Ready(f, index)
        /\ Before(f, index)' = Before(f, index) /\ IsRead(f, index)' = IsRead(f, index)
    <3>1. PICK i : i = index
      OBVIOUS
    <3>2. index' = i
      BY <1>2, <3>1 DEF vars
    <3> QED
      BY <2>1, <3>1, <3>2, TextOnly, PlaceOnly
  <2>3. /\ \A e : Before(f, e)' = Before(f, e) /\ IsRead(f, e)' = IsRead(f, e)
        /\ ClausesOf(f)' = ClausesOf(f)
        /\ Got' = Got /\ EndsInOrder' = EndsInOrder
    BY <2>1, SameReading, SameClauses
  <2>4. CharactersOf(tokens)' = CharactersOf(tokens)
    BY <1>2 DEF vars, CharactersOf, At
  <2>5. Since(Stops(f), Invalid(f), index)' = Since(Stops(f), Invalid(f), index)
    BY <1>2, <2>2 DEF vars, Since
  <2>6. Reading(f) => Reading(f)'
    BY <1>2, <2>2, <2>3, <2>4, <2>5 DEF vars, Reading
  <2>7. Done(f) => Done(f)'
    BY <1>2, <2>2, <2>3 DEF vars, Done
  <2> QED
    BY <1>1, <2>6, <2>7
<1>3. CASE ~ parsed /\ \E t \in Tokens(index) : skip(t) \/ invalid(t) \/ gather(t) \/ nextAtEnd(t)
  <2>1. PICK t \in Tokens(index) : skip(t) \/ invalid(t) \/ gather(t) \/ nextAtEnd(t)
    BY <1>3
  <2>2. index # End
    <3>1. IsPlace(index)
      BY DEF TypeOK, IsPlace
    <3>2. index \in 1..Len(text)
      BY <2>1, <3>1, TokensAreTyped
    <3> QED
      BY <3>2 DEF TypeOK, End
  <2>3. Reading(f)
    BY <1>1, <1>3, <2>2 DEF Done
  <2> QED
    BY <2>1, <2>3, ReadsOn, ReadsAStop
<1>4. CASE ~ parsed /\ nextAtEndOfText
  <2>1. CASE Reading(f)
    BY <1>4, <2>1, ReadsTheEnd
  <2>2. CASE Done(f)
    <3>1. tokens = <<>> /\ errors = {} /\ index = End
      BY <1>4, <2>2 DEF Done
    <3>2. /\ clauses' = clauses /\ reported' = reported /\ parsed'
      BY <1>4, <3>1 DEF nextAtEndOfText, next
    <3>3. /\ \A e : IsRead(f, e)' = IsRead(f, e)
          /\ ClausesOf(f)' = ClausesOf(f) /\ Invalid(f)' = Invalid(f)
          /\ Got' = Got /\ EndsInOrder' = EndsInOrder
      BY <1>0, <3>2, SameReading, SameClauses, TextOnly
    <3> QED
      BY <2>2, <3>2, <3>3 DEF Done
  <2> QED
    BY <1>1, <2>1, <2>2
<1> QED
  BY <1>2, <1>3, <1>4 DEF Next, returned

LEMMA TextInvAtFirst ==
    ASSUME Init
    PROVE  TextInv
<1> SUFFICES ASSUME NEW f, Read(f)
             PROVE  Reading(f)
  BY DEF TextInv
<1>1. /\ index = 1 /\ tokens = <<>> /\ errors = {} /\ clauses = <<>> /\ reported = {} /\ ~ parsed
  BY DEF Init
<1>2. Words(f) \subseteq Nat \ {0} /\ Stops(f) \subseteq Nat \ {0} /\ Invalid(f) \subseteq Nat \ {0}
  BY Sorts, Places
<1>3. \A k \in Nat \ {0} : ~ k < 1
  OBVIOUS
<1>4. Before(f, 1) = {} /\ Since(Stops(f), Invalid(f), 1) = {} /\ {s \in Stops(f) : s < 1} = {}
  BY <1>2, <1>3 DEF Before, Since
<1>5. Ready(f, 1)
  <2>1. 1 \in 1..End /\ f[1][1] = "between"
    BY Places DEF Read, IsModes, In
  <2> QED
    BY <2>1, ReadyBehindNothing
<1>6. CharactersOf(<<>>) = {}
  BY DEF CharactersOf
<1>7. IsRead(f, 1)
  BY <1>2, <1>3 DEF IsRead
<1>8. {k \in Invalid(f) : \E s \in Stops(f) : k < s /\ s < 1} = {}
  BY <1>2, <1>3
<1>9. Got = {} /\ EndsInOrder
  BY <1>1 DEF Got, EndsInOrder
<1> QED
  BY <1>1, <1>4, <1>5, <1>6, <1>7, <1>8, <1>9 DEF Reading

LEMMA TextIsRead == Spec => [](TypeOK /\ TextInv)
<1>1. Init => TextInv
  BY TextInvAtFirst
<1>2. TypeOK /\ TextInv /\ [Next]_vars => TextInv'
  BY TextInvKept
<1> QED
  BY <1>1, <1>2, TypeCorrect, PTL DEF Spec

LEMMA ParsedIsDone ==
    ASSUME TypeOK, TextInv, parsed, WellFormed(Mode)
    PROVE  Done(Mode)
<1>1. Read(Mode)
  BY ModesAre DEF TypeOK, Read
<1>2. PICK f : f = Mode
  OBVIOUS
<1>3. Read(f)
  BY <1>1, <1>2
<1>4. Done(f)
  BY <1>3 DEF TextInv, Reading
<1> QED
  BY <1>2, <1>4

(* Whatever the text, if it is not broken (WellFormed; what counts as broken is *)
(* listed with the modes of the reader, 0'\u0041 and 0'\101\ among it), the     *)
(* clauses parse gets are those of the text, up to the first full stop of its   *)
(* own, each with its whole text and its own full stop (the rules of            *)
(* lexer-by-moo.ts, getTokens, Parser.next and Parser.parse).                   *)
THEOREM ClausesAreAlwaysTheText == Spec => []ClausesAreTheText
<1>1. TypeOK /\ TextInv => ClausesAreTheText
  <2> SUFFICES ASSUME TypeOK, TextInv, parsed, WellFormed(Mode)
               PROVE  /\ {<<CharactersOf(clauses[k].tokens), EndOf(clauses[k])>> : k \in DOMAIN clauses}
                           = ClausesOf(Mode)
                      /\ EndsInOrder
    BY DEF ClausesAreTheText, EndsInOrder
  <2>1. Got = ClausesOf(Mode) /\ EndsInOrder
    BY ParsedIsDone DEF Done
  <2>2. {<<CharactersOf(clauses[k].tokens), EndOf(clauses[k])>> : k \in DOMAIN clauses} = Got
    BY DEF Got
  <2> QED
    BY <2>1, <2>2
<1> QED
  BY <1>1, TextIsRead, PTL

(* Whatever the text, if it is not broken, of the characters parse reads       *)
(* exactly those are reported that no rule but the last fits and that stand in *)
(* no quoted atom, string, comment or character code (the rule error,          *)
(* getTokens and Parser.next).                                                 *)
THEOREM InvalidIsAlwaysReported == Spec => []InvalidIsReported
<1>1. TypeOK /\ TextInv => InvalidIsReported
  BY ParsedIsDone DEF InvalidIsReported, Done
<1> QED
  BY <1>1, TextIsRead, PTL

================================================================================
