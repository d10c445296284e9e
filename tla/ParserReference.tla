---------------------------- MODULE ParserReference ----------------------------
(***************************************************************************)
(* What the tokens of a clause mean, by the grammar of terms with          *)
(* operators instead of by reading: the readings of every part of the      *)
(* clause, from those of shorter parts.  A reading is <<prec, term>>.      *)
(*                                                                         *)
(* The grammar has the choices of this dialect: a name in front of "{" is  *)
(* the tag of a dict, "-" in front of an integer its sign, and the comma,  *)
(* the bar or the colon is no operator where it separates what is inside   *)
(* brackets (context_flags.ts).  What the parser is known to do beside are *)
(* liberties, each of which a reading may be given or not:                 *)
(*   "term"    an operator may be a term, in any place                     *)
(*   "tag"     a prefix operator in front of "{" need not be a tag         *)
(*   "brace"   an operator, or the colon of a pair, in front of "{" may be *)
(*             the tag of an empty dict                                    *)
(*   "past"    a separator does not end a term that is an operation        *)
(*   "strong"  a separator takes an operation as strong as itself          *)
(***************************************************************************)
EXTENDS Parser

Contexts == {{}, {"comma"}, {"comma", "bar"}, {"comma", "colon"}, {"comma", "bar", "colon"}}

IsName(i)      == Type(i) \in {"atom", "var"}
IsAnOperator(i) == IsPrefix(i) \/ IsOperator(i)
BeforeDict(i)  == IsName(i) /\ (Type(i + 1) = "open_curly" \/ IsAtom(i + 1, "{}"))

\* An atom that a term may follow.
Introduces(i) == IsPrefix(i) \/ IsInfix(i) \/ IsAtom(i, ":")

TakenForEmpty(i, free) ==
    "brace" \in free /\ Type(i) = "atom" /\ Type(i + 1) = "open_curly" /\ Introduces(i)

\* The readings in shorter of the tokens from i up to, not including, j that have a
\* precedence of at most prec, and their terms.
AtMost(shorter, i, j, ctx, prec) ==
    IF i < j THEN {r \in shorter[<<i, j>>].terms[ctx] : r[1] <= prec} ELSE {}
TermsOf(shorter, i, j, ctx, prec) == {r[2] : r \in AtMost(shorter, i, j, ctx, prec)}

\* The same for all that is between brackets or separators: there an operator may
\* also stand alone.
Inside(shorter, i, j, ctx, prec) ==
    TermsOf(shorter, i, j, ctx, prec)
    \cup (IF j = i + 1 /\ Type(i) = "atom" THEN {Atomic(i)} ELSE {})

\* The arguments of a compound term that begins at i.
Args(shorter, i, j) ==
    IF Type(i) = "atom" /\ Type(i + 1) = "open_ct"
    THEN {<<t>> : t \in Inside(shorter, i + 2, j, {"comma"}, 1200)}
         \cup UNION {{Append(args, t) : args \in shorter[<<i, k>>].args,
                                        t \in Inside(shorter, k + 1, j, {"comma"}, 1200)}
                       : k \in {m \in i + 1..j - 2 : Type(m) = "comma"}}
    ELSE {}

\* The items of a list.
Items(shorter, i, j) ==
    IF Type(i) = "open_list"
    THEN {<<t>> : t \in Inside(shorter, i + 1, j, {"comma", "bar"}, 999)}
         \cup UNION {{Append(items, t) : items \in shorter[<<i, k>>].items,
                                         t \in Inside(shorter, k + 1, j, {"comma", "bar"}, 999)}
                       : k \in {m \in i + 1..j - 2 : Type(m) = "comma"}}
    ELSE {}

\* The tag, keys and values of a dict, up to a key.
Keyed(shorter, i, j, ctx) ==
    IF IsName(i) /\ Type(i + 1) = "open_curly"
    THEN {<<Atomic(i), key>> : key \in Inside(shorter, i + 2, j, ctx \cup {"comma", "colon"}, 1200)}
         \cup UNION {{Append(pairs, key) : pairs \in shorter[<<i, k>>].valued[ctx],
                                           key \in Inside(shorter, k + 1, j, ctx \cup {"comma", "colon"}, 1200)}
                       : k \in {m \in i + 1..j - 2 : Type(m) = "comma"}}
    ELSE {}

\* The same up to a value.
Valued(shorter, i, j, ctx) ==
    UNION {{Append(keys, value) : keys \in shorter[<<i, k>>].keyed[ctx],
                                  value \in Inside(shorter, k + 1, j, ctx \cup {"comma"}, 1200)}
             : k \in {m \in i + 1..j - 2 : IsAtom(m, ":")}}

\* Single tokens, signed integers and empty dicts.
Single(i, j, free) ==
    (IF j = i + 1 /\ Type(i) \in AtomicType /\ ("term" \in free \/ ~ IsAnOperator(i))
     THEN {Atomic(i)} ELSE {})
    \cup (IF j = i + 2 /\ IsAtom(i, "-") /\ Type(i + 1) = "integer"
          THEN {Node("negative", i, <<>>)} ELSE {})
    \cup (IF j = i + 2 /\ IsName(i) /\ (IsAtom(i + 1, "{}") \/ TakenForEmpty(i, free))
          THEN {Node("dict", i + 1, <<Atomic(i)>>)} ELSE {})

\* What the bracket at c closes.
EndedBy(shorter, i, c, ctx) ==
    CASE Type(c) = "close" ->
             {Node("compound", i, args) : args \in shorter[<<i, c>>].args}
             \cup (IF Type(i) \in {"open", "open_ct"}
                   THEN Inside(shorter, i + 1, c, {}, 1200) ELSE {})
      [] Type(c) = "close_curly" ->
             {Node("dict", i + 1, pairs) : pairs \in shorter[<<i, c>>].valued[ctx]}
             \cup (IF Type(i) = "open_curly"
                   THEN {Node("curly", i, <<t>>) : t \in Inside(shorter, i + 1, c, {}, 1200)} ELSE {})
      [] Type(c) = "close_list" ->
             {Node("list", i, items) : items \in shorter[<<i, c>>].items}
             \cup UNION {{Node("partial_list", i, Append(items, t)) :
                             items \in shorter[<<i, k>>].items,
                             t \in Inside(shorter, k + 1, c, {"comma", "bar"}, 999)}
                           : k \in {m \in i + 1..c : Type(m) = "ht_sep"}}
      [] OTHER -> {}

\* Terms that are no operators with operands.
Simple(shorter, i, j, ctx, free) ==
    Single(i, j, free) \cup (IF i + 1 < j THEN EndedBy(shorter, i, j - 1, ctx) ELSE {})

\* The precedence of an infix operator or a separator, and of its operands at most.
Fixity(k) ==
    CASE Type(k) = "comma"  -> [opPrec |-> 1000, lPrec |-> 999, rPrec |-> 1000]
      [] Type(k) = "ht_sep" -> [opPrec |-> 1100, lPrec |-> 1099, rPrec |-> 1100]
      [] OTHER              -> Infix(k)

IsBetween(k) == IsInfix(k) \/ Type(k) \in {"comma", "ht_sep"}

\* A reading of what begins at i that is an operation, or an operator.
IsOperation(r, i) == r[1] > 0 \/ (r[2] = Atomic(i) /\ IsPrefix(i))

GoesPast(r, i, free) == "past" \in free /\ IsOperation(r, i)
IsAsStrong(r, k, ctx, free) ==
    /\ "strong" \in free
    /\ Type(k) # "atom"
    /\ Terminates(k, ctx) \/ Type(r[2][2]) # Type(k)

\* The readings from i that the operator or separator k may have on its left.
Lefts(shorter, i, k, ctx, free) ==
    {r \in AtMost(shorter, i, k, ctx, Fixity(k).opPrec) :
        /\ r[1] <= Fixity(k).lPrec \/ IsAsStrong(r, k, ctx, free)
        /\ ~ Terminates(k, ctx) \/ GoesPast(r, i, free)}

\* A prefix operator that may have an operand behind it.
MayTake(i) == Type(i + 1) # "open_ct" /\ ~ (IsAtom(i, "-") /\ Type(i + 1) = "integer")

Prefixed(shorter, i, j, ctx, free) ==
    IF IsPrefix(i) /\ MayTake(i) /\ i + 1 < j /\ ("tag" \in free \/ ~ BeforeDict(i))
    THEN {<<Prefix(i).opPrec, Node("prefix", i, <<t>>)>> : t \in TermsOf(shorter, i + 1, j, ctx, Prefix(i).rPrec)}
    ELSE {}

Postfixed(shorter, i, k, ctx) ==
    IF IsPostfix(k)
    THEN {<<Postfix(k).opPrec, Node("postfix", k, <<t>>)>> : t \in TermsOf(shorter, i, k, ctx, Postfix(k).lPrec)}
    ELSE {}

Joined(shorter, i, k, j, ctx, free) ==
    {<<Fixity(k).opPrec, Node("infix", k, <<l[2], r>>)>> :
        l \in Lefts(shorter, i, k, ctx, free), r \in TermsOf(shorter, k + 1, j, ctx, Fixity(k).rPrec)}

Operations(shorter, i, j, ctx, free) ==
    Prefixed(shorter, i, j, ctx, free)
    \cup Postfixed(shorter, i, j - 1, ctx)
    \cup UNION {Joined(shorter, i, k, j, ctx, free) : k \in {m \in i + 1..j - 2 : IsBetween(m)}}

\* The readings of a part of a clause from those of shorter ones.
ReadingsOf(shorter, i, j, free) ==
    [terms  |-> [ctx \in Contexts |->
                   {<<0, t>> : t \in Simple(shorter, i, j, ctx, free)}
                   \cup Operations(shorter, i, j, ctx, free)],
     args   |-> Args(shorter, i, j),
     items  |-> Items(shorter, i, j),
     keyed  |-> [ctx \in Contexts |-> Keyed(shorter, i, j, ctx)],
     valued |-> [ctx \in Contexts |-> Valued(shorter, i, j, ctx)]]

Spans(n) == {s \in (1..Len(tokens)) \X (2..Len(tokens) + 1) : s[2] - s[1] \in 1..n}

\* The readings of all parts of at most n tokens.
Readings(free) ==
    LET upTo[n \in 0..Len(tokens)] ==
            [s \in Spans(n) |-> IF s[2] - s[1] < n THEN upTo[n - 1][s]
                                ELSE ReadingsOf(upTo[n - 1], s[1], s[2], free)]
    IN  upTo[Len(tokens)]

AllLiberties == {"term", "tag", "brace", "past", "strong"}

\* The terms that the first n tokens may be read as.
Meanings(n, free) == TermsOf(Readings(free), 1, n + 1, {}, 1200)

\* An operator among the arguments of a compound term, or the pairs of a dict,
\* that a comma separates.
OperatorBeforeComma ==
    \E i, j, k \in 1..Len(tokens) :
        /\ i < j /\ j < k
        /\ Type(i) \in {"open_ct", "open_curly"}
        /\ IsPrefix(j) \/ IsOperator(j)
        /\ Type(k) = "comma"

\* The node that is kept for a clause is a meaning of the tokens it was read from:
\* whatever was tried, annotated and given up before, no operand is stronger than
\* its operator allows, and every token is in its place.  The liberties it may take are
\* those named above and no others; tokens may be left over behind it.
KeptIsMeant ==
    Finished => last.term \in Meanings(last.at - 1, AllLiberties) \cup {Atomic(1)}

\* An operator after which reading may go on in more than one way.
IsAmbiguous(i) ==
    \/ IsPrefix(i) /\ IsOperator(i + 1)
    \/ IsInfix(i) /\ IsPostfix(i)
    \/ IsAnOperator(i) /\ IsAtom(i + 1, ":")

\* One where only the first reading is taken: in the pairs of a dict, and behind a
\* comma or a bar.
AmbiguousFirst ==
    \E i, j \in 1..Len(tokens) :
        /\ i < j
        /\ \/ Type(i) \in {"comma", "ht_sep"}
           \/ i > 1 /\ IsName(i - 1) /\ Type(i) = "open_curly"
        /\ IsAmbiguous(j)

\* An operator behind another and in front of a parenthesis: it is tried as the name of
\* a compound term only, though it may also be an operator behind an atom.
TakenForName ==
    \E i \in 1..Len(tokens) : IsAnOperator(i) /\ IsOperator(i + 1) /\ Type(i + 2) = "open_ct"

\* A clause that has a meaning, operators being operators, is read to its end, but for
\* the three kinds of clauses above, where another reading than the first was meant.
MeantIsAccepted ==
    /\ Finished
    /\ ~ OperatorBeforeComma /\ ~ AmbiguousFirst /\ ~ TakenForName
    /\ Meanings(Len(tokens), {}) # {}
    => Accepted

\* "The *_TERMINATES flags mean that COMMA/BAR terminate a term unconditionally,
\* i.e. overriding the normal precedence rules (this is used when a subterm is a
\* list or structure argument)" (context_flags.ts:9-11).  So a clause with a
\* structure has the arguments that its commas separate.  exprtl does not look.
CommaTerminates ==
    Accepted => last.term \in Meanings(Len(tokens), {"term", "tag"})
===============================================================================
