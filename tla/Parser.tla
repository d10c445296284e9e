--------------------------------- MODULE Parser ---------------------------------
(***************************************************************************)
(* The reader of one clause (parser-on-moo.ts): Parser.next takes readings *)
(* of the tokens of a clause from the generator read until one has used    *)
(* all of them.  The generators call each other, and each yields its       *)
(* readings one by one to the call that asked for it.  Together they are a *)
(* machine with the call that runs, the frames that wait for what it       *)
(* yields, and the suspended generators, the newest first to be resumed.   *)
(* Taking the first reading only (next().value), and returning from a loop *)
(* over readings, abandon suspended generators; the deletions of           *)
(* annotations that they had still to do are then never done.              *)
(*                                                                         *)
(* A term is <<class, token, args>>, the token a number in the clause.     *)
(* The values of nodes, and the wording of errors, are left out.           *)
(***************************************************************************)
EXTENDS OperatorTable, Sequences

CONSTANTS
    TokenLists,  \* the clauses that may be read
    Tables       \* the operator tables, which change between clauses only

\* The types of the lexer; only atoms have a text of their own here.
AtomicType == {"var", "atom", "integer", "string"}
TokenType  == AtomicType \cup {"open", "open_ct", "close", "open_list", "close_list",
                               "open_curly", "close_curly", "comma", "ht_sep"}

Token == [type : TokenType, text : Name \cup {""}]

ASSUME TokensAssumption ==
    /\ TokenLists \subseteq Seq(Token)
    /\ \A list \in TokenLists :
          /\ list # <<>>
          /\ \A i \in 1..Len(list) : list[i].type = "atom" => list[i].text \in Name
ASSUME TablesAssumption == Tables \in [default : Table, user : Table]

VARIABLES
    tokens,   \* the tokens of the clause
    call,     \* the call that runs
    frames,   \* what waits for the readings it yields, the innermost first
    choices,  \* the suspended generators, the oldest first
    infix,    \* the tokens annotated as infix operators
    postfix,  \* the tokens annotated as postfix operators
    braced,   \* the opening braces whose value is "{}" for now
    errors,   \* the tokens that diagnostics were pushed at
    last      \* the last reading that next has got

annotations == <<infix, postfix, braced>>
vars        == <<tokens, call, frames, choices, infix, postfix, braced, errors, last>>

Type(i)         == IF i <= Len(tokens) THEN tokens[i].type ELSE "none"
IsAtom(i, text) == Type(i) = "atom" /\ tokens[i].text = text

\* nodes of cst2.ts
Atomic(i)             == <<"atomic", i, <<>> >>
Node(class, i, terms) == <<class, i, terms>>

-------------------------------------------------------------------------------
(* Operators, beside infixop of OperatorTable. *)

prefixop(text) ==
    LET Prec(type) == current_op(Tables, text, type)
    IN  CASE Prec("fy") # 0 -> [type |-> "fy", opPrec |-> Prec("fy"), rPrec |-> Prec("fy")]
          [] Prec("fy") = 0 /\ Prec("fx") # 0 ->
                [type |-> "fx", opPrec |-> Prec("fx"), rPrec |-> Prec("fx") - 1]
          [] OTHER -> [type |-> "none", opPrec |-> 0, rPrec |-> 0]

postfixop(text) ==
    LET Prec(type) == current_op(Tables, text, type)
    IN  CASE Prec("yf") # 0 -> [type |-> "yf", opPrec |-> Prec("yf"), lPrec |-> Prec("yf")]
          [] Prec("yf") = 0 /\ Prec("xf") # 0 ->
                [type |-> "xf", opPrec |-> Prec("xf"), lPrec |-> Prec("xf") - 1]
          [] OTHER -> [type |-> "none", opPrec |-> 0, lPrec |-> 0]

IsPrefix(i)  == Type(i) = "atom" /\ prefixop(tokens[i].text).type # "none"
IsPostfix(i) == Type(i) = "atom" /\ postfixop(tokens[i].text).type # "none"
IsInfix(i)   == Type(i) = "atom" /\ infixop(Tables, tokens[i].text).type # "none"
Prefix(i)    == prefixop(tokens[i].text)
Postfix(i)   == postfixop(tokens[i].text)
Infix(i)     == infixop(Tables, tokens[i].text)

\* the tokens that end a term whatever the precedences (context_flags.ts)
Terminates(i, ctx) ==
    \/ Type(i) = "comma" /\ "comma" \in ctx
    \/ Type(i) = "ht_sep" /\ "bar" \in ctx
    \/ IsAtom(i, ":") /\ "colon" \in ctx

-------------------------------------------------------------------------------
(* Calls, and the frames that wait for them.  prec and ctx are the          *)
(* arguments of the generators that a frame is part of.                     *)

Read(at, prec, ctx)          == [fn |-> "read", at |-> at, prec |-> prec, ctx |-> ctx]
AtomTail(at, prec, ctx)      == [fn |-> "atom", at |-> at, prec |-> prec, ctx |-> ctx]
Exprtl0(at, term, prec, ctx) ==
    [fn |-> "exprtl0", at |-> at, term |-> term, prec |-> prec, ctx |-> ctx]
Ambigop(at, term, prec, ctx) ==
    [fn |-> "ambigop", at |-> at, term |-> term, prec |-> prec, ctx |-> ctx]
Exprtl(at, left, term, prec, ctx) ==
    [fn |-> "exprtl", at |-> at, left |-> left, term |-> term, prec |-> prec, ctx |-> ctx]
AfterPrefixOp(at, turn, prec, ctx) ==
    [fn |-> "after_prefix_op", at |-> at, turn |-> turn, prec |-> prec, ctx |-> ctx]
AfterPostfix(at, turn, term, prec, ctx) ==
    [fn |-> "postfix", at |-> at, turn |-> turn, term |-> term, prec |-> prec, ctx |-> ctx]
Yield(at, term) == [fn |-> "yield", at |-> at, term |-> term]
Restore(token)  == [fn |-> "restore", token |-> token]
Return(depth)   == [fn |-> "return", depth |-> depth]
Fail            == [fn |-> "fail"]
Done            == [fn |-> "done"]
Thrown          == [fn |-> "throw"]

\* depth: how many generators were suspended before
Frame(then, token, terms) ==
    [then |-> then, token |-> token, terms |-> terms, depth |-> Len(choices),
     prec |-> call.prec, ctx |-> call.ctx]

\* The frame under the call, its terms with the one that is yielded, and what it
\* becomes when it has that and waits for more.
Top       == frames[1]
Terms     == Append(Top.terms, call.term)
Now(then) == [then |-> then, token |-> Top.token, terms |-> Terms, depth |-> Top.depth,
              prec |-> Top.prec, ctx |-> Top.ctx]

Runs(fn)     == call.fn = fn
Answers(fs)  == Runs("yield") /\ frames # <<>> /\ Top.then \in fs
Quietly      == UNCHANGED <<tokens, annotations, errors, last>>

\* The first n of the suspended generators; the others are abandoned.
Oldest(n) == SubSeq(choices, 1, n)
Newest    == choices[Len(choices)]

Suspend(alternative, waiting) ==
    choices' = Append(choices, [call |-> alternative, frames |-> waiting])

\* One call is replaced by another.
GoOn(other) == call' = other /\ UNCHANGED <<frames, choices>>

\* for (r of read(...)): the frame gets every reading.
ForEach(frame, read) ==
    /\ call' = read
    /\ frames' = <<frame>> \o frames
    /\ UNCHANGED choices

\* read(...).next().value: the frame, which replaces `others`, gets the first; when
\* there is none, the loop the frame is part of is returned from.
First(frame, read, others) ==
    /\ call' = read
    /\ frames' = <<[then |-> "once", depth |-> Len(choices)]>> \o (<<frame>> \o others)
    /\ Suspend(Return(frame.depth), <<>>)

ReportAt(i) == errors' = errors \cup {i} /\ UNCHANGED <<tokens, annotations, last>>

Init ==
    /\ tokens \in TokenLists
    /\ call = Read(1, 1200, {})
    /\ frames = <<>>
    /\ choices = <<>>
    /\ infix = {}
    /\ postfix = {}
    /\ braced = {}
    /\ errors = {}
    /\ last = [at |-> 1, term |-> Atomic(1)]

-------------------------------------------------------------------------------
(* read: a term starts at token `at`. *)

At  == call.at
Exprtl0After(i, term) == Exprtl0(i, term, call.prec, call.ctx)

ReadNothing ==
    /\ Type(At) = "none"
    /\ GoOn(Fail)
    /\ Quietly

EndsAtOnce == Type(At) \in AtomicType /\ Terminates(At + 1, call.ctx)

ReadOperand ==
    /\ EndsAtOnce
    /\ GoOn(Yield(At + 1, Atomic(At)))
    /\ Quietly

\* Readings of what follows a variable or atom that is followed by no bracket.
Plainly == IF Type(At) = "atom" THEN AtomTail(At, call.prec, call.ctx)
           ELSE Exprtl0After(At + 1, Atomic(At))

ReadAtomic ==
    /\ ~ EndsAtOnce
    /\ \/ Type(At) \in {"integer", "string"}
       \/ Type(At) = "var" /\ Type(At + 1) # "open_curly" /\ ~ IsAtom(At + 1, "{}")
       \/ /\ Type(At) = "atom"
          /\ Type(At + 1) \notin {"open_ct", "open_curly"}
          /\ ~ IsAtom(At + 1, "{}")
          /\ ~ (IsAtom(At, "-") /\ Type(At + 1) = "integer")
    /\ GoOn(Plainly)
    /\ Quietly

\* a plausible mistake: a token behind the integer is passed over
BehindIntegerToo(i) == i + 3

\* where the text goes on after a sign at token i
BehindInteger(i) == i + 2

ReadNegative ==
    /\ IsAtom(At, "-") /\ Type(At + 1) = "integer"
    /\ GoOn(Exprtl0After(BehindInteger(At), Node("negative", At, <<>>)))
    /\ Quietly

ReadCompound ==
    /\ Type(At) = "atom" /\ Type(At + 1) = "open_ct"
    /\ ForEach(Frame("args", At, <<>>), Read(At + 2, 1200, {"comma"}))
    /\ Quietly

\* The value of the token after a name is "{}": so is that of a brace for some time.
BeforeEmptyDict == IsAtom(At + 1, "{}") \/ (Type(At) = "atom" /\ At + 1 \in braced)

ReadEmptyDict ==
    /\ Type(At) \in {"var", "atom"} /\ BeforeEmptyDict
    /\ Suspend(Plainly, frames)
    /\ call' = Exprtl0After(At + 2, Node("dict", At + 1, <<Atomic(At)>>))
    /\ UNCHANGED frames
    /\ Quietly

ReadDict ==
    /\ Type(At) \in {"var", "atom"} /\ Type(At + 1) = "open_curly" /\ ~ BeforeEmptyDict
    /\ First(Frame("key", At + 1, <<Atomic(At)>>),
             Read(At + 2, 1200, call.ctx \cup {"colon", "comma"}), frames)
    /\ Quietly

\* The brackets with one or more terms inside.
ReadBracketed ==
    /\ \/ /\ Type(At) = "open_list"
          /\ ForEach(Frame("list", At, <<>>), Read(At + 1, 999, {"bar", "comma"}))
       \/ /\ Type(At) \in {"open", "open_ct"}
          /\ ForEach(Frame("paren", At, <<>>), Read(At + 1, 1200, {}))
       \/ /\ Type(At) = "open_curly"
          /\ ForEach(Frame("curly", At, <<>>), Read(At + 1, 1200, {}))
    /\ Quietly

CannotStart ==
    /\ Type(At) \in {"close", "close_list", "close_curly", "comma", "ht_sep"}
    /\ ReportAt(At)
    /\ GoOn(Fail)

read ==
    /\ Runs("read")
    /\ \/ ReadNothing \/ ReadOperand \/ ReadAtomic \/ ReadNegative \/ ReadCompound
       \/ ReadEmptyDict \/ ReadDict \/ ReadBracketed \/ CannotStart

-------------------------------------------------------------------------------
(* peepop: the turns of its loop over the readings of token i as an operator. *)

Turns(i) ==
    IF Type(i) # "atom" \/ Type(i + 1) = "open_ct" THEN <<"plain">>
    ELSE (IF IsInfix(i) THEN <<"infix">> ELSE <<>>)
         \o (IF IsPostfix(i) THEN <<"postfix">> ELSE <<>>) \o <<"plain">>

\* a plausible mistake: the annotation of one turn is left for the next
KeepAnnotation(i, turn) ==
    /\ infix' = infix \cup {j \in {i} : Turns(i)[turn] = "infix"}
    /\ postfix' = postfix \cup {j \in {i} : Turns(i)[turn] = "postfix"}

\* the annotations of token i in a turn: that of the turn before is deleted
Annotate(i, turn) ==
    LET now    == Turns(i)[turn]
        before == IF turn > 1 THEN Turns(i)[turn - 1] ELSE "none"
    IN  /\ infix' = CASE now = "infix" -> infix \cup {i}
                      [] now = "postfix" \/ before = "infix" -> infix \ {i}
                      [] OTHER -> infix
        /\ postfix' = CASE now = "postfix" -> postfix \cup {i}
                        [] before = "postfix" -> postfix \ {i}
                        [] OTHER -> postfix

\* Whether the prefix operator before token i can be an atom there.
prefix_is_atom(i, prec) ==
    CASE i \in infix'                -> Infix(i).lPrec >= prec
      [] i \notin infix' /\ i \in postfix' -> Postfix(i).lPrec >= prec
      [] OTHER -> \/ Type(i) \in {"none", "close", "close_list", "close_curly"}
                  \/ Type(i) = "ht_sep" /\ 1100 >= prec
                  \/ Type(i) = "comma" /\ 1000 >= prec

\* The rest of the case of an atom in read: its readings as a prefix operator, and
\* after them as an atom.
atom ==
    /\ Runs("atom")
    /\ \/ /\ IsPrefix(At)
          /\ Suspend(Exprtl0After(At + 1, Atomic(At)), frames)
          /\ call' = AfterPrefixOp(At + 1, 1, call.prec, call.ctx)
          /\ UNCHANGED frames
       \/ /\ ~ IsPrefix(At)
          /\ GoOn(Exprtl0After(At + 1, Atomic(At)))
    /\ Quietly

PrefixOutOfPlace ==
    /\ call.prec < Prefix(At - 1).opPrec
    /\ ReportAt(At - 1)
    /\ GoOn(Fail)

PrefixAsAtom ==
    /\ call.prec >= Prefix(At - 1).opPrec
    /\ call.turn <= Len(Turns(At))
    /\ Annotate(At, call.turn)
    /\ LET next == AfterPrefixOp(At, call.turn + 1, call.prec, call.ctx)
           opPrec == Prefix(At - 1).opPrec
       IN  IF prefix_is_atom(At, opPrec)
           THEN /\ call' = Exprtl(At, opPrec, Atomic(At - 1), call.prec, call.ctx)
                /\ Suspend(next, frames)
                /\ UNCHANGED frames
           ELSE GoOn(next)
    /\ UNCHANGED <<tokens, braced, errors, last>>

PrefixWithOperand ==
    /\ call.prec >= Prefix(At - 1).opPrec
    /\ call.turn > Len(Turns(At))
    /\ ForEach(Frame("prefix", At - 1, <<>>), Read(At, Prefix(At - 1).rPrec, call.ctx))
    /\ Quietly

after_prefix_op ==
    /\ Runs("after_prefix_op")
    /\ PrefixOutOfPlace \/ PrefixAsAtom \/ PrefixWithOperand

-------------------------------------------------------------------------------
(* exprtl0: a term without operators ends before token `at`. *)

CannotFollow(i) ==
    Type(i) \in {"atom", "var", "integer", "string", "open_ct", "open", "open_list", "open_curly"}

\* The precedence of an infix operator of any kind.
OpPrec(i) == CASE Type(i) = "comma"  -> 1000
               [] Type(i) = "ht_sep" -> 1100
               [] OTHER              -> Infix(i).opPrec

IsSeparator(i) == Type(i) \in {"comma", "ht_sep"} /\ call.prec >= OpPrec(i)
IsOperator(i)  == IsInfix(i) \/ IsPostfix(i)

AsInfix   == infix' = infix \cup {At} /\ UNCHANGED postfix
AsPostfix == infix' = infix \ {At} /\ postfix' = postfix \cup {At}
Following == Exprtl(At, 0, call.term, call.prec, call.ctx)

exprtl0 ==
    /\ Runs("exprtl0")
    /\ \/ /\ Type(At) = "none" \/ Terminates(At, call.ctx)
          /\ GoOn(Yield(At, call.term))
          /\ Quietly
       \/ /\ IsOperator(At) /\ ~ Terminates(At, call.ctx)
          /\ call' = Following
          /\ IF IsInfix(At) THEN AsInfix
             ELSE postfix' = postfix \cup {At} /\ UNCHANGED infix
          /\ IF IsInfix(At) /\ IsPostfix(At)
             THEN Suspend(Ambigop(At, call.term, call.prec, call.ctx), frames)
             ELSE UNCHANGED choices
          /\ UNCHANGED <<tokens, frames, braced, errors, last>>
       \/ /\ IsSeparator(At) /\ ~ Terminates(At, call.ctx)
          /\ First(Frame("infix", At, <<call.term>>),
                   Read(At + 1, OpPrec(At), call.ctx), frames)
          /\ Quietly
       \/ /\ CannotFollow(At) /\ ~ IsOperator(At) /\ ~ Terminates(At, call.ctx)
          /\ ReportAt(At)
          /\ GoOn(Fail)
       \/ /\ Type(At) # "none" /\ ~ Terminates(At, call.ctx)
          /\ ~ (CannotFollow(At) \/ IsSeparator(At))
          /\ GoOn(Yield(At, call.term))
          /\ Quietly

ambigop ==
    /\ Runs("ambigop")
    /\ AsPostfix
    /\ GoOn(Following)
    /\ UNCHANGED <<tokens, braced, errors, last>>

-------------------------------------------------------------------------------
(* exprtl: a term of precedence `left` ends before token `at`. *)

\* a plausible mistake: an operator may take what is as strong as itself on its left
TakesLoosely(i) == i \in infix /\ call.prec >= Infix(i).opPrec /\ call.left <= Infix(i).opPrec

TakesInfix(i)   == i \in infix /\ call.prec >= Infix(i).opPrec /\ call.left <= Infix(i).lPrec
TakesPostfix(i) == i \in postfix /\ call.prec >= Postfix(i).opPrec /\ call.left <= Postfix(i).lPrec
TakesSeparator(i) == IsSeparator(i) /\ call.left <= OpPrec(i)

RightPrec(i) == IF Type(i) = "atom" THEN Infix(i).rPrec ELSE OpPrec(i)

exprtl ==
    /\ Runs("exprtl")
    /\ \/ /\ TakesInfix(At) \/ TakesSeparator(At)
          /\ ForEach(Frame("infix", At, <<call.term>>),
                     Read(At + 1, RightPrec(At), call.ctx))
       \/ /\ ~ TakesInfix(At) /\ TakesPostfix(At)
          /\ GoOn(AfterPostfix(At + 1, 1, Node("postfix", At, <<call.term>>),
                               call.prec, call.ctx))
       \/ /\ ~ (TakesInfix(At) \/ TakesPostfix(At) \/ TakesSeparator(At))
          /\ GoOn(Yield(At, call.term))
    /\ Quietly

\* The loop over the readings of the token after a postfix operator.
postfix_operator ==
    /\ Runs("postfix")
    /\ \/ /\ call.turn > Len(Turns(At))
          /\ GoOn(Fail)
          /\ UNCHANGED <<infix, postfix>>
       \/ /\ call.turn <= Len(Turns(At))
          /\ Annotate(At, call.turn)
          /\ call' = IF At - 1 \in postfix
                     THEN Exprtl(At, Postfix(At - 1).opPrec, call.term, call.prec, call.ctx)
                     ELSE Thrown
          /\ Suspend(AfterPostfix(At, call.turn + 1, call.term, call.prec, call.ctx), frames)
          /\ UNCHANGED frames
    /\ UNCHANGED <<tokens, braced, errors, last>>

-------------------------------------------------------------------------------
(* A reading is yielded to the frame that waits for it. *)

\* The frame is done with: the term it was for ends before token i.
Complete(i, term) == call' = Exprtl0(i, term, Top.prec, Top.ctx) /\ frames' = Tail(frames)

\* A token that must be there is not: the loop over the readings is returned from.
Missing(i) ==
    /\ ReportAt(i)
    /\ call' = Return(Top.depth)
    /\ UNCHANGED <<frames, choices>>

\* a plausible mistake: the loop that the first reading comes from is not left
LoopGoesOn ==
    /\ Answers({"once"})
    /\ frames' = Tail(frames)
    /\ UNCHANGED <<call, choices>>
    /\ Quietly

once ==
    /\ Answers({"once"})
    /\ frames' = Tail(frames)
    /\ choices' = Oldest(Top.depth)
    /\ UNCHANGED call
    /\ Quietly

operand ==
    /\ Answers({"prefix", "infix"})
    /\ IF Top.then = "infix" /\ Type(Top.token) = "atom" /\ Top.token \notin infix
       THEN call' = Thrown /\ UNCHANGED frames
       ELSE /\ frames' = Tail(frames)
            /\ call' = LET opPrec == IF Top.then = "prefix" THEN Prefix(Top.token).opPrec
                                     ELSE OpPrec(Top.token)
                       IN  Exprtl(At, opPrec, Node(Top.then, Top.token, Terms),
                                  Top.prec, Top.ctx)
    /\ UNCHANGED choices
    /\ Quietly

\* a plausible mistake: the end of the clause is not thought of
TokenItself(i) == i

\* Where a missing separator is reported: token1 ?? S1.tokens[S1.idx - 1].
Culprit(i) == IF Type(i) = "none" THEN i - 1 ELSE i

\* an argument, and what follows it
read_args ==
    /\ Answers({"args"})
    /\ \/ /\ Type(At) = "comma"
          /\ First(Now("args"), Read(At + 1, 1200, {"comma"}), Tail(frames))
          /\ Quietly
       \/ /\ Type(At) = "close"
          /\ Complete(At + 1, Node("compound", Top.token, Terms))
          /\ UNCHANGED choices
          /\ Quietly
       \/ /\ Type(At) \notin {"comma", "close"}
          /\ Missing(Culprit(At))

\* an item of a list, and what follows it; the cells of a list are one node here
read_list ==
    /\ Answers({"list"})
    /\ \/ /\ Type(At) \in {"comma", "ht_sep"}
          /\ First(Now(IF Type(At) = "comma" THEN "list" ELSE "tail"),
                   Read(At + 1, 999, {"bar", "comma"}), Tail(frames))
          /\ Quietly
       \/ /\ Type(At) = "close_list"
          /\ Complete(At + 1, Node("list", Top.token, Terms))
          /\ UNCHANGED choices
          /\ Quietly
       \/ /\ Type(At) \notin {"comma", "ht_sep", "close_list"}
          /\ Missing(Culprit(At))

\* expect: the bracket that closes a list after its tail, parentheses or braces
ClosedBy == [tail |-> "close_list", paren |-> "close", curly |-> "close_curly"]

Bracketed ==
    CASE Top.then = "tail"  -> Node("partial_list", Top.token, Terms)
      [] Top.then = "paren" -> call.term
      [] Top.then = "curly" -> Node("curly", Top.token, Terms)

expect_bracket ==
    /\ Answers({"tail", "paren", "curly"})
    /\ \/ /\ Type(At) = ClosedBy[Top.then]
          /\ Complete(At + 1, Bracketed)
          /\ IF Top.then = "curly"
             THEN Suspend(Restore(Top.token), <<>>) /\ braced' = braced \cup {Top.token}
             ELSE UNCHANGED <<choices, braced>>
          /\ UNCHANGED <<tokens, infix, postfix, errors, last>>
       \/ /\ Type(At) # ClosedBy[Top.then]
          /\ Missing(At - 1)

\* the key of a dict, and its ":"
read_key ==
    /\ Answers({"key"})
    /\ \/ /\ IsAtom(At, ":")
          /\ First(Now("value"),
                   Read(At + 1, 1200, Top.ctx \cup {"comma"}), Tail(frames))
          /\ Quietly
       \/ /\ ~ IsAtom(At, ":")
          /\ Missing(At - 1)

\* a plausible mistake: the dict is read again
DictAgain(name) == Read(name, Top.prec, Top.ctx)

\* the readings of a name when those of the dict it is the tag of are used up
OtherThanDict(name) ==
    IF Type(name) = "atom" THEN AtomTail(name, Top.prec, Top.ctx)
    ELSE Exprtl0(name + 1, Atomic(name), Top.prec, Top.ctx)

\* the value of a key, and what follows it
DictEnds ==
    /\ Complete(At + 1, Node("dict", Top.token, Terms))
    /\ Suspend(OtherThanDict(Top.token - 1), Tail(frames))

read_value ==
    /\ Answers({"value"})
    /\ \/ /\ Type(At) = "comma"
          /\ First(Now("key"),
                   Read(At + 1, 1200, Top.ctx \cup {"colon", "comma"}), Tail(frames))
          /\ Quietly
       \/ /\ Type(At) = "close_curly"
          /\ DictEnds
          /\ Quietly
       \/ /\ Type(At) = "none"
          /\ GoOn(Return(Top.depth))
          /\ Quietly
       \/ /\ Type(At) \notin {"comma", "close_curly", "none"}
          /\ Missing(At)

-------------------------------------------------------------------------------
(* The generators that have no more readings to yield. *)

return ==
    /\ Runs("return")
    /\ call' = Fail
    /\ choices' = Oldest(call.depth)
    /\ UNCHANGED frames
    /\ Quietly

\* What follows a term in braces has been read in all ways.
restore ==
    /\ Runs("restore")
    /\ braced' = braced \ {call.token}
    /\ GoOn(Fail)
    /\ UNCHANGED <<tokens, infix, postfix, errors, last>>

resume ==
    /\ Runs("fail")
    /\ choices # <<>>
    /\ call' = Newest.call
    /\ frames' = Newest.frames
    /\ choices' = Oldest(Len(choices) - 1)
    /\ Quietly

all_read(i) == i > Len(tokens)

\* Parser.next: it takes the first reading that leaves no token, or else the last.
next ==
    \/ /\ Runs("yield") /\ frames = <<>>
       /\ last' = [at |-> At, term |-> call.term]
       /\ call' = IF all_read(At) THEN Done ELSE Fail
       /\ UNCHANGED <<tokens, frames, choices, annotations, errors>>
    \/ /\ Runs("fail") /\ choices = <<>>
       /\ GoOn(Done)
       /\ Quietly

Generators ==
    \/ read \/ atom \/ after_prefix_op \/ exprtl0 \/ ambigop \/ exprtl \/ postfix_operator
    \/ once \/ operand \/ read_args \/ read_list \/ expect_bracket \/ read_key \/ read_value
    \/ restore \/ return \/ resume

Next == Generators \/ next

\* next is a synchronous call
Spec == Init /\ [][Next]_vars /\ WF_vars(Next)

-------------------------------------------------------------------------------
(* Properties. *)

\* Positions are in the clause or just behind it, and annotations on its tokens.
TypeOK ==
    /\ tokens \in Seq(Token)
    /\ call.fn \in {"read", "atom", "exprtl0", "ambigop", "exprtl", "after_prefix_op",
                    "postfix", "yield", "restore", "return", "fail", "done", "throw"}
    /\ call.fn \notin {"restore", "return", "fail", "done", "throw"} => At \in 1..Len(tokens) + 1
    /\ infix \subseteq 1..Len(tokens)
    /\ postfix \subseteq 1..Len(tokens)
    /\ braced \subseteq 1..Len(tokens)
    /\ last.at \in 1..Len(tokens) + 1

\* The reader throws nothing: every diagnostic is at a token that is there (the
\* ranges are taken of tokens[idx - 1] where there may be none), and the annotation
\* of an operator is there as long as a loop over its operands reads it, although
\* other generators delete annotations.
NeverThrows == call.fn # "throw" /\ errors \subseteq 1..Len(tokens)

\* While the loop over what follows a term in braces goes on, for which the opening
\* brace has the value "{}", nothing is read that starts at the brace or before it:
\* a name there would be taken for the tag of an empty dict.  (The loop goes on until
\* it puts the value back.  One that is given up never does, and a name can be
\* read in front of its brace later, as in - { :- : { a } } ): tried as a dict, its
\* braces get the value, and tried again without they are the dict :{}.)
BracesStayBehind ==
    \A a \in DOMAIN choices :
        Runs("read") /\ choices[a].call.fn = "restore" => choices[a].call.token < At

Finished == Runs("done")
Accepted == Finished /\ all_read(last.at)

\* The reader comes to an end, whatever the clause.
EveryClauseIsRead == <>[]Finished
===============================================================================
