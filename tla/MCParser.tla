-------------------------------- MODULE MCParser --------------------------------
(* Token lists for Parser: every short list over a few alphabets. *)
EXTENDS ParserReference

Names == {"a", "-", "=", ":-", "!", "?", ":", "{}"}
NoName == {}

\* "-" is a prefix and an infix operator, ":-" too, "=" infix; "!" is made a
\* postfix operator, and "?" a postfix and an infix one.
Builtins ==
    [key \in Key |->
        CASE key = <<"-", "fy">> -> 200
          [] key = <<"-", "yfx">> -> 500
          [] key = <<"=", "xfx">> -> 700
          [] key = <<":-", "xfx">> -> 1200
          [] key = <<":-", "fx">> -> 1200
          [] key = <<":", "xfy">> -> 600
          [] OTHER -> 0]
Own == [key \in Key |->
        CASE key = <<"!", "xf">> -> 300
          [] key = <<"?", "yf">> -> 400
          [] key = <<"?", "xfy">> -> 600
          [] OTHER -> 0]
MCTables == [default |-> Builtins, user |-> Own]

A(text) == [type |-> "atom", text |-> text]
P(type) == [type |-> type, text |-> ""]

Lists(alphabet, max) == UNION {[1..n -> alphabet] : n \in 1..max}

Operators == {A("a"), A("-"), A("="), A(":-"), A("!"), A("?"), P("comma")}
Arguments == {A("a"), P("integer"), P("open_ct"), P("open"), P("close"), P("comma"), A("-")}
ListTokens == {A("a"), P("open_list"), P("close_list"), P("comma"), P("ht_sep"), A("-")}
Curly == {A("a"), A("?"), P("var"), P("open_curly"), P("close_curly"), A(":"), P("comma")}

\* clauses that start as a dict
Dicts == {<<tag, P("open_curly")>> \o rest : tag \in {A("a"), P("var")}, rest \in [1..5 -> Curly]}

\* terms in braces with an operator in front of one of them
Braces == {A("-"), A("="), P("var"), P("open_curly"), P("close_curly"), P("comma")}
BraceClauses ==
    {list \in Lists(Braces, 6) :
        \E i, j \in DOMAIN list :
            /\ 1 < i /\ i < j
            /\ list[i - 1].type = "atom" /\ list[i].type = "open_curly"
            /\ list[j].type = "close_curly"}

\* terms in braces inside what is tried as a dict
BracesInDicts ==
    {<<tag, P("open_curly"), key, A(":"), P("open_curly"), A("a"), P("close_curly")>> \o end
        : tag \in {A("a"), A("-"), P("var")}, key \in {A("a"), A("-")},
          end \in [1..2 -> {P("close_curly"), A("="), P("comma")}]}

\* two arguments, the first with operators
TwoArguments ==
    {<<A("a"), P("open_ct")>> \o first \o <<P("comma"), A("a"), P("close")>>
        : first \in Lists({A("a"), A("-"), A("="), P("comma")}, 3)}

Clauses ==
    Lists(Operators, 5) \cup Lists(Arguments, 5) \cup Lists(ListTokens, 6) \cup Dicts
    \cup BraceClauses \cup BracesInDicts
================================================================================
