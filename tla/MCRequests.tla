------------------------------- MODULE MCRequests -------------------------------
(***************************************************************************)
(* Files for Requests: clauses of every form, which are indexed, and small *)
(* programs set tightly or with spaces, a clause on a line, of which       *)
(* requests are made.  A node is the path to it: the number of its clause, *)
(* 1 for its term, and the arguments that lead to it.                      *)
(***************************************************************************)
EXTENDS Requests

LOCAL INSTANCE SequencesExt

Cst == INSTANCE CstNodes

\* `is` and `args` are read by CstNodes, `class`, `value` and `args` by Indexer
Form(is, class, value, args) == [is |-> is, class |-> class, value |-> value, args |-> args]

Atom(v)         == Form("atom", "atom", v, <<>>)
Atomic(v)       == Form("atom", "atomic", v, <<>>)
Compound(v, as) == Form("compound", "compound", v, as)
Infix(v, l, r)  == Form("infix", "compound", v, <<l, r>>)
Prefix(v, a)    == Form("prefix", "compound", v, <<a>>)
Postfix(v, a)   == Form("postfix", "compound", v, <<a>>)
Curly(a)        == Form("curly", "compound", "{}", <<a>>)
ListOf(h, t)    == Form("list", "list", "[|]", <<h, t>>)
Nil             == Form("nil", "atomic", "[]", <<>>)

RECURSIVE Paths(_), At(_, _)
Paths(t) == {<<>>} \cup UNION {{<<i>> \o q : q \in Paths(t.args[i])} : i \in 1..Len(t.args)}
At(t, q) == IF q = <<>> THEN t ELSE At(t.args[Head(q)], Tail(q))

FileOf(ts, tree) ==
    LET nodes == UNION {{<<c, 1>> \o q : q \in Paths(ts[c])} : c \in 1..Len(ts)}
        at(n) == At(ts[n[1]], SubSeq(n, 3, Len(n)))
    IN  [terms |-> [c \in 1..Len(ts) |-> <<c, 1>>],
         class |-> [n \in nodes |-> at(n).class],
         value |-> [n \in nodes |-> at(n).value],
         args  |-> [n \in nodes |-> [i \in 1..Len(at(n).args) |-> Append(n, i)]],
         under |-> [n \in nodes |-> {m \in nodes : IsPrefix(n, m)}],
         tree  |-> tree]

\* every clause but the last is followed by a line break, and the last may lack its end
TreeOf(ts, ended, space) ==
    LET clauses == [c \in 1..Len(ts) |-> [term |-> ts[c], end |-> c < Len(ts) \/ ended]]
        lexemes == Cst!TextOfFile(clauses)
        starts  == Cst!Starts(lexemes, space)
        breaks  == {Cst!EndOf(lexemes, starts, i) :
                        i \in {j \in 1..Len(lexemes) - 1 : lexemes[j].class = "end"}}
    IN  Cst!Parsed(clauses, lexemes, starts, breaks)

Indexed(ts)               == FileOf(ts, None)
Document(ts, ended, space) == FileOf(ts, TreeOf(ts, ended, space))

P     == Atom("p")
Q     == Atom("q")
X     == Atomic("X")
PX    == Compound("p", <<X>>)
Plain == {P, PX, X, Atom("!"), Atom("[]"), Atom("{}"), ListOf(P, Nil), Compound("c", <<>>)}

\* the forms a body is made of, around the given ones
BodiesOf(g) ==
    g \cup {Infix(v, P, b) : v \in {",", ";", ":", "-->"}, b \in g}
      \cup {Infix(v, b, Q) : v \in {"|", "->", "*->", ":"}, b \in g}
      \cup {Prefix("\\+", b) : b \in g} \cup {Curly(b) : b \in g}

Heads == {P, PX, X, ListOf(P, Nil), Infix(":", Q, P), Infix(":", Q, Infix(":", Q, PX)),
          Infix(",", P, ListOf(Q, Nil)), Infix(",", P, Q), Infix(":", Q, Infix(",", P, Q))}

Rules == {Infix(v, P, b) : v \in {":-", "-->"}, b \in BodiesOf(BodiesOf(Plain))}
         \cup {Infix(v, h, b) : v \in {":-", "-->"}, h \in Heads, b \in {Q, Infix(":", P, Q)}}
Facts == {P, PX, X, Infix(":", Q, P), Infix(":", Q, Infix(",", P, PX)),
          Infix(":", Q, Infix(":-", P, Q)), Infix(":", Q, Infix("-->", P, Q))}

Op      == Compound("op", <<X, P, Q>>)
Export  == Infix("/", P, X)
Exports == {Nil, ListOf(Export, Nil), ListOf(Op, Nil), ListOf(Op, ListOf(Export, Nil)),
            ListOf(Export, ListOf(Op, Nil)), ListOf(Op, ListOf(Op, Nil)), ListOf(Op, X)}
Deeds   == {P, PX, Op, Compound("use_module", <<P>>),
            Compound("use_module", <<Compound("library", <<P>>)>>)}
           \cup {Compound("module", <<m, e>>) : m \in {P, X}, e \in Exports \cup {P}}
Directives == {Prefix(":-", d) : d \in Deeds \cup {Infix(",", d, P) : d \in Deeds}}

Few == {Infix("-->", P, P), Infix("-->", P, Infix(",", Q, P)), Infix(":-", PX, P), P, Infix(":", Q, P),
        Prefix(":-", Op)}

IndexedFiles == {Indexed(<<t>>) : t \in Rules \cup Facts \cup Directives}
                \cup {Indexed(<<t, u>>) : t \in Few, u \in Few}

\* a rule or grammar rule, or a clause with a module in front, then a fact, a rule, a
\* grammar rule or a directive, then a fact
Bodies == {P, Q, PX, Infix(",", Q, Compound("p", <<Q>>)), Infix(";", P, Infix("->", Q, P)),
           Prefix("\\+", P), Infix(":", Q, P), ListOf(Q, Nil), Curly(P), Postfix("!", P)}

RulesFor(v, h) == {Infix(v, h, b) : b \in Bodies}

Programs ==
    {<<t, u, P>> : t \in RulesFor(":-", P) \cup RulesFor("-->", P) \cup RulesFor(":-", PX),
                   u \in {Infix(":-", Q, P), Infix("-->", Q, P)}}
    \cup {<<Infix(":", Q, t), u, P>> : t \in {P, PX, Infix(":-", P, Q), Infix("-->", P, Q)},
                                       u \in {Infix(":-", Q, P), Infix("-->", Q, P)}}
    \cup {<<t, PX, P>> : t \in RulesFor(":-", PX) \cup RulesFor("-->", Infix(":", Q, P))}
    \cup {<<t, Prefix(":-", Q), P>> : t \in RulesFor(":-", Infix(":", Q, P))
                                         \cup {Infix("-->", Infix(",", P, ListOf(Q, Nil)), Q)}}

Documents ==
    {Document(p, TRUE, 0) : p \in Programs}
    \cup {Document(<<t, Prefix(":-", Q), P>>, FALSE, 1) : t \in RulesFor("-->", P)}

MCFiles == IndexedFiles \cup Documents
================================================================================
