----------------------------- MODULE MCWorkspace -----------------------------
(* An instance of Workspace for TLC: three files that define an operator, with *)
(* one precedence or another, or import one another.                           *)
EXTENDS Workspace

CONSTANTS f1, f2, f3, is, likes, curly

ThreeFiles == {f1, f2, f3}
OneName == {likes}
ReservedNames == {curly}
BuiltinTable == EmptyTable

Defines(prec) == <<[kind |-> "op", prec |-> prec, type |-> "xfx", name |-> likes]>>
Use(file) == [kind |-> "use_module", file |-> file]

\* The first imports the second, which has an operator, imports the third for it,
\* is missing, or imports the first; edits make every other graph.
First  == {<<Use(f2)>>, <<Use(f2), Use(f3)>>}
Second == {Defines(400), <<Use(f3)>>, <<Use(f1)>>}

GraphPrograms == First \cup Second \cup {Defines(700)}
GraphDisks ==
  {d \in [ThreeFiles -> GraphPrograms \cup {Unreadable}] :
     d[f1] \in First /\ d[f2] \in Second \cup {Unreadable} /\ d[f3] = Defines(700)}
=============================================================================
