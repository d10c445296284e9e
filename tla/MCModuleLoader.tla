--------------------------- MODULE MCModuleLoader ---------------------------
(* Instances of ModuleLoader for TLC.  "is" is a builtin operator, "likes" is *)
(* not, "{}" is a reserved name.                                              *)
EXTENDS ModuleLoaderReference

CONSTANTS f1, f2, f3, is, likes, curly

TwoFiles == {f1, f2}
ThreeFiles == {f1, f2, f3}
Names == {is, likes, curly}
ReservedNames == {curly}
BuiltinTable == [key \in Key |-> IF key = <<is, "xfx">> THEN 700 ELSE 0]

Op(prec, type, name) == [kind |-> "op", prec |-> prec, type |-> type, name |-> name]
Use(file) == [kind |-> "use_module", file |-> file]
TermOf(name) == [kind |-> "term", name |-> name]
ModuleOf(list) == [kind |-> "module", exports |-> list]
PredicateExport == [kind |-> "predicate"]

Likes == Op(700, "xfx", likes)
LikesLess == Op(400, "xfx", likes)

\* Three files that import each other: every graph of at most two imports a
\* file, in cycles too, with operators defined before, between and after them.
ImportPrograms ==
  {<<Likes>>, <<LikesLess, TermOf(likes)>>, <<ModuleOf(<<Likes, PredicateExport>>)>>}
  \cup {<<Use(f), TermOf(likes)>> : f \in ThreeFiles}
  \cup {<<Likes, Use(f)>> : f \in ThreeFiles}
  \cup {<<Use(f), Op(0, "xfx", likes)>> : f \in ThreeFiles}
  \cup {<<Use(f), Use(g)>> : f, g \in ThreeFiles}

\* Two files with every kind of op/3 and export list.
Definitions ==
  {Likes, LikesLess, Op(400, "yfx", likes), Op(0, "xfx", likes),
   Op(0, "xfx", is), Op(200, "xfx", is), Op(200, "xfy", is),
   Op(700, "xfx", curly), Op(0, "xfx", curly),
   Op(NaN, "xfx", likes), Op(1201, "xfx", likes), Op(700, "zfz", likes),
   ModuleOf(<<Likes, PredicateExport, Op(400, "yfx", likes)>>), ModuleOf(<< >>)}

DefinitionPrograms ==
  {<<d>> : d \in Definitions}
  \cup {<<d, TermOf(n)>> : d \in Definitions, n \in {is, likes}}
  \cup {<<d, Use(f)>> : d \in Definitions, f \in TwoFiles}
  \cup {<<Use(f), d, TermOf(likes)>> : d \in Definitions, f \in TwoFiles}

\* Three files that import each other, and two with definitions.
ImportDisks == [ThreeFiles -> ImportPrograms \cup {Unreadable}]
DefinitionDisks == {[f \in ThreeFiles |-> IF f = f3 THEN Unreadable ELSE d[f]] :
                      d \in [TwoFiles -> DefinitionPrograms \cup {Unreadable}]}
AllDisks == ImportDisks \cup DefinitionDisks
AllPrograms == ImportPrograms \cup DefinitionPrograms

=============================================================================
