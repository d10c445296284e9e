--------------------------- MODULE OperatorTable ---------------------------
(***************************************************************************)
(* The operator tables of the parser (server/src/operators.ts).  A table   *)
(* maps a name and a type to a precedence.  There are two: the builtin     *)
(* table, one object that every document shares, and the table of the      *)
(* operators a document defines.  Nothing here has state: an operation     *)
(* takes the two tables and returns the tables it leaves.                  *)
(***************************************************************************)
EXTENDS Naturals

CONSTANTS
  Name,      \* atoms
  Reserved,  \* the names whose operators may not be modified: [] and {}
  NaN        \* the precedence read from an integer such as 1_000 or 0'c

OpType == {"fx", "fy", "xf", "yf", "xfy", "yfx", "xfx"}
MaxPrecedence == 1200

ASSUME NotANumber == NaN \notin Nat

Key == Name \X OpType

\* The precedence of every name as an operator of every type; 0 stands for the
\* undefined of the maps, which the code takes for the same.
Table == [Key -> 0..MaxPrecedence]

EmptyTable == [key \in Key |-> 0]

\* A wrong variant: the document's own table is asked first.
OwnFirst(tables, name, type) ==
  IF tables.user[<<name, type>>] # 0 THEN tables.user[<<name, type>>]
  ELSE tables.default[<<name, type>>]

\* The precedence a name has as an operator of a type; 0 when it is none.  A
\* builtin operator hides the document's own of that name and type.
current_op(tables, name, type) ==
  IF tables.default[<<name, type>>] # 0 THEN tables.default[<<name, type>>]
  ELSE tables.user[<<name, type>>]

\* Precedence 0 abolishes the operator in both tables, a positive one defines
\* it in the document's; NaN is neither.
op_3(tables, prec, type, name) ==
  CASE prec = NaN -> tables
    [] prec = 0   -> [default |-> [tables.default EXCEPT ![<<name, type>>] = 0],
                      user    |-> [tables.user EXCEPT ![<<name, type>>] = 0]]
    [] OTHER      -> [tables EXCEPT !.user = [@ EXCEPT ![<<name, type>>] = prec]]

\* The error for a reserved name; the modification goes on all the same.
PermissionErrors(name) == IF name \in Reserved THEN {"permission"} ELSE {}

\* A wrong variant: the upper bound is not checked.
PrecedenceUnchecked(prec, type) == IF type \notin OpType THEN {"type"} ELSE {}

\* What check makes of op(prec, type, name): its errors.  The names that are no
\* atom are dropped without one; they are not in the model's programs.
check(prec, type) ==
  IF prec # NaN /\ prec > MaxPrecedence THEN {"precedence"}
  ELSE IF type \notin OpType THEN {"type"}
  ELSE {}

\* The directive op(prec, type, name): the tables it leaves and its errors.
op(tables, prec, type, name) ==
  IF check(prec, type) # {}
  THEN [tables |-> tables, errors |-> check(prec, type)]
  ELSE [tables |-> op_3(tables, prec, type, name),
        errors |-> PermissionErrors(name)]

\* The document's table after every operator of another one is added to it.
Union(table, other) ==
  [key \in Key |-> IF other[key] # 0 THEN other[key] ELSE table[key]]

\* A wrong variant: the tables are merged without op_3.
MergeErrors(other) == {}

\* Every operator that is added may be one of a reserved name.
AbsorbErrors(other) ==
  UNION {PermissionErrors(key[1]) : key \in {k \in Key : other[k] # 0}}

\* Importing the operators of another document's table.
absorb(tables, other) ==
  [tables |-> [tables EXCEPT !.user = Union(@, other)],
   errors |-> AbsorbErrors(other)]

NoOperator == [type |-> "none", opPrec |-> 0, lPrec |-> 0, rPrec |-> 0]

\* How the parser reads a name after a term: the first type that has it.
infixop(tables, name) ==
  LET Prec(type) == current_op(tables, name, type)
      Reading(type, left, right) ==
        [type |-> type, opPrec |-> Prec(type),
         lPrec |-> Prec(type) - left, rPrec |-> Prec(type) - right]
  IN  CASE Prec("xfx") # 0 -> Reading("xfx", 1, 1)
        [] Prec("xfx") = 0 /\ Prec("xfy") # 0 -> Reading("xfy", 1, 0)
        [] Prec("xfx") = 0 /\ Prec("xfy") = 0 /\ Prec("yfx") # 0 ->
             Reading("yfx", 0, 1)
        [] OTHER -> NoOperator
=============================================================================
