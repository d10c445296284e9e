-------------------------------- MODULE MCLexer --------------------------------
(* Every short text of all characters, and longer ones of the pieces that       *)
(* quotes, comments and numbers are made of.  Some pieces have two characters   *)
(* so that the cases that matter are short.                                     *)
EXTENDS LexerReference

CONSTANTS Short, Long   \* how many pieces

Stop == <<".", "nl">>

Pieces    == {<<c>> : c \in Character} \cup {Stop, <<"0", "'">>, <<"/", "*">>, <<"*", "/">>}
Quoting   == {<<"'">>, <<"double">>, <<"\\">>, <<"x">>, <<"other">>, Stop}
Remarking == {<<"%">>, <<"nl">>, <<"/", "*">>, <<"*", "/">>, <<"a">>, Stop}
Counting  == {<<"0", "'">>, <<"2">>, <<"'">>, <<"sp">>, <<"\\">>, Stop}
Escaping  == {<<"0", "'", "\\">>, <<"x">>, <<"a">>, <<"d", "0", "a">>, <<"\\">>, Stop}
Sixteen   == {<<"0">>, <<"x">>, <<"d">>, <<"u">>, <<"'">>, Stop}
Bracing   == {<<"sp">>, <<"(">>, <<"a">>, <<"+">>, <<"other">>, Stop}

TextsOf(pieces, max) ==
    LET texts[n \in 0..max] ==
            IF n = 0 THEN {<<>>}
            ELSE texts[n - 1] \cup {t \o p : t \in texts[n - 1], p \in pieces}
    IN  texts[max]

MCTexts ==
    TextsOf(Pieces, Short)
        \cup UNION {TextsOf(p, Long) : p \in {Quoting, Remarking, Counting, Escaping, Sixteen, Bracing}}

================================================================================
