-------------------------- MODULE MCLanguageServer --------------------------
(* Instances of LanguageServer for TLC; the .cfg files give the sizes. *)
EXTENDS LanguageServer

CONSTANTS u1, u2, p1, p2, p3, p4, r1, r2, r3, r4, q1

OneUri == {u1}
TwoUris == {u1, u2}
Promises == {p1, p2, p3, p4}
Runs == {r1, r2, r3, r4}
OneRequest == {q1}
NoRequests == {}
NoFaults == {}
AllFaults == {"throw", "unreadable", "reject"}
=============================================================================
