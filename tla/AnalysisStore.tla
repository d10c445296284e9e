---------------------------- MODULE AnalysisStore ----------------------------
(***************************************************************************)
(* What the session layer of the language server promises its readers, the *)
(* feature requests: for every document a store of analyses that trails    *)
(* the contents the editor gives, never goes back to an older content,     *)
(* never drops an analysis it has except for a failed one, and in the end  *)
(* catches up.  How contents and settings travel, which validations run    *)
(* and that an entry is undefined during a parse are not visible here.     *)
(***************************************************************************)
EXTENDS Naturals

CONSTANTS
  Uri,      \* documents
  Absent,   \* nothing is known about the document
  Broken    \* its last analysis, or the import of it, failed

VARIABLES
  content,  \* content[u]: number of contents the editor has given u
  analysis  \* analysis[u]: Absent, Broken, 0 (the file on disk) or a content

storeVars == <<content, analysis>>

Init ==
  /\ content = [u \in Uri |-> 0]
  /\ analysis = [u \in Uri |-> Absent]

\* The editor gives a document a new content.
Give(u) ==
  /\ content' = [content EXCEPT ![u] = @ + 1]
  /\ UNCHANGED analysis

NotOlder(new, old) == old \in Nat => new >= old

\* Content n of u is analysed, or its analysis fails.  On the way documents of
\* which nothing is known may be imported from disk; no other entry changes.
Analyse(u, result) ==
  /\ result = Broken \/ NotOlder(result, analysis[u])
  /\ \E imported \in SUBSET {w \in Uri \ {u} : analysis[w] = Absent} :
       \E failed \in SUBSET imported :
         analysis' = [w \in Uri |-> IF w = u THEN result
                                    ELSE IF w \in failed THEN Broken
                                    ELSE IF w \in imported THEN 0
                                    ELSE analysis[w]]
  /\ UNCHANGED content

Next ==
  \E u \in Uri :
    \/ Give(u)
    \/ \E n \in 1..content[u] : Analyse(u, n)
    \/ Analyse(u, Broken)

\* The analysis of the newest content of u.
CatchUp(u) == content[u] > 0 /\ analysis[u] # content[u] /\ Analyse(u, content[u])

Spec == Init /\ [][Next]_storeVars

FairSpec == Spec /\ \A u \in Uri : WF_storeVars(CatchUp(u))
=============================================================================
