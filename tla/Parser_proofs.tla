------------------------------ MODULE Parser_proofs ------------------------------
(***************************************************************************)
(* Proofs about Parser, for all clauses and operator tables.  The          *)
(* annotations of tokens are shared by all readings, and the reader does   *)
(* not put them back when it gives a reading up.  What saves it is that    *)
(* positions grow with age: a suspended generator reads on at or before    *)
(* the place where the running call is, its frames wait for operators in   *)
(* front of that place, and the running call deletes annotations at its    *)
(* own place only.  The one call that goes back, to read a name that is    *)
(* no tag of a dict, does so when nothing is suspended behind the name.    *)
(* Then that the node kept for a clause is one that the grammar of         *)
(* ParserReference has for its tokens: the readings of the grammar are     *)
(* closed under its rules, and each call of the reader moves by one of     *)
(* them from what is read behind it towards what its frames wait for.      *)
(* Last that every step, also one that goes back, leaves less to be tried. *)
(***************************************************************************)
EXTENDS ParserReference, SequenceTheorems, WellFoundedInduction, TLAPS

CallKinds == {"read", "atom", "exprtl0", "ambigop", "exprtl", "after_prefix_op",
               "postfix", "yield", "restore", "return", "fail", "done"}

\* the calls that are at a token
Reads(c) == c.fn \notin {"restore", "return", "fail", "done"}

\* The place of a suspended generator is where it reads on or, if it is to put the value
\* of a brace back, behind the brace.
Placed(c) == Reads(c) \/ c.fn = "restore"
Place(c)  == IF c.fn = "restore" THEN c.token + 1 ELSE c.at

\* A call when m generators are suspended, n tokens are read, and `post` are the
\* tokens annotated as postfix operators.
CallOK(c, m, n, post) ==
    /\ c.fn \in CallKinds
    /\ Reads(c) => /\ c.at \in 1..n + 1
                   /\ c.fn \notin {"read", "atom"} => c.at >= 2
                   /\ c.fn \in {"atom", "ambigop"} => c.at <= n
                   /\ c.fn \in {"after_prefix_op", "postfix"} => c.turn \in Nat \ {0}
                   /\ c.fn = "postfix" => c.at - 1 \in post
    /\ c.fn = "return" => c.depth \in 0..m
    /\ c.fn = "restore" => c.token \in 1..n

Once(f)   == f.then = "once"
InDict(f) == f.then \in {"key", "value"}

\* A frame below the call c; `inf` are the tokens that may be waited for as infix
\* operators.
FrameOK(f, c, n, inf) ==
    ~ Once(f) => /\ f.token \in 1..n
                 /\ f.token < c.at
                 /\ f.then = "infix" => f.token \in inf
                 /\ InDict(f) => f.token >= 2

\* Frames for the pairs of a dict get the first reading only, and when they have got
\* it nothing is suspended that was not when the dict was begun.
Alone(i, fs, c, m) ==
    \/ i = 1 /\ c.fn = "yield" /\ fs[i].depth = m
    \/ i > 1 /\ Once(fs[i - 1]) /\ fs[i - 1].depth = fs[i].depth

\* What the frame i of a dict has before the name in front of the brace.
NameIsFree(i, fs, ch) ==
    /\ \A j \in i + 1..Len(fs) : Once(fs[j]) \/ fs[j].token < fs[i].token - 1
    /\ \A a \in 1..fs[i].depth : Placed(ch[a].call) => Place(ch[a].call) < fs[i].token

IsSeq(s) == s \in Seq({s[i] : i \in DOMAIN s})

FramesOK(c, fs, ch, m, n, inf) ==
    /\ IsSeq(fs)
    /\ \A i \in 1..Len(fs) :
          /\ FrameOK(fs[i], c, n, inf)
          /\ fs[i].depth \in 0..m
          /\ \A j \in i + 1..Len(fs) : fs[j].depth <= fs[i].depth
          /\ InDict(fs[i]) => Alone(i, fs, c, m) /\ NameIsFree(i, fs, ch)

\* Nothing is suspended behind token p.
Below(ch, p) == \A a \in 1..Len(ch) : Placed(ch[a].call) => Place(ch[a].call) <= p

ChoiceOK(a, ch, n, inf, post) ==
    LET c == ch[a].call
    IN  /\ CallOK(c, a - 1, n, post)
        /\ c.fn # "yield"
        /\ Reads(c) =>
              /\ FramesOK(c, ch[a].frames, ch, a - 1, n, inf)
              /\ \A b \in 1..a - 1 : Placed(ch[b].call) => Place(ch[b].call) <= c.at

ChoicesOK(ch, n, inf, post) ==
    /\ IsSeq(ch)
    /\ \A a \in 1..Len(ch) : ChoiceOK(a, ch, n, inf, post)

\* The reader with the call c, the frames fs and the suspended generators ch.
Sound(c, fs, ch, n, inf, post) ==
    /\ ChoicesOK(ch, n, inf, post)
    /\ CallOK(c, Len(ch), n, post)
    /\ Reads(c) => FramesOK(c, fs, ch, Len(ch), n, inf) /\ Below(ch, c.at)

\* A separator is an infix operator without annotation.
Waitable == infix \cup {i \in 1..Len(tokens) : Type(i) # "atom"}

IInv ==
    /\ tokens \in TokenLists
    /\ infix \subseteq 1..Len(tokens)
    /\ postfix \subseteq 1..Len(tokens)
    /\ braced \subseteq 1..Len(tokens)
    /\ errors \subseteq 1..Len(tokens)
    /\ last.at \in 1..Len(tokens) + 1
    /\ Sound(call, frames, choices, Len(tokens), Waitable, postfix)

-------------------------------------------------------------------------------
(* Sequences whose elements are of no set in particular. *)

\* A sequence over any set is one over the set of its elements.
LEMMA Any ==
    ASSUME NEW S, NEW s \in Seq(S)
    PROVE  IsSeq(s)
<1> DEFINE R == {s[i] : i \in DOMAIN s}
<1>1. Len(s) \in Nat /\ DOMAIN s = 1..Len(s) /\ s = [i \in 1..Len(s) |-> s[i]]
  OBVIOUS
<1>2. s \in [1..Len(s) -> R]
  <2>1. \A i \in 1..Len(s) : s[i] \in R
    BY <1>1
  <2> QED
    BY <1>1, <2>1
<1>3. s \in Seq(R)
  BY <1>1, <1>2, SeqDef
<1> QED
  BY <1>3 DEF IsSeq

LEMMA EmptyIsSeq == IsSeq(<<>>)
BY Any, EmptySeq

LEMMA LenOf == ASSUME NEW s, IsSeq(s) PROVE Len(s) \in Nat
BY DEF IsSeq

\* The sequence without its first element.
LEMMA Popped ==
    ASSUME NEW s, IsSeq(s), s # <<>>
    PROVE  /\ IsSeq(Tail(s)) /\ Len(s) > 0 /\ Len(Tail(s)) = Len(s) - 1
           /\ \A i \in 1..Len(Tail(s)) : Tail(s)[i] = s[i + 1]
<1> DEFINE S == {s[i] : i \in DOMAIN s}
<1>1. s \in Seq(S)
  BY DEF IsSeq
<1> HIDE DEF S
<1>2. Tail(s) \in Seq(S) /\ Len(s) > 0 /\ Len(Tail(s)) = Len(s) - 1
  BY <1>1
<1>3. \A i \in 1..Len(Tail(s)) : Tail(s)[i] = s[i + 1]
  BY <1>1, <1>2
<1> QED
  BY <1>2, <1>3, Any

\* An element in front.
LEMMA Pushed ==
    ASSUME NEW s, IsSeq(s), NEW e
    PROVE  /\ IsSeq(<<e>> \o s) /\ Len(<<e>> \o s) = Len(s) + 1
           /\ (<<e>> \o s)[1] = e
           /\ \A i \in 1..Len(s) : (<<e>> \o s)[i + 1] = s[i]
<1> DEFINE S == {s[i] : i \in DOMAIN s} \cup {e}
<1>1. s \in Seq({s[i] : i \in DOMAIN s})
  BY DEF IsSeq
<1>2. s \in Seq(S) /\ <<e>> \in Seq(S)
  BY <1>1, SeqMonotonic
<1> HIDE DEF S
<1>3. <<e>> \o s \in Seq(S) /\ Len(<<e>>) = 1
  BY <1>2
<1>4. /\ Len(<<e>> \o s) = Len(s) + 1
      /\ (<<e>> \o s)[1] = e
      /\ \A i \in 1..Len(s) : (<<e>> \o s)[i + 1] = s[i]
  BY <1>2, <1>3
<1> QED
  BY <1>3, <1>4, Any

\* An element at the end.
LEMMA Appended ==
    ASSUME NEW s, IsSeq(s), NEW e
    PROVE  /\ IsSeq(Append(s, e)) /\ Len(Append(s, e)) = Len(s) + 1
           /\ Append(s, e)[Len(s) + 1] = e
           /\ \A i \in 1..Len(s) : Append(s, e)[i] = s[i]
<1> DEFINE S == {s[i] : i \in DOMAIN s} \cup {e}
<1>1. s \in Seq({s[i] : i \in DOMAIN s})
  BY DEF IsSeq
<1>2. s \in Seq(S) /\ e \in S
  BY <1>1, SeqMonotonic
<1> HIDE DEF S
<1>3. Append(s, e) \in Seq(S)
  BY <1>2
<1>4. /\ Len(Append(s, e)) = Len(s) + 1
      /\ Append(s, e)[Len(s) + 1] = e
      /\ \A i \in 1..Len(s) : Append(s, e)[i] = s[i]
  BY <1>2
<1> QED
  BY <1>3, <1>4, Any

\* The first k elements.
LEMMA Cut ==
    ASSUME NEW s, IsSeq(s), NEW k \in 0..Len(s)
    PROVE  /\ IsSeq(SubSeq(s, 1, k)) /\ Len(SubSeq(s, 1, k)) = k
           /\ \A i \in 1..k : SubSeq(s, 1, k)[i] = s[i]
<1> DEFINE S == {s[i] : i \in DOMAIN s}
<1>1. s \in Seq(S)
  BY DEF IsSeq
<1> HIDE DEF S
<1>2. SubSeq(s, 1, k) \in Seq(S) /\ Len(SubSeq(s, 1, k)) = k
  BY <1>1, SubSeqProperties
<1>3. \A i \in 1..k : SubSeq(s, 1, k)[i] = s[i]
  BY <1>1, SubSeqProperties
<1> QED
  BY <1>2, <1>3, Any

-------------------------------------------------------------------------------
(* Lists of suspended generators. *)

\* What is said of frames depends on the oldest m suspended generators only.
LEMMA FramesLocal ==
    ASSUME NEW c, NEW fs, NEW ch, NEW m \in Nat, NEW n, NEW inf,
           FramesOK(c, fs, ch, m, n, inf),
           NEW ch2, \A a \in 1..m : ch2[a] = ch[a]
    PROVE  FramesOK(c, fs, ch2, m, n, inf)
<1> SUFFICES ASSUME NEW i \in 1..Len(fs), InDict(fs[i])
             PROVE  NameIsFree(i, fs, ch2)
  BY DEF FramesOK
<1>1. NameIsFree(i, fs, ch) /\ fs[i].depth \in 0..m
  BY DEF FramesOK
<1>2. \A a \in 1..fs[i].depth : a \in 1..m
  BY <1>1
<1> QED
  BY <1>1, <1>2 DEF NameIsFree

LEMMA ChoiceLocal ==
    ASSUME NEW n, NEW inf, NEW post, NEW ch, NEW a \in Nat \ {0},
           ChoiceOK(a, ch, n, inf, post),
           NEW ch2, \A b \in 1..a : ch2[b] = ch[b]
    PROVE  ChoiceOK(a, ch2, n, inf, post)
<1>1. ch2[a] = ch[a] /\ a - 1 \in Nat
  OBVIOUS
<1>2. \A b \in 1..a - 1 : ch2[b] = ch[b]
  OBVIOUS
<1>3. ASSUME Reads(ch[a].call)
      PROVE  FramesOK(ch[a].call, ch[a].frames, ch2, a - 1, n, inf)
  BY <1>1, <1>2, <1>3, FramesLocal DEF ChoiceOK
<1> QED
  BY <1>1, <1>2, <1>3 DEF ChoiceOK

\* The oldest of them may be kept,
LEMMA Abandoning ==
    ASSUME NEW n, NEW inf, NEW post, NEW ch, ChoicesOK(ch, n, inf, post),
           NEW k \in 0..Len(ch)
    PROVE  /\ ChoicesOK(SubSeq(ch, 1, k), n, inf, post)
           /\ Len(SubSeq(ch, 1, k)) = k
           /\ \A a \in 1..k : SubSeq(ch, 1, k)[a] = ch[a]
<1>1. IsSeq(ch) /\ Len(ch) \in Nat
  BY LenOf DEF ChoicesOK
<1>2. /\ IsSeq(SubSeq(ch, 1, k)) /\ Len(SubSeq(ch, 1, k)) = k
      /\ \A a \in 1..k : SubSeq(ch, 1, k)[a] = ch[a]
  BY <1>1, Cut
<1>3. ASSUME NEW a \in 1..k
      PROVE  ChoiceOK(a, SubSeq(ch, 1, k), n, inf, post)
  <2>1. ChoiceOK(a, ch, n, inf, post) /\ a \in Nat \ {0}
    BY <1>1 DEF ChoicesOK
  <2>2. \A b \in 1..a : SubSeq(ch, 1, k)[b] = ch[b]
    BY <1>2
  <2> QED
    BY <2>1, <2>2, ChoiceLocal
<1> QED
  BY <1>2, <1>3 DEF ChoicesOK

\* and another one added that is not before them.
LEMMA Adding ==
    ASSUME NEW n, NEW inf, NEW post, NEW ch, ChoicesOK(ch, n, inf, post),
           NEW e, CallOK(e.call, Len(ch), n, post), e.call.fn # "yield",
           Reads(e.call) => /\ FramesOK(e.call, e.frames, ch, Len(ch), n, inf)
                            /\ Below(ch, e.call.at)
    PROVE  ChoicesOK(Append(ch, e), n, inf, post)
<1> DEFINE ch2 == Append(ch, e)
           k == Len(ch) + 1
<1>1. IsSeq(ch) /\ Len(ch) \in Nat
  BY LenOf DEF ChoicesOK
<1>2. IsSeq(ch2) /\ Len(ch2) = k /\ ch2[k] = e /\ \A a \in 1..Len(ch) : ch2[a] = ch[a]
  BY <1>1, Appended
<1> HIDE DEF ch2
<1>3. ASSUME NEW a \in 1..Len(ch)
      PROVE  ChoiceOK(a, ch2, n, inf, post)
  <2>1. ChoiceOK(a, ch, n, inf, post) /\ a \in Nat \ {0}
    BY <1>1 DEF ChoicesOK
  <2>2. \A b \in 1..a : ch2[b] = ch[b]
    BY <1>1, <1>2
  <2> QED
    BY <2>1, <2>2, ChoiceLocal
<1>4. ChoiceOK(k, ch2, n, inf, post)
  <2>1. k - 1 = Len(ch)
    BY <1>1
  <2>2. Reads(e.call) => FramesOK(e.call, e.frames, ch2, Len(ch), n, inf)
    BY <1>1, <1>2, FramesLocal
  <2>3. Reads(e.call) =>
            \A b \in 1..Len(ch) : Placed(ch2[b].call) => Place(ch2[b].call) <= e.call.at
    BY <1>2 DEF Below
  <2> QED
    BY <1>2, <2>1, <2>2, <2>3 DEF ChoiceOK
<1>5. \A a \in 1..k : a \in 1..Len(ch) \/ a = k
  BY <1>1
<1> QED
  BY <1>2, <1>3, <1>4, <1>5 DEF ChoicesOK, ch2

LEMMA PlaceOfChoice ==
    ASSUME NEW n \in Nat, NEW inf, NEW post, NEW ch, ChoicesOK(ch, n, inf, post),
           NEW a \in 1..Len(ch), Placed(ch[a].call)
    PROVE  Place(ch[a].call) \in Nat
<1>1. CallOK(ch[a].call, a - 1, n, post)
  BY DEF ChoicesOK, ChoiceOK
<1>2. CASE ch[a].call.fn = "restore"
  BY <1>1, <1>2 DEF Place, CallOK
<1>3. CASE ch[a].call.fn # "restore"
  BY <1>1, <1>3 DEF Place, Placed, CallOK
<1> QED
  BY <1>2, <1>3

-------------------------------------------------------------------------------
(* The moves that the reader is made of. *)

\* The reader stops a generator.
LEMMA Stops ==
    ASSUME NEW n, NEW inf, NEW post, NEW ch, ChoicesOK(ch, n, inf, post),
           NEW c, NEW fs, c.fn \in {"return", "fail", "done"},
           c.fn = "return" => c.depth \in 0..Len(ch)
    PROVE  Sound(c, fs, ch, n, inf, post)
BY DEF Sound, CallOK, Reads, CallKinds

\* It goes on, not before where it is.
LEMMA GoesOn ==
    ASSUME NEW n \in Nat, NEW inf, NEW post, NEW ch, NEW c, NEW fs,
           Sound(c, fs, ch, n, inf, post), Reads(c), c.fn # "yield",
           NEW d, CallOK(d, Len(ch), n, post), Reads(d), d.at >= c.at
    PROVE  Sound(d, fs, ch, n, inf, post)
<1>1. IsSeq(ch) /\ Len(ch) \in Nat /\ c.at \in Nat /\ d.at \in Nat
  BY LenOf DEF Sound, ChoicesOK, CallOK
<1>2. FramesOK(c, fs, ch, Len(ch), n, inf) /\ IsSeq(fs) /\ Len(fs) \in Nat
  BY LenOf DEF Sound, FramesOK
<1>3. ASSUME NEW i \in 1..Len(fs)
      PROVE  FrameOK(fs[i], d, n, inf)
  BY <1>1, <1>2, <1>3 DEF FramesOK, FrameOK
<1>4. ASSUME NEW i \in 1..Len(fs), InDict(fs[i])
      PROVE  Alone(i, fs, d, Len(ch))
  BY <1>2, <1>4 DEF FramesOK, Alone
<1>5. FramesOK(d, fs, ch, Len(ch), n, inf)
  BY <1>2, <1>3, <1>4 DEF FramesOK
<1>6. Below(ch, d.at)
  <2> SUFFICES ASSUME NEW a \in 1..Len(ch), Placed(ch[a].call)
               PROVE  Place(ch[a].call) <= d.at
    BY DEF Below
  <2>1. Place(ch[a].call) <= c.at
    BY DEF Sound, Below
  <2>2. Place(ch[a].call) \in Nat
    BY PlaceOfChoice DEF Sound
  <2> QED
    BY <1>1, <2>1, <2>2
<1> QED
  BY <1>5, <1>6 DEF Sound

\* Something is left for later that is not behind it.
LEMMA Leaves ==
    ASSUME NEW n \in Nat, NEW inf, NEW post, NEW ch, NEW d, NEW fs,
           Sound(d, fs, ch, n, inf, post), Reads(d), d.fn # "yield",
           NEW e, CallOK(e.call, Len(ch), n, post), e.call.fn # "yield",
           Reads(e.call) => /\ FramesOK(e.call, e.frames, ch, Len(ch), n, inf)
                            /\ Below(ch, e.call.at),
           Placed(e.call) => Place(e.call) <= d.at
    PROVE  Sound(d, fs, Append(ch, e), n, inf, post)
<1> DEFINE ch2 == Append(ch, e)
<1>1. IsSeq(ch) /\ Len(ch) \in Nat
  BY LenOf DEF Sound, ChoicesOK
<1>2. ChoicesOK(ch2, n, inf, post)
  BY Adding DEF Sound
<1>3. Len(ch2) = Len(ch) + 1 /\ ch2[Len(ch) + 1] = e /\ \A a \in 1..Len(ch) : ch2[a] = ch[a]
  BY <1>1, Appended
<1> HIDE DEF ch2
<1>4. CallOK(d, Len(ch2), n, post)
  BY <1>1, <1>3 DEF Sound, CallOK, Reads
<1>5. FramesOK(d, fs, ch2, Len(ch2), n, inf)
  <2>1. FramesOK(d, fs, ch2, Len(ch), n, inf)
    BY <1>1, <1>3, FramesLocal DEF Sound
  <2>2. ASSUME NEW i \in 1..Len(fs)
        PROVE  fs[i].depth \in 0..Len(ch2)
    BY <1>1, <1>3, <2>1 DEF FramesOK
  <2>3. ASSUME NEW i \in 1..Len(fs), InDict(fs[i])
        PROVE  Alone(i, fs, d, Len(ch2))
    BY <2>1, <2>3 DEF FramesOK, Alone
  <2> QED
    BY <2>1, <2>2, <2>3 DEF FramesOK
<1>6. Below(ch2, d.at)
  BY <1>1, <1>3 DEF Below, Sound
<1> QED
  BY <1>2, <1>4, <1>5, <1>6 DEF Sound, ch2

\* It leaves the call c for later, and goes on with d.
LEMMA Suspends ==
    ASSUME NEW n \in Nat, NEW inf, NEW post, NEW ch, NEW c, NEW fs,
           Sound(c, fs, ch, n, inf, post), Reads(c), c.fn # "yield",
           NEW d, CallOK(d, Len(ch), n, post), Reads(d), d.at >= c.at, d.fn # "yield"
    PROVE  Sound(d, fs, Append(ch, [call |-> c, frames |-> fs]), n, inf, post)
<1>1. c.at \in Nat /\ d.at \in Nat
  BY DEF Sound, CallOK
<1>2. Sound(d, fs, ch, n, inf, post)
  BY GoesOn
<1>3. Place(c) <= d.at
  BY DEF Place, Reads
<1> QED
  BY <1>1, <1>2, <1>3, Leaves DEF Sound

\* A frame is put under it that waits for what the call d yields.
LEMMA Waits ==
    ASSUME NEW n \in Nat, NEW inf, NEW post, NEW ch, NEW c, NEW fs,
           Sound(c, fs, ch, n, inf, post), Reads(c), c.fn # "yield",
           NEW d, CallOK(d, Len(ch), n, post), Reads(d), d.at >= c.at,
           NEW f, FrameOK(f, d, n, inf), ~ Once(f), f.depth = Len(ch),
           InDict(f) => d.fn = "yield" /\ f.token = c.at + 1
    PROVE  Sound(d, <<f>> \o fs, ch, n, inf, post)
<1> DEFINE gs == <<f>> \o fs
<1>1. IsSeq(ch) /\ Len(ch) \in Nat /\ c.at \in Nat /\ d.at \in Nat
  BY LenOf DEF Sound, ChoicesOK, CallOK
<1>2. FramesOK(c, fs, ch, Len(ch), n, inf) /\ IsSeq(fs) /\ Len(fs) \in Nat
  BY LenOf DEF Sound, FramesOK
<1>3. IsSeq(gs) /\ Len(gs) = Len(fs) + 1 /\ gs[1] = f /\ \A i \in 1..Len(fs) : gs[i + 1] = fs[i]
  BY <1>2, Pushed
<1> HIDE DEF gs
<1>4. Below(ch, c.at) /\ \A a \in 1..Len(ch) : Placed(ch[a].call) => Place(ch[a].call) \in Nat
  BY PlaceOfChoice DEF Sound
<1>5. ASSUME NEW i \in 1..Len(gs)
      PROVE  /\ FrameOK(gs[i], d, n, inf)
             /\ gs[i].depth \in 0..Len(ch)
             /\ \A j \in i + 1..Len(gs) : gs[j].depth <= gs[i].depth
             /\ InDict(gs[i]) => Alone(i, gs, d, Len(ch)) /\ NameIsFree(i, gs, ch)
  <2>1. CASE i = 1
    <3>1. \A j \in 2..Len(gs) : /\ j - 1 \in 1..Len(fs) /\ gs[j] = fs[j - 1]
                                /\ gs[j].depth \in 0..Len(ch)
                                /\ Once(gs[j]) \/ (gs[j].token \in Nat /\ gs[j].token < c.at)
      <4> SUFFICES ASSUME NEW j \in 2..Len(gs)
                   PROVE  /\ j - 1 \in 1..Len(fs) /\ gs[j] = fs[j - 1]
                          /\ gs[j].depth \in 0..Len(ch)
                          /\ Once(gs[j]) \/ (gs[j].token \in Nat /\ gs[j].token < c.at)
        OBVIOUS
      <4>1. j - 1 \in 1..Len(fs) /\ gs[(j - 1) + 1] = fs[j - 1] /\ (j - 1) + 1 = j
        BY <1>2, <1>3
      <4> QED
        BY <1>2, <4>1 DEF FramesOK, FrameOK
    <3>2. FrameOK(gs[1], d, n, inf) /\ gs[1].depth = Len(ch)
      BY <1>3
    <3>3. ASSUME InDict(gs[1])
          PROVE  Alone(1, gs, d, Len(ch)) /\ NameIsFree(1, gs, ch)
      <4>1. d.fn = "yield" /\ gs[1].token = c.at + 1
        BY <1>3, <3>3
      <4>2. \A a \in 1..Len(ch) : Placed(ch[a].call) => Place(ch[a].call) < gs[1].token
        BY <1>1, <1>4, <4>1 DEF Below
      <4>3. \A j \in 2..Len(gs) : Once(gs[j]) \/ gs[j].token < gs[1].token - 1
        BY <1>1, <3>1, <4>1
      <4> QED
        BY <3>2, <4>1, <4>2, <4>3 DEF Alone, NameIsFree
    <3> QED
      BY <1>1, <2>1, <3>1, <3>2, <3>3
  <2>2. CASE i > 1
    <3> DEFINE k == i - 1
    <3>1. k \in 1..Len(fs) /\ k + 1 = i /\ gs[i] = fs[k]
      BY <1>2, <1>3, <2>2
    <3> HIDE DEF k
    <3>2. FrameOK(fs[k], d, n, inf)
      BY <1>1, <1>2, <3>1 DEF FramesOK, FrameOK
    <3>3. \A j \in i + 1..Len(gs) : j - 1 \in k + 1..Len(fs) /\ gs[j] = fs[j - 1]
      <4> SUFFICES ASSUME NEW j \in i + 1..Len(gs)
                   PROVE  j - 1 \in k + 1..Len(fs) /\ gs[j] = fs[j - 1]
        OBVIOUS
      <4>1. j - 1 \in k + 1..Len(fs) /\ j - 1 \in 1..Len(fs) /\ (j - 1) + 1 = j
        BY <1>2, <1>3, <3>1
      <4> QED
        BY <1>3, <4>1
    <3>4. ASSUME InDict(fs[k])
          PROVE  Alone(i, gs, d, Len(ch)) /\ NameIsFree(i, gs, ch)
      <4>1. Alone(k, fs, c, Len(ch)) /\ NameIsFree(k, fs, ch)
        BY <1>2, <3>1, <3>4 DEF FramesOK
      <4>2. k > 1 /\ Once(fs[k - 1]) /\ fs[k - 1].depth = fs[k].depth
        BY <4>1 DEF Alone
      <4>3. gs[i - 1] = fs[k - 1] /\ i > 1
        <5>1. k - 1 \in 1..Len(fs) /\ (k - 1) + 1 = i - 1
          BY <1>2, <3>1, <4>2
        <5> QED
          BY <1>3, <5>1, <2>2
      <4> QED
        BY <3>1, <3>3, <4>1, <4>2, <4>3 DEF Alone, NameIsFree
    <3> QED
      BY <1>2, <3>1, <3>2, <3>3, <3>4 DEF FramesOK
  <2> QED
    BY <1>2, <1>3, <2>1, <2>2
<1>6. FramesOK(d, gs, ch, Len(ch), n, inf)
  BY <1>3, <1>5 DEF FramesOK
<1>7. Below(ch, d.at)
  BY <1>1, <1>4 DEF Below
<1> QED
  BY <1>6, <1>7 DEF Sound, gs

\* The frame under it gets a reading, and becomes a frame of the same kind.
LEMMA Becomes ==
    ASSUME NEW n \in Nat, NEW inf, NEW post, NEW ch, NEW c, NEW fs,
           Sound(c, fs, ch, n, inf, post), c.fn = "yield", fs # <<>>, ~ Once(fs[1]),
           NEW f, ~ Once(f), f.token = fs[1].token, f.depth = fs[1].depth,
           f.then # "infix", InDict(f) <=> InDict(fs[1])
    PROVE  Sound(c, <<f>> \o Tail(fs), ch, n, inf, post)
<1> DEFINE gs == <<f>> \o Tail(fs)
<1>1. IsSeq(ch) /\ Len(ch) \in Nat /\ Reads(c)
  BY LenOf DEF Sound, ChoicesOK, CallOK, Reads
<1>2. FramesOK(c, fs, ch, Len(ch), n, inf) /\ IsSeq(fs) /\ Len(fs) \in Nat
  BY <1>1, LenOf DEF Sound, FramesOK
<1>3. /\ IsSeq(Tail(fs)) /\ Len(fs) > 0 /\ Len(Tail(fs)) = Len(fs) - 1
      /\ \A i \in 1..Len(Tail(fs)) : Tail(fs)[i] = fs[i + 1]
  BY <1>2, Popped
<1>4. IsSeq(gs) /\ Len(gs) = Len(fs) /\ gs[1] = f /\ \A i \in 1..Len(fs) : i > 1 => gs[i] = fs[i]
  <2>1. /\ IsSeq(gs) /\ Len(gs) = Len(Tail(fs)) + 1 /\ gs[1] = f
        /\ \A i \in 1..Len(Tail(fs)) : gs[i + 1] = Tail(fs)[i]
    BY <1>3, Pushed
  <2>2. ASSUME NEW i \in 1..Len(fs), i > 1
        PROVE  gs[i] = fs[i]
    <3>1. i - 1 \in 1..Len(Tail(fs)) /\ (i - 1) + 1 = i
      BY <1>2, <1>3, <2>2
    <3>2. gs[(i - 1) + 1] = Tail(fs)[i - 1] /\ Tail(fs)[i - 1] = fs[(i - 1) + 1]
      BY <1>3, <2>1, <3>1
    <3> QED
      BY <3>1, <3>2
  <2> QED
    BY <1>2, <1>3, <2>1, <2>2
<1> HIDE DEF gs
<1>5. \A i \in 1..Len(fs) :
         /\ gs[i].depth = fs[i].depth
         /\ Once(gs[i]) <=> Once(fs[i])
         /\ ~ Once(fs[i]) => gs[i].token = fs[i].token
         /\ InDict(gs[i]) <=> InDict(fs[i])
  BY <1>2, <1>4
<1>6. ASSUME NEW i \in 1..Len(gs)
      PROVE  /\ FrameOK(gs[i], c, n, inf)
             /\ gs[i].depth \in 0..Len(ch)
             /\ \A j \in i + 1..Len(gs) : gs[j].depth <= gs[i].depth
             /\ InDict(gs[i]) => Alone(i, gs, c, Len(ch)) /\ NameIsFree(i, gs, ch)
  <2>1. FrameOK(gs[i], c, n, inf)
    BY <1>2, <1>4, <1>5 DEF FramesOK, FrameOK
  <2>2. /\ gs[i].depth \in 0..Len(ch)
        /\ \A j \in i + 1..Len(gs) : gs[j].depth <= gs[i].depth
    BY <1>2, <1>4, <1>5 DEF FramesOK
  <2>3. ASSUME InDict(gs[i])
        PROVE  Alone(i, gs, c, Len(ch)) /\ NameIsFree(i, gs, ch)
    <3>1. Alone(i, fs, c, Len(ch)) /\ NameIsFree(i, fs, ch) /\ ~ Once(fs[i])
      BY <1>2, <1>4, <1>5, <2>3 DEF FramesOK, InDict, Once
    <3>2. Alone(i, gs, c, Len(ch))
      BY <1>2, <1>4, <1>5, <3>1 DEF Alone
    <3>3. NameIsFree(i, gs, ch)
      BY <1>2, <1>4, <1>5, <3>1 DEF NameIsFree
    <3> QED
      BY <3>2, <3>3
  <2> QED
    BY <2>1, <2>2, <2>3
<1>7. FramesOK(c, gs, ch, Len(ch), n, inf)
  BY <1>4, <1>6 DEF FramesOK
<1> QED
  BY <1>1, <1>7 DEF Sound, gs

\* The first reading only is asked for: until it is there, something is suspended.
LEMMA AsksOnce ==
    ASSUME NEW n \in Nat, NEW inf, NEW post, NEW ch, NEW c, NEW fs,
           Sound(c, fs, ch, n, inf, post), c.fn = "yield", fs # <<>>,
           NEW d, CallOK(d, Len(ch) + 1, n, post), Reads(d), d.at >= c.at,
           NEW o, o.then = "once", o.depth = Len(ch),
           NEW e, e.call.fn = "return", e.call.depth = fs[1].depth
    PROVE  Sound(d, <<o>> \o fs, Append(ch, e), n, inf, post)
<1> DEFINE gs  == <<o>> \o fs
           ch2 == Append(ch, e)
<1>1. /\ IsSeq(ch) /\ Len(ch) \in Nat /\ Reads(c) /\ c.at \in Nat /\ d.at \in Nat
      /\ ~ Reads(e.call) /\ ~ Placed(e.call)
  BY LenOf DEF Sound, ChoicesOK, CallOK, Reads, Placed
<1>2. FramesOK(c, fs, ch, Len(ch), n, inf) /\ IsSeq(fs) /\ Len(fs) \in Nat \ {0}
  <2>1. FramesOK(c, fs, ch, Len(ch), n, inf) /\ IsSeq(fs)
    BY <1>1 DEF Sound, FramesOK
  <2> QED
    BY <2>1, LenOf, Popped
<1>3. IsSeq(gs) /\ Len(gs) = Len(fs) + 1 /\ gs[1] = o /\ \A i \in 1..Len(fs) : gs[i + 1] = fs[i]
  BY <1>2, Pushed
<1>4. Len(ch2) = Len(ch) + 1 /\ ch2[Len(ch) + 1] = e /\ \A a \in 1..Len(ch) : ch2[a] = ch[a]
  BY <1>1, Appended
<1>5. ChoicesOK(ch2, n, inf, post)
  <2>1. e.call.depth \in 0..Len(ch)
    BY <1>2 DEF FramesOK
  <2>2. CallOK(e.call, Len(ch), n, post)
    BY <1>1, <2>1 DEF CallOK, CallKinds
  <2> QED
    BY <1>1, <2>2, Adding DEF Sound
<1> HIDE DEF gs, ch2
<1>6. ASSUME NEW i \in 1..Len(gs)
      PROVE  /\ FrameOK(gs[i], d, n, inf)
             /\ gs[i].depth \in 0..Len(ch2)
             /\ \A j \in i + 1..Len(gs) : gs[j].depth <= gs[i].depth
             /\ InDict(gs[i]) => Alone(i, gs, d, Len(ch2)) /\ NameIsFree(i, gs, ch2)
  <2>1. CASE i = 1
    <3>1. \A j \in 2..Len(gs) : gs[j].depth \in 0..Len(ch)
      <4> SUFFICES ASSUME NEW j \in 2..Len(gs)
                   PROVE  gs[j].depth \in 0..Len(ch)
        OBVIOUS
      <4>1. j - 1 \in 1..Len(fs) /\ gs[(j - 1) + 1] = fs[j - 1] /\ (j - 1) + 1 = j
        BY <1>2, <1>3
      <4> QED
        BY <1>2, <4>1 DEF FramesOK
    <3>2. Once(gs[1]) /\ ~ InDict(gs[1]) /\ gs[1].depth = Len(ch)
      BY <1>3 DEF Once, InDict
    <3> QED
      BY <1>1, <1>4, <2>1, <3>1, <3>2 DEF FrameOK
  <2>2. CASE i > 1
    <3> DEFINE k == i - 1
    <3>1. k \in 1..Len(fs) /\ k + 1 = i /\ gs[i] = fs[k]
      BY <1>2, <1>3, <2>2
    <3> HIDE DEF k
    <3>2. FrameOK(fs[k], d, n, inf)
      BY <1>1, <1>2, <3>1 DEF FramesOK, FrameOK
    <3>3. \A j \in i + 1..Len(gs) : j - 1 \in k + 1..Len(fs) /\ gs[j] = fs[j - 1]
      <4> SUFFICES ASSUME NEW j \in i + 1..Len(gs)
                   PROVE  j - 1 \in k + 1..Len(fs) /\ gs[j] = fs[j - 1]
        OBVIOUS
      <4>1. j - 1 \in k + 1..Len(fs) /\ j - 1 \in 1..Len(fs) /\ (j - 1) + 1 = j
        BY <1>2, <1>3, <3>1
      <4> QED
        BY <1>3, <4>1
    <3>4. ASSUME InDict(fs[k])
          PROVE  Alone(i, gs, d, Len(ch2)) /\ NameIsFree(i, gs, ch2)
      <4>1. /\ Alone(k, fs, c, Len(ch)) /\ NameIsFree(k, fs, ch)
            /\ fs[k].depth \in 0..Len(ch)
        BY <1>2, <3>1, <3>4 DEF FramesOK
      <4>2. NameIsFree(i, gs, ch2)
        <5>1. \A j \in i + 1..Len(gs) : Once(gs[j]) \/ gs[j].token < gs[i].token - 1
          BY <3>1, <3>3, <4>1 DEF NameIsFree
        <5>2. \A a \in 1..gs[i].depth : a \in 1..Len(ch) /\ ch2[a] = ch[a]
          BY <1>1, <1>4, <3>1, <4>1
        <5>3. \A a \in 1..gs[i].depth : Placed(ch[a].call) => Place(ch[a].call) < gs[i].token
          BY <3>1, <4>1 DEF NameIsFree
        <5> QED
          BY <5>1, <5>2, <5>3 DEF NameIsFree
      <4>3. CASE k = 1
        <5>1. gs[i - 1] = o /\ i > 1 /\ fs[k].depth = Len(ch)
          BY <1>3, <2>2, <3>1, <4>1, <4>3 DEF Alone
        <5> QED
          BY <3>1, <4>2, <5>1 DEF Alone, Once
      <4>4. CASE k # 1
        <5>1. k > 1 /\ Once(fs[k - 1]) /\ fs[k - 1].depth = fs[k].depth
          BY <4>1, <4>4 DEF Alone
        <5>2. gs[i - 1] = fs[k - 1] /\ i > 1
          <6>1. k - 1 \in 1..Len(fs) /\ (k - 1) + 1 = i - 1
            BY <1>2, <3>1, <5>1
          <6> QED
            BY <1>3, <6>1, <2>2
        <5>3. Alone(i, gs, d, Len(ch2))
          BY <3>1, <5>1, <5>2 DEF Alone
        <5> QED
          BY <4>2, <5>3
      <4> QED
        BY <4>3, <4>4
    <3>5. fs[k].depth \in 0..Len(ch2)
      BY <1>1, <1>2, <1>4, <3>1 DEF FramesOK
    <3> QED
      BY <1>2, <3>1, <3>2, <3>3, <3>4, <3>5 DEF FramesOK
  <2> QED
    BY <1>2, <1>3, <2>1, <2>2
<1>7. FramesOK(d, gs, ch2, Len(ch2), n, inf)
  BY <1>3, <1>6 DEF FramesOK
<1>8. Below(ch2, d.at)
  <2> SUFFICES ASSUME NEW a \in 1..Len(ch2), Placed(ch2[a].call)
               PROVE  Place(ch2[a].call) <= d.at
    BY DEF Below
  <2>1. a \in 1..Len(ch) /\ ch2[a] = ch[a]
    BY <1>1, <1>4
  <2>2. Place(ch[a].call) <= c.at /\ Place(ch[a].call) \in Nat
    BY <1>1, <2>1, PlaceOfChoice DEF Sound, Below
  <2> QED
    BY <1>1, <2>1, <2>2
<1>9. CallOK(d, Len(ch2), n, post)
  BY <1>4
<1> QED
  BY <1>5, <1>7, <1>8, <1>9 DEF Sound, gs, ch2

\* The frames without the innermost, which was not waiting for the first reading only.
LEMMA Under ==
    ASSUME NEW n \in Nat, NEW inf, NEW ch, NEW c, NEW fs, NEW m \in Nat,
           FramesOK(c, fs, ch, m, n, inf), fs # <<>>, ~ Once(fs[1]), c.at \in Nat,
           NEW d, d.at \in Nat,
           \A j \in 2..Len(fs) : Once(fs[j]) \/ fs[j].token < d.at
    PROVE  FramesOK(d, Tail(fs), ch, m, n, inf)
<1> DEFINE gs == Tail(fs)
<1>1. /\ IsSeq(gs) /\ Len(fs) > 0 /\ Len(gs) = Len(fs) - 1
      /\ \A i \in 1..Len(gs) : gs[i] = fs[i + 1]
  BY Popped DEF FramesOK
<1>2. Len(fs) \in Nat
  BY LenOf DEF FramesOK
<1> HIDE DEF gs
<1>3. ASSUME NEW i \in 1..Len(gs)
      PROVE  /\ FrameOK(gs[i], d, n, inf)
             /\ gs[i].depth \in 0..m
             /\ \A j \in i + 1..Len(gs) : gs[j].depth <= gs[i].depth
             /\ InDict(gs[i]) => Alone(i, gs, d, m) /\ NameIsFree(i, gs, ch)
  <2> DEFINE k == i + 1
  <2>1. k \in 2..Len(fs) /\ k \in 1..Len(fs) /\ gs[i] = fs[k] /\ k - 1 = i
    BY <1>1, <1>2
  <2>2. \A j \in i + 1..Len(gs) : j + 1 \in k + 1..Len(fs) /\ gs[j] = fs[j + 1]
    BY <1>1, <1>2
  <2> HIDE DEF k
  <2>3. FrameOK(gs[i], d, n, inf)
    BY <2>1 DEF FramesOK, FrameOK
  <2>4. ASSUME InDict(gs[i])
        PROVE  Alone(i, gs, d, m) /\ NameIsFree(i, gs, ch)
    <3>1. Alone(k, fs, c, m) /\ NameIsFree(k, fs, ch)
      BY <2>1, <2>4 DEF FramesOK
    <3>2. k > 1 /\ Once(fs[k - 1]) /\ fs[k - 1].depth = fs[k].depth
      BY <2>1, <3>1 DEF Alone
    <3>3. i > 1
      BY <1>1, <1>2, <2>1, <3>2
    <3>4. gs[i - 1] = fs[k - 1]
      <4>1. i - 1 \in 1..Len(gs) /\ (i - 1) + 1 = k - 1
        BY <1>1, <1>2, <2>1, <3>3
      <4> QED
        BY <1>1, <4>1
    <3> QED
      BY <2>1, <2>2, <3>1, <3>2, <3>3, <3>4 DEF Alone, NameIsFree
  <2> QED
    BY <2>1, <2>2, <2>3, <2>4 DEF FramesOK
<1> QED
  BY <1>1, <1>3 DEF FramesOK, gs

\* A frame has got what it waited for, and the reader goes on below it.
LEMMA Completes ==
    ASSUME NEW n \in Nat, NEW inf, NEW post, NEW ch, NEW c, NEW fs,
           Sound(c, fs, ch, n, inf, post), c.fn = "yield", fs # <<>>, ~ Once(fs[1]),
           NEW d, CallOK(d, Len(ch), n, post), Reads(d), d.at >= c.at
    PROVE  Sound(d, Tail(fs), ch, n, inf, post)
<1>1. Len(ch) \in Nat /\ Reads(c) /\ c.at \in Nat /\ d.at \in Nat
  BY LenOf DEF Sound, ChoicesOK, CallOK, Reads
<1>2. FramesOK(c, fs, ch, Len(ch), n, inf)
  BY <1>1 DEF Sound
<1>3. \A j \in 2..Len(fs) : Once(fs[j]) \/ fs[j].token < d.at
  BY <1>1, <1>2 DEF FramesOK, FrameOK
<1>4. FramesOK(d, Tail(fs), ch, Len(ch), n, inf)
  BY <1>1, <1>2, <1>3, Under
<1>5. Below(ch, d.at)
  <2> SUFFICES ASSUME NEW a \in 1..Len(ch), Placed(ch[a].call)
               PROVE  Place(ch[a].call) <= d.at
    BY DEF Below
  <2>1. Place(ch[a].call) <= c.at /\ Place(ch[a].call) \in Nat
    BY <1>1, PlaceOfChoice DEF Sound, Below
  <2> QED
    BY <1>1, <2>1
<1> QED
  BY <1>4, <1>5 DEF Sound

\* It goes back to a token that is not behind the name of the dict that it has read.
LEMMA GoesBack ==
    ASSUME NEW n \in Nat, NEW inf, NEW post, NEW ch, NEW c, NEW fs,
           Sound(c, fs, ch, n, inf, post), c.fn = "yield", fs # <<>>, InDict(fs[1]),
           NEW d, CallOK(d, Len(ch), n, post), Reads(d), d.at >= fs[1].token - 1
    PROVE  Sound(d, Tail(fs), ch, n, inf, post)
<1>1. Len(ch) \in Nat /\ Reads(c) /\ c.at \in Nat /\ d.at \in Nat /\ ~ Once(fs[1])
  BY LenOf DEF Sound, ChoicesOK, CallOK, Reads, InDict, Once
<1>2. FramesOK(c, fs, ch, Len(ch), n, inf) /\ IsSeq(fs) /\ Len(fs) \in Nat /\ 1 \in 1..Len(fs)
  <2>1. FramesOK(c, fs, ch, Len(ch), n, inf) /\ IsSeq(fs)
    BY <1>1 DEF Sound, FramesOK
  <2>2. Len(fs) \in Nat /\ Len(fs) > 0
    BY <2>1, LenOf, Popped
  <2> QED
    BY <2>1, <2>2
<1>3. fs[1].depth = Len(ch) /\ NameIsFree(1, fs, ch) /\ fs[1].token \in Nat
  BY <1>1, <1>2 DEF FramesOK, FrameOK, Alone
<1>4. \A j \in 2..Len(fs) : Once(fs[j]) \/ (fs[j].token < fs[1].token - 1 /\ fs[j].token \in Nat)
  BY <1>2, <1>3 DEF NameIsFree, FramesOK, FrameOK
<1>5. \A j \in 2..Len(fs) : Once(fs[j]) \/ fs[j].token < d.at
  BY <1>1, <1>3, <1>4
<1>6. FramesOK(d, Tail(fs), ch, Len(ch), n, inf)
  BY <1>1, <1>2, <1>5, Under
<1>7. Below(ch, d.at)
  <2> SUFFICES ASSUME NEW a \in 1..Len(ch), Placed(ch[a].call)
               PROVE  Place(ch[a].call) <= d.at
    BY DEF Below
  <2>1. Place(ch[a].call) < fs[1].token /\ Place(ch[a].call) \in Nat
    BY <1>1, <1>3, PlaceOfChoice DEF NameIsFree, Sound
  <2> QED
    BY <1>1, <1>3, <2>1
<1> QED
  BY <1>6, <1>7 DEF Sound

\* A frame has got the first reading: what was suspended since is given up.
LEMMA TakesFirst ==
    ASSUME NEW n \in Nat, NEW inf, NEW post, NEW ch, NEW c, NEW fs,
           Sound(c, fs, ch, n, inf, post), c.fn = "yield", fs # <<>>, Once(fs[1])
    PROVE  Sound(c, Tail(fs), SubSeq(ch, 1, fs[1].depth), n, inf, post)
<1> DEFINE gs  == Tail(fs)
           k   == fs[1].depth
           ch2 == SubSeq(ch, 1, k)
<1>1. Len(ch) \in Nat /\ Reads(c)
  BY LenOf DEF Sound, ChoicesOK, CallOK, Reads
<1>2. FramesOK(c, fs, ch, Len(ch), n, inf) /\ IsSeq(fs)
  BY <1>1 DEF Sound, FramesOK
<1>3. /\ IsSeq(gs) /\ Len(fs) > 0 /\ Len(gs) = Len(fs) - 1 /\ Len(fs) \in Nat
      /\ \A i \in 1..Len(gs) : gs[i] = fs[i + 1]
  BY <1>2, Popped, LenOf
<1>4. k \in 0..Len(ch) /\ \A j \in 2..Len(fs) : fs[j].depth <= k
  BY <1>2, <1>3 DEF FramesOK
<1> HIDE DEF k
<1>5. /\ ChoicesOK(ch2, n, inf, post) /\ Len(ch2) = k
      /\ \A a \in 1..k : ch2[a] = ch[a]
  BY <1>4, Abandoning DEF Sound
<1> HIDE DEF gs, ch2
<1>6. ASSUME NEW i \in 1..Len(gs)
      PROVE  /\ FrameOK(gs[i], c, n, inf)
             /\ gs[i].depth \in 0..k
             /\ \A j \in i + 1..Len(gs) : gs[j].depth <= gs[i].depth
             /\ InDict(gs[i]) => Alone(i, gs, c, k) /\ NameIsFree(i, gs, ch2)
  <2> DEFINE h == i + 1
  <2>1. h \in 2..Len(fs) /\ h \in 1..Len(fs) /\ gs[i] = fs[h] /\ h - 1 = i
    BY <1>3
  <2>2. \A j \in i + 1..Len(gs) : j + 1 \in h + 1..Len(fs) /\ gs[j] = fs[j + 1]
    BY <1>3
  <2> HIDE DEF h
  <2>3. FrameOK(gs[i], c, n, inf)
    BY <1>2, <2>1 DEF FramesOK
  <2>4. gs[i].depth \in 0..k
    BY <1>2, <1>4, <2>1 DEF FramesOK
  <2>5. ASSUME InDict(gs[i])
        PROVE  Alone(i, gs, c, k)
    <3>1. h > 1 /\ Once(fs[h - 1]) /\ fs[h - 1].depth = fs[h].depth
      BY <1>2, <2>1, <2>5 DEF FramesOK, Alone
    <3>2. CASE i = 1
      BY <2>1, <3>1, <3>2 DEF Alone, k
    <3>3. CASE i > 1
      <4>1. i - 1 \in 1..Len(gs) /\ (i - 1) + 1 = h - 1
        BY <1>3, <2>1, <3>3
      <4>2. gs[i - 1] = fs[h - 1]
        BY <1>3, <4>1
      <4> QED
        BY <2>1, <3>1, <3>3, <4>2 DEF Alone
    <3> QED
      BY <3>2, <3>3
  <2>6. ASSUME InDict(gs[i])
        PROVE  NameIsFree(i, gs, ch2)
    <3>1. NameIsFree(h, fs, ch)
      BY <1>2, <2>1, <2>6 DEF FramesOK
    <3>2. \A a \in 1..gs[i].depth : ch2[a] = ch[a]
      BY <1>4, <1>5, <2>4
    <3> QED
      BY <2>1, <2>2, <3>1, <3>2 DEF NameIsFree
  <2> QED
    BY <1>2, <2>1, <2>2, <2>3, <2>4, <2>5, <2>6 DEF FramesOK
<1>7. FramesOK(c, gs, ch2, Len(ch2), n, inf)
  BY <1>3, <1>5, <1>6 DEF FramesOK
<1>8. Below(ch2, c.at)
  BY <1>1, <1>4, <1>5 DEF Sound, Below
<1>9. CallOK(c, Len(ch2), n, post)
  BY DEF Sound, CallOK, Reads
<1> QED
  BY <1>5, <1>7, <1>8, <1>9 DEF Sound, gs, ch2, k

\* The newest of the suspended generators is resumed.
LEMMA Resumes ==
    ASSUME NEW n, NEW inf, NEW post, NEW ch, ChoicesOK(ch, n, inf, post), ch # <<>>
    PROVE  Sound(ch[Len(ch)].call, ch[Len(ch)].frames, SubSeq(ch, 1, Len(ch) - 1), n, inf, post)
<1> DEFINE k   == Len(ch) - 1
           ch2 == SubSeq(ch, 1, k)
           c   == ch[Len(ch)].call
<1>1. Len(ch) \in Nat /\ Len(ch) > 0
  BY LenOf, Popped DEF ChoicesOK
<1>2. k \in 0..Len(ch) /\ k \in Nat /\ Len(ch) \in 1..Len(ch) /\ Len(ch) - 1 = k
  BY <1>1
<1> HIDE DEF k
<1>3. ChoicesOK(ch2, n, inf, post) /\ Len(ch2) = k /\ \A a \in 1..k : ch2[a] = ch[a]
  BY <1>2, Abandoning
<1>4. ChoiceOK(Len(ch), ch, n, inf, post)
  BY <1>2 DEF ChoicesOK
<1> HIDE DEF ch2
<1>5. ASSUME Reads(c)
      PROVE  FramesOK(c, ch[Len(ch)].frames, ch2, k, n, inf) /\ Below(ch2, c.at)
  <2>1. FramesOK(c, ch[Len(ch)].frames, ch, k, n, inf)
    BY <1>2, <1>4, <1>5 DEF ChoiceOK
  <2>2. FramesOK(c, ch[Len(ch)].frames, ch2, k, n, inf)
    BY <1>2, <1>3, <2>1, FramesLocal
  <2> QED
    BY <1>2, <1>3, <1>4, <1>5, <2>2 DEF ChoiceOK, Below
<1>6. CallOK(c, Len(ch2), n, post)
  BY <1>2, <1>3, <1>4 DEF ChoiceOK
<1>7. Sound(c, ch[Len(ch)].frames, ch2, n, inf, post)
  BY <1>3, <1>5, <1>6 DEF Sound
<1> QED
  BY <1>7 DEF ch2, k

\* Annotations change at the place where the reader is, or behind it.
LEMMA Annotates ==
    ASSUME NEW n \in Nat, NEW inf, NEW post, NEW ch, NEW c, NEW fs,
           Sound(c, fs, ch, n, inf, post), Reads(c),
           NEW inf2, NEW post2,
           \A i \in 1..n : i < c.at /\ i \in inf => i \in inf2,
           \A i \in 1..n : i < c.at /\ i \in post => i \in post2
    PROVE  Sound(c, fs, ch, n, inf2, post2)
<1>1. c.at \in Nat
  BY DEF Sound, CallOK
<1>2. ASSUME NEW d, Reads(d), d.at \in Nat, d.at <= c.at, NEW gs, NEW m,
             FramesOK(d, gs, ch, m, n, inf)
      PROVE  FramesOK(d, gs, ch, m, n, inf2)
  <2>1. ASSUME NEW i \in 1..Len(gs)
        PROVE  FrameOK(gs[i], d, n, inf2)
    <3>1. FrameOK(gs[i], d, n, inf)
      BY <1>2 DEF FramesOK
    <3> QED
      BY <1>1, <1>2, <3>1 DEF FrameOK
  <2> QED
    BY <1>2, <2>1 DEF FramesOK
<1>3. ASSUME NEW d, NEW m, CallOK(d, m, n, post), Reads(d) => d.at <= c.at
      PROVE  CallOK(d, m, n, post2)
  <2>1. ASSUME Reads(d), d.fn = "postfix"
        PROVE  d.at - 1 \in post2
    <3>1. d.at \in 1..n + 1 /\ d.at >= 2 /\ d.at - 1 \in post
      BY <1>3, <2>1 DEF CallOK
    <3>2. d.at - 1 \in 1..n /\ d.at - 1 < c.at
      BY <1>1, <1>3, <2>1, <3>1
    <3> QED
      BY <3>1, <3>2
  <2> QED
    BY <1>3, <2>1 DEF CallOK
<1>4. ASSUME NEW a \in 1..Len(ch)
      PROVE  ChoiceOK(a, ch, n, inf2, post2)
  <2>1. ChoiceOK(a, ch, n, inf, post)
    BY DEF Sound, ChoicesOK
  <2>2. Reads(ch[a].call) => ch[a].call.at <= c.at /\ ch[a].call.at \in Nat
    BY <2>1 DEF Sound, Below, ChoiceOK, CallOK, Placed, Place, Reads
  <2>3. CallOK(ch[a].call, a - 1, n, post2)
    BY <1>3, <2>1, <2>2 DEF ChoiceOK
  <2>4. Reads(ch[a].call) => FramesOK(ch[a].call, ch[a].frames, ch, a - 1, n, inf2)
    BY <1>2, <2>1, <2>2 DEF ChoiceOK
  <2> QED
    BY <2>1, <2>3, <2>4 DEF ChoiceOK
<1>5. FramesOK(c, fs, ch, Len(ch), n, inf2)
  BY <1>1, <1>2 DEF Sound
<1>6. CallOK(c, Len(ch), n, post2)
  BY <1>1, <1>3 DEF Sound
<1> QED
  BY <1>4, <1>5, <1>6 DEF Sound, ChoicesOK

-------------------------------------------------------------------------------
(* Calls, and steps in general. *)

CallAt(c, i, m, n, post) == CallOK(c, m, n, post) /\ Reads(c) /\ c.at = i

LEMMA CallsAt ==
    ASSUME NEW m, NEW n \in Nat, NEW post, NEW i \in 1..n + 1,
           NEW prec, NEW ctx, NEW term, NEW left, NEW turn \in Nat \ {0}
    PROVE  /\ CallAt(Read(i, prec, ctx), i, m, n, post)
           /\ i <= n => CallAt(AtomTail(i, prec, ctx), i, m, n, post)
           /\ i >= 2 => /\ CallAt(Exprtl0(i, term, prec, ctx), i, m, n, post)
                        /\ CallAt(Exprtl(i, left, term, prec, ctx), i, m, n, post)
                        /\ CallAt(AfterPrefixOp(i, turn, prec, ctx), i, m, n, post)
                        /\ CallAt(Yield(i, term), i, m, n, post)
           /\ i >= 2 /\ i <= n => CallAt(Ambigop(i, term, prec, ctx), i, m, n, post)
           /\ i >= 2 /\ i - 1 \in post =>
                  CallAt(AfterPostfix(i, turn, term, prec, ctx), i, m, n, post)
BY DEF CallAt, CallOK, Reads, CallKinds, Read, AtomTail, Exprtl0, Exprtl, AfterPrefixOp,
       Yield, Ambigop, AfterPostfix

LEMMA CallNames ==
    ASSUME NEW i, NEW prec, NEW ctx, NEW term, NEW left, NEW turn
    PROVE  /\ Read(i, prec, ctx).fn = "read"
           /\ AtomTail(i, prec, ctx).fn = "atom"
           /\ Exprtl0(i, term, prec, ctx).fn = "exprtl0"
           /\ Exprtl(i, left, term, prec, ctx).fn = "exprtl"
           /\ AfterPrefixOp(i, turn, prec, ctx).fn = "after_prefix_op"
           /\ Yield(i, term).fn = "yield"
           /\ Ambigop(i, term, prec, ctx).fn = "ambigop"
           /\ AfterPostfix(i, turn, term, prec, ctx).fn = "postfix"
BY DEF Read, AtomTail, Exprtl0, Exprtl, AfterPrefixOp, Yield, Ambigop, AfterPostfix

\* Where the reader is.
LEMMA Here ==
    ASSUME IInv
    PROVE  /\ Len(tokens) \in Nat \ {0}
           /\ Len(choices) \in Nat
           /\ CallOK(call, Len(choices), Len(tokens), postfix)
           /\ Reads(call) => At \in 1..Len(tokens) + 1
           /\ Reads(call) /\ call.fn \notin {"read", "atom"} => At >= 2
           /\ \A i \in Nat : Type(i) # "none" => i <= Len(tokens)
<1>1. tokens \in Seq(Token) /\ tokens # <<>>
  BY TokensAssumption DEF IInv
<1>2. Len(tokens) \in Nat \ {0}
  BY <1>1
<1>3. Len(choices) \in Nat
  BY LenOf DEF IInv, Sound, ChoicesOK
<1>4. CallOK(call, Len(choices), Len(tokens), postfix)
  BY DEF IInv, Sound
<1>5. \A i \in Nat : Type(i) # "none" => i <= Len(tokens)
  BY DEF Type
<1> QED
  BY <1>2, <1>3, <1>4, <1>5 DEF CallOK, At

\* The frame that waits for the reading that is yielded.
LEMMA AtTop ==
    ASSUME IInv, NEW fs, Answers(fs), "once" \notin fs
    PROVE  /\ Runs("yield") /\ Reads(call) /\ frames # <<>> /\ ~ Once(Top)
           /\ Top.token \in 1..Len(tokens) /\ Top.token < At
           /\ Top.depth \in 0..Len(choices)
           /\ Top.then = "infix" => Top.token \in Waitable
           /\ InDict(Top) => Top.token >= 2
<1>1. Runs("yield") /\ Reads(call) /\ frames # <<>> /\ ~ Once(Top)
  BY DEF Answers, Runs, Reads, Once
<1>2. FramesOK(call, frames, choices, Len(choices), Len(tokens), Waitable)
  BY <1>1 DEF IInv, Sound
<1>3. 1 \in 1..Len(frames)
  <2>1. IsSeq(frames)
    BY <1>2 DEF FramesOK
  <2> QED
    BY <1>1, <2>1, Popped, LenOf
<1>4. FrameOK(Top, call, Len(tokens), Waitable) /\ Top.depth \in 0..Len(choices)
  BY <1>2, <1>3 DEF FramesOK, Top
<1> QED
  BY <1>1, <1>4 DEF FrameOK, At

LEMMA WaitableSame ==
    ASSUME tokens' = tokens, infix' = infix
    PROVE  Waitable' = Waitable
BY DEF Waitable, Type

\* A step that annotates nothing.
LEMMA Unannotated ==
    ASSUME IInv, UNCHANGED <<tokens, infix, postfix>>,
           braced' \subseteq 1..Len(tokens),
           errors' \subseteq 1..Len(tokens),
           last'.at \in 1..Len(tokens) + 1,
           Sound(call', frames', choices', Len(tokens), Waitable, postfix)
    PROVE  IInv'
BY WaitableSame DEF IInv

LEMMA QuietStep ==
    ASSUME IInv, Quietly,
           Sound(call', frames', choices', Len(tokens), Waitable, postfix)
    PROVE  IInv'
BY Unannotated DEF IInv, Quietly, annotations

LEMMA ReportStep ==
    ASSUME IInv, NEW i \in 1..Len(tokens), ReportAt(i),
           Sound(call', frames', choices', Len(tokens), Waitable, postfix)
    PROVE  IInv'
<1>1. /\ UNCHANGED <<tokens, infix, postfix>> /\ braced' = braced /\ last' = last
      /\ errors' = errors \cup {i}
  BY DEF ReportAt, annotations
<1> QED
  BY <1>1, Unannotated DEF IInv

\* A generator stops.
LEMMA StopsHere ==
    ASSUME IInv, NEW c, c.fn \in {"fail", "done"}, NEW fs
    PROVE  Sound(c, fs, choices, Len(tokens), Waitable, postfix)
<1>1. ChoicesOK(choices, Len(tokens), Waitable, postfix)
  BY DEF IInv, Sound
<1>2. c.fn = "return" => c.depth \in 0..Len(choices)
  OBVIOUS
<1> QED
  BY <1>1, <1>2, Stops

\* GoOn(d)
LEMMA GoOnStep ==
    ASSUME IInv, Reads(call), call.fn # "yield",
           NEW d, NEW i, CallAt(d, i, Len(choices), Len(tokens), postfix), i >= At, GoOn(d)
    PROVE  Sound(call', frames', choices', Len(tokens), Waitable, postfix)
<1>1. /\ Len(tokens) \in Nat /\ d.at >= call.at
      /\ CallOK(d, Len(choices), Len(tokens), postfix) /\ Reads(d)
      /\ Sound(call, frames, choices, Len(tokens), Waitable, postfix)
  BY Here DEF CallAt, At, IInv
<1>2. Sound(d, frames, choices, Len(tokens), Waitable, postfix)
  BY <1>1, GoesOn
<1> QED
  BY <1>2 DEF GoOn

\* Suspend(c, frames)
LEMMA SuspendStep ==
    ASSUME IInv, Reads(call), call.fn # "yield",
           NEW c, NEW i, CallAt(c, i, Len(choices), Len(tokens), postfix), i >= At,
           c.fn # "yield",
           NEW d, NEW j, CallAt(d, j, Len(choices), Len(tokens), postfix), j >= i,
           d.fn # "yield",
           Suspend(c, frames), call' = d, UNCHANGED frames
    PROVE  Sound(call', frames', choices', Len(tokens), Waitable, postfix)
<1>1. Sound(c, frames, choices, Len(tokens), Waitable, postfix)
  BY GoesOn, Here DEF IInv, CallAt, At
<1> QED
  BY <1>1, Suspends, Here DEF CallAt, Suspend

\* ForEach(f, d)
LEMMA ForEachStep ==
    ASSUME IInv, Reads(call), call.fn # "yield",
           NEW d, NEW j, CallAt(d, j, Len(choices), Len(tokens), postfix), j >= At,
           NEW f, f.then \notin {"once", "key", "value"}, f.depth = Len(choices),
           f.token \in 1..Len(tokens), f.token < j, f.then = "infix" => f.token \in Waitable,
           ForEach(f, d)
    PROVE  Sound(call', frames', choices', Len(tokens), Waitable, postfix)
<1>1. FrameOK(f, d, Len(tokens), Waitable) /\ ~ Once(f) /\ ~ InDict(f)
  BY DEF FrameOK, Once, InDict, CallAt
<1>2. /\ Len(tokens) \in Nat /\ d.at >= call.at
      /\ CallOK(d, Len(choices), Len(tokens), postfix) /\ Reads(d)
      /\ Sound(call, frames, choices, Len(tokens), Waitable, postfix)
  BY Here DEF CallAt, At, IInv
<1>3. Sound(d, <<f>> \o frames, choices, Len(tokens), Waitable, postfix)
  BY <1>1, <1>2, Waits
<1> QED
  BY <1>3 DEF ForEach

\* First(f, d, frames)
LEMMA FirstStep ==
    ASSUME IInv, Reads(call), call.fn # "yield",
           NEW d, NEW j, CallAt(d, j, Len(choices) + 1, Len(tokens), postfix), j > At,
           NEW f, f.then \in {"infix", "key"}, f.depth = Len(choices),
           f.token \in 1..Len(tokens), f.token < j,
           f.then = "infix" => f.token \in Waitable,
           f.then = "key" => f.token = At + 1,
           First(f, d, frames)
    PROVE  Sound(call', frames', choices', Len(tokens), Waitable, postfix)
<1> DEFINE y  == Yield(j, Atomic(1))
           gs == <<f>> \o frames
<1>1. /\ Len(choices) \in Nat /\ Len(tokens) \in Nat /\ At \in Nat /\ At >= 1 /\ At = call.at
      /\ j \in 1..Len(tokens) + 1 /\ j >= 2
  BY Here DEF CallAt, CallOK, At
<1>2. CallAt(y, j, Len(choices), Len(tokens), postfix) /\ y.fn = "yield"
  BY <1>1 DEF CallAt, CallOK, Reads, CallKinds, Yield
<1> HIDE DEF y
<1>3. FrameOK(f, y, Len(tokens), Waitable) /\ ~ Once(f) /\ (InDict(f) <=> f.then = "key")
  BY <1>1, <1>2 DEF FrameOK, Once, InDict, CallAt
<1>4. Sound(y, gs, choices, Len(tokens), Waitable, postfix)
  BY <1>1, <1>2, <1>3, Waits DEF IInv, CallAt
<1>5. gs # <<>> /\ gs[1] = f
  <2>1. IsSeq(frames)
    BY DEF IInv, Sound, FramesOK
  <2>2. Len(gs) = Len(frames) + 1 /\ gs[1] = f /\ Len(frames) \in Nat
    BY <2>1, Pushed, LenOf
  <2> QED
    BY <2>2, EmptySeq
<1> HIDE DEF gs
<1> DEFINE o == [then |-> "once", depth |-> Len(choices)]
           e == [call |-> Return(f.depth), frames |-> <<>>]
<1>6. /\ o.then = "once" /\ o.depth = Len(choices)
      /\ e.call.fn = "return" /\ e.call.depth = f.depth
  BY DEF Return
<1>7. call' = d /\ frames' = <<o>> \o gs /\ choices' = Append(choices, e)
  BY DEF First, Suspend, gs
<1> HIDE DEF o, e
<1>8. y.at = j /\ d.at = j /\ Reads(d) /\ CallOK(d, Len(choices) + 1, Len(tokens), postfix)
  BY <1>2 DEF CallAt
<1>9. Sound(d, <<o>> \o gs, Append(choices, e), Len(tokens), Waitable, postfix)
  BY <1>1, <1>2, <1>4, <1>5, <1>6, <1>8, AsksOnce
<1> QED
  BY <1>7, <1>9

\* First(f, d, Tail(frames))
LEMMA NextOfManyStep ==
    ASSUME IInv, NEW fs, Answers(fs), "once" \notin fs,
           NEW d, NEW j, CallAt(d, j, Len(choices) + 1, Len(tokens), postfix), j >= At,
           NEW f, f.then \notin {"once", "infix"},
           f.token = Top.token, f.depth = Top.depth, InDict(f) <=> InDict(Top),
           First(f, d, Tail(frames))
    PROVE  Sound(call', frames', choices', Len(tokens), Waitable, postfix)
<1> DEFINE gs == <<f>> \o Tail(frames)
<1>1. /\ Runs("yield") /\ Reads(call) /\ frames # <<>> /\ ~ Once(Top) /\ call.fn = "yield"
      /\ Len(tokens) \in Nat
  BY AtTop, Here DEF Runs
<1>2. Sound(call, gs, choices, Len(tokens), Waitable, postfix)
  BY <1>1, Becomes DEF IInv, Top, Once
<1>3. gs # <<>> /\ gs[1] = f
  <2>1. IsSeq(Tail(frames))
    BY <1>1, Popped DEF IInv, Sound, FramesOK
  <2>2. Len(gs) = Len(Tail(frames)) + 1 /\ gs[1] = f /\ Len(Tail(frames)) \in Nat
    BY <2>1, Pushed, LenOf
  <2> QED
    BY <2>2, EmptySeq
<1> HIDE DEF gs
<1> DEFINE o == [then |-> "once", depth |-> Len(choices)]
           e == [call |-> Return(f.depth), frames |-> <<>>]
<1>4. /\ o.then = "once" /\ o.depth = Len(choices)
      /\ e.call.fn = "return" /\ e.call.depth = f.depth
  BY DEF Return
<1>5. call' = d /\ frames' = <<o>> \o gs /\ choices' = Append(choices, e)
  BY DEF First, Suspend, gs
<1> HIDE DEF o, e
<1>6. d.at >= call.at /\ Reads(d) /\ CallOK(d, Len(choices) + 1, Len(tokens), postfix)
  BY DEF CallAt, At
<1>7. Sound(d, <<o>> \o gs, Append(choices, e), Len(tokens), Waitable, postfix)
  BY <1>1, <1>2, <1>3, <1>4, <1>6, AsksOnce
<1> QED
  BY <1>5, <1>7

\* The frame is done with, and the reader goes on with d.
LEMMA CompleteStep ==
    ASSUME IInv, NEW fs, Answers(fs), "once" \notin fs,
           NEW d, NEW j, CallAt(d, j, Len(choices), Len(tokens), postfix), j >= At
    PROVE  Sound(d, Tail(frames), choices, Len(tokens), Waitable, postfix)
<1>1. /\ call.fn = "yield" /\ Reads(call) /\ frames # <<>> /\ ~ Once(frames[1])
      /\ Len(tokens) \in Nat
  BY AtTop, Here DEF Runs, Top
<1> QED
  BY <1>1, Completes DEF IInv, CallAt, At

LEMMA MissingStep ==
    ASSUME IInv, NEW fs, Answers(fs), "once" \notin fs, NEW i \in 1..Len(tokens), Missing(i)
    PROVE  IInv'
<1>1. Top.depth \in 0..Len(choices)
  BY AtTop
<1>2. /\ ReportAt(i) /\ call' = Return(Top.depth) /\ choices' = choices
      /\ call'.fn = "return" /\ call'.depth = Top.depth
  BY DEF Missing, Return
<1>3. ChoicesOK(choices, Len(tokens), Waitable, postfix)
  BY DEF IInv, Sound
<1>4. Sound(call', frames', choices, Len(tokens), Waitable, postfix)
  BY <1>1, <1>2, <1>3, Stops
<1> QED
  BY <1>2, <1>4, ReportStep

-------------------------------------------------------------------------------
(* The invariant holds at first, and every step keeps it. *)

LEMMA InitInv == ASSUME Init PROVE IInv
<1>1. tokens \in TokenLists /\ tokens \in Seq(Token) /\ tokens # <<>>
  BY TokensAssumption DEF Init
<1>2. Len(tokens) \in Nat \ {0}
  BY <1>1
<1>3. CallOK(call, Len(choices), Len(tokens), postfix) /\ call.at = 1
  BY <1>2 DEF Init, CallOK, Read, Reads, CallKinds
<1>4. choices = <<>> /\ frames = <<>> /\ Len(<<>>) = 0 /\ IsSeq(<<>>)
  BY EmptyIsSeq, EmptySeq DEF Init
<1>5. ChoicesOK(choices, Len(tokens), Waitable, postfix) /\ Below(choices, call.at)
  BY <1>4 DEF ChoicesOK, Below
<1>6. FramesOK(call, frames, choices, Len(choices), Len(tokens), Waitable)
  BY <1>4 DEF FramesOK
<1>7. last.at \in 1..Len(tokens) + 1
  BY <1>2 DEF Init
<1> QED
  BY <1>1, <1>3, <1>5, <1>6, <1>7 DEF IInv, Sound, Init

LEMMA readInv == ASSUME IInv, read PROVE IInv'
<1> DEFINE n == Len(tokens)
           m == Len(choices)
<1>1. /\ Runs("read") /\ call.fn = "read" /\ Reads(call) /\ At \in 1..n + 1
      /\ n \in Nat \ {0} /\ m \in Nat
  BY Here DEF read, Runs, Reads
<1>2. \A i \in Nat : Type(i) # "none" => i <= n
  BY Here
<1>3. Type(At) # "none" => At \in 1..n /\ At + 1 \in 2..n + 1
  BY <1>1, <1>2
<1>4. Type(At) # "none" /\ Type(At + 1) # "none" => At + 1 \in 2..n /\ At + 2 \in 2..n + 1
  BY <1>1, <1>2
<1>5. ASSUME NEW i \in 2..n + 1, NEW term
      PROVE  /\ CallAt(Exprtl0After(i, term), i, m, n, postfix)
             /\ Exprtl0After(i, term).fn = "exprtl0"
  <2>1. i \in 1..n + 1 /\ i >= 2
    BY <1>1
  <2> QED
    BY <1>1, <2>1 DEF Exprtl0After, Exprtl0, CallAt, CallOK, Reads, CallKinds
<1>6. ASSUME NEW i \in 1..n + 1, NEW k, NEW prec, NEW ctx
      PROVE  CallAt(Read(i, prec, ctx), i, k, n, postfix) /\ Read(i, prec, ctx).fn = "read"
  BY <1>1, CallsAt, CallNames
<1>7. ASSUME Type(At) \in AtomicType
      PROVE  \E i \in {At, At + 1} : /\ CallAt(Plainly, i, m, n, postfix)
                                     /\ Plainly.fn # "yield"
  <2>1. Type(At) # "none"
    BY <1>7 DEF AtomicType
  <2>2. CallAt(AtomTail(At, call.prec, call.ctx), At, m, n, postfix)
    <3>1. At \in 1..n + 1 /\ At <= n
      BY <1>1, <1>3, <2>1
    <3> QED
      BY <1>1, <3>1, CallsAt
  <2>3. AtomTail(At, call.prec, call.ctx).fn = "atom"
    BY CallNames
  <2>4. At + 1 \in 2..n + 1
    BY <1>3, <2>1
  <2> QED
    BY <1>5, <2>2, <2>3, <2>4 DEF Plainly
<1>8. CASE ReadNothing
  <2>1. Fail.fn = "fail"
    BY DEF Fail
  <2> QED
    BY <1>8, <2>1, StopsHere, QuietStep DEF ReadNothing, GoOn
<1>9. CASE ReadOperand
  <2>1. Type(At) # "none"
    BY <1>9 DEF ReadOperand, EndsAtOnce, AtomicType
  <2>2. CallAt(Yield(At + 1, Atomic(At)), At + 1, m, n, postfix)
    <3>1. At + 1 \in 1..n + 1 /\ At + 1 >= 2
      BY <1>1, <1>3, <2>1
    <3> QED
      BY <1>1, <3>1, CallsAt
  <2>3. Sound(call', frames', choices', n, Waitable, postfix)
    BY <1>1, <1>9, <2>2, GoOnStep DEF ReadOperand
  <2> QED
    BY <1>9, <2>3, QuietStep DEF ReadOperand
<1>10. CASE ReadAtomic
  <2>1. Type(At) \in AtomicType
    BY <1>10 DEF ReadAtomic, AtomicType
  <2>2. PICK i \in {At, At + 1} : CallAt(Plainly, i, m, n, postfix)
    BY <1>7, <2>1
  <2>3. i >= At
    BY <1>1
  <2>4. Sound(call', frames', choices', n, Waitable, postfix)
    BY <1>1, <1>10, <2>2, <2>3, GoOnStep DEF ReadAtomic
  <2> QED
    BY <1>10, <2>4, QuietStep DEF ReadAtomic
<1>11. CASE ReadNegative
  <2>1. Type(At) # "none" /\ Type(At + 1) # "none"
    BY <1>11 DEF ReadNegative, IsAtom
  <2>2. BehindInteger(At) \in 2..n + 1 /\ BehindInteger(At) >= At
    BY <1>1, <1>4, <2>1 DEF BehindInteger
  <2>3. Sound(call', frames', choices', n, Waitable, postfix)
    BY <1>1, <1>5, <1>11, <2>2, GoOnStep DEF ReadNegative
  <2> QED
    BY <1>11, <2>3, QuietStep DEF ReadNegative
<1>12. CASE ReadCompound
  <2> DEFINE f == Frame("args", At, <<>>)
             d == Read(At + 2, 1200, {"comma"})
  <2>1. Type(At) # "none" /\ Type(At + 1) # "none"
    BY <1>12 DEF ReadCompound
  <2>2. f.then = "args" /\ f.token = At /\ f.depth = m
    BY DEF Frame
  <2>3. /\ At + 2 \in 1..n + 1 /\ At + 2 > At /\ At \in 1..n
    BY <1>1, <1>3, <1>4, <2>1
  <2>4. CallAt(d, At + 2, m, n, postfix)
    BY <1>6, <2>3
  <2>5. ForEach(f, d) /\ Quietly
    BY <1>12 DEF ReadCompound
  <2> HIDE DEF f, d
  <2>6. Sound(call', frames', choices', n, Waitable, postfix)
    BY <1>1, <2>2, <2>3, <2>4, <2>5, ForEachStep
  <2> QED
    BY <2>5, <2>6, QuietStep
<1>13. CASE ReadEmptyDict
  <2>1. Type(At) \in AtomicType /\ Type(At) # "none"
    BY <1>13 DEF ReadEmptyDict, AtomicType
  <2>2. At + 2 \in 2..n + 1
    <3>1. CASE Type(At + 1) # "none"
      BY <1>4, <2>1, <3>1
    <3>2. CASE At + 1 \in braced
      BY <1>1, <3>2 DEF IInv
    <3> QED
      BY <1>13, <3>1, <3>2 DEF ReadEmptyDict, BeforeEmptyDict, IsAtom
  <2>3. PICK i \in {At, At + 1} : CallAt(Plainly, i, m, n, postfix) /\ Plainly.fn # "yield"
    BY <1>7, <2>1
  <2>4. i >= At /\ At + 2 >= i
    BY <1>1
  <2> DEFINE d == Exprtl0After(At + 2, Node("dict", At + 1, <<Atomic(At)>>))
  <2>5. CallAt(d, At + 2, m, n, postfix) /\ d.fn # "yield"
    BY <1>5, <2>2
  <2>6. Suspend(Plainly, frames) /\ call' = d /\ UNCHANGED frames /\ Quietly
    BY <1>13 DEF ReadEmptyDict
  <2> HIDE DEF d
  <2>7. Sound(call', frames', choices', n, Waitable, postfix)
    BY <1>1, <2>3, <2>4, <2>5, <2>6, SuspendStep
  <2> QED
    BY <2>6, <2>7, QuietStep
<1>14. CASE ReadDict
  <2> DEFINE f == Frame("key", At + 1, <<Atomic(At)>>)
             d == Read(At + 2, 1200, call.ctx \cup {"colon", "comma"})
  <2>1. Type(At) # "none" /\ Type(At + 1) # "none"
    BY <1>14 DEF ReadDict
  <2>2. f.then = "key" /\ f.token = At + 1 /\ f.depth = m
    BY DEF Frame
  <2>3. /\ At + 2 \in 1..n + 1 /\ At + 2 > At /\ At + 1 \in 1..n /\ At + 1 < At + 2
    BY <1>1, <1>3, <1>4, <2>1
  <2>4. CallAt(d, At + 2, m + 1, n, postfix)
    BY <1>6, <2>3
  <2>5. First(f, d, frames) /\ Quietly
    BY <1>14 DEF ReadDict
  <2> HIDE DEF f, d
  <2>6. Sound(call', frames', choices', n, Waitable, postfix)
    BY <1>1, <2>2, <2>3, <2>4, <2>5, FirstStep
  <2> QED
    BY <2>5, <2>6, QuietStep
<1>15. CASE ReadBracketed
  <2>1. Type(At) # "none"
    BY <1>15 DEF ReadBracketed
  <2>2. PICK then \in {"list", "paren", "curly"}, prec \in {999, 1200}, ctx \in {{"bar", "comma"}, {}} :
           ForEach(Frame(then, At, <<>>), Read(At + 1, prec, ctx))
    BY <1>15 DEF ReadBracketed
  <2> DEFINE f == Frame(then, At, <<>>)
             d == Read(At + 1, prec, ctx)
  <2>3. f.then \notin {"once", "key", "value"} /\ f.then # "infix" /\ f.token = At /\ f.depth = m
    BY DEF Frame
  <2>4. At + 1 \in 1..n + 1 /\ At + 1 > At /\ At \in 1..n
    BY <1>1, <1>3, <2>1
  <2>5. CallAt(d, At + 1, m, n, postfix)
    BY <1>6, <2>4
  <2>6. ForEach(f, d) /\ Quietly
    BY <1>15, <2>2 DEF ReadBracketed
  <2> HIDE DEF f, d
  <2>7. Sound(call', frames', choices', n, Waitable, postfix)
    BY <1>1, <2>3, <2>4, <2>5, <2>6, ForEachStep
  <2> QED
    BY <2>6, <2>7, QuietStep
<1>16. CASE CannotStart
  <2>1. At \in 1..n
    BY <1>3, <1>16 DEF CannotStart
  <2>2. Fail.fn = "fail"
    BY DEF Fail
  <2> QED
    BY <1>16, <2>1, <2>2, StopsHere, ReportStep DEF CannotStart, GoOn
<1> QED
  BY <1>8, <1>9, <1>10, <1>11, <1>12, <1>13, <1>14, <1>15, <1>16 DEF read

LEMMA atomInv == ASSUME IInv, atom PROVE IInv'
<1> DEFINE n == Len(tokens)
           m == Len(choices)
           c == Exprtl0After(At + 1, Atomic(At))
<1>1. /\ call.fn = "atom" /\ Reads(call) /\ call.fn # "yield"
      /\ n \in Nat \ {0} /\ m \in Nat /\ At \in 1..n
  BY Here DEF atom, Runs, Reads, CallOK, At
<1>2. At + 1 \in 2..n + 1 /\ At + 1 >= At
  BY <1>1
<1>3. CallAt(c, At + 1, m, n, postfix) /\ c.fn # "yield"
  BY <1>1, <1>2 DEF Exprtl0After, Exprtl0, CallAt, CallOK, Reads, CallKinds
<1> DEFINE d == AfterPrefixOp(At + 1, 1, call.prec, call.ctx)
<1>4. CallAt(d, At + 1, m, n, postfix) /\ d.fn # "yield"
  BY <1>1, <1>2 DEF AfterPrefixOp, CallAt, CallOK, Reads, CallKinds
<1>5. /\ Quietly
      /\ GoOn(c) \/ (Suspend(c, frames) /\ call' = d /\ UNCHANGED frames)
  BY DEF atom
<1> HIDE DEF c, d
<1>6. Sound(call', frames', choices', n, Waitable, postfix)
  <2>1. CASE GoOn(c)
    BY <1>1, <1>2, <1>3, <2>1, GoOnStep
  <2>2. CASE Suspend(c, frames) /\ call' = d /\ UNCHANGED frames
    BY <1>1, <1>2, <1>3, <1>4, <2>2, SuspendStep
  <2> QED
    BY <1>5, <2>1, <2>2
<1> QED
  BY <1>5, <1>6, QuietStep

\* A step that annotates the token where the reader is.
LEMMA AnnotatedHere ==
    ASSUME IInv, Reads(call), call.fn # "yield", UNCHANGED <<tokens, braced, errors, last>>,
           infix' \subseteq 1..Len(tokens), postfix' \subseteq 1..Len(tokens),
           \A i \in 1..Len(tokens) : i # At /\ i \in infix => i \in infix',
           \A i \in 1..Len(tokens) : i # At /\ i \in postfix => i \in postfix'
    PROVE  /\ Sound(call, frames, choices, Len(tokens), Waitable', postfix')
           /\ Sound(call', frames', choices', Len(tokens), Waitable', postfix') => IInv'
<1>1. Len(tokens) \in Nat /\ call.at \in Nat /\ At = call.at
  BY Here DEF At
<1>2. \A i \in 1..Len(tokens) : i < call.at /\ i \in Waitable => i \in Waitable'
  BY <1>1 DEF Waitable, Type
<1>3. \A i \in 1..Len(tokens) : i < call.at /\ i \in postfix => i \in postfix'
  BY <1>1
<1>4. Sound(call, frames, choices, Len(tokens), Waitable', postfix')
  BY <1>1, <1>2, <1>3, Annotates DEF IInv
<1> QED
  BY <1>4 DEF IInv

LEMMA AnnotateHere ==
    ASSUME IInv, Reads(call), Annotate(At, call.turn)
    PROVE  /\ call.turn \in Nat \ {0} /\ call.turn <= Len(Turns(At)) =>
                 infix' \subseteq 1..Len(tokens) /\ postfix' \subseteq 1..Len(tokens)
           /\ \A i \in 1..Len(tokens) : i # At /\ i \in infix => i \in infix'
           /\ \A i \in 1..Len(tokens) : i # At /\ i \in postfix => i \in postfix'
<1> DEFINE now    == Turns(At)[call.turn]
           before == IF call.turn > 1 THEN Turns(At)[call.turn - 1] ELSE "none"
<1>1. /\ infix' = CASE now = "infix" -> infix \cup {At}
                    [] now = "postfix" \/ before = "infix" -> infix \ {At}
                    [] OTHER -> infix
      /\ postfix' = CASE now = "postfix" -> postfix \cup {At}
                      [] before = "postfix" -> postfix \ {At}
                      [] OTHER -> postfix
  BY DEF Annotate
<1>2. ASSUME call.turn \in Nat \ {0}, call.turn <= Len(Turns(At)), now \in {"infix", "postfix"}
      PROVE  At \in 1..Len(tokens)
  <2>1. CASE Type(At) = "atom"
    BY <2>1, Here
  <2>2. CASE Type(At) # "atom"
    <3>1. Turns(At) = <<"plain">>
      BY <2>2 DEF Turns
    <3>2. call.turn = 1
      BY <1>2, <3>1
    <3> QED
      BY <1>2, <3>1, <3>2
  <2> QED
    BY <2>1, <2>2
<1> HIDE DEF now, before
<1>3. infix \subseteq 1..Len(tokens) /\ postfix \subseteq 1..Len(tokens)
  BY DEF IInv
<1>4. /\ infix' \in {infix \cup {At}, infix \ {At}, infix}
      /\ postfix' \in {postfix \cup {At}, postfix \ {At}, postfix}
  BY <1>1
<1>5. infix' = infix \cup {At} => now = "infix" \/ At \in infix
  BY <1>1
<1>6. postfix' = postfix \cup {At} => now = "postfix" \/ At \in postfix
  BY <1>1
<1> QED
  BY <1>2, <1>3, <1>4, <1>5, <1>6

LEMMA after_prefix_opInv == ASSUME IInv, after_prefix_op PROVE IInv'
<1> DEFINE n == Len(tokens)
           m == Len(choices)
<1>1. /\ call.fn = "after_prefix_op" /\ Reads(call) /\ call.fn # "yield"
      /\ n \in Nat \ {0} /\ m \in Nat /\ At \in 2..n + 1 /\ At = call.at
      /\ call.turn \in Nat \ {0}
  BY Here DEF after_prefix_op, Runs, Reads, CallOK, At
<1>2. CASE PrefixOutOfPlace
  <2>1. At - 1 \in 1..n /\ Fail.fn = "fail"
    BY <1>1 DEF Fail
  <2>2. ReportAt(At - 1) /\ call' = Fail /\ UNCHANGED <<frames, choices>>
    BY <1>2 DEF PrefixOutOfPlace, GoOn
  <2>3. Sound(Fail, frames, choices, n, Waitable, postfix)
    BY <2>1, StopsHere
  <2> QED
    BY <2>1, <2>2, <2>3, ReportStep
<1>3. CASE PrefixAsAtom
  <2> DEFINE c == AfterPrefixOp(At, call.turn + 1, call.prec, call.ctx)
             d == Exprtl(At, Prefix(At - 1).opPrec, Atomic(At - 1), call.prec, call.ctx)
  <2>1. /\ Annotate(At, call.turn) /\ call.turn <= Len(Turns(At))
        /\ UNCHANGED <<tokens, braced, errors, last>>
        /\ GoOn(c) \/ (call' = d /\ Suspend(c, frames) /\ UNCHANGED frames)
    BY <1>3 DEF PrefixAsAtom
  <2>2. CallOK(c, m, n, postfix') /\ Reads(c) /\ c.at = At /\ c.fn # "yield"
    BY <1>1 DEF AfterPrefixOp, CallOK, Reads, CallKinds
  <2>3. CallOK(d, m, n, postfix') /\ Reads(d) /\ d.at = At /\ d.fn # "yield"
    BY <1>1 DEF Exprtl, CallOK, Reads, CallKinds
  <2> HIDE DEF c, d
  <2>4. /\ Sound(call, frames, choices, n, Waitable', postfix')
        /\ Sound(call', frames', choices', n, Waitable', postfix') => IInv'
    BY <1>1, <2>1, AnnotateHere, AnnotatedHere
  <2>5. Sound(c, frames, choices, n, Waitable', postfix')
    BY <1>1, <2>2, <2>4, GoesOn
  <2>6. CASE GoOn(c)
    BY <2>4, <2>5, <2>6 DEF GoOn
  <2>7. CASE call' = d /\ Suspend(c, frames) /\ UNCHANGED frames
    <3>1. Sound(d, frames, Append(choices, [call |-> c, frames |-> frames]), n, Waitable', postfix')
      BY <1>1, <2>2, <2>3, <2>5, Suspends
    <3> QED
      BY <2>4, <2>7, <3>1 DEF Suspend
  <2> QED
    BY <2>1, <2>6, <2>7
<1>4. CASE PrefixWithOperand
  <2> DEFINE f == Frame("prefix", At - 1, <<>>)
             d == Read(At, Prefix(At - 1).rPrec, call.ctx)
  <2>1. /\ f.then \notin {"once", "key", "value"} /\ f.then # "infix" /\ f.token = At - 1
        /\ f.depth = m
    BY DEF Frame
  <2>2. At - 1 \in 1..n /\ At - 1 < At /\ At >= At
    BY <1>1
  <2>3. CallAt(d, At, m, n, postfix)
    BY <1>1 DEF Read, CallAt, CallOK, Reads, CallKinds
  <2>4. ForEach(f, d) /\ Quietly
    BY <1>4 DEF PrefixWithOperand
  <2> HIDE DEF f, d
  <2>5. Sound(call', frames', choices', n, Waitable, postfix)
    BY <1>1, <2>1, <2>2, <2>3, <2>4, ForEachStep
  <2> QED
    BY <2>4, <2>5, QuietStep
<1> QED
  BY <1>2, <1>3, <1>4 DEF after_prefix_op

LEMMA postfix_operatorInv == ASSUME IInv, postfix_operator PROVE IInv'
<1> DEFINE n == Len(tokens)
           m == Len(choices)
           c == AfterPostfix(At, call.turn + 1, call.term, call.prec, call.ctx)
           d == Exprtl(At, Postfix(At - 1).opPrec, call.term, call.prec, call.ctx)
<1>1. /\ call.fn = "postfix" /\ Reads(call) /\ call.fn # "yield"
      /\ n \in Nat \ {0} /\ m \in Nat /\ At \in 2..n + 1 /\ At = call.at
      /\ call.turn \in Nat \ {0} /\ At - 1 \in postfix /\ At - 1 \in 1..n
  BY Here DEF postfix_operator, Runs, Reads, CallOK, At
<1>2. CASE GoOn(Fail) /\ UNCHANGED <<infix, postfix>> /\ UNCHANGED <<tokens, braced, errors, last>>
  <2>1. Fail.fn = "fail"
    BY DEF Fail
  <2>2. Sound(Fail, frames, choices, n, Waitable, postfix)
    BY <2>1, StopsHere
  <2>3. call' = Fail /\ UNCHANGED <<frames, choices>> /\ Quietly
    BY <1>2 DEF GoOn, Quietly, annotations
  <2> QED
    BY <2>2, <2>3, QuietStep
<1>3. CASE /\ Annotate(At, call.turn) /\ call.turn <= Len(Turns(At)) /\ call' = d
           /\ Suspend(c, frames) /\ UNCHANGED frames
           /\ UNCHANGED <<tokens, braced, errors, last>>
  <2>1. At - 1 \in postfix'
    BY <1>1, <1>3, AnnotateHere
  <2>2. CallOK(c, m, n, postfix') /\ Reads(c) /\ c.at = At /\ c.fn # "yield"
    BY <1>1, <2>1 DEF AfterPostfix, CallOK, Reads, CallKinds
  <2>3. CallOK(d, m, n, postfix') /\ Reads(d) /\ d.at = At /\ d.fn # "yield"
    BY <1>1 DEF Exprtl, CallOK, Reads, CallKinds
  <2> HIDE DEF c, d
  <2>4. /\ Sound(call, frames, choices, n, Waitable', postfix')
        /\ Sound(call', frames', choices', n, Waitable', postfix') => IInv'
    BY <1>1, <1>3, AnnotateHere, AnnotatedHere
  <2>5. Sound(c, frames, choices, n, Waitable', postfix')
    BY <1>1, <2>2, <2>4, GoesOn
  <2>6. Sound(d, frames, Append(choices, [call |-> c, frames |-> frames]), n, Waitable', postfix')
    BY <1>1, <2>2, <2>3, <2>5, Suspends
  <2> QED
    BY <1>3, <2>4, <2>6 DEF Suspend
<1> QED
  BY <1>1, <1>2, <1>3 DEF postfix_operator

LEMMA ambigopInv == ASSUME IInv, ambigop PROVE IInv'
<1> DEFINE n == Len(tokens)
           m == Len(choices)
<1>1. /\ call.fn = "ambigop" /\ Reads(call) /\ call.fn # "yield"
      /\ n \in Nat \ {0} /\ m \in Nat /\ At \in 2..n /\ At = call.at
  BY Here DEF ambigop, Runs, Reads, CallOK, At
<1>2. /\ infix' = infix \ {At} /\ postfix' = postfix \cup {At}
      /\ call' = Following /\ UNCHANGED <<frames, choices>>
      /\ UNCHANGED <<tokens, braced, errors, last>>
  BY DEF ambigop, AsPostfix, GoOn
<1>3. infix' \subseteq 1..n /\ postfix' \subseteq 1..n
  <2>1. infix \subseteq 1..n /\ postfix \subseteq 1..n
    BY DEF IInv
  <2>2. At \in 1..n
    BY <1>1
  <2> QED
    BY <1>2, <2>1, <2>2
<1>4. /\ Sound(call, frames, choices, n, Waitable', postfix')
      /\ Sound(call', frames', choices', n, Waitable', postfix') => IInv'
  BY <1>1, <1>2, <1>3, AnnotatedHere
<1>5. CallOK(Following, m, n, postfix') /\ Reads(Following) /\ Following.at = At
  BY <1>1 DEF Following, Exprtl, CallOK, Reads, CallKinds
<1>6. Sound(Following, frames, choices, n, Waitable', postfix')
  BY <1>1, <1>4, <1>5, GoesOn
<1> QED
  BY <1>2, <1>4, <1>6

LEMMA exprtl0Inv == ASSUME IInv, exprtl0 PROVE IInv'
<1> DEFINE n == Len(tokens)
           m == Len(choices)
           y == Yield(At, call.term)
           End == GoOn(y) /\ Quietly
           Operator ==
               /\ IsOperator(At) /\ call' = Following
               /\ IF IsInfix(At) THEN AsInfix ELSE postfix' = postfix \cup {At} /\ UNCHANGED infix
               /\ IF IsInfix(At) /\ IsPostfix(At)
                  THEN Suspend(Ambigop(At, call.term, call.prec, call.ctx), frames)
                  ELSE UNCHANGED choices
               /\ UNCHANGED <<tokens, frames, braced, errors, last>>
           Separator ==
               /\ IsSeparator(At) /\ Quietly
               /\ First(Frame("infix", At, <<call.term>>), Read(At + 1, OpPrec(At), call.ctx), frames)
           Misplaced == CannotFollow(At) /\ ReportAt(At) /\ GoOn(Fail)
<1>1. /\ call.fn = "exprtl0" /\ Reads(call) /\ call.fn # "yield"
      /\ n \in Nat \ {0} /\ m \in Nat /\ At \in 2..n + 1 /\ At = call.at
  BY Here DEF exprtl0, Runs, Reads, CallOK, At
<1>2. Type(At) # "none" => At \in 2..n /\ At \in 1..n /\ At + 1 \in 2..n + 1
  BY <1>1, Here
<1>3. CASE End
  <2>1. CallAt(y, At, m, n, postfix)
    BY <1>1 DEF Yield, CallAt, CallOK, Reads, CallKinds
  <2> HIDE DEF y
  <2>2. Sound(call', frames', choices', n, Waitable, postfix)
    BY <1>1, <1>3, <2>1, GoOnStep
  <2> QED
    BY <1>3, <2>2, QuietStep
<1>4. CASE Operator
  <2> DEFINE c == Ambigop(At, call.term, call.prec, call.ctx)
  <2>1. At \in 2..n
    BY <1>2, <1>4 DEF IsOperator, IsInfix, IsPostfix
  <2>2. infix' \in {infix, infix \cup {At}} /\ postfix' \in {postfix, postfix \cup {At}}
    BY <1>4 DEF AsInfix
  <2>3. infix' \subseteq 1..n /\ postfix' \subseteq 1..n
    BY <1>1, <2>1, <2>2 DEF IInv
  <2>4. /\ Sound(call, frames, choices, n, Waitable', postfix')
        /\ Sound(call', frames', choices', n, Waitable', postfix') => IInv'
    BY <1>1, <1>4, <2>2, <2>3, AnnotatedHere
  <2>5. /\ CallOK(Following, m, n, postfix') /\ Reads(Following) /\ Following.at = At
        /\ Following.fn # "yield"
    BY <1>1 DEF Following, Exprtl, CallOK, Reads, CallKinds
  <2>6. CallOK(c, m, n, postfix') /\ Reads(c) /\ c.at = At /\ c.fn # "yield"
    BY <1>1, <2>1 DEF Ambigop, CallOK, Reads, CallKinds
  <2>7. UNCHANGED choices \/ Suspend(c, frames)
    BY <1>4
  <2> HIDE DEF c
  <2>8. CASE UNCHANGED choices
    <3>1. Sound(Following, frames, choices, n, Waitable', postfix')
      BY <1>1, <2>4, <2>5, GoesOn
    <3> QED
      BY <1>4, <2>4, <2>8, <3>1
  <2>9. CASE Suspend(c, frames)
    <3>1. Sound(c, frames, choices, n, Waitable', postfix')
      BY <1>1, <2>4, <2>6, GoesOn
    <3>2. Sound(Following, frames, Append(choices, [call |-> c, frames |-> frames]), n,
                Waitable', postfix')
      BY <1>1, <2>5, <2>6, <3>1, Suspends
    <3> QED
      BY <1>4, <2>4, <2>9, <3>2 DEF Suspend
  <2> QED
    BY <2>7, <2>8, <2>9
<1>5. CASE Separator
  <2> DEFINE f == Frame("infix", At, <<call.term>>)
             d == Read(At + 1, OpPrec(At), call.ctx)
  <2>1. Type(At) # "none" /\ Type(At) # "atom"
    BY <1>5 DEF IsSeparator
  <2>2. /\ At + 1 \in 2..n + 1 /\ At + 1 > At /\ At \in 1..n /\ At < At + 1
        /\ At \in Waitable
    BY <1>2, <2>1 DEF Waitable
  <2>3. f.then = "infix" /\ f.token = At /\ f.depth = m
    BY DEF Frame
  <2>4. CallAt(d, At + 1, m + 1, n, postfix)
    BY <1>1, <2>2 DEF Read, CallAt, CallOK, Reads, CallKinds
  <2>5. First(f, d, frames) /\ Quietly
    BY <1>5
  <2> HIDE DEF f, d
  <2>6. Sound(call', frames', choices', n, Waitable, postfix)
    BY <1>1, <2>2, <2>3, <2>4, <2>5, FirstStep
  <2> QED
    BY <2>5, <2>6, QuietStep
<1>6. CASE Misplaced
  <2>1. At \in 1..n
    BY <1>2, <1>6 DEF CannotFollow
  <2>2. Fail.fn = "fail"
    BY DEF Fail
  <2>3. Sound(Fail, frames, choices, n, Waitable, postfix)
    BY <2>2, StopsHere
  <2> QED
    BY <1>6, <2>1, <2>3, ReportStep DEF GoOn
<1>7. End \/ Operator \/ Separator \/ Misplaced
  BY DEF exprtl0
<1> HIDE DEF End, Operator, Separator, Misplaced
<1> QED
  BY <1>3, <1>4, <1>5, <1>6, <1>7

LEMMA exprtlInv == ASSUME IInv, exprtl PROVE IInv'
<1> DEFINE n == Len(tokens)
           m == Len(choices)
<1>1. /\ call.fn = "exprtl" /\ Reads(call) /\ call.fn # "yield" /\ Quietly
      /\ n \in Nat \ {0} /\ m \in Nat /\ At \in 2..n + 1 /\ At = call.at
  BY Here DEF exprtl, Runs, Reads, CallOK, At
<1>2. SUFFICES Sound(call', frames', choices', n, Waitable, postfix)
  BY <1>1, QuietStep
<1>3. CASE /\ TakesInfix(At) \/ TakesSeparator(At)
           /\ ForEach(Frame("infix", At, <<call.term>>), Read(At + 1, RightPrec(At), call.ctx))
  <2> DEFINE f == Frame("infix", At, <<call.term>>)
             d == Read(At + 1, RightPrec(At), call.ctx)
  <2>1. At \in 1..n /\ At \in Waitable
    <3>1. CASE TakesInfix(At)
      BY <3>1 DEF TakesInfix, Waitable, IInv
    <3>2. CASE TakesSeparator(At)
      <4>1. Type(At) # "none" /\ Type(At) # "atom"
        BY <3>2 DEF TakesSeparator, IsSeparator
      <4> QED
        BY <1>1, <4>1, Here DEF Waitable
    <3> QED
      BY <1>3, <3>1, <3>2
  <2>2. At + 1 \in 2..n + 1 /\ At + 1 >= At /\ At < At + 1
    BY <1>1, <2>1
  <2>3. f.then \notin {"once", "key", "value"} /\ f.token = At /\ f.depth = m
    BY DEF Frame
  <2>4. CallAt(d, At + 1, m, n, postfix)
    BY <1>1, <2>2 DEF Read, CallAt, CallOK, Reads, CallKinds
  <2>5. ForEach(f, d)
    BY <1>3
  <2> HIDE DEF f, d
  <2> QED
    BY <1>1, <2>1, <2>2, <2>3, <2>4, <2>5, ForEachStep
<1>4. CASE /\ TakesPostfix(At)
           /\ GoOn(AfterPostfix(At + 1, 1, Node("postfix", At, <<call.term>>), call.prec, call.ctx))
  <2> DEFINE d == AfterPostfix(At + 1, 1, Node("postfix", At, <<call.term>>), call.prec, call.ctx)
  <2>1. At \in 1..n /\ At \in postfix
    BY <1>4 DEF TakesPostfix, IInv
  <2>2. CallAt(d, At + 1, m, n, postfix) /\ At + 1 >= At
    BY <1>1, <2>1 DEF AfterPostfix, CallAt, CallOK, Reads, CallKinds
  <2>3. GoOn(d)
    BY <1>4
  <2> HIDE DEF d
  <2> QED
    BY <1>1, <2>2, <2>3, GoOnStep
<1>5. CASE GoOn(Yield(At, call.term))
  <2>1. CallAt(Yield(At, call.term), At, m, n, postfix) /\ At >= At
    BY <1>1 DEF Yield, CallAt, CallOK, Reads, CallKinds
  <2> QED
    BY <1>1, <1>5, <2>1, GoOnStep
<1> QED
  BY <1>3, <1>4, <1>5 DEF exprtl

LEMMA onceInv == ASSUME IInv, once PROVE IInv'
<1>1. /\ call.fn = "yield" /\ frames # <<>> /\ Once(frames[1]) /\ Len(tokens) \in Nat
      /\ call' = call /\ frames' = Tail(frames)
      /\ choices' = SubSeq(choices, 1, frames[1].depth) /\ Quietly
  BY Here DEF once, Answers, Runs, Once, Top, Oldest
<1>2. Sound(call, Tail(frames), SubSeq(choices, 1, frames[1].depth), Len(tokens), Waitable, postfix)
  BY <1>1, TakesFirst DEF IInv
<1> QED
  BY <1>1, <1>2, QuietStep

\* A reading is at the second token or behind it.
LEMMA YieldHere ==
    ASSUME IInv, Runs("yield")
    PROVE  /\ At \in 2..Len(tokens) + 1 /\ Len(tokens) \in Nat \ {0} /\ Len(choices) \in Nat
           /\ Type(At) # "none" => At \in 2..Len(tokens) /\ At + 1 \in 2..Len(tokens) + 1
           /\ At - 1 \in 1..Len(tokens)
<1>1. Reads(call) /\ call.fn \notin {"read", "atom"}
  BY DEF Runs, Reads
<1>2. At \in 1..Len(tokens) + 1 /\ At >= 2 /\ Len(tokens) \in Nat \ {0} /\ Len(choices) \in Nat
  BY <1>1, Here
<1>3. Type(At) # "none" => At <= Len(tokens)
  BY <1>2, Here
<1> QED
  BY <1>2, <1>3

LEMMA operandInv == ASSUME IInv, operand PROVE IInv'
<1> DEFINE fs == {"prefix", "infix"}
           opPrec == IF Top.then = "prefix" THEN Prefix(Top.token).opPrec ELSE OpPrec(Top.token)
           d == Exprtl(At, opPrec, Node(Top.then, Top.token, Terms), Top.prec, Top.ctx)
<1>1. Answers(fs) /\ "once" \notin fs
  BY DEF operand
<1>2. Runs("yield") /\ At \in 2..Len(tokens) + 1 /\ Len(tokens) \in Nat
  BY <1>1, AtTop, YieldHere
<1>3. ~ (Top.then = "infix" /\ Type(Top.token) = "atom" /\ Top.token \notin infix)
  BY <1>1, AtTop DEF Waitable
<1>4. CallAt(d, At, Len(choices), Len(tokens), postfix) /\ At >= At
  BY <1>2 DEF Exprtl, CallAt, CallOK, Reads, CallKinds
<1>5. frames' = Tail(frames) /\ call' = d /\ UNCHANGED choices /\ Quietly
  BY <1>3 DEF operand
<1> HIDE DEF fs, d
<1>6. Sound(d, Tail(frames), choices, Len(tokens), Waitable, postfix)
  BY <1>1, <1>4, CompleteStep
<1> QED
  BY <1>5, <1>6, QuietStep

\* Complete(At + 1, term), and a term more of the same bracket.
LEMMA CompleteHere ==
    ASSUME IInv, NEW fs, Answers(fs), "once" \notin fs, Type(At) # "none",
           NEW term, Complete(At + 1, term)
    PROVE  /\ Sound(call', frames', choices, Len(tokens), Waitable, postfix)
           /\ Reads(call') /\ call'.fn # "yield" /\ call'.at = At + 1
<1> DEFINE d == Exprtl0(At + 1, term, Top.prec, Top.ctx)
<1>1. Runs("yield") /\ At + 1 \in 2..Len(tokens) + 1 /\ Len(tokens) \in Nat /\ At + 1 >= At
  BY AtTop, YieldHere
<1>2. CallAt(d, At + 1, Len(choices), Len(tokens), postfix) /\ d.fn # "yield"
  BY <1>1 DEF Exprtl0, CallAt, CallOK, Reads, CallKinds
<1>3. call' = d /\ frames' = Tail(frames)
  BY DEF Complete
<1> HIDE DEF d
<1>4. Sound(d, Tail(frames), choices, Len(tokens), Waitable, postfix)
  BY <1>1, <1>2, CompleteStep
<1> QED
  BY <1>2, <1>3, <1>4 DEF CallAt

LEMMA MoreHere ==
    ASSUME IInv, NEW fs, Answers(fs), "once" \notin fs, Type(At) # "none",
           NEW prec, NEW ctx, NEW f, f.then \notin {"once", "infix"},
           f.token = Top.token, f.depth = Top.depth, InDict(f) <=> InDict(Top),
           First(f, Read(At + 1, prec, ctx), Tail(frames))
    PROVE  Sound(call', frames', choices', Len(tokens), Waitable, postfix)
<1> DEFINE d == Read(At + 1, prec, ctx)
<1>1. Runs("yield") /\ At + 1 \in 2..Len(tokens) + 1 /\ Len(tokens) \in Nat /\ At + 1 >= At
  BY AtTop, YieldHere
<1>2. CallAt(d, At + 1, Len(choices) + 1, Len(tokens), postfix)
  BY <1>1 DEF Read, CallAt, CallOK, Reads, CallKinds
<1> HIDE DEF d
<1> QED
  BY <1>1, <1>2, NextOfManyStep DEF d

LEMMA read_argsInv == ASSUME IInv, read_args PROVE IInv'
<1> DEFINE fs == {"args"}
<1>1. Answers(fs) /\ "once" \notin fs /\ Top.then = "args"
  BY DEF read_args, Answers
<1> HIDE DEF fs
<1>2. CASE /\ Type(At) = "comma" /\ Quietly
           /\ First(Now("args"), Read(At + 1, 1200, {"comma"}), Tail(frames))
  <2>1. /\ Now("args").then = "args" /\ Now("args").token = Top.token
        /\ Now("args").depth = Top.depth /\ ~ InDict(Now("args")) /\ ~ InDict(Top)
    BY <1>1 DEF Now, InDict
  <2>2. Sound(call', frames', choices', Len(tokens), Waitable, postfix)
    BY <1>1, <1>2, <2>1, MoreHere
  <2> QED
    BY <1>2, <2>2, QuietStep
<1>3. CASE /\ Type(At) = "close" /\ Complete(At + 1, Node("compound", Top.token, Terms))
           /\ UNCHANGED choices /\ Quietly
  <2>1. Sound(call', frames', choices, Len(tokens), Waitable, postfix)
    BY <1>1, <1>3, CompleteHere
  <2> QED
    BY <1>3, <2>1, QuietStep
<1>4. CASE Missing(Culprit(At))
  <2>1. Culprit(At) \in 1..Len(tokens)
    BY <1>1, AtTop, YieldHere DEF Culprit
  <2> QED
    BY <1>1, <1>4, <2>1, MissingStep
<1> QED
  BY <1>2, <1>3, <1>4 DEF read_args

LEMMA read_listInv == ASSUME IInv, read_list PROVE IInv'
<1> DEFINE fs   == {"list"}
           then == IF Type(At) = "comma" THEN "list" ELSE "tail"
<1>1. Answers(fs) /\ "once" \notin fs /\ Top.then = "list"
  BY DEF read_list, Answers
<1> HIDE DEF fs
<1>2. CASE /\ Type(At) \in {"comma", "ht_sep"} /\ Quietly
           /\ First(Now(then), Read(At + 1, 999, {"bar", "comma"}), Tail(frames))
  <2>1. /\ Now(then).then \notin {"once", "infix"} /\ Now(then).token = Top.token
        /\ Now(then).depth = Top.depth /\ ~ InDict(Now(then)) /\ ~ InDict(Top)
    BY <1>1 DEF Now, InDict
  <2> HIDE DEF then
  <2>2. Sound(call', frames', choices', Len(tokens), Waitable, postfix)
    BY <1>1, <1>2, <2>1, MoreHere
  <2> QED
    BY <1>2, <2>2, QuietStep
<1>3. CASE /\ Type(At) = "close_list" /\ Complete(At + 1, Node("list", Top.token, Terms))
           /\ UNCHANGED choices /\ Quietly
  <2>1. Sound(call', frames', choices, Len(tokens), Waitable, postfix)
    BY <1>1, <1>3, CompleteHere
  <2> QED
    BY <1>3, <2>1, QuietStep
<1>4. CASE Missing(Culprit(At))
  <2>1. Culprit(At) \in 1..Len(tokens)
    BY <1>1, AtTop, YieldHere DEF Culprit
  <2> QED
    BY <1>1, <1>4, <2>1, MissingStep
<1> QED
  BY <1>2, <1>3, <1>4 DEF read_list

LEMMA expect_bracketInv == ASSUME IInv, expect_bracket PROVE IInv'
<1> DEFINE fs == {"tail", "paren", "curly"}
<1>1. Answers(fs) /\ "once" \notin fs /\ Top.then \in fs
  BY DEF expect_bracket, Answers
<1>2. CASE /\ Type(At) = ClosedBy[Top.then] /\ Complete(At + 1, Bracketed)
           /\ IF Top.then = "curly"
              THEN Suspend(Restore(Top.token), <<>>) /\ braced' = braced \cup {Top.token}
              ELSE UNCHANGED <<choices, braced>>
           /\ UNCHANGED <<tokens, infix, postfix, errors, last>>
  <2>1. Type(At) # "none"
    BY <1>1, <1>2 DEF ClosedBy
  <2>2. /\ Sound(call', frames', choices, Len(tokens), Waitable, postfix)
        /\ Reads(call') /\ call'.fn # "yield"
    BY <1>1, <1>2, <2>1, CompleteHere
  <2>3. /\ Top.token \in 1..Len(tokens) /\ Len(tokens) \in Nat /\ Len(choices) \in Nat
        /\ Top.token + 1 <= call'.at
    <3>1. /\ Top.token \in 1..Len(tokens) /\ Len(tokens) \in Nat /\ Len(choices) \in Nat
          /\ Top.token < At /\ At \in Nat
      BY <1>1, AtTop, Here
    <3>2. call'.at = At + 1
      BY <1>2 DEF Complete, Exprtl0
    <3> QED
      BY <3>1, <3>2
  <2>4. CASE Top.then = "curly"
    <3> DEFINE e == [call |-> Restore(Top.token), frames |-> <<>>]
    <3>1. /\ ~ Reads(e.call) /\ CallOK(e.call, Len(choices), Len(tokens), postfix)
          /\ e.call.fn # "yield" /\ Place(e.call) <= call'.at
      BY <2>3 DEF Restore, Reads, CallOK, CallKinds, Place
    <3>2. choices' = Append(choices, e) /\ braced' = braced \cup {Top.token}
      BY <1>2, <2>4 DEF Suspend
    <3> HIDE DEF e
    <3>3. Sound(call', frames', Append(choices, e), Len(tokens), Waitable, postfix)
      BY <2>2, <2>3, <3>1, Leaves
    <3>4. braced' \subseteq 1..Len(tokens)
      BY <2>3, <3>2 DEF IInv
    <3>5. Sound(call', frames', choices', Len(tokens), Waitable, postfix)
      BY <3>2, <3>3
    <3> QED
      BY <1>2, <3>4, <3>5, Unannotated DEF IInv
  <2>5. CASE Top.then # "curly"
    <3>1. Quietly /\ UNCHANGED choices
      BY <1>2, <2>5 DEF Quietly, annotations
    <3> QED
      BY <2>2, <3>1, QuietStep
  <2> QED
    BY <2>4, <2>5
<1>3. CASE Missing(At - 1)
  <2>1. At - 1 \in 1..Len(tokens)
    BY <1>1, AtTop, YieldHere
  <2> HIDE DEF fs
  <2> QED
    BY <1>1, <1>3, <2>1, MissingStep
<1> QED
  BY <1>2, <1>3 DEF expect_bracket

LEMMA read_keyInv == ASSUME IInv, read_key PROVE IInv'
<1> DEFINE fs == {"key"}
<1>1. Answers(fs) /\ "once" \notin fs /\ Top.then = "key"
  BY DEF read_key, Answers
<1> HIDE DEF fs
<1>2. CASE /\ IsAtom(At, ":") /\ Quietly
           /\ First(Now("value"), Read(At + 1, 1200, Top.ctx \cup {"comma"}), Tail(frames))
  <2>1. /\ Now("value").then = "value" /\ Now("value").token = Top.token
        /\ Now("value").depth = Top.depth /\ InDict(Now("value")) /\ InDict(Top)
    BY <1>1 DEF Now, InDict
  <2>2. Type(At) # "none"
    BY <1>2 DEF IsAtom
  <2>3. Sound(call', frames', choices', Len(tokens), Waitable, postfix)
    BY <1>1, <1>2, <2>1, <2>2, MoreHere
  <2> QED
    BY <1>2, <2>3, QuietStep
<1>3. CASE Missing(At - 1)
  <2>1. At - 1 \in 1..Len(tokens)
    BY <1>1, AtTop, YieldHere
  <2> QED
    BY <1>1, <1>3, <2>1, MissingStep
<1> QED
  BY <1>2, <1>3 DEF read_key

LEMMA read_valueInv == ASSUME IInv, read_value PROVE IInv'
<1> DEFINE fs == {"value"}
<1>1. Answers(fs) /\ "once" \notin fs /\ Top.then = "value"
  BY DEF read_value, Answers
<1> HIDE DEF fs
<1>2. CASE /\ Type(At) = "comma" /\ Quietly
           /\ First(Now("key"), Read(At + 1, 1200, Top.ctx \cup {"colon", "comma"}), Tail(frames))
  <2>1. /\ Now("key").then = "key" /\ Now("key").token = Top.token
        /\ Now("key").depth = Top.depth /\ InDict(Now("key")) /\ InDict(Top)
    BY <1>1 DEF Now, InDict
  <2>2. Sound(call', frames', choices', Len(tokens), Waitable, postfix)
    BY <1>1, <1>2, <2>1, MoreHere
  <2> QED
    BY <1>2, <2>2, QuietStep
<1>3. CASE Type(At) = "close_curly" /\ DictEnds /\ Quietly
  <2> DEFINE name == Top.token - 1
             c    == OtherThanDict(name)
             d    == Exprtl0(At + 1, Node("dict", Top.token, Terms), Top.prec, Top.ctx)
  <2>1. /\ Len(tokens) \in Nat /\ Top.token \in 2..Len(tokens) /\ name \in 1..Len(tokens)
        /\ At + 1 \in 2..Len(tokens) + 1 /\ Top.token < At /\ At = call.at /\ At \in Nat
    BY <1>1, <1>3, AtTop, YieldHere DEF InDict, At
  <2>2. /\ CallOK(c, Len(choices), Len(tokens), postfix) /\ Reads(c) /\ c.fn # "yield"
        /\ c.at \in {name, name + 1}
    BY <2>1 DEF OtherThanDict, AtomTail, Exprtl0, CallOK, Reads, CallKinds
  <2>3. /\ CallOK(d, Len(choices), Len(tokens), postfix) /\ Reads(d) /\ d.fn # "yield"
        /\ d.at = At + 1
    BY <2>1 DEF Exprtl0, CallOK, Reads, CallKinds
  <2>4. /\ call' = d /\ frames' = Tail(frames)
        /\ choices' = Append(choices, [call |-> c, frames |-> Tail(frames)])
    BY <1>3 DEF DictEnds, Complete, Suspend
  <2>5. c.at >= Top.token - 1 /\ d.at >= c.at
    BY <2>1, <2>2, <2>3
  <2> HIDE DEF c, d, name
  <2>6. /\ call.fn = "yield" /\ frames # <<>> /\ InDict(frames[1])
        /\ c.at >= frames[1].token - 1
    BY <1>1, <2>5 DEF Answers, Runs, Top, InDict
  <2>7. Sound(c, Tail(frames), choices, Len(tokens), Waitable, postfix)
    BY <2>1, <2>2, <2>6, GoesBack DEF IInv
  <2>8. Sound(d, Tail(frames), Append(choices, [call |-> c, frames |-> Tail(frames)]),
              Len(tokens), Waitable, postfix)
    BY <2>1, <2>2, <2>3, <2>5, <2>7, Suspends
  <2> QED
    BY <1>3, <2>4, <2>8, QuietStep
<1>4. CASE GoOn(Return(Top.depth)) /\ Quietly
  <2>1. /\ Top.depth \in 0..Len(choices)
        /\ Return(Top.depth).fn = "return" /\ Return(Top.depth).depth = Top.depth
    BY <1>1, AtTop DEF Return
  <2>2. ChoicesOK(choices, Len(tokens), Waitable, postfix)
    BY DEF IInv, Sound
  <2>3. Sound(Return(Top.depth), frames, choices, Len(tokens), Waitable, postfix)
    BY <2>1, <2>2, Stops
  <2> QED
    BY <1>4, <2>3, QuietStep DEF GoOn
<1>5. CASE Type(At) # "none" /\ Missing(At)
  <2>1. At \in 1..Len(tokens)
    BY <1>1, <1>5, AtTop, YieldHere
  <2> QED
    BY <1>1, <1>5, <2>1, MissingStep
<1> QED
  BY <1>2, <1>3, <1>4, <1>5 DEF read_value

LEMMA returnInv == ASSUME IInv, return PROVE IInv'
<1>1. /\ call.depth \in 0..Len(choices) /\ Fail.fn = "fail"
      /\ call' = Fail /\ choices' = SubSeq(choices, 1, call.depth) /\ Quietly
  BY Here DEF return, Runs, CallOK, Fail, Oldest
<1>2. ChoicesOK(choices', Len(tokens), Waitable, postfix)
  BY <1>1, Abandoning DEF IInv, Sound
<1>3. Sound(call', frames', choices', Len(tokens), Waitable, postfix)
  BY <1>1, <1>2, Stops
<1> QED
  BY <1>1, <1>3, QuietStep

LEMMA restoreInv == ASSUME IInv, restore PROVE IInv'
<1>1. /\ call' = Fail /\ Fail.fn = "fail" /\ UNCHANGED <<frames, choices>>
      /\ braced' = braced \ {call.token} /\ UNCHANGED <<tokens, infix, postfix, errors, last>>
  BY DEF restore, GoOn, Fail
<1>2. Sound(Fail, frames, choices, Len(tokens), Waitable, postfix)
  BY <1>1, StopsHere
<1>3. braced' \subseteq 1..Len(tokens)
  BY <1>1 DEF IInv
<1> QED
  BY <1>1, <1>2, <1>3, Unannotated DEF IInv

LEMMA resumeInv == ASSUME IInv, resume PROVE IInv'
<1>1. /\ choices # <<>> /\ call' = choices[Len(choices)].call
      /\ frames' = choices[Len(choices)].frames
      /\ choices' = SubSeq(choices, 1, Len(choices) - 1) /\ Quietly
  BY DEF resume, Newest, Oldest
<1>2. Sound(call', frames', choices', Len(tokens), Waitable, postfix)
  BY <1>1, Resumes DEF IInv, Sound
<1> QED
  BY <1>1, <1>2, QuietStep

LEMMA nextInv == ASSUME IInv, next PROVE IInv'
<1>1. Done.fn = "done" /\ Fail.fn = "fail"
  BY DEF Done, Fail
<1>2. CASE /\ Runs("yield") /\ last' = [at |-> At, term |-> call.term]
           /\ call' = IF all_read(At) THEN Done ELSE Fail
           /\ UNCHANGED <<tokens, frames, choices, annotations, errors>>
  <2>1. last'.at \in 1..Len(tokens) + 1
    BY <1>2, YieldHere
  <2>2. call' \in {Done, Fail} /\ UNCHANGED <<frames, choices>>
    BY <1>2
  <2>3. Sound(call', frames', choices', Len(tokens), Waitable, postfix)
    BY <1>1, <2>2, StopsHere
  <2>4. UNCHANGED <<tokens, infix, postfix, braced, errors>>
    BY <1>2 DEF annotations
  <2> QED
    BY <2>1, <2>3, <2>4, Unannotated DEF IInv
<1>3. CASE GoOn(Done) /\ Quietly
  <2>1. Sound(Done, frames, choices, Len(tokens), Waitable, postfix)
    BY <1>1, StopsHere
  <2> QED
    BY <1>3, <2>1, QuietStep DEF GoOn
<1> QED
  BY <1>2, <1>3 DEF next

LEMMA StepInv == ASSUME IInv, [Next]_vars PROVE IInv'
<1>1. CASE Generators
  BY <1>1, readInv, atomInv, after_prefix_opInv, exprtl0Inv, ambigopInv, exprtlInv,
     postfix_operatorInv, onceInv, operandInv, read_argsInv, read_listInv,
     expect_bracketInv, read_keyInv, read_valueInv, restoreInv, returnInv, resumeInv
     DEF Generators
<1>2. CASE next
  BY <1>2, nextInv
<1>3. CASE UNCHANGED vars
  <2>1. UNCHANGED <<tokens, call, frames, choices, infix, postfix, braced, errors, last>>
    BY <1>3 DEF vars
  <2> QED
    BY <2>1, Unannotated DEF IInv
<1> QED
  BY <1>1, <1>2, <1>3 DEF Next

LEMMA IInvHolds == Spec => []IInv
<1> QED
  BY InitInv, StepInv, PTL DEF Spec

-------------------------------------------------------------------------------
\* The type invariant: whatever the clause, the reader stays inside it, and annotates
\* tokens of it only.
THEOREM TypeCorrect == Spec => []TypeOK
<1>1. IInv => TypeOK
  <2>1. ASSUME IInv
        PROVE  tokens \in Seq(Token)
    BY <2>1, TokensAssumption DEF IInv
  <2>2. ASSUME IInv
        PROVE  /\ call.fn \in CallKinds
               /\ call.fn \notin {"restore", "return", "fail", "done", "throw"} =>
                      At \in 1..Len(tokens) + 1
    BY <2>2, Here DEF CallOK, Reads
  <2> QED
    BY <2>1, <2>2 DEF IInv, TypeOK, CallKinds
<1> QED
  BY <1>1, IInvHolds, PTL

\* Reading a clause throws nothing: every diagnostic is at a token of it, and every
\* operator has its annotation when a loop over its operands reads it, although
\* readings that are given up leave annotations behind and others delete them.
THEOREM ThrowsNothing == Spec => []NeverThrows
<1>1. IInv => NeverThrows
  <2>1. ASSUME IInv
        PROVE  call.fn \in CallKinds
    BY <2>1, Here DEF CallOK
  <2> QED
    BY <2>1 DEF IInv, NeverThrows, CallKinds
<1> QED
  BY <1>1, IInvHolds, PTL

\* A brace has the value "{}" for what follows it only: as long as the loop goes on
\* that will put the value back, every term that is read starts behind the brace,
\* also the one that the reader goes back for when a dict was none.
THEOREM BracesStayBehindReading == Spec => []BracesStayBehind
<1>1. IInv => BracesStayBehind
  <2> SUFFICES ASSUME IInv, NEW a \in DOMAIN choices, Runs("read"),
                      choices[a].call.fn = "restore"
               PROVE  choices[a].call.token < At
    BY DEF BracesStayBehind
  <2>1. /\ Below(choices, At) /\ ChoicesOK(choices, Len(tokens), Waitable, postfix)
        /\ Len(tokens) \in Nat /\ At \in Nat
    BY Here DEF IInv, Sound, Reads, Runs, At
  <2>2. a \in 1..Len(choices) /\ a \in Nat
    BY <2>1 DEF ChoicesOK, IsSeq
  <2>3. choices[a].call.token \in Nat
    BY <2>1, <2>2 DEF ChoicesOK, ChoiceOK, CallOK
  <2>4. choices[a].call.token + 1 <= At
    BY <2>1, <2>2 DEF Below, Placed, Place
  <2> QED
    BY <2>1, <2>3, <2>4
<1> QED
  BY <1>1, IInvHolds, PTL

-------------------------------------------------------------------------------
(* What is read is meant.  For a table R of the readings of all parts of a clause, *)
(* closed under the rules of the grammar, every call has a part of the clause      *)
(* behind it that R has a reading of, and every frame waits for a part in front of *)
(* the call that completes its own part to a reading that R has.                   *)

Has(R, i, j, ctx, r)        == r \in R[<<i, j>>].terms[ctx]
Some(R, i, j, ctx, prec, t) == \E r \in R[<<i, j>>].terms[ctx] : r[1] <= prec /\ r[2] = t

\* The contexts of what is inside brackets.
ArgsContext       == {"comma"}
ListContext       == {"comma", "bar"}
KeyContext(ctx)   == ctx \cup {"comma", "colon"}
ValueContext(ctx) == ctx \cup {"comma"}

SingleRule(R) ==
    \A i \in 1..Len(tokens), ctx \in Contexts :
        Type(i) \in AtomicType => Has(R, i, i + 1, ctx, <<0, Atomic(i)>>)

NegativeRule(R) ==
    \A i \in 1..Len(tokens) - 1, ctx \in Contexts :
        IsAtom(i, "-") /\ Type(i + 1) = "integer"
            => Has(R, i, i + 2, ctx, <<0, Node("negative", i, <<>>)>>)

EmptyDictRule(R) ==
    \A i \in 1..Len(tokens) - 1, ctx \in Contexts :
        IsName(i) /\ (IsAtom(i + 1, "{}") \/ TakenForEmpty(i, AllLiberties))
            => Has(R, i, i + 2, ctx, <<0, Node("dict", i + 1, <<Atomic(i)>>)>>)

CompoundRule(R) ==
    \A i, j \in 1..Len(tokens), ctx \in Contexts :
        i < j /\ Type(j) = "close"
            => \A args \in R[<<i, j>>].args : Has(R, i, j + 1, ctx, <<0, Node("compound", i, args)>>)

DictRule(R) ==
    \A i, j \in 1..Len(tokens), ctx \in Contexts :
        i < j /\ Type(j) = "close_curly"
            => \A pairs \in R[<<i, j>>].valued[ctx] :
                   Has(R, i, j + 1, ctx, <<0, Node("dict", i + 1, pairs)>>)

ListRule(R) ==
    \A i, j \in 1..Len(tokens), ctx \in Contexts :
        i < j /\ Type(j) = "close_list"
            => \A items \in R[<<i, j>>].items : Has(R, i, j + 1, ctx, <<0, Node("list", i, items)>>)

ParenRule(R) ==
    \A i, j \in 1..Len(tokens), ctx \in Contexts :
        i + 1 < j /\ Type(j) = "close" /\ Type(i) \in {"open", "open_ct"}
            => \A t : Some(R, i + 1, j, {}, 1200, t) => Has(R, i, j + 1, ctx, <<0, t>>)

CurlyRule(R) ==
    \A i, j \in 1..Len(tokens), ctx \in Contexts :
        i + 1 < j /\ Type(j) = "close_curly" /\ Type(i) = "open_curly"
            => \A t : Some(R, i + 1, j, {}, 1200, t)
                          => Has(R, i, j + 1, ctx, <<0, Node("curly", i, <<t>>)>>)

TailRule(R) ==
    \A i, k, j \in 1..Len(tokens), ctx \in Contexts :
        i < k /\ k + 1 < j /\ Type(k) = "ht_sep" /\ Type(j) = "close_list"
            => \A items \in R[<<i, k>>].items : \A t :
                   Some(R, k + 1, j, ListContext, 999, t)
                       => Has(R, i, j + 1, ctx, <<0, Node("partial_list", i, Append(items, t))>>)

ArgsRule(R) ==
    \A i, k \in 1..Len(tokens), j \in 1..Len(tokens) + 1 : \A t :
        /\ i < k /\ k + 1 < j
        /\ Type(i) = "atom" /\ Type(i + 1) = "open_ct"
        /\ Some(R, k + 1, j, ArgsContext, 1200, t)
        => /\ k = i + 1 => <<t>> \in R[<<i, j>>].args
           /\ Type(k) = "comma" => \A args \in R[<<i, k>>].args : Append(args, t) \in R[<<i, j>>].args

ItemsRule(R) ==
    \A i, k \in 1..Len(tokens), j \in 1..Len(tokens) + 1 : \A t :
        /\ i <= k /\ k + 1 < j
        /\ Type(i) = "open_list"
        /\ Some(R, k + 1, j, ListContext, 999, t)
        => /\ k = i => <<t>> \in R[<<i, j>>].items
           /\ i < k /\ Type(k) = "comma"
                  => \A items \in R[<<i, k>>].items : Append(items, t) \in R[<<i, j>>].items

KeyedRule(R) ==
    \A i, k \in 1..Len(tokens), j \in 1..Len(tokens) + 1, ctx \in Contexts : \A t :
        /\ i < k /\ k + 1 < j
        /\ IsName(i) /\ Type(i + 1) = "open_curly"
        /\ Some(R, k + 1, j, KeyContext(ctx), 1200, t)
        => /\ k = i + 1 => <<Atomic(i), t>> \in R[<<i, j>>].keyed[ctx]
           /\ Type(k) = "comma" => \A pairs \in R[<<i, k>>].valued[ctx] :
                                       Append(pairs, t) \in R[<<i, j>>].keyed[ctx]

ValuedRule(R) ==
    \A i, k \in 1..Len(tokens), j \in 1..Len(tokens) + 1, ctx \in Contexts : \A t :
        /\ i < k /\ k + 1 < j
        /\ IsAtom(k, ":")
        /\ Some(R, k + 1, j, ValueContext(ctx), 1200, t)
        => \A keys \in R[<<i, k>>].keyed[ctx] : Append(keys, t) \in R[<<i, j>>].valued[ctx]

PrefixRule(R) ==
    \A i \in 1..Len(tokens), j \in 1..Len(tokens) + 1, ctx \in Contexts : \A t :
        IsPrefix(i) /\ MayTake(i) /\ i + 1 < j /\ Some(R, i + 1, j, ctx, Prefix(i).rPrec, t)
            => Has(R, i, j, ctx, <<Prefix(i).opPrec, Node("prefix", i, <<t>>)>>)

PostfixRule(R) ==
    \A i, k \in 1..Len(tokens), ctx \in Contexts : \A t :
        i < k /\ IsPostfix(k) /\ Some(R, i, k, ctx, Postfix(k).lPrec, t)
            => Has(R, i, k + 1, ctx, <<Postfix(k).opPrec, Node("postfix", k, <<t>>)>>)

\* A reading from i that the operator or separator k may have on its left.
IsLeft(l, i, k, ctx) ==
    /\ l[1] <= Fixity(k).opPrec
    /\ l[1] <= Fixity(k).lPrec \/ IsAsStrong(l, k, ctx, AllLiberties)
    /\ ~ Terminates(k, ctx) \/ GoesPast(l, i, AllLiberties)

InfixRule(R) ==
    \A i, k \in 1..Len(tokens), j \in 1..Len(tokens) + 1, ctx \in Contexts : \A t :
        i < k /\ k + 1 < j /\ IsBetween(k) /\ Some(R, k + 1, j, ctx, Fixity(k).rPrec, t)
            => \A l \in R[<<i, k>>].terms[ctx] :
                   IsLeft(l, i, k, ctx)
                       => Has(R, i, j, ctx, <<Fixity(k).opPrec, Node("infix", k, <<l[2], t>>)>>)

Closed(R) ==
    /\ SingleRule(R) /\ NegativeRule(R) /\ EmptyDictRule(R)
    /\ CompoundRule(R) /\ DictRule(R) /\ ListRule(R) /\ ParenRule(R) /\ CurlyRule(R) /\ TailRule(R)
    /\ ArgsRule(R) /\ ItemsRule(R) /\ KeyedRule(R) /\ ValuedRule(R)
    /\ PrefixRule(R) /\ PostfixRule(R) /\ InfixRule(R)

\* What a call is to read: a term from token `at`.
Wanted(at, prec, ctx) == [at |-> at, prec |-> prec, ctx |-> ctx]

\* A term may be read from i.
Introduced(i) == i > 1 /\ Type(i - 1) = "atom" => Introduces(i - 1)

IsWanted(v) ==
    /\ v = Wanted(v.at, v.prec, v.ctx)
    /\ v.at \in 1..Len(tokens) + 1
    /\ v.prec \in Nat
    /\ v.ctx \in Contexts
    /\ Introduced(v.at)

\* The frame f waits for v, so as to read w.
ForPrefix(f, v, w) ==
    /\ f.then = "prefix" /\ f.token = w.at /\ f.terms = <<>>
    /\ IsPrefix(w.at) /\ MayTake(w.at) /\ Prefix(w.at).opPrec <= w.prec
    /\ v = Wanted(w.at + 1, Prefix(w.at).rPrec, w.ctx)

ForInfix(R, f, v, w) ==
    /\ f.then = "infix" /\ f.token \in w.at + 1..Len(tokens)
    /\ IsBetween(f.token) /\ Fixity(f.token).opPrec <= w.prec
    /\ v = Wanted(f.token + 1, Fixity(f.token).rPrec, w.ctx)
    /\ \E l \in R[<<w.at, f.token>>].terms[w.ctx] :
          IsLeft(l, w.at, f.token, w.ctx) /\ f.terms = <<l[2]>>

ForArgs(R, f, v, w) ==
    /\ f.then = "args" /\ f.token = w.at
    /\ Type(w.at) = "atom" /\ Type(w.at + 1) = "open_ct"
    /\ v.prec = 1200 /\ v.ctx = ArgsContext
    /\ \/ v.at = w.at + 2 /\ f.terms = <<>>
       \/ v.at - 1 > w.at /\ Type(v.at - 1) = "comma" /\ f.terms \in R[<<w.at, v.at - 1>>].args

ForItems(R, f, v, w) ==
    /\ f.then = "list" /\ f.token = w.at
    /\ Type(w.at) = "open_list"
    /\ v.prec = 999 /\ v.ctx = ListContext
    /\ \/ v.at = w.at + 1 /\ f.terms = <<>>
       \/ v.at - 1 > w.at /\ Type(v.at - 1) = "comma" /\ f.terms \in R[<<w.at, v.at - 1>>].items

ForTail(R, f, v, w) ==
    /\ f.then = "tail" /\ f.token = w.at
    /\ Type(w.at) = "open_list"
    /\ v.prec = 999 /\ v.ctx = ListContext
    /\ v.at - 1 > w.at /\ Type(v.at - 1) = "ht_sep" /\ f.terms \in R[<<w.at, v.at - 1>>].items

ForBracket(f, v, w) ==
    /\ f.token = w.at /\ f.terms = <<>>
    /\ \/ f.then = "paren" /\ Type(w.at) \in {"open", "open_ct"}
       \/ f.then = "curly" /\ Type(w.at) = "open_curly"
    /\ v = Wanted(w.at + 1, 1200, {})

ForKey(R, f, v, w) ==
    /\ f.then = "key" /\ f.token = w.at + 1
    /\ IsName(w.at) /\ Type(w.at + 1) = "open_curly"
    /\ v.prec = 1200 /\ v.ctx = KeyContext(w.ctx)
    /\ \/ v.at = w.at + 2 /\ f.terms = <<Atomic(w.at)>>
       \/ /\ v.at - 1 > w.at /\ Type(v.at - 1) = "comma"
          /\ f.terms \in R[<<w.at, v.at - 1>>].valued[w.ctx]

ForValue(R, f, v, w) ==
    /\ f.then = "value" /\ f.token = w.at + 1
    /\ IsName(w.at) /\ Type(w.at + 1) = "open_curly"
    /\ v.prec = 1200 /\ v.ctx = ValueContext(w.ctx)
    /\ v.at - 1 > w.at /\ IsAtom(v.at - 1, ":")
    /\ f.terms \in R[<<w.at, v.at - 1>>].keyed[w.ctx]

AwaitsFor(R, f, v, w) ==
    /\ IsWanted(v) /\ IsWanted(w)
    /\ \/ f.then = "once" /\ v = w
       \/ /\ f.prec = w.prec /\ f.ctx = w.ctx
          /\ \/ ForPrefix(f, v, w) \/ ForInfix(R, f, v, w) \/ ForArgs(R, f, v, w)
             \/ ForItems(R, f, v, w) \/ ForTail(R, f, v, w) \/ ForBracket(f, v, w)
             \/ ForKey(R, f, v, w) \/ ForValue(R, f, v, w)

\* The frames fs wait for v, and all of them for the clause.
Clause == Wanted(1, 1200, {})

AwaitAll(R, fs, v) ==
    /\ IsSeq(fs) /\ IsWanted(v)
    /\ \E ws : /\ ws[1] = v /\ ws[Len(fs) + 1] = Clause
               /\ \A i \in 1..Len(fs) : AwaitsFor(R, fs[i], ws[i], ws[i + 1])

\* A separator that follows a term it may have on its left is taken.
SeparatorTaken(i, v) ==
    Type(i) \in {"comma", "ht_sep"} /\ v.prec = Fixity(i).opPrec => Terminates(i, v.ctx)

\* The term read so far, at most as strong as `left`, and what may follow it.
ReadSoFar(R, c, v) ==
    \E r \in R[<<v.at, c.at>>].terms[v.ctx] :
        /\ r[1] \in 0..c.left /\ c.left <= v.prec /\ r[2] = c.term
        /\ c.left \in Nat
        /\ Terminates(c.at, v.ctx) => IsOperation(r, v.at)
        /\ r[1] > 0 /\ Type(c.at) \in {"comma", "ht_sep"}
               => Terminates(c.at, v.ctx) \/ Type(r[2][2]) # Type(c.at)

Asks(c) == c.fn \in {"read", "atom", "after_prefix_op", "exprtl0", "ambigop", "exprtl", "postfix"}

\* The call c is to read v, and has done so up to its place.
Stands(R, c, v) ==
    /\ Asks(c) => c.prec = v.prec /\ c.ctx = v.ctx
    /\ c.fn \in {"read", "atom"} => c.at = v.at
    /\ c.fn = "atom" => Type(v.at) = "atom" /\ MayTake(v.at)
    /\ c.fn = "after_prefix_op" => c.at = v.at + 1 /\ IsPrefix(v.at) /\ MayTake(v.at)
    /\ c.fn \in {"exprtl0", "ambigop", "exprtl", "postfix", "yield"} =>
           c.at \in v.at + 1..Len(tokens) + 1
    /\ c.fn \in {"exprtl0", "ambigop"} => Has(R, v.at, c.at, v.ctx, <<0, c.term>>)
    /\ c.fn = "ambigop" => IsPostfix(c.at) /\ ~ Terminates(c.at, v.ctx)
    /\ c.fn = "exprtl" => ReadSoFar(R, c, v)
    /\ c.fn = "postfix" => /\ IsPostfix(c.at - 1) /\ c.at - 1 > v.at
                           /\ Postfix(c.at - 1).opPrec <= v.prec
                           /\ Has(R, v.at, c.at, v.ctx, <<Postfix(c.at - 1).opPrec, c.term>>)
                           /\ c.term[2] = c.at - 1
    /\ c.fn = "yield" => Some(R, v.at, c.at, v.ctx, v.prec, c.term) /\ SeparatorTaken(c.at, v)

Continues(R, c, fs) == Reads(c) => \E v : AwaitAll(R, fs, v) /\ Stands(R, c, v)

ChoicesContinue(R, ch) == \A a \in 1..Len(ch) : Continues(R, ch[a].call, ch[a].frames)

Marked(inf, post, br) ==
    /\ \A i \in inf : IsInfix(i)
    /\ \A i \in post : IsPostfix(i)
    /\ \A b \in br : Type(b) = "open_curly" /\ Introduced(b)

KeptMeans(R, l) ==
    \/ l.term = Atomic(1)
    \/ l.at \in 2..Len(tokens) + 1 /\ Some(R, 1, l.at, {}, 1200, l.term)

IsMeant(R, c, fs, ch, inf, post, br, l) ==
    /\ Continues(R, c, fs) /\ ChoicesContinue(R, ch)
    /\ Marked(inf, post, br) /\ KeptMeans(R, l)

MInv == \A R : Closed(R) => IsMeant(R, call, frames, choices, infix, postfix, braced, last)

-------------------------------------------------------------------------------
(* What is said of tokens does not change, since they do not. *)

LEMMA SameTokens ==
    ASSUME tokens' = tokens
    PROVE  /\ \A i : Type(i)' = Type(i)
           /\ \A i, text : IsAtom(i, text)' <=> IsAtom(i, text)
           /\ \A i : IsPrefix(i)' <=> IsPrefix(i)
           /\ \A i : IsPostfix(i)' <=> IsPostfix(i)
           /\ \A i : IsInfix(i)' <=> IsInfix(i)
           /\ \A i : Prefix(i)' = Prefix(i)
           /\ \A i : Postfix(i)' = Postfix(i)
           /\ \A i : Infix(i)' = Infix(i)
<1>1. \A i : Type(i)' = Type(i)
  BY DEF Type
<1>2. \A i, text : IsAtom(i, text)' <=> IsAtom(i, text)
  BY <1>1 DEF IsAtom
<1>3. \A i : (IsPrefix(i)' <=> IsPrefix(i)) /\ (IsPostfix(i)' <=> IsPostfix(i)) /\ (IsInfix(i)' <=> IsInfix(i))
  BY <1>1 DEF IsPrefix, IsPostfix, IsInfix
<1>4. \A i : Prefix(i)' = Prefix(i) /\ Postfix(i)' = Postfix(i) /\ Infix(i)' = Infix(i)
  BY DEF Prefix, Postfix, Infix
<1> QED
  BY <1>1, <1>2, <1>3, <1>4

\* and with them what is said of a token,
LEMMA SameFacts ==
    ASSUME tokens' = tokens
    PROVE  /\ \A i, ctx : Terminates(i, ctx)' <=> Terminates(i, ctx)
           /\ \A i : IsName(i)' <=> IsName(i)
           /\ \A i : Introduces(i)' <=> Introduces(i)
           /\ \A i : Introduced(i)' <=> Introduced(i)
           /\ \A i, free : TakenForEmpty(i, free)' <=> TakenForEmpty(i, free)
           /\ \A i : IsBetween(i)' <=> IsBetween(i)
           /\ \A i : Fixity(i)' = Fixity(i)
           /\ \A i : MayTake(i)' <=> MayTake(i)
           /\ \A r, i : IsOperation(r, i)' <=> IsOperation(r, i)
           /\ \A l, i, k, ctx : IsLeft(l, i, k, ctx)' <=> IsLeft(l, i, k, ctx)
<1>1. \A i, ctx : Terminates(i, ctx)' <=> Terminates(i, ctx)
  BY SameTokens DEF Terminates
<1>2. \A i : IsName(i)' <=> IsName(i)
  BY SameTokens DEF IsName
<1>3. \A i : Introduces(i)' <=> Introduces(i)
  BY SameTokens DEF Introduces
<1>4. \A i : Introduced(i)' <=> Introduced(i)
  BY SameTokens, <1>3 DEF Introduced
<1>5. \A i, free : TakenForEmpty(i, free)' <=> TakenForEmpty(i, free)
  BY SameTokens, <1>3 DEF TakenForEmpty
<1>6. \A i : IsBetween(i)' <=> IsBetween(i)
  BY SameTokens DEF IsBetween
<1>7. \A i : Fixity(i)' = Fixity(i)
  BY SameTokens DEF Fixity
<1>8. \A i : MayTake(i)' <=> MayTake(i)
  BY SameTokens DEF MayTake
<1>9. \A r, i : IsOperation(r, i)' <=> IsOperation(r, i)
  BY SameTokens DEF IsOperation
<1>10. \A l, i, k, ctx : IsLeft(l, i, k, ctx)' <=> IsLeft(l, i, k, ctx)
  BY SameTokens, <1>1, <1>7, <1>9 DEF IsLeft, IsAsStrong, GoesPast
<1> QED
  BY <1>1, <1>2, <1>3, <1>4, <1>5, <1>6, <1>7, <1>8, <1>9, <1>10

\* the rules of the grammar,
LEMMA SameRules ==
    ASSUME tokens' = tokens, NEW R, Closed(R)'
    PROVE  Closed(R)
<1>1. SingleRule(R) /\ NegativeRule(R) /\ EmptyDictRule(R)
  BY SameTokens, SameFacts DEF Closed, SingleRule, NegativeRule, EmptyDictRule
<1>2. CompoundRule(R) /\ DictRule(R) /\ ListRule(R)
  BY SameTokens DEF Closed, CompoundRule, DictRule, ListRule
<1>3. ParenRule(R) /\ CurlyRule(R) /\ TailRule(R)
  BY SameTokens DEF Closed, ParenRule, CurlyRule, TailRule
<1>4. /\ \A i : Type(i)' = Type(i)
      /\ \A i, text : IsAtom(i, text)' <=> IsAtom(i, text)
      /\ \A i : IsName(i)' <=> IsName(i)
  BY SameTokens, SameFacts
<1>5. ArgsRule(R)
  BY <1>4 DEF Closed, ArgsRule
<1>6. ItemsRule(R)
  BY <1>4 DEF Closed, ItemsRule
<1>7. KeyedRule(R)
  BY <1>4 DEF Closed, KeyedRule
<1>8. ValuedRule(R)
  BY <1>4 DEF Closed, ValuedRule
<1>9. PrefixRule(R) /\ PostfixRule(R)
  BY SameTokens, SameFacts DEF Closed, PrefixRule, PostfixRule
<1>10. InfixRule(R)
  BY SameTokens, SameFacts DEF Closed, InfixRule
<1> QED
  BY <1>1, <1>2, <1>3, <1>5, <1>6, <1>7, <1>8, <1>9, <1>10 DEF Closed

\* what a frame waits for,
LEMMA SameFrames ==
    ASSUME tokens' = tokens, NEW R
    PROVE  \A f, v, w : AwaitsFor(R, f, v, w) => AwaitsFor(R, f, v, w)'
<1>1. \A v : IsWanted(v)' <=> IsWanted(v)
  BY SameFacts DEF IsWanted
<1>2. \A f, v, w : ForPrefix(f, v, w) => ForPrefix(f, v, w)'
  BY SameTokens, SameFacts DEF ForPrefix
<1>3. \A f, v, w : ForInfix(R, f, v, w) => ForInfix(R, f, v, w)'
  BY SameTokens, SameFacts DEF ForInfix
<1>4. \A f, v, w : ForArgs(R, f, v, w) => ForArgs(R, f, v, w)'
  BY SameTokens DEF ForArgs
<1>5. \A f, v, w : ForItems(R, f, v, w) => ForItems(R, f, v, w)'
  BY SameTokens DEF ForItems
<1>6. \A f, v, w : ForTail(R, f, v, w) => ForTail(R, f, v, w)'
  BY SameTokens DEF ForTail
<1>7. \A f, v, w : ForBracket(f, v, w) => ForBracket(f, v, w)'
  BY SameTokens DEF ForBracket
<1>8. \A f, v, w : ForKey(R, f, v, w) => ForKey(R, f, v, w)'
  BY SameTokens, SameFacts DEF ForKey
<1>9. \A f, v, w : ForValue(R, f, v, w) => ForValue(R, f, v, w)'
  BY SameTokens, SameFacts DEF ForValue
<1> QED
  BY <1>1, <1>2, <1>3, <1>4, <1>5, <1>6, <1>7, <1>8, <1>9 DEF AwaitsFor

\* where a call stands,
LEMMA SameCalls ==
    ASSUME tokens' = tokens, NEW R
    PROVE  \A c, v : Stands(R, c, v) => Stands(R, c, v)'
<1>1. \A c, v : ReadSoFar(R, c, v) => ReadSoFar(R, c, v)'
  BY SameTokens, SameFacts DEF ReadSoFar
<1>2. \A i, v : SeparatorTaken(i, v) => SeparatorTaken(i, v)'
  BY SameTokens, SameFacts DEF SeparatorTaken
<1> QED
  BY <1>1, <1>2, SameTokens, SameFacts DEF Stands

\* and so the whole invariant.
LEMMA SameMeaning ==
    ASSUME tokens' = tokens, NEW R, NEW c, NEW fs, NEW ch, NEW inf, NEW post, NEW br, NEW l,
           IsMeant(R, c, fs, ch, inf, post, br, l)
    PROVE  IsMeant(R, c, fs, ch, inf, post, br, l)'
<1>1. \A v : IsWanted(v) => IsWanted(v)'
  BY SameFacts DEF IsWanted
<1>2. \A gs, v : AwaitAll(R, gs, v) => AwaitAll(R, gs, v)'
  BY <1>1, SameFrames DEF AwaitAll
<1>3. \A d, gs : Continues(R, d, gs) => Continues(R, d, gs)'
  BY <1>2, SameCalls DEF Continues
<1>4. Marked(inf, post, br)'
  BY SameTokens, SameFacts DEF IsMeant, Marked
<1>5. KeptMeans(R, l)'
  BY DEF IsMeant, KeptMeans
<1> QED
  BY <1>3, <1>4, <1>5 DEF IsMeant, ChoicesContinue

-------------------------------------------------------------------------------
(* Frames, and the sequences of them. *)

LEMMA NoFrames ==
    ASSUME NEW R, IsWanted(Clause)
    PROVE  /\ AwaitAll(R, <<>>, Clause)
           /\ \A v : AwaitAll(R, <<>>, v) => v = Clause
<1>1. Len(<<>>) = 0
  OBVIOUS
<1>2. AwaitAll(R, <<>>, Clause)
  <2> DEFINE ws == [i \in 1..1 |-> Clause]
  <2>1. ws[1] = Clause /\ ws[Len(<<>>) + 1] = Clause
    BY <1>1
  <2> HIDE DEF ws
  <2> QED
    BY <1>1, <2>1, EmptyIsSeq DEF AwaitAll
<1>3. ASSUME NEW v, AwaitAll(R, <<>>, v)
      PROVE  v = Clause
  BY <1>1, <1>3 DEF AwaitAll
<1> QED
  BY <1>2, <1>3

\* One frame more.
LEMMA AwaitMore ==
    ASSUME NEW R, NEW fs, NEW v, NEW w, NEW f, AwaitAll(R, fs, w), AwaitsFor(R, f, v, w)
    PROVE  AwaitAll(R, <<f>> \o fs, v)
<1> DEFINE gs == <<f>> \o fs
<1>1. IsSeq(fs) /\ IsWanted(v)
  BY DEF AwaitAll, AwaitsFor
<1>2. Len(fs) \in Nat
  BY <1>1, LenOf
<1>3. /\ IsSeq(gs) /\ Len(gs) = Len(fs) + 1 /\ gs[1] = f
      /\ \A i \in 1..Len(fs) : gs[i + 1] = fs[i]
  BY <1>1, Pushed
<1>4. PICK ws : /\ ws[1] = w /\ ws[Len(fs) + 1] = Clause
                /\ \A i \in 1..Len(fs) : AwaitsFor(R, fs[i], ws[i], ws[i + 1])
  BY DEF AwaitAll
<1> DEFINE us == [i \in 1..Len(fs) + 2 |-> IF i = 1 THEN v ELSE ws[i - 1]]
<1>5. us[1] = v /\ \A i \in 1..Len(fs) + 1 : us[i + 1] = ws[i]
  <2>1. \A i \in 1..Len(fs) + 1 : i + 1 \in 1..Len(fs) + 2 /\ i + 1 # 1 /\ (i + 1) - 1 = i
    BY <1>2
  <2> QED
    BY <1>2, <2>1
<1> HIDE DEF us, gs
<1>6. us[Len(gs) + 1] = Clause
  BY <1>2, <1>3, <1>4, <1>5
<1>7. ASSUME NEW i \in 1..Len(gs)
      PROVE  AwaitsFor(R, gs[i], us[i], us[i + 1])
  <2>1. CASE i = 1
    <3>1. us[1] = v /\ us[1 + 1] = w
      BY <1>2, <1>4, <1>5
    <3> QED
      BY <1>3, <2>1, <3>1
  <2>2. CASE i # 1
    <3> DEFINE k == i - 1
    <3>1. k \in 1..Len(fs) /\ k + 1 \in 1..Len(fs) + 1 /\ i = k + 1
      BY <1>2, <1>3, <2>2
    <3> HIDE DEF k
    <3>2. us[k + 1] = ws[k] /\ us[(k + 1) + 1] = ws[k + 1] /\ gs[k + 1] = fs[k]
      BY <1>2, <1>3, <1>5, <3>1
    <3> QED
      BY <1>4, <3>1, <3>2
  <2> QED
    BY <2>1, <2>2
<1> QED
  BY <1>1, <1>3, <1>5, <1>6, <1>7 DEF AwaitAll, gs

\* One frame less.
LEMMA AwaitLess ==
    ASSUME NEW R, NEW fs, NEW v, AwaitAll(R, fs, v), fs # <<>>
    PROVE  \E w : AwaitsFor(R, fs[1], v, w) /\ AwaitAll(R, Tail(fs), w)
<1> DEFINE gs == Tail(fs)
<1>1. /\ IsSeq(fs) /\ Len(fs) \in Nat
  BY LenOf DEF AwaitAll
<1>2. /\ IsSeq(gs) /\ Len(fs) > 0 /\ Len(gs) = Len(fs) - 1
      /\ \A i \in 1..Len(gs) : gs[i] = fs[i + 1]
  BY <1>1, Popped
<1>3. PICK ws : /\ ws[1] = v /\ ws[Len(fs) + 1] = Clause
                /\ \A i \in 1..Len(fs) : AwaitsFor(R, fs[i], ws[i], ws[i + 1])
  BY DEF AwaitAll
<1> DEFINE us == [i \in 1..Len(fs) |-> ws[i + 1]]
<1>4. \A i \in 1..Len(fs) : us[i] = ws[i + 1]
  OBVIOUS
<1> HIDE DEF us, gs
<1>5. AwaitsFor(R, fs[1], v, us[1])
  BY <1>1, <1>2, <1>3, <1>4
<1>6. us[Len(gs) + 1] = Clause
  BY <1>1, <1>2, <1>3, <1>4
<1>7. ASSUME NEW i \in 1..Len(gs)
      PROVE  AwaitsFor(R, gs[i], us[i], us[i + 1])
  <2>1. i + 1 \in 1..Len(fs) /\ i \in 1..Len(fs)
    BY <1>1, <1>2
  <2> QED
    BY <1>2, <1>3, <1>4, <2>1
<1>8. IsWanted(us[1])
  BY <1>5 DEF AwaitsFor
<1> QED
  BY <1>2, <1>5, <1>6, <1>7, <1>8 DEF AwaitAll, gs

\* A frame that takes the first reading only.
LEMMA AwaitOnce ==
    ASSUME NEW R, NEW fs, NEW v, NEW w, NEW f, NEW d, AwaitAll(R, fs, w), AwaitsFor(R, f, v, w)
    PROVE  AwaitAll(R, <<[then |-> "once", depth |-> d]>> \o (<<f>> \o fs), v)
<1> DEFINE o == [then |-> "once", depth |-> d]
<1>1. AwaitAll(R, <<f>> \o fs, v)
  BY AwaitMore
<1>2. AwaitsFor(R, o, v, v)
  <2>1. o.then = "once"
    OBVIOUS
  <2> HIDE DEF o
  <2> QED
    BY <2>1 DEF AwaitsFor
<1> HIDE DEF o
<1>3. AwaitAll(R, <<o>> \o (<<f>> \o fs), v)
  BY <1>1, <1>2, AwaitMore
<1> QED
  BY <1>3 DEF o

-------------------------------------------------------------------------------
(* Suspended generators. *)

LEMMA SuspendedToo ==
    ASSUME NEW R, NEW ch, IsSeq(ch), ChoicesContinue(R, ch), NEW c, NEW fs, Continues(R, c, fs)
    PROVE  ChoicesContinue(R, Append(ch, [call |-> c, frames |-> fs]))
<1> DEFINE e == [call |-> c, frames |-> fs]
<1>1. e.call = c /\ e.frames = fs
  OBVIOUS
<1> HIDE DEF e
<1>2. /\ Len(ch) \in Nat /\ Len(Append(ch, e)) = Len(ch) + 1
      /\ Append(ch, e)[Len(ch) + 1] = e
      /\ \A i \in 1..Len(ch) : Append(ch, e)[i] = ch[i]
  BY LenOf, Appended
<1>3. \A a \in 1..Len(ch) + 1 : a = Len(ch) + 1 \/ a \in 1..Len(ch)
  BY <1>2
<1> QED
  BY <1>1, <1>2, <1>3 DEF ChoicesContinue, e

\* What is given up leaves the other choices as they are.
LEMMA AbandonedToo ==
    ASSUME NEW R, NEW ch, IsSeq(ch), ChoicesContinue(R, ch), NEW k \in 0..Len(ch)
    PROVE  ChoicesContinue(R, SubSeq(ch, 1, k))
<1>1. /\ Len(ch) \in Nat /\ Len(SubSeq(ch, 1, k)) = k
      /\ \A i \in 1..k : SubSeq(ch, 1, k)[i] = ch[i]
  BY LenOf, Cut
<1>2. \A a \in 1..k : a \in 1..Len(ch)
  BY <1>1
<1> QED
  BY <1>1, <1>2 DEF ChoicesContinue

-------------------------------------------------------------------------------
(* Operators and contexts. *)

LEMMA OpPrecedence ==
    ASSUME NEW name \in Name, NEW type \in OpType
    PROVE  current_op(Tables, name, type) \in 0..1200
<1>1. <<name, type>> \in Key
  BY DEF Key
<1>2. Tables.default[<<name, type>>] \in 0..1200 /\ Tables.user[<<name, type>>] \in 0..1200
  BY <1>1, TablesAssumption DEF Table, MaxPrecedence
<1> QED
  BY <1>2 DEF current_op

\* No operand is stronger than its operator allows: prefix operators,
LEMMA PrefixPrecedences ==
    ASSUME NEW name \in Name
    PROVE  /\ prefixop(name).opPrec \in 0..1200
           /\ prefixop(name).type # "none" =>
                 /\ prefixop(name).opPrec > 0
                 /\ prefixop(name).rPrec \in 0..prefixop(name).opPrec
<1>1. current_op(Tables, name, "fy") \in 0..1200 /\ current_op(Tables, name, "fx") \in 0..1200
  BY OpPrecedence DEF OpType
<1> QED
  BY <1>1 DEF prefixop

\* postfix operators,
LEMMA PostfixPrecedences ==
    ASSUME NEW name \in Name
    PROVE  /\ postfixop(name).opPrec \in 0..1200
           /\ postfixop(name).type # "none" =>
                 /\ postfixop(name).opPrec > 0
                 /\ postfixop(name).lPrec \in 0..postfixop(name).opPrec
<1>1. current_op(Tables, name, "yf") \in 0..1200 /\ current_op(Tables, name, "xf") \in 0..1200
  BY OpPrecedence DEF OpType
<1> QED
  BY <1>1 DEF postfixop

\* and infix operators.
LEMMA InfixPrecedences ==
    ASSUME NEW name \in Name
    PROVE  /\ infixop(Tables, name).opPrec \in 0..1200
           /\ infixop(Tables, name).type # "none" =>
                 /\ infixop(Tables, name).opPrec > 0
                 /\ infixop(Tables, name).lPrec \in 0..infixop(Tables, name).opPrec
                 /\ infixop(Tables, name).rPrec \in 0..infixop(Tables, name).opPrec
<1>1. /\ current_op(Tables, name, "xfx") \in 0..1200 /\ current_op(Tables, name, "xfy") \in 0..1200
      /\ current_op(Tables, name, "yfx") \in 0..1200
  BY OpPrecedence DEF OpType
<1> DEFINE x == current_op(Tables, name, "xfx")
           y == current_op(Tables, name, "xfy")
           z == current_op(Tables, name, "yfx")
<1>2. CASE x # 0
  <2>1. infixop(Tables, name) = [type |-> "xfx", opPrec |-> x, lPrec |-> x - 1, rPrec |-> x - 1]
    BY <1>2 DEF infixop
  <2> QED
    BY <1>1, <1>2, <2>1
<1>3. CASE x = 0 /\ y # 0
  <2>1. infixop(Tables, name) = [type |-> "xfy", opPrec |-> y, lPrec |-> y - 1, rPrec |-> y - 0]
    BY <1>3 DEF infixop
  <2> QED
    BY <1>1, <1>3, <2>1
<1>4. CASE x = 0 /\ y = 0 /\ z # 0
  <2>1. infixop(Tables, name) = [type |-> "yfx", opPrec |-> z, lPrec |-> z - 0, rPrec |-> z - 1]
    BY <1>4 DEF infixop
  <2> QED
    BY <1>1, <1>4, <2>1
<1>5. CASE x = 0 /\ y = 0 /\ z = 0
  <2>1. infixop(Tables, name) = NoOperator
    BY <1>5 DEF infixop
  <2> QED
    BY <2>1 DEF NoOperator
<1> QED
  BY <1>2, <1>3, <1>4, <1>5

\* An operator is at least as strong as its operands may be.
LEMMA Strength ==
    ASSUME NEW i, NEW name \in Name, tokens[i].text = name
    PROVE  /\ IsPrefix(i) => Prefix(i).opPrec \in 1..1200 /\ Prefix(i).rPrec \in 0..Prefix(i).opPrec
           /\ IsPostfix(i) => Postfix(i).opPrec \in 1..1200 /\ Postfix(i).lPrec \in 0..Postfix(i).opPrec
           /\ IsInfix(i) => /\ Infix(i).opPrec \in 1..1200
                            /\ Infix(i).lPrec \in 0..Infix(i).opPrec
                            /\ Infix(i).rPrec \in 0..Infix(i).opPrec
<1>1. Prefix(i) = prefixop(name) /\ Postfix(i) = postfixop(name) /\ Infix(i) = infixop(Tables, name)
  BY DEF Prefix, Postfix, Infix
<1>2. /\ IsPrefix(i) => prefixop(name).type # "none"
      /\ IsPostfix(i) => postfixop(name).type # "none"
      /\ IsInfix(i) => infixop(Tables, name).type # "none"
  BY DEF IsPrefix, IsPostfix, IsInfix
<1>3. IsPrefix(i) => Prefix(i).opPrec \in 1..1200 /\ Prefix(i).rPrec \in 0..Prefix(i).opPrec
  BY <1>1, <1>2, PrefixPrecedences
<1>4. IsPostfix(i) => Postfix(i).opPrec \in 1..1200 /\ Postfix(i).lPrec \in 0..Postfix(i).opPrec
  BY <1>1, <1>2, PostfixPrecedences
<1>5. IsInfix(i) => /\ Infix(i).opPrec \in 1..1200
                   /\ Infix(i).lPrec \in 0..Infix(i).opPrec
                   /\ Infix(i).rPrec \in 0..Infix(i).opPrec
  BY <1>1, <1>2, InfixPrecedences
<1> QED
  BY <1>3, <1>4, <1>5

IsNamed(i) == Type(i) = "atom" => tokens[i].text \in Name

\* Atoms have names,
LEMMA NamedTokens ==
    ASSUME tokens \in TokenLists
    PROVE  \A i \in 1..Len(tokens) : IsNamed(i)
BY TokensAssumption DEF Type, IsNamed

\* so that is so of all tokens.
LEMMA Strengths ==
    ASSUME NEW i, IsNamed(i)
    PROVE  /\ IsPrefix(i) => /\ Type(i) = "atom" /\ Prefix(i).opPrec \in 1..1200
                             /\ Prefix(i).rPrec \in 0..Prefix(i).opPrec
           /\ IsPostfix(i) => /\ Type(i) = "atom" /\ Postfix(i).opPrec \in 1..1200
                              /\ Postfix(i).lPrec \in 0..Postfix(i).opPrec
           /\ IsInfix(i) => /\ Type(i) = "atom" /\ Fixity(i) = Infix(i)
                            /\ OpPrec(i) = Infix(i).opPrec /\ RightPrec(i) = Infix(i).rPrec
           /\ IsBetween(i) => /\ Fixity(i).opPrec \in 1..1200
                              /\ Fixity(i).lPrec \in 0..Fixity(i).opPrec
                              /\ Fixity(i).rPrec \in 0..Fixity(i).opPrec
                              /\ OpPrec(i) = Fixity(i).opPrec /\ RightPrec(i) = Fixity(i).rPrec
           /\ Type(i) \in {"comma", "ht_sep"} => /\ IsBetween(i)
                                                 /\ Fixity(i).rPrec = Fixity(i).opPrec
<1>1. Type(i) = "atom" => tokens[i].text \in Name
  BY DEF IsNamed
<1>2. IsPrefix(i) \/ IsPostfix(i) \/ IsInfix(i) => Type(i) = "atom"
  BY DEF IsPrefix, IsPostfix, IsInfix
<1>3. /\ IsPrefix(i) => Prefix(i).opPrec \in 1..1200 /\ Prefix(i).rPrec \in 0..Prefix(i).opPrec
      /\ IsPostfix(i) => Postfix(i).opPrec \in 1..1200 /\ Postfix(i).lPrec \in 0..Postfix(i).opPrec
      /\ IsInfix(i) => /\ Infix(i).opPrec \in 1..1200
                       /\ Infix(i).lPrec \in 0..Infix(i).opPrec
                       /\ Infix(i).rPrec \in 0..Infix(i).opPrec
  BY <1>1, <1>2, Strength
<1>4. Type(i) = "atom" => /\ Fixity(i) = Infix(i) /\ OpPrec(i) = Infix(i).opPrec
                          /\ RightPrec(i) = Infix(i).rPrec
  BY DEF Fixity, OpPrec, RightPrec
<1>5. Type(i) = "comma" => /\ Fixity(i).opPrec = 1000 /\ Fixity(i).lPrec = 999
                           /\ Fixity(i).rPrec = 1000 /\ OpPrec(i) = 1000 /\ RightPrec(i) = 1000
  BY DEF Fixity, OpPrec, RightPrec
<1>6. Type(i) = "ht_sep" => /\ Fixity(i).opPrec = 1100 /\ Fixity(i).lPrec = 1099
                            /\ Fixity(i).rPrec = 1100 /\ OpPrec(i) = 1100 /\ RightPrec(i) = 1100
  BY DEF Fixity, OpPrec, RightPrec
<1>7. IsInfix(i) => /\ Fixity(i).opPrec \in 1..1200
                    /\ Fixity(i).lPrec \in 0..Fixity(i).opPrec
                    /\ Fixity(i).rPrec \in 0..Fixity(i).opPrec
                    /\ OpPrec(i) = Fixity(i).opPrec /\ RightPrec(i) = Fixity(i).rPrec
  BY <1>2, <1>3, <1>4
<1>8. ASSUME Type(i) \in {"comma", "ht_sep"}
      PROVE  /\ Fixity(i).opPrec \in 1..1200
             /\ Fixity(i).lPrec \in 0..Fixity(i).opPrec
             /\ Fixity(i).rPrec \in 0..Fixity(i).opPrec
             /\ OpPrec(i) = Fixity(i).opPrec /\ RightPrec(i) = Fixity(i).rPrec
             /\ Fixity(i).rPrec = Fixity(i).opPrec
  <2>1. CASE Type(i) = "comma"
    BY <1>5, <2>1
  <2>2. CASE Type(i) = "ht_sep"
    BY <1>6, <2>2
  <2> QED
    BY <1>8, <2>1, <2>2
<1> QED
  BY <1>2, <1>3, <1>4, <1>7, <1>8 DEF IsBetween

\* The contexts inside brackets are contexts.
LEMMA ContextsInside ==
    /\ {} \in Contexts /\ ArgsContext \in Contexts /\ ListContext \in Contexts
    /\ \A ctx \in Contexts : KeyContext(ctx) \in Contexts /\ ValueContext(ctx) \in Contexts
<1>1. {} \in Contexts /\ ArgsContext \in Contexts /\ ListContext \in Contexts
  BY DEF Contexts, ArgsContext, ListContext
<1>2. ASSUME NEW ctx \in Contexts
      PROVE  KeyContext(ctx) \in {{"comma", "colon"}, {"comma", "bar", "colon"}}
  BY DEF Contexts, KeyContext
<1>3. ASSUME NEW ctx \in Contexts
      PROVE  ValueContext(ctx) \in {{"comma"}, {"comma", "bar"}, {"comma", "colon"}, {"comma", "bar", "colon"}}
  BY DEF Contexts, ValueContext
<1> QED
  BY <1>1, <1>2, <1>3 DEF Contexts

-------------------------------------------------------------------------------
(* Calls that have something to read, and steps that go on with them. *)

MeansNow(R)  == IsMeant(R, call, frames, choices, infix, postfix, braced, last)
MeansNext(R) == IsMeant(R, call', frames', choices', infix', postfix', braced', last')

\* Where a call stands when it is made.
LEMMA CallsStand ==
    ASSUME NEW R, NEW v
    PROVE  /\ Stands(R, Read(v.at, v.prec, v.ctx), v)
           /\ Type(v.at) = "atom" /\ MayTake(v.at) => Stands(R, AtomTail(v.at, v.prec, v.ctx), v)
           /\ \A turn : IsPrefix(v.at) /\ MayTake(v.at)
                            => Stands(R, AfterPrefixOp(v.at + 1, turn, v.prec, v.ctx), v)
           /\ \A j \in v.at + 1..Len(tokens) + 1 : \A t :
                 /\ Has(R, v.at, j, v.ctx, <<0, t>>) => Stands(R, Exprtl0(j, t, v.prec, v.ctx), v)
                 /\ Has(R, v.at, j, v.ctx, <<0, t>>) /\ IsPostfix(j) /\ ~ Terminates(j, v.ctx)
                        => Stands(R, Ambigop(j, t, v.prec, v.ctx), v)
                 /\ Some(R, v.at, j, v.ctx, v.prec, t) /\ SeparatorTaken(j, v) => Stands(R, Yield(j, t), v)
<1>1. Stands(R, Read(v.at, v.prec, v.ctx), v)
  BY DEF Stands, Asks, Read
<1>2. Type(v.at) = "atom" /\ MayTake(v.at) => Stands(R, AtomTail(v.at, v.prec, v.ctx), v)
  BY DEF Stands, Asks, AtomTail
<1>3. ASSUME NEW turn, IsPrefix(v.at) /\ MayTake(v.at)
      PROVE  Stands(R, AfterPrefixOp(v.at + 1, turn, v.prec, v.ctx), v)
  BY <1>3 DEF Stands, Asks, AfterPrefixOp
<1>4. ASSUME NEW j \in v.at + 1..Len(tokens) + 1, NEW t, Has(R, v.at, j, v.ctx, <<0, t>>)
      PROVE  Stands(R, Exprtl0(j, t, v.prec, v.ctx), v)
  BY <1>4 DEF Stands, Asks, Exprtl0
<1>5. ASSUME NEW j \in v.at + 1..Len(tokens) + 1, NEW t, Has(R, v.at, j, v.ctx, <<0, t>>),
             IsPostfix(j), ~ Terminates(j, v.ctx)
      PROVE  Stands(R, Ambigop(j, t, v.prec, v.ctx), v)
  BY <1>5 DEF Stands, Asks, Ambigop
<1>6. ASSUME NEW j \in v.at + 1..Len(tokens) + 1, NEW t, Some(R, v.at, j, v.ctx, v.prec, t),
             SeparatorTaken(j, v)
      PROVE  Stands(R, Yield(j, t), v)
  BY <1>6 DEF Stands, Asks, Yield
<1> QED
  BY <1>1, <1>2, <1>3, <1>4, <1>5, <1>6

\* A reading r may have an operator behind it.
Follows(r, left, j, v) ==
    /\ left \in Nat /\ r[1] \in 0..left /\ left <= v.prec
    /\ Terminates(j, v.ctx) => IsOperation(r, v.at)
    /\ r[1] > 0 /\ Type(j) \in {"comma", "ht_sep"}
           => Terminates(j, v.ctx) \/ Type(r[2][2]) # Type(j)

\* A call of exprtl stands behind what is read so far.
LEMMA ExprtlStands ==
    ASSUME NEW R, NEW v, NEW j \in v.at + 1..Len(tokens) + 1, NEW left, NEW r,
           Has(R, v.at, j, v.ctx, r), Follows(r, left, j, v)
    PROVE  Stands(R, Exprtl(j, left, r[2], v.prec, v.ctx), v)
<1> DEFINE c == Exprtl(j, left, r[2], v.prec, v.ctx)
<1>1. /\ c.fn = "exprtl" /\ c.at = j /\ c.left = left /\ c.term = r[2]
      /\ c.prec = v.prec /\ c.ctx = v.ctx
  BY DEF Exprtl
<1> HIDE DEF c
<1>2. ReadSoFar(R, c, v)
  BY <1>1 DEF ReadSoFar, Has, Follows
<1>3. Stands(R, c, v)
  BY <1>1, <1>2 DEF Stands, Asks
<1> QED
  BY <1>3 DEF c

\* A step that annotates nothing keeps the meaning if the calls it leaves continue.
LEMMA Stays ==
    ASSUME NEW R, MeansNow(R), Continues(R, call', frames'), ChoicesContinue(R, choices'),
           UNCHANGED <<infix, postfix, braced, last>>
    PROVE  MeansNext(R)
BY DEF MeansNow, MeansNext, IsMeant

\* One call is replaced by another.
LEMMA GoesOnMeaning ==
    ASSUME NEW R, MeansNow(R), NEW c, GoOn(c), Continues(R, c, frames),
           UNCHANGED <<infix, postfix, braced, last>>
    PROVE  MeansNext(R)
<1>1. ChoicesContinue(R, choices)
  BY DEF MeansNow, IsMeant
<1> QED
  BY <1>1, Stays DEF GoOn

\* A call that fails reads nothing.
LEMMA FailsMeaning ==
    ASSUME NEW R, NEW fs
    PROVE  /\ Continues(R, Fail, fs) /\ Continues(R, Done, fs)
           /\ \A k : Continues(R, Return(k), fs) /\ Continues(R, Restore(k), fs)
BY DEF Continues, Reads, Fail, Done, Return, Restore

\* A generator is suspended.
LEMMA SuspendsMeaning ==
    ASSUME NEW R, MeansNow(R), IInv, NEW c, NEW d, NEW fs, NEW gs,
           call' = c, frames' = gs, Suspend(d, fs), Continues(R, c, gs), Continues(R, d, fs),
           UNCHANGED <<infix, postfix, braced, last>>
    PROVE  MeansNext(R)
<1>1. IsSeq(choices)
  BY DEF IInv, Sound, ChoicesOK
<1>2. ChoicesContinue(R, choices)
  BY DEF MeansNow, IsMeant
<1>3. ChoicesContinue(R, Append(choices, [call |-> d, frames |-> fs]))
  BY <1>1, <1>2, SuspendedToo
<1> QED
  BY <1>3, Stays DEF Suspend

\* A frame that gets every reading.
LEMMA ForEachMeaning ==
    ASSUME NEW R, MeansNow(R), NEW f, NEW v, NEW w, AwaitAll(R, frames, w), AwaitsFor(R, f, v, w),
           ForEach(f, Read(v.at, v.prec, v.ctx)),
           UNCHANGED <<infix, postfix, braced, last>>
    PROVE  MeansNext(R)
<1>1. AwaitAll(R, <<f>> \o frames, v)
  BY AwaitMore
<1>2. Continues(R, Read(v.at, v.prec, v.ctx), <<f>> \o frames)
  BY <1>1, CallsStand DEF Continues
<1>3. ChoicesContinue(R, choices)
  BY DEF MeansNow, IsMeant
<1> QED
  BY <1>2, <1>3, Stays DEF ForEach

\* A frame that gets the first reading.
LEMMA FirstMeaning ==
    ASSUME NEW R, MeansNow(R), IInv, NEW f, NEW v, NEW w, NEW fs,
           AwaitAll(R, fs, w), AwaitsFor(R, f, v, w),
           First(f, Read(v.at, v.prec, v.ctx), fs),
           UNCHANGED <<infix, postfix, braced, last>>
    PROVE  MeansNext(R)
<1> DEFINE gs == <<[then |-> "once", depth |-> Len(choices)]>> \o (<<f>> \o fs)
<1>1. AwaitAll(R, gs, v)
  BY AwaitOnce
<1> HIDE DEF gs
<1>2. Continues(R, Read(v.at, v.prec, v.ctx), gs)
  BY <1>1, CallsStand DEF Continues
<1>3. Continues(R, Return(f.depth), <<>>)
  BY FailsMeaning
<1>4. call' = Read(v.at, v.prec, v.ctx) /\ frames' = gs /\ Suspend(Return(f.depth), <<>>)
  BY DEF First, gs
<1> QED
  BY <1>2, <1>3, <1>4, SuspendsMeaning

\* What the reader is to read.
LEMMA Standing ==
    ASSUME NEW R, MeansNow(R), IInv, Reads(call)
    PROVE  /\ Len(tokens) \in Nat \ {0}
           /\ \A i \in Nat : Type(i) # "none" => i <= Len(tokens)
           /\ \A i \in 1..Len(tokens) : IsNamed(i)
           /\ \E v : /\ AwaitAll(R, frames, v) /\ Stands(R, call, v)
                     /\ IsWanted(v) /\ v.at \in 1..Len(tokens) + 1
                     /\ v.prec \in Nat /\ v.ctx \in Contexts
<1>1. \E v : AwaitAll(R, frames, v) /\ Stands(R, call, v)
  BY DEF MeansNow, IsMeant, Continues
<1>2. \A v : AwaitAll(R, frames, v) => IsWanted(v)
  BY DEF AwaitAll
<1>3. \A i \in 1..Len(tokens) : IsNamed(i)
  BY NamedTokens DEF IInv
<1> QED
  BY <1>1, <1>2, <1>3, Here DEF IsWanted

\* A quiet step annotates nothing,
LEMMA QuietFacts ==
    ASSUME Quietly
    PROVE  UNCHANGED <<infix, postfix, braced, last>> /\ tokens' = tokens
BY DEF Quietly, annotations

\* nor does one that reports an error.
LEMMA ReportFacts ==
    ASSUME NEW i, ReportAt(i)
    PROVE  UNCHANGED <<infix, postfix, braced, last>> /\ tokens' = tokens
BY DEF ReportAt, annotations

\* What is said of the token types in one place.
LEMMA TypeNames ==
    /\ \A i, text : IsAtom(i, text) => Type(i) = "atom"
    /\ \A i : IsName(i) <=> Type(i) = "atom" \/ Type(i) = "var"
    /\ \A i : IsPrefix(i) \/ IsPostfix(i) \/ IsInfix(i) => Type(i) = "atom"
    /\ \A i : Type(i) \in AtomicType => Type(i) # "none"
    /\ AtomicType = {"var", "atom", "integer", "string"}
BY DEF IsAtom, IsName, IsPrefix, IsPostfix, IsInfix, AtomicType

\* A call of read: it begins where it is to read.
LEMMA readMeans ==
    ASSUME NEW R, Closed(R), IInv, MeansNow(R), read
    PROVE  MeansNext(R)
<1> DEFINE n == Len(tokens)
<1>1. call.fn = "read" /\ Reads(call)
  BY DEF read, Runs, Reads
<1>2. PICK v : /\ AwaitAll(R, frames, v) /\ Stands(R, call, v)
               /\ IsWanted(v) /\ v.at \in 1..n + 1 /\ v.prec \in Nat /\ v.ctx \in Contexts
  BY <1>1, Standing
<1>3. /\ n \in Nat \ {0} /\ \A i \in Nat : Type(i) # "none" => i <= n
      /\ \A i \in 1..n : IsNamed(i)
  BY <1>1, Standing
<1>4. At = v.at /\ call.prec = v.prec /\ call.ctx = v.ctx
  BY <1>1, <1>2 DEF Stands, Asks, At
<1>5. Type(v.at) # "none" => v.at \in 1..n /\ v.at + 1 \in 2..n + 1
  BY <1>2, <1>3
<1>6. Type(v.at) # "none" /\ Type(v.at + 1) # "none" => v.at \in 1..n - 1 /\ v.at + 1 \in 2..n /\ v.at + 2 \in 3..n + 1
  BY <1>2, <1>3
<1>7. ASSUME NEW c, Stands(R, c, v)
      PROVE  Continues(R, c, frames)
  BY <1>2, <1>7 DEF Continues
\* a single token as a term
<1>8. ASSUME Type(v.at) \in AtomicType
      PROVE  /\ v.at \in 1..n /\ v.at + 1 \in v.at + 1..n + 1
             /\ Has(R, v.at, v.at + 1, v.ctx, <<0, Atomic(v.at)>>)
  <2>1. v.at \in 1..n
    BY <1>5, <1>8, TypeNames
  <2> QED
    BY <1>2, <1>8, <2>1 DEF Closed, SingleRule
<1>9. ASSUME Type(v.at) \in AtomicType, Type(v.at) = "atom" => MayTake(v.at)
      PROVE  Continues(R, Plainly, frames)
  <2>1. Type(v.at) = "atom" => Stands(R, AtomTail(v.at, v.prec, v.ctx), v)
    BY <1>9, CallsStand
  <2>2. Stands(R, Exprtl0(v.at + 1, Atomic(v.at), v.prec, v.ctx), v)
    BY <1>8, <1>9, CallsStand
  <2>3. Plainly \in {AtomTail(v.at, v.prec, v.ctx), Exprtl0(v.at + 1, Atomic(v.at), v.prec, v.ctx)}
    BY <1>4 DEF Plainly, Exprtl0After
  <2>4. Type(v.at) # "atom" => Plainly = Exprtl0(v.at + 1, Atomic(v.at), v.prec, v.ctx)
    BY <1>4 DEF Plainly, Exprtl0After
  <2> QED
    BY <1>7, <2>1, <2>2, <2>3, <2>4
<1>10. CASE ReadNothing
  BY <1>10, GoesOnMeaning, FailsMeaning, QuietFacts DEF ReadNothing
<1>11. CASE ReadOperand
  <2>1. Type(v.at) \in AtomicType /\ Terminates(v.at + 1, v.ctx)
    BY <1>4, <1>11 DEF ReadOperand, EndsAtOnce
  <2>2. Some(R, v.at, v.at + 1, v.ctx, v.prec, Atomic(v.at)) /\ SeparatorTaken(v.at + 1, v)
    <3>1. Has(R, v.at, v.at + 1, v.ctx, <<0, Atomic(v.at)>>)
      BY <1>8, <2>1
    <3> DEFINE r == <<0, Atomic(v.at)>>
    <3>2. r[1] = 0 /\ r[2] = Atomic(v.at)
      OBVIOUS
    <3>3. r \in R[<<v.at, v.at + 1>>].terms[v.ctx]
      BY <3>1 DEF Has
    <3> HIDE DEF r
    <3> QED
      BY <1>2, <2>1, <3>2, <3>3 DEF Some, SeparatorTaken
  <2>3. Stands(R, Yield(v.at + 1, Atomic(v.at)), v)
    BY <1>8, <2>1, <2>2, CallsStand
  <2> QED
    BY <1>4, <1>7, <1>11, <2>3, GoesOnMeaning, QuietFacts DEF ReadOperand
<1>12. CASE ReadAtomic
  <2>1. Type(v.at) \in AtomicType
    BY <1>4, <1>12 DEF ReadAtomic, AtomicType
  <2>2. Type(v.at) = "atom" => MayTake(v.at)
    BY <1>4, <1>12 DEF ReadAtomic, MayTake
  <2> QED
    BY <1>9, <1>12, <2>1, <2>2, GoesOnMeaning, QuietFacts DEF ReadAtomic
<1>13. CASE ReadNegative
  <2>1. IsAtom(v.at, "-") /\ Type(v.at + 1) = "integer"
    BY <1>4, <1>13 DEF ReadNegative
  <2>2. v.at \in 1..n - 1 /\ v.at + 2 \in v.at + 1..n + 1
    BY <1>2, <1>6, <2>1, TypeNames
  <2>3. Has(R, v.at, v.at + 2, v.ctx, <<0, Node("negative", v.at, <<>>)>>)
    BY <1>2, <2>1, <2>2 DEF Closed, NegativeRule
  <2>4. Stands(R, Exprtl0(v.at + 2, Node("negative", v.at, <<>>), v.prec, v.ctx), v)
    BY <2>2, <2>3, CallsStand
  <2> QED
    BY <1>4, <1>7, <1>13, <2>4, GoesOnMeaning, QuietFacts DEF ReadNegative, Exprtl0After, BehindInteger
<1>14. CASE ReadCompound
  <2> DEFINE f == Frame("args", At, <<>>)
             u == Wanted(v.at + 2, 1200, ArgsContext)
  <2>1. Type(v.at) = "atom" /\ Type(v.at + 1) = "open_ct"
    BY <1>4, <1>14 DEF ReadCompound
  <2>2. /\ f.then = "args" /\ f.token = v.at /\ f.terms = <<>> /\ f.prec = v.prec /\ f.ctx = v.ctx
    BY <1>4 DEF Frame
  <2>3. /\ u = Wanted(u.at, u.prec, u.ctx) /\ u.at = v.at + 2 /\ u.prec = 1200 /\ u.ctx = ArgsContext
    BY DEF Wanted
  <2>4. ForEach(f, Read(v.at + 2, 1200, ArgsContext)) /\ Quietly
    BY <1>4, <1>14 DEF ReadCompound, ArgsContext
  <2> HIDE DEF f, u
  <2>5. v.at + 2 \in 1..n + 1 /\ (v.at + 2) - 1 = v.at + 1
    BY <1>6, <2>1
  <2>6. IsWanted(u)
    <3>1. Introduced(v.at + 2)
      BY <2>1, <2>5 DEF Introduced
    <3> QED
      BY <2>3, <2>5, <3>1, ContextsInside DEF IsWanted
  <2>7. AwaitsFor(R, f, u, v)
    BY <1>2, <2>1, <2>2, <2>3, <2>6 DEF AwaitsFor, ForArgs
  <2> QED
    BY <1>2, <2>3, <2>4, <2>7, ForEachMeaning, QuietFacts
<1>15. CASE ReadEmptyDict
  <2> DEFINE node == Node("dict", v.at + 1, <<Atomic(v.at)>>)
  <2>1. /\ Type(v.at) \in {"var", "atom"}
        /\ IsAtom(v.at + 1, "{}") \/ (Type(v.at) = "atom" /\ v.at + 1 \in braced)
    BY <1>4, <1>15 DEF ReadEmptyDict, BeforeEmptyDict
  <2>2. v.at + 1 \in braced => /\ Type(v.at + 1) = "open_curly"
                               /\ Type(v.at) = "atom" => Introduces(v.at)
    <3>1. \A b \in braced : Type(b) = "open_curly" /\ Introduced(b)
      BY DEF MeansNow, IsMeant, Marked
    <3>2. v.at + 1 > 1 /\ (v.at + 1) - 1 = v.at
      BY <1>2
    <3> QED
      BY <3>1, <3>2 DEF Introduced
  <2>3. Type(v.at + 1) \in {"atom", "open_curly"} /\ Type(v.at) \in AtomicType
    BY <2>1, <2>2, TypeNames
  <2>4. v.at \in 1..n - 1 /\ v.at + 2 \in v.at + 1..n + 1
    BY <1>2, <1>6, <2>3, TypeNames
  <2>5. IsAtom(v.at + 1, "{}") \/ TakenForEmpty(v.at, AllLiberties)
    BY <2>1, <2>2 DEF TakenForEmpty, AllLiberties
  <2>6. IsName(v.at)
    BY <2>1 DEF IsName
  <2>7. Has(R, v.at, v.at + 2, v.ctx, <<0, node>>)
    BY <1>2, <2>4, <2>5, <2>6 DEF Closed, EmptyDictRule
  <2> HIDE DEF node
  <2>8. Stands(R, Exprtl0(v.at + 2, node, v.prec, v.ctx), v)
    BY <2>4, <2>7, CallsStand
  <2>9. Continues(R, Plainly, frames)
    <3>1. MayTake(v.at)
      BY <2>3 DEF MayTake
    <3> QED
      BY <1>9, <2>3, <3>1
  <2>10. /\ Suspend(Plainly, frames) /\ call' = Exprtl0(v.at + 2, node, v.prec, v.ctx)
         /\ frames' = frames /\ Quietly
    BY <1>4, <1>15 DEF ReadEmptyDict, Exprtl0After, node
  <2> QED
    BY <1>7, <2>8, <2>9, <2>10, SuspendsMeaning, QuietFacts
<1>16. CASE ReadDict
  <2> DEFINE f == Frame("key", At + 1, <<Atomic(At)>>)
             u == Wanted(v.at + 2, 1200, KeyContext(v.ctx))
  <2>1. Type(v.at) \in {"var", "atom"} /\ Type(v.at + 1) = "open_curly"
    BY <1>4, <1>16 DEF ReadDict
  <2>2. /\ f.then = "key" /\ f.token = v.at + 1 /\ f.terms = <<Atomic(v.at)>>
        /\ f.prec = v.prec /\ f.ctx = v.ctx
    BY <1>4 DEF Frame
  <2>3. /\ u = Wanted(u.at, u.prec, u.ctx) /\ u.at = v.at + 2 /\ u.prec = 1200 /\ u.ctx = KeyContext(v.ctx)
    BY DEF Wanted
  <2>4. First(f, Read(v.at + 2, 1200, KeyContext(v.ctx)), frames) /\ Quietly
    <3>1. call.ctx \cup {"colon", "comma"} = KeyContext(v.ctx)
      BY <1>4 DEF KeyContext
    <3> QED
      BY <1>4, <1>16, <3>1 DEF ReadDict
  <2> HIDE DEF f, u
  <2>5. v.at + 2 \in 1..n + 1 /\ (v.at + 2) - 1 = v.at + 1
    BY <1>6, <2>1
  <2>6. IsWanted(u)
    <3>1. Introduced(v.at + 2)
      BY <2>1, <2>5 DEF Introduced
    <3> QED
      BY <1>2, <2>3, <2>5, <3>1, ContextsInside DEF IsWanted
  <2>7. AwaitsFor(R, f, u, v)
    <3>1. IsName(v.at)
      BY <2>1 DEF IsName
    <3> QED
      BY <1>2, <2>1, <2>2, <2>3, <2>6, <3>1 DEF AwaitsFor, ForKey
  <2> QED
    BY <1>2, <2>3, <2>4, <2>7, FirstMeaning, QuietFacts
<1>17. CASE ReadBracketed
  <2>1. ASSUME NEW then, NEW prec, NEW ctx, NEW f, f = Frame(then, At, <<>>),
               ForEach(f, Read(At + 1, prec, ctx)),
               Type(v.at) \in {"open_list", "open", "open_ct", "open_curly"},
               prec \in Nat, ctx \in Contexts,
               \A u : u = Wanted(v.at + 1, prec, ctx) /\ f.then = then /\ f.token = v.at /\ f.terms = <<>>
                         => ForItems(R, f, u, v) \/ ForBracket(f, u, v)
        PROVE  MeansNext(R)
    <3> DEFINE u == Wanted(v.at + 1, prec, ctx)
    <3>1. /\ f.then = then /\ f.token = v.at /\ f.terms = <<>> /\ f.prec = v.prec /\ f.ctx = v.ctx
      BY <1>4, <2>1 DEF Frame
    <3>2. /\ u = Wanted(u.at, u.prec, u.ctx) /\ u.at = v.at + 1 /\ u.prec = prec /\ u.ctx = ctx
      BY DEF Wanted
    <3>3. ForItems(R, f, u, v) \/ ForBracket(f, u, v)
      BY <2>1, <3>1
    <3> HIDE DEF u
    <3>4. v.at + 1 \in 1..n + 1 /\ (v.at + 1) - 1 = v.at
      BY <1>5, <2>1
    <3>5. IsWanted(u)
      <4>1. Introduced(v.at + 1)
        BY <2>1, <3>4 DEF Introduced
      <4> QED
        BY <2>1, <3>2, <3>4, <4>1 DEF IsWanted
    <3>6. AwaitsFor(R, f, u, v)
      BY <1>2, <3>1, <3>3, <3>5 DEF AwaitsFor
    <3>7. UNCHANGED <<infix, postfix, braced, last>>
      BY <1>17, QuietFacts DEF ReadBracketed
    <3>8. ForEach(f, Read(u.at, u.prec, u.ctx))
      BY <1>4, <2>1, <3>2
    <3> QED
      BY <1>2, <3>6, <3>7, <3>8, ForEachMeaning
  <2>2. CASE Type(At) = "open_list" /\ ForEach(Frame("list", At, <<>>), Read(At + 1, 999, {"bar", "comma"}))
    <3>1. {"bar", "comma"} = ListContext /\ ListContext \in Contexts
      BY ContextsInside DEF ListContext
    <3>2. PICK f : f = Frame("list", At, <<>>)
      OBVIOUS
    <3>3. ASSUME NEW u, u = Wanted(v.at + 1, 999, ListContext), f.then = "list", f.token = v.at, f.terms = <<>>
          PROVE  ForItems(R, f, u, v)
      <4>1. u.at = v.at + 1 /\ u.prec = 999 /\ u.ctx = ListContext
        BY <3>3 DEF Wanted
      <4> QED
        BY <1>4, <2>2, <3>3, <4>1 DEF ForItems
    <3>4. Type(v.at) \in {"open_list", "open", "open_ct", "open_curly"} /\ 999 \in Nat
      BY <1>4, <2>2
    <3>5. ForEach(f, Read(At + 1, 999, ListContext))
      BY <2>2, <3>1, <3>2
    <3> QED
      BY <2>1, <3>1, <3>2, <3>3, <3>4, <3>5
  <2>3. ASSUME NEW then \in {"paren", "curly"}, ForEach(Frame(then, At, <<>>), Read(At + 1, 1200, {})),
               then = "paren" => Type(At) \in {"open", "open_ct"},
               then = "curly" => Type(At) = "open_curly"
        PROVE  MeansNext(R)
    <3>1. PICK f : f = Frame(then, At, <<>>)
      OBVIOUS
    <3>2. ASSUME NEW u, u = Wanted(v.at + 1, 1200, {}), f.then = then, f.token = v.at, f.terms = <<>>
          PROVE  ForBracket(f, u, v)
      BY <1>4, <2>3, <3>2 DEF ForBracket
    <3>3. Type(v.at) \in {"open_list", "open", "open_ct", "open_curly"} /\ 1200 \in Nat
      BY <1>4, <2>3
    <3> QED
      BY <2>1, <2>3, <3>1, <3>2, <3>3, ContextsInside
  <2> QED
    BY <1>17, <2>2, <2>3 DEF ReadBracketed
<1>18. CASE CannotStart
  BY <1>18, GoesOnMeaning, FailsMeaning, ReportFacts DEF CannotStart
<1> QED
  BY <1>10, <1>11, <1>12, <1>13, <1>14, <1>15, <1>16, <1>17, <1>18 DEF read

\* A step that annotates tokens.
LEMMA StaysMarked ==
    ASSUME NEW R, MeansNow(R), Continues(R, call', frames'), ChoicesContinue(R, choices'),
           Marked(infix', postfix', braced'), last' = last
    PROVE  MeansNext(R)
BY DEF MeansNow, MeansNext, IsMeant

\* The turns of peepop.
LEMMA TwoTurns ==
    ASSUME NEW a, NEW b, NEW s, s = <<a>> \o <<b>>
    PROVE  Len(s) = 2 /\ s[1] = a /\ s[2] = b
<1>1. <<a>> \in Seq({a, b}) /\ <<b>> \in Seq({a, b}) /\ Len(<<a>>) = 1 /\ Len(<<b>>) = 1
  OBVIOUS
<1>2. Len(s) = 2
  BY <1>1
<1>3. s[1] = a
  BY <1>1
<1>4. s[2] = b
  BY <1>1
<1> QED
  BY <1>2, <1>3, <1>4

\* A turn of peepop is for what the operator is.
LEMMA TurnNames ==
    ASSUME NEW i, NEW turn \in Nat \ {0}, turn <= Len(Turns(i))
    PROVE  /\ Turns(i)[turn] = "infix" => IsInfix(i)
           /\ Turns(i)[turn] = "postfix" => IsPostfix(i)
<1>1. CASE Type(i) # "atom" \/ Type(i + 1) = "open_ct"
  <2>1. Turns(i) = <<"plain">>
    BY <1>1 DEF Turns
  <2>2. turn = 1
    BY <2>1
  <2> QED
    BY <2>1, <2>2
<1>2. CASE ~ (Type(i) # "atom" \/ Type(i + 1) = "open_ct")
  <2>1. CASE IsInfix(i) /\ IsPostfix(i)
    BY <2>1
  <2>2. CASE IsInfix(i) /\ ~ IsPostfix(i)
    <3>1. Turns(i) = <<"infix">> \o <<>> \o <<"plain">>
      BY <1>2, <2>2 DEF Turns
    <3>2. <<"infix">> \o <<>> = <<"infix">>
      OBVIOUS
    <3>3. Len(Turns(i)) = 2 /\ Turns(i)[1] = "infix" /\ Turns(i)[2] = "plain"
      BY <3>1, <3>2, TwoTurns
    <3>4. turn \in {1, 2}
      BY <3>3
    <3> QED
      BY <2>2, <3>3, <3>4
  <2>3. CASE ~ IsInfix(i) /\ IsPostfix(i)
    <3>1. Turns(i) = <<>> \o <<"postfix">> \o <<"plain">>
      BY <1>2, <2>3 DEF Turns
    <3>2. <<>> \o <<"postfix">> = <<"postfix">>
      OBVIOUS
    <3>3. Len(Turns(i)) = 2 /\ Turns(i)[1] = "postfix" /\ Turns(i)[2] = "plain"
      BY <3>1, <3>2, TwoTurns
    <3>4. turn \in {1, 2}
      BY <3>3
    <3> QED
      BY <2>3, <3>3, <3>4
  <2>4. CASE ~ IsInfix(i) /\ ~ IsPostfix(i)
    <3>1. Turns(i) = <<>> \o <<>> \o <<"plain">>
      BY <1>2, <2>4 DEF Turns
    <3>2. <<>> \o <<>> = <<>> /\ <<>> \o <<"plain">> = <<"plain">>
      OBVIOUS
    <3>3. Turns(i) = <<"plain">>
      BY <3>1, <3>2
    <3>4. turn = 1 /\ Turns(i)[1] = "plain"
      BY <3>3
    <3> QED
      BY <3>4
  <2> QED
    BY <2>1, <2>2, <2>3, <2>4
<1> QED
  BY <1>1, <1>2

\* A token is annotated as what it is only.
LEMMA AnnotateMarks ==
    ASSUME NEW R, MeansNow(R), NEW i, NEW turn \in Nat \ {0}, turn <= Len(Turns(i)),
           Annotate(i, turn), braced' = braced
    PROVE  Marked(infix', postfix', braced')
<1> DEFINE now    == Turns(i)[turn]
           before == IF turn > 1 THEN Turns(i)[turn - 1] ELSE "none"
<1>1. /\ infix' = CASE now = "infix" -> infix \cup {i}
                    [] now = "postfix" \/ before = "infix" -> infix \ {i}
                    [] OTHER -> infix
      /\ postfix' = CASE now = "postfix" -> postfix \cup {i}
                      [] before = "postfix" -> postfix \ {i}
                      [] OTHER -> postfix
  BY DEF Annotate
<1>2. /\ now = "infix" => IsInfix(i)
      /\ now = "postfix" => IsPostfix(i)
  BY TurnNames
<1> HIDE DEF now, before
<1>3. \A j \in infix' : j \in infix \/ (j = i /\ IsInfix(i))
  BY <1>1, <1>2
<1>4. \A j \in postfix' : j \in postfix \/ (j = i /\ IsPostfix(i))
  BY <1>1, <1>2
<1>5. Marked(infix, postfix, braced)
  BY DEF MeansNow, IsMeant
<1> QED
  BY <1>3, <1>4, <1>5 DEF Marked

\* A single token as a term.
LEMMA SingleMeans ==
    ASSUME NEW R, Closed(R), NEW i \in 1..Len(tokens), NEW ctx \in Contexts, Type(i) = "atom"
    PROVE  Has(R, i, i + 1, ctx, <<0, Atomic(i)>>)
BY TypeNames DEF Closed, SingleRule

\* A call of atom: the operators in front of their operands, and the names of what has brackets.
LEMMA atomMeans ==
    ASSUME NEW R, Closed(R), IInv, MeansNow(R), atom
    PROVE  MeansNext(R)
<1> DEFINE n == Len(tokens)
<1>1. call.fn = "atom" /\ Reads(call)
  BY DEF atom, Runs, Reads
<1>2. PICK v : /\ AwaitAll(R, frames, v) /\ Stands(R, call, v)
               /\ IsWanted(v) /\ v.at \in 1..n + 1 /\ v.prec \in Nat /\ v.ctx \in Contexts
  BY <1>1, Standing
<1>3. /\ n \in Nat \ {0} /\ \A i \in Nat : Type(i) # "none" => i <= n
  BY <1>1, Standing
<1>4. At = v.at /\ call.prec = v.prec /\ call.ctx = v.ctx /\ Type(v.at) = "atom" /\ MayTake(v.at)
  BY <1>1, <1>2 DEF Stands, Asks, At
<1>5. v.at \in 1..n /\ v.at + 1 \in v.at + 1..n + 1
  BY <1>2, <1>3, <1>4
<1>6. Continues(R, Exprtl0(v.at + 1, Atomic(v.at), v.prec, v.ctx), frames)
  <2>1. Has(R, v.at, v.at + 1, v.ctx, <<0, Atomic(v.at)>>)
    BY <1>2, <1>4, <1>5, SingleMeans
  <2> QED
    BY <1>2, <1>5, <2>1, CallsStand DEF Continues
<1>7. CASE IsPrefix(At)
  <2>1. /\ Suspend(Exprtl0(v.at + 1, Atomic(v.at), v.prec, v.ctx), frames)
        /\ call' = AfterPrefixOp(v.at + 1, 1, v.prec, v.ctx) /\ frames' = frames /\ Quietly
    BY <1>4, <1>7 DEF atom, Exprtl0After
  <2>2. Continues(R, AfterPrefixOp(v.at + 1, 1, v.prec, v.ctx), frames)
    BY <1>2, <1>4, <1>7, CallsStand DEF Continues
  <2> QED
    BY <1>6, <2>1, <2>2, SuspendsMeaning, QuietFacts
<1>8. CASE ~ IsPrefix(At)
  <2>1. GoOn(Exprtl0(v.at + 1, Atomic(v.at), v.prec, v.ctx)) /\ Quietly
    BY <1>4, <1>8 DEF atom, Exprtl0After
  <2> QED
    BY <1>6, <2>1, GoesOnMeaning, QuietFacts
<1> QED
  BY <1>7, <1>8

\* A call behind a prefix operator: its operand, or the operator alone.
LEMMA after_prefix_opMeans ==
    ASSUME NEW R, Closed(R), IInv, MeansNow(R), after_prefix_op
    PROVE  MeansNext(R)
<1> DEFINE n == Len(tokens)
<1>1. call.fn = "after_prefix_op" /\ Reads(call)
  BY DEF after_prefix_op, Runs, Reads
<1>2. PICK v : /\ AwaitAll(R, frames, v) /\ Stands(R, call, v)
               /\ IsWanted(v) /\ v.at \in 1..n + 1 /\ v.prec \in Nat /\ v.ctx \in Contexts
  BY <1>1, Standing
<1>3. /\ n \in Nat \ {0} /\ \A i \in Nat : Type(i) # "none" => i <= n
      /\ \A i \in 1..n : IsNamed(i)
  BY <1>1, Standing
<1>4. /\ At = v.at + 1 /\ call.prec = v.prec /\ call.ctx = v.ctx
      /\ IsPrefix(v.at) /\ MayTake(v.at) /\ Type(v.at) = "atom"
  BY <1>1, <1>2, TypeNames DEF Stands, Asks, At
<1>5. v.at \in 1..n /\ v.at + 1 \in v.at + 1..n + 1 /\ At - 1 = v.at
  BY <1>2, <1>3, <1>4
<1>6. Prefix(v.at).opPrec \in 1..1200 /\ Prefix(v.at).rPrec \in 0..Prefix(v.at).opPrec
  BY <1>3, <1>4, <1>5, Strengths
<1>7. \A turn : Continues(R, AfterPrefixOp(v.at + 1, turn, v.prec, v.ctx), frames)
  BY <1>2, <1>4, CallsStand DEF Continues
<1>8. CASE PrefixOutOfPlace
  BY <1>8, GoesOnMeaning, FailsMeaning, ReportFacts DEF PrefixOutOfPlace
<1>9. CASE PrefixAsAtom
  <2> DEFINE next_ == AfterPrefixOp(At, call.turn + 1, call.prec, call.ctx)
             left == Prefix(v.at).opPrec
             c == Exprtl(v.at + 1, left, Atomic(v.at), v.prec, v.ctx)
  <2>1. call.turn \in Nat \ {0}
    BY <1>1, Here DEF CallOK
  <2>2. call.turn <= Len(Turns(At)) /\ Annotate(At, call.turn) /\ braced' = braced /\ last' = last
    BY <1>9 DEF PrefixAsAtom
  <2>3. Marked(infix', postfix', braced')
    BY <2>1, <2>2, AnnotateMarks
  <2>4. Continues(R, next_, frames)
    BY <1>4, <1>7
  <2>5. Continues(R, c, frames)
    <3>1. Has(R, v.at, v.at + 1, v.ctx, <<0, Atomic(v.at)>>)
      BY <1>2, <1>4, <1>5, SingleMeans
    <3>2. PICK r : r = <<0, Atomic(v.at)>>
      OBVIOUS
    <3>3. r[1] = 0 /\ r[2] = Atomic(v.at)
      BY <3>2
    <3>4. left <= v.prec /\ left \in Nat
      <4>1. call.prec >= Prefix(At - 1).opPrec
        BY <1>9 DEF PrefixAsAtom
      <4>2. v.prec >= left
        BY <1>4, <1>5, <4>1
      <4> HIDE DEF left
      <4>3. left \in Nat
        BY <1>6 DEF left
      <4> QED
        BY <1>2, <4>2, <4>3
    <3>5. Follows(r, left, v.at + 1, v)
      BY <1>4, <3>3, <3>4 DEF Follows, IsOperation
    <3>6. Stands(R, c, v)
      BY <1>2, <1>5, <3>1, <3>2, <3>3, <3>5, ExprtlStands
    <3> QED
      BY <1>2, <3>6 DEF Continues
  <2>6. \/ call' = c /\ Suspend(next_, frames) /\ frames' = frames
        \/ GoOn(next_)
    BY <1>4, <1>5, <1>9 DEF PrefixAsAtom
  <2> HIDE DEF next_, c
  <2>7. IsSeq(choices) /\ ChoicesContinue(R, choices)
    BY DEF IInv, Sound, ChoicesOK, MeansNow, IsMeant
  <2>8. ChoicesContinue(R, Append(choices, [call |-> next_, frames |-> frames]))
    BY <2>4, <2>7, SuspendedToo
  <2> QED
    BY <2>2, <2>3, <2>4, <2>5, <2>6, <2>7, <2>8, StaysMarked DEF Suspend, GoOn
<1>10. CASE PrefixWithOperand
  <2> DEFINE f == Frame("prefix", At - 1, <<>>)
             u == Wanted(v.at + 1, Prefix(v.at).rPrec, v.ctx)
  <2>1. /\ f.then = "prefix" /\ f.token = v.at /\ f.terms = <<>> /\ f.prec = v.prec /\ f.ctx = v.ctx
    BY <1>4, <1>5 DEF Frame
  <2>2. /\ u = Wanted(u.at, u.prec, u.ctx) /\ u.at = v.at + 1 /\ u.prec = Prefix(v.at).rPrec /\ u.ctx = v.ctx
    BY DEF Wanted
  <2>3. ForEach(f, Read(v.at + 1, Prefix(v.at).rPrec, v.ctx)) /\ Quietly /\ Prefix(v.at).opPrec <= v.prec
    BY <1>4, <1>5, <1>6, <1>10 DEF PrefixWithOperand
  <2> HIDE DEF f
  <2>4. ForPrefix(f, u, v)
    BY <1>4, <2>1, <2>3 DEF ForPrefix
  <2> HIDE DEF u
  <2>5. IsWanted(u)
    <3>1. Introduced(v.at + 1)
      BY <1>4, <1>5 DEF Introduced, Introduces
    <3>2. u.at \in 1..n + 1 /\ u.prec \in Nat
      BY <1>5, <1>6, <2>2
    <3> QED
      BY <1>2, <2>2, <3>1, <3>2 DEF IsWanted
  <2>6. AwaitsFor(R, f, u, v)
    BY <1>2, <2>1, <2>4, <2>5 DEF AwaitsFor
  <2> QED
    BY <1>2, <2>2, <2>3, <2>6, ForEachMeaning, QuietFacts
<1> QED
  BY <1>8, <1>9, <1>10 DEF after_prefix_op

\* An operator or separator that waits for what is on its right.
LEMMA InfixAwaits ==
    ASSUME NEW R, IInv, NEW v, IsWanted(v), NEW k \in v.at + 1..Len(tokens), IsNamed(k),
           IsBetween(k), Fixity(k).opPrec <= v.prec,
           NEW l \in R[<<v.at, k>>].terms[v.ctx], IsLeft(l, v.at, k, v.ctx),
           NEW f, f.then = "infix", f.token = k, f.terms = <<l[2]>>, f.prec = v.prec, f.ctx = v.ctx
    PROVE  LET u == Wanted(k + 1, Fixity(k).rPrec, v.ctx) IN
               AwaitsFor(R, f, u, v) /\ u.at = k + 1 /\ u.prec = RightPrec(k) /\ u.ctx = v.ctx
<1> DEFINE u == Wanted(k + 1, Fixity(k).rPrec, v.ctx)
<1>1. /\ u = Wanted(u.at, u.prec, u.ctx)
      /\ u.at = k + 1 /\ u.prec = Fixity(k).rPrec /\ u.ctx = v.ctx
  BY DEF Wanted
<1>2. ForInfix(R, f, u, v)
  BY DEF ForInfix
<1> HIDE DEF u
<1>3. Len(tokens) \in Nat /\ v.at \in 1..Len(tokens) + 1 /\ v.ctx \in Contexts
  BY Here DEF IsWanted
<1>4. k + 1 \in 1..Len(tokens) + 1 /\ (k + 1) - 1 = k
  BY <1>3
<1>5. /\ Fixity(k).opPrec \in 1..1200 /\ Fixity(k).rPrec \in 0..Fixity(k).opPrec
      /\ RightPrec(k) = Fixity(k).rPrec
  BY Strengths
<1>6. Introduced(k + 1)
  BY <1>4 DEF Introduced, Introduces, IsBetween
<1>7. u.prec \in Nat /\ u.at \in 1..Len(tokens) + 1
  BY <1>1, <1>4, <1>5
<1>8. IsWanted(u)
  BY <1>1, <1>3, <1>6, <1>7 DEF IsWanted
<1>9. AwaitsFor(R, f, u, v)
  BY <1>2, <1>8 DEF AwaitsFor
<1> QED
  BY <1>1, <1>5, <1>9

\* A call of exprtl0: the infix operator, postfix operator or separator behind a simple term.
LEMMA exprtl0Means ==
    ASSUME NEW R, Closed(R), IInv, MeansNow(R), exprtl0
    PROVE  MeansNext(R)
<1> DEFINE n == Len(tokens)
<1>1. call.fn = "exprtl0" /\ Reads(call)
  BY DEF exprtl0, Runs, Reads
<1>2. PICK v : /\ AwaitAll(R, frames, v) /\ Stands(R, call, v)
               /\ IsWanted(v) /\ v.at \in 1..n + 1 /\ v.prec \in Nat /\ v.ctx \in Contexts
  BY <1>1, Standing
<1>3. /\ n \in Nat \ {0} /\ \A i \in Nat : Type(i) # "none" => i <= n
      /\ \A i \in 1..n : IsNamed(i)
  BY <1>1, Standing
<1>4. /\ call.prec = v.prec /\ call.ctx = v.ctx
      /\ At \in v.at + 1..n + 1 /\ Has(R, v.at, At, v.ctx, <<0, call.term>>)
  BY <1>1, <1>2 DEF Stands, Asks, At
<1>5. PICK r : r = <<0, call.term>>
  OBVIOUS
<1>6. r[1] = 0 /\ r[2] = call.term /\ r \in R[<<v.at, At>>].terms[v.ctx]
  BY <1>4, <1>5 DEF Has
<1>7. ASSUME SeparatorTaken(At, v)
      PROVE  Continues(R, Yield(At, call.term), frames)
  <2>1. Some(R, v.at, At, v.ctx, v.prec, call.term)
    BY <1>2, <1>6 DEF Some
  <2> QED
    BY <1>2, <1>4, <1>7, <2>1, CallsStand DEF Continues
<1>8. CASE (Type(At) = "none" \/ Terminates(At, call.ctx)) /\ GoOn(Yield(At, call.term)) /\ Quietly
  <2>1. SeparatorTaken(At, v)
    BY <1>4, <1>8 DEF SeparatorTaken
  <2> QED
    BY <1>7, <1>8, <2>1, GoesOnMeaning, QuietFacts
<1>9. CASE /\ IsOperator(At) /\ ~ Terminates(At, call.ctx)
           /\ call' = Following
           /\ IF IsInfix(At) THEN AsInfix
              ELSE postfix' = postfix \cup {At} /\ UNCHANGED infix
           /\ IF IsInfix(At) /\ IsPostfix(At)
              THEN Suspend(Ambigop(At, call.term, call.prec, call.ctx), frames)
              ELSE UNCHANGED choices
           /\ UNCHANGED <<tokens, frames, braced, errors, last>>
  <2> DEFINE a == Ambigop(At, call.term, v.prec, v.ctx)
  <2>1. Follows(r, 0, At, v)
    BY <1>2, <1>4, <1>6, <1>9 DEF Follows
  <2>2. Stands(R, Following, v)
    BY <1>2, <1>4, <1>6, <2>1, ExprtlStands DEF Following, Has
  <2>3. Continues(R, call', frames')
    BY <1>2, <1>9, <2>2 DEF Continues
  <2>4. IsPostfix(At) => Continues(R, a, frames)
    BY <1>2, <1>4, <1>9, CallsStand DEF Continues
  <2>5. choices' = choices \/ (IsPostfix(At) /\ choices' = Append(choices, [call |-> a, frames |-> frames]))
    BY <1>4, <1>9 DEF Suspend
  <2> HIDE DEF a
  <2>6. ChoicesContinue(R, choices')
    <3>1. IsSeq(choices) /\ ChoicesContinue(R, choices)
      BY DEF IInv, Sound, ChoicesOK, MeansNow, IsMeant
    <3> QED
      BY <2>4, <2>5, <3>1, SuspendedToo
  <2>7. Marked(infix', postfix', braced')
    <3>1. Marked(infix, postfix, braced)
      BY DEF MeansNow, IsMeant
    <3>2. \A i \in infix' : i \in infix \/ (i = At /\ IsInfix(At))
      BY <1>9 DEF AsInfix
    <3>3. \A i \in postfix' : i \in postfix \/ (i = At /\ IsPostfix(At))
      BY <1>9 DEF AsInfix, IsOperator
    <3>4. braced' = braced
      BY <1>9
    <3> QED
      BY <3>1, <3>2, <3>3, <3>4 DEF Marked
  <2> QED
    BY <1>9, <2>3, <2>6, <2>7, StaysMarked
<1>10. CASE /\ IsSeparator(At) /\ ~ Terminates(At, call.ctx)
            /\ First(Frame("infix", At, <<call.term>>),
                     Read(At + 1, OpPrec(At), call.ctx), frames)
            /\ Quietly
  <2> DEFINE f == Frame("infix", At, <<call.term>>)
  <2>1. /\ f.then = "infix" /\ f.token = At /\ f.terms = <<call.term>> /\ f.prec = v.prec /\ f.ctx = v.ctx
    BY <1>4 DEF Frame
  <2>2. First(f, Read(At + 1, OpPrec(At), v.ctx), frames) /\ Quietly
    BY <1>4, <1>10
  <2> HIDE DEF f
  <2>3. Type(At) \in {"comma", "ht_sep"} /\ OpPrec(At) <= v.prec /\ ~ Terminates(At, v.ctx)
    BY <1>4, <1>10 DEF IsSeparator, OpPrec
  <2>4. At \in v.at + 1..n /\ IsNamed(At)
    BY <1>2, <1>3, <1>4, <2>3
  <2>5. /\ IsBetween(At) /\ Fixity(At).opPrec = OpPrec(At)
        /\ Fixity(At).opPrec \in 1..1200 /\ Fixity(At).lPrec \in 0..Fixity(At).opPrec
        /\ RightPrec(At) = OpPrec(At)
    BY <2>3, <2>4, Strengths DEF IsBetween, RightPrec
  <2>6. IsLeft(r, v.at, At, v.ctx)
    BY <1>6, <2>3, <2>5 DEF IsLeft
  <2>7. PICK u : u = Wanted(At + 1, Fixity(At).rPrec, v.ctx)
    OBVIOUS
  <2>8. AwaitsFor(R, f, u, v) /\ u.at = At + 1 /\ u.prec = OpPrec(At) /\ u.ctx = v.ctx
    BY <1>2, <1>6, <2>1, <2>3, <2>4, <2>5, <2>6, <2>7, InfixAwaits
  <2> QED
    BY <1>2, <2>2, <2>8, FirstMeaning, QuietFacts
<1>11. CASE ReportAt(At) /\ GoOn(Fail)
  BY <1>11, GoesOnMeaning, FailsMeaning, ReportFacts
<1>12. CASE /\ Type(At) # "none" /\ ~ Terminates(At, call.ctx)
            /\ ~ (CannotFollow(At) \/ IsSeparator(At))
            /\ GoOn(Yield(At, call.term))
            /\ Quietly
  <2>1. SeparatorTaken(At, v)
    <3>1. SUFFICES ASSUME Type(At) \in {"comma", "ht_sep"}, v.prec = Fixity(At).opPrec
                   PROVE  FALSE
      BY DEF SeparatorTaken
    <3>2. OpPrec(At) = Fixity(At).opPrec
      BY <3>1 DEF OpPrec, Fixity
    <3>3. IsSeparator(At)
      BY <1>2, <1>4, <3>1, <3>2 DEF IsSeparator
    <3> QED
      BY <1>12, <3>3
  <2> QED
    BY <1>7, <1>12, <2>1, GoesOnMeaning, QuietFacts
<1> QED
  BY <1>8, <1>9, <1>10, <1>11, <1>12 DEF exprtl0

\* A call of ambigop: an operator that is infix and postfix.
LEMMA ambigopMeans ==
    ASSUME NEW R, Closed(R), IInv, MeansNow(R), ambigop
    PROVE  MeansNext(R)
<1> DEFINE n == Len(tokens)
<1>1. call.fn = "ambigop" /\ Reads(call)
  BY DEF ambigop, Runs, Reads
<1>2. PICK v : /\ AwaitAll(R, frames, v) /\ Stands(R, call, v)
               /\ IsWanted(v) /\ v.at \in 1..n + 1 /\ v.prec \in Nat /\ v.ctx \in Contexts
  BY <1>1, Standing
<1>3. /\ call.prec = v.prec /\ call.ctx = v.ctx
      /\ At \in v.at + 1..n + 1 /\ Has(R, v.at, At, v.ctx, <<0, call.term>>)
      /\ IsPostfix(At) /\ ~ Terminates(At, v.ctx)
  BY <1>1, <1>2 DEF Stands, Asks, At
<1>4. PICK r : r = <<0, call.term>>
  OBVIOUS
<1>5. r[1] = 0 /\ r[2] = call.term
  BY <1>4
<1>6. Follows(r, 0, At, v)
  BY <1>2, <1>3, <1>5 DEF Follows
<1>7. Stands(R, Following, v)
  BY <1>2, <1>3, <1>4, <1>5, <1>6, ExprtlStands DEF Following
<1>8. Continues(R, call', frames') /\ choices' = choices
  BY <1>2, <1>7 DEF ambigop, GoOn, Continues
<1>9. Marked(infix', postfix', braced') /\ last' = last
  BY <1>3 DEF MeansNow, IsMeant, ambigop, AsPostfix, Marked
<1>10. ChoicesContinue(R, choices')
  BY <1>8 DEF MeansNow, IsMeant
<1> QED
  BY <1>8, <1>9, <1>10, StaysMarked

\* A call of exprtl: what may follow an operation.
LEMMA exprtlMeans ==
    ASSUME NEW R, Closed(R), IInv, MeansNow(R), exprtl
    PROVE  MeansNext(R)
<1> DEFINE n == Len(tokens)
<1>1. call.fn = "exprtl" /\ Reads(call)
  BY DEF exprtl, Runs, Reads
<1>2. PICK v : /\ AwaitAll(R, frames, v) /\ Stands(R, call, v)
               /\ IsWanted(v) /\ v.at \in 1..n + 1 /\ v.prec \in Nat /\ v.ctx \in Contexts
  BY <1>1, Standing
<1>3. /\ n \in Nat \ {0} /\ \A i \in Nat : Type(i) # "none" => i <= n
      /\ \A i \in 1..n : IsNamed(i)
  BY <1>1, Standing
<1>4. /\ call.prec = v.prec /\ call.ctx = v.ctx /\ At \in v.at + 1..n + 1
      /\ ReadSoFar(R, call, v)
  BY <1>1, <1>2 DEF Stands, Asks, At
<1>5. PICK r \in R[<<v.at, At>>].terms[v.ctx] :
        /\ r[1] \in 0..call.left /\ call.left <= v.prec /\ r[2] = call.term
        /\ call.left \in Nat
        /\ Terminates(At, v.ctx) => IsOperation(r, v.at)
        /\ r[1] > 0 /\ Type(At) \in {"comma", "ht_sep"}
               => Terminates(At, v.ctx) \/ Type(r[2][2]) # Type(At)
  BY <1>4 DEF ReadSoFar, At
<1>6. Marked(infix, postfix, braced)
  BY DEF MeansNow, IsMeant
<1>7. ~ Terminates(At, v.ctx) \/ GoesPast(r, v.at, AllLiberties)
  BY <1>5 DEF GoesPast, AllLiberties
<1>8. ASSUME TakesInfix(At) \/ TakesSeparator(At),
             ForEach(Frame("infix", At, <<call.term>>), Read(At + 1, RightPrec(At), call.ctx)),
             Quietly
      PROVE  MeansNext(R)
  <2> DEFINE f == Frame("infix", At, <<call.term>>)
  <2>1. /\ f.then = "infix" /\ f.token = At /\ f.terms = <<call.term>> /\ f.prec = v.prec /\ f.ctx = v.ctx
    BY <1>4 DEF Frame
  <2>2. ForEach(f, Read(At + 1, RightPrec(At), v.ctx))
    BY <1>4, <1>8
  <2> HIDE DEF f
  <2>3. TakesInfix(At) => IsInfix(At)
    BY <1>6 DEF TakesInfix, Marked
  <2>4. IsBetween(At) /\ Type(At) # "none"
    BY <1>8, <2>3, TypeNames DEF IsBetween, TakesSeparator, IsSeparator
  <2>5. At \in v.at + 1..n /\ IsNamed(At)
    BY <1>2, <1>3, <1>4, <2>4
  <2>6. /\ Fixity(At).opPrec \in 1..1200 /\ Fixity(At).lPrec \in 0..Fixity(At).opPrec
        /\ OpPrec(At) = Fixity(At).opPrec
    BY <2>4, <2>5, Strengths
  <2>7. Fixity(At).opPrec <= v.prec /\ IsLeft(r, v.at, At, v.ctx)
    <3>1. CASE TakesInfix(At)
      <4>1. Fixity(At) = Infix(At)
        BY <2>3, <2>5, <3>1, Strengths
      <4>2. Fixity(At).opPrec <= v.prec /\ call.left <= Fixity(At).lPrec
        BY <1>2, <1>4, <2>6, <3>1, <4>1 DEF TakesInfix
      <4> QED
        BY <1>5, <1>7, <2>6, <4>2 DEF IsLeft
    <3>2. CASE TakesSeparator(At)
      <4>1. Type(At) \in {"comma", "ht_sep"} /\ OpPrec(At) <= v.prec /\ call.left <= OpPrec(At)
        BY <1>2, <1>4, <2>6, <3>2 DEF TakesSeparator, IsSeparator
      <4>2. r[1] <= Fixity(At).opPrec
        BY <1>5, <2>6, <4>1
      <4>3. r[1] <= Fixity(At).lPrec \/ IsAsStrong(r, At, v.ctx, AllLiberties)
        <5>1. CASE r[1] = 0
          BY <2>6, <5>1
        <5>2. CASE r[1] > 0
          BY <1>5, <4>1, <5>2 DEF IsAsStrong, AllLiberties
        <5> QED
          BY <1>5, <5>1, <5>2
      <4> QED
        BY <1>7, <2>6, <4>1, <4>2, <4>3 DEF IsLeft
    <3> QED
      BY <1>8, <3>1, <3>2
  <2>8. PICK u : u = Wanted(At + 1, Fixity(At).rPrec, v.ctx)
    OBVIOUS
  <2>9. AwaitsFor(R, f, u, v) /\ u.at = At + 1 /\ u.prec = RightPrec(At) /\ u.ctx = v.ctx
    BY <1>2, <1>5, <2>1, <2>4, <2>5, <2>7, <2>8, InfixAwaits
  <2> QED
    BY <1>2, <1>8, <2>2, <2>9, ForEachMeaning, QuietFacts
<1>9. ASSUME TakesPostfix(At),
             GoOn(AfterPostfix(At + 1, 1, Node("postfix", At, <<call.term>>), call.prec, call.ctx)),
             Quietly
      PROVE  MeansNext(R)
  <2> DEFINE node == Node("postfix", At, <<call.term>>)
             c == AfterPostfix(At + 1, 1, node, v.prec, v.ctx)
  <2>1. IsPostfix(At) /\ Type(At) = "atom"
    BY <1>6, <1>9, TypeNames DEF TakesPostfix, Marked
  <2>2. At \in v.at + 1..n /\ IsNamed(At) /\ (At + 1) - 1 = At /\ At \in 1..n
    BY <1>2, <1>3, <1>4, <2>1
  <2>3. Postfix(At).opPrec \in 1..1200 /\ Postfix(At).lPrec \in 0..Postfix(At).opPrec
    BY <2>1, <2>2, Strengths
  <2>4. Postfix(At).opPrec <= v.prec /\ call.left <= Postfix(At).lPrec
    BY <1>2, <1>4, <2>3, <1>9 DEF TakesPostfix
  <2>5. Some(R, v.at, At, v.ctx, Postfix(At).lPrec, call.term)
    BY <1>5, <2>3, <2>4 DEF Some
  <2>6. Has(R, v.at, At + 1, v.ctx, <<Postfix(At).opPrec, node>>)
    <3>1. PostfixRule(R) /\ v.at \in 1..n /\ v.at < At
      BY <1>2, <2>2 DEF Closed
    <3> QED
      BY <1>2, <2>1, <2>2, <2>5, <3>1 DEF PostfixRule
  <2>7. node[2] = At
    BY DEF Node
  <2> HIDE DEF node
  <2>8. /\ c.fn = "postfix" /\ c.at = At + 1 /\ c.term = node /\ c.prec = v.prec /\ c.ctx = v.ctx
    BY DEF AfterPostfix
  <2>9. GoOn(c)
    BY <1>4, <1>9 DEF node
  <2> HIDE DEF c
  <2>10. At + 1 \in v.at + 1..n + 1 /\ At > v.at
    BY <1>2, <2>2
  <2>11. Stands(R, c, v)
    BY <2>1, <2>2, <2>4, <2>6, <2>7, <2>8, <2>10 DEF Stands, Asks
  <2> QED
    BY <1>2, <1>9, <2>9, <2>11, GoesOnMeaning, QuietFacts DEF Continues
<1>10. ASSUME ~ TakesSeparator(At), GoOn(Yield(At, call.term)), Quietly
       PROVE  MeansNext(R)
  <2>1. Some(R, v.at, At, v.ctx, v.prec, call.term)
    BY <1>2, <1>5 DEF Some
  <2>2. SeparatorTaken(At, v)
    <3>1. SUFFICES ASSUME Type(At) \in {"comma", "ht_sep"}, v.prec = Fixity(At).opPrec
                   PROVE  FALSE
      BY DEF SeparatorTaken
    <3>2. OpPrec(At) = Fixity(At).opPrec
      BY <3>1 DEF OpPrec, Fixity
    <3>3. IsSeparator(At) /\ call.left <= OpPrec(At)
      BY <1>2, <1>4, <1>5, <3>1, <3>2 DEF IsSeparator
    <3> QED
      BY <1>10, <3>3 DEF TakesSeparator
  <2>3. Continues(R, Yield(At, call.term), frames)
    BY <1>2, <1>4, <2>1, <2>2, CallsStand DEF Continues
  <2> QED
    BY <1>10, <2>3, GoesOnMeaning, QuietFacts
<1> QED
  BY <1>8, <1>9, <1>10 DEF exprtl

\* A call behind a postfix operator.
LEMMA postfix_operatorMeans ==
    ASSUME NEW R, Closed(R), IInv, MeansNow(R), postfix_operator
    PROVE  MeansNext(R)
<1> DEFINE n == Len(tokens)
<1>1. call.fn = "postfix" /\ Reads(call)
  BY DEF postfix_operator, Runs, Reads
<1>2. PICK v : /\ AwaitAll(R, frames, v) /\ Stands(R, call, v)
               /\ IsWanted(v) /\ v.at \in 1..n + 1 /\ v.prec \in Nat /\ v.ctx \in Contexts
  BY <1>1, Standing
<1>3. /\ n \in Nat \ {0} /\ \A i \in Nat : Type(i) # "none" => i <= n
      /\ \A i \in 1..n : IsNamed(i)
  BY <1>1, Standing
<1>4. /\ call.prec = v.prec /\ call.ctx = v.ctx /\ At \in v.at + 1..n + 1
      /\ IsPostfix(At - 1) /\ At - 1 > v.at
      /\ Postfix(At - 1).opPrec <= v.prec
      /\ Has(R, v.at, At, v.ctx, <<Postfix(At - 1).opPrec, call.term>>)
      /\ call.term[2] = At - 1
  BY <1>1, <1>2 DEF Stands, Asks, At
<1>5. CASE GoOn(Fail) /\ UNCHANGED <<infix, postfix>>
  BY <1>5, GoesOnMeaning, FailsMeaning DEF postfix_operator
<1>6. CASE /\ call.turn <= Len(Turns(At))
           /\ Annotate(At, call.turn)
           /\ call' = IF At - 1 \in postfix
                      THEN Exprtl(At, Postfix(At - 1).opPrec, call.term, call.prec, call.ctx)
                      ELSE Thrown
           /\ Suspend(AfterPostfix(At, call.turn + 1, call.term, call.prec, call.ctx), frames)
           /\ UNCHANGED frames
  <2> DEFINE next_ == AfterPostfix(At, call.turn + 1, call.term, v.prec, v.ctx)
             left == Postfix(At - 1).opPrec
             c == Exprtl(At, left, call.term, v.prec, v.ctx)
  <2>1. call.turn \in Nat \ {0}
    BY <1>1, Here DEF CallOK
  <2>2. call.turn <= Len(Turns(At)) /\ Annotate(At, call.turn) /\ braced' = braced /\ last' = last
    BY <1>6 DEF postfix_operator
  <2>3. Marked(infix', postfix', braced')
    BY <2>1, <2>2, AnnotateMarks
  <2>4. Continues(R, next_, frames)
    <3>1. /\ next_.fn = "postfix" /\ next_.at = At /\ next_.term = call.term
          /\ next_.prec = v.prec /\ next_.ctx = v.ctx
      BY DEF AfterPostfix
    <3> HIDE DEF next_
    <3>2. Stands(R, next_, v)
      BY <1>4, <3>1 DEF Stands, Asks
    <3> QED
      BY <1>2, <3>2 DEF Continues
  <2>5. Continues(R, c, frames)
    <3>1. PICK r : r = <<left, call.term>>
      OBVIOUS
    <3>2. r[1] = left /\ r[2] = call.term
      BY <3>1
    <3>3. At - 1 \in 1..n /\ Type(At - 1) = "atom"
      BY <1>2, <1>3, <1>4, TypeNames
    <3>4. left \in 1..1200 /\ left <= v.prec
      <4>1. IsNamed(At - 1)
        BY <1>3, <3>3
      <4> QED
        BY <1>4, <4>1, Strengths
    <3>5. Follows(r, left, At, v)
      <4>1. r[2][2] = At - 1
        BY <1>4, <3>2
      <4>2. Type(r[2][2]) = "atom"
        BY <3>3, <4>1
      <4> HIDE DEF left
      <4>3. left \in Nat /\ r[1] \in 0..left /\ r[1] > 0
        BY <3>2, <3>4
      <4> QED
        BY <3>4, <4>2, <4>3 DEF Follows, IsOperation
    <3>6. Stands(R, c, v)
      BY <1>2, <1>4, <3>1, <3>2, <3>5, ExprtlStands
    <3> QED
      BY <1>2, <3>6 DEF Continues
  <2>6. Continues(R, Thrown, frames)
    <3>1. Stands(R, Thrown, v)
      BY DEF Stands, Asks, Thrown
    <3> QED
      BY <1>2, <3>1 DEF Continues
  <2>7. /\ call' \in {c, Thrown} /\ Suspend(next_, frames) /\ frames' = frames
    BY <1>4, <1>6
  <2> HIDE DEF next_, c
  <2>8. IsSeq(choices) /\ ChoicesContinue(R, choices)
    BY DEF IInv, Sound, ChoicesOK, MeansNow, IsMeant
  <2>9. ChoicesContinue(R, choices')
    BY <2>4, <2>7, <2>8, SuspendedToo DEF Suspend
  <2> QED
    BY <2>2, <2>3, <2>5, <2>6, <2>7, <2>9, StaysMarked
<1> QED
  BY <1>5, <1>6 DEF postfix_operator

-------------------------------------------------------------------------------
(* A reading is yielded to the frame that waits for it. *)

LEMMA FrameKinds ==
    ASSUME NEW R, NEW f, NEW v, NEW w, AwaitsFor(R, f, v, w)
    PROVE  /\ IsWanted(v) /\ IsWanted(w)
           /\ f.then = "once" => v = w
           /\ f.then # "once" => f.prec = w.prec /\ f.ctx = w.ctx
           /\ f.then = "prefix" => ForPrefix(f, v, w)
           /\ f.then = "infix" => ForInfix(R, f, v, w)
           /\ f.then = "args" => ForArgs(R, f, v, w)
           /\ f.then = "list" => ForItems(R, f, v, w)
           /\ f.then = "tail" => ForTail(R, f, v, w)
           /\ f.then \in {"paren", "curly"} => ForBracket(f, v, w)
           /\ f.then = "key" => ForKey(R, f, v, w)
           /\ f.then = "value" => ForValue(R, f, v, w)
BY DEF AwaitsFor, ForPrefix, ForInfix, ForArgs, ForItems, ForTail, ForBracket, ForKey, ForValue

\* The frame at the top waits for v, and is there to read w.
TopAwaits(R, v, w) ==
    /\ AwaitsFor(R, Top, v, w) /\ AwaitAll(R, Tail(frames), w)
    /\ v.at \in 1..Len(tokens) + 1 /\ v.prec \in Nat /\ v.ctx \in Contexts
    /\ w.at \in 1..Len(tokens) + 1 /\ w.prec \in Nat /\ w.ctx \in Contexts /\ Introduced(w.at)
    /\ At \in v.at + 1..Len(tokens) + 1
    /\ Some(R, v.at, At, v.ctx, v.prec, call.term) /\ SeparatorTaken(At, v)

\* A step that answers the frame on top.
LEMMA Yielded ==
    ASSUME NEW R, IInv, MeansNow(R), NEW fs, Answers(fs)
    PROVE  /\ \E v, w : TopAwaits(R, v, w)
           /\ Len(tokens) \in Nat \ {0}
           /\ Type(At) # "none" => At \in 2..Len(tokens) /\ At + 1 \in 3..Len(tokens) + 1
           /\ \A i \in Nat : Type(i) # "none" => i <= Len(tokens)
           /\ \A i \in 1..Len(tokens) : IsNamed(i)
           /\ Top.then \in fs
<1>1. call.fn = "yield" /\ Reads(call) /\ frames # <<>> /\ Top.then \in fs
  BY DEF Answers, Runs, Reads
<1>2. PICK v : /\ AwaitAll(R, frames, v) /\ Stands(R, call, v)
               /\ IsWanted(v) /\ v.at \in 1..Len(tokens) + 1 /\ v.prec \in Nat /\ v.ctx \in Contexts
  BY <1>1, Standing
<1>3. PICK w : AwaitsFor(R, frames[1], v, w) /\ AwaitAll(R, Tail(frames), w)
  BY <1>1, <1>2, AwaitLess
<1>4. IsWanted(w)
  BY <1>3, FrameKinds
<1>5. /\ At \in v.at + 1..Len(tokens) + 1
      /\ Some(R, v.at, At, v.ctx, v.prec, call.term) /\ SeparatorTaken(At, v)
  BY <1>1, <1>2 DEF Stands, At
<1>6. TopAwaits(R, v, w)
  BY <1>2, <1>3, <1>4, <1>5 DEF TopAwaits, IsWanted, Top
<1>7. /\ Len(tokens) \in Nat \ {0} /\ \A i \in Nat : Type(i) # "none" => i <= Len(tokens)
      /\ \A i \in 1..Len(tokens) : IsNamed(i)
  BY <1>1, Standing
<1>8. Type(At) # "none" => At \in 2..Len(tokens) /\ At + 1 \in 3..Len(tokens) + 1
  BY <1>2, <1>5, <1>7
<1> QED
  BY <1>1, <1>6, <1>7, <1>8

\* The frame is done with.
LEMMA CompletesMeaning ==
    ASSUME NEW R, NEW v, NEW w, TopAwaits(R, v, w), Top.prec = w.prec, Top.ctx = w.ctx, w.at < At,
           At \in 2..Len(tokens), Len(tokens) \in Nat,
           NEW t, Has(R, w.at, At + 1, w.ctx, <<0, t>>), Complete(At + 1, t)
    PROVE  Continues(R, call', frames')
<1>1. At + 1 \in w.at + 1..Len(tokens) + 1
  BY DEF TopAwaits
<1>2. Stands(R, Exprtl0(At + 1, t, w.prec, w.ctx), w)
  BY <1>1, CallsStand
<1> QED
  BY <1>2 DEF TopAwaits, Complete, Continues

\* A step that reports a missing bracket reads nothing.
LEMMA MissingMeaning ==
    ASSUME NEW R, MeansNow(R), NEW i, Missing(i)
    PROVE  MeansNext(R)
<1>1. Continues(R, call', frames')
  BY FailsMeaning DEF Missing
<1>2. ChoicesContinue(R, choices')
  BY DEF MeansNow, IsMeant, Missing
<1> QED
  BY <1>1, <1>2, Stays, ReportFacts DEF Missing

\* What the top frame becomes waits for one more.
LEMMA NowIs ==
    ASSUME NEW then
    PROVE  /\ Now(then).then = then /\ Now(then).token = Top.token /\ Now(then).terms = Terms
           /\ Now(then).prec = Top.prec /\ Now(then).ctx = Top.ctx
BY DEF Now

\* The next term between brackets is wanted behind the separator.
LEMMA OneMoreWanted ==
    ASSUME At \in 2..Len(tokens), Len(tokens) \in Nat, NEW prec \in Nat, NEW ctx \in Contexts,
           Type(At) \in {"comma", "ht_sep"} \/ IsAtom(At, ":")
    PROVE  LET u == Wanted(At + 1, prec, ctx) IN
               IsWanted(u) /\ u.at = At + 1 /\ u.prec = prec /\ u.ctx = ctx
<1> DEFINE u == Wanted(At + 1, prec, ctx)
<1>1. u = Wanted(u.at, u.prec, u.ctx) /\ u.at = At + 1 /\ u.prec = prec /\ u.ctx = ctx
  BY DEF Wanted
<1> HIDE DEF u
<1>2. At + 1 \in 1..Len(tokens) + 1 /\ (At + 1) - 1 = At
  OBVIOUS
<1>3. Introduced(At + 1)
  BY <1>2, TypeNames DEF Introduced, Introduces
<1> QED
  BY <1>1, <1>2, <1>3 DEF IsWanted, u

\* The frame of what is read once: no other reading of it is tried.
LEMMA onceMeans ==
    ASSUME NEW R, IInv, MeansNow(R), once
    PROVE  MeansNext(R)
<1>1. /\ Answers({"once"}) /\ call' = call /\ frames' = Tail(frames)
      /\ choices' = SubSeq(choices, 1, Top.depth) /\ Quietly
  BY DEF once, Oldest
<1>2. PICK v, w : TopAwaits(R, v, w)
  BY <1>1, Yielded
<1>3. Top.then = "once" /\ Reads(call) /\ call.fn = "yield" /\ frames # <<>>
  BY <1>1 DEF Answers, Runs, Reads
<1>4. v = w /\ AwaitAll(R, frames', w)
  BY <1>1, <1>2, <1>3, FrameKinds DEF TopAwaits
<1>5. Stands(R, call, v)
  BY <1>2, <1>3 DEF Stands, Asks, TopAwaits, At
<1>6. Continues(R, call', frames')
  BY <1>1, <1>4, <1>5 DEF Continues
<1>7. Top.depth \in 0..Len(choices)
  <2>1. FramesOK(call, frames, choices, Len(choices), Len(tokens), Waitable)
    BY <1>3 DEF IInv, Sound
  <2>2. 1 \in 1..Len(frames)
    BY <1>3, <2>1, Popped, LenOf DEF FramesOK
  <2> QED
    BY <2>1, <2>2 DEF FramesOK, Top
<1>8. ChoicesContinue(R, choices')
  BY <1>1, <1>7, AbandonedToo DEF IInv, Sound, ChoicesOK, MeansNow, IsMeant
<1> QED
  BY <1>1, <1>6, <1>8, Stays, QuietFacts

\* A pair put together.
LEMMA AppendedPair ==
    ASSUME NEW a, NEW b
    PROVE  Append(<<a>>, b) = <<a, b>>
<1> DEFINE S == {a, b}
<1>1. /\ <<a>> \in Seq(S) /\ b \in S /\ Len(<<a>>) = 1
      /\ <<a, b>> \in Seq(S) /\ Len(<<a, b>>) = 2
  OBVIOUS
<1>2. <<a, b>>[1] = a /\ <<a, b>>[2] = b /\ <<a>>[1] = a
  OBVIOUS
<1> HIDE DEF S
<1>3. Append(<<a>>, b) \in Seq(S) /\ Len(Append(<<a>>, b)) = 2
  BY <1>1
<1>4. Append(<<a>>, b)[1] = a
  BY <1>1, <1>2
<1>5. Append(<<a>>, b)[2] = b
  BY <1>1, <1>2
<1>6. \A i \in 1..Len(Append(<<a>>, b)) : i = 1 \/ i = 2
  BY <1>3
<1>7. \A i \in 1..Len(Append(<<a>>, b)) : Append(<<a>>, b)[i] = <<a, b>>[i]
  BY <1>2, <1>4, <1>5, <1>6
<1>8. Len(Append(<<a>>, b)) = Len(<<a, b>>)
  BY <1>1, <1>3
<1> QED
  BY <1>1, <1>3, <1>7, <1>8, SeqEqual

\* The frames of operators: with their operand read, the operation is.
LEMMA operandMeans ==
    ASSUME NEW R, Closed(R), IInv, MeansNow(R), operand
    PROVE  MeansNext(R)
<1> DEFINE n == Len(tokens)
           opPrec == IF Top.then = "prefix" THEN Prefix(Top.token).opPrec ELSE OpPrec(Top.token)
           node == Node(Top.then, Top.token, Terms)
<1>1. Answers({"prefix", "infix"}) /\ "once" \notin {"prefix", "infix"}
  BY DEF operand
<1>2. PICK v, w : TopAwaits(R, v, w)
  BY <1>1, Yielded
<1>3. /\ n \in Nat \ {0} /\ \A i \in Nat : Type(i) # "none" => i <= n
      /\ \A i \in 1..n : IsNamed(i) /\ Top.then \in {"prefix", "infix"}
  BY <1>1, Yielded
<1>4. /\ frames' = Tail(frames) /\ choices' = choices /\ Quietly
      /\ call' = Exprtl(At, opPrec, node, Top.prec, Top.ctx)
  <2>1. ~ (Top.then = "infix" /\ Type(Top.token) = "atom" /\ Top.token \notin infix)
    BY <1>1, AtTop DEF Waitable
  <2> QED
    BY <2>1 DEF operand
<1>5. /\ Top.prec = w.prec /\ Top.ctx = w.ctx
      /\ Top.then = "prefix" => ForPrefix(Top, v, w)
      /\ Top.then = "infix" => ForInfix(R, Top, v, w)
  BY <1>2, <1>3, FrameKinds DEF TopAwaits
<1>6. /\ v.at \in 1..n + 1 /\ v.prec \in Nat /\ v.ctx \in Contexts
      /\ w.at \in 1..n + 1 /\ w.prec \in Nat /\ w.ctx \in Contexts
      /\ At \in v.at + 1..n + 1
      /\ Some(R, v.at, At, v.ctx, v.prec, call.term) /\ SeparatorTaken(At, v)
  BY <1>2 DEF TopAwaits
<1>7. /\ Has(R, w.at, At, w.ctx, <<opPrec, node>>) /\ opPrec \in 1..1200 /\ opPrec <= w.prec
      /\ At \in w.at + 1..n + 1
      /\ Type(At) \in {"comma", "ht_sep"} => Terminates(At, w.ctx) \/ Type(Top.token) # Type(At)
  <2>1. CASE Top.then = "prefix"
    <3>1. ForPrefix(Top, v, w)
      BY <1>5, <2>1
    <3>2. /\ Top.token = w.at /\ Top.terms = <<>> /\ IsPrefix(w.at) /\ MayTake(w.at)
          /\ Prefix(w.at).opPrec <= w.prec
          /\ v.at = w.at + 1 /\ v.prec = Prefix(w.at).rPrec /\ v.ctx = w.ctx
      BY <3>1 DEF ForPrefix, Wanted
    <3>3. w.at \in 1..n /\ Type(w.at) = "atom"
      BY <1>3, <1>6, <3>2, TypeNames
    <3>4. opPrec = Prefix(w.at).opPrec /\ opPrec \in 1..1200
      BY <1>3, <2>1, <3>2, <3>3, Strengths
    <3>5. node = Node("prefix", w.at, <<call.term>>)
      BY <2>1, <3>2 DEF Terms
    <3>6. w.at + 1 < At /\ At \in 1..n + 1
      BY <1>6, <3>2
    <3>7. PrefixRule(R)
      BY DEF Closed
    <3> HIDE DEF node, opPrec
    <3>8. Has(R, w.at, At, w.ctx, <<Prefix(w.at).opPrec, Node("prefix", w.at, <<call.term>>)>>)
      BY <1>6, <3>2, <3>3, <3>6, <3>7 DEF PrefixRule
    <3> QED
      BY <1>3, <1>6, <3>2, <3>3, <3>4, <3>5, <3>6, <3>8
  <2>2. CASE Top.then = "infix"
    <3> DEFINE k == Top.token
    <3>1. ForInfix(R, Top, v, w)
      BY <1>5, <2>2
    <3>2. /\ k \in w.at + 1..n /\ IsBetween(k) /\ Fixity(k).opPrec <= w.prec
          /\ v.at = k + 1 /\ v.prec = Fixity(k).rPrec /\ v.ctx = w.ctx
      BY <3>1 DEF ForInfix, Wanted
    <3>3. PICK l \in R[<<w.at, k>>].terms[w.ctx] : IsLeft(l, w.at, k, w.ctx) /\ Top.terms = <<l[2]>>
      BY <3>1 DEF ForInfix
    <3>4. node = Node("infix", k, <<l[2], call.term>>)
      <4>1. Terms = <<l[2], call.term>>
        BY <3>3, AppendedPair DEF Terms
      <4> QED
        BY <2>2, <4>1
    <3>5. k \in 1..n /\ IsNamed(k) /\ w.at \in 1..n /\ w.at < k
      BY <1>3, <1>6, <3>2
    <3>6. opPrec = Fixity(k).opPrec /\ opPrec \in 1..1200
      <4>1. OpPrec(k) = Fixity(k).opPrec /\ Fixity(k).opPrec \in 1..1200
        BY <3>2, <3>5, Strengths
      <4> QED
        BY <2>2, <4>1
    <3> HIDE DEF node, opPrec, k
    <3>7. k + 1 < At /\ At \in 1..n + 1
      BY <1>6, <3>2, <3>5
    <3>8. InfixRule(R)
      BY DEF Closed
    <3>9. Some(R, k + 1, At, w.ctx, Fixity(k).rPrec, call.term)
      BY <1>6, <3>2
    <3>10. Has(R, w.at, At, w.ctx, <<Fixity(k).opPrec, Node("infix", k, <<l[2], call.term>>)>>)
      BY <1>6, <3>2, <3>3, <3>5, <3>7, <3>8, <3>9 DEF InfixRule
    <3>11. ASSUME Type(At) \in {"comma", "ht_sep"}, Type(k) = Type(At)
           PROVE  Terminates(At, w.ctx)
      <4>1. Fixity(k).rPrec = Fixity(At).opPrec
        BY <3>11 DEF Fixity
      <4> QED
        BY <1>6, <3>2, <3>11, <4>1 DEF SeparatorTaken
    <3> QED
      BY <1>3, <1>6, <3>2, <3>4, <3>5, <3>6, <3>7, <3>10, <3>11 DEF k
  <2> QED
    BY <1>3, <2>1, <2>2
<1>8. node[2] = Top.token
  BY DEF Node
<1> HIDE DEF node, opPrec
<1>9. PICK r : r = <<opPrec, node>>
  OBVIOUS
<1>10. r[1] = opPrec /\ r[2] = node
  BY <1>9
<1>11. Follows(r, opPrec, At, w)
  BY <1>7, <1>8, <1>10 DEF Follows, IsOperation
<1>12. Stands(R, Exprtl(At, opPrec, node, w.prec, w.ctx), w)
  BY <1>7, <1>9, <1>10, <1>11, ExprtlStands
<1>13. Continues(R, call', frames')
  BY <1>2, <1>4, <1>5, <1>12 DEF Continues, TopAwaits
<1>14. ChoicesContinue(R, choices')
  BY <1>4 DEF MeansNow, IsMeant
<1> QED
  BY <1>4, <1>13, <1>14, Stays, QuietFacts

\* A list of one.
LEMMA OneTerm == ASSUME NEW t PROVE Append(<<>>, t) = <<t>>
OBVIOUS

\* A bracket that is read on: its frame becomes another that waits for one more.
LEMMA MoreMeaning ==
    ASSUME NEW R, MeansNow(R), IInv, NEW then, NEW prec \in Nat, NEW ctx \in Contexts,
           Type(At) \in {"comma", "ht_sep"} \/ IsAtom(At, ":"),
           NEW v, NEW w, TopAwaits(R, v, w), Top.prec = w.prec, Top.ctx = w.ctx,
           At \in 2..Len(tokens), Len(tokens) \in Nat, w.at < At,
           NEW f, f = Now(then),
           First(f, Read(At + 1, prec, ctx), Tail(frames)), Quietly,
           NEW u, u = Wanted(At + 1, prec, ctx),
           \/ ForArgs(R, f, u, w) \/ ForItems(R, f, u, w) \/ ForTail(R, f, u, w)
           \/ ForKey(R, f, u, w) \/ ForValue(R, f, u, w)
    PROVE  MeansNext(R)
<1>1. IsWanted(u) /\ u.at = At + 1 /\ u.prec = prec /\ u.ctx = ctx
  BY OneMoreWanted
<1>2. f.prec = w.prec /\ f.ctx = w.ctx
  BY NowIs
<1>3. IsWanted(w) /\ AwaitAll(R, Tail(frames), w)
  BY FrameKinds DEF TopAwaits
<1>4. AwaitsFor(R, f, u, w)
  BY <1>1, <1>2, <1>3 DEF AwaitsFor
<1> QED
  BY <1>1, <1>3, <1>4, FirstMeaning, QuietFacts

\* The rules for terms between brackets.
LEMMA ArgsInstance ==
    ASSUME NEW R, ArgsRule(R), NEW i \in 1..Len(tokens), NEW k \in 1..Len(tokens),
           NEW j \in 1..Len(tokens) + 1, NEW t, NEW u, u = k + 1, i < k, u < j,
           Type(i) = "atom", NEW h, h = i + 1, Type(h) = "open_ct", Some(R, u, j, ArgsContext, 1200, t)
    PROVE  /\ k = h => <<t>> \in R[<<i, j>>].args
           /\ Type(k) = "comma" => \A args \in R[<<i, k>>].args : Append(args, t) \in R[<<i, j>>].args
BY DEF ArgsRule

\* One more argument, as what is read up to it;
LEMMA ArgsMore ==
    ASSUME NEW R, ArgsRule(R), Len(tokens) \in Nat, NEW i \in 1..Len(tokens), NEW u \in 1..Len(tokens) + 1,
           NEW j \in 1..Len(tokens) + 1, u < j, NEW t, NEW terms,
           Type(i) = "atom", Type(i + 1) = "open_ct", i + 1 \in 1..Len(tokens),
           Some(R, u, j, ArgsContext, 1200, t),
           \/ u = i + 2 /\ terms = <<>>
           \/ u - 1 > i /\ Type(u - 1) = "comma" /\ terms \in R[<<i, u - 1>>].args
    PROVE  Append(terms, t) \in R[<<i, j>>].args
<1>1. PICK k, h : k = u - 1 /\ h = i + 1
  OBVIOUS
<1>2. k \in 1..Len(tokens) /\ u = k + 1 /\ i < k /\ Type(h) = "open_ct"
  BY <1>1
<1>3. CASE u = i + 2 /\ terms = <<>>
  <2>1. k = h /\ Append(terms, t) = <<t>>
    BY <1>1, <1>3, OneTerm
  <2> QED
    BY <1>1, <1>2, <2>1, ArgsInstance
<1>4. CASE Type(k) = "comma" /\ terms \in R[<<i, k>>].args
  BY <1>1, <1>2, <1>4, ArgsInstance
<1> QED
  BY <1>1, <1>3, <1>4

\* the rule of items in one place,
LEMMA ItemsInstance ==
    ASSUME NEW R, ItemsRule(R), NEW i \in 1..Len(tokens), NEW k \in 1..Len(tokens),
           NEW j \in 1..Len(tokens) + 1, NEW t, NEW u, u = k + 1, i <= k, u < j,
           Type(i) = "open_list", Some(R, u, j, ListContext, 999, t)
    PROVE  /\ k = i => <<t>> \in R[<<i, j>>].items
           /\ i < k /\ Type(k) = "comma"
                  => \A items \in R[<<i, k>>].items : Append(items, t) \in R[<<i, j>>].items
BY DEF ItemsRule

\* one more item;
LEMMA ItemsMore ==
    ASSUME NEW R, ItemsRule(R), Len(tokens) \in Nat, NEW i \in 1..Len(tokens), NEW u \in 1..Len(tokens) + 1,
           NEW j \in 1..Len(tokens) + 1, u < j, NEW t, NEW terms,
           Type(i) = "open_list", Some(R, u, j, ListContext, 999, t),
           \/ u = i + 1 /\ terms = <<>>
           \/ u - 1 > i /\ Type(u - 1) = "comma" /\ terms \in R[<<i, u - 1>>].items
    PROVE  Append(terms, t) \in R[<<i, j>>].items
<1>1. PICK k : k = u - 1
  OBVIOUS
<1>2. k \in 1..Len(tokens) /\ u = k + 1 /\ i <= k
  BY <1>1
<1>3. CASE u = i + 1 /\ terms = <<>>
  <2>1. k = i /\ Append(terms, t) = <<t>>
    BY <1>1, <1>3, OneTerm
  <2> QED
    BY <1>1, <1>2, <2>1, ItemsInstance
<1>4. CASE i < k /\ Type(k) = "comma" /\ terms \in R[<<i, k>>].items
  BY <1>1, <1>2, <1>4, ItemsInstance
<1> QED
  BY <1>1, <1>3, <1>4

\* the rule of keys in one place,
LEMMA KeyedInstance ==
    ASSUME NEW R, KeyedRule(R), NEW i \in 1..Len(tokens), NEW k \in 1..Len(tokens),
           NEW j \in 1..Len(tokens) + 1, NEW ctx \in Contexts, NEW t, NEW u, u = k + 1, i < k, u < j,
           IsName(i), NEW h, h = i + 1, Type(h) = "open_curly", Some(R, u, j, KeyContext(ctx), 1200, t)
    PROVE  /\ k = h => <<Atomic(i), t>> \in R[<<i, j>>].keyed[ctx]
           /\ Type(k) = "comma" => \A pairs \in R[<<i, k>>].valued[ctx] :
                                       Append(pairs, t) \in R[<<i, j>>].keyed[ctx]
BY DEF KeyedRule

\* one more key;
LEMMA KeyedMore ==
    ASSUME NEW R, KeyedRule(R), Len(tokens) \in Nat, NEW i \in 1..Len(tokens), NEW u \in 1..Len(tokens) + 1,
           NEW j \in 1..Len(tokens) + 1, u < j, NEW ctx \in Contexts, NEW t, NEW terms,
           IsName(i), Type(i + 1) = "open_curly", i + 1 \in 1..Len(tokens),
           Some(R, u, j, KeyContext(ctx), 1200, t),
           \/ u = i + 2 /\ terms = <<Atomic(i)>>
           \/ u - 1 > i /\ Type(u - 1) = "comma" /\ terms \in R[<<i, u - 1>>].valued[ctx]
    PROVE  Append(terms, t) \in R[<<i, j>>].keyed[ctx]
<1>1. PICK k, h : k = u - 1 /\ h = i + 1
  OBVIOUS
<1>2. k \in 1..Len(tokens) /\ u = k + 1 /\ i < k /\ Type(h) = "open_curly"
  BY <1>1
<1>3. CASE u = i + 2 /\ terms = <<Atomic(i)>>
  <2>1. k = h /\ Append(terms, t) = <<Atomic(i), t>>
    BY <1>1, <1>3, AppendedPair
  <2> QED
    BY <1>1, <1>2, <2>1, KeyedInstance
<1>4. CASE Type(k) = "comma" /\ terms \in R[<<i, k>>].valued[ctx]
  BY <1>1, <1>2, <1>4, KeyedInstance
<1> QED
  BY <1>1, <1>3, <1>4

\* one more value;
LEMMA ValuedMore ==
    ASSUME NEW R, ValuedRule(R), Len(tokens) \in Nat, NEW i \in 1..Len(tokens), NEW u \in 1..Len(tokens) + 1,
           NEW j \in 1..Len(tokens) + 1, u < j, NEW ctx \in Contexts, NEW t, NEW terms,
           u - 1 > i, IsAtom(u - 1, ":"), Some(R, u, j, ValueContext(ctx), 1200, t),
           terms \in R[<<i, u - 1>>].keyed[ctx]
    PROVE  Append(terms, t) \in R[<<i, j>>].valued[ctx]
<1>1. PICK k : k = u - 1
  OBVIOUS
<1>2. k \in 1..Len(tokens) /\ u = k + 1 /\ i < k
  BY <1>1
<1>3. ASSUME NEW m, m = k + 1
      PROVE  i < k /\ m < j /\ IsAtom(k, ":") /\ Some(R, m, j, ValueContext(ctx), 1200, t)
  BY <1>1, <1>2, <1>3
<1>4. \A keys \in R[<<i, k>>].keyed[ctx] : Append(keys, t) \in R[<<i, j>>].valued[ctx]
  BY <1>2, <1>3 DEF ValuedRule
<1> QED
  BY <1>1, <1>4

\* and the tail of a list.
LEMMA TailMore ==
    ASSUME NEW R, TailRule(R), Len(tokens) \in Nat, NEW i \in 1..Len(tokens), NEW u \in 1..Len(tokens) + 1,
           NEW j \in 1..Len(tokens), u < j, NEW ctx \in Contexts, NEW t, NEW terms,
           u - 1 > i, Type(u - 1) = "ht_sep", Type(j) = "close_list", Some(R, u, j, ListContext, 999, t),
           terms \in R[<<i, u - 1>>].items
    PROVE  Has(R, i, j + 1, ctx, <<0, Node("partial_list", i, Append(terms, t))>>)
<1>1. PICK k : k = u - 1
  OBVIOUS
<1>2. k \in 1..Len(tokens) /\ u = k + 1 /\ i < k
  BY <1>1
<1>3. ASSUME NEW m, m = k + 1
      PROVE  i < k /\ m < j /\ Type(k) = "ht_sep" /\ Some(R, m, j, ListContext, 999, t)
  BY <1>1, <1>2, <1>3
<1>4. \A items \in R[<<i, k>>].items : Has(R, i, j + 1, ctx, <<0, Node("partial_list", i, Append(items, t))>>)
  BY <1>2, <1>3 DEF TailRule
<1> QED
  BY <1>1, <1>4

\* The frame of an argument.
LEMMA read_argsMeans ==
    ASSUME NEW R, Closed(R), IInv, MeansNow(R), read_args
    PROVE  MeansNext(R)
<1> DEFINE n == Len(tokens)
<1>1. Answers({"args"})
  BY DEF read_args
<1>2. PICK v, w : TopAwaits(R, v, w)
  BY <1>1, Yielded
<1>3. /\ n \in Nat /\ Top.then = "args"
      /\ Type(At) # "none" => At \in 2..n
      /\ \A i \in Nat : Type(i) # "none" => i <= n
  BY <1>1, Yielded
<1>4. ForArgs(R, Top, v, w) /\ Top.prec = w.prec /\ Top.ctx = w.ctx
  BY <1>2, <1>3, FrameKinds DEF TopAwaits
<1>5. /\ v.at \in 1..n + 1 /\ w.at \in 1..n + 1 /\ w.ctx \in Contexts /\ At \in v.at + 1..n + 1
      /\ Some(R, v.at, At, v.ctx, v.prec, call.term)
  BY <1>2 DEF TopAwaits
<1>6. /\ Top.token = w.at /\ Type(w.at) = "atom" /\ Type(w.at + 1) = "open_ct"
      /\ v.prec = 1200 /\ v.ctx = ArgsContext
  BY <1>4 DEF ForArgs
<1>7. w.at \in 1..n /\ w.at + 1 \in 1..n
  BY <1>3, <1>5, <1>6
\* the arguments so far
<1>8. Terms \in R[<<w.at, At>>].args /\ w.at + 1 < At
  <2>1. PICK i, u, j, t, terms :
            i = w.at /\ u = v.at /\ j = At /\ t = call.term /\ terms = Top.terms
    OBVIOUS
  <2>2. /\ i \in 1..n /\ u \in 1..n + 1 /\ j \in 1..n + 1 /\ u < j /\ i + 1 \in 1..n
        /\ Type(i) = "atom" /\ Type(i + 1) = "open_ct" /\ Some(R, u, j, ArgsContext, 1200, t)
        /\ \/ u = i + 2 /\ terms = <<>>
           \/ u - 1 > i /\ Type(u - 1) = "comma" /\ terms \in R[<<i, u - 1>>].args
    BY <1>4, <1>5, <1>6, <1>7, <2>1 DEF ForArgs
  <2>3. ArgsRule(R)
    BY DEF Closed
  <2>4. Append(terms, t) \in R[<<i, j>>].args
    BY <1>3, <2>2, <2>3, ArgsMore
  <2>5. i + 1 < j
    BY <2>2
  <2> QED
    BY <2>1, <2>4, <2>5 DEF Terms
<1>9. CASE /\ Type(At) = "comma"
           /\ First(Now("args"), Read(At + 1, 1200, {"comma"}), Tail(frames))
           /\ Quietly
  <2>1. PICK f : f = Now("args")
    OBVIOUS
  <2>2. PICK u : u = Wanted(At + 1, 1200, ArgsContext)
    OBVIOUS
  <2>3. u.at = At + 1 /\ u.prec = 1200 /\ u.ctx = ArgsContext
    BY <2>2 DEF Wanted
  <2>4. f.then = "args" /\ f.token = w.at /\ f.terms = Terms
    BY <1>6, <2>1, NowIs
  <2>5. u.at - 1 = At /\ At > w.at /\ At \in 2..n
    BY <1>3, <1>8, <1>7, <1>9, <2>3
  <2>6. ForArgs(R, f, u, w)
    BY <1>6, <1>8, <1>9, <2>3, <2>4, <2>5 DEF ForArgs
  <2>7. First(f, Read(At + 1, 1200, ArgsContext), Tail(frames)) /\ 1200 \in Nat
    BY <1>9, <2>1 DEF ArgsContext
  <2>8. Type(At) \in {"comma", "ht_sep"} /\ Quietly /\ w.at < At
    BY <1>9, <2>5, <1>7
  <2> QED
    BY <1>2, <1>3, <1>4, <2>1, <2>2, <2>5, <2>6, <2>7, <2>8, MoreMeaning, ContextsInside
<1>10. CASE /\ Type(At) = "close"
            /\ Complete(At + 1, Node("compound", Top.token, Terms))
            /\ UNCHANGED choices
            /\ Quietly
  <2>1. At \in 2..n /\ w.at < At
    BY <1>3, <1>5, <1>7, <1>8, <1>10
  <2>2. Has(R, w.at, At + 1, w.ctx, <<0, Node("compound", w.at, Terms)>>)
    <3>1. CompoundRule(R) /\ At \in 1..n
      BY <2>1 DEF Closed
    <3> QED
      BY <1>5, <1>7, <1>8, <1>10, <2>1, <3>1 DEF CompoundRule
  <2>3. Continues(R, call', frames')
    BY <1>2, <1>3, <1>4, <1>6, <1>10, <2>1, <2>2, CompletesMeaning
  <2>4. ChoicesContinue(R, choices')
    BY <1>10 DEF MeansNow, IsMeant
  <2> QED
    BY <1>10, <2>3, <2>4, Stays, QuietFacts
<1>11. CASE Missing(Culprit(At))
  BY <1>11, MissingMeaning
<1> QED
  BY <1>9, <1>10, <1>11 DEF read_args

\* The frame of an item.
LEMMA read_listMeans ==
    ASSUME NEW R, Closed(R), IInv, MeansNow(R), read_list
    PROVE  MeansNext(R)
<1> DEFINE n == Len(tokens)
<1>1. Answers({"list"})
  BY DEF read_list
<1>2. PICK v, w : TopAwaits(R, v, w)
  BY <1>1, Yielded
<1>3. /\ n \in Nat /\ Top.then = "list"
      /\ Type(At) # "none" => At \in 2..n
      /\ \A i \in Nat : Type(i) # "none" => i <= n
  BY <1>1, Yielded
<1>4. ForItems(R, Top, v, w) /\ Top.prec = w.prec /\ Top.ctx = w.ctx
  BY <1>2, <1>3, FrameKinds DEF TopAwaits
<1>5. /\ v.at \in 1..n + 1 /\ w.at \in 1..n + 1 /\ w.ctx \in Contexts /\ At \in v.at + 1..n + 1
      /\ Some(R, v.at, At, v.ctx, v.prec, call.term)
  BY <1>2 DEF TopAwaits
<1>6. /\ Top.token = w.at /\ Type(w.at) = "open_list"
      /\ v.prec = 999 /\ v.ctx = ListContext
  BY <1>4 DEF ForItems
<1>7. w.at \in 1..n
  BY <1>3, <1>5, <1>6
\* the items so far
<1>8. Terms \in R[<<w.at, At>>].items /\ w.at < At
  <2>1. PICK i, u, j, t, terms :
            i = w.at /\ u = v.at /\ j = At /\ t = call.term /\ terms = Top.terms
    OBVIOUS
  <2>2. /\ i \in 1..n /\ u \in 1..n + 1 /\ j \in 1..n + 1 /\ u < j
        /\ Type(i) = "open_list" /\ Some(R, u, j, ListContext, 999, t)
        /\ \/ u = i + 1 /\ terms = <<>>
           \/ u - 1 > i /\ Type(u - 1) = "comma" /\ terms \in R[<<i, u - 1>>].items
    BY <1>4, <1>5, <1>6, <1>7, <2>1 DEF ForItems
  <2>3. ItemsRule(R)
    BY DEF Closed
  <2>4. Append(terms, t) \in R[<<i, j>>].items
    BY <1>3, <2>2, <2>3, ItemsMore
  <2>5. i < j
    BY <2>2
  <2> QED
    BY <2>1, <2>4, <2>5 DEF Terms
<1>9. CASE /\ Type(At) \in {"comma", "ht_sep"}
           /\ First(Now(IF Type(At) = "comma" THEN "list" ELSE "tail"),
                    Read(At + 1, 999, {"bar", "comma"}), Tail(frames))
           /\ Quietly
  <2> DEFINE then == IF Type(At) = "comma" THEN "list" ELSE "tail"
  <2>1. PICK f : f = Now(then)
    OBVIOUS
  <2>2. PICK u : u = Wanted(At + 1, 999, ListContext)
    OBVIOUS
  <2>3. u.at = At + 1 /\ u.prec = 999 /\ u.ctx = ListContext
    BY <2>2 DEF Wanted
  <2>4. f.then = then /\ f.token = w.at /\ f.terms = Terms
    BY <1>6, <2>1, NowIs
  <2>5. u.at - 1 = At /\ At > w.at /\ At \in 2..n /\ w.at < At
    BY <1>3, <1>8, <1>7, <1>9, <2>3
  <2>6. ForItems(R, f, u, w) \/ ForTail(R, f, u, w)
    BY <1>6, <1>8, <1>9, <2>3, <2>4, <2>5 DEF ForItems, ForTail
  <2>7. First(f, Read(At + 1, 999, ListContext), Tail(frames)) /\ 999 \in Nat
    <3>1. {"bar", "comma"} = ListContext
      BY DEF ListContext
    <3> QED
      BY <1>9, <2>1, <3>1
  <2>8. Type(At) \in {"comma", "ht_sep"} /\ Quietly
    BY <1>9
  <2> HIDE DEF then
  <2> QED
    BY <1>2, <1>3, <1>4, <2>1, <2>2, <2>5, <2>6, <2>7, <2>8, MoreMeaning, ContextsInside
<1>10. CASE /\ Type(At) = "close_list"
            /\ Complete(At + 1, Node("list", Top.token, Terms))
            /\ UNCHANGED choices
            /\ Quietly
  <2>1. At \in 2..n
    BY <1>3, <1>10
  <2>2. Has(R, w.at, At + 1, w.ctx, <<0, Node("list", w.at, Terms)>>)
    <3>1. ListRule(R) /\ At \in 1..n
      BY <2>1 DEF Closed
    <3> QED
      BY <1>5, <1>7, <1>8, <1>10, <2>1, <3>1 DEF ListRule
  <2>3. Continues(R, call', frames')
    BY <1>2, <1>3, <1>4, <1>6, <1>8, <1>10, <2>1, <2>2, CompletesMeaning
  <2>4. ChoicesContinue(R, choices')
    BY <1>10 DEF MeansNow, IsMeant
  <2> QED
    BY <1>10, <2>3, <2>4, Stays, QuietFacts
<1>11. CASE Missing(Culprit(At))
  BY <1>11, MissingMeaning
<1> QED
  BY <1>9, <1>10, <1>11 DEF read_list

\* A bracket with one term inside.
LEMMA BracketMore ==
    ASSUME NEW R, ParenRule(R), CurlyRule(R), Len(tokens) \in Nat, NEW i \in 1..Len(tokens), NEW u, u = i + 1,
           NEW j \in 1..Len(tokens), u < j, NEW ctx \in Contexts, NEW t, Some(R, u, j, {}, 1200, t)
    PROVE  /\ Type(j) = "close" /\ Type(i) \in {"open", "open_ct"} => Has(R, i, j + 1, ctx, <<0, t>>)
           /\ Type(j) = "close_curly" /\ Type(i) = "open_curly"
                  => Has(R, i, j + 1, ctx, <<0, Node("curly", i, <<t>>)>>)
BY DEF ParenRule, CurlyRule

\* The frame of what a bracket closes: parentheses, braces and the tail of a list.
LEMMA expect_bracketMeans ==
    ASSUME NEW R, Closed(R), IInv, MeansNow(R), expect_bracket
    PROVE  MeansNext(R)
<1> DEFINE n == Len(tokens)
<1>1. Answers({"tail", "paren", "curly"})
  BY DEF expect_bracket
<1>2. PICK v, w : TopAwaits(R, v, w)
  BY <1>1, Yielded
<1>3. /\ n \in Nat /\ Top.then \in {"tail", "paren", "curly"}
      /\ Type(At) # "none" => At \in 2..n
      /\ \A i \in Nat : Type(i) # "none" => i <= n
  BY <1>1, Yielded
<1>4. /\ Top.prec = w.prec /\ Top.ctx = w.ctx
      /\ Top.then = "tail" => ForTail(R, Top, v, w)
      /\ Top.then # "tail" => ForBracket(Top, v, w)
  BY <1>2, <1>3, FrameKinds DEF TopAwaits
<1>5. /\ v.at \in 1..n + 1 /\ w.at \in 1..n + 1 /\ w.ctx \in Contexts /\ At \in v.at + 1..n + 1
      /\ Some(R, v.at, At, v.ctx, v.prec, call.term) /\ Introduced(w.at)
  BY <1>2 DEF TopAwaits
<1>6. Top.token = w.at /\ Type(w.at) # "none"
  BY <1>3, <1>4 DEF ForTail, ForBracket
<1>7. w.at \in 1..n
  BY <1>3, <1>5, <1>6
<1>8. CASE /\ Type(At) = ClosedBy[Top.then]
           /\ Complete(At + 1, Bracketed)
           /\ IF Top.then = "curly"
              THEN Suspend(Restore(Top.token), <<>>) /\ braced' = braced \cup {Top.token}
              ELSE UNCHANGED <<choices, braced>>
           /\ UNCHANGED <<tokens, infix, postfix, errors, last>>
  <2>1. /\ Top.then = "tail" => Type(At) = "close_list"
        /\ Top.then = "paren" => Type(At) = "close"
        /\ Top.then = "curly" => Type(At) = "close_curly"
    BY <1>8 DEF ClosedBy
  <2>2. At \in 2..n /\ At \in 1..n
    BY <1>3, <2>1
  <2>3. PICK i, u, j, t, terms, ctx :
            i = w.at /\ u = v.at /\ j = At /\ t = call.term /\ terms = Top.terms /\ ctx = w.ctx
    OBVIOUS
  <2>4. i \in 1..n /\ u \in 1..n + 1 /\ j \in 1..n /\ u < j /\ ctx \in Contexts
    BY <1>5, <1>7, <2>2, <2>3
  <2>5. Has(R, w.at, At + 1, w.ctx, <<0, Bracketed>>) /\ w.at < At
    <3>1. CASE Top.then = "tail"
      <4>1. /\ Some(R, u, j, ListContext, 999, t)
            /\ u - 1 > i /\ Type(u - 1) = "ht_sep" /\ terms \in R[<<i, u - 1>>].items
            /\ Type(j) = "close_list"
        BY <1>4, <1>5, <2>1, <2>3, <3>1 DEF ForTail
      <4>2. TailRule(R)
        BY DEF Closed
      <4>3. Has(R, i, j + 1, ctx, <<0, Node("partial_list", i, Append(terms, t))>>)
        BY <1>3, <2>4, <4>1, <4>2, TailMore
      <4>4. Bracketed = Node("partial_list", w.at, Terms)
        BY <1>6, <3>1 DEF Bracketed
      <4>5. i < j
        BY <2>4, <4>1
      <4> QED
        BY <2>3, <4>3, <4>4, <4>5 DEF Terms
    <3>2. CASE Top.then \in {"paren", "curly"}
      <4>1. /\ u = i + 1 /\ Some(R, u, j, {}, 1200, t) /\ terms = <<>>
            /\ Top.then = "paren" => Type(i) \in {"open", "open_ct"}
            /\ Top.then = "curly" => Type(i) = "open_curly"
        <5>1. ForBracket(Top, v, w)
          BY <1>4, <3>2
        <5>2. v.at = w.at + 1 /\ v.prec = 1200 /\ v.ctx = {}
          BY <5>1 DEF ForBracket, Wanted
        <5>3. Top.terms = <<>>
          BY <5>1 DEF ForBracket
        <5>4. /\ Top.then = "paren" => Type(w.at) \in {"open", "open_ct"}
              /\ Top.then = "curly" => Type(w.at) = "open_curly"
          BY <5>1 DEF ForBracket
        <5>5. Some(R, v.at, At, {}, 1200, call.term)
          BY <1>5, <5>2
        <5> QED
          BY <2>3, <5>2, <5>3, <5>4, <5>5
      <4>2. ParenRule(R) /\ CurlyRule(R)
        BY DEF Closed
      <4>3. /\ Type(j) = "close" /\ Type(i) \in {"open", "open_ct"} => Has(R, i, j + 1, ctx, <<0, t>>)
            /\ Type(j) = "close_curly" /\ Type(i) = "open_curly"
                  => Has(R, i, j + 1, ctx, <<0, Node("curly", i, <<t>>)>>)
        BY <1>3, <2>4, <4>1, <4>2, BracketMore
      <4>4. Terms = <<t>>
        BY <2>3, <4>1, OneTerm DEF Terms
      <4>5. i < j
        BY <2>4, <4>1
      <4>6. CASE Top.then = "paren"
        <5>1. Bracketed = t
          BY <2>3, <4>6 DEF Bracketed
        <5> QED
          BY <2>1, <2>3, <4>1, <4>3, <4>5, <4>6, <5>1
      <4>7. CASE Top.then = "curly"
        <5>1. Bracketed = Node("curly", i, <<t>>)
          BY <1>6, <2>3, <4>4, <4>7 DEF Bracketed
        <5> QED
          BY <2>1, <2>3, <4>1, <4>3, <4>5, <4>7, <5>1
      <4> QED
        BY <3>2, <4>6, <4>7
    <3> QED
      BY <1>3, <3>1, <3>2
  <2>6. Continues(R, call', frames')
    BY <1>2, <1>3, <1>4, <1>8, <2>2, <2>5, CompletesMeaning
  <2>7. IsSeq(choices) /\ ChoicesContinue(R, choices)
    BY DEF IInv, Sound, ChoicesOK, MeansNow, IsMeant
  <2>8. CASE Top.then = "curly"
    <3>1. choices' = Append(choices, [call |-> Restore(w.at), frames |-> <<>>]) /\ braced' = braced \cup {w.at}
      BY <1>6, <1>8, <2>8 DEF Suspend
    <3>2. ChoicesContinue(R, choices')
      BY <2>7, <3>1, SuspendedToo, FailsMeaning
    <3>3. Type(w.at) = "open_curly"
      BY <1>4, <2>8 DEF ForBracket
    <3>4. Marked(infix', postfix', braced')
      BY <1>5, <1>8, <3>1, <3>3 DEF MeansNow, IsMeant, Marked
    <3> QED
      BY <1>8, <2>6, <3>2, <3>4, StaysMarked
  <2>9. CASE Top.then # "curly"
    BY <1>8, <2>6, <2>7, <2>9, Stays
  <2> QED
    BY <2>8, <2>9
<1>9. CASE Missing(At - 1)
  BY <1>9, MissingMeaning
<1> QED
  BY <1>8, <1>9 DEF expect_bracket

\* The frame of the key of a pair.
LEMMA read_keyMeans ==
    ASSUME NEW R, Closed(R), IInv, MeansNow(R), read_key
    PROVE  MeansNext(R)
<1> DEFINE n == Len(tokens)
<1>1. Answers({"key"})
  BY DEF read_key
<1>2. PICK v, w : TopAwaits(R, v, w)
  BY <1>1, Yielded
<1>3. /\ n \in Nat /\ Top.then = "key"
      /\ Type(At) # "none" => At \in 2..n
      /\ \A i \in Nat : Type(i) # "none" => i <= n
  BY <1>1, Yielded
<1>4. ForKey(R, Top, v, w) /\ Top.prec = w.prec /\ Top.ctx = w.ctx
  BY <1>2, <1>3, FrameKinds DEF TopAwaits
<1>5. /\ v.at \in 1..n + 1 /\ w.at \in 1..n + 1 /\ w.ctx \in Contexts /\ At \in v.at + 1..n + 1
      /\ Some(R, v.at, At, v.ctx, v.prec, call.term)
  BY <1>2 DEF TopAwaits
<1>6. /\ Top.token = w.at + 1 /\ IsName(w.at) /\ Type(w.at + 1) = "open_curly"
      /\ v.prec = 1200 /\ v.ctx = KeyContext(w.ctx)
  BY <1>4 DEF ForKey
<1>7. w.at \in 1..n /\ w.at + 1 \in 1..n
  BY <1>3, <1>5, <1>6
\* the pairs so far, and the key
<1>8. Terms \in R[<<w.at, At>>].keyed[w.ctx] /\ w.at < At
  <2>1. PICK i, u, j, t, terms, ctx :
            i = w.at /\ u = v.at /\ j = At /\ t = call.term /\ terms = Top.terms /\ ctx = w.ctx
    OBVIOUS
  <2>2. /\ i \in 1..n /\ u \in 1..n + 1 /\ j \in 1..n + 1 /\ u < j /\ i + 1 \in 1..n /\ ctx \in Contexts
        /\ IsName(i) /\ Type(i + 1) = "open_curly" /\ Some(R, u, j, KeyContext(ctx), 1200, t)
        /\ \/ u = i + 2 /\ terms = <<Atomic(i)>>
           \/ u - 1 > i /\ Type(u - 1) = "comma" /\ terms \in R[<<i, u - 1>>].valued[ctx]
    BY <1>4, <1>5, <1>6, <1>7, <2>1 DEF ForKey
  <2>3. KeyedRule(R)
    BY DEF Closed
  <2>4. Append(terms, t) \in R[<<i, j>>].keyed[ctx]
    BY <1>3, <2>2, <2>3, KeyedMore
  <2>5. i < j
    BY <2>2
  <2> QED
    BY <2>1, <2>4, <2>5 DEF Terms
<1>9. CASE /\ IsAtom(At, ":")
           /\ First(Now("value"), Read(At + 1, 1200, Top.ctx \cup {"comma"}), Tail(frames))
           /\ Quietly
  <2>1. PICK f : f = Now("value")
    OBVIOUS
  <2>2. PICK u : u = Wanted(At + 1, 1200, ValueContext(w.ctx))
    OBVIOUS
  <2>3. u.at = At + 1 /\ u.prec = 1200 /\ u.ctx = ValueContext(w.ctx)
    BY <2>2 DEF Wanted
  <2>4. f.then = "value" /\ f.token = w.at + 1 /\ f.terms = Terms
    BY <1>6, <2>1, NowIs
  <2>5. Type(At) = "atom"
    BY <1>9 DEF IsAtom
  <2>6. u.at - 1 = At /\ At > w.at /\ At \in 2..n /\ w.at < At
    BY <1>3, <1>7, <1>8, <2>3, <2>5
  <2>7. ForValue(R, f, u, w)
    BY <1>6, <1>8, <1>9, <2>3, <2>4, <2>6 DEF ForValue
  <2>8. First(f, Read(At + 1, 1200, ValueContext(w.ctx)), Tail(frames)) /\ 1200 \in Nat /\ Quietly
    BY <1>4, <1>9, <2>1 DEF ValueContext
  <2> QED
    BY <1>2, <1>3, <1>4, <1>5, <1>9, <2>1, <2>2, <2>6, <2>7, <2>8, MoreMeaning, ContextsInside
<1>10. CASE Missing(At - 1)
  BY <1>10, MissingMeaning
<1> QED
  BY <1>9, <1>10 DEF read_key

\* The frame of its value.
LEMMA read_valueMeans ==
    ASSUME NEW R, Closed(R), IInv, MeansNow(R), read_value
    PROVE  MeansNext(R)
<1> DEFINE n == Len(tokens)
<1>1. Answers({"value"})
  BY DEF read_value
<1>2. PICK v, w : TopAwaits(R, v, w)
  BY <1>1, Yielded
<1>3. /\ n \in Nat /\ Top.then = "value"
      /\ Type(At) # "none" => At \in 2..n
      /\ \A i \in Nat : Type(i) # "none" => i <= n
  BY <1>1, Yielded
<1>4. ForValue(R, Top, v, w) /\ Top.prec = w.prec /\ Top.ctx = w.ctx
  BY <1>2, <1>3, FrameKinds DEF TopAwaits
<1>5. /\ v.at \in 1..n + 1 /\ w.at \in 1..n + 1 /\ w.ctx \in Contexts /\ At \in v.at + 1..n + 1
      /\ Some(R, v.at, At, v.ctx, v.prec, call.term) /\ AwaitAll(R, Tail(frames), w)
  BY <1>2 DEF TopAwaits
<1>6. /\ Top.token = w.at + 1 /\ IsName(w.at) /\ Type(w.at + 1) = "open_curly"
      /\ v.prec = 1200 /\ v.ctx = ValueContext(w.ctx)
  BY <1>4 DEF ForValue
<1>7. w.at \in 1..n /\ w.at + 1 \in 1..n
  BY <1>3, <1>5, <1>6
\* the pairs so far
<1>8. Terms \in R[<<w.at, At>>].valued[w.ctx] /\ w.at < At
  <2>1. PICK i, u, j, t, terms, ctx :
            i = w.at /\ u = v.at /\ j = At /\ t = call.term /\ terms = Top.terms /\ ctx = w.ctx
    OBVIOUS
  <2>2. /\ i \in 1..n /\ u \in 1..n + 1 /\ j \in 1..n + 1 /\ u < j /\ ctx \in Contexts
        /\ Some(R, u, j, ValueContext(ctx), 1200, t)
        /\ u - 1 > i /\ IsAtom(u - 1, ":") /\ terms \in R[<<i, u - 1>>].keyed[ctx]
    BY <1>4, <1>5, <1>6, <1>7, <2>1 DEF ForValue
  <2>3. ValuedRule(R)
    BY DEF Closed
  <2>4. Append(terms, t) \in R[<<i, j>>].valued[ctx]
    BY <1>3, <2>2, <2>3, ValuedMore
  <2>5. i < j
    BY <2>2
  <2> QED
    BY <2>1, <2>4, <2>5 DEF Terms
<1>9. CASE /\ Type(At) = "comma"
           /\ First(Now("key"), Read(At + 1, 1200, Top.ctx \cup {"colon", "comma"}), Tail(frames))
           /\ Quietly
  <2>1. PICK f : f = Now("key")
    OBVIOUS
  <2>2. PICK u : u = Wanted(At + 1, 1200, KeyContext(w.ctx))
    OBVIOUS
  <2>3. u.at = At + 1 /\ u.prec = 1200 /\ u.ctx = KeyContext(w.ctx)
    BY <2>2 DEF Wanted
  <2>4. f.then = "key" /\ f.token = w.at + 1 /\ f.terms = Terms
    BY <1>6, <2>1, NowIs
  <2>6. u.at - 1 = At /\ At > w.at /\ At \in 2..n /\ w.at < At
    BY <1>3, <1>7, <1>8, <1>9, <2>3
  <2>7. ForKey(R, f, u, w)
    BY <1>6, <1>8, <1>9, <2>3, <2>4, <2>6 DEF ForKey
  <2>8. First(f, Read(At + 1, 1200, KeyContext(w.ctx)), Tail(frames)) /\ 1200 \in Nat /\ Quietly
    <3>1. Top.ctx \cup {"colon", "comma"} = KeyContext(w.ctx)
      BY <1>4 DEF KeyContext
    <3> QED
      BY <1>9, <2>1, <3>1
  <2>9. Type(At) \in {"comma", "ht_sep"}
    BY <1>9
  <2> QED
    BY <1>2, <1>3, <1>4, <1>5, <2>1, <2>2, <2>6, <2>7, <2>8, <2>9, MoreMeaning, ContextsInside
<1>10. CASE /\ Type(At) = "close_curly"
            /\ DictEnds
            /\ Quietly
  <2>1. At \in 2..n /\ At \in 1..n
    BY <1>3, <1>10
  <2>2. Has(R, w.at, At + 1, w.ctx, <<0, Node("dict", w.at + 1, Terms)>>)
    <3>1. DictRule(R)
      BY DEF Closed
    <3> QED
      BY <1>5, <1>7, <1>8, <1>10, <2>1, <3>1 DEF DictRule
  <2>3. Complete(At + 1, Node("dict", w.at + 1, Terms))
    BY <1>6, <1>10 DEF DictEnds
  <2>4. Continues(R, call', frames')
    BY <1>2, <1>3, <1>4, <1>8, <2>1, <2>2, <2>3, CompletesMeaning
  <2>5. Continues(R, OtherThanDict(w.at), Tail(frames))
    <3>1. w.at + 1 \in w.at + 1..n + 1
      BY <1>7
    <3>2. CASE Type(w.at) = "atom"
      <4>1. MayTake(w.at)
        BY <1>6 DEF MayTake
      <4>2. OtherThanDict(w.at) = AtomTail(w.at, w.prec, w.ctx)
        BY <1>4, <3>2 DEF OtherThanDict
      <4> QED
        BY <1>5, <3>2, <4>1, <4>2, CallsStand DEF Continues
    <3>3. CASE Type(w.at) # "atom"
      <4>1. Has(R, w.at, w.at + 1, w.ctx, <<0, Atomic(w.at)>>)
        <5>1. Type(w.at) \in AtomicType /\ SingleRule(R)
          BY <1>6, TypeNames DEF Closed
        <5> QED
          BY <1>5, <1>7, <5>1 DEF SingleRule
      <4>2. OtherThanDict(w.at) = Exprtl0(w.at + 1, Atomic(w.at), w.prec, w.ctx)
        BY <1>4, <3>3 DEF OtherThanDict
      <4> QED
        BY <1>5, <3>1, <4>1, <4>2, CallsStand DEF Continues
    <3> QED
      BY <3>2, <3>3
  <2>6. choices' = Append(choices, [call |-> OtherThanDict(w.at), frames |-> Tail(frames)])
    <3>1. Top.token - 1 = w.at
      BY <1>6, <1>7
    <3> QED
      BY <1>10, <3>1 DEF DictEnds, Suspend
  <2>7. IsSeq(choices) /\ ChoicesContinue(R, choices)
    BY DEF IInv, Sound, ChoicesOK, MeansNow, IsMeant
  <2>8. ChoicesContinue(R, choices')
    BY <2>5, <2>6, <2>7, SuspendedToo
  <2> QED
    BY <1>10, <2>4, <2>8, Stays, QuietFacts
<1>11. CASE GoOn(Return(Top.depth)) /\ Quietly
  BY <1>11, GoesOnMeaning, FailsMeaning, QuietFacts
<1>12. CASE Missing(At)
  BY <1>12, MissingMeaning
<1> QED
  BY <1>9, <1>10, <1>11, <1>12 DEF read_value

\* A return gives up the generators that are newer.
LEMMA returnMeans ==
    ASSUME NEW R, IInv, MeansNow(R), return
    PROVE  MeansNext(R)
<1>1. call.fn = "return" /\ call' = Fail /\ choices' = SubSeq(choices, 1, call.depth) /\ Quietly
  BY DEF return, Runs, Oldest
<1>2. call.depth \in 0..Len(choices)
  BY <1>1, Here DEF CallOK
<1>3. ChoicesContinue(R, choices')
  BY <1>1, <1>2, AbandonedToo DEF IInv, Sound, ChoicesOK, MeansNow, IsMeant
<1>4. Continues(R, call', frames')
  BY <1>1, FailsMeaning
<1> QED
  BY <1>1, <1>3, <1>4, Stays, QuietFacts

\* A brace is taken from the annotations again.
LEMMA restoreMeans ==
    ASSUME NEW R, IInv, MeansNow(R), restore
    PROVE  MeansNext(R)
<1>1. GoOn(Fail) /\ braced' = braced \ {call.token} /\ UNCHANGED <<infix, postfix, last>>
  BY DEF restore
<1>2. Continues(R, call', frames')
  BY <1>1, FailsMeaning DEF GoOn
<1>3. ChoicesContinue(R, choices')
  BY <1>1 DEF GoOn, MeansNow, IsMeant
<1>4. Marked(infix', postfix', braced')
  BY <1>1 DEF MeansNow, IsMeant, Marked
<1> QED
  BY <1>1, <1>2, <1>3, <1>4, StaysMarked

\* The newest generator is resumed.
LEMMA resumeMeans ==
    ASSUME NEW R, IInv, MeansNow(R), resume
    PROVE  MeansNext(R)
<1>1. /\ choices # <<>> /\ call' = Newest.call /\ frames' = Newest.frames
      /\ choices' = SubSeq(choices, 1, Len(choices) - 1) /\ Quietly
  BY DEF resume, Oldest
<1>2. IsSeq(choices) /\ ChoicesContinue(R, choices)
  BY DEF IInv, Sound, ChoicesOK, MeansNow, IsMeant
<1>3. Len(choices) \in Nat /\ Len(choices) > 0
  BY <1>1, <1>2, Popped, LenOf
<1>4. Continues(R, call', frames')
  BY <1>1, <1>2, <1>3 DEF ChoicesContinue, Newest
<1>5. ChoicesContinue(R, choices')
  BY <1>1, <1>2, <1>3, AbandonedToo
<1> QED
  BY <1>1, <1>4, <1>5, Stays, QuietFacts

\* The first call is to read the clause.
LEMMA ClauseIsWanted == Len(tokens) \in Nat => IsWanted(Clause)
<1>1. Clause = Wanted(Clause.at, Clause.prec, Clause.ctx) /\ Clause.at = 1 /\ Clause.prec = 1200 /\ Clause.ctx = {}
  BY DEF Clause, Wanted
<1>2. Introduced(1)
  BY DEF Introduced
<1> QED
  BY <1>1, <1>2, ContextsInside DEF IsWanted

\* The reader of the clause takes what is yielded, or gives up.
LEMMA nextMeans ==
    ASSUME NEW R, IInv, MeansNow(R), next
    PROVE  MeansNext(R)
<1>1. CASE /\ Runs("yield") /\ frames = <<>>
           /\ last' = [at |-> At, term |-> call.term]
           /\ call' = IF all_read(At) THEN Done ELSE Fail
           /\ UNCHANGED <<tokens, frames, choices, annotations, errors>>
  <2>1. call.fn = "yield" /\ Reads(call)
    BY <1>1 DEF Runs, Reads
  <2>2. PICK v : /\ AwaitAll(R, frames, v) /\ Stands(R, call, v)
                 /\ IsWanted(v) /\ v.at \in 1..Len(tokens) + 1 /\ v.prec \in Nat /\ v.ctx \in Contexts
    BY <2>1, Standing
  <2>3. Len(tokens) \in Nat
    BY Here
  <2>4. v = Clause
    BY <1>1, <2>2, <2>3, NoFrames, ClauseIsWanted
  <2>5. v.at = 1 /\ v.prec = 1200 /\ v.ctx = {}
    BY <2>4 DEF Clause, Wanted
  <2>6. At \in 2..Len(tokens) + 1 /\ Some(R, 1, At, {}, 1200, call.term)
    BY <2>1, <2>2, <2>5 DEF Stands, At
  <2>7. last'.at = At /\ last'.term = call.term
    BY <1>1
  <2>8. KeptMeans(R, last')
    BY <2>6, <2>7 DEF KeptMeans
  <2>9. Continues(R, call', frames')
    BY <1>1, FailsMeaning
  <2>10. choices' = choices /\ infix' = infix /\ postfix' = postfix /\ braced' = braced
    BY <1>1 DEF annotations
  <2> QED
    BY <2>8, <2>9, <2>10 DEF MeansNow, MeansNext, IsMeant
<1>2. CASE GoOn(Done) /\ Quietly
  BY <1>2, GoesOnMeaning, FailsMeaning, QuietFacts
<1> QED
  BY <1>1, <1>2 DEF next

\* Every step keeps the meaning.
LEMMA NextMeans ==
    ASSUME NEW R, Closed(R), IInv, MeansNow(R), Next
    PROVE  MeansNext(R)
BY readMeans, atomMeans, after_prefix_opMeans, exprtl0Means, ambigopMeans, exprtlMeans,
   postfix_operatorMeans, onceMeans, operandMeans, read_argsMeans, read_listMeans,
   expect_bracketMeans, read_keyMeans, read_valueMeans, restoreMeans, returnMeans, resumeMeans,
   nextMeans
   DEF Next, Generators

\* No step changes the tokens.
LEMMA TokensStay ==
    ASSUME [Next]_vars
    PROVE  tokens' = tokens
<1>1. CASE UNCHANGED vars
  BY <1>1 DEF vars
<1>2. CASE read
  BY <1>2, QuietFacts, ReportFacts
     DEF read, ReadNothing, ReadOperand, ReadAtomic, ReadNegative, ReadCompound, ReadEmptyDict,
         ReadDict, ReadBracketed, CannotStart
<1>3. CASE atom \/ exprtl0 \/ ambigop
  BY <1>3, QuietFacts, ReportFacts DEF atom, exprtl0, ambigop
<1>4. CASE after_prefix_op
  BY <1>4, QuietFacts, ReportFacts DEF after_prefix_op, PrefixOutOfPlace, PrefixAsAtom, PrefixWithOperand
<1>5. CASE exprtl \/ postfix_operator \/ once \/ operand
  BY <1>5, QuietFacts DEF exprtl, postfix_operator, once, operand
<1>6. CASE read_args \/ read_list \/ expect_bracket \/ read_key \/ read_value
  BY <1>6, QuietFacts, ReportFacts
     DEF read_args, read_list, expect_bracket, read_key, read_value, Missing
<1>7. CASE restore \/ return \/ resume \/ next
  BY <1>7, QuietFacts DEF restore, return, resume, next
<1> QED
  BY <1>1, <1>2, <1>3, <1>4, <1>5, <1>6, <1>7 DEF Next, Generators

\* What is read is meant, at first
LEMMA InitMeans == ASSUME Init PROVE MInv
<1>1. Len(tokens) \in Nat
  BY InitInv, Here
<1>2. SUFFICES ASSUME NEW R
               PROVE  IsMeant(R, call, frames, choices, infix, postfix, braced, last)
  BY DEF MInv
<1>3. AwaitAll(R, <<>>, Clause)
  BY <1>1, NoFrames, ClauseIsWanted
<1>4. Stands(R, Read(1, 1200, {}), Clause)
  <2>1. Clause.at = 1 /\ Clause.prec = 1200 /\ Clause.ctx = {}
    BY DEF Clause, Wanted
  <2>2. Stands(R, Read(Clause.at, Clause.prec, Clause.ctx), Clause)
    BY CallsStand
  <2> QED
    BY <2>1, <2>2
<1>5. Continues(R, call, frames)
  BY <1>3, <1>4 DEF Init, Continues
<1>6. ChoicesContinue(R, choices)
  <2>1. Len(<<>>) = 0
    OBVIOUS
  <2> QED
    BY <2>1 DEF Init, ChoicesContinue
<1>7. Marked(infix, postfix, braced) /\ KeptMeans(R, last)
  BY DEF Init, Marked, KeptMeans
<1> QED
  BY <1>5, <1>6, <1>7 DEF IsMeant

\* and after every step.
LEMMA StepMeans == ASSUME IInv, MInv, [Next]_vars PROVE MInv'
<1>1. tokens' = tokens
  BY TokensStay
<1>2. PICK c, fs, ch, inf, post, br, l :
          /\ c = call' /\ fs = frames' /\ ch = choices'
          /\ inf = infix' /\ post = postfix' /\ br = braced' /\ l = last'
  OBVIOUS
<1>3. ASSUME NEW R, Closed(R)'
      PROVE  IsMeant(R, c, fs, ch, inf, post, br, l)'
  <2>1. Closed(R)
    BY <1>1, <1>3, SameRules
  <2>2. MeansNow(R)
    BY <2>1 DEF MInv, MeansNow
  <2>3. MeansNext(R)
    <3>1. CASE Next
      BY <2>1, <2>2, <3>1, NextMeans
    <3>2. CASE UNCHANGED vars
      BY <2>2, <3>2 DEF MeansNow, MeansNext, vars, annotations
    <3> QED
      BY <3>1, <3>2
  <2>4. IsMeant(R, c, fs, ch, inf, post, br, l)
    BY <1>2, <2>3 DEF MeansNext
  <2> QED
    BY <1>1, <2>4, SameMeaning
<1>4. ASSUME NEW R, Closed(R)'
      PROVE  IsMeant(R, call, frames, choices, infix, postfix, braced, last)'
  BY <1>2, <1>3, <1>4
<1> QED
  BY <1>4 DEF MInv

\* So what is read is meant, in all states.
LEMMA MInvHolds == Spec => []MInv
<1>1. Init => MInv
  BY InitMeans
<1>2. IInv /\ MInv /\ [Next]_vars => MInv'
  BY StepMeans
<1> QED
  BY <1>1, <1>2, IInvHolds, PTL DEF Spec

-------------------------------------------------------------------------------
(* The readings of the parts of a clause are closed under the rules. *)

\* The readings of the parts of at most n tokens, from those of n - 1.
Layer(shorter, n, free) ==
    [s \in Spans(n) |-> IF s[2] - s[1] < n THEN shorter[s] ELSE ReadingsOf(shorter, s[1], s[2], free)]

IsLayers(f, m, free) == f = [n \in 0..m |-> Layer(f[n - 1], n, free)]

\* There are no parts without tokens.
LEMMA NoSpans ==
    ASSUME NEW a, NEW b, NEW free
    PROVE  Layer(a, 0, free) = Layer(b, 0, free)
<1>1. Spans(0) = {}
  BY DEF Spans
<1> QED
  BY <1>1 DEF Layer

\* The smallest of a set of numbers.
LEMMA Smallest ==
    ASSUME NEW S, S \subseteq Nat, S # {}
    PROVE  \E m \in S : \A k \in S : m <= k
<1> DEFINE Smaller == OpToRel(<, Nat)
<1>0. IsWellFoundedOn(Smaller, Nat)
  BY NatLessThanWellFounded
<1>1. PICK m \in S : \A k \in S : ~ (<<k, m>> \in Smaller)
  <2> HIDE DEF Smaller
  <2> QED
    BY <1>0, WFMin
<1>2. ASSUME NEW k \in S  PROVE m <= k
  <2>1. ~ (<<k, m>> \in {ss \in Nat \X Nat : ss[1] < ss[2]})
    BY <1>1, Zenon DEF OpToRel
  <2>2. k \in Nat /\ m \in Nat
    OBVIOUS
  <2> HIDE DEF Smaller
  <2> QED
    BY <2>1, <2>2
<1> QED
  BY <1>2

\* Induction over an interval.
LEMMA ByInterval ==
    ASSUME NEW n \in Nat, NEW S, 0 \in S, \A k \in 0..n - 1 : k \in S => k + 1 \in S
    PROVE  0..n \subseteq S
<1> DEFINE T == 0..n \ S
<1> SUFFICES ASSUME T # {} PROVE FALSE
  OBVIOUS
<1>1. T \subseteq Nat
  OBVIOUS
<1>2. PICK m \in T : \A k \in T : m <= k
  <2> HIDE DEF T
  <2> QED
    BY <1>1, Smallest
<1>3. m # 0 /\ m \in 0..n
  BY <1>2
<1>4. m - 1 \in 0..n - 1 /\ m - 1 \in S
  BY <1>2, <1>3
<1>5. m \in S
  BY <1>3, <1>4
<1> QED
  BY <1>2, <1>5

\* There are readings of every length,
LEMMA LayersExist ==
    ASSUME NEW m \in Nat, NEW free
    PROVE  \E f : IsLayers(f, m, free)
<1> DEFINE S == {k \in Nat : \E f : IsLayers(f, k, free)}
<1>1. 0 \in S
  <2> DEFINE f == [n \in 0..0 |-> Layer(<<>>, n, free)]
  <2>1. f[0] = Layer(f[0 - 1], 0, free)
    BY NoSpans
  <2>2. \A n \in 0..0 : n = 0
    OBVIOUS
  <2>3. \A n \in 0..0 : Layer(<<>>, n, free) = Layer(f[n - 1], n, free)
    BY <2>2, NoSpans
  <2>4. f = [n \in 0..0 |-> Layer(f[n - 1], n, free)]
    BY <2>3
  <2> HIDE DEF f
  <2> QED
    BY <2>4 DEF IsLayers
<1>2. ASSUME NEW k \in Nat, k \in S
      PROVE  k + 1 \in S
  <2>1. PICK f : IsLayers(f, k, free)
    BY <1>2
  <2> DEFINE g == [n \in 0..k + 1 |-> IF n <= k THEN f[n] ELSE Layer(f[k], n, free)]
  <2>2. \A n \in 0..k : g[n] = f[n] /\ f[n] = Layer(f[n - 1], n, free)
    BY <2>1 DEF IsLayers
  <2>3. g[k + 1] = Layer(f[k], k + 1, free)
    OBVIOUS
  <2>4. g = [n \in 0..k + 1 |-> g[n]]
    OBVIOUS
  <2> HIDE DEF g
  <2>5. ASSUME NEW n \in 0..k + 1
        PROVE  g[n] = Layer(g[n - 1], n, free)
    <3>1. CASE n = 0
      BY <2>2, <3>1, NoSpans
    <3>2. CASE n \in 1..k
      <4>1. n - 1 \in 0..k
        BY <3>2
      <4> QED
        BY <2>2, <3>2, <4>1
    <3>3. CASE n = k + 1
      <4>1. n - 1 = k /\ k \in 0..k
        BY <3>3
      <4> QED
        BY <2>2, <2>3, <3>3, <4>1
    <3> QED
      BY <3>1, <3>2, <3>3
  <2>6. g = [n \in 0..k + 1 |-> Layer(g[n - 1], n, free)]
    BY <2>4, <2>5
  <2> QED
    BY <2>6 DEF IsLayers
<1>3. \A k \in 0..m - 1 : k \in S => k + 1 \in S
  <2> HIDE DEF S
  <2> QED
    BY <1>2
<1>4. 0..m \subseteq S
  <2> HIDE DEF S
  <2> QED
    BY <1>1, <1>3, ByInterval
<1> QED
  BY <1>4

\* which Readings are.
LEMMA ReadingsAreLayers ==
    ASSUME Len(tokens) \in Nat, NEW free
    PROVE  \E f : IsLayers(f, Len(tokens), free) /\ Readings(free) = f[Len(tokens)]
<1> DEFINE n == Len(tokens)
           f == CHOOSE f : f = [k \in 0..n |->
                     [s \in Spans(k) |-> IF s[2] - s[1] < k THEN f[k - 1][s]
                                         ELSE ReadingsOf(f[k - 1], s[1], s[2], free)]]
<1>1. Readings(free) = f[n]
  BY DEF Readings
<1>2. f = CHOOSE g : IsLayers(g, n, free)
  BY DEF IsLayers, Layer
<1> HIDE DEF f
<1>3. IsLayers(f, n, free)
  BY <1>2, LayersExist
<1> QED
  BY <1>1, <1>3

\* A layer keeps the readings of shorter parts,
LEMMA LayersKeep ==
    ASSUME Len(tokens) \in Nat, NEW free, NEW f, IsLayers(f, Len(tokens), free),
           NEW d \in 0..Len(tokens), NEW s \in Spans(d)
    PROVE  f[Len(tokens)][s] = f[d][s]
<1> DEFINE S == {k \in 0..Len(tokens) - d : f[d + k][s] = f[d][s]}
<1>1. 0 \in S
  OBVIOUS
<1>2. ASSUME NEW k \in 0..Len(tokens) - d - 1, k \in S
      PROVE  k + 1 \in S
  <2>1. PICK n : n = d + k + 1
    OBVIOUS
  <2>2. n \in 0..Len(tokens) /\ n - 1 = d + k
    BY <2>1
  <2>3. f[n] = Layer(f[n - 1], n, free)
    BY <2>2 DEF IsLayers
  <2>4. s \in Spans(n) /\ s[2] - s[1] < n
    BY <2>1 DEF Spans
  <2>5. f[n][s] = f[n - 1][s]
    BY <2>3, <2>4 DEF Layer
  <2>6. f[d + k][s] = f[d][s]
    BY <1>2
  <2>7. d + (k + 1) = n
    BY <2>1
  <2> QED
    BY <2>2, <2>5, <2>6, <2>7
<1>3. Len(tokens) - d \in Nat
  OBVIOUS
<1>4. 0..Len(tokens) - d \subseteq S
  <2> HIDE DEF S
  <2> QED
    BY <1>1, <1>2, <1>3, ByInterval
<1>5. PICK n : n = Len(tokens) - d
  OBVIOUS
<1>6. n \in 0..Len(tokens) - d /\ d + n = Len(tokens)
  BY <1>5
<1>7. n \in S
  <2> HIDE DEF S
  <2> QED
    BY <1>4, <1>6
<1> QED
  BY <1>6, <1>7

\* so the readings of a part come from those of all shorter ones.
LEMMA ReadingsUnfold ==
    ASSUME Len(tokens) \in Nat, NEW free,
           NEW i \in 1..Len(tokens), NEW j \in 2..Len(tokens) + 1, i < j
    PROVE  \E shorter :
              /\ \A s \in Spans(j - i - 1) : shorter[s] = Readings(free)[s]
              /\ Readings(free)[<<i, j>>] = ReadingsOf(shorter, i, j, free)
<1>1. PICK f : IsLayers(f, Len(tokens), free) /\ Readings(free) = f[Len(tokens)]
  BY ReadingsAreLayers
<1>2. PICK d : d = j - i
  OBVIOUS
<1>3. d \in 1..Len(tokens) /\ d - 1 \in 0..Len(tokens)
  BY <1>2
<1>4. PICK s : s = <<i, j>>
  OBVIOUS
<1>5. s \in Spans(d) /\ s[1] = i /\ s[2] = j
  BY <1>2, <1>3, <1>4 DEF Spans
<1>6. f[d] = Layer(f[d - 1], d, free)
  BY <1>1, <1>3 DEF IsLayers
<1>7. ~ (s[2] - s[1] < d)
  BY <1>2, <1>5
<1>8. f[d][s] = ReadingsOf(f[d - 1], i, j, free)
  BY <1>5, <1>6, <1>7 DEF Layer
<1>9. f[Len(tokens)][s] = f[d][s]
  BY <1>1, <1>3, <1>5, LayersKeep
<1>10. \A z \in Spans(d - 1) : f[d - 1][z] = f[Len(tokens)][z]
  BY <1>1, <1>3, LayersKeep
<1>11. d - 1 = j - i - 1
  BY <1>2
<1>12. \A z \in Spans(j - i - 1) : f[d - 1][z] = Readings(free)[z]
  BY <1>1, <1>10, <1>11
<1>13. Readings(free)[<<i, j>>] = ReadingsOf(f[d - 1], i, j, free)
  BY <1>1, <1>4, <1>8, <1>9
<1> QED
  BY <1>12, <1>13

\* The readings R of the tokens from i up to j are those from the readings S.
Unfolds(S, R, i, j) ==
    /\ \A s \in Spans(j - i - 1) : S[s] = R[s]
    /\ R[<<i, j>>] = ReadingsOf(S, i, j, AllLiberties)

\* S has the readings of each part of what is between i and j,
LEMMA PartsAgree ==
    ASSUME Len(tokens) \in Nat,
           NEW i \in 1..Len(tokens), NEW j \in 2..Len(tokens) + 1, NEW S, NEW R,
           Unfolds(S, R, i, j),
           NEW a \in 1..Len(tokens), NEW b \in 2..Len(tokens) + 1,
           a < b, i <= a, b <= j, i < a \/ b < j
    PROVE  S[<<a, b>>] = R[<<a, b>>]
<1>1. PICK s : s = <<a, b>>
  OBVIOUS
<1>2. s \in Spans(j - i - 1)
  BY <1>1 DEF Spans
<1> QED
  BY <1>1, <1>2 DEF Unfolds

\* with the terms.
LEMMA TermsAgree ==
    ASSUME NEW S, NEW R, NEW a, NEW b, S[<<a, b>>] = R[<<a, b>>], a < b,
           NEW ctx, NEW prec, NEW t, Some(R, a, b, ctx, prec, t)
    PROVE  /\ t \in TermsOf(S, a, b, ctx, prec)
           /\ t \in Inside(S, a, b, ctx, prec)
BY DEF Some, TermsOf, AtMost, Inside

\* What is no operation is a reading of the part,
LEMMA SimpleIsRead ==
    ASSUME NEW S, NEW R, NEW i, NEW j, Unfolds(S, R, i, j), NEW ctx \in Contexts,
           NEW t \in Simple(S, i, j, ctx, AllLiberties)
    PROVE  Has(R, i, j, ctx, <<0, t>>)
BY DEF Unfolds, ReadingsOf, Has

\* and what is one.
LEMMA OperationIsRead ==
    ASSUME NEW S, NEW R, NEW i, NEW j, Unfolds(S, R, i, j), NEW ctx \in Contexts,
           NEW r \in Operations(S, i, j, ctx, AllLiberties)
    PROVE  Has(R, i, j, ctx, r)
BY DEF Unfolds, ReadingsOf, Has

\* Single tokens, signed integers and empty dicts.
LEMMA SinglesAreRead ==
    ASSUME NEW S, NEW R, NEW i, NEW ctx \in Contexts
    PROVE  /\ Unfolds(S, R, i, i + 1) /\ Type(i) \in AtomicType
                  => Has(R, i, i + 1, ctx, <<0, Atomic(i)>>)
           /\ Unfolds(S, R, i, i + 2) /\ IsAtom(i, "-") /\ Type(i + 1) = "integer"
                  => Has(R, i, i + 2, ctx, <<0, Node("negative", i, <<>>)>>)
           /\ Unfolds(S, R, i, i + 2) /\ IsName(i)
              /\ (IsAtom(i + 1, "{}") \/ TakenForEmpty(i, AllLiberties))
                  => Has(R, i, i + 2, ctx, <<0, Node("dict", i + 1, <<Atomic(i)>>)>>)
<1>1. Type(i) \in AtomicType => Atomic(i) \in Simple(S, i, i + 1, ctx, AllLiberties)
  BY DEF Simple, Single, AllLiberties
<1>2. IsAtom(i, "-") /\ Type(i + 1) = "integer"
         => Node("negative", i, <<>>) \in Simple(S, i, i + 2, ctx, AllLiberties)
  BY DEF Simple, Single
<1>3. IsName(i) /\ (IsAtom(i + 1, "{}") \/ TakenForEmpty(i, AllLiberties))
         => Node("dict", i + 1, <<Atomic(i)>>) \in Simple(S, i, i + 2, ctx, AllLiberties)
  BY DEF Simple, Single
<1> QED
  BY <1>1, <1>2, <1>3, SimpleIsRead

\* R has the readings of every part from those of shorter ones,
Unfolded(R) ==
    \A i \in 1..Len(tokens), j \in 2..Len(tokens) + 1 :
        i < j => \E S : Unfolds(S, R, i, j)

\* as the readings of the grammar have,
LEMMA ReadingsUnfolded ==
    ASSUME Len(tokens) \in Nat
    PROVE  Unfolded(Readings(AllLiberties))
BY ReadingsUnfold DEF Unfolded, Unfolds

\* and so it is closed under the rules.
LEMMA SingleRules ==
    ASSUME Len(tokens) \in Nat, NEW R, Unfolded(R)
    PROVE  SingleRule(R) /\ NegativeRule(R) /\ EmptyDictRule(R)
<1>1. ASSUME NEW i \in 1..Len(tokens), NEW ctx \in Contexts, Type(i) \in AtomicType
      PROVE  Has(R, i, i + 1, ctx, <<0, Atomic(i)>>)
  <2>1. i + 1 \in 2..Len(tokens) + 1 /\ i < i + 1
    OBVIOUS
  <2>2. PICK S : Unfolds(S, R, i, i + 1)
    BY <2>1 DEF Unfolded
  <2> QED
    BY <1>1, <2>2, SinglesAreRead
<1>2. ASSUME NEW i \in 1..Len(tokens) - 1, NEW ctx \in Contexts
      PROVE  /\ IsAtom(i, "-") /\ Type(i + 1) = "integer"
                   => Has(R, i, i + 2, ctx, <<0, Node("negative", i, <<>>)>>)
             /\ IsName(i) /\ (IsAtom(i + 1, "{}") \/ TakenForEmpty(i, AllLiberties))
                   => Has(R, i, i + 2, ctx, <<0, Node("dict", i + 1, <<Atomic(i)>>)>>)
  <2>1. i \in 1..Len(tokens) /\ i + 2 \in 2..Len(tokens) + 1 /\ i < i + 2
    OBVIOUS
  <2>2. PICK S : Unfolds(S, R, i, i + 2)
    BY <2>1 DEF Unfolded
  <2> QED
    BY <2>2, SinglesAreRead
<1> QED
  BY <1>1, <1>2 DEF SingleRule, NegativeRule, EmptyDictRule

\* What a bracket at j closes is read.
LEMMA EndedIsRead ==
    ASSUME Len(tokens) \in Nat, NEW R, NEW i \in 1..Len(tokens), NEW j \in 1..Len(tokens),
           i < j, NEW S, Unfolds(S, R, i, j + 1), NEW ctx \in Contexts,
           NEW t \in EndedBy(S, i, j, ctx)
    PROVE  Has(R, i, j + 1, ctx, <<0, t>>)
<1>1. i + 1 < j + 1 /\ (j + 1) - 1 = j
  OBVIOUS
<1>2. t \in Simple(S, i, j + 1, ctx, AllLiberties)
  BY <1>1 DEF Simple
<1> QED
  BY <1>2, SimpleIsRead

\* with shorter parts that end in front of the bracket.
LEMMA EndedUnfolds ==
    ASSUME Len(tokens) \in Nat, NEW R, Unfolded(R),
           NEW i \in 1..Len(tokens), NEW j \in 1..Len(tokens), i < j
    PROVE  \E S : /\ Unfolds(S, R, i, j + 1)
                  /\ \A a \in 1..Len(tokens), b \in 2..Len(tokens) + 1 :
                        a < b /\ i <= a /\ b <= j => S[<<a, b>>] = R[<<a, b>>]
<1>1. j + 1 \in 2..Len(tokens) + 1 /\ i < j + 1
  OBVIOUS
<1>2. PICK S : Unfolds(S, R, i, j + 1)
  BY <1>1 DEF Unfolded
<1>3. ASSUME NEW a \in 1..Len(tokens), NEW b \in 2..Len(tokens) + 1, a < b, i <= a, b <= j
      PROVE  S[<<a, b>>] = R[<<a, b>>]
  <2>1. b <= j + 1 /\ b < j + 1
    BY <1>3
  <2> QED
    BY <1>1, <1>2, <1>3, <2>1, PartsAgree
<1> QED
  BY <1>2, <1>3

\* What is closed by a bracket at c.
Ends(S, i, c, ctx) ==
    /\ Type(c) = "close" =>
          /\ \A args \in S[<<i, c>>].args : Node("compound", i, args) \in EndedBy(S, i, c, ctx)
          /\ Type(i) \in {"open", "open_ct"}
                => \A t \in Inside(S, i + 1, c, {}, 1200) : t \in EndedBy(S, i, c, ctx)
    /\ Type(c) = "close_curly" =>
          /\ \A pairs \in S[<<i, c>>].valued[ctx] :
                Node("dict", i + 1, pairs) \in EndedBy(S, i, c, ctx)
          /\ Type(i) = "open_curly"
                => \A t \in Inside(S, i + 1, c, {}, 1200) :
                       Node("curly", i, <<t>>) \in EndedBy(S, i, c, ctx)
    /\ Type(c) = "close_list" =>
          /\ \A items \in S[<<i, c>>].items : Node("list", i, items) \in EndedBy(S, i, c, ctx)
          /\ \A k \in i + 1..c : Type(k) = "ht_sep" =>
                \A items \in S[<<i, k>>].items, t \in Inside(S, k + 1, c, {"comma", "bar"}, 999) :
                    Node("partial_list", i, Append(items, t)) \in EndedBy(S, i, c, ctx)

\* That is what EndedBy has.
LEMMA EndsOf ==
    ASSUME NEW S, NEW i, NEW c, NEW ctx
    PROVE  Ends(S, i, c, ctx)
<1> DEFINE Compounds == {Node("compound", i, args) : args \in S[<<i, c>>].args}
           Parens == IF Type(i) \in {"open", "open_ct"} THEN Inside(S, i + 1, c, {}, 1200) ELSE {}
           Dicts  == {Node("dict", i + 1, pairs) : pairs \in S[<<i, c>>].valued[ctx]}
           Curlys == IF Type(i) = "open_curly"
                     THEN {Node("curly", i, <<t>>) : t \in Inside(S, i + 1, c, {}, 1200)} ELSE {}
           Lists  == {Node("list", i, items) : items \in S[<<i, c>>].items}
           Tails(k) == {Node("partial_list", i, Append(items, t)) :
                           items \in S[<<i, k>>].items, t \in Inside(S, k + 1, c, {"comma", "bar"}, 999)}
           Partial == UNION {Tails(k) : k \in {m \in i + 1..c : Type(m) = "ht_sep"}}
<1>1. EndedBy(S, i, c, ctx) = CASE Type(c) = "close"       -> Compounds \cup Parens
                                [] Type(c) = "close_curly" -> Dicts \cup Curlys
                                [] Type(c) = "close_list"  -> Lists \cup Partial
                                [] OTHER                   -> {}
  BY DEF EndedBy
<1>2. \A args \in S[<<i, c>>].args : Node("compound", i, args) \in Compounds
  OBVIOUS
<1>3. Type(i) \in {"open", "open_ct"} => \A t \in Inside(S, i + 1, c, {}, 1200) : t \in Parens
  OBVIOUS
<1>4. \A pairs \in S[<<i, c>>].valued[ctx] : Node("dict", i + 1, pairs) \in Dicts
  OBVIOUS
<1>5. Type(i) = "open_curly" => \A t \in Inside(S, i + 1, c, {}, 1200) : Node("curly", i, <<t>>) \in Curlys
  OBVIOUS
<1>6. \A items \in S[<<i, c>>].items : Node("list", i, items) \in Lists
  OBVIOUS
<1>7. \A k : \A items \in S[<<i, k>>].items, t \in Inside(S, k + 1, c, {"comma", "bar"}, 999) :
          Node("partial_list", i, Append(items, t)) \in Tails(k)
  OBVIOUS
<1>8. \A k \in i + 1..c : Type(k) = "ht_sep" => Tails(k) \subseteq Partial
  <2> HIDE DEF Tails
  <2> QED
    OBVIOUS
<1> HIDE DEF Compounds, Parens, Dicts, Curlys, Lists, Tails, Partial
<1>9. Type(c) = "close" => EndedBy(S, i, c, ctx) = Compounds \cup Parens
  BY <1>1
<1>10. Type(c) = "close_curly" => EndedBy(S, i, c, ctx) = Dicts \cup Curlys
  BY <1>1
<1>11. Type(c) = "close_list" => EndedBy(S, i, c, ctx) = Lists \cup Partial
  BY <1>1
<1>12. \A k \in i + 1..c : Type(k) = "ht_sep" =>
          \A items \in S[<<i, k>>].items, t \in Inside(S, k + 1, c, {"comma", "bar"}, 999) :
              Node("partial_list", i, Append(items, t)) \in Partial
  BY <1>7, <1>8
<1> QED
  BY <1>2, <1>3, <1>4, <1>5, <1>6, <1>9, <1>10, <1>11, <1>12 DEF Ends

\* The rules of compound terms, dicts, lists, parentheses and braces,
LEMMA BracketRules ==
    ASSUME Len(tokens) \in Nat, NEW R, Unfolded(R)
    PROVE  CompoundRule(R) /\ DictRule(R) /\ ListRule(R) /\ ParenRule(R) /\ CurlyRule(R)
<1> SUFFICES ASSUME NEW i \in 1..Len(tokens), NEW j \in 1..Len(tokens), NEW ctx \in Contexts, i < j
             PROVE  /\ Type(j) = "close" => \A args \in R[<<i, j>>].args :
                           Has(R, i, j + 1, ctx, <<0, Node("compound", i, args)>>)
                    /\ Type(j) = "close_curly" => \A pairs \in R[<<i, j>>].valued[ctx] :
                           Has(R, i, j + 1, ctx, <<0, Node("dict", i + 1, pairs)>>)
                    /\ Type(j) = "close_list" => \A items \in R[<<i, j>>].items :
                           Has(R, i, j + 1, ctx, <<0, Node("list", i, items)>>)
                    /\ i + 1 < j /\ Type(j) = "close" /\ Type(i) \in {"open", "open_ct"}
                          => \A t : Some(R, i + 1, j, {}, 1200, t) => Has(R, i, j + 1, ctx, <<0, t>>)
                    /\ i + 1 < j /\ Type(j) = "close_curly" /\ Type(i) = "open_curly"
                          => \A t : Some(R, i + 1, j, {}, 1200, t)
                                 => Has(R, i, j + 1, ctx, <<0, Node("curly", i, <<t>>)>>)
  <2>1. \A i, j \in 1..Len(tokens) : i + 1 < j => i < j
    OBVIOUS
  <2> QED
    BY <2>1 DEF CompoundRule, DictRule, ListRule, ParenRule, CurlyRule
<1>1. PICK S : /\ Unfolds(S, R, i, j + 1)
               /\ \A a \in 1..Len(tokens), b \in 2..Len(tokens) + 1 :
                     a < b /\ i <= a /\ b <= j => S[<<a, b>>] = R[<<a, b>>]
  BY EndedUnfolds
<1>0. Ends(S, i, j, ctx)
  BY EndsOf
<1>2. S[<<i, j>>] = R[<<i, j>>]
  <2>1. j \in 2..Len(tokens) + 1 /\ i <= i /\ j <= j
    OBVIOUS
  <2> QED
    BY <1>1, <2>1
<1>3. i + 1 < j => S[<<i + 1, j>>] = R[<<i + 1, j>>]
  <2>1. i + 1 < j => i + 1 \in 1..Len(tokens) /\ j \in 2..Len(tokens) + 1 /\ i <= i + 1 /\ j <= j
    OBVIOUS
  <2> QED
    BY <1>1, <2>1
<1>4. \A t \in EndedBy(S, i, j, ctx) : Has(R, i, j + 1, ctx, <<0, t>>)
  BY <1>1, EndedIsRead
<1>5. Type(j) = "close" => \A args \in R[<<i, j>>].args : Node("compound", i, args) \in EndedBy(S, i, j, ctx)
  BY <1>2, <1>0 DEF Ends
<1>6. Type(j) = "close_curly" => \A pairs \in R[<<i, j>>].valued[ctx] :
           Node("dict", i + 1, pairs) \in EndedBy(S, i, j, ctx)
  BY <1>2, <1>0 DEF Ends
<1>7. Type(j) = "close_list" => \A items \in R[<<i, j>>].items : Node("list", i, items) \in EndedBy(S, i, j, ctx)
  BY <1>2, <1>0 DEF Ends
<1>8. ASSUME NEW t, i + 1 < j, Some(R, i + 1, j, {}, 1200, t)
      PROVE  t \in Inside(S, i + 1, j, {}, 1200)
  BY <1>3, <1>8, TermsAgree
<1>9. i + 1 < j /\ Type(j) = "close" /\ Type(i) \in {"open", "open_ct"}
         => \A t : Some(R, i + 1, j, {}, 1200, t) => t \in EndedBy(S, i, j, ctx)
  BY <1>8, <1>0 DEF Ends
<1>10. i + 1 < j /\ Type(j) = "close_curly" /\ Type(i) = "open_curly"
         => \A t : Some(R, i + 1, j, {}, 1200, t) => Node("curly", i, <<t>>) \in EndedBy(S, i, j, ctx)
  BY <1>8, <1>0 DEF Ends
<1> QED
  BY <1>4, <1>5, <1>6, <1>7, <1>9, <1>10

\* and of the tail of a list.
LEMMA TailRules ==
    ASSUME Len(tokens) \in Nat, NEW R, Unfolded(R)
    PROVE  TailRule(R)
<1> SUFFICES ASSUME NEW i \in 1..Len(tokens), NEW k \in 1..Len(tokens), NEW j \in 1..Len(tokens),
                    NEW ctx \in Contexts,
                    i < k, k + 1 < j, Type(k) = "ht_sep", Type(j) = "close_list",
                    NEW items \in R[<<i, k>>].items, NEW t, Some(R, k + 1, j, ListContext, 999, t)
             PROVE  Has(R, i, j + 1, ctx, <<0, Node("partial_list", i, Append(items, t))>>)
  BY DEF TailRule
<1>0. i < j
  OBVIOUS
<1>1. PICK S : /\ Unfolds(S, R, i, j + 1)
               /\ \A a \in 1..Len(tokens), b \in 2..Len(tokens) + 1 :
                     a < b /\ i <= a /\ b <= j => S[<<a, b>>] = R[<<a, b>>]
  BY <1>0, EndedUnfolds
<1>2. S[<<i, k>>] = R[<<i, k>>]
  <2>1. k \in 2..Len(tokens) + 1 /\ i <= i /\ k <= j
    OBVIOUS
  <2> QED
    BY <1>1, <2>1
<1>3. S[<<k + 1, j>>] = R[<<k + 1, j>>]
  <2>1. k + 1 \in 1..Len(tokens) /\ j \in 2..Len(tokens) + 1 /\ i <= k + 1 /\ j <= j
    OBVIOUS
  <2> QED
    BY <1>1, <2>1
<1>4. t \in Inside(S, k + 1, j, {"comma", "bar"}, 999)
  BY <1>3, TermsAgree DEF ListContext
<1>5. k \in {m \in i + 1..j : Type(m) = "ht_sep"}
  OBVIOUS
<1>6. Node("partial_list", i, Append(items, t)) \in EndedBy(S, i, j, ctx)
  <2>1. Ends(S, i, j, ctx)
    BY EndsOf
  <2>2. \A its \in S[<<i, k>>].items, u \in Inside(S, k + 1, j, {"comma", "bar"}, 999) :
            Node("partial_list", i, Append(its, u)) \in EndedBy(S, i, j, ctx)
    BY <1>5, <2>1 DEF Ends
  <2> QED
    BY <1>2, <1>4, <2>2
<1> QED
  BY <1>0, <1>1, <1>6, EndedIsRead

\* The readings of a part from those S of shorter ones, which are R's.
Shorter(S, R, i, j) ==
    \A a \in 1..Len(tokens), b \in 2..Len(tokens) + 1 :
        a < b /\ i <= a /\ b <= j /\ (i < a \/ b < j) => S[<<a, b>>] = R[<<a, b>>]

\* Every part has such readings.
LEMMA PartUnfolds ==
    ASSUME Len(tokens) \in Nat, NEW R, Unfolded(R),
           NEW i \in 1..Len(tokens), NEW j \in 2..Len(tokens) + 1, i < j
    PROVE  \E S : Unfolds(S, R, i, j) /\ Shorter(S, R, i, j)
<1>1. PICK S : Unfolds(S, R, i, j)
  BY DEF Unfolded
<1>2. ASSUME NEW a \in 1..Len(tokens), NEW b \in 2..Len(tokens) + 1,
             a < b, i <= a, b <= j, i < a \/ b < j
      PROVE  S[<<a, b>>] = R[<<a, b>>]
  BY <1>1, <1>2, PartsAgree
<1> QED
  BY <1>1, <1>2 DEF Shorter

\* With a term behind k.
LEMMA TermBehind ==
    ASSUME Len(tokens) \in Nat, NEW R, Unfolded(R),
           NEW i \in 1..Len(tokens), NEW k \in 1..Len(tokens), NEW j \in 1..Len(tokens) + 1,
           i <= k, k + 1 < j
    PROVE  \E S : /\ Unfolds(S, R, i, j)
                  /\ i < k => S[<<i, k>>] = R[<<i, k>>]
                  /\ S[<<k + 1, j>>] = R[<<k + 1, j>>]
                  /\ \A ctx, prec : \A t : Some(R, k + 1, j, ctx, prec, t) =>
                        t \in TermsOf(S, k + 1, j, ctx, prec) /\ t \in Inside(S, k + 1, j, ctx, prec)
<1>1. j \in 2..Len(tokens) + 1 /\ i < j
  OBVIOUS
<1>2. PICK S : Unfolds(S, R, i, j) /\ Shorter(S, R, i, j)
  BY <1>1, PartUnfolds
<1>3. ASSUME i < k
      PROVE  S[<<i, k>>] = R[<<i, k>>]
  <2>1. k \in 2..Len(tokens) + 1 /\ i <= i /\ k <= j /\ k < j
    BY <1>3
  <2> QED
    BY <1>2, <1>3, <2>1 DEF Shorter
<1>4. S[<<k + 1, j>>] = R[<<k + 1, j>>]
  <2>1. k + 1 \in 1..Len(tokens) /\ i <= k + 1 /\ i < k + 1 /\ j <= j
    OBVIOUS
  <2> QED
    BY <1>1, <1>2, <2>1 DEF Shorter
<1>5. ASSUME NEW ctx, NEW prec, NEW t, Some(R, k + 1, j, ctx, prec, t)
      PROVE  t \in TermsOf(S, k + 1, j, ctx, prec) /\ t \in Inside(S, k + 1, j, ctx, prec)
  BY <1>4, <1>5, TermsAgree
<1> QED
  BY <1>2, <1>3, <1>4, <1>5

\* The arguments of a compound term,
LEMMA ArgsOf ==
    ASSUME NEW S, NEW i, NEW j, Type(i) = "atom", Type(i + 1) = "open_ct"
    PROVE  /\ \A t \in Inside(S, i + 2, j, {"comma"}, 1200) : <<t>> \in Args(S, i, j)
           /\ \A k \in i + 1..j - 2 : Type(k) = "comma" =>
                 \A args \in S[<<i, k>>].args, t \in Inside(S, k + 1, j, {"comma"}, 1200) :
                     Append(args, t) \in Args(S, i, j)
BY DEF Args

\* whose rule R is closed under;
LEMMA ArgsRules ==
    ASSUME Len(tokens) \in Nat, NEW R, Unfolded(R)
    PROVE  ArgsRule(R)
<1> SUFFICES ASSUME NEW i \in 1..Len(tokens), NEW k \in 1..Len(tokens), NEW j \in 1..Len(tokens) + 1, NEW t,
                    i < k, k + 1 < j, Type(i) = "atom", Type(i + 1) = "open_ct",
                    Some(R, k + 1, j, ArgsContext, 1200, t)
             PROVE  /\ k = i + 1 => <<t>> \in R[<<i, j>>].args
                    /\ Type(k) = "comma" => \A args \in R[<<i, k>>].args : Append(args, t) \in R[<<i, j>>].args
  BY DEF ArgsRule
<1>1. i <= k /\ k \in i + 1..j - 2 /\ (k = i + 1 => k + 1 = i + 2)
  OBVIOUS
<1>2. PICK S : /\ Unfolds(S, R, i, j)
               /\ i < k => S[<<i, k>>] = R[<<i, k>>]
               /\ \A ctx, prec : \A u : Some(R, k + 1, j, ctx, prec, u) =>
                     u \in TermsOf(S, k + 1, j, ctx, prec) /\ u \in Inside(S, k + 1, j, ctx, prec)
  BY <1>1, TermBehind
<1>3. t \in Inside(S, k + 1, j, {"comma"}, 1200)
  BY <1>2 DEF ArgsContext
<1>4. R[<<i, j>>].args = Args(S, i, j)
  BY <1>2 DEF Unfolds, ReadingsOf
<1>5. k = i + 1 => <<t>> \in Args(S, i, j)
  BY <1>1, <1>3, ArgsOf
<1>6. Type(k) = "comma" => \A args \in S[<<i, k>>].args : Append(args, t) \in Args(S, i, j)
  BY <1>1, <1>3, ArgsOf
<1> QED
  BY <1>2, <1>4, <1>5, <1>6

\* the items of a list,
LEMMA ItemsOf ==
    ASSUME NEW S, NEW i, NEW j, Type(i) = "open_list"
    PROVE  /\ \A t \in Inside(S, i + 1, j, {"comma", "bar"}, 999) : <<t>> \in Items(S, i, j)
           /\ \A k \in i + 1..j - 2 : Type(k) = "comma" =>
                 \A items \in S[<<i, k>>].items, t \in Inside(S, k + 1, j, {"comma", "bar"}, 999) :
                     Append(items, t) \in Items(S, i, j)
BY DEF Items

\* with their rule;
LEMMA ItemsRules ==
    ASSUME Len(tokens) \in Nat, NEW R, Unfolded(R)
    PROVE  ItemsRule(R)
<1> SUFFICES ASSUME NEW i \in 1..Len(tokens), NEW k \in 1..Len(tokens), NEW j \in 1..Len(tokens) + 1, NEW t,
                    i <= k, k + 1 < j, Type(i) = "open_list",
                    Some(R, k + 1, j, ListContext, 999, t)
             PROVE  /\ k = i => <<t>> \in R[<<i, j>>].items
                    /\ i < k /\ Type(k) = "comma"
                          => \A items \in R[<<i, k>>].items : Append(items, t) \in R[<<i, j>>].items
  BY DEF ItemsRule
<1>1. i < k => k \in i + 1..j - 2
  OBVIOUS
<1>2. PICK S : /\ Unfolds(S, R, i, j)
               /\ i < k => S[<<i, k>>] = R[<<i, k>>]
               /\ \A ctx, prec : \A u : Some(R, k + 1, j, ctx, prec, u) =>
                     u \in TermsOf(S, k + 1, j, ctx, prec) /\ u \in Inside(S, k + 1, j, ctx, prec)
  BY TermBehind
<1>3. t \in Inside(S, k + 1, j, {"comma", "bar"}, 999)
  BY <1>2 DEF ListContext
<1>4. R[<<i, j>>].items = Items(S, i, j)
  BY <1>2 DEF Unfolds, ReadingsOf
<1>5. k = i => <<t>> \in Items(S, i, j)
  BY <1>3, ItemsOf
<1>6. i < k /\ Type(k) = "comma" => \A items \in S[<<i, k>>].items : Append(items, t) \in Items(S, i, j)
  BY <1>1, <1>3, ItemsOf
<1> QED
  BY <1>2, <1>4, <1>5, <1>6

\* the keys of a dict,
LEMMA KeyedOf ==
    ASSUME NEW S, NEW i, NEW j, NEW ctx, IsName(i), Type(i + 1) = "open_curly"
    PROVE  /\ \A t \in Inside(S, i + 2, j, KeyContext(ctx), 1200) : <<Atomic(i), t>> \in Keyed(S, i, j, ctx)
           /\ \A k \in i + 1..j - 2 : Type(k) = "comma" =>
                 \A pairs \in S[<<i, k>>].valued[ctx], t \in Inside(S, k + 1, j, KeyContext(ctx), 1200) :
                     Append(pairs, t) \in Keyed(S, i, j, ctx)
<1> DEFINE C == ctx \cup {"comma", "colon"}
           More(k) == {Append(pairs, key) : pairs \in S[<<i, k>>].valued[ctx], key \in Inside(S, k + 1, j, C, 1200)}
<1>1. KeyContext(ctx) = C
  BY DEF KeyContext
<1>2. Keyed(S, i, j, ctx) = {<<Atomic(i), key>> : key \in Inside(S, i + 2, j, C, 1200)}
                            \cup UNION {More(k) : k \in {m \in i + 1..j - 2 : Type(m) = "comma"}}
  BY DEF Keyed
<1>3. \A k : \A pairs \in S[<<i, k>>].valued[ctx], t \in Inside(S, k + 1, j, C, 1200) : Append(pairs, t) \in More(k)
  <2> HIDE DEF C
  <2> QED
    OBVIOUS
<1> HIDE DEF C, More
<1>4. \A k \in i + 1..j - 2 : Type(k) = "comma" => More(k) \subseteq Keyed(S, i, j, ctx)
  BY <1>2
<1>5. \A t \in Inside(S, i + 2, j, C, 1200) : <<Atomic(i), t>> \in Keyed(S, i, j, ctx)
  BY <1>2
<1>6. \A k \in i + 1..j - 2 : Type(k) = "comma" =>
         \A pairs \in S[<<i, k>>].valued[ctx], t \in Inside(S, k + 1, j, C, 1200) :
             Append(pairs, t) \in Keyed(S, i, j, ctx)
  BY <1>3, <1>4
<1> QED
  BY <1>1, <1>5, <1>6

\* with theirs;
LEMMA KeyedRules ==
    ASSUME Len(tokens) \in Nat, NEW R, Unfolded(R)
    PROVE  KeyedRule(R)
<1> USE DEF KeyedRule
<1> TAKE i, k \in 1..Len(tokens), j \in 1..Len(tokens) + 1, ctx \in Contexts
<1> TAKE t
<1> HAVE /\ i < k /\ k + 1 < j
         /\ IsName(i) /\ Type(i + 1) = "open_curly"
         /\ Some(R, k + 1, j, KeyContext(ctx), 1200, t)
<1> HIDE DEF KeyedRule
<1>1. i <= k /\ k \in i + 1..j - 2 /\ (k = i + 1 => k + 1 = i + 2)
  OBVIOUS
<1>2. PICK S : /\ Unfolds(S, R, i, j)
               /\ i < k => S[<<i, k>>] = R[<<i, k>>]
               /\ \A con, prec : \A u : Some(R, k + 1, j, con, prec, u) =>
                     u \in TermsOf(S, k + 1, j, con, prec) /\ u \in Inside(S, k + 1, j, con, prec)
  BY <1>1, TermBehind
<1>3. t \in Inside(S, k + 1, j, KeyContext(ctx), 1200)
  BY <1>2
<1>4. R[<<i, j>>].keyed[ctx] = Keyed(S, i, j, ctx)
  BY <1>2 DEF Unfolds, ReadingsOf
<1>5. k = i + 1 => <<Atomic(i), t>> \in Keyed(S, i, j, ctx)
  BY <1>1, <1>3, KeyedOf
<1>6. Type(k) = "comma" => \A pairs \in S[<<i, k>>].valued[ctx] : Append(pairs, t) \in Keyed(S, i, j, ctx)
  BY <1>1, <1>3, KeyedOf
<1> QED
  BY <1>2, <1>4, <1>5, <1>6

\* and the values.
LEMMA ValuedRules ==
    ASSUME Len(tokens) \in Nat, NEW R, Unfolded(R)
    PROVE  ValuedRule(R)
<1> SUFFICES ASSUME NEW i \in 1..Len(tokens), NEW k \in 1..Len(tokens), NEW j \in 1..Len(tokens) + 1,
                    NEW ctx \in Contexts, NEW t,
                    i < k, k + 1 < j, IsAtom(k, ":"),
                    Some(R, k + 1, j, ValueContext(ctx), 1200, t),
                    NEW keys \in R[<<i, k>>].keyed[ctx]
             PROVE  Append(keys, t) \in R[<<i, j>>].valued[ctx]
  BY DEF ValuedRule
<1>1. i <= k /\ k \in i + 1..j - 2
  OBVIOUS
<1>2. PICK S : /\ Unfolds(S, R, i, j)
               /\ i < k => S[<<i, k>>] = R[<<i, k>>]
               /\ \A con, prec : \A u : Some(R, k + 1, j, con, prec, u) =>
                     u \in TermsOf(S, k + 1, j, con, prec) /\ u \in Inside(S, k + 1, j, con, prec)
  BY <1>1, TermBehind
<1>3. t \in Inside(S, k + 1, j, ctx \cup {"comma"}, 1200)
  BY <1>2 DEF ValueContext
<1>4. R[<<i, j>>].valued[ctx] = Valued(S, i, j, ctx)
  BY <1>2 DEF Unfolds, ReadingsOf
<1>5. keys \in S[<<i, k>>].keyed[ctx]
  BY <1>2
<1>6. k \in {m \in i + 1..j - 2 : IsAtom(m, ":")}
  BY <1>1
<1>7. Append(keys, t) \in Valued(S, i, j, ctx)
  BY <1>3, <1>5, <1>6 DEF Valued
<1> QED
  BY <1>4, <1>7

\* The operations: of a prefix operator,
LEMMA PrefixRules ==
    ASSUME Len(tokens) \in Nat, NEW R, Unfolded(R)
    PROVE  PrefixRule(R)
<1> SUFFICES ASSUME NEW i \in 1..Len(tokens), NEW j \in 1..Len(tokens) + 1, NEW ctx \in Contexts, NEW t,
                    IsPrefix(i), MayTake(i), i + 1 < j, Some(R, i + 1, j, ctx, Prefix(i).rPrec, t)
             PROVE  Has(R, i, j, ctx, <<Prefix(i).opPrec, Node("prefix", i, <<t>>)>>)
  BY DEF PrefixRule
<1>1. i <= i
  OBVIOUS
<1>2. PICK S : /\ Unfolds(S, R, i, j)
               /\ \A con, prec : \A u : Some(R, i + 1, j, con, prec, u) =>
                     u \in TermsOf(S, i + 1, j, con, prec) /\ u \in Inside(S, i + 1, j, con, prec)
  BY <1>1, TermBehind
<1>3. t \in TermsOf(S, i + 1, j, ctx, Prefix(i).rPrec)
  BY <1>2
<1>4. "tag" \in AllLiberties
  BY DEF AllLiberties
<1>5. <<Prefix(i).opPrec, Node("prefix", i, <<t>>)>> \in Prefixed(S, i, j, ctx, AllLiberties)
  BY <1>3, <1>4 DEF Prefixed
<1>6. <<Prefix(i).opPrec, Node("prefix", i, <<t>>)>> \in Operations(S, i, j, ctx, AllLiberties)
  BY <1>5 DEF Operations
<1> QED
  BY <1>2, <1>6, OperationIsRead

\* of a postfix operator,
LEMMA PostfixRules ==
    ASSUME Len(tokens) \in Nat, NEW R, Unfolded(R)
    PROVE  PostfixRule(R)
<1> SUFFICES ASSUME NEW i \in 1..Len(tokens), NEW k \in 1..Len(tokens), NEW ctx \in Contexts, NEW t,
                    i < k, IsPostfix(k), Some(R, i, k, ctx, Postfix(k).lPrec, t)
             PROVE  Has(R, i, k + 1, ctx, <<Postfix(k).opPrec, Node("postfix", k, <<t>>)>>)
  BY DEF PostfixRule
<1>1. PICK S : /\ Unfolds(S, R, i, k + 1)
               /\ \A a \in 1..Len(tokens), b \in 2..Len(tokens) + 1 :
                     a < b /\ i <= a /\ b <= k => S[<<a, b>>] = R[<<a, b>>]
  BY EndedUnfolds
<1>2. k \in 2..Len(tokens) + 1 /\ i <= i /\ k <= k /\ (k + 1) - 1 = k
  OBVIOUS
<1>3. S[<<i, k>>] = R[<<i, k>>]
  BY <1>1, <1>2
<1>4. t \in TermsOf(S, i, k, ctx, Postfix(k).lPrec)
  BY <1>3, TermsAgree
<1>5. <<Postfix(k).opPrec, Node("postfix", k, <<t>>)>> \in Postfixed(S, i, (k + 1) - 1, ctx)
  BY <1>2, <1>4 DEF Postfixed
<1>6. <<Postfix(k).opPrec, Node("postfix", k, <<t>>)>> \in Operations(S, i, k + 1, ctx, AllLiberties)
  BY <1>5 DEF Operations
<1> QED
  BY <1>1, <1>6, OperationIsRead

\* and of what is between two terms.
LEMMA InfixRules ==
    ASSUME Len(tokens) \in Nat, NEW R, Unfolded(R)
    PROVE  InfixRule(R)
<1> SUFFICES ASSUME NEW i \in 1..Len(tokens), NEW k \in 1..Len(tokens), NEW j \in 1..Len(tokens) + 1,
                    NEW ctx \in Contexts, NEW t,
                    i < k, k + 1 < j, IsBetween(k), Some(R, k + 1, j, ctx, Fixity(k).rPrec, t),
                    NEW l \in R[<<i, k>>].terms[ctx], IsLeft(l, i, k, ctx)
             PROVE  Has(R, i, j, ctx, <<Fixity(k).opPrec, Node("infix", k, <<l[2], t>>)>>)
  BY DEF InfixRule
<1>1. i <= k /\ k \in i + 1..j - 2
  OBVIOUS
<1>2. PICK S : /\ Unfolds(S, R, i, j)
               /\ i < k => S[<<i, k>>] = R[<<i, k>>]
               /\ \A con, prec : \A u : Some(R, k + 1, j, con, prec, u) =>
                     u \in TermsOf(S, k + 1, j, con, prec) /\ u \in Inside(S, k + 1, j, con, prec)
  BY <1>1, TermBehind
<1>3. t \in TermsOf(S, k + 1, j, ctx, Fixity(k).rPrec)
  BY <1>2
<1>4. l \in Lefts(S, i, k, ctx, AllLiberties)
  BY <1>2 DEF Lefts, AtMost, IsLeft
<1>5. <<Fixity(k).opPrec, Node("infix", k, <<l[2], t>>)>> \in Joined(S, i, k, j, ctx, AllLiberties)
  BY <1>3, <1>4 DEF Joined
<1>6. k \in {m \in i + 1..j - 2 : IsBetween(m)}
  BY <1>1
<1>7. <<Fixity(k).opPrec, Node("infix", k, <<l[2], t>>)>> \in Operations(S, i, j, ctx, AllLiberties)
  BY <1>5, <1>6 DEF Operations
<1> QED
  BY <1>2, <1>7, OperationIsRead

\* All rules together.
LEMMA ReadingsAreClosed ==
    ASSUME Len(tokens) \in Nat
    PROVE  Closed(Readings(AllLiberties))
BY ReadingsUnfolded, SingleRules, BracketRules, TailRules, ArgsRules, ItemsRules, KeyedRules, ValuedRules,
   PrefixRules, PostfixRules, InfixRules DEF Closed

\* The node that is kept for a clause is a meaning of the tokens it was read from,
\* whatever the operators are and whatever was tried and given up before.
THEOREM KeptIsAlwaysMeant == Spec => []KeptIsMeant
<1>1. IInv /\ MInv => KeptIsMeant
  <2> SUFFICES ASSUME IInv, MInv, Finished
               PROVE  last.term \in Meanings(last.at - 1, AllLiberties) \cup {Atomic(1)}
    BY DEF KeptIsMeant
  <2>1. Len(tokens) \in Nat
    BY TokensAssumption DEF IInv, TypeOK
  <2>2. KeptMeans(Readings(AllLiberties), last)
    BY <2>1, ReadingsAreClosed DEF MInv, IsMeant
  <2>3. ASSUME last.at \in 2..Len(tokens) + 1, Some(Readings(AllLiberties), 1, last.at, {}, 1200, last.term)
        PROVE  last.term \in Meanings(last.at - 1, AllLiberties)
    <3>1. (last.at - 1) + 1 = last.at /\ 1 < last.at
      BY <2>1, <2>3
    <3> QED
      BY <2>3, <3>1 DEF Some, Meanings, TermsOf, AtMost
  <2> QED
    BY <2>2, <2>3 DEF KeptMeans
<1> QED
  BY IInvHolds, MInvHolds, <1>1, PTL

-------------------------------------------------------------------------------
(* The reading of a clause comes to an end. *)

\* What a frame for the pairs of a dict says of position p: the reader may come back to the
\* name that is there.
DictName(fs, p) == \E i \in 1..Len(fs) : InDict(fs[i]) /\ fs[i].token = p + 1

\* What is still to be tried at a position where a call is.
Weight(fn) == CASE fn = "after_prefix_op"                      -> 6
                [] fn = "read"                                 -> 5
                [] fn \in {"atom", "exprtl0"}                  -> 3
                [] fn \in {"ambigop", "postfix"}               -> 2
                [] OTHER                                       -> 1

\* What is still to be tried at position p when the call c runs in the frames fs: everything
\* in front of the call, and behind it a name that is tried as the tag of a dict.
Mark(c, fs, p) == IF p > c.at THEN 7
                  ELSE IF p = c.at THEN Weight(c.fn)
                  ELSE IF DictName(fs, p) THEN 4
                  ELSE 0

Positions == 1..Len(tokens) + 1

\* The call d in the frames gs has less to try at position p, and as much before.
Nearer(d, gs, p) ==
    /\ \A q \in 1..p - 1 : Mark(d, gs, q) = Mark(call, frames, q)
    /\ Mark(d, gs, p) < Mark(call, frames, p)

AsNear(d, gs) == \A p \in Positions : Mark(d, gs, p) = Mark(call, frames, p)

\* It goes on at the same place: fewer frames wait for it, or the same ones for what the
\* running call has come to, or for its next turn.
StaysLess(d, gs) ==
    \/ Len(gs) < Len(frames)
    \/ gs = frames /\ d.fn = "yield" /\ call.fn = "exprtl"
    \/ /\ gs = frames /\ d.fn = call.fn /\ d.fn \in {"after_prefix_op", "postfix"} /\ d.at = At
       /\ d.turn > call.turn /\ call.turn <= Len(Turns(At))

\* The call d in the frames gs is less than the running call in its frames.
IsLess(d, gs) ==
    \/ Reads(call) /\ ~ Reads(d)
    \/ call.fn \in {"return", "restore"} /\ d.fn = "fail"
    \/ call.fn = "fail" /\ d.fn = "done"
    \/ /\ Reads(call) /\ Reads(d)
       /\ \/ \E p \in Positions : Nearer(d, gs, p)
          \/ AsNear(d, gs) /\ StaysLess(d, gs)

\* A step puts lesser calls in the place of the running one and of the suspended generators
\* that it abandons; or the call is at its end, and a suspended generator goes on.
GetsLess ==
    \/ /\ IsLess(call', frames')
       /\ \E k \in 0..Len(choices) :
             /\ Len(choices') >= k
             /\ \A i \in 1..k : choices'[i] = choices[i]
             /\ \A i \in k + 1..Len(choices') : IsLess(choices'[i].call, choices'[i].frames)
    \/ /\ Runs("fail") /\ choices # <<>>
       /\ call' = Newest.call /\ frames' = Newest.frames
       /\ choices' = Oldest(Len(choices) - 1)

IsAt(d, i) == Reads(d) /\ d.at = i

\* A call that is further on, or that has less to try at the same place.
Lesser(d, i) ==
    /\ IsAt(d, i)
    /\ \/ i > At
       \/ i = At /\ Weight(d.fn) < Weight(call.fn)

\* Frames that have the names of the frames of the running call.
SameNames(gs) == \A q \in 1..At - 1 : DictName(gs, q) <=> DictName(frames, q)

\* Where calls are, and what is to be tried there.
LEMMA Places ==
    ASSUME NEW i, NEW prec, NEW ctx, NEW term, NEW left, NEW turn
    PROVE  /\ IsAt(Read(i, prec, ctx), i)
           /\ IsAt(AtomTail(i, prec, ctx), i)
           /\ IsAt(Exprtl0(i, term, prec, ctx), i)
           /\ IsAt(Exprtl(i, left, term, prec, ctx), i)
           /\ IsAt(AfterPrefixOp(i, turn, prec, ctx), i)
           /\ IsAt(Yield(i, term), i)
           /\ IsAt(Ambigop(i, term, prec, ctx), i)
           /\ IsAt(AfterPostfix(i, turn, term, prec, ctx), i)
BY DEF IsAt, Reads, Read, AtomTail, Exprtl0, Exprtl, AfterPrefixOp, Yield, Ambigop, AfterPostfix

LEMMA Weights ==
    ASSUME IInv, Reads(call)
    PROVE  /\ Weight(call.fn) \in 1..6
           /\ call.fn = "read" => Weight(call.fn) = 5
           /\ call.fn = "atom" => Weight(call.fn) = 3
           /\ call.fn = "after_prefix_op" => Weight(call.fn) = 6
           /\ call.fn = "exprtl0" => Weight(call.fn) = 3
           /\ call.fn \in {"ambigop", "postfix"} => Weight(call.fn) = 2
BY DEF Weight

LEMMA NamesInFront ==
    ASSUME NEW fs, IsSeq(fs), NEW f, NEW p
    PROVE  DictName(<<f>> \o fs, p) <=> (InDict(f) /\ f.token = p + 1) \/ DictName(fs, p)
<1> DEFINE gs == <<f>> \o fs
<1>1. /\ Len(fs) \in Nat /\ Len(gs) = Len(fs) + 1 /\ gs[1] = f
      /\ \A i \in 1..Len(fs) : gs[i + 1] = fs[i]
  BY Pushed, LenOf
<1> HIDE DEF gs
<1>2. ASSUME DictName(gs, p) PROVE (InDict(f) /\ f.token = p + 1) \/ DictName(fs, p)
  <2>1. PICK i \in 1..Len(gs) : InDict(gs[i]) /\ gs[i].token = p + 1
    BY <1>2 DEF DictName
  <2>2. CASE i = 1
    BY <1>1, <2>1, <2>2
  <2>3. CASE i # 1
    <3>1. i - 1 \in 1..Len(fs) /\ (i - 1) + 1 = i
      BY <1>1, <2>1, <2>3
    <3>2. fs[i - 1] = gs[i]
      BY <1>1, <3>1
    <3> QED
      BY <2>1, <3>1, <3>2 DEF DictName
  <2> QED
    BY <2>2, <2>3
<1>3. ASSUME InDict(f) /\ f.token = p + 1 PROVE DictName(gs, p)
  <2>1. 1 \in 1..Len(gs)
    BY <1>1
  <2> QED
    BY <1>1, <1>3, <2>1 DEF DictName
<1>4. ASSUME DictName(fs, p) PROVE DictName(gs, p)
  <2>1. PICK i \in 1..Len(fs) : InDict(fs[i]) /\ fs[i].token = p + 1
    BY <1>4 DEF DictName
  <2>2. i + 1 \in 1..Len(gs) /\ gs[i + 1] = fs[i]
    BY <1>1, <2>1
  <2> QED
    BY <2>1, <2>2 DEF DictName
<1> QED
  BY <1>2, <1>3, <1>4 DEF gs

LEMMA NamesBehind ==
    ASSUME NEW fs, IsSeq(fs), fs # <<>>, NEW p
    PROVE  DictName(fs, p) <=> (InDict(fs[1]) /\ fs[1].token = p + 1) \/ DictName(Tail(fs), p)
<1> DEFINE gs == Tail(fs)
<1>1. /\ Len(fs) \in Nat /\ Len(fs) > 0 /\ Len(gs) = Len(fs) - 1
      /\ \A i \in 1..Len(gs) : gs[i] = fs[i + 1]
  BY Popped, LenOf
<1> HIDE DEF gs
<1>2. ASSUME DictName(fs, p) PROVE (InDict(fs[1]) /\ fs[1].token = p + 1) \/ DictName(gs, p)
  <2>1. PICK i \in 1..Len(fs) : InDict(fs[i]) /\ fs[i].token = p + 1
    BY <1>2 DEF DictName
  <2>2. CASE i = 1
    BY <2>1, <2>2
  <2>3. CASE i # 1
    <3>1. i - 1 \in 1..Len(gs) /\ (i - 1) + 1 = i
      BY <1>1, <2>1, <2>3
    <3>2. gs[i - 1] = fs[i]
      BY <1>1, <3>1
    <3> QED
      BY <2>1, <3>1, <3>2 DEF DictName
  <2> QED
    BY <2>2, <2>3
<1>3. ASSUME InDict(fs[1]) /\ fs[1].token = p + 1 PROVE DictName(fs, p)
  <2>1. 1 \in 1..Len(fs)
    BY <1>1
  <2> QED
    BY <1>3, <2>1 DEF DictName
<1>4. ASSUME DictName(gs, p) PROVE DictName(fs, p)
  <2>1. PICK i \in 1..Len(gs) : InDict(gs[i]) /\ gs[i].token = p + 1
    BY <1>4 DEF DictName
  <2>2. i + 1 \in 1..Len(fs) /\ gs[i] = fs[i + 1]
    BY <1>1, <2>1
  <2> QED
    BY <2>1, <2>2 DEF DictName
<1> QED
  BY <1>2, <1>3, <1>4 DEF gs

\* The frames of the running call, whose tokens are before its place.
LEMMA FramesHere ==
    ASSUME IInv, Reads(call)
    PROVE  /\ IsSeq(frames) /\ Len(frames) \in Nat
           /\ At \in Positions /\ At \in Nat
           /\ ~ DictName(frames, At)
           /\ SameNames(frames)
<1>1. FramesOK(call, frames, choices, Len(choices), Len(tokens), Waitable)
  BY DEF IInv, Sound
<1>2. IsSeq(frames) /\ Len(frames) \in Nat
  BY <1>1, LenOf DEF FramesOK
<1>3. At \in Positions /\ At \in Nat /\ Len(tokens) \in Nat
  BY Here DEF Positions
<1>4. ASSUME DictName(frames, At) PROVE FALSE
  <2>1. PICK i \in 1..Len(frames) : InDict(frames[i]) /\ frames[i].token = At + 1
    BY <1>4 DEF DictName
  <2>2. FrameOK(frames[i], call, Len(tokens), Waitable) /\ ~ Once(frames[i])
    BY <1>1, <2>1 DEF FramesOK, InDict, Once
  <2>3. frames[i].token < At
    BY <2>2 DEF FrameOK, At
  <2> QED
    BY <1>3, <2>1, <2>3
<1> QED
  BY <1>2, <1>3, <1>4 DEF SameNames

\* A call that goes on from the place of the running one, or at it.
LEMMA Ahead ==
    ASSUME IInv, Reads(call), NEW d, NEW i \in Nat, Lesser(d, i),
           NEW gs, SameNames(gs),
           DictName(gs, At) => call.fn = "read" /\ i > At
    PROVE  IsLess(d, gs)
<1>1. At \in Positions /\ At \in Nat /\ At = call.at /\ ~ DictName(frames, At)
  BY FramesHere DEF At
<1>2. /\ Reads(d) /\ d.at = i
      /\ \/ i > At
         \/ i = At /\ Weight(d.fn) < Weight(call.fn)
  BY DEF Lesser, IsAt
<1>3. ASSUME NEW q \in 1..At - 1
      PROVE  Mark(d, gs, q) = Mark(call, frames, q)
  <2>1. ~ (q > d.at) /\ q # d.at /\ ~ (q > call.at) /\ q # call.at
    BY <1>1, <1>2
  <2>2. DictName(gs, q) <=> DictName(frames, q)
    BY <1>3 DEF SameNames
  <2> QED
    BY <2>1, <2>2 DEF Mark
<1>4. Mark(call, frames, At) = Weight(call.fn)
  BY <1>1 DEF Mark
<1>5. Weight(call.fn) \in 1..6 /\ (call.fn = "read" => Weight(call.fn) = 5)
  BY Weights
<1>6. Mark(d, gs, At) < Mark(call, frames, At)
  <2>1. CASE i = At
    <3>1. Mark(d, gs, At) = Weight(d.fn)
      BY <1>1, <1>2, <2>1 DEF Mark
    <3> QED
      BY <1>1, <1>2, <1>4, <2>1, <3>1
  <2>2. CASE i > At
    <3>1. ~ (At > d.at) /\ At # d.at
      BY <1>1, <1>2, <2>2
    <3>2. Mark(d, gs, At) = IF DictName(gs, At) THEN 4 ELSE 0
      BY <3>1 DEF Mark
    <3> QED
      BY <1>4, <1>5, <3>2
  <2> QED
    BY <1>2, <2>1, <2>2
<1>7. Nearer(d, gs, At)
  BY <1>3, <1>6 DEF Nearer
<1> QED
  BY <1>1, <1>2, <1>7 DEF IsLess

\* A call at the same place, with as much to be tried there.
LEMMA AtSamePlace ==
    ASSUME IInv, Reads(call), NEW d, IsAt(d, At), Weight(d.fn) = Weight(call.fn),
           NEW gs, SameNames(gs), StaysLess(d, gs)
    PROVE  IsLess(d, gs)
<1>1. At \in Nat /\ At = call.at /\ Reads(d) /\ d.at = At /\ Len(tokens) \in Nat
  BY FramesHere, Here DEF At, IsAt
<1>2. ASSUME NEW q \in Positions
      PROVE  Mark(d, gs, q) = Mark(call, frames, q)
  <2>1. q \in Nat
    BY <1>1 DEF Positions
  <2>2. CASE q > At
    BY <1>1, <2>2 DEF Mark
  <2>3. CASE q = At
    BY <1>1, <2>1, <2>3 DEF Mark
  <2>4. CASE q < At
    <3>1. q \in 1..At - 1 /\ ~ (q > At) /\ q # At
      BY <1>1, <2>1, <2>4 DEF Positions
    <3>2. DictName(gs, q) <=> DictName(frames, q)
      BY <3>1 DEF SameNames
    <3> QED
      BY <1>1, <3>1, <3>2 DEF Mark
  <2> QED
    BY <1>1, <2>1, <2>2, <2>3, <2>4
<1>3. AsNear(d, gs)
  BY <1>2 DEF AsNear
<1> QED
  BY <1>1, <1>3 DEF IsLess

LEMMA NoMoreSuspended ==
    ASSUME IInv, NEW k \in 0..Len(choices), choices' = Oldest(k), IsLess(call', frames')
    PROVE  GetsLess
<1>1. IsSeq(choices)
  BY DEF IInv, Sound, ChoicesOK
<1>2. Len(choices') = k /\ \A i \in 1..k : choices'[i] = choices[i]
  BY <1>1, Cut DEF Oldest
<1>3. Len(choices') >= k /\ \A i \in k + 1..Len(choices') : FALSE
  BY <1>2
<1> QED
  BY <1>2, <1>3 DEF GetsLess

LEMMA SameSuspended ==
    ASSUME IInv, choices' = choices, IsLess(call', frames')
    PROVE  GetsLess
<1>1. Len(choices) \in Nat
  BY Here
<1>2. Len(choices) \in 0..Len(choices) /\ Len(choices') >= Len(choices)
  BY <1>1
<1>3. \A i \in 1..Len(choices) : choices'[i] = choices[i]
  OBVIOUS
<1>4. \A i \in Len(choices) + 1..Len(choices') : FALSE
  BY <1>1
<1> QED
  BY <1>2, <1>3, <1>4 DEF GetsLess

LEMMA OneSuspended ==
    ASSUME IInv, NEW c, NEW gs, Suspend(c, gs), IsLess(c, gs), IsLess(call', frames')
    PROVE  GetsLess
<1> DEFINE e == [call |-> c, frames |-> gs]
           k == Len(choices)
<1>1. IsSeq(choices) /\ k \in Nat
  BY Here DEF IInv, Sound, ChoicesOK
<1>2. choices' = Append(choices, e) /\ e.call = c /\ e.frames = gs
  BY DEF Suspend
<1> HIDE DEF e
<1>3. /\ Len(choices') = k + 1 /\ choices'[k + 1] = e
      /\ \A i \in 1..k : choices'[i] = choices[i]
  BY <1>1, <1>2, Appended
<1>4. k \in 0..Len(choices) /\ Len(choices') >= k
  BY <1>1, <1>3
<1>5. ASSUME NEW i \in k + 1..Len(choices')
      PROVE  IsLess(choices'[i].call, choices'[i].frames)
  <2>1. i = k + 1
    BY <1>1, <1>3
  <2> QED
    BY <1>2, <1>3, <2>1
<1> QED
  BY <1>3, <1>4, <1>5 DEF GetsLess

-------------------------------------------------------------------------------
(* The moves of the reader. *)

\* A generator stops.
LEMMA StoppingIsLess ==
    ASSUME IInv, Reads(call), ~ Reads(call'), choices' = choices
    PROVE  GetsLess
<1>1. IsLess(call', frames')
  BY DEF IsLess
<1> QED
  BY <1>1, SameSuspended

LEMMA HereIsLess ==
    ASSUME IInv, Reads(call), NEW d, NEW i \in Nat, Lesser(d, i)
    PROVE  IsLess(d, frames)
BY FramesHere, Ahead

LEMMA GoOnIsLess ==
    ASSUME IInv, Reads(call), NEW d, NEW i \in Nat, Lesser(d, i), GoOn(d)
    PROVE  GetsLess
<1>1. IsLess(d, frames)
  BY HereIsLess
<1> QED
  BY <1>1, SameSuspended DEF GoOn

LEMMA SuspendIsLess ==
    ASSUME IInv, Reads(call),
           NEW c, IsLess(c, frames),
           NEW d, NEW i \in Nat, Lesser(d, i),
           Suspend(c, frames), call' = d, UNCHANGED frames
    PROVE  GetsLess
<1>1. IsLess(d, frames)
  BY HereIsLess
<1> QED
  BY <1>1, OneSuspended

LEMMA ForEachIsLess ==
    ASSUME IInv, Reads(call), NEW d, NEW i \in Nat, Lesser(d, i),
           NEW f, ~ InDict(f), ForEach(f, d)
    PROVE  GetsLess
<1> DEFINE gs == <<f>> \o frames
<1>1. IsSeq(frames) /\ ~ DictName(frames, At) /\ SameNames(frames)
  BY FramesHere
<1>2. SameNames(gs) /\ ~ DictName(gs, At)
  BY <1>1, NamesInFront DEF SameNames
<1> HIDE DEF gs
<1>3. IsLess(d, gs)
  BY <1>2, Ahead
<1>4. call' = d /\ frames' = gs /\ choices' = choices
  BY DEF ForEach, gs
<1> QED
  BY <1>3, <1>4, SameSuspended

\* A frame for a pair of a dict waits at a name where the reader has been.
LEMMA FirstIsLess ==
    ASSUME IInv, Reads(call), NEW d, NEW i \in Nat, Lesser(d, i),
           NEW f, NEW others, IsSeq(others),
           \A q \in 1..At : (InDict(f) /\ f.token = q + 1) \/ DictName(others, q)
                            <=> (InDict(f) /\ f.token = At + 1 /\ q = At) \/ DictName(frames, q),
           InDict(f) /\ f.token = At + 1 => call.fn = "read" /\ i > At,
           First(f, d, others)
    PROVE  GetsLess
<1> DEFINE o  == [then |-> "once", depth |-> Len(choices)]
           fs == <<f>> \o others
           gs == <<o>> \o fs
<1>1. IsSeq(frames) /\ ~ DictName(frames, At) /\ At \in Positions /\ At \in Nat
  BY FramesHere
<1>2. IsSeq(fs) /\ ~ InDict(o)
  BY Pushed DEF InDict
<1>3. /\ call' = d /\ frames' = gs
      /\ Suspend(Return(f.depth), <<>>)
  BY DEF First
<1>4. ASSUME NEW q \in 1..At
      PROVE  DictName(gs, q) <=> (InDict(f) /\ f.token = At + 1 /\ q = At) \/ DictName(frames, q)
  <2>1. DictName(gs, q) <=> DictName(fs, q)
    BY <1>2, NamesInFront
  <2>2. DictName(fs, q) <=> (InDict(f) /\ f.token = q + 1) \/ DictName(others, q)
    BY NamesInFront
  <2> QED
    BY <2>1, <2>2
<1> HIDE DEF gs
<1>5. SameNames(gs)
  <2>1. ASSUME NEW q \in 1..At - 1 PROVE DictName(gs, q) <=> DictName(frames, q)
    <3>1. q \in 1..At /\ q # At
      BY <1>1
    <3> QED
      BY <1>4, <3>1
  <2> QED
    BY <2>1 DEF SameNames
<1>6. DictName(gs, At) => InDict(f) /\ f.token = At + 1
  <2>1. At \in 1..At
    BY <1>1 DEF Positions
  <2> QED
    BY <1>1, <1>4, <2>1
<1>7. IsLess(d, gs)
  BY <1>5, <1>6, Ahead
<1>8. IsLess(Return(f.depth), <<>>)
  BY DEF IsLess, Return, Reads
<1> QED
  BY <1>3, <1>7, <1>8, OneSuspended

-------------------------------------------------------------------------------
(* Every step leaves less to be tried. *)

LEMMA PlainlyIsLesser ==
    ASSUME IInv, call.fn = "read"
    PROVE  \E i \in Nat : Lesser(Plainly, i)
<1>1. At \in Nat /\ Weight(call.fn) = 5
  <2>1. Reads(call)
    BY DEF Reads
  <2> QED
    BY <2>1, FramesHere, Weights
<1>2. CASE Type(At) = "atom"
  <2>1. IsAt(Plainly, At) /\ Plainly.fn = "atom"
    BY <1>2, Places, CallNames DEF Plainly
  <2>2. Weight(Plainly.fn) = 3
    BY <2>1 DEF Weight
  <2> QED
    BY <1>1, <2>1, <2>2 DEF Lesser
<1>3. CASE Type(At) # "atom"
  <2>1. IsAt(Plainly, At + 1)
    BY <1>3, Places DEF Plainly, Exprtl0After
  <2>2. At + 1 \in Nat /\ At + 1 > At
    BY <1>1
  <2> QED
    BY <2>1, <2>2 DEF Lesser
<1> QED
  BY <1>2, <1>3

LEMMA readLess == ASSUME IInv, read PROVE GetsLess
<1>1. call.fn = "read" /\ Reads(call)
  BY DEF read, Runs, Reads
<1>2. /\ At \in Nat /\ IsSeq(frames) /\ At + 1 \in Nat /\ At + 2 \in Nat
      /\ At + 1 > At /\ At + 2 > At
  BY <1>1, FramesHere
<1>3. PICK n \in Nat : Lesser(Plainly, n)
  BY <1>1, PlainlyIsLesser
<1>4. CASE ReadNothing
  BY <1>1, <1>4, StoppingIsLess DEF ReadNothing, GoOn, Fail, Reads
<1>5. CASE ReadOperand
  <2>1. Lesser(Yield(At + 1, Atomic(At)), At + 1)
    BY <1>2, Places DEF Lesser
  <2> QED
    BY <1>1, <1>2, <1>5, <2>1, GoOnIsLess DEF ReadOperand
<1>6. CASE ReadAtomic
  BY <1>1, <1>3, <1>6, GoOnIsLess DEF ReadAtomic
<1>7. CASE ReadNegative
  <2> DEFINE d == Exprtl0After(At + 2, Node("negative", At, <<>>))
  <2>1. Lesser(d, At + 2) /\ GoOn(d)
    BY <1>2, <1>7, Places DEF Lesser, Exprtl0After, ReadNegative, BehindInteger
  <2> QED
    BY <1>1, <1>2, <2>1, GoOnIsLess
<1>8. CASE ReadCompound
  <2> DEFINE d == Read(At + 2, 1200, {"comma"})
             f == Frame("args", At, <<>>)
  <2>1. Lesser(d, At + 2) /\ ~ InDict(f) /\ ForEach(f, d)
    BY <1>2, <1>8, Places DEF Lesser, ReadCompound, Frame, InDict
  <2> QED
    BY <1>1, <1>2, <2>1, ForEachIsLess
<1>9. CASE ReadEmptyDict
  <2> DEFINE d == Exprtl0After(At + 2, Node("dict", At + 1, <<Atomic(At)>>))
  <2>1. Lesser(d, At + 2)
    BY <1>2, Places DEF Lesser, Exprtl0After
  <2>2. Suspend(Plainly, frames) /\ call' = d /\ UNCHANGED frames
    BY <1>9 DEF ReadEmptyDict
  <2>3. IsLess(Plainly, frames)
    BY <1>1, <1>3, HereIsLess
  <2> QED
    BY <1>1, <1>2, <2>1, <2>2, <2>3, SuspendIsLess
<1>10. CASE ReadDict
  <2> DEFINE d == Read(At + 2, 1200, call.ctx \cup {"colon", "comma"})
             f == Frame("key", At + 1, <<Atomic(At)>>)
  <2>1. Lesser(d, At + 2) /\ First(f, d, frames)
    BY <1>2, <1>10, Places DEF Lesser, ReadDict
  <2>2. InDict(f) /\ f.token = At + 1
    BY DEF Frame, InDict
  <2> HIDE DEF d, f
  <2>3. \A q \in 1..At : (InDict(f) /\ f.token = q + 1) \/ DictName(frames, q)
                            <=> (InDict(f) /\ f.token = At + 1 /\ q = At) \/ DictName(frames, q)
    <3>1. \A q \in 1..At : At + 1 = q + 1 <=> q = At
      BY <1>2
    <3> QED
      BY <2>2, <3>1
  <2> QED
    BY <1>1, <1>2, <2>1, <2>3, FirstIsLess
<1>11. CASE ReadBracketed
  <2>1. PICK f, d : ~ InDict(f) /\ Lesser(d, At + 1) /\ ForEach(f, d)
    <3> DEFINE d1 == Read(At + 1, 999, {"bar", "comma"})
               d2 == Read(At + 1, 1200, {})
    <3>1. Lesser(d1, At + 1) /\ Lesser(d2, At + 1)
      BY <1>2, Places DEF Lesser
    <3>2. /\ ~ InDict(Frame("list", At, <<>>)) /\ ~ InDict(Frame("paren", At, <<>>))
          /\ ~ InDict(Frame("curly", At, <<>>))
      BY DEF Frame, InDict
    <3>3. \/ ForEach(Frame("list", At, <<>>), d1)
          \/ ForEach(Frame("paren", At, <<>>), d2)
          \/ ForEach(Frame("curly", At, <<>>), d2)
      BY <1>11 DEF ReadBracketed
    <3> HIDE DEF d1, d2
    <3> QED
      BY <3>1, <3>2, <3>3
  <2> QED
    BY <1>1, <1>2, <2>1, ForEachIsLess
<1>12. CASE CannotStart
  BY <1>1, <1>12, StoppingIsLess DEF CannotStart, GoOn, Fail, Reads
<1> QED
  BY <1>4, <1>5, <1>6, <1>7, <1>8, <1>9, <1>10, <1>11, <1>12 DEF read

LEMMA atomLess == ASSUME IInv, atom PROVE GetsLess
<1>1. call.fn = "atom" /\ Reads(call)
  BY DEF atom, Runs, Reads
<1>2. At + 1 \in Nat /\ At + 1 > At
  BY <1>1, FramesHere
<1> DEFINE c == Exprtl0After(At + 1, Atomic(At))
           d == AfterPrefixOp(At + 1, 1, call.prec, call.ctx)
<1>3. Lesser(c, At + 1) /\ Lesser(d, At + 1)
  BY <1>2, Places DEF Lesser, Exprtl0After
<1>4. (Suspend(c, frames) /\ call' = d /\ UNCHANGED frames) \/ GoOn(c)
  BY DEF atom
<1> HIDE DEF c, d
<1>5. IsLess(c, frames)
  BY <1>1, <1>2, <1>3, HereIsLess
<1> QED
  BY <1>1, <1>2, <1>3, <1>4, <1>5, SuspendIsLess, GoOnIsLess

\* The next turn of a loop over the readings of an operator.
LEMMA NextTurnIsLess ==
    ASSUME IInv, NEW d, IsAt(d, At), d.fn = call.fn, call.fn \in {"after_prefix_op", "postfix"},
           call.turn <= Len(Turns(At)), d.turn = call.turn + 1
    PROVE  IsLess(d, frames)
<1>1. Reads(call) /\ Weight(d.fn) = Weight(call.fn)
  BY DEF Reads
<1>2. call.turn \in Nat
  BY <1>1, Here DEF CallOK
<1>3. d.turn > call.turn /\ d.at = At
  BY <1>2 DEF IsAt
<1>4. StaysLess(d, frames)
  BY <1>3 DEF StaysLess
<1> QED
  BY <1>1, <1>4, FramesHere, AtSamePlace

LEMMA after_prefix_opLess == ASSUME IInv, after_prefix_op PROVE GetsLess
<1>1. call.fn = "after_prefix_op" /\ Reads(call)
  BY DEF after_prefix_op, Runs, Reads
<1>2. At \in Nat /\ Weight(call.fn) = 6
  BY <1>1, FramesHere, Weights
<1>3. CASE PrefixOutOfPlace
  BY <1>1, <1>3, StoppingIsLess DEF PrefixOutOfPlace, GoOn, Fail, Reads
<1>4. CASE PrefixAsAtom
  <2> DEFINE again == AfterPrefixOp(At, call.turn + 1, call.prec, call.ctx)
             d     == Exprtl(At, Prefix(At - 1).opPrec, Atomic(At - 1), call.prec, call.ctx)
  <2>1. IsAt(again, At) /\ again.fn = "after_prefix_op" /\ again.turn = call.turn + 1
    BY Places DEF AfterPrefixOp
  <2>2. IsAt(d, At) /\ d.fn = "exprtl"
    BY Places, CallNames
  <2>3. /\ call.turn <= Len(Turns(At))
        /\ \/ call' = d /\ Suspend(again, frames) /\ UNCHANGED frames
           \/ GoOn(again)
    BY <1>4 DEF PrefixAsAtom
  <2> HIDE DEF again, d
  <2>4. Lesser(d, At)
    <3>1. Weight(d.fn) = 1
      BY <2>2 DEF Weight
    <3> QED
      BY <1>2, <2>2, <3>1 DEF Lesser
  <2>5. IsLess(again, frames)
    BY <1>1, <2>1, <2>3, NextTurnIsLess
  <2> QED
    BY <1>1, <1>2, <2>3, <2>4, <2>5, SuspendIsLess, SameSuspended DEF GoOn
<1>5. CASE PrefixWithOperand
  <2> DEFINE d == Read(At, Prefix(At - 1).rPrec, call.ctx)
             f == Frame("prefix", At - 1, <<>>)
  <2>1. IsAt(d, At) /\ d.fn = "read" /\ ~ InDict(f) /\ ForEach(f, d)
    BY <1>5, Places, CallNames DEF PrefixWithOperand, Frame, InDict
  <2> HIDE DEF d, f
  <2>2. Weight(d.fn) = 5
    BY <2>1 DEF Weight
  <2>3. Lesser(d, At)
    BY <1>2, <2>1, <2>2 DEF Lesser
  <2> QED
    BY <1>1, <1>2, <2>1, <2>3, ForEachIsLess
<1> QED
  BY <1>3, <1>4, <1>5 DEF after_prefix_op

LEMMA exprtl0Less == ASSUME IInv, exprtl0 PROVE GetsLess
<1>1. call.fn = "exprtl0" /\ Reads(call)
  BY DEF exprtl0, Runs, Reads
<1>2. /\ At \in Nat /\ Weight(call.fn) = 3 /\ IsSeq(frames) /\ At + 1 \in Nat /\ At + 1 > At
  BY <1>1, FramesHere, Weights
<1> DEFINE y == Yield(At, call.term)
           a == Ambigop(At, call.term, call.prec, call.ctx)
<1>3. IsAt(y, At) /\ y.fn = "yield" /\ IsAt(a, At) /\ a.fn = "ambigop"
  BY Places, CallNames
<1>4. IsAt(Following, At) /\ Following.fn = "exprtl"
  BY Places, CallNames DEF Following
<1>5. Lesser(y, At) /\ Lesser(a, At) /\ Lesser(Following, At)
  <2> HIDE DEF y, a
  <2>1. Weight(y.fn) = 1 /\ Weight(a.fn) = 2 /\ Weight(Following.fn) = 1
    BY <1>3, <1>4 DEF Weight
  <2> QED
    BY <1>2, <1>3, <1>4, <2>1 DEF Lesser
<1>6. \/ GoOn(y)
      \/ /\ call' = Following /\ UNCHANGED frames
         /\ Suspend(a, frames) \/ UNCHANGED choices
      \/ First(Frame("infix", At, <<call.term>>), Read(At + 1, OpPrec(At), call.ctx), frames)
      \/ GoOn(Fail)
  BY DEF exprtl0
<1> HIDE DEF y, a
<1>7. CASE GoOn(y)
  BY <1>1, <1>2, <1>5, <1>7, GoOnIsLess
<1>8. CASE /\ call' = Following /\ UNCHANGED frames
           /\ Suspend(a, frames) \/ UNCHANGED choices
  <2>1. IsLess(a, frames) /\ IsLess(Following, frames)
    BY <1>1, <1>2, <1>5, HereIsLess
  <2> QED
    BY <1>1, <1>8, <2>1, OneSuspended, SameSuspended
<1>9. CASE First(Frame("infix", At, <<call.term>>), Read(At + 1, OpPrec(At), call.ctx), frames)
  <2> DEFINE f == Frame("infix", At, <<call.term>>)
             d == Read(At + 1, OpPrec(At), call.ctx)
  <2>1. ~ InDict(f) /\ Lesser(d, At + 1) /\ First(f, d, frames)
    BY <1>2, <1>9, Places DEF Frame, InDict, Lesser
  <2> HIDE DEF f, d
  <2> QED
    BY <1>1, <1>2, <2>1, FirstIsLess
<1>10. CASE GoOn(Fail)
  BY <1>1, <1>10, StoppingIsLess DEF GoOn, Fail, Reads
<1> QED
  BY <1>6, <1>7, <1>8, <1>9, <1>10

LEMMA ambigopLess == ASSUME IInv, ambigop PROVE GetsLess
<1>1. call.fn = "ambigop" /\ Reads(call) /\ GoOn(Following)
  BY DEF ambigop, Runs, Reads
<1>2. At \in Nat /\ Weight(call.fn) = 2
  BY <1>1, FramesHere, Weights
<1>3. IsAt(Following, At) /\ Following.fn = "exprtl"
  BY Places, CallNames DEF Following
<1>4. Weight(Following.fn) = 1
  BY <1>3 DEF Weight
<1>5. Lesser(Following, At)
  BY <1>2, <1>3, <1>4 DEF Lesser
<1> QED
  BY <1>1, <1>2, <1>5, GoOnIsLess

LEMMA exprtlLess == ASSUME IInv, exprtl PROVE GetsLess
<1>1. call.fn = "exprtl" /\ Reads(call)
  BY DEF exprtl, Runs, Reads
<1>2. At \in Nat /\ At + 1 \in Nat /\ At + 1 > At
  BY <1>1, FramesHere
<1> DEFINE f == Frame("infix", At, <<call.term>>)
           d == Read(At + 1, RightPrec(At), call.ctx)
           o == AfterPostfix(At + 1, 1, Node("postfix", At, <<call.term>>), call.prec, call.ctx)
           y == Yield(At, call.term)
<1>3. ~ InDict(f) /\ Lesser(d, At + 1) /\ Lesser(o, At + 1)
  BY <1>2, Places DEF Lesser, Frame, InDict
<1>4. IsAt(y, At) /\ y.fn = "yield"
  BY Places, CallNames
<1>5. ForEach(f, d) \/ GoOn(o) \/ GoOn(y)
  BY DEF exprtl
<1> HIDE DEF f, d, o, y
<1>6. IsLess(y, frames)
  <2>1. Weight(y.fn) = Weight(call.fn)
    BY <1>1, <1>4 DEF Weight
  <2>2. StaysLess(y, frames)
    BY <1>1, <1>4 DEF StaysLess
  <2> QED
    BY <1>1, <1>4, <2>1, <2>2, FramesHere, AtSamePlace
<1>7. CASE GoOn(y)
  BY <1>6, <1>7, SameSuspended DEF GoOn
<1> QED
  BY <1>1, <1>2, <1>3, <1>5, <1>7, ForEachIsLess, GoOnIsLess

LEMMA postfix_operatorLess == ASSUME IInv, postfix_operator PROVE GetsLess
<1>1. call.fn = "postfix" /\ Reads(call)
  BY DEF postfix_operator, Runs, Reads
<1>2. At \in Nat /\ Weight(call.fn) = 2 /\ At - 1 \in postfix
  BY <1>1, FramesHere, Weights, Here DEF CallOK, At
<1> DEFINE again == AfterPostfix(At, call.turn + 1, call.term, call.prec, call.ctx)
           d     == Exprtl(At, Postfix(At - 1).opPrec, call.term, call.prec, call.ctx)
<1>3. IsAt(again, At) /\ again.fn = "postfix" /\ again.turn = call.turn + 1
  BY Places DEF AfterPostfix
<1>4. IsAt(d, At) /\ d.fn = "exprtl"
  BY Places, CallNames
<1>5. \/ GoOn(Fail)
      \/ /\ call.turn <= Len(Turns(At)) /\ call' = d
         /\ Suspend(again, frames) /\ UNCHANGED frames
  BY <1>2 DEF postfix_operator
<1> HIDE DEF again, d
<1>6. CASE GoOn(Fail)
  BY <1>1, <1>6, StoppingIsLess DEF GoOn, Fail, Reads
<1>7. CASE /\ call.turn <= Len(Turns(At)) /\ call' = d
           /\ Suspend(again, frames) /\ UNCHANGED frames
  <2>1. Weight(d.fn) = 1
    BY <1>4 DEF Weight
  <2>2. Lesser(d, At)
    BY <1>2, <1>4, <2>1 DEF Lesser
  <2>3. IsLess(again, frames)
    BY <1>1, <1>3, <1>7, NextTurnIsLess
  <2> QED
    BY <1>1, <1>2, <1>7, <2>2, <2>3, SuspendIsLess
<1> QED
  BY <1>5, <1>6, <1>7

\* The frames under the one that waits for the reading that is yielded.
LEMMA FramesUnder ==
    ASSUME IInv, Runs("yield"), frames # <<>>
    PROVE  /\ IsSeq(Tail(frames)) /\ Len(Tail(frames)) < Len(frames)
           /\ Top.depth \in 0..Len(choices)
           /\ ~ InDict(Top) => SameNames(Tail(frames)) /\ ~ DictName(Tail(frames), At)
           /\ \A p \in Nat : DictName(frames, p) <=>
                  (InDict(Top) /\ Top.token = p + 1) \/ DictName(Tail(frames), p)
<1>1. Reads(call)
  BY DEF Runs, Reads
<1>2. IsSeq(frames) /\ ~ DictName(frames, At) /\ SameNames(frames) /\ At \in Nat
  BY <1>1, FramesHere
<1>3. IsSeq(Tail(frames)) /\ Len(Tail(frames)) = Len(frames) - 1 /\ Len(frames) > 0
  BY <1>2, Popped
<1>4. Len(frames) \in Nat /\ 1 \in 1..Len(frames)
  BY <1>2, <1>3, LenOf
<1>5. Top.depth \in 0..Len(choices)
  BY <1>1, <1>4 DEF IInv, Sound, FramesOK, Top
<1>6. \A p \in Nat : DictName(frames, p) <=>
          (InDict(Top) /\ Top.token = p + 1) \/ DictName(Tail(frames), p)
  BY <1>2, NamesBehind DEF Top
<1>7. ASSUME ~ InDict(Top)
      PROVE  SameNames(Tail(frames)) /\ ~ DictName(Tail(frames), At)
  <2>1. \A p \in Nat : DictName(frames, p) <=> DictName(Tail(frames), p)
    BY <1>6, <1>7
  <2>2. \A q \in 1..At - 1 : q \in Nat
    BY <1>2
  <2> QED
    BY <1>2, <2>1, <2>2 DEF SameNames
<1> QED
  BY <1>3, <1>4, <1>5, <1>6, <1>7

LEMMA onceLess == ASSUME IInv, once PROVE GetsLess
<1>1. /\ Runs("yield") /\ frames # <<>> /\ ~ InDict(Top)
      /\ frames' = Tail(frames) /\ choices' = Oldest(Top.depth) /\ call' = call
  BY DEF once, Answers, InDict
<1>2. Reads(call) /\ IsAt(call, At)
  BY <1>1 DEF Runs, Reads, IsAt, At
<1>3. /\ SameNames(Tail(frames)) /\ StaysLess(call, Tail(frames))
      /\ Top.depth \in 0..Len(choices)
  BY <1>1, FramesUnder DEF StaysLess
<1>4. IsLess(call, Tail(frames))
  BY <1>2, <1>3, AtSamePlace
<1> QED
  BY <1>1, <1>3, <1>4, NoMoreSuspended

LEMMA operandLess == ASSUME IInv, operand PROVE GetsLess
<1> DEFINE fs == {"prefix", "infix"}
           opPrec == IF Top.then = "prefix" THEN Prefix(Top.token).opPrec ELSE OpPrec(Top.token)
           d == Exprtl(At, opPrec, Node(Top.then, Top.token, Terms), Top.prec, Top.ctx)
<1>1. Answers(fs) /\ "once" \notin fs
  BY DEF operand
<1>2. Runs("yield") /\ Reads(call) /\ frames # <<>> /\ ~ InDict(Top)
  BY <1>1, AtTop DEF Answers, InDict
<1>3. ~ (Top.then = "infix" /\ Type(Top.token) = "atom" /\ Top.token \notin infix)
  BY <1>1, AtTop DEF Waitable
<1>4. IsAt(d, At) /\ d.fn = "exprtl"
  BY Places, CallNames
<1>5. frames' = Tail(frames) /\ call' = d /\ UNCHANGED choices
  BY <1>3 DEF operand
<1> HIDE DEF d
<1>6. Weight(d.fn) = Weight(call.fn)
  BY <1>2, <1>4 DEF Weight, Runs
<1>7. SameNames(Tail(frames)) /\ StaysLess(d, Tail(frames))
  BY <1>2, FramesUnder DEF StaysLess
<1>8. IsLess(d, Tail(frames))
  BY <1>2, <1>4, <1>6, <1>7, AtSamePlace
<1> QED
  BY <1>5, <1>8, SameSuspended

\* The bracket is closed; it is not that of a dict.
LEMMA CompleteIsLess ==
    ASSUME IInv, Runs("yield"), frames # <<>>, ~ InDict(Top), NEW term, Complete(At + 1, term)
    PROVE  IsLess(call', frames')
<1> DEFINE d == Exprtl0(At + 1, term, Top.prec, Top.ctx)
<1>1. Reads(call) /\ At \in Nat
  BY FramesHere DEF Runs, Reads
<1>2. Lesser(d, At + 1) /\ At + 1 \in Nat
  BY <1>1, Places DEF Lesser
<1>3. call' = d /\ frames' = Tail(frames)
  BY DEF Complete
<1> HIDE DEF d
<1>4. SameNames(Tail(frames)) /\ ~ DictName(Tail(frames), At)
  BY FramesUnder
<1> QED
  BY <1>1, <1>2, <1>3, <1>4, Ahead

\* A term more of the same bracket.
LEMMA MoreIsLess ==
    ASSUME IInv, NEW fs, Answers(fs), "once" \notin fs, NEW prec, NEW ctx,
           NEW f, InDict(f) <=> InDict(Top), f.token = Top.token,
           First(f, Read(At + 1, prec, ctx), Tail(frames))
    PROVE  GetsLess
<1> DEFINE d == Read(At + 1, prec, ctx)
<1>1. /\ Runs("yield") /\ Reads(call) /\ frames # <<>>
      /\ Top.token \in 1..Len(tokens) /\ Top.token < At
  BY AtTop
<1>2. At \in Nat /\ Len(tokens) \in Nat
  BY <1>1, FramesHere, Here
<1>3. Lesser(d, At + 1) /\ At + 1 \in Nat
  BY <1>2, Places DEF Lesser
<1> HIDE DEF d
<1>4. ~ (InDict(f) /\ f.token = At + 1)
  BY <1>1, <1>2
<1>5. \A q \in 1..At : DictName(frames, q) <=>
          (InDict(f) /\ f.token = q + 1) \/ DictName(Tail(frames), q)
  <2>1. \A p \in Nat : DictName(frames, p) <=>
            (InDict(Top) /\ Top.token = p + 1) \/ DictName(Tail(frames), p)
    BY <1>1, FramesUnder
  <2>2. \A q \in 1..At : q \in Nat
    BY <1>2
  <2> QED
    BY <2>1, <2>2
<1>6. \A q \in 1..At : (InDict(f) /\ f.token = q + 1) \/ DictName(Tail(frames), q)
                       <=> (InDict(f) /\ f.token = At + 1 /\ q = At) \/ DictName(frames, q)
  BY <1>4, <1>5
<1>7. IsSeq(Tail(frames)) /\ First(f, d, Tail(frames))
  BY <1>1, FramesUnder DEF d
<1> QED
  BY <1>1, <1>3, <1>4, <1>6, <1>7, FirstIsLess

LEMMA MissingIsLess ==
    ASSUME IInv, Runs("yield"), NEW i, Missing(i)
    PROVE  GetsLess
<1>1. Reads(call) /\ ~ Reads(call') /\ choices' = choices
  BY DEF Missing, Return, Runs, Reads
<1> QED
  BY <1>1, StoppingIsLess

LEMMA read_argsLess == ASSUME IInv, read_args PROVE GetsLess
<1>1. /\ Answers({"args"}) /\ "once" \notin {"args"} /\ Runs("yield") /\ frames # <<>>
      /\ ~ InDict(Top)
  BY DEF read_args, Answers, InDict
<1>2. CASE First(Now("args"), Read(At + 1, 1200, {"comma"}), Tail(frames))
  <2> DEFINE f == Now("args")
  <2>1. (InDict(f) <=> InDict(Top)) /\ f.token = Top.token
    BY <1>1 DEF Now, InDict
  <2> HIDE DEF f
  <2>2. First(f, Read(At + 1, 1200, {"comma"}), Tail(frames))
    BY <1>2 DEF f
  <2> QED
    BY <1>1, <2>1, <2>2, MoreIsLess
<1>3. CASE Complete(At + 1, Node("compound", Top.token, Terms)) /\ UNCHANGED choices
  BY <1>1, <1>3, CompleteIsLess, SameSuspended
<1>4. CASE Missing(Culprit(At))
  BY <1>1, <1>4, MissingIsLess
<1> QED
  BY <1>2, <1>3, <1>4 DEF read_args

LEMMA read_listLess == ASSUME IInv, read_list PROVE GetsLess
<1>1. /\ Answers({"list"}) /\ "once" \notin {"list"} /\ Runs("yield") /\ frames # <<>>
      /\ ~ InDict(Top)
  BY DEF read_list, Answers, InDict
<1>2. CASE First(Now(IF Type(At) = "comma" THEN "list" ELSE "tail"),
                 Read(At + 1, 999, {"bar", "comma"}), Tail(frames))
  <2> DEFINE f == Now(IF Type(At) = "comma" THEN "list" ELSE "tail")
  <2>1. (InDict(f) <=> InDict(Top)) /\ f.token = Top.token
    BY <1>1 DEF Now, InDict
  <2> HIDE DEF f
  <2>2. First(f, Read(At + 1, 999, {"bar", "comma"}), Tail(frames))
    BY <1>2 DEF f
  <2> QED
    BY <1>1, <2>1, <2>2, MoreIsLess
<1>3. CASE Complete(At + 1, Node("list", Top.token, Terms)) /\ UNCHANGED choices
  BY <1>1, <1>3, CompleteIsLess, SameSuspended
<1>4. CASE Missing(Culprit(At))
  BY <1>1, <1>4, MissingIsLess
<1> QED
  BY <1>2, <1>3, <1>4 DEF read_list

LEMMA expect_bracketLess == ASSUME IInv, expect_bracket PROVE GetsLess
<1>1. Runs("yield") /\ frames # <<>> /\ ~ InDict(Top)
  BY DEF expect_bracket, Answers, InDict
<1>2. CASE /\ Complete(At + 1, Bracketed)
           /\ Suspend(Restore(Top.token), <<>>) \/ UNCHANGED choices
  <2>1. IsLess(call', frames')
    BY <1>1, <1>2, CompleteIsLess
  <2>2. IsLess(Restore(Top.token), <<>>)
    BY <1>1 DEF IsLess, Restore, Reads, Runs
  <2> QED
    BY <1>2, <2>1, <2>2, OneSuspended, SameSuspended
<1>3. CASE Missing(At - 1)
  BY <1>1, <1>3, MissingIsLess
<1> QED
  BY <1>2, <1>3 DEF expect_bracket

LEMMA read_keyLess == ASSUME IInv, read_key PROVE GetsLess
<1>1. Answers({"key"}) /\ "once" \notin {"key"} /\ Runs("yield") /\ InDict(Top)
  BY DEF read_key, Answers, InDict
<1>2. CASE First(Now("value"), Read(At + 1, 1200, Top.ctx \cup {"comma"}), Tail(frames))
  <2> DEFINE f == Now("value")
  <2>1. (InDict(f) <=> InDict(Top)) /\ f.token = Top.token
    BY <1>1 DEF Now, InDict
  <2> HIDE DEF f
  <2>2. First(f, Read(At + 1, 1200, Top.ctx \cup {"comma"}), Tail(frames))
    BY <1>2 DEF f
  <2> QED
    BY <1>1, <2>1, <2>2, MoreIsLess
<1>3. CASE Missing(At - 1)
  BY <1>1, <1>3, MissingIsLess
<1> QED
  BY <1>2, <1>3 DEF read_key

\* A call in the frames around a dict that is at the name in front of the braces, as an atom,
\* or behind it: the name is not tried as a tag again.
LEMMA BehindDict ==
    ASSUME IInv, Answers({"value"}),
           NEW d, NEW i \in Nat, IsAt(d, i),
           \/ i > Top.token - 1
           \/ i = Top.token - 1 /\ d.fn = "atom"
    PROVE  IsLess(d, Tail(frames))
<1> DEFINE name == Top.token - 1
           gs   == Tail(frames)
<1>1. /\ Runs("yield") /\ Reads(call) /\ frames # <<>> /\ InDict(Top)
      /\ Top.token \in 1..Len(tokens) /\ Top.token < At /\ Top.token >= 2
  BY AtTop DEF Answers, InDict
<1>2. At \in Nat /\ Len(tokens) \in Nat /\ At = call.at /\ IsSeq(frames)
  BY <1>1, FramesHere, Here DEF At
<1>3. name \in Positions /\ name \in Nat /\ name < At /\ Top.token = name + 1
  BY <1>1, <1>2 DEF Positions
<1>4. \A p \in Nat : DictName(frames, p) <=> p = name \/ DictName(gs, p)
  <2>1. \A p \in Nat : DictName(frames, p) <=>
            (InDict(Top) /\ Top.token = p + 1) \/ DictName(Tail(frames), p)
    BY <1>1, FramesUnder
  <2>2. \A p \in Nat : Top.token = p + 1 <=> p = name
    BY <1>3
  <2> QED
    BY <1>1, <2>1, <2>2
<1>5. ~ DictName(gs, name)
  <2>1. FramesOK(call, frames, choices, Len(choices), Len(tokens), Waitable)
    BY <1>1 DEF IInv, Sound
  <2>2. /\ Len(frames) \in Nat /\ Len(frames) > 0 /\ Len(gs) = Len(frames) - 1
        /\ \A j \in 1..Len(gs) : gs[j] = frames[j + 1]
    BY <1>1, <1>2, LenOf, Popped
  <2>3. 1 \in 1..Len(frames)
    BY <2>2
  <2>4. NameIsFree(1, frames, choices)
    BY <1>1, <2>1, <2>3 DEF FramesOK, Top
  <2>5. SUFFICES ASSUME DictName(gs, name) PROVE FALSE
    OBVIOUS
  <2>6. PICK j \in 1..Len(gs) : InDict(gs[j]) /\ gs[j].token = name + 1
    BY <2>5 DEF DictName
  <2>7. j + 1 \in 1 + 1..Len(frames) /\ gs[j] = frames[j + 1]
    BY <2>2, <2>6
  <2>8. Once(frames[j + 1]) \/ frames[j + 1].token < frames[1].token - 1
    BY <2>4, <2>7 DEF NameIsFree
  <2>9. ~ Once(frames[j + 1])
    BY <2>6, <2>7 DEF Once, InDict
  <2> QED
    BY <1>3, <2>6, <2>7, <2>8, <2>9 DEF Top
<1>6. Reads(d) /\ d.at = i
  BY DEF IsAt
<1> HIDE DEF name, gs
<1>7. i > name \/ (i = name /\ d.fn = "atom")
  BY DEF name
<1>8. ASSUME NEW q \in 1..name - 1
      PROVE  Mark(d, gs, q) = Mark(call, frames, q)
  <2>1. /\ ~ (q > d.at) /\ q # d.at /\ ~ (q > call.at) /\ q # call.at
        /\ q \in Nat /\ q # name
    BY <1>2, <1>3, <1>6, <1>7
  <2>2. DictName(gs, q) <=> DictName(frames, q)
    BY <1>4, <2>1
  <2> QED
    BY <2>1, <2>2 DEF Mark
<1>9. Mark(call, frames, name) = 4
  <2>1. ~ (name > call.at) /\ name # call.at /\ DictName(frames, name)
    BY <1>2, <1>3, <1>4
  <2> QED
    BY <2>1 DEF Mark
<1>10. Mark(d, gs, name) < 4
  <2>1. CASE i > name
    <3>1. ~ (name > d.at) /\ name # d.at
      BY <1>3, <1>6, <2>1
    <3> QED
      BY <1>5, <3>1 DEF Mark
  <2>2. CASE i = name /\ d.fn = "atom"
    BY <1>3, <1>6, <2>2 DEF Mark, Weight
  <2> QED
    BY <1>7, <2>1, <2>2
<1>11. Nearer(d, gs, name)
  BY <1>8, <1>9, <1>10 DEF Nearer
<1>12. IsLess(d, gs)
  BY <1>1, <1>3, <1>6, <1>11 DEF IsLess
<1> QED
  BY <1>12 DEF gs

LEMMA read_valueLess == ASSUME IInv, read_value PROVE GetsLess
<1>1. Answers({"value"}) /\ "once" \notin {"value"} /\ Runs("yield") /\ InDict(Top)
  BY DEF read_value, Answers, InDict
<1>2. Reads(call) /\ At \in Nat /\ Top.token \in Nat /\ Top.token < At /\ Top.token >= 2
  BY <1>1, AtTop, FramesHere
<1>3. CASE First(Now("key"), Read(At + 1, 1200, Top.ctx \cup {"colon", "comma"}), Tail(frames))
  <2> DEFINE f == Now("key")
             ctx == Top.ctx \cup {"colon", "comma"}
  <2>1. (InDict(f) <=> InDict(Top)) /\ f.token = Top.token
    BY <1>1 DEF Now, InDict
  <2>2. First(f, Read(At + 1, 1200, ctx), Tail(frames))
    BY <1>3
  <2> HIDE DEF f, ctx
  <2> QED
    BY <1>1, <2>1, <2>2, MoreIsLess
<1>4. CASE DictEnds
  <2> DEFINE name == Top.token - 1
             d    == Exprtl0(At + 1, Node("dict", Top.token, Terms), Top.prec, Top.ctx)
             c    == OtherThanDict(name)
  <2>1. call' = d /\ frames' = Tail(frames) /\ Suspend(c, Tail(frames))
    BY <1>4 DEF DictEnds, Complete
  <2>2. IsAt(d, At + 1) /\ At + 1 \in Nat /\ At + 1 > Top.token - 1
    BY <1>2, Places
  <2>3. name \in Nat /\ name = Top.token - 1 /\ name + 1 > Top.token - 1 /\ name + 1 \in Nat
    BY <1>2
  <2>4. \/ IsAt(c, name) /\ c.fn = "atom"
        \/ IsAt(c, name + 1)
    BY Places, CallNames DEF OtherThanDict
  <2> HIDE DEF d, c, name
  <2>5. IsLess(d, Tail(frames))
    BY <1>1, <2>2, BehindDict
  <2>6. IsLess(c, Tail(frames))
    BY <1>1, <2>3, <2>4, BehindDict
  <2> QED
    BY <2>1, <2>5, <2>6, OneSuspended
<1>5. CASE GoOn(Return(Top.depth))
  BY <1>2, <1>5, StoppingIsLess DEF GoOn, Return, Reads
<1>6. CASE Missing(At)
  BY <1>1, <1>6, MissingIsLess
<1> QED
  BY <1>3, <1>4, <1>5, <1>6 DEF read_value

LEMMA returnLess == ASSUME IInv, return PROVE GetsLess
<1>1. call.fn = "return" /\ call' = Fail /\ choices' = Oldest(call.depth)
  BY DEF return, Runs
<1>2. call.depth \in 0..Len(choices)
  BY <1>1, Here DEF CallOK
<1>3. IsLess(call', frames')
  BY <1>1 DEF IsLess, Fail
<1> QED
  BY <1>1, <1>2, <1>3, NoMoreSuspended

LEMMA restoreLess == ASSUME IInv, restore PROVE GetsLess
<1>1. call.fn = "restore" /\ call' = Fail /\ choices' = choices
  BY DEF restore, Runs, GoOn
<1>2. IsLess(call', frames')
  BY <1>1 DEF IsLess, Fail
<1> QED
  BY <1>1, <1>2, SameSuspended

LEMMA resumeLess == ASSUME resume PROVE GetsLess
BY DEF resume, GetsLess

LEMMA nextLess == ASSUME IInv, next PROVE GetsLess
<1>1. CASE /\ Runs("yield") /\ UNCHANGED choices
           /\ call' = IF all_read(At) THEN Done ELSE Fail
  BY <1>1, StoppingIsLess DEF Runs, Reads, Done, Fail
<1>2. CASE Runs("fail") /\ GoOn(Done)
  <2>1. IsLess(call', frames') /\ choices' = choices
    BY <1>2 DEF Runs, GoOn, IsLess, Done
  <2> QED
    BY <2>1, SameSuspended
<1> QED
  BY <1>1, <1>2 DEF next

LEMMA StepIsLess == ASSUME IInv, Next PROVE GetsLess
BY readLess, atomLess, after_prefix_opLess, exprtl0Less, ambigopLess, exprtlLess,
   postfix_operatorLess, onceLess, operandLess, read_argsLess, read_listLess,
   expect_bracketLess, read_keyLess, read_valueLess, restoreLess, returnLess, resumeLess,
   nextLess DEF Next, Generators

\* However much is tried and given up, the reader gets on with every step: what runs is
\* replaced, and what is suspended joined, by calls that are further in the clause, or try
\* less at the same place, or are waited for by fewer frames there; and the one call that goes
\* back, to the name in front of a dict, does not try it as the tag of one again.  Marks
\* compared from the start of the clause on, frames and turns are well-founded, so are finitely
\* many suspended generators with such calls, and no clause is read for ever.
THEOREM EveryStepOfAReadingCounts == Spec => [][Next => GetsLess]_vars
<1>1. IInv /\ [Next]_vars => [Next => GetsLess]_vars
  BY StepIsLess
<1> QED
  BY <1>1, IInvHolds, PTL DEF Spec
===============================================================================
