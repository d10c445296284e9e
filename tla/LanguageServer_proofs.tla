----------------------- MODULE LanguageServer_proofs -----------------------
(***************************************************************************)
(* Proofs about LanguageServer, for every number of documents, promises,   *)
(* runs and requests and every bound.  The inductive invariant adds to the *)
(* types what the event loop maintains between its steps: where a running  *)
(* validation waits, what an undefined entry waits for, in which order     *)
(* answers, contents and configuration changes are in flight, in which     *)
(* order validations end, and where the newest content of a document is.   *)
(***************************************************************************)
EXTENDS LanguageServer, SequenceTheorems, TLAPS

\* A running validation has a document, and a text to read: that of the open
\* document, or the one its closed document had.
RunsHaveText ==
  \A r \in Run : run[r].stage # "idle" =>
    /\ run[r].uri \in Uri
    /\ run[r].closedText = None => document[run[r].uri] # None
    /\ run[r].stage = "parsed" => run[r].parsed # None

\* r is in the queue s.
In(r, s) == \E i \in DOMAIN s : s[i] = r

\* A running validation is queued: as a ready continuation once its settings
\* are settled, until then with the promise it awaits.
RunsAreQueued ==
  \A r \in Run : run[r].stage # "idle" =>
    IF run[r].settings \in Promise THEN In(r, waiters[run[r].settings])
                                   ELSE In(r, microtasks)

\* Continuations are ready when their settings are, and those that are parked
\* with a promise await that promise.
QueuesFit ==
  /\ \A r \in Run : In(r, microtasks) => run[r].settings \notin Promise
  /\ \A p \in Promise, r \in Run : In(r, waiters[p]) =>
       run[r].settings = p /\ run[r].stage = "settings"

\* A validation has asked for settings, and goes past its parse under settings
\* that it got.
RunsHaveSettings ==
  \A r \in Run :
    /\ run[r].stage # "idle" => run[r].settings \in Promise \cup Outcome
    /\ run[r].stage = "parsed" => run[r].settings \in {"true", "false"}

QueueInv == RunsAreQueued /\ QueuesFit /\ RunsHaveSettings

\* An answer that is not the user's current setting has a notification of a
\* later change behind it.
AnswersAreOvertaken ==
  \A i \in DOMAIN inbox : inbox[i].type = "reply" =>
    \/ inbox[i].value \in {setting, "rejected"}
    \/ \E j \in DOMAIN inbox : j > i /\ inbox[j].type = "config"

\* A validation goes on under the setting it got, and it is done before a
\* change of it can be received.
RunsFollowSetting ==
  \A r \in Run : run[r].stage # "idle" /\ run[r].settings \in {"true", "false"} =>
    run[r].settings = setting \/ ConfigChangeInFlight

\* Without faults an undefined entry waits for a continuation that is ready.
PendingIsBeingStored ==
  Faults = {} => \A u \in Uri : DocumentManager[u] = Pending =>
    \E r \in Run : In(r, microtasks) /\ run[r].stage = "parsed" /\ run[r].uri = u

TypeInv == TypeOK /\ RunsHaveText

\* A reply to the request p is the i-th message in flight; p is the i-th request
\* the client has yet to answer.
ReplyAt(i, p) == i \in DOMAIN inbox /\ inbox[i].type = "reply" /\ inbox[i].promise = p
AskedAt(i, p) == i \in DOMAIN asked /\ asked[i] = p

\* The answer for p is received before the one for q.
Before(p, q) ==
  \/ \E i, j \in DOMAIN inbox : i < j /\ ReplyAt(i, p) /\ ReplyAt(j, q)
  \/ (\E i \in DOMAIN inbox : ReplyAt(i, p)) /\ (\E j \in DOMAIN asked : AskedAt(j, q))
  \/ \E i, j \in DOMAIN asked : i < j /\ AskedAt(i, p) /\ AskedAt(j, q)

\* The i-th message in flight is a content of u.
ContentAt(i, u) == i \in DOMAIN inbox /\ inbox[i].type = "content" /\ inbox[i].uri = u

\* A validation of u is running.
Active(r, u) == run[r].stage # "idle" /\ run[r].uri = u

\* Content n of u is one the editor gave before those in flight.
Below(n, u) ==
  n <= version[u] /\ \A i \in DOMAIN inbox : ContentAt(i, u) => n < inbox[i].version

ContentsInOrder ==
  \A u \in Uri, i \in DOMAIN inbox : ContentAt(i, u) =>
    /\ 1 <= inbox[i].version /\ inbox[i].version <= version[u]
    /\ \A j \in DOMAIN inbox : i < j /\ ContentAt(j, u) => inbox[i].version < inbox[j].version

\* What the server holds is older than what is in flight.
HeldIsOlder ==
  \A u \in Uri, n \in Nat :
    /\ document[u] = n => 1 <= n /\ Below(n, u)
    /\ DocumentManager[u] = n => Below(n, u)
    /\ \A r \in Run : Active(r, u) /\ run[r].closedText = n => 1 <= n /\ Below(n, u)

\* Requests for settings are answered in the order they were sent: no promise is
\* asked for twice, a running validation awaits one that will be settled, and the
\* cached one is the last that its document asked for.
PromisesInLine ==
  /\ \A p \in Promise : ~Before(p, p)
  /\ \A r \in Run, p \in Promise :
       run[r].stage # "idle" /\ run[r].settings = p => PromiseInUse(p)
  /\ \A u \in Uri, p \in Promise : documentSettings[u] = p =>
       /\ PromiseInUse(p)
       /\ \A w \in Uri : documentSettings[w] = p => w = u
       /\ \A r \in Run : run[r].stage # "idle" /\ run[r].settings = p =>
            run[r].uri = u /\ run[r].closedText = None
       /\ \A r \in Run, q \in Promise : Active(r, u) /\ run[r].settings = q =>
            q = p \/ Before(q, p)
  /\ \A u \in Uri, r \in Run :
       documentSettings[u] \in Outcome /\ Active(r, u) => run[r].settings \notin Promise

\* The text r reads is not newer than that of x, now and after later changes.
ReadsNoNewer(r, x) ==
  \/ run[x].closedText = None
  \/ run[r].closedText # None /\ run[x].closedText # None
     /\ run[r].closedText <= run[x].closedText

\* Validations that end together are of one document and one text; one that ends
\* before another of the same document has no newer text.
RunsInOrder ==
  \A r, x \in Run : run[r].stage # "idle" /\ run[x].stage # "idle" =>
    /\ \/ run[r].settings = run[x].settings
       \/ run[r].settings \notin Promise /\ run[x].settings \notin Promise
       => run[r].uri = run[x].uri /\ run[r].closedText = run[x].closedText
    /\ \A p \in Promise : run[r].uri = run[x].uri /\ run[x].settings = p =>
         /\ run[r].settings \notin Promise => ReadsNoNewer(r, x)
         /\ \A q \in Promise : run[r].settings = q /\ Before(q, p) => ReadsNoNewer(r, x)

\* The analysis of u is of no newer content than any running validation of u will
\* store, and neither is of a newer one than the open document.
AnalysesInOrder ==
  \A u \in Uri :
    /\ document[u] # None /\ DocumentManager[u] \in Nat => DocumentManager[u] <= document[u]
    /\ \A r \in Run : Active(r, u) =>
         /\ DocumentManager[u] \in Nat => DocumentManager[u] <= TextOf(r)
         /\ document[u] # None => TextOf(r) <= document[u]
         /\ run[r].stage = "parsed" => run[r].parsed = TextOf(r)

OrderInv ==
  ContentsInOrder /\ HeldIsOlder /\ PromisesInLine /\ RunsInOrder /\ AnalysesInOrder

\* Nothing is rejected.
NothingRejected ==
  "reject" \notin Faults =>
    /\ \A i \in DOMAIN inbox : inbox[i].type = "reply" => inbox[i].value # "rejected"
    /\ \A u \in Uri : documentSettings[u] # "rejected"
    /\ \A r \in Run : run[r].settings # "rejected"

\* The server has an analysis of u not older than content v, or a validation that
\* will store one, unless the last parse of u failed.
Delivered(u, v) ==
  \/ \E r \in Run : Active(r, u) /\ TextOf(r) >= v
  \/ DocumentManager[u] \in Nat /\ DocumentManager[u] >= v
  \/ DocumentManager[u] = Pending /\ \A r \in Run : ~Active(r, u)

OpenIsDelivered ==
  \A u \in Uri, v \in Nat : document[u] = v => Delivered(u, v)

\* The newest content of u is in flight or delivered.
NewestIsDelivered ==
  \A u \in Uri, v \in Nat : version[u] = v =>
    /\ editor[u] => v >= 1
    /\ v >= 1 =>
       \/ \E i \in DOMAIN inbox : ContentAt(i, u) /\ inbox[i].version = v
       \/ (\A i \in DOMAIN inbox : ~ContentAt(i, u)) /\ Delivered(u, v)

RequestAt(i, q) == i \in DOMAIN inbox /\ inbox[i].type = "request" /\ inbox[i].request = q

\* Content v of u, or a later one, is ahead of the i-th message or delivered, and
\* contents behind it are not older.
ServedAt(i, u, v) ==
  /\ \A j \in DOMAIN inbox : i < j /\ ContentAt(j, u) => inbox[j].version >= v
  /\ \/ \E j \in DOMAIN inbox : j < i /\ ContentAt(j, u) /\ inbox[j].version >= v
     \/ (\A j \in DOMAIN inbox : j < i => ~ContentAt(j, u)) /\ Delivered(u, v)

\* The same for a request that was received.
Served(u, v) ==
  /\ \A i \in DOMAIN inbox : ContentAt(i, u) => inbox[i].version >= v
  /\ Delivered(u, v)

\* A request that polls, or that is in flight, has the content it was made about
\* delivered or ahead of it.
RequestsAreServed ==
  \A q \in Request :
    /\ request[q].state # "idle" =>
         request[q].uri \in Uri /\ request[q].version <= version[request[q].uri]
    /\ \A i, j \in DOMAIN inbox : RequestAt(i, q) /\ RequestAt(j, q) => i = j
    /\ \A i \in DOMAIN inbox : RequestAt(i, q) => request[q].state = "sent"
    /\ \A u \in Uri, v \in Nat : request[q].uri = u /\ request[q].version = v =>
         /\ request[q].state = "polling" => Served(u, v)
         /\ \A i \in DOMAIN inbox : RequestAt(i, q) => ServedAt(i, u, v)

-----------------------------------------------------------------------------
(* Types. *)

\* The fields a message has follow from its type.
LEMMA MessageFields ==
  ASSUME NEW m \in Message
  PROVE  /\ m.type = "content" => m.uri \in Uri /\ m.version \in Nat
         /\ m.type = "close" => m.uri \in Uri
         /\ m.type = "reply" => m.promise \in Promise /\ m.value \in Outcome
         /\ m.type = "request" => m.request \in Request
  BY DEF Message, ContentMessage, CloseMessage, ConfigMessage, ReplyMessage, RequestMessage

\* Receiving takes a message of the given type from the queue.
LEMMA ReceiveType ==
  ASSUME TypeOK, NEW type, Receive(type)
  PROVE  /\ Head(inbox) \in Message
         /\ Head(inbox).type = type
         /\ inbox' \in Seq(Message)
  <1>1. inbox \in Seq(Message) /\ inbox # <<>>
    BY DEF TypeOK, Receive
  <1>2. QED
    BY <1>1 DEF Receive

\* Sending appends a message.
LEMMA SendType ==
  ASSUME TypeOK, NEW m \in Message, Send(m)
  PROVE  inbox' \in Seq(Message)
  BY DEF TypeOK, Send

\* A promise and a run are available when validateTextDocument takes them.
LEMMA NewIdentities ==
  ASSUME TypeOK, NEW u \in Uri, validateTextDocument(u)
  PROVE  /\ NewRun \in Run
         /\ run[NewRun].stage = "idle"
         /\ getDocumentSettings(u) \in Promise \cup Outcome
         /\ documentSettings[u] = None => getDocumentSettings(u) \in Promise
  <1>1. NewRun \in Run /\ run[NewRun].stage = "idle"
    BY DEF validateTextDocument, NewRun
  <1>2. documentSettings[u] = None => NewPromise \in Promise
    BY DEF validateTextDocument, NewPromise
  <1>3. QED
    BY <1>1, <1>2 DEF getDocumentSettings, TypeOK

\* A new validation waits for its promise, or is ready at once.
LEMMA ValidationIsQueued ==
  ASSUME TypeOK, NEW u \in Uri, validateTextDocument(u)
  PROVE  waiters' \in [Promise -> Seq(Run)] /\ microtasks' \in Seq(Run)
  <1> DEFINE r == NewRun
             s == getDocumentSettings(u)
  <1>1. r \in Run
    BY NewIdentities
  <1>2. CASE s \in Promise
    <2>1. waiters' = [waiters EXCEPT ![s] = Append(waiters[s], r)] /\ microtasks' = microtasks
      BY <1>2 DEF validateTextDocument
    <2>2. Append(waiters[s], r) \in Seq(Run)
      BY <1>1, <1>2 DEF TypeOK
    <2>3. QED
      BY <1>2, <2>1, <2>2 DEF TypeOK
  <1>3. CASE s \notin Promise
    <2>1. microtasks' = Append(microtasks, r) /\ waiters' = waiters
      BY <1>3 DEF validateTextDocument
    <2>2. QED
      BY <1>1, <2>1 DEF TypeOK
  <1>4. QED
    BY <1>2, <1>3

\* The continuation that runs is that of a run.
LEMMA ReadyRun ==
  ASSUME TypeOK, microtasks # <<>>
  PROVE  Head(microtasks) \in Run /\ Tail(microtasks) \in Seq(Run)
  BY DEF TypeOK

\* While u is parsed its entry is undefined; other entries keep their types.
LEMMA ParseEffectType ==
  ASSUME TypeOK, NEW u \in Uri, NEW thrown \in BOOLEAN, ParseEffect(u, thrown)
  PROVE  DocumentManager' \in [Uri -> Nat \cup {Absent, Pending}]
  <1>1. ImportOutcome(thrown) \subseteq Nat \cup {Pending}
    BY DEF ImportOutcome
  <1>2. PICK loaded \in SUBSET NotKnown(u) :
          \E outcome \in [loaded -> ImportOutcome(thrown)] :
            DocumentManager' = [w \in Uri |-> IF w = u THEN Pending
                                              ELSE IF w \in loaded THEN outcome[w]
                                              ELSE DocumentManager[w]]
    BY DEF ParseEffect
  <1>3. PICK outcome \in [loaded -> ImportOutcome(thrown)] :
          DocumentManager' = [w \in Uri |-> IF w = u THEN Pending
                                            ELSE IF w \in loaded THEN outcome[w]
                                            ELSE DocumentManager[w]]
    BY <1>2
  <1>4. \A w \in loaded : outcome[w] \in Nat \cup {Pending}
    BY <1>1, <1>3
  <1>5. QED
    BY <1>3, <1>4 DEF TypeOK

LEMMA TypeInvInit == Init => TypeInv
  BY MarkersAssumption DEF Init, TypeInv, TypeOK, RunsHaveText, Idle, RunState, RequestState

LEMMA TypeInvNext == TypeInv /\ [Next]_vars => TypeInv'
  <1> SUFFICES ASSUME TypeInv, [Next]_vars
               PROVE  TypeInv'
    OBVIOUS
  <1> USE DEF TypeInv
  <1>1. ASSUME NEW u \in Uri, GiveContent(u)
        PROVE  TypeInv'
    <2>1. [type |-> "content", uri |-> u, version |-> version[u] + 1] \in Message
      BY DEF TypeOK, Message, ContentMessage
    <2>2. inbox' \in Seq(Message)
      BY <1>1, <2>1, SendType DEF GiveContent
    <2>3. QED
      BY <1>1, <2>2 DEF GiveContent, TypeOK, RunsHaveText
  <1>2. ASSUME NEW u \in Uri, CloseDocument(u)
        PROVE  TypeInv'
    <2>1. [type |-> "close", uri |-> u] \in Message
      BY DEF Message, CloseMessage
    <2>2. inbox' \in Seq(Message)
      BY <1>2, <2>1, SendType DEF CloseDocument
    <2>3. QED
      BY <1>2, <2>2 DEF CloseDocument, TypeOK, RunsHaveText
  <1>3. CASE ChangeSetting
    <2>1. [type |-> "config"] \in Message
      BY DEF Message, ConfigMessage
    <2>2. inbox' \in Seq(Message)
      BY <1>3, <2>1, SendType DEF ChangeSetting
    <2>3. QED
      BY <1>3, <2>2 DEF ChangeSetting, TypeOK, RunsHaveText
  <1>4. CASE AnswerConfiguration
    <2>1. Head(asked) \in Promise /\ asked' \in Seq(Promise)
      BY <1>4 DEF AnswerConfiguration, TypeOK
    <2>2. PICK v \in ClientAnswers :
            Send([type |-> "reply", promise |-> Head(asked), value |-> v])
      BY <1>4 DEF AnswerConfiguration
    <2>3. inbox' \in Seq(Message)
      <3>1. v \in Outcome
        BY <1>4 DEF ClientAnswers, Outcome, TypeOK
      <3>2. [type |-> "reply", promise |-> Head(asked), value |-> v] \in Message
        BY <2>1, <3>1 DEF Message, ReplyMessage
      <3>3. QED
        BY <1>4, <2>2, <3>2, SendType
    <2>4. QED
      BY <1>4, <2>1, <2>3 DEF AnswerConfiguration, TypeOK, RunsHaveText
  <1>5. ASSUME NEW q \in Request, NEW u \in Uri, SendRequest(q, u)
        PROVE  TypeInv'
    <2>1. [type |-> "request", request |-> q] \in Message
      BY DEF Message, RequestMessage
    <2>2. inbox' \in Seq(Message)
      BY <1>5, <2>1, SendType DEF SendRequest
    <2>3. request' \in [Request -> RequestState]
      BY <1>5 DEF SendRequest, RequestState, TypeOK
    <2>4. QED
      BY <1>5, <2>2, <2>3 DEF SendRequest, TypeOK, RunsHaveText
  <1>6. CASE DidChangeContent
    <2> DEFINE m == Head(inbox)
               r == NewRun
               s == getDocumentSettings(m.uri)
    <2>1. m \in Message /\ m.type = "content" /\ inbox' \in Seq(Message)
      BY <1>6, ReceiveType DEF DidChangeContent
    <2>2. m.uri \in Uri /\ m.version \in Nat
      BY <2>1, MessageFields
    <2>3. validateTextDocument(m.uri)
      BY <1>6 DEF DidChangeContent
    <2>4. r \in Run /\ run[r].stage = "idle" /\ s \in Promise \cup Outcome
          /\ (documentSettings[m.uri] = None => s \in Promise)
      BY <2>2, <2>3, NewIdentities
    <2>5. document' \in [Uri -> Nat \cup {None}]
          /\ \A u \in Uri : document[u] # None => document'[u] # None
      BY <1>6, <2>2, MarkersAssumption DEF DidChangeContent, TypeOK
    <2>6. documentSettings' \in [Uri -> Promise \cup Outcome \cup {None}]
      BY <2>2, <2>3, <2>4 DEF validateTextDocument, TypeOK
    <2>7. asked' \in Seq(Promise)
      BY <2>2, <2>3, <2>4 DEF validateTextDocument, Asked, TypeOK
    <2>8. run' = [run EXCEPT ![r] = [stage |-> "settings", uri |-> m.uri, settings |-> s,
                                     closedText |-> None, parsed |-> None]]
      BY <2>3 DEF validateTextDocument
    <2>9. run' \in [Run -> RunState]
      BY <2>2, <2>4, <2>8 DEF TypeOK, RunState
    <2>10. waiters' \in [Promise -> Seq(Run)] /\ microtasks' \in Seq(Run)
      BY <2>2, <2>3, ValidationIsQueued
    <2>11. document'[m.uri] # None
      BY <1>6, <2>2, MarkersAssumption DEF DidChangeContent, TypeOK
    <2>12. RunsHaveText'
      BY <2>2, <2>4, <2>5, <2>8, <2>11 DEF RunsHaveText, TypeOK
    <2>13. QED
      BY <1>6, <2>1, <2>5, <2>6, <2>7, <2>9, <2>10, <2>12
         DEF DidChangeContent, TypeOK, editorVars
  <1>7. CASE DidClose
    <2> DEFINE u == Head(inbox).uri
    <2>1. Head(inbox) \in Message /\ Head(inbox).type = "close" /\ inbox' \in Seq(Message)
      BY <1>7, ReceiveType DEF DidClose
    <2>2. u \in Uri
      BY <2>1, MessageFields
    <2>3. document' \in [Uri -> Nat \cup {None}]
      BY <1>7, <2>2 DEF DidClose, TypeOK
    <2>4. documentSettings' \in [Uri -> Promise \cup Outcome \cup {None}]
      BY <1>7, <2>2 DEF DidClose, SettingsAfterClose, TypeOK
    <2>5. run' = [r \in Run |-> IF run[r].uri = u /\ run[r].closedText = None
                                THEN [run[r] EXCEPT !.closedText = document[u]] ELSE run[r]]
      BY <1>7 DEF DidClose, Detached
    <2>6. ASSUME NEW r \in Run
          PROVE  /\ run'[r] \in RunState
                 /\ run'[r].stage = run[r].stage
                 /\ run'[r].uri = run[r].uri
                 /\ run'[r].parsed = run[r].parsed
                 /\ run'[r].closedText =
                      IF run[r].uri = u /\ run[r].closedText = None
                      THEN document[u] ELSE run[r].closedText
      <3>1. run[r] \in RunState /\ document[u] \in Nat \cup {None}
        BY <2>2 DEF TypeOK
      <3>2. QED
        BY <2>5, <3>1 DEF RunState
    <2>7. RunsHaveText'
      BY <1>7, <2>2, <2>6 DEF DidClose, RunsHaveText, TypeOK
    <2>8. QED
      BY <1>7, <2>1, <2>3, <2>4, <2>5, <2>6, <2>7 DEF DidClose, TypeOK, editorVars
  <1>8. CASE DidChangeConfiguration
    <2>1. inbox' \in Seq(Message)
      BY <1>8, ReceiveType DEF DidChangeConfiguration
    <2>2. QED
      BY <1>8, <2>1 DEF DidChangeConfiguration, SettingsAfterConfigChange, TypeOK,
                        RunsHaveText, editorVars
  <1>9. CASE SettingsSettled
    <2> DEFINE p == Head(inbox).promise
               v == Head(inbox).value
    <2>1. Head(inbox) \in Message /\ Head(inbox).type = "reply" /\ inbox' \in Seq(Message)
      BY <1>9, ReceiveType DEF SettingsSettled
    <2>2. p \in Promise /\ v \in Outcome
      BY <2>1, MessageFields
    <2>3. documentSettings' \in [Uri -> Promise \cup Outcome \cup {None}]
      BY <1>9, <2>2 DEF SettingsSettled, TypeOK
    <2>4. run' = [r \in Run |-> IF run[r].settings = p
                                THEN [run[r] EXCEPT !.settings = v] ELSE run[r]]
      BY <1>9 DEF SettingsSettled
    <2>5. run' \in [Run -> RunState]
      BY <2>2, <2>4 DEF TypeOK, RunState
    <2>6. microtasks' \in Seq(Run) /\ waiters' \in [Promise -> Seq(Run)]
      BY <1>9, <2>2 DEF SettingsSettled, TypeOK
    <2>7. RunsHaveText'
      BY <1>9, <2>4 DEF SettingsSettled, RunsHaveText, TypeOK, RunState
    <2>8. QED
      BY <1>9, <2>1, <2>3, <2>5, <2>6, <2>7 DEF SettingsSettled, TypeOK, editorVars
  <1>10. CASE HandleRequest
    <2> DEFINE q == Head(inbox).request
    <2>1. Head(inbox) \in Message /\ Head(inbox).type = "request" /\ inbox' \in Seq(Message)
      BY <1>10, ReceiveType DEF HandleRequest
    <2>2. q \in Request
      BY <2>1, MessageFields
    <2>3. request' \in [Request -> RequestState]
      BY <1>10, <2>2 DEF HandleRequest, TypeOK, RequestState
    <2>4. QED
      BY <1>10, <2>1, <2>3 DEF HandleRequest, TypeOK, RunsHaveText, editorVars
  <1>11. CASE Parse
    <2> DEFINE r == Head(microtasks)
    <2>1. r \in Run /\ Tail(microtasks) \in Seq(Run) /\ run[r].stage = "settings"
      BY <1>11, ReadyRun DEF Parse
    <2>2. run[r].uri \in Uri
      BY <2>1 DEF RunsHaveText
    <2>3. DocumentManager' \in [Uri -> Nat \cup {Absent, Pending}]
      BY <1>11, <2>2, ParseEffectType DEF Parse
    <2>4. TextOf(r) \in Nat
      BY <2>1, <2>2 DEF TextOf, RunsHaveText, TypeOK, RunState
    <2>5. run' = [run EXCEPT ![r].stage = "parsed", ![r].parsed = TextOf(r)]
      BY <1>11 DEF Parse
    <2>6. run' \in [Run -> RunState]
      BY <2>1, <2>4, <2>5 DEF TypeOK, RunState
    <2>7. RunsHaveText'
      BY <1>11, <2>1, <2>4, <2>5, MarkersAssumption DEF Parse, RunsHaveText, TypeOK, RunState
    <2>8. microtasks' \in Seq(Run)
      BY <1>11, <2>1 DEF Parse
    <2>9. QED
      BY <1>11, <2>3, <2>6, <2>7, <2>8 DEF Parse, TypeOK, editorVars
  <1>12. ASSUME NEW r \in Run, Finish(r), UNCHANGED document
         PROVE  run' \in [Run -> RunState] /\ RunsHaveText'
    BY <1>12 DEF Finish, Idle, RunState, TypeOK, RunsHaveText
  <1>13. CASE ParseThrows
    <2> DEFINE r == Head(microtasks)
    <2>1. r \in Run /\ Tail(microtasks) \in Seq(Run) /\ run[r].stage = "settings"
      BY <1>13, ReadyRun DEF ParseThrows
    <2>2. run[r].uri \in Uri
      BY <2>1 DEF RunsHaveText
    <2>3. DocumentManager' \in [Uri -> Nat \cup {Absent, Pending}]
      BY <1>13, <2>2, ParseEffectType DEF ParseThrows
    <2>4. run' \in [Run -> RunState] /\ RunsHaveText'
      BY <1>12, <1>13, <2>1 DEF ParseThrows
    <2>5. QED
      BY <1>13, <2>1, <2>3, <2>4 DEF ParseThrows, TypeOK, editorVars
  <1>14. CASE SettingsRejected
    <2> DEFINE r == Head(microtasks)
    <2>1. r \in Run /\ Tail(microtasks) \in Seq(Run)
      BY <1>14, ReadyRun DEF SettingsRejected
    <2>2. run' \in [Run -> RunState] /\ RunsHaveText'
      BY <1>12, <1>14, <2>1 DEF SettingsRejected
    <2>3. QED
      BY <1>14, <2>1, <2>2 DEF SettingsRejected, TypeOK, editorVars
  <1>15. CASE StoreAnalysis
    <2> DEFINE r == Head(microtasks)
    <2>1. r \in Run /\ Tail(microtasks) \in Seq(Run) /\ run[r].stage = "parsed"
      BY <1>15, ReadyRun DEF StoreAnalysis
    <2>2. run[r].uri \in Uri /\ run[r].parsed \in Nat
      BY <2>1 DEF RunsHaveText, TypeOK, RunState
    <2>3. DocumentManager' \in [Uri -> Nat \cup {Absent, Pending}]
          /\ diagnostics' \in [Uri -> Nat \cup {None}]
      BY <1>15, <2>2 DEF StoreAnalysis, Stored, TypeOK
    <2>4. run' \in [Run -> RunState] /\ RunsHaveText'
      BY <1>12, <1>15, <2>1 DEF StoreAnalysis
    <2>5. QED
      BY <1>15, <2>1, <2>3, <2>4 DEF StoreAnalysis, TypeOK, editorVars
  <1>16. ASSUME NEW q \in Request, PollAnswers(q)
         PROVE  TypeInv'
    <2>1. request' \in [Request -> RequestState]
      BY <1>16 DEF PollAnswers, TypeOK, RequestState
    <2>2. QED
      BY <1>16, <2>1 DEF PollAnswers, TypeOK, RunsHaveText, editorVars
  <1>17. CASE UNCHANGED vars
    BY <1>17 DEF vars, TypeOK, RunsHaveText
  <1>18. QED
    BY <1>1, <1>2, <1>3, <1>4, <1>5, <1>6, <1>7, <1>8, <1>9, <1>10, <1>11, <1>13,
       <1>14, <1>15, <1>16, <1>17 DEF Next, Macrotask, Microtask

\* Every variable keeps its type, and every running validation has a document
\* and a text (validateTextDocument, server.ts:152).
THEOREM TypeCorrect == Spec => []TypeOK
  <1>1. TypeInv => TypeOK
    BY DEF TypeInv
  <1>2. QED
    BY <1>1, TypeInvInit, TypeInvNext, PTL DEF Spec

-----------------------------------------------------------------------------
(* The cache of settings. *)

LEMMA SettingsOnlyForOpenNext ==
  TypeInv /\ SettingsOnlyForOpenDocuments /\ [Next]_vars => SettingsOnlyForOpenDocuments'
  <1> SUFFICES ASSUME TypeInv, SettingsOnlyForOpenDocuments, [Next]_vars
               PROVE  SettingsOnlyForOpenDocuments'
    OBVIOUS
  <1> USE DEF TypeInv, SettingsOnlyForOpenDocuments
  <1>1. CASE DidChangeContent
    <2> DEFINE u == Head(inbox).uri
    <2>1. u \in Uri /\ Head(inbox).version \in Nat
      BY <1>1, ReceiveType, MessageFields DEF DidChangeContent
    <2>2. document' = [document EXCEPT ![u] = Head(inbox).version]
          /\ \A w \in Uri \ {u} : documentSettings'[w] = documentSettings[w]
      BY <1>1, <2>1 DEF DidChangeContent, validateTextDocument, TypeOK
    <2>3. QED
      BY <2>1, <2>2, MarkersAssumption DEF TypeOK
  <1>2. CASE DidClose
    <2>1. Head(inbox).uri \in Uri
      BY <1>2, ReceiveType, MessageFields DEF DidClose
    <2>2. QED
      BY <1>2, <2>1 DEF DidClose, SettingsAfterClose, TypeOK
  <1>3. CASE DidChangeConfiguration
    BY <1>3 DEF DidChangeConfiguration, SettingsAfterConfigChange
  <1>4. CASE SettingsSettled
    <2>1. Head(inbox).promise \in Promise
      BY <1>4, ReceiveType, MessageFields DEF SettingsSettled
    <2>2. QED
      BY <1>4, <2>1, MarkersAssumption DEF SettingsSettled, TypeOK
  <1>5. CASE UNCHANGED <<document, documentSettings>>
    BY <1>5
  <1>6. QED
    BY <1>1, <1>2, <1>3, <1>4, <1>5
       DEF Next, Macrotask, Microtask, GiveContent, CloseDocument, ChangeSetting,
           AnswerConfiguration, SendRequest, HandleRequest, Parse, ParseThrows,
           SettingsRejected, StoreAnalysis, PollAnswers, vars

\* The cache never holds settings of a document that is not open, whatever is in
\* flight when it is closed (onDidClose, server.ts:141-144).
THEOREM SettingsAreForOpenDocuments == Spec => []SettingsOnlyForOpenDocuments
  <1>1. Init => SettingsOnlyForOpenDocuments
    BY DEF Init, SettingsOnlyForOpenDocuments
  <1>2. QED
    BY <1>1, TypeInvInit, TypeInvNext, SettingsOnlyForOpenNext, PTL DEF Spec

-----------------------------------------------------------------------------
(* Answers and configuration changes in flight.  The argument is about the  *)
(* order of the queue: an answer carries the setting of its moment, a       *)
(* change puts a notification behind every answer that it makes outdated.   *)

\* What appending a message does to positions in the queue.
LEMMA AfterSend ==
  ASSUME TypeOK, NEW m \in Message, Send(m)
  PROVE  /\ DOMAIN inbox' = 1 .. Len(inbox) + 1
         /\ DOMAIN inbox = 1 .. Len(inbox) /\ Len(inbox) \in Nat
         /\ \A i \in 1 .. Len(inbox) : inbox'[i] = inbox[i]
         /\ inbox'[Len(inbox) + 1] = m
  BY DEF TypeOK, Send

\* What receiving one does.
LEMMA AfterReceive ==
  ASSUME TypeOK, NEW type, Receive(type)
  PROVE  /\ Len(inbox) \in Nat \ {0}
         /\ DOMAIN inbox = 1 .. Len(inbox)
         /\ DOMAIN inbox' = 1 .. Len(inbox) - 1
         /\ \A i \in 1 .. Len(inbox) - 1 : inbox'[i] = inbox[i + 1]
         /\ inbox[1] = Head(inbox) /\ inbox[1].type = type
  BY DEF TypeOK, Receive

\* A message that is no change of configuration leaves the order of the others.
LEMMA OvertakenAfterReceive ==
  ASSUME TypeOK, AnswersAreOvertaken, NEW type, Receive(type), setting' = setting
  PROVE  /\ AnswersAreOvertaken'
         /\ type # "config" => (ConfigChangeInFlight => ConfigChangeInFlight')
  <1>1. ASSUME NEW i \in DOMAIN inbox', inbox'[i].type = "reply"
        PROVE  \/ inbox'[i].value \in {setting', "rejected"}
               \/ \E j \in DOMAIN inbox' : j > i /\ inbox'[j].type = "config"
    <2>1. i \in 1 .. Len(inbox) - 1 /\ i + 1 \in DOMAIN inbox /\ inbox'[i] = inbox[i + 1]
      BY AfterReceive
    <2>2. CASE inbox[i + 1].value \in {setting, "rejected"}
      BY <2>1, <2>2
    <2>3. CASE \E j \in DOMAIN inbox : j > i + 1 /\ inbox[j].type = "config"
      <3>1. PICK j \in DOMAIN inbox : j > i + 1 /\ inbox[j].type = "config"
        BY <2>3
      <3>2. j - 1 \in DOMAIN inbox' /\ j - 1 > i /\ inbox'[j - 1] = inbox[j]
        BY <2>1, <3>1, AfterReceive
      <3>3. QED
        BY <3>1, <3>2
    <2>4. QED
      BY <1>1, <2>1, <2>2, <2>3 DEF AnswersAreOvertaken
  <1>2. ASSUME type # "config", ConfigChangeInFlight
        PROVE  ConfigChangeInFlight'
    <2>1. PICK j \in DOMAIN inbox : inbox[j].type = "config"
      BY <1>2 DEF ConfigChangeInFlight
    <2>2. j # 1
      BY <1>2, <2>1, AfterReceive
    <2>3. j - 1 \in DOMAIN inbox' /\ inbox'[j - 1] = inbox[j]
      BY <2>1, <2>2, AfterReceive
    <2>4. QED
      BY <2>1, <2>3 DEF ConfigChangeInFlight
  <1>3. QED
    BY <1>1, <1>2 DEF AnswersAreOvertaken

\* Sending leaves the order of the messages in flight, too.
LEMMA OvertakenAfterSend ==
  ASSUME TypeOK, AnswersAreOvertaken, NEW m \in Message, Send(m),
         \/ m.type = "config"
         \/ /\ setting' = setting
            /\ m.type = "reply" => m.value \in {setting, "rejected"}
  PROVE  /\ AnswersAreOvertaken'
         /\ ConfigChangeInFlight => ConfigChangeInFlight'
         /\ m.type = "config" => ConfigChangeInFlight'
  <1> DEFINE n == Len(inbox) + 1
  <1>1. n \in DOMAIN inbox' /\ inbox'[n] = m /\ n \in Nat
        /\ \A i \in DOMAIN inbox : i \in DOMAIN inbox' /\ inbox'[i] = inbox[i] /\ i < n
    BY AfterSend
  <1>2. ASSUME NEW i \in DOMAIN inbox', inbox'[i].type = "reply"
        PROVE  \/ inbox'[i].value \in {setting', "rejected"}
               \/ \E j \in DOMAIN inbox' : j > i /\ inbox'[j].type = "config"
    <2>1. CASE i = n
      BY <1>1, <1>2, <2>1
    <2>2. CASE i \in DOMAIN inbox /\ m.type = "config"
      BY <1>1, <2>2
    <2>3. CASE i \in DOMAIN inbox /\ m.type # "config"
      BY <1>1, <1>2, <2>3 DEF AnswersAreOvertaken
    <2>4. i = n \/ i \in DOMAIN inbox
      BY AfterSend
    <2>5. QED
      BY <2>1, <2>2, <2>3, <2>4
  <1>3. ConfigChangeInFlight => ConfigChangeInFlight'
    BY <1>1 DEF ConfigChangeInFlight
  <1>4. m.type = "config" => ConfigChangeInFlight'
    BY <1>1 DEF ConfigChangeInFlight
  <1>5. QED
    BY <1>2, <1>3, <1>4 DEF AnswersAreOvertaken

\* Unless the server receives a change of configuration, what is current stays
\* current, or a notification of a change is in flight.
LEMMA AnswersNext ==
  ASSUME TypeInv, AnswersAreOvertaken, [Next]_vars
  PROVE  /\ AnswersAreOvertaken'
         /\ \/ DidChangeConfiguration
            \/ /\ setting' = setting \/ ConfigChangeInFlight'
               /\ ConfigChangeInFlight => ConfigChangeInFlight'
  <1> USE DEF TypeInv
  <1>1. ASSUME NEW u \in Uri, GiveContent(u)
        PROVE  AnswersAreOvertaken' /\ setting' = setting
               /\ (ConfigChangeInFlight => ConfigChangeInFlight')
    <2> DEFINE m == [type |-> "content", uri |-> u, version |-> version[u] + 1]
    <2>1. m \in Message /\ m.type = "content"
      BY DEF TypeOK, Message, ContentMessage
    <2>2. Send(m) /\ setting' = setting
      BY <1>1 DEF GiveContent
    <2>3. QED
      BY <2>1, <2>2, OvertakenAfterSend
  <1>2. ASSUME NEW u \in Uri, CloseDocument(u)
        PROVE  AnswersAreOvertaken' /\ setting' = setting
               /\ (ConfigChangeInFlight => ConfigChangeInFlight')
    <2> DEFINE m == [type |-> "close", uri |-> u]
    <2>1. m \in Message /\ m.type = "close"
      BY DEF Message, CloseMessage
    <2>2. Send(m) /\ setting' = setting
      BY <1>2 DEF CloseDocument
    <2>3. QED
      BY <2>1, <2>2, OvertakenAfterSend
  <1>3. CASE ChangeSetting
    <2> DEFINE m == [type |-> "config"]
    <2>1. m \in Message /\ m.type = "config"
      BY DEF Message, ConfigMessage
    <2>2. Send(m)
      BY <1>3 DEF ChangeSetting
    <2>3. AnswersAreOvertaken' /\ ConfigChangeInFlight'
      BY <2>1, <2>2, OvertakenAfterSend
    <2>4. QED
      BY <2>3
  <1>4. CASE AnswerConfiguration
    <2>1. Head(asked) \in Promise /\ setting' = setting
      BY <1>4 DEF AnswerConfiguration, TypeOK
    <2>2. PICK v \in ClientAnswers :
            Send([type |-> "reply", promise |-> Head(asked), value |-> v])
      BY <1>4 DEF AnswerConfiguration
    <2> DEFINE m == [type |-> "reply", promise |-> Head(asked), value |-> v]
    <2>3. m \in Message /\ m.type = "reply" /\ m.value \in {setting, "rejected"}
      <3>1. v \in {setting, "rejected"}
        BY <2>2 DEF ClientAnswers
      <3>2. v \in Outcome
        BY <3>1 DEF Outcome, TypeOK
      <3>3. QED
        BY <2>1, <3>1, <3>2 DEF Message, ReplyMessage
    <2>4. QED
      BY <2>1, <2>2, <2>3, OvertakenAfterSend
  <1>5. ASSUME NEW q \in Request, NEW u \in Uri, SendRequest(q, u)
        PROVE  AnswersAreOvertaken' /\ setting' = setting
               /\ (ConfigChangeInFlight => ConfigChangeInFlight')
    <2> DEFINE m == [type |-> "request", request |-> q]
    <2>1. m \in Message /\ m.type = "request"
      BY DEF Message, RequestMessage
    <2>2. Send(m) /\ setting' = setting
      BY <1>5 DEF SendRequest
    <2>3. QED
      BY <2>1, <2>2, OvertakenAfterSend
  <1>6. ASSUME NEW type \in {"content", "close", "reply", "request"},
               Receive(type), setting' = setting
        PROVE  AnswersAreOvertaken' /\ (ConfigChangeInFlight => ConfigChangeInFlight')
    BY <1>6, OvertakenAfterReceive
  <1>7. CASE DidChangeConfiguration
    <2>1. Receive("config") /\ setting' = setting
      BY <1>7 DEF DidChangeConfiguration, editorVars
    <2>2. QED
      BY <1>7, <2>1, OvertakenAfterReceive
  <1>8. CASE DidChangeContent \/ DidClose \/ SettingsSettled \/ HandleRequest
    <2>1. setting' = setting
      BY <1>8 DEF DidChangeContent, DidClose, SettingsSettled, HandleRequest, editorVars
    <2>2. \E type \in {"content", "close", "reply", "request"} : Receive(type)
      BY <1>8 DEF DidChangeContent, DidClose, SettingsSettled, HandleRequest
    <2>3. QED
      BY <1>6, <2>1, <2>2
  <1>9. CASE UNCHANGED <<inbox, setting>>
    BY <1>9 DEF AnswersAreOvertaken, ConfigChangeInFlight
  <1>10. UNCHANGED <<inbox, setting>> \/ DidChangeConfiguration
         \/ DidChangeContent \/ DidClose \/ SettingsSettled \/ HandleRequest
         \/ ChangeSetting \/ AnswerConfiguration
         \/ (\E u \in Uri : GiveContent(u) \/ CloseDocument(u))
         \/ (\E q \in Request, u \in Uri : SendRequest(q, u))
    BY DEF Next, Macrotask, Microtask, Parse, ParseThrows, SettingsRejected,
           StoreAnalysis, PollAnswers, vars, editorVars
  <1>11. QED
    BY <1>1, <1>2, <1>3, <1>4, <1>5, <1>7, <1>8, <1>9, <1>10

LEMMA CachedSettingsNext ==
  ASSUME TypeInv, AnswersAreOvertaken, CachedSettingsAreCurrent, [Next]_vars
  PROVE  CachedSettingsAreCurrent'
  <1> USE DEF TypeInv
  <1>1. CASE DidChangeConfiguration
    BY <1>1, MarkersAssumption
       DEF DidChangeConfiguration, SettingsAfterConfigChange, CachedSettingsAreCurrent
  <1>2. ASSUME ~DidChangeConfiguration, NEW u \in Uri,
               documentSettings'[u] \in {"true", "false"},
               documentSettings'[u] # documentSettings[u]
        PROVE  SettingsSettled /\ documentSettings'[u] = Head(inbox).value
    <2>1. CASE DidChangeContent
      <3> DEFINE w == Head(inbox).uri
      <3>1. w \in Uri /\ validateTextDocument(w)
        BY <2>1, ReceiveType, MessageFields DEF DidChangeContent
      <3>2. documentSettings[w] = None => getDocumentSettings(w) \in Promise
        BY <3>1, NewIdentities
      <3>3. documentSettings' = [documentSettings EXCEPT ![w] = getDocumentSettings(w)]
        BY <3>1 DEF validateTextDocument
      <3>4. QED
        BY <1>2, <3>1, <3>2, <3>3, MarkersAssumption DEF getDocumentSettings, TypeOK
    <2>2. CASE DidClose
      <3>1. Head(inbox).uri \in Uri
        BY <2>2, ReceiveType, MessageFields DEF DidClose
      <3>2. QED
        BY <1>2, <2>2, <3>1, MarkersAssumption DEF DidClose, SettingsAfterClose, TypeOK
    <2>3. CASE SettingsSettled
      BY <1>2, <2>3 DEF SettingsSettled
    <2>4. DidChangeContent \/ DidClose \/ SettingsSettled
      BY <1>2 DEF Next, Macrotask, Microtask, GiveContent, CloseDocument, ChangeSetting,
           AnswerConfiguration, SendRequest, HandleRequest, Parse, ParseThrows,
           SettingsRejected, StoreAnalysis, PollAnswers, vars
    <2>5. QED
      BY <2>1, <2>2, <2>3, <2>4
  <1>3. CASE SettingsSettled
    <2>1. Receive("reply") /\ setting' = setting
      BY <1>3 DEF SettingsSettled, editorVars
    <2>2. Head(inbox) = inbox[1] /\ 1 \in DOMAIN inbox /\ inbox[1].type = "reply"
      BY <2>1, AfterReceive
    <2>3. \/ Head(inbox).value \in {setting, "rejected"}
          \/ \E j \in DOMAIN inbox : j > 1 /\ inbox[j].type = "config"
      BY <2>2 DEF AnswersAreOvertaken
    <2>4. Head(inbox).value \in {setting, "rejected"} \/ ConfigChangeInFlight
      BY <2>3 DEF ConfigChangeInFlight
    <2>5. ConfigChangeInFlight => ConfigChangeInFlight'
      BY <2>1, OvertakenAfterReceive
    <2>6. ASSUME NEW u \in Uri, documentSettings'[u] \in {"true", "false"}
          PROVE  documentSettings'[u] = setting' \/ ConfigChangeInFlight'
      <3>1. documentSettings'[u] = documentSettings[u]
            \/ documentSettings'[u] = Head(inbox).value
        BY <1>3 DEF SettingsSettled
      <3>2. QED
        BY <2>1, <2>4, <2>5, <2>6, <3>1 DEF CachedSettingsAreCurrent
    <2>7. QED
      BY <2>6 DEF CachedSettingsAreCurrent
  <1>4. CASE ~DidChangeConfiguration /\ ~SettingsSettled
    <2>1. \A u \in Uri : documentSettings'[u] \in {"true", "false"} =>
            documentSettings'[u] = documentSettings[u]
      BY <1>2, <1>4
    <2>2. (setting' = setting \/ ConfigChangeInFlight')
          /\ (ConfigChangeInFlight => ConfigChangeInFlight')
      BY <1>4, AnswersNext
    <2>3. QED
      BY <2>1, <2>2 DEF CachedSettingsAreCurrent
  <1>5. QED
    BY <1>1, <1>3, <1>4

\* A cached setting is the user's current one or about to be dropped: the cache
\* may be read without asking again (getDocumentSettings, server.ts:126-139).
THEOREM CacheIsCurrent == Spec => []CachedSettingsAreCurrent
  <1>1. Init => AnswersAreOvertaken /\ CachedSettingsAreCurrent
    BY MarkersAssumption DEF Init, AnswersAreOvertaken, CachedSettingsAreCurrent
  <1>2. TypeInv /\ AnswersAreOvertaken /\ CachedSettingsAreCurrent /\ [Next]_vars
        => AnswersAreOvertaken' /\ CachedSettingsAreCurrent'
    BY AnswersNext, CachedSettingsNext
  <1>3. QED
    BY <1>1, <1>2, TypeInvInit, TypeInvNext, PTL DEF Spec

-----------------------------------------------------------------------------
(* Where running validations wait. *)

LEMMA InAppend ==
  ASSUME NEW s \in Seq(Run), NEW r \in Run, NEW x
  PROVE  In(x, Append(s, r)) <=> In(x, s) \/ x = r
  <1>1. Append(s, r) \in Seq(Run) /\ Len(Append(s, r)) = Len(s) + 1
        /\ DOMAIN Append(s, r) = 1 .. Len(s) + 1 /\ DOMAIN s = 1 .. Len(s) /\ Len(s) \in Nat
        /\ (\A i \in 1 .. Len(s) : Append(s, r)[i] = s[i]) /\ Append(s, r)[Len(s) + 1] = r
    OBVIOUS
  <1>2. QED
    BY <1>1 DEF In

LEMMA InTail ==
  ASSUME NEW s \in Seq(Run), s # <<>>, NEW x
  PROVE  In(x, s) <=> x = Head(s) \/ In(x, Tail(s))
  <1>1. Len(s) \in Nat \ {0} /\ DOMAIN s = 1 .. Len(s) /\ Head(s) = s[1]
        /\ DOMAIN Tail(s) = 1 .. Len(s) - 1
        /\ \A i \in 1 .. Len(s) - 1 : Tail(s)[i] = s[i + 1]
    OBVIOUS
  <1>2. ASSUME In(x, s), x # Head(s)
        PROVE  In(x, Tail(s))
    <2>1. PICK i \in DOMAIN s : s[i] = x
      BY <1>2 DEF In
    <2>2. i # 1
      BY <1>1, <1>2, <2>1
    <2>3. i - 1 \in DOMAIN Tail(s) /\ Tail(s)[i - 1] = x
      BY <1>1, <2>1, <2>2
    <2>4. QED
      BY <2>3 DEF In
  <1>3. In(x, Tail(s)) => In(x, s)
    BY <1>1 DEF In
  <1>4. x = Head(s) => In(x, s)
    BY <1>1 DEF In
  <1>5. QED
    BY <1>2, <1>3, <1>4

LEMMA InEmpty == \A x : ~In(x, <<>>)
  BY DEF In

LEMMA QueueInvInit == Init => QueueInv
  BY InEmpty, MarkersAssumption
     DEF Init, QueueInv, RunsAreQueued, QueuesFit, RunsHaveSettings, Idle

\* What a validation that starts does to the queues.
LEMMA StartQueues ==
  ASSUME TypeInv, QueueInv, DidChangeContent
  PROVE  QueueInv'
  <1> USE DEF TypeInv
  <1> DEFINE u == Head(inbox).uri
             r == NewRun
             s == getDocumentSettings(u)
  <1>1. u \in Uri /\ validateTextDocument(u) /\ microtasks = <<>>
    BY ReceiveType, MessageFields DEF DidChangeContent, Receive
  <1>2. r \in Run /\ run[r].stage = "idle" /\ s \in Promise \cup Outcome
    BY <1>1, NewIdentities
  <1>3. run' = [run EXCEPT ![r] = [stage |-> "settings", uri |-> u, settings |-> s,
                                   closedText |-> None, parsed |-> None]]
    BY <1>1 DEF validateTextDocument
  <1>4. run'[r].stage = "settings" /\ run'[r].settings = s
        /\ \A x \in Run \ {r} : run'[x] = run[x]
    BY <1>2, <1>3 DEF TypeOK
  <1>5. \A x \in Run : ~In(x, microtasks)
    BY <1>1, InEmpty
  <1>6. \A x \in Run, p \in Promise : In(x, waiters[p]) => x # r
    BY <1>2 DEF QueueInv, QueuesFit
  <1>7. RunsHaveSettings'
    BY <1>2, <1>4 DEF QueueInv, RunsHaveSettings
  <1>8. CASE s \in Promise
    <2>1. waiters' = [waiters EXCEPT ![s] = Append(waiters[s], r)] /\ microtasks' = microtasks
      BY <1>1, <1>8 DEF validateTextDocument
    <2>2. \A x \in Run, p \in Promise :
            In(x, waiters'[p]) <=> In(x, waiters[p]) \/ (x = r /\ p = s)
      BY <1>2, <1>8, <2>1, InAppend DEF TypeOK
    <2>3. RunsAreQueued'
      BY <1>2, <1>4, <1>5, <1>8, <2>1, <2>2 DEF QueueInv, RunsAreQueued
    <2>4. QueuesFit'
      BY <1>2, <1>4, <1>5, <1>6, <1>8, <2>1, <2>2 DEF QueueInv, QueuesFit
    <2>5. QED
      BY <1>7, <2>3, <2>4 DEF QueueInv
  <1>9. CASE s \notin Promise
    <2>1. microtasks' = Append(microtasks, r) /\ waiters' = waiters
      BY <1>1, <1>9 DEF validateTextDocument
    <2>2. \A x \in Run : In(x, microtasks') <=> x = r
      BY <1>2, <1>5, <2>1, InAppend DEF TypeOK
    <2>3. RunsAreQueued'
      BY <1>2, <1>4, <1>5, <1>9, <2>1, <2>2 DEF QueueInv, RunsAreQueued
    <2>4. QueuesFit'
      BY <1>2, <1>4, <1>5, <1>6, <1>9, <2>1, <2>2 DEF QueueInv, QueuesFit
    <2>5. QED
      BY <1>7, <2>3, <2>4 DEF QueueInv
  <1>10. QED
    BY <1>8, <1>9

\* What settling a promise does to them.
LEMMA SettleQueues ==
  ASSUME TypeInv, QueueInv, SettingsSettled
  PROVE  QueueInv'
  <1> USE DEF TypeInv
  <1> DEFINE p == Head(inbox).promise
             v == Head(inbox).value
  <1>1. p \in Promise /\ v \in Outcome /\ v \notin Promise /\ microtasks = <<>>
    BY ReceiveType, MessageFields, MarkersAssumption DEF SettingsSettled, Receive, Outcome
  <1>2. \A r \in Run :
          /\ run'[r].stage = run[r].stage
          /\ run'[r].settings = IF run[r].settings = p THEN v ELSE run[r].settings
    BY DEF SettingsSettled, TypeOK, RunState
  <1>3. microtasks' = waiters[p] /\ waiters' = [waiters EXCEPT ![p] = <<>>]
    BY DEF SettingsSettled
  <1>4. \A r \in Run : ~In(r, microtasks) /\ ~In(r, waiters'[p])
    BY <1>1, <1>3, InEmpty DEF TypeOK
  <1>5. \A q \in Promise \ {p} : waiters'[q] = waiters[q]
    BY <1>3 DEF TypeOK
  <1>6. RunsAreQueued'
    BY <1>1, <1>2, <1>3, <1>4, <1>5 DEF QueueInv, RunsAreQueued
  <1>7. QueuesFit'
    BY <1>1, <1>2, <1>3, <1>4, <1>5 DEF QueueInv, QueuesFit
  <1>8. RunsHaveSettings'
    BY <1>1, <1>2, MarkersAssumption DEF QueueInv, RunsHaveSettings
  <1>9. QED
    BY <1>6, <1>7, <1>8 DEF QueueInv

\* What the continuation at the head of the queue does to them.
LEMMA MicrotaskQueues ==
  ASSUME TypeInv, QueueInv, Microtask
  PROVE  QueueInv'
  <1> USE DEF TypeInv
  <1> DEFINE r == Head(microtasks)
  <1>1. r \in Run /\ microtasks # <<>> /\ Tail(microtasks) \in Seq(Run) /\ waiters' = waiters
    BY ReadyRun DEF Microtask, Parse, ParseThrows, SettingsRejected, StoreAnalysis
  <1>2. \A x \in Run : In(x, microtasks) <=> x = r \/ In(x, Tail(microtasks))
    BY <1>1, InTail DEF TypeOK
  <1>3. run[r].settings \notin Promise
    BY <1>1, <1>2 DEF QueueInv, QueuesFit
  <1>4. \A p \in Promise : ~In(r, waiters[p])
    BY <1>1, <1>3 DEF QueueInv, QueuesFit
  <1>5. CASE Parse
    <2>1. /\ run'[r].stage = "parsed" /\ run'[r].settings = run[r].settings
          /\ \A x \in Run \ {r} : run'[x] = run[x]
      BY <1>1, <1>5 DEF Parse, TypeOK, RunState
    <2>2. \A x \in Run : In(x, microtasks') <=> In(x, microtasks)
      BY <1>1, <1>2, <1>5, InAppend DEF Parse
    <2>3. run[r].settings \in {"true", "false"}
      BY <1>1, <1>3, <1>5 DEF QueueInv, RunsHaveSettings, Parse, Outcome
    <2>4. RunsAreQueued'
      BY <1>1, <1>2, <1>3, <2>1, <2>2 DEF QueueInv, RunsAreQueued
    <2>5. QueuesFit'
      BY <1>1, <1>3, <1>4, <2>1, <2>2 DEF QueueInv, QueuesFit
    <2>6. RunsHaveSettings'
      BY <1>1, <2>1, <2>3 DEF QueueInv, RunsHaveSettings, Outcome
    <2>7. QED
      BY <2>4, <2>5, <2>6 DEF QueueInv
  <1>6. CASE Finish(r) /\ microtasks' = Tail(microtasks)
    <2>1. /\ run'[r].stage = "idle" /\ run'[r].settings = None
          /\ \A x \in Run \ {r} : run'[x] = run[x]
      BY <1>1, <1>6 DEF Finish, Idle, TypeOK
    <2>2. RunsAreQueued'
      BY <1>1, <1>2, <1>6, <2>1 DEF QueueInv, RunsAreQueued
    <2>3. QueuesFit'
      BY <1>1, <1>2, <1>4, <1>6, <2>1, MarkersAssumption DEF QueueInv, QueuesFit
    <2>4. RunsHaveSettings'
      BY <1>1, <2>1 DEF QueueInv, RunsHaveSettings
    <2>5. QED
      BY <2>2, <2>3, <2>4 DEF QueueInv
  <1>7. QED
    BY <1>5, <1>6 DEF Microtask, ParseThrows, SettingsRejected, StoreAnalysis

LEMMA QueueInvNext ==
  ASSUME TypeInv, QueueInv, [Next]_vars
  PROVE  QueueInv'
  <1> USE DEF TypeInv
  <1>1. CASE DidClose
    <2>1. \A r \in Run : run'[r].stage = run[r].stage /\ run'[r].settings = run[r].settings
      BY <1>1 DEF DidClose, Detached, TypeOK, RunState
    <2>2. waiters' = waiters /\ microtasks' = microtasks
      BY <1>1 DEF DidClose
    <2>3. QED
      BY <2>1, <2>2 DEF QueueInv, RunsAreQueued, QueuesFit, RunsHaveSettings
  <1>2. CASE UNCHANGED <<run, waiters, microtasks>>
    BY <1>2 DEF QueueInv, RunsAreQueued, QueuesFit, RunsHaveSettings
  <1>3. DidChangeContent \/ SettingsSettled \/ Microtask \/ DidClose
        \/ UNCHANGED <<run, waiters, microtasks>>
    BY DEF Next, Macrotask, GiveContent, CloseDocument, ChangeSetting, AnswerConfiguration,
           SendRequest, HandleRequest, DidChangeConfiguration, PollAnswers, vars
  <1>4. QED
    BY <1>1, <1>2, <1>3, StartQueues, SettleQueues, MicrotaskQueues

-----------------------------------------------------------------------------
(* Undefined entries. *)

LEMMA PendingIsBeingStoredNext ==
  ASSUME TypeInv, PendingIsBeingStored, [Next]_vars
  PROVE  PendingIsBeingStored'
  <1> USE DEF TypeInv
  <1> SUFFICES ASSUME Faults = {}, NEW u \in Uri, DocumentManager'[u] = Pending
               PROVE  \E r \in Run : In(r, microtasks') /\ run'[r].stage = "parsed"
                                     /\ run'[r].uri = u
    BY DEF PendingIsBeingStored
  <1>1. CASE Microtask
    <2> DEFINE r == Head(microtasks)
    <2>1. r \in Run /\ Tail(microtasks) \in Seq(Run)
          /\ \A x \in Run : In(x, microtasks) <=> x = r \/ In(x, Tail(microtasks))
      BY <1>1, ReadyRun, InTail
         DEF Microtask, Parse, ParseThrows, SettingsRejected, StoreAnalysis, TypeOK
    <2>2. CASE Parse
      <3>1. run[r].stage = "settings" /\ run[r].uri \in Uri
        BY <2>1, <2>2 DEF Parse, RunsHaveText
      <3>2. /\ run'[r].stage = "parsed" /\ run'[r].uri = run[r].uri
            /\ \A x \in Run \ {r} : run'[x] = run[x]
        BY <2>1, <2>2 DEF Parse, TypeOK, RunState
      <3>3. \A x \in Run : In(x, microtasks') <=> In(x, microtasks)
        BY <2>1, <2>2, InAppend DEF Parse
      <3>4. u = run[r].uri \/ DocumentManager[u] = Pending
        <4>1. ParseEffect(run[r].uri, FALSE) /\ ImportOutcome(FALSE) = {0}
          BY <2>2 DEF Parse, ImportOutcome
        <4>2. PICK loaded \in SUBSET NotKnown(run[r].uri) :
                \E outcome \in [loaded -> {0}] :
                  DocumentManager' = [w \in Uri |-> IF w = run[r].uri THEN Pending
                                                    ELSE IF w \in loaded THEN outcome[w]
                                                    ELSE DocumentManager[w]]
          BY <4>1 DEF ParseEffect
        <4>3. QED
          BY <4>2, MarkersAssumption
      <3>5. CASE u = run[r].uri
        BY <2>1, <3>2, <3>3, <3>5
      <3>6. CASE DocumentManager[u] = Pending
        <4>1. PICK x \in Run : In(x, microtasks) /\ run[x].stage = "parsed" /\ run[x].uri = u
          BY <3>6 DEF PendingIsBeingStored
        <4>2. x # r
          BY <3>1, <4>1
        <4>3. QED
          BY <3>2, <3>3, <4>1, <4>2
      <3>7. QED
        BY <3>4, <3>5, <3>6
    <2>3. CASE SettingsRejected \/ StoreAnalysis
      <3>1. /\ microtasks' = Tail(microtasks)
            /\ \A x \in Run \ {r} : run'[x] = run[x]
        BY <2>1, <2>3 DEF SettingsRejected, StoreAnalysis, Finish, TypeOK
      <3>2. DocumentManager[u] = Pending /\ ~(run[r].stage = "parsed" /\ run[r].uri = u)
        <4>1. CASE SettingsRejected
          BY <4>1 DEF SettingsRejected
        <4>2. CASE StoreAnalysis
          <5>1. run[r].uri \in Uri /\ run[r].parsed \in Nat
            BY <2>1, <4>2 DEF StoreAnalysis, RunsHaveText, TypeOK, RunState
          <5>2. DocumentManager' = [DocumentManager EXCEPT ![run[r].uri] = run[r].parsed]
            BY <4>2 DEF StoreAnalysis, Stored
          <5>3. QED
            BY <5>1, <5>2, MarkersAssumption DEF TypeOK
        <4>3. QED
          BY <2>3, <4>1, <4>2
      <3>3. PICK x \in Run : In(x, microtasks) /\ run[x].stage = "parsed" /\ run[x].uri = u
        BY <3>2 DEF PendingIsBeingStored
      <3>4. x # r
        BY <3>2, <3>3
      <3>5. QED
        BY <2>1, <3>1, <3>3, <3>4
    <2>4. ~ParseThrows
      BY DEF ParseThrows
    <2>5. QED
      BY <1>1, <2>2, <2>3, <2>4 DEF Microtask
  <1>2. CASE Macrotask
    <2>1. microtasks = <<>> /\ DocumentManager' = DocumentManager
      BY <1>2 DEF Macrotask, DidChangeContent, DidClose, DidChangeConfiguration,
                  SettingsSettled, HandleRequest, Receive
    <2>2. QED
      BY <2>1, InEmpty DEF PendingIsBeingStored
  <1>3. CASE UNCHANGED <<run, microtasks, DocumentManager>>
    BY <1>3 DEF PendingIsBeingStored
  <1>4. QED
    BY <1>1, <1>2, <1>3
       DEF Next, GiveContent, CloseDocument, ChangeSetting, AnswerConfiguration,
           SendRequest, PollAnswers, vars

\* When nothing fails, no handler or timer ever sees an undefined entry: the
\* interval between DocumentManager.set(uri, undefined) and the analysis
\* (server.ts:157-164) is invisible.
THEOREM PendingIsNeverSeen == Spec => []PendingIsTransient
  <1>1. Init => PendingIsBeingStored
    BY MarkersAssumption DEF Init, PendingIsBeingStored
  <1>2. PendingIsBeingStored => PendingIsTransient
    BY InEmpty DEF PendingIsBeingStored, PendingIsTransient
  <1>3. TypeInv /\ PendingIsBeingStored /\ [Next]_vars => PendingIsBeingStored'
    BY PendingIsBeingStoredNext
  <1>4. QED
    BY <1>1, <1>2, <1>3, TypeInvInit, TypeInvNext, PTL DEF Spec

-----------------------------------------------------------------------------
(* The setting a validation publishes under. *)

FlowInv == AnswersAreOvertaken /\ CachedSettingsAreCurrent /\ QueueInv /\ RunsFollowSetting

LEMMA RunsFollowSettingNext ==
  ASSUME TypeInv, FlowInv, [Next]_vars
  PROVE  RunsFollowSetting'
  <1> USE DEF TypeInv, FlowInv
  <1>1. CASE DidChangeConfiguration
    <2>1. microtasks = <<>> /\ run' = run
      BY <1>1 DEF DidChangeConfiguration, Receive
    <2>2. \A r \in Run : run[r].stage # "idle" => run[r].settings \in Promise
      BY <2>1, InEmpty DEF QueueInv, RunsAreQueued
    <2>3. QED
      BY <2>1, <2>2, MarkersAssumption DEF RunsFollowSetting
  <1>2. CASE ~DidChangeConfiguration
    <2>1. /\ setting' = setting \/ ConfigChangeInFlight'
          /\ ConfigChangeInFlight => ConfigChangeInFlight'
      BY <1>2, AnswersNext
    <2>2. ASSUME NEW r \in Run, run'[r].stage # "idle", run'[r].settings \in {"true", "false"}
          PROVE  run'[r].settings = setting \/ ConfigChangeInFlight
                 \/ ConfigChangeInFlight'
      <3>1. CASE DidChangeContent
        <4> DEFINE u == Head(inbox).uri
                   s == getDocumentSettings(u)
        <4>1. u \in Uri /\ validateTextDocument(u)
          BY <3>1, ReceiveType, MessageFields DEF DidChangeContent
        <4>2. s \notin Promise => documentSettings[u] = s
          BY <4>1, NewIdentities DEF getDocumentSettings
        <4>3. run' = [run EXCEPT ![NewRun] = [stage |-> "settings", uri |-> u, settings |-> s,
                                              closedText |-> None, parsed |-> None]]
          BY <4>1 DEF validateTextDocument
        <4>4. CASE r = NewRun
          <5>1. run'[r].settings = s
            BY <4>3, <4>4 DEF TypeOK
          <5>2. s \notin Promise
            BY <2>2, <5>1, MarkersAssumption
          <5>3. QED
            BY <2>2, <4>1, <4>2, <5>1, <5>2 DEF CachedSettingsAreCurrent
        <4>5. CASE r # NewRun
          BY <2>2, <4>3, <4>5 DEF RunsFollowSetting, TypeOK
        <4>6. QED
          BY <4>4, <4>5
      <3>2. CASE SettingsSettled
        <4>1. Receive("reply")
          BY <3>2 DEF SettingsSettled
        <4>2. Head(inbox) = inbox[1] /\ 1 \in DOMAIN inbox /\ inbox[1].type = "reply"
          BY <4>1, AfterReceive
        <4>3. \/ Head(inbox).value \in {setting, "rejected"}
              \/ \E j \in DOMAIN inbox : j > 1 /\ inbox[j].type = "config"
          BY <4>2 DEF AnswersAreOvertaken
        <4>4. Head(inbox).value \in {setting, "rejected"} \/ ConfigChangeInFlight
          BY <4>3 DEF ConfigChangeInFlight
        <4>5. run'[r].stage = run[r].stage
              /\ (run'[r].settings = run[r].settings \/ run'[r].settings = Head(inbox).value)
          BY <3>2 DEF SettingsSettled, TypeOK, RunState
        <4>6. QED
          BY <2>2, <4>4, <4>5 DEF RunsFollowSetting
      <3>3. CASE run'[r].stage # "idle" /\ run[r].stage # "idle"
                 /\ run'[r].settings = run[r].settings
        BY <2>2, <3>3 DEF RunsFollowSetting
      <3>4. CASE Microtask
        <4> DEFINE h == Head(microtasks)
        <4>1. h \in Run
          BY <3>4, ReadyRun
             DEF Microtask, Parse, ParseThrows, SettingsRejected, StoreAnalysis
        <4>2. CASE Parse
          BY <2>2, <3>3, <4>1, <4>2 DEF Parse, TypeOK, RunState
        <4>3. CASE Finish(h)
          BY <2>2, <3>3, <4>1, <4>3 DEF Finish, Idle, TypeOK
        <4>4. QED
          BY <3>4, <4>2, <4>3
             DEF Microtask, ParseThrows, SettingsRejected, StoreAnalysis
      <3>5. CASE DidClose
        BY <2>2, <3>3, <3>5 DEF DidClose, Detached, TypeOK, RunState
      <3>6. CASE run' = run
        BY <2>2, <3>3, <3>6
      <3>7. QED
        BY <1>2, <3>1, <3>2, <3>4, <3>5, <3>6
           DEF Next, Macrotask, GiveContent, CloseDocument, ChangeSetting,
               AnswerConfiguration, SendRequest, HandleRequest, PollAnswers, vars
    <2>3. QED
      BY <2>1, <2>2 DEF RunsFollowSetting
  <1>3. QED
    BY <1>1, <1>2

LEMMA FlowInvInit == Init => FlowInv
  <1>1. Init => AnswersAreOvertaken /\ CachedSettingsAreCurrent /\ RunsFollowSetting
    BY MarkersAssumption DEF Init, AnswersAreOvertaken, CachedSettingsAreCurrent,
                             RunsFollowSetting, Idle
  <1>2. QED
    BY <1>1, QueueInvInit DEF FlowInv

LEMMA FlowInvNext ==
  ASSUME TypeInv, FlowInv, [Next]_vars
  PROVE  FlowInv'
  BY AnswersNext, CachedSettingsNext, QueueInvNext, RunsFollowSettingNext DEF FlowInv

\* A validation publishes under the user's current setting, unless a change of
\* it is on its way to the server (validateTextDocument, server.ts:154-173): no
\* order of awaits and notifications makes it use an older one.
THEOREM PublishedUnderCurrentSetting == Spec => PublishesUnderCurrentSetting
  <1> DEFINE Published == diagnostics' # diagnostics =>
               \A u \in Uri : diagnostics'[u] # diagnostics[u] =>
                 (diagnostics'[u] # None <=> setting = "true") \/ ConfigChangeInFlight
  <1>1. ASSUME TypeInv, FlowInv, [Next]_vars
        PROVE  [Published]_vars
    <2>1. CASE StoreAnalysis
      <3> DEFINE r == Head(microtasks)
      <3>1. r \in Run /\ run[r].stage = "parsed"
        BY <1>1, <2>1, ReadyRun DEF StoreAnalysis, TypeInv
      <3>2. run[r].uri \in Uri /\ run[r].parsed # None
            /\ run[r].settings \in {"true", "false"}
        BY <1>1, <3>1 DEF TypeInv, RunsHaveText, FlowInv, QueueInv, RunsHaveSettings
      <3>3. run[r].settings = setting \/ ConfigChangeInFlight
        BY <1>1, <3>1, <3>2 DEF FlowInv, RunsFollowSetting
      <3>4. diagnostics' = [diagnostics EXCEPT ![run[r].uri] =
                              IF run[r].settings = "true" THEN run[r].parsed ELSE None]
        BY <2>1 DEF StoreAnalysis
      <3>5. QED
        BY <1>1, <3>2, <3>3, <3>4 DEF TypeInv, TypeOK
    <2>2. CASE ~StoreAnalysis
      BY <1>1, <2>2 DEF Next, Macrotask, Microtask, GiveContent, CloseDocument,
           ChangeSetting, AnswerConfiguration, SendRequest, DidChangeContent, DidClose,
           DidChangeConfiguration, SettingsSettled, HandleRequest, Parse, ParseThrows,
           SettingsRejected, PollAnswers, vars
    <2>3. QED
      BY <2>1, <2>2
  <1>2. QED
    BY <1>1, TypeInvInit, TypeInvNext, FlowInvInit, FlowInvNext, PTL
       DEF Spec, PublishesUnderCurrentSetting

-----------------------------------------------------------------------------
(* The order of answers. *)

\* A step that leaves the replies in flight and the requests for settings alone
\* leaves the line of promises alone.
LineSame ==
  \A p, q \in Promise :
    /\ PromiseInUse(p)' <=> PromiseInUse(p)
    /\ Before(p, q)' <=> Before(p, q)

\* A promise in use is asked for or has its reply in flight.
LEMMA InUse ==
  ASSUME NEW p
  PROVE  PromiseInUse(p) <=> (\E i \in DOMAIN asked : AskedAt(i, p))
                             \/ (\E i \in DOMAIN inbox : ReplyAt(i, p))
  BY DEF PromiseInUse, AskedAt, ReplyAt

LEMMA BeforeInUse ==
  ASSUME NEW p, NEW q, Before(p, q)
  PROVE  PromiseInUse(p) /\ PromiseInUse(q)
  BY InUse DEF Before

LEMMA LineSameWhenRepliesAre ==
  ASSUME asked' = asked, inbox' = inbox
  PROVE  LineSame
  BY DEF LineSame, PromiseInUse, Before, ReplyAt, AskedAt

LEMMA LineAfterSend ==
  ASSUME TypeOK, NEW m \in Message, Send(m), m.type # "reply", asked' = asked
  PROVE  LineSame
  <1>1. \A i, p : ReplyAt(i, p)' <=> ReplyAt(i, p)
    BY AfterSend DEF ReplyAt
  <1>2. \A i, p : AskedAt(i, p)' <=> AskedAt(i, p)
    BY DEF AskedAt
  <1>3. ASSUME NEW p \in Promise
        PROVE  PromiseInUse(p)' <=> PromiseInUse(p)
    BY <1>1, AfterSend DEF PromiseInUse, ReplyAt
  <1>4. ASSUME NEW p \in Promise, NEW q \in Promise
        PROVE  Before(p, q)' <=> Before(p, q)
    <2>1. (\E i, j \in DOMAIN inbox' : i < j /\ ReplyAt(i, p)' /\ ReplyAt(j, q)')
          <=> (\E i, j \in DOMAIN inbox : i < j /\ ReplyAt(i, p) /\ ReplyAt(j, q))
      BY <1>1 DEF ReplyAt
    <2>2. (\E i \in DOMAIN inbox' : ReplyAt(i, p)') <=> (\E i \in DOMAIN inbox : ReplyAt(i, p))
      BY <1>1 DEF ReplyAt
    <2>3. QED
      BY <1>2, <2>1, <2>2 DEF Before
  <1>5. QED
    BY <1>3, <1>4 DEF LineSame

LEMMA RepliesAfterReceive ==
  ASSUME TypeOK, NEW type, Receive(type), NEW p
  PROVE  /\ \A i \in Nat : ReplyAt(i, p)' <=> i >= 1 /\ ReplyAt(i + 1, p)
         /\ DOMAIN inbox' \subseteq Nat /\ DOMAIN inbox \subseteq Nat
         /\ \A i : ReplyAt(i, p)' => i \in DOMAIN inbox'
         /\ \A i : ReplyAt(i, p) => i \in DOMAIN inbox /\ i >= 1
         /\ type # "reply" => ~ReplyAt(1, p)
  BY AfterReceive DEF ReplyAt

\* Receiving a message that is no answer leaves the line as it is; the answer
\* for p takes p, and every pair in which it comes first, from it.
LEMMA LineAfterReceive ==
  ASSUME TypeOK, NEW type, Receive(type), asked' = asked,
         NEW p \in Promise, NEW q \in Promise,
         ~ReplyAt(1, p)
  PROVE  /\ Before(p, q)' <=> Before(p, q)
         /\ PromiseInUse(p)' <=> PromiseInUse(p)
  <1>1. \A i \in Nat : ReplyAt(i, p)' <=> i >= 1 /\ ReplyAt(i + 1, p)
    BY RepliesAfterReceive
  <1>2. \A i \in Nat : ReplyAt(i, q)' <=> i >= 1 /\ ReplyAt(i + 1, q)
    BY RepliesAfterReceive
  <1>3. DOMAIN inbox = 1 .. Len(inbox) /\ DOMAIN inbox' = 1 .. Len(inbox) - 1
        /\ Len(inbox) \in Nat \ {0}
    BY AfterReceive
  <1>4. \A i : AskedAt(i, p)' <=> AskedAt(i, p)
    BY DEF AskedAt
  <1>5. \A i : AskedAt(i, q)' <=> AskedAt(i, q)
    BY DEF AskedAt
  <1>6. (\E i \in DOMAIN inbox' : ReplyAt(i, p)') <=> (\E i \in DOMAIN inbox : ReplyAt(i, p))
    <2>1. ASSUME NEW i \in DOMAIN inbox', ReplyAt(i, p)'
          PROVE  \E k \in DOMAIN inbox : ReplyAt(k, p)
      <3>1. i + 1 \in DOMAIN inbox /\ ReplyAt(i + 1, p)
        BY <1>1, <1>3, <2>1
      <3>2. QED
        BY <3>1
    <2>2. ASSUME NEW i \in DOMAIN inbox, ReplyAt(i, p)
          PROVE  \E k \in DOMAIN inbox' : ReplyAt(k, p)'
      <3>1. i # 1 /\ i - 1 \in DOMAIN inbox' /\ (i - 1) + 1 = i
        BY <1>3, <2>2
      <3>2. ReplyAt(i - 1, p)'
        BY <1>1, <1>3, <2>2, <3>1
      <3>3. QED
        BY <3>1, <3>2
    <2>3. QED
      BY <2>1, <2>2
  <1>7. (\E i, j \in DOMAIN inbox' : i < j /\ ReplyAt(i, p)' /\ ReplyAt(j, q)')
        <=> (\E i, j \in DOMAIN inbox : i < j /\ ReplyAt(i, p) /\ ReplyAt(j, q))
    <2>1. ASSUME NEW i \in DOMAIN inbox', NEW j \in DOMAIN inbox', i < j,
                 ReplyAt(i, p)', ReplyAt(j, q)'
          PROVE  \E k, l \in DOMAIN inbox : k < l /\ ReplyAt(k, p) /\ ReplyAt(l, q)
      <3>1. i + 1 \in DOMAIN inbox /\ ReplyAt(i + 1, p)
            /\ j + 1 \in DOMAIN inbox /\ ReplyAt(j + 1, q) /\ i + 1 < j + 1
        BY <1>1, <1>2, <1>3, <2>1
      <3>2. QED
        BY <3>1
    <2>2. ASSUME NEW i \in DOMAIN inbox, NEW j \in DOMAIN inbox, i < j,
                 ReplyAt(i, p), ReplyAt(j, q)
          PROVE  \E k, l \in DOMAIN inbox' : k < l /\ ReplyAt(k, p)' /\ ReplyAt(l, q)'
      <3>1. i # 1 /\ i - 1 \in DOMAIN inbox' /\ (i - 1) + 1 = i
            /\ j - 1 \in DOMAIN inbox' /\ (j - 1) + 1 = j /\ i - 1 < j - 1
        BY <1>3, <2>2
      <3>2. ReplyAt(i - 1, p)' /\ ReplyAt(j - 1, q)'
        BY <1>1, <1>2, <1>3, <2>2, <3>1
      <3>3. QED
        BY <3>1, <3>2
    <2>3. QED
      BY <2>1, <2>2
  <1>8. PromiseInUse(p)' <=> PromiseInUse(p)
    <2>1. PromiseInUse(p)' <=> (\E i \in DOMAIN asked' : AskedAt(i, p)')
                               \/ (\E i \in DOMAIN inbox' : ReplyAt(i, p)')
      BY DEF PromiseInUse, AskedAt, ReplyAt
    <2>2. QED
      BY <1>4, <1>6, <2>1, InUse
  <1>9. QED
    BY <1>4, <1>5, <1>6, <1>7, <1>8 DEF Before

LEMMA LineAfterReceiveOther ==
  ASSUME TypeOK, NEW type, Receive(type), type # "reply", asked' = asked
  PROVE  LineSame
  BY LineAfterReceive, RepliesAfterReceive DEF LineSame

\* The promise whose answer is received comes before every other one in use, and
\* leaves the line.
LEMMA LineAfterReply ==
  ASSUME TypeOK, Receive("reply"), asked' = asked,
         \A a \in Promise : ~Before(a, a)
  PROVE  LET p == Head(inbox).promise
         IN  /\ p \in Promise
             /\ \A q \in Promise : PromiseInUse(q) /\ q # p => Before(p, q)
             /\ \A q \in Promise : ~Before(q, p)
             /\ \A q \in Promise : q # p => (PromiseInUse(q)' <=> PromiseInUse(q))
             /\ \A q, x \in Promise : Before(q, x)' => Before(q, x) /\ q # p
             /\ \A q, x \in Promise : q # p => (Before(q, x)' <=> Before(q, x))
  <1> DEFINE p == Head(inbox).promise
  <1>1. p \in Promise /\ ReplyAt(1, p) /\ 1 \in DOMAIN inbox
    BY ReceiveType, MessageFields, AfterReceive DEF ReplyAt
  <1>2. \A q : q # p => ~ReplyAt(1, q)
    BY <1>1 DEF ReplyAt
  <1>3. \A i : ReplyAt(i, p) => i = 1
    <2>1. ASSUME NEW i, ReplyAt(i, p), i # 1
          PROVE  FALSE
      <3>1. i \in DOMAIN inbox /\ 1 < i
        BY <2>1, AfterReceive DEF ReplyAt
      <3>2. Before(p, p)
        BY <1>1, <2>1, <3>1 DEF Before
      <3>3. QED
        BY <1>1, <3>2
    <2>2. QED
      BY <2>1
  <1>4. \A i : ~AskedAt(i, p)
    BY <1>1 DEF Before, AskedAt
  <1>5. ASSUME NEW q \in Promise, PromiseInUse(q), q # p
        PROVE  Before(p, q)
    <2>1. CASE \E i \in DOMAIN asked : AskedAt(i, q)
      BY <1>1, <2>1 DEF Before
    <2>2. CASE \E i \in DOMAIN inbox : ReplyAt(i, q)
      <3>1. PICK i \in DOMAIN inbox : ReplyAt(i, q)
        BY <2>2
      <3>2. 1 < i
        BY <1>2, <1>5, <3>1, AfterReceive
      <3>3. QED
        BY <1>1, <3>1, <3>2 DEF Before
    <2>3. QED
      BY <1>5, <2>1, <2>2, InUse
  <1>6. ASSUME NEW q \in Promise, Before(q, p)
        PROVE  FALSE
    <2>1. PICK i \in DOMAIN inbox, j \in DOMAIN inbox : i < j /\ ReplyAt(j, p)
      BY <1>4, <1>6 DEF Before
    <2>2. j = 1 /\ i \in Nat \ {0}
      BY <1>3, <2>1, AfterReceive
    <2>3. QED
      BY <2>1, <2>2
  <1>7. \A q, x \in Promise : q # p => (Before(q, x)' <=> Before(q, x))
                                       /\ (PromiseInUse(q)' <=> PromiseInUse(q))
    BY <1>2, LineAfterReceive
  <1>8. ASSUME NEW q \in Promise, q = p, NEW x \in Promise, Before(q, x)'
        PROVE  FALSE
    <2>1. \A i \in Nat : ReplyAt(i, q)' <=> i >= 1 /\ ReplyAt(i + 1, q)
      BY RepliesAfterReceive
    <2>2. \A i \in DOMAIN inbox' : i \in Nat /\ i >= 1 /\ i + 1 # 1
      BY AfterReceive
    <2>3. \A i \in DOMAIN inbox' : ~ReplyAt(i, q)'
      BY <1>3, <1>8, <2>1, <2>2
    <2>4. \A i : ~AskedAt(i, q)'
      BY <1>4, <1>8 DEF AskedAt
    <2>5. QED
      BY <1>8, <2>3, <2>4 DEF Before
  <1>9. QED
    BY <1>1, <1>5, <1>6, <1>7, <1>8

\* An answer keeps its promise's place in the line: it goes from the head of the
\* requests to the end of the replies.
LEMMA LineAfterAnswer ==
  ASSUME TypeOK, AnswerConfiguration
  PROVE  LineSame
  <1> DEFINE h == Head(asked)
             n == Len(inbox) + 1
             k == Len(asked)
  <1>1. PICK v \in ClientAnswers : Send([type |-> "reply", promise |-> h, value |-> v])
    BY DEF AnswerConfiguration
  <1> DEFINE m == [type |-> "reply", promise |-> h, value |-> v]
  <1>2. m \in Message /\ m.type = "reply" /\ m.promise = h
    <2>1. h \in Promise
      BY DEF AnswerConfiguration, TypeOK
    <2>2. v \in Outcome
      BY <1>1 DEF ClientAnswers, Outcome, TypeOK
    <2>3. QED
      BY <2>1, <2>2 DEF Message, ReplyMessage
  <1>3. /\ DOMAIN inbox' = 1 .. n /\ DOMAIN inbox = 1 .. n - 1 /\ n \in Nat \ {0}
        /\ \A i \in 1 .. n - 1 : inbox'[i] = inbox[i]
        /\ inbox'[n] = m
    BY <1>1, <1>2, AfterSend
  <1>4. /\ k \in Nat \ {0} /\ DOMAIN asked = 1 .. k /\ DOMAIN asked' = 1 .. k - 1
        /\ \A i \in 1 .. k - 1 : asked'[i] = asked[i + 1]
        /\ asked[1] = h
    BY DEF AnswerConfiguration, TypeOK
  <1>5. \A i, p : ReplyAt(i, p)' <=> ReplyAt(i, p) \/ (i = n /\ p = h)
    BY <1>2, <1>3 DEF ReplyAt
  <1>6. \A i \in Nat : \A p : AskedAt(i, p)' <=> i >= 1 /\ AskedAt(i + 1, p)
    BY <1>4 DEF AskedAt
  <1>7. \A p : AskedAt(1, p) <=> p = h
    BY <1>4 DEF AskedAt
  <1>8. \A i, p : ReplyAt(i, p) => i \in 1 .. n - 1
    BY <1>3 DEF ReplyAt
  <1>9. \A i, p : AskedAt(i, p) => i \in 1 .. k
    BY <1>4 DEF AskedAt
  <1>10. \A p : (\E i \in DOMAIN asked : AskedAt(i, p))
                <=> p = h \/ (\E i \in DOMAIN asked' : AskedAt(i, p)')
    <2>1. ASSUME NEW p, NEW i \in DOMAIN asked, AskedAt(i, p), p # h
          PROVE  \E j \in DOMAIN asked' : AskedAt(j, p)'
      <3>1. i # 1 /\ i - 1 \in DOMAIN asked' /\ i - 1 >= 1 /\ (i - 1) + 1 = i /\ i - 1 \in Nat
        BY <1>4, <1>7, <2>1
      <3>2. AskedAt(i - 1, p)'
        BY <1>6, <2>1, <3>1
      <3>3. QED
        BY <3>1, <3>2
    <2>2. ASSUME NEW p, NEW i \in DOMAIN asked', AskedAt(i, p)'
          PROVE  \E j \in DOMAIN asked : AskedAt(j, p)
      <3>1. AskedAt(i + 1, p) /\ i + 1 \in DOMAIN asked
        BY <1>4, <1>6, <2>2
      <3>2. QED
        BY <3>1
    <2>3. AskedAt(1, h) /\ 1 \in DOMAIN asked
      BY <1>4, <1>7
    <2>4. QED
      BY <2>1, <2>2, <2>3
  <1>11. ASSUME NEW p \in Promise
         PROVE  (\E i \in DOMAIN inbox' : ReplyAt(i, p)')
                <=> p = h \/ (\E i \in DOMAIN inbox : ReplyAt(i, p))
    <2>1. n \in DOMAIN inbox' /\ DOMAIN inbox \subseteq DOMAIN inbox'
      BY <1>3
    <2>2. \A i : ReplyAt(i, p) => i \in DOMAIN inbox
      BY DEF ReplyAt
    <2>3. QED
      BY <1>5, <2>1, <2>2
  <1>12. ASSUME NEW p \in Promise
         PROVE  PromiseInUse(p)' <=> PromiseInUse(p)
    <2>1. PromiseInUse(p)' <=> (\E i \in DOMAIN asked' : AskedAt(i, p)')
                               \/ (\E i \in DOMAIN inbox' : ReplyAt(i, p)')
      BY DEF PromiseInUse, AskedAt, ReplyAt
    <2>2. QED
      BY <1>10, <1>11, <2>1, InUse
  <1>13. ASSUME NEW p \in Promise, NEW q \in Promise
         PROVE  Before(p, q)' <=> Before(p, q)
    <2>1. (\E i, j \in DOMAIN inbox' : i < j /\ ReplyAt(i, p)' /\ ReplyAt(j, q)')
          <=> \/ \E i, j \in DOMAIN inbox : i < j /\ ReplyAt(i, p) /\ ReplyAt(j, q)
              \/ q = h /\ \E i \in DOMAIN inbox : ReplyAt(i, p)
      BY <1>3, <1>5, <1>8
    <2>2. (\E i, j \in DOMAIN asked : i < j /\ AskedAt(i, p) /\ AskedAt(j, q))
          <=> \/ \E i, j \in DOMAIN asked' : i < j /\ AskedAt(i, p)' /\ AskedAt(j, q)'
              \/ p = h /\ \E j \in DOMAIN asked' : AskedAt(j, q)'
      <3>1. ASSUME NEW i \in DOMAIN asked, NEW j \in DOMAIN asked, i < j,
                   AskedAt(i, p), AskedAt(j, q)
            PROVE  \/ \E a, b \in DOMAIN asked' : a < b /\ AskedAt(a, p)' /\ AskedAt(b, q)'
                   \/ p = h /\ \E b \in DOMAIN asked' : AskedAt(b, q)'
        <4>1. j - 1 \in DOMAIN asked' /\ j - 1 \in Nat /\ j - 1 >= 1 /\ (j - 1) + 1 = j
          BY <1>4, <3>1
        <4>2. AskedAt(j - 1, q)'
          BY <1>6, <3>1, <4>1
        <4>3. CASE i = 1
          BY <1>7, <3>1, <4>1, <4>2, <4>3
        <4>4. CASE i # 1
          <5>1. i - 1 \in DOMAIN asked' /\ i - 1 \in Nat /\ i - 1 >= 1 /\ (i - 1) + 1 = i
                /\ i - 1 < j - 1
            BY <1>4, <3>1, <4>4
          <5>2. AskedAt(i - 1, p)'
            BY <1>6, <3>1, <5>1
          <5>3. QED
            BY <4>1, <4>2, <5>1, <5>2
        <4>5. QED
          BY <4>3, <4>4
      <3>2. ASSUME NEW i \in DOMAIN asked', NEW j \in DOMAIN asked', i < j,
                   AskedAt(i, p)', AskedAt(j, q)'
            PROVE  \E a, b \in DOMAIN asked : a < b /\ AskedAt(a, p) /\ AskedAt(b, q)
        <4>1. i + 1 \in DOMAIN asked /\ j + 1 \in DOMAIN asked /\ i + 1 < j + 1
              /\ AskedAt(i + 1, p) /\ AskedAt(j + 1, q)
          BY <1>4, <1>6, <3>2
        <4>2. QED
          BY <4>1
      <3>3. ASSUME p = h, NEW j \in DOMAIN asked', AskedAt(j, q)'
            PROVE  \E a, b \in DOMAIN asked : a < b /\ AskedAt(a, p) /\ AskedAt(b, q)
        <4>1. 1 \in DOMAIN asked /\ j + 1 \in DOMAIN asked /\ 1 < j + 1
              /\ AskedAt(1, p) /\ AskedAt(j + 1, q)
          BY <1>4, <1>6, <1>7, <3>3
        <4>2. QED
          BY <4>1
      <3>4. QED
        BY <3>1, <3>2, <3>3
    <2>3. (\E j \in DOMAIN asked : AskedAt(j, q))
          <=> q = h \/ (\E j \in DOMAIN asked' : AskedAt(j, q)')
      BY <1>10
    <2>4. (\E i \in DOMAIN inbox' : ReplyAt(i, p)')
          <=> p = h \/ (\E i \in DOMAIN inbox : ReplyAt(i, p))
      BY <1>11
    <2> HIDE DEF h
    <2>5. QED
      BY <2>1, <2>2, <2>3, <2>4 DEF Before
  <1>14. QED
    BY <1>12, <1>13 DEF LineSame

\* A new request for settings is the last of the line.
LEMMA LineAfterAsk ==
  ASSUME TypeOK, NEW type, Receive(type), type # "reply",
         NEW s \in Promise, ~PromiseInUse(s), asked' = Append(asked, s)
  PROVE  /\ \A p \in Promise : PromiseInUse(p)' <=> PromiseInUse(p) \/ p = s
         /\ \A p, q \in Promise : Before(p, q)' <=> Before(p, q) \/ (PromiseInUse(p) /\ q = s)
  <1>1. /\ Len(asked) \in Nat /\ DOMAIN asked = 1 .. Len(asked)
        /\ DOMAIN asked' = 1 .. Len(asked) + 1
        /\ \A i \in 1 .. Len(asked) : asked'[i] = asked[i]
        /\ asked'[Len(asked) + 1] = s
    BY DEF TypeOK
  <1>2. \A i, p : AskedAt(i, p)' <=> AskedAt(i, p) \/ (i = Len(asked) + 1 /\ p = s)
    BY <1>1 DEF AskedAt
  <1>3. \A i, p : AskedAt(i, p) => i \in 1 .. Len(asked)
    BY <1>1 DEF AskedAt
  <1>4. Len(asked) + 1 \in DOMAIN asked' /\ DOMAIN asked \subseteq DOMAIN asked'
    BY <1>1
  <1>5. \A i, p : AskedAt(i, p) => i \in DOMAIN asked
    BY DEF AskedAt
  <1>6. DOMAIN inbox = 1 .. Len(inbox) /\ DOMAIN inbox' = 1 .. Len(inbox) - 1
        /\ Len(inbox) \in Nat \ {0}
    BY AfterReceive
  <1>7. ASSUME NEW p
        PROVE  \A i \in Nat : ReplyAt(i, p)' <=> i >= 1 /\ ReplyAt(i + 1, p)
    BY RepliesAfterReceive
  <1>8. \A p : ~ReplyAt(1, p)
    BY RepliesAfterReceive
  <1>9. ASSUME NEW p
        PROVE  (\E i \in DOMAIN inbox' : ReplyAt(i, p)') <=> (\E i \in DOMAIN inbox : ReplyAt(i, p))
    <2>1. ASSUME NEW i \in DOMAIN inbox, ReplyAt(i, p)
          PROVE  \E k \in DOMAIN inbox' : ReplyAt(k, p)'
      <3>1. i # 1
        BY <1>8, <2>1
      <3>2. i - 1 \in DOMAIN inbox' /\ i - 1 \in Nat /\ i - 1 >= 1 /\ (i - 1) + 1 = i
        BY <1>6, <3>1
      <3>3. ReplyAt(i - 1, p)'
        BY <1>7, <2>1, <3>2
      <3>4. QED
        BY <3>2, <3>3
    <2>2. ASSUME NEW i \in DOMAIN inbox', ReplyAt(i, p)'
          PROVE  \E k \in DOMAIN inbox : ReplyAt(k, p)
      <3>1. i + 1 \in DOMAIN inbox /\ ReplyAt(i + 1, p)
        BY <1>6, <1>7, <2>2
      <3>2. QED
        BY <3>1
    <2>3. QED
      BY <2>1, <2>2
  <1>10. ASSUME NEW p \in Promise
        PROVE  PromiseInUse(p)' <=> PromiseInUse(p) \/ p = s
    <2>1. PromiseInUse(p)' <=> (\E i \in DOMAIN asked' : AskedAt(i, p)')
                               \/ (\E i \in DOMAIN inbox' : ReplyAt(i, p)')
      BY DEF PromiseInUse, AskedAt, ReplyAt
    <2>2. (\E i \in DOMAIN asked' : AskedAt(i, p)')
          <=> p = s \/ (\E i \in DOMAIN asked : AskedAt(i, p))
      BY <1>2, <1>4, <1>5
    <2>3. QED
      BY <1>9, <2>1, <2>2, InUse
  <1>11. ASSUME NEW p \in Promise, NEW q \in Promise
        PROVE  Before(p, q)' <=> Before(p, q) \/ (PromiseInUse(p) /\ q = s)
    <2>1. (\E i, j \in DOMAIN inbox' : i < j /\ ReplyAt(i, p)' /\ ReplyAt(j, q)')
          <=> (\E i, j \in DOMAIN inbox : i < j /\ ReplyAt(i, p) /\ ReplyAt(j, q))
      <3>1. ASSUME NEW i \in DOMAIN inbox', NEW j \in DOMAIN inbox', i < j,
                   ReplyAt(i, p)', ReplyAt(j, q)'
            PROVE  \E k, l \in DOMAIN inbox : k < l /\ ReplyAt(k, p) /\ ReplyAt(l, q)
        <4>1. i + 1 \in DOMAIN inbox /\ ReplyAt(i + 1, p)
              /\ j + 1 \in DOMAIN inbox /\ ReplyAt(j + 1, q) /\ i + 1 < j + 1
          BY <1>6, <1>7, <3>1
        <4>2. QED
          BY <4>1
      <3>2. ASSUME NEW i \in DOMAIN inbox, NEW j \in DOMAIN inbox, i < j,
                   ReplyAt(i, p), ReplyAt(j, q)
            PROVE  \E k, l \in DOMAIN inbox' : k < l /\ ReplyAt(k, p)' /\ ReplyAt(l, q)'
        <4>1. i # 1 /\ j # 1
          BY <1>8, <3>2
        <4>2. i - 1 \in DOMAIN inbox' /\ i - 1 \in Nat /\ i - 1 >= 1 /\ (i - 1) + 1 = i
              /\ j - 1 \in DOMAIN inbox' /\ j - 1 \in Nat /\ j - 1 >= 1 /\ (j - 1) + 1 = j
              /\ i - 1 < j - 1
          BY <1>6, <3>2, <4>1
        <4>3. ReplyAt(i - 1, p)' /\ ReplyAt(j - 1, q)'
          BY <1>7, <3>2, <4>2
        <4>4. QED
          BY <4>2, <4>3
      <3>3. QED
        BY <3>1, <3>2
    <2>2. (\E i, j \in DOMAIN asked' : i < j /\ AskedAt(i, p)' /\ AskedAt(j, q)')
          <=> \/ \E i, j \in DOMAIN asked : i < j /\ AskedAt(i, p) /\ AskedAt(j, q)
              \/ q = s /\ \E i \in DOMAIN asked : AskedAt(i, p)
      <3>1. \A i : ~AskedAt(i, s)
        BY InUse DEF AskedAt
      <3>2. QED
        BY <1>1, <1>2, <1>3
    <2>3. (\E j \in DOMAIN asked' : AskedAt(j, q)')
          <=> q = s \/ (\E j \in DOMAIN asked : AskedAt(j, q))
      BY <1>2, <1>4, <1>5
    <2>4. (\E i \in DOMAIN inbox' : ReplyAt(i, p)') <=> (\E i \in DOMAIN inbox : ReplyAt(i, p))
      BY <1>9
    <2>5. PromiseInUse(p) <=> (\E i \in DOMAIN asked : AskedAt(i, p))
                              \/ (\E i \in DOMAIN inbox : ReplyAt(i, p))
      BY InUse
    <2>6. QED
      BY <2>1, <2>2, <2>3, <2>4, <2>5 DEF Before
  <1>12. QED
    BY <1>10, <1>11

-----------------------------------------------------------------------------
(* The order of contents. *)

\* The types a message in flight may have, as sets for quantifiers.
MessageTypes == {"content", "close", "config", "reply", "request"}

\* What a step does to the messages in flight.
LEMMA InboxSteps ==
  ASSUME TypeInv, [Next]_vars
  PROVE  \/ UNCHANGED <<inbox, version>>
         \/ \E m \in Message : Send(m) /\ m.type # "content" /\ version' = version
         \/ \E u \in Uri : GiveContent(u)
         \/ \E type \in MessageTypes : Receive(type) /\ version' = version
  <1>1. ASSUME NEW u \in Uri, CloseDocument(u)
        PROVE  \E m \in Message : Send(m) /\ m.type # "content" /\ version' = version
    <2> DEFINE m == [type |-> "close", uri |-> u]
    <2>1. m \in Message /\ m.type # "content" /\ Send(m) /\ version' = version
      BY <1>1 DEF CloseDocument, Message, CloseMessage
    <2>2. QED
      BY <2>1
  <1>2. CASE ChangeSetting
    <2> DEFINE m == [type |-> "config"]
    <2>1. m \in Message /\ m.type # "content" /\ Send(m) /\ version' = version
      BY <1>2 DEF ChangeSetting, Message, ConfigMessage
    <2>2. QED
      BY <2>1
  <1>3. CASE AnswerConfiguration
    <2>1. PICK v \in ClientAnswers :
            Send([type |-> "reply", promise |-> Head(asked), value |-> v])
      BY <1>3 DEF AnswerConfiguration
    <2> DEFINE m == [type |-> "reply", promise |-> Head(asked), value |-> v]
    <2>2. v \in Outcome /\ Head(asked) \in Promise
      BY <1>3 DEF AnswerConfiguration, ClientAnswers, Outcome, TypeInv, TypeOK
    <2>3. m \in Message /\ m.type # "content" /\ Send(m) /\ version' = version
      BY <1>3, <2>1, <2>2 DEF AnswerConfiguration, Message, ReplyMessage
    <2>4. QED
      BY <2>3
  <1>4. ASSUME NEW q \in Request, NEW u \in Uri, SendRequest(q, u)
        PROVE  \E m \in Message : Send(m) /\ m.type # "content" /\ version' = version
    <2> DEFINE m == [type |-> "request", request |-> q]
    <2>1. m \in Message /\ m.type # "content" /\ Send(m) /\ version' = version
      BY <1>4 DEF SendRequest, Message, RequestMessage
    <2>2. QED
      BY <2>1
  <1>5. CASE Macrotask
    BY <1>5 DEF Macrotask, DidChangeContent, DidClose, DidChangeConfiguration,
         SettingsSettled, HandleRequest, editorVars, MessageTypes
  <1>6. CASE Microtask \/ (\E q \in Request : PollAnswers(q)) \/ UNCHANGED vars
    BY <1>6 DEF Microtask, Parse, ParseThrows, SettingsRejected, StoreAnalysis,
         PollAnswers, vars, editorVars
  <1>7. QED
    BY <1>1, <1>2, <1>3, <1>4, <1>5, <1>6 DEF Next

\* Positions of contents after a message other than a content was sent.
LEMMA ContentsAfterSend ==
  ASSUME TypeOK, NEW m \in Message, Send(m), m.type # "content", NEW u
  PROVE  /\ \A i : ContentAt(i, u)' <=> ContentAt(i, u)
         /\ \A i : ContentAt(i, u) => inbox'[i] = inbox[i]
  BY AfterSend DEF ContentAt

LEMMA ContentsAfterGive ==
  ASSUME TypeOK, NEW w \in Uri, GiveContent(w), NEW u
  PROVE  /\ Len(inbox) + 1 \in DOMAIN inbox'
         /\ DOMAIN inbox = 1 .. Len(inbox) /\ Len(inbox) \in Nat
         /\ \A i : ContentAt(i, u)' <=> ContentAt(i, u) \/ (i = Len(inbox) + 1 /\ u = w)
         /\ \A i : ContentAt(i, u) => inbox'[i] = inbox[i]
         /\ inbox'[Len(inbox) + 1].version = version[w] + 1
         /\ version' = [version EXCEPT ![w] = version[w] + 1]
  <1> DEFINE m == [type |-> "content", uri |-> w, version |-> version[w] + 1]
  <1>1. m \in Message /\ Send(m) /\ m.type = "content" /\ m.uri = w
        /\ m.version = version[w] + 1
    BY DEF GiveContent, TypeOK, Message, ContentMessage
  <1>2. /\ DOMAIN inbox' = 1 .. Len(inbox) + 1
        /\ DOMAIN inbox = 1 .. Len(inbox) /\ Len(inbox) \in Nat
        /\ \A i \in 1 .. Len(inbox) : inbox'[i] = inbox[i]
        /\ inbox'[Len(inbox) + 1] = m
    BY <1>1, AfterSend
  <1> HIDE DEF m
  <1>3. \A i : ContentAt(i, u)' <=> ContentAt(i, u) \/ (i = Len(inbox) + 1 /\ u = w)
    BY <1>1, <1>2 DEF ContentAt
  <1>4. \A i : ContentAt(i, u) => inbox'[i] = inbox[i]
    BY <1>2 DEF ContentAt
  <1>5. QED
    BY <1>1, <1>2, <1>3, <1>4 DEF GiveContent

LEMMA ContentsAfterReceive ==
  ASSUME TypeOK, NEW type, Receive(type), NEW u
  PROVE  /\ \A i \in Nat : ContentAt(i, u)' <=> i >= 1 /\ ContentAt(i + 1, u)
         /\ \A i \in Nat : ContentAt(i, u)' => inbox'[i] = inbox[i + 1]
         /\ \A i : ContentAt(i, u) => i \in Nat /\ i \in DOMAIN inbox
         /\ \A i : ContentAt(i, u)' => i \in Nat /\ i \in DOMAIN inbox'
  BY AfterReceive DEF ContentAt

\* Contents in flight have version numbers.
LEMMA ContentVersions ==
  ASSUME TypeOK, NEW u, NEW i, ContentAt(i, u)
  PROVE  inbox[i].version \in Nat /\ u \in Uri /\ i \in Nat /\ i \in DOMAIN inbox
  <1>1. inbox[i] \in Message /\ inbox[i].type = "content" /\ inbox[i].uri = u /\ i \in Nat
    BY DEF ContentAt, TypeOK
  <1>2. QED
    BY <1>1, MessageFields DEF ContentAt

\* What is older than the contents in flight stays so.
LEMMA BelowNext ==
  ASSUME TypeInv, [Next]_vars, NEW u \in Uri, NEW n \in Nat, Below(n, u)
  PROVE  Below(n, u)'
  <1> USE DEF TypeInv
  <1>0. version[u] \in Nat /\ n <= version[u]
    BY DEF TypeOK, Below
  <1>1. CASE UNCHANGED <<inbox, version>>
    BY <1>1 DEF Below, ContentAt
  <1>2. ASSUME NEW m \in Message, Send(m), m.type # "content", version' = version
        PROVE  Below(n, u)'
    <2>1. ASSUME NEW i, ContentAt(i, u)'
          PROVE  n < inbox'[i].version
      <3>1. ContentAt(i, u) /\ inbox'[i] = inbox[i] /\ i \in DOMAIN inbox
        BY <1>2, <2>1, ContentsAfterSend DEF ContentAt
      <3>2. QED
        BY <3>1 DEF Below
    <2>2. QED
      BY <1>0, <1>2, <2>1 DEF Below
  <1>3. ASSUME NEW w \in Uri, GiveContent(w)
        PROVE  Below(n, u)'
    <2>1. n <= version'[u]
      BY <1>0, <1>3 DEF GiveContent, TypeOK
    <2>2. ASSUME NEW i, ContentAt(i, u)'
          PROVE  n < inbox'[i].version
      <3>1. CASE ContentAt(i, u)
        <4>1. i \in DOMAIN inbox /\ inbox'[i] = inbox[i]
          BY <1>3, <3>1, ContentsAfterGive DEF ContentAt
        <4>2. QED
          BY <3>1, <4>1 DEF Below
      <3>2. CASE i = Len(inbox) + 1 /\ u = w
        BY <1>0, <1>3, <3>2, ContentsAfterGive
      <3>3. QED
        BY <1>3, <2>2, <3>1, <3>2, ContentsAfterGive
    <2>3. QED
      BY <2>1, <2>2 DEF Below
  <1>4. ASSUME NEW type \in MessageTypes, Receive(type), version' = version
        PROVE  Below(n, u)'
    <2>1. ASSUME NEW i, ContentAt(i, u)'
          PROVE  n < inbox'[i].version
      <3>1. ContentAt(i + 1, u) /\ inbox'[i] = inbox[i + 1] /\ i + 1 \in DOMAIN inbox
        BY <1>4, <2>1, ContentsAfterReceive
      <3>2. QED
        BY <3>1 DEF Below
    <2>2. QED
      BY <1>4, <2>1 DEF Below
  <1>5. QED
    BY <1>1, <1>2, <1>3, <1>4, InboxSteps

LEMMA ContentsInOrderNext ==
  ASSUME TypeInv, ContentsInOrder, [Next]_vars
  PROVE  ContentsInOrder'
  <1> USE DEF TypeInv
  <1>1. CASE UNCHANGED <<inbox, version>>
    BY <1>1 DEF ContentsInOrder, ContentAt
  <1>2. ASSUME NEW m \in Message, Send(m), m.type # "content", version' = version
        PROVE  ContentsInOrder'
    <2> SUFFICES ASSUME NEW u \in Uri, NEW i, ContentAt(i, u)'
                 PROVE  /\ 1 <= inbox'[i].version /\ inbox'[i].version <= version'[u]
                        /\ \A j \in DOMAIN inbox' : i < j /\ ContentAt(j, u)'
                             => inbox'[i].version < inbox'[j].version
      BY DEF ContentsInOrder
    <2>1. ContentAt(i, u) /\ inbox'[i] = inbox[i] /\ i \in DOMAIN inbox
      BY <1>2, ContentsAfterSend DEF ContentAt
    <2>2. \A j : ContentAt(j, u)' => ContentAt(j, u) /\ inbox'[j] = inbox[j] /\ j \in DOMAIN inbox
      BY <1>2, ContentsAfterSend DEF ContentAt
    <2>3. QED
      BY <1>2, <2>1, <2>2 DEF ContentsInOrder
  <1>3. ASSUME NEW w \in Uri, GiveContent(w)
        PROVE  ContentsInOrder'
    <2> SUFFICES ASSUME NEW u \in Uri, NEW i, ContentAt(i, u)'
                 PROVE  /\ 1 <= inbox'[i].version /\ inbox'[i].version <= version'[u]
                        /\ \A j \in DOMAIN inbox' : i < j /\ ContentAt(j, u)'
                             => inbox'[i].version < inbox'[j].version
      BY DEF ContentsInOrder
    <2>0. version[u] \in Nat /\ version[w] \in Nat /\ version'[u] \in Nat
          /\ version[u] <= version'[u] /\ (u = w => version'[u] = version[u] + 1)
      BY <1>3 DEF GiveContent, TypeOK
    <2>1. CASE ContentAt(i, u)
      <3>1. i \in DOMAIN inbox /\ inbox'[i] = inbox[i] /\ inbox[i].version \in Nat
            /\ 1 <= inbox[i].version /\ inbox[i].version <= version[u]
        BY <1>3, <2>1, ContentsAfterGive, ContentVersions DEF ContentsInOrder
      <3>2. ASSUME NEW j, i < j, ContentAt(j, u)'
            PROVE  inbox'[i].version < inbox'[j].version
        <4>1. CASE ContentAt(j, u)
          <5>1. inbox'[j] = inbox[j] /\ j \in DOMAIN inbox
            BY <1>3, <4>1, ContentsAfterGive DEF ContentAt
          <5>2. QED
            BY <2>1, <3>1, <3>2, <4>1, <5>1 DEF ContentsInOrder
        <4>2. CASE j = Len(inbox) + 1 /\ u = w
          BY <1>3, <2>0, <3>1, <4>2, ContentsAfterGive
        <4>3. QED
          BY <1>3, <3>2, <4>1, <4>2, ContentsAfterGive
      <3>3. QED
        BY <2>0, <3>1, <3>2
    <2>2. CASE i = Len(inbox) + 1 /\ u = w
      <3>1. inbox'[i].version = version[u] + 1 /\ i \in Nat
        BY <1>3, <2>2, ContentsAfterGive
      <3>3. ASSUME NEW j, ContentAt(j, u)', i < j
            PROVE  FALSE
        <4>0. j # Len(inbox) + 1
          BY <2>2, <3>1, <3>3
        <4>1. ContentAt(j, u)
          BY <1>3, <3>3, <4>0, ContentsAfterGive
        <4>2. j \in 1 .. Len(inbox) /\ Len(inbox) \in Nat
          BY <1>3, <4>1, ContentsAfterGive DEF ContentAt
        <4>3. QED
          BY <2>2, <3>3, <4>2
      <3>4. QED
        BY <2>0, <2>2, <3>1, <3>3
    <2>3. QED
      BY <1>3, <2>1, <2>2, ContentsAfterGive
  <1>4. ASSUME NEW type \in MessageTypes, Receive(type), version' = version
        PROVE  ContentsInOrder'
    <2> SUFFICES ASSUME NEW u \in Uri, NEW i, ContentAt(i, u)'
                 PROVE  /\ 1 <= inbox'[i].version /\ inbox'[i].version <= version'[u]
                        /\ \A j \in DOMAIN inbox' : i < j /\ ContentAt(j, u)'
                             => inbox'[i].version < inbox'[j].version
      BY DEF ContentsInOrder
    <2>1. i \in Nat /\ ContentAt(i + 1, u) /\ inbox'[i] = inbox[i + 1] /\ i + 1 \in DOMAIN inbox
      BY <1>4, ContentsAfterReceive
    <2>2. ASSUME NEW j, i < j, ContentAt(j, u)'
          PROVE  inbox'[i].version < inbox'[j].version
      <3>1. j \in Nat /\ ContentAt(j + 1, u) /\ inbox'[j] = inbox[j + 1]
            /\ j + 1 \in DOMAIN inbox /\ i + 1 < j + 1
        BY <1>4, <2>1, <2>2, ContentsAfterReceive
      <3>2. QED
        BY <2>1, <3>1 DEF ContentsInOrder
    <2>3. QED
      BY <1>4, <2>1, <2>2 DEF ContentsInOrder
  <1>5. QED
    BY <1>1, <1>2, <1>3, <1>4, InboxSteps

\* The content that is received is older than those behind it, and so is the
\* file on disk.
LEMMA ReceivedIsBelow ==
  ASSUME TypeInv, ContentsInOrder, DidChangeContent,
         NEW u, u = Head(inbox).uri, NEW n, n = Head(inbox).version
  PROVE  /\ u \in Uri /\ n \in Nat /\ ContentAt(1, u) /\ n = inbox[1].version
         /\ 1 <= n /\ n <= version[u]
         /\ \A i : ContentAt(i, u)' => n < inbox'[i].version
         /\ Below(n, u)'
  <1> USE DEF TypeInv
  <1>1. u \in Uri /\ n \in Nat /\ Receive("content") /\ version' = version
    BY ReceiveType, MessageFields DEF DidChangeContent, editorVars
  <1>2. 1 \in DOMAIN inbox /\ inbox[1].version = n /\ ContentAt(1, u)
    BY <1>1, AfterReceive DEF ContentAt
  <1>3. 1 <= n /\ n <= version[u]
    BY <1>1, <1>2 DEF ContentsInOrder
  <1>4. ASSUME NEW i, ContentAt(i, u)'
        PROVE  n < inbox'[i].version
    <2>1. i \in DOMAIN inbox' /\ i \in Nat /\ ContentAt(i + 1, u) /\ i + 1 \in DOMAIN inbox
          /\ i >= 1 /\ inbox'[i] = inbox[i + 1]
      BY <1>1, <1>4, ContentsAfterReceive
    <2>2. 1 < i + 1
      BY <2>1
    <2>3. QED
      BY <1>1, <1>2, <2>1, <2>2 DEF ContentsInOrder
  <1>5. Below(n, u)'
    BY <1>1, <1>3, <1>4 DEF Below
  <1>6. QED
    BY <1>1, <1>2, <1>3, <1>4, <1>5

LEMMA DiskIsBelow ==
  ASSUME TypeInv, ContentsInOrder, NEW u \in Uri
  PROVE  Below(0, u)
  <1>1. version[u] \in Nat
    BY DEF TypeInv, TypeOK
  <1>2. \A i : ContentAt(i, u) => inbox[i].version \in Nat /\ 1 <= inbox[i].version
    BY ContentVersions DEF ContentsInOrder, TypeInv, ContentAt
  <1>3. QED
    BY <1>1, <1>2 DEF Below

-----------------------------------------------------------------------------
(* The order of validations.  Five kinds of steps: one that does not touch    *)
(* documents, settings, runs or analyses; a validation starts; a document is  *)
(* closed; settings are dropped or settle; a continuation runs.               *)

QuietStep ==
  /\ UNCHANGED <<document, documentSettings, run, microtasks, DocumentManager>>
  /\ LineSame

LEMMA Steps ==
  ASSUME TypeInv, [Next]_vars
  PROVE  \/ QuietStep
         \/ DidChangeContent \/ DidClose \/ DidChangeConfiguration \/ SettingsSettled
         \/ Microtask
  <1> USE DEF TypeInv
  <1>1. ASSUME NEW u \in Uri, GiveContent(u) \/ CloseDocument(u)
        PROVE  QuietStep
    <2>1. CASE GiveContent(u)
      <3> DEFINE m == [type |-> "content", uri |-> u, version |-> version[u] + 1]
      <3>1. m \in Message /\ m.type # "reply" /\ Send(m) /\ asked' = asked
        BY <2>1 DEF GiveContent, Message, ContentMessage, TypeOK
      <3> HIDE DEF m
      <3>2. LineSame
        BY <3>1, LineAfterSend
      <3>3. QED
        BY <2>1, <3>2 DEF GiveContent, QuietStep
    <2>2. CASE CloseDocument(u)
      <3> DEFINE m == [type |-> "close", uri |-> u]
      <3>1. m \in Message /\ m.type # "reply" /\ Send(m) /\ asked' = asked
        BY <2>2 DEF CloseDocument, Message, CloseMessage
      <3> HIDE DEF m
      <3>2. LineSame
        BY <3>1, LineAfterSend
      <3>3. QED
        BY <2>2, <3>2 DEF CloseDocument, QuietStep
    <2>3. QED
      BY <1>1, <2>1, <2>2
  <1>2. CASE ChangeSetting
    <2> DEFINE m == [type |-> "config"]
    <2>1. m \in Message /\ m.type # "reply" /\ Send(m) /\ asked' = asked
      BY <1>2 DEF ChangeSetting, Message, ConfigMessage
    <2> HIDE DEF m
    <2>2. LineSame
      BY <2>1, LineAfterSend
    <2>3. QED
      BY <1>2, <2>2 DEF ChangeSetting, QuietStep
  <1>3. CASE AnswerConfiguration
    BY <1>3, LineAfterAnswer DEF AnswerConfiguration, QuietStep
  <1>4. ASSUME NEW q \in Request, NEW u \in Uri, SendRequest(q, u)
        PROVE  QuietStep
    <2> DEFINE m == [type |-> "request", request |-> q]
    <2>1. m \in Message /\ m.type # "reply" /\ Send(m) /\ asked' = asked
      BY <1>4 DEF SendRequest, Message, RequestMessage
    <2> HIDE DEF m
    <2>2. LineSame
      BY <2>1, LineAfterSend
    <2>3. QED
      BY <1>4, <2>2 DEF SendRequest, QuietStep
  <1>5. CASE HandleRequest
    <2>1. Receive("request") /\ asked' = asked
      BY <1>5 DEF HandleRequest
    <2>2. LineSame
      BY <2>1, LineAfterReceiveOther
    <2>3. QED
      BY <1>5, <2>2 DEF HandleRequest, QuietStep
  <1>6. CASE (\E q \in Request : PollAnswers(q)) \/ UNCHANGED vars
    <2>1. asked' = asked /\ inbox' = inbox
      BY <1>6 DEF PollAnswers, vars
    <2>2. LineSame
      BY <2>1, LineSameWhenRepliesAre
    <2>3. QED
      BY <1>6, <2>2 DEF PollAnswers, vars, QuietStep
  <1>7. QED
    BY <1>1, <1>2, <1>3, <1>4, <1>5, <1>6 DEF Next, Macrotask

\* Between macrotasks every running validation awaits a pending promise.
LEMMA AllAwait ==
  ASSUME TypeInv, QueueInv, microtasks = <<>>, NEW r \in Run, run[r].stage # "idle"
  PROVE  run[r].settings \in Promise /\ run[r].stage = "settings"
  <1>1. run[r].settings \in Promise
    BY InEmpty DEF QueueInv, RunsAreQueued
  <1>2. run[r].stage = "settings"
    BY <1>1, MarkersAssumption DEF QueueInv, RunsHaveSettings, TypeInv, TypeOK, RunState
  <1>3. QED
    BY <1>1, <1>2

\* The run a validation starts, and the settings it waits for.
Started(u, n, r, s) ==
  /\ u \in Uri /\ n \in Nat /\ r \in Run /\ s \in Promise \cup Outcome
  /\ run[r].stage = "idle"
  /\ run'[r].stage = "settings" /\ run'[r].uri = u
  /\ run'[r].settings = s /\ run'[r].closedText = None
  /\ \A x \in Run \ {r} : run'[x] = run[x]
  /\ documentSettings[u] # None => s = documentSettings[u] /\ asked' = asked
  /\ documentSettings[u] = None =>
       s \in Promise /\ ~PromiseInUse(s) /\ asked' = Append(asked, s)
  /\ documentSettings'[u] = s
  /\ \A w \in Uri \ {u} : documentSettings'[w] = documentSettings[w]
  /\ document'[u] = n
  /\ \A w \in Uri \ {u} : document'[w] = document[w]
  /\ UNCHANGED DocumentManager

LEMMA StartedRun ==
  ASSUME TypeInv, DidChangeContent
  PROVE  \E u \in Uri, n \in Nat, r \in Run, s \in Promise \cup Outcome :
           u = Head(inbox).uri /\ n = Head(inbox).version /\ Started(u, n, r, s)
  <1> USE DEF TypeInv
  <1>1. PICK u \in Uri, n \in Nat : u = Head(inbox).uri /\ n = Head(inbox).version
    BY ReceiveType, MessageFields DEF DidChangeContent
  <1>2. validateTextDocument(u) /\ document' = [document EXCEPT ![u] = n]
        /\ DocumentManager' = DocumentManager
    BY <1>1 DEF DidChangeContent
  <1>3. PICK r \in Run, s \in Promise \cup Outcome : r = NewRun /\ s = getDocumentSettings(u)
    BY <1>2, NewIdentities
  <1>4. run[r].stage = "idle"
    BY <1>2, <1>3, NewIdentities
  <1>5. run' = [run EXCEPT ![r] = [stage |-> "settings", uri |-> u, settings |-> s,
                                   closedText |-> None, parsed |-> None]]
        /\ documentSettings' = [documentSettings EXCEPT ![u] = s]
    BY <1>2, <1>3 DEF validateTextDocument
  <1>6. documentSettings[u] # None => s = documentSettings[u] /\ asked' = asked
    BY <1>2, <1>3 DEF validateTextDocument, getDocumentSettings, Asked
  <1>7. documentSettings[u] = None =>
          s \in Promise /\ ~PromiseInUse(s) /\ asked' = Append(asked, s)
    <2> SUFFICES ASSUME documentSettings[u] = None
                 PROVE  s \in Promise /\ ~PromiseInUse(s) /\ asked' = Append(asked, s)
      OBVIOUS
    <2>1. s = CHOOSE p \in Promise : ~PromiseInUse(p)
      BY <1>3 DEF getDocumentSettings, NewPromise
    <2>2. \E p \in Promise : ~PromiseInUse(p)
      BY <1>2 DEF validateTextDocument
    <2>3. s \in Promise /\ ~PromiseInUse(s)
      BY <2>1, <2>2
    <2>4. QED
      BY <1>2, <1>3, <2>3 DEF validateTextDocument, Asked
  <1>8. Started(u, n, r, s)
    BY <1>1, <1>2, <1>3, <1>4, <1>5, <1>6, <1>7 DEF Started, TypeOK
  <1>9. QED
    BY <1>1, <1>8

\* The document of a closed one's running validations keeps its content.
Closed(u) ==
  /\ u \in Uri
  /\ \A r \in Run :
       /\ run'[r].stage = run[r].stage /\ run'[r].uri = run[r].uri
       /\ run'[r].settings = run[r].settings /\ run'[r].parsed = run[r].parsed
       /\ run'[r].closedText = IF run[r].uri = u /\ run[r].closedText = None
                               THEN document[u] ELSE run[r].closedText
  /\ document'[u] = None /\ documentSettings'[u] = None
  /\ \A w \in Uri \ {u} : document'[w] = document[w] /\ documentSettings'[w] = documentSettings[w]
  /\ LineSame
  /\ UNCHANGED <<DocumentManager, microtasks>>

LEMMA ClosedDocument ==
  ASSUME TypeInv, DidClose
  PROVE  \E u \in Uri : u = Head(inbox).uri /\ Closed(u)
  <1> USE DEF TypeInv
  <1>1. PICK u \in Uri : u = Head(inbox).uri
    BY ReceiveType, MessageFields DEF DidClose
  <1>2. LineSame
    BY LineAfterReceiveOther DEF DidClose
  <1>3. document' = [document EXCEPT ![u] = None]
        /\ documentSettings' = [documentSettings EXCEPT ![u] = None]
    BY <1>1 DEF DidClose, SettingsAfterClose
  <1>4. ASSUME NEW r \in Run
        PROVE  /\ run'[r].stage = run[r].stage /\ run'[r].uri = run[r].uri
               /\ run'[r].settings = run[r].settings /\ run'[r].parsed = run[r].parsed
               /\ run'[r].closedText = IF run[r].uri = u /\ run[r].closedText = None
                                       THEN document[u] ELSE run[r].closedText
    <2>1. run' = [x \in Run |-> IF run[x].uri = u /\ run[x].closedText = None
                                THEN [run[x] EXCEPT !.closedText = document[u]] ELSE run[x]]
      BY <1>1 DEF DidClose, Detached
    <2>2. run[r] \in RunState
      BY DEF TypeOK
    <2>3. QED
      BY <2>1, <2>2 DEF RunState
  <1>5. Closed(u)
    BY <1>2, <1>3, <1>4 DEF Closed, DidClose, TypeOK
  <1>6. QED
    BY <1>1, <1>5

\* The promise p settles with v.
Settled(p, v) ==
  /\ p \in Promise /\ v \in Outcome /\ v \notin Promise
  /\ \A u \in Uri : documentSettings'[u] = IF documentSettings[u] = p THEN v
                                           ELSE documentSettings[u]
  /\ \A r \in Run :
       /\ run'[r].stage = run[r].stage /\ run'[r].uri = run[r].uri
       /\ run'[r].closedText = run[r].closedText /\ run'[r].parsed = run[r].parsed
       /\ run'[r].settings = IF run[r].settings = p THEN v ELSE run[r].settings
  /\ \A q \in Promise : PromiseInUse(q) /\ q # p => Before(p, q)
  /\ \A q \in Promise : ~Before(q, p)
  /\ \A q \in Promise : q # p => (PromiseInUse(q)' <=> PromiseInUse(q))
  /\ \A q, x \in Promise : Before(q, x)' => Before(q, x) /\ q # p
  /\ \A q, x \in Promise : q # p => (Before(q, x)' <=> Before(q, x))
  /\ UNCHANGED <<document, DocumentManager>>

LEMMA SettledPromise ==
  ASSUME TypeInv, SettingsSettled, \A a \in Promise : ~Before(a, a)
  PROVE  \E p \in Promise, v \in Outcome : v = Head(inbox).value /\ Settled(p, v)
  <1> USE DEF TypeInv
  <1>1. PICK p \in Promise, v \in Outcome : p = Head(inbox).promise /\ v = Head(inbox).value
    BY ReceiveType, MessageFields DEF SettingsSettled
  <1>2. v \notin Promise
    BY MarkersAssumption DEF Outcome
  <1>3. /\ \A q \in Promise : PromiseInUse(q) /\ q # p => Before(p, q)
        /\ \A q \in Promise : ~Before(q, p)
        /\ \A q \in Promise : q # p => (PromiseInUse(q)' <=> PromiseInUse(q))
        /\ \A q, x \in Promise : Before(q, x)' => Before(q, x) /\ q # p
        /\ \A q, x \in Promise : q # p => (Before(q, x)' <=> Before(q, x))
    BY <1>1, LineAfterReply DEF SettingsSettled
  <1>4. ASSUME NEW r \in Run
        PROVE  /\ run'[r].stage = run[r].stage /\ run'[r].uri = run[r].uri
               /\ run'[r].closedText = run[r].closedText /\ run'[r].parsed = run[r].parsed
               /\ run'[r].settings = IF run[r].settings = p THEN v ELSE run[r].settings
    <2>1. run' = [x \in Run |-> IF run[x].settings = p
                                THEN [run[x] EXCEPT !.settings = v] ELSE run[x]]
      BY <1>1 DEF SettingsSettled
    <2>2. run[r] \in RunState
      BY DEF TypeOK
    <2>3. QED
      BY <2>1, <2>2 DEF RunState
  <1>5. /\ \A u \in Uri : documentSettings'[u] = IF documentSettings[u] = p THEN v
                                                 ELSE documentSettings[u]
        /\ UNCHANGED <<document, DocumentManager>>
    BY <1>1 DEF SettingsSettled
  <1>6. Settled(p, v)
    BY <1>2, <1>3, <1>4, <1>5 DEF Settled
  <1>7. QED
    BY <1>1, <1>6

\* The continuation of r runs: it parses the text or it ends.
Continued(r) ==
  /\ r \in Run /\ run[r].stage # "idle" /\ run[r].uri \in Uri
  /\ run[r].settings \notin Promise /\ run[r].settings \in Outcome
  /\ UNCHANGED <<document, documentSettings, inbox, version>>
  /\ LineSame
  /\ \A x \in Run \ {r} : run'[x] = run[x]
  /\ \/ /\ run'[r].uri = run[r].uri /\ run'[r].settings = run[r].settings
        /\ run'[r].closedText = run[r].closedText
        /\ run[r].stage = "settings"
        /\ run'[r].stage = "parsed" /\ run'[r].parsed = TextOf(r)
        /\ DocumentManager'[run[r].uri] = Pending
     \/ /\ run'[r].stage = "idle" /\ run'[r].uri = None /\ run'[r].settings = None
        /\ \/ /\ run[r].settings = "rejected" /\ UNCHANGED DocumentManager
              /\ run[r].stage = "settings"
           \/ /\ DocumentManager'[run[r].uri] = Pending
              /\ run[r].stage = "settings"
           \/ /\ DocumentManager'[run[r].uri] = run[r].parsed /\ run[r].stage = "parsed"
              /\ run[r].parsed \in Nat
  /\ \A w \in Uri \ {run[r].uri} :
       \/ DocumentManager'[w] = DocumentManager[w]
       \/ DocumentManager[w] = Absent /\ DocumentManager'[w] \in {0, Pending}
       
LEMMA ContinuedRun ==
  ASSUME TypeInv, QueueInv, Microtask
  PROVE  \E r \in Run : r = Head(microtasks) /\ Continued(r)
  <1> USE DEF TypeInv
  <1>1. PICK r \in Run : r = Head(microtasks) /\ microtasks # <<>>
    BY ReadyRun DEF Microtask, Parse, ParseThrows, SettingsRejected, StoreAnalysis
  <1>2. run[r].stage # "idle" /\ run[r].uri \in Uri
        /\ run[r].settings \notin Promise /\ run[r].settings \in Outcome
    <2>1. run[r].stage # "idle"
      BY <1>1 DEF Microtask, Parse, ParseThrows, SettingsRejected, StoreAnalysis
    <2>2. run[r].settings \notin Promise
      BY <1>1, InTail DEF QueueInv, QueuesFit, TypeOK
    <2>3. QED
      BY <2>1, <2>2 DEF RunsHaveText, QueueInv, RunsHaveSettings
  <1>3. UNCHANGED <<document, documentSettings, inbox, asked, version>>
    BY DEF Microtask, Parse, ParseThrows, SettingsRejected, StoreAnalysis, editorVars
  <1>4. LineSame
    BY <1>3, LineSameWhenRepliesAre
  <1>5. ASSUME NEW thrown \in BOOLEAN, ParseEffect(run[r].uri, thrown)
        PROVE  /\ DocumentManager'[run[r].uri] = Pending
               /\ \A w \in Uri \ {run[r].uri} :
                    \/ DocumentManager'[w] = DocumentManager[w]
                    \/ DocumentManager[w] = Absent /\ DocumentManager'[w] \in {0, Pending}
    <2>1. PICK loaded \in SUBSET NotKnown(run[r].uri) :
            \E outcome \in [loaded -> ImportOutcome(thrown)] :
              DocumentManager' = [w \in Uri |-> IF w = run[r].uri THEN Pending
                                                ELSE IF w \in loaded THEN outcome[w]
                                                ELSE DocumentManager[w]]
      BY <1>5 DEF ParseEffect
    <2>2. PICK outcome \in [loaded -> ImportOutcome(thrown)] :
            DocumentManager' = [w \in Uri |-> IF w = run[r].uri THEN Pending
                                              ELSE IF w \in loaded THEN outcome[w]
                                              ELSE DocumentManager[w]]
      BY <2>1
    <2>3. \A w \in loaded : outcome[w] \in {0, Pending} /\ DocumentManager[w] = Absent
      BY <2>1, <2>2 DEF ImportOutcome, NotKnown
    <2>4. QED
      BY <1>2, <2>2, <2>3
  <1>6. CASE Parse
    <2>1. run' = [run EXCEPT ![r].stage = "parsed", ![r].parsed = TextOf(r)]
          /\ run[r].stage = "settings" /\ ParseEffect(run[r].uri, FALSE)
      BY <1>1, <1>6 DEF Parse
    <2>2. run'[r].uri = run[r].uri /\ run'[r].settings = run[r].settings
          /\ run'[r].closedText = run[r].closedText
          /\ run'[r].stage = "parsed" /\ run'[r].parsed = TextOf(r)
          /\ \A x \in Run \ {r} : run'[x] = run[x]
      BY <2>1 DEF TypeOK, RunState
    <2>3. Continued(r)
      BY <1>2, <1>3, <1>4, <1>5, <2>1, <2>2 DEF Continued
    <2>4. QED
      BY <1>1, <2>3
  <1>7. ASSUME Finish(r)
        PROVE  run'[r].stage = "idle" /\ run'[r].uri = None /\ run'[r].settings = None
               /\ \A x \in Run \ {r} : run'[x] = run[x]
    BY <1>7 DEF Finish, Idle, TypeOK
  <1>8. CASE ParseThrows
    <2>1. run[r].stage = "settings" /\ ParseEffect(run[r].uri, TRUE) /\ Finish(r)
      BY <1>1, <1>8 DEF ParseThrows
    <2>2. Continued(r)
      BY <1>2, <1>3, <1>4, <1>5, <1>7, <2>1 DEF Continued
    <2>3. QED
      BY <1>1, <2>2
  <1>9. CASE SettingsRejected
    <2>1. run[r].stage = "settings" /\ run[r].settings = "rejected" /\ Finish(r)
          /\ DocumentManager' = DocumentManager
      BY <1>1, <1>9 DEF SettingsRejected
    <2>2. Continued(r)
      BY <1>2, <1>3, <1>4, <1>7, <2>1 DEF Continued
    <2>3. QED
      BY <1>1, <2>2
  <1>10. CASE StoreAnalysis
    <2>1. run[r].stage = "parsed" /\ Finish(r)
          /\ DocumentManager' = [DocumentManager EXCEPT ![run[r].uri] = run[r].parsed]
      BY <1>1, <1>10 DEF StoreAnalysis, Stored
    <2>2. run[r].parsed \in Nat
      BY <2>1 DEF RunsHaveText, TypeOK, RunState
    <2>3. DocumentManager'[run[r].uri] = run[r].parsed
          /\ \A w \in Uri \ {run[r].uri} : DocumentManager'[w] = DocumentManager[w]
      BY <1>2, <2>1 DEF TypeOK
    <2>4. Continued(r)
      BY <1>2, <1>3, <1>4, <1>7, <2>1, <2>2, <2>3 DEF Continued
    <2>5. QED
      BY <1>1, <2>4
  <1>11. QED
    BY <1>6, <1>8, <1>9, <1>10 DEF Microtask

-----------------------------------------------------------------------------
(* The order of validations, kept by each kind of step. *)

LEMMA PromisesInLineNext ==
  ASSUME TypeInv, QueueInv, PromisesInLine, [Next]_vars
  PROVE  PromisesInLine'
  <1> USE DEF TypeInv
  <1>1. CASE QuietStep \/ DidChangeConfiguration
    <2>1. run' = run /\ LineSame
      <3>1. CASE DidChangeConfiguration
        BY <3>1, LineAfterReceiveOther DEF DidChangeConfiguration
      <3>2. QED
        BY <1>1, <3>1 DEF QuietStep
    <2>2. \A u \in Uri : documentSettings'[u] # None => documentSettings'[u] = documentSettings[u]
      BY <1>1 DEF QuietStep, DidChangeConfiguration, SettingsAfterConfigChange
    <2>3. None \notin Promise /\ None \notin Outcome
      BY MarkersAssumption DEF Outcome
    <2>4. QED
      BY <2>1, <2>2, <2>3 DEF PromisesInLine, LineSame, Active
  <1>2. CASE DidClose
    <2>1. PICK w \in Uri : Closed(w)
      BY <1>2, ClosedDocument
    <2>2. \A u \in Uri : documentSettings'[u] # None => u # w /\ documentSettings'[u] = documentSettings[u]
      BY <2>1 DEF Closed
    <2>3. None \notin Promise /\ None \notin Outcome
      BY MarkersAssumption DEF Outcome
    <2>4. QED
      BY <2>1, <2>2, <2>3 DEF PromisesInLine, LineSame, Active, Closed
  <1>3. CASE Microtask
    <2>1. PICK r \in Run : Continued(r)
      BY <1>3, ContinuedRun
    <2>2. \A x \in Run : run'[x].stage # "idle" =>
            /\ run[x].stage # "idle" /\ run'[x].uri = run[x].uri
            /\ run'[x].settings = run[x].settings /\ run'[x].closedText = run[x].closedText
      BY <2>1 DEF Continued
    <2>3. documentSettings' = documentSettings /\ LineSame
      BY <2>1 DEF Continued
    <2>4. QED
      BY <2>2, <2>3 DEF PromisesInLine, LineSame, Active
  <1>4. CASE DidChangeContent
    <2>1. PICK u \in Uri, n \in Nat, r \in Run, s \in Promise \cup Outcome : Started(u, n, r, s)
      BY <1>4, StartedRun
    <2>2. Receive("content") /\ Outcome \cap Promise = {} /\ None \notin Promise
          /\ None \notin Outcome
      BY <1>4, MarkersAssumption DEF DidChangeContent, Outcome
    <2>3. CASE documentSettings[u] # None
      <3>1. LineSame /\ documentSettings' = documentSettings
        <4>1. asked' = asked
          BY <2>1, <2>3 DEF Started
        <4>2. LineSame
          BY <2>2, <4>1, LineAfterReceiveOther
        <4>3. \A w \in Uri : documentSettings'[w] = documentSettings[w]
          BY <2>1, <2>3 DEF Started
        <4>4. documentSettings' \in [Uri -> Promise \cup Outcome \cup {None}]
          BY TypeInvNext DEF TypeOK
        <4>5. QED
          BY <4>2, <4>3, <4>4 DEF TypeOK
      <3>2. s = documentSettings[u]
        BY <2>1, <2>3 DEF Started
      <3>3. \A x \in Run : x = r \/ run'[x] = run[x]
        BY <2>1 DEF Started
      <3>4. run'[r].uri = u /\ run'[r].settings = s /\ run'[r].closedText = None
        BY <2>1 DEF Started
      <3>5. \A w \in Uri, p \in Promise : documentSettings[w] = p /\ s = p => w = u
        BY <3>2 DEF PromisesInLine
      <3>6. \A p \in Promise : ~Before(p, p)'
        BY <3>1 DEF PromisesInLine, LineSame
      <3>7. QED
        BY <2>2, <3>1, <3>2, <3>3, <3>4, <3>5, <3>6 DEF PromisesInLine, LineSame, Active
    <2>4. CASE documentSettings[u] = None
      <3>1. s \in Promise /\ ~PromiseInUse(s) /\ asked' = Append(asked, s)
        BY <2>1, <2>4 DEF Started
      <3>2. /\ \A p \in Promise : PromiseInUse(p)' <=> PromiseInUse(p) \/ p = s
            /\ \A p, q \in Promise :
                 Before(p, q)' <=> Before(p, q) \/ (PromiseInUse(p) /\ q = s)
        BY <2>2, <3>1, LineAfterAsk
      <3>3. \A x \in Run : x = r \/ run'[x] = run[x]
        BY <2>1 DEF Started
      <3>4. run'[r].uri = u /\ run'[r].settings = s /\ run'[r].closedText = None
            /\ documentSettings'[u] = s
            /\ \A w \in Uri : w # u => documentSettings'[w] = documentSettings[w]
        BY <2>1 DEF Started
      <3>5. \A p \in Promise : ~Before(p, s)
        BY <3>1, BeforeInUse
      <3>6. \A x \in Run : run[x].stage # "idle" => run[x].settings # s
        BY <3>1 DEF PromisesInLine
      <3>7. \A w \in Uri : documentSettings[w] # s
        BY <3>1 DEF PromisesInLine
      <3>8. \A p \in Promise : ~Before(p, p)'
        BY <3>1, <3>2 DEF PromisesInLine
      <3>9. \A x \in Run, p \in Promise :
              run'[x].stage # "idle" /\ run'[x].settings = p => PromiseInUse(p)'
        BY <3>2, <3>3, <3>4 DEF PromisesInLine
      <3>10. ASSUME NEW w \in Uri, NEW p \in Promise, documentSettings'[w] = p
             PROVE  /\ PromiseInUse(p)'
                    /\ \A y \in Uri : documentSettings'[y] = p => y = w
                    /\ \A x \in Run : run'[x].stage # "idle" /\ run'[x].settings = p =>
                         run'[x].uri = w /\ run'[x].closedText = None
                    /\ \A x \in Run, q \in Promise : Active(x, w)' /\ run'[x].settings = q =>
                         q = p \/ Before(q, p)'
        <4>1. CASE w = u
          <5>1. p = s
            BY <3>4, <3>10, <4>1
          <5>2. \A x \in Run : x # r /\ run'[x].stage # "idle" => run'[x].settings # s
            BY <3>3, <3>6
          <5>3. \A x \in Run, q \in Promise : x # r /\ Active(x, w)' /\ run'[x].settings = q =>
                  PromiseInUse(q)
            BY <3>3 DEF PromisesInLine, Active
          <5>4. \A y \in Uri : documentSettings'[y] = p => y = w
            BY <3>4, <3>7, <4>1, <5>1
          <5>5. QED
            BY <3>2, <3>4, <4>1, <5>1, <5>2, <5>3, <5>4
        <4>2. CASE w # u
          <5>1. documentSettings[w] = p /\ p # s
            BY <3>4, <3>7, <3>10, <4>2
          <5>2. QED
            BY <3>2, <3>3, <3>4, <4>2, <5>1 DEF PromisesInLine, Active
        <4>3. QED
          BY <4>1, <4>2
      <3>11. \A w \in Uri, x \in Run :
               documentSettings'[w] \in Outcome /\ Active(x, w)' => run'[x].settings \notin Promise
        BY <2>2, <3>1, <3>3, <3>4 DEF PromisesInLine, Active
      <3>12. QED
        BY <3>8, <3>9, <3>10, <3>11 DEF PromisesInLine
    <2>5. QED
      BY <2>3, <2>4
  <1>5. CASE SettingsSettled
    <2>1. PICK p \in Promise, v \in Outcome : Settled(p, v)
      BY <1>5, SettledPromise DEF PromisesInLine
    <2>2. v \notin Promise
      BY <2>1 DEF Settled
    <2>3. \A x \in Run, q \in Promise : run'[x].settings = q =>
            q # p /\ run[x].settings = q /\ run'[x].uri = run[x].uri
            /\ run'[x].closedText = run[x].closedText /\ run'[x].stage = run[x].stage
      BY <2>1, <2>2 DEF Settled
    <2>4. \A w \in Uri, q \in Promise : documentSettings'[w] = q =>
            q # p /\ documentSettings[w] = q
      BY <2>1, <2>2 DEF Settled
    <2>5. \A q \in Promise : ~Before(q, q)'
      BY <2>1 DEF Settled, PromisesInLine
    <2>6. \A x \in Run, q \in Promise :
            run'[x].stage # "idle" /\ run'[x].settings = q => PromiseInUse(q)'
      BY <2>1, <2>3 DEF Settled, PromisesInLine
    <2>7. ASSUME NEW w \in Uri, NEW q \in Promise, documentSettings'[w] = q
          PROVE  /\ PromiseInUse(q)'
                 /\ \A y \in Uri : documentSettings'[y] = q => y = w
                 /\ \A x \in Run : run'[x].stage # "idle" /\ run'[x].settings = q =>
                      run'[x].uri = w /\ run'[x].closedText = None
                 /\ \A x \in Run, a \in Promise : Active(x, w)' /\ run'[x].settings = a =>
                      a = q \/ Before(a, q)'
      <3>1. documentSettings[w] = q /\ q # p
        BY <2>4, <2>7
      <3>2. PromiseInUse(q)'
        BY <2>1, <3>1 DEF Settled, PromisesInLine
      <3>3. \A x \in Run : run'[x].stage # "idle" /\ run'[x].settings = q =>
              run'[x].uri = w /\ run'[x].closedText = None
        BY <2>3, <3>1 DEF PromisesInLine
      <3>4. \A x \in Run, a \in Promise : Active(x, w)' /\ run'[x].settings = a =>
              a # p /\ (a = q \/ Before(a, q))
        BY <2>3, <3>1 DEF PromisesInLine, Active
      <3>5. \A y \in Uri : documentSettings'[y] = q => y = w
        BY <2>4, <3>1 DEF PromisesInLine
      <3>6. QED
        BY <2>1, <3>2, <3>3, <3>4, <3>5 DEF Settled
    <2>8. ASSUME NEW w \in Uri, NEW x \in Run, documentSettings'[w] \in Outcome, Active(x, w)',
                 run'[x].settings \in Promise
          PROVE  FALSE
      <3>1. PICK q \in Promise : run[x].settings = q /\ q # p /\ Active(x, w)
        BY <2>3, <2>8 DEF Active
      <3>2. CASE documentSettings[w] = p
        BY <2>1, <3>1, <3>2 DEF PromisesInLine, Settled
      <3>3. CASE documentSettings[w] # p
        BY <2>1, <2>8, <3>1, <3>3 DEF PromisesInLine, Settled
      <3>4. QED
        BY <3>2, <3>3
    <2>9. QED
      BY <2>5, <2>6, <2>7, <2>8 DEF PromisesInLine
  <1>6. QED
    BY <1>1, <1>2, <1>3, <1>4, <1>5, Steps

LEMMA BeforeIsAsymmetric ==
  ASSUME TypeOK, NEW p \in Promise, NEW q \in Promise, Before(p, q), Before(q, p)
  PROVE  Before(p, p) \/ Before(q, q)
  <1>1. DOMAIN inbox \subseteq Nat /\ DOMAIN asked \subseteq Nat
    BY DEF TypeOK
  <1>2. CASE \E i, j \in DOMAIN inbox : i < j /\ ReplyAt(i, p) /\ ReplyAt(j, q)
    <2>1. PICK i \in DOMAIN inbox, j \in DOMAIN inbox : i < j /\ ReplyAt(i, p) /\ ReplyAt(j, q)
      BY <1>2
    <2>2. CASE \E k, l \in DOMAIN inbox : k < l /\ ReplyAt(k, q) /\ ReplyAt(l, p)
      <3>1. PICK k \in DOMAIN inbox, l \in DOMAIN inbox : k < l /\ ReplyAt(k, q) /\ ReplyAt(l, p)
        BY <2>2
      <3>2. i < l \/ k < j
        BY <1>1, <2>1, <3>1
      <3>3. QED
        BY <2>1, <3>1, <3>2 DEF Before
    <2>3. CASE \E k \in DOMAIN asked : AskedAt(k, p)
      BY <2>1, <2>3 DEF Before
    <2>4. QED
      BY <2>2, <2>3 DEF Before
  <1>3. CASE (\E i \in DOMAIN inbox : ReplyAt(i, p)) /\ (\E j \in DOMAIN asked : AskedAt(j, q))
    BY <1>3 DEF Before
  <1>4. CASE \E i, j \in DOMAIN asked : i < j /\ AskedAt(i, p) /\ AskedAt(j, q)
    <2>1. PICK i \in DOMAIN asked, j \in DOMAIN asked : i < j /\ AskedAt(i, p) /\ AskedAt(j, q)
      BY <1>4
    <2>2. CASE \E k, l \in DOMAIN asked : k < l /\ AskedAt(k, q) /\ AskedAt(l, p)
      <3>1. PICK k \in DOMAIN asked, l \in DOMAIN asked : k < l /\ AskedAt(k, q) /\ AskedAt(l, p)
        BY <2>2
      <3>2. i < l \/ k < j
        BY <1>1, <2>1, <3>1
      <3>3. QED
        BY <2>1, <3>1, <3>2 DEF Before
    <2>3. CASE \E k \in DOMAIN inbox : ReplyAt(k, q)
      BY <2>1, <2>3 DEF Before
    <2>4. QED
      BY <2>2, <2>3 DEF Before
  <1>5. QED
    BY <1>2, <1>3, <1>4 DEF Before

\* What a running validation reads: a version of its document.
LEMMA TextsAreVersions ==
  ASSUME TypeInv, NEW r \in Run, run[r].stage # "idle"
  PROVE  /\ run[r].uri \in Uri
         /\ TextOf(r) \in Nat
         /\ run[r].closedText = None => TextOf(r) = document[run[r].uri]
         /\ run[r].closedText # None => TextOf(r) = run[r].closedText
         /\ run[r].closedText \in Nat \cup {None}
  BY DEF TypeInv, RunsHaveText, TypeOK, RunState, TextOf

LEMMA RunsInOrderNext ==
  ASSUME TypeInv, QueueInv, OrderInv, [Next]_vars
  PROVE  RunsInOrder'
  <1> USE DEF TypeInv
  <1>0. PromisesInLine /\ RunsInOrder /\ AnalysesInOrder
    BY DEF OrderInv
  <1>1. CASE QuietStep \/ DidChangeConfiguration
    <2>1. run' = run /\ LineSame
      <3>1. CASE DidChangeConfiguration
        BY <3>1, LineAfterReceiveOther DEF DidChangeConfiguration
      <3>2. QED
        BY <1>1, <3>1 DEF QuietStep
    <2>2. QED
      BY <1>0, <2>1 DEF RunsInOrder, ReadsNoNewer, LineSame
  <1>2. CASE DidClose
    <2>1. PICK w \in Uri : Closed(w)
      BY <1>2, ClosedDocument
    <2>2. ASSUME NEW r \in Run, NEW x \in Run, run[r].stage # "idle", run[x].stage # "idle",
                 run[r].uri = run[x].uri, ReadsNoNewer(r, x)
          PROVE  ReadsNoNewer(r, x)'
      <3>1. CASE run[r].uri # w
        BY <2>1, <2>2, <3>1 DEF Closed, ReadsNoNewer
      <3>2. CASE run[r].uri = w /\ run[x].closedText # None
        <4>1. run[r].closedText # None /\ run[r].closedText <= run[x].closedText
          BY <2>2, <3>2 DEF ReadsNoNewer
        <4>2. run'[r].closedText = run[r].closedText /\ run'[x].closedText = run[x].closedText
          BY <2>1, <3>2, <4>1 DEF Closed
        <4>3. QED
          BY <3>2, <4>1, <4>2 DEF ReadsNoNewer
      <3>3. CASE run[r].uri = w /\ run[x].closedText = None
        <4>1. document[w] \in Nat /\ document[w] # None
          BY <2>1, <2>2, <3>3, MarkersAssumption DEF RunsHaveText, TypeOK
        <4>2. run'[x].closedText = document[w]
          BY <2>1, <2>2, <3>3 DEF Closed
        <4>3. run[r].closedText # None => run[r].closedText <= document[w]
          BY <1>0, <2>2, <3>3, <4>1, TextsAreVersions DEF AnalysesInOrder, Active
        <4>4. run'[r].closedText = IF run[r].closedText = None THEN document[w]
                                   ELSE run[r].closedText
          BY <2>1, <3>3 DEF Closed
        <4>5. QED
          BY <4>1, <4>2, <4>3, <4>4 DEF ReadsNoNewer
      <3>4. QED
        BY <3>1, <3>2, <3>3
    <2>3. LineSame /\ \A r \in Run : /\ run'[r].stage = run[r].stage /\ run'[r].uri = run[r].uri
                                     /\ run'[r].settings = run[r].settings
      BY <2>1 DEF Closed
    <2>4. \A r, x \in Run : run[r].uri = run[x].uri /\ run[r].closedText = run[x].closedText
            => run'[r].closedText = run'[x].closedText
      BY <2>1 DEF Closed
    <2>5. QED
      BY <1>0, <2>2, <2>3, <2>4 DEF RunsInOrder, LineSame
  <1>3. CASE Microtask
    <2>1. PICK r \in Run : Continued(r)
      BY <1>3, ContinuedRun
    <2>2. \A x \in Run : run'[x].stage # "idle" =>
            /\ run[x].stage # "idle" /\ run'[x].uri = run[x].uri
            /\ run'[x].settings = run[x].settings /\ run'[x].closedText = run[x].closedText
      BY <2>1 DEF Continued
    <2>3. LineSame
      BY <2>1 DEF Continued
    <2>4. QED
      BY <1>0, <2>2, <2>3 DEF RunsInOrder, ReadsNoNewer, LineSame
  <1>4. CASE DidChangeContent
    <2>1. PICK u \in Uri, n \in Nat, r \in Run, s \in Promise \cup Outcome : Started(u, n, r, s)
      BY <1>4, StartedRun
    <2>2. Receive("content") /\ microtasks = <<>> /\ Outcome \cap Promise = {}
          /\ None \notin Promise /\ None \notin Outcome
      BY <1>4, MarkersAssumption DEF DidChangeContent, Outcome, Receive
    <2>3. run'[r].uri = u /\ run'[r].settings = s /\ run'[r].closedText = None
          /\ run[r].stage = "idle"
      BY <2>1 DEF Started
    <2>4. ASSUME NEW x \in Run, x # r, run'[x].stage # "idle"
          PROVE  run'[x] = run[x] /\ run[x].stage # "idle" /\ run[x].settings \in Promise
      <3>1. run'[x] = run[x]
        BY <2>1, <2>4 DEF Started
      <3>2. QED
        BY <2>2, <2>4, <3>1, AllAwait
    <2>5. ASSUME NEW x \in Run, x # r, run'[x].stage # "idle", run[x].settings = s
          PROVE  run[x].uri = u /\ run[x].closedText = None
      <3>1. run[x].stage # "idle" /\ s \in Promise
        BY <2>4, <2>5
      <3>2. documentSettings[u] = s
        <4>1. PromiseInUse(s)
          BY <1>0, <2>5, <3>1 DEF PromisesInLine
        <4>2. QED
          BY <2>1, <4>1 DEF Started
      <3>3. QED
        BY <1>0, <2>5, <3>1, <3>2 DEF PromisesInLine
    <2>6. ASSUME NEW q \in Promise, NEW p \in Promise, Before(q, p)', p # s
          PROVE  Before(q, p)
      <3>1. CASE documentSettings[u] # None
        <4>1. LineSame
          BY <2>1, <2>2, <3>1, LineAfterReceiveOther DEF Started
        <4>2. QED
          BY <2>6, <4>1 DEF LineSame
      <3>2. CASE documentSettings[u] = None
        <4>1. s \in Promise /\ ~PromiseInUse(s) /\ asked' = Append(asked, s)
          BY <2>1, <3>2 DEF Started
        <4>2. Before(q, p)' <=> Before(q, p) \/ (PromiseInUse(q) /\ p = s)
          BY <2>2, <4>1, LineAfterAsk
        <4>3. QED
          BY <2>6, <4>2
      <3>3. QED
        BY <3>1, <3>2
    <2>7. ASSUME NEW a \in Run, NEW x \in Run, run'[a].stage # "idle", run'[x].stage # "idle",
                 \/ run'[a].settings = run'[x].settings
                 \/ run'[a].settings \notin Promise /\ run'[x].settings \notin Promise
          PROVE  run'[a].uri = run'[x].uri /\ run'[a].closedText = run'[x].closedText
      <3>1. CASE a = r /\ x = r
        BY <3>1
      <3>2. CASE a = r /\ x # r
        BY <2>3, <2>4, <2>5, <2>7, <3>2
      <3>3. CASE a # r /\ x = r
        BY <2>3, <2>4, <2>5, <2>7, <3>3
      <3>4. CASE a # r /\ x # r
        BY <1>0, <2>4, <2>7, <3>4 DEF RunsInOrder
      <3>5. QED
        BY <3>1, <3>2, <3>3, <3>4
    <2>8. ASSUME NEW a \in Run, NEW x \in Run, run'[a].stage # "idle", run'[x].stage # "idle",
                 run'[a].uri = run'[x].uri, NEW p \in Promise, run'[x].settings = p,
                 \/ run'[a].settings \notin Promise
                 \/ \E q \in Promise : run'[a].settings = q /\ Before(q, p)'
          PROVE  ReadsNoNewer(a, x)'
      <3>1. CASE x = r
        BY <2>3, <3>1 DEF ReadsNoNewer
      <3>2. CASE a # r /\ x # r
        <4>1. run'[a] = run[a] /\ run'[x] = run[x] /\ run[a].stage # "idle" /\ run[x].stage # "idle"
              /\ run[a].settings \in Promise /\ run[x].settings = p
          BY <2>4, <2>8, <3>2
        <4>2. PICK q \in Promise : run[a].settings = q /\ Before(q, p)'
          BY <2>8, <4>1
        <4>3. Before(q, p)
          <5>1. CASE p = s
            <6>1. run[x].closedText = None /\ run[x].uri = u
              BY <2>5, <2>8, <3>2, <4>1, <5>1
            <6>2. documentSettings[u] = s
              <7>1. PromiseInUse(s)
                BY <1>0, <4>1, <5>1 DEF PromisesInLine
              <7>2. QED
                BY <2>1, <7>1 DEF Started
            <6>3. LineSame
              <7>1. asked' = asked
                BY <2>1, <2>2, <5>1, <6>2 DEF Started
              <7>2. QED
                BY <2>2, <7>1, LineAfterReceiveOther
            <6>4. QED
              BY <4>2, <6>3 DEF LineSame
          <5>2. CASE p # s
            BY <2>6, <4>2, <5>2
          <5>3. QED
            BY <5>1, <5>2
        <4>4. ReadsNoNewer(a, x)
          BY <1>0, <2>8, <4>1, <4>2, <4>3 DEF RunsInOrder
        <4>5. QED
          BY <4>1, <4>4 DEF ReadsNoNewer
      <3>3. CASE a = r /\ x # r
        <4>1. run[x].uri = u /\ run[x].stage # "idle" /\ run[x].settings = p
          BY <2>3, <2>4, <2>8, <3>3
        <4>2. CASE documentSettings[u] = None
          <5>1. s \in Promise /\ ~PromiseInUse(s)
            BY <2>1, <4>2 DEF Started
          <5>2. PromiseInUse(p)
            BY <1>0, <4>1 DEF PromisesInLine
          <5>3. Before(s, p)'
            BY <2>3, <2>8, <3>3, <5>1
          <5>4. Before(s, p)
            BY <2>6, <5>1, <5>2, <5>3
          <5>5. QED
            BY <5>1, <5>4, BeforeInUse
        <4>3. CASE documentSettings[u] # None
          <5>1. s = documentSettings[u] /\ asked' = asked
            BY <2>1, <4>3 DEF Started
          <5>2. s \in Promise
            BY <1>0, <2>2, <4>1, <5>1 DEF PromisesInLine, Active
          <5>3. p = s \/ Before(p, s)
            BY <1>0, <4>1, <5>1, <5>2 DEF PromisesInLine, Active
          <5>4. Before(s, p)'
            BY <2>3, <2>8, <3>3, <5>2
          <5>5. Before(s, p)
            BY <2>2, <5>1, <5>2, <5>4, LineAfterReceiveOther DEF LineSame
          <5>6. QED
            BY <1>0, <5>2, <5>3, <5>5, BeforeIsAsymmetric DEF PromisesInLine
        <4>4. QED
          BY <4>2, <4>3
      <3>4. QED
        BY <3>1, <3>2, <3>3
    <2>9. QED
      BY <2>7, <2>8 DEF RunsInOrder
  <1>5. CASE SettingsSettled
    <2>1. PICK p \in Promise, v \in Outcome : Settled(p, v)
      BY <1>0, <1>5, SettledPromise DEF PromisesInLine
    <2>2. v \notin Promise /\ microtasks = <<>>
      BY <1>5, <2>1 DEF Settled, SettingsSettled, Receive
    <2>3. \A x \in Run : /\ run'[x].uri = run[x].uri /\ run'[x].stage = run[x].stage
                         /\ run'[x].closedText = run[x].closedText
                         /\ run'[x].settings = IF run[x].settings = p THEN v ELSE run[x].settings
      BY <2>1 DEF Settled
    <2>4. \A x \in Run : run[x].stage # "idle" => run[x].settings \in Promise
      BY <2>2, AllAwait
    <2>5. ASSUME NEW a \in Run, NEW x \in Run, run[a].stage # "idle", run[x].stage # "idle",
                 \/ run'[a].settings = run'[x].settings
                 \/ run'[a].settings \notin Promise /\ run'[x].settings \notin Promise
          PROVE  run[a].settings = run[x].settings
      BY <2>2, <2>3, <2>4, <2>5
    <2>6. ASSUME NEW a \in Run, NEW x \in Run, run[a].stage # "idle", run[x].stage # "idle",
                 run[a].uri = run[x].uri, NEW q \in Promise, run'[x].settings = q,
                 \/ run'[a].settings \notin Promise
                 \/ \E b \in Promise : run'[a].settings = b /\ Before(b, q)'
          PROVE  ReadsNoNewer(a, x)
      <3>1. run[x].settings = q /\ q # p
        BY <2>2, <2>3, <2>6
      <3>2. PICK b \in Promise : run[a].settings = b
        BY <2>4, <2>6
      <3>3. Before(b, q)
        <4>1. CASE b = p
          <5>1. PromiseInUse(q)
            BY <1>0, <2>6, <3>1 DEF PromisesInLine
          <5>2. QED
            BY <2>1, <3>1, <4>1, <5>1 DEF Settled
        <4>2. CASE b # p
          <5>1. run'[a].settings = b
            BY <2>3, <3>2, <4>2
          <5>2. QED
            BY <2>1, <2>6, <5>1 DEF Settled
        <4>3. QED
          BY <4>1, <4>2
      <3>4. QED
        BY <1>0, <2>6, <3>1, <3>2, <3>3 DEF RunsInOrder
    <2>7. QED
      BY <1>0, <2>3, <2>5, <2>6 DEF RunsInOrder, ReadsNoNewer
  <1>6. QED
    BY <1>1, <1>2, <1>3, <1>4, <1>5, Steps

\* A text is only changed by the content that is received.
LEMMA TextsNext ==
  ASSUME TypeInv, QueueInv, PromisesInLine, [Next]_vars, NEW x \in Run, run'[x].stage # "idle"
  PROVE  \/ /\ run[x].stage # "idle" /\ run'[x].uri = run[x].uri
            /\ TextOf(x)' = TextOf(x)
         \/ /\ DidChangeContent /\ run'[x].uri = Head(inbox).uri
            /\ TextOf(x)' = Head(inbox).version /\ run'[x].closedText = None
  <1> USE DEF TypeInv
  <1>1. CASE QuietStep \/ DidChangeConfiguration
    BY <1>1 DEF QuietStep, DidChangeConfiguration, TextOf
  <1>2. CASE DidClose
    <2>1. PICK w \in Uri : Closed(w)
      BY <1>2, ClosedDocument
    <2>2. run[x].stage # "idle" /\ run'[x].uri = run[x].uri
      BY <2>1 DEF Closed
    <2>3. CASE run[x].uri = w /\ run[x].closedText = None
      <3>1. document[w] # None /\ run'[x].closedText = document[w]
        BY <2>1, <2>2, <2>3 DEF Closed, RunsHaveText
      <3>2. QED
        BY <2>2, <2>3, <3>1 DEF TextOf
    <2>4. CASE ~(run[x].uri = w /\ run[x].closedText = None)
      <3>1. run'[x].closedText = run[x].closedText
        BY <2>1, <2>4 DEF Closed
      <3>2. run[x].closedText = None => document'[run[x].uri] = document[run[x].uri]
        BY <2>1, <2>2, <2>4, TextsAreVersions DEF Closed
      <3>3. QED
        BY <2>2, <3>1, <3>2 DEF TextOf
    <2>5. QED
      BY <2>3, <2>4
  <1>3. CASE Microtask
    <2>1. PICK r \in Run : Continued(r)
      BY <1>3, ContinuedRun
    <2>2. /\ run[x].stage # "idle" /\ run'[x].uri = run[x].uri
          /\ run'[x].closedText = run[x].closedText /\ document' = document
      BY <2>1 DEF Continued
    <2>3. QED
      BY <2>2 DEF TextOf
  <1>4. CASE DidChangeContent
    <2>1. PICK u \in Uri, n \in Nat, r \in Run, s \in Promise \cup Outcome :
            u = Head(inbox).uri /\ n = Head(inbox).version /\ Started(u, n, r, s)
      BY <1>4, StartedRun
    <2>2. CASE x = r
      BY <1>4, <2>1, <2>2 DEF Started, TextOf
    <2>3. CASE x # r
      <3>1. run'[x] = run[x] /\ run[x].stage # "idle" /\ run[x].uri \in Uri
        BY <2>1, <2>3, TextsAreVersions DEF Started
      <3>2. CASE run[x].uri = u /\ run[x].closedText = None
        BY <1>4, <2>1, <3>1, <3>2 DEF Started, TextOf
      <3>3. CASE run[x].uri # u \/ run[x].closedText # None
        BY <2>1, <3>1, <3>3 DEF Started, TextOf
      <3>4. QED
        BY <3>2, <3>3
    <2>4. QED
      BY <2>2, <2>3
  <1>5. CASE SettingsSettled
    <2>1. PICK p \in Promise, v \in Outcome : Settled(p, v)
      BY <1>5, SettledPromise DEF PromisesInLine
    <2>2. QED
      BY <2>1 DEF Settled, TextOf
  <1>6. QED
    BY <1>1, <1>2, <1>3, <1>4, <1>5, Steps

\* What an analysis is replaced by: an analysis of a running validation's text,
\* an undefined entry, or, when there is none, the file on disk.
LEMMA AnalysesNext ==
  ASSUME TypeInv, QueueInv, OrderInv, [Next]_vars, NEW u \in Uri
  PROVE  \/ DocumentManager'[u] = DocumentManager[u]
         \/ Microtask /\ DocumentManager[u] = Absent /\ DocumentManager'[u] \in {0, Pending}
         \/ Microtask /\ DocumentManager'[u] = Pending
         \/ Microtask /\ \E r \in Run : /\ Continued(r) /\ Active(r, u) /\ run[r].stage = "parsed"
                                        /\ DocumentManager'[u] = TextOf(r)
  <1>1. CASE Microtask
    <2>1. PICK r \in Run : Continued(r)
      BY <1>1, ContinuedRun
    <2>2. CASE u # run[r].uri
      BY <1>1, <2>1, <2>2 DEF Continued
    <2>3. CASE u = run[r].uri
      <3>1. Active(r, u)
        BY <2>1, <2>3 DEF Continued, Active
      <3>2. run[r].stage = "parsed" => run[r].parsed = TextOf(r)
        BY <3>1 DEF OrderInv, AnalysesInOrder
      <3>3. QED
        BY <1>1, <2>1, <2>3, <3>1, <3>2 DEF Continued
    <2>4. QED
      BY <2>2, <2>3
  <1>2. CASE ~Microtask
    <2>1. DocumentManager' = DocumentManager
      BY <1>2, Steps DEF QuietStep, DidChangeContent, DidClose, DidChangeConfiguration,
           SettingsSettled
    <2>2. QED
      BY <2>1
  <1>3. QED
    BY <1>1, <1>2

\* What the document of a uri is replaced by.
LEMMA DocumentsNext ==
  ASSUME TypeInv, [Next]_vars, QueueInv, NEW u \in Uri
  PROVE  \/ document'[u] = document[u]
         \/ document'[u] = None
         \/ DidChangeContent /\ u = Head(inbox).uri /\ document'[u] = Head(inbox).version
  <1>1. CASE DidChangeContent
    <2>1. PICK w \in Uri, n \in Nat, r \in Run, s \in Promise \cup Outcome :
            w = Head(inbox).uri /\ n = Head(inbox).version /\ Started(w, n, r, s)
      BY <1>1, StartedRun
    <2>2. QED
      BY <1>1, <2>1 DEF Started
  <1>2. CASE DidClose
    <2>1. PICK w \in Uri : Closed(w)
      BY <1>2, ClosedDocument
    <2>2. QED
      BY <2>1 DEF Closed
  <1>3. CASE ~DidChangeContent /\ ~DidClose
    <2>1. document' = document
      BY <1>3, Steps DEF QuietStep, DidChangeConfiguration, SettingsSettled, Microtask,
           Parse, ParseThrows, SettingsRejected, StoreAnalysis
    <2>2. QED
      BY <2>1
  <1>4. QED
    BY <1>1, <1>2, <1>3

LEMMA HeldIsOlderNext ==
  ASSUME TypeInv, QueueInv, OrderInv, [Next]_vars
  PROVE  HeldIsOlder'
  <1> USE DEF TypeInv
  <1>0. ContentsInOrder /\ HeldIsOlder /\ AnalysesInOrder /\ PromisesInLine
    BY DEF OrderInv
  <1>1. None \notin Nat /\ Absent \notin Nat /\ Pending \notin Nat
    BY MarkersAssumption
  <1>2. ASSUME NEW u \in Uri, NEW n \in Nat, DidChangeContent, u = Head(inbox).uri,
               n = Head(inbox).version
        PROVE  1 <= n /\ Below(n, u)'
    BY <1>0, <1>2, ReceivedIsBelow
  <1>3. ASSUME NEW u \in Uri, NEW n \in Nat, NEW r \in Run, Active(r, u), TextOf(r) = n
        PROVE  1 <= n /\ Below(n, u)
    <2>1. document[u] = n \/ run[r].closedText = n
      BY <1>3 DEF Active, TextOf
    <2>2. QED
      BY <1>0, <1>3, <2>1 DEF HeldIsOlder
  <1>4. ASSUME NEW u \in Uri, NEW n \in Nat, document'[u] = n
        PROVE  1 <= n /\ Below(n, u)'
    <2>1. CASE document[u] = n
      BY <1>0, <2>1, BelowNext DEF HeldIsOlder
    <2>2. CASE DidChangeContent /\ u = Head(inbox).uri /\ document'[u] = Head(inbox).version
      BY <1>2, <1>4, <2>2
    <2>3. QED
      BY <1>1, <1>4, <2>1, <2>2, DocumentsNext
  <1>5. ASSUME NEW u \in Uri, NEW n \in Nat, DocumentManager'[u] = n
        PROVE  Below(n, u)'
    <2>1. CASE DocumentManager[u] = n
      BY <1>0, <2>1, BelowNext DEF HeldIsOlder
    <2>2. CASE n = 0
      BY <1>0, <2>2, DiskIsBelow, BelowNext
    <2>3. CASE \E r \in Run : Active(r, u) /\ TextOf(r) = n
      BY <1>3, <2>3, BelowNext
    <2>4. QED
      BY <1>1, <1>5, <2>1, <2>2, <2>3, AnalysesNext
  <1>6. ASSUME NEW u \in Uri, NEW n \in Nat, NEW r \in Run, Active(r, u)', run'[r].closedText = n
        PROVE  1 <= n /\ Below(n, u)'
    <2>1. run'[r].stage # "idle" /\ run'[r].uri = u /\ run'[r].closedText # None
      BY <1>1, <1>6 DEF Active
    <2>2. run[r].stage # "idle" /\ run'[r].uri = run[r].uri /\ TextOf(r)' = TextOf(r)
      BY <1>0, <2>1, TextsNext
    <2>3. TextOf(r)' = n
      BY <1>6, <2>1 DEF TextOf
    <2>4. QED
      BY <1>3, <2>1, <2>2, <2>3, BelowNext DEF Active
  <1>7. QED
    BY <1>4, <1>5, <1>6 DEF HeldIsOlder

\* Of two running validations of a document, what the one that ends next reads is
\* not newer than what the other one will store.
LEMMA EarlierReadsNoNewer ==
  ASSUME TypeInv, QueueInv, OrderInv, NEW u, NEW r \in Run, NEW x \in Run,
         Active(r, u), Active(x, u), run[r].settings \notin Promise
  PROVE  TextOf(r) <= TextOf(x)
  <1>1. /\ TextOf(r) \in Nat /\ TextOf(x) \in Nat
        /\ run[r].closedText = None => TextOf(r) = document[u]
        /\ run[r].closedText # None => TextOf(r) = run[r].closedText
        /\ run[x].closedText = None => TextOf(x) = document[u]
        /\ run[x].closedText # None => TextOf(x) = run[x].closedText
        /\ u \in Uri
    BY TextsAreVersions DEF Active
  <1>2. CASE run[x].settings \notin Promise
    BY <1>1, <1>2 DEF OrderInv, RunsInOrder, Active
  <1>3. CASE run[x].settings \in Promise
    <2>1. ReadsNoNewer(r, x)
      BY <1>3 DEF OrderInv, RunsInOrder, Active
    <2>2. CASE run[x].closedText = None
      BY <1>1, <2>2, MarkersAssumption DEF OrderInv, AnalysesInOrder
    <2>3. CASE run[x].closedText # None
      BY <1>1, <2>1, <2>3 DEF ReadsNoNewer
    <2>4. QED
      BY <2>2, <2>3
  <1>4. QED
    BY <1>2, <1>3

LEMMA AnalysesInOrderNext ==
  ASSUME TypeInv, QueueInv, OrderInv, [Next]_vars
  PROVE  AnalysesInOrder'
  <1> USE DEF TypeInv
  <1>0. ContentsInOrder /\ HeldIsOlder /\ AnalysesInOrder /\ PromisesInLine
    BY DEF OrderInv
  <1>1. None \notin Nat /\ Absent \notin Nat /\ Pending \notin Nat
    BY MarkersAssumption
  <1>2. \A u \in Uri : document[u] # None => document[u] \in Nat
    BY DEF TypeOK
  <1>3. ASSUME NEW u \in Uri, NEW n \in Nat, DidChangeContent, u = Head(inbox).uri,
               n = Head(inbox).version
        PROVE  /\ document[u] # None => document[u] <= n
               /\ DocumentManager[u] \in Nat => DocumentManager[u] <= n
               /\ \A r \in Run : Active(r, u) => TextOf(r) <= n
    <2>1. \A m \in Nat : Below(m, u) => m < n
      BY <1>0, <1>3, ReceivedIsBelow DEF Below, ContentAt
    <2>2. document[u] # None => document[u] <= n
      BY <1>0, <1>2, <2>1 DEF HeldIsOlder
    <2>3. DocumentManager[u] \in Nat => DocumentManager[u] <= n
      BY <1>0, <2>1 DEF HeldIsOlder
    <2>4. ASSUME NEW r \in Run, Active(r, u)
          PROVE  TextOf(r) <= n
      BY <1>0, <2>1, <2>4, TextsAreVersions DEF HeldIsOlder, Active
    <2>5. QED
      BY <2>2, <2>3, <2>4
  <1>4. ASSUME NEW u \in Uri, document'[u] # None, DocumentManager'[u] \in Nat
        PROVE  DocumentManager'[u] <= document'[u]
    <2>1. CASE Microtask
      <3>1. document'[u] = document[u] /\ document[u] \in Nat
        BY <1>2, <1>4, <2>1, ContinuedRun DEF Continued
      <3>2. QED
        BY <1>0, <1>1, <1>4, <3>1, AnalysesNext DEF AnalysesInOrder
    <2>2. CASE ~Microtask
      <3>1. DocumentManager'[u] = DocumentManager[u]
        BY <2>2, AnalysesNext
      <3>2. CASE document'[u] = document[u]
        BY <1>0, <1>4, <3>1, <3>2 DEF AnalysesInOrder
      <3>3. CASE DidChangeContent /\ u = Head(inbox).uri /\ document'[u] = Head(inbox).version
        <4>1. Head(inbox).version \in Nat
          BY <3>3, ReceiveType, MessageFields DEF DidChangeContent
        <4>2. QED
          BY <1>3, <1>4, <3>1, <3>3, <4>1
      <3>4. QED
        BY <1>4, <3>2, <3>3, DocumentsNext
    <2>3. QED
      BY <2>1, <2>2
  <1>5. ASSUME NEW u \in Uri, NEW r \in Run, Active(r, u)', DocumentManager'[u] \in Nat
        PROVE  DocumentManager'[u] <= TextOf(r)'
    <2>0. run'[r].stage # "idle" /\ run'[r].uri = u
      BY <1>5 DEF Active
    <2>1. CASE DidChangeContent /\ u = Head(inbox).uri /\ TextOf(r)' = Head(inbox).version
      <3>1. Head(inbox).version \in Nat
        BY <2>1, ReceiveType, MessageFields DEF DidChangeContent
      <3>2. DocumentManager'[u] = DocumentManager[u]
        BY <2>1 DEF DidChangeContent
      <3>3. QED
        BY <1>3, <1>5, <2>1, <3>1, <3>2
    <2>2. CASE Active(r, u) /\ TextOf(r)' = TextOf(r)
      <3>0. TextOf(r) \in Nat
        BY <2>2, TextsAreVersions DEF Active
      <3>1. CASE DocumentManager'[u] \in {DocumentManager[u], 0, Pending}
        BY <1>0, <1>1, <1>5, <2>2, <3>0, <3>1 DEF AnalysesInOrder
      <3>2. CASE \E x \in Run : Continued(x) /\ Active(x, u) /\ DocumentManager'[u] = TextOf(x)
        <4>1. PICK x \in Run : Continued(x) /\ Active(x, u) /\ DocumentManager'[u] = TextOf(x)
          BY <3>2
        <4>2. TextOf(x) <= TextOf(r)
          BY <2>2, <4>1, EarlierReadsNoNewer DEF Continued
        <4>3. QED
          BY <2>2, <4>1, <4>2
      <3>3. QED
        BY <3>1, <3>2, AnalysesNext
    <2>3. QED
      BY <1>0, <2>0, <2>1, <2>2, TextsNext DEF Active
  <1>6. ASSUME NEW u \in Uri, NEW r \in Run, Active(r, u)', document'[u] # None
        PROVE  TextOf(r)' <= document'[u]
    <2>0. run'[r].stage # "idle" /\ run'[r].uri = u
      BY <1>6 DEF Active
    <2>1. CASE DidChangeContent /\ u = Head(inbox).uri
      <3>1. PICK n \in Nat : n = Head(inbox).version
        BY <2>1, ReceiveType, MessageFields DEF DidChangeContent
      <3>2. document'[u] = n
        BY <2>1, <3>1, ReceiveType, MessageFields DEF DidChangeContent, TypeOK
      <3>3. TextOf(r)' = n \/ (Active(r, u) /\ TextOf(r)' = TextOf(r))
        BY <1>0, <2>0, <3>1, TextsNext DEF Active
      <3>4. QED
        BY <1>3, <2>1, <3>1, <3>2, <3>3
    <2>2. CASE ~(DidChangeContent /\ u = Head(inbox).uri)
      <3>1. Active(r, u) /\ TextOf(r)' = TextOf(r)
        BY <1>0, <2>0, <2>2, TextsNext DEF Active
      <3>2. document'[u] = document[u]
        BY <1>6, <2>2, DocumentsNext
      <3>3. QED
        BY <1>0, <1>6, <3>1, <3>2 DEF AnalysesInOrder
    <2>3. QED
      BY <2>1, <2>2
  <1>7. ASSUME NEW u \in Uri, NEW r \in Run, Active(r, u)', run'[r].stage = "parsed"
        PROVE  run'[r].parsed = TextOf(r)'
    <2>0. run'[r].stage # "idle" /\ run'[r].uri = u
      BY <1>7 DEF Active
    <2>1. CASE Microtask
      <3>1. PICK x \in Run : Continued(x)
        BY <2>1, ContinuedRun
      <3>2. Active(r, u) /\ TextOf(r)' = TextOf(r)
        BY <1>0, <2>0, <2>1, TextsNext
           DEF Active, Microtask, Parse, ParseThrows, SettingsRejected, StoreAnalysis,
               DidChangeContent, Receive
      <3>3. CASE r = x
        BY <1>7, <3>1, <3>2, <3>3 DEF Continued
      <3>4. CASE r # x
        BY <1>0, <1>7, <3>1, <3>2, <3>4 DEF Continued, AnalysesInOrder
      <3>5. QED
        BY <3>3, <3>4
    <2>2. CASE QuietStep
      BY <1>0, <1>7, <2>2 DEF QuietStep, AnalysesInOrder, Active, TextOf
    <2>3. CASE DidChangeContent
      <3>1. PICK w \in Uri, n \in Nat, x \in Run, s \in Promise \cup Outcome : Started(w, n, x, s)
        BY <2>3, StartedRun
      <3>2. r # x /\ run[r].stage = "parsed"
        BY <1>7, <3>1 DEF Started
      <3>3. QED
        BY <2>3, <3>2, AllAwait DEF DidChangeContent, Receive
    <2>4. CASE DidClose
      <3>1. run[r].stage = "parsed"
        BY <1>7, <2>4, ClosedDocument DEF Closed
      <3>2. QED
        BY <2>4, <3>1, AllAwait DEF DidClose, Receive
    <2>5. CASE DidChangeConfiguration
      BY <1>7, <2>5, AllAwait DEF DidChangeConfiguration, Receive
    <2>6. CASE SettingsSettled
      <3>1. run[r].stage = "parsed"
        BY <1>0, <1>7, <2>6, SettledPromise DEF Settled, PromisesInLine
      <3>2. QED
        BY <2>6, <3>1, AllAwait DEF SettingsSettled, Receive
    <2>7. QED
      BY <2>1, <2>2, <2>3, <2>4, <2>5, <2>6, Steps
  <1>8. QED
    BY <1>4, <1>5, <1>6, <1>7 DEF AnalysesInOrder

LEMMA OrderInvInit == Init => OrderInv
  <1> SUFFICES ASSUME Init
               PROVE  OrderInv
    OBVIOUS
  <1>1. None \notin Nat /\ None \notin Promise /\ None \notin Outcome /\ Absent \notin Nat
    BY MarkersAssumption DEF Outcome
  <1>2. ContentsInOrder
    BY DEF Init, ContentsInOrder, ContentAt
  <1>3. HeldIsOlder
    BY <1>1 DEF Init, HeldIsOlder, Active, Idle
  <1>4. PromisesInLine
    BY <1>1 DEF Init, PromisesInLine, Active, Idle, Before, AskedAt, ReplyAt
  <1>5. RunsInOrder
    BY DEF Init, RunsInOrder, Idle
  <1>6. AnalysesInOrder
    <2>1. \A r \in Run, u \in Uri : ~Active(r, u)
      BY DEF Init, Active, Idle
    <2>2. \A u \in Uri : document[u] = None
      BY DEF Init
    <2>3. QED
      BY <2>1, <2>2 DEF AnalysesInOrder
  <1>7. QED
    BY <1>2, <1>3, <1>4, <1>5, <1>6 DEF OrderInv

LEMMA OrderInvNext ==
  ASSUME TypeInv, QueueInv, OrderInv, [Next]_vars
  PROVE  OrderInv'
  BY ContentsInOrderNext, HeldIsOlderNext, PromisesInLineNext, RunsInOrderNext,
     AnalysesInOrderNext DEF OrderInv

-----------------------------------------------------------------------------
(* The server implements AnalysisStore. *)

\* What a reader of the store sees of u.
StoredOf ==
  \A u \in Uri :
    /\ DocumentManager[u] # Pending => StoredAnalysis[u] = DocumentManager[u]
    /\ (\A r \in Run : ~(Active(r, u) /\ run[r].stage = "parsed"))
         => StoredAnalysis[u] = DocumentManager[u]
    /\ \A r \in Run : Active(r, u) /\ run[r].stage = "parsed" /\ DocumentManager[u] = Pending
         => StoredAnalysis[u] = TextOf(r)

LEMMA StoredIs == TypeInv /\ QueueInv /\ OrderInv => StoredOf
  <1> SUFFICES ASSUME TypeInv, QueueInv, OrderInv, NEW u \in Uri
               PROVE  /\ DocumentManager[u] # Pending => StoredAnalysis[u] = DocumentManager[u]
                      /\ (\A r \in Run : ~(Active(r, u) /\ run[r].stage = "parsed"))
                           => StoredAnalysis[u] = DocumentManager[u]
                      /\ \A r \in Run : /\ Active(r, u) /\ run[r].stage = "parsed"
                                        /\ DocumentManager[u] = Pending
                           => StoredAnalysis[u] = TextOf(r)
    BY DEF StoredOf
  <1>1. StoredAnalysis[u] = IF DocumentManager[u] = Pending /\ Storing(u) # {}
                            THEN run[CHOOSE r \in Storing(u) : TRUE].parsed
                            ELSE DocumentManager[u]
    BY DEF StoredAnalysis
  <1>2. Storing(u) = {r \in Run : Active(r, u) /\ run[r].stage = "parsed"}
    BY DEF Storing, Active
  <1>3. ASSUME NEW r \in Run, Active(r, u), run[r].stage = "parsed", DocumentManager[u] = Pending
        PROVE  StoredAnalysis[u] = TextOf(r)
    <2>1. PICK x \in Storing(u) : x = CHOOSE y \in Storing(u) : TRUE
      BY <1>2, <1>3
    <2>2. x \in Run /\ Active(x, u) /\ run[x].stage = "parsed" /\ run[x].parsed = TextOf(x)
      BY <1>2, <2>1 DEF OrderInv, AnalysesInOrder
    <2>3. run[r].settings \notin Promise /\ run[x].settings \notin Promise
      BY <1>3, <2>2, MarkersAssumption DEF QueueInv, RunsHaveSettings
    <2>4. TextOf(r) <= TextOf(x) /\ TextOf(x) <= TextOf(r)
      BY <1>3, <2>2, <2>3, EarlierReadsNoNewer
    <2>5. TextOf(r) \in Nat /\ TextOf(x) \in Nat
      BY <1>3, <2>2, TextsAreVersions DEF Active
    <2>6. StoredAnalysis[u] = run[x].parsed
      BY <1>1, <1>3, <2>1
    <2>7. QED
      BY <2>2, <2>4, <2>5, <2>6
  <1>4. QED
    BY <1>1, <1>2, <1>3

\* Analyses that a step does not change, seen by a reader.
LEMMA StoredUnchanged ==
  ASSUME UNCHANGED DocumentManager,
         \A u \in Uri, r \in Run :
           (r \in Storing(u)') <=> (r \in Storing(u)),
         \A u \in Uri, r \in Run : r \in Storing(u) => run'[r].parsed = run[r].parsed
  PROVE  UNCHANGED StoredAnalysis
  <1>1. ASSUME NEW u \in Uri
        PROVE  Storing(u)' = Storing(u)
    BY DEF Storing
  <1>2. ASSUME NEW u \in Uri, Storing(u) # {}
        PROVE  run'[CHOOSE r \in Storing(u)' : TRUE].parsed = run[CHOOSE r \in Storing(u) : TRUE].parsed
    <2>1. PICK x : x = CHOOSE r \in Storing(u) : TRUE
      OBVIOUS
    <2>2. x \in Storing(u) /\ x \in Run
      BY <1>2, <2>1 DEF Storing
    <2>3. x = CHOOSE r \in Storing(u)' : TRUE
      BY <1>1, <2>1
    <2>4. QED
      BY <2>1, <2>2, <2>3
  <1>3. ASSUME NEW u \in Uri
        PROVE  (IF DocumentManager'[u] = Pending /\ Storing(u)' # {}
                THEN run'[CHOOSE r \in Storing(u)' : TRUE].parsed ELSE DocumentManager'[u])
               = (IF DocumentManager[u] = Pending /\ Storing(u) # {}
                  THEN run[CHOOSE r \in Storing(u) : TRUE].parsed ELSE DocumentManager[u])
    BY <1>1, <1>2
  <1>4. QED
    BY <1>3 DEF StoredAnalysis

\* All continuations that are ready are of one document, the one of the
\* continuation that runs.
LEMMA OthersStoreNothing ==
  ASSUME TypeInv, QueueInv, OrderInv, NEW r \in Run, run[r].stage # "idle",
         run[r].settings \notin Promise, NEW x \in Run, run[x].stage = "parsed"
  PROVE  run[x].uri = run[r].uri
  <1>1. run[x].settings \notin Promise
    BY MarkersAssumption DEF QueueInv, RunsHaveSettings
  <1>2. QED
    BY <1>1 DEF OrderInv, RunsInOrder

\* A continuation that parses or stores is an analysis of a content, or a failed
\* one; the imports on the way go to documents of which nothing was known.
LEMMA MicrotaskAnalyses ==
  ASSUME TypeInv, QueueInv, OrderInv, [Next]_vars, StoredOf, StoredOf', Microtask
  PROVE  [Store!Next]_(Store!storeVars)
  <1> USE DEF TypeInv
  <1>0. /\ QueueInv' /\ OrderInv' /\ PromisesInLine /\ TypeInv'
    BY QueueInvNext, OrderInvNext, TypeInvNext DEF OrderInv
  <1>1. PICK r \in Run : Continued(r)
    BY ContinuedRun
  <1>2. PICK u \in Uri : u = run[r].uri
    BY <1>1 DEF Continued
  <1>3. PICK n \in Nat : n = TextOf(r)
    BY <1>1, TextsAreVersions DEF Continued
  <1>4. Active(r, u) /\ run[r].settings \notin Promise
    BY <1>1, <1>2 DEF Continued, Active
  <1>5. version' = version /\ document' = document
    BY <1>1 DEF Continued
  <1>6. n \in 1 .. version[u]
    <2>1. document[u] = n \/ run[r].closedText = n
      BY <1>3, <1>4 DEF Active, TextOf
    <2>2. 1 <= n /\ Below(n, u)
      BY <1>4, <2>1 DEF OrderInv, HeldIsOlder
    <2>3. QED
      BY <2>2 DEF Below, TypeOK
  <1>7. StoredAnalysis[u] \in Nat => n >= StoredAnalysis[u]
    <2>1. CASE DocumentManager[u] # Pending
      BY <1>3, <1>4, <2>1 DEF StoredOf, OrderInv, AnalysesInOrder
    <2>2. CASE \E x \in Run : Active(x, u) /\ run[x].stage = "parsed" /\ DocumentManager[u] = Pending
      <3>1. PICK x \in Run : Active(x, u) /\ run[x].stage = "parsed" /\ DocumentManager[u] = Pending
        BY <2>2
      <3>2. StoredAnalysis[u] = TextOf(x)
        BY <3>1 DEF StoredOf
      <3>3. run[x].settings \notin Promise
        BY <3>1, MarkersAssumption DEF QueueInv, RunsHaveSettings
      <3>4. TextOf(x) <= TextOf(r)
        BY <1>4, <3>1, <3>3, EarlierReadsNoNewer
      <3>5. QED
        BY <1>3, <3>1, <3>2, <3>4, TextsAreVersions DEF Active
    <2>3. CASE DocumentManager[u] = Pending
               /\ \A x \in Run : ~(Active(x, u) /\ run[x].stage = "parsed")
      BY <2>3, MarkersAssumption DEF StoredOf
    <2>4. QED
      BY <2>1, <2>2, <2>3
  <1>8. \A w \in Uri \ {u}, x \in Run :
          /\ ~(Active(x, w) /\ run[x].stage = "parsed")
          /\ ~(Active(x, w)' /\ run'[x].stage = "parsed")
    <2>1. \A x \in Run : run[x].stage = "parsed" => run[x].uri = u
      BY <1>1, <1>2, OthersStoreNothing DEF Continued
    <2>2. \A x \in Run : run'[x].stage = "parsed" => run'[x].uri = u
      BY <1>1, <1>2, <2>1 DEF Continued
    <2>3. QED
      BY <2>1, <2>2 DEF Active
  <1>9. \A w \in Uri \ {u} :
          /\ StoredAnalysis[w] = DocumentManager[w]
          /\ StoredAnalysis'[w] = DocumentManager'[w]
    BY <1>8 DEF StoredOf
  <1>10. \A w \in Uri \ {u} : \/ StoredAnalysis'[w] = StoredAnalysis[w]
                              \/ StoredAnalysis[w] = Absent /\ StoredAnalysis'[w] \in {0, Pending}
    BY <1>1, <1>2, <1>9 DEF Continued
  <1>11. ASSUME NEW result, StoredAnalysis'[u] = result, result = Pending \/ result = n
         PROVE  Store!Next
    <2> DEFINE imported == {w \in Uri \ {u} : StoredAnalysis[w] = Absent
                                              /\ StoredAnalysis'[w] # Absent}
               failed == {w \in imported : StoredAnalysis'[w] = Pending}
    <2>1. imported \in SUBSET {w \in Uri \ {u} : StoredAnalysis[w] = Absent}
          /\ failed \in SUBSET imported
      OBVIOUS
    <2>2. StoredAnalysis' = [w \in Uri |-> StoredAnalysis'[w]]
      BY DEF StoredAnalysis
    <2>3. ASSUME NEW w \in Uri
          PROVE  StoredAnalysis'[w] = IF w = u THEN result
                                      ELSE IF w \in failed THEN Pending
                                      ELSE IF w \in imported THEN 0
                                      ELSE StoredAnalysis[w]
      BY <1>10, <1>11, MarkersAssumption
    <2> HIDE DEF imported, failed
    <2>4. StoredAnalysis' = [w \in Uri |-> IF w = u THEN result
                                           ELSE IF w \in failed THEN Pending
                                           ELSE IF w \in imported THEN 0
                                           ELSE StoredAnalysis[w]]
      BY <2>2, <2>3
    <2>5. result = Pending \/ Store!NotOlder(result, StoredAnalysis[u])
      BY <1>7, <1>11 DEF Store!NotOlder
    <2>6. Store!Analyse(u, result)
      BY <1>5, <2>1, <2>4, <2>5 DEF Store!Analyse
    <2>7. QED
      BY <1>6, <1>11, <2>6 DEF Store!Next
  <1>12. CASE DocumentManager' = DocumentManager /\ run[r].stage = "settings"
              /\ run'[r].stage = "idle"
    <2>1. UNCHANGED StoredAnalysis
      BY <1>1, <1>12, StoredUnchanged DEF Continued, Storing
    <2>2. QED
      BY <1>5, <2>1 DEF Store!storeVars
  <1>13. CASE DocumentManager'[u] = n
    <2>1. StoredAnalysis'[u] = n
      BY <1>13, MarkersAssumption DEF StoredOf
    <2>2. QED
      BY <1>11, <2>1
  <1>14. CASE DocumentManager'[u] = Pending
    <2>1. CASE \E x \in Run : Active(x, u)' /\ run'[x].stage = "parsed"
      <3>1. PICK x \in Run : Active(x, u)' /\ run'[x].stage = "parsed"
        BY <2>1
      <3>2. StoredAnalysis'[u] = TextOf(x)'
        BY <1>14, <3>1 DEF StoredOf
      <3>3. Active(x, u) /\ TextOf(x)' = TextOf(x) /\ run[x].settings \notin Promise
        <4>1. run'[x].stage # "idle" /\ run'[x].uri = u
          BY <3>1 DEF Active
        <4>2. Active(x, u) /\ TextOf(x)' = TextOf(x)
          BY <1>0, <4>1, TextsNext
             DEF Active, Microtask, Parse, ParseThrows, SettingsRejected, StoreAnalysis,
                 DidChangeContent, Receive
        <4>3. run[x].settings \notin Promise
          <5>1. CASE x = r
            BY <1>4, <5>1
          <5>2. CASE x # r
            <6>1. run[x].stage = "parsed"
              BY <1>1, <3>1, <5>2 DEF Continued
            <6>2. QED
              BY <6>1, MarkersAssumption DEF QueueInv, RunsHaveSettings
          <5>3. QED
            BY <5>1, <5>2
        <4>4. QED
          BY <4>2, <4>3
      <3>4. TextOf(x) <= TextOf(r) /\ TextOf(r) <= TextOf(x)
        BY <1>4, <3>3, EarlierReadsNoNewer
      <3>5. TextOf(x) \in Nat
        BY <3>3, TextsAreVersions DEF Active
      <3>6. TextOf(x) = n
        BY <1>3, <3>4, <3>5
      <3>7. QED
        BY <1>11, <3>2, <3>3, <3>6
    <2>2. CASE \A x \in Run : ~(Active(x, u)' /\ run'[x].stage = "parsed")
      <3>1. StoredAnalysis'[u] = Pending
        BY <1>14, <2>2 DEF StoredOf
      <3>2. QED
        BY <1>11, <3>1
    <2>3. QED
      BY <2>1, <2>2
  <1>15. run[r].stage = "parsed" => run[r].parsed = n
    BY <1>3, <1>4 DEF OrderInv, AnalysesInOrder
  <1>16. QED
    BY <1>1, <1>2, <1>12, <1>13, <1>14, <1>15 DEF Continued

\* No other step is seen by a reader, except that the editor gives a content.
LEMMA OtherStepsAreUnseen ==
  ASSUME TypeInv, QueueInv, OrderInv, [Next]_vars, ~Microtask
  PROVE  [Store!Next]_(Store!storeVars)
  <1> USE DEF TypeInv
  <1>1. UNCHANGED StoredAnalysis
    <2>1. CASE QuietStep \/ DidChangeConfiguration
      <3>1. run' = run /\ DocumentManager' = DocumentManager
        BY <2>1 DEF QuietStep, DidChangeConfiguration
      <3>2. QED
        BY <3>1 DEF StoredAnalysis, Storing
    <2>2. CASE DidChangeContent
      <3>1. PICK u \in Uri, n \in Nat, r \in Run, s \in Promise \cup Outcome : Started(u, n, r, s)
        BY <2>2, StartedRun
      <3>2. QED
        BY <3>1, StoredUnchanged DEF Started, Storing
    <2>3. CASE DidClose
      BY <2>3, ClosedDocument, StoredUnchanged DEF Closed, Storing
    <2>4. CASE SettingsSettled
      <3>1. PICK p \in Promise, v \in Outcome : Settled(p, v)
        BY <2>4, SettledPromise DEF OrderInv, PromisesInLine
      <3>2. QED
        BY <3>1, StoredUnchanged DEF Settled, Storing
    <2>5. QED
      BY <2>1, <2>2, <2>3, <2>4, Steps
  <1>2. CASE \E u \in Uri : GiveContent(u)
    <2>1. PICK u \in Uri : GiveContent(u)
      BY <1>2
    <2>2. version' = [version EXCEPT ![u] = version[u] + 1]
      BY <2>1 DEF GiveContent
    <2>3. Store!Give(u)
      BY <1>1, <2>2 DEF Store!Give
    <2>4. QED
      BY <2>3 DEF Store!Next
  <1>3. CASE version' = version
    BY <1>1, <1>3 DEF Store!storeVars
  <1>4. QED
    BY <1>2, <1>3, InboxSteps

\* What feature requests read behaves as AnalysisStore promises, for any order of
\* notifications, answers, validations and faults: an analysis never gives way to
\* one of an older content, and only a failed parse takes it away
\* (validateTextDocument, server.ts:152-175; use_module, indexer.ts:246).
THEOREM ReadersSeeAStore == Spec => ImplementsStore
  <1>1. Init => Store!Init
    BY MarkersAssumption DEF Init, Store!Init, StoredAnalysis
  <1>2. TypeInv /\ QueueInv /\ OrderInv /\ StoredOf /\ StoredOf' /\ [Next]_vars
        => [Store!Next]_(Store!storeVars)
    BY MicrotaskAnalyses, OtherStepsAreUnseen
  <1>3. TypeInv /\ QueueInv /\ OrderInv /\ [Next]_vars => OrderInv' /\ QueueInv'
    BY OrderInvNext, QueueInvNext
  <1>4. QED
    BY <1>1, <1>2, <1>3, StoredIs, TypeInvInit, TypeInvNext, QueueInvInit, OrderInvInit, PTL
       DEF Spec, ImplementsStore, Store!Spec

-----------------------------------------------------------------------------
(* Contents are delivered. *)

LEMMA NothingRejectedNext ==
  ASSUME TypeInv, QueueInv, PromisesInLine, NothingRejected, [Next]_vars
  PROVE  NothingRejected'
  <1> USE DEF TypeInv
  <1> SUFFICES ASSUME "reject" \notin Faults
               PROVE  /\ \A i \in DOMAIN inbox' :
                           inbox'[i].type = "reply" => inbox'[i].value # "rejected"
                      /\ \A u \in Uri : documentSettings'[u] # "rejected"
                      /\ \A r \in Run : run'[r].settings # "rejected"
    BY DEF NothingRejected
  <1>0. /\ \A i \in DOMAIN inbox : inbox[i].type = "reply" => inbox[i].value # "rejected"
        /\ \A u \in Uri : documentSettings[u] # "rejected"
        /\ \A r \in Run : run[r].settings # "rejected"
    BY DEF NothingRejected
  <1>1. None # "rejected" /\ "rejected" \notin Promise
    BY MarkersAssumption
  <1>2. \A i \in DOMAIN inbox' : inbox'[i].type = "reply" => inbox'[i].value # "rejected"
    <2>1. ASSUME NEW m \in Message, Send(m), m.type = "reply" => m.value # "rejected",
                 NEW i \in DOMAIN inbox', inbox'[i].type = "reply"
          PROVE  inbox'[i].value # "rejected"
      <3>1. (i \in DOMAIN inbox /\ inbox'[i] = inbox[i]) \/ inbox'[i] = m
        BY <2>1, AfterSend
      <3>2. QED
        BY <1>0, <2>1, <3>1
    <2>2. ASSUME NEW type \in MessageTypes, Receive(type)
          PROVE  \A i \in DOMAIN inbox' : inbox'[i].type = "reply" => inbox'[i].value # "rejected"
      <3>1. \A i \in DOMAIN inbox' : inbox'[i] = inbox[i + 1] /\ i + 1 \in DOMAIN inbox
        BY <2>2, AfterReceive
      <3>2. QED
        BY <1>0, <3>1
    <2>3. CASE AnswerConfiguration
      <3>1. PICK v \in ClientAnswers :
              Send([type |-> "reply", promise |-> Head(asked), value |-> v])
        BY <2>3 DEF AnswerConfiguration
      <3> DEFINE m == [type |-> "reply", promise |-> Head(asked), value |-> v]
      <3>2. v \in {"true", "false"} /\ Head(asked) \in Promise
        BY <2>3 DEF AnswerConfiguration, ClientAnswers, TypeOK
      <3>3. m \in Message /\ m.value # "rejected" /\ Send(m)
        BY <3>1, <3>2 DEF Message, ReplyMessage, Outcome
      <3> HIDE DEF m
      <3>4. QED
        BY <2>1, <3>3
    <2>4. CASE ~AnswerConfiguration
      <3>1. \/ inbox' = inbox
            \/ \E m \in Message : Send(m) /\ m.type # "reply"
            \/ \E type \in MessageTypes : Receive(type)
        <4>1. ASSUME NEW u \in Uri, GiveContent(u) \/ CloseDocument(u)
              PROVE  \E m \in Message : Send(m) /\ m.type # "reply"
          <5>1. CASE GiveContent(u)
            <6> DEFINE m == [type |-> "content", uri |-> u, version |-> version[u] + 1]
            <6>1. m \in Message /\ m.type # "reply" /\ Send(m)
              BY <5>1 DEF GiveContent, Message, ContentMessage, TypeOK
            <6>2. QED
              BY <6>1
          <5>2. CASE CloseDocument(u)
            <6> DEFINE m == [type |-> "close", uri |-> u]
            <6>1. m \in Message /\ m.type # "reply" /\ Send(m)
              BY <5>2 DEF CloseDocument, Message, CloseMessage
            <6>2. QED
              BY <6>1
          <5>3. QED
            BY <4>1, <5>1, <5>2
        <4>2. CASE ChangeSetting
          <5> DEFINE m == [type |-> "config"]
          <5>1. m \in Message /\ m.type # "reply" /\ Send(m)
            BY <4>2 DEF ChangeSetting, Message, ConfigMessage
          <5>2. QED
            BY <5>1
        <4>3. ASSUME NEW q \in Request, NEW u \in Uri, SendRequest(q, u)
              PROVE  \E m \in Message : Send(m) /\ m.type # "reply"
          <5> DEFINE m == [type |-> "request", request |-> q]
          <5>1. m \in Message /\ m.type # "reply" /\ Send(m)
            BY <4>3 DEF SendRequest, Message, RequestMessage
          <5>2. QED
            BY <5>1
        <4>4. CASE Macrotask
          BY <4>4 DEF Macrotask, DidChangeContent, DidClose, DidChangeConfiguration,
               SettingsSettled, HandleRequest, MessageTypes
        <4>5. CASE Microtask \/ (\E q \in Request : PollAnswers(q)) \/ UNCHANGED vars
          BY <4>5 DEF Microtask, Parse, ParseThrows, SettingsRejected, StoreAnalysis,
               PollAnswers, vars
        <4>6. QED
          BY <2>4, <4>1, <4>2, <4>3, <4>4, <4>5 DEF Next
      <3>2. QED
        BY <1>0, <2>1, <2>2, <3>1
    <2>5. QED
      BY <2>3, <2>4
  <1>3. CASE SettingsSettled
    <2>1. PICK p \in Promise, v \in Outcome : v = Head(inbox).value /\ Settled(p, v)
      BY <1>3, SettledPromise DEF PromisesInLine
    <2>2. v # "rejected"
      BY <1>0, <1>3, <2>1, AfterReceive DEF SettingsSettled
    <2>3. QED
      BY <1>0, <1>2, <2>1, <2>2 DEF Settled
  <1>4. CASE DidChangeContent
    <2>1. PICK u \in Uri, n \in Nat, r \in Run, s \in Promise \cup Outcome : Started(u, n, r, s)
      BY <1>4, StartedRun
    <2>2. s # "rejected"
      BY <1>0, <1>1, <2>1 DEF Started
    <2>3. QED
      BY <1>0, <1>2, <2>1, <2>2 DEF Started
  <1>5. CASE DidClose
    BY <1>0, <1>1, <1>2, <1>5, ClosedDocument DEF Closed
  <1>6. CASE Microtask
    BY <1>0, <1>1, <1>2, <1>6, ContinuedRun DEF Continued
  <1>7. CASE QuietStep \/ DidChangeConfiguration
    BY <1>0, <1>1, <1>2, <1>7 DEF QuietStep, DidChangeConfiguration, SettingsAfterConfigChange
  <1>8. QED
    BY <1>3, <1>4, <1>5, <1>6, <1>7, Steps

\* A content that is received is delivered.
LEMMA ReceivedIsDelivered ==
  ASSUME TypeInv, DidChangeContent, NEW u, u = Head(inbox).uri,
         NEW v \in Nat, v <= Head(inbox).version
  PROVE  Delivered(u, v)'
  <1>1. PICK n \in Nat, r \in Run, s \in Promise \cup Outcome :
          n = Head(inbox).version /\ Started(u, n, r, s)
    BY StartedRun
  <1>2. Active(r, u)' /\ TextOf(r)' = n
    BY <1>1 DEF Started, Active, TextOf
  <1>3. QED
    BY <1>1, <1>2 DEF Delivered

\* Once delivered, a content stays delivered.
LEMMA DeliveredNext ==
  ASSUME TypeInv, QueueInv, OrderInv, NothingRejected, [Next]_vars, "reject" \notin Faults,
         NEW u \in Uri, NEW v \in Nat, Delivered(u, v),
         \A i \in DOMAIN inbox : ContentAt(i, u) => inbox[i].version >= v
  PROVE  Delivered(u, v)'
  <1> USE DEF TypeInv
  <1>0. PromisesInLine /\ AnalysesInOrder
    BY DEF OrderInv
  <1>1. CASE DidChangeContent /\ u = Head(inbox).uri
    <2>1. ContentAt(1, u) /\ 1 \in DOMAIN inbox /\ Head(inbox) = inbox[1]
      BY <1>1, AfterReceive DEF DidChangeContent, ContentAt
    <2>2. Head(inbox).version \in Nat
      BY <1>1, ReceiveType, MessageFields DEF DidChangeContent
    <2>3. v <= Head(inbox).version
      BY <2>1, <2>2
    <2>4. QED
      BY <1>1, <2>3, ReceivedIsDelivered
  <1>2. CASE ~(DidChangeContent /\ u = Head(inbox).uri) /\ ~Microtask
    <2>1. DocumentManager' = DocumentManager
      BY <1>2, Steps DEF QuietStep, DidChangeContent, DidClose, DidChangeConfiguration,
           SettingsSettled
    <2>2. ASSUME NEW x \in Run, Active(x, u)'
          PROVE  Active(x, u)
      BY <1>0, <1>2, <2>2, TextsNext DEF Active
    <2>3. ASSUME NEW x \in Run, Active(x, u)
          PROVE  Active(x, u)' /\ TextOf(x)' = TextOf(x)
      <3>1. Active(x, u)'
        <4>1. CASE QuietStep \/ DidChangeConfiguration
          BY <2>3, <4>1 DEF QuietStep, DidChangeConfiguration, Active
        <4>2. CASE DidClose
          BY <2>3, <4>2, ClosedDocument DEF Closed, Active
        <4>3. CASE SettingsSettled
          BY <1>0, <2>3, <4>3, SettledPromise DEF Settled, Active, PromisesInLine
        <4>4. CASE DidChangeContent
          BY <2>3, <4>4, StartedRun DEF Started, Active
        <4>5. QED
          BY <1>2, <4>1, <4>2, <4>3, <4>4, Steps
      <3>2. run'[x].stage # "idle" /\ run'[x].uri = u
        BY <3>1 DEF Active
      <3>3. QED
        BY <1>0, <1>2, <3>1, <3>2, TextsNext
    <2>4. QED
      BY <2>1, <2>2, <2>3 DEF Delivered
  <1>3. CASE Microtask
    <2>1. PICK r \in Run : Continued(r)
      BY <1>3, ContinuedRun
    <2>2. ASSUME NEW x \in Run, Active(x, u), run'[x].stage # "idle"
          PROVE  Active(x, u)' /\ TextOf(x)' = TextOf(x)
      <3>1. Active(x, u)'
        BY <2>1, <2>2 DEF Continued, Active
      <3>2. QED
        BY <2>1, <2>2, <3>1 DEF Continued, TextOf
    <2>3. \A x \in Run : Active(x, u) /\ x # r => Active(x, u)' /\ TextOf(x)' = TextOf(x)
      <3>1. ASSUME NEW x \in Run, Active(x, u), x # r
            PROVE  run'[x].stage # "idle"
        BY <2>1, <3>1 DEF Continued, Active
      <3>2. QED
        BY <2>2, <3>1
    <2>4. \A x \in Run : Active(x, u)' => Active(x, u)
      BY <2>1 DEF Continued, Active
    <2>5. CASE run[r].uri # u
      <3>1. \A x \in Run : Active(x, u) => x # r
        BY <2>5 DEF Active
      <3>2. \/ DocumentManager'[u] = DocumentManager[u]
            \/ DocumentManager[u] = Absent
        BY <2>1, <2>5 DEF Continued
      <3>3. CASE \E x \in Run : Active(x, u) /\ TextOf(x) >= v
        BY <2>3, <3>1, <3>3 DEF Delivered
      <3>4. CASE DocumentManager[u] \in Nat /\ DocumentManager[u] >= v
        BY <3>2, <3>4, MarkersAssumption DEF Delivered
      <3>5. CASE DocumentManager[u] = Pending /\ \A x \in Run : ~Active(x, u)
        BY <2>4, <3>2, <3>5, MarkersAssumption DEF Delivered
      <3>6. QED
        BY <3>3, <3>4, <3>5 DEF Delivered
    <2>6. CASE run[r].uri = u
      <3>1. Active(r, u) /\ TextOf(r) \in Nat
        BY <2>1, <2>6, TextsAreVersions DEF Continued, Active
      <3>2. CASE run'[r].stage # "idle"
        <4>1. \A x \in Run : Active(x, u) => Active(x, u)' /\ TextOf(x)' = TextOf(x)
          BY <2>2, <2>3, <3>2
        <4>2. \E x \in Run : Active(x, u) /\ TextOf(x) >= v
          <5>1. CASE DocumentManager[u] \in Nat /\ DocumentManager[u] >= v
            <6>1. DocumentManager[u] <= TextOf(r)
              BY <1>0, <3>1, <5>1 DEF AnalysesInOrder
            <6>2. QED
              BY <3>1, <5>1, <6>1
          <5>2. QED
            BY <3>1, <5>1 DEF Delivered
        <4>3. QED
          BY <4>1, <4>2 DEF Delivered
      <3>3. CASE run'[r].stage = "idle"
        <4>1. CASE \E x \in Run : x # r /\ Active(x, u)
          <5>1. PICK x \in Run : x # r /\ Active(x, u)
            BY <4>1
          <5>2. TextOf(r) <= TextOf(x) /\ TextOf(x) \in Nat
            BY <2>1, <3>1, <5>1, EarlierReadsNoNewer, TextsAreVersions DEF Continued, Active
          <5>3. \E y \in Run : y # r /\ Active(y, u) /\ TextOf(y) >= v
            <6>1. CASE \E y \in Run : Active(y, u) /\ TextOf(y) >= v
              <7>1. PICK y \in Run : Active(y, u) /\ TextOf(y) >= v
                BY <6>1
              <7>2. CASE y = r
                BY <3>1, <5>1, <5>2, <7>1, <7>2
              <7>3. CASE y # r
                BY <7>1, <7>3
              <7>4. QED
                BY <7>2, <7>3
            <6>2. CASE DocumentManager[u] \in Nat /\ DocumentManager[u] >= v
              <7>1. DocumentManager[u] <= TextOf(x)
                BY <1>0, <5>1, <6>2 DEF AnalysesInOrder
              <7>2. QED
                BY <5>1, <5>2, <6>2, <7>1
            <6>3. QED
              BY <3>1, <6>1, <6>2 DEF Delivered
          <5>4. QED
            BY <2>3, <5>3 DEF Delivered
        <4>2. CASE \A x \in Run : x # r => ~Active(x, u)
          <5>1. \A x \in Run : ~Active(x, u)'
            <6>1. ~Active(r, u)'
              BY <3>3 DEF Active
            <6>2. QED
              BY <2>4, <4>2, <6>1
          <5>2. CASE DocumentManager'[u] = Pending
            BY <5>1, <5>2 DEF Delivered
          <5>3. CASE DocumentManager'[u] = run[r].parsed /\ run[r].stage = "parsed"
            <6>1. run[r].parsed = TextOf(r)
              BY <1>0, <3>1, <5>3 DEF AnalysesInOrder
            <6>2. TextOf(r) >= v
              <7>1. CASE DocumentManager[u] \in Nat /\ DocumentManager[u] >= v
                <8>1. DocumentManager[u] <= TextOf(r)
                  BY <1>0, <3>1, <7>1 DEF AnalysesInOrder
                <8>2. QED
                  BY <3>1, <7>1, <8>1
              <7>2. CASE \E x \in Run : Active(x, u) /\ TextOf(x) >= v
                BY <4>2, <7>2
              <7>3. QED
                BY <3>1, <7>1, <7>2 DEF Delivered
            <6>3. QED
              BY <3>1, <5>3, <6>1, <6>2 DEF Delivered
          <5>4. run[r].settings # "rejected"
            BY DEF NothingRejected
          <5>5. QED
            BY <2>1, <2>6, <3>3, <5>2, <5>3, <5>4 DEF Continued
        <4>3. QED
          BY <4>1, <4>2
      <3>4. QED
        BY <3>2, <3>3
    <2>7. QED
      BY <2>5, <2>6
  <1>4. QED
    BY <1>1, <1>2, <1>3

LEMMA OpenIsDeliveredNext ==
  ASSUME TypeInv, QueueInv, OrderInv, NothingRejected, [Next]_vars, "reject" \notin Faults,
         OpenIsDelivered
  PROVE  OpenIsDelivered'
  <1> SUFFICES ASSUME NEW u \in Uri, NEW v \in Nat, document'[u] = v
               PROVE  Delivered(u, v)'
    BY DEF OpenIsDelivered
  <1>1. CASE document[u] = v
    <2>1. Delivered(u, v) /\ Below(v, u)
      BY <1>1 DEF OpenIsDelivered, OrderInv, HeldIsOlder
    <2>2. \A i \in DOMAIN inbox : ContentAt(i, u) => inbox[i].version >= v
      BY <2>1, ContentVersions DEF Below, TypeInv
    <2>3. QED
      BY <2>1, <2>2, DeliveredNext
  <1>2. CASE DidChangeContent /\ u = Head(inbox).uri /\ v = Head(inbox).version
    BY <1>2, ReceivedIsDelivered
  <1>3. QED
    BY <1>1, <1>2, DocumentsNext, MarkersAssumption

\* Between macrotasks an open document has its content analysed, unless a
\* validation of it awaits its settings or its last parse failed, however late
\* earlier validations end (server.ts:152-164).
THEOREM StaleOnlyAwhile == Spec => []StaleOnlyWhileAwaiting
  <1> DEFINE Inv == /\ TypeInv /\ QueueInv /\ OrderInv /\ NothingRejected
                    /\ PendingIsBeingStored
                    /\ ("reject" \notin Faults => OpenIsDelivered)
  <1>1. ASSUME Init
        PROVE  NothingRejected /\ OpenIsDelivered /\ PendingIsBeingStored
    BY <1>1, MarkersAssumption
       DEF Init, NothingRejected, OpenIsDelivered, PendingIsBeingStored, Idle
  <1>2. Init => Inv
    BY <1>1, TypeInvInit, QueueInvInit, OrderInvInit
  <1>3. Inv /\ [Next]_vars => Inv'
    <2> SUFFICES ASSUME Inv, [Next]_vars
                 PROVE  Inv'
      OBVIOUS
    <2>1. TypeInv' /\ QueueInv' /\ OrderInv' /\ PendingIsBeingStored'
      BY TypeInvNext, QueueInvNext, OrderInvNext, PendingIsBeingStoredNext
    <2>2. NothingRejected'
      BY NothingRejectedNext DEF OrderInv
    <2>3. "reject" \notin Faults => OpenIsDelivered'
      BY OpenIsDeliveredNext
    <2>4. QED
      BY <2>1, <2>2, <2>3
  <1>4. Inv => StaleOnlyWhileAwaiting
    <2> SUFFICES ASSUME Inv, "reject" \notin Faults, microtasks = <<>>,
                        NEW u \in Uri, document[u] # None
                 PROVE  \/ DocumentManager[u] = document[u]
                        \/ DocumentManager[u] = Pending /\ Faults # {}
                        \/ AwaitsSettings(u)
      BY DEF StaleOnlyWhileAwaiting
    <2>1. PICK v \in Nat : document[u] = v
      BY DEF TypeInv, TypeOK
    <2>2. Delivered(u, v)
      BY <2>1 DEF OpenIsDelivered
    <2>3. CASE \E r \in Run : Active(r, u)
      <3>1. PICK r \in Run : run[r].stage # "idle" /\ run[r].uri = u
        BY <2>3 DEF Active
      <3>2. run[r].settings \in Promise
        BY <3>1, AllAwait
      <3>3. QED
        BY <3>1, <3>2 DEF AwaitsSettings
    <2>4. CASE DocumentManager[u] \in Nat /\ DocumentManager[u] >= v
      <3>1. DocumentManager[u] <= document[u]
        BY <2>4 DEF OrderInv, AnalysesInOrder
      <3>2. QED
        BY <2>1, <2>4, <3>1
    <2>5. CASE DocumentManager[u] = Pending
      <3>1. Faults # {}
        BY <2>5, InEmpty DEF PendingIsBeingStored
      <3>2. QED
        BY <2>5, <3>1
    <2>6. QED
      BY <2>2, <2>3, <2>4, <2>5 DEF Delivered
  <1>5. QED
    BY <1>2, <1>3, <1>4, PTL DEF Spec

-----------------------------------------------------------------------------
(* Requests are answered from what was delivered. *)

\* Other notifications and answers tell nothing of contents and requests.
OtherTypes == {"close", "config", "reply"}

\* What a step does to the contents and the requests in flight.
LEMMA StepsOfInbox ==
  ASSUME TypeInv, [Next]_vars
  PROVE  \/ /\ inbox' = inbox /\ version' = version
            /\ request' = request \/ (\E q \in Request : PollAnswers(q))
         \/ /\ \E m \in Message : Send(m) /\ m.type \in OtherTypes
            /\ version' = version /\ request' = request
         \/ \E u \in Uri : GiveContent(u)
         \/ \E q \in Request, u \in Uri : SendRequest(q, u)
         \/ DidChangeContent
         \/ HandleRequest
         \/ /\ \E type \in OtherTypes : Receive(type)
            /\ version' = version /\ request' = request
  <1>1. ASSUME NEW u \in Uri, CloseDocument(u)
        PROVE  (\E m \in Message : Send(m) /\ m.type \in OtherTypes)
               /\ version' = version /\ request' = request
    <2> DEFINE m == [type |-> "close", uri |-> u]
    <2>1. m \in Message /\ m.type \in OtherTypes /\ Send(m)
          /\ version' = version /\ request' = request
      BY <1>1 DEF CloseDocument, Message, CloseMessage, OtherTypes
    <2>2. QED
      BY <2>1
  <1>2. ASSUME ChangeSetting
        PROVE  (\E m \in Message : Send(m) /\ m.type \in OtherTypes)
               /\ version' = version /\ request' = request
    <2> DEFINE m == [type |-> "config"]
    <2>1. m \in Message /\ m.type \in OtherTypes /\ Send(m)
          /\ version' = version /\ request' = request
      BY <1>2 DEF ChangeSetting, Message, ConfigMessage, OtherTypes
    <2>2. QED
      BY <2>1
  <1>3. ASSUME AnswerConfiguration
        PROVE  (\E m \in Message : Send(m) /\ m.type \in OtherTypes)
               /\ version' = version /\ request' = request
    <2>1. PICK v \in ClientAnswers :
            Send([type |-> "reply", promise |-> Head(asked), value |-> v])
      BY <1>3 DEF AnswerConfiguration
    <2> DEFINE m == [type |-> "reply", promise |-> Head(asked), value |-> v]
    <2>2. v \in Outcome /\ Head(asked) \in Promise
      BY <1>3 DEF AnswerConfiguration, ClientAnswers, Outcome, TypeInv, TypeOK
    <2>3. m \in Message /\ m.type \in OtherTypes /\ Send(m)
          /\ version' = version /\ request' = request
      BY <1>3, <2>1, <2>2 DEF AnswerConfiguration, Message, ReplyMessage, OtherTypes
    <2>4. QED
      BY <2>3
  <1>4. CASE DidClose \/ DidChangeConfiguration \/ SettingsSettled
    BY <1>4 DEF DidClose, DidChangeConfiguration, SettingsSettled, editorVars, OtherTypes
  <1>5. CASE Microtask \/ UNCHANGED vars
    BY <1>5 DEF Microtask, Parse, ParseThrows, SettingsRejected, StoreAnalysis,
         vars, editorVars
  <1>6. ASSUME NEW q \in Request, PollAnswers(q)
        PROVE  inbox' = inbox /\ version' = version
    BY <1>6 DEF PollAnswers, editorVars
  <1>7. QED
    BY <1>1, <1>2, <1>3, <1>4, <1>5, <1>6 DEF Next, Macrotask

LEMMA NewestIsDeliveredNext ==
  ASSUME TypeInv, QueueInv, OrderInv, NothingRejected, [Next]_vars, "reject" \notin Faults,
         NewestIsDelivered
  PROVE  NewestIsDelivered'
  <1> USE DEF TypeInv
  <1> SUFFICES ASSUME NEW u \in Uri, NEW v \in Nat, version'[u] = v
               PROVE  /\ editor'[u] => v >= 1
                      /\ v >= 1 =>
                           \/ \E i \in DOMAIN inbox' : ContentAt(i, u)' /\ inbox'[i].version = v
                           \/ (\A i \in DOMAIN inbox' : ~ContentAt(i, u)') /\ Delivered(u, v)'
    BY DEF NewestIsDelivered
  <1>1. CASE GiveContent(u)
    <2>1. version[u] \in Nat /\ v = version[u] + 1
      BY <1>1 DEF GiveContent, TypeOK
    <2>2. PICK k : k = Len(inbox) + 1
      OBVIOUS
    <2>3. k \in DOMAIN inbox' /\ ContentAt(k, u)' /\ inbox'[k].version = v
      BY <1>1, <2>1, <2>2, ContentsAfterGive
    <2>4. QED
      BY <2>1, <2>3
  <1>2. CASE ~GiveContent(u)
    <2>1. version[u] = v
      <3>1. CASE \E w \in Uri : GiveContent(w)
        BY <1>2, <3>1 DEF GiveContent, TypeOK
      <3>2. QED
        BY <3>1, InboxSteps
    <2>2. editor'[u] => editor[u]
      BY <1>2 DEF Next, Macrotask, Microtask, GiveContent, CloseDocument, ChangeSetting,
           AnswerConfiguration, SendRequest, DidChangeContent, DidClose, DidChangeConfiguration,
           SettingsSettled, HandleRequest, Parse, ParseThrows, SettingsRejected, StoreAnalysis,
           PollAnswers, vars, editorVars, TypeOK
    <2>3. editor'[u] => v >= 1
      BY <2>1, <2>2 DEF NewestIsDelivered
    <2>4. CASE v >= 1 /\ \E i \in DOMAIN inbox : ContentAt(i, u) /\ inbox[i].version = v
      <3>1. PICK i \in DOMAIN inbox : ContentAt(i, u) /\ inbox[i].version = v
        BY <2>4
      <3>2. CASE UNCHANGED <<inbox, version>>
        BY <2>3, <3>1, <3>2 DEF ContentAt
      <3>3. ASSUME NEW m \in Message, Send(m), m.type # "content"
            PROVE  \E k \in DOMAIN inbox' : ContentAt(k, u)' /\ inbox'[k].version = v
        <4>1. ContentAt(i, u)' /\ inbox'[i] = inbox[i]
          BY <3>1, <3>3, ContentsAfterSend
        <4>2. QED
          BY <3>1, <4>1 DEF ContentAt
      <3>4. ASSUME NEW w \in Uri, GiveContent(w)
            PROVE  \E k \in DOMAIN inbox' : ContentAt(k, u)' /\ inbox'[k].version = v
        <4>1. ContentAt(i, u)' /\ inbox'[i] = inbox[i]
          BY <3>1, <3>4, ContentsAfterGive
        <4>2. QED
          BY <3>1, <4>1 DEF ContentAt
      <3>5. ASSUME NEW type \in MessageTypes, Receive(type), version' = version
            PROVE  \/ \E k \in DOMAIN inbox' : ContentAt(k, u)' /\ inbox'[k].version = v
                   \/ (\A k \in DOMAIN inbox' : ~ContentAt(k, u)') /\ Delivered(u, v)'
        <4>1. CASE i # 1
          <5>1. i \in DOMAIN inbox /\ i - 1 \in Nat /\ i - 1 >= 1 /\ (i - 1) + 1 = i
            BY <3>1, <3>5, <4>1, AfterReceive
          <5>2. ContentAt(i - 1, u)' /\ inbox'[i - 1] = inbox[i]
            BY <3>1, <3>5, <5>1, ContentsAfterReceive
          <5>3. QED
            BY <3>1, <5>2 DEF ContentAt
        <4>2. CASE i = 1
          <5>1. Head(inbox).type = "content" /\ Head(inbox).uri = u /\ Head(inbox).version = v
                /\ inbox # <<>> /\ inbox' = Tail(inbox)
            BY <3>1, <3>5, <4>2, AfterReceive DEF ContentAt, Receive
          <5>2. inbox' # inbox
            BY <5>1 DEF TypeOK
          <5>3. DidChangeContent
            <6>1. ~(\E m \in Message : Send(m))
              BY <5>1 DEF Send, TypeOK
            <6>2. ~HandleRequest /\ ~(\E t \in OtherTypes : Receive(t))
              BY <5>1 DEF HandleRequest, Receive, OtherTypes
            <6>3. ASSUME NEW w \in Uri, GiveContent(w)
                  PROVE  FALSE
              BY <5>1, <6>3, ContentsAfterGive, AfterReceive, <3>5
            <6>4. ASSUME NEW q \in Request, NEW w \in Uri, SendRequest(q, w)
                  PROVE  FALSE
              <7>1. Len(inbox') = Len(inbox) + 1
                BY <6>4 DEF SendRequest, Send, TypeOK
              <7>2. Len(inbox') = Len(inbox) - 1 /\ Len(inbox) \in Nat
                BY <5>1 DEF TypeOK
              <7>3. QED
                BY <7>1, <7>2
            <6>5. QED
              BY <5>2, <6>1, <6>2, <6>3, <6>4, StepsOfInbox
          <5>4. Delivered(u, v)'
            BY <5>1, <5>3, ReceivedIsDelivered
          <5>5. ASSUME NEW k, ContentAt(k, u)'
                PROVE  FALSE
            <6>1. v < inbox'[k].version
              BY <5>1, <5>3, <5>5, ReceivedIsBelow DEF OrderInv
            <6>2. ContentsInOrder' /\ k \in DOMAIN inbox'
              BY <5>5, ContentsInOrderNext DEF OrderInv, ContentAt
            <6>3. inbox'[k].version <= v
              BY <5>5, <6>2 DEF ContentsInOrder
            <6>4. inbox'[k].version \in Nat
              <7>1. k \in Nat /\ inbox'[k] = inbox[k + 1] /\ ContentAt(k + 1, u)
                BY <3>5, <5>5, ContentsAfterReceive
              <7>2. QED
                BY <7>1, ContentVersions
            <6>5. QED
              BY <6>1, <6>3, <6>4
          <5>6. QED
            BY <5>4, <5>5
        <4>3. QED
          BY <4>1, <4>2
      <3>6. QED
        BY <2>3, <3>2, <3>3, <3>4, <3>5, InboxSteps
    <2>5. CASE v >= 1 /\ (\A i \in DOMAIN inbox : ~ContentAt(i, u)) /\ Delivered(u, v)
      <3>1. Delivered(u, v)'
        BY <2>5, DeliveredNext
      <3>2. \A i : ~ContentAt(i, u)
        BY <2>5 DEF ContentAt
      <3>3. ASSUME NEW i, ContentAt(i, u)'
            PROVE  FALSE
        <4>1. CASE UNCHANGED <<inbox, version>>
          BY <3>2, <3>3, <4>1 DEF ContentAt
        <4>2. ASSUME NEW m \in Message, Send(m), m.type # "content"
              PROVE  FALSE
          BY <3>2, <3>3, <4>2, ContentsAfterSend
        <4>3. ASSUME NEW w \in Uri, GiveContent(w)
              PROVE  FALSE
          BY <1>2, <3>2, <3>3, <4>3, ContentsAfterGive
        <4>4. ASSUME NEW type \in MessageTypes, Receive(type)
              PROVE  FALSE
          BY <3>2, <3>3, <4>4, ContentsAfterReceive
        <4>5. QED
          BY <4>1, <4>2, <4>3, <4>4, InboxSteps
      <3>4. QED
        BY <2>3, <3>1, <3>3
    <2>6. QED
      BY <2>1, <2>3, <2>4, <2>5 DEF NewestIsDelivered
  <1>3. QED
    BY <1>1, <1>2

\* Requests in flight after a message was sent.
LEMMA RequestsAfterSend ==
  ASSUME TypeOK, NEW m \in Message, Send(m), NEW q
  PROVE  \A i : RequestAt(i, q)' <=>
                  \/ RequestAt(i, q)
                  \/ i = Len(inbox) + 1 /\ m.type = "request" /\ m.request = q
  BY AfterSend DEF RequestAt

LEMMA RequestsAfterReceive ==
  ASSUME TypeOK, NEW type, Receive(type), NEW q
  PROVE  /\ \A i : RequestAt(i, q)' => i \in Nat /\ i >= 1 /\ RequestAt(i + 1, q)
         /\ \A i : RequestAt(i, q) => i \in Nat /\ i >= 1
  BY AfterReceive DEF RequestAt

\* What a received request found delivered stays so until it is answered.
LEMMA ServedNext ==
  ASSUME TypeInv, QueueInv, OrderInv, NothingRejected, [Next]_vars, "reject" \notin Faults,
         NEW u \in Uri, NEW v \in Nat, v <= version[u], Served(u, v)
  PROVE  Served(u, v)'
  <1> USE DEF TypeInv
  <1>1. \A i : ContentAt(i, u) => inbox[i].version >= v
    BY DEF Served, ContentAt
  <1>2. Delivered(u, v)'
    BY <1>1, DeliveredNext DEF Served
  <1>3. ASSUME NEW i, ContentAt(i, u)'
        PROVE  inbox'[i].version >= v
    <2>1. CASE UNCHANGED <<inbox, version>>
      BY <1>1, <1>3, <2>1 DEF ContentAt
    <2>2. ASSUME NEW m \in Message, Send(m), m.type # "content"
          PROVE  inbox'[i].version >= v
      BY <1>1, <1>3, <2>2, ContentsAfterSend
    <2>3. ASSUME NEW w \in Uri, GiveContent(w)
          PROVE  inbox'[i].version >= v
      <3>1. CASE ContentAt(i, u)
        BY <1>1, <2>3, <3>1, ContentsAfterGive
      <3>2. CASE ~ContentAt(i, u)
        <4>1. inbox'[i].version = version[u] + 1 /\ version[u] \in Nat
          BY <1>3, <2>3, <3>2, ContentsAfterGive DEF TypeOK
        <4>2. QED
          BY <4>1
      <3>3. QED
        BY <3>1, <3>2
    <2>4. ASSUME NEW type \in MessageTypes, Receive(type)
          PROVE  inbox'[i].version >= v
      BY <1>1, <1>3, <2>4, ContentsAfterReceive
    <2>5. QED
      BY <2>1, <2>2, <2>3, <2>4, InboxSteps
  <1>4. QED
    BY <1>2, <1>3 DEF Served

\* A request in flight keeps what it will find when messages are sent behind it.
LEMMA ServedAtAfterSend ==
  ASSUME TypeInv, QueueInv, OrderInv, NothingRejected, [Next]_vars, "reject" \notin Faults,
         NEW u \in Uri, NEW v \in Nat, NEW i \in Nat, ServedAt(i, u, v), ~ContentAt(i, u),
         \A j : ContentAt(j, u) => ContentAt(j, u)' /\ inbox'[j].version = inbox[j].version,
         \A j : ContentAt(j, u)' =>
                  ContentAt(j, u) \/ (j \in Nat /\ j > i /\ inbox'[j].version >= v)
  PROVE  ServedAt(i, u, v)'
  <1> USE DEF TypeInv
  <1>1. \A j : ContentAt(j, u) => j \in Nat /\ j \in DOMAIN inbox
    BY ContentVersions
  <1>2. ASSUME NEW j, i < j, ContentAt(j, u)'
        PROVE  inbox'[j].version >= v
    BY <1>1, <1>2 DEF ServedAt
  <1>3. CASE \E j \in DOMAIN inbox : j < i /\ ContentAt(j, u) /\ inbox[j].version >= v
    <2>1. PICK j \in DOMAIN inbox : j < i /\ ContentAt(j, u) /\ inbox[j].version >= v
      BY <1>3
    <2>2. ContentAt(j, u)' /\ inbox'[j].version >= v /\ j \in DOMAIN inbox'
      BY <2>1 DEF ContentAt
    <2>3. QED
      BY <1>2, <2>1, <2>2 DEF ServedAt
  <1>4. CASE (\A j \in DOMAIN inbox : j < i => ~ContentAt(j, u)) /\ Delivered(u, v)
    <2>1. \A j \in DOMAIN inbox : ContentAt(j, u) => inbox[j].version >= v
      <3>1. ASSUME NEW j \in DOMAIN inbox, ContentAt(j, u)
            PROVE  i < j
        BY <1>1, <1>4, <3>1
      <3>2. QED
        BY <3>1 DEF ServedAt
    <2>2. Delivered(u, v)'
      BY <1>4, <2>1, DeliveredNext
    <2>3. \A j \in DOMAIN inbox' : j < i => ~ContentAt(j, u)'
      <3>1. SUFFICES ASSUME NEW j, j < i, ContentAt(j, u)'
                     PROVE  FALSE
        OBVIOUS
      <3>2. CASE ContentAt(j, u)
        BY <1>1, <1>4, <3>1, <3>2
      <3>3. CASE j \in Nat /\ j > i
        BY <3>1, <3>3
      <3>4. QED
        BY <3>1, <3>2, <3>3
    <2>4. QED
      BY <1>2, <2>2, <2>3 DEF ServedAt
  <1>5. QED
    BY <1>3, <1>4 DEF ServedAt

\* A request in flight keeps what it will find when messages ahead are received:
\* a content ahead of it becomes a running validation.
LEMMA ServedAtAfterReceive ==
  ASSUME TypeInv, QueueInv, OrderInv, NothingRejected, [Next]_vars, "reject" \notin Faults,
         NEW type, Receive(type), type = "content" => DidChangeContent,
         NEW u \in Uri, NEW v \in Nat, NEW i \in Nat, NEW k \in Nat, k = i + 1,
         ServedAt(k, u, v), ~ContentAt(k, u)
  PROVE  ServedAt(i, u, v)'
  <1> USE DEF TypeInv
  <1>1. /\ \A j \in Nat : ContentAt(j, u)' <=> j >= 1 /\ ContentAt(j + 1, u)
        /\ \A j \in Nat : ContentAt(j, u)' => inbox'[j] = inbox[j + 1]
        /\ \A j : ContentAt(j, u) => j \in Nat /\ j >= 1 /\ j \in DOMAIN inbox
        /\ \A j : ContentAt(j, u)' => j \in Nat /\ j \in DOMAIN inbox'
    <2>1. DOMAIN inbox = 1 .. Len(inbox) /\ Len(inbox) \in Nat
      BY AfterReceive
    <2>2. \A j \in DOMAIN inbox : j >= 1
      BY <2>1
    <2>3. QED
      BY <2>2, ContentsAfterReceive
  <1>2. ASSUME NEW j, i < j, ContentAt(j, u)'
        PROVE  inbox'[j].version >= v
    <2>1. j \in Nat /\ ContentAt(j + 1, u) /\ inbox'[j] = inbox[j + 1] /\ k < j + 1
          /\ j + 1 \in DOMAIN inbox
      BY <1>1, <1>2
    <2>2. QED
      BY <2>1 DEF ServedAt
  <1>3. ASSUME NEW j, j < k, ContentAt(j, u), j # 1, inbox[j].version >= v
        PROVE  ServedAt(i, u, v)'
    <2>1. PICK n \in Nat : j = n + 1 /\ n >= 1
      <3>1. j \in Nat /\ j >= 1
        BY <1>1, <1>3
      <3>2. j - 1 \in Nat /\ j = (j - 1) + 1 /\ j - 1 >= 1
        BY <1>3, <3>1
      <3>3. QED
        BY <3>2
    <2>2. ContentAt(n, u)' /\ n \in DOMAIN inbox' /\ inbox'[n].version >= v /\ n < i
      BY <1>1, <1>3, <2>1
    <2>3. QED
      BY <1>2, <2>2 DEF ServedAt
  <1>4. CASE \E j \in DOMAIN inbox : j < k /\ ContentAt(j, u) /\ inbox[j].version >= v
    <2>1. PICK j \in DOMAIN inbox : j < k /\ ContentAt(j, u) /\ inbox[j].version >= v
      BY <1>4
    <2>2. CASE j = 1
      <3>1. DidChangeContent /\ u = Head(inbox).uri /\ inbox[1] = Head(inbox)
            /\ v <= Head(inbox).version
        BY <2>1, <2>2, AfterReceive, ContentVersions DEF ContentAt
      <3>2. Delivered(u, v)'
        BY <3>1, ReceivedIsDelivered
      <3>3. CASE \E n \in DOMAIN inbox : n < k /\ ContentAt(n, u) /\ n # 1
        <4>1. PICK n \in DOMAIN inbox : n < k /\ ContentAt(n, u) /\ n # 1
          BY <3>3
        <4>2. 1 < n /\ 1 \in DOMAIN inbox
          BY <1>1, <2>2, <4>1
        <4>3. inbox[1].version < inbox[n].version
          BY <2>1, <2>2, <4>1, <4>2 DEF OrderInv, ContentsInOrder
        <4>4. inbox[1].version \in Nat /\ inbox[n].version \in Nat
          BY <2>1, <2>2, <4>1, ContentVersions
        <4>5. inbox[n].version >= v
          BY <2>1, <2>2, <4>3, <4>4
        <4>6. QED
          BY <1>3, <4>1, <4>5
      <3>4. CASE \A n \in DOMAIN inbox : n < k /\ ContentAt(n, u) => n = 1
        <4>1. ASSUME NEW n, n < i, ContentAt(n, u)'
              PROVE  FALSE
          <5>1. n \in Nat /\ n >= 1 /\ ContentAt(n + 1, u) /\ n + 1 \in DOMAIN inbox
                /\ n + 1 < k
            BY <1>1, <4>1
          <5>2. n + 1 = 1
            BY <3>4, <5>1
          <5>3. QED
            BY <5>1, <5>2
        <4>2. QED
          BY <1>2, <3>2, <4>1 DEF ServedAt
      <3>5. QED
        BY <3>3, <3>4
    <2>3. QED
      BY <1>3, <2>1, <2>2
  <1>5. CASE (\A j \in DOMAIN inbox : j < k => ~ContentAt(j, u)) /\ Delivered(u, v)
    <2>1. \A j \in DOMAIN inbox : ContentAt(j, u) => inbox[j].version >= v
      <3>1. ASSUME NEW j \in DOMAIN inbox, ContentAt(j, u)
            PROVE  k < j
        BY <1>1, <1>5, <3>1
      <3>2. QED
        BY <3>1 DEF ServedAt
    <2>2. Delivered(u, v)'
      BY <1>5, <2>1, DeliveredNext
    <2>3. ASSUME NEW j, j < i, ContentAt(j, u)'
          PROVE  FALSE
      <3>1. j \in Nat /\ ContentAt(j + 1, u) /\ j + 1 \in DOMAIN inbox /\ j + 1 < k
        BY <1>1, <2>3
      <3>2. QED
        BY <1>5, <3>1
    <2>4. QED
      BY <1>2, <2>2, <2>3 DEF ServedAt
  <1>6. QED
    BY <1>4, <1>5 DEF ServedAt

LEMMA RequestsAreServedNext ==
  ASSUME TypeInv, QueueInv, OrderInv, NothingRejected, [Next]_vars, "reject" \notin Faults,
         NewestIsDelivered, RequestsAreServed
  PROVE  RequestsAreServed'
  <1> USE DEF TypeInv
  <1> DEFINE Fits(q) == request[q].state # "idle" =>
               request[q].uri \in Uri /\ request[q].version <= version[request[q].uri]
             Once(q) == \A i, j : RequestAt(i, q) /\ RequestAt(j, q) => i = j
             Sent(q) == \A i : RequestAt(i, q) => request[q].state = "sent"
             Finds(q) == \A u \in Uri, v \in Nat :
                           request[q].uri = u /\ request[q].version = v =>
                             /\ request[q].state = "polling" => Served(u, v)
                             /\ \A i : RequestAt(i, q) => ServedAt(i, u, v)
  <1>1. \A q \in Request : Fits(q) /\ Once(q) /\ Sent(q) /\ Finds(q)
    BY DEF RequestsAreServed, RequestAt
  <1>2. \A q : \A i : RequestAt(i, q) => i \in Nat /\ i >= 1 /\ \A u : ~ContentAt(i, u)
    <2>1. DOMAIN inbox = 1 .. Len(inbox) /\ Len(inbox) \in Nat
      BY DEF TypeOK
    <2>2. QED
      BY <2>1 DEF RequestAt, ContentAt
  <1>3. \A u \in Uri : version[u] \in Nat /\ version'[u] \in Nat /\ version[u] <= version'[u]
    <2>1. version' = version \/ (\E w \in Uri : GiveContent(w))
      BY InboxSteps
    <2>2. ASSUME NEW u \in Uri, NEW w \in Uri, GiveContent(w)
          PROVE  version[u] \in Nat /\ version'[u] \in Nat /\ version[u] <= version'[u]
      BY <2>2 DEF TypeOK, GiveContent
    <2>3. ASSUME NEW u \in Uri, version' = version
          PROVE  version[u] \in Nat /\ version'[u] \in Nat /\ version[u] <= version'[u]
      BY <2>3 DEF TypeOK
    <2>4. QED
      BY <2>1, <2>2, <2>3
  \* A request the step does not touch.
  <1>4. ASSUME NEW q \in Request, request'[q] = request[q]
        PROVE  /\ Fits(q)'
               /\ \A u \in Uri, v \in Nat :
                    request'[q].uri = u /\ request'[q].version = v
                    /\ request'[q].state = "polling" => Served(u, v)'
    <2>1. Fits(q)'
      BY <1>1, <1>3, <1>4 DEF TypeOK, RequestState
    <2>2. ASSUME NEW u \in Uri, NEW v \in Nat, request'[q].uri = u, request'[q].version = v,
                 request'[q].state = "polling"
          PROVE  Served(u, v)'
      <3>1. Served(u, v) /\ v <= version[u]
        BY <1>1, <1>4, <2>2
      <3>2. QED
        BY <3>1, ServedNext
    <2>3. QED
      BY <2>1, <2>2
  \* A request that stays where it is, while messages are sent behind it.
  <1>5. ASSUME NEW q \in Request, request'[q] = request[q],
               \A i : RequestAt(i, q)' <=> RequestAt(i, q),
               \A u \in Uri : \A j : ContentAt(j, u) =>
                 ContentAt(j, u)' /\ inbox'[j].version = inbox[j].version,
               \A u \in Uri : \A j : ContentAt(j, u)' => ContentAt(j, u) \/
                 (j = Len(inbox) + 1 /\ inbox'[j].version = version[u] + 1)
        PROVE  Fits(q)' /\ Once(q)' /\ Sent(q)' /\ Finds(q)'
    <2>1. Once(q)' /\ Sent(q)'
      BY <1>1, <1>5
    <2>2. ASSUME NEW u \in Uri, NEW v \in Nat, request'[q].uri = u, request'[q].version = v,
                 NEW i, RequestAt(i, q)'
          PROVE  ServedAt(i, u, v)'
      <3>1. RequestAt(i, q) /\ ServedAt(i, u, v) /\ request[q].state = "sent"
        BY <1>1, <1>5, <2>2
      <3>2. i \in Nat /\ i <= Len(inbox) /\ Len(inbox) \in Nat /\ ~ContentAt(i, u)
        BY <1>2, <3>1 DEF RequestAt, TypeOK
      <3>3. v <= version[u]
        BY <1>1, <1>5, <2>2, <3>1
      <3>4. \A j : ContentAt(j, u)' =>
              ContentAt(j, u) \/ (j \in Nat /\ j > i /\ inbox'[j].version >= v)
        BY <1>3, <1>5, <3>2, <3>3
      <3>5. QED
        BY <1>5, <3>1, <3>2, <3>4, ServedAtAfterSend
    <2>3. QED
      BY <1>4, <1>5, <2>1, <2>2
  \* A request behind the message that is received.
  <1>6. ASSUME NEW q \in Request, request'[q] = request[q],
               NEW type, Receive(type), type = "content" => DidChangeContent
        PROVE  Fits(q)' /\ Once(q)' /\ Sent(q)' /\ Finds(q)'
    <2>1. \A i : RequestAt(i, q)' => i \in Nat /\ i >= 1 /\ RequestAt(i + 1, q)
      BY <1>6, RequestsAfterReceive
    <2>2. Sent(q)'
      BY <1>1, <1>6, <2>1
    <2>3. Once(q)'
      <3>1. SUFFICES ASSUME NEW i, NEW j, RequestAt(i, q)', RequestAt(j, q)'
                     PROVE  i = j
        OBVIOUS
      <3>2. i \in Nat /\ j \in Nat /\ i + 1 = j + 1
        BY <1>1, <2>1, <3>1
      <3>3. QED
        BY <3>2
    <2>4. ASSUME NEW u \in Uri, NEW v \in Nat, request'[q].uri = u, request'[q].version = v,
                 NEW i, RequestAt(i, q)'
          PROVE  ServedAt(i, u, v)'
      <3>1. PICK k \in Nat : k = i + 1 /\ i \in Nat /\ RequestAt(k, q)
        BY <2>1, <2>4
      <3>2. ServedAt(k, u, v) /\ ~ContentAt(k, u)
        BY <1>1, <1>2, <1>6, <2>4, <3>1
      <3>3. QED
        BY <1>6, <3>1, <3>2, ServedAtAfterReceive
    <2>5. QED
      BY <1>4, <1>6, <2>2, <2>3, <2>4
  \* A request that was answered.
  <1>7. ASSUME NEW q \in Request, request'[q].state = "idle", \A i : ~RequestAt(i, q)'
        PROVE  Fits(q)' /\ Once(q)' /\ Sent(q)' /\ Finds(q)'
    BY <1>7
  <1> SUFFICES ASSUME NEW q \in Request
               PROVE  Fits(q)' /\ Once(q)' /\ Sent(q)' /\ Finds(q)'
    BY DEF RequestsAreServed, RequestAt
  <1>8. CASE inbox' = inbox /\ version' = version
    <2>1. /\ \A i : RequestAt(i, q)' <=> RequestAt(i, q)
          /\ \A u \in Uri : \A j : ContentAt(j, u)' <=> ContentAt(j, u)
      BY <1>8 DEF RequestAt, ContentAt
    <2>2. CASE request'[q] = request[q]
      BY <1>5, <1>8, <2>1, <2>2
    <2>3. CASE PollAnswers(q)
      <3>1. request'[q].state = "idle" /\ request[q].state = "polling"
        BY <2>3 DEF PollAnswers, TypeOK
      <3>2. \A i : ~RequestAt(i, q)
        BY <1>1, <3>1
      <3>3. QED
        BY <1>7, <2>1, <3>1, <3>2
    <2>4. ASSUME NEW p \in Request, PollAnswers(p), p # q
          PROVE  request'[q] = request[q]
      BY <2>4 DEF PollAnswers, TypeOK
    <2>5. CASE request' = request \/ (\E p \in Request : PollAnswers(p))
      BY <2>2, <2>3, <2>4, <2>5
    <2>6. inbox' # inbox \/ request' = request \/ (\E p \in Request : PollAnswers(p))
      <3>1. ASSUME NEW m \in Message, Send(m)
            PROVE  inbox' # inbox
        BY <3>1 DEF Send, TypeOK
      <3>2. ASSUME NEW type, Receive(type)
            PROVE  inbox' # inbox
        BY <3>2 DEF Receive, TypeOK
      <3>3. ASSUME NEW w \in Uri, GiveContent(w)
            PROVE  version' # version
        BY <3>3 DEF GiveContent, TypeOK
      <3>4. ASSUME NEW p \in Request, NEW w \in Uri, SendRequest(p, w)
            PROVE  inbox' # inbox
        <4>1. Len(inbox') = Len(inbox) + 1 /\ Len(inbox) \in Nat
          BY <3>4 DEF SendRequest, Send, TypeOK
        <4>2. QED
          BY <4>1
      <3>5. QED
        BY <1>8, <3>1, <3>2, <3>3, <3>4, StepsOfInbox DEF DidChangeContent, HandleRequest
    <2>7. QED
      BY <1>8, <2>5, <2>6
  <1>9. ASSUME NEW m \in Message, Send(m), m.type \in OtherTypes, version' = version,
               request' = request
        PROVE  Fits(q)' /\ Once(q)' /\ Sent(q)' /\ Finds(q)'
    <2>1. m.type # "content" /\ m.type # "request"
      BY <1>9 DEF OtherTypes
    <2>2. \A i : RequestAt(i, q)' <=> RequestAt(i, q)
      BY <1>9, <2>1, RequestsAfterSend
    <2>3. \A u \in Uri : \A j : /\ ContentAt(j, u)' <=> ContentAt(j, u)
                                /\ ContentAt(j, u) => inbox'[j] = inbox[j]
      BY <1>9, <2>1, ContentsAfterSend
    <2>4. QED
      BY <1>5, <1>9, <2>2, <2>3
  <1>10. ASSUME NEW w \in Uri, GiveContent(w)
         PROVE  Fits(q)' /\ Once(q)' /\ Sent(q)' /\ Finds(q)'
    <2> DEFINE m == [type |-> "content", uri |-> w, version |-> version[w] + 1]
    <2>1. m \in Message /\ Send(m) /\ m.type # "request" /\ request' = request
      BY <1>10 DEF GiveContent, TypeOK, Message, ContentMessage
    <2>2. \A i : RequestAt(i, q)' <=> RequestAt(i, q)
      <3> HIDE DEF m
      <3>1. QED
        BY <2>1, RequestsAfterSend
    <2>3. \A u \in Uri : \A j : /\ ContentAt(j, u)' <=>
                                 ContentAt(j, u) \/ (j = Len(inbox) + 1 /\ u = w)
                                /\ ContentAt(j, u) => inbox'[j] = inbox[j]
                                /\ inbox'[Len(inbox) + 1].version = version[w] + 1
      BY <1>10, ContentsAfterGive
    <2>4. \A u \in Uri : \A j : ContentAt(j, u)' => ContentAt(j, u) \/
                              (j = Len(inbox) + 1 /\ inbox'[j].version = version[u] + 1)
      BY <2>3
    <2>5. QED
      BY <1>5, <2>1, <2>2, <2>3, <2>4
  <1>11. ASSUME NEW p \in Request, NEW w \in Uri, SendRequest(p, w)
         PROVE  Fits(q)' /\ Once(q)' /\ Sent(q)' /\ Finds(q)'
    <2> DEFINE m == [type |-> "request", request |-> p]
    <2>1. m \in Message /\ Send(m) /\ m.type = "request" /\ m.request = p
          /\ m.type # "content"
      BY <1>11 DEF SendRequest, Message, RequestMessage
    <2>2. PICK k \in Nat : k = Len(inbox) + 1
      BY DEF TypeOK
    <2>3. \A i : RequestAt(i, q)' <=> RequestAt(i, q) \/ (i = k /\ p = q)
      <3> HIDE DEF m
      <3>1. QED
        BY <2>1, <2>2, RequestsAfterSend
    <2>4. \A u \in Uri : \A j : /\ ContentAt(j, u)' <=> ContentAt(j, u)
                                /\ ContentAt(j, u) => inbox'[j] = inbox[j] /\ j < k
      <3>1. \A u \in Uri : \A j : /\ ContentAt(j, u)' <=> ContentAt(j, u)
                                  /\ ContentAt(j, u) => inbox'[j] = inbox[j]
        <4> HIDE DEF m
        <4>1. QED
          BY <2>1, ContentsAfterSend
      <3>2. \A u \in Uri : \A j : ContentAt(j, u) => j < k
        BY <2>2 DEF ContentAt, TypeOK
      <3>3. QED
        BY <3>1, <3>2
    <2>5. CASE p # q
      <3>1. request'[q] = request[q]
        BY <1>11, <2>5 DEF SendRequest, TypeOK
      <3>2. QED
        BY <1>5, <2>3, <2>4, <2>5, <3>1
    <2>6. CASE p = q
      <3>1. /\ request[q].state = "idle"
            /\ request'[q] = [state |-> "sent", uri |-> w, version |-> version[w]]
            /\ editor[w] /\ version' = version
        BY <1>11, <2>6 DEF SendRequest, TypeOK
      <3>2. \A i : ~RequestAt(i, q)
        BY <1>1, <3>1
      <3>3. \A i : RequestAt(i, q)' <=> i = k
        BY <2>3, <2>6, <3>2
      <3>4. Fits(q)' /\ Once(q)' /\ Sent(q)'
        BY <1>3, <3>1, <3>3
      <3>5. PICK v \in Nat : v = version[w]
        BY <1>3
      <3>6. v >= 1
        BY <3>1, <3>5 DEF NewestIsDelivered
      <3>7. ServedAt(k, w, v)'
        <4>1. \A j : ContentAt(j, w)' => j < k /\ j \in Nat
          BY <2>4, ContentVersions
        <4>2. \A j \in DOMAIN inbox' : k < j /\ ContentAt(j, w)' => inbox'[j].version >= v
          BY <2>2, <4>1
        <4>3. CASE \E j \in DOMAIN inbox : ContentAt(j, w) /\ inbox[j].version = v
          <5>1. PICK j \in DOMAIN inbox : ContentAt(j, w) /\ inbox[j].version = v
            BY <4>3
          <5>2. ContentAt(j, w)' /\ j < k /\ inbox'[j].version >= v /\ j \in DOMAIN inbox'
            BY <2>4, <5>1 DEF ContentAt
          <5>3. QED
            BY <4>2, <5>2 DEF ServedAt
        <4>4. CASE (\A j \in DOMAIN inbox : ~ContentAt(j, w)) /\ Delivered(w, v)
          <5>1. Delivered(w, v)'
            BY <4>4, DeliveredNext
          <5>2. \A j : ~ContentAt(j, w)'
            BY <2>4, <4>4 DEF ContentAt
          <5>3. QED
            BY <4>2, <5>1, <5>2 DEF ServedAt
        <4>5. QED
          BY <3>5, <3>6, <4>3, <4>4 DEF NewestIsDelivered
      <3>8. Finds(q)'
        BY <3>1, <3>3, <3>5, <3>7
      <3>9. QED
        BY <3>4, <3>8
    <2>7. QED
      BY <2>5, <2>6
  <1>12. CASE DidChangeContent
    BY <1>6, <1>12 DEF DidChangeContent
  <1>13. ASSUME NEW type \in OtherTypes, Receive(type), request' = request
         PROVE  Fits(q)' /\ Once(q)' /\ Sent(q)' /\ Finds(q)'
    BY <1>6, <1>13 DEF OtherTypes
  <1>14. CASE HandleRequest
    <2>1. PICK p \in Request : p = Head(inbox).request
      BY <1>14, ReceiveType, MessageFields DEF HandleRequest
    <2>2. RequestAt(1, p) /\ Receive("request") /\ version' = version
      BY <1>14, <2>1, AfterReceive DEF HandleRequest, RequestAt, editorVars
    <2>3. request' = [request EXCEPT
            ![p] = IF Available(@.uri) THEN [state |-> "idle", uri |-> None, version |-> 0]
                   ELSE [@ EXCEPT !.state = "polling"]]
      BY <1>14, <2>1 DEF HandleRequest
    <2>4. CASE p # q
      <3>1. request'[q] = request[q]
        BY <2>3, <2>4 DEF TypeOK
      <3>2. QED
        BY <1>6, <2>2, <3>1
    <2>5. CASE p = q
      <3>1. \A i : ~RequestAt(i, q)'
        <4>1. SUFFICES ASSUME NEW i, RequestAt(i, q)'
                       PROVE  FALSE
          OBVIOUS
        <4>2. i \in Nat /\ i >= 1 /\ RequestAt(i + 1, q)
          BY <2>2, <4>1, RequestsAfterReceive
        <4>3. i + 1 = 1
          BY <1>1, <2>2, <2>5, <4>2
        <4>4. QED
          BY <4>2, <4>3
      <3>2. CASE Available(request[q].uri)
        BY <1>7, <2>3, <2>5, <3>1, <3>2 DEF TypeOK
      <3>3. CASE ~Available(request[q].uri)
        <4>1. /\ request'[q].state = "polling"
              /\ request'[q].uri = request[q].uri
              /\ request'[q].version = request[q].version
          BY <2>3, <2>5, <3>3 DEF TypeOK, RequestState
        <4>2. Once(q)' /\ Sent(q)'
          BY <3>1
        <4>3. Fits(q) /\ request[q].state = "sent"
          BY <1>1, <2>2, <2>5
        <4>4. Fits(q)'
          BY <2>2, <4>1, <4>3
        <4>5. ASSUME NEW u \in Uri, NEW v \in Nat, request[q].uri = u, request[q].version = v
              PROVE  Served(u, v)'
          <5>1. ServedAt(1, u, v)
            BY <1>1, <2>2, <2>5, <4>5
          <5>2. \A j : ContentAt(j, u) => j \in Nat /\ j >= 1 /\ j # 1
            <6>1. DOMAIN inbox = 1 .. Len(inbox) /\ Len(inbox) \in Nat
              BY DEF TypeOK
            <6>2. QED
              BY <1>2, <2>2, <6>1 DEF ContentAt
          <5>3. Served(u, v)
            BY <5>1, <5>2 DEF Served, ServedAt
          <5>4. v <= version[u]
            BY <4>3, <4>5
          <5>5. QED
            BY <5>3, <5>4, ServedNext
        <4>6. Finds(q)'
          BY <3>1, <4>1, <4>5
        <4>7. QED
          BY <4>2, <4>4, <4>6
      <3>4. QED
        BY <3>2, <3>3
    <2>6. QED
      BY <2>4, <2>5
  <1>15. QED
    BY <1>8, <1>9, <1>10, <1>11, <1>12, <1>13, <1>14, StepsOfInbox

\* A request is answered from an analysis of the content it was made about or a
\* later one, unless a validation of the document still awaits its settings: what
\* was typed before a request is never missing from its answer because of the order
\* in which messages, validations and timers come (server.ts:236-268).
THEOREM AnswersAreNotOlder == Spec => AnswerNotOlderThanRequest
  <1> DEFINE Inv == /\ TypeInv /\ QueueInv /\ OrderInv /\ NothingRejected
                    /\ ("reject" \notin Faults => NewestIsDelivered /\ RequestsAreServed)
             Answered == "reject" \notin Faults =>
               \A q \in Request : request[q].state # "idle" /\ request'[q].state = "idle" =>
                 DocumentManager[request[q].uri] >= request[q].version
                 \/ AwaitsSettings(request[q].uri)
  <1>1. Init => Inv
    <2> SUFFICES ASSUME Init
                 PROVE  Inv
      OBVIOUS
    <2>1. NothingRejected
      BY MarkersAssumption DEF Init, NothingRejected, Idle
    <2>2. NewestIsDelivered
      BY DEF Init, NewestIsDelivered
    <2>3. RequestsAreServed
      BY DEF Init, RequestsAreServed, RequestAt
    <2>4. QED
      BY <2>1, <2>2, <2>3, TypeInvInit, QueueInvInit, OrderInvInit
  <1>2. Inv /\ [Next]_vars => Inv'
    <2> SUFFICES ASSUME Inv, [Next]_vars
                 PROVE  Inv'
      OBVIOUS
    <2>1. TypeInv' /\ QueueInv' /\ OrderInv'
      BY TypeInvNext, QueueInvNext, OrderInvNext
    <2>2. NothingRejected'
      BY NothingRejectedNext DEF OrderInv
    <2>3. "reject" \notin Faults => NewestIsDelivered' /\ RequestsAreServed'
      BY NewestIsDeliveredNext, RequestsAreServedNext
    <2>4. QED
      BY <2>1, <2>2, <2>3
  <1>3. Inv /\ [Next]_vars => [Answered]_vars
    <2> SUFFICES ASSUME Inv, [Next]_vars, "reject" \notin Faults,
                        NEW q \in Request, request[q].state # "idle",
                        request'[q].state = "idle"
                 PROVE  DocumentManager[request[q].uri] >= request[q].version
                        \/ AwaitsSettings(request[q].uri)
      OBVIOUS
    <2>1. PICK u \in Uri, v \in Nat : request[q].uri = u /\ request[q].version = v
      BY DEF RequestsAreServed, TypeInv, TypeOK, RequestState
    <2>2. microtasks = <<>> /\ DocumentManager[u] \in Nat /\ Delivered(u, v)
      <3>1. CASE HandleRequest
        <4>1. PICK p \in Request : p = Head(inbox).request
          BY <3>1, ReceiveType, MessageFields DEF HandleRequest, TypeInv
        <4>2. RequestAt(1, p) /\ 1 \in DOMAIN inbox
          BY <3>1, <4>1, AfterReceive DEF HandleRequest, RequestAt, TypeInv
        <4>3. p = q /\ Available(request[q].uri)
          BY <3>1, <4>1 DEF HandleRequest, TypeInv, TypeOK, RequestState
        <4>4. ServedAt(1, u, v)
          BY <2>1, <4>2, <4>3 DEF RequestsAreServed
        <4>5. \A j \in DOMAIN inbox : ~(j < 1)
          BY DEF TypeInv, TypeOK
        <4>6. Delivered(u, v)
          BY <4>4, <4>5 DEF ServedAt
        <4>7. QED
          BY <2>1, <3>1, <4>3, <4>6 DEF HandleRequest, Receive, Available
      <3>2. ASSUME NEW p \in Request, PollAnswers(p)
            PROVE  microtasks = <<>> /\ DocumentManager[u] \in Nat /\ Delivered(u, v)
        <4>1. p = q /\ request[q].state = "polling" /\ Available(request[q].uri)
          BY <3>2 DEF PollAnswers, TypeInv, TypeOK
        <4>2. Served(u, v)
          BY <2>1, <4>1 DEF RequestsAreServed
        <4>3. QED
          BY <2>1, <3>2, <4>1, <4>2 DEF PollAnswers, Served, Available
      <3>3. ASSUME NEW p \in Request, NEW w \in Uri, SendRequest(p, w)
            PROVE  FALSE
        BY <3>3 DEF SendRequest, TypeInv, TypeOK
      <3>4. request' # request
        OBVIOUS
      <3>5. QED
        BY <3>1, <3>2, <3>3, <3>4, StepsOfInbox DEF DidChangeContent, GiveContent
    <2>3. CASE \E r \in Run : Active(r, u)
      <3>1. PICK r \in Run : run[r].stage # "idle" /\ run[r].uri = u
        BY <2>3 DEF Active
      <3>2. run[r].settings \in Promise
        BY <2>2, <3>1, AllAwait
      <3>3. QED
        BY <2>1, <3>1, <3>2 DEF AwaitsSettings
    <2>4. CASE \A r \in Run : ~Active(r, u)
      <3>1. DocumentManager[u] # Pending
        BY <2>2, MarkersAssumption
      <3>2. QED
        BY <2>1, <2>2, <2>4, <3>1 DEF Delivered
    <2>5. QED
      BY <2>3, <2>4
  <1>4. QED
    BY <1>1, <1>2, <1>3, PTL DEF Spec, AnswerNotOlderThanRequest
=============================================================================
