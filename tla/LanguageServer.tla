--------------------------- MODULE LanguageServer ---------------------------
(***************************************************************************)
(* The session layer of the SWI-Prolog language server (server.ts): the    *)
(* editor's document and configuration notifications, the asynchronous     *)
(* validation of a changed document, the cache of per-document settings,   *)
(* the DocumentManager map that every feature request reads, and the       *)
(* feature requests that poll it.                                          *)
(*                                                                         *)
(* Node runs one macrotask (a received message, a timer) at a time and     *)
(* drains the microtask queue before the next one.  A validation is three  *)
(* pieces of code separated by two awaits: it starts in the macrotask of   *)
(* the notification, and its two continuations are microtasks.             *)
(*                                                                         *)
(* Documents are abstracted to version numbers: version n of a uri is the  *)
(* n-th content the editor gave it, and an analysis is named by the        *)
(* version it was computed from; 0 is an analysis of the file on disk.     *)
(***************************************************************************)
EXTENDS Naturals, Sequences

CONSTANTS
  Uri,              \* documents
  Promise,          \* identities of pending workspace/configuration requests
  Run,              \* identities of running calls of validateTextDocument
  Request,          \* feature requests (hover, definition, references, symbols)
  MaxVersion,       \* bound: contents the editor gives one document
  MaxInbox,         \* bound: editor messages in flight
  Faults,           \* subset of {"throw", "unreadable", "reject"} that may happen
  None,             \* no value
  Absent,           \* DocumentManager has no entry for the uri
  Pending           \* DocumentManager maps the uri to undefined

ASSUME ConstantsAssumption ==
  /\ MaxVersion \in Nat
  /\ MaxInbox \in Nat
  /\ Faults \subseteq {"throw", "unreadable", "reject"}

ASSUME MarkersAssumption ==
  /\ None \notin Nat \cup Promise \cup {"true", "false", "rejected"}
  /\ Absent \notin Nat
  /\ Pending \notin Nat
  /\ Absent # Pending
  /\ Promise \cap {"true", "false", "rejected"} = {}

VARIABLES
  \* the editor
  editor,            \* editor[u]: the document is open in the editor
  version,           \* version[u]: contents the editor has given u so far
  setting,           \* the user's swi-lsp.sendDiagnostics
  asked,             \* configuration requests the client has yet to answer
  diagnostics,       \* diagnostics[u]: version whose diagnostics are shown
  \* the connection
  inbox,             \* messages on their way to the server
  \* the server
  document,          \* document[u]: content of the open TextDocument, or None
  documentSettings,  \* documentSettings[u]: None, a pending promise or its outcome
  waiters,           \* waiters[p]: the runs that await promise p, in order
  run,               \* the calls of validateTextDocument
  microtasks,        \* continuations that are ready, in order
  DocumentManager,   \* DocumentManager[u]: Absent, Pending or an analysis
  request            \* the feature requests

vars == <<editor, version, setting, asked, diagnostics, inbox, document,
          documentSettings, waiters, run, microtasks, DocumentManager, request>>

editorVars == <<editor, version, setting>>

-----------------------------------------------------------------------------
(* Values. *)

Outcome == {"true", "false", "rejected"}

\* A finished or not yet started call of validateTextDocument.
Idle == [stage |-> "idle", uri |-> None, settings |-> None,
         closedText |-> None, parsed |-> None]

\* The messages of the client: text synchronisation, configuration changes,
\* answers to workspace/configuration, and feature requests.
ContentMessage == [type: {"content"}, uri: Uri, version: Nat]
CloseMessage   == [type: {"close"}, uri: Uri]
ConfigMessage  == [type: {"config"}]
ReplyMessage   == [type: {"reply"}, promise: Promise, value: Outcome]
RequestMessage == [type: {"request"}, request: Request]

Message == ContentMessage \cup CloseMessage \cup ConfigMessage
           \cup ReplyMessage \cup RequestMessage

RunState ==
  [stage: {"idle", "settings", "parsed"},
   uri: Uri \cup {None},
   settings: Promise \cup Outcome \cup {None},
   closedText: Nat \cup {None},
   parsed: Nat \cup {None}]

RequestState ==
  [state: {"idle", "sent", "polling"}, uri: Uri \cup {None}, version: Nat]

TypeOK ==
  /\ editor \in [Uri -> BOOLEAN]
  /\ version \in [Uri -> Nat]
  /\ setting \in {"true", "false"}
  /\ asked \in Seq(Promise)
  /\ diagnostics \in [Uri -> Nat \cup {None}]
  /\ inbox \in Seq(Message)
  /\ document \in [Uri -> Nat \cup {None}]
  /\ documentSettings \in [Uri -> Promise \cup Outcome \cup {None}]
  /\ waiters \in [Promise -> Seq(Run)]
  /\ run \in [Run -> RunState]
  /\ microtasks \in Seq(Run)
  /\ DocumentManager \in [Uri -> Nat \cup {Absent, Pending}]
  /\ request \in [Request -> RequestState]

Init ==
  /\ editor = [u \in Uri |-> FALSE]
  /\ version = [u \in Uri |-> 0]
  /\ setting \in {"true", "false"}
  /\ asked = <<>>
  /\ diagnostics = [u \in Uri |-> None]
  /\ inbox = <<>>
  /\ document = [u \in Uri |-> None]
  /\ documentSettings = [u \in Uri |-> None]
  /\ waiters = [p \in Promise |-> <<>>]
  /\ run = [r \in Run |-> Idle]
  /\ microtasks = <<>>
  /\ DocumentManager = [u \in Uri |-> Absent]
  /\ request = [q \in Request |-> [state |-> "idle", uri |-> None, version |-> 0]]

-----------------------------------------------------------------------------
(* The editor.  It follows the protocol: a document is opened before it is *)
(* changed or closed, and requests are about open documents.               *)

CanSend == Len(inbox) < MaxInbox

Send(m) == inbox' = Append(inbox, m)

\* Opening a document or editing it gives the server a new content.
GiveContent(u) ==
  /\ CanSend
  /\ version[u] < MaxVersion
  /\ version' = [version EXCEPT ![u] = @ + 1]
  /\ editor' = [editor EXCEPT ![u] = TRUE]
  /\ Send([type |-> "content", uri |-> u, version |-> version[u] + 1])
  /\ UNCHANGED <<setting, asked, diagnostics, document, documentSettings,
                 waiters, run, microtasks, DocumentManager, request>>

CloseDocument(u) ==
  /\ CanSend
  /\ editor[u]
  /\ editor' = [editor EXCEPT ![u] = FALSE]
  /\ Send([type |-> "close", uri |-> u])
  /\ UNCHANGED <<version, setting, asked, diagnostics, document, documentSettings,
                 waiters, run, microtasks, DocumentManager, request>>

\* The user turns swi-lsp.sendDiagnostics on or off.
ChangeSetting ==
  /\ CanSend
  /\ setting' = IF setting = "true" THEN "false" ELSE "true"
  /\ Send([type |-> "config"])
  /\ UNCHANGED <<editor, version, asked, diagnostics, document, documentSettings,
                 waiters, run, microtasks, DocumentManager, request>>

\* The client answers a workspace/configuration request with the setting of the
\* moment, or an error.
ClientAnswers == {setting} \cup (IF "reject" \in Faults THEN {"rejected"} ELSE {})

\* The client answers the oldest workspace/configuration request.
AnswerConfiguration ==
  /\ asked # <<>>
  /\ asked' = Tail(asked)
  /\ \E v \in ClientAnswers :
       Send([type |-> "reply", promise |-> Head(asked), value |-> v])
  /\ UNCHANGED <<editor, version, setting, diagnostics, document, documentSettings,
                 waiters, run, microtasks, DocumentManager, request>>

SendRequest(q, u) ==
  /\ CanSend
  /\ editor[u]
  /\ request[q].state = "idle"
  /\ request' = [request EXCEPT ![q] = [state |-> "sent", uri |-> u, version |-> version[u]]]
  /\ Send([type |-> "request", request |-> q])
  /\ UNCHANGED <<editor, version, setting, asked, diagnostics, document,
                 documentSettings, waiters, run, microtasks, DocumentManager>>

-----------------------------------------------------------------------------
(* The server: macrotasks.  A message is received when no microtask waits. *)

Receive(type) ==
  /\ microtasks = <<>>
  /\ inbox # <<>>
  /\ Head(inbox).type = type
  /\ inbox' = Tail(inbox)

PromiseInUse(p) ==
  \/ \E i \in DOMAIN asked : asked[i] = p
  \/ \E i \in DOMAIN inbox : inbox[i].type = "reply" /\ inbox[i].promise = p

NewPromise == CHOOSE p \in Promise : ~PromiseInUse(p)

NewRun == CHOOSE r \in Run : run[r].stage = "idle"

\* The settings of a document: the cached promise (or what it settled to),
\* else a new workspace/configuration request.
getDocumentSettings(u) ==
  IF documentSettings[u] # None THEN documentSettings[u] ELSE NewPromise

\* A wrong variant: no request is sent while another one is unanswered.
AskedOneAtATime(u, s) ==
  IF documentSettings[u] = None /\ asked = <<>> THEN Append(asked, s) ELSE asked

Asked(u, s) == IF documentSettings[u] = None THEN Append(asked, s) ELSE asked

\* Up to the first await of validateTextDocument.  Awaiting a settled promise
\* queues the continuation at once, awaiting a pending one parks the run.
validateTextDocument(u) ==
  LET r == NewRun
      s == getDocumentSettings(u)
  IN  /\ \E i \in Run : run[i].stage = "idle"
      /\ documentSettings[u] = None => \E p \in Promise : ~PromiseInUse(p)
      /\ documentSettings' = [documentSettings EXCEPT ![u] = s]
      /\ asked' = Asked(u, s)
      /\ run' = [run EXCEPT ![r] = [stage |-> "settings", uri |-> u, settings |-> s,
                                    closedText |-> None, parsed |-> None]]
      /\ IF s \in Promise
         THEN waiters' = [waiters EXCEPT ![s] = Append(@, r)] /\ UNCHANGED microtasks
         ELSE microtasks' = Append(microtasks, r) /\ UNCHANGED waiters

\* didOpen and didChange: TextDocuments stores the content (an open document
\* is updated in place) and fires onDidChangeContent.
DidChangeContent ==
  LET m == Head(inbox)
  IN  /\ Receive("content")
      /\ document' = [document EXCEPT ![m.uri] = m.version]
      /\ validateTextDocument(m.uri)
      /\ UNCHANGED <<editorVars, diagnostics, DocumentManager, request>>

\* The runs of a document that is closed keep its TextDocument, which no later
\* notification updates.
Detached(u) ==
  [r \in Run |-> IF run[r].uri = u /\ run[r].closedText = None
                 THEN [run[r] EXCEPT !.closedText = document[u]] ELSE run[r]]

\* A wrong variant: onDidClose does not drop the settings.
SettingsKeptOnClose(u) == documentSettings

SettingsAfterClose(u) == [documentSettings EXCEPT ![u] = None]

DidClose ==
  LET u == Head(inbox).uri
  IN  /\ Receive("close")
      /\ document' = [document EXCEPT ![u] = None]
      /\ documentSettings' = SettingsAfterClose(u)
      /\ run' = Detached(u)
      /\ UNCHANGED <<editorVars, asked, diagnostics, waiters, microtasks,
                     DocumentManager, request>>

\* A wrong variant: the cache survives a change of configuration.
SettingsKeptOnConfigChange == documentSettings

SettingsAfterConfigChange == [u \in Uri |-> None]

\* onDidChangeConfiguration drops every cached setting and validates nothing.
DidChangeConfiguration ==
  /\ Receive("config")
  /\ documentSettings' = SettingsAfterConfigChange
  /\ UNCHANGED <<editorVars, asked, diagnostics, document, waiters, run,
                 microtasks, DocumentManager, request>>

\* The answer to workspace/configuration settles the promise: the cache entry
\* holds the outcome and the continuations of the runs that await it are queued.
SettingsSettled ==
  LET p == Head(inbox).promise
      v == Head(inbox).value
  IN  /\ Receive("reply")
      /\ documentSettings' = [u \in Uri |-> IF documentSettings[u] = p THEN v
                                            ELSE documentSettings[u]]
      /\ run' = [r \in Run |-> IF run[r].settings = p
                               THEN [run[r] EXCEPT !.settings = v] ELSE run[r]]
      /\ microtasks' = waiters[p]
      /\ waiters' = [waiters EXCEPT ![p] = <<>>]
      /\ UNCHANGED <<editorVars, asked, diagnostics, document, DocumentManager, request>>

-----------------------------------------------------------------------------
(* The server: microtasks. *)


\* A wrong variant: the text is looked up in TextDocuments again.
TextOfOpenDocument(r) == document[run[r].uri]

\* The content of the run's TextDocument now.
TextOf(r) ==
  IF run[r].closedText = None THEN document[run[r].uri] ELSE run[r].closedText

Finish(r) == run' = [run EXCEPT ![r] = Idle]

\* The outcome that importing a file not yet in DocumentManager may leave there.
ImportOutcome(thrown) ==
  {0} \cup (IF thrown \/ "unreadable" \in Faults THEN {Pending} ELSE {})

\* A wrong variant: use_module does not look whether there is an entry.
Importable(u) == Uri \ {u}

\* The files use_module reads: those DocumentManager does not have.
NotKnown(u) == {w \in Uri \ {u} : DocumentManager[w] = Absent}

\* While u is parsed its entry is undefined; use_module adds entries for files
\* that have none and leaves every other entry alone.
ParseEffect(u, thrown) ==
  \E loaded \in SUBSET NotKnown(u) :
    \E outcome \in [loaded -> ImportOutcome(thrown)] :
      DocumentManager' = [w \in Uri |-> IF w = u THEN Pending
                                        ELSE IF w \in loaded THEN outcome[w]
                                        ELSE DocumentManager[w]]

\* From the first await to the second: read the text, drop the old analysis,
\* parse.  The second await queues the rest behind the ready continuations.
Parse ==
  LET r == Head(microtasks)
  IN  /\ microtasks # <<>>
      /\ run[r].stage = "settings"
      /\ run[r].settings # "rejected"
      /\ ParseEffect(run[r].uri, FALSE)
      /\ run' = [run EXCEPT ![r].stage = "parsed", ![r].parsed = TextOf(r)]
      /\ microtasks' = Append(Tail(microtasks), r)
      /\ UNCHANGED <<editorVars, asked, diagnostics, inbox, document,
                     documentSettings, waiters, request>>

\* The parse throws: the entry stays undefined and the run ends.
ParseThrows ==
  LET r == Head(microtasks)
  IN  /\ "throw" \in Faults
      /\ microtasks # <<>>
      /\ run[r].stage = "settings"
      /\ run[r].settings # "rejected"
      /\ ParseEffect(run[r].uri, TRUE)
      /\ Finish(r)
      /\ microtasks' = Tail(microtasks)
      /\ UNCHANGED <<editorVars, asked, diagnostics, inbox, document,
                     documentSettings, waiters, request>>

\* Awaiting a rejected settings promise ends the run.
SettingsRejected ==
  LET r == Head(microtasks)
  IN  /\ microtasks # <<>>
      /\ run[r].stage = "settings"
      /\ run[r].settings = "rejected"
      /\ Finish(r)
      /\ microtasks' = Tail(microtasks)
      /\ UNCHANGED <<editorVars, asked, diagnostics, inbox, document,
                     documentSettings, waiters, DocumentManager, request>>

\* A wrong variant: nothing is stored when diagnostics are turned off.
StoredWithDiagnostics(r) ==
  IF run[r].settings = "true" THEN [DocumentManager EXCEPT ![run[r].uri] = run[r].parsed]
  ELSE DocumentManager

Stored(r) == [DocumentManager EXCEPT ![run[r].uri] = run[r].parsed]

\* After the second await: store the analysis and publish its diagnostics, or
\* none when they are turned off.
StoreAnalysis ==
  LET r == Head(microtasks)
      u == run[r].uri
  IN  /\ microtasks # <<>>
      /\ run[r].stage = "parsed"
      /\ DocumentManager' = Stored(r)
      /\ diagnostics' = [diagnostics EXCEPT
                           ![u] = IF run[r].settings = "true" THEN run[r].parsed ELSE None]
      /\ Finish(r)
      /\ microtasks' = Tail(microtasks)
      /\ UNCHANGED <<editorVars, asked, inbox, document, documentSettings,
                     waiters, request>>

-----------------------------------------------------------------------------
(* The server: feature requests. *)

Available(u) == DocumentManager[u] \in Nat

\* The first look at DocumentManager is in the macrotask of the request.
HandleRequest ==
  LET q == Head(inbox).request
  IN  /\ Receive("request")
      /\ request' = [request EXCEPT
           ![q] = IF Available(@.uri) THEN [state |-> "idle", uri |-> None, version |-> 0]
                  ELSE [@ EXCEPT !.state = "polling"]]
      /\ UNCHANGED <<editorVars, asked, diagnostics, document, documentSettings,
                     waiters, run, microtasks, DocumentManager>>

\* Later looks are timer callbacks; one that finds nothing sleeps again.
PollAnswers(q) ==
  /\ microtasks = <<>>
  /\ request[q].state = "polling"
  /\ Available(request[q].uri)
  /\ request' = [request EXCEPT ![q] = [state |-> "idle", uri |-> None, version |-> 0]]
  /\ UNCHANGED <<editorVars, asked, diagnostics, inbox, document, documentSettings,
                 waiters, run, microtasks, DocumentManager>>

-----------------------------------------------------------------------------
Macrotask == DidChangeContent \/ DidClose \/ DidChangeConfiguration
             \/ SettingsSettled \/ HandleRequest

Microtask == Parse \/ ParseThrows \/ SettingsRejected \/ StoreAnalysis

Next ==
  \/ \E u \in Uri : GiveContent(u) \/ CloseDocument(u)
  \/ ChangeSetting
  \/ AnswerConfiguration
  \/ \E q \in Request, u \in Uri : SendRequest(q, u)
  \/ Macrotask
  \/ Microtask
  \/ \E q \in Request : PollAnswers(q)

Spec == Init /\ [][Next]_vars

\* Node keeps running ready tasks, the client answers, timers fire.
Fairness ==
  /\ WF_vars(Macrotask)
  /\ WF_vars(Microtask)
  /\ WF_vars(AnswerConfiguration)
  /\ \A q \in Request : WF_vars(PollAnswers(q))

FairSpec == Spec /\ Fairness

-----------------------------------------------------------------------------
(* Properties. *)

\* "Only keep settings for open documents" (server.ts:141): a cache entry, also
\* one a running validation asked for, belongs to a document that is open.
SettingsOnlyForOpenDocuments ==
  \A u \in Uri : documentSettings[u] # None => document[u] # None

ConfigChangeInFlight ==
  \E i \in DOMAIN inbox : inbox[i].type = "config"

\* A cached setting is the user's current one, unless the notification that
\* clears the cache (server.ts:112) is on its way.  It rests on the order of
\* answers and notifications: the cache is cleared by a message that an older
\* answer may not overtake.
CachedSettingsAreCurrent ==
  \A u \in Uri : documentSettings[u] \in {"true", "false"} =>
    documentSettings[u] = setting \/ ConfigChangeInFlight

\* Some validation of u awaits the answer to a settings request.
AwaitsSettings(u) ==
  \E r \in Run : run[r].uri = u /\ run[r].settings \in Promise

\* Between two macrotasks an open document whose analysis is not of its current
\* content has a validation waiting for settings, or its last parse failed:
\* neither a validation that ends late, also one of a document closed and opened
\* again, nor the import of the document by another one that is parsed leaves an
\* older analysis behind (server.ts:152-164, indexer.ts:246).
StaleOnlyWhileAwaiting ==
  "reject" \notin Faults /\ microtasks = <<>> =>
    \A u \in Uri : document[u] # None =>
      \/ DocumentManager[u] = document[u]
      \/ DocumentManager[u] = Pending /\ Faults # {}
      \/ AwaitsSettings(u)

\* The undefined entry of a document being parsed (server.ts:157) is never seen
\* by a message handler or a timer unless a parse threw or an import failed.
PendingIsTransient ==
  Faults = {} /\ microtasks = <<>> => \A u \in Uri : DocumentManager[u] # Pending

\* Whatever validation publishes diagnostics, it follows the user's current
\* setting, unless the notification of a change is still on its way.
PublishesUnderCurrentSetting ==
  [][diagnostics' # diagnostics =>
       \A u \in Uri : diagnostics'[u] # diagnostics[u] =>
         (diagnostics'[u] # None <=> setting = "true") \/ ConfigChangeInFlight]_vars

\* A request is answered from an analysis of the content it was made about, or a
\* later one, unless a validation of that document still awaits its settings.
AnswerNotOlderThanRequest ==
  []["reject" \notin Faults =>
       \A q \in Request :
         request[q].state # "idle" /\ request'[q].state = "idle" =>
           LET u == request[q].uri
           IN  DocumentManager[u] >= request[q].version \/ AwaitsSettings(u)]_vars

\* Every request is answered in the end, when no parse throws and the client
\* answers configuration requests.
EveryRequestAnswered ==
  \A q \in Request : request[q].state = "sent" ~> request[q].state = "idle"

\* Every validation ends, whatever happens to the cache entry it took its promise
\* from: the document is closed or the configuration changes while it waits.
EveryValidationEnds ==
  \A r \in Run : run[r].stage # "idle" ~> run[r].stage = "idle"

-----------------------------------------------------------------------------
(* The session layer implements AnalysisStore.  An entry that is undefined     *)
(* because its document is being parsed maps to the analysis about to be       *)
(* stored: no reader can see the difference.                                   *)

Storing(u) == {r \in Run : run[r].stage = "parsed" /\ run[r].uri = u}

StoredAnalysis ==
  [u \in Uri |-> IF DocumentManager[u] = Pending /\ Storing(u) # {}
                 THEN run[CHOOSE r \in Storing(u) : TRUE].parsed
                 ELSE DocumentManager[u]]

Store == INSTANCE AnalysisStore
           WITH Broken <- Pending, content <- version, analysis <- StoredAnalysis

ImplementsStore == Store!Spec

\* With its fairness, when no parse throws and the client answers.
ImplementsFairStore == Store!FairSpec
=============================================================================
