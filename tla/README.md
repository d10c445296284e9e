# A verification project for the SWI-Prolog language server

The program is a language server for SWI-Prolog (`src/server/src/*.ts`, run by Node and
driven by a VS Code client, `src/client/src/extension.ts`). This directory holds TLA+
modules that model it, TLC configurations that check them on small instances, and TLAPS
proofs for every instance. File names without a directory are of `src/server/src`.

## 1. The system

| Component | Source | State | Operations |
|---|---|---|---|
| Session layer | `server.ts`, `globalVars.ts` | `documents` (open TextDocuments), `documentSettings` (promises), `DocumentManager` (uri to analysis, or `undefined`), suspended calls of `validateTextDocument`, polling requests | didOpen/didChange, didClose, didChangeConfiguration, answers to workspace/configuration, document symbol, definition, references, hover |
| Module loader | `indexer.ts` `ruleEval`, `use_module_1`, `module_2`, `publicList` | `DocumentManager`, one nested parser per file being read | the directives `use_module/1`, `module/2`, `op/3` |
| Operator tables | `operators.ts` | `user_table` of each parser, the module-level `default_table` shared by all | `op/3`, `current_op`, `absorb` |
| Parser | `parser-on-moo.ts`, `context_flags.ts` | position, annotations on tokens, diagnostics, suspended generators | `next`, `read`, `exprtl0`, `exprtl`, `after_prefix_op`, `read_args`, `read_list`, `read_dict` |
| Lexer | `lexer-by-moo.ts` | a moo lexer and its place in the text | `getTokens`; with it the loop of `Parser.next` and `Parser.parse` over the clauses |
| Syntax tree and search | `cst2.ts` | trees of nodes with token ranges | constructors, `getRange`, `refreshEndToken`, `search` |
| Requests | `server.ts` `onDocumentSymbol`, `onDefinition`, `onReferences`, `onHover` | none of their own | the outline, the clauses of a predicate, its goals, the range of a term |
| Indexer and graph | `indexer.ts`, `graph.ts` | names of nodes, the caller of a clause, maps from predicate names to sets of clauses and nodes | `index`, `ruleHead`, `ruleBody`, `DCGHead`, `DCGBody`, `dcg_extend`, `ruleEval`, `publicList`, `addDefinition`, `addReference` |
| Helpers | `utils.ts`, `pushDiagnostic.ts`, `ruleEval.ts` (empty) | none | assertions, wording of diagnostics |
| Client | `client/src/extension.ts` | the language client | activate, deactivate |

How they interact. The editor's messages reach the session layer one at a time, in order.
A new content of a document starts a validation: an asynchronous call that waits for the
document's settings, then lexes, parses and indexes the whole document in one piece, waits
one microtask, and stores the result in `DocumentManager` and publishes diagnostics. Indexing
happens clause by clause while parsing, because `op/3` directives change how the rest of the
file is parsed, and `use_module/1` parses another file on the spot, stores its analysis in
`DocumentManager` too and takes over its operators. Feature requests poll `DocumentManager`
until the entry of their document is there, look up the node at the cursor in its tree, and
answer from its graph.

What is hard in it, and the properties that make each part correct:

* Validations overlap, and each is suspended while the document is edited, closed or opened
  again, while the settings change, and while other validations import the document. What is
  stored must be the analysis of the last content, and what is published must follow the
  setting.
* The entry of a document is `undefined` during its own parse and its import, and after a
  failure, and "absent", "undefined" and "there" mean different things to the three readers.
* Module imports recurse, also in cycles, through a map shared with open documents. They must
  end, and the operators a file gets must be what its program and its imports mean, whatever
  was validated before.
* Importers are not told when an import changes. They go stale, and should in no other way.
* One operator table is shared by every document for the life of the server.
* The rules of the tokenizer overlap: a full stop may stand in a comment, a quoted atom, a
  character code or a symbol atom, and then it ends no clause. A file must be cut into its
  clauses at its full stops and nowhere else.
* The parser backtracks over tokens it annotates on the way, with generators that are
  abandoned half way. What it keeps must be a reading of the clause, it must find one where
  there is one, and it must end and throw nothing.
* The search bisects over ranges that constructors copied from each other: it must find the
  node that has its token at the cursor.
* The indexer renames nodes of grammar rules while it enters them in the graph: names in the
  graph and on the nodes must not part, and a request that starts at a node must come out at
  the clauses and the goals of its predicate.

The hazards are listed line by line in `PROJECT.json`, each with the properties that cover it.

## 2. The modules

| Part | Modules | Proofs |
|---|---|---|
| Session layer | `LanguageServer`, abstract: `AnalysisStore`, for TLC: `MCLanguageServer` | `LanguageServer_proofs` |
| Loader and operators | `OperatorTable`, `ModuleLoader`, reference: `ModuleLoaderReference`, for TLC: `MCModuleLoader` | `ModuleLoader_proofs` |
| Loader with an editor | `Workspace` (extends `ModuleLoaderReference`), for TLC: `MCWorkspace` | `Workspace_proofs` (extends `ModuleLoader_proofs`) |
| Lexer | `Lexer`, reference: `LexerReference`, for TLC: `MCLexer` | `Lexer_proofs` (extends `LexerReference`) |
| Parser | `Parser` (extends `OperatorTable`), reference: `ParserReference`, for TLC: `MCParser` | `Parser_proofs` |
| Tree and search | `CstSearch`, the trees it is given: `CstNodes`, for TLC: `MCCstSearch` | `CstSearch_proofs` |
| Indexer and graph | `Indexer` | `Indexer_proofs` |
| Requests | `Requests` (extends `Indexer`, an instance of `CstSearch` in it), for TLC: `MCRequests` (with the trees of `CstNodes`) | `Requests_proofs` (extends `Indexer_proofs`, an instance of `CstSearch_proofs` in it) |

`LanguageServer` and `ModuleLoader` meet in `AnalysisStore`: the session layer takes an
import for one step that adds entries for files without one, and the loader, which makes
that step out of nested parses, implements the same abstract store (`ImplementsStore` of
both), also while its files are edited (`Workspace`). `Requests` composes the indexer, the
graph and the search: they share the nodes of one file. `Workspace` also extends
`ModuleLoaderReference`: what a file means there is what the last analysed texts mean. `Lexer` ends where `Parser` begins,
at the tokens of a clause.

### LanguageServer (core)

Models `server.ts` with the editor around it, and of `indexer.ts` the effect of an import on
`DocumentManager`. Documents are numbered by content: `version[u]` counts the contents the
editor has given `u`, and an analysis is the number of the content it was made from (0 for
the file on disk).

| Variable | Code |
|---|---|
| `editor`, `version`, `setting` | the editor: open documents, their contents, `swi-lsp.sendDiagnostics` |
| `inbox`, `asked` | the connection in both directions: messages to the server; its configuration requests |
| `document` | `documents`, the TextDocuments manager |
| `documentSettings` | the `Map` of promises: none, a pending promise, or what it settled to, an error included |
| `run` | the calls of `validateTextDocument`: where each is suspended, its document, settings, and what it has parsed |
| `waiters`, `microtasks` | continuations parked with a promise; continuations that are ready |
| `DocumentManager` | `Absent` (no entry), `Pending` (entry `undefined`), or an analysis |
| `diagnostics` | what the editor shows |
| `request` | feature requests: not made, on the way, polling |

Actions of the server are what Node runs in one piece: `DidChangeContent`, `DidClose`,
`DidChangeConfiguration`, `SettingsSettled` and `HandleRequest` are macrotasks (a received
message), and run only when no continuation is ready; `Parse`, `ParseThrows`,
`SettingsRejected` and `StoreAnalysis` are the continuations of a validation;
`PollAnswers` is the timer of a polling request that finds its document's entry (one that
finds nothing sleeps again and changes nothing).

What the environment is assumed to do: the connection delivers in order in both directions
and the client answers configuration requests in order (the repository's own client does);
documents are opened before they are changed or closed; the client answers with the setting
of the moment, or, as a fault (`"reject"`), with an error, and notifies every change of it.
Node 14, which the repository is typed against, logs an unhandled rejection and goes on, so a
validation that throws ends alone.

A document that is closed keeps its TextDocument object in the validations that hold it
(`closedText`); a document opened again is a new object.

### AnalysisStore (abstract)

What the readers of `DocumentManager` may rely on: per document an analysis that never goes
back to an older content, is not dropped except by a failure, comes from the disk only when
nothing is known, and in the end is of the last content. `LanguageServer` implements it
under a mapping that hides the `undefined` entry of a document being parsed behind the
analysis about to be stored; `ModuleLoader` under one that shows `DocumentManager` as it was
before the validation until the validation ends.

### OperatorTable, ModuleLoader, ModuleLoaderReference

`OperatorTable` is `operators.ts` as operators without state: the two tables, `op/3` with its
checks and its permission error that refuses nothing, `absorb`, the lookup that prefers a
builtin operator, and the reading of an infix operator (`parser-on-moo.ts`). Precedences are
numbers or `NaN`, what `Number()` makes of tokens such as `1_000`.

`ModuleLoader` is one validation from inside. A parse is synchronous, so the parsers form a
stack and only the top one moves; a validation starts on an idle server.

| Variable | Code |
|---|---|
| `disk` | the programs of the files; in `ModuleLoader` alone they stay as they are, and a document has the content of its file |
| `DocumentManager` | as above, an analysis with its operators, and the readings of its terms |
| `default_table` | the builtin operators, shared |
| `stack` | `MyParser` objects: the rest of the program, `user_table`, errors |
| `validated`, `reported`, `before` | how often a file was validated, its diagnostics, and the entries when the validation began |

Actions are the items of a program: `Term` (a clause whose reading depends on an operator),
`OpDirective`, `ModuleDirective` and `Exports` (the walk over an export list), the four ways
of `use_module_1` (`ImportKnown`, `ImportPending`, `ImportUnreadable`, `ImportReads`), the two
ends of a parse (`Return`, `Finish`) and, in `Workspace` only, `Throw`. A conjunction of
directives is its items in order. Library files are not read by the code. The code takes an
empty clause for the end of the file (see `Lexer`), so a program is what stands before it.

`ModuleLoaderReference` says what a file means without loading: the operators of a file are
given by the last item that says anything of them, an import saying what the imported file
means. It says so of any programs `d`: those on disk, or those that were analysed last. There
are finitely many files (`FilesAreFinite`), so the recursion through imports is as deep as
there are files. `TablesAgree` and `TermsAgree` compare the two.

### Workspace

`ModuleLoader` with the editor: a file has a program on disk (`disk`), which imports read, and
while its document is open one in the editor (`text`), which validations read. `Open`,
`Edit` and `Save` are the editor's, outside the code, and come between the parses; each content that is given owes a validation
(`owed`), which comes at any later time (`ValidateText`) and reads the text of then. How
validations wait for settings is in `LanguageServer`; a document that is closed changes
nothing the loader reads, so closing has no action. `LoaderStep` is a step of the parse under
way, `LoaderThrow` its failure. `program` and `since` are history: from what program the
entry of a file was made, and which entries were made since. With them `StaleOnlyBehindImports`
takes `ModuleLoaderReference` for the programs that were analysed, and says that a document
has the operators they mean, unless some file below it was analysed after one that imports it;
it holds between parses and during them.

### Lexer, LexerReference

A text is a sequence of characters, as many kinds of them as the rules of `lexer-by-moo.ts`
tell apart. Each rule is an operator that gives where its match at a place ends, and `Rules`
has them in the order of the file, since the first that fits is taken. Those with
alternatives and repetition (the quotes) follow the order in which a regular expression tries
them. `skip`, `invalid`, `gather`, `nextAtEnd` and `nextAtEndOfText` are the loop of `getTokens`
and what `Parser.next` and `Parser.parse` do when it returns: report the invalid tokens, and
read the list or, when there is none, end.

`LexerReference` has no tokens. It goes over the characters once and knows of each only what
it is in the middle of, and so which full stops end a clause; a clause is the set of characters
between two of these. Its mode `broken` leaves out the
texts that no clause has, and those in which the tokenizer's rules are not Prolog's:

* `0''`, and radix notation with a radix of two digits;
* `0'\u0041`, `0'\U00000041` and other codes that the rule has not: its `\\u\[` has the bracket
  escaped (`lexer-by-moo.ts:33`), so that `0` is a number and the quote begins a quoted atom,
  which may take in a full stop, or is reported as invalid;
* codes closed by a backslash behind octal digits, codes of more than four hexadecimal digits
  (`0'\x41\` is read, with its backslash), and in quotes numeric escapes, which a backslash ends;
* backquoted strings, whose rule bars `"` where it should bar the backquote
  (`lexer-by-moo.ts:29`), so that they run to the last backquote of the line.

Characters are letters in five kinds (what may follow `0'\`, what is a hexadecimal digit, `x`,
the rest), digits in two, and what else the rules tell apart; `b`, `o` and `_`, of `0b1`, `0o7`
and `1_000`, and `1`, `8` and `9` are not among them.

### Requests

The four requests that are answered from an analysis, on a file that is first indexed to its
end (`parse`, the walk of `Indexer`) and then asked any number of times: `AskAtPosition` and
`AskForSymbols` are what the editor sends, `search` the steps of `fileCst.search` (`CstSearch`
as an instance, on the tree of the same nodes), `AnswerAtPosition` and `onDocumentSymbol` the
answers. Ranges are pairs of positions; what a hover shows is its name and range. A search
that throws makes the handler throw. The reference for the answers is that of `Indexer`:
which predicates the clauses are of, and which the goals call.

### Parser, ParserReference

`Parser` is the reader of one clause. The code's generators become a machine: the `call` that
runs, the `frames` that wait for what it yields, and `choices`, the suspended generators with
what they waited for, the newest resumed first. A loop over readings is a frame; taking only
the first reading (`.next().value`), as arguments, lists and dicts do, is a frame `once` that
cuts the suspended generators behind it, and what they had still to delete is never deleted.
The annotations the code leaves on tokens are sets of positions: `infix`, `postfix`, and
`braced` for the opening braces whose value is "{}" while the rest of the clause is read.
`errors` are the tokens diagnostics were pushed at, `last` is what `Parser.next` has got.
Taking a property of something `undefined` is the call `throw`.

Actions have the names of the code: `read` (a disjunct for each of its branches), `atom` (its
common end), `after_prefix_op`, `exprtl0`, `ambigop`, `exprtl`, `postfix_operator`, `read_args`,
`read_list`, `expect_bracket`, `read_key` and `read_value` (of `read_dict`), `next`; `once`,
`operand`, `restore`, `return` and `resume` are what generators do between them. Tokens are
their type and, for atoms, a name. Values of nodes, and the wording of errors, are left out.

`ParserReference` says what tokens mean by the grammar of terms with operators: the readings
of every part of a clause from those of shorter parts. It has the choices of the dialect that
the code makes: a name in front of `{` is a tag, `-` in front of an integer its sign, and an
operator stands alone only inside brackets. What the parser does beside that are liberties,
each with a name, which the readings are given or not:

* `term` and `tag`: an operator may be a term of its own anywhere, and one in front of a brace may
  take what is in it for its operand instead of being its tag.
* `brace`: an operator in front of a brace may be the tag of an empty dict. A name with an operator
  before it, in what is tried as a dict and given up, leaves the value "{}" on a brace that is
  then read again, and `a ? - { :- : { - a }` is read to its end with a brace open. What does
  hold there is `BracesStayBehind`: no term is read that starts at or before a brace whose value
  a suspended generator has still to put back.
* `past`: a comma or bar that ends a term by its context does not end one that is an operation, or
  an operator. This is where the code disagrees with its own documentation (section 5).
* `strong`: a comma takes an operation of 1000 on its left, a bar one of 1100, though both are
  right-associative: `exprtl` compares with the operator itself, not with one less.

`KeptIsMeant` says that what is kept for a clause is a meaning of the tokens it was read from,
with these liberties and no others, for every clause. `MeantIsAccepted` is the other direction:
a clause that has a meaning with no liberty at all is read to its end. It leaves out what is
known to part the two: an operator in front of a comma inside brackets (`OperatorBeforeComma`,
section 5), an operator after which reading may go on in more than one way where only the first
reading is taken (`AmbiguousFirst`: in the pairs of a dict, and behind a comma or a bar), and an
operator behind another and in front of a parenthesis, which is tried as the name of a compound
term only (`TakenForName`).

### CstNodes, CstSearch

`CstNodes` computes from a small program and a layout the token and the range that each
constructor of `cst2.ts` gives its node, `refreshEndToken` of lists included. `CstSearch` is
the search: `fileCst.search` bisects the clauses over lines, `Args.search` the arguments over
ranges, `checkFunctorRange` compares with the node's own token. All calls but the one of
`postfix_compound` are tail calls, so there is one activation: `method`, `node`, `low`,
`high`; `throwing` says that a `postfix_compound` has been entered, which throws its result.
A position is the number of its character, and its line a function of it. The proofs take the
shape of a file from an assumption (`WellFormed`), which TLC
evaluates on every file `CstNodes` makes.

### Indexer

The walk over the term of each clause, which `index` starts for each clause that the parser has read, and
the graph it fills. The calls of the walk are a stack (`calls`); each action is one function
of `indexer.ts` with one of its branches, and replaces its call by the calls it makes. A file
gives the terms, and of each node its class, value, arguments and subtree; names are tuples,
`<<value, n>>` for `value/n`. The call maps of `graph.ts` are left out: nothing calls
`addCall`. What directives do to operators and files is in `ModuleLoader`, what they add to
the graph is here.

The reference is the text of the clauses: `HeadsOf` and `GoalsOf`. What the code leaves out of
it is said in so many words. A clause with a module in front (`m:p.`, `m:(h :- b).`) has a head
in `HeadsOf` and none in `DefinedHeads`, which is what the properties are about, here and in
`Requests`: `index` (`indexer.ts:31-35`) walks it as the body of a grammar rule, renames `p`
to `p/2`, enters it as a reference and defines nothing. `GoalsOf` leaves out what grammar rules
have under `\+`, and, unless asked for it, `m:g` in rules (section 5).

### MC modules

`MCLanguageServer`, `MCModuleLoader`, `MCWorkspace`, `MCLexer`, `MCParser`, `MCCstSearch` and
`MCRequests` give the constants their values for TLC: sets of programs, texts, token lists,
files.

## 3. The runs

| Run | Instance | Question |
|---|---|---|
| `session` | two documents, two contents each, two messages in flight, one request | Does any order of edits, closing, settings changes, answers, imports and requests leave a stale analysis, an outdated cached setting, settings of a closed document, a visible `undefined` entry, diagnostics against the setting, or answer a request from a content older than the one it was made about? |
| `faults` | the same without requests and with one message in flight; parses may throw, imports may fail, configuration requests may be answered with an error, which is cached | Is an undefined entry the only new outcome, and is the abstract store still implemented? |
| `liveness` | one document, three contents, fairness | Does the analysis catch up, is every request answered, does every validation end? |
| `imports` | three files, all import graphs of at most two imports each; two files with every kind of definition and export list | Does a file have the operators, and its terms the readings, that its program and its imports mean, whatever was validated before? Is no file parsed inside its own parse? |
| `workspace` | three files that define an operator or import one another, opened, edited once and saved between three validations, parses that may throw | Does an importer go stale in the one way it must (an import analysed after it), and in no other? Does every validation end, and is the abstract store implemented? |
| `lexer` | every text of up to three characters or pairs of them, and of up to five out of those that quotes, comments, numbers, hexadecimal codes and brackets are made of | Is a text that is not broken cut into its clauses, are exactly the invalid characters reported, is every clause in front of the next, and does the tokenizer never stop before the end? |
| `parser` | every list of up to five operators or arguments, six list tokens, dicts of seven, terms in braces with an operator before one of them, and inside what is tried as a dict | Is what is kept a meaning of the clause, is every clause that has one accepted (three named kinds apart), does the reader end, throw nothing, and stay behind the braces whose value it has changed? |
| `parser_comma` | two arguments, the first with operators | Violated: see section 5. |
| `search` | terms of two nested forms, and three clauses on lines of their own | Has the node a search ends at its token at the position, and does every position with a token have one? |
| `search_postfix` | the same files | Violated: see section 5. |
| `requests` | a clause of every form, bodies of two nested forms, and two clauses of a few, indexed; and every request at every position of three clauses, set tightly, one with spaces and no end, clauses with a module in front among them | Is every head and goal, the known gaps apart, in the graph under the name of its predicate, and nothing under a name that has changed? Do definitions lead to all clauses of the predicate at the cursor and no others, references to its goals, has the outline every predicate once, do ranges fit together, and is every request answered? |
| `requests_qualified` | the same files | Violated: see section 5. |

Bounds, and why they are enough.

* Session. Two contents per document give two overlapping validations of one document, one of
  a closed document beside one of the document opened again, and, with a second document, an
  import of the first at each of these moments; `liveness` goes to three contents. Four runs
  and four promises are as many as contents in all, so the model never blocks for want of
  one. Two messages in flight let an answer and a change of settings pass in either order of
  sending, with the queue growing past the bound by the answers.
* Loader. Three files give cycles of every length up to three, self imports, and a file that
  is reached on two ways; three validations (`MaxValidations`) give each file one, or one file
  two with another between them. The precedences are 0, one below and one above another, one
  above the maximum, and `NaN`; the names one builtin, one defined, one reserved.
* Parser. A reading needs an operator of each kind on either side of another; five tokens give
  a prefix, an infix and a postfix operator with two operands, six a list with a tail or two
  braces with an operator in front of one of them, seven a dict with a key, a value and a
  second pair begun. Each alphabet has the tokens one branch of `read` asks for, beside one
  operator; a token the branch does not ask for ends the reading.
* Search. Two nested forms are all pairs of a node and the node it is searched from, tight and
  with spaces, so that tokens touch and do not. Three clauses give the bisection over lines
  a middle and both sides.
* Workspace. Three files and three validations give an import that is analysed before its
  importer, after it, and between two analyses of it, with the file in between being open or
  read from disk; one edit makes the two programs of a file differ, a save makes the file
  follow, and an edit of the second file makes and breaks a cycle.
* Lexer. The longest thing that matters is a delimiter, an escape, a delimiter, and what
  follows up to a full stop; pieces of two characters (a full stop with its line end, `0'`, the
  ends of comments) make it five long.
* Indexer and requests. A body of two nested forms has each control structure inside each
  other. Three clauses have a clause before and behind the one that is asked for and two
  clauses of one predicate; requests are made one after another, of which each starts from
  what the last one left.

CHECK_DEADLOCK is FALSE where the system comes to rest: the loader when the bound on
validations is reached and the server idles, the parser when the clause is read, the indexer
at the end of a file of which no request is made. The lexer does not come to rest before
`parse` has returned: that it never does is checked as the absence of deadlock.

Fairness. Node runs a ready continuation or a received message whenever there is one
(`WF` of `Microtask` and `Macrotask`), the client answers (`WF` of `AnswerConfiguration`),
and a polling request looks again every 100 ms (`WF` of `PollAnswers`). A parse, a search and
a walk over a clause are synchronous calls: once begun they go on (`WF` of their steps), and so
does the handler of a request that has its analysis (`WF` of `parse` and `Serve`).
Nothing is assumed of the user: no fairness on edits, requests, validations or searches made.

## 4. What is proved

For every value of the constants (TLAPS, one module per component). None of the invariants
is inductive alone; each proof has an invariant that strengthens it, and one step per
action. Every invariant of the passing runs is a theorem but one, and every action property; section 6
has the rest.

`LanguageServer_proofs`, for every set of documents, promises, runs and requests and every
bound, from the assumptions that the markers are not numbers or promises
(`MarkersAssumption`) and the constants are typed (`ConstantsAssumption`):

* `TypeCorrect`. A continuation of a validation reads the text of its document, which is a
  text only because a running validation is attached to an open document or keeps the text of
  its closed one (`RunsHaveText`).
* `SettingsAreForOpenDocuments`: the cache holds settings of open documents only.
* `CacheIsCurrent`: a cached setting is current or about to be dropped. The invariant is about
  positions in the queue (`AnswersAreOvertaken`): an answer that is not the current setting
  has a configuration change behind it.
* `PendingIsNeverSeen`: without faults, an undefined entry waits for a ready continuation, so
  no handler or timer sees it.
* `PublishedUnderCurrentSetting`: an action property. Beside the two above it needs that a
  running validation is queued exactly where its settings say (`QueueInv`): then none can be
  between its settings and its publication when a configuration change is received.
* `ReadersSeeAStore`, the refinement of `AnalysisStore`: nobody who reads `DocumentManager` sees
  a document go back to an older content. Two validations of a document end in the order of
  their contents, although each waits for settings of its own: requests for settings are
  answered in the order they were made, over two queues (`PromisesInLine`), and of two
  validations of one document the one that waits for the earlier promise has no newer text
  (`RunsInOrder`). So what is stored is never newer than what any running validation will
  store (`AnalysesInOrder`).
* `StaleOnlyAwhile` and `AnswersAreNotOlder`: an open document has its last content analysed, and
  a request is answered from no older content than it was made about, unless a validation
  awaits settings or the last parse failed. The invariant follows the newest content from the
  editor through the connection to a validation and the store (`NewestIsDelivered`,
  `RequestsAreServed`).

`ModuleLoader_proofs`, for every finite set of files and every set of programs:

* `TypeCorrect`, `NoFileInsideItself` (a file on the stack has the entry `undefined`, and a file
  with that entry is not read), `ReservedOperatorsAreTold` (a parser that has an operator of a
  reserved name has the error), and `UndefinedAreUnreadable` (an undefined entry belongs to a
  parser on the stack or an unreadable file).
* `LoaderImplementsStore`, the refinement of `AnalysisStore`: while the stack is there, only
  entries that were absent, or that of the validated document, have changed since the
  validation began.
* `TablesAlwaysAgree`, `TermsAlwaysAgree` and `OperatorsAlwaysComeFromImports`: what was loaded is
  what `ModuleLoaderReference` says, for every import graph and every history of validations.
  The invariant (`LoaderFits`) is that what a parser has read so far and what it has ahead
  together mean what its file means. An import keeps it whichever branch it takes: a file that
  has an analysis has, by the same invariant, the table it means; one that is read now has it
  when its parser returns; and one whose entry is undefined cannot be read, or is on the
  stack. In the last case the importer reaches it and, as every file on the stack reaches
  those above it, is on a cycle with it, of which nothing is claimed. Terms agree while the
  builtin table is whole, and it only ever loses operators. The recursion of the reference is as
  deep as there are files, and a file that reaches no cycle reaches fewer (`AcyclicHeight`).
* `EveryStepOfALoadCounts`, an action property that no run has: every step of a validation
  enters a file that had no entry, or returns from a file, or puts lesser items in the place of
  the next one; and no file loses its entry meanwhile. As there are finitely many files and items,
  no validation goes on for ever, whatever imports what: a file that is met again has an entry,
  if only `undefined`.

The lemmas are about the steps of validations that read any program, and may throw (`Runs`), so
that they serve `Workspace` too.

`Workspace_proofs`, for every finite set of files, every set of programs and any number of edits:

* `NoFileInsideItselfWhileEdited`, `ReservedOperatorsAreToldWhileEdited` and
  `EditedLoaderImplementsStore`. A step of a workspace is a step of the loader, or changes
  nothing of the loader but a file on disk (`StepKinds`); for the first, a validation must be
  owed to an open document, whose text is a program (`TextTypeOK`).
* `StaleOnlyBehind`. Here an import may change behind its importer, so the invariant
  (`FollowInv`) says of a parser only that what it has read and has ahead mean what its text
  means when the imports it has taken have the tables they have now, whatever the others turn
  out to have (`ParsersFollow`), and of an entry that it follows from those of its imports while
  none was made after it (`EntriesFollow`). That it has the operators its texts mean is then
  shown from the files that import nothing upwards (`SettledAgree`).
* `EveryStepOfALoadCountsWhileEdited`: nothing but the loader itself changes what it has loaded,
  and the editor waits for a parse, so the measure of the loader serves here too.

`Lexer_proofs`, for every text of these characters:

* `EveryCharacterHasARule`, that a token comes next wherever the tokenizer is, since `ws` and
  `error` between them take every character; `TypeCorrect`; and `InOrder`, that the tokens of a
  clause follow one another and that a full stop lies between any two clauses, which is what
  `CstSearch` assumes of a file. The invariant is that what is gathered lies between the last
  full stop and the tokenizer's place.
* `ClausesAreAlwaysTheText` and `InvalidIsAlwaysReported`: the tokenizer cuts a text that is not
  broken where the reader of `LexerReference` does. The two go in step: where a token ends, the reader is in the
  middle of nothing that the next character goes on with, but for the blanks behind a number
  (`Ready`). Each of the sixteen rules takes such a place to such a place, and makes of its
  characters what the reader makes of them: words, nothing, an invalid character or a full
  stop (`Fits`). A quoted atom ends where the reader is first behind it, by descent from the
  end of the text, as the rule computes it (`QuotesClose`); a block comment ends because the
  text is well formed. What is not well formed stays so to the end of the text. The invariant
  (`TextInv`) then has the loop of `getTokens`, `Parser.next` and `Parser.parse` gather, between
  two full stops, the characters that stand there.

`Parser_proofs`, for every list of tokens and every operator table:

* `TypeCorrect`, `ThrowsNothing` and `BracesStayBehindReading`. The invariant `Sound` says that
  positions grow with age: a suspended generator reads at or before the running call, a frame
  waits for an operator in front of it, and the running call deletes annotations at its own place
  only. So no annotation is deleted under a loop that will read it again, and no term is read at
  a brace whose value is still to be put back. The one call that goes back (a name that turned
  out to be no tag of a dict) does so when nothing is suspended behind the name.
* `KeptIsAlwaysMeant`, that whatever was tried, annotated and given up, what is kept is what the
  grammar has for the tokens. The invariant (`MInv`) is stated for every table R of readings that
  is closed under the sixteen rules of the grammar: behind every call there is a part of the
  clause that R has a reading of, the term the call holds (`Stands`); and the frames form a chain
  (`AwaitAll`) from what the call is to read to the clause, where each frame waits for the part in
  front of it and completes its own by one rule (`AwaitsFor`). Suspended generators have the same
  said of them, and the annotations are those that the operator tables give (`Marked`). Each
  action moves the call, or a frame, by one rule. Then the readings of `ParserReference`, which
  are computed for longer and longer parts, are such a table (`ReadingsAreClosed`), because a
  longer part keeps the readings of shorter ones (`LayersKeep`).
* `EveryStepOfAReadingCounts`: backtracking comes to an end. Each position of the clause has a mark
  for what is still to be tried there (`Mark`): everything in front of the call, and behind it
  nothing but the names of open dicts. Every step puts calls in the place of the running one
  whose marks are less at the first position where they differ, or are the same while fewer
  frames wait, a term is yielded, or a loop over an operator has another turn (`IsLess`). The
  one call that goes back leaves a lesser mark at the name it goes back to. No run has this
  property; `EveryClauseIsRead` is what it is for.

`CstSearch_proofs`, for every file that is well formed: `TypeCorrect`, and `SearchIsCorrect`,
that what `fileCst.search` returns has its token at the position, and that it returns something
wherever the only clause of a line has a token. The invariant is that of bisection, that
whatever is at the position is inside the window, carried down the tree. `EverySearchNarrows`
says that every step leaves less to be searched: a smaller window of an array, or a part of the
tree without the node it was left from. It is there that a file must be a tree (no node is below
one of its own arguments, `IsNested`) of finitely many nodes (`IsFile`); without the first the
search could go round for ever.

`Indexer_proofs`, for every file whose terms are trees:

* `TypeCorrect`; `NamesAlwaysAgree`, that what the graph has under a name has that name;
  `CallersAlwaysMatch`, that a clause that defines a name has a caller node of that name;
  `CallersAreKept`, that it never changes. The invariant is that a call that may rename nodes
  has its subtree for itself: no other call on the stack, and nothing in the graph, is in it.
* `HeadsAreAlwaysDefined` and `GoalsAreAlwaysReferenced`, that the graph is complete, but
  for the three gaps named in section 2 (clauses with a module in front, `\+` in grammar rules,
  `m:g` in rules): every other
  clause is under the head that its text gives it, every goal under the name it calls, however
  deep modules, pushbacks and control structures are nested. The invariants (`HeadsInv`,
  `GoalsInv`) say that a goal is entered already or is found below a call that is still on the
  stack. That the reading of a term has one meaning for terms of any depth rests on there being
  no infinite descent in a finite tree (`LowestNode`, `Recursion`).

* `EveryWalkDescends`: in the place of a call come calls for what is below its node, or the one
  call that enters the node itself, so the walk over a clause comes to an end.

`Requests_proofs`, for every file of which requests may be made, from the assumption that its
tree is well formed and is that of its terms (`TreesAssumption`):

* `RequestsOnlyRead`, that with the requests the graph, the names and the callers go through a
  behaviour of `Indexer`, so that what is proved of it holds of them too
  (`NamesAgreeForRequests`, `CallersMatchForRequests`, `GraphIsCompleteForRequests`); the search
  of a request is one of `CstSearch`, with the theorems of `CstSearch_proofs` for it.
* `DefinitionsAreAlwaysFound`, `ReferencesAreAlwaysFound` and `OutlineIsAlwaysComplete`, that
  answers are complete, with the gaps of the graph, and have nothing else in them: the node the search finds is the one at
  the cursor, its name is that of its predicate since the walk is over, and the graph is
  complete. `OneNameIsShown` says it of the places that are shown.
* `RangesAlwaysFit`, that the range a symbol or a link selects is in that of its clause: the
  caller of a clause is a node of its tree, whose ranges are nested.
* `SearchesOfRequestsNarrow`, that the search a request waits for leaves less with every step.

Induction over data is not to be had from the library here, and is done by hand where it is
needed: a non-empty set of numbers has a least one, a non-empty set of nodes a lowest one, and
the function that a recursion computes is shown to exist step by step (`Least`, `Induction` and
`Iterates` in `ModuleLoader_proofs`; `Along`, `Downwards` and `ModesAre` in `Lexer_proofs`;
`LowestNode` in `Indexer_proofs`; `ByInterval` and `LayersExist` in `Parser_proofs`).

## 5. What is found

* `search_postfix`: `postfix_compound.search` throws what it should return (`cst2.ts:200`); a
  request at a postfix term, or inside it, is answered with an error.
* `requests_qualified`: for a goal `m:g` of a rule, `ruleBody` goes into `m` twice and never into
  `g` (`indexer.ts:79-80`); Find References on `g` misses it.
* `parser_comma`: `exprtl` (`parser-on-moo.ts:615`) does not look at `COMMA_TERMINATES`, which
  `context_flags.ts:9-11` documents as unconditional; `a(- a, a)` and `a(a = a, a)` are read with
  one argument (not so `a(-, a)`, where `read` yields the operator at once).

Noted beside these, where no line of the repository promises anything else: diagnostics stay
after they are turned off (`server.ts:122`), and `op(0, ...)` of one document takes a builtin
operator away from all later parses (`operators.ts:33`); and a clause that is only a full stop
ends the analysis of the file (`parser-on-moo.ts:78`). Two more gaps are said with the modules
they belong to (section 2): a clause with a module in front is defined under no name
(`indexer.ts:31-35`), so that the outline lacks its predicate and Goto Definition does not lead
to it; and `0'\u0041` is no character code (`lexer-by-moo.ts:33`).

## 6. What is left to model checking

* Liveness (`EveryRequestAnswered`, `EveryValidationEnds`, `ImplementsFairStore`, `EveryLoadEnds`,
  `EveryRequestIsServed`, `EveryClauseIsRead`, and that the lexer reaches no deadlock before the
  end of the text): fairness and ENABLED are outside what the prover handles. Proved of these are
  the action properties that they rest on where something runs in a loop or recursively: that no
  step of a load, of the reading of a clause, of a walk over one or of a search fails to leave
  less to do (`EveryStepOfALoadCounts`, `EveryStepOfAReadingCounts`, `EveryWalkDescends`,
  `EverySearchNarrows`). That the orders they name are well-founded is said in their comments
  and proved nowhere.
* `MeantIsAccepted`: that a reading is found if there is one. It needs that what was not tried
  could not have been meant, which is an exchange of one reading for another at each place where
  the reader takes an operator without leaving a generator behind.
* That trees are well formed, which `CstSearch_proofs` and `Requests_proofs` assume, is checked on
  the files that `CstNodes` and `MCRequests` make.

## 7. What is not modelled

* Of the lexer: moo itself, which is taken to try the rules in their order, and the texts
  that `LexerReference` leaves out. `text.ts` is a Prolog file in a string.
* Completion and completion item resolution answer with fixed samples; the handlers of the
  call hierarchy are commented out.
* Operators, files and settings as one system: `Workspace` has the loader with its editor,
  `LanguageServer` the waits, `Requests` the answers; what they take of each other is
  `AnalysisStore`.
* Helpers (`utils.ts`, `pushDiagnostic.ts`), but for the tokens that diagnostics are pushed at.
* The client, but for what `LanguageServer` assumes of it (order of messages, answers to
  configuration requests, notifications of changes).
* `src/client/src/test` is left from a sample extension, `src/junk` are earlier attempts that
  nothing imports.

## 8. Plan

1. `MeantIsAccepted` as a theorem: of the readings of a clause there is one that takes every
   operator as early as it can, and the suspended generators, with the running call, are always
   on the way to it.
2. `Lexer` and `Parser` as one: the tokens of a clause with their types, with `open` and
   `open_ct` told apart by the layout, handed on to the reader of the clause.
