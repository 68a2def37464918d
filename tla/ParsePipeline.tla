---------------------------- MODULE ParsePipeline ----------------------------
(***************************************************************************)
(* One document of the language server, from edit to tree:                 *)
(* LanguageServer/ParseQueue.cs with its ParseTask, and the parse part of  *)
(* ProjectEntry.cs (BeginParse, ActivePythonParse, WaitForCurrentParse,    *)
(* UpdateDocument, ResetDocument).                                         *)
(*                                                                         *)
(* A task is one call of ParseQueue.Enqueue with the ParseTask it makes.   *)
(* An editor's task changes the document first, as the handlers of         *)
(* didOpen, didChange and didClose do, which the server runs one at a      *)
(* time; other tasks (reload, added files) come at any moment.             *)
(*                                                                         *)
(* The text of a document is the number of the edit that made it, so a     *)
(* larger text is a newer one.  A tree is the text it was parsed from.     *)
(***************************************************************************)
EXTENDS Integers, FiniteSets

CONSTANTS
  Tasks,
  Editors,    \* the tasks that edit the document first
  Readers,    \* threads that call WaitForCurrentParse
  EditKinds,  \* the edits made: a subset of {"open", "change", "replace", "close"}
  MaxVersion, \* bound on document versions
  None

ASSUME PipelineAssumption ==
  /\ IsFiniteSet(Tasks) /\ Editors \subseteq Tasks
  /\ EditKinds \subseteq {"open", "change", "replace", "close"}
  /\ MaxVersion \in Nat
  /\ None \notin Tasks /\ None \notin Int
  /\ None \notin [version : -1 .. MaxVersion, tree : Nat]

VARIABLES
  text,     \* the document's content
  version,  \* its version, -1 while the file on disk is the content
  tree,     \* ProjectEntry.Tree, None before the first parse
  cookie,   \* ProjectEntry.Cookie: None, or the version and tree of a parse
  treeBy,   \* history: the number of the parse that set the tree
  kept,     \* what an edit has read: the tree, treeBy and the version before it
  event,    \* _pendingParse.IsSet
  expected, \* _expectedParse
  last,     \* _parsing[uri]: the task enqueued last
  count,    \* _parsingInProgress
  pc,       \* where each task is
  number,   \* _expected of the task's ActivePythonParse
  previous, \* the task it continues after, while it is queued
  covers,   \* history: the content when the task was created, until it is disposed
  basis,    \* the last parse that its ParseWorker works from, until it has parsed
  parse,    \* what its ParseWorker returned
  reader,   \* where each reader is
  owed,     \* history: the content that the current parse covers as a reader
            \* starts, until the reader returns
  overtaken \* history: the version went down while a parse was running

docVars == <<text, version>>
entryVars == <<tree, cookie, treeBy, kept, event, expected>>
taskVars == <<number, previous, covers, basis, parse>>
readerVars == <<reader, owed>>
vars == <<docVars, entryVars, last, count, pc, taskVars, readerVars, overtaken>>

\* unstarted, queued and started are the states of ParseTask; DISPOSED is
\* "done".  The others are the places between its locked steps.
TaskStates == {"idle", "clearing", "edited", "created", "reset", "unstarted", "queued",
               "started", "parsed", "failed", "completed", "done"}

NoTree == [tree |-> None, by |-> 0, version |-> -1]

Parses == [version : -1 .. MaxVersion, tree : Nat]

Init ==
  /\ text = 0 /\ version = -1
  /\ tree = None /\ cookie = None /\ treeBy = 0 /\ kept = NoTree
  /\ event = TRUE /\ expected = 0
  /\ last = None /\ count = 0
  /\ pc = [t \in Tasks |-> "idle"]
  /\ number = [t \in Tasks |-> 0]
  /\ previous = [t \in Tasks |-> None]
  /\ covers = [t \in Tasks |-> 0]
  /\ basis = [t \in Tasks |-> None]
  /\ parse = [t \in Tasks |-> None]
  /\ reader = [r \in Readers |-> "idle"]
  /\ owed = [r \in Readers |-> 0]
  /\ overtaken = FALSE

Goto(t, place) == pc' = [pc EXCEPT ![t] = place]

-----------------------------------------------------------------------------
(* Edits                                                                   *)

\* A change, a whole-buffer replacement, a didOpen or a didClose, by the
\* versions before and after.
MayEdit(kind, v) ==
  CASE kind = "open"    -> version = -1 /\ v \in 0 .. MaxVersion
    [] kind = "change"  -> version >= 0 /\ v = version + 1 /\ v <= MaxVersion
    [] kind = "replace" -> version >= 0 /\ v \in 0 .. version
    [] OTHER            -> version >= 0 /\ v = -1

\* Broken variant: only ResetDocument clears the cookie.
ClearsCookieOnReset(kind, v) == kind \in {"open", "close"}

\* UpdateDocument clears the cookie if the version did not increase,
\* ResetDocument always.
ClearsCookie(kind, v) == kind \in {"open", "close"} \/ v <= version

Running == {t \in Tasks : pc[t] \in {"started", "parsed"}}

\* UpdateDocument or ResetDocument, under the lock of the buffers up to the
\* lock of SetCurrentParse(Tree, null, false): its argument is read here.  The
\* server handles one edit at a time, up to the return of Enqueue.
Edit(t) ==
  /\ t \in Editors /\ pc[t] = "idle"
  /\ \A u \in Editors : pc[u] \notin {"clearing", "edited", "created", "reset", "unstarted"}
  /\ \E kind \in EditKinds, v \in -1 .. MaxVersion :
       /\ MayEdit(kind, v)
       /\ version' = v
       /\ text' = text + 1
       /\ \/ /\ ClearsCookie(kind, v)
             /\ kept' = [tree |-> tree, by |-> treeBy, version |-> version]
             /\ Goto(t, "clearing")
          \/ /\ ~ ClearsCookie(kind, v)
             /\ Goto(t, "edited")
             /\ UNCHANGED kept
  /\ UNCHANGED <<tree, cookie, treeBy, event, expected, last, count, taskVars, readerVars,
                 overtaken>>

\* The locked part of SetCurrentParse, still under the lock of the buffers: a tree
\* that a parse has set since Edit is replaced by the one read before.
WriteBack(t) ==
  /\ t \in Editors /\ pc[t] = "clearing"
  /\ tree' = kept.tree /\ treeBy' = kept.by
  /\ cookie' = None
  /\ overtaken' = (overtaken \/ (version <= kept.version /\ Running # {}))
  /\ kept' = NoTree
  /\ Goto(t, "edited")
  /\ UNCHANGED <<docVars, event, expected, last, count, taskVars, readerVars>>

-----------------------------------------------------------------------------
(* ParseQueue.Enqueue                                                      *)

\* new ParseTask: _parsingInProgress.Increment().
Create(t) ==
  /\ pc[t] = IF t \in Editors THEN "edited" ELSE "idle"
  /\ count' = count + 1
  /\ covers' = [covers EXCEPT ![t] = text]
  /\ Goto(t, "created")
  /\ UNCHANGED <<docVars, entryVars, last, number, previous, basis, parse, readerVars, overtaken>>

\* BeginParse: _pendingParse.Reset(), before the lock.
ResetEvent(t) ==
  /\ pc[t] = "created"
  /\ event' = FALSE
  /\ Goto(t, "reset")
  /\ UNCHANGED <<docVars, tree, cookie, treeBy, kept, expected, last, count, taskVars,
                 readerVars, overtaken>>

\* BeginParse: the locked part.
TakeNumber(t) ==
  /\ pc[t] = "reset"
  /\ expected' = expected + 1
  /\ number' = [number EXCEPT ![t] = expected + 1]
  /\ Goto(t, "unstarted")
  /\ UNCHANGED <<docVars, tree, cookie, treeBy, kept, event, last, count, previous,
                 covers, basis, parse, readerVars, overtaken>>

\* AddOrUpdate with ContinueAfter, then Start: UNSTARTED -> QUEUED.
\* DisposeIfNotStarted then finds the task started.
Start(t) ==
  /\ pc[t] = "unstarted"
  /\ previous' = [previous EXCEPT ![t] = last]
  /\ last' = t
  /\ Goto(t, "queued")
  /\ UNCHANGED <<docVars, entryVars, count, number, covers, basis, parse, readerVars, overtaken>>

-----------------------------------------------------------------------------
(* ParseTask.StartWork, on the thread pool                                 *)

\* _tcs of a task has its result or exception before the task is disposed.
TaskEnded(t) == pc[t] \in {"completed", "failed", "done"}

\* Broken variants: no chain; a chain that a failed parse breaks.
MayRunAtOnce(t) == TRUE

MayRunAfterSuccess(t) ==
  previous[t] # None =>
    TaskEnded(previous[t]) /\ parse[previous[t]] # None

\* previous.ContinueWith(StartAfterTask), whatever the outcome.
MayRun(t) == previous[t] # None => TaskEnded(previous[t])

\* QUEUED -> STARTED, and GetCurrentParse of ParseWorker.
TakeLastParse(t) ==
  /\ pc[t] = "queued" /\ MayRun(t)
  /\ basis' = [basis EXCEPT ![t] = cookie]
  /\ previous' = [previous EXCEPT ![t] = None]
  /\ Goto(t, "started")
  /\ UNCHANGED <<docVars, entryVars, last, count, number, covers, parse, readerVars, overtaken>>

\* Broken variant: the comparison the other way round.
MayReuseOlder(t) ==
  version >= 0 /\ basis[t] # None /\ basis[t].version <= version

\* The last parse is as new as the document.
MayReuse(t) ==
  version >= 0 /\ basis[t] # None /\ basis[t].version >= version

\* ParsePythonEntry: ReadDocumentBytes, under the lock of the buffers, and the
\* parse of what it read.  It fails if there is nothing to read or no parser for the
\* entry (null), or if reading or parsing throws.
Parse(t) ==
  /\ pc[t] = "started" /\ \A u \in Editors : pc[u] # "clearing"
  /\ \/ /\ parse' = [parse EXCEPT ![t] =
                       IF MayReuse(t) THEN basis[t]
                       ELSE [version |-> version, tree |-> text]]
        /\ Goto(t, "parsed")
     \/ /\ Goto(t, "failed")
        /\ UNCHANGED parse
  /\ basis' = [basis EXCEPT ![t] = None]
  /\ UNCHANGED <<docVars, entryVars, last, count, number, previous, covers, readerVars, overtaken>>

\* Broken variant: any parse may set the tree.
AlwaysExpected(t) == TRUE

IsExpected(t) == expected = number[t]

\* Complete, then _tcs.SetResult.
Complete(t) ==
  /\ pc[t] = "parsed"
  /\ \/ /\ IsExpected(t)
        /\ tree' = parse[t].tree
        /\ cookie' = parse[t]
        /\ treeBy' = number[t]
        /\ event' = TRUE
     \/ /\ ~ IsExpected(t)
        /\ UNCHANGED <<tree, cookie, treeBy, event>>
  /\ Goto(t, "completed")
  /\ UNCHANGED <<docVars, kept, expected, last, count, taskVars, readerVars, overtaken>>

\* Broken variant: Dispose forgets the event.
DisposeSilently(t) ==
  /\ pc[t] \in {"completed", "failed"}
  /\ count' = count - 1
  /\ covers' = [covers EXCEPT ![t] = 0]
  /\ Goto(t, "done")
  /\ UNCHANGED <<docVars, entryVars, last, number, previous, basis, parse, readerVars, overtaken>>

\* STARTED -> DISPOSED and DisposeWorker: _parse.Dispose(), which does nothing
\* after Complete, and _parsingInProgress.Decrement().
Dispose(t) ==
  /\ pc[t] \in {"completed", "failed"}
  /\ event' = (event \/ (pc[t] # "completed" /\ IsExpected(t)))
  /\ count' = count - 1
  /\ covers' = [covers EXCEPT ![t] = 0]
  /\ Goto(t, "done")
  /\ UNCHANGED <<docVars, tree, cookie, treeBy, kept, expected, last, number, previous, basis,
                 parse, readerVars, overtaken>>

-----------------------------------------------------------------------------
(* WaitForCurrentParse                                                     *)

\* The parses begun and not ended.
PendingParses == {t \in Tasks : pc[t] \in {"unstarted", "queued", "started", "parsed"}}

\* The reader calls WaitForCurrentParse.
BeginWait(r) ==
  /\ reader[r] = "idle"
  /\ owed' = [owed EXCEPT ![r] =
                IF \E t \in PendingParses : IsExpected(t)
                THEN covers[CHOOSE t \in PendingParses : IsExpected(t)]
                ELSE 0]
  /\ reader' = [reader EXCEPT ![r] = "waiting"]
  /\ UNCHANGED <<docVars, entryVars, last, count, pc, taskVars, overtaken>>

\* _pendingParse.Wait returns.
PassEvent(r) ==
  /\ reader[r] = "waiting" /\ event
  /\ reader' = [reader EXCEPT ![r] = "passed"]
  /\ UNCHANGED <<docVars, entryVars, last, count, pc, taskVars, owed, overtaken>>

\* GetCurrentParse: the reader returns the tree as it is.
GetCurrentParse(r) ==
  /\ reader[r] = "passed"
  /\ reader' = [reader EXCEPT ![r] = "idle"]
  /\ owed' = [owed EXCEPT ![r] = 0]
  /\ UNCHANGED <<docVars, entryVars, last, count, pc, taskVars, overtaken>>

-----------------------------------------------------------------------------

\* What follows in a task once it has begun.
TaskStep(t) ==
  \/ WriteBack(t)
  \/ t \in Editors /\ Create(t)
  \/ ResetEvent(t) \/ TakeNumber(t) \/ Start(t)
  \/ TakeLastParse(t) \/ Parse(t) \/ Complete(t) \/ Dispose(t)

ReaderStep(r) == PassEvent(r) \/ GetCurrentParse(r)

Next ==
  \/ \E t \in Tasks : Edit(t) \/ Create(t) \/ TaskStep(t)
  \/ \E r \in Readers : BeginWait(r) \/ ReaderStep(r)

\* Threads inside a call, the thread pool and the parser keep running.
Fairness ==
  /\ \A t \in Tasks : WF_vars(TaskStep(t))
  /\ \A r \in Readers : WF_vars(ReaderStep(r))

Spec == Init /\ [][Next]_vars /\ Fairness

-----------------------------------------------------------------------------

IsNewest(t) == number[t] > 0 /\ \A u \in Tasks : number[u] <= number[t]

\* Every variable stays in its range, and no parse has a number still to come.
TypeOK ==
  /\ text \in Nat /\ version \in -1 .. MaxVersion
  /\ tree \in Nat \cup {None} /\ cookie \in Parses \cup {None} /\ treeBy \in Nat
  /\ kept \in [tree : Nat \cup {None}, by : Nat, version : -1 .. MaxVersion]
  /\ event \in BOOLEAN /\ expected \in Nat
  /\ last \in Tasks \cup {None} /\ count \in 0 .. Cardinality(Tasks)
  /\ pc \in [Tasks -> TaskStates]
  /\ number \in [Tasks -> 0 .. expected] /\ previous \in [Tasks -> Tasks \cup {None}]
  /\ covers \in [Tasks -> Nat]
  /\ basis \in [Tasks -> Parses \cup {None}] /\ parse \in [Tasks -> Parses \cup {None}]
  /\ reader \in [Readers -> {"idle", "waiting", "passed"}]
  /\ overtaken \in BOOLEAN
  /\ owed \in [Readers -> Nat]

\* The chain through _previous keeps the parses of a document apart: no two
\* ParseWorkers run at once, however their Enqueue calls interleave.
ParsesDoNotOverlap == \A t, u \in Running : t = u

\* An edit whose task has still to take its number.
EditPending == \E t \in Editors : pc[t] \in {"clearing", "edited", "created", "reset"}

\* Once the newest parse has completed, the tree stays its tree: neither an older
\* parse that ends later nor the tree that an edit writes back replaces it, although
\* tasks take their numbers, enter the chain and complete in different orders.  While
\* an edit is under way an older tree may be back; its own parse is still to come.
NewestParseStays ==
  \A t \in Tasks :
    (IsNewest(t) /\ pc[t] \in {"completed", "done"} /\ parse[t] # None /\ ~ EditPending) =>
      treeBy = number[t] /\ tree = parse[t].tree

\* The result of a task that the edit's handler waits for covers the edit: its
\* tree is not older than the document was when the task was created, although
\* ParseWorker may return an earlier parse; unless a parse was running when the
\* document's version went down.
EditIsCovered ==
  \A t \in Tasks :
    (parse[t] # None /\ ~ overtaken) => parse[t].tree >= covers[t]

Settled ==
  /\ \A t \in Tasks : pc[t] \in {"idle", "done"}
  /\ \E t \in Tasks : IsNewest(t) /\ parse[t] # None

\* When every task has ended and the newest did not fail, the tree is the tree
\* of the document as it is: no edit is left unparsed, and no parse works from a
\* cookie that an edit has made void.  The clearing of the cookie in UpdateDocument
\* and ResetDocument is enough for that, unless a parse was running when the version
\* went down.
ClearedCookieSuffices == (Settled /\ ~ overtaken) => tree = text

\* Every parse ends, also after one that failed.
EveryParseEnds == \A t \in Tasks : (pc[t] = "created") ~> (pc[t] = "done")

\* No reader is left waiting: the event is set after the last parse, also when
\* that parse fails or has been overtaken.
ReadersReturn == \A r \in Readers : (reader[r] = "waiting") ~> (reader[r] = "idle")

-----------------------------------------------------------------------------

\* "Returns the current tree if no parsing is currently pending, otherwise waits
\* for the current parse to finish and returns the up-to-date tree": a reader gets a
\* tree at least as new as the parse that was pending when it called; while no parse
\* has failed and no edit is under way, which are not what this is about.
WaitReturnsUpToDate ==
  [][\A r \in Readers :
       /\ reader[r] = "passed" /\ reader'[r] = "idle" /\ owed[r] > 0
       /\ ~ EditPending /\ \A t \in Tasks : TaskEnded(t) => parse[t] # None
       => tree # None /\ tree >= owed[r]]_reader
=============================================================================
