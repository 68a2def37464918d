# TLA+ models of Python Tools for Visual Studio

This directory models the concurrent core of PTVS in two parts: the pipeline of
the language server that turns document edits into parse trees, analyses and
diagnostics, translated from C#, and the two Python programs that run the user's
code for Visual Studio, the debugger and the process of the interactive window
in `ptvsd`. All sources are under `src/Python/Product`; `PROJECT.json` maps every
definition to its lines.

## 1. Inventory of the system

PTVS is a Visual Studio extension in C#, with Python programs that run inside the
interpreter. Its own logic falls into these parts.

### The language server and analyzer (`Product/Analysis`)

| Component | State it keeps | Operations | Hard behaviour | Correct when |
|---|---|---|---|---|
| `Infrastructure/PriorityProducerConsumer` | a list per priority, the waiters, the index of the first non-empty list, the dispose token | `Produce`, `ConsumeAsync`, `Dispose` | checks before the lock, registrations after it, delivery on the thread pool | index is the most urgent non-empty list; waiters only while empty; a key once; no value twice; loss only to cancelled waiters |
| `Intellisense/AnalysisQueue` | the queue above, `_enqueuedGroups`, the consumer task, the `AsyncLocal` current queue | `Enqueue`, `ExecuteInQueueAsync`, `WaitForCompleteAsync`, the consumer loop, `Dispose` | one consumer and many producers, inline execution inside the queue, exceptions, dispose in any step, results on the thread pool | one handler at a time, one group analysis for a group, completion waits for everything more urgent |
| `LanguageServer/VolatileCounter` | `_count`, the two waiters' completion sources | `Increment`, `Decrement`, `WaitForZeroAsync`, `WaitForChangeToZeroAsync` | lock free, compare-and-swap and exchange | waiters complete exactly when the counter reaches zero |
| `LanguageServer/ParseQueue` with `ParseTask` | the last task of each document, the counter of parses | `Enqueue`, `Start`, `StartWork`, `DisposeIfNotStarted`, `WaitForAllAsync` | chained tasks on the thread pool, four-state compare-and-swap protocol | parses of a document do not overlap, each ends and is counted once |
| `ProjectEntry`, `ActivePythonParse` | expected parse and analysis, their completion sources, tree, cookie, document buffers | `BeginParse`, `Complete`, `WaitForCurrentParse`, `UpdateDocument`, `ResetDocument`, `Analyze`, `GetAnalysisAsync` | parses ending out of order, edits during a parse | the tree returned is up to date, an old parse never replaces a newer one |
| `DocumentBuffer`, `LanguageServer/EditorFiles` | version and text, deferred changes, diagnostics by version | `Update`, `Reset`, `DidChangeTextDocument`, publish diagnostics | changes that come out of order or twice | each version is applied once and in order; diagnostics never go back |
| `LanguageServer/ProjectFiles` | entries by URI | `AddEntry`, `TryRemove`, `GetOrAddEntry` | concurrent open, close and reload | one entry a URI |
| `LanguageServer/Server` | the parts above, `_pendingParse`, `_pendingAnalysisEnqueue` | `DidOpen`, `DidChange`, `DidClose`, `EnqueueItem`, reload, `WaitForCompleteAnalysisAsync`, `Shutdown` | parse results and analysis crossing threads | every edit ends up parsed and analysed, waits are honest |
| analysis engine (`AnalysisUnit`, `Deque`, `DDG`, `DependentData`, `VariableDef`) | the work list, dependency sets, types | `Enqueue`, `Analyze`, `AddDependency`, `EnqueueDependents` | fixed point with re-enqueued units, versions, cancellation | every unit that read a changed value is analysed again |
| `ModuleTable`, `PythonAnalyzer`, `ModuleReference` | modules by name, references to missing modules | import, reload, removal | a module that appears after it was imported | importers see the new module |
| `IdDispenser` | free and used identifiers | `GetFreeId`, `FreeId` | reuse | no identifier twice |
| parser (`Product/Analysis/Parsing`) | none between calls | tokens, trees | sequential | grammar |

### Inside the user's Python process (`Product/PythonTools/ptvsd`)

| Component | State it keeps | Operations | Hard behaviour | Correct when |
|---|---|---|---|---|
| `debugger.py`: `Thread` and `DebuggerLoop` | `THREADS`; of each thread its stepping state, two locks, `_is_blocked`, `_is_working`, `unblock_work`, `detach`; `DETACHED`, `SEND_BREAK_COMPLETE` | the trace function, `block`, `unblock`, `run_on_thread`, `mark_all_threads_for_break`, the handlers of the client's requests, `detach_threads` | every thread of the program, the loop and the client race for these flags; a lock used as an event | a stop is reported before it is over; breaks, steps and evaluations are answered; a detached program runs free |
| `repl/__init__.py`: `ReplBackend`, `BasicReplBackend` | `execute_item` and its lock, `send_lock`, `input_event`, `input_string`, `exit_requested` | `_repl_loop`, `run_one_command`, `interrupt_main`, `read_line`, `exit_process` | a command thread interrupts the main thread, locks used as events | no message is cut, a command has one report, a read its own line, aborts and exits end |
| `ipcjson.py` | sequence numbers, a list of messages | `process_one_message`, `on_request`, `send_event` | an assertion ends the loop, other exceptions become a failed response | (as part of the debugger's loop) |
| `attach_server.py`, `ipython_client.py`, `wfastcgi.py`, profiler and test launchers | sockets, processes | start, serve | external programs | not modelled |

### The rest of the product

| Component | Why it is (not) a subject |
|---|---|
| `Product/Ipc.Json/Connection`: JSON messages, requests and responses, cancellation, dispose | concurrent, planned |
| `Product/Debugger`: processes, breakpoints, threads, the wire protocol with `ptvsd` | the client of `DebuggerThreads`; the rest is not modelled |
| `Product/PythonTools/Repl`: the command-processor thread of the interactive window | the window of `ReplBackend` |
| `Product/PythonTools/Intellisense`: `BufferParser`, `ProjectAnalyzer`, `TaskProvider`, and `Product/Analyzer`: the out-of-process analyzer | concurrent, planned |
| `Product/VSInterpreters`: interpreter discovery, package managers and caches | mostly registry, file and process access |
| `Product/PythonTools` projects, editor, options, commands | user interface and Visual Studio services |
| `Product/Cookiecutter`, `Product/Django`, `Product/TestAdapter`, `Product/Profiling`, `Product/EnvironmentsList`, `Product/LiveShare`, `Product/ImportWizard`, `Product/IronPython` | add-ins around the user interface and external tools |
| `Product/VSCode/AnalysisVsc/LanguageServer`: a JSON-RPC shell over `Server` with a `Prioritizer` that lets one document change at a time through | the prioritizer is planned |
| `Product/Miniconda`, `Typeshed`, `Pyvot` | vendored; nearly all Python lines of the repository are in these |
| `Common` | shared project system and windows of Visual Studio |

### How the components interact

An edit takes this way through the server, and each arrow crosses a thread:

    DidChange -> EditorFile / DocumentBuffer     (the caller's thread)
      -> Server.EnqueueItem                      ServerEnqueue
         -> ParseQueue.Enqueue -> ParseTask      ParsePipeline
              ProjectEntry.BeginParse/Complete   ParsePipeline
         -> continuation -> AnalysisQueue        AnalysisQueue
              PriorityProducerConsumer           PriorityProducerConsumer
              GroupAnalysis, DDG                 (the work list as a set)
    WaitForCompleteAnalysisAsync                 ServerEnqueue
      three waits on counters                    VolatileCounter

State is shared rather than sent: the queues, the counters, the fields of
`ProjectEntry`, each under a lock of its own or under `Interlocked`. What the
modules are about are the gaps between these locks.

The Python processes talk to Visual Studio over a socket, in both directions and
without waiting for each other, so a request may cross the event it is late for:

    AD7Engine, PythonProcess  --requests-->  DebuggerLoop     DebuggerThreads
                              <--events----  traced threads
    CommandProcessorThread    --commands-->  _repl_loop       ReplBackend
                              <--replies---  main thread

## 2. Modules

A module is one component. `PriorityQueue` is an abstract specification;
`MC*` modules give the constants their values; `*Proofs` and
`PriorityQueueRefinement` hold theorems (section 5).

| Module | Code | One step is |
|---|---|---|
| `PriorityQueue` | the promise of the queue: most urgent first, equal values merge, a hand-over to one who waits, losses only against consumers that gave up | an operation |
| `PriorityProducerConsumer` | `Infrastructure/PriorityProducerConsumer.cs` | a check before the lock, a critical section, a registration after it, a work item of the thread pool |
| `VolatileCounter` | `LanguageServer/VolatileCounter.cs` | one `Interlocked` or `Volatile` access |
| `ParsePipeline` | `LanguageServer/ParseQueue.cs` and the parse half of `ProjectEntry.cs`, for one document | a call, a critical section, or the stretch of a thread-pool task between two accesses to shared state |
| `AnalysisQueue` | `Intellisense/AnalysisQueue.cs` on a queue as `PriorityQueue` promises it | a call, a step of the consumer loop, a step of `Dispose` |
| `ServerEnqueue` | `EnqueueItem`, its continuation, the counters of documents, `WaitForCompleteAnalysisAsync` and `Dispose` of `LanguageServer/Server.cs`, on queues as `ParsePipeline` and `AnalysisQueue` promise them | a call, a critical section, the enter or the leave of a scope |
| `DebuggerThreads` | the threads of a debugged program and `DebuggerLoop` in `ptvsd/debugger.py`, with the debug engine as their client | a check or change of a shared flag, a critical section of `_block_starting_lock`, a visit of one thread by the loop |
| `ReplBackend` | `ptvsd/repl/__init__.py` and the command thread of the window | a lock operation, a message, a step of the command |

### PriorityProducerConsumer

`queues` is `_queues`, a sequence for each priority below `_maxPriority`;
`pendingTasks` is `_pendingTasks`, `firstAvailablePriority` is
`_firstAvailablePriority`. An item is one `Produce`, a call is one
`ConsumeAsync`. `BeginProduce` and `BeginConsume` are the checks of
`IsDisposed` before the lock; `HandToWaiter` and `EnqueueItem` are the two
branches of the critical section of `Produce` (the second with
`RemoveExistingValue` in it, `EnqueueNew` and `EnqueueAgain`); `TakeFirst` and
`Wait` are those of `ConsumeAsync`; `RegisterCancellation`, `CancelCallback` and
`ConsumeCallback` are what runs outside the lock. `Dispose` only cancels a
token: every effect of it is a callback.

### VolatileCounter

Workers increment and decrement, waiters wait for zero or for the change to
zero. `_count` and the field with the completion source are one variable each;
the sources that have been completed are a set. `Decrement`'s loop is
`ReadCount` and `CompareExchange`, then `NotifyZero` is the exchange of the
field and the completion of what was in it.

### ParsePipeline

A task is one `ParseQueue.Enqueue` and the `ParseTask` it makes. An edit of the
document comes before it (`Edit`: `UpdateDocument` or `ResetDocument`, with what they
do to the cookie). `BeginParse` is two actions, since `_pendingParse.Reset` is
outside the lock (`ResetEvent`, `TakeNumber`). `Start` puts the task behind the last
one of the document, `TakeLastParse` begins the work, `Parse` ends it (`MayReuse`
decides whether the tree of the last cookie is returned), `Complete` and `Dispose`
end the task. Readers are calls of `WaitForCurrentParse`. Where the cookie is
cleared, the code calls `SetCurrentParse(Tree, null, false)`, which reads `Tree`
before it takes the lock of the entry: the tree is read in `Edit` (`kept`) and
written back in `WriteBack`, and a parse that completes in between is undone. A
document's text is the number of the edit that made it, so "newer" is "greater"; what
a parse finds out about the text is left out.

### AnalysisQueue

The `PriorityProducerConsumer` is what `PriorityQueue` says of it, a set of
pairs of item and priority; equal entries merge and keep the smaller priority.
`ConsumerLoop` is split where it waits, where it gets an item and where it
looks at the cancellation. Handling an entry of a group is `AddGroup`,
`EnqueueGroup` and `ListUnit`: the entry's unit enters the analyzer's list, and
the item that works the list off is queued once. `RunFunction` and
`CallFunction` are the two ways of `ExecuteInQueueAsync`, from outside and from
within the queue.

### ServerEnqueue

A job is one `EnqueueItem`. The counters are the sets of the scopes they count;
their waits for zero are no better than what `VolatileCounter` shows of
`WaitForZeroAsync`. A wait may end as soon as its counter has been zero once, be it
before the wait began, since the source of that zero may still be in the field
(`dropped`, `TaskEnded`), and it has to end only if the counter stays at zero
(`MustEnd`). `zeroSeen` remembers the waits that did see a zero. A `Decrement` to
zero that meets a wait may throw; from `DisposeWorker`, and from the continuation
of a failed parse by way of `DoNotWait`, the exception ends the process (`MayThrow`,
`server` is `crashed`), while the other callers catch it. `Register` is
`GetDocumentParseCounter` under its lock, `Release` and `Notify` the end of the
`using` block, `RemoveCounter` and `WaitAgain` the two halves of
`RemoveDocumentParseCounter`, before and after its lock. `Continue` is the head
of the continuation with the `ThrowIfDisposed` that lies outside the `try`
block: a job that it ends is `leaked`, and its count with it.

### DebuggerThreads

A thread's place in its trace function is `pc`. `stepping` is `Thread.stepping`,
with one kind of step for into, over and out; `startLock` is
`_block_starting_lock` with its holder, and `released` says of each thread whether
its `_block_lock`, which is taken from the start and used as an event, has been
released. `SeeBreak`, `EndStep` and `Hit` are the three ways into `block()`:
`async_break`, the end of a step, a breakpoint. `ClearStepping` sets the state to
`STEPPING_NONE` and is a step of its own, because `block_maybe_attach` reads the
state again. `Enter` to `Wait` are what happens under the lock, `CheckDetached` to
`Leave` the loop of `block()`. The loop's handlers begin with `Begin` and visit
the threads one by one (`ResumeVisit`, `Evaluate`, `DetachVisit`); between two
visits everything else may happen. The client asks only for what its state
allows, and shows a stop or a running program.

Some interleavings break the properties in the code as it stands, and nothing
says that they cannot happen. Each is named in the history variable `mishaps` by
the action that notices it, and the properties hold up to these names:

| Mishap | What has happened |
|---|---|
| `lost` | a mark for a break came between the two looks at the stepping state, and the end of the step is reported as the load of the process |
| `cancelled` | a resume has cleared the mark of a break the client waits for |
| `marked` | a stop has marked threads that the resume under way has passed |
| `replaced` | a mark has replaced the stepping state of a thread whose step the client waits for |
| `late` | a resume or a detach has passed a thread on its way into `block()` |
| `overtaken` | a release has come while the thread leaves, and the next `block()` does not wait |
| `twice` | two threads have claimed the report of one break |
| `alone` | a thread at a removed breakpoint was resumed without the threads it has marked |
| `error` | a lock was released twice, an assertion failed, or a name was undefined |

### ReplBackend

`main` is the place of the main thread in `run_one_command`, `loop` that of the
thread of `_repl_loop`. `itemFree` and `inputFree` say that `execute_item_lock`
and `input_event` are released; both are locks used as events. An interrupt is
pending from `InterruptMain` on and arrives (`Interrupt`) wherever the main
thread neither waits for one of these two locks nor writes a message;
`AfterInterrupt` says where it leaves the thread, which at the turn from one command
to the next is one of three places, since the handler of `send_modules_changed`
swallows what it catches. Where it
arrives at a wrong moment, `mishaps` says so: before the command has begun
(`skipped`), after its report (`twice`), between the request for a line and the
wait for it (`orphaned`), in an exception handler or between two turns (`killed`). A
message is numbered with the command or the read it is about.

`ExitProcess` is what `exit_process` does before it raises `SystemExit`. It is part
of `Exit`, and again of `HandleError`, the handler that every error of `_repl_loop`
ends in, this `SystemExit` included. `window` follows `CommandProcessorThread`: it is
`left` when its thread has answered `EXIT` and ended; `Close` and `Kill` are the two
halves of `Dispose`, which sends the exit if it can, and then kills a process that
has not exited. Between the two the process may end by itself.

## 3. Runs

| Run | Instance | What it shows |
|---|---|---|
| `ppc` | 3 values of 2 keys, 2 calls, 3 priorities, one call with a token | the index, the merge, no value twice, no value demoted, one loss a cancellation, `Dispose` ends every call; the detailed queue implements `PriorityQueue` |
| `counter` | 2 scopes, 2 waits for zero, 1 for the change | no update and no wake-up is lost; waits end; an early end happens only through a shared source |
| `counter_throws` | 1 scope, 1 wait | violation: `Decrement` throws |
| `parse` | 2 edits that open, change or replace, a reload, a reader | parses apart, the tree of the newest stays, no edit is left out of the last tree, clearing the cookie is enough unless a parse was running, all end |
| `parse_wait` | as `parse`, with documents closed as well | violation: a reader gets a tree older than the parse that was pending |
| `analysis` | 2 calls for one entry, 1 for another of its group, 1 function, 3 priorities | a group is scheduled once, completion is true, waits cover what came before, everything is analysed |
| `analysis_dispose` | an entry of a group, one without, a function with a nested one, throwing handlers, `Dispose` from two sides | functions end, `Dispose` returns, the loop ends |
| `server` | 2 edits of a document, a wait, `Dispose`, early ends of waits and a crash | one counter a document, honest waits (but for an early end of the wait for `_pendingAnalysisEnqueue`), every edit ends analysed, no wait hangs |
| `debugger` | 2 threads, 2 requests of any kind, 1 stop of any kind | no resume overtakes a report, no thread stays stopped unseen, requests are answered, the loop returns, a detach frees every thread |
| `debugger_tracepoint` | 1 thread, 1 step, 2 stops | violation: a step that ends at a tracepoint is never reported |
| `repl` | 3 commands of any kind, 2 aborts, 3 lines, the window may close | no message is cut, a command has one report, a read its own line, requests end |
| `repl_exit` | 2 commands that read lines or go on for ever, 1 abort, 2 lines | violation: an error of the command thread does not end the process |

Bounds. The calls of a component are its processes, each made once, so the number of
calls bounds everything else; `MaxVersion` bounds versions and `QueueLimit` is 1 in
`server`, so that two overlapping edits reach the branch that takes four at the
code's 3. The instances have two parties for every race the code has (two producers
of a key, a reset and a completion, a removal and a registration, a stop and a
resume) and a third that overtakes where an order is at stake (`ppc`, `parse`). In
`debugger`, `MaxRequests` 2 lets a request cross the effects of the one before it, as
a continue and the break that follows it; one breakpoint (`MaxHits`) gives the client
a stop to answer, and steps and breaks give further stops. In `repl`, three commands
are one that is interrupted too late, one that gets the wrong report and one after
it; `MaxAborts` 2 lets a second interrupt meet the handler of the first. `repl_exit`
needs a line that an abort has left and another one while the second command runs.
`parse` does without documents that are closed, which `parse_wait` has; `server` has
no edit that is not to be analysed (`ParseOnly`), which the theorems about it cover.
`CHECK_DEADLOCK FALSE` is set everywhere since all calls end, in the code as in the
models, and since clients need not ask for anything.

Fairness. Weak fairness on each step of a call that has begun, of the thread
pool and of the consumer loop: a thread that can go on does. Locks are held for
one step, so weak fairness is enough. Nobody is obliged to produce, consume,
edit, wait or dispose; a thread in the compare-and-swap loop of the counter is
retried only when another has succeeded. In `DebuggerThreads` the traced threads
go on through their trace functions and the loop handles what it gets; nobody has
to run into a breakpoint and the client has to ask for nothing. In `ReplBackend`
both threads go on, the window reads its replies, a `Dispose` that has begun runs
to its end, and the user types the lines that are asked for; nobody has to close the
window; a command that goes on for ever is a kind of command, which
only an interrupt ends.

Each property has a mutant in `PROJECT.json`: a definition of the module,
named for what it breaks, that puts a plausible bug in the place of the code and
makes the run fail.

## 4. Findings

Each is a behaviour that a run reports, against a line of the repository.

1. `VolatileCounter.Decrement` may throw: the second look of `WaitForZeroAsync`
   completes the source with `TrySetResult`, then `Decrement`'s `SetResult` finds
   it completed (run `counter_throws`).
2. `WaitForCurrentParse` may return an old tree: `BeginParse` resets the event
   before it takes the lock, and a parse that completes in between sets it
   again (run `parse_wait`). The run leaves out waits that return while an edit is
   under way, when the tree that the edit writes back may be an older one, too.
3. A step that ends at a tracepoint is not reported, and its thread stays
   blocked: `on_legacyAutoResumeThread` names an undefined variable (run
   `debugger_tracepoint`).
4. An error in the command thread of the interactive window does not end the
   process: `exit_process` raises an exception out of the handler that was to wait
   and interrupt the main thread, and the end of the running command erases the
   request to exit. In the run the error is a second release of `input_event`, by a
   line that was typed for a read given up. The process goes on with nobody to
   receive commands until the window is closed or reset, whose `Dispose` kills it
   (run `repl_exit`).

Further behaviours that no doc promises otherwise, listed as hazards: the mishaps
of section 2; `WaitForZeroAsync` may end early because it shares a source that
belongs to an earlier zero, and if that is the wait for `_pendingAnalysisEnqueue`,
`WaitForCompleteAnalysisAsync` returns with edits that are not analysed; the
exception of finding 1 may end the process; an edit that clears the cookie may put
back the tree of an earlier parse, where it stays if the parse of the edit fails;
the bound on the parses of a document counts calls
and not parses; a parse
that runs while a version goes down stores its cookie after the edit has cleared
it, and the next parse may reuse the old tree (what `overtaken` leaves out in
`ClearedCookieSuffices`); a function that waits in a disposed analysis queue
never ends; an entry's group is queued at the priority of the request that is
handled and not of the most urgent one.

## 5. Proofs

Every invariant and every action property of the passing runs is also a theorem,
for all values of the constants that satisfy the named assumption of the module.
Each comes from an invariant that is inductive, often much stronger than the theorem.

| Module | Theorem | Says |
|---|---|---|
| `PriorityProducerConsumerProofs` | `TypeCorrect` | `Spec => []TypeOK`: in particular `ConsumeAsync` never takes the head of an empty list |
| | `IndexCorrect` | `Spec => []FirstAvailableIsMin` |
| | `AssertionHolds` | `Spec => []PendingOnlyWhenEmpty`, the `Debug.Assert` of both critical sections |
| | `OnePerKey` | `Spec => []AtMostOnePerKey` |
| `PriorityQueueRefinement` | `PlacesHold` | `Spec => []Places` |
| | `OnePlace` | `Spec => []EachItemInOnePlace` |
| | `OneLoss` | `Spec => []OneLossPerCancellation` |
| | `Refinement` | `Spec => ImplementsPriorityQueue` |
| | `NotDemoted` | `Spec => NeverDemoted` |
| `VolatileCounterProofs` | `TypeCorrect` | `Spec => []TypeOK` |
| | `CountCorrect` | `Spec => []CountIsOutstanding` |
| | `WakeupsArrive` | `Spec => []NoLostWakeup` |
| | `EarlyIsShared` | `Spec => []EarlyOnlyWhenShared` |
| `ParsePipelineProofs` | `TypeCorrect` | `Spec => []TypeOK` |
| | `ParsesApart` | `Spec => []ParsesDoNotOverlap` |
| | `NewestStays` | `Spec => []NewestParseStays` |
| | `Covered` | `Spec => []EditIsCovered` |
| | `CookieSuffices` | `Spec => []ClearedCookieSuffices` |
| `AnalysisQueueProofs` | `TypeCorrect` | `Spec => []Typed` |
| | `ScheduledOnce` | `Spec => []GroupScheduledOnce` |
| | `CompleteIsTrue` | `Spec => []CompleteMeansAnalyzed` |
| | `WaitCovers` | `Spec => []WaitCoversEarlier` |
| `ServerEnqueueProofs` | `TypeCorrect` | `Spec => []TypeOK` |
| | `OneCounter` | `Spec => []OneCounterPerDocument` |
| | `WaitsAreHonest` | `Spec => WaitIsHonest` |
| `DebuggerThreadsProofs` | `TypeCorrect` | `Spec => []TypeOK` |
| | `ReasonFirst` | `Spec => ReasonComesFirst` |
| | `NoneStopsUnseen` | `Spec => []NoStopUnseen` |
| `ReplBackendProofs` | `TypeCorrect` | `Spec => []TypeOK` |
| | `NoMessageIsCut` | `Spec => []SendsAreWhole` |
| | `LineIsMine` | `Spec => []LinesMatch` |
| | `ReportIsMine` | `Spec => []ReportsMatch` |

### The priority queue

The invariant of the lists is
`Inv == TypeOK /\ FirstAvailableIsMin /\ WaitersSeeNothing`. None of the three
parts is inductive alone. `TakeFirst` takes the head of
`queues[firstAvailablePriority]`, which is a value only since the index is on a
list with one (`FirstAvailableIsMin`); that the index stays there when a value
is added needs the ranges of `TypeOK`; and a value is added only when nobody
waits, which keeps `WaitersSeeNothing`: consumers wait only when the index is
past the last list. `PendingOnlyWhenEmpty` follows from the last two. One lemma
for each action whose effect on the lists is not immediate, then one step for
each action of `Next`.

`Apart(key, qs)` says that no two positions of the lists have values of one key,
for any key. Removing a position keeps the other values apart and leaves none with
the key of the removed one (`RemoveApart`), and adding a value whose key the lists
lack keeps them apart (`AddApart`). `EnqueueNew` is an addition, `EnqueueAgain` a
removal followed by an addition, `TakeFirst` a removal of the first position. With
the code's key this is `OnePerKey`; with each value as its own key it says that no
value is in the lists twice.

`PriorityQueueRefinement` starts from the second. The detailed queue keeps a value
in a list, in a work item of the thread pool, or in the result of a call, and the
abstract one knows only which values wait, which calls wait and what a call has
got. The two agree because the state of each `Produce` and `ConsumeAsync` agrees
with where its value and its `Pending` are. This is the invariant `Places`, in four
parts: `ListsMatch` (a value is queued exactly while a list holds it),
`WorkItemsMatch` (a value is handed exactly while one work item has it, and a call
has at most one), `ResultsMatch` (a value is delivered exactly while it is the
result of a call, of one only), `WaitersMatch` (a `Pending` is in `_pendingTasks`
once, and for as long as nobody has released it). `OnePlace` reads it off; `OneLoss`
counts, by a set of losses that does not outgrow the set of the waiters that were
cancelled and dropped (`NotMore`), since the two grow in one step.

`Refinement` maps the initial states and then each action: `EnqueueItem` to a put,
`HandToWaiter` to a hand-over or a loss, `TakeFirst` to a take, a cancellation that
ends a call in `_pendingTasks` to one that gives up, and everything else to a
stutter, delivery included, since the abstract queue has done with a value when it
hands it over. That `EnqueueAgain` replaces the only equal value needs `OnePerKey`.
The mapped state is named by operators of its own (before `Queue == INSTANCE
PriorityQueue` in the module), so that a step shows what becomes of each of them.
`NotDemoted` then needs only that the one step that replaces a value is the abstract
put, whose priority is no greater.

### The counter

The invariant is `CountInv /\ SourceInv /\ NoLostWakeup`. The count is right only
if every `Decrement` and `Increment` comes to its end, and both may throw at
`SetResult`. `SourceInv` has the reason why the first `SetResult`, that of the wait
for a change, never does: the source in `_waitForChange` is open, because whoever
completes it takes it out of the field first. The second may throw, as
`counter_throws` shows, but by then the count is written.

`EarlyOnlyWhenShared` is about calls that have ended, so the invariant
`OverlapInv` is about all that have begun: while the counter is zero or a zero is
being announced (`ZeroSeen`), every call that has begun overlaps a zero, so that a
source that is completed is that of a call which does, and so is a call that finds
zero at its first look. A call that ends early has therefore a source of another.

### The parse pipeline

That the chain keeps parses apart needs that it is one: `ChainInv` gives every
task that has been started a rank, each waits for a task of which no other is
between the two, and when a task has begun to work all those of lower rank have
ended. `TypeInv` ties the counter to the parses that are not done.

`ParseInv` adds what a tree is worth. `Numbering`: a number is given once and the
greatest is the one expected. `Freshness`: a parse that may be used again (the
cookie, what a running task has taken from it, a result not yet stored) is not of a
version to come, and if it is of the document's version its tree is of the
document's text; this is what `UpdateDocument` and `ResetDocument` keep by clearing
the cookie, until the version goes down while a parse is running (`overtaken`), and
except between the two steps of an edit that lowers the version (`Lowering`).
`Newest`: while no edit is under way (`EditPending`), the parse that is expected is a
parse of the present text, and when it has completed the tree is its tree: an edit
that wrote an older one back has taken a greater number since. `NewestStays` reads
this off, as the newest parse is the one expected (`NewestIsExpected`).
`EditIsCovered` alone is not inductive, since the result of a task may be an
earlier parse; `ClearedCookieSuffices` is the case of `Newest` with no task left.

### The analysis queue

`AnalysisInv` has nine parts. `Typed` is the type invariant, which no run repeats.
`Handling` and `Waiting` relate the place of the loop to what it has in hand and to
the queue. `Scheduling` is the heart of `GroupScheduledOnce`: a group in
`_enqueuedGroups` is in the loop's hand or has one item in the queue, never both,
and no other group has either; so `HandleAnalyzable` cannot queue a second one.
`Listing` says that units wait only for a group that is still to be analysed or is
being analysed, unless the analysis failed, so that an empty queue means that all is
analysed (`CompleteIsTrue`). For `WaitCovers`, `Queueing`, `Running`, `Listed` and
`Ended` (together `Marking`) make the state of each call agree with the place of its
item or its unit; `Ranking` keeps everything but functions out of the lowest
priority; `Merging` follows a call to the item it has merged into, and `Covering`
joins them: when the loop takes a function of the lowest priority nothing else is
in the queue at a more urgent one, so nothing that was queued before is left,
neither an entry nor a group nor a unit of a group.

`AnalysisQueueAssumption` has the assumption that the value for "no item" is not an
item (`None \notin Items`), as `null` is no `QueueItem`.

### The server

Two invariants are inductive. `CounterInv` adds to the first two properties that
the counter in `_pendingParse` was made for its document: what a call takes from
the dictionary is then the counter that all other holders have, and a counter
without holders can go. `WaitInv` follows an edit through what a wait looks at:
a job is counted by `_pendingAnalysisEnqueue` until it is handed over
(`PendingIsUnderWay`), a job handed over is in the analysis queue or analysed
(`HandedOverIsCovered`). Once a wait has seen the count at zero, all that it was
asked about has left it (`ZeroMeansEnded`) and stays so, also if the wait ends much
later; its last wait is then behind all of it (`LastWaitIsBehindAll`). Of a wait whose
source came from an earlier zero nothing is said, and nothing holds. That the parse
queue's counter comes first adds nothing to this: the second wait alone is enough,
so that an early end of the first does no harm.

### The debugger's threads

No resume and no evaluation reaches a thread before its report is out
(`ReasonFirst`): the invariant `Locked` says that a thread between `Enter` and `Wait`
holds its own `_block_starting_lock`, which `ResumeVisit` and `Evaluate` wait for;
`DetachVisit` and `ResumeThread` do not, and the property leaves them out.

`NoStopUnseen` speaks of a quiet program. The invariant behind it, `StopInv`, gives
every thread that stops an excuse at every moment: the client shows a stop; or a
resume of all threads is among the requests or has still to visit this one
(`Coming`); or a resume of one thread alone is among them (`Alone`), whose handling
is the mishap of that name; or a thread is claiming the report
(`Claiming`, and `Claimed` while `SEND_BREAK_COMPLETE` says that the next one will);
or the request that lets just this one go is sent (`Freed`). `BreaksShown` is about
the threads that are marked or on their way in, `StopsShown` about those inside,
`MarksShown` about those who do the marking, and `WorkInside` keeps an evaluation
from being taken for a release. Each excuse lasts until the step that ends it has
let the thread go or has been named as a mishap; in a quiet program whose client
shows it running none is left. `PlaceInv` has the facts about places that these
need: `_is_blocked` and `_is_working` say where a thread is, the loop knows every
thread, and a request is about a thread that exists.

### The interactive window

When an interrupt is pending, the main thread does not hold `send_lock`
(`NoMessageIsCut`): `_repl_loop` holds the lock while it interrupts (`Held`), and the
main thread does not go for the lock with an interrupt pending.

The other two theorems follow a token through the system. A read is a request on its
way to the window, then a question to the user, then a line on its way back, then
`input_string` with `input_event` released: `LineInv` says that it is in one of these
places and is about the last read, unless an interrupt has left a request behind
(`orphaned`) or the process is killed. A command is a message, then what the loop has
received, then `execute_item` with its lock released, then what the main thread
executes, then its report: `CommandInv` says that it is in one of these places and is
the one the window waits for. `Told` and `Once` are the messages of some kinds and
that there is one of them at most; four lemmas say what sending and taking do to
them. `ReportsMatch` allows at most one report at any time.

### Model-checked only

Liveness: `DisposeEndsCalls`, `ZeroWaitsEnd`, `EveryParseEnds`, `ReadersReturn`,
`EntriesAreAnalyzed`, `FunctionsEnd`, `DisposeReturns`, `EditsAreAnalyzed`,
`WaitsEnd`, `RequestsAreAnswered`, `LoopReturns`, `DetachFrees` and `RequestsEnd`.
They need fairness and with it `ENABLED`, which the proof system does not reason
about. `PriorityQueue` states no fairness, so its refinement is about safety.

## 6. Plan

Done: the way of an edit from the parts everything rests on (the priority queue,
the counter, the parse pipeline, the analysis queue, the server's enqueueing), and
the two Python processes (the debugger's threads, the interactive window).

Next, models:

1. `EditorFile`: `DidChangeTextDocument` with deferred changes on
   `DocumentBuffer.Update`, and diagnostics by version posted to one thread.
   Changes are applied once and in order; what is deferred is applied or expires.
2. `Prioritizer` of the VS Code server: document changes one at a time, requests
   behind them, cancellation before a turn.
3. `Connection` of `Ipc.Json`: a request is answered, cancelled or failed once.
4. Exceptions and attaching in `DebuggerThreads`; the reading of bytes in
   `ReplBackend`.
5. The work list of the analysis engine: `Deque`, `AnalysisUnit.Enqueue`, `DDG`,
   dependents analysed again after a change of what they read.
6. `BufferParser` and the out-of-process analyzer: versions of buffers.
7. `ProjectFiles` and `IdDispenser`.

Next, proofs:

1. The queue of `AnalysisQueue` (`waiting`, `Put`, `HandOver`, `Take`, `Lose`) as an
   instance of `PriorityQueue`, so that the two modules are joined by a theorem and
   not only by the way they were written. The items of groups that have been taken
   have to be remembered for the mapping.
2. An abstract counter, which `VolatileCounter` implements up to the shared sources,
   in the place of the description of its waits in `ServerEnqueue`.
3. The theorems of the models above, each with its model.

## 7. Not modelled

Inside the modelled components: in `ParseTask`, the branches of `Start` and
`StartWork` for a task that is not in the state its only caller leaves it in;
documents of several parts (one part stands for all, as each has its own
version); the timeouts of `WaitForCurrentParse` and the waits of `GetTreeAsync`;
the event `AnalysisStarted` and the order in which the thread pool runs the
handlers of events; in `Server`, the handlers of requests, settings and the
lists of entries; what `ParseComplete`, `AnalysisQueued` and the trace messages
tell the client; in `debugger.py`, conditions and counts of breakpoints, when a
step ends, exceptions, frames and their text, threads that start or end, attach,
modules, Django and Stackless, and connections that break; in `repl`, output,
members, signatures, files, the debugger's and the IPython backend, and the
reading of bytes.

Whole components: the parser and the evaluation of Python code translate data
without sharing state and are beyond a model checker; Visual Studio projects,
windows, interpreter discovery, package managers and the add-ins are calls into
user interface, registry, files and processes; attaching injects native code;
`wfastcgi.py`, the profiler, the test launcher and the scrapers are sequential
scripts. Most Python lines of the repository are a Miniconda distribution, type
stubs and samples by others, which are no part of the product's logic: the mapped
lines are a small share of all Python lines for this reason. `PROJECT.json` lists
each component with its reason.
