---------------------------- MODULE ServerEnqueue ----------------------------
(***************************************************************************)
(* Analysis/LanguageServer/Server.cs: what happens to an edit after the    *)
(* document has changed.  EnqueueItem hands the document to the parse      *)
(* queue, its continuation to the analysis queue, and two counters follow  *)
(* it: _pendingAnalysisEnqueue, on which WaitForCompleteAnalysisAsync      *)
(* waits, and a counter per document in _pendingParse.                     *)
(*                                                                         *)
(* A job is one call of EnqueueItem.  Parse queue and analysis queue are   *)
(* what ParsePipeline and AnalysisQueue promise: every parse ends, equal   *)
(* entries merge, what is queued is analysed.  The counters are the sets   *)
(* of scopes they count.  Their waits for zero are what VolatileCounter    *)
(* shows of WaitForZeroAsync: a wait ends if the counter stays at zero; it *)
(* may also end early, by a source that an earlier zero has completed or   *)
(* has still to complete; and SetResult may throw at the end of a          *)
(* Decrement that reaches zero.  A document counter is named after the job *)
(* that created it, and its _waitForZero is modelled as the code has it.   *)
(***************************************************************************)
EXTENDS Naturals, FiniteSets

CONSTANTS
  Jobs,
  Docs,
  Doc,        \* the document of each job
  ParseOnly,  \* the jobs with enqueueForAnalysis = false
  Waiters,    \* calls of WaitForCompleteAnalysisAsync
  QueueLimit, \* 3 in the code
  MayDispose, \* whether Server.Dispose may be called
  None

ASSUME ServerAssumption ==
  /\ Doc \in [Jobs -> Docs] /\ ParseOnly \subseteq Jobs
  /\ QueueLimit \in Nat /\ MayDispose \in BOOLEAN
  /\ None \notin Jobs

VARIABLES
  job,       \* where each job is
  holds,     \* its scope of the document's counter
  counter,   \* the counter it got from GetDocumentParseCounter, until it gives it back
  pendingParse, \* _pendingParse: the counter of each document
  source,    \* the counters with a completion source in _waitForZero
  removal,   \* where the removal continuation of each counter is
  pending,   \* _pendingAnalysisEnqueue: the jobs it counts
  parse,     \* the parse of each job
  parsing,   \* the parse queue's counter: the jobs it counts
  queue,     \* the analysis queue: the jobs whose document waits in it
  analyzed,  \* the jobs whose document has been analysed
  server,    \* Server.Dispose: open, then the queue disposed, then _disposed; or the
             \* process has crashed
  dropped,   \* which of the two counters a Decrement has ever brought to zero
  waiter,    \* where each waiter is
  ahead,     \* what its WaitForCompleteAsync waits for
  asked,     \* history: the jobs under way when it began, until it ends
  zeroSeen   \* history: the waiters whose counter has been zero since they began to
             \* wait for it; then those who have seen _pendingAnalysisEnqueue at zero
             \* and are not at their end

counterVars == <<holds, counter, pendingParse, source, removal>>
parseVars == <<parse, parsing>>
queueVars == <<queue, analyzed>>
zeroVars == <<dropped, zeroSeen>>
waiterVars == <<waiter, ahead, asked>>
vars == <<job, counterVars, pending, parseVars, queueVars, server, zeroVars, waiterVars>>

JobStates == {"idle", "threw", "counted", "registered", "enqueued", "skipping",
              "attached", "continuing", "handedOver", "done", "skipped",
              "failed", "leaked"}

Init ==
  /\ job = [j \in Jobs |-> "idle"]
  /\ holds = [j \in Jobs |-> "no"] /\ counter = [j \in Jobs |-> None]
  /\ pendingParse = [d \in Docs |-> None]
  /\ source = {} /\ removal = [j \in Jobs |-> "none"]
  /\ pending = {}
  /\ parse = [j \in Jobs |-> "none"] /\ parsing = {}
  /\ queue = {} /\ analyzed = {}
  /\ server = "open"
  /\ dropped = {} /\ zeroSeen = {}
  /\ waiter = [w \in Waiters |-> "idle"]
  /\ ahead = [w \in Waiters |-> {}] /\ asked = [w \in Waiters |-> {}]

Goto(j, place) == job' = [job EXCEPT ![j] = place]

\* The jobs whose call of EnqueueItem has begun.
UnderWay == {j \in Jobs : job[j] \notin {"idle", "threw"}}

Holders(c) == {j \in Jobs : holds[j] = "held" /\ counter[j] = c}

-----------------------------------------------------------------------------
(* EnqueueItem                                                             *)

\* Both counters are known by the stage in which they are waited for.
Waiting(stage) == {w \in Waiters : waiter[w] = stage}

\* A Decrement reaches zero: those who wait will be told.
ReachZero(stage) ==
  /\ dropped' = dropped \cup {stage}
  /\ zeroSeen' = zeroSeen \cup Waiting(stage)

\* SetResult throws if the second look of WaitForZeroAsync has completed the source:
\* where nobody catches it, the process ends.
MayThrow(stage) == {server} \cup {"crashed" : w \in Waiting(stage)}

\* Decrement of _pendingAnalysisEnqueue.
Uncount(j) ==
  /\ pending' = pending \ {j}
  /\ IF pending = {j} THEN ReachZero("enqueuing") ELSE UNCHANGED zeroVars

\* ThrowIfDisposed, and _pendingAnalysisEnqueue.Incremented().
Begin(j) ==
  /\ job[j] = "idle"
  /\ \/ /\ server # "disposed"
        /\ pending' = pending \cup {j}
        /\ Goto(j, "counted")
     \/ /\ server = "disposed"
        /\ Goto(j, "threw")
        /\ UNCHANGED pending
  /\ UNCHANGED <<counterVars, parseVars, queueVars, server, zeroVars, waiterVars>>

\* Broken variant: the call does not keep the counter it incremented.
RegisterForgetting(j) ==
  LET old == pendingParse[Doc[j]]
      c == IF old = None THEN j ELSE old
  IN
  /\ job[j] = "counted"
  /\ pendingParse' = [pendingParse EXCEPT ![Doc[j]] = c]
  /\ source' = IF old = None THEN source \cup {j} ELSE source
  /\ holds' = [holds EXCEPT ![j] = "held"]
  /\ Goto(j, "registered")
  /\ UNCHANGED <<counter, removal, pending, parseVars, queueVars, server, zeroVars, waiterVars>>

\* GetDocumentParseCounter, under the lock, and the look at the count.
Register(j) ==
  LET old == pendingParse[Doc[j]]
      c == IF old = None THEN j ELSE old
  IN
  /\ job[j] = "counted"
  /\ pendingParse' = [pendingParse EXCEPT ![Doc[j]] = c]
  /\ source' = IF old = None THEN source \cup {j} ELSE source
  /\ counter' = [counter EXCEPT ![j] = c]
  /\ holds' = [holds EXCEPT ![j] = "held"]
  /\ Goto(j, IF Cardinality(Holders(c)) + 1 > QueueLimit THEN "skipping"
             ELSE "registered")
  /\ UNCHANGED <<removal, pending, parseVars, queueVars, server, zeroVars, waiterVars>>

\* _parseQueue.Enqueue.
EnqueueParse(j) ==
  /\ job[j] = "registered"
  /\ parse' = [parse EXCEPT ![j] = "running"]
  /\ parsing' = parsing \cup {j}
  /\ Goto(j, "enqueued")
  /\ UNCHANGED <<counterVars, pending, queueVars, server, zeroVars, waiterVars>>

\* The end of the using block: Decrement down to its compare-and-swap.
Release(j) ==
  /\ job[j] \in {"enqueued", "skipping"} /\ holds[j] = "held"
  /\ IF Holders(counter[j]) = {j}
     THEN /\ holds' = [holds EXCEPT ![j] = "zeroed"]
          /\ UNCHANGED counter
     ELSE /\ holds' = [holds EXCEPT ![j] = "released"]
          /\ counter' = [counter EXCEPT ![j] = None]
  /\ UNCHANGED <<job, pendingParse, source, removal, pending, parseVars,
                 queueVars, server, zeroVars, waiterVars>>

\* The exchange of _waitForZero: the source found there schedules the removal.
Notify(j) ==
  /\ holds[j] = "zeroed"
  /\ holds' = [holds EXCEPT ![j] = "released"]
  /\ counter' = [counter EXCEPT ![j] = None]
  /\ source' = source \ {counter[j]}
  /\ removal' = IF counter[j] \in source
                THEN [removal EXCEPT ![counter[j]] = "scheduled"] ELSE removal
  /\ UNCHANGED <<job, pendingParse, pending, parseVars, queueVars, server,
                 zeroVars, waiterVars>>

\* ContinueWith; or the finally block of a job that does not parse.
Leave(j) ==
  /\ holds[j] = "released"
  /\ \/ /\ job[j] = "enqueued"
        /\ Goto(j, "attached")
        /\ UNCHANGED <<pending, zeroVars>>
     \/ /\ job[j] = "skipping"
        /\ Goto(j, "skipped")
        /\ Uncount(j)
  /\ UNCHANGED <<counterVars, parseVars, queueVars, server, waiterVars>>

-----------------------------------------------------------------------------
(* RemoveDocumentParseCounter                                              *)

\* Broken variant: the counter is not looked at again.
RemoveCounterUnchecked(c) ==
  /\ removal[c] = "scheduled"
  /\ pendingParse' = [pendingParse EXCEPT ![Doc[c]] = IF @ = c THEN None ELSE @]
  /\ removal' = [removal EXCEPT ![c] = "done"]
  /\ UNCHANGED <<job, holds, counter, source, pending, parseVars, queueVars,
                 server, zeroVars, waiterVars>>

\* The locked part.
RemoveCounter(c) ==
  /\ removal[c] = "scheduled"
  /\ \/ /\ Holders(c) = {}
        /\ pendingParse' = [pendingParse EXCEPT ![Doc[c]] = IF @ = c THEN None ELSE @]
        /\ removal' = [removal EXCEPT ![c] = "done"]
     \/ /\ Holders(c) # {}
        /\ removal' = [removal EXCEPT ![c] = "again"]
        /\ UNCHANGED pendingParse
  /\ UNCHANGED <<job, holds, counter, source, pending, parseVars, queueVars,
                 server, zeroVars, waiterVars>>

\* WaitForChangeToZeroAsync, after the lock.
WaitAgain(c) ==
  /\ removal[c] = "again"
  /\ removal' = [removal EXCEPT ![c] = "none"]
  /\ source' = source \cup {c}
  /\ UNCHANGED <<job, holds, counter, pendingParse, pending, parseVars, queueVars,
                 server, zeroVars, waiterVars>>

-----------------------------------------------------------------------------
(* The parse queue and the continuation                                    *)

\* The parse waits in its chain and runs; a result (null or not), or an exception.
EndParse(j) ==
  /\ parse[j] = "running"
  /\ \E outcome \in {"parsed", "faulted"} : parse' = [parse EXCEPT ![j] = outcome]
  /\ UNCHANGED <<job, counterVars, pending, parsing, queueVars, server, zeroVars, waiterVars>>

\* DisposeWorker of the ParseTask, on a thread of the pool: Decrement.
UncountParse(j) ==
  /\ j \in parsing /\ parse[j] \in {"parsed", "faulted"}
  /\ parsing' = parsing \ {j}
  /\ IF parsing = {j}
     THEN ReachZero("parsing") /\ server' \in MayThrow("parsing")
     ELSE UNCHANGED <<server, zeroVars>>
  /\ UNCHANGED <<job, counterVars, pending, parse, queueVars, waiterVars>>

\* Broken variant: a faulted parse keeps its count.
ContinueIfParsed(j) ==
  /\ job[j] = "attached"
  /\ \/ parse[j] = "faulted" /\ Goto(j, "failed")
     \/ parse[j] = "parsed" /\ Goto(j, IF server = "disposed" THEN "leaked" ELSE "continuing")
  /\ UNCHANGED <<counterVars, pending, parseVars, queueVars, server, zeroVars, waiterVars>>

\* The head of the continuation, with the ThrowIfDisposed that comes before the
\* try block of OnDocumentChangeProcessingComplete.  DoNotWait rethrows on the thread
\* pool what the Decrement of a failed parse throws; the others are caught.
Continue(j) ==
  /\ job[j] = "attached"
  /\ \/ /\ parse[j] = "faulted"
        /\ Goto(j, "failed")
        /\ Uncount(j)
        /\ IF pending = {j} THEN server' \in MayThrow("enqueuing") ELSE UNCHANGED server
     \/ /\ parse[j] = "parsed"
        /\ Goto(j, IF server = "disposed" THEN "leaked" ELSE "continuing")
        /\ UNCHANGED <<pending, server, zeroVars>>
  /\ UNCHANGED <<counterVars, parseVars, queueVars, waiterVars>>

\* Broken variant: a document that has been analysed is not queued again.
EnqueueAnalysisOnce(j) ==
  /\ job[j] = "continuing"
  /\ Goto(j, "handedOver")
  /\ queue' = IF j \in ParseOnly \/ server # "open" \/
                 (\E k \in analyzed : Doc[k] = Doc[j])
              THEN queue ELSE queue \cup {j}
  /\ UNCHANGED <<counterVars, pending, parseVars, analyzed, server, zeroVars, waiterVars>>

\* _queue.Enqueue: an equal entry merges, so one analysis serves both.  A
\* disposed queue throws, which is logged.
EnqueueAnalysis(j) ==
  /\ job[j] = "continuing"
  /\ Goto(j, "handedOver")
  /\ queue' = IF j \in ParseOnly \/ server # "open" THEN queue ELSE queue \cup {j}
  /\ UNCHANGED <<counterVars, pending, parseVars, analyzed, server, zeroVars, waiterVars>>

\* Broken variant: not counted until the entry is queued.
DisposeWhenEnqueuedEarly(j) ==
  /\ j \in pending /\ job[j] \in {"continuing", "handedOver"}
  /\ Uncount(j)
  /\ IF job[j] = "handedOver" THEN Goto(j, "done") ELSE UNCHANGED job
  /\ UNCHANGED <<counterVars, parseVars, queueVars, server, waiterVars>>

\* disposeWhenEnqueued.Dispose, here or in the finally block.
DisposeWhenEnqueued(j) ==
  /\ job[j] = "handedOver"
  /\ Goto(j, "done")
  /\ Uncount(j)
  /\ UNCHANGED <<counterVars, parseVars, queueVars, server, waiterVars>>

\* The analysis queue analyses a document, for all jobs that merged.
Analyze(d) ==
  LET of == {j \in queue : Doc[j] = d} IN
  /\ of # {} /\ server = "open"
  /\ queue' = queue \ of
  /\ analyzed' = analyzed \cup of
  /\ UNCHANGED <<job, counterVars, pending, parseVars, server, zeroVars, waiterVars>>

-----------------------------------------------------------------------------
(* WaitForCompleteAnalysisAsync and Dispose                                *)

BeginWait(w) ==
  /\ waiter[w] = "idle"
  /\ waiter' = [waiter EXCEPT ![w] = "parsing"]
  /\ asked' = [asked EXCEPT ![w] = UnderWay]
  /\ zeroSeen' = IF parsing = {} THEN zeroSeen \cup {w} ELSE zeroSeen
  /\ UNCHANGED <<job, counterVars, pending, parseVars, queueVars, server, dropped, ahead>>

\* The task of WaitForZeroAsync has its result: the counter has been zero, or the
\* source is one that was in the field when it was zero before.
TaskEnded(w) == w \in zeroSeen \/ waiter[w] \in dropped

\* The await of _parseQueue.WaitForAllAsync ends, and
\* _pendingAnalysisEnqueue.WaitForZeroAsync is called.
ParsingComplete(w) ==
  /\ waiter[w] = "parsing" /\ TaskEnded(w)
  /\ waiter' = [waiter EXCEPT ![w] = "enqueuing"]
  /\ zeroSeen' = IF pending = {} THEN zeroSeen \cup {w} ELSE zeroSeen \ {w}
  /\ UNCHANGED <<job, counterVars, pending, parseVars, queueVars, server, dropped, ahead, asked>>

\* The await of _pendingAnalysisEnqueue ends, and WaitForCompleteAsync is called, which a
\* disposed queue refuses.
EnqueueComplete(w) ==
  /\ waiter[w] = "enqueuing" /\ TaskEnded(w)
  /\ \/ /\ server = "open"
        /\ waiter' = [waiter EXCEPT ![w] = "analyzing"]
        /\ ahead' = [ahead EXCEPT ![w] = queue]
        /\ UNCHANGED <<asked, zeroSeen>>
     \/ /\ server # "open"
        /\ waiter' = [waiter EXCEPT ![w] = "threw"]
        /\ asked' = [asked EXCEPT ![w] = {}] /\ zeroSeen' = zeroSeen \ {w}
        /\ UNCHANGED ahead
  /\ UNCHANGED <<job, counterVars, pending, parseVars, queueVars, server, dropped>>

AnalysisComplete(w) ==
  /\ waiter[w] = "analyzing" /\ ahead[w] \cap queue = {} /\ server = "open"
  /\ waiter' = [waiter EXCEPT ![w] = "returned"]
  /\ ahead' = [ahead EXCEPT ![w] = {}] /\ asked' = [asked EXCEPT ![w] = {}]
  /\ zeroSeen' = zeroSeen \ {w}
  /\ UNCHANGED <<job, counterVars, pending, parseVars, queueVars, server, dropped>>

\* Server.Dispose: _queue.Dispose(), then _disposed.
Dispose ==
  /\ MayDispose
  /\ \/ server = "open" /\ server' = "queueDisposed"
     \/ server = "queueDisposed" /\ server' = "disposed"
  /\ UNCHANGED <<job, counterVars, pending, parseVars, queueVars, zeroVars, waiterVars>>

-----------------------------------------------------------------------------

\* The process runs.
Runs == server # "crashed"

JobStep(j) ==
  /\ Runs
  /\ \/ Register(j) \/ EnqueueParse(j) \/ Release(j) \/ Notify(j) \/ Leave(j)
     \/ Continue(j) \/ EnqueueAnalysis(j) \/ DisposeWhenEnqueued(j)

ParseStep(j) == Runs /\ (EndParse(j) \/ UncountParse(j))

RemovalStep(c) == Runs /\ (RemoveCounter(c) \/ WaitAgain(c))

WaiterStep(w) == Runs /\ (ParsingComplete(w) \/ EnqueueComplete(w) \/ AnalysisComplete(w))

Next ==
  \/ \E j \in Jobs : (Runs /\ Begin(j)) \/ JobStep(j) \/ ParseStep(j) \/ RemovalStep(j)
  \/ \E d \in Docs : Analyze(d)
  \/ \E w \in Waiters : (Runs /\ BeginWait(w)) \/ WaiterStep(w)
  \/ Dispose

\* A wait for zero has to end only while the counter is at zero.
MustEnd(w) ==
  /\ waiter[w] = "parsing" => parsing = {}
  /\ waiter[w] = "enqueuing" => pending = {}

\* Calls that have begun, the thread pool, parses and the analysis loop keep
\* running.  Nobody has to edit, to wait or to dispose.
Fairness ==
  /\ \A j \in Jobs : WF_vars(JobStep(j)) /\ WF_vars(ParseStep(j)) /\ WF_vars(RemovalStep(j))
  /\ \A d \in Docs : WF_vars(Analyze(d))
  /\ \A w \in Waiters : WF_vars(MustEnd(w) /\ WaiterStep(w))

Spec == Init /\ [][Next]_vars /\ Fairness

-----------------------------------------------------------------------------

\* Every variable stays in its range, and a job has a counter from its registration
\* until it has given it back.
TypeOK ==
  /\ job \in [Jobs -> JobStates]
  /\ holds \in [Jobs -> {"no", "held", "zeroed", "released"}]
  /\ counter \in [Jobs -> Jobs \cup {None}]
  /\ pendingParse \in [Docs -> Jobs \cup {None}]
  /\ source \subseteq Jobs
  /\ removal \in [Jobs -> {"none", "scheduled", "again", "done"}]
  /\ pending \subseteq Jobs /\ parsing \subseteq Jobs
  /\ parse \in [Jobs -> {"none", "running", "parsed", "faulted"}]
  /\ queue \subseteq Jobs /\ analyzed \subseteq Jobs
  /\ server \in {"open", "queueDisposed", "disposed", "crashed"}
  /\ dropped \subseteq {"parsing", "enqueuing"} /\ zeroSeen \subseteq Waiters
  /\ waiter \in [Waiters -> {"idle", "parsing", "enqueuing", "analyzing", "returned", "threw"}]
  /\ ahead \in [Waiters -> SUBSET Jobs] /\ asked \in [Waiters -> SUBSET Jobs]
  /\ \A j \in Jobs :
       holds[j] \in {"held", "zeroed"} => counter[j] # None /\ Doc[counter[j]] = Doc[j]

\* All calls that hold a counter of a document hold the one in _pendingParse:
\* the removal, which runs on the thread pool, never takes away a counter that
\* has come into use again.
OneCounterPerDocument ==
  \A j \in Jobs : holds[j] = "held" => pendingParse[Doc[j]] = counter[j]

\* The edit has been analysed, or it was not to be, its parse failed, or it was left to
\* another parse.
Settled(j) ==
  j \in analyzed \/ job[j] \in {"failed", "skipped"} \/ (j \in ParseOnly /\ job[j] = "done")

\* WaitForCompleteAnalysisAsync is honest across its three waits, even if the wait for
\* the parses ends early: when it returns, each edit that was under way when it was
\* called has settled.  That is not so if its wait for _pendingAnalysisEnqueue ended by a source
\* that an earlier zero completed, with the counter above zero all the time it waited.
WaitIsHonest ==
  [][\A w \in zeroSeen :
       (waiter[w] = "analyzing" /\ waiter'[w] = "returned") => \A j \in asked[w] : Settled(j)]_waiter

\* Every edit that is to be analysed is, unless its parse fails, it is left to
\* another parse, the server is disposed or the process crashes.
EditsAreAnalyzed ==
  \A j \in Jobs \ ParseOnly :
    (job[j] = "counted") ~>
      (j \in analyzed \/ job[j] \in {"failed", "skipped"} \/ server # "open")

\* No wait hangs, also after a parse that failed or that was skipped and whatever
\* sources it shares, unless the server is disposed or the process crashes.
WaitsEnd ==
  \A w \in Waiters :
    (waiter[w] # "idle") ~> (waiter[w] \in {"returned", "threw"} \/ server # "open")
=============================================================================
