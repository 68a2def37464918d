---------------------------- MODULE AnalysisQueue ----------------------------
(***************************************************************************)
(* Analysis/Intellisense/AnalysisQueue.cs: the queue whose one consumer    *)
(* loop runs all analysis of the language server, with the two-stage       *)
(* analysis of entries that belong to a group: handling an entry only puts *)
(* its unit in the work list of its PythonAnalyzer, and a GroupAnalysis    *)
(* item, queued once for all of them, works the list off.                  *)
(*                                                                         *)
(* The PriorityProducerConsumer under it is what PriorityQueue promises,   *)
(* with one consumer: a set of waiting items, a hand-over to the consumer  *)
(* that waits, and a loss against one that was cancelled.                  *)
(*                                                                         *)
(* A call is one call of Enqueue (of an entry) or ExecuteInQueueAsync (of  *)
(* a function).  A nested call is made by the function of another call,    *)
(* inside the queue, which waits for it.                                   *)
(***************************************************************************)
EXTENDS Naturals, FiniteSets

CONSTANTS
  Calls,
  ExecCalls,     \* the calls of ExecuteInQueueAsync; the others are Enqueue's
  NestedCalls,   \* the calls of ExecuteInQueueAsync made inside the queue
  Entry,         \* what each other call enqueues
  Group,         \* the AnalysisGroup of each entry, None if it has none
  Disposers,     \* calls of Dispose from outside the loop
  MayThrow,      \* whether analysis may throw
  LowestPriority,\* AnalysisPriority.None
  None

EntryCalls == Calls \ ExecCalls

\* QueueItems: the item of a call, and the GroupAnalysis that handling it made.
Items == {"call", "group"} \X Calls

ASSUME AnalysisQueueAssumption ==
  /\ None \notin Items
  /\ NestedCalls \subseteq ExecCalls /\ ExecCalls \subseteq Calls
  /\ \A c \in EntryCalls : c \in DOMAIN Entry /\ Entry[c] \in DOMAIN Group
  /\ MayThrow \in BOOLEAN
  /\ LowestPriority \in Nat \ {0}

Priorities == 0 .. LowestPriority

Groups == {Group[e] : e \in DOMAIN Group} \ {None}

VARIABLES
  waiting,        \* _ppc: pairs <<item, priority>>
  disposed,       \* _ppc.IsDisposed
  enqueuedGroups, \* _enqueuedGroups
  workList,       \* PythonAnalyzer.Queue of each group: the units of these calls
  call,           \* where each call and its item have got to
  priority,       \* the priority argument of each call
  consumer,       \* where ConsumerLoop is
  item,           \* the item it has got
  nested,         \* the call that the running function waits for
  disposer,       \* where each call of Dispose is, the loop's own one included
  aborted,        \* AnalysisAborted has been raised
  by,             \* history: the call whose item an equal item merged into
  before          \* history: the calls queued before each ExecuteInQueueAsync

queueVars == <<waiting, disposed, priority, by, before>>
groupVars == <<enqueuedGroups, workList>>
loopVars == <<consumer, item, nested>>
disposeVars == <<disposer, aborted>>
vars == <<queueVars, groupVars, call, loopVars, disposeVars>>

\* queued to ended are the places of an accepted call: an entry's one is ended
\* when its unit has been analysed, a function's one when its task is.
CallStates == {"idle", "checked", "threw", "queued", "merged", "lost", "running",
               "listed", "posted", "ended", "failed"}

\* waiting and idle: ConsumeAsync waits, before and after AnalysisComplete.
\* canceled: the loop has returned while its Pending is still in the queue.
ConsumerStates == {"loop", "looked", "waiting", "idle", "got", "added", "put",
                   "analyze", "drain", "running", "handled", "failing",
                   "canceled", "returned"}

DisposerStates == {"idle", "begun", "joining", "done"}

Loop == "loop"  \* names the Dispose call of the consumer loop itself

Init ==
  /\ waiting = {} /\ disposed = FALSE
  /\ enqueuedGroups = {} /\ workList = [g \in Groups |-> {}]
  /\ call = [c \in Calls |-> "idle"] /\ priority = [c \in Calls |-> LowestPriority]
  /\ consumer = "loop" /\ item = None /\ nested = None
  /\ disposer = [d \in Disposers \cup {Loop} |-> "idle"] /\ aborted = FALSE
  /\ by = [c \in Calls |-> c] /\ before = [c \in Calls |-> {}]

IsCall(i) == i # None /\ i[1] = "call"
IsEntry(i) == IsCall(i) /\ i[2] \in EntryCalls
GroupOf(c) == Group[Entry[c]]

Accepted == {c \in EntryCalls : call[c] \notin {"idle", "checked", "threw"}}

-----------------------------------------------------------------------------
(* Enqueue and ExecuteInQueueAsync from outside the queue                  *)

\* Produce's ThrowIfDisposed.  Entries are not enqueued at the lowest priority.
BeginEnqueue(c) ==
  /\ c \notin NestedCalls /\ call[c] = "idle"
  /\ call' = [call EXCEPT ![c] = IF disposed THEN "threw" ELSE "checked"]
  /\ \E p \in Priorities :
       /\ c \in EntryCalls => p < LowestPriority
       /\ priority' = [priority EXCEPT ![c] = p]
  /\ UNCHANGED <<waiting, disposed, by, before, groupVars, loopVars, disposeVars>>

\* QueueItemComparer: items for the same entry are equal.
Equal(c) ==
  {w \in waiting : IsEntry(w[1]) /\ c \in EntryCalls /\ Entry[w[1][2]] = Entry[c]}

Waits == consumer \in {"waiting", "idle"}
Returned == consumer \in {"canceled", "returned"}

\* The item waits; an equal one merges with it and the more urgent priority
\* counts, for its place in the queue.
Put(c) ==
  /\ call[c] = "checked" /\ ~ Waits /\ consumer # "canceled"
  /\ \E p \in {priority[c]} \cup {w[2] : w \in Equal(c)} :
       /\ p <= priority[c] /\ \A w \in Equal(c) : p <= w[2]
       /\ waiting' = (waiting \ Equal(c)) \cup {<<<<"call", c>>, p>>}
  /\ LET merged == {w[1][2] : w \in Equal(c)} IN
       /\ call' = [x \in Calls |-> IF x = c THEN "queued"
                                   ELSE IF x \in merged THEN "merged" ELSE call[x]]
       /\ by' = [x \in Calls |-> IF by[x] \in merged THEN c ELSE by[x]]
  /\ before' = [before EXCEPT ![c] = IF c \in ExecCalls THEN Accepted ELSE {}]
  /\ UNCHANGED <<disposed, priority, groupVars, loopVars, disposeVars>>

\* The consumer waits and gets the item.
HandOver(c) ==
  /\ call[c] = "checked" /\ Waits
  /\ call' = [call EXCEPT ![c] = "running"]
  /\ item' = <<"call", c>> /\ consumer' = "got"
  /\ before' = [before EXCEPT ![c] = IF c \in ExecCalls THEN Accepted ELSE {}]
  /\ UNCHANGED <<waiting, disposed, priority, by, groupVars, nested, disposeVars>>

\* The consumer waited and was cancelled.
Lose(c) ==
  /\ call[c] = "checked" /\ consumer = "canceled"
  /\ call' = [call EXCEPT ![c] = "lost"]
  /\ consumer' = "returned"
  /\ UNCHANGED <<queueVars, groupVars, item, nested, disposeVars>>

-----------------------------------------------------------------------------
(* ConsumerLoop and ConsumeAsync                                           *)

\* The head of the loop, and the same look at the head of ConsumeAsync.
Look ==
  /\ consumer = "loop"
  /\ consumer' = IF disposed THEN "returned" ELSE "looked"
  /\ UNCHANGED <<queueVars, groupVars, call, item, nested, disposeVars>>

\* A waiting item is there: one of the most urgent ones.
Take ==
  /\ consumer = "looked"
  /\ \E w \in waiting :
       /\ \A v \in waiting : w[2] <= v[2]
       /\ waiting' = waiting \ {w}
       /\ item' = w[1] /\ consumer' = "got"
       /\ call' = IF IsCall(w[1]) THEN [call EXCEPT ![w[1][2]] = "running"] ELSE call
  /\ UNCHANGED <<disposed, priority, by, before, groupVars, nested, disposeVars>>

BeginWait ==
  /\ consumer = "looked" /\ waiting = {}
  /\ consumer' = "waiting"
  /\ UNCHANGED <<queueVars, groupVars, call, item, nested, disposeVars>>

\* The 50 ms are over: AnalysisComplete is raised.
RaiseComplete ==
  /\ consumer = "waiting"
  /\ consumer' = "idle"
  /\ UNCHANGED <<queueVars, groupVars, call, item, nested, disposeVars>>

\* OperationCanceledException when disposed.
Cancel ==
  /\ Waits /\ disposed
  /\ consumer' = "canceled"
  /\ UNCHANGED <<queueVars, groupVars, call, item, nested, disposeVars>>

-----------------------------------------------------------------------------
(* HandleAnalyzable                                                        *)

\* Broken variant: the result of Add is not looked at.
AddGroupAgain(c) ==
  /\ consumer = "got" /\ item = <<"call", c>> /\ c \in EntryCalls
  /\ GroupOf(c) # None
  /\ enqueuedGroups' = enqueuedGroups \cup {GroupOf(c)}
  /\ consumer' = "added"
  /\ UNCHANGED <<queueVars, workList, call, item, nested, disposeVars>>

\* _enqueuedGroups.Add.
AddGroup(c) ==
  /\ consumer = "got" /\ item = <<"call", c>> /\ c \in EntryCalls
  /\ GroupOf(c) # None
  /\ enqueuedGroups' = enqueuedGroups \cup {GroupOf(c)}
  /\ consumer' = IF GroupOf(c) \in enqueuedGroups THEN "analyze" ELSE "added"
  /\ UNCHANGED <<queueVars, workList, call, item, nested, disposeVars>>

\* Produce's ThrowIfDisposed in Enqueue(new GroupAnalysis, priority).
BeginEnqueueGroup(c) ==
  /\ consumer = "added" /\ item = <<"call", c>>
  /\ consumer' = IF disposed THEN "failing" ELSE "put"
  /\ call' = IF disposed THEN [call EXCEPT ![c] = "failed"] ELSE call
  /\ UNCHANGED <<queueVars, groupVars, item, nested, disposeVars>>

\* Broken variant: the group is analysed when nothing else is left.
EnqueueGroupLast(c) ==
  /\ consumer = "put" /\ item = <<"call", c>>
  /\ waiting' = waiting \cup {<<<<"group", c>>, LowestPriority>>}
  /\ consumer' = "analyze"
  /\ UNCHANGED <<disposed, priority, by, before, groupVars, call, item, nested, disposeVars>>

\* The rest of Enqueue: at the priority of this call, whatever its item's place
\* in the queue was.
EnqueueGroup(c) ==
  /\ consumer = "put" /\ item = <<"call", c>>
  /\ waiting' = waiting \cup {<<<<"group", c>>, priority[c]>>}
  /\ consumer' = "analyze"
  /\ UNCHANGED <<disposed, priority, by, before, groupVars, call, item, nested, disposeVars>>

\* Analyze(cancellationToken, true): a new unit in the work list, or nothing
\* when cancelled or not parsed.
ListUnit(c) ==
  /\ consumer = "analyze" /\ item = <<"call", c>>
  /\ \/ /\ ~ disposed
        /\ workList' = [workList EXCEPT ![GroupOf(c)] = @ \cup {c}]
        /\ call' = [call EXCEPT ![c] = "listed"]
     \/ /\ call' = [call EXCEPT ![c] = "ended"]
        /\ UNCHANGED workList
  /\ consumer' = "handled"
  /\ UNCHANGED <<queueVars, enqueuedGroups, item, nested, disposeVars>>

\* item.Analyze(cancellationToken) of an entry without a group.
AnalyzeAlone(c) ==
  /\ consumer = "got" /\ item = <<"call", c>> /\ c \in EntryCalls
  /\ GroupOf(c) = None
  /\ call' = [call EXCEPT ![c] = "ended"]
  /\ consumer' = "handled"
  /\ UNCHANGED <<queueVars, groupVars, item, nested, disposeVars>>

\* An exception of an entry's analysis; the unit it works on is off the list.
Throw(c) ==
  /\ MayThrow
  /\ \/ consumer = "analyze" /\ item = <<"call", c>> /\ UNCHANGED workList
     \/ /\ consumer = "got" /\ IsEntry(item) /\ item[2] = c /\ GroupOf(c) = None
        /\ UNCHANGED workList
     \/ /\ consumer = "drain" /\ c \in workList[GroupOf(item[2])]
        /\ workList' = [workList EXCEPT ![GroupOf(item[2])] = @ \ {c}]
  /\ call' = [call EXCEPT ![c] = "failed"]
  /\ consumer' = "failing"
  /\ UNCHANGED <<queueVars, enqueuedGroups, item, nested, disposeVars>>

-----------------------------------------------------------------------------
(* GroupAnalysis.Analyze                                                   *)

\* Broken variant: the group stays enqueued.
KeepGroup(c) ==
  /\ consumer = "got" /\ item = <<"group", c>>
  /\ consumer' = "drain"
  /\ UNCHANGED <<queueVars, groupVars, call, item, nested, disposeVars>>

\* _enqueuedGroups.Remove.
RemoveGroup(c) ==
  /\ consumer = "got" /\ item = <<"group", c>>
  /\ enqueuedGroups' = enqueuedGroups \ {GroupOf(c)}
  /\ consumer' = "drain"
  /\ UNCHANGED <<queueVars, workList, call, item, nested, disposeVars>>

\* AnalyzeQueuedEntries: one unit after the other.
AnalyzeUnit(c) ==
  /\ consumer = "drain" /\ c \in workList[GroupOf(item[2])]
  /\ workList' = [workList EXCEPT ![GroupOf(item[2])] = @ \ {c}]
  /\ call' = [call EXCEPT ![c] = "ended"]
  /\ UNCHANGED <<queueVars, enqueuedGroups, loopVars, disposeVars>>

\* Broken variant: analysis stops while units are left.
LeaveList ==
  /\ consumer = "drain"
  /\ consumer' = "handled"
  /\ UNCHANGED <<queueVars, groupVars, call, item, nested, disposeVars>>

\* The work list is empty, or the token is cancelled.
EndAnalysis ==
  /\ consumer = "drain" /\ (disposed \/ workList[GroupOf(item[2])] = {})
  /\ consumer' = "handled"
  /\ UNCHANGED <<queueVars, groupVars, call, item, nested, disposeVars>>

-----------------------------------------------------------------------------
(* ExecuteInQueueAsyncItem.Handler and nested calls                        *)

RunFunction(c) ==
  /\ consumer = "got" /\ item = <<"call", c>> /\ c \in ExecCalls
  /\ consumer' = "running"
  /\ UNCHANGED <<queueVars, groupVars, call, item, nested, disposeVars>>

\* Broken variant: the call is queued although it comes from inside.
CallFunctionQueued(n) ==
  /\ consumer = "running" /\ nested = None
  /\ n \in NestedCalls /\ call[n] = "idle"
  /\ call' = [call EXCEPT ![n] = "checked"]
  /\ nested' = n
  /\ UNCHANGED <<queueVars, groupVars, consumer, item, disposeVars>>

\* Current == this: the function is called at once, and its task is returned.
CallFunction(n) ==
  /\ consumer = "running" /\ nested = None
  /\ n \in NestedCalls /\ call[n] = "idle"
  /\ call' = [call EXCEPT ![n] = "running"]
  /\ nested' = n
  /\ UNCHANGED <<queueVars, groupVars, consumer, item, disposeVars>>

\* Its task ends.
EndFunction(n) ==
  /\ nested = n /\ n # None /\ call[n] = "running"
  /\ call' = [call EXCEPT ![n] = "ended"]
  /\ UNCHANGED <<queueVars, groupVars, loopVars, disposeVars>>

\* The outer function ends in any way, and the outcome is posted.
PostResult(c) ==
  /\ consumer = "running" /\ item = <<"call", c>>
  /\ nested # None => call[nested] = "ended"
  /\ nested' = None
  /\ call' = [call EXCEPT ![c] = "posted"]
  /\ consumer' = "handled"
  /\ UNCHANGED <<queueVars, groupVars, item, disposeVars>>

\* The thread pool runs SetResult, SetCanceled or SetException.
SetResult(c) ==
  /\ c \in ExecCalls /\ call[c] = "posted"
  /\ call' = [call EXCEPT ![c] = "ended"]
  /\ UNCHANGED <<queueVars, groupVars, loopVars, disposeVars>>

\* Back to the head of the loop.
Handled ==
  /\ consumer = "handled"
  /\ consumer' = "loop" /\ item' = None
  /\ UNCHANGED <<queueVars, groupVars, call, nested, disposeVars>>

-----------------------------------------------------------------------------
(* Dispose, from outside and in the catch block of the loop                *)

MayDispose(d) == IF d = Loop THEN consumer = "failing" ELSE TRUE

\* The first look at IsDisposed.
BeginDispose(d) ==
  /\ disposer[d] = "idle" /\ MayDispose(d)
  /\ disposer' = [disposer EXCEPT ![d] = IF disposed THEN "joining" ELSE "begun"]
  /\ UNCHANGED <<queueVars, groupVars, call, loopVars, aborted>>

\* _ppc.Dispose and AnalysisAborted, which two calls may both raise.
MarkDisposed(d) ==
  /\ disposer[d] = "begun"
  /\ disposed' = TRUE /\ aborted' = TRUE
  /\ disposer' = [disposer EXCEPT ![d] = "joining"]
  /\ UNCHANGED <<waiting, priority, by, before, groupVars, call, loopVars>>

\* Broken variant: waits for the consumer without a limit.
JoinForever(d) ==
  /\ disposer[d] = "joining" /\ Returned
  /\ disposer' = [disposer EXCEPT ![d] = "done"]
  /\ UNCHANGED <<queueVars, groupVars, call, loopVars, aborted>>

\* _consumerTask.Wait ends with the consumer or after 5 seconds; the loop's
\* own call can only end in the latter way.
Join(d) ==
  /\ disposer[d] = "joining"
  /\ disposer' = [disposer EXCEPT ![d] = "done"]
  /\ UNCHANGED <<queueVars, groupVars, call, loopVars, aborted>>

\* The loop goes on after its Dispose, to find itself disposed.
AfterFailure ==
  /\ consumer = "failing" /\ disposer[Loop] = "done"
  /\ consumer' = "loop" /\ item' = None
  /\ UNCHANGED <<queueVars, groupVars, call, nested, disposeVars>>

-----------------------------------------------------------------------------

CallStep(c) == Put(c) \/ HandOver(c) \/ Lose(c)

Handle(c) ==
  \/ AddGroup(c) \/ BeginEnqueueGroup(c) \/ EnqueueGroup(c) \/ ListUnit(c) \/ AnalyzeAlone(c) \/ Throw(c)
  \/ RemoveGroup(c) \/ AnalyzeUnit(c)
  \/ RunFunction(c) \/ EndFunction(c) \/ PostResult(c)

LoopStep ==
  \/ Look \/ Take \/ BeginWait \/ Cancel
  \/ \E c \in Calls : Handle(c)
  \/ EndAnalysis \/ Handled \/ AfterFailure

DisposeStep(d) == MarkDisposed(d) \/ Join(d)

Next ==
  \/ \E c \in Calls : BeginEnqueue(c) \/ CallStep(c) \/ SetResult(c)
  \/ \E c \in NestedCalls : CallFunction(c)
  \/ LoopStep \/ RaiseComplete
  \/ \E d \in Disposers \cup {Loop} : BeginDispose(d) \/ DisposeStep(d)

\* The loop, calls that have begun, the catch block and the thread pool keep
\* running, and handlers end.  Nobody has to enqueue or to dispose.
Fairness ==
  /\ WF_vars(LoopStep)
  /\ \A c \in Calls : WF_vars(CallStep(c)) /\ WF_vars(SetResult(c))
  /\ WF_vars(BeginDispose(Loop))
  /\ \A d \in Disposers \cup {Loop} : WF_vars(DisposeStep(d))

Spec == Init /\ [][Next]_vars /\ Fairness

-----------------------------------------------------------------------------

\* A group is in _enqueuedGroups exactly while one GroupAnalysis of it is
\* queued or about to be handled: the set that only the loop touches and the
\* queue that all threads touch agree whenever no handler has failed.
Scheduled(g) ==
  {w[1] : w \in {v \in waiting : v[1][1] = "group" /\ GroupOf(v[1][2]) = g}}
    \cup (IF consumer = "got" /\ item[1] = "group" /\ GroupOf(item[2]) = g
          THEN {item} ELSE {})
    \cup (IF consumer \in {"added", "put"} /\ GroupOf(item[2]) = g THEN {item} ELSE {})

GroupScheduledOnce ==
  ~ disposed =>
    \A g \in Groups : Cardinality(Scheduled(g)) = (IF g \in enqueuedGroups THEN 1 ELSE 0)

\* AnalysisComplete, raised when nothing came for 50 ms, is true: no unit is
\* left in a work list and no group is still to be analysed, although either
\* is filled by other items than the one that works it off.
CompleteMeansAnalyzed ==
  (consumer = "idle" /\ ~ disposed) =>
    enqueuedGroups = {} /\ \A g \in Groups : workList[g] = {}

\* What was queued before a call of ExecuteInQueueAsync at the lowest priority,
\* as WaitForCompleteAsync makes it, has been analysed when its function runs:
\* the entry itself and the group analysis that only handling it queues, also
\* when equal items have merged.
WaitCoversEarlier ==
  \A c \in ExecCalls \ NestedCalls :
    (consumer = "running" /\ item = <<"call", c>> /\ priority[c] = LowestPriority)
      => \A b \in before[c] : call[by[b]] = "ended" \/ disposed

\* Every entry that was enqueued is analysed, itself or with an equal item
\* that came later, unless the queue is disposed.
EntriesAreAnalyzed ==
  \A c \in EntryCalls : c \in Accepted ~> (call[by[c]] = "ended" \/ disposed)

\* A function that has begun to run ends its task, also when the queue is
\* disposed meanwhile or the function calls into the queue and waits.
FunctionsEnd ==
  \A c \in ExecCalls :
    call[c] = "running" ~> call[c] = "ended"

\* After Dispose, also the one that the loop makes on itself when a handler
\* throws, the consumer loop ends and no caller of Dispose hangs.
DisposeReturns ==
  \A d \in Disposers \cup {Loop} :
    (disposer[d] # "idle") ~> (disposer[d] = "done" /\ Returned /\ aborted)
=============================================================================
