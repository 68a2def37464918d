-------------------------- MODULE AnalysisQueueProofs --------------------------
(* What AnalysisQueue keeps for any number of calls, entries and groups.   *)
EXTENDS AnalysisQueue, FiniteSetTheorems, TLAPS

\* An item has a kind and a call.
LEMMA ItemParts ==
  ASSUME NEW i \in Items
  PROVE  i[1] \in {"call", "group"} /\ i[2] \in Calls /\ i = <<i[1], i[2]>> /\ i # None
  BY AnalysisQueueAssumption DEF Items

\* The items that are made of a call.
LEMMA ItemsMade ==
  ASSUME NEW c \in Calls
  PROVE  /\ <<"call", c>> \in Items /\ IsCall(<<"call", c>>)
         /\ <<"group", c>> \in Items /\ ~ IsCall(<<"group", c>>)
  BY AnalysisQueueAssumption DEF Items, IsCall

\* The two facts about items that the proofs below need, for all of them.
LEMMA CallItems ==
  /\ \A c \in Calls : IsCall(<<"call", c>>) /\ ~ IsCall(<<"group", c>>)
  /\ \A i \in Items : IsCall(i) => i = <<"call", i[2]>> /\ i[2] \in Calls
  BY ItemParts, ItemsMade DEF IsCall

\* Only the groups of entries are in use.
LEMMA GroupIsKnown ==
  ASSUME NEW c \in EntryCalls, GroupOf(c) # None
  PROVE  GroupOf(c) \in Groups
  BY AnalysisQueueAssumption DEF Groups, GroupOf

\* What Enqueue does to a queue whose consumer does not wait: the new item is in
\* it, at a priority that is this call's unless equal items were there.
LEMMA PutIs ==
  ASSUME waiting \subseteq Items \X Priorities, priority \in [Calls -> Priorities],
         NEW c \in Calls, Put(c)
  PROVE  /\ call[c] = "checked" /\ ~ Waits /\ consumer # "canceled"
         /\ Equal(c) \subseteq waiting
         /\ \A w \in Equal(c) : IsEntry(w[1]) /\ c \in EntryCalls
         /\ \E p \in Priorities :
              /\ p <= priority[c] /\ (c \in ExecCalls => p = priority[c])
              /\ waiting' = (waiting \ Equal(c)) \cup {<<<<"call", c>>, p>>}
<1>1. ASSUME NEW w \in Equal(c) PROVE w \in waiting /\ IsEntry(w[1]) /\ c \in EntryCalls
  BY <1>1 DEF Equal
<1>2. PICK p \in {priority[c]} \cup {w[2] : w \in Equal(c)} :
        /\ p <= priority[c]
        /\ waiting' = (waiting \ Equal(c)) \cup {<<<<"call", c>>, p>>}
  BY DEF Put
<1>3. p \in Priorities
  BY <1>1, <1>2
<1>4. c \in ExecCalls => p = priority[c]
  BY <1>1, <1>2 DEF EntryCalls
<1> QED
  BY <1>1, <1>2, <1>3, <1>4 DEF Put

\* Every variable has its type; only entries are in work lists.
Typed ==
  /\ waiting \subseteq Items \X Priorities
  /\ disposed \in BOOLEAN
  /\ enqueuedGroups \subseteq Groups
  /\ workList \in [Groups -> SUBSET EntryCalls]
  /\ call \in [Calls -> CallStates] /\ priority \in [Calls -> Priorities]
  /\ consumer \in ConsumerStates /\ item \in Items \cup {None}
  /\ nested \in NestedCalls \cup {None}
  /\ disposer \in [Disposers \cup {Loop} -> DisposerStates] /\ aborted \in BOOLEAN
  /\ by \in [Calls -> Calls] /\ before \in [Calls -> SUBSET EntryCalls]

IsGrouped(c) == c \in EntryCalls /\ GroupOf(c) \in Groups

\* GroupAnalysis items are made for entries with a group.
IsProper(i) == i \in Items /\ (i[1] = "group" => IsGrouped(i[2]))

\* The loop has the item that its place is about.
Handling ==
  /\ \A w \in waiting : IsProper(w[1])
  /\ consumer = "got" => IsProper(item)
  /\ consumer \in {"added", "put", "analyze"} =>
       IsEntry(item) /\ item \in Items /\ IsGrouped(item[2])
  /\ consumer = "drain" => item \in Items /\ IsGrouped(item[2])
  /\ consumer = "running" => IsCall(item) /\ item \in Items /\ item[2] \in ExecCalls

\* The queue is empty while the loop waits, and whoever has come past the
\* first part of Dispose has made the queue disposed.
Waiting ==
  /\ Waits => waiting = {}
  /\ consumer = "canceled" => disposed
  /\ \A d \in Disposers \cup {Loop} : disposer[d] \in {"joining", "done"} => disposed

OfGroup(i, g) == i[1] = "group" /\ GroupOf(i[2]) = g

\* The loop is between _enqueuedGroups.Add and Enqueue, or between the queue and
\* _enqueuedGroups.Remove.
InHand(g) ==
  \/ consumer = "got" /\ OfGroup(item, g)
  \/ consumer \in {"added", "put"} /\ GroupOf(item[2]) = g

\* A group in _enqueuedGroups is in the loop's hand or has one item in the queue,
\* never both, and no other group has either.
Scheduling ==
  \A g \in Groups :
    /\ InHand(g) => g \in enqueuedGroups /\ \A w \in waiting : ~ OfGroup(w[1], g)
    /\ \A w \in waiting :
         OfGroup(w[1], g) =>
           g \in enqueuedGroups /\ \A v \in waiting : OfGroup(v[1], g) => v = w
    /\ g \in enqueuedGroups /\ ~ disposed =>
         InHand(g) \/ \E w \in waiting : OfGroup(w[1], g)

\* Units wait only in the work list of a group that is still to be analysed or
\* that is analysed now, unless the analysis has failed.
Listing ==
  /\ consumer = "analyze" => GroupOf(item[2]) \in enqueuedGroups
  /\ \A g \in Groups :
       workList[g] # {} /\ ~ disposed =>
         \/ g \in enqueuedGroups
         \/ consumer = "drain" /\ GroupOf(item[2]) = g
         \/ consumer = "failing"

\* The calls that wait in the queue, each with one item.
Queueing ==
  /\ \A c \in NestedCalls : call[c] \notin {"checked", "queued"}
  /\ \A w \in waiting : IsCall(w[1]) => call[w[1][2]] = "queued"
  /\ \A v, w \in waiting : IsCall(w[1]) /\ v[1] = w[1] => v = w
  /\ \A c \in EntryCalls : call[c] = "queued" => \E w \in waiting : w[1] = <<"call", c>>

\* The call whose item the loop has, and no other entry, is running.
Running ==
  /\ consumer \in {"got", "added", "put", "analyze", "running"} /\ IsCall(item) =>
       call[item[2]] = "running" /\ item[2] \notin NestedCalls
  /\ \A c \in EntryCalls :
       call[c] = "running" =>
         item = <<"call", c>> /\ consumer \in {"got", "added", "put", "analyze"}

\* The calls whose units wait are those in the work lists.
Listed ==
  /\ \A g \in Groups : \A c \in workList[g] : call[c] = "listed" /\ GroupOf(c) = g
  /\ \A c \in EntryCalls : call[c] = "listed" => IsGrouped(c) /\ c \in workList[GroupOf(c)]

\* A call is given up only when the loop gives up.
Ended ==
  \A c \in EntryCalls :
    /\ call[c] # "posted"
    /\ call[c] \in {"failed", "lost"} => disposed \/ consumer = "failing"

\* The place of each call is where its item or its unit is.
Marking == Queueing /\ Running /\ Listed /\ Ended

\* Only functions wait at the lowest priority: entries are not enqueued at it, and
\* a group is enqueued at the priority of an entry.
Ranking ==
  /\ \A c \in EntryCalls : call[c] # "idle" => priority[c] < LowestPriority
  /\ \A w \in waiting :
       IF IsCall(w[1]) /\ w[1][2] \in ExecCalls THEN w[2] = priority[w[1][2]]
                                               ELSE w[2] < LowestPriority

\* A call that has merged stands for itself no longer; what it has merged into does.
Merging ==
  /\ \A c \in EntryCalls : by[c] \in EntryCalls
  /\ \A c \in Calls : call[by[c]] # "merged"
  /\ \A c \in EntryCalls : by[c] = c \/ by[c] \in Accepted
  /\ \A c \in Calls : before[c] \subseteq Accepted

\* From the moment the loop gets a function that WaitCoversEarlier is about.
Covering ==
  (/\ consumer \in {"got", "running"} /\ ~ disposed
   /\ IsCall(item) /\ item[2] \in ExecCalls /\ priority[item[2]] = LowestPriority) =>
     \A b \in before[item[2]] : call[by[b]] = "ended"

\* No step leaves the types; only the unit of an entry is listed.
LEMMA TypedKept == Typed /\ Handling /\ [Next]_vars => Typed'
<1> SUFFICES ASSUME Typed, Handling, [Next]_vars PROVE Typed'
  OBVIOUS
<1> USE DEF queueVars, groupVars, loopVars, disposeVars, CallStates, ConsumerStates
<1>1. ASSUME NEW c \in Calls, BeginEnqueue(c) PROVE Typed'
  BY <1>1 DEF BeginEnqueue, Typed
<1>2. ASSUME NEW c \in Calls, Put(c) PROVE Typed'
  <2>1. waiting' \subseteq Items \X Priorities
    <3>1. PICK p \in Priorities : waiting' = (waiting \ Equal(c)) \cup {<<<<"call", c>>, p>>}
      BY <1>2, PutIs DEF Typed
    <3>2. <<<<"call", c>>, p>> \in Items \X Priorities
      BY ItemsMade
    <3> QED
      BY <3>1, <3>2 DEF Typed
  <2>2. call' \in [Calls -> CallStates] /\ by' \in [Calls -> Calls]
    BY <1>2 DEF Put, Typed
  <2>3. before' \in [Calls -> SUBSET EntryCalls]
    BY <1>2 DEF Put, Typed, Accepted
  <2> QED
    BY <1>2, <2>1, <2>2, <2>3 DEF Put, Typed
<1>3. ASSUME NEW c \in Calls, HandOver(c) PROVE Typed'
  <2>1. before' \in [Calls -> SUBSET EntryCalls]
    BY <1>3 DEF HandOver, Typed, Accepted
  <2> QED
    BY <1>3, <2>1, ItemsMade DEF HandOver, Typed
<1>4. ASSUME NEW c \in Calls, Lose(c) \/ SetResult(c) PROVE Typed'
  BY <1>4 DEF Lose, SetResult, Typed
<1>5. ASSUME NEW n \in NestedCalls, CallFunction(n) PROVE Typed'
  BY <1>5, AnalysisQueueAssumption DEF CallFunction, Typed
<1>6. CASE Take
  BY <1>6, ItemParts DEF Take, Typed
<1>7. CASE Look \/ BeginWait \/ RaiseComplete \/ Cancel \/ EndAnalysis \/ Handled \/ AfterFailure
  BY <1>7 DEF Look, BeginWait, RaiseComplete, Cancel, EndAnalysis, Handled, AfterFailure, Typed
<1>8. ASSUME NEW c \in Calls, AddGroup(c) PROVE Typed'
  <2>1. GroupOf(c) \in Groups
    BY <1>8, GroupIsKnown DEF AddGroup
  <2> QED
    BY <1>8, <2>1 DEF AddGroup, Typed
<1>9. ASSUME NEW c \in Calls, EnqueueGroup(c) PROVE Typed'
  <2>1. <<<<"group", c>>, priority[c]>> \in Items \X Priorities
    BY ItemsMade DEF Typed
  <2> QED
    BY <1>9, <2>1 DEF EnqueueGroup, Typed
<1>10. ASSUME NEW c \in Calls, ListUnit(c) PROVE Typed'
  <2>1. c \in EntryCalls
    BY <1>10 DEF ListUnit, Handling, IsGrouped
  <2> QED
    BY <1>10, <2>1 DEF ListUnit, Typed
<1>11. ASSUME NEW c \in Calls,
              \/ BeginEnqueueGroup(c) \/ AnalyzeAlone(c) \/ Throw(c) \/ RemoveGroup(c)
              \/ AnalyzeUnit(c) \/ RunFunction(c) \/ EndFunction(c) \/ PostResult(c)
       PROVE  Typed'
  BY <1>11 DEF BeginEnqueueGroup, AnalyzeAlone, Throw, RemoveGroup, AnalyzeUnit, RunFunction,
               EndFunction, PostResult, Typed
<1>12. ASSUME NEW d \in Disposers \cup {Loop}, BeginDispose(d) \/ MarkDisposed(d) \/ Join(d)
       PROVE  Typed'
  BY <1>12 DEF BeginDispose, MarkDisposed, Join, DisposerStates, Typed
<1>13. CASE UNCHANGED vars
  BY <1>13 DEF vars, Typed
<1> QED
  BY <1>1, <1>2, <1>3, <1>4, <1>5, <1>6, <1>7, <1>8, <1>9, <1>10, <1>11, <1>12, <1>13
  DEF Next, CallStep, LoopStep, Handle, DisposeStep

\* An item comes from the queue or from the caller to the loop, and each place of the loop
\* is reached with an item of its kind.
LEMMA HandlingKept == Typed /\ Handling /\ [Next]_vars => Handling'
<1> SUFFICES ASSUME Typed, Handling, [Next]_vars PROVE Handling'
  OBVIOUS
<1> USE DEF queueVars, groupVars, loopVars, disposeVars
<1>1. ASSUME NEW c \in Calls, BeginEnqueue(c) \/ Lose(c) \/ SetResult(c) PROVE Handling'
  BY <1>1 DEF BeginEnqueue, Lose, SetResult, Handling
<1>2. ASSUME NEW c \in Calls, Put(c) PROVE Handling'
  <2>1. PICK p \in Priorities : waiting' = (waiting \ Equal(c)) \cup {<<<<"call", c>>, p>>}
    BY <1>2, PutIs DEF Typed
  <2>2. IsProper(<<"call", c>>)
    BY ItemsMade DEF IsProper
  <2>3. \A w \in waiting' : IsProper(w[1])
    BY <2>1, <2>2 DEF Handling
  <2> QED
    BY <1>2, <2>3 DEF Put, Handling
<1>3. ASSUME NEW c \in Calls, HandOver(c) PROVE Handling'
  <2>1. IsProper(<<"call", c>>)
    BY ItemsMade DEF IsProper
  <2> QED
    BY <1>3, <2>1 DEF HandOver, Handling
<1>4. ASSUME NEW n \in NestedCalls, CallFunction(n) PROVE Handling'
  BY <1>4 DEF CallFunction, Handling
<1>5. CASE Take
  BY <1>5 DEF Take, Handling
<1>6. CASE Look \/ BeginWait \/ RaiseComplete \/ Cancel \/ EndAnalysis \/ Handled \/ AfterFailure
  BY <1>6 DEF Look, BeginWait, RaiseComplete, Cancel, EndAnalysis, Handled, AfterFailure, Handling
<1>7. ASSUME NEW c \in Calls, AddGroup(c) PROVE Handling'
  <2>1. IsEntry(item) /\ item \in Items /\ IsGrouped(item[2])
    BY <1>7, ItemsMade, GroupIsKnown DEF AddGroup, IsEntry, IsGrouped
  <2> QED
    BY <1>7, <2>1 DEF AddGroup, Handling
<1>8. ASSUME NEW c \in Calls, EnqueueGroup(c) PROVE Handling'
  <2>1. IsProper(<<"group", c>>)
    BY <1>8, ItemsMade DEF EnqueueGroup, Handling, IsProper
  <2> QED
    BY <1>8, <2>1 DEF EnqueueGroup, Handling
<1>9. ASSUME NEW c \in Calls, RemoveGroup(c) PROVE Handling'
  BY <1>9 DEF RemoveGroup, Handling, IsProper
<1>10. ASSUME NEW c \in Calls, RunFunction(c) PROVE Handling'
  BY <1>10, ItemsMade DEF RunFunction, Handling
<1>11. ASSUME NEW c \in Calls,
              \/ BeginEnqueueGroup(c) \/ ListUnit(c) \/ AnalyzeAlone(c) \/ Throw(c)
              \/ AnalyzeUnit(c) \/ EndFunction(c) \/ PostResult(c)
       PROVE  Handling'
  BY <1>11 DEF BeginEnqueueGroup, ListUnit, AnalyzeAlone, Throw, AnalyzeUnit, EndFunction,
               PostResult, Handling
<1>12. ASSUME NEW d \in Disposers \cup {Loop}, BeginDispose(d) \/ MarkDisposed(d) \/ Join(d)
       PROVE  Handling'
  BY <1>12 DEF BeginDispose, MarkDisposed, Join, Handling
<1>13. CASE UNCHANGED vars
  BY <1>13 DEF vars, Handling
<1> QED
  BY <1>1, <1>2, <1>3, <1>4, <1>5, <1>6, <1>7, <1>8, <1>9, <1>10, <1>11, <1>12, <1>13
  DEF Next, CallStep, LoopStep, Handle, DisposeStep

\* Nothing is put while the loop waits: it gets the item itself.
LEMMA WaitingKept == Typed /\ Waiting /\ [Next]_vars => Waiting'
<1> SUFFICES ASSUME Typed, Waiting, [Next]_vars PROVE Waiting'
  OBVIOUS
<1> USE DEF queueVars, groupVars, loopVars, disposeVars, Waiting, Waits
<1>1. ASSUME NEW c \in Calls, BeginEnqueue(c) \/ CallStep(c) \/ SetResult(c) PROVE Waiting'
  BY <1>1 DEF BeginEnqueue, CallStep, Put, HandOver, Lose, SetResult
<1>2. ASSUME NEW n \in NestedCalls, CallFunction(n) PROVE Waiting'
  BY <1>2 DEF CallFunction
<1>3. CASE \/ Look \/ Take \/ BeginWait \/ RaiseComplete \/ Cancel
           \/ EndAnalysis \/ Handled \/ AfterFailure
  BY <1>3 DEF Look, Take, BeginWait, RaiseComplete, Cancel, EndAnalysis, Handled, AfterFailure
<1>4. ASSUME NEW c \in Calls, Handle(c) PROVE Waiting'
  BY <1>4 DEF Handle, AddGroup, BeginEnqueueGroup, EnqueueGroup, ListUnit, AnalyzeAlone, Throw,
              RemoveGroup, AnalyzeUnit, RunFunction, EndFunction, PostResult
<1>5. ASSUME NEW d \in Disposers \cup {Loop}, BeginDispose(d) \/ MarkDisposed(d) \/ Join(d)
       PROVE  Waiting'
  BY <1>5 DEF BeginDispose, MarkDisposed, Join, Typed
<1>6. CASE UNCHANGED vars
  BY <1>6 DEF vars
<1> QED
  BY <1>1, <1>2, <1>3, <1>4, <1>5, <1>6 DEF Next, LoopStep, DisposeStep

\* AddGroup adds a group only when nothing stands for it, and what stands for it moves
\* from hand to queue and back until RemoveGroup.
LEMMA SchedulingKept == Typed /\ Handling /\ Scheduling /\ [Next]_vars => Scheduling'
<1> SUFFICES ASSUME Typed, Handling, Scheduling, [Next]_vars PROVE Scheduling'
  OBVIOUS
<1> USE DEF queueVars, groupVars, loopVars, disposeVars
<1>1. ASSUME NEW c \in Calls, BeginEnqueue(c) \/ Lose(c) \/ SetResult(c) PROVE Scheduling'
  BY <1>1 DEF BeginEnqueue, Lose, SetResult, Scheduling, InHand
<1>2. ASSUME NEW c \in Calls, Put(c) PROVE Scheduling'
  <2>1. PICK p \in Priorities : waiting' = (waiting \ Equal(c)) \cup {<<<<"call", c>>, p>>}
    BY <1>2, PutIs DEF Typed
  <2>2. ASSUME NEW g, NEW w
        PROVE  w \in waiting' /\ OfGroup(w[1], g) <=> w \in waiting /\ OfGroup(w[1], g)
    BY <1>2, <2>1, PutIs DEF OfGroup, Typed, IsEntry, IsCall
  <2> QED
    BY <1>2, <2>2 DEF Put, Scheduling, InHand
<1>3. ASSUME NEW c \in Calls, HandOver(c) PROVE Scheduling'
  BY <1>3 DEF HandOver, Waits, Scheduling, InHand, OfGroup
<1>4. ASSUME NEW n \in NestedCalls, CallFunction(n) PROVE Scheduling'
  BY <1>4 DEF CallFunction, Scheduling, InHand
<1>5. CASE Take
  BY <1>5 DEF Take, Scheduling, InHand
<1>6. CASE Look \/ BeginWait \/ RaiseComplete \/ Cancel \/ EndAnalysis \/ Handled \/ AfterFailure
  BY <1>6 DEF Look, BeginWait, RaiseComplete, Cancel, EndAnalysis, Handled, AfterFailure,
              Scheduling, InHand
<1>7. ASSUME NEW c \in Calls, AddGroup(c) PROVE Scheduling'
  BY <1>7 DEF AddGroup, Scheduling, InHand, OfGroup
<1>8. ASSUME NEW c \in Calls, BeginEnqueueGroup(c) PROVE Scheduling'
  BY <1>8 DEF BeginEnqueueGroup, Scheduling, InHand
<1>9. ASSUME NEW c \in Calls, EnqueueGroup(c) PROVE Scheduling'
  <2> DEFINE new == <<<<"group", c>>, priority[c]>>
  <2>1. waiting' = waiting \cup {new} /\ consumer = "put" /\ item[2] = c /\ consumer' = "analyze"
    BY <1>9 DEF EnqueueGroup
  <2>2. \A g : OfGroup(new[1], g) <=> GroupOf(c) = g
    BY DEF OfGroup
  <2>3. \A g : ~ InHand(g)' /\ (InHand(g) <=> GroupOf(c) = g)
    BY <2>1 DEF InHand
  <2> HIDE DEF new
  <2> QED
    BY <1>9, <2>1, <2>2, <2>3 DEF EnqueueGroup, Scheduling
<1>10. ASSUME NEW c \in Calls, ListUnit(c) \/ AnalyzeAlone(c) \/ Throw(c) \/ AnalyzeUnit(c)
       PROVE  Scheduling'
  BY <1>10
  DEF ListUnit, AnalyzeAlone, Throw, AnalyzeUnit, Scheduling, InHand, OfGroup, IsEntry, IsCall
<1>11. ASSUME NEW c \in Calls, RemoveGroup(c) PROVE Scheduling'
  BY <1>11 DEF RemoveGroup, Scheduling, InHand, OfGroup
<1>12. ASSUME NEW c \in Calls, RunFunction(c) \/ EndFunction(c) \/ PostResult(c) PROVE Scheduling'
  BY <1>12 DEF RunFunction, EndFunction, PostResult, Scheduling, InHand, OfGroup
<1>13. ASSUME NEW d \in Disposers \cup {Loop}, BeginDispose(d) \/ MarkDisposed(d) \/ Join(d)
       PROVE  Scheduling'
  BY <1>13 DEF BeginDispose, MarkDisposed, Join, Scheduling, InHand
<1>14. CASE UNCHANGED vars
  BY <1>14 DEF vars, Scheduling, InHand
<1> QED
  BY <1>1, <1>2, <1>3, <1>4, <1>5, <1>6, <1>7, <1>8, <1>9, <1>10, <1>11, <1>12, <1>13, <1>14
  DEF Next, CallStep, LoopStep, Handle, DisposeStep

\* A unit is listed while its group is enqueued, and analysis leaves units only when it
\* fails or is cancelled.
LEMMA ListingKept ==
  Typed /\ Handling /\ Waiting /\ Scheduling /\ Listing /\ [Next]_vars => Listing'
<1> SUFFICES ASSUME Typed, Handling, Waiting, Scheduling, Listing, [Next]_vars PROVE Listing'
  OBVIOUS
<1> USE DEF queueVars, groupVars, loopVars, disposeVars, Listing
<1>1. ASSUME NEW c \in Calls, BeginEnqueue(c) \/ CallStep(c) \/ SetResult(c) PROVE Listing'
  BY <1>1 DEF BeginEnqueue, CallStep, Put, HandOver, Lose, SetResult, Waits
<1>2. ASSUME NEW n \in NestedCalls, CallFunction(n) PROVE Listing'
  BY <1>2 DEF CallFunction
<1>3. CASE Look \/ Take \/ BeginWait \/ RaiseComplete \/ Cancel \/ EndAnalysis \/ Handled
  BY <1>3 DEF Look, Take, BeginWait, RaiseComplete, Cancel, EndAnalysis, Handled
<1>4. CASE AfterFailure
  <2>1. disposed' /\ consumer' = "loop" /\ UNCHANGED groupVars
    BY <1>4 DEF AfterFailure, Waiting
  <2> QED
    BY <2>1
<1>5. ASSUME NEW c \in Calls, AddGroup(c) PROVE Listing'
  BY <1>5 DEF AddGroup
<1>6. ASSUME NEW c \in Calls, EnqueueGroup(c) PROVE Listing'
  <2>1. GroupOf(item[2]) \in Groups /\ InHand(GroupOf(item[2]))
    BY <1>6 DEF EnqueueGroup, Handling, IsGrouped, InHand
  <2>2. GroupOf(item[2]) \in enqueuedGroups
    BY <2>1 DEF Scheduling
  <2> QED
    BY <1>6, <2>2 DEF EnqueueGroup
<1>7. ASSUME NEW c \in Calls, ListUnit(c) PROVE Listing'
  <2>1. GroupOf(c) \in enqueuedGroups /\ consumer' = "handled"
    BY <1>7 DEF ListUnit
  <2>2. \A g \in Groups : workList'[g] = workList[g] \/ g = GroupOf(c)
    BY <1>7 DEF ListUnit, Typed
  <2> QED
    BY <1>7, <2>1, <2>2 DEF ListUnit
<1>8. ASSUME NEW c \in Calls, Throw(c) \/ AnalyzeUnit(c) PROVE Listing'
  BY <1>8 DEF Throw, AnalyzeUnit, Typed
<1>9. ASSUME NEW c \in Calls, RemoveGroup(c) PROVE Listing'
  BY <1>9 DEF RemoveGroup
<1>10. ASSUME NEW c \in Calls,
              \/ BeginEnqueueGroup(c) \/ AnalyzeAlone(c) \/ RunFunction(c)
              \/ EndFunction(c) \/ PostResult(c)
       PROVE  Listing'
  BY <1>10 DEF BeginEnqueueGroup, AnalyzeAlone, RunFunction, EndFunction, PostResult
<1>11. ASSUME NEW d \in Disposers \cup {Loop}, BeginDispose(d) \/ MarkDisposed(d) \/ Join(d)
       PROVE  Listing'
  BY <1>11 DEF BeginDispose, MarkDisposed, Join
<1>12. CASE UNCHANGED vars
  BY <1>12 DEF vars
<1> QED
  BY <1>1, <1>2, <1>3, <1>4, <1>5, <1>6, <1>7, <1>8, <1>9, <1>10, <1>11, <1>12
  DEF Next, LoopStep, Handle, DisposeStep

\* The call whose item the loop has is running.
LEMMA HeldRuns ==
  ASSUME Running, NEW c \in Calls, item = <<"call", c>>,
         consumer \in {"got", "added", "put", "analyze", "running"}
  PROVE  call[c] = "running" /\ c \notin NestedCalls
  BY CallItems DEF Running

\* A call whose item does not wait may go to any place but the queue.
LEMMA QueueingStays ==
  ASSUME Typed, Queueing,
         \A c \in Calls : call'[c] = call[c]
                            \/ /\ call[c] # "queued" /\ call'[c] # "queued"
                               /\ c \in NestedCalls => call'[c] # "checked",
         \A w : IsCall(w[1]) => (w \in waiting' <=> w \in waiting)
  PROVE  Queueing'
<1>1. \A c \in Calls : call'[c] = "queued" <=> call[c] = "queued"
  OBVIOUS
<1>2. \A w \in waiting : IsCall(w[1]) => w[1][2] \in Calls
  BY CallItems DEF Typed
<1>3. \A w \in waiting' : IsCall(w[1]) => call'[w[1][2]] = "queued"
  BY <1>1, <1>2 DEF Queueing
<1>4. \A v, w \in waiting' : IsCall(w[1]) /\ v[1] = w[1] => v = w
  BY DEF Queueing
<1>5. \A c \in EntryCalls : call'[c] = "queued" => \E w \in waiting' : w[1] = <<"call", c>>
  <2> SUFFICES ASSUME NEW c \in EntryCalls, call'[c] = "queued"
               PROVE  \E w \in waiting' : w[1] = <<"call", c>>
    OBVIOUS
  <2>1. c \in Calls
    BY DEF EntryCalls
  <2>2. PICK w \in waiting : w[1] = <<"call", c>>
    BY <1>1, <2>1 DEF Queueing
  <2>3. IsCall(w[1])
    BY <2>1, <2>2, CallItems
  <2> QED
    BY <2>2, <2>3
<1>6. \A c \in NestedCalls : call'[c] \notin {"checked", "queued"}
  BY AnalysisQueueAssumption DEF Queueing
<1> QED
  BY <1>3, <1>4, <1>5, <1>6 DEF Queueing

\* Enqueue moves its own call to the queue and takes the merged ones out of it.
LEMMA PutMoves ==
  ASSUME Typed, Queueing, NEW c \in Calls, Put(c)
  PROVE  /\ call[c] = "checked" /\ call'[c] = "queued"
         /\ \A w \in waiting : IsCall(w[1]) => w[1][2] # c
         /\ \A x \in Calls \ {c} :
              IF \E w \in Equal(c) : w[1] = <<"call", x>>
              THEN call[x] = "queued" /\ call'[x] = "merged" /\ c \in EntryCalls
              ELSE call'[x] = call[x]
         /\ \A x \in Calls :
              by'[x] = IF \E w \in Equal(c) : w[1] = <<"call", by[x]>> THEN c ELSE by[x]
<1>1. call[c] = "checked" /\ call'[c] = "queued"
  BY DEF Put, Typed
<1>2. \A w \in waiting : IsCall(w[1]) => w[1][2] # c
  BY <1>1 DEF Queueing
<1>3. \A w \in Equal(c) : w \in waiting /\ IsCall(w[1]) /\ c \in EntryCalls
  BY PutIs DEF Typed, IsEntry
<1> DEFINE merged == {w[1][2] : w \in Equal(c)}
<1>4. \A x \in Calls : x \in merged <=> \E w \in Equal(c) : w[1] = <<"call", x>>
  BY <1>3, CallItems DEF Typed
<1>5. \A x \in merged : call[x] = "queued"
  BY <1>3 DEF Queueing
<1>6. /\ call' = [x \in Calls |-> IF x = c THEN "queued"
                                  ELSE IF x \in merged THEN "merged" ELSE call[x]]
      /\ by' = [x \in Calls |-> IF by[x] \in merged THEN c ELSE by[x]]
  BY DEF Put
<1>7. \A x \in Calls : by[x] \in Calls
  BY DEF Typed
<1> HIDE DEF merged
<1> QED
  BY <1>1, <1>2, <1>3, <1>4, <1>5, <1>6, <1>7

\* Each way into the queue and out of it changes the place of the call with it.
LEMMA QueueingKept == Typed /\ Handling /\ Marking /\ [Next]_vars => Queueing'
<1> SUFFICES ASSUME Typed, Handling, Marking, [Next]_vars PROVE Queueing'
  OBVIOUS
<1> USE DEF queueVars, groupVars, loopVars, disposeVars
<1>0. Queueing /\ Running /\ Listed /\ Ended
  BY DEF Marking
<1>1. ASSUME NEW c \in Calls, BeginEnqueue(c) \/ HandOver(c) \/ Lose(c) \/ SetResult(c)
      PROVE  Queueing'
  <2>1. /\ \A x \in Calls \ {c} : call'[x] = call[x]
        /\ call[c] # "queued" /\ call'[c] # "queued"
        /\ c \in NestedCalls => call'[c] # "checked"
        /\ waiting' = waiting
    BY <1>1 DEF BeginEnqueue, HandOver, Lose, SetResult, Typed
  <2> QED
    BY <1>0, <2>1, QueueingStays
<1>2. ASSUME NEW c \in Calls, Put(c) PROVE Queueing'
  <2>1. PICK p \in Priorities : waiting' = (waiting \ Equal(c)) \cup {<<<<"call", c>>, p>>}
    BY <1>2, PutIs DEF Typed
  <2> DEFINE new == <<<<"call", c>>, p>>
  <2>2. IsCall(new[1]) /\ new[1] = <<"call", c>> /\ new[1][2] = c
    BY CallItems
  <2> HIDE DEF new
  <2>3. waiting' = (waiting \ Equal(c)) \cup {new}
    BY <2>1 DEF new
  <2>4. \A w \in waiting : IsCall(w[1]) => w[1] = <<"call", w[1][2]>> /\ w[1][2] \in Calls \ {c}
    BY <1>0, <1>2, PutMoves, CallItems DEF Typed
  <2>5. ASSUME NEW w \in waiting \ Equal(c), IsCall(w[1]) PROVE call'[w[1][2]] = "queued"
    <3>1. ASSUME NEW v \in Equal(c) PROVE v[1] # w[1]
      BY <1>0, <1>2, <2>5, PutIs DEF Queueing, Typed
    <3>2. call'[w[1][2]] = call[w[1][2]]
      BY <1>0, <1>2, <2>4, <2>5, <3>1, PutMoves
    <3> QED
      BY <1>0, <2>5, <3>2 DEF Queueing
  <2>6. \A w \in waiting' : IsCall(w[1]) => call'[w[1][2]] = "queued"
    BY <1>0, <1>2, <2>2, <2>3, <2>5, PutMoves
  <2>7. \A v, w \in waiting' : IsCall(w[1]) /\ v[1] = w[1] => v = w
    BY <1>0, <2>2, <2>3, <2>4 DEF Queueing
  <2>8. ASSUME NEW x \in EntryCalls, call'[x] = "queued"
        PROVE  \E w \in waiting' : w[1] = <<"call", x>>
    <3>1. CASE x = c
      BY <2>2, <2>3, <3>1
    <3>2. CASE x # c
      <4>1. x \in Calls \ {c}
        BY <3>2 DEF EntryCalls
      <4>2. ~ (\E w \in Equal(c) : w[1] = <<"call", x>>) /\ call[x] = "queued"
        BY <1>0, <1>2, <2>8, <4>1, PutMoves
      <4> QED
        BY <1>0, <2>3, <4>2 DEF Queueing
    <3> QED
      BY <3>1, <3>2
  <2>9. \A x \in NestedCalls : call'[x] \notin {"checked", "queued"}
    <3> SUFFICES ASSUME NEW x \in NestedCalls PROVE call'[x] \notin {"checked", "queued"}
      OBVIOUS
    <3>1. call[x] \notin {"checked", "queued"} /\ x \in Calls
      BY <1>0, AnalysisQueueAssumption DEF Queueing
    <3> QED
      BY <1>0, <1>2, <3>1, PutMoves
  <2> QED
    BY <2>6, <2>7, <2>8, <2>9 DEF Queueing
<1>3. ASSUME NEW n \in NestedCalls, CallFunction(n) PROVE Queueing'
  <2>1. /\ \A x \in Calls \ {n} : call'[x] = call[x]
        /\ call[n] = "idle" /\ call'[n] = "running"
        /\ waiting' = waiting
    BY <1>3, AnalysisQueueAssumption DEF CallFunction, Typed
  <2> QED
    BY <1>0, <2>1, QueueingStays
<1>4. CASE Take
  <2>1. PICK w \in waiting :
          /\ waiting' = waiting \ {w}
          /\ call' = IF IsCall(w[1]) THEN [call EXCEPT ![w[1][2]] = "running"] ELSE call
    BY <1>4 DEF Take
  <2>2. CASE IsCall(w[1])
    <3>1. w[1] = <<"call", w[1][2]>> /\ w[1][2] \in Calls
      BY <2>2, CallItems DEF Typed
    <3>2. \A x \in Calls : call'[x] = IF x = w[1][2] THEN "running" ELSE call[x]
      BY <2>1, <2>2, <3>1 DEF Typed
    <3>3. \A v \in waiting : IsCall(v[1]) => v[1] = <<"call", v[1][2]>> /\ v[1][2] \in Calls
      BY CallItems DEF Typed
    <3>4. \A v \in waiting' : IsCall(v[1]) => v[1][2] # w[1][2]
      BY <1>0, <2>1, <2>2, <3>1, <3>3 DEF Queueing
    <3>5. \A v \in waiting' : IsCall(v[1]) => call'[v[1][2]] = "queued"
      BY <1>0, <2>1, <3>2, <3>3, <3>4 DEF Queueing
    <3>6. \A x \in EntryCalls : call'[x] = "queued" => \E v \in waiting' : v[1] = <<"call", x>>
      <4> SUFFICES ASSUME NEW x \in EntryCalls, call'[x] = "queued"
                   PROVE  \E v \in waiting' : v[1] = <<"call", x>>
        OBVIOUS
      <4>1. x # w[1][2] /\ call[x] = "queued"
        BY <3>2 DEF EntryCalls
      <4>2. PICK v \in waiting : v[1] = <<"call", x>>
        BY <1>0, <4>1 DEF Queueing
      <4> QED
        BY <2>1, <3>1, <4>1, <4>2
    <3>7. \A x \in NestedCalls : call'[x] \notin {"checked", "queued"}
      BY <1>0, <3>2, AnalysisQueueAssumption DEF Queueing
    <3> QED
      BY <1>0, <2>1, <3>5, <3>6, <3>7 DEF Queueing
  <2>3. CASE ~ IsCall(w[1])
    <3>1. call' = call /\ \A v : IsCall(v[1]) => (v \in waiting' <=> v \in waiting)
      BY <2>1, <2>3
    <3> QED
      BY <1>0, <3>1, QueueingStays
  <2> QED
    BY <2>2, <2>3
<1>5. CASE Look \/ BeginWait \/ RaiseComplete \/ Cancel \/ EndAnalysis \/ Handled \/ AfterFailure
  BY <1>0, <1>5 DEF Look, BeginWait, RaiseComplete, Cancel, EndAnalysis, Handled, AfterFailure,
                    Queueing
<1>6. ASSUME NEW c \in Calls,
             \/ BeginEnqueueGroup(c) \/ ListUnit(c) \/ AnalyzeAlone(c) \/ Throw(c)
             \/ AnalyzeUnit(c) \/ PostResult(c)
      PROVE  Queueing'
  <2>1. call[c] \in {"running", "listed"} /\ waiting' = waiting
    <3>1. ASSUME consumer \in {"added", "analyze", "got", "running"}, item = <<"call", c>>
          PROVE  call[c] = "running"
      BY <1>0, <3>1, HeldRuns
    <3>2. ASSUME consumer = "got", IsEntry(item), item[2] = c PROVE item = <<"call", c>>
      BY <3>2, CallItems DEF Handling, IsProper, IsEntry
    <3>3. ASSUME consumer = "drain", c \in workList[GroupOf(item[2])] PROVE call[c] = "listed"
      BY <1>0, <3>3 DEF Listed, Handling, IsGrouped
    <3> QED
      BY <1>6, <3>1, <3>2, <3>3
      DEF BeginEnqueueGroup, ListUnit, AnalyzeAlone, Throw, AnalyzeUnit, PostResult
  <2>2. /\ \A x \in Calls \ {c} : call'[x] = call[x]
        /\ call'[c] \notin {"queued", "checked"}
    BY <1>6, <2>1
    DEF BeginEnqueueGroup, ListUnit, AnalyzeAlone, Throw, AnalyzeUnit, PostResult, Typed
  <2> QED
    BY <1>0, <2>1, <2>2, QueueingStays
<1>7. ASSUME NEW c \in Calls, EndFunction(c) PROVE Queueing'
  <2>1. /\ \A x \in Calls \ {c} : call'[x] = call[x]
        /\ call[c] = "running" /\ call'[c] = "ended" /\ waiting' = waiting
    BY <1>7 DEF EndFunction, Typed
  <2> QED
    BY <1>0, <2>1, QueueingStays
<1>8. ASSUME NEW c \in Calls, EnqueueGroup(c) PROVE Queueing'
  <2> DEFINE new == <<<<"group", c>>, priority[c]>>
  <2>1. ~ IsCall(new[1])
    BY CallItems
  <2>2. call' = call /\ waiting' = waiting \cup {new}
    BY <1>8 DEF EnqueueGroup
  <2> HIDE DEF new
  <2>3. \A w : IsCall(w[1]) => (w \in waiting' <=> w \in waiting)
    BY <2>1, <2>2
  <2> QED
    BY <1>0, <2>2, <2>3, QueueingStays
<1>9. ASSUME NEW c \in Calls, AddGroup(c) \/ RemoveGroup(c) \/ RunFunction(c) PROVE Queueing'
  BY <1>0, <1>9 DEF AddGroup, RemoveGroup, RunFunction, Queueing
<1>10. ASSUME NEW d \in Disposers \cup {Loop}, BeginDispose(d) \/ MarkDisposed(d) \/ Join(d)
       PROVE  Queueing'
  BY <1>0, <1>10 DEF BeginDispose, MarkDisposed, Join, Queueing
<1>11. CASE UNCHANGED vars
  BY <1>0, <1>11 DEF vars, Queueing
<1> QED
  BY <1>1, <1>2, <1>3, <1>4, <1>5, <1>6, <1>7, <1>8, <1>9, <1>10, <1>11
  DEF Next, CallStep, LoopStep, Handle, DisposeStep

\* The loop lets go of its item only when the call has got another place.
LEMMA RunningKept == Typed /\ Handling /\ Marking /\ [Next]_vars => Running'
<1> SUFFICES ASSUME Typed, Handling, Marking, [Next]_vars PROVE Running'
  OBVIOUS
<1> USE DEF queueVars, groupVars, loopVars, disposeVars, EntryCalls
<1>0. Queueing /\ Running /\ Listed
  BY DEF Marking
<1>1. ASSUME NEW c \in Calls, Put(c) PROVE Running'
  <2>1. UNCHANGED <<consumer, item>> /\ consumer \in ConsumerStates
    BY <1>1 DEF Put, Typed
  <2>2. \A x \in Calls : call[x] = "running" <=> call'[x] = "running"
    BY <1>0, <1>1, PutMoves
  <2>3. IsCall(item) => item[2] \in Calls
    BY CallItems DEF Typed, IsCall
  <2> QED
    BY <1>0, <2>1, <2>2, <2>3 DEF Running
<1>2. ASSUME NEW c \in Calls, BeginEnqueue(c) \/ HandOver(c) \/ Lose(c) \/ SetResult(c)
      PROVE  Running'
  BY <1>0, <1>2, CallItems
  DEF BeginEnqueue, HandOver, Waits, Lose, SetResult, Running, Queueing, Listed, Typed, Handling,
      IsEntry, IsProper, IsGrouped
<1>3. ASSUME NEW n \in NestedCalls, CallFunction(n) PROVE Running'
  BY <1>0, <1>3, CallItems, AnalysisQueueAssumption
  DEF CallFunction, Running, Queueing, Listed, Typed, Handling, IsEntry, IsProper, IsGrouped
<1>4. CASE Take
  BY <1>0, <1>4, CallItems
  DEF Take, Running, Queueing, Listed, Typed, Handling, IsEntry, IsProper, IsGrouped
<1>5. CASE Look \/ BeginWait \/ RaiseComplete \/ Cancel \/ EndAnalysis \/ Handled \/ AfterFailure
  BY <1>0, <1>5, CallItems
  DEF Look, BeginWait, RaiseComplete, Cancel, Waits, EndAnalysis, Handled, AfterFailure,
      Running, Queueing, Listed, Typed, Handling, IsEntry, IsProper, IsGrouped
<1>6. ASSUME NEW c \in Calls,
             AddGroup(c) \/ BeginEnqueueGroup(c) \/ EnqueueGroup(c) \/ RemoveGroup(c)
             \/ RunFunction(c)
      PROVE  Running'
  BY <1>0, <1>6, CallItems
  DEF AddGroup, BeginEnqueueGroup, EnqueueGroup, RemoveGroup, RunFunction, Running, Queueing,
      Listed, Typed, Handling, IsEntry, IsProper, IsGrouped
<1>7. ASSUME NEW c \in Calls, ListUnit(c) \/ AnalyzeAlone(c) \/ PostResult(c) PROVE Running'
  BY <1>0, <1>7, CallItems
  DEF ListUnit, AnalyzeAlone, PostResult, Running, Queueing, Listed, Typed, Handling, IsEntry,
      IsProper, IsGrouped
<1>8. ASSUME NEW c \in Calls, Throw(c) \/ AnalyzeUnit(c) PROVE Running'
  BY <1>0, <1>8, CallItems
  DEF Throw, AnalyzeUnit, Running, Queueing, Listed, Typed, Handling, IsEntry, IsProper, IsGrouped
<1>9. ASSUME NEW c \in Calls, EndFunction(c) PROVE Running'
  BY <1>0, <1>9, CallItems
  DEF EndFunction, Running, Queueing, Listed, Typed, Handling, IsEntry, IsProper, IsGrouped
<1>10. ASSUME NEW d \in Disposers \cup {Loop}, BeginDispose(d) \/ MarkDisposed(d) \/ Join(d)
      PROVE  Running'
  BY <1>0, <1>10, CallItems
  DEF BeginDispose, MarkDisposed, Join, Running, Queueing, Listed, Typed, Handling, IsEntry,
      IsProper, IsGrouped
<1>11. CASE UNCHANGED vars
  BY <1>0, <1>11, CallItems
  DEF vars, Running, Queueing, Listed, Typed, Handling, IsEntry, IsProper, IsGrouped
<1> QED
  BY <1>1, <1>2, <1>3, <1>4, <1>5, <1>6, <1>7, <1>8, <1>9, <1>10, <1>11
  DEF Next, CallStep, LoopStep, Handle, DisposeStep

\* Units come to the work list and leave it with the place of their call.
LEMMA ListedKept == Typed /\ Handling /\ Marking /\ [Next]_vars => Listed'
<1> SUFFICES ASSUME Typed, Handling, Marking, [Next]_vars PROVE Listed'
  OBVIOUS
<1> USE DEF queueVars, groupVars, loopVars, disposeVars, EntryCalls
<1>0. Queueing /\ Running /\ Listed
  BY DEF Marking
<1>1. ASSUME NEW c \in Calls, Put(c) PROVE Listed'
  <2>1. UNCHANGED workList
    BY <1>1 DEF Put
  <2>2. \A x \in Calls : call[x] = "listed" <=> call'[x] = "listed"
    BY <1>0, <1>1, PutMoves
  <2>3. \A g \in Groups : \A x \in workList[g] : x \in Calls
    BY DEF Typed
  <2> QED
    BY <1>0, <2>1, <2>2, <2>3 DEF Listed
<1>2. ASSUME NEW c \in Calls, BeginEnqueue(c) \/ HandOver(c) \/ Lose(c) \/ SetResult(c)
      PROVE  Listed'
  BY <1>0, <1>2, CallItems
  DEF BeginEnqueue, HandOver, Waits, Lose, SetResult, Running, Listed, Typed, Handling, IsEntry,
      IsProper, IsGrouped
<1>3. ASSUME NEW n \in NestedCalls, CallFunction(n) PROVE Listed'
  BY <1>0, <1>3, CallItems, AnalysisQueueAssumption
  DEF CallFunction, Running, Listed, Typed, Handling, IsEntry, IsProper, IsGrouped
<1>4. CASE Take
  BY <1>0, <1>4, CallItems
  DEF Take, Running, Queueing, Listed, Typed, Handling, IsEntry, IsProper, IsGrouped
<1>5. CASE Look \/ BeginWait \/ RaiseComplete \/ Cancel \/ EndAnalysis \/ Handled \/ AfterFailure
  BY <1>0, <1>5, CallItems
  DEF Look, BeginWait, RaiseComplete, Cancel, Waits, EndAnalysis, Handled, AfterFailure,
      Running, Listed, Typed, Handling, IsEntry, IsProper, IsGrouped
<1>6. ASSUME NEW c \in Calls,
             AddGroup(c) \/ BeginEnqueueGroup(c) \/ EnqueueGroup(c) \/ RemoveGroup(c)
             \/ RunFunction(c)
      PROVE  Listed'
  BY <1>0, <1>6, CallItems
  DEF AddGroup, BeginEnqueueGroup, EnqueueGroup, RemoveGroup, RunFunction, Running, Listed,
      Typed, Handling, IsEntry, IsProper, IsGrouped
<1>7. ASSUME NEW c \in Calls, ListUnit(c) PROVE Listed'
  BY <1>0, <1>7, CallItems DEF ListUnit, Running, Listed, Typed, Handling, IsEntry, IsGrouped
<1>12. ASSUME NEW c \in Calls, AnalyzeAlone(c) \/ PostResult(c) PROVE Listed'
  <2>1. call[c] = "running" /\ UNCHANGED workList
    BY <1>0, <1>12, HeldRuns DEF AnalyzeAlone, PostResult
  <2>2. \A x \in Calls : call'[x] = "listed" <=> call[x] = "listed"
    BY <1>12, <2>1 DEF AnalyzeAlone, PostResult, Typed
  <2>3. \A g \in Groups : \A x \in workList[g] : x \in Calls
    BY DEF Typed
  <2> QED
    BY <1>0, <2>1, <2>2, <2>3 DEF Listed
<1>8. ASSUME NEW c \in Calls, Throw(c) \/ AnalyzeUnit(c) PROVE Listed'
  BY <1>0, <1>8, CallItems
  DEF Throw, AnalyzeUnit, Running, Listed, Typed, Handling, IsEntry, IsProper, IsGrouped
<1>9. ASSUME NEW c \in Calls, EndFunction(c) PROVE Listed'
  BY <1>0, <1>9, CallItems
  DEF EndFunction, Running, Listed, Typed, Handling, IsEntry, IsProper, IsGrouped
<1>10. ASSUME NEW d \in Disposers \cup {Loop}, BeginDispose(d) \/ MarkDisposed(d) \/ Join(d)
      PROVE  Listed'
  BY <1>0, <1>10, CallItems
  DEF BeginDispose, MarkDisposed, Join, Running, Listed, Typed, Handling, IsEntry, IsProper,
      IsGrouped
<1>11. CASE UNCHANGED vars
  BY <1>0, <1>11, CallItems
  DEF vars, Running, Listed, Typed, Handling, IsEntry, IsProper, IsGrouped
<1> QED
  BY <1>1, <1>2, <1>3, <1>4, <1>5, <1>6, <1>7, <1>8, <1>9, <1>10, <1>11, <1>12
  DEF Next, CallStep, LoopStep, Handle, DisposeStep

\* A handler fails in the loop, and the loop goes on only after its Dispose.
LEMMA EndedKept == Typed /\ Handling /\ Waiting /\ Marking /\ [Next]_vars => Ended'
<1> SUFFICES ASSUME Typed, Handling, Waiting, Marking, [Next]_vars PROVE Ended'
  OBVIOUS
<1> USE DEF queueVars, groupVars, loopVars, disposeVars, EntryCalls
<1>0. Queueing /\ Running /\ Ended
  BY DEF Marking
<1>1. ASSUME NEW c \in Calls, Put(c) PROVE Ended'
  <2>1. UNCHANGED <<consumer, disposed>>
    BY <1>1 DEF Put, loopVars
  <2>2. \A x \in Calls : call'[x] \in {call[x], "queued", "merged"}
    BY <1>0, <1>1, PutMoves
  <2> QED
    BY <1>0, <2>1, <2>2 DEF Ended
<1>2. ASSUME NEW c \in Calls, BeginEnqueue(c) \/ HandOver(c) \/ Lose(c) \/ SetResult(c)
      PROVE  Ended'
  BY <1>0, <1>2, CallItems
  DEF BeginEnqueue, HandOver, Waits, Lose, SetResult, Running, Ended, Typed, Handling, Waiting,
      IsEntry
<1>3. ASSUME NEW n \in NestedCalls, CallFunction(n) PROVE Ended'
  BY <1>0, <1>3, CallItems, AnalysisQueueAssumption
  DEF CallFunction, Running, Ended, Typed, Handling, Waiting, IsEntry
<1>4. CASE Take
  BY <1>0, <1>4, CallItems DEF Take, Running, Ended, Typed, Handling, Waiting, IsEntry
<1>5. CASE Look \/ BeginWait \/ RaiseComplete \/ Cancel \/ EndAnalysis \/ Handled \/ AfterFailure
  BY <1>0, <1>5, CallItems
  DEF Look, BeginWait, RaiseComplete, Cancel, Waits, EndAnalysis, Handled, AfterFailure,
      Running, Ended, Typed, Handling, Waiting, IsEntry
<1>6. ASSUME NEW c \in Calls,
             AddGroup(c) \/ BeginEnqueueGroup(c) \/ EnqueueGroup(c) \/ RemoveGroup(c)
             \/ RunFunction(c)
      PROVE  Ended'
  BY <1>0, <1>6, CallItems
  DEF AddGroup, BeginEnqueueGroup, EnqueueGroup, RemoveGroup, RunFunction, Running, Ended, Typed,
      Handling, Waiting, IsEntry
<1>7. ASSUME NEW c \in Calls, ListUnit(c) \/ AnalyzeAlone(c) \/ PostResult(c) PROVE Ended'
  BY <1>0, <1>7, CallItems
  DEF ListUnit, AnalyzeAlone, PostResult, Running, Ended, Typed, Handling, Waiting, IsEntry
<1>8. ASSUME NEW c \in Calls, Throw(c) \/ AnalyzeUnit(c) PROVE Ended'
  BY <1>0, <1>8, CallItems
  DEF Throw, AnalyzeUnit, Running, Ended, Typed, Handling, Waiting, IsEntry
<1>9. ASSUME NEW c \in Calls, EndFunction(c) PROVE Ended'
  BY <1>0, <1>9, CallItems DEF EndFunction, Running, Ended, Typed, Handling, Waiting, IsEntry
<1>10. ASSUME NEW d \in Disposers \cup {Loop}, BeginDispose(d) \/ MarkDisposed(d) \/ Join(d)
      PROVE  Ended'
  BY <1>0, <1>10, CallItems
  DEF BeginDispose, MarkDisposed, Join, Running, Ended, Typed, Handling, Waiting, IsEntry
<1>11. CASE UNCHANGED vars
  BY <1>0, <1>11, CallItems DEF vars, Running, Ended, Typed, Handling, Waiting, IsEntry
<1> QED
  BY <1>1, <1>2, <1>3, <1>4, <1>5, <1>6, <1>7, <1>8, <1>9, <1>10, <1>11
  DEF Next, CallStep, LoopStep, Handle, DisposeStep

\* The order of the queue is kept by a step that only takes from it.
LEMMA RankingStays ==
  ASSUME Ranking, UNCHANGED priority, waiting' \subseteq waiting,
         \A c \in EntryCalls : call[c] = "idle" => call'[c] = "idle"
  PROVE  Ranking'
  BY DEF Ranking

\* An entry merges to a priority not below its own, and a group takes that of an entry.
LEMMA RankingKept == Typed /\ Handling /\ Marking /\ Ranking /\ [Next]_vars => Ranking'
<1> SUFFICES ASSUME Typed, Handling, Marking, Ranking, [Next]_vars PROVE Ranking'
  OBVIOUS
<1> USE DEF queueVars, groupVars, loopVars, disposeVars, EntryCalls
<1>0. Queueing /\ Running /\ Listed
  BY DEF Marking
<1>1. ASSUME NEW c \in Calls, Put(c) PROVE Ranking'
  <2>1. PICK p \in Priorities :
          /\ p <= priority[c] /\ (c \in ExecCalls => p = priority[c])
          /\ waiting' = (waiting \ Equal(c)) \cup {<<<<"call", c>>, p>>}
    BY <1>1, PutIs DEF Typed
  <2>2. UNCHANGED priority /\ \A x \in EntryCalls : call[x] = "idle" => call'[x] = "idle"
    BY <1>0, <1>1, PutMoves DEF Put
  <2>3. c \in EntryCalls => p < LowestPriority
    BY <1>0, <1>1, <2>1, PutMoves, AnalysisQueueAssumption DEF Ranking, Priorities, Typed
  <2> DEFINE new == <<<<"call", c>>, p>>
  <2>4. /\ IsCall(new[1]) /\ new[1][2] = c /\ new[2] = p
        /\ IF c \in ExecCalls THEN p = priority[c] ELSE p < LowestPriority
    BY <2>1, <2>3, CallItems
  <2> HIDE DEF new
  <2>5. waiting' = (waiting \ Equal(c)) \cup {new}
    BY <2>1 DEF new
  <2> QED
    BY <2>1, <2>2, <2>4, <2>5 DEF Ranking
<1>2. ASSUME NEW c \in Calls, BeginEnqueue(c) \/ HandOver(c) \/ Lose(c) \/ SetResult(c)
      PROVE  Ranking'
  BY <1>0, <1>2, CallItems
  DEF BeginEnqueue, HandOver, Waits, Lose, SetResult, Running, Queueing, Listed, Ranking, Typed,
      Handling, IsEntry, IsProper
<1>3. ASSUME NEW n \in NestedCalls, CallFunction(n) PROVE Ranking'
  BY <1>0, <1>3, CallItems, AnalysisQueueAssumption
  DEF CallFunction, Running, Queueing, Listed, Ranking, Typed, Handling, IsEntry, IsProper
<1>4. CASE Take
  BY <1>0, <1>4, CallItems
  DEF Take, Running, Queueing, Listed, Ranking, Typed, Handling, IsEntry, IsProper
<1>5. CASE Look \/ BeginWait \/ RaiseComplete \/ Cancel \/ EndAnalysis \/ Handled \/ AfterFailure
  BY <1>0, <1>5, CallItems
  DEF Look, BeginWait, RaiseComplete, Cancel, Waits, EndAnalysis, Handled, AfterFailure,
      Running, Queueing, Listed, Ranking, Typed, Handling, IsEntry, IsProper
<1>6. ASSUME NEW c \in Calls,
             AddGroup(c) \/ BeginEnqueueGroup(c) \/ EnqueueGroup(c) \/ RemoveGroup(c)
             \/ RunFunction(c)
      PROVE  Ranking'
  BY <1>0, <1>6, CallItems
  DEF AddGroup, BeginEnqueueGroup, EnqueueGroup, RemoveGroup, RunFunction, Running, Queueing,
      Listed, Ranking, Typed, Handling, IsEntry, IsProper
<1>7. ASSUME NEW c \in Calls, ListUnit(c) \/ AnalyzeAlone(c) \/ PostResult(c) PROVE Ranking'
  <2>1. call[c] = "running" /\ UNCHANGED <<priority, waiting>>
    BY <1>0, <1>7, HeldRuns DEF ListUnit, AnalyzeAlone, PostResult
  <2>2. \A x \in Calls \ {c} : call'[x] = call[x]
    BY <1>7 DEF ListUnit, AnalyzeAlone, PostResult, Typed
  <2> QED
    BY <2>1, <2>2, RankingStays
<1>8. ASSUME NEW c \in Calls, Throw(c) \/ AnalyzeUnit(c) PROVE Ranking'
  <2>1. call[c] # "idle" /\ UNCHANGED <<priority, waiting>>
    BY <1>0, <1>8, CallItems
    DEF Throw, AnalyzeUnit, Running, Listed, Handling, IsProper, IsEntry, IsGrouped
  <2>2. \A x \in Calls \ {c} : call'[x] = call[x]
    BY <1>8 DEF Throw, AnalyzeUnit, Typed
  <2> QED
    BY <2>1, <2>2, RankingStays
<1>9. ASSUME NEW c \in Calls, EndFunction(c) PROVE Ranking'
  BY <1>0, <1>9, CallItems
  DEF EndFunction, Running, Queueing, Listed, Ranking, Typed, Handling, IsEntry, IsProper
<1>10. ASSUME NEW d \in Disposers \cup {Loop}, BeginDispose(d) \/ MarkDisposed(d) \/ Join(d)
      PROVE  Ranking'
  BY <1>0, <1>10, CallItems
  DEF BeginDispose, MarkDisposed, Join, Running, Queueing, Listed, Ranking, Typed, Handling,
      IsEntry, IsProper
<1>11. CASE UNCHANGED vars
  BY <1>0, <1>11, CallItems
  DEF vars, Running, Queueing, Listed, Ranking, Typed, Handling, IsEntry, IsProper
<1> QED
  BY <1>1, <1>2, <1>3, <1>4, <1>5, <1>6, <1>7, <1>8, <1>9, <1>10, <1>11
  DEF Next, CallStep, LoopStep, Handle, DisposeStep

\* A call merges into one that is queued then, and queued calls never go back.
LEMMA MergingKept == Typed /\ Handling /\ Marking /\ Merging /\ [Next]_vars => Merging'
<1> SUFFICES ASSUME Typed, Handling, Marking, Merging, [Next]_vars PROVE Merging'
  OBVIOUS
<1> USE DEF queueVars, groupVars, loopVars, disposeVars, EntryCalls
<1>0. Queueing /\ Running /\ Listed
  BY DEF Marking
<1>1. ASSUME NEW c \in Calls, Put(c) PROVE Merging'
  BY <1>0, <1>1, PutMoves DEF Put, Merging, Accepted, Typed
<1>2. ASSUME NEW c \in Calls, BeginEnqueue(c) \/ HandOver(c) \/ Lose(c) \/ SetResult(c)
      PROVE  Merging'
  BY <1>0, <1>2, CallItems
  DEF BeginEnqueue, HandOver, Waits, Lose, SetResult, Running, Merging, Accepted, Typed,
      Handling, IsEntry, IsGrouped
<1>3. ASSUME NEW n \in NestedCalls, CallFunction(n) PROVE Merging'
  BY <1>0, <1>3, CallItems, AnalysisQueueAssumption
  DEF CallFunction, Running, Merging, Accepted, Typed, Handling, IsEntry, IsGrouped
<1>4. CASE Take
  BY <1>0, <1>4, CallItems
  DEF Take, Running, Merging, Accepted, Typed, Handling, IsEntry, IsGrouped
<1>5. CASE Look \/ BeginWait \/ RaiseComplete \/ Cancel \/ EndAnalysis \/ Handled \/ AfterFailure
  BY <1>0, <1>5, CallItems
  DEF Look, BeginWait, RaiseComplete, Cancel, Waits, EndAnalysis, Handled, AfterFailure,
      Running, Merging, Accepted, Typed, Handling, IsEntry, IsGrouped
<1>6. ASSUME NEW c \in Calls,
             AddGroup(c) \/ BeginEnqueueGroup(c) \/ EnqueueGroup(c) \/ RemoveGroup(c)
             \/ RunFunction(c)
      PROVE  Merging'
  BY <1>0, <1>6, CallItems
  DEF AddGroup, BeginEnqueueGroup, EnqueueGroup, RemoveGroup, RunFunction, Running, Merging,
      Accepted, Typed, Handling, IsEntry, IsGrouped
<1>7. ASSUME NEW c \in Calls, ListUnit(c) \/ AnalyzeAlone(c) \/ PostResult(c) PROVE Merging'
  BY <1>0, <1>7, CallItems
  DEF ListUnit, AnalyzeAlone, PostResult, Running, Merging, Accepted, Typed, Handling, IsEntry,
      IsGrouped
<1>8. ASSUME NEW c \in Calls, Throw(c) \/ AnalyzeUnit(c) PROVE Merging'
  BY <1>0, <1>8, CallItems
  DEF Throw, AnalyzeUnit, Running, Merging, Accepted, Typed, Handling, IsEntry, IsGrouped
<1>9. ASSUME NEW c \in Calls, EndFunction(c) PROVE Merging'
  BY <1>0, <1>9, CallItems
  DEF EndFunction, Running, Merging, Accepted, Typed, Handling, IsEntry, IsGrouped
<1>10. ASSUME NEW d \in Disposers \cup {Loop}, BeginDispose(d) \/ MarkDisposed(d) \/ Join(d)
      PROVE  Merging'
  BY <1>0, <1>10, CallItems
  DEF BeginDispose, MarkDisposed, Join, Running, Merging, Accepted, Typed, Handling, IsEntry,
      IsGrouped
<1>11. CASE UNCHANGED vars
  BY <1>0, <1>11, CallItems
  DEF vars, Running, Merging, Accepted, Typed, Handling, IsEntry, IsGrouped
<1> QED
  BY <1>1, <1>2, <1>3, <1>4, <1>5, <1>6, <1>7, <1>8, <1>9, <1>10, <1>11
  DEF Next, CallStep, LoopStep, Handle, DisposeStep

\* When the loop looks for an item and only functions wait, every entry that has
\* been enqueued has been analysed.
LEMMA NothingIsLeft ==
  ASSUME Typed, Scheduling, Listing, Marking, Ranking, Merging, ~ disposed,
         consumer \in {"looked", "waiting", "idle"},
         \A w \in waiting : ~ (w[2] < LowestPriority),
         NEW b \in Accepted
  PROVE  call[by[b]] = "ended"
<1> USE DEF EntryCalls
<1>1. by[b] \in EntryCalls /\ call[by[b]] \in CallStates /\ call[by[b]] # "merged"
      /\ call[by[b]] \notin {"idle", "checked", "threw"}
  BY DEF Merging, Accepted, Typed
<1> DEFINE x == by[b]
<1> HIDE DEF x
<1>2. \A w \in waiting : IsCall(w[1]) /\ w[1][2] \in ExecCalls
  BY DEF Ranking
<1>3. call[x] # "queued"
  <2> SUFFICES ASSUME call[x] = "queued" PROVE FALSE
    OBVIOUS
  <2>1. PICK w \in waiting : w[1] = <<"call", x>>
    BY <1>1 DEF x, Marking, Queueing
  <2> QED
    BY <1>1, <1>2, <2>1 DEF x
<1>4. call[x] # "listed"
  <2> SUFFICES ASSUME call[x] = "listed" PROVE FALSE
    OBVIOUS
  <2>1. GroupOf(x) \in Groups /\ workList[GroupOf(x)] # {}
    BY <1>1 DEF x, Marking, Listed, IsGrouped
  <2>2. GroupOf(x) \in enqueuedGroups
    BY <2>1 DEF Listing
  <2>3. PICK w \in waiting : OfGroup(w[1], GroupOf(x))
    BY <2>1, <2>2 DEF Scheduling, InHand
  <2> QED
    BY <1>2, <2>3 DEF OfGroup, IsCall
<1>5. call[x] \notin {"running", "posted", "failed", "lost"}
  BY <1>1 DEF x, Marking, Running, Ended
<1> QED
  BY <1>1, <1>3, <1>4, <1>5 DEF x, CallStates

\* What is covered stays so while the loop keeps its function.
LEMMA CoveringStays ==
  ASSUME Typed, Covering, disposed => disposed',
         consumer' \in {"got", "running"} /\ IsCall(item') =>
           /\ consumer \in {"got", "running"} /\ UNCHANGED item
           /\ priority'[item[2]] = priority[item[2]] /\ before'[item[2]] = before[item[2]],
         \A c \in Calls : call[c] = "ended" => call'[c] = "ended",
         \A b \in EntryCalls : by'[b] = by[b] \/ call[by[b]] # "ended"
  PROVE  Covering'
<1> SUFFICES ASSUME consumer' \in {"got", "running"}, ~ disposed', IsCall(item'),
                    item'[2] \in ExecCalls, priority'[item'[2]] = LowestPriority,
                    NEW b \in before'[item'[2]]
             PROVE  call'[by'[b]] = "ended"
  BY DEF Covering
<1>1. call[by[b]] = "ended"
  BY DEF Covering
<1>2. item[2] \in Calls /\ item' = item
  BY AnalysisQueueAssumption
<1>3. b \in EntryCalls /\ by[b] \in Calls
  BY <1>2 DEF Typed, EntryCalls
<1> QED
  BY <1>1, <1>3

\* The loop gets such a function only when NothingIsLeft, and what has ended stays ended.
LEMMA CoveringKept ==
  /\ Typed /\ Handling /\ Waiting /\ Scheduling /\ Listing /\ Marking /\ Ranking
  /\ Merging /\ Covering /\ [Next]_vars
  => Covering'
<1> SUFFICES ASSUME Typed, Handling, Waiting, Scheduling, Listing, Marking, Ranking,
                    Merging, Covering, [Next]_vars
             PROVE  Covering'
  OBVIOUS
<1> USE DEF queueVars, groupVars, loopVars, disposeVars
<1>0. Queueing /\ Running /\ Listed
  BY DEF Marking
<1>1. ASSUME NEW c \in Calls, BeginEnqueue(c) PROVE Covering'
  <2>1. /\ call[c] = "idle"
        /\ \A x \in Calls \ {c} : call'[x] = call[x] /\ priority'[x] = priority[x]
    BY <1>1 DEF BeginEnqueue, Typed
  <2>2. consumer \in {"got", "running"} /\ IsCall(item) => item[2] \in Calls \ {c}
    BY <1>0, <2>1, CallItems DEF Running, Handling, IsProper
  <2> QED
    BY <1>1, <2>1, <2>2, CoveringStays DEF BeginEnqueue
<1>2. ASSUME NEW c \in Calls, Put(c) PROVE Covering'
  <2>1. /\ call[c] = "checked"
        /\ \A x \in Calls : call[x] = "ended" => call'[x] = "ended" /\ x # c
    BY <1>0, <1>2, PutMoves
  <2>2. consumer \in {"got", "running"} /\ IsCall(item) => item[2] \in Calls \ {c}
    BY <1>0, <2>1, CallItems DEF Running, Handling, IsProper
  <2>3. \A x \in Calls \ {c} : before'[x] = before[x]
    BY <1>2 DEF Put, Typed
  <2>4. ASSUME NEW b \in EntryCalls PROVE by'[b] = by[b] \/ call[by[b]] # "ended"
    <3>1. b \in Calls /\ by[b] \in Calls
      BY DEF EntryCalls, Typed
    <3>2. ASSUME NEW w \in Equal(c), w[1] = <<"call", by[b]>> PROVE call[by[b]] = "queued"
      <4>1. w \in waiting /\ IsCall(w[1]) /\ w[1][2] = by[b]
        <5>1. w \in waiting
          BY <1>2, PutIs DEF Typed
        <5>2. IsCall(<<"call", by[b]>>)
          BY <3>1, CallItems
        <5> QED
          BY <3>2, <5>1, <5>2
      <4> QED
        BY <1>0, <4>1 DEF Queueing
    <3> QED
      BY <1>0, <1>2, <3>1, <3>2, PutMoves
  <2> QED
    BY <1>2, <2>1, <2>2, <2>3, <2>4, CoveringStays DEF Put
<1>3. ASSUME NEW c \in Calls, HandOver(c) PROVE Covering'
  <2> SUFFICES ASSUME ~ disposed', c \in ExecCalls, NEW b \in Accepted
               PROVE  call'[by'[b]] = "ended"
    BY <1>3, CallItems DEF HandOver, Covering, Typed
  <2>1. call[by[b]] = "ended"
    BY <1>3, NothingIsLeft DEF HandOver, Waits, Waiting
  <2>2. by[b] \in Calls \ {c}
    BY <1>3, <2>1 DEF HandOver, Accepted, EntryCalls, Typed
  <2> QED
    BY <1>3, <2>1, <2>2 DEF HandOver, Typed
<1>4. CASE Take
  <2>1. PICK w \in waiting :
          /\ \A v \in waiting : w[2] <= v[2]
          /\ item' = w[1]
          /\ call' = IF IsCall(w[1]) THEN [call EXCEPT ![w[1][2]] = "running"] ELSE call
    BY <1>4 DEF Take
  <2> SUFFICES ASSUME ~ disposed', IsCall(w[1]), w[1][2] \in ExecCalls,
                      priority[w[1][2]] = LowestPriority, NEW b \in before[w[1][2]]
               PROVE  call'[by'[b]] = "ended"
    BY <1>4, <2>1 DEF Take, Covering
  <2>2. \A v \in waiting : ~ (v[2] < LowestPriority)
    <3>1. w[2] = LowestPriority
      BY DEF Ranking
    <3>2. \A v \in waiting : v[2] \in Nat
      BY DEF Typed, Priorities
    <3> QED
      BY <2>1, <3>1, <3>2, AnalysisQueueAssumption
  <2>3. b \in Accepted /\ w[1][2] \in Calls
    BY AnalysisQueueAssumption DEF Merging
  <2>4. call[by[b]] = "ended"
    BY <1>4, <2>2, <2>3, NothingIsLeft DEF Take
  <2>5. call[w[1][2]] = "queued"
    BY <1>0 DEF Queueing
  <2> QED
    BY <1>4, <2>1, <2>3, <2>4, <2>5 DEF Take, Typed, Accepted, EntryCalls
<1>5. ASSUME NEW c \in Calls, Lose(c) \/ SetResult(c) PROVE Covering'
  BY <1>5, CoveringStays DEF Lose, SetResult, Typed
<1>6. ASSUME NEW n \in NestedCalls, CallFunction(n) PROVE Covering'
  BY <1>6, CoveringStays, AnalysisQueueAssumption DEF CallFunction, Typed
<1>7. CASE Look \/ BeginWait \/ RaiseComplete \/ Cancel \/ EndAnalysis \/ Handled \/ AfterFailure
  BY <1>7, CoveringStays
  DEF Look, BeginWait, RaiseComplete, Cancel, EndAnalysis, Handled, AfterFailure
<1>8. ASSUME NEW c \in Calls,
             \/ AddGroup(c) \/ BeginEnqueueGroup(c) \/ EnqueueGroup(c) \/ ListUnit(c)
             \/ AnalyzeAlone(c) \/ RemoveGroup(c) \/ PostResult(c)
      PROVE  Covering'
  <2>1. ASSUME item = <<"call", c>>, consumer \in {"got", "added", "put", "analyze", "running"}
        PROVE  call[c] # "ended"
    BY <1>0, <2>1, HeldRuns
  <2>2. \A x \in Calls : call[x] = "ended" => call'[x] = "ended"
    BY <1>8, <2>1
    DEF AddGroup, BeginEnqueueGroup, EnqueueGroup, ListUnit, AnalyzeAlone, RemoveGroup,
        PostResult, Typed
  <2> QED
    BY <1>8, <2>2, CoveringStays
    DEF AddGroup, BeginEnqueueGroup, EnqueueGroup, ListUnit, AnalyzeAlone, RemoveGroup,
        PostResult
<1>9. ASSUME NEW c \in Calls, Throw(c) PROVE Covering'
  BY <1>9 DEF Throw, Covering
<1>10. ASSUME NEW c \in Calls, AnalyzeUnit(c) \/ EndFunction(c) \/ RunFunction(c) PROVE Covering'
  BY <1>10, CoveringStays DEF AnalyzeUnit, EndFunction, RunFunction, Typed
<1>11. ASSUME NEW d \in Disposers \cup {Loop}, BeginDispose(d) \/ MarkDisposed(d) \/ Join(d)
       PROVE  Covering'
  BY <1>11, CoveringStays DEF BeginDispose, MarkDisposed, Join
<1>12. CASE UNCHANGED vars
  BY <1>12, CoveringStays DEF vars
<1> QED
  BY <1>1, <1>2, <1>3, <1>4, <1>5, <1>6, <1>7, <1>8, <1>9, <1>10, <1>11, <1>12
  DEF Next, CallStep, LoopStep, Handle, DisposeStep

-----------------------------------------------------------------------------

\* The inductive invariant behind the three theorems.
AnalysisInv ==
  /\ Typed /\ Handling /\ Waiting /\ Scheduling /\ Listing /\ Marking /\ Ranking
  /\ Merging /\ Covering

\* All of it together.
LEMMA InvHolds == Spec => []AnalysisInv
<1>1. Init => AnalysisInv
  <2> SUFFICES ASSUME Init PROVE AnalysisInv
    OBVIOUS
  <2> USE AnalysisQueueAssumption DEF Init
  <2>1. Typed
    <3>1. call \in [Calls -> CallStates] /\ priority \in [Calls -> Priorities]
      BY DEF CallStates, Priorities
    <3>2. disposer \in [Disposers \cup {Loop} -> DisposerStates] /\ consumer \in ConsumerStates
      BY DEF DisposerStates, ConsumerStates
    <3>3. /\ workList \in [Groups -> SUBSET EntryCalls] /\ by \in [Calls -> Calls]
          /\ before \in [Calls -> SUBSET EntryCalls]
      OBVIOUS
    <3> QED
      BY <3>1, <3>2, <3>3 DEF Typed
  <2>2. Handling /\ Waiting /\ Listing
    BY DEF Handling, Waiting, Waits, Listing
  <2>3. Scheduling
    BY DEF Scheduling, InHand
  <2>4. Marking
    BY DEF Marking, Queueing, Running, Listed, Ended, EntryCalls
  <2>5. Ranking /\ Merging /\ Covering
    BY DEF Ranking, Merging, Covering, EntryCalls
  <2> QED
    BY <2>1, <2>2, <2>3, <2>4, <2>5 DEF AnalysisInv
<1>2. AnalysisInv /\ [Next]_vars => AnalysisInv'
  <2> SUFFICES ASSUME AnalysisInv, [Next]_vars PROVE AnalysisInv'
    OBVIOUS
  <2>1. Typed' /\ Handling' /\ Waiting' /\ Scheduling' /\ Listing'
    BY TypedKept, HandlingKept, WaitingKept, SchedulingKept, ListingKept DEF AnalysisInv
  <2>2. Marking'
    BY QueueingKept, RunningKept, ListedKept, EndedKept DEF AnalysisInv, Marking
  <2>3. Ranking' /\ Merging' /\ Covering'
    BY RankingKept, MergingKept, CoveringKept DEF AnalysisInv
  <2> QED
    BY <2>1, <2>2, <2>3 DEF AnalysisInv
<1> QED
  BY <1>1, <1>2, PTL DEF Spec

\* Every variable keeps its type, whatever is enqueued, called, thrown and disposed;
\* an item in the queue and its priority are among them.
THEOREM TypeCorrect == Spec => []Typed
<1>1. AnalysisInv => Typed
  BY DEF AnalysisInv
<1> QED
  BY <1>1, InvHolds, PTL

\* A group is in _enqueuedGroups exactly while one GroupAnalysis of it waits or is
\* about to be handled, for any number of entries, groups and calls.
THEOREM ScheduledOnce == Spec => []GroupScheduledOnce
<1>1. AnalysisInv => GroupScheduledOnce
  <2> SUFFICES ASSUME Typed, Handling, Scheduling, ~ disposed, NEW g \in Groups
               PROVE  Cardinality(Scheduled(g)) = (IF g \in enqueuedGroups THEN 1 ELSE 0)
    BY DEF AnalysisInv, GroupScheduledOnce
  <2>1. CASE g \notin enqueuedGroups
    <3>1. Scheduled(g) = {}
      BY <2>1 DEF Scheduled, Scheduling, InHand, OfGroup
    <3> QED
      BY <2>1, <3>1, FS_EmptySet
  <2>2. CASE g \in enqueuedGroups /\ InHand(g)
    <3>1. Scheduled(g) = {item}
      BY <2>2 DEF Scheduled, Scheduling, InHand, OfGroup
    <3> QED
      BY <2>2, <3>1, FS_Singleton
  <2>3. CASE g \in enqueuedGroups /\ ~ InHand(g)
    <3>1. PICK w \in waiting : OfGroup(w[1], g)
      BY <2>3 DEF Scheduling
    <3>2. \A v \in waiting : OfGroup(v[1], g) => v = w
      BY <3>1 DEF Scheduling
    <3>3. Scheduled(g) = {w[1]}
      BY <2>3, <3>1, <3>2 DEF Scheduled, InHand, OfGroup
    <3> QED
      BY <2>3, <3>3, FS_Singleton
  <2> QED
    BY <2>1, <2>2, <2>3
<1> QED
  BY <1>1, InvHolds, PTL

\* AnalysisComplete is true when it is raised, whatever has been enqueued: no unit
\* is left and no group is still to be analysed.
THEOREM CompleteIsTrue == Spec => []CompleteMeansAnalyzed
<1>1. AnalysisInv => CompleteMeansAnalyzed
  <2> SUFFICES ASSUME Typed, Waiting, Scheduling, Listing, consumer = "idle", ~ disposed
               PROVE  enqueuedGroups = {} /\ \A g \in Groups : workList[g] = {}
    BY DEF AnalysisInv, CompleteMeansAnalyzed
  <2>1. \A g \in Groups : g \notin enqueuedGroups
    BY DEF Scheduling, InHand, Waiting, Waits
  <2>2. enqueuedGroups = {}
    BY <2>1 DEF Typed
  <2> QED
    BY <2>2 DEF Listing
<1> QED
  BY <1>1, InvHolds, PTL

\* When a function that was queued at the lowest priority runs, all that was queued
\* before it has been analysed, for any number of entries, merges and groups.
THEOREM WaitCovers == Spec => []WaitCoversEarlier
<1>1. AnalysisInv => WaitCoversEarlier
  <2> SUFFICES ASSUME Covering, NEW c \in ExecCalls, consumer = "running", item = <<"call", c>>,
                      priority[c] = LowestPriority, NEW b \in before[c]
               PROVE  call[by[b]] = "ended" \/ disposed
    BY DEF AnalysisInv, WaitCoversEarlier
  <2>1. IsCall(item) /\ item[2] = c
    BY CallItems, AnalysisQueueAssumption
  <2> QED
    BY <2>1 DEF Covering
<1> QED
  BY <1>1, InvHolds, PTL
=============================================================================
