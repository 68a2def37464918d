---------------------- MODULE PriorityProducerConsumer ----------------------
(***************************************************************************)
(* Analysis/Infrastructure/PriorityProducerConsumer.cs: the asynchronous   *)
(* priority queue under the analysis queue of the language server.         *)
(*                                                                         *)
(* Produce puts a value in the list of its priority, or hands it to the    *)
(* oldest waiting consumer; ConsumeAsync takes the first value of the      *)
(* lowest-numbered non-empty list, or waits.  Both decide under one lock,  *)
(* but their disposed and cancelled checks run before it, the registration *)
(* of a waiter's cancellation runs after it, and a handed value reaches    *)
(* its consumer in a thread-pool work item of its own: every one of these  *)
(* gaps is a separate step here.                                           *)
(*                                                                         *)
(* An item is the value of one Produce call; Key gives what the comparer   *)
(* compares.  A call is one ConsumeAsync call with its Pending object and  *)
(* its task.                                                               *)
(***************************************************************************)
EXTENDS Naturals, Sequences, FiniteSets

CONSTANTS
  Items,             \* one element per Produce call
  Keys,
  Key,               \* what _comparer compares: a function from Items to Keys
  Calls,             \* one element per ConsumeAsync call
  TokenCalls,        \* the calls whose caller passes a token it may cancel
  MaxPriority,       \* _maxPriority: the number of lists
  ExcludeDuplicates, \* _excludeDuplicates
  NoItem

ASSUME PPCAssumption ==
  /\ Key \in [Items -> Keys]
  /\ TokenCalls \subseteq Calls
  /\ MaxPriority \in Nat \ {0}
  /\ ExcludeDuplicates \in BOOLEAN
  /\ NoItem \notin Items

Priorities == 0 .. MaxPriority - 1

VARIABLES
  queues,                 \* _queues: a list of items per priority
  pendingTasks,           \* _pendingTasks: the waiters in order of arrival
  firstAvailablePriority, \* _firstAvailablePriority
  disposed,               \* _disposeToken.IsDisposed
  canceledTokens,         \* calls whose own token has been cancelled
  item,                   \* where each Produce call and its value have got to
  call,                   \* where each ConsumeAsync call has got to
  result,                 \* the result of the task of each call
  workItems               \* queued ConsumeCallback work items: <<call, item>>

vars == <<queues, pendingTasks, firstAvailablePriority, disposed,
          canceledTokens, item, call, result, workItems>>

ItemStates == {"idle", "checked", "threw", "queued", "superseded",
               "handed", "delivered", "dropped"}

CallStates == {"idle", "checked", "pending", "registered", "released",
               "completed", "canceled"}

Init ==
  /\ queues = [p \in Priorities |-> <<>>]
  /\ pendingTasks = <<>>
  /\ firstAvailablePriority = MaxPriority
  /\ disposed = FALSE
  /\ canceledTokens = {}
  /\ item = [i \in Items |-> "idle"]
  /\ call = [c \in Calls |-> "idle"]
  /\ result = [c \in Calls |-> NoItem]
  /\ workItems = {}

-----------------------------------------------------------------------------
(* Positions <<priority, index>> of the lists.                             *)

Positions == UNION {{p} \X DOMAIN queues[p] : p \in Priorities}

ItemAt(pos) == queues[pos[1]][pos[2]]

PositionsOf(k) == {pos \in Positions : Key[ItemAt(pos)] = k}

\* The position the two nested loops of RemoveExistingValue come to first.
FoundFirst(pos, among) ==
  \A other \in among :
    pos[1] < other[1] \/ (pos[1] = other[1] /\ pos[2] <= other[2])

\* Broken variant: removes the last value instead of the one found.
WithoutLast(s, j) == SubSeq(s, 1, Len(s) - 1)

Without(s, j) == SubSeq(s, 1, j - 1) \o SubSeq(s, j + 1, Len(s))

\* Broken variant: the priority of the newest request wins.
Latest(a, b) == b

Smaller(a, b) == IF a <= b THEN a ELSE b

\* Broken variant: one increment instead of the loop.
NextListOnly(p, from, qs) == p = from

\* Where the do-while loop of ConsumeAsync stops over the lists qs.
IsNextAvailable(p, from, qs) ==
  /\ p \in from .. MaxPriority
  /\ p < MaxPriority => qs[p] # <<>>
  /\ \A r \in Priorities : from <= r /\ r < p => qs[r] = <<>>

\* Broken variants: the Pending counts only once its cancellation is
\* registered; Release does not clear it.
HeldOnceRegistered(c) == call[c] = "registered"

HeldForever(c) == call[c] \in {"pending", "registered", "canceled"}

\* Pending._tcs of the call is not null: nobody has released it yet.
Held(c) == call[c] \in {"pending", "registered"}

-----------------------------------------------------------------------------
(* Produce                                                                 *)

\* ThrowIfDisposed, outside the lock.
BeginProduce(i) ==
  /\ item[i] = "idle"
  /\ item' = [item EXCEPT ![i] = IF disposed THEN "threw" ELSE "checked"]
  /\ UNCHANGED <<queues, pendingTasks, firstAvailablePriority, disposed,
                 canceledTokens, call, result, workItems>>

\* The locked part of Produce when a Pending is waiting: it is dequeued and
\* released.  A Pending that a cancellation released before yields null, and
\* then the value goes nowhere.
HandToWaiter(i) ==
  LET c == Head(pendingTasks) IN
  /\ item[i] = "checked"
  /\ pendingTasks # <<>>
  /\ pendingTasks' = Tail(pendingTasks)
  /\ \/ /\ Held(c)
        /\ call' = [call EXCEPT ![c] = "released"]
        /\ item' = [item EXCEPT ![i] = "handed"]
        /\ workItems' = workItems \cup {<<c, i>>}
     \/ /\ ~ Held(c)
        /\ item' = [item EXCEPT ![i] = "dropped"]
        /\ UNCHANGED <<call, workItems>>
  /\ UNCHANGED <<queues, firstAvailablePriority, disposed, canceledTokens,
                 result>>

\* Broken variant: looks for an equal value in the list of priority p only.
EnqueueNewHere(i, p) ==
  /\ \A pos \in PositionsOf(Key[i]) : pos[1] # p
  /\ queues' = [queues EXCEPT ![p] = Append(@, i)]
  /\ firstAvailablePriority' = Smaller(firstAvailablePriority, p)
  /\ item' = [item EXCEPT ![i] = "queued"]

\* RemoveExistingValue found nothing, or is not asked.
EnqueueNew(i, p) ==
  /\ ~ ExcludeDuplicates \/ PositionsOf(Key[i]) = {}
  /\ queues' = [queues EXCEPT ![p] = Append(@, i)]
  /\ firstAvailablePriority' = Smaller(firstAvailablePriority, p)
  /\ item' = [item EXCEPT ![i] = "queued"]

\* RemoveExistingValue found an equal value: it is removed, and the new one
\* goes to the end of the more urgent of the two lists.
EnqueueAgain(i, p) ==
  /\ ExcludeDuplicates
  /\ \E pos \in PositionsOf(Key[i]) :
       LET prio == Smaller(pos[1], p) IN
       /\ FoundFirst(pos, PositionsOf(Key[i]))
       /\ queues' = [q \in Priorities |->
                       LET kept == IF q = pos[1] THEN Without(queues[q], pos[2])
                                   ELSE queues[q]
                       IN  IF q = prio THEN Append(kept, i) ELSE kept]
       /\ firstAvailablePriority' = Smaller(firstAvailablePriority, prio)
       /\ item' = [item EXCEPT ![i] = "queued", ![ItemAt(pos)] = "superseded"]

\* The locked part of Produce when nobody is waiting.
EnqueueItem(i) ==
  /\ item[i] = "checked"
  /\ pendingTasks = <<>>
  /\ \E p \in Priorities : EnqueueNew(i, p) \/ EnqueueAgain(i, p)
  /\ UNCHANGED <<pendingTasks, disposed, canceledTokens, call, result, workItems>>

\* The thread pool runs ConsumeCallback.
ConsumeCallback(c, i) ==
  /\ <<c, i>> \in workItems
  /\ workItems' = workItems \ {<<c, i>>}
  /\ call' = [call EXCEPT ![c] = "completed"]
  /\ result' = [result EXCEPT ![c] = i]
  /\ item' = [item EXCEPT ![i] = "delivered"]
  /\ UNCHANGED <<queues, pendingTasks, firstAvailablePriority, disposed,
                 canceledTokens>>

-----------------------------------------------------------------------------
(* ConsumeAsync                                                            *)

\* The two early returns, outside the lock.
BeginConsume(c) ==
  /\ call[c] = "idle"
  /\ call' = [call EXCEPT ![c] =
                IF disposed \/ c \in canceledTokens THEN "canceled" ELSE "checked"]
  /\ UNCHANGED <<queues, pendingTasks, firstAvailablePriority, disposed,
                 canceledTokens, item, result, workItems>>

\* Broken variant: the loop stops one list too far.
TakeFirstTooFar(c) ==
  LET p == firstAvailablePriority
      taken == Head(queues[p])
      rest == [queues EXCEPT ![p] = Tail(@)]
  IN
  /\ call[c] = "checked"
  /\ p < MaxPriority
  /\ queues' = rest
  /\ IF rest[p] = <<>>
       THEN \E n \in p + 1 .. MaxPriority :
              /\ IsNextAvailable(n, p + 1, rest)
              /\ firstAvailablePriority' = n + 1
       ELSE firstAvailablePriority' = p
  /\ call' = [call EXCEPT ![c] = "completed"]
  /\ result' = [result EXCEPT ![c] = taken]
  /\ item' = [item EXCEPT ![taken] = "delivered"]
  /\ UNCHANGED <<pendingTasks, disposed, canceledTokens, workItems>>

\* The locked part when a value is available.
TakeFirst(c) ==
  LET p == firstAvailablePriority
      taken == Head(queues[p])
      rest == [queues EXCEPT ![p] = Tail(@)]
  IN
  /\ call[c] = "checked"
  /\ p < MaxPriority
  /\ queues' = rest
  /\ IF rest[p] = <<>>
       THEN \E n \in p + 1 .. MaxPriority :
              /\ IsNextAvailable(n, p + 1, rest)
              /\ firstAvailablePriority' = n
       ELSE firstAvailablePriority' = p
  /\ call' = [call EXCEPT ![c] = "completed"]
  /\ result' = [result EXCEPT ![c] = taken]
  /\ item' = [item EXCEPT ![taken] = "delivered"]
  /\ UNCHANGED <<pendingTasks, disposed, canceledTokens, workItems>>

\* Broken variant: looks at the most urgent list only.
WaitIfFirstEmpty(c) ==
  /\ call[c] = "checked"
  /\ queues[0] = <<>>
  /\ pendingTasks' = Append(pendingTasks, c)
  /\ call' = [call EXCEPT ![c] = "pending"]
  /\ UNCHANGED <<queues, firstAvailablePriority, disposed, canceledTokens,
                 item, result, workItems>>

\* The locked part when all lists are empty.
Wait(c) ==
  /\ call[c] = "checked"
  /\ firstAvailablePriority = MaxPriority
  /\ pendingTasks' = Append(pendingTasks, c)
  /\ call' = [call EXCEPT ![c] = "pending"]
  /\ UNCHANGED <<queues, firstAvailablePriority, disposed, canceledTokens,
                 item, result, workItems>>

\* RegisterCancellation with the dispose token and with the caller's token.
\* Had a producer released the Pending already, the callback would find null.
RegisterCancellation(c) ==
  /\ call[c] = "pending"
  /\ call' = [call EXCEPT ![c] = "registered"]
  /\ UNCHANGED <<queues, pendingTasks, firstAvailablePriority, disposed,
                 canceledTokens, item, result, workItems>>

\* Broken variant: only the caller's token is registered.
CancelCallbackOfToken(c) ==
  /\ call[c] = "registered"
  /\ c \in canceledTokens
  /\ call' = [call EXCEPT ![c] = "canceled"]
  /\ UNCHANGED <<queues, pendingTasks, firstAvailablePriority, disposed,
                 canceledTokens, item, result, workItems>>

\* A cancelled token runs CancelCallback.  The Pending stays in _pendingTasks.
CancelCallback(c) ==
  /\ call[c] = "registered"
  /\ disposed \/ c \in canceledTokens
  /\ call' = [call EXCEPT ![c] = "canceled"]
  /\ UNCHANGED <<queues, pendingTasks, firstAvailablePriority, disposed,
                 canceledTokens, item, result, workItems>>

-----------------------------------------------------------------------------
(* Cancellation                                                            *)

\* Dispose: TryMarkDisposed cancels the dispose token.
Dispose ==
  /\ ~ disposed
  /\ disposed' = TRUE
  /\ UNCHANGED <<queues, pendingTasks, firstAvailablePriority, canceledTokens,
                 item, call, result, workItems>>

\* The caller cancels the token it passed.
CancelToken(c) ==
  /\ c \in TokenCalls \ canceledTokens
  /\ canceledTokens' = canceledTokens \cup {c}
  /\ UNCHANGED <<queues, pendingTasks, firstAvailablePriority, disposed, item,
                 call, result, workItems>>

-----------------------------------------------------------------------------

ProduceNext(i) == BeginProduce(i) \/ HandToWaiter(i) \/ EnqueueItem(i)

ConsumeNext(c) ==
  \/ BeginConsume(c) \/ TakeFirst(c) \/ Wait(c)
  \/ RegisterCancellation(c) \/ CancelCallback(c)

Next ==
  \/ \E i \in Items : ProduceNext(i)
  \/ \E c \in Calls : ConsumeNext(c)
  \/ \E c \in Calls, i \in Items : ConsumeCallback(c, i)
  \/ Dispose
  \/ \E c \in Calls : CancelToken(c)

\* A thread inside Produce or ConsumeAsync, a cancellation that has begun and
\* the thread pool keep running.  Nobody has to call Produce or ConsumeAsync,
\* to cancel or to dispose.
Fairness ==
  /\ \A i \in Items : WF_vars(HandToWaiter(i) \/ EnqueueItem(i))
  /\ \A c \in Calls :
       WF_vars(TakeFirst(c) \/ Wait(c) \/ RegisterCancellation(c) \/ CancelCallback(c))
  /\ \A c \in Calls, i \in Items : WF_vars(ConsumeCallback(c, i))

Spec == Init /\ [][Next]_vars /\ Fairness

-----------------------------------------------------------------------------

Waiting(c) == \E n \in DOMAIN pendingTasks : pendingTasks[n] = c

PrioritiesOf(k) == {pos[1] : pos \in PositionsOf(k)}

\* Every variable stays in its range.
TypeOK ==
  /\ queues \in [Priorities -> Seq(Items)]
  /\ pendingTasks \in Seq(Calls)
  /\ firstAvailablePriority \in 0 .. MaxPriority
  /\ disposed \in BOOLEAN
  /\ canceledTokens \subseteq TokenCalls
  /\ item \in [Items -> ItemStates]
  /\ call \in [Calls -> CallStates]
  /\ result \in [Calls -> Items \cup {NoItem}]
  /\ workItems \subseteq Calls \X Items

\* _firstAvailablePriority, which Produce lowers and ConsumeAsync advances, is
\* the most urgent priority with a value whenever the lock is free, so that
\* ConsumeAsync never indexes an empty list and never passes over a value.
FirstAvailableIsMin ==
  /\ firstAvailablePriority < MaxPriority => queues[firstAvailablePriority] # <<>>
  /\ \A p \in Priorities : p < firstAvailablePriority => queues[p] = <<>>

\* The assertion at the head of both critical sections: while a consumer waits
\* no value lies in any list.
PendingOnlyWhenEmpty ==
  pendingTasks # <<>> =>
    firstAvailablePriority = MaxPriority /\ Positions = {}

\* "There can be no more than one": with _excludeDuplicates, the lists of all
\* priorities together hold at most one value of each key, whatever the order
\* in which equal values are produced at different priorities.
AtMostOnePerKey ==
  ExcludeDuplicates =>
    \A pos1, pos2 \in Positions :
      Key[ItemAt(pos1)] = Key[ItemAt(pos2)] => pos1 = pos2

\* A produced value is in exactly one place: in one position of one list, in
\* one work item on its way to a consumer, or the result of one task.
\* ConsumeAsync and the work items never deliver a value twice.
EachItemInOnePlace ==
  \A i \in Items :
    /\ Cardinality({pos \in Positions : ItemAt(pos) = i})
         = (IF item[i] = "queued" THEN 1 ELSE 0)
    /\ Cardinality({w \in workItems : w[2] = i})
         = (IF item[i] = "handed" THEN 1 ELSE 0)
    /\ Cardinality({c \in Calls : result[c] = i})
         = (IF item[i] = "delivered" THEN 1 ELSE 0)

\* A value is lost only to a waiter that was cancelled and is still in
\* _pendingTasks, and each cancelled waiter costs at most one value.
OneLossPerCancellation ==
  Cardinality({i \in Items : item[i] = "dropped"})
    <= Cardinality({c \in Calls : call[c] = "canceled" /\ ~ Waiting(c)})

\* Producing an equal value again at a lower urgency never demotes the value
\* that waits already: as long as its key stays in the lists, its priority
\* does not grow.
NeverDemoted ==
  [][ExcludeDuplicates =>
       \A k \in Keys : \A p \in PrioritiesOf(k), q \in PrioritiesOf(k)' : q <= p]_vars

\* Dispose ends every ConsumeAsync call that has begun: with a value that was
\* on its way, or cancelled, also when it came in between the check and the
\* registration of the cancellation.
DisposeEndsCalls ==
  \A c \in Calls :
    (disposed /\ call[c] # "idle") ~> call[c] \in {"completed", "canceled"}

\* What the variables of the abstract priority queue stand for: the lists hold
\* the waiting values, and a consumer that gave up is a cancelled call whose
\* Pending is still in _pendingTasks.
waitingBar == {<<ItemAt(pos), pos[1]>> : pos \in Positions}
takenBar == {i \in Items : item[i] \in {"handed", "delivered"}}
mergedBar == {i \in Items : item[i] = "superseded"}
lostBar == {i \in Items : item[i] = "dropped"}
abandonedBar == {c \in Calls : call[c] = "canceled" /\ Waiting(c)}

\* The queue implements the abstract priority queue.
Queue == INSTANCE PriorityQueue WITH
  Consumers <- Calls, waiting <- waitingBar, taken <- takenBar,
  merged <- mergedBar, lost <- lostBar, abandoned <- abandonedBar

ImplementsPriorityQueue == Queue!Spec
=============================================================================
