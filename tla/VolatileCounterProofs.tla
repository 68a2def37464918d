------------------------ MODULE VolatileCounterProofs ------------------------
(* What VolatileCounter keeps for any number of scopes and waits.          *)
EXTENDS VolatileCounter, FiniteSetTheorems, TLAPS

\* The compare-and-swap writes a value only over one that is greater by one.
ReadIsPositive == \A w \in Workers : worker[w] = "read" => seen[w] > 0

CountInv == TypeOK /\ CountIsOutstanding /\ ReadIsPositive

\* The waiters that have got past their field.
Past == {v \in Waiters : waiter[v] \in {"recheck", "returned"}}

OfChange(v) == Kind[v] = "change"

\* A source is completed, or lies in a field, only after its waiter has put it there,
\* and the two fields never exchange theirs.
SourcesAreMade ==
  /\ set \subseteq Past
  /\ \A f \in {"change", "zero"} :
       waitFor[f] # None => waitFor[f] \in Past /\ (OfChange(waitFor[f]) <=> f = "change")

TasksAreMade ==
  /\ \A v \in Waiters :
       task[v] \in Waiters => task[v] \in Past /\ (OfChange(task[v]) <=> OfChange(v))
  /\ \A v \in Waiters : waiter[v] = "recheck" => Kind[v] = "zero" /\ task[v] \in Waiters

\* Nobody completes the source of a wait for a change before it is taken out.
ChangeIsOpen == waitFor["change"] \notin set

\* A wait for zero that is past its field has ended, or the next zero ends it.
FieldCovers ==
  \A v \in Past : Kind[v] = "zero" => task[v] \in set \cup {CompletedTask, waitFor["zero"]}

SourceInv == SourcesAreMade /\ TasksAreMade /\ ChangeIsOpen /\ FieldCovers

\* Entering a scope counts it, leaving it uncounts it, and all else keeps the count.
LEMMA OutstandingFinite ==
  ASSUME TypeOK
  PROVE  IsFiniteSet(Outstanding) /\ Cardinality(Outstanding) \in 0 .. Cardinality(Workers)
<1>1. IsFiniteSet(Workers) /\ Outstanding \subseteq Workers
  BY CounterAssumption DEF Outstanding
<1>2. IsFiniteSet(Outstanding) /\ Cardinality(Outstanding) <= Cardinality(Workers)
  BY <1>1, FS_Subset
<1> QED
  BY <1>1, <1>2, FS_CardinalityType

\* Increment counts one scope more.
LEMMA ScopeEntered ==
  ASSUME TypeOK, NEW w \in Workers, worker[w] = "idle",
         worker' = [worker EXCEPT ![w] = "incremented"]
  PROVE  /\ Cardinality(Outstanding') = Cardinality(Outstanding) + 1
         /\ Cardinality(Outstanding') <= Cardinality(Workers)
<1>1. Outstanding' = Outstanding \cup {w} /\ w \notin Outstanding
  BY DEF Outstanding, TypeOK
<1>2. IsFiniteSet(Workers) /\ Outstanding' \subseteq Workers
  BY CounterAssumption DEF Outstanding
<1> QED
  BY <1>1, <1>2, OutstandingFinite, FS_AddElement, FS_Subset, FS_CardinalityType

\* Decrement counts one scope less.
LEMMA ScopeLeft ==
  ASSUME TypeOK, NEW w \in Workers, worker[w] = "read",
         worker' = [worker EXCEPT ![w] = "decremented"]
  PROVE  Cardinality(Outstanding') = Cardinality(Outstanding) - 1
<1>1. Outstanding' = Outstanding \ {w} /\ w \in Outstanding
  BY DEF Outstanding, TypeOK
<1> QED
  BY <1>1, OutstandingFinite, FS_RemoveElement

\* A scope that is open is counted.
LEMMA ScopeCounted ==
  ASSUME TypeOK, NEW w \in Outstanding
  PROVE  Cardinality(Outstanding) # 0
  BY OutstandingFinite, FS_EmptySet

\* The count stays right in every step.  SetResult on the change field must not throw
\* for that: an Increment that threw would have counted a scope that nobody leaves.
LEMMA CountKept ==
  ASSUME CountInv, SourceInv, [Next]_vars
  PROVE  CountInv'
<1> USE CounterAssumption DEF CountInv
<1> DEFINE N == Cardinality(Workers)
<1>0. count \in Nat /\ N \in Nat /\ count = Cardinality(Outstanding)
  BY FS_CardinalityType DEF TypeOK, CountIsOutstanding
<1>1. ASSUME NEW w \in Workers, Increment(w) PROVE CountInv'
  <2>0. worker[w] = "idle" /\ worker' = [worker EXCEPT ![w] = "incremented"]
    BY <1>1 DEF Increment
  <2>1. count + 1 = Cardinality(Outstanding') /\ count + 1 \in 0 .. N
    <3>1. TypeOK
      OBVIOUS
    <3>2. /\ Cardinality(Outstanding') = Cardinality(Outstanding) + 1
          /\ Cardinality(Outstanding') <= N
      BY <2>0, <3>1, ScopeEntered
    <3> HIDE DEF N
    <3> QED
      BY <1>0, <3>2
  <2>2. TypeOK'
    BY <1>1, <2>1 DEF Increment, TypeOK, WorkerStates
  <2>3. CountIsOutstanding' /\ ReadIsPositive'
    BY <1>1, <2>1 DEF Increment, TypeOK, CountIsOutstanding, ReadIsPositive
  <2> QED
    BY <2>2, <2>3
<1>2. ASSUME NEW w \in Workers, ReadCount(w) PROVE CountInv'
  <2>0. w \in Outstanding
    BY <1>2 DEF ReadCount, Outstanding
  <2>1. count # 0
    BY <1>0, <2>0, ScopeCounted
  <2>2. Outstanding' = Outstanding
    BY <1>2, <2>1 DEF ReadCount, Outstanding, TypeOK
  <2>3. TypeOK'
    BY <1>2, <2>1 DEF ReadCount, TypeOK, WorkerStates
  <2>4. CountIsOutstanding' /\ ReadIsPositive'
    BY <1>0, <1>2, <2>1, <2>2 DEF ReadCount, TypeOK, CountIsOutstanding, ReadIsPositive
  <2> QED
    BY <2>3, <2>4
<1>3. ASSUME NEW w \in Workers, CompareExchange(w) PROVE CountInv'
  <2>1. CASE count = seen[w] /\ worker' = [worker EXCEPT ![w] = "decremented"]
    <3>1. count > 0 /\ count - 1 = Cardinality(Outstanding')
      BY <1>0, <1>3, <2>1, ScopeLeft DEF CompareExchange, ReadIsPositive
    <3>2. count - 1 \in 0 .. N
      BY <1>0, <3>1 DEF TypeOK
    <3>3. TypeOK'
      BY <1>0, <1>3, <2>1, <3>2 DEF CompareExchange, TypeOK, WorkerStates, Begun
    <3>4. CountIsOutstanding' /\ ReadIsPositive'
      BY <1>0, <1>3, <2>1, <3>1 DEF CompareExchange, TypeOK, CountIsOutstanding, ReadIsPositive
    <3> QED
      BY <3>3, <3>4
  <2>2. CASE count # seen[w]
    <3>1. Outstanding' = Outstanding
      BY <1>3, <2>2 DEF CompareExchange, Outstanding, TypeOK
    <3> QED
      BY <1>0, <1>3, <2>2, <3>1
      DEF CompareExchange, TypeOK, WorkerStates, CountIsOutstanding, ReadIsPositive
  <2> QED
    BY <1>3, <2>1, <2>2 DEF CompareExchange
<1>4. ASSUME NEW w \in Workers, NotifyChange(w) \/ NotifyZero(w) PROVE CountInv'
  <2>1. ASSUME NEW field \in {"change", "zero"}, NEW next \in {"holding", "zeroed", "done"},
               Notify(w, field, next),
               \/ worker[w] = "incremented" /\ field = "change" /\ next = "holding"
               \/ worker[w] \in {"decremented", "zeroed"} /\ next # "holding"
        PROVE  CountInv'
    <3>1. /\ worker' = [worker EXCEPT ![w] = next] \/ worker' = [worker EXCEPT ![w] = "threw"]
          /\ waitFor' = [waitFor EXCEPT ![field] = None]
          /\ set' \subseteq set \cup ({waitFor[field]} \ {None})
          /\ UNCHANGED <<count, seen, waiter, task, overlap>>
      BY <2>1 DEF Notify
    <3>2. set' \subseteq Waiters
      BY <3>1 DEF TypeOK
    <3>3. waitFor' \in [{"change", "zero"} -> Waiters \cup {None}]
      BY <3>1 DEF TypeOK
    <3>4. worker' \in [Workers -> WorkerStates]
      BY <3>1 DEF TypeOK, WorkerStates
    <3>5. worker[w] = "incremented" => worker'[w] = "holding"
      BY <2>1 DEF Notify, SourceInv, ChangeIsOpen, TypeOK
    <3>6. Outstanding' = Outstanding
      BY <2>1, <3>1, <3>5 DEF Outstanding, TypeOK
    <3>7. ReadIsPositive'
      BY <3>1 DEF ReadIsPositive, TypeOK
    <3>8. TypeOK'
      BY <3>1, <3>2, <3>3, <3>4 DEF TypeOK
    <3> QED
      BY <3>1, <3>6, <3>7, <3>8 DEF CountIsOutstanding, TypeOK
  <2> QED
    BY <1>4, <2>1 DEF NotifyChange, NotifyZero, AfterDecrement
<1>5. ASSUME NEW v \in Waiters, CheckZero(v) \/ WaiterStep(v) PROVE CountInv'
  <2>1. UNCHANGED <<count, worker, seen>>
    BY <1>5 DEF CheckZero, WaiterStep, ReadField, Install, Recheck
  <2>2. CountIsOutstanding' /\ ReadIsPositive'
    BY <2>1 DEF CountIsOutstanding, Outstanding, ReadIsPositive
  <2>3. TypeOK'
    <3>1. CASE CheckZero(v)
      BY <2>1, <3>1 DEF CheckZero, TypeOK, WaiterStates
    <3>2. CASE ReadField(v)
      BY <2>1, <3>2 DEF ReadField, AfterField, Field, TypeOK, WaiterStates
    <3>3. CASE Install(v)
      BY <2>1, <3>3 DEF Install, AfterField, Field, TypeOK, WaiterStates
    <3>4. CASE Recheck(v)
      BY <2>1, <3>4 DEF Recheck, SourceInv, TasksAreMade, TypeOK, WaiterStates
    <3> QED
      BY <1>5, <3>1, <3>2, <3>3, <3>4 DEF WaiterStep
  <2> QED
    BY <2>2, <2>3
<1>6. CASE UNCHANGED vars
  BY <1>6 DEF vars, TypeOK, CountIsOutstanding, Outstanding, ReadIsPositive
<1> QED
  BY <1>1, <1>2, <1>3, <1>4, <1>5, <1>6 DEF Next, WorkerStep

\* A step of a waiter moves sources only as SourceInv says; what Notify takes out of a
\* field it completes.
LEMMA SourcesKept ==
  ASSUME TypeOK, SourceInv, [Next]_vars
  PROVE  SourceInv'
<1> USE CounterAssumption DEF SourceInv
<1> DEFINE Fields == {"change", "zero"}
<1>0. /\ waitFor \in [Fields -> Waiters \cup {None}] /\ set \subseteq Waiters
      /\ waiter \in [Waiters -> WaiterStates]
      /\ task \in [Waiters -> Waiters \cup {None, CompletedTask}]
      /\ None \notin set
  BY DEF TypeOK
<1>1. ASSUME NEW w \in Workers, Increment(w) \/ ReadCount(w) \/ CompareExchange(w)
      PROVE  SourceInv'
  <2>1. UNCHANGED <<waitFor, set, waiter, task>>
    BY <1>1 DEF Increment, ReadCount, CompareExchange
  <2> QED
    BY <2>1 DEF SourcesAreMade, TasksAreMade, ChangeIsOpen, FieldCovers, Past
<1>2. ASSUME NEW w \in Workers, NotifyChange(w) \/ NotifyZero(w) PROVE SourceInv'
  <2>1. ASSUME NEW field \in Fields, NEW next, Notify(w, field, next) PROVE SourceInv'
    <3>1. /\ waitFor' = [waitFor EXCEPT ![field] = None]
          /\ set' = set \cup ({waitFor[field]} \ {None})
          /\ UNCHANGED <<waiter, task>>
      BY <2>1 DEF Notify
    <3>2. SourcesAreMade' /\ TasksAreMade'
      BY <1>0, <3>1 DEF SourcesAreMade, TasksAreMade, Past
    <3>3. ChangeIsOpen'
      BY <1>0, <3>1 DEF SourcesAreMade, ChangeIsOpen, OfChange
    <3>4. FieldCovers'
      BY <1>0, <3>1 DEF FieldCovers, Past, TypeOK
    <3> QED
      BY <3>2, <3>3, <3>4
  <2> QED
    BY <1>2, <2>1 DEF NotifyChange, NotifyZero
<1>3. ASSUME NEW v \in Waiters, CheckZero(v) PROVE SourceInv'
  <2>1. Past \subseteq Past' /\ UNCHANGED <<waitFor, set>>
    BY <1>0, <1>3 DEF CheckZero, Past
  <2>2. TasksAreMade'
    BY <1>0, <1>3, <2>1 DEF CheckZero, TasksAreMade
  <2>3. FieldCovers'
    BY <1>0, <1>3 DEF CheckZero, FieldCovers, Past
  <2> QED
    BY <2>1, <2>2, <2>3 DEF SourcesAreMade, ChangeIsOpen
<1>4. ASSUME NEW v \in Waiters, ReadField(v) PROVE SourceInv'
  <2>1. Past \subseteq Past' /\ UNCHANGED <<waitFor, set>>
    BY <1>0, <1>4 DEF ReadField, Past
  <2>2. TasksAreMade'
    BY <1>0, <1>4, <2>1 DEF ReadField, AfterField, Field, TasksAreMade, SourcesAreMade, OfChange
  <2>3. FieldCovers'
    BY <1>0, <1>4 DEF ReadField, Field, FieldCovers, Past
  <2> QED
    BY <2>1, <2>2, <2>3 DEF SourcesAreMade, ChangeIsOpen
<1>5. ASSUME NEW v \in Waiters, Install(v) PROVE SourceInv'
  <2>1. Past' = Past \cup {v} /\ v \notin Past /\ set' = set
    BY <1>0, <1>5 DEF Install, Past, AfterField
  <2>2. SourcesAreMade'
    BY <1>0, <1>5, <2>1 DEF Install, SourcesAreMade, Field, OfChange
  <2>3. TasksAreMade'
    BY <1>0, <1>5, <2>1 DEF Install, AfterField, Field, TasksAreMade, SourcesAreMade, OfChange
  <2>4. ChangeIsOpen'
    BY <1>0, <1>5, <2>1 DEF Install, ChangeIsOpen, SourcesAreMade
  <2>5. FieldCovers'
    BY <1>0, <1>5, <2>1 DEF Install, Field, FieldCovers, TypeOK, Past
  <2> QED
    BY <2>2, <2>3, <2>4, <2>5
<1>6. ASSUME NEW v \in Waiters, Recheck(v) PROVE SourceInv'
  <2>1. Past' = Past /\ UNCHANGED <<waitFor, task>> /\ set \subseteq set'
        /\ set' \subseteq set \cup {task[v]}
    BY <1>0, <1>6 DEF Recheck, Past
  <2>2. task[v] \in Past /\ ~ OfChange(task[v])
    BY <1>6 DEF Recheck, TasksAreMade, OfChange
  <2>3. SourcesAreMade' /\ ChangeIsOpen'
    <3>1. SourcesAreMade'
      BY <2>1, <2>2 DEF SourcesAreMade
    <3>2. waitFor["change"] # task[v]
      BY <1>0, <2>2 DEF SourcesAreMade, Past
    <3> QED
      BY <2>1, <3>1, <3>2 DEF ChangeIsOpen
  <2>4. TasksAreMade'
    BY <1>0, <1>6, <2>1 DEF Recheck, TasksAreMade
  <2>5. FieldCovers'
    BY <2>1 DEF FieldCovers
  <2> QED
    BY <2>3, <2>4, <2>5
<1>7. CASE UNCHANGED vars
  BY <1>7 DEF vars, SourcesAreMade, TasksAreMade, ChangeIsOpen, FieldCovers, Past
<1> QED
  BY <1>1, <1>2, <1>3, <1>4, <1>5, <1>6, <1>7 DEF Next, WorkerStep, WaiterStep

\* A Decrement that has reached zero leaves that state only by telling the waiters for
\* zero, whose sources are then complete.
LEMMA WakeupKept ==
  ASSUME TypeOK, CountInv, SourceInv, NoLostWakeup, [Next]_vars
  PROVE  NoLostWakeup'
<1> USE CounterAssumption DEF NoLostWakeup, Ended
<1> DEFINE Bringing == \E w \in Workers : BringingToZero(w)
<1>1. ASSUME NEW w \in Workers, Increment(w) PROVE count' # 0
  BY <1>1 DEF Increment, TypeOK
<1>2. ASSUME NEW w \in Workers, ReadCount(w) PROVE NoLostWakeup'
  <2>1. \A u \in Workers : BringingToZero(u) <=> BringingToZero(u)'
    BY <1>2 DEF ReadCount, BringingToZero, TypeOK
  <2> QED
    BY <1>2, <2>1 DEF ReadCount
<1>3. ASSUME NEW w \in Workers, CompareExchange(w) PROVE NoLostWakeup'
  <2>1. CASE count = seen[w]
    <3>1. count' = 0 => BringingToZero(w)'
      BY <1>3, <2>1 DEF CompareExchange, BringingToZero, TypeOK
    <3> QED
      BY <3>1
  <2>2. CASE count # seen[w]
    <3>1. \A u \in Workers : BringingToZero(u) <=> BringingToZero(u)'
      BY <1>3, <2>2 DEF CompareExchange, BringingToZero, TypeOK
    <3> QED
      BY <1>3, <2>2, <3>1 DEF CompareExchange
  <2> QED
    BY <2>1, <2>2
<1>4. ASSUME NEW w \in Workers, NotifyChange(w) PROVE NoLostWakeup'
  <2>1. waitFor["change"] \notin set
    BY DEF SourceInv, ChangeIsOpen
  <2>2. \A u \in Workers : BringingToZero(u) => BringingToZero(u)'
    BY <1>4, <2>1 DEF NotifyChange, Notify, AfterDecrement, BringingToZero, TypeOK
  <2>3. UNCHANGED <<count, waiter, task>> /\ set \subseteq set'
    BY <1>4 DEF NotifyChange, Notify
  <2> QED
    BY <2>2, <2>3
<1>5. ASSUME NEW w \in Workers, NotifyZero(w) PROVE NoLostWakeup'
  <2>1. ASSUME NEW v \in Waiters, Kind[v] = "zero", waiter[v] = "returned"
        PROVE  task[v] \in set' \cup {CompletedTask}
    BY <1>5, <2>1 DEF NotifyZero, Notify, SourceInv, FieldCovers, Past, TypeOK
  <2> QED
    BY <1>5, <2>1 DEF NotifyZero, Notify
<1>6. ASSUME NEW v \in Waiters, CheckZero(v) PROVE NoLostWakeup'
  <2>1. \A u \in Workers : BringingToZero(u) <=> BringingToZero(u)'
    BY <1>6 DEF CheckZero, BringingToZero
  <2> QED
    BY <1>6, <2>1 DEF CheckZero, TypeOK
<1>7. ASSUME NEW v \in Waiters, ReadField(v) \/ Install(v) \/ Recheck(v) PROVE NoLostWakeup'
  <2>1. \A u \in Workers : BringingToZero(u) <=> BringingToZero(u)'
    BY <1>7 DEF ReadField, Install, Recheck, BringingToZero
  <2>2. count' = count /\ set \subseteq set'
    BY <1>7 DEF ReadField, Install, Recheck
  <2>3. \A u \in Waiters \ {v} : waiter'[u] = waiter[u] /\ task'[u] = task[u]
    BY <1>7 DEF ReadField, Install, Recheck, TypeOK
  <2>4. (Kind[v] = "zero" /\ waiter'[v] = "returned" /\ count = 0) => task'[v] \in set'
    BY <1>7 DEF ReadField, Install, Recheck, AfterField, TypeOK
  <2> QED
    BY <2>1, <2>2, <2>3, <2>4
<1>8. CASE UNCHANGED vars
  BY <1>8 DEF vars, BringingToZero
<1> QED
  BY <1>1, <1>2, <1>3, <1>4, <1>5, <1>6, <1>7, <1>8 DEF Next, WorkerStep, WaiterStep

Inv == CountInv /\ SourceInv /\ NoLostWakeup

\* The count, the sources and the wake-ups are right in every state.
LEMMA Invariance == Spec => []Inv
<1>1. Init => Inv
  <2> SUFFICES ASSUME Init PROVE Inv
    OBVIOUS
  <2> USE CounterAssumption DEF Init
  <2>1. Outstanding = {} /\ Cardinality(Outstanding) = 0 /\ Cardinality(Workers) \in Nat
    BY FS_EmptySet, FS_CardinalityType DEF Outstanding
  <2>2. CountInv
    BY <2>1 DEF CountInv, TypeOK, CountIsOutstanding, ReadIsPositive, WorkerStates, WaiterStates
  <2>3. SourceInv
    BY DEF SourceInv, SourcesAreMade, TasksAreMade, ChangeIsOpen, FieldCovers, Past
  <2> QED
    BY <2>2, <2>3 DEF Inv, NoLostWakeup
<1>2. Inv /\ [Next]_vars => Inv'
  BY CountKept, SourcesKept, WakeupKept DEF Inv, CountInv
<1> QED
  BY <1>1, <1>2, PTL DEF Spec

\* Every variable stays in its range, and a wait that goes past the field has a source,
\* for any number of scopes and waits.
THEOREM TypeCorrect == Spec => []TypeOK
  BY Invariance, PTL DEF Inv, CountInv

\* Decrement's compare-and-swap loses no update, and the exception it keeps for a
\* mismatched call is never thrown.
THEOREM CountCorrect == Spec => []CountIsOutstanding
  BY Invariance, PTL DEF Inv, CountInv

\* No WaitForZeroAsync misses the zero that comes between its look at the counter and
\* the source it leaves.
THEOREM WakeupsArrive == Spec => []NoLostWakeup
  BY Invariance, PTL DEF Inv

-----------------------------------------------------------------------------

ZeroSeen == count = 0 \/ \E w \in Workers : BringingToZero(w)

\* Every call that has begun overlaps a zero that is there or being announced, so that
\* only sources of such calls are completed, and only such calls find zero at once.
OverlapInv ==
  /\ ZeroSeen => Begun \subseteq overlap
  /\ \A s \in set : ~ OfChange(s) => s \in overlap
  /\ \A v \in Waiters : task[v] = CompletedTask => v \in overlap

\* Every step keeps the calls that overlap a zero.
LEMMA OverlapKept ==
  ASSUME CountInv, SourceInv, OverlapInv, [Next]_vars
  PROVE  OverlapInv'
<1> USE CounterAssumption
<1>0. /\ waitFor \in [{"change", "zero"} -> Waiters \cup {None}] /\ set \subseteq Waiters
      /\ waiter \in [Waiters -> WaiterStates] /\ worker \in [Workers -> WorkerStates]
      /\ task \in [Waiters -> Waiters \cup {None, CompletedTask}]
      /\ overlap \subseteq Waiters /\ seen \in [Workers -> 0 .. Cardinality(Workers)]
      /\ count \in Nat
      /\ Past \subseteq Begun
  BY FS_CardinalityType DEF CountInv, TypeOK, Past, Begun
<1>1. ASSUME NEW w \in Workers, Increment(w) PROVE OverlapInv'
  <2>1. ZeroSeen' => ZeroSeen
    BY <1>0, <1>1 DEF Increment, ZeroSeen, BringingToZero
  <2> QED BY <1>1, <2>1 DEF Increment, OverlapInv, Begun
<1>2. ASSUME NEW w \in Workers, ReadCount(w) PROVE OverlapInv'
  <2>1. ZeroSeen' => ZeroSeen
    BY <1>0, <1>2 DEF ReadCount, ZeroSeen, BringingToZero
  <2> QED BY <1>2, <2>1 DEF ReadCount, OverlapInv, Begun
<1>3. ASSUME NEW w \in Workers, CompareExchange(w) PROVE OverlapInv'
  <2>1. UNCHANGED <<set, waiter, task>> /\ Begun' = Begun
    BY <1>3 DEF CompareExchange, Begun
  <2>2. CASE count = 1 /\ count = seen[w] /\ overlap' = overlap \cup Begun
    BY <2>1, <2>2 DEF OverlapInv
  <2>3. CASE count # 1 /\ overlap' = overlap /\ count = seen[w]
    <3>1. /\ count' = count - 1 /\ seen' = [seen EXCEPT ![w] = count - 1]
          /\ worker' = [worker EXCEPT ![w] = "decremented"]
      BY <1>3, <2>3 DEF CompareExchange
    <3>2. count - 1 # 0
      BY <1>0, <2>3
    <3>3. ZeroSeen' => ZeroSeen
      BY <1>0, <3>1, <3>2 DEF ZeroSeen, BringingToZero
    <3> QED BY <2>1, <2>3, <3>3 DEF OverlapInv
  <2>4. CASE count # seen[w]
    <3>1. /\ UNCHANGED <<count, seen, overlap>> /\ worker[w] = "read"
          /\ worker' = [worker EXCEPT ![w] = "holding"]
      BY <1>3, <2>4 DEF CompareExchange
    <3>2. ZeroSeen' => ZeroSeen
      BY <1>0, <3>1 DEF ZeroSeen, BringingToZero
    <3> QED BY <2>1, <3>1, <3>2 DEF OverlapInv
  <2> QED BY <1>3, <2>2, <2>3, <2>4 DEF CompareExchange
<1>4. ASSUME NEW w \in Workers, NotifyChange(w) PROVE OverlapInv'
  <2>1. UNCHANGED <<count, seen, waiter, task, overlap>>
    BY <1>4 DEF NotifyChange, Notify
  <2>2. ZeroSeen' => ZeroSeen
    <3>1. ASSUME NEW u \in Workers, BringingToZero(u)' PROVE BringingToZero(u)
      BY <1>0, <1>4, <3>1 DEF NotifyChange, Notify, AfterDecrement, BringingToZero
    <3> QED BY <2>1, <3>1 DEF ZeroSeen
  <2>3. \A s \in set' : s \in set \/ OfChange(s)
    BY <1>0, <1>4 DEF NotifyChange, Notify, SourceInv, SourcesAreMade
  <2> QED BY <2>1, <2>2, <2>3 DEF OverlapInv, Begun
<1>5. ASSUME NEW w \in Workers, NotifyZero(w) PROVE OverlapInv'
  <2>1. UNCHANGED <<count, seen, waiter, task, overlap>> /\ worker[w] = "zeroed"
    BY <1>5 DEF NotifyZero, Notify
  <2>2. ZeroSeen /\ Begun \subseteq overlap
    BY <2>1 DEF ZeroSeen, BringingToZero, OverlapInv
  <2>3. set' \subseteq set \cup Past
    BY <1>0, <1>5 DEF NotifyZero, Notify, SourceInv, SourcesAreMade
  <2> QED BY <1>0, <2>1, <2>2, <2>3 DEF OverlapInv, Begun
<1>6. ASSUME NEW v \in Waiters, CheckZero(v) PROVE OverlapInv'
  <2>1. UNCHANGED <<count, set, worker, seen>> /\ Begun' \subseteq Begun \cup {v}
    BY <1>0, <1>6 DEF CheckZero, Begun
  <2>2. ZeroSeen' <=> ZeroSeen
    BY <2>1 DEF ZeroSeen, BringingToZero
  <2>3. overlap \subseteq overlap' /\ (ZeroSeen => v \in overlap')
    BY <1>6 DEF CheckZero, ZeroSeen
  <2>4. \A u \in Waiters :
          task'[u] = CompletedTask => task[u] = CompletedTask \/ (u = v /\ ZeroSeen)
    BY <1>0, <1>6 DEF CheckZero, ZeroSeen
  <2> QED BY <2>1, <2>2, <2>3, <2>4 DEF OverlapInv
<1>7. ASSUME NEW v \in Waiters, WaiterStep(v) PROVE OverlapInv'
  <2>1. UNCHANGED <<count, worker, seen, overlap>> /\ Begun' = Begun
    BY <1>0, <1>7 DEF WaiterStep, ReadField, Install, Recheck, AfterField, Begun
  <2>2. ZeroSeen' <=> ZeroSeen
    BY <2>1 DEF ZeroSeen, BringingToZero
  <2>3. \A u \in Waiters : task'[u] = CompletedTask => task[u] = CompletedTask
    BY <1>0, <1>7 DEF WaiterStep, ReadField, Install, Recheck, Field
  <2>4. set' = set \/ (ZeroSeen /\ set' \subseteq set \cup Past)
    BY <1>0, <1>7 DEF WaiterStep, ReadField, Install, Recheck, ZeroSeen, SourceInv, TasksAreMade
  <2> QED BY <1>0, <2>1, <2>2, <2>3, <2>4 DEF OverlapInv
<1>8. CASE UNCHANGED vars
  BY <1>8 DEF vars, OverlapInv, ZeroSeen, BringingToZero, Begun
<1> QED
  BY <1>1, <1>2, <1>3, <1>4, <1>5, <1>6, <1>7, <1>8 DEF Next, WorkerStep

\* A wait for zero that ends although no zero overlaps it has been given the source of
\* another wait, one that did overlap a zero.
THEOREM EarlyIsShared == Spec => []EarlyOnlyWhenShared
<1>1. Init => OverlapInv
  BY CounterAssumption DEF Init, OverlapInv, Begun
<1>2. Inv /\ OverlapInv /\ [Next]_vars => OverlapInv'
  BY OverlapKept DEF Inv
<1>3. Inv /\ OverlapInv => EarlyOnlyWhenShared
  BY CounterAssumption
  DEF Inv, SourceInv, TasksAreMade, OverlapInv, EarlyOnlyWhenShared, Ended, OfChange, CountInv,
      TypeOK
<1> QED BY <1>1, <1>2, <1>3, Invariance, PTL DEF Spec
=============================================================================
