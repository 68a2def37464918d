------------------- MODULE PriorityProducerConsumerProofs -------------------
(***************************************************************************)
(* Safety of PriorityProducerConsumer for every number of items, calls and *)
(* priorities.  TypeOK is not inductive: ConsumeAsync takes queue[0] of    *)
(* _queues[_firstAvailablePriority], which is a value only because that    *)
(* list is not empty.  The three facts of Inv hold each other up.  That at *)
(* most one value of a key is queued is proved on top of Inv.              *)
(***************************************************************************)
EXTENDS PriorityProducerConsumer, SequenceTheorems, TLAPS

USE PPCAssumption

\* Consumers wait only when the index says that all lists are empty.
WaitersSeeNothing ==
  pendingTasks # <<>> => firstAvailablePriority = MaxPriority

Inv == TypeOK /\ FirstAvailableIsMin /\ WaitersSeeNothing

-----------------------------------------------------------------------------

\* Removing one position of a list leaves a list.
LEMMA WithoutType ==
  ASSUME NEW S, NEW s \in Seq(S), NEW j \in DOMAIN s
  PROVE  Without(s, j) \in Seq(S)
<1>1. j \in 1 .. Len(s) /\ Len(s) \in Nat
  BY LenProperties
<1>2. SubSeq(s, 1, j - 1) \in Seq(S)
  <2>1. \A i \in 1 .. j - 1 : s[i] \in S
    BY <1>1, ElementOfSeq
  <2> QED BY <1>1, <2>1, SubSeqProperties
<1>3. SubSeq(s, j + 1, Len(s)) \in Seq(S)
  <2>1. \A i \in j + 1 .. Len(s) : s[i] \in S
    BY <1>1, ElementOfSeq
  <2> QED BY <1>1, <2>1, SubSeqProperties
<1> QED BY <1>2, <1>3, ConcatProperties DEF Without

\* A position names an element of a list.
LEMMA PositionType ==
  ASSUME TypeOK, NEW pos \in Positions
  PROVE  /\ pos[1] \in Priorities
         /\ pos[2] \in DOMAIN queues[pos[1]]
         /\ ItemAt(pos) \in Items
<1>1. PICK p \in Priorities : pos \in {p} \X DOMAIN queues[p]
  BY DEF Positions
<1>2. pos[1] = p /\ pos[2] \in DOMAIN queues[p]
  BY <1>1
<1>3. queues[p] \in Seq(Items)
  BY <1>1 DEF TypeOK
<1> QED BY <1>1, <1>2, <1>3, ElementOfSeq, LenProperties DEF ItemAt

\* The smaller of two priorities is a priority.
LEMMA SmallerProperties ==
  ASSUME NEW a \in Nat, NEW b \in Nat
  PROVE  Smaller(a, b) \in {a, b} /\ Smaller(a, b) <= a /\ Smaller(a, b) <= b
BY DEF Smaller

-----------------------------------------------------------------------------

\* Initially every list is empty and the index is past the last one.
LEMMA InitInv == Init => Inv
<1> SUFFICES ASSUME Init PROVE Inv
  OBVIOUS
<1>1. TypeOK
  <2>1. <<>> \in Seq(Items) /\ <<>> \in Seq(Calls) /\ MaxPriority \in 0 .. MaxPriority
    BY EmptySeq
  <2> QED BY <2>1 DEF Init, TypeOK, ItemStates, CallStates
<1>2. FirstAvailableIsMin /\ WaitersSeeNothing
  BY DEF Init, FirstAvailableIsMin, WaitersSeeNothing, Priorities
<1> QED BY <1>1, <1>2 DEF Inv

\* Adding a value to an empty queue, or to one with values, keeps the index
\* on the first list with a value.
LEMMA EnqueueNewInv ==
  ASSUME Inv, NEW i \in Items, NEW p \in Priorities,
         pendingTasks = <<>>, EnqueueNew(i, p),
         UNCHANGED <<pendingTasks, disposed, canceledTokens, call, result, workItems>>
  PROVE  Inv'
<1> USE DEF Inv, Priorities
<1>1. queues' \in [Priorities -> Seq(Items)] /\ item' \in [Items -> ItemStates]
  BY DEF EnqueueNew, TypeOK, ItemStates
<1>2. /\ firstAvailablePriority' \in {firstAvailablePriority, p}
      /\ firstAvailablePriority' <= firstAvailablePriority
      /\ firstAvailablePriority' <= p
  BY SmallerProperties DEF EnqueueNew, TypeOK
<1>3. TypeOK'
  BY <1>1, <1>2 DEF TypeOK
<1>4. queues'[p] # <<>> /\ \A q \in Priorities : q # p => queues'[q] = queues[q]
  <2>1. queues[p] \in Seq(Items)
    BY DEF TypeOK
  <2>2. queues'[p] = Append(queues[p], i)
    BY DEF EnqueueNew, TypeOK
  <2>3. queues'[p] # <<>>
    BY <2>1, <2>2, AppendProperties
  <2>4. \A q \in Priorities : q # p => queues'[q] = queues[q]
    BY DEF EnqueueNew, TypeOK
  <2> QED BY <2>3, <2>4
<1>5. FirstAvailableIsMin'
  BY <1>2, <1>4 DEF FirstAvailableIsMin, TypeOK
<1> QED BY <1>3, <1>5 DEF WaitersSeeNothing

\* Moving an equal value to the more urgent list may empty its old list, but
\* never the list the index ends on.
LEMMA EnqueueAgainInv ==
  ASSUME Inv, NEW i \in Items, NEW p \in Priorities,
         pendingTasks = <<>>, EnqueueAgain(i, p),
         UNCHANGED <<pendingTasks, disposed, canceledTokens, call, result, workItems>>
  PROVE  Inv'
<1> USE DEF Inv, Priorities
<1>1. PICK pos \in PositionsOf(Key[i]) :
         LET prio == Smaller(pos[1], p) IN
         /\ queues' = [q \in Priorities |->
                         LET kept == IF q = pos[1] THEN Without(queues[q], pos[2])
                                     ELSE queues[q]
                         IN  IF q = prio THEN Append(kept, i) ELSE kept]
         /\ firstAvailablePriority' = Smaller(firstAvailablePriority, prio)
         /\ item' = [item EXCEPT ![i] = "queued", ![ItemAt(pos)] = "superseded"]
  BY DEF EnqueueAgain
<1> DEFINE prio == Smaller(pos[1], p)
           kept(q) == IF q = pos[1] THEN Without(queues[q], pos[2]) ELSE queues[q]
<1>2. /\ pos \in Positions
      /\ pos[1] \in Priorities
      /\ pos[2] \in DOMAIN queues[pos[1]]
      /\ ItemAt(pos) \in Items
  BY PositionType DEF PositionsOf
<1>3. prio \in Priorities /\ prio <= pos[1]
  BY <1>2, SmallerProperties
<1>4. \A q \in Priorities : kept(q) \in Seq(Items)
  BY <1>2, WithoutType DEF TypeOK
<1>5. \A q \in Priorities : Append(kept(q), i) \in Seq(Items) /\ Append(kept(q), i) # <<>>
  BY <1>4, AppendProperties
<1>6. queues' \in [Priorities -> Seq(Items)]
  BY <1>1, <1>4, <1>5
<1>7. /\ firstAvailablePriority' \in {firstAvailablePriority, prio}
      /\ firstAvailablePriority' <= firstAvailablePriority
      /\ firstAvailablePriority' <= prio
  BY <1>1, <1>3, SmallerProperties DEF TypeOK
<1>8. TypeOK'
  <2>1. item' \in [Items -> ItemStates]
    BY <1>1, <1>2 DEF TypeOK, ItemStates
  <2> QED BY <2>1, <1>3, <1>6, <1>7 DEF TypeOK
<1>9. /\ queues'[prio] # <<>>
      /\ \A q \in Priorities : q # prio /\ q # pos[1] => queues'[q] = queues[q]
  BY <1>1, <1>3, <1>5
<1>10. queues[pos[1]] # <<>> /\ firstAvailablePriority <= pos[1]
  BY <1>2 DEF FirstAvailableIsMin, TypeOK
<1>11. FirstAvailableIsMin'
  <2>1. \A q \in Priorities : q < firstAvailablePriority' => queues'[q] = <<>>
    <3> SUFFICES ASSUME NEW q \in Priorities, q < firstAvailablePriority'
                 PROVE  queues'[q] = <<>>
      OBVIOUS
    <3>1. q < prio /\ q < pos[1] /\ q < firstAvailablePriority
      BY <1>2, <1>3, <1>7 DEF TypeOK
    <3>2. queues'[q] = queues[q]
      BY <3>1, <1>9
    <3> QED BY <3>1, <3>2 DEF FirstAvailableIsMin
  <2>2. queues'[firstAvailablePriority'] # <<>>
    <3>1. CASE firstAvailablePriority' = prio
      BY <3>1, <1>9
    <3>2. CASE firstAvailablePriority' # prio
      <4>1. firstAvailablePriority' = firstAvailablePriority /\ firstAvailablePriority < prio
        BY <3>2, <1>3, <1>7 DEF TypeOK
      <4>2. firstAvailablePriority # pos[1] /\ firstAvailablePriority \in Priorities
        BY <4>1, <1>2, <1>3 DEF TypeOK
      <4> QED BY <4>1, <4>2, <1>9 DEF FirstAvailableIsMin, TypeOK
    <3> QED BY <3>1, <3>2
  <2> QED BY <2>1, <2>2 DEF FirstAvailableIsMin
<1> QED BY <1>8, <1>11 DEF WaitersSeeNothing

\* Taking the first value advances the index exactly when its list empties,
\* over every empty list and no other.
LEMMA TakeFirstInv ==
  ASSUME Inv, NEW c \in Calls, TakeFirst(c)
  PROVE  Inv'
<1> USE DEF Inv, Priorities
<1> DEFINE p == firstAvailablePriority
           rest == [queues EXCEPT ![p] = Tail(@)]
<1>1. p \in Priorities /\ queues[p] \in Seq(Items) /\ queues[p] # <<>>
  BY DEF TakeFirst, FirstAvailableIsMin, TypeOK
<1>2. Head(queues[p]) \in Items /\ Tail(queues[p]) \in Seq(Items)
  BY <1>1, HeadTailProperties
<1>3. rest \in [Priorities -> Seq(Items)] /\ \A q \in Priorities : q # p => rest[q] = queues[q]
  BY <1>1, <1>2 DEF TypeOK
<1>4. queues' = rest
  BY DEF TakeFirst
<1>5. pendingTasks' = <<>> /\ pendingTasks = <<>>
  BY <1>1 DEF TakeFirst, WaitersSeeNothing
<1>6. \A q \in Priorities : q < p => rest[q] = <<>>
  BY <1>1, <1>3 DEF FirstAvailableIsMin, TypeOK
<1>7. firstAvailablePriority' \in 0 .. MaxPriority /\ FirstAvailableIsMin'
  <2>1. CASE rest[p] = <<>>
    <3>1. PICK n \in p + 1 .. MaxPriority :
             IsNextAvailable(n, p + 1, rest) /\ firstAvailablePriority' = n
      BY <2>1 DEF TakeFirst
    <3>2. \A q \in Priorities : q < n => rest[q] = <<>>
      BY <1>1, <1>6, <2>1, <3>1 DEF IsNextAvailable
    <3> QED BY <1>1, <1>4, <3>1, <3>2 DEF FirstAvailableIsMin, IsNextAvailable
  <2>2. CASE rest[p] # <<>>
    <3>1. firstAvailablePriority' = p
      BY <2>2 DEF TakeFirst
    <3> QED BY <1>1, <1>4, <1>6, <2>2, <3>1 DEF FirstAvailableIsMin
  <2> QED BY <2>1, <2>2
<1>8. TypeOK'
  <2>1. /\ item' \in [Items -> ItemStates]
        /\ call' \in [Calls -> CallStates]
        /\ result' \in [Calls -> Items \cup {NoItem}]
    BY <1>2 DEF TakeFirst, TypeOK, ItemStates, CallStates
  <2> QED BY <1>3, <1>4, <1>7, <2>1 DEF TakeFirst, TypeOK
<1> QED BY <1>5, <1>7, <1>8 DEF WaitersSeeNothing

\* The steps that leave the lists alone.
LEMMA HandToWaiterInv ==
  ASSUME Inv, NEW i \in Items, HandToWaiter(i)
  PROVE  Inv'
<1> USE DEF Inv
<1>1. pendingTasks \in Seq(Calls) /\ pendingTasks # <<>>
  BY DEF HandToWaiter, TypeOK
<1>2. Head(pendingTasks) \in Calls /\ pendingTasks' \in Seq(Calls)
  BY <1>1, HeadTailProperties DEF HandToWaiter
<1>3. TypeOK'
  BY <1>2 DEF HandToWaiter, TypeOK, ItemStates, CallStates
<1>4. FirstAvailableIsMin'
  BY DEF HandToWaiter, FirstAvailableIsMin
<1> QED BY <1>1, <1>3, <1>4 DEF HandToWaiter, WaitersSeeNothing

\* A consumer waits only when the index is past the last list.
LEMMA WaitInv ==
  ASSUME Inv, NEW c \in Calls, Wait(c)
  PROVE  Inv'
<1> USE DEF Inv
<1>1. pendingTasks' \in Seq(Calls)
  BY AppendProperties DEF Wait, TypeOK
<1>2. TypeOK'
  BY <1>1 DEF Wait, TypeOK, CallStates
<1> QED BY <1>2 DEF Wait, FirstAvailableIsMin, WaitersSeeNothing

\* Every step keeps Inv.
LEMMA NextInv == Inv /\ [Next]_vars => Inv'
<1> SUFFICES ASSUME Inv, [Next]_vars PROVE Inv'
  OBVIOUS
<1> USE DEF Inv
<1>1. ASSUME NEW i \in Items, BeginProduce(i) PROVE Inv'
  BY <1>1 DEF BeginProduce, TypeOK, ItemStates, FirstAvailableIsMin, WaitersSeeNothing
<1>2. ASSUME NEW i \in Items, HandToWaiter(i) PROVE Inv'
  BY <1>2, HandToWaiterInv
<1>3. ASSUME NEW i \in Items, EnqueueItem(i) PROVE Inv'
  BY <1>3, EnqueueNewInv, EnqueueAgainInv DEF EnqueueItem
<1>4. ASSUME NEW c \in Calls, BeginConsume(c) PROVE Inv'
  BY <1>4 DEF BeginConsume, TypeOK, CallStates, FirstAvailableIsMin, WaitersSeeNothing
<1>5. ASSUME NEW c \in Calls, TakeFirst(c) PROVE Inv'
  BY <1>5, TakeFirstInv
<1>6. ASSUME NEW c \in Calls, Wait(c) PROVE Inv'
  BY <1>6, WaitInv
<1>7. ASSUME NEW c \in Calls, RegisterCancellation(c) PROVE Inv'
  BY <1>7 DEF RegisterCancellation, TypeOK, CallStates, FirstAvailableIsMin, WaitersSeeNothing
<1>8. ASSUME NEW c \in Calls, CancelCallback(c) PROVE Inv'
  BY <1>8 DEF CancelCallback, TypeOK, CallStates, FirstAvailableIsMin, WaitersSeeNothing
<1>9. ASSUME NEW c \in Calls, NEW i \in Items, ConsumeCallback(c, i) PROVE Inv'
  BY <1>9 DEF ConsumeCallback, TypeOK, CallStates, ItemStates, FirstAvailableIsMin,
     WaitersSeeNothing
<1>10. CASE Dispose
  BY <1>10 DEF Dispose, TypeOK, FirstAvailableIsMin, WaitersSeeNothing
<1>11. ASSUME NEW c \in Calls, CancelToken(c) PROVE Inv'
  BY <1>11 DEF CancelToken, TypeOK, FirstAvailableIsMin, WaitersSeeNothing
<1>12. CASE UNCHANGED vars
  BY <1>12 DEF vars, TypeOK, FirstAvailableIsMin, WaitersSeeNothing
<1> QED
  BY <1>1, <1>2, <1>3, <1>4, <1>5, <1>6, <1>7, <1>8, <1>9, <1>10, <1>11, <1>12
  DEF Next, ProduceNext, ConsumeNext

-----------------------------------------------------------------------------

\* Inv holds in every state the queue can reach.
THEOREM InvHolds == Spec => []Inv
BY InitInv, NextInv, PTL DEF Spec

\* Every variable of the queue stays in its range: no list is indexed while
\* it is empty.
THEOREM TypeCorrect == Spec => []TypeOK
<1>1. Inv => TypeOK
  BY DEF Inv
<1> QED BY <1>1, InvHolds, PTL

\* _firstAvailablePriority is the most urgent priority with a value.
THEOREM IndexCorrect == Spec => []FirstAvailableIsMin
<1>1. Inv => FirstAvailableIsMin
  BY DEF Inv
<1> QED BY <1>1, InvHolds, PTL

\* The assertion of Produce and ConsumeAsync never fails: while a consumer
\* waits, all lists are empty.
THEOREM AssertionHolds == Spec => []PendingOnlyWhenEmpty
<1>1. Inv => PendingOnlyWhenEmpty
  <2> SUFFICES ASSUME Inv, pendingTasks # <<>>
               PROVE  firstAvailablePriority = MaxPriority /\ Positions = {}
    BY DEF PendingOnlyWhenEmpty
  <2>1. firstAvailablePriority = MaxPriority
    BY DEF Inv, WaitersSeeNothing
  <2>2. \A p \in Priorities : queues[p] = <<>>
    BY <2>1 DEF Inv, FirstAvailableIsMin, Priorities
  <2>3. ASSUME NEW pos \in Positions PROVE FALSE
    <3>1. pos[1] \in Priorities /\ pos[2] \in DOMAIN queues[pos[1]]
      BY PositionType DEF Inv
    <3> QED BY <2>2, <3>1
  <2> QED BY <2>1, <2>3
<1> QED BY <1>1, InvHolds, PTL
-----------------------------------------------------------------------------
(* At most one value of a key.  The lists are a function qs here, so that  *)
(* the removal and the addition of Produce are two facts about values.     *)

\* No two values of the lists have the same key, K being Key or the value itself.
Apart(K, qs) ==
  \A p, q \in Priorities : \A m \in 1 .. Len(qs[p]), n \in 1 .. Len(qs[q]) :
    K[qs[p][m]] = K[qs[q][n]] => p = q /\ m = n

\* No value of the lists has the key k.
Lacks(K, qs, k) == \A q \in Priorities : \A n \in 1 .. Len(qs[q]) : K[qs[q][n]] # k

Lists == [Priorities -> Seq(Items)]

\* Removing one position of a list moves the values behind it down by one.
LEMMA WithoutElements ==
  ASSUME NEW S, NEW s \in Seq(S), NEW j \in 1 .. Len(s)
  PROVE  /\ Without(s, j) \in Seq(S) /\ Len(Without(s, j)) = Len(s) - 1
         /\ \A n \in 1 .. Len(s) - 1 :
              Without(s, j)[n] = IF n < j THEN s[n] ELSE s[n + 1]
<1>1. Len(s) \in Nat /\ j \in Nat /\ j >= 1 /\ j <= Len(s)
  BY LenProperties
<1> DEFINE front == SubSeq(s, 1, j - 1)
           back == SubSeq(s, j + 1, Len(s))
<1>2. \A k \in 1 .. Len(s) : s[k] \in S
  BY ElementOfSeq
<1>3. /\ front \in Seq(S) /\ Len(front) = j - 1
      /\ \A n \in 1 .. j - 1 : front[n] = s[n]
  BY <1>1, <1>2, SubSeqProperties
<1>4. /\ back \in Seq(S) /\ Len(back) = Len(s) - j
      /\ \A n \in 1 .. Len(s) - j : back[n] = s[n + j]
  BY <1>1, <1>2, SubSeqProperties
<1> HIDE DEF front, back
<1>5. /\ front \o back \in Seq(S) /\ Len(front \o back) = Len(front) + Len(back)
      /\ \A n \in 1 .. Len(front) + Len(back) :
           (front \o back)[n] = IF n <= Len(front) THEN front[n] ELSE back[n - Len(front)]
  <2>1. front \in Seq(S) /\ back \in Seq(S)
    BY <1>3, <1>4
  <2> QED BY ONLY <2>1, ConcatProperties
<1>6. Len(front) + Len(back) = Len(s) - 1
  BY <1>1, <1>3, <1>4
<1>7. ASSUME NEW n \in 1 .. Len(s) - 1
      PROVE  (front \o back)[n] = IF n < j THEN s[n] ELSE s[n + 1]
  <2>1. (front \o back)[n] = IF n <= j - 1 THEN front[n] ELSE back[n - (j - 1)]
    BY <1>3, <1>5, <1>6
  <2>2. CASE n < j
    <3>1. n \in 1 .. j - 1
      BY <1>1, <2>2
    <3> QED BY <1>3, <2>1, <2>2, <3>1
  <2>3. CASE ~ n < j
    <3>1. n - (j - 1) \in 1 .. Len(s) - j /\ n - (j - 1) + j = n + 1 /\ ~ n <= j - 1
      BY <1>1, <2>3
    <3>2. back[n - (j - 1)] = s[n + 1]
      BY <1>4, <3>1
    <3> QED BY <2>1, <2>3, <3>1, <3>2
  <2> QED BY <2>2, <2>3
<1> QED BY <1>5, <1>6, <1>7 DEF Without, front, back

\* Removing a value keeps the others apart and leaves none of its key.
LEMMA RemoveApart ==
  ASSUME NEW K, NEW qs \in Lists, Apart(K, qs), NEW p \in Priorities, NEW j \in 1 .. Len(qs[p]),
         NEW rest \in Lists, rest = [qs EXCEPT ![p] = Without(@, j)]
  PROVE  Apart(K, rest) /\ Lacks(K, rest, K[qs[p][j]])
<1> DEFINE back(q, n) == IF q = p /\ ~ n < j THEN n + 1 ELSE n
<1>1. /\ qs[p] \in Seq(Items) /\ Len(qs[p]) \in Nat /\ j \in Nat
      /\ rest[p] = Without(qs[p], j)
      /\ \A q \in Priorities : q # p => rest[q] = qs[q]
  BY LenProperties DEF Lists
<1>2. /\ Len(rest[p]) = Len(qs[p]) - 1
      /\ \A n \in 1 .. Len(qs[p]) - 1 : rest[p][n] = IF n < j THEN qs[p][n] ELSE qs[p][n + 1]
  BY <1>1, WithoutElements
<1>3. ASSUME NEW q \in Priorities, NEW n \in 1 .. Len(rest[q])
      PROVE  /\ n \in Int /\ back(q, n) \in 1 .. Len(qs[q])
             /\ rest[q][n] = qs[q][back(q, n)]
             /\ ~ (q = p /\ back(q, n) = j)
  <2>1. CASE q # p
    BY <1>1, <2>1
  <2>2. CASE q = p
    <3>1. n \in 1 .. Len(qs[p]) - 1
      BY <1>2, <2>2
    <3> QED BY <1>1, <1>2, <2>2, <3>1
  <2> QED BY <2>1, <2>2
<1>4. ASSUME NEW q \in Priorities, NEW m \in Int, NEW n \in Int, back(q, m) = back(q, n)
      PROVE  m = n
  BY <1>1, <1>4
<1> HIDE DEF back
<1>5. Apart(K, rest)
  <2> SUFFICES ASSUME NEW q \in Priorities, NEW r \in Priorities,
                      NEW m \in 1 .. Len(rest[q]), NEW n \in 1 .. Len(rest[r]),
                      K[rest[q][m]] = K[rest[r][n]]
               PROVE  q = r /\ m = n
    BY DEF Apart
  <2>1. PICK a \in 1 .. Len(qs[q]) : a = back(q, m) /\ rest[q][m] = qs[q][a]
    BY <1>3
  <2>2. PICK b \in 1 .. Len(qs[r]) : b = back(r, n) /\ rest[r][n] = qs[r][b]
    BY <1>3
  <2>3. K[qs[q][a]] = K[qs[r][b]]
    BY <2>1, <2>2
  <2>4. q = r /\ a = b
    BY <2>3 DEF Apart
  <2> QED BY <1>3, <1>4, <2>1, <2>2, <2>4
<1>6. Lacks(K, rest, K[qs[p][j]])
  <2> SUFFICES ASSUME NEW q \in Priorities, NEW n \in 1 .. Len(rest[q]),
                      K[rest[q][n]] = K[qs[p][j]]
               PROVE  FALSE
    BY DEF Lacks
  <2>1. PICK a \in 1 .. Len(qs[q]) :
          a = back(q, n) /\ rest[q][n] = qs[q][a] /\ ~ (q = p /\ a = j)
    BY <1>3
  <2>2. K[qs[q][a]] = K[qs[p][j]]
    BY <2>1
  <2>3. q = p /\ a = j
    BY <2>2 DEF Apart
  <2> QED BY <2>1, <2>3
<1> QED BY <1>5, <1>6

\* Adding a value whose key the lists lack keeps the values apart.
LEMMA AddApart ==
  ASSUME NEW K, NEW qs \in Lists, Apart(K, qs), NEW p \in Priorities, NEW i \in Items,
         Lacks(K, qs, K[i])
  PROVE  Apart(K, [qs EXCEPT ![p] = Append(@, i)])
<1> DEFINE more == [qs EXCEPT ![p] = Append(@, i)]
           last == Len(qs[p]) + 1
<1>1. /\ qs[p] \in Seq(Items) /\ Len(qs[p]) \in Nat
      /\ more[p] = Append(qs[p], i)
      /\ \A q \in Priorities : q # p => more[q] = qs[q]
  BY LenProperties DEF Lists
<1>2. /\ Len(more[p]) = last /\ more[p][last] = i
      /\ \A n \in 1 .. Len(qs[p]) : more[p][n] = qs[p][n]
  BY <1>1, AppendProperties
<1> HIDE DEF more
<1>3. ASSUME NEW q \in Priorities, NEW n \in 1 .. Len(more[q])
      PROVE  \/ q = p /\ n = last /\ more[q][n] = i
             \/ n \in 1 .. Len(qs[q]) /\ more[q][n] = qs[q][n]
  <2>1. CASE q # p
    BY <1>1, <2>1
  <2>2. CASE q = p
    BY <1>1, <1>2, <2>2
  <2> QED BY <2>1, <2>2
<1>4. ASSUME NEW q \in Priorities, NEW r \in Priorities,
             NEW m \in 1 .. Len(more[q]), NEW n \in 1 .. Len(more[r]),
             K[more[q][m]] = K[more[r][n]]
      PROVE  q = r /\ m = n
  <2>1. CASE more[q][m] = i /\ q = p /\ m = last /\ more[r][n] = i /\ r = p /\ n = last
    BY <2>1
  <2>2. CASE /\ more[q][m] = i
             /\ n \in 1 .. Len(qs[r]) /\ more[r][n] = qs[r][n]
    <3>1. K[qs[r][n]] = K[i]
      BY <1>4, <2>2
    <3> QED BY <2>2, <3>1 DEF Lacks
  <2>3. CASE /\ more[r][n] = i
             /\ m \in 1 .. Len(qs[q]) /\ more[q][m] = qs[q][m]
    <3>1. K[qs[q][m]] = K[i]
      BY <1>4, <2>3
    <3> QED BY <2>3, <3>1 DEF Lacks
  <2>4. CASE /\ m \in 1 .. Len(qs[q]) /\ more[q][m] = qs[q][m]
             /\ n \in 1 .. Len(qs[r]) /\ more[r][n] = qs[r][n]
    <3>1. K[qs[q][m]] = K[qs[r][n]]
      BY <1>4, <2>4
    <3> QED BY <2>4, <3>1 DEF Apart
  <2>5. \/ q = p /\ m = last /\ more[q][m] = i
        \/ m \in 1 .. Len(qs[q]) /\ more[q][m] = qs[q][m]
    BY <1>3
  <2>6. \/ r = p /\ n = last /\ more[r][n] = i
        \/ n \in 1 .. Len(qs[r]) /\ more[r][n] = qs[r][n]
    BY <1>3
  <2> HIDE DEF last
  <2> QED BY <2>1, <2>2, <2>3, <2>4, <2>5, <2>6
<1> QED BY <1>4 DEF Apart, more

\* With equal values excluded, the property says that the lists are apart.
LEMMA ApartIs ==
  ASSUME TypeOK
  PROVE  /\ queues \in Lists
         /\ AtMostOnePerKey <=> (ExcludeDuplicates => Apart(Key, queues))
         /\ \A k : PositionsOf(k) = {} => Lacks(Key, queues, k)
<1>1. queues \in Lists /\ \A p \in Priorities : DOMAIN queues[p] = 1 .. Len(queues[p])
  BY LenProperties DEF TypeOK, Lists
<1>2. /\ \A pos \in Positions :
           /\ pos = <<pos[1], pos[2]>> /\ pos[1] \in Priorities
           /\ pos[2] \in 1 .. Len(queues[pos[1]])
      /\ \A p \in Priorities : \A n \in 1 .. Len(queues[p]) : <<p, n>> \in Positions
  BY <1>1 DEF Positions
<1>3. ASSUME Apart(Key, queues) PROVE AtMostOnePerKey
  BY <1>2, <1>3 DEF Apart, AtMostOnePerKey, ItemAt
<1>4. ASSUME AtMostOnePerKey, ExcludeDuplicates PROVE Apart(Key, queues)
  <2> SUFFICES ASSUME NEW p \in Priorities, NEW q \in Priorities,
                      NEW m \in 1 .. Len(queues[p]), NEW n \in 1 .. Len(queues[q]),
                      Key[queues[p][m]] = Key[queues[q][n]]
               PROVE  p = q /\ m = n
    BY DEF Apart
  <2>1. <<p, m>> = <<q, n>>
    BY <1>2, <1>4 DEF AtMostOnePerKey, ItemAt
  <2> QED BY <2>1
<1>5. ASSUME NEW k, PositionsOf(k) = {} PROVE Lacks(Key, queues, k)
  BY <1>2, <1>5 DEF Lacks, PositionsOf, ItemAt
<1>6. ~ ExcludeDuplicates => AtMostOnePerKey
  BY DEF AtMostOnePerKey
<1> QED BY <1>1, <1>3, <1>4, <1>5, <1>6

\* EnqueueAgain removes the value found and adds the new one.
LEMMA EnqueueAgainIs ==
  ASSUME TypeOK, NEW i \in Items, NEW p \in Priorities, EnqueueAgain(i, p)
  PROVE  \E old \in PositionsOf(Key[i]) : \E rest \in Lists :
           /\ old \in Positions /\ old[1] \in Priorities /\ old[2] \in 1 .. Len(queues[old[1]])
           /\ ItemAt(old) \in Items /\ Key[ItemAt(old)] = Key[i]
           /\ rest = [queues EXCEPT ![old[1]] = Without(@, old[2])]
           /\ Smaller(old[1], p) \in Priorities
           /\ queues' = [rest EXCEPT ![Smaller(old[1], p)] = Append(@, i)]
           /\ item' = [item EXCEPT ![i] = "queued", ![ItemAt(old)] = "superseded"]
<1>1. queues \in Lists
  BY ApartIs
<1>2. PICK old \in PositionsOf(Key[i]) :
        /\ queues' = [q \in Priorities |->
                       LET kept == IF q = old[1] THEN Without(queues[q], old[2])
                                   ELSE queues[q]
                       IN  IF q = Smaller(old[1], p) THEN Append(kept, i) ELSE kept]
        /\ item' = [item EXCEPT ![i] = "queued", ![ItemAt(old)] = "superseded"]
  BY DEF EnqueueAgain
<1>3. /\ old \in Positions /\ old[1] \in Priorities /\ old[2] \in DOMAIN queues[old[1]]
      /\ ItemAt(old) \in Items /\ Key[ItemAt(old)] = Key[i]
  BY PositionType DEF PositionsOf
<1>4. old[2] \in 1 .. Len(queues[old[1]]) /\ queues[old[1]] \in Seq(Items)
  BY <1>1, <1>3, LenProperties DEF Lists
<1> DEFINE rest == [queues EXCEPT ![old[1]] = Without(@, old[2])]
           prio == Smaller(old[1], p)
<1>5. rest \in Lists
  BY <1>1, <1>3, <1>4, WithoutElements DEF Lists
<1>6. prio \in Priorities
  BY <1>3, SmallerProperties DEF Priorities
<1>7. queues' = [rest EXCEPT ![prio] = Append(@, i)]
  BY <1>1, <1>2, <1>3, <1>6 DEF Lists
<1> QED BY <1>2, <1>3, <1>4, <1>5, <1>6, <1>7

\* The tail of a list is what removing its first position leaves.
LEMMA TailIsWithout ==
  ASSUME NEW S, NEW s \in Seq(S), s # <<>>
  PROVE  1 \in 1 .. Len(s) /\ Tail(s) = Without(s, 1)
<1>1. Len(s) \in Nat /\ Len(s) >= 1
  BY LenProperties, EmptySeq
<1>2. /\ Tail(s) \in Seq(S) /\ Len(Tail(s)) = Len(s) - 1
      /\ \A n \in 1 .. Len(s) - 1 : Tail(s)[n] = s[n + 1]
  BY <1>1, HeadTailProperties
<1>3. /\ Without(s, 1) \in Seq(S) /\ Len(Without(s, 1)) = Len(s) - 1
      /\ \A n \in 1 .. Len(s) - 1 : Without(s, 1)[n] = IF n < 1 THEN s[n] ELSE s[n + 1]
  BY <1>1, WithoutElements
<1>4. \A n \in 1 .. Len(Tail(s)) : Tail(s)[n] = Without(s, 1)[n]
  BY <1>1, <1>2, <1>3
<1> HIDE DEF Without
<1> QED BY <1>1, <1>2, <1>3, <1>4, SeqEqual

\* TakeFirst removes the first value of the list the index is on.
LEMMA TakeFirstIs ==
  ASSUME Inv, NEW c \in Calls, TakeFirst(c)
  PROVE  LET p == firstAvailablePriority IN
         /\ p \in Priorities /\ 1 \in 1 .. Len(queues[p])
         /\ Head(queues[p]) = queues[p][1] /\ queues[p][1] \in Items
         /\ [queues EXCEPT ![p] = Without(@, 1)] \in Lists
         /\ queues' = [queues EXCEPT ![p] = Without(@, 1)]
         /\ \A q \in Priorities : q < p => queues[q] = <<>>
<1> DEFINE p == firstAvailablePriority
<1>1. /\ queues \in Lists /\ p \in Priorities /\ queues[p] \in Seq(Items)
      /\ queues[p] # <<>> /\ queues' = [queues EXCEPT ![p] = Tail(@)]
      /\ \A q \in Priorities : q < p => queues[q] = <<>>
  BY ApartIs DEF TakeFirst, Inv, FirstAvailableIsMin, TypeOK, Priorities
<1>2. 1 \in 1 .. Len(queues[p]) /\ Tail(queues[p]) = Without(queues[p], 1)
  BY <1>1, TailIsWithout
<1>3. Head(queues[p]) = queues[p][1] /\ queues[p][1] \in Items
  BY <1>1, <1>2, ElementOfSeq, HeadTailProperties
<1>4. [queues EXCEPT ![p] = Without(@, 1)] \in Lists
  BY <1>1, <1>2, WithoutElements DEF Lists
<1> QED BY <1>1, <1>2, <1>3, <1>4

\* Produce keeps the lists apart: it adds a value no list has the key of, or
\* first removes the one that has it.
LEMMA EnqueueApart ==
  ASSUME TypeOK, Apart(Key, queues), ExcludeDuplicates, NEW i \in Items, NEW p \in Priorities,
         EnqueueNew(i, p) \/ EnqueueAgain(i, p)
  PROVE  Apart(Key, queues')
<1>1. queues \in Lists
  BY ApartIs
<1>2. CASE EnqueueNew(i, p)
  <2>1. Lacks(Key, queues, Key[i])
    BY <1>2, ApartIs DEF EnqueueNew
  <2> QED BY <1>1, <1>2, <2>1, AddApart DEF EnqueueNew
<1>3. CASE EnqueueAgain(i, p)
  <2>1. PICK old \in PositionsOf(Key[i]), rest \in Lists :
          /\ old[1] \in Priorities /\ old[2] \in 1 .. Len(queues[old[1]])
          /\ Key[ItemAt(old)] = Key[i]
          /\ rest = [queues EXCEPT ![old[1]] = Without(@, old[2])]
          /\ Smaller(old[1], p) \in Priorities
          /\ queues' = [rest EXCEPT ![Smaller(old[1], p)] = Append(@, i)]
    BY <1>3, EnqueueAgainIs
  <2>2. Apart(Key, rest) /\ Lacks(Key, rest, Key[i])
    BY <1>1, <2>1, RemoveApart DEF ItemAt
  <2> QED BY <2>1, <2>2, AddApart
<1> QED BY <1>2, <1>3

\* ConsumeAsync keeps the lists apart: it removes the first value of a list.
LEMMA TakeFirstApart ==
  ASSUME Inv, Apart(Key, queues), NEW c \in Calls, TakeFirst(c)
  PROVE  Apart(Key, queues')
BY TakeFirstIs, ApartIs, RemoveApart DEF Inv

\* "There can be no more than one": with _excludeDuplicates no two values of a
\* key are in the lists, for any number of values and priorities.
THEOREM OnePerKey == Spec => []AtMostOnePerKey
<1> DEFINE IApart == ExcludeDuplicates => Apart(Key, queues)
<1>1. Init => IApart
  <2> SUFFICES ASSUME Init PROVE Apart(Key, queues)
    OBVIOUS
  <2>1. \A p \in Priorities : queues[p] = <<>> /\ Len(queues[p]) = 0
    BY DEF Init
  <2> QED BY <2>1 DEF Apart
<1>2. Inv /\ IApart /\ [Next]_vars => IApart'
  <2> SUFFICES ASSUME Inv, Apart(Key, queues), [Next]_vars, ExcludeDuplicates
               PROVE  Apart(Key, queues')
    OBVIOUS
  <2>1. CASE UNCHANGED queues
    BY <2>1
  <2>2. ASSUME NEW i \in Items, EnqueueItem(i) PROVE Apart(Key, queues')
    BY <2>2, EnqueueApart DEF EnqueueItem, Inv
  <2>3. ASSUME NEW c \in Calls, TakeFirst(c) PROVE Apart(Key, queues')
    BY <2>3, TakeFirstApart
  <2> QED
    BY <2>1, <2>2, <2>3
    DEF Next, vars, ProduceNext, ConsumeNext, BeginProduce, HandToWaiter, BeginConsume, Wait,
        RegisterCancellation, CancelCallback, ConsumeCallback, Dispose, CancelToken
<1>3. Inv /\ IApart => AtMostOnePerKey
  BY ApartIs DEF Inv
<1> QED BY <1>1, <1>2, <1>3, InvHolds, PTL DEF Spec
=============================================================================
