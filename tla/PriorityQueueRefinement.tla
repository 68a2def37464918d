---------------------- MODULE PriorityQueueRefinement ----------------------
(***************************************************************************)
(* PriorityProducerConsumer implements PriorityQueue, for every number of  *)
(* values, calls and priorities, and its values are neither duplicated nor *)
(* lost but to a cancelled waiter.  The mapping is sound only because the  *)
(* state of each Produce and each ConsumeAsync agrees with where its value *)
(* and its Pending are: this is the invariant Places.                      *)
(***************************************************************************)
EXTENDS PriorityProducerConsumerProofs, FiniteSetTheorems

USE PPCAssumption

\* The list of priority p holds the value i.
Holds(qs, i, p) == \E n \in 1 .. Len(qs[p]) : qs[p][n] = i

Self == [i \in Items |-> i]

\* The lists rest hold what qs holds but for i, and with i in list p besides.
HoldsBut(rest, qs, i) ==
  \A x \in Items, q \in Priorities : Holds(rest, x, q) <=> Holds(qs, x, q) /\ x # i

HoldsAlso(more, qs, i, p) ==
  \A x \in Items, q \in Priorities :
    Holds(more, x, q) <=> Holds(qs, x, q) \/ (x = i /\ q = p)

\* No value is in the lists twice, and those in the lists are the queued ones.
ListsMatch ==
  /\ Apart(Self, queues)
  /\ \A i \in Items : item[i] = "queued" <=> \E p \in Priorities : Holds(queues, i, p)

\* A released call has at most one work item, a handed value exactly one.
WorkItemsMatch ==
  /\ \A w \in workItems : call[w[1]] = "released"
  /\ \A v, w \in workItems : v[1] = w[1] \/ v[2] = w[2] => v = w
  /\ \A i \in Items : item[i] = "handed" <=> \E w \in workItems : w[2] = i

\* Only completed calls have a result, and a delivered value is that of one.
ResultsMatch ==
  /\ \A c \in Calls : result[c] # NoItem => call[c] = "completed"
  /\ \A c, d \in Calls : result[c] = result[d] /\ result[c] # NoItem => c = d
  /\ \A i \in Items : item[i] = "delivered" <=> \E c \in Calls : result[c] = i

\* A Pending is in _pendingTasks once, for as long as nobody released it; one
\* that was cancelled may be there too.
WaitersMatch ==
  /\ \A m, n \in DOMAIN pendingTasks : pendingTasks[m] = pendingTasks[n] => m = n
  /\ \A n \in DOMAIN pendingTasks :
       call[pendingTasks[n]] \in {"pending", "registered", "canceled"}
  /\ \A c \in Calls : Held(c) => Waiting(c)

Places == ListsMatch /\ WorkItemsMatch /\ ResultsMatch /\ WaitersMatch

-----------------------------------------------------------------------------
(* What the operations do to the values that the lists hold.               *)

\* A value is its own key.
LEMMA SelfIs == \A i \in Items : Self[i] = i
BY DEF Self

\* Adding a value to a list adds it there and nowhere else.
LEMMA HoldsAfterAdd ==
  ASSUME NEW qs \in Lists, NEW p \in Priorities, NEW i \in Items
  PROVE  HoldsAlso([qs EXCEPT ![p] = Append(@, i)], qs, i, p)
<1> DEFINE more == [qs EXCEPT ![p] = Append(@, i)]
<1> SUFFICES ASSUME NEW x \in Items, NEW q \in Priorities
             PROVE  Holds(more, x, q) <=> Holds(qs, x, q) \/ (x = i /\ q = p)
  BY DEF HoldsAlso
<1>1. /\ qs[p] \in Seq(Items) /\ Len(qs[p]) \in Nat /\ more[p] = Append(qs[p], i)
      /\ q # p => more[q] = qs[q]
  BY LenProperties DEF Lists
<1>2. /\ Len(more[p]) = Len(qs[p]) + 1 /\ more[p][Len(qs[p]) + 1] = i
      /\ \A n \in 1 .. Len(qs[p]) : more[p][n] = qs[p][n]
  BY <1>1, AppendProperties
<1> HIDE DEF more
<1>3. CASE q # p
  BY <1>1, <1>3 DEF Holds
<1>4. CASE q = p
  <2>1. ASSUME NEW n \in 1 .. Len(more[p]) PROVE n \in 1 .. Len(qs[p]) \/ n = Len(qs[p]) + 1
    BY <1>1, <1>2
  <2>2. \A n \in 1 .. Len(qs[p]) : n \in 1 .. Len(more[p])
    BY <1>1, <1>2
  <2>3. Len(qs[p]) + 1 \in 1 .. Len(more[p])
    BY <1>1, <1>2
  <2>4. ASSUME Holds(more, x, p) PROVE Holds(qs, x, p) \/ x = i
    BY <1>2, <2>1, <2>4 DEF Holds
  <2>5. ASSUME Holds(qs, x, p) PROVE Holds(more, x, p)
    BY <1>2, <2>2, <2>5 DEF Holds
  <2>6. Holds(more, i, p)
    BY <1>2, <2>3 DEF Holds
  <2> QED BY <1>4, <2>4, <2>5, <2>6
<1> QED BY <1>3, <1>4

\* Removing a position removes the value that was there.
LEMMA HoldsAfterRemove ==
  ASSUME NEW qs \in Lists, Apart(Self, qs), NEW p \in Priorities, NEW j \in 1 .. Len(qs[p]),
         NEW rest \in Lists, rest = [qs EXCEPT ![p] = Without(@, j)]
  PROVE  HoldsBut(rest, qs, qs[p][j])
<1> SUFFICES ASSUME NEW x \in Items, NEW q \in Priorities
             PROVE  Holds(rest, x, q) <=> Holds(qs, x, q) /\ x # qs[p][j]
  BY DEF HoldsBut
<1>1. /\ qs[p] \in Seq(Items) /\ Len(qs[p]) \in Nat /\ j \in Nat
      /\ rest[p] = Without(qs[p], j)
      /\ q # p => rest[q] = qs[q]
      /\ qs[p][j] \in Items
  BY LenProperties, ElementOfSeq DEF Lists
<1>2. /\ Len(rest[p]) = Len(qs[p]) - 1
      /\ \A n \in 1 .. Len(qs[p]) - 1 : rest[p][n] = IF n < j THEN qs[p][n] ELSE qs[p][n + 1]
  <2>1. /\ Len(Without(qs[p], j)) = Len(qs[p]) - 1
        /\ \A n \in 1 .. Len(qs[p]) - 1 :
             Without(qs[p], j)[n] = IF n < j THEN qs[p][n] ELSE qs[p][n + 1]
    <3>1. qs[p] \in Seq(Items)
      BY <1>1
    <3> QED BY ONLY <3>1, j \in 1 .. Len(qs[p]), WithoutElements
  <2> QED BY <1>1, <2>1
<1>3. ASSUME Holds(rest, x, q) PROVE Holds(qs, x, q)
  <2>1. PICK n \in 1 .. Len(rest[q]) : rest[q][n] = x
    BY <1>3 DEF Holds
  <2>2. CASE q # p
    BY <1>1, <2>1, <2>2 DEF Holds
  <2>3. CASE q = p
    <3>1. n \in 1 .. Len(qs[p]) - 1 /\ n \in 1 .. Len(qs[p]) /\ n + 1 \in 1 .. Len(qs[p])
      BY <1>1, <1>2, <2>3
    <3>2. qs[p][n] = x \/ qs[p][n + 1] = x
      BY <1>2, <2>1, <2>3, <3>1
    <3> QED BY <2>3, <3>1, <3>2 DEF Holds
  <2> QED BY <2>2, <2>3
<1>4. ASSUME Holds(rest, x, q) PROVE x # qs[p][j]
  <2>1. Lacks(Self, rest, Self[qs[p][j]])
    BY RemoveApart
  <2>2. PICK n \in 1 .. Len(rest[q]) : rest[q][n] = x
    BY <1>4 DEF Holds
  <2>3. Self[x] # Self[qs[p][j]]
    BY <2>1, <2>2 DEF Lacks
  <2> QED BY <2>3
<1>5. ASSUME Holds(qs, x, q), x # qs[p][j] PROVE Holds(rest, x, q)
  <2>1. PICK n \in 1 .. Len(qs[q]) : qs[q][n] = x
    BY <1>5 DEF Holds
  <2>2. CASE q # p
    BY <1>1, <2>1, <2>2 DEF Holds
  <2>3. CASE q = p /\ n < j
    <3>1. n \in 1 .. Len(qs[p]) - 1 /\ n \in 1 .. Len(rest[p])
      BY <1>1, <1>2, <2>3
    <3>2. rest[p][n] = x
      BY <1>2, <2>1, <2>3, <3>1
    <3> QED BY <2>3, <3>1, <3>2 DEF Holds
  <2>4. CASE q = p /\ ~ n < j
    <3>1. n # j
      BY <1>5, <2>1, <2>4
    <3>2. /\ n - 1 \in 1 .. Len(qs[p]) - 1 /\ n - 1 \in 1 .. Len(rest[p])
          /\ ~ n - 1 < j /\ (n - 1) + 1 = n
      BY <1>1, <1>2, <2>4, <3>1
    <3>3. rest[p][n - 1] = qs[p][n]
      BY <1>2, <3>2
    <3> QED BY <2>1, <2>4, <3>2, <3>3 DEF Holds
  <2> QED BY <2>2, <2>3, <2>4
<1> QED BY <1>3, <1>4, <1>5

\* A value that no list holds is not in any position.
LEMMA NotHeldLacks ==
  ASSUME NEW qs \in Lists, NEW i \in Items, \A p \in Priorities : ~ Holds(qs, i, p)
  PROVE  Lacks(Self, qs, Self[i])
<1>1. ASSUME NEW q \in Priorities, NEW n \in 1 .. Len(qs[q]) PROVE Self[qs[q][n]] # Self[i]
  <2>1. qs[q][n] \in Items
    BY ElementOfSeq DEF Lists
  <2> QED BY <2>1, SelfIs DEF Holds
<1> QED BY <1>1 DEF Lacks

\* Produce of a new key adds its value to the list of its priority.
LEMMA EnqueueNewHolds ==
  ASSUME Inv, ListsMatch, NEW i \in Items, NEW p \in Priorities, EnqueueNew(i, p),
         item[i] = "checked"
  PROVE  /\ Apart(Self, queues')
         /\ HoldsAlso(queues', queues, i, p)
<1>1. queues \in Lists /\ queues' = [queues EXCEPT ![p] = Append(@, i)]
  BY ApartIs DEF Inv, EnqueueNew
<1>2. Lacks(Self, queues, Self[i])
  BY <1>1, NotHeldLacks DEF ListsMatch
<1> QED BY <1>1, <1>2, AddApart, HoldsAfterAdd DEF ListsMatch

\* Produce of a key that waits replaces its value by the new one, at the smaller
\* of the two priorities.
LEMMA EnqueueAgainHolds ==
  ASSUME Inv, ListsMatch, NEW i \in Items, NEW p \in Priorities, EnqueueAgain(i, p),
         item[i] = "checked"
  PROVE  /\ Apart(Self, queues')
         /\ \E old \in Items, o \in Priorities, rest \in Lists :
              /\ Holds(queues, old, o) /\ Key[old] = Key[i] /\ old # i
              /\ item' = [item EXCEPT ![i] = "queued", ![old] = "superseded"]
              /\ Smaller(o, p) \in Priorities /\ Smaller(o, p) <= o
              /\ HoldsBut(rest, queues, old) /\ HoldsAlso(queues', rest, i, Smaller(o, p))
<1>1. queues \in Lists
  BY ApartIs DEF Inv
<1>2. PICK pos \in PositionsOf(Key[i]), rest \in Lists :
        /\ pos[1] \in Priorities /\ pos[2] \in 1 .. Len(queues[pos[1]])
        /\ ItemAt(pos) \in Items /\ Key[ItemAt(pos)] = Key[i]
        /\ rest = [queues EXCEPT ![pos[1]] = Without(@, pos[2])]
        /\ Smaller(pos[1], p) \in Priorities
        /\ queues' = [rest EXCEPT ![Smaller(pos[1], p)] = Append(@, i)]
        /\ item' = [item EXCEPT ![i] = "queued", ![ItemAt(pos)] = "superseded"]
  BY EnqueueAgainIs DEF Inv
<1>3. Holds(queues, ItemAt(pos), pos[1]) /\ ItemAt(pos) # i
  BY <1>2 DEF Holds, ItemAt, ListsMatch
<1>4. Smaller(pos[1], p) <= pos[1]
  BY <1>2, SmallerProperties DEF Priorities
<1>5. Apart(Self, rest) /\ HoldsBut(rest, queues, ItemAt(pos))
  BY <1>1, <1>2, RemoveApart, HoldsAfterRemove DEF ListsMatch, ItemAt
<1>6. Lacks(Self, rest, Self[i])
  <2>1. \A q \in Priorities : ~ Holds(rest, i, q)
    BY <1>5 DEF ListsMatch, HoldsBut
  <2> QED BY <2>1, NotHeldLacks
<1>7. Apart(Self, queues') /\ HoldsAlso(queues', rest, i, Smaller(pos[1], p))
  BY <1>2, <1>5, <1>6, AddApart, HoldsAfterAdd
<1> QED BY <1>2, <1>3, <1>4, <1>5, <1>7

\* ConsumeAsync removes a value of the first list that is not empty.
LEMMA TakeFirstHolds ==
  ASSUME Inv, ListsMatch, NEW c \in Calls, TakeFirst(c)
  PROVE  /\ Apart(Self, queues')
         /\ \E taken \in Items :
              /\ firstAvailablePriority \in Priorities
              /\ Holds(queues, taken, firstAvailablePriority)
              /\ item' = [item EXCEPT ![taken] = "delivered"]
              /\ result' = [result EXCEPT ![c] = taken]
              /\ HoldsBut(queues', queues, taken)
              /\ \A x \in Items, q \in Priorities :
                   Holds(queues, x, q) => firstAvailablePriority <= q
<1> DEFINE p == firstAvailablePriority
           taken == Head(queues[p])
<1>1. /\ p \in Priorities /\ 1 \in 1 .. Len(queues[p])
      /\ taken = queues[p][1] /\ queues[p][1] \in Items
      /\ [queues EXCEPT ![p] = Without(@, 1)] \in Lists
      /\ queues' = [queues EXCEPT ![p] = Without(@, 1)]
      /\ \A q \in Priorities : q < p => queues[q] = <<>>
  BY TakeFirstIs
<1>2. queues \in Lists /\ queues' \in Lists
  BY <1>1, ApartIs DEF Inv
<1>3. Holds(queues, taken, p)
  BY <1>1 DEF Holds
<1>4. item' = [item EXCEPT ![taken] = "delivered"] /\ result' = [result EXCEPT ![c] = taken]
  BY DEF TakeFirst
<1> HIDE DEF p, taken
<1>5. Apart(Self, queues') /\ HoldsBut(queues', queues, taken)
  BY <1>1, <1>2, RemoveApart, HoldsAfterRemove DEF ListsMatch
<1>6. ASSUME NEW x \in Items, NEW q \in Priorities, Holds(queues, x, q) PROVE p <= q
  <2>1. queues[q] # <<>>
    BY <1>6 DEF Holds
  <2> QED BY <1>1, <2>1 DEF Priorities
<1> QED BY <1>1, <1>3, <1>4, <1>5, <1>6 DEF p

-----------------------------------------------------------------------------
(* Places is an invariant.                                                 *)

\* No value and no Pending is anywhere at first.
LEMMA InitPlaces == Init => Places
<1> SUFFICES ASSUME Init PROVE Places
  OBVIOUS
<1>1. ListsMatch
  <2>1. \A p \in Priorities : queues[p] = <<>> /\ Len(queues[p]) = 0
    BY DEF Init
  <2> QED BY <2>1 DEF Init, ListsMatch, Apart, Holds
<1>2. WorkItemsMatch /\ ResultsMatch
  BY DEF Init, WorkItemsMatch, ResultsMatch
<1>3. WaitersMatch
  BY DEF Init, WaitersMatch, Held
<1> QED BY <1>1, <1>2, <1>3 DEF Places

\* Produce moves a value into a list, and the one it replaces out of it.
LEMMA EnqueuePlaces ==
  ASSUME Inv, Places, NEW i \in Items, EnqueueItem(i)
  PROVE  Places'
<1>1. PICK p \in Priorities : EnqueueNew(i, p) \/ EnqueueAgain(i, p)
  BY DEF EnqueueItem
<1>2. /\ item[i] = "checked" /\ ListsMatch /\ item \in [Items -> ItemStates]
      /\ UNCHANGED <<pendingTasks, call, result, workItems>>
  BY DEF EnqueueItem, Places, Inv, TypeOK
<1>3. CASE EnqueueNew(i, p)
  <2>1. Apart(Self, queues') /\ HoldsAlso(queues', queues, i, p)
    BY <1>2, <1>3, EnqueueNewHolds
  <2>2. item' = [item EXCEPT ![i] = "queued"]
    BY <1>3 DEF EnqueueNew
  <2>3. ListsMatch'
    BY <1>2, <2>1, <2>2 DEF ListsMatch, HoldsAlso
  <2>4. WorkItemsMatch' /\ ResultsMatch' /\ WaitersMatch'
    BY <1>2, <2>2 DEF Places, WorkItemsMatch, ResultsMatch, WaitersMatch, Held, Waiting
  <2> QED BY <2>3, <2>4 DEF Places
<1>4. CASE EnqueueAgain(i, p)
  <2>1. Apart(Self, queues')
    BY <1>2, <1>4, EnqueueAgainHolds
  <2>2. PICK old \in Items, o \in Priorities, rest \in Lists :
          /\ Holds(queues, old, o) /\ old # i
          /\ item' = [item EXCEPT ![i] = "queued", ![old] = "superseded"]
          /\ Smaller(o, p) \in Priorities
          /\ HoldsBut(rest, queues, old) /\ HoldsAlso(queues', rest, i, Smaller(o, p))
    BY <1>2, <1>4, EnqueueAgainHolds
  <2>3. item[old] = "queued"
    BY <1>2, <2>2 DEF ListsMatch
  <2>4. ListsMatch'
    <3>1. ASSUME NEW x \in Items
          PROVE  item'[x] = "queued" <=> \E q \in Priorities : Holds(queues', x, q)
      <4>1. CASE x = i
        BY <1>2, <2>2, <4>1 DEF HoldsAlso
      <4>2. CASE x # i
        <5>1. \A q \in Priorities : Holds(queues', x, q) <=> Holds(queues, x, q) /\ x # old
          BY <2>2, <4>2 DEF HoldsAlso, HoldsBut
        <5> QED BY <1>2, <2>2, <4>2, <5>1 DEF ListsMatch
      <4> QED BY <4>1, <4>2
    <3> QED BY <2>1, <3>1 DEF ListsMatch
  <2>5. WorkItemsMatch' /\ ResultsMatch' /\ WaitersMatch'
    BY <1>2, <2>2, <2>3 DEF Places, WorkItemsMatch, ResultsMatch, WaitersMatch, Held, Waiting
  <2> QED BY <2>4, <2>5 DEF Places
<1> QED BY <1>1, <1>3, <1>4

\* ConsumeAsync moves a value out of its list, to its own result.
LEMMA TakeFirstPlaces ==
  ASSUME Inv, Places, NEW c \in Calls, TakeFirst(c)
  PROVE  Places'
<1>1. PICK taken \in Items :
        /\ firstAvailablePriority \in Priorities
        /\ Holds(queues, taken, firstAvailablePriority)
        /\ item' = [item EXCEPT ![taken] = "delivered"]
        /\ result' = [result EXCEPT ![c] = taken]
        /\ HoldsBut(queues', queues, taken)
  BY TakeFirstHolds DEF Places
<1>2. Apart(Self, queues')
  BY TakeFirstHolds DEF Places
<1>3. /\ call[c] = "checked" /\ call' = [call EXCEPT ![c] = "completed"]
      /\ UNCHANGED <<pendingTasks, workItems>> /\ item[taken] = "queued"
      /\ taken # NoItem /\ result[c] = NoItem
  BY <1>1 DEF TakeFirst, Places, ListsMatch, ResultsMatch
<1>4. /\ call \in [Calls -> CallStates] /\ item \in [Items -> ItemStates]
      /\ result \in [Calls -> Items \cup {NoItem}] /\ NoItem \notin Items
      /\ pendingTasks \in Seq(Calls) /\ workItems \subseteq Calls \X Items
  BY DEF Inv, TypeOK
<1>5. ListsMatch'
  BY <1>1, <1>2, <1>3, <1>4 DEF Places, ListsMatch, HoldsBut
<1>6. WorkItemsMatch'
  BY <1>1, <1>3, <1>4 DEF Places, WorkItemsMatch
<1>7. ResultsMatch'
  BY <1>1, <1>3, <1>4 DEF Places, ResultsMatch
<1>8. WaitersMatch'
  <2>1. \A n \in DOMAIN pendingTasks : pendingTasks[n] \in Calls
    BY <1>4, ElementOfSeq, LenProperties
  <2> QED BY <1>3, <1>4, <2>1 DEF Places, WaitersMatch, Held, Waiting
<1> QED BY <1>5, <1>6, <1>7, <1>8 DEF Places

\* Dequeuing the first Pending leaves the others where they are.
LEMMA WaitersTail ==
  ASSUME Inv, WaitersMatch, pendingTasks # <<>>, pendingTasks' = Tail(pendingTasks)
  PROVE  \E c \in Calls :
         /\ c = Head(pendingTasks) /\ Waiting(c) /\ ~ Waiting(c)'
         /\ call[c] \in {"pending", "registered", "canceled"}
         /\ \A d \in Calls : d # c => (Waiting(d)' <=> Waiting(d))
         /\ \A m, n \in DOMAIN pendingTasks' : pendingTasks'[m] = pendingTasks'[n] => m = n
         /\ \A n \in DOMAIN pendingTasks' :
              /\ pendingTasks'[n] \in Calls /\ pendingTasks'[n] # c
              /\ call[pendingTasks'[n]] \in {"pending", "registered", "canceled"}
<1>0. PICK c \in Calls : c = Head(pendingTasks)
  BY HeadTailProperties DEF Inv, TypeOK
<1>1. pendingTasks \in Seq(Calls) /\ \A n \in DOMAIN pendingTasks : pendingTasks[n] \in Calls
  BY ElementOfSeq, LenProperties DEF Inv, TypeOK
<1>2. /\ Len(pendingTasks) \in Nat /\ 1 \in 1 .. Len(pendingTasks)
      /\ DOMAIN pendingTasks = 1 .. Len(pendingTasks)
      /\ c = pendingTasks[1]
      /\ DOMAIN pendingTasks' = 1 .. Len(pendingTasks) - 1
      /\ \A n \in 1 .. Len(pendingTasks) - 1 : pendingTasks'[n] = pendingTasks[n + 1]
  BY <1>0, <1>1, TailIsWithout, HeadTailProperties, LenProperties
<1>3. /\ \A n \in DOMAIN pendingTasks' :
           n \in Int /\ n + 1 \in DOMAIN pendingTasks /\ n + 1 # 1
      /\ \A n \in DOMAIN pendingTasks :
           n = 1 \/ (n - 1 \in DOMAIN pendingTasks' /\ (n - 1) + 1 = n)
      /\ \A n \in DOMAIN pendingTasks' : pendingTasks'[n] = pendingTasks[n + 1]
  BY <1>2
<1>4. Waiting(c) /\ call[c] \in {"pending", "registered", "canceled"}
  BY <1>2 DEF Waiting, WaitersMatch
<1>5. \A n \in DOMAIN pendingTasks' :
        /\ pendingTasks'[n] \in Calls /\ pendingTasks'[n] # c
        /\ call[pendingTasks'[n]] \in {"pending", "registered", "canceled"}
  BY <1>1, <1>2, <1>3 DEF WaitersMatch
<1>6. \A m, n \in DOMAIN pendingTasks' : pendingTasks'[m] = pendingTasks'[n] => m = n
  BY <1>3 DEF WaitersMatch
<1>7. ASSUME NEW d \in Calls, d # c PROVE Waiting(d)' <=> Waiting(d)
  <2>1. ASSUME Waiting(d) PROVE Waiting(d)'
    <3>1. PICK n \in DOMAIN pendingTasks : pendingTasks[n] = d
      BY <2>1 DEF Waiting
    <3>2. n - 1 \in DOMAIN pendingTasks' /\ (n - 1) + 1 = n
      BY <1>2, <1>3, <1>7, <3>1
    <3> QED BY <1>3, <3>1, <3>2 DEF Waiting
  <2>2. ASSUME Waiting(d)' PROVE Waiting(d)
    BY <1>3, <2>2 DEF Waiting
  <2> QED BY <2>1, <2>2
<1>8. ~ Waiting(c)'
  BY <1>5 DEF Waiting
<1> QED BY <1>0, <1>4, <1>5, <1>6, <1>7, <1>8

\* Produce releases the first Pending, or finds that it was released before.
LEMMA HandToWaiterPlaces ==
  ASSUME Inv, Places, NEW i \in Items, HandToWaiter(i)
  PROVE  Places'
<1>1. /\ item[i] = "checked" /\ pendingTasks # <<>> /\ pendingTasks' = Tail(pendingTasks)
      /\ UNCHANGED <<queues, result>>
  BY DEF HandToWaiter
<1>2. /\ call \in [Calls -> CallStates] /\ item \in [Items -> ItemStates]
      /\ workItems \subseteq Calls \X Items
  BY DEF Inv, TypeOK
<1>3. PICK c \in Calls :
      /\ c = Head(pendingTasks) /\ ~ Waiting(c)'
      /\ call[c] \in {"pending", "registered", "canceled"}
      /\ \A d \in Calls : d # c => (Waiting(d)' <=> Waiting(d))
      /\ \A m, n \in DOMAIN pendingTasks' : pendingTasks'[m] = pendingTasks'[n] => m = n
      /\ \A n \in DOMAIN pendingTasks' :
           /\ pendingTasks'[n] \in Calls /\ pendingTasks'[n] # c
           /\ call[pendingTasks'[n]] \in {"pending", "registered", "canceled"}
  BY <1>1, WaitersTail DEF Places
<1>5. CASE Held(c)
  <2>1. /\ call' = [call EXCEPT ![c] = "released"] /\ item' = [item EXCEPT ![i] = "handed"]
        /\ workItems' = workItems \cup {<<c, i>>}
    BY <1>3, <1>5 DEF HandToWaiter
  <2>2. call[c] # "released" /\ call[c] # "completed"
    BY <1>5 DEF Held
  <2>3. ListsMatch'
    BY <1>1, <1>2, <2>1 DEF Places, ListsMatch
  <2>4. WorkItemsMatch'
    <3>1. ASSUME NEW w \in workItems
          PROVE  w[1] \in Calls /\ w[2] \in Items /\ w[1] # c /\ w[2] # i
      <4>1. w[1] \in Calls /\ w[2] \in Items
        BY <1>2
      <4>2. item[w[2]] = "handed" /\ call[w[1]] = "released"
        BY <4>1 DEF Places, WorkItemsMatch
      <4> QED BY <1>1, <2>2, <4>1, <4>2
    <3>2. call'[c] = "released" /\ \A w \in workItems : call'[w[1]] = "released"
      BY <1>2, <1>3, <2>1, <3>1 DEF Places, WorkItemsMatch
    <3>3. \A v, w \in workItems' : v[1] = w[1] \/ v[2] = w[2] => v = w
      BY <2>1, <3>1 DEF Places, WorkItemsMatch
    <3>4. ASSUME NEW x \in Items
          PROVE  item'[x] = "handed" <=> \E w \in workItems' : w[2] = x
      <4>1. CASE x = i
        <5>1. <<c, i>> \in workItems' /\ <<c, i>>[2] = x /\ item'[x] = "handed"
          BY <1>2, <2>1, <4>1
        <5> QED BY <5>1
      <4>2. CASE x # i
        <5>1. item'[x] = item[x] /\ \A w \in workItems' : w \in workItems \/ w[2] # x
          BY <1>2, <2>1, <4>2
        <5>2. workItems \subseteq workItems'
          BY <2>1
        <5> QED BY <5>1, <5>2 DEF Places, WorkItemsMatch
      <4> QED BY <4>1, <4>2
    <3> QED BY <2>1, <3>2, <3>3, <3>4 DEF WorkItemsMatch
  <2>5. ResultsMatch'
    BY <1>1, <1>2, <1>3, <2>1, <2>2 DEF Places, ResultsMatch
  <2>6. WaitersMatch'
    BY <1>2, <1>3, <2>1 DEF Places, WaitersMatch, Held
  <2> QED BY <2>3, <2>4, <2>5, <2>6 DEF Places
<1>6. CASE ~ Held(c)
  <2>1. item' = [item EXCEPT ![i] = "dropped"] /\ UNCHANGED <<call, workItems>>
    BY <1>3, <1>6 DEF HandToWaiter
  <2>2. ListsMatch' /\ WorkItemsMatch' /\ ResultsMatch'
    BY <1>1, <1>2, <2>1 DEF Places, ListsMatch, WorkItemsMatch, ResultsMatch
  <2>3. WaitersMatch'
    BY <1>3, <1>6, <2>1 DEF Places, WaitersMatch, Held
  <2> QED BY <2>2, <2>3 DEF Places
<1> QED BY <1>5, <1>6

\* A Pending that is added to _pendingTasks leaves the others where they are.
LEMMA WaitersAppend ==
  ASSUME TypeOK, NEW c \in Calls, pendingTasks' = Append(pendingTasks, c)
  PROVE  Waiting(c)' /\ \A d \in Calls : d # c => (Waiting(d)' <=> Waiting(d))
<1>1. /\ Len(pendingTasks) \in Nat /\ DOMAIN pendingTasks = 1 .. Len(pendingTasks)
      /\ DOMAIN pendingTasks' = 1 .. Len(pendingTasks) + 1
      /\ pendingTasks'[Len(pendingTasks) + 1] = c
      /\ \A n \in DOMAIN pendingTasks : pendingTasks'[n] = pendingTasks[n]
  BY AppendProperties, LenProperties DEF TypeOK
<1>2. \A n \in DOMAIN pendingTasks' : n \in DOMAIN pendingTasks \/ n = Len(pendingTasks) + 1
  BY <1>1
<1>3. /\ DOMAIN pendingTasks \subseteq DOMAIN pendingTasks'
      /\ Len(pendingTasks) + 1 \in DOMAIN pendingTasks'
  BY <1>1
<1> QED BY <1>1, <1>2, <1>3 DEF Waiting

\* A call that waits is added to _pendingTasks.
LEMMA WaitPlaces ==
  ASSUME Inv, Places, NEW c \in Calls, Wait(c)
  PROVE  Places'
<1>1. /\ call[c] = "checked" /\ call' = [call EXCEPT ![c] = "pending"]
      /\ pendingTasks' = Append(pendingTasks, c)
      /\ UNCHANGED <<queues, item, result, workItems>>
  BY DEF Wait
<1>2. /\ call \in [Calls -> CallStates] /\ item \in [Items -> ItemStates]
      /\ pendingTasks \in Seq(Calls) /\ workItems \subseteq Calls \X Items
  BY DEF Inv, TypeOK
<1>3. ListsMatch' /\ WorkItemsMatch' /\ ResultsMatch'
  BY <1>1, <1>2 DEF Places, ListsMatch, WorkItemsMatch, ResultsMatch
<1>4. WaitersMatch'
  <2>1. /\ Len(pendingTasks) \in Nat /\ DOMAIN pendingTasks = 1 .. Len(pendingTasks)
        /\ DOMAIN pendingTasks' = 1 .. Len(pendingTasks) + 1
        /\ pendingTasks'[Len(pendingTasks) + 1] = c
        /\ \A n \in DOMAIN pendingTasks : pendingTasks'[n] = pendingTasks[n]
    BY <1>1, <1>2, AppendProperties, LenProperties
  <2>2. \A n \in DOMAIN pendingTasks : pendingTasks[n] \in Calls /\ pendingTasks[n] # c
    BY <1>1, <1>2, ElementOfSeq, LenProperties DEF Places, WaitersMatch
  <2>3. \A n \in DOMAIN pendingTasks' : n \in DOMAIN pendingTasks \/ n = Len(pendingTasks) + 1
    BY <2>1
  <2>4. DOMAIN pendingTasks \subseteq DOMAIN pendingTasks'
        /\ Len(pendingTasks) + 1 \in DOMAIN pendingTasks'
    BY <2>1
  <2>5. \A m, n \in DOMAIN pendingTasks' : pendingTasks'[m] = pendingTasks'[n] => m = n
    BY <2>1, <2>2, <2>3 DEF Places, WaitersMatch
  <2>6. \A n \in DOMAIN pendingTasks' :
          call'[pendingTasks'[n]] \in {"pending", "registered", "canceled"}
    BY <1>1, <1>2, <2>1, <2>2, <2>3 DEF Places, WaitersMatch
  <2>7. \A d \in Calls : Held(d)' => Waiting(d)'
    BY <1>1, <1>2, <2>1, <2>4 DEF Places, WaitersMatch, Held, Waiting
  <2> QED BY <2>5, <2>6, <2>7 DEF WaitersMatch
<1> QED BY <1>3, <1>4 DEF Places

\* A work item ends the call it was queued for.
LEMMA ConsumeCallbackPlaces ==
  ASSUME Inv, Places, NEW c \in Calls, NEW i \in Items, ConsumeCallback(c, i)
  PROVE  Places'
<1>1. /\ <<c, i>> \in workItems /\ workItems' = workItems \ {<<c, i>>}
      /\ call' = [call EXCEPT ![c] = "completed"] /\ result' = [result EXCEPT ![c] = i]
      /\ item' = [item EXCEPT ![i] = "delivered"] /\ UNCHANGED <<queues, pendingTasks>>
  BY DEF ConsumeCallback
<1>2. /\ call \in [Calls -> CallStates] /\ item \in [Items -> ItemStates]
      /\ result \in [Calls -> Items \cup {NoItem}] /\ NoItem \notin Items
      /\ pendingTasks \in Seq(Calls) /\ workItems \subseteq Calls \X Items
  BY DEF Inv, TypeOK
<1>3. call[c] = "released" /\ item[i] = "handed" /\ result[c] = NoItem
  BY <1>1 DEF Places, WorkItemsMatch, ResultsMatch
<1>4. ListsMatch'
  BY <1>1, <1>2, <1>3 DEF Places, ListsMatch
<1>5. WorkItemsMatch'
  <2>1. \A w \in workItems' : w[1] \in Calls /\ w[2] \in Items /\ w[1] # c /\ w[2] # i
    BY <1>1, <1>2 DEF Places, WorkItemsMatch
  <2>2. \A w \in workItems : w # <<c, i>> => w \in workItems'
    BY <1>1
  <2> QED BY <1>1, <1>2, <1>3, <2>1, <2>2 DEF Places, WorkItemsMatch
<1>6. ResultsMatch'
  BY <1>1, <1>2, <1>3 DEF Places, ResultsMatch
<1>7. WaitersMatch'
  <2>1. \A n \in DOMAIN pendingTasks : pendingTasks[n] \in Calls
    BY <1>2, ElementOfSeq, LenProperties
  <2> QED BY <1>1, <1>2, <1>3, <2>1 DEF Places, WaitersMatch, Held, Waiting
<1> QED BY <1>4, <1>5, <1>6, <1>7 DEF Places

\* Every step takes a value and a Pending from one place to the next.
LEMMA NextPlaces == Inv /\ Places /\ [Next]_vars => Places'
<1> SUFFICES ASSUME Inv, Places, [Next]_vars PROVE Places'
  OBVIOUS
<1>1. /\ call \in [Calls -> CallStates] /\ item \in [Items -> ItemStates]
      /\ pendingTasks \in Seq(Calls) /\ workItems \subseteq Calls \X Items
      /\ \A n \in DOMAIN pendingTasks : pendingTasks[n] \in Calls
  BY ElementOfSeq, LenProperties DEF Inv, TypeOK
<1> USE DEF Places, ListsMatch, WorkItemsMatch, ResultsMatch, WaitersMatch, Held, Waiting
<1>2. ASSUME NEW i \in Items, BeginProduce(i) PROVE Places'
  BY <1>1, <1>2 DEF BeginProduce
<1>3. ASSUME NEW c \in Calls, BeginConsume(c) PROVE Places'
  BY <1>1, <1>3 DEF BeginConsume
<1>4. ASSUME NEW c \in Calls, RegisterCancellation(c) PROVE Places'
  BY <1>1, <1>4 DEF RegisterCancellation
<1>5. ASSUME NEW c \in Calls, CancelCallback(c) PROVE Places'
  BY <1>1, <1>5 DEF CancelCallback
<1>6. CASE UNCHANGED <<queues, pendingTasks, item, call, result, workItems>>
  BY <1>6
<1> QED
  BY <1>2, <1>3, <1>4, <1>5, <1>6, EnqueuePlaces, TakeFirstPlaces, HandToWaiterPlaces,
     WaitPlaces, ConsumeCallbackPlaces
  DEF Next, vars, ProduceNext, ConsumeNext, Dispose, CancelToken

\* Where every value and every Pending is agrees with the state of its call.
THEOREM PlacesHold == Spec => []Places
<1> QED BY InitPlaces, NextPlaces, InvHolds, PTL DEF Spec

-----------------------------------------------------------------------------
(* The values of each call.                                                *)

\* A set whose members are all the same has at most one.
LEMMA AtMostOne ==
  ASSUME NEW S, \A x, y \in S : x = y
  PROVE  IsFiniteSet(S) /\ Cardinality(S) = IF S = {} THEN 0 ELSE 1
<1>1. CASE S = {}
  BY <1>1, FS_EmptySet
<1>2. CASE S # {}
  <2>1. PICK x \in S : S = {x}
    BY <1>2
  <2> QED BY <1>2, <2>1, FS_Singleton
<1> QED BY <1>1, <1>2

\* The positions are where the lists hold their values, each value at one.
LEMMA PositionsHold ==
  ASSUME TypeOK, ListsMatch
  PROVE  /\ \A i \in Items : item[i] = "queued" <=> \E pos \in Positions : ItemAt(pos) = i
         /\ \A pos1, pos2 \in Positions : ItemAt(pos1) = ItemAt(pos2) => pos1 = pos2
<1>1. \A p \in Priorities : DOMAIN queues[p] = 1 .. Len(queues[p])
  BY LenProperties DEF TypeOK
<1>2. /\ \A pos \in Positions :
           /\ pos = <<pos[1], pos[2]>> /\ pos[1] \in Priorities
           /\ pos[2] \in 1 .. Len(queues[pos[1]]) /\ ItemAt(pos) \in Items
      /\ \A p \in Priorities : \A n \in 1 .. Len(queues[p]) : <<p, n>> \in Positions
  BY <1>1, PositionType DEF Positions
<1>3. ASSUME NEW pos1 \in Positions, NEW pos2 \in Positions, ItemAt(pos1) = ItemAt(pos2)
      PROVE  pos1 = pos2
  <2>1. Self[queues[pos1[1]][pos1[2]]] = Self[queues[pos2[1]][pos2[2]]]
    BY <1>3 DEF ItemAt
  <2>2. pos1[1] = pos2[1] /\ pos1[2] = pos2[2]
    BY <1>2, <2>1 DEF ListsMatch, Apart
  <2> QED BY <1>2, <2>2
<1>4. ASSUME NEW i \in Items
      PROVE  (\E p \in Priorities : Holds(queues, i, p)) <=> \E pos \in Positions : ItemAt(pos) = i
  BY <1>2 DEF Holds, ItemAt
<1> QED BY <1>3, <1>4 DEF ListsMatch

\* A produced value is in exactly one place, its state says in which, and no
\* value is delivered twice, for any number of values, calls and priorities.
THEOREM OnePlace == Spec => []EachItemInOnePlace
<1>1. TypeOK /\ Places => EachItemInOnePlace
  <2> SUFFICES ASSUME TypeOK, Places, NEW i \in Items
               PROVE  /\ Cardinality({pos \in Positions : ItemAt(pos) = i})
                           = (IF item[i] = "queued" THEN 1 ELSE 0)
                      /\ Cardinality({w \in workItems : w[2] = i})
                           = (IF item[i] = "handed" THEN 1 ELSE 0)
                      /\ Cardinality({c \in Calls : result[c] = i})
                           = (IF item[i] = "delivered" THEN 1 ELSE 0)
    BY DEF EachItemInOnePlace
  <2>1. i # NoItem
    OBVIOUS
  <2> DEFINE P == {pos \in Positions : ItemAt(pos) = i}
             W == {w \in workItems : w[2] = i}
             C == {c \in Calls : result[c] = i}
  <2>2. (\A x, y \in P : x = y) /\ (P = {} <=> item[i] # "queued")
    BY PositionsHold DEF Places
  <2>3. (\A x, y \in W : x = y) /\ (W = {} <=> item[i] # "handed")
    BY DEF Places, WorkItemsMatch
  <2>4. (\A x, y \in C : x = y) /\ (C = {} <=> item[i] # "delivered")
    BY <2>1 DEF Places, ResultsMatch
  <2>5. Cardinality(P) = IF P = {} THEN 0 ELSE 1
    BY <2>2, AtMostOne
  <2>6. Cardinality(W) = IF W = {} THEN 0 ELSE 1
    BY <2>3, AtMostOne
  <2>7. Cardinality(C) = IF C = {} THEN 0 ELSE 1
    BY <2>4, AtMostOne
  <2> QED BY <2>2, <2>3, <2>4, <2>5, <2>6, <2>7
<1> QED BY <1>1, PlacesHold, TypeCorrect, PTL

\* The set D is finite and has no more members than G.
NotMore(D, G) == IsFiniteSet(D) /\ IsFiniteSet(G) /\ Cardinality(D) <= Cardinality(G)

\* What loses a value at most with each cancellation loses no more than there are.
LEMMA NotMoreGrows ==
  ASSUME NEW D, NEW G, NotMore(D, G), NEW x, NEW y
  PROVE  NotMore(D, G \cup {y}) /\ (y \notin G => NotMore(D \cup {x}, G \cup {y}))
<1>1. Cardinality(D) \in Nat /\ Cardinality(G) \in Nat
  BY FS_CardinalityType DEF NotMore
<1>2. /\ IsFiniteSet(G \cup {y})
      /\ Cardinality(G \cup {y}) = IF y \in G THEN Cardinality(G) ELSE Cardinality(G) + 1
  BY FS_AddElement DEF NotMore
<1>3. /\ IsFiniteSet(D \cup {x})
      /\ Cardinality(D \cup {x}) = IF x \in D THEN Cardinality(D) ELSE Cardinality(D) + 1
  BY FS_AddElement DEF NotMore
<1> QED BY <1>1, <1>2, <1>3 DEF NotMore

\* At most one value is lost for each waiter that was cancelled and is no
\* longer in _pendingTasks.
THEOREM OneLoss == Spec => []OneLossPerCancellation
<1> DEFINE dropped == {i \in Items : item[i] = "dropped"}
           gone == {c \in Calls : call[c] = "canceled" /\ ~ Waiting(c)}
           Losses == NotMore(dropped, gone)
<1>1. Init => Losses
  <2> SUFFICES ASSUME Init PROVE dropped = {} /\ gone = {}
    BY FS_EmptySet DEF NotMore
  <2> QED BY DEF Init
<1>2. Inv /\ Places /\ Losses /\ [Next]_vars => Losses'
  <2> SUFFICES ASSUME Inv, Places, Losses, [Next]_vars PROVE Losses'
    OBVIOUS
  <2>1. /\ call \in [Calls -> CallStates] /\ item \in [Items -> ItemStates]
        /\ workItems \subseteq Calls \X Items
        /\ \A c \in Calls : Waiting(c) => call[c] \in {"pending", "registered", "canceled"}
        /\ \A c \in Calls : Held(c) => Waiting(c)
    BY DEF Inv, TypeOK, Places, WaitersMatch, Waiting
  <2>3. ASSUME dropped' = dropped, gone' = gone PROVE Losses'
    BY <2>3
  <2>4. ASSUME NEW c \in Calls, dropped' = dropped, gone' = gone \cup {c} PROVE Losses'
    <3> HIDE DEF dropped, gone
    <3> QED BY <2>4, NotMoreGrows
  <2>5. ASSUME NEW i \in Items, NEW c \in Calls, c \notin gone,
               dropped' = dropped \cup {i}, gone' = gone \cup {c}
        PROVE  Losses'
    <3> HIDE DEF dropped, gone
    <3> QED BY <2>5, NotMoreGrows
  <2>6. ASSUME NEW i \in Items, BeginProduce(i) PROVE Losses'
    <3>1. dropped' = dropped /\ gone' = gone
      BY <2>1, <2>6 DEF BeginProduce, Waiting
    <3> QED BY <2>3, <3>1
  <2>7. ASSUME NEW i \in Items, HandToWaiter(i) PROVE Losses'
    <3>1. PICK c \in Calls :
          /\ c = Head(pendingTasks) /\ Waiting(c) /\ ~ Waiting(c)'
          /\ call[c] \in {"pending", "registered", "canceled"}
          /\ \A d \in Calls : d # c => (Waiting(d)' <=> Waiting(d))
      BY <2>7, WaitersTail DEF HandToWaiter, Places
    <3>2. CASE Held(c)
      <4>1. /\ item[i] = "checked" /\ item' = [item EXCEPT ![i] = "handed"]
            /\ call' = [call EXCEPT ![c] = "released"]
        BY <2>7, <3>1, <3>2 DEF HandToWaiter
      <4>2. dropped' = dropped /\ gone' = gone
        BY <2>1, <3>1, <4>1
      <4> QED BY <2>3, <4>2
    <3>3. CASE ~ Held(c)
      <4>1. /\ item[i] = "checked" /\ item' = [item EXCEPT ![i] = "dropped"] /\ call' = call
        BY <2>7, <3>1, <3>3 DEF HandToWaiter
      <4>2. call[c] = "canceled"
        BY <3>1, <3>3 DEF Held
      <4>3. dropped' = dropped \cup {i}
        BY <2>1, <4>1
      <4>4. c \notin gone /\ gone' = gone \cup {c}
        BY <2>1, <3>1, <4>1, <4>2
      <4> QED BY <2>5, <3>1, <4>3, <4>4
    <3> QED BY <3>2, <3>3
  <2>8. ASSUME NEW i \in Items, EnqueueItem(i) PROVE Losses'
    <3>1. gone' = gone
      BY <2>8 DEF EnqueueItem, Waiting
    <3>2. PICK p \in Priorities : EnqueueNew(i, p) \/ EnqueueAgain(i, p)
      BY <2>8 DEF EnqueueItem
    <3>3. CASE EnqueueNew(i, p)
      <4>1. dropped' = dropped
        BY <2>1, <2>8, <3>3 DEF EnqueueNew, EnqueueItem
      <4> QED BY <2>3, <3>1, <4>1
    <3>4. CASE EnqueueAgain(i, p)
      <4>1. PICK old \in Items, o \in Priorities :
              /\ Holds(queues, old, o) /\ old # i
              /\ item' = [item EXCEPT ![i] = "queued", ![old] = "superseded"]
        BY <2>8, <3>4, EnqueueAgainHolds DEF EnqueueItem, Places
      <4>2. item[old] = "queued" /\ item[i] = "checked"
        BY <2>8, <4>1 DEF EnqueueItem, Places, ListsMatch
      <4>3. dropped' = dropped
        BY <2>1, <4>1, <4>2
      <4> QED BY <2>3, <3>1, <4>3
    <3> QED BY <3>2, <3>3, <3>4
  <2>9. ASSUME NEW c \in Calls, BeginConsume(c) PROVE Losses'
    <3>1. dropped' = dropped /\ (gone' = gone \/ gone' = gone \cup {c})
      BY <2>1, <2>9 DEF BeginConsume, Waiting
    <3> QED BY <2>3, <2>4, <2>9, <3>1
  <2>10. ASSUME NEW c \in Calls, TakeFirst(c) PROVE Losses'
    <3>1. PICK taken \in Items :
            /\ firstAvailablePriority \in Priorities
            /\ Holds(queues, taken, firstAvailablePriority)
            /\ item' = [item EXCEPT ![taken] = "delivered"]
      BY <2>10, TakeFirstHolds DEF Places
    <3>2. item[taken] = "queued"
      BY <3>1 DEF Places, ListsMatch
    <3>3. dropped' = dropped
      BY <2>1, <3>1, <3>2
    <3>4. gone' = gone
      BY <2>1, <2>10 DEF TakeFirst, Waiting
    <3> QED BY <2>3, <3>3, <3>4
  <2>11. ASSUME NEW c \in Calls, Wait(c) PROVE Losses'
    <3>1. dropped' = dropped
      BY <2>11 DEF Wait
    <3>2. \A d \in Calls : d # c => (Waiting(d)' <=> Waiting(d))
      BY <2>11, WaitersAppend DEF Wait, Inv
    <3>3. gone' = gone
      BY <2>1, <2>11, <3>2 DEF Wait
    <3> QED BY <2>3, <3>1, <3>3
  <2>12. ASSUME NEW c \in Calls, RegisterCancellation(c) PROVE Losses'
    <3>1. dropped' = dropped /\ gone' = gone
      BY <2>1, <2>12 DEF RegisterCancellation, Waiting
    <3> QED BY <2>3, <3>1
  <2>13. ASSUME NEW c \in Calls, CancelCallback(c) PROVE Losses'
    <3>1. dropped' = dropped
      BY <2>13 DEF CancelCallback
    <3>2. Waiting(c) /\ \A d \in Calls : Waiting(d)' <=> Waiting(d)
      BY <2>1, <2>13 DEF CancelCallback, Held, Waiting
    <3>3. gone' = gone
      BY <2>1, <2>13, <3>2 DEF CancelCallback
    <3> QED BY <2>3, <3>1, <3>3
  <2>14. ASSUME NEW c \in Calls, NEW i \in Items, ConsumeCallback(c, i) PROVE Losses'
    <3>1. call[c] = "released" /\ item[i] = "handed"
      BY <2>14 DEF ConsumeCallback, Places, WorkItemsMatch
    <3>2. dropped' = dropped
      BY <2>1, <2>14, <3>1 DEF ConsumeCallback
    <3>3. gone' = gone
      BY <2>1, <2>14, <3>1 DEF ConsumeCallback, Waiting
    <3> QED BY <2>3, <3>2, <3>3
  <2>15. CASE UNCHANGED <<item, call, pendingTasks>>
    <3>1. dropped' = dropped /\ gone' = gone
      BY <2>15 DEF Waiting
    <3> QED BY <2>3, <3>1
  <2> HIDE DEF Losses
  <2> QED
    BY <2>6, <2>7, <2>8, <2>9, <2>10, <2>11, <2>12, <2>13, <2>14, <2>15
    DEF Next, vars, ProduceNext, ConsumeNext, Dispose, CancelToken
<1>3. Losses => OneLossPerCancellation
  BY DEF OneLossPerCancellation, NotMore
<1> HIDE DEF Losses
<1> QED BY <1>1, <1>2, <1>3, InvHolds, PlacesHold, PTL DEF Spec

-----------------------------------------------------------------------------
(* Every step is a step of PriorityQueue.                                  *)

\* The mapping of waiting, for any lists, says which list holds which value.
LEMMA WaitingIs ==
  ASSUME NEW qs \in Lists
  PROVE  {<<qs[pos[1]][pos[2]], pos[1]>> : pos \in UNION {{p} \X DOMAIN qs[p] : p \in Priorities}}
           = {w \in Items \X Priorities : Holds(qs, w[1], w[2])}
<1> DEFINE Pos == UNION {{p} \X DOMAIN qs[p] : p \in Priorities}
<1>1. \A p \in Priorities : DOMAIN qs[p] = 1 .. Len(qs[p]) /\ qs[p] \in Seq(Items)
  BY LenProperties DEF Lists
<1>2. ASSUME NEW pos \in Pos
      PROVE  /\ pos[1] \in Priorities /\ qs[pos[1]][pos[2]] \in Items
             /\ Holds(qs, qs[pos[1]][pos[2]], pos[1])
  <2>1. pos[1] \in Priorities /\ pos[2] \in 1 .. Len(qs[pos[1]])
    BY <1>1
  <2> QED BY <1>1, <2>1, ElementOfSeq DEF Holds
<1>3. ASSUME NEW i \in Items, NEW p \in Priorities, Holds(qs, i, p)
      PROVE  \E pos \in Pos : <<i, p>> = <<qs[pos[1]][pos[2]], pos[1]>>
  <2>1. PICK n \in 1 .. Len(qs[p]) : qs[p][n] = i
    BY <1>3 DEF Holds
  <2>2. <<p, n>> \in Pos
    BY <1>1, <2>1
  <2> QED BY <2>1, <2>2
<1> HIDE DEF Pos
<1>4. {<<qs[pos[1]][pos[2]], pos[1]>> : pos \in Pos}
        = {w \in Items \X Priorities : Holds(qs, w[1], w[2])}
  <2>1. ASSUME NEW w \in {<<qs[pos[1]][pos[2]], pos[1]>> : pos \in Pos}
        PROVE  w \in Items \X Priorities /\ Holds(qs, w[1], w[2])
    BY <1>2
  <2>2. ASSUME NEW w \in Items \X Priorities, Holds(qs, w[1], w[2])
        PROVE  w \in {<<qs[pos[1]][pos[2]], pos[1]>> : pos \in Pos}
    <3>1. w[1] \in Items /\ w[2] \in Priorities /\ w = <<w[1], w[2]>>
      OBVIOUS
    <3> QED BY <1>3, <2>2, <3>1
  <2> QED BY <2>1, <2>2
<1> QED BY <1>4 DEF Pos

\* Of two values of one key, or of one value, the lists hold only one.
LEMMA HeldOnce ==
  ASSUME NEW K, NEW qs, Apart(K, qs), NEW x, NEW y, NEW p \in Priorities, NEW q \in Priorities,
         Holds(qs, x, p), Holds(qs, y, q), K[x] = K[y]
  PROVE  x = y /\ p = q
BY DEF Apart, Holds

\* A value whose key the lists lack is not equal to any they hold.
LEMMA LacksNone ==
  ASSUME NEW K, NEW qs, NEW k, Lacks(K, qs, k), NEW x, NEW p \in Priorities, Holds(qs, x, p)
  PROVE  K[x] # k
BY DEF Lacks, Holds

\* The waiting values are those that the lists hold.
LEMMA WaitingMapped ==
  /\ TypeOK => waitingBar = {w \in Items \X Priorities : Holds(queues, w[1], w[2])}
  /\ TypeOK' => waitingBar' = {w \in Items \X Priorities : Holds(queues', w[1], w[2])}
<1>1. ASSUME TypeOK PROVE waitingBar = {w \in Items \X Priorities : Holds(queues, w[1], w[2])}
  BY <1>1, WaitingIs DEF TypeOK, Lists, waitingBar, Positions, ItemAt
<1>2. ASSUME TypeOK' PROVE waitingBar' = {w \in Items \X Priorities : Holds(queues', w[1], w[2])}
  BY <1>2, WaitingIs DEF TypeOK, Lists, waitingBar, Positions, ItemAt
<1> QED BY <1>1, <1>2

\* What every step of the mapping starts from.
Mapping == Inv /\ Places /\ (ExcludeDuplicates => Apart(Key, queues))

\* An accepted value that is nowhere yet is fresh.
LEMMA CheckedIsFresh ==
  ASSUME Mapping, NEW i \in Items, item[i] = "checked"
  PROVE  Queue!Fresh(i)
<1>1. \A w \in waitingBar : w[1] # i
  BY WaitingMapped DEF Mapping, Inv, Places, ListsMatch
<1>2. i \notin takenBar \cup mergedBar \cup lostBar
  BY DEF takenBar, mergedBar, lostBar
<1> QED BY <1>1, <1>2 DEF Queue!Fresh

\* The bars that depend on calls and waiters only stay as they are.
LEMMA AbandonedKept ==
  ASSUME UNCHANGED <<call, pendingTasks>>
  PROVE  abandonedBar' = abandonedBar
BY DEF abandonedBar, Waiting

\* The locked part of Produce with nobody waiting is Put.
LEMMA EnqueueIsPut ==
  ASSUME Mapping, TypeOK', NEW i \in Items, EnqueueItem(i)
  PROVE  Queue!Put(i)
<1>1. /\ item[i] = "checked" /\ item \in [Items -> ItemStates]
      /\ abandonedBar' = abandonedBar /\ Queue!Fresh(i)
  BY AbandonedKept, CheckedIsFresh DEF EnqueueItem, Mapping, Inv, TypeOK
<1>2. PICK p \in Priorities : EnqueueNew(i, p) \/ EnqueueAgain(i, p)
  BY DEF EnqueueItem
<1>3. /\ waitingBar = {w \in Items \X Priorities : Holds(queues, w[1], w[2])}
      /\ waitingBar' = {w \in Items \X Priorities : Holds(queues', w[1], w[2])}
  BY WaitingMapped DEF Mapping, Inv
<1>4. CASE EnqueueNew(i, p)
  <2>1. item' = [item EXCEPT ![i] = "queued"]
    BY <1>4 DEF EnqueueNew
  <2>2. takenBar' = takenBar /\ mergedBar' = mergedBar /\ lostBar' = lostBar
    BY <1>1, <2>1 DEF takenBar, mergedBar, lostBar
  <2>3. Queue!Equal(i) = {}
    <3> SUFFICES ASSUME NEW w \in waitingBar, ExcludeDuplicates PROVE Key[w[1]] # Key[i]
      BY DEF Queue!Equal
    <3>1. Lacks(Key, queues, Key[i])
      BY <1>4, ApartIs DEF EnqueueNew, Mapping, Inv
    <3> QED BY <1>3, <3>1, LacksNone
  <2>4. HoldsAlso(queues', queues, i, p)
    BY <1>1, <1>4, EnqueueNewHolds DEF Mapping, Places
  <2>5. waitingBar' = waitingBar \cup {<<i, p>>}
    BY <1>3, <2>4 DEF HoldsAlso
  <2> QED BY <1>1, <2>2, <2>3, <2>5 DEF Queue!Put
<1>5. CASE EnqueueAgain(i, p)
  <2>1. PICK old \in Items, o \in Priorities, rest \in Lists :
          /\ Holds(queues, old, o) /\ Key[old] = Key[i] /\ old # i
          /\ item' = [item EXCEPT ![i] = "queued", ![old] = "superseded"]
          /\ Smaller(o, p) \in Priorities /\ Smaller(o, p) <= o
          /\ HoldsBut(rest, queues, old) /\ HoldsAlso(queues', rest, i, Smaller(o, p))
    BY <1>1, <1>5, EnqueueAgainHolds DEF Mapping, Places
  <2>2. item[old] = "queued"
    BY <2>1 DEF Mapping, Places, ListsMatch
  <2>3. takenBar' = takenBar /\ mergedBar' = mergedBar \cup {old} /\ lostBar' = lostBar
    BY <1>1, <2>1, <2>2 DEF takenBar, mergedBar, lostBar
  <2>4. Queue!Equal(i) = {<<old, o>>}
    <3>1. ExcludeDuplicates /\ Apart(Key, queues)
      BY <1>5 DEF EnqueueAgain, Mapping
    <3>2. <<old, o>> \in Queue!Equal(i)
      BY <1>3, <2>1, <3>1 DEF Queue!Equal
    <3>3. ASSUME NEW w \in Queue!Equal(i) PROVE w = <<old, o>>
      <4>1. /\ w \in Items \X Priorities /\ Holds(queues, w[1], w[2]) /\ Key[w[1]] = Key[old]
        BY <1>3, <2>1 DEF Queue!Equal
      <4>2. w[1] = old /\ w[2] = o
        BY <2>1, <3>1, <4>1, HeldOnce
      <4> QED BY <4>1, <4>2
    <3> QED BY <3>2, <3>3
  <2> DEFINE prio == Smaller(o, p)
  <2>5. prio \in Priorities /\ HoldsAlso(queues', rest, i, prio) /\ prio <= o
    BY <2>1
  <2> HIDE DEF prio
  <2>6. waitingBar' = (waitingBar \ {<<old, o>>}) \cup {<<i, prio>>}
    <3>1. ASSUME NEW x \in Items, NEW q \in Priorities
          PROVE  Holds(queues', x, q) <=>
                   (Holds(queues, x, q) /\ <<x, q>> # <<old, o>>) \/ <<x, q>> = <<i, prio>>
      <4>1. Holds(queues', x, q) <=> (Holds(queues, x, q) /\ x # old) \/ (x = i /\ q = prio)
        BY <2>1, <2>5 DEF HoldsBut, HoldsAlso
      <4>2. Holds(queues, x, q) /\ x = old => q = o
        BY <2>1, HeldOnce DEF Mapping, Places, ListsMatch
      <4> QED BY <4>1, <4>2
    <3> QED BY <1>3, <2>5, <3>1
  <2>7. \A w \in Queue!Equal(i) : prio <= w[2]
    BY <2>4, <2>5
  <2>8. mergedBar' = mergedBar \cup {w[1] : w \in Queue!Equal(i)}
    BY <2>3, <2>4
  <2> QED BY <1>1, <2>3, <2>4, <2>5, <2>6, <2>7, <2>8 DEF Queue!Put
<1> QED BY <1>2, <1>4, <1>5

\* The locked part of ConsumeAsync with a value is Take, of a most urgent one.
LEMMA TakeFirstIsTake ==
  ASSUME Mapping, TypeOK', NEW c \in Calls, TakeFirst(c)
  PROVE  \E w \in waitingBar : Queue!Take(w)
<1>1. PICK taken \in Items :
        /\ firstAvailablePriority \in Priorities
        /\ Holds(queues, taken, firstAvailablePriority)
        /\ item' = [item EXCEPT ![taken] = "delivered"]
        /\ HoldsBut(queues', queues, taken)
        /\ \A x \in Items, q \in Priorities :
             Holds(queues, x, q) => firstAvailablePriority <= q
  BY TakeFirstHolds DEF Mapping, Places
<1> DEFINE w == <<taken, firstAvailablePriority>>
<1>2. /\ waitingBar = {v \in Items \X Priorities : Holds(queues, v[1], v[2])}
      /\ waitingBar' = {v \in Items \X Priorities : Holds(queues', v[1], v[2])}
  BY WaitingMapped DEF Mapping, Inv
<1>3. w \in waitingBar /\ \A v \in waitingBar : w[2] <= v[2]
  BY <1>1, <1>2
<1>4. waitingBar' = waitingBar \ {w}
  <2>1. ASSUME NEW x \in Items, NEW q \in Priorities
        PROVE  Holds(queues', x, q) <=> Holds(queues, x, q) /\ <<x, q>> # w
    <3>1. Holds(queues, x, q) /\ x = taken => q = firstAvailablePriority
      BY <1>1, HeldOnce DEF Mapping, Places, ListsMatch
    <3> QED BY <1>1, <3>1 DEF HoldsBut
  <2> QED BY <1>2, <2>1
<1>5. item[taken] = "queued" /\ item \in [Items -> ItemStates]
  BY <1>1 DEF Mapping, Places, ListsMatch, Inv, TypeOK
<1>6. takenBar' = takenBar \cup {taken} /\ mergedBar' = mergedBar /\ lostBar' = lostBar
  BY <1>1, <1>5 DEF takenBar, mergedBar, lostBar
<1>7. abandonedBar' = abandonedBar
  BY DEF TakeFirst, abandonedBar, Waiting, Mapping, Inv, TypeOK
<1> QED BY <1>3, <1>4, <1>6, <1>7 DEF Queue!Take

\* While a consumer waits, no value does.
LEMMA NothingWaits ==
  ASSUME Mapping, pendingTasks # <<>>
  PROVE  waitingBar = {}
<1>1. \A p \in Priorities : queues[p] = <<>> /\ Len(queues[p]) = 0
  BY DEF Mapping, Inv, WaitersSeeNothing, FirstAvailableIsMin, Priorities
<1> QED BY <1>1, WaitingMapped DEF Mapping, Inv, Holds

\* The locked part of Produce with a waiter is HandOver, or Lose when the
\* waiter had been cancelled.
LEMMA HandToWaiterIsHandOver ==
  ASSUME Mapping, TypeOK', NEW i \in Items, HandToWaiter(i)
  PROVE  Queue!HandOver(i) \/ \E c \in Calls : Queue!Lose(i, c)
<1>1. /\ item[i] = "checked" /\ pendingTasks # <<>> /\ pendingTasks' = Tail(pendingTasks)
      /\ queues' = queues /\ Queue!Fresh(i) /\ waitingBar = {}
      /\ item \in [Items -> ItemStates] /\ call \in [Calls -> CallStates]
  BY CheckedIsFresh, NothingWaits DEF HandToWaiter, Mapping, Inv, TypeOK
<1>2. waitingBar' = waitingBar
  BY <1>1, WaitingMapped DEF Mapping, Inv
<1>3. PICK c \in Calls :
        /\ c = Head(pendingTasks) /\ Waiting(c) /\ ~ Waiting(c)'
        /\ call[c] \in {"pending", "registered", "canceled"}
        /\ \A d \in Calls : d # c => (Waiting(d)' <=> Waiting(d))
  BY <1>1, WaitersTail DEF Mapping, Places
<1>4. CASE Held(c)
  <2>1. /\ item' = [item EXCEPT ![i] = "handed"] /\ call' = [call EXCEPT ![c] = "released"]
        /\ call[c] # "canceled"
    BY <1>3, <1>4 DEF HandToWaiter, Held
  <2>2. takenBar' = takenBar \cup {i} /\ mergedBar' = mergedBar /\ lostBar' = lostBar
    BY <1>1, <2>1 DEF takenBar, mergedBar, lostBar
  <2>3. abandonedBar' = abandonedBar
    BY <1>1, <1>3, <2>1 DEF abandonedBar
  <2> QED BY <1>1, <1>2, <2>2, <2>3 DEF Queue!HandOver
<1>5. CASE ~ Held(c)
  <2>1. /\ item' = [item EXCEPT ![i] = "dropped"] /\ call' = call /\ call[c] = "canceled"
    BY <1>3, <1>5 DEF HandToWaiter, Held
  <2>2. takenBar' = takenBar /\ mergedBar' = mergedBar /\ lostBar' = lostBar \cup {i}
    BY <1>1, <2>1 DEF takenBar, mergedBar, lostBar
  <2>3. c \in abandonedBar /\ abandonedBar' = abandonedBar \ {c}
    BY <1>3, <2>1 DEF abandonedBar
  <2>4. Queue!Lose(i, c)
    BY <1>1, <1>2, <2>2, <2>3 DEF Queue!Lose
  <2> QED BY <2>4
<1> QED BY <1>4, <1>5

\* A cancellation that releases its own Pending is GiveUp.
LEMMA CancelIsGiveUp ==
  ASSUME Mapping, NEW c \in Calls, CancelCallback(c)
  PROVE  Queue!GiveUp(c)
<1>1. /\ call[c] = "registered" /\ call' = [call EXCEPT ![c] = "canceled"]
      /\ UNCHANGED <<queues, pendingTasks, item>> /\ call \in [Calls -> CallStates]
      /\ Waiting(c)
  BY DEF CancelCallback, Mapping, Inv, TypeOK, Places, WaitersMatch, Held
<1>2. \A d \in Calls : Waiting(d)' <=> Waiting(d)
  BY <1>1 DEF Waiting
<1>3. c \notin abandonedBar /\ abandonedBar' = abandonedBar \cup {c}
  BY <1>1, <1>2 DEF abandonedBar
<1>4. UNCHANGED <<waitingBar, takenBar, mergedBar, lostBar>>
  BY <1>1 DEF waitingBar, takenBar, mergedBar, lostBar, Positions, ItemAt
<1> QED BY <1>3, <1>4 DEF Queue!GiveUp

\* The other steps change nothing that a user of the queue sees.
LEMMA OthersStutter ==
  ASSUME Mapping,
         \/ \E i \in Items : BeginProduce(i)
         \/ \E c \in Calls : BeginConsume(c) \/ Wait(c) \/ RegisterCancellation(c)
         \/ \E c \in Calls, i \in Items : ConsumeCallback(c, i)
         \/ Dispose \/ (\E c \in Calls : CancelToken(c)) \/ UNCHANGED vars
  PROVE  UNCHANGED Queue!vars
<1>1. queues' = queues
  BY DEF BeginProduce, BeginConsume, Wait, RegisterCancellation, ConsumeCallback, Dispose,
         CancelToken, vars
<1>2. waitingBar' = waitingBar
  BY <1>1 DEF waitingBar, Positions, ItemAt
<1>3. item \in [Items -> ItemStates] /\ call \in [Calls -> CallStates]
  BY DEF Mapping, Inv, TypeOK
<1>4. \A c \in Calls : Waiting(c) => call[c] \in {"pending", "registered", "canceled"}
  BY DEF Mapping, Places, WaitersMatch, Waiting
<1>5. takenBar' = takenBar /\ mergedBar' = mergedBar /\ lostBar' = lostBar
  <2>1. ASSUME NEW i \in Items, BeginProduce(i)
        PROVE  takenBar' = takenBar /\ mergedBar' = mergedBar /\ lostBar' = lostBar
    BY <1>3, <2>1 DEF BeginProduce, takenBar, mergedBar, lostBar
  <2>2. ASSUME NEW c \in Calls, NEW i \in Items, ConsumeCallback(c, i)
        PROVE  takenBar' = takenBar /\ mergedBar' = mergedBar /\ lostBar' = lostBar
    <3>1. item[i] = "handed" /\ item' = [item EXCEPT ![i] = "delivered"]
      BY <2>2 DEF ConsumeCallback, Mapping, Places, WorkItemsMatch
    <3> QED BY <1>3, <3>1 DEF takenBar, mergedBar, lostBar
  <2>3. CASE item' = item
    BY <2>3 DEF takenBar, mergedBar, lostBar
  <2> QED BY <2>1, <2>2, <2>3
    DEF BeginConsume, Wait, RegisterCancellation, Dispose, CancelToken, vars
<1>6. abandonedBar' = abandonedBar
  <2>1. ASSUME NEW c \in Calls, BeginConsume(c) PROVE abandonedBar' = abandonedBar
    BY <1>3, <1>4, <2>1 DEF BeginConsume, abandonedBar, Waiting
  <2>2. ASSUME NEW c \in Calls, Wait(c) PROVE abandonedBar' = abandonedBar
    <3>1. \A d \in Calls : d # c => (Waiting(d)' <=> Waiting(d))
      BY <2>2, WaitersAppend DEF Wait, Mapping, Inv
    <3>2. call[c] = "checked" /\ call' = [call EXCEPT ![c] = "pending"]
      BY <2>2 DEF Wait
    <3> QED BY <1>3, <3>1, <3>2 DEF abandonedBar
  <2>3. ASSUME NEW c \in Calls, RegisterCancellation(c) PROVE abandonedBar' = abandonedBar
    BY <1>3, <2>3 DEF RegisterCancellation, abandonedBar, Waiting
  <2>4. ASSUME NEW c \in Calls, NEW i \in Items, ConsumeCallback(c, i)
        PROVE  abandonedBar' = abandonedBar
    <3>1. /\ call[c] = "released" /\ call' = [call EXCEPT ![c] = "completed"]
          /\ pendingTasks' = pendingTasks
      BY <2>4 DEF ConsumeCallback, Mapping, Places, WorkItemsMatch
    <3> QED BY <1>3, <3>1 DEF abandonedBar, Waiting
  <2>5. CASE UNCHANGED <<call, pendingTasks>>
    BY <2>5, AbandonedKept
  <2> QED BY <2>1, <2>2, <2>3, <2>4, <2>5 DEF BeginProduce, Dispose, CancelToken, vars
<1> QED BY <1>2, <1>5, <1>6 DEF Queue!vars

\* Every step of the detailed queue is a step of the abstract one or a stutter.
LEMMA NextRefines ==
  ASSUME Mapping, TypeOK', [Next]_vars
  PROVE  [Queue!Next]_Queue!vars
<1>1. ASSUME NEW i \in Items, EnqueueItem(i) PROVE Queue!Next
  BY <1>1, EnqueueIsPut DEF Queue!Next
<1>2. ASSUME NEW i \in Items, HandToWaiter(i) PROVE Queue!Next
  BY <1>2, HandToWaiterIsHandOver DEF Queue!Next
<1>3. ASSUME NEW c \in Calls, TakeFirst(c) PROVE Queue!Next
  BY <1>3, TakeFirstIsTake DEF Queue!Next
<1>4. ASSUME NEW c \in Calls, CancelCallback(c) PROVE Queue!Next
  BY <1>4, CancelIsGiveUp DEF Queue!Next
<1> QED
  BY <1>1, <1>2, <1>3, <1>4, OthersStutter DEF Next, ProduceNext, ConsumeNext

\* The keys of the values in the lists stay apart: what OnePerKey is proved from.
LEMMA KeysApart == Spec => [](ExcludeDuplicates => Apart(Key, queues))
<1>1. TypeOK /\ AtMostOnePerKey => (ExcludeDuplicates => Apart(Key, queues))
  BY ApartIs
<1> QED BY <1>1, OnePerKey, TypeCorrect, PTL

\* The queue of lists with its waiters and its work items implements the
\* abstract priority queue.
THEOREM Refinement == Spec => ImplementsPriorityQueue
<1>1. Init => Queue!Init
  <2> SUFFICES ASSUME Init PROVE Queue!Init
    OBVIOUS
  <2>1. waitingBar = {}
    BY DEF Init, waitingBar, Positions
  <2>2. takenBar = {} /\ mergedBar = {} /\ lostBar = {} /\ abandonedBar = {}
    BY DEF Init, takenBar, mergedBar, lostBar, abandonedBar
  <2> QED BY <2>1, <2>2 DEF Queue!Init
<1>2. Mapping /\ TypeOK' /\ [Next]_vars => [Queue!Next]_Queue!vars
  BY NextRefines
<1>3. Spec => []Mapping
  BY InvHolds, PlacesHold, KeysApart, PTL DEF Mapping
<1> QED BY <1>1, <1>2, <1>3, TypeCorrect, PTL DEF Spec, ImplementsPriorityQueue, Queue!Spec

\* A key that stays in the lists keeps its priority or gets a more urgent one:
\* only Put replaces a value, and by a priority that is no greater.
THEOREM NotDemoted == Spec => NeverDemoted
<1> DEFINE Kept == ExcludeDuplicates =>
             \A k \in Keys : \A p \in PrioritiesOf(k), q \in PrioritiesOf(k)' : q <= p
<1>1. Mapping /\ TypeOK' /\ [Next]_vars => Kept
  <2> SUFFICES ASSUME Mapping, TypeOK', [Next]_vars, ExcludeDuplicates, NEW k \in Keys,
                      NEW p \in PrioritiesOf(k), NEW q \in PrioritiesOf(k)'
               PROVE  q <= p
    OBVIOUS
  <2>1. PICK v \in waitingBar : Key[v[1]] = k /\ v[2] = p
    <3>1. PICK pos \in Positions : Key[ItemAt(pos)] = k /\ pos[1] = p
      BY DEF PrioritiesOf, PositionsOf
    <3>2. <<ItemAt(pos), pos[1]>> \in waitingBar
      BY DEF waitingBar
    <3> QED BY <3>1, <3>2
  <2>2. PICK w \in waitingBar' : Key[w[1]] = k /\ w[2] = q
    <3>1. PICK pos \in Positions' : Key[(ItemAt(pos))'] = k /\ pos[1] = q
      BY DEF PrioritiesOf, PositionsOf
    <3>2. <<(ItemAt(pos))', pos[1]>> \in waitingBar'
      BY DEF waitingBar
    <3> QED BY <3>1, <3>2
  <2>3. /\ v \in Items \X Priorities /\ Holds(queues, v[1], v[2])
        /\ \A u \in waitingBar : u \in Items \X Priorities /\ Holds(queues, u[1], u[2])
    BY WaitingMapped DEF Mapping, Inv
  <2>4. v[2] <= v[2]
    BY <2>3 DEF Priorities
  <2>5. ASSUME w \in waitingBar PROVE q <= p
    <3>1. w[2] = v[2]
      BY <2>1, <2>2, <2>3, <2>5, HeldOnce DEF Mapping
    <3> QED BY <2>1, <2>2, <2>4, <3>1
  <2>6. [Queue!Next]_Queue!vars
    BY NextRefines
  <2>7. ASSUME NEW i \in Items, Queue!Put(i), w \notin waitingBar PROVE q <= p
    <3>1. PICK r \in Priorities : /\ \A u \in Queue!Equal(i) : r <= u[2]
                                  /\ waitingBar' = (waitingBar \ Queue!Equal(i)) \cup {<<i, r>>}
      BY <2>7 DEF Queue!Put
    <3>2. w = <<i, r>>
      BY <2>7, <3>1
    <3>3. v \in Queue!Equal(i)
      BY <2>1, <2>2, <3>2 DEF Queue!Equal
    <3> QED BY <2>1, <2>2, <3>1, <3>2, <3>3
  <2>8. CASE waitingBar' \subseteq waitingBar
    BY <2>5, <2>8
  <2>9. \/ waitingBar' \subseteq waitingBar
        \/ \E i \in Items : Queue!Put(i)
    BY <2>6 DEF Queue!Next, Queue!vars, Queue!Take, Queue!HandOver, Queue!GiveUp, Queue!Lose
  <2> QED BY <2>5, <2>7, <2>8, <2>9
<1>2. Spec => []Mapping
  BY InvHolds, PlacesHold, KeysApart, PTL DEF Mapping
<1>3. Mapping /\ TypeOK' /\ [Next]_vars => [Kept]_vars
  BY <1>1
<1> HIDE DEF Kept
<1>4. Spec => [][Kept]_vars
  BY <1>2, <1>3, TypeCorrect, PTL DEF Spec
<1> QED BY <1>4 DEF Kept, NeverDemoted
=============================================================================
