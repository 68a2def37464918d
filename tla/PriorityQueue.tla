---------------------------- MODULE PriorityQueue ----------------------------
(***************************************************************************)
(* What PriorityProducerConsumer promises its users, without its lists,    *)
(* its index of the first non-empty list, its waiters' order and its       *)
(* thread-pool work items: a value put in is waiting until a consumer      *)
(* takes it, takers get one of the most urgent values, an equal value      *)
(* merges with the waiting one and keeps the more urgent priority, and a   *)
(* value is lost only against a consumer that waited and gave up.          *)
(***************************************************************************)
EXTENDS Naturals

CONSTANTS Items, Key, Consumers, Priorities, ExcludeDuplicates

VARIABLES
  waiting,   \* the waiting values with their priorities: pairs <<item, priority>>
  taken,     \* the values a consumer has got or is getting
  merged,    \* the values a later equal one has replaced
  lost,      \* the values nobody will get
  abandoned  \* the consumers that waited and gave up, not yet found out

vars == <<waiting, taken, merged, lost, abandoned>>

Init ==
  /\ waiting = {}
  /\ taken = {}
  /\ merged = {}
  /\ lost = {}
  /\ abandoned = {}

Fresh(i) ==
  /\ \A w \in waiting : w[1] # i
  /\ i \notin taken \cup merged \cup lost

Equal(i) == {w \in waiting : ExcludeDuplicates /\ Key[w[1]] = Key[i]}

Put(i) ==
  /\ Fresh(i)
  /\ \E p \in Priorities :
       /\ \A w \in Equal(i) : p <= w[2]
       /\ waiting' = (waiting \ Equal(i)) \cup {<<i, p>>}
  /\ merged' = merged \cup {w[1] : w \in Equal(i)}
  /\ UNCHANGED <<taken, lost, abandoned>>

Take(w) ==
  /\ w \in waiting
  /\ \A v \in waiting : w[2] <= v[2]
  /\ waiting' = waiting \ {w}
  /\ taken' = taken \cup {w[1]}
  /\ UNCHANGED <<merged, lost, abandoned>>

\* A consumer waits already, so the value does not.
HandOver(i) ==
  /\ Fresh(i)
  /\ waiting = {}
  /\ taken' = taken \cup {i}
  /\ UNCHANGED <<waiting, merged, lost, abandoned>>

GiveUp(c) ==
  /\ c \notin abandoned
  /\ abandoned' = abandoned \cup {c}
  /\ UNCHANGED <<waiting, taken, merged, lost>>

Lose(i, c) ==
  /\ Fresh(i)
  /\ waiting = {}
  /\ c \in abandoned
  /\ abandoned' = abandoned \ {c}
  /\ lost' = lost \cup {i}
  /\ UNCHANGED <<waiting, taken, merged>>

Next ==
  \/ \E i \in Items : Put(i) \/ HandOver(i)
  \/ \E w \in waiting : Take(w)
  \/ \E c \in Consumers : GiveUp(c)
  \/ \E i \in Items, c \in Consumers : Lose(i, c)

Spec == Init /\ [][Next]_vars
=============================================================================
