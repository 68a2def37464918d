------------------------- MODULE ServerEnqueueProofs -------------------------
(***************************************************************************)
(* Safety of ServerEnqueue for every number of edits, documents and waits. *)
(*                                                                         *)
(* OneCounterPerDocument needs that a counter in _pendingParse belongs to  *)
(* its document.  WaitIsHonest needs that an edit is, at every moment,     *)
(* covered by one of the three things a wait looks at, in their order.     *)
(***************************************************************************)
EXTENDS ServerEnqueue, TLAPS

USE ServerAssumption

\* The counter that _pendingParse holds for a document was made for it.
CounterIsOfDocument ==
  \A d \in Docs : pendingParse[d] # None => Doc[pendingParse[d]] = d

CounterInv == TypeOK /\ CounterIsOfDocument /\ OneCounterPerDocument

\* The places of a job between Incremented() and the disposal of its scope.
CountedStates == {"counted", "registered", "enqueued", "skipping", "attached",
                  "continuing", "handedOver", "leaked"}

\* _pendingAnalysisEnqueue counts a job from its begin to its hand-over.
PendingIsUnderWay == \A j \in Jobs : job[j] \in CountedStates => j \in pending

\* A job that has been handed over is in the analysis queue or past it.
Covered(j) == j \in ParseOnly \/ j \in queue \/ j \in analyzed

HandedOverIsCovered ==
  server = "open" => \A j \in Jobs : job[j] \in {"handedOver", "done"} => Covered(j)

\* What a wait was asked about had begun.
AskedIsUnderWay == \A w \in Waiters : \A j \in asked[w] : job[j] \notin {"idle", "threw"}

\* The job has disposed of its scope.
Ended(j) == job[j] \in {"done", "failed", "skipped"}

\* Whoever has seen nothing counted any more was asked only about jobs that have ended.
ZeroMeansEnded ==
  \A w \in zeroSeen : waiter[w] \in {"enqueuing", "analyzing"} => \A j \in asked[w] : Ended(j)

\* In its last wait, a waiter is behind all that it was asked about.
BehindAll(w) ==
  /\ ahead[w] \subseteq queue \cup analyzed
  /\ \A j \in asked[w] : job[j] = "done" => j \in ParseOnly \/ j \in ahead[w] \/ j \in analyzed

LastWaitIsBehindAll ==
  server = "open" => \A w \in zeroSeen : waiter[w] = "analyzing" => BehindAll(w)

WaitInv ==
  /\ TypeOK /\ PendingIsUnderWay /\ HandedOverIsCovered
  /\ AskedIsUnderWay /\ ZeroMeansEnded /\ LastWaitIsBehindAll

\* The part of TypeOK that belongs to zeroVars.
ZeroTypeOK == dropped \subseteq {"parsing", "enqueuing"} /\ zeroSeen \subseteq Waiters

-----------------------------------------------------------------------------

\* Initially no job has a counter.
LEMMA InitCounterInv == Init => CounterInv
BY DEF Init, CounterInv, TypeOK, JobStates, CounterIsOfDocument, OneCounterPerDocument

\* The counter that a call takes is the one its document has.
LEMMA RegisterCounterInv ==
  ASSUME CounterInv, NEW j \in Jobs, Register(j)
  PROVE  CounterInv'
<1> DEFINE old == pendingParse[Doc[j]]
           c == IF old = None THEN j ELSE old
<1> USE DEF CounterInv
<1>1. Doc[j] \in Docs /\ old \in Jobs \cup {None} /\ c \in Jobs /\ Doc[c] = Doc[j]
  BY DEF TypeOK, CounterIsOfDocument
<1>2. /\ pendingParse' = [pendingParse EXCEPT ![Doc[j]] = c]
      /\ counter' = [counter EXCEPT ![j] = c]
      /\ holds' = [holds EXCEPT ![j] = "held"]
      /\ source' \subseteq Jobs
      /\ job' \in [Jobs -> JobStates]
  BY DEF Register, TypeOK, JobStates, Goto
<1>3. UNCHANGED <<removal, pending, parse, parsing, queue, analyzed, server, dropped, zeroSeen,
                  waiter, ahead, asked>>
  BY DEF Register, parseVars, queueVars, zeroVars, waiterVars
<1> HIDE DEF old, c
<1>4. TypeOK'
  BY <1>1, <1>2, <1>3 DEF TypeOK
<1>5. CounterIsOfDocument'
  BY <1>1, <1>2 DEF TypeOK, CounterIsOfDocument
<1>6. OneCounterPerDocument'
  <2> SUFFICES ASSUME NEW k \in Jobs, holds'[k] = "held"
               PROVE  pendingParse'[Doc[k]] = counter'[k]
    BY DEF OneCounterPerDocument
  <2>1. CASE k = j
    BY <2>1, <1>1, <1>2 DEF TypeOK
  <2>2. CASE k # j /\ Doc[k] = Doc[j]
    <3>1. holds[k] = "held" /\ counter[k] # None /\ counter'[k] = counter[k]
      BY <2>2, <1>2 DEF TypeOK
    <3>2. old = counter[k] /\ c = old
      BY <2>2, <3>1 DEF OneCounterPerDocument, old, c
    <3> QED BY <2>2, <3>1, <3>2, <1>1, <1>2 DEF TypeOK
  <2>3. CASE k # j /\ Doc[k] # Doc[j]
    BY <2>3, <1>1, <1>2 DEF TypeOK, OneCounterPerDocument
  <2> QED BY <2>1, <2>2, <2>3
<1> QED BY <1>4, <1>5, <1>6

\* A counter is removed only when nobody holds it.
LEMMA RemoveCounterInv ==
  ASSUME CounterInv, NEW c \in Jobs, RemoveCounter(c)
  PROVE  CounterInv'
<1> USE DEF CounterInv
<1>1. UNCHANGED <<job, holds, counter, source, pending, parse, parsing, queue, analyzed,
                  server, dropped, zeroSeen, waiter, ahead, asked>>
  BY DEF RemoveCounter, parseVars, queueVars, zeroVars, waiterVars
<1>2. Doc[c] \in Docs /\ removal' \in [Jobs -> {"none", "scheduled", "again", "done"}]
  BY DEF RemoveCounter, TypeOK
<1>3. CASE UNCHANGED pendingParse
  BY <1>1, <1>2, <1>3 DEF TypeOK, CounterIsOfDocument, OneCounterPerDocument
<1>4. CASE /\ Holders(c) = {}
           /\ pendingParse' = [pendingParse EXCEPT ![Doc[c]] = IF @ = c THEN None ELSE @]
  <2>1. TypeOK'
    BY <1>1, <1>2, <1>4 DEF TypeOK
  <2>2. CounterIsOfDocument'
    BY <1>2, <1>4 DEF TypeOK, CounterIsOfDocument
  <2>3. OneCounterPerDocument'
    <3> SUFFICES ASSUME NEW k \in Jobs, holds[k] = "held"
                 PROVE  pendingParse'[Doc[k]] = counter[k]
      BY <1>1 DEF OneCounterPerDocument
    <3>1. counter[k] # c /\ pendingParse[Doc[k]] = counter[k] /\ Doc[k] \in Docs
      BY <1>4 DEF Holders, OneCounterPerDocument
    <3> QED BY <3>1, <1>2, <1>4 DEF TypeOK
  <2> QED BY <2>1, <2>2, <2>3
<1> QED BY <1>3, <1>4 DEF RemoveCounter

\* What a Decrement does beside its counter keeps the types.
LEMMA ZeroTypes ==
  ASSUME TypeOK
  PROVE  /\ UNCHANGED zeroVars => ZeroTypeOK'
         /\ \A stage \in {"parsing", "enqueuing"} :
              /\ ReachZero(stage) => ZeroTypeOK'
              /\ MayThrow(stage) \subseteq {"open", "queueDisposed", "disposed", "crashed"}
         /\ \A j \in Jobs : Uncount(j) => pending' \subseteq Jobs /\ ZeroTypeOK'
<1>1. UNCHANGED zeroVars => ZeroTypeOK'
  BY DEF TypeOK, ZeroTypeOK, zeroVars
<1>2. ASSUME NEW stage \in {"parsing", "enqueuing"}, ReachZero(stage) PROVE ZeroTypeOK'
  BY <1>2 DEF TypeOK, ZeroTypeOK, ReachZero, Waiting
<1>3. ASSUME NEW stage \in {"parsing", "enqueuing"}
      PROVE  MayThrow(stage) \subseteq {"open", "queueDisposed", "disposed", "crashed"}
  <2>1. {"crashed" : w \in Waiting(stage)} \subseteq {"crashed"}
    OBVIOUS
  <2> QED BY <2>1 DEF TypeOK, MayThrow
<1>4. ASSUME NEW j \in Jobs, Uncount(j) PROVE pending' \subseteq Jobs /\ ZeroTypeOK'
  <2>1. ReachZero("enqueuing") \/ UNCHANGED zeroVars
    BY <1>4 DEF Uncount
  <2> QED BY <1>1, <1>2, <1>4, <2>1 DEF Uncount, TypeOK
<1> QED BY <1>1, <1>2, <1>3, <1>4

\* CounterInv is inductive.
LEMMA NextCounterInv == CounterInv /\ [Next]_vars => CounterInv'
<1> SUFFICES ASSUME CounterInv, [Next]_vars PROVE CounterInv'
  OBVIOUS
<1> USE DEF CounterInv, TypeOK, JobStates, CounterIsOfDocument, OneCounterPerDocument,
            Goto, counterVars, parseVars, queueVars, waiterVars
<1>1. ASSUME NEW j \in Jobs, Begin(j) PROVE CounterInv'
  BY <1>1 DEF Begin, zeroVars
<1>2. ASSUME NEW j \in Jobs, Register(j) PROVE CounterInv'
  BY <1>2, RegisterCounterInv
<1>3. ASSUME NEW j \in Jobs, EnqueueParse(j) PROVE CounterInv'
  BY <1>3 DEF EnqueueParse, zeroVars
<1>4. ASSUME NEW j \in Jobs, Release(j) PROVE CounterInv'
  BY <1>4 DEF Release, zeroVars
<1>5. ASSUME NEW j \in Jobs, Notify(j) PROVE CounterInv'
  BY <1>5 DEF Notify, zeroVars
<1>6. ASSUME NEW j \in Jobs, Leave(j) PROVE CounterInv'
  <2>1. /\ UNCHANGED <<holds, counter, pendingParse, source, removal, parse, parsing, queue,
                       analyzed, waiter, ahead, asked>>
        /\ job' \in [Jobs -> JobStates]
    BY <1>6 DEF Leave
  <2>2. pending' \subseteq Jobs /\ ZeroTypeOK'
    BY <1>6, ZeroTypes DEF Leave
  <2>3. server' \in {"open", "queueDisposed", "disposed", "crashed"}
    BY <1>6, ZeroTypes DEF Leave
  <2> QED BY <2>1, <2>2, <2>3 DEF ZeroTypeOK
<1>7. ASSUME NEW j \in Jobs, Continue(j) PROVE CounterInv'
  <2>1. /\ UNCHANGED <<holds, counter, pendingParse, source, removal, parse, parsing, queue,
                       analyzed, waiter, ahead, asked>>
        /\ job' \in [Jobs -> JobStates]
    BY <1>7 DEF Continue
  <2>2. pending' \subseteq Jobs /\ ZeroTypeOK'
    BY <1>7, ZeroTypes DEF Continue
  <2>3. server' \in {"open", "queueDisposed", "disposed", "crashed"}
    BY <1>7, ZeroTypes DEF Continue
  <2> QED BY <2>1, <2>2, <2>3 DEF ZeroTypeOK
<1>8. ASSUME NEW j \in Jobs, EnqueueAnalysis(j) PROVE CounterInv'
  BY <1>8 DEF EnqueueAnalysis, zeroVars
<1>9. ASSUME NEW j \in Jobs, DisposeWhenEnqueued(j) PROVE CounterInv'
  <2>1. /\ UNCHANGED <<holds, counter, pendingParse, source, removal, parse, parsing, queue,
                       analyzed, waiter, ahead, asked>>
        /\ job' \in [Jobs -> JobStates]
    BY <1>9 DEF DisposeWhenEnqueued
  <2>2. pending' \subseteq Jobs /\ ZeroTypeOK'
    BY <1>9, ZeroTypes DEF DisposeWhenEnqueued
  <2>3. server' \in {"open", "queueDisposed", "disposed", "crashed"}
    BY <1>9, ZeroTypes DEF DisposeWhenEnqueued
  <2> QED BY <2>1, <2>2, <2>3 DEF ZeroTypeOK
<1>10. ASSUME NEW j \in Jobs, EndParse(j) PROVE CounterInv'
  BY <1>10 DEF EndParse, zeroVars
<1>11. ASSUME NEW j \in Jobs, UncountParse(j) PROVE CounterInv'
  <2>1. /\ UNCHANGED <<job, holds, counter, pendingParse, source, removal, pending, parse, queue,
                       analyzed, waiter, ahead, asked>>
        /\ parsing' \subseteq Jobs
    BY <1>11 DEF UncountParse
  <2>2. ZeroTypeOK' /\ server' \in {"open", "queueDisposed", "disposed", "crashed"}
    BY <1>11, ZeroTypes DEF UncountParse, zeroVars
  <2> QED BY <2>1, <2>2 DEF ZeroTypeOK
<1>12. ASSUME NEW c \in Jobs, RemoveCounter(c) PROVE CounterInv'
  BY <1>12, RemoveCounterInv
<1>13. ASSUME NEW c \in Jobs, WaitAgain(c) PROVE CounterInv'
  BY <1>13 DEF WaitAgain, zeroVars
<1>14. ASSUME NEW d \in Docs, Analyze(d) PROVE CounterInv'
  BY <1>14 DEF Analyze, zeroVars
<1>15. ASSUME NEW w \in Waiters, BeginWait(w) PROVE CounterInv'
  BY <1>15 DEF BeginWait, UnderWay
<1>16. ASSUME NEW w \in Waiters, ParsingComplete(w) PROVE CounterInv'
  BY <1>16 DEF ParsingComplete
<1>17. ASSUME NEW w \in Waiters, EnqueueComplete(w) PROVE CounterInv'
  BY <1>17 DEF EnqueueComplete
<1>18. ASSUME NEW w \in Waiters, AnalysisComplete(w) PROVE CounterInv'
  BY <1>18 DEF AnalysisComplete
<1>19. CASE Dispose
  BY <1>19 DEF Dispose, zeroVars
<1>20. CASE UNCHANGED vars
  BY <1>20 DEF vars, zeroVars
<1> QED
  BY <1>1, <1>2, <1>3, <1>4, <1>5, <1>6, <1>7, <1>8, <1>9, <1>10, <1>11, <1>12, <1>13,
     <1>14, <1>15, <1>16, <1>17, <1>18, <1>19, <1>20
  DEF Next, JobStep, ParseStep, RemovalStep, WaiterStep

\* Every variable stays in its range, and the counter that a job holds is one
\* of its document.
THEOREM TypeCorrect == Spec => []TypeOK
<1>1. CounterInv => TypeOK
  BY DEF CounterInv
<1> QED BY <1>1, InitCounterInv, NextCounterInv, PTL DEF Spec

\* The removal of RemoveDocumentParseCounter never takes away a counter in use.
THEOREM OneCounter == Spec => []OneCounterPerDocument
<1>1. CounterInv => OneCounterPerDocument
  BY DEF CounterInv
<1> QED BY <1>1, InitCounterInv, NextCounterInv, PTL DEF Spec

-----------------------------------------------------------------------------

\* Initially nobody waits and no job has begun.
LEMMA InitWaitInv == Init => WaitInv
BY InitCounterInv
DEF Init, WaitInv, CounterInv, CountedStates, PendingIsUnderWay, HandedOverIsCovered,
    AskedIsUnderWay, ZeroMeansEnded, LastWaitIsBehindAll

\* With nothing counted any more, what a wait was asked about has ended.
LEMMA NothingCounted ==
  ASSUME TypeOK, PendingIsUnderWay, AskedIsUnderWay, NEW w \in Waiters,
         NEW j \in asked[w], NEW but \in Jobs, pending \subseteq {but}, j # but
  PROVE  Ended(j)
BY DEF TypeOK, JobStates, PendingIsUnderWay, AskedIsUnderWay, CountedStates, Ended

\* A step of a job keeps WaitInv: it moves forward, and it leaves the count only
\* when it has failed, was skipped or is in the analysis queue.
LEMMA JobWaitInv ==
  ASSUME WaitInv, NEW j \in Jobs, Begin(j) \/ JobStep(j), TypeOK'
  PROVE  WaitInv'
<1> USE DEF WaitInv
<1> DEFINE Steps == Begin(j) \/ Register(j) \/ EnqueueParse(j) \/ Release(j) \/ Notify(j)
                    \/ Leave(j) \/ Continue(j) \/ EnqueueAnalysis(j) \/ DisposeWhenEnqueued(j)
<1>0. Steps
  BY DEF JobStep
<1>1. UNCHANGED <<analyzed, waiterVars>> /\ (server' = "open" => server = "open")
  BY <1>0 DEF Begin, Register, EnqueueParse, Release, Notify, Leave, Continue, MayThrow,
         EnqueueAnalysis, DisposeWhenEnqueued, queueVars
<1>2. \A k \in Jobs \ {j} : job'[k] = job[k] /\ (k \in pending' <=> k \in pending)
  BY <1>0 DEF Begin, Register, EnqueueParse, Release, Notify, Leave, Continue, Uncount,
         EnqueueAnalysis, DisposeWhenEnqueued, Goto, TypeOK
<1>3. job'[j] = job[j] \/ job[j] \in CountedStates \cup {"idle"}
  BY <1>0 DEF Begin, Register, EnqueueParse, Release, Notify, Leave, Continue,
         EnqueueAnalysis, DisposeWhenEnqueued, CountedStates
<1>4. job'[j] \in {"idle", "threw"} => job[j] \in {"idle", "threw"}
  BY <1>0 DEF Begin, Register, EnqueueParse, Release, Notify, Leave, Continue,
         EnqueueAnalysis, DisposeWhenEnqueued, Goto, TypeOK
<1>5. queue \subseteq queue'
  BY <1>0 DEF Begin, Register, EnqueueParse, Release, Notify, Leave, Continue,
         EnqueueAnalysis, DisposeWhenEnqueued, queueVars
<1>6. PendingIsUnderWay'
  <2>1. job'[j] \in CountedStates => j \in pending'
    BY <1>0 DEF Begin, Register, EnqueueParse, Release, Notify, Leave, Continue, Goto, TypeOK,
           EnqueueAnalysis, DisposeWhenEnqueued, CountedStates, PendingIsUnderWay
  <2> QED BY <2>1, <1>2 DEF PendingIsUnderWay
<1>7. HandedOverIsCovered'
  <2>1. ASSUME server' = "open", job'[j] \in {"handedOver", "done"}
        PROVE  j \in ParseOnly \/ j \in queue' \/ j \in analyzed
    BY <2>1, <1>0, <1>1 DEF Begin, Register, EnqueueParse, Release, Notify, Leave, Continue,
           EnqueueAnalysis, DisposeWhenEnqueued, queueVars, HandedOverIsCovered, Covered,
           Goto, TypeOK
  <2> QED BY <2>1, <1>1, <1>2, <1>5 DEF HandedOverIsCovered, Covered
<1>8. AskedIsUnderWay'
  BY <1>1, <1>2, <1>4 DEF AskedIsUnderWay, waiterVars, TypeOK
<1>9. \/ zeroSeen' = zeroSeen
      \/ zeroSeen' = zeroSeen \cup Waiting("enqueuing") /\ Ended(j)' /\ pending = {j}
  BY <1>0 DEF Begin, Register, EnqueueParse, Release, Notify, Leave, Continue, Uncount, ReachZero,
         EnqueueAnalysis, DisposeWhenEnqueued, zeroVars, Goto, TypeOK, Ended
<1>10. \A k \in Jobs : Ended(k) => Ended(k)'
  BY <1>2, <1>3 DEF Ended, CountedStates
<1>11. ZeroMeansEnded'
  <2> SUFFICES ASSUME NEW w \in zeroSeen', waiter[w] \in {"enqueuing", "analyzing"},
                      NEW k \in asked[w]
               PROVE  Ended(k)'
    BY <1>1 DEF ZeroMeansEnded, waiterVars
  <2>1. w \in Waiters /\ k \in Jobs
    BY <1>9 DEF TypeOK, Waiting
  <2>2. CASE w \in zeroSeen
    BY <2>1, <2>2, <1>10 DEF ZeroMeansEnded
  <2>3. CASE w \notin zeroSeen
    BY <2>1, <2>3, <1>9, <1>10, NothingCounted
  <2> QED BY <2>2, <2>3
<1>12. LastWaitIsBehindAll'
  <2> SUFFICES ASSUME server = "open", NEW w \in zeroSeen', waiter[w] = "analyzing"
               PROVE  BehindAll(w)'
    BY <1>1 DEF LastWaitIsBehindAll, waiterVars
  <2>1. w \in zeroSeen /\ w \in Waiters
    BY <1>9 DEF Waiting, TypeOK
  <2>2. BehindAll(w) /\ \A k \in asked[w] : k \in Jobs /\ Ended(k)
    BY <2>1 DEF LastWaitIsBehindAll, ZeroMeansEnded, TypeOK
  <2>3. \A k \in asked[w] : job'[k] = job[k]
    BY <2>2, <1>2, <1>3 DEF Ended, CountedStates
  <2> QED BY <2>2, <2>3, <1>1, <1>5 DEF BehindAll, waiterVars
<1> QED BY <1>6, <1>7, <1>8, <1>11, <1>12

\* The hand-over from one wait to the next: what has ended is in the analysis queue or
\* past it.
LEMMA EnqueueCompleteInv ==
  ASSUME WaitInv, NEW w \in Waiters, EnqueueComplete(w), TypeOK'
  PROVE  WaitInv'
<1> USE DEF WaitInv
<1>1. UNCHANGED <<job, pending, queue, analyzed, server>> /\ zeroSeen' \subseteq zeroSeen
  BY DEF EnqueueComplete, queueVars
<1>2. /\ waiter[w] = "enqueuing"
      /\ \A v \in Waiters : asked'[v] = asked[v] \/ asked'[v] = {}
      /\ \A v \in Waiters \ {w} : waiter'[v] = waiter[v] /\ ahead'[v] = ahead[v]
  BY DEF EnqueueComplete, TypeOK
<1>3. PendingIsUnderWay' /\ HandedOverIsCovered' /\ AskedIsUnderWay'
  BY <1>1, <1>2 DEF PendingIsUnderWay, HandedOverIsCovered, AskedIsUnderWay, Covered
<1>4. ZeroMeansEnded'
  <2> SUFFICES ASSUME NEW v \in zeroSeen', waiter'[v] \in {"enqueuing", "analyzing"},
                      NEW j \in asked'[v]
               PROVE  Ended(j)'
    BY DEF ZeroMeansEnded
  <2>1. v \in Waiters /\ v \in zeroSeen /\ j \in asked[v]
    BY <1>1, <1>2 DEF TypeOK
  <2>2. waiter[v] \in {"enqueuing", "analyzing"}
    BY <2>1, <1>2
  <2> QED BY <2>1, <2>2, <1>1 DEF ZeroMeansEnded, Ended
<1>5. LastWaitIsBehindAll'
  <2> SUFFICES ASSUME server = "open", NEW v \in zeroSeen', waiter'[v] = "analyzing"
               PROVE  BehindAll(v)'
    BY <1>1 DEF LastWaitIsBehindAll
  <2>1. v \in zeroSeen /\ v \in Waiters
    BY <1>1 DEF TypeOK
  <2>2. asked' = asked
    BY DEF EnqueueComplete
  <2>3. CASE v # w
    BY <2>1, <2>2, <2>3, <1>1, <1>2 DEF LastWaitIsBehindAll, BehindAll
  <2>4. CASE v = w
    <3>1. ahead'[v] = queue
      BY <2>4 DEF EnqueueComplete, TypeOK
    <3>2. \A j \in asked[v] : job[j] = "done" => j \in ParseOnly \/ j \in queue \/ j \in analyzed
      BY <2>1 DEF HandedOverIsCovered, Covered, TypeOK
    <3> QED BY <3>1, <3>2, <2>2, <1>1 DEF BehindAll
  <2> QED BY <2>3, <2>4
<1> QED BY <1>3, <1>4, <1>5

\* The other steps of a wait: one that begins does so in the first of its stages, and one
\* that finds nothing counted was asked only about jobs that have ended.
LEMMA WaiterWaitInv ==
  ASSUME WaitInv, NEW w \in Waiters, BeginWait(w) \/ ParsingComplete(w) \/ AnalysisComplete(w),
         TypeOK'
  PROVE  WaitInv'
<1> USE DEF WaitInv
<1>1. UNCHANGED <<job, pending, queue, analyzed, server>>
  BY DEF BeginWait, ParsingComplete, AnalysisComplete, queueVars
<1>2. /\ \A v \in Waiters \ {w} : waiter'[v] = waiter[v] /\ ahead'[v] = ahead[v]
                                  /\ asked'[v] = asked[v]
      /\ \A v \in zeroSeen' : v # w => v \in zeroSeen
      /\ waiter'[w] # "analyzing"
      /\ asked'[w] = asked[w] \/ asked'[w] = {} \/ asked'[w] = UnderWay
  BY DEF BeginWait, ParsingComplete, AnalysisComplete, TypeOK
<1>3. PendingIsUnderWay' /\ HandedOverIsCovered' /\ AskedIsUnderWay'
  <2>1. PendingIsUnderWay' /\ HandedOverIsCovered'
    BY <1>1 DEF PendingIsUnderWay, HandedOverIsCovered, Covered
  <2>2. AskedIsUnderWay'
    BY <1>1, <1>2 DEF AskedIsUnderWay, UnderWay
  <2> QED BY <2>1, <2>2
<1>4. ZeroMeansEnded'
  <2> SUFFICES ASSUME NEW v \in zeroSeen', waiter'[v] \in {"enqueuing", "analyzing"},
                      NEW j \in asked'[v]
               PROVE  Ended(j)'
    BY DEF ZeroMeansEnded
  <2>1. CASE v # w
    BY <2>1, <1>1, <1>2 DEF ZeroMeansEnded, Ended, TypeOK
  <2>2. CASE v = w
    <3>1. ParsingComplete(w)
      BY <2>2, <1>2 DEF BeginWait, AnalysisComplete, TypeOK
    <3>2. pending = {} /\ asked'[v] = asked[v]
      BY <3>1, <2>2 DEF ParsingComplete
    <3>3. j \in asked[w] /\ j \in Jobs
      BY <3>2, <2>2 DEF TypeOK
    <3>4. job[j] \notin CountedStates /\ job[j] \notin {"idle", "threw"}
      BY <3>2, <3>3 DEF PendingIsUnderWay, AskedIsUnderWay
    <3> QED BY <3>3, <3>4, <1>1 DEF TypeOK, JobStates, CountedStates, Ended
  <2> QED BY <2>1, <2>2
<1>5. LastWaitIsBehindAll'
  BY <1>1, <1>2 DEF LastWaitIsBehindAll, BehindAll, TypeOK
<1> QED BY <1>3, <1>4, <1>5

\* WaitInv is inductive.
LEMMA NextWaitInv == WaitInv /\ CounterInv /\ [Next]_vars => WaitInv'
<1> SUFFICES ASSUME WaitInv, CounterInv, [Next]_vars PROVE WaitInv'
  OBVIOUS
<1>0. TypeOK'
  BY NextCounterInv DEF CounterInv
<1> USE DEF WaitInv, PendingIsUnderWay, HandedOverIsCovered, AskedIsUnderWay, ZeroMeansEnded,
            LastWaitIsBehindAll, BehindAll, Covered, Ended,
            counterVars, parseVars, queueVars, zeroVars, waiterVars
<1>1. ASSUME NEW j \in Jobs, Begin(j) \/ JobStep(j) PROVE WaitInv'
  BY <1>0, <1>1, JobWaitInv
<1>2. ASSUME NEW j \in Jobs, EndParse(j) PROVE WaitInv'
  BY <1>0, <1>2 DEF EndParse
<1>3. ASSUME NEW j \in Jobs, UncountParse(j) PROVE WaitInv'
  <2>1. /\ UNCHANGED <<job, pending, queue, analyzed, waiterVars>>
        /\ server' = "open" => server = "open"
        /\ \A w \in zeroSeen' : w \in zeroSeen \/ waiter[w] = "parsing"
    BY <1>3 DEF UncountParse, ReachZero, Waiting, MayThrow
  <2> QED BY <1>0, <2>1
<1>4. ASSUME NEW c \in Jobs, RemovalStep(c) PROVE WaitInv'
  BY <1>0, <1>4 DEF RemovalStep, RemoveCounter, WaitAgain
<1>5. ASSUME NEW d \in Docs, Analyze(d) PROVE WaitInv'
  BY <1>0, <1>5 DEF Analyze
<1>6. ASSUME NEW w \in Waiters, BeginWait(w) \/ ParsingComplete(w) \/ AnalysisComplete(w)
      PROVE  WaitInv'
  BY <1>0, <1>6, WaiterWaitInv
<1>7. ASSUME NEW w \in Waiters, EnqueueComplete(w) PROVE WaitInv'
  BY <1>0, <1>7, EnqueueCompleteInv
<1>8. CASE Dispose
  BY <1>0, <1>8 DEF Dispose
<1>9. CASE UNCHANGED vars
  BY <1>0, <1>9 DEF vars
<1> QED
  BY <1>1, <1>2, <1>3, <1>4, <1>5, <1>6, <1>7, <1>8, <1>9 DEF Next, ParseStep, WaiterStep

\* A wait that returns does so by AnalysisComplete, with all it is behind analysed.
LEMMA ReturnIsHonest ==
  ASSUME WaitInv, [Next]_vars, NEW w \in zeroSeen,
         waiter[w] = "analyzing", waiter'[w] = "returned"
  PROVE  \A j \in asked[w] : Settled(j)
<1> USE DEF WaitInv
<1>1. w \in Waiters
  BY DEF TypeOK
<1>2. AnalysisComplete(w)
  <2>1. ASSUME NEW v \in Waiters, BeginWait(v) \/ ParsingComplete(v) \/ EnqueueComplete(v)
        PROVE  FALSE
    BY <2>1, <1>1 DEF BeginWait, ParsingComplete, EnqueueComplete, TypeOK
  <2>2. ASSUME NEW v \in Waiters, AnalysisComplete(v) PROVE v = w
    BY <2>2, <1>1 DEF AnalysisComplete, TypeOK
  <2>3. ASSUME NEW j \in Jobs, Begin(j) \/ JobStep(j) \/ ParseStep(j) \/ RemovalStep(j)
        PROVE  waiter' = waiter
    BY <2>3 DEF Begin, JobStep, Register, EnqueueParse, Release, Notify, Leave, Continue,
           EnqueueAnalysis, DisposeWhenEnqueued, ParseStep, EndParse, UncountParse,
           RemovalStep, RemoveCounter, WaitAgain, waiterVars
  <2>4. ASSUME (\E d \in Docs : Analyze(d)) \/ Dispose \/ UNCHANGED vars PROVE waiter' = waiter
    BY <2>4 DEF Analyze, Dispose, vars, waiterVars
  <2> QED BY <2>1, <2>2, <2>3, <2>4 DEF Next, WaiterStep
<1>3. BehindAll(w) /\ ahead[w] \cap queue = {}
  BY <1>2 DEF AnalysisComplete, LastWaitIsBehindAll
<1>4. \A j \in asked[w] : Ended(j)
  BY DEF ZeroMeansEnded
<1> QED BY <1>3, <1>4 DEF BehindAll, Ended, Settled

\* When WaitForCompleteAnalysisAsync returns, every edit that was under way when
\* it was called has settled, though its wait for the parses may have ended early,
\* unless its wait for _pendingAnalysisEnqueue did so by a source that an earlier zero
\* had completed.
THEOREM WaitsAreHonest == Spec => WaitIsHonest
<1>1. Init => CounterInv /\ WaitInv
  BY InitCounterInv, InitWaitInv
<1>2. (CounterInv /\ WaitInv) /\ [Next]_vars => (CounterInv /\ WaitInv)'
  BY NextCounterInv, NextWaitInv
<1>3. ASSUME CounterInv /\ WaitInv, [Next]_vars
      PROVE  [\A w \in zeroSeen : (waiter[w] = "analyzing" /\ waiter'[w] = "returned")
                                    => \A j \in asked[w] : Settled(j)]_waiter
  BY <1>3, ReturnIsHonest
<1> QED BY <1>1, <1>2, <1>3, PTL DEF Spec, WaitIsHonest
=============================================================================
