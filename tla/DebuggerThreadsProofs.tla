------------------------ MODULE DebuggerThreadsProofs ------------------------
(* What DebuggerThreads keeps for any number of threads and requests.      *)
EXTENDS DebuggerThreads, TLAPS

Message == [kind : RequestKinds \cup {"autoResume", "resumeThread"}, thread : Threads \cup {None}]

\* A request that the loop takes names a thread or none, and the others stay requests.
LEMMA RequestTaken ==
  ASSUME NEW kind, Begin(kind), requests \in Seq(Message)
  PROVE  Request.thread \in Threads \cup {None} /\ requests' \in Seq(Message)
<1>1. Request \in Message /\ requests' \in Seq(Message)
  BY DEF Begin, Request
<1> QED
  BY <1>1 DEF Message

LoopTyped ==
  /\ handling' \in {"idle", "marking", "detached", "dead"} \cup Visits
  /\ handling' \in Visits => at' \in Threads
  /\ rest' \subseteq Threads

\* The loop visits threads of the set it is given.
LEMMA VisitTyped ==
  ASSUME NEW what \in Visits, NEW threads \in SUBSET Threads, Visit(what, threads)
  PROVE  LoopTyped
  BY DEF Visit, Visits, LoopTyped

\* Every variable keeps its type, whatever the threads, the loop and the client do.
THEOREM TypeCorrect == Spec => []TypeOK
<1>1. Init => TypeOK
  <2> SUFFICES ASSUME Init PROVE TypeOK
    OBVIOUS
  <2>1. requests \in Seq(Message)
    BY DEF Init
  <2>2. pc \in [Threads -> Places] /\ todo \in [Threads -> SUBSET Threads]
    BY DEF Init, Places
  <2>3. sent \in 0 .. MaxRequests /\ hits \in 0 .. MaxHits
    BY ThreadsAssumption DEF Init
  <2> QED
    BY <2>1, <2>2, <2>3 DEF Init, TypeOK, Message, Visits, Mishaps, StopKinds
<1>2. TypeOK /\ [Next]_vars => TypeOK'
  <2> SUFFICES ASSUME TypeOK, [Next]_vars PROVE TypeOK'
    OBVIOUS
  <2> USE ThreadsAssumption DEF Places, Reporting, Visits, Mishaps, StopKinds, RequestKinds
  <2>1. ASSUME NEW t \in Threads, Hit(t) PROVE TypeOK'
    BY <2>1 DEF Hit, Goto, TypeOK, vars, threadVars, placeVars, loopVars, globalVars, clientVars
  <2>2. ASSUME NEW t \in Threads, SeeBreak(t) PROVE TypeOK'
    BY <2>2
    DEF SeeBreak, Goto, TypeOK, vars, threadVars, placeVars, loopVars, globalVars, clientVars
  <2>3. ASSUME NEW t \in Threads, EndStep(t) PROVE TypeOK'
    BY <2>3
    DEF EndStep, Goto, TypeOK, vars, threadVars, placeVars, loopVars, globalVars, clientVars
  <2>4. ASSUME NEW t \in Threads, ClearStepping(t) PROVE TypeOK'
    BY <2>4
    DEF ClearStepping, Goto, TypeOK, vars, threadVars, placeVars, loopVars, globalVars, clientVars
  <2>5. ASSUME NEW t \in Threads, Enter(t) PROVE TypeOK'
    BY <2>5 DEF Enter, Goto, TypeOK, vars, threadVars, placeVars, loopVars, globalVars, clientVars
  <2>6. ASSUME NEW t \in Threads, LookAtBreak(t) PROVE TypeOK'
    BY <2>6
    DEF LookAtBreak, Goto, TypeOK, vars, threadVars, placeVars, loopVars, globalVars, clientVars
  <2>7. ASSUME NEW t \in Threads, SendBreak(t) PROVE TypeOK'
    BY <2>7
    DEF SendBreak, ShowStop, Goto, TypeOK, vars, threadVars, placeVars, loopVars, globalVars,
        clientVars
  <2>8. ASSUME NEW t \in Threads, Refresh(t) PROVE TypeOK'
    <3>1. todo' \in [Threads -> SUBSET Threads]
      <4>1. ASSUME NEW u \in todo[t], todo' = [todo EXCEPT ![t] = @ \ {u}]
            PROVE  todo' \in [Threads -> SUBSET Threads]
        <5>1. todo \in [Threads -> SUBSET Threads] /\ todo[t] \ {u} \in SUBSET Threads
          BY DEF TypeOK
        <5> QED
          BY <4>1, <5>1
      <4> QED
        BY <2>8, <4>1 DEF Refresh, TypeOK
    <3>2. pc' \in [Threads -> Places]
      BY <2>8 DEF Refresh, Goto, TypeOK
    <3> QED
      BY <2>8, <3>1, <3>2 DEF Refresh,
         TypeOK, threadVars, loopVars, globalVars, clientVars
  <2>9. ASSUME NEW t \in Threads, Report(t) PROVE TypeOK'
    <3>1. requests' \in Seq(Message)
      <4>1. ASSUME NEW kind \in {"autoResume", "resumeThread"}, Tell(t, kind)
            PROVE  requests' \in Seq(Message)
        <5>1. [kind |-> kind, thread |-> t] \in Message /\ requests \in Seq(Message)
          BY DEF Message, TypeOK
        <5> QED
          BY <4>1, <5>1 DEF Tell
      <4>2. requests' = requests \/ Tell(t, "resumeThread") \/ Tell(t, "autoResume")
        BY <2>9 DEF Report
      <4> QED
        BY <4>1, <4>2 DEF TypeOK, Message
    <3>2. client' \in {"running", "stopped"} /\ asked' \subseteq asked
      BY <2>9 DEF Report, ShowStop, Tell, TypeOK
    <3>3. pc' \in [Threads -> Places]
      BY <2>9 DEF Report, Goto, TypeOK
    <3> QED
      BY <2>9, <3>1, <3>2, <3>3 DEF Report, Message,
         TypeOK, threadVars, loopVars, globalVars
  <2>10. ASSUME NEW t \in Threads, Mark(t) PROVE TypeOK'
    BY <2>10 DEF Mark, Goto, TypeOK, vars, threadVars, placeVars, loopVars, globalVars, clientVars
  <2>11. ASSUME NEW t \in Threads, Wait(t) PROVE TypeOK'
    BY <2>11 DEF Wait, Goto, TypeOK, vars, threadVars, placeVars, loopVars, globalVars, clientVars
  <2>12. ASSUME NEW t \in Threads, CheckDetached(t) PROVE TypeOK'
    BY <2>12
    DEF CheckDetached, Goto, TypeOK, vars, threadVars, placeVars, loopVars, globalVars, clientVars
  <2>13. ASSUME NEW t \in Threads, Acquire(t) PROVE TypeOK'
    BY <2>13
    DEF Acquire, Goto, TypeOK, vars, threadVars, placeVars, loopVars, globalVars, clientVars
  <2>14. ASSUME NEW t \in Threads, BeginWork(t) PROVE TypeOK'
    BY <2>14
    DEF BeginWork, Goto, TypeOK, vars, threadVars, placeVars, loopVars, globalVars, clientVars
  <2>15. ASSUME NEW t \in Threads, Answer(t) PROVE TypeOK'
    BY <2>15
    DEF Answer, Goto, TypeOK, vars, threadVars, placeVars, loopVars, globalVars, clientVars
  <2>16. ASSUME NEW t \in Threads, EndWork(t) PROVE TypeOK'
    BY <2>16
    DEF EndWork, Goto, TypeOK, vars, threadVars, placeVars, loopVars, globalVars, clientVars
  <2>17. ASSUME NEW t \in Threads, Leave(t) PROVE TypeOK'
    BY <2>17
    DEF Leave, Goto, TypeOK, vars, threadVars, placeVars, loopVars, globalVars, clientVars
  <2>18. ASSUME BeginBreakAll PROVE TypeOK'
    BY <2>18
    DEF BeginBreakAll, Begin, Request, TypeOK, vars, threadVars, placeVars, loopVars,
        globalVars, clientVars
  <2>19. ASSUME MarkAll PROVE TypeOK'
    BY <2>19 DEF MarkAll, TypeOK, vars, threadVars, placeVars, loopVars, globalVars, clientVars
  <2>20. ASSUME Continue PROVE TypeOK'
    <3>1. Begin("continue") /\ requests \in Seq(Message)
      BY <2>20 DEF Continue, TypeOK, Message
    <3>2. Request.thread \in Threads \cup {None} /\ requests' \in Seq(Message)
      BY <3>1, RequestTaken
    <3>3. Visit("resume", listed) => LoopTyped
      BY VisitTyped DEF TypeOK, Visits, LoopTyped
    <3> QED
      BY <2>20, <3>2, <3>3 DEF Continue, LoopTyped, Message,
         TypeOK, vars, threadVars, placeVars, loopVars, globalVars, clientVars
  <2>21. ASSUME Step PROVE TypeOK'
    <3>1. Begin("step") /\ requests \in Seq(Message)
      BY <2>21 DEF Step, TypeOK, Message
    <3>2. Request.thread \in Threads \cup {None} /\ requests' \in Seq(Message)
      BY <3>1, RequestTaken
    <3>3. Visit("resume", listed) => LoopTyped
      BY VisitTyped DEF TypeOK, Visits, LoopTyped
    <3> QED
      BY <2>21, <3>2, <3>3 DEF Step, Error, LoopTyped, Message,
         TypeOK, vars, threadVars, placeVars, loopVars, globalVars, clientVars
  <2>22. ASSUME AutoResume PROVE TypeOK'
    <3>1. Begin("autoResume") /\ requests \in Seq(Message)
      BY <2>22 DEF AutoResume, TypeOK, Message
    <3>2. Request.thread \in Threads \cup {None} /\ requests' \in Seq(Message)
      BY <3>1, RequestTaken
    <3>3. Visit("resume", listed) => LoopTyped
      BY VisitTyped DEF TypeOK, Visits, LoopTyped
    <3> QED
      BY <2>22, <3>2, <3>3 DEF AutoResume, Error, LoopTyped, Message,
         TypeOK, vars, threadVars, placeVars, loopVars, globalVars, clientVars
  <2>23. ASSUME ResumeThread PROVE TypeOK'
    <3>1. Begin("resumeThread") /\ requests \in Seq(Message)
      BY <2>23 DEF ResumeThread, TypeOK, Message
    <3>2. Request.thread \in Threads \cup {None} /\ requests' \in Seq(Message)
      BY <3>1, RequestTaken
    <3> QED
      BY <2>23, <3>2 DEF ResumeThread, Error, UnblockMishaps, Message,
         TypeOK, vars, threadVars, placeVars, loopVars, globalVars, clientVars
  <2>24. ASSUME ResumeVisit PROVE TypeOK'
    BY <2>24
    DEF ResumeVisit, Visit, Unblock, ResumeMishaps, UnblockMishaps, TypeOK, vars, threadVars,
        placeVars, loopVars, globalVars, clientVars
  <2>25. ASSUME BeginEvaluate PROVE TypeOK'
    BY <2>25
    DEF BeginEvaluate, Visit, Begin, Request, TypeOK, vars, threadVars, placeVars, loopVars,
        globalVars, clientVars
  <2>26. ASSUME Evaluate PROVE TypeOK'
    BY <2>26
    DEF Evaluate, Visit, Unblock, UnblockMishaps, TypeOK, vars, threadVars, placeVars,
        loopVars, globalVars, clientVars
  <2>27. ASSUME BeginDetach PROVE TypeOK'
    BY <2>27
    DEF BeginDetach, Visit, Begin, Request, TypeOK, vars, threadVars, placeVars, loopVars,
        globalVars, clientVars
  <2>28. ASSUME DetachVisit PROVE TypeOK'
    BY <2>28
    DEF DetachVisit, Visit, Error, TypeOK, vars, threadVars, placeVars, loopVars, globalVars,
        clientVars
  <2>29. ASSUME Detach PROVE TypeOK'
    BY <2>29
    DEF Detach, Visit, TypeOK, vars, threadVars, placeVars, loopVars, globalVars, clientVars
  <2>30. ASSUME AskBreakAll PROVE TypeOK'
    BY <2>30
    DEF AskBreakAll, Ask, TypeOK, vars, threadVars, placeVars, loopVars, globalVars, clientVars
  <2>31. ASSUME AskContinue PROVE TypeOK'
    BY <2>31
    DEF AskContinue, Ask, TypeOK, vars, threadVars, placeVars, loopVars, globalVars, clientVars
  <2>32. ASSUME AskStep PROVE TypeOK'
    BY <2>32
    DEF AskStep, Ask, TypeOK, vars, threadVars, placeVars, loopVars, globalVars, clientVars
  <2>33. ASSUME AskEvaluate PROVE TypeOK'
    BY <2>33
    DEF AskEvaluate, Ask, TypeOK, vars, threadVars, placeVars, loopVars, globalVars, clientVars
  <2>34. ASSUME AskDetach PROVE TypeOK'
    BY <2>34
    DEF AskDetach, Ask, TypeOK, vars, threadVars, placeVars, loopVars, globalVars, clientVars
  <2>35. CASE UNCHANGED vars
    BY <2>35 DEF TypeOK, vars, threadVars, placeVars, loopVars, globalVars, clientVars
  <2> QED
    BY <2>1, <2>2, <2>3, <2>4, <2>5, <2>6, <2>7, <2>8, <2>9, <2>10, <2>11, <2>12,
       <2>13, <2>14, <2>15, <2>16, <2>17, <2>18, <2>19, <2>20, <2>21, <2>22, <2>23,
       <2>24, <2>25, <2>26, <2>27, <2>28, <2>29, <2>30, <2>31, <2>32, <2>33, <2>34,
       <2>35
    DEF Next, ThreadStep, LoopStep
<1> QED
  BY <1>1, <1>2, PTL DEF Spec

\* A thread that reports why it stops holds its _block_starting_lock.
Locked == \A t \in Threads : pc[t] \in Reporting => startLock[t] = t

\* Only the thread takes its lock for itself, and only it gives it back, at the end
\* of the report; unblock() leaves a lock taken only when nobody holds it.
LEMMA ReportsUnderLock == Spec => []Locked
<1>1. Init => Locked
  BY DEF Init, Locked, Reporting
<1>2. TypeOK /\ Locked /\ [Next]_vars => Locked'
  <2> SUFFICES ASSUME TypeOK, Locked, [Next]_vars PROVE Locked'
    OBVIOUS
  <2> USE ThreadsAssumption DEF Locked, Reporting, Goto
  <2> DEFINE Typed == /\ pc \in [Threads -> Places]
                      /\ startLock \in [Threads -> Threads \cup {Loop, None}]
  <2>0. Typed
    BY DEF TypeOK
  <2>1. ASSUME NEW t \in Threads, Hit(t) PROVE Locked'
    BY <2>0, <2>1 DEF Hit, threadVars
  <2>2. ASSUME NEW t \in Threads, SeeBreak(t) PROVE Locked'
    BY <2>0, <2>2 DEF SeeBreak, threadVars
  <2>3. ASSUME NEW t \in Threads, EndStep(t) PROVE Locked'
    BY <2>0, <2>3 DEF EndStep, threadVars
  <2>4. ASSUME NEW t \in Threads, ClearStepping(t) PROVE Locked'
    BY <2>0, <2>4 DEF ClearStepping, threadVars
  <2>5. ASSUME NEW t \in Threads, Enter(t) PROVE Locked'
    BY <2>0, <2>5 DEF Enter, threadVars
  <2>6. ASSUME NEW t \in Threads, LookAtBreak(t) PROVE Locked'
    BY <2>0, <2>6 DEF LookAtBreak, threadVars
  <2>7. ASSUME NEW t \in Threads, SendBreak(t) PROVE Locked'
    BY <2>0, <2>7 DEF SendBreak, threadVars
  <2>8. ASSUME NEW t \in Threads, Refresh(t) PROVE Locked'
    BY <2>0, <2>8 DEF Refresh, threadVars
  <2>9. ASSUME NEW t \in Threads, Report(t) PROVE Locked'
    BY <2>0, <2>9 DEF Report, threadVars
  <2>10. ASSUME NEW t \in Threads, Mark(t) PROVE Locked'
    BY <2>0, <2>10 DEF Mark, threadVars
  <2>11. ASSUME NEW t \in Threads, Wait(t) PROVE Locked'
    BY <2>0, <2>11 DEF Wait, threadVars
  <2>12. ASSUME NEW t \in Threads, CheckDetached(t) PROVE Locked'
    BY <2>0, <2>12 DEF CheckDetached, threadVars
  <2>13. ASSUME NEW t \in Threads, Acquire(t) PROVE Locked'
    BY <2>0, <2>13 DEF Acquire, threadVars
  <2>14. ASSUME NEW t \in Threads, BeginWork(t) PROVE Locked'
    BY <2>0, <2>14 DEF BeginWork, threadVars
  <2>15. ASSUME NEW t \in Threads, Answer(t) PROVE Locked'
    BY <2>0, <2>15 DEF Answer, threadVars
  <2>16. ASSUME NEW t \in Threads, EndWork(t) PROVE Locked'
    BY <2>0, <2>16 DEF EndWork, threadVars
  <2>17. ASSUME NEW t \in Threads, Leave(t) PROVE Locked'
    BY <2>0, <2>17 DEF Leave, threadVars
  <2>18. CASE ResumeVisit
    <3>1. at \in Threads /\ pc' = pc /\ startLock[at] = None
      BY <2>18 DEF ResumeVisit, placeVars, TypeOK, Visits
    <3>2. startLock' = startLock \/ startLock' = [startLock EXCEPT ![at] = Loop]
      BY <2>18 DEF ResumeVisit, Unblock
    <3> QED
      BY <2>0, <3>1, <3>2
  <2>19. CASE Evaluate
    <3>1. at \in Threads /\ pc' = pc /\ startLock[at] = None
      BY <2>19 DEF Evaluate, placeVars, TypeOK, Visits
    <3>2. startLock' = startLock \/ startLock' = [startLock EXCEPT ![at] = Loop]
      BY <2>19 DEF Evaluate, Unblock
    <3> QED
      BY <2>0, <3>1, <3>2
  <2>20. ASSUME LoopStep, ~ ResumeVisit, ~ Evaluate PROVE Locked'
    BY <2>20
    DEF LoopStep, BeginBreakAll, MarkAll, Continue, Step, AutoResume, ResumeThread,
        BeginEvaluate, BeginDetach, DetachVisit, Detach,
                  threadVars, placeVars
  <2>21. ASSUME AskBreakAll \/ AskContinue \/ AskStep \/ AskEvaluate \/ AskDetach PROVE Locked'
    BY <2>21
    DEF AskBreakAll, AskContinue, AskStep, AskEvaluate, AskDetach, Ask, threadVars, placeVars
  <2>22. CASE UNCHANGED vars
    BY <2>22 DEF vars, threadVars, placeVars
  <2> QED
    BY <2>1, <2>2, <2>3, <2>4, <2>5, <2>6, <2>7, <2>8, <2>9, <2>10, <2>11, <2>12,
       <2>13, <2>14, <2>15, <2>16, <2>17, <2>18, <2>19, <2>20, <2>21, <2>22
    DEF Next, ThreadStep
<1> QED
  BY <1>1, <1>2, TypeCorrect, PTL DEF Spec

\* No resume and no evaluation lets a thread go before the reason of its stop has
\* been sent and the other threads have been marked: unblock() waits for the lock
\* that block() holds meanwhile.
THEOREM ReasonFirst == Spec => ReasonComesFirst
<1>1. ASSUME TypeOK, Locked, [Next]_vars
      PROVE  \A t \in released' \ released :
               handling \in {"resume", "evaluate"} => pc[t] \notin Reporting
  <2> SUFFICES ASSUME NEW t \in released', t \notin released,
                      handling \in {"resume", "evaluate"}
               PROVE  pc[t] \notin Reporting
    OBVIOUS
  <2>1. CASE ResumeVisit \/ Evaluate
    <3>1. t = at /\ startLock[at] = None /\ at \in Threads
      BY <1>1, <2>1 DEF ResumeVisit, Evaluate, Unblock, TypeOK, Visits
    <3> QED
      BY <3>1, <1>1, ThreadsAssumption DEF Locked
  <2>2. ASSUME NEW u \in Threads, Hit(u) \/ ThreadStep(u) PROVE released' \subseteq released
    BY <2>2
    DEF ThreadStep, Hit, SeeBreak, EndStep, ClearStepping, Enter, LookAtBreak, SendBreak,
        Refresh, Report, Mark, Wait, CheckDetached, Acquire, BeginWork, Answer, EndWork,
        Leave,
                threadVars
  <2>3. ASSUME LoopStep, ~ (ResumeVisit \/ Evaluate) PROVE released' \subseteq released
    BY <2>3
    DEF LoopStep, BeginBreakAll, MarkAll, Continue, Step, AutoResume, ResumeThread,
        BeginEvaluate, BeginDetach, DetachVisit, Detach,
                Begin, threadVars
  <2>4. ASSUME AskBreakAll \/ AskContinue \/ AskStep \/ AskEvaluate \/ AskDetach
        PROVE  released' \subseteq released
    BY <2>4 DEF AskBreakAll, AskContinue, AskStep, AskEvaluate, AskDetach,
                Ask, threadVars
  <2>5. CASE UNCHANGED vars
    BY <2>5 DEF vars, threadVars
  <2> QED
    BY <1>1, <2>1, <2>2, <2>3, <2>4, <2>5 DEF Next
<1>2. TypeOK /\ Locked /\ [Next]_vars =>
        [\A t \in released' \ released :
           handling \in {"resume", "evaluate"} => pc[t] \notin Reporting]_vars
  BY <1>1
<1> QED
  BY <1>2, TypeCorrect, ReportsUnderLock, PTL DEF Spec, ReasonComesFirst

-----------------------------------------------------------------------------
(* Nobody stays stopped while the client shows a running program           *)

\* The requests on their way, and those that resume every thread.
Pending == {requests[i] : i \in DOMAIN requests}

Resuming == \E m \in Pending : m.kind \in {"continue", "step", "autoResume"}

\* A resume of one thread is on its way: it lets that one go on, and is the mishap
\* "alone" when there is another.
Freed(t) == \E m \in Pending : m.kind = "resumeThread" /\ m.thread = t

Alone == \E m \in Pending : m.kind = "resumeThread" /\ Threads # {m.thread}

\* A request that begins is no longer on its way.
LEMMA RequestBegun ==
  ASSUME NEW kind, Begin(kind), requests \in Seq(Message)
  PROVE  /\ Pending' \subseteq Pending
         /\ Request \in Pending /\ Request.kind = kind
         /\ Resuming => Resuming' \/ kind \in {"continue", "step", "autoResume"}
         /\ Alone => Alone' \/ (kind = "resumeThread" /\ Threads # {Request.thread})
         /\ \A t : Freed(t) => Freed(t)' \/ (kind = "resumeThread" /\ t = Request.thread)
<1>1. /\ DOMAIN requests = 1 .. Len(requests) /\ Len(requests) \in Nat \ {0}
      /\ DOMAIN requests' = 1 .. Len(requests) - 1
      /\ \A i \in DOMAIN requests' : requests'[i] = requests[i + 1]
      /\ Request = requests[1] /\ Request.kind = kind
  BY DEF Begin, Request
<1>2. \A i \in DOMAIN requests' : i + 1 \in DOMAIN requests
  BY <1>1
<1>3. \A i \in DOMAIN requests :
        i = 1 \/ (i - 1 \in DOMAIN requests' /\ requests'[i - 1] = requests[i])
  BY <1>1
<1>4. Pending' \subseteq Pending /\ Request \in Pending
  BY <1>1, <1>2 DEF Pending
<1>5. Pending \subseteq Pending' \cup {Request}
  BY <1>1, <1>3 DEF Pending
<1> QED
  BY <1>1, <1>4, <1>5 DEF Resuming, Alone, Freed

\* A request that is sent joins the others.
LEMMA RequestSent ==
  ASSUME NEW m \in Message, requests \in Seq(Message), requests' = Append(requests, m)
  PROVE  /\ Pending' = Pending \cup {m}
         /\ Resuming => Resuming'
         /\ Alone => Alone'
         /\ \A t : Freed(t) => Freed(t)'
         /\ m.kind \in {"continue", "step", "autoResume"} => Resuming'
         /\ m.kind = "resumeThread" => Freed(m.thread)'
<1> DEFINE n == Len(requests) + 1
<1>1. /\ DOMAIN requests = 1 .. Len(requests) /\ Len(requests) \in Nat /\ DOMAIN requests' = 1 .. n
      /\ \A i \in 1 .. Len(requests) : requests'[i] = requests[i]
      /\ requests'[n] = m
  OBVIOUS
<1>2. DOMAIN requests' = DOMAIN requests \cup {n}
  BY <1>1
<1> HIDE DEF n
<1>3. Pending' = Pending \cup {m}
  BY <1>1, <1>2 DEF Pending
<1> QED
  BY <1>3 DEF Resuming, Alone, Freed

\* Without a request everything stays on its way.
LEMMA SameRequests ==
  ASSUME requests' = requests
  PROVE  /\ Pending' = Pending /\ Resuming' = Resuming /\ Alone' = Alone
         /\ \A t : Freed(t)' = Freed(t)
  BY DEF Pending, Resuming, Alone, Freed

\* The places inside block(), those with work, the threads the loop knows, the
\* threads requests are about, and the ends of steps.
Inside == Reporting \cup {"checking", "acquiring", "taken", "working", "answered", "leaving"}

Blocked == \A t \in Threads : t \in isBlocked <=> pc[t] \in Inside
AtWork == \A t \in Threads : t \in isWorking <=> pc[t] \in {"working", "answered"}
Known == ~ detached => listed = Threads
Named ==
  \A m \in Pending :
    m.kind \in {"step", "autoResume", "resumeThread"} => m.thread \in Threads

Ended == \A t \in Threads : pc[t] \in {"stepping", "returning"} => reason[t] = "step"

PlaceInv == Blocked /\ AtWork /\ Known /\ Named /\ Ended

\* Every step keeps the flags of the threads in line with their places.
LEMMA PlacesKept == TypeOK /\ PlaceInv /\ [Next]_vars => PlaceInv'
<1> SUFFICES ASSUME TypeOK, PlaceInv, [Next]_vars PROVE PlaceInv'
  OBVIOUS
<1>0. /\ pc \in [Threads -> Places]
      /\ reason \in [Threads -> StopKinds \cup {"none", "async", "step", "loaded"}]
      /\ requests \in Seq(Message) /\ (handling \in Visits => at \in Threads)
  BY DEF TypeOK, Message
<1> USE DEF PlaceInv, Blocked, AtWork, Known, Named, Ended, Inside, Reporting, Goto, threadVars,
        placeVars, loopVars, globalVars, clientVars
<1>1. ASSUME NEW t \in Threads, Hit(t) PROVE PlaceInv'
  BY <1>0, <1>1, SameRequests DEF Hit
<1>2. ASSUME NEW t \in Threads, SeeBreak(t) PROVE PlaceInv'
  BY <1>0, <1>2, SameRequests DEF SeeBreak
<1>3. ASSUME NEW t \in Threads, EndStep(t) PROVE PlaceInv'
  BY <1>0, <1>3, SameRequests DEF EndStep
<1>4. ASSUME NEW t \in Threads, ClearStepping(t) PROVE PlaceInv'
  BY <1>0, <1>4, SameRequests DEF ClearStepping
<1>5. ASSUME NEW t \in Threads, Enter(t) PROVE PlaceInv'
  BY <1>0, <1>5, SameRequests DEF Enter
<1>6. ASSUME NEW t \in Threads, LookAtBreak(t) PROVE PlaceInv'
  BY <1>0, <1>6, SameRequests DEF LookAtBreak
<1>7. ASSUME NEW t \in Threads, SendBreak(t) PROVE PlaceInv'
  BY <1>0, <1>7, SameRequests DEF SendBreak
<1>8. ASSUME NEW t \in Threads, Refresh(t) PROVE PlaceInv'
  BY <1>0, <1>8, SameRequests DEF Refresh
<1>9. ASSUME NEW t \in Threads, Report(t) PROVE PlaceInv'
  <2>1. requests' = requests \/ Tell(t, "resumeThread") \/ Tell(t, "autoResume")
    BY <1>9 DEF Report
  <2>2. ASSUME NEW kind \in {"resumeThread", "autoResume"}, Tell(t, kind) PROVE Named'
    <3> DEFINE m == [kind |-> kind, thread |-> t]
    <3>1. m \in Message /\ m.thread = t /\ requests' = Append(requests, m)
      BY <2>2 DEF Message, Tell
    <3> HIDE DEF m
    <3> QED
      BY <1>0, <3>1, RequestSent
  <2>3. Named'
    BY <2>1, <2>2, SameRequests
  <2> HIDE DEF Named
  <2> QED
    BY <1>0, <1>9, <2>3 DEF Report
<1>10. ASSUME NEW t \in Threads, Mark(t) PROVE PlaceInv'
  BY <1>0, <1>10, SameRequests DEF Mark
<1>11. ASSUME NEW t \in Threads, Wait(t) PROVE PlaceInv'
  BY <1>0, <1>11, SameRequests DEF Wait
<1>12. ASSUME NEW t \in Threads, CheckDetached(t) PROVE PlaceInv'
  BY <1>0, <1>12, SameRequests DEF CheckDetached
<1>13. ASSUME NEW t \in Threads, Acquire(t) PROVE PlaceInv'
  BY <1>0, <1>13, SameRequests DEF Acquire
<1>14. ASSUME NEW t \in Threads, BeginWork(t) PROVE PlaceInv'
  BY <1>0, <1>14, SameRequests DEF BeginWork
<1>15. ASSUME NEW t \in Threads, Answer(t) PROVE PlaceInv'
  BY <1>0, <1>15, SameRequests DEF Answer
<1>16. ASSUME NEW t \in Threads, EndWork(t) PROVE PlaceInv'
  BY <1>0, <1>16, SameRequests DEF EndWork
<1>17. ASSUME NEW t \in Threads, Leave(t) PROVE PlaceInv'
  BY <1>0, <1>17, SameRequests DEF Leave
<1>18. ASSUME BeginBreakAll PROVE PlaceInv'
  <2>1. Named'
    BY <1>0, <1>18, RequestBegun DEF BeginBreakAll
  <2> HIDE DEF Named
  <2> QED
    BY <1>0, <1>18, <2>1 DEF BeginBreakAll, Begin
<1>19. ASSUME MarkAll PROVE PlaceInv'
  BY <1>0, <1>19, SameRequests DEF MarkAll
<1>20. ASSUME Continue PROVE PlaceInv'
  <2>1. Named'
    BY <1>0, <1>20, RequestBegun DEF Continue
  <2> HIDE DEF Named
  <2> QED
    BY <1>0, <1>20, <2>1 DEF Continue, Begin
<1>21. ASSUME Step PROVE PlaceInv'
  <2>1. Named'
    BY <1>0, <1>21, RequestBegun DEF Step
  <2> HIDE DEF Named
  <2> QED
    BY <1>0, <1>21, <2>1 DEF Step, Begin
<1>22. ASSUME AutoResume PROVE PlaceInv'
  <2>1. Named'
    BY <1>0, <1>22, RequestBegun DEF AutoResume
  <2> HIDE DEF Named
  <2> QED
    BY <1>0, <1>22, <2>1 DEF AutoResume, Begin
<1>23. ASSUME ResumeThread PROVE PlaceInv'
  <2>1. Named'
    BY <1>0, <1>23, RequestBegun DEF ResumeThread
  <2> HIDE DEF Named
  <2> QED
    BY <1>0, <1>23, <2>1 DEF ResumeThread, Begin
<1>24. ASSUME ResumeVisit PROVE PlaceInv'
  BY <1>0, <1>24, SameRequests DEF ResumeVisit
<1>25. ASSUME BeginEvaluate PROVE PlaceInv'
  <2>1. Named'
    BY <1>0, <1>25, RequestBegun DEF BeginEvaluate
  <2> HIDE DEF Named
  <2> QED
    BY <1>0, <1>25, <2>1 DEF BeginEvaluate, Begin
<1>26. ASSUME Evaluate PROVE PlaceInv'
  BY <1>0, <1>26, SameRequests DEF Evaluate
<1>27. ASSUME BeginDetach PROVE PlaceInv'
  <2>1. Named'
    BY <1>0, <1>27, RequestBegun DEF BeginDetach
  <2> HIDE DEF Named
  <2> QED
    BY <1>0, <1>27, <2>1 DEF BeginDetach, Begin
<1>28. ASSUME DetachVisit PROVE PlaceInv'
  BY <1>0, <1>28, SameRequests DEF DetachVisit
<1>29. ASSUME Detach PROVE PlaceInv'
  BY <1>0, <1>29, SameRequests DEF Detach
<1>30. ASSUME AskBreakAll PROVE PlaceInv'
  <2>1. PICK m \in Message :
          /\ requests' = Append(requests, m)
          /\ m.kind \in {"breakAll", "continue", "evaluate", "detach"}
    BY <1>30 DEF AskBreakAll, Ask, Message, RequestKinds
  <2>2. Named'
    BY <1>0, <2>1, RequestSent
  <2> HIDE DEF Named
  <2> QED
    BY <1>0, <1>30, <2>2 DEF AskBreakAll, Ask
<1>31. ASSUME AskContinue PROVE PlaceInv'
  <2>1. PICK m \in Message :
          /\ requests' = Append(requests, m)
          /\ m.kind \in {"breakAll", "continue", "evaluate", "detach"}
    BY <1>31 DEF AskContinue, Ask, Message, RequestKinds
  <2>2. Named'
    BY <1>0, <2>1, RequestSent
  <2> HIDE DEF Named
  <2> QED
    BY <1>0, <1>31, <2>2 DEF AskContinue, Ask
<1>32. ASSUME AskStep PROVE PlaceInv'
  <2>1. PICK t \in Threads : requests' = Append(requests, [kind |-> "step", thread |-> t])
    BY <1>32 DEF AskStep, Ask
  <2> DEFINE m == [kind |-> "step", thread |-> t]
  <2>2. m \in Message /\ m.thread = t /\ requests' = Append(requests, m)
    BY <2>1 DEF Message, RequestKinds
  <2> HIDE DEF m
  <2>3. Named'
    BY <1>0, <2>2, RequestSent
  <2> HIDE DEF Named
  <2> QED
    BY <1>0, <1>32, <2>3 DEF AskStep, Ask
<1>33. ASSUME AskEvaluate PROVE PlaceInv'
  <2>1. PICK m \in Message :
          /\ requests' = Append(requests, m)
          /\ m.kind \in {"breakAll", "continue", "evaluate", "detach"}
    BY <1>33 DEF AskEvaluate, Ask, Message, RequestKinds
  <2>2. Named'
    BY <1>0, <2>1, RequestSent
  <2> HIDE DEF Named
  <2> QED
    BY <1>0, <1>33, <2>2 DEF AskEvaluate, Ask
<1>34. ASSUME AskDetach PROVE PlaceInv'
  <2>1. PICK m \in Message :
          /\ requests' = Append(requests, m)
          /\ m.kind \in {"breakAll", "continue", "evaluate", "detach"}
    BY <1>34 DEF AskDetach, Ask, Message, RequestKinds
  <2>2. Named'
    BY <1>0, <2>1, RequestSent
  <2> HIDE DEF Named
  <2> QED
    BY <1>0, <1>34, <2>2 DEF AskDetach, Ask
<1>35. CASE UNCHANGED vars
  BY <1>0, <1>35, SameRequests DEF vars
<1> HIDE DEF PlaceInv, Blocked, AtWork, Known, Named, Ended, Inside, Reporting, Goto, threadVars,
         placeVars, loopVars, globalVars, clientVars
<1> QED
  BY <1>1, <1>2, <1>3, <1>4, <1>5, <1>6, <1>7, <1>8, <1>9, <1>10, <1>11, <1>12, <1>13, <1>14,
     <1>15, <1>16, <1>17, <1>18, <1>19, <1>20, <1>21, <1>22, <1>23, <1>24, <1>25, <1>26, <1>27,
     <1>28, <1>29, <1>30, <1>31, <1>32, <1>33, <1>34, <1>35
  DEF Next, ThreadStep, LoopStep

\* What is said of the stops holds while none of the named mishaps has happened and
\* the client has not detached.
Normal == ~ detached /\ mishaps = {} /\ handling \notin {"detach", "detached"}

\* Nothing that the properties leave out is ever undone.
LEMMA NormalWas == TypeOK /\ PlaceInv /\ [Next]_vars /\ Normal' => Normal
<1> SUFFICES ASSUME TypeOK, PlaceInv, [Next]_vars, Normal' PROVE Normal
  OBVIOUS
<1>1. mishaps \subseteq mishaps'
  BY DEF Next, ThreadStep, LoopStep, Hit, SeeBreak, EndStep, ClearStepping, Enter, LookAtBreak,
         SendBreak, Refresh, Report, Mark, Wait, CheckDetached, Acquire, BeginWork, Answer, EndWork,
         Leave, BeginBreakAll, MarkAll, Continue, Step, AutoResume, ResumeThread, ResumeVisit,
         BeginEvaluate, Evaluate, BeginDetach, DetachVisit, Detach, AskBreakAll, AskContinue,
         AskStep, AskEvaluate, AskDetach, Ask, Error, vars
<1>5. detached => detached'
  BY DEF Next, ThreadStep, LoopStep, Hit, SeeBreak, EndStep, ClearStepping, Enter, LookAtBreak,
         SendBreak, Refresh, Report, Mark, Wait, CheckDetached, Acquire, BeginWork, Answer, EndWork,
         Leave, BeginBreakAll, MarkAll, Continue, Step, AutoResume, ResumeThread, ResumeVisit,
         BeginEvaluate, Evaluate, BeginDetach, DetachVisit, Detach, AskBreakAll, AskContinue,
         AskStep, AskEvaluate, AskDetach, Ask, Error, globalVars, vars
<1>2. handling \in {"detach", "detached"} => handling' = handling \/ DetachVisit \/ Detach
  BY DEF Next, ThreadStep, LoopStep, Hit, SeeBreak, EndStep, ClearStepping, Enter, LookAtBreak,
         SendBreak, Refresh, Report, Mark, Wait, CheckDetached, Acquire, BeginWork, Answer, EndWork,
         Leave, BeginBreakAll, MarkAll, Continue, Step, AutoResume, ResumeThread, ResumeVisit,
         BeginEvaluate, Evaluate, BeginDetach, AskBreakAll, AskContinue,
         AskStep, AskEvaluate, AskDetach, Ask, Begin, loopVars, vars
<1>3. DetachVisit => handling' \in {"detach", "detached"} \/ mishaps' # {}
  BY DEF DetachVisit, Visit, Error
<1>4. Detach => detached'
  BY DEF Detach
<1> QED
  BY <1>1, <1>2, <1>3, <1>4, <1>5 DEF Normal

\* A resume of every thread will still reach this one.
Coming(t) == Resuming \/ (handling = "resume" /\ t \in {at} \cup rest)

\* The client shows a stop, or it has told the thread to go on.
Shown(t) == client = "stopped" \/ Coming(t) \/ Alone

\* A thread is about to show the stop, and somebody will when the next one looks.
Claiming == \E v \in Threads : pc[v] = "claiming"
Claimed == sendBreakComplete \/ Claiming

\* A thread that is marked for a break, or on its way into block() because of one.
Awaits(t) ==
  \/ stepping[t] = "break" \/ pc[t] = "breaking"
  \/ pc[t] \in {"entering", "reporting"} /\ reason[t] = "async"

\* A thread that has reported, or needs no report, and that nothing lets go on: a lock
\* that is released for its work comes back to it.
Stays(t) ==
  \/ /\ pc[t] \in {"marking", "refreshing", "reported", "checking", "acquiring"}
     /\ t \notin released \/ t \in work
  \/ pc[t] \in {"taken", "working", "answered"} /\ t \notin released

BreaksShown == \A t \in Threads : Awaits(t) => Shown(t) \/ Claimed
StopsShown == \A t \in Threads : Stays(t) => Shown(t) \/ Claiming \/ Freed(t)

\* Whoever marks the threads for a break has shown the stop or will see to it.
MarksShown ==
  /\ \A t \in Threads : pc[t] = "marking" => Shown(t) \/ Threads = {t}
  /\ handling = "marking" => \A t \in Threads : Shown(t) \/ Claimed

\* Work is given to a thread that waits, with its lock released, and done before it
\* waits again.
WorkInside ==
  \A t \in work : \/ pc[t] \in {"checking", "acquiring"} /\ t \in released
                  \/ pc[t] \in {"taken", "working", "answered"}

AllShown == BreaksShown /\ StopsShown /\ MarksShown /\ WorkInside

StopInv == Normal => AllShown

\* What the client asks joins the requests on their way.
LEMMA AskedIs ==
  ASSUME TypeOK, NEW kind \in RequestKinds, NEW t \in Threads \cup {None}, Ask(kind, t)
  PROVE  /\ kind \in {"continue", "step"} => Resuming'
         /\ client' = client => \A u \in Threads : Shown(u) => Shown(u)'
         /\ \A u \in Threads : Freed(u) => Freed(u)'
<1> DEFINE m == [kind |-> kind, thread |-> t]
<1>1. m \in Message /\ m.kind = kind /\ requests \in Seq(Message) /\ requests' = Append(requests, m)
  BY DEF Message, Ask, TypeOK
<1> HIDE DEF m
<1>2. /\ Resuming => Resuming'
      /\ Alone => Alone'
      /\ \A u : Freed(u) => Freed(u)'
      /\ kind \in {"continue", "step"} => Resuming'
  BY <1>1, RequestSent
<1>3. UNCHANGED loopVars
  BY DEF Ask
<1> QED
  BY <1>2, <1>3 DEF Shown, Coming, loopVars

\* A request that resumes every thread reaches every thread.
LEMMA ResumeComes ==
  ASSUME Visit("resume", Threads)
  PROVE  \A u \in Threads : Coming(u)'
  BY DEF Visit, Coming

\* Any other request that begins leaves the rest on their way.
LEMMA OtherBegun ==
  ASSUME TypeOK, NEW kind, kind \notin {"continue", "step", "autoResume", "resumeThread"},
         Begin(kind), UNCHANGED client
  PROVE  \A u \in Threads : (Shown(u) => Shown(u)') /\ (Freed(u) => Freed(u)')
<1>1. requests \in Seq(Message) /\ handling = "idle"
  BY DEF TypeOK, Message, Begin
<1>2. (Resuming => Resuming') /\ (Alone => Alone') /\ \A u : Freed(u) => Freed(u)'
  BY <1>1, RequestBegun
<1> QED
  BY <1>1, <1>2 DEF Shown, Coming

\* Each step keeps the excuse of every thread that stops, or is one of the mishaps.
LEMMA StopInvKept == TypeOK /\ PlaceInv /\ Locked /\ StopInv /\ [Next]_vars => StopInv'
<1> SUFFICES ASSUME TypeOK, PlaceInv, Locked, StopInv, [Next]_vars, Normal'
             PROVE  AllShown'
  BY DEF StopInv
<1>0. Normal /\ AllShown
  BY NormalWas DEF StopInv
<1>t. /\ pc \in [Threads -> Places] /\ requests \in Seq(Message)
      /\ (handling \in Visits => at \in Threads)
      /\ work \subseteq Threads
      /\ stepping \in [Threads -> {"none", "break", "step"}]
      /\ startLock \in [Threads -> Threads \cup {Loop, None}]
      /\ reason \in [Threads -> StopKinds \cup {"none", "async", "step", "loaded"}]
  BY DEF TypeOK, Message
<1>u. UNCHANGED <<requests, client, loopVars>> =>
        \A u \in Threads : (Shown(u) => Shown(u)') /\ (Freed(u) => Freed(u)')
  BY SameRequests DEF Shown, Coming, loopVars
<1> USE DEF AllShown, BreaksShown, StopsShown, MarksShown, WorkInside,
        Claimed, Awaits, Stays, Goto, threadVars, placeVars, loopVars, globalVars, clientVars
<1>1. ASSUME NEW t \in Threads, Hit(t) PROVE AllShown'
  <2>1. \A u \in Threads : (Shown(u) => Shown(u)') /\ (Freed(u) => Freed(u)')
    BY <1>1, <1>u DEF Hit
  <2>2. Claiming => Claiming'
    BY <1>1, <1>t DEF Hit, Claiming
  <2>3. /\ reason' \in [Threads -> StopKinds \cup {"none", "async", "step", "loaded"}]
        /\ reason'[t] # "async" /\ \A u \in Threads \ {t} : reason'[u] = reason[u]
    BY <1>1, <1>t, ThreadsAssumption DEF Hit, StopKinds
  <2>4. BreaksShown'
    BY <1>0, <1>t, <1>1, <2>1, <2>2, <2>3 DEF Hit
  <2>5. StopsShown'
    BY <1>0, <1>t, <1>1, <2>1, <2>2, <2>3 DEF Hit
  <2>6. MarksShown'
    BY <1>0, <1>t, <1>1, <2>1, <2>2, <2>3 DEF Hit
  <2>7. WorkInside'
    BY <1>0, <1>t, <1>1, <2>1, <2>2, <2>3 DEF Hit
  <2> QED
    BY <2>4, <2>5, <2>6, <2>7
<1>2. ASSUME NEW t \in Threads, SeeBreak(t) PROVE AllShown'
  <2>1. \A u \in Threads : (Shown(u) => Shown(u)') /\ (Freed(u) => Freed(u)')
    BY <1>2, <1>u DEF SeeBreak
  <2>2. Claiming => Claiming'
    BY <1>2, <1>t DEF SeeBreak, Claiming
  <2>3. \/ t \in detach /\ pc' = [pc EXCEPT ![t] = "untraced"] /\ reason' = reason
        \/ pc' = [pc EXCEPT ![t] = "breaking"] /\ reason' = [reason EXCEPT ![t] = "async"]
    BY <1>2 DEF SeeBreak
  <2>4. BreaksShown'
    BY <1>0, <1>t, <1>2, <2>1, <2>2, <2>3 DEF SeeBreak
  <2>5. StopsShown'
    BY <1>0, <1>t, <1>2, <2>1, <2>2, <2>3 DEF SeeBreak
  <2>6. MarksShown'
    BY <1>0, <1>t, <1>2, <2>1, <2>2, <2>3 DEF SeeBreak
  <2>7. WorkInside'
    BY <1>0, <1>t, <1>2, <2>1, <2>2, <2>3 DEF SeeBreak
  <2> QED
    BY <2>4, <2>5, <2>6, <2>7
<1>3. ASSUME NEW t \in Threads, EndStep(t) PROVE AllShown'
  <2>1. \A u \in Threads : (Shown(u) => Shown(u)') /\ (Freed(u) => Freed(u)')
    BY <1>3, <1>u DEF EndStep
  <2>2. Claiming => Claiming'
    BY <1>3, <1>t DEF EndStep, Claiming
  <2> QED
    BY <1>0, <1>t, <1>3, <2>1, <2>2 DEF EndStep
<1>4. ASSUME NEW t \in Threads, ClearStepping(t) PROVE AllShown'
  <2>1. \A u \in Threads : (Shown(u) => Shown(u)') /\ (Freed(u) => Freed(u)')
    BY <1>4, <1>u DEF ClearStepping
  <2>2. Claiming => Claiming'
    BY <1>4, <1>t DEF ClearStepping, Claiming
  <2>3. reason' = reason
    BY <1>4 DEF ClearStepping, Normal
  <2>4. pc[t] \in {"stepping", "returning"} => reason[t] = "step"
    BY DEF PlaceInv, Ended
  <2>5. BreaksShown'
    BY <1>0, <1>t, <1>4, <2>1, <2>2, <2>3, <2>4 DEF ClearStepping
  <2>6. StopsShown'
    BY <1>0, <1>t, <1>4, <2>1, <2>2, <2>3, <2>4 DEF ClearStepping
  <2>7. MarksShown'
    BY <1>0, <1>t, <1>4, <2>1, <2>2, <2>3, <2>4 DEF ClearStepping
  <2>8. WorkInside'
    BY <1>0, <1>t, <1>4, <2>1, <2>2, <2>3, <2>4 DEF ClearStepping
  <2> QED
    BY <2>5, <2>6, <2>7, <2>8
<1>5. ASSUME NEW t \in Threads, Enter(t) PROVE AllShown'
  <2>1. \A u \in Threads : (Shown(u) => Shown(u)') /\ (Freed(u) => Freed(u)')
    BY <1>5, <1>u DEF Enter
  <2>2. Claiming => Claiming'
    BY <1>5, <1>t DEF Enter, Claiming
  <2> QED
    BY <1>0, <1>t, <1>5, <2>1, <2>2 DEF Enter
<1>6. ASSUME NEW t \in Threads, LookAtBreak(t) PROVE AllShown'
  <2>1. \A u \in Threads : (Shown(u) => Shown(u)') /\ (Freed(u) => Freed(u)')
    BY <1>6, <1>u DEF LookAtBreak
  <2>2. Claiming => Claiming'
    BY <1>6, <1>t DEF LookAtBreak, Claiming
  <2> QED
    BY <1>0, <1>t, <1>6, <2>1, <2>2 DEF LookAtBreak
<1>7. ASSUME NEW t \in Threads, SendBreak(t) PROVE AllShown'
  <2>1. \A u \in Threads : Shown(u)'
    BY <1>7 DEF SendBreak, ShowStop, Shown
  <2>2. WorkInside'
    BY <1>0, <1>t, <1>7 DEF SendBreak
  <2> QED
    BY <2>1, <2>2
<1>8. ASSUME NEW t \in Threads, Refresh(t) PROVE AllShown'
  <2>1. \A u \in Threads : (Shown(u) => Shown(u)') /\ (Freed(u) => Freed(u)')
    BY <1>8, <1>u DEF Refresh
  <2>2. Claiming => Claiming'
    BY <1>8, <1>t DEF Refresh, Claiming
  <2>3. pc[t] = "refreshing" /\ (pc' = pc \/ pc' = [pc EXCEPT ![t] = "reported"])
    BY <1>8 DEF Refresh
  <2>4. BreaksShown'
    BY <1>0, <1>t, <1>8, <2>1, <2>2, <2>3 DEF Refresh
  <2>5. StopsShown'
    BY <1>0, <1>t, <1>8, <2>1, <2>2, <2>3 DEF Refresh
  <2>6. MarksShown'
    BY <1>0, <1>t, <1>8, <2>1, <2>2, <2>3 DEF Refresh
  <2>7. WorkInside'
    BY <1>0, <1>t, <1>8, <2>1, <2>2, <2>3 DEF Refresh
  <2> QED
    BY <2>4, <2>5, <2>6, <2>7
<1>9. ASSUME NEW t \in Threads, Report(t) PROVE AllShown'
  <2>1. /\ pc[t] = "reporting"
        /\ pc' = [pc EXCEPT ![t] = "marking"] \/ pc' = [pc EXCEPT ![t] = "reported"]
    BY <1>9 DEF Report
  <2>2. /\ \A u \in Threads : (Shown(u) => Shown(u)') /\ (Freed(u) => Freed(u)')
        /\ Shown(t)' \/ Freed(t)'
    <3>1. CASE ShowStop /\ UNCHANGED requests
      BY <3>1, SameRequests DEF ShowStop, Shown
    <3>2. ASSUME NEW kind \in {"autoResume", "resumeThread"}, Tell(t, kind)
          PROVE  /\ \A u \in Threads : (Shown(u) => Shown(u)') /\ (Freed(u) => Freed(u)')
                 /\ Shown(t)' \/ Freed(t)'
      <4> DEFINE m == [kind |-> kind, thread |-> t]
      <4>1. m \in Message /\ m.kind = kind /\ m.thread = t /\ requests' = Append(requests, m)
        BY <3>2 DEF Message, Tell
      <4> HIDE DEF m
      <4>2. /\ Resuming => Resuming'
            /\ Alone => Alone'
            /\ \A u : Freed(u) => Freed(u)'
            /\ kind = "autoResume" => Resuming'
            /\ kind = "resumeThread" => Freed(t)'
        BY <1>t, <4>1, RequestSent
      <4>3. UNCHANGED <<client, loopVars>>
        BY <3>2, <1>9 DEF Tell, Report
      <4> QED
        BY <4>2, <4>3, <3>2 DEF Shown, Coming
    <3>3. CASE client = "stopped" /\ UNCHANGED <<requests, client, asked>>
      BY <3>3, SameRequests DEF Shown
    <3> QED
      BY <3>1, <3>2, <3>3, <1>9 DEF Report
  <2>3. Claiming => Claiming'
    BY <2>1, <1>t DEF Claiming
  <2>4. Freed(t)' => Shown(t)' \/ Threads = {t}
    BY DEF Freed, Alone, Shown
  <2>5. UNCHANGED <<stepping, reason, released, work, sendBreakComplete, handling>>
    BY <1>9 DEF Report
  <2>6. BreaksShown'
    BY <1>0, <1>t, <2>2, <2>3, <2>1, <2>4, <2>5
  <2>7. StopsShown'
    BY <1>0, <1>t, <2>2, <2>3, <2>1, <2>4, <2>5
  <2>8. MarksShown'
    BY <1>0, <1>t, <2>2, <2>3, <2>1, <2>4, <2>5
  <2>9. WorkInside'
    BY <1>0, <1>t, <2>2, <2>3, <2>1, <2>4, <2>5
  <2> QED
    BY <2>6, <2>7, <2>8, <2>9
<1>10. ASSUME NEW t \in Threads, Mark(t) PROVE AllShown'
  <2>1. /\ pc[t] = "marking" /\ pc' = [pc EXCEPT ![t] = "reported"]
        /\ \A u \in Threads : stepping'[u] = "break" => (stepping[u] = "break" \/ u # t)
    BY <1>10, <1>t DEF Mark
  <2>2. \A u \in Threads : (Shown(u) => Shown(u)') /\ (Freed(u) => Freed(u)')
    BY <1>10, <1>u DEF Mark
  <2>3. Claiming => Claiming'
    BY <1>10, <1>t DEF Mark, Claiming
  <2>4. \A u \in Threads \ {t} : Shown(u)
    <3>1. Shown(t) \/ Threads = {t}
      BY <1>0, <2>1
    <3>2. handling = "resume" => Threads \subseteq {t, at} \cup rest
      BY <1>0, <1>10 DEF Mark, Normal, PlaceInv, Known
    <3> QED
      BY <3>1, <3>2 DEF Shown, Coming
  <2>5. UNCHANGED <<reason, released, work, sendBreakComplete, handling>>
    BY <1>10 DEF Mark
  <2>6. BreaksShown'
    BY <1>0, <1>t, <2>2, <2>3, <2>1, <2>4, <2>5
  <2>7. StopsShown'
    BY <1>0, <1>t, <2>2, <2>3, <2>1, <2>4, <2>5
  <2>8. MarksShown'
    BY <1>0, <1>t, <2>2, <2>3, <2>1, <2>4, <2>5
  <2>9. WorkInside'
    BY <1>0, <1>t, <2>2, <2>3, <2>1, <2>4, <2>5
  <2> QED
    BY <2>6, <2>7, <2>8, <2>9
<1>11. ASSUME NEW t \in Threads, Wait(t) PROVE AllShown'
  <2>1. \A u \in Threads : (Shown(u) => Shown(u)') /\ (Freed(u) => Freed(u)')
    BY <1>11, <1>u DEF Wait
  <2>2. Claiming => Claiming'
    BY <1>11, <1>t DEF Wait, Claiming
  <2> QED
    BY <1>0, <1>t, <1>11, <2>1, <2>2 DEF Wait
<1>12. ASSUME NEW t \in Threads, CheckDetached(t) PROVE AllShown'
  <2>1. \A u \in Threads : (Shown(u) => Shown(u)') /\ (Freed(u) => Freed(u)')
    BY <1>12, <1>u DEF CheckDetached
  <2>2. Claiming => Claiming'
    BY <1>12, <1>t DEF CheckDetached, Claiming
  <2>3. pc' = [pc EXCEPT ![t] = "acquiring"]
    BY <1>0, <1>12 DEF CheckDetached, Normal
  <2>4. BreaksShown'
    BY <1>0, <1>t, <1>12, <2>1, <2>2, <2>3 DEF CheckDetached
  <2>5. StopsShown'
    BY <1>0, <1>t, <1>12, <2>1, <2>2, <2>3 DEF CheckDetached
  <2>6. MarksShown'
    BY <1>0, <1>t, <1>12, <2>1, <2>2, <2>3 DEF CheckDetached
  <2>7. WorkInside'
    BY <1>0, <1>t, <1>12, <2>1, <2>2, <2>3 DEF CheckDetached
  <2> QED
    BY <2>4, <2>5, <2>6, <2>7
<1>13. ASSUME NEW t \in Threads, Acquire(t) PROVE AllShown'
  <2>1. \A u \in Threads : (Shown(u) => Shown(u)') /\ (Freed(u) => Freed(u)')
    BY <1>13, <1>u DEF Acquire
  <2>2. Claiming => Claiming'
    BY <1>13, <1>t DEF Acquire, Claiming
  <2> QED
    BY <1>0, <1>t, <1>13, <2>1, <2>2 DEF Acquire
<1>14. ASSUME NEW t \in Threads, BeginWork(t) PROVE AllShown'
  <2>1. \A u \in Threads : (Shown(u) => Shown(u)') /\ (Freed(u) => Freed(u)')
    BY <1>14, <1>u DEF BeginWork
  <2>2. Claiming => Claiming'
    BY <1>14, <1>t DEF BeginWork, Claiming
  <2> QED
    BY <1>0, <1>t, <1>14, <2>1, <2>2 DEF BeginWork
<1>15. ASSUME NEW t \in Threads, Answer(t) PROVE AllShown'
  <2>1. \A u \in Threads : (Shown(u) => Shown(u)') /\ (Freed(u) => Freed(u)')
    BY <1>15, <1>u DEF Answer
  <2>2. Claiming => Claiming'
    BY <1>15, <1>t DEF Answer, Claiming
  <2> QED
    BY <1>0, <1>t, <1>15, <2>1, <2>2 DEF Answer
<1>16. ASSUME NEW t \in Threads, EndWork(t) PROVE AllShown'
  <2>1. \A u \in Threads : (Shown(u) => Shown(u)') /\ (Freed(u) => Freed(u)')
    BY <1>16, <1>u DEF EndWork
  <2>2. Claiming => Claiming'
    BY <1>16, <1>t DEF EndWork, Claiming
  <2> QED
    BY <1>0, <1>t, <1>16, <2>1, <2>2 DEF EndWork
<1>17. ASSUME NEW t \in Threads, Leave(t) PROVE AllShown'
  <2>1. \A u \in Threads : (Shown(u) => Shown(u)') /\ (Freed(u) => Freed(u)')
    BY <1>17, <1>u DEF Leave
  <2>2. Claiming => Claiming'
    BY <1>17, <1>t DEF Leave, Claiming
  <2> QED
    BY <1>0, <1>t, <1>17, <2>1, <2>2 DEF Leave
<1>18. ASSUME BeginBreakAll PROVE AllShown'
  <2>1. \A u \in Threads : (Shown(u) => Shown(u)') /\ (Freed(u) => Freed(u)')
    BY <1>18, OtherBegun DEF BeginBreakAll
  <2>2. Claiming => Claiming'
    BY <1>18 DEF BeginBreakAll, Claiming
  <2> QED
    BY <1>0, <1>t, <1>18, <2>1, <2>2 DEF BeginBreakAll, Begin, Visit
<1>19. ASSUME MarkAll PROVE AllShown'
  <2>1. \A u \in Threads : (Shown(u) => Shown(u)') /\ (Freed(u) => Freed(u)')
    BY <1>19, SameRequests DEF MarkAll, Shown, Coming
  <2>2. Claiming => Claiming'
    BY <1>19 DEF MarkAll, Claiming
  <2> QED
    BY <1>0, <1>t, <1>19, <2>1, <2>2 DEF MarkAll
<1>20. ASSUME Continue PROVE AllShown'
  <2>1. Visit("resume", Threads)
    BY <1>0, <1>t, <1>20, RequestBegun DEF Continue, PlaceInv, Known, Named, Normal, Error
  <2>2. \A u \in Threads : Shown(u)'
    BY <2>1, ResumeComes DEF Shown
  <2>3. WorkInside' /\ handling' # "marking"
    BY <1>0, <1>20, <2>1 DEF Continue, Visit
  <2> QED
    BY <2>2, <2>3
<1>21. ASSUME Step PROVE AllShown'
  <2>1. Visit("resume", Threads)
    BY <1>0, <1>t, <1>21, RequestBegun DEF Step, PlaceInv, Known, Named, Normal, Error
  <2>2. \A u \in Threads : Shown(u)'
    BY <2>1, ResumeComes DEF Shown
  <2>3. WorkInside' /\ handling' # "marking"
    BY <1>0, <1>21, <2>1 DEF Step, Visit
  <2> QED
    BY <2>2, <2>3
<1>22. ASSUME AutoResume PROVE AllShown'
  <2>1. Visit("resume", Threads)
    BY <1>0, <1>t, <1>22, RequestBegun DEF AutoResume, PlaceInv, Known, Named, Normal, Error
  <2>2. \A u \in Threads : Shown(u)'
    BY <2>1, ResumeComes DEF Shown
  <2>3. WorkInside' /\ handling' # "marking"
    BY <1>0, <1>22, <2>1 DEF AutoResume, Visit
  <2> QED
    BY <2>2, <2>3
<1>23. ASSUME ResumeThread PROVE AllShown'
  <2> DEFINE r == Request.thread
  <2>1. /\ released' = released \cup {r} /\ r \in isBlocked /\ mishaps' = {}
        /\ Threads = {r} /\ r \notin released
        /\ UNCHANGED <<stepping, work, placeVars, loopVars, globalVars, client>>
    BY <1>0, <1>t, <1>23, RequestBegun DEF ResumeThread, PlaceInv, Known, Named, Normal, Error
  <2>2. /\ Resuming => Resuming'
        /\ Alone => Alone'
    BY <1>t, <1>23, <2>1, RequestBegun DEF ResumeThread
  <2>3. \A u \in Threads : Shown(u) => Shown(u)'
    BY <2>1, <2>2 DEF Shown, Coming
  <2>4. Claiming => Claiming'
    BY <2>1 DEF Claiming
  <2>5. \A u \in Threads :
          u \in work /\ pc[u] \in {"marking", "refreshing", "reported", "checking", "acquiring"} =>
            u \in released
    BY <1>0
  <2> QED
    BY <1>0, <1>t, <2>1, <2>3, <2>4, <2>5
<1>24. ASSUME ResumeVisit PROVE AllShown'
  <2>1. /\ at \in Threads /\ handling = "resume"
        /\ UNCHANGED <<work, placeVars, globalVars, requests, client>>
        /\ stepping'[at] # "break"
        /\ \A u \in Threads \ {at} : stepping'[u] = stepping[u]
        /\ \A u \in Threads \ {at} : u \in released <=> u \in released'
        /\ released \subseteq released'
        /\ at \in isBlocked => at \in released' /\ at \notin released
    BY <1>0, <1>t, <1>24 DEF ResumeVisit, Unblock, ResumeMishaps, UnblockMishaps, Visits, Normal
  <2>2. Visit("resume", rest)
    BY <2>1, <1>24 DEF ResumeVisit
  <2>3. \A u \in Threads \ {at} : Shown(u) => Shown(u)'
    BY <2>1, <2>2, SameRequests DEF Shown, Coming, Visit
  <2>4. (Claiming => Claiming') /\ handling' # "marking"
    BY <2>1, <2>2 DEF Claiming, Visit
  <2>5. \A u \in Threads : Freed(u) => Freed(u)'
    BY <2>1, SameRequests
  <2>6. pc[at] \notin Reporting
    BY <2>1, <1>24, ThreadsAssumption DEF Locked, ResumeVisit
  <2>7. PICK v \in Threads : v = at
    BY <2>1
  <2>8. ResumeMishaps(v) = {}
    BY <2>7, <1>24 DEF ResumeVisit, Normal
  <2>9. ~ Awaits(v)'
    <3>1. v \notin isBlocked =>
            ~ (pc[v] = "breaking" \/ (pc[v] = "entering" /\ reason[v] = "async"))
      BY <2>8 DEF ResumeMishaps
    <3>2. v \in isBlocked => pc[v] \in Inside
      BY DEF PlaceInv, Blocked
    <3> QED
      BY <2>7, <2>1, <2>6, <3>1, <3>2 DEF Reporting, Inside
  <2>10. ~ Stays(v)'
    BY <1>0, <2>7, <2>1, <2>6 DEF Reporting, PlaceInv, Blocked, Inside
  <2>11. pc'[at] # "marking"
    BY <2>1, <2>6 DEF Reporting
  <2>12. BreaksShown' /\ StopsShown'
    BY <1>0, <2>7, <2>1, <2>3, <2>4, <2>5, <2>9, <2>10
  <2>13. MarksShown'
    BY <1>0, <2>1, <2>3, <2>4, <2>11
  <2>14. WorkInside'
    BY <1>0, <2>1
  <2> QED
    BY <2>12, <2>13, <2>14
<1>25. ASSUME BeginEvaluate PROVE AllShown'
  <2>1. \A u \in Threads : (Shown(u) => Shown(u)') /\ (Freed(u) => Freed(u)')
    BY <1>25, OtherBegun DEF BeginEvaluate
  <2>2. Claiming => Claiming'
    BY <1>25 DEF BeginEvaluate, Claiming
  <2> QED
    BY <1>0, <1>t, <1>25, <2>1, <2>2 DEF BeginEvaluate, Begin, Visit
<1>26. ASSUME Evaluate PROVE AllShown'
  <2>1. /\ at \in Threads /\ handling = "evaluate" /\ handling' = "idle"
        /\ UNCHANGED <<stepping, placeVars, globalVars, requests, client>>
    BY <1>t, <1>26 DEF Evaluate, Visit, Visits
  <2>2. \A u \in Threads : (Shown(u) => Shown(u)') /\ (Freed(u) => Freed(u)')
    BY <2>1, SameRequests DEF Shown, Coming
  <2>3. Claiming => Claiming'
    BY <2>1 DEF Claiming
  <2>4. pc[at] \notin Reporting
    BY <2>1, <1>26, ThreadsAssumption DEF Locked, Evaluate
  <2>5. \/ UNCHANGED <<work, released>>
        \/ /\ work' = work \cup {at} /\ released' = released \cup {at}
           /\ at \notin released /\ at \in isBlocked /\ pc[at] # "leaving"
    BY <1>0, <1>26 DEF Evaluate, Unblock, UnblockMishaps, Normal
  <2>6. BreaksShown' /\ MarksShown'
    BY <1>0, <2>1, <2>2, <2>3
  <2>7. StopsShown'
    BY <1>0, <2>1, <2>2, <2>3, <2>5
  <2>8. WorkInside'
    BY <1>0, <2>1, <2>4, <2>5 DEF Reporting, PlaceInv, Blocked, Inside
  <2> QED
    BY <2>6, <2>7, <2>8
<1>27. ASSUME BeginDetach PROVE AllShown'
  BY <1>27 DEF BeginDetach, Visit, Normal
<1>28. ASSUME DetachVisit PROVE AllShown'
  BY <1>0, <1>28 DEF DetachVisit, Normal
<1>29. ASSUME Detach PROVE AllShown'
  BY <1>29 DEF Detach, Normal
<1>30. ASSUME AskBreakAll PROVE AllShown'
  <2>1. \A u \in Threads : (Shown(u) => Shown(u)') /\ (Freed(u) => Freed(u)')
    BY <1>30, AskedIs DEF AskBreakAll, RequestKinds
  <2>2. Claiming => Claiming'
    BY <1>30 DEF AskBreakAll, Ask, Claiming
  <2> QED
    BY <1>0, <1>t, <1>30, <2>1, <2>2 DEF AskBreakAll, Ask
<1>31. ASSUME AskContinue PROVE AllShown'
  <2>1. \A u \in Threads : Shown(u)'
    BY <1>31, AskedIs DEF AskContinue, RequestKinds, Shown, Coming
  <2>2. WorkInside'
    BY <1>0, <1>31 DEF AskContinue, Ask
  <2> QED
    BY <2>1, <2>2
<1>32. ASSUME AskStep PROVE AllShown'
  <2>1. \A u \in Threads : Shown(u)'
    BY <1>32, AskedIs DEF AskStep, RequestKinds, Shown, Coming
  <2>2. WorkInside'
    BY <1>0, <1>32 DEF AskStep, Ask
  <2> QED
    BY <2>1, <2>2
<1>33. ASSUME AskEvaluate PROVE AllShown'
  <2>1. \A u \in Threads : (Shown(u) => Shown(u)') /\ (Freed(u) => Freed(u)')
    BY <1>33, AskedIs DEF AskEvaluate, RequestKinds
  <2>2. Claiming => Claiming'
    BY <1>33 DEF AskEvaluate, Ask, Claiming
  <2> QED
    BY <1>0, <1>t, <1>33, <2>1, <2>2 DEF AskEvaluate, Ask
<1>34. ASSUME AskDetach PROVE AllShown'
  <2>1. \A u \in Threads : (Shown(u) => Shown(u)') /\ (Freed(u) => Freed(u)')
    BY <1>34, AskedIs DEF AskDetach, RequestKinds
  <2>2. Claiming => Claiming'
    BY <1>34 DEF AskDetach, Ask, Claiming
  <2> QED
    BY <1>0, <1>t, <1>34, <2>1, <2>2 DEF AskDetach, Ask
<1>35. CASE UNCHANGED vars
  BY <1>0, <1>u, <1>35 DEF vars, Claiming
<1> HIDE DEF AllShown, BreaksShown, StopsShown, MarksShown, WorkInside,
         Claimed, Awaits, Stays, Goto, threadVars, placeVars, loopVars, globalVars,
         clientVars
<1> QED
  BY <1>1, <1>2, <1>3, <1>4, <1>5, <1>6, <1>7, <1>8, <1>9, <1>10, <1>11, <1>12, <1>13, <1>14,
     <1>15, <1>16, <1>17, <1>18, <1>19, <1>20, <1>21, <1>22, <1>23, <1>24, <1>25, <1>26, <1>27,
     <1>28, <1>29, <1>30, <1>31, <1>32, <1>33, <1>34, <1>35
  DEF Next, ThreadStep, LoopStep

\* Whoever blocks while the client shows a running program has been told to go on or
\* is about to be shown, whatever the threads, the loop and the client do: the marks
\* and the stops keep an excuse until the resume that ends them.
THEOREM NoneStopsUnseen == Spec => []NoStopUnseen
<1>1. Init => PlaceInv /\ StopInv
  <2> SUFFICES ASSUME Init PROVE PlaceInv /\ StopInv
    OBVIOUS
  <2>1. Pending = {}
    BY DEF Init, Pending
  <2>2. PlaceInv
    BY <2>1 DEF Init, PlaceInv, Blocked, AtWork, Known, Named, Ended, Inside, Reporting
  <2>3. AllShown
    BY DEF Init, AllShown, BreaksShown, StopsShown, MarksShown, WorkInside, Awaits, Stays
  <2> QED
    BY <2>2, <2>3 DEF StopInv
<1>2. ASSUME TypeOK, StopInv PROVE NoStopUnseen
  <2> SUFFICES ASSUME Quiet, client = "running", ~ detached, mishaps = {},
                      NEW t \in Threads
               PROVE  pc[t] = "run"
    BY DEF NoStopUnseen
  <2>1. Normal /\ StopsShown
    BY <1>2 DEF StopInv, Normal, Quiet, AllShown
  <2>2. Pending = {}
    BY DEF Quiet, Pending
  <2>3. ~ Shown(t) /\ ~ Freed(t)
    BY <2>2 DEF Quiet, Shown, Coming, Resuming, Alone, Freed
  <2>4. ~ Claiming
    BY DEF Quiet, Claiming
  <2>5. ~ Stays(t)
    BY <2>1, <2>3, <2>4 DEF StopsShown
  <2> QED
    BY <2>5 DEF Stays, Quiet
<1>3. TypeOK /\ StopInv => NoStopUnseen
  BY <1>2
<1> QED
  BY <1>1, <1>3, TypeCorrect, ReportsUnderLock, PlacesKept, StopInvKept, PTL DEF Spec
===============================================================================
