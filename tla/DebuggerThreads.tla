--------------------------- MODULE DebuggerThreads ---------------------------
(***************************************************************************)
(* PythonTools/ptvsd/debugger.py: how the threads of a debugged program    *)
(* stop and go on.  Three kinds of actors share the state of the Thread    *)
(* objects: the threads themselves, inside their trace function; the       *)
(* DebuggerLoop, which handles the requests of Visual Studio one by one;   *)
(* and Visual Studio, the client.                                          *)
(*                                                                         *)
(* Stepping into, over and out of a call are one kind of step that ends at *)
(* some line; frames, conditions and the display of stacks are left out.   *)
(* Only update_all_thread_stacks in async_break is kept, as it waits for   *)
(* the locks of other threads with a lock held.                            *)
(***************************************************************************)
EXTENDS Naturals, Sequences, FiniteSets

CONSTANTS Threads,
          Loop, None,
          Requests,        \* the requests the client makes
          Stops,           \* what a thread may run into, of StopKinds
          MaxRequests,     \* bound: requests of the client
          MaxHits          \* bound: breakpoints hit

\* A breakpoint, a tracepoint, which the client resumes at once, and a
\* breakpoint that the client has removed meanwhile.
StopKinds == {"breakpoint", "tracepoint", "removed"}

RequestKinds == {"breakAll", "continue", "step", "evaluate", "detach"}

ASSUME ThreadsAssumption ==
  /\ Loop \notin Threads /\ None \notin Threads /\ Loop # None
  /\ Requests \subseteq RequestKinds /\ Stops \subseteq StopKinds
  /\ MaxRequests \in Nat /\ MaxHits \in Nat

VARIABLES
  stepping,  \* Thread.stepping
  detach,    \* the threads with Thread.detach
  released,  \* the threads whose _block_lock is not held
  startLock, \* who holds _block_starting_lock
  isBlocked, \* the threads with _is_blocked
  isWorking, \* the threads with _is_working
  work,      \* the threads with an unblock_work
  pc,        \* where a thread is in its trace function
  reason,    \* why it blocks
  complete,  \* the threads whose step has ended where a breakpoint stops them
  todo,      \* the threads update_all_thread_stacks has still to visit
  listed,    \* THREADS
  detached,  \* DETACHED
  sendBreakComplete, \* SEND_BREAK_COMPLETE
  handling,  \* the request DebuggerLoop is busy with
  at,        \* the thread it visits
  rest,      \* the threads it visits after that
  requests,  \* requests on their way
  client,    \* what the client shows: "running" or "stopped"
  asked,     \* what the client waits for
  sent, hits,
  mishaps    \* history: the races and errors that have happened

threadVars == <<stepping, detach, released, startLock, isBlocked, isWorking, work>>
placeVars == <<pc, reason, complete, todo>>
loopVars == <<handling, at, rest>>
globalVars == <<listed, detached, sendBreakComplete>>
clientVars == <<requests, client, asked, sent, hits>>
vars == <<threadVars, placeVars, loopVars, globalVars, clientVars, mishaps>>

\* Inside block(), with the lock that keeps a resume from overtaking the report.
Reporting == {"reporting", "claiming", "refreshing", "marking", "reported"}

Places == {"run", "untraced", "breaking", "stepping", "returning", "entering", "checking",
           "acquiring", "taken", "working", "answered", "leaving"} \cup Reporting

\* What the loop does for one thread after the other.
Visits == {"resume", "evaluate", "detach"}

Mishaps == {"twice", "marked", "replaced", "late", "error", "alone", "overtaken", "lost", "cancelled"}

Init ==
  /\ stepping = [t \in Threads |-> "none"]
  /\ detach = {} /\ released = {}
  /\ startLock = [t \in Threads |-> None]
  /\ isBlocked = {} /\ isWorking = {} /\ work = {}
  /\ pc = [t \in Threads |-> "run"]
  /\ reason = [t \in Threads |-> "none"]
  /\ complete = {}
  /\ todo = [t \in Threads |-> {}]
  /\ listed = Threads /\ detached = FALSE /\ sendBreakComplete = FALSE
  /\ handling = "idle" /\ at = None /\ rest = {}
  /\ requests = <<>> /\ client = "running" /\ asked = {} /\ sent = 0 /\ hits = 0
  /\ mishaps = {}

Goto(t, place) == pc' = [pc EXCEPT ![t] = place]

\* What the client waits for is over when it shows a stop.
ShowStop ==
  /\ client' = "stopped"
  /\ asked' = asked \ {"break", "step"}

\* The client tells the loop to let a thread go on.
Tell(t, kind) ==
  /\ requests' = Append(requests, [kind |-> kind, thread |-> t])
  /\ UNCHANGED <<client, asked>>

-----------------------------------------------------------------------------
(* A thread in its trace function                                          *)

\* trace_func with STEPPING_BREAK: a thread to be let go stops tracing, any
\* other enters async_break.
SeeBreak(t) ==
  /\ pc[t] = "run" /\ stepping[t] = "break"
  /\ IF t \in detach
     THEN Goto(t, "untraced") /\ UNCHANGED reason
     ELSE Goto(t, "breaking") /\ reason' = [reason EXCEPT ![t] = "async"]
  /\ UNCHANGED <<threadVars, complete, todo, loopVars, globalVars, clientVars, mishaps>>

\* handle_line or handle_return where a step ends.
EndStep(t) ==
  /\ pc[t] = "run" /\ stepping[t] = "step" /\ ~ detached
  /\ \E place \in {"stepping", "returning"} : Goto(t, place)
  /\ reason' = [reason EXCEPT ![t] = "step"]
  /\ UNCHANGED <<threadVars, complete, todo, loopVars, globalVars, clientVars, mishaps>>

\* handle_line at a breakpoint.  The stepping state stays as it is; when a step
\* ends here too, stopped_on_line is kept.  A mark for a break may come after
\* trace_func has looked for one.
Hit(t) ==
  /\ pc[t] = "run" /\ ~ detached /\ hits < MaxHits
  /\ hits' = hits + 1
  /\ \E kind \in Stops : reason' = [reason EXCEPT ![t] = kind]
  /\ \/ complete' = complete \ {t}
     \/ stepping[t] = "step" /\ complete' = complete \cup {t}
  /\ Goto(t, "entering")
  /\ UNCHANGED <<threadVars, todo, loopVars, globalVars, requests, client, asked, sent, mishaps>>

\* self.stepping = STEPPING_NONE in async_break, handle_return and
\* block_maybe_attach.  The last reads it again: with a mark for a break that
\* has come meanwhile it takes the end of the step for the load of the process.
ClearStepping(t) ==
  /\ pc[t] \in {"breaking", "stepping", "returning"}
  /\ stepping' = [stepping EXCEPT ![t] = "none"]
  /\ complete' = complete \ {t}
  /\ Goto(t, "entering")
  /\ \/ /\ pc[t] = "stepping" /\ stepping[t] = "break"
        /\ reason' = [reason EXCEPT ![t] = "loaded"]
        /\ mishaps' = mishaps \cup {"lost"}
     \/ /\ ~ (pc[t] = "stepping" /\ stepping[t] = "break")
        /\ UNCHANGED <<reason, mishaps>>
  /\ UNCHANGED <<detach, released, startLock, isBlocked, isWorking, work, todo,
                 loopVars, globalVars, clientVars>>

\* block() takes _block_starting_lock after it has sent the frames.
Enter(t) ==
  /\ pc[t] = "entering" /\ startLock[t] = None
  /\ startLock' = [startLock EXCEPT ![t] = t]
  /\ isBlocked' = isBlocked \cup {t}
  /\ Goto(t, "reporting")
  /\ UNCHANGED <<stepping, detach, released, isWorking, work, reason, complete, todo,
                 loopVars, globalVars, clientVars, mishaps>>

\* async_break_send looks whether somebody has to report the break.
LookAtBreak(t) ==
  /\ pc[t] = "reporting" /\ reason[t] = "async"
  /\ Goto(t, IF sendBreakComplete THEN "claiming" ELSE "reported")
  /\ UNCHANGED <<threadVars, reason, complete, todo, loopVars, globalVars, clientVars, mishaps>>

\* It sends legacyAsyncBreak, and the frames of the others.
SendBreak(t) ==
  /\ pc[t] = "claiming"
  /\ sendBreakComplete' = FALSE
  /\ ShowStop
  /\ todo' = [todo EXCEPT ![t] = listed \ {t}]
  /\ Goto(t, "refreshing")
  /\ mishaps' = mishaps \cup
       (IF \E u \in Threads \ {t} : pc[u] \in {"claiming", "refreshing"} THEN {"twice"} ELSE {})
  /\ UNCHANGED <<threadVars, reason, complete, loopVars, listed, detached, requests, sent, hits>>

\* update_all_thread_stacks(self): the lock of every other thread in turn.
Refresh(t) ==
  /\ pc[t] = "refreshing"
  /\ \/ \E u \in todo[t] :
          /\ startLock[u] = None
          /\ todo' = [todo EXCEPT ![t] = @ \ {u}]
          /\ UNCHANGED pc
     \/ todo[t] = {} /\ Goto(t, "reported") /\ UNCHANGED todo
  /\ UNCHANGED <<threadVars, reason, complete, loopVars, globalVars, clientVars, mishaps>>

\* report_breakpoint_hit, report_step_finished or report_process_loaded.  The
\* client stops, or tells the thread to go on: after a tracepoint and a load
\* unless it shows a stop anyway.
Report(t) ==
  /\ pc[t] = "reporting" /\ reason[t] # "async"
  /\ \/ reason[t] \in {"breakpoint", "step"} /\ ShowStop /\ UNCHANGED requests
     \/ reason[t] = "removed" /\ Tell(t, "resumeThread")
     \/ reason[t] \in {"tracepoint", "loaded"} /\ client = "running" /\ Tell(t, "autoResume")
     \/ /\ reason[t] \in {"tracepoint", "loaded"} /\ client = "stopped"
        /\ UNCHANGED <<requests, client, asked>>
  /\ Goto(t, IF reason[t] = "loaded" THEN "reported" ELSE "marking")
  /\ UNCHANGED <<threadVars, reason, complete, todo, loopVars, globalVars, sent, hits, mishaps>>

\* mark_all_threads_for_break(skip_thread = self).  It may come while the threads
\* are resumed, and it replaces the stepping state of a thread that steps.
Mark(t) ==
  /\ pc[t] = "marking"
  /\ stepping' = [u \in Threads |-> IF u \in listed \ {t} THEN "break" ELSE stepping[u]]
  /\ Goto(t, "reported")
  /\ mishaps' = mishaps \cup (IF handling = "resume" /\ ~ (listed \subseteq {t, at} \cup rest) THEN {"marked"} ELSE {}) \cup
       (IF \E u \in listed \ {t} : stepping[u] = "step" /\ "step" \in asked THEN {"replaced"} ELSE {})
  /\ UNCHANGED <<detach, released, startLock, isBlocked, isWorking, work, reason, complete, todo,
                 loopVars, globalVars, clientVars>>

\* Broken variant: the thread waits with the lock held.
WaitLocked(t) ==
  /\ pc[t] = "reported"
  /\ Goto(t, "checking")
  /\ UNCHANGED <<threadVars, reason, complete, todo, loopVars, globalVars, clientVars, mishaps>>

\* The end of the reason: the lock is released, and a resume may pass.
Wait(t) ==
  /\ pc[t] = "reported"
  /\ startLock' = [startLock EXCEPT ![t] = None]
  /\ Goto(t, "checking")
  /\ UNCHANGED <<stepping, detach, released, isBlocked, isWorking, work, reason, complete, todo,
                 loopVars, globalVars, clientVars, mishaps>>

\* Broken variant: DETACHED is looked at only before the first wait.
CheckNever(t) ==
  /\ pc[t] = "checking"
  /\ Goto(t, "acquiring")
  /\ UNCHANGED <<threadVars, reason, complete, todo, loopVars, globalVars, clientVars, mishaps>>

\* while not DETACHED.
CheckDetached(t) ==
  /\ pc[t] = "checking"
  /\ Goto(t, IF detached THEN "leaving" ELSE "acquiring")
  /\ mishaps' = mishaps \cup (IF ~ detached /\ t \in detach \ released THEN {"late"} ELSE {})
  /\ UNCHANGED <<threadVars, reason, complete, todo, loopVars, globalVars, clientVars>>

\* self._block_lock.acquire().  Without work the thread goes on.
Acquire(t) ==
  /\ pc[t] = "acquiring" /\ t \in released
  /\ released' = released \ {t}
  /\ Goto(t, IF t \in work THEN "taken" ELSE "leaving")
  /\ UNCHANGED <<stepping, detach, startLock, isBlocked, isWorking, work, reason, complete, todo,
                 loopVars, globalVars, clientVars, mishaps>>

BeginWork(t) ==
  /\ pc[t] = "taken"
  /\ isWorking' = isWorking \cup {t}
  /\ Goto(t, "working")
  /\ UNCHANGED <<stepping, detach, released, startLock, isBlocked, work, reason, complete, todo,
                 loopVars, globalVars, clientVars, mishaps>>

\* run_locally reports a result or an exception.
Answer(t) ==
  /\ pc[t] = "working"
  /\ asked' = asked \ {"evaluate"}
  /\ Goto(t, "answered")
  /\ UNCHANGED <<threadVars, reason, complete, todo, loopVars, globalVars,
                 requests, client, sent, hits, mishaps>>

EndWork(t) ==
  /\ pc[t] = "answered"
  /\ work' = work \ {t} /\ isWorking' = isWorking \ {t}
  /\ Goto(t, "checking")
  /\ UNCHANGED <<stepping, detach, released, startLock, isBlocked, reason, complete, todo,
                 loopVars, globalVars, clientVars, mishaps>>

\* The end of block(), under the lock again.
Leave(t) ==
  /\ pc[t] = "leaving" /\ startLock[t] = None
  /\ isBlocked' = isBlocked \ {t}
  /\ reason' = [reason EXCEPT ![t] = "none"]
  /\ Goto(t, "run")
  /\ UNCHANGED <<stepping, detach, released, startLock, isWorking, work, complete, todo,
                 loopVars, globalVars, clientVars, mishaps>>

-----------------------------------------------------------------------------
(* The client                                                              *)

\* The client breaks while it shows a running program, and continues, steps or
\* evaluates while it shows a stop.  It waits for the answer to an evaluation
\* before it asks again, and detaches at any time.
Ask(kind, t) ==
  /\ kind \in Requests /\ sent < MaxRequests /\ handling # "dead" /\ "detach" \notin asked
  /\ sent' = sent + 1
  /\ requests' = Append(requests, [kind |-> kind, thread |-> t])
  /\ UNCHANGED <<threadVars, placeVars, loopVars, globalVars, hits, mishaps>>

AskBreakAll ==
  /\ client = "running" /\ "break" \notin asked
  /\ Ask("breakAll", None)
  /\ asked' = asked \cup {"break"}
  /\ UNCHANGED client

AskContinue ==
  /\ client = "stopped" /\ client' = "running"
  /\ \E t \in Threads : Ask("continue", t)
  /\ UNCHANGED asked

AskStep ==
  /\ client = "stopped" /\ client' = "running"
  /\ \E t \in Threads : Ask("step", t)
  /\ asked' = asked \cup {"step"}

AskEvaluate ==
  /\ client = "stopped" /\ "evaluate" \notin asked
  /\ \E t \in Threads : Ask("evaluate", t)
  /\ asked' = asked \cup {"evaluate"}
  /\ UNCHANGED client

AskDetach ==
  /\ Ask("detach", None)
  /\ asked' = asked \cup {"detach"}
  /\ UNCHANGED client

-----------------------------------------------------------------------------
(* DebuggerLoop                                                            *)

Request == Head(requests)

\* A request begins to be handled; the threads are visited one after the other.
Begin(kind) ==
  /\ handling = "idle" /\ requests # <<>> /\ Request.kind = kind
  /\ requests' = Tail(requests)

Visit(what, threads) ==
  IF threads = {} THEN handling' = "idle" /\ at' = None /\ rest' = {}
  ELSE \E t \in threads : handling' = what /\ at' = t /\ rest' = threads \ {t}

Error == mishaps' = mishaps \cup {"error"}

\* Broken variant: the mark is set before anybody is to report the break.
BeginBreakAllLate ==
  /\ Begin("breakAll")
  /\ stepping' = [t \in Threads |-> IF t \in listed THEN "break" ELSE stepping[t]]
  /\ handling' = "marking"
  /\ UNCHANGED <<detach, released, startLock, isBlocked, isWorking, work, placeVars, at, rest,
                 globalVars, client, asked, sent, hits, mishaps>>

\* on_legacyBreakAll.
BeginBreakAll ==
  /\ Begin("breakAll")
  /\ sendBreakComplete' = TRUE
  /\ handling' = "marking"
  /\ UNCHANGED <<threadVars, placeVars, at, rest, listed, detached, client, asked, sent, hits, mishaps>>

MarkAll ==
  /\ handling = "marking"
  /\ stepping' = [t \in Threads |-> IF t \in listed THEN "break" ELSE stepping[t]]
  /\ handling' = "idle"
  /\ UNCHANGED <<detach, released, startLock, isBlocked, isWorking, work, placeVars, at, rest,
                 globalVars, clientVars, mishaps>>

\* on_legacyClearStepping and on_legacyResumeAll, which the client sends together.
Continue ==
  /\ Begin("continue")
  /\ stepping' = [stepping EXCEPT ![Request.thread] = IF Request.thread \in listed THEN "none" ELSE @]
  /\ Visit("resume", listed)
  /\ UNCHANGED <<detach, released, startLock, isBlocked, isWorking, work, placeVars,
                 globalVars, client, asked, sent, hits, mishaps>>

\* on_legacyStepInto, on_legacyStepOver and on_legacyStepOut assert that the
\* thread is blocked; the loop does not survive a failed assertion.
Step ==
  /\ Begin("step")
  /\ LET t == Request.thread IN
     \/ /\ t \in listed \cap isBlocked
        /\ stepping' = [stepping EXCEPT ![t] = "step"]
        /\ Visit("resume", listed)
        /\ UNCHANGED mishaps
     \/ /\ t \in listed \ isBlocked
        /\ handling' = "dead" /\ Error
        /\ UNCHANGED <<stepping, at, rest>>
     \/ t \notin listed /\ UNCHANGED <<stepping, loopVars, mishaps>>
  /\ UNCHANGED <<detach, released, startLock, isBlocked, isWorking, work, placeVars,
                 globalVars, client, asked, sent, hits>>

\* on_legacyAutoResumeThread: a step that ends at the tracepoint is to be
\* reported, but the name of the thread is undefined there.
AutoResume ==
  /\ Begin("autoResume")
  /\ LET t == Request.thread IN
     \/ /\ t \in listed /\ stepping[t] = "step" /\ t \in complete
        /\ Error
        /\ UNCHANGED loopVars
     \/ /\ t \in listed /\ ~ (stepping[t] = "step" /\ t \in complete)
        /\ Visit("resume", listed)
        /\ UNCHANGED mishaps
     \/ t \notin listed /\ UNCHANGED <<loopVars, mishaps>>
  /\ UNCHANGED <<threadVars, placeVars, globalVars, client, asked, sent, hits>>

\* unblock(), with its lock held, and what it leaves behind: releasing a lock
\* that is not held raises an exception, and _block_starting_lock stays locked.
Unblock(t) ==
  IF t \in released
  THEN startLock' = [startLock EXCEPT ![t] = Loop] /\ UNCHANGED released
  ELSE released' = released \cup {t} /\ UNCHANGED startLock

\* What may go wrong: the lock was released already; the thread leaves, and will
\* pass the next block().
UnblockMishaps(t) ==
  (IF t \in released THEN {"error"} ELSE {}) \cup (IF pc[t] = "leaving" THEN {"overtaken"} ELSE {})

\* on_legacyResumeThread: one thread, without its lock.  The others, which it
\* has marked for a break or will, are not resumed.
ResumeThread ==
  /\ Begin("resumeThread")
  /\ LET t == Request.thread IN
     \/ /\ t \in listed \cap isBlocked /\ t \notin released
        /\ released' = released \cup {t}
        /\ mishaps' = mishaps \cup UnblockMishaps(t)
                              \cup (IF listed # {t} THEN {"alone"} ELSE {})
        /\ UNCHANGED handling
     \/ t \in listed \cap isBlocked \cap released /\ Error /\ UNCHANGED <<released, handling>>
     \/ t \in listed \ isBlocked /\ handling' = "dead" /\ Error /\ UNCHANGED released
     \/ t \notin listed /\ UNCHANGED <<released, handling, mishaps>>
  /\ UNCHANGED <<stepping, detach, startLock, isBlocked, isWorking, work, placeVars, at, rest,
                 globalVars, client, asked, sent, hits>>

\* What may go wrong with a thread that is resumed: it loses the mark of a break
\* that the client waits for, or it is on its way into block() without anything
\* to report.
ResumeMishaps(t) ==
  (IF stepping[t] = "break" /\ "break" \in asked THEN {"cancelled"} ELSE {}) \cup
  (IF t \in isBlocked THEN UnblockMishaps(t)
   ELSE IF pc[t] = "breaking" \/ (pc[t] = "entering" /\ reason[t] = "async") THEN {"late"} ELSE {})

\* Broken variants: the lock is not taken; the mark for a break is left.
ResumeVisitUnlocked ==
  /\ handling = "resume"
  /\ stepping' = [stepping EXCEPT ![at] = IF @ = "break" THEN "none" ELSE @]
  /\ released' = released \cup (isBlocked \cap {at})
  /\ mishaps' = mishaps \cup ResumeMishaps(at)
  /\ Visit("resume", rest)
  /\ UNCHANGED <<startLock, detach, isBlocked, isWorking, work, placeVars, globalVars, clientVars>>

ResumeVisitMarked ==
  /\ handling = "resume" /\ startLock[at] = None
  /\ IF at \in isBlocked THEN Unblock(at) ELSE UNCHANGED <<released, startLock>>
  /\ mishaps' = mishaps \cup ResumeMishaps(at)
  /\ IF at \in isBlocked \cap released THEN Visit("resume", {}) ELSE Visit("resume", rest)
  /\ UNCHANGED <<stepping, detach, isBlocked, isWorking, work, placeVars, globalVars, clientVars>>

\* One thread of _resume_all.
ResumeVisit ==
  /\ handling = "resume" /\ startLock[at] = None
  /\ stepping' = [stepping EXCEPT ![at] = IF @ = "break" THEN "none" ELSE @]
  /\ IF at \in isBlocked THEN Unblock(at) ELSE UNCHANGED <<released, startLock>>
  /\ mishaps' = mishaps \cup ResumeMishaps(at)
  /\ IF at \in isBlocked \cap released THEN Visit("resume", {}) ELSE Visit("resume", rest)
  /\ UNCHANGED <<detach, isBlocked, isWorking, work, placeVars, globalVars, clientVars>>

\* on_legacyExecuteText and on_legacyEnumChildren.
BeginEvaluate ==
  /\ Begin("evaluate")
  /\ Visit("evaluate", listed \cap {Request.thread})
  /\ UNCHANGED <<threadVars, placeVars, globalVars, client, asked, sent, hits, mishaps>>

\* run_on_thread: an error is the answer when the thread runs or works.
Evaluate ==
  /\ handling = "evaluate" /\ startLock[at] = None
  /\ \/ /\ at \in isBlocked \ isWorking
        /\ work' = work \cup {at}
        /\ Unblock(at)
        /\ mishaps' = mishaps \cup UnblockMishaps(at)
        /\ UNCHANGED asked
     \/ /\ at \notin isBlocked \ isWorking
        /\ asked' = asked \ {"evaluate"}
        /\ UNCHANGED <<work, released, startLock, mishaps>>
  /\ Visit("evaluate", {})
  /\ UNCHANGED <<stepping, detach, isBlocked, isWorking, placeVars, globalVars,
                 requests, client, sent, hits>>

\* on_legacyDetach.
BeginDetach ==
  /\ Begin("detach")
  /\ IF listed = {} THEN handling' = "detached" /\ UNCHANGED <<at, rest>>
                    ELSE Visit("detach", listed)
  /\ UNCHANGED <<threadVars, placeVars, globalVars, client, asked, sent, hits, mishaps>>

\* One thread of detach_threads, which takes no lock and gives up when a thread
\* has been released already.
DetachVisit ==
  /\ handling = "detach"
  /\ detach' = detach \cup {at}
  /\ stepping' = [stepping EXCEPT ![at] = "break"]
  /\ \/ /\ at \in isBlocked \ released
        /\ released' = released \cup {at}
        /\ UNCHANGED mishaps
     \/ at \in isBlocked \cap released /\ Error /\ UNCHANGED released
     \/ at \notin isBlocked /\ UNCHANGED <<released, mishaps>>
  /\ IF at \in isBlocked \cap released THEN Visit("detach", {})
     ELSE IF rest = {} THEN handling' = "detached" /\ UNCHANGED <<at, rest>>
     ELSE Visit("detach", rest)
  /\ UNCHANGED <<startLock, isBlocked, isWorking, work, placeVars, globalVars, clientVars>>

\* THREADS.clear() and detach_process().
Detach ==
  /\ handling = "detached"
  /\ listed' = {} /\ detached' = TRUE
  /\ Visit("detach", {})
  /\ UNCHANGED <<threadVars, placeVars, sendBreakComplete, clientVars, mishaps>>

-----------------------------------------------------------------------------

\* All that a thread does but running into a breakpoint.
ThreadStep(t) ==
  \/ SeeBreak(t) \/ EndStep(t) \/ ClearStepping(t) \/ Enter(t)
  \/ LookAtBreak(t) \/ SendBreak(t) \/ Refresh(t) \/ Report(t) \/ Mark(t) \/ Wait(t)
  \/ CheckDetached(t) \/ Acquire(t) \/ BeginWork(t) \/ Answer(t) \/ EndWork(t) \/ Leave(t)

LoopStep ==
  \/ BeginBreakAll \/ MarkAll \/ Continue \/ Step \/ AutoResume \/ ResumeThread \/ ResumeVisit
  \/ BeginEvaluate \/ Evaluate \/ BeginDetach \/ DetachVisit \/ Detach

Next ==
  \/ \E t \in Threads : Hit(t) \/ ThreadStep(t)
  \/ LoopStep
  \/ AskBreakAll \/ AskContinue \/ AskStep \/ AskEvaluate \/ AskDetach

\* Threads run on, to the end of a step and out of their reports; the loop handles
\* what it gets.  Nobody has to set a breakpoint or to make a request.
Fairness ==
  /\ \A t \in Threads : WF_vars(ThreadStep(t))
  /\ WF_vars(LoopStep)

Spec == Init /\ [][Next]_vars /\ Fairness

-----------------------------------------------------------------------------

\* Every variable stays in its range, and the loop visits a thread when it has to.
TypeOK ==
  /\ stepping \in [Threads -> {"none", "break", "step"}]
  /\ detach \subseteq Threads /\ released \subseteq Threads
  /\ startLock \in [Threads -> Threads \cup {Loop, None}]
  /\ isBlocked \subseteq Threads /\ isWorking \subseteq Threads /\ work \subseteq Threads
  /\ pc \in [Threads -> Places]
  /\ reason \in [Threads -> StopKinds \cup {"none", "async", "step", "loaded"}]
  /\ complete \subseteq Threads /\ todo \in [Threads -> SUBSET Threads]
  /\ listed \subseteq Threads /\ detached \in BOOLEAN /\ sendBreakComplete \in BOOLEAN
  /\ handling \in {"idle", "marking", "detached", "dead"} \cup Visits
  /\ handling \in Visits => at \in Threads
  /\ rest \subseteq Threads
  /\ requests \in Seq([kind : RequestKinds \cup {"autoResume", "resumeThread"},
                       thread : Threads \cup {None}])
  /\ client \in {"running", "stopped"} /\ asked \subseteq {"break", "step", "evaluate", "detach"}
  /\ sent \in 0 .. MaxRequests /\ hits \in 0 .. MaxHits
  /\ mishaps \subseteq Mishaps

\* "need to synchronize w/ sending the reason we're blocking": no resume and no
\* evaluation reaches a thread before what stopped it is reported and the other
\* threads are marked.
ReasonComesFirst ==
  [][\A t \in released' \ released :
       handling \in {"resume", "evaluate"} => pc[t] \notin Reporting]_vars

\* Nothing is about to happen by itself.
Quiet ==
  /\ requests = <<>> /\ handling = "idle"
  /\ \A t \in Threads :
       (pc[t] = "run" /\ stepping[t] = "none") \/ (pc[t] = "acquiring" /\ t \notin released)

\* No thread stays stopped while the client shows a running program: whoever
\* blocks has said so, or has been told to go on, but for the named mishaps.
NoStopUnseen ==
  (Quiet /\ client = "running" /\ ~ detached /\ mishaps = {}) =>
    \A t \in Threads : pc[t] = "run"

\* A break of all threads and a step end in a stop, and an evaluation is
\* answered, but for the named mishaps.
RequestsAreAnswered ==
  \A what \in {"break", "step", "evaluate"} :
    (what \in asked) ~> (what \notin asked \/ "detach" \in asked \/ mishaps # {})

\* The loop does not wait for ever for the lock of a thread, nor end in one of
\* its handlers, but for the named mishaps.
LoopReturns == (handling # "idle") ~> (handling = "idle" \/ mishaps # {})

\* After a detach every thread runs free, whatever it was doing, although
\* detach_threads takes no lock, but for the named mishaps: one that has happened
\* before or after the detach excuses it too.
DetachFrees ==
  detached ~> ((\A t \in Threads : pc[t] \in {"run", "untraced"}) \/ mishaps # {})

\* What AD7Engine.Continue and handle_line say of a tracepoint, and the code does
\* not do: it does not take the end of a step away.
StepsEnd == ("step" \in asked) ~> ("step" \notin asked)
=============================================================================
