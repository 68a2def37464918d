--------------------------- MODULE VolatileCounter ---------------------------
(***************************************************************************)
(* Analysis/LanguageServer/VolatileCounter.cs: the lock-free counter by    *)
(* which the server knows that no parse, and no analysis still to be       *)
(* queued, is outstanding.  Every Interlocked or Volatile access of the    *)
(* code is one step.                                                       *)
(*                                                                         *)
(* A worker makes one Incremented() / Dispose() pair, as a ParseTask does; *)
(* a waiter makes one call of WaitForZeroAsync ("zero"),                   *)
(* WaitForChangeToZeroAsync ("toZero") or WaitForChangeAsync ("change").   *)
(* The completion source a waiter creates is named after the waiter.       *)
(***************************************************************************)
EXTENDS Naturals, FiniteSets

CONSTANTS Workers, Waiters,
          Kind,      \* the call each waiter makes
          None,      \* a null field
          CompletedTask

ASSUME CounterAssumption ==
  /\ IsFiniteSet(Workers)
  /\ Kind \in [Waiters -> {"zero", "toZero", "change"}]
  /\ None \notin Waiters /\ CompletedTask \notin Waiters /\ None # CompletedTask

VARIABLES
  count,   \* _count
  waitFor, \* the fields _waitForChange and _waitForZero
  set,     \* the completion sources that have a result
  worker,  \* where each worker is
  seen,    \* its origCount, then its newCount
  waiter,  \* where each waiter is
  task,    \* the task each waiter returns
  overlap  \* history: the waiters during whose call the counter was zero or a
           \* Decrement that brought it there had not returned

vars == <<count, waitFor, set, worker, seen, waiter, task, overlap>>

WorkerStates == {"idle", "incremented", "holding", "read", "decremented",
                 "zeroed", "done", "mismatched", "threw"}

WaiterStates == {"idle", "read", "install", "recheck", "returned"}

Init ==
  /\ count = 0
  /\ waitFor = [f \in {"change", "zero"} |-> None]
  /\ set = {}
  /\ worker = [w \in Workers |-> "idle"]
  /\ seen = [w \in Workers |-> 0]
  /\ waiter = [v \in Waiters |-> "idle"]
  /\ task = [v \in Waiters |-> None]
  /\ overlap = {}

Outstanding == {w \in Workers : worker[w] \in {"incremented", "holding", "read"}}

\* A Decrement that has reached zero and not told the waiters yet.
BringingToZero(w) ==
  \/ worker[w] = "zeroed"
  \/ worker[w] = "decremented" /\ seen[w] = 0

Begun == {v \in Waiters : waiter[v] # "idle"}

Field(v) == IF Kind[v] = "change" THEN "change" ELSE "zero"

-----------------------------------------------------------------------------
(* Increment and Decrement                                                 *)

\* Interlocked.Increment.
Increment(w) ==
  /\ worker[w] = "idle"
  /\ count' = count + 1
  /\ seen' = [seen EXCEPT ![w] = count + 1]
  /\ worker' = [worker EXCEPT ![w] = "incremented"]
  /\ UNCHANGED <<waitFor, set, waiter, task, overlap>>

\* Interlocked.Exchange(ref field, null)?.SetResult(...): SetResult throws when
\* the source has a result already.
Notify(w, field, next) ==
  LET source == waitFor[field] IN
  /\ waitFor' = [waitFor EXCEPT ![field] = None]
  /\ set' = set \cup ({source} \ {None})
  /\ worker' = [worker EXCEPT ![w] = IF source \in set THEN "threw" ELSE next]
  /\ UNCHANGED <<count, seen, waiter, task, overlap>>

\* Broken variant: tells the waiters for zero of every decrement.
AfterDecrementAlways(w) == "zeroed"

\* Decrement returns after a change that does not reach zero.
AfterDecrement(w) == IF seen[w] > 0 THEN "done" ELSE "zeroed"

NotifyChange(w) ==
  \/ worker[w] = "incremented" /\ Notify(w, "change", "holding")
  \/ worker[w] = "decremented" /\ Notify(w, "change", AfterDecrement(w))

NotifyZero(w) ==
  worker[w] = "zeroed" /\ Notify(w, "zero", "done")

\* Volatile.Read at the head of the loop of Decrement.
ReadCount(w) ==
  /\ worker[w] = "holding"
  /\ seen' = [seen EXCEPT ![w] = count]
  /\ worker' = [worker EXCEPT ![w] = IF count = 0 THEN "mismatched" ELSE "read"]
  /\ UNCHANGED <<count, waitFor, set, waiter, task, overlap>>

\* Broken variant: a plain write instead of the compare-and-swap.
WriteCount(w) ==
  /\ worker[w] = "read"
  /\ count' = seen[w] - 1
  /\ seen' = [seen EXCEPT ![w] = seen[w] - 1]
  /\ worker' = [worker EXCEPT ![w] = "decremented"]
  /\ overlap' = IF seen[w] = 1 THEN overlap \cup Begun ELSE overlap
  /\ UNCHANGED <<waitFor, set, waiter, task>>

\* Interlocked.CompareExchange: on failure the loop reads again.
CompareExchange(w) ==
  /\ worker[w] = "read"
  /\ \/ /\ count = seen[w]
        /\ count' = count - 1
        /\ seen' = [seen EXCEPT ![w] = count - 1]
        /\ worker' = [worker EXCEPT ![w] = "decremented"]
        /\ overlap' = IF count = 1 THEN overlap \cup Begun ELSE overlap
     \/ /\ count # seen[w]
        /\ worker' = [worker EXCEPT ![w] = "holding"]
        /\ UNCHANGED <<count, seen, overlap>>
  /\ UNCHANGED <<waitFor, set, waiter, task>>

-----------------------------------------------------------------------------
(* The three waits                                                         *)

\* The first IsZero of WaitForZeroAsync; the other two do not look.
CheckZero(v) ==
  /\ waiter[v] = "idle"
  /\ \/ /\ Kind[v] = "zero" /\ count = 0
        /\ waiter' = [waiter EXCEPT ![v] = "returned"]
        /\ task' = [task EXCEPT ![v] = CompletedTask]
     \/ /\ Kind[v] # "zero" \/ count # 0
        /\ waiter' = [waiter EXCEPT ![v] = "read"]
        /\ UNCHANGED task
  /\ overlap' = IF count = 0 \/ \E w \in Workers : BringingToZero(w)
                THEN overlap \cup {v} ELSE overlap
  /\ UNCHANGED <<count, waitFor, set, worker, seen>>

AfterField(v) == IF Kind[v] = "zero" THEN "recheck" ELSE "returned"

\* Volatile.Read of the field: a source that is there is shared.
ReadField(v) ==
  /\ waiter[v] = "read"
  /\ \/ /\ waitFor[Field(v)] # None
        /\ task' = [task EXCEPT ![v] = waitFor[Field(v)]]
        /\ waiter' = [waiter EXCEPT ![v] = AfterField(v)]
     \/ /\ waitFor[Field(v)] = None
        /\ waiter' = [waiter EXCEPT ![v] = "install"]
        /\ UNCHANGED task
  /\ UNCHANGED <<count, waitFor, set, worker, seen, overlap>>

\* Broken variant: a plain write that loses the source of another waiter.
InstallOverwriting(v) ==
  /\ waiter[v] = "install"
  /\ waitFor' = [waitFor EXCEPT ![Field(v)] = v]
  /\ task' = [task EXCEPT ![v] = v]
  /\ waiter' = [waiter EXCEPT ![v] = AfterField(v)]
  /\ UNCHANGED <<count, set, worker, seen, overlap>>

\* Interlocked.CompareExchange(ref field, tcs, null) ?? tcs.
Install(v) ==
  /\ waiter[v] = "install"
  /\ \/ /\ waitFor[Field(v)] = None
        /\ waitFor' = [waitFor EXCEPT ![Field(v)] = v]
        /\ task' = [task EXCEPT ![v] = v]
     \/ /\ waitFor[Field(v)] # None
        /\ task' = [task EXCEPT ![v] = waitFor[Field(v)]]
        /\ UNCHANGED waitFor
  /\ waiter' = [waiter EXCEPT ![v] = AfterField(v)]
  /\ UNCHANGED <<count, set, worker, seen, overlap>>

\* Broken variant: the second look at the counter is left out.
ReturnUnchecked(v) ==
  /\ waiter[v] = "recheck"
  /\ waiter' = [waiter EXCEPT ![v] = "returned"]
  /\ UNCHANGED <<count, waitFor, set, worker, seen, task, overlap>>

\* The second IsZero of WaitForZeroAsync, with TrySetResult.  The field keeps
\* the source.
Recheck(v) ==
  /\ waiter[v] = "recheck"
  /\ set' = IF count = 0 THEN set \cup {task[v]} ELSE set
  /\ waiter' = [waiter EXCEPT ![v] = "returned"]
  /\ UNCHANGED <<count, waitFor, worker, seen, task, overlap>>

-----------------------------------------------------------------------------

\* The rest of a begun operation: all that follows an Increment, and a wait up
\* to its return.
WorkerStep(w) == NotifyChange(w) \/ ReadCount(w) \/ CompareExchange(w) \/ NotifyZero(w)
WaiterStep(v) == ReadField(v) \/ Install(v) \/ Recheck(v)

Next ==
  \/ \E w \in Workers : Increment(w) \/ WorkerStep(w)
  \/ \E v \in Waiters : CheckZero(v) \/ WaiterStep(v)

\* Every parse ends, and threads keep running; nobody has to parse or to wait.
Fairness ==
  /\ \A w \in Workers : WF_vars(WorkerStep(w))
  /\ \A v \in Waiters : WF_vars(WaiterStep(v))

Spec == Init /\ [][Next]_vars /\ Fairness

-----------------------------------------------------------------------------

Ended(v) == waiter[v] = "returned" /\ task[v] \in set \cup {CompletedTask}

\* Every variable stays in its range, and a wait that goes past the field has
\* a source.
TypeOK ==
  /\ count \in 0 .. Cardinality(Workers)
  /\ waitFor \in [{"change", "zero"} -> Waiters \cup {None}]
  /\ set \subseteq Waiters
  /\ worker \in [Workers -> WorkerStates]
  /\ seen \in [Workers -> 0 .. Cardinality(Workers)]
  /\ waiter \in [Waiters -> WaiterStates]
  /\ task \in [Waiters -> Waiters \cup {None, CompletedTask}]
  /\ overlap \subseteq Waiters
  /\ \A v \in Waiters : waiter[v] \in {"recheck", "returned"} => task[v] # None

\* The loop of Decrement loses no update: the counter is the number of
\* outstanding Incremented() scopes, and "mismatched decrement" is never seen.
CountIsOutstanding ==
  /\ count = Cardinality(Outstanding)
  /\ \A w \in Workers : worker[w] # "mismatched"

\* No wake-up is lost between the two looks of WaitForZeroAsync and the
\* exchange in Decrement: once the counter is zero and no Decrement that
\* brought it there is unfinished, every WaitForZeroAsync has ended.
NoLostWakeup ==
  (count = 0 /\ ~ \E w \in Workers : BringingToZero(w)) =>
    \A v \in Waiters :
      (Kind[v] = "zero" /\ waiter[v] = "returned") => Ended(v)

\* A wait for zero that ends although neither the zero of the counter nor its
\* announcement overlaps the call can only have shared a completion source that
\* another waiter created and that an earlier zero of the counter completed.
EarlyOnlyWhenShared ==
  \A v \in Waiters :
    (Ended(v) /\ Kind[v] # "change" /\ v \notin overlap) =>
      task[v] # v /\ task[v] \in overlap

\* Every call of WaitForZeroAsync ends, because every parse does.
ZeroWaitsEnd ==
  \A v \in Waiters : Kind[v] = "zero" => (waiter[v] # "idle" ~> Ended(v))

-----------------------------------------------------------------------------

\* Decrement "returns true if it changes to zero": it does not throw.
DecrementReturns == \A w \in Workers : worker[w] # "threw"

=============================================================================
