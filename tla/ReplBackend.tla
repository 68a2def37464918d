----------------------------- MODULE ReplBackend -----------------------------
(***************************************************************************)
(* PythonTools/ptvsd/repl/__init__.py: the process behind an interactive   *)
(* window, with BasicReplBackend.  Its main thread runs the commands; the  *)
(* thread of _repl_loop receives them from the window, one after the       *)
(* other, and interrupts the main thread when one is aborted.              *)
(*                                                                         *)
(* What a command prints, the queries for members and signatures, the      *)
(* prompts and the reading of bytes are left out.                          *)
(***************************************************************************)
EXTENDS Naturals, Sequences, FiniteSets

CONSTANTS None,
          Kinds,        \* what commands do, of CommandKinds
          MaxCommands,  \* bound: commands of the window
          MaxAborts,    \* bound: aborts
          MaxReads,     \* bound: lines a command reads
          MayClose      \* whether the window may be closed

\* A command returns, raises an exception, exits, reads lines and returns, or
\* goes on until it is interrupted.
CommandKinds == {"returns", "raises", "exits", "reads", "loops"}

ASSUME ReplAssumption ==
  /\ Kinds \subseteq CommandKinds /\ MayClose \in BOOLEAN
  /\ MaxCommands \in Nat /\ MaxAborts \in Nat /\ MaxReads \in Nat
  /\ None \notin {"main", "loop"}

VARIABLES
  item,          \* execute_item: "code", "exit" or None
  itemFree,      \* execute_item_lock is released
  code,          \* current_code: the number and the kind of a command
  sendLock,      \* who holds send_lock
  inputFree,     \* input_event is released
  line,          \* input_string: the read it was typed for
  exitRequested, \* exit_requested
  interrupted,   \* an interrupt of the main thread is pending
  main, loop,    \* where the two threads are
  reads,         \* the lines asked for
  commands,      \* messages on their way to the process
  replies,       \* messages on their way to the window
  executing,     \* the command the window waits for, or 0
  asked,         \* the reads the user has still to type a line for
  sent, aborts,
  window,        \* open; left, when its thread has ended; closed; killed: the process is, too
  mishaps        \* history: interrupts that came too early or too late

itemVars == <<item, itemFree, code>>
inputVars == <<inputFree, line>>
flagVars == <<exitRequested, interrupted>>
windowVars == <<executing, asked, sent, aborts, window>>
vars == <<itemVars, sendLock, inputVars, flagVars, main, loop, reads, commands, replies,
          windowVars, mishaps>>

\* idle: in execute_item_lock.acquire; reading: in input_event.acquire.
\* The places where a message is to be sent are named by it.
MainPlaces == {"idle", "taken", "running", "RDLN", "asked", "reading", "read", "DONE",
               "prompting", "ERRE", "exiting", "EXIT", "waiting", "ended"}

Sending == {"RDLN", "DONE", "ERRE", "exiting", "EXIT"}

Init ==
  /\ item = None /\ itemFree = FALSE /\ code = [number |-> 0, kind |-> "returns"]
  /\ sendLock = None /\ inputFree = FALSE /\ line = 0
  /\ exitRequested = FALSE /\ interrupted = FALSE
  /\ main = "idle" /\ loop = "receiving" /\ reads = 0
  /\ commands = <<>> /\ replies = <<>>
  /\ executing = 0 /\ asked = {} /\ sent = 0 /\ aborts = 0 /\ window = "open"
  /\ mishaps = {}

-----------------------------------------------------------------------------
(* The main thread: run_one_command                                        *)

\* Broken variant: the lock is not reset, as an event would not be.
TakeSet ==
  /\ main = "idle" /\ itemFree
  /\ main' = "taken"
  /\ UNCHANGED <<itemVars, sendLock, inputVars, flagVars, loop, reads, commands, replies,
                 windowVars, mishaps>>

\* execute_item_lock.acquire().
Take ==
  /\ main = "idle" /\ itemFree
  /\ itemFree' = FALSE
  /\ main' = "taken"
  /\ UNCHANGED <<item, code, sendLock, inputVars, flagVars, loop, reads, commands, replies,
                 windowVars, mishaps>>

\* Without an item the command counts as executed.
Begin ==
  /\ main = "taken" /\ ~ interrupted
  /\ main' = CASE item = None -> "DONE" [] item = "exit" -> "exiting" [] OTHER -> "running"
  /\ item' = IF item = "exit" THEN None ELSE item
  /\ UNCHANGED <<itemFree, code, sendLock, inputVars, flagVars, loop, reads, commands, replies,
                 windowVars, mishaps>>

\* The command ends; execute_item is reset whatever it is by now.
End ==
  /\ main = "running" /\ ~ interrupted
  /\ \/ code.kind \in {"returns", "reads"} /\ main' = "DONE"
     \/ code.kind = "raises" /\ main' = "ERRE"
     \/ code.kind = "exits" /\ main' = "exiting"
  /\ item' = None
  /\ UNCHANGED <<itemFree, code, sendLock, inputVars, flagVars, loop, reads, commands, replies,
                 windowVars, mishaps>>

\* read_line.
ReadLine ==
  /\ main = "running" /\ ~ interrupted /\ code.kind = "reads" /\ reads < MaxReads
  /\ reads' = reads + 1
  /\ main' = "RDLN"
  /\ UNCHANGED <<itemVars, sendLock, inputVars, flagVars, loop, commands, replies,
                 windowVars, mishaps>>

\* input_event.acquire().
AwaitLine ==
  /\ main = "asked" /\ ~ interrupted
  /\ main' = "reading"
  /\ UNCHANGED <<itemVars, sendLock, inputVars, flagVars, loop, reads, commands, replies,
                 windowVars, mishaps>>

\* Broken variant: the event of the line is not reset.
GetLineSet ==
  /\ main = "reading" /\ inputFree
  /\ main' = "read"
  /\ UNCHANGED <<itemVars, sendLock, inputVars, flagVars, loop, reads, commands, replies,
                 windowVars, mishaps>>

GetLine ==
  /\ main = "reading" /\ inputFree
  /\ inputFree' = FALSE
  /\ main' = "read"
  /\ UNCHANGED <<itemVars, sendLock, line, flagVars, loop, reads, commands, replies,
                 windowVars, mishaps>>

\* return self.input_string.
ReturnLine ==
  /\ main = "read" /\ ~ interrupted
  /\ main' = "running"
  /\ UNCHANGED <<itemVars, sendLock, inputVars, flagVars, loop, reads, commands, replies,
                 windowVars, mishaps>>

\* SafeSendLock.acquire.
LockSend ==
  /\ main \in Sending /\ ~ interrupted /\ sendLock = None
  /\ sendLock' = "main"
  /\ UNCHANGED <<itemVars, inputVars, flagVars, main, loop, reads, commands, replies,
                 windowVars, mishaps>>

\* The message is written and the lock released.
Write ==
  /\ main \in Sending /\ sendLock = "main"
  /\ sendLock' = None
  /\ replies' = Append(replies, [kind |-> IF main = "exiting" THEN "ERRE" ELSE main,
                                 about |-> IF main = "RDLN" THEN reads ELSE code.number])
  /\ main' = CASE main = "RDLN" -> "asked" [] main = "DONE" -> "prompting"
               [] main = "ERRE" -> "prompting"
               [] main = "exiting" -> "EXIT" [] OTHER -> "waiting"
  /\ UNCHANGED <<itemVars, inputVars, flagVars, loop, reads, commands, windowVars, mishaps>>

\* The window is gone, and the socket says so: an error of the command, or the end
\* of the thread.
FailToWrite ==
  /\ main \in Sending /\ sendLock = "main" /\ window = "closed"
  /\ sendLock' = None
  /\ main' = IF main = "RDLN" THEN "ERRE" ELSE "ended"
  /\ item' = IF main = "RDLN" THEN None ELSE item
  /\ UNCHANGED <<itemFree, code, inputVars, flagVars, loop, reads, commands, replies,
                 windowVars, mishaps>>

\* send_prompt and send_cwd after a command that returned, and the head of the next
\* turn, which sends the modules that are new.
Prompt ==
  /\ main = "prompting" /\ ~ interrupted
  /\ main' = "idle"
  /\ UNCHANGED <<itemVars, sendLock, inputVars, flagVars, loop, reads, commands, replies,
                 windowVars, mishaps>>

\* SystemExit: the window has to ask for the exit.
Leave ==
  /\ main = "waiting" /\ exitRequested /\ ~ interrupted
  /\ main' = "ended"
  /\ UNCHANGED <<itemVars, sendLock, inputVars, flagVars, loop, reads, commands, replies,
                 windowVars, mishaps>>

\* Where an interrupt leaves the main thread: it ends the command; it leaves an
\* exception handler, and with it the loop; at the turn from one command to the next it
\* is reported once more, lost in the handler of send_modules_changed, or outside of
\* run_one_command, where it ends the loop.
AfterInterrupt(place) ==
  CASE place = "prompting" -> {"ERRE", "idle", "ended"}
    [] place \in {"ERRE", "exiting", "EXIT", "waiting"} -> {"ended"}
    [] OTHER -> {"ERRE"}

\* KeyboardInterrupt, wherever the thread does not wait for a lock or hold one.  Before
\* the command has begun it is reported in its place, and it may leave a line that is
\* typed for nobody.
InterruptAt(place) ==
  /\ interrupted /\ main = place /\ sendLock # "main"
  /\ interrupted' = FALSE
  /\ main' \in AfterInterrupt(place)
  /\ item' = IF place \in {"running", "RDLN", "asked", "read"} THEN None ELSE item
  /\ mishaps' = mishaps \cup
       CASE place = "taken" -> {"skipped"} [] place = "asked" -> {"orphaned"}
         [] place = "prompting" /\ main' = "ERRE" -> {"twice"}
         [] main' = "ended" -> {"killed"} [] OTHER -> {}
  /\ UNCHANGED <<itemFree, code, inputVars, exitRequested, loop, reads, commands, replies,
                 windowVars>>

\* Broken variant: an interrupted acquire leaves the lock taken.
InterruptLeaking ==
  \E place \in MainPlaces \ {"idle", "reading", "ended"} :
    /\ InterruptAt(place)
    /\ sendLock' = IF place \in Sending THEN "lost" ELSE sendLock

Interrupt ==
  \E place \in MainPlaces \ {"idle", "reading", "ended"} :
    InterruptAt(place) /\ UNCHANGED sendLock

-----------------------------------------------------------------------------
(* The thread of _repl_loop                                                *)

Command == Head(commands)

Receive(kind) ==
  /\ loop = "receiving" /\ commands # <<>> /\ Command.kind = kind
  /\ commands' = Tail(commands)

\* exit_process: the item, the lock, released if it is not yet, and SystemExit.
ExitProcess == item' = "exit" /\ itemFree' = TRUE

\* The handler of _repl_loop: its own exit_process raises SystemExit again, which ends
\* the thread before the handler sleeps and interrupts the main thread.
HandleError ==
  /\ loop = "failed"
  /\ ExitProcess
  /\ loop' = "ended"
  /\ UNCHANGED <<code, sendLock, inputVars, flagVars, main, reads, commands, replies,
                 windowVars, mishaps>>

\* run_command sets the item, and releases the lock.
Run ==
  /\ Receive("run")
  /\ code' = [number |-> Command.number, kind |-> Command.does]
  /\ item' = "code"
  /\ loop' = "releasing"
  /\ UNCHANGED <<itemFree, sendLock, inputVars, flagVars, main, reads, replies, windowVars, mishaps>>

\* A release of a lock that is not held is an error of the loop.
ReleaseItem ==
  /\ loop = "releasing"
  /\ \/ ~ itemFree /\ itemFree' = TRUE /\ loop' = "receiving"
     \/ itemFree /\ loop' = "failed" /\ UNCHANGED itemFree
  /\ UNCHANGED <<item, code, sendLock, inputVars, flagVars, main, reads, commands, replies,
                 windowVars, mishaps>>

\* Broken variant: the interrupt does not wait for the lock.
AbortUnlocked ==
  /\ Receive("abrt")
  /\ loop' = "interrupting"
  /\ UNCHANGED <<itemVars, sendLock, inputVars, flagVars, main, reads, replies, windowVars, mishaps>>

\* interrupt_main: "acquire the send lock so we dont interrupt while we're
\* communicating w/ the debugger".
Abort ==
  /\ Receive("abrt") /\ sendLock = None
  /\ sendLock' = "loop"
  /\ loop' = "interrupting"
  /\ UNCHANGED <<itemVars, inputVars, flagVars, main, reads, replies, windowVars, mishaps>>

InterruptMain ==
  /\ loop = "interrupting"
  /\ interrupted' = TRUE
  /\ sendLock' = IF sendLock = "loop" THEN None ELSE sendLock
  /\ loop' = "receiving"
  /\ UNCHANGED <<itemVars, inputVars, exitRequested, main, reads, commands, replies,
                 windowVars, mishaps>>

\* _cmd_inpl.
Input ==
  /\ Receive("inpl")
  /\ line' = Command.number
  /\ \/ ~ inputFree /\ inputFree' = TRUE /\ UNCHANGED loop
     \/ inputFree /\ loop' = "failed" /\ UNCHANGED inputFree
  /\ UNCHANGED <<itemVars, sendLock, flagVars, main, reads, replies, windowVars, mishaps>>

\* _cmd_exit: the SystemExit of its exit_process is an error of the loop, too.
Exit ==
  /\ Receive("exit")
  /\ exitRequested' = TRUE
  /\ ExitProcess /\ loop' = "failed"
  /\ UNCHANGED <<code, sendLock, inputVars, interrupted, main, reads, replies, windowVars, mishaps>>

-----------------------------------------------------------------------------
(* The window: CommandProcessorThread in PythonInteractiveEvaluator        *)

\* One command at a time.
SendRun ==
  /\ window = "open" /\ executing = 0 /\ sent < MaxCommands
  /\ sent' = sent + 1 /\ executing' = sent + 1
  /\ \E kind \in Kinds :
       commands' = Append(commands, [kind |-> "run", number |-> sent + 1, does |-> kind])
  /\ UNCHANGED <<itemVars, sendLock, inputVars, flagVars, main, loop, reads, replies,
                 asked, aborts, window, mishaps>>

SendAbort ==
  /\ window = "open" /\ executing # 0 /\ aborts < MaxAborts
  /\ aborts' = aborts + 1
  /\ commands' = Append(commands, [kind |-> "abrt"])
  /\ UNCHANGED <<itemVars, sendLock, inputVars, flagVars, main, loop, reads, replies,
                 executing, asked, sent, window, mishaps>>

\* The user has typed a line.
SendLine ==
  /\ window = "open"
  /\ \E n \in asked :
       /\ asked' = asked \ {n}
       /\ commands' = Append(commands, [kind |-> "inpl", number |-> n])
  /\ UNCHANGED <<itemVars, sendLock, inputVars, flagVars, main, loop, reads, replies,
                 executing, sent, aborts, window, mishaps>>

\* Dispose, when the window is closed or reset: the process is asked to exit, unless
\* the stream cannot be had in time, and the socket closed.
Close ==
  /\ window \in {"open", "left"} /\ MayClose
  /\ window' = "closed" /\ executing' = 0
  /\ \/ window = "open" /\ commands' = Append(commands, [kind |-> "exit"])
     \/ UNCHANGED commands
  /\ UNCHANGED <<itemVars, sendLock, inputVars, flagVars, main, loop, reads, replies,
                 asked, sent, aborts, mishaps>>

\* The rest of Dispose: _process.Kill(), if the process has not exited by itself.
Kill ==
  /\ window = "closed" /\ main # "ended"
  /\ window' = "killed" /\ main' = "ended" /\ loop' = "ended" /\ sendLock' = None
  /\ UNCHANGED <<itemVars, inputVars, flagVars, reads, commands, replies,
                 executing, asked, sent, aborts, mishaps>>

\* A report ends the command, a request is shown to the user, and to EXIT the thread
\* answers with exit before it ends.
HandleReply ==
  /\ window = "open" /\ replies # <<>>
  /\ replies' = Tail(replies)
  /\ LET kind == Head(replies).kind IN
     \/ kind \in {"DONE", "ERRE"} /\ executing' = 0 /\ UNCHANGED <<commands, asked, window>>
     \/ kind = "RDLN" /\ asked' = asked \cup {Head(replies).about}
        /\ UNCHANGED <<commands, executing, window>>
     \/ /\ kind = "EXIT" /\ UNCHANGED asked
        /\ window' = "left" /\ executing' = 0
        /\ commands' = Append(commands, [kind |-> "exit"])
  /\ UNCHANGED <<itemVars, sendLock, inputVars, flagVars, main, loop, reads, sent, aborts, mishaps>>

-----------------------------------------------------------------------------

MainStep ==
  \/ Take \/ Begin \/ End \/ ReadLine \/ AwaitLine \/ GetLine \/ ReturnLine
  \/ LockSend \/ Write \/ FailToWrite \/ Prompt \/ Leave \/ Interrupt

LoopStep == Run \/ ReleaseItem \/ Abort \/ InterruptMain \/ Input \/ Exit \/ HandleError

Next ==
  \/ MainStep \/ LoopStep
  \/ SendRun \/ SendAbort \/ SendLine \/ Close \/ Kill \/ HandleReply

\* Both threads run on, the window reads what it gets, Dispose runs to its end, and the
\* user types the lines that are asked for.
Fairness ==
  /\ WF_vars(MainStep) /\ WF_vars(LoopStep)
  /\ WF_vars(HandleReply) /\ WF_vars(SendLine) /\ WF_vars(Kill)

Spec == Init /\ [][Next]_vars /\ Fairness

-----------------------------------------------------------------------------

\* The messages to the process and to the window.
Commands == [kind : {"run"}, number : 1 .. MaxCommands, does : CommandKinds]
              \cup [kind : {"inpl"}, number : 1 .. MaxReads] \cup [kind : {"abrt", "exit"}]

Replies == [kind : {"DONE", "ERRE", "EXIT"}, about : 0 .. MaxCommands]
             \cup [kind : {"RDLN"}, about : 1 .. MaxReads]

\* Every variable stays in its range; a request for a line has its number.
TypeOK ==
  /\ item \in {None, "code", "exit"} /\ itemFree \in BOOLEAN
  /\ code \in [number : 0 .. MaxCommands, kind : CommandKinds]
  /\ sendLock \in {None, "main", "loop"}
  /\ inputFree \in BOOLEAN /\ line \in 0 .. MaxReads
  /\ exitRequested \in BOOLEAN /\ interrupted \in BOOLEAN
  /\ main \in MainPlaces /\ loop \in {"receiving", "releasing", "interrupting", "failed", "ended"}
  /\ commands \in Seq(Commands) /\ replies \in Seq(Replies)
  /\ reads \in 0 .. MaxReads /\ (main = "RDLN" => reads > 0) /\ executing \in 0 .. MaxCommands
  /\ asked \subseteq 1 .. MaxReads /\ window \in {"open", "left", "closed", "killed"}
  /\ sent \in 0 .. MaxCommands /\ aborts \in 0 .. MaxAborts
  /\ mishaps \subseteq {"skipped", "twice", "orphaned", "killed"}

\* No interrupt comes in the middle of a message: send_lock keeps interrupt_main out
\* while the main thread writes.
SendsAreWhole == interrupted => sendLock # "main"

Reports == {i \in DOMAIN replies : replies[i].kind \in {"DONE", "ERRE"}}

\* The window gets one report for the command it waits for and none for another, as
\* long as no interrupt comes between a report and the next turn and none leaves a
\* line that is typed for nobody.
ReportsMatch ==
  (window = "open" /\ mishaps \cap {"twice", "orphaned"} = {}) =>
    /\ \A i \in Reports : replies[i].about = executing
    /\ Cardinality(Reports) <= 1

\* read_line returns the line that was typed for it, as long as no interrupt comes
\* between the request for a line and the wait for it.
LinesMatch == (main = "read" /\ "orphaned" \notin mishaps) => line = reads

\* A command that ends by itself is reported, an aborted one ends, and so does the
\* process that exits, but for the interrupts that come too early or too late.
RequestsEnd ==
  /\ (executing # 0 /\ (code.number = executing => code.kind # "loops"))
       ~> (executing = 0 \/ mishaps # {} \/ code.kind = "loops")
  /\ (interrupted /\ main = "running") ~> (main # "running")
  /\ (main = "EXIT") ~> (main = "ended" \/ mishaps # {})

\* "try and exit gracefully, then interrupt main if necessary": the handler of an error
\* in _repl_loop ends the process, whatever the main thread does.
ExitEnds == (loop = "failed") ~> (main = "ended")
=============================================================================
