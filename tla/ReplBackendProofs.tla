-------------------------- MODULE ReplBackendProofs --------------------------
(* What ReplBackend keeps for any number of commands, aborts and lines.    *)
EXTENDS ReplBackend, FiniteSetTheorems, TLAPS

\* The thread of the loop holds send_lock from interrupt_main's acquire to the end
\* of the interrupt, and the main thread only while it sends a message.
Held ==
  /\ loop = "interrupting" => sendLock = "loop"
  /\ sendLock = "main" => main \in Sending

\* SendsAreWhole is not kept by a step alone: an interrupt made without the lock
\* would break it, and Held says that there is none.
SendInv == Held /\ SendsAreWhole

\* No message to the window is cut by an interrupt: SafeSendLock keeps
\* interrupt_main out while the main thread writes, whatever is sent and aborted.
THEOREM NoMessageIsCut == Spec => []SendsAreWhole
<1>1. Init => SendInv
  BY ReplAssumption DEF Init, SendInv, Held, SendsAreWhole, Sending
<1>2. SendInv /\ [Next]_vars => SendInv'
  <2> SUFFICES ASSUME SendInv, [Next]_vars PROVE SendInv'
    OBVIOUS
  <2> USE ReplAssumption DEF SendInv, Held, SendsAreWhole, Sending
  <2>1. CASE Take
    BY <2>1 DEF Take, flagVars
  <2>2. CASE Begin
    BY <2>2 DEF Begin, flagVars
  <2>3. CASE End
    BY <2>3 DEF End, flagVars
  <2>4. CASE ReadLine
    BY <2>4 DEF ReadLine, flagVars
  <2>5. CASE AwaitLine
    BY <2>5 DEF AwaitLine, flagVars
  <2>6. CASE GetLine
    BY <2>6 DEF GetLine, flagVars
  <2>7. CASE ReturnLine
    BY <2>7 DEF ReturnLine, flagVars
  <2>8. CASE LockSend
    BY <2>8 DEF LockSend, flagVars
  <2>9. CASE Write
    BY <2>9 DEF Write, flagVars
  <2>10. CASE FailToWrite
    BY <2>10 DEF FailToWrite, flagVars
  <2>11. CASE Prompt
    BY <2>11 DEF Prompt, flagVars
  <2>12. CASE Leave
    BY <2>12 DEF Leave, flagVars
  <2>13. CASE Interrupt
    BY <2>13 DEF Interrupt, InterruptAt, flagVars
  <2>14. CASE Run
    BY <2>14 DEF Run, Receive, flagVars
  <2>15. CASE ReleaseItem
    BY <2>15 DEF ReleaseItem, flagVars
  <2>16. CASE Abort
    BY <2>16 DEF Abort, Receive, flagVars
  <2>17. CASE InterruptMain
    BY <2>17 DEF InterruptMain, flagVars
  <2>18. CASE Input
    BY <2>18 DEF Input, Receive, flagVars
  <2>19. CASE Exit
    BY <2>19 DEF Exit, Receive, flagVars
  <2>20. CASE SendRun
    BY <2>20 DEF SendRun, flagVars
  <2>21. CASE SendAbort
    BY <2>21 DEF SendAbort, flagVars
  <2>22. CASE SendLine
    BY <2>22 DEF SendLine, flagVars
  <2>23. CASE Close
    BY <2>23 DEF Close, flagVars
  <2>24. CASE HandleReply
    BY <2>24 DEF HandleReply, flagVars
  <2>25. CASE UNCHANGED vars
    BY <2>25 DEF vars, flagVars
  <2>26. CASE HandleError
    BY <2>26 DEF HandleError, flagVars
  <2>27. CASE Kill
    BY <2>27 DEF Kill, flagVars
  <2> QED
    BY <2>1, <2>2, <2>3, <2>4, <2>5, <2>6, <2>7, <2>8, <2>9, <2>10, <2>11, <2>12,
       <2>13, <2>14, <2>15, <2>16, <2>17, <2>18, <2>19, <2>20, <2>21, <2>22, <2>23,
       <2>24, <2>25, <2>26, <2>27
    DEF Next, MainStep, LoopStep
<1>3. SendInv => SendsAreWhole
  BY DEF SendInv
<1> QED
  BY <1>1, <1>2, <1>3, PTL DEF Spec

\* Every variable keeps its type, whatever is sent, aborted and closed.
THEOREM TypeCorrect == Spec => []TypeOK
<1>1. Init => TypeOK
  <2> SUFFICES ASSUME Init PROVE TypeOK
    OBVIOUS
  <2>1. commands \in Seq(Commands) /\ replies \in Seq(Replies)
    BY DEF Init
  <2>2. code \in [number : 0 .. MaxCommands, kind : CommandKinds]
    BY ReplAssumption DEF Init, CommandKinds
  <2>3. /\ line \in 0 .. MaxReads /\ reads \in 0 .. MaxReads /\ executing \in 0 .. MaxCommands
        /\ sent \in 0 .. MaxCommands /\ aborts \in 0 .. MaxAborts
    BY ReplAssumption DEF Init
  <2>4. /\ itemFree \in BOOLEAN /\ inputFree \in BOOLEAN /\ window = "open"
        /\ exitRequested \in BOOLEAN /\ interrupted \in BOOLEAN
    BY DEF Init
  <2>5. /\ item \in {None, "code", "exit"} /\ sendLock \in {None, "main", "loop"} 
        /\ main \in MainPlaces /\ main # "RDLN"
        /\ loop \in {"receiving", "releasing", "interrupting", "failed", "ended"}
    BY DEF Init, MainPlaces
  <2>6. asked = {} /\ mishaps = {}
    BY DEF Init
  <2> QED
    BY <2>1, <2>2, <2>3, <2>4, <2>5, <2>6 DEF TypeOK
<1>2. TypeOK /\ [Next]_vars => TypeOK'
  <2> SUFFICES ASSUME TypeOK, [Next]_vars PROVE TypeOK'
    OBVIOUS
  <2> USE ReplAssumption DEF TypeOK, CommandKinds, MainPlaces, Sending,
          itemVars, inputVars, flagVars, windowVars
  <2>1. CASE Take
    <3>1. itemFree' \in BOOLEAN /\ main' = "taken"
      BY <2>1 DEF Take
    <3> QED
      BY <2>1, <3>1 DEF Take
  <2>2. CASE Begin
    BY <2>2 DEF Begin
  <2>3. CASE End
    BY <2>3 DEF End
  <2>4. CASE ReadLine
    BY <2>4 DEF ReadLine
  <2>5. CASE AwaitLine
    BY <2>5 DEF AwaitLine
  <2>6. CASE GetLine
    <3>1. inputFree' \in BOOLEAN /\ main' = "read"
      BY <2>6 DEF GetLine
    <3> QED
      BY <2>6, <3>1 DEF GetLine
  <2>7. CASE ReturnLine
    BY <2>7 DEF ReturnLine
  <2>8. CASE LockSend
    BY <2>8 DEF LockSend
  <2>9. CASE Write
    BY <2>9 DEF Write, Replies
  <2>10. CASE FailToWrite
    BY <2>10 DEF FailToWrite
  <2>11. CASE Prompt
    BY <2>11 DEF Prompt
  <2>12. CASE Leave
    BY <2>12 DEF Leave
  <2>13. CASE Interrupt
    <3>1. mishaps' \subseteq mishaps \cup {"skipped", "twice", "orphaned", "killed"}
      BY <2>13 DEF Interrupt, InterruptAt
    <3>2. main' \in {"ended", "idle", "ERRE"} /\ item' \in {None, item} /\ interrupted' \in BOOLEAN
      BY <2>13 DEF Interrupt, InterruptAt, AfterInterrupt
    <3>3. /\ UNCHANGED <<itemFree, code, inputVars, exitRequested, loop, reads, commands, replies>>
          /\ UNCHANGED <<windowVars, sendLock>>
      BY <2>13 DEF Interrupt, InterruptAt
    <3> QED
      BY <3>1, <3>2, <3>3
  <2>14. CASE Run
    BY <2>14 DEF Run, Receive, Command, Commands
  <2>15. CASE ReleaseItem
    <3>1. itemFree' = TRUE /\ loop' \in {"receiving", "failed"}
      BY <2>15 DEF ReleaseItem
    <3> QED
      BY <2>15, <3>1 DEF ReleaseItem
  <2>16. CASE Abort
    BY <2>16 DEF Abort, Receive
  <2>17. CASE InterruptMain
    BY <2>17 DEF InterruptMain
  <2>18. CASE Input
    <3>1. commands' \in Seq(Commands) /\ line' \in 0 .. MaxReads
      BY <2>18 DEF Input, Receive, Command, Commands
    <3>2. inputFree' = TRUE /\ loop' \in {"receiving", "failed"}
      BY <2>18 DEF Input, Receive
    <3> QED
      BY <2>18, <3>1, <3>2 DEF Input
  <2>19. CASE Exit
    BY <2>19 DEF Exit, Receive, ExitProcess
  <2>20. CASE SendRun
    BY <2>20 DEF SendRun, Commands
  <2>21. CASE SendAbort
    BY <2>21 DEF SendAbort, Commands
  <2>22. CASE SendLine
    BY <2>22 DEF SendLine, Commands
  <2>23. CASE Close
    <3>1. [kind |-> "exit"] \in Commands /\ 0 \in 0 .. MaxCommands
      BY DEF Commands
    <3>2. commands' \in Seq(Commands) /\ executing' = 0 /\ window' = "closed"
      BY <2>23, <3>1 DEF Close
    <3> QED
      BY <2>23, <3>1, <3>2 DEF Close
  <2>24. CASE HandleReply
    <3> DEFINE reply == Head(replies)
    <3>1. replies' \in Seq(Replies) /\ reply \in Replies
      BY <2>24 DEF HandleReply
    <3>2. reply.kind = "RDLN" => reply.about \in 1 .. MaxReads
      BY <3>1 DEF Replies
    <3>3. [kind |-> "exit"] \in Commands /\ 0 \in 0 .. MaxCommands
      BY DEF Commands
    <3>4. \/ UNCHANGED <<commands, asked, window>> /\ executing' = 0
          \/ /\ reply.kind = "RDLN" /\ asked' = asked \cup {reply.about}
             /\ UNCHANGED <<commands, executing, window>>
          \/ /\ window' = "left" /\ executing' = 0 /\ UNCHANGED asked
             /\ commands' = Append(commands, [kind |-> "exit"])
      BY <2>24 DEF HandleReply
    <3> HIDE DEF reply
    <3>5. /\ commands' \in Seq(Commands) /\ executing' \in 0 .. MaxCommands
          /\ asked' \subseteq 1 .. MaxReads
          /\ window' \in {"open", "left", "closed", "killed"}
      <4>1. CASE UNCHANGED <<commands, asked, window>> /\ executing' = 0
        BY <4>1, <3>3
      <4>2. CASE reply.kind = "RDLN" /\ asked' = asked \cup {reply.about}
                 /\ UNCHANGED <<commands, executing, window>>
        BY <4>2, <3>2
      <4>3. CASE /\ window' = "left" /\ executing' = 0 /\ UNCHANGED asked
                 /\ commands' = Append(commands, [kind |-> "exit"])
        <5>1. commands' \in Seq(Commands)
          BY <4>3, <3>3
        <5>2. asked' \subseteq 1 .. MaxReads
          BY <4>3
        <5> QED
          BY <4>3, <3>3, <5>1, <5>2
      <4> QED
        BY <3>4, <4>1, <4>2, <4>3
    <3> QED
      BY <2>24, <3>1, <3>5 DEF HandleReply
  <2>25. CASE UNCHANGED vars
    BY <2>25 DEF vars
  <2>26. CASE HandleError
    BY <2>26 DEF HandleError, ExitProcess
  <2>27. CASE Kill
    BY <2>27 DEF Kill
  <2> QED
    BY <2>1, <2>2, <2>3, <2>4, <2>5, <2>6, <2>7, <2>8, <2>9, <2>10, <2>11, <2>12,
       <2>13, <2>14, <2>15, <2>16, <2>17, <2>18, <2>19, <2>20, <2>21, <2>22, <2>23,
       <2>24, <2>25, <2>26, <2>27
    DEF Next, MainStep, LoopStep
<1> QED
  BY <1>1, <1>2, PTL DEF Spec
-----------------------------------------------------------------------------
(* Lines and reports: each has one message, in one place at a time         *)

\* The messages of some kinds that are on their way, and that there is at most one.
Told(messages, kinds) == {messages[i] : i \in {j \in DOMAIN messages : messages[j].kind \in kinds}}

Once(messages, kinds) ==
  \A i, j \in DOMAIN messages :
    messages[i].kind \in kinds /\ messages[j].kind \in kinds => i = j

\* A message that is sent joins the others of its kind.
LEMMA SentIs ==
  ASSUME NEW S, NEW s \in Seq(S), NEW m \in S, NEW kinds
  PROVE  /\ Told(Append(s, m), kinds) = Told(s, kinds) \cup (IF m.kind \in kinds THEN {m} ELSE {})
         /\ Once(s, kinds) /\ (m.kind \in kinds => Told(s, kinds) = {}) => Once(Append(s, m), kinds)
<1> DEFINE n == Len(s) + 1
<1>1. /\ DOMAIN s = 1 .. Len(s) /\ Len(s) \in Nat /\ DOMAIN Append(s, m) = 1 .. n
      /\ \A i \in 1 .. Len(s) : Append(s, m)[i] = s[i]
      /\ Append(s, m)[n] = m
  OBVIOUS
<1>2. DOMAIN Append(s, m) = DOMAIN s \cup {n} /\ n \notin DOMAIN s
  BY <1>1
<1> HIDE DEF n
<1>3. Told(Append(s, m), kinds) = Told(s, kinds) \cup (IF m.kind \in kinds THEN {m} ELSE {})
  BY <1>1, <1>2 DEF Told
<1>4. ASSUME Once(s, kinds), m.kind \in kinds => Told(s, kinds) = {}
      PROVE  Once(Append(s, m), kinds)
  BY <1>1, <1>2, <1>4 DEF Told, Once
<1> QED
  BY <1>3, <1>4

\* A message of another kind changes nothing.
LEMMA OtherSent ==
  ASSUME NEW S, NEW s \in Seq(S), NEW m \in S, NEW kinds, m.kind \notin kinds
  PROVE  /\ Told(Append(s, m), kinds) = Told(s, kinds)
         /\ Once(s, kinds) => Once(Append(s, m), kinds)
<1>1. Told(Append(s, m), kinds) = Told(s, kinds) \cup (IF m.kind \in kinds THEN {m} ELSE {})
  BY SentIs
<1>2. Once(s, kinds) /\ (m.kind \in kinds => Told(s, kinds) = {}) => Once(Append(s, m), kinds)
  BY SentIs
<1> QED
  BY <1>1, <1>2

\* A message that is taken is gone, and when there was one of its kind there is none.
LEMMA TakenIs ==
  ASSUME NEW S, NEW s \in Seq(S), s # <<>>, NEW kinds
  PROVE  /\ Told(Tail(s), kinds) \subseteq Told(s, kinds)
         /\ Once(s, kinds) => Once(Tail(s), kinds)
         /\ Head(s).kind \in kinds =>
              Head(s) \in Told(s, kinds) /\ (Once(s, kinds) => Told(Tail(s), kinds) = {})
<1>1. /\ DOMAIN s = 1 .. Len(s) /\ Len(s) \in Nat \ {0} /\ DOMAIN Tail(s) = 1 .. Len(s) - 1
      /\ \A i \in DOMAIN Tail(s) : Tail(s)[i] = s[i + 1]
      /\ Head(s) = s[1]
  OBVIOUS
<1>2. 1 \in DOMAIN s /\ \A i \in DOMAIN Tail(s) : i + 1 \in DOMAIN s /\ i + 1 # 1
  BY <1>1
<1>3. \A i, j \in DOMAIN Tail(s) : i + 1 = j + 1 => i = j
  BY <1>1
<1>4. Told(Tail(s), kinds) \subseteq Told(s, kinds)
  BY <1>1, <1>2 DEF Told
<1>5. Once(s, kinds) => Once(Tail(s), kinds)
  BY <1>1, <1>2, <1>3 DEF Once
<1>6. ASSUME Head(s).kind \in kinds
      PROVE  Head(s) \in Told(s, kinds) /\ (Once(s, kinds) => Told(Tail(s), kinds) = {})
  BY <1>1, <1>2, <1>6 DEF Told, Once
<1> QED
  BY <1>4, <1>5, <1>6

\* A command that is received is no longer on its way.
LEMMA ReceivedIs ==
  ASSUME TypeOK, NEW kind, Receive(kind), NEW kinds
  PROVE  /\ Told(commands', kinds) \subseteq Told(commands, kinds)
         /\ Once(commands, kinds) => Once(commands', kinds)
         /\ kind \in kinds =>
              /\ Command \in Told(commands, kinds)
              /\ (Once(commands, kinds) => Told(commands', kinds) = {})
<1>1. commands \in Seq(Commands) /\ commands # <<>> /\ commands' = Tail(commands)
      /\ Command = Head(commands) /\ Command.kind = kind
  BY DEF TypeOK, Receive, Command
<1> QED
  BY <1>1, TakenIs

\* The requests for a line and the lines on their way.
LinesAsked == Told(replies, {"RDLN"})
LinesTyped == Told(commands, {"inpl"})

\* They are for the last read, wherever they are: on their way to the window, with
\* the user, on their way back, or left in input_string.
ForThisRead ==
  /\ \A m \in LinesAsked : m.about = reads
  /\ asked \subseteq {reads}
  /\ \A m \in LinesTyped : m.number = reads
  /\ inputFree => line = reads
  /\ main = "read" => line = reads

\* At most one of them is anywhere, and none when nobody waits for it.
OneLine ==
  /\ Once(replies, {"RDLN"}) /\ Once(commands, {"inpl"})
  /\ LinesAsked # {} => (asked = {} /\ LinesTyped = {} /\ ~ inputFree)
  /\ asked # {} => (LinesTyped = {} /\ ~ inputFree)
  /\ LinesTyped # {} => ~ inputFree
  /\ main \notin {"asked", "reading"} =>
       (LinesAsked = {} /\ asked = {} /\ LinesTyped = {} /\ ~ inputFree)

\* A process that is killed leaves everything where it is.
LineInv ==
  /\ window = "killed" => main = "ended"
  /\ "orphaned" \notin mishaps /\ window # "killed" => ForThisRead /\ OneLine

\* A killed process stays so, and its main thread does nothing.
LEMMA KilledEnds ==
  ASSUME [Next]_vars, window = "killed" => main = "ended"
  PROVE  /\ window' = "killed" => main' = "ended"
         /\ window' # "killed" => window # "killed"
<1>1. CASE MainStep
  <2>1. window' = window /\ main # "ended"
    BY <1>1 DEF MainStep, Take, Begin, End, ReadLine, AwaitLine, GetLine, ReturnLine, LockSend,
           Write, FailToWrite, Prompt, Leave, Interrupt, InterruptAt, Sending, windowVars
  <2> QED BY <2>1
<1>2. CASE LoopStep
  BY <1>2 DEF LoopStep, Run, ReleaseItem, Abort, InterruptMain, Input, Exit, HandleError, windowVars
<1>3. CASE SendRun \/ SendAbort \/ SendLine \/ Close \/ HandleReply
  BY <1>3 DEF SendRun, SendAbort, SendLine, Close, HandleReply
<1>4. CASE Kill
  BY <1>4 DEF Kill
<1>5. CASE UNCHANGED vars
  BY <1>5 DEF vars, windowVars
<1> QED BY <1>1, <1>2, <1>3, <1>4, <1>5 DEF Next

\* Every step leaves the request of a read, or its line, in one place.
LEMMA LineInvKept == TypeOK /\ LineInv /\ [Next]_vars => LineInv'
<1>01. TypeOK /\ LineInv /\ [Next]_vars => (window' = "killed" => main' = "ended")
  BY KilledEnds DEF LineInv
<1> SUFFICES ASSUME TypeOK, LineInv, [Next]_vars, "orphaned" \notin mishaps',
                    window' # "killed"
             PROVE  ForThisRead' /\ OneLine'
  BY <1>01 DEF LineInv
<1>0. "orphaned" \notin mishaps => ForThisRead /\ OneLine
  BY KilledEnds DEF LineInv
<1> USE DEF itemVars, inputVars, flagVars, windowVars, ForThisRead, OneLine, LinesAsked,
        LinesTyped, MainPlaces, Sending
<1>1. CASE Take
  BY <1>0, <1>1 DEF Take
<1>2. CASE Begin
  BY <1>0, <1>2 DEF Begin
<1>3. CASE End
  BY <1>0, <1>3 DEF End
<1>4. CASE ReadLine
  BY <1>0, <1>4 DEF ReadLine
<1>5. CASE AwaitLine
  BY <1>0, <1>5 DEF AwaitLine
<1>6. CASE GetLine
  BY <1>0, <1>6 DEF GetLine
<1>7. CASE ReturnLine
  BY <1>0, <1>7 DEF ReturnLine
<1>8. CASE LockSend
  BY <1>0, <1>8 DEF LockSend
<1>9. CASE Write
  <2> DEFINE m == [kind |-> IF main = "exiting" THEN "ERRE" ELSE main,
                   about |-> IF main = "RDLN" THEN reads ELSE code.number]
  <2>1. m \in Replies /\ replies \in Seq(Replies) /\ replies' = Append(replies, m)
    BY <1>9 DEF Write, TypeOK, Replies
  <2>2. m.kind = "RDLN" <=> main = "RDLN"
    BY DEF Sending
  <2>3. main = "RDLN" => m.about = reads
    OBVIOUS
  <2> HIDE DEF m
  <2>4. /\ LinesAsked' = LinesAsked \cup (IF main = "RDLN" THEN {m} ELSE {})
        /\ Once(replies, {"RDLN"}) /\ (main = "RDLN" => LinesAsked = {}) => Once(replies', {"RDLN"})
    BY <2>1, <2>2, SentIs
  <2>5. main' \in {"asked", "reading"} <=> main = "RDLN"
    BY <1>9 DEF Write
  <2>6. main' # "read"
    BY <1>9 DEF Write
  <2> HIDE DEF LinesAsked
  <2> QED
    BY <1>0, <2>3, <2>4, <2>5, <2>6, <1>9 DEF Write
<1>10. CASE FailToWrite
  BY <1>0, <1>10 DEF FailToWrite
<1>11. CASE Prompt
  BY <1>0, <1>11 DEF Prompt
<1>12. CASE Leave
  BY <1>0, <1>12 DEF Leave
<1>13. CASE Interrupt
  BY <1>0, <1>13 DEF Interrupt, InterruptAt, AfterInterrupt
<1>14. CASE Run
  <2>1. /\ LinesTyped' \subseteq LinesTyped
        /\ Once(commands, {"inpl"}) => Once(commands', {"inpl"})
    BY <1>14, ReceivedIs DEF Run
  <2> HIDE DEF LinesTyped
  <2> QED
    BY <1>0, <2>1, <1>14 DEF Run
<1>15. CASE ReleaseItem
  BY <1>0, <1>15 DEF ReleaseItem
<1>16. CASE Abort
  <2>1. /\ LinesTyped' \subseteq LinesTyped
        /\ Once(commands, {"inpl"}) => Once(commands', {"inpl"})
    BY <1>16, ReceivedIs DEF Abort
  <2> HIDE DEF LinesTyped
  <2> QED
    BY <1>0, <2>1, <1>16 DEF Abort
<1>17. CASE InterruptMain
  BY <1>0, <1>17 DEF InterruptMain
<1>18. CASE Input
  <2>1. Once(commands, {"inpl"}) =>
          Once(commands', {"inpl"}) /\ Command \in LinesTyped /\ LinesTyped' = {}
    BY <1>18, ReceivedIs DEF Input
  <2>2. line' = Command.number
    BY <1>18 DEF Input
  <2> HIDE DEF LinesTyped
  <2> QED
    BY <1>0, <2>1, <2>2, <1>18 DEF Input
<1>19. CASE Exit
  <2>1. /\ LinesTyped' \subseteq LinesTyped
        /\ Once(commands, {"inpl"}) => Once(commands', {"inpl"})
    BY <1>19, ReceivedIs DEF Exit
  <2> HIDE DEF LinesTyped
  <2> QED
    BY <1>0, <2>1, <1>19 DEF Exit
<1>20. CASE SendRun
  <2>1. PICK m \in Commands : commands' = Append(commands, m) /\ m.kind = "run"
    <3>1. PICK kind \in Kinds :
            commands' = Append(commands, [kind |-> "run", number |-> sent + 1, does |-> kind])
      BY <1>20 DEF SendRun
    <3>2. sent + 1 \in 1 .. MaxCommands /\ kind \in CommandKinds
      BY <1>20, ReplAssumption DEF SendRun, TypeOK
    <3>3. [kind |-> "run", number |-> sent + 1, does |-> kind] \in Commands
      BY <3>2 DEF Commands
    <3> QED
      BY <3>1, <3>3
  <2>2. /\ LinesTyped' = LinesTyped
        /\ Once(commands, {"inpl"}) => Once(commands', {"inpl"})
    <3>1. commands \in Seq(Commands) /\ m.kind \notin {"inpl"}
      BY <2>1 DEF TypeOK
    <3> QED
      BY <2>1, <3>1, OtherSent
  <2> HIDE DEF LinesTyped
  <2> QED
    BY <1>0, <2>2, <1>20 DEF SendRun
<1>21. CASE SendAbort
  <2>1. PICK m \in Commands : commands' = Append(commands, m) /\ m.kind = "abrt"
    BY <1>21 DEF SendAbort, Commands
  <2>2. /\ LinesTyped' = LinesTyped
        /\ Once(commands, {"inpl"}) => Once(commands', {"inpl"})
    <3>1. commands \in Seq(Commands) /\ m.kind \notin {"inpl"}
      BY <2>1 DEF TypeOK
    <3> QED
      BY <2>1, <3>1, OtherSent
  <2> HIDE DEF LinesTyped
  <2> QED
    BY <1>0, <2>2, <1>21 DEF SendAbort
<1>22. CASE SendLine
  <2>1. PICK n \in asked : /\ asked' = asked \ {n}
                           /\ commands' = Append(commands, [kind |-> "inpl", number |-> n])
    BY <1>22 DEF SendLine
  <2> DEFINE m == [kind |-> "inpl", number |-> n]
  <2>2. m \in Commands /\ m.kind = "inpl" /\ m.number = n /\ commands \in Seq(Commands)
    BY DEF Commands, TypeOK
  <2>3. commands' = Append(commands, m)
    BY <2>1
  <2> HIDE DEF m
  <2>4. /\ LinesTyped' = LinesTyped \cup {m}
        /\ Once(commands, {"inpl"}) /\ LinesTyped = {} => Once(commands', {"inpl"})
    BY <2>2, <2>3, SentIs
  <2> HIDE DEF LinesTyped
  <2> QED
    BY <1>0, <2>1, <2>2, <2>4, <1>22 DEF SendLine
<1>23. CASE Close
  <2>1. PICK m \in Commands : m.kind = "exit" /\ commands' \in {commands, Append(commands, m)}
    <3>1. [kind |-> "exit"] \in Commands
      BY DEF Commands
    <3> QED
      BY <1>23, <3>1 DEF Close
  <2>2. /\ LinesTyped' = LinesTyped
        /\ Once(commands, {"inpl"}) => Once(commands', {"inpl"})
    <3>1. commands \in Seq(Commands) /\ m.kind \notin {"inpl"}
      BY <2>1 DEF TypeOK
    <3>2. CASE commands' = commands
      BY <3>2
    <3>3. CASE commands' = Append(commands, m)
      BY <3>1, <3>3, OtherSent
    <3> QED
      BY <2>1, <3>2, <3>3
  <2> HIDE DEF LinesTyped
  <2> QED
    BY <1>0, <2>2, <1>23 DEF Close
<1>24. CASE HandleReply
  <2> DEFINE reply == Head(replies)
  <2>1. /\ LinesAsked' \subseteq LinesAsked
        /\ Once(replies, {"RDLN"}) => Once(replies', {"RDLN"})
        /\ reply.kind = "RDLN" =>
             reply \in LinesAsked /\ (Once(replies, {"RDLN"}) => LinesAsked' = {})
    BY <1>24, TakenIs DEF HandleReply, TypeOK
  <2>2. \/ UNCHANGED <<commands, asked>>
        \/ reply.kind = "RDLN" /\ asked' = asked \cup {reply.about} /\ UNCHANGED commands
        \/ commands' = Append(commands, [kind |-> "exit"]) /\ UNCHANGED asked
    BY <1>24 DEF HandleReply
  <2>3. UNCHANGED <<reads, inputFree, line, main>> /\ mishaps' = mishaps
    BY <1>24 DEF HandleReply
  <2>4. commands' = Append(commands, [kind |-> "exit"]) =>
          LinesTyped' = LinesTyped /\ (Once(commands, {"inpl"}) => Once(commands', {"inpl"}))
    <3> SUFFICES ASSUME commands' = Append(commands, [kind |-> "exit"])
                 PROVE  LinesTyped' = LinesTyped
                        /\ (Once(commands, {"inpl"}) => Once(commands', {"inpl"}))
      OBVIOUS
    <3> DEFINE m == [kind |-> "exit"]
    <3>1. m \in Commands /\ commands \in Seq(Commands) /\ m.kind \notin {"inpl"}
      BY DEF Commands, TypeOK
    <3>2. commands' = Append(commands, m)
      OBVIOUS
    <3> HIDE DEF m
    <3> QED
      BY <3>1, <3>2, OtherSent
  <2>5. commands' = commands => LinesTyped' = LinesTyped
    OBVIOUS
  <2> HIDE DEF LinesAsked, LinesTyped, reply
  <2> QED
    BY <1>0, <2>1, <2>2, <2>3, <2>4, <2>5
<1>25. CASE UNCHANGED vars
  BY <1>0, <1>25 DEF vars
<1>26. CASE HandleError
  BY <1>0, <1>26 DEF HandleError
<1>27. CASE Kill
  BY <1>27 DEF Kill
<1> HIDE DEF itemVars, inputVars, flagVars, windowVars, ForThisRead, OneLine, LinesAsked,
         LinesTyped, MainPlaces, Sending
<1> QED
  BY <1>1, <1>2, <1>3, <1>4, <1>5, <1>6, <1>7, <1>8, <1>9, <1>10, <1>11, <1>12, <1>13, <1>14,
     <1>15, <1>16, <1>17, <1>18, <1>19, <1>20, <1>21, <1>22, <1>23, <1>24, <1>25, <1>26, <1>27
  DEF Next, MainStep, LoopStep

\* The commands and the reports on their way, the place of a command that the main
\* thread has taken, and whether a command asks for the end of the process.
RunsSent == Told(commands, {"run"})
Reported == Told(replies, {"DONE", "ERRE"})
ExitsSent == Told(commands, {"exit"})

Busy == main \in {"taken", "running", "RDLN", "asked", "reading", "read", "DONE", "ERRE", "exiting"}

\* They are about the command the window waits for, wherever it is: on its way, taken
\* by the loop, with the lock released for it, executed, or reported.
ForThisCommand ==
  /\ \A m \in RunsSent : m.number = executing
  /\ loop = "releasing" \/ itemFree \/ Busy => code.number = executing
  /\ \A m \in Reported : m.about = executing

\* The command is in at most one place, and in none when the window waits for none.
OneCommand ==
  /\ Once(replies, {"DONE", "ERRE"}) /\ Once(commands, {"run"})
  /\ ExitsSent = {} /\ loop # "failed"
  /\ RunsSent # {} => (loop # "releasing" /\ ~ itemFree /\ ~ Busy /\ Reported = {})
  /\ loop = "releasing" => (~ itemFree /\ ~ Busy /\ Reported = {})
  /\ itemFree => (~ Busy /\ Reported = {})
  /\ Busy => Reported = {}
  /\ executing = 0 =>
       (RunsSent = {} /\ loop # "releasing" /\ ~ itemFree /\ ~ Busy /\ Reported = {})

Regular == window = "open" /\ mishaps \cap {"twice", "orphaned"} = {}

CommandInv == Regular => ForThisCommand /\ OneCommand

\* A window that is open has been, and a mishap is not forgotten.
LEMMA RegularWas == TypeOK /\ [Next]_vars /\ Regular' => Regular
<1> SUFFICES ASSUME TypeOK, [Next]_vars, Regular' PROVE Regular
  OBVIOUS
<1>1. mishaps \subseteq mishaps'
  BY DEF Next, MainStep, LoopStep, Take, Begin, End, ReadLine, AwaitLine, GetLine, ReturnLine,
         LockSend, Write, FailToWrite, Prompt, Leave, Interrupt, InterruptAt, Run, ReleaseItem,
         Abort, InterruptMain, Input, Exit, HandleError, SendRun, SendAbort, SendLine, Close,
         Kill, HandleReply, vars
<1>2. window' = "open" => window = "open"
  BY DEF Next, MainStep, LoopStep, Take, Begin, End, ReadLine, AwaitLine, GetLine, ReturnLine,
         LockSend, Write, FailToWrite, Prompt, Leave, Interrupt, InterruptAt, Run, ReleaseItem,
         Abort, InterruptMain, Input, Exit, HandleError, SendRun, SendAbort, SendLine, Close,
         Kill, HandleReply, windowVars, vars
<1> QED
  BY <1>1, <1>2 DEF Regular

\* Each step moves the command from one place to the next.  That a line is never typed
\* twice keeps the loop from ending the process at the second.
LEMMA CommandInvKept == TypeOK /\ LineInv /\ CommandInv /\ [Next]_vars => CommandInv'
<1> SUFFICES ASSUME TypeOK, LineInv, CommandInv, [Next]_vars, Regular'
             PROVE  ForThisCommand' /\ OneCommand'
  BY DEF CommandInv
<1>0. Regular /\ ForThisCommand /\ OneCommand
  BY RegularWas DEF CommandInv
<1> USE DEF itemVars, inputVars, flagVars, windowVars, ForThisCommand, OneCommand, RunsSent,
        Reported, ExitsSent, Busy, MainPlaces, Sending
<1>1. CASE Take
  BY <1>0, <1>1 DEF Take
<1>2. CASE Begin
  BY <1>0, <1>2 DEF Begin
<1>3. CASE End
  BY <1>0, <1>3 DEF End
<1>4. CASE ReadLine
  BY <1>0, <1>4 DEF ReadLine
<1>5. CASE AwaitLine
  BY <1>0, <1>5 DEF AwaitLine
<1>6. CASE GetLine
  BY <1>0, <1>6 DEF GetLine
<1>7. CASE ReturnLine
  BY <1>0, <1>7 DEF ReturnLine
<1>8. CASE LockSend
  BY <1>0, <1>8 DEF LockSend
<1>9. CASE Write
  <2> DEFINE m == [kind |-> IF main = "exiting" THEN "ERRE" ELSE main,
                   about |-> IF main = "RDLN" THEN reads ELSE code.number]
  <2>1. m \in Replies /\ replies \in Seq(Replies) /\ replies' = Append(replies, m)
    BY <1>9 DEF Write, TypeOK, Replies
  <2>2. m.kind \in {"DONE", "ERRE"} <=> main \in {"DONE", "ERRE", "exiting"}
    BY DEF Sending
  <2>3. main \in {"DONE", "ERRE", "exiting"} => m.about = code.number
    OBVIOUS
  <2> HIDE DEF m
  <2>4. /\ Reported' = Reported \cup (IF main \in {"DONE", "ERRE", "exiting"} THEN {m} ELSE {})
        /\ (/\ Once(replies, {"DONE", "ERRE"})
            /\ main \in {"DONE", "ERRE", "exiting"} => Reported = {})
             => Once(replies', {"DONE", "ERRE"})
    BY <2>1, <2>2, SentIs
  <2>5. Busy' => Busy /\ main \notin {"DONE", "ERRE", "exiting"}
    BY <1>9 DEF Write
  <2>6. main \in {"DONE", "ERRE", "exiting"} => Busy
    OBVIOUS
  <2> HIDE DEF Reported, Busy
  <2> QED
    BY <1>0, <2>3, <2>4, <2>5, <2>6, <1>9 DEF Write
<1>10. CASE FailToWrite
  BY <1>0, <1>10 DEF FailToWrite
<1>11. CASE Prompt
  BY <1>0, <1>11 DEF Prompt
<1>12. CASE Leave
  BY <1>0, <1>12 DEF Leave
<1>13. CASE Interrupt
  <2>1. /\ main' \in {"ERRE", "ended", "idle"}
        /\ (main' = "ERRE" => main \notin {"exiting", "EXIT", "waiting", "ended", "idle", "ERRE"})
    BY <1>13 DEF Interrupt, InterruptAt, AfterInterrupt
  <2>2. main = "prompting" /\ main' = "ERRE" => "twice" \in mishaps'
    BY <1>13 DEF Interrupt, InterruptAt
  <2>3. main \in MainPlaces /\ main # "idle"
    BY <1>13 DEF Interrupt, InterruptAt
  <2>4. Busy' => Busy
    BY <2>1, <2>2, <2>3 DEF Regular
  <2> HIDE DEF Busy
  <2> QED
    BY <1>0, <2>4, <1>13 DEF Interrupt, InterruptAt
<1>14. CASE Run
  <2>1. /\ ExitsSent' \subseteq ExitsSent
        /\ Once(commands, {"run"}) =>
             Once(commands', {"run"}) /\ Command \in RunsSent /\ RunsSent' = {}
    BY <1>14, ReceivedIs DEF Run
  <2>2. code'.number = Command.number /\ loop' = "releasing"
    BY <1>14 DEF Run
  <2> HIDE DEF RunsSent, ExitsSent, Command
  <2> QED
    BY <1>0, <2>1, <2>2, <1>14 DEF Run
<1>15. CASE ReleaseItem
  BY <1>0, <1>15 DEF ReleaseItem
<1>16. CASE Abort
  <2>1. /\ RunsSent' \subseteq RunsSent /\ ExitsSent' \subseteq ExitsSent
        /\ Once(commands, {"run"}) => Once(commands', {"run"})
    BY <1>16, ReceivedIs DEF Abort
  <2> HIDE DEF RunsSent, ExitsSent
  <2> QED
    BY <1>0, <2>1, <1>16 DEF Abort, Receive
<1>17. CASE InterruptMain
  BY <1>0, <1>17 DEF InterruptMain
<1>18. CASE Input
  <2>1. /\ RunsSent' \subseteq RunsSent /\ ExitsSent' \subseteq ExitsSent
        /\ Once(commands, {"run"}) => Once(commands', {"run"})
    BY <1>18, ReceivedIs DEF Input
  <2>2. Command \in LinesTyped
    BY <1>18, ReceivedIs DEF Input, LinesTyped
  <2>3. ~ inputFree
    BY <1>0, <2>2 DEF LineInv, OneLine, Regular
  <2> HIDE DEF RunsSent, ExitsSent
  <2> QED
    BY <1>0, <2>1, <2>3, <1>18 DEF Input, Receive
<1>19. CASE Exit
  <2>1. Command \in ExitsSent
    BY <1>19, ReceivedIs DEF Exit
  <2> QED
    BY <1>0, <2>1
<1>20. CASE SendRun
  <2>1. PICK kind \in Kinds :
          commands' = Append(commands, [kind |-> "run", number |-> sent + 1, does |-> kind])
    BY <1>20 DEF SendRun
  <2> DEFINE m == [kind |-> "run", number |-> sent + 1, does |-> kind]
  <2>2. sent + 1 \in 1 .. MaxCommands /\ kind \in CommandKinds /\ sent + 1 # 0
    BY <1>20, ReplAssumption DEF SendRun, TypeOK
  <2>3. m \in Commands /\ commands \in Seq(Commands)
    BY <2>2 DEF Commands, TypeOK
  <2>4. m.kind = "run" /\ m.number = sent + 1 /\ commands' = Append(commands, m)
    BY <2>1
  <2> HIDE DEF m
  <2>5. /\ RunsSent' = RunsSent \cup {m}
        /\ Once(commands, {"run"}) /\ RunsSent = {} => Once(commands', {"run"})
    BY <2>3, <2>4, SentIs
  <2>6. ExitsSent' = ExitsSent
    BY <2>3, <2>4, OtherSent
  <2> HIDE DEF RunsSent, ExitsSent
  <2> QED
    BY <1>0, <2>2, <2>4, <2>5, <2>6, <1>20 DEF SendRun
<1>21. CASE SendAbort
  <2>1. PICK m \in Commands : commands' = Append(commands, m) /\ m.kind = "abrt"
    BY <1>21 DEF SendAbort, Commands
  <2>2. commands \in Seq(Commands) /\ m.kind \notin {"run"} /\ m.kind \notin {"exit"}
    BY <2>1 DEF TypeOK
  <2>3. /\ RunsSent' = RunsSent /\ ExitsSent' = ExitsSent
        /\ Once(commands, {"run"}) => Once(commands', {"run"})
    BY <2>1, <2>2, OtherSent
  <2> HIDE DEF RunsSent, ExitsSent
  <2> QED
    BY <1>0, <2>3, <1>21 DEF SendAbort
<1>22. CASE SendLine
  <2>1. PICK m \in Commands : commands' = Append(commands, m) /\ m.kind = "inpl"
    <3>1. PICK n \in asked : commands' = Append(commands, [kind |-> "inpl", number |-> n])
      BY <1>22 DEF SendLine
    <3>2. [kind |-> "inpl", number |-> n] \in Commands
      BY DEF Commands, TypeOK
    <3> QED
      BY <3>1, <3>2
  <2>2. commands \in Seq(Commands) /\ m.kind \notin {"run"} /\ m.kind \notin {"exit"}
    BY <2>1 DEF TypeOK
  <2>3. /\ RunsSent' = RunsSent /\ ExitsSent' = ExitsSent
        /\ Once(commands, {"run"}) => Once(commands', {"run"})
    BY <2>1, <2>2, OtherSent
  <2> HIDE DEF RunsSent, ExitsSent
  <2> QED
    BY <1>0, <2>3, <1>22 DEF SendLine
<1>23. CASE Close
  BY <1>23 DEF Close, Regular
<1>24. CASE HandleReply
  <2> DEFINE reply == Head(replies)
  <2>1. /\ Reported' \subseteq Reported
        /\ Once(replies, {"DONE", "ERRE"}) => Once(replies', {"DONE", "ERRE"})
        /\ reply.kind \in {"DONE", "ERRE"} =>
             reply \in Reported /\ (Once(replies, {"DONE", "ERRE"}) => Reported' = {})
    BY <1>24, TakenIs DEF HandleReply, TypeOK
  <2>2. UNCHANGED <<itemFree, code, main, loop>>
    BY <1>24 DEF HandleReply
  <2>3. window' = "open"
    BY DEF Regular
  <2>4. /\ UNCHANGED commands
        /\ executing' = executing \/ (reply.kind \in {"DONE", "ERRE"} /\ executing' = 0)
    BY <1>24, <2>3 DEF HandleReply
  <2>5. RunsSent' = RunsSent /\ ExitsSent' = ExitsSent
    BY <2>4
  <2> HIDE DEF Reported, RunsSent, ExitsSent, reply
  <2> QED
    BY <1>0, <2>1, <2>2, <2>4, <2>5
<1>25. CASE UNCHANGED vars
  BY <1>0, <1>25 DEF vars
<1>26. CASE HandleError
  <2>1. loop # "failed"
    BY <1>0
  <2> QED
    BY <1>26, <2>1 DEF HandleError
<1>27. CASE Kill
  BY <1>27 DEF Kill, Regular
<1> HIDE DEF itemVars, inputVars, flagVars, windowVars, ForThisCommand, OneCommand, RunsSent,
         Reported, ExitsSent, Busy, MainPlaces, Sending
<1> QED
  BY <1>1, <1>2, <1>3, <1>4, <1>5, <1>6, <1>7, <1>8, <1>9, <1>10, <1>11, <1>12, <1>13, <1>14,
     <1>15, <1>16, <1>17, <1>18, <1>19, <1>20, <1>21, <1>22, <1>23, <1>24, <1>25, <1>26, <1>27
  DEF Next, MainStep, LoopStep

\* Nothing is on its way at first.
LEMMA NothingSent == Init => LineInv /\ CommandInv
<1> SUFFICES ASSUME Init PROVE LineInv /\ CommandInv
  OBVIOUS
<1>1. \A kinds : Told(<<>>, kinds) = {} /\ Once(<<>>, kinds)
  BY DEF Told, Once
<1>2. commands = <<>> /\ replies = <<>>
  BY DEF Init
<1>3. LinesAsked = {} /\ LinesTyped = {} /\ RunsSent = {} /\ Reported = {} /\ ExitsSent = {}
  BY <1>1, <1>2 DEF LinesAsked, LinesTyped, RunsSent, Reported, ExitsSent
<1>4. ForThisRead /\ OneLine
  BY <1>1, <1>2, <1>3 DEF Init, ForThisRead, OneLine
<1>5. ForThisCommand /\ OneCommand
  BY <1>1, <1>2, <1>3 DEF Init, ForThisCommand, OneCommand, Busy
<1>6. window # "killed"
  BY DEF Init
<1> QED
  BY <1>4, <1>5, <1>6 DEF LineInv, CommandInv

\* read_line returns the line that was typed for it: a request, the user's answer and
\* the event that carries it are one token, which only an interrupt between the
\* request and the wait leaves behind.
THEOREM LineIsMine == Spec => []LinesMatch
<1>1. LineInv => LinesMatch
  BY DEF LineInv, ForThisRead, LinesMatch
<1> QED
  BY <1>1, TypeCorrect, NothingSent, LineInvKept, PTL DEF Spec

\* The window gets one report for the command it waits for and none for another: the
\* command is one token, from SendRun through the loop and the main thread to the
\* report, as long as no interrupt splits or ends its way.
THEOREM ReportIsMine == Spec => []ReportsMatch
<1>1. ASSUME TypeOK, CommandInv PROVE ReportsMatch
  <2> SUFFICES ASSUME Regular
               PROVE  /\ \A i \in Reports : replies[i].about = executing
                      /\ Cardinality(Reports) <= 1
    BY DEF ReportsMatch, Regular
  <2>1. \A i \in Reports : replies[i] \in Reported
    BY DEF Reports, Reported, Told
  <2>2. \A i, j \in Reports : i = j
    BY <1>1 DEF CommandInv, OneCommand, Once, Reports
  <2>3. Reports = {} \/ \E i \in Reports : Reports = {i}
    BY <2>2
  <2>4. Cardinality(Reports) <= 1
    <3>1. CASE Reports = {}
      BY <3>1, FS_EmptySet
    <3>2. ASSUME NEW i \in Reports, Reports = {i} PROVE Cardinality(Reports) <= 1
      <4>1. Cardinality({i}) = 1
        BY FS_Singleton
      <4> QED
        BY <3>2, <4>1
    <3> QED
      BY <2>3, <3>1, <3>2
  <2> QED
    BY <1>1, <2>1, <2>4 DEF CommandInv, ForThisCommand
<1>2. TypeOK /\ CommandInv => ReportsMatch
  BY <1>1
<1> QED
  BY <1>2, TypeCorrect, NothingSent, LineInvKept, CommandInvKept, PTL DEF Spec
=============================================================================
