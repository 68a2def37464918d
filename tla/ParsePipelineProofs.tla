------------------------- MODULE ParsePipelineProofs -------------------------
(* What ParsePipeline keeps for any number of tasks, edits and readers.    *)
EXTENDS ParsePipeline, FiniteSetTheorems, TLAPS

\* The tasks that _parsingInProgress counts.
Counted == {t \in Tasks : pc[t] \notin {"idle", "clearing", "edited", "done"}}

\* A task that has a parse to complete has a tree, and the counter is the number of
\* tasks between their creation and their disposal.
TypeInv ==
  /\ TypeOK
  /\ count = Cardinality(Counted)
  /\ \A t \in Tasks : pc[t] = "parsed" => parse[t] # None

\* The parses that are counted are finitely many.
LEMMA CountedFinite ==
  IsFiniteSet(Counted) /\ Cardinality(Counted) \in 0 .. Cardinality(Tasks)
<1>1. IsFiniteSet(Tasks) /\ Counted \subseteq Tasks
  BY PipelineAssumption DEF Counted
<1> QED
  BY <1>1, FS_Subset, FS_CardinalityType

\* A step of a task that is counted before and after it leaves the count as it is.
LEMMA CountedMove ==
  ASSUME TypeOK, NEW t \in Tasks, NEW place \in TaskStates, Goto(t, place),
         pc[t] \notin {"idle", "clearing", "edited", "done"},
         place \notin {"idle", "clearing", "edited", "done"}
  PROVE  Counted' = Counted /\ pc' \in [Tasks -> TaskStates]
         /\ pc'[t] = place /\ \A u \in Tasks \ {t} : pc'[u] = pc[u]
  BY DEF Goto, Counted, TypeOK

\* Every step keeps the ranges, and the count that of the parses not done.
LEMMA TypeKept ==
  ASSUME TypeInv, [Next]_vars
  PROVE  TypeInv'
<1> USE PipelineAssumption DEF TypeInv, docVars, entryVars, taskVars, readerVars
<1>0. TypeOK /\ Cardinality(Counted') \in 0 .. Cardinality(Tasks)
  <2>1. IsFiniteSet(Tasks) /\ Counted' \subseteq Tasks
    BY DEF Counted
  <2> QED
    BY <2>1, FS_Subset, FS_CardinalityType
<1>1. ASSUME NEW t \in Tasks, Edit(t) PROVE TypeInv'
  <2>1. Counted' = Counted
    BY <1>0, <1>1 DEF Edit, Goto, Counted, TypeOK
  <2>2. kept' \in [tree : Nat \cup {None}, by : Nat, version : -1 .. MaxVersion]
    BY <1>0, <1>1 DEF Edit, TypeOK
  <2>3. pc' \in [Tasks -> TaskStates] /\ pc'[t] # "parsed"
    BY <1>0, <1>1 DEF Edit, Goto, TypeOK, TaskStates
  <2>4. \A u \in Tasks : pc'[u] = "parsed" => parse'[u] # None
    BY <1>0, <1>1, <2>3 DEF Edit, Goto, TypeOK
  <2> QED
    BY <1>0, <1>1, <2>1, <2>2, <2>3, <2>4 DEF Edit, TypeOK
<1>13. ASSUME NEW t \in Tasks, WriteBack(t) PROVE TypeInv'
  <2>1. Counted' = Counted
    BY <1>0, <1>13 DEF WriteBack, Goto, Counted, TypeOK
  <2> QED
    BY <1>0, <1>13, <2>1 DEF WriteBack, NoTree, Goto, TypeOK, TaskStates
<1>2. ASSUME NEW t \in Tasks, Create(t) PROVE TypeInv'
  <2>1. Counted' = Counted \cup {t} /\ t \notin Counted
    BY <1>0, <1>2 DEF Create, Goto, Counted, TypeOK
  <2>2. Cardinality(Counted') = Cardinality(Counted) + 1
    BY <2>1, CountedFinite, FS_AddElement
  <2>3. count' = Cardinality(Counted')
    BY <1>2, <2>2 DEF Create
  <2> QED
    BY <1>0, <1>2, <2>3 DEF Create, Goto, TypeOK, TaskStates
<1>3. ASSUME NEW t \in Tasks, ResetEvent(t) PROVE TypeInv'
  <2>1. Counted' = Counted
    BY <1>0, <1>3, CountedMove DEF ResetEvent, TaskStates
  <2> QED
    BY <1>0, <1>3, <2>1 DEF ResetEvent, Goto, TypeOK, TaskStates
<1>4. ASSUME NEW t \in Tasks, TakeNumber(t) PROVE TypeInv'
  <2>1. Counted' = Counted
    BY <1>0, <1>4, CountedMove DEF TakeNumber, TaskStates
  <2> QED
    BY <1>0, <1>4, <2>1 DEF TakeNumber, Goto, TypeOK, TaskStates
<1>5. ASSUME NEW t \in Tasks, Start(t) PROVE TypeInv'
  <2>1. Counted' = Counted
    BY <1>0, <1>5, CountedMove DEF Start, TaskStates
  <2> QED
    BY <1>0, <1>5, <2>1 DEF Start, Goto, TypeOK, TaskStates
<1>6. ASSUME NEW t \in Tasks, TakeLastParse(t) PROVE TypeInv'
  <2>1. Counted' = Counted
    BY <1>0, <1>6, CountedMove DEF TakeLastParse, TaskStates
  <2> QED
    BY <1>0, <1>6, <2>1 DEF TakeLastParse, Goto, TypeOK, TaskStates
<1>7. ASSUME NEW t \in Tasks, Parse(t) PROVE TypeInv'
  <2>1. Counted' = Counted
    BY <1>0, <1>7, CountedMove DEF Parse, TaskStates
  <2>2. CASE parse' = [parse EXCEPT ![t] = IF MayReuse(t) THEN basis[t]
                                          ELSE [version |-> version, tree |-> text]]
             /\ Goto(t, "parsed")
    <3>1. (IF MayReuse(t) THEN basis[t] ELSE [version |-> version, tree |-> text]) \in Parses
      BY <1>0 DEF MayReuse, Parses, TypeOK
    <3>2. parse' \in [Tasks -> Parses \cup {None}] /\ parse'[t] \in Parses
      BY <1>0, <2>2, <3>1 DEF TypeOK
    <3>3. None \notin Parses
      BY DEF Parses
    <3> QED
      BY <1>0, <1>7, <2>1, <2>2, <3>2, <3>3 DEF Parse, Goto, TypeOK, TaskStates
  <2>3. CASE parse' = parse /\ Goto(t, "failed")
    BY <1>0, <1>7, <2>1, <2>3 DEF Parse, Goto, TypeOK, TaskStates
  <2> QED
    BY <1>7, <2>2, <2>3 DEF Parse
<1>8. ASSUME NEW t \in Tasks, Complete(t) PROVE TypeInv'
  <2>1. Counted' = Counted
    BY <1>0, <1>8, CountedMove DEF Complete, TaskStates
  <2>2. parse[t] \in Parses /\ parse[t].tree \in Nat
    BY <1>0, <1>8 DEF Complete, TypeOK, Parses
  <2>3. number[t] \in Nat
    BY <1>0 DEF TypeOK
  <2> QED
    BY <1>0, <1>8, <2>1, <2>2, <2>3 DEF Complete, Goto, TypeOK, TaskStates
<1>9. ASSUME NEW t \in Tasks, Dispose(t) PROVE TypeInv'
  <2>1. Counted' = Counted \ {t} /\ t \in Counted
    BY <1>0, <1>9 DEF Dispose, Goto, Counted, TypeOK
  <2>2. Cardinality(Counted') = Cardinality(Counted) - 1
    BY <2>1, CountedFinite, FS_RemoveElement
  <2>3. count' = Cardinality(Counted')
    BY <1>9, <2>2 DEF Dispose
  <2> QED
    BY <1>0, <1>9, <2>3 DEF Dispose, Goto, TypeOK, TaskStates, IsExpected
<1>10. ASSUME NEW r \in Readers, BeginWait(r) PROVE TypeInv'
  <2>1. owed' \in [Readers -> Nat]
    <3>1. (\E t \in PendingParses : IsExpected(t)) =>
            (CHOOSE t \in PendingParses : IsExpected(t)) \in Tasks
      BY DEF PendingParses
    <3> QED
      BY <1>0, <1>10, <3>1 DEF BeginWait, TypeOK
  <2> QED
    BY <1>0, <1>10, <2>1 DEF BeginWait, TypeOK, Counted
<1>11. ASSUME NEW r \in Readers, ReaderStep(r) PROVE TypeInv'
  <2>1. CASE PassEvent(r)
    BY <1>0, <2>1 DEF PassEvent, TypeOK, Counted
  <2>2. CASE GetCurrentParse(r)
    BY <1>0, <2>2 DEF GetCurrentParse, TypeOK, Counted
  <2> QED
    BY <1>11, <2>1, <2>2 DEF ReaderStep
<1>12. CASE UNCHANGED vars
  BY <1>0, <1>12 DEF vars, TypeOK, Counted
<1> QED
  BY <1>1, <1>2, <1>3, <1>4, <1>5, <1>6, <1>7, <1>8, <1>9, <1>10, <1>11, <1>12, <1>13
  DEF Next, TaskStep

-----------------------------------------------------------------------------

\* The tasks in the chain of the document.
Chained ==
  {t \in Tasks : pc[t] \notin {"idle", "clearing", "edited", "created", "reset", "unstarted"}}

\* Those whose work has begun.
Worked == {t \in Chained : pc[t] # "queued"}

\* The chain as an order: each queued task follows at once the one it continues after, the
\* last is last, and a task begins only when all before it have ended.
InOrder(rank) ==
  /\ last = None => Chained = {}
  /\ last # None => last \in Chained /\ \A u \in Chained : rank[u] <= rank[last]
  /\ \A t, u \in Chained : rank[t] = rank[u] => t = u
  /\ \A t \in Chained \ Worked, u \in Chained :
       rank[u] < rank[t] => previous[t] \in Chained /\ rank[u] <= rank[previous[t]]
  /\ \A t \in Worked, u \in Chained : rank[u] < rank[t] => TaskEnded(u)

ChainInv == \E rank \in [Tasks -> Nat] : InOrder(rank)

\* Only Start makes the chain longer, at its end; and the task that begins comes behind
\* one that has ended, before which all have.
LEMMA ChainKept ==
  ASSUME TypeOK, ChainInv, [Next]_vars
  PROVE  ChainInv'
<1> USE PipelineAssumption DEF docVars, entryVars, taskVars, readerVars
<1>0. /\ pc \in [Tasks -> TaskStates] /\ previous \in [Tasks -> Tasks \cup {None}]
      /\ last \in Tasks \cup {None} /\ None \notin Tasks
  BY DEF TypeOK
<1>1. PICK rank \in [Tasks -> Nat] : InOrder(rank)
  BY DEF ChainInv
<1>2. ASSUME Chained' = Chained, Worked' = Worked, UNCHANGED <<last, previous>>,
             \A u \in Tasks : TaskEnded(u) => TaskEnded(u)'
      PROVE  ChainInv'
  <2>1. InOrder(rank)'
    BY <1>1, <1>2 DEF InOrder, Chained, Worked
  <2> QED
    BY <2>1 DEF ChainInv
<1>3. ASSUME NEW t \in Tasks, Start(t) PROVE ChainInv'
  <2>0. PICK new \in [Tasks -> Nat] :
          /\ \A u \in Tasks \ {t} : new[u] = rank[u]
          /\ new[t] = IF last = None THEN 0 ELSE rank[last] + 1
    <3>1. (IF last = None THEN 0 ELSE rank[last] + 1) \in Nat
      BY <1>0, <1>1
    <3> DEFINE f == [u \in Tasks |-> IF u = t THEN (IF last = None THEN 0 ELSE rank[last] + 1)
                                     ELSE rank[u]]
    <3>2. /\ f \in [Tasks -> Nat] /\ \A u \in Tasks \ {t} : f[u] = rank[u]
          /\ f[t] = IF last = None THEN 0 ELSE rank[last] + 1
      BY <1>1, <3>1
    <3> HIDE DEF f
    <3> QED
      BY <3>2
  <2>1. /\ Chained' = Chained \cup {t} /\ t \notin Chained /\ Worked' = Worked
        /\ last' = t /\ previous'[t] = last /\ \A u \in Chained : previous'[u] = previous[u]
        /\ \A u \in Chained : pc'[u] = pc[u]
    BY <1>0, <1>3 DEF Start, Goto, Chained, Worked
  <2>2. new[t] \in Nat /\ \A u \in Chained : new[u] = rank[u] /\ rank[u] \in Nat
    BY <1>1, <2>0, <2>1 DEF Chained
  <2>3. \A u \in Chained : new[u] < new[t] /\ last \in Chained /\ rank[u] <= rank[last]
    <3>1. ASSUME NEW u \in Chained PROVE last \in Chained /\ rank[u] <= rank[last]
      BY <1>1 DEF InOrder
    <3>2. ASSUME NEW u \in Chained PROVE new[u] < new[t]
      <4>1. last # None
        BY <3>1 DEF Chained
      <4>2. new[t] = rank[last] + 1 /\ rank[last] \in Nat
        BY <2>0, <2>2, <3>1, <4>1
      <4> QED
        BY <2>2, <3>1, <4>2
    <3> QED
      BY <3>1, <3>2
  <2>4. \A u \in Chained : TaskEnded(u) => TaskEnded(u)'
    BY <2>1 DEF TaskEnded
  <2>5. Worked \subseteq Chained
    BY DEF Worked
  <2>6. InOrder(new)'
    <3>1. \A u \in Chained' : new[u] <= new[t]
      BY <2>1, <2>2, <2>3
    <3>2. \A s, u \in Chained' : new[s] = new[u] => s = u
      BY <1>1, <2>1, <2>2, <2>3 DEF InOrder
    <3>3. \A s \in Chained' \ Worked', u \in Chained' :
            new[u] < new[s] => previous'[s] \in Chained' /\ new[u] <= new[previous'[s]]
      <4>1. ASSUME NEW s \in Chained \ Worked, NEW u \in Chained, new[u] < new[s]
            PROVE  previous'[s] \in Chained' /\ new[u] <= new[previous'[s]]
        BY <1>1, <2>1, <2>2, <4>1 DEF InOrder
      <4>2. ASSUME NEW u \in Chained
            PROVE  previous'[t] \in Chained' /\ new[u] <= new[previous'[t]]
        BY <1>1, <2>1, <2>2, <2>3 DEF InOrder
      <4>3. ASSUME NEW s \in Chained PROVE ~ (new[t] < new[s])
        BY <2>2, <2>3
      <4>4. ~ (new[t] < new[t])
        BY <2>2
      <4> QED
        BY <2>1, <4>1, <4>2, <4>3, <4>4
    <3>4. \A s \in Worked', u \in Chained' : new[u] < new[s] => TaskEnded(u)'
      <4>1. ASSUME NEW s \in Worked, NEW u \in Chained, new[u] < new[s] PROVE TaskEnded(u)'
        BY <1>1, <2>2, <2>4, <2>5, <4>1 DEF InOrder
      <4>2. ASSUME NEW s \in Worked PROVE ~ (new[t] < new[s])
        BY <2>2, <2>3, <2>5
      <4> QED
        BY <2>1, <4>1, <4>2
    <3>5. last' # None /\ last' \in Chained'
      BY <1>0, <2>1
    <3> QED
      BY <2>1, <3>1, <3>2, <3>3, <3>4, <3>5 DEF InOrder
  <2> QED
    BY <2>2, <2>6 DEF ChainInv
<1>4. ASSUME NEW t \in Tasks, TakeLastParse(t) PROVE ChainInv'
  <2>1. /\ Chained' = Chained /\ t \in Chained \ Worked /\ Worked' = Worked \cup {t}
        /\ last' = last /\ \A u \in Tasks \ {t} : previous'[u] = previous[u]
        /\ \A u \in Tasks : TaskEnded(u) => TaskEnded(u)'
    BY <1>0, <1>4 DEF TakeLastParse, Goto, Chained, Worked, TaskEnded
  <2>2. \A u \in Chained : rank[u] < rank[t] => TaskEnded(u)
    <3>1. ASSUME NEW u \in Chained, rank[u] < rank[t] PROVE TaskEnded(u)
      <4>1. previous[t] \in Chained /\ rank[u] <= rank[previous[t]]
        BY <1>1, <2>1, <3>1 DEF InOrder
      <4>2. TaskEnded(previous[t]) /\ previous[t] \in Worked
        BY <1>0, <1>4, <4>1 DEF TakeLastParse, MayRun, TaskEnded, Chained, Worked
      <4>3. CASE rank[u] = rank[previous[t]]
        BY <1>1, <4>1, <4>2, <4>3 DEF InOrder
      <4>4. CASE rank[u] < rank[previous[t]]
        BY <1>1, <4>2, <4>4 DEF InOrder
      <4> QED
        BY <1>1, <4>1, <4>3, <4>4 DEF Chained
    <3> QED
      BY <3>1
  <2>3. \A s \in Worked', u \in Chained' : rank[u] < rank[s] => TaskEnded(u)'
    <3>1. Chained \subseteq Tasks
      BY DEF Chained
    <3>2. \A s \in Worked, u \in Chained : rank[u] < rank[s] => TaskEnded(u)
      BY <1>1 DEF InOrder
    <3> QED
      BY <2>1, <2>2, <3>1, <3>2
  <2>4. InOrder(rank)'
    <3>1. Chained \subseteq Tasks
      BY DEF Chained
    <3> HIDE DEF Chained, Worked, TaskEnded
    <3> QED
      BY <1>1, <2>1, <2>3, <3>1 DEF InOrder
  <2> QED
    BY <1>1, <2>4 DEF ChainInv
<1>5. ASSUME NEW t \in Tasks,
             Edit(t) \/ WriteBack(t) \/ Create(t) \/ ResetEvent(t) \/ TakeNumber(t)
      PROVE  ChainInv'
  <2>1. PICK place \in {"clearing", "edited", "created", "reset", "unstarted"} :
          Goto(t, place) /\ UNCHANGED <<last, previous>>
    BY <1>5 DEF Edit, WriteBack, Create, ResetEvent, TakeNumber
  <2>2. pc[t] \in {"idle", "clearing", "edited", "created", "reset"}
    BY <1>5 DEF Edit, WriteBack, Create, ResetEvent, TakeNumber
  <2>3. Chained' = Chained /\ Worked' = Worked /\ \A u \in Tasks : TaskEnded(u) => TaskEnded(u)'
    BY <1>0, <2>1, <2>2 DEF Goto, Chained, Worked, TaskEnded
  <2> QED
    BY <1>2, <2>1, <2>3
<1>6. ASSUME NEW t \in Tasks, Parse(t) \/ Complete(t) \/ Dispose(t) PROVE ChainInv'
  <2>1. PICK place \in {"parsed", "failed", "completed", "done"} :
          /\ Goto(t, place) /\ UNCHANGED <<last, previous>>
          /\ TaskEnded(t) => place = "done"
    BY <1>6 DEF Parse, Complete, Dispose, TaskEnded
  <2>2. pc[t] \in {"started", "parsed", "completed", "failed"}
    BY <1>6 DEF Parse, Complete, Dispose
  <2>3. Chained' = Chained /\ Worked' = Worked /\ \A u \in Tasks : TaskEnded(u) => TaskEnded(u)'
    BY <1>0, <2>1, <2>2 DEF Goto, Chained, Worked, TaskEnded
  <2> QED
    BY <1>2, <2>1, <2>3
<1>7. ASSUME UNCHANGED <<pc, last, previous>> PROVE ChainInv'
  BY <1>2, <1>7 DEF Chained, Worked, TaskEnded
<1>8. ASSUME NEW r \in Readers, BeginWait(r) \/ ReaderStep(r) PROVE ChainInv'
  BY <1>7, <1>8 DEF BeginWait, ReaderStep, PassEvent, GetCurrentParse
<1>9. CASE UNCHANGED vars
  BY <1>7, <1>9 DEF vars
<1> QED
  BY <1>3, <1>4, <1>5, <1>6, <1>8, <1>9 DEF Next, TaskStep

\* The ranges and the order of the chain hold in every state.
LEMMA Invariance == Spec => [](TypeInv /\ ChainInv)
<1>1. Init => TypeInv /\ ChainInv
  <2> SUFFICES ASSUME Init PROVE TypeInv /\ ChainInv
    OBVIOUS
  <2> USE PipelineAssumption DEF Init
  <2>1. Counted = {} /\ Cardinality(Counted) = 0 /\ Cardinality(Tasks) \in Nat
    BY FS_EmptySet, FS_CardinalityType DEF Counted
  <2>2. /\ pc \in [Tasks -> TaskStates]
        /\ reader \in [Readers -> {"idle", "waiting", "passed"}]
    BY DEF TaskStates
  <2>3. version \in -1 .. MaxVersion /\ number \in [Tasks -> 0 .. expected]
    OBVIOUS
  <2>4. TypeInv
    <3>1. /\ tree \in Nat \cup {None} /\ cookie \in Parses \cup {None}
          /\ last \in Tasks \cup {None} /\ previous \in [Tasks -> Tasks \cup {None}]
          /\ basis \in [Tasks -> Parses \cup {None}] /\ parse \in [Tasks -> Parses \cup {None}]
          /\ kept \in [tree : Nat \cup {None}, by : Nat, version : -1 .. MaxVersion]
      BY DEF NoTree
    <3>2. /\ count \in 0 .. Cardinality(Tasks) /\ count = Cardinality(Counted)
          /\ \A t \in Tasks : pc[t] # "parsed"
      BY <2>1
    <3>3. TypeOK
      BY <2>2, <2>3, <3>1, <3>2 DEF TypeOK
    <3> QED
      BY <3>2, <3>3 DEF TypeInv
  <2>5. Chained = {} /\ Worked = {}
    BY DEF Chained, Worked
  <2>6. InOrder([t \in Tasks |-> 0])
    BY <2>5 DEF InOrder
  <2> QED
    BY <2>4, <2>6 DEF ChainInv
<1>2. TypeInv /\ ChainInv /\ [Next]_vars => (TypeInv /\ ChainInv)'
  BY TypeKept, ChainKept DEF TypeInv
<1> QED
  BY <1>1, <1>2, PTL DEF Spec

\* Every variable stays in its range: no task has a number still to come, and
\* _parsingInProgress is never negative.
THEOREM TypeCorrect == Spec => []TypeOK
  BY Invariance, PTL DEF TypeInv

\* However many Enqueue calls interleave, the chain through _previous lets no two parses
\* of a document run at once.
THEOREM ParsesApart == Spec => []ParsesDoNotOverlap
<1>1. TypeInv /\ ChainInv => ParsesDoNotOverlap
  <2> SUFFICES ASSUME ChainInv, NEW t \in Running, NEW u \in Running PROVE t = u
    BY DEF ParsesDoNotOverlap
  <2>1. PICK rank \in [Tasks -> Nat] : InOrder(rank)
    BY DEF ChainInv
  <2>2. t \in Worked /\ u \in Worked /\ t \in Chained /\ u \in Chained
        /\ ~ TaskEnded(t) /\ ~ TaskEnded(u)
    BY DEF Running, Worked, Chained, TaskEnded
  <2>3. rank[t] \in Nat /\ rank[u] \in Nat
    BY DEF Running
  <2> QED
    BY <2>1, <2>2, <2>3 DEF InOrder
<1> QED
  BY <1>1, Invariance, PTL

-----------------------------------------------------------------------------

\* Numbers are given once, the newest is expected, a task has no parse before it has
\* parsed, and no task covers a text still to come.
Numbering ==
  /\ \A t, u \in Tasks : number[t] = number[u] /\ number[t] > 0 => t = u
  /\ expected > 0 => \E t \in Tasks : number[t] = expected
  /\ \A t \in Tasks : parse[t] # None => pc[t] \in {"parsed", "completed", "done"}
  /\ \A t \in Tasks : covers[t] <= text

\* A parse that may be used again is not of a version to come, and one of the
\* document's version is one of its text.
Fresh(p) == p.version <= version /\ (p.version = version => p.tree = text)

\* An edit that has made the version less and has the cookie still to clear.
Lowering == version <= kept.version /\ \E u \in Editors : pc[u] = "clearing"

\* This is so of the cookie and of every parse in use, but for such an edit, until the
\* version goes down while a parse is running.
Freshness ==
  (~ overtaken /\ ~ Lowering) =>
    /\ cookie # None => Fresh(cookie)
    /\ \A t \in Tasks : pc[t] = "started" /\ basis[t] # None => Fresh(basis[t])
    /\ \A t \in Tasks : pc[t] = "parsed" => Fresh(parse[t])

\* The parse that is expected is a parse of the text, and once it is complete the tree
\* is its tree; but for an edit whose task will take a greater number.
Newest ==
  \A t \in Tasks :
    (parse[t] # None /\ number[t] > 0 /\ number[t] = expected /\ ~ EditPending) =>
      /\ ~ overtaken => parse[t].tree = text
      /\ pc[t] \in {"completed", "done"} => treeBy = number[t] /\ tree = parse[t].tree

\* Only TakeNumber gives a number, the next one; and only Parse gives a parse.
LEMMA NumberingKept ==
  ASSUME TypeOK, Numbering, [Next]_vars
  PROVE  Numbering'
<1> USE DEF docVars, entryVars, taskVars, readerVars, Goto
<1>0. /\ TypeOK /\ None \notin Tasks
      /\ pc \in [Tasks -> TaskStates] /\ number \in [Tasks -> 0 .. expected]
  BY PipelineAssumption DEF TypeOK
<1>1. ASSUME NEW t \in Tasks, Edit(t) PROVE Numbering'
  <2>1. \A u \in Tasks : pc'[u] = pc[u] \/ (u = t /\ parse[u] = None)
    <3>1. pc[t] = "idle" /\ \A u \in Tasks \ {t} : pc'[u] = pc[u]
      BY <1>0, <1>1 DEF Edit
    <3> QED
      BY <3>1 DEF Numbering
  <2>2. \A u \in Tasks : covers[u] <= text'
    BY <1>0, <1>1 DEF Edit, TypeOK, Numbering
  <2> QED
    BY <1>1, <2>1, <2>2 DEF Edit, Numbering
<1>9. ASSUME NEW t \in Tasks, WriteBack(t) PROVE Numbering'
  <2>1. \A u \in Tasks : pc'[u] = pc[u] \/ (u = t /\ parse[u] = None)
    <3>1. pc[t] = "clearing" /\ \A u \in Tasks \ {t} : pc'[u] = pc[u]
      BY <1>0, <1>9 DEF WriteBack
    <3> QED
      BY <3>1 DEF Numbering
  <2> QED
    BY <1>9, <2>1 DEF WriteBack, Numbering
<1>2. ASSUME NEW t \in Tasks, Create(t) PROVE Numbering'
  <2>1. \A u \in Tasks : pc'[u] = pc[u] \/ (u = t /\ parse[u] = None)
    <3>1. pc[t] \in {"idle", "edited"} /\ \A u \in Tasks \ {t} : pc'[u] = pc[u]
      BY <1>0, <1>2 DEF Create
    <3> QED
      BY <3>1 DEF Numbering
  <2>2. \A u \in Tasks : covers'[u] <= text
    BY <1>0, <1>2 DEF Create, TypeOK, Numbering
  <2> QED
    BY <1>2, <2>1, <2>2 DEF Create, Numbering
<1>3. ASSUME NEW t \in Tasks, TakeNumber(t) PROVE Numbering'
  <2>1. /\ \A u \in Tasks : pc'[u] = pc[u] \/ (u = t /\ parse[u] = None)
        /\ \A u \in Tasks : number'[u] = IF u = t THEN expected + 1 ELSE number[u]
        /\ expected' = expected + 1
    <3>1. pc[t] = "reset" /\ \A u \in Tasks \ {t} : pc'[u] = pc[u]
      BY <1>0, <1>3 DEF TakeNumber
    <3> QED
      BY <1>0, <1>3, <3>1 DEF TakeNumber, Numbering
  <2>2. expected \in Nat /\ \A u \in Tasks : number[u] \in Nat /\ number[u] <= expected
    BY <1>0 DEF TypeOK
  <2> QED
    BY <1>3, <2>1, <2>2 DEF TakeNumber, Numbering
<1>4. ASSUME NEW t \in Tasks, ResetEvent(t) \/ Start(t) \/ TakeLastParse(t) PROVE Numbering'
  BY <1>0, <1>4 DEF ResetEvent, Start, TakeLastParse, TypeOK, Numbering
<1>5. ASSUME NEW t \in Tasks, Parse(t) PROVE Numbering'
  BY <1>0, <1>5 DEF Parse, TypeOK, Numbering
<1>6. ASSUME NEW t \in Tasks, Complete(t) PROVE Numbering'
  BY <1>0, <1>6 DEF Complete, TypeOK, Numbering
<1>10. ASSUME NEW t \in Tasks, Dispose(t) PROVE Numbering'
  <2>1. \A u \in Tasks : covers'[u] <= text
    BY <1>0, <1>10 DEF Dispose, TypeOK, Numbering
  <2>2. \A u \in Tasks : parse'[u] # None => pc'[u] \in {"parsed", "completed", "done"}
    BY <1>0, <1>10 DEF Dispose, TypeOK, Numbering
  <2> QED
    BY <1>10, <2>1, <2>2 DEF Dispose, Numbering
<1>7. ASSUME NEW r \in Readers, BeginWait(r) \/ ReaderStep(r) PROVE Numbering'
  BY <1>0, <1>7 DEF BeginWait, ReaderStep, PassEvent, GetCurrentParse, Numbering
<1>8. CASE UNCHANGED vars
  BY <1>0, <1>8 DEF vars, Numbering
<1> QED
  BY <1>1, <1>2, <1>3, <1>4, <1>5, <1>6, <1>7, <1>8, <1>9, <1>10 DEF Next, TaskStep

\* An edit that does not raise the version clears the cookie, and one that raises it
\* makes all parses older.
LEMMA FreshnessKept ==
  ASSUME TypeInv, Freshness, [Next]_vars
  PROVE  Freshness'
<1> USE DEF docVars, entryVars, taskVars, readerVars, Goto
<1>0. /\ TypeOK /\ None \notin Parses
      /\ \A t \in Tasks : basis[t] \in Parses \cup {None}
      /\ \A t \in Tasks : pc[t] = "parsed" => parse[t] \in Parses
  BY PipelineAssumption DEF Parses, TypeInv, TypeOK
<1>1. ASSUME NEW t \in Tasks, Edit(t) PROVE Freshness'
  <2> SUFFICES ASSUME ~ overtaken', ~ Lowering' PROVE Freshness'
    BY DEF Freshness
  <2>1. PICK kind \in EditKinds, v \in -1 .. MaxVersion :
          /\ version' = v
          /\ \/ /\ ClearsCookie(kind, v)
                /\ kept' = [tree |-> tree, by |-> treeBy, version |-> version]
                /\ Goto(t, "clearing")
             \/ ~ ClearsCookie(kind, v)
    BY <1>1 DEF Edit
  <2>2. /\ \A u \in Tasks : pc'[u] \in {"started", "parsed"} => pc'[u] = pc[u]
        /\ UNCHANGED <<basis, parse, cookie, overtaken>>
        /\ t \in Editors
    BY <1>0, <1>1 DEF Edit, TypeOK
  <2>3. ~ Lowering
    BY <1>1 DEF Edit, Lowering
  <2>4. v > version
    <3>1. SUFFICES ASSUME v <= version PROVE FALSE
      BY <1>0 DEF TypeOK
    <3>2. version' <= kept'.version /\ pc'[t] = "clearing"
      BY <1>0, <2>1, <3>1 DEF ClearsCookie, TypeOK
    <3> QED
      BY <2>2, <3>2 DEF Lowering
  <2>5. ASSUME NEW p \in Parses, Fresh(p) PROVE Fresh(p)'
    BY <1>0, <2>1, <2>4, <2>5 DEF Fresh, TypeOK, Parses
  <2>6. cookie \in Parses \cup {None}
    BY <1>0 DEF TypeOK
  <2> QED
    BY <1>0, <2>2, <2>3, <2>5, <2>6 DEF Freshness
<1>8. ASSUME NEW t \in Tasks, WriteBack(t) PROVE Freshness'
  <2> SUFFICES ASSUME ~ overtaken' PROVE Freshness'
    BY DEF Freshness
  <2>1. /\ \A u \in Tasks : pc'[u] \in {"started", "parsed"} => pc'[u] = pc[u]
        /\ UNCHANGED <<docVars, basis, parse>>
        /\ cookie' = None
        /\ ~ overtaken /\ ~ (version <= kept.version /\ Running # {})
    BY <1>0, <1>8 DEF WriteBack, TypeOK
  <2>2. CASE version <= kept.version
    <3>1. \A u \in Tasks : pc'[u] \notin {"started", "parsed"}
      BY <2>1, <2>2 DEF Running
    <3> QED
      BY <2>1, <3>1 DEF Freshness
  <2>3. CASE ~ version <= kept.version
    BY <1>0, <2>1, <2>3 DEF Freshness, Fresh, Lowering
  <2> QED
    BY <2>2, <2>3
<1>2. ASSUME NEW t \in Tasks, TakeLastParse(t) PROVE Freshness'
  <2>1. /\ \A u \in Tasks \ {t} : pc'[u] = pc[u] /\ basis'[u] = basis[u]
        /\ pc'[t] = "started" /\ basis'[t] = cookie
        /\ Lowering' => Lowering
        /\ Lowering => Lowering'
    BY <1>0, <1>2 DEF TakeLastParse, TypeOK, Lowering
  <2> QED
    BY <1>2, <2>1 DEF TakeLastParse, Freshness, Fresh
<1>3. ASSUME NEW t \in Tasks, Parse(t) PROVE Freshness'
  <2>1. /\ \A u \in Tasks \ {t} : pc'[u] = pc[u] /\ parse'[u] = parse[u] /\ basis'[u] = basis[u]
        /\ pc[t] = "started" /\ pc'[t] # "started"
        /\ pc'[t] = "parsed" =>
             parse'[t] = IF MayReuse(t) THEN basis[t] ELSE [version |-> version, tree |-> text]
    BY <1>0, <1>3 DEF Parse, TypeOK
  <2>3. ~ Lowering
    BY <1>3 DEF Parse, Lowering
  <2>2. ASSUME ~ overtaken, pc'[t] = "parsed" PROVE Fresh(parse'[t])
    <3>1. CASE MayReuse(t)
      BY <2>1, <2>2, <2>3, <3>1 DEF Freshness, MayReuse
    <3>2. CASE ~ MayReuse(t)
      BY <1>0, <2>1, <2>2, <3>2 DEF Fresh, TypeOK
    <3> QED
      BY <3>1, <3>2
  <2> QED
    BY <1>3, <2>1, <2>2, <2>3 DEF Parse, Freshness, Fresh
<1>4. ASSUME NEW t \in Tasks, Complete(t) PROVE Freshness'
  <2>1. /\ \A u \in Tasks \ {t} : pc'[u] = pc[u]
        /\ pc[t] = "parsed" /\ pc'[t] = "completed" /\ cookie' \in {cookie, parse[t]}
        /\ Lowering => Lowering'
    BY <1>0, <1>4 DEF Complete, TypeOK, Lowering
  <2> QED
    BY <1>4, <2>1 DEF Complete, Freshness, Fresh
<1>5. ASSUME NEW t \in Tasks,
             Create(t) \/ ResetEvent(t) \/ TakeNumber(t) \/ Start(t) \/ Dispose(t)
      PROVE  Freshness'
  <2>1. /\ \A u \in Tasks \ {t} : pc'[u] = pc[u]
        /\ pc'[t] \notin {"started", "parsed"}
        /\ UNCHANGED <<docVars, cookie, basis, parse, overtaken>>
        /\ kept' = kept /\ pc[t] # "clearing"
    BY <1>0, <1>5 DEF Create, ResetEvent, TakeNumber, Start, Dispose, TypeOK
  <2>2. Lowering => Lowering'
    BY <2>1, PipelineAssumption DEF Lowering
  <2> QED
    BY <2>1, <2>2 DEF Freshness, Fresh
<1>6. ASSUME NEW r \in Readers, BeginWait(r) \/ ReaderStep(r) PROVE Freshness'
  BY <1>0, <1>6 DEF BeginWait, ReaderStep, PassEvent, GetCurrentParse, Freshness, Fresh, Lowering
<1>7. CASE UNCHANGED vars
  BY <1>0, <1>7 DEF vars, Freshness, Fresh, Lowering
<1> QED
  BY <1>1, <1>2, <1>3, <1>4, <1>5, <1>6, <1>7, <1>8 DEF Next, TaskStep

\* A parse that ParseWorker returns again is a parse of the text.
LEMMA ReusedIsText ==
  ASSUME TypeOK, NEW t \in Tasks, Fresh(basis[t]), MayReuse(t)
  PROVE  basis[t].tree = text
<1>1. basis[t] \in Parses /\ version \in Int
  BY DEF TypeOK, MayReuse
<1>2. basis[t].version \in Int
  BY <1>1 DEF Parses
<1> QED
  BY <1>1, <1>2 DEF Fresh, MayReuse

\* A parse of the newest task reads the text as it is; whoever edits it then makes
\* a task that takes the next number.
LEMMA NewestKept ==
  ASSUME TypeInv, Numbering, Freshness, Newest, [Next]_vars
  PROVE  Newest'
<1> USE DEF docVars, entryVars, taskVars, readerVars, Goto
<1>0. /\ TypeOK /\ Editors \subseteq Tasks
      /\ \A t \in Tasks : pc[t] = "parsed" => parse[t] # None
  BY PipelineAssumption DEF TypeInv
<1>1. ASSUME NEW t \in Tasks, Edit(t) \/ WriteBack(t) PROVE Newest'
  <2>1. /\ pc'[t] \in {"clearing", "edited"} /\ t \in Editors
    BY <1>0, <1>1 DEF Edit, WriteBack, TypeOK
  <2> QED
    BY <2>1 DEF EditPending, Newest
<1>2. ASSUME NEW t \in Tasks, Create(t) \/ ResetEvent(t) PROVE Newest'
  <2>1. /\ \A u \in Tasks \ {t} : pc'[u] = pc[u]
        /\ pc'[t] \in {"created", "reset"}
        /\ t \in Editors => pc[t] \in {"edited", "created"}
        /\ UNCHANGED <<text, tree, treeBy, expected, number, parse, overtaken>>
    BY <1>0, <1>2 DEF Create, ResetEvent, TypeOK
  <2>2. EditPending => EditPending'
    BY <1>0, <2>1 DEF EditPending
  <2> QED
    BY <2>1, <2>2 DEF Newest
<1>3. ASSUME NEW t \in Tasks, TakeNumber(t) PROVE Newest'
  <2>1. \A u \in Tasks : number'[u] = expected' => u = t
    BY <1>0, <1>3 DEF TakeNumber, TypeOK
  <2>2. parse'[t] = None
    BY <1>3 DEF TakeNumber, Numbering
  <2> QED
    BY <2>1, <2>2 DEF Newest
<1>4. ASSUME NEW t \in Tasks, Start(t) \/ TakeLastParse(t) \/ Dispose(t) PROVE Newest'
  <2>1. /\ \A u \in Tasks \ {t} : pc'[u] = pc[u]
        /\ pc'[t] \in {"queued", "started", "done"}
        /\ pc'[t] = "done" /\ parse[t] # None => pc[t] = "completed"
        /\ pc[t] \notin {"clearing", "edited", "created", "reset"}
        /\ UNCHANGED <<text, tree, treeBy, expected, number, parse, overtaken>>
    BY <1>0, <1>4 DEF Start, TakeLastParse, Dispose, TypeOK, Numbering
  <2>2. EditPending => EditPending'
    BY <1>0, <2>1 DEF EditPending
  <2> QED
    BY <2>1, <2>2 DEF Newest
<1>5. ASSUME NEW t \in Tasks, Parse(t) PROVE Newest'
  <2>1. /\ \A u \in Tasks \ {t} : pc'[u] = pc[u] /\ parse'[u] = parse[u]
        /\ pc[t] = "started" /\ pc'[t] \in {"parsed", "failed"}
        /\ UNCHANGED <<text, tree, treeBy, expected, number, overtaken>>
        /\ parse'[t] # None =>
             parse'[t] = IF MayReuse(t) THEN basis[t] ELSE [version |-> version, tree |-> text]
    BY <1>0, <1>5 DEF Parse, TypeOK, Numbering
  <2>2. EditPending => EditPending'
    BY <1>0, <2>1 DEF EditPending
  <2>3. ~ overtaken /\ parse'[t] # None => parse'[t].tree = text
    <3> SUFFICES ASSUME ~ overtaken, parse'[t] # None, MayReuse(t) PROVE basis[t].tree = text
      BY <2>1
    <3>1. Fresh(basis[t])
      BY <1>5, <2>1 DEF Freshness, Lowering, MayReuse, Parse
    <3> QED
      BY <1>0, <3>1, ReusedIsText
  <2> QED
    BY <2>1, <2>2, <2>3 DEF Newest
<1>6. ASSUME NEW t \in Tasks, Complete(t) PROVE Newest'
  <2>1. /\ \A u \in Tasks \ {t} : pc'[u] = pc[u]
        /\ pc[t] = "parsed" /\ pc'[t] = "completed"
        /\ UNCHANGED <<text, expected, number, parse, overtaken>>
        /\ IF number[t] = expected THEN tree' = parse[t].tree /\ treeBy' = number[t]
           ELSE UNCHANGED <<tree, treeBy>>
    BY <1>0, <1>6 DEF Complete, IsExpected, TypeOK
  <2>2. EditPending => EditPending'
    BY <1>0, <2>1 DEF EditPending
  <2>3. \A u \in Tasks : number[u] > 0 /\ number[u] = expected /\ number[t] = expected => u = t
    BY DEF Numbering
  <2> QED
    BY <2>1, <2>2, <2>3 DEF Newest
<1>7. ASSUME NEW r \in Readers, BeginWait(r) \/ ReaderStep(r) PROVE Newest'
  BY <1>0, <1>7 DEF BeginWait, ReaderStep, PassEvent, GetCurrentParse, Newest, EditPending
<1>8. CASE UNCHANGED vars
  BY <1>0, <1>8 DEF vars, Newest, EditPending
<1> QED
  BY <1>1, <1>2, <1>3, <1>4, <1>5, <1>6, <1>7, <1>8 DEF Next, TaskStep

\* The inductive invariant behind the two theorems.
ParseInv == TypeInv /\ Numbering /\ Freshness /\ Newest

\* All of it together.
LEMMA ParseInvHolds == Spec => []ParseInv
<1>1. Init => Numbering /\ Freshness /\ Newest
  BY DEF Init, Numbering, Freshness, Newest
<1>2. ParseInv /\ [Next]_vars => (Numbering /\ Freshness /\ Newest)'
  BY NumberingKept, FreshnessKept, NewestKept DEF ParseInv, TypeInv
<1> QED
  BY <1>1, <1>2, Invariance, PTL DEF Spec, ParseInv

\* The result of a task covers the edit that the task was made for, also when it is
\* an earlier parse that ParseWorker found to be new enough.
THEOREM Covered == Spec => []EditIsCovered
<1>1. Init => EditIsCovered
  BY DEF Init, EditIsCovered
<1>2. ParseInv /\ EditIsCovered /\ [Next]_vars => EditIsCovered'
  <2> SUFFICES ASSUME ParseInv, EditIsCovered, [Next]_vars PROVE EditIsCovered'
    OBVIOUS
  <2> USE DEF docVars, entryVars, taskVars, readerVars, Goto
  <2>0. TypeOK /\ Numbering /\ Freshness
    BY DEF ParseInv, TypeInv
  <2>1. ASSUME NEW t \in Tasks, Parse(t) PROVE EditIsCovered'
    <3>1. /\ \A u \in Tasks \ {t} : parse'[u] = parse[u]
          /\ pc[t] = "started" /\ UNCHANGED <<covers, overtaken>>
          /\ parse'[t] # None =>
               parse'[t] = IF MayReuse(t) THEN basis[t] ELSE [version |-> version, tree |-> text]
      BY <2>0, <2>1 DEF Parse, TypeOK, Numbering
    <3>2. ~ overtaken /\ parse'[t] # None => parse'[t].tree = text
      <4> SUFFICES ASSUME ~ overtaken, parse'[t] # None, MayReuse(t) PROVE basis[t].tree = text
        BY <3>1
      <4>1. Fresh(basis[t])
        BY <2>1, <3>1 DEF ParseInv, Freshness, Lowering, MayReuse, Parse
      <4> QED
        BY <2>0, <4>1, ReusedIsText
    <3>3. covers[t] <= text /\ covers[t] \in Nat /\ text \in Nat
      BY <2>0 DEF Numbering, TypeOK
    <3> QED
      BY <3>1, <3>2, <3>3 DEF EditIsCovered
  <2>2. ASSUME NEW t \in Tasks, Create(t) PROVE EditIsCovered'
    <3>1. parse[t] = None /\ \A u \in Tasks \ {t} : covers'[u] = covers[u]
      BY <2>0, <2>2 DEF Create, Numbering, TypeOK
    <3> QED
      BY <2>2, <3>1 DEF Create, EditIsCovered
  <2>6. ASSUME NEW t \in Tasks, Dispose(t) PROVE EditIsCovered'
    <3>1. /\ UNCHANGED <<parse, overtaken>>
          /\ \A u \in Tasks : covers'[u] = IF u = t THEN 0 ELSE covers[u]
      BY <2>0, <2>6 DEF Dispose, TypeOK
    <3>2. parse[t] # None => parse[t].tree \in Nat
      BY <2>0 DEF TypeOK, Parses
    <3> QED
      BY <3>1, <3>2 DEF EditIsCovered
  <2>3. ASSUME NEW t \in Tasks, Edit(t) \/ WriteBack(t) \/ ResetEvent(t) \/ TakeNumber(t)
                  \/ Start(t) \/ TakeLastParse(t) \/ Complete(t)
        PROVE  EditIsCovered'
    <3>1. UNCHANGED <<parse, covers>>
      BY <2>3 DEF Edit, WriteBack, ResetEvent, TakeNumber, Start, TakeLastParse, Complete
    <3>2. overtaken => overtaken'
      <4>1. CASE WriteBack(t)
        BY <4>1 DEF WriteBack
      <4>2. CASE ~ WriteBack(t)
        BY <2>3, <4>2 DEF Edit, ResetEvent, TakeNumber, Start, TakeLastParse, Complete
      <4> QED
        BY <4>1, <4>2
    <3> QED
      BY <3>1, <3>2 DEF EditIsCovered
  <2>4. ASSUME NEW r \in Readers, BeginWait(r) \/ ReaderStep(r) PROVE EditIsCovered'
    BY <2>4 DEF BeginWait, ReaderStep, PassEvent, GetCurrentParse, EditIsCovered
  <2>5. CASE UNCHANGED vars
    BY <2>5 DEF vars, EditIsCovered
  <2> QED
    BY <2>1, <2>2, <2>3, <2>4, <2>5, <2>6 DEF Next, TaskStep
<1> QED
  BY <1>1, <1>2, ParseInvHolds, PTL DEF Spec

\* The newest parse is the expected one.
LEMMA NewestIsExpected ==
  ASSUME ParseInv, NEW t \in Tasks, IsNewest(t)
  PROVE  number[t] > 0 /\ number[t] = expected
<1>1. expected \in Nat /\ \A u \in Tasks : number[u] \in Nat /\ number[u] <= expected
  BY DEF ParseInv, TypeInv, TypeOK
<1>2. expected > 0
  BY <1>1 DEF IsNewest
<1>3. PICK u \in Tasks : number[u] = expected
  BY <1>2 DEF ParseInv, Numbering
<1> QED
  BY <1>1, <1>3 DEF IsNewest

\* Once the newest parse has completed, neither an older parse nor a tree that an edit
\* has read and writes back replaces its tree: BeginParse gives growing numbers, Complete
\* takes only the parse that has the greatest, and an edit makes a parse of its own
\* after it has written.
THEOREM NewestStays == Spec => []NewestParseStays
<1>1. ParseInv => NewestParseStays
  BY NewestIsExpected DEF ParseInv, Newest, NewestParseStays
<1> QED
  BY <1>1, ParseInvHolds, PTL

\* When all tasks have ended the tree is the tree of the document, whatever edits were
\* made and in whatever order their tasks took their numbers.
THEOREM CookieSuffices == Spec => []ClearedCookieSuffices
<1>1. ParseInv => ClearedCookieSuffices
  <2> SUFFICES ASSUME ParseInv, Settled, ~ overtaken PROVE tree = text
    BY DEF ClearedCookieSuffices
  <2>1. PICK t \in Tasks : IsNewest(t) /\ parse[t] # None
    BY DEF Settled
  <2>2. number[t] > 0 /\ number[t] = expected
    BY <2>1, NewestIsExpected
  <2>3. pc[t] \in {"completed", "done"} /\ ~ EditPending
    BY <2>1, PipelineAssumption DEF ParseInv, Numbering, Settled, EditPending
  <2> QED
    BY <2>1, <2>2, <2>3 DEF ParseInv, Newest
<1> QED
  BY <1>1, ParseInvHolds, PTL
=============================================================================
