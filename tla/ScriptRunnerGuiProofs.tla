------------------------- MODULE ScriptRunnerGuiProofs -------------------------
(***************************************************************************)
(* Proofs about ScriptRunnerGui: one run at a time goes through the steps  *)
(* between its start and onComplete, and the XML that is exported is that  *)
(* of a run whose verdicts are final.  Then type correctness, the order of *)
(* the leaves, the colours of nodes that were created, and that no result  *)
(* of the run in the tree is left out of it.                               *)
(***************************************************************************)
EXTENDS ScriptRunnerGui, TLAPS

\* The types the proof needs.
Typed ==
  /\ run \in 0..MaxRuns
  /\ resultXml \in 0..run
  /\ exported \in 0..run
  /\ scriptIsRunning \in BOOLEAN
  /\ threadPc \in [Runs -> ThreadStates]
  /\ state \in [Results -> States]
  /\ runOf \in [Results -> 0..run]

\* Threads are started in turn, and a result belongs to the run that added it.
StartedInTurn ==
  /\ \A n \in Runs : n > run => threadPc[n] = "unborn"
  /\ \A r \in Results : runOf[r] = NoRun <=> state[r] = "UNMADE"

\* Only a run that is over has its XML in the GUI, or in a file.
XmlOfDone ==
  /\ resultXml # NoRun => threadPc[resultXml] = "done"
  /\ exported # NoRun => threadPc[exported] = "done"

\* A run that came to its end has all its verdicts.
Over == {"completing", "returning", "done"}
EndedIsDecided == \A n \in Runs : threadPc[n] \in Over => Decided(n)

\* What lies between the start of a run and its onComplete.
Busy == {"clearing", "initing", "compiling", "running", "completing"}
OneIsBusy ==
  /\ \A n \in Runs : threadPc[n] \in Busy => scriptIsRunning
  /\ \A n, o \in Runs : threadPc[n] \in Busy /\ threadPc[o] \in Busy => n = o

IInv == Typed /\ StartedInTurn /\ XmlOfDone /\ EndedIsDecided /\ OneIsBusy

--------------------------------------------------------------------------------
LEMMA InitIInv == Init => IInv
<1> SUFFICES ASSUME Init PROVE IInv
  OBVIOUS
<1>1. /\ run = 0 /\ resultXml = 0 /\ exported = 0 /\ scriptIsRunning = FALSE
      /\ \A n \in Runs : threadPc[n] = "unborn"
      /\ \A r \in Results : state[r] = "UNMADE" /\ runOf[r] = 0
  BY DEF Init, NoRun
<1>2. Typed
  <2>1. run \in 0..MaxRuns /\ resultXml \in 0..run /\ exported \in 0..run
    BY <1>1, GuiAssumption
  <2>2. threadPc \in [Runs -> ThreadStates] /\ state \in [Results -> States]
    BY DEF Init, ThreadStates, States
  <2>3. runOf \in [Results -> {0}] /\ 0..run = {0}
    BY <1>1 DEF Init, NoRun
  <2> QED BY <1>1, <2>1, <2>2, <2>3 DEF Typed
<1> QED BY <1>1, <1>2 DEF IInv, StartedInTurn, XmlOfDone, EndedIsDecided, OneIsBusy, Over, Busy, NoRun

\* The threads, their results and their XML stay as they are.
guiVars == <<run, resultXml, exported, scriptIsRunning, threadPc, state, runOf>>

LEMMA SameIInv == IInv /\ UNCHANGED guiVars => IInv'
BY DEF IInv, guiVars, Typed, StartedInTurn, XmlOfDone, EndedIsDecided, OneIsBusy, Decided

LEMMA EdtIInv == ASSUME IInv, Edt PROVE IInv'
<1>1. CASE Refuse \/ OpenScript \/ CreateNode \/ ShowNode \/ UpdateNode
  BY <1>1, SameIInv DEF guiVars, Refuse, OpenScript, CreateNode, ShowNode, UpdateNode, fileVars, runVars,
     resultVars
<1>2. CASE RunScriptThrows
  <2>1. /\ scriptIsRunning' = TRUE /\ resultXml' = NoRun
        /\ UNCHANGED <<run, exported, threadPc, state, runOf>>
    BY <1>2 DEF RunScriptThrows, fileVars, runVars, resultVars
  <2> QED BY <2>1 DEF IInv, Typed, StartedInTurn, XmlOfDone, EndedIsDecided, OneIsBusy, Decided, NoRun
<1>3. CASE RunScript
  <2>1. /\ ~scriptIsRunning /\ scriptIsRunning' = TRUE /\ resultXml' = NoRun
        /\ run < MaxRuns /\ run' = run + 1
        /\ threadPc' = [threadPc EXCEPT ![run + 1] = "clearing"]
        /\ UNCHANGED <<exported, state, runOf>>
    BY <1>3 DEF RunScript, fileVars, resultVars
  <2>2. run + 1 \in Runs /\ threadPc[run + 1] = "unborn" /\ run \in Nat
    BY <2>1, GuiAssumption DEF IInv, Typed, StartedInTurn, Runs
  <2>3. Typed'
    BY <2>1, <2>2, GuiAssumption DEF IInv, Typed, NoRun, ThreadStates
  <2>4. StartedInTurn'
    BY <2>1, <2>2 DEF IInv, Typed, StartedInTurn, Runs
  <2>5. XmlOfDone'
    BY <2>1, <2>2, GuiAssumption DEF IInv, Typed, XmlOfDone, Runs, NoRun
  <2>6. EndedIsDecided'
    BY <2>1, <2>2 DEF IInv, Typed, EndedIsDecided, Decided, Over
  <2>7. OneIsBusy'
    BY <2>1, <2>2 DEF IInv, Typed, OneIsBusy, Busy
  <2> QED BY <2>3, <2>4, <2>5, <2>6, <2>7 DEF IInv
<1>4. CASE ExportScriptResultXml
  <2>1. /\ exported' \in {exported, resultXml} /\ (resultXml = NoRun => exported' = exported)
        /\ UNCHANGED <<run, resultXml, scriptIsRunning, threadPc, state, runOf>>
    BY <1>4 DEF ExportScriptResultXml, runVars, resultVars
  <2> QED BY <2>1 DEF IInv, Typed, StartedInTurn, XmlOfDone, EndedIsDecided, OneIsBusy, Decided, NoRun
<1> QED BY <1>1, <1>2, <1>3, <1>4 DEF Edt

\* A step of a thread that is neither to its end nor to "done" from elsewhere.
LEMMA BusyStepIInv ==
  ASSUME IInv, NEW n \in Runs, NEW from \in Busy, NEW to \in (Busy \ {"completing"}) \cup {"dead"},
         RunGoes(n, from, to), UNCHANGED <<run, resultXml, exported, scriptIsRunning, state, runOf>>
  PROVE  IInv'
<1>1. /\ threadPc[n] = from /\ threadPc' = [threadPc EXCEPT ![n] = to]
      /\ threadPc \in [Runs -> ThreadStates]
      /\ from \notin {"unborn", "done"} /\ to \in ThreadStates /\ to \notin Over
  BY DEF RunGoes, IInv, Typed, Busy, ThreadStates, Over
<1>2. Typed'
  BY <1>1 DEF IInv, Typed
<1>3. StartedInTurn'
  BY <1>1 DEF IInv, StartedInTurn
<1>4. XmlOfDone'
  BY <1>1, GuiAssumption DEF IInv, Typed, XmlOfDone, Runs, NoRun
<1>5. EndedIsDecided'
  BY <1>1 DEF IInv, EndedIsDecided, Decided
<1>6. OneIsBusy'
  BY <1>1 DEF IInv, OneIsBusy, Busy
<1> QED BY <1>2, <1>3, <1>4, <1>5, <1>6 DEF IInv

LEMMA ThreadIInv == ASSUME IInv, NEW n \in Runs, Thread(n) PROVE IInv'
<1>1. CASE ClearResults(n) \/ InitTree(n) \/ Compile(n) \/ ScriptDies(n)
  <2>1. UNCHANGED <<run, resultXml, exported, scriptIsRunning, state, runOf>>
    BY <1>1 DEF ClearResults, InitTree, Compile, ScriptDies, fileVars, resultVars
  <2>2. PICK from \in Busy, to \in (Busy \ {"completing"}) \cup {"dead"} : RunGoes(n, from, to)
    BY <1>1 DEF ClearResults, InitTree, Compile, ScriptDies, Busy
  <2> QED BY <2>1, <2>2, BusyStepIInv
<1>2. CASE ScriptEnds(n)
  <2>1. /\ threadPc[n] = "running" /\ threadPc' = [threadPc EXCEPT ![n] = "completing"] /\ Decided(n)
        /\ UNCHANGED <<run, resultXml, exported, scriptIsRunning, state, runOf>>
    BY <1>2 DEF ScriptEnds, RunGoes, fileVars, resultVars
  <2>2. Typed' /\ StartedInTurn'
    BY <2>1 DEF IInv, Typed, StartedInTurn, ThreadStates
  <2>3. XmlOfDone'
    BY <2>1, GuiAssumption DEF IInv, Typed, XmlOfDone, Runs, NoRun
  <2>4. EndedIsDecided'
    BY <2>1 DEF IInv, Typed, EndedIsDecided, Decided
  <2>5. OneIsBusy'
    BY <2>1 DEF IInv, Typed, OneIsBusy, Busy
  <2> QED BY <2>2, <2>3, <2>4, <2>5 DEF IInv
<1>3. CASE OnComplete(n)
  <2>1. /\ threadPc[n] = "completing" /\ threadPc' = [threadPc EXCEPT ![n] = "returning"]
        /\ scriptIsRunning' = FALSE
        /\ UNCHANGED <<run, resultXml, exported, state, runOf>>
    BY <1>3 DEF OnComplete, RunGoes, fileVars, resultVars
  <2>2. Typed' /\ StartedInTurn'
    BY <2>1 DEF IInv, Typed, StartedInTurn, ThreadStates
  <2>3. XmlOfDone'
    BY <2>1, GuiAssumption DEF IInv, Typed, XmlOfDone, Runs, NoRun
  <2>4. EndedIsDecided'
    BY <2>1 DEF IInv, Typed, EndedIsDecided, Decided, Over
  <2>5. OneIsBusy'
    BY <2>1 DEF IInv, Typed, OneIsBusy, Busy
  <2> QED BY <2>2, <2>3, <2>4, <2>5 DEF IInv
<1>4. CASE ReturnXml(n)
  <2>1. /\ threadPc[n] = "returning" /\ threadPc' = [threadPc EXCEPT ![n] = "done"]
        /\ resultXml' = n
        /\ UNCHANGED <<run, exported, scriptIsRunning, state, runOf>>
    BY <1>4 DEF ReturnXml, RunGoes, fileVars, resultVars
  <2>2. n \in 0..run /\ n # NoRun
    BY <2>1, GuiAssumption DEF IInv, Typed, StartedInTurn, Runs, NoRun
  <2>3. Typed' /\ StartedInTurn'
    BY <2>1, <2>2 DEF IInv, Typed, StartedInTurn, ThreadStates
  <2>4. XmlOfDone'
    BY <2>1, <2>2, GuiAssumption DEF IInv, Typed, XmlOfDone, Runs, NoRun
  <2>5. EndedIsDecided'
    BY <2>1 DEF IInv, Typed, EndedIsDecided, Decided, Over
  <2>6. OneIsBusy'
    BY <2>1 DEF IInv, Typed, OneIsBusy, Busy
  <2> QED BY <2>3, <2>4, <2>5, <2>6 DEF IInv
<1>5. ASSUME NEW r \in Results, AddResult(n, r) PROVE IInv'
  <2>1. /\ threadPc[n] = "running" /\ state[r] = "UNMADE"
        /\ runOf' = [runOf EXCEPT ![r] = n]
        /\ UNCHANGED <<run, resultXml, exported, scriptIsRunning, threadPc>>
    BY <1>5 DEF AddResult, fileVars, runVars
  <2>2. PICK s \in {"WAITING", "PASSED", "FAILED"} : state' = [state EXCEPT ![r] = s]
    BY <1>5 DEF AddResult, StatesWhenMade, Verdicts
  <2>3. n \in 0..run /\ n # NoRun
    BY <2>1, GuiAssumption DEF IInv, Typed, StartedInTurn, Runs, NoRun
  <2>4. Typed'
    BY <2>1, <2>2, <2>3 DEF IInv, Typed, States
  <2>5. StartedInTurn'
    BY <2>1, <2>2, <2>3 DEF IInv, Typed, StartedInTurn
  <2>6. XmlOfDone' /\ OneIsBusy'
    BY <2>1 DEF IInv, XmlOfDone, OneIsBusy
  <2>7. EndedIsDecided'
    <3> SUFFICES ASSUME NEW o \in Runs, threadPc[o] \in Over, NEW q \in Results, runOf'[q] = o
                 PROVE  state'[q] \in Verdicts
      BY <2>1 DEF EndedIsDecided, Decided
    <3>1. o # n
      BY <2>1 DEF Over
    <3>2. q # r /\ runOf[q] = o /\ state'[q] = state[q]
      BY <2>1, <2>2, <3>1 DEF IInv, Typed
    <3> QED BY <3>2 DEF IInv, EndedIsDecided, Decided
  <2> QED BY <2>4, <2>5, <2>6, <2>7 DEF IInv
<1> QED BY <1>1, <1>2, <1>3, <1>4, <1>5 DEF Thread, RunStep

LEMMA VerdictIInv == ASSUME IInv, NEW r \in Results, NEW v \in Verdicts, Verdict(r, v) PROVE IInv'
<1>1. /\ state[r] # "UNMADE" /\ threadPc[runOf[r]] \in {"running", "dead"}
      /\ state' = [state EXCEPT ![r] = v]
      /\ UNCHANGED <<run, resultXml, exported, scriptIsRunning, threadPc, runOf>>
  BY DEF Verdict, fileVars, runVars
<1>2. v \in States /\ v # "UNMADE"
  BY DEF Verdicts, States
<1>3. Typed'
  BY <1>1, <1>2 DEF IInv, Typed
<1>4. StartedInTurn'
  BY <1>1, <1>2 DEF IInv, Typed, StartedInTurn
<1>5. XmlOfDone' /\ OneIsBusy'
  BY <1>1 DEF IInv, XmlOfDone, OneIsBusy
<1>6. EndedIsDecided'
  BY <1>1 DEF IInv, Typed, EndedIsDecided, Decided
<1> QED BY <1>3, <1>4, <1>5, <1>6 DEF IInv

LEMMA NextIInv == IInv /\ [Next]_vars => IInv'
<1> SUFFICES ASSUME IInv, [Next]_vars PROVE IInv'
  OBVIOUS
<1>1. ASSUME NEW click \in Clicks, UserClicks(click) PROVE IInv'
  BY <1>1, SameIInv DEF guiVars, UserClicks, fileVars, runVars, resultVars
<1>2. CASE UNCHANGED vars
  BY <1>2, SameIInv DEF guiVars, vars, fileVars, runVars, resultVars
<1>3. ASSUME NEW r \in Results, Verdicting(r) PROVE IInv'
  BY <1>3, VerdictIInv DEF Verdicting
<1> QED BY <1>1, <1>2, <1>3, EdtIInv, ThreadIInv DEF Next

THEOREM Invariance == Spec => []IInv
BY InitIInv, NextIInv, PTL DEF Spec

\* No two runs are between their start and onComplete, whatever is clicked when.
THEOREM OneRunAtATime == Spec => []OneIsBusy
<1>1. IInv => OneIsBusy BY DEF IInv
<1> QED BY <1>1, Invariance, PTL

\* A verdict that was exported is never revised, for any scripts, results and clicks:
\* verdicts come to running and dead runs only, and neither has its XML in the GUI.
THEOREM ExportStaysTrue == Spec => ExportIsFinal
<1> DEFINE Final == exported # NoRun =>
             \A r \in Results : runOf[r] = exported => state[r] \in Verdicts /\ state'[r] = state[r]
<1>1. ASSUME IInv, [Next]_vars PROVE Final
  <2> SUFFICES ASSUME exported # NoRun, NEW r \in Results, runOf[r] = exported
               PROVE  state[r] \in Verdicts /\ state'[r] = state[r]
    OBVIOUS
  <2>1. exported \in Runs /\ threadPc[exported] = "done"
    BY <1>1, GuiAssumption DEF IInv, Typed, XmlOfDone, Runs, NoRun
  <2>2. state[r] \in Verdicts
    BY <1>1, <2>1 DEF IInv, EndedIsDecided, Decided, Over
  <2>3. ASSUME NEW click \in Clicks, UserClicks(click) PROVE state' = state
    BY <2>3 DEF UserClicks, resultVars
  <2>4. Edt => state' = state
    BY DEF Edt, Refuse, OpenScript, RunScriptThrows, RunScript, ExportScriptResultXml, CreateNode,
       ShowNode, UpdateNode, resultVars
  <2>5. ASSUME NEW n \in Runs, Thread(n) PROVE state'[r] = state[r]
    <3>1. CASE RunStep(n) \/ ScriptDies(n)
      BY <3>1 DEF RunStep, ScriptDies, ClearResults, InitTree, Compile, ScriptEnds, OnComplete, ReturnXml,
         resultVars
    <3>2. ASSUME NEW q \in Results, AddResult(n, q) PROVE state'[r] = state[r]
      <4>1. q # r
        BY <2>2, <3>2 DEF AddResult, Verdicts
      <4> QED BY <1>1, <3>2, <4>1 DEF AddResult, IInv, Typed
    <3> QED BY <2>5, <3>1, <3>2 DEF Thread
  <2>6. ASSUME NEW q \in Results, Verdicting(q) PROVE state'[r] = state[r]
    <3>1. q # r
      BY <2>1, <2>6 DEF Verdicting, Verdict
    <3> QED BY <1>1, <2>6, <3>1 DEF Verdicting, Verdict, IInv, Typed
  <2>7. UNCHANGED vars => state' = state
    BY DEF vars, resultVars
  <2> QED BY <1>1, <2>2, <2>3, <2>4, <2>5, <2>6, <2>7 DEF Next
<1> QED BY <1>1, Invariance, PTL DEF Spec, ExportIsFinal
--------------------------------------------------------------------------------
(* The types of all variables.                                              *)

Events == Clicks \cup Creations \cup Updates

\* What Typed does not say.
TreeTyped ==
  /\ clicks \in 0..MaxClicks
  /\ events \in Seq(Events)
  /\ edtPc \in {"idle", "creating"}
  /\ inHand \in Results
  /\ seen \in Colours
  /\ scriptFile \in Scripts
  /\ script \in [Runs -> Scripts]
  /\ made \in Seq(Results)
  /\ observed \subseteq Results
  /\ suite \in 0..run
  /\ leaves \in Seq(Results)
  /\ colour \in [Results -> Colours]

LEMMA FirstEvent ==
  ASSUME TreeTyped, events # <<>>
  PROVE  /\ Tail(events) \in Seq(Events)
         /\ Head(events).kind = "open" => Head(events).file \in Scripts
         /\ Head(events).kind = "create" => Head(events).result \in Results
         /\ Head(events).kind = "update" =>
              Head(events).result \in Results /\ Head(events).colour \in Colours
<1> DEFINE e == Head(events)
<1>1. e \in Events /\ Tail(events) \in Seq(Events)
  BY DEF TreeTyped
<1> HIDE DEF e
<1>2. CASE e \in Clicks
  BY <1>1, <1>2 DEF e, Clicks
<1>3. CASE e \in Creations
  BY <1>1, <1>3 DEF e, Creations
<1>4. CASE e \in Updates
  BY <1>1, <1>4 DEF e, Updates
<1> QED BY <1>1, <1>2, <1>3, <1>4 DEF Events

\* A step of the EDT or of a thread may append an event.
LEMMA EventAdded ==
  ASSUME TreeTyped, NEW e \in Events PROVE Append(events, e) \in Seq(Events)
BY DEF TreeTyped

LEMMA ColourOf == \A s \in States : Colour[s] \in Colours
BY DEF Colours

LEMMA EdtTyped == ASSUME IInv, TreeTyped, Edt PROVE TreeTyped'
<1>1. CASE Refuse \/ OpenScript \/ RunScriptThrows \/ ExportScriptResultXml
  <2>1. events # <<>> /\ events' = Tail(events)
    BY <1>1 DEF Refuse, OpenScript, RunScriptThrows, ExportScriptResultXml, Takes
  <2>2. scriptFile' \in Scripts
    <3>1. CASE OpenScript
      BY <2>1, <3>1, FirstEvent DEF OpenScript, Takes
    <3>2. CASE Refuse \/ RunScriptThrows \/ ExportScriptResultXml
      BY <3>2 DEF Refuse, RunScriptThrows, ExportScriptResultXml, fileVars, TreeTyped
    <3> QED BY <1>1, <3>1, <3>2
  <2> QED BY <1>1, <2>1, <2>2, FirstEvent DEF Refuse, OpenScript, RunScriptThrows, ExportScriptResultXml,
             edtVars, runVars, resultVars, nodeVars, treeVars, TreeTyped
<1>2. CASE RunScript
  <2>1. events # <<>> /\ events' = Tail(events) /\ run \in Nat /\ run' = run + 1
    BY <1>2, GuiAssumption DEF RunScript, Takes, IInv, Typed
  <2>2. script' \in [Runs -> Scripts]
    BY <1>2 DEF RunScript, TreeTyped
  <2>3. suite' \in 0..run'
    BY <1>2, <2>1 DEF RunScript, treeVars, TreeTyped
  <2> QED BY <1>2, <2>1, <2>2, <2>3, FirstEvent DEF RunScript, edtVars, fileVars, resultVars, nodeVars,
             treeVars, TreeTyped
<1>3. CASE CreateNode
  <2>1. events # <<>> /\ events' = Tail(events) /\ Head(events).kind = "create"
    BY <1>3 DEF CreateNode, Takes
  <2>2. inHand' \in Results
    BY <1>3, <2>1, FirstEvent DEF CreateNode
  <2>3. seen' \in Colours
    BY <1>3, <2>2, ColourOf DEF CreateNode, IInv, Typed
  <2> QED BY <1>3, <2>1, <2>2, <2>3, FirstEvent DEF CreateNode, fileVars, runVars, resultVars, nodeVars,
             treeVars, TreeTyped
<1>4. CASE ShowNode
  <2>1. leaves' \in Seq(Results)
    BY <1>4 DEF ShowNode, AddNode, TreeTyped
  <2> QED BY <1>4, <2>1 DEF ShowNode, fileVars, runVars, resultVars, TreeTyped
<1>5. CASE UpdateNode
  <2>1. events # <<>> /\ events' = Tail(events) /\ Head(events).kind = "update"
    BY <1>5 DEF UpdateNode, Takes
  <2>2. colour' \in [Results -> Colours]
    BY <1>5, <2>1, FirstEvent DEF UpdateNode, TreeTyped
  <2> QED BY <1>5, <2>1, <2>2, FirstEvent DEF UpdateNode, edtVars, fileVars, runVars, resultVars, treeVars,
             TreeTyped
<1> QED BY <1>1, <1>2, <1>3, <1>4, <1>5 DEF Edt

LEMMA ThreadTyped == ASSUME IInv, TreeTyped, NEW n \in Runs, Thread(n) PROVE TreeTyped'
<1>1. CASE ClearResults(n)
  <2>1. 0 \in 0..run
    BY GuiAssumption DEF IInv, Typed
  <2> QED BY <1>1, <2>1 DEF ClearResults, edtVars, fileVars, resultVars, nodeVars, TreeTyped, NoRun
<1>2. CASE InitTree(n)
  <2>1. n \in 0..run
    BY <1>2 DEF InitTree, RunGoes, IInv, Typed, StartedInTurn, Runs
  <2> QED BY <1>2, <2>1 DEF InitTree, edtVars, fileVars, resultVars, nodeVars, TreeTyped
<1>3. CASE Compile(n) \/ ScriptDies(n) \/ ScriptEnds(n) \/ OnComplete(n) \/ ReturnXml(n)
  BY <1>3 DEF Compile, ScriptDies, ScriptEnds, OnComplete, ReturnXml, edtVars, fileVars, resultVars, nodeVars,
     treeVars, TreeTyped
<1>4. ASSUME NEW r \in Results, AddResult(n, r) PROVE TreeTyped'
  <2>1. NodeToBeMade(r) \in Events
    BY DEF NodeToBeMade, Creations, Events
  <2>2. events' \in Seq(Events) /\ made' \in Seq(Results)
    BY <1>4, <2>1, EventAdded DEF AddResult, TreeTyped
  <2> QED BY <1>4, <2>2 DEF AddResult, edtVars, fileVars, runVars, nodeVars, treeVars, TreeTyped
<1> QED BY <1>1, <1>2, <1>3, <1>4 DEF Thread, RunStep

LEMMA VerdictTyped ==
  ASSUME TreeTyped, NEW r \in Results, NEW v \in Verdicts, Verdict(r, v) PROVE TreeTyped'
<1>1. Colour[v] \in Colours
  BY ColourOf DEF Verdicts, States
<1>2. [kind |-> "update", result |-> r, colour |-> Colour[v]] \in Events
  BY <1>1 DEF Updates, Events
<1>3. events' \in Seq(Events)
  BY <1>2, EventAdded DEF Verdict, NodeTold, TreeTyped
<1> QED BY <1>3 DEF Verdict, edtVars, fileVars, runVars, nodeVars, treeVars, TreeTyped

LEMMA NextTyped == IInv /\ TreeTyped /\ [Next]_vars => TreeTyped'
<1> SUFFICES ASSUME IInv, TreeTyped, [Next]_vars PROVE TreeTyped'
  OBVIOUS
<1>1. ASSUME NEW click \in Clicks, UserClicks(click) PROVE TreeTyped'
  <2>1. events' \in Seq(Events)
    BY <1>1, EventAdded DEF UserClicks, Events
  <2>2. clicks' \in 0..MaxClicks
    BY <1>1, GuiAssumption DEF UserClicks, TreeTyped
  <2> QED BY <1>1, <2>1, <2>2
    DEF UserClicks, edtVars, fileVars, runVars, resultVars, nodeVars, treeVars, TreeTyped
<1>2. CASE UNCHANGED vars
  BY <1>2 DEF vars, edtVars, fileVars, runVars, resultVars, nodeVars, treeVars, TreeTyped
<1>3. ASSUME NEW r \in Results, Verdicting(r) PROVE TreeTyped'
  BY <1>3, VerdictTyped DEF Verdicting
<1> QED BY <1>1, <1>2, <1>3, EdtTyped, ThreadTyped DEF Next

LEMMA InitTyped == Init => TreeTyped
<1> SUFFICES ASSUME Init PROVE TreeTyped
  OBVIOUS
<1>1. "NONE" \in Colours
  BY ColourOf DEF States, Colour
<1>2. colour \in [Results -> Colours] /\ script \in [Runs -> Scripts]
  BY <1>1, GuiAssumption DEF Init
<1>3. events \in Seq(Events) /\ made \in Seq(Results) /\ leaves \in Seq(Results)
  BY DEF Init
<1> QED BY <1>1, <1>2, <1>3, GuiAssumption DEF Init, TreeTyped, NoRun

\* The type invariant of ScriptRunnerGui.
THEOREM TypeCorrect == Spec => []TypeOK
<1>1. IInv /\ TreeTyped => TypeOK
  BY DEF IInv, Typed, TreeTyped, TypeOK, Events
<1> QED BY InitIInv, InitTyped, NextIInv, NextTyped, <1>1, PTL DEF Spec
--------------------------------------------------------------------------------
(* The order of the leaves.                                                 *)

IsMade(r) == \E i \in DOMAIN made : made[i] = r
Creates(i) == events[i].kind = "create"

\* A result is added once, and has been since it has a state.
MadeOnce ==
  /\ \A i, j \in DOMAIN made : made[i] = made[j] => i = j
  /\ \A i \in DOMAIN made : state[made[i]] # "UNMADE"

\* The nodes come in the order in which the results were added: first the leaves, then
\* the one in hand, then those whose events wait.
NodesInOrder ==
  /\ \A i, j \in DOMAIN leaves : i < j => MadeBefore(leaves[i], leaves[j])
  /\ \A i, j \in DOMAIN events : i < j /\ Creates(i) /\ Creates(j)
                                  => MadeBefore(events[i].result, events[j].result)
  /\ \A i \in DOMAIN leaves : edtPc = "creating" => MadeBefore(leaves[i], inHand)
  /\ \A i \in DOMAIN leaves, j \in DOMAIN events :
       Creates(j) => MadeBefore(leaves[i], events[j].result)
  /\ \A j \in DOMAIN events :
       edtPc = "creating" /\ Creates(j) => MadeBefore(inHand, events[j].result)

NodesAreMade ==
  /\ \A i \in DOMAIN leaves : IsMade(leaves[i])
  /\ \A i \in DOMAIN events : Creates(i) => IsMade(events[i].result)
  /\ edtPc = "creating" => IsMade(inHand)

\* Nothing of the run in the tree is left out.
HasNode(r) ==
  \/ \E i \in DOMAIN leaves : leaves[i] = r
  \/ edtPc = "creating" /\ inHand = r
  \/ \E i \in DOMAIN events : Creates(i) /\ events[i].result = r

NoneLeftOut ==
  suite # NoRun => \A r \in Results : IsMade(r) /\ runOf[r] = suite => HasNode(r)

\* A tree without testsuite has no leaves; it has none when a run makes its own, and
\* that run has added nothing yet.
NewTree ==
  /\ suite = NoRun => leaves = <<>>
  /\ \A n \in Runs : threadPc[n] = "initing" => suite = NoRun
  /\ \A n \in Runs : threadPc[n] \in {"unborn", "clearing", "initing", "compiling"}
                      => \A r \in Results : runOf[r] # n

OrderIInv == MadeOnce /\ NodesInOrder /\ NodesAreMade /\ NoneLeftOut /\ NewTree

\* Updates wait for nodes that observe their result, and what is observed was added.
UpdatesObserved ==
  /\ \A i \in DOMAIN events : events[i].kind = "update" => events[i].result \in observed
  /\ \A r \in observed : state[r] # "UNMADE"

--------------------------------------------------------------------------------
(* The queue of the EDT.                                                    *)

LEMMA AppendedEvent ==
  ASSUME TreeTyped, NEW e \in Events
  PROVE  /\ DOMAIN events = 1..Len(events) /\ Len(events) \in Nat
         /\ DOMAIN Append(events, e) = 1..(Len(events) + 1)
         /\ \A i \in DOMAIN events : Append(events, e)[i] = events[i]
         /\ Append(events, e)[Len(events) + 1] = e
BY DEF TreeTyped

LEMMA TakenEvent ==
  ASSUME TreeTyped, events # <<>>
  PROVE  /\ DOMAIN events = 1..Len(events) /\ Len(events) \in Nat /\ 1 \in DOMAIN events
         /\ Head(events) = events[1]
         /\ DOMAIN Tail(events) = 1..(Len(events) - 1)
         /\ \A i \in DOMAIN Tail(events) : Tail(events)[i] = events[i + 1]
BY DEF TreeTyped

\* The creations in the queue stay as they are, k places ahead.
CreationsMove(k) ==
  /\ \A j \in DOMAIN events' : Creates(j)' =>
       j + k \in DOMAIN events /\ Creates(j + k) /\ events[j + k].result = events'[j].result
  /\ \A i \in DOMAIN events : Creates(i) =>
       i - k \in DOMAIN events' /\ Creates(i - k)' /\ events'[i - k].result = events[i].result

LEMMA AppendMoves ==
  ASSUME TreeTyped, NEW e \in Events, e.kind # "create", events' = Append(events, e)
  PROVE  CreationsMove(0)
<1>1. \A j \in DOMAIN events' : Creates(j)' => j \in DOMAIN events
  BY AppendedEvent DEF Creates
<1> QED BY <1>1, AppendedEvent DEF CreationsMove, Creates

LEMMA TailMoves ==
  ASSUME TreeTyped, events # <<>>, Head(events).kind # "create", events' = Tail(events)
  PROVE  CreationsMove(1)
<1>1. \A i \in DOMAIN events : Creates(i) => i - 1 \in DOMAIN events' /\ events'[i - 1] = events[i]
  BY TakenEvent DEF Creates
<1>2. \A j \in DOMAIN events' : j + 1 \in DOMAIN events /\ events'[j] = events[j + 1]
  BY TakenEvent
<1> QED BY <1>1, <1>2 DEF CreationsMove, Creates

LEMMA DomainsAreInt ==
  ASSUME TreeTyped
  PROVE  /\ DOMAIN events = 1..Len(events) /\ Len(events) \in Nat
         /\ DOMAIN leaves = 1..Len(leaves) /\ Len(leaves) \in Nat
         /\ DOMAIN made = 1..Len(made) /\ Len(made) \in Nat
BY DEF TreeTyped

\* A step that neither adds a result nor makes or shows a node.
LEMMA MovedInOrder ==
  ASSUME TreeTyped, TreeTyped', OrderIInv, NEW k \in {0, 1}, CreationsMove(k),
         UNCHANGED <<made, state, leaves, edtPc, inHand, runOf>>
  PROVE  /\ MadeOnce' /\ NodesInOrder' /\ NodesAreMade'
         /\ \A r : HasNode(r)' <=> HasNode(r)
         /\ \A r : IsMade(r)' <=> IsMade(r)
<1>1. /\ \A q, r : MadeBefore(q, r)' <=> MadeBefore(q, r)
      /\ \A r : IsMade(r)' <=> IsMade(r)
  BY DEF MadeBefore, IsMade
<1>2. MadeOnce'
  BY DEF OrderIInv, MadeOnce
<1>3. NodesInOrder'
  <2>1. \A i, j \in DOMAIN events' : i < j => i + k < j + k
    BY DomainsAreInt
  <2> QED BY <1>1, <2>1 DEF OrderIInv, NodesInOrder, CreationsMove
<1>4. NodesAreMade'
  BY <1>1 DEF OrderIInv, NodesAreMade, CreationsMove
<1>5. \A r : HasNode(r)' <=> HasNode(r)
  BY DEF HasNode, CreationsMove
<1> QED BY <1>1, <1>2, <1>3, <1>4, <1>5

--------------------------------------------------------------------------------
(* Every step keeps the order.                                              *)

\* What comes and goes in the queue besides creations.
LEMMA SameOrder ==
  ASSUME IInv, TreeTyped, TreeTyped', OrderIInv, NEW k \in {0, 1}, CreationsMove(k),
         UNCHANGED <<resultVars, edtPc, inHand, treeVars>>, NewTree'
  PROVE  OrderIInv'
<1>1. UNCHANGED <<made, state, leaves, edtPc, inHand, runOf, suite>>
  BY DEF resultVars, treeVars
<1>2. /\ MadeOnce' /\ NodesInOrder' /\ NodesAreMade'
      /\ \A r : HasNode(r)' <=> HasNode(r)
      /\ \A r : IsMade(r)' <=> IsMade(r)
  BY <1>1, MovedInOrder
<1>3. NoneLeftOut'
  BY <1>1, <1>2 DEF OrderIInv, NoneLeftOut
<1> QED BY <1>2, <1>3 DEF OrderIInv

\* The creation at the head of the queue.
LEMMA CreateNodeOrder ==
  ASSUME IInv, TreeTyped, TreeTyped', OrderIInv, CreateNode PROVE OrderIInv'
<1>1. /\ edtPc = "idle" /\ edtPc' = "creating" /\ events # <<>> /\ events' = Tail(events)
      /\ Creates(1) /\ inHand' = events[1].result
      /\ UNCHANGED <<made, state, runOf, leaves, suite, threadPc>>
  BY TakenEvent DEF CreateNode, Takes, Creates, runVars, resultVars, treeVars
<1>2. /\ DOMAIN events' = 1..(Len(events) - 1) /\ Len(events) \in Nat /\ 1 \in DOMAIN events
      /\ \A j \in DOMAIN events' : j + 1 \in DOMAIN events /\ events'[j] = events[j + 1] /\ 1 < j + 1
      /\ \A i \in DOMAIN events : i = 1 \/ (i - 1 \in DOMAIN events' /\ events'[i - 1] = events[i])
  BY <1>1, TakenEvent
<1>3. /\ \A q, r : MadeBefore(q, r)' <=> MadeBefore(q, r)
      /\ \A r : IsMade(r)' <=> IsMade(r)
  BY <1>1 DEF MadeBefore, IsMade
<1>4. MadeOnce' /\ NewTree'
  BY <1>1 DEF OrderIInv, MadeOnce, NewTree
<1>5. NodesInOrder'
  <2>1. \A i, j \in DOMAIN leaves' : i < j => MadeBefore(leaves'[i], leaves'[j])
    BY <1>1 DEF OrderIInv, NodesInOrder
  <2>2. ASSUME NEW i \in DOMAIN events', NEW j \in DOMAIN events', i < j, Creates(i)', Creates(j)'
        PROVE  MadeBefore(events'[i].result, events'[j].result)
    <3>1. i + 1 < j + 1 /\ Creates(i + 1) /\ Creates(j + 1)
      BY <1>2, <2>2 DEF Creates
    <3> QED BY <1>2, <3>1 DEF OrderIInv, NodesInOrder
  <2>3. \A i \in DOMAIN leaves' : MadeBefore(leaves'[i], inHand')
    BY <1>1, <1>2 DEF OrderIInv, NodesInOrder
  <2>4. ASSUME NEW i \in DOMAIN leaves', NEW j \in DOMAIN events', Creates(j)'
        PROVE  MadeBefore(leaves'[i], events'[j].result)
    BY <1>1, <1>2, <2>4 DEF OrderIInv, NodesInOrder, Creates
  <2>5. ASSUME NEW j \in DOMAIN events', Creates(j)' PROVE MadeBefore(inHand', events'[j].result)
    BY <1>1, <1>2, <2>5 DEF OrderIInv, NodesInOrder, Creates
  <2> QED BY <1>3, <2>1, <2>2, <2>3, <2>4, <2>5 DEF NodesInOrder
<1>6. NodesAreMade'
  BY <1>1, <1>2, <1>3 DEF OrderIInv, NodesAreMade, Creates
<1>7. \A r : HasNode(r) => HasNode(r)'
  <2> SUFFICES ASSUME NEW r, HasNode(r) PROVE HasNode(r)'
    OBVIOUS
  <2>1. CASE \E i \in DOMAIN leaves : leaves[i] = r
    BY <1>1, <2>1 DEF HasNode
  <2>2. ASSUME NEW i \in DOMAIN events, Creates(i), events[i].result = r PROVE HasNode(r)'
    <3>1. CASE i = 1
      BY <1>1, <2>2, <3>1 DEF HasNode
    <3>2. CASE i # 1
      <4>1. i - 1 \in DOMAIN events' /\ Creates(i - 1)' /\ events'[i - 1].result = r
        BY <1>2, <2>2, <3>2 DEF Creates
      <4> QED BY <4>1 DEF HasNode
    <3> QED BY <3>1, <3>2
  <2> QED BY <1>1, <2>1, <2>2 DEF HasNode
<1>8. NoneLeftOut'
  BY <1>1, <1>3, <1>7 DEF OrderIInv, NoneLeftOut
<1> QED BY <1>4, <1>5, <1>6, <1>8 DEF OrderIInv

\* The node in hand goes behind the leaves, if there is a testsuite.
LEMMA ShowNodeOrder ==
  ASSUME IInv, TreeTyped, TreeTyped', OrderIInv, ShowNode PROVE OrderIInv'
<1>1. /\ edtPc = "creating" /\ edtPc' = "idle" /\ inHand' = inHand /\ events' = events
      /\ leaves' = IF suite = NoRun THEN leaves ELSE Append(leaves, inHand)
      /\ UNCHANGED <<made, state, runOf, suite, threadPc>>
  BY DEF ShowNode, AddNode, runVars, resultVars
<1>2. /\ \A q, r : MadeBefore(q, r)' <=> MadeBefore(q, r)
      /\ \A r : IsMade(r)' <=> IsMade(r)
      /\ \A i : Creates(i)' <=> Creates(i)
  BY <1>1 DEF MadeBefore, IsMade, Creates
<1>3. MadeOnce' /\ NewTree'
  BY <1>1 DEF OrderIInv, MadeOnce, NewTree
<1>4. CASE suite = NoRun
  <2>1. leaves' = leaves
    BY <1>1, <1>4
  <2>2. NodesInOrder' /\ NodesAreMade' /\ NoneLeftOut'
    BY <1>1, <1>2, <1>4, <2>1 DEF OrderIInv, NodesInOrder, NodesAreMade, NoneLeftOut
  <2> QED BY <1>3, <2>2 DEF OrderIInv
<1>5. CASE suite # NoRun
  <2>1. /\ DOMAIN leaves = 1..Len(leaves) /\ Len(leaves) \in Nat
        /\ DOMAIN leaves' = 1..(Len(leaves) + 1)
        /\ \A i \in DOMAIN leaves : i \in DOMAIN leaves' /\ leaves'[i] = leaves[i]
        /\ \A i \in DOMAIN leaves' : i \in DOMAIN leaves \/ (i = Len(leaves) + 1 /\ leaves'[i] = inHand)
        /\ leaves'[Len(leaves) + 1] = inHand
    BY <1>1, <1>5 DEF TreeTyped
  <2>2. NodesInOrder'
    <3>1. ASSUME NEW i \in DOMAIN leaves', NEW j \in DOMAIN leaves', i < j
          PROVE  MadeBefore(leaves'[i], leaves'[j])
      <4>1. i \in DOMAIN leaves
        BY <2>1, <3>1
      <4> QED BY <1>1, <2>1, <3>1, <4>1 DEF OrderIInv, NodesInOrder
    <3>2. \A i \in DOMAIN leaves', j \in DOMAIN events : Creates(j) => MadeBefore(leaves'[i], events[j].result)
      BY <1>1, <2>1 DEF OrderIInv, NodesInOrder
    <3> QED BY <1>1, <1>2, <3>1, <3>2 DEF OrderIInv, NodesInOrder
  <2>3. NodesAreMade'
    BY <1>1, <1>2, <2>1 DEF OrderIInv, NodesAreMade
  <2>4. \A r : HasNode(r) => HasNode(r)'
    <3>1. \A r : (\E i \in DOMAIN leaves : leaves[i] = r) => \E i \in DOMAIN leaves' : leaves'[i] = r
      BY <2>1
    <3>2. \E i \in DOMAIN leaves' : leaves'[i] = inHand
      BY <2>1
    <3> QED BY <1>1, <1>2, <3>1, <3>2 DEF HasNode
  <2>5. NoneLeftOut'
    BY <1>1, <1>2, <2>4 DEF OrderIInv, NoneLeftOut
  <2> QED BY <1>3, <2>2, <2>3, <2>5 DEF OrderIInv
<1> QED BY <1>4, <1>5

\* A new result comes after all others, and so does its event.
LEMMA AddResultOrder ==
  ASSUME IInv, TreeTyped, TreeTyped', OrderIInv, NEW n \in Runs, NEW r \in Results, AddResult(n, r)
  PROVE  OrderIInv'
<1>1. /\ threadPc[n] = "running" /\ state[r] = "UNMADE"
      /\ made' = Append(made, r) /\ runOf' = [runOf EXCEPT ![r] = n]
      /\ events' = Append(events, NodeToBeMade(r))
      /\ UNCHANGED <<edtPc, inHand, leaves, suite, threadPc>>
  BY DEF AddResult, edtVars, runVars, treeVars
<1>2. PICK s \in {"WAITING", "PASSED", "FAILED"} : state' = [state EXCEPT ![r] = s]
  BY DEF AddResult, StatesWhenMade, Verdicts
<1>3. /\ DOMAIN made = 1..Len(made) /\ Len(made) \in Nat
      /\ DOMAIN made' = 1..(Len(made) + 1)
      /\ \A i \in DOMAIN made : i \in DOMAIN made' /\ made'[i] = made[i] /\ made[i] \in Results
      /\ \A i \in DOMAIN made' : i \in DOMAIN made \/ i = Len(made) + 1
      /\ made'[Len(made) + 1] = r
  BY <1>1 DEF TreeTyped
<1>4. /\ NodeToBeMade(r).kind = "create" /\ NodeToBeMade(r).result = r /\ NodeToBeMade(r) \in Events
  BY DEF NodeToBeMade, Creations, Events
<1>5. /\ DOMAIN events = 1..Len(events) /\ Len(events) \in Nat
      /\ DOMAIN events' = 1..(Len(events) + 1)
      /\ \A i \in DOMAIN events : i \in DOMAIN events' /\ events'[i] = events[i]
      /\ \A i \in DOMAIN events' : i \in DOMAIN events \/ i = Len(events) + 1
      /\ events'[Len(events) + 1] = NodeToBeMade(r)
  BY <1>1, <1>4, AppendedEvent
<1>6. ~IsMade(r)
  BY <1>1 DEF OrderIInv, MadeOnce, IsMade
<1>7. ASSUME NEW q, NEW p, MadeBefore(q, p) PROVE MadeBefore(q, p)'
  <2>1. PICK j \in DOMAIN made : made[j] = p /\ \E i \in 1..(j - 1) : made[i] = q
    BY <1>7 DEF MadeBefore
  <2>2. PICK i \in 1..(j - 1) : made[i] = q
    BY <2>1
  <2>3. j \in DOMAIN made' /\ made'[j] = p /\ i \in 1..(j - 1) /\ made'[i] = q
    BY <1>3, <2>1, <2>2
  <2> QED BY <2>3 DEF MadeBefore
<1>8. ASSUME NEW q, IsMade(q) PROVE MadeBefore(q, r)' /\ IsMade(q)'
  <2>1. PICK i \in DOMAIN made : made[i] = q
    BY <1>8 DEF IsMade
  <2>2. Len(made) + 1 \in DOMAIN made' /\ i \in 1..((Len(made) + 1) - 1) /\ made'[i] = q /\ i \in DOMAIN made'
    BY <1>3, <2>1
  <2> QED BY <1>3, <2>2 DEF MadeBefore, IsMade
<1>9. IsMade(r)' /\ \A q : IsMade(q)' => IsMade(q) \/ q = r
  BY <1>3 DEF IsMade
<1>10. MadeOnce'
  <2>1. \A i, j \in DOMAIN made' : made'[i] = made'[j] => i = j
    BY <1>3, <1>6 DEF OrderIInv, MadeOnce, IsMade
  <2>2. \A i \in DOMAIN made' : state'[made'[i]] # "UNMADE"
    BY <1>2, <1>3 DEF OrderIInv, MadeOnce, IInv, Typed
  <2> QED BY <2>1, <2>2 DEF MadeOnce
<1>11. \A j \in DOMAIN events' : Creates(j)' =>
         \/ j \in DOMAIN events /\ Creates(j) /\ events'[j] = events[j]
         \/ j = Len(events) + 1 /\ events'[j].result = r
  BY <1>4, <1>5 DEF Creates
<1>12. NodesInOrder'
  <2>1. ASSUME NEW i \in DOMAIN events', NEW j \in DOMAIN events', i < j, Creates(i)', Creates(j)'
        PROVE  MadeBefore(events[i].result, events[j].result)'
    <3>1. i \in DOMAIN events /\ Creates(i) /\ events'[i] = events[i]
      BY <1>5, <1>11, <2>1
    <3>2. IsMade(events[i].result)
      BY <3>1 DEF OrderIInv, NodesAreMade
    <3>3. CASE j \in DOMAIN events /\ Creates(j) /\ events'[j] = events[j]
      BY <1>7, <2>1, <3>1, <3>3 DEF OrderIInv, NodesInOrder
    <3>4. CASE events'[j].result = r
      BY <1>8, <3>1, <3>2, <3>4
    <3> QED BY <1>11, <2>1, <3>3, <3>4
  <2>2. ASSUME NEW q, IsMade(q), \A j \in DOMAIN events : Creates(j) => MadeBefore(q, events[j].result),
               NEW j \in DOMAIN events', Creates(j)'
        PROVE  MadeBefore(q, events[j].result)'
    BY <1>7, <1>8, <1>11, <2>2
  <2>3. \A i, j \in DOMAIN leaves' : i < j => MadeBefore(leaves[i], leaves[j])'
    BY <1>1, <1>7 DEF OrderIInv, NodesInOrder
  <2>4. \A i \in DOMAIN leaves' : edtPc' = "creating" => MadeBefore(leaves[i], inHand)'
    BY <1>1, <1>7 DEF OrderIInv, NodesInOrder
  <2>5. \A i \in DOMAIN leaves', j \in DOMAIN events' :
          Creates(j)' => MadeBefore(leaves[i], events[j].result)'
    BY <1>1, <2>2 DEF OrderIInv, NodesInOrder, NodesAreMade
  <2>6. \A j \in DOMAIN events' : edtPc' = "creating" /\ Creates(j)' => MadeBefore(inHand, events[j].result)'
    BY <1>1, <2>2 DEF OrderIInv, NodesInOrder, NodesAreMade
  <2> QED BY <2>1, <2>3, <2>4, <2>5, <2>6 DEF NodesInOrder
<1>13. NodesAreMade'
  BY <1>1, <1>8, <1>9, <1>11 DEF OrderIInv, NodesAreMade
<1>14. /\ \A q : HasNode(q) => HasNode(q)'
       /\ HasNode(r)'
  <2>1. \A i \in DOMAIN events : Creates(i) => i \in DOMAIN events' /\ Creates(i)' /\ events'[i] = events[i]
    BY <1>5 DEF Creates
  <2>2. PICK i \in DOMAIN events' : events'[i] = NodeToBeMade(r)
    BY <1>5
  <2>3. Creates(i)' /\ events'[i].result = r
    BY <1>4, <2>2 DEF Creates
  <2> QED BY <1>1, <2>1, <2>2, <2>3 DEF HasNode
<1>15. NoneLeftOut'
  <2> SUFFICES ASSUME suite # NoRun, NEW q \in Results, IsMade(q)', runOf'[q] = suite PROVE HasNode(q)'
    BY <1>1 DEF NoneLeftOut
  <2>1. CASE q = r
    BY <1>14, <2>1
  <2>2. CASE q # r
    <3>1. IsMade(q) /\ runOf[q] = suite
      BY <1>1, <1>9, <2>2 DEF IInv, Typed
    <3> QED BY <1>14, <3>1 DEF OrderIInv, NoneLeftOut
  <2> QED BY <2>1, <2>2
<1>16. NewTree'
  BY <1>1 DEF OrderIInv, NewTree, IInv, Typed
<1> QED BY <1>10, <1>12, <1>13, <1>15, <1>16 DEF OrderIInv

\* The tree is emptied, gets its testsuite, or stays.
LEMMA ThreadOrder ==
  ASSUME IInv, TreeTyped, TreeTyped', OrderIInv, NEW n \in Runs, Thread(n) PROVE OrderIInv'
<1>1. CASE ClearResults(n)
  <2>1. /\ threadPc[n] = "clearing" /\ threadPc' = [threadPc EXCEPT ![n] = "initing"]
        /\ suite' = NoRun /\ leaves' = <<>>
        /\ UNCHANGED <<made, state, runOf, events, edtPc, inHand>>
    BY <1>1 DEF ClearResults, RunGoes, edtVars, resultVars
  <2>2. /\ \A q, r : MadeBefore(q, r)' <=> MadeBefore(q, r)
        /\ \A r : IsMade(r)' <=> IsMade(r)
        /\ \A i : Creates(i)' <=> Creates(i)
    BY <2>1 DEF MadeBefore, IsMade, Creates
  <2>3. MadeOnce' /\ NodesInOrder' /\ NodesAreMade' /\ NoneLeftOut'
    BY <2>1, <2>2 DEF OrderIInv, MadeOnce, NodesInOrder, NodesAreMade, NoneLeftOut
  <2>4. NewTree'
    BY <2>1 DEF OrderIInv, NewTree, IInv, Typed
  <2> QED BY <2>3, <2>4 DEF OrderIInv
<1>2. CASE InitTree(n)
  <2>1. /\ threadPc[n] = "initing" /\ threadPc' = [threadPc EXCEPT ![n] = "compiling"]
        /\ suite' = n
        /\ UNCHANGED <<made, state, runOf, events, edtPc, inHand, leaves>>
    BY <1>2 DEF InitTree, RunGoes, edtVars, resultVars
  <2>2. /\ \A q, r : MadeBefore(q, r)' <=> MadeBefore(q, r)
        /\ \A r : IsMade(r)' <=> IsMade(r)
        /\ \A i : Creates(i)' <=> Creates(i)
    BY <2>1 DEF MadeBefore, IsMade, Creates
  <2>3. MadeOnce' /\ NodesInOrder' /\ NodesAreMade'
    BY <2>1, <2>2 DEF OrderIInv, MadeOnce, NodesInOrder, NodesAreMade
  <2>4. NoneLeftOut'
    BY <2>1 DEF OrderIInv, NewTree, NoneLeftOut
  <2>5. NewTree'
    <3>1. \A o \in Runs : threadPc[o] = "initing" => o = n
      BY <2>1 DEF IInv, OneIsBusy, Busy
    <3> QED BY <2>1, <3>1 DEF OrderIInv, NewTree, IInv, Typed, NoRun, Runs
  <2> QED BY <2>3, <2>4, <2>5 DEF OrderIInv
<1>3. CASE Compile(n) \/ ScriptDies(n) \/ ScriptEnds(n) \/ OnComplete(n) \/ ReturnXml(n)
  <2>1. UNCHANGED <<resultVars, events, edtPc, inHand, treeVars>>
    BY <1>3 DEF Compile, ScriptDies, ScriptEnds, OnComplete, ReturnXml, edtVars
  <2>2. PICK to \in {"dead", "running", "completing", "returning", "done"} :
          threadPc' = [threadPc EXCEPT ![n] = to]
    BY <1>3 DEF Compile, ScriptDies, ScriptEnds, OnComplete, ReturnXml, RunGoes
  <2>3. NewTree'
    BY <2>1, <2>2 DEF OrderIInv, NewTree, IInv, Typed, resultVars, treeVars
  <2>4. CreationsMove(0)
    BY <2>1, DomainsAreInt DEF CreationsMove, Creates
  <2> QED BY <2>1, <2>3, <2>4, SameOrder
<1> QED BY <1>1, <1>2, <1>3, AddResultOrder DEF Thread, RunStep

LEMMA EdtOrder == ASSUME IInv, TreeTyped, TreeTyped', OrderIInv, Edt PROVE OrderIInv'
<1>1. CASE Refuse \/ OpenScript \/ RunScriptThrows \/ ExportScriptResultXml \/ UpdateNode
  <2>1. /\ events # <<>> /\ events' = Tail(events) /\ Head(events).kind # "create"
        /\ UNCHANGED <<resultVars, edtPc, inHand, treeVars, threadPc>>
    BY <1>1 DEF Refuse, OpenScript, RunScriptThrows, ExportScriptResultXml, UpdateNode, Takes, edtVars,
       runVars, treeVars
  <2>2. NewTree'
    BY <2>1 DEF OrderIInv, NewTree, resultVars, treeVars
  <2> QED BY <2>1, <2>2, TailMoves, SameOrder
<1>2. CASE RunScript
  <2>1. /\ events # <<>> /\ events' = Tail(events) /\ Head(events).kind # "create"
        /\ UNCHANGED <<resultVars, edtPc, inHand, treeVars>>
        /\ run < MaxRuns /\ threadPc' = [threadPc EXCEPT ![run + 1] = "clearing"]
    BY <1>2 DEF RunScript, Takes, edtVars, runVars, treeVars
  <2>2. run + 1 \in Runs /\ threadPc[run + 1] = "unborn"
    BY <2>1, GuiAssumption DEF IInv, Typed, StartedInTurn, Runs
  <2>3. NewTree'
    BY <2>1, <2>2 DEF OrderIInv, NewTree, resultVars, treeVars, IInv, Typed
  <2> QED BY <2>1, <2>3, TailMoves, SameOrder
<1> QED BY <1>1, <1>2, CreateNodeOrder, ShowNodeOrder DEF Edt

LEMMA NextOrder ==
  ASSUME IInv, TreeTyped, TreeTyped', OrderIInv, [Next]_vars PROVE OrderIInv'
<1>1. ASSUME NEW e \in Events, e.kind # "create", events' = Append(events, e) \/ events' = events,
             UNCHANGED <<made, runOf, edtPc, inHand, treeVars, threadPc>>,
             \A r \in Results : state[r] # "UNMADE" => state'[r] # "UNMADE"
      PROVE  OrderIInv'
  <2>1. CreationsMove(0)
    <3>1. CASE events' = events
      BY <3>1, DomainsAreInt DEF CreationsMove, Creates
    <3> QED BY <1>1, <3>1, AppendMoves
  <2>2. /\ \A q, r : MadeBefore(q, r)' <=> MadeBefore(q, r)
        /\ \A r : IsMade(r)' <=> IsMade(r)
    BY <1>1 DEF MadeBefore, IsMade
  <2>3. MadeOnce'
    <3>1. \A i \in DOMAIN made : made[i] \in Results
      BY DEF TreeTyped
    <3> QED BY <1>1, <3>1 DEF OrderIInv, MadeOnce
  <2>4. NodesInOrder'
    BY <1>1, <2>1, <2>2, DomainsAreInt DEF OrderIInv, NodesInOrder, CreationsMove, treeVars
  <2>5. NodesAreMade'
    BY <1>1, <2>1, <2>2, DomainsAreInt DEF OrderIInv, NodesAreMade, CreationsMove, treeVars
  <2>6. \A r : HasNode(r) => HasNode(r)'
    BY <1>1, <2>1, DomainsAreInt DEF HasNode, CreationsMove, treeVars
  <2>7. NoneLeftOut' /\ NewTree'
    BY <1>1, <2>2, <2>6 DEF OrderIInv, NoneLeftOut, NewTree, treeVars
  <2> QED BY <2>3, <2>4, <2>5, <2>7 DEF OrderIInv
<1>2. ASSUME NEW click \in Clicks, UserClicks(click) PROVE OrderIInv'
  <2>1. click \in Events /\ click.kind # "create"
    BY DEF Events, Clicks
  <2> QED BY <1>1, <1>2, <2>1 DEF UserClicks, resultVars, edtVars, runVars
<1>3. CASE UNCHANGED vars
  BY <1>3, SameOrder, DomainsAreInt DEF vars, resultVars, edtVars, treeVars, runVars, CreationsMove,
     Creates, OrderIInv, NewTree
<1>4. ASSUME NEW r \in Results, Verdicting(r) PROVE OrderIInv'
  <2>1. PICK v \in Verdicts : Verdict(r, v)
    BY <1>4 DEF Verdicting
  <2> DEFINE e == [kind |-> "update", result |-> r, colour |-> Colour[v]]
  <2>2. e \in Events /\ e.kind # "create"
    BY ColourOf DEF Updates, Events, Verdicts, States
  <2>3. events' = Append(events, e) \/ events' = events
    BY <2>1 DEF Verdict, NodeTold
  <2>4. \A q \in Results : state[q] # "UNMADE" => state'[q] # "UNMADE"
    BY <2>1 DEF Verdict, Verdicts, IInv, Typed
  <2> HIDE DEF e
  <2> QED BY <1>1, <2>1, <2>2, <2>3, <2>4 DEF Verdict, edtVars, runVars
<1> QED BY <1>2, <1>3, <1>4, EdtOrder, ThreadOrder DEF Next

LEMMA OrderMeansLeavesInOrder ==
  ASSUME TreeTyped, OrderIInv PROVE LeavesInOrder
<1>1. \A q, r : ~(MadeBefore(q, r) /\ (q = r \/ MadeBefore(r, q)))
  <2> SUFFICES ASSUME NEW q, NEW r, MadeBefore(q, r), q = r \/ MadeBefore(r, q) PROVE FALSE
    OBVIOUS
  <2>1. PICK j \in DOMAIN made : made[j] = r /\ \E i \in 1..(j - 1) : made[i] = q
    BY DEF MadeBefore
  <2>2. PICK i \in 1..(j - 1) : made[i] = q
    BY <2>1
  <2>3. i \in DOMAIN made /\ j \in DOMAIN made /\ i < j
    BY <2>1, <2>2, DomainsAreInt
  <2>4. q # r
    BY <2>1, <2>2, <2>3 DEF OrderIInv, MadeOnce
  <2>5. PICK k \in DOMAIN made : made[k] = q /\ \E l \in 1..(k - 1) : made[l] = r
    BY <2>4 DEF MadeBefore
  <2>6. PICK l \in 1..(k - 1) : made[l] = r
    BY <2>5
  <2>7. k = i
    BY <2>2, <2>3, <2>5 DEF OrderIInv, MadeOnce
  <2>8. l \in DOMAIN made /\ l < k
    BY <2>5, <2>6, DomainsAreInt
  <2>9. l = j
    BY <2>1, <2>6, <2>8 DEF OrderIInv, MadeOnce
  <2> QED BY <2>3, <2>7, <2>8, <2>9, DomainsAreInt
<1>2. ASSUME NEW i \in DOMAIN leaves, NEW j \in DOMAIN leaves, leaves[i] = leaves[j] PROVE i = j
  <2>1. CASE i < j
    BY <1>1, <1>2, <2>1 DEF OrderIInv, NodesInOrder
  <2>2. CASE j < i
    BY <1>1, <1>2, <2>2 DEF OrderIInv, NodesInOrder
  <2> QED BY <2>1, <2>2, DomainsAreInt
<1>3. ASSUME NEW j \in DOMAIN leaves, runOf[leaves[j]] = suite,
             NEW q \in Results, runOf[q] = suite, MadeBefore(q, leaves[j])
      PROVE  \E i \in 1..(j - 1) : leaves[i] = q
  <2>1. IsMade(q)
    <3>1. PICK k \in DOMAIN made : made[k] = leaves[j] /\ \E i \in 1..(k - 1) : made[i] = q
      BY <1>3 DEF MadeBefore
    <3>2. PICK i \in 1..(k - 1) : made[i] = q
      BY <3>1
    <3>3. i \in DOMAIN made
      BY DomainsAreInt
    <3> QED BY <3>2, <3>3 DEF IsMade
  <2>2. suite # NoRun
    BY <1>3, DomainsAreInt DEF OrderIInv, NewTree
  <2>3. HasNode(q)
    BY <1>3, <2>1, <2>2 DEF OrderIInv, NoneLeftOut
  <2>4. ~(edtPc = "creating" /\ inHand = q)
    BY <1>1, <1>3 DEF OrderIInv, NodesInOrder
  <2>5. ~\E i \in DOMAIN events : Creates(i) /\ events[i].result = q
    BY <1>1, <1>3 DEF OrderIInv, NodesInOrder
  <2>6. PICK i \in DOMAIN leaves : leaves[i] = q
    BY <2>3, <2>4, <2>5 DEF HasNode
  <2>7. ~(j <= i)
    <3>1. CASE i = j
      BY <1>1, <1>3, <2>6, <3>1
    <3>2. CASE j < i
      BY <1>1, <1>3, <2>6, <3>2 DEF OrderIInv, NodesInOrder
    <3> QED BY <3>1, <3>2, DomainsAreInt
  <2> QED BY <2>6, <2>7, DomainsAreInt
<1> QED BY <1>2, <1>3 DEF LeavesInOrder, IsInjective

LEMMA InitOrder == Init => OrderIInv
<1> SUFFICES ASSUME Init PROVE OrderIInv
  OBVIOUS
<1>1. DOMAIN events = {} /\ DOMAIN made = {} /\ DOMAIN leaves = {} /\ edtPc = "idle"
  BY DEF Init
<1>2. MadeOnce /\ NodesInOrder /\ NodesAreMade
  BY <1>1 DEF MadeOnce, NodesInOrder, NodesAreMade
<1>3. suite = NoRun /\ leaves = <<>> /\ \A n \in Runs, r \in Results : runOf[r] # n
  BY DEF Init, Runs, NoRun
<1>4. NoneLeftOut /\ NewTree
  BY <1>3 DEF NoneLeftOut, NewTree
<1> QED BY <1>2, <1>4 DEF OrderIInv

\* Whatever is cleared, initialised, clicked and decided while the events of a run wait,
\* its leaves are the results it added, in the order in which it added them.
THEOREM LeavesComeInOrder == Spec => []LeavesInOrder
<1>1. TreeTyped /\ OrderIInv => LeavesInOrder
  BY OrderMeansLeavesInOrder
<1>2. IInv /\ TreeTyped /\ TreeTyped' /\ OrderIInv /\ [Next]_vars => OrderIInv'
  BY NextOrder
<1> QED BY InitIInv, InitTyped, InitOrder, NextIInv, NextTyped, <1>1, <1>2, PTL DEF Spec

--------------------------------------------------------------------------------
(* What nodes show.                                                         *)

\* An event that is no update of r comes into the queue, or none.
LEMMA ShowsAfterAppend ==
  ASSUME TreeTyped, NEW e \in Events, NEW r, ~(e.kind = "update" /\ e.result = r),
         events' = Append(events, e) \/ events' = events, colour'[r] = colour[r], NEW c
  PROVE  WillShow(r, c)' <=> WillShow(r, c)
<1>1. \A i \in DOMAIN events : i \in DOMAIN events' /\ events'[i] = events[i]
  BY AppendedEvent
<1>2. \A i \in DOMAIN events' : i \in DOMAIN events \/ events'[i] = e
  BY AppendedEvent
<1>3. UpdatesOf(r)' = UpdatesOf(r)
  BY <1>1, <1>2 DEF UpdatesOf
<1>4. \A i \in UpdatesOf(r) : events'[i] = events[i]
  BY <1>1 DEF UpdatesOf
<1> QED BY <1>3, <1>4 DEF WillShow

\* An event is taken that is no update of r.
LEMMA ShowsAfterOther ==
  ASSUME TreeTyped, NEW r, events # <<>>, events' = Tail(events),
         ~(Head(events).kind = "update" /\ Head(events).result = r), colour'[r] = colour[r], NEW c,
         WillShow(r, c)
  PROVE  WillShow(r, c)'
<1>1. \A i \in UpdatesOf(r)' : i + 1 \in UpdatesOf(r) /\ events'[i] = events[i + 1] /\ i \in Int
  BY TakenEvent DEF UpdatesOf
<1>2. \A i \in UpdatesOf(r) : i - 1 \in UpdatesOf(r)' /\ events'[i - 1] = events[i] /\ i \in Int
  <2> SUFFICES ASSUME NEW i \in UpdatesOf(r)
               PROVE  i - 1 \in UpdatesOf(r)' /\ events'[i - 1] = events[i] /\ i \in Int
    OBVIOUS
  <2>1. i \in DOMAIN events /\ i # 1
    BY TakenEvent DEF UpdatesOf
  <2> QED BY <2>1, TakenEvent DEF UpdatesOf
<1>3. CASE UpdatesOf(r) = {}
  <2>1. UpdatesOf(r)' = {}
    BY <1>1, <1>3
  <2> QED BY <1>3, <2>1 DEF WillShow
<1>4. CASE UpdatesOf(r) # {}
  <2>1. PICK i \in UpdatesOf(r) : events[i].colour = c /\ \A j \in UpdatesOf(r) : j <= i
    BY <1>4 DEF WillShow
  <2>2. \A j \in UpdatesOf(r)' : j <= i - 1
    BY <1>1, <1>2, <2>1
  <2>3. i - 1 \in UpdatesOf(r)' /\ events'[i - 1].colour = c
    BY <1>2, <2>1
  <2> QED BY <2>2, <2>3 DEF WillShow
<1> QED BY <1>3, <1>4

\* The first update of r is taken and done.
LEMMA ShowsAfterUpdate ==
  ASSUME TreeTyped, NEW r, events # <<>>, events' = Tail(events),
         Head(events).kind = "update", Head(events).result = r, colour'[r] = Head(events).colour, NEW c,
         WillShow(r, c)
  PROVE  WillShow(r, c)'
<1>1. \A i \in UpdatesOf(r)' : i + 1 \in UpdatesOf(r) /\ events'[i] = events[i + 1] /\ i \in Int /\ i >= 1
  BY TakenEvent DEF UpdatesOf
<1>2. \A i \in UpdatesOf(r) : i \in Int /\ i >= 1
                               /\ (i # 1 => i - 1 \in UpdatesOf(r)' /\ events'[i - 1] = events[i])
  BY TakenEvent DEF UpdatesOf
<1>3. 1 \in UpdatesOf(r) /\ events[1] = Head(events)
  BY TakenEvent DEF UpdatesOf
<1>4. PICK i \in UpdatesOf(r) : events[i].colour = c /\ \A j \in UpdatesOf(r) : j <= i
  BY <1>3 DEF WillShow
<1>5. CASE i = 1
  <2>1. UpdatesOf(r)' = {}
    BY <1>1, <1>4, <1>5
  <2> QED BY <1>3, <1>4, <1>5, <2>1 DEF WillShow
<1>6. CASE i # 1
  <2>1. i - 1 \in UpdatesOf(r)' /\ events'[i - 1].colour = c
    BY <1>2, <1>4, <1>6
  <2>2. \A j \in UpdatesOf(r)' : j <= i - 1
    BY <1>1, <1>2, <1>4
  <2> QED BY <2>1, <2>2 DEF WillShow
<1> QED BY <1>5, <1>6

\* An update comes into the queue: it has the last word.
LEMMA ShowsLastWord ==
  ASSUME TreeTyped, NEW e \in Events, e.kind = "update", events' = Append(events, e)
  PROVE  WillShow(e.result, e.colour)'
<1> DEFINE n == Len(events) + 1
<1>1. n \in DOMAIN events' /\ events'[n] = e /\ \A j \in DOMAIN events' : j <= n
  BY AppendedEvent
<1> HIDE DEF n
<1>2. n \in UpdatesOf(e.result)' /\ \A j \in UpdatesOf(e.result)' : j <= n
  BY <1>1 DEF UpdatesOf
<1> QED BY <1>1, <1>2 DEF WillShow

\* How a step changes the queue, ...
LEMMA QueueSteps ==
  ASSUME IInv, TreeTyped, [Next]_vars
  PROVE  \/ events' = events
         \/ events # <<>> /\ events' = Tail(events)
         \/ \E e \in Events : events' = Append(events, e) /\ (e.kind = "update" => e.result \in observed)
<1>1. ASSUME NEW click \in Clicks, UserClicks(click)
      PROVE  click \in Events /\ events' = Append(events, click) /\ click.kind # "update"
  BY <1>1 DEF UserClicks, Events, Clicks
<1>2. Edt => events' = events \/ (events # <<>> /\ events' = Tail(events))
  BY DEF Edt, Refuse, OpenScript, RunScriptThrows, RunScript, ExportScriptResultXml, CreateNode, ShowNode,
     UpdateNode, Takes
<1>3. ASSUME NEW n \in Runs, RunStep(n) \/ ScriptDies(n) PROVE events' = events
  BY <1>3 DEF RunStep, ScriptDies, ClearResults, InitTree, Compile, ScriptEnds, OnComplete, ReturnXml
<1>4. ASSUME NEW n \in Runs, NEW r \in Results, AddResult(n, r)
      PROVE  /\ NodeToBeMade(r) \in Events /\ events' = Append(events, NodeToBeMade(r))
             /\ NodeToBeMade(r).kind # "update"
  BY <1>4 DEF AddResult, NodeToBeMade, Creations, Events
<1>5. ASSUME NEW r \in Results, NEW v \in Verdicts, Verdict(r, v)
      PROVE  events' = events \/ \E e \in Events : events' = Append(events, e) /\ e.result \in observed
  <2> DEFINE e == [kind |-> "update", result |-> r, colour |-> Colour[v]]
  <2>1. e \in Events /\ e.result = r
    BY ColourOf DEF Updates, Events, Verdicts, States
  <2>2. (r \in observed /\ events' = Append(events, e)) \/ events' = events
    BY <1>5 DEF Verdict, NodeTold
  <2> HIDE DEF e
  <2> QED BY <2>1, <2>2
<1>6. UNCHANGED vars => events' = events
  BY DEF vars
<1> QED BY <1>1, <1>2, <1>3, <1>4, <1>5, <1>6 DEF Next, Thread, Verdicting

\* ... and what is observed.
LEMMA ObservedSteps ==
  ASSUME IInv, TreeTyped, OrderIInv, UpdatesObserved, [Next]_vars
  PROVE  /\ observed \subseteq observed'
         /\ \A r \in observed' : state'[r] # "UNMADE"
<1>1. \A r \in Results : state[r] # "UNMADE" => state'[r] # "UNMADE"
  <2>1. ASSUME NEW click \in Clicks, UserClicks(click) PROVE state' = state
    BY <2>1 DEF UserClicks, resultVars
  <2>2. Edt => state' = state
    BY DEF Edt, Refuse, OpenScript, RunScriptThrows, RunScript, ExportScriptResultXml, CreateNode,
       ShowNode, UpdateNode, resultVars
  <2>3. ASSUME NEW n \in Runs, Thread(n)
        PROVE  \A r \in Results : state[r] # "UNMADE" => state'[r] # "UNMADE"
    <3>1. CASE RunStep(n) \/ ScriptDies(n)
      BY <3>1 DEF RunStep, ScriptDies, ClearResults, InitTree, Compile, ScriptEnds, OnComplete, ReturnXml,
         resultVars
    <3>2. ASSUME NEW q \in Results, AddResult(n, q)
          PROVE  \A r \in Results : state[r] # "UNMADE" => state'[r] # "UNMADE"
      BY <3>2 DEF AddResult, IInv, Typed
    <3> QED BY <2>3, <3>1, <3>2 DEF Thread
  <2>4. ASSUME NEW q \in Results, Verdicting(q)
        PROVE  \A r \in Results : state[r] # "UNMADE" => state'[r] # "UNMADE"
    BY <2>4 DEF Verdicting, Verdict, Verdicts, IInv, Typed
  <2>5. UNCHANGED vars => state' = state
    BY DEF vars, resultVars
  <2> QED BY <2>1, <2>2, <2>3, <2>4, <2>5 DEF Next
<1>2. observed' = observed \/ (ShowNode /\ observed' = observed \cup {inHand})
  BY DEF Next, Edt, Thread, RunStep, Verdicting, UserClicks, Refuse, OpenScript, RunScriptThrows, RunScript,
     ExportScriptResultXml, CreateNode, ShowNode, UpdateNode, ClearResults, InitTree, Compile, ScriptEnds,
     OnComplete, ReturnXml, ScriptDies, AddResult, Verdict, vars, nodeVars
<1>3. ShowNode => state[inHand] # "UNMADE"
  BY DEF ShowNode, OrderIInv, NodesAreMade, MadeOnce, IsMade
<1>4. observed \subseteq Results /\ inHand \in Results
  BY DEF TreeTyped
<1> QED BY <1>1, <1>2, <1>3, <1>4 DEF UpdatesObserved

LEMMA NextUpdatesObserved ==
  ASSUME IInv, TreeTyped, OrderIInv, UpdatesObserved, [Next]_vars PROVE UpdatesObserved'
<1> SUFFICES ASSUME NEW i \in DOMAIN events', events'[i].kind = "update" PROVE events'[i].result \in observed
  BY ObservedSteps DEF UpdatesObserved
<1>1. CASE events' = events
  BY <1>1 DEF UpdatesObserved
<1>2. CASE events # <<>> /\ events' = Tail(events)
  <2>1. i + 1 \in DOMAIN events /\ events'[i] = events[i + 1]
    BY <1>2, TakenEvent
  <2> QED BY <2>1 DEF UpdatesObserved
<1>3. ASSUME NEW e \in Events, events' = Append(events, e), e.kind = "update" => e.result \in observed
      PROVE  events'[i].result \in observed
  <2>1. (i \in DOMAIN events /\ events'[i] = events[i]) \/ events'[i] = e
    BY <1>3, AppendedEvent
  <2> QED BY <1>3, <2>1 DEF UpdatesObserved
<1> QED BY <1>1, <1>2, <1>3, QueueSteps

\* One place only makes a node show a wrong colour for good: the gap between the reading
\* of the state and the registration as its observer.
LEMMA StaleStep ==
  ASSUME IInv, TreeTyped, OrderIInv, UpdatesObserved, [Next]_vars, NEW r \in Results, ~Stale(r), Stale(r)'
  PROVE  edtPc = "creating" /\ inHand = r /\ seen # Colour[state[r]]
<1>0. PICK c : c = Colour[state'[r]]
  OBVIOUS
<1>1. r \in observed' /\ ~WillShow(r, c)'
  BY <1>0 DEF Stale, WillShow
<1>2. ASSUME r \in observed, state'[r] = state[r], WillShow(r, c) => WillShow(r, c)' PROVE FALSE
  BY <1>0, <1>1, <1>2 DEF Stale, WillShow
<1>3. ASSUME NEW click \in Clicks, UserClicks(click) PROVE FALSE
  <2>1. click \in Events /\ click.kind # "update"
    BY DEF Events, Clicks
  <2> QED BY <1>1, <1>2, <1>3, <2>1, ShowsAfterAppend DEF UserClicks, nodeVars, resultVars
<1>4. ASSUME NEW n \in Runs, Thread(n) PROVE FALSE
  <2>1. CASE RunStep(n) \/ ScriptDies(n)
    <3>1. UNCHANGED <<events, state, observed, colour>>
      BY <2>1 DEF RunStep, ScriptDies, ClearResults, InitTree, Compile, ScriptEnds, OnComplete, ReturnXml,
         resultVars, nodeVars
    <3> QED BY <1>1, <1>2, <3>1 DEF WillShow, UpdatesOf
  <2>2. ASSUME NEW q \in Results, AddResult(n, q) PROVE FALSE
    <3>1. /\ NodeToBeMade(q) \in Events /\ events' = Append(events, NodeToBeMade(q))
          /\ NodeToBeMade(q).kind # "update"
      BY <2>2 DEF AddResult, NodeToBeMade, Creations, Events
    <3>2. UNCHANGED <<observed, colour>> /\ state[q] = "UNMADE"
      BY <2>2 DEF AddResult, nodeVars
    <3>3. r \in observed
      BY <1>1, <3>2
    <3>4. q # r
      BY <3>2, <3>3 DEF UpdatesObserved
    <3>5. state'[r] = state[r]
      BY <2>2, <3>4 DEF AddResult, IInv, Typed
    <3> QED BY <1>2, <3>1, <3>2, <3>3, <3>5, ShowsAfterAppend
  <2> QED BY <1>4, <2>1, <2>2 DEF Thread
<1>5. ASSUME NEW q \in Results, NEW v \in Verdicts, Verdict(q, v) PROVE FALSE
  <2> DEFINE e == [kind |-> "update", result |-> q, colour |-> Colour[v]]
  <2>1. e \in Events /\ e.kind = "update" /\ e.result = q /\ e.colour = Colour[v]
    BY ColourOf DEF Updates, Events, Verdicts, States
  <2>2. /\ UNCHANGED <<observed, colour>> /\ state' = [state EXCEPT ![q] = v]
        /\ events' = IF q \notin observed THEN events ELSE Append(events, e)
    BY <1>5 DEF Verdict, NodeTold, nodeVars
  <2> HIDE DEF e
  <2>3. r \in observed
    BY <1>1, <2>2
  <2>4. CASE q = r
    <3>1. state'[r] = v
      BY <2>2, <2>4 DEF IInv, Typed
    <3>2. WillShow(r, Colour[v])'
      BY <2>1, <2>2, <2>3, <2>4, ShowsLastWord
    <3> QED BY <1>0, <1>1, <3>1, <3>2
  <2>5. CASE q # r
    <3>1. state'[r] = state[r]
      BY <2>2, <2>5 DEF IInv, Typed
    <3> QED BY <1>2, <2>1, <2>2, <2>3, <2>5, <3>1, ShowsAfterAppend
  <2> QED BY <2>4, <2>5
<1>6. ASSUME Refuse \/ OpenScript \/ RunScriptThrows \/ RunScript \/ ExportScriptResultXml \/ CreateNode
      PROVE  FALSE
  <2>1. /\ events # <<>> /\ events' = Tail(events) /\ Head(events).kind # "update"
        /\ UNCHANGED <<state, observed, colour>>
    BY <1>6 DEF Refuse, OpenScript, RunScriptThrows, RunScript, ExportScriptResultXml, CreateNode, Takes,
       resultVars, nodeVars
  <2> QED BY <1>1, <1>2, <2>1, ShowsAfterOther
<1>7. ASSUME UpdateNode PROVE FALSE
  <2>1. /\ events # <<>> /\ events' = Tail(events) /\ Head(events).kind = "update"
        /\ UNCHANGED <<state, observed>>
        /\ colour' = [colour EXCEPT ![Head(events).result] = Head(events).colour]
    BY <1>7 DEF UpdateNode, Takes, resultVars
  <2>2. Head(events).result \in Results /\ colour \in [Results -> Colours]
    BY <2>1, FirstEvent DEF TreeTyped
  <2>3. WillShow(r, c) => WillShow(r, c)'
    <3>1. CASE Head(events).result = r
      BY <2>1, <2>2, <3>1, ShowsAfterUpdate
    <3>2. CASE Head(events).result # r
      BY <2>1, <2>2, <3>2, ShowsAfterOther
    <3> QED BY <3>1, <3>2
  <2> QED BY <1>1, <1>2, <2>1, <2>3
<1>8. CASE ShowNode
  <2>1. /\ edtPc = "creating" /\ observed' = observed \cup {inHand}
        /\ colour' = [colour EXCEPT ![inHand] = seen] /\ UNCHANGED <<events, state>>
        /\ colour \in [Results -> Colours]
    BY <1>8 DEF ShowNode, resultVars, TreeTyped
  <2>2. UpdatesOf(r)' = UpdatesOf(r)
    BY <2>1 DEF UpdatesOf
  <2>3. CASE inHand # r
    <3>1. r \in observed /\ colour'[r] = colour[r]
      BY <1>1, <2>1, <2>3
    <3> QED BY <1>2, <2>1, <2>2, <3>1 DEF WillShow
  <2>4. CASE inHand = r
    <3>1. colour'[r] = seen
      BY <2>1, <2>4
    <3>2. CASE UpdatesOf(r) = {}
      BY <1>0, <1>1, <2>1, <2>2, <2>4, <3>1, <3>2 DEF WillShow
    <3>3. CASE UpdatesOf(r) # {}
      <4>1. r \in observed
        BY <3>3 DEF UpdatesObserved, UpdatesOf
      <4> QED BY <1>2, <2>1, <2>2, <3>3, <4>1 DEF WillShow
    <3> QED BY <3>2, <3>3
  <2> QED BY <2>3, <2>4
<1>9. UNCHANGED vars => FALSE
  BY <1>1, <1>2 DEF vars, nodeVars, resultVars, WillShow, UpdatesOf
<1> QED BY <1>3, <1>4, <1>5, <1>6, <1>7, <1>8, <1>9 DEF Next, Edt, Verdicting

\* A node shows a wrong colour for good only from its creation on: every later verdict
\* reaches it in order (NodeTold, UpdateNode).
THEOREM NodesGoStaleInOnePlace == Spec => StaleOnlyFromCreation
<1> DEFINE OnePlace == \A r \in Results : ~Stale(r) /\ Stale(r)' =>
                         edtPc = "creating" /\ inHand = r /\ seen # Colour[state[r]]
<1>1. Init => UpdatesObserved
  BY DEF Init, UpdatesObserved
<1>2. IInv /\ TreeTyped /\ TreeTyped' /\ OrderIInv /\ [Next]_vars => OrderIInv'
  BY NextOrder
<1>3. IInv /\ TreeTyped /\ OrderIInv /\ UpdatesObserved /\ [Next]_vars => UpdatesObserved'
  BY NextUpdatesObserved
<1>4. IInv /\ TreeTyped /\ OrderIInv /\ UpdatesObserved /\ [Next]_vars => [OnePlace]_vars
  BY StaleStep
<1> HIDE DEF OnePlace
<1>5. Spec => [][OnePlace]_vars
  BY InitIInv, InitTyped, InitOrder, NextIInv, NextTyped, <1>1, <1>2, <1>3, <1>4, PTL DEF Spec
<1> QED BY <1>5 DEF OnePlace, StaleOnlyFromCreation
--------------------------------------------------------------------------------
(* Results that are shown.                                                  *)

\* When the EDT has nothing left to do, the tree shows every result that its run added.
QueuedIsShown ==
  events = <<>> /\ edtPc = "idle" /\ suite # NoRun =>
    \A i \in DOMAIN made : runOf[made[i]] = suite =>
      \E k \in DOMAIN leaves : leaves[k] = made[i]

\* No interleaving of the run, which adds results and clears the tree, with the EDT loses
\* the node of a result of the run in the tree.
THEOREM NoResultIsLost == Spec => []QueuedIsShown
<1>1. ASSUME TreeTyped, OrderIInv, events = <<>>, edtPc = "idle", suite # NoRun,
             NEW i \in DOMAIN made, runOf[made[i]] = suite
      PROVE  \E k \in DOMAIN leaves : leaves[k] = made[i]
  <2>1. IsMade(made[i]) /\ made[i] \in Results
    BY <1>1 DEF IsMade, TreeTyped
  <2>2. HasNode(made[i])
    BY <1>1, <2>1 DEF OrderIInv, NoneLeftOut
  <2>3. DOMAIN events = {}
    BY <1>1
  <2> QED BY <1>1, <2>2, <2>3 DEF HasNode
<1>2. TreeTyped /\ OrderIInv => QueuedIsShown
  BY <1>1 DEF QueuedIsShown
<1>3. IInv /\ TreeTyped /\ TreeTyped' /\ OrderIInv /\ [Next]_vars => OrderIInv'
  BY NextOrder
<1> QED
  BY InitIInv, InitTyped, InitOrder, NextIInv, NextTyped, <1>2, <1>3, PTL DEF Spec
================================================================================
