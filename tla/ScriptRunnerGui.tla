---------------------------- MODULE ScriptRunnerGui ----------------------------
(***************************************************************************)
(* The graphical script runner: ScriptRunnerGui, ResultsTree,              *)
(* ResultTreeNode, TreeNodeFactory, and the calls ScriptRunner makes back. *)
(*                                                                         *)
(* Menu actions, and whatever is given to SwingUtilities.invokeLater, are  *)
(* events of one queue that the event dispatch thread (EDT) takes in       *)
(* order.  Run Script starts a thread that clears the tree, itself and not *)
(* through the EDT, compiles the script and runs it.  The results it adds  *)
(* come into the tree by events; the verdict of an asynchronous assertion  *)
(* is given by the Timer or an update thread at any moment in between.     *)
(* A dialog is taken to be answered before anything else happens.          *)
(***************************************************************************)
EXTENDS Integers, Sequences, FiniteSets, SequencesExt

CONSTANTS
  Scripts,       \* the script files, the initial dummy.opc.test among them
  Dummy,         \* the file the GUI is created with
  Unreadable,    \* scripts whose text cannot be read
  Uncompilable,  \* scripts that Eval rejects
  Fatal,         \* scripts that may throw an Error (a failed assert is one), or
                 \* whose client's cleanUp throws (UaSession, ToInitial)
  Results,       \* the results that scripts add
  Async,         \* those of asynchronous assertions
  MaxRuns,       \* bound: threads started by Run Script
  MaxClicks,     \* bound: menu actions of the user
  MaxUpdates     \* bound: updates of a node in the queue

ASSUME GuiAssumption ==
  /\ Dummy \in Scripts
  /\ Unreadable \cup Uncompilable \cup Fatal \subseteq Scripts
  /\ Async \subseteq Results
  /\ MaxRuns \in Nat
  /\ MaxClicks \in Nat
  /\ MaxUpdates \in Nat \ {0}

NoRun == 0
Runs == 1..MaxRuns
States == {"UNMADE", "WAITING", "PASSED", "FAILED"}
Verdicts == {"PASSED", "FAILED"}

\* getNodeColourFromXml: incomplete, success and failure elements.
Colour == [WAITING |-> "ORANGE", PASSED |-> "GREEN", FAILED |-> "RED", UNMADE |-> "NONE"]
Colours == {Colour[s] : s \in States}

VARIABLES
  clicks,           \* how many menu actions there were
  events,           \* the queue of the EDT
  edtPc,            \* the EDT is idle or between toXml and addObserver
  inHand,           \* the result the EDT makes a node for, and ...
  seen,             \* ... the colour toXml gave
  scriptFile,       \* ScriptRunnerGui.scriptFile
  scriptIsRunning,  \* ScriptRunnerGui.scriptIsRunning
  resultXml,        \* scriptResultXml: the run it came from
  exported,         \* the run whose XML was exported last
  run,              \* the number of threads started
  threadPc,         \* threadPc[n]: where the thread of run n is
  script,           \* script[n]: the file run n was started with
  state,            \* state[r]: the state of result r
  made,             \* the results in the order the runs added them
  runOf,            \* runOf[r]: the run that added r
  observed,         \* the results observed by their node
  suite,            \* the run whose testsuite node is in the tree
  leaves,           \* the nodes under it
  colour            \* colour[r]: the colour of the node of r

edtVars == <<edtPc, inHand, seen>>
fileVars == <<scriptFile, exported>>
runVars == <<run, threadPc, script>>
resultVars == <<state, made, runOf>>
nodeVars == <<observed, colour>>
treeVars == <<suite, leaves>>
vars == <<clicks, events, edtVars, fileVars, scriptIsRunning, resultXml, runVars,
          resultVars, nodeVars, treeVars>>

Clicks == [kind : {"run", "export"}] \cup [kind : {"open"}, file : Scripts]
Creations == [kind : {"create"}, result : Results]
Updates == [kind : {"update"}, result : Results, colour : Colours]

ThreadStates == {"unborn", "clearing", "initing", "compiling", "running", "completing",
                 "returning", "done", "dead"}

TypeOK ==
  /\ clicks \in 0..MaxClicks
  /\ events \in Seq(Clicks \cup Creations \cup Updates)
  /\ edtPc \in {"idle", "creating"}
  /\ inHand \in Results
  /\ seen \in Colours
  /\ scriptFile \in Scripts
  /\ scriptIsRunning \in BOOLEAN
  /\ resultXml \in 0..run
  /\ exported \in 0..run
  /\ run \in 0..MaxRuns
  /\ threadPc \in [Runs -> ThreadStates]
  /\ script \in [Runs -> Scripts]
  /\ state \in [Results -> States]
  /\ made \in Seq(Results)
  /\ runOf \in [Results -> 0..run]
  /\ observed \subseteq Results
  /\ suite \in 0..run
  /\ leaves \in Seq(Results)
  /\ colour \in [Results -> Colours]

Init ==
  /\ clicks = 0
  /\ events = <<>>
  /\ edtPc = "idle"
  /\ inHand \in Results
  /\ seen = "NONE"
  /\ scriptFile = Dummy
  /\ scriptIsRunning = FALSE
  /\ resultXml = NoRun
  /\ exported = NoRun
  /\ run = 0
  /\ threadPc = [n \in Runs |-> "unborn"]
  /\ script = [n \in Runs |-> Dummy]
  /\ state = [r \in Results |-> "UNMADE"]
  /\ made = <<>>
  /\ runOf = [r \in Results |-> NoRun]
  /\ observed = {}
  /\ suite = NoRun
  /\ leaves = <<>>
  /\ colour = [r \in Results |-> "NONE"]

--------------------------------------------------------------------------------
(* The user, and the menu actions on the EDT.                               *)

UserClicks(click) ==
  /\ clicks < MaxClicks
  /\ clicks' = clicks + 1
  /\ events' = Append(events, click)
  /\ UNCHANGED <<edtVars, fileVars, scriptIsRunning, resultXml, runVars, resultVars,
                 nodeVars, treeVars>>

\* The EDT is done with one event and takes the next.
Takes(kind) ==
  /\ edtPc = "idle"
  /\ events # <<>>
  /\ Head(events).kind = kind
  /\ events' = Tail(events)

\* Every menu action is refused, with a message, while a script runs.
Refuse ==
  /\ Takes("run") \/ Takes("open") \/ Takes("export")
  /\ scriptIsRunning
  /\ UNCHANGED <<clicks, edtVars, fileVars, scriptIsRunning, resultXml, runVars,
                 resultVars, nodeVars, treeVars>>

OpenScript ==
  /\ Takes("open")
  /\ ~scriptIsRunning
  /\ scriptFile' = Head(events).file
  /\ UNCHANGED <<clicks, edtVars, exported, scriptIsRunning, resultXml, runVars,
                 resultVars, nodeVars, treeVars>>

\* showScript throws: the flag is set, and there is no thread to clear it.
RunScriptThrows ==
  /\ Takes("run")
  /\ ~scriptIsRunning
  /\ scriptFile \in Unreadable
  /\ scriptIsRunning' = TRUE
  /\ resultXml' = NoRun
  /\ UNCHANGED <<clicks, edtVars, fileVars, runVars, resultVars, nodeVars, treeVars>>

RunScript ==
  /\ Takes("run")
  /\ ~scriptIsRunning
  /\ scriptFile \notin Unreadable
  /\ run < MaxRuns
  /\ scriptIsRunning' = TRUE
  /\ resultXml' = NoRun
  /\ run' = run + 1
  /\ threadPc' = [threadPc EXCEPT ![run'] = "clearing"]
  /\ script' = [script EXCEPT ![run'] = scriptFile]
  /\ UNCHANGED <<clicks, edtVars, fileVars, resultVars, nodeVars, treeVars>>

\* 'no results to export...', or the XML is written to a file.
ExportScriptResultXml ==
  /\ Takes("export")
  /\ ~scriptIsRunning
  /\ exported' = IF resultXml = NoRun THEN exported ELSE resultXml
  /\ UNCHANGED <<clicks, edtVars, scriptFile, scriptIsRunning, resultXml, runVars,
                 resultVars, nodeVars, treeVars>>

--------------------------------------------------------------------------------
(* The thread of a run: the closure of runScript, ScriptRunner.runScript.   *)

RunGoes(n, from, to) == threadPc[n] = from /\ threadPc' = [threadPc EXCEPT ![n] = to]

\* The old testsuite node leaves the tree with its leaves.
ClearResults(n) ==
  /\ RunGoes(n, "clearing", "initing")
  /\ suite' = NoRun
  /\ leaves' = <<>>
  /\ UNCHANGED <<clicks, events, edtVars, fileVars, scriptIsRunning, resultXml, run, script,
                 resultVars, nodeVars>>

\* Mutation: the tree gets no testsuite node.
InitTreeForgotten(n) ==
  /\ RunGoes(n, "initing", "compiling")
  /\ UNCHANGED <<clicks, events, edtVars, fileVars, scriptIsRunning, resultXml, run, script,
                 resultVars, nodeVars, treeVars>>

InitTree(n) ==
  /\ RunGoes(n, "initing", "compiling")
  /\ suite' = n
  /\ UNCHANGED <<clicks, events, edtVars, fileVars, scriptIsRunning, resultXml, run, script,
                 resultVars, nodeVars, leaves>>

\* Eval.me compiles the script or throws, which ends the thread.
Compile(n) ==
  /\ RunGoes(n, "compiling", IF script[n] \in Uncompilable THEN "dead" ELSE "running")
  /\ UNCHANGED <<clicks, events, edtVars, fileVars, scriptIsRunning, resultXml, run, script,
                 resultVars, nodeVars, treeVars>>

\* An asynchronous assertion waits at first (a verdict given before it is added
\* is one before its event is taken), every other result has its verdict.
StatesWhenMade(r) == IF r \in Async THEN {"WAITING"} ELSE Verdicts

\* ResultsTree.update observes the results: making the node is put off to the EDT.
NodeToBeMade(r) == [kind |-> "create", result |-> r]

\* Mutation: results are put in front of what waits.
AddResultFirst(n, r) ==
  /\ threadPc[n] = "running"
  /\ state[r] = "UNMADE"
  /\ state' \in {[state EXCEPT ![r] = s] : s \in StatesWhenMade(r)}
  /\ made' = Append(made, r)
  /\ runOf' = [runOf EXCEPT ![r] = n]
  /\ events' = <<NodeToBeMade(r)>> \o events
  /\ UNCHANGED <<clicks, edtVars, fileVars, scriptIsRunning, resultXml, runVars,
                 nodeVars, treeVars>>

\* RunResults.add.
AddResult(n, r) ==
  /\ threadPc[n] = "running"
  /\ state[r] = "UNMADE"
  /\ state' \in {[state EXCEPT ![r] = s] : s \in StatesWhenMade(r)}
  /\ made' = Append(made, r)
  /\ runOf' = [runOf EXCEPT ![r] = n]
  /\ events' = Append(events, NodeToBeMade(r))
  /\ UNCHANGED <<clicks, edtVars, fileVars, scriptIsRunning, resultXml, runVars,
                 nodeVars, treeVars>>

\* An Error passes the catch of the script, an exception of cleanUp comes after it:
\* the thread ends.
ScriptDies(n) ==
  /\ RunGoes(n, "running", "dead")
  /\ script[n] \in Fatal
  /\ UNCHANGED <<clicks, events, edtVars, fileVars, scriptIsRunning, resultXml, run, script,
                 resultVars, nodeVars, treeVars>>

Decided(n) == \A r \in Results : runOf[r] = n => state[r] \in Verdicts

\* Mutation: the end of the script waits for nothing.
ScriptEndsAtOnce(n) ==
  /\ RunGoes(n, "running", "completing")
  /\ UNCHANGED <<clicks, events, edtVars, fileVars, scriptIsRunning, resultXml, run, script,
                 resultVars, nodeVars, treeVars>>

\* The script returns, and onScriptEnd waited for every asynchronous assertion
\* (AsyncConditions, EndedMeansDecided).
ScriptEnds(n) ==
  /\ RunGoes(n, "running", "completing")
  /\ Decided(n)
  /\ UNCHANGED <<clicks, events, edtVars, fileVars, scriptIsRunning, resultXml, run, script,
                 resultVars, nodeVars, treeVars>>

\* Mutation: the callback is not called.
OnCompleteForgotten(n) ==
  /\ RunGoes(n, "completing", "returning")
  /\ UNCHANGED <<clicks, events, edtVars, fileVars, scriptIsRunning, resultXml, run, script,
                 resultVars, nodeVars, treeVars>>

OnComplete(n) ==
  /\ RunGoes(n, "completing", "returning")
  /\ scriptIsRunning' = FALSE
  /\ UNCHANGED <<clicks, events, edtVars, fileVars, resultXml, run, script,
                 resultVars, nodeVars, treeVars>>

\* runScript returns context.XML and the thread assigns it.
ReturnXml(n) ==
  /\ RunGoes(n, "returning", "done")
  /\ resultXml' = n
  /\ UNCHANGED <<clicks, events, edtVars, fileVars, scriptIsRunning, run, script,
                 resultVars, nodeVars, treeVars>>

--------------------------------------------------------------------------------
(* Verdicts, and the nodes that observe them.                               *)

\* The places in the queue of the updates of the node of r.
UpdatesOf(r) == {i \in DOMAIN events : events[i].kind = "update" /\ events[i].result = r}

\* ResultTreeNode.update: a node that observes r puts its recolouring off to the EDT.
NodeTold(r, s) ==
  IF r \notin observed THEN events
  ELSE Append(events, [kind |-> "update", result |-> r, colour |-> Colour[s]])

\* Mutation: a node is told the state it had before.
VerdictToldLate(r, v) ==
  /\ r \in Async
  /\ state[r] \notin {"UNMADE", v}
  /\ threadPc[runOf[r]] \in {"running", "dead"}
  /\ Cardinality(UpdatesOf(r)) < MaxUpdates
  /\ state' = [state EXCEPT ![r] = v]
  /\ events' = NodeTold(r, state[r])
  /\ UNCHANGED <<clicks, edtVars, fileVars, scriptIsRunning, resultXml, runVars, made, runOf,
                 nodeVars, treeVars>>

\* setState: an observer, if there is one by now, is given the XML of the new
\* state.  A verdict may be revised until its condition is removed, which is
\* before the run ends (AsyncConditions, RemovedVerdictIsFinal).
Verdict(r, v) ==
  /\ r \in Async
  /\ state[r] \notin {"UNMADE", v}
  /\ threadPc[runOf[r]] \in {"running", "dead"}
  /\ Cardinality(UpdatesOf(r)) < MaxUpdates
  /\ state' = [state EXCEPT ![r] = v]
  /\ events' = NodeTold(r, v)
  /\ UNCHANGED <<clicks, edtVars, fileVars, scriptIsRunning, resultXml, runVars, made, runOf,
                 nodeVars, treeVars>>

\* ResultsTree.update on the EDT, first part: createNode reads the result.
CreateNode ==
  /\ Takes("create")
  /\ edtPc' = "creating"
  /\ inHand' = Head(events).result
  /\ seen' = Colour[state[inHand']]
  /\ UNCHANGED <<clicks, fileVars, scriptIsRunning, resultXml, runVars, resultVars,
                 nodeVars, treeVars>>

\* The node is added to the testsuite that is in the tree now; without one it is
\* dropped with a message.
AddNode(r) == leaves' = IF suite = NoRun THEN leaves ELSE Append(leaves, r)

\* Second part: the node observes the result and is added to the tree.
ShowNode ==
  /\ edtPc = "creating"
  /\ edtPc' = "idle"
  /\ observed' = observed \cup {inHand}
  /\ colour' = [colour EXCEPT ![inHand] = seen]
  /\ AddNode(inHand)
  /\ UNCHANGED <<clicks, events, inHand, seen, fileVars, scriptIsRunning, resultXml,
                 runVars, resultVars, suite>>

\* updateNode recolours the node; of a node that has left the tree the cast of
\* its root then throws, which ends the event.
UpdateNode ==
  /\ Takes("update")
  /\ colour' = [colour EXCEPT ![Head(events).result] = Head(events).colour]
  /\ UNCHANGED <<clicks, edtVars, fileVars, scriptIsRunning, resultXml, runVars,
                 resultVars, observed, treeVars>>

--------------------------------------------------------------------------------
Edt == \/ Refuse \/ OpenScript \/ RunScriptThrows \/ RunScript \/ ExportScriptResultXml
       \/ CreateNode \/ ShowNode \/ UpdateNode

\* What a thread does whatever its script is about.
RunStep(n) == \/ ClearResults(n) \/ InitTree(n) \/ Compile(n) \/ ScriptEnds(n)
               \/ OnComplete(n) \/ ReturnXml(n)

Thread(n) == RunStep(n) \/ ScriptDies(n) \/ \E r \in Results : AddResult(n, r)

Verdicting(r) == \E v \in Verdicts : Verdict(r, v)

Next ==
  \/ \E click \in Clicks : UserClicks(click)
  \/ Edt
  \/ \E n \in Runs : Thread(n)
  \/ \E r \in Results : Verdicting(r)

Spec == Init /\ [][Next]_vars

\* The EDT and the threads keep running, and a waiting assertion gets a verdict
\* (AsyncConditions, EveryAssertionDecided).  Nothing makes the user click or a
\* script add a result.
FairSpec ==
  /\ Spec
  /\ WF_vars(Edt)
  /\ \A n \in Runs : WF_vars(RunStep(n))
  /\ \A r \in Results : WF_vars(state[r] = "WAITING" /\ Verdicting(r))

--------------------------------------------------------------------------------
(* Properties.                                                              *)

MadeBefore(q, r) ==
  \E j \in DOMAIN made : made[j] = r /\ \E i \in 1..(j - 1) : made[i] = q

\* The leaves of the run in the tree are the results it added, in order, as far
\* as the EDT has got, whatever else is done with the tree meanwhile: no result is there
\* twice, and before a leaf comes whatever its run added before it.
LeavesInOrder ==
  /\ IsInjective(leaves)
  /\ \A j \in DOMAIN leaves : runOf[leaves[j]] = suite =>
       \A q \in Results : runOf[q] = suite /\ MadeBefore(q, leaves[j])
                            => \E i \in 1..(j - 1) : leaves[i] = q

\* The node of r will show c when the events now queued are done.
WillShow(r, c) ==
  IF UpdatesOf(r) = {} THEN colour[r] = c
  ELSE \E i \in UpdatesOf(r) : events[i].colour = c /\ \A j \in UpdatesOf(r) : j <= i

Stale(r) == r \in observed /\ ~WillShow(r, Colour[state[r]])

\* A node goes wrong for good in one place only: it begins to observe its result
\* when the state that was read for it has changed in the meantime.
StaleOnlyFromCreation ==
  [][\A r \in Results : ~Stale(r) /\ Stale(r)' =>
        edtPc = "creating" /\ inHand = r /\ seen # Colour[state[r]]]_vars

\* What was exported stays true: every result of that run had its verdict, and no verdict
\* of the run is revised after it was exported.
ExportIsFinal ==
  [][exported # NoRun =>
       \A r \in Results : runOf[r] = exported => state[r] \in Verdicts /\ state'[r] = state[r]]_vars

\* Every result comes into the tree unless the next run has cleared it.
EveryResultShown ==
  \A r \in Results :
    r \in ToSet(made) ~> r \in ToSet(leaves) \/ run > runOf[r]

\* The GUI is given back after every run that throws nothing: what is left with the flag set
\* is a script whose text could not be read, or whose thread died of an exception.
RunEndsOrThrows ==
  scriptIsRunning ~> \/ ~scriptIsRunning
                     \/ scriptFile \in Unreadable
                     \/ \E n \in Runs : threadPc[n] = "dead"
================================================================================
