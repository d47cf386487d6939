---------------------------- MODULE AsyncConditions ----------------------------
(***************************************************************************)
(* The asynchronous assertions of the test DSL: AsyncConditionManager, the *)
(* AssertAsync*RunResult classes, AsyncTicker, and the part of RunResults  *)
(* that registers assertions and waits for them when the script ends.      *)
(*                                                                         *)
(* Three kinds of thread meet here: the script thread, the Timer thread of *)
(* AsyncTicker and the threads that hand item updates to the manager.  One *)
(* action is one synchronized(asyncConditions) block (with the code before *)
(* it that no other thread can observe): what the code does under one hold *)
(* of the lock is one step, what it does under two is two.                 *)
(***************************************************************************)
EXTENDS Integers

CONSTANTS
  Conditions,   \* the asynchronous assertions the script may make
  Paths,        \* the item paths that updates are received for
  NoPath,       \* a null or empty item path
  Contents,     \* what an update or an assertion is about: values and qualities
  NoUpdate,     \* "no update recorded"
  Kind,         \* Kind[c]: which AssertAsync*RunResult class c is
  ItemPath,     \* ItemPath[c]: the item path c was made on
  Expected,     \* Expected[c]: the (anti-)expected value or the quality
  Timeout,      \* Timeout[c]: in ticks (seconds)
  Updaters      \* the threads that call AsyncConditionManager.onUpdate

Kinds == {"Equals", "NotEquals", "Quality"}

Updates == [path : Paths, value : Contents, quality : Contents]

ASSUME ConditionsAssumption ==
  /\ Kind \in [Conditions -> Kinds]
  /\ ItemPath \in [Conditions -> Paths \cup {NoPath}]
  /\ Expected \in [Conditions -> Contents]
  /\ Timeout \in [Conditions -> Int]
  /\ NoPath \notin Paths
  /\ NoUpdate \notin Updates

VARIABLES
  state,        \* state[c]: AssertAsyncRunResult.state
  elapsedWait,  \* elapsedWait[c]: AssertAsyncRunResult.elapsedWait
  evidence,     \* evidence[c]: theSuccessfulUpdate, theFailedUpdate
  registered,   \* the conditions in AsyncConditionManager.asyncConditions
  results,      \* RunResults.results, as the set of its asynchronous entries
  xml,          \* xml[c]: the state of c in the exported results
  ticking,      \* AsyncTicker.timer is running
  scriptPc,     \* where the script thread is
  tickerPc,     \* where the Timer thread is
  updaterPc     \* updaterPc[t]: where update thread t is

conditionVars == <<state, elapsedWait, evidence>>
vars == <<state, elapsedWait, evidence, registered, results, xml, ticking,
          scriptPc, tickerPc, updaterPc>>

States == {"CREATED", "WAITING", "PASSED", "FAILED"}
Verdicts == {"PASSED", "FAILED"}

\* The phases of the script thread after the loop of onScriptEnd.
AfterLoop == {"stopping", "removing", "timingOut", "cleaning", "exporting", "done", "left"}

TypeOK ==
  /\ state \in [Conditions -> States]
  /\ elapsedWait \in [Conditions -> Nat]
  /\ evidence \in [Conditions -> Updates \cup {NoUpdate}]
  /\ registered \subseteq Conditions
  /\ results \subseteq Conditions
  /\ xml \in [Conditions -> States \cup {"absent"}]
  /\ ticking \in BOOLEAN
  /\ scriptPc \in {"new", "running", "adding", "ending", "snoozing", "dead"} \cup AfterLoop
  /\ tickerPc \in {"idle", "fired", "counted"}
  /\ updaterPc \in [Updaters -> {"idle", "checked"}]

Init ==
  /\ state = [c \in Conditions |-> "CREATED"]
  /\ elapsedWait = [c \in Conditions |-> 0]
  /\ evidence = [c \in Conditions |-> NoUpdate]
  /\ registered = {}
  /\ results = {}
  /\ xml = [c \in Conditions |-> "absent"]
  /\ ticking = FALSE
  /\ scriptPc = "new"
  /\ tickerPc = "idle"
  /\ updaterPc = [t \in Updaters |-> "idle"]

--------------------------------------------------------------------------------
(* The rules of one condition.                                              *)

\* isValidCondition: the manager silently refuses a null or empty item path.
Valid(c) == ItemPath[c] # NoPath

\* timedOut(): no update has decided the assertion, whatever its state is now.
TimeoutVerdict(c) == IF Kind[c] = "Equals" THEN "FAILED" ELSE "PASSED"

\* checkUpdate(): an update that meets an Equals, or breaks the other kinds.
Decisive(c, u) ==
  /\ u.path = ItemPath[c]
  /\ IF Kind[c] = "Quality" THEN u.quality # Expected[c] ELSE u.value = Expected[c]

UpdateVerdict(c) == IF Kind[c] = "Equals" THEN "PASSED" ELSE "FAILED"

\* Mutation: the wait is compared one tick too early.
ExpiresTickEarly(c) == elapsedWait[c] + 2 >= Timeout[c]

\* onTick(): the wait is counted first, then compared with the timeout.
Expires(c) == elapsedWait[c] + 1 >= Timeout[c]

\* removeNonWaitingAsyncConditions, called by every thread after its block.
StillWaiting == {c \in registered : state[c] = "WAITING"}

--------------------------------------------------------------------------------
(* The script thread: ScriptRunner.runScriptClosure and RunResults.         *)

ScriptGoes(from, to) == scriptPc = from /\ scriptPc' = to

OnScriptStart ==
  /\ ScriptGoes("new", "running")
  /\ ticking' = TRUE
  /\ UNCHANGED <<conditionVars, registered, results, xml, tickerPc, updaterPc>>

\* addAsyncAssertion, first half: registerWithManager.
AssertAsync(c) ==
  /\ ScriptGoes("running", "adding")
  /\ state[c] = "CREATED"
  /\ state' = [state EXCEPT ![c] = "WAITING"]
  /\ registered' = IF Valid(c) THEN registered \cup {c} ELSE registered
  /\ UNCHANGED <<elapsedWait, evidence, results, xml, ticking, tickerPc, updaterPc>>

\* addAsyncAssertion, second half: add, by which time c may have its verdict.
AddResult(c) ==
  /\ ScriptGoes("adding", "running")
  /\ state[c] # "CREATED" /\ c \notin results
  /\ results' = results \cup {c}
  /\ UNCHANGED <<conditionVars, registered, xml, ticking, tickerPc, updaterPc>>

\* Mutation: the timer is cancelled before the wait.
ScriptReturnsStopsTicker ==
  /\ ScriptGoes("running", "ending")
  /\ ticking' = FALSE
  /\ UNCHANGED <<conditionVars, registered, results, xml, tickerPc, updaterPc>>

\* The script's closure returns, normally or through its catch of Exception.
ScriptReturns ==
  /\ ScriptGoes("running", "ending")
  /\ UNCHANGED <<conditionVars, registered, results, xml, ticking, tickerPc, updaterPc>>

\* Mutation: the timer is cancelled when the script dies.
ScriptDiesStopsTicker ==
  /\ ScriptGoes("running", "dead")
  /\ ticking' = FALSE
  /\ UNCHANGED <<conditionVars, registered, results, xml, tickerPc, updaterPc>>

\* An Error passes the catch of the closure: onScriptEnd is never called.
ScriptDies ==
  /\ ScriptGoes("running", "dead")
  /\ UNCHANGED <<conditionVars, registered, results, xml, ticking, tickerPc, updaterPc>>

\* The loop of onScriptEnd: sleep while conditions are registered ...
Snooze ==
  /\ registered # {}
  /\ ScriptGoes("ending", "snoozing")
  /\ UNCHANGED <<conditionVars, registered, results, xml, ticking, tickerPc, updaterPc>>

WakeUp ==
  /\ ScriptGoes("snoozing", "ending")
  /\ UNCHANGED <<conditionVars, registered, results, xml, ticking, tickerPc, updaterPc>>

\* Mutation: onScriptEnd does not wait.
LeaveLoopAtOnce ==
  /\ ScriptGoes("ending", "stopping")
  /\ UNCHANGED <<conditionVars, registered, results, xml, ticking, tickerPc, updaterPc>>

LeaveLoop ==
  /\ registered = {}
  /\ ScriptGoes("ending", "stopping")
  /\ UNCHANGED <<conditionVars, registered, results, xml, ticking, tickerPc, updaterPc>>

\* ... then stopTicking: cancel the timer, remove, time out what is left.
StopTicker ==
  /\ ScriptGoes("stopping", "removing")
  /\ ticking' = FALSE
  /\ UNCHANGED <<conditionVars, registered, results, xml, tickerPc, updaterPc>>

StopRemoves ==
  /\ ScriptGoes("removing", "timingOut")
  /\ registered' = StillWaiting
  /\ UNCHANGED <<conditionVars, results, xml, ticking, tickerPc, updaterPc>>

\* Mutation: the end of the script times out every assertion in the results.
StopTimesOutResults ==
  /\ ScriptGoes("timingOut", "cleaning")
  /\ state' = [c \in Conditions |->
                 IF c \in results THEN TimeoutVerdict(c) ELSE state[c]]
  /\ UNCHANGED <<elapsedWait, evidence, registered, results, xml, ticking,
                 tickerPc, updaterPc>>

StopTimesOut ==
  /\ ScriptGoes("timingOut", "cleaning")
  /\ state' = [c \in Conditions |->
                 IF c \in registered THEN TimeoutVerdict(c) ELSE state[c]]
  /\ UNCHANGED <<elapsedWait, evidence, registered, results, xml, ticking,
                 tickerPc, updaterPc>>

\* client.cleanUp(); update threads may still be inside onUpdate.  An exception of it
\* (a UA session that was never connected has nothing to stop) is caught by nobody
\* and leaves runScript before the XML is built.
CleanUp ==
  /\ ScriptGoes("cleaning", "exporting") \/ ScriptGoes("cleaning", "left")
  /\ UNCHANGED <<conditionVars, registered, results, xml, ticking, tickerPc, updaterPc>>

\* runScript returns context.XML, built from the results as they are now.
ExportXml ==
  /\ ScriptGoes("exporting", "done")
  /\ xml' = [c \in Conditions |-> IF c \in results THEN state[c] ELSE "absent"]
  /\ UNCHANGED <<conditionVars, registered, results, ticking, tickerPc, updaterPc>>

--------------------------------------------------------------------------------
(* The Timer thread.  Cancelling the timer does not stop a task under way.  *)

TickerGoes(from, to) == tickerPc = from /\ tickerPc' = to

TickFires ==
  /\ ticking
  /\ TickerGoes("idle", "fired")
  /\ UNCHANGED <<conditionVars, registered, results, xml, ticking, scriptPc, updaterPc>>

\* onTick, under the lock: every registered condition, whatever its state.
TickCounts ==
  /\ TickerGoes("fired", "counted")
  /\ elapsedWait' = [c \in Conditions |->
                       IF c \in registered THEN elapsedWait[c] + 1 ELSE elapsedWait[c]]
  /\ state' = [c \in Conditions |->
                 IF c \in registered /\ Expires(c) THEN TimeoutVerdict(c) ELSE state[c]]
  /\ UNCHANGED <<evidence, registered, results, xml, ticking, scriptPc, updaterPc>>

TickRemoves ==
  /\ TickerGoes("counted", "idle")
  /\ registered' = StillWaiting
  /\ UNCHANGED <<conditionVars, results, xml, ticking, scriptPc, updaterPc>>

--------------------------------------------------------------------------------
(* A thread that delivers updates.                                          *)

UpdaterGoes(t, from, to) ==
  updaterPc[t] = from /\ updaterPc' = [updaterPc EXCEPT ![t] = to]

\* Mutation: an update is checked by the conditions of every item path.
UpdateChecksAllPaths(t, u) ==
  LET decided == {c \in registered : Decisive(c, [u EXCEPT !.path = ItemPath[c]])} IN
  /\ UpdaterGoes(t, "idle", "checked")
  /\ state' = [c \in Conditions |-> IF c \in decided THEN UpdateVerdict(c) ELSE state[c]]
  /\ evidence' = [c \in Conditions |-> IF c \in decided THEN u ELSE evidence[c]]
  /\ UNCHANGED <<elapsedWait, registered, results, xml, ticking, scriptPc, tickerPc>>

\* asyncUpdate, under the lock: every condition of the path, whatever its state.
UpdateChecks(t, u) ==
  LET decided == {c \in registered : Decisive(c, u)} IN
  /\ UpdaterGoes(t, "idle", "checked")
  /\ state' = [c \in Conditions |-> IF c \in decided THEN UpdateVerdict(c) ELSE state[c]]
  /\ evidence' = [c \in Conditions |-> IF c \in decided THEN u ELSE evidence[c]]
  /\ UNCHANGED <<elapsedWait, registered, results, xml, ticking, scriptPc, tickerPc>>

UpdateRemoves(t) ==
  /\ UpdaterGoes(t, "checked", "idle")
  /\ registered' = StillWaiting
  /\ UNCHANGED <<conditionVars, results, xml, ticking, scriptPc, tickerPc>>

--------------------------------------------------------------------------------
Script ==
  \/ OnScriptStart
  \/ \E c \in Conditions : AssertAsync(c) \/ AddResult(c)
  \/ ScriptReturns \/ ScriptDies
  \/ Snooze \/ WakeUp \/ LeaveLoop
  \/ StopTicker \/ StopRemoves \/ StopTimesOut \/ CleanUp \/ ExportXml

Ticker == TickFires \/ TickCounts \/ TickRemoves

Updater(t) == (\E u \in Updates : UpdateChecks(t, u)) \/ UpdateRemoves(t)

Next == Script \/ Ticker \/ \E t \in Updaters : Updater(t)

(***************************************************************************)
(* The JVM schedules the script thread and the Timer thread, and a thread  *)
(* inside onUpdate finishes it.  Nothing makes an update arrive.           *)
(***************************************************************************)
Fairness ==
  /\ WF_vars(Script)
  /\ WF_vars(Ticker)
  /\ \A t \in Updaters : WF_vars(UpdateRemoves(t))

Spec == Init /\ [][Next]_vars /\ Fairness

--------------------------------------------------------------------------------
(* Properties.                                                              *)

\* No assertion is lost: while an assertion on a valid path waits, the manager
\* holds it, whichever threads are removing decided conditions meanwhile
\* (registerAsyncCondition against removeNonWaitingAsyncConditions).
NoAssertionLost ==
  \A c \in Conditions : state[c] = "WAITING" /\ Valid(c) => c \in registered

\* A verdict that only an update can give (an Equals passes, another kind fails)
\* comes with the update that decided it, so that the timestamp and the quality
\* toXml prints are never 'NULL TIMESTAMP' or another item's.
VerdictHasEvidence ==
  \A c \in Conditions :
    state[c] \in Verdicts /\ state[c] = UpdateVerdict(c)
      => evidence[c] \in Updates /\ Decisive(c, evidence[c])

\* A verdict that only the passing of time gives (an Equals fails, another kind
\* passes) is never given before the assertion saw its timeout's worth of ticks:
\* the timing out of "the remaining conditions" in stopTicking cuts none short.
TimeoutVerdictIsDue ==
  \A c \in Conditions :
    state[c] \in Verdicts /\ state[c] = TimeoutVerdict(c)
      => elapsedWait[c] >= Timeout[c]

\* When onScriptEnd has left its loop, every assertion made on a valid path has
\* its verdict and is in the results, whatever the Timer and the update threads
\* are still in the middle of.
EndedMeansDecided ==
  scriptPc \in AfterLoop =>
    \A c \in Conditions :
      state[c] # "CREATED" => c \in results /\ (Valid(c) => state[c] \in Verdicts)

\* The exported XML stays true: no late tick or update changes an assertion
\* after runScript has built the XML, and no assertion is missing from it.
XmlStaysTrue ==
  scriptPc = "done" =>
    \A c \in Conditions :
      xml[c] = IF state[c] = "CREATED" THEN "absent" ELSE state[c]

\* A verdict changes only between the block that gave it and the removal of its
\* condition: once the manager has dropped a decided condition, no tick, update
\* or script end touches the verdict again.
RemovedVerdictIsFinal ==
  [][\A c \in Conditions :
       state[c] \in Verdicts /\ c \notin registered => state'[c] = state[c]]_vars

\* The promise to the script's author (AssertionLedger): the verdict of an
\* assertion is what its state is when the manager drops it.
LedgerVerdict(c) ==
  IF state[c] = "CREATED" THEN "unasserted"
  ELSE IF state[c] = "WAITING" \/ c \in registered THEN "open" ELSE state[c]

Ledger == INSTANCE AssertionLedger
            WITH Tracked <- {c \in Conditions : Valid(c)},
                 verdict <- [c \in Conditions |-> LedgerVerdict(c)],
                 closed <- scriptPc \in AfterLoop

LedgerSpec == Ledger!LedgerSpec

\* The script's end is reached: the wait of onScriptEnd is over once every
\* condition has expired, however few updates arrive, and then the XML is built or
\* an exception of cleanUp has left runScript.
ScriptEndCompletes == scriptPc = "ending" ~> scriptPc \in {"done", "left"}

\* Every registered assertion gets a verdict and leaves the manager, even when
\* the script died of an Error and nobody waits for it.
EveryAssertionDecided ==
  \A c \in Conditions :
    c \in registered ~> c \notin registered /\ state[c] \in Verdicts

\* What the texts of toXml claim: an assertion that "did not match
\* anti-expected value" or "received no quality updates contrary to expected
\* quality" never took a decisive update.
PassedMeansNeverSeen ==
  \A c \in Conditions :
    Kind[c] # "Equals" /\ state[c] = "PASSED" => evidence[c] = NoUpdate
================================================================================
