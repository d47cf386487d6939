-------------------------- MODULE AsyncConditionsProofs --------------------------
(***************************************************************************)
(* Theorems about AsyncConditions, for any set of assertions, item paths,  *)
(* timeouts and update threads.  The inductive invariant adds to the       *)
(* checked properties what the code keeps between two lock holds: what is  *)
(* registered was asserted on a valid path, the loop of onScriptEnd leaves *)
(* nothing registered behind it, and at most one assertion is between      *)
(* registerWithManager and add.                                            *)
(***************************************************************************)
EXTENDS AsyncConditions, TLAPS

RegisteredAsserted ==
  \A c \in registered : state[c] # "CREATED" /\ Valid(c)

EmptyAfterLoop == scriptPc \in AfterLoop => registered = {}

Missing == {c \in Conditions : state[c] # "CREATED" /\ c \notin results}

ResultsComplete ==
  /\ scriptPc # "adding" => Missing = {}
  /\ \A c, d \in Missing : c = d
  /\ \A c \in results : state[c] # "CREATED"

IInv ==
  /\ TypeOK
  /\ NoAssertionLost
  /\ VerdictHasEvidence
  /\ TimeoutVerdictIsDue
  /\ RegisteredAsserted
  /\ EmptyAfterLoop
  /\ ResultsComplete
  /\ XmlStaysTrue

--------------------------------------------------------------------------------
\* The script's first state satisfies the inductive invariant.
LEMMA InitIInv == Init => IInv
  <1> SUFFICES ASSUME Init PROVE IInv
    OBVIOUS
  <1>1. TypeOK
    BY DEF Init, TypeOK, States
  <1>2. NoAssertionLost /\ VerdictHasEvidence /\ TimeoutVerdictIsDue
    BY DEF Init, NoAssertionLost, VerdictHasEvidence, TimeoutVerdictIsDue, Verdicts
  <1>3. RegisteredAsserted /\ EmptyAfterLoop /\ ResultsComplete /\ XmlStaysTrue
    BY DEF Init, RegisteredAsserted, EmptyAfterLoop, ResultsComplete, Missing, XmlStaysTrue
  <1> QED
    BY <1>1, <1>2, <1>3 DEF IInv

\* A verdict is of one sort: the one an update gives or the one time gives.
LEMMA VerdictSorts ==
  \A c \in Conditions : /\ UpdateVerdict(c) \in Verdicts
                        /\ TimeoutVerdict(c) \in Verdicts
                        /\ UpdateVerdict(c) # TimeoutVerdict(c)
  BY DEF UpdateVerdict, TimeoutVerdict, Verdicts

--------------------------------------------------------------------------------
(* Steps that leave the conditions, the manager and the results alone.      *)

LEMMA QuietStep ==
  ASSUME IInv, TypeOK',
         UNCHANGED <<conditionVars, registered, results, xml>>,
         scriptPc' \in AfterLoop => registered = {},
         scriptPc = "adding" => scriptPc' = "adding",
         scriptPc' = "done" => scriptPc = "done"
  PROVE  IInv'
  BY DEF IInv, NoAssertionLost, VerdictHasEvidence, TimeoutVerdictIsDue,
         RegisteredAsserted, EmptyAfterLoop, ResultsComplete, Missing, XmlStaysTrue,
         conditionVars, Decisive, Expires

\* removeNonWaitingAsyncConditions, whoever calls it, keeps the invariant.
LEMMA RemovalStep ==
  ASSUME IInv, TypeOK',
         registered' = StillWaiting,
         UNCHANGED <<conditionVars, results, xml>>,
         scriptPc' = scriptPc \/ (scriptPc = "removing" /\ scriptPc' = "timingOut")
  PROVE  IInv'
  BY DEF IInv, NoAssertionLost, VerdictHasEvidence, TimeoutVerdictIsDue, StillWaiting,
         RegisteredAsserted, EmptyAfterLoop, ResultsComplete, Missing, XmlStaysTrue,
         conditionVars, Decisive, AfterLoop, TypeOK

\* The types are kept by every step.
LEMMA TypeStep == IInv /\ [Next]_vars => TypeOK'
  <1> SUFFICES ASSUME IInv, [Next]_vars PROVE TypeOK'
    OBVIOUS
  <1> USE DEF IInv, TypeOK, conditionVars, ScriptGoes, TickerGoes, UpdaterGoes, AfterLoop
  <1>1. CASE OnScriptStart
    BY <1>1 DEF OnScriptStart
  <1>2. ASSUME NEW c \in Conditions, AssertAsync(c) PROVE TypeOK'
    BY <1>2 DEF AssertAsync, States
  <1>3. ASSUME NEW c \in Conditions, AddResult(c) PROVE TypeOK'
    BY <1>3 DEF AddResult
  <1>4. CASE ScriptReturns \/ ScriptDies \/ Snooze \/ WakeUp \/ LeaveLoop
    BY <1>4 DEF ScriptReturns, ScriptDies, Snooze, WakeUp, LeaveLoop
  <1>5. CASE StopTicker \/ StopRemoves \/ CleanUp
    BY <1>5 DEF StopTicker, StopRemoves, CleanUp, StillWaiting
  <1>6. CASE StopTimesOut
    BY <1>6, VerdictSorts DEF StopTimesOut, States, Verdicts
  <1>7. CASE ExportXml
    BY <1>7 DEF ExportXml, States
  <1>8. CASE TickFires \/ TickRemoves
    BY <1>8 DEF TickFires, TickRemoves, StillWaiting
  <1>9. CASE TickCounts
    BY <1>9, VerdictSorts DEF TickCounts, States, Verdicts
  <1>10. ASSUME NEW t \in Updaters, NEW u \in Updates, UpdateChecks(t, u) PROVE TypeOK'
    BY <1>10, VerdictSorts DEF UpdateChecks, States, Verdicts
  <1>11. ASSUME NEW t \in Updaters, UpdateRemoves(t) PROVE TypeOK'
    BY <1>11 DEF UpdateRemoves, StillWaiting
  <1>12. CASE UNCHANGED vars
    BY <1>12 DEF vars
  <1> QED
    BY <1>1, <1>2, <1>3, <1>4, <1>5, <1>6, <1>7, <1>8, <1>9, <1>10, <1>11, <1>12
       DEF Next, Script, Ticker, Updater

--------------------------------------------------------------------------------
(* Steps that change a condition, the results or the export.                *)

\* An assertion enters the manager undecided, and is the one missing result.
LEMMA AssertStep ==
  ASSUME IInv, TypeOK', NEW c \in Conditions, AssertAsync(c)
  PROVE  IInv'
  <1> USE DEF IInv, AssertAsync, TypeOK, ScriptGoes
  <1>1. NoAssertionLost' /\ RegisteredAsserted'
    BY DEF NoAssertionLost, RegisteredAsserted, Valid
  <1>2. VerdictHasEvidence' /\ TimeoutVerdictIsDue'
    BY DEF VerdictHasEvidence, TimeoutVerdictIsDue, Verdicts, Decisive
  <1>3. EmptyAfterLoop' /\ XmlStaysTrue'
    BY DEF EmptyAfterLoop, XmlStaysTrue, AfterLoop
  <1>4. ResultsComplete'
    <2>1. Missing = {} /\ Missing' \subseteq {c}
      BY DEF ResultsComplete, Missing
    <2> QED
      BY <2>1 DEF ResultsComplete
  <1> QED
    BY <1>1, <1>2, <1>3, <1>4

\* The one missing result is added, whatever became of it meanwhile.
LEMMA AddStep ==
  ASSUME IInv, TypeOK', NEW c \in Conditions, AddResult(c)
  PROVE  IInv'
  <1> USE DEF IInv, AddResult, TypeOK, ScriptGoes, conditionVars
  <1>1. NoAssertionLost' /\ RegisteredAsserted'
    BY DEF NoAssertionLost, RegisteredAsserted
  <1>2. VerdictHasEvidence' /\ TimeoutVerdictIsDue'
    BY DEF VerdictHasEvidence, TimeoutVerdictIsDue, Decisive
  <1>3. EmptyAfterLoop' /\ XmlStaysTrue'
    BY DEF EmptyAfterLoop, XmlStaysTrue, AfterLoop
  <1>4. ResultsComplete'
    <2>1. c \in Missing /\ Missing' = Missing \ {c}
      BY DEF Missing
    <2>2. Missing' = {}
      BY <2>1 DEF ResultsComplete
    <2> QED
      BY <2>2 DEF ResultsComplete
  <1> QED
    BY <1>1, <1>2, <1>3, <1>4

\* stopTicking times nothing out: the loop of onScriptEnd left nothing to.
LEMMA StopTimesOutStep ==
  ASSUME IInv, TypeOK', StopTimesOut
  PROVE  IInv'
  <1>1. registered = {} /\ state' = state
    BY DEF IInv, TypeOK, EmptyAfterLoop, AfterLoop, StopTimesOut, ScriptGoes
  <1>2. UNCHANGED <<conditionVars, registered, results, xml>>
    BY <1>1 DEF StopTimesOut, conditionVars
  <1> QED
    BY <1>1, <1>2, QuietStep DEF StopTimesOut, ScriptGoes

\* The export copies the state of every result, and nothing was left out.
LEMMA ExportStep ==
  ASSUME IInv, TypeOK', ExportXml
  PROVE  IInv'
  <1> USE DEF IInv, ExportXml, TypeOK, ScriptGoes, conditionVars
  <1>1. NoAssertionLost' /\ RegisteredAsserted' /\ VerdictHasEvidence' /\ TimeoutVerdictIsDue'
    BY DEF NoAssertionLost, RegisteredAsserted, VerdictHasEvidence, TimeoutVerdictIsDue,
           Decisive
  <1>2. EmptyAfterLoop' /\ ResultsComplete'
    BY DEF EmptyAfterLoop, AfterLoop, ResultsComplete, Missing
  <1>3. XmlStaysTrue'
    BY DEF XmlStaysTrue, ResultsComplete, Missing
  <1> QED
    BY <1>1, <1>2, <1>3

\* A tick gives timeout verdicts, only when they are due; after the loop of
\* onScriptEnd a late tick finds nothing registered.
LEMMA TickStep ==
  ASSUME IInv, TypeOK', TickCounts
  PROVE  IInv'
  <1> USE DEF IInv, TickCounts, TypeOK
  <1>1. NoAssertionLost' /\ RegisteredAsserted' /\ EmptyAfterLoop'
    BY VerdictSorts DEF NoAssertionLost, RegisteredAsserted, EmptyAfterLoop, Verdicts
  <1>2. VerdictHasEvidence'
    BY VerdictSorts DEF VerdictHasEvidence, Decisive
  <1>3. TimeoutVerdictIsDue'
    BY VerdictSorts, ConditionsAssumption DEF TimeoutVerdictIsDue, Expires
  <1>4. ResultsComplete'
    <2>1. \A c \in Conditions : state'[c] = "CREATED" <=> state[c] = "CREATED"
      BY VerdictSorts DEF RegisteredAsserted, Verdicts
    <2>2. Missing' = Missing
      BY <2>1 DEF Missing
    <2> QED
      BY <2>1, <2>2 DEF ResultsComplete
  <1>5. XmlStaysTrue'
    BY DEF XmlStaysTrue, EmptyAfterLoop, AfterLoop
  <1> QED
    BY <1>1, <1>2, <1>3, <1>4, <1>5

\* An update gives update verdicts, with itself as their evidence.
LEMMA UpdateStep ==
  ASSUME IInv, TypeOK', NEW t \in Updaters, NEW u \in Updates, UpdateChecks(t, u)
  PROVE  IInv'
  <1> USE DEF IInv, UpdateChecks, TypeOK
  <1>1. NoAssertionLost' /\ RegisteredAsserted' /\ EmptyAfterLoop'
    BY VerdictSorts DEF NoAssertionLost, RegisteredAsserted, EmptyAfterLoop, Verdicts
  <1>2. VerdictHasEvidence'
    BY VerdictSorts DEF VerdictHasEvidence, Decisive
  <1>3. TimeoutVerdictIsDue'
    BY VerdictSorts DEF TimeoutVerdictIsDue
  <1>4. ResultsComplete'
    <2>1. \A c \in Conditions : state'[c] = "CREATED" <=> state[c] = "CREATED"
      BY VerdictSorts DEF RegisteredAsserted, Verdicts
    <2>2. Missing' = Missing
      BY <2>1 DEF Missing
    <2> QED
      BY <2>1, <2>2 DEF ResultsComplete
  <1>5. XmlStaysTrue'
    BY DEF XmlStaysTrue, EmptyAfterLoop, AfterLoop
  <1> QED
    BY <1>1, <1>2, <1>3, <1>4, <1>5

--------------------------------------------------------------------------------
\* Every step keeps the inductive invariant.
LEMMA StepIInv == IInv /\ [Next]_vars => IInv'
  <1> SUFFICES ASSUME IInv, [Next]_vars PROVE IInv'
    OBVIOUS
  <1>0. TypeOK'
    BY TypeStep
  <1> USE DEF ScriptGoes, TickerGoes, UpdaterGoes
  <1>1. CASE OnScriptStart \/ ScriptReturns \/ ScriptDies \/ Snooze \/ WakeUp
    BY <1>0, <1>1, QuietStep
       DEF OnScriptStart, ScriptReturns, ScriptDies, Snooze, WakeUp, AfterLoop
  <1>2. ASSUME NEW c \in Conditions, AssertAsync(c) \/ AddResult(c) PROVE IInv'
    BY <1>0, <1>2, AssertStep, AddStep
  <1>3. CASE LeaveLoop
    BY <1>0, <1>3, QuietStep DEF LeaveLoop
  <1>4. CASE StopTicker \/ CleanUp
    BY <1>0, <1>4, QuietStep DEF StopTicker, CleanUp, IInv, EmptyAfterLoop, AfterLoop
  <1>5. CASE StopRemoves
    BY <1>0, <1>5, RemovalStep DEF StopRemoves
  <1>6. CASE StopTimesOut \/ ExportXml
    BY <1>0, <1>6, StopTimesOutStep, ExportStep
  <1>7. CASE TickFires
    BY <1>0, <1>7, QuietStep DEF TickFires, IInv, EmptyAfterLoop
  <1>8. CASE TickCounts
    BY <1>0, <1>8, TickStep
  <1>9. CASE TickRemoves
    BY <1>0, <1>9, RemovalStep DEF TickRemoves
  <1>10. ASSUME NEW t \in Updaters, NEW u \in Updates, UpdateChecks(t, u) PROVE IInv'
    BY <1>0, <1>10, UpdateStep
  <1>11. ASSUME NEW t \in Updaters, UpdateRemoves(t) PROVE IInv'
    BY <1>0, <1>11, RemovalStep DEF UpdateRemoves
  <1>12. CASE UNCHANGED vars
    BY <1>0, <1>12, QuietStep DEF vars, conditionVars, IInv, EmptyAfterLoop
  <1> QED
    BY <1>1, <1>2, <1>3, <1>4, <1>5, <1>6, <1>7, <1>8, <1>9, <1>10, <1>11, <1>12
       DEF Next, Script, Ticker, Updater

\* The inductive invariant holds in every reachable state.
THEOREM Invariance == Spec => []IInv
  BY InitIInv, StepIInv, PTL DEF Spec

\* Type correctness of AsyncConditions.
THEOREM TypeCorrect == Spec => []TypeOK
  <1>1. IInv => TypeOK
    BY DEF IInv
  <1> QED
    BY <1>1, Invariance, PTL

\* No waiting assertion on a valid path ever drops out of the manager.
THEOREM NothingLost == Spec => []NoAssertionLost
  <1>1. IInv => NoAssertionLost
    BY DEF IInv
  <1> QED
    BY <1>1, Invariance, PTL

\* No timeout verdict is given early, by a tick or by the end of the script.
THEOREM TimeoutsDue == Spec => []TimeoutVerdictIsDue
  <1>1. IInv => TimeoutVerdictIsDue
    BY DEF IInv
  <1> QED
    BY <1>1, Invariance, PTL

\* No update verdict is given without the update that decides it.
THEOREM EvidenceKept == Spec => []VerdictHasEvidence
  <1>1. IInv => VerdictHasEvidence
    BY DEF IInv
  <1> QED
    BY <1>1, Invariance, PTL

\* The end of the script finds every assertion decided and in the results.
THEOREM EndDecides == Spec => []EndedMeansDecided
  <1>1. IInv => EndedMeansDecided
    <2> SUFFICES ASSUME IInv, scriptPc \in AfterLoop,
                        NEW c \in Conditions, state[c] # "CREATED"
                 PROVE  c \in results /\ (Valid(c) => state[c] \in Verdicts)
      BY DEF EndedMeansDecided
    <2>1. registered = {} /\ Missing = {}
      BY DEF IInv, EmptyAfterLoop, ResultsComplete, AfterLoop
    <2> QED
      BY <2>1 DEF IInv, NoAssertionLost, Missing, TypeOK, States, Verdicts
  <1> QED
    BY <1>1, Invariance, PTL

\* The exported XML agrees with the assertions for as long as the program runs.
THEOREM ExportStaysTrue == Spec => []XmlStaysTrue
  <1>1. IInv => XmlStaysTrue
    BY DEF IInv
  <1> QED
    BY <1>1, Invariance, PTL

--------------------------------------------------------------------------------
\* Once a decided assertion is out of the manager, no step changes its verdict.
THEOREM FinalVerdicts == Spec => RemovedVerdictIsFinal
  <1> DEFINE Kept == \A c \in Conditions :
                       state[c] \in Verdicts /\ c \notin registered => state'[c] = state[c]
  <1>1. IInv /\ [Next]_vars => Kept
    <2> SUFFICES ASSUME IInv, [Next]_vars, NEW c \in Conditions,
                        state[c] \in Verdicts, c \notin registered
                 PROVE  state'[c] = state[c]
      OBVIOUS
    <2> USE DEF IInv, TypeOK, conditionVars
    <2>1. ASSUME NEW d \in Conditions, AssertAsync(d) \/ AddResult(d)
          PROVE  state'[c] = state[c]
      BY <2>1 DEF AssertAsync, AddResult, Verdicts
    <2>2. CASE Script /\ ~ \E d \in Conditions : AssertAsync(d) \/ AddResult(d)
      BY <2>2 DEF Script, OnScriptStart, ScriptReturns, ScriptDies, Snooze, WakeUp,
                  LeaveLoop, StopTicker, StopRemoves, StopTimesOut, CleanUp, ExportXml
    <2>3. CASE Ticker
      BY <2>3 DEF Ticker, TickFires, TickCounts, TickRemoves
    <2>4. ASSUME NEW t \in Updaters, Updater(t) PROVE state'[c] = state[c]
      BY <2>4 DEF Updater, UpdateChecks, UpdateRemoves
    <2>5. CASE UNCHANGED vars
      BY <2>5 DEF vars
    <2> QED
      BY <2>1, <2>2, <2>3, <2>4, <2>5 DEF Next
  <1> QED
    BY <1>1, Invariance, PTL DEF Spec, RemovedVerdictIsFinal

--------------------------------------------------------------------------------
(* AsyncConditions implements AssertionLedger.                              *)

LedgerVars == <<[c \in Conditions |-> LedgerVerdict(c)], scriptPc \in AfterLoop>>

\* A step that changes neither what the ledger reads nor the phase is a stutter.
LEMMA LedgerStutter ==
  ASSUME \A c \in Conditions : LedgerVerdict(c)' = LedgerVerdict(c),
         (scriptPc \in AfterLoop)' = (scriptPc \in AfterLoop)
  PROVE  LedgerVars' = LedgerVars
  BY DEF LedgerVars

\* Removal publishes verdicts: the ledger decides what the manager drops.
LEMMA LedgerRemoval ==
  ASSUME IInv, registered' = StillWaiting, state' = state,
         (scriptPc \in AfterLoop)' = (scriptPc \in AfterLoop)
  PROVE  Ledger!Decide
  <1>1. ASSUME NEW c \in Conditions, LedgerVerdict(c)' # LedgerVerdict(c)
        PROVE  /\ Valid(c) /\ LedgerVerdict(c) = "open"
               /\ LedgerVerdict(c)' \in Verdicts
    <2>1. c \in registered /\ state[c] \in Verdicts /\ c \notin registered'
      BY <1>1 DEF LedgerVerdict, StillWaiting, IInv, TypeOK, States, Verdicts
    <2> QED
      BY <2>1 DEF LedgerVerdict, IInv, RegisteredAsserted, Verdicts
  <1> QED
    BY <1>1 DEF Ledger!Decide, Ledger!Verdicts, Verdicts

\* Every step of the detailed specification is a step of the ledger or none.
LEMMA LedgerStep == IInv /\ [Next]_vars => [Ledger!LedgerNext]_LedgerVars
  <1> SUFFICES ASSUME IInv, [Next]_vars
               PROVE  Ledger!LedgerNext \/ LedgerVars' = LedgerVars
    OBVIOUS
  <1> USE DEF ScriptGoes, TickerGoes, UpdaterGoes, conditionVars
  <1>1. CASE OnScriptStart \/ ScriptReturns \/ ScriptDies \/ Snooze \/ WakeUp
             \/ StopTicker \/ CleanUp \/ ExportXml \/ TickFires \/ UNCHANGED vars
    BY <1>1, LedgerStutter
       DEF OnScriptStart, ScriptReturns, ScriptDies, Snooze, WakeUp, StopTicker, CleanUp,
           ExportXml, TickFires, vars, LedgerVerdict, AfterLoop
  <1>2. ASSUME NEW c \in Conditions, AddResult(c) PROVE LedgerVars' = LedgerVars
    BY <1>2, LedgerStutter DEF AddResult, LedgerVerdict, AfterLoop
  <1>3. ASSUME NEW c \in Conditions, AssertAsync(c) PROVE Ledger!Open(c)
    <2>1. /\ LedgerVerdict(c) = "unasserted" /\ LedgerVerdict(c)' = "open"
          /\ \A d \in Conditions \ {c} : LedgerVerdict(d)' = LedgerVerdict(d)
      BY <1>3 DEF AssertAsync, LedgerVerdict, IInv, TypeOK
    <2>2. scriptPc \notin AfterLoop /\ scriptPc' \notin AfterLoop
      BY <1>3 DEF AssertAsync, AfterLoop
    <2>3. [d \in Conditions |-> LedgerVerdict(d)]'
            = [[d \in Conditions |-> LedgerVerdict(d)] EXCEPT ![c] = "open"]
      BY <2>1
    <2>4. (scriptPc \in AfterLoop)' = (scriptPc \in AfterLoop)
      BY <2>2
    <2> QED
      BY <2>1, <2>2, <2>3, <2>4 DEF Ledger!Open
  <1>4. CASE LeaveLoop
    <2>1. \A c \in Conditions : Valid(c) => LedgerVerdict(c) # "open"
      BY <1>4 DEF LeaveLoop, LedgerVerdict, IInv, NoAssertionLost, TypeOK, States
    <2>2. \A c \in Conditions : LedgerVerdict(c)' = LedgerVerdict(c)
      BY <1>4 DEF LeaveLoop, LedgerVerdict
    <2>3. scriptPc' \in AfterLoop
      BY <1>4 DEF LeaveLoop, AfterLoop
    <2>4. Ledger!Close
      BY <2>1, <2>2, <2>3 DEF Ledger!Close
    <2> QED
      BY <2>4 DEF Ledger!LedgerNext
  <1>5. CASE StopRemoves
    <2>1. Ledger!Decide
      BY <1>5, LedgerRemoval DEF StopRemoves, AfterLoop
    <2> QED
      BY <2>1 DEF Ledger!LedgerNext
  <1>6. CASE StopTimesOut
    <2>1. registered = {} /\ UNCHANGED <<state, registered>>
      BY <1>6 DEF StopTimesOut, IInv, TypeOK, EmptyAfterLoop, AfterLoop
    <2> QED
      BY <1>6, <2>1, LedgerStutter DEF StopTimesOut, LedgerVerdict, AfterLoop
  <1>7. CASE TickCounts
    <2>1. \A c \in Conditions : LedgerVerdict(c)' = LedgerVerdict(c)
      BY <1>7, VerdictSorts
         DEF TickCounts, LedgerVerdict, IInv, TypeOK, RegisteredAsserted, Verdicts
    <2> QED
      BY <1>7, <2>1, LedgerStutter DEF TickCounts
  <1>8. ASSUME NEW t \in Updaters, NEW u \in Updates, UpdateChecks(t, u)
        PROVE  LedgerVars' = LedgerVars
    <2>1. \A c \in Conditions : LedgerVerdict(c)' = LedgerVerdict(c)
      BY <1>8, VerdictSorts
         DEF UpdateChecks, LedgerVerdict, IInv, TypeOK, RegisteredAsserted, Verdicts
    <2> QED
      BY <1>8, <2>1, LedgerStutter DEF UpdateChecks
  <1>9. ASSUME TickRemoves \/ \E t \in Updaters : UpdateRemoves(t)
        PROVE  Ledger!LedgerNext
    <2>1. Ledger!Decide
      BY <1>9, LedgerRemoval DEF TickRemoves, UpdateRemoves
    <2> QED
      BY <2>1 DEF Ledger!LedgerNext
  <1> QED
    BY <1>1, <1>2, <1>3, <1>4, <1>5, <1>6, <1>7, <1>8, <1>9
       DEF Next, Script, Ticker, Updater, Ledger!LedgerNext

\* Every assertion keeps the ledger's promise: opened once, decided once by the
\* removal of its condition, and all decided when the script's wait is over.
THEOREM LedgerImplemented == Spec => LedgerSpec
  <1>1. Init => Ledger!LedgerInit
    BY DEF Init, Ledger!LedgerInit, LedgerVerdict, AfterLoop
  <1>2. IInv /\ [Next]_vars => [Ledger!LedgerNext]_Ledger!ledgerVars
    BY LedgerStep DEF LedgerVars, Ledger!ledgerVars
  <1> QED
    BY <1>1, <1>2, Invariance, PTL DEF Spec, LedgerSpec, Ledger!LedgerSpec

\* What the ledger says of an assertion is always one of its four words.
THEOREM LedgerTypeCorrect == Spec => []Ledger!LedgerTypeOK
  <1>1. Ledger!LedgerInit => Ledger!LedgerTypeOK
    BY DEF Ledger!LedgerInit, Ledger!LedgerTypeOK
  <1>2. Ledger!LedgerTypeOK /\ [Ledger!LedgerNext]_Ledger!ledgerVars => Ledger!LedgerTypeOK'
    BY DEF Ledger!LedgerTypeOK, Ledger!LedgerNext, Ledger!ledgerVars, Ledger!Open, Ledger!Decide,
           Ledger!Close, Ledger!Verdicts
  <1> QED
    BY <1>1, <1>2, LedgerImplemented, PTL DEF LedgerSpec, Ledger!LedgerSpec
================================================================================
