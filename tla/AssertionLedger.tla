---------------------------- MODULE AssertionLedger ----------------------------
(***************************************************************************)
(* What the asynchronous assertions of a test script promise to the author *)
(* of the script: every assertion is opened once, an open assertion gets   *)
(* one verdict that is never revised, and the run is closed only when no   *)
(* assertion that can be decided is still open.  AsyncConditions is shown  *)
(* to implement this.                                                      *)
(***************************************************************************)

CONSTANTS Conditions,  \* the asynchronous assertions a script may make
          Tracked      \* those on an item path the manager accepts

VARIABLES verdict,     \* verdict[c]: what the ledger says of assertion c
          closed       \* the script's wait for its assertions is over

ledgerVars == <<verdict, closed>>

Verdicts == {"PASSED", "FAILED"}

LedgerTypeOK ==
  /\ verdict \in [Conditions -> Verdicts \cup {"unasserted", "open"}]
  /\ closed \in BOOLEAN

LedgerInit ==
  /\ verdict = [c \in Conditions |-> "unasserted"]
  /\ closed = FALSE

Open(c) ==
  /\ ~closed
  /\ verdict[c] = "unasserted"
  /\ verdict' = [verdict EXCEPT ![c] = "open"]
  /\ UNCHANGED closed

\* Any number of open assertions are decided together.
Decide ==
  /\ \A c \in Conditions :
       verdict'[c] # verdict[c] => /\ c \in Tracked
                                   /\ verdict[c] = "open"
                                   /\ verdict'[c] \in Verdicts
  /\ verdict' = [c \in Conditions |-> verdict'[c]]
  /\ UNCHANGED closed

Close ==
  /\ \A c \in Tracked : verdict[c] # "open"
  /\ closed' = TRUE
  /\ UNCHANGED verdict

LedgerNext == (\E c \in Conditions : Open(c)) \/ Decide \/ Close

LedgerSpec == LedgerInit /\ [][LedgerNext]_ledgerVars
================================================================================
