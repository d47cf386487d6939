---------------------------- MODULE UpdateDelivery ----------------------------
(***************************************************************************)
(* The way of an item update from the OPC server to the assertions of an   *)
(* OPC-DA script: the OnDataChange callback of a group walks the changed   *)
(* items and hands each to OPCDAAsyncUpdateCallback, which queues it; the  *)
(* thread of OPCDAUpdateHandler takes updates from the queue and hands     *)
(* them to the AsyncConditionManager; the script thread starts that thread *)
(* when its context is made and stops it when the script has ended, each   *)
(* time waiting a bounded time for the thread to say that it did.          *)
(*                                                                         *)
(* COM delivers the callbacks on threads of its own: those of one group    *)
(* one after the other, those of different groups at the same time.        *)
(***************************************************************************)
EXTENDS Integers, Sequences

CONSTANTS
  Groups,      \* the groups the script made
  Items,       \* the items of the OPC server
  GroupItems,  \* GroupItems[g]: the items added to group g
  MaxVersion   \* bound: the number of values an item has in a run

ASSUME DeliveryAssumption ==
  /\ GroupItems \in [Groups -> SUBSET Items]
  /\ MaxVersion \in Nat \ {0}

\* An update tells the value of its item; values are numbered as they occur.
Updates == [item : Items, version : 1..MaxVersion]

VARIABLES
  version,        \* version[i]: the value item i has in the server
  reported,       \* reported[g][i]: the value group g last notified for item i
  changes,        \* changes[g]: what OnDataChange of group g has still to hand over
  queue,          \* OPCDAUpdateHandler.updatesQueue
  held,           \* the update the thread took and has not handed on, if any
  handled,        \* the updates AsyncConditionManager.onUpdate was called with
  stopFlag,       \* OPCDAUpdateHandler.stopUpdaterThread
  running,        \* OPCDAUpdateHandler.isUpdaterThreadRunning
  updaterPc,      \* where the updater thread is
  scriptPc,       \* where the script thread is
  stopConfirmed,  \* stopUpdaterThread() has returned true
  handledAtStop   \* how much was handled when the stop was asked for

serverVars == <<version, reported, changes>>
updaterVars == <<held, handled, running, updaterPc>>
scriptVars == <<stopFlag, scriptPc, stopConfirmed, handledAtStop>>
vars == <<version, reported, changes, queue, held, handled, stopFlag, running,
          updaterPc, scriptPc, stopConfirmed, handledAtStop>>

InLoop == {"checking", "polling", "handling", "leaving"}

\* Type correctness; the script's first step creates the thread, running is true
\* exactly while it is in its body, and an update is held while it is handled.
TypeOK ==
  /\ version \in [Items -> 1..MaxVersion]
  /\ reported \in [Groups -> [Items -> 0..MaxVersion]]
  /\ changes \in [Groups -> SUBSET Updates]
  /\ queue \in Seq(Updates)
  /\ held \in Seq(Updates)
  /\ handled \in Seq(Updates)
  /\ stopFlag \in BOOLEAN
  /\ updaterPc \in {"unborn", "born", "dead"} \cup InLoop
  /\ scriptPc \in {"new", "starting", "running", "stopping", "stopped", "ended", "dead"}
  /\ stopConfirmed \in BOOLEAN
  /\ handledAtStop \in Nat
  /\ running \in BOOLEAN
  /\ scriptPc = "new" <=> updaterPc = "unborn"
  /\ running <=> updaterPc \in InLoop
  /\ Len(held) = IF updaterPc = "handling" THEN 1 ELSE 0

Init ==
  /\ version = [i \in Items |-> 1]
  /\ reported = [g \in Groups |-> [i \in Items |-> 0]]
  /\ changes = [g \in Groups |-> {}]
  /\ queue = <<>>
  /\ held = <<>>
  /\ handled = <<>>
  /\ stopFlag = TRUE
  /\ running = FALSE
  /\ updaterPc = "unborn"
  /\ scriptPc = "new"
  /\ stopConfirmed = FALSE
  /\ handledAtStop = 0

--------------------------------------------------------------------------------
(* The script thread.                                                       *)

ScriptGoes(from, to) == scriptPc = from /\ scriptPc' = to

\* startUpdaterThread(): the handler is new, its thread is not running yet.
StartUpdater ==
  /\ ScriptGoes("new", "starting")
  /\ stopFlag' = FALSE
  /\ updaterPc' = "born"
  /\ UNCHANGED <<serverVars, queue, held, handled, running, stopConfirmed,
                 handledAtStop>>

\* The wait for the thread is over, because it runs or because 100 ms are; the
\* result is not looked at, the callback is registered and the script is run.
Register ==
  /\ ScriptGoes("starting", "running")
  /\ UNCHANGED <<serverVars, queue, updaterVars, stopFlag, stopConfirmed,
                 handledAtStop>>

\* cleanUp() calls stopUpdaterThread().
StopUpdater ==
  /\ ScriptGoes("running", "stopping")
  /\ stopFlag' = TRUE
  /\ handledAtStop' = Len(handled)
  /\ UNCHANGED <<serverVars, queue, updaterVars, stopConfirmed>>

\* The wait is over at any time: the thread stopped, or 100 ms have passed.
StopWaitOver ==
  /\ ScriptGoes("stopping", "stopped")
  /\ stopConfirmed' = ~running
  /\ UNCHANGED <<serverVars, queue, updaterVars, stopFlag, handledAtStop>>

\* cleanUp() goes on to OPCDAClientInstance.end(), whatever the stop returned.
End ==
  /\ ScriptGoes("stopped", "ended")
  /\ UNCHANGED <<serverVars, queue, updaterVars, stopFlag, stopConfirmed,
                 handledAtStop>>

\* An Error that the script does not catch: onScriptEnd is never called.
ScriptDies ==
  /\ ScriptGoes("running", "dead")
  /\ UNCHANGED <<serverVars, queue, updaterVars, stopFlag, stopConfirmed,
                 handledAtStop>>

--------------------------------------------------------------------------------
(* The OPC server and the callbacks of its groups.                          *)

ServerChanges(i) ==
  /\ version[i] < MaxVersion
  /\ version' = [version EXCEPT ![i] = @ + 1]
  /\ UNCHANGED <<reported, changes, queue, updaterVars, scriptVars>>

\* OnDataChange is entered with some of the items of the group that changed
\* since the group was last notified.  The session is open until end().
OnDataChange(g) ==
  /\ scriptPc \in {"running", "stopping", "stopped", "dead"}
  /\ changes[g] = {}
  /\ \E S \in SUBSET {i \in GroupItems[g] : version[i] # reported[g][i]} :
       /\ S # {}
       /\ changes' = [changes EXCEPT ![g] =
                        {[item |-> i, version |-> version[i]] : i \in S}]
       /\ reported' = [reported EXCEPT ![g] =
                         [i \in Items |-> IF i \in S THEN version[i] ELSE @[i]]]
  /\ UNCHANGED <<version, queue, updaterVars, scriptVars>>

\* Mutation: the update is queued at the wrong end.
OnUpdateFirst(g, u) ==
  /\ u \in changes[g]
  /\ changes' = [changes EXCEPT ![g] = @ \ {u}]
  /\ queue' = <<u>> \o queue
  /\ UNCHANGED <<version, reported, updaterVars, scriptVars>>

\* The loop of OnDataChange calls OPCDAAsyncUpdateCallback.onUpdate for the next
\* of its items, in the order of the hash map; the queue has no capacity, so
\* offerLast succeeds at once and the retries are never needed.
OnUpdate(g, u) ==
  /\ u \in changes[g]
  /\ changes' = [changes EXCEPT ![g] = @ \ {u}]
  /\ queue' = Append(queue, u)
  /\ UNCHANGED <<version, reported, updaterVars, scriptVars>>

--------------------------------------------------------------------------------
(* The updater thread.                                                      *)

UpdaterGoes(from, to) == updaterPc = from /\ updaterPc' = to

\* Mutation: the thread, not the caller, clears the stop flag.
UpdaterBeginsAfresh ==
  /\ UpdaterGoes("born", "checking")
  /\ running' = TRUE
  /\ stopFlag' = FALSE
  /\ UNCHANGED <<serverVars, queue, held, handled, scriptPc, stopConfirmed, handledAtStop>>

UpdaterBegins ==
  /\ UpdaterGoes("born", "checking")
  /\ running' = TRUE
  /\ UNCHANGED <<serverVars, queue, held, handled, scriptVars>>

UpdaterChecks ==
  /\ updaterPc = "checking"
  /\ updaterPc' = IF stopFlag THEN "leaving" ELSE "polling"
  /\ UNCHANGED <<serverVars, queue, held, handled, running, scriptVars>>

\* Mutation: the newest update is taken.
UpdaterPollsLast ==
  /\ UpdaterGoes("polling", "handling")
  /\ queue # <<>>
  /\ held' = <<queue[Len(queue)]>>
  /\ queue' = SubSeq(queue, 1, Len(queue) - 1)
  /\ UNCHANGED <<serverVars, handled, running, scriptVars>>

UpdaterPolls ==
  /\ UpdaterGoes("polling", "handling")
  /\ queue # <<>>
  /\ held' = <<Head(queue)>>
  /\ queue' = Tail(queue)
  /\ UNCHANGED <<serverVars, handled, running, scriptVars>>

\* Mutation: an empty queue ends the thread.
UpdaterGivesUp ==
  /\ UpdaterGoes("polling", "leaving")
  /\ queue = <<>>
  /\ UNCHANGED <<serverVars, queue, held, handled, running, scriptVars>>

\* pollFirst returns null when the queue stayed empty for 100 ms.
UpdaterPollTimesOut ==
  /\ UpdaterGoes("polling", "checking")
  /\ queue = <<>>
  /\ UNCHANGED <<serverVars, queue, held, handled, running, scriptVars>>

\* Mutation: the flag is looked at only when the queue was found empty.
UpdaterHandlesAll ==
  /\ UpdaterGoes("handling", "polling")
  /\ handled' = handled \o held
  /\ held' = <<>>
  /\ UNCHANGED <<serverVars, queue, running, scriptVars>>

\* genericHandler.onUpdate, however long the conditions' lock makes it take.
UpdaterHandles ==
  /\ UpdaterGoes("handling", "checking")
  /\ handled' = handled \o held
  /\ held' = <<>>
  /\ UNCHANGED <<serverVars, queue, running, scriptVars>>

UpdaterEnds ==
  /\ UpdaterGoes("leaving", "dead")
  /\ running' = FALSE
  /\ UNCHANGED <<serverVars, queue, held, handled, scriptVars>>

--------------------------------------------------------------------------------
ScriptStarts == StartUpdater \/ Register
ScriptStops == StopWaitOver \/ End
Script == ScriptStarts \/ StopUpdater \/ ScriptDies \/ ScriptStops

HandsOver(g) == \E u \in changes[g] : OnUpdate(g, u)
Server == (\E i \in Items : ServerChanges(i)) \/ (\E g \in Groups : OnDataChange(g))

Updater ==
  \/ UpdaterBegins \/ UpdaterChecks \/ UpdaterPolls
  \/ UpdaterPollTimesOut \/ UpdaterHandles \/ UpdaterEnds

Next == Script \/ Server \/ (\E g \in Groups : HandsOver(g)) \/ Updater

Spec == Init /\ [][Next]_vars

\* The updater thread and the callbacks keep running, the bounded waits end.
\* Nothing makes the server change an item or the script come to its end.
FairSpec ==
  /\ Spec
  /\ WF_vars(Updater)
  /\ \A g \in Groups : WF_vars(HandsOver(g))
  /\ WF_vars(ScriptStarts)
  /\ WF_vars(ScriptStops)

--------------------------------------------------------------------------------
(* Properties.                                                              *)

\* What has been queued so far: handled, held by the thread, or still queued.
Sent == handled \o held \o queue

Channel == INSTANCE UpdateChannel WITH sent <- Sent, received <- handled

\* What the callbacks queue reaches AsyncConditionManager.onUpdate in the order
\* of queueing, each update once and none left out.
ChannelSpec == Channel!ChannelSpec

\* The item is in one group only.
InOneGroup(i) == \A g, h \in Groups : i \in GroupItems[g] /\ i \in GroupItems[h] => g = h

\* The assertions never see an item go back to a value it had before: of an item
\* of one group the values are handled in the order the server had them.  (Of an
\* item of two groups they are not: the callbacks of the groups race.)
ValuesInOrder ==
  \A m, n \in 1..Len(handled) :
     /\ m < n
     /\ handled[m].item = handled[n].item
     /\ InOneGroup(handled[n].item)
     => handled[m].version < handled[n].version

\* When stopUpdaterThread() has returned true no update is handled any more, even
\* if the thread had not begun to run when the stop was asked for.
StopConfirmedIsFinal == [][stopConfirmed => handled' = handled]_vars

\* The stop is prompt even when it is not confirmed in time: however long the
\* queue is, at most the update in hand is still handled.
AtMostOneAfterStop ==
  scriptPc \in {"stopping", "stopped", "ended"} => Len(handled) <= handledAtStop + 1

Handled(i, v) == \E n \in 1..Len(handled) : handled[n] = [item |-> i, version |-> v]
Notified(i, v) == \E g \in Groups : [item |-> i, version |-> v] \in changes[g]

\* Every value a callback brings is handled, unless the script stops first.
NotifiedIsHandled ==
  \A i \in Items, v \in 1..MaxVersion : Notified(i, v) ~> (Handled(i, v) \/ stopFlag)
================================================================================
