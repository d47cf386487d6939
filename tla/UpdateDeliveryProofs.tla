-------------------------- MODULE UpdateDeliveryProofs --------------------------
(***************************************************************************)
(* Theorems about UpdateDelivery, for any groups, items and number of      *)
(* values.  All arguments look at Sent, the updates that were queued: a    *)
(* callback appends one to it, the updater thread moves its handled prefix *)
(* by one, and no other step changes it.                                   *)
(***************************************************************************)
EXTENDS UpdateDelivery, SequenceTheorems, TLAPS

\* A group has reported what it still has to hand over, and reports what the
\* server had.
ChangesReported ==
  /\ \A g \in Groups, i \in Items : reported[g][i] <= version[i]
  /\ \A g \in Groups : \A u \in changes[g] :
       /\ u.item \in GroupItems[g]
       /\ u.version = reported[g][u.item]

\* What was queued is something some group of the item has reported, ...
SentReported(s) ==
  \A n \in 1..Len(s) :
     \E g \in Groups : /\ s[n].item \in GroupItems[g]
                       /\ s[n].version <= reported[g][s[n].item]

\* ... is older than what the group of the item still has to hand over, ...
SentBeforeChanges(s) ==
  \A g \in Groups : \A u \in changes[g] : \A n \in 1..Len(s) :
     s[n].item = u.item /\ InOneGroup(u.item) => s[n].version < u.version

\* ... and is in order.
InOrder(s) ==
  \A m, n \in 1..Len(s) :
     /\ m < n
     /\ s[m].item = s[n].item
     /\ InOneGroup(s[n].item)
     => s[m].version < s[n].version

\* The thread that was seen stopped, or not yet begun, finds the stop flag set.
StopSeen ==
  /\ scriptPc \in {"stopping", "stopped", "ended"} => stopFlag
  /\ stopConfirmed => /\ scriptPc \in {"stopped", "ended"}
                      /\ updaterPc \notin {"polling", "handling"}

\* What may still be handled once the stop was asked for.
HandledSinceStop ==
  scriptPc \in {"stopping", "stopped", "ended"} =>
    \/ Len(handled) = handledAtStop
    \/ Len(handled) = handledAtStop + 1 /\ updaterPc \notin {"polling", "handling"}

IInv ==
  /\ TypeOK
  /\ ChangesReported
  /\ SentReported(Sent)
  /\ SentBeforeChanges(Sent)
  /\ InOrder(Sent)
  /\ StopSeen
  /\ HandledSinceStop

--------------------------------------------------------------------------------
\* Init establishes the invariant: nothing is reported, queued or stopped yet.
LEMMA InitIInv == Init => IInv
  <1> SUFFICES ASSUME Init PROVE IInv
    OBVIOUS
  <1> USE DeliveryAssumption
  <1>1. TypeOK
    <2>1. /\ queue \in Seq(Updates) /\ held \in Seq(Updates) /\ handled \in Seq(Updates)
          /\ Len(held) = 0
      BY EmptySeq DEF Init
    <2>2. version \in [Items -> 1..MaxVersion] /\ reported \in [Groups -> [Items -> 0..MaxVersion]]
      BY DEF Init
    <2>3. running \in BOOLEAN /\ (running <=> updaterPc \in InLoop)
      BY DEF Init, InLoop
    <2>4. changes \in [Groups -> SUBSET Updates]
      BY DEF Init
    <2>5. /\ stopFlag \in BOOLEAN /\ stopConfirmed \in BOOLEAN /\ handledAtStop \in Nat
          /\ updaterPc = "unborn" /\ scriptPc = "new"
      BY DEF Init
    <2> QED
      BY <2>1, <2>2, <2>3, <2>4, <2>5 DEF TypeOK
  <1>2. Sent = <<>>
    BY DEF Init, Sent
  <1>3. SentReported(Sent) /\ SentBeforeChanges(Sent) /\ InOrder(Sent)
    BY <1>2 DEF Init, SentReported, SentBeforeChanges, InOrder
  <1>4. ChangesReported
    BY DEF Init, ChangesReported
  <1>5. StopSeen /\ HandledSinceStop
    BY DEF Init, StopSeen, HandledSinceStop
  <1> QED
    BY <1>1, <1>3, <1>4, <1>5 DEF IInv

\* Sent is a sequence of updates.
LEMMA SentType == TypeOK => Sent \in Seq(Updates) /\ handled \o held \in Seq(Updates)
  <1> SUFFICES ASSUME TypeOK
               PROVE  Sent \in Seq(Updates) /\ handled \o held \in Seq(Updates)
    OBVIOUS
  <1>1. handled \in Seq(Updates) /\ held \in Seq(Updates) /\ queue \in Seq(Updates)
    BY DEF TypeOK
  <1>2. handled \o held \in Seq(Updates)
    BY <1>1, ConcatProperties
  <1> QED
    BY <1>1, <1>2, ConcatProperties DEF Sent

\* Nothing is held outside of the handling of an update.
LEMMA HeldEmpty == TypeOK /\ updaterPc # "handling" => held = <<>>
  <1> SUFFICES ASSUME TypeOK, updaterPc # "handling" PROVE held = <<>>
    OBVIOUS
  <1>1. held \in Seq(Updates) /\ Len(held) = 0
    BY DEF TypeOK
  <1> QED
    BY <1>1, EmptySeq

--------------------------------------------------------------------------------
(* What a step does to the types and to Sent.                               *)

LEMMA TypeStep == TypeOK /\ [Next]_vars => TypeOK'
  <1> SUFFICES ASSUME TypeOK, [Next]_vars PROVE TypeOK'
    OBVIOUS
  <1> USE DeliveryAssumption DEF TypeOK, InLoop
  <1>1. CASE Script
    <2> USE DEF serverVars, updaterVars, ScriptGoes
    <2>1. CASE StartUpdater
      <3>1. updaterPc = "unborn"
        BY <2>1 DEF StartUpdater
      <3> QED
        BY <2>1, <3>1 DEF StartUpdater
    <2>2. CASE Register \/ End \/ ScriptDies
      BY <2>2 DEF Register, End, ScriptDies
    <2>4. CASE StopWaitOver
      <3>1. stopConfirmed' \in BOOLEAN
        BY <2>4 DEF StopWaitOver
      <3> QED
        BY <2>4, <3>1 DEF StopWaitOver
    <2>3. CASE StopUpdater
      BY <2>3, LenProperties DEF StopUpdater
    <2> QED
      BY <1>1, <2>1, <2>2, <2>3, <2>4 DEF Script, ScriptStarts, ScriptStops
  <1>2. ASSUME NEW i \in Items, ServerChanges(i) PROVE TypeOK'
    <2>1. version' \in [Items -> 1..MaxVersion]
      BY <1>2 DEF ServerChanges
    <2> QED
      BY <1>2, <2>1 DEF ServerChanges, updaterVars, scriptVars
  <1>3. ASSUME NEW g \in Groups, OnDataChange(g) PROVE TypeOK'
    <2>1. PICK S \in SUBSET {i \in GroupItems[g] : version[i] # reported[g][i]} :
            /\ changes' = [changes EXCEPT ![g] =
                             {[item |-> i, version |-> version[i]] : i \in S}]
            /\ reported' = [reported EXCEPT ![g] =
                              [i \in Items |-> IF i \in S THEN version[i] ELSE @[i]]]
      BY <1>3 DEF OnDataChange
    <2>2. {[item |-> i, version |-> version[i]] : i \in S} \subseteq Updates
      BY DEF Updates
    <2>3. [i \in Items |-> IF i \in S THEN version[i] ELSE reported[g][i]]
             \in [Items -> 0..MaxVersion]
      OBVIOUS
    <2> QED
      BY <1>3, <2>1, <2>2, <2>3 DEF OnDataChange, updaterVars, scriptVars
  <1>4. ASSUME NEW g \in Groups, NEW u \in changes[g], OnUpdate(g, u) PROVE TypeOK'
    <2>1. queue' \in Seq(Updates)
      BY <1>4, AppendProperties DEF OnUpdate
    <2>2. changes' \in [Groups -> SUBSET Updates]
      BY <1>4 DEF OnUpdate
    <2> QED
      BY <1>4, <2>1, <2>2 DEF OnUpdate, updaterVars, scriptVars
  <1>5. CASE UpdaterBegins \/ UpdaterChecks \/ UpdaterPollTimesOut \/ UpdaterEnds
    <2>1. UNCHANGED <<serverVars, queue, held, handled, scriptVars>>
      BY <1>5 DEF UpdaterBegins, UpdaterChecks, UpdaterPollTimesOut, UpdaterEnds
    <2>2. /\ updaterPc \notin {"handling", "unborn"} /\ updaterPc' # "handling"
          /\ updaterPc' \in {"dead"} \cup InLoop
      BY <1>5 DEF UpdaterBegins, UpdaterChecks, UpdaterPollTimesOut, UpdaterEnds, UpdaterGoes
    <2>3. running' \in BOOLEAN /\ (running' <=> updaterPc' \in InLoop)
      BY <1>5 DEF UpdaterBegins, UpdaterChecks, UpdaterPollTimesOut, UpdaterEnds, UpdaterGoes
    <2> QED
      BY <2>1, <2>2, <2>3 DEF serverVars, scriptVars
  <1>6. CASE UpdaterPolls
    <2>1. Head(queue) \in Updates /\ Tail(queue) \in Seq(Updates)
      BY <1>6, HeadTailProperties DEF UpdaterPolls
    <2>2. held' \in Seq(Updates) /\ Len(held') = 1
      BY <1>6, <2>1 DEF UpdaterPolls
    <2> QED
      BY <1>6, <2>1, <2>2 DEF UpdaterPolls, UpdaterGoes, serverVars, scriptVars
  <1>7. CASE UpdaterHandles
    <2>1. handled' \in Seq(Updates)
      BY <1>7, ConcatProperties DEF UpdaterHandles
    <2>2. held' \in Seq(Updates) /\ Len(held') = 0
      BY <1>7, EmptySeq DEF UpdaterHandles
    <2> QED
      BY <1>7, <2>1, <2>2 DEF UpdaterHandles, UpdaterGoes, serverVars, scriptVars
  <1>8. CASE UNCHANGED vars
    BY <1>8 DEF vars
  <1> QED
    BY <1>1, <1>2, <1>3, <1>4, <1>5, <1>6, <1>7, <1>8
    DEF Next, Server, HandsOver, Updater

\* A callback appends to Sent.
LEMMA OnUpdateSends ==
  ASSUME TypeOK, NEW g \in Groups, NEW u \in changes[g], OnUpdate(g, u)
  PROVE  u \in Updates /\ Sent' = Append(Sent, u) /\ handled' = handled
  <1>1. /\ handled \o held \in Seq(Updates) /\ queue \in Seq(Updates)
        /\ u \in Updates /\ <<u>> \in Seq(Updates)
    BY SentType DEF TypeOK
  <1>2. /\ handled' = handled /\ held' = held
        /\ queue' = queue \o <<u>>
    BY <1>1, AppendIsConcat DEF OnUpdate, updaterVars
  <1>3. Sent' = ((handled \o held) \o queue) \o <<u>>
    BY <1>1, <1>2, ConcatAssociative DEF Sent
  <1>4. Sent \in Seq(Updates)
    BY SentType
  <1> QED
    BY <1>1, <1>2, <1>3, <1>4, AppendIsConcat DEF Sent

\* To take an update from the queue, or to handle it, leaves Sent as it is.
LEMMA PollKeepsSent == TypeOK /\ UpdaterPolls => Sent' = Sent /\ handled' = handled
  <1> SUFFICES ASSUME TypeOK, UpdaterPolls PROVE Sent' = Sent /\ handled' = handled
    OBVIOUS
  <1>1. /\ handled' = handled /\ held' = <<Head(queue)>> /\ queue' = Tail(queue)
        /\ queue # <<>> /\ held = <<>>
    BY HeldEmpty DEF UpdaterPolls, UpdaterGoes
  <1>2. handled \in Seq(Updates) /\ queue \in Seq(Updates)
    BY DEF TypeOK
  <1>3. <<Head(queue)>> \in Seq(Updates) /\ Tail(queue) \in Seq(Updates)
    BY <1>1, <1>2, HeadTailProperties
  <1>4. <<Head(queue)>> \o Tail(queue) = queue
    <2>1. SubSeq(queue, 1, Len(queue)) = <<queue[1]>> \o SubSeq(queue, 2, Len(queue))
      <3>1. 1 \in 1..Len(queue) /\ Len(queue) \in 1..Len(queue)
        BY <1>1, <1>2, EmptySeq
      <3> QED
        BY <1>2, <3>1, SubSeqRecursiveFirst
    <2> QED
      BY <1>1, <1>2, <2>1, SubSeqFull, TailIsSubSeq
  <1>5. (handled \o <<Head(queue)>>) \o Tail(queue) = handled \o queue
    BY <1>2, <1>3, <1>4, ConcatAssociative
  <1> QED
    BY <1>1, <1>2, <1>5, ConcatEmptySeq DEF Sent

LEMMA HandleKeepsSent ==
  TypeOK /\ UpdaterHandles => Sent' = Sent /\ handled' = handled \o held /\ Len(held) = 1
  <1> SUFFICES ASSUME TypeOK, UpdaterHandles
               PROVE  Sent' = Sent /\ handled' = handled \o held /\ Len(held) = 1
    OBVIOUS
  <1>1. /\ handled' = handled \o held /\ held' = <<>> /\ queue' = queue
        /\ Len(held) = 1
    BY DEF UpdaterHandles, UpdaterGoes, TypeOK
  <1> QED
    BY <1>1, SentType, ConcatEmptySeq DEF Sent

\* Every other step leaves both alone.
LEMMA QuietKeepsSent ==
  ASSUME UNCHANGED <<queue, held, handled>>
  PROVE  Sent' = Sent /\ handled' = handled
  BY DEF Sent

\* The three ways a step treats what was sent and what was handled.
LEMMA SentStep ==
  ASSUME TypeOK, [Next]_vars
  PROVE  \/ Sent' = Sent /\ handled' = handled
         \/ UpdaterHandles /\ Sent' = Sent /\ handled' = handled \o held /\ Len(held) = 1
         \/ \E g \in Groups : \E u \in changes[g] :
              OnUpdate(g, u) /\ u \in Updates /\ Sent' = Append(Sent, u) /\ handled' = handled
  <1>1. CASE Script \/ Server \/ UNCHANGED vars
    <2>1. UNCHANGED <<queue, held, handled>>
      BY <1>1 DEF Script, ScriptStarts, ScriptStops, StartUpdater, Register, StopUpdater,
                  ScriptDies, StopWaitOver, End, Server, ServerChanges, OnDataChange,
                  vars, updaterVars
    <2> QED
      BY <2>1, QuietKeepsSent
  <1>2. CASE \E g \in Groups : HandsOver(g)
    BY <1>2, OnUpdateSends DEF HandsOver
  <1>3. CASE UpdaterBegins \/ UpdaterChecks \/ UpdaterPollTimesOut \/ UpdaterEnds
    <2>1. UNCHANGED <<queue, held, handled>>
      BY <1>3 DEF UpdaterBegins, UpdaterChecks, UpdaterPollTimesOut, UpdaterEnds
    <2> QED
      BY <2>1, QuietKeepsSent
  <1>4. CASE UpdaterPolls
    BY <1>4, PollKeepsSent
  <1>5. CASE UpdaterHandles
    BY <1>5, HandleKeepsSent
  <1> QED
    BY <1>1, <1>2, <1>3, <1>4, <1>5 DEF Next, Updater

--------------------------------------------------------------------------------
(* Order.                                                                   *)

OrderInv ==
  /\ ChangesReported
  /\ SentReported(Sent)
  /\ SentBeforeChanges(Sent)
  /\ InOrder(Sent)

\* A notification brings values that are newer than all that was queued before.
LEMMA NotificationKeepsOrder ==
  ASSUME TypeOK, OrderInv, NEW g \in Groups, OnDataChange(g)
  PROVE  OrderInv'
  <1> USE DeliveryAssumption
  <1>1. PICK S \in SUBSET {i \in GroupItems[g] : version[i] # reported[g][i]} :
          /\ changes' = [changes EXCEPT ![g] =
                           {[item |-> i, version |-> version[i]] : i \in S}]
          /\ reported' = [reported EXCEPT ![g] =
                            [i \in Items |-> IF i \in S THEN version[i] ELSE @[i]]]
    BY DEF OnDataChange
  <1>2. UNCHANGED version /\ Sent' = Sent
    BY QuietKeepsSent DEF OnDataChange, updaterVars
  <1>3. Sent \in Seq(Updates)
    BY SentType
  <1>4. \A h \in Groups : h # g => changes'[h] = changes[h] /\ reported'[h] = reported[h]
    BY <1>1 DEF TypeOK
  <1>5. \A u \in changes'[g] : /\ u.item \in S
                               /\ u.version = version[u.item]
    BY <1>1 DEF TypeOK
  <1>6. \A i \in Items : reported'[g][i] = IF i \in S THEN version[i] ELSE reported[g][i]
    BY <1>1 DEF TypeOK
  <1>7. \A i \in Items, h \in Groups : /\ reported[h][i] \in Nat /\ reported'[h][i] \in Nat
                                       /\ version[i] \in Nat
                                       /\ reported[h][i] <= reported'[h][i]
                                       /\ reported'[h][i] <= version[i]
    <2> TAKE i \in Items, h \in Groups
    <2>1. reported[h][i] \in Nat /\ version[i] \in Nat /\ reported[h][i] <= version[i]
      BY DEF TypeOK, OrderInv, ChangesReported
    <2> QED
      BY <2>1, <1>4, <1>6
  <1>8. ASSUME NEW i \in S
        PROVE i \in GroupItems[g] /\ i \in Items /\ reported[g][i] < version[i]
    <2>1. i \in GroupItems[g] /\ i \in Items /\ version[i] # reported[g][i]
      OBVIOUS
    <2> QED
      BY <2>1 DEF TypeOK, OrderInv, ChangesReported
  <1>9. ChangesReported'
    <2>1. \A h \in Groups : \A u \in changes'[h] :
            u.item \in GroupItems[h] /\ u.version = reported'[h][u.item]
      BY <1>4, <1>5, <1>6, <1>8 DEF OrderInv, ChangesReported
    <2> QED
      BY <1>7, <2>1, <1>2 DEF ChangesReported
  <1>10. \A n \in 1..Len(Sent) : Sent[n].item \in Items /\ Sent[n].version \in Nat
    <2>1. \A n \in 1..Len(Sent) : Sent[n] \in Updates
      BY <1>3, ElementOfSeq
    <2>2. \A u \in Updates : u.item \in Items /\ u.version \in Nat
      BY DEF Updates
    <2> QED
      BY <2>1, <2>2
  <1>11. SentReported(Sent)'
    BY <1>2, <1>7, <1>10 DEF OrderInv, SentReported
  <1>12. SentBeforeChanges(Sent)'
    <2> SUFFICES ASSUME NEW h \in Groups, NEW u \in changes'[h], NEW n \in 1..Len(Sent),
                        Sent[n].item = u.item, InOneGroup(u.item)
                 PROVE  Sent[n].version < u.version
      BY <1>2 DEF SentBeforeChanges
    <2>1. CASE h # g
      BY <2>1, <1>4 DEF OrderInv, SentBeforeChanges
    <2>2. CASE h = g
      <3>1. PICK k \in Groups : /\ Sent[n].item \in GroupItems[k]
                                /\ Sent[n].version <= reported[k][Sent[n].item]
        BY DEF OrderInv, SentReported
      <3>2. u.item \in S /\ u.version = version[u.item]
        BY <2>2, <1>5
      <3>3. u.item \in GroupItems[g] /\ reported[g][u.item] < version[u.item]
        BY <3>2, <1>8
      <3>4. k = g
        BY <3>1, <3>3 DEF InOneGroup
      <3> QED
        BY <3>1, <3>2, <3>3, <3>4, <1>7, <1>8, <1>10
    <2> QED
      BY <2>1, <2>2
  <1>13. InOrder(Sent)'
    BY <1>2 DEF OrderInv, InOrder
  <1> QED
    BY <1>9, <1>11, <1>12, <1>13 DEF OrderInv

\* A callback queues what is newer than all that was queued of its item.
LEMMA SendKeepsOrder ==
  ASSUME TypeOK, OrderInv, NEW g \in Groups, NEW u \in changes[g], OnUpdate(g, u),
         u \in Updates, Sent' = Append(Sent, u)
  PROVE  OrderInv'
  <1>1. /\ Sent \in Seq(Updates) /\ Sent' \in Seq(Updates) /\ Len(Sent) \in Nat
        /\ Len(Sent') = Len(Sent) + 1
        /\ Sent'[Len(Sent) + 1] = u
        /\ \A n \in 1..Len(Sent) : Sent'[n] = Sent[n]
    BY SentType, AppendProperties, LenProperties
  <1>2. /\ UNCHANGED <<version, reported>>
        /\ \A h \in Groups : changes'[h] \subseteq changes[h]
        /\ changes'[g] = changes[g] \ {u}
    BY DEF OnUpdate, TypeOK
  <1>3. u.item \in GroupItems[g] /\ u.version = reported[g][u.item] /\ u.version \in Nat
    <2>1. u.version \in Nat
      BY DeliveryAssumption DEF Updates
    <2> QED
      BY <2>1 DEF OrderInv, ChangesReported
  <1>4. ChangesReported'
    BY <1>2 DEF OrderInv, ChangesReported
  <1>5. SentReported(Sent)'
    <2> SUFFICES ASSUME NEW n \in 1..Len(Sent')
                 PROVE  \E h \in Groups : /\ Sent'[n].item \in GroupItems[h]
                                          /\ Sent'[n].version <= reported[h][Sent'[n].item]
      BY <1>2 DEF SentReported
    <2>1. CASE n = Len(Sent) + 1
      BY <2>1, <1>1, <1>3
    <2>2. CASE n \in 1..Len(Sent)
      BY <2>2, <1>1 DEF OrderInv, SentReported
    <2> QED
      BY <2>1, <2>2, <1>1
  <1>6. SentBeforeChanges(Sent)'
    <2> SUFFICES ASSUME NEW h \in Groups, NEW w \in changes'[h], NEW n \in 1..Len(Sent'),
                        Sent'[n].item = w.item, InOneGroup(w.item)
                 PROVE  Sent'[n].version < w.version
      BY DEF SentBeforeChanges
    <2>1. CASE n \in 1..Len(Sent)
      BY <2>1, <1>1, <1>2 DEF OrderInv, SentBeforeChanges
    <2>2. CASE n = Len(Sent) + 1
      <3>1. w \in changes[h] /\ w.item = u.item /\ w \in Updates
        BY <2>2, <1>1, <1>2 DEF TypeOK
      <3>2. h = g
        BY <3>1, <1>3 DEF InOneGroup, OrderInv, ChangesReported
      <3>3. w # u /\ w.version = u.version
        BY <3>1, <3>2, <1>2, <1>3 DEF OrderInv, ChangesReported
      <3> QED
        BY <3>1, <3>3 DEF Updates
    <2> QED
      BY <2>1, <2>2, <1>1
  <1>7. InOrder(Sent)'
    <2> SUFFICES ASSUME NEW m \in 1..Len(Sent'), NEW n \in 1..Len(Sent'), m < n,
                        Sent'[m].item = Sent'[n].item, InOneGroup(Sent'[n].item)
                 PROVE  Sent'[m].version < Sent'[n].version
      BY DEF InOrder
    <2>1. m \in 1..Len(Sent)
      BY <1>1
    <2>2. CASE n \in 1..Len(Sent)
      BY <2>1, <2>2, <1>1 DEF OrderInv, InOrder
    <2>3. CASE n = Len(Sent) + 1
      BY <2>1, <2>3, <1>1 DEF OrderInv, SentBeforeChanges
    <2> QED
      BY <2>2, <2>3, <1>1
  <1> QED
    BY <1>4, <1>5, <1>6, <1>7 DEF OrderInv

\* Order is kept by every step.
LEMMA OrderStep == TypeOK /\ OrderInv /\ [Next]_vars => OrderInv'
  <1> SUFFICES ASSUME TypeOK, OrderInv, [Next]_vars PROVE OrderInv'
    OBVIOUS
  <1>1. ASSUME UNCHANGED <<version, reported, changes>>, Sent' = Sent PROVE OrderInv'
    BY <1>1 DEF OrderInv, ChangesReported, SentReported, SentBeforeChanges, InOrder
  <1>2. CASE Script \/ UNCHANGED vars
    <2>1. UNCHANGED <<version, reported, changes, queue, held, handled>>
      BY <1>2 DEF Script, ScriptStarts, ScriptStops, StartUpdater, Register, StopUpdater,
                  ScriptDies, StopWaitOver, End, vars, serverVars, updaterVars
    <2> QED
      BY <1>1, <2>1, QuietKeepsSent
  <1>3. ASSUME NEW i \in Items, ServerChanges(i) PROVE OrderInv'
    <2>1. UNCHANGED <<reported, changes>> /\ Sent' = Sent
      BY <1>3, QuietKeepsSent DEF ServerChanges, updaterVars
    <2>2. \A j \in Items : version[j] <= version'[j] /\ version[j] \in Nat /\ version'[j] \in Nat
      BY <1>3 DEF ServerChanges, TypeOK
    <2>3. ChangesReported'
      <3>1. \A g \in Groups, j \in Items : reported[g][j] \in Nat
        BY DEF TypeOK
      <3> QED
        BY <2>1, <2>2, <3>1 DEF OrderInv, ChangesReported
    <2> QED
      BY <2>1, <2>3 DEF OrderInv, SentReported, SentBeforeChanges, InOrder
  <1>4. ASSUME NEW g \in Groups, OnDataChange(g) PROVE OrderInv'
    BY <1>4, NotificationKeepsOrder
  <1>5. ASSUME NEW g \in Groups, HandsOver(g) PROVE OrderInv'
    BY <1>5, OnUpdateSends, SendKeepsOrder DEF HandsOver
  <1>6. CASE Updater
    <2>1. UNCHANGED <<version, reported, changes>>
      BY <1>6 DEF Updater, UpdaterBegins, UpdaterChecks, UpdaterPolls, UpdaterPollTimesOut,
                  UpdaterHandles, UpdaterEnds, serverVars
    <2>2. Sent' = Sent
      BY <1>6, PollKeepsSent, HandleKeepsSent, QuietKeepsSent
      DEF Updater, UpdaterBegins, UpdaterChecks, UpdaterPollTimesOut, UpdaterEnds
    <2> QED
      BY <1>1, <2>1, <2>2
  <1> QED
    BY <1>2, <1>3, <1>4, <1>5, <1>6 DEF Next, Server

--------------------------------------------------------------------------------
(* Stop.                                                                    *)

\* After the flag is set the thread only finishes what it has in hand.
LEMMA StopStep ==
  TypeOK /\ StopSeen /\ HandledSinceStop /\ [Next]_vars => StopSeen' /\ HandledSinceStop'
  <1> SUFFICES ASSUME TypeOK, StopSeen, HandledSinceStop, [Next]_vars
               PROVE  StopSeen' /\ HandledSinceStop'
    OBVIOUS
  <1> USE DEF StopSeen, HandledSinceStop
  <1>1. Len(handled) \in Nat
    BY LenProperties DEF TypeOK
  <1>2. CASE Script
    <2>1. UNCHANGED <<handled, held>> /\ (updaterPc' # updaterPc => StartUpdater)
      BY <1>2 DEF Script, ScriptStarts, ScriptStops, StartUpdater, Register, StopUpdater,
                  ScriptDies, StopWaitOver, End, updaterVars
    <2>2. CASE StartUpdater \/ Register \/ ScriptDies
      BY <2>2 DEF StartUpdater, Register, ScriptDies, ScriptGoes, updaterVars, TypeOK
    <2>3. CASE StopUpdater
      BY <2>3 DEF StopUpdater, ScriptGoes, updaterVars
    <2>4. CASE StopWaitOver
      BY <2>4 DEF StopWaitOver, ScriptGoes, updaterVars, TypeOK, InLoop
    <2>5. CASE End
      BY <2>5 DEF End, ScriptGoes, updaterVars
    <2> QED
      BY <1>2, <2>2, <2>3, <2>4, <2>5 DEF Script, ScriptStarts, ScriptStops
  <1>3. CASE Server \/ (\E g \in Groups : HandsOver(g)) \/ UNCHANGED vars
    BY <1>3 DEF Server, ServerChanges, OnDataChange, HandsOver, OnUpdate, updaterVars,
                scriptVars, vars
  <1>4. CASE UpdaterBegins \/ UpdaterChecks \/ UpdaterPollTimesOut \/ UpdaterEnds
    BY <1>4 DEF UpdaterBegins, UpdaterChecks, UpdaterPollTimesOut, UpdaterEnds,
                UpdaterGoes, scriptVars
  <1>5. CASE UpdaterPolls
    BY <1>5 DEF UpdaterPolls, UpdaterGoes, scriptVars
  <1>6. CASE UpdaterHandles
    <2>1. Len(handled') = Len(handled) + 1
      BY <1>6, HandleKeepsSent, ConcatProperties DEF TypeOK
    <2> QED
      BY <1>6, <2>1 DEF UpdaterHandles, UpdaterGoes, scriptVars
  <1> QED
    BY <1>2, <1>3, <1>4, <1>5, <1>6 DEF Next, Updater

--------------------------------------------------------------------------------
(* Theorems.                                                                *)

\* The invariant holds in every state.
THEOREM Invariance == Spec => []IInv
  <1>1. IInv /\ [Next]_vars => IInv'
    BY TypeStep, OrderStep, StopStep DEF IInv, OrderInv
  <1> QED
    BY InitIInv, <1>1, PTL DEF Spec

\* The variables keep their types, the thread's running flag is true exactly in
\* its body, and it holds an update exactly while it handles it.
THEOREM TypeCorrect == Spec => []TypeOK
  <1>1. IInv => TypeOK
    BY DEF IInv
  <1> QED
    BY Invariance, <1>1, PTL

\* Of an item of one group the assertions get the values in the server's order.
THEOREM HandledInOrder == Spec => []ValuesInOrder
  <1>1. IInv => ValuesInOrder
    <2> SUFFICES ASSUME IInv PROVE ValuesInOrder
      OBVIOUS
    <2>1. handled \in Seq(Updates) /\ held \in Seq(Updates) /\ queue \in Seq(Updates)
      BY DEF IInv, TypeOK
    <2>2. handled \o held \in Seq(Updates) /\ Len(handled \o held) = Len(handled) + Len(held)
      BY <2>1, ConcatProperties
    <2>3. Len(handled) \in Nat /\ Len(held) \in Nat /\ Len(queue) \in Nat
      BY <2>1, LenProperties
    <2>4. Len(Sent) = Len(handled) + Len(held) + Len(queue)
      BY <2>1, <2>2, <2>3, ConcatProperties DEF Sent
    <2>5. \A n \in 1..Len(handled) : n \in 1..Len(Sent) /\ Sent[n] = handled[n]
      <3> SUFFICES ASSUME NEW n \in 1..Len(handled)
                   PROVE  n \in 1..Len(Sent) /\ Sent[n] = handled[n]
        OBVIOUS
      <3>1. (handled \o held)[n] = handled[n]
        BY <2>1, <2>3, ConcatProperties
      <3>2. Sent[n] = (handled \o held)[n]
        BY <2>1, <2>2, <2>3, ConcatProperties DEF Sent
      <3> QED
        BY <3>1, <3>2, <2>3, <2>4
    <2> QED
      BY <2>5 DEF IInv, InOrder, ValuesInOrder
  <1> QED
    BY Invariance, <1>1, PTL

\* However long the queue is, a stop lets at most one more update through.
THEOREM StopIsPrompt == Spec => []AtMostOneAfterStop
  <1>1. IInv => AtMostOneAfterStop
    <2> SUFFICES ASSUME IInv PROVE AtMostOneAfterStop
      OBVIOUS
    <2>1. handledAtStop \in Nat
      BY DEF IInv, TypeOK
    <2> QED
      BY <2>1 DEF IInv, HandledSinceStop, AtMostOneAfterStop
  <1> QED
    BY Invariance, <1>1, PTL

\* No step after a confirmed stop hands an update to the assertions.
THEOREM StopConfirmed == Spec => StopConfirmedIsFinal
  <1>1. IInv /\ [Next]_vars => [stopConfirmed => handled' = handled]_vars
    <2> SUFFICES ASSUME IInv, [Next]_vars, stopConfirmed PROVE handled' = handled
      OBVIOUS
    <2>1. updaterPc # "handling"
      BY DEF IInv, StopSeen
    <2> QED
      BY <2>1, SentStep DEF IInv, UpdaterHandles, UpdaterGoes
  <1> QED
    BY Invariance, <1>1, PTL DEF Spec, StopConfirmedIsFinal

\* The queue and the updater thread together are the promised channel: what is
\* received is what was sent, in order, each update once.
THEOREM ChannelImplemented == Spec => ChannelSpec
  <1>1. Init => Channel!ChannelInit
    BY DEF Init, Channel!ChannelInit, Sent
  <1>2. IInv /\ [Next]_vars => [Channel!ChannelNext]_(Channel!channelVars)
    <2> SUFFICES ASSUME TypeOK, [Next]_vars
                 PROVE  [Channel!ChannelNext]_(Channel!channelVars)
      BY DEF IInv
    <2> USE DEF Channel!ChannelNext, Channel!channelVars
    <2>1. CASE Sent' = Sent /\ handled' = handled
      BY <2>1
    <2>2. CASE \E u \in Updates : Sent' = Append(Sent, u) /\ handled' = handled
      BY <2>2 DEF Channel!Send
    <2>3. CASE Sent' = Sent /\ handled' = handled \o held /\ Len(held) = 1
      <3>1. handled \in Seq(Updates) /\ held \in Seq(Updates) /\ queue \in Seq(Updates)
        BY DEF TypeOK
      <3>2. Len(handled) \in Nat /\ Len(held) = 1 /\ Len(queue) \in Nat
        BY <3>1, <2>3, LenProperties
      <3>3. held[1] \in Updates /\ held = <<held[1]>>
        <4>1. held[1] \in Updates
          <5>1. 1 \in 1..Len(held)
            BY <3>2
          <5> QED
            BY <3>1, <5>1, ElementOfSeq
        <4>2. <<held[1]>> \in Seq(Updates) /\ Len(<<held[1]>>) = 1
          BY <4>1
        <4>3. \A i \in 1..Len(held) : held[i] = <<held[1]>>[i]
          BY <3>2
        <4> QED
          BY <3>1, <3>2, <4>1, <4>2, <4>3, SeqEqual
      <3>4. handled' = Append(handled, held[1])
        BY <2>3, <3>1, <3>3, AppendIsConcat
      <3>5. /\ handled \o held \in Seq(Updates)
            /\ Len(handled \o held) = Len(handled) + 1
            /\ (handled \o held)[Len(handled) + 1] = held[1]
        <4>1. Len(handled) + 1 \in 1..(Len(handled) + Len(held))
          BY <3>2
        <4>2. /\ Len(handled) + 1 > Len(handled)
              /\ Len(handled) + 1 - Len(handled) = 1
          BY <3>2
        <4>3. /\ Len(handled \o held) = Len(handled) + Len(held)
              /\ (handled \o held)[Len(handled) + 1] =
                   IF Len(handled) + 1 <= Len(handled) THEN handled[Len(handled) + 1]
                   ELSE held[Len(handled) + 1 - Len(handled)]
          BY <3>1, <4>1, ConcatProperties
        <4> QED
          BY <3>1, <3>2, <4>2, <4>3, ConcatProperties
      <3>6. /\ Len(Sent) = Len(handled) + 1 + Len(queue)
            /\ Sent[Len(handled) + 1] = held[1]
        <4>1. /\ Len(handled) + 1 \in 1..(Len(handled \o held) + Len(queue))
              /\ Len(handled) + 1 <= Len(handled \o held)
          BY <3>2, <3>5
        <4> QED
          BY <3>1, <3>2, <3>5, <4>1, ConcatProperties DEF Sent
      <3> QED
        BY <2>3, <3>2, <3>4, <3>6 DEF Channel!Receive
    <2> QED
      BY SentStep, <2>1, <2>2, <2>3
  <1> QED
    BY Invariance, <1>1, <1>2, PTL DEF Spec, ChannelSpec, Channel!ChannelSpec
================================================================================
