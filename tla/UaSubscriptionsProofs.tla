-------------------------- MODULE UaSubscriptionsProofs --------------------------
(***************************************************************************)
(* Theorems about UaSubscriptions, for any names, threads and numbers of   *)
(* subscriptions and items, and whatever the waits and rehashes do.  What  *)
(* is said of the number of threads, of subscriptions that are served and  *)
(* of closed sessions assumes that threads begin within the wait of start. *)
(***************************************************************************)
EXTENDS UaSubscriptions, FiniteSetTheorems, TLAPS

Creating == {"starting", "startWait", "mapping"}
Deleting == {"stopping", "stopWait", "deleting", "unmapping"}
Adding == {"filling", "rehashing", "requesting"}

\* What the script thread is at.
TargetInv ==
  /\ scriptPc \in Creating => /\ targetName \in Names /\ named[targetName] = None
                              /\ target \in Ids /\ target \notin Mapped
  /\ scriptPc \in Deleting => /\ targetName \in Names /\ target \in Ids
                              /\ named[targetName] = target
  /\ scriptPc = "unmapping" => target \notin active
  /\ scriptPc \in Adding => /\ target \in Mapped
                            /\ target \in Ids
                            /\ batch \subseteq handles[target]

\* The server numbers the subscriptions, no number is given twice.
NumberedInv ==
  /\ active \subseteq 1..created
  /\ Mapped \subseteq 1..created
  /\ \A i \in serverItems : i[1] \in 1..created
  /\ \A t \in Threads : \A i \in inHand[t] : i[1] \in 1..created

\* The client knows item i, unless its subscription is gone.
Known(i) == i[2] \in handles[i[1]] /\ (i[1] \in active => i[1] \in Mapped)

KnownInv ==
  /\ \A i \in serverItems : Known(i)
  /\ \A t \in Threads : \A i \in inHand[t] : Known(i)

IInv == TypeOK /\ MappedIsActive /\ TargetInv /\ NumberedInv /\ KnownInv

--------------------------------------------------------------------------------
LEMMA InitIInv == Init => IInv
  <1> SUFFICES ASSUME Init PROVE IInv
    OBVIOUS
  <1>1. Mapped = {}
    BY DEF Init, Mapped
  <1>2. TypeOK
    <2>1. /\ created \in 0..MaxSubscriptions /\ serverSubs \subseteq 1..created
      BY SubscriptionsAssumption DEF Init
    <2>2. /\ named \in [Names -> Ids \cup {None}] /\ handles \in [Ids -> SUBSET Handles]
          /\ threadPc \in [Threads -> {"unborn", "born"} \cup Alive]
          /\ inHand \in [Threads -> SUBSET Items]
      BY DEF Init
    <2> QED
      BY <2>1, <2>2 DEF Init, TypeOK
  <1>3. MappedIsActive /\ TargetInv
    BY DEF Init, MappedIsActive, TargetInv, Creating, Deleting, Adding
  <1>4. NumberedInv /\ KnownInv
    BY <1>1 DEF Init, NumberedInv, KnownInv
  <1> QED
    BY <1>2, <1>3, <1>4 DEF IInv

\* None is not a number the server gives.
LEMMA NoneIsNoId == None \notin Ids
  BY DEF None, Ids

\* Every step of the script thread and of the server keeps the types.
LEMMA ScriptTypes == TypeOK /\ (Calls \/ Steps) => TypeOK'
  <1> SUFFICES ASSUME TypeOK, Calls \/ Steps PROVE TypeOK'
    OBVIOUS
  <1> USE SubscriptionsAssumption
      DEF TypeOK, ScriptGoes, mapVars, serverVars, flagVars, threadVars
  <1>1. ASSUME NEW n \in Names, CreateSubscription(n) PROVE TypeOK'
    <2>1. /\ created' = created + 1 /\ created' \in 0..MaxSubscriptions
          /\ created' \in Ids /\ target' = created'
          /\ 1..created \subseteq 1..created'
      BY <1>1 DEF CreateSubscription, Ids
    <2>2. serverSubs' \subseteq 1..created'
      <3>1. serverSubs' = serverSubs \/ serverSubs' = serverSubs \cup {created'}
        BY <1>1 DEF CreateSubscription
      <3>2. serverSubs \subseteq 1..created' /\ created' \in 1..created'
        BY <2>1 DEF Ids
      <3> QED
        BY <3>1, <3>2
    <2>3. active' \subseteq Ids
      BY <1>1, <2>1 DEF CreateSubscription
    <2>4. /\ scriptPc' = "starting" /\ targetName' \in Names
          /\ UNCHANGED <<batch, named, handles, rehashing, serverItems, pending,
                         channelOpen, flagVars, threadVars>>
      BY <1>1 DEF CreateSubscription
    <2> QED
      BY <2>1, <2>2, <2>3, <2>4
  <1>2. ASSUME NEW n \in Names, DeleteSubscription(n) \/ MonitorNodes(n) PROVE TypeOK'
    BY <1>2, NoneIsNoId DEF DeleteSubscription, MonitorNodes
  <1>3. CASE CloseChannel \/ CloseFails
    BY <1>3 DEF CloseChannel, CloseFails
  <1>4. CASE StartThread
    BY <1>4 DEF StartThread
  <1>5. CASE StartWaitOver \/ StopWaitOver
    BY <1>5 DEF StartWaitOver, StopWaitOver
  <1>6. CASE MapSubscription \/ UnmapSubscription
    BY <1>6 DEF MapSubscription, UnmapSubscription
  <1>7. CASE StopThread
    BY <1>7 DEF StopThread
  <1>8. CASE DeleteOnServer
    BY <1>8 DEF DeleteOnServer
  <1>9. CASE BeginRehash
    BY <1>9 DEF BeginRehash
  <1>10. CASE PutHandle
    BY <1>10 DEF PutHandle
  <1>11. CASE CreateMonitoredItems
    <2>1. PICK S \in SUBSET batch :
            LET taken == IF target \in serverSubs THEN {target} \X S ELSE {}
            IN  /\ serverItems' = serverItems \cup taken
                /\ pending' = pending \cup taken
      BY <1>11 DEF CreateMonitoredItems
    <2>2. (IF target \in serverSubs THEN {target} \X S ELSE {}) \subseteq Items
      <3>1. target \in serverSubs => target \in Ids
        BY DEF Ids
      <3> QED
        BY <3>1 DEF Items
    <2> QED
      BY <1>11, <2>1, <2>2 DEF CreateMonitoredItems
  <1> QED
    BY <1>1, <1>2, <1>3, <1>4, <1>5, <1>6, <1>7, <1>8, <1>9, <1>10, <1>11 DEF Calls, Steps

\* So does every step of a publication thread, and a value change.
LEMMA ThreadTypes ==
  ASSUME TypeOK,
         (\E t \in Threads : Publishes(t)) \/ (\E i \in Items : ValueChanges(i))
         \/ UNCHANGED vars
  PROVE  /\ TypeOK'
         /\ UNCHANGED <<scriptVars, mapVars, created, serverItems>>
         /\ \A t \in Threads : inHand'[t] \subseteq inHand[t] \cup serverItems
  <1> USE DEF TypeOK, mapVars, scriptVars, serverVars, flagVars, ThreadGoes
  <1>1. ASSUME NEW t \in Threads, ThreadBegins(t) \/ ThreadChecks(t) \/ PublishEmpty(t)
                                  \/ ThreadEnds(t)
        PROVE  TypeOK' /\ UNCHANGED <<scriptVars, mapVars, created, serverItems, inHand>>
    <2>1. threadPc' \in [Threads -> {"unborn", "born"} \cup Alive]
      BY <1>1 DEF ThreadBegins, ThreadChecks, PublishEmpty, ThreadEnds, Alive
    <2>2. isRunning' \in BOOLEAN
      BY <1>1 DEF ThreadBegins, ThreadChecks, PublishEmpty, ThreadEnds
    <2> QED
      BY <1>1, <2>1, <2>2 DEF ThreadBegins, ThreadChecks, PublishEmpty, ThreadEnds
  <1>2. ASSUME NEW t \in Threads, NEW s \in Ids, PublishAnswered(t, s)
        PROVE  /\ TypeOK' /\ UNCHANGED <<scriptVars, mapVars, created, serverItems>>
               /\ \A u \in Threads : inHand'[u] \subseteq inHand[u] \cup serverItems
    <2>1. threadPc' \in [Threads -> {"unborn", "born"} \cup Alive]
      BY <1>2 DEF PublishAnswered, Alive
    <2>2. {i \in pending : i[1] = s} \subseteq serverItems
      OBVIOUS
    <2>3. inHand' \in [Threads -> SUBSET Items] /\ pending' \subseteq serverItems
      BY <1>2, <2>2 DEF PublishAnswered
    <2> QED
      BY <1>2, <2>1, <2>2, <2>3 DEF PublishAnswered
  <1>3. ASSUME NEW t \in Threads, NEW i \in Items, Handle(t, i)
        PROVE  /\ TypeOK' /\ UNCHANGED <<scriptVars, mapVars, created, serverItems>>
               /\ \A u \in Threads : inHand'[u] \subseteq inHand[u]
    <2>1. inHand' \in [Threads -> SUBSET Items]
      BY <1>3 DEF Handle
    <2>2. threadPc' \in [Threads -> {"unborn", "born"} \cup Alive]
      BY <1>3 DEF Handle, Alive
    <2>3. lost' \subseteq Items
      BY <1>3 DEF Handle
    <2> QED
      BY <1>3, <2>1, <2>2, <2>3 DEF Handle
  <1>4. ASSUME NEW t \in Threads, NEW i \in Items, HandlerThrows(t, i)
        PROVE  /\ TypeOK' /\ UNCHANGED <<scriptVars, mapVars, created, serverItems>>
               /\ \A u \in Threads : inHand'[u] \subseteq inHand[u]
    <2>1. inHand' \in [Threads -> SUBSET Items]
      BY <1>4 DEF HandlerThrows
    <2>2. threadPc' \in [Threads -> {"unborn", "born"} \cup Alive]
      BY <1>4 DEF HandlerThrows, Alive
    <2> QED
      BY <1>4, <2>1, <2>2 DEF HandlerThrows
  <1>5. ASSUME NEW i \in Items, ValueChanges(i)
        PROVE  TypeOK' /\ UNCHANGED <<scriptVars, mapVars, created, serverItems, inHand>>
    BY <1>5 DEF ValueChanges, threadVars
  <1>6. CASE UNCHANGED vars
    BY <1>6 DEF vars, threadVars
  <1> QED
    BY <1>1, <1>2, <1>3, <1>4, <1>5, <1>6 DEF Publishes

\* A step that leaves the maps alone keeps what the maps know.
LEMMA MapsUntouched ==
  ASSUME IInv, TypeOK',
         UNCHANGED <<named, active, handles, created>>,
         serverItems' \subseteq serverItems,
         \A t \in Threads : inHand'[t] \subseteq inHand[t] \cup serverItems,
         scriptPc = "unmapping" => UNCHANGED <<scriptPc, targetName>>
  PROVE  MappedIsActive' /\ NumberedInv' /\ KnownInv' /\ Mapped' = Mapped
  <1>1. Mapped' = Mapped
    BY DEF Mapped
  <1>2. MappedIsActive'
    BY DEF IInv, MappedIsActive
  <1>3. NumberedInv'
    BY <1>1 DEF IInv, NumberedInv
  <1>4. \A i : Known(i)' <=> Known(i)
    BY <1>1 DEF Known
  <1>5. KnownInv'
    BY <1>4 DEF IInv, KnownInv
  <1> QED
    BY <1>1, <1>2, <1>3, <1>5

\* The publication threads and the server find things as the script left them.
LEMMA ThreadStep ==
  ASSUME IInv,
         (\E t \in Threads : Publishes(t)) \/ (\E i \in Items : ValueChanges(i))
         \/ UNCHANGED vars
  PROVE  IInv'
  <1>1. /\ TypeOK'
        /\ UNCHANGED <<scriptVars, mapVars, created, serverItems>>
        /\ \A t \in Threads : inHand'[t] \subseteq inHand[t] \cup serverItems
    BY ThreadTypes DEF IInv
  <1>2. MappedIsActive' /\ NumberedInv' /\ KnownInv' /\ Mapped' = Mapped
    BY <1>1, MapsUntouched DEF scriptVars, mapVars
  <1>3. TargetInv'
    BY <1>1, <1>2 DEF IInv, TargetInv, scriptVars, mapVars
  <1> QED
    BY <1>1, <1>2, <1>3 DEF IInv

\* Steps of the script thread that neither map nor unmap nor add anything.
LEMMA WaitingStep ==
  ASSUME IInv, TypeOK',
         \/ StartThread \/ StartWaitOver \/ StopThread \/ StopWaitOver \/ BeginRehash
         \/ CloseChannel \/ CloseFails
         \/ \E n \in Names : DeleteSubscription(n) \/ MonitorNodes(n)
  PROVE  IInv'
  <1> USE DEF ScriptGoes, mapVars, serverVars, threadVars, Creating, Deleting, Adding
  <1>1. /\ UNCHANGED <<named, active, handles, created, inHand>>
        /\ serverItems' \subseteq serverItems
        /\ scriptPc # "unmapping" /\ scriptPc' # "unmapping"
    BY DEF StartThread, StartWaitOver, StopThread, StopWaitOver, BeginRehash, CloseChannel,
           CloseFails, DeleteSubscription, MonitorNodes
  <1>2. MappedIsActive' /\ NumberedInv' /\ KnownInv' /\ Mapped' = Mapped
    BY <1>1, MapsUntouched
  <1>3. TargetInv'
    <2>1. CASE StartThread \/ StartWaitOver \/ StopThread \/ StopWaitOver \/ BeginRehash
      BY <2>1, <1>1, <1>2 DEF IInv, TargetInv, StartThread, StartWaitOver, StopThread,
                              StopWaitOver, BeginRehash
    <2>2. CASE CloseChannel \/ CloseFails
      BY <2>2, <1>1, <1>2 DEF IInv, TargetInv, CloseChannel, CloseFails
    <2>3. ASSUME NEW n \in Names, DeleteSubscription(n) PROVE TargetInv'
      <3>1. targetName' = n /\ target' = named[n] /\ named[n] \in Ids
        BY <2>3 DEF DeleteSubscription, IInv, TypeOK
      <3> QED
        BY <2>3, <1>1, <1>2, <3>1 DEF DeleteSubscription, TargetInv
    <2>4. ASSUME NEW n \in Names, MonitorNodes(n) PROVE TargetInv'
      <3>1. target' = named[n] /\ named[n] \in active /\ batch' = {}
        BY <2>4 DEF MonitorNodes
      <3>2. named[n] \in Ids /\ named[n] \in Mapped
        BY <3>1, NoneIsNoId DEF IInv, TypeOK, Mapped
      <3> QED
        BY <2>4, <1>1, <1>2, <3>1, <3>2 DEF MonitorNodes, TargetInv
    <2> QED
      BY <2>1, <2>2, <2>3, <2>4
  <1> QED
    BY <1>2, <1>3 DEF IInv

\* A new subscription has a number that nothing else has, and no item.
LEMMA CreateStep ==
  ASSUME IInv, TypeOK', NEW n \in Names, CreateSubscription(n)
  PROVE  IInv'
  <1>1. /\ UNCHANGED <<named, handles, serverItems, inHand>> /\ Mapped' = Mapped
        /\ created \in Nat /\ created' = created + 1 /\ target' = created'
        /\ created' \in Ids /\ targetName' = n /\ named[n] = None
        /\ scriptPc = "idle" /\ scriptPc' = "starting"
    BY DEF CreateSubscription, ScriptGoes, threadVars, Mapped, IInv, TypeOK, Ids
  <1>2. active \subseteq active' /\ active' \subseteq active \cup {created'}
    BY DEF CreateSubscription
  <1>3. created' \notin Mapped
    BY <1>1 DEF IInv, NumberedInv
  <1>4. MappedIsActive'
    BY <1>1, <1>2 DEF IInv, MappedIsActive
  <1>5. TargetInv'
    BY <1>1, <1>3 DEF IInv, TargetInv, Creating, Deleting, Adding
  <1>6. NumberedInv'
    BY <1>1, <1>2 DEF IInv, NumberedInv
  <1>7. \A i : i[1] \in 1..created /\ Known(i) => Known(i)'
    BY <1>1, <1>2 DEF Known
  <1>8. KnownInv'
    BY <1>1, <1>7 DEF IInv, KnownInv, NumberedInv
  <1> QED
    BY <1>4, <1>5, <1>6, <1>8 DEF IInv

\* To map the new subscription adds to what is found.
LEMMA MapStep ==
  ASSUME IInv, TypeOK', MapSubscription
  PROVE  IInv'
  <1>1. /\ UNCHANGED <<targetName, target, active, handles, created, serverItems, inHand>>
        /\ scriptPc = "mapping" /\ scriptPc' = "idle"
        /\ targetName \in Names /\ named[targetName] = None
        /\ target \in Ids /\ target \notin Mapped
    BY DEF MapSubscription, ScriptGoes, serverVars, threadVars, IInv, TargetInv, Creating
  <1>2. CASE target \notin active
    <2>1. UNCHANGED named
      BY <1>2 DEF MapSubscription
    <2>2. MappedIsActive' /\ NumberedInv' /\ KnownInv'
      BY <1>1, <2>1, MapsUntouched
    <2> QED
      BY <1>1, <2>2 DEF IInv, TargetInv, Creating, Deleting, Adding
  <1>3. CASE target \in active
    <2>1. /\ named' = [named EXCEPT ![targetName] = target]
          /\ named \in [Names -> Ids \cup {None}]
      BY <1>3 DEF MapSubscription, IInv, TypeOK
    <2>2. /\ named'[targetName] = target
          /\ \A n \in Names \ {targetName} : named'[n] = named[n]
      BY <1>1, <2>1
    <2>3. Mapped' = Mapped \cup {target}
      <3>1. \A n \in Names : named'[n] \in Mapped \cup {target, None}
        BY <2>2 DEF Mapped
      <3>2. \A s \in Mapped : \E n \in Names : named'[n] = s /\ s # None
        BY <1>1, <2>2 DEF Mapped
      <3> QED
        BY <1>1, <2>2, <3>1, <3>2, NoneIsNoId DEF Mapped
    <2>4. MappedIsActive'
      <3> SUFFICES ASSUME NEW n \in Names, named'[n] # None
                   PROVE  /\ named'[n] \in active
                          /\ \A m \in Names : named'[m] = named'[n] => m = n
        BY <1>1 DEF MappedIsActive
      <3>1. CASE n = targetName
        BY <3>1, <1>1, <1>3, <2>2, NoneIsNoId DEF Mapped
      <3>2. CASE n # targetName
        <4>1. named[n] # None /\ named[n] \in Mapped
          BY <3>2, <2>2 DEF Mapped
        <4> QED
          BY <3>2, <4>1, <1>1, <2>2 DEF IInv, MappedIsActive
      <3> QED
        BY <3>1, <3>2
    <2>5. TargetInv'
      BY <1>1 DEF TargetInv, Creating, Deleting, Adding
    <2>6. NumberedInv'
      BY <1>1, <1>3, <2>3 DEF IInv, NumberedInv
    <2>7. \A i : Known(i) => Known(i)'
      BY <1>1, <2>3 DEF Known
    <2>8. KnownInv'
      BY <1>1, <2>7 DEF IInv, KnownInv
    <2> QED
      BY <2>4, <2>5, <2>6, <2>8 DEF IInv
  <1> QED
    BY <1>2, <1>3

\* The subscription stops being active before it stops being found.
LEMMA DeleteStep ==
  ASSUME IInv, TypeOK', DeleteOnServer
  PROVE  IInv'
  <1>1. /\ UNCHANGED <<targetName, target, named, handles, created, inHand>>
        /\ Mapped' = Mapped
        /\ active' = active \ {target} /\ serverItems' \subseteq serverItems
        /\ scriptPc = "deleting" /\ scriptPc' = "unmapping"
        /\ targetName \in Names /\ target \in Ids /\ named[targetName] = target
    BY DEF DeleteOnServer, ScriptGoes, threadVars, Mapped, IInv, TargetInv, Deleting
  <1>2. MappedIsActive'
    <2> SUFFICES ASSUME NEW n \in Names, named[n] # None
                 PROVE  /\ named[n] \in active' \/ n = targetName
                        /\ \A m \in Names : named[m] = named[n] => m = n
      BY <1>1 DEF MappedIsActive
    <2> QED
      BY <1>1 DEF IInv, MappedIsActive
  <1>3. TargetInv'
    BY <1>1 DEF TargetInv, Creating, Deleting, Adding
  <1>4. NumberedInv'
    BY <1>1 DEF IInv, NumberedInv
  <1>5. \A i : Known(i) => Known(i)'
    BY <1>1 DEF Known
  <1>6. KnownInv'
    BY <1>1, <1>5 DEF IInv, KnownInv
  <1> QED
    BY <1>2, <1>3, <1>4, <1>6 DEF IInv

\* What is unmapped is not active any more.
LEMMA UnmapStep ==
  ASSUME IInv, TypeOK', UnmapSubscription
  PROVE  IInv'
  <1>1. /\ UNCHANGED <<target, active, handles, created, serverItems, inHand>>
        /\ scriptPc = "unmapping" /\ scriptPc' = "idle"
        /\ target \notin active /\ targetName \in Names /\ named[targetName] = target
        /\ target \in Ids
    BY DEF UnmapSubscription, ScriptGoes, serverVars, threadVars, IInv, TargetInv, Deleting
  <1>2. \A n \in Names : named'[n] = IF named[n] = target THEN None ELSE named[n]
    BY DEF UnmapSubscription
  <1>3. Mapped' = Mapped \ {target}
    BY <1>1, <1>2, NoneIsNoId DEF Mapped
  <1>4. MappedIsActive'
    <2> SUFFICES ASSUME NEW n \in Names, named'[n] # None
                 PROVE  /\ named'[n] \in active
                        /\ \A m \in Names : named'[m] = named'[n] => m = n
      BY <1>1 DEF MappedIsActive
    <2>1. named'[n] = named[n] /\ named[n] # None /\ n # targetName
      BY <1>1, <1>2
    <2> QED
      BY <2>1, <1>1, <1>2 DEF IInv, MappedIsActive
  <1>5. TargetInv'
    BY <1>1 DEF TargetInv, Creating, Deleting, Adding
  <1>6. NumberedInv'
    BY <1>1, <1>3 DEF IInv, NumberedInv
  <1>7. \A i : Known(i) => Known(i)'
    BY <1>1, <1>3 DEF Known
  <1>8. KnownInv'
    BY <1>1, <1>7 DEF IInv, KnownInv
  <1> QED
    BY <1>4, <1>5, <1>6, <1>8 DEF IInv

\* Handles are only added.
LEMMA PutStep ==
  ASSUME IInv, TypeOK', PutHandle
  PROVE  IInv'
  <1>1. /\ UNCHANGED <<target, named, active, created, serverItems, inHand>>
        /\ Mapped' = Mapped
        /\ scriptPc \in Adding /\ scriptPc' \in {"filling", "requesting"}
        /\ target \in Ids /\ target \in Mapped /\ batch \subseteq handles[target]
    BY DEF PutHandle, serverVars, threadVars, Mapped, Adding, IInv, TargetInv
  <1>2. /\ \A s \in Ids : handles[s] \subseteq handles'[s]
        /\ batch' \subseteq handles'[target]
    BY <1>1 DEF PutHandle, IInv, TypeOK
  <1>3. MappedIsActive' /\ NumberedInv'
    BY <1>1 DEF IInv, MappedIsActive, NumberedInv, Adding
  <1>4. TargetInv'
    BY <1>1, <1>2 DEF TargetInv, Creating, Deleting, Adding
  <1>5. \A i \in Items : Known(i) => Known(i)'
    BY <1>1, <1>2 DEF Known, Items
  <1>6. KnownInv'
    BY <1>1, <1>5 DEF IInv, KnownInv, TypeOK
  <1> QED
    BY <1>3, <1>4, <1>6 DEF IInv

\* The server takes items whose handles were put before.
LEMMA RequestStep ==
  ASSUME IInv, TypeOK', CreateMonitoredItems
  PROVE  IInv'
  <1>1. /\ UNCHANGED <<target, named, active, handles, created, inHand>>
        /\ Mapped' = Mapped
        /\ scriptPc = "requesting" /\ scriptPc' = "idle"
        /\ target \in Ids /\ target \in Mapped /\ batch \subseteq handles[target]
    BY DEF CreateMonitoredItems, ScriptGoes, mapVars, threadVars, Mapped, Adding, IInv,
           TargetInv
  <1>2. MappedIsActive'
    BY <1>1 DEF IInv, MappedIsActive
  <1>3. TargetInv'
    BY <1>1 DEF TargetInv, Creating, Deleting, Adding
  <1>4. \A i \in serverItems' : i \in serverItems \/ (i[1] = target /\ i[2] \in batch)
    BY DEF CreateMonitoredItems
  <1>5. NumberedInv'
    BY <1>1, <1>4 DEF IInv, NumberedInv
  <1>6. \A i : Known(i)' <=> Known(i)
    BY <1>1 DEF Known
  <1>7. \A i : i[1] = target /\ i[2] \in batch => Known(i)
    BY <1>1 DEF Known
  <1>8. KnownInv'
    BY <1>1, <1>4, <1>6, <1>7 DEF IInv, KnownInv
  <1> QED
    BY <1>2, <1>3, <1>5, <1>8 DEF IInv

--------------------------------------------------------------------------------
\* The invariant holds in every state.
THEOREM Invariance == Spec => []IInv
  <1>1. ASSUME IInv, Calls \/ Steps PROVE IInv'
    <2>1. TypeOK'
      BY <1>1, ScriptTypes DEF IInv
    <2> QED
      BY <1>1, <2>1, CreateStep, MapStep, DeleteStep, UnmapStep, PutStep, RequestStep,
         WaitingStep DEF Calls, Steps
  <1>2. IInv /\ [Next]_vars => IInv'
    BY <1>1, ThreadStep DEF Next
  <1> QED
    BY InitIInv, <1>2, PTL DEF Spec

\* The variables keep their types; what is pending is monitored.
THEOREM TypeCorrect == Spec => []TypeOK
  <1>1. IInv => TypeOK
    BY DEF IInv
  <1> QED
    BY Invariance, <1>1, PTL

\* A subscription that is found by its name is active, save while it is deleted.
THEOREM FoundIsActive == Spec => []MappedIsActive
  <1>1. IInv => MappedIsActive
    BY DEF IInv
  <1> QED
    BY Invariance, <1>1, PTL

\* No notification for an active subscription is dropped, whatever the timing of
\* script and publication threads, unless its map of items is being rehashed.
THEOREM NotificationsFindItems == Spec => LostOnlyInRehash
  <1>1. IInv /\ [Next]_vars => [lost' # lost => rehashing # None]_vars
    <2> SUFFICES ASSUME IInv, [Next]_vars, lost' # lost PROVE rehashing # None
      OBVIOUS
    <2>1. PICK t \in Threads, i \in Items : Handle(t, i)
      BY DEF vars, Next, Calls, Steps, CreateSubscription, DeleteSubscription, MonitorNodes,
             CloseChannel, CloseFails, StartThread, StartWaitOver, MapSubscription,
             StopThread, StopWaitOver, DeleteOnServer, UnmapSubscription, BeginRehash,
             PutHandle, CreateMonitoredItems, ValueChanges, Publishes, ThreadBegins,
             ThreadChecks, PublishAnswered, PublishEmpty, HandlerThrows, ThreadEnds,
             threadVars
    <2>2. i \in inHand[t] /\ (Found(i) => rehashing = i[1])
      BY <2>1 DEF Handle
    <2>3. i[1] \in active
      BY <2>1 DEF Handle
    <2>4. Found(i)
      BY <2>2, <2>3 DEF IInv, KnownInv, Known, Found
    <2>5. i[1] \in Ids
      BY DEF Items
    <2> QED
      BY <2>2, <2>4, <2>5, NoneIsNoId
  <1> QED
    BY Invariance, <1>1, PTL DEF Spec, LostOnlyInRehash

--------------------------------------------------------------------------------
(* One publication thread.                                                  *)

\* The premise of NoSlowStart, state by state.
InTime == \A t \in Threads : threadPc[t] = "born" => scriptPc = "startWait"

\* The flag is set while the one thread is alive, and for ever if it died; while the thread
\* has not begun the script waits.
ThreadInv ==
  /\ OneThread
  /\ (\E t \in Threads : threadPc[t] \in Alive) => isRunning
  /\ \A t \in Threads : threadPc[t] = "born" => scriptPc = "startWait" /\ ~isRunning

LEMMA ThreadInvStep ==
  ASSUME TypeOK, ThreadInv, InTime', [Next]_vars
  PROVE  ThreadInv'
  <1> USE DEF TypeOK, ThreadInv, OneThread, ScriptGoes, ThreadGoes, serverVars, mapVars,
              flagVars, scriptVars
  <1>1. ASSUME UNCHANGED <<flagVars, threadPc>>,
               scriptPc' # "startWait" => scriptPc # "startWait" \/ isRunning
        PROVE  ThreadInv'
    BY <1>1 DEF Alive
  <1>2. CASE StartThread
    <2>1. CASE isRunning
      BY <2>1, <1>2, <1>1 DEF StartThread
    <2>2. CASE ~isRunning
      <3>1. PICK t \in Threads : /\ threadPc[t] = "unborn"
                                 /\ threadPc' = [threadPc EXCEPT ![t] = "born"]
        BY <2>2, <1>2 DEF StartThread
      <3>2. \A u \in Threads : threadPc[u] = "unborn"
        BY <2>2, <1>2 DEF StartThread
      <3>3. /\ threadPc'[t] = "born" /\ \A u \in Threads \ {t} : threadPc'[u] = "unborn"
            /\ ~isRunning' /\ scriptPc' = "startWait"
        BY <2>2, <3>1, <3>2, <1>2 DEF StartThread
      <3> QED
        BY <3>3 DEF Alive
    <2> QED
      BY <2>1, <2>2
  <1>3. CASE StopThread
    <2>1. UNCHANGED <<isRunning, threadPc>> /\ scriptPc # "startWait"
      BY <1>3 DEF StopThread, threadVars
    <2> QED
      BY <2>1
  <1>4. CASE StartWaitOver
    <2>1. UNCHANGED <<flagVars, threadPc>> /\ scriptPc' = "mapping"
      BY <1>4 DEF StartWaitOver, threadVars
    <2>2. \A t \in Threads : threadPc[t] # "born"
      BY <2>1 DEF InTime
    <2> QED
      BY <2>1, <2>2 DEF Alive
  <1>5. CASE Calls \/ StopWaitOver \/ MapSubscription \/ DeleteOnServer
             \/ UnmapSubscription \/ BeginRehash \/ PutHandle \/ CreateMonitoredItems
             \/ (\E i \in Items : ValueChanges(i)) \/ UNCHANGED vars
    <2>1. UNCHANGED <<flagVars, threadPc>> /\ (scriptPc = "startWait" => UNCHANGED scriptPc)
      BY <1>5 DEF Calls, CreateSubscription, DeleteSubscription, MonitorNodes, CloseChannel,
                  CloseFails, StopWaitOver, MapSubscription, DeleteOnServer,
                  UnmapSubscription, BeginRehash, PutHandle, CreateMonitoredItems,
                  ValueChanges, threadVars, vars
    <2> QED
      BY <2>1, <1>1
  <1>6. ASSUME NEW t \in Threads, Publishes(t) PROVE ThreadInv'
    <2>1. /\ threadPc[t] # "unborn" /\ UNCHANGED scriptPc
          /\ \A u \in Threads \ {t} : threadPc'[u] = threadPc[u]
      BY <1>6 DEF Publishes, ThreadBegins, ThreadChecks, PublishAnswered, PublishEmpty, Handle,
                  HandlerThrows, ThreadEnds
    <2>2. \A u \in Threads \ {t} : threadPc[u] = "unborn" /\ threadPc'[u] = "unborn"
      BY <2>1
    <2>3. /\ threadPc'[t] # "born"
          /\ isRunning' \in BOOLEAN
          /\ threadPc'[t] \in Alive => isRunning'
      <3>1. CASE ThreadBegins(t)
        BY <3>1 DEF ThreadBegins, Alive
      <3>2. CASE ThreadEnds(t)
        BY <3>2 DEF ThreadEnds, Alive
      <3>3. CASE ThreadChecks(t) \/ PublishEmpty(t) \/ \E s \in Ids : PublishAnswered(t, s)
        <4>1. threadPc[t] \in Alive /\ threadPc'[t] \in Alive /\ UNCHANGED isRunning
          BY <3>3 DEF ThreadChecks, PublishEmpty, PublishAnswered, Alive
        <4> QED
          BY <4>1 DEF Alive
      <3>4. CASE \E i \in Items : Handle(t, i)
        <4>1. threadPc[t] \in Alive /\ threadPc'[t] \in Alive /\ UNCHANGED isRunning
          BY <3>4 DEF Handle, Alive
        <4> QED
          BY <4>1 DEF Alive
      <3>5. CASE \E i \in Items : HandlerThrows(t, i)
        BY <3>5 DEF HandlerThrows, Alive
      <3> QED
        BY <1>6, <3>1, <3>2, <3>3, <3>4, <3>5 DEF Publishes
    <2> QED
      BY <2>1, <2>2, <2>3 DEF Alive
  <1> QED
    BY <1>2, <1>3, <1>4, <1>5, <1>6 DEF Next, Steps

\* Two publication threads come only of a thread that begins after the wait of start():
\* never of a slow stop or of a thread that died.
THEOREM OneThreadAtATime == Spec => OneUnlessSlowStart
  <1>1. Init => ThreadInv
    BY DEF Init, ThreadInv, OneThread, Alive
  <1>2. TypeOK /\ ThreadInv /\ InTime' /\ [Next]_vars => ThreadInv'
    BY ThreadInvStep
  <1>3. ThreadInv => OneThread
    BY DEF ThreadInv
  <1>4. NoSlowStart <=> []InTime
    BY DEF NoSlowStart, InTime
  <1> QED
    BY TypeCorrect, <1>1, <1>2, <1>3, <1>4, PTL DEF Spec, OneUnlessSlowStart

--------------------------------------------------------------------------------
(* Served subscriptions.                                                    *)

\* The subscriptions that are mapped and not being deleted.
Kept == Mapped \ (IF scriptPc \in Deleting THEN {target} ELSE {})

Closing == {"closing", "closeWait", "closed", "failed"}

Serving == keepRunning /\ \E t \in Threads : threadPc[t] \notin {"unborn", "leaving"}

\* No thread leaves while it is to run on; there is one as soon as start() is called, and as
\* long as a subscription is kept; none is kept when the thread is stopped.
ServedInv ==
  /\ keepRunning => \A t \in Threads : threadPc[t] # "leaving"
  /\ scriptPc \in {"startWait", "mapping"} => Serving
  /\ scriptPc \in {"stopping", "stopWait"} => Kept = {}
  /\ scriptPc \notin Closing /\ Kept # {} => Serving

\* The only subscription that is mapped is the one that is deleted.
LEMMA LastOne ==
  ASSUME TypeOK, NEW s \in Mapped, Cardinality(Mapped) = 1
  PROVE  Mapped = {s}
  <1>1. Mapped \subseteq 1..MaxSubscriptions
    BY DEF Mapped, TypeOK, Ids
  <1>2. IsFiniteSet(1..MaxSubscriptions)
    BY FS_Interval, SubscriptionsAssumption
  <1>3. IsFiniteSet(Mapped)
    BY <1>1, <1>2, FS_Subset
  <1>4. \E x : Mapped = {x}
    BY <1>3, FS_Singleton
  <1> QED
    BY <1>4

\* A step that takes no thread away, stops none and keeps no more subscriptions than before.
LEMMA StillServed ==
  ASSUME ServedInv, UNCHANGED <<keepRunning, threadPc>>, Kept' \subseteq Kept,
         scriptPc \in Closing => scriptPc' \in Closing,
         scriptPc' \in {"startWait", "mapping"} => scriptPc \in {"startWait", "mapping"},
         scriptPc' \in {"stopping", "stopWait"} => Kept' = {}
  PROVE  ServedInv'
  <1>1. Serving' <=> Serving
    BY DEF Serving
  <1> QED
    BY <1>1 DEF ServedInv

LEMMA ScriptServes ==
  ASSUME IInv, ThreadInv, ServedInv, Calls \/ Steps,
         scriptPc = "starting" /\ isRunning => keepRunning,
         isRunning => \E t \in Threads : threadPc[t] \in Alive
  PROVE  ServedInv'
  <1> USE DEF ScriptGoes, serverVars, mapVars, flagVars, threadVars, Deleting, Closing
  <1>1. ASSUME NEW n \in Names, CreateSubscription(n) \/ MonitorNodes(n) PROVE ServedInv'
    BY <1>1, StillServed DEF CreateSubscription, MonitorNodes, Kept, Mapped
  <1>2. ASSUME NEW n \in Names, DeleteSubscription(n) PROVE ServedInv'
    <2>1. /\ Mapped' = Mapped /\ target' \in Mapped /\ scriptPc = "idle"
          /\ UNCHANGED <<keepRunning, threadPc>>
          /\ scriptPc' = IF Cardinality(Mapped) = 1 THEN "stopping" ELSE "deleting"
      BY <1>2 DEF DeleteSubscription, Mapped
    <2>2. Kept = Mapped /\ Kept' = Mapped \ {target'}
      BY <2>1 DEF Kept
    <2>3. scriptPc' = "stopping" => Kept' = {}
      BY <2>1, <2>2, LastOne DEF IInv
    <2> QED
      BY <2>1, <2>2, <2>3, StillServed
  <1>3. CASE CloseChannel \/ CloseFails
    BY <1>3, StillServed DEF CloseChannel, CloseFails, Kept, Mapped
  <1>4. CASE StartThread
    <2>1. Kept' = Kept /\ scriptPc = "starting" /\ scriptPc' \in {"startWait", "mapping"}
      BY <1>4 DEF StartThread, Kept, Mapped
    <2>2. CASE isRunning
      <3>1. UNCHANGED <<keepRunning, threadPc>>
        BY <1>4, <2>2 DEF StartThread
      <3>2. Serving
        BY <2>1, <2>2 DEF ServedInv, Serving, Alive
      <3> QED
        BY <2>1, <3>1, <3>2 DEF ServedInv, Serving
    <2>3. CASE ~isRunning
      <3>1. keepRunning' = TRUE /\ \E t \in Threads : threadPc' = [threadPc EXCEPT ![t] = "born"]
        BY <1>4, <2>3 DEF StartThread
      <3>2. \A t \in Threads : threadPc[t] # "leaving"
        BY <2>3 DEF ThreadInv, Alive
      <3>3. Serving' /\ \A t \in Threads : threadPc'[t] # "leaving"
        BY <3>1, <3>2 DEF Serving, IInv, TypeOK
      <3> QED
        BY <2>1, <3>3 DEF ServedInv
    <2> QED
      BY <2>2, <2>3
  <1>5. CASE StartWaitOver
    BY <1>5, StillServed DEF StartWaitOver, Kept, Mapped
  <1>6. CASE MapSubscription
    <2>1. Serving /\ UNCHANGED <<keepRunning, threadPc>> /\ scriptPc' = "idle"
      BY <1>6 DEF MapSubscription, ServedInv
    <2> QED
      BY <2>1 DEF ServedInv, Serving
  <1>7. CASE StopThread
    <2>1. /\ UNCHANGED threadPc /\ Mapped' = Mapped /\ target' = target /\ (keepRunning' => keepRunning)
          /\ \/ scriptPc = "stopping" /\ scriptPc' \in {"stopWait", "deleting"}
             \/ scriptPc = "closing" /\ scriptPc' \in {"closeWait", "closed"}
      BY <1>7 DEF StopThread, Mapped
    <2>2. scriptPc = "stopping" => Kept' = {}
      BY <2>1 DEF ServedInv, Kept
    <2> QED
      BY <2>1, <2>2 DEF ServedInv
  <1>8. CASE StopWaitOver
    BY <1>8, StillServed DEF StopWaitOver, Kept, Mapped
  <1>9. CASE DeleteOnServer
    BY <1>9, StillServed DEF DeleteOnServer, Kept, Mapped
  <1>10. CASE UnmapSubscription
    <2>1. /\ UNCHANGED <<keepRunning, threadPc, target>> /\ scriptPc = "unmapping" /\ scriptPc' = "idle"
          /\ named' = [n \in Names |-> IF named[n] = target THEN None ELSE named[n]]
      BY <1>10 DEF UnmapSubscription
    <2>2. Mapped' \subseteq Mapped \ {target}
      BY <2>1 DEF Mapped
    <2>3. Kept' \subseteq Kept
      BY <2>1, <2>2 DEF Kept
    <2> QED
      BY <2>1, <2>3, StillServed
  <1>11. CASE BeginRehash \/ PutHandle \/ CreateMonitoredItems
    <2>1. /\ UNCHANGED <<keepRunning, threadPc, target, named>>
          /\ scriptPc \in Adding /\ scriptPc' \in Adding \cup {"idle"}
      BY <1>11 DEF BeginRehash, PutHandle, CreateMonitoredItems, Adding
    <2>2. Kept' = Kept
      BY <2>1 DEF Kept, Mapped, Adding
    <2> QED
      BY <2>1, <2>2, StillServed DEF Adding
  <1> QED
    BY <1>1, <1>2, <1>3, <1>4, <1>5, <1>6, <1>7, <1>8, <1>9, <1>10, <1>11 DEF Calls, Steps

LEMMA ThreadServes ==
  ASSUME IInv, ThreadInv, ThreadInv', ServedInv, NEW t \in Threads, Publishes(t),
         (isRunning => \E u \in Threads : threadPc[u] \in Alive)'
  PROVE  ServedInv'
  <1> USE DEF ThreadGoes, scriptVars, mapVars, serverVars, flagVars
  <1>1. /\ UNCHANGED <<scriptVars, mapVars, keepRunning>> /\ Kept' = Kept
        /\ threadPc[t] # "unborn" /\ \A u \in Threads \ {t} : threadPc'[u] = threadPc[u]
    BY DEF Publishes, ThreadBegins, ThreadChecks, PublishAnswered, PublishEmpty, Handle, HandlerThrows,
           ThreadEnds, Kept, Mapped, IInv, TypeOK
  <1>2. \A u \in Threads \ {t} : threadPc'[u] = "unborn"
    BY <1>1 DEF ThreadInv, OneThread
  <1>3. keepRunning => threadPc'[t] \notin {"unborn", "leaving"}
    <2>1. CASE ThreadBegins(t) \/ PublishEmpty(t) \/ (\E s \in Ids : PublishAnswered(t, s))
      BY <2>1 DEF ThreadBegins, PublishEmpty, PublishAnswered, IInv, TypeOK
    <2>2. CASE ThreadChecks(t)
      BY <2>2 DEF ThreadChecks, IInv, TypeOK
    <2>3. CASE \E i \in Items : Handle(t, i)
      BY <2>3 DEF Handle, IInv, TypeOK
    <2>4. CASE ThreadEnds(t)
      BY <2>4 DEF ThreadEnds, ServedInv
    <2>5. CASE \E i \in Items : HandlerThrows(t, i)
      <3>1. threadPc[t] \in Alive /\ threadPc'[t] = "unborn" /\ UNCHANGED isRunning
        BY <2>5 DEF HandlerThrows, Alive, IInv, TypeOK
      <3>2. isRunning' /\ \A u \in Threads : threadPc'[u] = "unborn"
        BY <1>2, <3>1 DEF ThreadInv
      <3> QED
        BY <3>2 DEF Alive
    <2> QED
      BY <2>1, <2>2, <2>3, <2>4, <2>5 DEF Publishes
  <1>4. keepRunning => Serving' /\ \A u \in Threads : threadPc'[u] # "leaving"
    BY <1>1, <1>2, <1>3 DEF Serving
  <1> QED
    BY <1>1, <1>4 DEF ServedInv, Serving

\* The premises of ServedUnlessLate, state by state.
Timely == scriptPc = "starting" /\ isRunning => keepRunning
FlagTrue == isRunning => \E t \in Threads : threadPc[t] \in Alive

\* A subscription is without publication thread between two calls only after a late start,
\* a late stop or the death of a thread.
THEOREM ServedUnlessStoppedLate == Spec => ServedUnlessLate
  <1>1. Init => ThreadInv
    BY DEF Init, ThreadInv, OneThread, Alive
  <1>2. TypeOK /\ ThreadInv /\ InTime' /\ [Next]_vars => ThreadInv'
    BY ThreadInvStep
  <1>3. Init => ServedInv
    BY DEF Init, ServedInv, Kept, Mapped
  <1>4. ASSUME IInv, ThreadInv, ThreadInv', ServedInv, Timely, FlagTrue, FlagTrue', [Next]_vars
        PROVE  ServedInv'
    <2>1. CASE (\E i \in Items : ValueChanges(i)) \/ UNCHANGED vars
      <3>1. UNCHANGED <<scriptPc, target, named, keepRunning, threadPc>>
        BY <1>4, <2>1 DEF ValueChanges, vars, scriptVars, mapVars, flagVars, threadVars
      <3>2. Kept' = Kept
        BY <3>1 DEF Kept, Mapped
      <3> QED
        BY <1>4, <3>1, <3>2 DEF ServedInv, Serving
    <2> QED
      BY <1>4, <2>1, ScriptServes, ThreadServes DEF Timely, FlagTrue, Next
  <1>5. ServedInv => ServedWhileActive
    BY DEF ServedInv, ServedWhileActive, Serving, Kept, Deleting, Closing
  <1>6. Spec /\ []InTime /\ []Timely /\ []FlagTrue => []ServedWhileActive
    BY Invariance, TypeCorrect, <1>1, <1>2, <1>3, <1>4, <1>5, PTL DEF Spec
  <1>7. /\ NoLateStop <=> []Timely
        /\ NoThreadDied <=> []FlagTrue
        /\ NoSlowStart <=> []InTime
    BY DEF NoLateStop, NoThreadDied, NoSlowStart, Timely, FlagTrue, InTime
  <1> QED
    BY <1>6, <1>7, PTL DEF ServedUnlessLate
--------------------------------------------------------------------------------
(* Closed sessions.                                                         *)

\* A thread that is there when the session is closed was told to stop.
ToldToStop ==
  scriptPc \in {"closeWait", "closed"} =>
    ~keepRunning \/ \A t \in Threads : threadPc[t] = "unborn"

\* If threads begin within the wait of start(), a session that is closed without a
\* fault leaves no publication thread that was not told to stop, and none is born later.
THEOREM ClosedIsToldToStop == Spec => (NoSlowStart => []ToldToStop)
  <1>1. Init => ThreadInv /\ ToldToStop
    BY DEF Init, ThreadInv, OneThread, Alive, ToldToStop
  <1>2. TypeOK /\ ThreadInv /\ InTime' /\ [Next]_vars => ThreadInv'
    BY ThreadInvStep
  <1>3. ASSUME TypeOK, ThreadInv, ToldToStop, [Next]_vars
        PROVE  ToldToStop'
    <2> USE DEF ScriptGoes, ThreadGoes, serverVars, mapVars, flagVars, scriptVars, threadVars
    <2>1. ASSUME UNCHANGED <<flagVars, threadPc>>,
                 scriptPc' \in {"closeWait", "closed"} => scriptPc \in {"closeWait", "closed"}
          PROVE  ToldToStop'
      BY <1>3, <2>1 DEF ToldToStop
    <2>2. CASE StopThread
      <3>1. CASE isRunning
        BY <2>2, <3>1 DEF StopThread, ToldToStop
      <3>2. CASE ~isRunning /\ scriptPc = "closing"
        <4>1. \A t \in Threads : threadPc[t] = "unborn"
          BY <1>3, <3>2 DEF ThreadInv, Alive, TypeOK
        <4> QED
          BY <2>2, <4>1 DEF StopThread, ToldToStop
      <3>3. CASE scriptPc # "closing"
        BY <2>2, <3>3 DEF StopThread, ToldToStop
      <3> QED
        BY <3>1, <3>2, <3>3
    <2>3. ASSUME NEW t \in Threads, Publishes(t) PROVE ToldToStop'
      <3>1. /\ threadPc[t] # "unborn" /\ UNCHANGED <<scriptPc, keepRunning>>
        BY <2>3 DEF Publishes, ThreadBegins, ThreadChecks, PublishAnswered, PublishEmpty, Handle,
                    HandlerThrows, ThreadEnds
      <3> QED
        BY <1>3, <3>1 DEF ToldToStop
    <2>4. CASE StartThread
      BY <2>4 DEF StartThread, ToldToStop
    <2>5. CASE (\E i \in Items : ValueChanges(i)) \/ UNCHANGED vars
      BY <2>1, <2>5 DEF ValueChanges, vars
    <2>6. CASE Calls
      BY <2>1, <2>6 DEF Calls, CreateSubscription, MonitorNodes, DeleteSubscription, CloseChannel,
                        CloseFails
    <2>7. CASE Steps /\ ~StartThread /\ ~StopThread
      BY <2>1, <2>7 DEF Steps, StartWaitOver, MapSubscription, StopWaitOver, DeleteOnServer,
                        UnmapSubscription, BeginRehash, PutHandle, CreateMonitoredItems
    <2> QED
      BY <1>3, <2>2, <2>3, <2>4, <2>5, <2>6, <2>7 DEF Next
  <1>4. NoSlowStart <=> []InTime
    BY DEF NoSlowStart, InTime
  <1> QED
    BY TypeCorrect, <1>1, <1>2, <1>3, <1>4, PTL DEF Spec
================================================================================
