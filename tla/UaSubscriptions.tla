---------------------------- MODULE UaSubscriptions ----------------------------
(***************************************************************************)
(* Subscriptions of an OPC-UA session and the thread that receives their   *)
(* notifications: ua.clientlib Session, Subscription, PublicationThread.   *)
(*                                                                         *)
(* The script thread creates and deletes subscriptions, adds items to them *)
(* and closes the session; every call to the server is a step of its own.  *)
(* A publication thread sends publish requests and looks the answers up in *)
(* the maps that the script thread changes, without a lock.  The script    *)
(* thread starts the publication thread with a subscription and stops it   *)
(* with the last one, and waits at most a second for it to react.          *)
(***************************************************************************)
EXTENDS Integers, FiniteSets

CONSTANTS
  Names,             \* the names a script gives to subscriptions
  NoName,            \* not a name
  MaxSubscriptions,  \* bound: how often a subscription is created
  MaxItems,          \* bound: monitored items of a subscription
  Threads,           \* bound: publication threads alive at the same time
  SlowStart,         \* a thread may take more than the wait to begin
  SlowStop,          \* a thread may take more than the wait to end
  HandlersThrow,     \* a handler of updates may throw a RuntimeException
  GrowAt             \* the entry with which monitoredItems is rehashed (13th, 25th..)

ASSUME SubscriptionsAssumption ==
  /\ NoName \notin Names
  /\ MaxSubscriptions \in Nat
  /\ MaxItems \in Nat
  /\ SlowStart \in BOOLEAN
  /\ SlowStop \in BOOLEAN
  /\ HandlersThrow \in BOOLEAN
  /\ GrowAt \subseteq Nat

None == 0                        \* no subscription
Ids == 1..MaxSubscriptions       \* Subscription.subscriptionId, given by the server
Handles == 1..MaxItems           \* client handles (the code counts from 2)
Items == Ids \X Handles

VARIABLES
  scriptPc,     \* where the script thread is
  targetName,   \* the name and ...
  target,       \* ... the subscription it works on
  batch,        \* the handles of the addMonitoredItems call in progress
  named,        \* Session.subscriptions: named[n], found by name and by id
  active,       \* the subscriptions whose active flag is set
  handles,      \* handles[s]: the keys of monitoredItems of subscription s
  rehashing,    \* the subscription whose monitoredItems is being rehashed
  created,      \* how many subscriptions were asked for
  serverSubs,   \* the subscriptions the server has
  serverItems,  \* the items the server monitors
  pending,      \* the items with a value the server has not published
  channelOpen,  \* the session channel is open
  keepRunning,  \* PublicationThread.keepRunning
  isRunning,    \* PublicationThread.isRunning
  threadPc,     \* threadPc[t]: where publication thread t is
  inHand,       \* inHand[t]: what t has not handled yet of the last answer
  lost          \* the notifications for which no item was found

scriptVars == <<scriptPc, targetName, target, batch>>
mapVars == <<named, active, handles, rehashing>>
serverVars == <<created, serverSubs, serverItems, pending, channelOpen>>
flagVars == <<keepRunning, isRunning>>
threadVars == <<threadPc, inHand, lost>>
vars == <<scriptVars, mapVars, serverVars, flagVars, threadVars>>

Alive == {"checking", "waiting", "handling", "leaving"}

TypeOK ==
  /\ scriptPc \in {"idle", "starting", "startWait", "mapping", "stopping", "stopWait",
                   "deleting", "unmapping", "filling", "rehashing", "requesting",
                   "closing", "closeWait", "closed", "failed"}
  /\ targetName \in Names \cup {NoName}
  /\ target \in Ids \cup {None}
  /\ batch \subseteq Handles
  /\ named \in [Names -> Ids \cup {None}]
  /\ active \subseteq Ids
  /\ handles \in [Ids -> SUBSET Handles]
  /\ rehashing \in Ids \cup {None}
  /\ created \in 0..MaxSubscriptions
  /\ serverSubs \subseteq 1..created
  /\ serverItems \subseteq Items
  /\ pending \subseteq serverItems
  /\ channelOpen \in BOOLEAN
  /\ keepRunning \in BOOLEAN
  /\ isRunning \in BOOLEAN
  /\ threadPc \in [Threads -> {"unborn", "born"} \cup Alive]
  /\ inHand \in [Threads -> SUBSET Items]
  /\ lost \subseteq Items

Init ==
  /\ scriptPc = "idle"
  /\ targetName = NoName
  /\ target = None
  /\ batch = {}
  /\ named = [n \in Names |-> None]
  /\ active = {}
  /\ handles = [s \in Ids |-> {}]
  /\ rehashing = None
  /\ created = 0
  /\ serverSubs = {}
  /\ serverItems = {}
  /\ pending = {}
  /\ channelOpen = TRUE
  /\ keepRunning = FALSE
  /\ isRunning = FALSE
  /\ threadPc = [t \in Threads |-> "unborn"]
  /\ inHand = [t \in Threads |-> {}]
  /\ lost = {}

--------------------------------------------------------------------------------
(* The script thread: Session.createSubscription.                           *)

ScriptGoes(from, to) == scriptPc = from /\ scriptPc' = to

Mapped == {named[n] : n \in Names} \ {None}

\* new Subscription: the server makes one or not, and if it does its answer may
\* be lost, and the subscription is not active.  A name that is in use is found
\* before, and nothing happens.
CreateSubscription(n) ==
  /\ ScriptGoes("idle", "starting")
  /\ named[n] = None
  /\ created < MaxSubscriptions
  /\ created' = created + 1
  /\ targetName' = n
  /\ target' = created'
  /\ \/ UNCHANGED serverSubs
     \/ serverSubs' = serverSubs \cup {created'}
  /\ active' \in {active, active \cup (serverSubs' \ serverSubs)}
  /\ UNCHANGED <<batch, named, handles, rehashing, serverItems, pending, channelOpen,
                 flagVars, threadVars>>

\* Mutation: whether a thread runs is not looked at.
StartThreadAnyway ==
  /\ ScriptGoes("starting", "startWait")
  /\ keepRunning' = TRUE
  /\ \E t \in Threads : /\ threadPc[t] = "unborn"
                        /\ threadPc' = [threadPc EXCEPT ![t] = "born"]
  /\ UNCHANGED <<targetName, target, batch, mapVars, serverVars, isRunning, inHand, lost>>

\* Mutation: keepRunning keeps the value the last stop gave it.
StartThreadToldToStop ==
  /\ scriptPc = "starting"
  /\ IF isRunning
     THEN scriptPc' = "mapping" /\ UNCHANGED threadPc
     ELSE /\ scriptPc' = "startWait"
          /\ \E t \in Threads : /\ threadPc[t] = "unborn"
                                /\ threadPc' = [threadPc EXCEPT ![t] = "born"]
  /\ UNCHANGED <<targetName, target, batch, mapVars, serverVars, flagVars, inHand, lost>>

\* PublicationThread.start(): nothing is done if a thread runs, be it one that was
\* told to stop.
StartThread ==
  /\ scriptPc = "starting"
  /\ IF isRunning
     THEN /\ scriptPc' = "mapping"
          /\ UNCHANGED <<keepRunning, threadPc>>
     ELSE /\ scriptPc' = "startWait"
          /\ keepRunning' = TRUE
          /\ \E t \in Threads : /\ threadPc[t] = "unborn"
                                /\ threadPc' = [threadPc EXCEPT ![t] = "born"]
  /\ UNCHANGED <<targetName, target, batch, mapVars, serverVars, isRunning, inHand, lost>>

\* The wait of start() is over; its result is not looked at.
StartWaitOver ==
  /\ ScriptGoes("startWait", "mapping")
  /\ isRunning \/ SlowStart
  /\ UNCHANGED <<targetName, target, batch, mapVars, serverVars, flagVars, threadVars>>

\* addToSubscriptionMap, if the server made the subscription.
MapSubscription ==
  /\ ScriptGoes("mapping", "idle")
  /\ named' = IF target \in active THEN [named EXCEPT ![targetName] = target] ELSE named
  /\ UNCHANGED <<targetName, target, batch, active, handles, rehashing, serverVars,
                 flagVars, threadVars>>

--------------------------------------------------------------------------------
(* Session.deleteSubscription.                                              *)

\* Mutation: every deletion stops the thread.
DeleteSubscriptionStops(n) ==
  /\ ScriptGoes("idle", "stopping")
  /\ named[n] # None
  /\ targetName' = n
  /\ target' = named[n]
  /\ UNCHANGED <<batch, mapVars, serverVars, flagVars, threadVars>>

\* The last subscription takes the publication thread with it.
DeleteSubscription(n) ==
  /\ scriptPc = "idle"
  /\ named[n] # None
  /\ targetName' = n
  /\ target' = named[n]
  /\ scriptPc' = IF Cardinality(Mapped) = 1 THEN "stopping" ELSE "deleting"
  /\ UNCHANGED <<batch, mapVars, serverVars, flagVars, threadVars>>

\* Mutation: the thread is not told.
StopThreadSilently ==
  /\ \/ scriptPc = "stopping" /\ scriptPc' = IF isRunning THEN "stopWait" ELSE "deleting"
     \/ scriptPc = "closing" /\ scriptPc' = IF isRunning THEN "closeWait" ELSE "closed"
  /\ UNCHANGED <<targetName, target, batch, mapVars, serverVars, flagVars, threadVars>>

\* PublicationThread.stop(): nothing is done if no thread runs.
StopThread ==
  /\ \/ scriptPc = "stopping" /\ scriptPc' = IF isRunning THEN "stopWait" ELSE "deleting"
     \/ scriptPc = "closing" /\ scriptPc' = IF isRunning THEN "closeWait" ELSE "closed"
  /\ keepRunning' = (keepRunning /\ ~isRunning)
  /\ UNCHANGED <<targetName, target, batch, mapVars, serverVars, isRunning, threadVars>>

\* The wait of stop() is over, after a second if the thread died and isRunning is for ever
\* set; its result is not looked at.
StopWaitOver ==
  /\ ScriptGoes("stopWait", "deleting") \/ ScriptGoes("closeWait", "closed")
  /\ ~isRunning \/ SlowStop \/ \A t \in Threads : threadPc[t] \notin Alive
  /\ UNCHANGED <<targetName, target, batch, mapVars, serverVars, flagVars, threadVars>>

\* Subscription.delete(): the flag is cleared first, the server may refuse or
\* its answer be lost.
DeleteOnServer ==
  /\ ScriptGoes("deleting", "unmapping")
  /\ active' = active \ {target}
  /\ \/ UNCHANGED <<serverSubs, serverItems, pending>>
     \/ /\ serverSubs' = serverSubs \ {target}
        /\ serverItems' = {i \in serverItems : i[1] # target}
        /\ pending' = {i \in pending : i[1] # target}
  /\ UNCHANGED <<targetName, target, batch, named, handles, rehashing, created,
                 channelOpen, flagVars, threadVars>>

\* Mutation: a subscription the server did not delete stays mapped.
UnmapDeleted ==
  /\ ScriptGoes("unmapping", "idle")
  /\ named' = [n \in Names |-> IF named[n] \in serverSubs THEN named[n]
                               ELSE IF named[n] = target THEN None ELSE named[n]]
  /\ UNCHANGED <<targetName, target, batch, active, handles, rehashing, serverVars,
                 flagVars, threadVars>>

\* removeFromSubscriptionMap, whatever the server said.
UnmapSubscription ==
  /\ ScriptGoes("unmapping", "idle")
  /\ named' = [n \in Names |-> IF named[n] = target THEN None ELSE named[n]]
  /\ UNCHANGED <<targetName, target, batch, active, handles, rehashing, serverVars,
                 flagVars, threadVars>>

--------------------------------------------------------------------------------
(* Subscription.addMonitoredItems.                                          *)

MonitorNodes(n) ==
  /\ ScriptGoes("idle", "filling")
  /\ named[n] \in active
  /\ targetName' = n
  /\ target' = named[n]
  /\ batch' = {}
  /\ UNCHANGED <<mapVars, serverVars, flagVars, threadVars>>

\* getNextClientHandle (its wrap-around is out of the bound).
NextHandle == Cardinality(handles[target]) + 1

\* The put of the next handle rehashes the map: until it is done an entry may
\* not be found by another thread.
BeginRehash ==
  /\ ScriptGoes("filling", "rehashing")
  /\ NextHandle \in GrowAt \cap Handles
  /\ rehashing' = target
  /\ UNCHANGED <<targetName, target, batch, named, active, handles, serverVars, flagVars,
                 threadVars>>

\* Mutation: the server is asked before the handles are kept.
PutHandleLate ==
  /\ scriptPc \in {"filling", "rehashing"}
  /\ NextHandle \in Handles
  /\ IF target \in serverSubs /\ <<target, NextHandle>> \notin serverItems
     THEN /\ serverItems' = serverItems \cup {<<target, NextHandle>>}
          /\ pending' = pending \cup {<<target, NextHandle>>}
          /\ UNCHANGED <<scriptPc, handles>>
     ELSE /\ handles' = [handles EXCEPT ![target] = @ \cup {NextHandle}]
          /\ scriptPc' = "idle"
          /\ UNCHANGED <<serverItems, pending>>
  /\ UNCHANGED <<targetName, target, batch, named, active, rehashing, created, serverSubs,
                 channelOpen, flagVars, threadVars>>

\* createNodeMonitoringParameters: one more node of the call has its handle.
PutHandle ==
  /\ \/ scriptPc = "filling" /\ NextHandle \notin GrowAt
     \/ scriptPc = "rehashing"
  /\ NextHandle \in Handles
  /\ handles' = [handles EXCEPT ![target] = @ \cup {NextHandle}]
  /\ batch' = batch \cup {NextHandle}
  /\ rehashing' = None
  /\ \/ scriptPc' = "requesting"
     \/ scriptPc' = "filling" /\ NextHandle + 1 \in Handles
  /\ UNCHANGED <<targetName, target, named, active, serverVars, flagVars, threadVars>>

\* CreateMonitoredItems: the server takes any of the items, and an item that it
\* takes has a first value to publish.  Neither its answer for each item nor a
\* fault changes what the client keeps.
CreateMonitoredItems ==
  /\ ScriptGoes("requesting", "idle")
  /\ \E S \in SUBSET batch :
       LET taken == IF target \in serverSubs THEN {target} \X S ELSE {}
       IN  /\ serverItems' = serverItems \cup taken
           /\ pending' = pending \cup taken
  /\ UNCHANGED <<targetName, target, batch, mapVars, created, serverSubs, channelOpen,
                 flagVars, threadVars>>

--------------------------------------------------------------------------------
(* UaClient.stopSession: ToClosedState, then the session is dropped.        *)

\* The server's side of the session goes with the channel.
CloseChannel ==
  /\ ScriptGoes("idle", "closing")
  /\ channelOpen' = FALSE
  /\ serverSubs' = {}
  /\ serverItems' = {}
  /\ pending' = {}
  /\ UNCHANGED <<targetName, target, batch, mapVars, created, flagVars, threadVars>>

\* close() throws: setChannel(null), which stops the thread, is not reached.
CloseFails ==
  /\ ScriptGoes("idle", "failed")
  /\ UNCHANGED <<targetName, target, batch, mapVars, serverVars, flagVars, threadVars>>

--------------------------------------------------------------------------------
(* The publication threads.                                                 *)

ThreadGoes(t, from, to) == threadPc[t] = from /\ threadPc' = [threadPc EXCEPT ![t] = to]

ThreadBegins(t) ==
  /\ ThreadGoes(t, "born", "checking")
  /\ isRunning' = TRUE
  /\ UNCHANGED <<scriptVars, mapVars, serverVars, keepRunning, inHand, lost>>

\* The loop condition, and the next publish request.
ThreadChecks(t) ==
  /\ ThreadGoes(t, "checking", IF keepRunning THEN "waiting" ELSE "leaving")
  /\ UNCHANGED <<scriptVars, mapVars, serverVars, flagVars, inHand, lost>>

\* The server answers with the values of one subscription.
PublishAnswered(t, s) ==
  /\ ThreadGoes(t, "waiting", "handling")
  /\ inHand' = [inHand EXCEPT ![t] = {i \in pending : i[1] = s}]
  /\ inHand'[t] # {}
  /\ pending' = pending \ inHand'[t]
  /\ UNCHANGED <<scriptVars, mapVars, created, serverSubs, serverItems, channelOpen,
                 flagVars, lost>>

\* An empty notification (the keep-alive), a fault, a timeout, or the closed
\* channel: the loop goes round.
PublishEmpty(t) ==
  /\ ThreadGoes(t, "waiting", "checking")
  /\ UNCHANGED <<scriptVars, mapVars, serverVars, flagVars, inHand, lost>>

\* Session.handle and Subscription.handle: the subscription is found by its id,
\* the item by its handle.
Found(i) == i[1] \in Mapped /\ i[2] \in handles[i[1]]

Handle(t, i) ==
  /\ threadPc[t] = "handling"
  /\ i \in inHand[t]
  /\ \/ Found(i) /\ UNCHANGED lost
     \/ /\ ~Found(i) \/ rehashing = i[1]
        /\ lost' = lost \cup ({i} \cap (active \X Handles))
  /\ inHand' = [inHand EXCEPT ![t] = @ \ {i}]
  /\ threadPc' = [threadPc EXCEPT ![t] = IF inHand'[t] = {} THEN "checking" ELSE @]
  /\ UNCHANGED <<scriptVars, mapVars, serverVars, flagVars>>

\* The handler of the script's updates throws, for a value that is null or in an
\* assertion: nobody catches it, the thread ends with what it had in hand, and the flag
\* is left as it is.
HandlerThrows(t, i) ==
  /\ HandlersThrow
  /\ ThreadGoes(t, "handling", "unborn")
  /\ i \in inHand[t] /\ Found(i)
  /\ inHand' = [inHand EXCEPT ![t] = {}]
  /\ UNCHANGED <<scriptVars, mapVars, serverVars, flagVars, lost>>

\* Another run may take the identity of a thread that ended.
ThreadEnds(t) ==
  /\ ThreadGoes(t, "leaving", "unborn")
  /\ isRunning' = FALSE
  /\ UNCHANGED <<scriptVars, mapVars, serverVars, keepRunning, inHand, lost>>

\* The server has a new value of an item.
ValueChanges(i) ==
  /\ i \in serverItems
  /\ pending' = pending \cup {i}
  /\ UNCHANGED <<scriptVars, mapVars, created, serverSubs, serverItems, channelOpen,
                 flagVars, threadVars>>

--------------------------------------------------------------------------------
Calls == \/ \E n \in Names : CreateSubscription(n) \/ DeleteSubscription(n) \/ MonitorNodes(n)
         \/ CloseChannel \/ CloseFails

Steps == \/ StartThread \/ StartWaitOver \/ MapSubscription
         \/ StopThread \/ StopWaitOver \/ DeleteOnServer \/ UnmapSubscription
         \/ BeginRehash \/ PutHandle \/ CreateMonitoredItems

Publishes(t) ==
  \/ ThreadBegins(t) \/ ThreadChecks(t) \/ PublishEmpty(t) \/ ThreadEnds(t)
  \/ (\E s \in Ids : PublishAnswered(t, s))
  \/ (\E i \in Items : Handle(t, i) \/ HandlerThrows(t, i))

Next == \/ Calls \/ Steps
        \/ \E t \in Threads : Publishes(t)
        \/ \E i \in Items : ValueChanges(i)

Spec == Init /\ [][Next]_vars

\* A call the script made comes to its end, threads keep running, and a server
\* that is asked again and again publishes what it has for each subscription.
\* Nothing makes the script call, nor a value change.
FairSpec ==
  /\ Spec
  /\ WF_vars(Steps)
  /\ \A t \in Threads : WF_vars(Publishes(t))
  /\ \A s \in Ids : SF_vars(\E t \in Threads : PublishAnswered(t, s))

--------------------------------------------------------------------------------
(* Properties.                                                              *)

\* Every notification for an active subscription finds the subscription and the
\* item, however the calls of the script and the publication thread interleave,
\* as long as the map of the items is not being rehashed: as Subscription.handle says,
\* only an unknown client handle is ignored.
LostOnlyInRehash == [][lost' # lost => rehashing # None]_vars

\* What is found by its name is active, save while it is being deleted, and two
\* names never find the same subscription.
MappedIsActive ==
  \A n \in Names : named[n] # None =>
     /\ named[n] \in active \/ (scriptPc = "unmapping" /\ n = targetName)
     /\ \A m \in Names : named[m] = named[n] => m = n

OneThread == \A t, u \in Threads : threadPc[t] # "unborn" /\ threadPc[u] # "unborn" => t = u

\* No thread begins when the wait of start() is over already.
NoSlowStart == [](\A t \in Threads : threadPc[t] = "born" => scriptPc = "startWait")

\* One publication thread at most, so that a notification is handled by one thread and
\* isRunning says of that thread whether it runs.  Only a thread that begins after the wait
\* of its start() makes two of them: a stop meanwhile tells nobody, and the next start()
\* makes another.  A stop that timed out, or a thread that died, does not.
OneUnlessSlowStart == NoSlowStart => []OneThread

\* Between the calls of a script an active subscription has a publication thread
\* that was not told to stop.
ServedWhileActive ==
  scriptPc = "idle" /\ Mapped # {} =>
    /\ keepRunning
    /\ \E t \in Threads : threadPc[t] \notin {"unborn", "leaving"}

\* A subscription is never asked for while a thread that was told to stop runs still.
NoLateStop == [](scriptPc = "starting" /\ isRunning => keepRunning)

\* No thread ever died of an exception: one that died leaves the flag, and is there no more.
NoThreadDied == [](isRunning => \E t \in Threads : threadPc[t] \in Alive)

\* Only such a late stop, a late start, or a handler that throws, leaves an active
\* subscription without publication thread.
ServedUnlessLate == NoSlowStart /\ NoLateStop /\ NoThreadDied => []ServedWhileActive

Deleted(i) == i[1] \notin active \/ ~channelOpen

\* A value the server has for an active subscription is taken by the thread.
PendingIsPublished ==
  NoSlowStart /\ NoLateStop /\ NoThreadDied =>
    \A i \in Items : (i \in pending) ~> ((\E t \in Threads : i \in inHand[t]) \/ Deleted(i))

\* No publication thread outlives a session that was closed without a fault, unless it
\* began too late for a stop to tell it.
ThreadEndsWithSession ==
  NoSlowStart => ((scriptPc = "closed") ~> (\A t \in Threads : threadPc[t] = "unborn"))
================================================================================
