# Automated OPC Tester: a verification project in TLA+

The Automated OPC Tester runs test scripts, written in a Groovy DSL, against OPC-DA and OPC-UA
servers.  A script reads and writes items and asserts what it expects, at once or within a
timeout.  This directory holds TLA+ models of the parts of the program where threads, sessions
and caches meet, TLC runs that check them on small instances, and TLAPS proofs of the most
important properties for instances of any size.  Paths below are relative to
`src/OPC-Testscript-Runner` (Java and Groovy) or `src/OPCClient` (C++).

## 1. The system

| Part | Where | State | Operations | Talks to |
|---|---|---|---|---|
| Asynchronous assertions | `opc-common-dsl` `async/*`, `results/RunResults` | conditions by item path, state and wait of each, the list of results, the ticker's Timer | registerAsyncCondition, onUpdate, onTick, stopTicking, removeNonWaiting..., RunResults.add, onScriptEnd, toXml | script, Timer and update threads call it; GUI nodes observe results |
| OPC-DA update delivery | `opc-da-dsl` `OPCDAUpdateHandler`, `opc-dll-jna` `OPCDAAsyncUpdateCallback`, C++ `AsyncUpdateHandler`, `OPCGroup::OnDataChange` | the queue of updates, stopUpdaterThread, isUpdaterThreadRunning | onUpdate, the updater's loop, start and stop with bounded waits | from COM threads to the assertions |
| OPC-DA groups and items | `opc-da-dsl` `ScriptContext`, `Group`; C++ `GroupManager`, `GroupNode`, `OPCGroup`, `dllInterface` | two maps in the script's context, m_groups and m_items in the library, the groups in the server, the address space read once | group, item, destroy, init, end | script thread, through JNA and COM |
| OPC-DA reads, writes, transactions | C++ `GroupNode`, `OPCItem`, `Transaction`, `TransactionCompleteHandler` | a transaction with its cancel id and results | readSync, writeSync, readAsync, writeAsync, completions | script and COM threads |
| Names of the server's items | C++ `OPCServer` (`browseNamespace`, `browseBranch`), `dllInterface::getItemNames`, `Client.getItemNames` | the browse position in the server, the frames of the recursion, the address space of the library, the client's offset | the walk down and up the branches, pages of names | script thread, through JNA and COM |
| OPC-UA session | `opc-ua-client` `UaClient`, `session/*` | state, channel, namespace, subscriptions | startSession, stopSession, the state changers | script thread and the UA stack |
| OPC-UA subscriptions | `opc-ua-client` `Session`, `Subscription`, `PublicationThread` | maps of subscriptions and monitored items, keepRunning, isRunning | createSubscription, deleteSubscription, addMonitoredItems, publish, close | script thread, publication threads, server |
| OPC-UA reads, writes, browsing | `Reader`, `Writer`, `Browser`, `AddressSpace` | the address space of the session | browse, find a node; one request and its answer per read or write | script thread, server |
| OPC-UA DSL | `opc-ua-dsl` | maps of nodes and subscriptions in the script's context | node, subscription, monitor, Subscription.delete, the update handler | UaClient; the publication thread calls its handler |
| Script runner | `opc-script-runner` `ScriptRunner` | the context of the script | runScript: compile, onScriptStart, the script, onScriptEnd, onComplete, XML | everything above |
| Graphical runner | `gui` `ScriptRunnerGui`, `ResultsTree`, `TreeNodeFactory`, `ResultTreeNode` | scriptFile, scriptIsRunning, scriptResultXml, the tree | open, run, export, addition and update of nodes | user, event dispatch thread (EDT), thread of a run |
| Values, conversions, logs | `common`, `RunResultUtil`, `Client` paging, C++ `ItemValueStruct`, `Utils` | none, but for the pruned text of a log | conversions | everything |

What is hard in it, and what makes each part correct:

- **Assertions.** The manager's lock is dropped between deciding conditions and removing them.
  The ticker, updates and the script's end meet in that gap.  No assertion may get lost, a verdict
  must have its cause, the script must end with everything decided, and what it exports must stay
  true.
- **Delivery.** Updates come from several COM threads into one queue; the thread that empties it is
  started and stopped with waits of 100 ms whose result nobody looks at.  Order must be kept and
  nothing may be handled after a confirmed stop.
- **Groups.** Three layers keep the same groups and items, calls fail in the middle, and the
  library may survive the script whose session it served.  The layers must agree.
- **Transactions.** The server answers on threads of COM, before the call that asked is back, or after the script
  destroyed the group, the session or the library that the answer is for.  It must call into living groups only, and a
  request must complete once, with its datum, and come to an end.
- **Names.** The walk of the server's tree moves one browse position that all frames of the recursion share, and looks
  at no result of moving it.  It must end at any refusal, though a branch that cannot be entered lists its parent
  again, count nothing twice, and the pages must add up to all names.
- **UA subscriptions.** The publication thread searches maps that the script thread changes without
  a lock; starting and stopping it races with a request it is waiting for.  Active subscriptions
  must be served, by one thread, and their notifications must find their items;
  a handler that throws ends the thread.
- **UA session.** A call walks a state machine in which every step may fail, and scripts go on after
  failures.  READY must mean connected, a walk must end, and nothing of a channel that was given up
  may go on; what a script finds in its context must be true of the session.
- **Browsing.** The references of a server run in circles, and an answer may be cut or fail.  Browsing must end,
  miss nothing that can be reached, and scripts must find the description that has the children.
- **GUI.** Menu events, tree events and verdicts are queued for the EDT by several threads while
  runs follow each other.  One script runs at a time, leaves come in order and tell the verdict, the
  GUI comes back.

`PROJECT.json` lists each of these hazards at its line, with the properties that are about it.

## 2. The modules

| Module | What it is |
|---|---|
| `AssertionLedger` | what the assertions promise: each is opened once and gets one verdict that is never revised, and the run is closed only when nothing that can be decided is open |
| `AsyncConditions`, `MCAsyncConditions` | the assertions in detail |
| `AsyncConditionsProofs` | proofs about them |
| `UpdateChannel` | what delivery promises: a FIFO channel without loss or duplication |
| `UpdateDelivery`, `MCUpdateDelivery`, `UpdateDeliveryProofs` | callbacks, queue, updater thread |
| `UaSubscriptions`, `MCUaSubscriptions`, `UaSubscriptionsProofs` | subscriptions and publication threads |
| `UaSession`, `UaSessionProofs` | the session's state machine and its failures, and the script's context beside it |
| `UaBrowse`, `UaBrowseProofs` | the address space: browsing it and finding nodes in it |
| `DaGroups`, `MCDaGroups` | three layers of groups and items |
| `DaTransactions`, `MCDaTransactions` | `DaGroups` (which it extends) composed with the callbacks of the server on threads of COM |
| `DaTransactionsProofs` | proofs about `DaGroups` and about `DaTransactions` |
| `DaNamespace`, `MCDaNamespace`, `DaNamespaceProofs` | the walk of the server's names and the pages of the client |
| `ScriptRunnerGui`, `ScriptRunnerGuiProofs` | the GUI, its event queue and the threads of runs |

An `MC` module gives the constants that a `.cfg` cannot write down.  Mutations, the definitions whose
comments begin with "Mutation:", are plausible mistakes: put in the place of the definition they vary,
each makes the property it is paired with fail.

### AsyncConditions

One action is one `synchronized(asyncConditions)` block, with the code before it that no other thread
can observe.  What the code does under two holds of the lock is two steps: `UpdateChecks` decides
conditions, `UpdateRemoves` removes the decided ones later, as `asyncUpdate` does, and `TickCounts`
and `TickRemoves` are the halves of `onTick`.  `AssertAsync` registers an assertion and `AddResult`
adds it to the results, in this order, as `assertAsyncEquals` and its siblings do, so a verdict may
come before the result is in the list.  The script's end is the loop of `onScriptEnd`: snooze, look
whether anything waits, leave; then stop ticking, time out what is left, clean up, export the XML.  `CleanUp` may
throw (UaSession says when); the exception then leaves `onScriptEnd` and `runScript`, and nothing is exported (`left`).
`ScriptDies` is an Error that passes the `catch(e)` of the script's closure: `onScriptEnd` never runs,
while the ticker goes on.  A value or a quality is a member of `Contents`; what an assertion knows of
an update is whether it is decisive.

`AssertionLedger` is the abstract specification.  `Ledger` (an `INSTANCE` with a refinement mapping)
says of an assertion that is still registered, and so may get another verdict, that it is open;
`LedgerSpec` says that the manager implements it.

### UpdateDelivery

`ServerChanges` gives an item a new value, `OnDataChange` begins the callback of a group for items that
changed, and `OnUpdate` queues its updates one by one, in any order of items, groups in parallel.  The updater thread
checks the flag, polls (with a time-out), handles, and leaves.  The script starts it, waits, runs, asks it
to stop, waits and ends; each wait is bounded, so it may end before the thread reacted
(`Register`, `StopWaitOver`).  `UpdateChannel`, a FIFO with `Send` and `Receive`, is implemented by
queue, held update and handled sequence together (`Channel`, with `sent` mapped to their concatenation).

### UaSubscriptions

Every call to the server is a step of its own, and may be refused or lose its answer
(`CreateSubscription`, `DeleteOnServer`, `CreateMonitoredItems`, `CloseFails`).  `StartThread` and
`StopThread` are `PublicationThread.start` and `stop`; `StartWaitOver` and `StopWaitOver` end the waits of at most a
second.  A publication thread asks for a publication, is answered (`PublishAnswered`) for any
subscription the server still has, with or without items, and handles the notifications one by one
(`Handle`).  `BeginRehash` and `PutHandle` split the insertion that makes the unsynchronised HashMap grow.
`lost` collects the notifications whose item was not found.

Two constants say how fast threads are: with `SlowStart` (`SlowStop`) a thread may take longer to
begin (to end) than the wait for it.  `GrowAt` says at which entry the map grows: every 13th, 25th, ... in Java;
a small number stands for it in the runs.  With `HandlersThrow` a handler may throw
(`OPCUAUpdateHandler.onUpdate` does, line 26, for a data value that has no variant): the RuntimeException ends the
thread, which leaves `isRunning` set, so that no other is started and a stop waits in vain.  The constants say what may happen; `NoSlowStart`, `NoLateStop` and
`NoThreadDied` say of a behaviour that it did not, and are the premises of the properties that need them.

### UaSession

One action is one step of `moveToTargetState`: `ToInitial`, `ToConnected`, `ToReady`, `ToClosed`, each with its
failures, which `Failures` enables one by one.  A step's exception with a cause is an error that ends the walk;
one without a cause makes the handler throw a NullPointerException (`Throw`), and the state stays what it was.  So does
the IllegalArgumentException of browsing a node that cannot be described (`browse`, BrowseThrows in UaBrowse), which leaves
a session that is CONNECTED and can be used.  The script may init again
at any time, `StopSession` is what cleanUp calls, `NextScript` begins another script with the same UaClient
singleton.  In this module a publication thread ends when it is told to; UaSubscriptions has the details.

`context` is the map of subscriptions in the script's context of the UA DSL.  `NewContext`, `Subscription` and
`Delete` are the script's calls through it: a subscription is put into the map whether the session made it or not,
and its `isStarted` says whether it did; a deleted one stays in the map, where the script finds it again.  The map's `Keys`
are what scripts give, Strings and GStrings, which differ; the session finds a subscription by the String of its name
(`NameOf`).  So two keys may be of one subscription, and a deletion by one of them is not seen by the other.

### UaBrowse

One step is one call of the recursive `addChildNodes`, with its request; `toVisit` is what the calls on the stack
have yet to visit.  `references` is any graph, and the server may answer with a part of what it has
(`Answer`): a continuation point is not followed, and a fault leaves nothing.  `cut` collects the nodes whose answer was
partial; no later call asks for them again in the session.  A reference that cannot be described throws
(`BrowseThrows`).  A description is its number, and `FindNodeById` is the search through the tree.

### DaGroups

One action is one call of the script through all layers, since the calls are synchronous.  A Group object is
`<<name, kind, number>>`: what `group()` was given, a String or a GString, which are different keys, and how many objects of this key
there were before.  `objects` are those the script made, `groups` those that its context has; `items` is what each of
them knows, again keyed by Strings and GStrings.  A script may use an object after `destroy()`, or destroy it twice: both
then act on the group of that name that there is now.  `made`, `nodeItems` and `addressSpace` are the library's; `made` holds the session in
which a node was made, which tells nodes of an earlier session.  `serverGroups` and `serverItems` are
the server's, and count additions.  `LibraryStays` allows that a library is not unloaded between scripts (`Client.end` does
not dispose its handle), `Refusals` that the server refuses connections, groups, callbacks, items, and to remove
groups and items (`LeftThere`), which the library does not look at.

`init` catches the failure of a connection: `server` is then what it was, the server of the session before, or null.
Browsing a null pointer ends the process (`crashed`).  An item that the server refuses is deleted, and its destructor
removes from the server's group whichever item has the handle that was never set; `refusedItems` remembers it.
`asked` collects which objects asked for which item since a group was made.

### DaTransactions

Extends DaGroups, whose calls become actions of an idle script thread; `destroy` has two halves, since the callback
is disabled (`DestroyBegins`) before the group and its items go (`DestroyEnds`).  `stage` says how far a request is:
asked in the call, decided by the server (`CallFails`, `ItemFails`, `Accepts`), and, maybe before the call is back
(`CallReturns`), answered on a thread of COM (`Answer`, `Store`, `Complete`).  `Change` and `Handle` are a
change of data: the thread enters `OnDataChange`, and uses the group and its handler later.

An object that goes while a callback uses it is remembered (`gone`, `stale`).  What the code then leaves undefined, or what
it throws on a thread where nothing catches it, is a choice: `process` goes down or stays up (`Undefined`).  This is so for

- a datum that was never set, an item or group that is gone (`SetCompleted`, `Handle`);
- a value that cannot be copied or has no text, such as an array, in a COM thread (`CopyFails`, `SetCompleted`, `Handle`).  A
  request whose value cannot be copied stays open for good: `uncopied`;
- the type of an item that the server does not tell (`TypeAsked`);
- the destructor of an item whose removal the server refuses, which frees a pointer that was never set (`ItemCall`, `DestroyEnds`);
- COM pointers of a session that is over (`LeftOver`).

A server may refuse to forget a group's callback (`Unadvise`); it is `clinging` then.  All else goes on as DaGroups says: each action
is one of its actions or leaves its variables alone, so what holds of DaGroups holds here.

### DaNamespace

One step is `browseBranch` from its call as far as its loop (`Branch`), or its return (`LastBranch`); the calls under way
are the frames of `stack`, each with the enumeration it took.  `pos` is the browse position in the server, and
what "down" means depends on it: a label that is not below the position leaves it where it is, one that is leads to another
branch of the same name.  `Refusals` lets the server refuse any list, any name, and to go up; `RefusedDowns` bounds how often it refuses
to go down, to any branch at any time (`DownRefused`), after which the code lists the branch it did not leave once more.  `Start` reads the names only if there are none,
`Page` is one call of `getItemNames` with the comparison in unsigned arithmetic of `Word`; `Again` is another init of the script or of another script.

### ScriptRunnerGui

`events` is the queue of the EDT: clicks of the user, creations and updates of nodes.  Run Script
starts a thread which clears the tree itself, not through the EDT, then compiles and runs the script, calls
`onComplete` and only then assigns the XML.  `CreateNode` reads the state of a result, `ShowNode` makes the
node observe it; verdicts of asynchronous assertions come between, from other threads.  The contract with the
assertions (a waiting one gets a verdict; a script's end waits for all) is taken from AsyncConditions, where
it is checked.

## 3. The runs

All runs are exhaustive.  Deadlock is checked in `assertions` and `namespace`; elsewhere scripts,
sessions and threads really end, and then nothing more happens.  Type invariants are in no run: they are
all proved.

| Run | Instance | States | What it shows |
|---|---|---|---|
| `assertions` | one assertion of each kind and one on an empty path, two items, timeouts 0, 1, 2 | 187 000 | VerdictHasEvidence, TimeoutVerdictIsDue, XmlStaysTrue, LedgerSpec (refinement), and, with fairness, ScriptEndCompletes, EveryAssertionDecided |
| `assertion_texts` | two assertions | violation | PassedMeansNeverSeen: a passed NotEquals says that the value was never seen.  A tick between `UpdateChecks` and `UpdateRemoves` passes one that had failed |
| `delivery` | two groups with one common and one own item, two values | 158 000 | ValuesInOrder, AtMostOneAfterStop, StopConfirmedIsFinal, ChannelSpec (refinement), NotifiedIsHandled |
| `ua_safety` | two names, subscriptions, items and threads, slow threads, growing map, handlers that throw, up to symmetry | 1 102 000 | MappedIsActive, LostOnlyInRehash |
| `ua_slow_stop` | the same with one item and no growing map | 77 000 | as long as no thread begins late, OneUnlessSlowStart, ThreadEndsWithSession; and, if moreover no subscription is created while a stopped thread is still there and no handler threw, ServedUnlessLate, PendingIsPublished |
| `ua_restart` | the same, no handler throws | violation | ServedWhileActive: `start()` starts nothing while the stopped thread still waits for an answer |
| `groups` | one group name, three Group objects of both kinds, two items, one of them under both kinds of keys, two scripts on two servers, refusals, a library that may stay | 1 228 000 | NodesAreServed, AddedOncePerAsker |
| `transactions` | one group of one item, made twice, a read and a write, two scripts, refusals, a library that may stay | 241 000 | AdvisedIsAlive, CompletionIsWhole, EveryRequestEnds |
| `namespace` | five branches in three levels, four items, pages of two, a server that refuses anything, and twice to go down | 456 000 | RecursionBounded, EveryNameOnce, PagesAreWhole, NamesCome |
| `session` | two names, each as a String and as a GString, four channels, all failures | 1 232 000 | ReadyIsConnected, StartedIsKnown, ThreadLeftByFailedStop, CallReturns |
| `browse` | three nodes of up to two references each, in any graph, two browses, answers that stop anywhere | 110 000 | KnownIsReachable, FoundHasChildren, BrowseReturns |
| `gui` | an unreadable, an uncompilable, a fatal and a good script, one result of each kind, two runs, three clicks | 94 000 | LeavesInOrder, StaleOnlyFromCreation, ExportIsFinal, EveryResultShown, RunEndsOrThrows |

The violations are disagreements between the code and what its documentation, comments or tests say;
`PROJECT.json` quotes both sides under "findings".

The models also show behaviour that contradicts no document, but that a reader of the code should know:

- After a first connection that failed, the UA session is in ERROR and every walk out of it throws (`ToInitial` in UaSession).
- Right after `onComplete` the XML of the run is not yet assigned: an export then finds nothing, or the XML of
  an earlier run.  ExportIsFinal says what holds: once a run's XML is there, it stays true.
- Between `AsyncConditionManager`'s decision and the removal, a tick may revise a verdict (`assertion_texts`); never after
  the removal, and never in what was exported.
- A value without a text, such as an array, ends the process when it comes in a callback (`CopyFails`, `SetCompleted`, `Handle`), as may
  a group or a library that goes under one, and an item whose removal is refused.
- A group destroyed by its name goes under every object of that name: one that the script made later, and one whose key is a GString, which the
  context then goes on finding (KnownGroupsStay).
- A branch that cannot be entered lists its parent again: RecursionBounded is attained, so a server that refuses to go down each time is
  walked until the stack of the program is used up.
- A subscription named by a String and by a GString and deleted by one of them is still `isStarted` by the other (StartedIsKnown).
- A publication thread goes on polling for nobody after a stop of the session that failed (ThreadLeftByFailedStop).
- A run whose script cannot be read or compiled, or whose cleanUp throws, leaves the GUI `scriptIsRunning` for good (RunEndsOrThrows).

### Bounds, and why they are enough

- *Assertions.*  Conditions meet only in the lock, in ticks and in updates of a common path.  Three live
  conditions of three kinds, two of them on one path, and timeouts that expire at the first tick, at the
  first tick after it and before any give every relative order of two conditions' deadlines and updates.  Nothing else is bounded:
  the waits cannot grow beyond the timeouts.
- *Delivery.*  Two groups show two callbacks racing for one item, two values show an order.  `MaxVersion`
  bounds the server only.
- *UA subscriptions.*  Two names: one subscription is deleted while another is active, or created when
  the last one goes.  Two threads: a second started beside one that should have ended.  Two items and
  `GrowAt = {2}`: a handle that was already known when the map grows.  Names and threads are only compared,
  so `ua_safety` is checked up to their permutation; the runs with liveness use no symmetry.  `ua_slow_stop`
  has one item, since it is about subscriptions and threads.
- *Session.*  A walk creates one channel at most, and a call begins only if there is room for one, so `MaxChannels`
  bounds the number of attempts and cuts no walk short.  One name shows its two keys, the second is there for what is the last subscription.  Four attempts are an init, a repetition, a
  cleanUp that sets up again in order to close, and a next script.
- *Browsing.*  Three nodes with up to two references each: self-references, circles of three, a node met on two ways
  and twice in one answer, nodes that cannot be reached.  The second browse starts from what the first left.
- *Groups.*  Groups do not influence each other in any layer.  Two items on two servers, of which one is
  missing on the second, show a stale address space.  Two scripts show what one leaves to the next.  Three objects are two of
  one key, an old and a new one, and one of another; one item has two keys, to be asked for twice by one object.
- *Transactions.*  Groups are independent, and so are requests, except for the script's thread, which is in one call at a time.
  A read and a write are the two kinds; they share an item and a group, so one may be in its call while the other is
  called back.  Two scripts show a request and a group that outlive their session, two objects a callback into a group that was
  destroyed and made again.
- *Names.*  A label appears at two depths twice over, so a walk that goes on at a wrong position finds a branch there.
  Four items in pages of two, and any part of them when the server refuses, end the last page before, at and after a
  page's end.  `Word` = 32 is larger than what a walk may count, as a size_t is.  `RefusedDowns` must be a bound, as the code has
  none: each refusal lets it list a branch again that it has not left.  With 2 the second can come in the frames that the
  first one made; the bound of RecursionBounded, 7 frames, is reached.
- *GUI.*  Two runs show one disturbing the next; three clicks are what it takes to open a
  script and run it twice.  `MaxUpdates` bounds the waiting updates of one node, so a verdict has room to be
  revised once.

### Fairness, and why the code justifies it

- `AsyncConditions`: weak fairness of the script, of the Timer thread and of a thread inside `onUpdate`.  These are
  runnable JVM threads that wait for nothing but the lock, and each hold of it is finite.  Nothing makes an update arrive, and
  nothing makes the script assert anything; it may die.
- `UpdateDelivery`: weak fairness of updater thread, of callbacks that began, and of the script's start and stop, whose waits are bounded.  Nothing
  makes a value change or the script come to its end.
- `UaSubscriptions`: weak fairness of calls that the script made and of each publication thread.  Strong
  fairness of an answer for each subscription: a publish request is outstanding only from time to time, and a
  server that is asked again and again serves every subscription that has something to tell.  This is an
  assumption about the server, and only PendingIsPublished needs it.
- `UaSession`: weak fairness of the walk: every request is answered or fails, because the UA stack
  gives each a time-out.
- `UaBrowse`: weak fairness of a browse that began, since the UA stack gives each request a time-out.
- `DaTransactions`: weak fairness of the end of a destruction, of the return of a call, of the threads of COM, and of the server's
  answer to what it accepted, for as long as it knows the group's callback.  A COM call returns or fails.  Each of the four is of all requests
  together: a request has a few such steps only, so none starves another.  Nothing makes data change.
- `DaNamespace`: weak fairness of `Step`: the calls of the walk and of the client's loop go on, each COM call returns or fails.
- `ScriptRunnerGui`: weak fairness of the EDT, of each run's thread, and of a verdict for each waiting assertion, which
  AsyncConditions shows (EveryAssertionDecided).  Nothing makes the user click.

## 4. The proofs

TLAPS proves the following, and every type invariant, for every value of the constants, from the named assumption on the constants in
the module concerned (which TLC evaluates in the runs as well) and from nothing else, unless it is said.

- **AsyncConditionsProofs** proves all safety properties of `assertions`, `LedgerImplemented` included, and three that no run repeats,
  since the refinement and XmlStaysTrue say nearly the same: NoAssertionLost, EndedMeansDecided and RemovedVerdictIsFinal.  The
  invariants are not inductive by themselves.  `IInv` adds three facts.  `RegisteredAsserted`: what is
  registered was asserted, on a path the manager accepts.  `EmptyAfterLoop`: nothing is registered after
  the loop of onScriptEnd; without it a late tick could revise what was exported, so both RemovedVerdictIsFinal
  and XmlStaysTrue rest on it.  `ResultsComplete`: only the assertion being added is not in the results.
- **UpdateDeliveryProofs** proves all safety properties of `delivery`.  The order of values is inductive only
  over the whole way of an update: `Sent` joins what was handled, what is held and what is queued, and the invariant
  relates it to what callbacks still hold and what groups reported.  `HandledSinceStop` and
  `StopSeen` say how far the thread may be after the flag was set.  `ChannelImplemented` follows step by step.
- **UaSubscriptionsProofs** proves MappedIsActive and LostOnlyInRehash for threads of any speed, with
  `TargetInv` (what the script's position says of its target), `NumberedInv` (numbers that are still to come are
  nowhere yet) and `KnownInv` (the handles the server or an answer tells are known).  `OneThreadAtATime`
  (OneUnlessSlowStart), ServedUnlessLate and ClosedIsToldToStop have premises about the whole behaviour: that no thread begins late, since
  then there really may be two, and for ServedUnlessLate also that no stop is late and no thread died.  Their invariants are kept by each
  step in whose states the premises hold: `ThreadInv`, and `ServedInv`, which says for each position of the script that the
  subscriptions which are not being deleted (`Kept`) have a thread that was not told to stop, or that there are none.
  ClosedIsToldToStop is the safety part of ThreadEndsWithSession: whatever thread is left of a closed session was told to stop.
- **DaTransactionsProofs** has two parts.  *About DaGroups*: NodesAreServed and KnownGroupsStay; AddedOncePerAsker,
  which counts the objects and keys that asked: what asked knows the item ever after (`AskedIsKnown`), so each asker is a new one, and each
  addition enlarges their finite set by one; a server without script has no items (`NoScriptNoItems`).  For
  scripts in plain use (names are Strings, no refusals, a library that is unloaded) also FoundGroupExists.  The
  invariant of NodesAreServed adds `NodesAreOlder` (a node is of a session that was started, and of an earlier one until init was
  called) and `NoGroupNoItems`.  *About DaTransactions*: the lemma `BehavesAsGroups` carries NodesAreServed and AddedOncePerAsker
  over, so they hold whatever the threads of COM do.  AdvisedIsAlive rests on `AdvisedIInv` (what is being destroyed
  is not advised, or clings); CompletionIsWhole on `CompletionIInv`, which says for each stage what datum and completion it has.
- **DaNamespaceProofs** proves RecursionBounded for every tree and every server.  The invariant `WalkIInv` counts the frames that are not
  for a branch below that of their caller: there is a weight for each frame (`Weighted`), such that its place in the stack is at most the
  depth of its branch plus `Height` for each such frame under it, and each of them has cost a refusal to go down (`Paid`), the position's not
  being below the top frame's branch included.  PagesAreWhole is proved for runs in which the count of names stays
  below `Word`.  EveryNameOnce is proved for proper trees (`ProperTree`: siblings have different labels); its invariant `OnceIInv`
  says that as long as nothing was refused the position is where the top frame listed, that the frames are in `Lined` order, and
  that what was not found is yet `ToCome`.
- **ScriptRunnerGuiProofs** proves that one run is under way at a time (OneRunAtATime) and ExportIsFinal.  The invariant
  relates scriptIsRunning to the positions of all threads (`OneIsBusy`), and says that runs start in turn and that the XML is of a run
  that is done, all of whose assertions are decided (`StartedInTurn`, `XmlOfDone`, `EndedIsDecided`).
  For LeavesInOrder, `OrderIInv` looks at the whole way of a node: the leaves, the node in hand and the
  creations in the queue hold each result once and in the order in which it was made (`NodesInOrder`), a result is somewhere on that
  way if its run is the one in the tree (`NoneLeftOut`), and a run that makes its tree has added nothing yet (`NewTree`).
  NoResultIsLost is the part of it that a user sees, and the safety part of EveryResultShown.  StaleOnlyFromCreation
  is proved step by step: every step but one leaves the last colour a node will show, or sets it to that of the state (`UpdatesObserved`).
- **UaSessionProofs** proves ReadyIsConnected and ThreadLeftByFailedStop whatever fails, from
  `StatesTell` (what each state says of channel, thread and position in the walk).  If closing never fails and browsing never
  throws (`SessionsStop`), threads poll for the session's channel only.  `ContextIsTrue` proves StartedIsKnown:
  each subscription of the session is started by a key of the script's context, and what a key says is started the session knows, unless
  the other key of its name deleted it; subscriptions that the script deleted and finds again included.
- **UaBrowseProofs** proves KnownIsReachable for every graph and any answers.  The invariant says that what is known was
  visited or is still to be visited (`Covered`), that what was answered for visited nodes is known (`Followed`), and that nothing else is (`Led`).
  For FoundHasChildren the invariant gives every description a place in the walk of the tree from the root down, child after child
  (`Walk`: where it is met, and where all below it has been met); the search is a cut through that walk (`Searching`), so that
  the description with children is the first of its node (`FirstHas`).  `FindInEnds` and `FindsFirst` say of the recursion of
  findNodeById that it has a solution and finds the first description in that walk: descriptions are below older ones
  (`MadeBelow`), so a description for which either failed, and of which there is a youngest by `WFMin` of the library,
  would have a younger one.  KnownIsFound rests on the same lemmas.  EveryVisitCounts is the safety part of BrowseReturns: as `Nodes` is
  finite, the steps it allows are finitely many.

All safety properties of the passing runs are proved so, some under the assumptions named above.  Only model-checked are the
liveness properties (ScriptEndCompletes, EveryAssertionDecided, NotifiedIsHandled, PendingIsPublished, ThreadEndsWithSession,
BrowseReturns, EveryResultShown, RunEndsOrThrows, EveryRequestEnds, NamesCome, CallReturns), since TLAPS has neither fairness nor
ENABLED.  Where data are of any size, as the tree in which findNodeById looks, the proofs take the least element of a set of
counterexamples, for the library's induction rules take an operator that the provers cannot instantiate.

## 5. What is not modelled, and why

- *Memory visibility.*  Flags that are not volatile (`stopUpdaterThread`, `keepRunning`, `scriptIsRunning`) are taken
  to be seen by other threads when they are written.
- *Early returns that cannot happen.*  `startUpdaterThread` refuses a second thread of the same handler; every context
  has its own handler and starts it once.
- *Delivery:* the groups of a run are fixed; making and destroying them is in DaGroups.
- *Groups:* a second init of the same script, the rates of groups; a pattern of items is one item after another.
- *Transactions:* cancel and refresh, which nothing calls; synchronous reads and writes, which are one call and its answer and leave
  nothing behind; the texts of values and of the last error; cancel ids, which nothing reads, and the map of types, of which
  the model lets any entry be missing.  A change of data before a group's first item, when the handler of the group is not
  set yet, is taken not to come, since such a group has nothing to report.
- *Names:* the text of a name and its copy into the client's buffers; a server that changes its tree during a walk; a
  list of items that is reported as empty by S_FALSE is like an empty list.
- *UA subscriptions:* acknowledgements; the wrap-around of
  client handles after 2^32 of them; the rehash of the map of subscriptions at its seventh entry, which is
  the race of monitoredItems once more.
- *UA session:* an IllegalStateException of the stack, and a server that closes a channel by itself.
- *GUI:* texts, painting of parent nodes, Swing calls off the EDT, and dialogs, which are taken to be answered before
  anything else happens.  The label of an export names the file that is open, not the script that ran.
- *Browsing:* a server whose references change while it is browsed, and the types of data that descriptions cache.
- *Results, values, texts and logs* (`RunResultUtil`, Quality's bits, the conversions of Writer and of buffers, native formatting, pruning of
  the log): functions of one value without a state that anyone shares, which the unit tests of the repository cover.
- *Host discovery and COM set-up* (`OPCHost`): calls of DCOM and of the registry.
- *Tests, drivers, examples, vendored and generated code*: not the program.  Most native lines of the repository are of
  this kind (the headers of gtest, and `opcda.h` and `opccomn.h`, which are generated).

What is assumed of the code outside: an OPC server forgets the unanswered requests of a group that is removed and of a session that
ends; after `CoUninitialize` no new callback comes; a server runs one OnDataChange of a group at a time; undefined behaviour
in the native library either ends the process or has no effect on the state that is modelled.

## 6. The plan

In the order of importance; 1 to 9 are done.

1. `AsyncConditions` with `AssertionLedger` and proofs.
2. `UpdateDelivery` with `UpdateChannel` and proofs.
3. `UaSubscriptions` with proofs, and with handlers that throw.
4. `ScriptRunnerGui` with proofs.
5. `DaGroups` with proofs, AddedOncePerAsker included.
6. `UaSession` with proofs, and `UaBrowse` with proofs.
7. `DaTransactions`, the composition of groups with the callbacks of the server, with proofs.
8. The map of subscriptions of the UA DSL, in `UaSession`.
9. `DaNamespace`, the walk of the names and their pages, with proofs.

Left, in this order:

10. `ScriptRun`: `UpdateDelivery` composed with `AsyncConditions`, so that what the server notifies before the end of a script
    decides the assertions that were waiting for it; `UaSession` composed with `UaSubscriptions`.
11. Proofs about those compositions, and the safety parts of the liveness properties that have none yet (that each iteration of
    onScriptEnd's loop leaves less registered, and that each request of a transaction is answered, refused or dropped once).
12. `Values`: Quality's bits, RunResultUtil.toBoolean, patterns of item names, pruning of the log, the conversions of Writer; each
    against a reference definition over small inputs.
