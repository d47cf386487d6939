-------------------------------- MODULE DaGroups --------------------------------
(***************************************************************************)
(* Groups and items of OPC-DA scripts, as three layers keep them: the      *)
(* script's context (ScriptContext.groups, Group.items), the GroupManager  *)
(* of the native library, and the OPC server.  A script runs in a session  *)
(* of its own; the library is asked to go when the script ends, but its    *)
(* globals are still there for the next script if it is not unloaded.      *)
(* A script may go on to use a Group object after destroy(), beside a new  *)
(* one of the same name.                                                   *)
(*                                                                         *)
(* Every call of the script goes through all layers before it returns, so  *)
(* one action is one call.  What the updates of the items do meanwhile is  *)
(* UpdateDelivery's.                                                       *)
(***************************************************************************)
EXTENDS Integers, FiniteSets

CONSTANTS
  Names,        \* the names of groups
  Paths,        \* the paths of items
  Objects,      \* bound: the Group objects <<name, kind, number>> a script may make
  ItemKeys,     \* the paths as scripts give them: <<path, kind>>
  Space,        \* Space[n]: the items of the server that script n connects to
  Refusals,     \* the server may refuse connections, groups, callbacks and items
  LibraryStays, \* the library may not have been unloaded when the next script starts
  MaxSessions   \* bound: scripts that are run

\* A GString and a String of the same text are different keys of a map.
Kinds == {"String", "GString"}

ASSUME GroupsAssumption ==
  /\ Objects \subseteq Names \X Kinds \X Nat
  /\ ItemKeys \subseteq Paths \X Kinds
  /\ MaxSessions \in Nat
  /\ Space \in [1..MaxSessions -> SUBSET Paths]
  /\ Refusals \in BOOLEAN
  /\ LibraryStays \in BOOLEAN

VARIABLES
  session,       \* the scripts started so far; the running one has this number
  scriptPc,      \* "none", "new" (no init yet), "connected" (init returned) or "crashed"
  objects,       \* the Group objects that the script made, destroyed or not
  groups,        \* those in ScriptContext.groups, which is keyed by name and kind
  items,         \* items[o]: the keys in Group.items of object o
  made,          \* made[n]: the session of the node of n in m_groups, 0 if none
  nodeItems,     \* nodeItems[n]: the keys of its m_items
  server,        \* gspOpcServer: the session in which it was connected, 0 for NULL
  addressSpace,  \* gsoOpcServerAddressSpace
  serverGroups,  \* the groups of the session in the server
  serverItems,   \* serverItems[n][p]: how often item p was added to group n there
  refusedItems,  \* history: the groups of which the server refused an item
  asked          \* history: asked[n]: the objects that were asked for a new item, and its key,
                 \* since group n was made

contextVars == <<objects, groups, items>>
managerVars == <<made, nodeItems, server, addressSpace>>
serverVars == <<serverGroups, serverItems, refusedItems>>
vars == <<session, scriptPc, contextVars, managerVars, serverVars, asked>>

NoItems == [p \in Paths |-> 0]

\* The items of group n in the server.
Added(n) == {p \in Paths : serverItems[n][p] > 0}

TypeOK ==
  /\ session \in 0..MaxSessions
  /\ scriptPc \in {"none", "new", "connected", "crashed"}
  /\ objects \subseteq Objects
  /\ groups \subseteq objects
  /\ items \in [Objects -> SUBSET ItemKeys]
  /\ made \in [Names -> 0..session]
  /\ nodeItems \in [Names -> SUBSET Paths]
  /\ server \in 0..session
  /\ addressSpace \subseteq Paths
  /\ serverGroups \subseteq Names
  /\ serverItems \in [Names -> [Paths -> Nat]]
  /\ refusedItems \subseteq Names
  /\ asked \in [Names -> SUBSET (Objects \X ItemKeys)]

Init ==
  /\ session = 0
  /\ scriptPc = "none"
  /\ objects = {}
  /\ groups = {}
  /\ items = [o \in Objects |-> {}]
  /\ made = [n \in Names |-> 0]
  /\ nodeItems = [n \in Names |-> {}]
  /\ server = 0
  /\ addressSpace = {}
  /\ serverGroups = {}
  /\ serverItems = [n \in Names |-> NoItems]
  /\ refusedItems = {}
  /\ asked = [n \in Names |-> {}]

--------------------------------------------------------------------------------
(* Sessions.                                                                *)

LibraryReloaded ==
  /\ made' = [n \in Names |-> 0]
  /\ nodeItems' = [n \in Names |-> {}]
  /\ server' = 0
  /\ addressSpace' = {}

\* A new ScriptContext and a new Client, which loads the library or finds it.
StartScript ==
  /\ scriptPc = "none"
  /\ session < MaxSessions
  /\ session' = session + 1
  /\ scriptPc' = "new"
  /\ objects' = {}
  /\ groups' = {}
  /\ items' = [o \in Objects |-> {}]
  /\ LibraryReloaded \/ (LibraryStays /\ UNCHANGED managerVars)
  /\ UNCHANGED <<serverVars, asked>>

\* What a browse of the server's items finds, all of them if nothing is refused.
Browsed ==
  IF server' # session THEN {{}} ELSE IF Refusals THEN SUBSET Space[session] ELSE {Space[session]}

\* init: a connection that fails leaves the old server, or none, and nobody is told.
\* Then the address space is browsed if none is known yet, on a null pointer even.
InitSession ==
  /\ scriptPc = "new"
  /\ server' = session \/ (Refusals /\ server' = server)
  /\ IF addressSpace = {} THEN addressSpace' \in Browsed ELSE UNCHANGED addressSpace
  /\ scriptPc' = IF addressSpace = {} /\ server' = 0 THEN "crashed" ELSE "connected"
  /\ UNCHANGED <<session, contextVars, made, nodeItems, serverVars, asked>>

\* cleanUp: end() closes the session in the server and clears nothing else.
EndSession ==
  /\ scriptPc \in {"new", "connected"}
  /\ scriptPc' = "none"
  /\ serverGroups' = {}
  /\ serverItems' = [n \in Names |-> NoItems]
  /\ refusedItems' = {}
  /\ asked' = [n \in Names |-> {}]
  /\ UNCHANGED <<session, contextVars, managerVars>>

--------------------------------------------------------------------------------
(* Groups: ScriptContext.group and Group.destroy.                           *)

\* What GroupManager.CreateGroup may come to.  The server has one group of a name;
\* if it makes the group and then refuses its callback, the group stays there.
Existing(n) == made[n] # 0 /\ UNCHANGED <<made, nodeItems, serverVars, asked>>

AddGroupFails(n) ==
  /\ made[n] = 0
  /\ Refusals \/ n \in serverGroups \/ server # session
  /\ UNCHANGED <<made, nodeItems, serverVars, asked>>

\* Mutation: the node is kept before its callback is set, and stays if that fails.
AdviseFailsWithNode(n) ==
  /\ made[n] = 0
  /\ Refusals /\ n \notin serverGroups /\ server = session
  /\ made' = [made EXCEPT ![n] = session]
  /\ UNCHANGED <<nodeItems, serverVars, asked>>

AdviseFails(n) ==
  /\ made[n] = 0
  /\ Refusals /\ n \notin serverGroups /\ server = session
  /\ serverGroups' = serverGroups \cup {n}
  /\ UNCHANGED <<made, nodeItems, serverItems, refusedItems, asked>>

GroupMade(n) ==
  /\ made[n] = 0
  /\ n \notin serverGroups /\ server = session
  /\ made' = [made EXCEPT ![n] = session]
  /\ nodeItems' = [nodeItems EXCEPT ![n] = {}]
  /\ serverGroups' = serverGroups \cup {n}
  /\ asked' = [asked EXCEPT ![n] = {}]
  /\ UNCHANGED <<serverItems, refusedItems>>

CreateGroup(n) == Existing(n) \/ AddGroupFails(n) \/ AdviseFails(n) \/ GroupMade(n)

\* The objects among os that the context's map holds, or held, under the key of o.
OfKey(os, o) == {x \in os : x[1] = o[1] /\ x[2] = o[2]}

\* group(name): made when the context has none under this key, which has it then, made
\* or not.  The object of an earlier group() of the key is another one.
Group(o) ==
  /\ scriptPc = "connected"
  /\ OfKey(groups, o) = {}
  /\ o[3] = Cardinality(OfKey(objects, o)) + 1
  /\ CreateGroup(o[1])
  /\ objects' = objects \cup {o}
  /\ groups' = groups \cup {o}
  /\ UNCHANGED <<session, scriptPc, items, server, addressSpace>>

\* What the server does with a group and its items that are removed.  It may refuse, and
\* the library does not look at what it answers.
Removed(n) ==
  /\ serverGroups' = serverGroups \ {n}
  /\ serverItems' = [serverItems EXCEPT ![n] = NoItems]
  /\ refusedItems' = refusedItems \ {n}

LeftThere(n, left) ==
  /\ Refusals
  /\ serverItems' = [serverItems EXCEPT ![n] =
                       [p \in Paths |-> IF p \in left THEN serverItems[n][p] ELSE 0]]
  /\ UNCHANGED <<serverGroups, refusedItems>>

\* GroupManager.DestroyGroup: the node, its group and its items go.
DestroyGroup(n) ==
  /\ made' = [made EXCEPT ![n] = 0]
  /\ nodeItems' = [nodeItems EXCEPT ![n] = {}]
  /\ IF made[n] = session
     THEN Removed(n) \/ \E left \in SUBSET Added(n) : LeftThere(n, left)
     ELSE UNCHANGED serverVars

\* destroy(), of any object that the script has, more than once even: the library's group
\* of its name goes, and what the context has under the text of the name, another object even.
Destroy(o) ==
  /\ scriptPc = "connected"
  /\ o \in objects
  /\ DestroyGroup(o[1])
  /\ groups' = {x \in groups : x[1] # o[1] \/ x[2] # "String"}
  /\ UNCHANGED <<session, scriptPc, objects, items, server, addressSpace, asked>>

--------------------------------------------------------------------------------
(* Items: Group.item.                                                       *)

\* GroupManager.AddItem: not in the address space, no node, or a call that fails, as it
\* does for a node of another session: nothing changes.
AddItemFails(n, p) ==
  /\ Refusals \/ p \notin addressSpace \/ made[n] # session
  /\ UNCHANGED <<nodeItems, serverItems, refusedItems>>

\* The server refuses the item, which is deleted: its destructor removes from the
\* server's group whatever item the handle it was never given happens to denote.
ItemRefused(n, p) ==
  /\ p \in addressSpace /\ made[n] = session
  /\ Refusals \/ p \notin Space[session]
  /\ refusedItems' = refusedItems \cup {n}
  /\ \/ \E q \in Added(n) : serverItems' = [serverItems EXCEPT ![n][q] = @ - 1]
     \/ UNCHANGED serverItems
  /\ UNCHANGED nodeItems

\* Node and server keep an item even if the type of its value cannot be read, when
\* addItem answers that it failed.
ItemAdded(n, p) ==
  /\ p \in addressSpace /\ p \in Space[session]
  /\ made[n] = session
  /\ nodeItems' = [nodeItems EXCEPT ![n] = @ \cup {p}]
  /\ serverItems' = [serverItems EXCEPT ![n][p] = @ + 1]
  /\ UNCHANGED refusedItems

AddItem(n, p) == AddItemFails(n, p) \/ ItemRefused(n, p) \/ ItemAdded(n, p)

\* Mutation: a known item is added again.
ItemAlways(o, key) ==
  /\ scriptPc = "connected"
  /\ o \in objects
  /\ AddItem(o[1], key[1])
  /\ items' = [items EXCEPT ![o] = @ \cup {key}]
  /\ asked' = [asked EXCEPT ![o[1]] = @ \cup {<<o, key>>}]
  /\ UNCHANGED <<session, scriptPc, objects, groups, made, server, addressSpace, serverGroups>>

\* item(path), of any object that the script has, destroyed or not: added when the object
\* does not know it, and known then, added or not.
\* items(pattern) is this for each matching path that is not known, one after another.
Item(o, key) ==
  /\ scriptPc = "connected"
  /\ o \in objects
  /\ key \notin items[o]
  /\ AddItem(o[1], key[1])
  /\ items' = [items EXCEPT ![o] = @ \cup {key}]
  /\ asked' = [asked EXCEPT ![o[1]] = @ \cup {<<o, key>>}]
  /\ UNCHANGED <<session, scriptPc, objects, groups, made, server, addressSpace, serverGroups>>

--------------------------------------------------------------------------------
Next ==
  \/ StartScript \/ InitSession \/ EndSession
  \/ \E o \in Objects : Group(o) \/ Destroy(o)
  \/ \E o \in Objects, key \in ItemKeys : Item(o, key)

Spec == Init /\ [][Next]_vars

--------------------------------------------------------------------------------
(* Properties.                                                              *)

\* The native library and the server agree on every group of the session the
\* library knows, and on its items, whatever the server refused on the way, whether
\* the connection was made, and whatever is left of the session before.  Only where
\* the server refused an item, it may have lost others of the group (COPCItem's
\* destructor); there is always a server to talk to.
NodesAreServed ==
  scriptPc = "connected" =>
    /\ server # 0
    /\ \A n \in Names : made[n] = session =>
         /\ server = session
         /\ n \in serverGroups
         /\ Added(n) \subseteq nodeItems[n]
         /\ n \notin refusedItems => nodeItems[n] = Added(n)

\* Those that asked for item p since group n was made.
Askers(n, p) == {x \in asked[n] : x[2][1] = p}

\* A second addition of an item doubles every update of it.  Each Group object adds an
\* item once for each spelling of its path in the life of a group, so that an item is
\* doubled only by scripts that use two objects of one name, as after destroy(), or both
\* Strings and GStrings; never by groups that come and go, by refusals, or by what is
\* left of earlier scripts.
AddedOncePerAsker == \A n \in Names, p \in Paths : serverItems[n][p] <= Cardinality(Askers(n, p))

\* What group(name) finds is a group that exists.
FoundGroupExists == \A o \in groups : made[o[1]] = session

\* A group that exists and that the context knows does not go while the context goes
\* on knowing it, unless it was named by a GString.
KnownGroupsStay ==
  [][\A o \in groups \cap groups' :
        made[o[1]] = session /\ made'[o[1]] # session' => o[2] = "GString"]_vars
================================================================================
