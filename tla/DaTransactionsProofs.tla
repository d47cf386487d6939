-------------------------- MODULE DaTransactionsProofs --------------------------
(***************************************************************************)
(* Proofs about DaGroups: the native library and the server agree on       *)
(* groups and items for any names, paths, servers and refusals, and        *)
(* whether or not the library is unloaded between scripts.                 *)
(*                                                                         *)
(* Then about DaTransactions: what is proved there holds beside the        *)
(* callbacks, too; callbacks come into live groups; and transactions       *)
(* complete once and whole.  Both are type correct.                        *)
(***************************************************************************)
EXTENDS DaTransactions, FiniteSetTheorems, TLAPS

\* What NodesAreServed says of group n.
Served(n) ==
  /\ server = session
  /\ n \in serverGroups
  /\ Added(n) \subseteq nodeItems[n]
  /\ n \notin refusedItems => nodeItems[n] = Added(n)

\* The types the proof needs: counts of items have no bound here.
Typed ==
  /\ session \in Nat
  /\ scriptPc \in {"none", "new", "connected", "crashed"}
  /\ made \in [Names -> Nat]
  /\ nodeItems \in [Names -> SUBSET Paths]
  /\ serverGroups \subseteq Names
  /\ serverItems \in [Names -> [Paths -> Nat]]
  /\ server \in Nat

\* Nodes and the server the library holds are of sessions that were started, and of
\* older ones until init was called.  An address space was read from a server.
NodesAreOlder ==
  /\ scriptPc # "none" => session > 0
  /\ \A n \in Names : made[n] <= session
  /\ scriptPc = "new" => \A n \in Names : made[n] # session
  /\ server <= session
  /\ addressSpace # {} => server # 0

\* The server has items only in groups it has.
NoGroupNoItems == \A n \in Names : n \notin serverGroups => serverItems[n] = NoItems

IInv == Typed /\ NodesAreOlder /\ NoGroupNoItems /\ NodesAreServed

LEMMA ObjectParts ==
  /\ \A o \in Objects : o[1] \in Names /\ o[2] \in Kinds
  /\ \A key \in ItemKeys : key[1] \in Paths
BY GroupsAssumption

LEMMA InitIInv == Init => IInv
BY DEF Init, IInv, Typed, NodesAreOlder, NoGroupNoItems, NodesAreServed, NoItems

LEMMA StartScriptIInv == ASSUME IInv, StartScript PROVE IInv'
<1> USE DEF IInv, StartScript
<1>1. Typed'
  BY DEF Typed, LibraryReloaded, managerVars, serverVars
<1>2. NodesAreOlder'
  BY DEF Typed, NodesAreOlder, LibraryReloaded, managerVars
<1>3. NoGroupNoItems'
  BY DEF NoGroupNoItems, serverVars, NoItems
<1>4. NodesAreServed'
  BY DEF NodesAreServed
<1> QED BY <1>1, <1>2, <1>3, <1>4

LEMMA InitSessionIInv == ASSUME IInv, InitSession PROVE IInv'
<1> USE DEF IInv, InitSession
<1>1. Typed' /\ NoGroupNoItems'
  BY DEF Typed, NoGroupNoItems, NoItems, serverVars, NodesAreOlder
<1>2. addressSpace # {} \/ server' # session => addressSpace' = addressSpace \/ addressSpace' = {}
  BY DEF Browsed
<1>3. NodesAreOlder'
  BY <1>2 DEF Typed, NodesAreOlder
<1>4. NodesAreServed'
  BY DEF NodesAreOlder, NodesAreServed, Typed
<1> QED BY <1>1, <1>3, <1>4

LEMMA EndSessionIInv == ASSUME IInv, EndSession PROVE IInv'
<1> USE DEF IInv, EndSession
<1>1. Typed' /\ NodesAreOlder' /\ NoGroupNoItems'
  BY DEF Typed, NodesAreOlder, NoGroupNoItems, NoItems, managerVars
<1>2. NodesAreServed'
  BY DEF NodesAreServed
<1> QED BY <1>1, <1>2

LEMMA CreateGroupIInv ==
  ASSUME IInv, NEW n \in Names, scriptPc = "connected", CreateGroup(n),
         UNCHANGED <<session, scriptPc, server, addressSpace>>
  PROVE  IInv'
<1> USE DEF IInv
<1>1. CASE Existing(n) \/ AddGroupFails(n)
  BY <1>1 DEF Existing, AddGroupFails, serverVars, Typed, NodesAreOlder, NoGroupNoItems,
     NodesAreServed, NoItems, Added
<1>2. CASE AdviseFails(n)
  BY <1>2 DEF AdviseFails, Typed, NodesAreOlder, NoGroupNoItems, NodesAreServed, NoItems, Added
<1>3. CASE GroupMade(n)
  <2>1. Typed' /\ NodesAreOlder'
    BY <1>3 DEF GroupMade, Typed, NodesAreOlder
  <2>2. NoGroupNoItems'
    BY <1>3 DEF GroupMade, NoGroupNoItems, NoItems
  <2>3. serverItems[n] = NoItems
    BY <1>3 DEF GroupMade, NoGroupNoItems
  <2>4. Added(n)' = {}
    BY <1>3, <2>3 DEF GroupMade, Added, NoItems
  <2>5. ASSUME NEW o \in Names, made'[o] = session
        PROVE  Served(o)'
    BY <1>3, <2>4, <2>5 DEF GroupMade, NodesAreServed, Typed, Added, Served
  <2> QED BY <2>1, <2>2, <2>5 DEF NodesAreServed, Served
<1> QED BY <1>1, <1>2, <1>3 DEF CreateGroup

LEMMA DestroyGroupIInv ==
  ASSUME IInv, NEW n \in Names, scriptPc = "connected", DestroyGroup(n),
         UNCHANGED <<session, scriptPc, server, addressSpace>>
  PROVE  IInv'
<1> USE DEF IInv
<1>1. /\ serverGroups' \subseteq Names
      /\ serverItems' \in [Names -> [Paths -> Nat]]
      /\ \A o \in Names \ {n} :
            /\ serverItems'[o] = serverItems[o]
            /\ o \in serverGroups' <=> o \in serverGroups
            /\ o \in refusedItems' <=> o \in refusedItems
      /\ n \notin serverGroups' => serverItems'[n] = NoItems
  <2>1. CASE Removed(n)
    BY <2>1 DEF Removed, Typed, NoItems
  <2>2. ASSUME NEW left \in SUBSET Added(n), LeftThere(n, left)
        PROVE  /\ serverItems' \in [Names -> [Paths -> Nat]]
               /\ \A o \in Names \ {n} : serverItems'[o] = serverItems[o]
               /\ n \notin serverGroups => serverItems'[n] = NoItems
    <3>1. \A p \in Paths : (IF p \in left THEN serverItems[n][p] ELSE 0) \in Nat
      BY DEF Typed
    <3>2. serverItems' = [serverItems EXCEPT ![n] =
                            [p \in Paths |-> IF p \in left THEN serverItems[n][p] ELSE 0]]
      BY <2>2 DEF LeftThere
    <3>3. n \notin serverGroups => \A p \in Paths : serverItems[n][p] = 0
      BY DEF NoGroupNoItems, NoItems
    <3>4. [p \in Paths |-> IF p \in left THEN serverItems[n][p] ELSE 0] \in [Paths -> Nat]
      BY <3>1
    <3>5. serverItems' \in [Names -> [Paths -> Nat]]
      BY <3>2, <3>4 DEF Typed
    <3>6. serverItems'[n] = [p \in Paths |-> IF p \in left THEN serverItems[n][p] ELSE 0]
      BY <3>2 DEF Typed
    <3>7. n \notin serverGroups => serverItems'[n] = NoItems
      BY <3>3, <3>6 DEF NoItems
    <3>8. \A o \in Names \ {n} : serverItems'[o] = serverItems[o]
      BY <3>2 DEF Typed
    <3> QED BY <3>5, <3>7, <3>8
  <2>3. CASE UNCHANGED serverVars
    BY <2>3 DEF serverVars, Typed, NoGroupNoItems
  <2>4. \A left \in SUBSET Added(n) : LeftThere(n, left) => UNCHANGED <<serverGroups, refusedItems>>
    BY DEF LeftThere
  <2> QED BY <2>1, <2>2, <2>3, <2>4 DEF DestroyGroup, Typed
<1>2. Typed'
  BY <1>1 DEF DestroyGroup, Typed
<1>3. NodesAreOlder'
  BY DEF DestroyGroup, Typed, NodesAreOlder
<1>4. NoGroupNoItems'
  BY <1>1 DEF NoGroupNoItems, NoItems
<1>5. ASSUME NEW o \in Names, made'[o] = session
      PROVE  Served(o)'
  <2>1. o # n /\ made[o] = session /\ nodeItems'[o] = nodeItems[o]
    BY <1>5 DEF DestroyGroup, Typed, NodesAreOlder
  <2> QED BY <1>1, <1>5, <2>1 DEF NodesAreServed, Added, Served
<1> QED BY <1>2, <1>3, <1>4, <1>5 DEF NodesAreServed, Served

LEMMA AddItemIInv ==
  ASSUME IInv, NEW n \in Names, NEW p \in Paths, scriptPc = "connected", AddItem(n, p),
         UNCHANGED <<session, scriptPc, made, server, addressSpace, serverGroups>>
  PROVE  IInv'
<1> USE DEF IInv
<1>1. CASE AddItemFails(n, p)
  BY <1>1 DEF AddItemFails, Typed, NodesAreOlder, NoGroupNoItems, NodesAreServed, NoItems, Added
<1>2. CASE ItemAdded(n, p)
  <2>1. Served(n)
    BY <1>2 DEF ItemAdded, NodesAreServed, Served
  <2>2. Typed' /\ NodesAreOlder'
    BY <1>2 DEF ItemAdded, Typed, NodesAreOlder
  <2>3. NoGroupNoItems'
    BY <1>2, <2>1 DEF ItemAdded, NoGroupNoItems, NoItems, Typed, Served
  <2>4. Added(n)' = Added(n) \cup {p}
    BY <1>2 DEF ItemAdded, Added, Typed
  <2>5. ASSUME NEW o \in Names, made'[o] = session
        PROVE  Served(o)'
    BY <1>2, <2>1, <2>4, <2>5 DEF ItemAdded, NodesAreServed, Added, Typed, Served
  <2> QED BY <2>2, <2>3, <2>5 DEF NodesAreServed, Served
<1>3. CASE ItemRefused(n, p)
  <2>1. Served(n)
    BY <1>3 DEF ItemRefused, NodesAreServed, Served
  <2>2. /\ serverItems' \in [Names -> [Paths -> Nat]]
        /\ \A o \in Names \ {n} : serverItems'[o] = serverItems[o]
        /\ Added(n)' \subseteq Added(n)
    <3>1. CASE UNCHANGED serverItems
      BY <3>1 DEF Added, Typed
    <3>2. ASSUME NEW q \in Added(n), serverItems' = [serverItems EXCEPT ![n][q] = @ - 1]
          PROVE  /\ serverItems' \in [Names -> [Paths -> Nat]]
                 /\ \A o \in Names \ {n} : serverItems'[o] = serverItems[o]
                 /\ Added(n)' \subseteq Added(n)
      <4>1. q \in Paths /\ serverItems[n][q] \in Nat /\ serverItems[n][q] - 1 \in Nat
        BY DEF Added, Typed
      <4> QED BY <3>2, <4>1 DEF Added, Typed
    <3> QED BY <1>3, <3>1, <3>2 DEF ItemRefused
  <2>3. Typed' /\ NodesAreOlder'
    BY <1>3, <2>2 DEF ItemRefused, Typed, NodesAreOlder
  <2>4. NoGroupNoItems'
    BY <2>1, <2>2 DEF NoGroupNoItems, NoItems, Served
  <2>5. ASSUME NEW o \in Names, made'[o] = session
        PROVE  Served(o)'
    BY <1>3, <2>1, <2>2, <2>5 DEF ItemRefused, NodesAreServed, Added, Typed, Served
  <2> QED BY <1>3, <2>3, <2>4, <2>5 DEF NodesAreServed, Served
<1> QED BY <1>1, <1>2, <1>3 DEF AddItem

LEMMA UnchangedIInv ==
  ASSUME IInv,
         UNCHANGED <<session, scriptPc, managerVars, serverVars>>
  PROVE  IInv'
BY DEF IInv, Typed, NodesAreOlder, NoGroupNoItems, NodesAreServed, NoItems, Added, managerVars,
   serverVars

LEMMA NextIInv == IInv /\ [Next]_vars => IInv'
<1> SUFFICES ASSUME IInv, [Next]_vars PROVE IInv'
  OBVIOUS
<1>1. CASE StartScript BY <1>1, StartScriptIInv
<1>2. CASE InitSession BY <1>2, InitSessionIInv
<1>3. CASE EndSession BY <1>3, EndSessionIInv
<1>4. ASSUME NEW o \in Objects, Group(o) PROVE IInv'
  BY <1>4, CreateGroupIInv, ObjectParts DEF Group
<1>5. ASSUME NEW o \in Objects, Destroy(o) PROVE IInv'
  BY <1>5, DestroyGroupIInv, ObjectParts DEF Destroy
<1>6. ASSUME NEW o \in Objects, NEW key \in ItemKeys, Item(o, key) PROVE IInv'
  BY <1>6, AddItemIInv, ObjectParts DEF Item
<1>7. CASE UNCHANGED vars
  BY <1>7, UnchangedIInv DEF vars
<1> QED BY <1>1, <1>2, <1>3, <1>4, <1>5, <1>6, <1>7 DEF Next

\* The native library (GroupManager, GroupNode) and the server agree on every group
\* of the running session and on its items, whatever fails and whatever is left of
\* earlier sessions.
THEOREM LibraryAndServerAgree == Spec => []NodesAreServed
<1>1. IInv => NodesAreServed BY DEF IInv
<1> QED BY InitIInv, NextIInv, <1>1, PTL DEF Spec

\* The context knows objects that the script made.
KnownObjects == objects \subseteq Objects /\ groups \subseteq objects

LEMMA NextKnownObjects == KnownObjects /\ [Next]_vars => KnownObjects'
<1> SUFFICES ASSUME KnownObjects, [Next]_vars PROVE KnownObjects'
  OBVIOUS
<1> USE DEF KnownObjects
<1>1. CASE StartScript \/ InitSession \/ EndSession
  BY <1>1 DEF StartScript, InitSession, EndSession, contextVars
<1>2. ASSUME NEW o \in Objects, Group(o) \/ Destroy(o) PROVE KnownObjects'
  BY <1>2 DEF Group, Destroy
<1>3. ASSUME NEW o \in Objects, NEW key \in ItemKeys, Item(o, key) PROVE KnownObjects'
  BY <1>3 DEF Item
<1>4. CASE UNCHANGED vars
  BY <1>4 DEF vars, contextVars
<1> QED BY <1>1, <1>2, <1>3, <1>4 DEF Next

\* A group goes only together with the key the context knows it by, save one that is a
\* GString, whatever the server refuses, however sessions follow each other and whichever
\* of the objects of its name the script destroys.
THEOREM GroupsGoWithTheirKeys == Spec => KnownGroupsStay
<1> DEFINE Kept == \A o \in groups \cap groups' :
                     made[o[1]] = session /\ made'[o[1]] # session' => o[2] = "GString"
<1>1. IInv /\ KnownObjects /\ [Next]_vars => [Kept]_vars
  <2> SUFFICES ASSUME IInv, KnownObjects, Next, NEW k \in groups \cap groups',
                      made[k[1]] = session, made'[k[1]] # session'
               PROVE  k[2] = "GString"
    OBVIOUS
  <2>1. k[1] \in Names /\ k[2] \in {"String", "GString"}
    BY ObjectParts DEF KnownObjects, Kinds
  <2>2. CASE StartScript
    BY <2>2 DEF StartScript
  <2>3. CASE InitSession \/ EndSession
    BY <2>3 DEF InitSession, EndSession, managerVars
  <2>4. ASSUME NEW o \in Objects, Group(o) PROVE k[2] = "GString"
    BY <2>1, <2>4 DEF Group, CreateGroup, Existing, AddGroupFails, AdviseFails, GroupMade, IInv, Typed
  <2>5. ASSUME NEW o \in Objects, Destroy(o) PROVE k[2] = "GString"
    <3>1. made' = [made EXCEPT ![o[1]] = 0] /\ session' = session
      BY <2>5 DEF Destroy, DestroyGroup
    <3>2. k[1] = o[1]
      BY <2>1, <3>1 DEF IInv, Typed
    <3>3. k[1] # o[1] \/ k[2] # "String"
      BY <2>5 DEF Destroy
    <3> QED BY <2>1, <3>2, <3>3
  <2>6. ASSUME NEW o \in Objects, NEW key \in ItemKeys, Item(o, key) PROVE k[2] = "GString"
    BY <2>6 DEF Item
  <2> QED BY <2>2, <2>3, <2>4, <2>5, <2>6 DEF Next
<1>2. Init => KnownObjects BY DEF Init, KnownObjects
<1> QED BY InitIInv, NextIInv, NextKnownObjects, <1>1, <1>2, PTL DEF Spec, KnownGroupsStay

--------------------------------------------------------------------------------
(* Additions of items and the objects that asked for them.                  *)

\* What asked for an item knows it ever after, so it does not ask again.
AskedIsKnown ==
  /\ asked \in [Names -> SUBSET (Objects \X ItemKeys)]
  /\ items \in [Objects -> SUBSET ItemKeys]
  /\ \A n \in Names : IsFiniteSet(asked[n])
  /\ \A n \in Names : \A x \in asked[n] : x[2] \in items[x[1]]
  /\ scriptPc = "none" => \A n \in Names : asked[n] = {}

\* The server has nothing between scripts.
NoScriptNoItems == scriptPc = "none" => \A n \in Names : serverItems[n] = NoItems

CountIInv ==
  /\ IInv
  /\ KnownObjects
  /\ AskedIsKnown
  /\ NoScriptNoItems
  /\ AddedOncePerAsker

LEMMA AskersFinite ==
  ASSUME NEW n, NEW p, IsFiniteSet(asked[n])
  PROVE  IsFiniteSet(Askers(n, p)) /\ Cardinality(Askers(n, p)) \in Nat
BY FS_Subset, FS_CardinalityType DEF Askers

LEMMA InitCount == Init => CountIInv
<1> SUFFICES ASSUME Init PROVE CountIInv
  OBVIOUS
<1>1. AskedIsKnown /\ NoScriptNoItems /\ KnownObjects
  BY FS_EmptySet DEF Init, AskedIsKnown, NoScriptNoItems, KnownObjects
<1>2. \A n \in Names, p \in Paths : serverItems[n][p] = 0
  BY DEF Init, NoItems
<1>3. \A n \in Names, p \in Paths : Cardinality(Askers(n, p)) \in Nat
  BY <1>1, AskersFinite DEF AskedIsKnown
<1>4. AddedOncePerAsker
  BY <1>2, <1>3 DEF AddedOncePerAsker
<1> QED BY <1>1, <1>4, InitIInv DEF CountIInv

\* The count after a step in which no group has more items than before.
LEMMA CountKept ==
  ASSUME IInv, IInv', AddedOncePerAsker, AskedIsKnown',
         \A n \in Names, p \in Paths :
            serverItems'[n][p] = 0 \/ (serverItems'[n][p] <= serverItems[n][p] /\ asked'[n] = asked[n])
  PROVE  AddedOncePerAsker'
<1> SUFFICES ASSUME NEW n \in Names, NEW p \in Paths
             PROVE  serverItems'[n][p] <= Cardinality(Askers(n, p)')
  BY DEF AddedOncePerAsker
<1>1. Cardinality(Askers(n, p)') \in Nat
  BY FS_Subset, FS_CardinalityType DEF AskedIsKnown, Askers
<1>2. serverItems'[n][p] \in Nat /\ serverItems[n][p] \in Nat
  BY DEF IInv, Typed
<1>3. CASE serverItems'[n][p] = 0
  BY <1>1, <1>3
<1>4. CASE serverItems'[n][p] <= serverItems[n][p] /\ asked'[n] = asked[n]
  <2>1. Askers(n, p)' = Askers(n, p)
    BY <1>4 DEF Askers
  <2>2. serverItems[n][p] <= Cardinality(Askers(n, p)')
    BY <2>1 DEF AddedOncePerAsker
  <2> QED BY <1>1, <1>2, <1>4, <2>2
<1> QED BY <1>3, <1>4

LEMMA SessionsCount ==
  ASSUME CountIInv, IInv', KnownObjects', StartScript \/ InitSession \/ EndSession
  PROVE  CountIInv'
<1> USE DEF CountIInv
<1>1. AskedIsKnown' /\ NoScriptNoItems'
  <2>1. CASE StartScript
    BY <2>1 DEF StartScript, AskedIsKnown, NoScriptNoItems, serverVars
  <2>2. CASE InitSession
    BY <2>2 DEF InitSession, AskedIsKnown, NoScriptNoItems, serverVars, contextVars
  <2>3. CASE EndSession
    BY <2>3, FS_EmptySet DEF EndSession, AskedIsKnown, NoScriptNoItems, contextVars
  <2> QED BY <2>1, <2>2, <2>3
<1>2. \A n \in Names, p \in Paths :
         serverItems'[n][p] = 0 \/ (serverItems'[n][p] <= serverItems[n][p] /\ asked'[n] = asked[n])
  BY DEF StartScript, InitSession, EndSession, serverVars, NoItems, IInv, Typed
<1> QED BY <1>1, <1>2, CountKept

LEMMA GroupCount ==
  ASSUME CountIInv, IInv', KnownObjects', NEW o \in Objects, Group(o)
  PROVE  CountIInv'
<1> USE DEF CountIInv
<1> DEFINE n == o[1]
<1>1. n \in Names BY ObjectParts
<1>2. /\ UNCHANGED <<serverItems, items, scriptPc>> /\ scriptPc = "connected"
      /\ \/ asked' = asked
         \/ asked' = [asked EXCEPT ![n] = {}] /\ n \notin serverGroups
  BY DEF Group, CreateGroup, Existing, AddGroupFails, AdviseFails, GroupMade, serverVars
<1> HIDE DEF n
<1>3. AskedIsKnown' /\ NoScriptNoItems'
  BY <1>1, <1>2, FS_EmptySet DEF AskedIsKnown, NoScriptNoItems
<1>4. \A m \in Names, p \in Paths :
         serverItems'[m][p] = 0 \/ (serverItems'[m][p] <= serverItems[m][p] /\ asked'[m] = asked[m])
  BY <1>1, <1>2 DEF AskedIsKnown, IInv, Typed, NoGroupNoItems, NoItems
<1> QED BY <1>3, <1>4, CountKept

LEMMA DestroyCount ==
  ASSUME CountIInv, IInv', KnownObjects', NEW o \in Objects, Destroy(o)
  PROVE  CountIInv'
<1> USE DEF CountIInv
<1> DEFINE n == o[1]
<1>1. n \in Names BY ObjectParts
<1>2. UNCHANGED <<asked, items, scriptPc>> /\ scriptPc = "connected" /\ DestroyGroup(n)
  BY DEF Destroy
<1> HIDE DEF n
<1>3. AskedIsKnown' /\ NoScriptNoItems'
  BY <1>2 DEF AskedIsKnown, NoScriptNoItems
<1>4. ASSUME NEW m \in Names, NEW p \in Paths
      PROVE  serverItems'[m][p] = 0 \/ serverItems'[m][p] <= serverItems[m][p]
  <2>1. serverItems[m][p] \in Nat
    BY DEF IInv, Typed
  <2>2. CASE Removed(n)
    BY <1>1, <2>1, <2>2 DEF Removed, NoItems, IInv, Typed
  <2>3. ASSUME NEW left \in SUBSET Added(n), LeftThere(n, left)
        PROVE  serverItems'[m][p] = 0 \/ serverItems'[m][p] <= serverItems[m][p]
    BY <1>1, <2>1, <2>3 DEF LeftThere, IInv, Typed
  <2>4. CASE UNCHANGED serverVars
    BY <2>1, <2>4 DEF serverVars
  <2> QED BY <1>2, <2>2, <2>3, <2>4 DEF DestroyGroup
<1> QED BY <1>2, <1>3, <1>4, CountKept

\* One more addition has one more asker.
LEMMA AskerAdded ==
  ASSUME CountIInv, NEW o \in Objects, NEW key \in ItemKeys, Item(o, key)
  PROVE  /\ AskedIsKnown'
         /\ \A m \in Names, p \in Paths : Askers(m, p) \subseteq Askers(m, p)'
         /\ \A m \in Names, p \in Paths : Cardinality(Askers(m, p)) <= Cardinality(Askers(m, p)')
         /\ Cardinality(Askers(o[1], key[1])') = Cardinality(Askers(o[1], key[1])) + 1
<1> USE DEF CountIInv
<1> DEFINE n == o[1]
           x == <<o, key>>
<1>1. n \in Names /\ key[1] \in Paths BY ObjectParts
<1>2. /\ items' = [items EXCEPT ![o] = @ \cup {key}]
      /\ asked' = [asked EXCEPT ![n] = @ \cup {x}]
      /\ scriptPc' = "connected" /\ key \notin items[o]
  BY DEF Item
<1>3. x \in Objects \X ItemKeys /\ x[1] = o /\ x[2] = key
  OBVIOUS
<1> HIDE DEF n, x
<1>4. \A m \in Names : asked'[m] = IF m = n THEN asked[m] \cup {x} ELSE asked[m]
  BY <1>1, <1>2 DEF AskedIsKnown
<1>5. ASSUME NEW m \in Names PROVE IsFiniteSet(asked'[m])
  <2>1. IsFiniteSet(asked[m])
    BY DEF AskedIsKnown
  <2>2. IsFiniteSet(asked[m] \cup {x})
    BY <2>1, FS_AddElement
  <2> QED BY <1>4, <2>1, <2>2
<1>6. \A y \in Objects : items[y] \subseteq items'[y]
  BY <1>2 DEF AskedIsKnown
<1>7. key \in items'[o]
  BY <1>2 DEF AskedIsKnown
<1>8. ASSUME NEW m \in Names, NEW y \in asked'[m] PROVE y[2] \in items'[y[1]]
  <2>1. CASE y = x BY <1>3, <1>7, <2>1
  <2>2. CASE y \in asked[m]
    <3>1. y[1] \in Objects /\ y[2] \in items[y[1]] BY <2>2 DEF AskedIsKnown
    <3> QED BY <1>6, <3>1
  <2> QED BY <1>4, <1>8, <2>1, <2>2
<1>9. /\ asked' \in [Names -> SUBSET (Objects \X ItemKeys)]
      /\ items' \in [Objects -> SUBSET ItemKeys]
  BY <1>1, <1>2, <1>3 DEF AskedIsKnown
<1>10. AskedIsKnown'
  BY <1>2, <1>5, <1>8, <1>9 DEF AskedIsKnown
<1>11. x \notin asked[n]
  BY <1>1, <1>2, <1>3 DEF AskedIsKnown
<1>12. \A m \in Names, p \in Paths :
          Askers(m, p)' = IF m = n /\ p = key[1] THEN Askers(m, p) \cup {x} ELSE Askers(m, p)
  BY <1>3, <1>4 DEF Askers
<1>13. \A m \in Names, p \in Paths : IsFiniteSet(Askers(m, p)) /\ Cardinality(Askers(m, p)) \in Nat
  BY AskersFinite DEF AskedIsKnown
<1>14. x \notin Askers(n, key[1])
  BY <1>11 DEF Askers
<1>15. Cardinality(Askers(n, key[1]) \cup {x}) = Cardinality(Askers(n, key[1])) + 1
  BY <1>1, <1>13, <1>14, FS_AddElement
<1>16. Cardinality(Askers(n, key[1])') = Cardinality(Askers(n, key[1])) + 1
  BY <1>1, <1>12, <1>15
<1>17. ASSUME NEW m \in Names, NEW p \in Paths
       PROVE  Cardinality(Askers(m, p)) <= Cardinality(Askers(m, p)')
  <2>1. CASE m = n /\ p = key[1]
    <3>1. Cardinality(Askers(n, key[1])) \in Nat
      BY <1>1, <1>13
    <3> QED BY <1>16, <2>1, <3>1
  <2>2. CASE ~(m = n /\ p = key[1])
    <3>1. Askers(m, p)' = Askers(m, p)
      BY <1>12, <2>2
    <3> QED BY <1>13, <3>1
  <2> QED BY <2>1, <2>2
<1>18. \A m \in Names, p \in Paths : Askers(m, p) \subseteq Askers(m, p)'
  BY <1>12
<1> QED BY <1>10, <1>16, <1>17, <1>18 DEF n

LEMMA ItemCount ==
  ASSUME CountIInv, IInv', KnownObjects', NEW o \in Objects, NEW key \in ItemKeys, Item(o, key)
  PROVE  CountIInv'
<1> USE DEF CountIInv
<1> DEFINE n == o[1]
           q == key[1]
<1>1. n \in Names /\ q \in Paths BY ObjectParts
<1>2. AskedIsKnown' /\ NoScriptNoItems'
  BY AskerAdded DEF Item, NoScriptNoItems
<1>3. AddItem(n, q)
  BY DEF Item
<1>4. /\ \A m \in Names, p \in Paths : Cardinality(Askers(m, p)) <= Cardinality(Askers(m, p)')
      /\ Cardinality(Askers(n, q)') = Cardinality(Askers(n, q)) + 1
  BY AskerAdded
<1> HIDE DEF n, q
<1>5. \A m \in Names, p \in Paths :
         /\ serverItems[m][p] \in Nat /\ serverItems'[m][p] \in Nat
         /\ Cardinality(Askers(m, p)) \in Nat
         /\ serverItems[m][p] <= Cardinality(Askers(m, p))
  BY AskersFinite DEF AskedIsKnown, AddedOncePerAsker, IInv, Typed
<1>6. \A m \in Names, p \in Paths : Cardinality(Askers(m, p)') \in Nat
  BY <1>2, FS_Subset, FS_CardinalityType DEF AskedIsKnown, Askers
<1>7. ASSUME NEW m \in Names, NEW p \in Paths
      PROVE  \/ serverItems'[m][p] <= serverItems[m][p]
             \/ m = n /\ p = q /\ serverItems'[m][p] = serverItems[m][p] + 1
  <2>1. CASE AddItemFails(n, q)
    BY <1>5, <2>1 DEF AddItemFails
  <2>2. CASE ItemAdded(n, q)
    BY <1>1, <1>5, <2>2 DEF ItemAdded, IInv, Typed
  <2>3. CASE ItemRefused(n, q)
    <3>1. CASE UNCHANGED serverItems
      BY <1>5, <3>1
    <3>2. ASSUME NEW x \in Added(n), serverItems' = [serverItems EXCEPT ![n][x] = @ - 1]
          PROVE  serverItems'[m][p] <= serverItems[m][p]
      <4>1. x \in Paths /\ serverItems[n] \in [Paths -> Nat]
        BY <1>1 DEF Added, IInv, Typed
      <4>2. serverItems'[n] = [serverItems[n] EXCEPT ![x] = @ - 1]
        BY <1>1, <3>2 DEF IInv, Typed
      <4> QED BY <1>1, <1>5, <3>2, <4>1, <4>2 DEF IInv, Typed
    <3> QED BY <2>3, <3>1, <3>2 DEF ItemRefused
  <2> QED BY <1>3, <2>1, <2>2, <2>3 DEF AddItem
<1>8. ASSUME NEW m \in Names, NEW p \in Paths
      PROVE  serverItems'[m][p] <= Cardinality(Askers(m, p)')
  BY <1>4, <1>5, <1>6, <1>7
<1> QED BY <1>2, <1>8 DEF AddedOncePerAsker

LEMMA NextCount == CountIInv /\ [Next]_vars => CountIInv'
<1> SUFFICES ASSUME CountIInv, [Next]_vars PROVE CountIInv'
  OBVIOUS
<1>1. IInv' /\ KnownObjects'
  BY NextIInv, NextKnownObjects DEF CountIInv
<1>2. CASE UNCHANGED vars
  BY <1>1, <1>2 DEF CountIInv, AskedIsKnown, NoScriptNoItems, AddedOncePerAsker, Askers, vars,
     contextVars, managerVars, serverVars
<1> QED BY <1>1, <1>2, SessionsCount, GroupCount, DestroyCount, ItemCount DEF Next

\* The server has an item at most as often as Group objects asked for it, with different
\* spellings of its path, since the group was made, so an update of it comes at most once
\* for each: whichever objects a script uses, destroyed or not, however groups go and are
\* made again, whatever the server refuses and whatever is left of earlier sessions.
THEOREM ItemsAddedOncePerAsker == Spec => []AddedOncePerAsker
<1>1. CountIInv => AddedOncePerAsker BY DEF CountIInv
<1> QED BY <1>1, InitCount, NextCount, PTL DEF Spec

--------------------------------------------------------------------------------
(* The types of all variables.                                              *)

\* What the invariants so far do not say.
Bounded ==
  /\ session <= MaxSessions
  /\ addressSpace \subseteq Paths
  /\ refusedItems \subseteq Names

LEMMA NextBounded == IInv /\ IInv' /\ Bounded /\ [Next]_vars => Bounded'
<1> SUFFICES ASSUME IInv, IInv', Bounded, [Next]_vars PROVE Bounded'
  OBVIOUS
<1>1. CASE StartScript
  BY <1>1, GroupsAssumption DEF Bounded, IInv, Typed, StartScript, LibraryReloaded, managerVars, serverVars
<1>2. CASE InitSession
  <2>1. session \in 1..MaxSessions
    BY <1>2, GroupsAssumption DEF InitSession, IInv, Typed, NodesAreOlder, Bounded
  <2>2. addressSpace' \subseteq Paths
    BY <1>2, <2>1, GroupsAssumption DEF InitSession, Browsed, Bounded
  <2> QED BY <1>2, <2>2 DEF InitSession, Bounded, serverVars
<1>3. CASE EndSession
  BY <1>3 DEF EndSession, Bounded, managerVars
<1>4. ASSUME NEW o \in Objects, Group(o) PROVE Bounded'
  BY <1>4 DEF Group, CreateGroup, Existing, AddGroupFails, AdviseFails, GroupMade, serverVars, Bounded
<1>5. ASSUME NEW o \in Objects, Destroy(o) PROVE Bounded'
  BY <1>5 DEF Destroy, DestroyGroup, Removed, LeftThere, serverVars, Bounded
<1>6. ASSUME NEW o \in Objects, NEW key \in ItemKeys, Item(o, key) PROVE Bounded'
  BY <1>6, ObjectParts DEF Item, AddItem, AddItemFails, ItemRefused, ItemAdded, Bounded
<1>7. CASE UNCHANGED vars
  BY <1>7 DEF vars, managerVars, serverVars, Bounded
<1> QED BY <1>1, <1>2, <1>3, <1>4, <1>5, <1>6, <1>7 DEF Next

\* The type invariant of DaGroups.
THEOREM TypeCorrect == Spec => []TypeOK
<1>1. Init => Bounded
  BY GroupsAssumption DEF Init, Bounded
<1>2. CountIInv /\ Bounded => TypeOK
  BY DEF CountIInv, KnownObjects, AskedIsKnown, Bounded, IInv, Typed, NodesAreOlder, TypeOK
<1>3. CountIInv => IInv
  BY DEF CountIInv
<1> QED BY InitCount, NextCount, NextIInv, NextBounded, <1>1, <1>2, <1>3, PTL DEF Spec

--------------------------------------------------------------------------------
(* With names that are Strings, a server that refuses nothing and a library  *)
(* that is unloaded, the DSL is right about its groups, too.                 *)

PlainUse == (\A o \in Objects : o[2] = "String") /\ ~Refusals /\ ~LibraryStays

Fresh ==
  /\ scriptPc # "none" => \A n \in Names : made[n] \in {0, session}
  /\ scriptPc # "connected" => serverGroups = {}
  /\ \A n \in serverGroups : made[n] = session
  /\ scriptPc = "connected" => server = session
  /\ KnownObjects

FoundIInv == IInv /\ Fresh /\ FoundGroupExists

LEMMA InitFound == Init => FoundIInv
BY InitIInv DEF Init, FoundIInv, Fresh, FoundGroupExists, KnownObjects

LEMMA NextFound == PlainUse /\ FoundIInv /\ [Next]_vars => FoundIInv'
<1> SUFFICES ASSUME PlainUse, FoundIInv, [Next]_vars PROVE FoundIInv'
  OBVIOUS
<1> USE DEF FoundIInv
<1>1. IInv' /\ KnownObjects'
  BY NextIInv, NextKnownObjects DEF Fresh
<1>2. Typed /\ NodesAreOlder
  BY DEF IInv
<1>3. CASE StartScript
  BY <1>1, <1>2, <1>3 DEF StartScript, PlainUse, LibraryReloaded, Fresh, FoundGroupExists,
     Typed, serverVars
<1>4. CASE InitSession
  BY <1>1, <1>2, <1>4 DEF InitSession, PlainUse, Fresh, FoundGroupExists, serverVars, contextVars
<1>5. CASE EndSession
  BY <1>1, <1>2, <1>5 DEF EndSession, Fresh, FoundGroupExists, managerVars, contextVars
<1>6. ASSUME NEW o \in Objects, Group(o) PROVE FoundIInv'
  <2> DEFINE n == o[1]
  <2>1. n \in Names /\ CreateGroup(n) /\ groups' = groups \cup {o}
        /\ UNCHANGED <<session, scriptPc, server>> /\ scriptPc = "connected"
    BY <1>6, ObjectParts DEF Group
  <2> HIDE DEF n
  <2>2. made[n] \in {0, session}
    BY <2>1 DEF Fresh
  <2>3. made'[n] = session /\ serverGroups' = serverGroups \cup {n}
    BY <1>2, <2>1, <2>2 DEF CreateGroup, Existing, AddGroupFails, AdviseFails, GroupMade,
       PlainUse, Fresh, Typed, serverVars, IInv, NodesAreServed, NodesAreOlder
  <2>4. \A m \in Names \ {n} : made'[m] = made[m]
    BY <1>2, <2>1 DEF CreateGroup, Existing, AddGroupFails, AdviseFails, GroupMade, Typed
  <2>5. Fresh'
    <3>1. \A m \in Names : made'[m] \in {0, session}
      BY <2>1, <2>3, <2>4 DEF Fresh
    <3>2. \A m \in serverGroups' : made'[m] = session
      BY <1>2, <2>3, <2>4 DEF Fresh, Typed
    <3> QED BY <1>1, <2>1, <3>1, <3>2 DEF Fresh
  <2>6. FoundGroupExists'
    <3>1. ASSUME NEW x \in groups PROVE x[1] \in Names /\ made'[x[1]] = session
      <4>1. x[1] \in Names /\ made[x[1]] = session
        BY <3>1, ObjectParts DEF Fresh, KnownObjects, FoundGroupExists
      <4> QED BY <2>3, <2>4, <4>1
    <3> QED BY <2>1, <2>3, <3>1 DEF FoundGroupExists, n
  <2> QED BY <1>1, <2>5, <2>6
<1>7. ASSUME NEW o \in Objects, Destroy(o) PROVE FoundIInv'
  <2> DEFINE n == o[1]
  <2>1. /\ n \in Names
        /\ groups' = {x \in groups : x[1] # n \/ x[2] # "String"}
        /\ UNCHANGED <<session, scriptPc, server>> /\ scriptPc = "connected"
        /\ DestroyGroup(n)
    BY <1>7, ObjectParts DEF Destroy
  <2> HIDE DEF n
  <2>2. ASSUME NEW x \in groups' PROVE x \in groups /\ x[1] \in Names /\ x[1] # n
    BY <2>1, <2>2, ObjectParts DEF Fresh, KnownObjects, PlainUse
  <2>3. made' = [made EXCEPT ![n] = 0]
    BY <2>1 DEF DestroyGroup
  <2>4. serverGroups' = serverGroups \ {n}
    BY <2>1 DEF DestroyGroup, Removed, LeftThere, PlainUse, serverVars, Fresh
  <2>5. Fresh'
    BY <1>1, <1>2, <2>1, <2>3, <2>4 DEF Fresh, Typed
  <2>6. FoundGroupExists'
    BY <1>2, <2>1, <2>2, <2>3 DEF FoundGroupExists, Typed
  <2> QED BY <1>1, <2>5, <2>6
<1>8. ASSUME NEW o \in Objects, NEW key \in ItemKeys, Item(o, key) PROVE FoundIInv'
  BY <1>1, <1>8 DEF Item, Fresh, FoundGroupExists
<1>9. CASE UNCHANGED vars
  BY <1>1, <1>9 DEF vars, managerVars, serverVars, contextVars, Fresh, FoundGroupExists
<1> QED BY <1>3, <1>4, <1>5, <1>6, <1>7, <1>8, <1>9 DEF Next

\* What group(name) of the DSL finds exists in the native library, for any number of
\* groups and scripts, in plain use.  Without the first of its conditions, a group that
\* was named by a GString is found again after it was destroyed.
THEOREM FoundGroupsExist ==
  ASSUME PlainUse
  PROVE  Spec => []FoundGroupExists
<1>1. FoundIInv => FoundGroupExists BY DEF FoundIInv
<1>2. FoundIInv /\ [Next]_vars => FoundIInv' BY NextFound
<1> QED BY InitFound, <1>1, <1>2, PTL DEF Spec

--------------------------------------------------------------------------------
(* The composition with transactions and callbacks.                         *)

LEMMA RequestSteps ==
  ASSUME NEW r \in Requests, Ask(r) \/ ServerStep(r) \/ CallStep(r) \/ ComStep(r)
  PROVE  UNCHANGED <<vars, destroying, advised, clinging>>
<1>1. CASE Ask(r) \/ ServerStep(r)
  BY <1>1 DEF Ask, ServerStep, CallFails, ItemFails, Accepts, Answer, Decides, callVars, callbackVars
<1>2. CASE CallStep(r)
  BY <1>2 DEF CallStep, CallThrows, CallReturns, CallBack, callVars, callbackVars
<1>3. CASE ComStep(r)
  BY <1>3 DEF ComStep, Store, CopyFails, Complete, callVars, callbackVars
<1> QED BY <1>1, <1>2, <1>3

LEMMA ChangeSteps ==
  ASSUME NEW n \in Names, Change(n) \/ Handle(n) \/ TypeCall(n)
  PROVE  UNCHANGED <<vars, destroying, advised, clinging>>
BY DEF Change, Handle, TypeCall, callVars, callbackVars

\* The two halves of a destruction are DaGroups' Destroy and a stutter.
LEMMA StepsOfGroups == [TransNext]_transVars => [Next]_vars
<1> SUFFICES ASSUME [TransNext]_transVars PROVE [Next]_vars
  OBVIOUS
<1>1. CASE ScriptStarts \/ ScriptEnds \/ InitCall
  BY <1>1 DEF ScriptStarts, ScriptEnds, InitCall, Next
<1>2. ASSUME NEW o \in Objects, GroupCall(o) \/ DestroyBegins(o) \/ DestroyEnds(o) PROVE [Next]_vars
  BY <1>2 DEF GroupCall, DestroyBegins, DestroyEnds, Next
<1>3. ASSUME NEW o \in Objects, NEW key \in ItemKeys, ItemCall(o, key) PROVE Next
  BY <1>3 DEF ItemCall, Next
<1>4. CASE UNCHANGED transVars
  BY <1>4 DEF transVars
<1> QED BY <1>1, <1>2, <1>3, <1>4, RequestSteps, ChangeSteps DEF TransNext

LEMMA BehavesAsGroups == TransSpec => Spec
<1>1. TransInit => Init BY DEF TransInit
<1> QED BY <1>1, StepsOfGroups, PTL DEF TransSpec, Spec

\* The library and the server agree on groups and items beside all callbacks, too.
THEOREM TransLibraryAndServerAgree == TransSpec => []NodesAreServed
BY BehavesAsGroups, LibraryAndServerAgree, PTL

\* And an item is added to the server once for each object and spelling that asked for it.
THEOREM TransItemsAddedOncePerAsker == TransSpec => []AddedOncePerAsker
BY BehavesAsGroups, ItemsAddedOncePerAsker, PTL

--------------------------------------------------------------------------------
(* Callbacks and groups.                                                    *)

\* A group whose callback is disabled already is on its way out, the others are alive.
AdvisedIInv ==
  /\ IInv
  /\ AdvisedIsAlive
  /\ advised \subseteq Names
  /\ clinging \subseteq Names
  /\ destroying \subseteq Objects
  /\ \A o \in destroying : o[1] \in advised \ clinging => made[o[1]] = 0

LEMMA NextAdvised == AdvisedIInv /\ [TransNext]_transVars => AdvisedIInv'
<1> SUFFICES ASSUME AdvisedIInv, [TransNext]_transVars PROVE AdvisedIInv'
  OBVIOUS
<1>1. IInv /\ IInv'
  BY NextIInv, StepsOfGroups DEF AdvisedIInv
<1> USE DEF AdvisedIInv, AdvisedIsAlive
<1>2. CASE ScriptStarts
  BY <1>1, <1>2 DEF ScriptStarts, StartScript, callVars, Idle
<1>3. CASE ScriptEnds
  BY <1>1, <1>3 DEF ScriptEnds, Idle, callVars
<1>4. CASE InitCall
  BY <1>1, <1>4 DEF InitCall, InitSession, callVars, callbackVars
<1>5. ASSUME NEW o \in Objects, GroupCall(o) PROVE AdvisedIInv'
  <2> DEFINE n == o[1]
  <2>1. /\ scriptPc = "connected" /\ UNCHANGED <<session, scriptPc, destroying, clinging>>
        /\ destroying = {} /\ CreateGroup(n) /\ n \in Names
        /\ advised' = advised \cup {m \in {n} : made[m] # made'[m]}
    BY <1>5, ObjectParts DEF GroupCall, Group, callVars, Idle
  <2> HIDE DEF n
  <2>2. made \in [Names -> Nat]
    BY <1>1 DEF IInv, Typed
  <2>3. ASSUME NEW m \in advised \ clinging PROVE made'[m] = session /\ m \in serverGroups'
    BY <2>1, <2>2, <2>3 DEF CreateGroup, Existing, AddGroupFails, AdviseFails, GroupMade, serverVars
  <2>4. made[n] # made'[n] => made'[n] = session /\ n \in serverGroups'
    BY <2>1, <2>2 DEF CreateGroup, Existing, AddGroupFails, AdviseFails, GroupMade
  <2> QED BY <1>1, <2>1, <2>3, <2>4
<1>6. ASSUME NEW o \in Objects, DestroyBegins(o) PROVE AdvisedIInv'
  <2>1. UNCHANGED vars /\ destroying' = {o} /\ o[1] \in Names
    BY <1>6, ObjectParts DEF DestroyBegins
  <2>2. /\ advised' \ clinging' \subseteq advised \ clinging
        /\ advised' \subseteq Names /\ clinging' \subseteq Names
        /\ made[o[1]] # 0 => o[1] \notin advised' \ clinging'
    BY <1>6 DEF DestroyBegins, Unadvise
  <2> QED BY <1>1, <2>1, <2>2 DEF vars, managerVars, serverVars
<1>7. ASSUME NEW o \in Objects, DestroyEnds(o) PROVE AdvisedIInv'
  <2> DEFINE n == o[1]
  <2>1. /\ n \in Names /\ destroying' = {} /\ DestroyGroup(n) /\ UNCHANGED <<session, scriptPc>>
        /\ n \in advised \ clinging => made[n] = 0
    BY <1>7, ObjectParts DEF DestroyEnds, Destroy
  <2>2. /\ advised' \subseteq advised /\ clinging' \subseteq clinging
        /\ advised' \ clinging' \subseteq advised \ clinging
    BY <1>7 DEF DestroyEnds
  <2> HIDE DEF n
  <2>3. made \in [Names -> Nat] /\ session \in Nat /\ (scriptPc # "none" => session > 0)
    BY <1>1 DEF IInv, Typed, NodesAreOlder
  <2>4. ASSUME NEW m \in advised' \ clinging'
        PROVE  scriptPc' = "connected" /\ made'[m] = session' /\ m \in serverGroups'
    <3>1. m \in Names /\ m \in advised \ clinging
      BY <2>2, <2>4
    <3>2. scriptPc = "connected" /\ made[m] = session /\ m \in serverGroups /\ m # n
      BY <2>1, <2>3, <3>1
    <3> QED BY <2>1, <2>3, <3>1, <3>2 DEF DestroyGroup, Removed, LeftThere, serverVars
  <2> QED BY <1>1, <2>1, <2>2, <2>4
<1>8. ASSUME UNCHANGED <<vars, destroying, advised, clinging>> PROVE AdvisedIInv'
  BY <1>1, <1>8 DEF vars, managerVars, serverVars
<1>9. CASE UNCHANGED transVars
  BY <1>8, <1>9 DEF transVars, callVars, callbackVars
<1>10. ASSUME NEW o \in Objects, NEW key \in ItemKeys, ItemCall(o, key)
       PROVE  AdvisedIInv'
  BY <1>1, <1>10 DEF ItemCall, Item, callVars, callbackVars
<1> QED BY <1>2, <1>3, <1>4, <1>5, <1>6, <1>7, <1>8, <1>9, <1>10, RequestSteps, ChangeSteps DEF TransNext

\* The server never calls back into a group that the library has destroyed or lost, unless
\* it refused to forget the callback; for any names, objects, refusals, sessions and requests.
THEOREM CallbacksAreAlive == TransSpec => []AdvisedIsAlive
<1>1. TransInit => AdvisedIInv
  BY InitIInv DEF TransInit, AdvisedIInv, AdvisedIsAlive
<1>2. AdvisedIInv => AdvisedIsAlive
  BY DEF AdvisedIInv
<1> QED BY <1>1, <1>2, NextAdvised, PTL DEF TransSpec
--------------------------------------------------------------------------------
(* Transactions.                                                            *)

CompletionIInv ==
  /\ stage \in [Requests -> Stages]
  /\ data \in [Requests -> Data]
  /\ completed \in [Requests -> Nat]
  /\ CompletionIsWhole
  /\ \A r \in Requests : stage[r] = "stored" /\ data[r] = "none" => r.write

\* Requests that do not complete leave the invariant as it is.
LEMMA CompletionKept ==
  ASSUME CompletionIInv,
         stage' \in [Requests -> Stages],
         \A r \in Requests : (stage'[r] = "done") = (stage[r] = "done"),
         \A r \in Requests : stage'[r] = "stored" => stage[r] = "stored",
         UNCHANGED <<data, completed>>
  PROVE  CompletionIInv'
BY DEF CompletionIInv, CompletionIsWhole

LEMMA DroppedKeeps ==
  ASSUME CompletionIInv, NEW rs, Dropped(rs), UNCHANGED <<data, completed>>
  PROVE  CompletionIInv'
BY CompletionKept DEF Dropped, Stages, CompletionIInv

LEMMA ScriptCompletion ==
  ASSUME CompletionIInv, ScriptStarts \/ ScriptEnds \/ InitCall PROVE CompletionIInv'
<1>1. CASE ScriptStarts \/ InitCall
  BY <1>1, CompletionKept DEF ScriptStarts, InitCall, requestVars, CompletionIInv
<1>2. CASE ScriptEnds
  BY <1>2, DroppedKeeps DEF ScriptEnds
<1> QED BY <1>1, <1>2

LEMMA ItemCompletion ==
  ASSUME CompletionIInv,
         \/ \E o \in Objects, key \in ItemKeys : ItemCall(o, key)
         \/ \E n \in Names : TypeCall(n) \/ Change(n) \/ Handle(n)
  PROVE  CompletionIInv'
<1>1. UNCHANGED <<stage, data, completed>>
  BY DEF ItemCall, TypeCall, Change, Handle, requestVars
<1> QED BY <1>1, CompletionKept DEF CompletionIInv

LEMMA GroupCompletion ==
  ASSUME CompletionIInv, NEW o \in Objects, GroupCall(o) \/ DestroyBegins(o) \/ DestroyEnds(o)
  PROVE  CompletionIInv'
<1>1. CASE GroupCall(o) \/ DestroyBegins(o)
  BY <1>1, CompletionKept DEF GroupCall, DestroyBegins, requestVars, CompletionIInv
<1>2. CASE DestroyEnds(o) /\ UNCHANGED stage
  BY <1>2, CompletionKept DEF DestroyEnds, CompletionIInv
<1>3. CASE DestroyEnds(o) /\ made[o[1]] # 0
  BY <1>3, DroppedKeeps DEF DestroyEnds
<1> QED BY <1>1, <1>2, <1>3 DEF DestroyEnds

LEMMA RequestCompletion ==
  ASSUME CompletionIInv, NEW r \in Requests, Ask(r) \/ ServerStep(r) \/ CallStep(r) \/ ComStep(r)
  PROVE  CompletionIInv'
<1> USE DEF CompletionIInv
<1>1. CASE Ask(r)
  BY <1>1, CompletionKept DEF Ask, Stages
<1>2. CASE ServerStep(r)
  BY <1>2, CompletionKept DEF ServerStep, CallFails, ItemFails, Accepts, Answer, Decides, Stages
<1>3. CASE CallThrows(r)
  BY <1>3, CompletionKept DEF CallThrows, Stages
<1>4. CASE CallReturns(r) /\ stage[r] # "itemError"
  BY <1>4, CompletionKept DEF CallReturns
<1>5. CASE CallReturns(r) /\ stage[r] = "itemError"
  <2>1. /\ data' = [data EXCEPT ![r] = "datum"]
        /\ stage' = [stage EXCEPT ![r] = "done"]
        /\ completed' = [completed EXCEPT ![r] = @ + 1]
    BY <1>5 DEF CallReturns, SetCompleted
  <2>2. CompletionIsWhole'
    BY <1>5, <2>1 DEF CompletionIsWhole
  <2> QED BY <2>1, <2>2 DEF Stages, Data
<1>6. CASE Store(r)
  <2>1. stage[r] = "sent" /\ stage' = [stage EXCEPT ![r] = "stored"] /\ UNCHANGED completed
    BY <1>6 DEF Store
  <2>2. data' = [data EXCEPT ![r] = "datum"] \/ (r.write /\ UNCHANGED data)
    BY <1>6 DEF Store
  <2> QED BY <2>1, <2>2 DEF CompletionIsWhole, Stages, Data
<1>7. CASE CopyFails(r)
  BY <1>7, CompletionKept DEF CopyFails, Stages
<1>8. CASE Complete(r)
  <2>1. /\ stage[r] = "stored"
        /\ stage' = [stage EXCEPT ![r] = "done"]
        /\ completed' = [completed EXCEPT ![r] = @ + 1]
        /\ UNCHANGED data
    BY <1>8 DEF Complete, SetCompleted
  <2>2. CompletionIsWhole'
    BY <2>1 DEF CompletionIsWhole
  <2> QED BY <2>1, <2>2 DEF Stages
<1> QED BY <1>1, <1>2, <1>3, <1>4, <1>5, <1>6, <1>7, <1>8 DEF CallStep, ComStep

LEMMA NextCompletion == CompletionIInv /\ [TransNext]_transVars => CompletionIInv'
<1> SUFFICES ASSUME CompletionIInv, [TransNext]_transVars PROVE CompletionIInv'
  OBVIOUS
<1>1. CASE UNCHANGED transVars
  BY <1>1, CompletionKept DEF transVars, requestVars, CompletionIInv
<1> QED BY <1>1, ScriptCompletion, ItemCompletion, GroupCompletion, RequestCompletion DEF TransNext

LEMMA InitCompletion == TransInit => CompletionIInv
<1> SUFFICES ASSUME TransInit PROVE CompletionIInv
  OBVIOUS
<1>1. stage \in [Requests -> Stages] /\ data \in [Requests -> Data]
  BY DEF TransInit, Stages, Data
<1>2. completed \in [Requests -> Nat] /\ CompletionIsWhole
  BY DEF TransInit, CompletionIsWhole
<1> QED BY <1>1, <1>2 DEF TransInit, CompletionIInv

\* A transaction completes once, wherever its call and its callback overtake each other,
\* and with the datum of its item unless a write was answered without it.
THEOREM TransactionsCompleteWhole == TransSpec => []CompletionIsWhole
<1>1. CompletionIInv => CompletionIsWhole BY DEF CompletionIInv
<1> QED BY <1>1, InitCompletion, NextCompletion, PTL DEF TransSpec
--------------------------------------------------------------------------------
(* The types of all variables of DaTransactions.                            *)

\* What neither DaGroups nor the invariants of callbacks and transactions say.
CallsTyped ==
  /\ inCall \subseteq Requests
  /\ changing \subseteq Names
  /\ gone \subseteq Requests
  /\ stale \subseteq Names
  /\ process \in {"up", "down"}

LEMMA NextCallsTyped == CallsTyped /\ [TransNext]_transVars => CallsTyped'
<1> SUFFICES ASSUME CallsTyped, [TransNext]_transVars PROVE CallsTyped'
  OBVIOUS
<1> USE DEF CallsTyped, Undefined
<1>1. CASE ScriptStarts \/ ScriptEnds \/ InitCall
  BY <1>1
  DEF ScriptStarts, ScriptEnds, InitCall, ObjectsDeleted, requestVars, callVars, callbackVars
<1>2. ASSUME NEW o \in Objects, GroupCall(o) \/ DestroyBegins(o) PROVE CallsTyped'
  BY <1>2 DEF GroupCall, DestroyBegins, requestVars, callVars
<1>3. ASSUME NEW o \in Objects, NEW key \in ItemKeys, ItemCall(o, key) PROVE CallsTyped'
  BY <1>3 DEF ItemCall, TypeAsked, requestVars, callVars, callbackVars
<1>4. ASSUME NEW o \in Objects, DestroyEnds(o) PROVE CallsTyped'
  <2>1. gone' \subseteq Requests /\ stale' \subseteq Names
    BY <1>4 DEF DestroyEnds, ObjectsDeleted
  <2> QED BY <1>4, <2>1 DEF DestroyEnds
<1>5. ASSUME NEW r \in Requests, Ask(r) \/ ServerStep(r) PROVE CallsTyped'
  BY <1>5 DEF Ask, ServerStep, CallFails, ItemFails, Accepts, Answer, Decides, callVars, callbackVars
<1>6. ASSUME NEW r \in Requests, CallStep(r) \/ ComStep(r) PROVE CallsTyped'
  BY <1>6
  DEF CallStep, CallThrows, CallReturns, CallBack, SetCompleted, ComStep, Store, CopyFails, Complete, callVars,
      callbackVars
<1>7. ASSUME NEW n \in Names, Change(n) \/ Handle(n) \/ TypeCall(n) PROVE CallsTyped'
  BY <1>7 DEF Change, Handle, TypeCall, TypeAsked, requestVars, callVars, callbackVars
<1>8. CASE UNCHANGED transVars
  BY <1>8 DEF transVars, requestVars, callVars, callbackVars
<1> QED BY <1>1, <1>2, <1>3, <1>4, <1>5, <1>6, <1>7, <1>8 DEF TransNext

\* The type invariant of DaTransactions.
THEOREM TransTypeCorrect == TransSpec => []TransTypeOK
<1>1. TransInit => AdvisedIInv /\ CallsTyped
  BY InitIInv DEF TransInit, AdvisedIInv, AdvisedIsAlive, CallsTyped
<1>2. TypeOK /\ AdvisedIInv /\ CompletionIInv /\ CallsTyped => TransTypeOK
  BY DEF AdvisedIInv, CompletionIInv, CallsTyped, TransTypeOK
<1>3. TransSpec => []TypeOK
  BY BehavesAsGroups, TypeCorrect, PTL
<1> QED BY <1>1, <1>2, <1>3, InitCompletion, NextCompletion, NextAdvised, NextCallsTyped, PTL DEF TransSpec
================================================================================
