-------------------------------- MODULE UaBrowse --------------------------------
(***************************************************************************)
(* The address space of an OPC-UA session: ua.clientlib Browser,           *)
(* AddressSpace and NodeDescription, and Session.getAddressspace.  The     *)
(* client asks the server for the references of one node after another,    *)
(* depth first, and keeps a tree of descriptions in which it later finds   *)
(* the nodes that scripts read, write and monitor.  The references of a    *)
(* server form any graph; what an answer leaves out is not asked for again.*)
(*                                                                         *)
(* One step is one call of addChildNodes, with its request to the server.  *)
(* The stack of calls is the sequence of descriptions they still have to   *)
(* visit.                                                                  *)
(***************************************************************************)
EXTENDS Integers, Sequences

CONSTANTS
  Nodes,          \* the node ids of the server
  Root,           \* Identifiers.RootFolder
  MaxReferences,  \* bound: references of a node
  MaxBrowses      \* bound: how often the address space is browsed

ASSUME BrowseAssumption ==
  /\ Root \in Nodes
  /\ MaxReferences \in Nat
  /\ MaxBrowses \in Nat

None == 0  \* no description

VARIABLES
  references,  \* references[n]: what the server has for node n, in its order
  phase,       \* Session.addressSpace: "none", being made ("browsing") or "known"
  browses,     \* how often it was browsed
  idOf,        \* the node ids of the descriptions, in the order they were made
  children,    \* children[d]: the descriptions below description d
  toVisit,     \* the descriptions that addChildNodes still has to visit
  visited,     \* the node ids it has visited
  cut          \* the nodes whose references did not all arrive

treeVars == <<idOf, children>>
searchVars == <<toVisit, visited, cut>>
vars == <<references, phase, browses, treeVars, searchVars>>

Descriptions == DOMAIN idOf

TypeOK ==
  /\ references \in [Nodes -> Seq(Nodes)]
  /\ phase \in {"none", "browsing", "known"}
  /\ browses \in 0..MaxBrowses
  /\ idOf \in Seq(Nodes)
  /\ children \in [Descriptions -> Seq(Descriptions)]
  /\ toVisit \in Seq(Descriptions)
  /\ visited \subseteq Nodes
  /\ cut \subseteq visited

Answers == UNION {[1..k -> Nodes] : k \in 0..MaxReferences}

Init ==
  /\ references \in [Nodes -> Answers]
  /\ phase = "none"
  /\ browses = 0
  /\ idOf = <<>>
  /\ children = <<>>
  /\ toVisit = <<>>
  /\ visited = {}
  /\ cut = {}

--------------------------------------------------------------------------------
(* Making the address space.                                                *)

\* getAddressspace, when there is none: the root is described and visited first.
BrowseAddressspace ==
  /\ phase = "none"
  /\ browses < MaxBrowses
  /\ phase' = "browsing"
  /\ browses' = browses + 1
  /\ idOf' = <<Root>>
  /\ children' = <<<<>>>>
  /\ toVisit' = <<1>>
  /\ visited' = {}
  /\ cut' = {}
  /\ UNCHANGED references

Visits(d) == phase = "browsing" /\ toVisit # <<>> /\ d = Head(toVisit)

\* Mutation: the visit of a node that was visited before is not ended.
VisitAgainStays ==
  /\ \E d \in Descriptions : Visits(d) /\ idOf[d] \in visited
  /\ UNCHANGED vars

\* The guard for circular references.
VisitAgain ==
  /\ \E d \in Descriptions : Visits(d) /\ idOf[d] \in visited
  /\ toVisit' = Tail(toVisit)
  /\ UNCHANGED <<references, phase, browses, treeVars, visited, cut>>

\* The descriptions made of an answer, and the tree with them below d.
Made(answer) == [i \in DOMAIN answer |-> Len(idOf) + i]

Below(d, answer) ==
  [e \in 1..(Len(idOf) + Len(answer)) |->
     IF e = d THEN Made(answer) ELSE IF e \in Descriptions THEN children[e] ELSE <<>>]

\* The server is asked for the references of the next node, which was not visited
\* before.  It answers with all of them, with the first ones (and a continuation point
\* that is not looked at), or with a fault, which leaves none.
Answer(d, k) == SubSeq(references[idOf[d]], 1, k)

DescribeChildren(d, k) ==
  /\ Visits(d)
  /\ idOf[d] \notin visited
  /\ k <= Len(references[idOf[d]])
  /\ idOf' = idOf \o Answer(d, k)
  /\ children' = Below(d, Answer(d, k))
  /\ cut' = IF k < Len(references[idOf[d]]) THEN cut \cup {idOf[d]} ELSE cut
  /\ UNCHANGED <<references, phase, browses>>

\* Mutation: children are visited after everything else that is to be visited.
AddChildNodesLast ==
  \E d \in Descriptions, k \in 0..MaxReferences :
    /\ DescribeChildren(d, k)
    /\ visited' = visited \cup {idOf[d]}
    /\ toVisit' = Tail(toVisit) \o Made(Answer(d, k))

\* Mutation: the children count as visited when they are described.
AddChildNodesVisited ==
  \E d \in Descriptions, k \in 0..MaxReferences :
    /\ DescribeChildren(d, k)
    /\ visited' = visited \cup {idOf[d]} \cup {references[idOf[d]][i] : i \in 1..k}
    /\ toVisit' = Made(Answer(d, k)) \o Tail(toVisit)

\* A node is visited, and its children are described and visited next, in their order.
AddChildNodes ==
  \E d \in Descriptions, k \in 0..MaxReferences :
    /\ DescribeChildren(d, k)
    /\ visited' = visited \cup {idOf[d]}
    /\ toVisit' = Made(Answer(d, k)) \o Tail(toVisit)

\* Nothing is kept of what was browsed.
Forgotten ==
  /\ phase' = "none"
  /\ idOf' = <<>>
  /\ children' = <<>>
  /\ toVisit' = <<>>
  /\ visited' = {}
  /\ cut' = {}
  /\ UNCHANGED <<references, browses>>

\* A reference cannot be described (it has no id, or its node has no name): the
\* exception passes all calls of addChildNodes, the script gets it, and there is no
\* address space still.
BrowseThrows ==
  /\ \E d \in Descriptions : /\ Visits(d)
                              /\ idOf[d] \notin visited
                              /\ references[idOf[d]] # <<>>
  /\ Forgotten

\* The first call of addChildNodes returns.
BrowseEnds ==
  /\ phase = "browsing"
  /\ toVisit = <<>>
  /\ phase' = "known"
  /\ UNCHANGED <<references, browses, treeVars, searchVars>>

\* setChannel(null): the next channel is browsed again.
DropChannel ==
  /\ phase = "known"
  /\ Forgotten

--------------------------------------------------------------------------------
Browse == VisitAgain \/ AddChildNodes \/ BrowseThrows \/ BrowseEnds

Next == BrowseAddressspace \/ Browse \/ DropChannel

Spec == Init /\ [][Next]_vars

\* A browse that was begun goes on: every request to the server returns.
FairSpec == Spec /\ WF_vars(Browse)

--------------------------------------------------------------------------------
(* Finding nodes.                                                           *)

First(S) == CHOOSE i \in S : \A j \in S : i <= j

\* Of each description, itself if it has the id, or else the first one found below.
FindIn(id) ==
  LET Found[d \in Descriptions] ==
        LET hits == {i \in DOMAIN children[d] : Found[children[d][i]] # None}
        IN  IF idOf[d] = id THEN d
            ELSE IF hits = {} THEN None ELSE Found[children[d][First(hits)]]
  IN  Found

\* AddressSpace.findNodeById.
FindNodeById(id) == FindIn(id)[1]

--------------------------------------------------------------------------------
(* Properties.                                                              *)

Known == {idOf[d] : d \in Descriptions}

\* S holds the root and, with a node, what the server refers to from it; what it
\* refers to from the nodes in X is not asked for.
Closed(S, X) ==
  /\ Root \in S
  /\ \A n \in S \ X : \A i \in DOMAIN references[n] : references[n][i] \in S

\* The address space has every node that can be reached from the root over nodes whose
\* references arrived, and no node the server does not lead to: no cycle and no node
\* met on two ways makes addChildNodes skip references it has not followed.
KnownIsReachable ==
  phase = "known" =>
    /\ Closed(Known, cut)
    /\ \A S \in SUBSET Nodes : Closed(S, {}) => Known \subseteq S

\* A node met on several ways has several descriptions, of which one has children.
\* That is the one that is found, so data types and children are kept in one place.
FoundHasChildren ==
  phase = "known" =>
    \A d \in Descriptions : children[d] # <<>> => FindNodeById(idOf[d]) = d

\* However the references of the server run in circles, the browse comes to an end.
BrowseReturns == phase = "browsing" ~> phase # "browsing"
================================================================================
