------------------------------- MODULE DaNamespace ------------------------------
(***************************************************************************)
(* How the names of the server's items come to the script: COPCServer      *)
(* walks the tree of branches of the OPC server, whose browse position it  *)
(* moves down and up, and Client fetches the names it found in pages.      *)
(*                                                                         *)
(* browseBranch calls itself for every branch in an enumeration it took at *)
(* its own position; the frames of these calls are the stack.  It looks at *)
(* no result of ChangeBrowsePosition.                                      *)
(***************************************************************************)
EXTENDS Integers, Sequences, FiniteSets

CONSTANTS
  Branches, Root,
  Parent,    \* Parent[b]: the branch above b; the root's is not used
  Label,     \* Label[b]: the name of b below its parent
  Depth,     \* Depth[b]: how far b is from the root
  Height,    \* the greatest depth
  Items,     \* the items of the server
  In,        \* In[i]: the branch of item i
  Flat,      \* the server says that its namespace is flat
  Refusals,  \* the server may refuse to list, to name and to go up
  RefusedDowns, \* bound: how often it refuses to go down
  PageSize,  \* nNumElements
  Word       \* one more than the largest size_t

ASSUME NamespaceAssumption ==
  /\ Root \in Branches
  /\ Parent \in [Branches -> Branches]
  /\ Height \in Nat
  /\ Depth \in [Branches -> 0..Height]
  /\ \A b \in Branches \ {Root} : Depth[b] = Depth[Parent[b]] + 1
  /\ In \in [Items -> Branches]
  /\ IsFiniteSet(Items)
  /\ Flat \in BOOLEAN /\ (Flat => Branches = {Root})
  /\ Refusals \in BOOLEAN
  /\ RefusedDowns \in Nat
  /\ PageSize \in Nat \ {0}
  /\ Word \in Nat \ {0}

VARIABLES
  pc,       \* "idle", "browsing", "paging" or "done"
  pos,      \* the browse position in the server
  stack,    \* the calls of browseBranch: [at, todo], where it listed and what is left
  found,    \* found[i]: how often item i is in gsoOpcServerAddressSpace
  count,    \* its size
  refused,  \* history: the server refused something else than to go down
  downsRefused, \* history: how often it refused to go down
  offset,   \* Client.getItemNames: offset and the names it has
  taken

treeVars == <<pos, stack>>
spaceVars == <<found, count, refused>>
pageVars == <<offset, taken>>
vars == <<pc, treeVars, spaceVars, downsRefused, pageVars>>

Children(b) == {c \in Branches \ {Root} : Parent[c] = b}
ItemsIn(b) == {i \in Items : In[i] = b}
Top == stack[Len(stack)]
Callers == SubSeq(stack, 1, Len(stack) - 1)

TypeOK ==
  /\ pc \in {"idle", "browsing", "paging", "done"}
  /\ pos \in Branches
  /\ stack \in Seq([at : Branches, todo : SUBSET Branches])
  /\ found \in [Items -> Nat]
  /\ count \in Nat
  /\ refused \in BOOLEAN
  /\ downsRefused \in 0..RefusedDowns
  /\ offset \in Nat
  /\ taken \in Nat

Init ==
  /\ pc = "idle"
  /\ pos = Root
  /\ stack = <<>>
  /\ found = [i \in Items |-> 0]
  /\ count = 0
  /\ refused = FALSE
  /\ downsRefused = 0
  /\ offset = 0
  /\ taken = 0

--------------------------------------------------------------------------------
(* The native library: browseNamespace.                                     *)

\* The names of the items is: all of them, or those the server names and lists.
Names(is) ==
  \E js \in IF Refusals THEN SUBSET is ELSE {is} :
    /\ found' = [i \in Items |-> found[i] + IF i \in js THEN 1 ELSE 0]
    /\ count' = count + Cardinality(js)
    /\ refused' = (refused \/ js # is)

FlatBrowse ==
  /\ Names(Items)
  /\ pc' = "paging"
  /\ UNCHANGED treeVars

\* Where going down to the label of branch c ends, if the server lets one: at the branch of
\* that name below the position; or where it was, if there is none.
Down(c) ==
  LET open == {d \in Children(pos) : Label[d] = Label[c]}
  IN  IF open = {} THEN {pos} ELSE open

\* Leaves first, then the branches below; frames are those of the callers.  If the server
\* refuses to list the branches the call is over, and the position stays.
Lists(frames, at) ==
  /\ Names(ItemsIn(at))
  /\ stack' = Append(frames, [at |-> at, todo |-> Children(at)])

ListRefused(frames, at) ==
  /\ Refusals
  /\ \E js \in SUBSET ItemsIn(at) :
       /\ found' = [i \in Items |-> found[i] + IF i \in js THEN 1 ELSE 0]
       /\ count' = count + Cardinality(js)
  /\ refused' = TRUE
  /\ stack' = frames

\* Mutation: the position is not changed before the branch is listed.
BranchWhereItIs(c, frames) ==
  /\ UNCHANGED <<pos, downsRefused>>
  /\ Lists(frames, pos') \/ ListRefused(frames, pos')

\* The server refuses to go down, to any branch at any time.
DownRefused ==
  /\ downsRefused < RefusedDowns
  /\ pos' = pos
  /\ downsRefused' = downsRefused + 1

\* browseBranch as far as its loop: what is listed is what there is at the position,
\* wherever that is now.
Branch(c, frames) ==
  /\ (pos' \in Down(c) /\ UNCHANGED downsRefused) \/ DownRefused
  /\ Lists(frames, pos') \/ ListRefused(frames, pos')

\* The root is browsed where the position is, its name is empty.
RootBranch ==
  /\ UNCHANGED pos
  /\ Lists(<<>>, pos) \/ ListRefused(<<>>, pos)
  /\ pc' = IF stack' = <<>> THEN "paging" ELSE "browsing"

NoBrowse ==
  /\ refused' = TRUE
  /\ pc' = "paging"
  /\ UNCHANGED <<treeVars, found, count>>

\* browseNamespace does not look at the result of QueryOrganization: if it failed nobody
\* set the type, which may be any.
BrowseNamespace ==
  \/ (Flat \/ Refusals) /\ FlatBrowse
  \/ (~Flat \/ Refusals) /\ RootBranch
  \/ Refusals /\ NoBrowse

\* getItemNames: the names are read if there are none yet.
Start ==
  /\ pc = "idle"
  /\ IF count = 0 THEN BrowseNamespace ELSE pc' = "paging" /\ UNCHANGED <<treeVars, spaceVars>>
  /\ UNCHANGED <<downsRefused, pageVars>>

\* The next branch of the enumeration, in whatever order the server has them.
NextBranch(c) ==
  /\ pc = "browsing"
  /\ c \in Top.todo
  /\ Branch(c, Append(Callers, [at |-> Top.at, todo |-> Top.todo \ {c}]))
  /\ UNCHANGED <<pc, pageVars>>

\* Mutation: the position does not go up again.
LastBranchStays ==
  /\ pc = "browsing"
  /\ Top.todo = {}
  /\ stack' = Callers
  /\ UNCHANGED pos
  /\ pc' = IF stack' = <<>> THEN "paging" ELSE "browsing"
  /\ UNCHANGED <<spaceVars, downsRefused, pageVars>>

\* No branch is left: up, which at the root does nothing, and back.
LastBranch ==
  /\ pc = "browsing"
  /\ Top.todo = {}
  /\ stack' = Callers
  /\ \/ pos' = (IF pos = Root THEN Root ELSE Parent[pos]) /\ UNCHANGED refused
     \/ Refusals /\ pos' = pos /\ refused' = TRUE
  /\ pc' = IF stack' = <<>> THEN "paging" ELSE "browsing"
  /\ UNCHANGED <<found, count, downsRefused, pageVars>>

--------------------------------------------------------------------------------
(* Client.getItemNames, one call of the library at a time.                  *)

\* Mutation: the library does not look at the offset.
LastPageOfAll == PageSize > count % Word

\* What the library answers: whether that was the last page, in unsigned arithmetic.
LastPage == PageSize > (count - offset) % Word

\* Mutation: each page begins anew.
PageAnew ==
  /\ pc = "paging"
  /\ taken' = Cardinality({i \in 0..(PageSize - 1) : i < count})
  /\ pc' = IF LastPage THEN "done" ELSE "paging"
  /\ UNCHANGED <<treeVars, spaceVars, downsRefused, offset>>

\* The names of the page, and the client's next offset.
Page ==
  /\ pc = "paging"
  /\ taken' = taken + Cardinality({i \in offset..(offset + PageSize - 1) : i < count})
  /\ offset' = IF LastPage THEN offset ELSE offset + PageSize
  /\ pc' = IF LastPage THEN "done" ELSE "paging"
  /\ UNCHANGED <<treeVars, spaceVars, downsRefused>>

\* The script initialises again, on a new connection or, if that failed, the old one.
Again ==
  /\ pc = "done"
  /\ pc' = "idle"
  /\ pos' \in {pos, Root}
  /\ offset' = 0
  /\ taken' = 0
  /\ UNCHANGED <<stack, spaceVars, downsRefused>>

--------------------------------------------------------------------------------
Step == Start \/ (\E c \in Branches : NextBranch(c)) \/ LastBranch \/ Page

Next == Step \/ Again

Spec == Init /\ [][Next]_vars

\* The calls go on.
FairSpec == Spec /\ WF_vars(Step)

--------------------------------------------------------------------------------
(* Properties.                                                              *)

\* Each time the server refuses to go down browseBranch lists the same branch once more,
\* and its callers go on above or beside the branches they listed: that costs at most one
\* more descent through the tree.  Nothing else that the server refuses takes the calls any
\* deeper, not even a refused list, after which the position is not restored.
RecursionBounded == Len(stack) <= Height * (downsRefused + 1) + 1

\* If the server refused nothing no name comes twice, and in the end none is missing.
EveryNameOnce ==
  ~refused /\ downsRefused = 0 =>
    /\ \A i \in Items : found[i] <= 1
    /\ pc \in {"paging", "done"} => \A i \in Items : found[i] = 1

\* Client never asks for a page that begins after the last name, where the number of the
\* names that are left would be huge; and when it stops it has them all.
PagesAreWhole ==
  pc \in {"paging", "done"} =>
    /\ offset <= count
    /\ pc = "done" => taken = count

\* Reading the names ends, whatever the server refuses to list or to name and wherever it
\* does not go up, if it refuses to go down only so often: a branch that it always lists
\* and never opens is listed without end.
NamesCome == pc = "idle" ~> pc = "done"
================================================================================
