---------------------------- MODULE DaNamespaceProofs ---------------------------
(***************************************************************************)
(* Proofs about DaNamespace: the walk through the namespace, which looks   *)
(* at no result of a change of position, goes no deeper than the tree for  *)
(* each refusal to go down; the pages Client fetches fit together, and     *)
(* every name comes once.  Then type correctness.                          *)
(***************************************************************************)
EXTENDS DaNamespace, FiniteSetTheorems, TLAPS

--------------------------------------------------------------------------------
(* The tree.                                                                *)

Closed(S) == \A c \in Branches \ {Root} : Parent[c] \in S => c \in S

\* Branch a and all that is below it.
Subtree(a) == {b \in Branches : \A S \in SUBSET Branches : a \in S /\ Closed(S) => b \in S}

LEMMA SubtreeHasRoot == \A a \in Branches : a \in Subtree(a)
BY DEF Subtree

LEMMA SubtreeClosed ==
  ASSUME NEW a \in Branches, NEW b \in Subtree(a), NEW c \in Children(b)
  PROVE  c \in Subtree(a)
BY DEF Subtree, Closed, Children

LEMMA SubtreeTransitive ==
  ASSUME NEW a \in Branches, NEW b \in Subtree(a)
  PROVE  Subtree(b) \subseteq Subtree(a)
BY DEF Subtree

LEMMA SubtreeIsDeeper ==
  ASSUME NEW a \in Branches, NEW b \in Subtree(a), b # a
  PROVE  Depth[b] > Depth[a]
<1> DEFINE S == {x \in Branches : x = a \/ Depth[x] > Depth[a]}
<1>1. Depth \in [Branches -> Int] /\ \A x \in Branches \ {Root} : Depth[x] = Depth[Parent[x]] + 1
  BY NamespaceAssumption
<1>2. Closed(S)
  BY <1>1, NamespaceAssumption DEF Closed
<1>3. b \in S
  BY <1>2 DEF Subtree
<1> QED BY <1>3

LEMMA SubtreeParent ==
  ASSUME NEW a \in Branches, NEW b \in Subtree(a), b # a
  PROVE  b # Root /\ Parent[b] \in Subtree(a)
<1> DEFINE S == {x \in Subtree(a) : x = a \/ (x # Root /\ Parent[x] \in Subtree(a))}
<1>1. Subtree(a) \subseteq Branches /\ S \subseteq Branches
  BY DEF Subtree
<1>2. a \in S
  BY SubtreeHasRoot
<1>3. ASSUME NEW c \in Branches \ {Root}, Parent[c] \in S PROVE c \in S
  <2>1. c \in Children(Parent[c])
    BY DEF Children
  <2>2. c \in Subtree(a)
    BY <1>3, <2>1, SubtreeClosed
  <2> QED BY <1>3, <2>2
<1>4. b \in S
  BY <1>1, <1>2, <1>3 DEF Subtree, Closed
<1> QED BY <1>4

--------------------------------------------------------------------------------
(* Frames.                                                                  *)

Frames == [at : Branches, todo : SUBSET Branches]

LEMMA Pushed ==
  ASSUME NEW s \in Seq(Frames), NEW f \in Frames
  PROVE  /\ Append(s, f) \in Seq(Frames)
         /\ Len(Append(s, f)) = Len(s) + 1
         /\ Append(s, f)[Len(s) + 1] = f
         /\ \A i \in 1..Len(s) : Append(s, f)[i] = s[i]
OBVIOUS

LEMMA Popped ==
  ASSUME NEW s \in Seq(Frames), s # <<>>
  PROVE  /\ SubSeq(s, 1, Len(s) - 1) \in Seq(Frames)
         /\ Len(SubSeq(s, 1, Len(s) - 1)) = Len(s) - 1
         /\ \A i \in 1..(Len(s) - 1) : SubSeq(s, 1, Len(s) - 1)[i] = s[i]
OBVIOUS

LEMMA Element ==
  ASSUME NEW s \in Seq(Frames), NEW i \in 1..Len(s)
  PROVE  s[i] \in Frames /\ s[i].at \in Branches /\ s[i].todo \subseteq Branches
<1>1. s[i] \in Frames
  OBVIOUS
<1> QED BY <1>1 DEF Frames

\* Branch b is below branch a.
Below(a, b) == b \in Subtree(a) /\ b # a

\* w[i] is how many of the frames up to i are not for a branch below that of their caller;
\* each frame knows only children of its branch.  With w, frame i is bounded by the depth
\* of its branch.
Weighted(s, w) ==
  /\ s \in Seq(Frames)
  /\ w \in [1..Len(s) -> Nat]
  /\ \A i \in 1..Len(s) :
       /\ i <= Depth[s[i].at] + 1 + Height * w[i]
       /\ s[i].todo \subseteq Children(s[i].at)
       /\ i > 1 => w[i - 1] < w[i] \/ (w[i - 1] = w[i] /\ Below(s[i - 1].at, s[i].at))

\* The frames out of line, and the last one's place if the position p has left it, have each
\* cost one of r refusals to go down.
Paid(s, w, p, r) ==
  s # <<>> => /\ w[Len(s)] <= r
              /\ p \in Subtree(s[Len(s)].at) \/ w[Len(s)] < r

WalkIInv ==
  /\ pos \in Branches
  /\ downsRefused \in Nat
  /\ \E w \in [1..Len(stack) -> Nat] : Weighted(stack, w) /\ Paid(stack, w, pos, downsRefused)
  /\ pc = "browsing" <=> stack # <<>>

LEMMA Monotone ==
  ASSUME NEW h \in Nat, NEW x \in Nat, NEW y \in Nat, x < y
  PROVE  h * x + h <= h * y
<1> DEFINE k == y - x - 1
<1>1. k \in Nat /\ y = x + 1 + k
  OBVIOUS
<1> HIDE DEF k
<1>2. h * (x + 1 + k) = h * x + h + h * k
  BY <1>1
<1>3. h * k \in Nat /\ h * x \in Nat
  BY <1>1
<1> QED BY <1>1, <1>2, <1>3

\* The weights of one frame more.
Extended(w, n, v) == [i \in 1..(n + 1) |-> IF i = n + 1 THEN v ELSE w[i]]

LEMMA WeightedFirst ==
  ASSUME NEW b \in Branches
  PROVE  LET s == <<[at |-> b, todo |-> Children(b)]>> IN Weighted(s, [i \in 1..Len(s) |-> 0])
<1> DEFINE s == <<[at |-> b, todo |-> Children(b)]>>
           w == [i \in 1..Len(s) |-> 0]
<1>1. s \in Seq(Frames) /\ Len(s) = 1 /\ s[1].at = b /\ s[1].todo = Children(b)
  BY DEF Frames, Children
<1>2. w \in [1..Len(s) -> Nat] /\ w[1] = 0
  BY <1>1
<1>3. 1 <= Depth[b] + 1 + Height * 0
  <2>1. Depth[b] \in Nat /\ Height \in Nat
    BY NamespaceAssumption
  <2> QED BY <2>1
<1> HIDE DEF s, w
<1>4. \A i \in 1..Len(s) : i = 1
  BY <1>1
<1>5. Weighted(s, w)
  BY <1>1, <1>2, <1>3, <1>4 DEF Weighted
<1> QED BY <1>5 DEF s, w

LEMMA WeightedPush ==
  ASSUME NEW s, NEW w, Weighted(s, w), NEW n, n = Len(s), n > 0, Depth[s[n].at] < Height,
         NEW b \in Branches, NEW v \in Nat,
         w[n] < v \/ (w[n] = v /\ Below(s[n].at, b))
  PROVE  LET t == Append(s, [at |-> b, todo |-> Children(b)])
         IN  Weighted(t, Extended(w, n, v))
<1> DEFINE f == [at |-> b, todo |-> Children(b)]
           t == Append(s, f)
           u == Extended(w, n, v)
<1>1. f \in Frames /\ f.at = b /\ f.todo = Children(b)
  BY DEF Frames, Children
<1>2. s \in Seq(Frames) /\ n \in Nat /\ n \in 1..n /\ s[n].at \in Branches /\ w \in [1..n -> Nat]
  BY Element DEF Weighted
<1> HIDE DEF f
<1>3. /\ t \in Seq(Frames) /\ Len(t) = n + 1 /\ t[n + 1] = f
      /\ \A i \in 1..n : t[i] = s[i]
  BY <1>1, <1>2, Pushed
<1>4. /\ u \in [1..(n + 1) -> Nat] /\ u[n + 1] = v
      /\ \A i \in 1..n : u[i] = w[i]
  BY <1>2 DEF Extended
<1> HIDE DEF t, u
<1>5. n + 1 <= Depth[b] + 1 + Height * v
  <2>1. n <= Depth[s[n].at] + 1 + Height * w[n]
    BY <1>2 DEF Weighted
  <2>2. /\ Depth[b] \in Nat /\ Depth[s[n].at] \in Nat /\ Height \in Nat /\ w[n] \in Nat
    BY <1>2, NamespaceAssumption
  <2>3. Height * w[n] \in Nat /\ Height * v \in Nat
    BY <2>2
  <2>4. \A m, d, e, h, x, y \in Nat :
          m <= d + 1 + x /\ ((d < h /\ x + h <= y) \/ (d < e /\ x = y)) => m + 1 <= e + 1 + y
    OBVIOUS
  <2>5. CASE w[n] < v
    <3>1. Height * w[n] + Height <= Height * v
      BY <2>2, <2>5, Monotone
    <3> QED BY <1>2, <2>1, <2>2, <2>3, <2>4, <3>1
  <2>6. CASE w[n] = v /\ Below(s[n].at, b)
    <3>1. Depth[b] > Depth[s[n].at]
      <4> DEFINE a == s[n].at
      <4>1. a \in Branches /\ b \in Subtree(a) /\ b # a
        BY <1>2, <2>6 DEF Below
      <4> HIDE DEF a
      <4>2. Depth[b] > Depth[a]
        BY <4>1, SubtreeIsDeeper
      <4> QED BY <4>2 DEF a
    <3> QED BY <1>2, <2>1, <2>2, <2>3, <2>6, <2>4, <3>1
  <2> QED BY <2>5, <2>6
<1>6. ASSUME NEW i \in 1..n
      PROVE  /\ i <= Depth[t[i].at] + 1 + Height * u[i]
             /\ t[i].todo \subseteq Children(t[i].at)
             /\ i > 1 => u[i - 1] < u[i] \/ (u[i - 1] = u[i] /\ Below(t[i - 1].at, t[i].at))
  <2>1. t[i] = s[i] /\ u[i] = w[i] /\ i \in 1..Len(s)
    BY <1>3, <1>4
  <2>2. i > 1 => i - 1 \in 1..n
    BY <1>2
  <2>3. i > 1 => t[i - 1] = s[i - 1] /\ u[i - 1] = w[i - 1]
    BY <1>3, <1>4, <2>2
  <2> QED BY <2>1, <2>3 DEF Weighted
<1>7. ASSUME NEW i, i = n + 1
      PROVE  /\ i <= Depth[t[i].at] + 1 + Height * u[i]
             /\ t[i].todo \subseteq Children(t[i].at)
             /\ i > 1 => u[i - 1] < u[i] \/ (u[i - 1] = u[i] /\ Below(t[i - 1].at, t[i].at))
  <2>1. t[i].at = b /\ t[i].todo = Children(b) /\ u[i] = v /\ t[i - 1] = s[n] /\ u[i - 1] = w[n]
    BY <1>1, <1>2, <1>3, <1>4, <1>7
  <2> QED BY <1>5, <1>7, <2>1
<1>8. \A i \in 1..Len(t) : i \in 1..n \/ i = n + 1
  BY <1>2, <1>3
<1>9. Weighted(t, u)
  BY <1>3, <1>4, <1>6, <1>7, <1>8 DEF Weighted
<1> QED BY <1>9 DEF t, f, u

LEMMA WeightedPop ==
  ASSUME NEW s, NEW w, Weighted(s, w), s # <<>>
  PROVE  LET t == SubSeq(s, 1, Len(s) - 1) IN Weighted(t, [i \in 1..Len(t) |-> w[i]])
<1> DEFINE t == SubSeq(s, 1, Len(s) - 1)
           u == [i \in 1..Len(t) |-> w[i]]
<1>1. s \in Seq(Frames) /\ Len(s) \in Nat /\ Len(s) > 0 /\ w \in [1..Len(s) -> Nat]
  BY DEF Weighted
<1>2. t \in Seq(Frames) /\ Len(t) = Len(s) - 1 /\ \A i \in 1..(Len(s) - 1) : t[i] = s[i]
  BY <1>1, Popped
<1> HIDE DEF t
<1>3. u \in [1..Len(t) -> Nat] /\ \A i \in 1..Len(t) : u[i] = w[i]
  BY <1>1, <1>2
<1> HIDE DEF u
<1>4. ASSUME NEW i \in 1..Len(t)
      PROVE  /\ i <= Depth[t[i].at] + 1 + Height * u[i]
             /\ t[i].todo \subseteq Children(t[i].at)
             /\ i > 1 => u[i - 1] < u[i] \/ (u[i - 1] = u[i] /\ Below(t[i - 1].at, t[i].at))
  <2>1. i \in 1..Len(s) /\ t[i] = s[i] /\ u[i] = w[i]
    BY <1>1, <1>2, <1>3
  <2>2. i > 1 => t[i - 1] = s[i - 1] /\ u[i - 1] = w[i - 1]
    BY <1>1, <1>2, <1>3
  <2> QED BY <2>1, <2>2 DEF Weighted
<1>5. Weighted(t, u)
  BY <1>2, <1>3, <1>4 DEF Weighted
<1> QED BY <1>5 DEF t, u

\* Frames at the same branches with less to do have the same weights.
LEMMA WeightedNarrowed ==
  ASSUME NEW s, NEW w, Weighted(s, w), NEW t \in Seq(Frames), Len(t) = Len(s),
         \A i \in 1..Len(s) : t[i].at = s[i].at /\ t[i].todo \subseteq s[i].todo
  PROVE  Weighted(t, w)
<1>1. s \in Seq(Frames) /\ Len(s) \in Nat
  BY DEF Weighted
<1>2. ASSUME NEW i \in 1..Len(t)
      PROVE  /\ i <= Depth[t[i].at] + 1 + Height * w[i]
             /\ t[i].todo \subseteq Children(t[i].at)
             /\ i > 1 => w[i - 1] < w[i] \/ (w[i - 1] = w[i] /\ Below(t[i - 1].at, t[i].at))
  <2>1. t[i].at = s[i].at /\ t[i].todo \subseteq s[i].todo
    OBVIOUS
  <2>2. i > 1 => t[i - 1].at = s[i - 1].at
    BY <1>1
  <2>3. /\ i <= Depth[s[i].at] + 1 + Height * w[i]
        /\ s[i].todo \subseteq Children(s[i].at)
        /\ i > 1 => w[i - 1] < w[i] \/ (w[i - 1] = w[i] /\ Below(s[i - 1].at, s[i].at))
    BY DEF Weighted
  <2> QED BY <2>1, <2>2, <2>3
<1> QED BY <1>2 DEF Weighted

LEMMA WeightedAdvance ==
  ASSUME NEW s, NEW w, Weighted(s, w), s # <<>>, NEW c
  PROVE  LET f == [at |-> s[Len(s)].at, todo |-> s[Len(s)].todo \ {c}]
             t == Append(SubSeq(s, 1, Len(s) - 1), f)
         IN  Weighted(t, w) /\ t # <<>> /\ Len(t) = Len(s) /\ t[Len(t)] = f
<1> DEFINE u == SubSeq(s, 1, Len(s) - 1)
           n == Len(s)
           f == [at |-> s[n].at, todo |-> s[n].todo \ {c}]
           t == Append(u, f)
<1>1. s \in Seq(Frames) /\ n \in Nat /\ n \in 1..Len(s)
  BY DEF Weighted
<1>2. u \in Seq(Frames) /\ Len(u) = n - 1 /\ \A i \in 1..(n - 1) : u[i] = s[i]
  BY <1>1, Popped
<1>3. s[n] \in Frames /\ s[n].at \in Branches /\ s[n].todo \subseteq Branches
  BY <1>1, Element
<1>4. f \in Frames /\ f.at = s[n].at /\ f.todo \subseteq s[n].todo
  BY <1>3 DEF Frames
<1> HIDE DEF u, f, n
<1>5. t \in Seq(Frames) /\ Len(t) = n /\ t[n] = f /\ \A i \in 1..(n - 1) : t[i] = u[i]
  BY <1>1, <1>2, <1>4, Pushed
<1> HIDE DEF t
<1>6. \A i \in 1..n : t[i].at = s[i].at /\ t[i].todo \subseteq s[i].todo
  BY <1>1, <1>2, <1>4, <1>5
<1>7. n = Len(s)
  BY DEF n
<1>8. Weighted(t, w)
  BY <1>5, <1>6, <1>7, WeightedNarrowed
<1>9. t # <<>>
  BY <1>1, <1>5
<1> QED BY <1>5, <1>7, <1>8, <1>9 DEF t, f, u, n
--------------------------------------------------------------------------------
(* The walk.                                                                *)

\* No call is running.
LEMMA NoFrames == ASSUME NEW p, NEW r PROVE \E w \in [1..Len(<<>>) -> Nat] : Weighted(<<>>, w) /\ Paid(<<>>, w, p, r)
<1> DEFINE w == [i \in 1..Len(<<>>) |-> 0]
<1>1. w \in [1..Len(<<>>) -> Nat] /\ <<>> \in Seq(Frames) /\ Len(<<>>) = 0
  OBVIOUS
<1> HIDE DEF w
<1>2. Weighted(<<>>, w) /\ Paid(<<>>, w, p, r)
  BY <1>1 DEF Weighted, Paid
<1> QED BY <1>1, <1>2

LEMMA RootBranchWalk ==
  ASSUME WalkIInv, pc = "idle", RootBranch, UNCHANGED downsRefused PROVE WalkIInv'
<1>1. pos' = pos /\ pos \in Branches /\ downsRefused' = downsRefused /\ downsRefused \in Nat
      /\ pc' = IF stack' = <<>> THEN "paging" ELSE "browsing"
  BY DEF WalkIInv, RootBranch
<1>2. CASE ListRefused(<<>>, pos)
  <2>1. stack' = <<>>
    BY <1>2 DEF ListRefused
  <2> QED BY <1>1, <2>1, NoFrames DEF WalkIInv
<1>3. CASE Lists(<<>>, pos)
  <2> DEFINE s == <<[at |-> pos, todo |-> Children(pos)]>>
             w == [i \in 1..Len(s) |-> 0]
  <2>1. stack' = s
    BY <1>3 DEF Lists
  <2>2. Weighted(s, w)
    BY <1>1, WeightedFirst
  <2>3. s # <<>> /\ Len(s) = 1 /\ s[1].at = pos /\ w[1] = 0 /\ w \in [1..Len(s) -> Nat]
    OBVIOUS
  <2> HIDE DEF s, w
  <2>4. Paid(s, w, pos, downsRefused)
    BY <1>1, <2>3, SubtreeHasRoot DEF Paid
  <2> QED BY <1>1, <2>1, <2>2, <2>3, <2>4 DEF WalkIInv
<1> QED BY <1>1, <1>2, <1>3 DEF RootBranch

LEMMA StartWalk ==
  ASSUME WalkIInv, Start PROVE WalkIInv'
<1>1. CASE count = 0 /\ RootBranch
  BY <1>1, RootBranchWalk DEF Start
<1>2. CASE UNCHANGED treeVars /\ pc' = "paging"
  BY <1>2 DEF WalkIInv, Start, treeVars
<1> QED BY <1>1, <1>2 DEF Start, BrowseNamespace, FlatBrowse, NoBrowse

\* Going down to a listed child ends below the branch where it was listed, if the position
\* was there or below: at the child, or where the position was, if that was below already.
LEMMA DownIsBelow ==
  ASSUME NEW a \in Branches, pos \in Subtree(a), NEW c \in Children(a), NEW b \in Down(c)
  PROVE  Below(a, b)
<1> DEFINE open == {d \in Children(pos) : Label[d] = Label[c]}
<1>1. pos \in Branches
  BY DEF Subtree
<1>2. CASE open = {}
  <2>1. b = pos
    BY <1>2 DEF Down
  <2>2. pos # a
    BY <1>2
  <2> QED BY <2>1, <2>2 DEF Below
<1>3. CASE open # {}
  <2>1. b \in Children(pos)
    BY <1>3 DEF Down
  <2>2. b \in Subtree(a)
    BY <2>1, SubtreeClosed
  <2>3. Depth[b] = Depth[pos] + 1
    BY <2>1, NamespaceAssumption DEF Children
  <2>4. pos = a \/ Depth[pos] > Depth[a]
    BY SubtreeIsDeeper
  <2>5. Depth[pos] \in Int /\ Depth[a] \in Int
    BY <1>1, NamespaceAssumption
  <2> QED BY <2>2, <2>3, <2>4, <2>5 DEF Below
<1> QED BY <1>2, <1>3

LEMMA NextBranchWalk ==
  ASSUME WalkIInv, NEW c \in Branches, NextBranch(c) PROVE WalkIInv'
<1> DEFINE f == [at |-> Top.at, todo |-> Top.todo \ {c}]
           frames == Append(Callers, f)
           a == Top.at
           n == Len(stack)
<1>1. PICK w \in [1..Len(stack) -> Nat] : Weighted(stack, w) /\ Paid(stack, w, pos, downsRefused)
  BY DEF WalkIInv
<1>2. stack # <<>> /\ pc' = "browsing" /\ pos \in Branches /\ downsRefused \in Nat
  BY DEF WalkIInv, NextBranch
<1>3. stack \in Seq(Frames) /\ n \in Nat /\ n > 0 /\ n \in 1..n /\ Top = stack[n]
  BY <1>1, <1>2 DEF Weighted, Top
<1>4. a \in Branches /\ c \in Children(a)
  <2>1. stack[n].at \in Branches
    BY <1>3, Element
  <2>2. stack[n].todo \subseteq Children(stack[n].at)
    BY <1>1, <1>3 DEF Weighted
  <2>3. c \in stack[n].todo
    BY <1>3 DEF NextBranch
  <2> QED BY <1>3, <2>1, <2>2, <2>3
<1>5. Depth[a] < Height
  BY <1>4, NamespaceAssumption DEF Children
<1>6. /\ Weighted(frames, w) /\ frames # <<>> /\ Len(frames) = n /\ frames[n] = f /\ f.at = a
  BY <1>1, <1>2, WeightedAdvance DEF Callers, Top
<1>7. w[n] \in Nat /\ w[n] <= downsRefused /\ (pos \in Subtree(a) \/ w[n] < downsRefused)
  BY <1>1, <1>2, <1>3 DEF Paid
<1>8. /\ Lists(frames, pos') \/ ListRefused(frames, pos')
      /\ (pos' \in Down(c) /\ downsRefused' = downsRefused) \/ DownRefused
  BY DEF NextBranch, Branch
<1> HIDE DEF f, frames, a, n
<1>9. /\ pos' \in Branches /\ downsRefused' \in Nat
      /\ w[n] <= downsRefused' /\ (Below(a, pos') \/ w[n] < downsRefused')
  <2>1. CASE DownRefused
    BY <1>2, <1>7, <2>1 DEF DownRefused
  <2>2. CASE pos' \in Down(c) /\ downsRefused' = downsRefused
    <3>1. pos \in Subtree(a) => Below(a, pos')
      BY <1>4, <2>2, DownIsBelow
    <3>2. pos' \in Branches
      BY <1>2, <2>2 DEF Down, Children
    <3> QED BY <1>2, <1>7, <2>2, <3>1, <3>2
  <2> QED BY <1>8, <2>1, <2>2
<1>10. CASE ListRefused(frames, pos')
  <2>1. stack' = frames
    BY <1>10 DEF ListRefused
  <2>2. Paid(frames, w, pos', downsRefused')
    BY <1>6, <1>9 DEF Paid, Below
  <2>3. w \in [1..Len(frames) -> Nat]
    BY <1>6 DEF Weighted
  <2> QED BY <1>2, <1>6, <1>9, <2>1, <2>2, <2>3 DEF WalkIInv
<1>11. CASE Lists(frames, pos')
  <2> DEFINE e == [at |-> pos', todo |-> Children(pos')]
             t == Append(frames, e)
             v == IF Below(a, pos') THEN w[n] ELSE w[n] + 1
             u == Extended(w, n, v)
  <2>1. stack' = t
    BY <1>11 DEF Lists
  <2>2. v \in Nat /\ v <= downsRefused' /\ (w[n] < v \/ (w[n] = v /\ Below(a, pos')))
    BY <1>7, <1>9
  <2> HIDE DEF v
  <2>3. Weighted(t, u)
    BY <1>3, <1>5, <1>6, <1>9, <2>2, WeightedPush
  <2>4. e \in Frames /\ frames \in Seq(Frames) /\ e.at = pos'
    BY <1>6, <1>9 DEF Weighted, Frames, Children
  <2> HIDE DEF e
  <2>5. t # <<>> /\ Len(t) = n + 1 /\ t[n + 1] = e /\ u[n + 1] = v
    BY <1>3, <1>6, <2>4, Pushed DEF Extended
  <2>6. u \in [1..Len(t) -> Nat]
    BY <2>3 DEF Weighted
  <2> HIDE DEF t, u
  <2>7. Paid(t, u, pos', downsRefused')
    BY <1>9, <2>2, <2>4, <2>5, SubtreeHasRoot DEF Paid
  <2> QED BY <1>2, <1>9, <2>1, <2>3, <2>5, <2>6, <2>7 DEF WalkIInv
<1> QED BY <1>8, <1>10, <1>11

\* One up from below a branch is that branch or still below.
LEMMA UpIsBelow ==
  ASSUME NEW b \in Branches, NEW a, Below(b, a), pos \in Subtree(a),
         pos' = pos \/ pos' = Parent[pos]
  PROVE  pos' \in Subtree(b)
<1>1. a \in Branches /\ pos \in Branches
  BY DEF Below, Subtree
<1>2. pos \in Subtree(b)
  BY SubtreeTransitive DEF Below
<1>3. pos # b
  <2>1. Depth[a] > Depth[b] /\ (pos = a \/ Depth[pos] > Depth[a])
    BY <1>1, SubtreeIsDeeper DEF Below
  <2>2. Depth[a] \in Int /\ Depth[b] \in Int /\ Depth[pos] \in Int
    BY <1>1, NamespaceAssumption
  <2> QED BY <2>1, <2>2
<1> QED BY <1>2, <1>3, SubtreeParent

LEMMA LastBranchWalk ==
  ASSUME WalkIInv, LastBranch PROVE WalkIInv'
<1> DEFINE n == Len(stack)
           a == stack[n].at
<1>1. PICK w \in [1..Len(stack) -> Nat] : Weighted(stack, w) /\ Paid(stack, w, pos, downsRefused)
  BY DEF WalkIInv
<1>2. stack # <<>> /\ pos \in Branches /\ downsRefused \in Nat
  BY DEF WalkIInv, LastBranch
<1>3. stack \in Seq(Frames) /\ n \in Nat /\ n > 0 /\ n \in 1..n
  BY <1>1, <1>2 DEF Weighted
<1>4. /\ stack' = Callers /\ downsRefused' = downsRefused
      /\ pc' = IF stack' = <<>> THEN "paging" ELSE "browsing"
      /\ pos' = pos \/ (pos # Root /\ pos' = Parent[pos])
  BY DEF LastBranch
<1>5. pos' \in Branches
  BY <1>2, <1>4, NamespaceAssumption
<1> DEFINE z == [i \in 1..Len(Callers) |-> w[i]]
<1>6. Weighted(Callers, z)
  BY <1>1, <1>2, WeightedPop DEF Callers
<1>7. /\ Callers \in Seq(Frames) /\ Len(Callers) = n - 1
      /\ \A i \in 1..(n - 1) : Callers[i] = stack[i]
  BY <1>2, <1>3, Popped DEF Callers
<1>8. z \in [1..Len(Callers) -> Nat]
  BY <1>6 DEF Weighted
<1>9. w[n] <= downsRefused /\ (pos \in Subtree(a) \/ w[n] < downsRefused)
  BY <1>1, <1>2 DEF Paid
<1> HIDE DEF n, z
<1>10. ASSUME Callers # <<>>
       PROVE  z[n - 1] <= downsRefused /\ (pos' \in Subtree(stack[n - 1].at) \/ z[n - 1] < downsRefused)
  <2>1. n > 1 /\ n - 1 \in 1..n /\ n - 1 \in 1..Len(Callers)
    BY <1>3, <1>7, <1>10
  <2>2. z[n - 1] = w[n - 1] /\ stack[n - 1].at \in Branches
    <3>1. Len(stack) = n
      BY DEF n
    <3>2. stack[n - 1].at \in Branches
      BY <1>3, <2>1, <3>1, Element
    <3> QED BY <2>1, <3>2 DEF z
  <2>3. w[n - 1] < w[n] \/ (w[n - 1] = w[n] /\ Below(stack[n - 1].at, a))
    BY <1>1, <1>3, <2>1 DEF Weighted, n
  <2>4. w[n - 1] \in Nat /\ w[n] \in Nat
    BY <1>3, <2>1 DEF n
  <2>5. CASE w[n - 1] < w[n] \/ w[n] < downsRefused
    BY <1>2, <1>9, <2>2, <2>3, <2>4, <2>5
  <2>6. CASE w[n - 1] = w[n] /\ Below(stack[n - 1].at, a) /\ pos \in Subtree(a)
    <3>1. pos' \in Subtree(stack[n - 1].at)
      BY <1>4, <2>2, <2>6, UpIsBelow
    <3> QED BY <1>9, <2>2, <2>6, <3>1
  <2> QED BY <1>9, <2>3, <2>5, <2>6
<1>11. Paid(Callers, z, pos', downsRefused)
  <2>1. ASSUME Callers # <<>> PROVE Callers[n - 1] = stack[n - 1]
    BY <1>3, <1>7, <2>1
  <2> QED BY <1>7, <1>10, <2>1 DEF Paid
<1>12. pc' = "browsing" <=> stack' # <<>>
  BY <1>4
<1> QED BY <1>2, <1>4, <1>5, <1>6, <1>8, <1>11, <1>12 DEF WalkIInv

LEMMA NextWalk == WalkIInv /\ [Next]_vars => WalkIInv'
<1> SUFFICES ASSUME WalkIInv, [Next]_vars PROVE WalkIInv'
  OBVIOUS
<1>1. CASE Page
  BY <1>1 DEF WalkIInv, Page, treeVars
<1>2. CASE Again
  <2>1. stack = <<>> /\ stack' = <<>> /\ pc' = "idle"
    BY <1>2 DEF WalkIInv, Again
  <2>2. pos' \in Branches /\ downsRefused' \in Nat
    BY <1>2, NamespaceAssumption DEF WalkIInv, Again
  <2> QED BY <2>1, <2>2, NoFrames DEF WalkIInv
<1>3. CASE UNCHANGED vars
  BY <1>3 DEF WalkIInv, vars, treeVars
<1> QED BY <1>1, <1>2, <1>3, StartWalk, NextBranchWalk, LastBranchWalk DEF Next, Step

\* Whatever the server refuses, browseBranch calls itself no more often than the tree is
\* high for each refusal to go down, and once more; so in a tree whose listed branches can
\* all be gone down to, no more often than the tree is high.
THEOREM WalkIsBounded == Spec => []RecursionBounded
<1>1. Init => WalkIInv
  <2> SUFFICES ASSUME Init PROVE WalkIInv
    OBVIOUS
  <2>1. pos \in Branches /\ downsRefused \in Nat /\ pc = "idle" /\ stack = <<>>
    BY NamespaceAssumption DEF Init
  <2> QED BY <2>1, NoFrames DEF WalkIInv
<1>2. WalkIInv => RecursionBounded
  <2> SUFFICES ASSUME WalkIInv PROVE Len(stack) <= Height * (downsRefused + 1) + 1
    BY DEF RecursionBounded
  <2>1. PICK w \in [1..Len(stack) -> Nat] : Weighted(stack, w) /\ Paid(stack, w, pos, downsRefused)
    BY DEF WalkIInv
  <2> DEFINE n == Len(stack)
  <2>2. stack \in Seq(Frames) /\ n \in Nat /\ downsRefused \in Nat /\ Height \in Nat
    BY <2>1, NamespaceAssumption DEF Weighted, WalkIInv
  <2>3. Height * (downsRefused + 1) = Height * downsRefused + Height
    BY <2>2
  <2>4. Height * downsRefused \in Nat
    BY <2>2
  <2>5. CASE n > 0
    <3>1. n \in 1..n /\ stack # <<>>
      BY <2>2, <2>5
    <3>2. stack[n].at \in Branches
      BY <2>2, <3>1, Element
    <3>3. n <= Depth[stack[n].at] + 1 + Height * w[n] /\ w[n] <= downsRefused /\ w[n] \in Nat
      BY <2>1, <3>1 DEF Weighted, Paid
    <3> HIDE DEF n
    <3>4. Depth[stack[n].at] \in Nat /\ Depth[stack[n].at] <= Height
      BY <3>2, NamespaceAssumption
    <3>5. Height * w[n] \in Nat
      BY <2>2, <3>3
    <3>6. Height * w[n] <= Height * downsRefused
      <4>1. CASE w[n] < downsRefused
        <5>1. Height * w[n] + Height <= Height * downsRefused
          BY <2>2, <3>3, <4>1, Monotone
        <5> QED BY <2>2, <2>4, <3>5, <5>1
      <4>2. CASE w[n] = downsRefused
        BY <2>4, <4>2
      <4> QED BY <2>2, <3>3, <4>1, <4>2
    <3>7. n <= Height * (downsRefused + 1) + 1
      BY <2>2, <2>3, <2>4, <3>3, <3>4, <3>5, <3>6
    <3> QED BY <3>7 DEF n
  <2>6. CASE n = 0
    BY <2>2, <2>3, <2>4, <2>6
  <2> QED BY <2>2, <2>5, <2>6
<1> QED BY <1>1, <1>2, NextWalk, PTL DEF Spec

--------------------------------------------------------------------------------
(* Every name once: while nothing is refused the position is where the last  *)
(* call of browseBranch is, and what is still to come is below the branches  *)
(* that the calls have yet to visit.                                         *)

\* No two branches below the same one have the same name, and all are below the root.
ProperTree ==
  /\ \A a \in Branches : \A c, d \in Children(a) : Label[c] = Label[d] => c = d
  /\ \A b \in Branches : b \in Subtree(Root)

LEMMA SubtreeSplit ==
  ASSUME NEW a \in Branches, NEW b \in Subtree(a), b # a
  PROVE  \E d \in Children(a) : b \in Subtree(d)
<1> DEFINE S == {x \in Branches : x = a \/ \E d \in Children(a) : x \in Subtree(d)}
<1>1. ASSUME NEW c \in Branches \ {Root}, Parent[c] \in S PROVE c \in S
  <2>1. c \in Children(Parent[c])
    BY DEF Children
  <2>2. CASE Parent[c] = a
    BY <2>1, <2>2, SubtreeHasRoot
  <2>3. ASSUME NEW d \in Children(a), Parent[c] \in Subtree(d) PROVE c \in S
    <3>1. d \in Branches
      BY DEF Children
    <3>2. c \in Subtree(d)
      BY <2>1, <2>3, <3>1, SubtreeClosed
    <3> QED BY <3>2
  <2> QED BY <1>1, <2>2, <2>3
<1>2. b \in S
  BY <1>1 DEF Subtree, Closed
<1> QED BY <1>2

LEMMA ChildOfOne ==
  ASSUME NEW a \in Branches, NEW c \in Children(a)
  PROVE  c \in Branches /\ c # Root /\ Parent[c] = a /\ Depth[c] = Depth[a] + 1
BY NamespaceAssumption DEF Children

\* Branches that are equally deep are not below each other.
LEMMA LevelApart ==
  ASSUME NEW c \in Branches, NEW d \in Branches, Depth[c] = Depth[d], c # d
  PROVE  c \notin Subtree(d)
<1>1. Depth[c] \in Int /\ Depth[d] \in Int
  BY NamespaceAssumption
<1> QED BY <1>1, SubtreeIsDeeper

\* The frames are a line of children from the root; none has yet to visit what is above
\* the branch of a later one.
Lined(s) ==
  /\ s \in Seq(Frames)
  /\ \A i \in 1..Len(s) :
       /\ Depth[s[i].at] = Depth[Root] + i - 1
       /\ s[i].todo \subseteq Children(s[i].at)
       /\ i = 1 => s[i].at = Root
       /\ i > 1 => s[i].at \in Children(s[i - 1].at)
       /\ \A j \in 1..(i - 1) : \A d \in s[j].todo : s[i].at \notin Subtree(d)

\* What the calls will still visit.
ToCome(s) == {b \in Branches : \E i \in 1..Len(s) : \E c \in s[i].todo : b \in Subtree(c)}

\* A child that is visited now is not below any other that is still to be visited.
LEMMA ChildApart ==
  ASSUME NEW s, Lined(s), NEW n, n = Len(s), n > 0, NEW c \in s[n].todo,
         NEW i \in 1..n, NEW d \in s[i].todo, d # c \/ i # n
  PROVE  c \notin Subtree(d)
<1>1. n \in Nat /\ n \in 1..n /\ s \in Seq(Frames) /\ \A k \in 1..n : s[k].at \in Branches
  BY Element DEF Lined
<1>2. /\ c \in Children(s[n].at) /\ d \in Children(s[i].at)
      /\ Depth[s[n].at] = Depth[Root] + n - 1
      /\ Depth[s[i].at] = Depth[Root] + i - 1
  BY <1>1 DEF Lined
<1>3. /\ c \in Branches /\ Parent[c] = s[n].at /\ Depth[c] = Depth[s[n].at] + 1
      /\ d \in Branches /\ Parent[d] = s[i].at /\ Depth[d] = Depth[s[i].at] + 1
  BY <1>1, <1>2, ChildOfOne
<1>4. CASE i = n
  <2>1. c # d /\ Depth[c] = Depth[d]
    BY <1>2, <1>3, <1>4
  <2> QED BY <1>3, <2>1, LevelApart
<1>5. CASE i # n
  <2>1. i \in 1..(n - 1)
    BY <1>1, <1>5
  <2>2. s[n].at \notin Subtree(d)
    BY <1>1, <2>1 DEF Lined
  <2>3. c # d
    <3>1. Depth[Root] \in Int /\ i \in Int /\ n \in Int
      BY <1>1, NamespaceAssumption
    <3> QED BY <1>2, <1>3, <1>5, <3>1
  <2> QED BY <1>3, <2>2, <2>3, SubtreeParent
<1> QED BY <1>4, <1>5

\* t is s after the last call went down to its child c and listed what is there.
WentDown(s, t, c) ==
  /\ t \in Seq(Frames)
  /\ Len(t) = Len(s) + 1
  /\ \A i \in 1..(Len(s) - 1) : t[i] = s[i]
  /\ t[Len(s)].at = s[Len(s)].at /\ t[Len(s)].todo = s[Len(s)].todo \ {c}
  /\ t[Len(s) + 1].at = c /\ t[Len(s) + 1].todo = Children(c)

LEMMA LinedDown ==
  ASSUME NEW s, Lined(s), NEW n, n = Len(s), n > 0, NEW c \in s[n].todo,
         NEW t, WentDown(s, t, c)
  PROVE  Lined(t)
<1>1. n \in Nat /\ n \in 1..n /\ s \in Seq(Frames) /\ s[n].at \in Branches
  BY Element DEF Lined
<1>2. /\ c \in Children(s[n].at) /\ c \in Branches
      /\ Depth[c] = Depth[s[n].at] + 1 /\ Depth[s[n].at] = Depth[Root] + n - 1
  BY <1>1, ChildOfOne DEF Lined
<1>3. /\ t \in Seq(Frames) /\ Len(t) = n + 1
      /\ \A i \in 1..n : t[i].at = s[i].at /\ t[i].todo \subseteq s[i].todo
      /\ t[n].todo = s[n].todo \ {c}
      /\ t[n + 1].at = c /\ t[n + 1].todo = Children(c)
  BY <1>1 DEF WentDown
<1>4. ASSUME NEW i \in 1..n
      PROVE  /\ Depth[t[i].at] = Depth[Root] + i - 1
             /\ t[i].todo \subseteq Children(t[i].at)
             /\ i = 1 => t[i].at = Root
             /\ i > 1 => t[i].at \in Children(t[i - 1].at)
             /\ \A j \in 1..(i - 1) : \A d \in t[j].todo : t[i].at \notin Subtree(d)
  <2>1. t[i].at = s[i].at /\ t[i].todo \subseteq s[i].todo /\ (i > 1 => t[i - 1].at = s[i - 1].at)
    BY <1>1, <1>3
  <2>2. \A j \in 1..(i - 1) : t[j].todo \subseteq s[j].todo
    BY <1>1, <1>3
  <2>3. i \in 1..Len(s)
    BY <1>1
  <2> QED BY <2>1, <2>2, <2>3 DEF Lined
<1>5. /\ Depth[t[n + 1].at] = Depth[Root] + (n + 1) - 1
      /\ t[n + 1].todo \subseteq Children(t[n + 1].at)
      /\ t[n + 1].at \in Children(t[n].at)
      /\ \A j \in 1..n : \A d \in t[j].todo : t[n + 1].at \notin Subtree(d)
  <2>1. ASSUME NEW j \in 1..n, NEW d \in t[j].todo PROVE c \notin Subtree(d)
    BY <1>1, <1>3, ChildApart
  <2>2. Depth[c] = Depth[Root] + (n + 1) - 1
    <3>1. Depth[Root] \in Int
      BY NamespaceAssumption
    <3> QED BY <1>1, <1>2, <3>1
  <2> QED BY <1>1, <1>2, <1>3, <2>1, <2>2
<1>6. \A i \in 1..Len(t) : i \in 1..n \/ i = n + 1
  BY <1>1, <1>3
<1>7. n + 1 # 1 /\ (n + 1) - 1 = n
  BY <1>1
<1> QED BY <1>3, <1>4, <1>5, <1>6, <1>7 DEF Lined

LEMMA ToComeDown ==
  ASSUME NEW s, Lined(s), NEW n, n = Len(s), n > 0, NEW c \in s[n].todo,
         NEW t, WentDown(s, t, c)
  PROVE  ToCome(t) = ToCome(s) \ {c}
<1>1. n \in Nat /\ n \in 1..n /\ s \in Seq(Frames) /\ s[n].at \in Branches
      /\ \A i \in 1..n : s[i].at \in Branches /\ s[i].todo \subseteq Branches
  BY Element DEF Lined
<1>2. c \in Branches
  BY <1>1
<1>3. /\ Len(t) = n + 1
      /\ \A i \in 1..n : t[i].todo = IF i = n THEN s[i].todo \ {c} ELSE s[i].todo
      /\ t[n + 1].todo = Children(c)
  <2>1. /\ Len(t) = n + 1 /\ \A i \in 1..(n - 1) : t[i] = s[i]
        /\ t[n].todo = s[n].todo \ {c} /\ t[n + 1].todo = Children(c)
    BY DEF WentDown
  <2>2. \A i \in 1..n : i = n \/ i \in 1..(n - 1)
    BY <1>1
  <2> QED BY <2>1, <2>2
<1>4. ASSUME NEW b \in ToCome(t) PROVE b \in ToCome(s) /\ b # c
  <2>1. PICK i \in 1..(n + 1) : \E d \in t[i].todo : b \in Subtree(d)
    BY <1>3, <1>4 DEF ToCome
  <2>2. PICK d \in t[i].todo : b \in Subtree(d)
    BY <2>1
  <2>3. b \in Branches
    BY DEF ToCome
  <2>4. CASE i \in 1..n
    <3>1. d \in s[i].todo /\ (d # c \/ i # n)
      BY <1>3, <2>4
    <3>2. c \notin Subtree(d)
      BY <2>4, <3>1, ChildApart
    <3> QED BY <1>1, <2>2, <2>3, <2>4, <3>1, <3>2 DEF ToCome
  <2>5. CASE i = n + 1
    <3>1. d \in Children(c) /\ d \in Branches /\ Depth[d] = Depth[c] + 1
      BY <1>2, <1>3, <2>5, ChildOfOne
    <3>2. d \in Subtree(c)
      BY <1>2, <3>1, SubtreeHasRoot, SubtreeClosed
    <3>3. b \in Subtree(c)
      BY <1>2, <2>2, <3>2, SubtreeTransitive
    <3>4. b # c
      <4>1. b = d \/ Depth[b] > Depth[d]
        BY <2>2, <3>1, SubtreeIsDeeper
      <4>2. Depth[b] \in Int /\ Depth[c] \in Int /\ Depth[d] \in Int
        BY <1>2, <2>3, <3>1, NamespaceAssumption
      <4> QED BY <3>1, <4>1, <4>2
    <3> QED BY <1>1, <2>3, <3>3, <3>4 DEF ToCome
  <2> QED BY <1>1, <2>1, <2>4, <2>5
<1>5. ASSUME NEW b \in ToCome(s), b # c PROVE b \in ToCome(t)
  <2>1. PICK i \in 1..n : \E d \in s[i].todo : b \in Subtree(d)
    BY DEF ToCome
  <2>2. PICK d \in s[i].todo : b \in Subtree(d)
    BY <2>1
  <2>3. b \in Branches /\ i \in 1..Len(t) /\ n + 1 \in 1..Len(t)
    BY <1>1, <1>3 DEF ToCome
  <2>4. CASE d # c \/ i # n
    BY <1>3, <2>2, <2>3, <2>4 DEF ToCome
  <2>5. CASE d = c /\ i = n
    <3>1. PICK e \in Children(c) : b \in Subtree(e)
      BY <1>2, <1>5, <2>2, <2>5, SubtreeSplit
    <3> QED BY <1>3, <2>3, <3>1 DEF ToCome
  <2> QED BY <2>4, <2>5
<1> QED BY <1>4, <1>5

LEMMA LinedUp ==
  ASSUME NEW s, Lined(s), s # <<>>
  PROVE  LET t == SubSeq(s, 1, Len(s) - 1)
         IN  /\ Lined(t)
             /\ s[Len(s)].todo = {} => ToCome(t) = ToCome(s)
             /\ t = <<>> => s[Len(s)].at = Root
             /\ t # <<>> => s[Len(s)].at # Root /\ t[Len(t)].at = Parent[s[Len(s)].at]
<1> DEFINE n == Len(s)
           t == SubSeq(s, 1, n - 1)
<1>1. s \in Seq(Frames) /\ n \in Nat /\ n > 0 /\ n = Len(s)
  BY DEF Lined
<1>2. t \in Seq(Frames) /\ Len(t) = n - 1 /\ \A i \in 1..(n - 1) : t[i] = s[i]
  BY <1>1, Popped
<1> HIDE DEF n, t
<1>3. Lined(t)
  <2>1. ASSUME NEW i \in 1..Len(t)
        PROVE  /\ Depth[t[i].at] = Depth[Root] + i - 1
               /\ t[i].todo \subseteq Children(t[i].at)
               /\ i = 1 => t[i].at = Root
               /\ i > 1 => t[i].at \in Children(t[i - 1].at)
               /\ \A j \in 1..(i - 1) : \A d \in t[j].todo : t[i].at \notin Subtree(d)
    <3>1. i \in 1..Len(s) /\ t[i] = s[i] /\ \A j \in 1..(i - 1) : t[j] = s[j]
      BY <1>1, <1>2
    <3>2. i > 1 => t[i - 1] = s[i - 1]
      BY <1>1, <1>2
    <3> QED BY <3>1, <3>2 DEF Lined
  <2> QED BY <1>2, <2>1 DEF Lined
<1>4. s[n].todo = {} => ToCome(t) = ToCome(s)
  BY <1>1, <1>2 DEF ToCome
<1>5. ASSUME t = <<>> PROVE s[n].at = Root
  <2>1. Len(t) = 0
    BY <1>5
  <2>2. n - 1 = 0
    BY <1>2, <2>1
  <2>3. Len(s) = 1
    <3>1. n = Len(s) /\ Len(s) \in Nat
      BY <1>1
    <3> QED BY <2>2, <3>1
  <2>4. s[1].at = Root
    <3>1. 1 \in 1..Len(s)
      BY <2>3
    <3> QED BY <3>1 DEF Lined
  <2>5. n = 1
    BY <1>1, <2>3
  <2> QED BY <2>4, <2>5
<1>6. t # <<>> => s[n].at # Root /\ t[Len(t)].at = Parent[s[n].at]
  <2> SUFFICES ASSUME t # <<>> PROVE s[n].at # Root /\ t[Len(t)].at = Parent[s[n].at]
    OBVIOUS
  <2>1. n > 1 /\ t[Len(t)] = s[n - 1] /\ n - 1 \in 1..n
    BY <1>1, <1>2
  <2>2. s[n].at \in Children(s[n - 1].at)
    BY <1>1, <2>1 DEF Lined
  <2> QED BY <2>1, <2>2 DEF Children
<1> QED BY <1>3, <1>4, <1>5, <1>6 DEF n, t

\* While nothing is refused the items that have their name are those whose branch is not
\* to come any more.
Browsed ==
  /\ pc \in {"idle", "browsing", "paging", "done"}
  /\ count \in Nat /\ found \in [Items -> Nat]
  /\ count = 0 => \A x \in Items : found[x] = 0
  /\ pc = "browsing" => stack # <<>> /\ Lined(stack) /\ pos = Top.at
  /\ pc = "browsing" => \A x \in Items : found[x] = IF In[x] \in ToCome(stack) THEN 0 ELSE 1
  /\ pc # "browsing" => pos = Root /\ stack = <<>>
  /\ pc \in {"paging", "done"} => \A x \in Items : found[x] = 1
  /\ pc = "idle" /\ count # 0 => \A x \in Items : found[x] = 1

\* The server refused something.
Denied == refused \/ downsRefused # 0

OnceIInv ==
  /\ refused \in BOOLEAN
  /\ downsRefused \in Nat
  /\ ~Denied => Browsed

LEMMA Named ==
  ASSUME NEW is \in SUBSET Items, Names(is), OnceIInv, Browsed, ~refused'
  PROVE  /\ ~refused /\ count' \in Nat /\ found' \in [Items -> Nat]
         /\ \A x \in Items : found'[x] = found[x] + IF x \in is THEN 1 ELSE 0
         /\ count' = 0 => \A x \in Items : found'[x] = 0
<1>1. PICK js \in SUBSET is :
        /\ found' = [i \in Items |-> found[i] + IF i \in js THEN 1 ELSE 0]
        /\ count' = count + Cardinality(js)
        /\ refused' = (refused \/ js # is)
  BY DEF Names
<1>2. ~refused /\ js = is
  BY <1>1 DEF OnceIInv
<1>3. count \in Nat /\ found \in [Items -> Nat] /\ (count = 0 => \A x \in Items : found[x] = 0)
  BY DEF Browsed
<1>4. IsFiniteSet(is)
  BY FS_Subset, NamespaceAssumption
<1>5. Cardinality(is) \in Nat /\ (Cardinality(is) = 0 <=> is = {})
  BY <1>4, FS_CardinalityType, FS_EmptySet
<1>6. count' \in Nat /\ found' \in [Items -> Nat]
  BY <1>1, <1>2, <1>3, <1>5
<1>7. \A x \in Items : found'[x] = found[x] + IF x \in is THEN 1 ELSE 0
  BY <1>1, <1>2
<1>8. ASSUME count' = 0, NEW x \in Items PROVE found'[x] = 0
  <2>1. count = 0 /\ is = {}
    BY <1>1, <1>2, <1>3, <1>5, <1>8
  <2> QED BY <1>3, <1>7, <2>1
<1> QED BY <1>2, <1>6, <1>7, <1>8

LEMMA StaysDenied ==
  OnceIInv /\ [Next]_vars => refused' \in BOOLEAN /\ downsRefused' \in Nat /\ (Denied => Denied')
<1> DEFINE Stays == refused' \in BOOLEAN /\ (refused => refused')
<1> SUFFICES ASSUME OnceIInv, [Next]_vars
             PROVE  Stays /\ downsRefused' \in Nat /\ (downsRefused # 0 => downsRefused' # 0)
  BY DEF Denied
<1>1. \A is : Names(is) => Stays
  BY DEF Names, OnceIInv
<1>2. \A frames, at : Lists(frames, at) \/ ListRefused(frames, at) => Stays
  BY <1>1 DEF Lists, ListRefused
<1>3. CASE Start
  BY <1>1, <1>2, <1>3 DEF Start, BrowseNamespace, FlatBrowse, RootBranch, NoBrowse, spaceVars, OnceIInv
<1>4. ASSUME NEW c \in Branches, NextBranch(c)
      PROVE  Stays /\ downsRefused' \in Nat /\ (downsRefused # 0 => downsRefused' # 0)
  BY <1>2, <1>4 DEF NextBranch, Branch, DownRefused, OnceIInv
<1>5. CASE LastBranch
  BY <1>5 DEF LastBranch, OnceIInv
<1>6. CASE Page \/ Again \/ UNCHANGED vars
  BY <1>6 DEF Page, Again, vars, spaceVars, OnceIInv
<1> QED BY <1>3, <1>4, <1>5, <1>6 DEF Next, Step

LEMMA StartOnce ==
  ASSUME ProperTree, OnceIInv, Browsed, Start, ~Denied, ~Denied' PROVE Browsed'
<1>1. ~refused /\ ~refused' /\ downsRefused = 0 /\ downsRefused' = 0
  BY DEF Denied
<1>2. /\ pc = "idle" /\ pos = Root /\ stack = <<>> /\ count \in Nat /\ found \in [Items -> Nat]
      /\ count = 0 => \A x \in Items : found[x] = 0
      /\ count # 0 => \A x \in Items : found[x] = 1
  BY DEF Browsed, Start
<1>3. CASE count # 0
  BY <1>2, <1>3 DEF Start, Browsed, treeVars, spaceVars
<1>4. CASE count = 0 /\ FlatBrowse
  <2>1. Names(Items) /\ pc' = "paging" /\ pos' = Root /\ stack' = <<>>
    BY <1>2, <1>4 DEF FlatBrowse, treeVars
  <2>2. /\ count' \in Nat /\ found' \in [Items -> Nat] /\ \A x \in Items : found'[x] = 1
        /\ count' = 0 => \A x \in Items : found'[x] = 0
    BY <1>1, <1>2, <1>4, <2>1, Named
  <2> QED BY <2>1, <2>2 DEF Browsed
<1>5. CASE count = 0 /\ RootBranch
  <2>1. pos' = Root /\ Lists(<<>>, Root)
    BY <1>1, <1>2, <1>5 DEF RootBranch, ListRefused
  <2>2. /\ count' \in Nat /\ found' \in [Items -> Nat]
        /\ \A x \in Items : found'[x] = IF In[x] = Root THEN 1 ELSE 0
        /\ count' = 0 => \A x \in Items : found'[x] = 0
    BY <1>1, <1>2, <1>5, <2>1, Named DEF Lists, ItemsIn
  <2>3. stack' = <<[at |-> Root, todo |-> Children(Root)]>>
    BY <2>1 DEF Lists
  <2>4. /\ stack' \in Seq(Frames) /\ Len(stack') = 1 /\ stack' # <<>>
        /\ stack'[1].at = Root /\ stack'[1].todo = Children(Root)
    BY <2>3, NamespaceAssumption DEF Frames, Children
  <2>5. Lined(stack')
    <3>1. Depth[Root] = Depth[Root] + 1 - 1
      BY NamespaceAssumption
    <3>2. 1..Len(stack') = {1} /\ 1..(1 - 1) = {}
      BY <2>4
    <3> QED BY <2>4, <3>1, <3>2 DEF Lined
  <2>6. \A b \in Branches : b \in ToCome(stack') <=> b # Root
    <3>1. 1..Len(stack') = {1}
      BY <2>4
    <3>2. ASSUME NEW b \in Branches, b # Root PROVE b \in ToCome(stack')
      <4>1. \E d \in Children(Root) : b \in Subtree(d)
        BY <3>2, SubtreeSplit, NamespaceAssumption DEF ProperTree
      <4> QED BY <2>4, <3>1, <4>1 DEF ToCome
    <3>3. Root \notin ToCome(stack')
      <4> SUFFICES ASSUME NEW d \in Children(Root), Root \in Subtree(d) PROVE FALSE
        BY <2>4, <3>1 DEF ToCome
      <4>1. d \in Branches /\ d # Root
        BY DEF Children
      <4> QED BY <4>1, SubtreeParent
    <3> QED BY <3>2, <3>3
  <2>7. \A x \in Items : found'[x] = IF In[x] \in ToCome(stack') THEN 0 ELSE 1
    BY <2>2, <2>6, NamespaceAssumption
  <2>8. pc' = "browsing"
    BY <1>5, <2>4 DEF RootBranch
  <2>9. Top' = stack'[1]
    BY <2>4 DEF Top
  <2> QED BY <2>1, <2>2, <2>4, <2>5, <2>7, <2>8, <2>9 DEF Browsed
<1> QED BY <1>1, <1>3, <1>4, <1>5 DEF Start, BrowseNamespace, NoBrowse

LEMMA NextBranchOnce ==
  ASSUME ProperTree, OnceIInv, Browsed, NEW c \in Branches, NextBranch(c), ~Denied, ~Denied'
  PROVE  Browsed'
<1> DEFINE n == Len(stack)
<1>1. ~refused /\ ~refused' /\ downsRefused = 0 /\ downsRefused' = 0
  BY DEF Denied
<1>2. /\ pc = "browsing" /\ pc' = "browsing" /\ stack # <<>> /\ Lined(stack) /\ pos = stack[n].at
      /\ c \in stack[n].todo
      /\ \A x \in Items : found[x] = IF In[x] \in ToCome(stack) THEN 0 ELSE 1
  BY DEF Browsed, NextBranch, Top
<1>3. n \in Nat /\ n > 0 /\ n \in 1..n /\ stack \in Seq(Frames) /\ pos \in Branches
  <2>1. stack \in Seq(Frames) /\ n \in Nat /\ n > 0
    BY <1>2 DEF Lined
  <2>2. n \in 1..Len(stack)
    BY <2>1
  <2> QED BY <1>2, <2>1, <2>2, Element
<1>4. c \in Children(pos)
  BY <1>2, <1>3 DEF Lined
<1>5. Down(c) = {c}
  <2>1. {d \in Children(pos) : Label[d] = Label[c]} = {c}
    BY <1>3, <1>4 DEF ProperTree
  <2> QED BY <2>1 DEF Down
<1> DEFINE frames == Append(Callers, [at |-> Top.at, todo |-> Top.todo \ {c}])
<1>6. pos' = c /\ Lists(frames, c)
  <2>1. ~DownRefused
    BY <1>1 DEF DownRefused
  <2> QED BY <1>1, <1>5, <2>1 DEF NextBranch, Branch, ListRefused
<1>7. WentDown(stack, stack', c)
  <2>1. /\ Callers \in Seq(Frames) /\ Len(Callers) = n - 1
        /\ \A i \in 1..(n - 1) : Callers[i] = stack[i]
    BY <1>2, <1>3, Popped DEF Callers
  <2>2. Top \in Frames /\ Top = stack[n]
    BY <1>3, Element DEF Top
  <2>3. [at |-> Top.at, todo |-> Top.todo \ {c}] \in Frames /\ [at |-> c, todo |-> Children(c)] \in Frames
    BY <2>2 DEF Frames, Children
  <2>4. stack' = Append(frames, [at |-> c, todo |-> Children(c)])
    BY <1>6 DEF Lists
  <2>5. /\ frames \in Seq(Frames) /\ Len(frames) = n
        /\ \A i \in 1..(n - 1) : frames[i] = stack[i]
        /\ frames[n] = [at |-> Top.at, todo |-> Top.todo \ {c}]
    BY <1>3, <2>1, <2>3
  <2> HIDE DEF frames
  <2>6. /\ stack' \in Seq(Frames) /\ Len(stack') = n + 1
        /\ \A i \in 1..n : stack'[i] = frames[i]
        /\ stack'[n + 1] = [at |-> c, todo |-> Children(c)]
    BY <1>3, <2>3, <2>4, <2>5
  <2>7. \A i \in 1..(n - 1) : i \in 1..n
    BY <1>3
  <2>8. /\ \A i \in 1..(n - 1) : stack'[i] = stack[i]
        /\ stack'[n] = [at |-> Top.at, todo |-> Top.todo \ {c}]
    BY <1>3, <2>5, <2>6, <2>7
  <2>9. /\ stack'[n].at = stack[n].at /\ stack'[n].todo = stack[n].todo \ {c}
        /\ stack'[n + 1].at = c /\ stack'[n + 1].todo = Children(c)
    BY <2>2, <2>6, <2>8
  <2> QED BY <2>6, <2>8, <2>9 DEF WentDown
<1>8. Lined(stack') /\ ToCome(stack') = ToCome(stack) \ {c}
  BY <1>2, <1>3, <1>7, LinedDown, ToComeDown
<1>9. c \in ToCome(stack)
  BY <1>2, <1>3, SubtreeHasRoot DEF ToCome
<1>10. /\ count' \in Nat /\ found' \in [Items -> Nat] /\ found \in [Items -> Nat]
       /\ \A x \in Items : found'[x] = found[x] + IF In[x] = c THEN 1 ELSE 0
       /\ count' = 0 => \A x \in Items : found'[x] = 0
  <2>1. Names(ItemsIn(c)) /\ ItemsIn(c) \in SUBSET Items
    BY <1>6 DEF Lists, ItemsIn
  <2>2. \A x \in Items : x \in ItemsIn(c) <=> In[x] = c
    BY DEF ItemsIn
  <2>3. found \in [Items -> Nat]
    BY DEF Browsed
  <2> QED BY <1>1, <2>1, <2>2, <2>3, Named
<1>11. \A x \in Items : found'[x] = IF In[x] \in ToCome(stack') THEN 0 ELSE 1
  BY <1>2, <1>8, <1>9, <1>10
<1>12. stack' # <<>> /\ Top'.at = c
  BY <1>3, <1>7 DEF WentDown, Top
<1> QED BY <1>2, <1>6, <1>8, <1>10, <1>11, <1>12 DEF Browsed

LEMMA LastBranchOnce ==
  ASSUME Browsed, LastBranch, ~Denied, ~Denied' PROVE Browsed'
<1> DEFINE n == Len(stack)
           t == SubSeq(stack, 1, n - 1)
<1>1. /\ pc = "browsing" /\ stack # <<>> /\ Lined(stack) /\ pos = stack[n].at
      /\ stack[n].todo = {}
      /\ \A x \in Items : found[x] = IF In[x] \in ToCome(stack) THEN 0 ELSE 1
  BY DEF Browsed, LastBranch, Top
<1>2. /\ stack' = t /\ pos' = (IF pos = Root THEN Root ELSE Parent[pos])
      /\ pc' = IF stack' = <<>> THEN "paging" ELSE "browsing"
      /\ found' = found /\ count' = count
  BY DEF LastBranch, Callers, Denied
<1>3. /\ Lined(t) /\ ToCome(t) = ToCome(stack)
      /\ t = <<>> => stack[n].at = Root
      /\ t # <<>> => stack[n].at # Root /\ t[Len(t)].at = Parent[stack[n].at]
  BY <1>1, LinedUp
<1> HIDE DEF t
<1>4. CASE t = <<>>
  <2>1. ToCome(t) = {}
    BY <1>4 DEF ToCome
  <2>2. \A x \in Items : found[x] = 1
    BY <1>1, <1>3, <2>1
  <2> QED BY <1>1, <1>2, <1>3, <1>4, <2>2 DEF Browsed
<1>5. CASE t # <<>>
  BY <1>1, <1>2, <1>3, <1>5 DEF Browsed, Top
<1> QED BY <1>4, <1>5

\* In a tree whose branches have names of their own, and as long as the server refuses
\* nothing, no name comes twice and in the end none is missing.
THEOREM NamesComeOnce == ASSUME ProperTree PROVE Spec => []EveryNameOnce
<1>1. Init => OnceIInv
  <2> SUFFICES ASSUME Init PROVE OnceIInv
    OBVIOUS
  <2>1. /\ pc = "idle" /\ pos = Root /\ stack = <<>> /\ count = 0 /\ refused = FALSE
        /\ downsRefused = 0
        /\ found \in [Items -> Nat] /\ \A x \in Items : found[x] = 0
    BY DEF Init
  <2> QED BY <2>1 DEF OnceIInv, Browsed
<1>2. OnceIInv => EveryNameOnce
  <2> SUFFICES ASSUME Browsed, ~Denied
               PROVE  /\ \A i \in Items : found[i] <= 1
                      /\ pc \in {"paging", "done"} => \A i \in Items : found[i] = 1
    BY DEF EveryNameOnce, OnceIInv, Denied
  <2>1. CASE pc = "browsing"
    BY <2>1 DEF Browsed
  <2>2. CASE pc = "idle" /\ count = 0
    BY <2>2 DEF Browsed
  <2>3. CASE pc \in {"paging", "done"} \/ (count # 0 /\ pc = "idle")
    <3>1. \A i \in Items : found[i] = 1
      BY <2>3 DEF Browsed
    <3> QED BY <3>1
  <2> QED BY <2>1, <2>2, <2>3 DEF Browsed
<1>3. OnceIInv /\ [Next]_vars => OnceIInv'
  <2> SUFFICES ASSUME OnceIInv, [Next]_vars PROVE OnceIInv'
    OBVIOUS
  <2>1. refused' \in BOOLEAN /\ downsRefused' \in Nat /\ (Denied => Denied')
    BY StaysDenied
  <2>2. CASE Denied'
    BY <2>1, <2>2 DEF OnceIInv
  <2>3. CASE ~Denied /\ ~Denied'
    <3> SUFFICES Browsed'
      BY <2>1 DEF OnceIInv
    <3>1. Browsed
      BY <2>3 DEF OnceIInv
    <3>2. CASE Page
      <4>1. /\ pc = "paging" /\ pc' \in {"paging", "done"}
            /\ pos' = pos /\ stack' = stack /\ count' = count /\ found' = found
        BY <3>2 DEF Page, treeVars, spaceVars
      <4> QED BY <3>1, <4>1 DEF Browsed
    <3>3. CASE Again
      <4>1. pos' = Root /\ pc' = "idle" /\ stack' = <<>> /\ count' = count /\ found' = found
        BY <3>1, <3>3 DEF Browsed, Again, spaceVars
      <4>2. pc = "done"
        BY <3>3 DEF Again
      <4> QED BY <3>1, <4>1, <4>2 DEF Browsed
    <3>4. CASE UNCHANGED vars
      <4>1. /\ pc' = pc /\ pos' = pos /\ stack' = stack /\ count' = count /\ found' = found
        BY <3>4 DEF vars, treeVars, spaceVars
      <4> QED BY <3>1, <4>1 DEF Browsed, Top
    <3>5. ASSUME NEW c \in Branches, NextBranch(c) PROVE Browsed'
      BY <2>3, <3>1, <3>5, NextBranchOnce
    <3>6. CASE Start \/ LastBranch
      <4>1. CASE Start
        BY <2>3, <3>1, <4>1, StartOnce
      <4>2. CASE LastBranch
        BY <2>3, <3>1, <4>2, LastBranchOnce
      <4> QED BY <3>6, <4>1, <4>2
    <3> QED BY <3>2, <3>3, <3>4, <3>5, <3>6 DEF Next, Step
  <2> QED BY <2>1, <2>2, <2>3
<1> QED BY <1>1, <1>2, <1>3, PTL DEF Spec

--------------------------------------------------------------------------------
(* Pages.                                                                   *)

\* All names before the offset are taken while pages are fetched.
PagesIInv ==
  /\ count \in Nat /\ offset \in Nat /\ taken \in Nat
  /\ pc \in {"idle", "browsing"} => offset = 0 /\ taken = 0
  /\ pc = "paging" => taken = offset /\ offset <= count
  /\ pc = "done" => taken = count /\ offset <= count

LEMMA NoWrap ==
  ASSUME NEW x \in Nat, NEW w \in Nat \ {0}, x < w
  PROVE  x % w = x
OBVIOUS

LEMMA PageSizeOf ==
  ASSUME NEW o \in Nat, NEW n \in Nat, NEW size \in Nat \ {0}, o <= n
  PROVE  LET names == {i \in o..(o + size - 1) : i < n}
         IN  Cardinality(names) = IF size > n - o THEN n - o ELSE size
<1> DEFINE names == {i \in o..(o + size - 1) : i < n}
<1>1. CASE size > n - o
  <2>1. names = o..(n - 1)
    BY <1>1
  <2>2. n - 1 \in Int /\ o \in Int
    OBVIOUS
  <2>3. Cardinality(o..(n - 1)) = IF o > n - 1 THEN 0 ELSE n - 1 - o + 1
    BY <2>2, FS_Interval
  <2>4. Cardinality(o..(n - 1)) = n - o
    BY <2>3
  <2> QED BY <1>1, <2>1, <2>4
<1>2. CASE ~(size > n - o)
  <2>1. names = o..(o + size - 1)
    BY <1>2
  <2>2. o + size - 1 \in Int /\ o \in Int /\ o <= o + size - 1
    OBVIOUS
  <2>3. Cardinality(o..(o + size - 1)) =
          IF o > o + size - 1 THEN 0 ELSE o + size - 1 - o + 1
    BY <2>2, FS_Interval
  <2>4. Cardinality(o..(o + size - 1)) = size
    BY <2>2, <2>3
  <2> QED BY <1>2, <2>1, <2>4
<1> QED BY <1>1, <1>2

LEMMA NamesCounted ==
  ASSUME NEW js \in SUBSET Items PROVE Cardinality(js) \in Nat
BY FS_Subset, FS_CardinalityType, NamespaceAssumption

LEMMA BrowsePages ==
  ASSUME PagesIInv, Start \/ (\E c \in Branches : NextBranch(c)) \/ LastBranch
  PROVE  PagesIInv'
<1>1. ASSUME NEW is \in SUBSET Items, Names(is) PROVE count' \in Nat
  BY <1>1, NamesCounted DEF Names, PagesIInv
<1>2. \A b \in Branches : ItemsIn(b) \in SUBSET Items
  BY DEF ItemsIn
<1>3. ASSUME NEW s, NEW b, Lists(s, b) \/ ListRefused(s, b) PROVE count' \in Nat
  <2>1. ItemsIn(b) \in SUBSET Items
    BY DEF ItemsIn
  <2>2. CASE Lists(s, b)
    BY <1>1, <2>1, <2>2 DEF Lists
  <2>3. CASE ListRefused(s, b)
    BY <2>1, <2>3, NamesCounted DEF ListRefused, PagesIInv
  <2> QED BY <1>3, <2>2, <2>3
<1>4. CASE Start
  <2>1. offset = 0 /\ taken = 0 /\ UNCHANGED <<offset, taken>>
    BY <1>4 DEF Start, PagesIInv, pageVars
  <2>2. count' \in Nat /\ pc' \in {"browsing", "paging"}
    <3>1. CASE FlatBrowse
      BY <1>1, <3>1 DEF FlatBrowse
    <3>2. CASE RootBranch
      BY <1>3, <3>2 DEF RootBranch
    <3>3. CASE NoBrowse \/ (UNCHANGED spaceVars /\ pc' = "paging")
      BY <3>3 DEF NoBrowse, PagesIInv, spaceVars
    <3> QED BY <1>4, <3>1, <3>2, <3>3 DEF Start, BrowseNamespace
  <2> QED BY <2>1, <2>2 DEF PagesIInv
<1>5. ASSUME NEW c \in Branches, NextBranch(c) PROVE PagesIInv'
  <2>1. count' \in Nat
    BY <1>3, <1>5 DEF NextBranch, Branch
  <2> QED BY <1>5, <2>1 DEF NextBranch, PagesIInv, pageVars
<1>6. CASE LastBranch
  BY <1>6 DEF LastBranch, PagesIInv, pageVars
<1> QED BY <1>4, <1>5, <1>6

LEMMA PagePages ==
  ASSUME PagesIInv, count < Word, Page PROVE PagesIInv'
<1>1. offset \in Nat /\ count \in Nat /\ taken = offset /\ offset <= count
  BY DEF PagesIInv, Page
<1>2. LastPage <=> PageSize > count - offset
  <2>1. count - offset \in Nat /\ count - offset < Word
    BY <1>1, NamespaceAssumption
  <2>2. (count - offset) % Word = count - offset
    BY <2>1, NoWrap, NamespaceAssumption
  <2> QED BY <2>2 DEF LastPage
<1>3. taken' = offset + (IF PageSize > count - offset THEN count - offset ELSE PageSize)
  <2> DEFINE names == {i \in offset..(offset + PageSize - 1) : i < count}
  <2>1. Cardinality(names) = IF PageSize > count - offset THEN count - offset ELSE PageSize
    <3>1. PageSize \in Nat \ {0} /\ offset \in Nat /\ count \in Nat /\ offset <= count
      BY <1>1, NamespaceAssumption
    <3>2. \A o, n \in Nat : \A size \in Nat \ {0} : o <= n =>
            Cardinality({i \in o..(o + size - 1) : i < n}) = IF size > n - o THEN n - o ELSE size
      BY PageSizeOf
    <3> QED BY <3>1, <3>2, Zenon
  <2>2. taken' = taken + Cardinality(names)
    BY DEF Page
  <2> HIDE DEF names
  <2> QED BY <1>1, <2>1, <2>2
<1>4. count' = count
  BY DEF Page, spaceVars
<1> QED BY <1>1, <1>2, <1>3, <1>4, NamespaceAssumption DEF Page, PagesIInv

LEMMA NextPages == PagesIInv /\ count < Word /\ [Next]_vars => PagesIInv'
<1>1. ASSUME PagesIInv, Again PROVE PagesIInv'
  BY <1>1 DEF PagesIInv, Again, spaceVars
<1>2. ASSUME PagesIInv, UNCHANGED vars PROVE PagesIInv'
  BY <1>2 DEF PagesIInv, vars, spaceVars, pageVars
<1> QED BY <1>1, <1>2, BrowsePages, PagePages DEF Next, Step

\* The client's pages begin where the last one ended, the last is recognised although
\* the number of names that are left is unsigned, and then all names are taken: for any
\* number of names and size of pages, if a size_t can count the names.
THEOREM PagesFit == Spec /\ [](count < Word) => []PagesAreWhole
<1>1. Init => PagesIInv
  BY DEF Init, PagesIInv
<1>2. PagesIInv => PagesAreWhole
  BY DEF PagesIInv, PagesAreWhole
<1> QED BY <1>1, <1>2, NextPages, PTL DEF Spec
--------------------------------------------------------------------------------
(* Types.                                                                   *)

TypeIInv == TypeOK /\ (pc = "browsing" => stack # <<>>)

LEMMA NamesTyped ==
  ASSUME TypeOK, NEW is \in SUBSET Items, Names(is)
  PROVE  found' \in [Items -> Nat] /\ count' \in Nat /\ refused' \in BOOLEAN
<1>1. PICK js \in SUBSET is :
        /\ found' = [i \in Items |-> found[i] + IF i \in js THEN 1 ELSE 0]
        /\ count' = count + Cardinality(js)
        /\ refused' = (refused \/ js # is)
  BY DEF Names
<1>2. Cardinality(js) \in Nat
  BY FS_Subset, FS_CardinalityType, NamespaceAssumption
<1>3. refused \in BOOLEAN
  BY DEF TypeOK
<1> QED BY <1>1, <1>2, <1>3 DEF TypeOK

LEMMA ListsTyped ==
  ASSUME TypeOK, NEW frames \in Seq(Frames), NEW at \in Branches,
         Lists(frames, at) \/ ListRefused(frames, at)
  PROVE  /\ found' \in [Items -> Nat] /\ count' \in Nat /\ refused' \in BOOLEAN
         /\ stack' \in Seq(Frames)
         /\ frames # <<>> => stack' # <<>>
<1>1. CASE Lists(frames, at)
  <2>1. found' \in [Items -> Nat] /\ count' \in Nat /\ refused' \in BOOLEAN
    BY <1>1, NamesTyped DEF Lists, ItemsIn
  <2>2. [at |-> at, todo |-> Children(at)] \in Frames
    BY DEF Frames, Children
  <2>3. stack' = Append(frames, [at |-> at, todo |-> Children(at)])
    BY <1>1 DEF Lists
  <2>4. stack' \in Seq(Frames) /\ Len(stack') = Len(frames) + 1
    BY <2>2, <2>3, Pushed
  <2> QED BY <2>1, <2>4
<1>2. CASE ListRefused(frames, at)
  <2>1. PICK js \in SUBSET ItemsIn(at) :
          /\ found' = [i \in Items |-> found[i] + IF i \in js THEN 1 ELSE 0]
          /\ count' = count + Cardinality(js)
    BY <1>2 DEF ListRefused
  <2>2. Cardinality(js) \in Nat
    BY FS_Subset, FS_CardinalityType, NamespaceAssumption DEF ItemsIn
  <2> QED BY <1>2, <2>1, <2>2 DEF ListRefused, TypeOK
<1> QED BY <1>1, <1>2

LEMMA StartTyped == ASSUME TypeIInv, Start PROVE TypeIInv'
<1>1. CASE count = 0 /\ FlatBrowse
  <2>1. found' \in [Items -> Nat] /\ count' \in Nat /\ refused' \in BOOLEAN
    BY <1>1, NamesTyped DEF FlatBrowse, TypeIInv
  <2> QED BY <1>1, <2>1 DEF Start, FlatBrowse, treeVars, pageVars, TypeIInv, TypeOK
<1>2. CASE count = 0 /\ RootBranch
  <2>1. TypeOK /\ pos \in Branches /\ <<>> \in Seq(Frames)
    BY DEF TypeIInv, TypeOK
  <2>2. Lists(<<>>, pos) \/ ListRefused(<<>>, pos)
    BY <1>2 DEF RootBranch
  <2>3. /\ found' \in [Items -> Nat] /\ count' \in Nat /\ refused' \in BOOLEAN
        /\ stack' \in Seq(Frames)
    BY <2>1, <2>2, ListsTyped
  <2> QED BY <1>2, <2>3 DEF Start, RootBranch, pageVars, TypeIInv, TypeOK, Frames
<1>3. CASE count = 0 /\ NoBrowse
  BY <1>3 DEF Start, NoBrowse, treeVars, pageVars, TypeIInv, TypeOK
<1>4. CASE count # 0
  BY <1>4 DEF Start, treeVars, spaceVars, pageVars, TypeIInv, TypeOK
<1> QED BY <1>1, <1>2, <1>3, <1>4 DEF Start, BrowseNamespace

LEMMA NextBranchTyped == ASSUME TypeIInv, NEW c \in Branches, NextBranch(c) PROVE TypeIInv'
<1> DEFINE f == [at |-> Top.at, todo |-> Top.todo \ {c}]
           frames == Append(Callers, f)
<1>1. pc = "browsing" /\ stack # <<>> /\ stack \in Seq(Frames)
  BY DEF NextBranch, TypeIInv, TypeOK, Frames
<1>2. Len(stack) \in 1..Len(stack)
  BY <1>1
<1>3. f \in Frames
  BY <1>1, <1>2, Element DEF Top, Frames
<1>4. Callers \in Seq(Frames)
  BY <1>1, Popped DEF Callers
<1>5. frames \in Seq(Frames) /\ Len(frames) = Len(Callers) + 1 /\ Len(Callers) \in Nat
  BY <1>3, <1>4, Pushed
<1>6. /\ pos' \in Branches /\ downsRefused' \in 0..RefusedDowns
      /\ Lists(frames, pos') \/ ListRefused(frames, pos')
  <2>1. CASE DownRefused
    BY <2>1, NamespaceAssumption DEF NextBranch, Branch, DownRefused, TypeIInv, TypeOK
  <2>2. CASE pos' \in Down(c) /\ downsRefused' = downsRefused
    BY <2>2 DEF NextBranch, Branch, Down, Children, TypeIInv, TypeOK
  <2> QED BY <2>1, <2>2 DEF NextBranch, Branch
<1> HIDE DEF frames
<1>7. frames # <<>>
  BY <1>5
<1>8. /\ found' \in [Items -> Nat] /\ count' \in Nat /\ refused' \in BOOLEAN
      /\ stack' \in Seq(Frames) /\ stack' # <<>>
  BY <1>5, <1>7, <1>6, ListsTyped DEF TypeIInv
<1> QED BY <1>6, <1>8 DEF NextBranch, pageVars, TypeIInv, TypeOK, Frames

LEMMA LastBranchTyped == ASSUME TypeIInv, LastBranch PROVE TypeIInv'
<1>1. stack # <<>> /\ stack \in Seq(Frames)
  BY DEF LastBranch, TypeIInv, TypeOK, Frames
<1>2. stack' \in Seq(Frames)
  BY <1>1, Popped DEF LastBranch, Callers
<1>3. pos' \in Branches /\ refused' \in BOOLEAN
  BY NamespaceAssumption DEF LastBranch, TypeIInv, TypeOK
<1> QED BY <1>2, <1>3 DEF LastBranch, pageVars, TypeIInv, TypeOK, Frames

LEMMA PageTyped == ASSUME TypeIInv, Page PROVE TypeIInv'
<1> DEFINE names == {i \in offset..(offset + PageSize - 1) : i < count}
<1>1. offset \in Nat /\ taken \in Nat /\ PageSize \in Nat \ {0}
  BY NamespaceAssumption DEF TypeIInv, TypeOK
<1>2. offset \in Int /\ offset + PageSize - 1 \in Int
  BY <1>1
<1>3. IsFiniteSet(offset..(offset + PageSize - 1))
  BY <1>2, FS_Interval
<1>4. Cardinality(names) \in Nat
  BY <1>3, FS_Subset, FS_CardinalityType
<1>5. taken' = taken + Cardinality(names)
  BY DEF Page
<1> HIDE DEF names
<1>6. taken' \in Nat /\ offset' \in Nat
  BY <1>1, <1>4, <1>5 DEF Page
<1> QED BY <1>6 DEF Page, treeVars, spaceVars, TypeIInv, TypeOK

LEMMA NextTyped == TypeIInv /\ [Next]_vars => TypeIInv'
<1> SUFFICES ASSUME TypeIInv, [Next]_vars PROVE TypeIInv'
  OBVIOUS
<1>1. CASE Again
  BY <1>1, NamespaceAssumption DEF Again, spaceVars, TypeIInv, TypeOK
<1>2. CASE UNCHANGED vars
  BY <1>2 DEF vars, treeVars, spaceVars, pageVars, TypeIInv, TypeOK
<1> QED BY <1>1, <1>2, StartTyped, NextBranchTyped, LastBranchTyped, PageTyped DEF Next, Step

\* The type invariant of DaNamespace.
THEOREM TypeCorrect == Spec => []TypeOK
<1>1. Init => TypeIInv
  <2> SUFFICES ASSUME Init PROVE TypeIInv
    OBVIOUS
  <2>1. stack \in Seq(Frames)
    BY DEF Init
  <2>2. found \in [Items -> Nat]
    BY DEF Init
  <2>3. pos \in Branches /\ downsRefused \in 0..RefusedDowns
    BY NamespaceAssumption DEF Init
  <2> QED BY <2>1, <2>2, <2>3 DEF Init, TypeIInv, TypeOK, Frames
<1>2. TypeIInv => TypeOK
  BY DEF TypeIInv
<1> QED BY <1>1, <1>2, NextTyped, PTL DEF Spec
================================================================================
