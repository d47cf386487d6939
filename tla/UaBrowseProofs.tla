----------------------------- MODULE UaBrowseProofs -----------------------------
(***************************************************************************)
(* Proofs about UaBrowse: for every graph of references, and whatever the  *)
(* server answers, a known address space is what can be reached from the   *)
(* root over the references that arrived; findNodeById finds every node of *)
(* it, in the one description that has children; and no step of a browse   *)
(* could be repeated for ever.                                             *)
(***************************************************************************)
EXTENDS UaBrowse, TLAPS, WellFoundedInduction

\* Every node that is known was visited or is still to be visited.
Covered == \A d \in Descriptions : \/ idOf[d] \in visited
                                   \/ \E i \in DOMAIN toVisit : idOf[toVisit[i]] = idOf[d]

\* What the server answered for a visited node is known.
Followed == \A n \in visited \ cut : \A i \in DOMAIN references[n] : references[n][i] \in Known

\* Nothing is known that the server does not lead to.
Led == \A S \in SUBSET Nodes : Closed(S, {}) => Known \subseteq S

\* There is a root as soon as a browse has begun, and nothing left to visit at its end.
Begun == /\ phase = "none" => idOf = <<>> /\ visited = {}
         /\ phase # "none" => Root \in Known
         /\ phase = "known" => toVisit = <<>>

IInv == TypeOK /\ Covered /\ Followed /\ Led /\ Begun

\* A sequence of descriptions stays one when descriptions are added.
LEMMA SeqGrows ==
  ASSUME NEW S, NEW T, S \subseteq T, NEW s \in Seq(S)
  PROVE  s \in Seq(T)
  OBVIOUS

\* The place of an element of the second sequence in a concatenation.
LEMMA Second ==
  ASSUME NEW S, NEW s \in Seq(S), NEW t \in Seq(S), NEW j \in 1..Len(t)
  PROVE  /\ Len(s) + j \in DOMAIN (s \o t)
         /\ (s \o t)[Len(s) + j] = t[j]
  OBVIOUS

\* What a call of addChildNodes does with the answer of the server.
LEMMA Answered ==
  ASSUME TypeOK, AddChildNodes
  PROVE  \E d \in Descriptions, answer \in Seq(Nodes) :
           /\ Visits(d)
           /\ idOf[d] \notin visited
           /\ Len(answer) <= Len(references[idOf[d]])
           /\ \A i \in 1..Len(answer) : answer[i] = references[idOf[d]][i]
           /\ visited' = visited \cup {idOf[d]}
           /\ idOf' = idOf \o answer
           /\ children' = Below(d, answer)
           /\ toVisit' = Made(answer) \o Tail(toVisit)
           /\ cut' = IF Len(answer) < Len(references[idOf[d]]) THEN cut \cup {idOf[d]} ELSE cut
           /\ UNCHANGED <<references, phase, browses>>
  <1>1. PICK d \in Descriptions, k \in 0..MaxReferences :
          /\ Visits(d)
          /\ idOf[d] \notin visited
          /\ k <= Len(references[idOf[d]])
          /\ visited' = visited \cup {idOf[d]}
          /\ idOf' = idOf \o SubSeq(references[idOf[d]], 1, k)
          /\ children' = Below(d, SubSeq(references[idOf[d]], 1, k))
          /\ toVisit' = Made(SubSeq(references[idOf[d]], 1, k)) \o Tail(toVisit)
          /\ cut' = IF k < Len(references[idOf[d]]) THEN cut \cup {idOf[d]} ELSE cut
          /\ UNCHANGED <<references, phase, browses>>
    BY DEF AddChildNodes, DescribeChildren, Answer
  <1> DEFINE all == references[idOf[d]]
             answer == SubSeq(all, 1, k)
  <1>2. k \in Nat
    BY BrowseAssumption
  <1>3. idOf[d] \in Nodes /\ all \in Seq(Nodes)
    BY DEF TypeOK, Descriptions
  <1> HIDE DEF all
  <1>4. /\ answer \in Seq(Nodes)
        /\ Len(answer) = k
        /\ \A i \in 1..k : answer[i] = all[i]
    <2>1. k <= Len(all)
      BY <1>1 DEF all
    <2> QED
      BY <1>2, <1>3, <2>1
  <1> QED
    BY <1>1, <1>4 DEF all

\* The descriptions made of an answer, and those there were.
LEMMA Grown ==
  ASSUME TypeOK, NEW d \in Descriptions, NEW answer \in Seq(Nodes),
         idOf' = idOf \o answer
  PROVE  /\ idOf' \in Seq(Nodes)
         /\ Descriptions' = 1..(Len(idOf) + Len(answer))
         /\ Descriptions \subseteq Descriptions'
         /\ \A e \in Descriptions : idOf'[e] = idOf[e]
         /\ Made(answer) \in Seq(Descriptions')
         /\ Len(Made(answer)) = Len(answer)
         /\ \A i \in 1..Len(answer) : /\ Made(answer)[i] = Len(idOf) + i
                                      /\ idOf'[Made(answer)[i]] = answer[i]
         /\ \A e \in Descriptions' :
              e \in Descriptions \/ \E i \in 1..Len(answer) : e = Made(answer)[i]
  <1>1. idOf \in Seq(Nodes)
    BY DEF TypeOK
  <1>2. idOf' \in Seq(Nodes) /\ Len(idOf') = Len(idOf) + Len(answer)
    BY <1>1
  <1>3. Descriptions = 1..Len(idOf) /\ Descriptions' = 1..(Len(idOf) + Len(answer))
    BY <1>1, <1>2 DEF Descriptions
  <1>4. \A e \in Descriptions : idOf'[e] = idOf[e]
    BY <1>1, <1>3
  <1>5. \A i \in 1..Len(answer) : idOf'[Len(idOf) + i] = answer[i]
    BY <1>1
  <1>6. Made(answer) \in Seq(Descriptions') /\ Len(Made(answer)) = Len(answer)
    <2>1. Made(answer) \in [1..Len(answer) -> Descriptions']
      BY <1>1, <1>3 DEF Made
    <2> QED
      BY <2>1
  <1>7. \A i \in 1..Len(answer) : /\ Made(answer)[i] = Len(idOf) + i
                                  /\ idOf'[Made(answer)[i]] = answer[i]
    <2>1. DOMAIN answer = 1..Len(answer)
      OBVIOUS
    <2>2. \A i \in 1..Len(answer) : Made(answer)[i] = Len(idOf) + i
      BY <2>1 DEF Made
    <2> QED
      BY <1>5, <2>2
  <1>8. \A e \in Descriptions' :
          e \in Descriptions \/ \E i \in 1..Len(answer) : e = Made(answer)[i]
    <2> SUFFICES ASSUME NEW e \in Descriptions', e \notin Descriptions
                 PROVE  \E i \in 1..Len(answer) : e = Made(answer)[i]
      OBVIOUS
    <2>1. e - Len(idOf) \in 1..Len(answer) /\ e = Len(idOf) + (e - Len(idOf))
      BY <1>1, <1>3
    <2> QED
      BY <1>7, <2>1
  <1>9. Descriptions \subseteq Descriptions'
    BY <1>1, <1>3
  <1> QED
    BY <1>2, <1>3, <1>4, <1>6, <1>7, <1>8, <1>9

--------------------------------------------------------------------------------
LEMMA InitIInv == Init => IInv
  <1> SUFFICES ASSUME Init PROVE IInv
    OBVIOUS
  <1>1. Answers \subseteq Seq(Nodes)
    BY BrowseAssumption DEF Answers
  <1>2. references \in [Nodes -> Seq(Nodes)]
    BY <1>1 DEF Init
  <1>3. TypeOK
    BY <1>2, BrowseAssumption DEF Init, TypeOK, Descriptions
  <1> QED
    BY <1>3 DEF Init, IInv, Covered, Followed, Led, Begun, Known, Descriptions

\* The state in which there is no address space, whatever there was before.
LEMMA ForgottenIInv ==
  ASSUME IInv, Forgotten
  PROVE  IInv'
  <1>1. TypeOK'
    BY DEF IInv, Forgotten, TypeOK, Descriptions
  <1> QED
    BY <1>1 DEF IInv, Forgotten, Covered, Followed, Led, Begun, Known, Descriptions

LEMMA BrowseIInv ==
  ASSUME IInv, BrowseAddressspace
  PROVE  IInv'
  <1>1. Descriptions' = {1} /\ idOf'[1] = Root
    BY DEF BrowseAddressspace, Descriptions
  <1>2. TypeOK'
    <2>1. children' \in [Descriptions' -> Seq(Descriptions')]
      <3>1. <<>> \in Seq(Descriptions')
        OBVIOUS
      <3>2. children' = [e \in {1} |-> <<>>]
        BY DEF BrowseAddressspace
      <3> QED
        BY <1>1, <3>1, <3>2
    <2>2. toVisit' \in Seq(Descriptions')
      BY <1>1 DEF BrowseAddressspace
    <2> QED
      BY <2>1, <2>2, BrowseAssumption DEF IInv, TypeOK, BrowseAddressspace
  <1>3. Covered' /\ Followed' /\ Begun'
    BY <1>1 DEF BrowseAddressspace, Covered, Followed, Begun, Known
  <1>4. Led'
    BY <1>1 DEF BrowseAddressspace, Led, Known, Closed
  <1> QED
    BY <1>2, <1>3, <1>4 DEF IInv

LEMMA VisitAgainIInv ==
  ASSUME IInv, VisitAgain
  PROVE  IInv'
  <1>1. toVisit \in Seq(Descriptions) /\ toVisit # <<>> /\ toVisit' = Tail(toVisit)
    BY DEF IInv, TypeOK, VisitAgain, Visits
  <1>2. idOf[toVisit[1]] \in visited
    BY <1>1 DEF VisitAgain, Visits
  <1>3. TypeOK'
    BY <1>1 DEF IInv, TypeOK, VisitAgain, treeVars, Descriptions
  <1>4. Covered'
    <2> SUFFICES ASSUME NEW d \in Descriptions, idOf[d] \notin visited
                 PROVE  \E i \in DOMAIN toVisit' : idOf[toVisit'[i]] = idOf[d]
      BY DEF VisitAgain, treeVars, Covered, Descriptions
    <2>1. PICK i \in DOMAIN toVisit : idOf[toVisit[i]] = idOf[d]
      BY DEF IInv, Covered
    <2>2. i # 1
      BY <1>2, <2>1
    <2>3. i - 1 \in DOMAIN toVisit' /\ toVisit'[i - 1] = toVisit[i]
      BY <1>1, <2>1, <2>2
    <2> QED
      BY <2>1, <2>3
  <1>5. Followed' /\ Led' /\ Begun'
    BY DEF IInv, VisitAgain, Visits, treeVars, Followed, Led, Begun, Known, Closed, Descriptions
  <1> QED
    BY <1>3, <1>4, <1>5 DEF IInv

LEMMA AddChildNodesIInv ==
  ASSUME IInv, AddChildNodes
  PROVE  IInv'
  <1>1. PICK d \in Descriptions, answer \in Seq(Nodes) :
           /\ Visits(d)
           /\ idOf[d] \notin visited
           /\ Len(answer) <= Len(references[idOf[d]])
           /\ \A i \in 1..Len(answer) : answer[i] = references[idOf[d]][i]
           /\ visited' = visited \cup {idOf[d]}
           /\ idOf' = idOf \o answer
           /\ children' = Below(d, answer)
           /\ toVisit' = Made(answer) \o Tail(toVisit)
           /\ cut' = IF Len(answer) < Len(references[idOf[d]]) THEN cut \cup {idOf[d]} ELSE cut
           /\ UNCHANGED <<references, phase, browses>>
    BY Answered DEF IInv
  <1>2. /\ idOf' \in Seq(Nodes)
        /\ Descriptions' = 1..(Len(idOf) + Len(answer))
        /\ Descriptions \subseteq Descriptions'
        /\ \A e \in Descriptions : idOf'[e] = idOf[e]
        /\ Made(answer) \in Seq(Descriptions')
        /\ Len(Made(answer)) = Len(answer)
        /\ \A i \in 1..Len(answer) : /\ Made(answer)[i] = Len(idOf) + i
                                     /\ idOf'[Made(answer)[i]] = answer[i]
        /\ \A e \in Descriptions' :
             e \in Descriptions \/ \E i \in 1..Len(answer) : e = Made(answer)[i]
    BY <1>1, Grown DEF IInv
  <1>3. /\ toVisit \in Seq(Descriptions) /\ toVisit # <<>> /\ d = toVisit[1]
        /\ references \in [Nodes -> Seq(Nodes)] /\ idOf \in Seq(Nodes)
        /\ idOf[d] \in Nodes /\ references[idOf[d]] \in Seq(Nodes)
    <2>1. toVisit \in Seq(Descriptions) /\ toVisit # <<>> /\ d = toVisit[1]
      BY <1>1 DEF IInv, TypeOK, Visits
    <2>2. references \in [Nodes -> Seq(Nodes)] /\ idOf \in Seq(Nodes)
      BY DEF IInv, TypeOK
    <2>3. idOf[d] \in Nodes
      BY <2>2 DEF Descriptions
    <2> QED
      BY <2>1, <2>2, <2>3
  <1>4. Tail(toVisit) \in Seq(Descriptions')
    BY <1>2, <1>3, SeqGrows
  <1>5. Known' = Known \cup {answer[i] : i \in 1..Len(answer)}
    <2>1. Known' = {idOf'[e] : e \in Descriptions'}
      BY DEF Known
    <2>2. ASSUME NEW e \in Descriptions'
          PROVE  idOf'[e] \in Known \cup {answer[i] : i \in 1..Len(answer)}
      <3>1. CASE e \in Descriptions
        BY <1>2, <3>1 DEF Known
      <3>2. CASE \E i \in 1..Len(answer) : e = Made(answer)[i]
        BY <1>2, <3>2
      <3> QED
        BY <1>2, <3>1, <3>2
    <2>3. Known \subseteq Known'
      BY <1>2, <2>1 DEF Known
    <2>4. \A i \in 1..Len(answer) : Made(answer)[i] \in Descriptions'
      BY <1>2
    <2>5. \A i \in 1..Len(answer) : answer[i] \in Known'
      BY <1>2, <2>1, <2>4
    <2> QED
      BY <2>1, <2>2, <2>3, <2>5
  <1>6. TypeOK'
    <2>1. children' \in [Descriptions' -> Seq(Descriptions')]
      <3>1. ASSUME NEW e \in Descriptions
            PROVE  children[e] \in Seq(Descriptions')
        <4>1. children[e] \in Seq(Descriptions)
          BY DEF IInv, TypeOK
        <4>2. Descriptions \subseteq Descriptions'
          BY <1>2
        <4> QED
          BY <4>1, <4>2, SeqGrows
      <3>2. <<>> \in Seq(Descriptions')
        OBVIOUS
      <3>3. children' = [e \in Descriptions' |->
                           IF e = d THEN Made(answer)
                                    ELSE IF e \in Descriptions THEN children[e] ELSE <<>>]
        BY <1>1, <1>2 DEF Below
      <3> QED
        BY <1>2, <3>1, <3>2, <3>3
    <2>2. toVisit' \in Seq(Descriptions')
      BY <1>1, <1>2, <1>4
    <2> QED
      BY <1>1, <1>2, <1>3, <2>1, <2>2 DEF IInv, TypeOK
  <1>7. Covered'
    <2> SUFFICES ASSUME NEW e \in Descriptions', idOf'[e] \notin visited'
                 PROVE  \E i \in DOMAIN toVisit' : idOf'[toVisit'[i]] = idOf'[e]
      BY DEF Covered
    <2>1. CASE \E i \in 1..Len(answer) : e = Made(answer)[i]
      <3>1. PICK i \in 1..Len(answer) : e = Made(answer)[i]
        BY <2>1
      <3>2. i \in DOMAIN toVisit' /\ toVisit'[i] = Made(answer)[i]
        BY <1>1, <1>2, <1>4, <3>1
      <3> QED
        BY <3>1, <3>2
    <2>2. CASE e \in Descriptions
      <3>1. PICK i \in DOMAIN toVisit : idOf[toVisit[i]] = idOf[e]
        BY <1>1, <1>2, <2>2 DEF IInv, Covered
      <3>2. i # 1
        BY <1>1, <1>2, <1>3, <2>2, <3>1
      <3>3. i \in 1..Len(toVisit) /\ toVisit[i] \in Descriptions
        BY <1>3, <3>1
      <3>4. i - 1 \in 1..Len(Tail(toVisit)) /\ Tail(toVisit)[i - 1] = toVisit[i]
        BY <1>3, <3>2, <3>3
      <3>5. /\ Len(answer) + (i - 1) \in DOMAIN toVisit'
            /\ toVisit'[Len(answer) + (i - 1)] = Tail(toVisit)[i - 1]
        <4> DEFINE j == i - 1
        <4>1. j \in 1..Len(Tail(toVisit))
          BY <3>4
        <4> HIDE DEF j
        <4>2. /\ Len(Made(answer)) + j \in DOMAIN (Made(answer) \o Tail(toVisit))
              /\ (Made(answer) \o Tail(toVisit))[Len(Made(answer)) + j] = Tail(toVisit)[j]
          <5>1. Made(answer) \in Seq(Descriptions')
            BY <1>2
          <5> QED
            BY <1>4, <4>1, <5>1, Second
        <4>3. /\ Len(answer) + j \in DOMAIN toVisit'
              /\ toVisit'[Len(answer) + j] = Tail(toVisit)[j]
          BY <1>1, <1>2, <4>2
        <4> QED
          BY <4>3 DEF j
      <3>6. idOf'[toVisit[i]] = idOf[toVisit[i]] /\ idOf'[e] = idOf[e]
        BY <1>2, <2>2, <3>3
      <3>7. idOf'[toVisit'[Len(answer) + (i - 1)]] = idOf'[e]
        BY <3>1, <3>4, <3>5, <3>6
      <3> QED
        BY <3>5, <3>7
    <2> QED
      BY <1>2, <2>1, <2>2
  <1>8. Followed'
    <2> SUFFICES ASSUME NEW n \in visited' \ cut', NEW i \in DOMAIN references[n]
                 PROVE  references[n][i] \in Known'
      BY <1>1 DEF Followed
    <2>1. CASE n \in visited
      <3>1. n \notin cut
        BY <1>1
      <3> QED
        BY <1>5, <2>1, <3>1 DEF IInv, Followed
    <2>2. CASE n = idOf[d]
      <3>1. Len(answer) = Len(references[n])
        BY <1>1, <1>3, <2>2
      <3>2. i \in 1..Len(answer)
        BY <1>3, <2>2, <3>1
      <3> QED
        BY <1>1, <1>5, <2>2, <3>2
    <2> QED
      BY <1>1, <2>1, <2>2
  <1>9. Led'
    <2> SUFFICES ASSUME NEW S \in SUBSET Nodes, Closed(S, {})
                 PROVE  Known' \subseteq S
      BY <1>1 DEF Led, Closed
    <2>1. Known \subseteq S
      BY DEF IInv, Led
    <2>2. idOf[d] \in S
      BY <2>1 DEF Known
    <2>3. \A i \in DOMAIN references[idOf[d]] : references[idOf[d]][i] \in S
      BY <2>2 DEF Closed
    <2>4. \A i \in 1..Len(answer) : i \in DOMAIN references[idOf[d]]
      BY <1>1, <1>3
    <2>5. \A i \in 1..Len(answer) : answer[i] \in S
      BY <1>1, <2>3, <2>4
    <2> QED
      BY <1>5, <2>1, <2>5
  <1>10. Begun'
    BY <1>1, <1>5 DEF IInv, Begun, Visits
  <1> QED
    BY <1>6, <1>7, <1>8, <1>9, <1>10 DEF IInv

\* Steps that change neither the tree nor the search.
LEMMA SearchUnchanged ==
  ASSUME IInv, UNCHANGED <<references, idOf, children, toVisit, visited, cut>>,
         TypeOK', Begun'
  PROVE  IInv'
  <1>1. Descriptions' = Descriptions /\ Known' = Known
    BY DEF Descriptions, Known
  <1>2. Covered'
    BY <1>1 DEF IInv, Covered
  <1>3. Followed' /\ Led'
    BY <1>1 DEF IInv, Followed, Led, Closed
  <1> QED
    BY <1>2, <1>3 DEF IInv

LEMMA StepIInv == IInv /\ [Next]_vars => IInv'
  <1> SUFFICES ASSUME IInv, [Next]_vars PROVE IInv'
    OBVIOUS
  <1>1. CASE BrowseEnds
    <2>1. UNCHANGED <<references, idOf, children, toVisit, visited, cut>>
      BY <1>1 DEF BrowseEnds, treeVars, searchVars
    <2>2. TypeOK'
      BY <1>1, <2>1 DEF BrowseEnds, IInv, TypeOK, Descriptions
    <2>3. Begun'
      BY <1>1, <2>1 DEF BrowseEnds, IInv, Begun, Known, Descriptions
    <2> QED
      BY <2>1, <2>2, <2>3, SearchUnchanged
  <1>2. CASE BrowseThrows \/ DropChannel
    BY <1>2, ForgottenIInv DEF BrowseThrows, DropChannel
  <1>3. CASE UNCHANGED vars
    <2>1. UNCHANGED <<references, phase, browses, idOf, children, toVisit, visited, cut>>
      BY <1>3 DEF vars, treeVars, searchVars
    <2>2. TypeOK'
      BY <2>1 DEF IInv, TypeOK, Descriptions
    <2>3. Begun'
      BY <2>1 DEF IInv, Begun, Known, Descriptions
    <2> QED
      BY <2>1, <2>2, <2>3, SearchUnchanged
  <1> QED
    BY <1>1, <1>2, <1>3, BrowseIInv, VisitAgainIInv, AddChildNodesIInv DEF Next, Browse

THEOREM Invariance == Spec => []IInv
  BY InitIInv, StepIInv, PTL DEF Spec

\* The state of a browse has its type, whatever the server answers.
THEOREM TypeCorrect == Spec => []TypeOK
  <1>1. IInv => TypeOK
    BY DEF IInv
  <1> QED
    BY <1>1, Invariance, PTL

\* A known address space has the nodes that can be reached from the root over the
\* references that arrived, and no others.
THEOREM ReachableIsKnown == Spec => []KnownIsReachable
  <1>1. IInv => KnownIsReachable
    <2> SUFFICES ASSUME IInv, phase = "known" PROVE Closed(Known, cut)
      BY DEF IInv, Led, KnownIsReachable
    <2>1. toVisit = <<>> /\ Root \in Known
      BY DEF IInv, Begun
    <2>2. Known \subseteq visited
      BY <2>1 DEF IInv, Covered, Known
    <2> QED
      BY <2>1, <2>2 DEF IInv, Followed, Closed
  <1> QED
    BY <1>1, Invariance, PTL

--------------------------------------------------------------------------------
(* Which of the descriptions of a node findNodeById finds.                  *)

\* Every set of naturals has a least element.
LEMMA Least ==
  ASSUME NEW S \in SUBSET Nat, S # {}
  PROVE  \E i \in S : \A j \in S : i <= j
  <1>1. IsWellFoundedOn(OpToRel(<, Nat), Nat)
    BY NatLessThanWellFounded
  <1>2. \E i \in S : \A j \in S : <<j, i>> \notin OpToRel(<, Nat)
    BY <1>1, WFMin
  <1>3. \A i, j \in S : <<j, i>> \notin OpToRel(<, Nat) => i <= j
    BY DEF OpToRel
  <1> QED
    BY <1>2, <1>3

LEMMA FirstIsLeast ==
  ASSUME NEW S \in SUBSET Nat, S # {}
  PROVE  First(S) \in S /\ \A j \in S : First(S) <= j
  BY Least DEF First

\* What findNodeById computes for description d, given what it computes for the others.
FoundAt(found, id, d) ==
  LET hits == {i \in DOMAIN children[d] : found[children[d][i]] # None}
  IN  IF idOf[d] = id THEN d
      ELSE IF hits = {} THEN None ELSE found[children[d][First(hits)]]

\* Descriptions are below those made before them.
MadeBelow == \A d \in Descriptions : \A i \in DOMAIN children[d] : d < children[d][i]

\* The recursion of findNodeById ends, so its equation has a solution.
LEMMA FindInEnds ==
  ASSUME TypeOK, MadeBelow, NEW id
  PROVE  \A d \in Descriptions : FindIn(id)[d] = FoundAt(FindIn(id), id, d)
  <1> DEFINE n == Len(idOf)
             Solved(k) == \E f : f = [d \in (n + 1 - k)..n |-> FoundAt(f, id, d)]
             Unsolved == {k \in 0..n : ~Solved(k)}
  <1>1. n \in Nat /\ Descriptions = 1..n
    BY DEF TypeOK, Descriptions
  <1>2. \A d \in Descriptions : \A i \in DOMAIN children[d] :
          children[d][i] \in Descriptions /\ d < children[d][i]
    BY DEF TypeOK, MadeBelow
  <1> HIDE DEF n
  <1>3. Solved(0)
    <2>1. (n + 1 - 0)..n = {}
      BY <1>1
    <2>2. \A f : [d \in {} |-> FoundAt(f, id, d)] = [d \in {} |-> 0]
      OBVIOUS
    <2> QED
      BY <2>1, <2>2
  <1>4. ASSUME NEW k \in 0..n, k # 0, Solved(k - 1)
        PROVE  Solved(k)
    <2> DEFINE first == n + 1 - k
    <2>1. PICK f : f = [d \in (n + 1 - (k - 1))..n |-> FoundAt(f, id, d)]
      BY <1>4
    <2> DEFINE g == [d \in first..n |-> IF d = first THEN FoundAt(f, id, first) ELSE f[d]]
    <2>2. \A d \in first..n : d \in Descriptions /\ (d # first => d \in (n + 1 - (k - 1))..n)
      BY <1>1
    <2>3. \A d \in first..n : \A i \in DOMAIN children[d] :
            children[d][i] \in first..n /\ children[d][i] # first
      BY <1>1, <1>2, <2>2
    <2>4. \A d \in first..n : \A i \in DOMAIN children[d] : g[children[d][i]] = f[children[d][i]]
      BY <2>3
    <2> HIDE DEF g
    <2>5. ASSUME NEW d \in first..n
          PROVE  FoundAt(g, id, d) = FoundAt(f, id, d)
      <3> DEFINE Hits(found) == {i \in DOMAIN children[d] : found[children[d][i]] # None}
      <3>1. Hits(g) = Hits(f)
        BY <2>4
      <3>2. CASE Hits(f) = {}
        BY <3>1, <3>2 DEF FoundAt
      <3>3. CASE Hits(f) # {}
        <4>1. Hits(f) \in SUBSET Nat
          BY <2>2 DEF TypeOK
        <4>2. First(Hits(f)) \in Hits(f)
          BY <3>3, <4>1, FirstIsLeast
        <4>3. g[children[d][First(Hits(f))]] = f[children[d][First(Hits(f))]]
          BY <2>4, <4>2
        <4> QED
          BY <3>1, <4>3 DEF FoundAt
      <3> QED
        BY <3>2, <3>3
    <2>6. \A d \in first..n : g[d] = FoundAt(g, id, d)
      <3>1. \A d \in first..n : d # first => f[d] = FoundAt(f, id, d)
        BY <2>1, <2>2
      <3>2. \A d \in first..n : g[d] = IF d = first THEN FoundAt(f, id, first) ELSE f[d]
        BY DEF g
      <3> HIDE DEF first
      <3> QED
        BY <2>5, <3>1, <3>2
    <2>7. g = [d \in first..n |-> g[d]]
      BY DEF g
    <2>8. g = [d \in first..n |-> FoundAt(g, id, d)]
      BY <2>6, <2>7
    <2> QED
      BY <2>8
  <1>5. Solved(n)
    <2> HIDE DEF Solved
    <2>1. SUFFICES ASSUME ~Solved(n) PROVE FALSE
      OBVIOUS
    <2>2. Unsolved \in SUBSET Nat /\ Unsolved # {}
      BY <1>1, <2>1
    <2>3. PICK k \in Unsolved : \A j \in Unsolved : k <= j
      BY <2>2, Least
    <2>4. k # 0 /\ k - 1 \in 0..n /\ k - 1 \notin Unsolved
      BY <1>1, <1>3, <2>3
    <2> QED
      BY <1>4, <2>3, <2>4
  <1>6. PICK f : f = [d \in Descriptions |-> FoundAt(f, id, d)]
    BY <1>1, <1>5
  <1>7. FindIn(id) = [d \in Descriptions |-> FoundAt(FindIn(id), id, d)]
    <2>1. FindIn(id) = CHOOSE h : h = [d \in Descriptions |-> FoundAt(h, id, d)]
      BY DEF FindIn, FoundAt
    <2> QED
      BY <1>6, <2>1
  <1> QED
    BY <1>7

\* A walk of the tree that goes from a description to those below it, child after child,
\* meets description d at place pos[d], and has met all below d at place end[d].
Nested(pos, end) ==
  \A d \in Descriptions :
    /\ pos[d] < end[d]
    /\ \A i \in DOMAIN children[d] : pos[d] < pos[children[d][i]] /\ end[children[d][i]] <= end[d]
    /\ \A i, j \in DOMAIN children[d] : i < j => end[children[d][i]] <= pos[children[d][j]]

Within(pos, end, d, e) == pos[d] <= pos[e] /\ pos[e] < end[d]

\* What lies within d and is not d lies within a child of d, and all lies within the root.
Filled(pos, end) ==
  /\ \A d, e \in Descriptions : Within(pos, end, d, e) =>
       pos[d] = pos[e] \/ \E i \in DOMAIN children[d] : Within(pos, end, children[d][i], e)
  /\ \A e \in Descriptions : Within(pos, end, 1, e)

OnePlaceEach(pos) == \A d, e \in Descriptions : pos[d] = pos[e] => d = e

Walk(pos, end) == Nested(pos, end) /\ Filled(pos, end) /\ OnePlaceEach(pos)

\* findNodeById finds the first description with the id that the walk meets.
Finds(pos, end, id, d) ==
  /\ FindIn(id)[d] = None => \A e \in Descriptions : Within(pos, end, d, e) => idOf[e] # id
  /\ FindIn(id)[d] # None =>
       /\ FindIn(id)[d] \in Descriptions
       /\ Within(pos, end, d, FindIn(id)[d])
       /\ idOf[FindIn(id)[d]] = id
       /\ \A e \in Descriptions : Within(pos, end, d, e) /\ idOf[e] = id => pos[FindIn(id)[d]] <= pos[e]

LEMMA FindsFirst ==
  ASSUME TypeOK, MadeBelow, NEW pos \in [Descriptions -> Nat], NEW end \in [Descriptions -> Nat],
         Walk(pos, end), NEW id
  PROVE  \A d \in Descriptions : Finds(pos, end, id, d)
  <1> DEFINE n == Len(idOf)
             found == FindIn(id)
             Wrong == {k \in 0..n : n - k \in Descriptions /\ ~Finds(pos, end, id, n - k)}
  <1>1. n \in Nat /\ Descriptions = 1..n
    BY DEF TypeOK, Descriptions
  <1>2. \A d \in Descriptions : \A i \in DOMAIN children[d] :
          children[d][i] \in Descriptions /\ d < children[d][i] /\ i \in Nat
    BY DEF TypeOK, MadeBelow
  <1>3. \A d \in Descriptions : found[d] = FoundAt(found, id, d)
    BY FindInEnds
  <1> HIDE DEF n, found
  <1>4. ASSUME NEW d \in Descriptions, \A i \in DOMAIN children[d] : Finds(pos, end, id, children[d][i])
        PROVE  Finds(pos, end, id, d)
    <2> DEFINE hits == {i \in DOMAIN children[d] : found[children[d][i]] # None}
    <2>1. pos[d] \in Nat /\ end[d] \in Nat /\ Within(pos, end, d, d)
      BY DEF Walk, Nested, Within
    <2>2. \A i \in DOMAIN children[d], e \in Descriptions :
            Within(pos, end, children[d][i], e) => Within(pos, end, d, e) /\ pos[d] < pos[e]
      BY <1>2, <2>1 DEF Walk, Nested, Within
    <2>3. \A e \in Descriptions : Within(pos, end, d, e) =>
            e = d \/ \E i \in DOMAIN children[d] : Within(pos, end, children[d][i], e)
      BY DEF Walk, Filled, OnePlaceEach
    <2>4. CASE idOf[d] = id
      <3>1. found[d] = d
        BY <1>3, <2>4 DEF FoundAt
      <3>2. d # None
        BY <1>1 DEF None
      <3> QED
        BY <2>1, <2>4, <3>1, <3>2 DEF Finds, found, Within
    <2>5. CASE idOf[d] # id /\ hits = {}
      <3>1. found[d] = None
        BY <1>3, <2>5 DEF FoundAt
      <3>2. \A i \in DOMAIN children[d], e \in Descriptions :
              Within(pos, end, children[d][i], e) => idOf[e] # id
        BY <1>4, <2>5 DEF Finds, found
      <3> QED
        BY <2>3, <2>5, <3>1, <3>2 DEF Finds, found
    <2>6. CASE idOf[d] # id /\ hits # {}
      <3> DEFINE i == First(hits)
                 c == children[d][i]
      <3>1. hits \in SUBSET Nat
        BY <1>2
      <3>2. i \in hits /\ \A j \in hits : i <= j
        BY <2>6, <3>1, FirstIsLeast
      <3>3. found[d] = found[c]
        BY <1>3, <2>6 DEF FoundAt
      <3> HIDE DEF i
      <3>4. /\ c \in Descriptions /\ found[c] # None /\ found[c] \in Descriptions
            /\ Within(pos, end, c, found[c]) /\ idOf[found[c]] = id
            /\ \A e \in Descriptions : Within(pos, end, c, e) /\ idOf[e] = id => pos[found[c]] <= pos[e]
        BY <1>2, <1>4, <3>2 DEF Finds, found
      <3>5. Within(pos, end, d, found[c])
        BY <2>2, <3>2, <3>4
      <3>6. ASSUME NEW e \in Descriptions, Within(pos, end, d, e), idOf[e] = id
            PROVE  pos[found[c]] <= pos[e]
        <4>1. PICK j \in DOMAIN children[d] : Within(pos, end, children[d][j], e)
          BY <2>3, <2>6, <3>6
        <4>2. j \in hits
          BY <1>4, <3>6, <4>1 DEF Finds, found
        <4>3. CASE j = i
          BY <3>4, <3>6, <4>1, <4>3
        <4>4. CASE j # i
          <5>1. i < j
            <6>1. i <= j /\ i \in DOMAIN children[d]
              BY <3>2, <4>2
            <6>2. i \in Nat /\ j \in Nat
              BY <1>2, <4>1, <6>1
            <6> QED
              BY <4>4, <6>1, <6>2
          <5>2. end[c] <= pos[children[d][j]]
            BY <3>2, <4>2, <5>1 DEF Walk, Nested
          <5>3. pos[found[c]] < end[c] /\ pos[children[d][j]] <= pos[e]
            BY <3>4, <4>1 DEF Within
          <5>4. /\ pos[found[c]] \in Nat /\ end[c] \in Nat
                /\ pos[children[d][j]] \in Nat /\ pos[e] \in Nat
            BY <1>2, <3>4
          <5> QED
            BY <5>2, <5>3, <5>4
        <4> QED
          BY <4>3, <4>4
      <3> QED
        BY <3>3, <3>4, <3>5, <3>6 DEF Finds, found
    <2> QED
      BY <2>4, <2>5, <2>6
  <1> HIDE DEF Wrong
  <1>5. CASE Wrong = {}
    <2> SUFFICES ASSUME NEW d \in Descriptions PROVE Finds(pos, end, id, d)
      OBVIOUS
    <2>1. n - d \in 0..n /\ n - (n - d) = d
      BY <1>1
    <2> QED
      BY <1>5, <2>1 DEF Wrong
  <1>6. CASE Wrong # {}
    <2>1. PICK k \in Wrong : \A j \in Wrong : k <= j
      <3>1. Wrong \in SUBSET Nat
        BY <1>1 DEF Wrong
      <3> QED
        BY <1>6, <3>1, Least
    <2>2. k \in 0..n /\ n - k \in Descriptions /\ ~Finds(pos, end, id, n - k)
      BY <2>1 DEF Wrong
    <2>3. ASSUME NEW i \in DOMAIN children[n - k]
          PROVE  Finds(pos, end, id, children[n - k][i])
      <3> DEFINE c == children[n - k][i]
      <3>1. c \in Descriptions /\ n - k < c
        BY <1>2, <2>2
      <3> HIDE DEF c
      <3>2. n - c \in 0..n /\ n - c < k /\ n - (n - c) = c
        BY <1>1, <2>2, <3>1
      <3>3. n - c \notin Wrong
        <4>1. \A j \in Wrong : ~(j < k)
          BY <1>1, <2>1 DEF Wrong
        <4> QED
          BY <3>2, <4>1
      <3>4. Finds(pos, end, id, c)
        BY <3>1, <3>2, <3>3 DEF Wrong
      <3> QED
        BY <3>4 DEF c
    <2> QED
      BY <1>4, <2>2, <2>3
  <1> QED
    BY <1>5, <1>6

\* What is still to be visited comes later in the walk, in that order, and has no children
\* yet; the walk met the rest before, and visited its nodes.
Searching(pos) ==
  /\ \A i, j \in DOMAIN toVisit : i < j => pos[toVisit[i]] < pos[toVisit[j]]
  /\ \A d \in Descriptions :
       \/ \E i \in DOMAIN toVisit : toVisit[i] = d
       \/ idOf[d] \in visited /\ \A i \in DOMAIN toVisit : pos[d] < pos[toVisit[i]]
  /\ \A i \in DOMAIN toVisit : children[toVisit[i]] = <<>>

\* Of the descriptions of a node only the first one has children.
FirstHas(pos) ==
  \A d, e \in Descriptions : children[d] # <<>> /\ idOf[d] = idOf[e] => pos[d] <= pos[e]

Walked(pos, end) == Walk(pos, end) /\ Searching(pos) /\ FirstHas(pos)

OrderIInv ==
  /\ MadeBelow
  /\ \E pos, end \in [Descriptions -> Nat] : Walked(pos, end)

\* No address space: nothing is walked.
LEMMA NoOrder == idOf = <<>> /\ toVisit = <<>> => OrderIInv
  <1> SUFFICES ASSUME idOf = <<>>, toVisit = <<>> PROVE OrderIInv
    OBVIOUS
  <1>1. Descriptions = {} /\ DOMAIN toVisit = {}
    BY DEF Descriptions
  <1>2. [d \in {} |-> 0] \in [Descriptions -> Nat]
    BY <1>1
  <1>3. Walked([d \in {} |-> 0], [d \in {} |-> 0])
    BY <1>1 DEF Walked, Walk, Nested, Filled, OnePlaceEach, Searching, FirstHas
  <1> QED
    BY <1>1, <1>2, <1>3 DEF OrderIInv, MadeBelow

\* A root alone, which is to be visited.
LEMMA RootOrder == ASSUME BrowseAddressspace PROVE OrderIInv'
  <1>1. Descriptions' = {1} /\ children'[1] = <<>> /\ toVisit' = <<1>>
    BY DEF BrowseAddressspace, Descriptions
  <1> DEFINE pos == [d \in {1} |-> 1]
             end == [d \in {1} |-> 2]
  <1>2. pos \in [Descriptions' -> Nat] /\ end \in [Descriptions' -> Nat] /\ pos[1] = 1 /\ end[1] = 2
    BY <1>1
  <1>3. DOMAIN children'[1] = {} /\ DOMAIN toVisit' = {1} /\ toVisit'[1] = 1
    BY <1>1
  <1> HIDE DEF pos, end
  <1>4. MadeBelow'
    BY <1>1, <1>3 DEF MadeBelow
  <1>5. Walk(pos, end)'
    BY <1>1, <1>2, <1>3 DEF Walk, Nested, Filled, OnePlaceEach, Within
  <1>6. Searching(pos)' /\ FirstHas(pos)'
    BY <1>1, <1>2, <1>3 DEF Searching, FirstHas
  <1> QED
    BY <1>2, <1>4, <1>5, <1>6 DEF OrderIInv, Walked

LEMMA VisitAgainOrder == ASSUME IInv, OrderIInv, VisitAgain PROVE OrderIInv'
  <1>1. /\ toVisit \in Seq(Descriptions) /\ toVisit # <<>> /\ toVisit' = Tail(toVisit)
        /\ idOf[toVisit[1]] \in visited
        /\ UNCHANGED <<idOf, children, visited>>
    BY DEF IInv, TypeOK, VisitAgain, Visits, treeVars
  <1>2. Descriptions' = Descriptions
    BY <1>1 DEF Descriptions
  <1>3. PICK pos, end \in [Descriptions -> Nat] : Walked(pos, end)
    BY DEF OrderIInv
  <1>4. Walk(pos, end)' /\ FirstHas(pos)' /\ MadeBelow'
    BY <1>1, <1>2, <1>3
       DEF OrderIInv, MadeBelow, Walked, Walk, Nested, Filled, OnePlaceEach, Within, FirstHas
  <1>5. Searching(pos)'
    <2>1. \A i \in DOMAIN toVisit' :
            i + 1 \in DOMAIN toVisit /\ toVisit'[i] = toVisit[i + 1] /\ i \in 1..Len(toVisit)
      BY <1>1
    <2>2. \A i \in DOMAIN toVisit : i # 1 => i - 1 \in DOMAIN toVisit' /\ toVisit'[i - 1] = toVisit[i]
      BY <1>1
    <2>3. \A i \in DOMAIN toVisit' : pos[toVisit[1]] < pos[toVisit'[i]]
      <3>1. \A i \in DOMAIN toVisit' : 1 < i + 1 /\ 1 \in DOMAIN toVisit
        BY <1>1, <2>1
      <3> QED
        BY <1>3, <2>1, <3>1 DEF Walked, Searching
    <2>4. \A i, j \in DOMAIN toVisit' : i < j => pos[toVisit'[i]] < pos[toVisit'[j]]
      <3>1. \A i, j \in DOMAIN toVisit' : i < j => i + 1 < j + 1
        BY <2>1
      <3> QED
        BY <1>3, <2>1, <3>1 DEF Walked, Searching
    <2>5. \A i \in DOMAIN toVisit' : children'[toVisit'[i]] = <<>>
      BY <1>1, <1>3, <2>1 DEF Walked, Searching
    <2>6. ASSUME NEW d \in Descriptions
          PROVE  \/ \E i \in DOMAIN toVisit' : toVisit'[i] = d
                 \/ idOf[d] \in visited /\ \A i \in DOMAIN toVisit' : pos[d] < pos[toVisit'[i]]
      <3>1. CASE \E i \in DOMAIN toVisit : toVisit[i] = d
        BY <1>1, <2>2, <2>3, <3>1
      <3>2. CASE idOf[d] \in visited /\ \A i \in DOMAIN toVisit : pos[d] < pos[toVisit[i]]
        BY <2>1, <3>2
      <3> QED
        BY <1>3, <3>1, <3>2 DEF Walked, Searching
    <2> QED
      BY <1>1, <1>2, <2>4, <2>5, <2>6 DEF Searching
  <1> QED
    BY <1>2, <1>3, <1>4, <1>5 DEF OrderIInv, Walked

\* The children of a visited description take their places in the walk right behind it,
\* and move what the walk meets later.
Moved(p, m, place) == IF place <= p THEN place ELSE place + m

LEMMA Moving ==
  ASSUME NEW p \in Nat, NEW m \in Nat
  PROVE  /\ \A a \in Nat : /\ Moved(p, m, a) \in Nat
                           /\ a <= p => Moved(p, m, a) = a
                           /\ p < a => Moved(p, m, a) = a + m
         /\ \A a, b \in Nat : /\ a < b <=> Moved(p, m, a) < Moved(p, m, b)
                              /\ a <= b <=> Moved(p, m, a) <= Moved(p, m, b)
                              /\ a = b <=> Moved(p, m, a) = Moved(p, m, b)
  BY DEF Moved

\* In all, next comes in place of the first element of todo.
PutFirst(next, todo, all) ==
  /\ \A i \in DOMAIN all :
       \/ i \in 1..Len(next) /\ all[i] = next[i]
       \/ \E k \in DOMAIN todo : k # 1 /\ i = Len(next) + k - 1 /\ all[i] = todo[k]
  /\ \A i \in 1..Len(next) : i \in DOMAIN all /\ all[i] = next[i]
  /\ \A k \in DOMAIN todo : k # 1 =>
       Len(next) + k - 1 \in DOMAIN all /\ all[Len(next) + k - 1] = todo[k]

LEMMA AnsweredFirst ==
  ASSUME NEW S, NEW next \in Seq(S), NEW todo \in Seq(S), todo # <<>>
  PROVE  PutFirst(next, todo, next \o Tail(todo))
  <1>1. PICK m, all : m = Len(next) /\ all = next \o Tail(todo)
    OBVIOUS
  <1> DEFINE rest == Tail(todo)
  <1>2. /\ rest \in Seq(S) /\ Len(rest) = Len(todo) - 1 /\ DOMAIN todo = 1..Len(todo) /\ Len(todo) \in Nat
        /\ \A k \in 1..Len(rest) : rest[k] = todo[k + 1]
    OBVIOUS
  <1> HIDE DEF rest
  <1>3. /\ DOMAIN all = 1..(m + Len(rest)) /\ m \in Nat /\ Len(rest) \in Nat
        /\ \A i \in 1..m : all[i] = next[i]
        /\ \A k \in 1..Len(rest) : all[m + k] = rest[k]
    BY <1>1, <1>2 DEF rest
  <1>4. ASSUME NEW k \in DOMAIN todo, k # 1
        PROVE  m + k - 1 \in DOMAIN all /\ all[m + k - 1] = todo[k]
    <2>1. PICK j : j = k - 1
      OBVIOUS
    <2>2. j \in 1..Len(rest) /\ k = j + 1 /\ m + k - 1 = m + j
      BY <1>2, <1>3, <1>4, <2>1
    <2> QED
      BY <1>2, <1>3, <2>2
  <1>5. ASSUME NEW i \in DOMAIN all, i \notin 1..m
        PROVE  \E k \in DOMAIN todo : k # 1 /\ i = m + k - 1 /\ all[i] = todo[k]
    <2>1. PICK k : k = i - m + 1
      OBVIOUS
    <2>2. k \in DOMAIN todo /\ k # 1 /\ i = m + k - 1
      BY <1>2, <1>3, <1>5, <2>1
    <2> QED
      BY <1>4, <2>2
  <1>6. ASSUME NEW i \in DOMAIN all
        PROVE  \/ i \in 1..m /\ all[i] = next[i]
               \/ \E k \in DOMAIN todo : k # 1 /\ i = m + k - 1 /\ all[i] = todo[k]
    <2>1. CASE i \in 1..m
      BY <1>3, <2>1
    <2>2. CASE i \notin 1..m
      BY <1>5, <2>2
    <2> QED
      BY <2>1, <2>2
  <1>7. \A i \in 1..m : i \in DOMAIN all /\ all[i] = next[i]
    <2>1. \A i \in 1..m : i \in DOMAIN all
      BY <1>3
    <2> QED
      BY <1>3, <2>1
  <1>8. \A k \in DOMAIN todo : k # 1 => m + k - 1 \in DOMAIN all /\ all[m + k - 1] = todo[k]
    BY <1>4
  <1> QED
    BY <1>1, <1>6, <1>7, <1>8 DEF PutFirst

LEMMA AddChildNodesOrder == ASSUME IInv, OrderIInv, AddChildNodes PROVE OrderIInv'
  <1>1. PICK d \in Descriptions, answer \in Seq(Nodes) :
           /\ Visits(d)
           /\ idOf[d] \notin visited
           /\ visited' = visited \cup {idOf[d]}
           /\ idOf' = idOf \o answer
           /\ children' = Below(d, answer)
           /\ toVisit' = Made(answer) \o Tail(toVisit)
    BY Answered DEF IInv
  <1>2. PICK n \in Nat, m \in Nat : n = Len(idOf) /\ m = Len(answer)
    BY DEF IInv, TypeOK
  <1>3. /\ Descriptions = 1..n /\ Descriptions' = 1..(n + m)
        /\ \A e \in Descriptions : idOf'[e] = idOf[e]
        /\ Made(answer) \in Seq(Descriptions') /\ Len(Made(answer)) = m
        /\ \A i \in 1..m : Made(answer)[i] = n + i
    <2>1. idOf \in Seq(Nodes)
      BY DEF IInv, TypeOK
    <2>2. Descriptions = 1..n
      BY <1>2, <2>1 DEF Descriptions
    <2>3. TypeOK
      BY DEF IInv
    <2> QED
      BY <1>1, <1>2, <2>2, <2>3, Grown
  <1>4. Descriptions = 1..n /\ Descriptions' = 1..(n + m)
    BY <1>3
  <1>5. /\ toVisit \in Seq(Descriptions) /\ toVisit # <<>> /\ d = toVisit[1] /\ 1 \in DOMAIN toVisit
    BY <1>1 DEF IInv, TypeOK, Visits
  <1>6. /\ DOMAIN children'[d] = 1..m /\ \A i \in 1..m : children'[d][i] = n + i
        /\ \A e \in Descriptions : e # d => children'[e] = children[e]
        /\ \A e \in Descriptions' : e \notin Descriptions => children'[e] = <<>>
    <2>1. children' = [e \in 1..(n + m) |->
                         IF e = d THEN Made(answer) ELSE IF e \in Descriptions THEN children[e] ELSE <<>>]
      BY <1>1, <1>2 DEF Below
    <2>2. DOMAIN Made(answer) = 1..m /\ d \in 1..n
      BY <1>3
    <2> QED
      BY <1>3, <2>1, <2>2
  <1>7. PICK pos, end \in [Descriptions -> Nat] : Walked(pos, end)
    BY DEF OrderIInv
  <1>8. children[d] = <<>> /\ DOMAIN children[d] = {}
    BY <1>5, <1>7 DEF Walked, Searching
  <1>9. \A e \in Descriptions : \A i \in DOMAIN children[e] : children[e][i] \in Descriptions
    BY DEF IInv, TypeOK
  <1>10. PICK p \in Nat : p = pos[d] /\ p < end[d]
    BY <1>7 DEF Walked, Walk, Nested
  <1>11. PICK pos1, end1 :
           /\ pos1 = [e \in Descriptions' |-> IF e \in Descriptions THEN Moved(p, m, pos[e]) ELSE p + (e - n)]
           /\ end1 = [e \in Descriptions' |-> IF e \in Descriptions THEN Moved(p, m, end[e])
                                              ELSE p + (e - n) + 1]
    OBVIOUS
  <1>12. \A e \in Descriptions : pos1[e] = Moved(p, m, pos[e]) /\ end1[e] = Moved(p, m, end[e])
    BY <1>4, <1>11
  <1>13. \A i \in 1..m : n + i \in Descriptions' /\ pos1[n + i] = p + i /\ end1[n + i] = p + i + 1
    BY <1>4, <1>10, <1>11
  <1>14. \A e \in Descriptions' : e \in Descriptions \/ \E i \in 1..m : e = n + i
    <2> SUFFICES ASSUME NEW e \in Descriptions', e \notin Descriptions PROVE \E i \in 1..m : e = n + i
      OBVIOUS
    <2>1. e - n \in 1..m /\ e = n + (e - n)
      BY <1>4
    <2> QED
      BY <2>1
  <1>15. pos1 \in [Descriptions' -> Nat] /\ end1 \in [Descriptions' -> Nat]
    <2>1. \A e \in Descriptions : Moved(p, m, pos[e]) \in Nat /\ Moved(p, m, end[e]) \in Nat
      BY <1>4, <1>10, Moving
    <2>2. \A e \in Descriptions' : e \notin Descriptions => p + (e - n) \in Nat /\ p + (e - n) + 1 \in Nat
      BY <1>4, <1>10
    <2> QED
      BY <1>11, <2>1, <2>2
  <1>16. \A e, f \in Descriptions :
           /\ pos[e] < pos[f] <=> pos1[e] < pos1[f]
           /\ pos[e] <= pos[f] <=> pos1[e] <= pos1[f]
           /\ pos[e] = pos[f] <=> pos1[e] = pos1[f]
           /\ pos[e] < end[f] <=> pos1[e] < end1[f]
           /\ end[e] <= pos[f] <=> end1[e] <= pos1[f]
           /\ end[e] <= end[f] <=> end1[e] <= end1[f]
    <2> SUFFICES ASSUME NEW e \in Descriptions, NEW f \in Descriptions
                 PROVE  /\ pos[e] < pos[f] <=> pos1[e] < pos1[f]
                        /\ pos[e] <= pos[f] <=> pos1[e] <= pos1[f]
                        /\ pos[e] = pos[f] <=> pos1[e] = pos1[f]
                        /\ pos[e] < end[f] <=> pos1[e] < end1[f]
                        /\ end[e] <= pos[f] <=> end1[e] <= pos1[f]
                        /\ end[e] <= end[f] <=> end1[e] <= end1[f]
      OBVIOUS
    <2>1. pos[e] \in Nat /\ pos[f] \in Nat /\ end[e] \in Nat /\ end[f] \in Nat
      OBVIOUS
    <2>2. \A a, b \in Nat : /\ a < b <=> Moved(p, m, a) < Moved(p, m, b)
                            /\ a <= b <=> Moved(p, m, a) <= Moved(p, m, b)
                            /\ a = b <=> Moved(p, m, a) = Moved(p, m, b)
      BY Moving
    <2> QED
      BY <1>12, <2>1, <2>2
  <1>17. \A e \in Descriptions :
           /\ (pos[e] <= p /\ pos1[e] = pos[e]) \/ (p < pos[e] /\ pos1[e] = pos[e] + m)
           /\ (end[e] <= p /\ end1[e] = end[e]) \/ (p < end[e] /\ end1[e] = end[e] + m)
    <2>1. \A a \in Nat : (a <= p /\ Moved(p, m, a) = a) \/ (p < a /\ Moved(p, m, a) = a + m)
      BY DEF Moved
    <2>2. \A e \in Descriptions : pos[e] \in Nat /\ end[e] \in Nat
      OBVIOUS
    <2> QED
      BY <1>12, <2>1, <2>2
  <1>18. MadeBelow'
    <2> SUFFICES ASSUME NEW e \in Descriptions', NEW i \in DOMAIN children'[e] PROVE e < children'[e][i]
      BY DEF MadeBelow
    <2>1. CASE e \in Descriptions /\ e # d
      BY <1>6, <2>1 DEF OrderIInv, MadeBelow
    <2>2. CASE e = d
      BY <1>4, <1>6, <2>2
    <2>3. CASE e \notin Descriptions
      BY <1>6, <2>3
    <2> QED
      BY <2>1, <2>2, <2>3
  <1>19. Nested(pos1, end1)'
    <2> SUFFICES ASSUME NEW e \in Descriptions'
                 PROVE  /\ pos1[e] < end1[e]
                        /\ \A i \in DOMAIN children'[e] :
                             pos1[e] < pos1[children'[e][i]] /\ end1[children'[e][i]] <= end1[e]
                        /\ \A i, j \in DOMAIN children'[e] : i < j =>
                             end1[children'[e][i]] <= pos1[children'[e][j]]
      BY DEF Nested
    <2>1. CASE e \in Descriptions /\ e # d
      BY <1>6, <1>7, <1>9, <1>16, <2>1 DEF Walked, Walk, Nested
    <2>2. CASE e = d
      <3>1. pos1[d] = p /\ end1[d] = end[d] + m /\ end[d] \in Nat
        BY <1>10, <1>17
      <3> QED
        <4>1. \A i \in 1..m : pos1[children'[d][i]] = p + i /\ end1[children'[d][i]] = p + i + 1
          BY <1>6, <1>13
        <4>2. p < end[d]
          BY <1>10
        <4> QED
          <5>1. \A i \in 1..m : p < p + i /\ p + i + 1 <= end[d] + m
            BY <3>1, <4>2
          <5>2. \A i, j \in 1..m : i < j => p + i + 1 <= p + j
            OBVIOUS
          <5>3. p < end[d] + m
            BY <3>1, <4>2
          <5>4. \A i \in DOMAIN children'[d] :
                  pos1[d] < pos1[children'[d][i]] /\ end1[children'[d][i]] <= end1[d]
            BY <1>6, <3>1, <4>1, <5>1
          <5>5. \A i, j \in DOMAIN children'[d] : i < j => end1[children'[d][i]] <= pos1[children'[d][j]]
            <6>1. ASSUME NEW i \in 1..m, NEW j \in 1..m, i < j
                  PROVE  end1[children'[d][i]] <= pos1[children'[d][j]]
              <7>1. end1[children'[d][i]] = p + i + 1 /\ pos1[children'[d][j]] = p + j
                BY <4>1
              <7> QED
                BY <5>2, <6>1, <7>1
            <6> QED
              BY <1>6, <6>1
          <5> QED
            BY <2>2, <3>1, <5>3, <5>4, <5>5
    <2>3. CASE e \notin Descriptions
      <3>1. PICK i \in 1..m : e = n + i
        BY <1>14, <2>3
      <3>2. pos1[e] = p + i /\ end1[e] = p + i + 1
        BY <1>13, <3>1
      <3>3. DOMAIN children'[e] = {}
        BY <1>6, <2>3
      <3> QED
        BY <3>2, <3>3
    <2> QED
      BY <2>1, <2>2, <2>3
  <1>20. OnePlaceEach(pos1)'
    <2> SUFFICES ASSUME NEW e \in Descriptions', NEW f \in Descriptions', pos1[e] = pos1[f] PROVE e = f
      BY DEF OnePlaceEach
    <2>1. CASE e \in Descriptions /\ f \in Descriptions
      <3>1. pos[e] = pos[f]
        BY <1>16, <2>1
      <3> QED
        BY <1>7, <2>1, <3>1 DEF Walked, Walk, OnePlaceEach
    <2>2. \A g \in Descriptions, i \in 1..m : pos1[g] # p + i
      <3> SUFFICES ASSUME NEW g \in Descriptions, NEW i \in 1..m PROVE pos1[g] # p + i
        OBVIOUS
      <3>1. pos[g] \in Nat
        OBVIOUS
      <3>2. (pos[g] <= p /\ pos1[g] = pos[g]) \/ (p < pos[g] /\ pos1[g] = pos[g] + m)
        BY <1>17
      <3> QED
        BY <3>1, <3>2
    <2>3. \A i \in 1..m : pos1[n + i] = p + i
      BY <1>13
    <2>4. CASE e \notin Descriptions /\ f \notin Descriptions
      <3>1. PICK i \in 1..m, j \in 1..m : e = n + i /\ f = n + j
        BY <1>14, <2>4
      <3>2. p + i = p + j
        BY <2>3, <3>1
      <3> QED
        BY <3>1, <3>2
    <2>5. CASE ~(e \in Descriptions <=> f \in Descriptions)
      <3>1. ASSUME NEW g \in Descriptions, NEW h \in Descriptions', h \notin Descriptions
            PROVE  pos1[g] # pos1[h]
        <4>1. PICK i \in 1..m : h = n + i
          BY <1>14, <3>1
        <4> QED
          BY <2>2, <2>3, <4>1
      <3> QED
        BY <2>5, <3>1
    <2> QED
      BY <2>1, <2>4, <2>5
  <1>21. Filled(pos1, end1)'
    <2>1. \A e, f \in Descriptions : Within(pos, end, e, f) <=> Within(pos1, end1, e, f)
      BY <1>16 DEF Within
    <2>2. \A f \in Descriptions : Within(pos, end, f, d) =>
            \A i \in 1..m : Within(pos1, end1, f, n + i)
      <3> SUFFICES ASSUME NEW f \in Descriptions, pos[f] <= p, p < end[f], NEW i \in 1..m
                   PROVE  pos1[f] <= p + i /\ p + i < end1[f]
        BY <1>10, <1>13 DEF Within
      <3>1. pos[f] \in Nat /\ end[f] \in Nat
        OBVIOUS
      <3>2. pos1[f] = pos[f] /\ end1[f] = end[f] + m
        BY <1>17, <3>1
      <3> QED
        BY <3>1, <3>2
    <2>3. ASSUME NEW f \in Descriptions, NEW i \in 1..m, Within(pos1, end1, f, n + i)
          PROVE  Within(pos, end, f, d)
      <3>1. pos1[f] <= p + i /\ p + i < end1[f]
        BY <1>13, <2>3 DEF Within
      <3>2. pos[f] <= p /\ p < end[f]
        <4>1. pos[f] \in Nat /\ end[f] \in Nat
          OBVIOUS
        <4>2. (pos[f] <= p /\ pos1[f] = pos[f]) \/ (p < pos[f] /\ pos1[f] = pos[f] + m)
          BY <1>17
        <4>3. (end[f] <= p /\ end1[f] = end[f]) \/ (p < end[f] /\ end1[f] = end[f] + m)
          BY <1>17
        <4> QED
          BY <3>1, <4>1, <4>2, <4>3
      <3> QED
        BY <1>10, <3>2 DEF Within
    <2>4. ASSUME NEW e \in Descriptions', NEW f \in Descriptions', Within(pos1, end1, e, f)
          PROVE  pos1[e] = pos1[f] \/ \E i \in DOMAIN children'[e] : Within(pos1, end1, children'[e][i], f)
      <3>1. CASE e \notin Descriptions
        <4>1. PICK i \in 1..m : e = n + i
          BY <1>14, <3>1
        <4>2. p + i <= pos1[f] /\ pos1[f] < p + i + 1 /\ pos1[f] \in Nat /\ pos1[e] = p + i
          BY <1>13, <1>15, <2>4, <4>1 DEF Within
        <4>3. \A q \in Nat : p + i <= q /\ q < p + i + 1 => q = p + i
          OBVIOUS
        <4>4. pos1[f] = pos1[e]
          BY <4>2, <4>3
        <4> QED
          BY <4>4
      <3>2. CASE e \in Descriptions /\ f \in Descriptions
        <4>1. CASE pos[e] = pos[f]
          BY <1>12, <3>2, <4>1
        <4>2. CASE pos[e] # pos[f]
          <5>1. PICK i \in DOMAIN children[e] : Within(pos, end, children[e][i], f)
            BY <1>7, <2>1, <2>4, <3>2, <4>2 DEF Walked, Walk, Filled
          <5>2. e # d
            BY <1>8
          <5> QED
            BY <1>6, <1>9, <2>1, <3>2, <5>1, <5>2
        <4> QED
          BY <4>1, <4>2
      <3>3. ASSUME e \in Descriptions, NEW k \in 1..m, f = n + k
            PROVE  \E i \in DOMAIN children'[e] : Within(pos1, end1, children'[e][i], f)
        <4>1. Within(pos, end, e, d)
          BY <2>3, <2>4, <3>3
        <4>2. CASE e = d
          <5>1. Within(pos1, end1, n + k, n + k)
            <6>1. pos1[n + k] = p + k /\ end1[n + k] = p + k + 1
              BY <1>13
            <6> QED
              BY <6>1 DEF Within
          <5> QED
            BY <1>6, <3>3, <4>2, <5>1
        <4>3. CASE e # d
          <5>1. PICK i \in DOMAIN children[e] : Within(pos, end, children[e][i], d)
            BY <1>7, <3>3, <4>1, <4>3 DEF Walked, Walk, Filled, OnePlaceEach
          <5> QED
            BY <1>6, <1>9, <2>2, <3>3, <4>3, <5>1
        <4> QED
          BY <4>2, <4>3
      <3> QED
        BY <1>14, <3>1, <3>2, <3>3
    <2>5. ASSUME NEW f \in Descriptions' PROVE Within(pos1, end1, 1, f)
      <3>1. 1 \in Descriptions /\ \A g \in Descriptions : Within(pos, end, 1, g)
        BY <1>4, <1>7 DEF Walked, Walk, Filled
      <3> QED
        BY <1>14, <2>1, <2>2, <3>1
    <2> QED
      BY <2>4, <2>5 DEF Filled, Within
  <1>22. Searching(pos1)'
    <2>1. \A k \in DOMAIN toVisit : toVisit[k] \in Descriptions /\ k \in Nat /\ k >= 1
      BY <1>5
    <2>2. PICK next : next = Made(answer)
      OBVIOUS
    <2>3. /\ next \in Seq(Descriptions') /\ Len(next) = m /\ \A i \in 1..m : next[i] = n + i
          /\ toVisit' = next \o Tail(toVisit)
      BY <1>1, <1>3, <2>2
    <2>4. Descriptions \subseteq Descriptions'
      BY <1>4
    <2>5. /\ \A i \in DOMAIN toVisit' :
               \/ i \in 1..m /\ toVisit'[i] = next[i]
               \/ \E k \in DOMAIN toVisit : k # 1 /\ i = m + k - 1 /\ toVisit'[i] = toVisit[k]
          /\ \A i \in 1..m : i \in DOMAIN toVisit' /\ toVisit'[i] = next[i]
          /\ \A k \in DOMAIN toVisit : k # 1 =>
               m + k - 1 \in DOMAIN toVisit' /\ toVisit'[m + k - 1] = toVisit[k]
      <3>1. next \in Seq(Descriptions') /\ toVisit \in Seq(Descriptions') /\ toVisit # <<>>
        BY <1>5, <2>3, <2>4, SeqGrows
      <3>2. PutFirst(next, toVisit, next \o Tail(toVisit))
        BY <3>1, AnsweredFirst
      <3>3. PutFirst(next, toVisit, toVisit') /\ Len(next) = m
        BY <2>3, <3>2
      <3> QED
        BY <3>3, Zenon DEF PutFirst
    <2>6. \A i \in DOMAIN toVisit' :
            \/ i \in 1..m /\ toVisit'[i] = n + i
            \/ \E k \in DOMAIN toVisit : k # 1 /\ i = m + k - 1 /\ toVisit'[i] = toVisit[k]
      BY <2>3, <2>5
    <2>7. /\ \A i \in 1..m : i \in DOMAIN toVisit' /\ toVisit'[i] = n + i
          /\ \A k \in DOMAIN toVisit : k # 1 =>
               m + k - 1 \in DOMAIN toVisit' /\ toVisit'[m + k - 1] = toVisit[k]
      BY <2>3, <2>5
    <2>8. \A k \in DOMAIN toVisit : k # 1 => p < pos[toVisit[k]] /\ pos1[toVisit[k]] = pos[toVisit[k]] + m
      <3> SUFFICES ASSUME NEW k \in DOMAIN toVisit, k # 1
                   PROVE  p < pos[toVisit[k]] /\ pos1[toVisit[k]] = pos[toVisit[k]] + m
        OBVIOUS
      <3>1. 1 < k
        BY <2>1
      <3>2. p < pos[toVisit[k]]
        BY <1>5, <1>7, <1>10, <3>1 DEF Walked, Searching
      <3>3. pos[toVisit[k]] \in Nat
        BY <2>1
      <3> QED
        BY <1>17, <2>1, <3>2, <3>3
    <2>9. \A k \in DOMAIN toVisit : pos[toVisit[k]] \in Nat
      BY <2>1
    <2>10. ASSUME NEW i \in DOMAIN toVisit', NEW j \in DOMAIN toVisit', i < j
           PROVE  pos1[toVisit'[i]] < pos1[toVisit'[j]]
      <3>1. CASE j \in 1..m
        <4>1. i \in 1..m
          BY <1>5, <2>1, <2>6, <2>10, <3>1
        <4>2. toVisit'[i] = n + i /\ toVisit'[j] = n + j
          BY <2>7, <3>1, <4>1
        <4> QED
          <5>1. pos1[toVisit'[i]] = p + i /\ pos1[toVisit'[j]] = p + j
            BY <1>13, <3>1, <4>1, <4>2
          <5> QED
            BY <2>10, <3>1, <4>1, <5>1
      <3>2. ASSUME i \in 1..m, NEW l \in DOMAIN toVisit, l # 1, toVisit'[j] = toVisit[l]
            PROVE  pos1[toVisit'[i]] < pos1[toVisit'[j]]
        <4>1. pos1[toVisit'[i]] = p + i
          BY <1>13, <2>7, <3>2
        <4>2. pos1[toVisit'[j]] = pos[toVisit[l]] + m /\ p < pos[toVisit[l]] /\ pos[toVisit[l]] \in Nat
          BY <2>8, <2>9, <3>2
        <4> QED
          BY <3>2, <4>1, <4>2
      <3>3. ASSUME NEW k \in DOMAIN toVisit, k # 1, i = m + k - 1, toVisit'[i] = toVisit[k],
                   NEW l \in DOMAIN toVisit, l # 1, j = m + l - 1, toVisit'[j] = toVisit[l]
            PROVE  pos1[toVisit'[i]] < pos1[toVisit'[j]]
        <4>1. k < l
          BY <2>1, <2>10, <3>3
        <4>2. pos[toVisit[k]] < pos[toVisit[l]]
          BY <1>7, <4>1 DEF Walked, Searching
        <4> QED
          BY <1>16, <2>1, <3>3, <4>2
      <3> QED
        BY <2>6, <3>1, <3>2, <3>3
    <2>11. ASSUME NEW i \in DOMAIN toVisit'
           PROVE  children'[toVisit'[i]] = <<>>
      <3>1. CASE i \in 1..m /\ toVisit'[i] = n + i
        <4>1. n + i \in Descriptions' /\ n + i \notin Descriptions
          BY <1>4, <3>1
        <4> QED
          BY <1>6, <3>1, <4>1
      <3>2. ASSUME NEW k \in DOMAIN toVisit, k # 1, toVisit'[i] = toVisit[k]
            PROVE  children'[toVisit'[i]] = <<>>
        <4>1. toVisit[k] # d
          BY <1>10, <2>8, <2>9, <3>2
        <4>2. children[toVisit[k]] = <<>>
          BY <1>7 DEF Walked, Searching
        <4> QED
          BY <1>6, <2>1, <3>2, <4>1, <4>2
      <3> QED
        BY <2>6, <3>1, <3>2
    <2>12. ASSUME NEW e \in Descriptions'
           PROVE  \/ \E i \in DOMAIN toVisit' : toVisit'[i] = e
                  \/ idOf'[e] \in visited' /\ \A i \in DOMAIN toVisit' : pos1[e] < pos1[toVisit'[i]]
      <3>1. CASE e \notin Descriptions
        BY <1>14, <2>7, <3>1
      <3>2. ASSUME NEW k \in DOMAIN toVisit, k # 1, toVisit[k] = e
            PROVE  \E i \in DOMAIN toVisit' : toVisit'[i] = e
        BY <2>7, <3>2
      <3>3. ASSUME e \in Descriptions, pos[e] <= p, idOf[e] \in visited \cup {idOf[d]}
            PROVE  idOf'[e] \in visited' /\ \A i \in DOMAIN toVisit' : pos1[e] < pos1[toVisit'[i]]
        <4>1. idOf'[e] \in visited'
          BY <1>1, <1>3, <3>3
        <4>2. pos1[e] = pos[e] /\ pos[e] \in Nat
          <5>1. pos[e] \in Nat
            BY <3>3
          <5> QED
            BY <1>17, <3>3, <5>1
        <4>3. ASSUME NEW i \in DOMAIN toVisit'
              PROVE  pos1[e] < pos1[toVisit'[i]]
          <5>1. CASE i \in 1..m /\ toVisit'[i] = n + i
            <6>1. pos1[toVisit'[i]] = p + i
              BY <1>13, <5>1
            <6> QED
              BY <3>3, <4>2, <5>1, <6>1
          <5>2. ASSUME NEW k \in DOMAIN toVisit, k # 1, toVisit'[i] = toVisit[k]
                PROVE  pos1[e] < pos1[toVisit'[i]]
            <6>1. pos1[toVisit'[i]] = pos[toVisit[k]] + m /\ p < pos[toVisit[k]] /\ pos[toVisit[k]] \in Nat
              BY <2>8, <2>9, <5>2
            <6> QED
              BY <3>3, <4>2, <6>1
          <5> QED
            BY <2>6, <5>1, <5>2
        <4> QED
          BY <4>1, <4>3
      <3>4. ASSUME e \in Descriptions, \A k \in DOMAIN toVisit : k # 1 => toVisit[k] # e
            PROVE  pos[e] <= p /\ idOf[e] \in visited \cup {idOf[d]}
        <4>1. CASE e = d
          BY <1>10, <4>1
        <4>2. CASE e # d
          <5>1. idOf[e] \in visited /\ pos[e] < pos[toVisit[1]]
            BY <1>5, <1>7, <3>4, <4>2 DEF Walked, Searching
          <5>2. pos[e] \in Nat /\ pos[e] < p
            BY <1>5, <1>10, <3>4, <5>1
          <5> QED
            BY <5>1, <5>2
        <4> QED
          BY <4>1, <4>2
      <3> QED
        BY <3>1, <3>2, <3>3, <3>4
    <2> QED
      BY <2>10, <2>11, <2>12 DEF Searching
  <1>23. FirstHas(pos1)'
    <2> SUFFICES ASSUME NEW e \in Descriptions', NEW f \in Descriptions', children'[e] # <<>>,
                        idOf'[e] = idOf'[f]
                 PROVE  pos1[e] <= pos1[f]
      BY DEF FirstHas
    <2>1. e \in Descriptions
      BY <1>6
    <2>2. pos[e] <= p
      <3>1. CASE e = d
        BY <1>10, <3>1
      <3>2. CASE e # d
        <4>1. children[e] # <<>>
          BY <1>6, <2>1, <3>2
        <4>2. \A i \in DOMAIN toVisit : toVisit[i] # e
          BY <1>7, <4>1 DEF Walked, Searching
        <4>3. pos[e] < pos[toVisit[1]]
          BY <1>5, <1>7, <2>1, <4>2 DEF Walked, Searching
        <4>4. pos[e] < p /\ pos[e] \in Nat
          BY <1>5, <1>10, <2>1, <4>3
        <4> QED
          BY <4>4
      <3> QED
        BY <3>1, <3>2
    <2>3. pos1[e] = pos[e] /\ pos[e] \in Nat
      <3>1. pos[e] \in Nat
        BY <2>1
      <3> QED
        BY <1>17, <2>1, <2>2, <3>1
    <2>4. CASE f \notin Descriptions
      <3>1. PICK i \in 1..m : f = n + i
        BY <1>14, <2>4
      <3>2. pos1[f] = p + i
        BY <1>13, <3>1
      <3> QED
        BY <2>2, <2>3, <3>2
    <2>5. CASE f \in Descriptions
      <3>1. pos[e] <= pos[f]
        <4>1. idOf[e] = idOf[f]
          BY <1>3, <2>1, <2>5
        <4>2. CASE e # d
          <5>1. children[e] # <<>>
            BY <1>6, <2>1, <4>2
          <5> QED
            BY <1>7, <2>1, <2>5, <4>1, <5>1 DEF Walked, FirstHas
        <4>3. CASE e = d
          <5>1. idOf[f] \notin visited
            BY <1>1, <4>1, <4>3
          <5>2. PICK i \in DOMAIN toVisit : toVisit[i] = f
            BY <1>7, <2>5, <5>1 DEF Walked, Searching
          <5>3. CASE i = 1
            BY <1>5, <2>3, <4>3, <5>2, <5>3
          <5>4. CASE i # 1
            <6>1. 1 < i
              BY <1>5, <5>2, <5>4
            <6>2. pos[d] < pos[f]
              BY <1>5, <1>7, <5>2, <6>1 DEF Walked, Searching
            <6>3. pos[d] \in Nat /\ pos[f] \in Nat
              BY <2>5
            <6> QED
              BY <4>3, <6>2, <6>3
          <5> QED
            BY <5>3, <5>4
        <4> QED
          BY <4>2, <4>3
      <3> QED
        BY <1>16, <2>1, <2>5, <3>1
    <2> QED
      BY <2>4, <2>5
  <1> QED
    BY <1>15, <1>18, <1>19, <1>20, <1>21, <1>22, <1>23 DEF OrderIInv, Walked, Walk

LEMMA NextOrder == IInv /\ OrderIInv /\ [Next]_vars => OrderIInv'
  <1> SUFFICES ASSUME IInv, OrderIInv, [Next]_vars PROVE OrderIInv'
    OBVIOUS
  <1>1. CASE BrowseThrows \/ DropChannel
    <2>1. (idOf = <<>> /\ toVisit = <<>>)'
      BY <1>1 DEF BrowseThrows, DropChannel, Forgotten
    <2> QED
      BY <2>1, NoOrder, PTL
  <1>2. CASE BrowseEnds \/ UNCHANGED vars
    <2>1. UNCHANGED <<idOf, children, toVisit, visited>>
      BY <1>2 DEF BrowseEnds, vars, treeVars, searchVars
    <2>2. Descriptions' = Descriptions
      BY <2>1 DEF Descriptions
    <2>3. PICK pos, end \in [Descriptions -> Nat] : Walked(pos, end)
      BY DEF OrderIInv
    <2>4. Walked(pos, end)' /\ MadeBelow'
      BY <2>1, <2>2, <2>3 DEF OrderIInv, MadeBelow, Walked, Walk, Nested, Filled, OnePlaceEach, Within,
                              Searching, FirstHas
    <2> QED
      BY <2>2, <2>4 DEF OrderIInv
  <1> QED
    BY <1>1, <1>2, RootOrder, VisitAgainOrder, AddChildNodesOrder DEF Next, Browse

\* Of the descriptions of a node the one with children is the one that findNodeById finds:
\* it is the first in the order in which addChildNodes visits them, and that is the order
\* in which findNodeById looks.
THEOREM ChildrenAreFound == Spec => []FoundHasChildren
  <1>1. Init => OrderIInv
    BY NoOrder DEF Init
  <1>2. ASSUME IInv, OrderIInv, NEW d \in Descriptions, children[d] # <<>>
        PROVE  FindNodeById(idOf[d]) = d
    <2>1. PICK pos, end \in [Descriptions -> Nat] : Walked(pos, end)
      BY <1>2 DEF OrderIInv
    <2>2. 1 \in Descriptions
      BY <1>2 DEF IInv, TypeOK, Descriptions
    <2> DEFINE f == FindIn(idOf[d])[1]
    <2>3. Finds(pos, end, idOf[d], 1)
      BY <1>2, <2>1, <2>2, FindsFirst DEF IInv, OrderIInv, Walked
    <2>4. Within(pos, end, 1, d)
      BY <2>1 DEF Walked, Walk, Filled
    <2>5. f \in Descriptions /\ idOf[f] = idOf[d] /\ pos[f] <= pos[d]
      BY <2>3, <2>4 DEF Finds
    <2> HIDE DEF f
    <2>6. pos[d] <= pos[f] /\ pos[d] \in Nat /\ pos[f] \in Nat
      BY <1>2, <2>1, <2>5 DEF Walked, FirstHas
    <2>7. f = d
      BY <2>1, <2>5, <2>6 DEF Walked, Walk, OnePlaceEach
    <2> QED
      BY <2>7 DEF f, FindNodeById
  <1>3. IInv /\ OrderIInv => FoundHasChildren
    BY <1>2 DEF FoundHasChildren
  <1> QED
    BY InitIInv, StepIInv, NextOrder, <1>1, <1>3, PTL DEF Spec
\* A known address space finds a description for every node id in it, and none for others.
FindsWhatIsKnown ==
  phase = "known" =>
    \A id \in Nodes : IF id \in Known
                      THEN FindNodeById(id) \in Descriptions /\ idOf[FindNodeById(id)] = id
                      ELSE FindNodeById(id) = None

\* findNodeById, which looks from the root down, misses no description, wherever
\* addChildNodes put it.
THEOREM KnownIsFound == Spec => []FindsWhatIsKnown
  <1>1. Init => OrderIInv
    BY NoOrder DEF Init
  <1>2. ASSUME IInv, OrderIInv, phase = "known", NEW id \in Nodes
        PROVE  IF id \in Known
               THEN FindNodeById(id) \in Descriptions /\ idOf[FindNodeById(id)] = id
               ELSE FindNodeById(id) = None
    <2>1. PICK pos, end \in [Descriptions -> Nat] : Walked(pos, end)
      BY <1>2 DEF OrderIInv
    <2>2. 1 \in Descriptions
      BY <1>2 DEF IInv, Begun, Known, TypeOK, Descriptions
    <2> DEFINE f == FindIn(id)[1]
    <2>3. Finds(pos, end, id, 1)
      BY <1>2, <2>1, <2>2, FindsFirst DEF IInv, OrderIInv, Walked
    <2>4. \A e \in Descriptions : Within(pos, end, 1, e)
      BY <2>1 DEF Walked, Walk, Filled
    <2>5. CASE id \in Known
      <3>1. f # None
        BY <2>3, <2>4, <2>5 DEF Finds, Known
      <3> QED
        BY <2>3, <2>5, <3>1 DEF Finds, FindNodeById
    <2>6. CASE id \notin Known
      <3>1. f = None
        BY <2>3, <2>6 DEF Finds, Known
      <3> QED
        BY <2>6, <3>1 DEF FindNodeById
    <2> QED
      BY <2>5, <2>6
  <1>3. IInv /\ OrderIInv => FindsWhatIsKnown
    BY <1>2 DEF FindsWhatIsKnown
  <1> QED
    BY InitIInv, StepIInv, NextOrder, <1>1, <1>3, PTL DEF Spec

--------------------------------------------------------------------------------
(* Why a browse ends: each of its steps visits one more node of the server, or has one *)
(* description less to visit.                                                           *)

VisitsMoreOrHasLess ==
  /\ visited \subseteq visited' /\ visited' \subseteq Nodes
  /\ visited' = visited => Len(toVisit') < Len(toVisit)

BrowseGoesOn == Browse /\ phase' = "browsing" => VisitsMoreOrHasLess

\* The guard for circular references, and what each visit takes from the stack of calls,
\* leave no step of a browse that could be repeated for ever.
THEOREM EveryVisitCounts == Spec => [][BrowseGoesOn]_vars
  <1>1. ASSUME IInv, IInv', Browse, phase' = "browsing"
        PROVE  VisitsMoreOrHasLess
    <2>1. visited' \subseteq Nodes
      BY <1>1 DEF IInv, TypeOK
    <2>2. CASE VisitAgain
      <3>1. toVisit # <<>> /\ toVisit' = Tail(toVisit) /\ visited' = visited
        BY <2>2 DEF VisitAgain, Visits
      <3>2. Len(Tail(toVisit)) < Len(toVisit)
        BY <1>1, <3>1 DEF IInv, TypeOK
      <3> QED
        BY <2>1, <3>1, <3>2 DEF VisitsMoreOrHasLess
    <2>3. CASE AddChildNodes
      <3>1. \E d \in Descriptions : idOf[d] \notin visited /\ visited' = visited \cup {idOf[d]}
        BY <2>3 DEF AddChildNodes, DescribeChildren
      <3>2. visited \subseteq visited' /\ visited' # visited
        BY <3>1
      <3> QED
        BY <2>1, <3>2 DEF VisitsMoreOrHasLess
    <2>4. ~BrowseThrows /\ ~BrowseEnds
      BY <1>1 DEF BrowseThrows, Forgotten, BrowseEnds
    <2> QED
      BY <1>1, <2>2, <2>3, <2>4 DEF Browse
  <1>2. IInv /\ IInv' => BrowseGoesOn
    BY <1>1 DEF BrowseGoesOn
  <1> QED
    BY Invariance, <1>2, PTL
================================================================================
