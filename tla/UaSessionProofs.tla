---------------------------- MODULE UaSessionProofs ----------------------------
(***************************************************************************)
(* However requests fail, calls throw and scripts init again, a READY      *)
(* session has an open channel, and a publication thread is left behind    *)
(* only when stopping the session failed: if neither closing nor browsing  *)
(* fails, publication threads poll for the channel of the session only.    *)
(***************************************************************************)
EXTENDS UaSession, TLAPS

\* What the states of a session say about its channel and its thread.
StatesTell ==
  /\ Walking => session
  /\ session /\ state = "INITIAL" => channel = NoChannel
  /\ session /\ state \in {"CONNECTED", "READY"} => channel \in open
  /\ ~session => channel = NoChannel \/ state = "ERROR"

\* A publication thread polls for the channel of the session only.
PollingIsCurrent == polling \subseteq {channel}

ThreadTells ==
  /\ session /\ state = "CONNECTED" => Walking
  /\ PollingIsCurrent
  /\ ~session => polling = {}
  /\ session /\ state \in {"INITIAL", "CONNECTED"} => polling = {}

IInv == TypeOK /\ StatesTell

TInv == IInv /\ ThreadTells

USE SessionAssumption DEF NoChannel, States

LEMMA InitIInv == Init => IInv
<1> SUFFICES ASSUME Init PROVE IInv
  OBVIOUS
<1> USE DEF Init
<1>1. /\ pc \in {"idle", "setup", "close", "ended", "dead"}
      /\ session \in BOOLEAN
      /\ state \in States
      /\ namespace \in {"none", "names", "failure"}
  OBVIOUS
<1>2. /\ channel \in NoChannel..made
      /\ subs \in [Names -> NoChannel..made]
      /\ made \in 0..MaxChannels
      /\ open \subseteq 1..made
      /\ polling \subseteq 1..made
  BY DEF NoSubscriptions
<1>3. StatesTell
  BY DEF StatesTell, Walking
<1>4. context \in [Keys -> {"none", "started", "refused", "deleted"}]
  BY DEF NewContext
<1> QED BY <1>1, <1>2, <1>3, <1>4 DEF IInv, TypeOK

\* The parts of TypeOK that depend on how many channels were made.
Counted ==
  /\ channel \in NoChannel..made
  /\ subs \in [Names -> NoChannel..made]
  /\ made \in 0..MaxChannels
  /\ open \subseteq 1..made
  /\ polling \subseteq 1..made

\* The others.
Finite ==
  /\ pc \in {"idle", "setup", "close", "ended", "dead"}
  /\ session \in BOOLEAN
  /\ state \in States
  /\ namespace \in {"none", "names", "failure"}
  /\ context \in [Keys -> {"none", "started", "refused", "deleted"}]

LEMMA TypeParts == TypeOK <=> Counted /\ Finite
BY DEF TypeOK, Counted, Finite

LEMMA TypePartsPrime == TypeOK' <=> Counted' /\ Finite'
BY DEF TypeOK, Counted, Finite

LEMMA CreatedCounted ==
  ASSUME Counted, made < MaxChannels, Created, channel' \in {channel, made'},
         UNCHANGED <<subs, polling>>
  PROVE  Counted'
<1>1. made' \in 0..MaxChannels /\ made' > made
  BY DEF Counted, Created
<1>2. channel' \in NoChannel..made' /\ open' \subseteq 1..made' /\ polling' \subseteq 1..made'
  BY <1>1 DEF Counted, Created
<1>3. subs' \in [Names -> NoChannel..made']
  <2>1. \A n \in Names : subs[n] \in NoChannel..made'
    BY <1>1 DEF Counted
  <2> QED BY <2>1 DEF Counted
<1> QED BY <1>1, <1>2, <1>3 DEF Counted

LEMMA CallsIInv ==
  ASSUME IInv, StartSession \/ StopSession \/ NextScript PROVE IInv'
<1> USE DEF IInv, Walking, serverVars, sessionVars, StartSession, NewSession, NoSession,
    SetUpAgain, StopSession, NextScript, vars
<1>1. Finite' BY TypeParts DEF Finite, NewContext
<1>2. Counted' BY TypeParts DEF Counted, NoSubscriptions
<1>3. StatesTell' BY DEF StatesTell
<1> QED BY <1>1, <1>2, <1>3, TypePartsPrime

LEMMA ToInitialIInv == ASSUME IInv, ToInitial, UNCHANGED context PROVE IInv'
<1> USE DEF IInv, ToInitial, Throw, DropChannel, MoveTo, Target, Walking, serverVars, sessionVars
<1>1. Finite' BY TypeParts DEF Finite
<1>2. Counted' BY TypeParts DEF Counted
<1>3. StatesTell' BY DEF StatesTell
<1> QED BY <1>1, <1>2, <1>3, TypePartsPrime

LEMMA ToConnectedIInv == ASSUME IInv, ToConnected, UNCHANGED context PROVE IInv'
<1> USE DEF IInv, ToConnected, Walking, sessionVars, Throw, MoveTo, Target
<1>1. CASE NotCreated
  <2>1. Finite' BY <1>1, TypeParts DEF Finite, NotCreated
  <2>2. Counted' BY <1>1, TypeParts DEF Counted, NotCreated, serverVars
  <2>3. StatesTell' BY <1>1 DEF StatesTell, NotCreated, serverVars
  <2> QED BY <2>1, <2>2, <2>3, TypePartsPrime
<1>2. CASE NotActivated
  <2>1. Finite' BY <1>2, TypeParts DEF Finite, NotActivated
  <2>2. Counted' BY <1>2, TypeParts, CreatedCounted DEF NotActivated
  <2>3. StatesTell' BY <1>2 DEF StatesTell, NotActivated, Created
  <2> QED BY <2>1, <2>2, <2>3, TypePartsPrime
<1>3. CASE Activated
  <2>1. Finite' BY <1>3, TypeParts DEF Finite, Activated
  <2>2. Counted' BY <1>3, TypeParts, CreatedCounted DEF Activated
  <2>3. StatesTell' BY <1>3 DEF StatesTell, Activated, Created
  <2> QED BY <2>1, <2>2, <2>3, TypePartsPrime
<1> QED BY <1>1, <1>2, <1>3

LEMMA ToReadyIInv == ASSUME IInv, ToReady, UNCHANGED context PROVE IInv'
<1> USE DEF IInv, ToReady, GetNamespace, Throw, MoveTo, Target, Walking, serverVars
<1>1. Finite' BY TypeParts DEF Finite
<1>2. Counted' BY TypeParts DEF Counted
<1>3. StatesTell' BY DEF StatesTell
<1> QED BY <1>1, <1>2, <1>3, TypePartsPrime

LEMMA ToClosedIInv == ASSUME IInv, ToClosed, UNCHANGED context PROVE IInv'
<1> USE DEF IInv, ToClosed, DropChannel, MoveTo, Target, Walking
<1>1. Finite' BY TypeParts DEF Finite
<1>2. Counted' BY TypeParts DEF Counted
<1>3. StatesTell' BY DEF StatesTell
<1> QED BY <1>1, <1>2, <1>3, TypePartsPrime

LEMMA SubscriptionsIInv ==
  ASSUME IInv, NEW k \in Keys, Subscription(k) \/ Delete(k) PROVE IInv'
<1> DEFINE n == NameOf(k)
<1>0. n \in Names BY DEF Keys, NameOf
<1> HIDE DEF n
<1> USE DEF IInv, Subscription, Delete, DeleteNamed, CreateSubscription, DeleteSubscription, Walking,
    sessionVars, serverVars
<1>1. Finite' BY TypeParts DEF Finite
<1>2. Counted'
  <2>1. Counted BY TypeParts
  <2>2. subs' \in [Names -> NoChannel..made] BY <1>0, <2>1 DEF Counted, n
  <2>3. channel # NoChannel => channel \in 1..made BY <2>1 DEF Counted
  <2>4. polling' \subseteq 1..made BY <2>1, <2>3 DEF Counted
  <2> QED BY <2>1, <2>2, <2>4 DEF Counted
<1>3. StatesTell' BY DEF StatesTell
<1> QED BY <1>1, <1>2, <1>3, TypePartsPrime

LEMMA NextIInv == IInv /\ [Next]_vars => IInv'
<1>1. IInv /\ UNCHANGED vars => IInv'
  BY DEF IInv, TypeOK, StatesTell, Walking, vars, sessionVars, serverVars
<1> QED
  BY <1>1, CallsIInv, ToInitialIInv, ToConnectedIInv, ToReadyIInv, ToClosedIInv, SubscriptionsIInv
  DEF Next, MoveToNext

\* The type invariant of the session and its client.
THEOREM TypeCorrect == Spec => []TypeOK
<1>1. IInv => TypeOK BY DEF IInv
<1> QED BY InitIInv, NextIInv, <1>1, PTL DEF Spec

\* A session is READY only on a channel the server has open, whatever fails.
THEOREM ReadySessionsAreConnected == Spec => []ReadyIsConnected
<1>1. IInv => ReadyIsConnected BY DEF IInv, StatesTell, ReadyIsConnected
<1> QED BY InitIInv, NextIInv, <1>1, PTL DEF Spec

\* No step but what follows a failed stopSession leaves a publication thread behind.
THEOREM ThreadsEndWithChannel == Spec => ThreadLeftByFailedStop
<1> DEFINE Kept == channel' # channel /\ channel \in polling' => ~session /\ state = "ERROR"
<1>1. IInv /\ [Next]_vars => [Kept]_vars
  <2> SUFFICES ASSUME IInv, Next, channel' # channel, channel \in polling'
               PROVE  ~session /\ state = "ERROR"
    OBVIOUS
  <2>1. channel # NoChannel
    BY NextIInv DEF IInv, TypeOK
  <2> USE DEF IInv, StatesTell
  <2>2. CASE StartSession \/ StopSession \/ NextScript
    BY <2>1, <2>2 DEF StartSession, NewSession, NoSession, SetUpAgain, StopSession, NextScript,
       sessionVars, vars
  <2>3. CASE MoveToNext
    BY <2>1, <2>3 DEF MoveToNext, ToInitial, ToConnected, NotCreated, NotActivated, Activated,
       ToReady, ToClosed, Throw, DropChannel, Walking, sessionVars
  <2>4. CASE \E k \in Keys : Subscription(k) \/ Delete(k)
    BY <2>4 DEF Subscription, Delete, DeleteNamed, CreateSubscription, DeleteSubscription, sessionVars
  <2> QED BY <2>2, <2>3, <2>4 DEF Next
<1> QED BY InitIInv, NextIInv, <1>1, PTL DEF Spec, ThreadLeftByFailedStop

--------------------------------------------------------------------------------
(* The context of the script.                                                *)

\* Until a script has a session its context is empty.
ContextTells ==
  /\ StartedIsKnown
  /\ pc = "ended" => ~session
  /\ pc = "idle" /\ ~session => context = NewContext

CInv == IInv /\ ContextTells

LEMMA NextCInv == CInv /\ [Next]_vars => CInv'
<1> SUFFICES ASSUME CInv, [Next]_vars PROVE ContextTells'
  BY NextIInv DEF CInv
<1> USE DEF CInv, ContextTells, StartedIsKnown, Named
<1>1. CASE StartSession \/ StopSession \/ NextScript
  BY <1>1 DEF StartSession, NewSession, NoSession, SetUpAgain, StopSession, NextScript, vars,
     sessionVars, NewContext, NoSubscriptions
<1>2. CASE MoveToNext
  <2>1. /\ UNCHANGED <<subs, context>>
        /\ (session /\ pc' # "idle") \/ session'
        /\ pc' = "ended" => ~session'
        /\ session' => session
    <3> USE DEF IInv, StatesTell, Walking, Throw, MoveTo, Target, sessionVars, DropChannel
    <3>1. CASE ToInitial BY <1>2, <3>1 DEF MoveToNext, ToInitial
    <3>2. CASE ToConnected
      BY <1>2, <3>2 DEF MoveToNext, ToConnected, NotCreated, NotActivated, Activated
    <3>3. CASE ToReady BY <1>2, <3>3 DEF MoveToNext, ToReady
    <3>4. CASE ToClosed BY <1>2, <3>4 DEF MoveToNext, ToClosed
    <3> QED BY <1>2, <3>1, <3>2, <3>3, <3>4 DEF MoveToNext
  <2> QED BY <2>1
<1>3. ASSUME NEW k \in Keys, Subscription(k) PROVE ContextTells'
  <2> DEFINE n == NameOf(k)
  <2>1. /\ subs \in [Names -> NoChannel..made] /\ context \in [Keys -> {"none", "started", "refused", "deleted"}]
        /\ channel \in NoChannel..made
    BY DEF IInv, TypeOK
  <2>2. /\ UNCHANGED <<pc, session>> /\ session /\ context[k] = "none" /\ n \in Names
        /\ context' = [context EXCEPT ![k] = IF subs'[n] # NoChannel THEN "started" ELSE "refused"]
    BY <1>3 DEF Subscription, CreateSubscription, sessionVars, Keys, NameOf
  <2>3. \/ subs' = subs
        \/ subs' = [subs EXCEPT ![n] = channel] /\ channel # NoChannel
    BY <1>3 DEF Subscription, CreateSubscription, sessionVars
  <2> HIDE DEF n
  <2>4. ASSUME NEW m \in Names, subs'[m] # NoChannel
        PROVE  \E j \in Keys : NameOf(j) = m /\ context'[j] = "started"
    <3>1. CASE m = n
      <4>1. NameOf(k) = m /\ context'[k] = "started"
        BY <2>1, <2>2, <2>4, <3>1 DEF n
      <4> QED BY <4>1
    <3>2. CASE m # n
      <4>1. subs[m] # NoChannel
        BY <2>1, <2>2, <2>3, <2>4, <3>2
      <4>2. PICK j \in Keys : NameOf(j) = m /\ context[j] = "started"
        BY <2>2, <4>1
      <4>3. context'[j] = "started"
        BY <2>1, <2>2, <4>2
      <4> QED BY <4>2, <4>3
    <3> QED BY <3>1, <3>2
  <2>5. ASSUME NEW i \in Keys, context'[i] = "started"
        PROVE  \/ NameOf(i) \in Names /\ subs'[NameOf(i)] # NoChannel
               \/ \E j \in Keys \ {i} : NameOf(j) = NameOf(i) /\ context'[j] = "deleted"
    <3>1. NameOf(i) \in Names
      BY DEF Keys, NameOf
    <3>2. CASE i = k
      <4>1. subs'[n] # NoChannel
        BY <2>1, <2>2, <2>5, <3>2
      <4> QED BY <3>1, <3>2, <4>1 DEF n
    <3>3. CASE i # k
      <4>1. context[i] = "started"
        BY <2>1, <2>2, <2>5, <3>3
      <4>2. CASE subs[NameOf(i)] # NoChannel
        <5>1. subs'[NameOf(i)] # NoChannel
          BY <2>1, <2>2, <2>3, <3>1, <4>2
        <5> QED BY <3>1, <5>1
      <4>3. CASE subs[NameOf(i)] = NoChannel
        <5>1. PICK j \in Keys \ {i} : NameOf(j) = NameOf(i) /\ context[j] = "deleted"
          BY <2>2, <4>1, <4>3
        <5>2. context'[j] = "deleted"
          BY <2>1, <2>2, <5>1
        <5> QED BY <5>1, <5>2
      <4> QED BY <4>2, <4>3
    <3> QED BY <3>2, <3>3
  <2> QED BY <2>2, <2>4, <2>5
<1>4. ASSUME NEW k \in Keys, Delete(k) PROVE ContextTells'
  <2> DEFINE n == NameOf(k)
  <2>1. subs \in [Names -> NoChannel..made] /\ context \in [Keys -> {"none", "started", "refused", "deleted"}]
    BY DEF IInv, TypeOK
  <2>2. /\ UNCHANGED <<pc, session>> /\ session /\ n \in Names
        /\ context' = [context EXCEPT ![k] = "deleted"]
    BY <1>4 DEF Delete, DeleteNamed, DeleteSubscription, sessionVars, Keys, NameOf
  <2>3. /\ \A m \in Names \ {n} : subs'[m] = subs[m]
        /\ subs'[n] = NoChannel
    BY <1>4, <2>1, <2>2 DEF Delete, DeleteNamed, DeleteSubscription, sessionVars
  <2> HIDE DEF n
  <2>4. ASSUME NEW m \in Names, subs'[m] # NoChannel
        PROVE  \E j \in Keys : NameOf(j) = m /\ context'[j] = "started"
    <3>1. m # n /\ subs[m] # NoChannel
      BY <2>3, <2>4
    <3>2. PICK j \in Keys : NameOf(j) = m /\ context[j] = "started"
      BY <2>2, <3>1
    <3>3. j # k
      BY <3>1, <3>2 DEF n
    <3>4. context'[j] = "started"
      BY <2>1, <2>2, <3>2, <3>3
    <3> QED BY <3>2, <3>4
  <2>5. ASSUME NEW i \in Keys, context'[i] = "started"
        PROVE  \/ NameOf(i) \in Names /\ subs'[NameOf(i)] # NoChannel
               \/ \E j \in Keys \ {i} : NameOf(j) = NameOf(i) /\ context'[j] = "deleted"
    <3>1. NameOf(i) \in Names
      BY DEF Keys, NameOf
    <3>2. i # k /\ context[i] = "started" /\ context'[k] = "deleted"
      BY <2>1, <2>2, <2>5
    <3>3. CASE NameOf(i) = n
      BY <3>2, <3>3 DEF n
    <3>4. CASE NameOf(i) # n /\ subs[NameOf(i)] # NoChannel
      BY <2>3, <3>1, <3>4
    <3>5. CASE NameOf(i) # n /\ subs[NameOf(i)] = NoChannel
      <4>1. PICK j \in Keys \ {i} : NameOf(j) = NameOf(i) /\ context[j] = "deleted"
        BY <2>2, <3>2, <3>5
      <4>2. context'[j] = "deleted"
        BY <2>1, <2>2, <4>1
      <4> QED BY <4>1, <4>2
    <3> QED BY <3>3, <3>4, <3>5
  <2> QED BY <1>4, <2>2, <2>4, <2>5 DEF Delete
<1>5. CASE UNCHANGED vars
  BY <1>5 DEF vars, sessionVars
<1> QED BY <1>1, <1>2, <1>3, <1>4, <1>5 DEF Next

\* A subscription that the session knows is started by some key of the script; one that is
\* started is known, unless its name was given in two ways and deleted by the other.
THEOREM ContextIsTrue == Spec => []StartedIsKnown
<1>1. Init => CInv
  BY InitIInv DEF Init, CInv, ContextTells, StartedIsKnown, Named
<1>2. CInv => StartedIsKnown
  BY DEF CInv, ContextTells
<1> QED BY NextCInv, <1>1, <1>2, PTL DEF Spec

--------------------------------------------------------------------------------
(* The publication thread, while stopping a session does not fail.           *)

\* Channels close, and browsing throws nothing that would leave a session CONNECTED.
SessionsStop == "close" \notin Failures /\ "browse" \notin Failures

LEMMA NextTInv == SessionsStop /\ TInv /\ [Next]_vars => TInv'
<1> SUFFICES ASSUME SessionsStop, TInv, [Next]_vars PROVE ThreadTells'
  BY NextIInv DEF TInv
<1> USE DEF TInv, ThreadTells, PollingIsCurrent
<1>1. CASE StartSession \/ StopSession \/ NextScript
  BY <1>1 DEF StartSession, NewSession, NoSession, SetUpAgain, StopSession, NextScript, vars,
     serverVars, sessionVars, Walking
<1>2. CASE ToInitial
  BY <1>2 DEF ToInitial, Throw, DropChannel, MoveTo, Target, Walking, serverVars, sessionVars,
     IInv, StatesTell
<1>3. CASE ToConnected
  BY <1>3 DEF ToConnected, NotCreated, NotActivated, Activated, Created, Throw, MoveTo, Target,
     Walking, serverVars, sessionVars, IInv, StatesTell
<1>4. CASE ToReady
  BY <1>4 DEF ToReady, MoveTo, Target, Walking, SessionsStop, IInv, StatesTell
<1>5. CASE ToClosed
  BY <1>5 DEF ToClosed, DropChannel, MoveTo, Target, Walking, SessionsStop, IInv, StatesTell
<1>6. ASSUME NEW k \in Keys, Subscription(k) \/ Delete(k) PROVE ThreadTells'
  BY <1>6 DEF Subscription, Delete, DeleteNamed, CreateSubscription, DeleteSubscription, Walking,
     sessionVars, IInv, StatesTell
<1>7. CASE UNCHANGED vars
  BY <1>7 DEF vars, serverVars, sessionVars, Walking
<1> QED BY <1>1, <1>2, <1>3, <1>4, <1>5, <1>6, <1>7 DEF Next, MoveToNext

\* A publication thread polls for the channel of the session only, however often the
\* session is set up again, if closing a channel does not fail and browsing does not throw.
THEOREM ThreadsPollCurrentChannel ==
  ASSUME SessionsStop
  PROVE  Spec => []PollingIsCurrent
<1>1. Init => TInv
  BY InitIInv DEF Init, TInv, ThreadTells, PollingIsCurrent
<1>2. TInv /\ [Next]_vars => TInv'
  BY NextTInv
<1>3. TInv => PollingIsCurrent
  BY DEF TInv, ThreadTells
<1> QED BY <1>1, <1>2, <1>3, PTL DEF Spec
================================================================================
