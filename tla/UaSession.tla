------------------------------- MODULE UaSession -------------------------------
(***************************************************************************)
(* The session of the OPC-UA client: UaClient.startSession and stopSession *)
(* and the state machine of Session (SessionState and its StateChangers).  *)
(*                                                                         *)
(* A call walks the state machine until it has reached its target or an    *)
(* error; each step of the walk talks to the server and is an action.  A   *)
(* script may go on after a failure, and init again.  At its end cleanUp   *)
(* stops the session; UaClient is a singleton and serves the next script,  *)
(* which has a context of its own.                                         *)
(* UaSubscriptions has what happens in a READY session, and the stop of a  *)
(* publication thread step by step; here the thread ends when it is told.  *)
(***************************************************************************)
EXTENDS Integers

CONSTANTS
  Names,        \* the names a script gives to subscriptions
  Failures,     \* the requests to the server that may fail
  MaxChannels   \* bound: channels that are created

AllFailures ==
  {"match",         \* no endpoint of the server is the one asked for
   "create",        \* no channel, with an exception of the stack as the cause
   "createInvalid", \* no channel or one that is not open: an exception without cause
   "activate",      \* the channel cannot be activated, with a cause
   "activateBad",   \* the server says that activation was bad: without cause
   "namespace",     \* the namespace cannot be read
   "noNamespace",   \* it has no entries
   "browse",        \* browsing meets a node that it cannot describe, and throws
   "addressSpace",  \* the address space has no node but its root
   "subscribe",     \* a subscription is refused
   "close"}         \* closing the channel fails

ASSUME SessionAssumption ==
  /\ Failures \subseteq AllFailures
  /\ MaxChannels \in Nat

NoChannel == 0  \* channels are counted from 1

\* A script gives a name as a String or as a GString.  The context finds its subscriptions
\* by what the script gave, where these differ; the session by the String of the name.
Kinds == {"String", "GString"}
Keys == Names \X Kinds
NameOf(k) == k[1]

VARIABLES
  pc,         \* what the script thread does
  session,    \* UaClient.session is not null
  state,      \* Session.state
  channel,    \* Session.channel; browser, reader, writer and publicationThread
              \* are null when it is
  namespace,  \* Session.namespace: not read, or what was read
  subs,       \* Session.subscriptions: the channel the subscription was made on
  made,       \* channels created so far
  open,       \* the channels the server has open
  polling,    \* the channels whose publication thread was started and not stopped
  context     \* the subscriptions in the script's context: isStarted is true of those
              \* "started", and false of those the server "refused" or that are "deleted"

sessionVars == <<state, channel, namespace, subs>>
serverVars == <<made, open>>
vars == <<pc, session, sessionVars, serverVars, polling, context>>

States == {"ERROR", "INITIAL", "CONNECTED", "READY", "CLOSED"}

TypeOK ==
  /\ pc \in {"idle", "setup", "close", "ended", "dead"}
  /\ session \in BOOLEAN
  /\ state \in States
  /\ channel \in NoChannel..made
  /\ namespace \in {"none", "names", "failure"}
  /\ subs \in [Names -> NoChannel..made]
  /\ made \in 0..MaxChannels
  /\ open \subseteq 1..made
  /\ polling \subseteq 1..made
  /\ context \in [Keys -> {"none", "started", "refused", "deleted"}]

NoSubscriptions == [n \in Names |-> NoChannel]
NewContext == [k \in Keys |-> "none"]

Init ==
  /\ pc = "idle"
  /\ session = FALSE
  /\ state = "INITIAL"
  /\ channel = NoChannel
  /\ namespace = "none"
  /\ subs = NoSubscriptions
  /\ made = 0
  /\ open = {}
  /\ polling = {}
  /\ context = NewContext

--------------------------------------------------------------------------------
(* UaClient.                                                                *)

\* startSession without a session: a new one, if the endpoint is known.
NewSession ==
  /\ pc = "idle" /\ ~session
  /\ made < MaxChannels
  /\ session' = TRUE
  /\ state' = "INITIAL"
  /\ channel' = NoChannel
  /\ namespace' = "none"
  /\ subs' = NoSubscriptions
  /\ pc' = "setup"
  /\ UNCHANGED <<serverVars, polling, context>>

\* If it is not, a null session is set up: the exception is the script's.
NoSession ==
  /\ "match" \in Failures
  /\ pc = "idle" /\ ~session
  /\ UNCHANGED vars

\* startSession with a session sets that one up again.
SetUpAgain ==
  /\ pc = "idle" /\ session
  /\ state # "READY"
  /\ made < MaxChannels
  /\ pc' = "setup"
  /\ UNCHANGED <<session, sessionVars, serverVars, polling, context>>

StartSession == NewSession \/ NoSession \/ SetUpAgain

\* stopSession, as cleanUp calls it at the end of the script: a session that is not
\* READY is set up once more to be closed.
StopSession ==
  /\ pc = "idle"
  /\ session /\ state # "READY" => made < MaxChannels
  /\ pc' = IF session THEN "close" ELSE "ended"
  /\ UNCHANGED <<session, sessionVars, serverVars, polling, context>>

\* The next script's context is new; the session of the last one is gone.
NextScript ==
  /\ pc = "ended"
  /\ made < MaxChannels
  /\ pc' = "idle"
  /\ context' = NewContext
  /\ UNCHANGED <<session, sessionVars, serverVars, polling>>

--------------------------------------------------------------------------------
(* Session.moveToTargetState.                                               *)

Walking == pc \in {"setup", "close"}

Target == IF pc = "setup" THEN "READY" ELSE "CLOSED"

\* Mutation: the walk goes on after an error.
MoveToStubborn(next) ==
  /\ state' = next
  /\ IF next # Target
     THEN UNCHANGED <<pc, session>>
     ELSE IF pc = "setup" THEN pc' = "idle" /\ UNCHANGED session
                          ELSE pc' = "ended" /\ session' = FALSE

\* The walk ends at its target or in an error; stopSession forgets the session.
MoveTo(next) ==
  /\ state' = next
  /\ IF next \notin {Target, "ERROR"}
     THEN UNCHANGED <<pc, session>>
     ELSE IF pc = "setup" THEN pc' = "idle" /\ UNCHANGED session
                          ELSE pc' = "ended" /\ session' = FALSE

\* An exception leaves the walk where it was.  A script may catch that of its init and go
\* on; that of cleanUp ends the run, with the session still there.
Throw ==
  /\ pc' = IF pc = "setup" THEN "idle" ELSE "dead"
  /\ UNCHANGED <<session, state>>

\* Mutation: the publication thread is forgotten and not stopped.
DropChannelOnly ==
  /\ channel' = NoChannel
  /\ UNCHANGED polling

\* setChannel(null): the publication thread is stopped and forgotten.
DropChannel ==
  /\ channel' = NoChannel
  /\ polling' = polling \ {channel}

\* publicationThread is null when there is no channel.
ToInitial ==
  /\ Walking /\ state = "ERROR"
  /\ \/ /\ channel = NoChannel
        /\ Throw
        /\ UNCHANGED <<channel, namespace, subs, polling>>
     \/ /\ channel # NoChannel
        /\ DropChannel
        /\ MoveTo("INITIAL")
        /\ UNCHANGED <<namespace, subs>>
  /\ UNCHANGED serverVars

\* createChannel: an exception has a cause, and is an error, or has none, and the
\* handler that asks for it throws in its turn.
NotCreated ==
  /\ \/ "create" \in Failures /\ MoveTo("ERROR")
     \/ "createInvalid" \in Failures /\ Throw
  /\ UNCHANGED <<channel, namespace, subs, polling, serverVars>>

Created == made' = made + 1 /\ open' = open \cup {made'}

\* Mutation: a channel that was not activated is taken for one that was.
NotActivatedIgnored ==
  /\ "activate" \in Failures
  /\ MoveTo("CONNECTED")
  /\ UNCHANGED <<channel, namespace, subs, polling>>
  /\ Created

\* activateChannel: the same, but there is a channel now, and nobody closes it.
NotActivated ==
  /\ \/ "activate" \in Failures /\ MoveTo("ERROR")
     \/ "activateBad" \in Failures /\ Throw
  /\ UNCHANGED <<channel, namespace, subs, polling>>
  /\ Created

Activated ==
  /\ Created
  /\ channel' = made'
  /\ MoveTo("CONNECTED")
  /\ UNCHANGED <<namespace, subs, polling>>

ToConnected ==
  /\ Walking /\ state = "INITIAL"
  /\ made < MaxChannels  \* a walk creates one channel at most
  /\ NotCreated \/ NotActivated \/ Activated

\* getNamespace: what was read once is kept, and a failure is a text like others.
GetNamespace ==
  \/ namespace # "none" /\ UNCHANGED namespace
  \/ namespace = "none" /\ namespace' = "names"
  \/ namespace = "none" /\ "namespace" \in Failures /\ namespace' = "failure"

\* Where browsing throws the session stays CONNECTED, and can be used.
ToReady ==
  /\ Walking /\ state = "CONNECTED"
  /\ \/ GetNamespace /\ MoveTo("READY")
     \/ GetNamespace /\ "browse" \in Failures /\ Throw
     \/ GetNamespace /\ "addressSpace" \in Failures /\ MoveTo("ERROR")
     \/ namespace = "none" /\ "noNamespace" \in Failures /\ MoveTo("ERROR") /\ UNCHANGED namespace
  /\ UNCHANGED <<channel, subs, serverVars, polling>>

\* A close that fails may have closed the channel all the same.
ToClosed ==
  /\ Walking /\ state = "READY"
  /\ \/ /\ open' = open \ {channel}
        /\ DropChannel
        /\ MoveTo("CLOSED")
     \/ /\ "close" \in Failures
        /\ open' \in {open, open \ {channel}}
        /\ MoveTo("ERROR")
        /\ UNCHANGED <<channel, polling>>
  /\ UNCHANGED <<namespace, subs, made>>

MoveToNext ==
  /\ ToInitial \/ ToConnected \/ ToReady \/ ToClosed
  /\ UNCHANGED context

--------------------------------------------------------------------------------
(* Subscriptions.                                                           *)

Named == {n \in Names : subs[n] # NoChannel}

\* createSubscription.  There must be a channel, or the call throws at once; the
\* thread is started even if the server refuses.
CreateSubscription(n) ==
  /\ channel # NoChannel
  /\ polling' = polling \cup {channel}
  /\ \/ subs' = [subs EXCEPT ![n] = channel]
     \/ "subscribe" \in Failures /\ UNCHANGED subs
  /\ UNCHANGED <<pc, session, state, channel, namespace, serverVars>>

\* deleteSubscription: the last one stops the thread, which must be there, or the
\* call throws at once.  Whether the server deletes it makes no difference here.
DeleteSubscription(n) ==
  /\ Named # {n} \/ channel # NoChannel
  /\ subs' = [subs EXCEPT ![n] = NoChannel]
  /\ polling' = IF Named = {n} THEN polling \ {channel} ELSE polling
  /\ UNCHANGED <<pc, session, state, channel, namespace, serverVars>>

\* subscription(name) of the script's context, for a key it does not have.  What the session
\* has by that name, made for the other key, is as good as a new one; otherwise it makes
\* one.  What was refused is kept all the same, and found instead of being tried again; a
\* call that throws leaves nothing.
Subscription(k) ==
  /\ pc = "idle" /\ session
  /\ context[k] = "none"
  /\ IF NameOf(k) \in Named
     THEN UNCHANGED <<pc, session, sessionVars, serverVars, polling>>
     ELSE CreateSubscription(NameOf(k))
  /\ context' = [context EXCEPT ![k] = IF subs'[NameOf(k)] # NoChannel THEN "started" ELSE "refused"]

\* What delete() of a subscription of the script asks of the session, which may know
\* nothing of it.
DeleteNamed(n) ==
  IF n \in Named
  THEN DeleteSubscription(n)
  ELSE UNCHANGED <<pc, session, sessionVars, serverVars, polling>>

\* Mutation: a deleted subscription is still said to be started.
DeleteStaysStarted(k) ==
  /\ pc = "idle" /\ session
  /\ context[k] # "none"
  /\ DeleteNamed(NameOf(k))
  /\ UNCHANGED context

\* delete() of a subscription of the script, which stays in the context and is found there
\* but never started again.  The one the context has by the other key hears nothing of it.
Delete(k) ==
  /\ pc = "idle" /\ session
  /\ context[k] # "none"
  /\ DeleteNamed(NameOf(k))
  /\ context' = [context EXCEPT ![k] = "deleted"]

--------------------------------------------------------------------------------
Next ==
  \/ StartSession \/ StopSession \/ NextScript
  \/ MoveToNext
  \/ \E k \in Keys : Subscription(k) \/ Delete(k)

Spec == Init /\ [][Next]_vars

\* Every request is answered or fails; nothing makes a script call.
FairSpec == Spec /\ WF_vars(MoveToNext)

--------------------------------------------------------------------------------
(* Properties.                                                              *)

\* A session is READY only on a channel that the server has open.
ReadyIsConnected == session /\ state = "READY" => channel \in open

\* A publication thread is not left behind when its channel is given up, by a failure,
\* a new attempt or the end of the script, or it would poll for nobody.  One thing
\* leaves it behind: a stopSession that failed and forgets the session all the same, be it
\* because closing the channel failed or because browsing did, which a session that is
\* not READY has to do before it can be closed.
ThreadLeftByFailedStop ==
  [][channel' # channel /\ channel \in polling' => ~session /\ state = "ERROR"]_vars

\* What a script has found or deleted before tells the truth, whatever became of channel
\* and session since.  A subscription the session knows, and monitor() finds, isStarted by
\* a key of the script; and one that isStarted is known to the session, unless the script
\* gave its name in two ways and deleted it by the other.
StartedIsKnown ==
  session =>
    /\ \A n \in Named : \E k \in Keys : NameOf(k) = n /\ context[k] = "started"
    /\ \A k \in Keys : context[k] = "started" =>
         \/ NameOf(k) \in Named
         \/ \E j \in Keys \ {k} : NameOf(j) = NameOf(k) /\ context[j] = "deleted"

\* Every call of startSession and stopSession comes to its end.
CallReturns == Walking ~> ~Walking
================================================================================
