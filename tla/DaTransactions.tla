----------------------------- MODULE DaTransactions -----------------------------
(***************************************************************************)
(* The callbacks of the OPC server into the native library, beside the     *)
(* groups and items of DaGroups: asynchronous reads and writes, which the  *)
(* server answers on threads of COM, and changes of data, while the        *)
(* script's thread makes and destroys the groups they belong to.           *)
(*                                                                         *)
(* A request is a CTransaction.  It is never deleted but when its call     *)
(* fails; the items it names go with their group.  What the code leaves    *)
(* undefined, as the use of an item that is gone, and an exception that no *)
(* code catches ends the process or does not (Undefined).                  *)
(***************************************************************************)
EXTENDS DaGroups

CONSTANTS
  Requests  \* bound: the asynchronous reads and writes of the scripts

ASSUME RequestsAssumption ==
  Requests \subseteq [id : Nat, group : Names, path : Paths, write : BOOLEAN]

VARIABLES
  stage,      \* how far the server and the callback are with it
  data,       \* what opcData has for its item
  completed,  \* how often setCompleted was called
  inCall,     \* the request the script's thread is in a COM call for, at most one
  destroying, \* the object whose group the script's thread is destroying, at most one
  advised,    \* the groups whose callback the server knows
  clinging,   \* history: those whose callback the server refused to forget
  changing,   \* the groups with a thread inside OnDataChange
  gone,       \* requests with a callback under way whose items were deleted
  stale,      \* groups deleted with an OnDataChange under way
  process     \* "up" or "down"

requestVars == <<stage, data, completed>>
callVars == <<inCall, destroying>>
callbackVars == <<advised, clinging, changing, gone, stale>>
transVars == <<vars, requestVars, callVars, callbackVars, process>>

Stages == {"unmade", "asked", "failed", "itemError", "queued", "sent", "stored", "done",
           "uncopied", "refused", "dropped"}

\* What is in opcData: NULL, or a datum, which is a value or an error.
Data == {"none", "datum"}

TransTypeOK ==
  /\ TypeOK
  /\ stage \in [Requests -> Stages]
  /\ data \in [Requests -> Data]
  /\ completed \in [Requests -> Nat]
  /\ inCall \subseteq Requests
  /\ destroying \subseteq Objects
  /\ advised \subseteq Names
  /\ clinging \subseteq Names
  /\ changing \subseteq Names
  /\ gone \subseteq Requests
  /\ stale \subseteq Names
  /\ process \in {"up", "down"}

TransInit ==
  /\ Init
  /\ stage = [r \in Requests |-> "unmade"]
  /\ data = [r \in Requests |-> "none"]
  /\ completed = [r \in Requests |-> 0]
  /\ inCall = {}
  /\ destroying = {}
  /\ advised = {}
  /\ clinging = {}
  /\ changing = {}
  /\ gone = {}
  /\ stale = {}
  /\ process = "up"

Up == process = "up" /\ scriptPc # "crashed"

\* The script's thread is in no call.
Idle == Up /\ inCall = {} /\ destroying = {}

RequestsOf(n) == {r \in Requests : r.group = n}

\* The outcomes of what the code leaves undefined, if it does.
Undefined(does) == process' \in IF does THEN {"up", "down"} ELSE {"up"}

\* The node of n is of an earlier session, whose COM pointers are dead.
LeftOver(n) == made[n] \notin {0, session}

\* The server forgets the requests rs it has not answered.
Dropped(rs) == stage' = [r \in Requests |->
                           IF r \in rs /\ stage[r] = "queued" THEN "dropped" ELSE stage[r]]

\* The objects of the groups ns are deleted; callbacks under way go on without them, and
\* so do those that a server will make which neither forgets the callback nor the group.
ObjectsDeleted(ns) ==
  /\ gone' = gone \cup {r \in Requests : r.group \in ns /\ stage'[r] \in {"queued", "sent", "stored"}}
  /\ stale' = stale \cup (ns \cap changing)

--------------------------------------------------------------------------------
(* The script's thread: the calls of DaGroups.                              *)

\* A new library is loaded where the old one was, whatever still runs in it.
ScriptStarts ==
  /\ Idle
  /\ StartScript
  /\ UNCHANGED <<requestVars, callVars, advised, clinging, changing, process>>
  /\ ObjectsDeleted(IF server' = 0 THEN Names ELSE {})

\* end() leaves COM: no more callbacks come.
ScriptEnds ==
  /\ Idle
  /\ EndSession
  /\ Dropped(Requests)
  /\ advised' = {}
  /\ clinging' = {}
  /\ UNCHANGED <<data, completed, callVars, changing, gone, stale, process>>

\* A group that is made has its callback set, or it is not kept.
GroupCall(o) ==
  /\ Idle
  /\ Group(o)
  /\ advised' = advised \cup {n \in {o[1]} : made[n] # made'[n]}
  /\ Undefined(made[o[1]] = 0 /\ server # session)
  /\ UNCHANGED <<requestVars, callVars, clinging, changing, gone, stale>>

\* What init browses may be a server that is left of an earlier session.
InitCall ==
  /\ Idle
  /\ InitSession
  /\ Undefined(addressSpace = {} /\ server' # session)
  /\ UNCHANGED <<requestVars, callVars, callbackVars>>

\* COPCItem.getDataType asks the server unless it knows.  If the server has an error for
\* the property there is no value to look at, but it is looked at.
TypeAsked(n) == Undefined(Refusals \/ LeftOver(n))

\* An item that is added is asked for its type.  The destructor of one that is refused frees
\* the result of its removal, which is not set if that fails.
ItemCall(o, key) ==
  /\ Idle
  /\ Item(o, key)
  /\ IF serverItems'[o[1]][key[1]] > serverItems[o[1]][key[1]]
     THEN TypeAsked(o[1])
     ELSE Undefined(LeftOver(o[1]) \/ o[1] \in refusedItems')
  /\ UNCHANGED <<requestVars, callVars, callbackVars>>

\* getItemDatatype catches no exception: a call that fails may end the process, too.
TypeCall(n) ==
  /\ Idle /\ scriptPc = "connected"
  /\ nodeItems[n] # {}
  /\ TypeAsked(n)
  /\ UNCHANGED <<vars, requestVars, callVars, callbackVars>>

\* The server forgets the callback, or refuses; the library does not look.
Unadvise(n) ==
  \/ advised' = advised \ {n} /\ UNCHANGED clinging
  \/ Refusals /\ clinging' = clinging \cup ({n} \cap advised) /\ UNCHANGED advised

\* Mutation: the node's destructor does not disable the callback.
DestroyBeginsAdvised(o) ==
  /\ Idle /\ scriptPc = "connected" /\ o \in objects
  /\ destroying' = {o}
  /\ UNCHANGED <<vars, requestVars, inCall, callbackVars, process>>

\* disableAsynch: first the server's callback and the handler of a group go ...
DestroyBegins(o) ==
  /\ Idle /\ scriptPc = "connected" /\ o \in objects
  /\ destroying' = {o}
  /\ IF made[o[1]] = 0 THEN UNCHANGED <<advised, clinging>> ELSE Unadvise(o[1])
  /\ Undefined(LeftOver(o[1]))
  /\ UNCHANGED <<vars, requestVars, inCall, changing, gone, stale>>

\* ... then its items and the group itself, here and in the server.  A server that keeps
\* the group answers what it was asked if it kept the callback, too.  The destructor of an
\* item whose removal fails frees a pointer that was not set.
DestroyEnds(o) ==
  /\ Up /\ o \in destroying
  /\ Destroy(o)
  /\ destroying' = {}
  /\ IF made[o[1]] = 0
     THEN UNCHANGED <<stage, advised, clinging, gone, stale>>
     ELSE /\ advised' = advised \ ({o[1]} \ serverGroups')
          /\ clinging' = clinging \ ({o[1]} \ serverGroups')
          /\ Dropped(IF o[1] \in advised' THEN {} ELSE RequestsOf(o[1]))
          /\ ObjectsDeleted({o[1]})
  /\ Undefined(nodeItems[o[1]] # {} /\ (Refusals \/ LeftOver(o[1])))
  /\ UNCHANGED <<data, completed, inCall, changing>>

--------------------------------------------------------------------------------
(* Asynchronous requests.                                                   *)

\* readItemAsync, writeItemAsync: a transaction is made and its address given to the server.
Ask(r) ==
  /\ Idle /\ scriptPc = "connected"
  /\ stage[r] = "unmade"
  /\ r.path \in nodeItems[r.group]
  /\ stage' = [stage EXCEPT ![r] = "asked"]
  /\ inCall' = {r}
  /\ UNCHANGED <<vars, data, completed, destroying, callbackVars, process>>

\* What the server makes of the call: it fails, it has an error for the one item, when no
\* callback comes, or it will answer.  It may do that before the call is back.
Decides(r, outcome) ==
  /\ Up /\ stage[r] = "asked"
  /\ stage' = [stage EXCEPT ![r] = outcome]
  /\ UNCHANGED <<vars, data, completed, callVars, callbackVars, process>>

CallFails(r) == (Refusals \/ made[r.group] # session) /\ Decides(r, "failed")
ItemFails(r) == made[r.group] = session /\ (Refusals \/ r.path \notin Added(r.group))
                /\ Decides(r, "itemError")
Accepts(r) == made[r.group] = session /\ r.path \in Added(r.group) /\ Decides(r, "queued")

\* setCompleted, TransactionCompleteHandler.complete: the handler reads the datum of the
\* item, converts its value to a text, and reads the item's name.  A value that was read may
\* have no text, as an array: the conversion throws, and no code catches it.
SetCompleted(r) ==
  /\ completed' = [completed EXCEPT ![r] = @ + 1]
  /\ Undefined(data'[r] = "none" \/ r \in gone \/ (stage[r] = "stored" /\ ~r.write))

CallBack(r) ==
  /\ inCall' = inCall \ {r}
  /\ UNCHANGED <<vars, destroying, callbackVars>>

\* The call failed: the transaction is deleted.
CallThrows(r) ==
  /\ Up /\ r \in inCall /\ stage[r] = "failed"
  /\ stage' = [stage EXCEPT ![r] = "refused"]
  /\ CallBack(r)
  /\ UNCHANGED <<data, completed, process>>

\* Mutation: an item's error is stored but the transaction not completed.
CallReturnsOpen(r) ==
  /\ Up /\ r \in inCall /\ stage[r] \notin {"asked", "failed"}
  /\ IF stage[r] = "itemError" THEN data' = [data EXCEPT ![r] = "datum"] ELSE UNCHANGED data
  /\ CallBack(r)
  /\ UNCHANGED <<stage, completed, process>>

\* Mutation: the transaction is completed whatever the server says of its item.
CallReturnsDone(r) ==
  /\ Up /\ r \in inCall /\ stage[r] \notin {"asked", "failed"}
  /\ data' = [data EXCEPT ![r] = IF stage[r] = "itemError" THEN "datum" ELSE @]
  /\ stage' = [stage EXCEPT ![r] = IF @ = "itemError" THEN "done" ELSE @]
  /\ SetCompleted(r)
  /\ CallBack(r)

\* The call returned: the cancel id is set, after the callback even; an item that
\* failed gets its error, and completes the transaction.
CallReturns(r) ==
  /\ Up /\ r \in inCall /\ stage[r] \notin {"asked", "failed"}
  /\ IF stage[r] = "itemError"
     THEN /\ data' = [data EXCEPT ![r] = "datum"]
          /\ stage' = [stage EXCEPT ![r] = "done"]
          /\ SetCompleted(r)
     ELSE UNCHANGED <<data, stage, completed, process>>
  /\ CallBack(r)

--------------------------------------------------------------------------------
(* The threads of COM.                                                      *)

\* The server calls back, as long as it knows the group's callback.
Answer(r) ==
  /\ Up /\ stage[r] = "queued" /\ r.group \in advised
  /\ stage' = [stage EXCEPT ![r] = "sent"]
  /\ UNCHANGED <<vars, data, completed, callVars, callbackVars, process>>

\* OnReadComplete stores the datum of the item, OnWriteComplete its error code; the
\* answer to a write may name fewer items than were sent, so none.
Store(r) ==
  /\ Up /\ stage[r] = "sent"
  /\ stage' = [stage EXCEPT ![r] = "stored"]
  /\ \/ data' = [data EXCEPT ![r] = "datum"]
     \/ r.write /\ UNCHANGED data
  /\ UNCHANGED <<vars, completed, callVars, callbackVars, process>>

\* A value that cannot be copied throws (VarCopy failed), and the transaction stays open.
CopyFails(r) ==
  /\ Up /\ stage[r] = "sent" /\ ~r.write
  /\ stage' = [stage EXCEPT ![r] = "uncopied"]
  /\ Undefined(TRUE)
  /\ gone' = gone \ {r}
  /\ UNCHANGED <<vars, data, completed, callVars, advised, clinging, changing, stale>>

Complete(r) ==
  /\ Up /\ stage[r] = "stored"
  /\ stage' = [stage EXCEPT ![r] = "done"]
  /\ UNCHANGED data
  /\ SetCompleted(r)
  /\ gone' = gone \ {r}
  /\ UNCHANGED <<vars, callVars, advised, clinging, changing, stale>>

\* OnDataChange: a thread enters, in a group that was deleted even if the server keeps
\* both the group and its callback, ...
Change(n) ==
  /\ Up /\ n \in advised \ changing
  /\ changing' = changing \cup {n}
  /\ stale' = IF made[n] = session THEN stale ELSE stale \cup {n}
  /\ UNCHANGED <<vars, requestVars, callVars, advised, clinging, gone, process>>

\* ... reads the group's handler, and gives it the items that changed unless there is none.
\* Their values are copied and converted to texts, which throws for some.
Handle(n) ==
  /\ Up /\ n \in changing
  /\ changing' = changing \ {n}
  /\ stale' = stale \ {n}
  /\ Undefined(TRUE)
  /\ UNCHANGED <<vars, requestVars, callVars, advised, clinging, gone>>

--------------------------------------------------------------------------------
ComStep(r) == Store(r) \/ CopyFails(r) \/ Complete(r)
ServerStep(r) == CallFails(r) \/ ItemFails(r) \/ Accepts(r) \/ Answer(r)
CallStep(r) == CallThrows(r) \/ CallReturns(r)

TransNext ==
  \/ ScriptStarts \/ ScriptEnds \/ InitCall
  \/ \E o \in Objects : GroupCall(o) \/ DestroyBegins(o) \/ DestroyEnds(o)
  \/ \E o \in Objects, key \in ItemKeys : ItemCall(o, key)
  \/ \E n \in Names : TypeCall(n)
  \/ \E r \in Requests : Ask(r) \/ ServerStep(r) \/ CallStep(r) \/ ComStep(r)
  \/ \E n \in Names : Change(n) \/ Handle(n)

TransSpec == TransInit /\ [][TransNext]_transVars

\* Threads go on with what they are in, and the server answers what it accepted.  Each
\* request has a few steps only, so none can starve another.
FairTransSpec ==
  /\ TransSpec
  /\ WF_transVars(\E o \in Objects : DestroyEnds(o))
  /\ WF_transVars(\E r \in Requests : ServerStep(r))
  /\ WF_transVars(\E r \in Requests : CallStep(r))
  /\ WF_transVars(\E r \in Requests : ComStep(r))

--------------------------------------------------------------------------------
(* Properties.                                                              *)

\* The server calls back only into groups that the library has alive: from the time that
\* enableAsynch returned until the destructor's disableAsynch, through failed calls,
\* leftovers of other sessions, groups that the server keeps, and groups made again, unless
\* the server refused to forget the callback.
AdvisedIsAlive ==
  \A n \in advised \ clinging : scriptPc = "connected" /\ made[n] = session /\ n \in serverGroups

\* A transaction completes at most once, in the script's thread or in a COM thread but
\* not in both, and with the datum of its item, unless the server's answer named none.
CompletionIsWhole ==
  \A r \in Requests :
    /\ completed[r] = (IF stage[r] = "done" THEN 1 ELSE 0)
    /\ completed[r] = 1 /\ data[r] = "none" => r.write

\* Every transaction that is made comes to an end: it completes, its call fails, its value
\* cannot be copied, or it goes with its group or session; or the process is down.
EveryRequestEnds ==
  \A r \in Requests :
    stage[r] = "asked" ~> stage[r] \in {"done", "refused", "uncopied", "dropped"} \/ ~Up
================================================================================
