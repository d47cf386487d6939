----------------------------- MODULE UpdateChannel -----------------------------
(***************************************************************************)
(* What the delivery of item updates promises to the assertions: the       *)
(* updates are received in the order in which they were sent, each once,   *)
(* and none is passed over.  UpdateDelivery is shown to implement this.    *)
(***************************************************************************)
EXTENDS Naturals, Sequences

CONSTANT Updates

VARIABLES sent,      \* the updates sent so far
          received   \* the updates received so far

channelVars == <<sent, received>>

ChannelInit ==
  /\ sent = <<>>
  /\ received = <<>>

Send(u) ==
  /\ sent' = Append(sent, u)
  /\ UNCHANGED received

Receive ==
  /\ Len(received) < Len(sent)
  /\ received' = Append(received, sent[Len(received) + 1])
  /\ UNCHANGED sent

ChannelNext == (\E u \in Updates : Send(u)) \/ Receive

ChannelSpec == ChannelInit /\ [][ChannelNext]_channelVars
================================================================================
