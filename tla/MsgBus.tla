------------------------------- MODULE MsgBus ------------------------------
(***************************************************************************)
(* What msg.c promises to the tasks: a set of pending events, each served  *)
(* once however often it was raised, and behind them a FIFO of messages.   *)
(* A message may be lost as a whole when it is posted, never in part.      *)
(***************************************************************************)
EXTENDS Naturals, Sequences

CONSTANTS
  Events,    \* event numbers, the smaller served first
  Messages,  \* records [id, args]
  Lens,      \* sizes of the buffer a reader hands over
  Nothing    \* the reply of a get that found nothing

VARIABLES pending, queue, last

busVars == <<pending, queue, last>>

\* Events and messages as the reader sees them: a buffer of len words shows
\* the number and the first len - 1 arguments.
EventReply(e) == [kind |-> "event", id |-> e, args |-> <<>>]
MsgReply(m, len) ==
  [kind |-> "msg", id |-> m.id,
   args |-> IF Len(m.args) < len THEN m.args ELSE SubSeq(m.args, 1, len - 1)]

BusInit ==
  /\ pending = {}
  /\ queue = <<>>
  /\ last = Nothing

Raise(S) ==
  /\ pending' = pending \union S
  /\ UNCHANGED <<queue, last>>

Send(m) ==
  /\ queue' = Append(queue, m)
  /\ UNCHANGED <<pending, last>>

Flush ==
  /\ queue' = <<>>
  /\ UNCHANGED <<pending, last>>

DeliverEvent ==
  \E e \in pending :
    /\ \A d \in pending : e <= d
    /\ pending' = pending \ {e}
    /\ last' = EventReply(e)
    /\ UNCHANGED queue

DeliverMsg ==
  /\ pending = {}
  /\ queue # <<>>
  /\ \E len \in Lens : last' = MsgReply(Head(queue), len)
  /\ queue' = Tail(queue)
  /\ UNCHANGED pending

DeliverNothing ==
  /\ pending = {}
  /\ queue = <<>>
  /\ last' = Nothing
  /\ UNCHANGED <<pending, queue>>

BusNext ==
  \/ \E S \in SUBSET Events : Raise(S)
  \/ \E m \in Messages : Send(m)
  \/ Flush
  \/ DeliverEvent
  \/ DeliverMsg
  \/ DeliverNothing

BusSpec == BusInit /\ [][BusNext]_busVars
=============================================================================
