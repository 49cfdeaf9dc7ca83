------------------------------ MODULE EventFifo ------------------------------
(* What the input ring promises to the engine, without slots or indices: a   *)
(* bounded first-in first-out queue between one producer and one consumer.   *)
(* An event is lost only when the queue is full at the moment it is given    *)
(* up, and the consumer holds one event at a time.                           *)
EXTENDS Naturals, Sequences

CONSTANTS Event,     \* the events that can be queued
          Capacity   \* how many of them the queue holds

VARIABLES queue,     \* the events accepted and not yet taken, oldest first
          hand,      \* the events taken and not yet dispatched: none or one
          lost       \* the keys whose latest event was lost

vars == <<queue, hand, lost>>

Init == queue = <<>> /\ hand = <<>> /\ lost = {}

Put(e) ==
  /\ Len(queue) < Capacity
  /\ queue' = Append(queue, e)
  /\ lost' = lost \ {e.key}
  /\ UNCHANGED hand

Lose(e) ==
  /\ Len(queue) = Capacity
  /\ lost' = lost \union {e.key}
  /\ UNCHANGED <<queue, hand>>

Take ==
  /\ hand = <<>>
  /\ queue # <<>>
  /\ hand' = <<Head(queue)>>
  /\ queue' = Tail(queue)
  /\ UNCHANGED lost

Dispatch ==
  /\ hand # <<>>
  /\ hand' = <<>>
  /\ UNCHANGED <<queue, lost>>

Next == (\E e \in Event : Put(e) \/ Lose(e)) \/ Take \/ Dispatch

Spec == Init /\ [][Next]_vars
==============================================================================
