----------------------------- MODULE LossyChannel -----------------------------
(* What a netchan promises to the layers above it, over a network that loses, *)
(* repeats and reorders packets: a message that arrives is one that was sent, *)
(* complete, and later in the order of sending than every message before it.  *)
EXTENDS Naturals, Sequences

CONSTANT Message

VARIABLES given,   \* the messages handed to the sender, in order
          last,    \* the place in given of the latest one that arrived, or 0
          got      \* the message that arrived last: none or one

vars == <<given, last, got>>

Init == given = <<>> /\ last = 0 /\ got = <<>>

Send(m) ==
  /\ given' = Append(given, m)
  /\ UNCHANGED <<last, got>>

Arrive(i) ==
  /\ i > last
  /\ last' = i
  /\ got' = <<given[i]>>
  /\ UNCHANGED given

Next == (\E m \in Message : Send(m)) \/ (\E i \in 1..Len(given) : Arrive(i))

Spec == Init /\ [][Next]_vars
==============================================================================
