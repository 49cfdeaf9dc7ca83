---------------------------- MODULE ReliableStream ----------------------------
(* What reliable commands promise in one direction while the connection       *)
(* stands: the commands given are executed one by one, each once, in order    *)
(* and none left out. Nothing is promised once the connection is broken.      *)
EXTENDS Naturals, Sequences

VARIABLES given,    \* how many commands were given: 1, 2, ..., given
          done,     \* the commands executed, in order
          broken    \* the connection is over

vars == <<given, done, broken>>

Init == given = 0 /\ done = <<>> /\ broken = FALSE

Give == given' > given /\ UNCHANGED <<done, broken>>

\* One call may execute several commands.
Execute(n) ==
  /\ n \in (Len(done) + 1)..given
  /\ done' = [i \in 1..n |-> IF i <= Len(done) THEN done[i] ELSE i]
  /\ UNCHANGED <<given, broken>>

Break == broken' = TRUE

Next ==
  \/ ~broken /\ (Give \/ Break \/ \E n \in 1..given : Execute(n))
  \/ broken /\ broken'

Spec == Init /\ [][Next]_vars
==============================================================================
