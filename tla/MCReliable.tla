---- MODULE MCReliable ----
\* A small instance of ReliableCommands: rings of two commands.
EXTENDS ReliableCommands
====
