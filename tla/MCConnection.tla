---- MODULE MCConnection ----
\* A small instance of Connection: the cfgs give the constants.
EXTENDS Connection, TLC
====
