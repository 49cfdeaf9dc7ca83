---- MODULE MCSoundDma ----
\* A small instance of SoundDma with the order of the real sizes: the pre-step
\* is shorter than the queue, the queue than the shortest mix.
EXTENDS SoundDma
====
