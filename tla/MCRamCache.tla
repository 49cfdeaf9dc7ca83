---- MODULE MCRamCache ----
\* A small instance of RamCache: two archives, three buffers, three FILEs.
EXTENDS RamCache
====
