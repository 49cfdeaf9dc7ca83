------------------------------- MODULE RamCache -------------------------------
(* The cache of .pk3 archives in RAM (circle/sys_circle.cpp): __wrap_fopen     *)
(* loads an archive into a heap buffer the first time it is opened for reading *)
(* and from then on returns FILEs over the buffer (fopencookie), each with a   *)
(* RamCookie of its own. Entries are replaced, never removed. A call runs to   *)
(* its end: only the engine's task opens archives, so the Yield in the read    *)
(* loop lets no other call in. Sizes are left out: whether the heap has room   *)
(* is a choice.                                                                *)
CONSTANTS
  Paths,     \* the archives
  Buffers,   \* the addresses malloc may return
  Files,     \* the FILE objects
  None

ASSUME CacheAssumption == None \notin Paths \union Buffers

VARIABLES
  cache,     \* g_ramCache: the buffer of each archive, or None
  content,   \* the archive each buffer holds, None when malloc may return it
  file,      \* the FILE objects
  usable,    \* history: the FILE that __wrap_fopen returned last was open
  failed     \* history: fopencookie has failed after a load

vars == <<cache, content, file, usable, failed>>

Closed    == [open |-> FALSE, path |-> None, buffer |-> None]
Disk(p)   == [open |-> TRUE, path |-> p, buffer |-> None]
Ram(p, b) == [open |-> TRUE, path |-> p, buffer |-> b]

Init ==
  /\ cache = [p \in Paths |-> None]
  /\ content = [b \in Buffers |-> None]
  /\ file = [f \in Files |-> Closed]
  /\ usable = TRUE /\ failed = FALSE

\* A hit: another FILE over the buffer.
OpenCached(p, f) ==
  /\ cache[p] # None
  /\ ~file[f].open
  /\ file' = [file EXCEPT ![f] = Ram(p, cache[p])]
  /\ usable' = TRUE
  /\ UNCHANGED <<cache, content, failed>>

\* A miss, or a hit for which fopencookie fails, that ends with the FILE on
\* disk: the archive is empty, the heap too full or a read fails. The buffer
\* of a failed read has been freed.
OpenDisk(p, f) ==
  /\ ~file[f].open
  /\ file' = [file EXCEPT ![f] = Disk(p)]
  /\ usable' = TRUE
  /\ UNCHANGED <<cache, content, failed>>

\* A miss, or a hit for which fopencookie fails: the archive is loaded. A
\* buffer that was cached before stays allocated.
Load(p, f, b) ==
  /\ ~file[f].open
  /\ content[b] = None
  /\ content' = [content EXCEPT ![b] = p]
  /\ cache' = [cache EXCEPT ![p] = b]
  /\ file' = [file EXCEPT ![f] = Ram(p, b)]
  /\ usable' = TRUE
  /\ UNCHANGED failed

\* fopencookie fails after a load: the buffer is freed while the cache still
\* names it, and the FILE on disk is returned though it has been closed.
LoadNoCookie(p, f, b) ==
  /\ ~file[f].open
  /\ content[b] = None
  /\ cache' = [cache EXCEPT ![p] = b]
  /\ usable' = FALSE /\ failed' = TRUE
  /\ UNCHANGED <<content, file>>

\* Mutant: ram_close frees the data as well as the cookie.
CloseFreeing(f) ==
  /\ file[f].open
  /\ content' = [b \in Buffers |-> IF b = file[f].buffer THEN None ELSE content[b]]
  /\ file' = [file EXCEPT ![f] = Closed]
  /\ UNCHANGED <<cache, usable, failed>>

\* __wrap_fclose and ram_close.
Close(f) ==
  /\ file[f].open
  /\ file' = [file EXCEPT ![f] = Closed]
  /\ UNCHANGED <<cache, content, usable, failed>>

Next ==
  \/ \E p \in Paths, f \in Files :
       \/ OpenCached(p, f) \/ OpenDisk(p, f)
       \/ \E b \in Buffers : Load(p, f, b) \/ LoadNoCookie(p, f, b)
  \/ \E f \in Files : Close(f)

Spec == Init /\ [][Next]_vars

-----------------------------------------------------------------------------
(* Properties.                                                               *)

\* Every variable keeps its type.
TypeOK ==
  /\ cache \in [Paths -> Buffers \union {None}]
  /\ content \in [Buffers -> Paths \union {None}]
  /\ file \in [Files -> {Closed} \union { Disk(p) : p \in Paths }
                        \union { Ram(p, b) : p \in Paths, b \in Buffers }]
  /\ usable \in BOOLEAN /\ failed \in BOOLEAN

\* Unless fopencookie fails after a load, an entry of the cache and an open
\* FILE over a buffer find in it the archive they are for, in whatever order
\* archives are opened, replaced in the cache and closed.
BuffersLive ==
  ~failed =>
    /\ \A p \in Paths : cache[p] # None => content[cache[p]] = p
    /\ \A f \in Files : file[f].buffer # None => content[file[f].buffer] = file[f].path

\* "On read failure or fopencookie error, free memory and fall back"
\* (__wrap_fopen): the FILE returned can be read.
FallbackUsable == usable
=============================================================================
