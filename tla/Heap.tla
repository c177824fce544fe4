-------------------------------- MODULE Heap --------------------------------
(* What malloc and its relatives promise: chunks of the size asked for that *)
(* share no word with each other, and calls that touch no chunk but their   *)
(* own.                                                                     *)
EXTENDS Integers

CONSTANTS Words,     (* addresses the heap may hand out *)
          Requests   (* sizes asked for, in words       *)

VARIABLE chunks      (* [at, len]: the chunks in use    *)

Init == chunks = {}

IsChunk(c) == c.len \in Requests /\ c.at .. c.at + c.len - 1 \subseteq Words

(* A chunk of no words still has an address of its own.                     *)
Apart(c, d) == c.at # d.at /\ (c.at + c.len <= d.at \/ d.at + d.len <= c.at)

Add(c, others) ==
  /\ IsChunk(c) /\ \A d \in others : Apart(c, d)
  /\ chunks' = others \cup {c}

Alloc   == \E c \in chunks' : Add(c, chunks)
Release == \E c \in chunks : chunks' = chunks \ {c}
Resize  == \E c \in chunks, d \in chunks' : Add(d, chunks \ {c})

Next == Alloc \/ Release \/ Resize

Spec == Init /\ [][Next]_chunks
=============================================================================
