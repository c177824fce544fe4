------------------------------- MODULE MCHeap -------------------------------
(* A heap of twelve words.                                                  *)
EXTENDS TinyMalloc
=============================================================================
