--------------------------- MODULE MCTransformer ---------------------------
(* The accelerator with blocks of Array rows and columns, and its stopwatch. *)
EXTENDS Stopwatch
=============================================================================
