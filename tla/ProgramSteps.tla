---------------------------- MODULE ProgramSteps ----------------------------
(* The steps test programs have in common; see Spmd.                        *)
EXTENDS Integers

Barrier == [kind |-> "barrier"]    (* barrier(nc)                           *)
Verify  == [kind |-> "verify"]     (* verify, and exit if it finds an error *)

Wrong == -1    (* in a sum: a term added twice, or a product of elements of *)
               (* A and B that is no term of the element it is added to     *)
=============================================================================
