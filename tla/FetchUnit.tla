------------------------------ MODULE FetchUnit -----------------------------
(***************************************************************************)
(* rtl/cpu/core/fcu.sv and if_id_pipeline.sv: the program counter and the  *)
(* register that hands instructions to the decoder.  A prediction          *)
(* (pred_taken and pred_target) is stood for by the address it makes the   *)
(* program counter go to.                                                  *)
(*                                                                         *)
(* Inputs: instr, valid and ready from the instruction cache, stall from   *)
(* the hazard unit, redirect (ex_mispredict and ex_correct_pc, NoRedirect  *)
(* when low) and predNext from the predictor.                              *)
(***************************************************************************)
CONSTANTS
  WordAddr,    (* addresses                            *)
  ResetPc      (* PC_RESET_VEC                         *)

VARIABLES
  pc,           (* pc_reg                                             *)
  ignoreValid,  (* the cycle after a redirect                         *)
  cwfConsumed,  (* the critical word of this refill was handed over   *)
  ifId          (* the IF/ID register                                 *)

fuVars == <<pc, ignoreValid, cwfConsumed, ifId>>

NoRedirect == [kind |-> "none"]
Redirect   == [kind : {"redirect"}, to : WordAddr] \cup {NoRedirect}

Nop  == [kind |-> "nop"]
Slot == [kind : {"instr"}, pc : WordAddr, instr : WordAddr, next : WordAddr] \cup {Nop}

Init ==
  /\ pc = ResetPc
  /\ ignoreValid = FALSE
  /\ cwfConsumed = FALSE
  /\ ifId = Nop

-----------------------------------------------------------------------------
IfReq(stall, redirect) == ~stall /\ redirect = NoRedirect

Advances(valid, ready, stall) == ~stall /\ valid /\ ready /\ ~ignoreValid

(* if_id_flush. *)
Flush(valid, stall, redirect) ==
  redirect # NoRedirect \/ ((~valid \/ cwfConsumed) /\ ~stall)

ConsumesCritical(valid, ready, stall) == valid /\ ~ready /\ ~stall

Clock(instr, valid, ready, stall, redirect, predNext) ==
  /\ pc' = IF redirect # NoRedirect THEN redirect.to
           ELSE IF Advances(valid, ready, stall) THEN predNext
           ELSE pc
  /\ ignoreValid' = (redirect # NoRedirect)
  /\ cwfConsumed' = IF ready \/ redirect # NoRedirect THEN FALSE
                    ELSE cwfConsumed \/ ConsumesCritical(valid, ready, stall)
  /\ ifId' = IF Flush(valid, stall, redirect) THEN Nop
             ELSE IF stall THEN ifId
             ELSE IF ignoreValid THEN Nop
             ELSE [kind |-> "instr", pc |-> pc, instr |-> instr, next |-> predNext]

-----------------------------------------------------------------------------
TypeOK ==
  /\ pc \in WordAddr
  /\ ignoreValid \in BOOLEAN
  /\ cwfConsumed \in BOOLEAN
  /\ ifId \in Slot
=============================================================================
