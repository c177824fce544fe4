----------------------------- MODULE FetchStream ----------------------------
(***************************************************************************)
(* What the instruction side promises the decoder: one instruction after   *)
(* another along the predicted path, each exactly once, with bubbles and   *)
(* waits in between, until a redirect starts it somewhere else.            *)
(***************************************************************************)
CONSTANTS
  WordAddr,   (* addresses of instructions        *)
  ResetPc     (* where the program starts         *)

VARIABLES
  next,       (* the next instruction to hand over             *)
  slot,       (* what the decoder has                          *)
  redirected  (* was the last step a redirect?                 *)

Nop == [kind |-> "nop"]

Init ==
  /\ next = ResetPc
  /\ slot = Nop
  /\ redirected = FALSE

(* The instruction at the address it is wanted from, and a successor.      *)
Deliver(succ) ==
  /\ slot' = [kind |-> "instr", pc |-> next, instr |-> next, next |-> succ]
  /\ next' = succ
  /\ redirected' = FALSE

Bubble ==
  /\ slot' = Nop
  /\ redirected' = FALSE
  /\ UNCHANGED next

Wait ==
  /\ redirected' = FALSE
  /\ UNCHANGED <<slot, next>>

Restart(a) ==
  /\ slot' = Nop
  /\ next' = a
  /\ redirected' = TRUE

Next ==
  \/ \E succ \in WordAddr : Deliver(succ)
  \/ Bubble
  \/ Wait
  \/ \E a \in WordAddr : Restart(a)

Spec == Init /\ [][Next]_<<next, slot, redirected>>
=============================================================================
