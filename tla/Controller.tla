----------------------------- MODULE Controller -----------------------------
(***************************************************************************)
(* rtl/transformer/Controller.sv: the order of the stages of multi-head    *)
(* attention.  A pair of states CALC_x, WAIT_x of the code is a job x that *)
(* does not wait yet, for the one cycle in which it starts the datapath,   *)
(* and then waits for stage_done.                                          *)
(***************************************************************************)
EXTENDS Naturals

CONSTANT Heads   (* NUM_HEADS *)

VARIABLES
  job,       (* what the state is about                     *)
  waiting,   (* is it the WAIT state of that job?           *)
  head       (* head_idx                                    *)

ctVars == <<job, waiting, head>>

MatMulJob == {"Q", "K", "V", "E", "Z", "OUT"}
Stage     == MatMulJob \cup {"SOFTMAX", "TRANSPOSE"}
Job       == Stage \cup {"IDLE", "LAYERNORM", "DONE"}

Init ==
  /\ job = "IDLE" /\ waiting = FALSE
  /\ head = 0

-----------------------------------------------------------------------------
(* Outputs. *)
StartMatMul    == job \in MatMulJob /\ ~waiting
StartSoftmax   == job = "SOFTMAX" /\ ~waiting
StartTranspose == job = "TRANSPOSE" /\ ~waiting

(* How the product is made, and where its operands are and its result      *)
(* goes: the memories are X and 0 to 4.                                    *)
Mode == [transpose |-> job \in {"Q", "K", "Z"},
         multiHead |-> job \in {"E", "Z"},
         calcZ     |-> job = "Z",
         head      |-> head]

InA  == [Q |-> "X", K |-> "X", V |-> "X", E |-> "3", Z |-> "1", OUT |-> "3"]
InB  == [Q |-> "0", K |-> "1", V |-> "2", E |-> "4", Z |-> "0", OUT |-> "4"]
SelA == IF job \in MatMulJob THEN InA[job] ELSE "X"
SelB == IF job \in MatMulJob THEN InB[job] ELSE "X"

Result == [Q |-> "3", K |-> "4", V |-> "0", E |-> "1", Z |-> "3", OUT |-> "0"]
Enabled == {Result[j] : j \in MatMulJob \cap {job}}

-----------------------------------------------------------------------------
(* Fault: the heads are counted one short, or one over. *)
LastHeadEarly == head = Heads - 2
LastHeadLate  == head = Heads
LastHead == head = Heads - 1

(* Fault: S is multiplied as the softmax unit wrote it. *)
FollowsUnturned == [Q |-> "K", K |-> "V", V |-> "E", E |-> "SOFTMAX",
                    SOFTMAX |-> "Z", TRANSPOSE |-> "Z", OUT |-> "DONE"]
Follows == [Q |-> "K", K |-> "V", V |-> "E", E |-> "SOFTMAX",
            SOFTMAX |-> "TRANSPOSE", TRANSPOSE |-> "Z", OUT |-> "DONE"]

Rest(systemStart) ==
  /\ job = "IDLE"
  /\ job' = IF systemStart THEN "LAYERNORM" ELSE job
  /\ UNCHANGED <<waiting, head>>

PassOn ==
  \/ /\ job = "LAYERNORM"
     /\ job' = "Q"
     /\ UNCHANGED <<waiting, head>>
  \/ /\ job = "DONE"
     /\ job' = "IDLE"
     /\ UNCHANGED <<waiting, head>>

Begin ==
  /\ job \in Stage /\ ~waiting
  /\ waiting' = TRUE
  /\ UNCHANGED <<job, head>>

Await(stageDone) ==
  /\ waiting
  /\ waiting' = ~stageDone
  /\ IF ~stageDone THEN UNCHANGED <<job, head>>
     ELSE IF job # "Z" THEN job' = Follows[job] /\ UNCHANGED head
     ELSE IF LastHead THEN job' = "OUT" /\ head' = 0
     ELSE job' = "E" /\ head' = head + 1

Clock(systemStart, stageDone) ==
  Rest(systemStart) \/ PassOn \/ Begin \/ Await(stageDone)

-----------------------------------------------------------------------------
TypeOK == job \in Job /\ waiting \in BOOLEAN /\ head \in 0 .. Heads - 1
=============================================================================
