----------------------------- MODULE Transposer -----------------------------
(***************************************************************************)
(* rtl/transformer/Transposer.sv: two buffers of a block each.  Rows go    *)
(* into one while the columns of the other come out.                       *)
(***************************************************************************)
EXTENDS Attention

VARIABLES
  sel,       (* ping_pong_sel: the buffer being filled                 *)
  buf,       (* ping_buf, pong_buf                                     *)
  at,        (* ping_br and ping_bc, pong_br and pong_bc               *)
  readIdx, reading

trVars == <<sel, buf, at, readIdx, reading>>

Place == [br : Lane, bc : Lane]

Init ==
  /\ sel = 0
  /\ buf = [s \in {0, 1} |-> [i \in Lane |-> JunkWord]]
  /\ at = [s \in {0, 1} |-> [br |-> 0, bc |-> 0]]
  /\ readIdx = 0 /\ reading = FALSE

-----------------------------------------------------------------------------
(* The column under way, and the block it belongs to.                      *)
ValidOut == reading
OutCol   == readIdx
OutData  == [i \in Lane |-> buf[1 - sel][i][readIdx]]
OutPlace == at[1 - sel]

LastRow(row) == row = Array - 1

Clock(validIn, row, data, place) ==
  /\ IF validIn
     THEN /\ buf' = [buf EXCEPT ![sel] = [@ EXCEPT ![row] = data]]
          /\ at' = IF row = 0 THEN [at EXCEPT ![sel] = place] ELSE at
          /\ sel' = IF LastRow(row) THEN 1 - sel ELSE sel
     ELSE UNCHANGED <<buf, at, sel>>
  /\ IF validIn /\ LastRow(row)
     THEN readIdx' = 0 /\ reading' = TRUE
     ELSE IF reading
     THEN readIdx' = (readIdx + 1) % Array /\ reading' = ~LastRow(readIdx)
     ELSE UNCHANGED <<readIdx, reading>>

-----------------------------------------------------------------------------
TypeOK ==
  /\ sel \in {0, 1}
  /\ buf \in [{0, 1} -> [Lane -> Word]]
  /\ at \in [{0, 1} -> Place]
  /\ readIdx \in Lane /\ reading \in BOOLEAN
=============================================================================
