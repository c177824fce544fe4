------------------------------- MODULE MatMul -------------------------------
(***************************************************************************)
(* rtl/transformer/MatMul.sv with its systolic array (SA.sv, PE.sv,        *)
(* MAC.sv).  The product is made block by block.  For a block, a word of   *)
(* each operand is read in every cycle of FEED; they arrive a cycle later. *)
(* FLUSH clears the accumulators, and the rows of the block come out of    *)
(* the array one after the other while the next block is being fed.        *)
(*                                                                         *)
(* The skew of the array shifts in time what each element does, not what   *)
(* it does: here all of them take their operands when the words arrive,    *)
(* and row i of a block comes out Array + i + 1 cycles after the clear.    *)
(***************************************************************************)
EXTENDS Attention

VARIABLES
  state,                (* IDLE, FEED, FLUSH, WAIT_DONE              *)
  kIdx, br, bc, fed,    (* k_idx, br, bc, blocks_fed                 *)
  validIn, accClear,    (* valid_in, acc_clear                       *)
  acc,                  (* what each accumulator was fed             *)
  emerging,             (* rows inside the array, with cycles to go  *)
  outBr, outBc, outCounter

mmVars == <<state, kIdx, br, bc, fed, validIn, accClear, acc, emerging,
            outBr, outBc, outCounter>>

Init ==
  /\ state = "IDLE"
  /\ kIdx = 0 /\ br = 0 /\ bc = 0 /\ fed = 0
  /\ validIn = FALSE /\ accClear = FALSE
  /\ acc = [i \in Lane |-> [j \in Lane |-> <<>>]]
  /\ emerging = {}
  /\ outBr = 0 /\ outBc = 0 /\ outCounter = 0

-----------------------------------------------------------------------------
(* The part of the product that the mode asks for.                         *)
PerHeadK(m) == m.multiHead /\ ~m.calcZ

KStart(m)  == IF PerHeadK(m) THEN (m.head * Mat) \div Heads ELSE 0
KEnd(m)    == IF PerHeadK(m) THEN KStart(m) + (Mat \div Heads) - 1 ELSE Mat - 1
BcStart(m) == IF m.calcZ THEN (m.head * Blocks) \div Heads ELSE 0
BcEnd(m)   == IF m.calcZ THEN BcStart(m) + (Blocks \div Heads) - 1
              ELSE Blocks - 1
TotalBlocks(m) == Blocks * (BcEnd(m) - BcStart(m) + 1)

(* The block after block r, c: down the columns when the product is        *)
(* stored transposed, along the rows otherwise.                            *)
NextBlock(m, r, c) ==
  IF m.transpose
  THEN IF r = Blocks - 1 THEN <<0, (c + 1) % Array>> ELSE <<r + 1, c>>
  ELSE IF c = BcEnd(m) THEN <<(r + 1) % Array, BcStart(m)>> ELSE <<r, c + 1>>

ReadReq   == state = "FEED"
ReadAddrA == kIdx * Array + br
ReadAddrB == kIdx * Array + bc

(* The row that is out.                                                    *)
Emerged  == {e \in emerging : e.wait = 0}
ValidOut == Emerged # {}
OutRow   == (CHOOSE e \in Emerged : \A f \in Emerged : f.row <= e.row).row
OutData  == (CHOOSE e \in Emerged : e.row = OutRow).data
LastRowOut == \E e \in Emerged : e.row = Array - 1

Done(m) == ValidOut /\ outCounter = TotalBlocks(m) * Array - 1

-----------------------------------------------------------------------------
Read(start, m) ==
  CASE state = "IDLE" ->
         /\ state' = IF start THEN "FEED" ELSE state
         /\ kIdx' = KStart(m) /\ fed' = 0
         /\ br' = 0 /\ bc' = BcStart(m)
    [] state = "FEED" ->
         /\ state' = IF kIdx = KEnd(m) THEN "FLUSH" ELSE state
         /\ kIdx' = (kIdx + 1) % Mat
         /\ UNCHANGED <<br, bc, fed>>
    [] state = "FLUSH" ->
         /\ state' = IF fed = TotalBlocks(m) - 1 THEN "WAIT_DONE" ELSE "FEED"
         /\ kIdx' = KStart(m) /\ fed' = fed + 1
         /\ br' = NextBlock(m, br, bc)[1] /\ bc' = NextBlock(m, br, bc)[2]
    [] state = "WAIT_DONE" ->
         /\ state' = IF Done(m) THEN "IDLE" ELSE state
         /\ UNCHANGED <<kIdx, br, bc, fed>>

Control ==
  /\ validIn' = (state = "FEED")
  /\ accClear' = (state = "FLUSH")

Accumulate(a, b) ==
  acc' = [i \in Lane |-> [j \in Lane |->
            LET kept == IF accClear THEN <<>> ELSE acc[i][j]
            IN  IF validIn THEN Append(kept, <<a[i], b[j]>>) ELSE kept]]

Emerge ==
  emerging' =
    {[e EXCEPT !.wait = @ - 1] : e \in emerging \ Emerged}
    \cup {[wait |-> Array + i, row |-> i,
           data |-> [j \in Lane |-> Dot(acc[i][j])]] :
            i \in {l \in Lane : accClear}}

Place(m) ==
  IF state = "IDLE"
  THEN outBr' = 0 /\ outBc' = BcStart(m) /\ outCounter' = 0
  ELSE /\ IF LastRowOut
          THEN /\ outBr' = NextBlock(m, outBr, outBc)[1]
               /\ outBc' = NextBlock(m, outBr, outBc)[2]
          ELSE UNCHANGED <<outBr, outBc>>
       /\ outCounter' = IF ValidOut THEN outCounter + 1 ELSE outCounter

Clock(start, m, a, b) ==
  Read(start, m) /\ Control /\ Accumulate(a, b) /\ Emerge /\ Place(m)

-----------------------------------------------------------------------------
TypeOK ==
  /\ state \in {"IDLE", "FEED", "FLUSH", "WAIT_DONE"}
  /\ kIdx \in Index /\ br \in Lane /\ bc \in Lane
  /\ fed \in 0 .. Blocks * Blocks
  /\ validIn \in BOOLEAN /\ accClear \in BOOLEAN
  /\ \A i, j \in Lane : Len(acc[i][j]) <= Mat
  /\ emerging \subseteq [wait : 0 .. 2 * Array - 1, row : Lane, data : Word]
  /\ outBr \in Lane /\ outBc \in Lane
  /\ outCounter \in 0 .. Mat * Blocks
=============================================================================
