------------------------------ MODULE Softmax ------------------------------
(***************************************************************************)
(* rtl/transformer/Softmax.sv: three stages work on three rows in a row.   *)
(* The first reads a row and finds its maximum, the second makes the       *)
(* exponentials and their sum, the third divides and writes.  A row takes  *)
(* one cycle for each of its words and one more, for the word that is      *)
(* still to arrive.  The literals 8, 64, 65, 66 of the code are Blocks,    *)
(* Mat, Mat + 1 and Mat + 2.                                               *)
(***************************************************************************)
EXTENDS Attention

VARIABLES
  state,                      (* IDLE, RUNNING, DONE                    *)
  cycleCnt, pipeRow,
  prevEn, prevChunk, prevRow, (* the read whose word arrives            *)
  rowBuffer, rowMax,          (* of an even and of an odd row           *)
  expBuffer, expSum,          (* the same                               *)
  writeReq, writeAddr, writeData

sfVars == <<state, cycleCnt, pipeRow, prevEn, prevChunk, prevRow, rowBuffer,
            rowMax, expBuffer, expSum, writeReq, writeAddr, writeData>>

Chunk  == 0 .. Blocks - 1
Parity == {0, 1}

Init ==
  /\ state = "IDLE" /\ cycleCnt = 0 /\ pipeRow = 0
  /\ prevEn = FALSE /\ prevChunk = 0 /\ prevRow = 0
  /\ rowBuffer = [p \in Parity |-> [k \in Chunk |-> JunkWord]]
  /\ rowMax = [p \in Parity |-> {}]
  /\ expBuffer = [p \in Parity |-> [k \in Chunk |->
                    [i \in Lane |-> <<Junk, {}>>]]]
  /\ expSum = [p \in Parity |-> <<>>]
  /\ writeReq = FALSE /\ writeAddr = 0 /\ writeData = JunkWord

-----------------------------------------------------------------------------
Sequence(start) ==
  CASE state = "IDLE" ->
         /\ state' = IF start THEN "RUNNING" ELSE state
         /\ cycleCnt' = 0 /\ pipeRow' = 0
    [] state = "RUNNING" ->
         IF cycleCnt # Blocks
         THEN cycleCnt' = cycleCnt + 1 /\ UNCHANGED <<state, pipeRow>>
         ELSE /\ cycleCnt' = 0
              /\ IF pipeRow = Mat + 1
                 THEN state' = "DONE" /\ UNCHANGED pipeRow
                 ELSE pipeRow' = pipeRow + 1 /\ UNCHANGED state
    [] state = "DONE" ->
         state' = "IDLE" /\ UNCHANGED <<cycleCnt, pipeRow>>

(* Stage n (0, 1 or 2) is at a word of the row n before pipeRow.           *)
RowAt(n)  == pipeRow - n
Busy(n)   == /\ state = "RUNNING" /\ cycleCnt < Blocks
             /\ pipeRow >= n /\ pipeRow < Mat + n

ReadReq  == Busy(0)
ReadAddr == pipeRow * Blocks + cycleCnt

FindMax(word) ==
  /\ prevEn' = Busy(0)
  /\ prevChunk' = cycleCnt % Blocks
  /\ prevRow' = pipeRow % Mat
  /\ IF ~prevEn THEN UNCHANGED <<rowBuffer, rowMax>>
     ELSE LET p    == prevRow % 2
              seen == {word[i] : i \in Lane}
          IN  /\ rowBuffer' = [rowBuffer EXCEPT ![p] =
                                 [@ EXCEPT ![prevChunk] = word]]
              /\ rowMax' = [rowMax EXCEPT ![p] =
                              IF prevChunk = 0 THEN seen ELSE @ \cup seen]

Exponentials ==
  IF ~Busy(1) THEN UNCHANGED <<expBuffer, expSum>>
  ELSE LET p    == RowAt(1) % 2
           exps == [i \in Lane |-> <<rowBuffer[p][cycleCnt][i], rowMax[p]>>]
           some == [n \in 1 .. Array |-> exps[n - 1]]
       IN  /\ expBuffer' = [expBuffer EXCEPT ![p] =
                              [@ EXCEPT ![cycleCnt] = exps]]
           /\ expSum' = [expSum EXCEPT ![p] =
                           IF cycleCnt = 0 THEN some ELSE @ \o some]

Divide ==
  /\ writeReq' = Busy(2)
  /\ IF ~Busy(2) THEN UNCHANGED <<writeAddr, writeData>>
     ELSE LET p == RowAt(2) % 2
          IN  /\ writeAddr' = RowAt(2) * Blocks + cycleCnt
              /\ writeData' = [i \in Lane |->
                   Quotient(expBuffer[p][cycleCnt][i], expSum[p])]

Clock(start, word) ==
  Sequence(start) /\ FindMax(word) /\ Exponentials /\ Divide

-----------------------------------------------------------------------------
TypeOK ==
  /\ state \in {"IDLE", "RUNNING", "DONE"}
  /\ cycleCnt \in 0 .. Blocks /\ pipeRow \in 0 .. Mat + 1
  /\ prevEn \in BOOLEAN /\ prevChunk \in Chunk /\ prevRow \in Index
  /\ rowBuffer \in [Parity -> [Chunk -> Word]]
  /\ \A p \in Parity : rowMax[p] \subseteq Entry
  /\ \A p \in Parity : Len(expSum[p]) <= Mat
  /\ writeReq \in BOOLEAN /\ writeAddr \in Address /\ writeData \in Word
=============================================================================
