---------------------------- MODULE Transformer ----------------------------
(***************************************************************************)
(* rtl/transformer/TinyTransformer.sv and Datapath.sv: the controller, the *)
(* matrix multiplier, the softmax unit, the transposer and six memories    *)
(* that the stages use in turn, each overwriting what an earlier one left. *)
(* Nothing tells a stage that its operands are there but the count of the  *)
(* words the stage before it has written.  One action is one clock edge.   *)
(*                                                                         *)
(* MatMul.sv reads word k * ARRAY_SIZE + br where a row of a matrix has    *)
(* NUM_BLOCKS words: the design needs MatIsSquare.                         *)
(***************************************************************************)
EXTENDS Attention

ASSUME SizesAssumption ==
  /\ Array \in Nat \ {0, 1} /\ Heads \in Nat \ {0}
  /\ Mat % Heads = 0 /\ Blocks % Heads = 0
ASSUME MatIsSquare == Mat = Array * Array

VARIABLES
  job, waiting, head,                                     (* Controller *)
  mmState, kIdx, br, bc, fed, validIn, accClear, acc, emerging,
  outBr, outBc, outCounter,                               (* MatMul     *)
  sfState, cycleCnt, pipeRow, prevEn, prevChunk, prevRow, rowBuffer,
  rowMax, expBuffer, expSum, writeReq, writeAddr, writeData, (* Softmax *)
  sel, buf, at, readIdx, reading,                         (* Transposer *)
  trRunning, trCounter,     (* the relay from memory 2 to memory 1      *)
  trValidIn, trDelayed,     (* its read of the cycle before             *)
  writeCounter,
  ram, rdata                (* VectorSRAM: contents and read registers  *)

CT == INSTANCE Controller
MM == INSTANCE MatMul WITH state <- mmState
SF == INSTANCE Softmax WITH state <- sfState
TR == INSTANCE Transposer

relayVars == <<trRunning, trCounter, trValidIn, trDelayed>>
vars == <<CT!ctVars, MM!mmVars, SF!sfVars, TR!trVars, relayVars,
          writeCounter, ram, rdata>>

Memory == {"X", "0", "1", "2", "3", "4"}

Init ==
  /\ CT!Init /\ MM!Init /\ SF!Init /\ TR!Init
  /\ trRunning = FALSE /\ trCounter = 0
  /\ trValidIn = FALSE /\ trDelayed = [row |-> 0, br |-> 0, bc |-> 0]
  /\ writeCounter = 0
  /\ ram = [m \in Memory |-> [a \in Address |-> JunkWord]]
  /\ rdata = [m \in Memory |-> JunkWord]

-----------------------------------------------------------------------------
(* The relay: the words of S go through the transposer block by block.     *)
RelayRow == [row |-> trCounter % Array,
             br  |-> (trCounter \div Array) % Blocks,
             bc  |-> trCounter \div (Blocks * Array)]
RelayAddr == (RelayRow.br * Array + RelayRow.row) * Blocks + RelayRow.bc

Relay ==
  /\ IF CT!StartTranspose THEN trRunning' = TRUE /\ trCounter' = 0
     ELSE IF trValidIn
     THEN /\ trCounter' = (trCounter + 1) % (Mat * Blocks)
          /\ trRunning' = (trRunning /\ trCounter # Mat * Array - 1)
     ELSE UNCHANGED <<trRunning, trCounter>>
  /\ trValidIn' = trRunning
  /\ trDelayed' = RelayRow

Transpose ==
  IF trValidIn
  THEN TR!Clock(TRUE, trDelayed.row, rdata["2"],
                [br |-> trDelayed.br, bc |-> trDelayed.bc])
  ELSE IF CT!Mode.transpose /\ MM!ValidOut
  THEN TR!Clock(TRUE, MM!OutRow, MM!OutData, [br |-> outBr, bc |-> outBc])
  ELSE TR!Clock(FALSE, 0, JunkWord, [br |-> 0, bc |-> 0])

-----------------------------------------------------------------------------
(* The one word the memories can take in a cycle.                          *)
WriteValid ==
  IF writeReq THEN TRUE
  ELSE IF CT!Mode.transpose \/ TR!ValidOut THEN TR!ValidOut
  ELSE MM!ValidOut

Write ==
  IF writeReq
  THEN [addr |-> writeAddr, data |-> writeData, to |-> CT!Enabled \cup {"2"}]
  ELSE IF TR!ValidOut
  THEN [addr |-> (TR!OutPlace.bc * Array + TR!OutCol) * Blocks
                   + TR!OutPlace.br,
        data |-> TR!OutData,
        to   |-> CT!Enabled \cup IF CT!Mode.transpose THEN {} ELSE {"1"}]
  ELSE [addr |-> (outBr * Array + MM!OutRow) * Blocks + outBc,
        data |-> MM!OutData,
        to   |-> CT!Enabled]

(* Fault: the words of one head are counted as those of all of them. *)
TargetOfAllHeads == Mat * Array - 1
(* Fault: a stage is done one word early. *)
TargetEarly ==
  (IF CT!Mode.calcZ THEN (Mat * Array) \div Heads ELSE Mat * Array) - 2
TargetWriteCount ==
  (IF CT!Mode.calcZ THEN (Mat * Array) \div Heads ELSE Mat * Array) - 1

StageDone == WriteValid /\ writeCounter = TargetWriteCount

Count ==
  writeCounter' = IF CT!StartMatMul \/ CT!StartTranspose \/ CT!StartSoftmax
                  THEN 0
                  ELSE IF WriteValid THEN writeCounter + 1 ELSE writeCounter

-----------------------------------------------------------------------------
(* The word of a memory that is read in this cycle.                        *)
Asked(m) ==
  IF m = "2" /\ trRunning THEN {RelayAddr}
  ELSE IF m = "1" /\ SF!ReadReq THEN {SF!ReadAddr}
  ELSE IF MM!ReadReq /\ CT!SelB = m THEN {MM!ReadAddrB}
  ELSE IF MM!ReadReq /\ CT!SelA = m THEN {MM!ReadAddrA}
  ELSE {}

(* The read register takes the word being written, when it is the same.    *)
ReadMemories ==
  rdata' = [m \in Memory |->
    IF Asked(m) = {} THEN rdata[m]
    ELSE LET a == CHOOSE x \in Asked(m) : TRUE
         IN  IF WriteValid /\ m \in Write.to /\ Write.addr = a
             THEN Write.data ELSE ram[m][a]]

Stored ==
  [m \in Memory |-> IF WriteValid /\ m \in Write.to
                    THEN [ram[m] EXCEPT ![Write.addr] = Write.data]
                    ELSE ram[m]]

(* The host loads the inputs before it starts the accelerator, and Wo when *)
(* the last head is finished: nothing else tells it that memory 4 is free. *)
WriteMemories(systemStart) ==
  ram' =
    IF job = "IDLE" /\ systemStart
    THEN [Stored EXCEPT !["X"] = Transposed("X", 0), !["0"] = Plain("Wq", 0),
                        !["1"] = Plain("Wk", 0), !["2"] = Plain("Wv", 0)]
    ELSE IF job = "Z" /\ waiting /\ StageDone /\ head = Heads - 1
    THEN [Stored EXCEPT !["4"] = Plain("Wo", 0)]
    ELSE Stored

-----------------------------------------------------------------------------
Clock(systemStart) ==
  /\ CT!Clock(systemStart, StageDone)
  /\ MM!Clock(CT!StartMatMul, CT!Mode, rdata[CT!SelA], rdata[CT!SelB])
  /\ SF!Clock(CT!StartSoftmax, rdata["1"])
  /\ Relay /\ Transpose
  /\ Count
  /\ ReadMemories /\ WriteMemories(systemStart)

Next == \E systemStart \in BOOLEAN : Clock(systemStart)

Spec == Init /\ [][Next]_vars /\ WF_vars(Next)

-----------------------------------------------------------------------------
TypeOK ==
  /\ CT!TypeOK /\ MM!TypeOK /\ SF!TypeOK /\ TR!TypeOK
  /\ trRunning \in BOOLEAN /\ trCounter \in 0 .. Mat * Blocks - 1
  /\ trValidIn \in BOOLEAN
  /\ trDelayed \in [row : Lane, br : Lane, bc : Lane]
  /\ writeCounter \in 0 .. Mat * Blocks
  /\ ram \in [Memory -> [Address -> Word]]
  /\ rdata \in [Memory -> Word]

Starts(j) == job = j /\ ~waiting

(* Memory 3 before head h: the columns of the heads that are done hold Z,  *)
(* the others still hold Q.                                                *)
QueriesLeft(h) ==
  [a \in Address |-> IF HeadOf(a \div Blocks) < h THEN Transposed("Z", 0)[a]
                                                 ELSE Transposed("Q", 0)[a]]

(* When a stage starts, every word it is going to read is in place, in the *)
(* layout its addresses assume, and so is every word that a later stage    *)
(* needs and nobody writes again; the result is complete when the          *)
(* accelerator says that it is done.  The memories are shared by all the   *)
(* stages, and a stage trusts the word count of the one before.            *)
OperandsReady ==
  /\ Starts("Q") =>
       ram["X"] = Transposed("X", 0) /\ ram["0"] = Plain("Wq", 0)
  /\ Starts("K") =>
       ram["X"] = Transposed("X", 0) /\ ram["1"] = Plain("Wk", 0)
  /\ Starts("V") =>
       ram["X"] = Transposed("X", 0) /\ ram["2"] = Plain("Wv", 0)
  /\ Starts("E") => ram["3"] = QueriesLeft(head)
                   /\ ram["4"] = Transposed("K", 0)
                   /\ ram["0"] = Plain("V", 0)
  /\ Starts("SOFTMAX")   => ram["1"] = Plain("E", head)
  /\ Starts("TRANSPOSE") => ram["2"] = Plain("S", head)
  /\ Starts("Z") =>
       ram["1"] = Transposed("S", head) /\ ram["0"] = Plain("V", 0)
  /\ Starts("OUT") =>
       ram["3"] = Transposed("Z", 0) /\ ram["4"] = Plain("Wo", 0)
  /\ job = "DONE" =>
       ram["0"] = Plain("O", 0) /\ ram["3"] = Transposed("Z", 0)

(* Where a part of an inference is, and how it is laid out there.          *)
Home == [X |-> "X", Wq |-> "0", Wk |-> "1", Wv |-> "2", Q |-> "3", K |-> "4",
         V |-> "0", E |-> "1", S |-> "2", St |-> "1", Z |-> "3", Wo |-> "4",
         O |-> "0"]

Laid(p) ==
  CASE p.m \in {"X", "Q", "K", "Z"} -> Transposed(p.m, 0)
    [] p.m = "St"                   -> Transposed("S", p.h)
    [] p.m \in {"E", "S"}           -> Plain(p.m, p.h)
    [] OTHER                        -> Plain(p.m, 0)

(* Q, K, V and Z share a matrix among the heads.                           *)
Belongs(p, e) == p.m \in {"Q", "K", "V", "Z"} => HeadOf(e.c) = p.h

InPlace(p) ==
  LET laid == Laid(p)
  IN  \A a \in Address : \A i \in Lane :
        Belongs(p, laid[a][i]) => ram[Home[p.m]][a][i] = laid[a][i]

(* The stages in their order; those of each head come round again.         *)
Turn == [LAYERNORM |-> 0, Q |-> 1, K |-> 2, V |-> 3, E |-> 4, SOFTMAX |-> 5,
         TRANSPOSE |-> 6, Z |-> 7, OUT |-> 8, DONE |-> 9, IDLE |-> 9]
Maker == [Q |-> "Q", K |-> "K", V |-> "V", E |-> "E", S |-> "SOFTMAX",
          St |-> "TRANSPOSE", Z |-> "Z", O |-> "OUT"]
EachHead == {"E", "SOFTMAX", "TRANSPOSE", "Z"}

Passed(stage, h) ==
  IF job \in EachHead /\ stage \in EachHead
  THEN h < head \/ (h = head /\ Turn[stage] < Turn[job])
  ELSE Turn[stage] < Turn[job]

(* A part counts when the stage that makes it has passed in this inference *)
(* and its words are in place: the memories never forget by themselves.    *)
Held == {p \in Part : (p.m \in DOMAIN Maker => Passed(Maker[p.m], p.h)) /\ InPlace(p)}

(* The accelerator makes each matrix of multi-head attention from operands *)
(* of this inference that are complete, and is done with the output in     *)
(* memory 0, where it stays until the next start.                          *)
Promise == INSTANCE Inference WITH running <- job \notin {"IDLE", "DONE"}, held <- Held

ImplementsInference == Promise!Spec

(* A stage starts on a datapath where nothing of the stage before is still *)
(* under way: no row in the systolic array, no column in the transposer,   *)
(* no relay, no write of the softmax unit.  A late word would be routed,   *)
(* shifted and counted as one of the new stage.                            *)
QuietAtStart ==
  job \in CT!Stage /\ ~waiting =>
    /\ mmState = "IDLE" /\ emerging = {} /\ ~validIn /\ ~accClear
    /\ ~reading /\ ~trRunning /\ ~trValidIn
    /\ sfState # "RUNNING" /\ ~writeReq /\ ~prevEn

(* A started accelerator gets to the end: no stage counts words that the   *)
(* unit it started does not write.                                         *)
Completes == job = "LAYERNORM" ~> job = "DONE"
=============================================================================
