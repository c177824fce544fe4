------------------------------ MODULE AxiMemory -----------------------------
(***************************************************************************)
(* dv/cpu_sim/direct_test/axi_slave_model.sv: the AXI slave the cache      *)
(* subsystem is simulated against.  A read waits READ_LATENCY cycles and   *)
(* then streams its burst, one word per cycle, each word taken from memory *)
(* in the cycle it is sent.  A write reaches memory with its data beat and *)
(* is answered WRITE_LATENCY cycles later.  The latencies are abstracted   *)
(* to any number of cycles, zero included.                                 *)
(***************************************************************************)
EXTENDS Naturals

CONSTANTS
  Tag, Set, Words, Lane, Byte

VARIABLES
  mem,       (* the backing store, word by word            *)
  mrState,   (* rd_state                                   *)
  mrAddr,    (* rd_addr_base and rd_addr_start             *)
  mrBeat,    (* rd_beat_cnt                                *)
  mwState,   (* wr_state                                   *)
  mwAddr     (* wr_addr_lat                                *)

mrVars == <<mrState, mrAddr, mrBeat>>

Sel      == 0 .. Words - 1
WordAddr == [tag : Tag, idx : Set, sel : Sel]
Word     == [Lane -> Byte]

Init ==
  /\ mem = [a \in WordAddr |-> CHOOSE w \in Word : TRUE]
  /\ mrState = "RD_IDLE"
  /\ mrAddr = CHOOSE a \in WordAddr : TRUE
  /\ mrBeat = 0
  /\ mwState = "WR_IDLE"
  /\ mwAddr = CHOOSE a \in WordAddr : TRUE

-----------------------------------------------------------------------------
ArReady == mrState = "RD_IDLE"
RValid  == mrState = "RD_DATA"
(* Fault: one beat too many. *)
RLastLate == mrState = "RD_DATA" /\ mrBeat = Words
RLast   == mrState = "RD_DATA" /\ mrBeat = Words - 1

(* A wrapping burst: the words of one line, starting at the requested one. *)
(* Fault: the burst starts at the first word of the line. *)
WrapFromZero(s, n) == n
WrapSel(s, n) == IF s + n >= Words THEN s + n - Words ELSE s + n
BeatAddr      == [mrAddr EXCEPT !.sel = WrapSel(@, mrBeat)]
RData         == mem[BeatAddr]

AwReady == mwState = "WR_IDLE"
WReady  == mwState = "WR_DATA"
BValid  == mwState = "WR_RESP"

-----------------------------------------------------------------------------
AcceptRead(arvalid, addr) ==
  /\ mrState = "RD_IDLE"
  /\ IF arvalid
     THEN /\ mrState' \in {"RD_WAIT", "RD_DATA"}
          /\ mrAddr' = addr
          /\ mrBeat' = 0
     ELSE UNCHANGED mrVars

ReadLatency ==
  /\ mrState = "RD_WAIT"
  /\ mrState' \in {"RD_WAIT", "RD_DATA"}
  /\ UNCHANGED <<mrAddr, mrBeat>>

SendBeat(rready) ==
  /\ mrState = "RD_DATA"
  /\ mrState' = IF rready /\ RLast THEN "RD_IDLE" ELSE mrState
  /\ mrBeat' = IF rready THEN mrBeat + 1 ELSE mrBeat
  /\ UNCHANGED mrAddr

ReadClock(arvalid, addr, rready) ==
  \/ AcceptRead(arvalid, addr)
  \/ ReadLatency
  \/ SendBeat(rready)

AcceptWrite(awvalid, addr) ==
  /\ mwState = "WR_IDLE"
  /\ mwState' = IF awvalid THEN "WR_DATA" ELSE mwState
  /\ mwAddr' = IF awvalid THEN addr ELSE mwAddr
  /\ UNCHANGED mem

CommitWrite(wvalid, data, strb) ==
  /\ mwState = "WR_DATA"
  /\ IF wvalid
     THEN /\ mwState' \in {"WR_WAIT", "WR_RESP"}
          /\ mem' = [mem EXCEPT ![mwAddr] =
                       [b \in Lane |-> IF b \in strb THEN data[b] ELSE @[b]]]
     ELSE UNCHANGED <<mwState, mem>>
  /\ UNCHANGED mwAddr

WriteLatency ==
  /\ mwState = "WR_WAIT"
  /\ mwState' \in {"WR_WAIT", "WR_RESP"}
  /\ UNCHANGED <<mwAddr, mem>>

SendResponse(bready) ==
  /\ mwState = "WR_RESP"
  /\ mwState' = IF bready THEN "WR_IDLE" ELSE mwState
  /\ UNCHANGED <<mwAddr, mem>>

WriteClock(awvalid, addr, wvalid, data, strb, bready) ==
  \/ AcceptWrite(awvalid, addr)
  \/ CommitWrite(wvalid, data, strb)
  \/ WriteLatency
  \/ SendResponse(bready)

-----------------------------------------------------------------------------
TypeOK ==
  /\ mem \in [WordAddr -> Word]
  /\ mrState \in {"RD_IDLE", "RD_WAIT", "RD_DATA"}
  /\ mrAddr \in WordAddr
  /\ mrBeat \in 0 .. Words
  /\ mwState \in {"WR_IDLE", "WR_DATA", "WR_WAIT", "WR_RESP"}
  /\ mwAddr \in WordAddr
=============================================================================
