----------------------------- MODULE BusArbiter -----------------------------
(***************************************************************************)
(* rtl/cpu/cache/bus_arbiter.sv: the two caches share the AXI read         *)
(* channel, the data cache first; the write buffer has the write channel   *)
(* to itself.  The two channels are independent state machines: nothing    *)
(* orders a read against a write that is still in flight.                  *)
(***************************************************************************)

CONSTANTS
  Addr,     (* word addresses                     *)
  Store     (* what the write buffer drains       *)

VARIABLES
  rdState,   (* rd_state                           *)
  rdOwner,   (* rd_owner: the cache a burst is for *)
  rdAddr,    (* rd_addr_lat                        *)
  wrState,   (* wr_state                           *)
  wrStore    (* wr_addr_lat, wr_data_lat, wr_strb_lat *)

rdVars == <<rdState, rdOwner, rdAddr>>
wrVars == <<wrState, wrStore>>

Port == {"IC", "DC"}

Init ==
  /\ rdState = "RD_IDLE"
  /\ rdOwner = "IC"
  /\ rdAddr = CHOOSE a \in Addr : TRUE
  /\ wrState = "WR_IDLE"
  /\ wrStore = CHOOSE st \in Store : TRUE

-----------------------------------------------------------------------------
(* Read channel.  dReq and iReq are the requests of the two caches.        *)

(* Fixed priority. *)
Winner(dReq, iReq) == IF dReq THEN "DC" ELSE "IC"

(* Fault: the grant and the owner disagree on the priority. *)
GrantsFetchFirst(port, dReq, iReq) ==
  rdState = "RD_IDLE" /\ (dReq \/ iReq) /\ (IF iReq THEN "IC" ELSE "DC") = port

Grants(port, dReq, iReq) ==
  rdState = "RD_IDLE" /\ (dReq \/ iReq) /\ Winner(dReq, iReq) = port

ArValid == rdState = "RD_ADDR"

(* A read beat of the memory reaches the owner of the burst and nobody else. *)
Routes(port, rvalid) == rdState = "RD_DATA" /\ rdOwner = port /\ rvalid

Grant(dReq, dAddr, iReq, iAddr) ==
  /\ rdState = "RD_IDLE"
  /\ dReq \/ iReq
  /\ rdState' = "RD_ADDR"
  /\ rdOwner' = Winner(dReq, iReq)
  /\ rdAddr' = IF Winner(dReq, iReq) = "IC" THEN iAddr ELSE dAddr

ReadIdle(dReq, iReq) ==
  /\ rdState = "RD_IDLE"
  /\ ~dReq /\ ~iReq
  /\ UNCHANGED rdVars

SendReadAddress(arready) ==
  /\ rdState = "RD_ADDR"
  /\ rdState' = IF arready THEN "RD_DATA" ELSE rdState
  /\ UNCHANGED <<rdOwner, rdAddr>>

ReceiveData(rvalid, rlast) ==
  /\ rdState = "RD_DATA"
  /\ rdState' = IF rvalid /\ rlast THEN "RD_IDLE" ELSE rdState
  /\ UNCHANGED <<rdOwner, rdAddr>>

ReadClock(dReq, dAddr, iReq, iAddr, arready, rvalid, rlast) ==
  \/ Grant(dReq, dAddr, iReq, iAddr)
  \/ ReadIdle(dReq, iReq)
  \/ SendReadAddress(arready)
  \/ ReceiveData(rvalid, rlast)

-----------------------------------------------------------------------------
(* Write channel.  wbReq and st are the oldest store of the write buffer.  *)

AwValid == wrState = "WR_ADDR"
WValid  == wrState = "WR_DATA"
(* Fault: the response is not waited for with ready high. *)
BReadyEarly == wrState = "WR_DATA"
BReady  == wrState = "WR_RESP"

(* Fault: the store is dropped as soon as its data is sent. *)
WriteDoneAtData(bvalid) == wrState = "WR_DATA"

(* arb_wr_done: tells the write buffer to drop its oldest store.           *)
WriteDone(bvalid) == wrState = "WR_RESP" /\ bvalid

TakeStore(wbReq, st) ==
  /\ wrState = "WR_IDLE"
  /\ wrState' = IF wbReq THEN "WR_ADDR" ELSE wrState
  /\ wrStore' = IF wbReq THEN st ELSE wrStore

SendWriteAddress(awready) ==
  /\ wrState = "WR_ADDR"
  /\ wrState' = IF awready THEN "WR_DATA" ELSE wrState
  /\ UNCHANGED wrStore

SendWriteData(wready) ==
  /\ wrState = "WR_DATA"
  /\ wrState' = IF wready THEN "WR_RESP" ELSE wrState
  /\ UNCHANGED wrStore

ReceiveResponse(bvalid) ==
  /\ wrState = "WR_RESP"
  /\ wrState' = IF bvalid THEN "WR_IDLE" ELSE wrState
  /\ UNCHANGED wrStore

WriteClock(wbReq, st, awready, wready, bvalid) ==
  \/ TakeStore(wbReq, st)
  \/ SendWriteAddress(awready)
  \/ SendWriteData(wready)
  \/ ReceiveResponse(bvalid)

-----------------------------------------------------------------------------
TypeOK ==
  /\ rdState \in {"RD_IDLE", "RD_ADDR", "RD_DATA"}
  /\ rdOwner \in Port
  /\ rdAddr \in Addr
  /\ wrState \in {"WR_IDLE", "WR_ADDR", "WR_DATA", "WR_RESP"}
  /\ wrStore \in Store
=============================================================================
