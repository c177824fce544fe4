------------------------------ MODULE DataSide ------------------------------
(***************************************************************************)
(* The data side of rtl/cpu/cache/cache_subsystem.sv: the load-store unit, *)
(* the data cache, the write buffer and the bus arbiter, in front of the   *)
(* AXI memory of the test bench.  All of them share one clock; a step of   *)
(* the specification is one clock edge, at which every component moves on  *)
(* the wires as they stood before the edge.                                *)
(*                                                                         *)
(* The instruction cache is reduced to its refill state machine: it        *)
(* competes for the read channel, and what it reads does not matter here.  *)
(***************************************************************************)
EXTENDS CachePkg

CONSTANTS
  Loads,     (* the words the program loads                    *)
  Stores,    (* the store requests the program makes           *)
  Fences,    (* may the program use the fence port?            *)
  Fetches,   (* does the instruction cache miss now and then?  *)
  Handshake, (* TRUE: a request is held until ready and valid, as the  *)
             (* test bench does; FALSE: until valid, as the core does  *)
  Drained    (* TRUE: the program never loads, from a line it must     *)
             (* refill, while one of its stores to that line is pending *)

VARIABLES
  req,       (* the request in the MEM stage                   *)
  answer,    (* history: the load answered at the last edge    *)
  fetch,     (* refill state of the instruction cache          *)
  state, cache, lru, miss, rfBuffer, rfValid,         (* DCache      *)
  head, tail, entryValid, entry,                      (* WriteBuffer *)
  rdState, rdOwner, rdAddr, wrState, wrStore,         (* BusArbiter  *)
  mem, mrState, mrAddr, mrBeat, mwState, mwAddr       (* AxiMemory   *)

cpuVars == <<req, answer, fetch>>
dcVars  == <<state, cache, lru, miss, rfBuffer, rfValid>>
wbVars  == <<head, tail, entryValid, entry>>
arVars  == <<rdState, rdOwner, rdAddr, wrState, wrStore>>
mmVars  == <<mem, mrState, mrAddr, mrBeat, mwState, mwAddr>>
vars    == <<cpuVars, dcVars, wbVars, arVars, mmVars>>

DC == INSTANCE DCache
WB == INSTANCE WriteBuffer
AR == INSTANCE BusArbiter WITH Addr <- DC!WordAddr, Store <- WB!Store
MM == INSTANCE AxiMemory

FenceReq == [kind |-> "fence"]
Program  == {DC!NoReq} \cup [kind : {"load"}, addr : Loads] \cup Stores
              \cup (IF Fences THEN {FenceReq} ELSE {})

ASSUME ProgramAssumption == Loads \subseteq DC!WordAddr /\ Stores \subseteq DC!StoreReq

NoAnswer == [kind |-> "none"]

Init ==
  /\ req = DC!NoReq
  /\ answer = NoAnswer
  /\ fetch = "IDLE"
  /\ DC!Init
  /\ WB!Init
  /\ AR!Init
  /\ MM!Init

-----------------------------------------------------------------------------
(* Wires.                                                                  *)

(* What the data cache sees of the request: a fence is not a memory access. *)
MemReq == IF req = FenceReq THEN DC!NoReq ELSE req

Fwd == IF MemReq = DC!NoReq
       THEN [strb |-> {}, data |-> rfBuffer[0]]
       ELSE [strb |-> WB!FwdStrb(req.addr),
             data |-> [b \in Lane |-> IF b \in WB!FwdStrb(req.addr)
                                      THEN WB!FwdByte(req.addr, b)
                                      ELSE rfBuffer[0][b]]]

DcValid == DC!Valid(MemReq, Fwd, WB!Full)
DcReady == DC!Ready(MemReq, Fwd, WB!Full)

(* hdu.sv stalls the core on valid alone; the test bench waits for both.   *)
Answered ==
  IF req = FenceReq THEN WB!FenceDone
  ELSE MemReq # DC!NoReq /\ DcValid /\ (Handshake => DcReady)

LoadAnswered  == Answered /\ req.kind = "load"
StoreAnswered == Answered /\ req.kind = "store"

Push     == DC!Push(MemReq, WB!Full)
NewStore == [addr |-> req.addr, data |-> req.data, strb |-> req.strb]

DcReq == DC!RefillReq
IcReq == fetch = "REFILL_REQ"
DcBeat == [valid |-> AR!Routes("DC", MM!RValid), last |-> MM!RLast, data |-> MM!RData]

IcAddr == CHOOSE a \in DC!WordAddr : TRUE

-----------------------------------------------------------------------------
(* What a load of word a must return: the youngest pending store, lane by  *)
(* lane, over memory.                                                      *)
Visible == [a \in DC!WordAddr |->
             [b \in Lane |-> IF b \in WB!FwdStrb(a) THEN WB!FwdByte(a, b) ELSE mem[a][b]]]

SameLine(a, c) == a.tag = c.tag /\ a.idx = c.idx

Pending(a) == \E s \in WB!Slot : entryValid[s] /\ SameLine(entry[s].addr, a)

(* The loads a program that drains before it misses may start.             *)
MayLoad(a) == Drained => DC!CacheHit(a) \/ WB!FwdStrb(a) = Lane \/ ~Pending(a)

-----------------------------------------------------------------------------
(* The requester: a request stays until it is answered; then, or when      *)
(* there is none, the program goes on with any other.                      *)
CpuClock ==
  /\ IF Answered \/ req = DC!NoReq
     THEN \E r \in Program : req' = r /\ (r \in DC!LoadReq => MayLoad(r.addr)')
     ELSE UNCHANGED req
  /\ answer' = IF LoadAnswered
               THEN [kind |-> "load", addr |-> req.addr, data |-> DC!Rdata(req, Fwd)]
               ELSE NoAnswer

FetchClock ==
  \/ /\ fetch = "IDLE"
     /\ fetch' \in IF Fetches THEN {"IDLE", "REFILL_REQ"} ELSE {"IDLE"}
  \/ /\ fetch = "REFILL_REQ"
     /\ fetch' = IF AR!Grants("IC", DcReq, IcReq) THEN "REFILL_DATA" ELSE fetch
  \/ /\ fetch = "REFILL_DATA"
     /\ fetch' = IF AR!Routes("IC", MM!RValid) /\ MM!RLast THEN "REFILL_DONE" ELSE fetch
  \/ /\ fetch = "REFILL_DONE"
     /\ fetch' = "IDLE"

Tick ==
  /\ DC!Clock(MemReq, Fwd, WB!Full, AR!Grants("DC", DcReq, IcReq), DcBeat)
  /\ WB!Clock(Push, NewStore, AR!WriteDone(MM!BValid))
  /\ AR!ReadClock(DcReq, miss, IcReq, IcAddr, MM!ArReady, MM!RValid, MM!RLast)
  /\ AR!WriteClock(WB!DrainReq, WB!DrainStore, MM!AwReady, MM!WReady, MM!BValid)
  /\ MM!ReadClock(AR!ArValid, rdAddr, rdState = "RD_DATA")
  /\ MM!WriteClock(AR!AwValid, wrStore.addr, AR!WValid, wrStore.data, wrStore.strb, AR!BReady)
  /\ FetchClock
  /\ CpuClock

Spec == Init /\ [][Tick]_vars

(* The clock runs, and no read or write waits in the memory for ever: the  *)
(* latency counters of the slave count up to a constant.                   *)
Fairness ==
  /\ WF_vars(Tick)
  /\ []<>(mrState # "RD_WAIT")
  /\ []<>(mwState # "WR_WAIT")

FairSpec == Spec /\ Fairness

-----------------------------------------------------------------------------
TypeOK ==
  /\ req \in Program
  /\ answer \in [kind : {"load"}, addr : DC!WordAddr, data : DC!Word] \cup {NoAnswer}
  /\ fetch \in {"IDLE", "REFILL_REQ", "REFILL_DATA", "REFILL_DONE"}
  /\ DC!TypeOK /\ WB!TypeOK /\ AR!TypeOK /\ MM!TypeOK

(* Write-through keeps every cached word equal to what a load must return, *)
(* whether the last store to it is still pending or has reached memory.    *)
CacheCoherent ==
  \A a \in DC!WordAddr, w \in DC!Way :
    DC!WayHit(a, w) => cache[a.idx][w].data[a.sel] = Visible[a]

(* The store on the write channel is the oldest one of the write buffer    *)
(* until its response comes: the buffer drops the store that was written.  *)
DrainsOldest == wrState # "WR_IDLE" => ~WB!Empty /\ wrStore = WB!DrainStore

(* A burst on the read channel belongs to a cache that is waiting for it,  *)
(* and a waiting data cache has one: no beat is taken by the other cache   *)
(* and none is dropped, although the owner is only looked at beat by beat. *)
BurstHasOwner ==
  /\ rdState # "RD_IDLE" /\ rdOwner = "DC" <=> state = "REFILL_DATA"
  /\ rdState # "RD_IDLE" /\ rdOwner = "IC" <=> fetch = "REFILL_DATA"

(* The cache and the memory count the words of a wrapping burst apart from *)
(* each other and agree on every beat.                                     *)
BeatsAligned ==
  state = "REFILL_DATA" /\ MM!RValid => MM!BeatAddr = miss

(* Every load and store of the program is a single step on a plain memory: *)
(* loads return the latest store of every byte, no accepted store is lost, *)
(* and draining, refilling and evicting change nothing a load can see.     *)
Memory == INSTANCE WordMemory
            WITH Addr <- DC!WordAddr, First <- CHOOSE w \in DC!Word : TRUE, words <- Visible
ImplementsMemory == Memory!Spec

(* A load returns what the program last stored there.                      *)
ReadAfterWrite == [][LoadAnswered => DC!Rdata(req, Fwd) = Visible[req.addr]]_vars

(* Whatever the requester does, memory with the pending stores over it      *)
(* changes by accepted stores alone, in their order: no store is lost,      *)
(* torn, repeated or overtaken by another on its way through the buffer,    *)
(* the arbiter and the memory.                                              *)
StoresInOrder ==
  [][Visible' = IF Push
                THEN [Visible EXCEPT ![req.addr] = DC!Overlay(req.data, req.strb, @)]
                ELSE Visible]_vars

(* When a fence is answered, memory itself holds every store made before.   *)
FenceFlushes == req = FenceReq /\ Answered => mem = Visible

(* What the parts promise on their own holds of them in the composition.   *)
(* The data cache never holds a line twice: a refill goes to one way of a  *)
(* set in which no other has the line.                                     *)
NoDuplicateLine == DC!NoDuplicateLine

(* The pointers of the write buffer and its valid bits agree.              *)
RingInv == WB!RingInv

(* A load is offered the youngest pending store of every lane, and nothing *)
(* from drained slots.                                                     *)
ForwardsNewest == WB!ForwardsNewest

(* The write buffer is a first-in first-out queue of Depth stores, whatever *)
(* the cache pushes and the arbiter completes in the same cycle.           *)
ImplementsQueue == WB!ImplementsQueue

(* A store the core moves on from is in the write buffer.                  *)
AnsweredStoreIsPushed == [][StoreAnswered => Push]_vars

-----------------------------------------------------------------------------
(* Every request is answered in the end.                                   *)
RequestAnswered == req # DC!NoReq ~> Answered

(* An instruction-cache miss is granted the bus although the data cache    *)
(* has priority and may miss again and again: it leaves the bus a cycle.   *)
FetchGranted == fetch = "REFILL_REQ" ~> fetch = "REFILL_DATA"

(* The write buffer drains: its oldest store is written and leaves it.     *)
StoresDrain == ~WB!Empty ~> AR!WriteDone(MM!BValid)
=============================================================================
