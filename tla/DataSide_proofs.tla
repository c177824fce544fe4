-------------------------- MODULE DataSide_proofs ---------------------------
(***************************************************************************)
(* Machine-checked facts about the caches, the write buffer and the bus on *)
(* one clock, for every program, every depth and every set of addresses.   *)
(***************************************************************************)
EXTENDS DataSide, FiniteSetTheorems, SequenceTheorems, WellFoundedInduction, TLAPS

-----------------------------------------------------------------------------
(* The read channel.  BurstHasOwner needs nothing beside it but the values *)
(* the state machines can have.                                            *)
BurstInv ==
  /\ rdState \in {"RD_IDLE", "RD_ADDR", "RD_DATA"}
  /\ rdOwner \in {"IC", "DC"}
  /\ BurstHasOwner

(* A grant starts a burst for the cache that takes it, and for it alone.   *)
LEMMA GrantOwned ==
  ASSUME BurstInv, Tick, AR!Grant(DcReq, miss, IcReq, IcAddr)
  PROVE  BurstInv'
<1>1. rdState = "RD_IDLE" /\ rdState' = "RD_ADDR" /\ (DcReq \/ IcReq)
      /\ rdOwner' = IF DcReq THEN "DC" ELSE "IC"
  BY DEF AR!Grant, AR!Winner
<1>2. state # "REFILL_DATA" /\ fetch # "REFILL_DATA"
  BY <1>1 DEF BurstInv, BurstHasOwner
<1>3. state' = "REFILL_DATA" <=> DcReq
  BY <1>1, <1>2 DEF Tick, DcReq, DC!RefillReq, DC!Clock, DC!LoadHit, DC!LoadMiss,
     DC!StartsRefill, DC!StoreHit, DC!Push, DC!Hold, DC!dcVars, DC!AwaitGrant,
     DC!TakeBeat, DC!AwaitBeat, DC!FillLine, AR!Grants, AR!Winner
<1>4. fetch' = "REFILL_DATA" <=> ~DcReq
  BY <1>1, <1>2 DEF Tick, FetchClock, IcReq, AR!Grants, AR!Winner
<1> QED  BY <1>1, <1>3, <1>4 DEF BurstInv, BurstHasOwner

(* Without a grant no cache starts to wait for beats, and one stops with   *)
(* the last beat of a burst that is its own.                               *)
LEMMA BurstKept ==
  ASSUME BurstInv, Tick, ~AR!Grant(DcReq, miss, IcReq, IcAddr)
  PROVE  BurstInv'
<1> DEFINE over == rdState = "RD_DATA" /\ MM!RValid /\ MM!RLast
<1>1. rdState # "RD_IDLE" \/ ~(DcReq \/ IcReq)
  BY DEF Tick, AR!ReadClock, AR!ReadIdle, AR!SendReadAddress, AR!ReceiveData
<1>2. /\ rdOwner' = rdOwner /\ rdState' \in {"RD_IDLE", "RD_ADDR", "RD_DATA"}
      /\ rdState' # "RD_IDLE" <=> rdState # "RD_IDLE" /\ ~over
  BY DEF BurstInv, Tick, AR!ReadClock, AR!ReadIdle, AR!rdVars, AR!SendReadAddress,
     AR!ReceiveData
<1>3. ~AR!Grants("DC", DcReq, IcReq) /\ ~AR!Grants("IC", DcReq, IcReq)
  BY <1>1 DEF AR!Grants
<1>4. state' = "REFILL_DATA" <=> state = "REFILL_DATA" /\ ~(rdOwner = "DC" /\ over)
  BY <1>3 DEF BurstInv, Tick, DC!Clock, DC!LoadHit, DC!LoadMiss,
     DC!StartsRefill, DC!StoreHit, DC!Push, DC!Hold, DC!dcVars, DC!AwaitGrant,
     DC!TakeBeat, DC!AwaitBeat, DC!FillLine, DcBeat, AR!Routes
<1>5. fetch' = "REFILL_DATA" <=> fetch = "REFILL_DATA" /\ ~(rdOwner = "IC" /\ over)
  BY <1>3 DEF BurstInv, Tick, FetchClock, AR!Routes
<1> QED  BY <1>2, <1>4, <1>5 DEF BurstInv, BurstHasOwner

(* For every program and every memory, a burst on the read channel belongs *)
(* to the cache that waits for it (bus_arbiter.sv: rd_owner).              *)
THEOREM BurstsOwned == Spec => []BurstHasOwner
<1>1. Init => BurstInv
  BY DEF Init, AR!Init, DC!Init, BurstInv, BurstHasOwner
<1>2. BurstInv /\ [Tick]_vars => BurstInv'
  <2> SUFFICES ASSUME BurstInv, [Tick]_vars PROVE BurstInv'
    OBVIOUS
  <2>1. CASE Tick
    BY <2>1, GrantOwned, BurstKept
  <2>2. CASE UNCHANGED vars
    BY <2>2 DEF vars, cpuVars, dcVars, arVars, BurstInv, BurstHasOwner
  <2> QED  BY <2>1, <2>2
<1>3. BurstInv => BurstHasOwner
  BY DEF BurstInv
<1> QED  BY <1>1, <1>2, <1>3, PTL DEF Spec

-----------------------------------------------------------------------------
(* The beats.  A burst of the data cache was asked for where the miss was, *)
(* and the memory and the cache have counted the same number of words      *)
(* since: the memory from the start of the burst, the cache in place.      *)
MissOK == req \in Program /\ miss \in DC!WordAddr

ChannelsAgree ==
  /\ mrState \in {"RD_IDLE", "RD_WAIT", "RD_DATA"}
  /\ rdState = "RD_DATA" <=> mrState # "RD_IDLE"

BeatsInStep ==
  rdOwner = "DC" =>
    /\ rdState = "RD_ADDR" => rdAddr = miss
    /\ rdState = "RD_DATA" => /\ mrAddr \in DC!WordAddr
                             /\ mrBeat \in 0 .. Words - 1
                             /\ MM!BeatAddr = miss

BeatInv == BurstInv /\ MissOK /\ ChannelsAgree /\ BeatsInStep

LEMMA MissKept ==
  ASSUME MissOK, Tick
  PROVE  MissOK'
<1>1. req' \in Program
  BY DEF MissOK, Tick, CpuClock
<1>2. ASSUME DC!IsLoad(MemReq) PROVE MemReq.addr \in DC!WordAddr
  BY <1>2, ProgramAssumption DEF MissOK, Program, MemReq, FenceReq, DC!NoReq,
     DC!IsLoad, DC!StoreReq
<1>3. ASSUME NEW s \in 0 .. Words - 1 PROVE DC!NextSel(s) \in 0 .. Words - 1
  BY SizesAssumption DEF DC!NextSel
<1>4. [miss EXCEPT !.sel = DC!NextSel(@)] \in DC!WordAddr
  BY <1>3 DEF MissOK, DC!WordAddr, DC!Sel
<1>5. miss' \in DC!WordAddr
  BY <1>2, <1>4 DEF MissOK, Tick, DC!Clock, DC!LoadHit, DC!LoadMiss,
     DC!StartsRefill, DC!StoreHit, DC!Hold, DC!dcVars, DC!AwaitGrant,
     DC!TakeBeat, DC!AwaitBeat, DC!FillLine
<1> QED  BY <1>1, <1>5 DEF MissOK

LEMMA ChannelsKept ==
  ASSUME ChannelsAgree, Tick
  PROVE  ChannelsAgree'
<1>1. AR!ReadClock(DcReq, miss, IcReq, IcAddr, MM!ArReady, MM!RValid, MM!RLast)
  BY DEF Tick
<1>2. MM!ReadClock(AR!ArValid, rdAddr, rdState = "RD_DATA")
  BY DEF Tick
<1> QED  BY <1>1, <1>2 DEF ChannelsAgree, AR!ReadClock, AR!Grant, AR!ReadIdle,
     AR!rdVars, AR!SendReadAddress, AR!ReceiveData, AR!ArValid, MM!ReadClock,
     MM!AcceptRead, MM!mrVars, MM!ReadLatency, MM!SendBeat, MM!ArReady,
     MM!RValid, MM!RLast

(* The next word of the burst is the next word of the line.                *)
LEMMA NextBeat ==
  ASSUME NEW a \in DC!WordAddr, NEW n \in 0 .. Words - 2
  PROVE  [a EXCEPT !.sel = MM!WrapSel(@, n + 1)]
           = [[a EXCEPT !.sel = MM!WrapSel(@, n)] EXCEPT !.sel = DC!NextSel(@)]
<1>1. a.sel \in 0 .. Words - 1
  BY DEF DC!WordAddr, DC!Sel
<1>2. MM!WrapSel(a.sel, n + 1) = DC!NextSel(MM!WrapSel(a.sel, n))
  BY <1>1, SizesAssumption DEF MM!WrapSel, DC!NextSel
<1> QED  BY <1>2 DEF DC!WordAddr

LEMMA StepsKept ==
  ASSUME BeatInv, BurstInv', ChannelsAgree', Tick
  PROVE  BeatsInStep'
<1> SUFFICES ASSUME rdOwner' = "DC"
             PROVE  /\ rdState' = "RD_ADDR" => rdAddr' = miss'
                    /\ rdState' = "RD_DATA" => /\ mrAddr' \in DC!WordAddr
                                              /\ mrBeat' \in 0 .. Words - 1
                                              /\ MM!BeatAddr' = miss'
  BY DEF BeatsInStep
<1>1. AR!ReadClock(DcReq, miss, IcReq, IcAddr, MM!ArReady, MM!RValid, MM!RLast)
  BY DEF Tick
<1>2. MM!ReadClock(AR!ArValid, rdAddr, rdState = "RD_DATA")
  BY DEF Tick
<1>3. DC!Clock(MemReq, Fwd, WB!Full, AR!Grants("DC", DcReq, IcReq), DcBeat)
  BY DEF Tick
<1>4. CASE AR!Grant(DcReq, miss, IcReq, IcAddr)
  <2>1. DcReq /\ rdAddr' = miss /\ rdState' = "RD_ADDR"
    BY <1>4 DEF AR!Grant, AR!Winner
  <2>2. miss' = miss
    BY <1>3, <2>1 DEF DcReq, DC!RefillReq, DC!Clock, DC!LoadHit, DC!LoadMiss,
       DC!StartsRefill, DC!StoreHit, DC!Push, DC!Hold, DC!dcVars, DC!AwaitGrant,
       DC!TakeBeat, DC!AwaitBeat, DC!FillLine
  <2> QED  BY <2>1, <2>2
<1>5. CASE AR!ReadIdle(DcReq, IcReq)
  BY <1>5 DEF AR!ReadIdle, AR!rdVars
<1>6. CASE AR!SendReadAddress(MM!ArReady)
  <2>1. rdState = "RD_ADDR" /\ rdOwner = "DC" /\ rdAddr' = rdAddr /\ rdAddr = miss
    BY <1>6 DEF AR!SendReadAddress, BeatInv, BeatsInStep
  <2>2. state = "REFILL_DATA" /\ ~DcBeat.valid /\ mrState = "RD_IDLE"
    BY <2>1 DEF BeatInv, BurstInv, BurstHasOwner, ChannelsAgree, DcBeat, AR!Routes
  <2>3. miss' = miss
    BY <1>3, <2>2 DEF DC!Clock, DC!LoadHit, DC!LoadMiss, DC!StartsRefill,
       DC!StoreHit, DC!Push, DC!Hold, DC!AwaitGrant, DC!TakeBeat, DC!AwaitBeat,
       DC!dcVars, DC!FillLine
  <2>4. mrAddr' = miss /\ mrBeat' = 0
    BY <1>2, <2>1, <2>2 DEF MM!ReadClock, MM!AcceptRead, MM!ReadLatency,
       MM!SendBeat, AR!ArValid
  <2>5. miss \in DC!WordAddr
    BY DEF BeatInv, MissOK
  <2>6. [miss EXCEPT !.sel = MM!WrapSel(@, 0)] = miss
    BY <2>5, SizesAssumption DEF MM!WrapSel, DC!WordAddr, DC!Sel
  <2>7. MM!BeatAddr' = miss'
    BY <2>3, <2>4, <2>6 DEF MM!BeatAddr, MM!WrapSel
  <2> QED  BY <2>1, <2>3, <2>4, <2>5, <2>7, SizesAssumption
<1>7. CASE AR!ReceiveData(MM!RValid, MM!RLast)
  <2>1. rdState = "RD_DATA" /\ rdOwner = "DC" /\ rdState' \in {"RD_DATA", "RD_IDLE"}
    BY <1>7 DEF AR!ReceiveData
  <2> SUFFICES ASSUME rdState' = "RD_DATA"
               PROVE  /\ mrAddr' \in DC!WordAddr
                      /\ mrBeat' \in 0 .. Words - 1
                      /\ MM!BeatAddr' = miss'
    BY <2>1
  <2>2. /\ mrAddr \in DC!WordAddr /\ mrBeat \in 0 .. Words - 1
        /\ MM!BeatAddr = miss /\ state = "REFILL_DATA" /\ mrState # "RD_IDLE"
    BY <2>1 DEF BeatInv, BeatsInStep, BurstInv, BurstHasOwner, ChannelsAgree
  <2>3. ~(MM!RValid /\ MM!RLast)
    BY <1>7 DEF AR!ReceiveData
  <2>4. mrAddr' = mrAddr /\ mrBeat' = IF MM!RValid THEN mrBeat + 1 ELSE mrBeat
    BY <1>2, <2>1, <2>2 DEF MM!ReadClock, MM!AcceptRead, MM!ReadLatency,
       MM!SendBeat, MM!RValid, BeatInv, ChannelsAgree
  <2>5. DcBeat.valid <=> MM!RValid
    BY <2>1 DEF DcBeat, AR!Routes
  <2>6. miss' = IF MM!RValid THEN [miss EXCEPT !.sel = DC!NextSel(@)] ELSE miss
    BY <1>3, <2>2, <2>5 DEF DC!Clock, DC!LoadHit, DC!LoadMiss, DC!StartsRefill,
       DC!StoreHit, DC!Push, DC!Hold, DC!AwaitGrant, DC!TakeBeat, DC!AwaitBeat,
       DC!dcVars, DC!FillLine
  <2>7. CASE ~MM!RValid
    BY <2>2, <2>4, <2>6, <2>7 DEF MM!BeatAddr, MM!WrapSel
  <2>8. CASE MM!RValid
    <3>1. mrBeat \in 0 .. Words - 2
      BY <2>2, <2>3, <2>8, SizesAssumption DEF MM!RValid, MM!RLast
    <3>2. MM!BeatAddr' = [mrAddr EXCEPT !.sel = MM!WrapSel(@, mrBeat + 1)]
      BY <2>4, <2>8 DEF MM!BeatAddr, MM!WrapSel
    <3>3. miss' = [[mrAddr EXCEPT !.sel = MM!WrapSel(@, mrBeat)]
                     EXCEPT !.sel = DC!NextSel(@)]
      BY <2>2, <2>6, <2>8 DEF MM!BeatAddr
    <3>4. MM!BeatAddr' = miss'
      BY <2>2, <3>1, <3>2, <3>3, NextBeat
    <3> QED  BY <2>2, <2>4, <2>8, <3>1, <3>4, SizesAssumption
  <2> QED  BY <2>7, <2>8
<1> QED  BY <1>1, <1>4, <1>5, <1>6, <1>7 DEF AR!ReadClock

LEMMA InitBeatInv == Init => BeatInv
<1> SUFFICES ASSUME Init PROVE BeatInv
  OBVIOUS
<1>1. BurstInv
  BY DEF Init, AR!Init, DC!Init, BurstInv, BurstHasOwner
<1>2. ChannelsAgree /\ BeatsInStep
  BY DEF Init, AR!Init, MM!Init, ChannelsAgree, BeatsInStep
<1>3. DC!WordAddr # {}
  <2>1. PICK t \in Tag, i \in Set : TRUE
    BY SizesAssumption
  <2>2. [tag |-> t, idx |-> i, sel |-> 0] \in DC!WordAddr
    BY SizesAssumption DEF DC!WordAddr, DC!Sel
  <2> QED  BY <2>2
<1>4. MissOK
  BY <1>3 DEF Init, DC!Init, MissOK, Program
<1> QED  BY <1>1, <1>2, <1>4 DEF BeatInv

LEMMA BeatKept ==
  ASSUME BeatInv, Tick
  PROVE  BeatInv'
<1>1. BurstInv'
  BY GrantOwned, BurstKept DEF BeatInv
<1>2. MissOK' /\ ChannelsAgree'
  BY MissKept, ChannelsKept DEF BeatInv
<1> QED  BY <1>1, <1>2, StepsKept DEF BeatInv

LEMMA BeatStuttering ==
  ASSUME BeatInv, UNCHANGED vars
  PROVE  BeatInv'
BY DEF vars, cpuVars, dcVars, arVars, mmVars, BeatInv, BurstInv, BurstHasOwner, MissOK,
   ChannelsAgree, BeatsInStep, MM!BeatAddr, MM!WrapSel

(* For every line length and memory latency, the word the memory sends is  *)
(* the word the cache puts it in (dcache.sv: rf_word_sel; the slave's      *)
(* wrapping address).                                                      *)
THEOREM BeatsInPlace == Spec => []BeatsAligned
<1>1. BeatInv /\ [Tick]_vars => BeatInv'
  BY BeatKept, BeatStuttering
<1>2. BeatInv => BeatsAligned
  BY DEF BeatInv, BurstInv, BurstHasOwner, BeatsInStep, ChannelsAgree, BeatsAligned,
     MM!RValid
<1> QED  BY InitBeatInv, <1>1, <1>2, PTL DEF Spec

-----------------------------------------------------------------------------
(* The write channel.  The store being written stays the oldest one: the   *)
(* write buffer drops nothing before its response, and no push reaches the *)
(* slot of the oldest store, because the pointers are at most Depth apart. *)
RingOK == head \in WB!Pointer /\ tail \in WB!Pointer /\ WB!Count <= Depth

DrainInv ==
  /\ wrState \in {"WR_IDLE", "WR_ADDR", "WR_DATA", "WR_RESP"}
  /\ RingOK
  /\ DrainsOldest

(* One clock edge of the ring: it stays in order and, unless it drops its  *)
(* oldest store, keeps it, in its slot.                                    *)
LEMMA RingEdge ==
  ASSUME RingOK, NEW push, NEW st, NEW done, WB!Clock(push, st, done)
  PROVE  /\ RingOK'
         /\ ~WB!Empty /\ ~done => ~WB!Empty' /\ WB!DrainStore' = WB!DrainStore
<1> DEFINE enq == push /\ ~WB!Full
           deq == done /\ ~WB!Empty
<1>1. /\ head \in Nat /\ tail \in Nat /\ head < 2 * Depth /\ tail < 2 * Depth
      /\ Depth \in Nat /\ Depth > 0
  BY SizesAssumption DEF RingOK, WB!Pointer
<1>2. /\ tail' = IF enq THEN WB!Inc(tail) ELSE tail
      /\ head' = IF deq THEN WB!Inc(head) ELSE head
      /\ entry' = [s \in WB!Slot |-> IF enq /\ s = WB!TailIdx THEN st ELSE entry[s]]
  BY DEF WB!Clock
<1>3. enq => WB!Count < Depth
  BY <1>1 DEF RingOK, WB!Count, WB!Full, WB!HeadIdx, WB!TailIdx, WB!SlotOf
<1>4. RingOK'
  BY <1>1, <1>2, <1>3 DEF RingOK, WB!Pointer, WB!Count, WB!Inc, WB!Empty
<1>5. ASSUME ~WB!Empty, ~done PROVE ~WB!Empty' /\ WB!DrainStore' = WB!DrainStore
  <2>1. head' = head
    BY <1>2, <1>5
  <2>2. ~WB!Empty'
    BY <1>1, <1>2, <1>3, <1>5, <2>1 DEF RingOK, WB!Count, WB!Inc, WB!Empty
  <2>3. WB!HeadIdx \in WB!Slot
    BY <1>1 DEF WB!HeadIdx, WB!SlotOf, WB!Slot
  <2>4. enq => WB!HeadIdx # WB!TailIdx
    BY <1>5 DEF WB!Full, WB!Empty
  <2>5. entry'[WB!HeadIdx] = entry[WB!HeadIdx]
    BY <1>2, <2>3, <2>4
  <2>6. WB!HeadIdx' = WB!HeadIdx
    BY <2>1 DEF WB!HeadIdx, WB!SlotOf
  <2> QED  BY <2>2, <2>5, <2>6 DEF WB!DrainStore
<1> QED  BY <1>4, <1>5

LEMMA InitDrainInv == Init => DrainInv
BY SizesAssumption DEF Init, AR!Init, WB!Init, DrainInv, DrainsOldest, RingOK,
   WB!Pointer, WB!Count

LEMMA DrainKept ==
  ASSUME DrainInv, Tick
  PROVE  DrainInv'
<1>1. WB!Clock(Push, NewStore, AR!WriteDone(MM!BValid))
  BY DEF Tick
<1>2. /\ RingOK'
      /\ ~WB!Empty /\ ~AR!WriteDone(MM!BValid) =>
           ~WB!Empty' /\ WB!DrainStore' = WB!DrainStore
  BY <1>1, RingEdge DEF DrainInv
<1>3. AR!WriteClock(WB!DrainReq, WB!DrainStore, MM!AwReady, MM!WReady, MM!BValid)
  BY DEF Tick
<1>4. wrState' \in {"WR_IDLE", "WR_ADDR", "WR_DATA", "WR_RESP"}
  BY <1>3 DEF DrainInv, AR!WriteClock, AR!TakeStore, AR!SendWriteAddress,
     AR!SendWriteData, AR!ReceiveResponse
<1>5. ASSUME wrState' # "WR_IDLE"
      PROVE  ~WB!Empty' /\ wrStore' = WB!DrainStore'
  <2>1. ~WB!Empty /\ wrStore' = WB!DrainStore /\ ~AR!WriteDone(MM!BValid)
    BY <1>3, <1>5 DEF DrainInv, DrainsOldest, AR!WriteClock, AR!TakeStore,
       AR!SendWriteAddress, AR!SendWriteData, AR!ReceiveResponse,
       AR!WriteDone, WB!DrainReq
  <2> QED  BY <1>2, <2>1
<1> QED  BY <1>2, <1>4, <1>5 DEF DrainInv, DrainsOldest

(* For every program and every depth, the store on the write channel is    *)
(* the oldest of the write buffer until its response comes                 *)
(* (bus_arbiter.sv: wr_addr_lat; write_buffer.sv: arb_wr_done).            *)
THEOREM OldestDrained == Spec => []DrainsOldest
<1>1. DrainInv /\ [Tick]_vars => DrainInv'
  <2> SUFFICES ASSUME DrainInv, [Tick]_vars PROVE DrainInv'
    OBVIOUS
  <2>1. CASE Tick
    BY <2>1, DrainKept
  <2>2. CASE UNCHANGED vars
    BY <2>2 DEF vars, wbVars, arVars, DrainInv, DrainsOldest, RingOK, WB!Count,
       WB!Empty, WB!DrainStore, WB!HeadIdx
  <2> QED  BY <2>1, <2>2
<1>2. DrainInv => DrainsOldest
  BY DEF DrainInv
<1> QED  BY InitDrainInv, <1>1, <1>2, PTL DEF Spec

-----------------------------------------------------------------------------
(* The way of a store through write buffer, arbiter and memory, for every  *)
(* program, every depth and every latency: what a load must return changes *)
(* by accepted stores alone.                                               *)
(*                                                                         *)
(* First the ring, as in WriteBuffer_proofs; what is proved there of the   *)
(* write buffer alone does not carry over to an instance of it.            *)

RingTyped == WB!TypeOK /\ WB!RingInv

(* The slots from head up to tail are Count many, distinct, and in order.  *)
LEMMA SlotFacts ==
  ASSUME WB!TypeOK, WB!Count <= Depth
  PROVE  /\ WB!Count \in 0 .. Depth
         /\ WB!Empty <=> WB!Count = 0
         /\ WB!Full <=> WB!Count = Depth
         /\ WB!HeadIdx \in WB!Slot /\ WB!TailIdx \in WB!Slot
         /\ \A k \in 1 .. Depth : WB!NthSlot(k) \in WB!Slot
         /\ \A j, k \in 1 .. Depth : WB!NthSlot(j) = WB!NthSlot(k) => j = k
         /\ WB!NthSlot(1) = WB!HeadIdx
         /\ WB!Count < Depth => WB!NthSlot(WB!Count + 1) = WB!TailIdx
<1> USE SizesAssumption DEF WB!TypeOK, WB!Pointer, WB!Slot, WB!Count, WB!SlotOf
<1>1. WB!Count \in 0 .. Depth /\ (WB!Empty <=> WB!Count = 0)
  BY DEF WB!Empty
<1>2. WB!Full <=> WB!Count = Depth
  BY DEF WB!Full, WB!HeadIdx, WB!TailIdx
<1>3. WB!HeadIdx \in WB!Slot /\ WB!TailIdx \in WB!Slot
  BY DEF WB!HeadIdx, WB!TailIdx
<1>4. \A k \in 1 .. Depth : WB!NthSlot(k) \in WB!Slot
  BY DEF WB!NthSlot, WB!After
<1>5. \A j, k \in 1 .. Depth : WB!NthSlot(j) = WB!NthSlot(k) => j = k
  BY DEF WB!NthSlot, WB!After
<1>6. WB!NthSlot(1) = WB!HeadIdx
  BY DEF WB!NthSlot, WB!After, WB!HeadIdx
<1>7. WB!Count < Depth => WB!NthSlot(WB!Count + 1) = WB!TailIdx
  BY DEF WB!NthSlot, WB!After, WB!TailIdx
<1> QED  BY <1>1, <1>2, <1>3, <1>4, <1>5, <1>6, <1>7

(* One clock edge of the ring: e stores enter behind the youngest, d leave *)
(* from the front.                                                         *)
RingStep(push, st, done, e, d) ==
  /\ e = IF push /\ WB!Count < Depth THEN 1 ELSE 0
  /\ d = IF done /\ WB!Count > 0 THEN 1 ELSE 0
  /\ WB!Count + e <= Depth /\ d <= WB!Count
  /\ WB!Count' = WB!Count + e - d
  /\ \A k \in 1 .. Depth : k + d <= Depth + 1 => WB!NthSlot(k)' = WB!NthSlot(k + d)
  /\ entryValid' = [s \in WB!Slot |->
                      IF d = 1 /\ s = WB!NthSlot(1) THEN FALSE
                      ELSE (e = 1 /\ s = WB!NthSlot(WB!Count + 1)) \/ entryValid[s]]
  /\ entry' = [s \in WB!Slot |->
                 IF e = 1 /\ s = WB!NthSlot(WB!Count + 1) THEN st ELSE entry[s]]

LEMMA RingSteps ==
  ASSUME RingTyped, NEW push, NEW st, NEW done, WB!Clock(push, st, done)
  PROVE  \E e, d \in {0, 1} : RingStep(push, st, done, e, d)
<1>1. WB!TypeOK /\ WB!Count <= Depth
  BY DEF RingTyped, WB!RingInv
<1>2. PICK e \in {0, 1}, d \in {0, 1} :
        /\ e = IF push /\ WB!Count < Depth THEN 1 ELSE 0
        /\ d = IF done /\ WB!Count > 0 THEN 1 ELSE 0
  OBVIOUS
<1>3. /\ WB!Count \in 0 .. Depth
      /\ (push /\ ~WB!Full) <=> e = 1
      /\ (done /\ ~WB!Empty) <=> d = 1
      /\ WB!HeadIdx = WB!NthSlot(1) /\ WB!HeadIdx \in WB!Slot /\ WB!TailIdx \in WB!Slot
      /\ e = 1 => WB!TailIdx = WB!NthSlot(WB!Count + 1)
  BY <1>1, <1>2, SlotFacts, SizesAssumption
<1>4. /\ tail' = IF e = 1 THEN WB!Inc(tail) ELSE tail
      /\ head' = IF d = 1 THEN WB!Inc(head) ELSE head
  BY <1>3 DEF WB!Clock
<1>5. entryValid' = [s \in WB!Slot |->
                       IF d = 1 /\ s = WB!NthSlot(1) THEN FALSE
                       ELSE (e = 1 /\ s = WB!NthSlot(WB!Count + 1)) \/ entryValid[s]]
  BY <1>3 DEF WB!Clock
<1>6. entry' = [s \in WB!Slot |->
                  IF e = 1 /\ s = WB!NthSlot(WB!Count + 1) THEN st ELSE entry[s]]
  BY <1>3 DEF WB!Clock
<1>7. WB!Count' = WB!Count + e - d
  BY <1>1, <1>2, <1>3, <1>4, SizesAssumption DEF WB!TypeOK, WB!Pointer, WB!Inc, WB!Count
<1>8. \A k \in 1 .. Depth : k + d <= Depth + 1 => WB!NthSlot(k)' = WB!NthSlot(k + d)
  BY <1>1, <1>4, SizesAssumption
     DEF WB!TypeOK, WB!Pointer, WB!Inc, WB!NthSlot, WB!After, WB!SlotOf
<1>9. WB!Count + e <= Depth /\ d <= WB!Count
  BY <1>2, <1>3, SizesAssumption
<1> QED  BY <1>2, <1>5, <1>6, <1>7, <1>8, <1>9 DEF RingStep

LEMMA RingTypedKept ==
  ASSUME RingTyped, NEW push, NEW st, NEW done, WB!Clock(push, st, done),
         push => st \in WB!Store
  PROVE  RingTyped'
<1>1. WB!TypeOK /\ WB!Count <= Depth /\ WB!Count \in 0 .. Depth
  BY SlotFacts DEF RingTyped, WB!RingInv
<1>2. PICK e \in {0, 1}, d \in {0, 1} : RingStep(push, st, done, e, d)
  BY RingSteps
<1>3. /\ WB!Count + e <= Depth /\ d <= WB!Count
      /\ WB!Count' = WB!Count + e - d
      /\ e = 1 => push
      /\ \A k \in 1 .. Depth : k + d <= Depth + 1 => WB!NthSlot(k)' = WB!NthSlot(k + d)
      /\ entryValid' = [s \in WB!Slot |->
                          IF d = 1 /\ s = WB!NthSlot(1) THEN FALSE
                          ELSE (e = 1 /\ s = WB!NthSlot(WB!Count + 1)) \/ entryValid[s]]
      /\ entry' = [s \in WB!Slot |->
                     IF e = 1 /\ s = WB!NthSlot(WB!Count + 1) THEN st ELSE entry[s]]
  BY <1>2 DEF RingStep
<1>4. WB!TypeOK'
  <2>1. head' \in WB!Pointer /\ tail' \in WB!Pointer
    BY <1>1, SizesAssumption DEF WB!Clock, WB!TypeOK, WB!Pointer, WB!Inc
  <2>2. entryValid' \in [WB!Slot -> BOOLEAN]
    BY <1>1, <1>3 DEF WB!TypeOK
  <2>3. entry' \in [WB!Slot -> WB!Store]
    <3>1. \A s \in WB!Slot : entry'[s] \in WB!Store
      BY <1>1, <1>3 DEF WB!TypeOK
    <3> QED  BY <1>3, <3>1
  <2> QED  BY <2>1, <2>2, <2>3 DEF WB!TypeOK
<1>5. WB!Count' <= Depth
  BY <1>1, <1>3, SizesAssumption
<1>6. ASSUME NEW s \in WB!Slot
      PROVE  entryValid'[s] <=> \E k \in 1 .. WB!Count' : WB!NthSlot(k)' = s
  <2>1. entryValid[s] <=> \E k \in 1 .. WB!Count : WB!NthSlot(k) = s
    BY DEF RingTyped, WB!RingInv
  <2>2. \A j, k \in 1 .. Depth : WB!NthSlot(j) = WB!NthSlot(k) => j = k
    BY <1>1, SlotFacts
  <2>3. entryValid'[s] <=> \E j \in (1 + d) .. (WB!Count + e) : WB!NthSlot(j) = s
    <3>1. CASE d = 1 /\ s = WB!NthSlot(1)
      <4>1. \A j \in (1 + d) .. (WB!Count + e) : WB!NthSlot(j) # s
        BY <1>1, <1>3, <2>2, <3>1, SizesAssumption
      <4> QED  BY <1>3, <3>1, <4>1
    <3>2. CASE ~(d = 1 /\ s = WB!NthSlot(1))
      <4>1. entryValid'[s] <=> (e = 1 /\ s = WB!NthSlot(WB!Count + 1)) \/ entryValid[s]
        BY <1>3, <3>2
      <4>2. entryValid'[s] <=> \E j \in 1 .. (WB!Count + e) : WB!NthSlot(j) = s
        BY <1>1, <1>3, <2>1, <4>1
      <4> QED  BY <1>1, <1>3, <3>2, <4>2
    <3> QED  BY <3>1, <3>2
  <2>4. ASSUME NEW j \in (1 + d) .. (WB!Count + e), WB!NthSlot(j) = s
        PROVE  \E k \in 1 .. WB!Count' : WB!NthSlot(k)' = s
    <3>1. /\ j - d \in 1 .. WB!Count' /\ j - d \in 1 .. Depth
          /\ (j - d) + d = j /\ j <= Depth
      BY <1>1, <1>3, SizesAssumption
    <3>2. WB!NthSlot(j - d)' = WB!NthSlot((j - d) + d)
      BY <1>1, <1>3, <3>1, SizesAssumption
    <3> QED  BY <2>4, <3>1, <3>2
  <2>5. ASSUME NEW k \in 1 .. WB!Count', WB!NthSlot(k)' = s
        PROVE  \E j \in (1 + d) .. (WB!Count + e) : WB!NthSlot(j) = s
    <3>1. k + d \in (1 + d) .. (WB!Count + e) /\ k \in 1 .. Depth /\ k + d <= Depth
      BY <1>1, <1>3, SizesAssumption
    <3>2. WB!NthSlot(k)' = WB!NthSlot(k + d)
      BY <1>1, <1>3, <3>1, SizesAssumption
    <3> QED  BY <2>5, <3>1, <3>2
  <2> QED  BY <2>3, <2>4, <2>5
<1> QED  BY <1>4, <1>5, <1>6 DEF RingTyped, WB!RingInv

-----------------------------------------------------------------------------
(* What a load must return.                                                *)

Writes(k, a, b) == entry[WB!NthSlot(k)].addr = a /\ b \in entry[WB!NthSlot(k)].strb

Youngest(k, a, b) ==
  /\ k \in 1 .. WB!Count
  /\ Writes(k, a, b)
  /\ \A j \in (k + 1) .. WB!Count : ~Writes(j, a, b)

Untouched(a, b) == \A k \in 1 .. WB!Count : ~Writes(k, a, b)

(* The i-th slot of the scan holds the (Count - i)-th store, as long as    *)
(* there is one, and is an unoccupied slot from there on.                  *)
LEMMA ScanOrder ==
  ASSUME RingTyped
  PROVE  /\ WB!Count \in 0 .. Depth
         /\ \A i \in WB!Slot :
              /\ WB!ScanSlot(i) \in WB!Slot
              /\ i < WB!Count => WB!ScanSlot(i) = WB!NthSlot(WB!Count - i)
              /\ entryValid[WB!ScanSlot(i)] <=> i < WB!Count
<1>1. WB!TypeOK /\ WB!Count \in 0 .. Depth /\ WB!TailIdx \in WB!Slot
  BY SlotFacts DEF RingTyped, WB!RingInv
<1>2. \A i \in WB!Slot : WB!ScanSlot(i) \in WB!Slot
  BY <1>1, SizesAssumption DEF WB!ScanSlot, WB!Slot
<1>3. \A i \in WB!Slot : i < WB!Count => WB!ScanSlot(i) = WB!NthSlot(WB!Count - i)
  BY <1>1, SizesAssumption DEF WB!TypeOK, WB!Pointer, WB!ScanSlot, WB!Slot, WB!NthSlot,
     WB!After, WB!SlotOf, WB!TailIdx, WB!Count
<1>4. \A i, j \in WB!Slot : WB!ScanSlot(i) = WB!ScanSlot(j) => i = j
  BY <1>1, SizesAssumption DEF WB!ScanSlot, WB!Slot
<1>5. ASSUME NEW i \in WB!Slot
      PROVE  entryValid[WB!ScanSlot(i)] <=> i < WB!Count
  <2>1. entryValid[WB!ScanSlot(i)] <=> \E k \in 1 .. WB!Count : WB!NthSlot(k) = WB!ScanSlot(i)
    BY <1>2 DEF RingTyped, WB!RingInv
  <2>2. i < WB!Count => WB!Count - i \in 1 .. WB!Count
    BY <1>1, SizesAssumption DEF WB!Slot
  <2>3. ASSUME NEW k \in 1 .. WB!Count, WB!NthSlot(k) = WB!ScanSlot(i) PROVE i < WB!Count
    <3>1. /\ WB!Count - k \in WB!Slot /\ WB!Count - k < WB!Count
          /\ WB!Count - (WB!Count - k) = k
      BY <1>1, SizesAssumption DEF WB!Slot
    <3>2. WB!ScanSlot(WB!Count - k) = WB!NthSlot(k)
      BY <1>3, <3>1
    <3> QED  BY <1>4, <2>3, <3>1, <3>2
  <2> QED  BY <1>3, <2>1, <2>2, <2>3
<1> QED  BY <1>1, <1>2, <1>3, <1>5

(* A non-empty set of naturals has a least element: the intervals 1 .. n   *)
(* are finite sets, and strict inclusion of finite sets is well-founded.   *)
LEMMA LeastSlot ==
  ASSUME NEW T, T \subseteq Nat, T # {}
  PROVE  \E m \in T : \A n \in T : m <= n
<1> DEFINE F == {1 .. n : n \in T}
<1>1. F \subseteq FiniteSubsetsOf(Nat)
  BY FS_Interval DEF FiniteSubsetsOf
<1>2. F # {}
  OBVIOUS
<1>3. IsWellFoundedOn(StrictSubsetOrdering(Nat), FiniteSubsetsOf(Nat))
  BY FS_StrictSubsetOrderingWellFounded
<1>4. \E u \in F : \A v \in F : <<v, u>> \notin StrictSubsetOrdering(Nat)
  <2> HIDE DEF F
  <2> QED BY <1>1, <1>2, <1>3, WFMin
<1>5. PICK m \in T : \A n \in T : <<1 .. n, 1 .. m>> \notin StrictSubsetOrdering(Nat)
  BY <1>4
<1>6. ASSUME NEW n \in T, n < m PROVE FALSE
  <2>1. n \in Nat /\ m \in Nat
    OBVIOUS
  <2>2. 1 .. n \subseteq 1 .. m /\ m \in 1 .. m /\ m \notin 1 .. n
    BY <2>1, <1>6
  <2>3. 1 .. n \in SUBSET Nat /\ 1 .. m \in SUBSET Nat
    BY <2>1
  <2>4. <<1 .. n, 1 .. m>> \in StrictSubsetOrdering(Nat)
    BY <2>2, <2>3 DEF StrictSubsetOrdering
  <2> QED  BY <2>4, <1>5
<1> QED  BY <1>6

(* The scan offers a lane if a pending store wrote it, and then the byte   *)
(* of the youngest one.                                                    *)
LEMMA ScanOffers ==
  ASSUME RingTyped, NEW a, NEW b \in Lane
  PROVE  /\ b \in WB!FwdStrb(a) <=> ~Untouched(a, b)
         /\ b \in WB!FwdStrb(a) =>
              \E k : Youngest(k, a, b) /\ WB!FwdByte(a, b) = entry[WB!NthSlot(k)].data[b]
<1>1. WB!Count \in 0 .. Depth
  BY ScanOrder
<1>2. ASSUME NEW i \in WB!Slot
      PROVE  WB!Supplies(i, a, b) <=> i < WB!Count /\ Writes(WB!Count - i, a, b)
  BY ScanOrder DEF WB!Supplies, WB!Matches, Writes
<1>3. \A k \in 1 .. WB!Count :
        WB!Count - k \in WB!Slot /\ WB!Count - k < WB!Count /\ WB!Count - (WB!Count - k) = k
  BY <1>1, SizesAssumption DEF WB!Slot
<1>4. \A i \in WB!Slot : i < WB!Count => WB!Count - i \in 1 .. WB!Count
  BY <1>1, SizesAssumption DEF WB!Slot
<1>5. b \in WB!FwdStrb(a) <=> \E i \in WB!Slot : WB!Supplies(i, a, b)
  BY DEF WB!FwdStrb
<1>6. b \in WB!FwdStrb(a) <=> ~Untouched(a, b)
  <2>1. ASSUME NEW k \in 1 .. WB!Count, Writes(k, a, b)
        PROVE  \E i \in WB!Slot : WB!Supplies(i, a, b)
    BY <1>2, <1>3, <2>1
  <2>2. ASSUME NEW i \in WB!Slot, WB!Supplies(i, a, b)
        PROVE  \E k \in 1 .. WB!Count : Writes(k, a, b)
    BY <1>2, <1>4, <2>2
  <2> QED  BY <1>5, <2>1, <2>2 DEF Untouched
<1>7. ASSUME b \in WB!FwdStrb(a)
      PROVE  \E k : Youngest(k, a, b) /\ WB!FwdByte(a, b) = entry[WB!NthSlot(k)].data[b]
  <2> DEFINE T == {i \in WB!Slot : WB!Supplies(i, a, b)}
             First(i) == WB!Supplies(i, a, b) /\ \A j \in 0 .. (i - 1) : ~WB!Supplies(j, a, b)
  <2>1. T \subseteq Nat /\ T # {}
    BY <1>5, <1>7, SizesAssumption DEF WB!Slot
  <2>2. PICK f \in T : \A j \in T : f <= j
    <3> HIDE DEF T
    <3> QED  BY <2>1, LeastSlot
  <2>3. f \in WB!Slot /\ First(f)
    <3>1. ASSUME NEW j \in 0 .. (f - 1), WB!Supplies(j, a, b) PROVE FALSE
      BY <2>2, <3>1, SizesAssumption DEF WB!Slot
    <3> QED  BY <2>2, <3>1
  <2>4. \A i \in WB!Slot : First(i) => i = f
    <3>1. ASSUME NEW i \in WB!Slot, First(i), i < f PROVE FALSE
      BY <2>3, <3>1, SizesAssumption DEF WB!Slot
    <3>2. ASSUME NEW i \in WB!Slot, First(i), f < i PROVE FALSE
      BY <2>3, <3>2, SizesAssumption DEF WB!Slot
    <3> QED  BY <2>3, <3>1, <3>2, SizesAssumption DEF WB!Slot
  <2>5. (CHOOSE i \in WB!Slot : First(i)) = f
    <3> HIDE DEF First
    <3> QED  BY <2>3, <2>4
  <2>6. WB!FwdByte(a, b) = entry[WB!ScanSlot(f)].data[b]
    BY <2>5 DEF WB!FwdByte
  <2>7. f < WB!Count /\ Writes(WB!Count - f, a, b) /\ WB!Count - f \in 1 .. WB!Count
    BY <1>2, <1>4, <2>3
  <2>8. ASSUME NEW j \in ((WB!Count - f) + 1) .. WB!Count, Writes(j, a, b) PROVE FALSE
    <3>1. j \in 1 .. WB!Count /\ WB!Count - j \in 0 .. (f - 1)
      BY <1>1, <2>3, <2>7, SizesAssumption DEF WB!Slot
    <3>2. WB!Supplies(WB!Count - j, a, b)
      BY <1>2, <1>3, <2>8, <3>1
    <3> QED  BY <2>3, <3>1, <3>2
  <2>9. WB!ScanSlot(f) = WB!NthSlot(WB!Count - f)
    BY <2>3, <2>7, ScanOrder
  <2> QED  BY <2>6, <2>7, <2>8, <2>9 DEF Youngest
<1> QED  BY <1>6, <1>7

LEMMA OneYoungest ==
  ASSUME RingTyped, NEW a, NEW b, NEW j, NEW k, Youngest(j, a, b), Youngest(k, a, b)
  PROVE  j = k
<1>1. WB!Count \in Nat
  BY ScanOrder, SizesAssumption
<1>2. j < k => j = k
  BY <1>1 DEF Youngest
<1>3. k < j => j = k
  BY <1>1 DEF Youngest
<1> QED  BY <1>1, <1>2, <1>3 DEF Youngest

(* A load returns, lane by lane, the youngest pending store or memory.     *)
LEMMA VisibleIs ==
  ASSUME RingTyped, NEW a \in DC!WordAddr, NEW b \in Lane
  PROVE  /\ \A k : Youngest(k, a, b) => Visible[a][b] = entry[WB!NthSlot(k)].data[b]
         /\ Untouched(a, b) => Visible[a][b] = mem[a][b]
         /\ Untouched(a, b) \/ \E k : Youngest(k, a, b)
<1>1. Visible[a][b] = IF b \in WB!FwdStrb(a) THEN WB!FwdByte(a, b) ELSE mem[a][b]
  BY DEF Visible
<1>2. Untouched(a, b) => Visible[a][b] = mem[a][b]
  BY <1>1, ScanOffers
<1>3. ASSUME NEW k, Youngest(k, a, b)
      PROVE  Visible[a][b] = entry[WB!NthSlot(k)].data[b]
  <2>1. b \in WB!FwdStrb(a)
    BY <1>3, ScanOffers DEF Youngest, Untouched
  <2>2. PICK j : Youngest(j, a, b) /\ WB!FwdByte(a, b) = entry[WB!NthSlot(j)].data[b]
    BY <2>1, ScanOffers
  <2>3. j = k
    BY <1>3, <2>2, OneYoungest
  <2> QED  BY <1>1, <2>1, <2>2, <2>3
<1>4. Untouched(a, b) \/ \E k : Youngest(k, a, b)
  BY ScanOffers
<1> QED  BY <1>2, <1>3, <1>4

-----------------------------------------------------------------------------
(* The write channel.  Arbiter and memory go through their states hand in  *)
(* hand, with one and the same store; when the arbiter waits for the       *)
(* response, the store is in memory.                                       *)
HandInHand ==
  /\ mwState \in {"WR_IDLE", "WR_DATA", "WR_WAIT", "WR_RESP"}
  /\ wrState \in {"WR_IDLE", "WR_ADDR"} <=> mwState = "WR_IDLE"
  /\ wrState = "WR_DATA" <=> mwState = "WR_DATA"
  /\ mwState # "WR_IDLE" => mwAddr = wrStore.addr
  /\ wrState = "WR_RESP" =>
       \A b \in wrStore.strb : mem[wrStore.addr][b] = wrStore.data[b]

MemTyped == mem \in [DC!WordAddr -> DC!Word]

StoreInv == RingTyped /\ DrainInv /\ req \in Program /\ MemTyped /\ HandInHand

LEMMA SameTypes ==
  /\ WB!WordAddr = DC!WordAddr /\ MM!WordAddr = DC!WordAddr
  /\ WB!Word = DC!Word /\ MM!Word = DC!Word
BY DEF WB!WordAddr, DC!WordAddr, MM!WordAddr, WB!Sel, DC!Sel, MM!Sel, WB!Word, DC!Word, MM!Word

LEMMA AccessTyped ==
  ASSUME req \in Program
  PROVE  /\ DC!IsStore(MemReq) => MemReq = req /\ req \in DC!StoreReq
         /\ DC!IsLoad(MemReq) => MemReq = req /\ req \in DC!LoadReq
         /\ Push => MemReq = req /\ req \in DC!StoreReq /\ NewStore \in WB!Store
         /\ MemReq \in DC!LoadReq \cup DC!StoreReq \cup {DC!NoReq}
<1>1. \/ req = DC!NoReq \/ req = FenceReq
      \/ req \in DC!LoadReq /\ req.kind = "load"
      \/ req \in DC!StoreReq /\ req.kind = "store"
  BY ProgramAssumption DEF Program, DC!LoadReq, DC!StoreReq
<1>2. DC!NoReq.kind = "none" /\ FenceReq.kind = "fence"
  BY DEF DC!NoReq, FenceReq
<1>3. MemReq = req \/ (req = FenceReq /\ MemReq = DC!NoReq)
  BY DEF MemReq
<1>4. DC!IsStore(MemReq) => MemReq = req /\ req \in DC!StoreReq
  BY <1>1, <1>2, <1>3 DEF DC!IsStore
<1>5. DC!IsLoad(MemReq) => MemReq = req /\ req \in DC!LoadReq
  BY <1>1, <1>2, <1>3 DEF DC!IsLoad
<1>6. req \in DC!StoreReq => NewStore \in WB!Store
  BY SameTypes DEF DC!StoreReq, NewStore, WB!Store
<1>7. MemReq \in DC!LoadReq \cup DC!StoreReq \cup {DC!NoReq}
  <2>1. CASE req = FenceReq
    BY <2>1 DEF MemReq
  <2>2. CASE req # FenceReq
    BY <1>1, <2>2 DEF MemReq
  <2> QED  BY <2>1, <2>2
<1> QED  BY <1>4, <1>5, <1>6, <1>7 DEF Push, DC!Push

(* Memory takes exactly the oldest store, while the arbiter sends it.      *)
LEMMA MemoryEdge ==
  ASSUME StoreInv, Tick
  PROVE  /\ wrState # "WR_IDLE" => wrStore = WB!DrainStore /\ wrStore \in WB!Store /\ ~WB!Empty
         /\ wrState # "WR_DATA" => mem' = mem
         /\ wrState = "WR_DATA" =>
              mem' = [mem EXCEPT ![wrStore.addr] =
                        [b \in Lane |-> IF b \in wrStore.strb THEN wrStore.data[b] ELSE @[b]]]
<1>1. MM!WriteClock(AR!AwValid, wrStore.addr, AR!WValid, wrStore.data, wrStore.strb, AR!BReady)
  BY DEF Tick
<1>2. ASSUME wrState # "WR_IDLE"
      PROVE  wrStore = WB!DrainStore /\ wrStore \in WB!Store /\ ~WB!Empty
  <2>1. wrStore = WB!DrainStore /\ ~WB!Empty
    BY <1>2 DEF StoreInv, DrainInv, DrainsOldest
  <2>2. WB!HeadIdx \in WB!Slot /\ entry \in [WB!Slot -> WB!Store]
    BY SlotFacts DEF StoreInv, RingTyped, WB!RingInv, WB!TypeOK
  <2> QED  BY <2>1, <2>2 DEF WB!DrainStore
<1>3. ASSUME wrState # "WR_DATA" PROVE mem' = mem
  BY <1>1, <1>3 DEF StoreInv, HandInHand, MM!WriteClock, MM!AcceptWrite, MM!CommitWrite,
     MM!WriteLatency, MM!SendResponse
<1>4. ASSUME wrState = "WR_DATA"
      PROVE  mem' = [mem EXCEPT ![wrStore.addr] =
                       [b \in Lane |-> IF b \in wrStore.strb THEN wrStore.data[b] ELSE @[b]]]
  <2>1. mwState = "WR_DATA" /\ mwAddr = wrStore.addr /\ AR!WValid
    BY <1>4 DEF StoreInv, HandInHand, AR!WValid
  <2> QED  BY <1>1, <2>1 DEF MM!WriteClock, MM!AcceptWrite, MM!CommitWrite,
     MM!WriteLatency, MM!SendResponse
<1> QED  BY <1>2, <1>3, <1>4

LEMMA HandsKept ==
  ASSUME StoreInv, Tick
  PROVE  HandInHand' /\ MemTyped'
<1>1. AR!WriteClock(WB!DrainReq, WB!DrainStore, MM!AwReady, MM!WReady, MM!BValid)
  BY DEF Tick
<1>2. MM!WriteClock(AR!AwValid, wrStore.addr, AR!WValid, wrStore.data, wrStore.strb, AR!BReady)
  BY DEF Tick
<1>3. /\ mwState' \in {"WR_IDLE", "WR_DATA", "WR_WAIT", "WR_RESP"}
      /\ wrState' \in {"WR_IDLE", "WR_ADDR"} <=> mwState' = "WR_IDLE"
      /\ wrState' = "WR_DATA" <=> mwState' = "WR_DATA"
  BY <1>1, <1>2 DEF StoreInv, DrainInv, HandInHand, AR!WriteClock, AR!TakeStore,
     AR!SendWriteAddress, AR!SendWriteData, AR!ReceiveResponse, MM!WriteClock,
     MM!AcceptWrite, MM!CommitWrite, MM!WriteLatency, MM!SendResponse, AR!AwValid,
     AR!WValid, AR!BReady, MM!AwReady, MM!WReady, MM!BValid
<1>4. wrState # "WR_IDLE" => wrStore' = wrStore
  BY <1>1 DEF AR!WriteClock, AR!TakeStore, AR!SendWriteAddress, AR!SendWriteData,
     AR!ReceiveResponse
<1>5. mwState' # "WR_IDLE" => mwAddr' = wrStore'.addr
  BY <1>2, <1>3, <1>4 DEF StoreInv, HandInHand, MM!WriteClock, MM!AcceptWrite,
     MM!CommitWrite, MM!WriteLatency, MM!SendResponse, AR!AwValid
<1>6. MemTyped'
  <2>1. CASE wrState = "WR_DATA"
    <3> DEFINE w == [b \in Lane |-> IF b \in wrStore.strb THEN wrStore.data[b]
                                    ELSE mem[wrStore.addr][b]]
    <3>1. wrStore.addr \in DC!WordAddr /\ wrStore.data \in DC!Word /\ wrStore \in WB!Store
      BY <2>1, MemoryEdge, SameTypes DEF WB!Store
    <3>2. w \in DC!Word
      BY <3>1 DEF StoreInv, MemTyped, DC!Word
    <3>3. mem' = [mem EXCEPT ![wrStore.addr] = w]
      BY <2>1, MemoryEdge
    <3> HIDE DEF w
    <3> QED  BY <3>1, <3>2, <3>3 DEF StoreInv, MemTyped
  <2>2. CASE wrState # "WR_DATA"
    BY <2>2, MemoryEdge DEF StoreInv, MemTyped
  <2> QED  BY <2>1, <2>2
<1>7. ASSUME wrState' = "WR_RESP", NEW b \in wrStore'.strb
      PROVE  mem'[wrStore'.addr][b] = wrStore'.data[b]
  <2>1. wrState \in {"WR_DATA", "WR_RESP"} /\ wrStore' = wrStore /\ wrStore \in WB!Store
    BY <1>1, <1>4, <1>7, MemoryEdge DEF AR!WriteClock, AR!TakeStore, AR!SendWriteAddress,
       AR!SendWriteData, AR!ReceiveResponse
  <2>2. wrStore.addr \in DC!WordAddr /\ b \in Lane
    BY <1>7, <2>1, SameTypes DEF WB!Store
  <2>3. CASE wrState = "WR_DATA"
    BY <1>7, <2>1, <2>2, <2>3, MemoryEdge DEF StoreInv, MemTyped
  <2>4. CASE wrState = "WR_RESP"
    BY <1>7, <2>1, <2>4, MemoryEdge DEF StoreInv, HandInHand
  <2> QED  BY <2>1, <2>3, <2>4
<1> QED  BY <1>3, <1>5, <1>6, <1>7 DEF HandInHand

(* The oldest store, when the response comes, is in memory already.        *)
LEMMA CommittedWhenDone ==
  ASSUME StoreInv, AR!WriteDone(MM!BValid)
  PROVE  \A a \in DC!WordAddr, b \in Lane :
           Writes(1, a, b) => mem[a][b] = entry[WB!NthSlot(1)].data[b]
<1>1. wrState = "WR_RESP" /\ wrStore = WB!DrainStore
  BY DEF AR!WriteDone, StoreInv, DrainInv, DrainsOldest
<1>2. WB!NthSlot(1) = WB!HeadIdx
  BY SlotFacts DEF StoreInv, RingTyped, WB!RingInv
<1>3. wrStore = entry[WB!NthSlot(1)]
  BY <1>1, <1>2 DEF WB!DrainStore
<1> QED  BY <1>1, <1>3 DEF StoreInv, HandInHand, Writes

(* What memory takes, a pending store covers.                              *)
LEMMA MemoryKeepsUncovered ==
  ASSUME StoreInv, Tick, NEW a \in DC!WordAddr, NEW b \in Lane,
         WB!Count > 0 => ~Writes(1, a, b)
  PROVE  mem'[a][b] = mem[a][b]
<1>1. CASE wrState # "WR_DATA"
  BY <1>1, MemoryEdge
<1>2. CASE wrState = "WR_DATA"
  <2>1. wrStore = WB!DrainStore /\ ~WB!Empty /\ wrStore \in WB!Store
    BY <1>2, MemoryEdge
  <2>2. /\ WB!NthSlot(1) = WB!HeadIdx
        /\ WB!Count \in Nat /\ WB!Count # 0
    BY <2>1, SlotFacts, SizesAssumption DEF StoreInv, RingTyped, WB!RingInv
  <2>3. ~(wrStore.addr = a /\ b \in wrStore.strb)
    BY <2>1, <2>2 DEF WB!DrainStore, Writes
  <2>4. wrStore.addr \in DC!WordAddr
    BY <2>1, SameTypes DEF WB!Store
  <2>5. mem \in [DC!WordAddr -> DC!Word]
    BY DEF StoreInv, MemTyped
  <2>6. mem' = [mem EXCEPT ![wrStore.addr] =
                  [c \in Lane |-> IF c \in wrStore.strb THEN wrStore.data[c] ELSE @[c]]]
    BY <1>2, MemoryEdge
  <2>7. CASE wrStore.addr = a
    BY <2>3, <2>4, <2>5, <2>6, <2>7
  <2>8. CASE wrStore.addr # a
    BY <2>4, <2>5, <2>6, <2>8
  <2> QED  BY <2>7, <2>8
<1> QED  BY <1>1, <1>2

(* How the writers of a byte move up at a clock edge.                      *)
WritersMove(a, b, e, d) ==
  /\ WB!Count' = WB!Count + e - d
  /\ \A k \in 1 .. WB!Count' :
       Writes(k, a, b)' <=> IF k + d <= WB!Count THEN Writes(k + d, a, b)
                            ELSE req.addr = a /\ b \in req.strb
  /\ \A k \in 1 .. WB!Count' :
       entry'[WB!NthSlot(k)'] = IF k + d <= WB!Count THEN entry[WB!NthSlot(k + d)]
                                ELSE NewStore

LEMMA WritersStep ==
  ASSUME StoreInv, Tick, NEW a, NEW b
  PROVE  \E e, d \in {0, 1} :
           /\ e = IF Push THEN 1 ELSE 0
           /\ d = IF AR!WriteDone(MM!BValid) THEN 1 ELSE 0
           /\ d <= WB!Count
           /\ WritersMove(a, b, e, d)
<1>1. WB!Clock(Push, NewStore, AR!WriteDone(MM!BValid)) /\ RingTyped
  BY DEF Tick, StoreInv
<1>2. PICK e \in {0, 1}, d \in {0, 1} : RingStep(Push, NewStore, AR!WriteDone(MM!BValid), e, d)
  BY <1>1, RingSteps
<1>3. /\ WB!Count \in 0 .. Depth /\ (WB!Empty <=> WB!Count = 0) /\ (WB!Full <=> WB!Count = Depth)
      /\ \A k \in 1 .. Depth : WB!NthSlot(k) \in WB!Slot
      /\ \A j, k \in 1 .. Depth : WB!NthSlot(j) = WB!NthSlot(k) => j = k
  BY <1>1, SlotFacts DEF RingTyped, WB!RingInv
<1>4. e = IF Push THEN 1 ELSE 0
  BY <1>2, <1>3, SizesAssumption DEF RingStep, Push, DC!Push
<1>5. d = IF AR!WriteDone(MM!BValid) THEN 1 ELSE 0
  <2>1. AR!WriteDone(MM!BValid) => ~WB!Empty
    BY DEF AR!WriteDone, StoreInv, DrainInv, DrainsOldest
  <2> QED  BY <1>2, <1>3, <2>1, SizesAssumption DEF RingStep
<1>6. /\ WB!Count' = WB!Count + e - d
      /\ WB!Count + e <= Depth /\ d <= WB!Count
      /\ \A k \in 1 .. Depth : k + d <= Depth + 1 => WB!NthSlot(k)' = WB!NthSlot(k + d)
      /\ entry' = [s \in WB!Slot |->
                     IF e = 1 /\ s = WB!NthSlot(WB!Count + 1) THEN NewStore ELSE entry[s]]
  BY <1>2 DEF RingStep
<1>7. ASSUME NEW k \in 1 .. WB!Count'
      PROVE  entry'[WB!NthSlot(k)'] = IF k + d <= WB!Count THEN entry[WB!NthSlot(k + d)]
                                      ELSE NewStore
  <2>1. /\ k \in 1 .. Depth /\ k + d \in 1 .. Depth /\ k + d <= WB!Count + e
        /\ k + d <= Depth + 1
    BY <1>3, <1>6, SizesAssumption
  <2>2. WB!NthSlot(k)' = WB!NthSlot(k + d) /\ WB!NthSlot(k + d) \in WB!Slot
    BY <1>3, <1>6, <2>1
  <2>3. CASE k + d <= WB!Count
    <3>1. e = 0 \/ WB!NthSlot(k + d) # WB!NthSlot(WB!Count + 1)
      BY <1>3, <1>6, <2>1, <2>3, SizesAssumption
    <3> QED  BY <1>6, <2>2, <2>3, <3>1
  <2>4. CASE ~(k + d <= WB!Count)
    <3>1. e = 1 /\ k + d = WB!Count + 1
      BY <1>3, <2>1, <2>4, SizesAssumption
    <3> QED  BY <1>6, <2>2, <2>4, <3>1
  <2> QED  BY <2>3, <2>4
<1>8. ASSUME NEW k \in 1 .. WB!Count'
      PROVE  Writes(k, a, b)' <=> IF k + d <= WB!Count THEN Writes(k + d, a, b)
                                  ELSE req.addr = a /\ b \in req.strb
  BY <1>7 DEF Writes, NewStore
<1> QED  BY <1>4, <1>5, <1>6, <1>7, <1>8 DEF WritersMove

-----------------------------------------------------------------------------
(* One clock edge.                                                         *)

ReadsYoungest ==
  \A a \in DC!WordAddr, b \in Lane :
    /\ \A k : Youngest(k, a, b) => Visible[a][b] = entry[WB!NthSlot(k)].data[b]
    /\ Untouched(a, b) => Visible[a][b] = mem[a][b]
    /\ Untouched(a, b) \/ \E k : Youngest(k, a, b)

LEMMA ReadsNow == RingTyped => ReadsYoungest
BY VisibleIs DEF ReadsYoungest

LEMMA ReadsNext == RingTyped' => ReadsYoungest'
BY ReadsNow, PTL

LEMMA ByteEdge ==
  ASSUME StoreInv, RingTyped', Tick, NEW a \in DC!WordAddr, NEW b \in Lane
  PROVE  Visible'[a][b] = IF Push /\ req.addr = a /\ b \in req.strb
                          THEN req.data[b] ELSE Visible[a][b]
<1>1. PICK e \in {0, 1}, d \in {0, 1} :
        /\ e = IF Push THEN 1 ELSE 0
        /\ d = IF AR!WriteDone(MM!BValid) THEN 1 ELSE 0
        /\ d <= WB!Count
        /\ WritersMove(a, b, e, d)
  BY WritersStep
<1>2. WB!Count \in Nat
  BY ScanOrder, SizesAssumption DEF StoreInv
<1>3. /\ WB!Count' = WB!Count + e - d
      /\ \A k \in 1 .. WB!Count' :
           Writes(k, a, b)' <=> IF k + d <= WB!Count THEN Writes(k + d, a, b)
                                ELSE req.addr = a /\ b \in req.strb
      /\ \A k \in 1 .. WB!Count' :
           entry'[WB!NthSlot(k)'] = IF k + d <= WB!Count THEN entry[WB!NthSlot(k + d)]
                                    ELSE NewStore
  BY <1>1 DEF WritersMove
<1>4. /\ \A k : Youngest(k, a, b) => Visible[a][b] = entry[WB!NthSlot(k)].data[b]
      /\ Untouched(a, b) => Visible[a][b] = mem[a][b]
      /\ Untouched(a, b) \/ \E k : Youngest(k, a, b)
  BY ReadsNow DEF StoreInv, ReadsYoungest
<1>5. /\ \A k : Youngest(k, a, b)' => Visible'[a][b] = entry'[WB!NthSlot(k)'].data[b]
      /\ Untouched(a, b)' => Visible'[a][b] = mem'[a][b]
  BY ReadsNext DEF ReadsYoungest
<1>6. CASE Push /\ req.addr = a /\ b \in req.strb
  <2>1. PICK n \in 1 .. WB!Count' : n = WB!Count' /\ n + d = WB!Count + 1
    BY <1>1, <1>2, <1>3, <1>6
  <2>2. Writes(n, a, b)' /\ entry'[WB!NthSlot(n)'] = NewStore
    BY <1>2, <1>3, <1>6, <2>1
  <2>3. Youngest(n, a, b)'
    BY <1>2, <1>3, <2>1, <2>2 DEF Youngest
  <2>4. Visible'[a][b] = NewStore.data[b]
    BY <1>5, <2>2, <2>3
  <2> QED  BY <1>6, <2>4 DEF NewStore
<1>7. CASE ~(Push /\ req.addr = a /\ b \in req.strb)
  <2>1. \A k \in 1 .. WB!Count' :
          Writes(k, a, b)' <=> k + d <= WB!Count /\ Writes(k + d, a, b)
    BY <1>1, <1>2, <1>3, <1>7
  <2>2. CASE Untouched(a, b)
    <3>1. Untouched(a, b)'
      BY <1>1, <1>2, <1>3, <2>1, <2>2 DEF Untouched
    <3>2. mem'[a][b] = mem[a][b]
      BY <1>2, <2>2, MemoryKeepsUncovered DEF Untouched
    <3> QED  BY <1>4, <1>5, <1>7, <2>2, <3>1, <3>2
  <2>3. ASSUME NEW k, Youngest(k, a, b), k > d
        PROVE  Visible'[a][b] = Visible[a][b]
    <3>1. k \in 1 .. WB!Count /\ Writes(k, a, b)
      BY <2>3 DEF Youngest
    <3>2. k - d \in 1 .. WB!Count' /\ (k - d) + d = k
      BY <1>1, <1>2, <1>3, <2>3, <3>1
    <3>3. PICK m \in 1 .. WB!Count' : m + d = k /\ m = k - d
      BY <3>2
    <3>4. Writes(m, a, b)' /\ entry'[WB!NthSlot(m)'] = entry[WB!NthSlot(k)]
      BY <1>3, <2>1, <3>1, <3>3
    <3>5. ASSUME NEW j \in (m + 1) .. WB!Count' PROVE ~Writes(j, a, b)'
      <4>1. j \in 1 .. WB!Count' /\ (j + d <= WB!Count => j + d \in (k + 1) .. WB!Count)
        BY <1>1, <1>2, <1>3, <3>1, <3>3
      <4> QED  BY <2>1, <2>3, <4>1 DEF Youngest
    <3>6. Youngest(m, a, b)'
      BY <3>4, <3>5 DEF Youngest
    <3> QED  BY <1>4, <1>5, <2>3, <3>4, <3>6
  <2>4. ASSUME NEW k, Youngest(k, a, b), ~(k > d)
        PROVE  Visible'[a][b] = Visible[a][b]
    <3>1. k = 1 /\ d = 1 /\ Writes(1, a, b) /\ AR!WriteDone(MM!BValid)
      BY <1>1, <1>2, <2>4 DEF Youngest
    <3>2. mem[a][b] = entry[WB!NthSlot(1)].data[b]
      BY <3>1, CommittedWhenDone
    <3>3. mem'[a][b] = mem[a][b]
      <4>1. wrState # "WR_DATA"
        BY <3>1 DEF AR!WriteDone
      <4> QED  BY <4>1, MemoryEdge
    <3>4. Untouched(a, b)'
      BY <1>1, <1>2, <1>3, <2>1, <2>4, <3>1 DEF Untouched, Youngest
    <3> QED  BY <1>4, <1>5, <2>4, <3>1, <3>2, <3>3, <3>4
  <2> QED  BY <1>4, <1>7, <2>2, <2>3, <2>4
<1> QED  BY <1>6, <1>7

LEMMA InitStoreInv == Init => StoreInv
<1> SUFFICES ASSUME Init PROVE StoreInv
  OBVIOUS
<1>1. DrainInv
  BY InitDrainInv
<1>2. HandInHand
  BY DEF Init, AR!Init, MM!Init, HandInHand
<1>3. PICK t \in Tag, i \in Set, l \in Lane, v \in Byte : TRUE
  BY SizesAssumption, BytesAssumption
<1> DEFINE a == [tag |-> t, idx |-> i, sel |-> 0]
           w == [b \in Lane |-> v]
<1>4. a \in DC!WordAddr /\ w \in DC!Word
  BY SizesAssumption DEF DC!WordAddr, DC!Sel, DC!Word
<1>5. [addr |-> a, data |-> w, strb |-> {l}] \in WB!Store
  BY <1>4, SameTypes DEF WB!Store
<1>6. MemTyped
  <2>1. (CHOOSE x \in MM!Word : TRUE) \in DC!Word
    <3> HIDE DEF w
    <3> QED  BY <1>4, SameTypes
  <2> QED  BY <2>1, SameTypes DEF Init, MM!Init, MemTyped
<1>7. RingTyped
  <2>1. entry \in [WB!Slot -> WB!Store]
    <3>1. (CHOOSE st \in WB!Store : TRUE) \in WB!Store
      BY <1>5
    <3> QED  BY <3>1 DEF Init, WB!Init
  <2>2. WB!Count = 0 /\ head \in WB!Pointer /\ tail \in WB!Pointer
    BY SizesAssumption DEF Init, WB!Init, WB!Count, WB!Pointer
  <2> QED  BY <2>1, <2>2, SizesAssumption DEF Init, WB!Init, RingTyped, WB!TypeOK, WB!RingInv
<1>8. req \in Program
  BY DEF Init, Program
<1> QED  BY <1>1, <1>2, <1>6, <1>7, <1>8 DEF StoreInv

LEMMA StoreInvKept ==
  ASSUME StoreInv, Tick
  PROVE  StoreInv'
<1>1. WB!Clock(Push, NewStore, AR!WriteDone(MM!BValid))
  BY DEF Tick
<1>2. RingTyped'
  BY <1>1, AccessTyped, RingTypedKept DEF StoreInv
<1>3. DrainInv'
  BY DrainKept DEF StoreInv
<1>4. req' \in Program
  BY DEF StoreInv, Tick, CpuClock
<1> QED  BY <1>2, <1>3, <1>4, HandsKept DEF StoreInv

LEMMA Stuttering ==
  ASSUME UNCHANGED vars
  PROVE  /\ StoreInv => StoreInv'
         /\ Visible' = Visible
<1>1. StoreInv => StoreInv'
  BY DEF vars, cpuVars, wbVars, arVars, mmVars, StoreInv, RingTyped, WB!TypeOK, WB!RingInv,
     WB!Count, WB!NthSlot, DrainInv, DrainsOldest, RingOK, WB!Empty, WB!DrainStore,
     WB!HeadIdx, MemTyped, HandInHand
<1>2. Visible' = Visible
  BY DEF vars, wbVars, mmVars, Visible, WB!FwdStrb, WB!FwdByte, WB!Supplies, WB!Matches,
     WB!ScanSlot, WB!TailIdx
<1> QED  BY <1>1, <1>2

LEMMA StoreInvAlways == Spec => []StoreInv
<1>1. StoreInv /\ [Tick]_vars => StoreInv'
  BY StoreInvKept, Stuttering
<1> QED  BY InitStoreInv, <1>1, PTL DEF Spec

(* What a load must return changes by the store that is pushed, if any.    *)
VisibleEdge ==
  Visible' = IF Push
             THEN [Visible EXCEPT ![req.addr] = DC!Overlay(req.data, req.strb, @)]
             ELSE Visible

LEMMA EdgeVisible ==
  ASSUME StoreInv, StoreInv', Tick
  PROVE  VisibleEdge
<1> DEFINE next == IF Push
                   THEN [Visible EXCEPT ![req.addr] = DC!Overlay(req.data, req.strb, @)]
                   ELSE Visible
<1>1. Visible' = [a \in DC!WordAddr |-> [b \in Lane |-> Visible'[a][b]]]
  BY DEF Visible
<1>2. Visible = [a \in DC!WordAddr |-> [b \in Lane |-> Visible[a][b]]]
  BY DEF Visible
<1>3. next = [a \in DC!WordAddr |-> [b \in Lane |-> next[a][b]]]
  <2>1. CASE Push
    BY <1>2, <2>1 DEF DC!Overlay
  <2>2. CASE ~Push
    BY <1>2, <2>2
  <2> QED  BY <2>1, <2>2
<1>4. ASSUME NEW a \in DC!WordAddr, NEW b \in Lane
      PROVE  Visible'[a][b] = next[a][b]
  <2>1. Visible'[a][b] = IF Push /\ req.addr = a /\ b \in req.strb
                         THEN req.data[b] ELSE Visible[a][b]
    BY ByteEdge DEF StoreInv
  <2>2. CASE Push /\ req.addr = a
    BY <1>2, <2>1, <2>2 DEF DC!Overlay
  <2>3. CASE ~(Push /\ req.addr = a)
    BY <1>2, <2>1, <2>3
  <2> QED  BY <2>2, <2>3
<1> HIDE DEF next
<1>5. Visible' = next
  BY <1>1, <1>3, <1>4
<1> QED  BY <1>5 DEF next, VisibleEdge

(* For every program, legal or not, every depth and every latency: no      *)
(* store is lost, torn, repeated or overtaken on its way through           *)
(* write_buffer.sv, bus_arbiter.sv and the memory.                         *)
THEOREM StoresKeepOrder == Spec => StoresInOrder
<1>1. StoreInv /\ StoreInv' /\ [Tick]_vars => [VisibleEdge]_vars
  BY EdgeVisible
<1> QED  BY StoreInvAlways, <1>1, PTL DEF Spec, StoresInOrder, VisibleEdge

(* For every program, a fence is answered only when memory itself holds    *)
(* every store made before (write_buffer.sv: fence_done).                  *)
THEOREM FencesFlush == Spec => []FenceFlushes
<1>1. StoreInv => FenceFlushes
  <2> SUFFICES ASSUME StoreInv, req = FenceReq, Answered PROVE mem = Visible
    BY DEF FenceFlushes
  <2>1. WB!Count = 0
    <3>1. WB!Empty
      BY DEF Answered, WB!FenceDone
    <3> QED  BY <3>1, SlotFacts DEF StoreInv, RingTyped, WB!RingInv
  <2>2. ASSUME NEW a \in DC!WordAddr, NEW b \in Lane PROVE Visible[a][b] = mem[a][b]
    <3>1. Untouched(a, b)
      BY <2>1 DEF Untouched
    <3> QED  BY <3>1, VisibleIs DEF StoreInv
  <2>3. Visible = [a \in DC!WordAddr |-> [b \in Lane |-> Visible[a][b]]]
    BY DEF Visible
  <2>4. mem \in [DC!WordAddr -> [Lane -> Byte]]
    BY DEF StoreInv, MemTyped, DC!Word
  <2> HIDE DEF FenceReq
  <2> QED  BY <2>2, <2>3, <2>4
<1> QED  BY StoreInvAlways, <1>1, PTL

-----------------------------------------------------------------------------
(* The data side is one memory.  For a program that holds a request until  *)
(* it is answered (Handshake) and drains before it misses (Drained), the   *)
(* cache agrees with memory and the pending stores over it, and every load *)
(* and store is a single step, for every depth, geometry and latency.      *)
(*                                                                         *)
(* First the cache by itself, as in DCache_proofs: types, and no line twice.     *)

RefillAbsent ==
  state # "IDLE" =>
    \A w \in DC!Way : ~(cache[miss.idx][w].valid /\ cache[miss.idx][w].tag = miss.tag)

CacheInv == DC!TypeOK /\ DC!NoDuplicateLine /\ RefillAbsent

LEMMA OverlayTyped ==
  ASSUME NEW data \in DC!Word, NEW strb \in SUBSET Lane, NEW word \in DC!Word
  PROVE  DC!Overlay(data, strb, word) \in DC!Word
BY DEF DC!Overlay, DC!Word

LEMMA LookupTyped ==
  ASSUME DC!TypeOK, NEW a \in DC!WordAddr
  PROVE  /\ a.tag \in Tag /\ a.idx \in Set /\ a.sel \in DC!Sel
         /\ DC!HitWay(a) \in DC!Way
         /\ DC!EvictWay \in DC!Way /\ 1 - DC!EvictWay \in DC!Way
         /\ 1 - DC!HitWay(a) \in DC!Way
         /\ \A i \in Set, w \in DC!Way :
              /\ cache[i][w] \in DC!Line
              /\ cache[i][w].valid \in BOOLEAN
              /\ cache[i][w].tag \in Tag
              /\ cache[i][w].data \in [DC!Sel -> DC!Word]
<1>1. a.tag \in Tag /\ a.idx \in Set /\ a.sel \in DC!Sel
  BY DEF DC!WordAddr
<1>2. DC!HitWay(a) \in DC!Way /\ 1 - DC!HitWay(a) \in DC!Way
  BY DEF DC!HitWay, DC!Way
<1>3. DC!EvictWay \in DC!Way
  BY DEF DC!EvictWay, DC!TypeOK, DC!Way, DC!WordAddr
<1>4. 1 - DC!EvictWay \in DC!Way
  BY <1>3 DEF DC!Way
<1>5. \A i \in Set, w \in DC!Way : cache[i][w] \in DC!Line
  BY DEF DC!TypeOK
<1> QED  BY <1>1, <1>2, <1>3, <1>4, <1>5 DEF DC!Line

(* What the three edges that write a line or the buffer leave behind.      *)
StoreHitEffect(r) ==
  \A i \in Set, w \in DC!Way :
    /\ cache'[i][w].valid = cache[i][w].valid
    /\ cache'[i][w].tag = cache[i][w].tag
    /\ cache'[i][w].data =
         IF i = r.addr.idx /\ w = DC!HitWay(r.addr)
         THEN [cache[i][w].data EXCEPT ![r.addr.sel] = DC!Overlay(r.data, r.strb, @)]
         ELSE cache[i][w].data

LEMMA StoreHitLines ==
  ASSUME DC!TypeOK, NEW r \in DC!StoreReq, NEW full, DC!StoreHit(r, full)
  PROVE  DC!TypeOK' /\ StoreHitEffect(r)
<1> DEFINE i == r.addr.idx
           h == DC!HitWay(r.addr)
           d == [cache[i][h].data EXCEPT ![r.addr.sel] = DC!Overlay(r.data, r.strb, @)]
           l == [cache[i][h] EXCEPT !.data = d]
<1>1. r.addr \in DC!WordAddr /\ r.data \in DC!Word /\ r.strb \in SUBSET Lane
  BY DEF DC!StoreReq
<1>2. i \in Set /\ h \in DC!Way /\ cache[i][h] \in DC!Line /\ r.addr.sel \in DC!Sel
  BY <1>1, LookupTyped
<1>3. cache[i][h].data \in [DC!Sel -> DC!Word]
  BY <1>2 DEF DC!Line
<1>4. DC!Overlay(r.data, r.strb, cache[i][h].data[r.addr.sel]) \in DC!Word
  BY <1>1, <1>2, <1>3, OverlayTyped
<1>5. d \in [DC!Sel -> DC!Word]
  BY <1>2, <1>3, <1>4
<1>6. l \in DC!Line /\ l.valid = cache[i][h].valid /\ l.tag = cache[i][h].tag /\ l.data = d
  <2> HIDE DEF d, i, h
  <2> QED  BY <1>2, <1>5 DEF DC!Line
<1>7. cache' = [cache EXCEPT ![i] = [@ EXCEPT ![h] = l]]
  BY DEF DC!StoreHit
<1>8. lru' \in [Set -> DC!Way]
  BY <1>1, LookupTyped DEF DC!StoreHit, DC!Touch, DC!TypeOK
<1>9. \A j \in Set, w \in DC!Way :
         cache'[j][w] = IF j = i /\ w = h THEN l ELSE cache[j][w]
  <2> HIDE DEF l, i, h
  <2> QED  BY <1>2, <1>7 DEF DC!TypeOK
<1>10. cache' \in [Set -> [DC!Way -> DC!Line]]
  <2> HIDE DEF l, i, h
  <2> QED  BY <1>2, <1>6, <1>7 DEF DC!TypeOK
<1>11. DC!TypeOK'
  BY <1>8, <1>10 DEF DC!StoreHit, DC!TypeOK
<1>12. StoreHitEffect(r)
  BY <1>6, <1>9 DEF StoreHitEffect
<1> QED  BY <1>11, <1>12

FillEffect ==
  \A i \in Set, w \in DC!Way :
    cache'[i][w] = IF i = miss.idx /\ w = DC!EvictWay
                   THEN [valid |-> TRUE, tag |-> miss.tag, data |-> rfBuffer]
                   ELSE cache[i][w]

LEMMA FillLines ==
  ASSUME DC!TypeOK, DC!FillLine
  PROVE  DC!TypeOK' /\ FillEffect
<1> DEFINE i == miss.idx
           l == [valid |-> TRUE, tag |-> miss.tag, data |-> rfBuffer]
<1>1. miss \in DC!WordAddr /\ i \in Set /\ l \in DC!Line
  BY DEF DC!TypeOK, DC!WordAddr, DC!Line
<1>2. DC!EvictWay \in DC!Way /\ 1 - DC!EvictWay \in DC!Way
  BY <1>1, LookupTyped
<1>3. cache' = [cache EXCEPT ![i] = [@ EXCEPT ![DC!EvictWay] = l]]
  BY DEF DC!FillLine
<1>4. \A j \in Set, w \in DC!Way :
         cache'[j][w] = IF j = i /\ w = DC!EvictWay THEN l ELSE cache[j][w]
  <2> HIDE DEF l, i
  <2> QED  BY <1>1, <1>2, <1>3 DEF DC!TypeOK
<1>5. cache' \in [Set -> [DC!Way -> DC!Line]]
  <2> HIDE DEF l, i
  <2> QED  BY <1>1, <1>2, <1>3 DEF DC!TypeOK
<1>6. lru' \in [Set -> DC!Way]
  BY <1>1, <1>2 DEF DC!FillLine, DC!TypeOK
<1> QED  BY <1>1, <1>4, <1>5, <1>6 DEF DC!FillLine, DC!TypeOK, FillEffect

(* The beat the cache takes is the word memory holds where it puts it.     *)
LEMMA BeatIsMemory ==
  ASSUME StoreInv, BeatInv, DcBeat.valid
  PROVE  DcBeat.data = mem[miss] /\ mem[miss] \in DC!Word
<1>1. MM!RValid /\ rdState = "RD_DATA" /\ rdOwner = "DC"
  BY DEF DcBeat, AR!Routes
<1>2. MM!BeatAddr = miss
  BY <1>1 DEF BeatInv, BeatsInStep
<1>3. DcBeat.data = mem[miss]
  BY <1>2 DEF DcBeat, MM!RData
<1>4. mem[miss] \in DC!Word
  BY DEF StoreInv, MemTyped, BeatInv, MissOK
<1> QED  BY <1>3, <1>4

LEMMA CacheKept ==
  ASSUME StoreInv, BeatInv, CacheInv, Tick
  PROVE  CacheInv'
<1>1. DC!Clock(MemReq, Fwd, WB!Full, AR!Grants("DC", DcReq, IcReq), DcBeat)
  BY DEF Tick
<1>2. DC!TypeOK /\ DC!NoDuplicateLine /\ RefillAbsent /\ req \in Program
  BY DEF CacheInv, StoreInv
<1>3. CASE DC!LoadHit(MemReq)
  <2>1. MemReq.addr \in DC!WordAddr
    BY <1>2, <1>3, AccessTyped DEF DC!LoadHit, DC!LoadReq
  <2>2. lru' \in [Set -> DC!Way]
    BY <1>2, <1>3, <2>1, LookupTyped DEF DC!LoadHit, DC!Touch, DC!TypeOK
  <2> QED  BY <1>2, <1>3, <2>2 DEF DC!LoadHit, CacheInv, DC!TypeOK, DC!NoDuplicateLine, RefillAbsent
<1>4. CASE DC!LoadMiss(MemReq, Fwd)
  <2>1. MemReq.addr \in DC!WordAddr
    BY <1>2, <1>4, AccessTyped DEF DC!LoadMiss, DC!StartsRefill, DC!LoadReq
  <2>2. DC!TypeOK'
    BY <1>2, <1>4, <2>1 DEF DC!LoadMiss, DC!TypeOK
  <2>3. RefillAbsent'
    BY <1>4 DEF DC!LoadMiss, DC!StartsRefill, RefillAbsent, DC!CacheHit, DC!WayHit
  <2> QED  BY <1>2, <1>4, <2>2, <2>3 DEF DC!LoadMiss, CacheInv, DC!NoDuplicateLine
<1>5. CASE DC!StoreHit(MemReq, WB!Full)
  <2>1. MemReq \in DC!StoreReq
    BY <1>2, <1>5, AccessTyped DEF DC!StoreHit, DC!Push
  <2>2. DC!TypeOK' /\ StoreHitEffect(MemReq)
    BY <1>2, <1>5, <2>1, StoreHitLines
  <2>3. DC!NoDuplicateLine'
    BY <1>2, <2>2 DEF StoreHitEffect, DC!NoDuplicateLine, DC!Way
  <2>4. RefillAbsent'
    BY <1>5 DEF DC!StoreHit, DC!Push, RefillAbsent
  <2> QED  BY <2>2, <2>3, <2>4 DEF CacheInv
<1>6. CASE DC!Hold(MemReq, Fwd, WB!Full) \/ DC!AwaitBeat(DcBeat)
  BY <1>2, <1>6 DEF DC!Hold, DC!AwaitBeat, DC!dcVars, CacheInv, DC!TypeOK,
     DC!NoDuplicateLine, RefillAbsent
<1>7. CASE DC!AwaitGrant(AR!Grants("DC", DcReq, IcReq))
  BY <1>2, <1>7 DEF DC!AwaitGrant, CacheInv, DC!TypeOK, DC!NoDuplicateLine, RefillAbsent
<1>8. CASE DC!TakeBeat(DcBeat)
  <2>1. DcBeat.data \in DC!Word /\ miss \in DC!WordAddr
    BY <1>2, <1>8, BeatIsMemory DEF DC!TakeBeat, DC!TypeOK
  <2>2. miss.sel \in DC!Sel /\ DC!NextSel(miss.sel) \in DC!Sel
    BY <2>1, SizesAssumption DEF DC!WordAddr, DC!NextSel, DC!Sel
  <2>3. miss' \in DC!WordAddr /\ miss'.tag = miss.tag /\ miss'.idx = miss.idx
    BY <1>8, <2>1, <2>2 DEF DC!TakeBeat, DC!WordAddr
  <2>4. rfBuffer' \in [DC!Sel -> DC!Word] /\ rfValid' \subseteq DC!Sel
    BY <1>2, <1>8, <2>1, <2>2 DEF DC!TakeBeat, DC!TypeOK
  <2>5. DC!TypeOK'
    BY <1>2, <1>8, <2>3, <2>4 DEF DC!TakeBeat, DC!TypeOK
  <2> QED  BY <1>2, <1>8, <2>3, <2>5 DEF DC!TakeBeat, CacheInv, DC!NoDuplicateLine, RefillAbsent
<1>9. CASE DC!FillLine
  <2>1. DC!TypeOK' /\ FillEffect
    BY <1>2, <1>9, FillLines
  <2>2. miss.idx \in Set /\ DC!EvictWay \in DC!Way
    BY <1>2, LookupTyped DEF DC!TypeOK
  <2>3. \A w \in DC!Way : ~(cache[miss.idx][w].valid /\ cache[miss.idx][w].tag = miss.tag)
    BY <1>2, <1>9 DEF RefillAbsent, DC!FillLine
  <2>4. ASSUME NEW i \in Set
        PROVE  ~(/\ cache'[i][0].valid /\ cache'[i][1].valid
                 /\ cache'[i][0].tag = cache'[i][1].tag)
    <3>1. CASE i # miss.idx
      BY <1>2, <2>1, <3>1 DEF FillEffect, DC!NoDuplicateLine, DC!Way
    <3>2. CASE i = miss.idx
      BY <2>1, <2>2, <2>3, <3>2 DEF FillEffect, DC!Way
    <3> QED  BY <3>1, <3>2
  <2>5. RefillAbsent'
    BY <1>9 DEF DC!FillLine, RefillAbsent
  <2> QED  BY <2>1, <2>4, <2>5 DEF CacheInv, DC!NoDuplicateLine
<1> QED  BY <1>1, <1>3, <1>4, <1>5, <1>6, <1>7, <1>8, <1>9 DEF DC!Clock

LEMMA InitCacheInv == Init => CacheInv
<1> SUFFICES ASSUME Init PROVE CacheInv
  OBVIOUS
<1>1. PICK t \in Tag, i \in Set, v \in Byte : TRUE
  BY SizesAssumption, BytesAssumption
<1>2. [b \in Lane |-> v] \in DC!Word
  BY DEF DC!Word
<1>3. PICK d \in [DC!Sel -> DC!Word] : d = [s \in DC!Sel |-> [b \in Lane |-> v]]
  BY <1>2
<1>4. [valid |-> FALSE, tag |-> t, data |-> d] \in DC!Line
  BY DEF DC!Line
<1>5. PICK l \in DC!Line : l = CHOOSE x \in DC!Line : TRUE
  BY <1>4
<1>6. [l EXCEPT !.valid = FALSE] \in DC!Line
  BY DEF DC!Line
<1>7. cache = [j \in Set |-> [w \in DC!Way |-> [l EXCEPT !.valid = FALSE]]]
  BY <1>5 DEF Init, DC!Init
<1>8. miss \in DC!WordAddr
  BY InitBeatInv DEF BeatInv, MissOK
<1>9. rfBuffer \in [DC!Sel -> DC!Word]
  BY <1>3 DEF Init, DC!Init
<1>10. DC!TypeOK
  <2>1. cache \in [Set -> [DC!Way -> DC!Line]]
    BY <1>6, <1>7
  <2> QED  BY <1>8, <1>9, <2>1 DEF Init, DC!Init, DC!TypeOK, DC!Way
<1>11. DC!NoDuplicateLine
  BY <1>7 DEF DC!NoDuplicateLine, DC!Line, DC!Way
<1> QED  BY <1>10, <1>11 DEF Init, DC!Init, CacheInv, RefillAbsent

DataInv == StoreInv /\ BeatInv /\ CacheInv

LEMMA DataInvKept ==
  ASSUME DataInv, [Tick]_vars
  PROVE  DataInv'
<1>1. CASE Tick
  BY <1>1, StoreInvKept, BeatKept, CacheKept DEF DataInv
<1>2. CASE UNCHANGED vars
  <2>1. CacheInv'
    BY <1>2 DEF vars, dcVars, DataInv, CacheInv, DC!TypeOK, DC!NoDuplicateLine, RefillAbsent
  <2> QED  BY <1>2, <2>1, Stuttering, BeatStuttering DEF DataInv
<1> QED  BY <1>1, <1>2

LEMMA DataInvAlways == Spec => []DataInv
<1>1. Init => DataInv
  BY InitStoreInv, InitBeatInv, InitCacheInv DEF DataInv
<1>2. DataInv /\ [Tick]_vars => DataInv'
  BY DataInvKept
<1> QED  BY <1>1, <1>2, PTL DEF Spec

-----------------------------------------------------------------------------
(* Every register keeps to its type.                                       *)

BusTyped ==
  /\ answer \in [kind : {"load"}, addr : DC!WordAddr, data : DC!Word] \cup {NoAnswer}
  /\ fetch \in {"IDLE", "REFILL_REQ", "REFILL_DATA", "REFILL_DONE"}
  /\ rdAddr \in DC!WordAddr
  /\ wrStore \in WB!Store
  /\ mrAddr \in DC!WordAddr
  /\ mrBeat \in 0 .. Words
  /\ mrState # "RD_IDLE" => mrBeat \in 0 .. Words - 1
  /\ mwAddr \in DC!WordAddr

LEMMA AnswerTyped ==
  ASSUME DataInv, LoadAnswered
  PROVE  req.addr \in DC!WordAddr /\ DC!Rdata(req, Fwd) \in DC!Word
<1>1. req.kind = "load" /\ Answered /\ req \in Program /\ RingTyped /\ DC!TypeOK
  BY DEF LoadAnswered, DataInv, StoreInv, CacheInv
<1>2. req # FenceReq
  BY <1>1 DEF FenceReq
<1>3. MemReq = req /\ req # DC!NoReq /\ req \in DC!LoadReq
  <2>1. DC!IsLoad(MemReq)
    BY <1>1, <1>2 DEF MemReq, DC!IsLoad
  <2> QED  BY <1>1, <2>1, AccessTyped DEF DC!NoReq
<1>4. req.addr \in DC!WordAddr
  BY <1>3 DEF DC!LoadReq
<1>5. rfBuffer \in [DC!Sel -> DC!Word] /\ 0 \in DC!Sel
  BY <1>1, SizesAssumption DEF DC!TypeOK, DC!Sel
<1>6. ASSUME NEW b \in Lane, b \in WB!FwdStrb(req.addr)
      PROVE  WB!FwdByte(req.addr, b) \in Byte
  <2>1. PICK k : /\ Youngest(k, req.addr, b)
                 /\ WB!FwdByte(req.addr, b) = entry[WB!NthSlot(k)].data[b]
    BY <1>1, <1>6, ScanOffers
  <2>2. WB!NthSlot(k) \in WB!Slot
    BY <1>1, <2>1, SlotFacts, SizesAssumption DEF Youngest, RingTyped, WB!RingInv
  <2>3. entry[WB!NthSlot(k)] \in WB!Store
    BY <1>1, <2>2 DEF RingTyped, WB!TypeOK
  <2> QED  BY <2>1, <2>3 DEF WB!Store, WB!Word
<1>7. Fwd.data \in DC!Word /\ Fwd.strb = WB!FwdStrb(req.addr) /\ Fwd.strb \in SUBSET Lane
  BY <1>3, <1>5, <1>6 DEF Fwd, DC!Word, WB!FwdStrb
<1>8. DC!Rdata(req, Fwd) \in DC!Word
  <2>1. /\ rfBuffer[req.addr.sel] \in DC!Word
        /\ cache[req.addr.idx][DC!HitWay(req.addr)].data[req.addr.sel] \in DC!Word
    BY <1>1, <1>4, <1>5, LookupTyped
  <2>2. /\ DC!RfRdata(req.addr, Fwd) \in DC!Word
        /\ DC!CacheRdata(req.addr, Fwd) \in DC!Word
    BY <1>7, <2>1, OverlayTyped DEF DC!RfRdata, DC!CacheRdata
  <2> QED  BY <1>7, <2>2 DEF DC!Rdata
<1> QED  BY <1>4, <1>8

LEMMA BusTypedKept ==
  ASSUME DataInv, BusTyped, Tick
  PROVE  BusTyped'
<1>1. AR!ReadClock(DcReq, miss, IcReq, IcAddr, MM!ArReady, MM!RValid, MM!RLast)
  BY DEF Tick
<1>2. MM!ReadClock(AR!ArValid, rdAddr, rdState = "RD_DATA")
  BY DEF Tick
<1>3. answer' \in [kind : {"load"}, addr : DC!WordAddr, data : DC!Word] \cup {NoAnswer}
  BY AnswerTyped DEF Tick, CpuClock
<1>4. fetch' \in {"IDLE", "REFILL_REQ", "REFILL_DATA", "REFILL_DONE"}
  BY DEF BusTyped, Tick, FetchClock
<1>5. rdAddr' \in DC!WordAddr
  <2>1. miss \in DC!WordAddr /\ IcAddr \in DC!WordAddr
    BY DEF DataInv, BeatInv, MissOK, IcAddr
  <2> QED  BY <1>1, <2>1 DEF BusTyped, AR!ReadClock, AR!Grant, AR!ReadIdle, AR!rdVars,
     AR!SendReadAddress, AR!ReceiveData
<1>6. /\ mrAddr' \in DC!WordAddr /\ mrBeat' \in 0 .. Words
      /\ mrState' # "RD_IDLE" => mrBeat' \in 0 .. Words - 1
  <2>1. rdState = "RD_DATA" <=> mrState # "RD_IDLE"
    BY DEF DataInv, BeatInv, ChannelsAgree
  <2>2. CASE MM!AcceptRead(AR!ArValid, rdAddr)
    BY <2>2, SizesAssumption DEF MM!AcceptRead, MM!mrVars, BusTyped
  <2>3. CASE MM!ReadLatency
    BY <2>3 DEF MM!ReadLatency, BusTyped
  <2>4. CASE MM!SendBeat(rdState = "RD_DATA")
    <3>1. /\ mrState = "RD_DATA" /\ rdState = "RD_DATA" /\ mrBeat \in 0 .. Words - 1
          /\ mrBeat' = mrBeat + 1 /\ mrAddr' = mrAddr
      BY <2>1, <2>4 DEF MM!SendBeat, BusTyped
    <3>2. mrState' # "RD_IDLE" => mrBeat # Words - 1
      BY <2>4, <3>1 DEF MM!SendBeat, MM!RLast
    <3> QED  BY <3>1, <3>2, SizesAssumption DEF BusTyped
  <2> QED  BY <1>2, <2>2, <2>3, <2>4 DEF MM!ReadClock
<1>7. wrStore' \in WB!Store
  <2>1. AR!WriteClock(WB!DrainReq, WB!DrainStore, MM!AwReady, MM!WReady, MM!BValid)
    BY DEF Tick
  <2>2. WB!DrainStore \in WB!Store
    BY SlotFacts DEF DataInv, StoreInv, RingTyped, WB!RingInv, WB!TypeOK, WB!DrainStore
  <2> QED  BY <2>1, <2>2 DEF BusTyped, AR!WriteClock, AR!TakeStore, AR!SendWriteAddress,
     AR!SendWriteData, AR!ReceiveResponse
<1>8. mwAddr' \in DC!WordAddr
  <2>1. wrStore.addr \in DC!WordAddr
    BY SameTypes DEF BusTyped, WB!Store
  <2> QED  BY <2>1 DEF BusTyped, Tick, MM!WriteClock, MM!AcceptWrite, MM!CommitWrite,
     MM!WriteLatency, MM!SendResponse
<1> QED  BY <1>3, <1>4, <1>5, <1>6, <1>7, <1>8 DEF BusTyped

LEMMA InitBusTyped == Init => BusTyped
<1> SUFFICES ASSUME Init PROVE BusTyped
  OBVIOUS
<1>1. DC!WordAddr # {} /\ WB!Store # {}
  <2>1. DC!WordAddr # {}
    BY InitBeatInv DEF BeatInv, MissOK
  <2>2. \A s \in WB!Slot : entry[s] \in WB!Store
    BY InitStoreInv DEF StoreInv, RingTyped, WB!TypeOK
  <2>3. 0 \in WB!Slot
    BY SizesAssumption DEF WB!Slot
  <2> QED  BY <2>1, <2>2, <2>3
<1>2. rdAddr \in DC!WordAddr /\ wrStore \in WB!Store
  BY <1>1 DEF Init, AR!Init
<1>3. mrAddr \in DC!WordAddr /\ mwAddr \in DC!WordAddr
  BY <1>1, SameTypes DEF Init, MM!Init
<1> QED  BY <1>2, <1>3, SizesAssumption DEF Init, MM!Init, BusTyped

(* For every program, geometry and latency, every register of the data     *)
(* side keeps to its type; no beat counter runs past the line.             *)
THEOREM DataRegistersTyped == Spec => []TypeOK
<1>1. DataInv /\ BusTyped /\ [Tick]_vars => BusTyped'
  <2> SUFFICES ASSUME DataInv, BusTyped, [Tick]_vars PROVE BusTyped'
    OBVIOUS
  <2>1. CASE Tick
    BY <2>1, BusTypedKept
  <2>2. CASE UNCHANGED vars
    BY <2>2 DEF vars, cpuVars, arVars, mmVars, BusTyped
  <2> QED  BY <2>1, <2>2
<1>2. DataInv /\ BusTyped => TypeOK
  <2> SUFFICES ASSUME DataInv, BusTyped PROVE TypeOK
    OBVIOUS
  <2>1. req \in Program /\ DC!TypeOK /\ WB!TypeOK
    BY DEF DataInv, StoreInv, CacheInv, RingTyped
  <2>2. AR!TypeOK
    BY DEF DataInv, StoreInv, DrainInv, BeatInv, BurstInv, BusTyped, AR!TypeOK, AR!Port
  <2>3. MM!TypeOK
    BY SameTypes DEF DataInv, StoreInv, MemTyped, HandInHand, BeatInv, ChannelsAgree,
       BusTyped, MM!TypeOK
  <2> QED  BY <2>1, <2>2, <2>3 DEF BusTyped, TypeOK
<1> QED  BY DataInvAlways, InitBusTyped, <1>1, <1>2, PTL DEF Spec

-----------------------------------------------------------------------------
(* The words of a refill.  Every word the memory has sent is marked valid, *)
(* so that the whole line is there when the burst ends.                    *)

WordsArrive ==
  /\ state = "REFILL_DATA" /\ rdState = "RD_DATA" =>
       \A n \in 0 .. Words - 1 : n < mrBeat => MM!WrapSel(mrAddr.sel, n) \in rfValid
  /\ state = "REFILL_DONE" => rfValid = DC!Sel

(* Words consecutive wrapped indices are all the indices of a line.        *)
LEMMA BurstCoversLine ==
  ASSUME NEW s \in DC!Sel, NEW t \in DC!Sel
  PROVE  \E n \in 0 .. Words - 1 : MM!WrapSel(s, n) = t
<1>1. CASE t >= s
  <2>1. t - s \in 0 .. Words - 1 /\ MM!WrapSel(s, t - s) = t
    BY <1>1, SizesAssumption DEF DC!Sel, MM!WrapSel
  <2> QED  BY <2>1
<1>2. CASE ~(t >= s)
  <2>1. t + Words - s \in 0 .. Words - 1 /\ MM!WrapSel(s, t + Words - s) = t
    BY <1>2, SizesAssumption DEF DC!Sel, MM!WrapSel
  <2> QED  BY <2>1
<1> QED  BY <1>1, <1>2

LEMMA WordsArriveKept ==
  ASSUME DataInv, BusTyped, WordsArrive, DataInv', Tick
  PROVE  WordsArrive'
<1>1. DC!Clock(MemReq, Fwd, WB!Full, AR!Grants("DC", DcReq, IcReq), DcBeat)
  BY DEF Tick
<1>2. MM!ReadClock(AR!ArValid, rdAddr, rdState = "RD_DATA")
  BY DEF Tick
<1>3. AR!ReadClock(DcReq, miss, IcReq, IcAddr, MM!ArReady, MM!RValid, MM!RLast)
  BY DEF Tick
<1>4. /\ rdState \in {"RD_IDLE", "RD_ADDR", "RD_DATA"} /\ BurstHasOwner
      /\ mrState \in {"RD_IDLE", "RD_WAIT", "RD_DATA"}
      /\ rdState = "RD_DATA" <=> mrState # "RD_IDLE"
      /\ rfValid \subseteq DC!Sel
  BY DEF DataInv, BeatInv, BurstInv, ChannelsAgree, CacheInv, DC!TypeOK
<1>5. CASE ~(state = "REFILL_DATA" /\ rdState = "RD_DATA")
  <2>1. ~DcBeat.valid
    BY <1>4, <1>5 DEF DcBeat, AR!Routes, BurstHasOwner
  <2>2. state' # "REFILL_DONE"
    BY <1>1, <2>1 DEF DC!Clock, DC!LoadHit, DC!LoadMiss, DC!StartsRefill, DC!StoreHit,
       DC!Push, DC!Hold, DC!dcVars, DC!AwaitGrant, DC!TakeBeat, DC!AwaitBeat, DC!FillLine
  <2>3. ASSUME state' = "REFILL_DATA", rdState' = "RD_DATA" PROVE mrBeat' = 0
    <3>1. rdState = "RD_ADDR" \/ rdState = "RD_DATA"
      BY <1>3, <2>3 DEF AR!ReadClock, AR!Grant, AR!ReadIdle, AR!rdVars,
         AR!SendReadAddress, AR!ReceiveData
    <3>2. CASE rdState = "RD_ADDR"
      <4>1. MM!AcceptRead(AR!ArValid, rdAddr) /\ AR!ArValid
        BY <1>2, <1>4, <3>2 DEF MM!ReadClock, MM!ReadLatency, MM!SendBeat, AR!ArValid
      <4> QED  BY <4>1 DEF MM!AcceptRead
    <3>3. CASE rdState = "RD_DATA"
      <4>1. rdOwner = "IC" /\ rdOwner' = "IC"
        <5>1. rdOwner' = rdOwner
          BY <1>3, <3>3 DEF AR!ReadClock, AR!Grant, AR!ReadIdle, AR!rdVars,
             AR!SendReadAddress, AR!ReceiveData
        <5> QED  BY <1>4, <1>5, <3>3, <5>1 DEF BurstHasOwner, DataInv, BeatInv, BurstInv
      <4>2. rdOwner' = "DC"
        BY <2>3 DEF DataInv, BeatInv, BurstInv, BurstHasOwner
      <4> QED  BY <4>1, <4>2
    <3> QED  BY <3>1, <3>2, <3>3
  <2>4. \A n \in 0 .. Words - 1 : ~(n < 0)
    BY SizesAssumption
  <2> QED  BY <2>2, <2>3, <2>4 DEF WordsArrive
<1>6. CASE state = "REFILL_DATA" /\ rdState = "RD_DATA"
  <2>1. rdOwner = "DC" /\ mrState # "RD_IDLE"
    BY <1>4, <1>6 DEF BurstHasOwner, DataInv, BeatInv, BurstInv
  <2>2. /\ mrAddr \in DC!WordAddr /\ mrBeat \in 0 .. Words - 1 /\ MM!BeatAddr = miss
    BY <1>6, <2>1 DEF DataInv, BeatInv, BeatsInStep
  <2>3. miss.sel = MM!WrapSel(mrAddr.sel, mrBeat)
    BY <2>2 DEF MM!BeatAddr, MM!WrapSel, DC!WordAddr
  <2>4. DcBeat.valid <=> mrState = "RD_DATA"
    BY <1>6, <2>1 DEF DcBeat, AR!Routes, MM!RValid
  <2>5. CASE mrState = "RD_DATA"
    <3>1. DC!TakeBeat(DcBeat)
      BY <1>1, <1>6, <2>4, <2>5 DEF DC!Clock, DC!LoadHit, DC!LoadMiss, DC!StartsRefill,
         DC!StoreHit, DC!Push, DC!Hold, DC!AwaitGrant, DC!AwaitBeat, DC!FillLine
    <3>2. rfValid' = rfValid \cup {MM!WrapSel(mrAddr.sel, mrBeat)}
      BY <2>3, <3>1 DEF DC!TakeBeat
    <3>3. mrAddr' = mrAddr /\ mrBeat' = mrBeat + 1
      BY <1>2, <1>6, <2>5 DEF MM!ReadClock, MM!AcceptRead, MM!ReadLatency, MM!SendBeat
    <3>4. \A n \in 0 .. Words - 1 : n < mrBeat' => MM!WrapSel(mrAddr.sel, n) \in rfValid'
      <4> SUFFICES ASSUME NEW n \in 0 .. Words - 1, n < mrBeat'
                   PROVE  MM!WrapSel(mrAddr.sel, n) \in rfValid'
        OBVIOUS
      <4>1. n < mrBeat \/ n = mrBeat
        BY <2>2, <3>3, SizesAssumption
      <4>2. CASE n < mrBeat
        BY <1>6, <3>2, <4>2 DEF WordsArrive
      <4>3. CASE n = mrBeat
        BY <3>2, <4>3
      <4> QED  BY <4>1, <4>2, <4>3
    <3>5. ASSUME state' = "REFILL_DONE" PROVE rfValid' = DC!Sel
      <4>1. mrBeat = Words - 1
        BY <3>1, <3>5 DEF DC!TakeBeat, DcBeat, MM!RLast
      <4>2. \A n \in 0 .. Words - 1 : n < mrBeat'
        BY <3>3, <4>1, SizesAssumption
      <4>3. mrAddr.sel \in DC!Sel
        BY <2>2 DEF DC!WordAddr
      <4>4. DC!Sel \subseteq rfValid'
        BY <3>4, <4>2, <4>3, BurstCoversLine
      <4>5. rfValid' \subseteq DC!Sel
        BY DEF DataInv, CacheInv, DC!TypeOK
      <4> QED  BY <4>4, <4>5
    <3> QED  BY <3>3, <3>4, <3>5 DEF WordsArrive
  <2>6. CASE mrState # "RD_DATA"
    <3>1. DC!AwaitBeat(DcBeat)
      BY <1>1, <1>6, <2>4, <2>6 DEF DC!Clock, DC!LoadHit, DC!LoadMiss, DC!StartsRefill,
         DC!StoreHit, DC!Push, DC!Hold, DC!AwaitGrant, DC!TakeBeat, DC!FillLine
    <3>2. mrAddr' = mrAddr /\ mrBeat' = mrBeat
      BY <1>2, <2>1, <2>6 DEF MM!ReadClock, MM!AcceptRead, MM!ReadLatency, MM!SendBeat
    <3> QED  BY <1>6, <3>1, <3>2 DEF DC!AwaitBeat, DC!dcVars, WordsArrive
  <2> QED  BY <2>5, <2>6
<1> QED  BY <1>5, <1>6

-----------------------------------------------------------------------------
(* Refills meet no pending store.  While the cache is busy the request is  *)
(* the load that missed, nothing is pushed, and its line stays drained.    *)

LoadWaits ==
  /\ state # "IDLE" => /\ req \in DC!LoadReq
                       /\ SameLine(req.addr, miss)
                       /\ ~Pending(miss)
  /\ state = "IDLE" /\ req \in DC!LoadReq => MayLoad(req.addr)

(* What the request is, and what the cache sees of it.                     *)
LEMMA RequestSeen ==
  ASSUME req \in Program
  PROVE  /\ req \in DC!LoadReq => /\ MemReq = req /\ DC!IsLoad(req) /\ req # FenceReq
                                  /\ req # DC!NoReq /\ ~DC!IsStore(req)
                                  /\ req.addr \in DC!WordAddr
                                  /\ Fwd.strb = WB!FwdStrb(req.addr)
         /\ req \notin DC!LoadReq => ~DC!IsLoad(MemReq)
<1>1. DC!NoReq.kind = "none" /\ FenceReq.kind = "fence"
  BY DEF DC!NoReq, FenceReq
<1>2. ASSUME req \in DC!LoadReq
      PROVE  /\ MemReq = req /\ DC!IsLoad(req) /\ req # FenceReq
             /\ req # DC!NoReq /\ ~DC!IsStore(req) /\ req.addr \in DC!WordAddr
  BY <1>1, <1>2 DEF DC!LoadReq, MemReq, DC!IsLoad, DC!IsStore
<1>3. req \in DC!LoadReq => Fwd.strb = WB!FwdStrb(req.addr)
  BY <1>2 DEF Fwd
<1>4. req \notin DC!LoadReq => ~DC!IsLoad(MemReq)
  BY AccessTyped
<1> QED  BY <1>2, <1>3, <1>4

(* No store is pushed, so none becomes pending.                            *)
LEMMA NoneBecomesPending ==
  ASSUME Tick, ~Push, NEW a, ~Pending(a)
  PROVE  ~(\E s \in WB!Slot : entryValid'[s] /\ SameLine(entry'[s].addr, a))
BY DEF Tick, WB!Clock, Pending

LEMMA LoadWaitsKept ==
  ASSUME Handshake, Drained, DataInv, LoadWaits, Tick
  PROVE  LoadWaits'
<1>1. DC!Clock(MemReq, Fwd, WB!Full, AR!Grants("DC", DcReq, IcReq), DcBeat)
  BY DEF Tick
<1>2. CpuClock /\ req \in Program
  BY DEF Tick, DataInv, StoreInv
<1>3. CASE state = "IDLE" /\ DC!LoadMiss(MemReq, Fwd)
  <2>1. /\ req \in DC!LoadReq /\ MemReq = req /\ req # FenceReq /\ req # DC!NoReq
        /\ ~DC!CacheHit(req.addr) /\ Fwd.strb # Lane /\ ~DC!IsStore(req)
        /\ Fwd.strb = WB!FwdStrb(req.addr)
    BY <1>2, <1>3, RequestSeen DEF DC!LoadMiss, DC!StartsRefill, DC!FullCover
  <2>2. ~Push
    BY <2>1 DEF Push, DC!Push
  <2>3. ~Answered
    BY <1>3, <2>1 DEF Answered, DcValid, DC!Valid, DC!Push, DC!FullCover
  <2>4. req' = req
    BY <1>2, <2>1, <2>3 DEF CpuClock
  <2>5. ~Pending(req.addr)
    BY <1>3, <2>1 DEF LoadWaits, MayLoad
  <2>6. miss' = req.addr /\ state' = "REFILL_REQ"
    BY <1>3, <2>1 DEF DC!LoadMiss
  <2>7. ~Pending(miss)'
    BY <2>2, <2>5, <2>6, NoneBecomesPending DEF Pending, SameLine
  <2> QED  BY <2>1, <2>4, <2>6, <2>7 DEF LoadWaits, SameLine
<1>4. CASE state = "IDLE" /\ ~DC!LoadMiss(MemReq, Fwd)
  <2>1. state' = "IDLE"
    BY <1>1, <1>4 DEF DC!Clock, DC!LoadHit, DC!StoreHit, DC!Push, DC!Hold, DC!dcVars,
       DC!AwaitGrant, DC!TakeBeat, DC!AwaitBeat, DC!FillLine
  <2>2. req \in DC!LoadReq => Answered
    <3> SUFFICES ASSUME req \in DC!LoadReq PROVE Answered
      OBVIOUS
    <3>1. MemReq = req /\ DC!IsLoad(req) /\ ~DC!IsStore(req) /\ req # FenceReq /\ req # DC!NoReq
      BY <1>2, RequestSeen
    <3>2. DC!CacheHit(req.addr) \/ DC!FullCover(Fwd)
      BY <1>1, <1>4, <3>1 DEF DC!Clock, DC!LoadHit, DC!StoreHit, DC!Push, DC!Hold,
         DC!AwaitGrant, DC!TakeBeat, DC!AwaitBeat, DC!FillLine
    <3> QED  BY <1>4, <3>1, <3>2 DEF Answered, DcValid, DcReady, DC!Valid, DC!Ready
  <2>3. req' \in DC!LoadReq => MayLoad(req.addr)'
    <3>1. CASE Answered \/ req = DC!NoReq
      <4>1. PICK r \in Program : req' = r /\ (r \in DC!LoadReq => MayLoad(r.addr)')
        BY <1>2, <3>1 DEF CpuClock
      <4> QED  BY <4>1 DEF MayLoad, Pending, DC!CacheHit, DC!WayHit, WB!FwdStrb,
         WB!Supplies, WB!Matches
    <3>2. CASE ~(Answered \/ req = DC!NoReq)
      BY <1>2, <2>2, <3>2 DEF CpuClock
    <3> QED  BY <3>1, <3>2
  <2> QED  BY <2>1, <2>3 DEF LoadWaits
<1>5. CASE state \in {"REFILL_REQ", "REFILL_DATA"}
  <2>1. /\ req \in DC!LoadReq /\ SameLine(req.addr, miss) /\ ~Pending(miss)
        /\ req # FenceReq /\ req # DC!NoReq
    BY <1>2, <1>5, RequestSeen DEF LoadWaits
  <2>2. ~Answered /\ ~Push
    BY <1>5, <2>1 DEF Answered, DcReady, DC!Ready, Push, DC!Push
  <2>3. req' = req
    BY <1>2, <2>1, <2>2 DEF CpuClock
  <2>4. state' # "IDLE" /\ miss'.tag = miss.tag /\ miss'.idx = miss.idx
    <3>1. miss \in DC!WordAddr
      BY DEF DataInv, BeatInv, MissOK
    <3> QED  BY <1>1, <1>5, <3>1 DEF DC!Clock, DC!LoadHit, DC!LoadMiss, DC!StartsRefill,
       DC!StoreHit, DC!Push, DC!Hold, DC!dcVars, DC!AwaitGrant, DC!TakeBeat,
       DC!AwaitBeat, DC!FillLine, DC!WordAddr
  <2>5. ~Pending(miss)'
    <3>1. ~(\E s \in WB!Slot : entryValid'[s] /\ SameLine(entry'[s].addr, miss))
      BY <2>1, <2>2, NoneBecomesPending
    <3> QED  BY <2>4, <3>1 DEF Pending, SameLine
  <2> QED  BY <2>1, <2>3, <2>4, <2>5 DEF LoadWaits, SameLine
<1>6. CASE state = "REFILL_DONE"
  <2>1. req \in DC!LoadReq /\ MemReq = req /\ req # FenceReq /\ req # DC!NoReq
    BY <1>2, <1>6, RequestSeen DEF LoadWaits
  <2>2. Answered
    BY <1>6, <2>1 DEF Answered, DcValid, DcReady, DC!Valid, DC!Ready
  <2>3. PICK r \in Program : req' = r /\ (r \in DC!LoadReq => MayLoad(r.addr)')
    BY <1>2, <2>2 DEF CpuClock
  <2>4. state' = "IDLE"
    BY <1>1, <1>6 DEF DC!Clock, DC!LoadHit, DC!LoadMiss, DC!StartsRefill,
       DC!StoreHit, DC!Push, DC!Hold, DC!dcVars, DC!AwaitGrant, DC!TakeBeat,
       DC!AwaitBeat, DC!FillLine
  <2> QED  BY <2>3, <2>4 DEF LoadWaits, MayLoad, Pending, DC!CacheHit, DC!WayHit,
     WB!FwdStrb, WB!Supplies, WB!Matches
<1>7. state \in {"IDLE", "REFILL_REQ", "REFILL_DATA", "REFILL_DONE"}
  BY DEF DataInv, CacheInv, DC!TypeOK
<1> QED  BY <1>3, <1>4, <1>5, <1>6, <1>7

-----------------------------------------------------------------------------
(* The cache and the refill buffer hold what a load must return.           *)

LineWord(s) == [miss EXCEPT !.sel = s]

BufferGood ==
  state # "IDLE" => \A s \in rfValid : rfBuffer[s] = Visible[LineWord(s)]

MemoryInv ==
  DataInv /\ BusTyped /\ WordsArrive /\ LoadWaits /\ BufferGood /\ CacheCoherent

(* A word with no pending store in its line is as memory has it.           *)
LEMMA DrainedIsMemory ==
  ASSUME StoreInv, NEW a \in DC!WordAddr, ~Pending(a)
  PROVE  Visible[a] = mem[a]
<1>1. ASSUME NEW b \in Lane PROVE Visible[a][b] = mem[a][b]
  <2>1. ASSUME NEW k \in 1 .. WB!Count, Writes(k, a, b) PROVE FALSE
    <3>1. WB!Count \in 0 .. Depth /\ \A j \in 1 .. Depth : WB!NthSlot(j) \in WB!Slot
      BY SlotFacts DEF StoreInv, RingTyped, WB!RingInv
    <3>2. WB!NthSlot(k) \in WB!Slot
      BY <3>1, SizesAssumption
    <3>3. entryValid[WB!NthSlot(k)]
      BY <3>2 DEF StoreInv, RingTyped, WB!RingInv
    <3> QED  BY <2>1, <3>2, <3>3 DEF Writes, Pending, SameLine
  <2> QED  BY <2>1, VisibleIs DEF StoreInv, Untouched
<1>2. Visible[a] = [b \in Lane |-> Visible[a][b]]
  BY DEF Visible
<1>3. mem[a] = [b \in Lane |-> mem[a][b]]
  BY DEF StoreInv, MemTyped, DC!Word
<1> QED  BY <1>1, <1>2, <1>3

LEMMA BufferKept ==
  ASSUME MemoryInv, DataInv', Tick
  PROVE  BufferGood'
<1>1. DC!Clock(MemReq, Fwd, WB!Full, AR!Grants("DC", DcReq, IcReq), DcBeat)
  BY DEF Tick
<1>2. Visible' = IF Push
                 THEN [Visible EXCEPT ![req.addr] = DC!Overlay(req.data, req.strb, @)]
                 ELSE Visible
  BY EdgeVisible DEF MemoryInv, DataInv, VisibleEdge
<1>3. miss \in DC!WordAddr /\ rfBuffer \in [DC!Sel -> DC!Word] /\ rfValid \subseteq DC!Sel
  BY DEF MemoryInv, DataInv, CacheInv, DC!TypeOK
<1>4. CASE DC!LoadMiss(MemReq, Fwd)
  BY <1>4 DEF DC!LoadMiss, BufferGood
<1>5. CASE DC!AwaitGrant(AR!Grants("DC", DcReq, IcReq)) \/ DC!AwaitBeat(DcBeat)
  <2>1. ~Push /\ state # "IDLE"
    BY <1>5 DEF DC!AwaitGrant, DC!AwaitBeat, Push, DC!Push
  <2> QED  BY <1>2, <1>5, <2>1 DEF DC!AwaitGrant, DC!AwaitBeat, DC!dcVars, MemoryInv,
     BufferGood, LineWord
<1>6. CASE DC!TakeBeat(DcBeat)
  <2>1. ~Push /\ state = "REFILL_DATA" /\ DcBeat.valid
    BY <1>6 DEF DC!TakeBeat, Push, DC!Push
  <2>2. DcBeat.data = mem[miss]
    BY <2>1, BeatIsMemory DEF MemoryInv, DataInv
  <2>3. ~Pending(miss)
    BY <2>1 DEF MemoryInv, LoadWaits
  <2>4. DcBeat.data = Visible[miss]
    BY <1>3, <2>2, <2>3, DrainedIsMemory DEF MemoryInv, DataInv
  <2>5. \A s : LineWord(s)' = LineWord(s)
    BY <1>3, <1>6 DEF LineWord, DC!TakeBeat, DC!WordAddr
  <2>6. LineWord(miss.sel) = miss /\ miss.sel \in DC!Sel
    BY <1>3 DEF LineWord, DC!WordAddr
  <2>7. ASSUME NEW s \in rfValid' PROVE rfBuffer'[s] = Visible[LineWord(s)]
    <3>1. CASE s = miss.sel
      BY <1>3, <1>6, <2>4, <2>6, <3>1 DEF DC!TakeBeat
    <3>2. CASE s # miss.sel
      BY <1>3, <1>6, <2>1, <2>7, <3>2 DEF DC!TakeBeat, MemoryInv, BufferGood
    <3> QED  BY <3>1, <3>2
  <2> QED  BY <1>2, <2>1, <2>5, <2>7 DEF BufferGood
<1>7. CASE DC!LoadHit(MemReq) \/ DC!StoreHit(MemReq, WB!Full)
           \/ DC!Hold(MemReq, Fwd, WB!Full) \/ DC!FillLine
  BY <1>7 DEF DC!LoadHit, DC!StoreHit, DC!Push, DC!Hold, DC!dcVars, DC!FillLine, BufferGood
<1> QED  BY <1>1, <1>4, <1>5, <1>6, <1>7 DEF DC!Clock

(* A store that hits goes into the only copy of the word; one that misses  *)
(* finds no copy.                                                          *)
LEMMA CoherentStore ==
  ASSUME MemoryInv, DataInv', Tick, Push
  PROVE  CacheCoherent'
<1>1. /\ MemReq = req /\ req \in DC!StoreReq /\ req.addr \in DC!WordAddr /\ state = "IDLE"
      /\ ~WB!Full /\ DC!IsStore(MemReq)
  BY AccessTyped DEF MemoryInv, DataInv, StoreInv, Push, DC!Push, DC!StoreReq
<1>2. /\ DC!TypeOK /\ DC!NoDuplicateLine /\ CacheCoherent
  BY DEF MemoryInv, DataInv, CacheInv
<1>3. Visible' = [Visible EXCEPT ![req.addr] = DC!Overlay(req.data, req.strb, @)]
  BY EdgeVisible DEF MemoryInv, DataInv, VisibleEdge
<1>4. ~DC!IsLoad(MemReq) /\ MemReq # DC!NoReq
  BY <1>1 DEF DC!IsStore, DC!IsLoad, DC!NoReq, DC!StoreReq
<1>5. DC!Clock(MemReq, Fwd, WB!Full, AR!Grants("DC", DcReq, IcReq), DcBeat)
  BY DEF Tick
<1>6. IF DC!CacheHit(req.addr) THEN DC!StoreHit(req, WB!Full) ELSE cache' = cache
  BY <1>1, <1>4, <1>5 DEF DC!Clock, DC!LoadHit, DC!LoadMiss, DC!StartsRefill, DC!StoreHit,
     DC!Hold, DC!dcVars, DC!AwaitGrant, DC!TakeBeat, DC!AwaitBeat, DC!FillLine
<1>7. DOMAIN Visible = DC!WordAddr
  BY DEF Visible
<1> SUFFICES ASSUME NEW a \in DC!WordAddr, NEW w \in DC!Way, DC!WayHit(a, w)'
             PROVE  cache'[a.idx][w].data[a.sel] = Visible'[a]
  BY DEF CacheCoherent
<1>8. a.idx \in Set /\ a.sel \in DC!Sel /\ req.addr.idx \in Set /\ req.addr.sel \in DC!Sel
  BY <1>1 DEF DC!WordAddr
<1>9. CASE ~DC!CacheHit(req.addr)
  <2>1. cache' = cache /\ DC!WayHit(a, w)
    BY <1>6, <1>9 DEF DC!WayHit
  <2>2. a # req.addr
    BY <1>9, <2>1 DEF DC!CacheHit
  <2> QED  BY <1>2, <1>3, <1>7, <2>1, <2>2 DEF CacheCoherent
<1>10. CASE DC!CacheHit(req.addr)
  <2>1. StoreHitEffect(req)
    BY <1>1, <1>2, <1>6, <1>10, StoreHitLines
  <2>2. /\ cache'[a.idx][w].valid = cache[a.idx][w].valid
        /\ cache'[a.idx][w].tag = cache[a.idx][w].tag
        /\ cache'[a.idx][w].data =
             IF a.idx = req.addr.idx /\ w = DC!HitWay(req.addr)
             THEN [cache[a.idx][w].data EXCEPT
                     ![req.addr.sel] = DC!Overlay(req.data, req.strb, @)]
             ELSE cache[a.idx][w].data
    BY <1>8, <2>1 DEF StoreHitEffect
  <2>3. DC!WayHit(a, w)
    BY <2>2 DEF DC!WayHit
  <2>4. cache[a.idx][w].data[a.sel] = Visible[a]
    BY <1>2, <2>3 DEF CacheCoherent
  <2>5. cache[a.idx][w].data \in [DC!Sel -> DC!Word]
    BY <1>2, <1>8, LookupTyped
  <2>6. CASE a = req.addr
    <3>1. w = DC!HitWay(req.addr)
      BY <1>2, <1>8, <2>3, <2>6 DEF DC!HitWay, DC!WayHit, DC!NoDuplicateLine, DC!Way
    <3>2. cache'[a.idx][w].data =
            [cache[a.idx][w].data EXCEPT ![a.sel] = DC!Overlay(req.data, req.strb, @)]
      BY <2>2, <2>6, <3>1
    <3> QED  BY <1>3, <1>7, <1>8, <2>4, <2>5, <2>6, <3>2
  <2>7. CASE a # req.addr
    <3>1. Visible'[a] = Visible[a]
      BY <1>3, <1>7, <2>7
    <3>2. CASE a.idx = req.addr.idx /\ w = DC!HitWay(req.addr)
      <4>1. DC!WayHit(req.addr, DC!HitWay(req.addr))
        BY <1>10 DEF DC!CacheHit, DC!HitWay, DC!Way
      <4>2. a.tag = req.addr.tag
        BY <2>3, <3>2, <4>1 DEF DC!WayHit
      <4>3. a.sel # req.addr.sel
        BY <1>1, <2>7, <3>2, <4>2 DEF DC!WordAddr
      <4> QED  BY <1>8, <2>2, <2>4, <2>5, <3>1, <3>2, <4>3
    <3>3. CASE ~(a.idx = req.addr.idx /\ w = DC!HitWay(req.addr))
      <4>1. cache'[a.idx][w].data = cache[a.idx][w].data
        BY <2>2, <3>3
      <4> QED  BY <2>4, <3>1, <4>1
    <3> QED  BY <3>2, <3>3
  <2> QED  BY <2>6, <2>7
<1> QED  BY <1>9, <1>10

(* Without a store only a refill changes lines, and all its words are good. *)
LEMMA CoherentElse ==
  ASSUME MemoryInv, DataInv', Tick, ~Push
  PROVE  CacheCoherent'
<1>1. /\ DC!TypeOK /\ CacheCoherent
  BY DEF MemoryInv, DataInv, CacheInv
<1>2. Visible' = Visible
  BY EdgeVisible DEF MemoryInv, DataInv, VisibleEdge
<1>3. DC!Clock(MemReq, Fwd, WB!Full, AR!Grants("DC", DcReq, IcReq), DcBeat)
  BY DEF Tick
<1>4. CASE ~DC!FillLine
  <2>1. ~DC!StoreHit(MemReq, WB!Full)
    BY DEF DC!StoreHit, Push
  <2>2. cache' = cache
    BY <1>3, <1>4, <2>1 DEF DC!Clock, DC!LoadHit, DC!LoadMiss, DC!Hold, DC!dcVars,
       DC!AwaitGrant, DC!TakeBeat, DC!AwaitBeat
  <2> QED  BY <1>1, <1>2, <2>2 DEF CacheCoherent, DC!WayHit
<1>5. CASE DC!FillLine
  <2> SUFFICES ASSUME NEW a \in DC!WordAddr, NEW w \in DC!Way, DC!WayHit(a, w)'
               PROVE  cache'[a.idx][w].data[a.sel] = Visible[a]
    BY <1>2 DEF CacheCoherent
  <2>1. a.idx \in Set /\ a.sel \in DC!Sel
    BY DEF DC!WordAddr
  <2>2. cache'[a.idx][w] = IF a.idx = miss.idx /\ w = DC!EvictWay
                           THEN [valid |-> TRUE, tag |-> miss.tag, data |-> rfBuffer]
                           ELSE cache[a.idx][w]
    BY <1>1, <1>5, <2>1, FillLines DEF FillEffect
  <2>3. CASE a.idx = miss.idx /\ w = DC!EvictWay
    <3>1. a.tag = miss.tag /\ cache'[a.idx][w].data = rfBuffer
      BY <2>2, <2>3 DEF DC!WayHit
    <3>2. a.sel \in rfValid /\ state # "IDLE"
      BY <1>5, <2>1 DEF DC!FillLine, MemoryInv, WordsArrive
    <3>3. miss \in DC!WordAddr
      BY <1>1 DEF DC!TypeOK
    <3>4. LineWord(a.sel) = a
      BY <2>3, <3>1, <3>3 DEF LineWord, DC!WordAddr
    <3> QED  BY <3>1, <3>2, <3>4 DEF MemoryInv, BufferGood
  <2>4. CASE ~(a.idx = miss.idx /\ w = DC!EvictWay)
    <3>1. cache'[a.idx][w] = cache[a.idx][w]
      BY <2>2, <2>4
    <3> QED  BY <1>1, <3>1 DEF CacheCoherent, DC!WayHit
  <2> QED  BY <2>3, <2>4
<1> QED  BY <1>4, <1>5

LEMMA InitMemoryInv == Init => MemoryInv
<1> SUFFICES ASSUME Init PROVE MemoryInv
  OBVIOUS
<1>1. DataInv
  BY InitStoreInv, InitBeatInv, InitCacheInv DEF DataInv
<1>2. BusTyped
  BY InitBusTyped
<1>3. WordsArrive /\ BufferGood
  BY DEF Init, DC!Init, WordsArrive, BufferGood
<1>4. LoadWaits
  BY DEF Init, DC!Init, LoadWaits, DC!LoadReq, DC!NoReq
<1>5. CacheCoherent
  <2> SUFFICES ASSUME NEW a \in DC!WordAddr, NEW w \in DC!Way PROVE ~DC!WayHit(a, w)
    BY DEF CacheCoherent
  <2>1. PICK l \in DC!Line : l = CHOOSE x \in DC!Line : TRUE
    <3>1. cache[a.idx][w] \in DC!Line
      BY <1>1 DEF DataInv, CacheInv, DC!TypeOK, DC!WordAddr
    <3> QED  BY <3>1
  <2>2. cache[a.idx][w] = [l EXCEPT !.valid = FALSE]
    BY <2>1 DEF Init, DC!Init, DC!WordAddr
  <2> QED  BY <2>2 DEF DC!WayHit, DC!Line
<1> QED  BY <1>1, <1>2, <1>3, <1>4, <1>5 DEF MemoryInv

LEMMA MemoryInvKept ==
  ASSUME Handshake, Drained, MemoryInv, [Tick]_vars
  PROVE  MemoryInv'
<1>1. DataInv'
  BY DataInvKept DEF MemoryInv
<1>2. CASE Tick
  <2>1. BusTyped' /\ WordsArrive' /\ LoadWaits'
    BY <1>1, <1>2, BusTypedKept, WordsArriveKept, LoadWaitsKept DEF MemoryInv
  <2>2. BufferGood' /\ CacheCoherent'
    BY <1>1, <1>2, BufferKept, CoherentStore, CoherentElse
  <2> QED  BY <1>1, <2>1, <2>2 DEF MemoryInv
<1>3. CASE UNCHANGED vars
  <2>1. Visible' = Visible
    BY <1>3, Stuttering
  <2>2. BusTyped' /\ WordsArrive'
    BY <1>3 DEF vars, cpuVars, dcVars, arVars, mmVars, MemoryInv, BusTyped, WordsArrive
  <2>3. LoadWaits'
    BY <1>3 DEF vars, cpuVars, dcVars, wbVars, MemoryInv, LoadWaits, MayLoad, Pending,
       DC!CacheHit, DC!WayHit, WB!FwdStrb, WB!Supplies, WB!Matches, WB!ScanSlot, WB!TailIdx
  <2>4. BufferGood' /\ CacheCoherent'
    BY <1>3, <2>1 DEF vars, dcVars, MemoryInv, BufferGood, LineWord, CacheCoherent, DC!WayHit
  <2> QED  BY <1>1, <2>2, <2>3, <2>4 DEF MemoryInv
<1> QED  BY <1>2, <1>3

(* Write-through keeps every cached word equal to what a load must return, *)
(* for every depth, geometry, latency and every program that waits for     *)
(* ready and drains before it misses (dcache.sv: store hit and refill).    *)
THEOREM CacheStaysCoherent ==
  ASSUME Handshake, Drained
  PROVE  Spec => []CacheCoherent
<1>1. MemoryInv /\ [Tick]_vars => MemoryInv'
  BY MemoryInvKept
<1>2. MemoryInv => CacheCoherent
  BY DEF MemoryInv
<1> QED  BY InitMemoryInv, <1>1, <1>2, PTL DEF Spec

-----------------------------------------------------------------------------
(* The data side implements a memory of atomic loads and stores.           *)

LEMMA LoadReturnsVisible ==
  ASSUME Handshake, MemoryInv, LoadAnswered
  PROVE  /\ req.addr \in DC!WordAddr
         /\ DC!Rdata(req, Fwd) = Visible[req.addr]
         /\ ~Push
<1>1. req.kind = "load" /\ Answered /\ req \in Program /\ DC!TypeOK /\ RingTyped
  BY DEF LoadAnswered, MemoryInv, DataInv, StoreInv, CacheInv
<1>2. req \in DC!LoadReq
  <2>1. req # FenceReq
    BY <1>1 DEF FenceReq
  <2>2. DC!IsLoad(MemReq)
    BY <1>1, <2>1 DEF MemReq, DC!IsLoad
  <2> QED  BY <1>1, <2>2, RequestSeen
<1>3. /\ MemReq = req /\ DC!IsLoad(req) /\ ~DC!IsStore(req) /\ req # FenceReq
      /\ req # DC!NoReq /\ req.addr \in DC!WordAddr /\ Fwd.strb = WB!FwdStrb(req.addr)
  BY <1>1, <1>2, RequestSeen
<1>4. ~Push
  BY <1>3 DEF Push, DC!Push
<1>5. Visible[req.addr] = [b \in Lane |-> IF b \in Fwd.strb THEN Fwd.data[b]
                                          ELSE mem[req.addr][b]]
  BY <1>3 DEF Visible, Fwd
<1>6. \A word \in DC!Word : word = Visible[req.addr] =>
        DC!Overlay(Fwd.data, Fwd.strb, word) = Visible[req.addr]
  BY <1>5 DEF DC!Overlay
<1>7. DcValid /\ DcReady
  BY <1>1, <1>3 DEF Answered
<1>8. CASE state = "IDLE" /\ DC!CacheHit(req.addr)
  <2>1. PICK w \in DC!Way : DC!WayHit(req.addr, w)
    BY <1>8 DEF DC!CacheHit
  <2>2. DC!WayHit(req.addr, DC!HitWay(req.addr)) /\ DC!HitWay(req.addr) \in DC!Way
    BY <2>1 DEF DC!HitWay, DC!Way
  <2>3. cache[req.addr.idx][DC!HitWay(req.addr)].data[req.addr.sel] = Visible[req.addr]
    BY <1>3, <2>2 DEF MemoryInv, CacheCoherent
  <2>4. cache[req.addr.idx][DC!HitWay(req.addr)].data[req.addr.sel] \in DC!Word
    BY <1>1, <1>3, <2>2, LookupTyped
  <2>5. DC!CacheRdata(req.addr, Fwd) = Visible[req.addr]
    BY <1>6, <2>3, <2>4 DEF DC!CacheRdata
  <2> QED  BY <1>3, <1>4, <1>8, <2>5 DEF DC!Rdata
<1>9. CASE state = "IDLE" /\ ~DC!CacheHit(req.addr)
  <2>1. DC!FullCover(Fwd)
    BY <1>3, <1>4, <1>7, <1>9 DEF DcValid, DC!Valid, Push
  <2>2. Fwd.data = [b \in Lane |-> Fwd.data[b]]
    BY <1>3 DEF Fwd
  <2>3. Visible[req.addr] = Fwd.data
    BY <1>5, <2>1, <2>2 DEF DC!FullCover
  <2> QED  BY <1>3, <1>4, <1>9, <2>3 DEF DC!Rdata
<1>10. CASE state # "IDLE"
  <2>1. state = "REFILL_DONE"
    BY <1>7, <1>10 DEF DcReady, DC!Ready
  <2>2. req.addr.sel \in rfValid /\ SameLine(req.addr, miss)
    BY <1>3, <2>1 DEF MemoryInv, WordsArrive, LoadWaits, DC!WordAddr
  <2>3. miss \in DC!WordAddr
    BY <1>1 DEF DC!TypeOK
  <2>4. LineWord(req.addr.sel) = req.addr
    BY <1>3, <2>2, <2>3 DEF LineWord, SameLine, DC!WordAddr
  <2>5. rfBuffer[req.addr.sel] = Visible[req.addr] /\ rfBuffer[req.addr.sel] \in DC!Word
    BY <1>1, <1>3, <1>10, <2>2, <2>4 DEF MemoryInv, BufferGood, DC!TypeOK, DC!WordAddr
  <2>6. DC!RfRdata(req.addr, Fwd) = Visible[req.addr]
    BY <1>6, <2>5 DEF DC!RfRdata
  <2> QED  BY <1>3, <1>4, <1>10, <2>6 DEF DC!Rdata
<1> QED  BY <1>8, <1>9, <1>10, <1>3, <1>4

LEMMA TickRefines ==
  ASSUME Handshake, MemoryInv, DataInv', Tick
  PROVE  Memory!Next
<1>1. Visible' = IF Push
                 THEN [Visible EXCEPT ![req.addr] = DC!Overlay(req.data, req.strb, @)]
                 ELSE Visible
  BY EdgeVisible DEF MemoryInv, DataInv, VisibleEdge
<1>2. answer' = IF LoadAnswered
                THEN [kind |-> "load", addr |-> req.addr, data |-> DC!Rdata(req, Fwd)]
                ELSE NoAnswer
  BY DEF Tick, CpuClock
<1>3. CASE LoadAnswered
  <2>1. Memory!Load(req.addr) /\ req.addr \in DC!WordAddr
    BY <1>1, <1>2, <1>3, LoadReturnsVisible DEF Memory!Load
  <2> QED  BY <2>1 DEF Memory!Next
<1>4. CASE ~LoadAnswered /\ Push
  <2>1. req \in DC!StoreReq
    BY <1>4, AccessTyped DEF MemoryInv, DataInv, StoreInv
  <2>2. /\ req.addr \in DC!WordAddr /\ req.data \in Memory!Word
        /\ req.strb \in (SUBSET Lane) \ {{}}
    BY <2>1 DEF DC!StoreReq, DC!Word, Memory!Word
  <2>3. Memory!Store(req.addr, req.data, req.strb)
    BY <1>1, <1>2, <1>4 DEF Memory!Store, Memory!NoAnswer, NoAnswer, DC!Overlay
  <2> QED  BY <2>2, <2>3 DEF Memory!Next
<1>5. CASE ~LoadAnswered /\ ~Push
  BY <1>1, <1>2, <1>5 DEF Memory!Next, Memory!Quiet, Memory!NoAnswer, NoAnswer
<1> QED  BY <1>3, <1>4, <1>5

(* For every depth, geometry and latency, a program that waits for ready   *)
(* and drains before it misses sees a memory in which each load and store  *)
(* is a single step: draining, refilling and evicting are invisible.       *)
THEOREM DataSideImplementsMemory ==
  ASSUME Handshake, Drained
  PROVE  Spec => ImplementsMemory
<1>1. Init => Memory!Init
  <2> SUFFICES ASSUME Init PROVE Memory!Init
    OBVIOUS
  <2>1. ASSUME NEW a \in DC!WordAddr PROVE Visible[a] = mem[a]
    <3>1. ~Pending(a)
      BY DEF Init, WB!Init, Pending
    <3> QED  BY <3>1, InitStoreInv, DrainedIsMemory
  <2>2. mem = [a \in DC!WordAddr |-> CHOOSE w \in DC!Word : TRUE]
    BY SameTypes DEF Init, MM!Init
  <2>3. Visible = [a \in DC!WordAddr |-> Visible[a]]
    BY DEF Visible
  <2> QED  BY <2>1, <2>2, <2>3 DEF Init, Memory!Init, Memory!NoAnswer, NoAnswer
<1>2. MemoryInv /\ [Tick]_vars => MemoryInv'
  BY MemoryInvKept
<1>3. MemoryInv /\ MemoryInv' /\ [Tick]_vars => [Memory!Next]_(<<Visible, answer>>)
  <2> SUFFICES ASSUME MemoryInv, MemoryInv', [Tick]_vars
               PROVE  [Memory!Next]_(<<Visible, answer>>)
    OBVIOUS
  <2>1. CASE Tick
    BY <2>1, TickRefines DEF MemoryInv
  <2>2. CASE UNCHANGED vars
    BY <2>2, Stuttering DEF vars, cpuVars
  <2> QED  BY <2>1, <2>2
<1> QED  BY InitMemoryInv, <1>1, <1>2, <1>3, PTL DEF Spec, ImplementsMemory, Memory!Spec

-----------------------------------------------------------------------------
(* What the parts promise holds of them in the composition.                *)

(* For every program and every latency, no set of the data cache holds a   *)
(* line twice (dcache.sv: the hit way, the refill of one way).             *)
THEOREM LinesStayDistinct == Spec => []NoDuplicateLine
<1>1. DataInv => NoDuplicateLine
  BY DEF DataInv, CacheInv, NoDuplicateLine
<1> QED  BY DataInvAlways, <1>1, PTL

(* For every program and every latency, pointers and valid bits of the     *)
(* write buffer describe the same slots (write_buffer.sv).                 *)
THEOREM RingStaysConsistent == Spec => []RingInv
<1>1. StoreInv => RingInv
  BY DEF StoreInv, RingTyped, RingInv
<1> QED  BY StoreInvAlways, <1>1, PTL

(* The queue the ring stands for: the k-th store is in the k-th slot.      *)
QueueIs ==
  /\ WB!Contents \in Seq(WB!Store)
  /\ Len(WB!Contents) = WB!Count
  /\ WB!Count \in 0 .. Depth
  /\ \A k \in 1 .. WB!Count : WB!Contents[k] = entry[WB!NthSlot(k)]

LEMMA QueueNow == RingTyped => QueueIs
<1> SUFFICES ASSUME RingTyped PROVE QueueIs
  OBVIOUS
<1>1. /\ WB!Count \in 0 .. Depth /\ entry \in [WB!Slot -> WB!Store]
      /\ \A k \in 1 .. Depth : WB!NthSlot(k) \in WB!Slot
  BY SlotFacts DEF RingTyped, WB!RingInv, WB!TypeOK
<1>2. \A k \in 1 .. WB!Count : entry[WB!NthSlot(k)] \in WB!Store
  BY <1>1, SizesAssumption
<1>3. WB!Contents \in [1 .. WB!Count -> WB!Store] /\ WB!Count \in Nat
  BY <1>1, <1>2, SizesAssumption DEF WB!Contents
<1>4. WB!Contents \in Seq(WB!Store) /\ Len(WB!Contents) = WB!Count
  BY <1>3, SeqDef
<1> QED  BY <1>1, <1>4 DEF WB!Contents, QueueIs

LEMMA QueueNext == RingTyped' => QueueIs'
  BY QueueNow, PTL

(* A load is offered exactly the youngest pending store of every lane, for *)
(* every program, depth and latency (write_buffer.sv: the forwarding scan).*)
LEMMA ScanIsNewest == RingTyped => ForwardsNewest
<1> SUFFICES ASSUME RingTyped, NEW a \in WB!WordAddr
             PROVE  /\ WB!FwdStrb(a) = WB!Queue!Covered(a)
                    /\ \A b \in WB!FwdStrb(a) : WB!FwdByte(a, b) = WB!Queue!Newest(a, b)
  BY DEF ForwardsNewest, WB!ForwardsNewest
<1>1. QueueIs
  BY QueueNow
<1>2. ASSUME NEW b \in Lane, NEW k \in 1 .. WB!Count
      PROVE  WB!Queue!Writes(k, a, b) <=> Writes(k, a, b)
  BY <1>1 DEF QueueIs, Writes, WB!Queue!Writes
<1>3. WB!FwdStrb(a) = WB!Queue!Covered(a)
  <2>1. ASSUME NEW b \in Lane
        PROVE  b \in WB!FwdStrb(a) <=> \E k \in 1 .. WB!Count : WB!Queue!Writes(k, a, b)
    BY <1>2, ScanOffers DEF Untouched
  <2> QED  BY <1>1, <2>1 DEF QueueIs, WB!FwdStrb, WB!Queue!Covered
<1>4. ASSUME NEW b \in WB!FwdStrb(a)
      PROVE  WB!FwdByte(a, b) = WB!Queue!Newest(a, b)
  <2> DEFINE Last(k) == /\ WB!Queue!Writes(k, a, b)
                        /\ \A j \in (k + 1) .. WB!Count : ~WB!Queue!Writes(j, a, b)
  <2>1. b \in Lane
    BY DEF WB!FwdStrb
  <2>2. PICK k : Youngest(k, a, b) /\ WB!FwdByte(a, b) = entry[WB!NthSlot(k)].data[b]
    BY <2>1, ScanOffers
  <2>3. ASSUME NEW i \in 1 .. WB!Count PROVE Last(i) <=> Youngest(i, a, b)
    <3>1. (i + 1) .. WB!Count \subseteq 1 .. WB!Count
      BY <1>1, SizesAssumption DEF QueueIs
    <3> QED  BY <1>2, <2>1, <3>1 DEF Youngest
  <2>4. k \in 1 .. WB!Count /\ Last(k) /\ \A i \in 1 .. WB!Count : Last(i) => i = k
    <3>1. k \in 1 .. WB!Count
      BY <2>2 DEF Youngest
    <3>2. \A i \in 1 .. WB!Count : Youngest(i, a, b) => i = k
      BY <2>2, OneYoungest
    <3> HIDE DEF Last
    <3> QED  BY <2>2, <2>3, <3>1, <3>2
  <2>5. (CHOOSE i \in 1 .. WB!Count : Last(i)) = k
    <3> HIDE DEF Last
    <3> QED  BY <2>4
  <2>6. WB!Queue!Newest(a, b) = WB!Contents[k].data[b]
    BY <1>1, <2>5 DEF WB!Queue!Newest, QueueIs
  <2>7. WB!Contents[k] = entry[WB!NthSlot(k)]
    BY <1>1, <2>4 DEF QueueIs
  <2> QED  BY <2>2, <2>6, <2>7
<1> QED  BY <1>3, <1>4

(* For every program and every latency a load is offered, byte by byte, the *)
(* youngest pending store to its word (write_buffer.sv: the scan from the  *)
(* tail).                                                                  *)
THEOREM ForwardingStaysNewest == Spec => []ForwardsNewest
<1>1. StoreInv => ForwardsNewest
  BY ScanIsNewest DEF StoreInv
<1> QED  BY StoreInvAlways, <1>1, PTL

(* One edge of the queue: d stores leave the front, e enter at the back.   *)
LEMMA QueueEdge ==
  ASSUME RingTyped, RingTyped', NEW push, NEW st, NEW done,
         NEW e \in {0, 1}, NEW d \in {0, 1}, RingStep(push, st, done, e, d)
  PROVE  /\ WB!Contents' \in Seq(WB!Store)
         /\ Len(WB!Contents') = Len(WB!Contents) + e - d
         /\ \A k \in 1 .. Len(WB!Contents') :
              WB!Contents'[k] = IF k + d <= Len(WB!Contents) THEN WB!Contents[k + d] ELSE st
<1>1. /\ WB!Contents \in Seq(WB!Store) /\ Len(WB!Contents) = WB!Count /\ WB!Count \in 0 .. Depth
      /\ \A k \in 1 .. WB!Count : WB!Contents[k] = entry[WB!NthSlot(k)]
  BY QueueNow DEF QueueIs
<1>2. /\ WB!Contents' \in Seq(WB!Store) /\ Len(WB!Contents') = WB!Count'
      /\ WB!Count' \in 0 .. Depth
      /\ \A k \in 1 .. WB!Count' : WB!Contents'[k] = entry'[WB!NthSlot(k)']
  <2>1. QueueIs'
    BY QueueNext
  <2> QED  BY <2>1 DEF QueueIs
<1>3. /\ WB!Count' = WB!Count + e - d /\ WB!Count + e <= Depth /\ d <= WB!Count
      /\ \A k \in 1 .. Depth : k + d <= Depth + 1 => WB!NthSlot(k)' = WB!NthSlot(k + d)
      /\ entry' = [s \in WB!Slot |->
                     IF e = 1 /\ s = WB!NthSlot(WB!Count + 1) THEN st ELSE entry[s]]
  BY DEF RingStep
<1>4. /\ \A k \in 1 .. Depth : WB!NthSlot(k) \in WB!Slot
      /\ \A j, k \in 1 .. Depth : WB!NthSlot(j) = WB!NthSlot(k) => j = k
  BY SlotFacts DEF RingTyped, WB!RingInv
<1>5. ASSUME NEW k \in 1 .. WB!Count'
      PROVE  WB!Contents'[k] = IF k + d <= WB!Count THEN WB!Contents[k + d] ELSE st
  <2>1. k \in 1 .. Depth /\ k + d \in 1 .. Depth /\ k + d <= WB!Count + e /\ k + d <= Depth + 1
    <3>1. PICK n, m : n = WB!Count /\ m = WB!Count'
      OBVIOUS
    <3>2. n \in 0 .. Depth /\ m \in 0 .. Depth /\ m = n + e - d /\ n + e <= Depth /\ d <= n
      BY <1>1, <1>2, <1>3, <3>1
    <3>3. k \in 1 .. m /\ Depth \in Nat
      BY <3>1, SizesAssumption
    <3>4. k \in 1 .. Depth /\ k + d \in 1 .. Depth /\ k + d <= n + e /\ k + d <= Depth + 1
      BY <3>2, <3>3
    <3> QED  BY <3>1, <3>4
  <2>2. WB!Contents'[k] = entry'[WB!NthSlot(k + d)] /\ WB!NthSlot(k + d) \in WB!Slot
    BY <1>2, <1>3, <1>4, <2>1
  <2>3. CASE k + d <= WB!Count
    <3>1. WB!NthSlot(k + d) # WB!NthSlot(WB!Count + 1) \/ e = 0
      BY <1>1, <1>3, <1>4, <2>1, <2>3, SizesAssumption
    <3>2. WB!Contents[k + d] = entry[WB!NthSlot(k + d)]
      BY <1>1, <2>1, <2>3
    <3> QED  BY <1>3, <2>2, <2>3, <3>1, <3>2
  <2>4. CASE ~(k + d <= WB!Count)
    <3>1. e = 1 /\ k + d = WB!Count + 1
      BY <1>1, <2>1, <2>4, SizesAssumption
    <3> QED  BY <1>3, <2>2, <2>4, <3>1
  <2> QED  BY <2>3, <2>4
<1> QED  BY <1>1, <1>2, <1>3, <1>5

LEMMA RingRefines ==
  ASSUME RingTyped, RingTyped', NEW push, NEW st, NEW done, WB!Clock(push, st, done),
         push => st \in WB!Store
  PROVE  [WB!Queue!Next]_(WB!Contents)
<1>1. PICK e \in {0, 1}, d \in {0, 1} : RingStep(push, st, done, e, d)
  BY RingSteps
<1>2. PICK q, r : q = WB!Contents /\ r = WB!Contents'
  OBVIOUS
<1>3. /\ r \in Seq(WB!Store) /\ Len(r) = Len(q) + e - d
      /\ \A k \in 1 .. Len(r) : r[k] = IF k + d <= Len(q) THEN q[k + d] ELSE st
  <2>1. /\ WB!Contents' \in Seq(WB!Store)
        /\ Len(WB!Contents') = Len(WB!Contents) + e - d
        /\ \A k \in 1 .. Len(WB!Contents') :
            WB!Contents'[k] = IF k + d <= Len(WB!Contents) THEN WB!Contents[k + d] ELSE st
    BY <1>1, QueueEdge
  <2> QED  BY <1>2, <2>1
<1>4. /\ q \in Seq(WB!Store) /\ Len(q) \in Nat /\ Len(q) + e <= Depth /\ d <= Len(q)
      /\ e = 1 => st \in WB!Store
  BY <1>1, <1>2, QueueNow, SizesAssumption DEF RingStep, QueueIs
<1>5. WB!Queue!Store = WB!Store
  BY DEF WB!Queue!Store, WB!Store, WB!Word
<1>6. CASE e = 0 /\ d = 0
  <2>1. r = q
    BY <1>3, <1>4, <1>6, SeqEqual
  <2> QED  BY <1>2, <2>1
<1>7. CASE e = 1 /\ d = 0
  <2>1. Append(q, st) \in Seq(WB!Store) /\ Len(Append(q, st)) = Len(r)
        /\ \A k \in 1 .. Len(r) : r[k] = Append(q, st)[k]
    BY <1>3, <1>4, <1>7
  <2>2. r = Append(q, st)
    BY <1>3, <2>1, SeqEqual
  <2>3. WB!Queue!Accept(st)
    BY <1>2, <1>4, <1>7, <2>2, SizesAssumption DEF WB!Queue!Accept
  <2> QED  BY <1>4, <1>5, <1>7, <2>3 DEF WB!Queue!Next
<1>8. CASE e = 0 /\ d = 1
  <2>1. q # << >> /\ Tail(q) \in Seq(WB!Store) /\ Len(Tail(q)) = Len(r)
        /\ \A k \in 1 .. Len(r) : r[k] = Tail(q)[k]
    BY <1>3, <1>4, <1>8
  <2>2. r = Tail(q)
    BY <1>3, <2>1, SeqEqual
  <2> QED  BY <1>2, <2>1, <2>2 DEF WB!Queue!Retire, WB!Queue!Next
<1>9. CASE e = 1 /\ d = 1
  <2>1. PICK t : t = Tail(q)
    OBVIOUS
  <2>2. q # << >> /\ t \in Seq(WB!Store) /\ Len(t) = Len(q) - 1
        /\ \A k \in 1 .. Len(q) - 1 : t[k] = q[k + 1]
    BY <1>4, <1>9, <2>1
  <2>3. Append(t, st) \in Seq(WB!Store) /\ Len(Append(t, st)) = Len(r)
        /\ \A k \in 1 .. Len(r) : r[k] = Append(t, st)[k]
    BY <1>3, <1>4, <1>9, <2>2
  <2>4. r = Append(t, st)
    BY <1>3, <2>3, SeqEqual
  <2>5. WB!Queue!AcceptAndRetire(st)
    BY <1>2, <1>4, <1>9, <2>1, <2>2, <2>4, SizesAssumption DEF WB!Queue!AcceptAndRetire
  <2> QED  BY <1>4, <1>5, <1>9, <2>5 DEF WB!Queue!Next
<1> QED  BY <1>6, <1>7, <1>8, <1>9

(* In the composition too the write buffer is a first-in first-out queue,  *)
(* for every program, legal or not, every depth and every latency.         *)
THEOREM BufferImplementsQueue == Spec => ImplementsQueue
<1>1. Init => WB!Queue!Init
  BY SizesAssumption DEF Init, WB!Init, WB!Queue!Init, WB!Contents, WB!Count
<1>2. StoreInv /\ StoreInv' /\ [Tick]_vars => [WB!Queue!Next]_(WB!Contents)
  <2> SUFFICES ASSUME StoreInv, StoreInv', [Tick]_vars PROVE [WB!Queue!Next]_(WB!Contents)
    OBVIOUS
  <2>1. CASE Tick
    <3>1. WB!Clock(Push, NewStore, AR!WriteDone(MM!BValid))
      BY <2>1 DEF Tick
    <3>2. RingTyped /\ RingTyped' /\ (Push => NewStore \in WB!Store)
      BY AccessTyped DEF StoreInv
    <3> QED  BY <3>1, <3>2, RingRefines
  <2>2. CASE UNCHANGED vars
    BY <2>2 DEF vars, wbVars, WB!Contents, WB!Count, WB!NthSlot
  <2> QED  BY <2>1, <2>2
<1> QED  BY StoreInvAlways, <1>1, <1>2, PTL DEF Spec, ImplementsQueue, WB!ImplementsQueue, WB!Queue!Spec

-----------------------------------------------------------------------------
(* Of a requester that waits for ready and drains before it misses, two    *)
(* things are true that the core's own handshake does not give.            *)

(* A load returns what the program last stored there.                      *)
THEOREM LoadsReadLastStore ==
  ASSUME Handshake, Drained
  PROVE  Spec => ReadAfterWrite
<1>1. MemoryInv /\ [Tick]_vars => MemoryInv'
  BY MemoryInvKept
<1>2. MemoryInv => (LoadAnswered => DC!Rdata(req, Fwd) = Visible[req.addr])
  BY LoadReturnsVisible
<1> QED  BY InitMemoryInv, <1>1, <1>2, PTL DEF Spec, ReadAfterWrite

(* A refill is under way only while the load that missed is still there:   *)
(* a requester that waits for ready puts nothing else before the cache.    *)
LoadHeld == state # "IDLE" => req \in DC!LoadReq

LEMMA LoadHeldKept ==
  ASSUME Handshake, DataInv, LoadHeld, Tick
  PROVE  LoadHeld'
<1>1. DC!Clock(MemReq, Fwd, WB!Full, AR!Grants("DC", DcReq, IcReq), DcBeat)
  BY DEF Tick
<1>2. CpuClock /\ req \in Program
  BY DEF Tick, DataInv, StoreInv
<1>3. CASE state = "IDLE" /\ DC!LoadMiss(MemReq, Fwd)
  <2>1. /\ req \in DC!LoadReq /\ MemReq = req /\ req # FenceReq /\ req # DC!NoReq
        /\ ~DC!CacheHit(req.addr) /\ Fwd.strb # Lane /\ ~DC!IsStore(req)
    BY <1>2, <1>3, RequestSeen DEF DC!LoadMiss, DC!StartsRefill, DC!FullCover
  <2>2. ~Answered
    BY <1>3, <2>1 DEF Answered, DcValid, DC!Valid, DC!Push, DC!FullCover
  <2>3. req' = req
    BY <1>2, <2>1, <2>2 DEF CpuClock
  <2> QED  BY <2>1, <2>3 DEF LoadHeld
<1>4. CASE state = "IDLE" /\ ~DC!LoadMiss(MemReq, Fwd)
  <2>1. state' = "IDLE"
    BY <1>1, <1>4 DEF DC!Clock, DC!LoadHit, DC!StoreHit, DC!Push, DC!Hold, DC!dcVars,
       DC!AwaitGrant, DC!TakeBeat, DC!AwaitBeat, DC!FillLine
  <2> QED  BY <2>1 DEF LoadHeld
<1>5. CASE state \in {"REFILL_REQ", "REFILL_DATA"}
  <2>1. req \in DC!LoadReq /\ req # FenceReq /\ req # DC!NoReq
    BY <1>2, <1>5, RequestSeen DEF LoadHeld
  <2>2. ~Answered
    BY <1>5, <2>1 DEF Answered, DcReady, DC!Ready
  <2>3. req' = req
    BY <1>2, <2>1, <2>2 DEF CpuClock
  <2> QED  BY <2>1, <2>3 DEF LoadHeld
<1>6. CASE state = "REFILL_DONE"
  <2>1. state' = "IDLE"
    BY <1>1, <1>6 DEF DC!Clock, DC!LoadHit, DC!LoadMiss, DC!StartsRefill,
       DC!StoreHit, DC!Push, DC!Hold, DC!dcVars, DC!AwaitGrant, DC!TakeBeat,
       DC!AwaitBeat, DC!FillLine
  <2> QED  BY <2>1 DEF LoadHeld
<1>7. state \in {"IDLE", "REFILL_REQ", "REFILL_DATA", "REFILL_DONE"}
  BY DEF DataInv, CacheInv, DC!TypeOK
<1> QED  BY <1>3, <1>4, <1>5, <1>6, <1>7

(* A store is answered at the edge at which it enters the write buffer.    *)
THEOREM AnsweredStoresArePushed ==
  ASSUME Handshake
  PROVE  Spec => AnsweredStoreIsPushed
<1>1. DataInv /\ LoadHeld /\ [Tick]_vars => LoadHeld'
  <2>1. LoadHeld /\ UNCHANGED vars => LoadHeld'
    BY DEF vars, cpuVars, dcVars, LoadHeld
  <2> QED  BY <2>1, LoadHeldKept
<1>2. Init => LoadHeld
  BY DEF Init, DC!Init, LoadHeld
<1>3. DataInv /\ LoadHeld => (StoreAnswered => Push)
  <2> SUFFICES ASSUME DataInv, LoadHeld, StoreAnswered PROVE Push
    OBVIOUS
  <2>1. req.kind = "store" /\ Answered /\ req \in Program
    BY DEF StoreAnswered, DataInv, StoreInv
  <2>2. req # FenceReq /\ MemReq = req /\ DC!IsStore(req) /\ ~DC!IsLoad(req) /\ req # DC!NoReq
    BY <2>1 DEF FenceReq, MemReq, DC!IsStore, DC!IsLoad, DC!NoReq
  <2>3. req \notin DC!LoadReq
    BY <2>1 DEF DC!LoadReq
  <2>4. state = "IDLE"
    BY <2>3 DEF LoadHeld
  <2>5. DcValid
    BY <2>1, <2>2 DEF Answered
  <2> QED  BY <2>2, <2>4, <2>5 DEF DcValid, DC!Valid, Push
<1> QED  BY DataInvAlways, <1>1, <1>2, <1>3, PTL DEF Spec, AnsweredStoreIsPushed
=============================================================================
