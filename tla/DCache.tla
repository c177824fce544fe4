------------------------------- MODULE DCache -------------------------------
(***************************************************************************)
(* rtl/cpu/cache/dcache.sv: the two-way, write-through, no-write-allocate  *)
(* data cache.  Loads that miss refill a whole line, critical word first,  *)
(* through the bus arbiter; stores go to the write buffer and, on a hit,   *)
(* into the line as well.                                                  *)
(*                                                                         *)
(* Every operator below that is not an action is a combinational output or *)
(* wire; every action is what the registers do at one clock edge for given *)
(* inputs:                                                                 *)
(*   r      the request of the MEM stage (kind "none" when mem_req is low) *)
(*   fwd    what the write buffer forwards for the word r asks for         *)
(*   full   wb_full                                                        *)
(*   grant  arb_grant                                                      *)
(*   beat   the read beat the arbiter routes here: valid, last, data       *)
(***************************************************************************)
EXTENDS CachePkg

VARIABLES
  state,     (* the refill state machine                              *)
  cache,     (* cache_valid, cache_tag, cache_data of every set & way *)
  lru,       (* per set, the way to evict next                        *)
  miss,      (* rf_tag, rf_idx, rf_word_sel: where the next beat goes *)
  rfBuffer,  (* rf_buffer                                             *)
  rfValid    (* rf_valid: the words of rf_buffer received so far      *)

dcVars == <<state, cache, lru, miss, rfBuffer, rfValid>>

Way      == {0, 1}
Line     == [valid : BOOLEAN, tag : Tag, data : [Sel -> Word]]

LoadReq  == [kind : {"load"}, addr : WordAddr]
StoreReq == [kind : {"store"}, addr : WordAddr, data : Word, strb : (SUBSET Lane) \ {{}}]
NoReq    == [kind |-> "none"]
MemReq   == LoadReq \cup StoreReq \cup {NoReq}

Forward == [strb : SUBSET Lane, data : Word]
Beat    == [valid : BOOLEAN, last : BOOLEAN, data : Word]

(* The reset clears state, cache_valid, rf_valid and lru; the memories and  *)
(* the miss address hold whatever they power up with: one arbitrary value. *)
Init ==
  /\ state = "IDLE"
  /\ cache = [i \in Set |-> [w \in Way |->
               [CHOOSE l \in Line : TRUE EXCEPT !.valid = FALSE]]]
  /\ lru = [i \in Set |-> 0]
  /\ miss = CHOOSE a \in WordAddr : TRUE
  /\ rfBuffer = CHOOSE d \in [Sel -> Word] : TRUE
  /\ rfValid = {}

-----------------------------------------------------------------------------
(* Lookup.                                                                 *)

WayHit(a, w) == cache[a.idx][w].valid /\ cache[a.idx][w].tag = a.tag
(* Fault: way 0 is not looked up. *)
CacheHitWay1(a) == WayHit(a, 1)
CacheHit(a)  == \E w \in Way : WayHit(a, w)

(* Only way 1 is looked at, which is right if a line is never in both.     *)
(* Fault: the hit way is not decoded. *)
HitWayZero(a) == 0
HitWay(a) == IF WayHit(a, 1) THEN 1 ELSE 0

(* Fault: the byte strobes are ignored. *)
OverlayWhole(data, strb, word) == data
Overlay(data, strb, word) == [b \in Lane |-> IF b \in strb THEN data[b] ELSE word[b]]

CacheRdata(a, fwd) == Overlay(fwd.data, fwd.strb, cache[a.idx][HitWay(a)].data[a.sel])
RfRdata(a, fwd)    == Overlay(fwd.data, fwd.strb, rfBuffer[a.sel])

FullCover(fwd) == fwd.strb = Lane

RfHit(a) == a.sel \in rfValid /\ miss.idx = a.idx /\ miss.tag = a.tag

EvictWay ==
  IF ~cache[miss.idx][0].valid THEN 0
  ELSE IF ~cache[miss.idx][1].valid THEN 1
  ELSE lru[miss.idx]

-----------------------------------------------------------------------------
(* Outputs.                                                                *)

IsLoad(r)  == r.kind = "load"
IsStore(r) == r.kind = "store"

StartsRefill(r, fwd) ==
  state = "IDLE" /\ IsLoad(r) /\ ~CacheHit(r.addr) /\ ~FullCover(fwd)

Push(r, full) == state = "IDLE" /\ IsStore(r) /\ ~full

(* dcache_valid.  During a refill the answer looks only at the address     *)
(* (REFILL_DATA) or at nothing (REFILL_DONE), not at mem_we.               *)
Valid(r, fwd, full) ==
  \/ state = "IDLE" /\ IsLoad(r) /\ (CacheHit(r.addr) \/ FullCover(fwd))
  \/ Push(r, full)
  \/ state = "REFILL_DATA" /\ r # NoReq /\ RfHit(r.addr)
  \/ state = "REFILL_DONE"

Ready(r, fwd, full) ==
  \/ state = "IDLE" /\ (r = NoReq \/ Valid(r, fwd, full))
  \/ state = "REFILL_DONE"

(* rdata, where Valid. *)
Rdata(r, fwd) ==
  IF state # "IDLE" THEN RfRdata(r.addr, fwd)
  ELSE IF CacheHit(r.addr) THEN CacheRdata(r.addr, fwd)
  ELSE fwd.data

(* Fault: the request stays up until the refill is over. *)
RefillReqHeld == state # "IDLE"
RefillReq == state = "REFILL_REQ"

-----------------------------------------------------------------------------
(* Clock edges.                                                            *)

Touch(a) == lru' = [lru EXCEPT ![a.idx] = 1 - HitWay(a)]

LoadHit(r) ==
  /\ state = "IDLE" /\ IsLoad(r) /\ CacheHit(r.addr)
  /\ Touch(r.addr)
  /\ UNCHANGED <<state, cache, miss, rfBuffer, rfValid>>

LoadMiss(r, fwd) ==
  /\ StartsRefill(r, fwd)
  /\ state' = "REFILL_REQ"
  /\ miss' = r.addr
  /\ rfValid' = {}
  /\ UNCHANGED <<cache, lru, rfBuffer>>

StoreHit(r, full) ==
  /\ Push(r, full) /\ CacheHit(r.addr)
  /\ Touch(r.addr)
  /\ cache' = [cache EXCEPT ![r.addr.idx][HitWay(r.addr)].data[r.addr.sel] =
                 Overlay(r.data, r.strb, @)]
  /\ UNCHANGED <<state, miss, rfBuffer, rfValid>>

(* No request, a store that misses or finds the write buffer full, a load  *)
(* served by forwarding alone: no register of the cache changes.           *)
Hold(r, fwd, full) ==
  /\ state = "IDLE"
  /\ \/ r = NoReq
     \/ IsLoad(r) /\ ~CacheHit(r.addr) /\ FullCover(fwd)
     \/ IsStore(r) /\ (full \/ ~CacheHit(r.addr))
  /\ UNCHANGED dcVars

AwaitGrant(grant) ==
  /\ state = "REFILL_REQ"
  /\ state' = IF grant THEN "REFILL_DATA" ELSE state
  /\ UNCHANGED <<cache, lru, miss, rfBuffer, rfValid>>

NextSel(s) == IF s = Words - 1 THEN 0 ELSE s + 1

TakeBeat(beat) ==
  /\ state = "REFILL_DATA" /\ beat.valid
  /\ state' = IF beat.last THEN "REFILL_DONE" ELSE state
  /\ rfBuffer' = [rfBuffer EXCEPT ![miss.sel] = beat.data]
  /\ rfValid' = rfValid \cup {miss.sel}
  /\ miss' = [miss EXCEPT !.sel = NextSel(@)]
  /\ UNCHANGED <<cache, lru>>

AwaitBeat(beat) ==
  /\ state = "REFILL_DATA" /\ ~beat.valid
  /\ UNCHANGED dcVars

FillLine ==
  /\ state = "REFILL_DONE"
  /\ state' = "IDLE"
  /\ cache' = [cache EXCEPT ![miss.idx][EvictWay] =
                 [valid |-> TRUE, tag |-> miss.tag, data |-> rfBuffer]]
  /\ lru' = [lru EXCEPT ![miss.idx] = 1 - EvictWay]
  /\ rfValid' = {}
  /\ UNCHANGED <<miss, rfBuffer>>

Clock(r, fwd, full, grant, beat) ==
  \/ LoadHit(r)
  \/ LoadMiss(r, fwd)
  \/ StoreHit(r, full)
  \/ Hold(r, fwd, full)
  \/ AwaitGrant(grant)
  \/ TakeBeat(beat)
  \/ AwaitBeat(beat)
  \/ FillLine

(* The cache under arbitrary inputs: any request in any cycle, answered or *)
(* not, any forwarding, grants and beats at any time.                      *)
Next == \E r \in MemReq, fwd \in Forward, full, grant \in BOOLEAN, beat \in Beat :
          Clock(r, fwd, full, grant, beat)

Spec == Init /\ [][Next]_dcVars

-----------------------------------------------------------------------------
TypeOK ==
  /\ state \in {"IDLE", "REFILL_REQ", "REFILL_DATA", "REFILL_DONE"}
  /\ cache \in [Set -> [Way -> Line]]
  /\ lru \in [Set -> Way]
  /\ miss \in WordAddr
  /\ rfBuffer \in [Sel -> Word]
  /\ rfValid \subseteq Sel

(* No line is ever in both ways of its set.  hit_way looks at way 1 alone  *)
(* (the "optimize" of dcache.sv:96) and a store hit updates one way: with  *)
(* two copies a later hit could return the other one.  It takes a miss, a  *)
(* refill of several cycles and a lookup to break.                         *)
NoDuplicateLine ==
  \A i \in Set : ~(cache[i][0].valid /\ cache[i][1].valid /\ cache[i][0].tag = cache[i][1].tag)
=============================================================================
