--------------------------- MODULE DCache_proofs ----------------------------
(***************************************************************************)
(* Machine-checked facts about dcache.sv on its own: they hold for every   *)
(* cache size, under every sequence of requests, grants and beats.         *)
(***************************************************************************)
EXTENDS DCache, TLAPS

(* While a refill is under way its line is in neither way of its set: the  *)
(* miss found it absent, and nothing else fills a line meanwhile.          *)
RefillAbsent ==
  state # "IDLE" =>
    \A w \in Way : ~(cache[miss.idx][w].valid /\ cache[miss.idx][w].tag = miss.tag)

IInv == TypeOK /\ NoDuplicateLine /\ RefillAbsent

LEMMA NonemptyTypes == WordAddr # {} /\ Word # {} /\ [Sel -> Word] # {} /\ Line # {}
<1>1. PICK t \in Tag, i \in Set, v \in Byte : TRUE
  BY SizesAssumption, BytesAssumption
<1>2. [tag |-> t, idx |-> i, sel |-> 0] \in WordAddr
  BY SizesAssumption DEF WordAddr, Sel
<1>3. [b \in Lane |-> v] \in Word
  BY DEF Word
<1>4. [s \in Sel |-> [b \in Lane |-> v]] \in [Sel -> Word]
  BY <1>3
<1>5. [valid |-> FALSE, tag |-> t, data |-> [s \in Sel |-> [b \in Lane |-> v]]] \in Line
  BY <1>4 DEF Line
<1> QED  BY <1>2, <1>3, <1>4, <1>5

LEMMA InitIInv == Init => IInv
<1> SUFFICES ASSUME Init PROVE IInv
  OBVIOUS
<1>1. PICK l \in Line : l = CHOOSE x \in Line : TRUE
  BY NonemptyTypes
<1>2. [l EXCEPT !.valid = FALSE] \in Line
  BY DEF Line
<1>3. cache = [i \in Set |-> [w \in Way |-> [l EXCEPT !.valid = FALSE]]]
  BY <1>1 DEF Init
<1>4. TypeOK
  <2>1. cache \in [Set -> [Way -> Line]]
    BY <1>2, <1>3
  <2>2. miss \in WordAddr
    BY NonemptyTypes DEF Init
  <2>3. rfBuffer \in [Sel -> Word]
    BY NonemptyTypes DEF Init
  <2> QED  BY <2>1, <2>2, <2>3 DEF Init, TypeOK, Way
<1>5. NoDuplicateLine
  BY <1>2, <1>3 DEF NoDuplicateLine, Line, Way
<1> QED  BY <1>4, <1>5 DEF Init, IInv, RefillAbsent

LEMMA OverlayType ==
  ASSUME NEW data \in Word, NEW strb \in SUBSET Lane, NEW word \in Word
  PROVE  Overlay(data, strb, word) \in Word
BY DEF Overlay, Word

LEMMA LookupType ==
  ASSUME TypeOK, NEW a \in WordAddr
  PROVE  /\ a.tag \in Tag /\ a.idx \in Set /\ a.sel \in Sel
         /\ HitWay(a) \in Way
         /\ EvictWay \in Way
         /\ \A i \in Set, w \in Way :
              /\ cache[i][w] \in Line
              /\ cache[i][w].valid \in BOOLEAN
              /\ cache[i][w].tag \in Tag
              /\ cache[i][w].data \in [Sel -> Word]
<1>1. a.tag \in Tag /\ a.idx \in Set /\ a.sel \in Sel
  BY DEF WordAddr
<1>2. HitWay(a) \in Way
  BY DEF HitWay, Way
<1>3. EvictWay \in Way
  BY DEF EvictWay, TypeOK, Way, WordAddr
<1>4. \A i \in Set, w \in Way : cache[i][w] \in Line
  BY DEF TypeOK
<1> QED  BY <1>1, <1>2, <1>3, <1>4 DEF Line

LEMMA TouchType ==
  ASSUME TypeOK, NEW a \in WordAddr, Touch(a)
  PROVE  lru' \in [Set -> Way]
<1>1. 1 - HitWay(a) \in Way
  BY LookupType DEF Way
<1> QED  BY <1>1 DEF Touch, TypeOK

-----------------------------------------------------------------------------
(* One lemma per action.                                                   *)

LEMMA LoadHitStep ==
  ASSUME IInv, NEW r \in LoadReq, LoadHit(r)
  PROVE  IInv'
<1>1. r.addr \in WordAddr
  BY DEF LoadReq
<1>2. lru' \in [Set -> Way]
  BY <1>1, TouchType DEF LoadHit, IInv
<1> QED  BY <1>2 DEF LoadHit, IInv, TypeOK, NoDuplicateLine, RefillAbsent

LEMMA LoadMissStep ==
  ASSUME IInv, NEW r \in LoadReq, NEW fwd \in Forward, LoadMiss(r, fwd)
  PROVE  IInv'
<1>1. r.addr \in WordAddr
  BY DEF LoadReq
<1>2. TypeOK'
  BY <1>1 DEF LoadMiss, IInv, TypeOK
<1>3. RefillAbsent'
  BY DEF LoadMiss, StartsRefill, RefillAbsent, CacheHit, WayHit
<1> QED  BY <1>2, <1>3 DEF LoadMiss, IInv, NoDuplicateLine

LEMMA StoreHitStep ==
  ASSUME IInv, NEW r \in StoreReq, NEW full \in BOOLEAN, StoreHit(r, full)
  PROVE  IInv'
<1> DEFINE i == r.addr.idx
           h == HitWay(r.addr)
           d == Overlay(r.data, r.strb, cache[i][h].data[r.addr.sel])
           l == [cache[i][h] EXCEPT !.data = [@ EXCEPT ![r.addr.sel] = d]]
<1>1. r.addr \in WordAddr /\ r.data \in Word /\ r.strb \in SUBSET Lane /\ TypeOK
  BY DEF StoreReq, IInv
<1>2. i \in Set /\ h \in Way /\ cache[i][h] \in Line /\ r.addr.sel \in Sel
  BY <1>1, LookupType
<1>3. cache[i][h].data[r.addr.sel] \in Word
  BY <1>2 DEF Line
<1>4. d \in Word
  BY <1>1, <1>3, OverlayType
<1>5. l \in Line /\ l.valid = cache[i][h].valid /\ l.tag = cache[i][h].tag
  <2> HIDE DEF d, i, h
  <2> QED  BY <1>2, <1>4 DEF Line
<1>6. cache' = [cache EXCEPT ![i] = [@ EXCEPT ![h] = l]]
  BY DEF StoreHit
<1>7. lru' \in [Set -> Way]
  BY <1>1, TouchType DEF StoreHit
<1> HIDE DEF l, i, h
<1>8. cache' \in [Set -> [Way -> Line]]
  BY <1>1, <1>2, <1>5, <1>6 DEF TypeOK
<1>9. \A j \in Set, w \in Way :
         cache'[j][w].valid = cache[j][w].valid /\ cache'[j][w].tag = cache[j][w].tag
  BY <1>1, <1>2, <1>5, <1>6 DEF TypeOK
<1>10. TypeOK'
  BY <1>1, <1>7, <1>8 DEF StoreHit, TypeOK
<1>11. NoDuplicateLine'
  BY <1>9 DEF IInv, NoDuplicateLine, Way
<1>12. RefillAbsent'
  BY DEF StoreHit, Push, RefillAbsent
<1> QED  BY <1>10, <1>11, <1>12 DEF IInv

LEMMA AwaitGrantStep ==
  ASSUME IInv, NEW grant \in BOOLEAN, AwaitGrant(grant)
  PROVE  IInv'
BY DEF AwaitGrant, IInv, TypeOK, NoDuplicateLine, RefillAbsent

LEMMA TakeBeatStep ==
  ASSUME IInv, NEW beat \in Beat, TakeBeat(beat)
  PROVE  IInv'
<1>1. TypeOK /\ beat.data \in Word /\ miss \in WordAddr
  BY DEF IInv, Beat, TypeOK
<1>2. miss.sel \in Sel /\ NextSel(miss.sel) \in Sel
  BY <1>1, SizesAssumption DEF WordAddr, NextSel, Sel
<1>3. miss' \in WordAddr /\ miss'.tag = miss.tag /\ miss'.idx = miss.idx
  BY <1>1, <1>2 DEF TakeBeat, WordAddr
<1>4. rfBuffer' \in [Sel -> Word] /\ rfValid' \subseteq Sel
  BY <1>1, <1>2 DEF TakeBeat, TypeOK
<1>5. TypeOK'
  BY <1>1, <1>3, <1>4 DEF TakeBeat, TypeOK
<1> QED  BY <1>3, <1>5 DEF TakeBeat, IInv, NoDuplicateLine, RefillAbsent

LEMMA FillLineStep ==
  ASSUME IInv, FillLine
  PROVE  IInv'
<1> DEFINE i == miss.idx
           l == [valid |-> TRUE, tag |-> miss.tag, data |-> rfBuffer]
<1>1. TypeOK /\ miss \in WordAddr /\ i \in Set /\ l \in Line
  BY DEF IInv, TypeOK, WordAddr, Line
<1>2. EvictWay \in Way /\ 1 - EvictWay \in Way
  BY <1>1, LookupType DEF Way
<1>3. cache' = [cache EXCEPT ![i] = [@ EXCEPT ![EvictWay] = l]]
  BY DEF FillLine
<1>4. TypeOK'
  <2>1. cache' \in [Set -> [Way -> Line]]
    <3> HIDE DEF l, i
    <3> QED  BY <1>1, <1>2, <1>3 DEF TypeOK
  <2>2. lru' \in [Set -> Way]
    BY <1>1, <1>2 DEF FillLine, TypeOK
  <2> QED  BY <1>1, <2>1, <2>2 DEF FillLine, TypeOK
<1>5. \A j \in Set, w \in Way :
         cache'[j][w] = IF j = i /\ w = EvictWay THEN l ELSE cache[j][w]
  <2> HIDE DEF l, i
  <2> QED  BY <1>1, <1>2, <1>3 DEF TypeOK
<1>6. \A w \in Way : ~(cache[i][w].valid /\ cache[i][w].tag = miss.tag)
  BY DEF IInv, RefillAbsent, FillLine
<1>7. NoDuplicateLine'
  <2> SUFFICES ASSUME NEW j \in Set
               PROVE  ~(/\ cache'[j][0].valid /\ cache'[j][1].valid
                        /\ cache'[j][0].tag = cache'[j][1].tag)
    BY DEF NoDuplicateLine
  <2>1. CASE j # i
    BY <1>5, <2>1 DEF IInv, NoDuplicateLine, Way
  <2>2. CASE j = i
    BY <1>2, <1>5, <1>6, <2>2 DEF Way
  <2> QED  BY <2>1, <2>2
<1> QED  BY <1>4, <1>7 DEF FillLine, IInv, RefillAbsent

LEMMA NextIInv == IInv /\ [Next]_dcVars => IInv'
<1> SUFFICES ASSUME IInv, [Next]_dcVars PROVE IInv'
  OBVIOUS
<1>1. ASSUME NEW r \in MemReq, NEW fwd \in Forward, NEW full \in BOOLEAN,
             NEW grant \in BOOLEAN, NEW beat \in Beat,
             Clock(r, fwd, full, grant, beat)
      PROVE  IInv'
  <2>1. IsLoad(r) => r \in LoadReq
    BY DEF IsLoad, MemReq, LoadReq, StoreReq, NoReq
  <2>2. IsStore(r) => r \in StoreReq
    BY DEF IsStore, MemReq, LoadReq, StoreReq, NoReq
  <2>3. CASE LoadHit(r)
    BY <2>1, <2>3, LoadHitStep DEF LoadHit
  <2>4. CASE LoadMiss(r, fwd)
    BY <2>1, <2>4, LoadMissStep DEF LoadMiss, StartsRefill
  <2>5. CASE StoreHit(r, full)
    BY <2>2, <2>5, StoreHitStep DEF StoreHit, Push
  <2>6. CASE Hold(r, fwd, full) \/ AwaitBeat(beat)
    BY <2>6 DEF Hold, AwaitBeat, dcVars, IInv, TypeOK, NoDuplicateLine, RefillAbsent
  <2>7. CASE AwaitGrant(grant)
    BY <2>7, AwaitGrantStep
  <2>8. CASE TakeBeat(beat)
    BY <2>8, TakeBeatStep
  <2>9. CASE FillLine
    BY <2>9, FillLineStep
  <2> QED  BY <1>1, <2>3, <2>4, <2>5, <2>6, <2>7, <2>8, <2>9 DEF Clock
<1>2. CASE Next
  BY <1>1, <1>2 DEF Next
<1>3. CASE UNCHANGED dcVars
  BY <1>3 DEF dcVars, IInv, TypeOK, NoDuplicateLine, RefillAbsent
<1> QED  BY <1>2, <1>3

(* A line is never in both ways of its set, whatever the core requests and *)
(* whenever the bus answers: reading hit_way off way 1 alone is sound.     *)
THEOREM LinesUnique == Spec => [](TypeOK /\ NoDuplicateLine)
<1>1. IInv => TypeOK /\ NoDuplicateLine
  BY DEF IInv
<1> QED  BY <1>1, InitIInv, NextIInv, PTL DEF Spec
=============================================================================
