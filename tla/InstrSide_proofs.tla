-------------------------- MODULE InstrSide_proofs --------------------------
(***************************************************************************)
(* Machine-checked facts about the instruction side, for every cache size  *)
(* and line length, every predictor, and redirects and stalls at any time. *)
(***************************************************************************)
EXTENDS InstrSide, TLAPS

(* The parts of the invariant.  The core points at addresses.              *)
CoreOK ==
  /\ pc \in IC!WordAddr /\ miss \in IC!WordAddr
  /\ redirect \in FU!Redirect /\ predict \in Predictions

(* A burst for the instruction cache is under way exactly while it waits   *)
(* for one.                                                                *)
BurstOwned ==
  /\ rdState \in {"RD_IDLE", "RD_ADDR", "RD_DATA"}
  /\ mrState \in {"RD_IDLE", "RD_WAIT", "RD_DATA"}
  /\ rdState = "RD_DATA" <=> mrState # "RD_IDLE"
  /\ state = "REFILL_DATA" <=> rdState # "RD_IDLE" /\ rdOwner = "IC"

(* The memory and the cache agree on the word that comes next, and the     *)
(* cache has every word sent before it.                                    *)
BeatsInStep ==
  state = "REFILL_DATA" =>
    /\ rdState = "RD_ADDR" => rdAddr = miss
    /\ rdState = "RD_DATA" => /\ mrAddr \in IC!WordAddr
                             /\ mrBeat \in 0 .. Words - 1
                             /\ MM!BeatAddr = miss
                             /\ \A n \in 0 .. mrBeat - 1 :
                                  MM!WrapSel(mrAddr.sel, n) \in rfValid

(* When the refill is over the line is complete.                           *)
RefillWhole == state = "REFILL_DONE" => rfValid = IC!Sel

LinesOK ==
  /\ cache \in [Set -> IC!Line]
  /\ rfBuffer \in [IC!Sel -> IC!WordAddr]
  /\ rfValid \subseteq IC!Sel
  /\ LinesIntact

IInv == CoreOK /\ BurstOwned /\ BeatsInStep /\ RefillWhole /\ LinesOK

-----------------------------------------------------------------------------
LEMMA InitIInv == Init => IInv
<1> SUFFICES ASSUME Init PROVE IInv
  OBVIOUS
<1>1. ResetPc \in IC!WordAddr /\ Words \in Nat \ {0} /\ Tag # {}
  BY FetchAssumption
<1>2. CoreOK
  BY <1>1 DEF Init, FU!Init, IC!Init, CoreOK, FU!Redirect, FU!NoRedirect
<1>3. BurstOwned /\ BeatsInStep /\ RefillWhole
  BY DEF Init, IC!Init, BurstOwned, BeatsInStep, RefillWhole
<1>4. PICK l \in IC!Line : l = CHOOSE x \in IC!Line : TRUE
  <2>1. PICK t \in Tag : TRUE
    BY <1>1
  <2>2. [valid |-> FALSE, tag |-> t, data |-> [s \in IC!Sel |-> ResetPc]] \in IC!Line
    BY <1>1 DEF IC!Line
  <2> QED  BY <2>2
<1>5. cache = [i \in Set |-> [l EXCEPT !.valid = FALSE]]
  BY <1>4 DEF Init, IC!Init
<1>6. [l EXCEPT !.valid = FALSE] \in IC!Line /\ ~[l EXCEPT !.valid = FALSE].valid
  BY DEF IC!Line
<1>7. rfBuffer \in [IC!Sel -> IC!WordAddr] /\ rfValid = {}
  <2>1. [s \in IC!Sel |-> ResetPc] \in [IC!Sel -> IC!WordAddr]
    BY <1>1
  <2> QED  BY <2>1 DEF Init, IC!Init
<1>8. LinesOK
  BY <1>5, <1>6, <1>7 DEF LinesOK, LinesIntact, IC!LinesIntact
<1> QED  BY <1>2, <1>3, <1>8 DEF IInv

-----------------------------------------------------------------------------
(* What one clock edge does, component by component.                       *)

LEMMA NextSelType ==
  ASSUME NEW s \in IC!Sel PROVE IC!NextSel(s) \in IC!Sel
BY FetchAssumption DEF IC!NextSel, IC!Sel

LEMMA CoreKept ==
  ASSUME CoreOK, Tick
  PROVE  CoreOK'
<1>1. predict' \in Predictions
  <2>1. predict' \in IF cwfConsumed' THEN {predict} ELSE Predictions
    BY DEF Tick, CoreClock
  <2>2. CASE cwfConsumed'
    BY <2>1, <2>2 DEF CoreOK
  <2>3. CASE ~cwfConsumed'
    BY <2>1, <2>3
  <2> QED  BY <2>2, <2>3
<1>2. redirect' \in FU!Redirect
  BY FetchAssumption DEF Tick, CoreClock, FU!Redirect, FU!NoRedirect
<1>3. predict[pc] \in IC!WordAddr
  BY FetchAssumption DEF CoreOK
<1>4. redirect # FU!NoRedirect => redirect.to \in IC!WordAddr
  BY DEF CoreOK, FU!Redirect
<1>5. pc' \in IC!WordAddr
  BY <1>3, <1>4 DEF CoreOK, Tick, FU!Clock
<1>6. [miss EXCEPT !.sel = IC!NextSel(@)] \in IC!WordAddr
  BY NextSelType DEF CoreOK, IC!WordAddr
<1>7. miss' \in IC!WordAddr
  BY <1>6 DEF CoreOK, Tick, IC!Clock, IC!Lookup, IC!AwaitGrant, IC!TakeBeat,
     IC!AwaitBeat, IC!FillLine
<1> QED  BY <1>1, <1>2, <1>5, <1>7 DEF CoreOK

(* What the cache does with the bus: it asks, waits, takes beats, and has  *)
(* nothing to do with it otherwise.                                        *)
Beat   == AR!Routes("IC", MM!RValid)
Ends   == Beat /\ MM!RLast
Grants == AR!Grants("IC", DcReq, IcReq)

LEMMA CacheEdge ==
  ASSUME Tick
  PROVE  /\ state \in {"IDLE", "REFILL_REQ", "REFILL_DATA", "REFILL_DONE"}
         /\ state' = "REFILL_DATA" <=> \/ state = "REFILL_REQ" /\ Grants
                                       \/ state = "REFILL_DATA" /\ ~Ends
         /\ state' = "REFILL_DONE" <=> state = "REFILL_DATA" /\ Ends
         /\ state \in {"REFILL_REQ", "REFILL_DATA"} =>
              /\ miss' = IF state = "REFILL_DATA" /\ Beat
                         THEN [miss EXCEPT !.sel = IC!NextSel(@)] ELSE miss
              /\ rfValid' = IF state = "REFILL_DATA" /\ Beat
                            THEN rfValid \cup {miss.sel} ELSE rfValid
BY DEF Tick, IC!Clock, IC!Lookup, IC!AwaitGrant, IC!TakeBeat, IC!AwaitBeat,
   IC!FillLine, IcBeat, Beat, Ends, Grants

LEMMA BurstKept ==
  ASSUME BurstOwned, Tick
  PROVE  BurstOwned'
<1>1. AR!ReadClock(DcReq, DcAddr, IcReq, miss, MM!ArReady, MM!RValid, MM!RLast)
  BY DEF Tick
<1>2. MM!ReadClock(AR!ArValid, rdAddr, rdState = "RD_DATA")
  BY DEF Tick
<1>3. /\ rdState' \in {"RD_IDLE", "RD_ADDR", "RD_DATA"}
      /\ mrState' \in {"RD_IDLE", "RD_WAIT", "RD_DATA"}
      /\ rdState' = "RD_DATA" <=> mrState' # "RD_IDLE"
  BY <1>1, <1>2 DEF BurstOwned, AR!ReadClock, AR!Grant, AR!ReadIdle,
     AR!rdVars, AR!SendReadAddress, AR!ReceiveData, AR!ArValid, MM!ReadClock,
     MM!AcceptRead, MM!mrVars, MM!ReadLatency, MM!SendBeat, MM!ArReady,
     MM!RValid, MM!RLast
<1>4. (rdState' # "RD_IDLE" /\ rdOwner' = "IC") <=>
        \/ state = "REFILL_REQ" /\ Grants
        \/ rdState # "RD_IDLE" /\ rdOwner = "IC" /\ ~Ends
  BY <1>1 DEF BurstOwned, AR!ReadClock, AR!Grant, AR!Winner, AR!ReadIdle,
     AR!rdVars, AR!SendReadAddress, AR!ReceiveData, Ends, Beat, Grants,
     AR!Grants, AR!Routes, IcReq, IC!RefillReq
<1> QED  BY <1>3, <1>4, CacheEdge DEF BurstOwned

-----------------------------------------------------------------------------
(* The next word of the burst is the next word of the line.                *)
LEMMA NextBeat ==
  ASSUME NEW a \in IC!WordAddr, NEW n \in 0 .. Words - 2
  PROVE  [a EXCEPT !.sel = MM!WrapSel(@, n + 1)]
           = [[a EXCEPT !.sel = MM!WrapSel(@, n)] EXCEPT !.sel = IC!NextSel(@)]
<1>1. a.sel \in 0 .. Words - 1
  BY DEF IC!WordAddr, IC!Sel
<1>2. MM!WrapSel(a.sel, n + 1) = IC!NextSel(MM!WrapSel(a.sel, n))
  BY <1>1, FetchAssumption DEF MM!WrapSel, IC!NextSel
<1> QED  BY <1>2 DEF IC!WordAddr

(* A wrapping burst visits every word of the line.                         *)
LEMMA BurstCoversLine ==
  ASSUME NEW s \in IC!Sel, NEW t \in IC!Sel
  PROVE  \E n \in 0 .. Words - 1 : MM!WrapSel(s, n) = t
<1>1. s \in 0 .. Words - 1 /\ t \in 0 .. Words - 1 /\ Words \in Nat
  BY FetchAssumption DEF IC!Sel
<1>2. CASE t >= s
  <2>1. t - s \in 0 .. Words - 1 /\ MM!WrapSel(s, t - s) = t
    BY <1>1, <1>2 DEF MM!WrapSel
  <2> QED  BY <2>1
<1>3. CASE t < s
  <2>1. t + Words - s \in 0 .. Words - 1 /\ MM!WrapSel(s, t + Words - s) = t
    BY <1>1, <1>3 DEF MM!WrapSel
  <2> QED  BY <2>1
<1> QED  BY <1>1, <1>2, <1>3

LEMMA StepsKept ==
  ASSUME CoreOK, BurstOwned, BurstOwned', BeatsInStep, Tick
  PROVE  BeatsInStep'
<1> SUFFICES ASSUME state' = "REFILL_DATA"
             PROVE  /\ rdState' = "RD_ADDR" => rdAddr' = miss'
                    /\ rdState' = "RD_DATA" =>
                         /\ mrAddr' \in IC!WordAddr
                         /\ mrBeat' \in 0 .. Words - 1
                         /\ MM!BeatAddr' = miss'
                         /\ \A n \in 0 .. mrBeat' - 1 :
                              MM!WrapSel(mrAddr'.sel, n) \in rfValid'
  BY DEF BeatsInStep, MM!WrapSel
<1>1. AR!ReadClock(DcReq, DcAddr, IcReq, miss, MM!ArReady, MM!RValid, MM!RLast)
  BY DEF Tick
<1>2. MM!ReadClock(AR!ArValid, rdAddr, rdState = "RD_DATA")
  BY DEF Tick
<1>3. rdOwner' = "IC"
  BY DEF BurstOwned
<1>4. CASE state = "REFILL_REQ"
  <2>1. Grants /\ miss' = miss
    BY <1>4, CacheEdge
  <2>2. rdState' = "RD_ADDR" /\ rdAddr' = miss
    BY <1>1, <1>3, <2>1 DEF Grants, AR!Grants, AR!ReadClock, AR!Grant, AR!ReadIdle,
       AR!SendReadAddress, AR!ReceiveData, AR!Winner
  <2> QED  BY <2>1, <2>2
<1>5. CASE state = "REFILL_DATA" /\ rdState = "RD_ADDR"
  <2>1. rdAddr' = rdAddr /\ rdAddr = miss /\ rdState' \in {"RD_ADDR", "RD_DATA"}
    BY <1>1, <1>5 DEF BeatsInStep, AR!ReadClock, AR!Grant, AR!ReadIdle,
       AR!SendReadAddress, AR!ReceiveData
  <2>2. miss' = miss
    BY <1>5, CacheEdge DEF Beat, AR!Routes
  <2>3. mrAddr' = miss /\ mrBeat' = 0
    BY <1>2, <1>5, <2>1 DEF BurstOwned, MM!ReadClock, MM!AcceptRead,
       MM!ReadLatency, MM!SendBeat, AR!ArValid
  <2>4. miss \in IC!WordAddr
    BY DEF CoreOK
  <2>5. [miss EXCEPT !.sel = MM!WrapSel(@, 0)] = miss
    BY <2>4, FetchAssumption DEF MM!WrapSel, IC!WordAddr, IC!Sel
  <2>6. MM!BeatAddr' = miss'
    BY <2>2, <2>3, <2>5 DEF MM!BeatAddr, MM!WrapSel
  <2> QED  BY <2>1, <2>2, <2>3, <2>4, <2>6, FetchAssumption
<1>6. CASE state = "REFILL_DATA" /\ rdState = "RD_DATA"
  <2>1. /\ mrAddr \in IC!WordAddr /\ mrBeat \in 0 .. Words - 1
        /\ MM!BeatAddr = miss /\ rdOwner = "IC" /\ mrState # "RD_IDLE"
        /\ \A n \in 0 .. mrBeat - 1 : MM!WrapSel(mrAddr.sel, n) \in rfValid
    BY <1>6 DEF BeatsInStep, BurstOwned
  <2>2. Beat <=> MM!RValid
    BY <1>6, <2>1 DEF Beat, AR!Routes
  <2>3. rdState' # "RD_ADDR"
    BY <1>1, <1>6 DEF AR!ReadClock, AR!Grant, AR!ReadIdle,
       AR!SendReadAddress, AR!ReceiveData
  <2>4. mrAddr' = mrAddr /\ mrBeat' = IF MM!RValid THEN mrBeat + 1 ELSE mrBeat
    BY <1>2, <1>6, <2>1 DEF BurstOwned, MM!ReadClock, MM!AcceptRead,
       MM!ReadLatency, MM!SendBeat, MM!RValid
  <2>5. ~(Beat /\ MM!RLast)
    BY <1>6, CacheEdge DEF Ends
  <2>6. CASE ~MM!RValid
    <3>1. miss' = miss /\ rfValid' = rfValid
      BY <1>6, <2>2, <2>6, CacheEdge
    <3> QED  BY <2>1, <2>3, <2>4, <2>6, <3>1 DEF MM!BeatAddr, MM!WrapSel
  <2>7. CASE MM!RValid
    <3>1. mrBeat \in 0 .. Words - 2
      BY <2>1, <2>2, <2>5, <2>7, FetchAssumption DEF MM!RValid, MM!RLast
    <3>2. MM!BeatAddr' = [mrAddr EXCEPT !.sel = MM!WrapSel(@, mrBeat + 1)]
      BY <2>4, <2>7 DEF MM!BeatAddr, MM!WrapSel
    <3>3. /\ miss' = [[mrAddr EXCEPT !.sel = MM!WrapSel(@, mrBeat)]
                        EXCEPT !.sel = IC!NextSel(@)]
          /\ rfValid' = rfValid \cup {MM!WrapSel(mrAddr.sel, mrBeat)}
      <4>1. miss.sel = MM!WrapSel(mrAddr.sel, mrBeat)
        BY <2>1 DEF MM!BeatAddr, IC!WordAddr
      <4> QED  BY <1>6, <2>1, <2>2, <2>7, <4>1, CacheEdge DEF MM!BeatAddr
    <3>4. MM!BeatAddr' = miss'
      BY <2>1, <3>1, <3>2, <3>3, NextBeat
    <3>5. \A n \in 0 .. mrBeat' - 1 : MM!WrapSel(mrAddr'.sel, n) \in rfValid'
      <4>1. ASSUME NEW n \in 0 .. mrBeat
            PROVE  MM!WrapSel(mrAddr.sel, n) \in rfValid'
        <5>1. n \in 0 .. mrBeat - 1 \/ n = mrBeat
          BY <3>1
        <5> QED  BY <2>1, <3>3, <5>1
      <4>2. mrBeat' - 1 = mrBeat
        BY <2>4, <2>7, <3>1
      <4> QED  BY <2>4, <4>1, <4>2
    <3> QED  BY <2>1, <2>3, <2>4, <2>7, <3>1, <3>4, <3>5, FetchAssumption
  <2> QED  BY <2>6, <2>7
<1> QED  BY <1>4, <1>5, <1>6, CacheEdge DEF BurstOwned

LEMMA WholeKept ==
  ASSUME CoreOK, BurstOwned, BeatsInStep, LinesOK, Tick
  PROVE  RefillWhole'
<1> SUFFICES ASSUME state' = "REFILL_DONE" PROVE rfValid' = IC!Sel
  BY DEF RefillWhole, IC!Sel
<1>1. state = "REFILL_DATA" /\ Ends /\ rfValid' = rfValid \cup {miss.sel}
  BY CacheEdge DEF Ends
<1>2. rdState = "RD_DATA" /\ mrBeat = Words - 1
  BY <1>1 DEF Ends, Beat, AR!Routes, MM!RLast
<1>3. /\ mrAddr \in IC!WordAddr /\ MM!BeatAddr = miss
      /\ \A n \in 0 .. mrBeat - 1 : MM!WrapSel(mrAddr.sel, n) \in rfValid
  BY <1>1, <1>2 DEF BeatsInStep
<1>4. miss.sel = MM!WrapSel(mrAddr.sel, mrBeat)
  BY <1>3 DEF MM!BeatAddr, IC!WordAddr
<1>5. ASSUME NEW n \in 0 .. Words - 1
      PROVE  MM!WrapSel(mrAddr.sel, n) \in rfValid'
  <2>1. n \in 0 .. mrBeat - 1 \/ n = mrBeat
    BY <1>2, FetchAssumption
  <2> QED  BY <1>1, <1>3, <1>4, <2>1
<1>6. \A t \in IC!Sel : t \in rfValid'
  BY <1>3, <1>5, BurstCoversLine DEF IC!WordAddr
<1>7. miss.sel \in IC!Sel
  BY DEF CoreOK, IC!WordAddr
<1> QED  BY <1>1, <1>6, <1>7 DEF LinesOK

LEMMA LinesKept ==
  ASSUME IInv, Tick
  PROVE  LinesOK'
<1>1. IC!Clock(pc, IfReq, Redirecting, Grants, IcBeat)
  BY DEF Tick, Grants
<1>2. /\ miss \in IC!WordAddr /\ miss.sel \in IC!Sel /\ miss.tag \in Tag
      /\ miss.idx \in Set
  BY DEF IInv, CoreOK, IC!WordAddr
<1>3. CASE IC!Lookup(pc, IfReq)
  <2>1. cache' = cache /\ rfBuffer' = rfBuffer
        /\ (rfValid' = {} \/ (rfValid' = rfValid /\ miss' = miss))
    BY <1>3 DEF IC!Lookup
  <2> QED  BY <2>1 DEF IInv, LinesOK, LinesIntact, IC!LinesIntact
<1>4. CASE IC!AwaitGrant(Redirecting, Grants) \/ IC!AwaitBeat(Redirecting, IcBeat)
  BY <1>4 DEF IC!AwaitGrant, IC!AwaitBeat, IInv, LinesOK, LinesIntact,
     IC!LinesIntact
<1>5. CASE IC!TakeBeat(Redirecting, IcBeat)
  <2>1. /\ cache' = cache /\ state = "REFILL_DATA" /\ IcBeat.valid
        /\ rfBuffer' = [rfBuffer EXCEPT ![miss.sel] = IcBeat.data]
        /\ rfValid' = rfValid \cup {miss.sel}
        /\ miss' = [miss EXCEPT !.sel = IC!NextSel(@)]
    BY <1>5 DEF IC!TakeBeat
  <2>2. MM!BeatAddr = miss
    BY <2>1 DEF IcBeat, AR!Routes, IInv, BeatsInStep
  <2>3. IcBeat.data = miss
    BY <1>2, <2>2 DEF IcBeat, MM!RData
  <2>4. rfBuffer' \in [IC!Sel -> IC!WordAddr] /\ rfValid' \subseteq IC!Sel
    BY <1>2, <2>1, <2>3 DEF IInv, LinesOK
  <2>5. ASSUME NEW s \in rfValid' PROVE rfBuffer'[s] = [miss' EXCEPT !.sel = s]
    <3>1. [miss' EXCEPT !.sel = s] = [miss EXCEPT !.sel = s]
      BY <1>2, <2>1 DEF IC!WordAddr
    <3>2. CASE s = miss.sel
      BY <1>2, <2>1, <2>3, <3>1, <3>2 DEF IInv, LinesOK, IC!WordAddr
    <3>3. CASE s # miss.sel
      BY <2>1, <3>1, <3>3 DEF IInv, LinesOK, LinesIntact
    <3> QED  BY <3>2, <3>3
  <2> QED  BY <2>1, <2>4, <2>5 DEF IInv, LinesOK, LinesIntact, IC!LinesIntact
<1>6. CASE IC!FillLine(Redirecting)
  <2> DEFINE line == [valid |-> TRUE, tag |-> miss.tag, data |-> rfBuffer]
  <2>1. /\ state = "REFILL_DONE" /\ rfBuffer' = rfBuffer /\ rfValid' = {}
        /\ cache' = cache \/ cache' = [cache EXCEPT ![miss.idx] = line]
    BY <1>6 DEF IC!FillLine
  <2>2. line \in IC!Line
    BY <1>2 DEF IInv, LinesOK, IC!Line
  <2>3. ASSUME NEW s \in IC!Sel
        PROVE  line.data[s] = [tag |-> line.tag, idx |-> miss.idx, sel |-> s]
    <3>1. rfBuffer[s] = [miss EXCEPT !.sel = s]
      BY <2>1 DEF IInv, RefillWhole, LinesOK, LinesIntact
    <3> QED  BY <1>2, <3>1 DEF IC!WordAddr
  <2>4. cache' \in [Set -> IC!Line]
    BY <2>1, <2>2 DEF IInv, LinesOK
  <2>5. ASSUME NEW i \in Set, cache'[i].valid, NEW s \in IC!Sel
        PROVE  cache'[i].data[s] = [tag |-> cache'[i].tag, idx |-> i, sel |-> s]
    <3>1. cache'[i] = cache[i] \/ (i = miss.idx /\ cache'[i] = line)
      BY <2>1 DEF IInv, LinesOK
    <3>2. CASE cache'[i] = cache[i]
      BY <2>5, <3>2 DEF IInv, LinesOK, LinesIntact, IC!LinesIntact
    <3>3. CASE i = miss.idx /\ cache'[i] = line
      BY <2>3, <3>3
    <3> QED  BY <3>1, <3>2, <3>3
  <2> QED  BY <2>1, <2>4, <2>5 DEF IInv, LinesOK, LinesIntact, IC!LinesIntact, IC!Sel
<1> QED  BY <1>1, <1>3, <1>4, <1>5, <1>6 DEF IC!Clock

-----------------------------------------------------------------------------
LEMMA NextIInv == IInv /\ [Tick]_vars => IInv'
<1> SUFFICES ASSUME IInv, [Tick]_vars PROVE IInv'
  OBVIOUS
<1>1. CASE Tick
  <2>1. CoreOK' /\ BurstOwned'
    BY <1>1, CoreKept, BurstKept DEF IInv
  <2>2. BeatsInStep' /\ RefillWhole'
    BY <1>1, <2>1, StepsKept, WholeKept DEF IInv
  <2> QED  BY <1>1, <2>1, <2>2, LinesKept DEF IInv
<1>2. CASE UNCHANGED vars
  BY <1>2 DEF vars, coreVars, fuVars, icVars, busVars, IInv, CoreOK, BurstOwned,
     BeatsInStep, RefillWhole, LinesOK, LinesIntact, IC!LinesIntact,
     MM!BeatAddr, MM!WrapSel
<1> QED  BY <1>1, <1>2

(* For every cache, program, predictor and memory latency, redirects and   *)
(* refills of the data cache at any time included, a cached line holds the *)
(* instructions of its own addresses, and so does every word received of   *)
(* the line being refilled (icache.sv: rf_abandon, rf_word_sel).           *)
THEOREM InstructionsIntact == Spec => []LinesIntact
<1>1. IInv => LinesIntact
  BY DEF IInv, LinesOK
<1> QED  BY InitIInv, NextIInv, <1>1, PTL DEF Spec

-----------------------------------------------------------------------------
(* What IInv leaves of the types.                                          *)
RestOK ==
  /\ stall \in BOOLEAN /\ ignoreValid \in BOOLEAN /\ cwfConsumed \in BOOLEAN
  /\ abandon \in BOOLEAN
  /\ load \in {"IDLE", "REFILL_REQ", "REFILL_DATA", "REFILL_DONE"}
  /\ state \in {"IDLE", "REFILL_REQ", "REFILL_DATA", "REFILL_DONE"}
  /\ ifId \in FU!Slot
  /\ rdOwner \in AR!Port /\ rdAddr \in IC!WordAddr /\ mrAddr \in IC!WordAddr
  /\ mrBeat \in 0 .. Words
  /\ mrState # "RD_IDLE" => mrBeat < Words

LEMMA InitRestOK == Init => RestOK
<1> SUFFICES ASSUME Init PROVE RestOK
  OBVIOUS
<1>1. stall = FALSE /\ ignoreValid = FALSE /\ cwfConsumed = FALSE /\ abandon = FALSE
  BY DEF Init, FU!Init, IC!Init
<1>2. load = "IDLE" /\ state = "IDLE" /\ ifId = FU!Nop /\ rdOwner = "IC"
  BY DEF Init, FU!Init, IC!Init
<1>3. rdAddr = ResetPc /\ mrAddr = ResetPc /\ mrBeat = 0 /\ mrState = "RD_IDLE"
  BY DEF Init
<1>4. ResetPc \in IC!WordAddr /\ 0 \in 0 .. Words
  BY FetchAssumption
<1> QED  BY <1>1, <1>2, <1>3, <1>4 DEF RestOK, FU!Slot, AR!Port

(* What the cache answers is the instruction asked for.                    *)
LEMMA AnswerRight ==
  ASSUME IInv, IcValid
  PROVE  IC!Instr(pc) = pc
<1>1. /\ pc \in IC!WordAddr /\ pc.sel \in IC!Sel /\ pc.idx \in Set
      /\ miss \in IC!WordAddr
      /\ pc = [tag |-> pc.tag, idx |-> pc.idx, sel |-> pc.sel]
  BY DEF IInv, CoreOK, IC!WordAddr
<1>2. CASE state = "IDLE" /\ IC!Hit(pc)
  <2>1. cache[pc.idx].data[pc.sel]
          = [tag |-> cache[pc.idx].tag, idx |-> pc.idx, sel |-> pc.sel]
    BY <1>1, <1>2 DEF IInv, LinesOK, LinesIntact, IC!LinesIntact, IC!Hit
  <2> QED  BY <1>1, <1>2, <2>1 DEF IC!Instr, IC!Hit
<1>3. CASE state # "IDLE" /\ IC!InLine(pc) /\ pc.sel \in rfValid
  <2>1. rfBuffer[pc.sel] = [miss EXCEPT !.sel = pc.sel]
    BY <1>3 DEF IInv, LinesOK, LinesIntact
  <2>2. [miss EXCEPT !.sel = pc.sel] = pc
    BY <1>1, <1>3 DEF IC!InLine, IC!WordAddr
  <2> QED  BY <1>3, <2>1, <2>2 DEF IC!Instr
<1>4. state = "REFILL_DONE" => pc.sel \in rfValid
  BY <1>1 DEF IInv, RefillWhole
<1> QED  BY <1>2, <1>3, <1>4 DEF IcValid, IC!Valid, IC!RfHit

LEMMA RestKept ==
  ASSUME IInv, RestOK, Tick
  PROVE  RestOK'
<1>1. AR!ReadClock(DcReq, DcAddr, IcReq, miss, MM!ArReady, MM!RValid, MM!RLast)
  BY DEF Tick
<1>2. MM!ReadClock(AR!ArValid, rdAddr, rdState = "RD_DATA")
  BY DEF Tick
<1>3. rdOwner' \in AR!Port /\ rdAddr' \in IC!WordAddr
  BY <1>1, FetchAssumption DEF RestOK, IInv, CoreOK, AR!ReadClock, AR!Grant,
     AR!ReadIdle, AR!rdVars, AR!SendReadAddress, AR!ReceiveData, AR!Port,
     AR!Winner, DcAddr
<1>4. /\ mrAddr' \in IC!WordAddr /\ mrBeat' \in 0 .. Words
      /\ mrState' # "RD_IDLE" => mrBeat' < Words
  <2>1. Words \in Nat /\ Words > 0
    BY FetchAssumption
  <2>2. mrState \in {"RD_IDLE", "RD_WAIT", "RD_DATA"}
        /\ (mrState # "RD_IDLE" => rdState = "RD_DATA")
    BY DEF IInv, BurstOwned
  <2>3. CASE MM!AcceptRead(AR!ArValid, rdAddr)
    BY <2>1, <2>3 DEF MM!AcceptRead, MM!mrVars, RestOK
  <2>4. CASE MM!ReadLatency
    BY <2>1, <2>4 DEF MM!ReadLatency, RestOK
  <2>5. CASE MM!SendBeat(rdState = "RD_DATA")
    <3>1. mrBeat' = mrBeat + 1 /\ mrBeat < Words /\ mrAddr' = mrAddr
      BY <2>2, <2>5 DEF MM!SendBeat, RestOK
    <3>2. mrState' # "RD_IDLE" => mrBeat # Words - 1
      BY <2>2, <2>5 DEF MM!SendBeat, MM!RLast
    <3> QED  BY <2>1, <3>1, <3>2 DEF RestOK
  <2> QED  BY <1>2, <2>3, <2>4, <2>5 DEF MM!ReadClock
<1>5. stall' \in BOOLEAN /\ ignoreValid' \in BOOLEAN /\ cwfConsumed' \in BOOLEAN
  BY DEF Tick, CoreClock, FU!Clock, RestOK, FU!ConsumesCritical, IcValid, IC!Valid,
     IC!Ready
<1>6. load' \in {"IDLE", "REFILL_REQ", "REFILL_DATA", "REFILL_DONE"}
  BY DEF Tick, LoadClock
<1>7. /\ abandon' \in BOOLEAN
      /\ state' \in {"IDLE", "REFILL_REQ", "REFILL_DATA", "REFILL_DONE"}
  BY DEF Tick, RestOK, IC!Clock, IC!Lookup, IC!AwaitGrant, IC!TakeBeat, IC!AwaitBeat,
     IC!FillLine, IC!NoteRedirect, Redirecting
<1>8. ifId' \in FU!Slot
  <2>1. pc \in IC!WordAddr /\ predict[pc] \in IC!WordAddr
    BY FetchAssumption DEF IInv, CoreOK
  <2>2. IcValid => IC!Instr(pc) \in IC!WordAddr
    BY <2>1, AnswerRight
  <2>3. ifId' = FU!Nop \/ ifId' = ifId \/
        (IcValid /\ ifId' = [kind |-> "instr", pc |-> pc, instr |-> IC!Instr(pc),
                            next |-> predict[pc]])
    BY DEF Tick, FU!Clock, FU!Flush
  <2> QED  BY <2>1, <2>2, <2>3 DEF RestOK, FU!Slot
<1> QED  BY <1>3, <1>4, <1>5, <1>6, <1>7, <1>8 DEF RestOK

TypedInv == IInv /\ RestOK

LEMMA NextTypedInv == TypedInv /\ [Tick]_vars => TypedInv'
<1> SUFFICES ASSUME TypedInv, [Tick]_vars PROVE TypedInv'
  OBVIOUS
<1>1. IInv'
  BY NextIInv DEF TypedInv
<1>2. CASE Tick
  BY <1>1, <1>2, RestKept DEF TypedInv
<1>3. CASE UNCHANGED vars
  BY <1>1, <1>3 DEF vars, coreVars, fuVars, icVars, busVars, TypedInv, RestOK
<1> QED  BY <1>2, <1>3

(* Every register of fetch unit, cache, arbiter and memory keeps its type, *)
(* and the beat counter of the memory stays within a line.                 *)
THEOREM RegistersTyped == Spec => []TypeOK
<1>1. Init => TypedInv
  BY InitIInv, InitRestOK DEF TypedInv
<1>2. TypedInv => TypeOK
  BY DEF TypedInv, IInv, RestOK, CoreOK, BurstOwned, LinesOK, TypeOK, FU!TypeOK, IC!TypeOK
<1> QED  BY <1>1, <1>2, NextTypedInv, PTL DEF Spec

-----------------------------------------------------------------------------
(* Once its critical word was handed over, an instruction waits for the    *)
(* end of a refill of its own line that nobody abandoned.                  *)
HandedOver ==
  cwfConsumed =>
    /\ state \in {"REFILL_DATA", "REFILL_DONE"}
    /\ ~abandon /\ ~ignoreValid /\ IC!InLine(pc)
    /\ state = "REFILL_DONE" => ~stall

(* Right after a redirect no refill is answered from.                      *)
AbandonedInTime == ignoreValid /\ state # "IDLE" => abandon

StreamInv == TypedInv /\ HandedOver /\ AbandonedInTime

LEMMA InitStreamInv == Init => StreamInv
BY InitIInv, InitRestOK
   DEF StreamInv, TypedInv, HandedOver, AbandonedInTime, Init, FU!Init, IC!Init

(* What the cache does with its flag and with the line of the refill.      *)
LEMMA RefillEdge ==
  ASSUME Tick
  PROVE  /\ state = "REFILL_DATA" =>
              /\ state' \in {"REFILL_DATA", "REFILL_DONE"}
              /\ abandon' = (abandon \/ Redirecting)
              /\ miss' = miss \/ miss' = [miss EXCEPT !.sel = IC!NextSel(@)]
         /\ Redirecting /\ state' # "IDLE" => abandon'
BY DEF Tick, IC!Clock, IC!Lookup, IC!AwaitGrant, IC!TakeBeat, IC!AwaitBeat, IC!FillLine,
   IC!NoteRedirect, IfReq, FU!IfReq, Redirecting

LEMMA HandedOverKept ==
  ASSUME StreamInv, Tick, CalmRefill
  PROVE  HandedOver'
<1> SUFFICES ASSUME cwfConsumed' PROVE /\ state' \in {"REFILL_DATA", "REFILL_DONE"}
                                       /\ ~abandon' /\ ~ignoreValid' /\ IC!InLine(pc)'
                                       /\ state' = "REFILL_DONE" => ~stall'
  BY DEF HandedOver
<1>1. /\ ~IC!Ready /\ ~Redirecting
      /\ cwfConsumed \/ FU!ConsumesCritical(IcValid, IC!Ready, stall)
  BY DEF Tick, FU!Clock, Redirecting
<1>2. state = "REFILL_DATA" /\ ~abandon /\ IC!InLine(pc)
  BY <1>1 DEF StreamInv, HandedOver, IC!Ready, FU!ConsumesCritical, IcValid, IC!Valid,
     IC!RfHit
<1>3. pc' = pc /\ ignoreValid' = FALSE
  BY <1>1 DEF Tick, FU!Clock, FU!Advances, Redirecting
<1>4. miss'.idx = miss.idx /\ miss'.tag = miss.tag
  BY <1>2, RefillEdge DEF StreamInv, TypedInv, IInv, CoreOK, IC!WordAddr
<1>5. state' = "REFILL_DONE" => ~stall'
  BY DEF Tick, CoreClock
<1> QED  BY <1>1, <1>2, <1>3, <1>4, <1>5, RefillEdge DEF IC!InLine

LEMMA NextStreamInv ==
  ASSUME CalmRefill
  PROVE  StreamInv /\ [Tick]_vars => StreamInv'
<1> SUFFICES ASSUME StreamInv, [Tick]_vars PROVE StreamInv'
  OBVIOUS
<1>1. TypedInv'
  BY NextTypedInv DEF StreamInv
<1>2. CASE Tick
  <2>1. AbandonedInTime'
    BY <1>2, RefillEdge DEF Tick, FU!Clock, Redirecting, AbandonedInTime
  <2> QED  BY <1>1, <1>2, <2>1, HandedOverKept DEF StreamInv
<1>3. CASE UNCHANGED vars
  BY <1>1, <1>3 DEF vars, coreVars, fuVars, icVars, busVars, StreamInv, HandedOver,
     AbandonedInTime, IC!InLine
<1> QED  BY <1>2, <1>3

-----------------------------------------------------------------------------
(* The step of the stream that a clock edge is: a redirect starts it       *)
(* again; a stall waits; else the decoder gets an instruction, from a line *)
(* or as the critical word of its refill, or a bubble.                     *)
LEMMA EdgeRefines ==
  ASSUME StreamInv, Tick, CalmRefill
  PROVE  Stream!Next
<1> DEFINE next == IF cwfConsumed THEN predict[pc] ELSE pc
<1>1. /\ pc \in IC!WordAddr /\ predict \in Predictions /\ predict[pc] \in IC!WordAddr
      /\ redirect \in FU!Redirect
  BY FetchAssumption DEF StreamInv, TypedInv, IInv, CoreOK
<1>2. FU!Clock(IC!Instr(pc), IcValid, IC!Ready, stall, redirect, predict[pc])
  BY DEF Tick
<1>3. cwfConsumed' => predict' = predict
  BY DEF Tick, CoreClock
<1>4. cwfConsumed \in BOOLEAN /\ ignoreValid \in BOOLEAN /\ stall \in BOOLEAN
  BY DEF StreamInv, TypedInv, RestOK
<1>5. CASE Redirecting
  <2>1. redirect.to \in IC!WordAddr
    BY <1>1, <1>5 DEF Redirecting, FU!Redirect, FU!NoRedirect
  <2>2. Stream!Restart(redirect.to)
    BY <1>2, <1>5 DEF Stream!Restart, Redirecting, FU!Clock, FU!Flush, FU!Nop, Stream!Nop
  <2> QED  BY <2>1, <2>2 DEF Stream!Next
<1>6. CASE ~Redirecting /\ stall
  <2>1. pc' = pc /\ ifId' = ifId /\ ignoreValid' = FALSE
    BY <1>2, <1>6 DEF Redirecting, FU!Clock, FU!Flush, FU!Advances
  <2>2. cwfConsumed' = cwfConsumed
    BY <1>2, <1>4, <1>6 DEF Redirecting, FU!Clock, FU!ConsumesCritical, IC!Ready,
       StreamInv, HandedOver
  <2> QED  BY <1>3, <2>1, <2>2 DEF Stream!Next, Stream!Wait
<1>7. CASE ~Redirecting /\ ~stall /\ cwfConsumed
  <2>1. ifId' = Stream!Nop /\ ignoreValid' = FALSE
    BY <1>2, <1>7 DEF Redirecting, FU!Clock, FU!Flush, FU!Nop, Stream!Nop
  <2>2. CASE state = "REFILL_DATA"
    <3>1. pc' = pc /\ cwfConsumed'
      BY <1>2, <1>7, <2>2 DEF Redirecting, FU!Clock, FU!Advances, IC!Ready
    <3> QED  BY <1>3, <1>7, <2>1, <3>1 DEF Stream!Next, Stream!Bubble
  <2>3. CASE state = "REFILL_DONE"
    <3>1. IcValid /\ IC!Ready /\ ~ignoreValid
      BY <1>7, <2>3 DEF StreamInv, HandedOver, IcValid, IC!Valid, IC!Squash, IC!Ready
    <3>2. pc' = predict[pc] /\ ~cwfConsumed'
      BY <1>2, <1>7, <3>1 DEF Redirecting, FU!Clock, FU!Advances
    <3> QED  BY <1>7, <2>1, <3>2 DEF Stream!Next, Stream!Bubble
  <2> QED  BY <1>7, <2>2, <2>3 DEF StreamInv, HandedOver
<1>8. CASE ~Redirecting /\ ~stall /\ ~cwfConsumed /\ (~IcValid \/ ignoreValid)
  <2>1. ifId' = Stream!Nop /\ ignoreValid' = FALSE /\ pc' = pc
    BY <1>2, <1>8 DEF Redirecting, FU!Clock, FU!Flush, FU!Advances, FU!Nop, Stream!Nop
  <2>2. ~(IcValid /\ ~IC!Ready)
    BY <1>8 DEF StreamInv, AbandonedInTime, IcValid, IC!Valid, IC!Ready
  <2>3. ~cwfConsumed'
    BY <1>2, <1>8, <2>2 DEF FU!Clock, FU!ConsumesCritical
  <2> QED  BY <1>8, <2>1, <2>3 DEF Stream!Next, Stream!Bubble
<1>9. CASE ~Redirecting /\ ~stall /\ ~cwfConsumed /\ IcValid /\ ~ignoreValid
  <2>1. IC!Instr(pc) = pc
    BY <1>9, AnswerRight DEF StreamInv, TypedInv
  <2>2. /\ ifId' = [kind |-> "instr", pc |-> pc, instr |-> pc, next |-> predict[pc]]
        /\ ignoreValid' = FALSE
    BY <1>2, <1>9, <2>1 DEF Redirecting, FU!Clock, FU!Flush
  <2>3. CASE IC!Ready
    <3>1. pc' = predict[pc] /\ ~cwfConsumed'
      BY <1>2, <1>9, <2>3 DEF Redirecting, FU!Clock, FU!Advances
    <3>2. Stream!Deliver(predict[pc])
      BY <1>9, <2>2, <3>1 DEF Stream!Deliver
    <3> QED  BY <1>1, <3>2 DEF Stream!Next
  <2>4. CASE ~IC!Ready
    <3>1. pc' = pc /\ cwfConsumed'
      BY <1>2, <1>9, <2>4 DEF Redirecting, FU!Clock, FU!Advances, FU!ConsumesCritical
    <3>2. Stream!Deliver(predict[pc])
      BY <1>3, <1>9, <2>2, <3>1 DEF Stream!Deliver
    <3> QED  BY <1>1, <3>2 DEF Stream!Next
  <2> QED  BY <2>3, <2>4
<1> QED  BY <1>4, <1>5, <1>6, <1>7, <1>8, <1>9

(* If the core never stalls in the cycle in which a refill ends after its  *)
(* critical word, the decoder gets the instructions of the predicted path  *)
(* one by one, none twice and none skipped, for every cache, predictor,    *)
(* latency, and stalls, redirects and data-cache refills at any time       *)
(* (fcu.sv: pc_reg, ignore_valid, cwf_consumed; icache.sv: instr_valid).   *)
THEOREM FetchImplementsStream ==
  ASSUME CalmRefill
  PROVE  Spec => ImplementsStream
<1>1. Init => Stream!Init
  BY DEF Init, FU!Init, Stream!Init, FU!Nop, Stream!Nop
<1>2. StreamInv /\ [Tick]_vars
        => [Stream!Next]_<<IF cwfConsumed THEN predict[pc] ELSE pc, ifId, ignoreValid>>
  <2>1. StreamInv /\ Tick => Stream!Next
    BY EdgeRefines
  <2>2. UNCHANGED vars
          => UNCHANGED <<IF cwfConsumed THEN predict[pc] ELSE pc, ifId, ignoreValid>>
    BY DEF vars, coreVars, fuVars
  <2> QED  BY <2>1, <2>2
<1> QED
  BY InitStreamInv, NextStreamInv, <1>1, <1>2, PTL DEF Spec, ImplementsStream, Stream!Spec

(* Under the same restriction the critical word of a refill enters the     *)
(* decoder once: the fetch unit forgets that it handed the instruction     *)
(* over only in the edge that moves the program counter past it (fcu.sv:   *)
(* cwf_consumed, pc_reg).  Without the restriction the code does forget it *)
(* earlier: MCFetchTwice shows the instruction entering twice.             *)
THEOREM CriticalWordNotRepeated ==
  ASSUME CalmRefill
  PROVE  Spec => CriticalWordOnce
<1>1. StreamInv /\ [Tick]_vars
        => [cwfConsumed /\ ~Redirecting /\ ~cwfConsumed' => pc' = predict[pc]]_vars
  <2> SUFFICES ASSUME StreamInv, Tick, cwfConsumed, ~Redirecting, ~cwfConsumed'
               PROVE  pc' = predict[pc]
    OBVIOUS
  <2>1. FU!Clock(IC!Instr(pc), IcValid, IC!Ready, stall, redirect, predict[pc])
    BY DEF Tick
  <2>2. /\ state \in {"REFILL_DATA", "REFILL_DONE"} /\ ~abandon /\ ~ignoreValid
        /\ IC!InLine(pc) /\ (state = "REFILL_DONE" => ~stall)
    BY DEF StreamInv, HandedOver
  <2>3. IC!Ready
    BY <2>1 DEF FU!Clock, Redirecting
  <2>4. state = "REFILL_DONE"
    BY <2>2, <2>3 DEF IC!Ready
  <2>5. IcValid
    BY <2>2, <2>4 DEF IcValid, IC!Valid, IC!Squash
  <2>6. FU!Advances(IcValid, IC!Ready, stall)
    BY <2>2, <2>3, <2>4, <2>5 DEF FU!Advances
  <2> QED  BY <2>1, <2>6 DEF FU!Clock, Redirecting
<1> QED  BY InitStreamInv, NextStreamInv, <1>1, PTL DEF Spec, CriticalWordOnce
=============================================================================
