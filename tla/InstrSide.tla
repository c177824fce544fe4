------------------------------ MODULE InstrSide -----------------------------
(***************************************************************************)
(* The instruction side: the fetch unit with the IF/ID register, the       *)
(* instruction cache, and the read channel of the bus arbiter and of the   *)
(* memory.  The rest of the core appears by its wires: it stalls the front *)
(* end in any cycle, redirects it to any address, and trains the           *)
(* predictor.  The data cache is reduced to its use of the read channel.   *)
(***************************************************************************)
EXTENDS Naturals

CONSTANTS
  Tag, Set, Words,
  ResetPc,      (* PC_RESET_VEC                                            *)
  Predictions,  (* the states of the predictor: where each address goes to *)
  Targets,      (* the addresses redirects go to                           *)
  CalmRefill    (* TRUE: the core never stalls in the cycle a refill ends  *)
                (* after its critical word was handed over                 *)

VARIABLES
  stall, redirect,  (* from the core: the front end is stalled; mispredict_r *)
  predict,          (* the predictor                                         *)
  load,             (* refill state of the data cache                        *)
  pc, ignoreValid, cwfConsumed, ifId,                (* FetchUnit  *)
  state, cache, miss, rfBuffer, rfValid, abandon,    (* ICache     *)
  rdState, rdOwner, rdAddr,                          (* BusArbiter *)
  mrState, mrAddr, mrBeat                            (* AxiMemory  *)

coreVars == <<stall, redirect, predict, load>>
fuVars   == <<pc, ignoreValid, cwfConsumed, ifId>>
icVars   == <<state, cache, miss, rfBuffer, rfValid, abandon>>
busVars  == <<rdState, rdOwner, rdAddr, mrState, mrAddr, mrBeat>>
vars     == <<coreVars, fuVars, icVars, busVars>>

IC == INSTANCE ICache
FU == INSTANCE FetchUnit WITH WordAddr <- IC!WordAddr
AR == INSTANCE BusArbiter
        WITH Addr <- IC!WordAddr, Store <- {}, wrState <- "WR_IDLE", wrStore <- {}
(* An instruction is the address it is stored at.                          *)
MM == INSTANCE AxiMemory
        WITH mem <- [a \in IC!WordAddr |-> a], Lane <- {}, Byte <- {},
             mwState <- "WR_IDLE", mwAddr <- ResetPc

ASSUME FetchAssumption ==
  /\ Words \in Nat \ {0} /\ Tag # {} /\ Set # {}
  /\ ResetPc \in IC!WordAddr
  /\ Targets \subseteq IC!WordAddr
  /\ Predictions \subseteq [IC!WordAddr -> IC!WordAddr] /\ Predictions # {}

Init ==
  /\ stall = FALSE
  /\ redirect = FU!NoRedirect
  /\ predict \in Predictions
  /\ load = "IDLE"
  /\ FU!Init
  /\ IC!Init
  /\ rdState = "RD_IDLE" /\ rdOwner = "IC" /\ rdAddr = ResetPc
  /\ mrState = "RD_IDLE" /\ mrAddr = ResetPc /\ mrBeat = 0

-----------------------------------------------------------------------------
(* Wires.                                                                  *)
Redirecting == redirect # FU!NoRedirect

IfReq   == FU!IfReq(stall, redirect)
IcValid == IC!Valid(pc, IfReq, Redirecting)
IcReq   == IC!RefillReq
IcBeat  == [valid |-> AR!Routes("IC", MM!RValid), last |-> MM!RLast, data |-> MM!RData]

DcReq  == load = "REFILL_REQ"
DcAddr == ResetPc   \* what the data cache reads does not matter here

-----------------------------------------------------------------------------
(* The core.  mispredict_r never lasts two cycles.  Training the predictor *)
(* may change a prediction in any cycle, for branches share its table; but *)
(* while an instruction waits for the end of its refill, handed over       *)
(* already, only by a branch that was mispredicted or one on its wrong     *)
(* path: older ones have left EX.  What such a branch changes is not       *)
(* looked at before the redirect.                                          *)
CoreClock ==
  /\ redirect' \in IF Redirecting THEN {FU!NoRedirect}
                   ELSE {FU!NoRedirect} \cup [kind : {"redirect"}, to : Targets]
  /\ predict' \in IF cwfConsumed' THEN {predict} ELSE Predictions
  /\ stall' \in BOOLEAN
  /\ CalmRefill /\ state' = "REFILL_DONE" /\ cwfConsumed' => ~stall'

LoadClock ==
  \/ /\ load = "IDLE"
     /\ load' \in {"IDLE", "REFILL_REQ"}
  \/ /\ load = "REFILL_REQ"
     /\ load' = IF AR!Grants("DC", DcReq, IcReq) THEN "REFILL_DATA" ELSE load
  \/ /\ load = "REFILL_DATA"
     /\ load' = IF AR!Routes("DC", MM!RValid) /\ MM!RLast THEN "REFILL_DONE" ELSE load
  \/ /\ load = "REFILL_DONE"
     /\ load' = "IDLE"

Tick ==
  /\ FU!Clock(IC!Instr(pc), IcValid, IC!Ready, stall, redirect, predict[pc])
  /\ IC!Clock(pc, IfReq, Redirecting, AR!Grants("IC", DcReq, IcReq), IcBeat)
  /\ AR!ReadClock(DcReq, DcAddr, IcReq, miss, MM!ArReady, MM!RValid, MM!RLast)
  /\ MM!ReadClock(AR!ArValid, rdAddr, rdState = "RD_DATA")
  /\ LoadClock
  /\ CoreClock

Spec == Init /\ [][Tick]_vars

(* The clock runs and the memory's latency counter comes to its end.       *)
FairSpec == Spec /\ WF_vars(Tick) /\ []<>(mrState # "RD_WAIT")

-----------------------------------------------------------------------------
TypeOK ==
  /\ stall \in BOOLEAN
  /\ redirect \in FU!Redirect
  /\ predict \in Predictions
  /\ load \in {"IDLE", "REFILL_REQ", "REFILL_DATA", "REFILL_DONE"}
  /\ FU!TypeOK /\ IC!TypeOK
  /\ rdState \in {"RD_IDLE", "RD_ADDR", "RD_DATA"} /\ rdOwner \in AR!Port
  /\ rdAddr \in IC!WordAddr
  /\ mrState \in {"RD_IDLE", "RD_WAIT", "RD_DATA"} /\ mrAddr \in IC!WordAddr
  /\ mrBeat \in 0 .. Words

(* Every cached line, and every word received of the one being refilled,   *)
(* is what memory holds there, whatever redirects and refills of the data  *)
(* cache came in between.                                                  *)
LinesIntact ==
  /\ IC!LinesIntact
  /\ \A s \in rfValid : rfBuffer[s] = [miss EXCEPT !.sel = s]

(* The decoder gets the instructions of the predicted path one by one,     *)
(* none twice and none skipped: through hits, critical words handed over   *)
(* before their line is complete, stalls, and redirects at any time.       *)
Stream == INSTANCE FetchStream
            WITH WordAddr <- IC!WordAddr, slot <- ifId, redirected <- ignoreValid,
                 next <- IF cwfConsumed THEN predict[pc] ELSE pc
ImplementsStream == Stream!Spec

(* The critical word of a refill enters the decoder once: it is forgotten   *)
(* as handed over only when the program counter leaves it.                  *)
CriticalWordOnce ==
  [][cwfConsumed /\ ~Redirecting /\ ~cwfConsumed' => pc' = predict[pc]]_vars

-----------------------------------------------------------------------------
(* Fetching goes on: if from some time on the core neither stalls nor      *)
(* redirects, instructions are handed over for ever, although the data     *)
(* cache goes first on the bus and a refill may have been abandoned.       *)
Delivers == ~stall /\ IcValid /\ ~cwfConsumed /\ ~ignoreValid
FetchGoesOn == <>[](~stall /\ ~Redirecting) => []<>Delivers
=============================================================================
