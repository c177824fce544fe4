------------------------------- MODULE ICache -------------------------------
(***************************************************************************)
(* rtl/cpu/cache/icache.sv: the direct-mapped instruction cache.  A miss   *)
(* refills a line, critical word first; a redirect of the core in the      *)
(* middle of a refill abandons it: the burst is received to its end and    *)
(* thrown away.                                                            *)
(*                                                                         *)
(* Instruction memory is never written here, so an instruction is stood    *)
(* for by the address it is stored at.                                     *)
(*                                                                         *)
(* Inputs: pc and ifReq from the fetch unit, flush (flush_refill) from the *)
(* core, grant and beat from the bus arbiter.                              *)
(***************************************************************************)
EXTENDS Naturals

CONSTANTS
  Tag,     (* address tags    *)
  Set,     (* IC_SETS         *)
  Words    (* WORDS_PER_LINE  *)

VARIABLES
  state,     (* the refill state machine                           *)
  cache,     (* cache_valid, cache_tag, cache_data of every set    *)
  miss,      (* rf_tag, rf_idx, rf_word_sel                        *)
  rfBuffer,  (* rf_buffer                                          *)
  rfValid,   (* rf_valid: the words of rf_buffer received so far   *)
  abandon    (* rf_abandon: a redirect came during this refill     *)

icVars == <<state, cache, miss, rfBuffer, rfValid, abandon>>

Sel      == 0 .. Words - 1
WordAddr == [tag : Tag, idx : Set, sel : Sel]
Line     == [valid : BOOLEAN, tag : Tag, data : [Sel -> WordAddr]]

Init ==
  /\ state = "IDLE"
  /\ cache = [i \in Set |-> [CHOOSE l \in Line : TRUE EXCEPT !.valid = FALSE]]
  /\ miss = CHOOSE a \in WordAddr : TRUE
  /\ rfBuffer = CHOOSE d \in [Sel -> WordAddr] : TRUE
  /\ rfValid = {}
  /\ abandon = FALSE

-----------------------------------------------------------------------------
(* Outputs.                                                                *)

Hit(pc)    == cache[pc.idx].valid /\ cache[pc.idx].tag = pc.tag
InLine(pc) == miss.idx = pc.idx /\ miss.tag = pc.tag
RfHit(pc)  == pc.sel \in rfValid /\ InLine(pc)

Squash(flush) == abandon \/ flush

(* Fault: critical words are forwarded during an abandoned refill too. *)
ValidAbandoned(pc, ifReq, flush) ==
  \/ state = "IDLE" /\ ifReq /\ Hit(pc)
  \/ state = "REFILL_DATA" /\ RfHit(pc)
  \/ state = "REFILL_DONE" /\ ~Squash(flush) /\ InLine(pc)

Valid(pc, ifReq, flush) ==
  \/ state = "IDLE" /\ ifReq /\ Hit(pc)
  \/ state = "REFILL_DATA" /\ RfHit(pc) /\ ~abandon
  \/ state = "REFILL_DONE" /\ ~Squash(flush) /\ InLine(pc)

Ready == state \in {"IDLE", "REFILL_DONE"}

(* instr, where Valid. *)
Instr(pc) == IF state = "IDLE" THEN cache[pc.idx].data[pc.sel] ELSE rfBuffer[pc.sel]

RefillReq == state = "REFILL_REQ"

-----------------------------------------------------------------------------
(* Clock edges.                                                            *)

(* rf_abandon while a refill is under way. *)
NoteRedirect(flush) == abandon' = (abandon \/ flush)

Lookup(pc, ifReq) ==
  /\ state = "IDLE"
  /\ abandon' = FALSE
  /\ IF ifReq /\ ~Hit(pc)
     THEN state' = "REFILL_REQ" /\ miss' = pc /\ rfValid' = {}
     ELSE UNCHANGED <<state, miss, rfValid>>
  /\ UNCHANGED <<cache, rfBuffer>>

AwaitGrant(flush, grant) ==
  /\ state = "REFILL_REQ"
  /\ state' = IF grant THEN "REFILL_DATA" ELSE state
  /\ NoteRedirect(flush)
  /\ UNCHANGED <<cache, miss, rfBuffer, rfValid>>

(* Fault: the word counter of the line starts over at every beat. *)
NextSelZero(s) == 0
NextSel(s) == IF s = Words - 1 THEN 0 ELSE s + 1

TakeBeat(flush, beat) ==
  /\ state = "REFILL_DATA" /\ beat.valid
  /\ state' = IF beat.last THEN "REFILL_DONE" ELSE state
  /\ rfBuffer' = [rfBuffer EXCEPT ![miss.sel] = beat.data]
  /\ rfValid' = rfValid \cup {miss.sel}
  /\ miss' = [miss EXCEPT !.sel = NextSel(@)]
  /\ NoteRedirect(flush)
  /\ UNCHANGED cache

AwaitBeat(flush, beat) ==
  /\ state = "REFILL_DATA" /\ ~beat.valid
  /\ NoteRedirect(flush)
  /\ UNCHANGED <<state, cache, miss, rfBuffer, rfValid>>

FillLine(flush) ==
  /\ state = "REFILL_DONE"
  /\ state' = "IDLE"
  /\ cache' = IF Squash(flush) THEN cache
              ELSE [cache EXCEPT ![miss.idx] =
                      [valid |-> TRUE, tag |-> miss.tag, data |-> rfBuffer]]
  /\ rfValid' = {}
  /\ NoteRedirect(flush)
  /\ UNCHANGED <<miss, rfBuffer>>

Clock(pc, ifReq, flush, grant, beat) ==
  \/ Lookup(pc, ifReq)
  \/ AwaitGrant(flush, grant)
  \/ TakeBeat(flush, beat)
  \/ AwaitBeat(flush, beat)
  \/ FillLine(flush)

-----------------------------------------------------------------------------
TypeOK ==
  /\ state \in {"IDLE", "REFILL_REQ", "REFILL_DATA", "REFILL_DONE"}
  /\ cache \in [Set -> Line]
  /\ miss \in WordAddr
  /\ rfBuffer \in [Sel -> WordAddr]
  /\ rfValid \subseteq Sel
  /\ abandon \in BOOLEAN

(* A valid line holds the instructions of its own addresses, in order,     *)
(* whatever redirects arrived while it was being refilled.                 *)
LinesIntact ==
  \A i \in Set : cache[i].valid =>
    \A s \in Sel : cache[i].data[s] = [tag |-> cache[i].tag, idx |-> i, sel |-> s]
=============================================================================
