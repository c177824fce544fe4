----------------------------- MODULE StoreQueue -----------------------------
(***************************************************************************)
(* What the write buffer promises: a bounded first-in first-out queue of   *)
(* accepted stores.  A store enters at the back, the oldest one leaves at  *)
(* the front, and a load that looks into the queue sees, byte lane by byte *)
(* lane, the youngest store that wrote that lane of that word.             *)
(***************************************************************************)
EXTENDS Naturals, Sequences

CONSTANTS
  Depth,   (* number of stores the queue can hold           *)
  Addr,    (* word addresses                                *)
  Lane,    (* byte lanes of a word                          *)
  Byte     (* values of one byte                            *)

VARIABLE queue   (* accepted stores not yet retired, oldest first *)

(* The load-store unit strobes at least one lane for every legal store.     *)
Store == [addr : Addr, data : [Lane -> Byte], strb : (SUBSET Lane) \ {{}}]

Init == queue = << >>

(* Room is judged before the step: a full queue refuses a store even in    *)
(* the cycle in which it retires one.                                      *)
Accept(st) ==
  /\ Len(queue) < Depth
  /\ queue' = Append(queue, st)

Retire ==
  /\ queue # << >>
  /\ queue' = Tail(queue)

AcceptAndRetire(st) ==
  /\ Len(queue) < Depth
  /\ queue # << >>
  /\ queue' = Append(Tail(queue), st)

Next ==
  \/ \E st \in Store : Accept(st) \/ AcceptAndRetire(st)
  \/ Retire

Spec == Init /\ [][Next]_queue

-----------------------------------------------------------------------------
(* What a load of word a may take from the queue.                          *)

Writes(k, a, b) == queue[k].addr = a /\ b \in queue[k].strb

Covered(a) == {b \in Lane : \E k \in 1 .. Len(queue) : Writes(k, a, b)}

Newest(a, b) ==
  LET k == CHOOSE i \in 1 .. Len(queue) :
             /\ Writes(i, a, b)
             /\ \A j \in (i + 1) .. Len(queue) : ~Writes(j, a, b)
  IN  queue[k].data[b]
=============================================================================
