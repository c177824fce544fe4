---------------------------- MODULE WriteBuffer -----------------------------
(***************************************************************************)
(* rtl/cpu/cache/write_buffer.sv: the ring of Depth stores between the     *)
(* data cache and the bus arbiter.  head and tail carry one bit more than  *)
(* a slot index (they count modulo 2 * Depth), so that equal slot indices  *)
(* tell an empty ring from a full one.  The hardware truncates; here every *)
(* truncation is a conditional subtraction, which is the same thing for    *)
(* the values that occur.                                                  *)
(***************************************************************************)
EXTENDS CachePkg, Sequences

VARIABLES
  head,        (* pointer to the oldest store, one extra bit       *)
  tail,        (* pointer to the next free slot, one extra bit     *)
  entryValid,  (* entry_valid: the valid bit of every slot         *)
  entry        (* entry_addr, entry_data, entry_strb of every slot *)

wbVars == <<head, tail, entryValid, entry>>

Slot    == 0 .. Depth - 1
Pointer == 0 .. 2 * Depth - 1
Store   == [addr : WordAddr, data : Word, strb : (SUBSET Lane) \ {{}}]

-----------------------------------------------------------------------------
SlotOf(p) == IF p < Depth THEN p ELSE p - Depth
HeadIdx   == SlotOf(head)
TailIdx   == SlotOf(tail)

Empty == head = tail

(* Fault: the extra pointer bit is not compared. *)
FullNever == FALSE
(* Fault: an empty ring looks full. *)
FullOnEmpty == HeadIdx = TailIdx
Full  == HeadIdx = TailIdx /\ head # tail

(* Fault: the pointer wraps one bit too early. *)
IncSlotBits(p) == IF p = Depth - 1 THEN 0 ELSE p + 1
Inc(p) == IF p = 2 * Depth - 1 THEN 0 ELSE p + 1

(* The reset clears the pointers and the valid bits; the contents of the   *)
(* slots are whatever the memory powers up with.                           *)
Init ==
  /\ head = 0
  /\ tail = 0
  /\ entryValid = [s \in Slot |-> FALSE]
  /\ entry = [s \in Slot |-> CHOOSE st \in Store : TRUE]

(* Store-to-load forwarding.  The scan visits the slots from the youngest  *)
(* backwards, and the first slot that wrote a lane supplies it.            *)
ScanOldestFirst(i) == SlotOf(IF head + i >= 2 * Depth THEN head + i - 2 * Depth ELSE head + i)  \* fault
ScanSlot(i) == IF TailIdx > i THEN TailIdx - 1 - i ELSE TailIdx + Depth - 1 - i

Matches(s, a) == entryValid[s] /\ entry[s].addr = a

Supplies(i, a, b) == Matches(ScanSlot(i), a) /\ b \in entry[ScanSlot(i)].strb

FwdStrb(a) == {b \in Lane : \E i \in Slot : Supplies(i, a, b)}

FwdByte(a, b) ==
  LET first == CHOOSE i \in Slot :
                 /\ Supplies(i, a, b)
                 /\ \A j \in 0 .. (i - 1) : ~Supplies(j, a, b)
  IN  entry[ScanSlot(first)].data[b]

(* What the arbiter is shown: the oldest store.                            *)
DrainReq   == ~Empty
DrainStore == entry[HeadIdx]

(* Fault: the fence only waits for a free slot. *)
FenceNotFull == ~Full
FenceDone == Empty

-----------------------------------------------------------------------------
(* One clock edge.  push and st come from the data cache, done from the    *)
(* arbiter.  Both halves see the state before the edge; the clearing of a  *)
(* valid bit is the later assignment and would win.                        *)
Clock(push, st, done) ==
  LET enq == push /\ ~Full
      deq == done /\ ~Empty
  IN  /\ tail' = IF enq THEN Inc(tail) ELSE tail
      /\ head' = IF deq THEN Inc(head) ELSE head
      /\ entryValid' = [s \in Slot |->
                          IF deq /\ s = HeadIdx THEN FALSE
                          ELSE (enq /\ s = TailIdx) \/ entryValid[s]]
      /\ entry' = [s \in Slot |-> IF enq /\ s = TailIdx THEN st ELSE entry[s]]

Next == \E push, done \in BOOLEAN, st \in Store : Clock(push, st, done)

Spec == Init /\ [][Next]_wbVars

-----------------------------------------------------------------------------
(* The queue the ring stands for: the slots from head up to tail.          *)
Count      == IF tail >= head THEN tail - head ELSE tail + 2 * Depth - head
After(p, n) == SlotOf(IF p + n >= 2 * Depth THEN p + n - 2 * Depth ELSE p + n)
NthSlot(k) == After(head, k - 1)
Contents   == [k \in 1 .. Count |-> entry[NthSlot(k)]]

Queue == INSTANCE StoreQueue WITH queue <- Contents, Addr <- WordAddr

TypeOK ==
  /\ head \in Pointer
  /\ tail \in Pointer
  /\ entryValid \in [Slot -> BOOLEAN]
  /\ entry \in [Slot -> Store]

(* The pointers never run past each other and the valid bits are exactly   *)
(* the slots between them: what makes the extra pointer bit and the valid  *)
(* bits, kept separately by the code, agree at every wrap-around.          *)
RingInv ==
  /\ Count <= Depth
  /\ \A s \in Slot : entryValid[s] <=> \E k \in 1 .. Count : NthSlot(k) = s

(* A load is offered, for every lane of every word, exactly the youngest   *)
(* pending store to it, and nothing from slots already drained.            *)
ForwardsNewest ==
  \A a \in WordAddr :
    /\ FwdStrb(a) = Queue!Covered(a)
    /\ \A b \in FwdStrb(a) : FwdByte(a, b) = Queue!Newest(a, b)

(* The ring is a first-in first-out queue of Depth stores: no store is     *)
(* lost, duplicated or overtaken, and a full ring refuses without damage.  *)
ImplementsQueue == Queue!Spec
=============================================================================
