------------------------- MODULE WriteBuffer_proofs -------------------------
(***************************************************************************)
(* Machine-checked facts about the store ring of write_buffer.sv, for      *)
(* every depth, every set of addresses, lanes and byte values.             *)
(***************************************************************************)
EXTENDS WriteBuffer, TLAPS, FiniteSetTheorems, SequenceTheorems, WellFoundedInduction

(* A non-empty set of naturals has a least element: the intervals 1 .. n   *)
(* are finite sets, and strict inclusion of finite sets is well-founded.   *)
LEMMA LeastNatural ==
  ASSUME NEW T, T \subseteq Nat, T # {}
  PROVE  \E m \in T : \A n \in T : m <= n
<1> DEFINE F == {1 .. n : n \in T}
<1>1. F \subseteq FiniteSubsetsOf(Nat)
  BY FS_Interval DEF FiniteSubsetsOf
<1>2. F # {}
  OBVIOUS
<1>3. IsWellFoundedOn(StrictSubsetOrdering(Nat), FiniteSubsetsOf(Nat))
  BY FS_StrictSubsetOrderingWellFounded
<1>4. \E u \in F : \A v \in F : <<v, u>> \notin StrictSubsetOrdering(Nat)
  <2> HIDE DEF F
  <2> QED BY <1>1, <1>2, <1>3, WFMin
<1>5. PICK m \in T : \A n \in T : <<1 .. n, 1 .. m>> \notin StrictSubsetOrdering(Nat)
  BY <1>4
<1>6. ASSUME NEW n \in T, n < m PROVE FALSE
  <2>1. n \in Nat /\ m \in Nat  OBVIOUS
  <2>2. 1 .. n \subseteq 1 .. m /\ m \in 1 .. m /\ m \notin 1 .. n  BY <2>1, <1>6
  <2>3. 1 .. n \in SUBSET Nat /\ 1 .. m \in SUBSET Nat  BY <2>1
  <2>4. <<1 .. n, 1 .. m>> \in StrictSubsetOrdering(Nat)
    BY <2>2, <2>3 DEF StrictSubsetOrdering
  <2> QED  BY <2>4, <1>5
<1> QED  BY <1>6
-----------------------------------------------------------------------------
(* How the pointers, the slots and the queue they stand for fit together.  *)

IInv == TypeOK /\ RingInv

(* The slots from head up to tail are Count many, distinct, and in order.  *)
LEMMA PointerFacts ==
  ASSUME TypeOK, Count <= Depth
  PROVE  /\ Count \in 0 .. Depth
         /\ Empty <=> Count = 0
         /\ Full <=> Count = Depth
         /\ HeadIdx \in Slot /\ TailIdx \in Slot
         /\ \A k \in 1 .. Depth : NthSlot(k) \in Slot
         /\ \A j, k \in 1 .. Depth : NthSlot(j) = NthSlot(k) => j = k
         /\ NthSlot(1) = HeadIdx
         /\ Count < Depth => NthSlot(Count + 1) = TailIdx
<1> USE SizesAssumption DEF TypeOK, Pointer, Slot, Count, SlotOf
<1>1. Count \in 0 .. Depth /\ (Empty <=> Count = 0)
  BY DEF Empty
<1>2. Full <=> Count = Depth
  BY DEF Full, HeadIdx, TailIdx
<1>3. HeadIdx \in Slot /\ TailIdx \in Slot
  BY DEF HeadIdx, TailIdx
<1>4. \A k \in 1 .. Depth : NthSlot(k) \in Slot
  BY DEF NthSlot, After
<1>5. \A j, k \in 1 .. Depth : NthSlot(j) = NthSlot(k) => j = k
  BY DEF NthSlot, After
<1>6. NthSlot(1) = HeadIdx
  BY DEF NthSlot, After, HeadIdx
<1>7. Count < Depth => NthSlot(Count + 1) = TailIdx
  BY DEF NthSlot, After, TailIdx
<1> QED  BY <1>1, <1>2, <1>3, <1>4, <1>5, <1>6, <1>7

(* One clock edge in terms of the queue: e stores enter, d leave.          *)
Effect(push, st, done, e, d) ==
  /\ e = IF push /\ Count < Depth THEN 1 ELSE 0
  /\ d = IF done /\ Count > 0 THEN 1 ELSE 0
  /\ Count + e <= Depth /\ d <= Count
  /\ TypeOK'
  /\ Count' = Count + e - d
  /\ \A k \in 1 .. Depth : k + d <= Depth + 1 => NthSlot(k)' = NthSlot(k + d)
  /\ entryValid' = [s \in Slot |->
                      IF d = 1 /\ s = NthSlot(1) THEN FALSE
                      ELSE (e = 1 /\ s = NthSlot(Count + 1)) \/ entryValid[s]]
  /\ entry' = [s \in Slot |->
                 IF e = 1 /\ s = NthSlot(Count + 1) THEN st ELSE entry[s]]

(* What one clock edge does to the queue: a store that is let in lands     *)
(* behind the youngest one, a drained one leaves from the front.           *)
LEMMA ClockEffect ==
  ASSUME IInv, NEW push \in BOOLEAN, NEW done \in BOOLEAN, NEW st \in Store,
         Clock(push, st, done)
  PROVE  \E e, d \in {0, 1} : Effect(push, st, done, e, d)
<1>1. TypeOK /\ Count <= Depth
  BY DEF IInv, RingInv
<1>2. PICK e \in {0, 1}, d \in {0, 1} :
        /\ e = IF push /\ Count < Depth THEN 1 ELSE 0
        /\ d = IF done /\ Count > 0 THEN 1 ELSE 0
  OBVIOUS
<1>3. /\ Count \in 0 .. Depth
      /\ (push /\ ~Full) <=> e = 1
      /\ (done /\ ~Empty) <=> d = 1
      /\ HeadIdx = NthSlot(1) /\ HeadIdx \in Slot /\ TailIdx \in Slot
      /\ e = 1 => TailIdx = NthSlot(Count + 1)
  BY <1>1, <1>2, PointerFacts, SizesAssumption
<1>4. /\ tail' = IF e = 1 THEN Inc(tail) ELSE tail
      /\ head' = IF d = 1 THEN Inc(head) ELSE head
  BY <1>3 DEF Clock
<1>5. entryValid' = [s \in Slot |->
                       IF d = 1 /\ s = NthSlot(1) THEN FALSE
                       ELSE (e = 1 /\ s = NthSlot(Count + 1)) \/ entryValid[s]]
  BY <1>3 DEF Clock
<1>6. entry' = [s \in Slot |->
                  IF e = 1 /\ s = NthSlot(Count + 1) THEN st ELSE entry[s]]
  BY <1>3 DEF Clock
<1>7. TypeOK'
  <2>1. head' \in Pointer /\ tail' \in Pointer
    BY <1>1, <1>4, SizesAssumption DEF TypeOK, Pointer, Inc
  <2>2. entryValid' \in [Slot -> BOOLEAN]
    BY <1>1, <1>5 DEF TypeOK
  <2>3. entry' \in [Slot -> Store]
    BY <1>1, <1>6 DEF TypeOK
  <2> QED  BY <2>1, <2>2, <2>3 DEF TypeOK
<1>8. Count' = Count + e - d
  BY <1>1, <1>2, <1>3, <1>4, SizesAssumption DEF TypeOK, Pointer, Inc, Count
<1>9. \A k \in 1 .. Depth : k + d <= Depth + 1 => NthSlot(k)' = NthSlot(k + d)
  BY <1>1, <1>4, SizesAssumption DEF TypeOK, Pointer, Inc, NthSlot, After, SlotOf
<1>10. Count + e <= Depth /\ d <= Count
  BY <1>2, <1>3, SizesAssumption
<1> QED  BY <1>2, <1>5, <1>6, <1>7, <1>8, <1>9, <1>10 DEF Effect

-----------------------------------------------------------------------------
(* The ring invariant is inductive.                                        *)

LEMMA StoreNonempty == Store # {}
<1>1. PICK t \in Tag, i \in Set, l \in Lane, v \in Byte : TRUE
  BY SizesAssumption, BytesAssumption
<1> DEFINE a == [tag |-> t, idx |-> i, sel |-> 0]
<1>2. a \in WordAddr
  BY SizesAssumption DEF WordAddr, Sel
<1>3. [addr |-> a, data |-> [b \in Lane |-> v], strb |-> {l}] \in Store
  BY <1>2 DEF Store, Word
<1> QED  BY <1>3

LEMMA InitIInv == Init => IInv
<1> SUFFICES ASSUME Init PROVE IInv
  OBVIOUS
<1>1. Store # {} => entry \in [Slot -> Store]
  BY DEF Init
<1>2. Count = 0
  BY SizesAssumption DEF Init, Count
<1> QED  BY <1>1, <1>2, StoreNonempty, SizesAssumption DEF Init, IInv, TypeOK, RingInv, Pointer

LEMMA ClockIInv ==
  ASSUME IInv, NEW push \in BOOLEAN, NEW done \in BOOLEAN, NEW st \in Store,
         Clock(push, st, done)
  PROVE  IInv'
<1>1. TypeOK /\ Count <= Depth /\ Count \in 0 .. Depth
  BY PointerFacts DEF IInv, RingInv
<1>2. PICK e \in {0, 1}, d \in {0, 1} : Effect(push, st, done, e, d)
  BY ClockEffect
<1>3. Count + e <= Depth /\ d <= Count
  BY <1>2 DEF Effect
<1>4. /\ TypeOK'
      /\ Count' = Count + e - d
      /\ \A k \in 1 .. Depth : k + d <= Depth + 1 => NthSlot(k)' = NthSlot(k + d)
      /\ entryValid' = [s \in Slot |->
                          IF d = 1 /\ s = NthSlot(1) THEN FALSE
                          ELSE (e = 1 /\ s = NthSlot(Count + 1)) \/ entryValid[s]]
  BY <1>2 DEF Effect
<1>5. Count' <= Depth
  BY <1>1, <1>3, <1>4, SizesAssumption
<1>6. ASSUME NEW s \in Slot
      PROVE  entryValid'[s] <=> \E k \in 1 .. Count' : NthSlot(k)' = s
  <2>1. entryValid[s] <=> \E k \in 1 .. Count : NthSlot(k) = s
    BY DEF IInv, RingInv
  <2>2. \A j, k \in 1 .. Depth : NthSlot(j) = NthSlot(k) => j = k
    BY <1>1, PointerFacts
  <2>3. entryValid'[s] <=> \E j \in (1 + d) .. (Count + e) : NthSlot(j) = s
    <3>1. CASE d = 1 /\ s = NthSlot(1)
      <4>1. \A j \in (1 + d) .. (Count + e) : NthSlot(j) # s
        BY <1>1, <1>3, <2>2, <3>1, SizesAssumption
      <4> QED  BY <1>4, <3>1, <4>1
    <3>2. CASE ~(d = 1 /\ s = NthSlot(1))
      <4>1. entryValid'[s] <=> (e = 1 /\ s = NthSlot(Count + 1)) \/ entryValid[s]
        BY <1>4, <3>2
      <4>2. entryValid'[s] <=> \E j \in 1 .. (Count + e) : NthSlot(j) = s
        BY <1>1, <1>3, <2>1, <4>1
      <4> QED  BY <1>1, <1>3, <3>2, <4>2
    <3> QED  BY <3>1, <3>2
  <2>4. (\E j \in (1 + d) .. (Count + e) : NthSlot(j) = s)
          <=> \E k \in 1 .. Count' : NthSlot(k)' = s
    <3>1. ASSUME NEW j \in (1 + d) .. (Count + e), NthSlot(j) = s
          PROVE  \E k \in 1 .. Count' : NthSlot(k)' = s
      <4>1. j - d \in 1 .. Count' /\ j - d \in 1 .. Depth /\ (j - d) + d = j /\ j <= Depth
        BY <1>1, <1>3, <1>4, SizesAssumption
      <4>2. NthSlot(j - d)' = NthSlot((j - d) + d)
        BY <1>1, <1>4, <4>1, SizesAssumption
      <4> QED  BY <3>1, <4>1, <4>2
    <3>2. ASSUME NEW k \in 1 .. Count', NthSlot(k)' = s
          PROVE  \E j \in (1 + d) .. (Count + e) : NthSlot(j) = s
      <4>1. k + d \in (1 + d) .. (Count + e) /\ k \in 1 .. Depth /\ k + d <= Depth
        BY <1>1, <1>3, <1>4, SizesAssumption
      <4>2. NthSlot(k)' = NthSlot(k + d)
        BY <1>1, <1>4, <4>1, SizesAssumption
      <4> QED  BY <3>2, <4>1, <4>2
    <3> QED  BY <3>1, <3>2
  <2> QED  BY <2>3, <2>4
<1> QED  BY <1>4, <1>5, <1>6 DEF IInv, RingInv

LEMMA NextIInv == IInv /\ [Next]_wbVars => IInv'
<1> SUFFICES ASSUME IInv, [Next]_wbVars PROVE IInv'
  OBVIOUS
<1>1. CASE Next
  BY <1>1, ClockIInv DEF Next
<1>2. CASE UNCHANGED wbVars
  BY <1>2 DEF wbVars, IInv, TypeOK, RingInv, Count, NthSlot
<1> QED  BY <1>1, <1>2

(* The pointers and the valid bits of write_buffer.sv describe one and the *)
(* same set of occupied slots, never more than Depth of them, whatever is  *)
(* pushed and drained in whatever cycles.                                  *)
THEOREM RingCorrect == Spec => [](TypeOK /\ RingInv)
<1>1. IInv => TypeOK /\ RingInv
  BY DEF IInv
<1> QED  BY <1>1, InitIInv, NextIInv, PTL DEF Spec
-----------------------------------------------------------------------------
(* The ring implements the queue.                                          *)

(* Contents is a sequence of stores, the k-th of them in the k-th slot.     *)
ContentsOK ==
  /\ Contents \in Seq(Store)
  /\ Len(Contents) = Count
  /\ Count \in 0 .. Depth
  /\ \A k \in 1 .. Count : Contents[k] = entry[NthSlot(k)]

LEMMA ContentsFacts == IInv => ContentsOK
<1> SUFFICES ASSUME IInv PROVE ContentsOK
  OBVIOUS
<1>1. TypeOK /\ Count \in 0 .. Depth /\ \A k \in 1 .. Count : NthSlot(k) \in Slot
  BY PointerFacts, SizesAssumption DEF IInv, RingInv
<1>2. \A k \in 1 .. Count : entry[NthSlot(k)] \in Store
  BY <1>1 DEF TypeOK
<1>3. Contents \in [1 .. Count -> Store] /\ Count \in Nat
  BY <1>1, <1>2 DEF Contents
<1>4. Contents \in Seq(Store) /\ Len(Contents) = Count
  BY <1>3, SeqDef
<1> QED  BY <1>1, <1>4 DEF Contents, ContentsOK

LEMMA ContentsFactsNext == IInv' => ContentsOK'
  BY ContentsFacts, PTL

(* The queue after a clock edge: drop d from the front, add e at the back. *)
LEMMA ContentsEffect ==
  ASSUME IInv, IInv', NEW push \in BOOLEAN, NEW done \in BOOLEAN, NEW st \in Store,
         NEW e \in {0, 1}, NEW d \in {0, 1}, Effect(push, st, done, e, d)
  PROVE  /\ Contents' \in Seq(Store)
         /\ Len(Contents') = Len(Contents) + e - d
         /\ \A k \in 1 .. Len(Contents') :
              Contents'[k] = IF k + d <= Len(Contents) THEN Contents[k + d] ELSE st
<1>1. /\ Contents \in Seq(Store) /\ Len(Contents) = Count /\ Count \in 0 .. Depth
      /\ \A k \in 1 .. Count : Contents[k] = entry[NthSlot(k)]
  BY ContentsFacts DEF ContentsOK
<1>2. /\ Contents' \in Seq(Store) /\ Len(Contents') = Count' /\ Count' \in 0 .. Depth
      /\ \A k \in 1 .. Count' : Contents'[k] = entry'[NthSlot(k)']
  <2>1. ContentsOK'
    BY ContentsFactsNext
  <2> QED  BY <2>1 DEF ContentsOK
<1>3. /\ Count' = Count + e - d /\ Count + e <= Depth /\ d <= Count
      /\ \A k \in 1 .. Depth : k + d <= Depth + 1 => NthSlot(k)' = NthSlot(k + d)
      /\ entry' = [s \in Slot |->
                     IF e = 1 /\ s = NthSlot(Count + 1) THEN st ELSE entry[s]]
  BY DEF Effect
<1>4. /\ \A k \in 1 .. Depth : NthSlot(k) \in Slot
      /\ \A j, k \in 1 .. Depth : NthSlot(j) = NthSlot(k) => j = k
  BY PointerFacts DEF IInv, RingInv
<1>5. ASSUME NEW k \in 1 .. Count'
      PROVE  Contents'[k] = IF k + d <= Count THEN Contents[k + d] ELSE st
  <2>1. k \in 1 .. Depth /\ k + d \in 1 .. Depth /\ k + d <= Count + e /\ k + d <= Depth + 1
    BY <1>1, <1>2, <1>3, SizesAssumption
  <2>2. Contents'[k] = entry'[NthSlot(k + d)] /\ NthSlot(k + d) \in Slot
    BY <1>2, <1>3, <1>4, <2>1
  <2>3. CASE k + d <= Count
    <3>1. NthSlot(k + d) # NthSlot(Count + 1) \/ e = 0
      BY <1>1, <1>3, <1>4, <2>1, <2>3, SizesAssumption
    <3>2. Contents[k + d] = entry[NthSlot(k + d)]
      BY <1>1, <2>1, <2>3
    <3> QED  BY <1>3, <2>2, <2>3, <3>1, <3>2
  <2>4. CASE ~(k + d <= Count)
    <3>1. e = 1 /\ k + d = Count + 1
      BY <1>1, <2>1, <2>4, SizesAssumption
    <3> QED  BY <1>3, <2>2, <2>4, <3>1
  <2> QED  BY <2>3, <2>4
<1> QED  BY <1>1, <1>2, <1>3, <1>5

LEMMA ClockRefines ==
  ASSUME IInv, IInv', NEW push \in BOOLEAN, NEW done \in BOOLEAN, NEW st \in Store,
         Clock(push, st, done)
  PROVE  [Queue!Next]_Contents
<1>1. PICK e \in {0, 1}, d \in {0, 1} : Effect(push, st, done, e, d)
  BY ClockEffect
<1>2. /\ Contents' \in Seq(Store)
      /\ Len(Contents') = Len(Contents) + e - d
      /\ \A k \in 1 .. Len(Contents') :
           Contents'[k] = IF k + d <= Len(Contents) THEN Contents[k + d] ELSE st
  BY <1>1, ContentsEffect
<1>3. /\ Contents \in Seq(Store) /\ Len(Contents) \in Nat
      /\ Len(Contents) + e <= Depth /\ d <= Len(Contents)
  BY <1>1, ContentsFacts, SizesAssumption DEF Effect, ContentsOK
<1>4. CASE e = 0 /\ d = 0
  <2>1. \A k \in 1 .. Len(Contents) : Contents'[k] = Contents[k]
    BY <1>2, <1>3, <1>4
  <2>2. Contents' = Contents
    BY <1>2, <1>3, <1>4, <2>1, SeqEqual
  <2> QED  BY <2>2
<1>5. CASE e = 1 /\ d = 0
  <2>1. Append(Contents, st) \in Seq(Store) /\ Len(Append(Contents, st)) = Len(Contents')
    BY <1>2, <1>3, <1>5
  <2>2. \A k \in 1 .. Len(Contents') : Contents'[k] = Append(Contents, st)[k]
    BY <1>2, <1>3, <1>5
  <2>3. Contents' = Append(Contents, st)
    BY <1>2, <2>1, <2>2, SeqEqual
  <2>4. Queue!Accept(st)
    BY <1>3, <1>5, <2>3, SizesAssumption DEF Queue!Accept
  <2> QED  BY <2>4 DEF Queue!Next, Queue!Store, Store, Word
<1>6. CASE e = 0 /\ d = 1
  <2>1. Contents # << >> /\ Tail(Contents) \in Seq(Store) /\ Len(Tail(Contents)) = Len(Contents')
    BY <1>2, <1>3, <1>6
  <2>2. \A k \in 1 .. Len(Contents') : Contents'[k] = Tail(Contents)[k]
    BY <1>2, <1>3, <1>6
  <2>3. Contents' = Tail(Contents)
    BY <1>2, <2>1, <2>2, SeqEqual
  <2> QED  BY <2>1, <2>3 DEF Queue!Retire, Queue!Next
<1>7. CASE e = 1 /\ d = 1
  <2>1. /\ Contents # << >> /\ Tail(Contents) \in Seq(Store)
        /\ Len(Tail(Contents)) = Len(Contents) - 1
        /\ \A k \in 1 .. Len(Contents) - 1 : Tail(Contents)[k] = Contents[k + 1]
    BY <1>3, <1>7
  <2> DEFINE q == Tail(Contents)
  <2>2. Append(q, st) \in Seq(Store) /\ Len(Append(q, st)) = Len(Contents')
    BY <1>2, <1>3, <1>7, <2>1
  <2>3. \A k \in 1 .. Len(Contents') : Contents'[k] = Append(q, st)[k]
    BY <1>2, <1>3, <1>7, <2>1
  <2>4. Contents' = Append(q, st)
    BY <1>2, <2>2, <2>3, SeqEqual
  <2>5. Queue!AcceptAndRetire(st)
    BY <1>3, <1>7, <2>1, <2>4, SizesAssumption DEF Queue!AcceptAndRetire
  <2> QED  BY <2>5 DEF Queue!Next, Queue!Store, Store, Word
<1> QED  BY <1>4, <1>5, <1>6, <1>7

(* The ring of write_buffer.sv is a first-in first-out queue: no store is  *)
(* lost, duplicated or overtaken, for every depth and every interleaving   *)
(* of pushes by the data cache and completions by the arbiter.             *)
THEOREM RingImplementsQueue == Spec => ImplementsQueue
<1>1. Init => Queue!Init
  BY SizesAssumption DEF Init, Queue!Init, Contents, Count
<1>2. IInv /\ IInv' /\ [Next]_wbVars => [Queue!Next]_Contents
  <2> SUFFICES ASSUME IInv, IInv', [Next]_wbVars PROVE [Queue!Next]_Contents
    OBVIOUS
  <2>1. CASE Next
    BY <2>1, ClockRefines DEF Next
  <2>2. CASE UNCHANGED wbVars
    BY <2>2 DEF wbVars, Contents, Count, NthSlot
  <2> QED  BY <2>1, <2>2
<1>3. Spec => []IInv
  BY InitIInv, NextIInv, PTL DEF Spec
<1> QED  BY <1>1, <1>2, <1>3, PTL DEF Spec, ImplementsQueue, Queue!Spec
-----------------------------------------------------------------------------
(* The forwarding scan.                                                    *)

(* The i-th slot of the scan holds the (Count - i)-th store, as long as    *)
(* there is one, and is an unoccupied slot from there on.                  *)
LEMMA ScanFacts ==
  ASSUME IInv
  PROVE  /\ \A i \in Slot : ScanSlot(i) \in Slot
         /\ \A i \in Slot : i < Count => ScanSlot(i) = NthSlot(Count - i)
         /\ \A i \in Slot : entryValid[ScanSlot(i)] <=> i < Count
<1>1. TypeOK /\ Count \in 0 .. Depth /\ TailIdx \in Slot
  BY PointerFacts DEF IInv, RingInv
<1>2. \A i \in Slot : ScanSlot(i) \in Slot
  BY <1>1, SizesAssumption DEF ScanSlot, Slot
<1>3. \A i \in Slot : i < Count => ScanSlot(i) = NthSlot(Count - i)
  BY <1>1, SizesAssumption
     DEF TypeOK, Pointer, ScanSlot, Slot, NthSlot, After, SlotOf, TailIdx, Count
<1>4. \A i, j \in Slot : ScanSlot(i) = ScanSlot(j) => i = j
  BY <1>1, SizesAssumption DEF ScanSlot, Slot
<1>5. ASSUME NEW i \in Slot
      PROVE  entryValid[ScanSlot(i)] <=> i < Count
  <2>1. entryValid[ScanSlot(i)] <=> \E k \in 1 .. Count : NthSlot(k) = ScanSlot(i)
    BY <1>2 DEF IInv, RingInv
  <2>2. i < Count => Count - i \in 1 .. Count
    BY <1>1, SizesAssumption DEF Slot
  <2>3. ASSUME NEW k \in 1 .. Count, NthSlot(k) = ScanSlot(i) PROVE i < Count
    <3>1. Count - k \in Slot /\ Count - k < Count /\ Count - (Count - k) = k
      BY <1>1, SizesAssumption DEF Slot
    <3>2. ScanSlot(Count - k) = NthSlot(k)
      BY <1>3, <3>1
    <3> QED  BY <1>4, <2>3, <3>1, <3>2
  <2> QED  BY <1>3, <2>1, <2>2, <2>3
<1> QED  BY <1>2, <1>3, <1>5

(* The lane-by-lane scan of the ring finds the youngest store of the queue. *)
LEMMA ScanFindsNewest == IInv => ForwardsNewest
<1> SUFFICES ASSUME IInv, NEW a \in WordAddr
             PROVE  /\ FwdStrb(a) = Queue!Covered(a)
                    /\ \A b \in FwdStrb(a) : FwdByte(a, b) = Queue!Newest(a, b)
  BY DEF ForwardsNewest
<1>1. ContentsOK
  BY ContentsFacts
<1>2. \A b \in Lane : \A i \in Slot :
        Supplies(i, a, b) <=> i < Count /\ Queue!Writes(Count - i, a, b)
  <2> SUFFICES ASSUME NEW b \in Lane, NEW i \in Slot
               PROVE  Supplies(i, a, b) <=> i < Count /\ Queue!Writes(Count - i, a, b)
    OBVIOUS
  <2>1. CASE i < Count
    <3>1. Count - i \in 1 .. Count
      BY <1>1, <2>1, SizesAssumption DEF ContentsOK, Slot
    <3>2. entryValid[ScanSlot(i)] /\ Contents[Count - i] = entry[ScanSlot(i)]
      BY <1>1, <2>1, <3>1, ScanFacts DEF ContentsOK
    <3> QED  BY <2>1, <3>2 DEF Supplies, Matches, Queue!Writes
  <2>2. CASE ~(i < Count)
    BY <2>2, ScanFacts DEF Supplies, Matches
  <2> QED  BY <2>1, <2>2
<1>3. \A k \in 1 .. Count : Count - k \in Slot /\ Count - k < Count /\ Count - (Count - k) = k
  BY <1>1, SizesAssumption DEF ContentsOK, Slot
<1>4. \A i \in Slot : i < Count => Count - i \in 1 .. Count
  BY <1>1, SizesAssumption DEF ContentsOK, Slot
<1>5. ASSUME NEW b \in Lane
      PROVE  (\E i \in Slot : Supplies(i, a, b)) <=> \E k \in 1 .. Count : Queue!Writes(k, a, b)
  <2>1. ASSUME NEW k \in 1 .. Count, Queue!Writes(k, a, b)
        PROVE  \E i \in Slot : Supplies(i, a, b)
    BY <1>2, <1>3, <2>1
  <2>2. ASSUME NEW i \in Slot, Supplies(i, a, b)
        PROVE  \E k \in 1 .. Count : Queue!Writes(k, a, b)
    BY <1>2, <1>4, <2>2
  <2> QED  BY <2>1, <2>2
<1>6. FwdStrb(a) = Queue!Covered(a)
  BY <1>1, <1>5 DEF FwdStrb, Queue!Covered, ContentsOK
<1>7. ASSUME NEW b \in FwdStrb(a)
      PROVE  FwdByte(a, b) = Queue!Newest(a, b)
  <2>1. b \in Lane /\ \E i \in Slot : Supplies(i, a, b)
    BY DEF FwdStrb
  <2> DEFINE T == {i \in Slot : Supplies(i, a, b)}
             First(i) == Supplies(i, a, b) /\ \A j \in 0 .. (i - 1) : ~Supplies(j, a, b)
             Last(k) == /\ Queue!Writes(k, a, b)
                        /\ \A j \in (k + 1) .. Count : ~Queue!Writes(j, a, b)
  <2>2. PICK f \in T : \A j \in T : f <= j
    <3>1. T \subseteq Nat /\ T # {}
      BY <2>1, SizesAssumption DEF Slot
    <3> HIDE DEF T
    <3> QED  BY <3>1, LeastNatural
  <2>3. f \in Slot /\ First(f)
    <3>1. ASSUME NEW j \in 0 .. (f - 1), Supplies(j, a, b) PROVE FALSE
      BY <2>2, <3>1, SizesAssumption DEF Slot
    <3> QED  BY <2>2, <3>1
  <2>4. \A i \in Slot : First(i) => i = f
    <3>1. ASSUME NEW i \in Slot, First(i), i # f PROVE FALSE
      <4>1. i < f \/ f < i  BY <2>3, <3>1, SizesAssumption DEF Slot
      <4>2. CASE i < f
        BY <2>3, <3>1, <4>2, SizesAssumption DEF Slot
      <4>3. CASE f < i
        BY <2>3, <3>1, <4>3, SizesAssumption DEF Slot
      <4> QED  BY <4>1, <4>2, <4>3
    <3> QED  BY <3>1
  <2>5. (CHOOSE i \in Slot : First(i)) = f
    <3> HIDE DEF First
    <3> QED  BY <2>3, <2>4
  <2>6. FwdByte(a, b) = entry[ScanSlot(f)].data[b]
    BY <2>5 DEF FwdByte
  <2>7. f < Count /\ Queue!Writes(Count - f, a, b) /\ Count - f \in 1 .. Count
    BY <1>2, <1>4, <2>1, <2>3
  <2>8. Last(Count - f)
    <3>1. ASSUME NEW j \in ((Count - f) + 1) .. Count, Queue!Writes(j, a, b) PROVE FALSE
      <4>1. j \in 1 .. Count /\ Count - j \in 0 .. (f - 1)
        BY <1>1, <2>3, <2>7, SizesAssumption DEF ContentsOK, Slot
      <4>2. Supplies(Count - j, a, b)
        BY <1>2, <1>3, <2>1, <3>1, <4>1
      <4> QED  BY <2>3, <4>1, <4>2
    <3> QED  BY <2>7, <3>1
  <2>9. \A k \in 1 .. Count : Last(k) => k = Count - f
    <3>1. ASSUME NEW k \in 1 .. Count, Last(k), k # Count - f PROVE FALSE
      <4>1. k < Count - f \/ Count - f < k
        BY <1>1, <2>3, <3>1, SizesAssumption DEF ContentsOK, Slot
      <4>2. CASE k < Count - f
        BY <1>1, <2>3, <2>7, <3>1, <4>2, SizesAssumption DEF ContentsOK, Slot
      <4>3. CASE Count - f < k
        BY <1>1, <2>3, <2>8, <3>1, <4>3, SizesAssumption DEF ContentsOK, Slot
      <4> QED  BY <4>1, <4>2, <4>3
    <3> QED  BY <3>1
  <2>10. (CHOOSE k \in 1 .. Count : Last(k)) = Count - f
    <3> HIDE DEF Last
    <3> QED  BY <2>7, <2>8, <2>9
  <2>11. Queue!Newest(a, b) = Contents[Count - f].data[b]
    BY <1>1, <2>10 DEF Queue!Newest, ContentsOK
  <2>12. Contents[Count - f] = entry[ScanSlot(f)]
    BY <1>1, <2>3, <2>7, ScanFacts DEF ContentsOK
  <2> QED  BY <2>6, <2>11, <2>12
<1> QED  BY <1>6, <1>7

(* A load is offered exactly the youngest pending store of every lane, in  *)
(* every reachable state of the ring, wherever the pointers have wrapped.  *)
THEOREM ForwardingCorrect == Spec => []ForwardsNewest
BY InitIInv, NextIInv, ScanFindsNewest, PTL DEF Spec
=============================================================================
