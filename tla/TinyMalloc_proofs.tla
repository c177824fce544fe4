-------------------------- MODULE TinyMalloc_proofs -------------------------
(***************************************************************************)
(* Proofs about the allocator, for every heap, every set of sizes and      *)
(* alignments, and every sequence of calls.                                *)
(*                                                                         *)
(* The argument is about words: every operation of the free list adds the  *)
(* words of one block to those that are free, or takes them away, and      *)
(* leaves a list whose blocks lie apart in the order of their addresses.   *)
(***************************************************************************)
EXTENDS TinyMalloc, SequenceTheorems, FiniteSetTheorems, WellFoundedInduction, TLAPS

-----------------------------------------------------------------------------
(* The library's operations on sequences, element by element.              *)
LEMMA RemoveAtElements ==
  ASSUME NEW S, NEW s \in Seq(S), NEW i \in DOMAIN s
  PROVE  /\ RemoveAt(s, i) \in Seq(S)
         /\ Len(RemoveAt(s, i)) = Len(s) - 1
         /\ \A j \in 1 .. Len(s) - 1 : RemoveAt(s, i)[j] = IF j < i THEN s[j] ELSE s[j + 1]
<1> DEFINE l == SubSeq(s, 1, i - 1)
           r == SubSeq(s, i + 1, Len(s))
<1>1. Len(s) \in Nat /\ DOMAIN s = 1 .. Len(s) /\ i \in 1 .. Len(s) /\ s \in [1 .. Len(s) -> S]
  BY LenProperties
<1>2. l \in Seq(S) /\ Len(l) = i - 1 /\ \A j \in 1 .. i - 1 : l[j] = s[j]
  <2>1. \A j \in 1 .. i - 1 : s[j] \in S
    BY <1>1
  <2>2. QED
    BY <1>1, <2>1, SubSeqProperties
<1>3. r \in Seq(S) /\ Len(r) = Len(s) - i /\ \A j \in 1 .. Len(s) - i : r[j] = s[i + j]
  <2>1. \A j \in i + 1 .. Len(s) : s[j] \in S
    BY <1>1
  <2>2. /\ r \in Seq(S)
        /\ Len(r) = IF i + 1 <= Len(s) THEN Len(s) - (i + 1) + 1 ELSE 0
        /\ \A j \in 1 .. Len(s) - (i + 1) + 1 : r[j] = s[i + 1 + j - 1]
    BY <1>1, <2>1, SubSeqProperties
  <2>3. QED
    BY <1>1, <2>2
<1>4. RemoveAt(s, i) = l \o r
  BY DEF RemoveAt
<1> HIDE DEF l, r
<1>5. /\ l \o r \in Seq(S)
      /\ Len(l \o r) = Len(l) + Len(r)
      /\ \A j \in 1 .. Len(l) + Len(r) : (l \o r)[j] = IF j <= Len(l) THEN l[j] ELSE r[j - Len(l)]
  BY <1>2, <1>3, ConcatProperties
<1>6. Len(RemoveAt(s, i)) = Len(s) - 1 /\ RemoveAt(s, i) \in Seq(S)
  <2>1. Len(l) + Len(r) = Len(s) - 1
    BY <1>1, <1>2, <1>3
  <2>2. QED
    BY <1>4, <1>5, <2>1
<1>7. ASSUME NEW j \in 1 .. Len(s) - 1
      PROVE  RemoveAt(s, i)[j] = IF j < i THEN s[j] ELSE s[j + 1]
  <2>1. (l \o r)[j] = IF j <= i - 1 THEN l[j] ELSE r[j - (i - 1)]
    <3>1. Len(l) = i - 1 /\ j \in 1 .. Len(l) + Len(r)
      BY <1>1, <1>2, <1>3
    <3>2. (l \o r)[j] = IF j <= Len(l) THEN l[j] ELSE r[j - Len(l)]
      BY <1>5, <3>1
    <3>3. QED
      BY <3>1, <3>2
  <2>2. ASSUME j > i - 1 PROVE r[j - (i - 1)] = s[j + 1]
    <3>1. PICK k : k = j - (i - 1)
      OBVIOUS
    <3>2. k \in 1 .. Len(s) - i /\ i + k = j + 1
      BY <1>1, <2>2, <3>1
    <3>3. r[k] = s[i + k]
      BY <1>3, <3>2
    <3>4. QED
      BY <3>1, <3>2, <3>3
  <2>3. j <= i - 1 <=> j < i
    BY <1>1
  <2>4. QED
    BY <1>1, <1>2, <1>4, <2>1, <2>2, <2>3
<1>8. QED
  BY <1>6, <1>7

LEMMA InsertAtElements ==
  ASSUME NEW S, NEW s \in Seq(S), NEW i \in 1 .. Len(s) + 1, NEW e \in S
  PROVE  /\ InsertAt(s, i, e) \in Seq(S)
         /\ Len(InsertAt(s, i, e)) = Len(s) + 1
         /\ \A j \in 1 .. Len(s) + 1 :
              InsertAt(s, i, e)[j] = IF j < i THEN s[j] ELSE IF j = i THEN e ELSE s[j - 1]
<1> DEFINE l == SubSeq(s, 1, i - 1)
           m == <<e>>
           r == SubSeq(s, i, Len(s))
<1>1. Len(s) \in Nat /\ s \in [1 .. Len(s) -> S]
  BY LenProperties
<1>2. l \in Seq(S) /\ Len(l) = i - 1 /\ \A j \in 1 .. i - 1 : l[j] = s[j]
  <2>1. \A j \in 1 .. i - 1 : s[j] \in S
    BY <1>1
  <2>2. QED
    BY <1>1, <2>1, SubSeqProperties
<1>3. m \in Seq(S) /\ Len(m) = 1 /\ m[1] = e
  OBVIOUS
<1>4. r \in Seq(S) /\ Len(r) = Len(s) - i + 1 /\ \A j \in 1 .. Len(s) - i + 1 : r[j] = s[i + j - 1]
  <2>1. \A j \in i .. Len(s) : s[j] \in S
    BY <1>1
  <2>2. QED
    BY <1>1, <2>1, SubSeqProperties
<1>5. InsertAt(s, i, e) = (l \o m) \o r
  BY DEF InsertAt
<1> HIDE DEF l, m, r
<1>6. /\ l \o m \in Seq(S)
      /\ Len(l \o m) = Len(l) + Len(m)
      /\ \A j \in 1 .. Len(l) + Len(m) : (l \o m)[j] = IF j <= Len(l) THEN l[j] ELSE m[j - Len(l)]
  BY <1>2, <1>3, ConcatProperties
<1>7. PICK k : k = l \o m
  OBVIOUS
<1>8. k \in Seq(S) /\ Len(k) = i /\ \A j \in 1 .. i : k[j] = IF j < i THEN s[j] ELSE e
  BY <1>2, <1>3, <1>6, <1>7
<1>9. /\ k \o r \in Seq(S)
      /\ Len(k \o r) = Len(k) + Len(r)
      /\ \A j \in 1 .. Len(k) + Len(r) : (k \o r)[j] = IF j <= Len(k) THEN k[j] ELSE r[j - Len(k)]
  BY <1>4, <1>8, ConcatProperties
<1>10. InsertAt(s, i, e) = k \o r
  BY <1>5, <1>7
<1>11. QED
  BY <1>1, <1>4, <1>8, <1>9, <1>10

LEMMA AppendIsInsertAt ==
  ASSUME NEW S, NEW s \in Seq(S), NEW e \in S
  PROVE  Append(s, e) = InsertAt(s, Len(s) + 1, e)
<1>1. Len(s) \in Nat /\ Len(s) + 1 - 1 = Len(s)
  BY LenProperties
<1>2. SubSeq(s, 1, Len(s) + 1 - 1) = s
  BY <1>1, SubSeqFull
<1>3. SubSeq(s, Len(s) + 1, Len(s)) = <<>>
  BY <1>1, SubSeqEmpty
<1>4. s \o <<e>> \in Seq(S)
  BY ConcatProperties
<1>5. InsertAt(s, Len(s) + 1, e) = s \o <<e>>
  <2>1. (s \o <<e>>) \o <<>> = s \o <<e>>
    BY <1>4, ConcatEmptySeq
  <2>2. InsertAt(s, Len(s) + 1, e)
          = (SubSeq(s, 1, Len(s) + 1 - 1) \o <<e>>) \o SubSeq(s, Len(s) + 1, Len(s))
    BY DEF InsertAt
  <2>3. QED
    BY <1>2, <1>3, <2>1, <2>2
<1>6. QED
  BY <1>5, AppendIsConcat

LEMMA FrontElements ==
  ASSUME NEW S, NEW s \in Seq(S), s # <<>>
  PROVE  /\ Len(s) \in 1 .. Len(s) /\ Last(s) = s[Len(s)]
         /\ Front(s) \in Seq(S)
         /\ Len(Front(s)) = Len(s) - 1
         /\ \A j \in 1 .. Len(s) - 1 : Front(s)[j] = s[j]
<1>1. Len(s) \in Nat \ {0} /\ s \in [1 .. Len(s) -> S]
  BY LenProperties, EmptySeq
<1>2. \A j \in 1 .. Len(s) - 1 : s[j] \in S
  BY <1>1
<1>3. QED
  BY <1>1, <1>2, SubSeqProperties DEF Front, Last

LEMMA RemoveLast ==
  ASSUME NEW S, NEW s \in Seq(S), s # <<>>, NEW x \in S
  PROVE  RemoveAt([s EXCEPT ![Len(s)] = x], Len(s)) = Front(s)
<1>1. PICK t, n, r, f : /\ t = [s EXCEPT ![Len(s)] = x] /\ n = Len(s)
                        /\ r = RemoveAt(t, n) /\ f = Front(s)
  OBVIOUS
<1>2. n \in 1 .. n /\ f \in Seq(S) /\ Len(f) = n - 1 /\ \A j \in 1 .. n - 1 : f[j] = s[j]
  BY <1>1, FrontElements
<1>3. t \in Seq(S) /\ Len(t) = n /\ n \in DOMAIN t /\ \A j \in 1 .. n - 1 : t[j] = s[j]
  <2>1. s \in [1 .. n -> S] /\ n \in Nat
    BY <1>1, LenProperties
  <2>2. t \in [1 .. n -> S] /\ \A j \in 1 .. n - 1 : t[j] = s[j]
    BY <1>1, <1>2, <2>1
  <2>3. t \in Seq(S)
    BY <1>1
  <2>4. QED
    BY <1>2, <2>1, <2>2, <2>3, LenProperties
<1>4. /\ r \in Seq(S) /\ Len(r) = n - 1
      /\ \A j \in 1 .. n - 1 : r[j] = IF j < n THEN t[j] ELSE t[j + 1]
  <2>1. /\ RemoveAt(t, n) \in Seq(S) /\ Len(RemoveAt(t, n)) = Len(t) - 1
        /\ \A j \in 1 .. Len(t) - 1 : RemoveAt(t, n)[j] = IF j < n THEN t[j] ELSE t[j + 1]
    BY <1>3, RemoveAtElements
  <2>2. QED
    BY <1>1, <1>3, <2>1
<1>5. \A j \in 1 .. Len(r) : r[j] = f[j]
  BY <1>2, <1>3, <1>4
<1>6. Len(r) = Len(f)
  BY <1>2, <1>4
<1>7. r = f
  BY <1>2, <1>4, <1>5, <1>6, SeqEqual
<1>8. QED
  BY <1>1, <1>7

(* Replacing an element and removing the next one may change places.       *)
LEMMA ReplaceThenRemove ==
  ASSUME NEW S, NEW s \in Seq(S), NEW i \in Nat, i \in DOMAIN s, i + 1 \in DOMAIN s, NEW x \in S
  PROVE  RemoveAt([s EXCEPT ![i] = x], i + 1) = [RemoveAt(s, i + 1) EXCEPT ![i] = x]
<1>1. PICK k, n, t, r, u, v : /\ k = i + 1 /\ n = Len(s) /\ t = [s EXCEPT ![i] = x]
                              /\ r = RemoveAt(t, k) /\ u = RemoveAt(s, k)
                              /\ v = [u EXCEPT ![i] = x]
  OBVIOUS
<1>2. /\ n \in Nat /\ i \in 1 .. n /\ k \in 1 .. n /\ i < k /\ k \in DOMAIN s
      /\ s \in [1 .. n -> S] /\ DOMAIN s = 1 .. n
  BY <1>1, LenProperties
<1>3. t \in Seq(S) /\ Len(t) = n /\ k \in DOMAIN t
  <2>1. t \in Seq(S) /\ DOMAIN t = 1 .. n
    BY <1>1, <1>2
  <2>2. QED
    BY <1>2, <2>1, LenProperties
<1>4. t[i] = x /\ \A j \in 1 .. n : j # i => t[j] = s[j]
  BY <1>1, <1>2
<1>5. /\ r \in Seq(S) /\ Len(r) = n - 1
      /\ \A j \in 1 .. n - 1 : r[j] = IF j < k THEN t[j] ELSE t[j + 1]
  BY <1>1, <1>3, RemoveAtElements
<1>6. /\ u \in Seq(S) /\ Len(u) = n - 1
      /\ \A j \in 1 .. n - 1 : u[j] = IF j < k THEN s[j] ELSE s[j + 1]
  BY <1>1, <1>2, RemoveAtElements
<1>7. i \in 1 .. n - 1 /\ DOMAIN u = 1 .. n - 1 /\ n - 1 \in Nat
  BY <1>1, <1>2, <1>6, LenProperties
<1>8. v \in Seq(S) /\ DOMAIN v = 1 .. n - 1 /\ v[i] = x
      /\ \A j \in 1 .. n - 1 : j # i => v[j] = u[j]
  BY <1>1, <1>6, <1>7
<1>9. Len(v) = n - 1
  BY <1>7, <1>8, LenProperties
<1>10. ASSUME NEW j \in 1 .. n - 1 PROVE r[j] = v[j]
  <2>1. r[j] = IF j < k THEN t[j] ELSE t[j + 1]
    BY <1>5
  <2>2. CASE j = i
    BY <1>2, <1>4, <1>8, <2>1, <2>2
  <2>3. CASE j # i /\ j < k
    <3>1. j \in 1 .. n /\ v[j] = u[j] /\ u[j] = s[j]
      BY <1>2, <1>6, <1>8, <2>3
    <3>2. QED
      BY <1>4, <2>1, <2>3, <3>1
  <2>4. CASE j # i /\ ~(j < k)
    <3>1. j + 1 \in 1 .. n /\ j + 1 # i /\ v[j] = u[j] /\ u[j] = s[j + 1]
      BY <1>1, <1>2, <1>6, <1>8, <2>4
    <3>2. QED
      BY <1>4, <2>1, <2>4, <3>1
  <2>5. QED
    BY <2>2, <2>3, <2>4
<1>11. r = v
  BY <1>5, <1>8, <1>9, <1>10, SeqEqual
<1>12. QED
  BY <1>1, <1>11

LEMMA LeastNatural ==
  ASSUME NEW S \in SUBSET Nat, S # {}
  PROVE  Min(S) \in S /\ \A y \in S : Min(S) <= y
<1>1. \E x \in S : \A y \in S : x <= y
  <2> DEFINE R == OpToRel(<, Nat)
  <2>1. IsWellFoundedOn(R, Nat)
    BY NatLessThanWellFounded
  <2>2. PICK x \in S : \A y \in S : ~(<<y, x>> \in R)
    <3> HIDE DEF R
    <3> QED BY <2>1, WFMin
  <2>3. \A y \in S : ~(y < x)
    BY <2>2 DEF OpToRel
  <2>4. QED
    BY <2>3
<1>2. QED
  BY <1>1 DEF Min

-----------------------------------------------------------------------------
(* Lists of blocks in the order of their addresses, with words between any *)
(* two of them, below the end e of a heap.                                 *)
AnyBlock == [at : Nat, size : Nat]

Sound(b, e) == b \in AnyBlock /\ b.size >= Entry /\ Start <= b.at /\ After(b) <= e

Ordered(list, e) ==
  /\ list \in Seq(AnyBlock)
  /\ \A i \in DOMAIN list : Sound(list[i], e)
  /\ \A i, j \in DOMAIN list : i < j => After(list[i]) < list[j].at

ListOwns(list, w) == \E i \in DOMAIN list : Owns(list[i], w)

LEMMA ListFacts ==
  ASSUME NEW list, NEW e \in Nat, Ordered(list, e)
  PROVE  /\ Len(list) \in Nat /\ DOMAIN list = 1 .. Len(list)
         /\ \A i \in 1 .. Len(list) :
              /\ list[i] \in AnyBlock /\ list[i].at \in Nat /\ list[i].size \in Nat
              /\ After(list[i]) = list[i].at + list[i].size
              /\ list[i].size >= 2 /\ Start <= list[i].at /\ After(list[i]) <= e
         /\ \A i, j \in 1 .. Len(list) : i < j => After(list[i]) < list[j].at
BY LenProperties DEF Ordered, Sound, AnyBlock, After, Entry

(* No word has two owners.                                                 *)
LEMMA OneOwner ==
  ASSUME NEW list, NEW e \in Nat, Ordered(list, e), NEW w \in Nat,
         NEW i \in DOMAIN list, NEW j \in DOMAIN list, Owns(list[i], w), Owns(list[j], w)
  PROVE  i = j
<1>1. /\ DOMAIN list = 1 .. Len(list) /\ Len(list) \in Nat
      /\ list[i].at \in Nat /\ list[i].size \in Nat /\ list[j].at \in Nat /\ list[j].size \in Nat
      /\ After(list[i]) = list[i].at + list[i].size
      /\ After(list[j]) = list[j].at + list[j].size
      /\ i < j => After(list[i]) < list[j].at
      /\ j < i => After(list[j]) < list[i].at
  BY ListFacts
<1>2. i \in Nat /\ j \in Nat
  BY <1>1
<1>3. QED
  BY <1>1, <1>2 DEF Owns

LEMMA RaisedEnd ==
  ASSUME NEW list, NEW e \in Nat, NEW f \in Nat, e <= f, Ordered(list, e)
  PROVE  Ordered(list, f)
<1>1. ASSUME NEW i \in DOMAIN list PROVE Sound(list[i], f)
  <2>1. Sound(list[i], e)
    BY DEF Ordered
  <2>2. After(list[i]) \in Nat
    BY <2>1 DEF Sound, AnyBlock, After
  <2>3. QED
    BY <2>1, <2>2 DEF Sound
<1>2. QED
  BY <1>1 DEF Ordered

(* One block is taken out.                                                 *)
LEMMA RemoveOrdered ==
  ASSUME NEW list, NEW e \in Nat, Ordered(list, e), NEW i \in DOMAIN list
  PROVE  /\ Ordered(RemoveAt(list, i), e)
         /\ \A w \in Nat : ListOwns(RemoveAt(list, i), w) <=> ListOwns(list, w) /\ ~Owns(list[i], w)
<1>1. PICK new : new = RemoveAt(list, i)
  OBVIOUS
<1>2. /\ new \in Seq(AnyBlock) /\ Len(new) = Len(list) - 1
      /\ \A j \in 1 .. Len(list) - 1 : new[j] = IF j < i THEN list[j] ELSE list[j + 1]
  BY <1>1, RemoveAtElements DEF Ordered
<1>3. Len(list) \in Nat /\ DOMAIN list = 1 .. Len(list) /\ i \in 1 .. Len(list)
  BY ListFacts
<1>4. DOMAIN new = 1 .. Len(list) - 1
  BY <1>2, LenProperties
<1> DEFINE Old(j) == IF j < i THEN j ELSE j + 1
<1>5. ASSUME NEW j \in DOMAIN new
      PROVE  Old(j) \in DOMAIN list /\ Old(j) # i /\ new[j] = list[Old(j)]
  <2>1. new[j] = IF j < i THEN list[j] ELSE list[j + 1]
    BY <1>2, <1>4
  <2>2. QED
    BY <1>3, <1>4, <2>1
<1>6. \A j, k \in DOMAIN new : j < k => Old(j) < Old(k)
  BY <1>3, <1>4
<1>7. \A k \in DOMAIN list : k # i => \E j \in DOMAIN new : Old(j) = k
  <2>1. SUFFICES ASSUME NEW k \in DOMAIN list, k # i PROVE \E j \in DOMAIN new : Old(j) = k
    OBVIOUS
  <2>2. CASE k < i
    <3>1. k \in DOMAIN new
      BY <1>3, <1>4, <2>2
    <3>2. QED
      BY <2>2, <3>1
  <2>3. CASE k > i
    <3>1. k - 1 \in DOMAIN new /\ ~(k - 1 < i) /\ k - 1 + 1 = k
      BY <1>3, <1>4, <2>3
    <3>2. QED
      BY <3>1
  <2>4. QED
    BY <1>3, <2>1, <2>2, <2>3
<1> HIDE DEF Old
<1>8. Ordered(new, e)
  <2>1. \A j \in DOMAIN new : Sound(new[j], e)
    BY <1>5 DEF Ordered
  <2>2. \A j, k \in DOMAIN new : j < k => After(new[j]) < new[k].at
    BY <1>5, <1>6 DEF Ordered
  <2>3. QED
    BY <1>2, <2>1, <2>2 DEF Ordered
<1>9. ASSUME NEW w \in Nat
      PROVE  ListOwns(new, w) <=> ListOwns(list, w) /\ ~Owns(list[i], w)
  <2>1. ASSUME NEW j \in DOMAIN new, Owns(new[j], w)
        PROVE  ListOwns(list, w) /\ ~Owns(list[i], w)
    BY <1>5, <2>1, OneOwner DEF ListOwns
  <2>2. ASSUME NEW k \in DOMAIN list, Owns(list[k], w), ~Owns(list[i], w)
        PROVE  ListOwns(new, w)
    BY <1>5, <1>7, <2>2 DEF ListOwns
  <2>3. QED
    BY <2>1, <2>2 DEF ListOwns
<1>10. QED
  BY <1>1, <1>8, <1>9

(* A block fits in place of block i: it lies between i's neighbours.       *)
FitsAt(list, i, b) ==
  /\ \A j \in DOMAIN list : j < i => After(list[j]) < b.at
  /\ \A j \in DOMAIN list : j > i => After(b) < list[j].at

LEMMA ReplaceOrdered ==
  ASSUME NEW list, NEW e \in Nat, Ordered(list, e), NEW i \in DOMAIN list,
         NEW b, Sound(b, e), FitsAt(list, i, b)
  PROVE  /\ Ordered([list EXCEPT ![i] = b], e)
         /\ \A w \in Nat : ListOwns([list EXCEPT ![i] = b], w) <=>
              (ListOwns(list, w) /\ ~Owns(list[i], w)) \/ Owns(b, w)
<1>1. PICK new : new = [list EXCEPT ![i] = b]
  OBVIOUS
<1>2. Len(list) \in Nat /\ DOMAIN list = 1 .. Len(list) /\ i \in 1 .. Len(list)
  BY ListFacts
<1>3. b \in AnyBlock
  BY DEF Sound
<1>4. new \in Seq(AnyBlock) /\ DOMAIN new = DOMAIN list
  BY <1>1, <1>3 DEF Ordered
<1>5. new[i] = b /\ \A j \in DOMAIN list : j # i => new[j] = list[j]
  BY <1>1
<1>6. Ordered(new, e)
  <2>1. \A j \in DOMAIN new : Sound(new[j], e)
    BY <1>4, <1>5 DEF Ordered
  <2>2. ASSUME NEW j \in DOMAIN new, NEW k \in DOMAIN new, j < k
        PROVE  After(new[j]) < new[k].at
    <3>1. j \in Nat /\ k \in Nat /\ i \in Nat
      BY <1>2, <1>4
    <3>2. CASE j = i
      BY <1>4, <1>5, <2>2, <3>1, <3>2 DEF FitsAt
    <3>3. CASE k = i
      BY <1>4, <1>5, <2>2, <3>1, <3>3 DEF FitsAt
    <3>4. CASE j # i /\ k # i
      BY <1>4, <1>5, <2>2, <3>4 DEF Ordered
    <3>5. QED
      BY <3>2, <3>3, <3>4
  <2>3. QED
    BY <1>4, <2>1, <2>2 DEF Ordered
<1>7. ASSUME NEW w \in Nat
      PROVE  ListOwns(new, w) <=> (ListOwns(list, w) /\ ~Owns(list[i], w)) \/ Owns(b, w)
  BY <1>4, <1>5, OneOwner DEF ListOwns
<1>8. QED
  BY <1>1, <1>6, <1>7

LEMMA InsertOrdered ==
  ASSUME NEW list, NEW e \in Nat, Ordered(list, e), NEW i \in 1 .. Len(list) + 1,
         NEW b, Sound(b, e),
         \A j \in DOMAIN list : j < i => After(list[j]) < b.at,
         \A j \in DOMAIN list : j >= i => After(b) < list[j].at
  PROVE  /\ Ordered(InsertAt(list, i, b), e)
         /\ \A w \in Nat : ListOwns(InsertAt(list, i, b), w) <=> ListOwns(list, w) \/ Owns(b, w)
<1>1. PICK new : new = InsertAt(list, i, b)
  OBVIOUS
<1>2. Len(list) \in Nat /\ DOMAIN list = 1 .. Len(list)
  BY ListFacts
<1>3. b \in AnyBlock /\ list \in Seq(AnyBlock)
  BY DEF Sound, Ordered
<1>4. /\ new \in Seq(AnyBlock) /\ Len(new) = Len(list) + 1
      /\ \A j \in 1 .. Len(list) + 1 :
           new[j] = IF j < i THEN list[j] ELSE IF j = i THEN b ELSE list[j - 1]
  <2>1. /\ InsertAt(list, i, b) \in Seq(AnyBlock)
        /\ Len(InsertAt(list, i, b)) = Len(list) + 1
        /\ \A j \in 1 .. Len(list) + 1 :
             InsertAt(list, i, b)[j] = IF j < i THEN list[j] ELSE IF j = i THEN b ELSE list[j - 1]
    <3> HIDE DEF InsertAt
    <3> QED  BY <1>3, InsertAtElements
  <2>2. QED
    BY <1>1, <2>1
<1>5. DOMAIN new = 1 .. Len(list) + 1
  BY <1>4, LenProperties
<1> DEFINE Old(j) == IF j < i THEN j ELSE j - 1
<1>6. i \in DOMAIN new /\ new[i] = b
  BY <1>2, <1>4, <1>5
<1>7. \A j \in DOMAIN new : j # i => Old(j) \in DOMAIN list /\ new[j] = list[Old(j)]
  BY <1>2, <1>4, <1>5
<1>8. /\ \A j, k \in DOMAIN new : j # i /\ k # i /\ j < k => Old(j) < Old(k)
      /\ \A j \in DOMAIN new : (j < i => Old(j) < i) /\ (j > i => Old(j) >= i)
  BY <1>2, <1>5
<1>9. \A k \in DOMAIN list : \E j \in DOMAIN new : j # i /\ Old(j) = k
  <2>1. SUFFICES ASSUME NEW k \in DOMAIN list PROVE \E j \in DOMAIN new : j # i /\ Old(j) = k
    OBVIOUS
  <2>2. CASE k < i
    <3>1. k \in DOMAIN new /\ k # i
      BY <1>2, <1>5, <2>2
    <3>2. QED
      BY <2>2, <3>1
  <2>3. CASE k >= i
    <3>1. k + 1 \in DOMAIN new /\ ~(k + 1 < i) /\ k + 1 # i /\ k + 1 - 1 = k
      BY <1>2, <1>5, <2>3
    <3>2. QED
      BY <3>1
  <2>4. QED
    BY <1>2, <2>1, <2>2, <2>3
<1> HIDE DEF Old
<1>10. Ordered(new, e)
  <2>1. \A j \in DOMAIN new : Sound(new[j], e)
    BY <1>6, <1>7 DEF Ordered
  <2>2. ASSUME NEW j \in DOMAIN new, NEW k \in DOMAIN new, j < k
        PROVE  After(new[j]) < new[k].at
    <3>1. j \in Nat /\ k \in Nat /\ i \in Nat
      BY <1>2, <1>5
    <3>2. CASE j = i
      BY <1>6, <1>7, <1>8, <2>2, <3>1, <3>2
    <3>3. CASE k = i
      BY <1>6, <1>7, <1>8, <2>2, <3>1, <3>3
    <3>4. CASE j # i /\ k # i
      BY <1>7, <1>8, <2>2, <3>4 DEF Ordered
    <3>5. QED
      BY <3>2, <3>3, <3>4
  <2>3. QED
    BY <1>4, <2>1, <2>2 DEF Ordered
<1>11. ASSUME NEW w \in Nat
       PROVE  ListOwns(new, w) <=> ListOwns(list, w) \/ Owns(b, w)
  <2>1. ASSUME NEW j \in DOMAIN new, Owns(new[j], w)
        PROVE  ListOwns(list, w) \/ Owns(b, w)
    BY <1>6, <1>7, <2>1 DEF ListOwns
  <2>2. ASSUME NEW k \in DOMAIN list, Owns(list[k], w) PROVE ListOwns(new, w)
    BY <1>7, <1>9, <2>2 DEF ListOwns
  <2>3. QED
    BY <1>6, <2>1, <2>2 DEF ListOwns
<1>12. QED
  BY <1>1, <1>10, <1>11

-----------------------------------------------------------------------------
(* Heaps, and what a call that looks for a block of real words gives: a    *)
(* heap that may have grown, and a block at most, whose words were free or *)
(* beyond the end and are free no more.                                    *)
IsHeap(h) ==
  /\ h \in [end : Nat, free : Seq(AnyBlock)]
  /\ Start <= h.end /\ h.end <= Limit - Gap
  /\ Ordered(h.free, h.end)

FreeWord(h, w) == ListOwns(h.free, w)

Gives(h, r, real) ==
  /\ IsHeap(r.heap) /\ h.end <= r.heap.end
  /\ r.block = {} \/ \E b : r.block = {b}
  /\ \A b \in r.block :
       /\ Sound(b, r.heap.end) /\ b.size >= real
       /\ \A w \in Nat : Owns(b, w) => ~FreeWord(r.heap, w)
  /\ \A w \in Nat : FreeWord(r.heap, w) \/ (\E b \in r.block : Owns(b, w))
                      <=> FreeWord(h, w) \/ (h.end <= w /\ w < r.heap.end)

LEMMA HeapFacts ==
  ASSUME NEW h, IsHeap(h)
  PROVE  /\ h.end \in Nat /\ Start \in Nat /\ Limit \in Nat
         /\ Start <= h.end /\ h.end + 4 <= Limit
         /\ Len(h.free) \in Nat /\ DOMAIN h.free = 1 .. Len(h.free)
         /\ \A i \in 1 .. Len(h.free) :
              /\ h.free[i] \in AnyBlock /\ h.free[i].at \in Nat /\ h.free[i].size \in Nat
              /\ After(h.free[i]) = h.free[i].at + h.free[i].size
              /\ h.free[i].size >= 2 /\ Start <= h.free[i].at /\ After(h.free[i]) <= h.end
         /\ \A i, j \in 1 .. Len(h.free) : i < j => After(h.free[i]) < h.free[j].at
<1>1. h.end \in Nat /\ Ordered(h.free, h.end) /\ Start <= h.end /\ h.end <= Limit - Gap
  BY DEF IsHeap
<1>2. h.end + 4 <= Limit
  BY <1>1, HeapAssumption, LimitAssumption DEF Gap
<1>3. PICK list, e : list = h.free /\ e = h.end
  OBVIOUS
<1>4. Ordered(list, e) /\ e \in Nat
  BY <1>1, <1>3
<1>5. /\ Len(list) \in Nat /\ DOMAIN list = 1 .. Len(list)
      /\ \A i \in 1 .. Len(list) :
           /\ list[i] \in AnyBlock /\ list[i].at \in Nat /\ list[i].size \in Nat
           /\ After(list[i]) = list[i].at + list[i].size
           /\ list[i].size >= 2 /\ Start <= list[i].at /\ After(list[i]) <= e
      /\ \A i, j \in 1 .. Len(list) : i < j => After(list[i]) < list[j].at
  BY <1>4, ListFacts
<1>6. h.end \in Nat /\ Start \in Nat /\ Limit \in Nat
  BY <1>1, HeapAssumption, LimitAssumption
<1>7. QED
  BY <1>1, <1>2, <1>3, <1>5, <1>6

LEMMA FreeWordsWithin ==
  ASSUME NEW h, IsHeap(h), NEW w \in Nat, FreeWord(h, w)
  PROVE  w < h.end
<1>1. PICK i \in DOMAIN h.free : Owns(h.free[i], w)
  BY DEF FreeWord, ListOwns
<1>2. PICK f : f = h.free[i]
  OBVIOUS
<1>3. /\ After(f) = f.at + f.size /\ f.at \in Nat /\ f.size \in Nat
      /\ After(f) <= h.end /\ h.end \in Nat
  BY <1>2, HeapFacts
<1>4. QED
  BY <1>1, <1>2, <1>3 DEF Owns

LEMMA GivesFound ==
  ASSUME NEW h, IsHeap(h), NEW e \in Nat, h.end <= e, e + 4 <= Limit,
         NEW list, Ordered(list, e), NEW b, Sound(b, e), NEW real \in Nat, b.size >= real,
         \A w \in Nat : Owns(b, w) => ~ListOwns(list, w),
         \A w \in Nat : ListOwns(list, w) \/ Owns(b, w)
                          <=> ListOwns(h.free, w) \/ (h.end <= w /\ w < e)
  PROVE  Gives(h, Found(e, list, b), real)
<1>1. PICK r : r = Found(e, list, b)
  OBVIOUS
<1>2. r.heap = [end |-> e, free |-> list] /\ r.block = {b}
  BY <1>1 DEF Found
<1>3. r.heap.end = e /\ r.heap.free = list
  BY <1>2
<1>4. Start <= e /\ e <= Limit - Gap
  BY HeapFacts DEF Gap
<1>5. IsHeap(r.heap)
  BY <1>2, <1>3, <1>4 DEF IsHeap, Ordered
<1>6. QED
  BY <1>1, <1>2, <1>3, <1>5 DEF Gives, FreeWord

(* Nothing is found.                                                       *)
LEMMA GivesNull ==
  ASSUME NEW h, IsHeap(h), NEW real
  PROVE  Gives(h, Null(h), real)
<1>1. PICK r : r = Null(h)
  OBVIOUS
<1>2. r.heap = h /\ r.block = {}
  BY <1>1 DEF Null
<1>3. h.end \in Nat
  BY HeapFacts
<1>4. QED
  BY <1>1, <1>2, <1>3 DEF Gives

(* A whole free block is taken.                                            *)
LEMMA TakeGives ==
  ASSUME NEW h, IsHeap(h), NEW i \in DOMAIN h.free, NEW real \in Nat, h.free[i].size >= real
  PROVE  Gives(h, Take(h, i, real), real)
<1>1. h.end \in Nat /\ h.end + 4 <= Limit
  BY HeapFacts
<1>2. Ordered(h.free, h.end)
  BY DEF IsHeap
<1>3. /\ Ordered(RemoveAt(h.free, i), h.end)
      /\ \A w \in Nat : ListOwns(RemoveAt(h.free, i), w)
                          <=> ListOwns(h.free, w) /\ ~Owns(h.free[i], w)
  BY <1>1, <1>2, RemoveOrdered
<1>4. Sound(h.free[i], h.end)
  BY <1>2 DEF Ordered
<1>5. \A w \in Nat : Owns(h.free[i], w) => ListOwns(h.free, w) /\ w < h.end
  BY FreeWordsWithin DEF ListOwns, FreeWord
<1>6. QED
  BY <1>1, <1>3, <1>4, <1>5, GivesFound DEF Take

LEMMA BlockFacts ==
  ASSUME NEW a \in Nat, NEW s \in Nat
  PROVE  /\ Block(a, s) \in AnyBlock /\ Block(a, s).at = a /\ Block(a, s).size = s
         /\ After(Block(a, s)) = a + s
BY DEF Block, AnyBlock, After

(* A free block among the others of its heap.                              *)
LEMMA BlockInHeap ==
  ASSUME NEW h, IsHeap(h), NEW i \in DOMAIN h.free, NEW f, f = h.free[i]
  PROVE  /\ h.end \in Nat /\ h.end + 4 <= Limit /\ Start \in Nat /\ Limit \in Nat
         /\ f.at \in Nat /\ f.size \in Nat /\ f.size >= 2
         /\ After(f) = f.at + f.size /\ Start <= f.at /\ After(f) <= h.end
         /\ \A j \in DOMAIN h.free : After(h.free[j]) \in Nat /\ h.free[j].at \in Nat
         /\ \A j \in DOMAIN h.free : j < i => After(h.free[j]) < f.at
         /\ \A j \in DOMAIN h.free : j > i => After(f) < h.free[j].at
         /\ \A w \in Nat : Owns(f, w) => FreeWord(h, w) /\ w < h.end
<1>1. /\ h.end \in Nat /\ h.end + 4 <= Limit /\ Start \in Nat /\ Limit \in Nat
      /\ Len(h.free) \in Nat /\ DOMAIN h.free = 1 .. Len(h.free)
      /\ \A j \in 1 .. Len(h.free) :
           /\ h.free[j].at \in Nat /\ h.free[j].size \in Nat
           /\ After(h.free[j]) = h.free[j].at + h.free[j].size
           /\ h.free[j].size >= 2 /\ Start <= h.free[j].at /\ After(h.free[j]) <= h.end
      /\ \A j, k \in 1 .. Len(h.free) : j < k => After(h.free[j]) < h.free[k].at
  BY HeapFacts
<1>2. i \in 1 .. Len(h.free) /\ i \in Nat
  BY <1>1
<1>3. \A j \in DOMAIN h.free : After(h.free[j]) \in Nat /\ h.free[j].at \in Nat
  <2>1. SUFFICES ASSUME NEW j \in DOMAIN h.free
                 PROVE  After(h.free[j]) \in Nat /\ h.free[j].at \in Nat
    OBVIOUS
  <2>2. /\ After(h.free[j]) = h.free[j].at + h.free[j].size
        /\ h.free[j].at \in Nat /\ h.free[j].size \in Nat
    BY <1>1
  <2>3. QED
    BY <2>2
<1>4. \A j \in DOMAIN h.free : j < i => After(h.free[j]) < f.at
  BY <1>1, <1>2
<1>5. \A j \in DOMAIN h.free : j > i => After(f) < h.free[j].at
  BY <1>1, <1>2
<1>6. \A w \in Nat : Owns(f, w) => FreeWord(h, w)
  BY DEF FreeWord, ListOwns
<1>7. \A w \in Nat : Owns(f, w) => w < h.end
  BY <1>6, FreeWordsWithin
<1>8. QED
  BY <1>1, <1>2, <1>3, <1>4, <1>5, <1>6, <1>7

(* The words of a free block are shared out: b is taken, c stays free.     *)
LEMMA PartGives ==
  ASSUME NEW h, IsHeap(h), NEW i \in DOMAIN h.free, NEW f, f = h.free[i],
         NEW real \in Nat, NEW b, NEW c,
         Sound(b, h.end), Sound(c, h.end), FitsAt(h.free, i, c), b.size >= real,
         \A w \in Nat : /\ Owns(f, w) <=> Owns(b, w) \/ Owns(c, w)
                        /\ ~(Owns(b, w) /\ Owns(c, w))
  PROVE  Gives(h, Found(h.end, [h.free EXCEPT ![i] = c], b), real)
<1>1. PICK new : new = [h.free EXCEPT ![i] = c]
  OBVIOUS
<1>2. h.end \in Nat /\ h.end + 4 <= Limit
  BY HeapFacts
<1>3. Ordered(h.free, h.end)
  BY DEF IsHeap
<1>4. /\ Ordered(new, h.end)
      /\ \A w \in Nat : ListOwns(new, w) <=> (ListOwns(h.free, w) /\ ~Owns(f, w)) \/ Owns(c, w)
  BY <1>1, <1>2, <1>3, ReplaceOrdered
<1>5. \A w \in Nat : Owns(f, w) => ListOwns(h.free, w) /\ w < h.end
  BY BlockInHeap DEF FreeWord
<1>6. \A w \in Nat : Owns(b, w) => ~ListOwns(new, w)
  BY <1>4
<1>7. \A w \in Nat : ListOwns(new, w) \/ Owns(b, w)
                       <=> ListOwns(h.free, w) \/ (h.end <= w /\ w < h.end)
  BY <1>2, <1>4, <1>5
<1>8. Gives(h, Found(h.end, new, b), real)
  BY <1>2, <1>4, <1>6, <1>7, GivesFound
<1>9. QED
  BY <1>1, <1>8

(* The front of a free block is taken, and a block is left.                *)
LEMMA SplitGives ==
  ASSUME NEW h, IsHeap(h), NEW i \in DOMAIN h.free, NEW real \in Nat, real >= 2,
         h.free[i].size >= real + 2
  PROVE  Gives(h, Split(h, i, real), real)
<1>1. PICK f : f = h.free[i]
  OBVIOUS
<1>2. /\ h.end \in Nat /\ f.at \in Nat /\ f.size \in Nat /\ f.size >= real + 2
      /\ After(f) = f.at + f.size /\ Start <= f.at /\ After(f) <= h.end /\ Start \in Nat
      /\ \A j \in DOMAIN h.free : After(h.free[j]) \in Nat /\ h.free[j].at \in Nat
      /\ \A j \in DOMAIN h.free : j < i => After(h.free[j]) < f.at
      /\ \A j \in DOMAIN h.free : j > i => After(f) < h.free[j].at
  BY <1>1, BlockInHeap
<1>3. PICK b, c : b = Block(f.at, real) /\ c = Block(f.at + real, f.size - real)
  OBVIOUS
<1>4. f.at + real \in Nat /\ f.size - real \in Nat /\ (f.at + real) + (f.size - real) = f.at + f.size
  BY <1>2
<1>5. /\ b \in AnyBlock /\ b.at = f.at /\ b.size = real /\ After(b) = f.at + real
      /\ c \in AnyBlock /\ c.at = f.at + real /\ c.size = f.size - real /\ After(c) = f.at + f.size
  <2>1. b \in AnyBlock /\ b.at = f.at /\ b.size = real /\ After(b) = f.at + real
    BY <1>2, <1>3, BlockFacts
  <2>2. /\ c \in AnyBlock /\ c.at = f.at + real /\ c.size = f.size - real
        /\ After(c) = (f.at + real) + (f.size - real)
    BY <1>3, <1>4, BlockFacts
  <2>3. QED
    BY <1>4, <2>1, <2>2
<1>6. Sound(b, h.end) /\ Sound(c, h.end)
  BY <1>2, <1>5 DEF Sound, Entry
<1>7. FitsAt(h.free, i, c)
  BY <1>2, <1>5 DEF FitsAt
<1>8. \A w \in Nat : /\ Owns(f, w) <=> Owns(b, w) \/ Owns(c, w)
                     /\ ~(Owns(b, w) /\ Owns(c, w))
  BY <1>2, <1>5 DEF Owns
<1>9. b.size >= real
  BY <1>5
<1>10. Gives(h, Found(h.end, [h.free EXCEPT ![i] = c], b), real)
  BY <1>1, <1>6, <1>7, <1>8, <1>9, PartGives
<1>11. QED
  BY <1>1, <1>3, <1>10 DEF Split

-----------------------------------------------------------------------------
(* A heap grows by a larger last block, or by a new one.                   *)
Grows(h, g) ==
  /\ IsHeap(g) /\ h.end <= g.end
  /\ \A w \in Nat : FreeWord(g, w) <=> FreeWord(h, w) \/ (h.end <= w /\ w < g.end)

LEMMA GivesThrough ==
  ASSUME NEW h, IsHeap(h), NEW g, Grows(h, g), NEW r, NEW real, Gives(g, r, real)
  PROVE  Gives(h, r, real)
<1>1. h.end \in Nat /\ g.end \in Nat /\ r.heap.end \in Nat /\ h.end <= g.end /\ g.end <= r.heap.end
  BY HeapFacts DEF Grows, Gives
<1>2. ASSUME NEW w \in Nat
      PROVE  FreeWord(r.heap, w) \/ (\E b \in r.block : Owns(b, w))
               <=> FreeWord(h, w) \/ (h.end <= w /\ w < r.heap.end)
  <2>1. FreeWord(r.heap, w) \/ (\E b \in r.block : Owns(b, w))
          <=> FreeWord(g, w) \/ (g.end <= w /\ w < r.heap.end)
    BY DEF Gives
  <2>2. FreeWord(g, w) <=> FreeWord(h, w) \/ (h.end <= w /\ w < g.end)
    BY DEF Grows
  <2>3. QED
    BY <1>1, <2>1, <2>2
<1>3. QED
  BY <1>1, <1>2 DEF Gives

(* The last free block, at the end of the heap, is enlarged to n words.    *)
LargerLast(h, n) ==
  [end |-> Last(h.free).at + n,
   free |-> [h.free EXCEPT ![Len(h.free)] = Block(Last(h.free).at, n)]]

LEMMA LastInHeap ==
  ASSUME NEW h, IsHeap(h), EndsFree(h), NEW f, f = Last(h.free)
  PROVE  /\ Len(h.free) \in DOMAIN h.free /\ f = h.free[Len(h.free)]
         /\ f \in AnyBlock /\ f.at \in Nat /\ f.size \in Nat /\ f.size >= 2 /\ Start <= f.at
         /\ After(f) = f.at + f.size /\ h.end = f.at + f.size
<1>1. h.free \in Seq(AnyBlock) /\ h.free # <<>>
  BY DEF IsHeap, EndsFree
<1>2. Len(h.free) \in 1 .. Len(h.free) /\ f = h.free[Len(h.free)]
  BY <1>1, FrontElements
<1>3. QED
  BY <1>2, HeapFacts DEF EndsFree

LEMMA LargerLastGrows ==
  ASSUME NEW h, IsHeap(h), EndsFree(h), NEW n \in Nat,
         Last(h.free).size <= n, CanAlloc(h, n - Last(h.free).size)
  PROVE  /\ Grows(h, LargerLast(h, n))
         /\ LargerLast(h, n).free[Len(h.free)] = Block(Last(h.free).at, n)
         /\ Len(LargerLast(h, n).free) = Len(h.free)
<1>1. PICK f, i : f = Last(h.free) /\ i = Len(h.free)
  OBVIOUS
<1>2. /\ i \in DOMAIN h.free /\ f = h.free[i] /\ i \in Nat
      /\ f.at \in Nat /\ f.size \in Nat /\ f.size >= 2 /\ Start <= f.at
      /\ After(f) = f.at + f.size /\ h.end = f.at + f.size
  BY <1>1, LastInHeap, HeapFacts
<1>3. /\ h.end \in Nat /\ Limit \in Nat /\ Start \in Nat /\ DOMAIN h.free = 1 .. i
      /\ \A j \in DOMAIN h.free : j < i => After(h.free[j]) < f.at
      /\ \A w \in Nat : Owns(f, w) => FreeWord(h, w) /\ w < h.end
  BY <1>1, <1>2, HeapFacts, BlockInHeap
<1>4. PICK b, e : b = Block(f.at, n) /\ e = f.at + n
  OBVIOUS
<1>5. /\ e \in Nat /\ h.end <= e /\ b \in AnyBlock /\ b.at = f.at /\ b.size = n /\ After(b) = e
  <2>1. f.size <= n
    BY <1>1
  <2>2. b \in AnyBlock /\ b.at = f.at /\ b.size = n /\ After(b) = e
    BY <1>2, <1>4, BlockFacts
  <2>3. QED
    BY <1>2, <1>4, <2>1, <2>2
<1>6. e + 4 <= Limit
  <2>1. Limit - h.end - 4 >= n - f.size
    BY <1>1 DEF CanAlloc, Gap
  <2>2. h.end \in Nat /\ Limit \in Nat
    BY <1>3
  <2>3. QED
    BY <1>2, <1>4, <2>1, <2>2
<1>7. Ordered(h.free, e)
  BY <1>3, <1>5, RaisedEnd DEF IsHeap
<1>8. Sound(b, e) /\ FitsAt(h.free, i, b)
  <2>1. Sound(b, e)
    BY <1>1, <1>2, <1>5 DEF Sound, Entry
  <2>2. \A j \in DOMAIN h.free : ~(j > i)
    BY <1>2, <1>3
  <2>3. QED
    BY <1>3, <1>5, <2>1, <2>2 DEF FitsAt
<1>9. PICK new : new = [h.free EXCEPT ![i] = b]
  OBVIOUS
<1>10. /\ Ordered(new, e)
       /\ \A w \in Nat : ListOwns(new, w) <=> (ListOwns(h.free, w) /\ ~Owns(f, w)) \/ Owns(b, w)
  BY <1>2, <1>5, <1>7, <1>8, <1>9, ReplaceOrdered
<1>11. PICK g : g = LargerLast(h, n)
  OBVIOUS
<1>12. g = [end |-> e, free |-> new]
  BY <1>1, <1>4, <1>9, <1>11 DEF LargerLast
<1>13. IsHeap(g)
  <2>1. Start <= e /\ e <= Limit - Gap
    <3>1. Start \in Nat /\ Start <= h.end /\ h.end \in Nat /\ Limit \in Nat
      BY <1>2, <1>3
    <3>2. QED
      BY <1>5, <1>6, <3>1 DEF Gap
  <2>2. new \in Seq(AnyBlock)
    BY <1>10 DEF Ordered
  <2>3. QED
    BY <1>5, <1>10, <1>12, <2>1, <2>2 DEF IsHeap
<1>14. ASSUME NEW w \in Nat
       PROVE  FreeWord(g, w) <=> FreeWord(h, w) \/ (h.end <= w /\ w < e)
  <2>1. Owns(b, w) <=> Owns(f, w) \/ (h.end <= w /\ w < e)
    BY <1>2, <1>5 DEF Owns
  <2>2. QED
    BY <1>3, <1>10, <1>12, <2>1 DEF FreeWord
<1>15. Grows(h, g)
  BY <1>5, <1>12, <1>13, <1>14 DEF Grows
<1>16. new[i] = b
  BY <1>2, <1>9
<1>17. Len(new) = i
  <2>1. new \in Seq(AnyBlock) /\ DOMAIN new = 1 .. i
    BY <1>3, <1>9, <1>10 DEF Ordered
  <2>2. QED
    BY <1>2, <2>1, LenProperties
<1>18. QED
  BY <1>1, <1>4, <1>11, <1>12, <1>15, <1>16, <1>17

(* Words that may be handed out.                                           *)
LEMMA NewLastGrows ==
  ASSUME NEW h, IsHeap(h), ~EndsFree(h), NEW n \in Nat, n >= 2, CanAlloc(h, n),
         NEW g, g = [end |-> h.end + n, free |-> Append(h.free, Block(h.end, n))]
  PROVE  /\ Grows(h, g) /\ EndsFree(g)
         /\ Last(g.free) = Block(h.end, n)
<1>1. PICK list, i, b, e : /\ list = h.free /\ i = Len(h.free) + 1
                           /\ b = Block(h.end, n) /\ e = h.end + n
  OBVIOUS
<1>2. /\ h.end \in Nat /\ Limit \in Nat /\ Start \in Nat /\ Start <= h.end
      /\ Len(list) \in Nat /\ DOMAIN list = 1 .. Len(list)
  BY <1>1, HeapFacts
<1>3. e \in Nat /\ h.end <= e /\ b \in AnyBlock /\ b.at = h.end /\ b.size = n /\ After(b) = e
  <2>1. b \in AnyBlock /\ b.at = h.end /\ b.size = n /\ After(b) = h.end + n
    BY <1>1, <1>2, BlockFacts
  <2>2. QED
    BY <1>1, <1>2, <2>1
<1>4. e + 4 <= Limit
  BY <1>1, <1>2 DEF CanAlloc, Gap
<1>5. list \in Seq(AnyBlock) /\ Ordered(list, e)
  BY <1>1, <1>2, <1>3, RaisedEnd DEF IsHeap, Ordered
<1>6. list # <<>> => After(list[Len(list)]) # h.end
  BY <1>1 DEF EndsFree, Last
<1>7. ASSUME NEW j \in DOMAIN list PROVE After(list[j]) < h.end
  <2>1. PICK k : k = Len(list)
    OBVIOUS
  <2>2. j \in 1 .. k /\ k \in 1 .. k /\ k \in Nat /\ list # <<>>
    BY <1>2, <1>7, <2>1
  <2>6. /\ list[k].at \in Nat /\ list[k].size \in Nat
        /\ After(list[k]) = list[k].at + list[k].size
        /\ After(list[k]) <= h.end
    BY <1>1, <2>1, <2>2, HeapFacts
  <2>7. /\ After(list[j]) = list[j].at + list[j].size
        /\ list[j].at \in Nat /\ list[j].size \in Nat
        /\ j < k => After(list[j]) < list[k].at
    BY <1>1, <2>1, <2>2, HeapFacts
  <2>3. After(list[k]) # h.end
    BY <1>6, <2>1, <2>2
  <2>4. After(list[k]) < h.end
    <3>1. After(list[k]) \in Nat /\ h.end \in Nat
      <4>1. After(list[k]) \in Nat
        BY <2>6
      <4>2. QED
        BY <1>2, <4>1
    <3>2. QED
      BY <2>3, <2>6, <3>1
  <2>5. CASE j = k
    BY <2>4, <2>5
  <2>8. CASE j < k
    <3>1. /\ After(list[k]) \in Nat /\ list[k].at \in Nat /\ list[k].at <= After(list[k])
          /\ After(list[j]) \in Nat /\ h.end \in Nat
      <4>1. After(list[k]) \in Nat /\ list[k].at \in Nat /\ list[k].at <= After(list[k])
        BY <2>6
      <4>2. After(list[j]) \in Nat
        BY <2>7
      <4>3. QED
        BY <1>2, <4>1, <4>2
    <3>2. After(list[j]) < list[k].at
      BY <2>7, <2>8
    <3>3. QED
      BY <2>4, <3>1, <3>2
  <2>9. QED
    BY <2>2, <2>5, <2>8
<1>8. i \in 1 .. Len(list) + 1 /\ \A j \in DOMAIN list : ~(j >= i)
  BY <1>1, <1>2
<1>9. Sound(b, e)
  BY <1>2, <1>3 DEF Sound, Entry
<1>10. PICK new : new = Append(list, b)
  OBVIOUS
<1>11. /\ new \in Seq(AnyBlock) /\ Len(new) = Len(list) + 1 /\ new # <<>>
       /\ \A j \in 1 .. Len(list) : new[j] = list[j]
       /\ new[Len(list) + 1] = b
  BY <1>3, <1>5, <1>10, AppendProperties
<1>12. new = InsertAt(list, i, b)
  BY <1>1, <1>3, <1>5, <1>10, AppendIsInsertAt
<1>13. /\ Ordered(new, e)
       /\ \A w \in Nat : ListOwns(new, w) <=> ListOwns(list, w) \/ Owns(b, w)
  BY <1>3, <1>5, <1>7, <1>8, <1>9, <1>12, InsertOrdered
<1>14. g = [end |-> e, free |-> new]
  BY <1>1, <1>10
<1>15. IsHeap(g)
  <2>1. Start <= e /\ e <= Limit - Gap
    BY <1>2, <1>3, <1>4 DEF Gap
  <2>2. g.end = e /\ g.free = new /\ e \in Nat /\ new \in Seq(AnyBlock) /\ Ordered(new, e)
    BY <1>3, <1>11, <1>13, <1>14
  <2>3. g \in [end : Nat, free : Seq(AnyBlock)]
    BY <1>14, <2>2
  <2>4. QED
    BY <2>1, <2>2, <2>3 DEF IsHeap
<1>16. \A w \in Nat : Owns(b, w) <=> h.end <= w /\ w < e
  BY <1>3 DEF Owns
<1>17. Grows(h, g)
  <2>1. g.end = e /\ g.free = new /\ h.free = list /\ h.end <= e
    BY <1>1, <1>3, <1>14
  <2>2. \A w \in Nat : ListOwns(new, w) <=> ListOwns(list, w) \/ (h.end <= w /\ w < e)
    BY <1>13, <1>16
  <2>3. QED
    BY <1>15, <2>1, <2>2 DEF Grows, FreeWord
<1>18. Last(g.free) = b
  BY <1>11, <1>14 DEF Last
<1>19. EndsFree(g)
  BY <1>3, <1>11, <1>14, <1>18 DEF EndsFree
<1>20. QED
  BY <1>1, <1>17, <1>18, <1>19

-----------------------------------------------------------------------------
(* malloc                                                                  *)
LEMMA EnlargeGives ==
  ASSUME NEW h, IsHeap(h), EndsFree(h), NEW real \in Nat, Last(h.free).size <= real
  PROVE  Gives(h, Enlarge(h, real), real)
<1>1. PICK f, i : f = Last(h.free) /\ i = Len(h.free)
  OBVIOUS
<1>2. CASE CanAlloc(h, real - f.size)
  <2>1. PICK g : g = LargerLast(h, real)
    OBVIOUS
  <2>2. Grows(h, g) /\ g.free[i] = Block(f.at, real) /\ Len(g.free) = i
    BY <1>1, <1>2, <2>1, LargerLastGrows
  <2>3. f.at \in Nat /\ i \in 1 .. i
    BY <1>1, LastInHeap, HeapFacts
  <2>4. IsHeap(g) /\ i \in DOMAIN g.free
    BY <2>2, <2>3, HeapFacts DEF Grows
  <2>5. g.free[i].size >= real
    <3>1. Block(f.at, real).size = real
      BY <2>3, BlockFacts
    <3>2. QED
      BY <2>2, <3>1
  <2>6. Gives(g, Take(g, i, real), real)
    BY <2>4, <2>5, TakeGives
  <2>7. Take(g, i, real) = Enlarge(h, real)
    <3>1. h.free \in Seq(AnyBlock) /\ h.free # <<>> /\ Block(f.at, real) \in AnyBlock
      BY <2>3, BlockFacts DEF IsHeap, EndsFree
    <3>2. g.end = f.at + real /\ g.free = [h.free EXCEPT ![i] = Block(f.at, real)]
      BY <1>1, <2>1 DEF LargerLast
    <3>3. RemoveAt(g.free, i) = Front(h.free)
      BY <1>1, <3>1, <3>2, RemoveLast
    <3>4. QED
      BY <1>1, <1>2, <2>2, <3>2, <3>3 DEF Take, Enlarge
  <2>8. QED
    BY <2>2, <2>6, <2>7, GivesThrough
<1>3. CASE ~CanAlloc(h, real - f.size)
  BY <1>1, <1>3, GivesNull DEF Enlarge
<1>4. QED
  BY <1>2, <1>3

LEMMA ExtendGives ==
  ASSUME NEW h, IsHeap(h), NEW real \in Nat, real >= 2
  PROVE  Gives(h, Extend(h, real), real)
<1>1. CASE CanAlloc(h, real)
  <2>1. PICK b, e : b = Block(h.end, real) /\ e = h.end + real
    OBVIOUS
  <2>2. h.end \in Nat /\ Limit \in Nat /\ Start \in Nat /\ Start <= h.end
    BY HeapFacts
  <2>3. /\ e \in Nat /\ h.end <= e
        /\ b \in AnyBlock /\ b.at = h.end /\ b.size = real /\ After(b) = e
    <3>1. b \in AnyBlock /\ b.at = h.end /\ b.size = real /\ After(b) = h.end + real
      BY <2>1, <2>2, BlockFacts
    <3>2. QED
      BY <2>1, <2>2, <3>1
  <2>4. e + 4 <= Limit
    BY <1>1, <2>1, <2>2 DEF CanAlloc, Gap
  <2>5. Sound(b, e)
    BY <2>2, <2>3 DEF Sound, Entry
  <2>6. Ordered(h.free, e)
    BY <2>2, <2>3, RaisedEnd DEF IsHeap
  <2>7. \A w \in Nat : Owns(b, w) <=> h.end <= w /\ w < e
    BY <2>3 DEF Owns
  <2>8. \A w \in Nat : ListOwns(h.free, w) => ~(h.end <= w)
    BY <2>2, FreeWordsWithin DEF FreeWord
  <2>9. b.size >= real
    BY <2>3
  <2>10. Gives(h, Found(e, h.free, b), real)
    BY <2>3, <2>4, <2>5, <2>6, <2>7, <2>8, <2>9, GivesFound
  <2>11. QED
    BY <1>1, <2>1, <2>10 DEF Extend
<1>2. CASE ~CanAlloc(h, real)
  BY <1>2, GivesNull DEF Extend
<1>3. QED
  BY <1>1, <1>2

LEMMA FirstFitting ==
  ASSUME NEW h, IsHeap(h), NEW T, T \subseteq DOMAIN h.free, T # {}
  PROVE  Min(T) \in T /\ Min(T) \in DOMAIN h.free
<1>1. DOMAIN h.free \subseteq Nat
  BY HeapFacts
<1>2. QED
  BY <1>1, LeastNatural

LEMMA FirstFitGives ==
  ASSUME NEW h, IsHeap(h), NEW real \in Nat, real >= 2, Fitting(h, real) # {}
  PROVE  Gives(h, FirstFit(h, real), real)
<1>1. PICK i : i = Min(Fitting(h, real))
  OBVIOUS
<1>2. i \in DOMAIN h.free /\ h.free[i].size >= real
  <2>1. Fitting(h, real) \subseteq DOMAIN h.free
    BY DEF Fitting
  <2>2. i \in Fitting(h, real)
    BY <1>1, <2>1, FirstFitting
  <2>3. QED
    BY <2>2 DEF Fitting
<1>3. h.free[i].size \in Nat
  BY <1>2, HeapFacts
<1>4. CASE h.free[i].size < real + Entry
  <2>1. Gives(h, Take(h, i, real), real)
    BY <1>2, TakeGives
  <2>2. QED
    BY <1>1, <1>4, <2>1 DEF FirstFit
<1>5. CASE ~(h.free[i].size < real + Entry)
  <2>1. h.free[i].size >= real + 2
    BY <1>3, <1>5 DEF Entry
  <2>2. Gives(h, Split(h, i, real), real)
    BY <1>2, <2>1, SplitGives
  <2>3. QED
    BY <1>1, <1>5, <2>2 DEF FirstFit
<1>6. QED
  BY <1>4, <1>5

LEMMA RealSizeFacts ==
  ASSUME NEW n \in Nat
  PROVE  RealSize(n) \in Nat /\ RealSize(n) >= 2 /\ RealSize(n) >= n + 1
BY DEF RealSize, Entry

LEMMA LastDoesNotFit ==
  ASSUME NEW h, IsHeap(h), EndsFree(h), NEW real \in Nat, Fitting(h, real) = {}
  PROVE  Last(h.free).size < real
<1>1. PICK f : f = Last(h.free)
  OBVIOUS
<1>2. Len(h.free) \in DOMAIN h.free /\ f = h.free[Len(h.free)] /\ f.size \in Nat
  BY <1>1, LastInHeap
<1>3. ~(f.size >= real)
  BY <1>2 DEF Fitting
<1>4. QED
  BY <1>1, <1>2, <1>3

LEMMA AllocatedGives ==
  ASSUME NEW h, IsHeap(h), NEW n \in Nat
  PROVE  Gives(h, Allocated(h, n), RealSize(n))
<1>1. PICK real : real = RealSize(n)
  OBVIOUS
<1>2. real \in Nat /\ real >= 2
  BY <1>1, RealSizeFacts
<1>3. CASE Fitting(h, real) # {}
  BY <1>1, <1>2, <1>3, FirstFitGives DEF Allocated
<1>4. CASE Fitting(h, real) = {} /\ EndsFree(h)
  <2>1. Last(h.free).size <= real
    <3>1. Last(h.free).size \in Nat
      BY <1>4, LastInHeap
    <3>2. QED
      BY <1>2, <1>4, <3>1, LastDoesNotFit
  <2>2. QED
    BY <1>1, <1>2, <1>4, <2>1, EnlargeGives DEF Allocated
<1>5. CASE Fitting(h, real) = {} /\ ~EndsFree(h)
  BY <1>1, <1>2, <1>5, ExtendGives DEF Allocated
<1>6. QED
  BY <1>3, <1>4, <1>5

-----------------------------------------------------------------------------
(* memalign                                                                *)
LEMMA MultipleHasNoRest ==
  ASSUME NEW x \in Int, NEW q \in Int, NEW a \in Nat \ {0}, x = a * q
  PROVE  x % a = 0
<1>1. PICK d, r : d = x \div a /\ r = x % a
  OBVIOUS
<1>2. x = a * d + r /\ r \in 0 .. a - 1 /\ d \in Int
  BY <1>1
<1>3. a * (q - d) = r /\ r \in Int
  BY <1>2
<1>4. q - d <= 0
  <2>1. CASE q - d >= 1
    <3>1. a * (q - d) >= a
      BY <1>2, <2>1
    <3>2. QED
      BY <1>2, <1>3, <3>1
  <2>2. QED
    BY <1>2, <2>1
<1>5. q - d >= 0
  <2>1. CASE q - d <= -1
    <3>1. a * (q - d) <= -a
      BY <1>2, <2>1
    <3>2. QED
      BY <1>2, <1>3, <3>1
  <2>2. QED
    BY <1>2, <2>1
<1>6. QED
  BY <1>1, <1>2, <1>3, <1>4, <1>5

LEMMA PadFacts ==
  ASSUME NEW x \in Nat, NEW align \in Nat \ {0}
  PROVE  Pad(x, align) \in Nat /\ (x + Pad(x, align)) % align = 0
<1>1. PICK q, r : q = (-x) \div align /\ r = (-x) % align
  OBVIOUS
<1>2. -x = align * q + r /\ q \in Int /\ r \in 0 .. align - 1
  BY <1>1
<1>3. x + r = align * (-q) /\ x + r \in Int /\ -q \in Int
  BY <1>2
<1>4. (x + r) % align = 0
  BY <1>3, MultipleHasNoRest
<1>5. QED
  BY <1>1, <1>2, <1>4 DEF Pad

LEMMA BeforeFacts ==
  ASSUME NEW b, b.at \in Nat, NEW align \in Nat \ {0}, NEW before, before = Before(b, align)
  PROVE  /\ before \in Nat /\ (before = 0 \/ before >= 2)
         /\ ((b.at + before) + 1) % align = 0
<1>1. PICK a, p, q : a = b.at /\ p = Pad(a + 1, align) /\ q = Pad((a + 2) + 1, align)
  OBVIOUS
<1>2. /\ a \in Nat /\ p \in Nat /\ q \in Nat
      /\ ((a + 1) + p) % align = 0 /\ (((a + 2) + 1) + q) % align = 0
  <2>1. a \in Nat /\ a + 1 \in Nat /\ (a + 2) + 1 \in Nat
    BY <1>1
  <2>2. QED
    BY <1>1, <2>1, PadFacts
<1>3. before = IF p = 0 THEN 0 ELSE 2 + q
  BY <1>1 DEF Before, Entry
<1>4. CASE p = 0
  <2>1. (a + before) + 1 = (a + 1) + p
    BY <1>2, <1>3, <1>4
  <2>2. QED
    BY <1>1, <1>2, <1>3, <1>4, <2>1
<1>5. CASE p # 0
  <2>1. (a + before) + 1 = ((a + 2) + 1) + q
    BY <1>2, <1>3, <1>5
  <2>2. QED
    BY <1>1, <1>2, <1>3, <1>5, <2>1
<1>6. QED
  BY <1>4, <1>5

(* What a call gives is aligned.                                           *)
AlignedAt(r, align) == \A b \in r.block : (b.at + 1) % align = 0

(* The middle of a free block is taken, with blocks left before and behind.*)
LEMMA MiddleGives ==
  ASSUME NEW h, IsHeap(h), NEW i \in DOMAIN h.free, NEW f, f = h.free[i],
         NEW real \in Nat, real >= 2, NEW before \in Nat, before >= 2,
         f.size - before > real + 2,
         NEW list, list = InsertAt([h.free EXCEPT ![i] = Block(f.at, before)], i + 1,
                                   Block((f.at + before) + real, (f.size - before) - real)),
         NEW b, b = Block(f.at + before, real)
  PROVE  Gives(h, Found(h.end, list, b), real)
<1>1. /\ h.end \in Nat /\ h.end + 4 <= Limit /\ Start \in Nat
      /\ f.at \in Nat /\ f.size \in Nat
      /\ After(f) = f.at + f.size /\ Start <= f.at /\ After(f) <= h.end
  BY BlockInHeap
<1>2. /\ \A j \in DOMAIN h.free : After(h.free[j]) \in Nat /\ h.free[j].at \in Nat
      /\ \A j \in DOMAIN h.free : j < i => After(h.free[j]) < f.at
      /\ \A j \in DOMAIN h.free : j > i => After(f) < h.free[j].at
      /\ \A w \in Nat : Owns(f, w) => ListOwns(h.free, w) /\ w < h.end
  BY BlockInHeap DEF FreeWord
<1>3. Ordered(h.free, h.end) /\ DOMAIN h.free = 1 .. Len(h.free) /\ Len(h.free) \in Nat
  BY HeapFacts DEF IsHeap
<1>4. PICK c, d : /\ c = Block(f.at, before)
                  /\ d = Block((f.at + before) + real, (f.size - before) - real)
  OBVIOUS
<1>5. PICK x, y, z : x = f.at + before /\ y = x + real /\ z = (f.size - before) - real
  OBVIOUS
<1>6. x \in Nat /\ y \in Nat /\ z \in Nat /\ z > 2 /\ y + z = f.at + f.size
  BY <1>1, <1>5
<1>7. /\ b \in AnyBlock /\ b.at = x /\ b.size = real /\ After(b) = y
      /\ c \in AnyBlock /\ c.at = f.at /\ c.size = before /\ After(c) = x
      /\ d \in AnyBlock /\ d.at = y /\ d.size = z /\ After(d) = f.at + f.size
  <2>1. b \in AnyBlock /\ b.at = x /\ b.size = real /\ After(b) = y
    BY <1>5, <1>6, BlockFacts
  <2>2. c \in AnyBlock /\ c.at = f.at /\ c.size = before /\ After(c) = x
    BY <1>1, <1>4, <1>5, BlockFacts
  <2>3. d = Block(y, z)
    BY <1>4, <1>5
  <2>4. d \in AnyBlock /\ d.at = y /\ d.size = z /\ After(d) = y + z
    BY <1>6, <2>3, BlockFacts
  <2>5. QED
    BY <1>6, <2>1, <2>2, <2>4
<1>8. Sound(b, h.end) /\ Sound(c, h.end) /\ Sound(d, h.end)
  BY <1>1, <1>5, <1>6, <1>7 DEF Sound, Entry
<1>9. FitsAt(h.free, i, c)
  <2>1. x \in Nat /\ x < After(f) /\ After(f) \in Nat
    BY <1>1, <1>5, <1>6
  <2>2. QED
    BY <1>2, <1>7, <2>1 DEF FitsAt
<1>10. PICK front : front = [h.free EXCEPT ![i] = c]
  OBVIOUS
<1>11. /\ Ordered(front, h.end)
       /\ \A w \in Nat : ListOwns(front, w) <=> (ListOwns(h.free, w) /\ ~Owns(f, w)) \/ Owns(c, w)
  BY <1>1, <1>3, <1>8, <1>9, <1>10, ReplaceOrdered
<1>12. DOMAIN front = DOMAIN h.free /\ front[i] = c
       /\ \A j \in DOMAIN h.free : j # i => front[j] = h.free[j]
  BY <1>10
<1>13. i + 1 \in 1 .. Len(front) + 1
  BY <1>3, <1>11, <1>12, LenProperties DEF Ordered
<1>14. \A j \in DOMAIN front : j < i + 1 => After(front[j]) < d.at
  <2>1. SUFFICES ASSUME NEW j \in DOMAIN front, j < i + 1 PROVE After(front[j]) < d.at
    OBVIOUS
  <2>2. CASE j = i
    BY <1>5, <1>6, <1>7, <1>12, <2>2
  <2>3. CASE j # i
    <3>1. j < i /\ front[j] = h.free[j] /\ j \in DOMAIN h.free
      BY <1>3, <1>12, <2>1, <2>3
    <3>2. After(front[j]) < f.at /\ After(front[j]) \in Nat
      BY <1>2, <3>1
    <3>3. QED
      BY <1>1, <1>5, <1>6, <1>7, <3>2
  <2>4. QED
    BY <2>2, <2>3
<1>15. \A j \in DOMAIN front : j >= i + 1 => After(d) < front[j].at
  <2>1. SUFFICES ASSUME NEW j \in DOMAIN front, j >= i + 1 PROVE After(d) < front[j].at
    OBVIOUS
  <2>2. j > i /\ j # i /\ j \in DOMAIN h.free
    BY <1>3, <1>12, <2>1
  <2>3. After(f) < front[j].at
    BY <1>2, <1>12, <2>2
  <2>4. QED
    BY <1>1, <1>7, <2>3
<1>16. /\ Ordered(list, h.end)
       /\ \A w \in Nat : ListOwns(list, w) <=> ListOwns(front, w) \/ Owns(d, w)
  <2>1. PICK k : k = i + 1
    OBVIOUS
  <2>2. list = InsertAt(front, k, d) /\ k \in 1 .. Len(front) + 1
    BY <1>4, <1>10, <1>13, <2>1
  <2>3. /\ \A j \in DOMAIN front : j < k => After(front[j]) < d.at
        /\ \A j \in DOMAIN front : j >= k => After(d) < front[j].at
    BY <1>14, <1>15, <2>1
  <2>4. h.end \in Nat /\ Sound(d, h.end) /\ Ordered(front, h.end)
    BY <1>1, <1>8, <1>11
  <2>5. QED
    BY <2>2, <2>3, <2>4, InsertOrdered
<1>17. \A w \in Nat : /\ Owns(f, w) <=> Owns(b, w) \/ Owns(c, w) \/ Owns(d, w)
                      /\ ~(Owns(b, w) /\ Owns(c, w)) /\ ~(Owns(b, w) /\ Owns(d, w))
  BY <1>1, <1>5, <1>6, <1>7 DEF Owns
<1>18. \A w \in Nat : Owns(b, w) => ~ListOwns(list, w)
  BY <1>11, <1>16, <1>17
<1>19. \A w \in Nat : ListOwns(list, w) \/ Owns(b, w)
                        <=> ListOwns(h.free, w) \/ (h.end <= w /\ w < h.end)
  BY <1>1, <1>2, <1>11, <1>16, <1>17
<1>20. b.size >= real
  BY <1>7
<1>21. QED
  BY <1>1, <1>8, <1>16, <1>18, <1>19, <1>20, GivesFound

(* The end of a free block is taken, with a block left before it.          *)
LEMMA BackGives ==
  ASSUME NEW h, IsHeap(h), NEW i \in DOMAIN h.free, NEW f, f = h.free[i],
         NEW real \in Nat, real >= 2, NEW before \in Nat, before >= 2,
         f.size - before >= real,
         NEW b, b = Block(f.at + before, f.size - before)
  PROVE  Gives(h, Found(h.end, [h.free EXCEPT ![i] = Block(f.at, before)], b), real)
<1>1. /\ h.end \in Nat /\ Start \in Nat /\ f.at \in Nat /\ f.size \in Nat
      /\ After(f) = f.at + f.size /\ Start <= f.at /\ After(f) <= h.end
  BY BlockInHeap
<1>2. /\ \A j \in DOMAIN h.free : j < i => After(h.free[j]) < f.at
      /\ \A j \in DOMAIN h.free : j > i => After(f) < h.free[j].at
      /\ \A j \in DOMAIN h.free : h.free[j].at \in Nat
  BY BlockInHeap
<1>3. PICK c, x, z : c = Block(f.at, before) /\ x = f.at + before /\ z = f.size - before
  OBVIOUS
<1>4. x \in Nat /\ z \in Nat /\ z >= real /\ x + z = f.at + f.size
  BY <1>1, <1>3
<1>5. /\ b \in AnyBlock /\ b.at = x /\ b.size = z /\ After(b) = f.at + f.size
      /\ c \in AnyBlock /\ c.at = f.at /\ c.size = before /\ After(c) = x
  <2>1. b \in AnyBlock /\ b.at = x /\ b.size = z /\ After(b) = x + z
    BY <1>3, <1>4, BlockFacts
  <2>2. c \in AnyBlock /\ c.at = f.at /\ c.size = before /\ After(c) = x
    BY <1>1, <1>3, BlockFacts
  <2>3. QED
    BY <1>4, <2>1, <2>2
<1>6. Sound(b, h.end) /\ Sound(c, h.end) /\ b.size >= real
  BY <1>1, <1>3, <1>4, <1>5 DEF Sound, Entry
<1>7. FitsAt(h.free, i, c)
  <2>1. x < After(f) /\ After(f) \in Nat
    BY <1>1, <1>3, <1>4
  <2>2. QED
    BY <1>2, <1>4, <1>5, <2>1 DEF FitsAt
<1>8. \A w \in Nat : /\ Owns(f, w) <=> Owns(b, w) \/ Owns(c, w)
                     /\ ~(Owns(b, w) /\ Owns(c, w))
  BY <1>1, <1>3, <1>4, <1>5 DEF Owns
<1>9. Gives(h, Found(h.end, [h.free EXCEPT ![i] = c], b), real)
  BY <1>6, <1>7, <1>8, PartGives
<1>10. QED
  BY <1>3, <1>9

LEMMA CarveGives ==
  ASSUME NEW h, IsHeap(h), NEW i \in DOMAIN h.free, NEW real \in Nat, real >= 2,
         NEW align \in Nat \ {0}, h.free[i].size >= real + Before(h.free[i], align)
  PROVE  /\ Gives(h, Carve(h, i, real, align), real)
         /\ AlignedAt(Carve(h, i, real, align), align)
<1>1. PICK f, before : f = h.free[i] /\ before = Before(f, align)
  OBVIOUS
<1>2. f.at \in Nat /\ f.size \in Nat
  BY <1>1, BlockInHeap
<1>3. /\ before \in Nat /\ (before = 0 \/ before >= 2)
      /\ ((f.at + before) + 1) % align = 0
  BY <1>1, <1>2, BeforeFacts
<1>4. f.size >= real + before
  BY <1>1
<1> DEFINE spare == f.size - before > real + Entry
<1>5. /\ f.size - before >= real
      /\ spare => f.size - before > real + 2
  BY <1>2, <1>3, <1>4 DEF Entry
<1>6. CASE before # 0 /\ ~spare
  <2>1. PICK b, front : /\ b = Block(f.at + before, f.size - before)
                        /\ front = [h.free EXCEPT ![i] = Block(f.at, before)]
    OBVIOUS
  <2>2. Carve(h, i, real, align) = Found(h.end, front, b)
    BY <1>1, <1>6, <2>1 DEF Carve
  <2>3. Gives(h, Found(h.end, front, b), real)
    BY <1>1, <1>3, <1>5, <1>6, <2>1, BackGives
  <2>4. b.at = f.at + before
    BY <2>1 DEF Block
  <2>5. QED
    BY <1>3, <2>2, <2>3, <2>4 DEF AlignedAt, Found
<1>7. CASE before # 0 /\ spare
  <2>1. PICK b, list : /\ b = Block(f.at + before, real)
                       /\ list = InsertAt([h.free EXCEPT ![i] = Block(f.at, before)], i + 1,
                                   Block((f.at + before) + real, (f.size - before) - real))
    OBVIOUS
  <2>2. Carve(h, i, real, align) = Found(h.end, list, b)
    BY <1>1, <1>7, <2>1 DEF Carve
  <2>3. Gives(h, Found(h.end, list, b), real)
    BY <1>1, <1>3, <1>5, <1>7, <2>1, MiddleGives
  <2>4. b.at = f.at + before
    BY <2>1 DEF Block
  <2>5. QED
    BY <1>3, <2>2, <2>3, <2>4 DEF AlignedAt, Found
<1>8. CASE before = 0 /\ ~spare
  <2>1. Carve(h, i, real, align) = Take(h, i, real)
    BY <1>1, <1>8 DEF Carve
  <2>2. f.size >= real
    BY <1>2, <1>5, <1>8
  <2>3. Gives(h, Take(h, i, real), real)
    BY <1>1, <2>2, TakeGives
  <2>4. f.at + before = f.at
    BY <1>2, <1>8
  <2>5. QED
    BY <1>1, <1>3, <2>1, <2>3, <2>4 DEF AlignedAt, Take, Found
<1>9. CASE before = 0 /\ spare
  <2>1. Carve(h, i, real, align) = Split(h, i, real)
    BY <1>1, <1>9 DEF Carve
  <2>2. f.size >= real + 2
    BY <1>2, <1>5, <1>9
  <2>3. Gives(h, Split(h, i, real), real)
    BY <1>1, <2>2, SplitGives
  <2>4. f.at + before = f.at
    BY <1>2, <1>9
  <2>5. QED
    BY <1>1, <1>3, <2>1, <2>3, <2>4 DEF AlignedAt, Split, Found, Block
<1>10. QED
  BY <1>6, <1>7, <1>8, <1>9

LEMMA CarveLastGives ==
  ASSUME NEW h, IsHeap(h), EndsFree(h), NEW real \in Nat, real >= 2, NEW align \in Nat \ {0}
  PROVE  /\ Gives(h, CarveLast(h, real, align), real)
         /\ AlignedAt(CarveLast(h, real, align), align)
<1>1. PICK f, i, need : f = Last(h.free) /\ i = Len(h.free) /\ need = Before(f, align) + real
  OBVIOUS
<1>2. i \in DOMAIN h.free /\ f = h.free[i] /\ f \in AnyBlock /\ f.at \in Nat /\ f.size \in Nat
  BY <1>1, LastInHeap
<1>3. Before(f, align) \in Nat
  BY <1>2, BeforeFacts
<1>4. need \in Nat /\ need = real + Before(f, align)
  BY <1>1, <1>3
<1>5. CASE f.size >= need
  BY <1>1, <1>2, <1>4, <1>5, CarveGives DEF CarveLast
<1>6. CASE f.size < need /\ CanAlloc(h, need - f.size)
  <2>1. PICK g : g = LargerLast(h, need)
    OBVIOUS
  <2>2. f.size <= need
    BY <1>2, <1>4, <1>6
  <2>3. Grows(h, g) /\ g.free[i] = Block(f.at, need) /\ Len(g.free) = i
    BY <1>1, <1>4, <1>6, <2>1, <2>2, LargerLastGrows
  <2>4. IsHeap(g) /\ i \in DOMAIN g.free
    <3>1. IsHeap(g)
      BY <2>3 DEF Grows
    <3>2. DOMAIN g.free = DOMAIN h.free
      <4>1. DOMAIN g.free = 1 .. i /\ DOMAIN h.free = 1 .. i
        BY <1>1, <2>3, <3>1, HeapFacts
      <4>2. QED
        BY <4>1
    <3>3. QED
      BY <1>2, <3>1, <3>2
  <2>5. g.free[i].at = f.at /\ g.free[i].size = need
    BY <2>3 DEF Block
  <2>6. Before(g.free[i], align) = Before(f, align)
    BY <2>5 DEF Before
  <2>7. g.free[i].size >= real + Before(g.free[i], align)
    BY <1>4, <2>5, <2>6
  <2>8. Gives(g, Carve(g, i, real, align), real) /\ AlignedAt(Carve(g, i, real, align), align)
    BY <2>4, <2>7, CarveGives
  <2>9. g = [end |-> f.at + need, free |-> [h.free EXCEPT ![i].size = need]]
    <3>1. [f EXCEPT !.size = need] = Block(f.at, need)
      BY <1>2 DEF AnyBlock, Block
    <3>2. [h.free EXCEPT ![i].size = need] = [h.free EXCEPT ![i] = Block(f.at, need)]
      BY <1>2, <3>1
    <3>3. QED
      BY <1>1, <2>1, <3>2 DEF LargerLast
  <2>10. ~(f.size >= need)
    BY <1>2, <1>4, <1>6
  <2>11. CarveLast(h, real, align) = Carve(g, i, real, align)
    BY <1>1, <1>2, <1>6, <2>9, <2>10 DEF CarveLast
  <2>12. QED
    BY <2>3, <2>8, <2>11, GivesThrough
<1>7. CASE ~(f.size >= need) /\ ~(f.size < need /\ CanAlloc(h, need - f.size))
  <2>1. CarveLast(h, real, align) = Null(h)
    BY <1>1, <1>2, <1>7 DEF CarveLast
  <2>2. QED
    BY <2>1, GivesNull DEF AlignedAt, Null
<1>8. QED
  BY <1>5, <1>6, <1>7

LEMMA AlignedGives ==
  ASSUME NEW h, IsHeap(h), NEW n \in Nat, NEW align \in Nat \ {0}
  PROVE  /\ Gives(h, Aligned(h, n, align), RealSize(n))
         /\ AlignedAt(Aligned(h, n, align), align)
<1>1. PICK real, more : real = RealSize(n) /\ more = real + Pad(h.end + 1, align)
  OBVIOUS
<1>2. real \in Nat /\ real >= 2
  BY <1>1, RealSizeFacts
<1>3. CASE Usable(h, real, align) # {}
  <2>1. PICK i : i = Min(Usable(h, real, align))
    OBVIOUS
  <2>2. Usable(h, real, align) \subseteq DOMAIN h.free
    BY DEF Usable
  <2>3. i \in Usable(h, real, align)
    BY <1>3, <2>1, <2>2, FirstFitting
  <2>4. i \in DOMAIN h.free /\ h.free[i].size >= real + Before(h.free[i], align)
    BY <2>3 DEF Usable
  <2>5. Aligned(h, n, align) = Carve(h, i, real, align)
    BY <1>1, <1>3, <2>1 DEF Aligned
  <2>6. QED
    BY <1>1, <1>2, <2>4, <2>5, CarveGives
<1>4. CASE Usable(h, real, align) = {} /\ EndsFree(h)
  BY <1>1, <1>2, <1>4, CarveLastGives DEF Aligned
<1>5. CASE Usable(h, real, align) = {} /\ ~EndsFree(h) /\ CanAlloc(h, more)
  <2>1. PICK g : g = [end |-> h.end + more, free |-> Append(h.free, Block(h.end, more))]
    OBVIOUS
  <2>2. Pad(h.end + 1, align) \in Nat
    <3>1. h.end + 1 \in Nat
      BY HeapFacts
    <3>2. QED
      BY <3>1, PadFacts
  <2>3. more \in Nat /\ more >= 2
    BY <1>1, <1>2, <2>2
  <2>4. Grows(h, g) /\ EndsFree(g)
    BY <1>5, <2>1, <2>3, NewLastGrows
  <2>5. Gives(g, CarveLast(g, real, align), real) /\ AlignedAt(CarveLast(g, real, align), align)
    BY <1>2, <2>4, CarveLastGives DEF Grows
  <2>6. Aligned(h, n, align) = CarveLast(g, real, align)
    BY <1>1, <1>5, <2>1 DEF Aligned
  <2>7. QED
    BY <1>1, <2>4, <2>5, <2>6, GivesThrough
<1>6. CASE Usable(h, real, align) = {} /\ ~EndsFree(h) /\ ~CanAlloc(h, more)
  <2>1. Aligned(h, n, align) = Null(h)
    BY <1>1, <1>6 DEF Aligned
  <2>2. QED
    BY <2>1, GivesNull DEF AlignedAt, Null
<1>7. QED
  BY <1>3, <1>4, <1>5, <1>6

LEMMA PowersArePositive ==
  ASSUME NEW n \in Nat, IsPowerOfTwo(n)
  PROVE  n \in Nat \ {0}
<1>1. PICK i \in 0 .. n - 1 : n = 2 ^ i
  BY DEF IsPowerOfTwo
<1>2. n # 0
  BY <1>1
<1>3. QED
  BY <1>2

LEMMA MemalignedGives ==
  ASSUME NEW h, IsHeap(h), NEW n \in Nat, NEW align \in Nat
  PROVE  /\ Gives(h, Memaligned(h, n, align), RealSize(n))
         /\ AlignedAt(Memaligned(h, n, align), align)
<1>1. CASE IsPowerOfTwo(align)
  BY <1>1, PowersArePositive, AlignedGives DEF Memaligned
<1>2. CASE ~IsPowerOfTwo(align)
  BY <1>2, GivesNull DEF Memaligned, AlignedAt, Null
<1>3. QED
  BY <1>1, <1>2

-----------------------------------------------------------------------------
(* free                                                                    *)
(* Where a block lies in a list that has none of its words.                *)
Foreign(list, b) == \A w \in Nat : Owns(b, w) => ~ListOwns(list, w)

LEMMA ForeignLiesApart ==
  ASSUME NEW list, NEW e \in Nat, Ordered(list, e), NEW b, Sound(b, e), Foreign(list, b),
         NEW j \in DOMAIN list, NEW d, d = list[j]
  PROVE  /\ d.at \in Nat /\ d.size \in Nat /\ d.size >= 2 /\ After(d) = d.at + d.size
         /\ b.at \in Nat /\ b.size \in Nat /\ b.size >= 2 /\ After(b) = b.at + b.size
         /\ After(d) <= b.at \/ After(b) <= d.at
<1>1. /\ d.at \in Nat /\ d.size \in Nat /\ d.size >= 2 /\ After(d) = d.at + d.size
  BY ListFacts
<1>2. b.at \in Nat /\ b.size \in Nat /\ b.size >= 2 /\ After(b) = b.at + b.size
  BY DEF Sound, AnyBlock, After, Entry
<1>3. ~(Owns(b, b.at) /\ Owns(d, b.at)) /\ ~(Owns(b, d.at) /\ Owns(d, d.at))
  BY <1>1, <1>2 DEF Foreign, ListOwns
<1>4. QED
  BY <1>1, <1>2, <1>3 DEF Owns

LEMMA StopFacts ==
  ASSUME NEW list, NEW e \in Nat, Ordered(list, e), NEW b, Sound(b, e), Foreign(list, b),
         NEW i, i = StopAt(list, b)
  PROVE  /\ i \in 1 .. Len(list) + 1
         /\ \A j \in DOMAIN list : j < i => After(list[j]) < b.at
         /\ \A j \in DOMAIN list : j > i => After(b) <= list[j].at
         /\ i \in DOMAIN list => After(list[i]) = b.at \/ After(b) <= list[i].at
<1>1. DOMAIN list = 1 .. Len(list) /\ Len(list) \in Nat
  BY ListFacts
<1>2. /\ i \in 1 .. Len(list) + 1
      /\ i \in DOMAIN list => i \in Stops(list, b)
      /\ \A j \in DOMAIN list : j < i => j \notin Stops(list, b)
  <2>1. CASE Stops(list, b) = {}
    BY <1>1, <2>1 DEF StopAt
  <2>2. CASE Stops(list, b) # {}
    <3>1. Stops(list, b) \in SUBSET Nat /\ Stops(list, b) \subseteq DOMAIN list
      BY <1>1 DEF Stops
    <3>2. i \in Stops(list, b) /\ \A j \in Stops(list, b) : i <= j
      BY <2>2, <3>1, LeastNatural DEF StopAt
    <3>3. QED
      BY <1>1, <3>1, <3>2
  <2>3. QED
    BY <2>1, <2>2
<1>3. ASSUME NEW j \in DOMAIN list, j < i PROVE After(list[j]) < b.at
  <2>1. PICK d : d = list[j]
    OBVIOUS
  <2>2. After(d) # b.at /\ ~(d.at > b.at)
    BY <1>2, <1>3, <2>1 DEF Stops
  <2>3. QED
    BY <2>1, <2>2, ForeignLiesApart
<1>4. i \in DOMAIN list => After(list[i]) = b.at \/ After(b) <= list[i].at
  <2>1. SUFFICES ASSUME i \in DOMAIN list, After(list[i]) # b.at PROVE After(b) <= list[i].at
    OBVIOUS
  <2>2. PICK d : d = list[i]
    OBVIOUS
  <2>3. d.at > b.at
    BY <1>2, <2>1, <2>2 DEF Stops
  <2>4. QED
    BY <2>1, <2>2, <2>3, ForeignLiesApart
<1>5. ASSUME NEW j \in DOMAIN list, j > i PROVE After(b) <= list[j].at
  <2>1. PICK c, d : c = list[i] /\ d = list[j]
    OBVIOUS
  <2>2. i \in DOMAIN list /\ i < j
    BY <1>1, <1>2, <1>5
  <2>3. After(c) < d.at
    BY <1>1, <2>1, <2>2, ListFacts
  <2>4. c.at \in Nat /\ c.size \in Nat /\ After(c) = c.at + c.size /\ d.at \in Nat /\ After(d) > d.at
        /\ b.at \in Nat /\ b.size \in Nat /\ After(b) = b.at + b.size
        /\ (After(d) <= b.at \/ After(b) <= d.at)
    BY <2>1, <2>2, ForeignLiesApart
  <2>5. After(c) = b.at \/ After(b) <= c.at
    BY <1>4, <2>1, <2>2
  <2>6. After(d) \in Nat
    BY <2>1, ForeignLiesApart
  <2>7. QED
    BY <2>1, <2>3, <2>4, <2>5, <2>6
<1>6. QED
  BY <1>2, <1>3, <1>4, <1>5

(* The words of b are added to those of a list.                            *)
Adds(list, b, e, new) ==
  /\ Ordered(new, e)
  /\ \A w \in Nat : ListOwns(new, w) <=> ListOwns(list, w) \/ Owns(b, w)

LEMMA GrownFacts ==
  ASSUME NEW b, NEW c, b.at \in Nat, b.size \in Nat, c.size \in Nat, NEW g, g = Grown(b, c)
  PROVE  g \in AnyBlock /\ g.at = b.at /\ g.size = b.size + c.size
         /\ After(g) = (b.at + b.size) + c.size
<1>1. PICK a, s : a = b.at /\ s = b.size + c.size
  OBVIOUS
<1>2. a \in Nat /\ s \in Nat /\ g = Block(a, s)
  BY <1>1 DEF Grown
<1>3. g \in AnyBlock /\ g.at = a /\ g.size = s /\ After(g) = a + s
  BY <1>2 DEF Block, AnyBlock, After
<1>4. After(g) = (b.at + b.size) + c.size
  BY <1>1, <1>3
<1>5. QED
  BY <1>1, <1>3, <1>4

(* The block behind another is joined to it.                               *)
LEMMA JoinBehind ==
  ASSUME NEW list, NEW e \in Nat, Ordered(list, e), NEW b, Sound(b, e), Foreign(list, b),
         NEW i \in DOMAIN list, After(list[i]) = b.at,
         \A j \in DOMAIN list : j > i => After(b) < list[j].at
  PROVE  Adds(list, b, e, [list EXCEPT ![i] = Grown(list[i], b)])
<1>1. PICK d, c : d = list[i] /\ c = Grown(d, b)
  OBVIOUS
<1>2. /\ d.at \in Nat /\ d.size \in Nat /\ d.size >= 2 /\ After(d) = d.at + d.size
      /\ b.at \in Nat /\ b.size \in Nat /\ After(b) = b.at + b.size /\ After(d) = b.at
  BY <1>1, ForeignLiesApart
<1>3. c \in AnyBlock /\ c.at = d.at /\ c.size = d.size + b.size /\ After(c) = (d.at + d.size) + b.size
  BY <1>1, <1>2, GrownFacts
<1>4. After(c) = After(b)
  BY <1>2, <1>3
<1>5. Start <= d.at /\ After(b) <= e
  BY <1>1, ListFacts DEF Sound
<1>6. Sound(c, e)
  BY <1>2, <1>3, <1>4, <1>5 DEF Sound, Entry
<1>7. FitsAt(list, i, c)
  <2>1. \A j \in DOMAIN list : j < i => After(list[j]) < d.at
    BY <1>1, ListFacts
  <2>2. QED
    BY <1>3, <1>4, <2>1 DEF FitsAt
<1>8. \A w \in Nat : Owns(c, w) <=> Owns(d, w) \/ Owns(b, w)
  BY <1>2, <1>3, <1>4 DEF Owns
<1>9. \A w \in Nat : Owns(d, w) => ListOwns(list, w)
  BY <1>1 DEF ListOwns
<1>10. PICK new : new = [list EXCEPT ![i] = c]
  OBVIOUS
<1>11. /\ Ordered(new, e)
       /\ \A w \in Nat : ListOwns(new, w) <=> (ListOwns(list, w) /\ ~Owns(d, w)) \/ Owns(c, w)
  BY <1>1, <1>6, <1>7, <1>10, ReplaceOrdered
<1>12. Adds(list, b, e, new)
  BY <1>8, <1>9, <1>11 DEF Adds
<1>13. QED
  BY <1>1, <1>10, <1>12

(* A block in front of one of the list is joined to it.                    *)
LEMMA JoinBefore ==
  ASSUME NEW list, NEW e \in Nat, Ordered(list, e), NEW b, Sound(b, e), Foreign(list, b),
         NEW i \in DOMAIN list, list[i].at = After(b),
         \A j \in DOMAIN list : j < i => After(list[j]) < b.at
  PROVE  Adds(list, b, e, [list EXCEPT ![i] = Grown(b, list[i])])
<1>1. PICK d, c : d = list[i] /\ c = Grown(b, d)
  OBVIOUS
<1>2. /\ d.at \in Nat /\ d.size \in Nat /\ d.size >= 2 /\ After(d) = d.at + d.size
      /\ b.at \in Nat /\ b.size \in Nat /\ After(b) = b.at + b.size /\ d.at = After(b)
  BY <1>1, ForeignLiesApart
<1>3. c \in AnyBlock /\ c.at = b.at /\ c.size = b.size + d.size /\ After(c) = (b.at + b.size) + d.size
  BY <1>1, <1>2, GrownFacts
<1>4. After(c) = After(d)
  BY <1>2, <1>3
<1>5. Start <= b.at /\ After(d) <= e
  BY <1>1, ListFacts DEF Sound
<1>6. Sound(c, e)
  BY <1>2, <1>3, <1>4, <1>5 DEF Sound, Entry
<1>7. FitsAt(list, i, c)
  <2>1. \A j \in DOMAIN list : j > i => After(d) < list[j].at
    BY <1>1, ListFacts
  <2>2. QED
    BY <1>3, <1>4, <2>1 DEF FitsAt
<1>8. \A w \in Nat : Owns(c, w) <=> Owns(d, w) \/ Owns(b, w)
  BY <1>2, <1>3, <1>4 DEF Owns
<1>9. \A w \in Nat : Owns(d, w) => ListOwns(list, w)
  BY <1>1 DEF ListOwns
<1>10. PICK new : new = [list EXCEPT ![i] = c]
  OBVIOUS
<1>11. /\ Ordered(new, e)
       /\ \A w \in Nat : ListOwns(new, w) <=> (ListOwns(list, w) /\ ~Owns(d, w)) \/ Owns(c, w)
  BY <1>1, <1>6, <1>7, <1>10, ReplaceOrdered
<1>12. Adds(list, b, e, new)
  BY <1>8, <1>9, <1>11 DEF Adds
<1>13. QED
  BY <1>1, <1>10, <1>12

(* A block that fills the gap between two joins them both.                 *)
LEMMA JoinBoth ==
  ASSUME NEW list, NEW e \in Nat, Ordered(list, e), NEW b, Sound(b, e), Foreign(list, b),
         NEW i \in DOMAIN list, i + 1 \in DOMAIN list,
         After(list[i]) = b.at, After(b) = list[i + 1].at
  PROVE  Adds(list, b, e, RemoveAt([list EXCEPT ![i] = Grown(Grown(list[i], b), list[i + 1])], i + 1))
<1>1. PICK k, d, f, m, c : /\ k = i + 1 /\ d = list[i] /\ f = list[k]
                           /\ m = Grown(d, b) /\ c = Grown(m, f)
  OBVIOUS
<1>2. /\ d.at \in Nat /\ d.size \in Nat /\ d.size >= 2 /\ After(d) = d.at + d.size
      /\ b.at \in Nat /\ b.size \in Nat /\ After(b) = b.at + b.size /\ After(d) = b.at
  BY <1>1, ForeignLiesApart
<1>3. f.at \in Nat /\ f.size \in Nat /\ After(f) = f.at + f.size /\ f.at = After(b)
  BY <1>1, ForeignLiesApart
<1>4. m.at = d.at /\ m.size = d.size + b.size /\ m.at \in Nat /\ m.size \in Nat
  <2>1. m.at = d.at /\ m.size = d.size + b.size
    BY <1>1, <1>2, GrownFacts
  <2>2. QED
    BY <1>2, <2>1
<1>5. c \in AnyBlock /\ c.at = m.at /\ c.size = m.size + f.size /\ After(c) = (m.at + m.size) + f.size
  BY <1>1, <1>3, <1>4, GrownFacts
<1>6. c.at = d.at /\ After(c) = After(f) /\ c.size >= 2
  BY <1>2, <1>3, <1>4, <1>5
<1>7. DOMAIN list = 1 .. Len(list) /\ Len(list) \in Nat /\ i \in Nat /\ k \in DOMAIN list /\ i < k
  <2>1. DOMAIN list = 1 .. Len(list) /\ Len(list) \in Nat
    BY ListFacts
  <2>2. QED
    BY <1>1, <2>1
<1>8. Sound(c, e)
  <2>1. Start <= d.at /\ After(f) <= e
    BY <1>1, <1>7, ListFacts
  <2>2. QED
    BY <1>5, <1>6, <2>1 DEF Sound, Entry
<1>9. PICK rest : rest = RemoveAt(list, k)
  OBVIOUS
<1>10. /\ Ordered(rest, e)
       /\ \A w \in Nat : ListOwns(rest, w) <=> ListOwns(list, w) /\ ~Owns(f, w)
  BY <1>1, <1>7, <1>9, RemoveOrdered
<1>11. /\ rest \in Seq(AnyBlock) /\ DOMAIN rest = 1 .. Len(list) - 1
       /\ \A j \in 1 .. Len(list) - 1 : rest[j] = IF j < k THEN list[j] ELSE list[j + 1]
  <2>1. /\ rest \in Seq(AnyBlock) /\ Len(rest) = Len(list) - 1
        /\ \A j \in 1 .. Len(list) - 1 : rest[j] = IF j < k THEN list[j] ELSE list[j + 1]
    <3>1. list \in Seq(AnyBlock)
      BY DEF Ordered
    <3>2. QED
      BY <1>7, <1>9, <3>1, RemoveAtElements
  <2>2. QED
    BY <2>1, LenProperties
<1>12. i \in DOMAIN rest /\ rest[i] = d
  BY <1>1, <1>7, <1>11
<1>13. FitsAt(rest, i, c)
  <2>1. ASSUME NEW j \in DOMAIN rest, j < i PROVE After(rest[j]) < c.at
    <3>1. j \in DOMAIN list /\ rest[j] = list[j]
      BY <1>7, <1>11, <2>1
    <3>2. After(list[j]) < d.at
      BY <1>1, <1>7, <2>1, <3>1, ListFacts
    <3>3. QED
      BY <1>6, <3>1, <3>2
  <2>2. ASSUME NEW j \in DOMAIN rest, j > i PROVE After(c) < rest[j].at
    <3>1. j + 1 \in DOMAIN list /\ k < j + 1 /\ rest[j] = list[j + 1]
      BY <1>1, <1>7, <1>11, <2>2
    <3>2. PICK q : q = j + 1
      OBVIOUS
    <3>3. After(f) < list[q].at
      BY <1>1, <1>7, <3>1, <3>2, ListFacts
    <3>4. QED
      BY <1>6, <3>1, <3>2, <3>3
  <2>3. QED
    BY <2>1, <2>2 DEF FitsAt
<1>14. PICK new : new = [rest EXCEPT ![i] = c]
  OBVIOUS
<1>15. /\ Ordered(new, e)
       /\ \A w \in Nat : ListOwns(new, w) <=> (ListOwns(rest, w) /\ ~Owns(d, w)) \/ Owns(c, w)
  BY <1>8, <1>10, <1>12, <1>13, <1>14, ReplaceOrdered
<1>16. \A w \in Nat : Owns(c, w) <=> Owns(d, w) \/ Owns(b, w) \/ Owns(f, w)
  BY <1>2, <1>3, <1>5, <1>6 DEF Owns
<1>17. \A w \in Nat : Owns(d, w) \/ Owns(f, w) => ListOwns(list, w)
  BY <1>1, <1>7 DEF ListOwns
<1>18. Adds(list, b, e, new)
  BY <1>10, <1>15, <1>16, <1>17 DEF Adds
<1>19. new = RemoveAt([list EXCEPT ![i] = c], i + 1)
  <2>1. list \in Seq(AnyBlock) /\ c \in AnyBlock
    BY <1>5 DEF Ordered
  <2>2. i \in Nat /\ i \in DOMAIN list /\ i + 1 \in DOMAIN list
    BY <1>7
  <2>3. RemoveAt([list EXCEPT ![i] = c], i + 1) = [RemoveAt(list, i + 1) EXCEPT ![i] = c]
    BY <2>1, <2>2, ReplaceThenRemove
  <2>4. QED
    BY <1>1, <1>9, <1>14, <2>3
<1>20. QED
  BY <1>1, <1>18, <1>19

(* The list after free: whatever is touched is joined.                     *)
FreedList(list, b) ==
  LET i == StopAt(list, b)
      met == i \in DOMAIN list
  IN  CASE met /\ After(list[i]) = b.at -> JoinLeft(list, i, b)
        [] met /\ list[i].at = After(b) -> [list EXCEPT ![i] = Grown(b, @)]
        [] OTHER -> InsertAt(list, i, b)

LEMMA FreedListAdds ==
  ASSUME NEW list, NEW e \in Nat, Ordered(list, e), NEW b, Sound(b, e), Foreign(list, b)
  PROVE  Adds(list, b, e, FreedList(list, b))
<1>1. PICK i : i = StopAt(list, b)
  OBVIOUS
<1>2. /\ i \in 1 .. Len(list) + 1
      /\ \A j \in DOMAIN list : j < i => After(list[j]) < b.at
      /\ \A j \in DOMAIN list : j > i => After(b) <= list[j].at
      /\ i \in DOMAIN list => After(list[i]) = b.at \/ After(b) <= list[i].at
  BY <1>1, StopFacts
<1>3. DOMAIN list = 1 .. Len(list) /\ Len(list) \in Nat
  BY ListFacts
<1>4. CASE i \in DOMAIN list /\ After(list[i]) = b.at
  <2>1. FreedList(list, b) = JoinLeft(list, i, b)
    <3>1. PICK d : d = list[i]
      OBVIOUS
    <3>2. /\ d.at \in Nat /\ d.size \in Nat /\ d.size >= 2 /\ After(d) = d.at + d.size
          /\ b.at \in Nat /\ b.size \in Nat /\ After(b) = b.at + b.size
      BY <1>4, <3>1, ForeignLiesApart
    <3>3. After(d) = b.at
      BY <1>4, <3>1
    <3>4. d.at # After(b)
      BY <3>2, <3>3
    <3>5. QED
      BY <1>1, <1>4, <3>1, <3>4 DEF FreedList
  <2>2. CASE FillsGap(list, i, b)
    <3>1. i + 1 \in DOMAIN list /\ After(b) = list[i + 1].at
      BY <1>2, <1>3, <2>2 DEF FillsGap
    <3>2. Adds(list, b, e, RemoveAt([list EXCEPT ![i] = Grown(Grown(list[i], b), list[i + 1])], i + 1))
      BY <1>4, <3>1, JoinBoth
    <3>3. QED
      BY <1>4, <2>1, <2>2, <3>2 DEF JoinLeft
  <2>3. CASE ~FillsGap(list, i, b)
    <3>1. ASSUME NEW j \in DOMAIN list, j > i PROVE After(b) < list[j].at
      <4>1. PICK k, f, d : k = i + 1 /\ f = list[k] /\ d = list[j]
        OBVIOUS
      <4>2. k \in DOMAIN list /\ i < k /\ i < Len(list) /\ (j = k \/ k < j)
        BY <1>2, <1>3, <3>1, <4>1
      <4>3. After(b) <= f.at /\ After(b) # f.at
        BY <1>2, <2>3, <4>1, <4>2 DEF FillsGap
      <4>4. /\ f.at \in Nat /\ f.size \in Nat /\ After(f) = f.at + f.size
            /\ b.at \in Nat /\ b.size \in Nat /\ After(b) = b.at + b.size
        BY <4>1, <4>2, ForeignLiesApart
      <4>5. CASE j = k
        BY <4>1, <4>3, <4>4, <4>5
      <4>6. CASE k < j
        <5>1. After(f) < d.at /\ d.at \in Nat
          BY <1>3, <4>1, <4>2, <4>6, ListFacts
        <5>2. QED
          BY <4>1, <4>3, <4>4, <5>1
      <4>7. QED
        BY <4>2, <4>5, <4>6
    <3>2. Adds(list, b, e, [list EXCEPT ![i] = Grown(list[i], b)])
      BY <1>4, <3>1, JoinBehind
    <3>3. QED
      BY <1>4, <2>1, <2>3, <3>2 DEF JoinLeft
  <2>4. QED
    BY <2>2, <2>3
<1>5. CASE i \in DOMAIN list /\ After(list[i]) # b.at /\ list[i].at = After(b)
  <2>1. FreedList(list, b) = [list EXCEPT ![i] = Grown(b, list[i])]
    BY <1>1, <1>5 DEF FreedList
  <2>2. Adds(list, b, e, [list EXCEPT ![i] = Grown(b, list[i])])
    BY <1>2, <1>5, JoinBefore
  <2>3. QED
    BY <2>1, <2>2
<1>6. CASE ~(i \in DOMAIN list /\ (After(list[i]) = b.at \/ list[i].at = After(b)))
  <2>1. FreedList(list, b) = InsertAt(list, i, b)
    BY <1>1, <1>6 DEF FreedList
  <2>2. ASSUME NEW j \in DOMAIN list, j >= i PROVE After(b) < list[j].at
    <3>1. PICK d, f : d = list[j] /\ f = list[i]
      OBVIOUS
    <3>2. i \in DOMAIN list
      BY <1>2, <1>3, <2>2
    <3>3. After(b) <= f.at /\ f.at # After(b)
      BY <1>2, <1>6, <3>1, <3>2
    <3>4. /\ f.at \in Nat /\ f.size \in Nat /\ After(f) = f.at + f.size
          /\ b.at \in Nat /\ b.size \in Nat /\ After(b) = b.at + b.size
      BY <3>1, <3>2, ForeignLiesApart
    <3>5. CASE j = i
      BY <3>1, <3>3, <3>4, <3>5
    <3>6. CASE j # i
      <4>1. i < j
        BY <1>3, <2>2, <3>2, <3>6
      <4>2. After(f) < d.at /\ d.at \in Nat
        BY <1>3, <3>1, <3>2, <4>1, ListFacts
      <4>3. QED
        BY <3>1, <3>3, <3>4, <4>2
    <3>7. QED
      BY <3>5, <3>6
  <2>3. QED
    BY <1>2, <2>1, <2>2, InsertOrdered DEF Adds
<1>7. QED
  BY <1>4, <1>5, <1>6

LEMMA FreedFacts ==
  ASSUME NEW h, IsHeap(h), NEW b, Sound(b, h.end),
         \A w \in Nat : Owns(b, w) => ~FreeWord(h, w),
         NEW g, g = Freed(h, b)
  PROVE  /\ IsHeap(g) /\ g.end = h.end
         /\ \A w \in Nat : FreeWord(g, w) <=> FreeWord(h, w) \/ Owns(b, w)
<1>1. h.end \in Nat /\ Ordered(h.free, h.end) /\ Foreign(h.free, b)
  BY DEF IsHeap, Foreign, FreeWord
<1>2. Adds(h.free, b, h.end, FreedList(h.free, b))
  BY <1>1, FreedListAdds
<1>3. g = [h EXCEPT !.free = FreedList(h.free, b)]
  BY DEF Freed, FreedList
<1>4. PICK new : new = FreedList(h.free, b)
  OBVIOUS
<1>5. new \in Seq(AnyBlock) /\ Ordered(new, h.end)
  BY <1>2, <1>4 DEF Adds, Ordered
<1>6. /\ g \in [end : Nat, free : Seq(AnyBlock)]
      /\ g.end = h.end /\ g.free = new
  BY <1>3, <1>4, <1>5 DEF IsHeap
<1>7. IsHeap(g)
  BY <1>5, <1>6 DEF IsHeap
<1>8. QED
  BY <1>2, <1>4, <1>6, <1>7 DEF Adds, FreeWord

-----------------------------------------------------------------------------
(* The invariant: free blocks and blocks in use share out the words below  *)
(* the end of the heap.                                                    *)
InUse(c, e) ==
  /\ c.at \in Nat /\ c.size \in Nat
  /\ c.size >= 2 /\ Start <= c.at /\ c.at + c.size <= e

Tiled(h, L) ==
  /\ IsHeap(h)
  /\ \A c \in L : InUse(c, h.end)
  /\ \A c, d \in L : c # d => Apart(c, d)
  /\ \A c \in L : \A w \in Nat : Owns(c, w) => ~FreeWord(h, w)
  /\ \A w \in Nat : Start <= w /\ w < h.end => FreeWord(h, w) \/ (\E c \in L : Owns(c, w))

Served == live \in SUBSET [at : Nat, size : Nat, want : Requests]
          /\ \A c \in live : c.size >= c.want + 1

HeapInv == Tiled(Now, live) /\ Served

(* Two blocks without a common word lie apart.                             *)
LEMMA NoCommonWord ==
  ASSUME NEW c, NEW d, NEW e \in Nat, NEW f \in Nat, InUse(c, e), InUse(d, f),
         \A w \in Nat : ~(Owns(c, w) /\ Owns(d, w))
  PROVE  Apart(c, d) /\ Apart(d, c)
<1>1. /\ c.at \in Nat /\ c.size \in Nat /\ c.size >= 2 /\ After(c) = c.at + c.size
      /\ d.at \in Nat /\ d.size \in Nat /\ d.size >= 2 /\ After(d) = d.at + d.size
  BY DEF InUse, After
<1>2. ~(Owns(c, c.at) /\ Owns(d, c.at)) /\ ~(Owns(c, d.at) /\ Owns(d, d.at))
  BY <1>1
<1>3. QED
  BY <1>1, <1>2 DEF Owns, Apart

LEMMA ApartShareNothing ==
  ASSUME NEW c, NEW d, NEW e \in Nat, InUse(c, e), InUse(d, e), Apart(c, d), NEW w \in Nat
  PROVE  ~(Owns(c, w) /\ Owns(d, w))
BY DEF InUse, Apart, Owns, After

LEMMA HandedBlockTiled ==
  ASSUME NEW h, NEW L, Tiled(h, L), NEW r, NEW real, Gives(h, r, real),
         NEW b, r.block = {b}, NEW c, c.at = b.at, c.size = b.size
  PROVE  Tiled(r.heap, L \cup {c})
<1>1. PICK g : g = r.heap
  OBVIOUS
<1>2. /\ IsHeap(h) /\ IsHeap(g) /\ h.end <= g.end /\ h.end \in Nat /\ g.end \in Nat
      /\ \A d \in L : InUse(d, h.end)
      /\ \A d \in L : \A w \in Nat : Owns(d, w) => ~FreeWord(h, w)
      /\ \A w \in Nat : Start <= w /\ w < h.end => FreeWord(h, w) \/ (\E d \in L : Owns(d, w))
  BY <1>1 DEF Tiled, Gives, IsHeap
<1>3. /\ Sound(b, g.end)
      /\ \A w \in Nat : Owns(b, w) => ~FreeWord(g, w)
      /\ \A w \in Nat : FreeWord(g, w) \/ Owns(b, w) <=> FreeWord(h, w) \/ (h.end <= w /\ w < g.end)
  BY <1>1 DEF Gives
<1>4. InUse(c, g.end)
  BY <1>3 DEF Sound, AnyBlock, InUse, After, Entry
<1>5. \A w \in Nat : Owns(c, w) <=> Owns(b, w)
  BY DEF Owns, After
<1>6. \A d \in L : InUse(d, g.end)
  BY <1>2 DEF InUse
<1>7. ASSUME NEW d \in L, NEW w \in Nat, Owns(d, w)
      PROVE  ~FreeWord(h, w) /\ w < h.end
  <2>1. InUse(d, h.end)
    BY <1>2
  <2>2. w < h.end
    BY <1>2, <1>7, <2>1 DEF InUse, Owns, After
  <2>3. QED
    BY <1>2, <1>7, <2>2
<1>8. ASSUME NEW d \in L, NEW w \in Nat, Owns(d, w)
      PROVE  ~FreeWord(g, w) /\ ~Owns(c, w)
  <2>1. ~FreeWord(h, w) /\ ~(h.end <= w)
    BY <1>2, <1>7, <1>8
  <2>2. QED
    BY <1>3, <1>5, <2>1
<1>9. ASSUME NEW d \in L PROVE Apart(c, d) /\ Apart(d, c)
  BY <1>2, <1>4, <1>6, <1>8, NoCommonWord
<1>10. ASSUME NEW w \in Nat, Start <= w, w < g.end
       PROVE  FreeWord(g, w) \/ (\E d \in L \cup {c} : Owns(d, w))
  <2>1. CASE w < h.end
    <3>1. FreeWord(h, w) \/ (\E d \in L : Owns(d, w))
      BY <1>2, <1>10, <2>1
    <3>2. QED
      BY <1>3, <1>5, <3>1
  <2>2. CASE ~(w < h.end)
    <3>1. h.end <= w
      BY <1>2, <2>2
    <3>2. QED
      BY <1>3, <1>5, <1>10, <3>1
  <2>3. QED
    BY <2>1, <2>2
<1>11. \A d, f \in L \cup {c} : d # f => Apart(d, f)
  BY <1>9 DEF Tiled
<1>12. \A d \in L \cup {c} : \A w \in Nat : Owns(d, w) => ~FreeWord(g, w)
  BY <1>3, <1>5, <1>8
<1>13. \A d \in L \cup {c} : InUse(d, g.end)
  BY <1>4, <1>6
<1>14. QED
  BY <1>1, <1>2, <1>10, <1>11, <1>12, <1>13 DEF Tiled

LEMMA NoBlockTiled ==
  ASSUME NEW h, NEW L, Tiled(h, L), NEW r, NEW real, Gives(h, r, real), r.block = {}
  PROVE  Tiled(r.heap, L)
<1>1. PICK g : g = r.heap
  OBVIOUS
<1>2. /\ IsHeap(h) /\ IsHeap(g) /\ h.end <= g.end /\ h.end \in Nat /\ g.end \in Nat
      /\ \A w \in Nat : FreeWord(g, w) <=> FreeWord(h, w) \/ (h.end <= w /\ w < g.end)
  BY <1>1 DEF Tiled, Gives, IsHeap
<1>3. \A d \in L : InUse(d, g.end)
  BY <1>2 DEF Tiled, InUse
<1>4. ASSUME NEW d \in L, NEW w \in Nat, Owns(d, w) PROVE ~FreeWord(g, w)
  <2>1. ~FreeWord(h, w)
    BY <1>4 DEF Tiled
  <2>2. InUse(d, h.end)
    BY DEF Tiled
  <2>3. ~(h.end <= w)
    BY <1>2, <1>4, <2>2 DEF InUse, Owns, After
  <2>4. QED
    BY <1>2, <2>1, <2>3
<1>5. ASSUME NEW w \in Nat, Start <= w, w < g.end
      PROVE  FreeWord(g, w) \/ (\E d \in L : Owns(d, w))
  <2>1. CASE w < h.end
    BY <1>2, <1>5, <2>1 DEF Tiled
  <2>2. CASE ~(w < h.end)
    <3>1. h.end <= w
      BY <1>2, <2>2
    <3>2. QED
      BY <1>2, <1>5, <3>1
  <2>3. QED
    BY <2>1, <2>2
<1>6. QED
  BY <1>1, <1>2, <1>3, <1>4, <1>5 DEF Tiled

LEMMA FreedBlockTiled ==
  ASSUME NEW h, NEW L, Tiled(h, L), NEW c \in L, NEW g, g = Freed(h, AsBlock(c))
  PROVE  Tiled(g, L \ {c}) /\ g.end = h.end
<1>1. PICK b : b = AsBlock(c)
  OBVIOUS
<1>2. InUse(c, h.end) /\ IsHeap(h) /\ h.end \in Nat
  BY DEF Tiled, IsHeap
<1>3. b.at = c.at /\ b.size = c.size /\ b \in AnyBlock
  BY <1>1, <1>2 DEF AsBlock, Block, InUse, AnyBlock
<1>4. Sound(b, h.end)
  BY <1>2, <1>3 DEF Sound, InUse, After, Entry
<1>5. \A w \in Nat : Owns(b, w) <=> Owns(c, w)
  BY <1>3 DEF Owns, After
<1>6. \A w \in Nat : Owns(b, w) => ~FreeWord(h, w)
  BY <1>5 DEF Tiled
<1>7. /\ IsHeap(g) /\ g.end = h.end
      /\ \A w \in Nat : FreeWord(g, w) <=> FreeWord(h, w) \/ Owns(c, w)
  BY <1>1, <1>2, <1>4, <1>5, <1>6, FreedFacts
<1>8. ASSUME NEW d \in L \ {c}, NEW w \in Nat, Owns(d, w) PROVE ~FreeWord(g, w)
  <2>1. InUse(d, h.end) /\ Apart(d, c) /\ ~FreeWord(h, w)
    BY <1>8 DEF Tiled
  <2>2. ~Owns(c, w)
    BY <1>2, <1>8, <2>1, ApartShareNothing
  <2>3. QED
    BY <1>7, <2>1, <2>2
<1>9. \A w \in Nat : Start <= w /\ w < g.end => FreeWord(g, w) \/ (\E d \in L \ {c} : Owns(d, w))
  BY <1>7 DEF Tiled
<1>10. QED
  BY <1>7, <1>8, <1>9 DEF Tiled

(* A block in use is exchanged for pieces that own the same words.          *)
LEMMA ReplacedTiled ==
  ASSUME NEW h, NEW L, Tiled(h, L), NEW c \in L, NEW N,
         \A n \in N : InUse(n, h.end),
         \A n, m \in N : n # m => Apart(n, m),
         \A w \in Nat : Owns(c, w) <=> \E n \in N : Owns(n, w)
  PROVE  Tiled(h, (L \ {c}) \cup N)
<1>1. h.end \in Nat /\ IsHeap(h) /\ InUse(c, h.end)
  BY DEF Tiled, IsHeap
<1>2. ASSUME NEW d \in L \ {c}, NEW n \in N PROVE Apart(d, n) /\ Apart(n, d)
  <2>1. InUse(d, h.end) /\ InUse(n, h.end) /\ Apart(d, c)
    BY DEF Tiled
  <2>2. \A w \in Nat : ~(Owns(d, w) /\ Owns(c, w))
    BY <1>1, <2>1, ApartShareNothing
  <2>3. \A w \in Nat : ~(Owns(d, w) /\ Owns(n, w))
    BY <2>2
  <2>4. QED
    BY <1>1, <2>1, <2>3, NoCommonWord
<1>3. \A d \in (L \ {c}) \cup N : InUse(d, h.end)
  BY DEF Tiled
<1>4. \A d, f \in (L \ {c}) \cup N : d # f => Apart(d, f)
  BY <1>2 DEF Tiled
<1>5. \A d \in (L \ {c}) \cup N : \A w \in Nat : Owns(d, w) => ~FreeWord(h, w)
  BY DEF Tiled
<1>6. \A w \in Nat : Start <= w /\ w < h.end =>
        FreeWord(h, w) \/ (\E d \in (L \ {c}) \cup N : Owns(d, w))
  BY DEF Tiled
<1>7. QED
  BY <1>1, <1>3, <1>4, <1>5, <1>6 DEF Tiled

(* realloc in place: the block keeps its words, or its first words, the    *)
(* others freed.                                                           *)
LEMMA RelabelledTiled ==
  ASSUME NEW h, NEW L, Tiled(h, L), NEW c \in L, NEW d, d.at = c.at, d.size = c.size
  PROVE  Tiled(h, (L \ {c}) \cup {d})
<1>1. InUse(c, h.end)
  BY DEF Tiled
<1>2. InUse(d, h.end)
  BY <1>1 DEF InUse
<1>3. \A w \in Nat : Owns(c, w) <=> Owns(d, w)
  BY DEF Owns, After
<1>4. \A w \in Nat : Owns(c, w) <=> \E n \in {d} : Owns(n, w)
  BY <1>3
<1>5. QED
  BY <1>2, <1>4, ReplacedTiled

LEMMA ShrunkTiled ==
  ASSUME NEW h, NEW L, Tiled(h, L), NEW c \in L, NEW real \in Nat, real >= 2,
         c.size >= real, c.size - real >= Entry,
         NEW d, d.at = c.at, d.size = real,
         NEW g, g = Freed(h, Block(c.at + real, c.size - real))
  PROVE  Tiled(g, (L \ {c}) \cup {d})
<1>1. PICK f : f = Block(c.at + real, c.size - real)
  OBVIOUS
<1>2. f.at = c.at + real /\ f.size = c.size - real /\ f = AsBlock(f)
  BY <1>1 DEF Block, AsBlock
<1>3. InUse(c, h.end) /\ h.end \in Nat
  BY DEF Tiled, IsHeap
<1>4. InUse(d, h.end) /\ InUse(f, h.end)
  <2>1. c.at \in Nat /\ c.size \in Nat /\ c.size - real >= 2 /\ Start <= c.at
        /\ c.at + c.size <= h.end /\ Start \in Nat
    BY <1>3, HeapAssumption DEF InUse, Entry
  <2>2. InUse(d, h.end)
    BY <1>3, <2>1 DEF InUse
  <2>3. f.at \in Nat /\ f.size \in Nat /\ f.size >= 2 /\ Start <= f.at /\ f.at + f.size = c.at + c.size
    BY <1>2, <2>1
  <2>4. QED
    BY <1>3, <2>1, <2>2, <2>3 DEF InUse
<1>5. Apart(d, f) /\ Apart(f, d) /\ d # f
  BY <1>2, <1>3 DEF InUse, Apart, After
<1>6. \A w \in Nat : Owns(c, w) <=> Owns(d, w) \/ Owns(f, w)
  BY <1>2, <1>3 DEF InUse, Owns, After
<1>7. \A w \in Nat : Owns(c, w) <=> \E n \in {d, f} : Owns(n, w)
  BY <1>6
<1>8. Tiled(h, (L \ {c}) \cup {d, f})
  <2>1. \A n \in {d, f} : InUse(n, h.end)
    BY <1>4
  <2>2. \A n, m \in {d, f} : n # m => Apart(n, m)
    BY <1>5
  <2>3. QED
    BY <1>7, <2>1, <2>2, ReplacedTiled
<1>9. Tiled(g, ((L \ {c}) \cup {d, f}) \ {f})
  <2>1. g = Freed(h, AsBlock(f))
    BY <1>1, <1>2
  <2>2. QED
    BY <1>8, <2>1, FreedBlockTiled
<1>10. f \notin L \ {c}
  <2>1. SUFFICES ASSUME f \in L \ {c} PROVE FALSE
    OBVIOUS
  <2>2. Apart(f, c)
    BY <2>1 DEF Tiled
  <2>3. QED
    BY <1>2, <1>3, <2>2 DEF InUse, Apart, After, Entry
<1>11. ((L \ {c}) \cup {d, f}) \ {f} = (L \ {c}) \cup {d}
  BY <1>5, <1>10
<1>12. QED
  BY <1>9, <1>11

-----------------------------------------------------------------------------
(* The calls.                                                              *)
LEMMA InvAt ==
  ASSUME NEW g, IsHeap(g), Leaves(g), NEW L, live' = L, Tiled(g, L),
         L \in SUBSET [at : Nat, size : Nat, want : Requests],
         \A c \in L : c.size >= c.want + 1
  PROVE  HeapInv'
<1>1. Now' = g
  <2>1. g = [end |-> g.end, free |-> g.free]
    BY DEF IsHeap
  <2>2. QED
    BY <2>1 DEF Leaves, Now
<1>2. Tiled(Now, live)'
  BY <1>1
<1>3. Served'
  BY DEF Served
<1>4. QED
  BY <1>2, <1>3 DEF HeapInv

LEMMA NowFacts ==
  ASSUME HeapInv
  PROVE  /\ IsHeap(Now) /\ Now.end = end /\ Now.free = free
         /\ Tiled(Now, live)
         /\ \A c \in live : InUse(c, end)
         /\ live \in SUBSET [at : Nat, size : Nat, want : Requests]
         /\ \A c \in live : c.size >= c.want + 1
BY DEF HeapInv, Tiled, Now, Served

LEMMA NewChunk ==
  ASSUME NEW h, NEW r, NEW n \in Requests, Gives(h, r, RealSize(n)), NEW b, r.block = {b},
         NEW c, c = Chunk(b, n)
  PROVE  /\ c \in [at : Nat, size : Nat, want : Requests] /\ c.size >= c.want + 1
         /\ c.at = b.at /\ c.size = b.size /\ c.want = n
         /\ {Chunk(d, n) : d \in r.block} = {c}
<1>1. n \in Nat
  BY HeapAssumption
<1>2. Sound(b, r.heap.end) /\ b.size >= RealSize(n)
  BY DEF Gives
<1>3. b.at \in Nat /\ b.size \in Nat
  BY <1>2 DEF Sound, AnyBlock
<1>4. b.size >= n + 1
  <2>1. RealSize(n) \in Nat /\ RealSize(n) >= n + 1
    BY <1>1, RealSizeFacts
  <2>2. QED
    BY <1>1, <1>2, <1>3, <2>1
<1>5. c = [at |-> b.at, size |-> b.size, want |-> n]
  BY DEF Chunk
<1>6. {Chunk(d, n) : d \in r.block} = {c}
  OBVIOUS
<1>7. c.at = b.at /\ c.size = b.size /\ c.want = n
  BY <1>5
<1>8. c \in [at : Nat, size : Nat, want : Requests]
  BY <1>3, <1>5
<1>9. QED
  BY <1>4, <1>6, <1>7, <1>8

(* A call that hands out what it found, or null.                           *)
LEMMA HandsKeepsInv ==
  ASSUME HeapInv, NEW n \in Requests, NEW r, Gives(Now, r, RealSize(n)), Hands(r, n, live)
  PROVE  HeapInv'
<1>1. PICK g : g = r.heap
  OBVIOUS
<1>2. IsHeap(g) /\ Leaves(g) /\ live' = live \cup {Chunk(d, n) : d \in r.block}
  BY <1>1 DEF Gives, Hands
<1>3. CASE r.block = {}
  <2>1. live' = live
    BY <1>2, <1>3
  <2>2. Tiled(g, live)
    BY <1>1, <1>3, NowFacts, NoBlockTiled
  <2>3. QED
    BY <1>2, <2>1, <2>2, NowFacts, InvAt
<1>4. ASSUME NEW b, r.block = {b} PROVE HeapInv'
  <2>1. PICK c : c = Chunk(b, n)
    OBVIOUS
  <2>2. /\ c \in [at : Nat, size : Nat, want : Requests] /\ c.size >= c.want + 1
        /\ c.at = b.at /\ c.size = b.size
        /\ {Chunk(d, n) : d \in r.block} = {c}
    BY <1>4, <2>1, NewChunk
  <2>3. live' = live \cup {c}
    BY <1>2, <2>2
  <2>4. Tiled(g, live \cup {c})
    BY <1>1, <1>4, <2>2, NowFacts, HandedBlockTiled
  <2>5. /\ live \cup {c} \in SUBSET [at : Nat, size : Nat, want : Requests]
        /\ \A d \in live \cup {c} : d.size >= d.want + 1
    BY <2>2, NowFacts
  <2>6. QED
    BY <1>2, <2>3, <2>4, <2>5, InvAt
<1>5. QED
  BY <1>3, <1>4 DEF Gives

LEMMA MallocKeepsInv ==
  ASSUME HeapInv, NEW n \in Requests, Malloc(n)
  PROVE  HeapInv'
<1>1. n \in Nat /\ IsHeap(Now)
  BY HeapAssumption, NowFacts
<1>2. Gives(Now, Allocated(Now, n), RealSize(n))
  BY <1>1, AllocatedGives
<1>3. QED
  BY <1>2, HandsKeepsInv DEF Malloc

LEMMA MemalignKeepsInv ==
  ASSUME HeapInv, NEW n \in Requests, NEW align \in Nat, Memalign(align, n)
  PROVE  HeapInv'
<1>1. n \in Nat /\ IsHeap(Now)
  BY HeapAssumption, NowFacts
<1>2. Gives(Now, Memaligned(Now, n, align), RealSize(n))
  BY <1>1, MemalignedGives
<1>3. QED
  BY <1>2, HandsKeepsInv DEF Memalign

LEMMA FreeKeepsInv ==
  ASSUME HeapInv, NEW c \in live, Free(c)
  PROVE  HeapInv'
<1>1. PICK g : g = Freed(Now, AsBlock(c))
  OBVIOUS
<1>2. Tiled(g, live \ {c})
  BY <1>1, NowFacts, FreedBlockTiled
<1>3. Leaves(g) /\ live' = live \ {c}
  BY <1>1 DEF Free
<1>4. IsHeap(g)
  BY <1>2 DEF Tiled
<1>5. live \ {c} \in SUBSET [at : Nat, size : Nat, want : Requests]
      /\ \A d \in live \ {c} : d.size >= d.want + 1
  BY NowFacts
<1>6. QED
  BY <1>2, <1>3, <1>4, <1>5, InvAt

LEMMA AllocatedIsRecord ==
  ASSUME NEW h, NEW n
  PROVE  \E g, B : Allocated(h, n) = [heap |-> g, block |-> B]
<1>1. PICK real : real = RealSize(n)
  OBVIOUS
<1>2. ASSUME NEW e, NEW list, NEW b
      PROVE  \E g, B : Found(e, list, b) = [heap |-> g, block |-> B]
  BY DEF Found
<1>3. \E g, B : Null(h) = [heap |-> g, block |-> B]
  BY DEF Null
<1>4. \E g, B : FirstFit(h, real) = [heap |-> g, block |-> B]
  <2>1. PICK i : i = Min(Fitting(h, real))
    OBVIOUS
  <2>2. \E g, B : Take(h, i, real) = [heap |-> g, block |-> B]
    BY <1>2 DEF Take
  <2>3. \E g, B : Split(h, i, real) = [heap |-> g, block |-> B]
    BY <1>2 DEF Split
  <2>4. FirstFit(h, real) = Take(h, i, real) \/ FirstFit(h, real) = Split(h, i, real)
    BY <2>1 DEF FirstFit
  <2>5. QED
    BY <2>2, <2>3, <2>4
<1>5. \E g, B : Enlarge(h, real) = [heap |-> g, block |-> B]
  <2>1. PICK e, l, b : e = Last(h.free).at + real /\ l = Front(h.free) /\ b = Block(Last(h.free).at, real)
    OBVIOUS
  <2>2. Enlarge(h, real) = Found(e, l, b) \/ Enlarge(h, real) = Null(h)
    BY <2>1, Zenon DEF Enlarge
  <2>3. QED
    BY <1>2, <1>3, <2>2
<1>6. \E g, B : Extend(h, real) = [heap |-> g, block |-> B]
  <2>1. PICK e, b : e = h.end + real /\ b = Block(h.end, real)
    OBVIOUS
  <2>2. Extend(h, real) = Found(e, h.free, b) \/ Extend(h, real) = Null(h)
    BY <2>1, Zenon DEF Extend
  <2>3. QED
    BY <1>2, <1>3, <2>2
<1>7. CASE Fitting(h, real) # {}
  BY <1>1, <1>4, <1>7 DEF Allocated
<1>8. CASE Fitting(h, real) = {} /\ EndsFree(h)
  BY <1>1, <1>5, <1>8 DEF Allocated
<1>9. CASE Fitting(h, real) = {} /\ ~EndsFree(h)
  BY <1>1, <1>6, <1>9 DEF Allocated
<1>10. QED
  BY <1>7, <1>8, <1>9

(* What realloc does when the new block is found: it hands out a chunk of   *)
(* the new heap, and frees the old one there.                              *)
LEMMA MoveFacts ==
  ASSUME HeapInv, NEW c \in live, NEW n \in Requests, Move(c, n)
  PROVE  \/ UNCHANGED vars
         \/ \E r, b, d :
              /\ Gives(Now, r, RealSize(n)) /\ r.block = {b} /\ d = Chunk(b, n)
              /\ Leaves(Freed(r.heap, AsBlock(c))) /\ live' = (live \ {c}) \cup {d}
<1>1. PICK r : r = Allocated(Now, n)
  OBVIOUS
<1>2. n \in Nat /\ IsHeap(Now)
  BY HeapAssumption, NowFacts
<1>3. Gives(Now, r, RealSize(n))
  BY <1>1, <1>2, AllocatedGives
<1>4. CASE r.block = {}
  BY <1>1, <1>4 DEF Move
<1>5. ASSUME NEW b, r.block = {b}
      PROVE  Leaves(Freed(r.heap, AsBlock(c))) /\ live' = (live \ {c}) \cup {Chunk(b, n)}
  <2>1. PICK q, g, f : g = r.heap /\ f = Freed(g, AsBlock(c)) /\ q = [r EXCEPT !.heap = f]
    OBVIOUS
  <2>2. q.heap = f /\ q.block = {b}
    BY <1>1, <1>5, <2>1, AllocatedIsRecord
  <2>3. q = [r EXCEPT !.heap = Freed(@, AsBlock(c))]
    BY <2>1
  <2>4. r.block # {}
    BY <1>5
  <2>5. Hands(q, n, live \ {c})
    BY <1>1, <2>3, <2>4 DEF Move
  <2>6. {Chunk(d, n) : d \in q.block} = {Chunk(b, n)}
    BY <2>2
  <2>7. QED
    BY <2>1, <2>2, <2>5, <2>6 DEF Hands
<1>6. QED
  BY <1>3, <1>4, <1>5 DEF Gives

(* The new block is none of the blocks in use.                              *)
LEMMA NewBlockIsNew ==
  ASSUME NEW h, NEW L, Tiled(h, L), NEW r, NEW real, Gives(h, r, real),
         NEW b, r.block = {b}, NEW c \in L
  PROVE  Apart(b, c) /\ Apart(c, b) /\ b.at # c.at
<1>1. /\ InUse(c, h.end) /\ h.end \in Nat /\ r.heap.end \in Nat
      /\ \A w \in Nat : Owns(c, w) => ~FreeWord(h, w)
  BY DEF Tiled, Gives, IsHeap
<1>2. /\ Sound(b, r.heap.end)
      /\ \A w \in Nat : Owns(b, w) => FreeWord(h, w) \/ (h.end <= w /\ w < r.heap.end)
  BY DEF Gives
<1>3. InUse(b, r.heap.end)
  BY <1>2 DEF Sound, AnyBlock, InUse, After, Entry
<1>4. ASSUME NEW w \in Nat, Owns(b, w), Owns(c, w) PROVE FALSE
  <2>1. h.end <= w
    BY <1>1, <1>2, <1>4
  <2>2. QED
    BY <1>1, <1>4, <2>1 DEF InUse, Owns, After
<1>5. Apart(b, c) /\ Apart(c, b)
  BY <1>1, <1>3, <1>4, NoCommonWord
<1>6. b.at # c.at
  BY <1>1, <1>3, <1>5 DEF InUse, Apart, After
<1>7. QED
  BY <1>5, <1>6

LEMMA MoveKeepsInv ==
  ASSUME HeapInv, NEW c \in live, NEW n \in Requests, Move(c, n), ~UNCHANGED vars
  PROVE  HeapInv'
<1>1. PICK r, b, d :
        /\ Gives(Now, r, RealSize(n)) /\ r.block = {b} /\ d = Chunk(b, n)
        /\ Leaves(Freed(r.heap, AsBlock(c))) /\ live' = (live \ {c}) \cup {d}
  BY MoveFacts
<1>2. PICK g, f : g = r.heap /\ f = Freed(g, AsBlock(c))
  OBVIOUS
<1>3. d \in [at : Nat, size : Nat, want : Requests] /\ d.size >= d.want + 1
      /\ d.at = b.at /\ d.size = b.size
  BY <1>1, NewChunk
<1>4. Tiled(g, live \cup {d})
  BY <1>1, <1>2, <1>3, NowFacts, HandedBlockTiled
<1>5. Tiled(f, (live \cup {d}) \ {c})
  BY <1>2, <1>4, FreedBlockTiled
<1>6. d # c
  BY <1>1, <1>3, NowFacts, NewBlockIsNew
<1>7. (live \cup {d}) \ {c} = (live \ {c}) \cup {d}
  BY <1>6
<1>8. Tiled(f, (live \ {c}) \cup {d}) /\ IsHeap(f)
  BY <1>5, <1>7 DEF Tiled
<1>9. /\ (live \ {c}) \cup {d} \in SUBSET [at : Nat, size : Nat, want : Requests]
      /\ \A x \in (live \ {c}) \cup {d} : x.size >= x.want + 1
  BY <1>3, NowFacts
<1>10. QED
  BY <1>1, <1>2, <1>8, <1>9, InvAt

LEMMA ShrinkKeepsInv ==
  ASSUME HeapInv, NEW c \in live, NEW n \in Requests, Shrink(c, n)
  PROVE  HeapInv'
<1>1. PICK real, d, g : /\ real = RealSize(n) /\ d = Chunk(Block(c.at, real), n)
                        /\ g = Freed(Now, Block(c.at + real, c.size - real))
  OBVIOUS
<1>2. n \in Nat
  BY HeapAssumption
<1>3. real \in Nat /\ real >= 2 /\ real >= n + 1
  BY <1>1, <1>2, RealSizeFacts
<1>4. d = [at |-> c.at, size |-> real, want |-> n]
  BY <1>1 DEF Chunk, Block
<1>5. c.size >= real /\ c.size - real >= Entry
  BY <1>1 DEF Shrink, RestIsBlock
<1>6. Tiled(g, (live \ {c}) \cup {d}) /\ IsHeap(g)
  <2>1. Tiled(g, (live \ {c}) \cup {d})
    BY <1>1, <1>3, <1>4, <1>5, NowFacts, ShrunkTiled
  <2>2. QED
    BY <2>1 DEF Tiled
<1>7. /\ (live \ {c}) \cup {d} \in SUBSET [at : Nat, size : Nat, want : Requests]
      /\ \A x \in (live \ {c}) \cup {d} : x.size >= x.want + 1
  BY <1>3, <1>4, NowFacts
<1>8. Leaves(g) /\ live' = (live \ {c}) \cup {d}
  BY <1>1 DEF Shrink
<1>9. QED
  BY <1>6, <1>7, <1>8, InvAt

LEMMA KeepKeepsInv ==
  ASSUME HeapInv, NEW c \in live, NEW n \in Requests, Keep(c, n)
  PROVE  HeapInv'
<1>1. PICK d : d = Chunk(c, n)
  OBVIOUS
<1>2. n \in Nat
  BY HeapAssumption
<1>3. d = [at |-> c.at, size |-> c.size, want |-> n]
  BY <1>1 DEF Chunk
<1>4. c.at \in Nat /\ c.size \in Nat /\ c.size >= RealSize(n)
  BY NowFacts DEF Keep
<1>5. c.size >= n + 1
  BY <1>2, <1>4, RealSizeFacts
<1>6. Tiled(Now, (live \ {c}) \cup {d}) /\ IsHeap(Now)
  BY <1>3, NowFacts, RelabelledTiled
<1>7. /\ (live \ {c}) \cup {d} \in SUBSET [at : Nat, size : Nat, want : Requests]
      /\ \A x \in (live \ {c}) \cup {d} : x.size >= x.want + 1
  BY <1>3, <1>4, <1>5, NowFacts
<1>8. Leaves(Now) /\ live' = (live \ {c}) \cup {d}
  BY <1>1 DEF Keep, Leaves, Now
<1>9. QED
  BY <1>6, <1>7, <1>8, InvAt

LEMMA InvInit == Init => HeapInv
<1>1. SUFFICES ASSUME Init PROVE HeapInv
  OBVIOUS
<1>2. Start \in Nat /\ Limit \in Nat /\ Start + 4 <= Limit
  BY HeapAssumption, LimitAssumption DEF Gap
<1>3. Now.end = Start /\ Now.free = <<>> /\ live = {} /\ Now = [end |-> Start, free |-> <<>>]
  BY <1>1 DEF Init, Now
<1>4. <<>> \in Seq(AnyBlock) /\ DOMAIN <<>> = {}
  OBVIOUS
<1>5. Ordered(<<>>, Start)
  BY <1>4 DEF Ordered
<1>6. IsHeap(Now)
  BY <1>2, <1>3, <1>4, <1>5 DEF IsHeap, Gap
<1>7. Tiled(Now, live)
  BY <1>2, <1>3, <1>6 DEF Tiled
<1>8. QED
  BY <1>3, <1>7 DEF HeapInv, Served

LEMMA StutterKeepsInv == HeapInv /\ UNCHANGED vars => HeapInv'
BY DEF HeapInv, Served, Now, vars

LEMMA InvStep == HeapInv /\ [Next]_vars => HeapInv'
<1>1. SUFFICES ASSUME HeapInv, [Next]_vars, ~UNCHANGED vars PROVE HeapInv'
  BY StutterKeepsInv
<1>2. Requests \subseteq Nat /\ Aligns \subseteq Nat /\ Page \in Nat
  BY HeapAssumption
<1>3. ASSUME NEW n \in Requests, Malloc(n) \/ ReallocNull(n) \/ Valloc(n) \/ Pvalloc(n)
      PROVE  HeapInv'
  <2>1. CASE Malloc(n) \/ ReallocNull(n)
    BY <1>1, <2>1, MallocKeepsInv DEF ReallocNull
  <2>2. CASE Valloc(n)
    BY <1>1, <1>2, <2>2, MemalignKeepsInv DEF Valloc
  <2>3. CASE Pvalloc(n)
    BY <1>1, <1>2, <2>3, MemalignKeepsInv DEF Pvalloc
  <2>4. QED
    BY <1>3, <2>1, <2>2, <2>3
<1>4. ASSUME NEW n \in Requests, NEW m \in Requests, Calloc(n, m) PROVE HeapInv'
  BY <1>1, <1>4, MallocKeepsInv DEF Calloc
<1>5. ASSUME NEW n \in Requests, NEW align \in Aligns, Memalign(align, n) PROVE HeapInv'
  BY <1>1, <1>2, <1>5, MemalignKeepsInv
<1>6. ASSUME NEW c \in live, Free(c) \/ Cfree(c) PROVE HeapInv'
  BY <1>1, <1>6, FreeKeepsInv DEF Cfree
<1>7. ASSUME NEW c \in live, NEW n \in Requests, Realloc(c, n) PROVE HeapInv'
  BY <1>1, <1>7, MoveKeepsInv, ShrinkKeepsInv, KeepKeepsInv DEF Realloc
<1>8. QED
  BY <1>1, <1>3, <1>4, <1>5, <1>6, <1>7 DEF Next

(* After any calls, free blocks and chunks in use lie apart and fill the   *)
(* heap, the free list is sorted and merged, and every chunk in use has    *)
(* room for the bytes asked for.                                           *)
THEOREM HeapInvAlways == Spec => []HeapInv
<1>1. Init => HeapInv
  BY InvInit
<1>2. HeapInv /\ [Next]_vars => HeapInv'
  BY InvStep
<1>3. QED
  BY <1>1, <1>2, PTL DEF Spec

-----------------------------------------------------------------------------
(* The properties that the runs check.                                     *)
LEMMA InvImpliesTypeOK == HeapInv => TypeOK
<1>1. SUFFICES ASSUME HeapInv PROVE TypeOK
  OBVIOUS
<1>2. IsHeap(Now) /\ Now.end = end /\ Now.free = free
  BY <1>1, NowFacts
<1>3. /\ end \in Nat /\ Start <= end /\ end <= Limit - Gap /\ free \in Seq(AnyBlock)
      /\ live \in SUBSET [at : Nat, size : Nat, want : Requests]
  BY <1>1, <1>2, NowFacts DEF IsHeap
<1>4. end \in Start .. Limit - Gap
  BY <1>3, HeapAssumption, LimitAssumption DEF Gap
<1>5. QED
  BY <1>3, <1>4 DEF TypeOK, AnyBlock

(* Whatever is called, the end of the heap never comes closer to the stack *)
(* than the gap, and the free list and the chunks in use are blocks of the *)
(* machine (tiny-malloc.c: CAN_ALLOC_P, the list of freelist_entry).       *)
THEOREM TypeAlways == Spec => []TypeOK
BY HeapInvAlways, InvImpliesTypeOK, PTL

LEMMA InvImpliesOrdered == HeapInv => FreeListOrdered
<1>1. SUFFICES ASSUME HeapInv PROVE FreeListOrdered
  OBVIOUS
<1>2. IsHeap(Now) /\ Now.free = free
  BY <1>1, NowFacts
<1>3. /\ Len(free) \in Nat /\ DOMAIN free = 1 .. Len(free)
      /\ \A i \in 1 .. Len(free) : free[i].size >= 2
      /\ \A i, j \in 1 .. Len(free) : i < j => After(free[i]) < free[j].at
  <2>1. PICK h : h = Now
    OBVIOUS
  <2>2. h.free = free /\ IsHeap(h)
    BY <1>2, <2>1
  <2>3. QED
    BY <2>2, HeapFacts
<1>4. ASSUME NEW i \in 1 .. Len(free) - 1 PROVE After(free[i]) < free[i + 1].at
  <2>1. i \in 1 .. Len(free) /\ i + 1 \in 1 .. Len(free) /\ i < i + 1
    BY <1>3
  <2>2. QED
    BY <1>3, <2>1
<1>5. QED
  BY <1>3, <1>4 DEF FreeListOrdered, Entry

(* Whatever the order of calls, the free list is sorted by address, its    *)
(* blocks hold an entry of the list, and no two of them touch: free merges *)
(* a block with both neighbours (tiny-malloc.c: free, malloc, memalign).   *)
THEOREM FreeListOrderedAlways == Spec => []FreeListOrdered
BY HeapInvAlways, InvImpliesOrdered, PTL

(* A block of the list is none of the blocks in use.                       *)
LEMMA FreeBlocksInUse ==
  ASSUME HeapInv, NEW i \in DOMAIN free
  PROVE  InUse(free[i], end) /\ free[i].size > 0 /\ Start <= free[i].at /\ After(free[i]) <= end
<1>1. PICK h, f : h = Now /\ f = free[i]
  OBVIOUS
<1>2. IsHeap(h) /\ h.free = free /\ h.end = end
  BY <1>1, NowFacts
<1>3. /\ f.at \in Nat /\ f.size \in Nat /\ After(f) = f.at + f.size
      /\ f.size >= 2 /\ Start <= f.at /\ After(f) <= end
  BY <1>1, <1>2, HeapFacts
<1>4. QED
  BY <1>1, <1>3 DEF InUse

LEMMA InvImpliesTiled == HeapInv => HeapTiled
<1>1. SUFFICES ASSUME HeapInv PROVE HeapTiled
  OBVIOUS
<1>2. PICK h : h = Now
  OBVIOUS
<1>3. h.free = free /\ h.end = end /\ IsHeap(h) /\ end \in Nat /\ Tiled(h, live)
  BY <1>1, <1>2, NowFacts DEF IsHeap
<1>4. \A c, d \in live : c # d => Apart(c, d)
  BY <1>3 DEF Tiled
<1>5. ASSUME NEW i \in DOMAIN free, NEW j \in DOMAIN free, i # j
      PROVE  Apart(free[i], free[j])
  <2>1. PICK b, d : b = free[i] /\ d = free[j]
    OBVIOUS
  <2>2. /\ DOMAIN free = 1 .. Len(free) /\ Len(free) \in Nat
        /\ \A k \in 1 .. Len(free) : free[k].at \in Nat /\ free[k].size \in Nat
        /\ \A k, m \in 1 .. Len(free) : k < m => After(free[k]) < free[m].at
    BY <1>3, HeapFacts
  <2>3. (i < j => After(b) < d.at) /\ (j < i => After(d) < b.at)
    BY <2>1, <2>2
  <2>4. i < j \/ j < i
    BY <1>5, <2>2
  <2>5. b.at \in Nat /\ d.at \in Nat /\ After(b) \in Nat /\ After(d) \in Nat
    <3>1. b.at \in Nat /\ b.size \in Nat /\ d.at \in Nat /\ d.size \in Nat
      BY <2>1, <2>2
    <3>2. QED
      BY <3>1 DEF After
  <2>6. After(b) <= d.at \/ After(d) <= b.at
    BY <2>3, <2>4, <2>5
  <2>7. QED
    BY <2>1, <2>6 DEF Apart
<1>6. ASSUME NEW c \in live, NEW i \in DOMAIN free PROVE Apart(c, free[i])
  <2>1. InUse(c, end) /\ InUse(free[i], end)
    BY <1>1, NowFacts, FreeBlocksInUse
  <2>2. ASSUME NEW w \in Nat, Owns(c, w) PROVE ~Owns(free[i], w)
    BY <1>3, <2>2 DEF Tiled, FreeWord, ListOwns
  <2>3. QED
    BY <1>3, <2>1, <2>2, NoCommonWord
<1>7. ASSUME NEW b \in Blocks PROVE b.size > 0 /\ Start <= b.at /\ After(b) <= end
  <2>1. ASSUME NEW c \in live, b = AsBlock(c) PROVE b.size > 0 /\ Start <= b.at /\ After(b) <= end
    <3>1. InUse(c, end) /\ b.at = c.at /\ b.size = c.size
      BY <1>1, <2>1, NowFacts DEF AsBlock, Block
    <3>2. QED
      BY <3>1 DEF InUse, After
  <2>2. ASSUME NEW i \in DOMAIN free, b = free[i] PROVE b.size > 0 /\ Start <= b.at /\ After(b) <= end
    BY <1>1, <2>2, FreeBlocksInUse
  <2>3. QED
    BY <2>1, <2>2 DEF Blocks, ToSet
<1>8. ASSUME NEW w \in Start .. end - 1 PROVE \E b \in Blocks : Owns(b, w)
  <2>1. w \in Nat /\ Start <= w /\ w < end
    BY <1>3, HeapAssumption
  <2>2. CASE FreeWord(h, w)
    BY <1>3, <2>2 DEF FreeWord, ListOwns, Blocks, ToSet
  <2>3. ASSUME NEW c \in live, Owns(c, w) PROVE \E b \in Blocks : Owns(b, w)
    <3>1. AsBlock(c) \in Blocks
      BY DEF Blocks
    <3>2. AsBlock(c).at = c.at /\ AsBlock(c).size = c.size
      BY DEF AsBlock, Block
    <3>3. Owns(AsBlock(c), w)
      BY <2>3, <3>2 DEF Owns, After
    <3>4. QED
      BY <3>1, <3>3
  <2>4. QED
    BY <1>3, <2>1, <2>2, <2>3 DEF Tiled
<1>9. QED
  BY <1>4, <1>5, <1>6, <1>7, <1>8 DEF HeapTiled

(* Every word of the heap belongs to exactly one block, in use or free:    *)
(* splitting, aligning, shrinking and merging lose no word and hand none   *)
(* out twice.                                                              *)
THEOREM HeapTiledAlways == Spec => []HeapTiled
BY HeapInvAlways, InvImpliesTiled, PTL

LEMMA InvImpliesAligned == HeapInv => AlignedOrNull
<1>1. SUFFICES ASSUME HeapInv, NEW n \in Requests, NEW align \in Aligns,
                      NEW b \in Memaligned(Now, n, align).block
               PROVE  (b.at + 1) % align = 0 /\ b.size >= n + 1
  BY DEF AlignedOrNull
<1>2. n \in Nat /\ align \in Nat /\ IsHeap(Now)
  BY <1>1, HeapAssumption, NowFacts
<1>3. /\ Gives(Now, Memaligned(Now, n, align), RealSize(n))
      /\ AlignedAt(Memaligned(Now, n, align), align)
  BY <1>2, MemalignedGives
<1>4. b.size >= RealSize(n) /\ b \in AnyBlock
  BY <1>3 DEF Gives, Sound
<1>5. RealSize(n) \in Nat /\ RealSize(n) >= n + 1
  BY <1>2, RealSizeFacts
<1>6. b.size >= n + 1
  BY <1>2, <1>4, <1>5 DEF AnyBlock
<1>7. QED
  BY <1>3, <1>6 DEF AlignedAt

(* Whatever is free, memalign finds nothing or a block of the alignment    *)
(* and size asked for, cut from the front, the middle or the end of a free *)
(* block or from new memory.                                               *)
THEOREM AlignedOrNullAlways == Spec => []AlignedOrNull
BY HeapInvAlways, InvImpliesAligned, PTL

(* What it means that malloc finds nothing: no block of the list is large  *)
(* enough, and the end of the heap cannot be moved far enough.             *)
LEMMA NullMeans ==
  ASSUME NEW h, NEW n, Allocated(h, n).block = {}, NEW real, real = RealSize(n)
  PROVE  /\ Fitting(h, real) = {}
         /\ EndsFree(h) => ~CanAlloc(h, real - Last(h.free).size)
         /\ ~EndsFree(h) => ~CanAlloc(h, real)
<1>1. ASSUME NEW e, NEW list, NEW b PROVE Found(e, list, b).block # {}
  BY DEF Found
<1>2. CASE Fitting(h, real) # {}
  <2>1. PICK i : i = Min(Fitting(h, real))
    OBVIOUS
  <2>2. Allocated(h, n) = FirstFit(h, real)
    BY <1>2 DEF Allocated
  <2>3. FirstFit(h, real) = Take(h, i, real) \/ FirstFit(h, real) = Split(h, i, real)
    BY <2>1 DEF FirstFit
  <2>4. Take(h, i, real).block # {}
    BY <1>1 DEF Take
  <2>5. Split(h, i, real).block # {}
    BY <1>1 DEF Split
  <2>6. QED
    BY <2>2, <2>3, <2>4, <2>5
<1>3. CASE Fitting(h, real) = {} /\ EndsFree(h)
  <2>1. Allocated(h, n) = Enlarge(h, real)
    BY <1>3 DEF Allocated
  <2>2. QED
    BY <1>1, <1>3, <2>1 DEF Enlarge
<1>4. CASE Fitting(h, real) = {} /\ ~EndsFree(h)
  <2>1. Allocated(h, n) = Extend(h, real)
    BY <1>4 DEF Allocated
  <2>2. QED
    BY <1>1, <1>4, <2>1 DEF Extend
<1>5. QED
  BY <1>2, <1>3, <1>4

(* The free block that owns a word reaches on to the end of the heap, or    *)
(* past every word up to the next that is not free.                        *)
LEMMA FreeRun ==
  ASSUME NEW h, IsHeap(h), NEW a \in Nat, NEW z \in Nat, a < h.end,
         \A w \in Nat : a <= w /\ w < z /\ w < h.end => FreeWord(h, w), a < z,
         NEW i \in DOMAIN h.free, NEW f, f = h.free[i], Owns(f, a)
  PROVE  After(f) >= z \/ (After(f) = h.end /\ i = Len(h.free))
<1>1. /\ f.at \in Nat /\ f.size \in Nat /\ After(f) = f.at + f.size /\ After(f) \in Nat
      /\ After(f) <= h.end /\ h.end \in Nat
      /\ i \in 1 .. Len(h.free) /\ Len(h.free) \in Nat /\ DOMAIN h.free = 1 .. Len(h.free)
  BY HeapFacts, SMTT(30)
<1>2. f.at <= a /\ a < After(f)
  BY DEF Owns
<1>3. CASE After(f) < z /\ After(f) < h.end
  <2>1. FreeWord(h, After(f))
    BY <1>1, <1>2, <1>3
  <2>2. PICK j \in DOMAIN h.free : Owns(h.free[j], After(f))
    BY <2>1 DEF FreeWord, ListOwns
  <2>3. PICK d : d = h.free[j]
    OBVIOUS
  <2>4. /\ d.at \in Nat /\ d.size \in Nat /\ After(d) = d.at + d.size
        /\ (i < j => After(f) < d.at) /\ (j < i => After(d) < f.at)
    BY <2>3, HeapFacts
  <2>5. d.at <= After(f) /\ After(f) < After(d)
    BY <2>2, <2>3 DEF Owns
  <2>6. j \in Nat /\ i \in Nat /\ (j = i => d = f)
    BY <1>1, <2>3
  <2>7. i < j \/ j < i \/ j = i
    BY <2>6
  <2>8. CASE i < j
    BY <1>1, <2>4, <2>5, <2>8
  <2>9. CASE j < i
    BY <1>1, <1>2, <2>4, <2>5, <2>9
  <2>10. CASE j = i
    BY <1>1, <2>5, <2>6, <2>10
  <2>11. QED
    BY <2>7, <2>8, <2>9, <2>10
<1>4. CASE After(f) = h.end
  <2>1. CASE i < Len(h.free)
    <3>1. PICK l, d : l = Len(h.free) /\ d = h.free[l]
      OBVIOUS
    <3>2. l \in DOMAIN h.free
      BY <1>1, <3>1
    <3>3. After(f) < d.at /\ d.at \in Nat /\ d.size \in Nat /\ After(d) = d.at + d.size /\ After(d) <= h.end
      BY <1>1, <2>1, <3>1, <3>2, HeapFacts
    <3>4. QED
      BY <1>1, <1>4, <3>3
  <2>2. QED
    BY <1>1, <1>4, <2>1
<1>5. QED
  BY <1>1, <1>3, <1>4

LEMMA InvImpliesNullMeansFull == HeapInv => NullMeansFull
<1>1. SUFFICES ASSUME HeapInv, NEW n \in Requests, Allocated(Now, n).block = {},
                      Room(RealSize(n))
               PROVE  FALSE
  BY DEF NullMeansFull
<1>2. PICK h, real : h = Now /\ real = RealSize(n)
  OBVIOUS
<1>3. /\ IsHeap(h) /\ h.end \in Nat /\ Tiled(h, live) /\ Limit \in Nat /\ Start \in Nat
      /\ Start <= h.end /\ h.end + 4 <= Limit /\ h.end = end
  <2>1. IsHeap(h) /\ Tiled(h, live) /\ h.end = end
    BY <1>1, <1>2, NowFacts
  <2>2. QED
    BY <2>1, HeapFacts
<1>4. real \in Nat /\ real >= 2
  BY <1>2, HeapAssumption, RealSizeFacts
<1>5. /\ Fitting(h, real) = {}
      /\ EndsFree(h) => ~CanAlloc(h, real - Last(h.free).size)
      /\ ~EndsFree(h) => ~CanAlloc(h, real)
  BY <1>1, <1>2, NullMeans
<1>6. PICK a \in {Start} \cup {After(c) : c \in live} :
        /\ a + real <= Limit - Gap
        /\ \A c \in live : After(c) <= a \/ a + real <= c.at
  BY <1>1, <1>2 DEF Room
<1>7. a \in Nat /\ Start <= a /\ a <= h.end
  <2>1. ASSUME NEW c \in live, a = After(c) PROVE a \in Nat /\ Start <= a /\ a <= h.end
    <3>1. InUse(c, h.end)
      BY <1>3 DEF Tiled
    <3>2. QED
      BY <1>3, <2>1, <3>1 DEF InUse, After
  <2>2. QED
    BY <1>3, <1>6, <2>1
<1>8. a + real + 4 <= Limit
  BY <1>3, <1>4, <1>6, <1>7 DEF Gap
<1>9. EndsFree(h) => Last(h.free).size \in Nat /\ Last(h.free).at + Last(h.free).size = h.end
  BY <1>3, LastInHeap DEF EndsFree, After
<1>10. CASE a = h.end
  <2>1. CanAlloc(h, real)
    BY <1>3, <1>4, <1>8, <1>10 DEF CanAlloc, Gap
  <2>2. PICK s : s = Last(h.free).size
    OBVIOUS
  <2>3. s \in Nat => CanAlloc(h, real - s)
    BY <1>3, <1>4, <1>8, <1>10 DEF CanAlloc, Gap
  <2>4. QED
    BY <1>5, <1>9, <2>1, <2>2, <2>3
<1>11. CASE a < h.end
  <2>1. ASSUME NEW w \in Nat, a <= w, w < a + real, w < h.end PROVE FreeWord(h, w)
    <3>1. ASSUME NEW c \in live PROVE ~Owns(c, w)
      <4>1. After(c) <= a \/ a + real <= c.at
        BY <1>6
      <4>2. InUse(c, h.end)
        BY <1>3 DEF Tiled
      <4>3. c.at \in Nat /\ After(c) \in Nat
        BY <4>2 DEF InUse, After
      <4>4. QED
        BY <1>4, <1>7, <2>1, <4>1, <4>3 DEF Owns
    <3>2. Start <= w
      BY <1>3, <1>7, <2>1
    <3>3. QED
      BY <1>3, <2>1, <3>1, <3>2 DEF Tiled
  <2>2. FreeWord(h, a)
    BY <1>4, <1>7, <1>11, <2>1
  <2>3. PICK i \in DOMAIN h.free : Owns(h.free[i], a)
    BY <2>2 DEF FreeWord, ListOwns
  <2>4. PICK f, z : f = h.free[i] /\ z = a + real
    OBVIOUS
  <2>5. z \in Nat /\ a < z
    BY <1>4, <1>7, <2>4
  <2>6. After(f) >= z \/ (After(f) = h.end /\ i = Len(h.free))
    <3>1. \A w \in Nat : a <= w /\ w < z /\ w < h.end => FreeWord(h, w)
      BY <2>1, <2>4
    <3>2. Owns(f, a)
      BY <2>3, <2>4
    <3>3. QED
      BY <1>3, <1>7, <1>11, <2>4, <2>5, <3>1, <3>2, FreeRun
  <2>7. f.at \in Nat /\ f.size \in Nat /\ After(f) = f.at + f.size /\ f.at <= a
    BY <1>3, <2>3, <2>4, HeapFacts DEF Owns
  <2>8. CASE After(f) >= z
    <3>1. f.size >= real
      BY <1>4, <1>7, <2>4, <2>7, <2>8
    <3>2. QED
      BY <1>5, <2>4, <3>1 DEF Fitting
  <2>9. CASE After(f) = h.end /\ i = Len(h.free)
    <3>1. h.free # <<>> /\ f = Last(h.free)
      BY <2>4, <2>9 DEF Last
    <3>2. EndsFree(h)
      BY <2>9, <3>1 DEF EndsFree
    <3>3. CanAlloc(h, real - f.size)
      <4>1. f.at + f.size = h.end /\ f.at + real + 4 <= Limit
        BY <1>3, <1>4, <1>7, <1>8, <2>7, <2>9
      <4>2. QED
        BY <1>3, <1>4, <2>7, <4>1 DEF CanAlloc, Gap
    <3>4. QED
      BY <1>5, <3>1, <3>2, <3>3
  <2>10. QED
    BY <2>6, <2>8, <2>9
<1>12. QED
  BY <1>3, <1>7, <1>10, <1>11

(* When malloc finds nothing, no block of the size fits anywhere between   *)
(* the blocks in use and below the gap: memory is never refused because    *)
(* it is in pieces that touch.                                             *)
THEOREM NullMeansFullAlways == Spec => []NullMeansFull
BY HeapInvAlways, InvImpliesNullMeansFull, PTL

-----------------------------------------------------------------------------
(* InfoAgrees: sums over blocks.  A recursive definition over the subsets  *)
(* of a finite set is a function of them; two such functions that agree on *)
(* a set when they agree on all smaller ones agree everywhere.             *)
LEMMA SubsetInduction ==
  ASSUME NEW S, IsFiniteSet(S), NEW Good,
         \A T \in SUBSET S : (\A U \in SUBSET T : U # T => U \in Good) => T \in Good
  PROVE  SUBSET S \subseteq Good
<1> DEFINE Bad == (SUBSET S) \ Good
<1>1. IsWellFoundedOn(StrictSubsetOrdering(S), SUBSET S)
  BY FS_StrictSubsetOrderingWellFounded, FS_FiniteSubsetsOfFinite
<1>2. SUFFICES ASSUME Bad # {} PROVE FALSE
  OBVIOUS
<1>3. PICK T \in Bad : \A U \in Bad : <<U, T>> \notin StrictSubsetOrdering(S)
  <2>1. Bad \subseteq SUBSET S
    OBVIOUS
  <2> HIDE DEF Bad
  <2>2. QED
    BY <1>1, <1>2, <2>1, WFMin
<1>4. \A U \in SUBSET T : U # T => U \in Good
  BY <1>3 DEF StrictSubsetOrdering
<1>5. QED
  BY <1>3, <1>4

Picked(S) == CHOOSE x \in S : TRUE
SumRule(iter, S) ==
  iter = [s \in SUBSET S |-> IF s = {} THEN 0 ELSE Picked(s).size + iter[s \ {Picked(s)}]]

LEMMA SumIs ==
  ASSUME NEW S
  PROVE  SumOfSizes(S) = (CHOOSE iter : SumRule(iter, S))[S]
BY DEF SumOfSizes, MapThenSumSet, MapThenFoldSet, SumRule, Picked

(* The words of blocks; the sizes of blocks that lie apart add up to how   *)
(* many these are.                                                         *)
Span(b)    == b.at .. After(b) - 1
WordsOf(S) == UNION {Span(b) : b \in S}

LEMMA WordsFinite ==
  ASSUME NEW n \in Nat, NEW S, S \subseteq [at : Nat, size : Nat], \A b \in S : After(b) <= n
  PROVE  IsFiniteSet(WordsOf(S))
<1>1. \A w \in WordsOf(S) : w \in Nat /\ w <= n
  BY DEF WordsOf, Span, After
<1>2. QED
  BY <1>1, FS_BoundedSetOfNaturals

LEMMA WordsWithout ==
  ASSUME NEW n \in Nat, NEW S, S \subseteq [at : Nat, size : Nat], \A b \in S : After(b) <= n,
         \A b, d \in S : b # d => Apart(b, d), NEW x \in S
  PROVE  Cardinality(WordsOf(S)) = x.size + Cardinality(WordsOf(S \ {x}))
<1>1. WordsOf(S) = Span(x) \cup WordsOf(S \ {x})
  BY DEF WordsOf
<1>2. Span(x) \cap WordsOf(S \ {x}) = {}
  <2>1. ASSUME NEW b \in S, b # x, NEW w \in Span(x), w \in Span(b) PROVE FALSE
    <3>1. Apart(b, x)
      BY <2>1
    <3>2. QED
      BY <2>1, <3>1 DEF Apart, Span, After
  <2>2. QED
    BY <2>1 DEF WordsOf
<1>3. IsFiniteSet(Span(x)) /\ Cardinality(Span(x)) = x.size
  <2>1. PICK f, l : f = x.at /\ l = After(x) - 1
    OBVIOUS
  <2>2. f \in Int /\ l \in Int /\ x.size \in Nat /\ l = f + x.size - 1 /\ Span(x) = f .. l
    BY <2>1 DEF Span, After
  <2>3. IsFiniteSet(f .. l) /\ Cardinality(f .. l) = IF f > l THEN 0 ELSE l - f + 1
    BY <2>2, FS_Interval
  <2>4. QED
    BY <2>2, <2>3
<1>4. IsFiniteSet(WordsOf(S \ {x}))
  BY WordsFinite
<1>5. Cardinality(WordsOf(S)) =
        Cardinality(Span(x)) + Cardinality(WordsOf(S \ {x})) - Cardinality(Span(x) \cap WordsOf(S \ {x}))
  BY <1>1, <1>3, <1>4, FS_Union
<1>6. Cardinality({}) = 0 /\ Cardinality(WordsOf(S \ {x})) \in Nat
  BY <1>4, FS_EmptySet, FS_CardinalityType
<1>7. PICK k, m : k = Cardinality(WordsOf(S \ {x})) /\ m = Cardinality(WordsOf(S))
  OBVIOUS
<1>8. m = x.size + k - 0 /\ k \in Nat /\ x.size \in Nat
  BY <1>2, <1>3, <1>5, <1>6, <1>7
<1>9. QED
  BY <1>7, <1>8

LEMMA SumOfApart ==
  ASSUME NEW n \in Nat, NEW S, IsFiniteSet(S), S \subseteq [at : Nat, size : Nat],
         \A b \in S : After(b) <= n, \A b, d \in S : b # d => Apart(b, d)
  PROVE  SumOfSizes(S) = Cardinality(WordsOf(S))
<1> DEFINE counted == [s \in SUBSET S |-> Cardinality(WordsOf(s))]
<1>1. ASSUME NEW s \in SUBSET S
      PROVE  counted[s] = IF s = {} THEN 0 ELSE Picked(s).size + counted[s \ {Picked(s)}]
  <2>1. CASE s = {}
    <3>1. WordsOf({}) = {}
      BY DEF WordsOf
    <3>2. QED
      BY <2>1, <3>1, FS_EmptySet
  <2>2. CASE s # {}
    <3>1. Picked(s) \in s
      BY <2>2 DEF Picked
    <3>2. Cardinality(WordsOf(s)) = Picked(s).size + Cardinality(WordsOf(s \ {Picked(s)}))
      BY <3>1, WordsWithout
    <3>3. QED
      BY <2>2, <3>2
  <2>3. QED
    BY <2>1, <2>2
<1>2. SumRule(counted, S)
  BY <1>1 DEF SumRule
<1>3. PICK iter : iter = CHOOSE i : SumRule(i, S)
  OBVIOUS
<1>4. SumRule(iter, S)
  BY <1>2, <1>3
<1>5. SUBSET S \subseteq {s \in SUBSET S : iter[s] = counted[s]}
  <2> DEFINE Good == {s \in SUBSET S : iter[s] = counted[s]}
  <2>1. ASSUME NEW T \in SUBSET S, \A U \in SUBSET T : U # T => U \in Good
        PROVE  T \in Good
    <3>1. iter[T] = IF T = {} THEN 0 ELSE Picked(T).size + iter[T \ {Picked(T)}]
      BY <1>4 DEF SumRule
    <3>2. CASE T = {}
      BY <1>1, <3>1, <3>2
    <3>3. CASE T # {}
      <4>1. Picked(T) \in T
        BY <3>3 DEF Picked
      <4>2. T \ {Picked(T)} \in Good
        BY <2>1, <4>1
      <4>3. QED
        BY <1>1, <3>1, <3>3, <4>2
    <3>4. QED
      BY <3>2, <3>3
  <2> HIDE DEF Good
  <2>2. SUBSET S \subseteq Good
    BY <2>1, SubsetInduction
  <2>3. QED
    BY <2>2 DEF Good
<1>6. SumOfSizes(S) = iter[S]
  BY <1>3, SumIs
<1>7. QED
  BY <1>5, <1>6

(* Blocks that lie apart in a bounded heap are finitely many: no two begin *)
(* at the same word.                                                       *)
LEMMA ApartFinite ==
  ASSUME NEW n \in Nat, NEW S, S \subseteq [at : Nat, size : Nat],
         \A b \in S : b.size > 0 /\ After(b) <= n, \A b, d \in S : b # d => Apart(b, d)
  PROVE  IsFiniteSet(S)
<1> DEFINE at == [b \in S |-> b.at]
<1>1. IsFiniteSet(0 .. n)
  BY FS_Interval
<1>2. at \in [S -> 0 .. n]
  BY DEF After
<1>3. ASSUME NEW b \in S, NEW d \in S, at[b] = at[d] PROVE b = d
  BY <1>3 DEF Apart, After
<1>4. at \in Injection(S, 0 .. n)
  BY <1>2, <1>3 DEF Injection, IsInjective
<1>5. QED
  BY <1>1, <1>4, FS_Injection

LEMMA InvImpliesAgrees == HeapInv => InfoAgrees
<1>1. SUFFICES ASSUME HeapInv PROVE InfoAgrees
  OBVIOUS
<1>2. TypeOK /\ HeapTiled
  BY <1>1, InvImpliesTypeOK, InvImpliesTiled
<1>3. PICK F, L : F = ToSet(free) /\ L = {AsBlock(c) : c \in live}
  OBVIOUS
<1>4. /\ end \in Nat /\ Start \in Nat /\ Start <= end
      /\ F \subseteq [at : Nat, size : Nat] /\ L \subseteq [at : Nat, size : Nat]
      /\ Blocks = L \cup F
  <2>1. end \in Nat /\ Start \in Nat /\ Start <= end
    BY <1>2, HeapAssumption, LimitAssumption DEF TypeOK, Gap
  <2>2. \A i \in DOMAIN free : free[i] \in [at : Nat, size : Nat]
    <3>1. free \in Seq([at : Nat, size : Nat])
      BY <1>2 DEF TypeOK
    <3>2. QED
      BY <3>1, ElementOfSeq, LenProperties
  <2>3. F \subseteq [at : Nat, size : Nat]
    BY <1>3, <2>2 DEF ToSet
  <2>4. L \subseteq [at : Nat, size : Nat]
    BY <1>2, <1>3 DEF TypeOK, AsBlock, Block
  <2>5. QED
    BY <1>3, <2>1, <2>3, <2>4 DEF Blocks
<1>5. \A b \in Blocks : b.size > 0 /\ Start <= b.at /\ After(b) <= end
  BY <1>2 DEF HeapTiled
<1>6. /\ \A b, d \in F : b # d => Apart(b, d)
      /\ \A b, d \in L : b # d => Apart(b, d)
      /\ \A b \in L, d \in F : Apart(b, d)
  BY <1>2, <1>3 DEF HeapTiled, ToSet, AsBlock, Block, Apart, After
<1>7. SumOfSizes(F) = Cardinality(WordsOf(F)) /\ SumOfSizes(L) = Cardinality(WordsOf(L))
  BY <1>4, <1>5, <1>6, ApartFinite, SumOfApart
<1>8. WordsOf(F) \cap WordsOf(L) = {}
  BY <1>4, <1>6 DEF WordsOf, Span, Apart, After
<1>9. WordsOf(F) \cup WordsOf(L) = Start .. end - 1
  <2>1. ASSUME NEW b \in Blocks PROVE Span(b) \subseteq Start .. end - 1
    BY <1>4, <1>5 DEF Span, After
  <2>2. ASSUME NEW w \in Start .. end - 1 PROVE \E b \in Blocks : w \in Span(b)
    <3>1. PICK b \in Blocks : Owns(b, w)
      BY <1>2 DEF HeapTiled
    <3>2. QED
      BY <1>4, <3>1 DEF Owns, Span, After
  <2>3. QED
    BY <1>4, <2>1, <2>2 DEF WordsOf
<1>10. Cardinality(WordsOf(F)) + Cardinality(WordsOf(L)) = end - Start
  <2>1. IsFiniteSet(WordsOf(F)) /\ IsFiniteSet(WordsOf(L))
    BY <1>4, <1>5, WordsFinite
  <2>2. Cardinality(Start .. end - 1) = end - Start
    <3>1. Cardinality(Start .. end - 1) = IF Start > end - 1 THEN 0 ELSE end - 1 - Start + 1
      BY <1>4, FS_Interval
    <3>2. QED
      BY <1>4, <3>1
  <2>3. Cardinality(WordsOf(F) \cup WordsOf(L)) =
          Cardinality(WordsOf(F)) + Cardinality(WordsOf(L)) - Cardinality(WordsOf(F) \cap WordsOf(L))
    BY <2>1, FS_Union
  <2>4. Cardinality(WordsOf(F)) \in Nat /\ Cardinality(WordsOf(L)) \in Nat
    BY <2>1, FS_CardinalityType
  <2>5. Cardinality({}) = 0
    BY FS_EmptySet
  <2>6. PICK k, m : k = Cardinality(WordsOf(F)) /\ m = Cardinality(WordsOf(L))
    OBVIOUS
  <2>7. k \in Nat /\ m \in Nat /\ end - Start = k + m - 0
    BY <1>8, <1>9, <2>2, <2>3, <2>4, <2>5, <2>6
  <2>8. QED
    BY <2>6, <2>7
<1>11. Mallinfo.uordblks = SumOfSizes(L)
  <2>1. Mallinfo.uordblks = end - Start - SumOfSizes(F)
    BY <1>3 DEF Mallinfo
  <2>2. Cardinality(WordsOf(F)) \in Nat /\ Cardinality(WordsOf(L)) \in Nat
    BY <1>4, <1>5, WordsFinite, FS_CardinalityType
  <2>3. QED
    BY <1>4, <1>7, <1>10, <2>1, <2>2
<1>12. \A c \in live : UsableSize(c) >= c.want
  <2>1. ASSUME NEW c \in live PROVE c.size >= c.want + 1 /\ c.size \in Nat /\ c.want \in Nat
    BY <1>1, HeapAssumption DEF HeapInv, Served
  <2>2. QED
    BY <2>1 DEF UsableSize
<1>13. QED
  BY <1>3, <1>11, <1>12 DEF InfoAgrees

(* mallinfo, which looks at the free list alone, knows the words in use:   *)
(* those of the heap that are not free are those of the blocks handed out. *)
THEOREM InfoAgreesAlways == Spec => []InfoAgrees
BY HeapInvAlways, InvImpliesAgrees, PTL

-----------------------------------------------------------------------------
(* ImplementsHeap: seen from the programs that call it the allocator is a  *)
(* heap of chunks that share no word.                                      *)
AsChunk(c) == [at |-> c.at + 1, len |-> c.want]
Chunks(L)  == {AsChunk(c) : c \in L}

(* K is S with a chunk k added that lies apart from those of S.            *)
Joins(k, S, K) ==
  /\ Abstract!IsChunk(k) /\ \A m \in S : Abstract!Apart(k, m)
  /\ K = S \cup {k}

LEMMA ChunksApart ==
  ASSUME NEW h, NEW L, Tiled(h, L), L \in SUBSET [at : Nat, size : Nat, want : Requests],
         \A c \in L : c.size >= c.want + 1, NEW d \in L
  PROVE  /\ Abstract!IsChunk(AsChunk(d))
         /\ \A x \in L : x.at # d.at => Abstract!Apart(AsChunk(d), AsChunk(x))
<1>1. /\ h.end \in Nat /\ Start \in Nat /\ Limit \in Nat /\ h.end + 4 <= Limit
  <2>1. IsHeap(h)
    BY DEF Tiled
  <2>2. QED
    BY <2>1, HeapFacts
<1>2. ASSUME NEW x \in L
      PROVE  /\ x.at \in Nat /\ x.size \in Nat /\ x.want \in Nat /\ x.size >= x.want + 1
             /\ Start <= x.at /\ x.at + x.size <= h.end /\ After(x) = x.at + x.size
             /\ AsChunk(x).at = x.at + 1 /\ AsChunk(x).len = x.want /\ x.want \in Requests
  <2>1. InUse(x, h.end)
    BY DEF Tiled
  <2>2. x.want \in Requests /\ x.want \in Nat
    BY HeapAssumption
  <2>3. AsChunk(x).at = x.at + 1 /\ AsChunk(x).len = x.want
    BY DEF AsChunk
  <2>4. QED
    BY <2>1, <2>2, <2>3 DEF InUse, After
<1>3. Abstract!IsChunk(AsChunk(d))
  <2>1. PICK k : k = AsChunk(d)
    OBVIOUS
  <2>2. k.at = d.at + 1 /\ k.len = d.want
    BY <1>2, <2>1
  <2>3. ASSUME NEW w \in k.at .. k.at + k.len - 1 PROVE w \in Start .. Limit - 1
    BY <1>1, <1>2, <2>2
  <2>4. k.len \in Requests
    BY <1>2, <2>2
  <2>5. QED
    BY <2>1, <2>3, <2>4 DEF Abstract!IsChunk
<1>4. ASSUME NEW x \in L, x.at # d.at PROVE Abstract!Apart(AsChunk(d), AsChunk(x))
  <2>1. PICK k, m : k = AsChunk(d) /\ m = AsChunk(x)
    OBVIOUS
  <2>2. k.at = d.at + 1 /\ k.len = d.want /\ m.at = x.at + 1 /\ m.len = x.want
    BY <1>2, <2>1
  <2>3. After(d) <= x.at \/ After(x) <= d.at
    <3>1. Apart(d, x)
      BY <1>4 DEF Tiled
    <3>2. QED
      BY <3>1 DEF Apart
  <2>4. k.at # m.at /\ (k.at + k.len <= m.at \/ m.at + m.len <= k.at)
    BY <1>2, <1>4, <2>2, <2>3
  <2>5. QED
    BY <2>1, <2>4 DEF Abstract!Apart
<1>5. QED
  BY <1>3, <1>4

(* Blocks in use differ in their addresses.                                *)
LEMMA AddressesDiffer ==
  ASSUME NEW h, NEW L, Tiled(h, L), NEW c \in L, NEW d \in L, c # d
  PROVE  c.at # d.at
<1>1. Apart(c, d) /\ InUse(c, h.end) /\ InUse(d, h.end)
  BY DEF Tiled
<1>2. QED
  BY <1>1 DEF Apart, InUse, After

LEMMA ChunksWithout ==
  ASSUME NEW h, NEW L, Tiled(h, L), NEW c \in L
  PROVE  Chunks(L \ {c}) = Chunks(L) \ {AsChunk(c)}
<1>1. ASSUME NEW d \in L, d # c PROVE AsChunk(d) # AsChunk(c)
  <2>1. c.at # d.at
    BY <1>1, AddressesDiffer
  <2>2. InUse(c, h.end) /\ InUse(d, h.end)
    BY DEF Tiled
  <2>3. AsChunk(d).at = d.at + 1 /\ AsChunk(c).at = c.at + 1
    BY DEF AsChunk
  <2>4. QED
    BY <2>1, <2>2, <2>3 DEF InUse
<1>2. QED
  BY <1>1 DEF Chunks

(* A new block among others of other addresses is a chunk added to theirs. *)
LEMMA AddedChunk ==
  ASSUME HeapInv', NEW others, NEW d, live' = others \cup {d},
         \A x \in others : x.at # d.at
  PROVE  Joins(AsChunk(d), Chunks(others), Chunks(live'))
<1>1. PICK h, L : h = Now' /\ L = live'
  OBVIOUS
<1>2. /\ Tiled(h, L) /\ L \in SUBSET [at : Nat, size : Nat, want : Requests]
      /\ \A c \in L : c.size >= c.want + 1
  BY <1>1 DEF HeapInv, Served
<1>3. d \in L /\ others \subseteq L
  BY <1>1
<1>4. /\ Abstract!IsChunk(AsChunk(d))
      /\ \A x \in L : x.at # d.at => Abstract!Apart(AsChunk(d), AsChunk(x))
  BY <1>2, <1>3, ChunksApart
<1>5. Chunks(live') = Chunks(others) \cup {AsChunk(d)}
  BY DEF Chunks
<1>6. \A k \in Chunks(others) : Abstract!Apart(AsChunk(d), k)
  BY <1>3, <1>4 DEF Chunks
<1>7. QED
  BY <1>4, <1>5, <1>6 DEF Joins

(* A call that hands out a block allocates a chunk; null changes nothing.  *)
LEMMA HandsAllocates ==
  ASSUME HeapInv, HeapInv', NEW n \in Requests, NEW r, Gives(Now, r, RealSize(n)),
         Hands(r, n, live)
  PROVE  live' = live \/ \E k : Joins(k, Chunks(live), Chunks(live'))
<1>1. CASE r.block = {}
  BY <1>1 DEF Hands
<1>2. ASSUME NEW b, r.block = {b}
      PROVE  \E k : Joins(k, Chunks(live), Chunks(live'))
  <2>1. PICK d : d = Chunk(b, n)
    OBVIOUS
  <2>2. d.at = b.at /\ {Chunk(x, n) : x \in r.block} = {d}
    BY <1>2, <2>1, NewChunk
  <2>3. live' = live \cup {d}
    BY <2>2 DEF Hands
  <2>4. \A x \in live : x.at # d.at
    BY <1>2, <2>2, NowFacts, NewBlockIsNew
  <2>5. PICK L : L = live
    OBVIOUS
  <2>6. Joins(AsChunk(d), Chunks(L), Chunks(live'))
    BY <2>3, <2>4, <2>5, AddedChunk
  <2>7. QED
    BY <2>5, <2>6
<1>3. QED
  BY <1>1, <1>2 DEF Gives

LEMMA MallocAllocates ==
  ASSUME HeapInv, HeapInv', NEW n \in Requests, Malloc(n)
  PROVE  live' = live \/ \E k : Joins(k, Chunks(live), Chunks(live'))
<1>1. Gives(Now, Allocated(Now, n), RealSize(n))
  BY HeapAssumption, NowFacts, AllocatedGives
<1>2. QED
  BY <1>1, HandsAllocates DEF Malloc

LEMMA MemalignAllocates ==
  ASSUME HeapInv, HeapInv', NEW n \in Requests, NEW align \in Nat, Memalign(align, n)
  PROVE  live' = live \/ \E k : Joins(k, Chunks(live), Chunks(live'))
<1>1. Gives(Now, Memaligned(Now, n, align), RealSize(n))
  BY HeapAssumption, NowFacts, MemalignedGives
<1>2. QED
  BY <1>1, HandsAllocates DEF Memalign

(* realloc resizes the chunk it is given.                                  *)
LEMMA ReallocResizes ==
  ASSUME HeapInv, HeapInv', NEW c \in live, NEW n \in Requests, Realloc(c, n)
  PROVE  \/ live' = live
         \/ \E k : Joins(k, Chunks(live) \ {AsChunk(c)}, Chunks(live'))
<1>1. ASSUME NEW d, live' = (live \ {c}) \cup {d}, \A x \in live \ {c} : x.at # d.at
      PROVE  \E k : Joins(k, Chunks(live) \ {AsChunk(c)}, Chunks(live'))
  <2>1. PICK L : L = live \ {c}
    OBVIOUS
  <2>2. Chunks(L) = Chunks(live) \ {AsChunk(c)}
    BY <2>1, NowFacts, ChunksWithout
  <2>3. Joins(AsChunk(d), Chunks(L), Chunks(live'))
    BY <1>1, <2>1, AddedChunk
  <2>4. QED
    BY <2>2, <2>3
<1>2. ASSUME NEW x \in live \ {c} PROVE x.at # c.at
  BY NowFacts, AddressesDiffer
<1>3. CASE Move(c, n) /\ ~UNCHANGED vars
  <2>1. PICK r, b, d :
          /\ Gives(Now, r, RealSize(n)) /\ r.block = {b} /\ d = Chunk(b, n)
          /\ live' = (live \ {c}) \cup {d}
    BY <1>3, MoveFacts
  <2>2. d.at = b.at
    BY <2>1, NewChunk
  <2>3. \A x \in live \ {c} : x.at # d.at
    BY <2>1, <2>2, NowFacts, NewBlockIsNew
  <2>4. QED
    BY <1>1, <2>1, <2>3
<1>4. CASE Shrink(c, n)
  <2>1. PICK d : d = Chunk(Block(c.at, RealSize(n)), n)
    OBVIOUS
  <2>2. d.at = c.at
    BY <2>1 DEF Chunk, Block
  <2>3. live' = (live \ {c}) \cup {d}
    BY <1>4, <2>1 DEF Shrink
  <2>4. QED
    BY <1>1, <1>2, <2>2, <2>3
<1>5. CASE Keep(c, n)
  <2>1. PICK d : d = Chunk(c, n)
    OBVIOUS
  <2>2. d.at = c.at
    BY <2>1 DEF Chunk
  <2>3. live' = (live \ {c}) \cup {d}
    BY <1>5, <2>1 DEF Keep
  <2>4. QED
    BY <1>1, <1>2, <2>2, <2>3
<1>6. QED
  BY <1>3, <1>4, <1>5 DEF Realloc, vars

(* Every step is one of the heap, or changes no chunk.                     *)
LEMMA StepIsHeapStep ==
  HeapInv /\ HeapInv' /\ [Next]_vars
    => \/ live' = live
       \/ \E k : Joins(k, Chunks(live), Chunks(live'))
       \/ \E k \in Chunks(live) : Chunks(live') = Chunks(live) \ {k}
       \/ \E j \in Chunks(live) : \E k : Joins(k, Chunks(live) \ {j}, Chunks(live'))
<1>1. SUFFICES
        ASSUME HeapInv, HeapInv', Next
        PROVE  \/ live' = live
               \/ \E k : Joins(k, Chunks(live), Chunks(live'))
               \/ \E k \in Chunks(live) : Chunks(live') = Chunks(live) \ {k}
               \/ \E j \in Chunks(live) : \E k : Joins(k, Chunks(live) \ {j}, Chunks(live'))
  BY DEF vars
<1>2. Requests \subseteq Nat /\ Aligns \subseteq Nat /\ Page \in Nat
  BY HeapAssumption
<1>3. ASSUME NEW n \in Requests, Malloc(n) \/ ReallocNull(n) \/ Valloc(n) \/ Pvalloc(n)
      PROVE  live' = live \/ \E k : Joins(k, Chunks(live), Chunks(live'))
  <2>1. CASE Malloc(n) \/ ReallocNull(n)
    BY <1>1, <2>1, MallocAllocates DEF ReallocNull
  <2>2. CASE Valloc(n)
    BY <1>1, <1>2, <2>2, MemalignAllocates DEF Valloc
  <2>3. CASE Pvalloc(n)
    BY <1>1, <1>2, <2>3, MemalignAllocates DEF Pvalloc
  <2>4. QED
    BY <1>3, <2>1, <2>2, <2>3
<1>4. ASSUME NEW n \in Requests, NEW m \in Requests, Calloc(n, m)
      PROVE  live' = live \/ \E k : Joins(k, Chunks(live), Chunks(live'))
  BY <1>1, <1>4, MallocAllocates DEF Calloc
<1>5. ASSUME NEW n \in Requests, NEW align \in Aligns, Memalign(align, n)
      PROVE  live' = live \/ \E k : Joins(k, Chunks(live), Chunks(live'))
  BY <1>1, <1>2, <1>5, MemalignAllocates
<1>6. ASSUME NEW c \in live, Free(c) \/ Cfree(c)
      PROVE  \E k \in Chunks(live) : Chunks(live') = Chunks(live) \ {k}
  <2>1. PICK L : L = live'
    OBVIOUS
  <2>2. L = live \ {c}
    BY <1>6, <2>1 DEF Free, Cfree
  <2>3. Chunks(live \ {c}) = Chunks(live) \ {AsChunk(c)}
    BY <1>1, NowFacts, ChunksWithout
  <2>4. AsChunk(c) \in Chunks(live)
    BY DEF Chunks
  <2>5. QED
    BY <2>1, <2>2, <2>3, <2>4
<1>7. ASSUME NEW c \in live, NEW n \in Requests, Realloc(c, n)
      PROVE  \/ live' = live
             \/ \E j \in Chunks(live) : \E k : Joins(k, Chunks(live) \ {j}, Chunks(live'))
  <2>1. AsChunk(c) \in Chunks(live)
    BY DEF Chunks
  <2>2. QED
    BY <1>1, <1>7, <2>1, ReallocResizes
<1>8. QED
  BY <1>1, <1>3, <1>4, <1>5, <1>6, <1>7 DEF Next

(* The implementation of the abstract heap: whatever is asked for and      *)
(* freed, in any order, chunks in use share no word.                       *)
THEOREM ImplementsHeapAlways == Spec => ImplementsHeap
<1> DEFINE Seen == {[at |-> c.at + 1, len |-> c.want] : c \in live}
<1>1. Chunks(live) = Seen
  BY DEF Chunks, AsChunk
<1>2. Init => Abstract!Init
  BY DEF Init, Abstract!Init
<1>3. HeapInv /\ HeapInv' /\ [Next]_vars => [Abstract!Next]_Seen
  <2>1. SUFFICES ASSUME HeapInv, HeapInv', [Next]_vars PROVE [Abstract!Next]_Seen
    OBVIOUS
  <2>2. Chunks(live') = Seen'
    BY DEF Chunks, AsChunk
  <2>3. CASE live' = live
    BY <2>3
  <2>4. ASSUME NEW k, Joins(k, Chunks(live), Chunks(live')) PROVE Abstract!Alloc
    BY <1>1, <2>2, <2>4 DEF Abstract!Alloc, Abstract!Add, Joins
  <2>5. ASSUME NEW k \in Chunks(live), Chunks(live') = Chunks(live) \ {k} PROVE Abstract!Release
    BY <1>1, <2>2, <2>5 DEF Abstract!Release
  <2>6. ASSUME NEW j \in Chunks(live), NEW k, Joins(k, Chunks(live) \ {j}, Chunks(live'))
        PROVE  Abstract!Resize
    BY <1>1, <2>2, <2>6 DEF Abstract!Resize, Abstract!Add, Joins
  <2>7. QED
    BY <2>1, <2>3, <2>4, <2>5, <2>6, StepIsHeapStep DEF Abstract!Next
<1>4. QED
  BY <1>2, <1>3, HeapInvAlways, PTL DEF Spec, ImplementsHeap, Abstract!Spec
=============================================================================
