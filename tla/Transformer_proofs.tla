------------------------- MODULE Transformer_proofs -------------------------
(***************************************************************************)
(* Proofs about the accelerator, for every size of array and matrix and    *)
(* every number of heads that the design is made for.                      *)
(*                                                                         *)
(* The stages keep time by counting, each unit for itself, and only the    *)
(* number of words written says that a stage is over.  The first part      *)
(* gives the state of every unit in every cycle of a stage (TimeInv), the  *)
(* second the kind of every register (Types).  On these two the third      *)
(* tells the words: what is inside every unit in that cycle, that the word *)
(* it writes is the next one of the matrix it makes, and that the memories *)
(* keep what the stages to come are going to read (DataInv).  The fourth   *)
(* looks at whole matrices: which of them are there, and what they were    *)
(* made of (ImplementsInference).  The last one adds up the cycles of the  *)
(* stages (InTime).                                                        *)
(***************************************************************************)
EXTENDS Stopwatch, FiniteSetTheorems, TLAPS

-----------------------------------------------------------------------------
(* Whole numbers. *)
LEMMA Division ==
  ASSUME NEW n \in Nat \ {0}, NEW q \in Nat, NEW r \in 0 .. n - 1
  PROVE  /\ (n * q + r) \div n = q /\ (n * q + r) % n = r
         /\ (n * q) \div n = q /\ (n * q) % n = 0
OBVIOUS

LEMMA Remainder ==
  ASSUME NEW n \in Nat \ {0}, NEW x \in Nat
  PROVE  /\ x = n * (x \div n) + (x % n) /\ x \div n \in Nat /\ x % n \in 0 .. n - 1
         /\ (x + 1) % n = IF x % n = n - 1 THEN 0 ELSE (x % n) + 1
<1>1. x = n * (x \div n) + (x % n) /\ x \div n \in Nat /\ x % n \in 0 .. n - 1
  OBVIOUS
<1>2. PICK q \in Nat, r \in 0 .. n - 1 : q = x \div n /\ r = x % n /\ x = n * q + r
  BY <1>1
<1>3. CASE r = n - 1
  <2>1. x + 1 = n * (q + 1) /\ q + 1 \in Nat
    BY <1>2, <1>3
  <2>2. (n * (q + 1)) % n = 0
    BY <2>1, Division
  <2>3. QED
    BY <1>2, <1>3, <2>1, <2>2
<1>4. CASE r # n - 1
  <2>1. PICK r1 \in 0 .. n - 1 : r1 = r + 1 /\ x + 1 = n * q + r1
    BY <1>2, <1>4
  <2>2. (n * q + r1) % n = r1
    BY <2>1, Division
  <2>3. QED
    BY <1>2, <1>4, <2>1, <2>2
<1>5. QED
  BY <1>1, <1>2, <1>3, <1>4

LEMMA Multiples ==
  ASSUME NEW n \in Nat, NEW b \in Nat
  PROVE  /\ n * b \in Nat /\ n * (b + 1) = n * b + n /\ n * b = b * n
         /\ n * (b - 1) = n * b - n /\ n * (b - 2) = n * b - n - n
<1>1. n * b \in Nat /\ n * (b + 1) = n * b + n
  OBVIOUS
<1>2. n * b = b * n
  OBVIOUS
<1>3. n * (b - 1) = n * b - n /\ n * (b - 2) = n * b - n - n
  OBVIOUS
<1>4. QED
  BY <1>1, <1>2, <1>3

LEMMA Reordered ==
  ASSUME NEW a \in Nat, NEW b \in Nat, NEW c \in Nat
  PROVE  a * (b * c) = b * (a * c) /\ (a * b) * c = a * (b * c) /\ a * b \in Nat
OBVIOUS

LEMMA MoreMultiples ==
  ASSUME NEW n \in Nat, NEW b \in Nat, NEW t \in Nat, b < t
  PROVE  n * b + n <= n * t
<1>1. PICK d \in Nat : t = b + 1 + d
  BY t - b - 1 \in Nat
<1>2. n * t = n * b + n + n * d
  BY <1>1
<1>3. n * b \in Nat /\ n * d \in Nat
  BY Multiples
<1>4. QED
  BY <1>2, <1>3

-----------------------------------------------------------------------------
(* What the sizes have to do with each other. *)
LEMMA Sizes ==
  /\ Array \in Nat /\ Array >= 2 /\ Heads \in Nat \ {0}
  /\ Mat = Array * Array /\ Mat \in Nat /\ 2 * Array <= Mat /\ Blocks = Array
  /\ \E v \in Nat \ {0} : /\ Array = Heads * v
                          /\ Mat \div Heads = Array * v /\ Array <= Array * v
                          /\ Blocks \div Heads = v
                          /\ (Mat * Array) \div Heads = Array * (Array * v)
                          /\ \A h \in Nat : /\ (h * Mat) \div Heads = h * (Array * v)
                                            /\ (h * Blocks) \div Heads = h * v
<1>1. Array \in Nat /\ Array >= 2 /\ Array \in Nat \ {0} /\ Heads \in Nat \ {0} /\ Mat = Array * Array
  BY SizesAssumption, MatIsSquare
<1>2. Mat \in Nat /\ 2 * Array <= Mat
  BY <1>1, Multiples, MoreMultiples
<1>3. Blocks = Array
  BY <1>1, Division DEF Blocks
<1>4. PICK v \in Nat : Array = Heads * v
  <2>1. Array % Heads = 0
    BY <1>3, SizesAssumption
  <2>2. Array = Heads * (Array \div Heads) + 0 /\ Array \div Heads \in Nat
    BY <1>1, <2>1, Remainder
  <2>3. Array = Heads * (Array \div Heads)
    BY <1>1, <2>2, Multiples
  <2>4. QED
    BY <2>2, <2>3
<1>5. v \in Nat \ {0}
  <2>1. CASE v = 0
    BY <1>1, <1>4, <2>1
  <2>2. QED
    BY <1>4, <2>1
<1>6. Blocks \div Heads = v
  BY <1>1, <1>3, <1>4, Division
<1>7. Array * v \in Nat /\ Array <= Array * v
  BY <1>1, <1>5
<1>8. Mat = Heads * (Array * v) /\ Mat * Array = Heads * (Array * (Array * v))
      /\ Array * (Array * v) \in Nat
  <2>1. (Heads * v) * Array = Heads * (v * Array) /\ v * Array = Array * v
    BY <1>1, <1>5, Reordered, Multiples
  <2>2. Mat = Heads * (Array * v)
    BY <1>1, <1>4, <2>1
  <2>3. (Heads * (Array * v)) * Array = Heads * ((Array * v) * Array)
        /\ (Array * v) * Array = Array * (Array * v) /\ Array * (Array * v) \in Nat
    BY <1>1, <1>7, Reordered, Multiples
  <2>4. QED
    BY <2>2, <2>3
<1>9. PICK w \in Nat : w = Array * v /\ Mat = Heads * w /\ Mat * Array = Heads * (Array * w)
  BY <1>7, <1>8
<1>10. Mat \div Heads = w
  BY <1>1, <1>9, Division
<1>11. (Mat * Array) \div Heads = Array * w
  <2>1. Array * w \in Nat
    BY <1>1, <1>9, Multiples
  <2>2. QED
    BY <1>1, <1>9, <2>1, Division
<1>12. ASSUME NEW h \in Nat
       PROVE  (h * Mat) \div Heads = h * w /\ (h * Blocks) \div Heads = h * v
  <2>1. h * Mat = Heads * (h * w) /\ h * w \in Nat
    BY <1>1, <1>9, Reordered
  <2>2. h * Blocks = Heads * (h * v) /\ h * v \in Nat
    BY <1>1, <1>3, <1>4, <1>5, Reordered
  <2>3. (Heads * (h * w)) \div Heads = h * w /\ (Heads * (h * v)) \div Heads = h * v
    BY <1>1, <2>1, <2>2, Division
  <2>4. QED
    BY <2>1, <2>2, <2>3
<1>13. QED
  BY <1>1, <1>2, <1>3, <1>4, <1>5, <1>6, <1>7, <1>9, <1>10, <1>11, <1>12

-----------------------------------------------------------------------------
(* What a product is to do: the words it reads for a block, the blocks it  *)
(* makes, and the words that leaves in memory.                             *)
Mode  == CT!Mode
Words == MM!KEnd(Mode) - MM!KStart(Mode) + 1
Total == MM!TotalBlocks(Mode)

Sized ==
  /\ Words \in Nat /\ Array <= Words /\ (Mode.transpose => 2 * Array <= Words)
  /\ MM!KStart(Mode) \in Nat /\ MM!KEnd(Mode) < Mat
  /\ Total \in Nat /\ Total >= 1 /\ Mode.transpose \in BOOLEAN
  /\ Array \in Nat /\ Array >= 2 /\ Mat \in Nat

LEMMA Task ==
  ASSUME job \in CT!MatMulJob, head \in 0 .. Heads - 1
  PROVE  /\ Words \in Nat /\ Array <= Words /\ (Mode.transpose => 2 * Array <= Words)
         /\ MM!KStart(Mode) \in Nat /\ MM!KEnd(Mode) \in Nat /\ MM!KEnd(Mode) < Mat
         /\ Total \in Nat /\ Total >= 1
         /\ TargetWriteCount = Array * Total - 1
         /\ Mode.transpose \in BOOLEAN
<1>1. PICK v \in Nat \ {0} :
        /\ Array = Heads * v
        /\ Mat \div Heads = Array * v /\ Array <= Array * v
        /\ Blocks \div Heads = v
        /\ (Mat * Array) \div Heads = Array * (Array * v)
        /\ \A h \in Nat : /\ (h * Mat) \div Heads = h * (Array * v)
                          /\ (h * Blocks) \div Heads = h * v
  BY Sizes
<1>2. /\ Array \in Nat /\ Array >= 2 /\ Heads \in Nat \ {0} /\ head \in Nat
      /\ Mat = Array * Array /\ Mat \in Nat /\ 2 * Array <= Mat /\ Blocks = Array
      /\ MM!Blocks = Array
  BY Sizes DEF MM!Blocks, Blocks
<1>3. Mode.transpose \in BOOLEAN
  BY DEF Mode, CT!Mode
<1>4. CASE job = "E"
  <2>1. PICK w \in Nat : w = Array * v
    BY <1>2, Multiples
  <2>2. ~Mode.transpose /\ Mode.multiHead /\ ~Mode.calcZ /\ Mode.head = head
    BY <1>4 DEF Mode, CT!Mode
  <2>3. MM!KStart(Mode) = head * w /\ MM!KEnd(Mode) = head * w + w - 1
    BY <1>1, <1>2, <2>1, <2>2 DEF MM!KStart, MM!KEnd, MM!PerHeadK
  <2>4. head * w \in Nat /\ head * w + w <= Mat
    <3>1. head * w + w <= Heads * w
      BY <1>2, <2>1, Multiples, MoreMultiples
    <3>2. Heads * w = Mat
      BY <1>1, <1>2, <2>1, Reordered
    <3>3. QED
      BY <1>2, <2>1, <3>1, <3>2, Multiples
  <2>5. Total = Array * Array
    BY <1>2, <2>2 DEF Total, MM!TotalBlocks, MM!BcStart, MM!BcEnd
  <2>6. TargetWriteCount = Mat * Array - 1
    BY <2>2 DEF TargetWriteCount, Mode
  <2>7. QED
    BY <1>1, <1>2, <1>3, <2>1, <2>2, <2>3, <2>4, <2>5, <2>6 DEF Words
<1>5. CASE job = "Z"
  <2>1. PICK w \in Nat : w = Array * v
    BY <1>2, Multiples
  <2>2. Mode.transpose /\ Mode.multiHead /\ Mode.calcZ /\ Mode.head = head
    BY <1>5 DEF Mode, CT!Mode
  <2>3. MM!KStart(Mode) = 0 /\ MM!KEnd(Mode) = Mat - 1
    BY <1>2, <2>2 DEF MM!KStart, MM!KEnd, MM!PerHeadK
  <2>4. MM!BcStart(Mode) = head * v /\ MM!BcEnd(Mode) = head * v + v - 1
    <3>1. (head * MM!Blocks) \div Heads = head * v /\ MM!Blocks \div Heads = v
      BY <1>1, <1>2
    <3>2. head * v \in Nat
      BY <1>2, Multiples
    <3>3. QED
      BY <2>2, <3>1, <3>2 DEF MM!BcStart, MM!BcEnd
  <2>5. Total = Array * v
    <3>1. head * v \in Nat
      BY <1>2, Multiples
    <3>2. (head * v + v - 1) - head * v + 1 = v
      BY <3>1
    <3>3. QED
      BY <1>2, <2>4, <3>2 DEF Total, MM!TotalBlocks
  <2>6. TargetWriteCount = Array * (Array * v) - 1
    BY <1>1, <2>2 DEF TargetWriteCount, Mode
  <2>7. QED
    BY <1>1, <1>2, <1>3, <2>1, <2>2, <2>3, <2>5, <2>6 DEF Words
<1>6. CASE job \in {"Q", "K", "V", "OUT"}
  <2>1. ~Mode.multiHead /\ ~Mode.calcZ
    BY <1>6 DEF Mode, CT!Mode
  <2>2. MM!KStart(Mode) = 0 /\ MM!KEnd(Mode) = Mat - 1
    BY <1>2, <2>1 DEF MM!KStart, MM!KEnd, MM!PerHeadK
  <2>3. Total = Array * Array
    BY <1>2, <2>1 DEF Total, MM!TotalBlocks, MM!BcStart, MM!BcEnd
  <2>4. TargetWriteCount = Mat * Array - 1
    BY <2>1 DEF TargetWriteCount, Mode
  <2>5. QED
    BY <1>2, <1>3, <2>2, <2>3, <2>4 DEF Words
<1>7. QED
  BY <1>4, <1>5, <1>6 DEF CT!MatMulJob
-----------------------------------------------------------------------------
(* The parts are instances with their own copies of the names of things.   *)
LEMMA Copies ==
  /\ MM!Blocks = Blocks /\ MM!Lane = Lane /\ MM!Index = Index
  /\ MM!Entry = Entry /\ MM!Word = Word
  /\ SF!Blocks = Blocks /\ SF!Lane = Lane /\ SF!Index = Index
  /\ SF!Entry = Entry /\ SF!Word = Word /\ SF!Address = Address /\ SF!JunkWord = JunkWord
  /\ TR!Lane = Lane /\ TR!Word = Word /\ TR!JunkWord = JunkWord
BY DEF MM!Blocks, MM!Lane, MM!Index, MM!HeadId, MM!Entry, MM!Word, MM!Product, MM!Matrix,
       SF!Blocks, SF!Lane, SF!Index, SF!HeadId, SF!Entry, SF!Word, SF!Product, SF!Matrix,
       SF!Address, SF!JunkWord, SF!Junk, SF!At,
       TR!Lane, TR!Index, TR!HeadId, TR!Entry, TR!Word, TR!Product, TR!Matrix,
       TR!JunkWord, TR!Junk, TR!At,
       Blocks, Lane, Index, HeadId, Entry, Word, Product, Matrix, Address, JunkWord, Junk, At

LEMMA Places ==
  /\ Lane = 0 .. Array - 1 /\ 0 \in Lane /\ Lane \subseteq Index /\ Index = 0 .. Array * Array - 1
  /\ HeadId = 0 .. Heads - 1 /\ 0 \in HeadId
  /\ Address = 0 .. (Array * Array) * Array - 1
BY Sizes DEF Lane, Index, HeadId, Address

LEMMA InRow ==
  ASSUME NEW n \in Nat \ {0}, NEW m \in Nat, NEW q \in 0 .. m - 1, NEW r \in 0 .. n - 1
  PROVE  q * n + r \in 0 .. m * n - 1
<1>1. n * q + n <= n * m
  BY MoreMultiples
<1>2. n * q = q * n /\ n * m = m * n /\ n * q \in Nat /\ n * m \in Nat
  BY Multiples
<1>3. QED
  BY <1>1, <1>2

LEMMA Columned ==
  ASSUME NEW c \in Index
  PROVE  HeadOf(c) \in HeadId
<1>1. PICK v \in Nat \ {0} : Array = Heads * v /\ Mat \div Heads = Array * v
  BY Sizes
<1>2. Mat = Heads * (Mat \div Heads) /\ Mat \div Heads \in Nat \ {0}
  <2>1. Array * Array = Array * (Heads * v) /\ Array * (Heads * v) = Heads * (Array * v)
    BY <1>1, Sizes, Reordered
  <2>2. Array * v \in Nat \ {0}
    BY <1>1, Sizes
  <2>3. QED
    BY <1>1, <2>1, <2>2, Sizes
<1>3. PICK w \in Nat \ {0} : w = Mat \div Heads
  BY <1>2
<1>4. PICK q \in Nat, r \in 0 .. w - 1 : c = w * q + r /\ q = c \div w
  <2>1. c \in Nat
    BY Places, Sizes
  <2>2. QED
    BY <1>3, <2>1, Remainder
<1>5. q < Heads
  <2>1. SUFFICES ASSUME q >= Heads PROVE FALSE
    BY Sizes
  <2>2. w * Heads <= w * q
    BY <1>3, <1>4, <2>1, Sizes
  <2>3. c < w * Heads
    BY <1>2, <1>3, Sizes, Multiples DEF Index
  <2>4. w * Heads \in Nat /\ w * q \in Nat
    BY Sizes, Multiples
  <2>5. QED
    BY <1>4, <2>2, <2>3, <2>4
<1>6. QED
  <2>1. HeadOf(c) = q
    BY <1>3, <1>4 DEF HeadOf
  <2>2. q \in 0 .. Heads - 1
    BY <1>4, <1>5, Sizes
  <2>3. QED
    BY <2>1, <2>2 DEF HeadId

(* What the arithmetic units make of entries are entries.                  *)
LEMMA EntryAt ==
  /\ \A m \in Matrix, h \in HeadId, r \in Index, c \in Index : At(m, h, r, c) \in Entry
  /\ Junk \in Entry /\ JunkWord \in Word
  /\ \A e \in Entry : e.m \in Matrix /\ e.h \in HeadId /\ e.r \in Index /\ e.c \in Index
<1>1. \A m \in Matrix, h \in HeadId, r \in Index, c \in Index : At(m, h, r, c) \in Entry
  BY DEF At, Entry
<1>2. Junk \in Entry
  <2>1. "Junk" \in Matrix /\ 0 \in HeadId /\ 0 \in Index
    BY Places DEF Matrix
  <2>2. QED
    BY <1>1, <2>1 DEF Junk
<1>3. JunkWord \in Word
  BY <1>2 DEF JunkWord, Word
<1>4. QED
  BY <1>1, <1>2, <1>3 DEF Entry

LEMMA DotEntry ==
  ASSUME NEW pairs \in Seq(Entry \X Entry)
  PROVE  MM!Dot(pairs) \in Entry
<1> DEFINE made == MM!MadeOf(pairs[1][1], pairs[1][2])
<1>1. pairs # <<>> => made \in Entry
  <2>1. SUFFICES ASSUME pairs # <<>> PROVE made \in Entry
    OBVIOUS
  <2>2. PICK a \in Entry, b \in Entry : a = pairs[1][1] /\ b = pairs[1][2]
    BY <2>1
  <2>3. MM!At("E", MM!HeadOf(a.c), a.r, b.r) \in Entry
    BY EntryAt, Columned DEF MM!At, At, MM!HeadOf, HeadOf, Matrix, Product
  <2>4. MM!At("Z", 0, a.r, b.c) \in Entry
    BY EntryAt, Places DEF MM!At, At, Matrix, Product
  <2>5. ASSUME NEW m \in DOMAIN MM!Left
        PROVE  MM!At(m, 0, a.r, b.c) \in Entry
    BY EntryAt, Places DEF MM!Left, MM!At, At, Matrix, Product
  <2>6. MM!Junk \in Entry
    BY EntryAt DEF MM!Junk, Junk, MM!At, At
  <2>7. QED
    BY <2>2, <2>3, <2>4, <2>5, <2>6 DEF MM!MadeOf
<1>2. MM!Junk \in Entry
  BY EntryAt DEF MM!Junk, Junk, MM!At, At
<1> HIDE DEF made
<1>3. MM!Dot(pairs) \in {made, MM!Junk} /\ (MM!Dot(pairs) = made => pairs # <<>> \/ made = MM!Junk)
  BY DEF MM!Dot, made
<1>4. QED
  BY <1>1, <1>2, <1>3

LEMMA QuotientEntry ==
  ASSUME NEW exp \in Entry \X SUBSET Entry, NEW sum
  PROVE  SF!Quotient(exp, sum) \in Entry
<1>1. PICK e \in Entry : e = exp[1]
  OBVIOUS
<1>2. SF!At("S", e.h, e.r, e.c) \in Entry
  BY EntryAt DEF SF!At, At, Matrix
<1>3. SF!Junk \in Entry
  BY EntryAt DEF SF!Junk, Junk, SF!At, At
<1>4. QED
  BY <1>1, <1>2, <1>3 DEF SF!Quotient

-----------------------------------------------------------------------------
(* The time of a product.  In cycle p of its block b, counting from 0, the *)
(* rows of at most two blocks are under way: those of the last one fed,    *)
(* taken from the accumulators p - 1 cycles ago, and of the one before.    *)
Ages(b, p) ==
  {a \in Nat : \/ b >= 1 /\ p >= 1 /\ a = p - 1
               \/ b >= 2 /\ a = p + Words}

(* The rows, or columns, that a unit has put out which begins s cycles     *)
(* after the accumulators are taken.                                       *)
Clip(x) == IF x < 0 THEN 0 ELSE IF x > Array THEN Array ELSE x
Out(s, b, p) ==
  IF b = 0 THEN 0
  ELSE Clip(p - 1 - s) + (IF b = 1 THEN 0 ELSE Array * (b - 2) + Clip(p + Words - s))

Within(s, a) == s <= a /\ a < s + Array
OneOut(s, b, p) == \E a \in Ages(b, p) : Within(s, a)

(* The cycle after. *)
EndOfBlock(b, p) == b < Total /\ p = Words
NextB(b, p) == IF EndOfBlock(b, p) THEN b + 1 ELSE b
NextP(b, p) == IF EndOfBlock(b, p) THEN 0 ELSE p + 1

LEMMA AgesGrow ==
  ASSUME NEW b \in Nat, NEW p \in Nat, Words \in Nat, Words >= 1, Total \in Nat,
         b < Total => p <= Words, NEW a \in Nat
  PROVE  a \in Ages(NextB(b, p), NextP(b, p)) <=>
           \/ a = 0 /\ b >= 1 /\ p = 0
           \/ a >= 1 /\ a - 1 \in Ages(b, p) /\ ~(EndOfBlock(b, p) /\ a - 1 = 2 * Words)
<1>1. CASE EndOfBlock(b, p)
  <2>1. NextB(b, p) = b + 1 /\ NextP(b, p) = 0 /\ p = Words
    BY <1>1 DEF NextB, NextP, EndOfBlock
  <2>2. a \in Ages(NextB(b, p), NextP(b, p)) <=> b >= 1 /\ a = Words
    BY <2>1 DEF Ages
  <2>3. a >= 1 => (a - 1 \in Ages(b, p) <=> (b >= 1 /\ a = Words) \/ (b >= 2 /\ a - 1 = 2 * Words))
    BY <2>1 DEF Ages
  <2>4. QED
    BY <1>1, <2>1, <2>2, <2>3
<1>2. CASE ~EndOfBlock(b, p)
  <2>1. NextB(b, p) = b /\ NextP(b, p) = p + 1
    BY <1>2 DEF NextB, NextP
  <2>2. QED
    BY <1>2, <2>1 DEF Ages
<1>3. QED
  BY <1>1, <1>2

LEMMA OneAtATime ==
  ASSUME NEW s \in Nat, NEW b \in Nat, NEW p \in Nat, Words \in Nat, Array \in Nat, Array <= Words,
         NEW x \in Ages(b, p), NEW y \in Ages(b, p), Within(s, x), Within(s, y)
  PROVE  x = y
BY DEF Ages, Within

LEMMA ClipStep ==
  ASSUME NEW x \in Int, Array \in Nat, Array >= 1
  PROVE  Clip(x + 1) = Clip(x) + (IF 0 <= x /\ x < Array THEN 1 ELSE 0) /\ Clip(x) \in 0 .. Array
BY DEF Clip

LEMMA OutStep ==
  ASSUME NEW s \in Nat, NEW b \in Nat, NEW p \in Nat, Words \in Nat, Array \in Nat, Array >= 1,
         Array <= Words, s + Array <= 2 * Words + 1, Total \in Nat, b < Total => p <= Words
  PROVE  Out(s, NextB(b, p), NextP(b, p)) = Out(s, b, p) + (IF OneOut(s, b, p) THEN 1 ELSE 0)
<1> DEFINE young == IF 0 <= p - 1 - s /\ p - 1 - s < Array THEN 1 ELSE 0
           old   == IF 0 <= p + Words - s /\ p + Words - s < Array THEN 1 ELSE 0
<1>1. (IF OneOut(s, b, p) THEN 1 ELSE 0) =
        IF b = 0 THEN 0 ELSE IF b = 1 THEN young ELSE young + old
  <2>1. OneOut(s, b, p) <=> \/ b >= 1 /\ p >= 1 /\ Within(s, p - 1)
                            \/ b >= 2 /\ Within(s, p + Words)
    BY DEF OneOut, Ages
  <2>2. QED
    BY <2>1 DEF Within
<1>2. Clip(p - s) = Clip(p - 1 - s) + young
  <2>1. p - 1 - s \in Int /\ p - s = (p - 1 - s) + 1
    OBVIOUS
  <2>2. QED
    BY <2>1, ClipStep
<1>3. Clip(p + 1 + Words - s) = Clip(p + Words - s) + old
  <2>1. p + Words - s \in Int /\ p + 1 + Words - s = (p + Words - s) + 1
    OBVIOUS
  <2>2. QED
    BY <2>1, ClipStep
<1>4. /\ Clip(p - 1 - s) \in Nat /\ Clip(p - s) \in Nat
      /\ Clip(p + Words - s) \in Nat /\ Clip(p + 1 + Words - s) \in Nat
  BY DEF Clip
<1>5. Array * (b - 2) \in Int /\ Array * (b - 1) = Array * (b - 2) + Array
  <2>1. b - 2 \in Int
    OBVIOUS
  <2>2. QED
    BY <2>1, Multiples
<1> HIDE DEF young, old
<1>6. CASE EndOfBlock(b, p)
  <2>1. NextB(b, p) = b + 1 /\ NextP(b, p) = 0 /\ p = Words
    BY <1>6 DEF NextB, NextP, EndOfBlock
  <2>2. Clip(0 - 1 - s) = 0
    BY DEF Clip
  <2>3. Clip(p + 1 + Words - s) = Array
    BY <2>1 DEF Clip
  <2>4. Out(s, b + 1, 0) = IF b = 0 THEN 0 ELSE Array * (b - 1) + Clip(0 + Words - s)
    <3>1. b + 1 # 0 /\ (b + 1 = 1 <=> b = 0) /\ b + 1 - 2 = b - 1
      OBVIOUS
    <3>2. Array * (b - 1) \in Int /\ Clip(0 + Words - s) \in Nat
      BY <1>5 DEF Clip
    <3>3. QED
      BY <2>2, <3>1, <3>2 DEF Out
  <2>5. 0 + Words - s = p - s
    BY <2>1
  <2>6. CASE b = 0
    BY <1>1, <2>1, <2>4, <2>6 DEF Out
  <2>7. CASE b = 1
    <3>1. Array * (b - 1) = 0
      BY <2>7
    <3>2. Out(s, b, p) = Clip(p - 1 - s)
      BY <1>4, <2>7 DEF Out
    <3>3. QED
      BY <1>1, <1>2, <1>4, <2>1, <2>4, <2>5, <2>7, <3>1, <3>2
  <2>8. CASE b >= 2
    <3>1. Out(s, b, p) = Clip(p - 1 - s) + (Array * (b - 2) + Clip(p + Words - s))
      BY <2>8 DEF Out
    <3>2. Out(s, b + 1, 0) = Array * (b - 1) + Clip(p - s)
      BY <2>4, <2>5, <2>8
    <3>3. young \in Int /\ old \in Int
      BY DEF young, old
    <3>4. Array * (b - 1) + Clip(p - s)
            = (Clip(p - 1 - s) + (Array * (b - 2) + Clip(p + Words - s))) + (young + old)
      <4>1. PICK x \in Int, c \in Nat, o \in Nat :
               x = Array * (b - 2) /\ c = Clip(p - 1 - s) /\ o = Clip(p + Words - s)
        BY <1>4, <1>5
      <4>2. Array * (b - 1) = x + Array /\ Clip(p - s) = c + young /\ Array = o + old
        BY <1>2, <1>3, <1>5, <2>3, <4>1
      <4>3. (x + (o + old)) + (c + young) = (c + (x + o)) + (young + old)
        BY <3>3, <4>1
      <4>4. QED
        BY <4>1, <4>2, <4>3
    <3>5. QED
      BY <1>1, <2>1, <2>8, <3>1, <3>2, <3>4
  <2>9. QED
    BY <2>6, <2>7, <2>8
<1>7. CASE ~EndOfBlock(b, p)
  <2>1. NextB(b, p) = b /\ NextP(b, p) = p + 1
    BY <1>7 DEF NextB, NextP
  <2>2. p + 1 - 1 - s = p - s
    OBVIOUS
  <2>3. young \in Int /\ old \in Int
    BY DEF young, old
  <2>4. QED
    BY <1>1, <1>2, <1>3, <1>4, <1>5, <2>1, <2>2, <2>3 DEF Out
<1>8. QED
  BY <1>6, <1>7

LEMMA OutInt ==
  ASSUME NEW s \in Nat, NEW b \in Nat, NEW p \in Nat, Sized
  PROVE  Out(s, b, p) \in Nat
<1>1. Clip(p - 1 - s) \in Nat /\ Clip(p + Words - s) \in Nat
  BY DEF Clip, Sized
<1>2. b >= 2 => Array * (b - 2) \in Nat
  <2>1. SUFFICES ASSUME b >= 2 PROVE Array * (b - 2) \in Nat
    OBVIOUS
  <2>2. b - 2 \in Nat /\ Array \in Nat
    BY <2>1 DEF Sized
  <2>3. QED
    BY <2>2, Multiples
<1>3. QED
  BY <1>1, <1>2 DEF Out

(* The last one is out in just one cycle. *)
LEMMA LastOut ==
  ASSUME NEW s \in Nat, NEW b \in Nat, NEW p \in Nat, Words \in Nat, Array \in Nat, Array >= 2,
         Array <= Words, s + Array <= 2 * Words + 1, Total \in Nat, Total >= 1, b <= Total,
         b < Total => p <= Words, b = Total => p <= s + Array
  PROVE  OneOut(s, b, p) /\ Out(s, b, p) = Array * Total - 1 <=> b = Total /\ p = s + Array
<1>1. /\ Clip(p - 1 - s) \in 0 .. Array /\ Clip(p + Words - s) \in 0 .. Array
      /\ p < s + Array => Clip(p - 1 - s) <= Array - 2
  BY DEF Clip
<1>2. /\ Array * b \in Nat /\ Array * (b - 2) = Array * b - Array - Array
      /\ Array * Total \in Nat
  BY Multiples
<1>3. Out(s, b, p) <= Array * b
  <2>1. CASE b = 0
    BY <1>2, <2>1 DEF Out
  <2>2. CASE b = 1
    BY <1>1, <1>2, <2>2 DEF Out
  <2>3. CASE b >= 2
    BY <1>1, <1>2, <2>3 DEF Out
  <2>4. QED
    BY <2>1, <2>2, <2>3
<1>4. Out(s, b, p) \in Nat
  <2>1. CASE b = 0
    BY <2>1 DEF Out
  <2>2. CASE b = 1
    BY <1>1, <2>2 DEF Out
  <2>3. CASE b >= 2
    <3>1. Array * (b - 2) \in Nat
      <4>1. b - 2 \in Nat
        BY <2>3
      <4>2. QED
        BY <4>1, Multiples
    <3>2. QED
      BY <1>1, <2>3, <3>1 DEF Out
  <2>4. QED
    BY <2>1, <2>2, <2>3
<1>5. CASE b < Total
  <2>1. Array * b + Array <= Array * Total
    BY <1>5, MoreMultiples
  <2>2. QED
    BY <1>2, <1>3, <1>4, <1>5, <2>1
<1>6. CASE b = Total /\ p < s + Array
  <2>1. Out(s, b, p) <= Array * b - 2
    <3>1. CASE b = 1
      BY <1>1, <1>2, <1>6, <3>1 DEF Out
    <3>2. CASE b >= 2
      BY <1>1, <1>2, <1>6, <3>2 DEF Out
    <3>3. QED
      BY <1>6, <3>1, <3>2
  <2>2. QED
    BY <1>2, <1>4, <1>6, <2>1
<1>7. CASE b = Total /\ p = s + Array
  <2>1. OneOut(s, b, p)
    <3>1. p - 1 \in Ages(b, p) /\ Within(s, p - 1)
      BY <1>7 DEF Ages, Within
    <3>2. QED
      BY <3>1 DEF OneOut
  <2>2. Clip(p - 1 - s) = Array - 1 /\ Clip(p + Words - s) = Array
    BY <1>7 DEF Clip
  <2>3. Out(s, b, p) = Array * b - 1
    <3>1. CASE b = 1
      BY <1>2, <2>2, <3>1 DEF Out
    <3>2. CASE b >= 2
      BY <1>2, <2>2, <3>2 DEF Out
    <3>3. QED
      BY <1>7, <3>1, <3>2
  <2>4. QED
    BY <1>7, <2>1, <2>3
<1>8. QED
  BY <1>5, <1>6, <1>7

-----------------------------------------------------------------------------
(* The state of a product in cycle p of block b, where b counts the blocks *)
(* that are fed: what is read, what is on its way out of the array, and    *)
(* what the transposer, if it has a part in it, is writing.                *)
Feeding(b, p) ==
  /\ b \in 0 .. Total /\ p \in Nat
  /\ b < Total => /\ p <= Words
                  /\ mmState = IF p < Words THEN "FEED" ELSE "FLUSH"
                  /\ p < Words => kIdx = MM!KStart(Mode) + p
                  /\ fed = b
  /\ b = Total => /\ p <= 2 * Array => mmState = "WAIT_DONE" /\ fed = b
                  /\ p > 2 * Array => Mode.transpose /\ mmState = "IDLE"
                  /\ p <= 3 * Array
  /\ accClear <=> b >= 1 /\ p = 0
  /\ validIn <=> b < Total /\ p >= 1

(* Row i of a block comes out when the block has the age Array + i.        *)
LeavingIn(rows, b, p) ==
  /\ \A e \in rows :
       /\ e = [wait |-> e.wait, row |-> e.row, data |-> e.data]
       /\ e.row \in Lane /\ e.wait \in Nat
       /\ \E a \in Ages(b, p) : e.wait = Array + e.row - a
  /\ \A a \in Ages(b, p) : \A i \in Lane :
       a <= Array + i => \E e \in rows : e.row = i /\ e.wait = Array + i - a
  /\ \A e, f \in rows : e.row = f.row /\ e.wait = f.wait => e = f

(* The columns of a block follow when its rows are all in the transposer.  *)
TransposingAt(valid, idx, b, p) ==
  /\ valid <=> Mode.transpose /\ OneOut(2 * Array, b, p)
  /\ \A a \in Ages(b, p) :
       Mode.transpose /\ Within(2 * Array, a) => idx = a - 2 * Array

Leaving(b, p)     == LeavingIn(emerging, b, p)
Transposing(b, p) == TransposingAt(reading, readIdx, b, p)
Written(b, p) == writeCounter = Out(IF Mode.transpose THEN 2 * Array ELSE Array, b, p)

Multiplying(b, p) ==
  /\ Feeding(b, p) /\ Leaving(b, p) /\ Transposing(b, p) /\ Written(b, p)
  /\ mmState # "IDLE" => outCounter = Out(Array, b, p)

LEMMA SameTask ==
  UNCHANGED <<job, head>> =>
    /\ Mode' = Mode /\ Words' = Words /\ Total' = Total
    /\ MM!KStart(Mode)' = MM!KStart(Mode) /\ TargetWriteCount' = TargetWriteCount
    /\ \A b, p \in Nat : Ages(b, p)' = Ages(b, p)
    /\ \A s, b, p \in Nat : /\ OneOut(s, b, p)' = OneOut(s, b, p)
                            /\ Out(s, b, p)' = Out(s, b, p)
<1> SUFFICES ASSUME UNCHANGED <<job, head>> PROVE SameTask!2
  OBVIOUS
<1>1. Mode' = Mode
  BY DEF Mode, CT!Mode
<1>2. Words' = Words /\ MM!KStart(Mode)' = MM!KStart(Mode)
  BY <1>1 DEF Words, MM!KEnd, MM!KStart, MM!PerHeadK
<1>3. Total' = Total
  BY <1>1 DEF Total, MM!TotalBlocks, MM!BcEnd, MM!BcStart
<1>4. TargetWriteCount' = TargetWriteCount
  BY <1>1 DEF TargetWriteCount, Mode
<1>5. \A b, p \in Nat : Ages(b, p)' = Ages(b, p)
  BY <1>2 DEF Ages
<1>6. \A s, b, p \in Nat : OneOut(s, b, p)' = OneOut(s, b, p) /\ Out(s, b, p)' = Out(s, b, p)
  BY <1>2, <1>5 DEF OneOut, Within, Out, Clip
<1>7. QED
  BY <1>1, <1>2, <1>3, <1>4, <1>5, <1>6

(* A row is out of the array when a block has the age for it, and it is    *)
(* the only one.                                                           *)
LEMMA RowOut ==
  ASSUME NEW b \in Nat, NEW p \in Nat, Words \in Nat, Array <= Words, Leaving(b, p)
  PROVE  /\ MM!ValidOut <=> OneOut(Array, b, p)
         /\ \A a \in Ages(b, p) : Within(Array, a) =>
              \E e \in emerging : /\ MM!Emerged = {e} /\ e.row = a - Array /\ e.wait = 0
                                  /\ MM!OutRow = e.row /\ MM!OutData = e.data
<1>1. /\ Array \in Nat /\ Lane = 0 .. Array - 1
      /\ \A a \in Ages(b, p) : a \in Nat
  BY Sizes, Places DEF Ages
<1>2. ASSUME NEW a \in Ages(b, p), Within(Array, a)
      PROVE  \E e \in emerging : /\ MM!Emerged = {e} /\ e.row = a - Array /\ e.wait = 0
                                 /\ MM!OutRow = e.row /\ MM!OutData = e.data
  <2>1. a - Array \in Lane /\ a <= Array + (a - Array) /\ Array + (a - Array) - a = 0
    BY <1>1, <1>2 DEF Within
  <2>2. PICK e \in emerging : e.row = a - Array /\ e.wait = 0
    BY <2>1 DEF Leaving, LeavingIn
  <2>3. ASSUME NEW f \in emerging, f.wait = 0
        PROVE  f = e
    <3>1. PICK c \in Ages(b, p) : f.wait = Array + f.row - c
      BY DEF Leaving, LeavingIn
    <3>2. f.row \in Lane
      BY DEF Leaving, LeavingIn
    <3>3. Within(Array, c) /\ f.row = c - Array
      BY <1>1, <2>3, <3>1, <3>2 DEF Within
    <3>4. c = a
      BY <1>1, <1>2, <3>3, OneAtATime
    <3>5. QED
      BY <2>2, <2>3, <3>3, <3>4 DEF Leaving, LeavingIn
  <2>4. MM!Emerged = {e}
    BY <2>2, <2>3 DEF MM!Emerged
  <2>5. e.row <= e.row
    BY <1>1, <2>1, <2>2
  <2>6. MM!OutRow = e.row
    BY <2>4, <2>5 DEF MM!OutRow
  <2>7. MM!OutData = e.data
    BY <2>4, <2>6 DEF MM!OutData
  <2>8. QED
    BY <2>2, <2>4, <2>6, <2>7
<1>3. MM!ValidOut => OneOut(Array, b, p)
  <2>1. SUFFICES ASSUME NEW f \in emerging, f.wait = 0 PROVE OneOut(Array, b, p)
    BY DEF MM!ValidOut, MM!Emerged
  <2>2. PICK c \in Ages(b, p) : f.wait = Array + f.row - c
    BY DEF Leaving, LeavingIn
  <2>3. f.row \in Lane
    BY DEF Leaving, LeavingIn
  <2>4. Within(Array, c)
    BY <1>1, <2>1, <2>2, <2>3 DEF Within
  <2>5. QED
    BY <2>4 DEF OneOut
<1>4. QED
  BY <1>2, <1>3 DEF MM!ValidOut, OneOut

LEMMA EmergeStep ==
  ASSUME NEW b \in Nat, NEW p \in Nat, NEW nb \in Nat, NEW np \in Nat,
         nb = NextB(b, p), np = NextP(b, p),
         Words \in Nat, Array <= Words, Total \in Nat, b < Total => p <= Words,
         Leaving(b, p), accClear <=> b >= 1 /\ p = 0, MM!Emerge
  PROVE  LeavingIn(emerging', nb, np)
<1> DEFINE old(e) == [e EXCEPT !.wait = @ - 1]
           new(i) == [wait |-> Array + i, row |-> i, data |-> [j \in MM!Lane |-> MM!Dot(acc[i][j])]]
<1>1. /\ Array \in Nat /\ Array >= 2 /\ Lane = 0 .. Array - 1 /\ MM!Lane = Lane
      /\ \A a \in Ages(b, p) : a \in Nat
  BY Sizes, Places, Copies DEF Ages
<1>2. \A a \in Nat : a \in Ages(nb, np) <=>
        \/ a = 0 /\ b >= 1 /\ p = 0
        \/ a >= 1 /\ a - 1 \in Ages(b, p) /\ ~(EndOfBlock(b, p) /\ a - 1 = 2 * Words)
  BY <1>1, AgesGrow
<1>3. ASSUME NEW e \in emerging, e.wait # 0
      PROVE  /\ old(e) \in emerging'
             /\ old(e) = [wait |-> e.wait - 1, row |-> e.row, data |-> e.data]
             /\ e.row \in Lane /\ e.wait - 1 \in Nat
             /\ \E a \in Ages(nb, np) : a >= 1 /\ e.wait - 1 = Array + e.row - a
  <2>1. e = [wait |-> e.wait, row |-> e.row, data |-> e.data] /\ e.row \in Lane /\ e.wait \in Nat
    BY DEF Leaving, LeavingIn
  <2>2. PICK a \in Ages(b, p) : e.wait = Array + e.row - a
    BY DEF Leaving, LeavingIn
  <2>3. PICK w \in Nat, r \in 0 .. Array - 1, c \in Nat :
          w = e.wait /\ r = e.row /\ c = a /\ w = Array + r - c /\ w # 0
    <3>1. e.wait \in Nat /\ e.row \in 0 .. Array - 1 /\ a \in Nat
      BY <1>1, <2>1
    <3>2. QED
      BY <1>3, <2>2, <3>1
  <2>4. c + 1 \in Nat /\ c + 1 >= 1 /\ (c + 1) - 1 = c /\ c # 2 * Words
        /\ w - 1 \in Nat /\ w - 1 = Array + r - (c + 1)
    <3>1. Array \in Nat
      BY <1>1
    <3>2. c < 2 * Array
      BY <2>3, <3>1
    <3>3. QED
      BY <2>3, <3>1, <3>2
  <2>5. a + 1 \in Ages(nb, np) /\ a + 1 >= 1 /\ e.wait - 1 \in Nat
        /\ e.wait - 1 = Array + e.row - (a + 1)
    BY <1>2, <2>3, <2>4
  <2>6. old(e) = [wait |-> e.wait - 1, row |-> e.row, data |-> e.data]
    BY <2>1
  <2>7. e \in emerging \ MM!Emerged
    BY <1>3 DEF MM!Emerged
  <2>8. old(e) \in emerging'
    BY <2>7 DEF MM!Emerge
  <2>9. QED
    BY <2>1, <2>5, <2>6, <2>8
<1>4. ASSUME NEW i \in Lane, b >= 1, p = 0
      PROVE  /\ new(i) \in emerging' /\ new(i).row = i /\ new(i).wait = Array + i
             /\ new(i) = [wait |-> new(i).wait, row |-> new(i).row, data |-> new(i).data]
             /\ 0 \in Ages(nb, np)
  BY <1>1, <1>2, <1>4 DEF MM!Emerge
<1>5. ASSUME NEW f \in emerging'
      PROVE  \/ \E e \in emerging : e.wait # 0 /\ f = old(e)
             \/ b >= 1 /\ p = 0 /\ \E i \in Lane : f = new(i)
  BY <1>1, <1>5 DEF MM!Emerge, MM!Emerged
<1> HIDE DEF old, new
<1>6. ASSUME NEW f \in emerging'
      PROVE  /\ f = [wait |-> f.wait, row |-> f.row, data |-> f.data]
             /\ f.row \in Lane /\ f.wait \in Nat
             /\ \E a \in Ages(nb, np) : f.wait = Array + f.row - a
  <2>1. CASE \E e \in emerging : e.wait # 0 /\ f = old(e)
    <3>1. PICK e \in emerging : e.wait # 0 /\ f = old(e)
      BY <2>1
    <3>2. f = [wait |-> e.wait - 1, row |-> e.row, data |-> e.data]
      BY <1>3, <3>1
    <3>3. f.wait = e.wait - 1 /\ f.row = e.row /\ f.data = e.data
      BY <3>2
    <3>4. QED
      BY <1>3, <3>1, <3>2, <3>3
  <2>2. CASE b >= 1 /\ p = 0 /\ \E i \in Lane : f = new(i)
    <3>1. PICK i \in Lane : f = new(i)
      BY <2>2
    <3>2. Array + i \in Nat /\ Array + i = Array + i - 0
      BY <1>1
    <3>3. QED
      BY <1>4, <2>2, <3>1, <3>2
  <2>3. QED
    BY <1>5, <2>1, <2>2
<1>7. ASSUME NEW a \in Ages(nb, np), NEW i \in Lane, a <= Array + i
      PROVE  \E f \in emerging' : f.row = i /\ f.wait = Array + i - a
  <2>1. a \in Nat
    BY DEF Ages
  <2>2. CASE a = 0
    <3>1. b >= 1 /\ p = 0
      BY <1>2, <2>1, <2>2
    <3>2. Array + i = Array + i - 0
      BY <1>1
    <3>3. QED
      BY <1>4, <2>2, <3>1, <3>2
  <2>3. CASE a # 0
    <3>1. a >= 1 /\ a - 1 \in Ages(b, p)
      BY <1>2, <2>1, <2>3
    <3>2. a - 1 <= Array + i
      BY <1>1, <1>7, <2>1
    <3>3. PICK e \in emerging : e.row = i /\ e.wait = Array + i - (a - 1)
      BY <3>1, <3>2 DEF Leaving, LeavingIn
    <3>4. e.wait # 0 /\ e.wait - 1 = Array + i - a
      BY <1>1, <1>7, <2>1, <3>3
    <3>5. old(e) \in emerging' /\ old(e) = [wait |-> e.wait - 1, row |-> e.row, data |-> e.data]
      BY <1>3, <3>4
    <3>6. old(e).row = e.row /\ old(e).wait = e.wait - 1
      BY <3>5
    <3>7. QED
      BY <3>3, <3>4, <3>5, <3>6
  <2>4. QED
    BY <2>2, <2>3
<1>8. ASSUME NEW f \in emerging', NEW g \in emerging', f.row = g.row, f.wait = g.wait
      PROVE  f = g
  <2>1. ASSUME NEW e \in emerging, e.wait # 0
        PROVE  old(e).row = e.row /\ old(e).wait = e.wait - 1 /\ e.wait \in Nat
               /\ old(e).wait < Array + e.row
    <3>1. old(e).row = e.row /\ old(e).wait = e.wait - 1
      BY <1>3, <2>1
    <3>2. PICK a \in Ages(nb, np) : a >= 1 /\ e.wait - 1 = Array + e.row - a
      BY <1>3, <2>1
    <3>3. a \in Nat /\ e.wait \in Nat /\ e.row \in Lane
      BY <1>3, <2>1 DEF Ages, Leaving, LeavingIn
    <3>4. QED
      BY <1>1, <3>1, <3>2, <3>3
  <2>2. CASE /\ \E e \in emerging : e.wait # 0 /\ f = old(e)
             /\ \E e \in emerging : e.wait # 0 /\ g = old(e)
    <3>1. PICK e \in emerging : e.wait # 0 /\ f = old(e)
      BY <2>2
    <3>2. PICK h \in emerging : h.wait # 0 /\ g = old(h)
      BY <2>2
    <3>3. e.row = h.row /\ e.wait = h.wait
      BY <1>8, <2>1, <3>1, <3>2
    <3>4. e = h
      BY <3>3 DEF Leaving, LeavingIn
    <3>5. QED
      BY <3>1, <3>2, <3>4
  <2>3. CASE \E i \in Lane : f = new(i) /\ b >= 1 /\ p = 0
    <3>1. PICK i \in Lane : f = new(i)
      BY <2>3
    <3>2. f.row = i /\ f.wait = Array + i
      BY <1>4, <2>3, <3>1
    <3>3. ASSUME NEW e \in emerging, e.wait # 0, g = old(e)
          PROVE  FALSE
      <4>1. g.wait < Array + g.row
        BY <2>1, <3>3
      <4>2. i \in Nat /\ Array + i < Array + i
        BY <1>1, <1>8, <3>2, <4>1
      <4>3. QED
        BY <1>1, <4>2
    <3>4. PICK j \in Lane : g = new(j)
      BY <1>5, <3>3
    <3>5. g.row = j
      BY <1>4, <2>3, <3>4
    <3>6. QED
      BY <1>8, <3>1, <3>2, <3>4, <3>5
  <2>4. CASE \E i \in Lane : g = new(i) /\ b >= 1 /\ p = 0
    <3>1. PICK i \in Lane : g = new(i)
      BY <2>4
    <3>2. g.row = i /\ g.wait = Array + i
      BY <1>4, <2>4, <3>1
    <3>3. ASSUME NEW e \in emerging, e.wait # 0, f = old(e)
          PROVE  FALSE
      <4>1. f.wait < Array + f.row
        BY <2>1, <3>3
      <4>2. i \in Nat /\ Array + i < Array + i
        BY <1>1, <1>8, <3>2, <4>1
      <4>3. QED
        BY <1>1, <4>2
    <3>4. PICK j \in Lane : f = new(j)
      BY <1>5, <3>3
    <3>5. f.row = j
      BY <1>4, <2>4, <3>4
    <3>6. QED
      BY <1>8, <3>1, <3>2, <3>4, <3>5
  <2>5. QED
    BY <1>5, <2>2, <2>3, <2>4
<1>9. QED
  BY <1>6, <1>7, <1>8 DEF LeavingIn

-----------------------------------------------------------------------------
(* The steps of a product: what is read next, and what the transposer does *)
(* with the row that is out.                                               *)
InProduct(b, p) ==
  /\ b \in 0 .. Total /\ (b < Total => p <= Words)
  /\ b = Total => p <= IF Mode.transpose THEN 3 * Array ELSE 2 * Array

LEMMA FeedStep ==
  ASSUME NEW b \in Nat, NEW p \in Nat, NEW nb \in Nat, NEW np \in Nat,
         nb = NextB(b, p), np = NextP(b, p), Sized, UNCHANGED <<job, head>>,
         Feeding(b, p), InProduct(b, p), ~(b = Total /\ p = IF Mode.transpose THEN 3 * Array ELSE 2 * Array),
         mmState = "WAIT_DONE" => (MM!Done(Mode) <=> b = Total /\ p = 2 * Array),
         MM!Read(FALSE, Mode), MM!Control
  PROVE  Feeding(nb, np)'
<1>1. Total' = Total /\ Words' = Words /\ Mode' = Mode /\ MM!KStart(Mode)' = MM!KStart(Mode)
  BY SameTask
<1>2. Words = MM!KEnd(Mode) - MM!KStart(Mode) + 1 /\ Words \in Nat /\ MM!KStart(Mode) \in Nat
      /\ MM!KEnd(Mode) \in Int
  <2>1. MM!KEnd(Mode) \in Int
    BY Sizes DEF Sized, MM!KEnd, MM!PerHeadK
  <2>2. QED
    BY <2>1 DEF Sized, Words
<1>3. CASE b < Total /\ p < Words
  <2>1. mmState = "FEED" /\ kIdx = MM!KStart(Mode) + p /\ fed = b
    BY <1>3 DEF Feeding
  <2>2. nb = b /\ np = p + 1
    BY <1>3 DEF NextB, NextP, EndOfBlock, Sized
  <2>3. /\ mmState' = IF kIdx = MM!KEnd(Mode) THEN "FLUSH" ELSE "FEED"
        /\ kIdx' = (kIdx + 1) % Mat /\ fed' = fed /\ validIn' = TRUE /\ accClear' = FALSE
    BY <2>1 DEF MM!Read, MM!Control
  <2>4. kIdx = MM!KEnd(Mode) <=> p + 1 = Words
    BY <1>2, <2>1
  <2>5. p + 1 < Words => kIdx' = MM!KStart(Mode) + (p + 1)
    <3>1. SUFFICES ASSUME p + 1 < Words PROVE kIdx' = MM!KStart(Mode) + (p + 1)
      OBVIOUS
    <3>2. kIdx + 1 \in 0 .. Mat - 1 /\ kIdx + 1 = MM!KStart(Mode) + (p + 1)
      BY <1>2, <2>1, <3>1 DEF Sized
    <3>3. QED
      BY <2>3, <3>2 DEF Sized
  <2>6. np <= Words /\ nb < Total /\ np >= 1 /\ (np < Words <=> p + 1 # Words)
    BY <1>2, <1>3, <2>2
  <2>7. QED
    BY <1>1, <1>3, <2>1, <2>2, <2>3, <2>4, <2>5, <2>6 DEF Feeding, Sized
<1>4. CASE b < Total /\ p = Words
  <2>1. mmState = "FLUSH" /\ fed = b
    BY <1>2, <1>4 DEF Feeding
  <2>2. nb = b + 1 /\ np = 0
    BY <1>4 DEF NextB, NextP, EndOfBlock
  <2>3. /\ mmState' = IF b = Total - 1 THEN "WAIT_DONE" ELSE "FEED"
        /\ kIdx' = MM!KStart(Mode) /\ fed' = b + 1 /\ validIn' = FALSE /\ accClear' = TRUE
    BY <2>1 DEF MM!Read, MM!Control, Total
  <2>4. nb \in 0 .. Total /\ (nb < Total <=> b # Total - 1) /\ nb >= 1 /\ 0 < Words
        /\ MM!KStart(Mode) = MM!KStart(Mode) + 0 /\ 0 <= 2 * Array /\ 0 <= 3 * Array
    BY <1>2, <1>4, <2>2 DEF Sized
  <2>5. (nb = Total => b = Total - 1) /\ ~(0 > 2 * Array) /\ ~(0 >= 1)
    BY <1>4, <2>2 DEF Sized
  <2>6. QED
    BY <1>1, <1>2, <2>2, <2>3, <2>4, <2>5 DEF Feeding
<1>5. CASE b = Total
  <2>1. nb = b /\ np = p + 1 /\ nb = Total
    BY <1>5 DEF NextB, NextP, EndOfBlock, Sized
  <2>2. mmState \in {"WAIT_DONE", "IDLE"}
    BY <1>5 DEF Feeding, Sized
  <2>3. validIn' = FALSE /\ accClear' = FALSE
    BY <2>2 DEF MM!Control
  <2>4. CASE p < 2 * Array
    <3>1. mmState = "WAIT_DONE" /\ fed = b
      BY <1>5, <2>4 DEF Feeding, Sized
    <3>2. ~MM!Done(Mode)
      BY <2>4, <3>1
    <3>3. mmState' = "WAIT_DONE" /\ fed' = b
      BY <3>1, <3>2 DEF MM!Read
    <3>4. np <= 2 * Array /\ np <= 3 * Array /\ np # 0 /\ np \in Nat
      BY <2>1, <2>4 DEF Sized
    <3>5. QED
      BY <1>1, <1>5, <2>1, <2>3, <3>3, <3>4 DEF Feeding, Sized
  <2>5. CASE p >= 2 * Array
    <3>1. Mode.transpose /\ p < 3 * Array
      BY <1>5, <2>5 DEF InProduct, Sized
    <3>2. mmState' = "IDLE"
      <4>1. CASE p = 2 * Array
        <5>1. mmState = "WAIT_DONE" /\ MM!Done(Mode)
          BY <1>5, <4>1 DEF Feeding, Sized
        <5>2. QED
          BY <5>1 DEF MM!Read
      <4>2. CASE p > 2 * Array
        <5>1. mmState = "IDLE"
          BY <1>5, <4>2 DEF Feeding
        <5>2. QED
          BY <5>1 DEF MM!Read
      <4>3. QED
        BY <2>5, <4>1, <4>2 DEF Sized
    <3>3. np > 2 * Array /\ np <= 3 * Array /\ np # 0 /\ np \in Nat
      BY <2>1, <2>5, <3>1 DEF Sized
    <3>4. ~(np <= 2 * Array)
      BY <3>3 DEF Sized
    <3>5. QED
      BY <1>1, <1>5, <2>1, <2>3, <3>1, <3>2, <3>3, <3>4 DEF Feeding, Sized
  <2>6. QED
    BY <2>4, <2>5 DEF Sized
<1>6. QED
  BY <1>2, <1>3, <1>4, <1>5 DEF InProduct, Sized

LEMMA TransposeStep ==
  ASSUME NEW b \in Nat, NEW p \in Nat, NEW nb \in Nat, NEW np \in Nat,
         nb = NextB(b, p), np = NextP(b, p), Sized,
         InProduct(b, p), Leaving(b, p), Transposing(b, p), ~trValidIn, Transpose
  PROVE  TransposingAt(reading', readIdx', nb, np)
<1>1. CASE ~Mode.transpose
  <2>1. ~reading /\ TR!Clock(FALSE, 0, JunkWord, [br |-> 0, bc |-> 0])
    BY <1>1 DEF Transposing, TransposingAt, Transpose, Mode
  <2>2. reading' = reading
    BY <2>1 DEF TR!Clock
  <2>3. QED
    BY <1>1, <2>1, <2>2 DEF Transposing, TransposingAt
<1>2. CASE Mode.transpose
  <2>1. /\ Array \in Nat /\ Array >= 2 /\ Words \in Nat /\ 2 * Array <= Words
        /\ Total \in Nat /\ (b < Total => p <= Words)
    BY <1>2 DEF Sized, InProduct
  <2>2. \A a \in Nat : a \in Ages(nb, np) <=>
          \/ a = 0 /\ b >= 1 /\ p = 0
          \/ a >= 1 /\ a - 1 \in Ages(b, p) /\ ~(EndOfBlock(b, p) /\ a - 1 = 2 * Words)
    BY <2>1, AgesGrow
  <2>3. (\A a \in Ages(b, p) : a \in Nat) /\ (\A c \in Ages(nb, np) : c \in Nat)
    BY DEF Ages
  <2>4. CASE \E a \in Ages(b, p) : a = 2 * Array - 1
    <3>1. PICK a \in Ages(b, p) : a = 2 * Array - 1
      BY <2>4
    <3>2. Within(Array, a) /\ a - Array = Array - 1
      BY <2>1, <3>1 DEF Within
    <3>3. MM!ValidOut /\ MM!OutRow = Array - 1
      <4>1. MM!OutRow = a - Array
        BY <2>1, <3>2, RowOut
      <4>2. MM!ValidOut
        BY <2>1, <3>2, RowOut DEF OneOut
      <4>3. QED
        BY <3>2, <4>1, <4>2
    <3>4. TR!Clock(TRUE, MM!OutRow, MM!OutData, [br |-> outBr, bc |-> outBc])
      BY <1>2, <3>3 DEF Transpose, Mode
    <3>5. readIdx' = 0 /\ reading' = TRUE
      BY <3>3, <3>4 DEF TR!Clock, TR!LastRow
    <3>6. 2 * Array \in Ages(nb, np) /\ Within(2 * Array, 2 * Array)
      <4>1. 2 * Array \in Nat /\ 2 * Array >= 1 /\ 2 * Array - 1 # 2 * Words /\ 2 * Array - 1 = a
        BY <2>1, <3>1
      <4>2. Within(2 * Array, 2 * Array)
        BY <2>1 DEF Within
      <4>3. QED
        BY <2>2, <4>1, <4>2
    <3>7. ASSUME NEW c \in Ages(nb, np), Within(2 * Array, c)
          PROVE  c = 2 * Array
      <4>1. 2 * Array \in Nat /\ Array <= Words
        BY <2>1
      <4>2. QED
        BY <2>1, <3>6, <3>7, <4>1, OneAtATime
    <3>8. 2 * Array - 2 * Array = 0
      BY <2>1
    <3>9. QED
      BY <1>2, <3>5, <3>6, <3>7, <3>8 DEF Transposing, TransposingAt, OneOut
  <2>5. CASE ~\E a \in Ages(b, p) : a = 2 * Array - 1
    <3>1. ~(MM!ValidOut /\ MM!OutRow = Array - 1)
      <4>1. SUFFICES ASSUME MM!ValidOut, MM!OutRow = Array - 1 PROVE FALSE
        OBVIOUS
      <4>2. PICK a \in Ages(b, p) : Within(Array, a)
        BY <2>1, <4>1, RowOut DEF OneOut
      <4>3. MM!OutRow = a - Array
        BY <2>1, <4>2, RowOut
      <4>4. a = 2 * Array - 1
        BY <2>1, <2>3, <4>1, <4>3
      <4>5. QED
        BY <2>5, <4>4
    <3>2. IF reading
          THEN readIdx' = (readIdx + 1) % Array /\ reading' = ~(readIdx = Array - 1)
          ELSE UNCHANGED <<readIdx, reading>>
      <4>1. CASE MM!ValidOut
        <5>1. TR!Clock(TRUE, MM!OutRow, MM!OutData, [br |-> outBr, bc |-> outBc])
          BY <1>2, <4>1 DEF Transpose, Mode
        <5>2. QED
          BY <3>1, <4>1, <5>1 DEF TR!Clock, TR!LastRow
      <4>2. CASE ~MM!ValidOut
        <5>1. TR!Clock(FALSE, 0, JunkWord, [br |-> 0, bc |-> 0])
          BY <4>2 DEF Transpose
        <5>2. QED
          BY <5>1 DEF TR!Clock, TR!LastRow
      <4>3. QED
        BY <4>1, <4>2
    <3>3. ASSUME NEW c \in Ages(nb, np), Within(2 * Array, c)
          PROVE  c - 1 \in Ages(b, p) /\ Within(2 * Array, c - 1) /\ c - 1 # 3 * Array - 1
      <4>1. c \in Nat /\ c # 0 /\ c < 3 * Array
        BY <2>1, <2>3, <3>3 DEF Within
      <4>2. c - 1 \in Ages(b, p)
        BY <2>2, <4>1
      <4>3. c - 1 # 2 * Array - 1
        BY <2>5, <4>2
      <4>4. Within(2 * Array, c - 1) /\ c - 1 # 3 * Array - 1
        BY <2>1, <3>3, <4>1, <4>3 DEF Within
      <4>5. QED
        BY <4>2, <4>4
    <3>4. CASE ~reading
      <4>1. ~\E a \in Ages(b, p) : Within(2 * Array, a)
        BY <1>2, <3>4 DEF Transposing, TransposingAt, OneOut
      <4>2. ~reading'
        BY <3>2, <3>4
      <4>3. ~\E c \in Ages(nb, np) : Within(2 * Array, c)
        BY <3>3, <4>1
      <4>4. QED
        BY <1>2, <4>2, <4>3 DEF Transposing, TransposingAt, OneOut
    <3>5. CASE reading
      <4>1. PICK a \in Ages(b, p) : Within(2 * Array, a) /\ readIdx = a - 2 * Array
        BY <1>2, <3>5 DEF Transposing, TransposingAt, OneOut
      <4>2. a \in Nat /\ 2 * Array <= a /\ a < 3 * Array
        BY <2>1, <2>3, <4>1 DEF Within
      <4>3. readIdx = Array - 1 <=> a = 3 * Array - 1
        BY <2>1, <4>1, <4>2
      <4>4. a # 3 * Array - 1 => readIdx' = a + 1 - 2 * Array
        <5>1. SUFFICES ASSUME a # 3 * Array - 1 PROVE readIdx' = a + 1 - 2 * Array
          OBVIOUS
        <5>2. readIdx + 1 \in 0 .. Array - 1 /\ readIdx + 1 = a + 1 - 2 * Array
          BY <2>1, <4>1, <4>2, <5>1
        <5>3. QED
          BY <2>1, <3>2, <3>5, <5>2
      <4>5. a # 3 * Array - 1 => a + 1 \in Ages(nb, np) /\ Within(2 * Array, a + 1)
        <5>1. SUFFICES ASSUME a # 3 * Array - 1
                       PROVE  a + 1 \in Ages(nb, np) /\ Within(2 * Array, a + 1)
          OBVIOUS
        <5>2. a + 1 \in Nat /\ a + 1 >= 1 /\ (a + 1) - 1 = a /\ a # 2 * Words
          BY <2>1, <4>2
        <5>3. Within(2 * Array, a + 1)
          BY <2>1, <4>2, <5>1 DEF Within
        <5>4. QED
          BY <2>2, <5>2, <5>3
      <4>6. ASSUME NEW c \in Ages(nb, np), Within(2 * Array, c)
            PROVE  c - 1 = a
        <5>1. c - 1 \in Ages(b, p) /\ Within(2 * Array, c - 1)
          BY <3>3, <4>6
        <5>2. 2 * Array \in Nat /\ Array <= Words
          BY <2>1
        <5>3. QED
          BY <2>1, <4>1, <5>1, <5>2, OneAtATime
      <4>7. reading' <=> OneOut(2 * Array, nb, np)
        <5>1. CASE a = 3 * Array - 1
          <6>1. ~reading'
            BY <3>2, <3>5, <4>3, <5>1
          <6>2. ~\E c \in Ages(nb, np) : Within(2 * Array, c)
            BY <3>3, <4>6, <5>1
          <6>3. QED
            BY <6>1, <6>2 DEF OneOut
        <5>2. CASE a # 3 * Array - 1
          <6>1. reading'
            BY <3>2, <3>5, <4>3, <5>2
          <6>2. QED
            BY <4>5, <5>2, <6>1 DEF OneOut
        <5>3. QED
          BY <5>1, <5>2
      <4>8. ASSUME NEW c \in Ages(nb, np), Within(2 * Array, c)
            PROVE  readIdx' = c - 2 * Array
        <5>1. c - 1 = a /\ a # 3 * Array - 1
          BY <3>3, <4>6, <4>8
        <5>2. c \in Nat /\ c = a + 1
          BY <2>3, <4>2, <5>1
        <5>3. readIdx' = a + 1 - 2 * Array
          BY <4>4, <5>1
        <5>4. QED
          BY <2>1, <4>2, <5>2, <5>3
      <4>9. QED
        BY <1>2, <4>7, <4>8 DEF Transposing, TransposingAt
    <3>6. QED
      BY <3>4, <3>5
  <2>6. QED
    BY <2>4, <2>5
<1>3. QED
  BY <1>1, <1>2 DEF Sized

NoProduct == mmState = "IDLE" /\ emerging = {} /\ ~validIn /\ ~accClear
NoRelay   == ~trRunning /\ ~trValidIn
NoSoftmax == sfState # "RUNNING" /\ ~writeReq /\ ~prevEn

(* The cycle in which the last word of a product is written. *)
Span == IF Mode.transpose THEN 3 * Array ELSE 2 * Array

ProductClock ==
  /\ MM!Clock(CT!StartMatMul, CT!Mode, rdata[CT!SelA], rdata[CT!SelB])
  /\ Transpose /\ Count

LEMMA ProductStart ==
  ASSUME job \in CT!MatMulJob, head \in 0 .. Heads - 1, CT!Begin, NoProduct, NoRelay, ~reading,
         ProductClock
  PROVE  Multiplying(0, 0)' /\ writeCounter' = 0
<1>1. Sized
  BY Task, Sizes DEF Sized
<1>2. UNCHANGED <<job, head>> /\ CT!StartMatMul
  BY DEF CT!Begin, CT!StartMatMul
<1>3. mmState' = "FEED" /\ kIdx' = MM!KStart(Mode) /\ fed' = 0 /\ ~validIn' /\ ~accClear'
      /\ emerging' = {} /\ outCounter' = 0
  BY <1>2 DEF ProductClock, NoProduct, MM!Clock, MM!Read, MM!Control, MM!Emerge, MM!Emerged,
              MM!Place, Mode
<1>4. ~reading' /\ writeCounter' = 0
  <2>1. ~MM!ValidOut
    BY DEF NoProduct, MM!ValidOut, MM!Emerged
  <2>2. TR!Clock(FALSE, 0, JunkWord, [br |-> 0, bc |-> 0])
    BY <2>1 DEF ProductClock, Transpose, NoRelay
  <2>3. ~reading'
    BY <2>2 DEF TR!Clock
  <2>4. writeCounter' = 0
    BY <1>2 DEF ProductClock, Count
  <2>5. QED
    BY <2>3, <2>4
<1>5. Total' = Total /\ Words' = Words /\ Mode' = Mode /\ MM!KStart(Mode)' = MM!KStart(Mode)
  BY <1>2, SameTask
<1>6. 0 \in 0 .. Total /\ 0 < Total /\ 0 <= Words /\ 0 < Words /\ MM!KStart(Mode) + 0 = MM!KStart(Mode)
      /\ 0 # Total /\ ~(0 >= 1) /\ 0 \in Nat
  BY <1>1 DEF Sized
<1>7. Feeding(0, 0)'
  BY <1>3, <1>5, <1>6 DEF Feeding
<1>8. Ages(0, 0)' = {}
  BY <1>6 DEF Ages
<1>9. Leaving(0, 0)' /\ Transposing(0, 0)'
  BY <1>3, <1>4, <1>8 DEF Leaving, LeavingIn, Transposing, TransposingAt, OneOut
<1>10. Written(0, 0)' /\ outCounter' = Out(Array, 0, 0)'
  BY <1>3, <1>4 DEF Written, Out
<1>11. QED
  BY <1>4, <1>7, <1>9, <1>10 DEF Multiplying

LEMMA Pacing ==
  ASSUME NEW b \in Nat, NEW p \in Nat, job \in CT!MatMulJob, head \in 0 .. Heads - 1,
         Multiplying(b, p), ~writeReq
  PROVE  /\ Sized /\ InProduct(b, p)
         /\ WriteValid <=> IF Mode.transpose THEN OneOut(2 * Array, b, p) ELSE OneOut(Array, b, p)
         /\ StageDone <=> b = Total /\ p = Span
         /\ mmState = "WAIT_DONE" => (MM!Done(Mode) <=> b = Total /\ p = 2 * Array)
<1>1. Sized /\ TargetWriteCount = Array * Total - 1
  BY Task, Sizes DEF Sized
<1>2. InProduct(b, p)
  <2>1. b \in 0 .. Total /\ (b < Total => p <= Words) /\ (b = Total => p <= 3 * Array)
        /\ (b = Total /\ p > 2 * Array => Mode.transpose)
    BY <1>1 DEF Multiplying, Feeding, Sized
  <2>2. QED
    BY <1>1, <2>1 DEF InProduct, Sized
<1>3. MM!ValidOut <=> OneOut(Array, b, p)
  BY <1>1, RowOut DEF Multiplying, Sized
<1>4. WriteValid <=> IF Mode.transpose THEN OneOut(2 * Array, b, p) ELSE OneOut(Array, b, p)
  BY <1>3 DEF WriteValid, Multiplying, Transposing, TransposingAt, TR!ValidOut, Mode
<1>5. OneOut(Array, b, p) /\ Out(Array, b, p) = Array * Total - 1 <=> b = Total /\ p = 2 * Array
  <2>1. CASE b = Total /\ p > 2 * Array
    <3>1. \A a \in Ages(b, p) : ~Within(Array, a)
      BY <1>1, <2>1 DEF Ages, Within, Sized
    <3>2. QED
      BY <1>1, <2>1, <3>1 DEF OneOut, Sized
  <2>2. CASE b = Total => p <= 2 * Array
    <3>1. Array + Array = 2 * Array /\ Array + Array <= 2 * Words + 1 /\ b <= Total
          /\ (b < Total => p <= Words) /\ (b = Total => p <= Array + Array)
      BY <1>1, <1>2, <2>2 DEF Sized, InProduct
    <3>2. OneOut(Array, b, p) /\ Out(Array, b, p) = Array * Total - 1 <=> b = Total /\ p = Array + Array
      BY <1>1, <3>1, LastOut DEF Sized
    <3>3. QED
      BY <3>1, <3>2
  <2>3. QED
    BY <1>1, <2>1, <2>2 DEF Sized
<1>6. mmState = "WAIT_DONE" => (MM!Done(Mode) <=> b = Total /\ p = 2 * Array)
  <2>1. SUFFICES ASSUME mmState = "WAIT_DONE" PROVE MM!Done(Mode) <=> b = Total /\ p = 2 * Array
    OBVIOUS
  <2>2. outCounter = Out(Array, b, p)
    BY <2>1 DEF Multiplying
  <2>3. MM!TotalBlocks(Mode) * Array - 1 = Array * Total - 1
    BY <1>1, Multiples DEF Total, Sized
  <2>4. QED
    BY <1>3, <1>5, <2>2, <2>3 DEF MM!Done
<1>7. StageDone <=> b = Total /\ p = Span
  <2>1. CASE ~Mode.transpose
    BY <1>1, <1>4, <1>5, <2>1 DEF StageDone, Multiplying, Written, Span
  <2>2. CASE Mode.transpose
    <3>1. 2 * Array + Array = 3 * Array /\ 2 * Array + Array <= 2 * Words + 1 /\ b <= Total
          /\ (b < Total => p <= Words) /\ (b = Total => p <= 2 * Array + Array) /\ 2 * Array \in Nat
      BY <1>1, <1>2, <2>2 DEF Sized, InProduct
    <3>2. OneOut(2 * Array, b, p) /\ Out(2 * Array, b, p) = Array * Total - 1
            <=> b = Total /\ p = 2 * Array + Array
      BY <1>1, <3>1, LastOut DEF Sized
    <3>3. QED
      BY <1>1, <1>4, <2>2, <3>1, <3>2 DEF StageDone, Multiplying, Written, Span
  <2>3. QED
    BY <2>1, <2>2
<1>8. QED
  BY <1>1, <1>2, <1>4, <1>6, <1>7

LEMMA ProductStep ==
  ASSUME NEW b \in Nat, NEW p \in Nat, NEW nb \in Nat, NEW np \in Nat,
         nb = NextB(b, p), np = NextP(b, p), job \in CT!MatMulJob, head \in 0 .. Heads - 1,
         waiting, Multiplying(b, p), ~writeReq, ~trValidIn, CT!Await(StageDone), ProductClock
  PROVE  IF StageDone THEN NoProduct' /\ ~reading' ELSE waiting' /\ Multiplying(nb, np)'
<1>1. /\ Sized /\ InProduct(b, p)
      /\ WriteValid <=> IF Mode.transpose THEN OneOut(2 * Array, b, p) ELSE OneOut(Array, b, p)
      /\ StageDone <=> b = Total /\ p = Span
      /\ mmState = "WAIT_DONE" => (MM!Done(Mode) <=> b = Total /\ p = 2 * Array)
  BY Pacing
<1>2. /\ MM!Read(FALSE, Mode) /\ MM!Control /\ MM!Emerge /\ MM!Place(Mode)
      /\ Transpose /\ Count /\ ~CT!StartMatMul
  BY DEF ProductClock, MM!Clock, CT!StartMatMul, Mode
<1>3. LeavingIn(emerging', nb, np)
  <2>1. accClear <=> b >= 1 /\ p = 0
    BY DEF Multiplying, Feeding
  <2>2. QED
    BY <1>1, <1>2, <2>1, EmergeStep DEF Multiplying, Sized, InProduct
<1>4. TransposingAt(reading', readIdx', nb, np)
  BY <1>1, <1>2, TransposeStep DEF Multiplying
<1>5. CASE StageDone
  <2>1. b = Total /\ p = Span /\ p >= 2 * Array /\ nb = b /\ np = p + 1
        /\ (Mode.transpose => p = 3 * Array) /\ Array \in Nat /\ Words \in Nat
    BY <1>1, <1>5 DEF Span, Sized, NextB, NextP, EndOfBlock
  <2>2. \A a \in Ages(nb, np) : a \in Nat /\ a >= p
    BY <2>1 DEF Ages
  <2>3. emerging' = {}
    <3>1. SUFFICES ASSUME NEW e \in emerging' PROVE FALSE
      OBVIOUS
    <3>2. PICK a \in Ages(nb, np) : e.wait = Array + e.row - a
      BY <1>3 DEF LeavingIn
    <3>3. e.row \in 0 .. Array - 1 /\ e.wait \in Nat
      BY <1>3, Places DEF LeavingIn
    <3>4. a \in Nat /\ a >= 2 * Array
      BY <2>1, <2>2
    <3>5. QED
      BY <2>1, <3>2, <3>3, <3>4
  <2>4. ~reading'
    <3>1. Mode.transpose => \A a \in Ages(nb, np) : ~Within(2 * Array, a)
      BY <2>1, <2>2 DEF Within
    <3>2. QED
      BY <1>4, <3>1 DEF TransposingAt, OneOut
  <2>5. mmState = IF p = 2 * Array THEN "WAIT_DONE" ELSE "IDLE"
    BY <1>1, <2>1 DEF Multiplying, Feeding, Sized
  <2>6. mmState' = "IDLE" /\ ~validIn' /\ ~accClear'
    BY <1>1, <1>2, <2>1, <2>5 DEF MM!Read, MM!Control
  <2>7. QED
    BY <1>5, <2>3, <2>4, <2>6 DEF NoProduct
<1>6. CASE ~StageDone
  <2>1. UNCHANGED <<job, head>> /\ waiting'
    BY <1>6 DEF CT!Await
  <2>2. Total' = Total /\ Words' = Words /\ Mode' = Mode
        /\ Ages(nb, np)' = Ages(nb, np)
        /\ \A s \in Nat : OneOut(s, nb, np)' = OneOut(s, nb, np) /\ Out(s, nb, np)' = Out(s, nb, np)
    BY <2>1, SameTask
  <2>3. Feeding(nb, np)'
    BY <1>1, <1>2, <1>6, <2>1, FeedStep DEF Multiplying, Span
  <2>4. Leaving(nb, np)'
    BY <1>3, <2>2 DEF Leaving, LeavingIn
  <2>5. Transposing(nb, np)'
    <3>1. OneOut(2 * Array, nb, np)' = OneOut(2 * Array, nb, np)
      BY <1>1, <2>2 DEF Sized
    <3>2. QED
      BY <1>4, <2>2, <3>1 DEF Transposing, TransposingAt
  <2>6. ASSUME NEW s \in Nat, s + Array <= 2 * Words + 1
        PROVE  Out(s, nb, np) = Out(s, b, p) + (IF OneOut(s, b, p) THEN 1 ELSE 0)
    <3>1. Words \in Nat /\ Array \in Nat /\ Array >= 1 /\ Array <= Words /\ Total \in Nat
          /\ (b < Total => p <= Words)
      BY <1>1 DEF Sized, InProduct
    <3>2. QED
      BY <2>6, <3>1, OutStep
  <2>7. Written(nb, np)'
    <3>1. writeCounter' = IF WriteValid THEN writeCounter + 1 ELSE writeCounter
      BY <1>2 DEF Count, CT!StartMatMul, CT!StartTranspose, CT!StartSoftmax
    <3>2. CASE Mode.transpose
      <4>1. 2 * Array \in Nat /\ 2 * Array + Array <= 2 * Words + 1
        BY <1>1, <3>2 DEF Sized
      <4>2. writeCounter = Out(2 * Array, b, p) /\ (WriteValid <=> OneOut(2 * Array, b, p))
        BY <1>1, <3>2 DEF Multiplying, Written
      <4>3. Out(2 * Array, b, p) \in Int
        BY <1>1, <4>1, OutInt
      <4>4. writeCounter' = Out(2 * Array, nb, np)
        BY <2>6, <3>1, <4>1, <4>2, <4>3
      <4>5. QED
        BY <2>2, <3>2, <4>1, <4>4 DEF Written
    <3>3. CASE ~Mode.transpose
      <4>1. Array \in Nat /\ Array + Array <= 2 * Words + 1
        BY <1>1 DEF Sized
      <4>2. writeCounter = Out(Array, b, p) /\ (WriteValid <=> OneOut(Array, b, p))
        BY <1>1, <3>3 DEF Multiplying, Written
      <4>3. Out(Array, b, p) \in Int
        BY <1>1, <4>1, OutInt
      <4>4. writeCounter' = Out(Array, nb, np)
        BY <2>6, <3>1, <4>1, <4>2, <4>3
      <4>5. QED
        BY <2>2, <3>3, <4>1, <4>4 DEF Written
    <3>4. QED
      BY <3>2, <3>3
  <2>8. mmState' # "IDLE" => outCounter' = Out(Array, nb, np)'
    <3>1. SUFFICES ASSUME mmState' # "IDLE" PROVE outCounter' = Out(Array, nb, np)'
      OBVIOUS
    <3>2. mmState # "IDLE"
      BY <1>2, <3>1 DEF MM!Read
    <3>3. outCounter = Out(Array, b, p)
          /\ outCounter' = IF MM!ValidOut THEN outCounter + 1 ELSE outCounter
      BY <1>2, <3>2 DEF MM!Place, Multiplying
    <3>4. MM!ValidOut <=> OneOut(Array, b, p)
      BY <1>1, RowOut DEF Multiplying, Sized
    <3>5. Array \in Nat /\ Array + Array <= 2 * Words + 1
      BY <1>1 DEF Sized
    <3>6. Out(Array, b, p) \in Int
      BY <1>1, <3>5, OutInt
    <3>7. outCounter' = Out(Array, nb, np)
      BY <2>6, <3>3, <3>4, <3>5, <3>6
    <3>8. QED
      BY <2>2, <3>5, <3>7
  <2>9. QED
    BY <1>6, <2>1, <2>3, <2>4, <2>5, <2>7, <2>8 DEF Multiplying
<1>7. QED
  BY <1>5, <1>6

-----------------------------------------------------------------------------
(* The softmax unit has written all but what is in its write register.     *)
Normalizing ==
  /\ sfState = "RUNNING" /\ cycleCnt \in 0 .. Array /\ pipeRow \in 0 .. Mat + 1
  /\ writeReq <=> pipeRow >= 2 /\ cycleCnt >= 1
  /\ writeCounter = IF pipeRow < 2 THEN 0
                     ELSE Array * (pipeRow - 2) + (IF cycleCnt = 0 THEN 0 ELSE cycleCnt - 1)

(* The relay reads a word a cycle behind its counter, and the transposer   *)
(* is a block behind the relay.                                            *)
Last == Mat * Array
Relaying ==
  \/ /\ trRunning /\ ~trValidIn /\ trCounter = 0 /\ ~reading /\ writeCounter = 0
  \/ /\ trRunning /\ trValidIn /\ trCounter = 0 /\ ~reading /\ writeCounter = 0
     /\ trDelayed.row = 0
  \/ /\ trRunning /\ trValidIn /\ trCounter \in 1 .. Last - 1
     /\ trDelayed.row = (trCounter - 1) % Array
     /\ IF trCounter <= Array THEN ~reading /\ writeCounter = 0
        ELSE /\ reading /\ readIdx = (trCounter - 1) % Array
             /\ writeCounter = trCounter - 1 - Array
  \/ /\ ~trRunning /\ trValidIn /\ trCounter = 0
     /\ trDelayed.row = Array - 1
     /\ reading /\ readIdx = Array - 1 /\ writeCounter = Last - 1 - Array
  \/ /\ ~trRunning /\ ~trValidIn
     /\ reading /\ readIdx \in Lane /\ writeCounter = Last - Array + readIdx

(* The cycles since the relay was started. *)
RelayTime == IF trRunning THEN (IF trValidIn THEN trCounter + 1 ELSE 0)
             ELSE IF trValidIn THEN Last + 1 ELSE Last + 2 + readIdx

(* A unit that is not started stays quiet. *)
LEMMA ProductRests ==
  ASSUME NEW m, NEW x, NEW y, NoProduct, MM!Clock(FALSE, m, x, y)
  PROVE  NoProduct'
BY DEF NoProduct, MM!Clock, MM!Read, MM!Control, MM!Emerge, MM!Emerged

LEMMA SoftmaxRests ==
  ASSUME NEW x, NoSoftmax, SF!Clock(FALSE, x), sfState \in {"IDLE", "DONE"}
  PROVE  NoSoftmax' /\ sfState' = "IDLE"
BY DEF NoSoftmax, SF!Clock, SF!Sequence, SF!FindMax, SF!Divide, SF!Busy

LEMMA RelayRests ==
  NoRelay /\ Relay /\ ~CT!StartTranspose => NoRelay'
BY DEF NoRelay, Relay

LEMMA TransposerRests ==
  ~reading /\ ~trValidIn /\ NoProduct /\ Transpose => ~reading'
<1> SUFFICES ASSUME ~reading, ~trValidIn, NoProduct, Transpose PROVE ~reading'
  OBVIOUS
<1>1. ~MM!ValidOut
  BY DEF NoProduct, MM!ValidOut, MM!Emerged
<1>2. TR!Clock(FALSE, 0, JunkWord, [br |-> 0, bc |-> 0])
  BY <1>1 DEF Transpose
<1>3. QED
  BY <1>2 DEF TR!Clock

LEMMA SoftmaxStep ==
  ASSUME NEW x, job = "SOFTMAX", waiting, Normalizing, NoProduct, ~reading,
         SF!Clock(FALSE, x), Count
  PROVE  /\ StageDone <=> pipeRow = Mat + 1 /\ cycleCnt = Array
         /\ IF StageDone THEN sfState' = "DONE" /\ NoSoftmax'
            ELSE /\ Normalizing'
                 /\ IF cycleCnt # Array THEN cycleCnt' = cycleCnt + 1 /\ pipeRow' = pipeRow
                    ELSE cycleCnt' = 0 /\ pipeRow' = pipeRow + 1
<1>1. Array \in Nat /\ Array >= 2 /\ Mat \in Nat /\ Mat >= 2 /\ SF!Blocks = Array
  BY Sizes, Copies
<1>2. WriteValid <=> writeReq
  BY DEF WriteValid, CT!Mode, TR!ValidOut, NoProduct, MM!ValidOut, MM!Emerged
<1>3. TargetWriteCount = Array * Mat - 1
  <2>1. Mat * Array = Array * Mat
    BY <1>1, Multiples
  <2>2. QED
    BY <2>1 DEF TargetWriteCount, CT!Mode
<1>4. writeCounter' = IF writeReq THEN writeCounter + 1 ELSE writeCounter
  BY <1>2 DEF Count, CT!StartMatMul, CT!StartTranspose, CT!StartSoftmax
<1>5. ASSUME pipeRow >= 2
      PROVE  /\ Array * (pipeRow - 2) \in Nat /\ Array * (pipeRow - 1) = Array * (pipeRow - 2) + Array
             /\ Array * Mat \in Nat /\ Array * Mat - Array \in Nat
             /\ pipeRow <= Mat => Array * (pipeRow - 2) + Array <= Array * Mat - Array
             /\ pipeRow = Mat + 1 => Array * (pipeRow - 2) = Array * Mat - Array
  <2>1. pipeRow - 2 \in Nat /\ (pipeRow - 2) + 1 = pipeRow - 1
    BY <1>1, <1>5 DEF Normalizing
  <2>2. Array * (pipeRow - 2) \in Nat /\ Array * ((pipeRow - 2) + 1) = Array * (pipeRow - 2) + Array
    BY <1>1, <2>1, Multiples
  <2>3. Array * Mat \in Nat /\ Array * (Mat - 1) = Array * Mat - Array
    BY <1>1, Multiples
  <2>4. pipeRow <= Mat => Array * (pipeRow - 2) + Array <= Array * (Mat - 1)
    <3>1. Mat - 1 \in Nat
      BY <1>1
    <3>2. pipeRow <= Mat => pipeRow - 2 < Mat - 1
      BY <1>1 DEF Normalizing
    <3>3. QED
      BY <1>1, <2>1, <3>1, <3>2, MoreMultiples
  <2>5. pipeRow = Mat + 1 => pipeRow - 2 = Mat - 1
    BY <1>1
  <2>6. Array * Mat - Array \in Nat
    <3>1. Mat - 1 \in Nat
      BY <1>1
    <3>2. QED
      BY <1>1, <2>3, <3>1, Multiples
  <2>7. QED
    BY <2>1, <2>2, <2>3, <2>4, <2>5, <2>6
<1>6. StageDone <=> pipeRow = Mat + 1 /\ cycleCnt = Array
  <2>1. CASE ~writeReq
    <3>1. ~StageDone
      BY <1>2, <2>1 DEF StageDone
    <3>2. ~(pipeRow = Mat + 1 /\ cycleCnt = Array)
      BY <1>1, <2>1 DEF Normalizing
    <3>3. QED
      BY <3>1, <3>2
  <2>2. CASE writeReq
    <3>1. pipeRow >= 2 /\ cycleCnt \in 1 .. Array /\ pipeRow \in 0 .. Mat + 1
      BY <1>1, <2>2 DEF Normalizing
    <3>2. StageDone <=> writeCounter = Array * Mat - 1
      BY <1>2, <1>3, <2>2 DEF StageDone
    <3>3. PICK y \in Nat, z \in Nat : y = Array * (pipeRow - 2) /\ z = Array * Mat
      BY <1>5, <3>1
    <3>4. (pipeRow <= Mat => y + Array <= z - Array) /\ (pipeRow = Mat + 1 => y = z - Array)
      BY <1>5, <3>1, <3>3
    <3>5. writeCounter = y + (cycleCnt - 1)
      <4>1. ~(pipeRow < 2) /\ cycleCnt # 0
        BY <3>1
      <4>2. QED
        BY <3>3, <4>1 DEF Normalizing
    <3>6. QED
      BY <1>1, <3>1, <3>2, <3>3, <3>4, <3>5
  <2>3. QED
    BY <2>1, <2>2
<1>7. writeReq' <=> cycleCnt < Array /\ pipeRow >= 2 /\ pipeRow < Mat + 2
  BY <1>1 DEF Normalizing, SF!Clock, SF!Divide, SF!Busy
<1>8. prevEn' <=> cycleCnt < Array /\ pipeRow >= 0 /\ pipeRow < Mat + 0
  BY <1>1 DEF Normalizing, SF!Clock, SF!FindMax, SF!Busy
<1>9. CASE StageDone
  <2>1. pipeRow = Mat + 1 /\ cycleCnt = Array
    BY <1>6, <1>9
  <2>2. sfState' = "DONE"
    BY <1>1, <2>1 DEF Normalizing, SF!Clock, SF!Sequence
  <2>3. QED
    BY <1>1, <1>7, <1>8, <1>9, <2>1, <2>2 DEF NoSoftmax
<1>10. CASE ~StageDone /\ cycleCnt # Array
  <2>1. sfState' = "RUNNING" /\ cycleCnt' = cycleCnt + 1 /\ pipeRow' = pipeRow
    BY <1>1, <1>10 DEF Normalizing, SF!Clock, SF!Sequence
  <2>2. cycleCnt \in 0 .. Array /\ pipeRow \in 0 .. Mat + 1 /\ (writeReq <=> pipeRow >= 2 /\ cycleCnt >= 1)
    BY DEF Normalizing
  <2>3. writeReq' <=> pipeRow >= 2 /\ cycleCnt + 1 >= 1
    BY <1>1, <1>7, <1>10, <2>2
  <2>4. CASE pipeRow < 2
    <3>1. writeCounter' = 0
      BY <1>4, <2>2, <2>4 DEF Normalizing
    <3>2. QED
      BY <1>1, <1>6, <1>10, <2>1, <2>2, <2>3, <2>4, <3>1 DEF Normalizing
  <2>5. CASE pipeRow >= 2
    <3>1. PICK y \in Nat : y = Array * (pipeRow - 2)
      BY <1>5, <2>5
    <3>2. writeCounter = y + (IF cycleCnt = 0 THEN 0 ELSE cycleCnt - 1)
      BY <2>2, <2>5, <3>1 DEF Normalizing
    <3>3. writeCounter' = y + ((cycleCnt + 1) - 1)
      BY <1>1, <1>4, <2>2, <2>5, <3>2
    <3>4. cycleCnt + 1 # 0 /\ cycleCnt + 1 \in 0 .. Array /\ ~(pipeRow < 2)
      BY <1>1, <1>10, <2>2, <2>5
    <3>5. writeCounter' = IF pipeRow' < 2 THEN 0
                          ELSE Array * (pipeRow' - 2) + (IF cycleCnt' = 0 THEN 0 ELSE cycleCnt' - 1)
      <4>1. cycleCnt' - 1 = (cycleCnt + 1) - 1 /\ pipeRow' - 2 = pipeRow - 2
            /\ ~(pipeRow' < 2) /\ ~(cycleCnt' = 0)
        BY <2>1, <3>4
      <4>2. writeCounter' = Array * (pipeRow' - 2) + (cycleCnt' - 1)
        BY <3>1, <3>3, <4>1
      <4>3. QED
        BY <4>1, <4>2
    <3>6. cycleCnt' \in 0 .. Array /\ pipeRow' \in 0 .. Mat + 1
          /\ (writeReq' <=> pipeRow' >= 2 /\ cycleCnt' >= 1)
      BY <2>1, <2>2, <2>3, <3>4
    <3>7. QED
      BY <1>6, <1>10, <2>1, <3>5, <3>6 DEF Normalizing
  <2>6. QED
    BY <2>2, <2>4, <2>5
<1>11. CASE ~StageDone /\ cycleCnt = Array
  <2>1. cycleCnt \in 0 .. Array /\ pipeRow \in 0 .. Mat + 1 /\ pipeRow # Mat + 1
        /\ (writeReq <=> pipeRow >= 2)
    BY <1>1, <1>6, <1>11 DEF Normalizing
  <2>2. sfState' = "RUNNING" /\ cycleCnt' = 0 /\ pipeRow' = pipeRow + 1
    BY <1>1, <1>11, <2>1 DEF Normalizing, SF!Clock, SF!Sequence
  <2>3. ~writeReq' /\ pipeRow + 1 \in 0 .. Mat + 1 /\ 0 \in 0 .. Array /\ ~(0 >= 1)
    BY <1>1, <1>7, <1>11, <2>1
  <2>4. writeCounter' = IF pipeRow + 1 < 2 THEN 0 ELSE Array * ((pipeRow + 1) - 2) + 0
    <3>1. CASE pipeRow < 2
      <4>1. writeCounter' = 0
        BY <1>4, <2>1, <3>1 DEF Normalizing
      <4>2. Array * (1 - 1) = 0 /\ (pipeRow + 1 < 2 \/ (pipeRow + 1) - 2 = 1 - 1)
        BY <1>1, <2>1, <3>1
      <4>3. QED
        BY <4>1, <4>2
    <3>2. CASE pipeRow >= 2
      <4>1. PICK y \in Nat : y = Array * (pipeRow - 2) /\ Array * (pipeRow - 1) = y + Array
        BY <1>5, <3>2
      <4>2. writeCounter = y + (Array - 1)
        BY <1>1, <1>11, <2>1, <3>2, <4>1 DEF Normalizing
      <4>3. writeCounter' = y + Array
        BY <1>1, <1>4, <2>1, <3>2, <4>2
      <4>4. ~(pipeRow + 1 < 2) /\ (pipeRow + 1) - 2 = pipeRow - 1
        BY <2>1, <3>2
      <4>5. QED
        BY <1>1, <4>1, <4>3, <4>4
    <3>3. QED
      BY <2>1, <3>1, <3>2
  <2>5. QED
    BY <1>1, <1>6, <1>11, <2>2, <2>3, <2>4 DEF Normalizing
<1>12. QED
  BY <1>9, <1>10, <1>11

LEMMA RelayStep ==
  ASSUME job = "TRANSPOSE", waiting, Relaying, NoProduct, ~writeReq, Relay, Transpose, Count
  PROVE  IF StageDone THEN NoRelay' /\ ~reading' /\ RelayTime = Last + Array + 1
         ELSE Relaying' /\ RelayTime' = RelayTime + 1
<1>1. /\ Array \in Nat /\ Array >= 2 /\ Last \in Nat /\ 4 * Array <= Last /\ Lane = 0 .. Array - 1
      /\ Mat * Blocks = Last /\ (Last - 1) % Array = Array - 1 /\ Array # 0
  <2>1. Array \in Nat \ {0} /\ Array >= 2 /\ Mat \in Nat /\ 2 * Array <= Mat /\ Blocks = Array
        /\ Lane = 0 .. Array - 1
    BY Sizes, Places
  <2>2. Last = Array * Mat /\ Last \in Nat
    BY <2>1, Multiples DEF Last
  <2>3. 4 * Array <= Array * Mat
    <3>1. 3 < Mat
      BY <2>1
    <3>2. Array * 3 + Array <= Array * Mat
      BY <2>1, <3>1, MoreMultiples
    <3>3. QED
      BY <2>1, <3>2
  <2>4. (Last - 1) % Array = Array - 1
    <3>1. Array * (Mat - 1) = Array * Mat - Array /\ Mat - 1 \in Nat
      BY <2>1, Multiples
    <3>2. PICK q \in Nat, r \in 0 .. Array - 1 : q = Mat - 1 /\ r = Array - 1
      BY <2>1, <3>1
    <3>3. (Array * q + r) % Array = r
      BY <2>1, <3>2, Division
    <3>4. Last - 1 = Array * q + r
      BY <2>1, <2>2, <3>1, <3>2
    <3>5. QED
      BY <3>2, <3>3, <3>4
  <2>5. QED
    BY <2>1, <2>2, <2>3, <2>4 DEF Last
<1>2. WriteValid <=> reading
  BY DEF WriteValid, CT!Mode, TR!ValidOut, NoProduct, MM!ValidOut, MM!Emerged
<1>3. StageDone <=> reading /\ writeCounter = Last - 1
  BY <1>2 DEF StageDone, TargetWriteCount, CT!Mode, Last
<1>4. writeCounter' = IF reading THEN writeCounter + 1 ELSE writeCounter
  BY <1>2 DEF Count, CT!StartMatMul, CT!StartTranspose, CT!StartSoftmax
<1>5. /\ IF trValidIn
         THEN /\ trCounter' = (trCounter + 1) % Last
              /\ trRunning' = (trRunning /\ trCounter # Last - 1)
         ELSE UNCHANGED <<trRunning, trCounter>>
      /\ trValidIn' = trRunning /\ trDelayed'.row = trCounter % Array
  BY <1>1 DEF Relay, CT!StartTranspose, RelayRow, Last
<1>6. IF trValidIn /\ trDelayed.row = Array - 1 THEN readIdx' = 0 /\ reading' = TRUE
      ELSE IF reading THEN readIdx' = (readIdx + 1) % Array /\ reading' = ~(readIdx = Array - 1)
      ELSE UNCHANGED <<readIdx, reading>>
  <2>1. CASE trValidIn
    <3>1. TR!Clock(TRUE, trDelayed.row, rdata["2"], [br |-> trDelayed.br, bc |-> trDelayed.bc])
      BY <2>1 DEF Transpose
    <3>2. QED
      BY <2>1, <3>1 DEF TR!Clock, TR!LastRow
  <2>2. CASE ~trValidIn
    <3>1. ~MM!ValidOut
      BY DEF NoProduct, MM!ValidOut, MM!Emerged
    <3>2. TR!Clock(FALSE, 0, JunkWord, [br |-> 0, bc |-> 0])
      BY <2>2, <3>1 DEF Transpose
    <3>3. QED
      BY <2>2, <3>2 DEF TR!Clock, TR!LastRow
  <2>3. QED
    BY <2>1, <2>2
<1>7. CASE trRunning /\ ~trValidIn /\ trCounter = 0 /\ ~reading /\ writeCounter = 0
  <2>1. trRunning' /\ trValidIn' /\ trCounter' = 0 /\ ~reading' /\ writeCounter' = 0
    BY <1>4, <1>5, <1>6, <1>7
  <2>2. trDelayed'.row = 0
    BY <1>1, <1>5, <1>7
  <2>3. QED
    BY <1>3, <1>7, <2>1, <2>2 DEF Relaying, RelayTime
<1>8. CASE trRunning /\ trValidIn /\ trCounter = 0 /\ ~reading /\ writeCounter = 0 /\ trDelayed.row = 0
  <2>1. (0 + 1) % Last = 1 /\ 0 # Last - 1 /\ 0 % Array = 0 /\ 0 # Array - 1 /\ (1 - 1) % Array = 0
        /\ 1 \in 1 .. Last - 1 /\ 1 <= Array
    BY <1>1
  <2>2. trRunning' /\ trValidIn' /\ trCounter' = 1 /\ ~reading' /\ writeCounter' = 0 /\ trDelayed'.row = 0
    BY <1>4, <1>5, <1>6, <1>8, <2>1
  <2>3. QED
    BY <1>3, <1>8, <2>1, <2>2 DEF Relaying, RelayTime
<1>9. CASE /\ trRunning /\ trValidIn /\ trCounter \in 1 .. Last - 1
           /\ trDelayed.row = (trCounter - 1) % Array
           /\ IF trCounter <= Array THEN ~reading /\ writeCounter = 0
              ELSE /\ reading /\ readIdx = (trCounter - 1) % Array
                   /\ writeCounter = trCounter - 1 - Array
  <2>1. PICK t \in 1 .. Last - 1 : t = trCounter
    BY <1>9
  <2>2. PICK r \in 0 .. Array - 1 : r = (t - 1) % Array
    BY <1>1, <2>1
  <2>3. ~StageDone
    BY <1>1, <1>3, <1>9, <2>1
  <2>4. t % Array = IF r = Array - 1 THEN 0 ELSE r + 1
    <3>1. t - 1 \in Nat /\ (t - 1) + 1 = t /\ Array \in Nat \ {0}
      BY <1>1
    <3>2. QED
      BY <2>2, <3>1, Remainder
  <2>5. t <= Array => r = t - 1
    BY <1>1, <2>2
  <2>6. trValidIn' /\ trDelayed'.row = t % Array
    BY <1>5, <1>9, <2>1
  <2>7. IF t < Array THEN ~reading' /\ writeCounter' = 0
        ELSE reading' /\ readIdx' = t % Array /\ writeCounter' = t - Array
    <3>1. CASE t < Array
      <4>1. ~reading /\ writeCounter = 0 /\ trDelayed.row # Array - 1
        BY <1>1, <1>9, <2>1, <2>2, <2>5, <3>1
      <4>2. QED
        BY <1>4, <1>6, <3>1, <4>1
    <3>2. CASE t = Array
      <4>1. ~reading /\ writeCounter = 0 /\ trDelayed.row = Array - 1 /\ t % Array = 0
        BY <1>1, <1>9, <2>1, <2>2, <2>4, <2>5, <3>2
      <4>2. ~(t < Array) /\ t - Array = 0
        BY <1>1, <3>2
      <4>3. QED
        BY <1>4, <1>6, <1>9, <4>1, <4>2
    <3>3. CASE t > Array
      <4>1. reading /\ readIdx = r /\ writeCounter = t - 1 - Array /\ trDelayed.row = r
        BY <1>1, <1>9, <2>1, <2>2, <3>3
      <4>2. writeCounter' = t - Array /\ ~(t < Array)
        BY <1>1, <1>4, <3>3, <4>1
      <4>3. reading' /\ readIdx' = t % Array
        <5>1. CASE r = Array - 1
          BY <1>6, <1>9, <2>4, <4>1, <5>1
        <5>2. CASE r # Array - 1
          <6>1. (r + 1) % Array = r + 1
            BY <1>1, <5>2
          <6>2. QED
            BY <1>6, <2>4, <4>1, <5>2, <6>1
        <5>3. QED
          BY <5>1, <5>2
      <4>4. QED
        BY <4>2, <4>3
    <3>4. QED
      BY <1>1, <3>1, <3>2, <3>3
  <2>8. CASE t = Last - 1
    <3>1. (t + 1) % Last = 0
      BY <1>1, <2>8
    <3>2. ~trRunning' /\ trCounter' = 0
      BY <1>5, <1>9, <2>1, <2>8, <3>1
    <3>3. t % Array = Array - 1 /\ ~(t < Array) /\ t - Array = Last - 1 - Array
      BY <1>1, <2>8
    <3>4. QED
      BY <1>1, <1>9, <2>1, <2>3, <2>6, <2>7, <2>8, <3>2, <3>3 DEF Relaying, RelayTime
  <2>9. CASE t # Last - 1
    <3>1. (t + 1) % Last = t + 1 /\ t + 1 \in 1 .. Last - 1 /\ (t + 1) - 1 = t
          /\ (t + 1 <= Array <=> t < Array) /\ (t + 1) - 1 - Array = t - Array
      BY <1>1, <2>9
    <3>2. trRunning' /\ trCounter' = t + 1
      BY <1>5, <1>9, <2>1, <2>9, <3>1
    <3>3. QED
      BY <1>9, <2>1, <2>3, <2>6, <2>7, <3>1, <3>2 DEF Relaying, RelayTime
  <2>10. QED
    BY <2>8, <2>9
<1>10. CASE /\ ~trRunning /\ trValidIn /\ trCounter = 0
            /\ trDelayed.row = Array - 1
            /\ reading /\ readIdx = Array - 1 /\ writeCounter = Last - 1 - Array
  <2>1. ~StageDone /\ writeCounter + 1 = Last - Array + 0 /\ 0 \in Lane
    BY <1>1, <1>3, <1>10
  <2>2. ~trRunning' /\ ~trValidIn' /\ reading' /\ readIdx' = 0 /\ writeCounter' = Last - Array + 0
    BY <1>4, <1>5, <1>6, <1>10, <2>1
  <2>3. QED
    BY <1>1, <1>10, <2>1, <2>2 DEF Relaying, RelayTime
<1>11. CASE /\ ~trRunning /\ ~trValidIn
            /\ reading /\ readIdx \in Lane /\ writeCounter = Last - Array + readIdx
  <2>1. ~trRunning' /\ ~trValidIn'
    BY <1>5, <1>11
  <2>2. StageDone <=> readIdx = Array - 1
    BY <1>1, <1>3, <1>11
  <2>3. CASE readIdx = Array - 1
    <3>1. ~reading'
      BY <1>6, <1>11, <2>3
    <3>2. QED
      BY <1>1, <1>11, <2>1, <2>2, <2>3, <3>1 DEF NoRelay, RelayTime
  <2>4. CASE readIdx # Array - 1
    <3>1. (readIdx + 1) % Array = readIdx + 1 /\ readIdx + 1 \in Lane
          /\ writeCounter + 1 = Last - Array + (readIdx + 1)
      BY <1>1, <1>11, <2>4
    <3>2. reading' /\ readIdx' = readIdx + 1 /\ writeCounter' = Last - Array + (readIdx + 1)
      BY <1>4, <1>6, <1>11, <2>4, <3>1
    <3>3. QED
      BY <1>1, <1>11, <2>1, <2>2, <2>4, <3>1, <3>2 DEF Relaying, RelayTime
  <2>5. QED
    BY <2>3, <2>4
<1>12. QED
  BY <1>7, <1>8, <1>9, <1>10, <1>11 DEF Relaying

-----------------------------------------------------------------------------
(* Only the unit that was started has anything under way.                  *)
TimeInv ==
  /\ CT!TypeOK
  /\ waiting => job \in CT!Stage
  /\ sfState \in {"IDLE", "RUNNING", "DONE"}
  /\ sfState = "DONE" => job = "TRANSPOSE" /\ ~waiting
  /\ ~waiting => NoProduct /\ NoRelay /\ NoSoftmax /\ ~reading
  /\ waiting /\ job \in CT!MatMulJob =>
       /\ NoRelay /\ NoSoftmax
       /\ \E b, p \in Nat : Multiplying(b, p)
  /\ waiting /\ job = "SOFTMAX" => NoProduct /\ NoRelay /\ ~reading /\ Normalizing
  /\ waiting /\ job = "TRANSPOSE" => NoProduct /\ NoSoftmax /\ Relaying

LEMMA TimeInit ==
  Init => TimeInv
<1> SUFFICES ASSUME Init PROVE TimeInv
  OBVIOUS
<1>1. CT!TypeOK /\ ~waiting /\ sfState = "IDLE"
  <2>1. 0 \in 0 .. Heads - 1
    BY SizesAssumption
  <2>2. QED
    BY <2>1 DEF Init, CT!Init, CT!TypeOK, CT!Job, SF!Init
<1>2. NoProduct /\ NoRelay /\ NoSoftmax /\ ~reading
  BY DEF Init, MM!Init, SF!Init, TR!Init, NoProduct, NoRelay, NoSoftmax
<1>3. QED
  BY <1>1, <1>2 DEF TimeInv

(* The controller does not leave its states. *)
LEMMA ControllerTypes ==
  ASSUME NEW start, CT!TypeOK, waiting => job \in CT!Stage, CT!Clock(start, StageDone)
  PROVE  CT!TypeOK' /\ (waiting' => job' \in CT!Stage)
<1>1. /\ Heads \in Nat \ {0} /\ job \in CT!Job /\ waiting \in BOOLEAN /\ head \in 0 .. Heads - 1
  BY Sizes DEF CT!TypeOK
<1>2. CASE CT!Rest(start) \/ CT!PassOn \/ CT!Begin
  <2>1. CASE CT!Rest(start) \/ CT!PassOn
    <3>1. ~waiting
      BY <2>1 DEF CT!Rest, CT!PassOn, CT!Stage, CT!MatMulJob
    <3>2. waiting' = waiting /\ head' = head /\ job' \in {"IDLE", "LAYERNORM", "Q"}
      BY <2>1 DEF CT!Rest, CT!PassOn
    <3>3. job' \in CT!Job
      BY <3>2 DEF CT!Job, CT!Stage, CT!MatMulJob
    <3>4. QED
      BY <1>1, <3>1, <3>2, <3>3 DEF CT!TypeOK
  <2>2. CASE CT!Begin
    BY <1>1, <2>2 DEF CT!Begin, CT!TypeOK
  <2>3. QED
    BY <1>2, <2>1, <2>2
<1>3. CASE CT!Await(StageDone)
  <2>1. waiting' \in BOOLEAN
    BY <1>3 DEF CT!Await
  <2>2. job \in CT!Stage
    BY <1>3 DEF CT!Await
  <2>3. CASE ~StageDone
    BY <1>1, <1>3, <2>1, <2>2, <2>3 DEF CT!Await, CT!TypeOK
  <2>4. CASE StageDone /\ job # "Z"
    <3>1. ~waiting' /\ job' = CT!Follows[job] /\ head' = head
      BY <1>3, <2>4 DEF CT!Await
    <3>2. job' \in CT!Job
      BY <2>2, <2>4, <3>1 DEF CT!Follows, CT!Job, CT!Stage, CT!MatMulJob
    <3>3. QED
      BY <1>1, <2>1, <3>1, <3>2 DEF CT!TypeOK
  <2>5. CASE StageDone /\ job = "Z"
    <3>1. ~waiting' /\ IF head = Heads - 1 THEN job' = "OUT" /\ head' = 0
                       ELSE job' = "E" /\ head' = head + 1
      BY <1>3, <2>5 DEF CT!Await, CT!LastHead
    <3>2. job' \in CT!Job
      BY <3>1 DEF CT!Job, CT!Stage, CT!MatMulJob
    <3>3. head' \in 0 .. Heads - 1
      BY <1>1, <3>1
    <3>4. QED
      BY <2>1, <3>1, <3>2, <3>3 DEF CT!TypeOK
  <2>6. QED
    BY <2>3, <2>4, <2>5
<1>4. QED
  BY <1>2, <1>3 DEF CT!Clock

LEMMA TimeStep ==
  ASSUME NEW start, TimeInv, Clock(start)
  PROVE  TimeInv'
<1>1. /\ CT!Clock(start, StageDone) /\ ProductClock /\ Relay /\ Transpose /\ Count
      /\ MM!Clock(CT!StartMatMul, CT!Mode, rdata[CT!SelA], rdata[CT!SelB])
      /\ SF!Clock(CT!StartSoftmax, rdata["1"])
  BY DEF Clock, ProductClock
<1>2. CT!TypeOK' /\ (waiting' => job' \in CT!Stage)
  BY <1>1, ControllerTypes DEF TimeInv
<1>3. /\ head \in 0 .. Heads - 1 /\ sfState \in {"IDLE", "RUNNING", "DONE"}
      /\ CT!Stage = CT!MatMulJob \cup {"SOFTMAX", "TRANSPOSE"}
      /\ "SOFTMAX" \notin CT!MatMulJob /\ "TRANSPOSE" \notin CT!MatMulJob
  BY DEF TimeInv, CT!TypeOK, CT!Stage, CT!MatMulJob
<1>4. ~CT!StartMatMul /\ NoProduct => NoProduct'
  BY <1>1, ProductRests DEF CT!StartMatMul
<1>5. ~CT!StartSoftmax /\ NoSoftmax /\ sfState # "RUNNING" => NoSoftmax' /\ sfState' = "IDLE"
  BY <1>1, <1>3, SoftmaxRests DEF CT!StartSoftmax
<1>6. ~CT!StartTranspose /\ NoRelay => NoRelay'
  BY <1>1, RelayRests
<1>7. ~reading /\ ~trValidIn /\ NoProduct => ~reading'
  BY <1>1, TransposerRests
<1>8. CASE job \notin CT!Stage
  <2>1. ~waiting /\ NoProduct /\ NoRelay /\ NoSoftmax /\ ~reading
    BY <1>8 DEF TimeInv
  <2>2. ~CT!StartMatMul /\ ~CT!StartSoftmax /\ ~CT!StartTranspose
    BY <1>3, <1>8 DEF CT!StartMatMul, CT!StartSoftmax, CT!StartTranspose
  <2>3. NoProduct' /\ NoRelay' /\ NoSoftmax' /\ sfState' = "IDLE" /\ ~reading'
    BY <1>4, <1>5, <1>6, <1>7, <2>1, <2>2 DEF NoSoftmax, NoRelay
  <2>4. ~waiting'
    BY <1>1, <1>8, <2>1 DEF CT!Clock, CT!Rest, CT!PassOn, CT!Begin, CT!Await
  <2>5. QED
    BY <1>2, <2>3, <2>4 DEF TimeInv
<1>9. CASE job \in CT!Stage /\ ~waiting
  <2>1. NoProduct /\ NoRelay /\ NoSoftmax /\ ~reading
    BY <1>9 DEF TimeInv
  <2>2. CT!Begin /\ waiting' /\ job' = job
    BY <1>1, <1>9 DEF CT!Clock, CT!Rest, CT!PassOn, CT!Begin, CT!Await, CT!Stage, CT!MatMulJob
  <2>3. CASE job \in CT!MatMulJob
    <3>1. ~CT!StartSoftmax /\ ~CT!StartTranspose
      BY <1>3, <2>3 DEF CT!StartSoftmax, CT!StartTranspose
    <3>2. NoRelay' /\ NoSoftmax' /\ sfState' = "IDLE"
      BY <1>5, <1>6, <2>1, <3>1 DEF NoSoftmax
    <3>3. Multiplying(0, 0)'
      BY <1>1, <1>3, <2>1, <2>2, <2>3, ProductStart
    <3>4. \E b, p \in Nat : Multiplying(b, p)'
      BY <3>3
    <3>5. QED
      BY <1>2, <1>3, <2>2, <2>3, <3>2, <3>4 DEF TimeInv
  <2>4. CASE job = "SOFTMAX"
    <3>1. ~CT!StartMatMul /\ ~CT!StartTranspose /\ CT!StartSoftmax
      BY <1>3, <1>9, <2>4 DEF CT!StartMatMul, CT!StartTranspose, CT!StartSoftmax
    <3>2. NoProduct' /\ NoRelay' /\ ~reading'
      BY <1>4, <1>6, <1>7, <2>1, <3>1 DEF NoRelay
    <3>3. sfState = "IDLE"
      BY <1>3, <2>1, <2>4 DEF TimeInv, NoSoftmax
    <3>4. SF!Clock(TRUE, rdata["1"])
      BY <1>1, <3>1 DEF CT!StartSoftmax
    <3>5. sfState' = "RUNNING" /\ cycleCnt' = 0 /\ pipeRow' = 0 /\ ~writeReq' /\ writeCounter' = 0
      BY <1>1, <3>1, <3>3, <3>4 DEF SF!Clock, SF!Sequence, SF!Divide, SF!Busy, Count
    <3>6. 0 \in 0 .. Array /\ 0 \in 0 .. Mat + 1 /\ 0 < 2 /\ ~(0 >= 2)
      BY Sizes
    <3>7. Normalizing'
      BY <3>5, <3>6 DEF Normalizing
    <3>8. QED
      BY <1>2, <1>3, <2>2, <2>4, <3>2, <3>5, <3>7 DEF TimeInv
  <2>5. CASE job = "TRANSPOSE"
    <3>1. ~CT!StartMatMul /\ ~CT!StartSoftmax /\ CT!StartTranspose
      BY <1>3, <1>9, <2>5 DEF CT!StartMatMul, CT!StartTranspose, CT!StartSoftmax
    <3>2. NoProduct' /\ NoSoftmax' /\ sfState' = "IDLE" /\ ~reading'
      BY <1>4, <1>5, <1>7, <2>1, <3>1 DEF NoSoftmax, NoRelay
    <3>3. trRunning' /\ ~trValidIn' /\ trCounter' = 0 /\ writeCounter' = 0
      BY <1>1, <2>1, <3>1 DEF Relay, Count, NoRelay
    <3>4. Relaying'
      BY <3>2, <3>3 DEF Relaying
    <3>5. QED
      BY <1>2, <1>3, <2>2, <2>5, <3>2, <3>4 DEF TimeInv
  <2>6. QED
    BY <1>3, <1>9, <2>3, <2>4, <2>5
<1>10. CASE waiting
  <2>1. /\ job \in CT!Stage /\ CT!Await(StageDone)
        /\ ~CT!StartMatMul /\ ~CT!StartSoftmax /\ ~CT!StartTranspose
    BY <1>1, <1>10 DEF TimeInv, CT!Clock, CT!Rest, CT!PassOn, CT!Begin, CT!Stage, CT!MatMulJob,
                       CT!StartMatMul, CT!StartSoftmax, CT!StartTranspose
  <2>2. /\ ~StageDone => waiting' /\ job' = job
        /\ StageDone => ~waiting' /\ (job = "SOFTMAX" => job' = "TRANSPOSE")
    <3>1. CT!Follows["SOFTMAX"] = "TRANSPOSE"
      BY DEF CT!Follows
    <3>2. CASE StageDone
      BY <2>1, <3>1, <3>2 DEF CT!Await
    <3>3. CASE ~StageDone
      BY <2>1, <3>3 DEF CT!Await
    <3>4. QED
      BY <3>2, <3>3
  <2>3. CASE job \in CT!MatMulJob
    <3>1. NoRelay /\ NoSoftmax /\ sfState # "RUNNING"
      BY <1>10, <2>3 DEF TimeInv, NoSoftmax
    <3>2. NoRelay' /\ NoSoftmax' /\ sfState' = "IDLE"
      BY <1>5, <1>6, <2>1, <3>1
    <3>3. PICK b, p \in Nat : Multiplying(b, p)
      BY <1>10, <2>3 DEF TimeInv
    <3>4. PICK nb, np \in Nat : nb = NextB(b, p) /\ np = NextP(b, p)
      BY DEF NextB, NextP
    <3>5. IF StageDone THEN NoProduct' /\ ~reading' ELSE waiting' /\ Multiplying(nb, np)'
      BY <1>1, <1>3, <1>10, <2>1, <2>3, <3>1, <3>3, <3>4, ProductStep DEF NoRelay, NoSoftmax
    <3>6. CASE StageDone
      BY <1>2, <2>2, <3>2, <3>5, <3>6 DEF TimeInv
    <3>7. CASE ~StageDone
      <4>1. \E c, q \in Nat : Multiplying(c, q)'
        BY <3>5, <3>7
      <4>2. QED
        BY <1>2, <1>3, <2>2, <2>3, <3>2, <3>7, <4>1 DEF TimeInv
    <3>8. QED
      BY <3>6, <3>7
  <2>4. CASE job = "SOFTMAX"
    <3>1. NoProduct /\ NoRelay /\ ~reading /\ Normalizing
      BY <1>10, <2>4 DEF TimeInv
    <3>2. NoProduct' /\ NoRelay' /\ ~reading'
      BY <1>4, <1>6, <1>7, <2>1, <3>1 DEF NoRelay
    <3>3. SF!Clock(FALSE, rdata["1"])
      BY <1>1, <2>1 DEF CT!StartSoftmax
    <3>4. IF StageDone THEN sfState' = "DONE" /\ NoSoftmax' ELSE Normalizing'
      BY <1>1, <1>10, <2>4, <3>1, <3>3, SoftmaxStep
    <3>5. CASE StageDone
      BY <1>2, <2>2, <2>4, <3>2, <3>4, <3>5 DEF TimeInv
    <3>6. CASE ~StageDone
      <4>1. sfState' = "RUNNING"
        BY <3>4, <3>6 DEF Normalizing
      <4>2. QED
        BY <1>2, <1>3, <2>2, <2>4, <3>2, <3>4, <3>6, <4>1 DEF TimeInv
    <3>7. QED
      BY <3>5, <3>6
  <2>5. CASE job = "TRANSPOSE"
    <3>1. NoProduct /\ NoSoftmax /\ Relaying /\ sfState # "RUNNING" /\ ~writeReq
      BY <1>10, <2>5 DEF TimeInv, NoSoftmax
    <3>2. NoProduct' /\ NoSoftmax' /\ sfState' = "IDLE"
      BY <1>4, <1>5, <2>1, <3>1
    <3>3. IF StageDone THEN NoRelay' /\ ~reading' ELSE Relaying'
      BY <1>1, <1>10, <2>5, <3>1, RelayStep
    <3>4. CASE StageDone
      BY <1>2, <2>2, <3>2, <3>3, <3>4 DEF TimeInv
    <3>5. CASE ~StageDone
      BY <1>2, <1>3, <2>2, <2>5, <3>2, <3>3, <3>5 DEF TimeInv
    <3>6. QED
      BY <3>4, <3>5
  <2>6. QED
    BY <1>3, <2>1, <2>3, <2>4, <2>5
<1>11. QED
  BY <1>8, <1>9, <1>10

LEMMA SameProduct ==
  ASSUME NEW b \in Nat, NEW p \in Nat, Multiplying(b, p),
         UNCHANGED <<job, head, mmState, kIdx, fed, validIn, accClear, emerging, outCounter>>,
         UNCHANGED <<readIdx, reading, writeCounter>>
  PROVE  Multiplying(b, p)'
<1>1. Mode' = Mode /\ Words' = Words /\ Total' = Total /\ Ages(b, p)' = Ages(b, p)
      /\ MM!KStart(Mode)' = MM!KStart(Mode)
      /\ \A s \in Nat : OneOut(s, b, p)' = OneOut(s, b, p) /\ Out(s, b, p)' = Out(s, b, p)
  BY SameTask
<1>2. Array \in Nat /\ 2 * Array \in Nat
  BY Sizes
<1>3. Feeding(b, p)'
  BY <1>1 DEF Multiplying, Feeding
<1>4. Leaving(b, p)'
  BY <1>1 DEF Multiplying, Leaving, LeavingIn
<1>5. Transposing(b, p)'
  BY <1>1, <1>2 DEF Multiplying, Transposing, TransposingAt
<1>6. Written(b, p)' /\ (mmState' # "IDLE" => outCounter' = Out(Array, b, p)')
  BY <1>1, <1>2 DEF Multiplying, Written
<1>7. QED
  BY <1>3, <1>4, <1>5, <1>6 DEF Multiplying

LEMMA TimeStutter ==
  TimeInv /\ UNCHANGED vars => TimeInv'
<1> SUFFICES ASSUME TimeInv, UNCHANGED vars PROVE TimeInv'
  OBVIOUS
<1>1. /\ UNCHANGED <<job, waiting, head, mmState, kIdx, fed, validIn, accClear, emerging, outCounter>>
      /\ UNCHANGED <<sfState, cycleCnt, pipeRow, prevEn, writeReq, readIdx, reading>>
      /\ UNCHANGED <<trRunning, trCounter, trValidIn, trDelayed, writeCounter>>
  BY DEF vars, CT!ctVars, MM!mmVars, SF!sfVars, TR!trVars, relayVars
<1>2. CT!TypeOK' = CT!TypeOK /\ CT!Stage' = CT!Stage /\ CT!MatMulJob' = CT!MatMulJob
  BY <1>1 DEF CT!TypeOK
<1>3. NoProduct' = NoProduct /\ NoRelay' = NoRelay /\ NoSoftmax' = NoSoftmax
  BY <1>1 DEF NoProduct, NoRelay, NoSoftmax
<1>4. Normalizing' = Normalizing /\ Relaying' = Relaying
  BY <1>1 DEF Normalizing, Relaying
<1>5. ASSUME NEW b \in Nat, NEW p \in Nat, Multiplying(b, p)
      PROVE  Multiplying(b, p)'
  BY <1>1, <1>5, SameProduct
<1>6. QED
  BY <1>1, <1>2, <1>3, <1>4, <1>5 DEF TimeInv

(* Only the unit that was started has anything under way, and it is as far *)
(* as the words that are counted say, in every cycle.                      *)
THEOREM TimeAlways ==
  Spec => []TimeInv
<1>1. TimeInv /\ [Next]_vars => TimeInv'
  BY TimeStep, TimeStutter DEF Next
<1>2. QED
  BY TimeInit, <1>1, PTL DEF Spec

(* A stage starts on a datapath where nothing of the stage before is still *)
(* under way, whatever the sizes: the word with which the controller takes *)
(* a stage for done is the last thing that any unit has to do for it.      *)
THEOREM StagesDoNotOverlap ==
  Spec => []QuietAtStart
<1>1. TimeInv => QuietAtStart
  BY DEF TimeInv, QuietAtStart, NoProduct, NoRelay, NoSoftmax
<1>2. QED
  BY TimeAlways, <1>1, PTL

-----------------------------------------------------------------------------
(* Every register holds a value of its kind. *)
MMTypes ==
  /\ mmState \in {"IDLE", "FEED", "FLUSH", "WAIT_DONE"}
  /\ kIdx \in Index /\ br \in Lane /\ bc \in Lane
  /\ validIn \in BOOLEAN /\ accClear \in BOOLEAN
  /\ acc \in [Lane -> [Lane -> Seq(Entry \X Entry)]]
  /\ emerging \subseteq [wait : 0 .. 2 * Array - 1, row : Lane, data : Word]
  /\ outBr \in Lane /\ outBc \in Lane

SFTypes ==
  /\ sfState \in {"IDLE", "RUNNING", "DONE"}
  /\ cycleCnt \in 0 .. Array /\ pipeRow \in 0 .. Mat + 1
  /\ prevEn \in BOOLEAN /\ prevChunk \in Lane /\ prevRow \in Index
  /\ rowBuffer \in [{0, 1} -> [Lane -> Word]]
  /\ rowMax \in [{0, 1} -> SUBSET Entry]
  /\ expBuffer \in [{0, 1} -> [Lane -> [Lane -> Entry \X SUBSET Entry]]]
  /\ expSum \in [{0, 1} -> Seq(Entry \X SUBSET Entry)]
  /\ writeReq \in BOOLEAN /\ writeAddr \in Address /\ writeData \in Word

TRTypes ==
  /\ sel \in {0, 1} /\ buf \in [{0, 1} -> [Lane -> Word]]
  /\ at \in [{0, 1} -> [br : Lane, bc : Lane]]
  /\ readIdx \in Lane /\ reading \in BOOLEAN

RelayTypes ==
  /\ trRunning \in BOOLEAN /\ trValidIn \in BOOLEAN
  /\ trCounter \in 0 .. Mat * Blocks - 1
  /\ trDelayed \in [row : Lane, br : Lane, bc : Lane]

MemoryTypes ==
  ram \in [Memory -> [Address -> Word]] /\ rdata \in [Memory -> Word]

Types == MMTypes /\ SFTypes /\ TRTypes /\ RelayTypes /\ MemoryTypes

LEMMA TypesInit ==
  Init => Types
<1> SUFFICES ASSUME Init PROVE Types
  OBVIOUS
<1>1. /\ 0 \in Lane /\ 0 \in Index /\ 0 \in Address /\ 0 \in 0 .. Array /\ 0 \in 0 .. Mat + 1
      /\ 0 \in 0 .. Mat * Blocks - 1
  <2>1. 0 \in Lane /\ 0 \in Index /\ 0 \in 0 .. Array /\ 0 \in 0 .. Mat + 1
    BY Sizes, Places
  <2>2. 0 * Array + 0 \in 0 .. Mat * Array - 1
    <3>1. 0 \in 0 .. Mat - 1 /\ 0 \in 0 .. Array - 1 /\ Array \in Nat \ {0} /\ Mat \in Nat
      BY Sizes
    <3>2. QED
      BY <3>1, InRow
  <2>3. 0 * Array + 0 = 0 /\ Mat * Array = Mat * Blocks
    BY Sizes
  <2>4. QED
    BY <2>1, <2>2, <2>3 DEF Address
<1>2. Junk \in Entry /\ JunkWord \in Word
  BY EntryAt
<1>3. MMTypes
  <2>1. acc = [i \in Lane |-> [j \in Lane |-> <<>>]] /\ emerging = {}
    BY Copies DEF Init, MM!Init
  <2>2. acc \in [Lane -> [Lane -> Seq(Entry \X Entry)]]
    BY <2>1
  <2>3. QED
    BY <1>1, <2>1, <2>2 DEF Init, MM!Init, MMTypes
<1>4. SFTypes
  <2>1. SF!Chunk = Lane /\ SF!Parity = {0, 1} /\ SF!Junk = Junk
    BY Copies, Sizes DEF SF!Chunk, SF!Parity, Lane, SF!Junk, Junk, SF!At, At
  <2>2. rowBuffer \in [{0, 1} -> [Lane -> Word]] /\ rowMax \in [{0, 1} -> SUBSET Entry]
    BY <1>2, <2>1, Copies DEF Init, SF!Init
  <2>3. expBuffer \in [{0, 1} -> [Lane -> [Lane -> Entry \X SUBSET Entry]]]
    BY <1>2, <2>1, Copies DEF Init, SF!Init
  <2>4. expSum \in [{0, 1} -> Seq(Entry \X SUBSET Entry)]
    BY <2>1 DEF Init, SF!Init
  <2>5. QED
    BY <1>1, <1>2, <2>2, <2>3, <2>4, Copies DEF Init, SF!Init, SFTypes
<1>5. TRTypes
  BY <1>1, <1>2, Copies DEF Init, TR!Init, TRTypes
<1>6. RelayTypes
  BY <1>1 DEF Init, RelayTypes
<1>7. MemoryTypes
  BY <1>2 DEF Init, MemoryTypes
<1>8. QED
  BY <1>3, <1>4, <1>5, <1>6, <1>7 DEF Types

LEMMA ModeBounds ==
  ASSUME head \in 0 .. Heads - 1
  PROVE  /\ MM!KStart(Mode) \in Index /\ MM!BcStart(Mode) \in Lane
         /\ ~Mode.transpose => MM!BcEnd(Mode) = Array - 1
<1>1. PICK v \in Nat \ {0} :
        /\ Array = Heads * v
        /\ Mat \div Heads = Array * v /\ Array <= Array * v
        /\ \A h \in Nat : /\ (h * Mat) \div Heads = h * (Array * v)
                          /\ (h * Blocks) \div Heads = h * v
  BY Sizes
<1>2. /\ Array \in Nat /\ Array >= 2 /\ Heads \in Nat \ {0} /\ head \in Nat
      /\ Mat = Array * Array /\ Mat \in Nat /\ MM!Blocks = Array /\ Blocks = Array
  BY Sizes, Copies
<1>3. head * v + 0 \in 0 .. Heads * v - 1
  <2>1. v \in Nat \ {0} /\ 0 \in 0 .. v - 1
    BY <1>1
  <2>2. QED
    BY <1>2, <2>1, InRow
<1>4. head * (Array * v) + 0 \in 0 .. Heads * (Array * v) - 1
  <2>1. Array * v \in Nat \ {0}
    BY <1>1, <1>2
  <2>2. 0 \in 0 .. Array * v - 1
    BY <1>1, <1>2
  <2>3. QED
    BY <1>2, <2>1, <2>2, InRow
<1>5. Heads * (Array * v) = Array * Array /\ head * v + 0 = head * v
      /\ head * (Array * v) + 0 = head * (Array * v)
  <2>1. Heads * (Array * v) = Array * (Heads * v)
    BY <1>1, <1>2, Reordered
  <2>2. head * v \in Nat /\ head * (Array * v) \in Nat
    BY <1>1, <1>2
  <2>3. QED
    BY <1>1, <2>1, <2>2
<1>6. MM!KStart(Mode) \in Index
  <2>1. MM!KStart(Mode) \in {0, head * (Array * v)}
    <3>1. Mode.head = head
      BY DEF Mode, CT!Mode
    <3>2. QED
      BY <1>1, <1>2, <3>1 DEF MM!KStart
  <2>2. QED
    BY <1>4, <1>5, <2>1, Places
<1>7. MM!BcStart(Mode) \in Lane
  <2>1. MM!BcStart(Mode) \in {0, head * v}
    <3>1. Mode.head = head
      BY DEF Mode, CT!Mode
    <3>2. QED
      BY <1>1, <1>2, <3>1 DEF MM!BcStart
  <2>2. QED
    BY <1>1, <1>3, <1>5, <2>1, Places
<1>8. ~Mode.transpose => MM!BcEnd(Mode) = Array - 1
  BY <1>2 DEF Mode, CT!Mode, MM!BcEnd
<1>9. QED
  BY <1>6, <1>7, <1>8

LEMMA NextBlockInside ==
  ASSUME head \in 0 .. Heads - 1, NEW r \in Lane, NEW c \in Lane
  PROVE  MM!NextBlock(Mode, r, c)[1] \in Lane /\ MM!NextBlock(Mode, r, c)[2] \in Lane
<1>1. /\ Array \in Nat /\ Array >= 2 /\ Lane = 0 .. Array - 1 /\ MM!Blocks = Array
  BY Sizes, Places, Copies
<1>2. (c + 1) % Array \in Lane /\ (r + 1) % Array \in Lane
  BY <1>1
<1>3. (r # Array - 1 => r + 1 \in Lane) /\ (c # Array - 1 => c + 1 \in Lane) /\ 0 \in Lane
  BY <1>1
<1>4. CASE Mode.transpose
  BY <1>1, <1>2, <1>3, <1>4 DEF MM!NextBlock
<1>5. CASE ~Mode.transpose
  BY <1>1, <1>2, <1>3, <1>5, ModeBounds DEF MM!NextBlock
<1>6. QED
  BY <1>4, <1>5

LEMMA MMTypesStep ==
  ASSUME NEW start, NEW x \in Word, NEW y \in Word, head \in 0 .. Heads - 1, MMTypes,
         MM!Clock(start, Mode, x, y)
  PROVE  MMTypes'
<1>1. /\ MM!Read(start, Mode) /\ MM!Control /\ MM!Accumulate(x, y) /\ MM!Emerge /\ MM!Place(Mode)
  BY DEF MM!Clock
<1>2. /\ Array \in Nat /\ Array >= 2 /\ Lane = 0 .. Array - 1 /\ MM!Lane = Lane /\ MM!Blocks = Array
      /\ Mat \in Nat /\ Mat >= 2 /\ Index = 0 .. Mat - 1 /\ 0 \in Lane
  BY Sizes, Places, Copies
<1>3. /\ MM!KStart(Mode) \in Index /\ MM!BcStart(Mode) \in Lane
      /\ MM!NextBlock(Mode, br, bc)[1] \in Lane /\ MM!NextBlock(Mode, br, bc)[2] \in Lane
      /\ MM!NextBlock(Mode, outBr, outBc)[1] \in Lane /\ MM!NextBlock(Mode, outBr, outBc)[2] \in Lane
  BY ModeBounds, NextBlockInside DEF MMTypes
<1>4. mmState' \in {"IDLE", "FEED", "FLUSH", "WAIT_DONE"} /\ br' \in Lane /\ bc' \in Lane
  BY <1>1, <1>2, <1>3 DEF MM!Read, MMTypes
<1>5. kIdx' \in Index
  <2>1. (kIdx + 1) % Mat \in Index
    BY <1>2 DEF MMTypes
  <2>2. QED
    BY <1>1, <1>3, <2>1 DEF MM!Read, MMTypes
<1>6. validIn' \in BOOLEAN /\ accClear' \in BOOLEAN
  BY <1>1 DEF MM!Control
<1>7. acc' \in [Lane -> [Lane -> Seq(Entry \X Entry)]]
  <2>1. ASSUME NEW i \in Lane, NEW j \in Lane
        PROVE  (LET kept == IF accClear THEN <<>> ELSE acc[i][j]
                IN  IF validIn THEN Append(kept, <<x[i], y[j]>>) ELSE kept) \in Seq(Entry \X Entry)
    <3>1. acc[i][j] \in Seq(Entry \X Entry) /\ <<>> \in Seq(Entry \X Entry)
      <4>1. acc \in [Lane -> [Lane -> Seq(Entry \X Entry)]]
        BY DEF MMTypes
      <4>2. acc[i][j] \in Seq(Entry \X Entry)
        BY <4>1
      <4>3. QED
        BY <4>2
    <3>2. <<x[i], y[j]>> \in Entry \X Entry
      BY DEF Word
    <3>3. \A s \in Seq(Entry \X Entry) : Append(s, <<x[i], y[j]>>) \in Seq(Entry \X Entry)
      BY <3>2
    <3>4. QED
      BY <3>1, <3>3
  <2>2. QED
    BY <1>1, <1>2, <2>1 DEF MM!Accumulate
<1>8. emerging' \subseteq [wait : 0 .. 2 * Array - 1, row : Lane, data : Word]
  <2>1. ASSUME NEW e \in emerging, e \notin MM!Emerged
        PROVE  [e EXCEPT !.wait = @ - 1] \in [wait : 0 .. 2 * Array - 1, row : Lane, data : Word]
    <3>1. e \in [wait : 0 .. 2 * Array - 1, row : Lane, data : Word] /\ e.wait # 0
      BY <2>1 DEF MMTypes, MM!Emerged
    <3>2. e.wait - 1 \in 0 .. 2 * Array - 1
      BY <1>2, <3>1
    <3>3. QED
      BY <3>1, <3>2
  <2>2. ASSUME NEW i \in Lane
        PROVE  [wait |-> Array + i, row |-> i, data |-> [j \in MM!Lane |-> MM!Dot(acc[i][j])]]
                 \in [wait : 0 .. 2 * Array - 1, row : Lane, data : Word]
    <3>1. Array + i \in 0 .. 2 * Array - 1
      BY <1>2
    <3>2. \A j \in Lane : MM!Dot(acc[i][j]) \in Entry
      BY DotEntry DEF MMTypes
    <3>3. [j \in MM!Lane |-> MM!Dot(acc[i][j])] \in Word
      BY <1>2, <3>2 DEF Word
    <3>4. QED
      BY <3>1, <3>3
  <2>3. emerging' = {[e EXCEPT !.wait = @ - 1] : e \in emerging \ MM!Emerged}
                    \cup {[wait |-> Array + i, row |-> i, data |-> [j \in MM!Lane |-> MM!Dot(acc[i][j])]] :
                            i \in {l \in Lane : accClear}}
    BY <1>1, <1>2 DEF MM!Emerge
  <2>4. QED
    BY <2>1, <2>2, <2>3
<1>9. outBr' \in Lane /\ outBc' \in Lane
  BY <1>1, <1>2, <1>3 DEF MM!Place, MMTypes
<1>10. QED
  BY <1>4, <1>5, <1>6, <1>7, <1>8, <1>9 DEF MMTypes

LEMMA SFTypesStep ==
  ASSUME NEW start, NEW word \in Word, SFTypes, SF!Clock(start, word)
  PROVE  SFTypes'
<1>1. /\ SF!Sequence(start) /\ SF!FindMax(word) /\ SF!Exponentials /\ SF!Divide
  BY DEF SF!Clock
<1>2. /\ Array \in Nat /\ Array >= 2 /\ Lane = 0 .. Array - 1 /\ Mat \in Nat /\ Mat >= 2
      /\ Index = 0 .. Mat - 1 /\ SF!Blocks = Array /\ SF!Lane = Lane /\ SF!Chunk = Lane
      /\ Address = 0 .. Mat * Array - 1
  BY Sizes, Places, Copies DEF SF!Chunk
<1>3. /\ cycleCnt \in 0 .. Array /\ pipeRow \in 0 .. Mat + 1 /\ sfState \in {"IDLE", "RUNNING", "DONE"}
      /\ prevRow \in Index /\ prevChunk \in Lane
  BY DEF SFTypes
<1>4. ASSUME NEW r \in Nat
      PROVE  r % 2 \in {0, 1}
  OBVIOUS
<1>5. sfState' \in {"IDLE", "RUNNING", "DONE"} /\ cycleCnt' \in 0 .. Array /\ pipeRow' \in 0 .. Mat + 1
  <2>1. CASE sfState = "IDLE"
    BY <1>1, <1>2, <2>1 DEF SF!Sequence
  <2>2. CASE sfState = "RUNNING" /\ cycleCnt # Array
    <3>1. UNCHANGED <<sfState, pipeRow>> /\ cycleCnt' = cycleCnt + 1
      BY <1>1, <1>2, <2>2 DEF SF!Sequence
    <3>2. cycleCnt + 1 \in 0 .. Array
      BY <1>2, <1>3, <2>2
    <3>3. QED
      BY <1>3, <3>1, <3>2
  <2>3. CASE sfState = "RUNNING" /\ cycleCnt = Array
    <3>1. /\ cycleCnt' = 0
          /\ IF pipeRow = Mat + 1 THEN sfState' = "DONE" /\ pipeRow' = pipeRow
             ELSE sfState' = sfState /\ pipeRow' = pipeRow + 1
      BY <1>1, <1>2, <2>3 DEF SF!Sequence
    <3>2. 0 \in 0 .. Array /\ (pipeRow # Mat + 1 => pipeRow + 1 \in 0 .. Mat + 1)
      BY <1>2, <1>3
    <3>3. QED
      BY <1>3, <3>1, <3>2
  <2>4. CASE sfState = "DONE"
    BY <1>1, <1>2, <1>3, <2>4 DEF SF!Sequence
  <2>5. QED
    BY <1>3, <2>1, <2>2, <2>3, <2>4
<1>6. prevEn' \in BOOLEAN /\ prevChunk' \in Lane /\ prevRow' \in Index
  <2>1. cycleCnt % Array \in Lane /\ pipeRow % Mat \in Index
    BY <1>2, <1>3
  <2>2. QED
    BY <1>1, <1>2, <2>1 DEF SF!FindMax, SF!Busy
<1>7. rowBuffer' \in [{0, 1} -> [Lane -> Word]] /\ rowMax' \in [{0, 1} -> SUBSET Entry]
  <2>1. CASE ~prevEn
    BY <1>1, <2>1 DEF SF!FindMax, SFTypes
  <2>2. CASE prevEn
    <3>1. PICK p \in {0, 1} : p = prevRow % 2
      BY <1>2, <1>3, <1>4
    <3>2. /\ rowBuffer' = [rowBuffer EXCEPT ![p] = [@ EXCEPT ![prevChunk] = word]]
          /\ rowMax' = [rowMax EXCEPT ![p] = IF prevChunk = 0 THEN {word[i] : i \in Lane}
                                             ELSE @ \cup {word[i] : i \in Lane}]
      BY <1>1, <1>2, <2>2, <3>1 DEF SF!FindMax
    <3>3. {word[i] : i \in Lane} \subseteq Entry
      BY DEF Word
    <3>4. rowBuffer \in [{0, 1} -> [Lane -> Word]] /\ rowMax \in [{0, 1} -> SUBSET Entry]
      BY DEF SFTypes
    <3>5. rowBuffer' \in [{0, 1} -> [Lane -> Word]]
      BY <3>2, <3>4
    <3>6. rowMax' \in [{0, 1} -> SUBSET Entry]
      BY <3>2, <3>3, <3>4
    <3>7. QED
      BY <3>5, <3>6
  <2>3. QED
    BY <2>1, <2>2
<1>8. /\ expBuffer' \in [{0, 1} -> [Lane -> [Lane -> Entry \X SUBSET Entry]]]
      /\ expSum' \in [{0, 1} -> Seq(Entry \X SUBSET Entry)]
  <2>1. CASE ~SF!Busy(1)
    BY <1>1, <2>1 DEF SF!Exponentials, SFTypes
  <2>2. CASE SF!Busy(1)
    <3>1. pipeRow - 1 \in Nat /\ cycleCnt \in Lane
      BY <1>2, <1>3, <2>2 DEF SF!Busy
    <3>2. PICK p \in {0, 1} : p = SF!RowAt(1) % 2
      BY <1>4, <3>1 DEF SF!RowAt
    <3>3. PICK exps : exps = [i \in Lane |-> <<rowBuffer[p][cycleCnt][i], rowMax[p]>>]
      OBVIOUS
    <3>4. PICK some : some = [n \in 1 .. Array |-> exps[n - 1]]
      OBVIOUS
    <3>5. /\ expBuffer' = [expBuffer EXCEPT ![p] = [@ EXCEPT ![cycleCnt] = exps]]
          /\ expSum' = [expSum EXCEPT ![p] = IF cycleCnt = 0 THEN some ELSE @ \o some]
      BY <1>1, <1>2, <2>2, <3>2, <3>3, <3>4 DEF SF!Exponentials
    <3>6. exps \in [Lane -> Entry \X SUBSET Entry]
      <4>1. rowBuffer[p][cycleCnt] \in Word /\ rowMax[p] \in SUBSET Entry
        BY <3>1 DEF SFTypes
      <4>2. \A i \in Lane : rowBuffer[p][cycleCnt][i] \in Entry
        BY <4>1 DEF Word
      <4>3. QED
        BY <3>3, <4>1, <4>2
    <3>7. some \in Seq(Entry \X SUBSET Entry)
      <4>1. \A n \in 1 .. Array : n - 1 \in Lane
        BY <1>2
      <4>2. \A n \in 1 .. Array : exps[n - 1] \in Entry \X SUBSET Entry
        BY <3>6, <4>1
      <4>3. QED
        BY <1>2, <3>4, <4>2
    <3>8. expBuffer \in [{0, 1} -> [Lane -> [Lane -> Entry \X SUBSET Entry]]]
          /\ expSum \in [{0, 1} -> Seq(Entry \X SUBSET Entry)]
      BY DEF SFTypes
    <3>9. expBuffer' \in [{0, 1} -> [Lane -> [Lane -> Entry \X SUBSET Entry]]]
      BY <3>1, <3>5, <3>6, <3>8
    <3>10. expSum[p] \o some \in Seq(Entry \X SUBSET Entry)
      BY <3>7, <3>8
    <3>11. expSum' \in [{0, 1} -> Seq(Entry \X SUBSET Entry)]
      <4>1. PICK new \in Seq(Entry \X SUBSET Entry) : expSum' = [expSum EXCEPT ![p] = new]
        BY <3>5, <3>7, <3>10
      <4>2. QED
        BY <3>8, <4>1
    <3>12. QED
      BY <3>9, <3>11
  <2>3. QED
    BY <2>1, <2>2
<1>9. writeReq' \in BOOLEAN /\ writeAddr' \in Address /\ writeData' \in Word
  <2>1. CASE ~SF!Busy(2)
    <3>1. writeAddr \in Address /\ writeData \in Word
      BY DEF SFTypes
    <3>2. UNCHANGED <<writeAddr, writeData>> /\ writeReq' = FALSE
      BY <1>1, <2>1 DEF SF!Divide, SF!Busy
    <3>3. QED
      BY <3>1, <3>2
  <2>2. CASE SF!Busy(2)
    <3>1. pipeRow - 2 \in 0 .. Mat - 1 /\ cycleCnt \in 0 .. Array - 1 /\ Array \in Nat \ {0}
      BY <1>2, <1>3, <2>2 DEF SF!Busy
    <3>2. (pipeRow - 2) * Array + cycleCnt \in Address
      BY <1>2, <3>1, InRow
    <3>3. PICK p \in {0, 1} : p = SF!RowAt(2) % 2
      BY <1>4, <3>1 DEF SF!RowAt
    <3>4. \A i \in Lane : expBuffer[p][cycleCnt][i] \in Entry \X SUBSET Entry
      <4>1. expBuffer \in [{0, 1} -> [Lane -> [Lane -> Entry \X SUBSET Entry]]] /\ cycleCnt \in Lane
        BY <1>2, <3>1 DEF SFTypes
      <4>2. QED
        BY <4>1
    <3>5. [i \in Lane |-> SF!Quotient(expBuffer[p][cycleCnt][i], expSum[p])] \in Word
      BY <3>4, QuotientEntry DEF Word
    <3>6. QED
      BY <1>1, <1>2, <2>2, <3>2, <3>3, <3>5 DEF SF!Divide, SF!RowAt
  <2>3. QED
    BY <2>1, <2>2
<1>10. QED
  BY <1>5, <1>6, <1>7, <1>8, <1>9 DEF SFTypes

LEMMA TRTypesStep ==
  ASSUME NEW valid, NEW row \in Lane, NEW data \in Word, NEW place \in [br : Lane, bc : Lane],
         TRTypes, TR!Clock(valid, row, data, place)
  PROVE  TRTypes'
<1>1. Array \in Nat /\ Array >= 2 /\ Lane = 0 .. Array - 1
  BY Sizes, Places
<1>2. sel \in {0, 1} /\ 1 - sel \in {0, 1} /\ readIdx \in 0 .. Array - 1
  BY <1>1 DEF TRTypes
<1>3. buf' \in [{0, 1} -> [Lane -> Word]]
  <2>1. buf \in [{0, 1} -> [Lane -> Word]]
    BY DEF TRTypes
  <2>2. buf' = buf \/ buf' = [buf EXCEPT ![sel] = [@ EXCEPT ![row] = data]]
    BY DEF TR!Clock
  <2>3. QED
    BY <1>2, <2>1, <2>2
<1>4. at' \in [{0, 1} -> [br : Lane, bc : Lane]]
  <2>1. at \in [{0, 1} -> [br : Lane, bc : Lane]]
    BY DEF TRTypes
  <2>2. at' = at \/ at' = [at EXCEPT ![sel] = place]
    BY DEF TR!Clock
  <2>3. QED
    BY <1>2, <2>1, <2>2
<1>5. sel' \in {0, 1}
  BY <1>2 DEF TR!Clock
<1>6. readIdx' \in Lane /\ reading' \in BOOLEAN
  <2>1. (readIdx + 1) % Array \in Lane /\ 0 \in Lane
    BY <1>1, <1>2
  <2>2. readIdx' \in Lane
    BY <1>1, <1>2, <2>1 DEF TR!Clock
  <2>3. reading' \in BOOLEAN
    BY DEF TR!Clock, TR!LastRow, TRTypes
  <2>4. QED
    BY <2>2, <2>3
<1>7. QED
  BY <1>3, <1>4, <1>5, <1>6 DEF TRTypes

(* Where the relay is. *)
LEMMA RelayPlace ==
  ASSUME NEW t \in 0 .. Mat * Blocks - 1
  PROVE  t % Array \in Lane /\ (t \div Array) % Blocks \in Lane /\ t \div (Blocks * Array) \in Lane
<1>1. /\ Array \in Nat /\ Array >= 2 /\ Lane = 0 .. Array - 1 /\ Blocks = Array
      /\ Mat = Array * Array /\ Mat \in Nat \ {0}
  BY Sizes, Places
<1>2. t % Array \in Lane /\ t \div Array \in Nat
  BY <1>1
<1>3. (t \div Array) % Blocks \in Lane
  BY <1>1, <1>2
<1>4. PICK q \in Nat, r \in 0 .. Mat - 1 : t = Mat * q + r /\ q = t \div Mat
  <2>1. Mat \in Nat \ {0} /\ t \in Nat
    BY <1>1
  <2>2. t = Mat * (t \div Mat) + (t % Mat) /\ t \div Mat \in Nat /\ t % Mat \in 0 .. Mat - 1
    BY <2>1, Remainder
  <2>3. QED
    BY <2>2
<1>5. q < Array
  <2>1. SUFFICES ASSUME Array <= q PROVE FALSE
    BY <1>1, <1>4
  <2>2. Mat * Array <= Mat * q
    <3>1. CASE Array = q
      BY <1>1, <3>1
    <3>2. CASE Array < q
      BY <1>1, <2>1, <3>2, MoreMultiples, Multiples
    <3>3. QED
      BY <1>1, <2>1, <3>1, <3>2
  <2>3. Mat * Array \in Nat /\ Mat * q \in Nat
    BY <1>1, Multiples
  <2>4. QED
    BY <1>1, <1>4, <2>2, <2>3
<1>6. t \div (Blocks * Array) \in Lane
  <2>1. t \div (Blocks * Array) = q
    BY <1>1, <1>4
  <2>2. q \in 0 .. Array - 1
    BY <1>1, <1>4, <1>5
  <2>3. QED
    BY <1>1, <2>1, <2>2
<1>7. QED
  BY <1>2, <1>3, <1>6

LEMMA RelayTypesStep ==
  ASSUME RelayTypes, Relay
  PROVE  RelayTypes'
<1>1. Mat * Blocks \in Nat /\ Mat * Blocks >= 1
  <2>1. Mat \in Nat /\ Mat >= 1 /\ Blocks \in Nat /\ Blocks >= 1
    BY Sizes
  <2>2. QED
    BY <2>1
<1>2. trCounter \in 0 .. Mat * Blocks - 1 /\ trRunning \in BOOLEAN /\ trValidIn \in BOOLEAN
  BY DEF RelayTypes
<1>3. PICK z \in Nat : z = Mat * Blocks /\ z >= 1
  BY <1>1
<1>4. (trCounter + 1) % (Mat * Blocks) \in 0 .. Mat * Blocks - 1 /\ 0 \in 0 .. Mat * Blocks - 1
  BY <1>2, <1>3
<1>5. trCounter' \in 0 .. Mat * Blocks - 1 /\ trRunning' \in BOOLEAN /\ trValidIn' \in BOOLEAN
  BY <1>2, <1>4 DEF Relay
<1>6. trDelayed' \in [row : Lane, br : Lane, bc : Lane]
  BY <1>2, RelayPlace DEF Relay, RelayRow
<1>7. QED
  BY <1>5, <1>6 DEF RelayTypes

LEMMA OutTyped ==
  ASSUME TimeInv, MMTypes, MM!ValidOut
  PROVE  MM!OutRow \in Lane /\ MM!OutData \in Word
<1>1. waiting /\ job \in CT!MatMulJob /\ head \in 0 .. Heads - 1
  <2>1. ~NoProduct
    BY DEF NoProduct, MM!ValidOut, MM!Emerged
  <2>2. QED
    BY <2>1 DEF TimeInv, CT!Stage, CT!TypeOK
<1>2. PICK b \in Nat, p \in Nat : Multiplying(b, p)
  BY <1>1 DEF TimeInv
<1>3. Words \in Nat /\ Array <= Words /\ Leaving(b, p)
  BY <1>1, <1>2, Task DEF Multiplying
<1>4. PICK e \in emerging : MM!OutRow = e.row /\ MM!OutData = e.data
  BY <1>3, RowOut DEF OneOut
<1>5. e \in [wait : 0 .. 2 * Array - 1, row : Lane, data : Word]
  BY DEF MMTypes
<1>6. QED
  BY <1>4, <1>5

(* The word that is written is one. *)
LEMMA WriteTyped ==
  ASSUME TimeInv, Types, WriteValid
  PROVE  Write.addr \in Address /\ Write.data \in Word
<1>1. /\ Array \in Nat \ {0} /\ Lane = 0 .. Array - 1 /\ Blocks = Array
      /\ Mat = Array * Array /\ Mat \in Nat /\ Address = 0 .. Mat * Array - 1
  BY Sizes, Places
<1>2. ASSUME NEW x \in Lane, NEW y \in Lane, NEW z \in Lane
      PROVE  (x * Array + y) * Blocks + z \in Address
  <2>1. x * Array + y \in 0 .. Mat - 1
    BY <1>1, InRow
  <2>2. QED
    BY <1>1, <2>1, InRow
<1>3. MMTypes /\ SFTypes /\ TRTypes
  BY DEF Types
<1>4. CASE writeReq
  BY <1>3, <1>4 DEF Write, SFTypes
<1>5. CASE ~writeReq /\ TR!ValidOut
  <2>1. Write.addr = (at[1 - sel].bc * Array + readIdx) * Blocks + at[1 - sel].br
        /\ Write.data = TR!OutData
    BY <1>5 DEF Write, TR!OutPlace, TR!OutCol
  <2>2. at[1 - sel] \in [br : Lane, bc : Lane] /\ readIdx \in Lane
    BY <1>3 DEF TRTypes
  <2>3. TR!OutData \in Word
    <3>1. buf[1 - sel] \in [Lane -> Word] /\ readIdx \in Lane
      BY <1>3 DEF TRTypes
    <3>2. \A i \in Lane : buf[1 - sel][i][readIdx] \in Entry
      <4>1. \A i \in Lane : buf[1 - sel][i] \in [Lane -> Entry]
        BY <3>1 DEF Word
      <4>2. QED
        BY <3>1, <4>1
    <3>3. QED
      BY <3>2, Copies DEF TR!OutData, Word
  <2>4. at[1 - sel].bc \in Lane /\ at[1 - sel].br \in Lane
    BY <2>2
  <2>5. QED
    BY <1>2, <2>1, <2>2, <2>3, <2>4
<1>6. CASE ~writeReq /\ ~TR!ValidOut
  <2>1. MM!ValidOut
    BY <1>6 DEF WriteValid
  <2>2. MM!OutRow \in Lane /\ MM!OutData \in Word
    BY <1>3, <2>1, OutTyped
  <2>3. Write.addr = (outBr * Array + MM!OutRow) * Blocks + outBc /\ Write.data = MM!OutData
    BY <1>6 DEF Write
  <2>4. QED
    BY <1>2, <1>3, <2>2, <2>3 DEF MMTypes
<1>7. QED
  BY <1>4, <1>5, <1>6

LEMMA MatrixTyped ==
  ASSUME NEW m \in Matrix, NEW h \in HeadId
  PROVE  Plain(m, h) \in [Address -> Word] /\ Transposed(m, h) \in [Address -> Word]
<1>1. /\ Array \in Nat \ {0} /\ Lane = 0 .. Array - 1 /\ Blocks = Array
      /\ Mat = Array * Array /\ Mat \in Nat /\ Address = 0 .. Mat * Array - 1 /\ Index = 0 .. Mat - 1
  BY Sizes, Places
<1>2. ASSUME NEW a \in Address, NEW i \in Lane
      PROVE  a \div Blocks \in Index /\ (a % Blocks) * Array + i \in Index
  <2>1. a \in Nat /\ a < Mat * Array
    BY <1>1, Multiples
  <2>2. PICK q \in Nat, r \in 0 .. Array - 1 : a = Array * q + r /\ q = a \div Array /\ r = a % Array
    <3>1. a = Array * (a \div Array) + (a % Array) /\ a \div Array \in Nat /\ a % Array \in 0 .. Array - 1
      BY <1>1, <2>1, Remainder
    <3>2. QED
      BY <3>1
  <2>3. q < Mat
    <3>1. SUFFICES ASSUME Mat <= q PROVE FALSE
      BY <1>1, <2>2
    <3>2. Array * Mat <= Array * q
      <4>1. CASE Mat = q
        BY <1>1, <4>1
      <4>2. CASE Mat < q
        <5>1. Array * Mat + Array <= Array * q /\ Array * Mat \in Nat /\ Array * q \in Nat
          BY <1>1, <4>2, MoreMultiples, Multiples
        <5>2. QED
          BY <1>1, <5>1
      <4>3. QED
        BY <1>1, <3>1, <4>1, <4>2
    <3>3. Mat * Array = Array * Mat /\ Array * Mat \in Nat /\ Array * q \in Nat
      BY <1>1, Multiples
    <3>4. QED
      BY <2>1, <2>2, <3>2, <3>3
  <2>4. r * Array + i \in 0 .. Mat - 1
    BY <1>1, <2>2, InRow
  <2>5. a \div Blocks = q /\ a % Blocks = r
    BY <1>1, <2>2
  <2>6. q \in 0 .. Mat - 1
    BY <1>1, <2>2, <2>3
  <2>7. QED
    BY <1>1, <2>4, <2>5, <2>6
<1>3. ASSUME NEW a \in Address
      PROVE  /\ [i \in Lane |-> At(m, h, a \div Blocks, (a % Blocks) * Array + i)] \in Word
             /\ [i \in Lane |-> At(m, h, (a % Blocks) * Array + i, a \div Blocks)] \in Word
  <2>1. ASSUME NEW i \in Lane
        PROVE  /\ At(m, h, a \div Blocks, (a % Blocks) * Array + i) \in Entry
               /\ At(m, h, (a % Blocks) * Array + i, a \div Blocks) \in Entry
    <3>1. a \div Blocks \in Index /\ (a % Blocks) * Array + i \in Index
      BY <1>2
    <3>2. QED
      BY <3>1, EntryAt
  <2>2. QED
    BY <2>1 DEF Word
<1>4. QED
  BY <1>3 DEF Plain, Transposed

LEMMA AskedInside ==
  ASSUME Types, NEW m \in Memory, Asked(m) # {}
  PROVE  (CHOOSE x \in Asked(m) : TRUE) \in Address
<1>1. /\ Array \in Nat \ {0} /\ Lane = 0 .. Array - 1 /\ Blocks = Array /\ SF!Blocks = Array
      /\ Mat = Array * Array /\ Mat \in Nat /\ Address = 0 .. Mat * Array - 1 /\ Index = 0 .. Mat - 1
  BY Sizes, Places, Copies
<1>2. RelayAddr \in Address
  <2>1. RelayRow.br \in Lane /\ RelayRow.row \in Lane /\ RelayRow.bc \in Lane
    BY RelayPlace DEF RelayRow, Types, RelayTypes
  <2>2. RelayRow.br * Array + RelayRow.row \in 0 .. Mat - 1
    BY <1>1, <2>1, InRow
  <2>3. QED
    BY <1>1, <2>1, <2>2, InRow DEF RelayAddr
<1>3. SF!ReadReq => SF!ReadAddr \in Address
  <2>1. SUFFICES ASSUME SF!ReadReq PROVE SF!ReadAddr \in Address
    OBVIOUS
  <2>2. cycleCnt \in 0 .. Array - 1 /\ pipeRow \in 0 .. Mat - 1
    <3>1. cycleCnt \in 0 .. Array /\ pipeRow \in 0 .. Mat + 1
      BY DEF Types, SFTypes
    <3>2. QED
      BY <1>1, <2>1, <3>1 DEF SF!ReadReq, SF!Busy
  <2>3. QED
    BY <1>1, <2>2, InRow DEF SF!ReadAddr
<1>4. MM!ReadAddrA \in Address /\ MM!ReadAddrB \in Address
  <2>1. kIdx \in 0 .. Mat - 1 /\ br \in 0 .. Array - 1 /\ bc \in 0 .. Array - 1
    BY <1>1 DEF Types, MMTypes
  <2>2. QED
    BY <1>1, <2>1, InRow DEF MM!ReadAddrA, MM!ReadAddrB
<1>5. Asked(m) \subseteq Address
  BY <1>2, <1>3, <1>4 DEF Asked
<1>6. QED
  BY <1>5

LEMMA MemoryTypesStep ==
  ASSUME NEW start, TimeInv, Types, ReadMemories, WriteMemories(start)
  PROVE  MemoryTypes'
<1>1. ram \in [Memory -> [Address -> Word]] /\ rdata \in [Memory -> Word]
  BY DEF Types, MemoryTypes
<1>2. WriteValid => Write.addr \in Address /\ Write.data \in Word
  BY WriteTyped
<1>3. ASSUME NEW m \in Memory
      PROVE  (IF Asked(m) = {} THEN rdata[m]
              ELSE LET a == CHOOSE x \in Asked(m) : TRUE
                   IN  IF WriteValid /\ m \in Write.to /\ Write.addr = a
                       THEN Write.data ELSE ram[m][a]) \in Word
  <2>1. CASE Asked(m) = {}
    BY <1>1, <2>1
  <2>2. CASE Asked(m) # {}
    <3>1. PICK x \in Address : x = CHOOSE y \in Asked(m) : TRUE
      BY <2>2, AskedInside
    <3>2. ram[m][x] \in Word
      BY <1>1
    <3>3. QED
      BY <1>2, <2>2, <3>1, <3>2
  <2>3. QED
    BY <2>1, <2>2
<1>4. rdata' \in [Memory -> Word]
  BY <1>3 DEF ReadMemories
<1>5. Stored \in [Memory -> [Address -> Word]]
  <2>1. ASSUME NEW m \in Memory
        PROVE  (IF WriteValid /\ m \in Write.to THEN [ram[m] EXCEPT ![Write.addr] = Write.data]
                ELSE ram[m]) \in [Address -> Word]
    <3>1. ram[m] \in [Address -> Word]
      BY <1>1
    <3>2. QED
      BY <1>2, <3>1
  <2>2. QED
    BY <2>1 DEF Stored
<1>6. /\ Transposed("X", 0) \in [Address -> Word] /\ Plain("Wq", 0) \in [Address -> Word]
      /\ Plain("Wk", 0) \in [Address -> Word] /\ Plain("Wv", 0) \in [Address -> Word]
      /\ Plain("Wo", 0) \in [Address -> Word]
  <2>1. "X" \in Matrix /\ "Wq" \in Matrix /\ "Wk" \in Matrix /\ "Wv" \in Matrix /\ "Wo" \in Matrix
    BY DEF Matrix
  <2>2. QED
    BY <2>1, MatrixTyped, Places
<1>7. ram' \in [Memory -> [Address -> Word]]
  <2>1. ASSUME NEW f \in [Memory -> [Address -> Word]], NEW m \in Memory, NEW x \in [Address -> Word]
        PROVE  [f EXCEPT ![m] = x] \in [Memory -> [Address -> Word]]
    OBVIOUS
  <2>2. [Stored EXCEPT !["4"] = Plain("Wo", 0)] \in [Memory -> [Address -> Word]]
    BY <1>5, <1>6, <2>1 DEF Memory
  <2>3. [Stored EXCEPT !["X"] = Transposed("X", 0), !["0"] = Plain("Wq", 0),
                       !["1"] = Plain("Wk", 0), !["2"] = Plain("Wv", 0)]
          \in [Memory -> [Address -> Word]]
    <3>1. [Stored EXCEPT !["X"] = Transposed("X", 0)] \in [Memory -> [Address -> Word]]
      BY <1>5, <1>6, <2>1 DEF Memory
    <3>2. [Stored EXCEPT !["X"] = Transposed("X", 0), !["0"] = Plain("Wq", 0)]
            \in [Memory -> [Address -> Word]]
      BY <1>6, <2>1, <3>1 DEF Memory
    <3>3. [Stored EXCEPT !["X"] = Transposed("X", 0), !["0"] = Plain("Wq", 0), !["1"] = Plain("Wk", 0)]
            \in [Memory -> [Address -> Word]]
      BY <1>6, <2>1, <3>2 DEF Memory
    <3>4. QED
      BY <1>6, <2>1, <3>3 DEF Memory
  <2>4. QED
    BY <1>5, <2>2, <2>3 DEF WriteMemories
<1>8. QED
  BY <1>4, <1>7 DEF MemoryTypes

LEMMA TypesStep ==
  ASSUME NEW start, TimeInv, Types, Clock(start)
  PROVE  Types'
<1>1. /\ MM!Clock(CT!StartMatMul, Mode, rdata[CT!SelA], rdata[CT!SelB])
      /\ SF!Clock(CT!StartSoftmax, rdata["1"])
      /\ Relay /\ Transpose /\ ReadMemories /\ WriteMemories(start)
  BY DEF Clock, Mode
<1>2. MMTypes /\ SFTypes /\ TRTypes /\ RelayTypes /\ MemoryTypes
  BY DEF Types
<1>3. CT!SelA \in Memory /\ CT!SelB \in Memory /\ "1" \in Memory /\ "2" \in Memory
  BY DEF CT!SelA, CT!SelB, CT!InA, CT!InB, CT!MatMulJob, Memory
<1>4. rdata[CT!SelA] \in Word /\ rdata[CT!SelB] \in Word /\ rdata["1"] \in Word /\ rdata["2"] \in Word
  BY <1>2, <1>3 DEF MemoryTypes
<1>5. MMTypes'
  <2>1. head \in 0 .. Heads - 1
    BY DEF TimeInv, CT!TypeOK
  <2>2. QED
    BY <1>1, <1>2, <1>4, <2>1, MMTypesStep
<1>6. SFTypes'
  BY <1>1, <1>2, <1>4, SFTypesStep
<1>7. TRTypes'
  <2>1. /\ 0 \in Lane /\ JunkWord \in Word
    BY Places, EntryAt
  <2>2. CASE trValidIn
    <3>1. TR!Clock(TRUE, trDelayed.row, rdata["2"], [br |-> trDelayed.br, bc |-> trDelayed.bc])
      BY <1>1, <2>2 DEF Transpose
    <3>2. trDelayed.row \in Lane /\ [br |-> trDelayed.br, bc |-> trDelayed.bc] \in [br : Lane, bc : Lane]
      BY <1>2 DEF RelayTypes
    <3>3. QED
      BY <1>2, <1>4, <3>1, <3>2, TRTypesStep
  <2>3. CASE ~trValidIn /\ CT!Mode.transpose /\ MM!ValidOut
    <3>1. TR!Clock(TRUE, MM!OutRow, MM!OutData, [br |-> outBr, bc |-> outBc])
      BY <1>1, <2>3 DEF Transpose
    <3>2. MM!OutRow \in Lane /\ MM!OutData \in Word
      BY <1>2, <2>3, OutTyped
    <3>3. [br |-> outBr, bc |-> outBc] \in [br : Lane, bc : Lane]
      BY <1>2 DEF MMTypes
    <3>4. QED
      BY <1>2, <3>1, <3>2, <3>3, TRTypesStep
  <2>4. CASE ~trValidIn /\ ~(CT!Mode.transpose /\ MM!ValidOut)
    <3>1. TR!Clock(FALSE, 0, JunkWord, [br |-> 0, bc |-> 0])
      BY <1>1, <2>4 DEF Transpose
    <3>2. [br |-> 0, bc |-> 0] \in [br : Lane, bc : Lane]
      BY <2>1
    <3>3. QED
      BY <1>2, <2>1, <3>1, <3>2, TRTypesStep
  <2>5. QED
    BY <2>2, <2>3, <2>4
<1>8. RelayTypes'
  BY <1>1, <1>2, RelayTypesStep
<1>9. MemoryTypes'
  BY <1>1, MemoryTypesStep
<1>10. QED
  BY <1>5, <1>6, <1>7, <1>8, <1>9 DEF Types

LEMMA TypesStutter ==
  Types /\ UNCHANGED vars => Types'
<1> SUFFICES ASSUME Types, UNCHANGED vars PROVE Types'
  OBVIOUS
<1>1. UNCHANGED MM!mmVars /\ UNCHANGED SF!sfVars /\ UNCHANGED TR!trVars /\ UNCHANGED relayVars
      /\ UNCHANGED <<ram, rdata>>
  BY DEF vars
<1>2. MMTypes'
  BY <1>1 DEF MM!mmVars, Types, MMTypes
<1>3. SFTypes'
  BY <1>1 DEF SF!sfVars, Types, SFTypes
<1>4. TRTypes'
  BY <1>1 DEF TR!trVars, Types, TRTypes
<1>5. RelayTypes' /\ MemoryTypes'
  BY <1>1 DEF relayVars, Types, RelayTypes, MemoryTypes
<1>6. QED
  BY <1>2, <1>3, <1>4, <1>5 DEF Types

(* Every register of every unit holds a value of its kind, and every       *)
(* memory holds words of entries.                                          *)
THEOREM TypesAlways ==
  Spec => []Types
<1>1. TimeInv /\ Types /\ [Next]_vars => Types'
  BY TypesStep, TypesStutter DEF Next
<1>2. QED
  BY TimeAlways, TypesInit, <1>1, PTL DEF Spec

-----------------------------------------------------------------------------
(* What a stage makes.  A job j of head h makes the blocks 0, 1, 2 and so  *)
(* on of a matrix, down the columns or along the rows, each from the words *)
(* FirstK and following of its operands.                                   *)
Down(j)        == j \in {"Q", "K", "Z", "TRANSPOSE"}
PerHead        == Blocks \div Heads
FirstCol(j, h) == IF j = "Z" THEN h * PerHead ELSE 0
FirstK(j, h)   == IF j = "E" THEN h * (Mat \div Heads) ELSE 0
WordsOf(j)     == IF j = "E" THEN Mat \div Heads ELSE Mat
BlocksOf(j)    == IF j = "Z" THEN Array * PerHead ELSE Array * Array

Br(j, n)    == IF Down(j) THEN n % Array ELSE n \div Array
Bc(j, h, n) == IF Down(j) THEN FirstCol(j, h) + n \div Array ELSE n % Array

GoalName == [Q |-> "Q", K |-> "K", V |-> "V", E |-> "E", Z |-> "Z", OUT |-> "O",
             SOFTMAX |-> "S", TRANSPOSE |-> "S"]
GoalHead(j, h) == IF j \in {"E", "SOFTMAX", "TRANSPOSE"} THEN h ELSE 0
Goal(j, h) == IF Down(j) THEN Transposed(GoalName[j], GoalHead(j, h))
              ELSE Plain(GoalName[j], GoalHead(j, h))

LEMMA NextDigit ==
  ASSUME NEW n \in Nat
  PROVE  /\ n % Array \in Lane /\ n \div Array \in Nat /\ n = Array * (n \div Array) + (n % Array)
         /\ IF n % Array = Array - 1
            THEN (n + 1) % Array = 0 /\ (n + 1) \div Array = (n \div Array) + 1
            ELSE (n + 1) % Array = (n % Array) + 1 /\ (n + 1) \div Array = n \div Array
<1>1. Array \in Nat \ {0} /\ Lane = 0 .. Array - 1
  BY Sizes, Places
<1>2. PICK q \in Nat, r \in 0 .. Array - 1 : q = n \div Array /\ r = n % Array /\ n = Array * q + r
  <2>1. n = Array * (n \div Array) + (n % Array) /\ n \div Array \in Nat /\ n % Array \in 0 .. Array - 1
    BY <1>1, Remainder
  <2>2. QED
    BY <2>1
<1>3. CASE r = Array - 1
  <2>1. n + 1 = Array * (q + 1) /\ q + 1 \in Nat
    BY <1>1, <1>2, <1>3
  <2>2. (Array * (q + 1)) % Array = 0 /\ (Array * (q + 1)) \div Array = q + 1
    <3>1. PICK q1 \in Nat : q1 = q + 1
      BY <2>1
    <3>2. QED
      BY <1>1, <3>1, Division
  <2>3. QED
    BY <1>1, <1>2, <1>3, <2>1, <2>2
<1>4. CASE r # Array - 1
  <2>1. n + 1 = Array * q + (r + 1) /\ r + 1 \in 0 .. Array - 1
    BY <1>1, <1>2, <1>4
  <2>2. PICK r1 \in 0 .. Array - 1 : r1 = r + 1
    BY <2>1
  <2>3. (Array * q + r1) % Array = r1 /\ (Array * q + r1) \div Array = q
    BY <1>1, <2>2, Division
  <2>4. QED
    BY <1>1, <1>2, <1>4, <2>1, <2>2, <2>3
<1>5. QED
  BY <1>3, <1>4

LEMMA Digits ==
  ASSUME NEW q \in Nat, NEW r \in Lane
  PROVE  /\ q * Array + r \in Nat /\ (q * Array + r) \div Array = q /\ (q * Array + r) % Array = r
         /\ q * Array + r = Array * q + r
<1>1. Array \in Nat \ {0} /\ r \in 0 .. Array - 1
  BY Sizes, Places
<1>2. (Array * q + r) \div Array = q /\ (Array * q + r) % Array = r
  BY <1>1, Division
<1>3. q * Array = Array * q /\ Array * q \in Nat
  BY <1>1, Multiples
<1>4. QED
  BY <1>1, <1>2, <1>3

LEMMA Below ==
  ASSUME NEW m \in Nat, NEW n \in Nat, n < Array * m
  PROVE  n \div Array < m
<1>1. Array \in Nat \ {0}
  BY Sizes
<1>2. PICK q \in Nat, r \in 0 .. Array - 1 : q = n \div Array /\ n = Array * q + r
  <2>1. n = Array * (n \div Array) + (n % Array) /\ n \div Array \in Nat /\ n % Array \in 0 .. Array - 1
    BY <1>1, Remainder
  <2>2. QED
    BY <2>1
<1>3. CASE m <= q
  <2>1. Array * m <= Array * q
    <3>1. CASE m = q
      BY <1>1, <3>1
    <3>2. CASE m < q
      <4>1. Array * m + Array <= Array * q /\ Array * m \in Nat /\ Array * q \in Nat
        BY <1>1, <3>2, MoreMultiples, Multiples
      <4>2. QED
        BY <1>1, <4>1
    <3>3. QED
      BY <1>3, <3>1, <3>2
  <2>2. Array * m \in Nat /\ Array * q \in Nat
    BY <1>1, Multiples
  <2>3. QED
    BY <1>2, <2>1, <2>2
<1>4. QED
  BY <1>2, <1>3

LEMMA Shares ==
  /\ PerHead \in Nat \ {0} /\ Array = Heads * PerHead
  /\ Mat \div Heads = Array * PerHead /\ (Mat * Array) \div Heads = Array * (Array * PerHead)
  /\ \A h \in Nat : /\ (h * Mat) \div Heads = h * (Array * PerHead)
                    /\ (h * Blocks) \div Heads = h * PerHead
BY Sizes DEF PerHead

LEMMA HeadShare ==
  ASSUME NEW h \in HeadId
  PROVE  /\ h * PerHead \in Nat /\ h * PerHead + PerHead <= Array
         /\ h * (Array * PerHead) = Array * (h * PerHead)
<1>1. h \in Nat /\ h < Heads /\ Heads \in Nat /\ PerHead \in Nat /\ Array = Heads * PerHead /\ Array \in Nat
  BY Shares, Sizes DEF HeadId
<1>2. PerHead * h + PerHead <= PerHead * Heads
  BY <1>1, MoreMultiples
<1>3. PerHead * h = h * PerHead /\ PerHead * Heads = Heads * PerHead /\ h * PerHead \in Nat
  BY <1>1, Multiples
<1>4. QED
  BY <1>1, <1>2, <1>3, Reordered

(* The head of a column is that of its block. *)
LEMMA HeadOfColumn ==
  ASSUME NEW h \in Nat, NEW u \in 0 .. PerHead - 1, NEW w \in Lane
  PROVE  HeadOf((h * PerHead + u) * Array + w) = h
<1>1. /\ Array \in Nat \ {0} /\ PerHead \in Nat \ {0} /\ Mat \div Heads = Array * PerHead
      /\ w \in 0 .. Array - 1
  BY Shares, Sizes, Places
<1>2. PICK x \in Nat : x = Array * PerHead /\ x # 0
  BY <1>1
<1>3. u * Array + w \in 0 .. x - 1
  <2>1. u * Array + w \in 0 .. PerHead * Array - 1
    BY <1>1, InRow
  <2>2. QED
    BY <1>1, <1>2, <2>1, Multiples
<1>4. (h * PerHead + u) * Array + w = x * h + (u * Array + w)
  <2>1. PICK g \in Nat : g = h * PerHead
    BY <1>1
  <2>2. (g + u) * Array = g * Array + u * Array
    BY <1>1, <2>1
  <2>3. g * Array = x * h
    <3>1. (h * PerHead) * Array = h * (PerHead * Array) /\ PerHead * Array = Array * PerHead
      BY <1>1, Reordered, Multiples
    <3>2. h * x = x * h
      BY <1>2, Multiples
    <3>3. QED
      BY <1>2, <2>1, <3>1, <3>2
  <2>4. g * Array \in Nat /\ u * Array \in Nat
    BY <1>1, <2>1
  <2>5. QED
    BY <1>1, <2>1, <2>2, <2>3, <2>4
<1>5. PICK y \in 0 .. x - 1 : y = u * Array + w
  BY <1>3
<1>6. (x * h + y) \div x = h
  BY <1>2, <1>5, Division
<1>7. QED
  BY <1>1, <1>2, <1>4, <1>5, <1>6 DEF HeadOf

LEMMA BlockInside ==
  ASSUME NEW j \in CT!Stage, NEW h \in HeadId, NEW n \in 0 .. BlocksOf(j) - 1
  PROVE  /\ Br(j, n) \in Lane /\ Bc(j, h, n) \in Lane
         /\ j = "Z" => \A l \in Lane : HeadOf(Bc(j, h, n) * Array + l) = h
<1>1. /\ Array \in Nat \ {0} /\ Array >= 2 /\ Lane = 0 .. Array - 1 /\ PerHead \in Nat \ {0}
      /\ h \in Nat /\ n \in Nat
  <2>1. Array * Array \in Nat /\ Array * PerHead \in Nat
    BY Sizes, Shares
  <2>2. BlocksOf(j) \in Nat
    BY <2>1 DEF BlocksOf
  <2>3. QED
    BY <2>2, Sizes, Places, Shares DEF HeadId
<1>2. n % Array \in Lane /\ n \div Array \in Nat
  BY <1>1, NextDigit
<1>3. j # "Z" => n \div Array \in Lane
  <2>1. SUFFICES ASSUME j # "Z" PROVE n \div Array \in Lane
    OBVIOUS
  <2>2. n < Array * Array
    BY <1>1, <2>1 DEF BlocksOf
  <2>3. n \div Array < Array
    BY <1>1, <2>2, Below
  <2>4. QED
    BY <1>1, <1>2, <2>3
<1>4. j = "Z" => n \div Array \in 0 .. PerHead - 1
  <2>1. SUFFICES ASSUME j = "Z" PROVE n \div Array \in 0 .. PerHead - 1
    OBVIOUS
  <2>2. n < Array * PerHead
    <3>1. Array * PerHead \in Nat
      BY <1>1
    <3>2. n \in 0 .. Array * PerHead - 1
      BY <2>1 DEF BlocksOf
    <3>3. QED
      BY <3>1, <3>2
  <2>3. n \div Array < PerHead
    BY <1>1, <2>2, Below
  <2>4. QED
    BY <1>1, <1>2, <2>3
<1>5. Br(j, n) \in Lane
  BY <1>2, <1>3 DEF Br, Down
<1>6. Bc(j, h, n) \in Lane
  <2>1. CASE j = "Z"
    <3>1. PICK u \in 0 .. PerHead - 1 : u = n \div Array
      BY <1>4, <2>1
    <3>2. h * PerHead + u \in 0 .. Array - 1
      <4>1. h * PerHead \in Nat /\ h * PerHead + PerHead <= Array
        BY HeadShare
      <4>2. QED
        BY <1>1, <3>1, <4>1
    <3>3. QED
      BY <1>1, <2>1, <3>1, <3>2 DEF Bc, Down, FirstCol
  <2>2. CASE j # "Z"
    <3>1. PICK u \in Lane : u = n \div Array
      BY <1>3, <2>2
    <3>2. FirstCol(j, h) + u = u
      BY <1>1, <2>2, <3>1 DEF FirstCol
    <3>3. QED
      BY <1>2, <3>1, <3>2 DEF Bc
  <2>3. QED
    BY <2>1, <2>2
<1>7. ASSUME j = "Z", NEW l \in Lane
      PROVE  HeadOf(Bc(j, h, n) * Array + l) = h
  <2>1. PICK u \in 0 .. PerHead - 1 : u = n \div Array
    BY <1>4, <1>7
  <2>2. Bc(j, h, n) = h * PerHead + u
    BY <1>7, <2>1 DEF Bc, Down, FirstCol
  <2>3. HeadOf((h * PerHead + u) * Array + l) = h
    BY <1>1, <1>7, <2>1, HeadOfColumn
  <2>4. QED
    BY <2>2, <2>3
<1>8. QED
  BY <1>5, <1>6, <1>7

(* The multiplier goes through just these words and blocks. *)
LEMMA TaskOf ==
  ASSUME job \in CT!MatMulJob, head \in HeadId
  PROVE  /\ Mode.transpose <=> Down(job)
         /\ MM!KStart(Mode) = FirstK(job, head) /\ Words = WordsOf(job) /\ Total = BlocksOf(job)
         /\ MM!BcStart(Mode) = FirstCol(job, head)
         /\ ~Down(job) => MM!BcEnd(Mode) = Array - 1
<1>1. /\ Array \in Nat /\ Array >= 2 /\ Heads \in Nat \ {0} /\ head \in Nat /\ PerHead \in Nat \ {0}
      /\ Mat = Array * Array /\ Mat \in Nat /\ MM!Blocks = Array /\ Blocks = Array
  BY Sizes, Copies, Shares DEF HeadId
<1>2. /\ Mat \div Heads = Array * PerHead /\ Blocks \div Heads = PerHead
      /\ (head * Mat) \div Heads = head * (Array * PerHead)
      /\ (head * Blocks) \div Heads = head * PerHead
  BY <1>1, Shares DEF PerHead
<1>3. Mode = [transpose |-> job \in {"Q", "K", "Z"}, multiHead |-> job \in {"E", "Z"},
              calcZ |-> job = "Z", head |-> head]
  BY DEF Mode, CT!Mode
<1>4. Mode.transpose <=> Down(job)
  BY <1>3 DEF Down, CT!MatMulJob
<1>5. MM!PerHeadK(Mode) <=> job = "E"
  BY <1>3 DEF MM!PerHeadK
<1>6. MM!KStart(Mode) = FirstK(job, head)
  BY <1>2, <1>3, <1>5 DEF MM!KStart, FirstK
<1>7. MM!KEnd(Mode) = IF job = "E" THEN FirstK(job, head) + (Mat \div Heads) - 1 ELSE Mat - 1
  BY <1>5, <1>6 DEF MM!KEnd
<1>8. Words = WordsOf(job)
  <2>1. CASE job = "E"
    <3>1. PICK k \in Nat, w \in Nat : k = FirstK(job, head) /\ w = Mat \div Heads
      <4>1. Array * PerHead \in Nat
        BY <1>1
      <4>2. QED
        BY <1>1, <1>2, <2>1, <4>1 DEF FirstK
    <3>2. QED
      BY <1>6, <1>7, <2>1, <3>1 DEF Words, WordsOf
  <2>2. CASE job # "E"
    BY <1>1, <1>6, <1>7, <2>2 DEF Words, WordsOf, FirstK
  <2>3. QED
    BY <2>1, <2>2
<1>9. MM!BcStart(Mode) = FirstCol(job, head)
  BY <1>1, <1>2, <1>3 DEF MM!BcStart, FirstCol
<1>10. MM!BcEnd(Mode) = IF job = "Z" THEN FirstCol(job, head) + PerHead - 1 ELSE Array - 1
  BY <1>1, <1>2, <1>3, <1>9 DEF MM!BcEnd
<1>11. Total = BlocksOf(job)
  <2>1. CASE job = "Z"
    <3>1. PICK c \in Nat : c = FirstCol(job, head)
      BY <1>1, <2>1 DEF FirstCol
    <3>2. (c + PerHead - 1) - c + 1 = PerHead
      BY <1>1, <3>1
    <3>3. QED
      BY <1>1, <1>9, <1>10, <2>1, <3>1, <3>2 DEF Total, MM!TotalBlocks, BlocksOf
  <2>2. CASE job # "Z"
    BY <1>1, <1>9, <1>10, <2>2 DEF Total, MM!TotalBlocks, BlocksOf, FirstCol
  <2>3. QED
    BY <2>1, <2>2
<1>12. ~Down(job) => MM!BcEnd(Mode) = Array - 1
  BY <1>10 DEF Down
<1>13. QED
  BY <1>4, <1>6, <1>8, <1>9, <1>11, <1>12

LEMMA FirstBlock ==
  ASSUME NEW j, NEW h \in HeadId
  PROVE  Br(j, 0) = 0 /\ Bc(j, h, 0) = FirstCol(j, h)
<1>1. Array \in Nat \ {0} /\ FirstCol(j, h) \in Nat
  <2>1. h * PerHead \in Nat
    BY HeadShare
  <2>2. QED
    BY <2>1, Sizes DEF FirstCol
<1>2. 0 % Array = 0 /\ 0 \div Array = 0
  BY <1>1
<1>3. ~Down(j) => FirstCol(j, h) = 0
  BY DEF Down, FirstCol
<1>4. QED
  BY <1>1, <1>2, <1>3 DEF Br, Bc

LEMMA NextBlockIs ==
  ASSUME job \in CT!MatMulJob, head \in HeadId, NEW n \in Nat, n + 1 < Total
  PROVE  /\ MM!NextBlock(Mode, Br(job, n), Bc(job, head, n))[1] = Br(job, n + 1)
         /\ MM!NextBlock(Mode, Br(job, n), Bc(job, head, n))[2] = Bc(job, head, n + 1)
<1>1. /\ Array \in Nat /\ Array >= 2 /\ Lane = 0 .. Array - 1 /\ MM!Blocks = Array
  BY Sizes, Places, Copies
<1>2. /\ Mode.transpose <=> Down(job)
      /\ MM!BcStart(Mode) = FirstCol(job, head) /\ Total = BlocksOf(job)
      /\ ~Down(job) => MM!BcEnd(Mode) = Array - 1
  BY TaskOf
<1>3. /\ n % Array \in 0 .. Array - 1 /\ n \div Array \in Nat
      /\ IF n % Array = Array - 1
         THEN (n + 1) % Array = 0 /\ (n + 1) \div Array = (n \div Array) + 1
         ELSE (n + 1) % Array = (n % Array) + 1 /\ (n + 1) \div Array = n \div Array
  BY <1>1, NextDigit
<1>4. PICK q \in Nat, r \in 0 .. Array - 1 : q = n \div Array /\ r = n % Array
  BY <1>3
<1>5. Br(job, n + 1) \in Lane /\ Bc(job, head, n + 1) \in Lane
  <2>1. job \in CT!Stage
    BY DEF CT!Stage
  <2>2. n + 1 \in 0 .. BlocksOf(job) - 1
    <3>1. Total \in Nat
      BY Task DEF HeadId
    <3>2. QED
      BY <1>2, <3>1
  <2>3. QED
    BY <2>1, <2>2, BlockInside
<1>6. CASE Down(job)
  <2>1. PICK c \in Nat : c = FirstCol(job, head)
    <3>1. head * PerHead \in Nat
      BY HeadShare
    <3>2. QED
      BY <3>1 DEF FirstCol
  <2>2. Br(job, n) = r /\ Bc(job, head, n) = c + q
        /\ Br(job, n + 1) = (n + 1) % Array /\ Bc(job, head, n + 1) = c + ((n + 1) \div Array)
    BY <1>4, <1>6, <2>1 DEF Br, Bc
  <2>3. CASE r = Array - 1
    <3>1. Br(job, n + 1) = 0 /\ Bc(job, head, n + 1) = c + q + 1
      BY <1>3, <1>4, <2>1, <2>2, <2>3
    <3>2. (c + q + 1) % Array = c + q + 1
      <4>1. PICK x \in 0 .. Array - 1 : x = c + q + 1
        BY <1>1, <1>5, <3>1
      <4>2. x % Array = x
        BY <1>1, <4>1
      <4>3. QED
        BY <4>1, <4>2
    <3>3. MM!NextBlock(Mode, r, c + q) = <<0, (c + q + 1) % Array>>
      BY <1>1, <1>2, <1>6, <2>3 DEF MM!NextBlock
    <3>4. QED
      BY <2>2, <3>1, <3>2, <3>3
  <2>4. CASE r # Array - 1
    <3>1. Br(job, n + 1) = r + 1 /\ Bc(job, head, n + 1) = c + q
      BY <1>3, <1>4, <2>1, <2>2, <2>4
    <3>2. MM!NextBlock(Mode, r, c + q) = <<r + 1, c + q>>
      BY <1>1, <1>2, <1>6, <2>4 DEF MM!NextBlock
    <3>3. QED
      BY <2>2, <3>1, <3>2
  <2>5. QED
    BY <2>3, <2>4
<1>7. CASE ~Down(job)
  <2>1. Br(job, n) = q /\ Bc(job, head, n) = r
        /\ Br(job, n + 1) = (n + 1) \div Array /\ Bc(job, head, n + 1) = (n + 1) % Array
    BY <1>4, <1>7 DEF Br, Bc
  <2>2. FirstCol(job, head) = 0
    BY <1>7 DEF FirstCol, Down
  <2>3. CASE r = Array - 1
    <3>1. Br(job, n + 1) = q + 1 /\ Bc(job, head, n + 1) = 0
      BY <1>3, <1>4, <2>1, <2>3
    <3>2. (q + 1) % Array = q + 1
      BY <1>1, <1>4, <1>5, <3>1
    <3>3. MM!NextBlock(Mode, q, r) = <<(q + 1) % Array, 0>>
      BY <1>1, <1>2, <1>7, <2>2, <2>3 DEF MM!NextBlock
    <3>4. QED
      BY <2>1, <3>1, <3>2, <3>3
  <2>4. CASE r # Array - 1
    <3>1. Br(job, n + 1) = q /\ Bc(job, head, n + 1) = r + 1
      BY <1>3, <1>4, <2>1, <2>4
    <3>2. MM!NextBlock(Mode, q, r) = <<q, r + 1>>
      BY <1>1, <1>2, <1>7, <2>4 DEF MM!NextBlock
    <3>3. QED
      BY <2>1, <3>1, <3>2
  <2>5. QED
    BY <2>3, <2>4
<1>8. QED
  BY <1>6, <1>7

(* Where the words of a block are, in either layout: part b of a row, or   *)
(* of a column.                                                            *)
RowPart(m, h, r, b) == [i \in Lane |-> At(m, h, r, b * Array + i)]
ColPart(m, h, b, c) == [i \in Lane |-> At(m, h, b * Array + i, c)]

LEMMA LayoutAt ==
  ASSUME NEW m, NEW h, NEW x \in Index, NEW y \in Lane
  PROVE  /\ x * Array + y \in Address
         /\ (x * Array + y) \div Blocks = x /\ (x * Array + y) % Blocks = y
         /\ Plain(m, h)[x * Array + y] = RowPart(m, h, x, y)
         /\ Transposed(m, h)[x * Array + y] = ColPart(m, h, y, x)
<1>1. /\ Array \in Nat \ {0} /\ Lane = 0 .. Array - 1 /\ Index = 0 .. Mat - 1 /\ Mat \in Nat
      /\ Address = 0 .. Mat * Array - 1 /\ Blocks = Array
  BY Sizes, Places
<1>2. x * Array + y \in Address
  BY <1>1, InRow
<1>3. (x * Array + y) \div Array = x /\ (x * Array + y) % Array = y
  <2>1. x \in Nat
    BY <1>1
  <2>2. QED
    BY <2>1, Digits
<1>4. QED
  BY <1>1, <1>2, <1>3 DEF Plain, Transposed, RowPart, ColPart

-----------------------------------------------------------------------------
(* The operands of a product, and what its accumulators make of them.      *)
LhsName == [Q |-> "X", K |-> "X", V |-> "X", E |-> "Q", Z |-> "S", OUT |-> "Z"]
RhsName == [Q |-> "Wq", K |-> "Wk", V |-> "Wv", E |-> "K", Z |-> "V", OUT |-> "Wo"]

Lhs(j, h, r, k)  == At(LhsName[j], IF j = "Z" THEN h ELSE 0, r, k)
Rhs(j, k, c)     == IF j = "E" THEN At("K", 0, c, k) ELSE At(RhsName[j], 0, k, c)
Made(j, h, r, c) == At(GoalName[j], GoalHead(j, h), r, c)

LhsWord(j, h, n, k) == [i \in Lane |-> Lhs(j, h, Br(j, n) * Array + i, k)]
RhsWord(j, h, n, k) == [i \in Lane |-> Rhs(j, k, Bc(j, h, n) * Array + i)]

(* The first m pairs of the accumulator in row i and column l.             *)
Pairs(j, h, n, i, l, m) ==
  [q \in 1 .. m |-> <<LhsWord(j, h, n, FirstK(j, h) + q - 1)[i],
                      RhsWord(j, h, n, FirstK(j, h) + q - 1)[l]>>]

(* Row i of block n. *)
RowMade(j, h, n, i) ==
  [l \in Lane |-> Made(j, h, Br(j, n) * Array + i, Bc(j, h, n) * Array + l)]

LEMMA Counted ==
  ASSUME NEW n \in Nat, NEW f, f = [x \in 1 .. n |-> f[x]],
         \A x, y \in 1 .. n : f[x] = f[y] => x = y
  PROVE  Cardinality({f[x] : x \in 1 .. n}) = n
<1> DEFINE S == 1 .. n
           T == {f[x] : x \in S}
<1>1. f \in [S -> T]
  OBVIOUS
<1>2. f \in Surjection(S, T) /\ f \in Injection(S, T)
  BY <1>1 DEF Surjection, Injection, IsInjective
<1>3. IsFiniteSet(S) /\ Cardinality(S) = n
  <2>1. 1 \in Int /\ n \in Int
    OBVIOUS
  <2>2. IsFiniteSet(1 .. n) /\ Cardinality(1 .. n) = IF 1 > n THEN 0 ELSE n - 1 + 1
    BY <2>1, FS_Interval
  <2>3. (IF 1 > n THEN 0 ELSE n - 1 + 1) = n
    OBVIOUS
  <2>4. QED
    BY <2>2, <2>3
<1> HIDE DEF S, T
<1>4. Cardinality(T) = Cardinality(S)
  BY <1>2, <1>3, FS_Surjection
<1>5. QED
  BY <1>3, <1>4 DEF S, T

(* The columns of a head are together. *)
LEMMA ColumnsOf ==
  ASSUME NEW h \in HeadId
  PROVE  /\ Mat \div Heads \in Nat /\ Mat \div Heads >= 1 /\ h * (Mat \div Heads) \in Nat
         /\ h * (Mat \div Heads) + (Mat \div Heads) <= Mat
         /\ Columns(h) = h * (Mat \div Heads) .. h * (Mat \div Heads) + (Mat \div Heads) - 1
<1>1. /\ Array \in Nat \ {0} /\ PerHead \in Nat \ {0} /\ Mat \div Heads = Array * PerHead
      /\ h \in Nat /\ h < Heads /\ Heads \in Nat /\ Mat \in Nat /\ Index = 0 .. Mat - 1
  BY Shares, Sizes DEF HeadId, Index
<1>2. PICK w \in Nat : w = Mat \div Heads /\ w # 0
  BY <1>1
<1>3. Mat = w * Heads
  <2>1. Array * Array = Array * (Heads * PerHead) /\ Array * (Heads * PerHead) = Heads * (Array * PerHead)
    BY <1>1, Shares, Reordered
  <2>2. Mat = Heads * w
    BY <1>1, <1>2, <2>1, Sizes
  <2>3. QED
    BY <1>1, <1>2, <2>2, Multiples
<1>4. w * h + w <= w * Heads /\ w * h = h * w /\ h * w \in Nat
  BY <1>1, <1>2, MoreMultiples, Multiples
<1>5. ASSUME NEW c \in Nat
      PROVE  (c \div w = h <=> w * h <= c /\ c < w * h + w)
  <2>1. PICK q \in Nat, r \in 0 .. w - 1 : q = c \div w /\ c = w * q + r
    <3>1. w \in Nat \ {0}
      BY <1>2
    <3>2. c = w * (c \div w) + (c % w) /\ c \div w \in Nat /\ c % w \in 0 .. w - 1
      BY <3>1, Remainder
    <3>3. QED
      BY <3>2
  <2>2. CASE q < h
    <3>1. w * q + w <= w * h /\ w * q \in Nat /\ w * h \in Nat
      BY <1>1, <1>2, <2>2, MoreMultiples, Multiples
    <3>2. PICK x \in Nat, y \in Nat : x = w * q /\ y = w * h /\ x + w <= y /\ c = x + r
      BY <2>1, <3>1
    <3>3. QED
      BY <1>2, <2>1, <2>2, <3>2
  <2>3. CASE h < q
    <3>1. w * h + w <= w * q /\ w * q \in Nat /\ w * h \in Nat
      BY <1>1, <1>2, <2>3, MoreMultiples, Multiples
    <3>2. PICK x \in Nat, y \in Nat : x = w * q /\ y = w * h /\ y + w <= x /\ c = x + r
      BY <2>1, <3>1
    <3>3. QED
      BY <1>2, <2>1, <2>3, <3>2
  <2>4. CASE q = h
    <3>1. w * q = w * h /\ w * h \in Nat
      BY <1>1, <1>2, <2>4, Multiples
    <3>2. QED
      BY <1>2, <2>1, <2>4, <3>1
  <2>5. QED
    BY <1>1, <2>1, <2>2, <2>3, <2>4
<1>6. ASSUME NEW c
      PROVE  c \in Columns(h) <=> c \in w * h .. w * h + w - 1
  <2>1. c \in Columns(h) <=> c \in Index /\ c \div w = h
    BY <1>2 DEF Columns, HeadOf
  <2>2. PICK g \in Nat : g = w * h /\ g + w <= Mat
    BY <1>3, <1>4
  <2>3. CASE c \in Index
    <3>1. c \in Nat
      BY <1>1, <2>3
    <3>2. c \div w = h <=> g <= c /\ c < g + w
      BY <1>5, <2>2, <3>1
    <3>3. QED
      BY <1>2, <2>1, <2>2, <2>3, <3>1, <3>2
  <2>4. CASE c \notin Index
    BY <1>1, <1>2, <2>1, <2>2, <2>4
  <2>5. QED
    BY <2>3, <2>4
<1>7. Columns(h) = w * h .. w * h + w - 1
  BY <1>6
<1>8. h * w \in Nat /\ h * w + w <= Mat /\ Columns(h) = h * w .. h * w + w - 1
  BY <1>3, <1>4, <1>7
<1>9. w >= 1
  BY <1>2
<1>10. QED
  BY <1>2, <1>8, <1>9

LEMMA WordsRead ==
  ASSUME NEW j \in CT!MatMulJob, NEW h \in HeadId
  PROVE  /\ FirstK(j, h) \in Nat /\ WordsOf(j) \in Nat /\ WordsOf(j) >= 1
         /\ FirstK(j, h) + WordsOf(j) <= Mat
         /\ (IF j = "E" THEN Columns(h) ELSE Index)
              = FirstK(j, h) .. FirstK(j, h) + WordsOf(j) - 1
BY ColumnsOf, Sizes DEF FirstK, WordsOf, Index

LEMMA DotOf ==
  ASSUME NEW pairs, pairs # <<>>, NEW made, made = MM!MadeOf(pairs[1][1], pairs[1][2]),
         made.m \in MM!Product, {pairs[q] : q \in DOMAIN pairs} = MM!Terms(made),
         Cardinality({pairs[q] : q \in DOMAIN pairs}) = Len(pairs)
  PROVE  MM!Dot(pairs) = made
<1>1. Cardinality({pairs[q] : q \in DOMAIN pairs}) = MM!Cardinality({pairs[q] : q \in DOMAIN pairs})
  BY DEF Cardinality, MM!Cardinality
<1>2. QED
  BY <1>1 DEF MM!Dot

LEMMA DotIs ==
  ASSUME NEW j \in CT!MatMulJob, NEW h \in HeadId, NEW n \in 0 .. BlocksOf(j) - 1,
         NEW i \in Lane, NEW l \in Lane
  PROVE  MM!Dot(Pairs(j, h, n, i, l, WordsOf(j)))
           = Made(j, h, Br(j, n) * Array + i, Bc(j, h, n) * Array + l)
<1>1. PICK r \in Index, c \in Index :
        /\ r = Br(j, n) * Array + i /\ c = Bc(j, h, n) * Array + l
        /\ j = "Z" => HeadOf(c) = h
  <2>1. Br(j, n) \in Lane /\ Bc(j, h, n) \in Lane /\ (j = "Z" => HeadOf(Bc(j, h, n) * Array + l) = h)
    BY BlockInside DEF CT!Stage
  <2>2. Array \in Nat \ {0} /\ Lane = 0 .. Array - 1 /\ Index = 0 .. Array * Array - 1
    BY Sizes, Places
  <2>3. Br(j, n) * Array + i \in Index /\ Bc(j, h, n) * Array + l \in Index
    BY <2>1, <2>2, InRow
  <2>4. QED
    BY <2>1, <2>3
<1>2. PICK k0 \in Nat, w \in Nat :
        /\ k0 = FirstK(j, h) /\ w = WordsOf(j) /\ w >= 1 /\ k0 + w <= Mat
        /\ (IF j = "E" THEN Columns(h) ELSE Index) = k0 .. k0 + w - 1
  BY WordsRead
<1> DEFINE pair(k) == <<Lhs(j, h, r, k), Rhs(j, k, c)>>
           pairs   == [q \in 1 .. w |-> pair(k0 + q - 1)]
           taken     == {pairs[q] : q \in DOMAIN pairs}
           made    == Made(j, h, r, c)
<1>3. Pairs(j, h, n, i, l, WordsOf(j)) = pairs
  BY <1>1, <1>2 DEF Pairs, LhsWord, RhsWord
<1>4. /\ pairs # <<>> /\ Len(pairs) = w /\ DOMAIN pairs = 1 .. w
      /\ pairs[1] = <<Lhs(j, h, r, k0), Rhs(j, k0, c)>>
  BY <1>2
<1>5. taken = {pair(k) : k \in k0 .. k0 + w - 1}
  <2>1. \A q \in 1 .. w : k0 + q - 1 \in k0 .. k0 + w - 1 /\ pairs[q] = pair(k0 + q - 1)
    <3>1. \A q \in 1 .. w : k0 + q - 1 \in k0 .. k0 + w - 1
      BY <1>2
    <3> HIDE DEF pair
    <3>2. \A q \in 1 .. w : pairs[q] = pair(k0 + q - 1)
      OBVIOUS
    <3>3. QED
      BY <3>1, <3>2
  <2>2. \A k \in k0 .. k0 + w - 1 : k - k0 + 1 \in 1 .. w /\ k0 + (k - k0 + 1) - 1 = k
    BY <1>2
  <2>3. \A k \in k0 .. k0 + w - 1 : pairs[k - k0 + 1] = pair(k)
    BY <2>1, <2>2
  <2>4. ASSUME NEW q \in 1 .. w
        PROVE  \E k \in k0 .. k0 + w - 1 : pairs[q] = pair(k)
    BY <2>1
  <2>5. ASSUME NEW k \in k0 .. k0 + w - 1
        PROVE  \E q \in 1 .. w : pairs[q] = pair(k)
    BY <2>2, <2>3
  <2> HIDE DEF pairs, pair
  <2>6. taken \subseteq {pair(k) : k \in k0 .. k0 + w - 1}
    BY <1>4, <2>4
  <2>7. {pair(k) : k \in k0 .. k0 + w - 1} \subseteq taken
    BY <1>4, <2>5
  <2>8. QED
    BY <2>6, <2>7
<1>6. Cardinality(taken) = w
  <2>1. \A k1, k2 : pair(k1) = pair(k2) => k1 = k2
    BY DEF Lhs, At
  <2>2. \A x, y \in 1 .. w : pairs[x] = pairs[y] => x = y
    BY <1>2, <2>1
  <2>3. Cardinality({pairs[x] : x \in 1 .. w}) = w
    <3>1. pairs = [x \in 1 .. w |-> pairs[x]]
      OBVIOUS
    <3> HIDE DEF pairs
    <3>2. QED
      BY <1>2, <2>2, <3>1, Counted
  <2>4. QED
    BY <1>4, <2>3
<1>7. MM!MadeOf(Lhs(j, h, r, k0), Rhs(j, k0, c)) = made
  <2>1. CASE j = "E"
    <3>1. HeadOf(k0) = h
      BY <1>2, <2>1 DEF Columns
    <3>2. QED
      BY <2>1, <3>1 DEF MM!MadeOf, Lhs, Rhs, LhsName, Made, GoalName, GoalHead, At, MM!At,
                        MM!HeadOf, HeadOf
  <2>2. CASE j = "Z"
    BY <2>2 DEF MM!MadeOf, Lhs, Rhs, LhsName, RhsName, Made, GoalName, GoalHead, At, MM!At
  <2>3. CASE j \in {"Q", "K", "V", "OUT"}
    <3>1. PICK m \in DOMAIN MM!Left : m = GoalName[j] /\ MM!Left[m] = LhsName[j] /\ MM!Right[m] = RhsName[j]
      BY <2>3 DEF MM!Left, MM!Right, GoalName, LhsName, RhsName
    <3>2. \A x \in DOMAIN MM!Left : MM!Right[x] = RhsName[j] => x = m
      BY <2>3, <3>1 DEF MM!Left, MM!Right, RhsName
    <3>3. PICK a, b : a = Lhs(j, h, r, k0) /\ b = Rhs(j, k0, c)
      OBVIOUS
    <3>4. a.m = LhsName[j] /\ a.r = r /\ b.m = RhsName[j] /\ b.c = c /\ a.m # "Q" /\ a.m # "S"
          /\ made = At(m, 0, r, c)
      BY <2>3, <3>1, <3>3 DEF Lhs, Rhs, Made, GoalHead, LhsName, At
    <3>5. (CHOOSE x \in DOMAIN MM!Left : MM!Left[x] = a.m /\ MM!Right[x] = b.m) = m
      BY <3>1, <3>2, <3>4
    <3>6. MM!MadeOf(a, b) = MM!At(CHOOSE x \in DOMAIN MM!Left : MM!Left[x] = a.m /\ MM!Right[x] = b.m, 0, a.r, b.c)
      BY <3>1, <3>4 DEF MM!MadeOf
    <3>7. QED
      BY <3>3, <3>4, <3>5, <3>6 DEF At, MM!At
  <2>4. QED
    BY <2>1, <2>2, <2>3 DEF CT!MatMulJob
<1>8. made.m \in MM!Product /\ MM!Terms(made) = {pair(k) : k \in k0 .. k0 + w - 1}
  <2>1. CASE j = "E"
    <3>1. made = At("E", h, r, c) /\ \A k : pair(k) = <<At("Q", 0, r, k), At("K", 0, c, k)>>
      BY <2>1 DEF Made, GoalName, GoalHead, Lhs, Rhs, LhsName
    <3>2. MM!Columns(h) = k0 .. k0 + w - 1
      BY <1>2, <2>1, Copies DEF MM!Columns, Columns, MM!HeadOf, HeadOf
    <3>3. QED
      BY <3>1, <3>2 DEF MM!Terms, MM!Product, At, MM!At
  <2>2. CASE j = "Z"
    <3>1. made = At("Z", 0, r, c) /\ \A k : pair(k) = <<At("S", h, r, k), At("V", 0, k, c)>>
      BY <2>2 DEF Made, GoalName, GoalHead, Lhs, Rhs, LhsName, RhsName
    <3>2. MM!HeadOf(c) = h /\ MM!Index = k0 .. k0 + w - 1
      BY <1>1, <1>2, <2>2, Copies DEF MM!HeadOf, HeadOf
    <3>3. QED
      BY <3>1, <3>2 DEF MM!Terms, MM!Product, At, MM!At
  <2>3. CASE j \in {"Q", "K", "V", "OUT"}
    <3>1. PICK m \in DOMAIN MM!Left : m = GoalName[j] /\ MM!Left[m] = LhsName[j] /\ MM!Right[m] = RhsName[j]
                                      /\ m # "E" /\ m # "Z" /\ m \in MM!Product
      BY <2>3 DEF MM!Left, MM!Right, GoalName, LhsName, RhsName, MM!Product
    <3>2. made = At(m, 0, r, c)
          /\ \A k : pair(k) = <<At(MM!Left[m], 0, r, k), At(MM!Right[m], 0, k, c)>>
      BY <2>3, <3>1 DEF Made, GoalHead, Lhs, Rhs
    <3>3. MM!Index = k0 .. k0 + w - 1
      BY <1>2, <2>3, Copies
    <3>4. QED
      BY <3>1, <3>2, <3>3 DEF MM!Terms, At, MM!At
  <2>4. QED
    BY <2>1, <2>2, <2>3 DEF CT!MatMulJob
<1>9. MM!Dot(pairs) = made
  <2>1. pairs[1][1] = Lhs(j, h, r, k0) /\ pairs[1][2] = Rhs(j, k0, c)
    BY <1>4
  <2>2. MM!MadeOf(pairs[1][1], pairs[1][2]) = made
    BY <1>7, <2>1
  <2>3. taken = MM!Terms(made) /\ Cardinality(taken) = Len(pairs)
    BY <1>4, <1>5, <1>6, <1>8
  <2> HIDE DEF pairs, made, pair
  <2>4. QED
    BY <1>4, <1>8, <2>2, <2>3, DotOf
<1>10. QED
  BY <1>1, <1>3, <1>9

-----------------------------------------------------------------------------
(* The row of scores of which a row of the softmax is made. *)
Scores(h, r) == {At("E", h, r, c) : c \in Index}
Summed(h, r, m) == [q \in 1 .. m |-> <<At("E", h, r, q - 1), Scores(h, r)>>]

LEMMA QuotientIs ==
  ASSUME NEW h \in HeadId, NEW r \in Index, NEW c \in Index
  PROVE  SF!Quotient(<<At("E", h, r, c), Scores(h, r)>>, Summed(h, r, Mat)) = At("S", h, r, c)
<1> DEFINE sum == Summed(h, r, Mat)
           row == Scores(h, r)
           exp == <<At("E", h, r, c), row>>
<1>1. Mat \in Nat /\ Index = 0 .. Mat - 1 /\ SF!Index = Index
  BY Sizes, Copies DEF Index
<1>2. /\ DOMAIN sum = 1 .. Mat /\ Len(sum) = Mat
      /\ sum = [q \in 1 .. Mat |-> sum[q]]
      /\ \A q \in 1 .. Mat : sum[q] = <<At("E", h, r, q - 1), row>>
  BY <1>1 DEF Summed
<1>3. SF!RowOf(At("E", h, r, c)) = row
  BY <1>1 DEF SF!RowOf, Scores, SF!At, At
<1>4. {sum[n] : n \in DOMAIN sum} = {<<x, row>> : x \in row}
  <2>1. ASSUME NEW q \in 1 .. Mat
        PROVE  \E x \in row : sum[q] = <<x, row>>
    <3>1. q - 1 \in Index
      BY <1>1
    <3>2. At("E", h, r, q - 1) \in row
      BY <3>1 DEF Scores
    <3>3. QED
      BY <1>2, <3>2
  <2>2. ASSUME NEW x \in row
        PROVE  \E q \in 1 .. Mat : sum[q] = <<x, row>>
    <3>1. PICK y \in Index : x = At("E", h, r, y)
      BY DEF Scores
    <3>2. y + 1 \in 1 .. Mat /\ (y + 1) - 1 = y
      BY <1>1
    <3>3. sum[y + 1] = <<x, row>>
      BY <1>2, <3>1, <3>2
    <3>4. QED
      BY <3>2, <3>3
  <2>3. DOMAIN sum = 1 .. Mat
    BY <1>2
  <2> HIDE DEF sum, row
  <2>4. {sum[n] : n \in DOMAIN sum} \subseteq {<<x, row>> : x \in row}
    BY <2>1, <2>3
  <2>5. {<<x, row>> : x \in row} \subseteq {sum[n] : n \in DOMAIN sum}
    BY <2>2, <2>3
  <2>6. QED
    BY <2>4, <2>5
<1>5. Cardinality({sum[n] : n \in DOMAIN sum}) = Mat
  <2>1. \A x, y \in 1 .. Mat : sum[x] = sum[y] => x = y
    <3>1. \A x, y : <<At("E", h, r, x), row>> = <<At("E", h, r, y), row>> => x = y
      BY DEF At
    <3>2. ASSUME NEW x \in 1 .. Mat, NEW y \in 1 .. Mat, sum[x] = sum[y]
          PROVE  x = y
      <4>1. <<At("E", h, r, x - 1), row>> = <<At("E", h, r, y - 1), row>>
        BY <1>2, <3>2
      <4>2. x - 1 = y - 1
        BY <3>1, <4>1
      <4>3. QED
        BY <1>1, <4>2
    <3>3. QED
      BY <3>2
  <2> HIDE DEF sum
  <2>2. Cardinality({sum[x] : x \in 1 .. Mat}) = Mat
    BY <1>1, <1>2, <2>1, Counted
  <2>3. QED
    BY <1>2, <2>2
<1>6. SF!Cardinality({sum[n] : n \in DOMAIN sum}) = Len(sum)
  <2>1. SF!Cardinality({sum[n] : n \in DOMAIN sum}) = Cardinality({sum[n] : n \in DOMAIN sum})
    BY DEF Cardinality, SF!Cardinality
  <2>2. QED
    BY <1>2, <1>5, <2>1
<1>7. exp[1] = At("E", h, r, c) /\ exp[2] = row
  OBVIOUS
<1> HIDE DEF sum, row, exp
<1>8. SF!Quotient(exp, sum) = SF!At("S", exp[1].h, exp[1].r, exp[1].c)
  <2>1. exp[1].m = "E"
    BY <1>7 DEF At
  <2>2. exp[2] = SF!RowOf(exp[1])
    BY <1>3, <1>7
  <2>3. {sum[n] : n \in DOMAIN sum} = {<<x, SF!RowOf(exp[1])>> : x \in SF!RowOf(exp[1])}
    BY <1>4, <2>2, <1>7
  <2>4. QED
    BY <1>6, <2>1, <2>2, <2>3 DEF SF!Quotient
<1>9. QED
  BY <1>7, <1>8 DEF At, SF!At, exp, sum, row

-----------------------------------------------------------------------------
(* The block of which a row is under way that has this age.                *)
BlockOf(a, b, p) == IF b >= 1 /\ p >= 1 /\ a = p - 1 THEN b - 1 ELSE b - 2

LEMMA BlockOfStep ==
  ASSUME NEW b \in Nat, NEW p \in Nat, Words \in Nat, Words >= 1,
         NEW a \in Ages(b, p), a + 1 \in Ages(NextB(b, p), NextP(b, p))
  PROVE  BlockOf(a + 1, NextB(b, p), NextP(b, p)) = BlockOf(a, b, p)
<1>1. CASE EndOfBlock(b, p)
  <2>1. NextB(b, p) = b + 1 /\ NextP(b, p) = 0 /\ p = Words
    BY <1>1 DEF NextB, NextP, EndOfBlock
  <2>2. a + 1 = 0 + Words /\ a = p - 1 /\ b >= 1
    BY <2>1 DEF Ages
  <2>3. QED
    BY <2>1, <2>2 DEF BlockOf
<1>2. CASE ~EndOfBlock(b, p)
  <2>1. NextB(b, p) = b /\ NextP(b, p) = p + 1
    BY <1>2 DEF NextB, NextP
  <2>2. QED
    BY <2>1 DEF Ages, BlockOf
<1>3. QED
  BY <1>1, <1>2

LEMMA BlockOfRange ==
  ASSUME NEW b \in Nat, NEW p \in Nat, Words \in Nat, NEW a \in Ages(b, p)
  PROVE  BlockOf(a, b, p) \in 0 .. b - 1
BY DEF Ages, BlockOf

(* How many are out when one of them comes out. *)
LEMMA OutIs ==
  ASSUME NEW s \in Nat, NEW b \in Nat, NEW p \in Nat, Words \in Nat, Array \in Nat, Array >= 1,
         Array <= Words, s + Array <= 2 * Words + 1, NEW a \in Ages(b, p), Within(s, a)
  PROVE  Out(s, b, p) = Array * BlockOf(a, b, p) + (a - s)
<1>1. b >= 1 /\ a \in Nat /\ s <= a /\ a < s + Array
  BY DEF Ages, Within
<1>2. Array * b \in Nat /\ Array * (b - 1) = Array * b - Array
      /\ Array * (b - 2) = Array * b - Array - Array
  BY Multiples
<1>3. CASE p >= 1 /\ a = p - 1
  <2>1. BlockOf(a, b, p) = b - 1
    BY <1>1, <1>3 DEF BlockOf
  <2>2. Clip(p - 1 - s) = a - s /\ Clip(p + Words - s) = Array
    BY <1>1, <1>3 DEF Clip
  <2>3. CASE b = 1
    <3>1. Array * 0 = 0
      OBVIOUS
    <3>2. QED
      BY <1>1, <2>1, <2>2, <2>3, <3>1 DEF Out
  <2>4. CASE b # 1
    BY <1>1, <1>2, <2>1, <2>2, <2>4 DEF Out
  <2>5. QED
    BY <2>3, <2>4
<1>4. CASE ~(p >= 1 /\ a = p - 1)
  <2>1. b >= 2 /\ a = p + Words
    BY <1>4 DEF Ages
  <2>2. BlockOf(a, b, p) = b - 2
    BY <1>4 DEF BlockOf
  <2>3. Clip(p - 1 - s) = 0 /\ Clip(p + Words - s) = a - s
    BY <1>1, <2>1 DEF Clip
  <2>4. QED
    BY <1>1, <1>2, <2>1, <2>2, <2>3 DEF Out
<1>5. QED
  BY <1>3, <1>4

(* While the columns of a block come out, its rows are in, and no others.  *)
LEMMA RowsIn ==
  ASSUME NEW b \in Nat, NEW p \in Nat, Words \in Nat, Array \in Nat, Array >= 1,
         2 * Array <= Words, NEW a \in Ages(b, p), Within(2 * Array, a)
  PROVE  Out(Array, b, p) = Array * (BlockOf(a, b, p) + 1)
<1>1. b >= 1 /\ a \in Nat /\ 2 * Array <= a /\ a < 3 * Array
  BY DEF Ages, Within
<1>2. Array * b \in Nat /\ Array * (b - 1) = Array * b - Array
      /\ Array * (b - 2) = Array * b - Array - Array
  BY Multiples
<1>3. CASE p >= 1 /\ a = p - 1
  <2>1. BlockOf(a, b, p) + 1 = b
    BY <1>1, <1>3 DEF BlockOf
  <2>2. Clip(p - 1 - Array) = Array /\ Clip(p + Words - Array) = Array
    BY <1>1, <1>3 DEF Clip
  <2>3. CASE b = 1
    <3>1. Array * 1 = Array
      OBVIOUS
    <3>2. QED
      BY <1>1, <2>1, <2>2, <2>3, <3>1 DEF Out
  <2>4. CASE b # 1
    BY <1>1, <1>2, <2>1, <2>2, <2>4 DEF Out
  <2>5. QED
    BY <2>3, <2>4
<1>4. CASE ~(p >= 1 /\ a = p - 1)
  <2>1. b >= 2 /\ a = p + Words
    BY <1>4 DEF Ages
  <2>2. BlockOf(a, b, p) + 1 = b - 1
    BY <1>4 DEF BlockOf
  <2>3. Clip(p - 1 - Array) = 0 /\ Clip(p + Words - Array) = Array
    BY <1>1, <2>1 DEF Clip
  <2>4. QED
    BY <1>1, <1>2, <2>1, <2>2, <2>3 DEF Out
<1>5. QED
  BY <1>3, <1>4

-----------------------------------------------------------------------------
(* The address of the nth word that a stage writes.                        *)
Spot(j, h, n) ==
  IF j = "SOFTMAX" THEN n
  ELSE IF Down(j)
  THEN (Bc(j, h, n \div Array) * Array + (n % Array)) * Array + Br(j, n \div Array)
  ELSE (Br(j, n \div Array) * Array + (n % Array)) * Array + Bc(j, h, n \div Array)

LEMMA SpotIs ==
  ASSUME NEW j \in CT!Stage \ {"SOFTMAX"}, NEW h \in HeadId,
         NEW m \in 0 .. BlocksOf(j) - 1, NEW i \in Lane
  PROVE  /\ Spot(j, h, Array * m + i) =
              IF Down(j) THEN (Bc(j, h, m) * Array + i) * Array + Br(j, m)
              ELSE (Br(j, m) * Array + i) * Array + Bc(j, h, m)
         /\ Spot(j, h, Array * m + i) \in Address
         /\ Goal(j, h)[Spot(j, h, Array * m + i)] =
              IF Down(j) THEN [l \in Lane |-> RowMade(j, h, m, l)[i]] ELSE RowMade(j, h, m, i)
         /\ j = "Z" => HeadOf(Spot(j, h, Array * m + i) \div Blocks) = h
<1>1. /\ Array \in Nat \ {0} /\ Lane = 0 .. Array - 1 /\ Index = 0 .. Mat - 1 /\ Mat \in Nat
      /\ Mat = Array * Array
  BY Sizes, Places
<1>2. m \in Nat
  <2>1. BlocksOf(j) \in Nat
    <3>1. Array * Array \in Nat /\ Array * PerHead \in Nat
      BY Sizes, Shares
    <3>2. QED
      BY <3>1 DEF BlocksOf
  <2>2. QED
    BY <2>1
<1>3. Br(j, m) \in Lane /\ Bc(j, h, m) \in Lane
      /\ (j = "Z" => HeadOf(Bc(j, h, m) * Array + i) = h)
  BY BlockInside
<1>4. (Array * m + i) \div Array = m /\ (Array * m + i) % Array = i
  BY <1>2, Digits
<1>5. Spot(j, h, Array * m + i) =
        IF Down(j) THEN (Bc(j, h, m) * Array + i) * Array + Br(j, m)
        ELSE (Br(j, m) * Array + i) * Array + Bc(j, h, m)
  BY <1>4 DEF Spot
<1>6. Bc(j, h, m) * Array + i \in Index /\ Br(j, m) * Array + i \in Index
  BY <1>1, <1>3, InRow
<1>7. CASE Down(j)
  <2>1. PICK x \in Index, y \in Lane : x = Bc(j, h, m) * Array + i /\ y = Br(j, m)
    BY <1>3, <1>6
  <2>2. Spot(j, h, Array * m + i) = x * Array + y
    BY <1>5, <1>7, <2>1
  <2>3. /\ x * Array + y \in Address /\ (x * Array + y) \div Blocks = x
        /\ Transposed(GoalName[j], GoalHead(j, h))[x * Array + y]
             = ColPart(GoalName[j], GoalHead(j, h), y, x)
    <3>1. x * Array + y \in Address /\ (x * Array + y) \div Blocks = x
      BY LayoutAt
    <3>2. \A g, k : Transposed(g, k)[x * Array + y] = ColPart(g, k, y, x)
      BY LayoutAt
    <3>3. QED
      BY <3>1, <3>2
  <2>4. [l \in Lane |-> RowMade(j, h, m, l)[i]]
          = ColPart(GoalName[j], GoalHead(j, h), y, x)
    BY <2>1 DEF RowMade, Made, ColPart
  <2>5. QED
    BY <1>3, <1>5, <1>7, <2>1, <2>2, <2>3, <2>4 DEF Goal
<1>8. CASE ~Down(j)
  <2>1. PICK x \in Index, y \in Lane : x = Br(j, m) * Array + i /\ y = Bc(j, h, m)
    BY <1>3, <1>6
  <2>2. Spot(j, h, Array * m + i) = x * Array + y
    BY <1>5, <1>8, <2>1
  <2>3. /\ x * Array + y \in Address
        /\ Plain(GoalName[j], GoalHead(j, h))[x * Array + y]
             = RowPart(GoalName[j], GoalHead(j, h), x, y)
    BY <2>1, LayoutAt
  <2>4. RowMade(j, h, m, i)
          = RowPart(GoalName[j], GoalHead(j, h), x, y)
    BY <2>1 DEF RowMade, Made, RowPart
  <2>5. j # "Z"
    BY <1>8 DEF Down
  <2>6. QED
    BY <1>5, <1>8, <2>2, <2>3, <2>4, <2>5 DEF Goal
<1>9. QED
  BY <1>7, <1>8

(* The words that a stage writes are all of the matrix, or of its head. *)
LEMMA SpotOnto ==
  ASSUME NEW j \in CT!Stage, NEW h \in HeadId, NEW a \in Address,
         j = "Z" => HeadOf(a \div Blocks) = h
  PROVE  \E n \in 0 .. Array * BlocksOf(j) - 1 : Spot(j, h, n) = a
<1>1. /\ Array \in Nat \ {0} /\ Lane = 0 .. Array - 1 /\ PerHead \in Nat \ {0}
      /\ Mat = Array * Array /\ Mat \in Nat /\ Blocks = Array
      /\ Address = 0 .. Mat * Array - 1 /\ Mat * Array \in Nat /\ Mat * Array = Array * Mat
  BY Sizes, Places, Shares
<1>2. CASE j = "SOFTMAX"
  <2>1. BlocksOf(j) = Mat /\ Spot(j, h, a) = a
    BY <1>1, <1>2 DEF BlocksOf, Spot
  <2>2. a \in 0 .. Array * BlocksOf(j) - 1
    BY <1>1, <2>1
  <2>3. QED
    BY <2>1, <2>2
<1>3. PICK x \in Nat, y \in Lane : a = Array * x + y /\ x < Mat /\ x = a \div Blocks
  <2>1. a \in Nat /\ a < Array * Mat
    BY <1>1
  <2>2. a \div Array < Mat
    BY <1>1, <2>1, Below
  <2>3. QED
    BY <1>1, <2>1, <2>2, NextDigit
<1>4. PICK u \in Lane, w \in Lane : x = Array * u + w
  <2>1. x \div Array < Array
    BY <1>1, <1>3, Below
  <2>2. x \div Array \in Nat /\ x % Array \in Lane /\ x = Array * (x \div Array) + (x % Array)
    BY <1>3, NextDigit
  <2>3. PICK u \in Nat, w \in Lane : u = x \div Array /\ x = Array * u + w
    BY <2>2
  <2>4. u \in Lane
    BY <1>1, <2>1, <2>3
  <2>5. QED
    BY <2>3, <2>4
<1>5. u * Array = Array * u /\ x * Array = Array * x /\ u \in Nat /\ y \in Nat /\ w \in Nat
  BY <1>1, <1>3, Multiples
<1>6. ASSUME NEW m \in 0 .. BlocksOf(j) - 1, j # "SOFTMAX",
             IF Down(j) THEN Bc(j, h, m) = u /\ Br(j, m) = y ELSE Br(j, m) = u /\ Bc(j, h, m) = y
      PROVE  \E n \in 0 .. Array * BlocksOf(j) - 1 : Spot(j, h, n) = a
  <2>1. Spot(j, h, Array * m + w) =
          IF Down(j) THEN (Bc(j, h, m) * Array + w) * Array + Br(j, m)
          ELSE (Br(j, m) * Array + w) * Array + Bc(j, h, m)
    BY <1>6, SpotIs
  <2>2. Spot(j, h, Array * m + w) = (u * Array + w) * Array + y
    BY <1>6, <2>1
  <2>3. (u * Array + w) * Array + y = a
    BY <1>3, <1>4, <1>5
  <2>4. Array * m + w \in 0 .. Array * BlocksOf(j) - 1
    <3>1. PICK t \in Nat : t = BlocksOf(j)
      BY <1>1 DEF BlocksOf
    <3>2. m \in 0 .. t - 1 /\ w \in 0 .. Array - 1
      BY <1>1, <3>1
    <3>3. m * Array + w \in 0 .. t * Array - 1 /\ m * Array = Array * m /\ t * Array = Array * t
      BY <1>1, <3>1, <3>2, InRow, Multiples
    <3>4. QED
      BY <3>1, <3>3
  <2>5. QED
    BY <2>2, <2>3, <2>4
<1>7. CASE j = "Z"
  <2>1. HeadOf(x) = h /\ h \in Nat
    BY <1>3, <1>7 DEF HeadId
  <2>2. PICK g \in Nat, v \in 0 .. PerHead - 1 : u = PerHead * g + v
    <3>1. u = PerHead * (u \div PerHead) + (u % PerHead) /\ u \div PerHead \in Nat
          /\ u % PerHead \in 0 .. PerHead - 1
      BY <1>1, <1>5, Remainder
    <3>2. QED
      BY <3>1
  <2>3. PerHead * g = g * PerHead
    BY <1>1, Multiples
  <2>4. HeadOf((g * PerHead + v) * Array + w) = g
    BY HeadOfColumn
  <2>5. (g * PerHead + v) * Array + w = x
    BY <1>4, <1>5, <2>2, <2>3
  <2>6. g = h
    BY <2>1, <2>4, <2>5
  <2>7. v * Array + y \in 0 .. PerHead * Array - 1 /\ PerHead * Array = Array * PerHead
    BY <1>1, InRow, Multiples
  <2>8. PICK m \in Nat : m = v * Array + y /\ m \in 0 .. BlocksOf(j) - 1
    BY <1>7, <2>7 DEF BlocksOf
  <2>9. m \div Array = v /\ m % Array = y
    BY <2>8, Digits
  <2>10. Bc(j, h, m) = h * PerHead + v /\ Br(j, m) = y
    BY <1>7, <2>9 DEF Bc, Br, Down, FirstCol
  <2>11. Bc(j, h, m) = u /\ Down(j)
    BY <1>7, <2>2, <2>3, <2>6, <2>10 DEF Down
  <2>12. QED
    BY <1>6, <1>7, <2>8, <2>10, <2>11
<1>8. CASE j # "Z" /\ j # "SOFTMAX"
  <2>1. PICK m \in Nat : m = u * Array + y
    BY <1>1, <1>5
  <2>2. m \in 0 .. BlocksOf(j) - 1
    <3>1. u * Array + y \in 0 .. Array * Array - 1
      BY <1>1, InRow
    <3>2. QED
      BY <1>8, <2>1, <3>1 DEF BlocksOf
  <2>3. m \div Array = u /\ m % Array = y
    BY <1>5, <2>1, Digits
  <2>4. FirstCol(j, h) + u = u
    BY <1>5, <1>8 DEF FirstCol
  <2>5. IF Down(j) THEN Bc(j, h, m) = u /\ Br(j, m) = y ELSE Br(j, m) = u /\ Bc(j, h, m) = y
    BY <2>3, <2>4 DEF Bc, Br
  <2>6. QED
    BY <1>6, <1>8, <2>2, <2>5
<1>9. QED
  BY <1>2, <1>7, <1>8

-----------------------------------------------------------------------------
(* The transposer that was given the first n rows of the blocks of a job.  *)
PlaceFor(j, h, m) == [br |-> Br(j, m), bc |-> Bc(j, h, m)]
FullWith(rows, place, j, h, m) ==
  (\A i \in Lane : rows[i] = RowMade(j, h, m, i)) /\ place = PlaceFor(j, h, m)
FilledWith(s, bufs, places, j, h, n) ==
  /\ \A i \in Lane : i < n % Array => bufs[s][i] = RowMade(j, h, n \div Array, i)
  /\ n % Array # 0 => places[s] = PlaceFor(j, h, n \div Array)
  /\ n >= Array => FullWith(bufs[1 - s], places[1 - s], j, h, (n \div Array) - 1)
Filled(n) == FilledWith(sel, buf, at, job, head, n)

LEMMA FilledFirst ==
  ASSUME NEW s, NEW bufs, NEW places, NEW j, NEW h
  PROVE  FilledWith(s, bufs, places, j, h, 0)
<1>1. Array \in Nat \ {0} /\ Lane = 0 .. Array - 1
  BY Sizes, Places
<1>2. 0 % Array = 0 /\ ~(0 >= Array)
  BY <1>1
<1>3. \A i \in Lane : ~(i < 0)
  BY <1>1
<1>4. QED
  BY <1>2, <1>3 DEF FilledWith

LEMMA FilledStep ==
  ASSUME NEW n \in Nat, NEW row \in Lane, NEW data, NEW place, NEW j, NEW h, TRTypes,
         FilledWith(sel, buf, at, j, h, n), TR!Clock(TRUE, row, data, place),
         row = n % Array, data = RowMade(j, h, n \div Array, row),
         place = PlaceFor(j, h, n \div Array)
  PROVE  FilledWith(sel', buf', at', j, h, n + 1)
<1>1. Array \in Nat /\ Array >= 2 /\ Lane = 0 .. Array - 1
  BY Sizes, Places
<1>2. /\ sel \in {0, 1} /\ 1 - sel \in {0, 1} /\ 1 - sel # sel /\ 1 - (1 - sel) = sel
      /\ buf \in [{0, 1} -> [Lane -> Word]] /\ at \in [{0, 1} -> [br : Lane, bc : Lane]]
  BY DEF TRTypes
<1>3. PICK q \in Nat : /\ q = n \div Array /\ n = Array * q + row
                       /\ IF row = Array - 1
                          THEN (n + 1) % Array = 0 /\ (n + 1) \div Array = q + 1
                          ELSE (n + 1) % Array = row + 1 /\ (n + 1) \div Array = q
  BY NextDigit
<1>4. /\ buf' = [buf EXCEPT ![sel] = [@ EXCEPT ![row] = data]]
      /\ at' = IF row = 0 THEN [at EXCEPT ![sel] = place] ELSE at
      /\ sel' = IF row = Array - 1 THEN 1 - sel ELSE sel
  BY DEF TR!Clock, TR!LastRow
<1>5. /\ buf'[sel][row] = data /\ \A i \in Lane : i # row => buf'[sel][i] = buf[sel][i]
      /\ buf'[1 - sel] = buf[1 - sel] /\ at'[1 - sel] = at[1 - sel]
  <2>1. buf[sel] \in [Lane -> Word]
    BY <1>2
  <2>2. buf'[sel] = [buf[sel] EXCEPT ![row] = data] /\ buf'[1 - sel] = buf[1 - sel]
    BY <1>2, <1>4
  <2>3. at'[1 - sel] = at[1 - sel]
    BY <1>2, <1>4
  <2>4. QED
    BY <2>1, <2>2, <2>3
<1>6. at'[sel] = PlaceFor(j, h, q)
  <2>1. CASE row = 0
    BY <1>2, <1>3, <1>4, <2>1
  <2>2. CASE row # 0
    BY <1>3, <1>4, <2>2 DEF FilledWith
  <2>3. QED
    BY <2>1, <2>2
<1>7. \A i \in Lane : i <= row => buf'[sel][i] = RowMade(j, h, q, i)
  <2>1. ASSUME NEW i \in Lane, i < row
        PROVE  buf'[sel][i] = RowMade(j, h, q, i)
    BY <1>1, <1>3, <1>5, <2>1 DEF FilledWith
  <2>2. buf'[sel][row] = RowMade(j, h, q, row)
    BY <1>3, <1>5
  <2>3. QED
    BY <1>1, <2>1, <2>2
<1>8. CASE row = Array - 1
  <2>1. sel' = 1 - sel /\ 1 - sel' = sel
    BY <1>2, <1>4, <1>8
  <2>2. (n + 1) % Array = 0 /\ (n + 1) \div Array = q + 1 /\ ((n + 1) \div Array) - 1 = q
    BY <1>3, <1>8
  <2>3. \A i \in Lane : ~(i < 0)
    BY <1>1
  <2>4. FullWith(buf'[1 - sel'], at'[1 - sel'], j, h, ((n + 1) \div Array) - 1)
    <3>1. \A i \in Lane : i <= row
      BY <1>1, <1>8
    <3>2. \A i \in Lane : buf'[sel][i] = RowMade(j, h, q, i)
      BY <1>7, <3>1
    <3>3. FullWith(buf'[sel], at'[sel], j, h, q)
      BY <1>6, <3>2 DEF FullWith
    <3>4. QED
      BY <2>1, <2>2, <3>3
  <2>5. QED
    BY <2>2, <2>3, <2>4 DEF FilledWith
<1>9. CASE row # Array - 1
  <2>1. sel' = sel
    BY <1>4, <1>9
  <2>2. (n + 1) % Array = row + 1 /\ (n + 1) \div Array = q
    BY <1>3, <1>9
  <2>3. \A i \in Lane : i < (n + 1) % Array => buf'[sel'][i] = RowMade(j, h, (n + 1) \div Array, i)
    <3>1. \A i \in Lane : i < row + 1 => i <= row
      BY <1>1
    <3>2. QED
      BY <1>7, <2>1, <2>2, <3>1
  <2>4. at'[sel'] = PlaceFor(j, h, (n + 1) \div Array)
    BY <1>6, <2>1, <2>2
  <2>5. n + 1 >= Array => n >= Array
    <3>1. q = 0 => n < Array - 1
      BY <1>1, <1>3, <1>9
    <3>2. q # 0 => n >= Array
      <4>1. q # 0 => Array * q >= Array
        BY <1>1
      <4>2. QED
        BY <1>1, <1>3, <4>1
    <3>3. QED
      BY <1>1, <3>1, <3>2
  <2>6. n >= Array => FullWith(buf[1 - sel], at[1 - sel], j, h, q - 1)
    BY <1>3 DEF FilledWith
  <2>7. n + 1 >= Array => FullWith(buf'[1 - sel'], at'[1 - sel'], j, h, ((n + 1) \div Array) - 1)
    BY <1>5, <2>1, <2>2, <2>5, <2>6
  <2>8. QED
    BY <2>3, <2>4, <2>7 DEF FilledWith
<1>10. QED
  BY <1>8, <1>9

LEMMA FilledRests ==
  ASSUME NEW n, NEW row, NEW data, NEW place, NEW j, NEW h,
         FilledWith(sel, buf, at, j, h, n), TR!Clock(FALSE, row, data, place)
  PROVE  FilledWith(sel', buf', at', j, h, n)
BY DEF TR!Clock

(* What the transposer holds when n rows are in it, n of block m + 1. *)
LEMMA FilledFull ==
  ASSUME NEW s, NEW bufs, NEW places, NEW j, NEW h, NEW m \in Nat, NEW i \in Lane,
         FilledWith(s, bufs, places, j, h, Array * (m + 1) + i)
  PROVE  FullWith(bufs[1 - s], places[1 - s], j, h, m)
<1>1. Array \in Nat \ {0} /\ i \in 0 .. Array - 1
  BY Sizes, Places
<1>2. PICK q \in Nat : q = m + 1 /\ q - 1 = m
  OBVIOUS
<1>3. (Array * q + i) \div Array = q
  BY <1>1, Division
<1>4. Array * q + i >= Array
  <2>1. Array * q >= Array
    BY <1>1, <1>2
  <2>2. QED
    BY <1>1, <2>1
<1>5. QED
  BY <1>2, <1>3, <1>4 DEF FilledWith

-----------------------------------------------------------------------------
(* What the memories hold during a job for it and for the jobs after it.   *)
Dest == [Q |-> "3", K |-> "4", V |-> "0", E |-> "1", SOFTMAX |-> "2",
         TRANSPOSE |-> "1", Z |-> "3", OUT |-> "0"]

HoldsIn(j, h, mem) ==
  /\ j \in {"LAYERNORM", "Q", "K", "V"} => mem["X"] = Transposed("X", 0)
  /\ j \in {"LAYERNORM", "Q"} => mem["0"] = Plain("Wq", 0)
  /\ j \in {"LAYERNORM", "Q", "K"} => mem["1"] = Plain("Wk", 0)
  /\ j \in {"LAYERNORM", "Q", "K", "V"} => mem["2"] = Plain("Wv", 0)
  /\ j \in {"K", "V"} => mem["3"] = Transposed("Q", 0)
  /\ j \in {"V", "E", "SOFTMAX", "TRANSPOSE", "Z"} => mem["4"] = Transposed("K", 0)
  /\ j \in {"E", "SOFTMAX", "TRANSPOSE", "Z"} => mem["0"] = Plain("V", 0)
  /\ j \in {"E", "SOFTMAX", "TRANSPOSE"} => mem["3"] = QueriesLeft(h)
  /\ j = "SOFTMAX" => mem["1"] = Plain("E", h)
  /\ j = "TRANSPOSE" => mem["2"] = Plain("S", h)
  /\ j = "Z" => mem["1"] = Transposed("S", h)
  /\ j = "Z" => \A a \in Address : HeadOf(a \div Blocks) # h => mem["3"][a] = QueriesLeft(h)[a]
  /\ j = "OUT" => mem["3"] = Transposed("Z", 0) /\ mem["4"] = Plain("Wo", 0)
  /\ j = "DONE" => mem["3"] = Transposed("Z", 0) /\ mem["0"] = Plain("O", 0)
  /\ j \notin {"E", "SOFTMAX", "TRANSPOSE", "Z"} => h = 0
Holds == HoldsIn(job, head, ram)

LEMMA Operands ==
  ASSUME Holds, job \in CT!MatMulJob, head \in HeadId,
         NEW n \in 0 .. BlocksOf(job) - 1,
         NEW k \in FirstK(job, head) .. FirstK(job, head) + WordsOf(job) - 1
  PROVE  /\ ram[CT!SelA][k * Array + Br(job, n)] = LhsWord(job, head, n, k)
         /\ ram[CT!SelB][k * Array + Bc(job, head, n)] = RhsWord(job, head, n, k)
<1>1. PICK r \in Lane, c \in Lane : r = Br(job, n) /\ c = Bc(job, head, n)
  BY BlockInside DEF CT!Stage
<1>2. k \in Index /\ (job = "E" => HeadOf(k) = head)
  <2>1. (IF job = "E" THEN Columns(head) ELSE Index)
          = FirstK(job, head) .. FirstK(job, head) + WordsOf(job) - 1
    BY WordsRead
  <2>2. k \in IF job = "E" THEN Columns(head) ELSE Index
    BY <2>1
  <2>3. QED
    BY <2>2 DEF Columns
<1>3. k * Array + r \in Address /\ (k * Array + r) \div Blocks = k
  BY <1>2, LayoutAt
<1>4. ASSUME NEW m, NEW h
      PROVE  /\ Transposed(m, h)[k * Array + r] = ColPart(m, h, r, k)
             /\ Transposed(m, h)[k * Array + c] = ColPart(m, h, c, k)
             /\ Plain(m, h)[k * Array + c] = RowPart(m, h, k, c)
  <2>1. Transposed(m, h)[k * Array + r] = ColPart(m, h, r, k)
    BY <1>2, LayoutAt
  <2>2. Transposed(m, h)[k * Array + c] = ColPart(m, h, c, k)
    BY <1>2, LayoutAt
  <2>3. Plain(m, h)[k * Array + c] = RowPart(m, h, k, c)
    BY <1>2, LayoutAt
  <2>4. QED
    BY <2>1, <2>2, <2>3
<1>5. LhsWord(job, head, n, k) = ColPart(LhsName[job], IF job = "Z" THEN head ELSE 0, r, k)
  BY <1>1 DEF LhsWord, Lhs, ColPart
<1>6. RhsWord(job, head, n, k) = IF job = "E" THEN ColPart("K", 0, c, k) ELSE RowPart(RhsName[job], 0, k, c)
  BY <1>1 DEF RhsWord, Rhs, ColPart, RowPart
<1>7. CASE job = "E"
  <2>1. CT!SelA = "3" /\ CT!SelB = "4" /\ LhsName[job] = "Q"
    BY <1>7 DEF CT!SelA, CT!SelB, CT!InA, CT!InB, CT!MatMulJob, LhsName
  <2>2. ram["3"] = QueriesLeft(head) /\ ram["4"] = Transposed("K", 0)
    BY <1>7 DEF Holds, HoldsIn
  <2>3. QueriesLeft(head)[k * Array + r] = Transposed("Q", 0)[k * Array + r]
    <3>1. ~(HeadOf((k * Array + r) \div Blocks) < head)
      BY <1>2, <1>3, <1>7 DEF HeadId
    <3>2. QED
      BY <1>3, <3>1 DEF QueriesLeft
  <2>4. QED
    BY <1>1, <1>4, <1>5, <1>6, <1>7, <2>1, <2>2, <2>3
<1>8. CASE job = "Z"
  <2>1. CT!SelA = "1" /\ CT!SelB = "0" /\ LhsName[job] = "S" /\ RhsName[job] = "V"
    BY <1>8 DEF CT!SelA, CT!SelB, CT!InA, CT!InB, CT!MatMulJob, LhsName, RhsName
  <2>2. ram["1"] = Transposed("S", head) /\ ram["0"] = Plain("V", 0)
    BY <1>8 DEF Holds, HoldsIn
  <2>3. QED
    BY <1>1, <1>4, <1>5, <1>6, <1>8, <2>1, <2>2
<1>9. CASE job \in {"Q", "K", "V", "OUT"}
  <2>1. ram[CT!SelA] = Transposed(LhsName[job], 0) /\ ram[CT!SelB] = Plain(RhsName[job], 0)
    BY <1>9 DEF CT!SelA, CT!SelB, CT!InA, CT!InB, CT!MatMulJob, LhsName, RhsName, Holds, HoldsIn
  <2>2. QED
    BY <1>1, <1>4, <1>5, <1>6, <1>9, <2>1
<1>10. QED
  BY <1>7, <1>8, <1>9 DEF CT!MatMulJob

-----------------------------------------------------------------------------
(* The data of a product in cycle p of block b.                            *)
AccAt(j, h, b, p, i, l) ==
  IF p = 0 THEN IF b = 0 THEN <<>> ELSE Pairs(j, h, b - 1, i, l, WordsOf(j))
  ELSE IF b < BlocksOf(j) THEN Pairs(j, h, b, i, l, p - 1) ELSE <<>>
Taken(sums, j, h, b, p) ==
  \A i \in Lane : \A l \in Lane : sums[i][l] = AccAt(j, h, b, p, i, l)
Arrived(left, right, j, h, b, p) ==
  /\ left = LhsWord(j, h, b, FirstK(j, h) + p - 1)
  /\ right = RhsWord(j, h, b, FirstK(j, h) + p - 1)

LEMMA PairsNone ==
  ASSUME NEW j, NEW h, NEW n, NEW i, NEW l
  PROVE  Pairs(j, h, n, i, l, 0) = <<>>
BY DEF Pairs

LEMMA PairsGrow ==
  ASSUME NEW j, NEW h, NEW n, NEW i, NEW l, NEW m \in Nat, m # 0
  PROVE  Append(Pairs(j, h, n, i, l, m - 1),
                <<LhsWord(j, h, n, FirstK(j, h) + m - 1)[i], RhsWord(j, h, n, FirstK(j, h) + m - 1)[l]>>)
           = Pairs(j, h, n, i, l, m)
<1> DEFINE pair(q) == <<LhsWord(j, h, n, FirstK(j, h) + q - 1)[i], RhsWord(j, h, n, FirstK(j, h) + q - 1)[l]>>
<1>1. \A x : Pairs(j, h, n, i, l, x) = [q \in 1 .. x |-> pair(q)]
  BY DEF Pairs
<1> HIDE DEF pair
<1>3. Append([q \in 1 .. m - 1 |-> pair(q)], pair(m)) = [q \in 1 .. m |-> pair(q)]
  OBVIOUS
<1>4. QED
  BY <1>1, <1>3 DEF pair

LEMMA AccStep ==
  ASSUME NEW b \in Nat, NEW p \in Nat, NEW x, NEW y, NEW j \in CT!MatMulJob, NEW h,
         job = j, head = h, head \in HeadId, Feeding(b, p), Taken(acc, j, h, b, p),
         validIn => Arrived(x, y, j, h, b, p), MM!Accumulate(x, y)
  PROVE  Taken(acc', j, h, NextB(b, p), NextP(b, p))
<1>1. /\ Words = WordsOf(j) /\ Total = BlocksOf(j) /\ Total \in Nat /\ Total >= 1
      /\ Words \in Nat /\ Words >= 1
  BY TaskOf, Task, WordsRead DEF HeadId
<1>2. /\ b \in 0 .. Total /\ (b < Total => p <= Words)
      /\ accClear <=> b >= 1 /\ p = 0
      /\ validIn <=> b < Total /\ p >= 1
  BY DEF Feeding
<1>3. SUFFICES ASSUME NEW i \in Lane, NEW l \in Lane
               PROVE  acc'[i][l] = AccAt(j, h, NextB(b, p), NextP(b, p), i, l)
  BY DEF Taken
<1>4. acc'[i][l] = IF validIn THEN Append(IF accClear THEN <<>> ELSE acc[i][l], <<x[i], y[l]>>)
                   ELSE IF accClear THEN <<>> ELSE acc[i][l]
  BY Copies DEF MM!Accumulate
<1>5. acc[i][l] = AccAt(j, h, b, p, i, l)
  BY DEF Taken
<1>6. Pairs(j, h, b, i, l, 0) = <<>>
  BY PairsNone
<1>7. CASE p = 0
  <2>1. NextB(b, p) = b /\ NextP(b, p) = 1
    BY <1>1, <1>7 DEF NextB, NextP, EndOfBlock
  <2>2. acc'[i][l] = <<>>
    BY <1>2, <1>4, <1>5, <1>7 DEF AccAt
  <2>3. QED
    BY <1>6, <2>1, <2>2 DEF AccAt
<1>8. CASE p # 0 /\ b = Total
  <2>1. NextB(b, p) = b /\ NextP(b, p) = p + 1
    BY <1>1, <1>8 DEF NextB, NextP, EndOfBlock
  <2>2. acc'[i][l] = <<>>
    BY <1>1, <1>2, <1>4, <1>5, <1>8 DEF AccAt
  <2>3. QED
    BY <1>1, <1>8, <2>1, <2>2 DEF AccAt
<1>9. CASE p # 0 /\ b < Total
  <2>1. acc'[i][l] = Append(Pairs(j, h, b, i, l, p - 1), <<x[i], y[l]>>)
    BY <1>1, <1>2, <1>4, <1>5, <1>9 DEF AccAt
  <2>2. x[i] = LhsWord(j, h, b, FirstK(j, h) + p - 1)[i] /\ y[l] = RhsWord(j, h, b, FirstK(j, h) + p - 1)[l]
    BY <1>2, <1>9 DEF Arrived
  <2>3. acc'[i][l] = Pairs(j, h, b, i, l, p)
    BY <1>9, <2>1, <2>2, PairsGrow
  <2>4. CASE p = Words
    <3>1. NextB(b, p) = b + 1 /\ NextP(b, p) = 0 /\ b + 1 # 0 /\ (b + 1) - 1 = b
      BY <1>9, <2>4 DEF NextB, NextP, EndOfBlock
    <3>2. QED
      BY <1>1, <2>3, <2>4, <3>1 DEF AccAt
  <2>5. CASE p # Words
    <3>1. NextB(b, p) = b /\ NextP(b, p) = p + 1 /\ p + 1 # 0 /\ (p + 1) - 1 = p
      BY <1>9, <2>5 DEF NextB, NextP, EndOfBlock
    <3>2. QED
      BY <1>1, <1>9, <2>3, <3>1 DEF AccAt
  <2>6. QED
    BY <2>4, <2>5
<1>10. QED
  BY <1>1, <1>2, <1>7, <1>8, <1>9

RowsRight(rows, b, p, j, h) ==
  \A e \in rows : \A a \in Ages(b, p) :
    e.wait = Array + e.row - a => e.data = RowMade(j, h, BlockOf(a, b, p), e.row)

LEMMA RowsStep ==
  ASSUME NEW b \in Nat, NEW p \in Nat, NEW nb, NEW np, nb = NextB(b, p), np = NextP(b, p),
         NEW j \in CT!MatMulJob, NEW h \in HeadId, job = j, head = h,
         Feeding(b, p), Leaving(b, p), Taken(acc, j, h, b, p), RowsRight(emerging, b, p, j, h),
         MM!Emerge
  PROVE  RowsRight(emerging', nb, np, j, h)
<1> DEFINE old(e) == [e EXCEPT !.wait = @ - 1]
           new(i) == [wait |-> Array + i, row |-> i, data |-> [l \in Lane |-> MM!Dot(acc[i][l])]]
<1>1. /\ Array \in Nat /\ Array >= 2 /\ Lane = 0 .. Array - 1 /\ MM!Lane = Lane
      /\ Words = WordsOf(j) /\ Total = BlocksOf(j) /\ Words \in Nat /\ Words >= 1 /\ Total \in Nat
      /\ b \in 0 .. Total /\ (b < Total => p <= Words)
      /\ (accClear <=> b >= 1 /\ p = 0)
  BY Sizes, Places, Copies, TaskOf, Task, WordsRead DEF HeadId, Feeding
<1>2. \A a \in Nat : a \in Ages(nb, np) <=>
        \/ a = 0 /\ b >= 1 /\ p = 0
        \/ a >= 1 /\ a - 1 \in Ages(b, p) /\ ~(EndOfBlock(b, p) /\ a - 1 = 2 * Words)
  BY <1>1, AgesGrow
<1>3. emerging' = {old(e) : e \in emerging \ MM!Emerged} \cup {new(i) : i \in {l \in Lane : accClear}}
  BY <1>1 DEF MM!Emerge
<1>4. ASSUME NEW e \in emerging, e.wait # 0, NEW a \in Ages(nb, np),
             old(e).wait = Array + old(e).row - a
      PROVE  old(e).data = RowMade(j, h, BlockOf(a, nb, np), old(e).row)
  <2>1. /\ old(e).wait = e.wait - 1 /\ old(e).row = e.row /\ old(e).data = e.data
        /\ e.row \in Lane /\ e.wait \in Nat
    <3>1. e = [wait |-> e.wait, row |-> e.row, data |-> e.data] /\ e.row \in Lane /\ e.wait \in Nat
      BY DEF Leaving, LeavingIn
    <3>2. QED
      BY <3>1
  <2>2. PICK c \in Ages(b, p) : e.wait = Array + e.row - c
    BY DEF Leaving, LeavingIn
  <2>3. a = c + 1 /\ a \in Nat /\ c \in Nat
    <3>1. a \in Nat /\ c \in Nat
      BY DEF Ages
    <3>2. PICK w \in Nat, r \in Nat : w = e.wait /\ r = e.row
      BY <1>1, <2>1
    <3>3. w - 1 = Array + r - a /\ w = Array + r - c
      BY <1>4, <2>1, <2>2, <3>2
    <3>4. a = c + 1
      <4> HIDE DEF old
      <4>1. Array \in Nat
        BY <1>1
      <4>2. QED
        BY <3>1, <3>3, <4>1
    <3>5. QED
      BY <3>1, <3>4
  <2>4. c + 1 \in Ages(NextB(b, p), NextP(b, p))
    BY <2>3
  <2>5. BlockOf(c + 1, NextB(b, p), NextP(b, p)) = BlockOf(c, b, p)
    BY <1>1, <2>4, BlockOfStep
  <2>6. BlockOf(a, nb, np) = BlockOf(c, b, p)
    BY <2>3, <2>5
  <2>7. e.data = RowMade(j, h, BlockOf(c, b, p), e.row)
    BY <2>2 DEF RowsRight
  <2> HIDE DEF old
  <2>8. QED
    BY <2>1, <2>6, <2>7
<1>5. ASSUME NEW i \in Lane, accClear, NEW a \in Ages(nb, np), new(i).wait = Array + new(i).row - a
      PROVE  new(i).data = RowMade(j, h, BlockOf(a, nb, np), new(i).row)
  <2>1. b >= 1 /\ p = 0 /\ nb = b /\ np = 1
    BY <1>1, <1>5 DEF NextB, NextP, EndOfBlock
  <2>2. a = 0
    <3>1. a \in Nat /\ i \in Nat
      BY <1>1 DEF Ages
    <3>2. Array + i = Array + i - a
      BY <1>5
    <3>3. QED
      BY <1>1, <3>1, <3>2
  <2>3. BlockOf(a, nb, np) = b - 1 /\ b - 1 \in 0 .. BlocksOf(j) - 1
    BY <1>1, <2>1, <2>2 DEF BlockOf
  <2>4. PICK m \in 0 .. BlocksOf(j) - 1 : m = b - 1
    BY <2>3
  <2>5. \A l \in Lane : acc[i][l] = Pairs(j, h, m, i, l, WordsOf(j))
    BY <2>1, <2>4 DEF Taken, AccAt
  <2>6. \A l \in Lane : MM!Dot(acc[i][l]) = Made(j, h, Br(j, m) * Array + i, Bc(j, h, m) * Array + l)
    BY <2>4, <2>5, DotIs
  <2>7. [l \in Lane |-> MM!Dot(acc[i][l])] = RowMade(j, h, m, i)
    BY <2>6 DEF RowMade
  <2>8. QED
    BY <2>3, <2>4, <2>7
<1>6. SUFFICES ASSUME NEW f \in emerging', NEW a \in Ages(nb, np), f.wait = Array + f.row - a
               PROVE  f.data = RowMade(j, h, BlockOf(a, nb, np), f.row)
  BY DEF RowsRight
<1>7. CASE f \in {old(e) : e \in emerging \ MM!Emerged}
  <2>1. PICK e \in emerging : f = old(e) /\ e.wait # 0
    BY <1>7 DEF MM!Emerged
  <2> HIDE DEF old, new
  <2>2. QED
    BY <1>4, <1>6, <2>1
<1>8. CASE f \in {new(i) : i \in {l \in Lane : accClear}}
  <2>1. PICK i \in Lane : f = new(i) /\ accClear
    BY <1>8
  <2> HIDE DEF old, new
  <2>2. QED
    BY <1>5, <1>6, <2>1
<1>9. QED
  BY <1>3, <1>7, <1>8

(* Where the row that is out belongs. *)
PlacedAt(n, r, c, j, h) ==
  n < Array * BlocksOf(j) => r = Br(j, n \div Array) /\ c = Bc(j, h, n \div Array)

LEMMA RowComes ==
  ASSUME NEW b \in Nat, NEW p \in Nat, NEW j \in CT!MatMulJob, NEW h \in HeadId,
         job = j, head = h, Multiplying(b, p), RowsRight(emerging, b, p, j, h),
         mmState # "IDLE" => PlacedAt(outCounter, outBr, outBc, j, h),
         NEW a \in Ages(b, p), Within(Array, a)
  PROVE  \E m \in 0 .. BlocksOf(j) - 1, i \in Lane :
           /\ m = BlockOf(a, b, p) /\ i = a - Array /\ mmState # "IDLE"
           /\ outCounter = Array * m + i /\ Out(Array, b, p) = Array * m + i
           /\ MM!OutRow = i /\ MM!OutData = RowMade(j, h, m, i)
           /\ outBr = Br(j, m) /\ outBc = Bc(j, h, m)
           /\ (MM!LastRowOut <=> i = Array - 1) /\ MM!ValidOut
<1>1. /\ Array \in Nat /\ Array >= 2 /\ Lane = 0 .. Array - 1
      /\ Words = WordsOf(j) /\ Total = BlocksOf(j) /\ Words \in Nat /\ Array <= Words /\ Total \in Nat
      /\ b \in 0 .. Total /\ (b < Total => p <= Words)
  BY Sizes, Places, TaskOf, Task DEF HeadId, Multiplying, Feeding
<1>2. PICK i \in Lane : i = a - Array /\ a \in Nat
  BY <1>1 DEF Within, Ages
<1>3. PICK m \in Nat : m = BlockOf(a, b, p) /\ m \in 0 .. b - 1
  BY <1>1, BlockOfRange
<1>4. m \in 0 .. BlocksOf(j) - 1 /\ m < BlocksOf(j)
  BY <1>1, <1>3
<1>5. mmState # "IDLE"
  <2>1. SUFFICES ASSUME mmState = "IDLE" PROVE FALSE
    OBVIOUS
  <2>2. b = Total /\ p > 2 * Array
    BY <1>1, <2>1 DEF Multiplying, Feeding
  <2>3. QED
    BY <1>1, <2>2 DEF Ages, Within
<1>6. Out(Array, b, p) = Array * m + i
  <2>1. Array + Array <= 2 * Words + 1 /\ Array >= 1
    BY <1>1
  <2>2. Out(Array, b, p) = Array * BlockOf(a, b, p) + (a - Array)
    BY <1>1, <2>1, OutIs
  <2>3. QED
    BY <1>2, <1>3, <2>2
<1>7. outCounter = Array * m + i
  BY <1>5, <1>6 DEF Multiplying
<1>8. Array * m + i < Array * BlocksOf(j) /\ (Array * m + i) \div Array = m
  <2>1. Array * m + Array <= Array * BlocksOf(j) /\ Array * m \in Nat /\ Array * BlocksOf(j) \in Nat
    BY <1>1, <1>4, MoreMultiples, Multiples
  <2>2. (Array * m + i) \div Array = m
    BY Digits
  <2>3. QED
    BY <1>1, <2>1, <2>2
<1>9. outBr = Br(j, m) /\ outBc = Bc(j, h, m)
  BY <1>5, <1>7, <1>8 DEF PlacedAt
<1>10. PICK e \in emerging : /\ MM!Emerged = {e} /\ e.row = a - Array /\ e.wait = 0
                             /\ MM!OutRow = e.row /\ MM!OutData = e.data
  BY <1>1, RowOut DEF Multiplying
<1>11. e.data = RowMade(j, h, m, i)
  <2>1. e.wait = Array + e.row - a
    BY <1>1, <1>2, <1>10
  <2>2. QED
    BY <1>2, <1>3, <1>10, <2>1 DEF RowsRight
<1>12. (MM!LastRowOut <=> i = Array - 1) /\ MM!ValidOut
  BY <1>2, <1>10 DEF MM!LastRowOut, MM!ValidOut
<1>13. QED
  BY <1>2, <1>3, <1>4, <1>5, <1>6, <1>7, <1>9, <1>10, <1>11, <1>12

LEMMA PlaceStep ==
  ASSUME NEW b \in Nat, NEW p \in Nat, NEW j \in CT!MatMulJob, NEW h \in HeadId,
         job = j, head = h, Multiplying(b, p), RowsRight(emerging, b, p, j, h),
         mmState # "IDLE" => PlacedAt(outCounter, outBr, outBc, j, h),
         MM!Place(Mode), mmState # "IDLE"
  PROVE  PlacedAt(outCounter', outBr', outBc', j, h)
<1>1. /\ Array \in Nat /\ Array >= 2 /\ Lane = 0 .. Array - 1
      /\ Words \in Nat /\ Array <= Words /\ Total = BlocksOf(j) /\ Total \in Nat
  BY Sizes, Places, TaskOf, Task DEF HeadId
<1>2. /\ IF MM!LastRowOut
         THEN /\ outBr' = MM!NextBlock(Mode, outBr, outBc)[1]
              /\ outBc' = MM!NextBlock(Mode, outBr, outBc)[2]
         ELSE UNCHANGED <<outBr, outBc>>
      /\ outCounter' = IF MM!ValidOut THEN outCounter + 1 ELSE outCounter
  BY DEF MM!Place
<1>3. CASE OneOut(Array, b, p)
  <2>1. PICK a \in Ages(b, p) : Within(Array, a)
    BY <1>3 DEF OneOut
  <2>2. PICK m \in 0 .. BlocksOf(j) - 1, i \in Lane :
           /\ outCounter = Array * m + i /\ outBr = Br(j, m) /\ outBc = Bc(j, h, m)
           /\ (MM!LastRowOut <=> i = Array - 1) /\ MM!ValidOut
    BY <2>1, RowComes
  <2>3. m \in Nat /\ i \in Nat
    BY <1>1, <2>2
  <2>4. PICK n \in Nat : n = Array * m + i /\ outCounter = n /\ outCounter' = n + 1
    <3>1. Array * m + i \in Nat
      BY <1>1, <2>3
    <3>2. QED
      BY <1>2, <2>2, <3>1
  <2>5. n \div Array = m /\ n % Array = i
    BY <2>3, <2>4, Digits
  <2>6. CASE i = Array - 1
    <3>1. (n + 1) \div Array = m + 1
      BY <2>5, <2>6, NextDigit
    <3>2. SUFFICES ASSUME n + 1 < Array * BlocksOf(j)
                   PROVE  outBr' = Br(j, m + 1) /\ outBc' = Bc(j, h, m + 1)
      BY <2>4, <3>1 DEF PlacedAt
    <3>3. m + 1 < Total
      <4>1. (n + 1) \div Array < BlocksOf(j)
        BY <1>1, <2>4, <3>2, Below
      <4>2. QED
        BY <1>1, <3>1, <4>1
    <3>4. QED
      BY <1>2, <2>2, <2>3, <2>6, <3>3, NextBlockIs
  <2>7. CASE i # Array - 1
    <3>1. (n + 1) \div Array = m
      BY <2>5, <2>7, NextDigit
    <3>2. QED
      BY <1>2, <2>2, <2>4, <2>7, <3>1 DEF PlacedAt
  <2>8. QED
    BY <2>6, <2>7
<1>4. CASE ~OneOut(Array, b, p)
  <2>1. ~MM!ValidOut
    BY <1>1, <1>4, RowOut DEF Multiplying
  <2>2. ~MM!LastRowOut
    BY <2>1 DEF MM!LastRowOut, MM!ValidOut
  <2>3. QED
    BY <1>2, <2>1, <2>2
<1>5. QED
  BY <1>3, <1>4

(* A product reads two memories and writes a third. *)
LEMMA ProductMemories ==
  ASSUME job \in CT!MatMulJob, ~writeReq, reading => Mode.transpose
  PROVE  /\ Write.to = {Dest[job]} /\ Dest[job] \in Memory
         /\ CT!SelA \in Memory /\ CT!SelB \in Memory /\ CT!SelA # CT!SelB
         /\ CT!SelA # Dest[job] /\ CT!SelB # Dest[job]
<1>1. CT!Enabled = {Dest[job]}
  <2>1. CT!Result[job] = Dest[job]
    BY DEF CT!Result, Dest, CT!MatMulJob
  <2>2. CT!MatMulJob \cap {job} = {job}
    OBVIOUS
  <2>3. QED
    BY <2>1, <2>2 DEF CT!Enabled
<1>2. Write.to = {Dest[job]}
  <2>1. CASE reading
    BY <1>1, <2>1 DEF Write, TR!ValidOut, Mode
  <2>2. CASE ~reading
    BY <1>1, <2>2 DEF Write, TR!ValidOut
  <2>3. QED
    BY <2>1, <2>2
<1>3. QED
  BY <1>2 DEF Dest, Memory, CT!SelA, CT!SelB, CT!InA, CT!InB, CT!MatMulJob

LEMMA ProductReads ==
  ASSUME job \in CT!MatMulJob, ~writeReq, reading => Mode.transpose,
         ~trRunning, sfState # "RUNNING", mmState = "FEED", ReadMemories
  PROVE  /\ rdata'[CT!SelA] = ram[CT!SelA][MM!ReadAddrA]
         /\ rdata'[CT!SelB] = ram[CT!SelB][MM!ReadAddrB]
<1>1. /\ Write.to = {Dest[job]}
      /\ CT!SelA \in Memory /\ CT!SelB \in Memory /\ CT!SelA # CT!SelB
      /\ CT!SelA # Dest[job] /\ CT!SelB # Dest[job]
  BY ProductMemories
<1>2. Asked(CT!SelA) = {MM!ReadAddrA} /\ Asked(CT!SelB) = {MM!ReadAddrB}
  BY <1>1 DEF Asked, SF!ReadReq, SF!Busy, MM!ReadReq
<1>3. ASSUME NEW m \in Memory, NEW a, Asked(m) = {a}, m \notin Write.to
      PROVE  rdata'[m] = ram[m][a]
  <2>1. (CHOOSE x \in Asked(m) : TRUE) = a /\ Asked(m) # {}
    BY <1>3
  <2>2. QED
    BY <1>3, <2>1 DEF ReadMemories
<1>4. QED
  BY <1>1, <1>2, <1>3

ProductData(b, p) ==
  /\ b < Total => br = Br(job, b) /\ bc = Bc(job, head, b)
  /\ validIn => Arrived(rdata[CT!SelA], rdata[CT!SelB], job, head, b, p)
  /\ Taken(acc, job, head, b, p)
  /\ RowsRight(emerging, b, p, job, head)
  /\ mmState # "IDLE" => PlacedAt(outCounter, outBr, outBc, job, head)
  /\ Down(job) => Filled(Out(Array, b, p))

LEMMA BlockStep ==
  ASSUME NEW b \in Nat, NEW p \in Nat, NEW j \in CT!MatMulJob, NEW h \in HeadId,
         job = j, head = h, Feeding(b, p), b < Total => br = Br(j, b) /\ bc = Bc(j, h, b),
         MM!Read(FALSE, Mode), NextB(b, p) < Total
  PROVE  br' = Br(j, NextB(b, p)) /\ bc' = Bc(j, h, NextB(b, p))
<1>1. Total \in Nat /\ b < Total /\ Words \in Nat /\ p <= Words
  BY Task DEF HeadId, NextB, Feeding
<1>2. CASE p < Words
  <2>1. NextB(b, p) = b /\ mmState = "FEED"
    BY <1>1, <1>2 DEF NextB, EndOfBlock, Feeding
  <2>2. QED
    BY <1>1, <2>1 DEF MM!Read
<1>3. CASE p = Words
  <2>1. NextB(b, p) = b + 1 /\ mmState = "FLUSH" /\ b + 1 < Total
    BY <1>1, <1>3 DEF NextB, EndOfBlock, Feeding
  <2>2. br' = MM!NextBlock(Mode, br, bc)[1] /\ bc' = MM!NextBlock(Mode, br, bc)[2]
    BY <2>1 DEF MM!Read
  <2>3. QED
    BY <1>1, <2>1, <2>2, NextBlockIs
<1>4. QED
  BY <1>1, <1>2, <1>3

LEMMA ArriveStep ==
  ASSUME NEW b \in Nat, NEW p \in Nat, NEW j \in CT!MatMulJob, NEW h \in HeadId,
         job = j, head = h, Feeding(b, p), b < Total => br = Br(j, b) /\ bc = Bc(j, h, b),
         Holds, ~writeReq, reading => Mode.transpose, ~trRunning, sfState # "RUNNING",
         ReadMemories, MM!Control, validIn'
  PROVE  Arrived(rdata'[CT!SelA], rdata'[CT!SelB], j, h, NextB(b, p), NextP(b, p))
<1>1. /\ Total \in Nat /\ Words \in Nat /\ Words >= 1 /\ FirstK(j, h) \in Nat
      /\ Words = WordsOf(j) /\ Total = BlocksOf(j) /\ MM!KStart(Mode) = FirstK(j, h)
  BY TaskOf, Task, WordsRead DEF HeadId
<1>2. mmState = "FEED"
  BY DEF MM!Control
<1>3. b < Total /\ p < Words /\ kIdx = FirstK(j, h) + p
  <2>1. b \in 0 .. Total
    BY DEF Feeding
  <2>2. b = Total => mmState = "WAIT_DONE" \/ mmState = "IDLE"
    BY Sizes DEF Feeding
  <2>3. b < Total
    BY <1>1, <1>2, <2>1, <2>2
  <2>4. p < Words
    BY <1>2, <2>3 DEF Feeding
  <2>5. QED
    BY <1>1, <2>3, <2>4 DEF Feeding
<1>4. NextB(b, p) = b /\ NextP(b, p) = p + 1 /\ FirstK(j, h) + (p + 1) - 1 = FirstK(j, h) + p
  BY <1>1, <1>3 DEF NextB, NextP, EndOfBlock
<1>5. PICK k \in Nat : k = FirstK(j, h) + p
  BY <1>1
<1>6. k \in FirstK(j, h) .. FirstK(j, h) + WordsOf(j) - 1 /\ b \in 0 .. BlocksOf(j) - 1
  BY <1>1, <1>3, <1>5
<1>7. /\ ram[CT!SelA][k * Array + Br(j, b)] = LhsWord(j, h, b, k)
      /\ ram[CT!SelB][k * Array + Bc(j, h, b)] = RhsWord(j, h, b, k)
  BY <1>6, Operands
<1>8. /\ rdata'[CT!SelA] = ram[CT!SelA][MM!ReadAddrA]
      /\ rdata'[CT!SelB] = ram[CT!SelB][MM!ReadAddrB]
  BY <1>2, ProductReads
<1>9. MM!ReadAddrA = k * Array + Br(j, b) /\ MM!ReadAddrB = k * Array + Bc(j, h, b)
  BY <1>3, <1>5 DEF MM!ReadAddrA, MM!ReadAddrB
<1>10. QED
  BY <1>4, <1>5, <1>7, <1>8, <1>9 DEF Arrived

LEMMA TransposerTakes ==
  ASSUME NEW b \in Nat, NEW p \in Nat, NEW j \in CT!MatMulJob, NEW h \in HeadId,
         job = j, head = h, InProduct(b, p), Multiplying(b, p), RowsRight(emerging, b, p, j, h),
         mmState # "IDLE" => PlacedAt(outCounter, outBr, outBc, j, h),
         Down(j), FilledWith(sel, buf, at, j, h, Out(Array, b, p)),
         TRTypes, ~trValidIn, Transpose
  PROVE  FilledWith(sel', buf', at', j, h, Out(Array, NextB(b, p), NextP(b, p)))
<1>1. /\ Array \in Nat /\ Array >= 2 /\ Array >= 1 /\ Lane = 0 .. Array - 1 /\ Mode.transpose
      /\ Words \in Nat /\ Array <= Words /\ Total \in Nat /\ (b < Total => p <= Words)
      /\ Array + Array <= 2 * Words + 1
  <2>1. Array \in Nat /\ Array >= 2 /\ Lane = 0 .. Array - 1
    BY Sizes, Places
  <2>2. Mode.transpose
    BY TaskOf
  <2>3. Words \in Nat /\ Array <= Words /\ Total \in Nat
    BY Task DEF HeadId
  <2>4. b < Total => p <= Words
    BY DEF InProduct
  <2>5. Array >= 1 /\ Array + Array <= 2 * Words + 1
    BY <2>1, <2>3
  <2>6. QED
    BY <2>1, <2>2, <2>3, <2>4, <2>5
<1>2. Out(Array, NextB(b, p), NextP(b, p)) = Out(Array, b, p) + (IF OneOut(Array, b, p) THEN 1 ELSE 0)
  BY <1>1, OutStep
<1>3. PICK n \in Nat : n = Out(Array, b, p)
  <2>1. Sized
    BY Task, Sizes DEF Sized, HeadId
  <2>2. QED
    BY <1>1, <2>1, OutInt
<1>4. CASE OneOut(Array, b, p)
  <2>1. PICK a \in Ages(b, p) : Within(Array, a)
    BY <1>4 DEF OneOut
  <2>2. PICK m \in 0 .. BlocksOf(j) - 1, i \in Lane :
           /\ Out(Array, b, p) = Array * m + i
           /\ MM!OutRow = i /\ MM!OutData = RowMade(j, h, m, i)
           /\ outBr = Br(j, m) /\ outBc = Bc(j, h, m) /\ MM!ValidOut
    BY <2>1, RowComes
  <2>3. m \in Nat
    BY <2>2
  <2>4. n \div Array = m /\ n % Array = i
    BY <1>3, <2>2, <2>3, Digits
  <2>5. TR!Clock(TRUE, i, RowMade(j, h, m, i), PlaceFor(j, h, m))
    BY <1>1, <2>2 DEF Transpose, PlaceFor, Mode
  <2>6. FilledWith(sel', buf', at', j, h, n + 1)
    BY <1>3, <2>4, <2>5, FilledStep
  <2>7. QED
    BY <1>2, <1>3, <1>4, <2>6
<1>5. CASE ~OneOut(Array, b, p)
  <2>1. ~MM!ValidOut
    BY <1>1, <1>5, RowOut DEF Multiplying
  <2>2. TR!Clock(FALSE, 0, JunkWord, [br |-> 0, bc |-> 0])
    BY <2>1 DEF Transpose
  <2>3. FilledWith(sel', buf', at', j, h, n)
    BY <1>3, <2>2, FilledRests
  <2>4. QED
    BY <1>2, <1>3, <1>5, <2>3
<1>6. QED
  BY <1>4, <1>5

LEMMA ProductDataStep ==
  ASSUME NEW b \in Nat, NEW p \in Nat, NEW nb \in Nat, NEW np \in Nat,
         nb = NextB(b, p), np = NextP(b, p), job \in CT!MatMulJob, head \in HeadId,
         Multiplying(b, p), ProductData(b, p), Holds, TRTypes,
         ~writeReq, ~trRunning, ~trValidIn, sfState # "RUNNING", UNCHANGED <<job, head>>,
         ProductClock, ReadMemories, waiting
  PROVE  ProductData(nb, np)'
<1>1. /\ MM!Read(FALSE, Mode) /\ MM!Control /\ MM!Emerge /\ MM!Place(Mode)
      /\ MM!Accumulate(rdata[CT!SelA], rdata[CT!SelB]) /\ Transpose
  BY DEF ProductClock, MM!Clock, CT!StartMatMul, Mode
<1>2. /\ Feeding(b, p) /\ Leaving(b, p) /\ (reading => Mode.transpose) /\ InProduct(b, p)
  BY Pacing DEF HeadId, Multiplying, Transposing, TransposingAt
<1>3. /\ b < Total => br = Br(job, b) /\ bc = Bc(job, head, b)
      /\ validIn => Arrived(rdata[CT!SelA], rdata[CT!SelB], job, head, b, p)
      /\ Taken(acc, job, head, b, p)
      /\ RowsRight(emerging, b, p, job, head)
      /\ mmState # "IDLE" => PlacedAt(outCounter, outBr, outBc, job, head)
      /\ Down(job) => FilledWith(sel, buf, at, job, head, Out(Array, b, p))
  BY DEF ProductData, Filled
<1>4. Total' = Total /\ Ages(nb, np)' = Ages(nb, np) /\ Out(Array, nb, np)' = Out(Array, nb, np)
      /\ CT!SelA' = CT!SelA /\ CT!SelB' = CT!SelB
  <2>1. CT!SelA' = CT!SelA /\ CT!SelB' = CT!SelB
    BY DEF CT!SelA, CT!SelB
  <2>2. Array \in Nat
    BY Sizes
  <2>3. QED
    BY <2>1, <2>2, SameTask
<1>5. nb < Total => br' = Br(job, nb) /\ bc' = Bc(job, head, nb)
  BY <1>1, <1>2, <1>3, BlockStep
<1>6. validIn' => Arrived(rdata'[CT!SelA], rdata'[CT!SelB], job, head, nb, np)
  BY <1>1, <1>2, <1>3, ArriveStep
<1>7. Taken(acc', job, head, nb, np)
  BY <1>1, <1>2, <1>3, AccStep
<1>8. RowsRight(emerging', nb, np, job, head)
  BY <1>1, <1>2, <1>3, RowsStep
<1>9. mmState' # "IDLE" => PlacedAt(outCounter', outBr', outBc', job, head)
  <2>1. mmState' # "IDLE" => mmState # "IDLE"
    BY <1>1 DEF MM!Read
  <2>2. QED
    BY <1>1, <1>3, <2>1, PlaceStep
<1>10. Down(job) => FilledWith(sel', buf', at', job, head, Out(Array, nb, np))
  BY <1>1, <1>2, <1>3, TransposerTakes
<1>11. nb < Total' => br' = Br(job', nb) /\ bc' = Bc(job', head', nb)
  BY <1>4, <1>5
<1>12. validIn' => Arrived(rdata'[CT!SelA'], rdata'[CT!SelB'], job', head', nb, np)
  BY <1>4, <1>6
<1>13. Taken(acc', job', head', nb, np)
  BY <1>7
<1>14. RowsRight(emerging, nb, np, job, head)'
  BY <1>4, <1>8 DEF RowsRight
<1>15. (mmState # "IDLE" => PlacedAt(outCounter, outBr, outBc, job, head))'
  BY <1>9
<1>16. (Down(job) => Filled(Out(Array, nb, np)))'
  BY <1>4, <1>10 DEF Filled
<1>17. QED
  BY <1>11, <1>12, <1>13, <1>14, <1>15, <1>16 DEF ProductData

LEMMA ProductDataStart ==
  ASSUME job \in CT!MatMulJob, head \in HeadId, UNCHANGED <<job, head>>, NoProduct, NoRelay,
         ~waiting, ProductClock, \A i \in Lane : \A l \in Lane : acc[i][l] = <<>>
  PROVE  ProductData(0, 0)'
<1>1. /\ MM!Read(TRUE, Mode) /\ MM!Control /\ MM!Emerge /\ MM!Place(Mode)
      /\ MM!Accumulate(rdata[CT!SelA], rdata[CT!SelB])
  BY DEF ProductClock, MM!Clock, CT!StartMatMul, Mode
<1>2. br' = 0 /\ bc' = FirstCol(job, head) /\ outBr' = 0 /\ outBc' = FirstCol(job, head)
      /\ outCounter' = 0 /\ ~validIn' /\ emerging' = {}
  <2>1. MM!BcStart(Mode) = FirstCol(job, head)
    BY TaskOf
  <2>2. br' = 0 /\ bc' = FirstCol(job, head)
    BY <1>1, <2>1 DEF NoProduct, MM!Read
  <2>3. outBr' = 0 /\ outBc' = FirstCol(job, head) /\ outCounter' = 0
    BY <1>1, <2>1 DEF NoProduct, MM!Place
  <2>4. ~validIn' /\ emerging' = {}
    BY <1>1 DEF NoProduct, MM!Control, MM!Emerge, MM!Emerged
  <2>5. QED
    BY <2>2, <2>3, <2>4
<1>3. Br(job, 0) = 0 /\ Bc(job, head, 0) = FirstCol(job, head) /\ 0 \div Array = 0
  <2>1. 0 \div Array = 0
    BY Sizes
  <2>2. QED
    BY <2>1, FirstBlock
<1>4. \A i \in Lane : \A l \in Lane : acc'[i][l] = <<>>
  BY <1>1, Copies DEF NoProduct, MM!Accumulate
<1>5. Taken(acc', job', head', 0, 0)
  BY <1>4 DEF Taken, AccAt
<1>6. RowsRight(emerging, 0, 0, job, head)'
  BY <1>2 DEF RowsRight
<1>7. PlacedAt(outCounter', outBr', outBc', job', head')
  BY <1>2, <1>3 DEF PlacedAt
<1>8. Filled(Out(Array, 0, 0))'
  <2>1. Out(Array, 0, 0)' = 0
    BY DEF Out
  <2>2. QED
    BY <2>1, FilledFirst DEF Filled
<1>9. br' = Br(job', 0) /\ bc' = Bc(job', head', 0)
  BY <1>2, <1>3
<1>10. QED
  BY <1>2, <1>5, <1>6, <1>7, <1>8, <1>9 DEF ProductData

(* A multiplier that is not at work has empty accumulators. *)
NothingTaken == \A i \in Lane : \A l \in Lane : acc[i][l] = <<>>

LEMMA NothingTakenRests ==
  ASSUME NothingTaken, NoProduct, NEW m, NEW start, NEW x, NEW y, MM!Clock(start, m, x, y)
  PROVE  NothingTaken'
BY Copies DEF NothingTaken, NoProduct, MM!Clock, MM!Accumulate

LEMMA NothingTakenAtEnd ==
  ASSUME job \in CT!MatMulJob, head \in HeadId, NEW b \in Nat, NEW p \in Nat,
         Multiplying(b, p), ~writeReq, StageDone, ProductData(b, p), ProductClock
  PROVE  NothingTaken'
<1>1. b = Total /\ p = Span /\ Total = BlocksOf(job) /\ Total \in Nat
  BY Pacing, TaskOf, Task DEF HeadId
<1>2. Span \in Nat /\ Span # 0
  BY Sizes DEF Span
<1>3. \A i \in Lane : \A l \in Lane : acc[i][l] = <<>>
  BY <1>1, <1>2 DEF ProductData, Taken, AccAt
<1>4. ~accClear /\ ~validIn
  BY <1>1, <1>2 DEF Multiplying, Feeding
<1>5. QED
  BY <1>3, <1>4, Copies DEF NothingTaken, ProductClock, MM!Clock, MM!Accumulate

-----------------------------------------------------------------------------
(* The word that a stage writes is the next one of what it is to make.     *)
RightWrite ==
  /\ Write.to = {Dest[job]} /\ writeCounter \in Nat
  /\ Write.addr = Spot(job, head, writeCounter) /\ Write.addr \in Address
  /\ Write.data = Goal(job, head)[Write.addr]
  /\ job = "Z" => HeadOf(Write.addr \div Blocks) = head

LEMMA ColumnRight ==
  ASSUME job \in CT!Stage \ {"SOFTMAX"}, head \in HeadId, Down(job), ~writeReq, reading,
         NEW m \in 0 .. BlocksOf(job) - 1, NEW i \in Lane,
         FullWith(buf[1 - sel], at[1 - sel], job, head, m), readIdx = i,
         writeCounter = Array * m + i, Write.to = {Dest[job]}
  PROVE  RightWrite
<1>1. m \in Nat /\ Array \in Nat /\ i \in Nat /\ Blocks = Array
  <2>1. BlocksOf(job) \in Nat
    <3>1. Array \in Nat /\ PerHead \in Nat
      BY Sizes, Shares
    <3>2. Array * Array \in Nat /\ Array * PerHead \in Nat
      BY <3>1, Multiples
    <3>3. QED
      BY <3>2 DEF BlocksOf
  <2>2. QED
    BY <2>1, Sizes, Places
<1>2. writeCounter \in Nat
  <2>1. Array * m \in Nat
    BY <1>1
  <2>2. QED
    BY <1>1, <2>1
<1>3. Write.addr = (Bc(job, head, m) * Array + i) * Array + Br(job, m)
  BY <1>1 DEF Write, TR!ValidOut, TR!OutPlace, TR!OutCol, FullWith, PlaceFor
<1>4. Write.data = [l \in Lane |-> RowMade(job, head, m, l)[i]]
  <2>1. Write.data = [l \in Lane |-> buf[1 - sel][l][readIdx]]
    BY Copies DEF Write, TR!ValidOut, TR!OutData
  <2>2. \A l \in Lane : buf[1 - sel][l][readIdx] = RowMade(job, head, m, l)[i]
    BY DEF FullWith
  <2>3. QED
    BY <2>1, <2>2
<1>5. /\ Spot(job, head, Array * m + i) = (Bc(job, head, m) * Array + i) * Array + Br(job, m)
      /\ Spot(job, head, Array * m + i) \in Address
      /\ job = "Z" => HeadOf(Spot(job, head, Array * m + i) \div Blocks) = head
  BY SpotIs
<1>6. Goal(job, head)[Spot(job, head, Array * m + i)] = [l \in Lane |-> RowMade(job, head, m, l)[i]]
  BY SpotIs
<1>7. Write.data = Goal(job, head)[Write.addr]
  BY <1>3, <1>4, <1>5, <1>6
<1>8. QED
  BY <1>2, <1>3, <1>5, <1>7 DEF RightWrite

LEMMA ProductWrites ==
  ASSUME job \in CT!MatMulJob, head \in HeadId, ~writeReq, NEW b \in Nat, NEW p \in Nat,
         Multiplying(b, p), ProductData(b, p), WriteValid
  PROVE  RightWrite
<1>1. /\ Array \in Nat /\ Array >= 2 /\ Lane = 0 .. Array - 1 /\ job \in CT!Stage \ {"SOFTMAX"}
      /\ Words \in Nat /\ Array <= Words /\ (Mode.transpose => 2 * Array <= Words)
      /\ Total = BlocksOf(job) /\ Total \in Nat /\ (Mode.transpose <=> Down(job)) /\ b \in 0 .. Total
  BY Sizes, Places, TaskOf, Task DEF HeadId, CT!Stage, CT!MatMulJob, Multiplying, Feeding
<1>2. Write.to = {Dest[job]} /\ (reading <=> Mode.transpose /\ OneOut(2 * Array, b, p))
  BY ProductMemories DEF Multiplying, Transposing, TransposingAt
<1>3. WriteValid <=> IF Mode.transpose THEN OneOut(2 * Array, b, p) ELSE OneOut(Array, b, p)
  BY Pacing DEF HeadId
<1>4. CASE Mode.transpose
  <2>1. PICK a \in Ages(b, p) : Within(2 * Array, a) /\ a \in Nat
    BY <1>3, <1>4 DEF OneOut, Ages
  <2>2. reading /\ readIdx = a - 2 * Array
    BY <1>2, <1>3, <1>4, <2>1 DEF Multiplying, Transposing, TransposingAt
  <2>3. PICK i \in Lane : i = a - 2 * Array
    BY <1>1, <2>1 DEF Within
  <2>4. PICK m \in Nat : m = BlockOf(a, b, p) /\ m \in 0 .. b - 1
    BY <1>1, BlockOfRange
  <2>5. m \in 0 .. BlocksOf(job) - 1
    BY <1>1, <2>4
  <2>6. Out(Array, b, p) = Array * (m + 1)
    BY <1>1, <1>4, <2>1, <2>4, RowsIn
  <2>7. Out(2 * Array, b, p) = Array * m + i
    <3>1. 2 * Array \in Nat /\ 2 * Array + Array <= 2 * Words + 1 /\ Array >= 1
      BY <1>1, <1>4
    <3>2. Out(2 * Array, b, p) = Array * BlockOf(a, b, p) + (a - 2 * Array)
      BY <1>1, <2>1, <3>1, OutIs
    <3>3. QED
      BY <2>3, <2>4, <3>2
  <2>8. writeCounter = Array * m + i
    BY <1>4, <2>7 DEF Multiplying, Written
  <2>9. FullWith(buf[1 - sel], at[1 - sel], job, head, m)
    <3>1. 0 \in Lane /\ Array * (m + 1) + 0 = Array * (m + 1)
      <4>1. Array * (m + 1) \in Nat
        BY <1>1, <2>4
      <4>2. QED
        BY <4>1, Places
    <3>2. FilledWith(sel, buf, at, job, head, Array * (m + 1) + 0)
      BY <1>1, <1>4, <2>6, <3>1 DEF ProductData, Filled
    <3>3. QED
      BY <2>4, <3>1, <3>2, FilledFull
  <2>10. QED
    BY <1>1, <1>2, <1>4, <2>2, <2>3, <2>5, <2>8, <2>9, ColumnRight
<1>5. CASE ~Mode.transpose
  <2>1. PICK a \in Ages(b, p) : Within(Array, a)
    BY <1>3, <1>5 DEF OneOut
  <2>2. PICK m \in 0 .. BlocksOf(job) - 1, i \in Lane :
           /\ Out(Array, b, p) = Array * m + i
           /\ MM!OutRow = i /\ MM!OutData = RowMade(job, head, m, i)
           /\ outBr = Br(job, m) /\ outBc = Bc(job, head, m)
    BY <2>1, RowComes DEF ProductData
  <2>3. writeCounter = Array * m + i /\ writeCounter \in Nat
    <3>1. Array * m \in Nat /\ i \in Nat
      BY <1>1, <2>2
    <3>2. QED
      BY <1>5, <2>2, <3>1 DEF Multiplying, Written
  <2>4. Write.addr = (Br(job, m) * Array + i) * Array + Bc(job, head, m)
        /\ Write.data = RowMade(job, head, m, i)
    BY <1>2, <1>5, <2>2, Sizes DEF Write, TR!ValidOut
  <2>5. /\ Spot(job, head, Array * m + i) =
              IF Down(job) THEN (Bc(job, head, m) * Array + i) * Array + Br(job, m)
              ELSE (Br(job, m) * Array + i) * Array + Bc(job, head, m)
        /\ Spot(job, head, Array * m + i) \in Address
        /\ Goal(job, head)[Spot(job, head, Array * m + i)] =
              IF Down(job) THEN [l \in Lane |-> RowMade(job, head, m, l)[i]] ELSE RowMade(job, head, m, i)
        /\ job = "Z" => HeadOf(Spot(job, head, Array * m + i) \div Blocks) = head
    <3>1. job \in CT!Stage \ {"SOFTMAX"}
      BY <1>1
    <3>2. QED
      BY <3>1, SpotIs
  <2>6. ~Down(job)
    BY <1>1, <1>5
  <2>7. QED
    BY <1>2, <2>3, <2>4, <2>5, <2>6 DEF RightWrite
<1>6. QED
  BY <1>4, <1>5

(* So what is written so far is right, and all of it when the stage ends.  *)
SoFarIn(mem, n) ==
  \A x \in 0 .. n - 1 :
    /\ Spot(job, head, x) \in Address
    /\ mem[Dest[job]][Spot(job, head, x)] = Goal(job, head)[Spot(job, head, x)]
SoFar == SoFarIn(ram, writeCounter)

LEMMA DestIs ==
  ASSUME NEW j \in CT!Stage
  PROVE  Dest[j] \in Memory /\ (j = "Z" => Dest[j] # "4")
BY DEF Dest, Memory, CT!Stage, CT!MatMulJob

LEMMA Kept ==
  ASSUME NEW start, job \in CT!Stage, WriteMemories(start), WriteValid => RightWrite,
         NEW m \in Memory, m # Dest[job]
  PROVE  ram'[m] = IF m = "4" /\ job = "Z" /\ waiting /\ StageDone /\ head = Heads - 1
                   THEN Plain("Wo", 0) ELSE ram[m]
<1>1. Stored[m] = ram[m]
  BY DEF Stored, RightWrite
<1>2. job # "IDLE"
  BY DEF CT!Stage, CT!MatMulJob
<1>3. Stored = [x \in Memory |-> Stored[x]]
  BY DEF Stored
<1> HIDE DEF Stored
<1>4. QED
  BY <1>1, <1>2, <1>3 DEF WriteMemories, Memory

LEMMA DestStep ==
  ASSUME NEW start, job \in CT!Stage, WriteMemories(start), WriteValid => RightWrite,
         MemoryTypes, NEW a \in Address
  PROVE  ram'[Dest[job]][a] = IF WriteValid /\ a = Write.addr THEN Goal(job, head)[a]
                              ELSE ram[Dest[job]][a]
<1>1. Dest[job] \in Memory /\ (job = "Z" => Dest[job] # "4") /\ job # "IDLE"
  BY DestIs DEF CT!Stage, CT!MatMulJob
<1>2. ram[Dest[job]] \in [Address -> Word]
  BY <1>1 DEF MemoryTypes
<1>3. Stored[Dest[job]][a] = IF WriteValid /\ a = Write.addr THEN Goal(job, head)[a]
                             ELSE ram[Dest[job]][a]
  BY <1>1, <1>2 DEF Stored, RightWrite
<1>4. Stored = [x \in Memory |-> Stored[x]]
  BY DEF Stored
<1> HIDE DEF Stored
<1>5. ram'[Dest[job]] = Stored[Dest[job]]
  BY <1>1, <1>4 DEF WriteMemories
<1>6. QED
  BY <1>3, <1>5

LEMMA SoFarStep ==
  ASSUME NEW start, job \in CT!Stage, head \in HeadId, WriteMemories(start), WriteValid => RightWrite,
         MemoryTypes, SoFar, writeCounter \in Nat
  PROVE  SoFarIn(ram', IF WriteValid THEN writeCounter + 1 ELSE writeCounter)
<1> DEFINE n == IF WriteValid THEN writeCounter + 1 ELSE writeCounter
<1>1. SUFFICES ASSUME NEW x \in 0 .. n - 1
               PROVE  /\ Spot(job, head, x) \in Address
                      /\ ram'[Dest[job]][Spot(job, head, x)] = Goal(job, head)[Spot(job, head, x)]
  BY DEF SoFarIn
<1>2. CASE x < writeCounter
  <2>1. x \in 0 .. writeCounter - 1
    BY <1>2
  <2>2. ram[Dest[job]][Spot(job, head, x)] = Goal(job, head)[Spot(job, head, x)]
        /\ Spot(job, head, x) \in Address
    BY <2>1 DEF SoFar, SoFarIn
  <2>3. QED
    BY <2>2, DestStep
<1>3. CASE ~(x < writeCounter)
  <2>1. WriteValid /\ x = writeCounter
    BY <1>3
  <2>2. Write.addr = Spot(job, head, x) /\ Spot(job, head, x) \in Address
    BY <2>1 DEF RightWrite
  <2>3. QED
    BY <2>1, <2>2, DestStep
<1>4. QED
  BY <1>2, <1>3

LEMMA StageMakes ==
  ASSUME NEW start, job \in CT!Stage, head \in HeadId, WriteMemories(start), WriteValid => RightWrite,
         MemoryTypes, SoFar, StageDone
  PROVE  \A a \in Address : (job = "Z" => HeadOf(a \div Blocks) = head) =>
                               ram'[Dest[job]][a] = Goal(job, head)[a]
<1>1. WriteValid /\ writeCounter = TargetWriteCount /\ writeCounter \in Nat
  BY DEF StageDone, RightWrite
<1>2. TargetWriteCount = Array * BlocksOf(job) - 1
  <2>1. CASE job = "Z"
    BY <2>1, Shares DEF TargetWriteCount, CT!Mode, BlocksOf
  <2>2. CASE job # "Z"
    <3>1. Mat * Array = Array * (Array * Array)
      BY Sizes, Multiples
    <3>2. QED
      BY <2>2, <3>1 DEF TargetWriteCount, CT!Mode, BlocksOf
  <2>3. QED
    BY <2>1, <2>2
<1>3. SoFarIn(ram', writeCounter + 1)
  BY <1>1, SoFarStep
<1>4. writeCounter + 1 = Array * BlocksOf(job)
  <2>1. Array * BlocksOf(job) \in Nat
    <3>1. Array \in Nat /\ PerHead \in Nat
      BY Sizes, Shares
    <3>2. BlocksOf(job) \in Nat
      BY <3>1, Multiples DEF BlocksOf
    <3>3. QED
      BY <3>1, <3>2, Multiples
  <2>2. QED
    BY <1>1, <1>2, <2>1
<1>5. ASSUME NEW a \in Address, job = "Z" => HeadOf(a \div Blocks) = head
      PROVE  ram'[Dest[job]][a] = Goal(job, head)[a]
  <2>1. PICK n \in 0 .. Array * BlocksOf(job) - 1 : Spot(job, head, n) = a
    BY <1>5, SpotOnto
  <2>2. n \in 0 .. (writeCounter + 1) - 1
    BY <1>4, <2>1
  <2>3. QED
    BY <1>3, <2>1, <2>2 DEF SoFarIn
<1>6. QED
  BY <1>5

LEMMA OtherHeads ==
  ASSUME NEW start, job = "Z", WriteMemories(start), WriteValid => RightWrite, MemoryTypes,
         NEW a \in Address, HeadOf(a \div Blocks) # head
  PROVE  ram'["3"][a] = ram["3"][a]
<1>1. Dest[job] = "3" /\ job \in CT!Stage
  BY DEF Dest, CT!Stage, CT!MatMulJob
<1>2. WriteValid => a # Write.addr
  BY DEF RightWrite
<1>3. QED
  BY <1>1, <1>2, DestStep

LEMMA SameWords ==
  ASSUME NEW f \in [Address -> Word], NEW g, g = [a \in Address |-> g[a]],
         \A a \in Address : f[a] = g[a]
  PROVE  f = g
OBVIOUS

LEMMA Layouts ==
  ASSUME NEW m, NEW h, NEW k
  PROVE  /\ Plain(m, h) = [a \in Address |-> Plain(m, h)[a]]
         /\ Transposed(m, h) = [a \in Address |-> Transposed(m, h)[a]]
         /\ QueriesLeft(k) = [a \in Address |-> QueriesLeft(k)[a]]
BY DEF Plain, Transposed, QueriesLeft

(* The heads of the addresses of memory 3. *)
LEMMA HeadsOf ==
  ASSUME NEW a \in Address
  PROVE  HeadOf(a \div Blocks) \in HeadId
<1>1. /\ Array \in Nat \ {0} /\ Index = 0 .. Mat - 1 /\ Mat \in Nat /\ Blocks = Array
      /\ Address = 0 .. Mat * Array - 1 /\ Mat * Array = Array * Mat /\ Mat * Array \in Nat
  BY Sizes, Places, Multiples
<1>2. a \in Nat /\ a < Array * Mat
  BY <1>1
<1>3. a \div Array < Mat /\ a \div Array \in Nat
  BY <1>1, <1>2, Below, NextDigit
<1>4. a \div Array \in Index
  BY <1>1, <1>3
<1>5. QED
  BY <1>1, <1>4, Columned

LEMMA QueriesAre ==
  ASSUME NEW k \in Nat, NEW a \in Address
  PROVE  /\ HeadOf(a \div Blocks) < k => QueriesLeft(k)[a] = Transposed("Z", 0)[a]
         /\ ~(HeadOf(a \div Blocks) < k) => QueriesLeft(k)[a] = Transposed("Q", 0)[a]
BY DEF QueriesLeft

LEMMA QueriesFirst ==
  QueriesLeft(0) = Transposed("Q", 0)
<1>1. ASSUME NEW a \in Address
      PROVE  QueriesLeft(0)[a] = Transposed("Q", 0)[a]
  <2>1. ~(HeadOf(a \div Blocks) < 0)
    BY HeadsOf, Sizes DEF HeadId
  <2>2. QED
    BY <2>1, QueriesAre
<1>2. QED
  BY <1>1, Layouts

(* What the memories hold when a stage has made its matrix. *)
LEMMA HoldsNext ==
  ASSUME NEW start, job \in CT!Stage, head \in HeadId, waiting, StageDone, CT!Await(StageDone),
         WriteMemories(start), WriteValid => RightWrite, MemoryTypes, MemoryTypes', SoFar, Holds
  PROVE  Holds'
<1>1. ram' \in [Memory -> [Address -> Word]]
  BY DEF MemoryTypes
<1>2. ASSUME NEW m \in Memory, m # Dest[job], m # "4" \/ job # "Z"
      PROVE  ram'[m] = ram[m]
  BY <1>2, Kept
<1>3. ASSUME job # "Z"
      PROVE  ram'[Dest[job]] = Goal(job, head)
  <2>1. \A a \in Address : ram'[Dest[job]][a] = Goal(job, head)[a]
    BY <1>3, StageMakes
  <2>2. Goal(job, head) = [a \in Address |-> Goal(job, head)[a]]
    BY Layouts DEF Goal
  <2>3. ram'[Dest[job]] \in [Address -> Word]
    BY <1>1, DestIs
  <2>4. QED
    BY <2>1, <2>2, <2>3, SameWords
<1>4. CASE job \in {"Q", "K", "V", "E", "SOFTMAX", "TRANSPOSE", "OUT"}
  <2>1. job' = CT!Follows[job] /\ head' = head
    BY <1>4 DEF CT!Await
  <2>2. ram'[Dest[job]] = Goal(job, head) /\ \A m \in Memory : m # Dest[job] => ram'[m] = ram[m]
    BY <1>2, <1>3, <1>4
  <2>3. CASE job = "Q"
    <3>1. ram'["3"] = Transposed("Q", 0) /\ job' = "K"
      BY <2>1, <2>2, <2>3 DEF Dest, Goal, Down, GoalName, GoalHead, CT!Follows
    <3>2. ram'["X"] = ram["X"] /\ ram'["1"] = ram["1"] /\ ram'["2"] = ram["2"]
      BY <2>2, <2>3 DEF Dest, Memory
    <3>3. QED
      BY <2>1, <2>3, <3>1, <3>2 DEF Holds, HoldsIn
  <2>4. CASE job = "K"
    <3>1. ram'["4"] = Transposed("K", 0) /\ job' = "V"
      BY <2>1, <2>2, <2>4 DEF Dest, Goal, Down, GoalName, GoalHead, CT!Follows
    <3>2. ram'["X"] = ram["X"] /\ ram'["3"] = ram["3"] /\ ram'["2"] = ram["2"]
      BY <2>2, <2>4 DEF Dest, Memory
    <3>3. QED
      BY <2>1, <2>4, <3>1, <3>2 DEF Holds, HoldsIn
  <2>5. CASE job = "V"
    <3>1. ram'["0"] = Plain("V", 0) /\ job' = "E"
      BY <2>1, <2>2, <2>5 DEF Dest, Goal, Down, GoalName, GoalHead, CT!Follows
    <3>2. ram'["3"] = ram["3"] /\ ram'["4"] = ram["4"]
      BY <2>2, <2>5 DEF Dest, Memory
    <3>3. head = 0 /\ ram["3"] = QueriesLeft(head)
      BY <2>5, QueriesFirst DEF Holds, HoldsIn
    <3>4. QED
      BY <2>1, <2>5, <3>1, <3>2, <3>3 DEF Holds, HoldsIn
  <2>6. CASE job = "E"
    <3>1. ram'["1"] = Plain("E", head) /\ job' = "SOFTMAX"
      BY <2>1, <2>2, <2>6 DEF Dest, Goal, Down, GoalName, GoalHead, CT!Follows
    <3>2. ram'["0"] = ram["0"] /\ ram'["3"] = ram["3"] /\ ram'["4"] = ram["4"]
      BY <2>2, <2>6 DEF Dest, Memory
    <3>3. QED
      BY <2>1, <2>6, <3>1, <3>2 DEF Holds, HoldsIn
  <2>7. CASE job = "SOFTMAX"
    <3>1. ram'["2"] = Plain("S", head) /\ job' = "TRANSPOSE"
      BY <2>1, <2>2, <2>7 DEF Dest, Goal, Down, GoalName, GoalHead, CT!Follows
    <3>2. ram'["0"] = ram["0"] /\ ram'["3"] = ram["3"] /\ ram'["4"] = ram["4"]
      BY <2>2, <2>7 DEF Dest, Memory
    <3>3. QED
      BY <2>1, <2>7, <3>1, <3>2 DEF Holds, HoldsIn
  <2>8. CASE job = "TRANSPOSE"
    <3>1. ram'["1"] = Transposed("S", head) /\ job' = "Z"
      BY <2>1, <2>2, <2>8 DEF Dest, Goal, Down, GoalName, GoalHead, CT!Follows
    <3>2. ram'["0"] = ram["0"] /\ ram'["3"] = ram["3"] /\ ram'["4"] = ram["4"]
      BY <2>2, <2>8 DEF Dest, Memory
    <3>3. QED
      BY <2>1, <2>8, <3>1, <3>2 DEF Holds, HoldsIn
  <2>9. CASE job = "OUT"
    <3>1. ram'["0"] = Plain("O", 0) /\ job' = "DONE"
      BY <2>1, <2>2, <2>9 DEF Dest, Goal, Down, GoalName, GoalHead, CT!Follows
    <3>2. ram'["3"] = ram["3"]
      BY <2>2, <2>9 DEF Dest, Memory
    <3>3. QED
      BY <2>1, <2>9, <3>1, <3>2 DEF Holds, HoldsIn
  <2>10. QED
    BY <1>4, <2>3, <2>4, <2>5, <2>6, <2>7, <2>8, <2>9
<1>5. CASE job = "Z"
  <2>1. Dest[job] = "3" /\ Goal(job, head) = Transposed("Z", 0)
    BY <1>5 DEF Dest, Goal, Down, GoalName, GoalHead
  <2>2. head \in Nat /\ head <= Heads - 1
    BY Sizes DEF HeadId
  <2>3. ASSUME NEW a \in Address
        PROVE  /\ HeadOf(a \div Blocks) < head + 1 => ram'["3"][a] = Transposed("Z", 0)[a]
               /\ ~(HeadOf(a \div Blocks) < head + 1) => ram'["3"][a] = Transposed("Q", 0)[a]
    <3>1. PICK g \in Nat : g = HeadOf(a \div Blocks)
      BY HeadsOf, Sizes DEF HeadId
    <3>2. CASE g = head
      <4>1. ram'["3"][a] = Transposed("Z", 0)[a]
        BY <1>5, <2>1, <3>1, <3>2, StageMakes
      <4>2. QED
        BY <2>2, <3>1, <3>2, <4>1
    <3>3. CASE g # head
      <4>1. ram'["3"][a] = ram["3"][a]
        BY <1>5, <3>1, <3>3, OtherHeads
      <4>2. ram["3"][a] = QueriesLeft(head)[a]
        BY <1>5, <3>1, <3>3 DEF Holds, HoldsIn
      <4>3. g < head + 1 <=> g < head
        BY <2>2, <3>3
      <4>4. QED
        BY <2>2, <3>1, <4>1, <4>2, <4>3, QueriesAre
    <3>4. QED
      BY <3>2, <3>3
  <2>4. ram'["3"] \in [Address -> Word]
    BY <1>1 DEF Memory
  <2>5. CASE head = Heads - 1
    <3>1. job' = "OUT" /\ head' = 0
      BY <1>5, <2>5 DEF CT!Await, CT!LastHead
    <3>2. ram'["4"] = Plain("Wo", 0)
      BY <1>5, <2>1, <2>5, Kept DEF Memory
    <3>3. ram'["3"] = Transposed("Z", 0)
      <4>1. ASSUME NEW a \in Address
            PROVE  ram'["3"][a] = Transposed("Z", 0)[a]
        <5>1. HeadOf(a \div Blocks) < head + 1
          BY <2>2, <2>5, HeadsOf, Sizes DEF HeadId
        <5>2. QED
          BY <2>3, <5>1
      <4>2. Transposed("Z", 0) = [a \in Address |-> Transposed("Z", 0)[a]]
        BY Layouts
      <4>3. QED
        BY <2>4, <4>1, <4>2, SameWords
    <3>4. QED
      BY <3>1, <3>2, <3>3 DEF Holds, HoldsIn
  <2>6. CASE head # Heads - 1
    <3>1. job' = "E" /\ head' = head + 1
      BY <1>5, <2>6 DEF CT!Await, CT!LastHead
    <3>2. ram'["4"] = ram["4"] /\ ram'["0"] = ram["0"]
      BY <1>5, <2>1, <2>6, Kept DEF Memory
    <3>3. ram'["3"] = QueriesLeft(head + 1)
      <4>1. PICK k \in Nat : k = head + 1
        BY <2>2
      <4>2. \A a \in Address : ram'["3"][a] = QueriesLeft(k)[a]
        BY <2>3, <4>1, QueriesAre
      <4>3. QED
        BY <2>4, <4>1, <4>2, Layouts, SameWords
    <3>4. QED
      BY <1>5, <3>1, <3>2, <3>3 DEF Holds, HoldsIn
  <2>7. QED
    BY <2>5, <2>6
<1>6. QED
  BY <1>4, <1>5 DEF CT!Stage, CT!MatMulJob

LEMMA HoldsKeep ==
  ASSUME NEW start, job \in CT!Stage, head \in HeadId, ~StageDone, UNCHANGED <<job, head>>,
         WriteMemories(start), WriteValid => RightWrite, MemoryTypes, Holds
  PROVE  Holds'
<1>1. \A m \in Memory : m # Dest[job] => ram'[m] = ram[m]
  BY Kept
<1>2. Holds' <=> HoldsIn(job, head, ram')
  BY DEF Holds
<1>3. CASE job \in {"Q", "K", "V"}
  <2>1. /\ job = "Q" => /\ ram'["X"] = ram["X"] /\ ram'["0"] = ram["0"]
                        /\ ram'["1"] = ram["1"] /\ ram'["2"] = ram["2"]
        /\ job = "K" => /\ ram'["X"] = ram["X"] /\ ram'["1"] = ram["1"]
                        /\ ram'["2"] = ram["2"] /\ ram'["3"] = ram["3"]
        /\ job = "V" => /\ ram'["X"] = ram["X"] /\ ram'["2"] = ram["2"]
                        /\ ram'["3"] = ram["3"] /\ ram'["4"] = ram["4"]
    BY <1>1 DEF Dest, Memory
  <2>2. QED
    BY <1>2, <1>3, <2>1 DEF Holds, HoldsIn
<1>4. CASE job \in {"E", "SOFTMAX", "TRANSPOSE"}
  <2>1. /\ ram'["0"] = ram["0"] /\ ram'["3"] = ram["3"] /\ ram'["4"] = ram["4"]
        /\ job = "SOFTMAX" => ram'["1"] = ram["1"]
        /\ job = "TRANSPOSE" => ram'["2"] = ram["2"]
    BY <1>1, <1>4 DEF Dest, Memory
  <2>2. QED
    BY <1>2, <1>4, <2>1 DEF Holds, HoldsIn
<1>5. CASE job = "Z"
  <2>1. ram'["0"] = ram["0"] /\ ram'["1"] = ram["1"] /\ ram'["4"] = ram["4"]
    BY <1>1, <1>5 DEF Dest, Memory
  <2>2. \A a \in Address : HeadOf(a \div Blocks) # head => ram'["3"][a] = ram["3"][a]
    BY <1>5, OtherHeads
  <2>3. QED
    BY <1>2, <1>5, <2>1, <2>2 DEF Holds, HoldsIn
<1>6. CASE job = "OUT"
  <2>1. ram'["3"] = ram["3"] /\ ram'["4"] = ram["4"]
    BY <1>1, <1>6 DEF Dest, Memory
  <2>2. QED
    BY <1>2, <1>6, <2>1 DEF Holds, HoldsIn
<1>7. QED
  BY <1>3, <1>4, <1>5, <1>6 DEF CT!Stage, CT!MatMulJob

(* Between the stages the memories change only when the host loads them. *)
LEMMA HoldsIdle ==
  ASSUME NEW start, ~waiting, job \in CT!Job, ~WriteValid, CT!Clock(start, StageDone),
         WriteMemories(start), MemoryTypes, Holds
  PROVE  Holds'
<1>1. Stored = ram /\ ram = [m \in Memory |-> ram[m]]
  <2>1. ram = [m \in Memory |-> ram[m]]
    BY DEF MemoryTypes
  <2>2. Stored = [m \in Memory |-> ram[m]]
    BY DEF Stored
  <2>3. QED
    BY <2>1, <2>2
<1>2. Holds' <=> HoldsIn(job', head', ram')
  BY DEF Holds
<1> HIDE DEF Stored
<1>3. CASE job = "IDLE" /\ start
  <2>1. ram' = [ram EXCEPT !["X"] = Transposed("X", 0), !["0"] = Plain("Wq", 0),
                           !["1"] = Plain("Wk", 0), !["2"] = Plain("Wv", 0)]
    BY <1>1, <1>3 DEF WriteMemories
  <2>2. /\ ram'["X"] = Transposed("X", 0) /\ ram'["0"] = Plain("Wq", 0)
        /\ ram'["1"] = Plain("Wk", 0) /\ ram'["2"] = Plain("Wv", 0)
    BY <1>1, <2>1 DEF Memory
  <2>3. job' = "LAYERNORM" /\ head' = head /\ head = 0
    BY <1>3 DEF CT!Clock, CT!Rest, CT!PassOn, CT!Begin, CT!Await, CT!Stage, CT!MatMulJob, Holds, HoldsIn
  <2>4. QED
    BY <1>2, <2>2, <2>3 DEF HoldsIn
<1>4. CASE ~(job = "IDLE" /\ start)
  <2>1. ram' = ram
    BY <1>1, <1>4 DEF WriteMemories
  <2>2. head' = head
    BY DEF CT!Clock, CT!Rest, CT!PassOn, CT!Begin, CT!Await
  <2>3. \/ job' = job
        \/ job = "LAYERNORM" /\ job' = "Q"
        \/ job = "DONE" /\ job' = "IDLE"
    BY <1>4 DEF CT!Clock, CT!Rest, CT!PassOn, CT!Begin, CT!Await
  <2>4. CASE job' = job
    BY <1>2, <2>1, <2>2, <2>4 DEF Holds
  <2>5. CASE job = "LAYERNORM" /\ job' = "Q"
    BY <1>2, <2>1, <2>2, <2>5 DEF Holds, HoldsIn
  <2>6. CASE job = "DONE" /\ job' = "IDLE"
    BY <1>2, <2>1, <2>2, <2>6 DEF Holds, HoldsIn
  <2>7. QED
    BY <2>3, <2>4, <2>5, <2>6
<1>5. QED
  BY <1>3, <1>4

-----------------------------------------------------------------------------
(* The first n words of row r of the scores, in the softmax unit: as they  *)
(* were read, and as exponentials.                                         *)
Largest(h, r, n) == {At("E", h, r, c) : c \in 0 .. n * Array - 1}
RowTaken(rows, maxima, h, r, n) ==
  /\ \A k \in Lane : k < n => rows[r % 2][k] = RowPart("E", h, r, k)
  /\ n >= 1 => maxima[r % 2] = Largest(h, r, n)

ExpWord(h, r, k) == [i \in Lane |-> <<At("E", h, r, k * Array + i), Scores(h, r)>>]
Raised(exps, sums, h, r, n) ==
  /\ \A k \in Lane : k < n => exps[r % 2][k] = ExpWord(h, r, k)
  /\ n >= 1 => sums[r % 2] = Summed(h, r, n * Array)

LEMMA Parities ==
  ASSUME NEW n \in Nat
  PROVE  n % 2 \in {0, 1} /\ (n + 1) % 2 # n % 2
OBVIOUS

LEMMA LargestStep ==
  ASSUME NEW h, NEW r, NEW n \in Nat
  PROVE  /\ Largest(h, r, n) \cup {RowPart("E", h, r, n)[i] : i \in Lane} = Largest(h, r, n + 1)
         /\ Largest(h, r, 0) = {}
<1>1. Array \in Nat /\ Array >= 2 /\ Lane = 0 .. Array - 1
  BY Sizes, Places
<1>2. PICK x \in Nat, y \in Nat : x = n * Array /\ y = (n + 1) * Array /\ y = x + Array
  BY <1>1, Multiples
<1>3. {RowPart("E", h, r, n)[i] : i \in Lane} = {At("E", h, r, x + i) : i \in Lane}
  BY <1>2 DEF RowPart
<1>4. ASSUME NEW c \in 0 .. x + Array - 1
      PROVE  c \in 0 .. x - 1 \/ \E i \in Lane : c = x + i
  <2>1. CASE c < x
    BY <1>1, <2>1
  <2>2. CASE c >= x
    <3>1. c - x \in Lane /\ c = x + (c - x)
      BY <1>1, <2>2
    <3>2. QED
      BY <3>1
  <2>3. QED
    BY <1>1, <1>2, <2>1, <2>2
<1>5. ASSUME NEW i \in Lane
      PROVE  x + i \in 0 .. x + Array - 1
  BY <1>1, <1>2
<1>6. Largest(h, r, n + 1) = {At("E", h, r, c) : c \in 0 .. x + Array - 1}
      /\ Largest(h, r, n) = {At("E", h, r, c) : c \in 0 .. x - 1}
  <2>1. Largest(h, r, n + 1) = {At("E", h, r, c) : c \in 0 .. x + Array - 1}
    <3>1. Largest(h, r, n + 1) = {At("E", h, r, c) : c \in 0 .. (n + 1) * Array - 1}
      BY DEF Largest
    <3>2. 0 .. y - 1 = 0 .. x + Array - 1
      BY <1>1, <1>2
    <3>3. QED
      BY <1>2, <3>1, <3>2
  <2>2. Largest(h, r, n) = {At("E", h, r, c) : c \in 0 .. x - 1}
    BY <1>2 DEF Largest
  <2>3. QED
    BY <2>1, <2>2
<1>7. Largest(h, r, n + 1) \subseteq Largest(h, r, n) \cup {At("E", h, r, x + i) : i \in Lane}
  BY <1>4, <1>6
<1>8. Largest(h, r, n) \subseteq Largest(h, r, n + 1)
  <2>1. 0 .. x - 1 \subseteq 0 .. x + Array - 1
    BY <1>1, <1>2
  <2>2. QED
    BY <1>6, <2>1
<1>9. {At("E", h, r, x + i) : i \in Lane} \subseteq Largest(h, r, n + 1)
  BY <1>5, <1>6
<1>10. Largest(h, r, 0) = {}
  <2>1. 0 .. 0 * Array - 1 = {}
    BY <1>1
  <2>2. QED
    BY <2>1 DEF Largest
<1>11. QED
  BY <1>3, <1>7, <1>8, <1>9, <1>10

LEMMA LargestAll ==
  ASSUME NEW h, NEW r
  PROVE  Largest(h, r, Array) = Scores(h, r)
<1>1. Index = 0 .. Array * Array - 1
  BY Places
<1>2. QED
  BY <1>1 DEF Largest, Scores

(* The first stage of the unit: one more word of its row. *)
LEMMA RowTakenStep ==
  ASSUME NEW h, NEW r \in Nat, NEW n \in Lane, RowTaken(rowBuffer, rowMax, h, r, n), SFTypes,
         prevEn, prevChunk = n, prevRow = r, SF!FindMax(RowPart("E", h, r, n))
  PROVE  RowTaken(rowBuffer', rowMax', h, r, n + 1)
<1> DEFINE word == RowPart("E", h, r, n)
           seen == {word[i] : i \in Lane}
<1>1. /\ Array \in Nat /\ Lane = 0 .. Array - 1 /\ n \in Nat /\ SF!Lane = Lane
      /\ r % 2 \in {0, 1}
  BY Sizes, Places, Copies, Parities
<1>2. rowBuffer \in [{0, 1} -> [Lane -> Word]] /\ rowMax \in [{0, 1} -> SUBSET Entry]
  BY DEF SFTypes
<1> HIDE DEF word
<1>3. /\ rowBuffer' = [rowBuffer EXCEPT ![r % 2] = [@ EXCEPT ![n] = word]]
      /\ rowMax' = [rowMax EXCEPT ![r % 2] = IF n = 0 THEN seen ELSE @ \cup seen]
  BY <1>1 DEF SF!FindMax, word
<1>4. rowBuffer[r % 2] \in [Lane -> Word]
  BY <1>1, <1>2
<1>5. rowBuffer'[r % 2] = [rowBuffer[r % 2] EXCEPT ![n] = word]
  BY <1>1, <1>2, <1>3
<1>6. ASSUME NEW k \in Lane, k < n + 1
      PROVE  rowBuffer'[r % 2][k] = RowPart("E", h, r, k)
  <2>1. CASE k = n
    BY <1>4, <1>5, <2>1 DEF word
  <2>2. CASE k # n
    <3>1. k < n
      BY <1>1, <1>6, <2>2
    <3>2. rowBuffer'[r % 2][k] = rowBuffer[r % 2][k]
      BY <1>4, <1>5, <2>2
    <3>3. QED
      BY <3>1, <3>2 DEF RowTaken
  <2>3. QED
    BY <2>1, <2>2
<1>7. Largest(h, r, n) \cup seen = Largest(h, r, n + 1) /\ Largest(h, r, 0) = {}
  BY <1>1, LargestStep DEF word
<1> HIDE DEF seen
<1>8. rowMax'[r % 2] = IF n = 0 THEN seen ELSE rowMax[r % 2] \cup seen
  BY <1>1, <1>2, <1>3
<1>9. rowMax'[r % 2] = Largest(h, r, n + 1)
  <2>1. CASE n = 0
    BY <1>7, <1>8, <2>1
  <2>2. CASE n # 0
    <3>1. n >= 1
      BY <1>1, <2>2
    <3>2. rowMax[r % 2] = Largest(h, r, n)
      BY <3>1 DEF RowTaken
    <3>3. QED
      BY <1>7, <1>8, <2>2, <3>2
  <2>3. QED
    BY <2>1, <2>2
<1>10. QED
  BY <1>6, <1>9 DEF RowTaken

LEMMA RowTakenKeep ==
  ASSUME NEW h, NEW r \in Nat, NEW n, RowTaken(rowBuffer, rowMax, h, r, n), SFTypes,
         NEW word, SF!FindMax(word), prevEn => prevRow % 2 # r % 2
  PROVE  RowTaken(rowBuffer', rowMax', h, r, n)
<1>1. r % 2 \in {0, 1}
  BY Parities
<1>2. rowBuffer \in [{0, 1} -> [Lane -> Word]] /\ rowMax \in [{0, 1} -> SUBSET Entry]
  BY DEF SFTypes
<1>3. rowBuffer'[r % 2] = rowBuffer[r % 2] /\ rowMax'[r % 2] = rowMax[r % 2]
  BY <1>1, <1>2 DEF SF!FindMax
<1>4. QED
  BY <1>3 DEF RowTaken

(* The second: one more word of exponentials. *)
LEMMA Listed ==
  ASSUME NEW n \in Nat, NEW S, NEW f \in [1 .. n -> S]
  PROVE  f \in Seq(S) /\ Len(f) = n
OBVIOUS

LEMMA Joined ==
  ASSUME NEW S, NEW s \in Seq(S), NEW t \in Seq(S)
  PROVE  s \o t = [q \in 1 .. Len(s) + Len(t) |-> IF q <= Len(s) THEN s[q] ELSE t[q - Len(s)]]
<1>1. s \o t \in Seq(S) /\ Len(s \o t) = Len(s) + Len(t)
  OBVIOUS
<1>2. s \o t = [q \in 1 .. Len(s) + Len(t) |-> (s \o t)[q]]
  <2>1. \A u \in Seq(S) : u = [q \in 1 .. Len(u) |-> u[q]]
    OBVIOUS
  <2>2. QED
    BY <1>1, <2>1
<1>3. \A q \in 1 .. Len(s) + Len(t) : (s \o t)[q] = IF q <= Len(s) THEN s[q] ELSE t[q - Len(s)]
  OBVIOUS
<1>4. QED
  BY <1>2, <1>3

LEMMA SummedStep ==
  ASSUME NEW h, NEW r, NEW n \in Nat, NEW some,
         some = [q \in 1 .. Array |-> <<At("E", h, r, n * Array + (q - 1)), Scores(h, r)>>]
  PROVE  /\ Summed(h, r, n * Array) \o some = Summed(h, r, (n + 1) * Array)
         /\ n = 0 => some = Summed(h, r, (n + 1) * Array)
<1>1. Array \in Nat
  BY Sizes
<1>2. PICK x \in Nat : x = n * Array /\ (n + 1) * Array = x + Array
  BY <1>1, Multiples
<1> DEFINE pair(c) == <<At("E", h, r, c), Scores(h, r)>>
<1>3. /\ \A m : Summed(h, r, m) = [q \in 1 .. m |-> pair(q - 1)]
      /\ some = [q \in 1 .. Array |-> pair(x + (q - 1))]
  BY <1>2 DEF Summed
<1> HIDE DEF pair
<1>4. Summed(h, r, x) \o some = Summed(h, r, x + Array)
  <2>1. PICK S : \A c : pair(c) \in S \/ c \notin Int
    <3>1. \A c : pair(c) \in {pair(d) : d \in Int} \/ c \notin Int
      OBVIOUS
    <3>2. QED
      BY <3>1
  <2>2. Summed(h, r, x) \o some = [q \in 1 .. x + Array |-> IF q <= x THEN Summed(h, r, x)[q] ELSE some[q - x]]
    <3>1. Summed(h, r, x) \in Seq(S) /\ Len(Summed(h, r, x)) = x
      BY <1>3, <2>1
    <3>2. some \in Seq(S) /\ Len(some) = Array
      <4>1. \A q \in 1 .. Array : pair(x + (q - 1)) \in S
        BY <1>1, <2>1
      <4>2. some \in [1 .. Array -> S]
        BY <1>3, <4>1
      <4>3. QED
        BY <1>1, <4>2, Listed
    <3>3. \A u, v \in Seq(S) : u \o v = [q \in 1 .. Len(u) + Len(v) |-> IF q <= Len(u) THEN u[q] ELSE v[q - Len(u)]]
      BY Joined
    <3>4. Summed(h, r, x) \o some
            = [q \in 1 .. Len(Summed(h, r, x)) + Len(some) |->
                 IF q <= Len(Summed(h, r, x)) THEN Summed(h, r, x)[q] ELSE some[q - Len(Summed(h, r, x))]]
      BY <3>1, <3>2, <3>3
    <3>5. QED
      BY <3>1, <3>2, <3>4
  <2>3. ASSUME NEW q \in 1 .. x + Array
        PROVE  (IF q <= x THEN Summed(h, r, x)[q] ELSE some[q - x]) = pair(q - 1)
    <3>1. CASE q <= x
      BY <1>3, <3>1
    <3>2. CASE ~(q <= x)
      <4>1. q - x \in 1 .. Array /\ x + ((q - x) - 1) = q - 1
        BY <1>1, <3>2
      <4>2. some[q - x] = pair(x + ((q - x) - 1))
        BY <1>3, <4>1
      <4>3. QED
        BY <3>2, <4>1, <4>2
    <3>3. QED
      BY <3>1, <3>2
  <2>4. Summed(h, r, x + Array) = [q \in 1 .. x + Array |-> pair(q - 1)]
    BY <1>3
  <2>5. QED
    BY <2>2, <2>3, <2>4
<1>5. n = 0 => some = Summed(h, r, x + Array)
  <2>1. SUFFICES ASSUME n = 0 PROVE some = Summed(h, r, x + Array)
    OBVIOUS
  <2>2. x = 0 /\ x + Array = Array
    BY <1>1, <1>2, <2>1
  <2>3. \A q \in 1 .. Array : pair(x + (q - 1)) = pair(q - 1)
    <3>1. \A q \in 1 .. Array : x + (q - 1) = q - 1
      BY <1>1, <2>2
    <3>2. QED
      BY <3>1
  <2>4. some = [q \in 1 .. Array |-> pair(q - 1)]
    BY <1>3, <2>3
  <2>5. QED
    BY <1>3, <2>2, <2>4
<1>6. QED
  BY <1>2, <1>4, <1>5

LEMMA RaisedStep ==
  ASSUME NEW h, NEW r \in Nat, NEW n \in Lane, RowTaken(rowBuffer, rowMax, h, r, Array), SFTypes,
         Raised(expBuffer, expSum, h, r, n), SF!Busy(1), SF!RowAt(1) = r, cycleCnt = n,
         SF!Exponentials
  PROVE  Raised(expBuffer', expSum', h, r, n + 1)
<1> DEFINE p == SF!RowAt(1) % 2
           exps == [i \in SF!Lane |-> <<rowBuffer[p][cycleCnt][i], rowMax[p]>>]
           some == [q \in 1 .. Array |-> exps[q - 1]]
<1>1. /\ Array \in Nat /\ Array >= 1 /\ Lane = 0 .. Array - 1 /\ n \in Nat /\ SF!Lane = Lane
      /\ r % 2 \in {0, 1}
  BY Sizes, Places, Copies, Parities
<1>2. /\ expBuffer \in [{0, 1} -> [Lane -> [Lane -> Entry \X SUBSET Entry]]]
      /\ expSum \in [{0, 1} -> Seq(Entry \X SUBSET Entry)]
  BY DEF SFTypes
<1>3. /\ expBuffer' = [expBuffer EXCEPT ![r % 2] = [@ EXCEPT ![n] = exps]]
      /\ expSum' = [expSum EXCEPT ![r % 2] = IF n = 0 THEN some ELSE @ \o some]
  <2>1. expBuffer' = [expBuffer EXCEPT ![p] = [@ EXCEPT ![cycleCnt] = exps]]
    BY DEF SF!Exponentials
  <2>2. expSum' = [expSum EXCEPT ![p] = IF cycleCnt = 0 THEN some ELSE @ \o some]
    BY DEF SF!Exponentials
  <2> HIDE DEF exps, some
  <2>3. QED
    BY <2>1, <2>2
<1>4. exps = ExpWord(h, r, n)
  <2>1. rowBuffer[r % 2][n] = RowPart("E", h, r, n) /\ rowMax[r % 2] = Scores(h, r)
    <3>1. n < Array
      BY <1>1
    <3>2. rowMax[r % 2] = Largest(h, r, Array)
      BY <1>1 DEF RowTaken
    <3>3. QED
      BY <3>1, <3>2, LargestAll DEF RowTaken
  <2>2. QED
    BY <1>1, <2>1 DEF ExpWord, RowPart
<1>5. some = [q \in 1 .. Array |-> <<At("E", h, r, n * Array + (q - 1)), Scores(h, r)>>]
  <2>1. some = [q \in 1 .. Array |-> ExpWord(h, r, n)[q - 1]]
    BY <1>4
  <2>2. ASSUME NEW q \in 1 .. Array
        PROVE  ExpWord(h, r, n)[q - 1] = <<At("E", h, r, n * Array + (q - 1)), Scores(h, r)>>
    <3>1. q - 1 \in Lane
      BY <1>1
    <3>2. QED
      BY <3>1 DEF ExpWord
  <2>3. QED
    BY <2>1, <2>2
<1> HIDE DEF exps, some
<1>6. expBuffer'[r % 2] = [expBuffer[r % 2] EXCEPT ![n] = exps]
      /\ expBuffer[r % 2] \in [Lane -> [Lane -> Entry \X SUBSET Entry]]
  BY <1>1, <1>2, <1>3
<1>7. ASSUME NEW k \in Lane, k < n + 1
      PROVE  expBuffer'[r % 2][k] = ExpWord(h, r, k)
  <2>1. CASE k = n
    BY <1>4, <1>6, <2>1
  <2>2. CASE k # n
    <3>1. k < n
      BY <1>1, <1>7, <2>2
    <3>2. expBuffer'[r % 2][k] = expBuffer[r % 2][k]
      BY <1>6, <2>2
    <3>3. QED
      BY <3>1, <3>2 DEF Raised
  <2>3. QED
    BY <2>1, <2>2
<1>8. expSum'[r % 2] = IF n = 0 THEN some ELSE expSum[r % 2] \o some
  BY <1>1, <1>2, <1>3
<1>9. expSum'[r % 2] = Summed(h, r, (n + 1) * Array)
  <2>1. /\ Summed(h, r, n * Array) \o some = Summed(h, r, (n + 1) * Array)
        /\ n = 0 => some = Summed(h, r, (n + 1) * Array)
    <3>1. PICK k \in Nat : k = n
      BY <1>1
    <3>2. PICK t : t = some
      OBVIOUS
    <3>3. t = [q \in 1 .. Array |-> <<At("E", h, r, k * Array + (q - 1)), Scores(h, r)>>]
      BY <1>5, <3>1, <3>2
    <3>4. /\ Summed(h, r, k * Array) \o t = Summed(h, r, (k + 1) * Array)
          /\ k = 0 => t = Summed(h, r, (k + 1) * Array)
      BY <3>3, SummedStep
    <3>5. QED
      BY <3>1, <3>2, <3>4
  <2>2. CASE n = 0
    BY <1>8, <2>1, <2>2
  <2>3. CASE n # 0
    <3>1. n >= 1
      BY <1>1, <2>3
    <3>2. expSum[r % 2] = Summed(h, r, n * Array)
      BY <3>1 DEF Raised
    <3>3. QED
      BY <1>8, <2>1, <2>3, <3>2
  <2>4. QED
    BY <2>2, <2>3
<1>10. QED
  BY <1>7, <1>9 DEF Raised

LEMMA RaisedKeep ==
  ASSUME NEW h, NEW r \in Nat, NEW n, Raised(expBuffer, expSum, h, r, n), SFTypes,
         SF!Exponentials, SF!Busy(1) => SF!RowAt(1) % 2 # r % 2
  PROVE  Raised(expBuffer', expSum', h, r, n)
<1>1. r % 2 \in {0, 1}
  BY Parities
<1>2. /\ expBuffer \in [{0, 1} -> [Lane -> [Lane -> Entry \X SUBSET Entry]]]
      /\ expSum \in [{0, 1} -> Seq(Entry \X SUBSET Entry)]
  BY DEF SFTypes
<1>3. expBuffer'[r % 2] = expBuffer[r % 2] /\ expSum'[r % 2] = expSum[r % 2]
  BY <1>1, <1>2 DEF SF!Exponentials
<1>4. QED
  BY <1>3 DEF Raised

(* The third: one more word of the result. *)
LEMMA Divided ==
  ASSUME NEW h \in HeadId, NEW r \in Index, NEW n \in Lane, Raised(expBuffer, expSum, h, r, Array),
         SF!Busy(2), SF!RowAt(2) = r, cycleCnt = n, SF!Divide
  PROVE  writeAddr' = r * Array + n /\ writeData' = RowPart("S", h, r, n)
<1>1. /\ Array \in Nat /\ Array >= 1 /\ Lane = 0 .. Array - 1 /\ n \in Nat /\ SF!Lane = Lane
      /\ SF!Blocks = Array /\ Mat = Array * Array /\ Index = 0 .. Mat - 1 /\ Mat \in Nat
      /\ Array \in Nat \ {0}
  BY Sizes, Places, Copies
<1>2. expBuffer[r % 2][n] = ExpWord(h, r, n) /\ expSum[r % 2] = Summed(h, r, Mat)
  BY <1>1 DEF Raised
<1>3. ASSUME NEW i \in Lane
      PROVE  SF!Quotient(expBuffer[r % 2][n][i], expSum[r % 2]) = At("S", h, r, n * Array + i)
  <2>1. n * Array + i \in Index
    BY <1>1, InRow
  <2>2. SF!Quotient(<<At("E", h, r, n * Array + i), Scores(h, r)>>, Summed(h, r, Mat))
          = At("S", h, r, n * Array + i)
    BY <2>1, QuotientIs
  <2>3. ExpWord(h, r, n)[i] = <<At("E", h, r, n * Array + i), Scores(h, r)>>
    BY DEF ExpWord
  <2>4. QED
    BY <1>2, <2>2, <2>3
<1>4. writeAddr' = r * Array + n
  BY <1>1 DEF SF!Divide
<1>5. writeData' = [i \in Lane |-> SF!Quotient(expBuffer[r % 2][n][i], expSum[r % 2])]
  BY <1>1 DEF SF!Divide
<1>6. QED
  BY <1>3, <1>4, <1>5 DEF RowPart

(* The three rows that the softmax unit is at, in cycle c of row r. *)
Softening(rows, maxima, exps, sums, h, r, c) ==
  /\ r < Mat => RowTaken(rows, maxima, h, r, IF c = 0 THEN 0 ELSE c - 1)
  /\ r \in 1 .. Mat => RowTaken(rows, maxima, h, r - 1, Array) /\ Raised(exps, sums, h, r - 1, c)
  /\ r \in 2 .. Mat + 1 => Raised(exps, sums, h, r - 2, Array)

WordComing(word, h, r, c) ==
  /\ prevEn <=> c >= 1 /\ r < Mat
  /\ prevEn => prevChunk = c - 1 /\ prevRow = r /\ word = RowPart("E", h, r, c - 1)

WordGoing(h, r, c) ==
  writeReq => writeAddr = (r - 2) * Array + (c - 1) /\ writeData = RowPart("S", h, r - 2, c - 1)

SoftData ==
  /\ WordComing(rdata["1"], head, pipeRow, cycleCnt)
  /\ Softening(rowBuffer, rowMax, expBuffer, expSum, head, pipeRow, cycleCnt)
  /\ WordGoing(head, pipeRow, cycleCnt)

LEMMA NothingTakenYet ==
  ASSUME NEW rows, NEW maxima, NEW h, NEW r
  PROVE  RowTaken(rows, maxima, h, r, 0) /\ Raised(rows, maxima, h, r, 0)
<1>1. ~(0 >= 1) /\ \A k \in Lane : ~(k < 0)
  BY Places, Sizes
<1>2. QED
  BY <1>1 DEF RowTaken, Raised

LEMMA SoftDataStart ==
  ASSUME job = "SOFTMAX", sfState = "IDLE", ~prevEn, UNCHANGED <<job, head>>,
         SF!Clock(TRUE, rdata["1"])
  PROVE  SoftData'
<1>1. cycleCnt' = 0 /\ pipeRow' = 0 /\ ~prevEn' /\ ~writeReq'
  BY DEF SF!Clock, SF!Sequence, SF!FindMax, SF!Divide, SF!Busy
<1>2. ~(0 >= 1) /\ 0 \notin 1 .. Mat /\ 0 \notin 2 .. Mat + 1
  OBVIOUS
<1>3. Softening(rowBuffer', rowMax', expBuffer', expSum', head', 0, 0)
  BY <1>2, NothingTakenYet DEF Softening
<1>4. Softening(rowBuffer, rowMax, expBuffer, expSum, head, pipeRow, cycleCnt)'
  BY <1>1, <1>3
<1>5. QED
  BY <1>1, <1>2, <1>4 DEF SoftData, WordComing, WordGoing

(* The rows of the three stages of the unit are in different buffers.      *)
LEMMA SofteningStep ==
  ASSUME NEW h, NEW r \in 0 .. Mat + 1, NEW c \in 0 .. Array, NEW word, SFTypes,
         sfState = "RUNNING", pipeRow = r, cycleCnt = c,
         Softening(rowBuffer, rowMax, expBuffer, expSum, h, r, c), WordComing(word, h, r, c),
         SF!FindMax(word), SF!Exponentials
  PROVE  IF c = Array THEN Softening(rowBuffer', rowMax', expBuffer', expSum', h, r + 1, 0)
         ELSE Softening(rowBuffer', rowMax', expBuffer', expSum', h, r, c + 1)
<1>1. /\ Array \in Nat /\ Array >= 2 /\ Lane = 0 .. Array - 1 /\ Mat \in Nat /\ Mat >= 2
      /\ SF!Blocks = Array /\ c \in Nat /\ r \in Nat
  BY Sizes, Places, Copies
<1>2. SF!Busy(1) <=> c < Array /\ r \in 1 .. Mat
  BY <1>1 DEF SF!Busy
<1>3. ASSUME r < Mat
      PROVE  RowTaken(rowBuffer', rowMax', h, r, c)
  <2>1. RowTaken(rowBuffer, rowMax, h, r, IF c = 0 THEN 0 ELSE c - 1)
    BY <1>3 DEF Softening
  <2>2. CASE c = 0
    BY <2>2, NothingTakenYet
  <2>3. CASE c # 0
    <3>1. prevEn /\ prevChunk = c - 1 /\ prevRow = r /\ word = RowPart("E", h, r, c - 1)
      BY <1>1, <1>3, <2>3 DEF WordComing
    <3>2. PICK n \in Lane : n = c - 1 /\ n + 1 = c
      BY <1>1, <2>3
    <3>3. RowTaken(rowBuffer, rowMax, h, r, n)
      BY <2>1, <2>3, <3>2
    <3>4. RowTaken(rowBuffer', rowMax', h, r, n + 1)
      BY <1>1, <3>1, <3>2, <3>3, RowTakenStep
    <3>5. QED
      BY <3>2, <3>4
  <2>4. QED
    BY <2>2, <2>3
<1>4. ASSUME r \in 1 .. Mat
      PROVE  RowTaken(rowBuffer', rowMax', h, r - 1, Array)
  <2>1. PICK q \in Nat : q = r - 1 /\ q % 2 # r % 2
    <3>1. r - 1 \in Nat /\ (r - 1) + 1 = r
      BY <1>1, <1>4
    <3>2. QED
      BY <3>1, Parities
  <2>2. RowTaken(rowBuffer, rowMax, h, q, Array)
    BY <1>4, <2>1 DEF Softening
  <2>3. prevEn => prevRow % 2 # q % 2
    BY <2>1 DEF WordComing
  <2>4. RowTaken(rowBuffer', rowMax', h, q, Array)
    BY <2>2, <2>3, RowTakenKeep
  <2>5. QED
    BY <2>1, <2>4
<1>5. ASSUME r \in 1 .. Mat
      PROVE  Raised(expBuffer', expSum', h, r - 1, IF c = Array THEN Array ELSE c + 1)
  <2>1. PICK q \in Nat : q = r - 1
    BY <1>1, <1>5
  <2>2. RowTaken(rowBuffer, rowMax, h, q, Array) /\ Raised(expBuffer, expSum, h, q, c)
    BY <1>5, <2>1 DEF Softening
  <2>3. CASE c = Array
    <3>1. ~SF!Busy(1)
      BY <1>2, <2>3
    <3>2. Raised(expBuffer', expSum', h, q, c)
      BY <2>2, <3>1, RaisedKeep
    <3>3. QED
      BY <2>1, <2>3, <3>2
  <2>4. CASE c # Array
    <3>1. c \in Lane /\ SF!Busy(1) /\ SF!RowAt(1) = q
      BY <1>1, <1>2, <1>5, <2>1, <2>4 DEF SF!RowAt
    <3>2. Raised(expBuffer', expSum', h, q, c + 1)
      BY <2>2, <3>1, RaisedStep
    <3>3. QED
      BY <2>1, <2>4, <3>2
  <2>5. QED
    BY <2>3, <2>4
<1>6. ASSUME r \in 2 .. Mat + 1
      PROVE  Raised(expBuffer', expSum', h, r - 2, Array)
  <2>1. PICK q \in Nat : q = r - 2 /\ q + 1 = r - 1 /\ (q + 1) % 2 # q % 2
    <3>1. r - 2 \in Nat /\ (r - 2) + 1 = r - 1
      BY <1>1, <1>6
    <3>2. QED
      BY <3>1, Parities
  <2>2. Raised(expBuffer, expSum, h, q, Array)
    BY <1>6, <2>1 DEF Softening
  <2>3. SF!RowAt(1) % 2 # q % 2
    BY <2>1 DEF SF!RowAt
  <2>4. Raised(expBuffer', expSum', h, q, Array)
    BY <2>2, <2>3, RaisedKeep
  <2>5. QED
    BY <2>1, <2>4
<1>7. CASE c = Array
  <2>1. (r + 1 < Mat => r < Mat) /\ (r + 1 \in 1 .. Mat => r < Mat) /\ (r + 1) - 1 = r
        /\ (r + 1 \in 2 .. Mat + 1 => r \in 1 .. Mat) /\ (r + 1) - 2 = r - 1
    BY <1>1
  <2>2. RowTaken(rowBuffer', rowMax', h, r + 1, 0)
    BY NothingTakenYet
  <2>3. Raised(expBuffer', expSum', h, r, 0)
    BY NothingTakenYet
  <2>4. Softening(rowBuffer', rowMax', expBuffer', expSum', h, r + 1, 0)
    BY <1>3, <1>5, <1>7, <2>1, <2>2, <2>3 DEF Softening
  <2>5. QED
    BY <1>7, <2>4
<1>8. CASE c # Array
  <2>1. c + 1 # 0 /\ (c + 1) - 1 = c
    BY <1>1
  <2>2. Softening(rowBuffer', rowMax', expBuffer', expSum', h, r, c + 1)
    BY <1>3, <1>4, <1>5, <1>6, <1>8, <2>1 DEF Softening
  <2>3. QED
    BY <1>8, <2>2
<1>9. QED
  BY <1>7, <1>8

LEMMA WordComingStep ==
  ASSUME NEW h \in HeadId, NEW r \in 0 .. Mat + 1, NEW c \in 0 .. Array, NEW word,
         sfState = "RUNNING", pipeRow = r, cycleCnt = c, ram["1"] = Plain("E", h),
         SF!FindMax(word), ReadMemories, WriteValid => Write.to = {"2"}
  PROVE  IF c = Array THEN WordComing(rdata["1"], h, r + 1, 0)'
         ELSE WordComing(rdata["1"], h, r, c + 1)'
<1>1. /\ Array \in Nat /\ Array >= 2 /\ Lane = 0 .. Array - 1 /\ Mat \in Nat /\ Mat >= 2
      /\ SF!Blocks = Array /\ c \in Nat /\ r \in Nat /\ Index = 0 .. Mat - 1
  BY Sizes, Places, Copies DEF Index
<1>2. SF!Busy(0) <=> c < Array /\ r < Mat
  BY <1>1 DEF SF!Busy
<1>3. prevEn' <=> c < Array /\ r < Mat
  BY <1>2 DEF SF!FindMax
<1>4. ASSUME c < Array, r < Mat
      PROVE  prevChunk' = c /\ prevRow' = r /\ rdata'["1"] = RowPart("E", h, r, c)
  <2>1. prevChunk' = c /\ prevRow' = r
    <3>1. c % Array = c /\ r % Mat = r
      BY <1>1, <1>4
    <3>2. QED
      BY <1>1, <3>1 DEF SF!FindMax
  <2>2. Asked("1") = {r * Array + c}
    <3>1. SF!ReadReq /\ SF!ReadAddr = r * Array + c
      BY <1>1, <1>2, <1>4 DEF SF!ReadReq, SF!ReadAddr
    <3>2. QED
      BY <3>1 DEF Asked
  <2>3. rdata'["1"] = ram["1"][r * Array + c]
    <3>1. (CHOOSE x \in Asked("1") : TRUE) = r * Array + c /\ Asked("1") # {}
      BY <2>2
    <3>2. "1" \in Memory
      BY DEF Memory
    <3>3. QED
      BY <3>1, <3>2 DEF ReadMemories
  <2>4. Plain("E", h)[r * Array + c] = RowPart("E", h, r, c)
    <3>1. r \in Index /\ c \in Lane
      BY <1>1, <1>4
    <3>2. QED
      BY <3>1, LayoutAt
  <2>5. QED
    BY <2>1, <2>3, <2>4
<1>5. CASE c = Array
  <2>1. ~prevEn' /\ ~(0 >= 1)
    BY <1>1, <1>3, <1>5
  <2>2. QED
    BY <1>5, <2>1 DEF WordComing
<1>6. CASE c # Array
  <2>1. c < Array /\ c + 1 >= 1 /\ (c + 1) - 1 = c
    BY <1>1, <1>6
  <2>2. QED
    BY <1>3, <1>4, <1>6, <2>1 DEF WordComing
<1>7. QED
  BY <1>5, <1>6

LEMMA WordGoingStep ==
  ASSUME NEW h \in HeadId, NEW r \in 0 .. Mat + 1, NEW c \in 0 .. Array,
         sfState = "RUNNING", pipeRow = r, cycleCnt = c, SF!Divide,
         Softening(rowBuffer, rowMax, expBuffer, expSum, h, r, c)
  PROVE  IF c = Array THEN WordGoing(h, r + 1, 0)' ELSE WordGoing(h, r, c + 1)'
<1>1. /\ Array \in Nat /\ Array >= 2 /\ Lane = 0 .. Array - 1 /\ Mat \in Nat /\ Mat >= 2
      /\ SF!Blocks = Array /\ c \in Nat /\ r \in Nat /\ Index = 0 .. Mat - 1
  BY Sizes, Places, Copies DEF Index
<1>2. writeReq' <=> SF!Busy(2)
  BY DEF SF!Divide
<1>3. SF!Busy(2) <=> c < Array /\ r \in 2 .. Mat + 1
  BY <1>1 DEF SF!Busy
<1>4. CASE c = Array
  BY <1>2, <1>3, <1>4 DEF WordGoing
<1>5. CASE c # Array /\ r \in 2 .. Mat + 1
  <2>1. PICK q \in Index, n \in Lane : q = r - 2 /\ n = c /\ (c + 1) - 1 = n
    BY <1>1, <1>5
  <2>2. Raised(expBuffer, expSum, h, q, Array) /\ SF!RowAt(2) = q /\ SF!Busy(2)
    BY <1>1, <1>3, <1>5, <2>1 DEF Softening, SF!RowAt
  <2>3. writeAddr' = q * Array + n /\ writeData' = RowPart("S", h, q, n)
    BY <2>1, <2>2, Divided
  <2>4. QED
    BY <1>5, <2>1, <2>3 DEF WordGoing
<1>6. CASE c # Array /\ r \notin 2 .. Mat + 1
  BY <1>2, <1>3, <1>6 DEF WordGoing
<1>7. QED
  BY <1>4, <1>5, <1>6

LEMMA SoftWrites ==
  ASSUME job = "SOFTMAX", head \in HeadId, Normalizing, NoProduct, ~reading, SoftData, WriteValid
  PROVE  RightWrite
<1>1. /\ Array \in Nat /\ Array >= 2 /\ Lane = 0 .. Array - 1 /\ Mat \in Nat
      /\ Index = 0 .. Mat - 1
  BY Sizes, Places DEF Index
<1>2. writeReq
  BY DEF WriteValid, CT!Mode, TR!ValidOut, NoProduct, MM!ValidOut, MM!Emerged
<1>3. pipeRow \in 2 .. Mat + 1 /\ cycleCnt \in 1 .. Array
      /\ writeCounter = Array * (pipeRow - 2) + (cycleCnt - 1)
  BY <1>1, <1>2 DEF Normalizing
<1>4. PICK q \in Index, n \in Lane : q = pipeRow - 2 /\ n = cycleCnt - 1
  BY <1>1, <1>3
<1>5. writeAddr = q * Array + n /\ writeData = RowPart("S", head, q, n)
  BY <1>2, <1>4 DEF SoftData, WordGoing
<1>6. writeCounter = q * Array + n /\ writeCounter \in Nat
  <2>1. q * Array \in Nat /\ q * Array = Array * q
    BY <1>1, Multiples
  <2>2. QED
    BY <1>1, <1>3, <1>4, <2>1
<1>7. Write.addr = writeCounter /\ Write.data = RowPart("S", head, q, n) /\ Write.to = {"2"}
  <2>1. CT!Enabled = {}
    BY DEF CT!Enabled, CT!MatMulJob
  <2>2. QED
    BY <1>2, <1>5, <1>6, <2>1 DEF Write
<1>8. /\ q * Array + n \in Address
      /\ Plain("S", head)[q * Array + n] = RowPart("S", head, q, n)
  BY LayoutAt
<1>9. Goal(job, head) = Plain("S", head) /\ Dest[job] = "2"
  BY DEF Goal, Down, GoalName, GoalHead, Dest
<1>10. Spot(job, head, writeCounter) = writeCounter
  BY DEF Spot
<1>11. QED
  BY <1>6, <1>7, <1>8, <1>9, <1>10 DEF RightWrite

LEMMA SoftDataStep ==
  ASSUME job = "SOFTMAX", head \in HeadId, waiting, UNCHANGED <<job, head>>, Normalizing,
         NoProduct, ~reading, SFTypes, Holds, SoftData, SF!Clock(FALSE, rdata["1"]), Count,
         ReadMemories, ~StageDone
  PROVE  SoftData'
<1>1. PICK r \in 0 .. Mat + 1, c \in 0 .. Array : pipeRow = r /\ cycleCnt = c
  BY DEF Normalizing
<1>2. sfState = "RUNNING" /\ sfState' = "RUNNING"
  <2>1. Normalizing'
    BY SoftmaxStep
  <2>2. QED
    BY <2>1 DEF Normalizing
<1>3. IF c = Array THEN pipeRow' = r + 1 /\ cycleCnt' = 0 ELSE pipeRow' = r /\ cycleCnt' = c + 1
  <2>1. SF!Blocks = Array
    BY Sizes, Copies
  <2>2. QED
    BY <1>1, <1>2, <2>1 DEF SF!Clock, SF!Sequence
<1>4. /\ SF!FindMax(rdata["1"]) /\ SF!Exponentials /\ SF!Divide
      /\ WordComing(rdata["1"], head, r, c) /\ ram["1"] = Plain("E", head)
      /\ Softening(rowBuffer, rowMax, expBuffer, expSum, head, r, c)
  BY <1>1 DEF SF!Clock, SoftData, Holds, HoldsIn
<1>5. WriteValid => Write.to = {"2"}
  BY SoftWrites DEF RightWrite, Dest
<1>6. IF c = Array THEN Softening(rowBuffer', rowMax', expBuffer', expSum', head, r + 1, 0)
      ELSE Softening(rowBuffer', rowMax', expBuffer', expSum', head, r, c + 1)
  BY <1>1, <1>2, <1>4, SofteningStep
<1>7. IF c = Array THEN WordComing(rdata["1"], head, r + 1, 0)'
      ELSE WordComing(rdata["1"], head, r, c + 1)'
  <2>1. PICK h \in HeadId : h = head
    OBVIOUS
  <2>2. IF c = Array THEN WordComing(rdata["1"], h, r + 1, 0)'
        ELSE WordComing(rdata["1"], h, r, c + 1)'
    BY <1>1, <1>2, <1>4, <1>5, <2>1, WordComingStep
  <2>3. QED
    BY <2>1, <2>2
<1>8. IF c = Array THEN WordGoing(head, r + 1, 0)' ELSE WordGoing(head, r, c + 1)'
  <2>1. PICK h \in HeadId : h = head
    OBVIOUS
  <2>2. IF c = Array THEN WordGoing(h, r + 1, 0)' ELSE WordGoing(h, r, c + 1)'
    BY <1>1, <1>2, <1>4, <2>1, WordGoingStep
  <2>3. QED
    BY <2>1, <2>2
<1>9. QED
  BY <1>3, <1>6, <1>7, <1>8 DEF SoftData

-----------------------------------------------------------------------------
(* The relay gives the transposer the words of S in the order of blocks.   *)
RelayComing(delayed, word, j, h, n) ==
  /\ delayed = [row |-> n % Array, br |-> Br(j, n \div Array), bc |-> Bc(j, h, n \div Array)]
  /\ word = RowMade(j, h, n \div Array, n % Array)

(* The number of the word that is on its way into the transposer. *)
Behind == IF trRunning THEN (IF trCounter = 0 THEN 0 ELSE trCounter - 1) ELSE Last - 1
RelayData ==
  /\ trValidIn => Filled(Behind) /\ RelayComing(trDelayed, rdata["2"], job, head, Behind)
  /\ ~trRunning /\ ~trValidIn => Filled(Last)

LEMMA LastIs ==
  /\ Last \in Nat /\ Last = Array * Mat /\ Array <= Last - 1 /\ Mat \in Nat /\ Mat >= 1
  /\ BlocksOf("TRANSPOSE") = Mat
<1>1. Array \in Nat /\ Array >= 2 /\ Mat \in Nat /\ 2 * Array <= Mat /\ Mat = Array * Array
  BY Sizes
<1>2. Last = Array * Mat /\ Last \in Nat
  BY <1>1, Multiples DEF Last
<1>3. Array * 1 + Array <= Array * Mat
  <2>1. 1 < Mat
    BY <1>1
  <2>2. QED
    BY <1>1, <2>1, MoreMultiples
<1>4. QED
  BY <1>1, <1>2, <1>3 DEF BlocksOf

LEMMA RelayWord ==
  ASSUME NEW t \in 0 .. Last - 1, NEW h \in HeadId, trCounter = t
  PROVE  /\ RelayRow = [row |-> t % Array, br |-> Br("TRANSPOSE", t \div Array),
                        bc |-> Bc("TRANSPOSE", h, t \div Array)]
         /\ RelayAddr \in Address
         /\ Plain("S", h)[RelayAddr] = RowMade("TRANSPOSE", h, t \div Array, t % Array)
<1>1. /\ Array \in Nat \ {0} /\ Lane = 0 .. Array - 1 /\ Index = 0 .. Mat - 1 /\ Mat = Array * Array
      /\ Blocks = Array /\ t \in Nat /\ t < Array * Mat /\ Mat \in Nat
  BY LastIs, Sizes, Places
<1>2. PICK n \in Nat, i \in Lane : n = t \div Array /\ i = t % Array /\ t = Array * n + i /\ n < Mat
  <2>1. t \div Array < Mat
    BY <1>1, Below
  <2>2. t % Array \in Lane /\ t \div Array \in Nat /\ t = Array * (t \div Array) + (t % Array)
    BY <1>1, NextDigit
  <2>3. QED
    BY <2>1, <2>2
<1>3. PICK c \in Nat, b \in Lane : c = n \div Array /\ b = n % Array /\ n = Array * c + b /\ c < Array
  <2>1. n \div Array < Array
    BY <1>1, <1>2, Below
  <2>2. n % Array \in Lane /\ n \div Array \in Nat /\ n = Array * (n \div Array) + (n % Array)
    BY <1>2, NextDigit
  <2>3. QED
    BY <2>1, <2>2
<1>4. t \div (Blocks * Array) = c
  <2>1. PICK x \in Nat : x = Blocks * Array /\ x # 0
    BY <1>1
  <2>2. PICK y \in 0 .. x - 1 : y = Array * b + i
    <3>1. b * Array + i \in 0 .. Array * Array - 1 /\ b * Array = Array * b
      BY <1>1, InRow, Multiples
    <3>2. QED
      BY <1>1, <2>1, <3>1
  <2>3. t = x * c + y
    <3>1. PICK u \in Nat : u = Array * (Array * c)
      <4>1. Array * c \in Nat
        BY <1>1, <1>3, Multiples
      <4>2. QED
        BY <1>1, <4>1, Multiples
    <3>2. Array * (Array * c + b) = u + Array * b
      <4>1. PICK w \in Nat : w = Array * c
        BY <1>1, <1>3, Multiples
      <4>2. Array * (w + b) = Array * w + Array * b
        BY <1>1, <4>1
      <4>3. QED
        BY <3>1, <4>1, <4>2
    <3>3. Array * (Array * c) = (Array * Array) * c
      BY <1>1, <1>3
    <3>4. x * c = u
      BY <1>1, <2>1, <3>1, <3>3
    <3>5. PICK v \in Nat : v = Array * b
      BY <1>1, Multiples
    <3>6. t = (u + v) + i /\ y = v + i
      BY <1>2, <1>3, <2>2, <3>2, <3>5
    <3>7. i \in Nat
      BY <1>1
    <3>8. t = u + y
      BY <3>1, <3>5, <3>6, <3>7
    <3>9. QED
      BY <3>4, <3>8
  <2>4. (x * c + y) \div x = c
    BY <1>3, <2>1, <2>2, Division
  <2>5. QED
    BY <2>1, <2>3, <2>4
<1>5. Br("TRANSPOSE", n) = b /\ Bc("TRANSPOSE", h, n) = c
  BY <1>3 DEF Br, Bc, Down, FirstCol
<1>6. RelayRow = [row |-> i, br |-> b, bc |-> c]
  BY <1>1, <1>2, <1>3, <1>4 DEF RelayRow
<1>7. PICK x \in Index, y \in Lane : x = b * Array + i /\ y = c
  <2>1. b * Array + i \in 0 .. Array * Array - 1 /\ c \in Lane
    BY <1>1, <1>3, InRow
  <2>2. QED
    BY <1>1, <2>1
<1>8. RelayAddr = x * Array + y
  BY <1>1, <1>6, <1>7 DEF RelayAddr
<1>9. x * Array + y \in Address /\ Plain("S", h)[x * Array + y] = RowPart("S", h, x, y)
  BY LayoutAt
<1>10. RowMade("TRANSPOSE", h, n, i) = RowPart("S", h, x, y)
  BY <1>5, <1>7 DEF RowMade, Made, RowPart, GoalName, GoalHead
<1>11. QED
  BY <1>2, <1>5, <1>6, <1>8, <1>9, <1>10

LEMMA RelayDataStart ==
  job = "TRANSPOSE" /\ ~waiting /\ NoRelay /\ Relay => RelayData'
BY DEF NoRelay, Relay, CT!StartTranspose, RelayData

(* A column of block m comes out while a row of the block after it goes in.*)
LEMMA RelayColumn ==
  ASSUME job = "TRANSPOSE", head \in HeadId, ~writeReq, reading, NEW m \in Nat, NEW i \in Lane, m < Mat,
         FullWith(buf[1 - sel], at[1 - sel], job, head, m), readIdx = i, writeCounter = Array * m + i
  PROVE  RightWrite
<1>1. m \in 0 .. BlocksOf(job) - 1
  BY LastIs
<1>2. Write.to = {Dest[job]}
  <2>1. CT!Enabled = {} /\ ~CT!Mode.transpose
    BY DEF CT!Enabled, CT!MatMulJob, CT!Mode
  <2>2. QED
    BY <2>1 DEF Write, TR!ValidOut, Dest
<1>3. job \in CT!Stage \ {"SOFTMAX"} /\ Down(job)
  BY DEF CT!Stage, Down
<1>4. QED
  BY <1>1, <1>2, <1>3, ColumnRight

LEMMA RelayWrites ==
  ASSUME job = "TRANSPOSE", head \in HeadId, NoProduct, ~writeReq, Relaying, RelayData, WriteValid
  PROVE  RightWrite
<1>1. reading
  BY DEF WriteValid, CT!Mode, TR!ValidOut, NoProduct, MM!ValidOut, MM!Emerged
<1>2. Array \in Nat /\ Array >= 2 /\ Array \in Nat \ {0} /\ Lane = 0 .. Array - 1 /\ Mat \in Nat /\ Mat >= 1
      /\ Last = Array * Mat /\ Last \in Nat /\ Array <= Last - 1
  BY LastIs, Sizes, Places
<1>3. ASSUME NEW n \in Nat, n >= Array, n < Last, Filled(n), readIdx = n % Array, writeCounter = n - Array
      PROVE  RightWrite
  <2>1. PICK q \in Nat, i \in Lane : q = n \div Array /\ i = n % Array /\ n = Array * q + i /\ q < Mat
    <3>1. n \div Array < Mat
      BY <1>2, <1>3, Below
    <3>2. n % Array \in Lane /\ n \div Array \in Nat /\ n = Array * (n \div Array) + (n % Array)
      BY NextDigit
    <3>3. QED
      BY <3>1, <3>2
  <2>2. q # 0
    BY <1>2, <1>3, <2>1
  <2>3. PICK m \in Nat : q = m + 1
    <3>1. q - 1 \in Nat /\ q = (q - 1) + 1
      BY <2>1, <2>2
    <3>2. QED
      BY <3>1
  <2>4. FilledWith(sel, buf, at, job, head, Array * (m + 1) + i)
    BY <1>3, <2>1, <2>3 DEF Filled
  <2>5. FullWith(buf[1 - sel], at[1 - sel], job, head, m)
    BY <2>4, FilledFull
  <2>6. writeCounter = Array * m + i
    <3>1. Array * (m + 1) = Array * m + Array /\ Array * m \in Nat
      BY <1>2, Multiples
    <3>2. QED
      BY <1>2, <1>3, <2>1, <2>3, <3>1
  <2>7. m < Mat /\ readIdx = i
    BY <1>2, <1>3, <2>1, <2>3
  <2>8. QED
    BY <1>1, <2>1, <2>3, <2>5, <2>6, <2>7, RelayColumn
<1>4. CASE trRunning
  <2>1. /\ trValidIn /\ trCounter \in 1 .. Last - 1 /\ ~(trCounter <= Array)
        /\ readIdx = (trCounter - 1) % Array /\ writeCounter = trCounter - 1 - Array
    BY <1>1, <1>4 DEF Relaying
  <2>2. PICK n \in Nat : n = trCounter - 1 /\ n >= Array /\ n < Last
    <3>1. trCounter - 1 \in Nat /\ trCounter - 1 >= Array /\ trCounter - 1 < Last
      BY <1>2, <2>1
    <3>2. QED
      BY <3>1
  <2>3. Behind = n
    BY <1>2, <1>4, <2>1, <2>2 DEF Behind
  <2>4. QED
    BY <1>3, <2>1, <2>2, <2>3 DEF RelayData
<1>5. CASE ~trRunning /\ trValidIn
  <2>1. readIdx = Array - 1 /\ writeCounter = Last - 1 - Array
    BY <1>5 DEF Relaying
  <2>2. PICK n \in Nat : n = Last - 1 /\ n >= Array /\ n < Last
    BY <1>2
  <2>3. n % Array = Array - 1
    <3>1. Array * (Mat - 1) = Array * Mat - Array /\ Mat - 1 \in Nat
      BY <1>2, Multiples
    <3>2. PICK q \in Nat, r \in 0 .. Array - 1 : q = Mat - 1 /\ r = Array - 1
      BY <1>2, <3>1
    <3>3. (Array * q + r) % Array = r
      BY <1>2, <3>2, Division
    <3>4. n = Array * q + r
      BY <1>2, <2>2, <3>1, <3>2
    <3>5. QED
      BY <3>2, <3>3, <3>4
  <2>4. Behind = n
    BY <1>5, <2>2 DEF Behind
  <2>5. QED
    BY <1>3, <1>5, <2>1, <2>2, <2>3, <2>4 DEF RelayData
<1>6. CASE ~trRunning /\ ~trValidIn
  <2>1. PICK i \in Lane : readIdx = i /\ writeCounter = Last - Array + i
    BY <1>6 DEF Relaying
  <2>2. PICK m \in Nat : m = Mat - 1 /\ m + 1 = Mat
    BY <1>2
  <2>3. 0 \in Lane /\ Array * (m + 1) + 0 = Last
    BY <1>2, <2>2
  <2>4. FilledWith(sel, buf, at, job, head, Array * (m + 1) + 0)
    BY <1>6, <2>3 DEF RelayData, Filled
  <2>5. FullWith(buf[1 - sel], at[1 - sel], job, head, m)
    BY <2>3, <2>4, FilledFull
  <2>6. writeCounter = Array * m + i
    <3>1. Array * (Mat - 1) = Array * Mat - Array
      BY <1>2, Multiples
    <3>2. QED
      BY <1>2, <2>1, <2>2, <3>1
  <2>7. QED
    BY <1>1, <2>1, <2>2, <2>5, <2>6, RelayColumn
<1>7. QED
  BY <1>4, <1>5, <1>6

LEMMA RelayDataStep ==
  ASSUME job = "TRANSPOSE", head \in HeadId, waiting, UNCHANGED <<job, head>>, Relaying, NoProduct,
         ~writeReq, TRTypes, Holds, RelayData, Relay, Transpose, ReadMemories
  PROVE  RelayData'
<1>1. /\ Array \in Nat /\ Array >= 2 /\ Array \in Nat \ {0} /\ Lane = 0 .. Array - 1 /\ Mat \in Nat
      /\ Mat * Blocks = Last /\ Last \in Nat /\ Array <= Last - 1
  BY LastIs, Sizes, Places DEF Last
<1>2. /\ IF trValidIn
         THEN /\ trCounter' = (trCounter + 1) % Last
              /\ trRunning' = (trRunning /\ trCounter # Last - 1)
         ELSE UNCHANGED <<trRunning, trCounter>>
      /\ trValidIn' = trRunning /\ trDelayed' = RelayRow
  BY <1>1 DEF Relay, CT!StartTranspose, Last
<1>3. ASSUME NEW t \in 0 .. Last - 1, trCounter = t, trRunning
      PROVE  RelayComing(trDelayed', rdata'["2"], job, head, t)
  <2>1. RelayRow = [row |-> t % Array, br |-> Br(job, t \div Array), bc |-> Bc(job, head, t \div Array)]
        /\ Plain("S", head)[RelayAddr] = RowMade(job, head, t \div Array, t % Array)
    BY <1>3, RelayWord
  <2>2. rdata'["2"] = ram["2"][RelayAddr]
    <3>1. Asked("2") = {RelayAddr}
      BY <1>3 DEF Asked
    <3>2. (CHOOSE x \in Asked("2") : TRUE) = RelayAddr /\ Asked("2") # {}
      BY <3>1
    <3>3. "2" \notin Write.to
      BY DEF Write, CT!Enabled, CT!MatMulJob
    <3>4. "2" \in Memory
      BY DEF Memory
    <3>5. QED
      BY <3>2, <3>3, <3>4 DEF ReadMemories
  <2>3. ram["2"] = Plain("S", head)
    BY DEF Holds, HoldsIn
  <2>4. QED
    BY <1>2, <2>1, <2>2, <2>3 DEF RelayComing
<1>4. ASSUME NEW n \in Nat, trValidIn, Behind = n
      PROVE  FilledWith(sel', buf', at', job, head, n + 1)
  <2>1. FilledWith(sel, buf, at, job, head, n) /\ RelayComing(trDelayed, rdata["2"], job, head, n)
    BY <1>4 DEF RelayData, Filled
  <2>2. TR!Clock(TRUE, trDelayed.row, rdata["2"], [br |-> trDelayed.br, bc |-> trDelayed.bc])
    BY <1>4 DEF Transpose
  <2>3. n % Array \in Lane /\ trDelayed.row = n % Array
        /\ [br |-> trDelayed.br, bc |-> trDelayed.bc] = PlaceFor(job, head, n \div Array)
        /\ rdata["2"] = RowMade(job, head, n \div Array, n % Array)
    BY <1>4, <2>1, NextDigit DEF RelayComing, PlaceFor
  <2>4. QED
    BY <2>1, <2>2, <2>3, FilledStep
<1>5. CASE trRunning /\ ~trValidIn
  <2>1. trCounter = 0 /\ 0 \in 0 .. Last - 1
    BY <1>1, <1>5 DEF Relaying
  <2>2. trRunning' /\ trValidIn' /\ trCounter' = 0 /\ Behind' = 0
    BY <1>2, <1>5, <2>1 DEF Behind
  <2>3. RelayComing(trDelayed', rdata'["2"], job, head, 0)
    BY <1>3, <1>5, <2>1
  <2>4. FilledWith(sel', buf', at', job', head', 0)
    BY FilledFirst
  <2>5. Filled(Behind)' /\ RelayComing(trDelayed', rdata'["2"], job', head', Behind')
    BY <2>2, <2>3, <2>4 DEF Filled
  <2>6. QED
    BY <2>2, <2>5 DEF RelayData
<1>6. CASE trRunning /\ trValidIn /\ trCounter = 0
  <2>1. (0 + 1) % Last = 1 /\ 0 # Last - 1 /\ 0 \in 0 .. Last - 1
    BY <1>1
  <2>2. trRunning' /\ trValidIn' /\ Behind' = 0
    <3>1. trRunning' /\ trValidIn' /\ trCounter' = (0 + 1) % Last
      BY <1>2, <1>6, <2>1
    <3>2. trCounter' = 1
      BY <2>1, <3>1
    <3>3. 1 # 0 /\ 1 - 1 = 0
      OBVIOUS
    <3>4. Behind' = trCounter' - 1
      BY <3>1, <3>2, <3>3 DEF Behind
    <3>5. QED
      BY <3>1, <3>2, <3>3, <3>4
  <2>3. RelayComing(trDelayed', rdata'["2"], job, head, 0)
    BY <1>3, <1>6, <2>1
  <2>4. FilledWith(sel', buf', at', job', head', 0)
    BY FilledFirst
  <2>5. Filled(Behind)' /\ RelayComing(trDelayed', rdata'["2"], job', head', Behind')
    BY <2>2, <2>3, <2>4 DEF Filled
  <2>6. QED
    BY <2>2, <2>5 DEF RelayData
<1>7. CASE trRunning /\ trValidIn /\ trCounter # 0
  <2>1. PICK t \in 1 .. Last - 1 : t = trCounter
    BY <1>7 DEF Relaying
  <2>2. PICK n \in Nat : n = t - 1 /\ n + 1 = t
    BY <2>1
  <2>3. Behind = n
    BY <1>7, <2>1, <2>2 DEF Behind
  <2>4. FilledWith(sel', buf', at', job, head, t)
    BY <1>4, <1>7, <2>2, <2>3
  <2>5. RelayComing(trDelayed', rdata'["2"], job, head, t)
    <3>1. t \in 0 .. Last - 1
      BY <1>1
    <3>2. QED
      BY <1>3, <1>7, <2>1, <3>1
  <2>6. trValidIn' /\ Behind' = t
    <3>1. CASE t = Last - 1
      BY <1>2, <1>7, <2>1, <3>1 DEF Behind
    <3>2. CASE t # Last - 1
      <4>1. (t + 1) % Last = t + 1 /\ t + 1 # 0 /\ (t + 1) - 1 = t
        BY <1>1, <3>2
      <4>2. QED
        BY <1>2, <1>7, <2>1, <3>2, <4>1 DEF Behind
    <3>3. QED
      BY <3>1, <3>2
  <2>7. Filled(Behind)' /\ RelayComing(trDelayed', rdata'["2"], job', head', Behind')
    BY <2>4, <2>5, <2>6 DEF Filled
  <2>8. QED
    BY <2>6, <2>7 DEF RelayData
<1>8. CASE ~trRunning /\ trValidIn
  <2>1. PICK n \in Nat : n = Last - 1 /\ n + 1 = Last
    BY <1>1
  <2>2. FilledWith(sel', buf', at', job, head, Last)
    BY <1>4, <1>8, <2>1 DEF Behind
  <2>3. ~trRunning' /\ ~trValidIn'
    BY <1>2, <1>8
  <2>4. Last' = Last
    BY DEF Last
  <2>5. QED
    BY <2>2, <2>3, <2>4 DEF RelayData, Filled
<1>9. CASE ~trRunning /\ ~trValidIn
  <2>1. FilledWith(sel, buf, at, job, head, Last)
    BY <1>9 DEF RelayData, Filled
  <2>2. TR!Clock(FALSE, 0, JunkWord, [br |-> 0, bc |-> 0])
    <3>1. ~MM!ValidOut
      BY DEF NoProduct, MM!ValidOut, MM!Emerged
    <3>2. QED
      BY <1>9, <3>1 DEF Transpose
  <2>3. FilledWith(sel', buf', at', job, head, Last)
    BY <2>1, <2>2, FilledRests
  <2>4. ~trRunning' /\ ~trValidIn'
    BY <1>2, <1>9
  <2>5. QED
    BY <2>3, <2>4 DEF RelayData, Filled
<1>10. QED
  BY <1>5, <1>6, <1>7, <1>8, <1>9

-----------------------------------------------------------------------------
(* The words counted are those of the stage, and what it wrote is right.   *)
InCount == writeCounter \in 0 .. Last /\ (waiting => writeCounter <= TargetWriteCount)

DataInv ==
  /\ InCount /\ Holds
  /\ waiting => SoFar
  /\ waiting /\ job \in CT!MatMulJob => \E b, p \in Nat : Multiplying(b, p) /\ ProductData(b, p)
  /\ ~(waiting /\ job \in CT!MatMulJob) => NothingTaken
  /\ waiting /\ job = "SOFTMAX" => SoftData
  /\ waiting /\ job = "TRANSPOSE" => RelayData

LEMMA Silent ==
  NoProduct /\ ~reading /\ ~writeReq => ~WriteValid
BY DEF WriteValid, CT!Mode, TR!ValidOut, NoProduct, MM!ValidOut, MM!Emerged

LEMMA Targets ==
  TargetWriteCount \in Nat /\ TargetWriteCount + 1 <= Last /\ Last \in Nat
<1>1. /\ Array \in Nat /\ Array >= 2 /\ Mat \in Nat /\ Last \in Nat /\ Last = Array * Mat
      /\ Array <= Last - 1 /\ Mat = Array * Array
  BY LastIs, Sizes
<1>2. PICK v \in Nat \ {0} : /\ Array = Heads * v /\ Array <= Array * v
                             /\ (Mat * Array) \div Heads = Array * (Array * v)
  BY Sizes
<1>3. v <= Array
  <2>1. Heads \in Nat \ {0}
    BY Sizes
  <2>2. CASE Heads = 1
    BY <1>1, <1>2, <2>2
  <2>3. CASE Heads # 1
    <3>1. v * 1 + v <= v * Heads /\ v * Heads = Heads * v
      BY <1>2, <2>1, <2>3, MoreMultiples, Multiples
    <3>2. QED
      BY <1>2, <3>1
  <2>4. QED
    BY <2>2, <2>3
<1>4. PICK w \in Nat : w = Array * v /\ 1 <= w /\ w <= Mat
  <2>1. Array * v \in Nat
    BY <1>1, <1>2, Multiples
  <2>2. CASE v = Array
    BY <1>1, <1>2, <2>1, <2>2
  <2>3. CASE v < Array
    <3>1. Array * v + Array <= Array * Array
      BY <1>1, <1>2, <2>3, MoreMultiples
    <3>2. QED
      BY <1>1, <1>2, <2>1, <3>1
  <2>4. QED
    BY <1>1, <1>2, <1>3, <2>2, <2>3
<1>5. Array * w \in Nat /\ 1 <= Array * w /\ Array * w <= Last
  <2>1. Array * w \in Nat
    BY <1>1, <1>4, Multiples
  <2>2. Array * 0 + Array <= Array * w
    BY <1>1, <1>4, MoreMultiples
  <2>3. CASE w = Mat
    BY <1>1, <2>1, <2>3
  <2>4. CASE w < Mat
    <3>1. Array * w + Array <= Array * Mat
      BY <1>1, <1>4, <2>4, MoreMultiples
    <3>2. QED
      BY <1>1, <2>1, <2>2, <3>1
  <2>5. QED
    BY <1>1, <1>4, <2>1, <2>2, <2>3, <2>4
<1>6. TargetWriteCount = (IF CT!Mode.calcZ THEN Array * w ELSE Last) - 1
  BY <1>2, <1>4 DEF TargetWriteCount, Last
<1>7. QED
  BY <1>1, <1>5, <1>6

LEMMA InCountStep ==
  ASSUME NEW start, TimeInv, InCount, CT!Clock(start, StageDone), Count
  PROVE  InCount'
<1>1. TargetWriteCount \in Nat /\ TargetWriteCount + 1 <= Last /\ Last \in Nat /\ Last' = Last
  BY Targets DEF Last
<1>2. CASE job \in CT!Stage /\ ~waiting
  <2>1. writeCounter' = 0
    BY <1>2 DEF Count, CT!Stage, CT!StartMatMul, CT!StartSoftmax, CT!StartTranspose
  <2>2. UNCHANGED <<job, head>>
    BY <1>2 DEF CT!Clock, CT!Rest, CT!PassOn, CT!Begin, CT!Await, CT!Stage, CT!MatMulJob
  <2>3. TargetWriteCount' = TargetWriteCount
    BY <2>2, SameTask
  <2>4. QED
    BY <1>1, <2>1, <2>3 DEF InCount
<1>3. CASE job \notin CT!Stage
  <2>1. ~waiting /\ NoProduct /\ ~reading /\ ~writeReq
    BY <1>3 DEF TimeInv, NoSoftmax
  <2>2. ~waiting'
    BY <1>3, <2>1 DEF CT!Clock, CT!Rest, CT!PassOn, CT!Begin, CT!Await
  <2>3. writeCounter' = writeCounter
    BY <1>3, <2>1, Silent DEF Count, CT!Stage, CT!StartMatMul, CT!StartSoftmax, CT!StartTranspose
  <2>4. QED
    BY <1>1, <2>2, <2>3 DEF InCount
<1>4. CASE waiting
  <2>1. writeCounter' = IF WriteValid THEN writeCounter + 1 ELSE writeCounter
    BY <1>4 DEF Count, CT!StartMatMul, CT!StartSoftmax, CT!StartTranspose
  <2>2. CT!Await(StageDone)
    BY <1>4 DEF TimeInv, CT!Clock, CT!Rest, CT!PassOn, CT!Begin, CT!Stage, CT!MatMulJob
  <2>3. writeCounter \in Nat /\ writeCounter <= TargetWriteCount
    BY <1>1, <1>4 DEF InCount
  <2>4. CASE StageDone
    <3>1. ~waiting' /\ writeCounter' = TargetWriteCount + 1
      BY <2>1, <2>2, <2>4 DEF CT!Await, StageDone
    <3>2. QED
      BY <1>1, <3>1 DEF InCount
  <2>5. CASE ~StageDone
    <3>1. UNCHANGED <<job, head>>
      BY <2>2, <2>5 DEF CT!Await
    <3>2. TargetWriteCount' = TargetWriteCount
      BY <3>1, SameTask
    <3>3. writeCounter' \in Nat /\ writeCounter' <= TargetWriteCount
      BY <1>1, <2>1, <2>3, <2>5 DEF StageDone
    <3>4. QED
      BY <1>1, <3>2, <3>3 DEF InCount
  <2>6. QED
    BY <2>4, <2>5
<1>5. QED
  BY <1>2, <1>3, <1>4

LEMMA DataInit ==
  Init => DataInv
<1> SUFFICES ASSUME Init PROVE DataInv
  OBVIOUS
<1>1. ~waiting /\ job = "IDLE" /\ head = 0 /\ writeCounter = 0
  BY DEF Init, CT!Init
<1>2. InCount
  BY <1>1, Targets DEF InCount
<1>3. Holds
  BY <1>1 DEF Holds, HoldsIn
<1>4. NothingTaken
  <2>1. acc = [i \in Lane |-> [l \in Lane |-> <<>>]]
    BY Copies DEF Init, MM!Init
  <2>2. QED
    BY <2>1 DEF NothingTaken
<1>5. QED
  BY <1>1, <1>2, <1>3, <1>4 DEF DataInv

(* The steps in which no stage is at work. *)
LEMMA DataBegin ==
  ASSUME NEW start, TimeInv, Types, DataInv, Clock(start), ~waiting
  PROVE  DataInv'
<1>1. /\ CT!Clock(start, StageDone) /\ ProductClock /\ Relay /\ Count /\ WriteMemories(start)
      /\ MM!Clock(CT!StartMatMul, CT!Mode, rdata[CT!SelA], rdata[CT!SelB])
      /\ SF!Clock(CT!StartSoftmax, rdata["1"])
  BY DEF Clock, ProductClock
<1>2. /\ NoProduct /\ NoRelay /\ NoSoftmax /\ ~reading /\ ~writeReq /\ ~prevEn
      /\ job \in CT!Job /\ head \in HeadId /\ head \in 0 .. Heads - 1
  BY DEF TimeInv, NoSoftmax, CT!TypeOK, HeadId
<1>3. InCount'
  BY <1>1, InCountStep DEF DataInv
<1>4. Holds'
  <2>1. ~WriteValid
    BY <1>2, Silent
  <2>2. QED
    BY <1>1, <1>2, <2>1, HoldsIdle DEF DataInv, Types
<1>5. ~CT!StartMatMul => NothingTaken'
  <2>1. NothingTaken
    BY DEF DataInv
  <2>2. QED
    BY <1>1, <1>2, <2>1, NothingTakenRests
<1>6. CASE job \notin CT!Stage
  <2>1. ~waiting' /\ ~CT!StartMatMul
    BY <1>1, <1>6 DEF CT!Clock, CT!Rest, CT!PassOn, CT!Begin, CT!Await, CT!StartMatMul, CT!Stage
  <2>2. QED
    BY <1>3, <1>4, <1>5, <2>1 DEF DataInv
<1>7. CASE job \in CT!Stage
  <2>1. CT!Begin /\ UNCHANGED <<job, head>> /\ waiting'
    BY <1>1, <1>7 DEF CT!Clock, CT!Rest, CT!PassOn, CT!Begin, CT!Await, CT!Stage, CT!MatMulJob
  <2>2. writeCounter' = 0
    BY <1>1, <1>7 DEF Count, CT!Stage, CT!StartMatMul, CT!StartSoftmax, CT!StartTranspose
  <2>3. SoFar'
    <3>1. 0 .. 0 - 1 = {}
      OBVIOUS
    <3>2. QED
      BY <2>2, <3>1 DEF SoFar, SoFarIn
  <2>4. CASE job \in CT!MatMulJob
    <3>1. job # "SOFTMAX" /\ job # "TRANSPOSE"
      BY <2>4 DEF CT!MatMulJob
    <3>2. Multiplying(0, 0)'
      BY <1>1, <1>2, <2>1, <2>4, ProductStart
    <3>3. ProductData(0, 0)'
      <4>1. \A i \in Lane : \A l \in Lane : acc[i][l] = <<>>
        BY DEF DataInv, NothingTaken
      <4>2. QED
        BY <1>1, <1>2, <2>1, <2>4, <4>1, ProductDataStart
    <3>4. \E b, p \in Nat : Multiplying(b, p)' /\ ProductData(b, p)'
      BY <3>2, <3>3
    <3>5. QED
      BY <1>3, <1>4, <2>1, <2>3, <2>4, <3>1, <3>4 DEF DataInv
  <2>5. CASE job = "SOFTMAX"
    <3>1. job \notin CT!MatMulJob /\ ~CT!StartMatMul /\ CT!StartSoftmax
      BY <2>5 DEF CT!MatMulJob, CT!StartMatMul, CT!StartSoftmax
    <3>2. sfState = "IDLE"
      BY <1>2, <2>5 DEF TimeInv, NoSoftmax
    <3>3. SF!Clock(TRUE, rdata["1"])
      BY <1>1, <3>1 DEF CT!StartSoftmax
    <3>4. SoftData'
      BY <1>2, <2>1, <2>5, <3>2, <3>3, SoftDataStart
    <3>5. QED
      BY <1>3, <1>4, <1>5, <2>1, <2>3, <2>5, <3>1, <3>4 DEF DataInv
  <2>6. CASE job = "TRANSPOSE"
    <3>1. job \notin CT!MatMulJob /\ ~CT!StartMatMul
      BY <2>6 DEF CT!MatMulJob, CT!StartMatMul
    <3>2. RelayData'
      BY <1>1, <1>2, <2>6, RelayDataStart
    <3>3. QED
      BY <1>3, <1>4, <1>5, <2>1, <2>3, <2>6, <3>1, <3>2 DEF DataInv
  <2>7. QED
    BY <1>7, <2>4, <2>5, <2>6 DEF CT!Stage
<1>8. QED
  BY <1>6, <1>7

(* The last step of a stage. *)
LEMMA DataEnd ==
  ASSUME NEW start, TimeInv, Types, Types', DataInv, Clock(start), waiting, StageDone,
         WriteValid => RightWrite, NothingTaken'
  PROVE  DataInv'
<1>1. CT!Clock(start, StageDone) /\ Count /\ WriteMemories(start) /\ job \in CT!Stage /\ head \in HeadId
  BY DEF Clock, TimeInv, CT!TypeOK, HeadId
<1>2. CT!Await(StageDone) /\ ~waiting'
  BY <1>1 DEF CT!Clock, CT!Rest, CT!PassOn, CT!Begin, CT!Await, CT!Stage, CT!MatMulJob
<1>3. InCount'
  BY <1>1, InCountStep DEF DataInv
<1>4. Holds'
  BY <1>1, <1>2, HoldsNext DEF DataInv, Types
<1>5. QED
  BY <1>2, <1>3, <1>4 DEF DataInv

(* Every other step of it. *)
LEMMA DataGoesOn ==
  ASSUME NEW start, TimeInv, Types, DataInv, Clock(start), waiting, ~StageDone,
         WriteValid => RightWrite
  PROVE  UNCHANGED <<job, head>> /\ waiting' /\ InCount' /\ Holds' /\ SoFar'
<1>1. CT!Clock(start, StageDone) /\ Count /\ WriteMemories(start) /\ job \in CT!Stage /\ head \in HeadId
  BY DEF Clock, TimeInv, CT!TypeOK, HeadId
<1>2. waiting' /\ UNCHANGED <<job, head>>
  BY <1>1 DEF CT!Clock, CT!Rest, CT!PassOn, CT!Begin, CT!Await, CT!Stage, CT!MatMulJob
<1>3. InCount'
  BY <1>1, InCountStep DEF DataInv
<1>4. Holds'
  BY <1>1, <1>2, HoldsKeep DEF DataInv, Types
<1>5. SoFar'
  <2>1. writeCounter \in Nat
    BY Targets DEF DataInv, InCount
  <2>2. SoFarIn(ram', IF WriteValid THEN writeCounter + 1 ELSE writeCounter)
    BY <1>1, <2>1, SoFarStep DEF DataInv, Types
  <2>3. writeCounter' = IF WriteValid THEN writeCounter + 1 ELSE writeCounter
    BY <1>1 DEF Count, CT!StartMatMul, CT!StartSoftmax, CT!StartTranspose
  <2>4. QED
    BY <1>2, <2>2, <2>3 DEF SoFar, SoFarIn
<1>6. QED
  BY <1>2, <1>3, <1>4, <1>5

(* Whatever is written while a stage is at work is a right word. *)
LEMMA WritesRight ==
  ASSUME TimeInv, Types, DataInv, waiting
  PROVE  WriteValid => RightWrite
<1>1. /\ job \in CT!Stage /\ head \in HeadId /\ head \in 0 .. Heads - 1 /\ Holds
      /\ MMTypes /\ SFTypes /\ TRTypes
  BY DEF TimeInv, CT!TypeOK, HeadId, DataInv, Types
<1>2. CASE job \in CT!MatMulJob
  <2>1. NoRelay /\ NoSoftmax /\ ~writeReq /\ ~trRunning /\ ~trValidIn /\ sfState # "RUNNING"
        /\ job # "SOFTMAX" /\ job # "TRANSPOSE"
    BY <1>2 DEF TimeInv, NoRelay, NoSoftmax, CT!MatMulJob
  <2>2. PICK b, p \in Nat : Multiplying(b, p) /\ ProductData(b, p)
    BY <1>2 DEF DataInv
  <2>3. QED
    BY <1>1, <1>2, <2>1, <2>2, ProductWrites
<1>3. CASE job = "SOFTMAX"
  <2>1. NoProduct /\ NoRelay /\ ~reading /\ Normalizing /\ SoftData /\ job \notin CT!MatMulJob
    BY <1>3 DEF TimeInv, DataInv, CT!MatMulJob
  <2>2. QED
    BY <1>1, <1>3, <2>1, SoftWrites
<1>4. CASE job = "TRANSPOSE"
  <2>1. NoProduct /\ NoSoftmax /\ ~writeReq /\ Relaying /\ RelayData /\ job \notin CT!MatMulJob
    BY <1>4 DEF TimeInv, DataInv, CT!MatMulJob, NoSoftmax
  <2>2. QED
    BY <1>1, <1>4, <2>1, RelayWrites
<1>5. QED
  BY <1>1, <1>2, <1>3, <1>4 DEF CT!Stage

LEMMA DataWork ==
  ASSUME NEW start, TimeInv, Types, Types', DataInv, Clock(start), waiting
  PROVE  DataInv'
<1>1. /\ CT!Clock(start, StageDone) /\ ProductClock /\ Relay /\ Transpose /\ Count /\ ReadMemories
      /\ MM!Clock(CT!StartMatMul, CT!Mode, rdata[CT!SelA], rdata[CT!SelB])
      /\ SF!Clock(CT!StartSoftmax, rdata["1"])
  BY DEF Clock, ProductClock
<1>2. /\ job \in CT!Stage /\ head \in HeadId /\ head \in 0 .. Heads - 1 /\ Holds
      /\ MMTypes /\ SFTypes /\ TRTypes
  BY DEF TimeInv, CT!TypeOK, HeadId, DataInv, Types
<1>3. CT!Await(StageDone) /\ ~CT!StartMatMul /\ ~CT!StartSoftmax
  BY <1>1, <1>2 DEF CT!Clock, CT!Rest, CT!PassOn, CT!Begin, CT!Await, CT!Stage, CT!MatMulJob,
                    CT!StartMatMul, CT!StartSoftmax
<1>4. job \notin CT!MatMulJob /\ NoProduct => NothingTaken'
  <2>1. job \notin CT!MatMulJob => NothingTaken
    BY DEF DataInv
  <2>2. QED
    BY <1>1, <2>1, NothingTakenRests
<1>5. CASE job \in CT!MatMulJob
  <2>1. NoRelay /\ NoSoftmax /\ ~writeReq /\ ~trRunning /\ ~trValidIn /\ sfState # "RUNNING"
        /\ job # "SOFTMAX" /\ job # "TRANSPOSE"
    BY <1>5 DEF TimeInv, NoRelay, NoSoftmax, CT!MatMulJob
  <2>2. PICK b, p \in Nat : Multiplying(b, p) /\ ProductData(b, p)
    BY <1>5 DEF DataInv
  <2>3. WriteValid => RightWrite
    BY WritesRight
  <2>4. CASE StageDone
    <3>1. NothingTaken'
      BY <1>1, <1>2, <1>5, <2>1, <2>2, <2>4, NothingTakenAtEnd
    <3>2. QED
      BY <2>3, <2>4, <3>1, DataEnd
  <2>5. CASE ~StageDone
    <3>1. UNCHANGED <<job, head>> /\ waiting' /\ InCount' /\ Holds' /\ SoFar'
      BY <2>3, <2>5, DataGoesOn
    <3>2. PICK nb, np \in Nat : nb = NextB(b, p) /\ np = NextP(b, p)
      BY DEF NextB, NextP
    <3>3. Multiplying(nb, np)'
      BY <1>1, <1>2, <1>3, <1>5, <2>1, <2>2, <2>5, <3>2, ProductStep
    <3>4. ProductData(nb, np)'
      BY <1>1, <1>2, <1>5, <2>1, <2>2, <3>1, <3>2, ProductDataStep
    <3>5. \E c, q \in Nat : Multiplying(c, q)' /\ ProductData(c, q)'
      BY <3>3, <3>4
    <3>6. QED
      BY <1>5, <2>1, <3>1, <3>5 DEF DataInv
  <2>6. QED
    BY <2>4, <2>5
<1>6. CASE job = "SOFTMAX"
  <2>1. NoProduct /\ NoRelay /\ ~reading /\ Normalizing /\ SoftData /\ job \notin CT!MatMulJob
    BY <1>6 DEF TimeInv, DataInv, CT!MatMulJob
  <2>2. WriteValid => RightWrite
    BY WritesRight
  <2>3. NothingTaken'
    BY <1>4, <2>1
  <2>4. CASE StageDone
    BY <2>2, <2>3, <2>4, DataEnd
  <2>5. CASE ~StageDone
    <3>1. UNCHANGED <<job, head>> /\ waiting' /\ InCount' /\ Holds' /\ SoFar'
      BY <2>2, <2>5, DataGoesOn
    <3>2. SF!Clock(FALSE, rdata["1"])
      BY <1>1, <1>3 DEF CT!StartSoftmax
    <3>3. SoftData'
      BY <1>1, <1>2, <1>6, <2>1, <2>5, <3>1, <3>2, SoftDataStep
    <3>4. QED
      BY <1>6, <2>1, <2>3, <3>1, <3>3 DEF DataInv
  <2>6. QED
    BY <2>4, <2>5
<1>7. CASE job = "TRANSPOSE"
  <2>1. NoProduct /\ NoSoftmax /\ ~writeReq /\ Relaying /\ RelayData /\ job \notin CT!MatMulJob
    BY <1>7 DEF TimeInv, DataInv, CT!MatMulJob, NoSoftmax
  <2>2. WriteValid => RightWrite
    BY WritesRight
  <2>3. NothingTaken'
    BY <1>4, <2>1
  <2>4. CASE StageDone
    BY <2>2, <2>3, <2>4, DataEnd
  <2>5. CASE ~StageDone
    <3>1. UNCHANGED <<job, head>> /\ waiting' /\ InCount' /\ Holds' /\ SoFar'
      BY <2>2, <2>5, DataGoesOn
    <3>2. RelayData'
      BY <1>1, <1>2, <1>7, <2>1, <3>1, RelayDataStep
    <3>3. QED
      BY <1>7, <2>1, <2>3, <3>1, <3>2 DEF DataInv
  <2>6. QED
    BY <2>4, <2>5
<1>8. QED
  BY <1>2, <1>5, <1>6, <1>7 DEF CT!Stage

LEMMA DataStutter ==
  DataInv /\ UNCHANGED vars => DataInv'
<1> SUFFICES ASSUME DataInv, UNCHANGED vars PROVE DataInv'
  OBVIOUS
<1>1. /\ UNCHANGED <<job, waiting, head>>
      /\ UNCHANGED <<mmState, kIdx, br, bc, fed, validIn, accClear, acc, emerging, outBr, outBc, outCounter>>
      /\ UNCHANGED <<sfState, cycleCnt, pipeRow, prevEn, prevChunk, prevRow, rowBuffer,
                     rowMax, expBuffer, expSum, writeReq, writeAddr, writeData>>
      /\ UNCHANGED <<sel, buf, at, readIdx, reading>>
      /\ UNCHANGED <<trRunning, trCounter, trValidIn, trDelayed, writeCounter, ram, rdata>>
  BY DEF vars, CT!ctVars, MM!mmVars, SF!sfVars, TR!trVars, relayVars
<1>2. InCount' /\ Holds' /\ (waiting => SoFar)' /\ NothingTaken' = NothingTaken
  <2>1. InCount'
    <3>1. TargetWriteCount' = TargetWriteCount
      BY <1>1, SameTask
    <3>2. QED
      BY <1>1, <3>1 DEF DataInv, InCount, Last
  <2>2. Holds' /\ (waiting => SoFar)'
    BY <1>1 DEF DataInv, Holds, HoldsIn, SoFar, SoFarIn
  <2>3. NothingTaken' = NothingTaken
    BY <1>1 DEF NothingTaken
  <2>4. QED
    BY <2>1, <2>2, <2>3
<1>3. Filled(Last)' = Filled(Last) /\ Filled(Behind)' = Filled(Behind) /\ Behind' = Behind
  BY <1>1 DEF Filled, FilledWith, Last, Behind
<1>4. SoftData' = SoftData /\ RelayData' = RelayData
  <2>1. SoftData' = SoftData
    BY <1>1 DEF SoftData, WordComing, WordGoing
  <2>2. RelayData' = RelayData
    BY <1>1, <1>3 DEF RelayData
  <2>3. QED
    BY <2>1, <2>2
<1>5. ASSUME NEW b \in Nat, NEW p \in Nat, Multiplying(b, p), ProductData(b, p), job \in CT!MatMulJob
      PROVE  Multiplying(b, p)' /\ ProductData(b, p)'
  <2>1. Mode' = Mode /\ Words' = Words /\ Total' = Total /\ Ages(b, p)' = Ages(b, p)
        /\ \A s \in Nat : Out(s, b, p)' = Out(s, b, p)
    BY <1>1, SameTask
  <2>2. Array \in Nat
    BY Sizes
  <2>3. \A a : BlockOf(a, b, p)' = BlockOf(a, b, p)
    BY DEF BlockOf
  <2>4. RowsRight(emerging, b, p, job, head)' = RowsRight(emerging, b, p, job, head)
    BY <1>1, <2>1, <2>3 DEF RowsRight
  <2>5. Filled(Out(Array, b, p))' = Filled(Out(Array, b, p))
    BY <1>1, <2>1, <2>2 DEF Filled
  <2>6. CT!SelA' = CT!SelA /\ CT!SelB' = CT!SelB
    BY <1>1 DEF CT!SelA, CT!SelB
  <2>7. Multiplying(b, p)'
    BY <1>1, <1>5, SameProduct
  <2>8. ProductData(b, p)'
    BY <1>1, <1>5, <2>1, <2>2, <2>4, <2>5, <2>6 DEF ProductData
  <2>9. QED
    BY <2>7, <2>8
<1>6. QED
  <2>1. CT!MatMulJob' = CT!MatMulJob
    OBVIOUS
  <2>2. waiting /\ job \in CT!MatMulJob => \E b, p \in Nat : Multiplying(b, p)' /\ ProductData(b, p)'
    BY <1>5 DEF DataInv
  <2>3. QED
    BY <1>1, <1>2, <1>4, <2>2 DEF DataInv

(* Every word a stage has written is right, and whatever a later stage     *)
(* needs of an earlier one is still in its memory, in every cycle.         *)
THEOREM DataAlways ==
  Spec => []DataInv
<1>1. ASSUME TimeInv, Types, Types', DataInv, [Next]_vars
      PROVE  DataInv'
  <2>1. CASE UNCHANGED vars
    BY <1>1, <2>1, DataStutter
  <2>2. CASE Next
    <3>1. PICK start \in BOOLEAN : Clock(start)
      BY <2>2 DEF Next
    <3>2. CASE waiting
      BY <1>1, <3>1, <3>2, DataWork
    <3>3. CASE ~waiting
      BY <1>1, <3>1, <3>3, DataBegin
    <3>4. QED
      BY <3>2, <3>3
  <2>3. QED
    BY <1>1, <2>1, <2>2
<1>2. QED
  BY TimeAlways, TypesAlways, DataInit, <1>1, PTL DEF Spec

(* When a stage starts, all of its operands are in the memories, whatever  *)
(* the sizes and the number of heads, and the accelerator is only done     *)
(* when the result is there: a stage trusts the word count of the one      *)
(* before it, and no stage overwrites what a later one is going to read.   *)
THEOREM OperandsAreReady ==
  Spec => []OperandsReady
<1>1. DataInv => OperandsReady
  BY DEF DataInv, Holds, HoldsIn, OperandsReady, Starts
<1>2. QED
  BY DataAlways, <1>1, PTL

-----------------------------------------------------------------------------
(* The counters and the lists of the units stay within their bounds.       *)
Bounded ==
  /\ fed \in 0 .. Array * Array /\ outCounter \in 0 .. Last
  /\ \A q \in {0, 1} : Len(expSum[q]) <= Mat

LEMMA BlocksBound ==
  ASSUME NEW j
  PROVE  BlocksOf(j) \in Nat /\ BlocksOf(j) <= Array * Array
<1>1. Array \in Nat /\ Heads \in Nat \ {0} /\ PerHead \in Nat \ {0} /\ Array = Heads * PerHead
  BY Shares, Sizes
<1>2. PerHead <= Array
  <2>1. CASE Heads = 1
    BY <1>1, <2>1
  <2>2. CASE Heads # 1
    <3>1. PerHead * 1 + PerHead <= PerHead * Heads /\ PerHead * Heads = Heads * PerHead
      BY <1>1, <2>2, MoreMultiples, Multiples
    <3>2. QED
      BY <1>1, <3>1
  <2>3. QED
    BY <2>1, <2>2
<1>3. Array * PerHead \in Nat /\ Array * Array \in Nat
  BY <1>1, Multiples
<1>4. Array * PerHead <= Array * Array
  <2>1. CASE PerHead = Array
    BY <1>3, <2>1
  <2>2. CASE PerHead < Array
    <3>1. Array * PerHead + Array <= Array * Array
      BY <1>1, <2>2, MoreMultiples
    <3>2. QED
      BY <1>1, <1>3, <3>1
  <2>3. QED
    BY <1>1, <1>2, <2>1, <2>2
<1>5. QED
  BY <1>3, <1>4 DEF BlocksOf

(* A multiplier that is not idle is at work. *)
LEMMA AtWork ==
  ASSUME TimeInv, mmState # "IDLE"
  PROVE  /\ waiting /\ job \in CT!MatMulJob /\ head \in HeadId /\ ~writeReq
         /\ Total \in Nat /\ Total <= Array * Array
<1>1. waiting /\ job \in CT!MatMulJob /\ head \in HeadId
  BY DEF TimeInv, NoProduct, CT!Stage, CT!TypeOK, HeadId
<1>2. ~writeReq
  BY <1>1 DEF TimeInv, NoSoftmax
<1>3. QED
  BY <1>1, <1>2, TaskOf, BlocksBound

LEMMA FedStep ==
  ASSUME NEW start, TimeInv, Types, Bounded, MM!Read(start, Mode)
  PROVE  fed' \in 0 .. Array * Array
<1>1. Array * Array \in Nat
  BY Sizes, Multiples
<1>2. CASE mmState = "FLUSH"
  <2>1. Total \in Nat /\ Total <= Array * Array /\ job \in CT!MatMulJob /\ waiting
    BY <1>2, AtWork
  <2>2. PICK b, p \in Nat : Multiplying(b, p)
    BY <2>1 DEF TimeInv
  <2>3. b \in 0 .. Total /\ b # Total /\ fed = b
    BY <1>2, <2>1, <2>2, Sizes DEF Multiplying, Feeding
  <2>4. fed' = fed + 1
    BY <1>2 DEF MM!Read
  <2>5. QED
    BY <1>1, <2>1, <2>3, <2>4
<1>3. CASE mmState # "FLUSH"
  <2>1. mmState \in {"IDLE", "FEED", "WAIT_DONE"}
    BY <1>3 DEF Types, MMTypes
  <2>2. fed' = 0 \/ fed' = fed
    BY <2>1 DEF MM!Read
  <2>3. QED
    BY <1>1, <2>2 DEF Bounded
<1>4. QED
  BY <1>2, <1>3

LEMMA OutStepBound ==
  ASSUME TimeInv, DataInv, Bounded, MM!Place(Mode)
  PROVE  outCounter' \in 0 .. Last
<1>1. Last \in Nat /\ Last = Mat * Array /\ Mat \in Nat /\ Array \in Nat \ {0} /\ Mat = Array * Array
      /\ Lane = 0 .. Array - 1
  BY LastIs, Sizes, Places DEF Last
<1>2. CASE mmState = "IDLE"
  BY <1>1, <1>2 DEF MM!Place
<1>3. CASE mmState # "IDLE" /\ ~MM!ValidOut
  BY <1>3 DEF MM!Place, Bounded
<1>4. CASE mmState # "IDLE" /\ MM!ValidOut
  <2>1. waiting /\ job \in CT!MatMulJob /\ head \in HeadId /\ ~writeReq
    BY <1>4, AtWork
  <2>2. PICK b, p \in Nat : Multiplying(b, p) /\ ProductData(b, p)
    BY <2>1 DEF DataInv
  <2>3. Words \in Nat /\ Array <= Words
    BY <2>1, Task DEF HeadId
  <2>4. OneOut(Array, b, p)
    BY <1>4, <2>2, <2>3, RowOut DEF Multiplying
  <2>5. PICK a \in Ages(b, p) : Within(Array, a)
    BY <2>4 DEF OneOut
  <2>6. PICK m \in 0 .. BlocksOf(job) - 1, i \in Lane : outCounter = Array * m + i
    BY <2>1, <2>2, <2>5, RowComes DEF ProductData
  <2>7. m \in 0 .. Mat - 1
    BY <1>1, <2>6, BlocksBound
  <2>8. m * Array + i \in 0 .. Mat * Array - 1 /\ m * Array = Array * m
    BY <1>1, <2>6, <2>7, InRow, Multiples
  <2>9. outCounter' = outCounter + 1
    BY <1>4 DEF MM!Place
  <2>10. QED
    BY <1>1, <2>6, <2>8, <2>9
<1>5. QED
  BY <1>2, <1>3, <1>4

LEMMA SumsStep ==
  ASSUME NEW word, TimeInv, Types, DataInv, Bounded, SF!FindMax(word), SF!Exponentials, word = rdata["1"]
  PROVE  \A q \in {0, 1} : Len(expSum'[q]) <= Mat
<1>1. CASE ~SF!Busy(1)
  BY <1>1 DEF SF!Exponentials, Bounded
<1>2. CASE SF!Busy(1)
  <2>1. /\ sfState = "RUNNING" /\ cycleCnt < Array /\ pipeRow >= 1 /\ pipeRow < Mat + 1
        /\ cycleCnt \in 0 .. Array /\ pipeRow \in 0 .. Mat + 1
        /\ Array \in Nat /\ Array >= 2 /\ Mat \in Nat /\ Mat = Array * Array
    BY <1>2, Sizes, Copies DEF SF!Busy, Types, SFTypes
  <2>2. waiting /\ job = "SOFTMAX"
    BY <2>1 DEF TimeInv, NoSoftmax, CT!Stage
  <2>3. PICK r \in 0 .. Mat + 1, c \in 0 .. Array : pipeRow = r /\ cycleCnt = c
    BY <2>1
  <2>4. /\ Softening(rowBuffer, rowMax, expBuffer, expSum, head, r, c)
        /\ WordComing(word, head, r, c)
    BY <2>2, <2>3 DEF DataInv, SoftData
  <2>5. Softening(rowBuffer', rowMax', expBuffer', expSum', head, r, c + 1)
    BY <2>1, <2>3, <2>4, SofteningStep DEF Types
  <2>6. Raised(expBuffer', expSum', head, r - 1, c + 1) /\ c + 1 >= 1 /\ c + 1 <= Array /\ r - 1 \in Nat
    BY <2>1, <2>3, <2>5 DEF Softening
  <2>7. expSum'[(r - 1) % 2] = Summed(head, r - 1, (c + 1) * Array)
    BY <2>6 DEF Raised
  <2>8. (c + 1) * Array \in Nat /\ (c + 1) * Array <= Mat
    <3>1. PICK d \in Nat : d = c + 1 /\ d <= Array
      BY <2>3, <2>6
    <3>2. d * Array = Array * d /\ Array * d \in Nat
      BY <2>1, <3>1, Multiples
    <3>3. CASE d = Array
      BY <2>1, <3>1, <3>2, <3>3
    <3>4. CASE d < Array
      <4>1. Array * d + Array <= Array * Array
        BY <2>1, <3>1, <3>4, MoreMultiples
      <4>2. QED
        BY <2>1, <3>1, <3>2, <4>1
    <3>5. QED
      BY <2>1, <3>1, <3>3, <3>4
  <2>9. Len(expSum'[(r - 1) % 2]) <= Mat
    <3>1. PICK d \in Nat : d = (c + 1) * Array
      BY <2>8
    <3>2. Len(Summed(head, r - 1, d)) = d
      BY <3>1 DEF Summed
    <3>3. QED
      BY <2>7, <2>8, <3>1, <3>2
  <2>10. ASSUME NEW q \in {0, 1}, q # (r - 1) % 2
         PROVE  expSum'[q] = expSum[q]
    <3>1. SF!RowAt(1) = r - 1 /\ expSum \in [{0, 1} -> Seq(Entry \X SUBSET Entry)]
      BY <2>3 DEF SF!RowAt, Types, SFTypes
    <3>2. q # SF!RowAt(1) % 2
      BY <2>10, <3>1
    <3>3. QED
      BY <1>2, <3>1, <3>2 DEF SF!Exponentials
  <2>11. QED
    BY <2>9, <2>10 DEF Bounded
<1>3. QED
  BY <1>1, <1>2

LEMMA BoundedInit ==
  Init => Bounded
<1> SUFFICES ASSUME Init PROVE Bounded
  OBVIOUS
<1>1. fed = 0 /\ outCounter = 0
  BY DEF Init, MM!Init
<1>2. expSum = [q \in {0, 1} |-> <<>>]
  BY DEF Init, SF!Init, SF!Parity
<1>3. Array * Array \in Nat /\ Last \in Nat /\ Mat \in Nat
  BY Sizes, LastIs, Multiples
<1>4. QED
  BY <1>1, <1>2, <1>3 DEF Bounded

LEMMA BoundedStep ==
  ASSUME TimeInv, Types, DataInv, Bounded, [Next]_vars
  PROVE  Bounded'
<1>1. CASE UNCHANGED vars
  BY <1>1 DEF vars, MM!mmVars, SF!sfVars, Bounded, Last
<1>2. CASE Next
  <2>1. /\ MM!Read(CT!StartMatMul, Mode) /\ MM!Place(Mode)
        /\ SF!FindMax(rdata["1"]) /\ SF!Exponentials
    BY <1>2 DEF Next, Clock, MM!Clock, SF!Clock, Mode
  <2>2. fed' \in 0 .. Array * Array
    BY <2>1, FedStep
  <2>3. outCounter' \in 0 .. Last
    BY <2>1, OutStepBound
  <2>4. \A q \in {0, 1} : Len(expSum'[q]) <= Mat
    BY <2>1, SumsStep
  <2>5. QED
    BY <2>2, <2>3, <2>4 DEF Bounded, Last
<1>3. QED
  BY <1>1, <1>2

(* The lists of the accumulators are as long as the rows they take in. *)
LEMMA TakenBound ==
  ASSUME TimeInv, DataInv
  PROVE  \A i, l \in Lane : Len(acc[i][l]) <= Mat
<1>1. Mat \in Nat /\ Array \in Nat
  BY Sizes
<1>2. CASE NothingTaken
  BY <1>1, <1>2 DEF NothingTaken
<1>3. CASE waiting /\ job \in CT!MatMulJob
  <2>1. head \in HeadId
    BY DEF TimeInv, CT!TypeOK, HeadId
  <2>2. PICK b, p \in Nat : Multiplying(b, p) /\ ProductData(b, p)
    BY <1>3 DEF DataInv
  <2>3. /\ WordsOf(job) \in Nat /\ WordsOf(job) <= Mat /\ Total = BlocksOf(job)
        /\ Words = WordsOf(job) /\ Total \in Nat /\ b \in 0 .. Total
        /\ (b < Total => p <= Words)
    <3>1. FirstK(job, head) \in Nat /\ WordsOf(job) \in Nat /\ FirstK(job, head) + WordsOf(job) <= Mat
      BY <1>3, <2>1, WordsRead
    <3>2. Total = BlocksOf(job) /\ Words = WordsOf(job) /\ Total \in Nat
      BY <1>3, <2>1, TaskOf, BlocksBound
    <3>3. b \in 0 .. Total /\ (b < Total => p <= Words)
      BY <2>2 DEF Multiplying, Feeding
    <3>4. QED
      BY <1>1, <3>1, <3>2, <3>3
  <2>4. ASSUME NEW n, NEW i, NEW l, NEW m \in Nat
        PROVE  Len(Pairs(job, head, n, i, l, m)) = m
    BY DEF Pairs
  <2>5. ASSUME NEW i \in Lane, NEW l \in Lane
        PROVE  Len(acc[i][l]) <= Mat
    <3>1. acc[i][l] = AccAt(job, head, b, p, i, l)
      BY <2>2 DEF ProductData, Taken
    <3>2. CASE p = 0 /\ b # 0
      BY <2>3, <2>4, <3>1, <3>2 DEF AccAt
    <3>3. CASE p # 0 /\ b < BlocksOf(job)
      <4>1. p - 1 \in Nat /\ p - 1 <= Mat
        BY <1>1, <2>3, <3>3
      <4>2. acc[i][l] = Pairs(job, head, b, i, l, p - 1)
        BY <3>1, <3>3 DEF AccAt
      <4>3. QED
        BY <2>4, <4>1, <4>2
    <3>4. CASE ~(p = 0 /\ b # 0) /\ ~(p # 0 /\ b < BlocksOf(job))
      <4>1. acc[i][l] = <<>>
        BY <3>1, <3>4 DEF AccAt
      <4>2. QED
        BY <1>1, <4>1
    <3>5. QED
      BY <3>2, <3>3, <3>4
  <2>6. QED
    BY <2>5
<1>4. QED
  BY <1>2, <1>3 DEF DataInv

(* Every register keeps a value of its kind for every size, and no count   *)
(* runs past the matrix: not the blocks that are fed, not the rows that    *)
(* come out, not the words that are written, not the terms of a sum.       *)
THEOREM TypeAlways ==
  Spec => []TypeOK
<1>1. ASSUME TimeInv, Types, DataInv, Bounded
      PROVE  TypeOK
  <2>1. Blocks = Array /\ Mat * Blocks = Last /\ Last \in Nat
    BY Sizes, LastIs DEF Last
  <2>2. MM!TypeOK
    <3>1. MM!Blocks * MM!Blocks = Array * Array /\ Mat * MM!Blocks = Last
      BY <2>1, Copies
    <3>2. \A i, j \in MM!Lane : Len(acc[i][j]) <= Mat
      BY <1>1, TakenBound, Copies
    <3>3. QED
      BY <1>1, <3>1, <3>2, Copies DEF MM!TypeOK, Types, MMTypes, Bounded
  <2>3. SF!TypeOK
    <3>1. SF!Chunk = Lane /\ SF!Parity = {0, 1}
      BY <2>1, Copies DEF SF!Chunk, SF!Parity, Lane
    <3>2. \A q \in {0, 1} : rowMax[q] \subseteq Entry /\ Len(expSum[q]) <= Mat
      BY <1>1 DEF Types, SFTypes, Bounded
    <3>3. QED
      BY <1>1, <2>1, <3>1, <3>2, Copies DEF SF!TypeOK, Types, SFTypes
  <2>4. TR!TypeOK
    BY <1>1, Copies DEF TR!TypeOK, TR!Place, Types, TRTypes
  <2>5. writeCounter \in 0 .. Mat * Blocks
    BY <1>1, <2>1 DEF DataInv, InCount
  <2>6. QED
    BY <1>1, <2>2, <2>3, <2>4, <2>5 DEF TypeOK, TimeInv, Types, RelayTypes, MemoryTypes
<1>2. QED
  BY TimeAlways, TypesAlways, DataAlways, BoundedInit, BoundedStep, <1>1, PTL DEF Spec

-----------------------------------------------------------------------------
(* ImplementsInference.  Held is looked at part by part, in a memory and    *)
(* with a state of the controller.                                          *)
InPlaceIn(mem, p) ==
  \A a \in Address : \A i \in Lane :
    Belongs(p, Laid(p)[a][i]) => mem[Home[p.m]][a][i] = Laid(p)[a][i]

PassedIn(j, k, stage, h) ==
  IF j \in EachHead /\ stage \in EachHead
  THEN h < k \/ (h = k /\ Turn[stage] < Turn[j])
  ELSE Turn[stage] < Turn[j]

Counts(j, k, p) == p.m \in DOMAIN Maker => PassedIn(j, k, Maker[p.m], p.h)

LEMMA HeldIs ==
  /\ Held = {p \in Part : Counts(job, head, p) /\ InPlaceIn(ram, p)}
  /\ Held' = {p \in Part : Counts(job', head', p) /\ InPlaceIn(ram', p)}
BY DEF Held, Counts, Passed, PassedIn, InPlace, InPlaceIn

LEMMA PromiseIs ==
  /\ Promise!Loaded = Loaded /\ Promise!LateInput = LateInput /\ Promise!Output = Output
  /\ Promise!Part = Part /\ \A p \in Part : \A S : Promise!MadeFrom(p, S) <=> MadeFrom(p, S)
<1>1. /\ Promise!Loaded = Loaded /\ Promise!LateInput = LateInput /\ Promise!Output = Output
      /\ Promise!From = From
  BY DEF Promise!Loaded, Loaded, Promise!LateInput, LateInput, Promise!Output, Output,
         Promise!PartOf, PartOf, Promise!From, From
<1>2. Promise!ByHead = ByHead /\ Promise!HeadId = HeadId
  BY <1>1 DEF Promise!ByHead, ByHead, Promise!HeadId, HeadId
<1>3. Promise!Part = Part
  BY <1>1, <1>2 DEF Promise!Part, Part, Promise!PartOf, PartOf
<1>4. \A p \in Part : Promise!Needs(p) = Needs(p)
  BY <1>1, <1>2, <1>3 DEF Promise!Needs, Needs
<1>5. QED
  BY <1>1, <1>3, <1>4 DEF Promise!MadeFrom, MadeFrom

(* What the parts are. *)
LEMMA PartIs ==
  ASSUME NEW p \in Part
  PROVE  /\ p = PartOf(p.m, p.h) /\ p.h \in HeadId
         /\ p.m \in {"X", "Wq", "Wk", "Wv", "Wo", "Q", "K", "V", "E", "S", "St", "Z", "O"}
         /\ p.m \notin ByHead => p.h = 0
         /\ p.m \notin DOMAIN Maker => p \in Loaded \cup {LateInput}
<1>1. 0 \in HeadId
  BY Places
<1>2. ByHead = {"Q", "K", "V", "E", "S", "St", "Z"}
  BY DEF ByHead, From
<1>3. QED
  BY <1>1, <1>2 DEF Part, Loaded, LateInput, Output, PartOf, Maker

LEMMA LaidAt ==
  ASSUME NEW p \in Part, NEW a \in Address, NEW i \in Lane
  PROVE  /\ Laid(p)[a][i].m = IF p.m = "St" THEN "S" ELSE p.m
         /\ Laid(p)[a][i].h = IF p.m \in {"E", "S", "St"} THEN p.h ELSE 0
         /\ p.m \in {"Q", "K", "Z"} => Laid(p)[a][i].c = a \div Blocks
         /\ p.m \in {"X", "Q", "K", "Z"} => Laid(p)[a] = Transposed(p.m, 0)[a]
         /\ p.m = "V" => Laid(p)[a][i].c = (a % Blocks) * Array + i
BY PartIs DEF Laid, Plain, Transposed, At

LEMMA GoalAt ==
  ASSUME NEW a \in Address, NEW i \in Lane
  PROVE  Goal(job, head)[a][i].m = GoalName[job] /\ Goal(job, head)[a][i].h = GoalHead(job, head)
BY DEF Goal, Plain, Transposed, At

(* Every part has some entry. *)
LEMMA SomeEntry ==
  ASSUME NEW p \in Part
  PROVE  \E a \in Address : \E i \in Lane : Belongs(p, Laid(p)[a][i])
<1>1. /\ Array \in Nat \ {0} /\ Lane = 0 .. Array - 1 /\ 0 \in Lane /\ p.h \in HeadId /\ p.h \in Nat
      /\ Blocks = Array /\ PerHead \in Nat \ {0} /\ Index = 0 .. Array * Array - 1
  BY Sizes, Places, Shares, PartIs DEF HeadId
<1>2. PICK u \in Nat : u = p.h * PerHead /\ u + PerHead <= Array
  BY HeadShare, <1>1
<1>3. u \in Lane /\ 0 \in 0 .. PerHead - 1 /\ u + 0 = u
  BY <1>1, <1>2
<1>4. HeadOf(u * Array + 0) = p.h
  <2>1. HeadOf((p.h * PerHead + 0) * Array + 0) = p.h
    BY <1>1, <1>3, HeadOfColumn
  <2>2. p.h * PerHead + 0 = u
    BY <1>2
  <2>3. QED
    BY <2>1, <2>2
<1>5. PICK c \in Nat : c = u * Array + 0
  BY <1>1, <1>2, Multiples
<1>6. c \in Index /\ HeadOf(c) = p.h
  <2>1. u \in 0 .. Array - 1 /\ 0 \in 0 .. Array - 1
    BY <1>1, <1>3
  <2>2. u * Array + 0 \in 0 .. Array * Array - 1
    BY <1>1, <2>1, InRow
  <2>3. QED
    BY <1>1, <1>4, <1>5, <2>2
<1>7. PICK a \in Address : a \div Blocks = c
  BY <1>1, <1>6, LayoutAt
<1>8. PICK b \in Address : b % Blocks = u
  <2>1. 0 \in Index
    BY <1>1, Places
  <2>2. QED
    BY <1>3, <2>1, LayoutAt
<1>9. CASE p.m = "V"
  <2>1. Laid(p)[b][0].c = c
    BY <1>1, <1>5, <1>8, <1>9, LaidAt
  <2>2. QED
    BY <1>1, <1>6, <2>1 DEF Belongs
<1>10. CASE p.m # "V"
  <2>1. Belongs(p, Laid(p)[a][0])
    BY <1>1, <1>6, <1>7, <1>10, LaidAt DEF Belongs
  <2>2. QED
    BY <1>1, <2>1
<1>11. QED
  BY <1>9, <1>10

(* At power-up nothing is held. *)
LEMMA NothingHeld ==
  ASSUME Init
  PROVE  Held = {}
<1>1. SUFFICES ASSUME NEW p \in Part, InPlaceIn(ram, p) PROVE FALSE
  BY HeldIs
<1>2. PICK a \in Address, i \in Lane : Belongs(p, Laid(p)[a][i])
  BY SomeEntry
<1>3. Home[p.m] \in Memory
  BY PartIs DEF Home, Memory
<1>4. ram[Home[p.m]][a][i] = Junk
  BY <1>3 DEF Init, JunkWord
<1>5. Laid(p)[a][i].m = "Junk"
  BY <1>1, <1>2, <1>4 DEF InPlaceIn, Junk, At
<1>6. QED
  BY <1>5, LaidAt, PartIs

-----------------------------------------------------------------------------
(* A word that a stage writes belongs to no part that counts already and   *)
(* is still there afterwards.                                              *)
LEMMA Clash ==
  ASSUME job \in CT!Stage, head \in HeadId, RightWrite, NEW p \in Part, Counts(job, head, p),
         Home[p.m] = Dest[job], NEW i \in Lane, Belongs(p, Laid(p)[Write.addr][i]),
         Laid(p)[Write.addr][i] = Goal(job, head)[Write.addr][i]
  PROVE  FALSE
<1>1. Write.addr \in Address
  BY DEF RightWrite
<1>2. /\ (IF p.m = "St" THEN "S" ELSE p.m) = GoalName[job]
      /\ (IF p.m \in {"E", "S", "St"} THEN p.h ELSE 0) = GoalHead(job, head)
  BY <1>1, LaidAt, GoalAt
<1>3. /\ p.m \in DOMAIN Maker /\ Maker[p.m] = job
      /\ job \in EachHead => p.h = head
  <2>1. CASE job = "Z"
    <3>1. p.m = "Z"
      BY <1>2, <2>1 DEF GoalName
    <3>2. HeadOf(Write.addr \div Blocks) = head /\ Laid(p)[Write.addr][i].c = Write.addr \div Blocks
      BY <1>1, <2>1, <3>1, LaidAt DEF RightWrite
    <3>3. QED
      BY <2>1, <3>1, <3>2 DEF Belongs, Maker
  <2>2. CASE job \in {"Q", "K", "V", "OUT"}
    BY <1>2, <2>2 DEF GoalName, Maker, EachHead
  <2>3. CASE job \in {"E", "SOFTMAX", "TRANSPOSE"}
    BY <1>2, <2>3, PartIs DEF GoalName, GoalHead, Maker, Home, Dest
  <2>4. QED
    BY <2>1, <2>2, <2>3 DEF CT!Stage, CT!MatMulJob
<1>4. head \in Nat
  BY Sizes DEF HeadId
<1>5. Turn[job] \in Nat
  BY DEF Turn, CT!Stage, CT!MatMulJob
<1>6. QED
  BY <1>3, <1>4, <1>5 DEF Counts, PassedIn

LEMMA StaysInPlace ==
  ASSUME NEW start, job \in CT!Stage, head \in HeadId, WriteMemories(start),
         WriteValid => RightWrite, MemoryTypes, NEW p \in Part, Counts(job, head, p),
         InPlaceIn(ram', p),
         Home[p.m] # "4" \/ job # "Z" \/ ~StageDone
  PROVE  InPlaceIn(ram, p)
<1>1. Home[p.m] \in Memory
  BY PartIs DEF Home, Memory
<1>2. CASE Home[p.m] # Dest[job]
  <2>1. ram'[Home[p.m]] = ram[Home[p.m]]
    BY <1>1, <1>2, Kept
  <2>2. QED
    BY <2>1 DEF InPlaceIn
<1>3. CASE Home[p.m] = Dest[job]
  <2>1. ASSUME NEW a \in Address, NEW i \in Lane, Belongs(p, Laid(p)[a][i])
        PROVE  ram[Home[p.m]][a][i] = Laid(p)[a][i]
    <3>1. ram'[Home[p.m]][a][i] = Laid(p)[a][i]
      BY <2>1 DEF InPlaceIn
    <3>2. ~(WriteValid /\ a = Write.addr)
      <4>1. SUFFICES ASSUME WriteValid, a = Write.addr PROVE FALSE
        OBVIOUS
      <4>2. ram'[Dest[job]][a] = Goal(job, head)[a]
        BY <4>1, DestStep
      <4>3. Laid(p)[Write.addr][i] = Goal(job, head)[Write.addr][i]
        BY <1>3, <3>1, <4>1, <4>2
      <4>4. QED
        BY <1>3, <2>1, <4>1, <4>3, Clash
    <3>3. ram'[Dest[job]][a] = ram[Dest[job]][a]
      BY <3>2, DestStep
    <3>4. QED
      BY <1>3, <3>1, <3>3
  <2>2. QED
    BY <2>1 DEF InPlaceIn
<1>4. QED
  BY <1>2, <1>3

-----------------------------------------------------------------------------
(* What a stage makes is made from parts that are held. *)
LEMMA NeedsAre ==
  ASSUME NEW p \in Part, p.m \in DOMAIN Maker, NEW q \in Needs(p)
  PROVE  /\ q \in Part
         /\ p.m = "Q" => q.m \in {"X", "Wq"}
         /\ p.m = "K" => q.m \in {"X", "Wk"}
         /\ p.m = "V" => q.m \in {"X", "Wv"}
         /\ p.m = "E" => q.m \in {"Q", "K"} /\ q.h = p.h
         /\ p.m = "S" => q.m = "E" /\ q.h = p.h
         /\ p.m = "St" => q.m = "S" /\ q.h = p.h
         /\ p.m = "Z" => q.m \in {"St", "V"} /\ q.h = p.h
         /\ p.m = "O" => q.m \in {"Z", "Wo"}
BY DEF Needs, From, ByHead, Maker

LEMMA OperandsHeld ==
  ASSUME Holds, job \in CT!Stage, head \in HeadId, NEW p \in Part, p.m \in DOMAIN Maker,
         Maker[p.m] = job, job \in EachHead => p.h = head
  PROVE  MadeFrom(p, Held)
<1>1. p.m \in DOMAIN From
  BY DEF Maker, From
<1>2. ASSUME NEW q \in Needs(p)
      PROVE  q \in Part /\ Counts(job, head, q) /\ InPlaceIn(ram, q)
  <2>1. q \in Part
    BY NeedsAre
  <2>2. head \in Nat
    BY Sizes DEF HeadId
  <2>3. ASSUME ram[Home[q.m]] = Laid(q) PROVE InPlaceIn(ram, q)
    BY <2>3 DEF InPlaceIn
  <2>4. CASE p.m \in {"Q", "K", "V"}
    <3>1. q.m \in {"X", "Wq", "Wk", "Wv"} /\ Counts(job, head, q)
      BY <2>4, NeedsAre DEF Counts, Maker
    <3>2. ram[Home[q.m]] = Laid(q)
      BY <2>4, NeedsAre DEF Maker, Home, Laid, Holds, HoldsIn
    <3>3. QED
      BY <2>1, <2>3, <3>1, <3>2
  <2>5. CASE p.m = "E"
    <3>1. job = "E" /\ q.m \in {"Q", "K"} /\ q.h = head
      BY <2>5, NeedsAre DEF Maker, EachHead
    <3>2. Counts(job, head, q)
      BY <3>1 DEF Counts, PassedIn, Maker, Turn, EachHead
    <3>3. CASE q.m = "K"
      BY <2>1, <2>3, <3>1, <3>2, <3>3 DEF Home, Laid, Holds, HoldsIn
    <3>4. CASE q.m = "Q"
      <4>1. ram["3"] = QueriesLeft(head)
        BY <3>1 DEF Holds, HoldsIn
      <4>2. ASSUME NEW a \in Address, NEW i \in Lane, Belongs(q, Laid(q)[a][i])
            PROVE  ram["3"][a][i] = Laid(q)[a][i]
        <5>1. HeadOf(a \div Blocks) = head
          BY <2>1, <3>1, <3>4, <4>2, LaidAt DEF Belongs
        <5>2. QueriesLeft(head)[a] = Transposed("Q", 0)[a]
          BY <2>2, <5>1, QueriesAre
        <5>3. QED
          BY <2>1, <3>4, <4>1, <5>2, LaidAt
      <4>3. InPlaceIn(ram, q)
        BY <3>4, <4>2 DEF InPlaceIn, Home
      <4>4. QED
        BY <2>1, <3>2, <4>3
    <3>5. QED
      BY <3>1, <3>3, <3>4
  <2>6. CASE p.m \in {"S", "St", "Z"}
    <3>1. /\ job = Maker[p.m] /\ q.h = head
          /\ p.m = "S" => q.m = "E"
          /\ p.m = "St" => q.m = "S"
          /\ p.m = "Z" => q.m \in {"St", "V"}
      BY <2>6, NeedsAre DEF Maker, EachHead
    <3>2. Counts(job, head, q)
      BY <2>6, <3>1 DEF Counts, PassedIn, Maker, Turn, EachHead
    <3>3. ram[Home[q.m]] = Laid(q)
      BY <2>6, <3>1 DEF Maker, Home, Laid, Holds, HoldsIn
    <3>4. QED
      BY <2>1, <2>3, <3>2, <3>3
  <2>7. CASE p.m = "O"
    <3>1. job = "OUT" /\ q.m \in {"Z", "Wo"}
      BY <2>7, NeedsAre DEF Maker
    <3>2. Counts(job, head, q)
      BY <3>1 DEF Counts, PassedIn, Maker, Turn, EachHead
    <3>3. ram[Home[q.m]] = Laid(q)
      BY <3>1 DEF Home, Laid, Holds, HoldsIn
    <3>4. QED
      BY <2>1, <2>3, <3>2, <3>3
  <2>8. QED
    BY <2>4, <2>5, <2>6, <2>7 DEF Maker
<1>3. QED
  BY <1>1, <1>2, HeldIs DEF MadeFrom

(* A part begins to count when the stage that makes it passes. *)
LEMMA CountsNext ==
  ASSUME job \in CT!Stage, head \in 0 .. Heads - 1, waiting, StageDone, CT!Await(StageDone), Holds,
         NEW p \in Part, Counts(job', head', p), p.m \in DOMAIN Maker
  PROVE  \/ Counts(job, head, p)
         \/ Maker[p.m] = job /\ (job \in EachHead => p.h = head)
<1>1. head \in Nat /\ p.h \in Nat /\ p.h <= Heads - 1 /\ Heads \in Nat
  BY Sizes, PartIs DEF HeadId
<1>2. CASE job \in {"Q", "K", "V", "E", "SOFTMAX", "TRANSPOSE", "OUT"}
  <2>1. job' = CT!Follows[job] /\ head' = head
    BY <1>2 DEF CT!Await
  <2>2. CASE job \in {"Q", "K", "OUT"}
    BY <2>1, <2>2 DEF CT!Follows, Counts, PassedIn, Maker, Turn, EachHead
  <2>3. CASE job = "V"
    <3>1. job' = "E" /\ head = 0
      BY <2>1, <2>3 DEF CT!Follows, Holds, HoldsIn
    <3>2. QED
      BY <1>1, <2>1, <2>3, <3>1 DEF Counts, PassedIn, Maker, Turn, EachHead
  <2>4. CASE job \in {"E", "SOFTMAX", "TRANSPOSE"}
    BY <1>1, <2>1, <2>4 DEF CT!Follows, Counts, PassedIn, Maker, Turn, EachHead
  <2>5. QED
    BY <1>2, <2>2, <2>3, <2>4
<1>3. CASE job = "Z" /\ head = Heads - 1
  <2>1. job' = "OUT" /\ head' = 0
    BY <1>3 DEF CT!Await, CT!LastHead
  <2>2. QED
    BY <1>1, <1>3, <2>1 DEF Counts, PassedIn, Maker, Turn, EachHead
<1>4. CASE job = "Z" /\ head # Heads - 1
  <2>1. job' = "E" /\ head' = head + 1
    BY <1>4 DEF CT!Await, CT!LastHead
  <2>2. QED
    BY <1>1, <1>4, <2>1 DEF Counts, PassedIn, Maker, Turn, EachHead
<1>5. QED
  BY <1>2, <1>3, <1>4 DEF CT!Stage, CT!MatMulJob

-----------------------------------------------------------------------------
(* A cycle of a stage. *)
LEMMA StageWorks ==
  ASSUME NEW start, TimeInv, Types, DataInv, DataInv', Clock(start), waiting
  PROVE  /\ job \notin {"IDLE", "DONE"}
         /\ Held' \subseteq Held \cup {LateInput} \cup {p \in Part : MadeFrom(p, Held)}
         /\ job' \in {"IDLE", "DONE"} => Output \in Held'
<1>1. /\ CT!Clock(start, StageDone) /\ WriteMemories(start) /\ MemoryTypes
      /\ job \in CT!Stage /\ head \in HeadId /\ head \in 0 .. Heads - 1 /\ Holds /\ Holds'
  BY DEF Clock, TimeInv, CT!TypeOK, HeadId, DataInv, Types
<1>2. CT!Await(StageDone)
  BY <1>1 DEF CT!Clock, CT!Rest, CT!PassOn, CT!Begin, CT!Await, CT!Stage, CT!MatMulJob
<1>3. WriteValid => RightWrite
  BY WritesRight
<1>4. ASSUME NEW p \in Part, Counts(job, head, p), InPlaceIn(ram', p),
             Home[p.m] # "4" \/ job # "Z" \/ ~StageDone
      PROVE  p \in Held
  BY <1>1, <1>3, <1>4, StaysInPlace, HeldIs
<1>5. ASSUME NEW p \in Part, Counts(job', head', p), InPlaceIn(ram', p), p # LateInput
      PROVE  p \in Held \/ MadeFrom(p, Held)
  <2>1. CASE ~StageDone
    <3>1. UNCHANGED <<job, head>>
      BY <1>2, <2>1 DEF CT!Await
    <3>2. QED
      BY <1>4, <1>5, <2>1, <3>1
  <2>2. CASE StageDone /\ p.m \notin DOMAIN Maker
    <3>1. p \in Loaded
      BY <1>5, <2>2, PartIs
    <3>2. Home[p.m] # "4"
      BY <3>1 DEF Loaded, PartOf, Home
    <3>3. Counts(job, head, p)
      BY <2>2 DEF Counts
    <3>4. QED
      BY <1>4, <1>5, <3>2, <3>3
  <2>3. CASE StageDone /\ p.m \in DOMAIN Maker
    <3>1. CASE Counts(job, head, p)
      <4>1. CASE Home[p.m] # "4" \/ job # "Z"
        BY <1>4, <1>5, <3>1, <4>1
      <4>2. CASE Home[p.m] = "4" /\ job = "Z"
        <5>1. p.m = "K"
          BY <2>3, <4>2 DEF Maker, Home
        <5>2. ram["4"] = Transposed("K", 0)
          BY <1>1, <4>2 DEF Holds, HoldsIn
        <5>3. InPlaceIn(ram, p)
          BY <4>2, <5>1, <5>2 DEF InPlaceIn, Laid
        <5>4. QED
          BY <3>1, <5>3, HeldIs
      <4>3. QED
        BY <4>1, <4>2
    <3>2. CASE Maker[p.m] = job /\ (job \in EachHead => p.h = head)
      BY <1>1, <2>3, <3>2, OperandsHeld
    <3>3. QED
      BY <1>1, <1>2, <1>5, <2>3, <3>1, <3>2, CountsNext
  <2>4. QED
    BY <2>1, <2>2, <2>3
<1>6. ASSUME job' \in {"IDLE", "DONE"}
      PROVE  Output \in Held'
  <2>1. job' = "DONE"
    BY <1>1, <1>2, <1>6 DEF CT!Await, CT!Follows, CT!Stage, CT!MatMulJob
  <2>2. ram'["0"] = Plain("O", 0)
    BY <1>1, <2>1 DEF Holds, HoldsIn
  <2>3. Output \in Part /\ Output.m = "O" /\ Output.h = 0
    BY DEF Part, Output, PartOf
  <2>4. Counts(job', head', Output)
    BY <2>1, <2>3 DEF Counts, PassedIn, Maker, Turn, EachHead
  <2>5. InPlaceIn(ram', Output)
    BY <2>2, <2>3 DEF InPlaceIn, Home, Laid
  <2>6. QED
    BY <2>3, <2>4, <2>5, HeldIs
<1>7. job \notin {"IDLE", "DONE"}
  BY <1>1 DEF CT!Stage, CT!MatMulJob
<1>8. QED
  BY <1>5, <1>6, <1>7, HeldIs

(* The cycles in which no stage is at work: the host loads the memories,   *)
(* or nothing that is held changes.                                        *)
LEMMA HostLoads ==
  ASSUME NEW start, TimeInv, Types, DataInv, DataInv', Clock(start), ~waiting,
         job = "IDLE", start
  PROVE  job' = "LAYERNORM" /\ Loaded \subseteq Held' /\ Held' \subseteq Loaded \cup {LateInput}
<1>1. job' = "LAYERNORM"
  BY DEF Clock, CT!Clock, CT!Rest, CT!PassOn, CT!Begin, CT!Await, CT!Stage, CT!MatMulJob
<1>2. HoldsIn("LAYERNORM", head', ram')
  BY <1>1 DEF DataInv, Holds
<1>3. ASSUME NEW p \in Loaded
      PROVE  p \in Held'
  <2>1. p \in Part /\ p.m \in {"X", "Wq", "Wk", "Wv"}
    BY DEF Part, Loaded, PartOf
  <2>2. ram'[Home[p.m]] = Laid(p)
    BY <1>2, <2>1 DEF HoldsIn, Home, Laid
  <2>3. Counts(job', head', p) /\ InPlaceIn(ram', p)
    BY <2>1, <2>2 DEF Counts, Maker, InPlaceIn
  <2>4. QED
    BY <2>1, <2>3, HeldIs
<1>4. ASSUME NEW p \in Part, Counts(job', head', p)
      PROVE  p \in Loaded \cup {LateInput}
  <2>1. p.m \notin DOMAIN Maker
    BY <1>1, <1>4 DEF Counts, PassedIn, Maker, Turn, EachHead
  <2>2. QED
    BY <2>1, PartIs
<1>5. QED
  BY <1>1, <1>3, <1>4, HeldIs

LEMMA NothingMoves ==
  ASSUME NEW start, TimeInv, Types, DataInv, Clock(start), ~waiting, ~(job = "IDLE" /\ start)
  PROVE  Held' = Held /\ (job' \in {"IDLE", "DONE"} <=> job \in {"IDLE", "DONE"})
<1>1. CT!Clock(start, StageDone) /\ WriteMemories(start) /\ MemoryTypes
  BY DEF Clock, Types
<1>2. ~WriteValid
  BY Silent DEF TimeInv, NoSoftmax
<1>3. ram' = ram
  <2>1. ram = [m \in Memory |-> ram[m]]
    BY <1>1 DEF MemoryTypes
  <2>2. Stored = [m \in Memory |-> ram[m]]
    BY <1>2 DEF Stored
  <2>3. ram' = Stored
    BY <1>1 DEF WriteMemories
  <2>4. QED
    BY <2>1, <2>2, <2>3
<1>4. head' = head
  BY <1>1 DEF CT!Clock, CT!Rest, CT!PassOn, CT!Begin, CT!Await
<1>5. \/ job' = job
      \/ job = "LAYERNORM" /\ job' = "Q"
      \/ job = "DONE" /\ job' = "IDLE"
  BY <1>1 DEF CT!Clock, CT!Rest, CT!PassOn, CT!Begin, CT!Await
<1>6. ASSUME NEW p \in Part
      PROVE  Counts(job', head', p) <=> Counts(job, head, p)
  <2>1. CASE job' = job
    BY <1>4, <2>1
  <2>2. CASE job = "LAYERNORM" /\ job' = "Q"
    BY <2>2 DEF Counts, PassedIn, Maker, Turn, EachHead
  <2>3. CASE job = "DONE" /\ job' = "IDLE"
    BY <2>3 DEF Counts, PassedIn, Maker, Turn, EachHead
  <2>4. QED
    BY <1>5, <2>1, <2>2, <2>3
<1>7. QED
  BY <1>3, <1>5, <1>6, HeldIs

(* Whole matrices come from whole matrices of the same inference, for all  *)
(* sizes: a stage that passes has made its part from parts that were held  *)
(* all the time, and the accelerator is done with the output, which stays  *)
(* until the next start.  What an earlier inference, or an earlier head,   *)
(* left in the memories never counts.                                      *)
THEOREM ImplementsInferenceAlways ==
  Spec => ImplementsInference
<1>1. Init => Promise!Init
  BY NothingHeld DEF Promise!Init, Init, CT!Init
<1>2. ASSUME TimeInv, Types, DataInv, DataInv', [Next]_vars
      PROVE  [Promise!Next]_<<job \notin {"IDLE", "DONE"}, Held>>
  <2>1. CASE UNCHANGED vars
    <3>1. UNCHANGED <<job, head, ram>>
      BY <2>1 DEF vars, CT!ctVars
    <3>2. Held' = Held
      BY <3>1, HeldIs
    <3>3. QED
      BY <3>1, <3>2
  <2>2. CASE Next
    <3>1. PICK start \in BOOLEAN : Clock(start)
      BY <2>2 DEF Next
    <3>2. CASE waiting
      <4>1. Promise!Work
        BY <1>2, <3>1, <3>2, StageWorks, PromiseIs DEF Promise!Work
      <4>2. QED
        BY <4>1 DEF Promise!Next
    <3>3. CASE ~waiting /\ job = "IDLE" /\ start
      <4>1. Promise!Load
        BY <1>2, <3>1, <3>3, HostLoads, PromiseIs DEF Promise!Load
      <4>2. QED
        BY <4>1 DEF Promise!Next
    <3>4. CASE ~waiting /\ ~(job = "IDLE" /\ start)
      BY <1>2, <3>1, <3>4, NothingMoves
    <3>5. QED
      BY <3>2, <3>3, <3>4
  <2>3. QED
    BY <1>2, <2>1, <2>2
<1>3. QED
  BY TimeAlways, TypesAlways, DataAlways, <1>1, <1>2, PTL DEF Spec, ImplementsInference, Promise!Spec

-----------------------------------------------------------------------------
(* The stopwatch.  What is on it when a stage starts, and the cycles that  *)
(* stage has been at work, as the registers of its unit tell them.         *)
SharedCycles == 1 + StageCycles("Q") + StageCycles("K") + StageCycles("V")

Before(j, h) ==
  CASE j = "Q"         -> 1
    [] j = "K"         -> 1 + StageCycles("Q")
    [] j = "V"         -> 1 + StageCycles("Q") + StageCycles("K")
    [] j = "E"         -> SharedCycles + h * HeadCycles
    [] j = "SOFTMAX"   -> SharedCycles + h * HeadCycles + StageCycles("E")
    [] j = "TRANSPOSE" -> SharedCycles + h * HeadCycles + StageCycles("E")
                            + StageCycles("SOFTMAX")
    [] j = "Z"         -> SharedCycles + h * HeadCycles + StageCycles("E")
                            + StageCycles("SOFTMAX") + StageCycles("TRANSPOSE")
    [] j = "OUT"       -> SharedCycles + Heads * HeadCycles
    [] j = "DONE"      -> InferenceCycles
    [] OTHER           -> 0

Along(t) ==
  \/ /\ job \in CT!MatMulJob
     /\ \E b, p \in Nat : Multiplying(b, p) /\ t = b * (Words + 1) + p
  \/ job = "SOFTMAX" /\ t = pipeRow * (Array + 1) + cycleCnt
  \/ job = "TRANSPOSE" /\ t = RelayTime

WatchInv ==
  /\ job \notin EachHead => head = 0
  /\ IF waiting THEN \E t \in Nat : Along(t) /\ elapsed = Before(job, head) + 1 + t
     ELSE elapsed = Before(job, head)

(* The cycles of a stage in the terms of its unit. *)
LEMMA ProductCycles ==
  ASSUME job \in CT!MatMulJob, head \in 0 .. Heads - 1
  PROVE  /\ StageCycles(job) = Total * (Words + 1) + Span + 2
         /\ Total * (Words + 1) \in Nat /\ Span \in Nat
<1>1. /\ Words = WordsOf(job) /\ Total = BlocksOf(job) /\ (Mode.transpose <=> Down(job))
      /\ Words \in Nat /\ Total \in Nat /\ Array \in Nat /\ Blocks = Array
  BY Task, TaskOf, Sizes DEF HeadId
<1>2. WordsOf(job) = WordsFed(job) /\ BlocksOf(job) = BlocksMade(job)
  BY <1>1 DEF WordsOf, WordsFed, BlocksOf, BlocksMade, PerHead
<1>3. Span = ComingOut(job) /\ Span \in Nat
  BY <1>1 DEF Span, ComingOut, Down, CT!MatMulJob
<1>4. Total * (Words + 1) \in Nat
  BY <1>1
<1>5. StageCycles(job) = BlocksMade(job) * (WordsFed(job) + 1) + ComingOut(job) + 2
  BY DEF StageCycles, CT!MatMulJob
<1>6. QED
  BY <1>1, <1>2, <1>3, <1>4, <1>5

LEMMA CyclesNat ==
  /\ \A j \in CT!Stage : StageCycles(j) \in Nat
  /\ HeadCycles \in Nat /\ SharedCycles \in Nat
  /\ \A h \in Nat : h * HeadCycles \in Nat /\ (h + 1) * HeadCycles = h * HeadCycles + HeadCycles
<1>1. /\ Array \in Nat /\ Mat \in Nat /\ Blocks \in Nat /\ Heads \in Nat \ {0}
      /\ Blocks \div Heads \in Nat /\ Mat \div Heads \in Nat
  BY Sizes
<1>2. ASSUME NEW j \in CT!Stage PROVE StageCycles(j) \in Nat
  <2>1. BlocksMade(j) \in Nat /\ WordsFed(j) \in Nat /\ ComingOut(j) \in Nat
    BY <1>1, Multiples DEF BlocksMade, WordsFed, ComingOut
  <2>2. BlocksMade(j) * (WordsFed(j) + 1) \in Nat /\ (Mat + 2) * (Array + 1) \in Nat /\ Mat * Array \in Nat
    <3>1. WordsFed(j) + 1 \in Nat /\ Mat + 2 \in Nat /\ Array + 1 \in Nat
      BY <1>1, <2>1
    <3>2. QED
      BY <1>1, <2>1, <3>1, Multiples
  <2>3. QED
    BY <1>1, <2>1, <2>2 DEF StageCycles
<1>3. HeadCycles \in Nat /\ SharedCycles \in Nat
  <2>1. {"Q", "K", "V", "E", "SOFTMAX", "TRANSPOSE", "Z"} \subseteq CT!Stage
    BY DEF CT!Stage, CT!MatMulJob
  <2>2. QED
    BY <1>2, <2>1 DEF HeadCycles, SharedCycles
<1>4. ASSUME NEW h \in Nat
      PROVE  h * HeadCycles \in Nat /\ (h + 1) * HeadCycles = h * HeadCycles + HeadCycles
  BY <1>3, <1>4, Multiples
<1>5. QED
  BY <1>2, <1>3, <1>4

(* A stage starts where the one before has ended. *)
LEMMA StageAfter ==
  ASSUME job \in CT!Stage, head \in 0 .. Heads - 1, waiting, CT!Await(TRUE),
         job \notin EachHead => head = 0
  PROVE  /\ Before(job', head') = Before(job, head) + StageCycles(job)
         /\ job' \notin EachHead => head' = 0
<1>1. /\ \A j \in CT!Stage : StageCycles(j) \in Nat
      /\ HeadCycles \in Nat /\ SharedCycles \in Nat /\ head * HeadCycles \in Nat
      /\ Heads * HeadCycles \in Nat /\ Heads \in Nat \ {0} /\ head \in Nat
      /\ 0 * HeadCycles = 0 /\ (head + 1) * HeadCycles = head * HeadCycles + HeadCycles
  BY CyclesNat, Sizes
<1>2. {"Q", "K", "V", "E", "SOFTMAX", "TRANSPOSE", "Z", "OUT"} \subseteq CT!Stage
  BY DEF CT!Stage, CT!MatMulJob
<1>3. CASE job # "Z"
  <2>1. job' = CT!Follows[job] /\ head' = head
    BY <1>3 DEF CT!Await
  <2>2. CASE job \in {"Q", "K", "V"}
    <3>1. head = 0 /\ head' = 0
      BY <2>1, <2>2 DEF EachHead
    <3>2. CASE job = "Q"
      BY <1>1, <1>2, <2>1, <3>1, <3>2 DEF CT!Follows, Before
    <3>3. CASE job = "K"
      BY <1>1, <1>2, <2>1, <3>1, <3>3 DEF CT!Follows, Before
    <3>4. CASE job = "V"
      <4>1. job' = "E" /\ 0 * HeadCycles = 0
        BY <1>1, <2>1, <3>4 DEF CT!Follows
      <4>2. Before(job', head') = SharedCycles
        BY <1>1, <3>1, <4>1 DEF Before
      <4>3. Before(job, head) + StageCycles(job) = SharedCycles
        BY <1>1, <1>2, <3>4 DEF Before, SharedCycles
      <4>4. QED
        BY <3>1, <4>2, <4>3
    <3>5. QED
      BY <2>2, <3>2, <3>3, <3>4
  <2>3. CASE job \in {"E", "SOFTMAX", "TRANSPOSE"}
    <3>1. job' = [E |-> "SOFTMAX", SOFTMAX |-> "TRANSPOSE", TRANSPOSE |-> "Z"][job]
      BY <2>1, <2>3 DEF CT!Follows
    <3>2. QED
      BY <1>1, <1>2, <2>1, <2>3, <3>1 DEF Before, EachHead
  <2>4. CASE job = "OUT"
    <3>1. job' = "DONE" /\ head' = 0
      BY <2>1, <2>4 DEF CT!Follows, EachHead
    <3>2. QED
      BY <1>1, <1>2, <2>4, <3>1 DEF Before, SharedCycles, InferenceCycles
  <2>5. QED
    BY <1>3, <2>2, <2>3, <2>4 DEF CT!Stage, CT!MatMulJob
<1>4. CASE job = "Z" /\ head # Heads - 1
  <2>1. job' = "E" /\ head' = head + 1
    BY <1>4 DEF CT!Await, CT!LastHead
  <2>2. QED
    BY <1>1, <1>2, <1>4, <2>1 DEF Before, HeadCycles, EachHead
<1>5. CASE job = "Z" /\ head = Heads - 1
  <2>1. job' = "OUT" /\ head' = 0 /\ head + 1 = Heads
    BY <1>1, <1>5 DEF CT!Await, CT!LastHead
  <2>2. QED
    BY <1>1, <1>2, <1>5, <2>1 DEF Before, HeadCycles
<1>6. QED
  BY <1>3, <1>4, <1>5

(* No stage ends after the inference. *)
LEMMA BeforeIs ==
  ASSUME NEW j \in CT!Job, NEW h \in 0 .. Heads - 1
  PROVE  /\ Before(j, h) \in Nat /\ InferenceCycles \in Nat /\ Before(j, h) <= InferenceCycles
         /\ j \in CT!Stage => Before(j, h) + StageCycles(j) <= InferenceCycles
<1>1. /\ \A s \in CT!Stage : StageCycles(s) \in Nat
      /\ HeadCycles \in Nat /\ SharedCycles \in Nat /\ h * HeadCycles \in Nat
      /\ Heads * HeadCycles \in Nat
      /\ InferenceCycles = SharedCycles + Heads * HeadCycles + StageCycles("OUT")
  BY CyclesNat, Sizes DEF InferenceCycles, SharedCycles
<1>2. {"Q", "K", "V", "E", "SOFTMAX", "TRANSPOSE", "Z", "OUT"} \subseteq CT!Stage
  BY DEF CT!Stage, CT!MatMulJob
<1>3. h * HeadCycles + HeadCycles <= Heads * HeadCycles
  <2>1. HeadCycles * h + HeadCycles <= HeadCycles * Heads
    BY <1>1, Sizes, MoreMultiples
  <2>2. QED
    BY <1>1, <2>1, Sizes, Multiples
<1>4. CASE j \in {"Q", "K", "V"}
  BY <1>1, <1>2, <1>4 DEF Before, SharedCycles
<1>5. CASE j \in {"E", "SOFTMAX", "TRANSPOSE", "Z"}
  BY <1>1, <1>2, <1>3, <1>5 DEF Before, HeadCycles
<1>6. CASE j \notin {"Q", "K", "V", "E", "SOFTMAX", "TRANSPOSE", "Z"}
  <2>1. j \in {"OUT", "DONE", "IDLE", "LAYERNORM"}
    BY <1>6 DEF CT!Job, CT!Stage, CT!MatMulJob
  <2>2. j \in {"DONE", "IDLE", "LAYERNORM"} => j \notin CT!Stage
    BY DEF CT!Stage, CT!MatMulJob
  <2>3. QED
    BY <1>1, <1>2, <2>1, <2>2 DEF Before
<1>7. QED
  BY <1>4, <1>5, <1>6

(* The clock of a stage starts at 0, goes on by one, and is two cycles     *)
(* short of the cycles of the stage when it ends: the first of them is the *)
(* cycle of the start, and they are counted to the next start.             *)
LEMMA AlongStart ==
  ASSUME NEW start, TimeInv, Clock(start), ~waiting, job \in CT!Stage
  PROVE  Along(0)' /\ waiting' /\ UNCHANGED <<job, head>>
<1>1. /\ CT!Clock(start, StageDone) /\ ProductClock /\ Relay
      /\ SF!Clock(CT!StartSoftmax, rdata["1"])
  BY DEF Clock, ProductClock
<1>2. CT!Begin /\ waiting' /\ UNCHANGED <<job, head>>
  BY <1>1 DEF CT!Clock, CT!Rest, CT!PassOn, CT!Begin, CT!Await, CT!Stage, CT!MatMulJob
<1>3. NoProduct /\ NoRelay /\ NoSoftmax /\ ~reading /\ head \in 0 .. Heads - 1
  BY DEF TimeInv, CT!TypeOK
<1>4. CASE job \in CT!MatMulJob
  <2>1. Multiplying(0, 0)'
    BY <1>1, <1>2, <1>3, <1>4, ProductStart
  <2>2. Words' \in Nat /\ 0 = 0 * (Words' + 1) + 0
    BY <1>2, <1>3, <1>4, Task, SameTask
  <2>3. QED
    BY <1>2, <1>4, <2>1, <2>2 DEF Along
<1>5. CASE job = "SOFTMAX"
  <2>1. sfState = "IDLE"
    BY <1>3, <1>5 DEF TimeInv, NoSoftmax
  <2>2. pipeRow' = 0 /\ cycleCnt' = 0
    BY <1>1, <2>1 DEF SF!Clock, SF!Sequence
  <2>3. 0 * (Array + 1) + 0 = 0
    BY Sizes
  <2>4. QED
    BY <1>2, <1>5, <2>2, <2>3 DEF Along
<1>6. CASE job = "TRANSPOSE"
  <2>1. trRunning' /\ ~trValidIn'
    BY <1>1, <1>3, <1>6 DEF Relay, NoRelay, CT!StartTranspose
  <2>2. QED
    BY <1>2, <1>6, <2>1 DEF Along, RelayTime
<1>7. QED
  BY <1>4, <1>5, <1>6 DEF CT!Stage

LEMMA AlongStep ==
  ASSUME NEW start, TimeInv, Clock(start), waiting, NEW t \in Nat, Along(t)
  PROVE  /\ CT!Await(StageDone)
         /\ IF StageDone THEN t + 2 = StageCycles(job) ELSE Along(t + 1)'
<1>1. /\ CT!Clock(start, StageDone) /\ ProductClock /\ Relay /\ Transpose /\ Count
      /\ SF!Clock(CT!StartSoftmax, rdata["1"])
  BY DEF Clock, ProductClock
<1>2. /\ CT!Await(StageDone) /\ ~CT!StartSoftmax /\ job \in CT!Stage /\ head \in 0 .. Heads - 1
      /\ ~StageDone => UNCHANGED <<job, head>>
      /\ "SOFTMAX" \notin CT!MatMulJob /\ "TRANSPOSE" \notin CT!MatMulJob
  BY <1>1 DEF TimeInv, CT!TypeOK, CT!Clock, CT!Rest, CT!PassOn, CT!Begin, CT!Await, CT!Stage,
              CT!MatMulJob, CT!StartSoftmax
<1>3. Array \in Nat /\ Array >= 2 /\ Mat \in Nat
  BY Sizes
<1>4. CASE job \in CT!MatMulJob
  <2>1. PICK b, p \in Nat : Multiplying(b, p) /\ t = b * (Words + 1) + p
    BY <1>2, <1>4 DEF Along
  <2>2. NoRelay /\ NoSoftmax
    BY <1>4 DEF TimeInv
  <2>3. PICK nb, np \in Nat : nb = NextB(b, p) /\ np = NextP(b, p)
    BY DEF NextB, NextP
  <2>4. ~StageDone => Multiplying(nb, np)'
    BY <1>1, <1>2, <1>4, <2>1, <2>2, <2>3, ProductStep DEF NoRelay, NoSoftmax
  <2>5. Sized /\ (StageDone <=> b = Total /\ p = Span)
    BY <1>2, <1>4, <2>1, <2>2, Pacing DEF NoSoftmax
  <2>6. StageDone => t + 2 = StageCycles(job)
    BY <1>2, <1>4, <2>1, <2>5, ProductCycles
  <2>7. t + 1 = nb * (Words + 1) + np
    <3>1. PICK w \in Nat, x \in Nat :
            w = Words + 1 /\ x = b * (Words + 1) /\ (b + 1) * (Words + 1) = x + w
      BY <2>5 DEF Sized
    <3>2. CASE EndOfBlock(b, p)
      <4>1. nb = b + 1 /\ np = 0 /\ p = Words
        BY <2>3, <3>2 DEF NextB, NextP, EndOfBlock
      <4>2. QED
        BY <2>1, <2>5, <3>1, <4>1 DEF Sized
    <3>3. CASE ~EndOfBlock(b, p)
      <4>1. nb = b /\ np = p + 1
        BY <2>3, <3>3 DEF NextB, NextP
      <4>2. QED
        BY <2>1, <3>1, <4>1
    <3>4. QED
      BY <3>2, <3>3
  <2>8. ~StageDone => Along(t + 1)'
    <3>1. SUFFICES ASSUME ~StageDone PROVE Along(t + 1)'
      OBVIOUS
    <3>2. Words' = Words /\ job' = job
      BY <1>2, <3>1, SameTask
    <3>3. QED
      BY <1>4, <2>4, <2>7, <3>1, <3>2 DEF Along
  <2>9. QED
    BY <1>2, <2>6, <2>8
<1>5. CASE job = "SOFTMAX"
  <2>1. NoProduct /\ ~reading /\ Normalizing /\ t = pipeRow * (Array + 1) + cycleCnt
    BY <1>2, <1>5 DEF TimeInv, Along
  <2>2. SF!Clock(FALSE, rdata["1"])
    BY <1>1, <1>2 DEF CT!StartSoftmax
  <2>3. /\ StageDone <=> pipeRow = Mat + 1 /\ cycleCnt = Array
        /\ ~StageDone => IF cycleCnt # Array THEN cycleCnt' = cycleCnt + 1 /\ pipeRow' = pipeRow
                         ELSE cycleCnt' = 0 /\ pipeRow' = pipeRow + 1
    BY <1>1, <1>5, <2>1, <2>2, SoftmaxStep
  <2>4. cycleCnt \in 0 .. Array /\ pipeRow \in 0 .. Mat + 1
    BY <2>1 DEF Normalizing
  <2>5. PICK w \in Nat, x \in Nat, y \in Nat :
          /\ w = Array + 1 /\ x = pipeRow * (Array + 1) /\ y = (Mat + 1) * (Array + 1)
          /\ (pipeRow + 1) * (Array + 1) = x + w /\ (Mat + 2) * (Array + 1) = y + w
    BY <1>3, <2>4
  <2>6. StageDone => t + 2 = StageCycles(job)
    <3>1. StageCycles(job) = y + w + 1
      BY <1>5, <2>5 DEF StageCycles
    <3>2. StageDone => t = y + Array
      BY <2>1, <2>3, <2>5
    <3>3. QED
      BY <1>3, <2>5, <3>1, <3>2
  <2>7. ~StageDone => t + 1 = pipeRow' * (Array + 1) + cycleCnt'
    BY <1>3, <2>1, <2>3, <2>4, <2>5
  <2>8. QED
    BY <1>2, <1>5, <2>6, <2>7 DEF Along
<1>6. CASE job = "TRANSPOSE"
  <2>1. NoProduct /\ NoSoftmax /\ Relaying /\ t = RelayTime
    BY <1>2, <1>6 DEF TimeInv, Along
  <2>2. IF StageDone THEN RelayTime = Last + Array + 1 ELSE RelayTime' = RelayTime + 1
    BY <1>1, <1>6, <2>1, RelayStep DEF NoSoftmax
  <2>3. StageCycles(job) = Last + Array + 3 /\ Last \in Nat
    BY <1>3, <1>6 DEF StageCycles, Last
  <2>4. QED
    BY <1>2, <1>3, <1>6, <2>1, <2>2, <2>3 DEF Along
<1>7. QED
  BY <1>2, <1>4, <1>5, <1>6 DEF CT!Stage

LEMMA AlongBound ==
  ASSUME TimeInv, waiting, NEW t \in Nat, Along(t)
  PROVE  t + 2 <= StageCycles(job)
<1>1. /\ job \in CT!Stage /\ head \in 0 .. Heads - 1
      /\ "SOFTMAX" \notin CT!MatMulJob /\ "TRANSPOSE" \notin CT!MatMulJob
  BY DEF TimeInv, CT!TypeOK, CT!MatMulJob
<1>2. Array \in Nat /\ Array >= 2 /\ Mat \in Nat /\ 1 < Mat
  BY Sizes
<1>3. CASE job \in CT!MatMulJob
  <2>1. PICK b, p \in Nat : Multiplying(b, p) /\ t = b * (Words + 1) + p
    BY <1>1, <1>3 DEF Along
  <2>2. Sized /\ InProduct(b, p)
    BY <1>1, <1>3, <2>1, Pacing DEF TimeInv, NoSoftmax
  <2>3. PICK w \in Nat, x \in Nat, y \in Nat, s \in Nat :
          /\ w = Words + 1 /\ x = b * (Words + 1) /\ y = Total * (Words + 1) /\ s = Span
          /\ StageCycles(job) = y + s + 2
    <3>1. Words + 1 \in Nat /\ b * (Words + 1) \in Nat
      BY <2>2 DEF Sized
    <3>2. QED
      BY <1>1, <1>3, <3>1, ProductCycles
  <2>4. b < Total => x + w <= y
    <3>1. b < Total => w * b + w <= w * Total
      BY <2>2, <2>3, MoreMultiples DEF Sized
    <3>2. w * b = x /\ w * Total = y
      BY <2>2, <2>3, Multiples DEF Sized
    <3>3. QED
      BY <3>1, <3>2
  <2>5. b \in 0 .. Total /\ (b < Total => p < w) /\ (b = Total => p <= s /\ x = y)
        /\ Total \in Nat
    BY <2>2, <2>3 DEF InProduct, Span, Sized
  <2>6. t = x + p
    BY <2>1, <2>3
  <2>7. QED
    BY <2>3, <2>4, <2>5, <2>6
<1>4. CASE job = "SOFTMAX"
  <2>1. t = pipeRow * (Array + 1) + cycleCnt /\ cycleCnt \in 0 .. Array /\ pipeRow \in 0 .. Mat + 1
    BY <1>1, <1>4 DEF TimeInv, Along, Normalizing
  <2>2. PICK w \in Nat, x \in Nat, y \in Nat :
          /\ w = Array + 1 /\ x = pipeRow * w /\ y = (Mat + 2) * w
    BY <1>2, <2>1
  <2>3. x + w <= y
    <3>1. w * pipeRow + w <= w * (Mat + 2)
      BY <1>2, <2>1, <2>2, MoreMultiples
    <3>2. w * pipeRow = x /\ w * (Mat + 2) = y
      BY <1>2, <2>1, <2>2, Multiples
    <3>3. QED
      BY <3>1, <3>2
  <2>4. StageCycles(job) = y + 1 /\ t = x + cycleCnt
    BY <1>4, <2>1, <2>2 DEF StageCycles
  <2>5. QED
    BY <1>2, <2>1, <2>2, <2>3, <2>4
<1>5. CASE job = "TRANSPOSE"
  <2>1. Relaying /\ t = RelayTime
    BY <1>1, <1>5 DEF TimeInv, Along
  <2>2. Array * 1 + Array <= Array * Mat /\ Mat * Array = Array * Mat /\ Array * Mat \in Nat
    BY <1>2, Multiples, MoreMultiples
  <2>3. StageCycles(job) = Last + Array + 3 /\ Last \in Nat /\ Array <= Last
    BY <1>2, <1>5, <2>2 DEF StageCycles, Last
  <2>4. RelayTime <= Last + Array + 1
    <3>1. CASE trRunning
      <4>1. trValidIn => trCounter <= Last - 1 /\ trCounter \in Nat
        BY <1>2, <2>1, <2>3, <3>1 DEF Relaying
      <4>2. QED
        BY <1>2, <2>3, <3>1, <4>1 DEF RelayTime
    <3>2. CASE ~trRunning
      <4>1. ~trValidIn => readIdx \in 0 .. Array - 1
        BY <2>1, <3>2, Places DEF Relaying
      <4>2. QED
        BY <1>2, <2>3, <3>2, <4>1 DEF RelayTime
    <3>3. QED
      BY <3>1, <3>2
  <2>5. QED
    BY <1>2, <2>1, <2>3, <2>4
<1>6. QED
  BY <1>1, <1>3, <1>4, <1>5 DEF CT!Stage

(* A unit that keeps the stopwatch's time is not late. *)
LEMMA WatchBound ==
  ASSUME TimeInv, WatchInv
  PROVE  InTime
<1>1. job \in CT!Job /\ head \in 0 .. Heads - 1 /\ (waiting => job \in CT!Stage)
  BY DEF TimeInv, CT!TypeOK
<1>2. /\ Before(job, head) \in Nat /\ InferenceCycles \in Nat /\ Before(job, head) <= InferenceCycles
      /\ job \in CT!Stage => Before(job, head) + StageCycles(job) <= InferenceCycles
  BY <1>1, BeforeIs
<1>3. CASE ~waiting
  BY <1>2, <1>3 DEF WatchInv, InTime, Before
<1>4. CASE waiting
  <2>1. PICK t \in Nat : Along(t) /\ elapsed = Before(job, head) + 1 + t
    BY <1>4 DEF WatchInv
  <2>2. t + 2 <= StageCycles(job) /\ StageCycles(job) \in Nat
    BY <1>1, <1>4, <2>1, AlongBound, CyclesNat
  <2>3. job # "DONE"
    BY <1>1, <1>4 DEF CT!Stage, CT!MatMulJob
  <2>4. QED
    BY <1>1, <1>2, <1>4, <2>1, <2>2, <2>3 DEF InTime
<1>5. QED
  BY <1>3, <1>4

LEMMA WatchStep ==
  ASSUME NEW start, TimeInv, WatchInv, Clock(start), Watch
  PROVE  WatchInv'
<1>1. CT!Clock(start, StageDone) /\ head \in 0 .. Heads - 1 /\ (waiting => job \in CT!Stage)
      /\ job \in CT!Job
  BY DEF Clock, TimeInv, CT!TypeOK
<1>2. Before(job, head) \in Nat /\ InferenceCycles \in Nat /\ elapsed <= InferenceCycles
  BY <1>1, BeforeIs, WatchBound DEF InTime
<1>3. CASE ~waiting /\ job \notin CT!Stage
  <2>1. CT!Rest(start) \/ CT!PassOn
    BY <1>1, <1>3 DEF CT!Clock, CT!Begin, CT!Await
  <2>2. ~waiting' /\ head' = head /\ head = 0 /\ elapsed = Before(job, head)
    BY <1>3, <2>1 DEF CT!Rest, CT!PassOn, WatchInv, EachHead, CT!Stage, CT!MatMulJob
  <2>3. \/ job' \in {"IDLE", "LAYERNORM"}
        \/ job = "LAYERNORM" /\ job' = "Q"
    BY <2>1 DEF CT!Rest, CT!PassOn
  <2>4. elapsed' = Before(job', head')
    BY <1>2, <1>3, <2>2, <2>3 DEF Watch, Before
  <2>5. QED
    BY <2>2, <2>4 DEF WatchInv
<1>4. CASE ~waiting /\ job \in CT!Stage
  <2>1. Along(0)' /\ waiting' /\ job' = job /\ head' = head
    BY <1>4, AlongStart
  <2>2. elapsed' = Before(job, head) + 1 + 0
    BY <1>2, <1>4, <2>1 DEF WatchInv, Watch, CT!Stage, CT!MatMulJob
  <2>3. Before(job', head') = Before(job, head)
    BY <2>1
  <2>4. QED
    BY <2>1, <2>2, <2>3 DEF WatchInv
<1>5. CASE waiting
  <2>1. PICK t \in Nat : Along(t) /\ elapsed = Before(job, head) + 1 + t
    BY <1>5 DEF WatchInv
  <2>2. /\ CT!Await(StageDone) /\ job \in CT!Stage
        /\ IF StageDone THEN t + 2 = StageCycles(job) ELSE Along(t + 1)'
    BY <1>1, <1>5, <2>1, AlongStep
  <2>3. job' \notin {"IDLE", "LAYERNORM"}
    BY <2>2 DEF CT!Await, CT!Follows, CT!Stage, CT!MatMulJob
  <2>4. elapsed' = Before(job, head) + 1 + (t + 1)
    BY <1>2, <2>1, <2>3 DEF Watch
  <2>5. CASE StageDone
    <3>1. CT!Await(TRUE) /\ ~waiting'
      BY <2>2, <2>5 DEF CT!Await
    <3>2. Before(job', head') = Before(job, head) + StageCycles(job) /\ (job' \notin EachHead => head' = 0)
      BY <1>1, <1>5, <2>2, <3>1, StageAfter DEF WatchInv
    <3>3. elapsed' = Before(job', head')
      BY <1>2, <2>2, <2>4, <2>5, <3>2, CyclesNat
    <3>4. QED
      BY <3>1, <3>2, <3>3 DEF WatchInv
  <2>6. CASE ~StageDone
    <3>1. waiting' /\ job' = job /\ head' = head
      BY <2>2, <2>6 DEF CT!Await
    <3>2. Before(job', head') = Before(job, head) /\ t + 1 \in Nat
      BY <3>1
    <3>3. QED
      BY <2>2, <2>4, <2>6, <3>1, <3>2 DEF WatchInv
  <2>7. QED
    BY <2>5, <2>6
<1>6. QED
  BY <1>3, <1>4, <1>5

LEMMA WatchStutter ==
  WatchInv /\ UNCHANGED <<vars, elapsed>> => WatchInv'
<1> SUFFICES ASSUME WatchInv, UNCHANGED <<vars, elapsed>> PROVE WatchInv'
  OBVIOUS
<1>1. /\ UNCHANGED <<job, waiting, head, mmState, kIdx, fed, validIn, accClear, emerging, outCounter>>
      /\ UNCHANGED <<cycleCnt, pipeRow, readIdx, reading>>
      /\ UNCHANGED <<trRunning, trCounter, trValidIn, writeCounter, elapsed>>
  BY DEF vars, CT!ctVars, MM!mmVars, SF!sfVars, TR!trVars, relayVars
<1>2. \A b, p \in Nat : Multiplying(b, p) => Multiplying(b, p)'
  BY <1>1, SameProduct
<1>3. Words' = Words /\ RelayTime' = RelayTime
  BY <1>1, SameTask DEF RelayTime
<1>4. ASSUME NEW t \in Nat, Along(t) PROVE Along(t)'
  BY <1>1, <1>2, <1>3, <1>4 DEF Along
<1>5. Before(job, head)' = Before(job, head)
  BY <1>1
<1>6. QED
  BY <1>1, <1>4, <1>5 DEF WatchInv

(* With the stopwatch the accelerator does what it does without: what is   *)
(* proved of the one holds of the other.                                   *)
LEMMA WatchedOnly ==
  TimedSpec => Spec
<1>1. TimedInit => Init
  BY DEF TimedInit
<1>2. [TimedNext]_<<vars, elapsed>> => [Next]_vars
  BY DEF TimedNext
<1>3. QED
  BY <1>1, <1>2, PTL DEF TimedSpec, Spec

(* An inference takes as many cycles as the sizes say, to the cycle, for   *)
(* every size of array and matrix and every number of heads: each unit is  *)
(* as far as the stopwatch, and the last word of a stage comes when the    *)
(* cycles of that stage are over.                                          *)
THEOREM InTimeAlways ==
  TimedSpec => []InTime
<1>1. TimedInit => TimeInv /\ WatchInv
  <2>1. TimedInit => WatchInv
    BY DEF TimedInit, Init, CT!Init, WatchInv, Before
  <2>2. QED
    BY <2>1, TimeInit DEF TimedInit
<1>2. TimeInv /\ WatchInv /\ [TimedNext]_<<vars, elapsed>> => TimeInv' /\ WatchInv'
  <2>1. TimeInv /\ UNCHANGED <<vars, elapsed>> => TimeInv'
    BY TimeStutter
  <2>2. QED
    BY <2>1, TimeStep, WatchStep, WatchStutter DEF TimedNext, Next
<1>3. TimeInv /\ WatchInv => InTime
  BY WatchBound
<1>4. QED
  BY <1>1, <1>2, <1>3, PTL DEF TimedSpec
=============================================================================
