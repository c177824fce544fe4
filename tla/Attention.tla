----------------------------- MODULE Attention -----------------------------
(***************************************************************************)
(* What the accelerator of rtl/transformer computes, entry by entry: the   *)
(* values are names.  An entry is the name of a matrix with a row and a    *)
(* column, and of a head for E and S, which every head has.  An            *)
(* arithmetic unit that gets the operands an entry is made of produces     *)
(* that entry, and Junk when it gets any others.                           *)
(*                                                                         *)
(*   Q = X Wq   K = X Wk   V = X Wv                                        *)
(*   E = Q Kt over the columns of the head        S = softmax of a row E   *)
(*   Z = S V, each column with the S of its head  O = Z Wo                 *)
(***************************************************************************)
EXTENDS Integers, Sequences, FiniteSets

CONSTANTS
  Array,    (* ARRAY_SIZE: rows and columns of a block, entries of a word *)
  Mat,      (* MAT_SIZE: rows and columns of a matrix                     *)
  Heads     (* NUM_HEADS                                                  *)

Blocks == Mat \div Array     (* NUM_BLOCKS *)
Lane   == 0 .. Array - 1
Index  == 0 .. Mat - 1
HeadId == 0 .. Heads - 1

Product == {"Q", "K", "V", "E", "Z", "O"}
Matrix  == Product \cup {"X", "Wq", "Wk", "Wv", "Wo", "S", "Junk"}
Entry   == [m : Matrix, h : HeadId, r : Index, c : Index]
Word    == [Lane -> Entry]

At(m, h, r, c) == [m |-> m, h |-> h, r |-> r, c |-> c]
Junk           == At("Junk", 0, 0, 0)
JunkWord       == [i \in Lane |-> Junk]

-----------------------------------------------------------------------------
(* The head a column belongs to, and the columns of a head. *)
HeadOf(c)   == c \div (Mat \div Heads)
Columns(h)  == {c \in Index : HeadOf(c) = h}

Left  == [Q |-> "X", K |-> "X", V |-> "X", O |-> "Z"]
Right == [Q |-> "Wq", K |-> "Wk", V |-> "Wv", O |-> "Wo"]

(* The products whose sum is the entry.                                    *)
Terms(e) ==
  CASE e.m = "E" -> {<<At("Q", 0, e.r, k), At("K", 0, e.c, k)>> :
                       k \in Columns(e.h)}
    [] e.m = "Z" -> {<<At("S", HeadOf(e.c), e.r, k), At("V", 0, k, e.c)>> :
                       k \in Index}
    [] OTHER     -> {<<At(Left[e.m], 0, e.r, k), At(Right[e.m], 0, k, e.c)>> :
                       k \in Index}

(* The only entry that a product of a and b can be a term of.              *)
MadeOf(a, b) ==
  IF a.m = "Q" THEN At("E", HeadOf(a.c), a.r, b.r)
  ELSE IF a.m = "S" THEN At("Z", 0, a.r, b.c)
  ELSE IF \E m \in DOMAIN Left : Left[m] = a.m /\ Right[m] = b.m
       THEN At(CHOOSE m \in DOMAIN Left : Left[m] = a.m /\ Right[m] = b.m,
               0, a.r, b.c)
       ELSE Junk

(* An accumulator that was fed these pairs (MAC.sv).                       *)
Dot(pairs) ==
  LET fed  == {pairs[n] : n \in DOMAIN pairs}
      made == MadeOf(pairs[1][1], pairs[1][2])
  IN  IF /\ pairs # <<>> /\ made.m \in Product
         /\ fed = Terms(made) /\ Cardinality(fed) = Len(pairs)
      THEN made ELSE Junk

(* An exponential is an entry with the largest of the entries it was       *)
(* scaled with; a maximum is the set it was taken over.  A quotient is an  *)
(* entry of S when all three cover one row of E, each entry once.          *)
RowOf(e) == {At("E", e.h, e.r, c) : c \in Index}

Quotient(exp, sum) ==
  LET e     == exp[1]
      added == {sum[n] : n \in DOMAIN sum}
  IN  IF /\ e.m = "E" /\ exp[2] = RowOf(e)
         /\ added = {<<x, RowOf(e)>> : x \in RowOf(e)}
         /\ Cardinality(added) = Len(sum)
      THEN At("S", e.h, e.r, e.c) ELSE Junk

-----------------------------------------------------------------------------
(* A matrix in a memory: a word holds part of a row, or part of a column.  *)
Address == 0 .. Mat * Blocks - 1

Plain(m, h) ==
  [a \in Address |-> [i \in Lane |->
     At(m, h, a \div Blocks, (a % Blocks) * Array + i)]]
Transposed(m, h) ==
  [a \in Address |-> [i \in Lane |->
     At(m, h, (a % Blocks) * Array + i, a \div Blocks)]]
-----------------------------------------------------------------------------
(* The parts of an inference: a product of the input has a slice for each  *)
(* head, the columns of that head.  St is S with rows and columns swapped. *)
From == [Q |-> {"X", "Wq"}, K |-> {"X", "Wk"}, V |-> {"X", "Wv"},
         E |-> {"Q", "K"}, S |-> {"E"}, St |-> {"S"}, Z |-> {"St", "V"},
         O |-> {"Z", "Wo"}]

PartOf(m, h) == [m |-> m, h |-> h]
ByHead    == DOMAIN From \ {"O"}
Loaded    == {PartOf(m, 0) : m \in {"X", "Wq", "Wk", "Wv"}}
LateInput == PartOf("Wo", 0)
Output    == PartOf("O", 0)
Part == Loaded \cup {LateInput, Output}
          \cup {PartOf(m, h) : m \in ByHead, h \in HeadId}

(* A part of a head is made of parts of that head, O of those of all.      *)
Needs(p) == {q \in Part : q.m \in From[p.m]
                         /\ (p.m \in ByHead /\ q.m \in ByHead => q.h = p.h)}
MadeFrom(p, parts) == p.m \in DOMAIN From /\ Needs(p) \subseteq parts
=============================================================================
