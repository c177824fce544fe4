--------------------------- MODULE MatmulPrograms ---------------------------
(***************************************************************************)
(* What each core of the programs of dv/cpu_sim/riscv_test/mt does to the  *)
(* shared result, in which order, and where its barriers are.  x_matmul is *)
(* matmul() of mt/x_matmul.c for core c of n, on square matrices of lda    *)
(* rows (DIM_SIZE of the data set the program is linked with).             *)
(*                                                                         *)
(* The programs are to compute C[j][i] = sum over k of A[j][k] * B[k][i].  *)
(* The elements of the result are the places of the array C, 0 to          *)
(* lda*lda - 1, and the terms of an element are the values of k.  About    *)
(* half of the programs have 16 and 32 in their loop bounds and subscripts *)
(* where others have lda: a literal here is a literal there.  A product    *)
(* that is no term of the element it is added to is Wrong, and a store     *)
(* behind the array does nothing.                                          *)
(*                                                                         *)
(* Loops whose iterations only unroll the work on one set of elements are  *)
(* one tile, and loops over single rows or columns are taken four rows or  *)
(* columns at a time where no barrier is among them: a longer tile         *)
(* overlaps whatever a shorter one does.  Copies of B private to a core    *)
(* leave no trace but their barriers.                                      *)
(***************************************************************************)
EXTENDS ProgramSteps, Integers, Sequences

LOCAL INSTANCE SequencesExt

(* The term of element e that A[x] * B[y] is.                              *)
TermAt(lda, e, x, y) ==
  IF x \div lda = e \div lda /\ y = lda * (x % lda) + (e % lda) THEN x % lda ELSE Wrong

(* C[CAt(j, i)] = sum over k of A[AAt(j, k)] * B[BAt(k, i)].               *)
Tile(lda, J, I, K, AAt(_, _), BAt(_, _), CAt(_, _)) ==
  LET Inside(j) == {i \in I : CAt(j, i) < lda * lda}
      Terms(j)  == {TermAt(lda, CAt(j, i), AAt(j, k), BAt(k, i)) : i \in Inside(j), k \in K}
  IN  [kind |-> "tile", add |-> FALSE, copied |-> {},
       elems |-> UNION {{CAt(j, i) : i \in Inside(j)} : j \in J},
       ks |-> UNION {Terms(j) : j \in J}]

(* The same with rows of the three arrays a, b and s elements apart.       *)
Strides(lda, a, b, s, J, I, K) ==
  Tile(lda, J, I, K, LAMBDA j, k : j * a + k, LAMBDA k, i : k * b + i, LAMBDA j, i : j * s + i)

Adding(tile) == [tile EXCEPT !.add = TRUE]

Set(lda, J, I, K)   == Strides(lda, lda, lda, lda, J, I, K)
Add(lda, J, I, K)   == Adding(Set(lda, J, I, K))
Set32(lda, J, I, K) == Strides(lda, 32, 32, 32, J, I, K)
Add32(lda, J, I, K) == Adding(Set32(lda, J, I, K))

(* A step that copies rows K and columns I of B to the static array that   *)
(* the cores share, B[k][i] to place lda*i + k, and a tile that reads B    *)
(* there.                                                                  *)
Part(lda, K, I)           == {lda * i + k : k \in K, i \in I}
CopyOf(lda, K, I)         == [kind |-> "copy", copied |-> Part(lda, K, I)]
FromCopy(tile, lda, K, I) == [tile EXCEPT !.copied = Part(lda, K, I)]

All(lda)         == 0 .. lda - 1
Low(lda)         == 0 .. lda \div 2 - 1
High(lda)        == lda \div 2 .. lda - 1
Block(c, n, lda) == c * (lda \div n) .. (c + 1) * (lda \div n) - 1

(* Notation for the steps of a loop, upwards or downwards:                 *)
(* for (x = first; x < last; x += by) body(x).                             *)
For(first, last, by, body(_)) ==
  LET rounds == IF first < last THEN (last - first + by - 1) \div by ELSE 0
  IN  FoldLeft(LAMBDA steps, t : steps \o body(first + t * by), <<>>, [t \in 1 .. rounds |-> t - 1])
Down(first, last, body(_)) == For(0, first - last + 1, 1, LAMBDA t : body(first - t))

Fours(first, last, body(_)) == For(first, last, 4, LAMBDA x : <<body(x .. x + 3)>>)
Over(c, n, lda, by, body(_)) == For(c * (lda \div n), (c + 1) * (lda \div n), by, body)
If(cond, steps) == IF cond THEN steps ELSE <<>>

(* The core that does the second half of the work, or all of it alone.     *)
Second(c, n) == c = 1 \/ n = 1

-----------------------------------------------------------------------------
(* A barrier after every tile.                                             *)
ad_matmul(c, n, lda) ==
  LET Row(j) == For(0, 32, 2, LAMBDA k : <<Add32(lda, {j}, 0 .. 31, {k, k + 1}), Barrier>>)
  IN  Over(c, n, lda, 1, Row)

ae_matmul(c, n, lda) ==
  LET Fill(k)    == <<CopyOf(lda, {k}, Block(c, n, lda)), Barrier>>
      Tile4(i, j) == FromCopy(Set(lda, {j}, i .. i + 3, All(lda)), lda, All(lda), i .. i + 3)
      Cols(i)    == Over(c, n, lda, 1, LAMBDA j : <<Tile4(i, j), Barrier>>)
  IN  For(0, lda, 1, Fill) \o For(0, lda, 4, Cols)

ag_matmul(c, n, lda) ==
  LET Cols(i) == For(0, lda, 4, LAMBDA k :
                       <<Add(lda, Block(c, n, lda), {i, i + 1}, k .. k + 3), Barrier>>)
  IN  For(0, lda, 2, Cols)

an_matmul(c, n, lda) ==
  LET Row(j) == For(0, lda, 1, LAMBDA k : <<Add(lda, {j}, All(lda), {k}), Barrier>>)
  IN  Over(c, n, lda, 1, Row)

(* br and dr transpose B into memory of the core's own, the columns of its *)
(* block only; the rest of that memory is zero.                            *)
Blocked(c, n, lda, by) ==
  LET Transpose(i) == <<Barrier>>
      Sum(j, k2, i) == Add(lda, {j, j + 1}, i .. i + by - 1,
                           IF i \in Block(c, n, lda) THEN k2 .. k2 + 31 ELSE {})
      Cols(i2, j, k2) == For(i2, i2 + 16, by, LAMBDA i : <<Sum(j, k2, i), Barrier>>)
      Rows(j2, i2)  == For(j2, j2 + 32, 2, LAMBDA j : For(0, lda, 32, LAMBDA k2 : Cols(i2, j, k2)))
  IN  For(0, lda, 2, Transpose) \o
      For(0, lda, 32, LAMBDA j2 : Over(c, n, lda, 16, LAMBDA i2 : Rows(j2, i2)))
br_matmul(c, n, lda) == Blocked(c, n, lda, 4)
dr_matmul(c, n, lda) == Blocked(c, n, lda, 8)

(* The columns are those of 32 rows, whatever lda is.                      *)
ce_matmul(c, n, lda) ==
  LET Fill(k)   == <<CopyOf(lda, {k}, Block(c, n, lda)), Barrier>>
      Sum(J, i) == FromCopy(Add(lda, J, i .. i + 7, All(lda)), lda, All(lda), i .. i + 7)
      Rows(i)   == Fours(c * (lda \div n), (c + 1) * (lda \div n), LAMBDA J : Sum(J, i))
  IN  For(0, lda, 1, Fill) \o For(0, n, 1, LAMBDA x : Over(x, n, 32, 8, Rows))

cg_matmul(c, n, lda) ==
  LET Cols(i) == For(0, lda, 4, LAMBDA k :
                       <<Add(lda, Block(c, n, lda), {i, i + 1}, k .. k + 3), Barrier>>)
  IN  For(0, lda, 2, Cols)

cs_matmul(c, n, lda) ==
  LET Rows(j) == For(0, lda, 1, LAMBDA i : <<Set(lda, {j, j + n}, {i}, All(lda)), Barrier>>)
  IN  For(c, lda, 2 * n, Rows)

(* Here each core fills one part of the shared copy B1 of B and the last   *)
(* core alone reads it.                                                    *)
dm_matmul(c, n, lda) ==
  LET last == c = n - 1
      own  == lda \div n
      fill == IF last THEN For(0, own, 1, LAMBDA k : <<CopyOf(lda, {k}, All(lda))>>)
              ELSE For(own, lda, 1, LAMBDA k : <<CopyOf(lda, {k}, All(lda))>>)
      Sum(J)  == Add(lda, J, All(lda), All(lda))
      Rows(J) == IF last THEN FromCopy(Sum(J), lda, All(lda), All(lda)) ELSE Sum(J)
  IN  fill \o <<Barrier>>
           \o Fours(own * c, IF last THEN (lda \div 4) * 4 ELSE ((own * c + own) \div 4) * 4, Rows)

(* One barrier before the work.                                            *)
ai_matmul(c, n, lda) ==
  LET start == (c * lda) \div n
  IN  <<Barrier>> \o For(start, start + lda \div n, 1, LAMBDA j : <<Set(lda, {j}, All(lda), All(lda))>>)
ci_matmul(c, n, lda) ==
  LET start == (c * lda) \div n
  IN  <<Barrier>> \o For(start, start + lda \div n, 1, LAMBDA j : <<Set(lda, {j}, All(lda), All(lda))>>)

-----------------------------------------------------------------------------
(* No barrier: every core has rows or columns of its own.                  *)
af_matmul(c, n, lda) ==
  For((c * lda) \div n, (lda * (1 + c)) \div n, 2,
      LAMBDA l : <<Strides(lda, 32, lda, 32, {l, l + 1}, All(lda), All(lda))>>)
am_matmul(c, n, lda) ==
  For((c * 32) \div n, (32 * (1 + c)) \div n, 2, LAMBDA l : <<Set32(lda, {l, l + 1}, 0 .. 31, All(lda))>>)
du_matmul(c, n, lda) ==
  For((c * 32) \div n, (32 * (1 + c)) \div n, 2, LAMBDA l : <<Set32(lda, {l, l + 1}, 0 .. 31, All(lda))>>)

ap_matmul(c, n, lda) == Over(c, n, lda, 1, LAMBDA j : <<Add(lda, {j}, All(lda), All(lda))>>)
ar_matmul(c, n, lda) == Over(c, n, lda, 1, LAMBDA i : <<Add(lda, {i}, All(lda), All(lda))>>)

(* Row y and column x of B are stored to place y + x * lda of bTrans, for  *)
(* all x and y below 32: where two stores meet, that of the last y stays.  *)
at_matmul(c, n, lda) ==
  LET last(p)    == IF p < 31 THEN p ELSE 31
      LastRow(p) == last(p) - ((last(p) - p) % lda)
      BTrans(p)  == LastRow(p) * lda + (p - LastRow(p)) \div lda
      start      == (c * lda) \div n
      end        == ((c + 1) * lda) \div n
      Cols       == UNION {i .. i + 7 : i \in {x \in start .. end - 1 : (x - start) % 8 = 0}}
      Rows(J)    == Tile(lda, J, Cols, All(lda), LAMBDA j, k : j * lda + k,
                         LAMBDA k, i : BTrans(i * lda + k), LAMBDA j, i : j * lda + i)
  IN  Fours(0, lda, LAMBDA J : Adding(Rows(J)))

bb_matmul(c, n, lda) == For(0, lda, 2, LAMBDA i : <<Set(lda, Block(c, n, lda), {i, i + 1}, All(lda))>>)
do_matmul(c, n, lda) == Fours(0, 32, LAMBDA I : Set32(lda, Block(c, n, 32), I, 0 .. 31))
matmul(c, n, lda)    == For(0, lda, 1, LAMBDA i : <<Set(lda, Block(c, n, lda), {i}, All(lda))>>)

aq_matmul(c, n, lda) == For(c, lda, 2 * n, LAMBDA i : <<Add(lda, All(lda), {i, i + n}, All(lda))>>)
bs_matmul(c, n, lda) ==
  For(c, lda, 4 * n, LAMBDA j : <<Add(lda, {j, j + n, j + 2 * n, j + 3 * n}, All(lda), All(lda))>>)
ds_matmul(c, n, lda) == For(4 * c, lda, 4 * n, LAMBDA j : <<Add(lda, j .. j + 3, All(lda), All(lda))>>)

bm_matmul(c, n, lda) ==
  LET own  == lda \div n
      last == IF c # n - 1 THEN ((own * c + own) \div 4) * 4 ELSE (lda \div 4) * 4
  IN  Fours(own * c, last, LAMBDA J : Add(lda, J, All(lda), All(lda)))

(* Blocks of 16 rows and 16 columns.                                       *)
ak_matmul(c, n, lda) ==
  LET Rows(jj, ii) == For(jj, jj + 16, 1, LAMBDA j : If(j < lda,
                        <<Add(lda, {j}, (ii .. ii + 15) \cap All(lda), All(lda))>>))
  IN  For(16 * c, lda, 16 * n, LAMBDA jj : For(0, lda, 16, LAMBDA ii : Rows(jj, ii)))

(* The blocks of columns in turn, from the core's own one on.              *)
ck_matmul(c, n, lda) ==
  LET Rows(jj, ii) == For(jj, jj + 16, 4, LAMBDA j : If(j < lda,
                        <<Add(lda, j .. j + 3, (ii .. ii + 15) \cap All(lda), All(lda))>>))
  IN  For(16 * c, lda, 16 * n, LAMBDA jj : For(0, lda, 16, LAMBDA t : Rows(jj, (16 * c + t) % lda)))

-----------------------------------------------------------------------------
(* Two halves for two cores; others have nothing to do.                    *)
al_matmul(c, n, lda) ==
  If(c = 0, Fours(0, 32, LAMBDA J : Add(lda, J, 0 .. 15, 0 .. 31))) \o
  If(Second(c, n), Fours(0, 32, LAMBDA J : Add(lda, J, 16 .. 31, 0 .. 31)))

bf_matmul(c, n, lda) ==
  If(c = 0, Fours(0, 32, LAMBDA J : Set(lda, J, 0 .. 15, 0 .. 31))) \o
  If(Second(c, n), Fours(0, 32, LAMBDA J : Set(lda, J, 16 .. 31, 0 .. 31)))

av_matmul(c, n, lda) ==
  If(Second(c, n), Fours(16, 32, LAMBDA J : Add(lda, J, 0 .. 31, 0 .. 31))) \o
  If(c = 0, Fours(0, 16, LAMBDA J : Add(lda, J, 0 .. 31, 0 .. 31)))

cv_matmul(c, n, lda) ==
  If(Second(c, n), Fours(16, 32, LAMBDA J : Add(lda, J, 0 .. 31, 0 .. 31))) \o
  If(c = 0, Fours(0, 16, LAMBDA J : Add(lda, J, 0 .. 31, 0 .. 31)))

(* Elements of the flat array from 512 * c on, along rows of 32.           *)
ByElement(c, n, lda) ==
  LET end == 512 * (IF n = 1 THEN 2 ELSE c + 1)
      row(j) == j \div 32
  IN  If(c <= 1, For(512 * c, end, 128, LAMBDA j :
                       <<Set32(lda, row(j) .. row(j) + 3, 0 .. 31, All(lda))>>))
ay_matmul(c, n, lda) == ByElement(c, n, lda)
az_matmul(c, n, lda) == ByElement(c, n, lda)
cy_matmul(c, n, lda) == ByElement(c, n, lda)

(* Two rows of A at a time, 32 elements apart.                             *)
bo_matmul(c, n, lda) ==
  LET ARow(j) == IF j % 2 = 0 THEN j * lda ELSE (j - 1) * lda + 32
      Cols(J, I) == Tile(lda, J, I, 0 .. 31, LAMBDA j, k : ARow(j) + k,
                         LAMBDA k, i : k * 32 + i, LAMBDA j, i : j * lda + i)
  IN  If(c = 0, Fours(0, 32, LAMBDA I : Cols(0 .. 15, I))) \o
      If(Second(c, n), Fours(0, 32, LAMBDA I : Cols(16 .. 31, I)))

(* The same split twice, each half of the terms in turn.                   *)
TwoPasses(c, n, lda) ==
  LET half     == lda \div 2
      Ahead(K) == For(0, half, 1, LAMBDA j : <<Add(lda, {j}, All(lda), K)>>)
      Back(K)  == Down(lda - 1, half, LAMBDA j : <<Add(lda, {j}, All(lda), K)>>)
  IN  If(c = 0, Ahead(Low(lda)) \o Ahead(High(lda))) \o
      If(Second(c, n), Back(High(lda)) \o Back(Low(lda)))
bh_matmul(c, n, lda) == TwoPasses(c, n, lda)
bj_matmul(c, n, lda) == TwoPasses(c, n, lda)

(* Rows first to first + 15, 16 terms after the other 16.                  *)
Halves(first, lda) ==
  For(0, 32, 16, LAMBDA kk : Fours(first, first + 16, LAMBDA J : Add32(lda, J, 0 .. 31, kk .. kk + 15)))
bk_matmul(c, n, lda) == If(c = 0, Halves(0, lda)) \o If(Second(c, n), Halves(16, lda))
dv_matmul(c, n, lda) == If(Second(c, n), Halves(0, lda)) \o If(c = 0, Halves(16, lda))

cl_matmul(c, n, lda) ==
  LET Rows(first, last, I) == Fours(first, last, LAMBDA J : Add(lda, J, I, 0 .. 31))
  IN  If(c = 0, Rows(0, 32, 0 .. 15)) \o
      If(Second(c, n), Rows(16, 32, 16 .. 31) \o Rows(0, 16, 16 .. 31))

df_matmul(c, n, lda) ==
  LET Rows(first, last, I) == Fours(first, last, LAMBDA J : Add(lda, J, I, 0 .. 31))
  IN  If(c = 0, Rows(0, 16, 0 .. 15) \o Rows(16, 32, 0 .. 15)) \o
      If(Second(c, n), Rows(16, 32, 16 .. 31) \o Rows(0, 16, 16 .. 31))

(* Two cores in blocks if the matrices have the 32 rows these are for; in  *)
(* all other cases one core does the work.                                 *)
Naive(c, lda) == If(c = 0, For(0, lda, 1, LAMBDA i : <<Add(lda, All(lda), {i}, All(lda))>>))

bc_matmul(c, n, lda) ==
  LET Rows(K) == For(16 * c, 16 * (c + 1), 2, LAMBDA j : <<Add32(lda, {j, j + 1}, 0 .. 31, K)>>)
  IN  IF n = 2 /\ lda = 32 THEN Rows(0 .. 15) \o Rows(16 .. 31) ELSE Naive(c, lda)

dc_matmul(c, n, lda) ==
  LET Rows(K) == For(16 * c, 16 * (c + 1), 2, LAMBDA j : <<Add32(lda, {j, j + 1}, 0 .. 31, K)>>)
  IN  IF n = 2 /\ lda = 32
      THEN (IF c = 0 THEN Rows(0 .. 15) \o Rows(16 .. 31) ELSE Rows(16 .. 31) \o Rows(0 .. 15))
      ELSE Naive(c, lda)

(* The terms are split between the cores, and both add to every element.   *)
cf_matmul(c, n, lda) ==
  If(c = 0, For(0, 32, 2, LAMBDA i : <<Add32(lda, {i, i + 1}, 0 .. 31, 0 .. 15)>>)) \o
  If(Second(c, n), For(0, 32, 2, LAMBDA i : <<Add32(lda, {31 - i, 30 - i}, 0 .. 31, 16 .. 31)>>))

cm_matmul(c, n, lda) ==
  LET Rows(J, K) == <<Adding(Strides(lda, lda, 32, lda, J, 0 .. 31, K))>>
  IN  If(c = 0, For(0, lda, 2, LAMBDA i : Rows({i, i + 1}, 0 .. 15))) \o
      If(Second(c, n), For(0, 32, 2, LAMBDA i : Rows({31 - i, 30 - i}, 16 .. 31)))
=============================================================================
