---------------------------- MODULE TestPrograms ----------------------------
(***************************************************************************)
(* The vector additions of dv/cpu_sim/riscv_test/mt, and thread_entry: the *)
(* two mains matmul and vvadd functions are linked with, and mt-memcpy.    *)
(***************************************************************************)
EXTENDS MatmulPrograms

(* vvadd of the five programs: the sets of indices core c of n adds, in    *)
(* the order of its loop, to vectors of a given size (their DATA_SIZE).    *)
vvadd0(c, n, size) ==
  LET leftover == size % (size \div n)
  IN  For(c * (size \div n), (c + 1) * (size \div n), 1, LAMBDA i : <<{i}>>) \o
      For(size - leftover + c, size, n, LAMBDA i : <<{i}>>)

vvadd1(c, n, size) ==
  For(4 * c, size, 8 * n, LAMBDA i : <<i .. i + 3, i + 4 * n .. i + 4 * n + 3>>)

vvadd2(c, n, size) == For(c, size, 2 * n, LAMBDA i : <<{i}, {i + n}>>)

(* The loop is entered in its middle, so that its first round is short.    *)
vvadd3(c, n, size) ==
  LET share == size \div n
      first == IF share % 8 = 0 THEN 8 ELSE share % 8
      to    == c * share
  IN  <<to .. to + first - 1>> \o
      For(to + first, to + share, 8, LAMBDA i : <<i .. i + 7>>)

vvadd4(c, n, size) == For(c, size, n, LAMBDA i : <<{i}>>)

-----------------------------------------------------------------------------
(* mt-matmul.c: all cores multiply, meet, and verify.                      *)
MatmulEntry(steps) == steps \o <<Barrier, Verify>>

(* mt-vvadd.c: z = x + y; then core 0 verifies and copies x to z; then     *)
(* z = z + y, and core 0 verifies again.  x is term 0, y is term 1.        *)
Vector(I, terms, add) ==
  [kind |-> "tile", elems |-> I, ks |-> terms, add |-> add, copied |-> {}]
Sets(Is)     == [t \in DOMAIN Is |-> Vector(Is[t], {0, 1}, FALSE)]
Adds(Is)     == [t \in DOMAIN Is |-> Vector(Is[t], {1}, TRUE)]
Copies(size) == <<Vector(0 .. size - 1, {0}, FALSE)>>

VvaddEntry(c, size, shares) ==
  <<Barrier>> \o Sets(shares) \o <<Barrier>>
    \o If(c = 0, <<Verify>> \o Copies(size)) \o <<Barrier>>
    \o Adds(shares) \o <<Barrier>> \o If(c = 0, <<Verify>>) \o <<Barrier>>

(* mt-memcpy.c: each core copies its block, twice, and core 0 verifies.  An *)
(* element of the copy is the sum of the one term 0.                        *)
CopyBlock(c, n, size) ==
  LET block  == size \div n + 1
      length == IF n = c + 1 THEN size - c * block ELSE block
  IN  <<Vector(c * block .. c * block + length - 1, {0}, FALSE)>>

MemcpyEntry(c, n, size) ==
  <<Barrier>> \o CopyBlock(c, n, size) \o <<Barrier>> \o CopyBlock(c, n, size)
    \o <<Barrier, Barrier>> \o If(c = 0, <<Verify>>) \o <<Barrier>>

-----------------------------------------------------------------------------
(* The programs by name.                                                   *)
Matmuls == {"ad", "ae", "af", "ag", "ai", "ak", "al", "am", "an", "ap", "aq", "ar",
            "at", "av", "ay", "az", "bb", "bc", "bf", "bh", "bj", "bk", "bm", "bo",
            "br", "bs", "ce", "cf", "cg", "ci", "ck", "cl", "cm", "cs", "cv", "cy",
            "dc", "df", "dm", "do", "dr", "ds", "du", "dv", "matmul"}
Vvadds  == {"vvadd0", "vvadd1", "vvadd2", "vvadd3", "vvadd4"}

Matmul(p, c, n, lda) ==
  CASE p = "ad" -> ad_matmul(c, n, lda) [] p = "ae" -> ae_matmul(c, n, lda)
    [] p = "af" -> af_matmul(c, n, lda) [] p = "ag" -> ag_matmul(c, n, lda)
    [] p = "ai" -> ai_matmul(c, n, lda) [] p = "ak" -> ak_matmul(c, n, lda)
    [] p = "al" -> al_matmul(c, n, lda) [] p = "am" -> am_matmul(c, n, lda)
    [] p = "an" -> an_matmul(c, n, lda) [] p = "ap" -> ap_matmul(c, n, lda)
    [] p = "aq" -> aq_matmul(c, n, lda) [] p = "ar" -> ar_matmul(c, n, lda)
    [] p = "at" -> at_matmul(c, n, lda) [] p = "av" -> av_matmul(c, n, lda)
    [] p = "ay" -> ay_matmul(c, n, lda) [] p = "az" -> az_matmul(c, n, lda)
    [] p = "bb" -> bb_matmul(c, n, lda) [] p = "bc" -> bc_matmul(c, n, lda)
    [] p = "bf" -> bf_matmul(c, n, lda) [] p = "bh" -> bh_matmul(c, n, lda)
    [] p = "bj" -> bj_matmul(c, n, lda) [] p = "bk" -> bk_matmul(c, n, lda)
    [] p = "bm" -> bm_matmul(c, n, lda) [] p = "bo" -> bo_matmul(c, n, lda)
    [] p = "br" -> br_matmul(c, n, lda) [] p = "bs" -> bs_matmul(c, n, lda)
    [] p = "ce" -> ce_matmul(c, n, lda) [] p = "cf" -> cf_matmul(c, n, lda)
    [] p = "cg" -> cg_matmul(c, n, lda) [] p = "ci" -> ci_matmul(c, n, lda)
    [] p = "ck" -> ck_matmul(c, n, lda) [] p = "cl" -> cl_matmul(c, n, lda)
    [] p = "cm" -> cm_matmul(c, n, lda) [] p = "cs" -> cs_matmul(c, n, lda)
    [] p = "cv" -> cv_matmul(c, n, lda) [] p = "cy" -> cy_matmul(c, n, lda)
    [] p = "dc" -> dc_matmul(c, n, lda) [] p = "df" -> df_matmul(c, n, lda)
    [] p = "dm" -> dm_matmul(c, n, lda) [] p = "do" -> do_matmul(c, n, lda)
    [] p = "dr" -> dr_matmul(c, n, lda) [] p = "ds" -> ds_matmul(c, n, lda)
    [] p = "du" -> du_matmul(c, n, lda) [] p = "dv" -> dv_matmul(c, n, lda)
    [] p = "matmul" -> matmul(c, n, lda)

Vvadd(p, c, n, size) ==
  CASE p = "vvadd0" -> vvadd0(c, n, size) [] p = "vvadd1" -> vvadd1(c, n, size)
    [] p = "vvadd2" -> vvadd2(c, n, size) [] p = "vvadd3" -> vvadd3(c, n, size)
    [] p = "vvadd4" -> vvadd4(c, n, size)

(* What core c of n runs when program p is linked with its main and data   *)
(* of a given size, and the result that its main verifies.                 *)
Linked(p, c, n, size) ==
  CASE p \in Matmuls -> MatmulEntry(Matmul(p, c, n, size))
    [] p \in Vvadds  -> VvaddEntry(c, size, Vvadd(p, c, n, size))
    [] p = "memcpy"  -> MemcpyEntry(c, n, size)

Result(p, size) ==
  CASE p \in Matmuls -> [elems |-> 0 .. size * size - 1, terms |-> 0 .. size - 1]
    [] p \in Vvadds  -> [elems |-> 0 .. size - 1, terms |-> {0, 1}]
    [] p = "memcpy"  -> [elems |-> 0 .. size - 1, terms |-> {0}]
=============================================================================
