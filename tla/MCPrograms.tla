------------------------------ MODULE MCPrograms ------------------------------
(* The test programs on one, two and four cores, each with data of the size *)
(* it is written for.  A module of its own, extended before Spmd, so that   *)
(* TLC has evaluated the programs once when it comes to Spmd's constants.   *)
EXTENDS TestPrograms, TLC

LOCAL INSTANCE FiniteSetsExt

(* DIM_SIZE of the data set that mt/Makefile links with all of them, the    *)
(* size that half of the multiplications have as a literal, and the vectors.*)
Linked16 == 16
Lda32    == 32
Vector24 == 24
Vector12 == 12

(* The multiplications that leave a result of Linked16 rows incomplete or   *)
(* with a wrong term, one core or more, and ce, which is right on one and   *)
(* the subject of MCMatmulRace on two.                                      *)
For32 == {"ad", "af", "al", "am", "at", "av", "ay", "az", "bf", "bk", "bo", "br",
          "ce", "cf", "cl", "cm", "cv", "cy", "df", "do", "dr", "du", "dv"}

(* On two cores cf and cm add to each other's elements, and vvadd1 runs     *)
(* over the end of a vector whose size is no multiple of 16.                *)
On(programs, n, size) == {[name |-> p, cores |-> n, size |-> size] : p \in programs}
AllJobs ==
  On(Matmuls \ For32, 1, Linked16) \cup On(Matmuls \ For32, 2, Linked16)
  \cup On({"bs"}, 4, Linked16)
  \cup On(For32 \ {"ad", "br", "dr"}, 1, Lda32) \cup On((For32 \ {"cf", "cm"}) \cup {"bc", "dc"}, 2, Lda32)
  \cup On(Vvadds \cup {"memcpy"}, 1, Vector24)
  \cup On((Vvadds \ {"vvadd1"}) \cup {"memcpy"}, 2, Vector24)
  \cup On({"vvadd4", "memcpy"}, 4, Vector12)

MCMaxCores == 4

(* A function whose values TLC evaluates once and not at each application.  *)
Table(S, Value(_)) == FoldSet(LAMBDA x, f : f @@ (x :> Value(x)), <<>>, S)

AllCode ==
  Table(AllJobs, LAMBDA j : Table(0 .. MCMaxCores - 1, LAMBDA c :
    IF c < j.cores THEN Linked(j.name, c, j.cores, j.size) ELSE <<>>))
AllResults == Table(AllJobs, LAMBDA j : Result(j.name, j.size))
=============================================================================
