----------------------------- MODULE Stopwatch -----------------------------
(***************************************************************************)
(* How long an inference takes: the accelerator with a count of the clock  *)
(* edges since it was started, which nothing of it looks at.  No unit ever *)
(* waits for another one, so that the sizes alone decide the count.        *)
(***************************************************************************)
EXTENDS Transformer

VARIABLE elapsed   (* clock edges since the start *)

-----------------------------------------------------------------------------
(* A product feeds its blocks one after the other, with a cycle between    *)
(* two for the accumulators; then the rows of the last block come out, and *)
(* its columns when the product is stored transposed.                      *)
BlocksMade(j) == Blocks * (IF j = "Z" THEN Blocks \div Heads ELSE Blocks)
WordsFed(j)   == IF j = "E" THEN Mat \div Heads ELSE Mat
ComingOut(j)  == (IF j \in {"Q", "K", "Z"} THEN 3 ELSE 2) * Array

(* The cycles of a stage, from its start to that of the next one.          *)
StageCycles(j) ==
  IF j = "SOFTMAX" THEN (Mat + 2) * (Array + 1) + 1
  ELSE IF j = "TRANSPOSE" THEN Mat * Array + Array + 3
  ELSE BlocksMade(j) * (WordsFed(j) + 1) + ComingOut(j) + 2

HeadCycles == StageCycles("E") + StageCycles("SOFTMAX")
                + StageCycles("TRANSPOSE") + StageCycles("Z")

InferenceCycles ==
  1 + StageCycles("Q") + StageCycles("K") + StageCycles("V")
    + Heads * HeadCycles + StageCycles("OUT")

-----------------------------------------------------------------------------
(* The stopwatch runs from the start of an inference and stops, at the     *)
(* latest, a cycle after the inference was due.                            *)
Watch ==
  elapsed' = IF job' \in {"IDLE", "LAYERNORM"} THEN 0
             ELSE IF elapsed > InferenceCycles THEN elapsed ELSE elapsed + 1

TimedInit == Init /\ elapsed = 0
TimedNext == Next /\ Watch

TimedSpec == TimedInit /\ [][TimedNext]_<<vars, elapsed>> /\ WF_vars(Next)

(* An inference takes this number of cycles, to the cycle, whatever the    *)
(* data.  The units count for themselves, each in its own way, and a       *)
(* controller that waits for the last word of a stage waits for ever when  *)
(* the count of the words and the unit that writes them differ by one.     *)
InTime == /\ elapsed <= InferenceCycles
          /\ job = "DONE" => elapsed = InferenceCycles
=============================================================================
