---------------------------- MODULE MCInstrSide ----------------------------
(* One set and two lines of two words that evict each other.  The program   *)
(* runs through all four words in a circle; the predictor knows, or does    *)
(* not know, a branch from the first to the last.                           *)
EXTENDS InstrSide

CONSTANTS t1, t2, i0

At(t, s) == [tag |-> t, idx |-> i0, sel |-> s]
Start    == At(t1, 0)

Straight == [a \in IC!WordAddr |->
              IF a.sel = 0 THEN [a EXCEPT !.sel = 1]
              ELSE At(IF a.tag = t1 THEN t2 ELSE t1, 0)]
Branch   == [Straight EXCEPT ![Start] = At(t2, 1)]

BothPredictions == {Straight, Branch}
AllTargets      == IC!WordAddr
=============================================================================
