----------------------------- MODULE MCDataSide -----------------------------
(* Instances of the data side small enough to enumerate.                    *)
EXTENDS DataSide

CONSTANTS t1, t2, t3, i0, b0, b1

At(t, s)       == [tag |-> t, idx |-> i0, sel |-> s]
Put(a, d, st)  == [kind |-> "store", addr |-> a, data |-> d, strb |-> st]
Every(d)       == [b \in Lane |-> d]

(* evict: one set of two ways and three one-word lines; one of them is      *)
(* stored to, another value than it has at first.                           *)
EvictLoads  == {At(t, 0) : t \in Tag}
EvictStores == {Put(At(t1, 0), Every(1), Lane)}

(* wrap: one line of two words, refilled from either word; one lane of the  *)
(* first word is cleared, or the whole word is set.                         *)
WrapLoads  == {At(t1, s) : s \in DC!Sel}
WrapStores == {Put(At(t1, 0), Every(0), {b0}), Put(At(t1, 0), Every(1), Lane)}

(* stale: a byte of a word is stored, as in cache_subsystem_tb.sv TEST 4.   *)
StaleStores == {Put(At(t1, 0), Every(d), {b0}) : d \in Byte}
=============================================================================
