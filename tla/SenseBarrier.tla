---------------------------- MODULE SenseBarrier ----------------------------
(***************************************************************************)
(* barrier() of dv/cpu_sim/riscv_test/benchmarks/common/util.h: the sense- *)
(* reversing barrier every multi-threaded test program of the repository   *)
(* is built on.  The last core to arrive clears the shared counter and     *)
(* then flips the shared sense; the others spin until the sense is theirs. *)
(* The two stores of the last core are steps of their own, so that a core  *)
(* released early, or arriving again at once, meets them in any order.     *)
(***************************************************************************)
EXTENDS Integers, FiniteSets

CONSTANT MaxCores    (* the most cores a program is run with *)

ASSUME MaxCoresAssumption == MaxCores \in Nat \ {0}

VARIABLES
  ncores,       (* nc: how many cores take part                          *)
  sense,        (* the shared static sense                               *)
  count,        (* the shared static count                               *)
  threadsense,  (* per core, its thread-local threadsense                *)
  where,        (* per core: "out" of the barrier; "spin": in the loop;  *)
                (* "last": count is still to be cleared; "set": sense is *)
                (* still to be set                                       *)
  entered       (* history: per core, the barriers it has entered        *)

barrierVars == <<ncores, sense, count, threadsense, where, entered>>

Cores == 0 .. ncores - 1

BarrierInit ==
  /\ ncores \in 1 .. MaxCores
  /\ sense = FALSE
  /\ count = 0
  /\ threadsense = [c \in Cores |-> FALSE]
  /\ where = [c \in Cores |-> "out"]
  /\ entered = [c \in Cores |-> 0]

(* What __sync_fetch_and_add returned makes this core the last one.        *)
IsLastButOne == count = ncores - 2  \* fault: one arrival too few is counted
IsLastLate   == count = ncores      \* fault: the value after the addition is meant
IsLast == count = ncores - 1

Arrive(c) ==
  /\ where[c] = "out"
  /\ threadsense' = [threadsense EXCEPT ![c] = ~@]
  /\ count' = count + 1
  /\ where' = [where EXCEPT ![c] = IF IsLast THEN "last" ELSE "spin"]
  /\ entered' = [entered EXCEPT ![c] = @ + 1]
  /\ UNCHANGED <<ncores, sense>>

(* The last core's two stores, in the order of the code.                   *)
KeepCount == count  \* fault: the counter is not cleared
ClearedCount == 0

Reset(c) ==
  /\ where[c] = "last"
  /\ count' = ClearedCount
  /\ where' = [where EXCEPT ![c] = "set"]
  /\ UNCHANGED <<ncores, sense, threadsense, entered>>

Release(c) ==
  /\ where[c] = "set"
  /\ sense' = threadsense[c]
  /\ where' = [where EXCEPT ![c] = "out"]
  /\ UNCHANGED <<ncores, count, threadsense, entered>>

(* The loop of the others ends.                                            *)
Leave(c) ==
  /\ where[c] = "spin"
  /\ sense = threadsense[c]
  /\ where' = [where EXCEPT ![c] = "out"]
  /\ UNCHANGED <<ncores, sense, count, threadsense, entered>>

BarrierNext == \E c \in Cores : Arrive(c) \/ Reset(c) \/ Release(c) \/ Leave(c)

BarrierSpec == BarrierInit /\ [][BarrierNext]_barrierVars

-----------------------------------------------------------------------------
BarrierTypeOK ==
  /\ ncores \in 1 .. MaxCores
  /\ sense \in BOOLEAN
  /\ count \in 0 .. ncores
  /\ threadsense \in [Cores -> BOOLEAN]
  /\ where \in [Cores -> {"out", "spin", "last", "set"}]
  /\ entered \in [Cores -> Nat]

(* Nobody is out of a barrier that another core has not reached yet: what  *)
(* a core did before its n-th barrier is done when any core goes on after  *)
(* its n-th.  One counter and one sense serve all barriers, and a core may *)
(* be in the next barrier while others still spin in this one.             *)
Rendezvous == \A c, d \in Cores : where[c] = "out" => entered[d] >= entered[c]
=============================================================================
