---------------------------- MODULE MCMatmulRace ----------------------------
(* ce_matmul as mt/Makefile links it, with 16 rows, on two cores.           *)
EXTENDS Spmd, TestPrograms

AllJobs == {[name |-> "ce", cores |-> 2, size |-> 16]}
AllCode ==
  [j \in AllJobs |-> [c \in 0 .. MaxCores - 1 |-> Linked(j.name, c, j.cores, j.size)]]
AllResults == [j \in AllJobs |-> Result(j.name, j.size)]

MCJobs   == AllJobs
MCElem   == 0 .. 255
MCTerm   == 0 .. 15 \cup {Wrong}
MCCopied == 0 .. 511
MCCode   == AllCode
MCWanted == AllResults
=============================================================================
