------------------------------ MODULE MCMatmul ------------------------------
(* The test programs of MCPrograms in every interleaving of their cores.    *)
EXTENDS MCPrograms, Spmd

MCJobs   == AllJobs
MCElem   == 0 .. Lda32 * Lda32 - 1
MCTerm   == 0 .. Lda32 - 1
MCCopied == MCElem
MCCode   == AllCode
MCWanted == AllResults

(* What the theorems of Spmd_proofs ask of the programs.                    *)
ASSUME DisjointAssumption == \A j \in Jobs : PhasesDisjoint(j)
ASSUME TermsAssumption    == \A j \in Jobs : TermsWanted(j)
ASSUME SumsAssumption     == \A j \in Jobs : SumsRight(j)

(* Why the programs for 32 rows are not run as linked: on one core they     *)
(* leave an element of 16 rows without a tile that stores only its terms.   *)
Misfit(p) ==
  LET code  == Linked(p, 0, 1, Linked16)
      tiles == {code[i] : i \in {k \in DOMAIN code : code[k].kind = "tile"}}
  IN  \E e \in Result(p, Linked16).elems :
        \A t \in tiles : e \in t.elems => Wrong \in t.ks

ASSUME MisfitAssumption == \A p \in For32 \ {"ce"} : Misfit(p)
=============================================================================
