-------------------------------- MODULE Spmd --------------------------------
(***************************************************************************)
(* The multi-threaded test programs of dv/cpu_sim/riscv_test (mt/ and the  *)
(* mt mains under benchmarks/): every core runs thread_entry with its own *)
(* number, on shared memory, and meets the others at barriers only.        *)
(*                                                                         *)
(* A program is a sequence of steps per core.  A tile computes the sums of *)
(* some elements of the result: where "add" holds it loads them, adds the  *)
(* terms "ks" and stores them; otherwise it stores the terms alone.  The   *)
(* loads are at the start of a step and the stores at its end, with steps  *)
(* of other cores in between.  A number is the set of terms it is the sum  *)
(* of.                                                                     *)
(***************************************************************************)
EXTENDS SenseBarrier, ProgramSteps, Sequences

CONSTANTS
  Jobs,     (* the programs, each with the number of cores it runs on      *)
  Elem,     (* elements of results                                         *)
  Term,     (* what they are sums of                                       *)
  Copied,   (* places of the static array that programs copy B to          *)
  Code,     (* job -> core -> the steps of its thread_entry                *)
  Wanted    (* job -> the elements of its result and the terms each is the *)
            (* sum of                                                      *)

Step ==
  [kind : {"tile"}, elems : SUBSET Elem, ks : SUBSET Term, add : BOOLEAN,
   copied : SUBSET Copied]
  \cup [kind : {"copy"}, copied : SUBSET Copied]
  \cup {Barrier, Verify}

ASSUME CodeAssumption ==
  /\ Code \in [Jobs -> [0 .. MaxCores - 1 -> Seq(Step)]]
  /\ Wanted \in [Jobs -> [elems : SUBSET Elem, terms : SUBSET Term]]

VARIABLES
  job,      (* the program run                                      *)
  pc,       (* per core, the step it is at                          *)
  busy,     (* per core: it has loaded and not yet stored           *)
  held,     (* per core: the elements it is going to store or check *)
  C,        (* the shared result                                    *)
  copy,     (* the places of the copy of B filled so far             *)
  verdict   (* per core, what its last verify returned              *)

coreVars == <<pc, busy, held, C, copy, verdict>>
vars     == <<barrierVars, job, coreVars>>

Init ==
  /\ BarrierInit
  /\ job \in {j \in Jobs : j.cores = ncores}
  /\ pc = [c \in Cores |-> 1]
  /\ busy = [c \in Cores |-> FALSE]
  /\ held = [c \in Cores |-> <<>>]
  /\ C = [e \in Wanted[job].elems |-> {}]
  /\ copy = {}
  /\ verdict = [c \in Cores |-> "none"]

-----------------------------------------------------------------------------
CodeOf(c) == Code[job][c]

(* A verification that fails calls exit at once.                           *)
Done(c) == pc[c] > Len(CodeOf(c)) \/ verdict[c] = "fail"

AtBarrier(c) == ~Done(c) /\ CodeOf(c)[pc[c]] = Barrier
AtWork(c)    == ~Done(c) /\ CodeOf(c)[pc[c]] # Barrier
Work(c)      == CodeOf(c)[pc[c]]

Plus(old, ks) == old \cup ks \cup (IF old \cap ks = {} THEN {} ELSE {Wrong})

(* What a tile is going to store, from what memory holds when it loads.    *)
(* The shared copies are static arrays: zero where nothing was copied yet. *)
Products(s) ==
  IF s.copied \subseteq copy THEN s.ks
  ELSE IF s.copied \cap copy = {} THEN {} ELSE {Wrong}

Sums(s) ==
  LET ks == Products(s)
  IN  [e \in s.elems |-> Plus(IF s.add THEN C[e] ELSE {}, ks)]

Loaded(s) == CASE s.kind = "tile" -> Sums(s) [] s.kind = "verify" -> C [] OTHER -> <<>>

Right == [e \in Wanted[job].elems |-> Wanted[job].terms]

Start(c) ==
  /\ AtWork(c) /\ ~busy[c]
  /\ busy' = [busy EXCEPT ![c] = TRUE]
  /\ held' = [held EXCEPT ![c] = Loaded(Work(c))]
  /\ UNCHANGED <<barrierVars, job, pc, C, copy, verdict>>

Finish(c) ==
  /\ AtWork(c) /\ busy[c]
  /\ busy' = [busy EXCEPT ![c] = FALSE]
  /\ held' = [held EXCEPT ![c] = <<>>]
  /\ C' = IF Work(c).kind = "tile"
          THEN [e \in DOMAIN C |-> IF e \in DOMAIN held[c] THEN held[c][e] ELSE C[e]]
          ELSE C
  /\ copy' = IF Work(c).kind = "copy" THEN copy \cup Work(c).copied ELSE copy
  /\ verdict' = [verdict EXCEPT
       ![c] = IF Work(c) # Verify THEN @ ELSE IF held[c] = Right THEN "pass" ELSE "fail"]
  /\ pc' = [pc EXCEPT ![c] = @ + 1]
  /\ UNCHANGED <<barrierVars, job>>

EnterBarrier(c) ==
  /\ AtBarrier(c) /\ Arrive(c)
  /\ UNCHANGED <<job, coreVars>>

ClearCount(c) == Reset(c) /\ UNCHANGED <<job, coreVars>>

PassBarrier(c) ==
  /\ Release(c) \/ Leave(c)
  /\ pc' = [pc EXCEPT ![c] = @ + 1]
  /\ UNCHANGED <<job, busy, held, C, copy, verdict>>

CoreStep(c) ==
  Start(c) \/ Finish(c) \/ EnterBarrier(c) \/ ClearCount(c) \/ PassBarrier(c)

(* All have called exit.                                                   *)
Halted == (\A c \in Cores : Done(c)) /\ UNCHANGED vars

Next == (\E c \in Cores : CoreStep(c)) \/ Halted

Spec == Init /\ [][Next]_vars

(* Every core runs.                                                        *)
FairSpec == Spec /\ \A c \in 0 .. MaxCores - 1 : WF_vars(c \in Cores /\ CoreStep(c))

-----------------------------------------------------------------------------
TypeOK ==
  /\ BarrierTypeOK
  /\ job \in Jobs
  /\ pc \in [Cores -> Nat \ {0}]
  /\ busy \in [Cores -> BOOLEAN]
  /\ C \in [Wanted[job].elems -> SUBSET (Wanted[job].terms \cup {Wrong})]
  /\ copy \subseteq Copied
  /\ verdict \in [Cores -> {"none", "pass", "fail"}]

(* The shared data a step loads and stores.                                *)
Results(es) == {"C"} \X es
CopiesOf(bs) == {"copy"} \X bs

Stores(s) == CASE s.kind = "tile" -> Results(s.elems)
               [] s.kind = "copy" -> CopiesOf(s.copied)
               [] OTHER -> {}
Loads(j, s) == CASE s.kind = "tile" -> (IF s.add THEN Results(s.elems) ELSE {})
                                       \cup CopiesOf(s.copied)
                 [] s.kind = "verify" -> Results(Wanted[j].elems)
                 [] OTHER -> {}
Conflict(j, s, t) == Stores(s) \cap (Loads(j, t) \cup Stores(t)) # {}

(* How many barriers the i-th step of a core comes after, and what makes a *)
(* program right: steps of two cores between the same barriers share       *)
(* nothing that one of them stores.                                        *)
Phase(code, i) == Cardinality({k \in 1 .. i - 1 : code[k] = Barrier})

Phases ==
  [j \in Jobs |-> [c \in 0 .. MaxCores - 1 |->
    LET code == Code[j][c] IN [i \in 1 .. Len(code) |-> Phase(code, i)]]]

PhasesDisjoint(j) ==
  \A c, d \in 0 .. MaxCores - 1 : c # d =>
    \A i \in DOMAIN Phases[j][c], k \in DOMAIN Phases[j][d] :
      Phases[j][c][i] = Phases[j][d][k] => ~Conflict(j, Code[j][c][i], Code[j][d][k])

(* The steps of a program, as pairs of a core and a place in its code.  A  *)
(* step comes before those that a barrier parts it from and before the     *)
(* later ones of its core.                                                 *)
Places(j)   == UNION {{c} \X (1 .. Len(Code[j][c])) : c \in 0 .. j.cores - 1}
At(j, x)    == Code[j][x[1]][x[2]]
Of(j, kind) == {x \in Places(j) : At(j, x).kind = kind}

Precedes(j, x, y) ==
  \/ Phases[j][x[1]][x[2]] < Phases[j][y[1]][y[2]]
  \/ x[1] = y[1] /\ x[2] < y[2]

Before(j, X, y) == {x \in X : Precedes(j, x, y)}

(* The tiles that store an element, and the terms that some tiles leave in *)
(* it: those of the last one that does not add and of the ones after it.   *)
Tiles(j, e) == {x \in Of(j, "tile") : e \in At(j, x).elems}
Terms(j, X) ==
  UNION {At(j, x).ks : x \in {y \in X : \A z \in X : At(j, z).add \/ ~Precedes(j, y, z)}}

(* What makes the sums of a program right: every element has a tile,       *)
(* between two tiles that add the same term to it there is one that does   *)
(* not add, every verification comes after all the terms wanted, and a     *)
(* copy is read after it is filled.                                        *)
SumRight(j, e) ==
  LET tiles == Tiles(j, e)
  IN  /\ tiles # {}
      /\ \A x, y \in tiles :
           At(j, y).add /\ Precedes(j, x, y) /\ At(j, x).ks \cap At(j, y).ks # {} =>
             \E z \in tiles : ~At(j, z).add /\ Precedes(j, x, z) /\ Precedes(j, z, y)
      /\ \A x \in Of(j, "verify") : Terms(j, Before(j, tiles, x)) = Wanted[j].terms

CopiesRight(j) ==
  LET copies == Of(j, "copy")
  IN  \A x \in Of(j, "tile") :
        At(j, x).copied \subseteq UNION {At(j, y).copied : y \in Before(j, copies, x)}

SumsRight(j) == CopiesRight(j) /\ \A e \in Wanted[j].elems : SumRight(j, e)

TermsWanted(j) ==
  \A x \in Of(j, "tile") : At(j, x).ks \subseteq Wanted[j].terms

(* No core stores what another one is loading or storing at the same time: *)
(* the programs have no lock, so barriers and the division of the work by  *)
(* core number have to keep the cores apart.                               *)
NoRace ==
  \A c, d \in Cores :
    c # d /\ busy[c] /\ busy[d] => ~Conflict(job, Work(c), Work(d))

(* Every verification finds every element of the result complete, with no  *)
(* term lost, added twice or read from a copy not yet filled:              *)
(* mt-matmul.c:54, mt-vvadd.c:56, 72, mt-memcpy.c:63.                      *)
VerifyPasses == \A c \in Cores : verdict[c] # "fail"

(* Every core comes to exit: no barrier is left waiting, although the one  *)
(* counter and the one sense are used again before all have seen them.     *)
AllExit == <>(\A c \in Cores : Done(c))
=============================================================================
