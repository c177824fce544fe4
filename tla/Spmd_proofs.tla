---------------------------- MODULE Spmd_proofs ----------------------------
(***************************************************************************)
(* The barrier keeps the cores of a program together, and barriers are     *)
(* enough: a program whose cores share nothing between two barriers has no *)
(* race, and if its sums are right on paper, they come out right in every  *)
(* interleaving.  For every program and every number of cores.             *)
(***************************************************************************)
EXTENDS Spmd, FiniteSetTheorems, TLAPS

-----------------------------------------------------------------------------
(* The cores that have arrived at the barrier the sense is not flipped for *)
(* yet.                                                                    *)
Waiting == {c \in Cores : threadsense[c] # sense}

Finishing == {c \in Cores : where[c] \in {"last", "set"}}

(* The counter counts the waiting cores until the last one has come; then  *)
(* everybody waits, and one core finishes the barrier.                     *)
CountInv ==
  /\ Finishing = {} => count = Cardinality(Waiting) /\ count < ncores
  /\ \A c \in Cores : where[c] = "last" => Waiting = Cores /\ count = ncores
  /\ \A c \in Cores : where[c] = "set" => Waiting = Cores /\ count = 0
  /\ \A c, d \in Finishing : c = d

PlaceInv ==
  \A c \in Cores : IF c \in Waiting THEN where[c] # "out" ELSE where[c] \in {"out", "spin"}

(* Waiting cores have entered one barrier more than the others.            *)
EnteredInv ==
  \A c, d \in Cores :
    /\ threadsense[c] = threadsense[d] => entered[c] = entered[d]
    /\ c \in Waiting /\ d \notin Waiting => entered[c] = entered[d] + 1

TypeInv ==
  /\ ncores \in Nat \ {0}
  /\ sense \in BOOLEAN
  /\ count \in Nat
  /\ threadsense \in [Cores -> BOOLEAN]
  /\ where \in [Cores -> {"out", "spin", "last", "set"}]
  /\ entered \in [Cores -> Nat]

IInv == TypeInv /\ CountInv /\ PlaceInv /\ EnteredInv

-----------------------------------------------------------------------------
LEMMA CoresFinite ==
  ASSUME ncores \in Nat
  PROVE  IsFiniteSet(Cores) /\ Cardinality(Cores) = ncores
<1>1. IsFiniteSet(0 .. ncores - 1)
      /\ Cardinality(0 .. ncores - 1) = IF 0 > ncores - 1 THEN 0 ELSE ncores - 1 - 0 + 1
  BY FS_Interval
<1> QED  BY <1>1 DEF Cores

LEMMA InitIInv == BarrierInit => IInv
<1> SUFFICES ASSUME BarrierInit PROVE IInv
  OBVIOUS
<1>1. TypeInv
  <2>1. ncores \in Nat \ {0}
    BY MaxCoresAssumption DEF BarrierInit
  <2> QED  BY <2>1 DEF BarrierInit, TypeInv
<1>2. Waiting = {} /\ Finishing = {}
  BY DEF BarrierInit, Waiting, Finishing
<1>3. CountInv
  BY <1>1, <1>2, FS_EmptySet DEF CountInv, BarrierInit, TypeInv, Finishing
<1>4. PlaceInv /\ EnteredInv
  BY <1>2 DEF PlaceInv, EnteredInv, BarrierInit, Waiting
<1> QED  BY <1>1, <1>3, <1>4 DEF IInv

(* One more core waits.                                                    *)
LEMMA ArriveStep ==
  ASSUME IInv, NEW c \in Cores, Arrive(c)
  PROVE  IInv'
<1> USE DEF IInv
<1>1. c \notin Waiting
  BY DEF Arrive, PlaceInv
<1>2. Cores' = Cores /\ Waiting' = Waiting \cup {c}
  BY <1>1 DEF TypeInv, Arrive, Waiting, Cores
<1>3. Finishing = {}
  BY <1>1 DEF CountInv, Finishing
<1>4. count = Cardinality(Waiting) /\ count < ncores
  BY <1>3 DEF CountInv
<1>5. /\ IsFiniteSet(Waiting) /\ IsFiniteSet(Waiting')
      /\ Cardinality(Waiting') = count + 1
  <2>1. IsFiniteSet(Waiting)
    BY CoresFinite, FS_Subset DEF TypeInv, Waiting
  <2> QED  BY <2>1, <1>1, <1>2, <1>4, FS_AddElement
<1>6. TypeInv'
  BY <1>2 DEF TypeInv, Arrive
<1>7. CASE IsLast
  <2>1. Waiting' = Cores
    <3>1. Waiting' \subseteq Cores /\ Cardinality(Waiting') = Cardinality(Cores)
      BY <1>2, <1>5, <1>7, CoresFinite DEF IsLast, TypeInv, Waiting
    <3> QED  BY <3>1, CoresFinite, FS_Subset DEF TypeInv
  <2>2. Finishing' = {c}
    BY <1>2, <1>3, <1>7 DEF Finishing, Arrive, TypeInv
  <2>3. count' = ncores /\ ncores' = ncores /\ where'[c] = "last"
    BY <1>7 DEF Arrive, IsLast, TypeInv
  <2>4. CountInv'
    BY <1>2, <2>1, <2>2, <2>3 DEF CountInv, Finishing
  <2>5. PlaceInv' /\ EnteredInv'
    BY <1>1, <1>2, <1>3, <1>7, <2>1
       DEF PlaceInv, EnteredInv, TypeInv, Arrive, Finishing, Waiting
  <2> QED  BY <1>6, <2>4, <2>5
<1>8. CASE ~IsLast
  <2>1. Finishing' = {}
    BY <1>2, <1>3, <1>8 DEF Finishing, Arrive, TypeInv
  <2>2. CountInv'
    BY <1>2, <1>4, <1>5, <1>8, <2>1 DEF CountInv, Arrive, IsLast, TypeInv, Finishing
  <2> QED  BY <1>1, <1>2, <1>6, <2>1, <2>2
           DEF PlaceInv, EnteredInv, TypeInv, Arrive, Finishing, Waiting, IsLast
<1> QED  BY <1>7, <1>8

LEMMA ResetStep ==
  ASSUME IInv, NEW c \in Cores, Reset(c)
  PROVE  IInv'
<1> USE DEF IInv
<1>1. Cores' = Cores /\ Waiting' = Waiting /\ Waiting = Cores
  BY DEF Reset, Cores, Waiting, CountInv
<1>2. Finishing' = Finishing /\ c \in Finishing
  BY <1>1 DEF Reset, Finishing, TypeInv
<1>3. TypeInv'
  BY <1>1 DEF TypeInv, Reset, ClearedCount
<1>4. CountInv'
  BY <1>1, <1>2 DEF CountInv, Reset, TypeInv, Finishing, ClearedCount
<1> QED  BY <1>1, <1>3, <1>4 DEF PlaceInv, EnteredInv, Reset, TypeInv

(* The sense flips: nobody waits any more.                                 *)
LEMMA ReleaseStep ==
  ASSUME IInv, NEW c \in Cores, Release(c)
  PROVE  IInv'
<1> USE DEF IInv
<1>1. Cores' = Cores /\ Waiting = Cores /\ count = 0 /\ Finishing = {c}
  BY DEF Release, Cores, CountInv, Finishing
<1>2. Waiting' = {}
  BY <1>1 DEF Release, Waiting, TypeInv
<1>3. Finishing' = {}
  BY <1>1 DEF Release, Finishing, TypeInv
<1>4. TypeInv'
  BY <1>1 DEF TypeInv, Release
<1>5. CountInv'
  BY <1>1, <1>2, <1>3, FS_EmptySet DEF CountInv, Release, TypeInv, Finishing
<1>6. PlaceInv'
  BY <1>1, <1>2 DEF PlaceInv, Release, TypeInv, Finishing
<1>7. EnteredInv'
  BY <1>1, <1>2 DEF EnteredInv, Release, TypeInv
<1> QED  BY <1>4, <1>5, <1>6, <1>7

LEMMA LeaveStep ==
  ASSUME IInv, NEW c \in Cores, Leave(c)
  PROVE  IInv'
<1> USE DEF IInv
<1>1. Cores' = Cores /\ Waiting' = Waiting /\ c \notin Waiting
  BY DEF Leave, Cores, Waiting
<1>2. Finishing' = Finishing
  BY <1>1 DEF Leave, Finishing, TypeInv
<1>3. TypeInv'
  BY <1>1 DEF TypeInv, Leave
<1>4. CountInv'
  BY <1>1, <1>2 DEF CountInv, Leave, TypeInv, Finishing
<1> QED  BY <1>1, <1>3, <1>4 DEF PlaceInv, EnteredInv, Leave, TypeInv

LEMMA NextIInv == IInv /\ [BarrierNext]_barrierVars => IInv'
<1> SUFFICES ASSUME IInv, [BarrierNext]_barrierVars PROVE IInv'
  OBVIOUS
<1>1. CASE BarrierNext
  BY <1>1, ArriveStep, ResetStep, ReleaseStep, LeaveStep DEF BarrierNext
<1>2. CASE UNCHANGED barrierVars
  BY <1>2 DEF barrierVars, IInv, TypeInv, CountInv, PlaceInv, EnteredInv, Waiting,
     Finishing, Cores
<1> QED  BY <1>1, <1>2

(* A core that is out of the barrier does not wait; whoever waits has      *)
(* entered one barrier more, whoever does not, as many.                    *)
LEMMA IInvRendezvous == IInv => Rendezvous
  BY DEF IInv, TypeInv, PlaceInv, EnteredInv, Rendezvous, Waiting

(* The counter never passes the number of cores.                           *)
LEMMA IInvCount == IInv => count \in 0 .. ncores
<1> SUFFICES ASSUME IInv PROVE count \in 0 .. ncores
  OBVIOUS
<1>1. count \in Nat /\ ncores \in Nat
  BY DEF IInv, TypeInv
<1>2. CASE Finishing = {}
  BY <1>1, <1>2 DEF IInv, CountInv
<1>3. CASE Finishing # {}
  BY <1>1, <1>3 DEF IInv, CountInv, Finishing
<1> QED  BY <1>2, <1>3

(* For every number of cores and any speed of theirs, no core leaves a     *)
(* barrier (util.h: barrier) before all have entered it.                   *)
THEOREM BarrierIsRendezvous == BarrierSpec => []Rendezvous
  BY InitIInv, NextIInv, IInvRendezvous, PTL DEF BarrierSpec

-----------------------------------------------------------------------------
(* Where a core is in its program, and in the barrier it is at.            *)
PlacesInv ==
  /\ job \in Jobs
  /\ ncores \in 1 .. MaxCores
  /\ pc \in [Cores -> Nat \ {0}]
  /\ busy \in [Cores -> BOOLEAN]
  /\ \A c \in Cores :
       /\ busy[c] => pc[c] <= Len(CodeOf(c)) /\ Work(c) # Barrier
       /\ where[c] # "out" => pc[c] <= Len(CodeOf(c)) /\ Work(c) = Barrier
       /\ pc[c] <= Len(CodeOf(c)) + 1

(* A core has entered the barriers it is past, and the one it is in.       *)
CountsInv ==
  \A c \in Cores :
    entered[c] = Phase(CodeOf(c), pc[c]) + (IF where[c] = "out" THEN 0 ELSE 1)

ProgramInv == IInv /\ PlacesInv /\ CountsInv

-----------------------------------------------------------------------------
LEMMA CodeType ==
  ASSUME job \in Jobs, ncores \in 1 .. MaxCores, NEW c \in Cores
  PROVE  CodeOf(c) \in Seq(Step) /\ c \in 0 .. MaxCores - 1
<1>1. c \in 0 .. MaxCores - 1
  BY MaxCoresAssumption DEF Cores
<1> QED  BY <1>1, CodeAssumption DEF CodeOf

LEMMA PhaseNat ==
  ASSUME NEW code, NEW i \in Nat \ {0}
  PROVE  /\ IsFiniteSet({k \in 1 .. i - 1 : code[k] = Barrier})
         /\ Phase(code, i) \in Nat
<1>1. IsFiniteSet(1 .. i - 1)
  BY FS_Interval
<1>2. IsFiniteSet({k \in 1 .. i - 1 : code[k] = Barrier})
  BY <1>1, FS_Subset
<1> QED  BY <1>2, FS_CardinalityType DEF Phase

LEMMA PhaseFirst == ASSUME NEW code PROVE Phase(code, 1) = 0
<1>1. {k \in 1 .. 1 - 1 : code[k] = Barrier} = {}
  OBVIOUS
<1> QED  BY <1>1, FS_EmptySet DEF Phase

(* A step that is a barrier begins a new phase and any other does not.     *)
LEMMA PhaseNext ==
  ASSUME NEW code, NEW i \in Nat \ {0}
  PROVE  Phase(code, i + 1) = Phase(code, i) + (IF code[i] = Barrier THEN 1 ELSE 0)
<1> DEFINE Crossed(j) == {k \in 1 .. j - 1 : code[k] = Barrier}
<1>1. CASE code[i] = Barrier
  <2>1. Crossed(i + 1) = Crossed(i) \cup {i}
    BY <1>1
  <2>2. i \notin Crossed(i)
    OBVIOUS
  <2>3. Cardinality(Crossed(i) \cup {i}) = Cardinality(Crossed(i)) + 1
    BY <2>2, PhaseNat, FS_AddElement
  <2> QED  BY <1>1, <2>1, <2>3 DEF Phase
<1>2. CASE code[i] # Barrier
  <2>1. Crossed(i + 1) = Crossed(i)
    BY <1>2
  <2> QED  BY <1>2, <2>1, PhaseNat DEF Phase
<1> QED  BY <1>1, <1>2

-----------------------------------------------------------------------------
LEMMA InitProgramInv == Init => ProgramInv
<1> SUFFICES ASSUME Init PROVE ProgramInv
  OBVIOUS
<1>1. IInv
  BY InitIInv DEF Init
<1>2. job \in Jobs /\ ncores \in 1 .. MaxCores
  BY DEF Init, BarrierInit
<1>3. \A c \in Cores : where[c] = "out" /\ entered[c] = 0 /\ pc[c] = 1 /\ busy[c] = FALSE
  BY DEF Init, BarrierInit
<1>4. PlacesInv
  <2>1. \A c \in Cores : Len(CodeOf(c)) \in Nat
    BY <1>2, CodeType
  <2>2. pc \in [Cores -> Nat \ {0}] /\ busy \in [Cores -> BOOLEAN]
    BY DEF Init
  <2> QED  BY <1>2, <1>3, <2>1, <2>2 DEF PlacesInv
<1>5. CountsInv
  BY <1>3, PhaseFirst DEF CountsInv
<1> QED  BY <1>1, <1>4, <1>5 DEF ProgramInv

(* Work is done outside of barriers and is not one.                        *)
LEMMA StartKeeps ==
  ASSUME ProgramInv, NEW c \in Cores, Start(c)
  PROVE  PlacesInv' /\ CountsInv'
<1> USE DEF ProgramInv
<1>1. Cores' = Cores /\ \A d \in Cores : CodeOf(d)' = CodeOf(d) /\ Work(d)' = Work(d)
  BY DEF Start, Cores, CodeOf, Work, barrierVars
<1>2. pc[c] <= Len(CodeOf(c)) /\ Work(c) # Barrier
  <2>1. Len(CodeOf(c)) \in Nat /\ pc[c] \in Nat
    BY CodeType DEF PlacesInv
  <2> QED  BY <2>1 DEF Start, AtWork, Done, Work
<1>3. PlacesInv'
  BY <1>1, <1>2 DEF PlacesInv, Start, barrierVars
<1>4. CountsInv'
  BY <1>1 DEF CountsInv, Start, barrierVars
<1> QED  BY <1>3, <1>4

LEMMA FinishKeeps ==
  ASSUME ProgramInv, NEW c \in Cores, Finish(c)
  PROVE  PlacesInv' /\ CountsInv'
<1> USE DEF ProgramInv
<1>1. Cores' = Cores /\ \A d \in Cores : CodeOf(d)' = CodeOf(d)
  BY DEF Finish, Cores, CodeOf, barrierVars
<1>2. /\ UNCHANGED <<job, ncores, where, entered>>
      /\ pc' = [pc EXCEPT ![c] = @ + 1] /\ busy' = [busy EXCEPT ![c] = FALSE]
  BY DEF Finish, barrierVars
<1>3. Len(CodeOf(c)) \in Nat /\ pc[c] \in Nat \ {0}
  BY CodeType DEF PlacesInv
<1>4. pc[c] <= Len(CodeOf(c)) /\ Work(c) # Barrier /\ where[c] = "out"
  BY <1>3 DEF Finish, AtWork, Done, Work, PlacesInv
<1>5. \A d \in Cores : d # c => Work(d)' = Work(d) /\ pc'[d] = pc[d] /\ busy'[d] = busy[d]
  BY <1>1, <1>2 DEF Work, PlacesInv
<1>6. pc'[c] = pc[c] + 1 /\ busy'[c] = FALSE
  BY <1>2 DEF PlacesInv
<1>7. PlacesInv'
  <2>1. pc' \in [Cores -> Nat \ {0}] /\ busy' \in [Cores -> BOOLEAN]
    BY <1>2, <1>3 DEF PlacesInv
  <2>2. ASSUME NEW d \in Cores
        PROVE  /\ busy'[d] => pc'[d] <= Len(CodeOf(d)') /\ Work(d)' # Barrier
               /\ where'[d] # "out" => pc'[d] <= Len(CodeOf(d)') /\ Work(d)' = Barrier
               /\ pc'[d] <= Len(CodeOf(d)') + 1
    <3>1. CASE d = c
      BY <3>1, <1>1, <1>2, <1>3, <1>4, <1>6
    <3>2. CASE d # c
      BY <3>2, <1>1, <1>2, <1>5 DEF PlacesInv
    <3> QED  BY <3>1, <3>2
  <2> QED  BY <1>1, <1>2, <2>1, <2>2 DEF PlacesInv
<1>8. CountsInv'
  <2>1. ASSUME NEW d \in Cores
        PROVE  entered'[d] = Phase(CodeOf(d)', pc'[d]) + (IF where'[d] = "out" THEN 0 ELSE 1)
    <3>1. CASE d = c
      <4>1. Phase(CodeOf(c), pc[c] + 1) = Phase(CodeOf(c), pc[c]) + 0
        BY <1>3, <1>4, PhaseNext DEF Work
      <4>2. Phase(CodeOf(c), pc[c]) \in Nat
        BY <1>3, PhaseNat
      <4>3. entered[c] = Phase(CodeOf(c), pc[c])
        BY <1>4, <4>2 DEF CountsInv
      <4>4. CodeOf(c)' = CodeOf(c) /\ entered'[c] = entered[c] /\ where'[c] = "out"
        BY <1>1, <1>2, <1>4
      <4>5. Phase(CodeOf(c)', pc'[c]) = Phase(CodeOf(c), pc[c])
        BY <4>1, <4>2, <4>4, <1>6
      <4> QED  BY <3>1, <4>2, <4>3, <4>4, <4>5
    <3>2. CASE d # c
      BY <3>2, <1>1, <1>2, <1>5 DEF CountsInv
    <3> QED  BY <3>1, <3>2
  <2> QED  BY <1>1, <2>1 DEF CountsInv
<1> QED  BY <1>7, <1>8

(* Only a core at a barrier enters it, ...                                 *)
LEMMA EnterKeeps ==
  ASSUME ProgramInv, NEW c \in Cores, EnterBarrier(c)
  PROVE  PlacesInv' /\ CountsInv'
<1> USE DEF ProgramInv
<1>1. /\ UNCHANGED <<job, ncores, pc, busy>>
      /\ where[c] = "out"
      /\ where' = [where EXCEPT ![c] = IF IsLast THEN "last" ELSE "spin"]
      /\ entered' = [entered EXCEPT ![c] = @ + 1]
  BY DEF EnterBarrier, Arrive, coreVars
<1>2. Cores' = Cores /\ \A d \in Cores : CodeOf(d)' = CodeOf(d) /\ Work(d)' = Work(d)
  BY <1>1 DEF Cores, CodeOf, Work
<1>3. pc[c] <= Len(CodeOf(c)) /\ Work(c) = Barrier
  <2>1. Len(CodeOf(c)) \in Nat /\ pc[c] \in Nat
    BY CodeType DEF PlacesInv
  <2> QED  BY <2>1 DEF EnterBarrier, AtBarrier, Done, Work
<1>4. where'[c] # "out" /\ entered'[c] = entered[c] + 1
  BY <1>1 DEF IInv, TypeInv
<1>5. \A d \in Cores : d # c => where'[d] = where[d] /\ entered'[d] = entered[d]
  BY <1>1 DEF IInv, TypeInv
<1>6. PlacesInv'
  BY <1>1, <1>2, <1>3, <1>4, <1>5 DEF PlacesInv
<1>7. CountsInv'
  <2>1. ASSUME NEW d \in Cores
        PROVE  entered'[d] = Phase(CodeOf(d)', pc'[d]) + (IF where'[d] = "out" THEN 0 ELSE 1)
    <3>1. CASE d = c
      <4>1. Phase(CodeOf(c), pc[c]) \in Nat
        BY PhaseNat DEF PlacesInv
      <4>2. entered[c] = Phase(CodeOf(c), pc[c])
        BY <1>1, <4>1 DEF CountsInv
      <4>3. Phase(CodeOf(c)', pc'[c]) = Phase(CodeOf(c), pc[c])
        BY <1>1, <1>2
      <4> QED  BY <3>1, <4>1, <4>2, <4>3, <1>4
    <3>2. CASE d # c
      BY <3>2, <1>1, <1>2, <1>5 DEF CountsInv
    <3> QED  BY <3>1, <3>2
  <2> QED  BY <1>2, <2>1 DEF CountsInv
<1> QED  BY <1>6, <1>7

LEMMA ClearKeeps ==
  ASSUME ProgramInv, NEW c \in Cores, ClearCount(c)
  PROVE  PlacesInv' /\ CountsInv'
<1> USE DEF ProgramInv
<1>1. /\ UNCHANGED <<job, ncores, pc, busy, entered>>
      /\ where[c] = "last" /\ where' = [where EXCEPT ![c] = "set"]
  BY DEF ClearCount, Reset, coreVars
<1>2. Cores' = Cores /\ \A d \in Cores : CodeOf(d)' = CodeOf(d) /\ Work(d)' = Work(d)
  BY <1>1 DEF Cores, CodeOf, Work
<1>3. \A d \in Cores : where'[d] = "out" <=> where[d] = "out"
  BY <1>1 DEF IInv, TypeInv
<1>4. PlacesInv'
  BY <1>1, <1>2, <1>3 DEF PlacesInv
<1>5. CountsInv'
  BY <1>1, <1>2, <1>3 DEF CountsInv
<1> QED  BY <1>4, <1>5

(* ... and past it is in the phase after it.                               *)
LEMMA PassKeeps ==
  ASSUME ProgramInv, NEW c \in Cores, PassBarrier(c)
  PROVE  PlacesInv' /\ CountsInv'
<1> USE DEF ProgramInv
<1>1. /\ UNCHANGED <<job, ncores, busy, entered>>
      /\ pc' = [pc EXCEPT ![c] = @ + 1]
      /\ where[c] # "out" /\ where' = [where EXCEPT ![c] = "out"]
  BY DEF PassBarrier, Release, Leave
<1>2. Cores' = Cores /\ \A d \in Cores : CodeOf(d)' = CodeOf(d)
  BY <1>1 DEF Cores, CodeOf
<1>3. Len(CodeOf(c)) \in Nat /\ pc[c] \in Nat \ {0}
  BY CodeType DEF PlacesInv
<1>4. pc[c] <= Len(CodeOf(c)) /\ Work(c) = Barrier /\ ~busy[c]
  BY <1>1 DEF PlacesInv
<1>5. \A d \in Cores : d # c => Work(d)' = Work(d) /\ pc'[d] = pc[d] /\ where'[d] = where[d]
  BY <1>1, <1>2 DEF Work, PlacesInv, IInv, TypeInv
<1>6. pc'[c] = pc[c] + 1 /\ where'[c] = "out"
  BY <1>1 DEF PlacesInv, IInv, TypeInv
<1>7. PlacesInv'
  <2>1. pc' \in [Cores -> Nat \ {0}]
    BY <1>1, <1>3 DEF PlacesInv
  <2>2. ASSUME NEW d \in Cores
        PROVE  /\ busy'[d] => pc'[d] <= Len(CodeOf(d)') /\ Work(d)' # Barrier
               /\ where'[d] # "out" => pc'[d] <= Len(CodeOf(d)') /\ Work(d)' = Barrier
               /\ pc'[d] <= Len(CodeOf(d)') + 1
    <3>1. CASE d = c
      BY <3>1, <1>1, <1>2, <1>3, <1>4, <1>6
    <3>2. CASE d # c
      BY <3>2, <1>1, <1>2, <1>5 DEF PlacesInv
    <3> QED  BY <3>1, <3>2
  <2> QED  BY <1>1, <1>2, <2>1, <2>2 DEF PlacesInv
<1>8. CountsInv'
  <2>1. ASSUME NEW d \in Cores
        PROVE  entered'[d] = Phase(CodeOf(d)', pc'[d]) + (IF where'[d] = "out" THEN 0 ELSE 1)
    <3>1. CASE d = c
      <4>1. Phase(CodeOf(c), pc[c] + 1) = Phase(CodeOf(c), pc[c]) + 1
        BY <1>3, <1>4, PhaseNext DEF Work
      <4>2. Phase(CodeOf(c), pc[c]) \in Nat
        BY <1>3, PhaseNat
      <4>3. entered[c] = Phase(CodeOf(c), pc[c]) + 1
        BY <1>1, <4>2 DEF CountsInv
      <4>4. Phase(CodeOf(c)', pc'[c]) = Phase(CodeOf(c), pc[c]) + 1
        BY <4>1, <1>2, <1>6
      <4> QED  BY <3>1, <4>2, <4>3, <4>4, <1>1, <1>6
    <3>2. CASE d # c
      BY <3>2, <1>1, <1>2, <1>5 DEF CountsInv
    <3> QED  BY <3>1, <3>2
  <2> QED  BY <1>2, <2>1 DEF CountsInv
<1> QED  BY <1>7, <1>8

LEMMA StutterKeeps == ProgramInv /\ UNCHANGED vars => ProgramInv'
<1> SUFFICES ASSUME ProgramInv, UNCHANGED vars PROVE ProgramInv'
  OBVIOUS
<1>1. IInv'
  BY NextIInv DEF ProgramInv, vars
<1>2. Cores' = Cores /\ \A d \in Cores : CodeOf(d)' = CodeOf(d) /\ Work(d)' = Work(d)
  BY DEF vars, barrierVars, coreVars, Cores, CodeOf, Work
<1>3. PlacesInv' /\ CountsInv'
  BY <1>2 DEF ProgramInv, PlacesInv, CountsInv, vars, barrierVars, coreVars
<1> QED  BY <1>1, <1>3 DEF ProgramInv

LEMMA NextProgramInv == ProgramInv /\ [Next]_vars => ProgramInv'
<1> SUFFICES ASSUME ProgramInv, [Next]_vars PROVE ProgramInv'
  OBVIOUS
<1>1. ASSUME NEW c \in Cores, CoreStep(c)
      PROVE  ProgramInv'
  <2>1. [BarrierNext]_barrierVars
    BY <1>1 DEF CoreStep, Start, Finish, EnterBarrier, ClearCount, PassBarrier, BarrierNext
  <2>2. IInv'
    BY <2>1, NextIInv DEF ProgramInv
  <2>3. PlacesInv' /\ CountsInv'
    BY <1>1, StartKeeps, FinishKeeps, EnterKeeps, ClearKeeps, PassKeeps DEF CoreStep
  <2> QED  BY <2>2, <2>3 DEF ProgramInv
<1>2. CASE UNCHANGED vars
  BY <1>2, StutterKeeps
<1> QED  BY <1>1, <1>2 DEF Next, Halted

-----------------------------------------------------------------------------
(* No core of a program is past a barrier that another one has not reached: *)
(* the barrier of util.h as the programs use it.                           *)
THEOREM CoresMeet == Spec => []Rendezvous
<1>1. ProgramInv => Rendezvous
  BY IInvRendezvous DEF ProgramInv
<1> QED  BY <1>1, InitProgramInv, NextProgramInv, PTL DEF Spec

LEMMA PhasesOf ==
  ASSUME NEW j \in Jobs, NEW c \in 0 .. MaxCores - 1
  PROVE  /\ DOMAIN Phases[j][c] = 1 .. Len(Code[j][c])
         /\ \A i \in 1 .. Len(Code[j][c]) : Phases[j][c][i] = Phase(Code[j][c], i)
  BY DEF Phases

LEMMA DisjointNoRace ==
  ASSUME \A j \in Jobs : PhasesDisjoint(j), ProgramInv
  PROVE  NoRace
<1> SUFFICES ASSUME NEW c \in Cores, NEW d \in Cores, c # d, busy[c], busy[d]
             PROVE  ~Conflict(job, Work(c), Work(d))
  BY DEF NoRace
<1> USE DEF ProgramInv
<1>1. where[c] = "out" /\ where[d] = "out"
  BY DEF PlacesInv
<1>2. entered[c] = entered[d]
  BY <1>1, IInvRendezvous DEF Rendezvous, IInv, TypeInv
<1>3. Phase(CodeOf(c), pc[c]) = Phase(CodeOf(d), pc[d])
  <2>1. Phase(CodeOf(c), pc[c]) \in Nat /\ Phase(CodeOf(d), pc[d]) \in Nat
    BY PhaseNat DEF PlacesInv
  <2> QED  BY <1>1, <1>2, <2>1 DEF CountsInv
<1>4. /\ c \in 0 .. MaxCores - 1 /\ d \in 0 .. MaxCores - 1
      /\ pc[c] \in 1 .. Len(CodeOf(c)) /\ pc[d] \in 1 .. Len(CodeOf(d))
  BY CodeType DEF PlacesInv
<1>5. PhasesDisjoint(job) /\ job \in Jobs
  BY DEF PlacesInv
<1>6. /\ pc[c] \in DOMAIN Phases[job][c] /\ pc[d] \in DOMAIN Phases[job][d]
      /\ Phases[job][c][pc[c]] = Phases[job][d][pc[d]]
  BY <1>3, <1>4, <1>5, PhasesOf DEF CodeOf
<1> QED  BY <1>4, <1>5, <1>6 DEF PhasesDisjoint, CodeOf, Work

(* Barriers are enough: if steps of two cores that come after the same     *)
(* number of barriers never share what one of them stores, no two cores    *)
(* ever race, on any number of cores.                                      *)
THEOREM PhasesKeepApart ==
  ASSUME \A j \in Jobs : PhasesDisjoint(j)
  PROVE  Spec => []NoRace
<1>1. ProgramInv => NoRace
  BY DisjointNoRace
<1> QED  BY <1>1, InitProgramInv, NextProgramInv, PTL DEF Spec

-----------------------------------------------------------------------------
(* What the shared result is while a program runs: the sums of the tiles   *)
(* that cores are past.                                                    *)
Sound == \A j \in Jobs : PhasesDisjoint(j) /\ SumsRight(j)

Passed(x) == x[2] < pc[x[1]]
Now(c)    == <<c, pc[c]>>
Stored(e) == {x \in Tiles(job, e) : Passed(x)}

MemoryInv ==
  /\ C = [e \in Wanted[job].elems |-> Terms(job, Stored(e))]
  /\ \A x \in Of(job, "copy") : Passed(x) => At(job, x).copied \subseteq copy

(* What a core holds is what its elements will be when it has stored.      *)
HeldInv ==
  /\ DOMAIN held = Cores
  /\ \A c \in Cores : busy[c] =>
       /\ Work(c).kind = "tile" =>
            /\ DOMAIN held[c] = Work(c).elems
            /\ \A e \in Work(c).elems \cap Wanted[job].elems :
                 held[c][e] = Terms(job, Stored(e) \cup {Now(c)})
       /\ Work(c) = Verify => held[c] = Right

VerdictInv == verdict \in [Cores -> {"none", "pass"}]

ResultInv == ProgramInv /\ job.cores = ncores /\ MemoryInv /\ HeldInv /\ VerdictInv

-----------------------------------------------------------------------------
LEMMA PhaseGrows ==
  ASSUME NEW code, NEW i \in Nat \ {0}, NEW k \in Nat \ {0}, i <= k
  PROVE  Phase(code, i) <= Phase(code, k)
<1>1. {n \in 1 .. i - 1 : code[n] = Barrier} \subseteq {n \in 1 .. k - 1 : code[n] = Barrier}
  OBVIOUS
<1> QED  BY <1>1, PhaseNat, FS_Subset DEF Phase

LEMMA PlaceType ==
  ASSUME NEW j \in Jobs, j.cores \in 1 .. MaxCores, NEW x \in Places(j)
  PROVE  /\ x = <<x[1], x[2]>>
         /\ x[1] \in 0 .. j.cores - 1 /\ x[1] \in 0 .. MaxCores - 1
         /\ x[2] \in 1 .. Len(Code[j][x[1]]) /\ x[2] \in Nat \ {0}
         /\ Code[j][x[1]] \in Seq(Step) /\ At(j, x) \in Step
<1>1. PICK c \in 0 .. j.cores - 1 : x \in {c} \X (1 .. Len(Code[j][c]))
  BY DEF Places
<1>2. c \in 0 .. MaxCores - 1
  BY MaxCoresAssumption
<1>3. Code[j][c] \in Seq(Step)
  BY <1>2, CodeAssumption
<1>4. x[1] = c /\ x[2] \in 1 .. Len(Code[j][c]) /\ x = <<x[1], x[2]>>
  BY <1>1
<1> QED  BY <1>2, <1>3, <1>4 DEF At

LEMMA PrecedesOneWay ==
  ASSUME NEW j \in Jobs, j.cores \in 1 .. MaxCores,
         NEW x \in Places(j), NEW y \in Places(j), Precedes(j, x, y)
  PROVE  ~Precedes(j, y, x)
<1>1. /\ Phases[j][x[1]][x[2]] = Phase(Code[j][x[1]], x[2])
      /\ Phases[j][y[1]][y[2]] = Phase(Code[j][y[1]], y[2])
  <2>1. /\ x[1] \in 0 .. MaxCores - 1 /\ x[2] \in 1 .. Len(Code[j][x[1]])
        /\ y[1] \in 0 .. MaxCores - 1 /\ y[2] \in 1 .. Len(Code[j][y[1]])
    BY PlaceType
  <2> QED  BY <2>1, PhasesOf
<1>2. x[2] \in Nat \ {0} /\ y[2] \in Nat \ {0}
  BY PlaceType
<1>3. Phase(Code[j][x[1]], x[2]) \in Nat /\ Phase(Code[j][y[1]], y[2]) \in Nat
  BY <1>2, PhaseNat
<1>4. ASSUME x[1] = y[1], x[2] <= y[2]
      PROVE  Phase(Code[j][x[1]], x[2]) <= Phase(Code[j][y[1]], y[2])
  BY <1>2, <1>4, PhaseGrows
<1>5. ASSUME x[1] = y[1], y[2] <= x[2]
      PROVE  Phase(Code[j][y[1]], y[2]) <= Phase(Code[j][x[1]], x[2])
  BY <1>2, <1>5, PhaseGrows
<1> QED  BY <1>1, <1>2, <1>3, <1>4, <1>5 DEF Precedes

(* A tile that comes after all others adds its terms or replaces theirs.   *)
LEMMA TermsOneMore ==
  ASSUME NEW j \in Jobs, j.cores \in 1 .. MaxCores,
         NEW p \in Of(j, "tile"), NEW X \in SUBSET Places(j),
         \A x \in X : Precedes(j, x, p)
  PROVE  Terms(j, X \cup {p}) = (IF At(j, p).add THEN Terms(j, X) ELSE {}) \cup At(j, p).ks
<1> DEFINE Live(Y) == {y \in Y : \A z \in Y : At(j, z).add \/ ~Precedes(j, y, z)}
<1>1. p \in Places(j) /\ At(j, p).add \in BOOLEAN
  <2>1. p \in Places(j) /\ At(j, p).kind = "tile"
    BY DEF Of
  <2>2. At(j, p) \in Step
    BY <2>1, PlaceType
  <2> QED  BY <2>1, <2>2 DEF Step, Barrier, Verify
<1>2. \A x \in X \cup {p} : ~Precedes(j, p, x)
  BY <1>1, PrecedesOneWay
<1>3. Live(X \cup {p}) = (IF At(j, p).add THEN Live(X) ELSE {}) \cup {p}
  <2>1. p \in Live(X \cup {p})
    BY <1>2
  <2>2. CASE At(j, p).add
    BY <2>1, <2>2
  <2>3. CASE ~At(j, p).add
    BY <2>1, <2>3
  <2> QED  BY <1>1, <2>2, <2>3
<1>4. \A Y : Terms(j, Y) = UNION {At(j, y).ks : y \in Live(Y)}
  BY DEF Terms
<1> HIDE DEF Live
<1>5. PICK L : L = Live(X)
  OBVIOUS
<1>6. Terms(j, X \cup {p}) = UNION {At(j, y).ks : y \in Live(X \cup {p})}
  BY <1>4
<1>7. Terms(j, X) = UNION {At(j, y).ks : y \in L}
  BY <1>4, <1>5
<1>8. UNION {At(j, y).ks : y \in L \cup {p}} = (UNION {At(j, y).ks : y \in L}) \cup At(j, p).ks
  OBVIOUS
<1>9. UNION {At(j, y).ks : y \in {p}} = At(j, p).ks
  OBVIOUS
<1>10. CASE At(j, p).add
  <2>1. Live(X \cup {p}) = L \cup {p}
    BY <1>3, <1>5, <1>10
  <2> QED  BY <2>1, <1>6, <1>7, <1>8, <1>10
<1>11. CASE ~At(j, p).add
  <2>1. Live(X \cup {p}) = {p}
    BY <1>3, <1>11
  <2> QED  BY <2>1, <1>6, <1>9, <1>11
<1> QED  BY <1>10, <1>11

(* What a core at work knows of the others: they are past the steps of     *)
(* earlier phases, and past none of later ones.                            *)
LEMMA OthersPhase ==
  ASSUME ProgramInv, NEW c \in Cores, where[c] = "out",
         NEW d \in Cores, NEW k \in 1 .. Len(CodeOf(d))
  PROVE  /\ k < pc[d] => Phase(CodeOf(d), k) <= Phase(CodeOf(c), pc[c])
         /\ CodeOf(d)[k] # Barrier /\ Phase(CodeOf(d), k) < Phase(CodeOf(c), pc[c])
              => k < pc[d]
<1> USE DEF ProgramInv
<1>1. Len(CodeOf(d)) \in Nat /\ pc[d] \in Nat \ {0} /\ pc[c] \in Nat \ {0} /\ k \in Nat \ {0}
  BY CodeType DEF PlacesInv
<1>2. Phase(CodeOf(d), k) \in Nat /\ Phase(CodeOf(d), pc[d]) \in Nat
      /\ Phase(CodeOf(c), pc[c]) \in Nat
  BY <1>1, PhaseNat
<1>3. entered[c] = Phase(CodeOf(c), pc[c])
  BY <1>2 DEF CountsInv
<1>4. entered[d] = Phase(CodeOf(d), pc[d]) + (IF where[d] = "out" THEN 0 ELSE 1)
  BY DEF CountsInv
<1>5. entered[d] >= entered[c]
  BY IInvRendezvous DEF Rendezvous
<1>6. where[d] = "out" => entered[c] >= entered[d]
  BY IInvRendezvous DEF Rendezvous
<1>7. entered[d] <= entered[c] + 1
  BY DEF IInv, TypeInv, EnteredInv, Waiting
<1>8. entered[c] \in Nat /\ entered[d] \in Nat
  BY DEF IInv, TypeInv
<1>9. ASSUME k < pc[d]
      PROVE  Phase(CodeOf(d), k) <= Phase(CodeOf(c), pc[c])
  <2>1. Phase(CodeOf(d), k) <= Phase(CodeOf(d), pc[d])
    BY <1>1, <1>9, PhaseGrows
  <2> QED  BY <2>1, <1>2, <1>3, <1>4, <1>6, <1>7, <1>8
<1>10. ASSUME CodeOf(d)[k] # Barrier, Phase(CodeOf(d), k) < Phase(CodeOf(c), pc[c]), pc[d] <= k
       PROVE  FALSE
  <2>1. CASE where[d] = "out"
    <3>1. Phase(CodeOf(d), pc[d]) <= Phase(CodeOf(d), k)
      BY <1>1, <1>10, PhaseGrows
    <3> QED  BY <3>1, <2>1, <1>2, <1>3, <1>4, <1>5, <1>8, <1>10
  <2>2. CASE where[d] # "out"
    <3>1. CodeOf(d)[pc[d]] = Barrier
      BY <2>2 DEF PlacesInv, Work
    <3>2. pc[d] + 1 <= k /\ pc[d] + 1 \in Nat \ {0}
      BY <3>1, <1>1, <1>10
    <3>3. Phase(CodeOf(d), pc[d] + 1) = Phase(CodeOf(d), pc[d]) + 1
      BY <3>1, <1>1, PhaseNext
    <3>4. Phase(CodeOf(d), pc[d] + 1) <= Phase(CodeOf(d), k)
      BY <3>2, <1>1, PhaseGrows
    <3> QED  BY <3>3, <3>4, <2>2, <1>2, <1>3, <1>4, <1>5, <1>8, <1>10
  <2> QED  BY <2>1, <2>2
<1> QED  BY <1>1, <1>9, <1>10

(* So the tiles that have stored what a core loads or is going to store    *)
(* are those that come before its step.                                    *)
LEMMA StoredBefore ==
  ASSUME PhasesDisjoint(job), ProgramInv, job.cores = ncores,
         NEW c \in Cores, where[c] = "out", pc[c] <= Len(CodeOf(c)),
         NEW e \in Wanted[job].elems,
         \/ Work(c).kind = "tile" /\ e \in Work(c).elems
         \/ Work(c) = Verify
  PROVE  Stored(e) = Before(job, Tiles(job, e), Now(c))
<1> USE DEF ProgramInv
<1>1. job \in Jobs /\ job.cores \in 1 .. MaxCores /\ Cores = 0 .. job.cores - 1
  BY DEF PlacesInv, Cores
<1>2. c \in 0 .. MaxCores - 1 /\ pc[c] \in 1 .. Len(Code[job][c])
  BY CodeType DEF PlacesInv, CodeOf
<1>3. Phases[job][c][pc[c]] = Phase(CodeOf(c), pc[c])
  BY <1>1, <1>2, PhasesOf DEF CodeOf
<1>4. ASSUME NEW x \in Tiles(job, e)
      PROVE  Passed(x) <=> Precedes(job, x, Now(c))
  <2>1. x \in Places(job) /\ At(job, x).kind = "tile" /\ e \in At(job, x).elems
    BY DEF Tiles, Of
  <2>2. PICK d, k : x[1] = d /\ x[2] = k
    OBVIOUS
  <2>3. /\ d \in Cores /\ d \in 0 .. MaxCores - 1 /\ k \in 1 .. Len(Code[job][d])
        /\ At(job, x) = Code[job][d][k]
    BY <1>1, <2>1, <2>2, PlaceType DEF At
  <2>4. Phases[job][d][k] = Phase(CodeOf(d), k)
    BY <1>1, <2>3, PhasesOf DEF CodeOf
  <2>5. Passed(x) <=> k < pc[d]
    BY <2>2 DEF Passed
  <2>6. Precedes(job, x, Now(c)) <=>
          Phase(CodeOf(d), k) < Phase(CodeOf(c), pc[c]) \/ (d = c /\ k < pc[c])
    <3>1. Now(c)[1] = c /\ Now(c)[2] = pc[c]
      BY DEF Now
    <3> QED  BY <3>1, <1>3, <2>2, <2>4 DEF Precedes
  <2>7. Code[job][d][k] # Barrier
    BY <2>1, <2>3 DEF Barrier
  <2>8. /\ k < pc[d] => Phase(CodeOf(d), k) <= Phase(CodeOf(c), pc[c])
        /\ Phase(CodeOf(d), k) < Phase(CodeOf(c), pc[c]) => k < pc[d]
    <3>1. k \in 1 .. Len(CodeOf(d)) /\ CodeOf(d)[k] # Barrier
      BY <2>3, <2>7 DEF CodeOf
    <3> QED  BY <3>1, <2>3, OthersPhase
  <2>9. ASSUME d # c
        PROVE  Phase(CodeOf(d), k) # Phase(CodeOf(c), pc[c])
    <3>1. Conflict(job, Code[job][d][k], Work(c))
      <4>1. <<"C", e>> \in Stores(Code[job][d][k])
        BY <2>1, <2>3 DEF Stores, Results
      <4>2. <<"C", e>> \in Loads(job, Work(c)) \cup Stores(Work(c))
        BY DEF Loads, Stores, Results, Verify
      <4> QED  BY <4>1, <4>2 DEF Conflict
    <3>2. d \in 0 .. MaxCores - 1 /\ k \in DOMAIN Phases[job][d] /\ pc[c] \in DOMAIN Phases[job][c]
      BY <1>1, <1>2, <2>3, PhasesOf
    <3>3. Phases[job][d][k] # Phases[job][c][pc[c]]
      BY <2>9, <3>1, <3>2, <1>2 DEF PhasesDisjoint, Work, CodeOf
    <3> QED  BY <3>3, <1>3, <2>4
  <2>10. Phase(CodeOf(d), k) \in Nat /\ Phase(CodeOf(c), pc[c]) \in Nat
    <3>1. k \in Nat \ {0} /\ pc[c] \in Nat \ {0}
      BY <1>2, <2>3
    <3> QED  BY <3>1, PhaseNat
  <2> QED  BY <2>5, <2>6, <2>8, <2>9, <2>10
<1> QED  BY <1>4 DEF Stored, Before

(* And what it reads of the copy is there.                                 *)
LEMMA CopiesThere ==
  ASSUME CopiesRight(job), ProgramInv, job.cores = ncores, MemoryInv,
         NEW c \in Cores, where[c] = "out", pc[c] <= Len(CodeOf(c)),
         Work(c).kind = "tile"
  PROVE  Work(c).copied \subseteq copy
<1> USE DEF ProgramInv
<1>1. job \in Jobs /\ job.cores \in 1 .. MaxCores /\ Cores = 0 .. job.cores - 1
  BY DEF PlacesInv, Cores
<1>2. c \in 0 .. MaxCores - 1 /\ pc[c] \in 1 .. Len(Code[job][c])
  BY CodeType DEF PlacesInv, CodeOf
<1>3. Phases[job][c][pc[c]] = Phase(CodeOf(c), pc[c])
  BY <1>1, <1>2, PhasesOf DEF CodeOf
<1>4. Now(c) \in Of(job, "tile") /\ At(job, Now(c)) = Work(c)
  BY <1>1, <1>2 DEF Now, Of, Places, At, Work, CodeOf
<1>5. Work(c).copied \subseteq UNION {At(job, y).copied : y \in Before(job, Of(job, "copy"), Now(c))}
  BY <1>4 DEF CopiesRight
<1>6. ASSUME NEW y \in Of(job, "copy"), Precedes(job, y, Now(c))
      PROVE  At(job, y).copied \subseteq copy
  <2>1. y \in Places(job) /\ At(job, y).kind = "copy"
    BY DEF Of
  <2>2. PICK d, k : y[1] = d /\ y[2] = k
    OBVIOUS
  <2>3. /\ d \in Cores /\ d \in 0 .. MaxCores - 1 /\ k \in 1 .. Len(Code[job][d])
        /\ At(job, y) = Code[job][d][k]
    BY <1>1, <2>1, <2>2, PlaceType DEF At
  <2>4. Phases[job][d][k] = Phase(CodeOf(d), k)
    BY <1>1, <2>3, PhasesOf DEF CodeOf
  <2>5. Phase(CodeOf(d), k) < Phase(CodeOf(c), pc[c]) \/ (d = c /\ k < pc[c])
    <3>1. Now(c)[1] = c /\ Now(c)[2] = pc[c]
      BY DEF Now
    <3> QED  BY <3>1, <1>3, <1>6, <2>2, <2>4 DEF Precedes
  <2>6. k \in 1 .. Len(CodeOf(d)) /\ CodeOf(d)[k] # Barrier
    BY <2>1, <2>3 DEF CodeOf, Barrier
  <2>7. k < pc[d]
    BY <2>3, <2>5, <2>6, OthersPhase
  <2> QED  BY <2>2, <2>7 DEF MemoryInv, Passed
<1> QED  BY <1>5, <1>6 DEF Before

(* Loading: a tile's sums are the ones wanted after its store, and a       *)
(* verification sees the result complete.                                  *)
LEMMA LoadedTile ==
  ASSUME Sound, ResultInv, NEW c \in Cores, where[c] = "out", pc[c] <= Len(CodeOf(c)),
         Work(c).kind = "tile", NEW e \in Work(c).elems \cap Wanted[job].elems
  PROVE  Sums(Work(c))[e] = Terms(job, Stored(e) \cup {Now(c)})
<1> USE DEF ResultInv
<1>1. job \in Jobs /\ job.cores \in 1 .. MaxCores /\ PhasesDisjoint(job) /\ SumsRight(job)
  BY DEF ProgramInv, PlacesInv, Sound
<1>2. c \in 0 .. job.cores - 1 /\ pc[c] \in 1 .. Len(Code[job][c])
  BY CodeType DEF ProgramInv, PlacesInv, CodeOf, Cores
<1>3. Now(c) \in Tiles(job, e) /\ At(job, Now(c)) = Work(c) /\ Now(c) \in Of(job, "tile")
  BY <1>1, <1>2 DEF Now, Tiles, Of, Places, At, Work, CodeOf
<1>4. PICK p : p = Now(c)
  OBVIOUS
<1>5. PICK X : X = Before(job, Tiles(job, e), p)
  OBVIOUS
<1>6. Stored(e) = X
  BY <1>1, <1>4, <1>5, StoredBefore
<1>7. X \in SUBSET Places(job) /\ X \subseteq Tiles(job, e) /\ \A x \in X : Precedes(job, x, p)
  BY <1>5 DEF Before, Tiles, Of
<1>8. Terms(job, X \cup {p}) = (IF Work(c).add THEN Terms(job, X) ELSE {}) \cup Work(c).ks
  BY <1>1, <1>3, <1>4, <1>7, TermsOneMore
<1>9. Sums(Work(c))[e] = Plus(IF Work(c).add THEN C[e] ELSE {}, Work(c).ks)
  <2>1. Work(c).copied \subseteq copy
    BY <1>1, CopiesThere DEF SumsRight
  <2> QED  BY <2>1 DEF Sums, Products
<1>10. C[e] = Terms(job, X)
  BY <1>6 DEF MemoryInv
<1>11. ASSUME Work(c).add
       PROVE  Terms(job, X) \cap Work(c).ks = {}
  <2>1. ASSUME NEW y \in X, At(job, y).ks \cap Work(c).ks # {}
        PROVE  \E z \in X : ~At(job, z).add /\ Precedes(job, y, z)
    <3>1. SumRight(job, e)
      BY <1>1 DEF SumsRight
    <3>2. \E z \in Tiles(job, e) :
            ~At(job, z).add /\ Precedes(job, y, z) /\ Precedes(job, z, p)
      BY <1>3, <1>4, <1>7, <1>11, <2>1, <3>1 DEF SumRight
    <3> QED  BY <3>2, <1>5 DEF Before
  <2> QED  BY <2>1 DEF Terms
<1> QED  BY <1>4, <1>6, <1>8, <1>9, <1>10, <1>11 DEF Plus

LEMMA LoadedVerify ==
  ASSUME Sound, ResultInv, NEW c \in Cores, where[c] = "out", pc[c] <= Len(CodeOf(c)),
         Work(c) = Verify
  PROVE  C = Right
<1> USE DEF ResultInv
<1>1. job \in Jobs /\ job.cores \in 1 .. MaxCores /\ PhasesDisjoint(job) /\ SumsRight(job)
  BY DEF ProgramInv, PlacesInv, Sound
<1>2. c \in 0 .. job.cores - 1 /\ pc[c] \in 1 .. Len(Code[job][c])
  BY CodeType DEF ProgramInv, PlacesInv, CodeOf, Cores
<1>3. Now(c) \in Of(job, "verify")
  BY <1>1, <1>2 DEF Now, Of, Places, At, Work, CodeOf, Verify
<1>4. ASSUME NEW e \in Wanted[job].elems
      PROVE  Terms(job, Stored(e)) = Wanted[job].terms
  <2>1. Stored(e) = Before(job, Tiles(job, e), Now(c))
    BY <1>1, StoredBefore
  <2>2. SumRight(job, e)
    BY <1>1 DEF SumsRight
  <2> QED  BY <2>1, <2>2, <1>3 DEF SumRight
<1> QED  BY <1>4 DEF MemoryInv, Right

-----------------------------------------------------------------------------
LEMMA InitResultInv == Init => ResultInv
<1> SUFFICES ASSUME Init PROVE ResultInv
  OBVIOUS
<1>1. ProgramInv /\ job.cores = ncores
  BY InitProgramInv DEF Init
<1>2. job \in Jobs /\ job.cores \in 1 .. MaxCores /\ Cores = 0 .. job.cores - 1
  BY <1>1 DEF ProgramInv, PlacesInv, Cores
<1>3. ASSUME NEW x \in Places(job)
      PROVE  ~Passed(x)
  <2>1. x[1] \in Cores /\ x[2] \in Nat \ {0}
    BY <1>2, PlaceType
  <2>2. pc[x[1]] = 1
    BY <2>1 DEF Init
  <2> QED  BY <2>1, <2>2 DEF Passed
<1>4. MemoryInv
  <2>1. \A e : Stored(e) = {}
    BY <1>3 DEF Stored, Tiles, Of
  <2>2. Terms(job, {}) = {}
    BY DEF Terms
  <2>3. \A e \in Wanted[job].elems : C[e] = Terms(job, Stored(e))
    BY <2>1, <2>2 DEF Init
  <2> QED  BY <1>3, <2>3 DEF MemoryInv, Init, Of
<1>5. HeldInv /\ VerdictInv
  BY DEF HeldInv, VerdictInv, Init
<1> QED  BY <1>1, <1>4, <1>5 DEF ResultInv

LEMMA StartRight ==
  ASSUME Sound, ResultInv, NEW c \in Cores, Start(c)
  PROVE  MemoryInv' /\ HeldInv' /\ VerdictInv'
<1> USE DEF ResultInv
<1>1. /\ UNCHANGED <<job, ncores, pc, C, copy, verdict>>
      /\ busy' = [busy EXCEPT ![c] = TRUE] /\ held' = [held EXCEPT ![c] = Loaded(Work(c))]
  BY DEF Start, barrierVars
<1>2. /\ Cores' = Cores /\ \A d : Work(d)' = Work(d) /\ Now(d)' = Now(d)
      /\ \A e : Stored(e)' = Stored(e)
  BY <1>1 DEF Cores, Work, CodeOf, Now, Stored, Passed
<1>3. pc[c] <= Len(CodeOf(c)) /\ where[c] = "out"
  <2>1. Len(CodeOf(c)) \in Nat /\ pc[c] \in Nat
    BY CodeType DEF ProgramInv, PlacesInv
  <2> QED  BY <2>1 DEF Start, AtWork, Done, Work, ProgramInv, PlacesInv
<1>4. held'[c] = Loaded(Work(c))
  BY <1>1 DEF HeldInv
<1>5. ASSUME Work(c).kind = "tile"
      PROVE  /\ DOMAIN held'[c] = Work(c).elems
             /\ \A e \in Work(c).elems \cap Wanted[job].elems :
                  held'[c][e] = Terms(job, Stored(e) \cup {Now(c)})
  <2>1. held'[c] = Sums(Work(c))
    BY <1>4, <1>5 DEF Loaded
  <2>2. DOMAIN Sums(Work(c)) = Work(c).elems
    BY DEF Sums
  <2> QED  BY <2>1, <2>2, <1>3, <1>5, LoadedTile
<1>6. ASSUME Work(c) = Verify
      PROVE  held'[c] = Right
  <2>1. held'[c] = C
    BY <1>4, <1>6 DEF Loaded, Verify
  <2> QED  BY <2>1, <1>3, <1>6, LoadedVerify
<1>7. HeldInv'
  <2>1. DOMAIN held' = Cores'
    BY <1>1, <1>2 DEF HeldInv
  <2>2. Right' = Right
    BY <1>1 DEF Right
  <2>3. \A d \in Cores : d # c => held'[d] = held[d] /\ busy'[d] = busy[d]
    BY <1>1 DEF HeldInv, ProgramInv, PlacesInv
  <2>4. ASSUME NEW d \in Cores, busy'[d]
        PROVE  /\ Work(d)'.kind = "tile" =>
                    /\ DOMAIN held'[d] = Work(d)'.elems
                    /\ \A e \in Work(d)'.elems \cap Wanted[job].elems :
                         held'[d][e] = Terms(job, Stored(e) \cup {Now(d)})
               /\ Work(d)' = Verify => held'[d] = Right'
    <3>1. CASE d = c
      BY <3>1, <1>2, <1>5, <1>6, <2>2
    <3>2. CASE d # c
      BY <3>2, <2>4, <1>2, <2>2, <2>3 DEF HeldInv
    <3> QED  BY <3>1, <3>2
  <2> QED  BY <1>1, <1>2, <2>1, <2>4 DEF HeldInv
<1>8. MemoryInv' /\ VerdictInv'
  BY <1>1, <1>2 DEF MemoryInv, VerdictInv, Passed, Cores
<1> QED  BY <1>7, <1>8

(* A core that goes on is past one step more.                              *)
LEMMA PassedNext ==
  ASSUME ResultInv, NEW c \in Cores, pc' = [pc EXCEPT ![c] = @ + 1], NEW x \in Places(job)
  PROVE  x[2] < pc'[x[1]] <=> (Passed(x) \/ x = Now(c))
<1>1. job \in Jobs /\ job.cores \in 1 .. MaxCores /\ Cores = 0 .. job.cores - 1
  BY DEF ResultInv, ProgramInv, PlacesInv, Cores
<1>2. x = <<x[1], x[2]>> /\ x[1] \in Cores /\ x[2] \in Nat
  BY <1>1, PlaceType
<1>3. pc \in [Cores -> Nat \ {0}]
  BY DEF ResultInv, ProgramInv, PlacesInv
<1>4. CASE x[1] = c
  <2>1. pc'[c] = pc[c] + 1 /\ pc[c] \in Nat
    BY <1>3
  <2>2. x = Now(c) <=> x[2] = pc[c]
    BY <1>2, <1>4 DEF Now
  <2> QED  BY <1>2, <1>4, <2>1, <2>2 DEF Passed
<1>5. CASE x[1] # c
  <2>1. pc'[x[1]] = pc[x[1]]
    BY <1>2, <1>3, <1>5
  <2>2. x # Now(c)
    BY <1>5 DEF Now
  <2> QED  BY <2>1, <2>2 DEF Passed
<1> QED  BY <1>4, <1>5

LEMMA FinishRight ==
  ASSUME Sound, ResultInv, NEW c \in Cores, Finish(c)
  PROVE  MemoryInv' /\ HeldInv' /\ VerdictInv'
<1> USE DEF ResultInv
<1>1. /\ UNCHANGED <<job, ncores>> /\ busy[c]
      /\ pc' = [pc EXCEPT ![c] = @ + 1] /\ busy' = [busy EXCEPT ![c] = FALSE]
      /\ held' = [held EXCEPT ![c] = <<>>]
      /\ C' = IF Work(c).kind = "tile"
              THEN [e \in DOMAIN C |-> IF e \in DOMAIN held[c] THEN held[c][e] ELSE C[e]]
              ELSE C
      /\ copy' = IF Work(c).kind = "copy" THEN copy \cup Work(c).copied ELSE copy
  BY DEF Finish, barrierVars
<1>2. job \in Jobs /\ job.cores \in 1 .. MaxCores /\ Cores' = Cores /\ pc \in [Cores -> Nat \ {0}]
  BY <1>1 DEF ProgramInv, PlacesInv, Cores
<1>3. c \in 0 .. job.cores - 1 /\ pc[c] \in 1 .. Len(Code[job][c])
  BY <1>1, CodeType DEF ProgramInv, PlacesInv, CodeOf, Cores
<1>4. Now(c) \in Places(job) /\ At(job, Now(c)) = Work(c)
  BY <1>2, <1>3 DEF Now, Places, At, Work, CodeOf
<1>5. \A x \in Places(job) : x[2] < pc'[x[1]] <=> (Passed(x) \/ x = Now(c))
  BY <1>1, PassedNext
<1>6. ASSUME NEW e
      PROVE  /\ Work(c).kind = "tile" /\ e \in Work(c).elems =>
                  Stored(e)' = Stored(e) \cup {Now(c)}
             /\ ~(Work(c).kind = "tile" /\ e \in Work(c).elems) => Stored(e)' = Stored(e)
  <2>1. Stored(e)' = {x \in Tiles(job, e) : x[2] < pc'[x[1]]}
    BY <1>1 DEF Stored, Passed
  <2>2. Tiles(job, e) \subseteq Places(job)
    BY DEF Tiles, Of
  <2>3. Now(c) \in Tiles(job, e) <=> Work(c).kind = "tile" /\ e \in Work(c).elems
    BY <1>4 DEF Tiles, Of
  <2> QED  BY <1>5, <2>1, <2>2, <2>3 DEF Stored
<1>7. MemoryInv'
  <2>1. ASSUME NEW e \in Wanted[job].elems
        PROVE  C'[e] = Terms(job, Stored(e)')
    <3>1. CASE Work(c).kind = "tile" /\ e \in Work(c).elems
      <4>1. DOMAIN held[c] = Work(c).elems /\ held[c][e] = Terms(job, Stored(e) \cup {Now(c)})
        BY <3>1, <1>1 DEF HeldInv
      <4>2. C'[e] = held[c][e]
        BY <3>1, <4>1, <1>1 DEF MemoryInv
      <4> QED  BY <3>1, <4>1, <4>2, <1>6
    <3>2. CASE ~(Work(c).kind = "tile" /\ e \in Work(c).elems)
      <4>1. C'[e] = C[e]
        BY <3>2, <1>1 DEF MemoryInv, HeldInv
      <4> QED  BY <3>2, <4>1, <1>6 DEF MemoryInv
    <3> QED  BY <3>1, <3>2
  <2>2. C' = [e \in Wanted[job].elems |-> C'[e]]
    BY <1>1 DEF MemoryInv
  <2>3. C' = [e \in Wanted[job].elems |-> Terms(job, Stored(e)')]
    BY <2>1, <2>2
  <2>4. ASSUME NEW x \in Of(job, "copy"), x[2] < pc'[x[1]]
        PROVE  At(job, x).copied \subseteq copy'
    <3>1. Passed(x) \/ x = Now(c)
      BY <1>5, <2>4 DEF Of
    <3>2. CASE Passed(x)
      BY <3>2, <1>1 DEF MemoryInv
    <3>3. CASE x = Now(c)
      BY <3>3, <1>1, <1>4 DEF Of
    <3> QED  BY <3>1, <3>2, <3>3
  <2>5. job' = job
    BY <1>1
  <2> QED  BY <2>3, <2>4, <2>5 DEF MemoryInv, Passed
<1>8. HeldInv'
  <2>1. DOMAIN held' = Cores'
    BY <1>1, <1>2 DEF HeldInv
  <2>2. Right' = Right
    BY <1>1 DEF Right
  <2>3. \A d \in Cores : d # c => /\ held'[d] = held[d] /\ busy'[d] = busy[d]
                                  /\ pc'[d] = pc[d] /\ Work(d)' = Work(d) /\ Now(d)' = Now(d)
    BY <1>1, <1>2 DEF HeldInv, ProgramInv, PlacesInv, Work, CodeOf, Now
  <2>4. ~busy'[c]
    BY <1>1 DEF ProgramInv, PlacesInv
  <2>5. ASSUME NEW d \in Cores, busy'[d]
        PROVE  /\ Work(d)'.kind = "tile" =>
                    /\ DOMAIN held'[d] = Work(d)'.elems
                    /\ \A e \in Work(d)'.elems \cap Wanted[job].elems :
                         held'[d][e] = Terms(job, Stored(e)' \cup {Now(d)'})
               /\ Work(d)' = Verify => held'[d] = Right'
    <3>1. d # c /\ busy[d]
      BY <2>3, <2>4, <2>5
    <3>2. ASSUME Work(d).kind = "tile", NEW e \in Work(d).elems \cap Wanted[job].elems
          PROVE  held[d][e] = Terms(job, Stored(e)' \cup {Now(d)})
      <4>1. ~Conflict(job, Work(c), Work(d))
        BY <1>1, <3>1, DisjointNoRace DEF Sound, NoRace
      <4>2. ~(Work(c).kind = "tile" /\ e \in Work(c).elems)
        <5>1. <<"C", e>> \in Stores(Work(d))
          BY <3>2 DEF Stores, Results
        <5>2. Work(c).kind = "tile" /\ e \in Work(c).elems => <<"C", e>> \in Stores(Work(c))
          BY DEF Stores, Results
        <5> QED  BY <4>1, <5>1, <5>2 DEF Conflict
      <4> QED  BY <3>1, <3>2, <4>2, <1>6 DEF HeldInv
    <3> QED  BY <3>1, <3>2, <2>2, <2>3 DEF HeldInv
  <2>6. job' = job
    BY <1>1
  <2> QED  BY <1>2, <2>1, <2>5, <2>6 DEF HeldInv
<1>9. VerdictInv'
  <2>1. verdict' = [verdict EXCEPT
          ![c] = IF Work(c) # Verify THEN @ ELSE IF held[c] = Right THEN "pass" ELSE "fail"]
    BY DEF Finish
  <2>2. Work(c) = Verify => held[c] = Right
    BY <1>1 DEF HeldInv
  <2> QED  BY <1>2, <2>1, <2>2 DEF VerdictInv
<1> QED  BY <1>7, <1>8, <1>9

(* Barriers leave memory and what is held alone.                           *)
LEMMA PassRight ==
  ASSUME ResultInv, NEW c \in Cores, PassBarrier(c)
  PROVE  MemoryInv' /\ HeldInv' /\ VerdictInv'
<1> USE DEF ResultInv
<1>1. /\ UNCHANGED <<job, ncores, busy, held, C, copy, verdict>> /\ where[c] # "out"
      /\ pc' = [pc EXCEPT ![c] = @ + 1]
  BY DEF PassBarrier, Release, Leave
<1>2. job \in Jobs /\ job.cores \in 1 .. MaxCores /\ Cores' = Cores /\ pc \in [Cores -> Nat \ {0}]
  BY <1>1 DEF ProgramInv, PlacesInv, Cores
<1>3. Work(c) = Barrier /\ ~busy[c] /\ At(job, Now(c)) = Barrier
  BY <1>1 DEF ProgramInv, PlacesInv, At, Now, Work, CodeOf
<1>4. ASSUME NEW x \in Places(job), At(job, x).kind # "barrier"
      PROVE  x[2] < pc'[x[1]] <=> Passed(x)
  <2>1. x # Now(c)
    BY <1>3, <1>4 DEF Barrier
  <2> QED  BY <2>1, <1>1, PassedNext
<1>5. ASSUME NEW e
      PROVE  Stored(e)' = Stored(e)
  <2>1. Stored(e)' = {x \in Tiles(job, e) : x[2] < pc'[x[1]]}
    BY <1>1 DEF Stored, Passed
  <2>2. \A x \in Tiles(job, e) : x[2] < pc'[x[1]] <=> Passed(x)
    BY <1>4 DEF Tiles, Of
  <2> QED  BY <2>1, <2>2 DEF Stored
<1>6. \A x \in Of(job, "copy") : x[2] < pc'[x[1]] <=> Passed(x)
  BY <1>4 DEF Of
<1>7. MemoryInv'
  BY <1>1, <1>5, <1>6 DEF MemoryInv, Passed
<1>8. HeldInv'
  <2>1. \A d \in Cores : d # c => Work(d)' = Work(d) /\ Now(d)' = Now(d)
    BY <1>1, <1>2 DEF Work, CodeOf, Now
  <2>2. Right' = Right
    BY <1>1 DEF Right
  <2>3. ASSUME NEW d \in Cores, busy[d]
        PROVE  /\ Work(d)'.kind = "tile" =>
                    /\ DOMAIN held[d] = Work(d)'.elems
                    /\ \A e \in Work(d)'.elems \cap Wanted[job].elems :
                         held[d][e] = Terms(job, Stored(e)' \cup {Now(d)'})
               /\ Work(d)' = Verify => held[d] = Right'
    <3>1. d # c
      BY <1>3, <2>3
    <3> QED  BY <3>1, <2>1, <2>2, <2>3, <1>5 DEF HeldInv
  <2> QED  BY <1>1, <1>2, <2>3 DEF HeldInv
<1> QED  BY <1>1, <1>2, <1>7, <1>8 DEF VerdictInv

LEMMA RestRight ==
  ASSUME ResultInv, UNCHANGED <<job, ncores, coreVars>>
  PROVE  MemoryInv' /\ HeldInv' /\ VerdictInv'
<1> USE DEF ResultInv
<1>1. UNCHANGED <<job, ncores, pc, busy, held, C, copy, verdict>>
  BY DEF coreVars
<1>2. MemoryInv' /\ VerdictInv'
  BY <1>1 DEF MemoryInv, VerdictInv, Stored, Passed, Cores
<1>3. HeldInv'
  BY <1>1 DEF HeldInv, Stored, Passed, Cores, Work, CodeOf, Now, Right
<1> QED  BY <1>2, <1>3

LEMMA NextResultInv == Sound /\ ResultInv /\ [Next]_vars => ResultInv'
<1> SUFFICES ASSUME Sound, ResultInv, [Next]_vars PROVE ResultInv'
  OBVIOUS
<1>1. ProgramInv'
  BY NextProgramInv DEF ResultInv
<1>2. UNCHANGED <<job, ncores>>
  BY DEF Next, CoreStep, Start, Finish, EnterBarrier, ClearCount, PassBarrier, Halted,
     Arrive, Reset, Release, Leave, vars, barrierVars
<1>3. MemoryInv' /\ HeldInv' /\ VerdictInv'
  <2>1. ASSUME NEW c \in Cores, CoreStep(c)
        PROVE  MemoryInv' /\ HeldInv' /\ VerdictInv'
    <3>1. CASE EnterBarrier(c) \/ ClearCount(c)
      BY <1>2, <3>1, RestRight DEF EnterBarrier, ClearCount
    <3> QED  BY <2>1, <3>1, StartRight, FinishRight, PassRight DEF CoreStep
  <2>2. CASE UNCHANGED vars
    BY <1>2, <2>2, RestRight DEF vars
  <2> QED  BY <2>1, <2>2 DEF Next, Halted
<1> QED  BY <1>1, <1>2, <1>3 DEF ResultInv

(* If the steps of the programs between two barriers never share what one  *)
(* of them stores and their sums are right on paper, every verification    *)
(* passes, in every interleaving of any number of cores (the verify calls  *)
(* of mt-matmul.c, mt-vvadd.c and mt-memcpy.c).                            *)
THEOREM SumsComeOutRight ==
  ASSUME \A j \in Jobs : PhasesDisjoint(j) /\ SumsRight(j)
  PROVE  Spec => []VerifyPasses
<1>1. Sound
  BY DEF Sound
<1>2. ResultInv => VerifyPasses
  BY DEF ResultInv, VerdictInv, VerifyPasses
<1>3. ResultInv /\ [Next]_vars => ResultInv'
  BY <1>1, NextResultInv
<1> QED  BY <1>2, <1>3, InitResultInv, PTL DEF Spec

-----------------------------------------------------------------------------
(* Types, which hold of programs with races too.                           *)
Sum == SUBSET (Wanted[job].terms \cup {Wrong})

ResultTypes ==
  /\ job.cores = ncores
  /\ C \in [Wanted[job].elems -> Sum]
  /\ copy \subseteq Copied
  /\ verdict \in [Cores -> {"none", "pass", "fail"}]
  /\ DOMAIN held = Cores
  /\ \A c \in Cores : busy[c] /\ Work(c).kind = "tile" =>
       \A e \in DOMAIN held[c] \cap Wanted[job].elems : held[c][e] \in Sum

TypesInv == ProgramInv /\ ResultTypes

LEMMA InitTypesInv == Init => TypesInv
<1> SUFFICES ASSUME Init PROVE TypesInv
  OBVIOUS
<1>1. ProgramInv
  BY InitProgramInv
<1>2. ResultTypes
  BY DEF Init, ResultTypes, Sum
<1> QED  BY <1>1, <1>2 DEF TypesInv

LEMMA WorkTypes ==
  ASSUME TypesInv, NEW c \in Cores, pc[c] <= Len(CodeOf(c))
  PROVE  /\ Work(c) \in Step /\ Now(c) \in Places(job) /\ At(job, Now(c)) = Work(c)
<1>1. job \in Jobs /\ job.cores \in 1 .. MaxCores /\ c \in 0 .. job.cores - 1
  BY DEF TypesInv, ResultTypes, ProgramInv, PlacesInv, Cores
<1>2. pc[c] \in 1 .. Len(Code[job][c])
  BY <1>1, CodeType DEF TypesInv, ProgramInv, PlacesInv, CodeOf, Cores
<1>3. Now(c) \in Places(job) /\ At(job, Now(c)) = Work(c)
  BY <1>1, <1>2 DEF Now, Places, At, Work, CodeOf
<1> QED  BY <1>1, <1>3, PlaceType

LEMMA StartTypes ==
  ASSUME \A j \in Jobs : TermsWanted(j), TypesInv, NEW c \in Cores, Start(c)
  PROVE  ResultTypes'
<1> USE DEF TypesInv
<1>1. /\ UNCHANGED <<job, ncores, pc, C, copy, verdict>>
      /\ busy' = [busy EXCEPT ![c] = TRUE] /\ held' = [held EXCEPT ![c] = Loaded(Work(c))]
  BY DEF Start, barrierVars
<1>2. Cores' = Cores /\ Sum' = Sum /\ \A d : Work(d)' = Work(d)
  BY <1>1 DEF Cores, Work, CodeOf, Sum
<1>3. pc[c] <= Len(CodeOf(c))
  <2>1. Len(CodeOf(c)) \in Nat /\ pc[c] \in Nat
    BY CodeType DEF ProgramInv, PlacesInv
  <2> QED  BY <2>1 DEF Start, AtWork, Done
<1>4. ASSUME Work(c).kind = "tile", NEW e \in DOMAIN held'[c] \cap Wanted[job].elems
      PROVE  held'[c][e] \in Sum
  <2>1. Work(c).ks \subseteq Wanted[job].terms
    <3>1. Now(c) \in Of(job, "tile") /\ At(job, Now(c)) = Work(c)
      BY <1>3, <1>4, WorkTypes DEF Of
    <3> QED  BY <3>1 DEF TermsWanted, ProgramInv, PlacesInv
  <2>2. held'[c] = Sums(Work(c))
    BY <1>1, <1>4 DEF ResultTypes, Loaded
  <2>3. C[e] \in Sum
    BY DEF ResultTypes
  <2>4. Products(Work(c)) \subseteq Wanted[job].terms \cup {Wrong}
    BY <2>1 DEF Products
  <2>5. held'[c][e] = Plus(IF Work(c).add THEN C[e] ELSE {}, Products(Work(c)))
    BY <1>4, <2>2 DEF Sums
  <2> QED  BY <2>3, <2>4, <2>5 DEF Plus, Sum
<1>5. ASSUME NEW d \in Cores, busy'[d], Work(d).kind = "tile",
             NEW e \in DOMAIN held'[d] \cap Wanted[job].elems
      PROVE  held'[d][e] \in Sum
  <2>1. CASE d = c
    BY <2>1, <1>4, <1>5
  <2>2. CASE d # c
    <3>1. busy[d] /\ held'[d] = held[d]
      BY <1>1, <1>5, <2>2 DEF ProgramInv, PlacesInv, ResultTypes
    <3> QED  BY <3>1, <1>5 DEF ResultTypes
  <2> QED  BY <2>1, <2>2
<1> QED  BY <1>1, <1>2, <1>5 DEF ResultTypes

LEMMA FinishTypes ==
  ASSUME TypesInv, NEW c \in Cores, Finish(c)
  PROVE  ResultTypes'
<1> USE DEF TypesInv
<1>1. /\ UNCHANGED <<job, ncores>> /\ busy[c]
      /\ pc' = [pc EXCEPT ![c] = @ + 1] /\ busy' = [busy EXCEPT ![c] = FALSE]
      /\ held' = [held EXCEPT ![c] = <<>>]
      /\ C' = IF Work(c).kind = "tile"
              THEN [e \in DOMAIN C |-> IF e \in DOMAIN held[c] THEN held[c][e] ELSE C[e]]
              ELSE C
      /\ copy' = IF Work(c).kind = "copy" THEN copy \cup Work(c).copied ELSE copy
      /\ verdict' = [verdict EXCEPT
           ![c] = IF Work(c) # Verify THEN @ ELSE IF held[c] = Right THEN "pass" ELSE "fail"]
  BY DEF Finish, barrierVars
<1>2. Cores' = Cores /\ Sum' = Sum
  BY <1>1 DEF Cores, Sum
<1>3. C' \in [Wanted[job].elems -> Sum]
  BY <1>1 DEF ResultTypes
<1>4. copy' \subseteq Copied
  <2>1. Work(c) \in Step
    BY <1>1, WorkTypes DEF ProgramInv, PlacesInv
  <2>2. Work(c).kind = "copy" => Work(c).copied \subseteq Copied
    BY <2>1 DEF Step, Barrier, Verify
  <2> QED  BY <1>1, <2>2 DEF ResultTypes
<1>5. verdict' \in [Cores -> {"none", "pass", "fail"}]
  BY <1>1 DEF ResultTypes
<1>6. ASSUME NEW d \in Cores, busy'[d]
      PROVE  busy[d] /\ held'[d] = held[d] /\ Work(d)' = Work(d)
  <2>1. d # c
    BY <1>1, <1>6 DEF ProgramInv, PlacesInv
  <2> QED  BY <2>1, <1>1, <1>6 DEF ProgramInv, PlacesInv, ResultTypes, Work, CodeOf
<1>7. ASSUME NEW d \in Cores, busy'[d], Work(d)'.kind = "tile",
             NEW e \in DOMAIN held'[d] \cap Wanted[job].elems
      PROVE  held'[d][e] \in Sum
  BY <1>6, <1>7 DEF ResultTypes
<1>8. DOMAIN held' = Cores
  BY <1>1 DEF ResultTypes
<1> QED  BY <1>1, <1>2, <1>3, <1>4, <1>5, <1>7, <1>8 DEF ResultTypes

LEMMA PassTypes ==
  ASSUME TypesInv, NEW c \in Cores, PassBarrier(c)
  PROVE  ResultTypes'
<1> USE DEF TypesInv
<1>1. /\ UNCHANGED <<job, ncores, busy, held, C, copy, verdict>> /\ where[c] # "out"
      /\ pc' = [pc EXCEPT ![c] = @ + 1]
  BY DEF PassBarrier, Release, Leave
<1>2. Cores' = Cores /\ Sum' = Sum
  BY <1>1 DEF Cores, Sum
<1>3. ASSUME NEW d \in Cores, busy[d]
      PROVE  Work(d)' = Work(d)
  <2>1. d # c
    BY <1>1, <1>3 DEF ProgramInv, PlacesInv
  <2> QED  BY <2>1, <1>1 DEF ProgramInv, PlacesInv, Work, CodeOf
<1>4. ASSUME NEW d \in Cores, busy[d], Work(d)'.kind = "tile",
             NEW e \in DOMAIN held[d] \cap Wanted[job].elems
      PROVE  held[d][e] \in Sum
  BY <1>3, <1>4 DEF ResultTypes
<1> QED  BY <1>1, <1>2, <1>4 DEF ResultTypes

LEMMA RestTypes ==
  ASSUME TypesInv, UNCHANGED <<job, ncores, coreVars>>
  PROVE  ResultTypes'
<1>1. UNCHANGED <<job, ncores, pc, busy, held, C, copy, verdict>>
  BY DEF coreVars
<1> QED  BY <1>1 DEF TypesInv, ResultTypes, Cores, Work, CodeOf, Sum

LEMMA NextTypesInv ==
  ASSUME \A j \in Jobs : TermsWanted(j)
  PROVE  TypesInv /\ [Next]_vars => TypesInv'
<1> SUFFICES ASSUME TypesInv, [Next]_vars PROVE TypesInv'
  OBVIOUS
<1>1. ProgramInv'
  BY NextProgramInv DEF TypesInv
<1>2. UNCHANGED <<job, ncores>>
  BY DEF Next, CoreStep, Start, Finish, EnterBarrier, ClearCount, PassBarrier, Halted,
     Arrive, Reset, Release, Leave, vars, barrierVars
<1>3. ASSUME NEW c \in Cores, CoreStep(c)
      PROVE  ResultTypes'
  <2>1. CASE EnterBarrier(c) \/ ClearCount(c)
    <3>1. UNCHANGED <<job, ncores, coreVars>>
      BY <1>2, <2>1 DEF EnterBarrier, ClearCount
    <3> QED  BY <3>1, RestTypes
  <2>2. CASE Start(c)
    BY <2>2, StartTypes
  <2> QED  BY <1>3, <2>1, <2>2, FinishTypes, PassTypes DEF CoreStep
<1>4. ASSUME UNCHANGED vars
      PROVE  ResultTypes'
  <2>1. UNCHANGED <<job, ncores, coreVars>>
    BY <1>2, <1>4 DEF vars
  <2> QED  BY <2>1, RestTypes
<1>5. ResultTypes'
  BY <1>3, <1>4 DEF Next, Halted
<1> QED  BY <1>1, <1>5 DEF TypesInv

(* Whatever the programs do, race or not, the barrier's variables and the  *)
(* shared result keep their types, if no tile adds a term nobody wants.    *)
THEOREM ProgramTypes ==
  ASSUME \A j \in Jobs : TermsWanted(j)
  PROVE  Spec => []TypeOK
<1>1. TypesInv => TypeOK
  <2> SUFFICES ASSUME TypesInv PROVE TypeOK
    OBVIOUS
  <2>1. count \in 0 .. ncores
    BY IInvCount DEF TypesInv, ProgramInv
  <2>2. BarrierTypeOK
    BY <2>1 DEF BarrierTypeOK, TypesInv, ProgramInv, PlacesInv, IInv, TypeInv
  <2> QED  BY <2>2 DEF TypeOK, TypesInv, ResultTypes, ProgramInv, PlacesInv, Sum
<1>2. TypesInv /\ [Next]_vars => TypesInv'
  BY NextTypesInv
<1> QED  BY <1>1, <1>2, InitTypesInv, PTL DEF Spec
=============================================================================
