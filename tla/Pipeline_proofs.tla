--------------------------- MODULE Pipeline_proofs --------------------------
(***************************************************************************)
(* Proofs about the pipeline, for every program, size of the machine and   *)
(* sequence of predictions and of answers of the data side.                *)
(*                                                                         *)
(* Types hold whatever the data side does.  That the pipeline runs the     *)
(* program is proved for a careful data side, one that never makes MEM     *)
(* wait in a cycle with a load-use hazard or a misprediction; without it   *)
(* the pipeline loses instructions, as the run stall_flush shows.          *)
(***************************************************************************)
EXTENDS Pipeline, TLAPS

-----------------------------------------------------------------------------
(* The meaning of an instruction stays within the machine.                 *)
LEMMA RemainderInRange ==
  ASSUME NEW x \in Nat, NEW n \in Nat \ {0}
  PROVE  x % n \in 0 .. n - 1
OBVIOUS

LEMMA ProgramsHoldInstructions ==
  ASSUME TypeOK
  PROVE  /\ code \in [ISA!Addr -> ISA!Instr]
         /\ \A a \in ISA!Addr : ISA!Following(a) \in ISA!Addr
         /\ 0 \in ISA!Addr
BY PipelineAssumption, RemainderInRange DEF TypeOK, ISA!Addr, ISA!Following

LEMMA FieldsOfInstructions ==
  ASSUME NEW i \in ISA!Instr
  PROVE  /\ i.op \in {"alu", "load", "store", "branch", "jump"}
         /\ i.rd \in ISA!Reg /\ i.rs1 \in ISA!Reg /\ i.rs2 \in ISA!Reg
         /\ i.imm \in ISA!Value /\ i.target \in ISA!Addr
BY DEF ISA!Instr

LEMMA MeaningInRange ==
  ASSUME NEW i \in ISA!Instr, NEW p \in ISA!Addr, NEW a \in ISA!Value, NEW b \in ISA!Value
  PROVE  /\ ISA!Alu(i, a, b) \in ISA!Value
         /\ ISA!Link(p) \in ISA!Value
         /\ ISA!Successor(i, p, a, b) \in ISA!Addr
<1>1. /\ i.imm \in Nat /\ a \in Nat /\ b \in Nat /\ i.target \in ISA!Addr
      /\ p \in Nat /\ Values \in Nat \ {0} /\ Size \in Nat \ {0}
  BY PipelineAssumption, FieldsOfInstructions DEF ISA!Value, ISA!Addr
<1>2. /\ (a + i.imm) % Values \in 0 .. Values - 1
      /\ (a + b + i.imm) % Values \in 0 .. Values - 1
      /\ (p + 1) % Values \in 0 .. Values - 1
      /\ (p + 1) % Size \in 0 .. Size - 1
  <2>1. a + i.imm \in Nat /\ a + b + i.imm \in Nat /\ p + 1 \in Nat
    BY <1>1
  <2>2. QED
    BY <1>1, <2>1, RemainderInRange
<1>3. QED
  BY <1>1, <1>2 DEF ISA!Alu, ISA!Link, ISA!Successor, ISA!Following, ISA!Value, ISA!Addr

-----------------------------------------------------------------------------
(* What the registers of the pipeline hold, and what EX and WB make of it. *)
LEMMA HeldInstructions ==
  ASSUME TypeOK
  PROVE  /\ Holds(id) => id.pc \in ISA!Addr /\ id.next \in ISA!Addr /\ In(id) \in ISA!Instr
         /\ Holds(ex) => /\ ex.pc \in ISA!Addr /\ ex.next \in ISA!Addr /\ In(ex) \in ISA!Instr
                         /\ ex.a \in ISA!Value /\ ex.b \in ISA!Value
         /\ Holds(mm) => /\ mm.pc \in ISA!Addr /\ In(mm) \in ISA!Instr
                         /\ mm.alu \in ISA!Value /\ mm.b \in ISA!Value
         /\ Holds(wb) => /\ wb.pc \in ISA!Addr /\ In(wb) \in ISA!Instr
                         /\ wb.value \in ISA!Value
<1>1. \A a \in ISA!Addr : code[a] \in ISA!Instr
  BY ProgramsHoldInstructions
<1>2. QED
  BY <1>1 DEF TypeOK, Holds, In

LEMMA OperandsInRange ==
  ASSUME TypeOK
  PROVE  /\ \A r \in ISA!Reg : Read(r) \in ISA!Value
         /\ Holds(ex) => SrcA \in ISA!Value /\ SrcB \in ISA!Value
         /\ Holds(mm) => WbValue \in ISA!Value
<1>1. \A r \in ISA!Reg : regs[r] \in ISA!Value
  BY DEF TypeOK
<1>2. \A v \in ISA!Value : mem[v] \in ISA!Value
  BY DEF TypeOK
<1>3. Holds(mm) => ISA!Link(mm.pc) \in ISA!Value
  <2>1. SUFFICES ASSUME Holds(mm) PROVE ISA!Link(mm.pc) \in ISA!Value
    OBVIOUS
  <2>2. mm.pc \in ISA!Addr /\ In(mm) \in ISA!Instr /\ mm.alu \in ISA!Value
    BY <2>1, HeldInstructions
  <2>3. QED
    BY <2>2, MeaningInRange
<1>4. \A r \in ISA!Reg : Read(r) \in ISA!Value
  BY <1>1, HeldInstructions DEF Read, Writes
<1>5. Holds(mm) => MemForward \in ISA!Value /\ WbValue \in ISA!Value
  BY <1>2, <1>3, HeldInstructions DEF MemForward, WbValue
<1>6. Holds(ex) => SrcA \in ISA!Value /\ SrcB \in ISA!Value
  BY <1>5, HeldInstructions DEF SrcA, SrcB, Forward, Writes
<1>7. QED
  BY <1>4, <1>5, <1>6

LEMMA TypesInitially == Init => TypeOK
<1> SUFFICES ASSUME Init PROVE TypeOK
  OBVIOUS
<1>1. 0 \in ISA!Addr /\ 0 \in ISA!Value /\ 0 \in ISA!Reg
  BY PipelineAssumption DEF ISA!Addr, ISA!Value, ISA!Reg
<1>2. regs \in [ISA!Reg -> ISA!Value] /\ regs[0] = 0
  BY <1>1 DEF Init, ISA!Init
<1>3. mem \in [ISA!Value -> ISA!Value]
  BY DEF Init, ISA!Init
<1>4. next = 0 /\ code \in Programs /\ id = Nop /\ ex = Nop /\ mm = Nop /\ wb = Nop /\ ~Redirecting
  BY DEF Init, FE!Init, ISA!Init, Nop, Redirecting
<1>5. QED
  BY <1>1, <1>2, <1>3, <1>4 DEF TypeOK

LEMMA TypesKept ==
  ASSUME TypeOK, NEW valid \in BOOLEAN, Cycle(valid)
  PROVE  TypeOK'
<1> DEFINE wait == Waits(valid)
<1>1. /\ FetchClock(wait \/ LoadUse) /\ ExClock(wait) /\ MemClock(wait) /\ WbClock(wait)
      /\ RegsClock /\ StoreClock(wait) /\ RedirectClock /\ code' = code
  BY DEF Cycle
<1> HIDE DEF wait
<1>2. code' \in Programs
  BY <1>1 DEF TypeOK
<1>3. /\ next' \in ISA!Addr
      /\ id' = Nop \/ (id'.pc \in ISA!Addr /\ id'.instr = id'.pc /\ id'.next \in ISA!Addr)
  <2>1. next \in ISA!Addr /\ ISA!Following(next) \in ISA!Addr /\ code[next].target \in ISA!Addr
    BY ProgramsHoldInstructions, FieldsOfInstructions DEF TypeOK
  <2>2. CASE Redirecting /\ FE!Restart(redirect.to)
    BY <2>2 DEF FE!Restart, TypeOK, Nop
  <2>3. CASE FE!Wait
    BY <2>3 DEF FE!Wait, TypeOK
  <2>4. CASE FE!Bubble
    BY <2>4 DEF FE!Bubble, TypeOK, Nop
  <2>5. ASSUME NEW succ \in ISA!Addr, FE!Deliver(succ)
        PROVE  /\ next' \in ISA!Addr
               /\ id'.pc \in ISA!Addr /\ id'.instr = id'.pc /\ id'.next \in ISA!Addr
    BY <2>1, <2>5 DEF FE!Deliver
  <2>6. QED
    BY <1>1, <2>1, <2>2, <2>3, <2>4, <2>5 DEF FetchClock
<1>4. ex' = Nop \/ ex' \in [kind : {"instr"}, pc : ISA!Addr, next : ISA!Addr,
                            a : ISA!Value, b : ISA!Value]
  <2>1. CASE ex' = Nop \/ ex' = ex
    BY <2>1 DEF TypeOK
  <2>2. CASE Holds(id) /\ ex' = [kind |-> "instr", pc |-> id.pc, next |-> id.next,
                                 a |-> Read(In(id).rs1), b |-> Read(In(id).rs2)]
    <3>1. In(id).rs1 \in ISA!Reg /\ In(id).rs2 \in ISA!Reg
      BY <2>2, HeldInstructions, FieldsOfInstructions
    <3>2. Read(In(id).rs1) \in ISA!Value /\ Read(In(id).rs2) \in ISA!Value
      BY <3>1, OperandsInRange
    <3>3. QED
      BY <2>2, <3>2, HeldInstructions
  <2>3. QED
    BY <1>1, <2>1, <2>2 DEF ExClock
<1>5. mm' = Nop \/ mm' \in [kind : {"instr"}, pc : ISA!Addr, alu : ISA!Value, b : ISA!Value]
  <2>1. CASE mm' = Nop \/ mm' = mm
    BY <2>1 DEF TypeOK
  <2>2. CASE Holds(ex) /\ mm' = [kind |-> "instr", pc |-> ex.pc,
                                 alu |-> ISA!Alu(In(ex), SrcA, SrcB), b |-> SrcB]
    <3>1. SrcA \in ISA!Value /\ SrcB \in ISA!Value /\ In(ex) \in ISA!Instr /\ ex.pc \in ISA!Addr
      BY <2>2, OperandsInRange, HeldInstructions
    <3>2. ISA!Alu(In(ex), SrcA, SrcB) \in ISA!Value
      BY <3>1, MeaningInRange
    <3>3. QED
      BY <2>2, <3>1, <3>2
  <2>3. QED
    BY <1>1, <2>1, <2>2 DEF MemClock
<1>6. wb' = Nop \/ wb' \in [kind : {"instr"}, pc : ISA!Addr, value : ISA!Value]
  <2>1. CASE wb' = Nop \/ wb' = wb
    BY <2>1 DEF TypeOK
  <2>2. CASE Holds(mm) /\ wb' = [kind |-> "instr", pc |-> mm.pc, value |-> WbValue]
    BY <2>2, OperandsInRange, HeldInstructions
  <2>3. QED
    BY <1>1, <2>1, <2>2 DEF WbClock
<1>7. regs' \in [ISA!Reg -> ISA!Value] /\ regs'[0] = 0
  <2>1. CASE regs' = regs
    BY <2>1 DEF TypeOK
  <2>2. CASE /\ Holds(wb) /\ ISA!WritesReg(In(wb))
             /\ regs' = [regs EXCEPT ![In(wb).rd] = wb.value]
    <3>1. wb.value \in ISA!Value /\ In(wb).rd \in ISA!Reg /\ In(wb).rd # 0
      BY <2>2, HeldInstructions, FieldsOfInstructions DEF ISA!WritesReg
    <3>2. QED
      BY <2>2, <3>1 DEF TypeOK
  <2>3. QED
    BY <1>1, <2>1, <2>2 DEF RegsClock
<1>8. mem' \in [ISA!Value -> ISA!Value]
  BY <1>1, HeldInstructions DEF StoreClock, TypeOK
<1>9. Redirecting' => redirect'.to \in ISA!Addr
  <2>1. SUFFICES ASSUME Mispredict, redirect' = [kind |-> "redirect", to |-> CorrectPc]
                 PROVE  redirect'.to \in ISA!Addr
    BY <1>1 DEF RedirectClock, Redirecting, NoRedirect
  <2>2. SrcA \in ISA!Value /\ SrcB \in ISA!Value /\ In(ex) \in ISA!Instr /\ ex.pc \in ISA!Addr
    BY <2>1, OperandsInRange, HeldInstructions DEF Mispredict
  <2>3. QED
    BY <2>1, <2>2, MeaningInRange DEF CorrectPc
<1>10. QED
  BY <1>2, <1>3, <1>4, <1>5, <1>6, <1>7, <1>8, <1>9 DEF TypeOK, Nop, FE!Nop

(* Whatever the data side and the predictor do, the registers of the       *)
(* pipeline hold instructions of the program with operands of the machine, *)
(* and register 0 stays 0.                                                 *)
THEOREM TypeAlways == Spec => []TypeOK
<1>1. TypeOK /\ [Next]_vars => TypeOK'
  <2>1. ASSUME TypeOK, Next PROVE TypeOK'
    BY <2>1, TypesKept DEF Next
  <2>2. ASSUME TypeOK, UNCHANGED vars PROVE TypeOK'
    BY <2>2 DEF vars, stages, TypeOK, Redirecting, Nop, FE!Nop
  <2>3. QED
    BY <2>1, <2>2
<1>2. QED
  BY <1>1, TypesInitially, PTL DEF Spec

-----------------------------------------------------------------------------
(* The invariant behind the refinement.  The instructions in flight lie on *)
(* one path: each is what the one before it led to, up to the next one to  *)
(* be delivered.  The one in MEM is always an instruction of the program   *)
(* as the machine runs it, so its true successor is known; it is the one   *)
(* behind it, or what the redirect under way leads to.                     *)
BehindEx  == IF Holds(id) THEN id.pc ELSE next
BehindMem == IF Holds(ex) THEN ex.pc ELSE BehindEx

(* Where the instruction in MEM leads, and what it computes.               *)
Due == ISA!Successor(In(mm), mm.pc, Read(In(mm).rs1), Read(In(mm).rs2))

OnePath ==
  /\ Holds(id) => id.next = next
  /\ Holds(ex) => ex.next = BehindEx
  /\ Redirecting => Holds(mm)
  /\ Holds(mm) => Due = IF Redirecting THEN redirect.to ELSE BehindMem

Computed ==
  Holds(mm) => /\ mm.alu = ISA!Alu(In(mm), Read(In(mm).rs1), Read(In(mm).rs2))
               /\ mm.b = Read(In(mm).rs2)

(* What EX read in ID still holds unless an older instruction in flight    *)
(* writes it; and that is no load in MEM, whose word is not there yet.     *)
Current(r, read) ==
  /\ ~Writes(mm, r) /\ ~Writes(wb, r) => read = regs[r]
  /\ Writes(mm, r) => In(mm).op # "load"

Operands == Holds(ex) => Current(In(ex).rs1, ex.a) /\ Current(In(ex).rs2, ex.b)

PathInv == OnePath /\ Computed /\ Operands

-----------------------------------------------------------------------------
(* The registers as an instruction behind MEM should see them.             *)
AfterMem(r) == IF Writes(mm, r) THEN WbValue ELSE Read(r)

(* Forwarding delivers them, when no load is in the way.                   *)
LEMMA ForwardSees ==
  ASSUME TypeOK, NEW r \in ISA!Reg, NEW read, Current(r, read)
  PROVE  Forward(r, read) = AfterMem(r)
<1>1. CASE Writes(mm, r)
  <2>1. In(mm).op # "load"
    BY <1>1 DEF Current
  <2>2. MemForward = WbValue
    BY <2>1 DEF MemForward, WbValue
  <2>3. QED
    BY <1>1, <2>2 DEF Forward, AfterMem
<1>2. CASE ~Writes(mm, r)
  BY <1>2 DEF Current, Forward, AfterMem, Read
<1>3. QED
  BY <1>1, <1>2

LEMMA SourcesSee ==
  ASSUME TypeOK, PathInv, Holds(ex)
  PROVE  SrcA = AfterMem(In(ex).rs1) /\ SrcB = AfterMem(In(ex).rs2)
<1>1. In(ex).rs1 \in ISA!Reg /\ In(ex).rs2 \in ISA!Reg
  BY HeldInstructions, FieldsOfInstructions
<1>2. Current(In(ex).rs1, ex.a) /\ Current(In(ex).rs2, ex.b)
  BY DEF PathInv, Operands
<1>3. QED
  BY <1>1, <1>2, ForwardSees DEF SrcA, SrcB

(* Every cycle brings the register file up to what ID reads.               *)
LEMMA RegsCatchUp ==
  ASSUME TypeOK, RegsClock
  PROVE  \A r \in ISA!Reg : regs'[r] = Read(r)
<1>1. CASE Holds(wb) /\ ISA!WritesReg(In(wb))
  BY <1>1 DEF RegsClock, TypeOK, Read, Writes
<1>2. CASE ~(Holds(wb) /\ ISA!WritesReg(In(wb)))
  BY <1>2 DEF RegsClock, Read, Writes
<1>3. QED
  BY <1>1, <1>2

(* A wait leaves what ID reads; otherwise the instruction in MEM, if any,  *)
(* takes effect.                                                           *)
LEMMA ReadStep ==
  ASSUME TypeOK, NEW wait \in BOOLEAN, RegsClock, WbClock(wait), code' = code
  PROVE  \A r \in ISA!Reg : Read(r)' = IF wait THEN Read(r) ELSE AfterMem(r)
<1> SUFFICES ASSUME NEW r \in ISA!Reg
             PROVE  Read(r)' = IF wait THEN Read(r) ELSE AfterMem(r)
  OBVIOUS
<1>1. regs'[r] = Read(r)
  BY RegsCatchUp
<1>2. CASE wait
  BY <1>1, <1>2 DEF WbClock, Read, Writes, Holds, In
<1>3. CASE ~wait /\ Holds(mm)
  <2>1. wb' = [kind |-> "instr", pc |-> mm.pc, value |-> WbValue]
    BY <1>3 DEF WbClock
  <2>2. Writes(wb, r)' <=> Writes(mm, r)
    BY <1>3, <2>1 DEF Writes, Holds, In, Nop, FE!Nop
  <2>3. QED
    BY <1>1, <1>3, <2>1, <2>2 DEF Read, AfterMem
<1>4. CASE ~wait /\ ~Holds(mm)
  <2>1. ~Writes(wb, r)' /\ ~Writes(mm, r)
    BY <1>4 DEF WbClock, Writes, Holds
  <2>2. QED
    BY <1>1, <1>4, <2>1 DEF Read, AfterMem
<1>5. QED
  BY <1>2, <1>3, <1>4

-----------------------------------------------------------------------------
(* What a careful cycle does, waiting or not.                              *)
CycleParts(wait) ==
  /\ FetchClock(wait \/ LoadUse) /\ ExClock(wait) /\ MemClock(wait) /\ WbClock(wait)
  /\ RegsClock /\ StoreClock(wait) /\ RedirectClock /\ code' = code

LEMMA CycleDoes ==
  ASSUME NEW valid \in BOOLEAN, Cycle(valid)
  PROVE  \E wait \in BOOLEAN :
           /\ CycleParts(wait)
           /\ wait => Holds(mm)
           /\ Careful /\ wait => ~LoadUse /\ ~Mispredict /\ ~Redirecting
<1>1. Waits(valid) \in BOOLEAN
  BY DEF Waits, Holds
<1>2. Waits(valid) => Holds(mm)
  BY DEF Waits
<1>3. CycleParts(Waits(valid))
  BY DEF Cycle, CycleParts
<1>4. Careful /\ Waits(valid) => ~LoadUse /\ ~Mispredict /\ ~Redirecting
  BY DEF Cycle
<1>5. QED
  BY <1>1, <1>2, <1>3, <1>4

LEMMA WaitingCycle ==
  ASSUME CycleParts(TRUE), ~LoadUse, ~Mispredict, ~Redirecting
  PROVE  UNCHANGED <<code, next, id, ex, mm, wb, mem>> /\ ~Redirecting'
<1>1. UNCHANGED <<next, id>>
  BY DEF CycleParts, FetchClock, FE!Wait
<1>2. UNCHANGED <<code, ex, mm, wb, mem>>
  BY DEF CycleParts, ExClock, MemClock, WbClock, StoreClock
<1>3. QED
  BY <1>1, <1>2 DEF CycleParts, RedirectClock, Redirecting

LEMMA WaitKeepsPath ==
  ASSUME TypeOK, PathInv, CycleParts(TRUE), ~LoadUse, ~Mispredict, ~Redirecting
  PROVE  PathInv'
<1>1. UNCHANGED <<code, next, id, ex, mm, wb, mem>> /\ ~Redirecting'
  BY WaitingCycle
<1>2. \A r \in ISA!Reg : Read(r)' = Read(r)
  BY ReadStep DEF CycleParts
<1>3. \A r \in ISA!Reg : regs'[r] = Read(r)
  BY RegsCatchUp DEF CycleParts
<1>4. PICK i : i = In(mm)
  OBVIOUS
<1>5. i = In(mm)'
  BY <1>1, <1>4 DEF In
<1>6. Holds(mm)' <=> Holds(mm)
  BY <1>1 DEF Holds
<1>7. Holds(mm) => Read(i.rs1)' = Read(i.rs1) /\ Read(i.rs2)' = Read(i.rs2)
  BY <1>2, <1>4, HeldInstructions, FieldsOfInstructions
<1>8. Holds(mm) => Due' = Due
  BY <1>1, <1>4, <1>5, <1>7 DEF Due
<1>9. OnePath'
  BY <1>1, <1>6, <1>8 DEF PathInv, OnePath, BehindEx, BehindMem, Holds
<1>10. Computed'
  BY <1>1, <1>4, <1>5, <1>6, <1>7 DEF PathInv, Computed
<1>11. ASSUME NEW r \in ISA!Reg, NEW read, Current(r, read) PROVE Current(r, read)'
  <2>1. /\ Writes(mm, r)' <=> Writes(mm, r)
        /\ Writes(wb, r)' <=> Writes(wb, r)
        /\ In(mm)' = In(mm)
    BY <1>1 DEF Writes, Holds, In
  <2>2. ~Writes(wb, r) => regs'[r] = regs[r]
    BY <1>3 DEF Read
  <2>3. QED
    BY <1>11, <2>1, <2>2 DEF Current
<1>12. PICK j : j = In(ex)
  OBVIOUS
<1>13. PICK a, b : a = ex.a /\ b = ex.b
  OBVIOUS
<1>14. Holds(ex) => Current(j.rs1, a)' /\ Current(j.rs2, b)'
  BY <1>11, <1>12, <1>13, HeldInstructions, FieldsOfInstructions DEF PathInv, Operands
<1>15. Operands'
  <2>1. SUFFICES ASSUME Holds(ex)' PROVE (Current(In(ex).rs1, ex.a) /\ Current(In(ex).rs2, ex.b))'
    BY DEF Operands
  <2>2. Holds(ex) /\ j = In(ex)' /\ a = ex'.a /\ b = ex'.b
    BY <1>1, <1>12, <1>13, <2>1 DEF Holds, In
  <2>3. QED
    BY <1>14, <2>2
<1>16. QED
  BY <1>9, <1>10, <1>15 DEF PathInv

(* A moving cycle: what enters MEM and WB.                                 *)
LEMMA MemEntered ==
  ASSUME TypeOK, PathInv, CycleParts(FALSE), ~Redirecting, Holds(ex)
  PROVE  /\ mm' = [kind |-> "instr", pc |-> ex.pc, alu |-> ISA!Alu(In(ex), SrcA, SrcB), b |-> SrcB]
         /\ Holds(mm)' /\ In(mm)' = In(ex)
         /\ Read(In(mm).rs1)' = SrcA /\ Read(In(mm).rs2)' = SrcB
<1>1. /\ mm' = [kind |-> "instr", pc |-> ex.pc, alu |-> ISA!Alu(In(ex), SrcA, SrcB), b |-> SrcB]
      /\ code' = code
  BY DEF CycleParts, MemClock
<1>2. Holds(mm)' /\ In(mm)' = In(ex)
  BY <1>1 DEF Holds, In, Nop, FE!Nop
<1>3. PICK i : i = In(ex)
  OBVIOUS
<1>4. i.rs1 \in ISA!Reg /\ i.rs2 \in ISA!Reg
  BY <1>3, HeldInstructions, FieldsOfInstructions
<1>5. Read(i.rs1)' = AfterMem(i.rs1) /\ Read(i.rs2)' = AfterMem(i.rs2)
  BY <1>4, ReadStep DEF CycleParts
<1>6. SrcA = AfterMem(i.rs1) /\ SrcB = AfterMem(i.rs2)
  BY <1>3, SourcesSee
<1>7. Read(In(mm).rs1)' = SrcA /\ Read(In(mm).rs2)' = SrcB
  BY <1>2, <1>3, <1>5, <1>6
<1>8. QED
  BY <1>1, <1>2, <1>7

LEMMA MemEmptied ==
  ASSUME CycleParts(FALSE), Redirecting \/ ~Holds(ex)
  PROVE  mm' = Nop /\ ~Holds(mm)'
BY DEF CycleParts, MemClock, Holds, Nop, FE!Nop

(* The front end and ID keep to the path.                                  *)
LEMMA FrontKeepsPath ==
  ASSUME TypeOK, OnePath, CycleParts(FALSE), ~Redirecting
  PROVE  /\ Holds(id)' => id'.next = next'
         /\ LoadUse => UNCHANGED <<id, next>> /\ ex' = Nop
         /\ ~LoadUse /\ Holds(id) => /\ BehindEx' = id.next
                                     /\ Holds(ex)' /\ ex'.pc = id.pc /\ ex'.next = id.next
         /\ ~LoadUse /\ ~Holds(id) => BehindEx' = next /\ ex' = Nop
<1>1. CASE LoadUse
  <2>1. UNCHANGED <<id, next>> /\ ex' = Nop
    BY <1>1 DEF CycleParts, FetchClock, FE!Wait, ExClock
  <2>2. QED
    BY <1>1, <2>1 DEF OnePath, Holds
<1>2. CASE ~LoadUse
  <2>1. \/ id' = Nop /\ next' = next
        \/ \E succ : /\ id' = [kind |-> "instr", pc |-> next, instr |-> next, next |-> succ]
                     /\ next' = succ
    BY <1>2 DEF CycleParts, FetchClock, FE!Bubble, FE!Deliver, Nop
  <2>2. (Holds(id)' => id'.next = next') /\ BehindEx' = next
    BY <2>1 DEF Holds, BehindEx, Nop, FE!Nop
  <2>3. Holds(id) => /\ id.next = next
                     /\ Holds(ex)' /\ ex'.pc = id.pc /\ ex'.next = id.next
    BY <1>2 DEF OnePath, CycleParts, ExClock, Holds, Nop, FE!Nop
  <2>4. ~Holds(id) => ex' = Nop
    BY <1>2 DEF CycleParts, ExClock
  <2>5. QED
    BY <1>2, <2>2, <2>3, <2>4
<1>3. QED
  BY <1>1, <1>2

LEMMA BehindMoves ==
  ASSUME TypeOK, OnePath, CycleParts(FALSE), ~Redirecting
  PROVE  BehindMem' = BehindEx
<1>1. /\ LoadUse => UNCHANGED <<id, next>> /\ ex' = Nop
      /\ ~LoadUse /\ Holds(id) => Holds(ex)' /\ ex'.pc = id.pc
      /\ ~LoadUse /\ ~Holds(id) => BehindEx' = next /\ ex' = Nop
  BY FrontKeepsPath
<1>2. CASE LoadUse
  BY <1>1, <1>2 DEF BehindMem, BehindEx, Holds
<1>3. CASE ~LoadUse
  BY <1>1, <1>3 DEF BehindMem, BehindEx, Holds
<1>4. QED
  BY <1>2, <1>3

LEMMA MoveKeepsOnePath ==
  ASSUME TypeOK, PathInv, CycleParts(FALSE)
  PROVE  OnePath'
<1>1. CASE Redirecting
  <2>1. ~Holds(id)' /\ ~Holds(ex)' /\ ~Holds(mm)' /\ ~Redirecting'
    <3>1. id' = Nop
      BY <1>1 DEF CycleParts, FetchClock, FE!Restart, Nop
    <3>2. ex' = Nop /\ mm' = Nop /\ redirect' = NoRedirect
      BY <1>1 DEF CycleParts, ExClock, MemClock, RedirectClock
    <3>3. QED
      BY <3>1, <3>2 DEF Holds, Nop, FE!Nop, Redirecting, NoRedirect
  <2>2. QED
    BY <2>1 DEF OnePath
<1>2. CASE ~Redirecting
  <2>1. OnePath
    BY DEF PathInv
  <2>2. Holds(id)' => id'.next = next'
    BY <1>2, <2>1, FrontKeepsPath
  <2>3. Holds(ex)' => ex'.next = BehindEx'
    <3>1. CASE LoadUse
      BY <1>2, <2>1, <3>1, FrontKeepsPath DEF Holds, Nop, FE!Nop
    <3>2. CASE ~LoadUse /\ Holds(id)
      BY <1>2, <2>1, <3>2, FrontKeepsPath
    <3>3. CASE ~LoadUse /\ ~Holds(id)
      BY <1>2, <2>1, <3>3, FrontKeepsPath DEF Holds, Nop, FE!Nop
    <3>4. QED
      BY <3>1, <3>2, <3>3
  <2>4. BehindMem' = BehindEx
    BY <1>2, <2>1, BehindMoves
  <2>5. CASE Holds(ex)
    <3>1. Due' = CorrectPc
      BY <1>2, <2>5, MemEntered DEF Due, CorrectPc
    <3>2. CASE Mispredict
      BY <1>2, <2>2, <2>3, <2>5, <3>1, <3>2, MemEntered
         DEF OnePath, CycleParts, RedirectClock, Redirecting, NoRedirect
    <3>3. CASE ~Mispredict
      <4>1. ~Redirecting'
        BY <3>3 DEF CycleParts, RedirectClock, Redirecting, NoRedirect
      <4>2. CorrectPc = BehindEx
        BY <2>1, <2>5, <3>3 DEF OnePath, Mispredict
      <4>3. QED
        BY <2>2, <2>3, <2>4, <3>1, <4>1, <4>2 DEF OnePath
    <3>4. QED
      BY <3>2, <3>3
  <2>6. CASE ~Holds(ex)
    <3>1. ~Holds(mm)' /\ ~Redirecting'
      BY <2>6, MemEmptied DEF Mispredict, CycleParts, RedirectClock, Redirecting, NoRedirect
    <3>2. QED
      BY <2>2, <2>3, <3>1 DEF OnePath
  <2>7. QED
    BY <2>5, <2>6
<1>3. QED
  BY <1>1, <1>2

LEMMA MoveKeepsComputed ==
  ASSUME TypeOK, PathInv, CycleParts(FALSE)
  PROVE  Computed'
<1>1. CASE Redirecting \/ ~Holds(ex)
  BY <1>1, MemEmptied DEF Computed
<1>2. CASE ~Redirecting /\ Holds(ex)
  BY <1>2, MemEntered DEF Computed
<1>3. QED
  BY <1>1, <1>2

(* The operands read in ID: no load that is about to leave EX writes them, *)
(* or the hazard detection had held the instruction back.                  *)
LEMMA EnteringEx ==
  ASSUME TypeOK, PathInv, CycleParts(FALSE), ~Redirecting, ~LoadUse, Holds(id),
         NEW r \in {In(id).rs1, In(id).rs2}, NEW read, read = Read(r)
  PROVE  Current(r, read)'
<1>1. r \in ISA!Reg
  BY HeldInstructions, FieldsOfInstructions
<1>2. read = regs'[r]
  BY <1>1, RegsCatchUp DEF CycleParts
<1>3. Writes(mm, r)' => In(mm)'.op # "load"
  <2>1. CASE Holds(ex)
    <3>1. In(mm)' = In(ex)
      BY <2>1, MemEntered
    <3>2. Writes(mm, r)' => In(ex).rd = r /\ r # 0
      BY <3>1 DEF Writes, ISA!WritesReg
    <3>3. QED
      BY <2>1, <3>1, <3>2 DEF LoadUse
  <2>2. CASE ~Holds(ex)
    BY <2>2, MemEmptied DEF Writes
  <2>3. QED
    BY <2>1, <2>2
<1>4. QED
  BY <1>2, <1>3 DEF Current

LEMMA MoveKeepsOperands ==
  ASSUME TypeOK, PathInv, CycleParts(FALSE)
  PROVE  Operands'
<1>1. CASE Redirecting \/ LoadUse \/ ~Holds(id)
  <2>1. ex' = Nop
    BY <1>1 DEF CycleParts, ExClock
  <2>2. QED
    BY <2>1 DEF Operands, Holds, Nop, FE!Nop
<1>2. CASE ~Redirecting /\ ~LoadUse /\ Holds(id)
  <2>1. PICK i, a, b : i = In(id) /\ a = Read(i.rs1) /\ b = Read(i.rs2)
    OBVIOUS
  <2>2. Current(i.rs1, a)' /\ Current(i.rs2, b)'
    BY <1>2, <2>1, EnteringEx
  <2>3. i = In(ex)' /\ a = ex'.a /\ b = ex'.b
    BY <1>2, <2>1 DEF CycleParts, ExClock, In
  <2>4. QED
    BY <2>2, <2>3 DEF Operands
<1>3. QED
  BY <1>1, <1>2

LEMMA PathInitially == Init => PathInv
BY DEF Init, FE!Init, PathInv, OnePath, Computed, Operands, Holds, Nop, Redirecting

LEMMA PathKept ==
  ASSUME Careful, TypeOK, PathInv, [Next]_vars
  PROVE  PathInv'
<1>1. CASE Next
  <2>1. PICK wait \in BOOLEAN : /\ CycleParts(wait)
                                /\ wait => ~LoadUse /\ ~Mispredict /\ ~Redirecting
    BY <1>1, CycleDoes DEF Next
  <2>2. CASE wait
    <3>1. wait = TRUE
      BY <2>2
    <3>2. QED
      BY <2>1, <3>1, WaitKeepsPath
  <2>3. CASE ~wait
    <3>1. wait = FALSE
      BY <2>1, <2>3
    <3>2. QED
      BY <2>1, <3>1, MoveKeepsOnePath, MoveKeepsComputed, MoveKeepsOperands DEF PathInv
  <2>4. QED
    BY <2>2, <2>3
<1>2. CASE UNCHANGED vars
  BY <1>2 DEF vars, stages, PathInv, OnePath, Computed, Operands, Current, Due, BehindEx,
              BehindMem, Holds, In, Read, Writes, Redirecting
<1>3. QED
  BY <1>1, <1>2

(* With a careful data side the instructions in flight lie on one path and *)
(* the one in MEM is the machine's next, with the operands it should have. *)
THEOREM PathInvAlways ==
  ASSUME Careful
  PROVE  Spec => []PathInv
<1>1. TypeOK /\ PathInv /\ [Next]_vars => PathInv'
  BY PathKept
<1>2. QED
  BY <1>1, PathInitially, TypeAlways, PTL DEF Spec

-----------------------------------------------------------------------------
(* An instruction takes effect when it leaves MEM.                         *)
LEMMA ArchIsMachine ==
  /\ \A r : Arch!WritesReg(r) <=> ISA!WritesReg(r)
  /\ \A i, a, b : Arch!Alu(i, a, b) = ISA!Alu(i, a, b)
  /\ \A i, p, a, b : Arch!Successor(i, p, a, b) = ISA!Successor(i, p, a, b)
  /\ \A p : Arch!Link(p) = ISA!Link(p)
BY DEF Arch!WritesReg, ISA!WritesReg, Arch!Alu, ISA!Alu, Arch!Accesses, ISA!Accesses,
       Arch!Successor, ISA!Successor, Arch!Taken, ISA!Taken, Arch!Following, ISA!Following,
       Arch!Link, ISA!Link

LEMMA ArchInitially == Init => Arch!Init
<1> SUFFICES ASSUME Init PROVE Arch!Init
  OBVIOUS
<1>1. DonePc = 0
  BY DEF Init, FE!Init, ISA!Init, DonePc, Holds, Nop
<1>2. \A r \in ISA!Reg : Read(r) = 0
  BY DEF Init, ISA!Init, Read, Writes, Holds
<1>3. QED
  BY <1>1, <1>2 DEF Init, ISA!Init, Arch!Init, Arch!Reg, ISA!Reg, Arch!Value, ISA!Value

ArchRegs == [r \in ISA!Reg |-> Read(r)]
ArchVars == <<code, DonePc, ArchRegs, mem>>

LEMMA WaitIsStutter ==
  ASSUME TypeOK, CycleParts(TRUE), ~LoadUse, ~Mispredict, ~Redirecting
  PROVE  UNCHANGED ArchVars
<1>1. UNCHANGED <<code, next, id, ex, mm, wb, mem>>
  BY WaitingCycle
<1>2. \A r \in ISA!Reg : Read(r)' = Read(r)
  BY ReadStep DEF CycleParts
<1>3. ArchRegs' = ArchRegs
  BY <1>2 DEF ArchRegs
<1>4. DonePc' = DonePc
  BY <1>1 DEF DonePc, Holds
<1>5. QED
  BY <1>1, <1>3, <1>4 DEF ArchVars

LEMMA EmptyMemIsStutter ==
  ASSUME TypeOK, PathInv, CycleParts(FALSE), ~Holds(mm)
  PROVE  UNCHANGED ArchVars
<1>1. ~Redirecting /\ OnePath
  BY DEF PathInv, OnePath
<1>2. \A r \in ISA!Reg : Read(r)' = Read(r)
  BY ReadStep DEF CycleParts, AfterMem, Writes
<1>3. ArchRegs' = ArchRegs
  BY <1>2 DEF ArchRegs
<1>4. DonePc = BehindMem
  BY DEF DonePc, BehindMem, BehindEx
<1>5. Holds(ex) => DonePc' = DonePc
  BY <1>1, <1>4, MemEntered DEF DonePc, BehindMem
<1>6. ~Holds(ex) => DonePc' = DonePc
  BY <1>1, <1>4, MemEmptied, BehindMoves DEF DonePc, BehindMem, BehindEx
<1>7. mem' = mem /\ code' = code
  BY DEF CycleParts, StoreClock
<1>8. QED
  BY <1>3, <1>5, <1>6, <1>7 DEF ArchVars

(* Where the program is once the instruction in MEM is done.               *)
LEMMA DoneLeadsToDue ==
  ASSUME TypeOK, PathInv, CycleParts(FALSE), Holds(mm)
  PROVE  DonePc' = Due
<1>1. OnePath
  BY DEF PathInv
<1>2. CASE Redirecting
  <2>1. next' = redirect.to /\ ~Holds(id)' /\ ~Holds(ex)' /\ ~Holds(mm)'
    BY <1>2 DEF CycleParts, FetchClock, FE!Restart, ExClock, MemClock, Holds, Nop, FE!Nop
  <2>2. QED
    BY <1>1, <1>2, <2>1 DEF OnePath, DonePc
<1>3. CASE ~Redirecting /\ Holds(ex)
  BY <1>1, <1>3, MemEntered DEF OnePath, DonePc, BehindMem
<1>4. CASE ~Redirecting /\ ~Holds(ex)
  <2>1. DonePc' = BehindMem'
    BY <1>4, MemEmptied DEF DonePc, BehindMem, BehindEx
  <2>2. QED
    BY <1>1, <1>4, <2>1, BehindMoves DEF OnePath, BehindMem
<1>5. QED
  BY <1>2, <1>3, <1>4

LEMMA WritesAsMachine ==
  ASSUME TypeOK, PathInv, Holds(mm)
  PROVE  WbValue = Arch!Result(In(mm), mm.pc, Read(In(mm).rs1), Read(In(mm).rs2))
BY ArchIsMachine DEF PathInv, Computed, WbValue, Arch!Result

LEMMA LeavingMemIsStep ==
  ASSUME TypeOK, PathInv, CycleParts(FALSE), Holds(mm)
  PROVE  Arch!Step
<1>1. PICK i : i = In(mm)
  OBVIOUS
<1>2. i.rs1 \in ISA!Reg /\ i.rs2 \in ISA!Reg /\ i.rd \in ISA!Reg
  BY <1>1, HeldInstructions, FieldsOfInstructions
<1>3. PICK a, b : a = Read(i.rs1) /\ b = Read(i.rs2)
  OBVIOUS
<1>4. a = ArchRegs[i.rs1] /\ b = ArchRegs[i.rs2]
  BY <1>2, <1>3 DEF ArchRegs
<1>5. DonePc = mm.pc /\ code[DonePc] = i
  BY <1>1 DEF DonePc, In
<1>6. DonePc' = Arch!Successor(i, DonePc, a, b)
  BY <1>1, <1>3, <1>5, DoneLeadsToDue, ArchIsMachine DEF Due
<1>7. mm.alu = Arch!Alu(i, a, b) /\ mm.b = b
  BY <1>1, <1>3, ArchIsMachine DEF PathInv, Computed
<1>8. mem' = IF i.op = "store" THEN [mem EXCEPT ![Arch!Alu(i, a, b)] = b] ELSE mem
  BY <1>1, <1>7 DEF CycleParts, StoreClock
<1>9. WbValue = Arch!Result(i, DonePc, a, b)
  BY <1>1, <1>3, <1>5, WritesAsMachine
<1>10. \A r \in ISA!Reg : Read(r)' = AfterMem(r)
  BY ReadStep DEF CycleParts
<1>11. \A r \in ISA!Reg : Writes(mm, r) <=> Arch!WritesReg(i) /\ r = i.rd
  BY <1>1, ArchIsMachine DEF Writes
<1>12. ArchRegs' = IF Arch!WritesReg(i)
                   THEN [ArchRegs EXCEPT ![i.rd] = Arch!Result(i, DonePc, a, b)]
                   ELSE ArchRegs
  <2>1. ArchRegs' = [r \in ISA!Reg |-> AfterMem(r)]
    BY <1>10 DEF ArchRegs
  <2>2. QED
    BY <2>1, <1>2, <1>9, <1>11 DEF ArchRegs, AfterMem
<1>13. code' = code
  BY DEF CycleParts
<1>14. QED
  BY <1>4, <1>5, <1>6, <1>8, <1>12, <1>13 DEF Arch!Step, ArchRegs

(* The pipeline runs the program: each instruction of the machine's path   *)
(* takes effect once, in order, with the operands it should have, when it  *)
(* leaves MEM, and nothing of a wrong path ever does.                      *)
THEOREM ImplementsMachineAlways ==
  ASSUME Careful
  PROVE  Spec => ImplementsMachine
<1>1. TypeOK /\ PathInv /\ [Next]_vars => [Arch!Step]_ArchVars
  <2>1. SUFFICES ASSUME TypeOK, PathInv, [Next]_vars PROVE [Arch!Step]_ArchVars
    OBVIOUS
  <2>2. CASE Next
    <3>1. PICK wait \in BOOLEAN : /\ CycleParts(wait)
                                  /\ wait => ~LoadUse /\ ~Mispredict /\ ~Redirecting
      BY <2>2, CycleDoes DEF Next
    <3>2. CASE wait = TRUE
      BY <2>1, <3>1, <3>2, WaitIsStutter
    <3>3. CASE wait = FALSE /\ Holds(mm)
      BY <2>1, <3>1, <3>3, LeavingMemIsStep
    <3>4. CASE wait = FALSE /\ ~Holds(mm)
      BY <2>1, <3>1, <3>4, EmptyMemIsStutter
    <3>5. QED
      BY <3>1, <3>2, <3>3, <3>4
  <2>3. CASE UNCHANGED vars
    BY <2>3 DEF vars, stages, ArchVars, ArchRegs, DonePc, Holds, In, Read, Writes
  <2>4. QED
    BY <2>1, <2>2, <2>3
<1>2. QED
  BY <1>1, ArchInitially, TypeAlways, PathInvAlways, PTL
     DEF Spec, ImplementsMachine, Arch!Spec, ArchVars, ArchRegs

(* A stall loses nothing, of a careful data side: an instruction leaves    *)
(* MEM for WB and EX for MEM, unless a redirect throws it out of EX.       *)
THEOREM StallsLoseNothingAlways ==
  ASSUME Careful
  PROVE  Spec => StallsLoseNothing
<1> DEFINE Kept ==
      /\ Holds(mm) /\ mm' # mm => Holds(wb') /\ wb'.pc = mm.pc
      /\ Holds(ex) /\ ex' # ex => Redirecting \/ (Holds(mm') /\ mm'.pc = ex.pc)
<1>1. [Next]_vars => [Kept]_vars
  <2>1. SUFFICES ASSUME Next PROVE Kept
    OBVIOUS
  <2>2. PICK wait \in BOOLEAN : /\ CycleParts(wait)
                                /\ wait => ~LoadUse /\ ~Mispredict /\ ~Redirecting
    BY <2>1, CycleDoes DEF Next
  <2>3. CASE wait = TRUE
    <3>1. mm' = mm /\ ex' = ex
      BY <2>2, <2>3, WaitingCycle
    <3>2. QED
      BY <3>1
  <2>4. CASE wait = FALSE
    BY <2>2, <2>4 DEF CycleParts, MemClock, WbClock, Holds, Nop, FE!Nop
  <2>5. QED
    BY <2>2, <2>3, <2>4
<1>2. QED
  BY <1>1, PTL DEF Spec, StallsLoseNothing, Kept
=============================================================================
