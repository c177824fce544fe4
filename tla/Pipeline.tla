------------------------------ MODULE Pipeline ------------------------------
(***************************************************************************)
(* rtl/cpu/core/riscv_core.sv: the five stages behind the fetch unit, with *)
(* their hazard detection (hdu.sv), forwarding (fu.sv), branch resolution  *)
(* (bru.sv), register file (rf.sv) and write-back (wb.sv).                 *)
(*                                                                         *)
(* The front end is FetchStream, the specification of the instruction      *)
(* side; the predictor may predict anything for a branch or a jump.  The   *)
(* data side answers the access in MEM in any cycle.                       *)
(***************************************************************************)
EXTENDS Naturals

CONSTANTS
  Size, Regs, Values,
  Programs,   (* the programs run                                          *)
  Careful     (* TRUE: the data side never makes MEM wait in a cycle with  *)
              (* a load-use hazard or a misprediction                      *)

VARIABLES
  code,                    (* the program                               *)
  next, id, redirected,    (* FetchStream; id is the IF/ID register     *)
  ex, mm, wb,              (* the ID/EX, EX/MEM and MEM/WB registers    *)
  regs, mem,               (* register file; memory as loads see it     *)
  redirect                 (* mispredict_r with correct_pc_r            *)

stages == <<ex, mm, wb>>
vars   == <<code, next, id, redirected, stages, regs, mem, redirect>>

FE  == INSTANCE FetchStream WITH WordAddr <- 0 .. Size - 1, ResetPc <- 0, slot <- id
ISA == INSTANCE Machine WITH pc <- next

Nop        == FE!Nop
NoRedirect == [kind |-> "none"]

ASSUME PipelineAssumption ==
  /\ Size \in Nat \ {0} /\ Regs \in Nat \ {0} /\ Values \in Nat \ {0}
  /\ Programs # {} /\ Programs \subseteq [0 .. Size - 1 -> ISA!Instr]
  /\ \A p \in Programs : \A a \in 0 .. Size - 1 : p[a].target # ISA!Following(a)

Init ==
  /\ code \in Programs
  /\ FE!Init
  /\ ISA!Init
  /\ ex = Nop /\ mm = Nop /\ wb = Nop
  /\ redirect = NoRedirect

-----------------------------------------------------------------------------
(* The instruction a register of the pipeline holds; a bubble has none.    *)
Holds(slot) == slot # Nop
In(slot)    == code[slot.pc]

(* The value the WB stage writes, and to where (wb.sv). *)
Writes(slot, r) == Holds(slot) /\ ISA!WritesReg(In(slot)) /\ In(slot).rd = r

(* What MEM forwards: the link of a jump, otherwise the ALU's result.      *)
MemForward == IF In(mm).op = "jump" THEN ISA!Link(mm.pc) ELSE mm.alu

(* An operand in EX: MEM first, then WB, then what was read in ID (fu.sv). *)
Forward(r, read) ==
  IF Writes(mm, r) THEN MemForward
  ELSE IF Writes(wb, r) THEN wb.value
  ELSE read

(* Fault: the register file returns what it holds, not what is written.    *)
ReadOld(r) == regs[r]

(* A register read in ID sees the write of the same cycle (rf.sv).         *)
Read(r) == IF Writes(wb, r) THEN wb.value ELSE regs[r]

SrcA == Forward(In(ex).rs1, ex.a)
SrcB == Forward(In(ex).rs2, ex.b)

(* bru.sv: the successor EX works out against the predicted one.           *)
CorrectPc  == ISA!Successor(In(ex), ex.pc, SrcA, SrcB)
Mispredict == Holds(ex) /\ CorrectPc # ex.next

(* hdu.sv.  Register fields are compared whether the instruction uses them *)
(* or not.                                                                 *)
LoadUse == /\ Holds(ex) /\ In(ex).op = "load" /\ In(ex).rd # 0
           /\ Holds(id) /\ In(ex).rd \in {In(id).rs1, In(id).rs2}

Waits(valid) == Holds(mm) /\ ISA!Accesses(In(mm)) /\ ~valid

Redirecting == redirect # NoRedirect

-----------------------------------------------------------------------------
(* Every pipeline register: a flush wins over a stall.                     *)
FetchClock(stall) ==
  \/ Redirecting /\ FE!Restart(redirect.to)
  \/ ~Redirecting /\ stall /\ FE!Wait
  \/ ~Redirecting /\ ~stall /\ FE!Bubble
  \/ /\ ~Redirecting /\ ~stall
     /\ \E succ \in {ISA!Following(next)} \cup
          (IF code[next].op \in {"branch", "jump"} THEN {code[next].target} ELSE {}) :
            FE!Deliver(succ)

ExClock(wait) ==
  ex' = IF Redirecting \/ LoadUse THEN Nop
        ELSE IF wait THEN ex
        ELSE IF ~Holds(id) THEN Nop
        ELSE [kind |-> "instr", pc |-> id.pc, next |-> id.next,
              a |-> Read(In(id).rs1), b |-> Read(In(id).rs2)]

MemClock(wait) ==
  mm' = IF Redirecting THEN Nop
        ELSE IF wait THEN mm
        ELSE IF ~Holds(ex) THEN Nop
        ELSE [kind |-> "instr", pc |-> ex.pc, alu |-> ISA!Alu(In(ex), SrcA, SrcB), b |-> SrcB]

WbValue == CASE In(mm).op = "load" -> mem[mm.alu]
             [] In(mm).op = "jump" -> ISA!Link(mm.pc)
             [] OTHER              -> mm.alu

WbClock(wait) ==
  wb' = IF wait THEN wb
        ELSE IF ~Holds(mm) THEN Nop
        ELSE [kind |-> "instr", pc |-> mm.pc, value |-> WbValue]

(* Fault: register 0 is written like any other. *)
RegsClockZero ==
  regs' = IF Holds(wb) /\ In(wb).op \in {"alu", "load", "jump"}
          THEN [regs EXCEPT ![In(wb).rd] = wb.value] ELSE regs

RegsClock ==
  regs' = IF Holds(wb) /\ ISA!WritesReg(In(wb)) THEN [regs EXCEPT ![In(wb).rd] = wb.value] ELSE regs

(* A store is done in the cycle the data side answers it.                  *)
StoreClock(wait) ==
  mem' = IF Holds(mm) /\ In(mm).op = "store" /\ ~wait THEN [mem EXCEPT ![mm.alu] = mm.b] ELSE mem

RedirectClock ==
  redirect' = IF Mispredict /\ ~Redirecting THEN [kind |-> "redirect", to |-> CorrectPc]
              ELSE NoRedirect

Cycle(valid) ==
  LET wait == Waits(valid)
  IN  /\ Careful /\ wait => ~LoadUse /\ ~Mispredict /\ ~Redirecting
      /\ FetchClock(wait \/ LoadUse)
      /\ ExClock(wait)
      /\ MemClock(wait)
      /\ WbClock(wait)
      /\ RegsClock
      /\ StoreClock(wait)
      /\ RedirectClock
      /\ UNCHANGED code

Next == \E valid \in BOOLEAN : Cycle(valid)

Spec == Init /\ [][Next]_vars

-----------------------------------------------------------------------------
TypeOK ==
  /\ code \in Programs
  /\ next \in ISA!Addr
  /\ (id = Nop \/ (id.pc \in ISA!Addr /\ id.instr = id.pc /\ id.next \in ISA!Addr))
  /\ ex = Nop \/ ex \in [kind : {"instr"}, pc : ISA!Addr, next : ISA!Addr, a : ISA!Value, b : ISA!Value]
  /\ mm = Nop \/ mm \in [kind : {"instr"}, pc : ISA!Addr, alu : ISA!Value, b : ISA!Value]
  /\ wb = Nop \/ wb \in [kind : {"instr"}, pc : ISA!Addr, value : ISA!Value]
  /\ regs \in [ISA!Reg -> ISA!Value] /\ regs[0] = 0
  /\ mem \in [ISA!Value -> ISA!Value]
  /\ Redirecting => redirect.to \in ISA!Addr

(* The pipeline runs the program: every instruction of the architectural   *)
(* path takes effect once, in order, with the operands it should have,     *)
(* and nothing of a wrong path does.  An instruction counts as done when   *)
(* it enters WB, for ID already reads what WB is about to write.           *)
DonePc == IF Holds(mm) THEN mm.pc
          ELSE IF Holds(ex) THEN ex.pc
          ELSE IF Holds(id) THEN id.pc
          ELSE next
Arch == INSTANCE Machine
          WITH pc <- DonePc, regs <- [r \in ISA!Reg |-> Read(r)]
ImplementsMachine == Arch!Spec

(* The data cache stalls the whole pipeline and a stall loses nothing: an  *)
(* instruction leaves MEM for WB and for nowhere else, and EX for MEM or   *)
(* because a redirect throws it away.                                      *)
StallsLoseNothing ==
  [][/\ Holds(mm) /\ mm' # mm => Holds(wb') /\ wb'.pc = mm.pc
     /\ Holds(ex) /\ ex' # ex => Redirecting \/ (Holds(mm') /\ mm'.pc = ex.pc)]_vars
=============================================================================
