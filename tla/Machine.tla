------------------------------- MODULE Machine ------------------------------
(***************************************************************************)
(* The instruction set as far as the pipeline can get it wrong: a machine  *)
(* that runs a program one whole instruction at a time.  Registers and     *)
(* memory hold numbers modulo Values; register 0 is always 0.              *)
(***************************************************************************)
EXTENDS Naturals

CONSTANTS
  Size,     (* the program has Size instructions and runs in a circle *)
  Regs,     (* number of registers, x0 included                       *)
  Values    (* number of values of a register, and of memory words    *)

VARIABLES
  code,     (* the program, never changed               *)
  pc, regs, mem

Addr  == 0 .. Size - 1
Reg   == 0 .. Regs - 1
Value == 0 .. Values - 1

Instr == [op : {"alu", "load", "store", "branch", "jump"},
          rd : Reg, rs1 : Reg, rs2 : Reg, imm : Value, target : Addr]

-----------------------------------------------------------------------------
(* The meaning of one instruction i at address p, for operands a and b.    *)
Following(p)  == (p + 1) % Size
Link(p)       == (p + 1) % Values
WritesReg(i)  == i.op \in {"alu", "load", "jump"} /\ i.rd # 0
Accesses(i)   == i.op \in {"load", "store"}
Taken(i, a, b) == i.op = "jump" \/ (i.op = "branch" /\ a # b)
Successor(i, p, a, b) == IF Taken(i, a, b) THEN i.target ELSE Following(p)

(* The ALU: a result, or the address of a load or a store.                 *)
Alu(i, a, b) == IF Accesses(i) THEN (a + i.imm) % Values ELSE (a + b + i.imm) % Values

Result(i, p, a, b) ==
  CASE i.op = "load" -> mem[Alu(i, a, b)]
    [] i.op = "jump" -> Link(p)
    [] OTHER         -> Alu(i, a, b)

-----------------------------------------------------------------------------
Init ==
  /\ pc = 0
  /\ regs = [r \in Reg |-> 0]
  /\ mem = [v \in Value |-> v]

Step ==
  LET i == code[pc]
      a == regs[i.rs1]
      b == regs[i.rs2]
  IN  /\ regs' = IF WritesReg(i) THEN [regs EXCEPT ![i.rd] = Result(i, pc, a, b)] ELSE regs
      /\ mem' = IF i.op = "store" THEN [mem EXCEPT ![Alu(i, a, b)] = b] ELSE mem
      /\ pc' = Successor(i, pc, a, b)
      /\ UNCHANGED code

Spec == Init /\ [][Step]_<<code, pc, regs, mem>>
=============================================================================
