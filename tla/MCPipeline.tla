---------------------------- MODULE MCPipeline -----------------------------
(* Every program of Size instructions, in a circle, that starts with an     *)
(* increment and goes on with arithmetic, loads and stores and with         *)
(* branches and jumps that skip an instruction.                             *)
EXTENDS Pipeline

I(op, rd, rs1, rs2, imm) == [op |-> op, rd |-> rd, rs1 |-> rs1, rs2 |-> rs2, imm |-> imm]

Menu == {I("alu", 2, 1, 2, 0),      \* x2 := x1 + x2
         I("load", 1, 2, 0, 0),     \* x1 := mem[x2]
         I("load", 2, 1, 1, 1),     \* x2 := mem[x1 + 1], rs2 field equal to rs1
         I("load", 0, 1, 0, 0),     \* a load whose result nobody gets
         I("store", 1, 2, 1, 0),    \* mem[x2] := x1
         I("branch", 2, 1, 2, 0),   \* if x1 # x2
         I("jump", 1, 0, 0, 0)}     \* x1 := link

Placed(i, a) == [op |-> i.op, rd |-> i.rd, rs1 |-> i.rs1, rs2 |-> i.rs2, imm |-> i.imm,
                 target |-> (a + 2) % Size]

Increment == I("alu", 1, 1, 0, 1)

AllPrograms ==
  {[a \in 0 .. Size - 1 |-> Placed(IF a = 0 THEN Increment ELSE f[a], a)] :
     f \in [1 .. Size - 1 -> Menu]}
=============================================================================
