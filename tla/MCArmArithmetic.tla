--------------------------- MODULE MCArmArithmetic ---------------------------
(***************************************************************************)
(* An instance of ArmArithmetic for TLC: r0 to r3 start with every choice  *)
(* of boundary words, the flags with carry clear or set, and a program of  *)
(* three instructions computes with them.                                  *)
(***************************************************************************)
EXTENDS ArmArithmetic, Assembler

Boundary == {0, 1, 32767, 32768, 65535}

Registers == {[r \in 0 .. 30 |-> IF r \in Operands THEN f[r] ELSE 0] :
                f \in [Operands -> Boundary]}

Status == {[mode |-> SYS, T |-> 0, F |-> 0, I |-> 0, E |-> 0, flags |-> f] :
             f \in {0, 2}}

Cleared == {[a \in Address |-> 0]}

Computation == [a \in Address |->
  CASE a = VectorBase + Vector.RESET -> {DataOp("ADD", TRUE, 0, 0, 1),
                                         DataOp("CMP", TRUE, 0, 2, 3)}
    [] a = VectorBase + Vector.RESET + 4 ->
         {DataOp("SBC", TRUE, 1, 1, 2),
          Shifting(DataOp("MOV", TRUE, 2, 0, 2), ASR, 1, NoReg),
          [DataOp("RSB", TRUE, 3, 3, 0) EXCEPT !.cond = 2],
          Shifting(DataOp("EOR", TRUE, 3, 1, 3), LSL, 0, 0)}
    [] OTHER -> {Halt}]
=============================================================================
