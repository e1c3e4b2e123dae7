---------------------------- MODULE MCArmTransfer ----------------------------
(***************************************************************************)
(* Instances of ArmTransfer for TLC.  A program chooses a mode at address  *)
(* 0 (or returns through an SPSR whose E bit is 0, so that both byte       *)
(* orders occur), then executes two loads or stores, among them accesses   *)
(* that straddle the end of the memory.                                    *)
(***************************************************************************)
EXTENDS ArmTransfer, Assembler

(* Every physical register has a value of its own; r0 is a base inside the *)
(* memory, r1 one near its end, the program counter's garbage is not used. *)
TransferStorage == {[r \in 0 .. 30 |->
  CASE r = 0  -> 4
    [] r = 1  -> 40
    [] r = LR + 3 -> 4          \* the SVC bank's LR: where MOVS PC, LR goes
    [] OTHER  -> 4096 * (r % 16) + 16 * r + 128 + 5]}

TransferStatus == {[mode |-> m, T |-> 0, F |-> 0, I |-> 0, E |-> 0, flags |-> 0] :
                     m \in {USR, FIQ}}

TransferMemory == {[a \in Address |-> (7 * a) % ByteSize]}

ChooseMode == {Msr(FALSE, TRUE, FALSE, m) : m \in {SYS, FIQ, UND}} \cup {MovsPcLr}

Plain(rn, imm) ==
  {Ldst(l, b, TRUE, FALSE, 2, rn, imm) : l \in BOOLEAN, b \in BOOLEAN}
    \cup {Misc(k, 2, rn, imm, 4660) : k \in {1, 3, 5, 6, 7}}

Straddling == UNION {Plain(1, imm) : imm \in {0, 4, 5, 6, 7, 8}}

First  == Plain(0, 12) \cup {Push({2, 8, LR}), Mov(SP, 47)}
Second == {Ldm(TRUE, FALSE, FALSE, TRUE, TRUE, 1, {2, 3, LR}, 0),
           Ldm(FALSE, FALSE, FALSE, TRUE, FALSE, 1, {2, PC}, 0),
           Ldm(TRUE, FALSE, FALSE, TRUE, FALSE, 1, {2, 3, PC}, 0),
           Ldm(TRUE, TRUE, FALSE, TRUE, FALSE, 0, {8, LR}, 0),
           Ldm(TRUE, TRUE, FALSE, TRUE, FALSE, 1, {2, 8, PC}, 0),
           Ldm(FALSE, TRUE, FALSE, TRUE, FALSE, 0, {8, LR}, 0),
           Ldm(FALSE, TRUE, FALSE, TRUE, TRUE, 0, {8, PC}, 0),
           [Ldst(TRUE, FALSE, FALSE, FALSE, 2, 0, 8) EXCEPT !.u = FALSE],
           Ldst(FALSE, FALSE, FALSE, TRUE, 2, 0, 8),
           [Ldst(TRUE, FALSE, TRUE, FALSE, 2, 0, 0) EXCEPT !.rm = 1, !.shift = LSR, !.amount = 2],
           Misc(2, 2, 0, 4, 0), Misc(2, 2, 1, 4, 0), Misc(0, 2, 0, 4, 0),
           Pop({2, 3})}

TransferProgram == [a \in Address |->
  CASE a = 0  -> ChooseMode
    [] a = 4  -> First \cup Plain(1, 5)
    [] a = 8  -> Second
    [] a = 12 -> {Halt}
    [] a = VectorBase + Vector.RESET -> {Goto(VectorBase, 0)}
    [] a = VectorBase + Vector.DABT  -> {SubsPcLr(4)}
    [] OTHER -> {Halt}]

TransferLists == {{}, {0}, {2, 8}, {8, LR}, {2, 3, 14}, {0, 8, SP, LR}}
=============================================================================
