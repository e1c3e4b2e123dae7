----------------------------- MODULE MCArmMachine -----------------------------
(***************************************************************************)
(* Instances of ArmMachine for TLC.  Bytes have four bits, so words have   *)
(* sixteen; memory has 48 bytes: four words of program at 0..15 and the    *)
(* eight exception vectors at 16..47.                                      *)
(***************************************************************************)
EXTENDS ArmMachine, Assembler

-----------------------------------------------------------------------------
(* The cage run.  After a reset the supervisor goes to user mode, or       *)
(* returns through an SPSR that was never written; the program then does   *)
(* everything that touches status registers and banks, and the handlers    *)
(* return, or use their privilege first.                                   *)

Zeros == [mode |-> 0, T |-> 0, F |-> 0, I |-> 0, E |-> 0, flags |-> 0]

CageStorage == {[r \in 0 .. 30 |-> 0]}
CageMemory  == {[a \in Address |-> 0]}
CageStatus == {[Zeros EXCEPT !.mode = USR]}

Start   == {Msr(FALSE, TRUE, FALSE, USR), MovsPcLr}
StatusWriters == {Msr(FALSE, TRUE, TRUE, SVC), Msr(FALSE, TRUE, FALSE, SYS + 32),
                  Msr(TRUE, TRUE, TRUE, SYS), MovsPcLr,
                  Ldm(TRUE, TRUE, FALSE, TRUE, FALSE, 0, {8, PC}, 0),
                  Ldm(TRUE, TRUE, FALSE, TRUE, FALSE, 0, {8, SP, LR}, 0)}
Trap    == {Swi, Coproc, Ldst(TRUE, FALSE, TRUE, FALSE, 0, 0, 48)}

CageProgram == [a \in Address |->
  CASE a = 0  -> Start
    [] a = 4  -> StatusWriters
    [] a = 8  -> Trap
    [] a = 12 -> {Goto(12, 4)}
    [] a = VectorBase + Vector.RESET -> {Goto(VectorBase, 0)}
    [] a = VectorBase + Vector.UND   -> {MovsPcLr}
    [] a = VectorBase + Vector.SWI   -> {MovsPcLr}
    [] a = VectorBase + Vector.PABT  -> {SubsPcLr(4)}
    [] a = VectorBase + Vector.DABT  -> {SubsPcLr(4), Msr(FALSE, TRUE, FALSE, USR + 64)}
    [] a = VectorBase + Vector.DABT + 4 -> {Goto(VectorBase + Vector.DABT + 4, 4)}
    [] a = VectorBase + Vector.IRQ   -> {SubsPcLr(4)}
    [] a = VectorBase + Vector.FIQ   -> {SubsPcLr(4), Mov(8, 1)}
    [] OTHER -> {Coproc}]
=============================================================================
