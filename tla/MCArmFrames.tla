---------------------------- MODULE MCArmFrames ----------------------------
(***************************************************************************)
(* An instance of ArmFrames for TLC: Examples/demoIntteruption.s, the      *)
(* program that counts to five, asks for a software interrupt and counts   *)
(* for ever, with its own handlers, under IRQs and FIQs at any moment.     *)
(*                                                                         *)
(* So that exceptions nest deeper, two instructions have an alternative    *)
(* that is not in the file, marked +: the IRQ handler may execute a SWI,   *)
(* the SWI handler an undefined instruction, whose handler may execute a   *)
(* load that aborts.  The handlers of those two in the file, which its     *)
(* program does not reach, return with #4 to where they must not; here     *)
(* they only return, as they should.  A "mov r0, #0xEE" of the IRQ handler *)
(* has become a comparison, to disturb the flags.  The first loop makes    *)
(* its last two turns, the count of the second, endless one is left out.   *)
(*                                                                         *)
(* Code is at 0..95, in the order of the file, the vectors at 96..127, the *)
(* stack above.                                                            *)
(***************************************************************************)
EXTENDS ArmFrames, Assembler

EQ == 0

Compare == Dp("CMP", TRUE, 0, 0, NoReg, 5)
Abort   == Ldst(TRUE, FALSE, TRUE, FALSE, 2, 0, 4095)

(* main; its first instruction is executed by Boot. *)
Main == [a \in Address |->
  CASE a = 0  -> {Msr(FALSE, TRUE, FALSE, 0)}
    [] a = 4  -> {Mov(0, 4)}
    [] a = 8  -> {Mov(1, 1)}
    [] a = 12 -> {Mov(2, 2)}
    [] a = 16 -> {Compare}                                        \* loop1
    [] a = 20 -> {[Goto(20, 32) EXCEPT !.cond = EQ]}
    [] a = 24 -> {Dp("ADD", FALSE, 0, 0, NoReg, 1)}
    [] a = 28 -> {Goto(28, 16)}
    [] a = 32 -> {Swi}                                            \* end_loop1
    [] a = 36 -> {Goto(36, 36)}                                   \* loop
    [] OTHER  -> {}]

Handlers == [a \in Address |->
  CASE a = 40 -> {Mov(4, 2), (* + *) Coproc}                     \* swi_handler
    [] a = 44 -> {Dp("MOV", FALSE, 5, 0, LR, 0)}
    [] a = 48 -> {[Ldst(TRUE, TRUE, TRUE, FALSE, 5, 5, 1) EXCEPT !.u = FALSE]}
    [] a = 52 -> {MovsPcLr}
    [] a = 56 -> {Ldm(FALSE, FALSE, FALSE, FALSE, TRUE, SP, {0, 1, 2}, 0)} \* irq_handler
    [] a = 60 -> {Mov(0, 255), (* + *) Swi}
    [] a = 64 -> {Mrs(1, FALSE)}
    [] a = 68 -> {Mrs(2, TRUE)}
    [] a = 72 -> {Compare}
    [] a = 76 -> {Mov(0, 187)}
    [] a = 80 -> {Ldm(TRUE, FALSE, TRUE, TRUE, TRUE, SP, {0, 1, 2}, 0)}
    [] a = 84 -> {SubsPcLr(4)}
    [] a = 88 -> {Mov(4, 170)}                                    \* fiq_handler
    [] a = 92 -> {SubsPcLr(4)}
    [] OTHER   -> {}]

FramesProgram == [a \in Address |->
  CASE a = VectorBase + Vector.RESET -> {Goto(a, 0)}
    [] a = VectorBase + Vector.UND   -> {MovsPcLr, Abort}
    [] a = VectorBase + Vector.SWI   -> {Goto(a, 40)}
    [] a = VectorBase + Vector.DABT  -> {SubsPcLr(8)}
    [] a = VectorBase + Vector.IRQ   -> {Goto(a, 56)}
    [] a = VectorBase + Vector.FIQ   -> {Goto(a, 88)}
    [] OTHER -> Main[a] \cup Handlers[a]]

FramesBoot == <<Goto(VectorBase, 0), Msr(FALSE, TRUE, FALSE, 0)>>

FramesStorage == {[r \in 0 .. 30 |-> IF r = 0 THEN 4 ELSE r]}
FramesStatus  == {[mode |-> USR, T |-> 0, F |-> 0, I |-> 0, E |-> 0, flags |-> 0]}
FramesMemory  == {[a \in Address |-> 0]}
=============================================================================
