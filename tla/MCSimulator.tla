----------------------------- MODULE MCSimulator -----------------------------
(***************************************************************************)
(* Instances of Simulator for TLC: the debugger sends a few requests, one  *)
(* or two bytes arrive at the irq port, and the program either ends with   *)
(* swi 0x123456 or, like Examples/demoIntteruption.s, loops for ever       *)
(* waiting for interrupts.                                                 *)
(***************************************************************************)
EXTENDS Simulator, Assembler

SimStorage == {[r \in 0 .. 30 |-> 1]}
SimStatus  == {[mode |-> USR, T |-> 0, F |-> 0, I |-> 0, E |-> 0, flags |-> 0]}
SimMemory  == {[a \in Address |-> 0]}

SimProgram(last) == [a \in Address |->
  CASE a = 0  -> {Dp("RSB", TRUE, 8, 8, NoReg, 0)}
    [] a = 4  -> {Msr(FALSE, TRUE, FALSE, USR)}
    [] a = 8  -> {Coproc}
    [] a = 12 -> {last}
    [] a = VectorBase + Vector.RESET -> {Goto(VectorBase, 0)}
    [] a = VectorBase + Vector.UND   -> {MovsPcLr}
    [] a = VectorBase + Vector.IRQ   -> {SubsPcLr(4)}
    [] OTHER -> {Halt}]

EndingProgram  == SimProgram(Halt)
LoopingProgram == SimProgram(Goto(12, 4))

Plain(letters) == {<<letter>> : letter \in letters}

(* Two X packets, of which one goes beyond the end of the memory and one   *)
(* has to be escaped; register 15 is "f", register 25 is "19".             *)
AllRequests ==
  Plain({"s", "c", "g", "G", "?", "k", "insert", "remove", "U"})
    \cup {<<"m", 46, 3>>, <<"X", 46, <<5, 7, 9>>>>, <<"X", 42, <<4, 5, 6>>>>,
          <<"p", 15>>, <<"p", 25>>, <<"P", 15, 8>>, <<"P", 25, 0>>,
          <<"q", "Supported">>, <<"H", "c", -1>>, <<"H", "g", 1>>}
LiveRequests == Plain({"s", "c", "k", "insert"}) \cup {<<"p", 25>>, <<"P", 15, 8>>}
=============================================================================
