---------------------------- MODULE ContextStack ----------------------------
(***************************************************************************)
(* What exceptions promise to a program: they nest like procedure calls.   *)
(* A context is all a program sees of the processor: its status register,  *)
(* the address of its next instruction and its registers.  An exception    *)
(* puts the running context away; a return brings back the one put away    *)
(* last, unchanged.                                                        *)
(***************************************************************************)
EXTENDS Sequences, SequencesExt, Integers

CONSTANT Following(_)     \* the address of the instruction after the one at _

VARIABLES now,      \* the running context
          stack     \* the contexts put away, the last one innermost

Privilege(context) ==
  <<context.psr.mode, context.psr.I, context.psr.F, context.psr.E>>

Init == /\ stack = <<>>
        /\ now.psr.I = 0 /\ now.psr.F = 0

(* Ordinary instructions change registers and flags. *)
Run == /\ Privilege(now') = Privilege(now)
       /\ stack' = stack

(* The context put away resumes at its next instruction, or after it when  *)
(* that instruction is the one that asked for the exception.               *)
Enter == /\ \E pc \in {now.pc, Following(now.pc)} :
              stack' = Append(stack, [now EXCEPT !.pc = pc])
         /\ now'.psr.I = 1

Resume == /\ stack # <<>>
          /\ now' = Last(stack)
          /\ stack' = Front(stack)

Next == Run \/ Enter \/ Resume

Spec == Init /\ [][Next]_<<now, stack>>
=============================================================================
