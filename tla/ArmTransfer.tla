----------------------------- MODULE ArmTransfer -----------------------------
(***************************************************************************)
(* What programs rely on when they move registers to memory and back: the  *)
(* properties of the load and store instructions over several steps of     *)
(* the processor.  They are stated in every reachable state of ArmMachine  *)
(* about the instructions that could be executed there next, one after the *)
(* other.                                                                  *)
(***************************************************************************)
EXTENDS ArmMachine

CONSTANTS Lists,        \* register lists the properties are evaluated for
          Transfers     \* single loads and stores without write back

(* Kind 2 is ldrd, which may have loaded its first register when it aborts. *)
ASSUME TransferAssumption ==
  /\ Lists \subseteq SUBSET RegNumber
  /\ \A ins \in Transfers :
       /\ ins \in SingleInstr \cup MiscInstr
       /\ ins.p /\ ~ins.w
       /\ ins.op = "MISC" => ins.kind # 2

(* The memory consists of double words (memory_create(0x20000)) and the    *)
(* vectors are words of it (0x1000).                                       *)
ASSUME LayoutAssumption ==
  /\ MemSize % 8 = 0
  /\ VectorBase % 4 = 0 /\ VectorBase + 32 <= MemSize

Multiple(l, s, p, u, w, rn, list) ==
  [op |-> "LDM", cond |-> ALWAYS, l |-> l, s |-> s, p |-> p, u |-> u, w |-> w,
   rn |-> rn, list |-> list, junk |-> 0]

(* Every visible register but the program counter. *)
Visible(p) == [r \in 0 .. 14 |-> arm_read_register(p, r)]

Clobbered(p, list) ==
  [p EXCEPT !.storage = [r \in 0 .. 30 |->
     IF \E i \in list : registers(Mode(p), i) = r THEN 0 ELSE p.storage[r]]]

(* A push with each of the four stack disciplines and the matching pop     *)
(* give every register back, the stack pointer included, whatever was done *)
(* to the pushed registers in between, in every mode and byte order: the   *)
(* start and end addresses and the write back of arm_load_store_multiple   *)
(* agree between the forms that programs use together.                     *)
PushPopRestores ==
  \A list \in Lists, before \in BOOLEAN, up \in BOOLEAN :
    SP \notin list /\ PC \notin list =>
      LET push   == arm_load_store_multiple(core, mem,
                      Multiple(FALSE, FALSE, before, up, TRUE, SP, list))
          pop    == arm_load_store_multiple(Clobbered(push.core, list), push.mem,
                      Multiple(TRUE, FALSE, ~before, ~up, TRUE, SP, list))
      IN  push.process = "running" /\ push.result = NO_EXCEPTION =>
            /\ pop.process = "running"
            /\ pop.result = NO_EXCEPTION
            /\ Visible(pop.core) = Visible(core)

(* A supervisor saves and reloads the user registers with the S forms:     *)
(* the values of the user bank travel, and the bank of the current mode    *)
(* is left alone (stm2, ldm2).                                             *)
UserBankSaved ==
  \A list \in Lists :
    PC \notin list =>
      LET save   == arm_load_store_multiple(core, mem,
                      Multiple(FALSE, TRUE, TRUE, TRUE, FALSE, 0, list))
          wiped  == [save.core EXCEPT !.storage = [r \in 0 .. 30 |->
                       IF r \in list \ {0} THEN 0 ELSE save.core.storage[r]]]
          reload == arm_load_store_multiple(wiped, save.mem,
                      Multiple(TRUE, TRUE, TRUE, TRUE, FALSE, 0, list))
      IN  save.process = "running" /\ save.result = NO_EXCEPTION =>
            /\ reload.result = NO_EXCEPTION
            /\ reload.core = core

(* A load or store without write back that aborts can be restarted: the    *)
(* handler that returns with SUBS PC, LR, #8 fetches the same instruction  *)
(* again with the same registers, flags and masks (the LR written by       *)
(* handle_data_abort against the address and the state in which the        *)
(* instruction was fetched).                                               *)
AbortRestarts ==
  \A ins \in Transfers :
    ~FetchFails(core) =>
      LET o    == arm_step(core, mem, ins)
          back == arm_step(o.core, o.mem,
                    [op |-> "DP", cond |-> ALWAYS, s |-> TRUE, code |-> "SUB",
                     rd |-> PC, rn |-> LR, rm |-> NoReg, shift |-> LSL,
                     amount |-> 0, rs |-> NoReg, imm |-> 8, rotate |-> 0]).core
      IN  o.result = DATA_ABORT =>
            /\ FetchAddress(back) = FetchAddress(core)
            /\ back.cpsr = core.cpsr
            /\ Mode(core) # ABT => Visible(back) = Visible(core)
            /\ o.mem = mem

(* The assertions that close every multiple transfer hold                  *)
(* (assert(e_add == (address - 4)), arm_load_store.c:199, 217, 235, 253    *)
(* and 281): no program makes the simulator abort.                         *)
AssertsHold == process # "aborted"
=============================================================================
