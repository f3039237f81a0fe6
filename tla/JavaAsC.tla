-------------------------------- MODULE JavaAsC --------------------------------
(***************************************************************************)
(* The handlers of Main.java and those of vm.c side by side.  JavaHandlers *)
(* runs, and the Java state modulo 2^16 is read as a state of Lc3; what    *)
(* the condition register of vm.c would hold is not in the Java state (the *)
(* two call updateFlags after different handlers), so a history variable   *)
(* keeps it.                                                               *)
(***************************************************************************)
EXTENDS JavaHandlers

VARIABLE cond   \* registers[R_COND] of vm.c

twinVars == <<vars, cond>>

Words16 == [a \in DOMAIN memory |-> memory[a] % 65536]
Registers16 == [r \in Registers |-> IF r = R_COND THEN cond ELSE registers[r] % 65536]
Instruction16 == instruction % 65536
PhaseOfC == IF phase = "ended" THEN "done" ELSE phase
NoInput ==
  [tty |-> << >>, closed |-> FALSE, waits |-> TRUE, buf |-> << >>, eof |-> FALSE,
   taken |-> << >>]

C == INSTANCE Lc3 WITH
       Images <- {}, MaxKeys <- 0, MayHangup <- FALSE, Beyond <- {0},
       MaxStray <- 0, StdioBufSize <- 1,
       memory <- Words16, registers <- Registers16, phase <- PhaseOfC,
       instruction <- Instruction16, stdin <- NoInput, stdout <- << >>

(* The handlers of vm.c that call updateFlags(), RTI's and the traps' aside.  *)
SetsFlags == phase = "execute" /\ Opcode \in {OP_ADD, OP_NOT, OP_LD, OP_LEA}

TwinInit == Init /\ cond = C!FL_POS

TwinNext ==
  /\ Next
  /\ cond' = IF SetsFlags THEN C!FlagOf(registers'[DR] % 65536) ELSE cond

TwinSpec == TwinInit /\ [][TwinNext]_twinVars

FairTwinSpec == TwinSpec /\ WF_vars(Machine)

-------------------------------------------------------------------------------
(* Instructions the two sources give another meaning, and loads and stores of *)
(* addresses that are devices, or not in memory[], on the C machine only.     *)
Mapped == {C!MR_KBSR, C!MR_KBDR, C!MR_DSR, C!MR_DDR, 65535}
Addresses ==
  CASE phase = "fetch" -> {registers[R_PC]}
    [] phase = "execute" /\ Opcode \in {OP_LD, OP_ST} -> {PcRelative}
    [] phase = "execute" /\ Opcode = OP_LDI -> {PcRelative, Cell(PcRelative)}
    [] OTHER -> {}
Differs ==
  \/ phase = "execute" /\ (Opcode \in {OP_LDR, OP_STR, OP_STI, OP_TRAP}
                           \/ Opcode \notin 0 .. 15 \/ ByRegister)
  \/ Addresses \cap Mapped # {}

(* Although nothing wraps an int to 16 bits, ADD, AND, NOT, LD, LDI, LEA, ST, *)
(* BR and JSR do to the words of registers and memory what the C machine      *)
(* does, in every state reached by whatever instructions, unless they throw.  *)
SameAsC ==
  [][exception' = "none" /\ ~Differs => C!Emulate]_twinVars
===============================================================================
