------------------------------ MODULE YavmProofs ------------------------------
(***************************************************************************)
(* What becomes of the terminal, and what the guest starts on, for every   *)
(* image, keyboard and moment a signal arrives at, over any number of runs *)
(* of the program.  For the terminal, the loader and the emulator matter   *)
(* only in what they leave alone; the second half of the module composes   *)
(* their invariants, which LoaderProofs and Lc3Proofs prove.               *)
(***************************************************************************)
EXTENDS Yavm, Integers, TLAPS

(* How the settings of the terminal, those saved and those found are related *)
(* at each stage of main() and of the signal handler.                        *)
SettingsInv ==
  /\ isatty \in BOOLEAN
  /\ original_tio \in {found, Zero}
  /\ tio \in {found, WithoutEcho(found), Zero}
  /\ stage \in {"main", "signal", "tcgetattr", "tcsetattr"} => tio = found
  /\ stage \in {"tcsetattr", "load", "emulate"} /\ isatty => original_tio = found
  /\ stage \in {"load", "emulate"} =>
       tio = IF isatty THEN WithoutEcho(found) ELSE found
  /\ stage = "restore" =>
       /\ tio \in {found, WithoutEcho(found)}
       /\ tio # found => original_tio = found
  /\ stage = "exit" /\ isatty => tio = original_tio

(* The handler is the default one only before it is installed.  What         *)
(* RunAgain leaves of stage is in Stages.                                    *)
StageInv ==
  /\ stage \in Stages
  /\ handler = "default" => stage \in {"main", "signal", "ended"}

Inv == SettingsInv /\ StageInv /\ TerminalAtExit

-------------------------------------------------------------------------------
(* A step that neither touches the terminal nor moves main() keeps Inv.      *)
LEMMA OtherVariables ==
  ASSUME Inv, UNCHANGED terminalVars, UNCHANGED <<stage, status>> PROVE Inv'
  BY DEF Inv, SettingsInv, StageInv, TerminalAtExit, terminalVars, WithoutEcho

(* A process ends without touching the terminal, at a stage that fits how.   *)
LEMMA Ending ==
  ASSUME Inv, UNCHANGED terminalVars, NEW how, End(how),
         \/ how \in {"usage", "killed"} /\ stage \in {"main", "signal"}
         \/ how \in {"returned", "wrong path"} /\ stage \in {"load", "emulate"}
         \/ how = "interrupted" /\ stage = "exit"
         \/ how = "terminated" /\ stage # "ended"
  PROVE  Inv'
  <1>1. stage' = "ended" /\ status' = how
    BY DEF End
  <1>2. /\ isatty' = isatty /\ tio' = tio /\ original_tio' = original_tio
        /\ found' = found /\ handler' = handler
    BY DEF terminalVars
  <1>3. SettingsInv' /\ StageInv'
    BY <1>1, <1>2 DEF Inv, SettingsInv, StageInv, Stages, WithoutEcho
  <1>4. TerminalAtExit'
    <2>1. CASE how \in {"usage", "killed"}
      BY <1>1, <1>2, <2>1 DEF TerminalAtExit, Inv, SettingsInv, WithoutEcho
    <2>2. CASE how \in {"returned", "wrong path"}
      BY <1>1, <1>2, <2>2 DEF TerminalAtExit, Inv, SettingsInv, WithoutEcho
    <2>3. CASE how = "interrupted"
      BY <1>1, <1>2, <2>3 DEF TerminalAtExit, Inv, SettingsInv, WithoutEcho
    <2>4. CASE how = "terminated"
      BY <1>1, <1>2, <2>4
      DEF TerminalAtExit, Inv, SettingsInv, StageInv, Stages, WithoutEcho
    <2> QED
      BY <2>1, <2>2, <2>3, <2>4
  <1> QED
    BY <1>3, <1>4 DEF Inv

LEMMA InitInv == Init => Inv
  BY DEF Init, Inv, SettingsInv, StageInv, Stages, TerminalAtExit, WithoutEcho

LEMMA NextInv == Inv /\ [Next]_vars => Inv'
  <1> SUFFICES ASSUME Inv, [Next]_vars PROVE Inv'
    OBVIOUS
  <1>1. CASE CheckArguments
    <2>1. CASE End("usage")
      BY <1>1, <2>1, Ending DEF CheckArguments
    <2>2. CASE stage' = "signal" /\ UNCHANGED status
      BY <1>1, <2>2
      DEF CheckArguments, terminalVars, Inv, SettingsInv, StageInv, Stages,
          TerminalAtExit, WithoutEcho
    <2> QED
      BY <1>1, <2>1, <2>2 DEF CheckArguments
  <1>2. CASE InstallHandler
    BY <1>2 DEF InstallHandler, Inv, SettingsInv, StageInv, Stages, TerminalAtExit,
                WithoutEcho
  <1>3. CASE SaveSettings
    BY <1>3 DEF SaveSettings, Inv, SettingsInv, StageInv, Stages, TerminalAtExit,
                WithoutEcho
  <1>4. CASE SetRaw
    BY <1>4 DEF SetRaw, Tcsetattr, Inv, SettingsInv, StageInv, Stages, TerminalAtExit, WithoutEcho
  <1>5. CASE LoadImage
    <2>1. CASE step' = "exit"
      BY <1>5, <2>1, Ending DEF LoadImage
    <2>2. CASE step' # "exit"
      BY <1>5, <2>2, OtherVariables DEF LoadImage
    <2> QED
      BY <2>1, <2>2
  <1>6. CASE EnterEmulate
    BY <1>6 DEF EnterEmulate, terminalVars, Inv, SettingsInv, StageInv, Stages,
                TerminalAtExit, WithoutEcho
  <1>7. CASE Run
    BY <1>7, OtherVariables DEF Run
  <1>8. CASE Return
    BY <1>8, Ending DEF Return
  <1>9. CASE Interrupt
    <2>1. CASE handler = "default"
      <3>1. stage \in {"main", "signal"} /\ End("killed")
        BY <1>9, <2>1 DEF Interrupt, Inv, StageInv
      <3> QED
        BY <1>9, <3>1, Ending DEF Interrupt
    <2>2. CASE handler # "default"
      BY <1>9, <2>2
      DEF Interrupt, terminalVars, Inv, SettingsInv, StageInv, Stages,
          TerminalAtExit, WithoutEcho
    <2> QED
      BY <2>1, <2>2
  <1>10. CASE Terminate
    BY <1>10, Ending DEF Terminate
  <1>11. CASE RestoreSettings
    BY <1>11 DEF RestoreSettings, Tcsetattr, Inv, SettingsInv, StageInv, Stages, TerminalAtExit,
                 WithoutEcho
  <1>12. CASE Exit
    BY <1>12, Ending DEF Exit
  <1>13. CASE Keyboard
    BY <1>13, OtherVariables DEF Keyboard
  <1>14. CASE RunAgain
    <2>1. /\ tio' = found' /\ isatty' \in BOOLEAN /\ original_tio' = Zero
          /\ handler' = "default" /\ stage' = "main"
      BY <1>14 DEF RunAgain
    <2> QED
      BY <2>1 DEF Inv, SettingsInv, StageInv, Stages, TerminalAtExit, WithoutEcho
  <1>15. CASE UNCHANGED vars
    BY <1>15, OtherVariables DEF vars
  <1> QED
    BY <1>1, <1>2, <1>3, <1>4, <1>5, <1>6, <1>7, <1>8, <1>9, <1>10, <1>11, <1>12,
       <1>13, <1>14, <1>15 DEF Next, Process

(* The settings, those found and those saved, and how the process ended, are *)
(* related as above after any number of runs and signals.                    *)
THEOREM Invariance == Spec => []Inv
  BY InitInv, NextInv, PTL DEF Spec

(* What each way of ending does to the terminal (see TerminalAtExit).        *)
THEOREM LeftAtExit == Spec => []TerminalAtExit
  <1>1. Inv => TerminalAtExit
    BY DEF Inv
  <1> QED
    BY <1>1, Invariance, PTL

(* As long as the process can still be interrupted, an interrupt would bring *)
(* back the settings it found (see RawIsRestorable).                         *)
THEOREM Restorable == Spec => []RawIsRestorable
  <1>1. Inv => RawIsRestorable
    BY DEF Inv, SettingsInv, StageInv, Stages, RawIsRestorable
  <1> QED
    BY <1>1, Invariance, PTL

(* Settings that are not the shell's stay so, whatever a run does            *)
(* (see NothingBringsItBack).                                                *)
THEOREM StaysRaw == Spec => []NothingBringsItBack
  <1>1. Inv => NothingBringsItBack
    BY DEF Inv, SettingsInv, WithoutEcho, NothingBringsItBack, Shell, Zero
  <1> QED
    BY <1>1, Invariance, PTL
-------------------------------------------------------------------------------
(* The loader and the emulator.  ImageProofs and EmulatorProofs are the       *)
(* instances Image and Emulator together with what is proved of them, and     *)
(* this section says that their definitions are the same.  No lemma about the *)
(* emulator that is used here depends on the images or on the twin.           *)
ImageProofs == INSTANCE LoaderProofs
EmulatorProofs == INSTANCE Lc3Proofs WITH Images <- {}, cond <- 0

LEMMA SameWidths ==
  /\ Image!Byte = ImageProofs!Byte /\ Emulator!Byte = EmulatorProofs!Byte
  /\ Image!Word = ImageProofs!Word /\ Emulator!Word = EmulatorProofs!Word
  /\ Image!Index = ImageProofs!Index /\ Emulator!Index = EmulatorProofs!Index
  /\ Image!Word = Emulator!Word /\ Image!Index = Emulator!Index
  BY
    DEF Image!Byte, ImageProofs!Byte, Emulator!Byte, EmulatorProofs!Byte, Image!UCHAR_MAX,
      ImageProofs!UCHAR_MAX, Emulator!UCHAR_MAX, EmulatorProofs!UCHAR_MAX, Image!Word,
      ImageProofs!Word, Emulator!Word, EmulatorProofs!Word, Image!UINT16_MAX,
      ImageProofs!UINT16_MAX, Emulator!UINT16_MAX, EmulatorProofs!UINT16_MAX,
      Image!Index, ImageProofs!Index, Emulator!Index, EmulatorProofs!Index

LEMMA LoaderAssumed == ImageProofs!LoaderAssumption
  BY YavmAssumption, SameWidths

LEMMA EmulatorAssumed ==
  EmulatorProofs!Lc3Assumption /\ EmulatorProofs!StdioBufSizeAssumption
  BY YavmAssumption, SameWidths

LEMMA SameLoader ==
  /\ Image!Init <=> ImageProofs!Init
  /\ Image!Next <=> ImageProofs!Next
  /\ Image!TypeOK <=> ImageProofs!TypeOK
  /\ Image!LocalsOK <=> ImageProofs!LocalsOK
  /\ Image!LoadedAsStored <=> ImageProofs!LoadedAsStored
  <1>1. Image!Init <=> ImageProofs!Init
    BY DEF Image!Init, ImageProofs!Init
  <1>2. Image!Next <=> ImageProofs!Next
    BY DEF Image!Next, ImageProofs!Next, Image!OpenFile, ImageProofs!OpenFile,
      Image!ReadOrigin, ImageProofs!ReadOrigin, Image!RawOrigin, ImageProofs!RawOrigin,
      Image!HostWord, ImageProofs!HostWord, Image!SwapBytes, ImageProofs!SwapBytes,
      Image!ReadWords, ImageProofs!ReadWords, Image!WordCells, ImageProofs!WordCells,
      Image!StrayCell, ImageProofs!StrayCell, Image!ItemsRead, ImageProofs!ItemsRead,
      Image!HasStray, ImageProofs!HasStray, Image!MaxRead, ImageProofs!MaxRead,
      Image!WordsInFile, ImageProofs!WordsInFile, Image!UINT16_MAX,
      ImageProofs!UINT16_MAX, Image!Last, ImageProofs!Last, Image!SwapNext,
      ImageProofs!SwapNext, Image!SwapDone, ImageProofs!SwapDone, Image!CloseFile,
      ImageProofs!CloseFile
  <1>3. /\ Image!LocalsOK <=> ImageProofs!LocalsOK
        /\ Image!TypeOK <=> ImageProofs!TypeOK
    BY SameWidths
    DEF Image!TypeOK, ImageProofs!TypeOK, Image!LocalsOK, ImageProofs!LocalsOK
  <1>4. Image!LoadedAsStored <=> ImageProofs!LoadedAsStored
    BY DEF Image!LoadedAsStored, ImageProofs!LoadedAsStored, Image!GuestWord,
      ImageProofs!GuestWord, Image!ItemsRead, ImageProofs!ItemsRead, Image!HasStray,
      ImageProofs!HasStray, Image!MaxRead, ImageProofs!MaxRead, Image!WordsInFile,
      ImageProofs!WordsInFile, Image!UINT16_MAX, ImageProofs!UINT16_MAX, Image!Last,
      ImageProofs!Last
  <1> QED
    BY <1>1, <1>2, <1>3, <1>4

(* Standard input and memory of the emulator, and the fields of an            *)
(* instruction.                                                               *)
LEMMA SameGetchar == \A s : Emulator!Getchar(s) = EmulatorProofs!Getchar(s)
  BY DEF Emulator!Getchar, EmulatorProofs!Getchar, Emulator!NothingToRead,
      EmulatorProofs!NothingToRead, Emulator!Give, EmulatorProofs!Give,
      Emulator!Refill, EmulatorProofs!Refill, Emulator!ReadCount,
      EmulatorProofs!ReadCount, Emulator!EOF, EmulatorProofs!EOF

LEMMA SameRead == \A a, s : Emulator!MemoryRead(a, s) = EmulatorProofs!MemoryRead(a, s)
  BY SameGetchar
  DEF Emulator!MemoryRead, EmulatorProofs!MemoryRead, Emulator!Readable,
      EmulatorProofs!Readable, Emulator!STATUS_BIT, EmulatorProofs!STATUS_BIT,
      Emulator!Cell, EmulatorProofs!Cell, Emulator!Behind, EmulatorProofs!Behind,
      Emulator!MR_KBSR, EmulatorProofs!MR_KBSR,
      Emulator!MR_KBDR, EmulatorProofs!MR_KBDR, Emulator!MR_DSR, EmulatorProofs!MR_DSR,
      Emulator!MR_DDR, EmulatorProofs!MR_DDR, Emulator!UINT16_MAX,
      EmulatorProofs!UINT16_MAX

LEMMA SameWrite ==
  \A a, v : Emulator!MemoryWrite(a, v) <=> EmulatorProofs!MemoryWrite(a, v)
  BY DEF Emulator!MemoryWrite, EmulatorProofs!MemoryWrite

LEMMA SameAssign ==
  \A r, v : /\ Emulator!Assign(r, v) <=> EmulatorProofs!Assign(r, v)
            /\ Emulator!AssignAndFlag(r, v) <=> EmulatorProofs!AssignAndFlag(r, v)
  BY DEF Emulator!Assign, EmulatorProofs!Assign, Emulator!AssignAndFlag,
      EmulatorProofs!AssignAndFlag, Emulator!FlagOf, EmulatorProofs!FlagOf,
      Emulator!R_COND, EmulatorProofs!R_COND, Emulator!FL_POS, EmulatorProofs!FL_POS,
      Emulator!FL_ZR, EmulatorProofs!FL_ZR, Emulator!FL_NEG, EmulatorProofs!FL_NEG

LEMMA SameFields ==
  /\ Emulator!DR = EmulatorProofs!DR /\ Emulator!SR1 = EmulatorProofs!SR1
  /\ Emulator!Operand2 = EmulatorProofs!Operand2
  /\ Emulator!PcRelative = EmulatorProofs!PcRelative
  /\ Emulator!BaseRelative = EmulatorProofs!BaseRelative
  <1>1. Emulator!DR = EmulatorProofs!DR /\ Emulator!SR1 = EmulatorProofs!SR1
    BY DEF Emulator!DR, EmulatorProofs!DR, Emulator!SR1, EmulatorProofs!SR1
  <1>2. Emulator!Operand2 = EmulatorProofs!Operand2
    BY DEF Emulator!Operand2, EmulatorProofs!Operand2, Emulator!ImmFlag,
      EmulatorProofs!ImmFlag, Emulator!Imm5, EmulatorProofs!Imm5, Emulator!SignExtend,
      EmulatorProofs!SignExtend, Emulator!SR2, EmulatorProofs!SR2
  <1>3. Emulator!PcRelative = EmulatorProofs!PcRelative
    BY DEF Emulator!PcRelative, EmulatorProofs!PcRelative, Emulator!PcOffset9,
      EmulatorProofs!PcOffset9, Emulator!SignExtend, EmulatorProofs!SignExtend,
      Emulator!Wrap, EmulatorProofs!Wrap, Emulator!R_PC, EmulatorProofs!R_PC
  <1>4. Emulator!BaseRelative = EmulatorProofs!BaseRelative
    BY DEF Emulator!BaseRelative, EmulatorProofs!BaseRelative, Emulator!Offset6,
      EmulatorProofs!Offset6, Emulator!SignExtend, EmulatorProofs!SignExtend,
      Emulator!Wrap, EmulatorProofs!Wrap, Emulator!SR1, EmulatorProofs!SR1
  <1> QED
    BY <1>1, <1>2, <1>3, <1>4

LEMMA SameExecute ==
  /\ \A op : Emulator!Execute(op) <=> EmulatorProofs!Execute(op)
  /\ \A v : Emulator!Trap(v) <=> EmulatorProofs!Trap(v)
  <1>1. \A op : Emulator!Execute(op) <=> EmulatorProofs!Execute(op)
    BY
    DEF Emulator!Execute, EmulatorProofs!Execute, Emulator!Opcode, EmulatorProofs!Opcode
  <1>2. \A v : Emulator!Trap(v) <=> EmulatorProofs!Trap(v)
    BY <1>1
    DEF Emulator!Trap, EmulatorProofs!Trap, Emulator!TrapVector, EmulatorProofs!TrapVector,
      Emulator!OP_TRAP, EmulatorProofs!OP_TRAP
  <1> QED
    BY <1>1, <1>2

(* The texts that PUTS and PUTSP write.                                       *)
LEMMA SameText ==
  /\ Emulator!Texts(registers[Emulator!R_R0])
       = EmulatorProofs!Texts(registers[EmulatorProofs!R_R0])
  /\ \A text : Emulator!LowBytes(text) = EmulatorProofs!LowBytes(text)
  /\ \A text : Emulator!PackedBytes(text) = EmulatorProofs!PackedBytes(text)
  <1>1. \A a : Emulator!Cell(a) = EmulatorProofs!Cell(a)
    BY DEF Emulator!Cell, EmulatorProofs!Cell
  <1>2. Emulator!UINT16_MAX = EmulatorProofs!UINT16_MAX
    BY DEF Emulator!UINT16_MAX, EmulatorProofs!UINT16_MAX
  <1>3. \A a : Emulator!TextLength(a) = EmulatorProofs!TextLength(a)
    BY <1>1, <1>2 DEF Emulator!TextLength, EmulatorProofs!TextLength
  <1>4. \A a : Emulator!Texts(a) = EmulatorProofs!Texts(a)
    BY <1>1, <1>2, <1>3
    DEF Emulator!Texts, EmulatorProofs!Texts, Emulator!Behind, EmulatorProofs!Behind
  <1>5. Emulator!R_R0 = EmulatorProofs!R_R0
    BY DEF Emulator!R_R0, EmulatorProofs!R_R0
  <1>6. \A text : Emulator!LowBytes(text) = EmulatorProofs!LowBytes(text)
    BY DEF Emulator!LowBytes, EmulatorProofs!LowBytes
  <1>7. \A s : Emulator!FlattenSeq(s) = EmulatorProofs!FlattenSeq(s)
    BY DEF Emulator!FlattenSeq, EmulatorProofs!FlattenSeq
  <1>8. \A text : Emulator!PackedBytes(text) = EmulatorProofs!PackedBytes(text)
    BY <1>7 DEF Emulator!PackedBytes, EmulatorProofs!PackedBytes
  <1> QED
    BY <1>4, <1>5, <1>6, <1>8

(* Every step of the emulator is one of EmulatorProofs.                       *)
LEMMA SameEmulator == Emulator!Emulate => EmulatorProofs!Emulate
  <1> SUFFICES ASSUME Emulator!Emulate PROVE EmulatorProofs!Emulate
    OBVIOUS
  <1>1. Emulator!Fetch => EmulatorProofs!Fetch
    BY SameRead, SameAssign
    DEF Emulator!Fetch, EmulatorProofs!Fetch, Emulator!Wrap, EmulatorProofs!Wrap,
      Emulator!R_PC, EmulatorProofs!R_PC
  <1>2. Emulator!LeaveLoop => EmulatorProofs!LeaveLoop
    BY DEF Emulator!LeaveLoop, EmulatorProofs!LeaveLoop
  <1>3. Emulator!Add => EmulatorProofs!Add
    BY SameFields, SameAssign, SameExecute
    DEF Emulator!Add, EmulatorProofs!Add, Emulator!OP_ADD, EmulatorProofs!OP_ADD,
      Emulator!Wrap, EmulatorProofs!Wrap
  <1>4. Emulator!And => EmulatorProofs!And
    BY SameFields, SameAssign, SameExecute
    DEF Emulator!And, EmulatorProofs!And, Emulator!OP_AND, EmulatorProofs!OP_AND,
      Emulator!BitAnd, EmulatorProofs!BitAnd, Emulator!And8, EmulatorProofs!And8,
      Emulator!And4, EmulatorProofs!And4, Emulator!And2, EmulatorProofs!And2
  <1>5. Emulator!Not => EmulatorProofs!Not
    BY SameFields, SameAssign, SameExecute
    DEF Emulator!Not, EmulatorProofs!Not, Emulator!OP_NOT, EmulatorProofs!OP_NOT,
      Emulator!BitNot, EmulatorProofs!BitNot
  <1>6. Emulator!Ld => EmulatorProofs!Ld
    BY SameRead, SameFields, SameAssign, SameExecute
    DEF Emulator!Ld, EmulatorProofs!Ld, Emulator!OP_LD, EmulatorProofs!OP_LD
  <1>7. Emulator!Ldi => EmulatorProofs!Ldi
    BY SameRead, SameFields, SameAssign, SameExecute
    DEF Emulator!Ldi, EmulatorProofs!Ldi, Emulator!OP_LDI, EmulatorProofs!OP_LDI
  <1>8. Emulator!Ldr => EmulatorProofs!Ldr
    BY SameRead, SameFields, SameAssign, SameExecute
    DEF Emulator!Ldr, EmulatorProofs!Ldr, Emulator!OP_LDR, EmulatorProofs!OP_LDR
  <1>9. Emulator!Lea => EmulatorProofs!Lea
    BY SameFields, SameAssign, SameExecute
    DEF Emulator!Lea, EmulatorProofs!Lea, Emulator!OP_LEA, EmulatorProofs!OP_LEA
  <1>10. Emulator!St => EmulatorProofs!St
    BY SameWrite, SameFields, SameExecute
    DEF Emulator!St, EmulatorProofs!St, Emulator!OP_ST, EmulatorProofs!OP_ST
  <1>11. Emulator!Sti => EmulatorProofs!Sti
    BY SameRead, SameWrite, SameFields, SameExecute
    DEF Emulator!Sti, EmulatorProofs!Sti, Emulator!OP_STI, EmulatorProofs!OP_STI
  <1>12. Emulator!Str => EmulatorProofs!Str
    BY SameWrite, SameFields, SameExecute
    DEF Emulator!Str, EmulatorProofs!Str, Emulator!OP_STR, EmulatorProofs!OP_STR
  <1>13. Emulator!Br => EmulatorProofs!Br
    BY SameFields, SameAssign, SameExecute
    DEF Emulator!Br, EmulatorProofs!Br, Emulator!OP_BR, EmulatorProofs!OP_BR,
      Emulator!R_PC, EmulatorProofs!R_PC
  <1>14. Emulator!Jmp => EmulatorProofs!Jmp
    BY SameAssign, SameExecute
    DEF Emulator!Jmp, EmulatorProofs!Jmp, Emulator!OP_JMP, EmulatorProofs!OP_JMP,
      Emulator!R_PC, EmulatorProofs!R_PC
  <1>15. Emulator!Jsr => EmulatorProofs!Jsr
    BY SameFields, SameExecute
    DEF Emulator!Jsr, EmulatorProofs!Jsr, Emulator!OP_JSR, EmulatorProofs!OP_JSR,
      Emulator!Linked, EmulatorProofs!Linked, Emulator!JsrTarget,
      EmulatorProofs!JsrTarget, Emulator!R_PC, EmulatorProofs!R_PC, Emulator!R_R7,
      EmulatorProofs!R_R7, Emulator!Wrap, EmulatorProofs!Wrap, Emulator!PcOffset11,
      EmulatorProofs!PcOffset11, Emulator!SignExtend, EmulatorProofs!SignExtend
  <1>16. Emulator!NoHandler => EmulatorProofs!NoHandler
    BY SameExecute DEF Emulator!NoHandler, EmulatorProofs!NoHandler, Emulator!OP_RTI,
      EmulatorProofs!OP_RTI, Emulator!OP_RES, EmulatorProofs!OP_RES
  <1>17. Emulator!TrapGetc => EmulatorProofs!TrapGetc
    BY SameGetchar, SameAssign, SameExecute
    DEF Emulator!TrapGetc, EmulatorProofs!TrapGetc, Emulator!TRAP_GETC,
      EmulatorProofs!TRAP_GETC, Emulator!R_R0, EmulatorProofs!R_R0
  <1>18. Emulator!TrapIn => EmulatorProofs!TrapIn
    BY SameGetchar, SameExecute
    DEF Emulator!TrapIn, EmulatorProofs!TrapIn, Emulator!TRAP_IN, EmulatorProofs!TRAP_IN,
      Emulator!Flush, EmulatorProofs!Flush, Emulator!PROMPT, EmulatorProofs!PROMPT
  <1>19. Emulator!TrapOut => EmulatorProofs!TrapOut
    BY SameExecute DEF Emulator!TrapOut, EmulatorProofs!TrapOut, Emulator!TRAP_OUT,
      EmulatorProofs!TRAP_OUT, Emulator!Flush, EmulatorProofs!Flush, Emulator!R_R0,
      EmulatorProofs!R_R0
  <1>20. Emulator!TrapHalt => EmulatorProofs!TrapHalt
    BY SameExecute DEF Emulator!TrapHalt, EmulatorProofs!TrapHalt, Emulator!TRAP_HALT,
      EmulatorProofs!TRAP_HALT, Emulator!Flush, EmulatorProofs!Flush, Emulator!HALTING,
      EmulatorProofs!HALTING
  <1>21. Emulator!TrapUnknown => EmulatorProofs!TrapUnknown
    BY SameExecute
    DEF Emulator!TrapUnknown, EmulatorProofs!TrapUnknown, Emulator!OP_TRAP,
      EmulatorProofs!OP_TRAP, Emulator!TrapVector, EmulatorProofs!TrapVector,
      Emulator!TRAP_GETC, EmulatorProofs!TRAP_GETC, Emulator!TRAP_HALT,
      EmulatorProofs!TRAP_HALT
  <1>22. Emulator!TrapPuts => EmulatorProofs!TrapPuts
    BY SameText, SameExecute
    DEF Emulator!TrapPuts, EmulatorProofs!TrapPuts, Emulator!TRAP_PUTS,
      EmulatorProofs!TRAP_PUTS, Emulator!Flush, EmulatorProofs!Flush
  <1>23. Emulator!TrapPutsp => EmulatorProofs!TrapPutsp
    BY SameText, SameExecute
    DEF Emulator!TrapPutsp, EmulatorProofs!TrapPutsp, Emulator!TRAP_PUTSP,
      EmulatorProofs!TRAP_PUTSP, Emulator!Flush, EmulatorProofs!Flush
  <1> QED
    BY <1>1, <1>2, <1>3, <1>4, <1>5, <1>6, <1>7, <1>8, <1>9, <1>10, <1>11, <1>12, <1>13,
       <1>14, <1>15, <1>16, <1>17, <1>18, <1>19, <1>20, <1>21, <1>22, <1>23
    DEF Emulator!Emulate, EmulatorProofs!Emulate, Emulator!Handler, EmulatorProofs!Handler

LEMMA SameUser == Emulator!User <=> EmulatorProofs!User
  BY DEF Emulator!User, EmulatorProofs!User, Emulator!Type, EmulatorProofs!Type,
      Emulator!Hangup, EmulatorProofs!Hangup, Emulator!Typed, EmulatorProofs!Typed,
      Emulator!Hungup, EmulatorProofs!Hungup, Emulator!Pending, EmulatorProofs!Pending

LEMMA SameTypes ==
  /\ Emulator!Registers = EmulatorProofs!Registers
  /\ Emulator!NewStdin = EmulatorProofs!NewStdin
  /\ Emulator!TypeOK <=> EmulatorProofs!TypeOK
  <1>1. Emulator!Registers = EmulatorProofs!Registers
    BY DEF Emulator!Registers, EmulatorProofs!Registers
  <1>2. Emulator!NewStdin = EmulatorProofs!NewStdin
    BY DEF Emulator!NewStdin, EmulatorProofs!NewStdin
  <1>3. Emulator!TypeOK <=> EmulatorProofs!TypeOK
    BY <1>1, SameWidths
    DEF Emulator!TypeOK, EmulatorProofs!TypeOK, Emulator!R_COND, EmulatorProofs!R_COND,
      Emulator!FL_POS, EmulatorProofs!FL_POS, Emulator!FL_ZR, EmulatorProofs!FL_ZR,
      Emulator!FL_NEG, EmulatorProofs!FL_NEG, Emulator!StdinType,
      EmulatorProofs!StdinType
  <1> QED
    BY <1>1, <1>2, <1>3

-------------------------------------------------------------------------------
(* Memory, registers and keyboard. *)

LEMMA InIndex == ASSUME NEW a PROVE a \in Image!Index <=> a \in Int /\ 0 <= a /\ a < 65535
  BY LoaderAssumed, ImageProofs!InIndex, SameWidths

ZeroRegisters == [r \in Emulator!Registers |-> 0]

(* What the emulator and the loader promise of the variables they share holds *)
(* throughout, and until emulate() is entered nothing has run.                *)
BeforeEmulate == {"main", "signal", "tcgetattr", "tcsetattr", "load"}
MachineInv ==
  /\ ImageProofs!LocalsOK
  /\ EmulatorProofs!Inv
  /\ stage \in BeforeEmulate =>
       /\ ImageProofs!Inv
       /\ registers = ZeroRegisters /\ phase = "fetch"
       /\ stdin.taken = << >> /\ stdout = << >>

(* Reads wait unless the terminal is zeroed, and an end of input was sent or  *)
(* is that of a run which found the terminal so.                              *)
ReadsInv ==
  /\ stdin.waits <=> ~(isatty /\ tio = Zero)
  /\ stdin.eof => stdin.closed \/ (isatty /\ found = Zero)

(* The values of the variables that Yavm adds.                                *)
ValuesInv ==
  /\ handler \in {"default", "handleInterrupt"}
  /\ found \in {Shell, Raw, Zero}
  /\ status \in Statuses

(* What the variables of a new process hold.                                  *)
Fresh ==
  /\ ImageProofs!Init
  /\ registers = ZeroRegisters /\ running = FALSE
  /\ phase = "fetch" /\ instruction = 0
  /\ stdin \in EmulatorProofs!StdinType /\ ~stdin.eof /\ stdin.taken = << >>
  /\ stdout = << >>

LEMMA LoaderInit == ImageProofs!Init => ImageProofs!Inv
  BY LoaderAssumed, ImageProofs!InitInv

LEMMA LoaderNext ==
  ImageProofs!Inv /\ [ImageProofs!Next]_(ImageProofs!vars) => ImageProofs!Inv'
  BY LoaderAssumed, ImageProofs!NextInv

LEMMA LoaderLoaded == ImageProofs!Inv => ImageProofs!LoadedAsStored
  BY LoaderAssumed, ImageProofs!InvLoaded

LEMMA EmulatorNext ==
  ASSUME EmulatorProofs!Inv, [EmulatorProofs!Next]_(EmulatorProofs!vars)
  PROVE  EmulatorProofs!KeysStep /\ EmulatorProofs!Inv'
  BY EmulatorAssumed, EmulatorProofs!NextStep DEF EmulatorProofs!KeysStep

(* A process starts with an empty memory[], registers of 0 and no input.      *)
LEMMA FreshMachine == Fresh => MachineInv
  <1> SUFFICES ASSUME Fresh PROVE MachineInv
    OBVIOUS
  <1>1. ImageProofs!Inv /\ ImageProofs!LocalsOK
    BY LoaderInit DEF Fresh, ImageProofs!Inv, ImageProofs!TypeOK
  <1>2. 0 \in EmulatorProofs!Word
    BY DEF EmulatorProofs!Word, EmulatorProofs!UINT16_MAX
  <1>3. /\ registers \in [EmulatorProofs!Registers -> EmulatorProofs!Word]
        /\ registers[EmulatorProofs!R_COND] = 0
    BY <1>2, SameTypes
    DEF Fresh, ZeroRegisters, EmulatorProofs!Registers, EmulatorProofs!R_COND
  <1>4. /\ stdin \in EmulatorProofs!StdinType
        /\ ~stdin.eof /\ stdin.taken = << >>
    BY DEF Fresh
  <1>5. DOMAIN memory = {}
    BY DEF Fresh, ImageProofs!Init
  <1>6. EmulatorProofs!Inv
    BY <1>2, <1>3, <1>4, <1>5
    DEF Fresh, EmulatorProofs!Inv, EmulatorProofs!TypeOK,
        EmulatorProofs!EndOfInputIsLast, EmulatorProofs!FL_POS
  <1> QED
    BY <1>1, <1>4, <1>6 DEF Fresh, MachineInv

LEMMA IndexIsWord == Emulator!Index \subseteq EmulatorProofs!Word
  <1>1. ASSUME NEW a \in Image!Index PROVE a \in EmulatorProofs!Word
    <2>1. a \in Int /\ 0 <= a /\ a < 65535
      BY InIndex
    <2> QED
      BY <2>1, EmulatorAssumed, EmulatorProofs!InWord
  <1> QED
    BY <1>1, SameWidths

LEMMA FreshMachineNext == Fresh' => MachineInv'
  BY FreshMachine, PTL

(* A step that leaves the loader and the emulator alone and does not go back. *)
LEMMA MachineUntouched ==
  ASSUME MachineInv, UNCHANGED <<loaderVars, memory, emulatorVars, stdin>>,
         stage' \in BeforeEmulate => stage \in BeforeEmulate
  PROVE  MachineInv'
  <1>1. UNCHANGED ImageProofs!vars
    BY DEF ImageProofs!vars, loaderVars
  <1>2. UNCHANGED EmulatorProofs!vars
    BY DEF EmulatorProofs!vars, emulatorVars
  <1>3. ImageProofs!LocalsOK'
    BY <1>1 DEF MachineInv, ImageProofs!LocalsOK, ImageProofs!vars
  <1>4. EmulatorProofs!Inv'
    BY <1>2, EmulatorNext DEF MachineInv
  <1>5. ASSUME stage \in BeforeEmulate PROVE ImageProofs!Inv'
    BY <1>1, <1>5, LoaderNext DEF MachineInv
  <1> QED
    BY <1>3, <1>4, <1>5 DEF MachineInv, emulatorVars

(* tcsetattr() changes no more than whether reads wait, and lets none wait    *)
(* that did not.                                                              *)
LEMMA SettingsOnlyStopWaits ==
  ASSUME ReadsInv, Inv, SetRaw \/ RestoreSettings
  PROVE  stdin'.waits => stdin.waits
  <1>1. CASE isatty /\ tio = Zero
    <2>1. found = Zero
      BY <1>1 DEF Inv, SettingsInv, WithoutEcho, SetRaw, RestoreSettings, Shell, Raw, Zero
    <2>2. original_tio = Zero
      BY <2>1 DEF Inv, SettingsInv
    <2>3. WithoutEcho(original_tio) = Zero
      BY <2>2 DEF WithoutEcho, Shell, Zero
    <2>4. stdin' = [stdin EXCEPT !.waits = FALSE]
      BY <1>1, <2>2, <2>3 DEF SetRaw, RestoreSettings, Tcsetattr
    <2> QED
      BY <1>1, <2>4 DEF ReadsInv
  <1> QED
    BY <1>1 DEF ReadsInv

LEMMA MachineReset ==
  ASSUME MachineInv, UNCHANGED <<loaderVars, memory, emulatorVars>>,
         stdin' = stdin \/ \E w \in BOOLEAN : stdin' = [stdin EXCEPT !.waits = w],
         stdin'.waits => stdin.waits,
         stage' \in BeforeEmulate => stage \in BeforeEmulate
  PROVE  MachineInv'
  <1>1. stdin \in EmulatorProofs!StdinType
    BY DEF MachineInv, EmulatorProofs!Inv, EmulatorProofs!TypeOK
  <1>2. /\ stdin' \in EmulatorProofs!StdinType
        /\ stdin'.eof = stdin.eof /\ stdin'.closed = stdin.closed
        /\ stdin'.tty = stdin.tty /\ stdin'.buf = stdin.buf
        /\ stdin'.taken = stdin.taken
    BY <1>1 DEF EmulatorProofs!StdinType
  <1>3. EmulatorProofs!Inv'
    BY <1>2 DEF MachineInv, EmulatorProofs!Inv, EmulatorProofs!TypeOK, emulatorVars,
                EmulatorProofs!EndOfInputIsLast, EmulatorProofs!Pending
  <1>4. ImageProofs!LocalsOK' /\ UNCHANGED ImageProofs!vars
    BY DEF loaderVars, MachineInv, ImageProofs!LocalsOK, ImageProofs!vars
  <1>5. ASSUME stage \in BeforeEmulate PROVE ImageProofs!Inv'
    BY <1>4, <1>5, LoaderNext DEF MachineInv
  <1> QED
    BY <1>2, <1>3, <1>4, <1>5 DEF MachineInv, emulatorVars

LEMMA MachineNext == ASSUME MachineInv, ReadsInv, Inv, Next PROVE MachineInv'
  <1>1. CASE LoadImage
    <2>1. ImageProofs!Inv /\ ImageProofs!Next
      BY <1>1, SameLoader DEF LoadImage, MachineInv, BeforeEmulate
    <2>2. ImageProofs!Inv' /\ ImageProofs!TypeOK' /\ ImageProofs!LocalsOK'
      BY <2>1, LoaderNext DEF ImageProofs!Inv, ImageProofs!TypeOK
    <2>3. EmulatorProofs!Inv'
      <3>1. /\ DOMAIN memory' \subseteq Emulator!Index
            /\ \A a \in DOMAIN memory' : memory'[a] \in EmulatorProofs!Word
        BY <2>2, SameWidths DEF ImageProofs!TypeOK
      <3> QED
        BY <1>1, <3>1, IndexIsWord
        DEF LoadImage, emulatorVars, MachineInv, EmulatorProofs!Inv,
            EmulatorProofs!TypeOK, EmulatorProofs!EndOfInputIsLast
    <2> QED
      BY <1>1, <2>2, <2>3 DEF LoadImage, emulatorVars, MachineInv, BeforeEmulate
  <1>2. CASE EnterEmulate
    <2>1. Emulator!StartAddr \in EmulatorProofs!Word
      BY DEF Emulator!StartAddr, EmulatorProofs!Word, EmulatorProofs!UINT16_MAX
    <2>2. registers' = [registers EXCEPT ![Emulator!R_PC] = Emulator!StartAddr]
      BY <1>2 DEF EnterEmulate
    <2>3. /\ registers \in [EmulatorProofs!Registers -> EmulatorProofs!Word]
          /\ registers[EmulatorProofs!R_COND]
               \in {EmulatorProofs!FL_POS, EmulatorProofs!FL_ZR, EmulatorProofs!FL_NEG}
      BY DEF MachineInv, EmulatorProofs!Inv, EmulatorProofs!TypeOK
    <2>4. /\ registers' \in [EmulatorProofs!Registers -> EmulatorProofs!Word]
          /\ registers'[EmulatorProofs!R_COND] = registers[EmulatorProofs!R_COND]
      BY <2>1, <2>2, <2>3
      DEF Emulator!R_PC, EmulatorProofs!R_COND, EmulatorProofs!Registers
    <2>5. EmulatorProofs!Inv'
      BY <1>2, <2>3, <2>4
      DEF EnterEmulate, MachineInv, EmulatorProofs!Inv, EmulatorProofs!TypeOK,
          EmulatorProofs!EndOfInputIsLast
    <2>6. ImageProofs!LocalsOK'
      BY <1>2 DEF EnterEmulate, loaderVars, MachineInv, ImageProofs!LocalsOK
    <2> QED
      BY <1>2, <2>5, <2>6 DEF EnterEmulate, MachineInv, BeforeEmulate
  <1>3. CASE Run
    <2>1. EmulatorProofs!Emulate
      BY <1>3, SameEmulator DEF Run
    <2>2. EmulatorProofs!Inv'
      BY <2>1, EmulatorNext DEF MachineInv, EmulatorProofs!Next
    <2>3. ImageProofs!LocalsOK'
      BY <1>3 DEF Run, loaderVars, MachineInv, ImageProofs!LocalsOK
    <2> QED
      BY <1>3, <2>2, <2>3 DEF Run, MachineInv, BeforeEmulate
  <1>4. CASE Keyboard
    <2>1. EmulatorProofs!User
      BY <1>4, SameUser DEF Keyboard
    <2>2. EmulatorProofs!Inv'
      BY <2>1, EmulatorNext DEF MachineInv, EmulatorProofs!Next
    <2>3. /\ UNCHANGED <<memory, registers, phase, stdout>>
          /\ stdin'.taken = stdin.taken
      <3>1. stdin \in EmulatorProofs!StdinType
        BY DEF MachineInv, EmulatorProofs!Inv, EmulatorProofs!TypeOK
      <3> QED
        BY <2>1, <3>1
        DEF EmulatorProofs!User, EmulatorProofs!Type, EmulatorProofs!Hangup,
            EmulatorProofs!Typed, EmulatorProofs!Hungup, EmulatorProofs!StdinType
    <2>4. UNCHANGED ImageProofs!vars
      BY <1>4, <2>3 DEF Keyboard, loaderVars, ImageProofs!vars
    <2>5. ImageProofs!LocalsOK'
      BY <2>4 DEF MachineInv, ImageProofs!LocalsOK, ImageProofs!vars
    <2>6. ASSUME stage \in BeforeEmulate PROVE ImageProofs!Inv'
      BY <2>4, <2>6, LoaderNext DEF MachineInv
    <2> QED
      BY <1>4, <2>2, <2>3, <2>5, <2>6 DEF Keyboard, MachineInv
  <1>5. CASE RunAgain
    <2>1. /\ stdin' \in EmulatorProofs!StdinType
          /\ ~stdin'.eof /\ stdin'.taken = << >>
      <3> DEFINE waits == ~(isatty' /\ tio' = Zero)
      <3>1. waits \in BOOLEAN
        OBVIOUS
      <3>2. stdin' = [Emulator!NewStdin EXCEPT !.waits = waits]
        BY <1>5 DEF RunAgain
      <3> HIDE DEF waits
      <3>3. /\ Emulator!NewStdin.tty = << >> /\ Emulator!NewStdin.buf = << >>
            /\ Emulator!NewStdin.taken = << >>
            /\ Emulator!NewStdin.closed = FALSE /\ Emulator!NewStdin.eof = FALSE
            /\ Emulator!NewStdin \in EmulatorProofs!StdinType
        BY DEF Emulator!NewStdin, EmulatorProofs!StdinType
      <3>4. stdin' \in EmulatorProofs!StdinType
        BY <3>1, <3>2, <3>3 DEF EmulatorProofs!StdinType
      <3> QED
        BY <3>2, <3>3, <3>4 DEF EmulatorProofs!StdinType
    <2>2. Fresh'
      BY <1>5, <2>1
      DEF RunAgain, Fresh, ImageProofs!Init, ZeroRegisters, Emulator!Registers
    <2> QED
      BY <2>2, FreshMachineNext
  <1>6. CASE CheckArguments \/ InstallHandler \/ SaveSettings
    BY <1>6, MachineUntouched
    DEF CheckArguments, InstallHandler, SaveSettings, End, BeforeEmulate
  <1>7. CASE Return \/ Interrupt \/ Terminate \/ Exit
    BY <1>7, MachineUntouched DEF Return, Interrupt, Terminate, Exit, End, BeforeEmulate
  <1>8. CASE SetRaw \/ RestoreSettings
    <2>1. stdin'.waits => stdin.waits
      BY <1>8, SettingsOnlyStopWaits DEF ReadsInv
    <2> QED
      BY <1>8, <2>1, MachineReset
      DEF SetRaw, RestoreSettings, Tcsetattr, BeforeEmulate
  <1> QED
    BY <1>1, <1>2, <1>3, <1>4, <1>5, <1>6, <1>7, <1>8 DEF Next, Process

(* Whether reads wait follows the settings, and only a terminal found zeroed  *)
(* ends an input that is open.                                                *)
LEMMA ReadsNext == ASSUME ReadsInv, MachineInv, Inv, Next PROVE ReadsInv'
  <1>1. CASE Run \/ Keyboard
    <2>1. EmulatorProofs!KeysStep
      BY <1>1, SameEmulator, SameUser, EmulatorNext
      DEF Run, Keyboard, MachineInv, EmulatorProofs!Next
    <2>2. UNCHANGED <<isatty, tio, found>>
      BY <1>1 DEF Run, Keyboard, terminalVars
    <2>3. ~stdin.waits /\ stage = "emulate" => isatty /\ found = Zero
      BY DEF ReadsInv, Inv, SettingsInv, WithoutEcho, Shell, Raw, Zero
    <2>4. CASE [EmulatorProofs!KQ!Next]_(EmulatorProofs!KQ!vars)
      <3>1. /\ stdin'.eof => stdin.eof \/ stdin.closed
            /\ stdin.closed => stdin'.closed
        BY <2>4
        DEF EmulatorProofs!KQ!Next, EmulatorProofs!KQ!vars, EmulatorProofs!KQ!Arrive,
            EmulatorProofs!KQ!Close, EmulatorProofs!KQ!Receive,
            EmulatorProofs!KQ!ReportEnd
      <3> QED
        BY <2>1, <2>2, <3>1 DEF EmulatorProofs!KeysStep, ReadsInv
    <2>5. CASE Run /\ EmulatorProofs!EarlyEnd
      BY <2>1, <2>2, <2>3, <2>5
      DEF Run, EmulatorProofs!EarlyEnd, EmulatorProofs!KeysStep, ReadsInv
    <2>6. CASE Keyboard
      <3>1. stdin'.eof = stdin.eof /\ (stdin.closed => stdin'.closed)
        <4>1. stdin \in EmulatorProofs!StdinType
          BY DEF MachineInv, EmulatorProofs!Inv, EmulatorProofs!TypeOK
        <4> QED
          BY <2>6, <4>1, SameUser
          DEF Keyboard, EmulatorProofs!User, EmulatorProofs!Type, EmulatorProofs!Hangup,
              EmulatorProofs!Typed, EmulatorProofs!Hungup, EmulatorProofs!StdinType
      <3> QED
        BY <2>1, <2>2, <3>1 DEF EmulatorProofs!KeysStep, ReadsInv
    <2> QED
      BY <1>1, <2>1, <2>4, <2>5, <2>6 DEF EmulatorProofs!KeysStep
  <1>2. CASE SetRaw \/ RestoreSettings
    <2>1. stdin \in EmulatorProofs!StdinType
      BY DEF MachineInv, EmulatorProofs!Inv, EmulatorProofs!TypeOK
    <2>2. PICK settings : Tcsetattr(settings) /\ UNCHANGED <<isatty, found>>
      BY <1>2 DEF SetRaw, RestoreSettings
    <2>3. CASE isatty
      <3>1. /\ stdin'.eof = stdin.eof /\ stdin'.closed = stdin.closed
            /\ stdin'.waits <=> settings # Zero
            /\ tio' = settings
        BY <2>1, <2>2, <2>3 DEF Tcsetattr, EmulatorProofs!StdinType
      <3> QED
        BY <2>2, <2>3, <3>1 DEF ReadsInv
    <2>4. CASE ~isatty
      BY <2>2, <2>4 DEF Tcsetattr, ReadsInv
    <2> QED
      BY <2>3, <2>4
  <1>3. CASE RunAgain
    BY <1>3 DEF RunAgain, Emulator!NewStdin, ReadsInv
  <1>4. CASE UNCHANGED <<stdin, isatty, tio, found>>
    BY <1>4 DEF ReadsInv
  <1> QED
    BY <1>1, <1>2, <1>3, <1>4
    DEF Next, Process, CheckArguments, InstallHandler, SaveSettings, LoadImage,
        EnterEmulate, Return, Interrupt, Terminate, Exit, terminalVars

LEMMA ValuesNext == ASSUME ValuesInv, Inv, Next PROVE ValuesInv'
  <1>1. CASE RunAgain
    <2>1. tio \in {Shell, Raw, Zero}
      BY DEF ValuesInv, Inv, SettingsInv, WithoutEcho
    <2> QED
      BY <1>1, <2>1 DEF RunAgain, ValuesInv, Statuses
  <1>2. CASE ~RunAgain
    BY <1>2
    DEF Next, Process, CheckArguments, InstallHandler, SaveSettings, SetRaw, LoadImage,
        EnterEmulate, Run, Return, Interrupt, Terminate, Keyboard, RestoreSettings, Exit,
        End, terminalVars, ValuesInv, Statuses
  <1> QED
    BY <1>1, <1>2

LEMMA MachineInvariance == Spec => [](MachineInv /\ ReadsInv /\ ValuesInv)
  <1>1. Init => MachineInv /\ ReadsInv /\ ValuesInv
    <2> SUFFICES ASSUME Init PROVE MachineInv /\ ReadsInv /\ ValuesInv
      OBVIOUS
    <2>1. Fresh
      BY SameLoader
      DEF Init, Fresh, ZeroRegisters, Emulator!NewStdin, EmulatorProofs!StdinType
    <2>2. ReadsInv
      BY DEF Init, ReadsInv, Emulator!NewStdin, Shell, Zero
    <2> QED
      BY <2>1, <2>2, FreshMachine DEF Init, ValuesInv, Statuses
  <1>2. MachineInv /\ ReadsInv /\ ValuesInv /\ Inv /\ [Next]_vars =>
          (MachineInv /\ ReadsInv /\ ValuesInv)'
    <2> SUFFICES ASSUME MachineInv, ReadsInv, ValuesInv, Inv, [Next]_vars
                 PROVE  MachineInv' /\ ReadsInv' /\ ValuesInv'
      OBVIOUS
    <2>1. CASE Next
      BY <2>1, MachineNext, ReadsNext, ValuesNext
    <2>2. CASE UNCHANGED vars
      BY <2>2, MachineUntouched DEF vars, terminalVars, ValuesInv, ReadsInv
    <2> QED
      BY <2>1, <2>2
  <1> QED
    BY <1>1, <1>2, Invariance, PTL DEF Spec

(* Memory, registers and keyboard keep the types of Loader and of Lc3 at      *)
(* every moment of the process, and the settings are ones a terminal had.     *)
THEOREM TypeCorrect == Spec => []TypeOK
  <1>1. MachineInv /\ ValuesInv /\ Inv => TypeOK
    <2> SUFFICES ASSUME MachineInv, ValuesInv, Inv PROVE TypeOK
      OBVIOUS
    <2>1. Image!LocalsOK /\ Emulator!TypeOK
      BY SameLoader, SameTypes DEF MachineInv, EmulatorProofs!Inv
    <2>3. stage \in BeforeEmulate => Image!TypeOK
      BY SameLoader DEF MachineInv, ImageProofs!Inv
    <2>2. {tio, original_tio, found} \subseteq {Shell, Raw, Zero}
      BY DEF ValuesInv, Inv, SettingsInv, WithoutEcho
    <2> QED
      BY <2>1, <2>2, <2>3 DEF TypeOK, ValuesInv, Inv, StageInv, BeforeEmulate
  <1> QED
    BY <1>1, Invariance, MachineInvariance, PTL

(* emulate() is entered with the image as the file states it, registers of 0  *)
(* but for the program counter, and no key taken and nothing written.         *)
THEOREM StartsClean == Spec => GuestStartsClean
  <1>1. MachineInv /\ [Next]_vars =>
          [stage # "emulate" /\ stage' = "emulate" =>
             /\ Image!LoadedAsStored
             /\ \A r \in Emulator!Registers :
                  registers'[r] = IF r = Emulator!R_PC THEN 12288 ELSE 0
             /\ stdin.taken = << >> /\ stdout = << >>]_vars
    <2> SUFFICES ASSUME MachineInv, Next, stage # "emulate", stage' = "emulate"
                 PROVE  /\ Image!LoadedAsStored
                        /\ \A r \in Emulator!Registers :
                             registers'[r] = IF r = Emulator!R_PC THEN 12288 ELSE 0
                        /\ stdin.taken = << >> /\ stdout = << >>
      BY DEF vars
    <2>1. EnterEmulate
      BY DEF Next, Process, CheckArguments, InstallHandler, SaveSettings, SetRaw,
             LoadImage, Run, Return, Interrupt, Terminate, Keyboard, RestoreSettings,
             Exit, RunAgain, End
    <2>2. /\ ImageProofs!Inv /\ registers = ZeroRegisters
          /\ stdin.taken = << >> /\ stdout = << >>
      BY <2>1 DEF EnterEmulate, MachineInv, BeforeEmulate
    <2>3. Image!LoadedAsStored
      BY <2>2, LoaderLoaded, SameLoader
    <2>4. registers' = [registers EXCEPT ![Emulator!R_PC] = Emulator!StartAddr]
      BY <2>1 DEF EnterEmulate
    <2> QED
      BY <2>2, <2>3, <2>4 DEF ZeroRegisters, Emulator!StartAddr
  <1> QED
    BY <1>1, MachineInvariance, PTL DEF Spec, GuestStartsClean

LEMMA SameQueue ==
  [EmulatorProofs!KQ!Next]_(EmulatorProofs!KQ!vars) <=> [Emulator!KQ!Next]_(Emulator!KQ!vars)
  BY DEF EmulatorProofs!KQ!Next, Emulator!KQ!Next, EmulatorProofs!KQ!vars, Emulator!KQ!vars,
    EmulatorProofs!KQ!Arrive, Emulator!KQ!Arrive, EmulatorProofs!KQ!Close, Emulator!KQ!Close,
    EmulatorProofs!KQ!Receive, Emulator!KQ!Receive, EmulatorProofs!KQ!ReportEnd,
    Emulator!KQ!ReportEnd, EmulatorProofs!Pending, Emulator!Pending

(* An end of input that nobody sent is reported only in a run that found the  *)
(* terminal zeroed, however many runs and signals came before.                *)
THEOREM EndsAreSent == Spec => []FalseEndOfInput
  <1>1. ReadsInv => FalseEndOfInput
    BY DEF ReadsInv, FalseEndOfInput
  <1> QED
    BY <1>1, MachineInvariance, PTL

(* A step that reports the end of an input which may go on: the run found the *)
(* terminal zeroed, and no key is taken, lost or moved.                       *)
ZeroedEnd ==
  /\ isatty /\ found = Zero
  /\ UNCHANGED <<Emulator!Pending(stdin), stdin.taken, stdin.closed>>

(* The keyboard path of the process is the queue that KeyQueue describes,     *)
(* whatever the loader, the guest and the signals do: a run starts with an    *)
(* empty one, and only another run may start anew.  The exception is a run    *)
(* that found the terminal zeroed, where the end of the input may be reported *)
(* early; its keys, too, are handed over in order, none lost or repeated.     *)
THEOREM EachRunIsAQueue ==
  Spec => /\ Emulator!KQ!Init
          /\ [][\/ [Emulator!KQ!Next]_(Emulator!KQ!vars)
                \/ ZeroedEnd
                \/ RunAgain /\ Emulator!KQ!Init']_vars
  <1>1. Init => Emulator!KQ!Init
    BY DEF Init, Emulator!NewStdin, Emulator!Pending, Emulator!KQ!Init
  <1>2. MachineInv /\ ReadsInv /\ Inv /\ [Next]_vars =>
          [\/ [Emulator!KQ!Next]_(Emulator!KQ!vars)
           \/ ZeroedEnd
           \/ RunAgain /\ Emulator!KQ!Init']_vars
    <2> SUFFICES ASSUME MachineInv, ReadsInv, Inv, Next
                 PROVE  \/ [Emulator!KQ!Next]_(Emulator!KQ!vars)
                        \/ ZeroedEnd
                        \/ RunAgain /\ Emulator!KQ!Init'
      OBVIOUS
    <2>1. CASE Run
      <3>1. EmulatorProofs!KeysStep
        BY <2>1, SameEmulator, EmulatorNext DEF Run, MachineInv, EmulatorProofs!Next
      <3>2. CASE EmulatorProofs!EarlyEnd
        <4>1. isatty /\ found = Zero
          BY <2>1, <3>2
          DEF Run, EmulatorProofs!EarlyEnd, ReadsInv, Inv, SettingsInv, WithoutEcho,
              Shell, Raw, Zero
        <4> QED
          BY <3>2, <4>1
          DEF ZeroedEnd, EmulatorProofs!EarlyEnd, EmulatorProofs!Pending, Emulator!Pending
      <3> QED
        BY <3>1, <3>2, SameQueue DEF EmulatorProofs!KeysStep
    <2>4. CASE Keyboard
      <3>1. (\E k \in Keys : EmulatorProofs!Type(k)) \/ EmulatorProofs!Hangup
        BY <2>4, SameUser DEF Keyboard, EmulatorProofs!User
      <3>2. ASSUME NEW k \in Keys, EmulatorProofs!Type(k)
            PROVE  EmulatorProofs!KQ!Arrive(k)
        BY <3>2, EmulatorAssumed, EmulatorProofs!TypeStep
        DEF MachineInv, EmulatorProofs!KQ!Arrive, EmulatorProofs!Type
      <3>3. ASSUME EmulatorProofs!Hangup PROVE EmulatorProofs!KQ!Close
        BY <3>3, EmulatorAssumed, EmulatorProofs!HangupStep
        DEF MachineInv, EmulatorProofs!KQ!Close
      <3> QED
        BY <3>1, <3>2, <3>3, SameQueue DEF EmulatorProofs!KQ!Next
    <2>2. CASE RunAgain
      BY <2>2 DEF RunAgain, Emulator!NewStdin, Emulator!Pending, Emulator!KQ!Init
    <2>3. CASE stdin' = stdin
      BY <2>3 DEF Emulator!KQ!vars, Emulator!Pending
    <2>5. CASE SetRaw \/ RestoreSettings
      <3>1. stdin \in EmulatorProofs!StdinType
        BY DEF MachineInv, EmulatorProofs!Inv, EmulatorProofs!TypeOK
      <3> QED
        BY <2>5, <3>1
        DEF SetRaw, RestoreSettings, Tcsetattr, EmulatorProofs!StdinType,
            Emulator!KQ!vars, Emulator!Pending
    <2> QED
      BY <2>1, <2>2, <2>3, <2>4, <2>5
      DEF Next, Process, CheckArguments, InstallHandler, SaveSettings, LoadImage,
          EnterEmulate, Return, Interrupt, Terminate, Exit
  <1> QED
    BY <1>1, <1>2, Invariance, MachineInvariance, PTL DEF Spec

-------------------------------------------------------------------------------
(* The text of a printing image, from its file to standard output. *)

TextTraps == {Emulator!TRAP_PUTS, Emulator!TRAP_PUTSP}
FileText(n) == [i \in 1 .. n |-> TextWord(file, i)]

(* The emulator is somewhere in the guest of the file, whose text is there.   *)
TextInMemory(trap, n) ==
  EmulatorProofs!PrintInv(trap, n) /\ EmulatorProofs!GuestText(n) = FileText(n)

TextInv ==
  /\ status # "none" => stage = "ended"
  /\ status = "returned" => phase = "done"
  /\ stage = "emulate" \/ status = "returned" =>
       /\ file \in Files
       /\ \A trap \in TextTraps, n \in Nat :
            HoldsText(file, trap, n) => TextInMemory(trap, n)

LEMMA TrapVectors ==
  /\ Emulator!TRAP_PUTS = 34 /\ EmulatorProofs!TRAP_PUTS = 34
  /\ Emulator!TRAP_PUTSP = 36 /\ EmulatorProofs!TRAP_PUTSP = 36
  /\ EmulatorProofs!TrapWord(34) = 61474 /\ EmulatorProofs!TrapWord(36) = 61476
  /\ EmulatorProofs!TrapWord(EmulatorProofs!TRAP_HALT) = 61477
  /\ EmulatorProofs!StartAddr = 12288 /\ Emulator!StartAddr = 12288
  BY DEF Emulator!TRAP_PUTS, EmulatorProofs!TRAP_PUTS, Emulator!TRAP_PUTSP,
      EmulatorProofs!TRAP_PUTSP, EmulatorProofs!TRAP_HALT, EmulatorProofs!TrapWord,
      EmulatorProofs!OP_TRAP, EmulatorProofs!StartAddr, Emulator!StartAddr

LEMMA EightBytes ==
  ASSUME NEW b, NEW s, s = <<48, 0, 224, 2, 240, b, 240, 37>>
  PROVE  /\ s[1] = 48 /\ s[2] = 0 /\ s[3] = 224 /\ s[4] = 2
         /\ s[5] = 240 /\ s[6] = b /\ s[7] = 240 /\ s[8] = 37
  OBVIOUS

(* The guest of the file is in memory[] when readImageFile() has returned.    *)
LEMMA TextLoaded ==
  ASSUME ImageProofs!Inv, step = "done",
         NEW trap \in TextTraps, NEW n \in Nat, HoldsText(file, trap, n)
  PROVE  EmulatorProofs!Prints(trap, n) /\ EmulatorProofs!GuestText(n) = FileText(n)
  <1>1. /\ Len(file) >= 8 /\ 12291 + n < 65535
        /\ SubSeq(file, 1, 8) = <<48, 0, 224, 2, 240, trap, 240, 37>>
        /\ \A i \in 1 .. n : TextWord(file, i) # 0
        /\ TextWord(file, n + 1) = 0
    BY InIndex DEF HoldsText
  <1>2. file \in Seq(Image!Byte) /\ Len(file) \in Nat
    BY YavmAssumption DEF ImageProofs!Inv, ImageProofs!FileIsOpen
  <1>3. /\ file[1] = 48 /\ file[2] = 0 /\ file[3] = 224 /\ file[4] = 2
        /\ file[5] = 240 /\ file[6] = trap /\ file[7] = 240 /\ file[8] = 37
    <2> DEFINE s == SubSeq(file, 1, 8)
    <2>1. \A i \in 1 .. 8 : s[i] = file[i]
      BY <1>1, <1>2
    <2>2. s = <<48, 0, 224, 2, 240, trap, 240, 37>>
      BY <1>1
    <2> HIDE DEF s
    <2>3. /\ s[1] = 48 /\ s[2] = 0 /\ s[3] = 224 /\ s[4] = 2
          /\ s[5] = 240 /\ s[6] = trap /\ s[7] = 240 /\ s[8] = 37
      BY <2>2, EightBytes
    <2> QED
      BY <2>1, <2>3
  <1>4. origin = 12288
    <2>1. ImageProofs!GuestWord(file, 1) = 256 * file[1] + file[2]
      BY DEF ImageProofs!GuestWord
    <2> QED
      BY <1>1, <1>3, <2>1 DEF ImageProofs!Inv, ImageProofs!OriginRead
  <1>5. ASSUME NEW j \in Nat, j <= 3 + n
        PROVE  EmulatorProofs!Cell(12288 + j) = ImageProofs!StoredWord(j)
    <2>1. origin + j \in ImageProofs!Index
      BY <1>1, <1>4, <1>5, InIndex, SameWidths
    <2> QED
      BY <1>4, <2>1, LoaderAssumed, ImageProofs!CellIsStored DEF EmulatorProofs!Cell
  <1>6. /\ EmulatorProofs!Cell(12288) = 57346
        /\ EmulatorProofs!Cell(12289) = 61440 + trap
        /\ EmulatorProofs!Cell(12290) = 61477
    <2>1. ASSUME NEW j \in 0 .. 2
          PROVE  ImageProofs!StoredWord(j) = 256 * file[2 * j + 4 - 1] + file[2 * j + 4]
      BY <1>1, <1>2 DEF ImageProofs!StoredWord
    <2>2. /\ ImageProofs!StoredWord(0) = 256 * file[3] + file[4]
          /\ ImageProofs!StoredWord(1) = 256 * file[5] + file[6]
          /\ ImageProofs!StoredWord(2) = 256 * file[7] + file[8]
      BY <2>1
    <2>3. /\ ImageProofs!StoredWord(0) = 57346
          /\ ImageProofs!StoredWord(1) = 61440 + trap
          /\ ImageProofs!StoredWord(2) = 61477
      BY <1>3, <2>2, TrapVectors DEF TextTraps
    <2>4. /\ EmulatorProofs!Cell(12288 + 0) = ImageProofs!StoredWord(0)
          /\ EmulatorProofs!Cell(12288 + 1) = ImageProofs!StoredWord(1)
          /\ EmulatorProofs!Cell(12288 + 2) = ImageProofs!StoredWord(2)
      BY <1>5
    <2> QED
      BY <2>3, <2>4
  <1>7. ASSUME NEW i \in 1 .. n + 1
        PROVE  EmulatorProofs!Cell(12290 + i) = TextWord(file, i)
    <2>1. /\ i + 2 \in Nat /\ i + 2 <= 3 + n /\ 12288 + (i + 2) = 12290 + i
          /\ 2 * (i + 2) + 4 = 8 + 2 * i
      OBVIOUS
    <2>2. ImageProofs!StoredWord(i + 2) = TextWord(file, i)
      BY <2>1 DEF ImageProofs!StoredWord, TextWord
    <2> QED
      BY <1>5, <2>1, <2>2
  <1>8. EmulatorProofs!Prints(trap, n)
    <2>1. EmulatorProofs!StartAddr + 3 + n \in EmulatorProofs!Index
      <3>1. 12291 + n \in Image!Index
        BY <1>1, InIndex
      <3>2. EmulatorProofs!StartAddr + 3 + n = 12291 + n
        BY TrapVectors
      <3> QED
        BY <3>1, <3>2, SameWidths
    <2>2. /\ trap \in {EmulatorProofs!TRAP_PUTS, EmulatorProofs!TRAP_PUTSP}
          /\ 61440 + trap = EmulatorProofs!TrapWord(trap)
      BY TrapVectors DEF TextTraps
    <2>3. /\ \A i \in 1 .. n : EmulatorProofs!Cell(12288 + 2 + i) # 0
          /\ EmulatorProofs!Cell(12288 + 3 + n) = 0
      <3>1. ASSUME NEW i \in 1 .. n PROVE EmulatorProofs!Cell(12288 + 2 + i) # 0
        <4>1. i \in 1 .. n + 1 /\ 12288 + 2 + i = 12290 + i
          OBVIOUS
        <4>2. EmulatorProofs!Cell(12290 + i) = TextWord(file, i)
          BY <1>7, <4>1
        <4> QED
          BY <1>1, <4>1, <4>2
      <3>2. EmulatorProofs!Cell(12288 + 3 + n) = 0
        <4>1. n + 1 \in 1 .. n + 1 /\ 12288 + 3 + n = 12290 + (n + 1)
          OBVIOUS
        <4> QED
          BY <1>1, <1>7, <4>1
      <3> QED
        BY <3>1, <3>2
    <2> QED
      BY <1>6, <2>1, <2>2, <2>3, TrapVectors DEF EmulatorProofs!Prints
  <1>9. EmulatorProofs!GuestText(n) = FileText(n)
    <2>1. \A i \in 1 .. n : i \in 1 .. n + 1 /\ 12288 + 2 + i = 12290 + i
      OBVIOUS
    <2> QED
      BY <1>7, <2>1, TrapVectors DEF EmulatorProofs!GuestText, FileText
  <1> QED
    BY <1>8, <1>9

LEMMA TextStep ==
  ASSUME NEW trap, NEW n, EmulatorProofs!PrintInv(trap, n),
         [EmulatorProofs!Next]_(EmulatorProofs!vars)
  PROVE  EmulatorProofs!PrintInv(trap, n)' /\ memory' = memory
  BY EmulatorAssumed, EmulatorProofs!PrintStep

LEMMA TextRuns ==
  ASSUME NEW trap, NEW n, TextInMemory(trap, n), file' = file,
         [EmulatorProofs!Next]_(EmulatorProofs!vars)
  PROVE  TextInMemory(trap, n)'
  <1>1. EmulatorProofs!PrintInv(trap, n)' /\ memory' = memory
    BY TextStep DEF TextInMemory
  <1>2. EmulatorProofs!GuestText(n)' = EmulatorProofs!GuestText(n)
    BY <1>1 DEF EmulatorProofs!GuestText, EmulatorProofs!Cell
  <1> QED
    BY <1>1, <1>2 DEF TextInMemory, FileText

LEMMA TextEntered ==
  ASSUME MachineInv, MachineInv', EnterEmulate,
         NEW trap \in TextTraps, NEW n \in Nat, HoldsText(file, trap, n)
  PROVE  TextInMemory(trap, n)'
  <1>1. /\ ImageProofs!Inv /\ registers = ZeroRegisters /\ phase = "fetch"
        /\ stdout = << >> /\ step = "done"
    BY DEF EnterEmulate, MachineInv, BeforeEmulate
  <1>2. /\ memory' = memory /\ file' = file /\ running' /\ phase' = phase
        /\ stdout' = stdout
        /\ registers' = [registers EXCEPT ![Emulator!R_PC] = Emulator!StartAddr]
    BY DEF EnterEmulate, loaderVars
  <1>3. EmulatorProofs!Prints(trap, n) /\ EmulatorProofs!GuestText(n) = FileText(n)
    BY <1>1, TextLoaded
  <1>4. EmulatorProofs!Prints(trap, n)'
    BY <1>2, <1>3, EmulatorAssumed, EmulatorProofs!PrintsStill
  <1>5. EmulatorProofs!GuestText(n)' = EmulatorProofs!GuestText(n)
    BY <1>2 DEF EmulatorProofs!GuestText, EmulatorProofs!Cell
  <1>6. EmulatorProofs!At' = EmulatorProofs!StartAddr
    <2>1. registers'[EmulatorProofs!R_PC] = 12288
      BY <1>1, <1>2, TrapVectors
      DEF ZeroRegisters, Emulator!Registers, Emulator!R_PC, EmulatorProofs!R_PC
    <2> QED
      BY <1>1, <1>2, <2>1, TrapVectors DEF EmulatorProofs!At
  <1>7. EmulatorProofs!PrintInv(trap, n)'
    BY <1>1, <1>2, <1>4, <1>6 DEF MachineInv, EmulatorProofs!PrintInv
  <1> QED
    BY <1>2, <1>3, <1>5, <1>7 DEF TextInMemory, FileText

(* What every step of the process leaves of a text that is in memory[].       *)
LEMMA TextKept ==
  ASSUME TextInv, MachineInv, MachineInv', [Next]_vars,
         stage' = "emulate" \/ status' = "returned"
  PROVE  /\ file' \in Files
         /\ \A trap \in TextTraps, n \in Nat :
              HoldsText(file', trap, n) => TextInMemory(trap, n)'
  <1>1. CASE EnterEmulate
    <2>1. file \in Files /\ file' = file
      BY <1>1 DEF EnterEmulate, loaderVars, MachineInv, BeforeEmulate, ImageProofs!Inv,
                  ImageProofs!FileIsOpen
    <2> QED
      BY <1>1, <2>1, TextEntered
  <1>2. CASE ~EnterEmulate
    <2>1. /\ stage = "emulate" \/ status = "returned"
          /\ [EmulatorProofs!Next]_(EmulatorProofs!vars) /\ file' = file
      <3>1. CASE Run
        BY <3>1, SameEmulator DEF Run, loaderVars, EmulatorProofs!Next
      <3>2. CASE Keyboard
        BY <3>2, SameUser DEF Keyboard, loaderVars, EmulatorProofs!Next
      <3>3. CASE Return \/ UNCHANGED vars
        BY <3>3 DEF Return, vars, loaderVars, emulatorVars, EmulatorProofs!vars
      <3>4. CASE Terminate \/ Interrupt \/ RestoreSettings \/ Exit
        BY <3>4 DEF Terminate, Interrupt, RestoreSettings, Exit, End, TextInv
      <3>5. CASE CheckArguments \/ InstallHandler \/ SaveSettings \/ SetRaw \/ LoadImage
                 \/ RunAgain
        BY <3>5
        DEF CheckArguments, InstallHandler, SaveSettings, SetRaw, LoadImage, RunAgain,
            End, TextInv
      <3> QED
        BY <1>2, <3>1, <3>2, <3>3, <3>4, <3>5 DEF Next, Process
    <2> QED
      BY <2>1, TextRuns DEF TextInv
  <1> QED
    BY <1>1, <1>2

LEMMA TextNext ==
  ASSUME TextInv, MachineInv, MachineInv', [Next]_vars PROVE TextInv'
  <1>1. (status # "none" => stage = "ended")'
    BY DEF Next, Process, CheckArguments, InstallHandler, SaveSettings, SetRaw, LoadImage,
           EnterEmulate, Run, Return, Interrupt, Terminate, Keyboard, RestoreSettings,
           Exit, RunAgain, End, terminalVars, TextInv, vars
  <1>2. (status = "returned" => phase = "done")'
    <2>1. CASE Run \/ Keyboard
      BY <1>1, <2>1 DEF Run, Keyboard, TextInv, Emulator!User, Emulator!Type,
                        Emulator!Hangup
    <2>2. CASE ~(Run \/ Keyboard)
      BY <2>2
      DEF Next, Process, CheckArguments, InstallHandler, SaveSettings, SetRaw, LoadImage,
          EnterEmulate, Return, Interrupt, Terminate, RestoreSettings, Exit, RunAgain,
          End, terminalVars, emulatorVars, TextInv, vars
    <2> QED
      BY <2>1, <2>2
  <1>3. stage' = "emulate" \/ status' = "returned" =>
          /\ file' \in Files
          /\ \A trap \in TextTraps, n \in Nat :
               HoldsText(file', trap, n) => TextInMemory(trap, n)'
    BY TextKept
  <1> QED
    BY <1>1, <1>2, <1>3 DEF TextInv, HoldsText, TextWord

LEMMA TextInvariance == Spec => []TextInv
  <1>1. Init => TextInv
    BY DEF Init, TextInv
  <1>2. TextInv /\ MachineInv /\ MachineInv' /\ [Next]_vars => TextInv'
    BY TextNext
  <1> QED
    BY <1>1, <1>2, MachineInvariance, PTL DEF Spec

(* The words of a file are words. *)
LEMMA TextWords ==
  ASSUME file \in Files, NEW n \in Nat PROVE FileText(n) \in [1 .. n -> EmulatorProofs!Word]
  <1>1. file \in Seq(ImageProofs!Byte)
    BY YavmAssumption, SameWidths
  <1>2. ASSUME NEW i \in 1 .. n PROVE TextWord(file, i) \in ImageProofs!Word
    <2>1. Len(file) \in Nat /\ 8 + 2 * i \in Nat
      BY <1>1
    <2>2. CASE 8 + 2 * i <= Len(file)
      <3>1. i + 4 \in Nat /\ 1 <= i + 4 /\ 2 * (i + 4) = 8 + 2 * i
        OBVIOUS
      <3>2. ImageProofs!GuestWord(file, i + 4) \in ImageProofs!Word
        BY <1>1, <2>2, <3>1, LoaderAssumed, ImageProofs!FileWords
      <3> QED
        BY <2>2, <3>1, <3>2 DEF TextWord, ImageProofs!GuestWord
    <2>3. CASE 8 + 2 * i = Len(file) + 1
      <3>1. 8 + 2 * i - 1 \in 1 .. Len(file) /\ ~(8 + 2 * i <= Len(file))
        BY <2>1, <2>3
      <3>2. file[8 + 2 * i - 1] \in ImageProofs!Byte
        BY <1>1, <3>1
      <3> QED
        BY <2>3, <3>1, <3>2, LoaderAssumed, ImageProofs!BytesAreWords DEF TextWord
    <2>4. CASE 8 + 2 * i > Len(file) + 1
      <3>1. TextWord(file, i) = 0
        BY <2>1, <2>4 DEF TextWord
      <3>2. 0 \in ImageProofs!Word
        BY DEF ImageProofs!Word, ImageProofs!UINT16_MAX
      <3> QED
        BY <3>1, <3>2
    <2> QED
      BY <2>1, <2>2, <2>3, <2>4
  <1>3. ImageProofs!Word = EmulatorProofs!Word
    BY SameWidths
  <1> QED
    BY <1>2, <1>3 DEF FileText

(* What PUTS and PUTSP print of the text is what it spells.                   *)
LEMMA TextSpelled ==
  ASSUME NEW n \in Nat, file \in Files
  PROVE  /\ EmulatorProofs!LowBytes(FileText(n)) = Unpacked(file, n)
         /\ IsPacked(file, n) => EmulatorProofs!PackedBytes(FileText(n)) = Packed(file, n)
  <1>1. EmulatorProofs!LowBytes(FileText(n)) = Unpacked(file, n)
    BY DEF EmulatorProofs!LowBytes, FileText, Unpacked
  <1>2. ASSUME IsPacked(file, n)
        PROVE  EmulatorProofs!PackedBytes(FileText(n)) = Packed(file, n)
    <2>1. \A i \in 1 .. n : FileText(n)[i] = TextWord(file, i)
      BY DEF FileText
    <2>2. EmulatorProofs!PackedBytes(FileText(n)) = EmulatorProofs!CharsOf(FileText(n), n)
      <3>1. \A j \in 1 .. n - 1 : FileText(n)[j] \div 256 # 0
        BY <1>2, <2>1 DEF IsPacked
      <3> QED
        BY <3>1, TextWords, EmulatorAssumed, EmulatorProofs!PackedIs
    <2>3. EmulatorProofs!CharsTo(FileText(n), n)
            = IF n > 0 /\ TextWord(file, n) \div 256 = 0 THEN 2 * n - 1 ELSE 2 * n
      BY <2>1 DEF EmulatorProofs!CharsTo
    <2>4. ASSUME NEW m, m = EmulatorProofs!CharsTo(FileText(n), n), NEW k \in 1 .. m
          PROVE  EmulatorProofs!CharAt(FileText(n), k)
                   = IF k % 2 = 1 THEN TextWord(file, (k + 1) \div 2) % 256
                     ELSE TextWord(file, k \div 2) \div 256
      <3>1. m \in {2 * n - 1, 2 * n}
        BY <2>3, <2>4
      <3>2. CASE k % 2 = 1
        <4>1. (k + 1) \div 2 \in 1 .. n
          BY <3>1, <3>2
        <4> QED
          BY <2>1, <3>2, <4>1 DEF EmulatorProofs!CharAt
      <3>3. CASE k % 2 # 1
        <4>1. k \div 2 \in 1 .. n
          BY <3>1, <3>3
        <4> QED
          BY <2>1, <3>3, <4>1 DEF EmulatorProofs!CharAt
      <3> QED
        BY <3>2, <3>3
    <2>5. PICK m : m = EmulatorProofs!CharsTo(FileText(n), n)
      OBVIOUS
    <2>6. EmulatorProofs!CharsOf(FileText(n), n)
            = [k \in 1 .. m |-> EmulatorProofs!CharAt(FileText(n), k)]
      BY <2>5 DEF EmulatorProofs!CharsOf
    <2>7. Packed(file, n)
            = [k \in 1 .. m |-> IF k % 2 = 1 THEN TextWord(file, (k + 1) \div 2) % 256
                               ELSE TextWord(file, k \div 2) \div 256]
      BY <2>3, <2>5 DEF Packed
    <2>8. \A k \in 1 .. m : EmulatorProofs!CharAt(FileText(n), k)
                             = IF k % 2 = 1 THEN TextWord(file, (k + 1) \div 2) % 256
                               ELSE TextWord(file, k \div 2) \div 256
      BY <2>4, <2>5
    <2> QED
      BY <2>2, <2>6, <2>7, <2>8
  <1> QED
    BY <1>1, <1>2

(* A run that returns has printed the text of its file, whatever else the     *)
(* file holds and wherever it ends, and nothing but that and "Halting...".    *)
THEOREM TextIsPrinted == Spec => []PrintsItsText
  <1>1. TextInv => PrintsItsText
    <2> SUFFICES ASSUME TextInv, status = "returned", NEW n \in 0 .. Len(file)
                 PROVE  /\ HoldsText(file, Emulator!TRAP_PUTS, n) =>
                             stdout = <<Unpacked(file, n), <<Emulator!HALTING>> >>
                        /\ HoldsText(file, Emulator!TRAP_PUTSP, n) /\ IsPacked(file, n) =>
                             stdout = <<Packed(file, n), <<Emulator!HALTING>> >>
      BY DEF PrintsItsText
    <2>1. file \in Files /\ n \in Nat /\ phase = "done"
      BY YavmAssumption DEF TextInv
    <2>2. ASSUME NEW trap \in TextTraps, HoldsText(file, trap, n)
          PROVE  stdout = <<EmulatorProofs!Printed(trap, n), <<Emulator!HALTING>> >>
      <3>1. EmulatorProofs!PrintInv(trap, n)
        BY <2>1, <2>2 DEF TextInv, TextInMemory
      <3>2. Emulator!HALTING = EmulatorProofs!HALTING
        BY DEF Emulator!HALTING, EmulatorProofs!HALTING
      <3> QED
        BY <2>1, <3>1, <3>2 DEF EmulatorProofs!PrintInv
    <2>3. ASSUME NEW trap \in TextTraps, HoldsText(file, trap, n)
          PROVE  EmulatorProofs!GuestText(n) = FileText(n)
      BY <2>1, <2>3 DEF TextInv, TextInMemory
    <2>4. /\ Emulator!TRAP_PUTS \in TextTraps /\ Emulator!TRAP_PUTSP \in TextTraps
          /\ Emulator!TRAP_PUTS = EmulatorProofs!TRAP_PUTS
          /\ Emulator!TRAP_PUTSP # EmulatorProofs!TRAP_PUTS
      BY TrapVectors DEF TextTraps
    <2>5. ASSUME HoldsText(file, Emulator!TRAP_PUTS, n)
          PROVE  stdout = <<Unpacked(file, n), <<Emulator!HALTING>> >>
      <3>1. EmulatorProofs!Printed(Emulator!TRAP_PUTS, n) = Unpacked(file, n)
        BY <2>1, <2>3, <2>4, <2>5, TextSpelled DEF EmulatorProofs!Printed
      <3> QED
        BY <2>2, <2>4, <2>5, <3>1
    <2>6. ASSUME HoldsText(file, Emulator!TRAP_PUTSP, n), IsPacked(file, n)
          PROVE  stdout = <<Packed(file, n), <<Emulator!HALTING>> >>
      <3>1. EmulatorProofs!Printed(Emulator!TRAP_PUTSP, n) = Packed(file, n)
        BY <2>1, <2>3, <2>4, <2>6, TextSpelled DEF EmulatorProofs!Printed
      <3> QED
        BY <2>2, <2>4, <2>6, <3>1
    <2> QED
      BY <2>5, <2>6
  <1> QED
    BY <1>1, TextInvariance, PTL
===============================================================================
