----------------------------- MODULE JavaHandlers -----------------------------
(***************************************************************************)
(* The instruction handlers and trap procedures of Main.java.  No case of  *)
(* the switch in main() calls them yet (JavaVm models what does run); here *)
(* each is called for the opcode its case names, on an image that is in    *)
(* memory[], to find out what the machine would be.  That dispatch is the  *)
(* model's own: the cases are empty, and for traps there is not even a     *)
(* method that decodes the vector.  Machine, Trap, TrapVector and noTrap   *)
(* do as trap() and emulate() of vm.c do and translate nothing of Main.    *)
(*                                                                         *)
(* Registers and cells are Java ints: sums wrap to 32 bits, and nothing    *)
(* wraps them to 16.                                                       *)
(***************************************************************************)
EXTENDS Words, Sequences

CONSTANTS
  Images,       \* what memory[] may hold at first
  MemorySize,   \* the size of memory[]; 65536 in the code
  isLetter(_),  \* Character.isLetter()
  Keys,         \* what System.in.read() may return, besides -1
  MaxCalls      \* bound on the jumps of jumpRegister() through a register

ASSUME JavaHandlersAssumption ==
  /\ MemorySize \in 1 .. 65536
  /\ \A m \in Images : /\ DOMAIN m \subseteq 0 .. MemorySize - 1
                       /\ \A a \in DOMAIN m : m[a] \in Word
  /\ \A c \in Word : isLetter(c) \in BOOLEAN
  /\ Keys \subseteq Byte
  /\ MaxCalls \in Nat

VARIABLES
  memory,        \* memory[], the cells stored in (the others are 0)
  registers,     \* registers[R_COUNT]
  running,       \* the flag main() loops on
  phase,         \* "fetch", "execute", "spinning" (in puts() or putsp()), "ended"
  instruction,   \* main()'s local of that name
  exception,     \* what was thrown, "none" while nothing was
  stdout,        \* what each trap procedure printed
  calls          \* how many jumps counted by MaxCalls have been made

vars == <<memory, registers, running, phase, instruction, exception, stdout, calls>>

R_R0 == 0
R_R7 == 7
R_PC == 8
R_COND == 9
Registers == 0 .. 9

FL_POS == 1
FL_ZR == 2
FL_NEG == 4

OP_BR == 0
OP_ADD == 1
OP_LD == 2
OP_ST == 3
OP_JSR == 4
OP_AND == 5
OP_LDR == 6
OP_STR == 7
OP_RTI == 8
OP_NOT == 9
OP_LDI == 10
OP_STI == 11
OP_JMP == 12
OP_RES == 13
OP_LEA == 14
OP_TRAP == 15

TRAP_GETC == 32
TRAP_OUT == 33
TRAP_PUTS == 34
TRAP_IN == 35
TRAP_PUTSP == 36
TRAP_HALT == 37

PROMPT == 65536       \* stands for "Type in a character"
HALTING == 65537      \* stands for "Halting..."

-------------------------------------------------------------------------------
(* Arithmetic on ints. *)

IntMax == 2147483647

(* The int a sum of two ints is kept as. *)
ToInt(n) ==
  IF n > IntMax THEN n - IntMax - IntMax - 2
  ELSE IF n < 0 - IntMax - 1 THEN n + IntMax + IntMax + 2 ELSE n

(* Mutation of signExtend: a negative field becomes a negative int. *)
signExtendInt(x, half) == IF (x \div half) % 2 = 1 THEN x - 2 * half ELSE x

(* signExtend(x, bit_count) for an x masked to bit_count bits; half is        *)
(* 2^(bit_count - 1).  It sets sixteen bits above the field of an int, so     *)
(* that a negative field becomes a large positive number.                     *)
signExtend(x, half) ==
  IF (x \div half) % 2 = 1 THEN x + 65535 * 2 * half ELSE x

(* x & y, half by half. *)
And32(x, y) ==
  LET High(v) == (v \div 65536) % 65536
  IN 65536 * Signed(BitAnd(High(x), High(y))) + BitAnd(x % 65536, y % 65536)

(* Mutation of FlagOf: the sixteenth bit decides. *)
FlagOfBit15(v) ==
  IF v = 0 THEN FL_ZR ELSE IF (v \div 32768) % 2 = 1 THEN FL_NEG ELSE FL_POS

(* updateFlags(): v >> 15 == 1. *)
FlagOf(v) == IF v = 0 THEN FL_ZR ELSE IF v \div 32768 = 1 THEN FL_NEG ELSE FL_POS

(* (char) v *)
Char(v) == v % 65536

-------------------------------------------------------------------------------
(* Fields of the instruction, and the steps every handler is made of. *)

Opcode == instruction \div 4096
DR == (instruction \div 512) % 8
SR1 == (instruction \div 64) % 8
SR2 == instruction % 8
TrapVector == instruction % 256
PcOffset9 == signExtend(instruction % 512, 256)
PcOffset11 == signExtend(instruction % 2048, 1024)

Operand2 ==
  IF (instruction \div 32) % 2 = 1 THEN signExtend(instruction % 32, 16)
                                   ELSE registers[SR2]
PcRelative == ToInt(registers[R_PC] + PcOffset9)

Cell(a) == IF a \in DOMAIN memory THEN memory[a] ELSE 0
InBounds(a) == a \in 0 .. MemorySize - 1

Execute(op) ==
  /\ phase = "execute"
  /\ Opcode = op
  /\ UNCHANGED instruction

GoOn == phase' = "fetch" /\ UNCHANGED exception
Throw ==
  /\ phase' = "ended"
  /\ exception' = "ArrayIndexOutOfBoundsException"
  /\ UNCHANGED <<memory, registers>>

Assign(r, v) == registers' = [registers EXCEPT ![r] = v]
AssignAndFlag(r, v) ==
  registers' = [registers EXCEPT ![r] = v, ![R_COND] = FlagOf(v)]

(* registers[dr] = memoryRead(a) with the flags, memoryWrite(a, registers[sr]) *)
LoadFrom(a) ==
  IF InBounds(a) THEN AssignAndFlag(DR, Cell(a)) /\ GoOn /\ UNCHANGED memory ELSE Throw
StoreTo(a) ==
  IF InBounds(a)
  THEN /\ memory' = [b \in DOMAIN memory \cup {a} |->
                       IF b = a THEN registers[DR] ELSE memory[b]]
       /\ GoOn
       /\ UNCHANGED registers
  ELSE Throw

-------------------------------------------------------------------------------
Init ==
  /\ memory \in Images
  /\ registers = [r \in Registers |-> 0]
  /\ running = TRUE
  /\ phase = "fetch"
  /\ instruction = 0
  /\ exception = "none"
  /\ stdout = << >>
  /\ calls = 0

(* The program counter is advanced before memory[] is read, which throws past *)
(* its end.                                                                   *)
Fetch ==
  /\ phase = "fetch"
  /\ running
  /\ Assign(R_PC, ToInt(registers[R_PC] + 1))
  /\ IF InBounds(registers[R_PC])
     THEN phase' = "execute" /\ instruction' = Cell(registers[R_PC]) /\ UNCHANGED exception
     ELSE /\ phase' = "ended" /\ exception' = "ArrayIndexOutOfBoundsException"
          /\ UNCHANGED instruction
  /\ UNCHANGED <<memory, running, stdout, calls>>

LeaveLoop ==
  /\ phase = "fetch"
  /\ ~running
  /\ phase' = "ended"
  /\ UNCHANGED <<memory, registers, running, instruction, exception, stdout, calls>>

addOp ==
  /\ Execute(OP_ADD)
  /\ AssignAndFlag(DR, ToInt(registers[SR1] + Operand2))
  /\ GoOn
  /\ UNCHANGED <<memory, running, stdout, calls>>

bitwiseAnd ==
  /\ Execute(OP_AND)
  /\ AssignAndFlag(DR, And32(registers[SR1], Operand2))
  /\ GoOn
  /\ UNCHANGED <<memory, running, stdout, calls>>

(* Mutation of bitwiseNot: -x. *)
bitwiseNegate ==
  /\ Execute(OP_NOT)
  /\ AssignAndFlag(DR, 0 - registers[SR1])
  /\ GoOn
  /\ UNCHANGED <<memory, running, stdout, calls>>

bitwiseNot ==
  /\ Execute(OP_NOT)
  /\ AssignAndFlag(DR, 0 - registers[SR1] - 1)
  /\ GoOn
  /\ UNCHANGED <<memory, running, stdout, calls>>

load ==
  /\ Execute(OP_LD)
  /\ LoadFrom(PcRelative)
  /\ UNCHANGED <<running, stdout, calls>>

loadIndirect ==
  /\ Execute(OP_LDI)
  /\ IF InBounds(PcRelative) THEN LoadFrom(Cell(PcRelative)) ELSE Throw
  /\ UNCHANGED <<running, stdout, calls>>

(* The base of loadRegister() and storeRegister() is the number of the base   *)
(* register, that of storeIndirect() the number of the program counter.       *)
loadRegister ==
  /\ Execute(OP_LDR)
  /\ LoadFrom(SR1 + signExtend(instruction % 64, 32))
  /\ UNCHANGED <<running, stdout, calls>>

loadEffectiveAddress ==
  /\ Execute(OP_LEA)
  /\ AssignAndFlag(DR, PcRelative)
  /\ GoOn
  /\ UNCHANGED <<memory, running, stdout, calls>>

store ==
  /\ Execute(OP_ST)
  /\ StoreTo(PcRelative)
  /\ UNCHANGED <<running, stdout, calls>>

storeIndirect ==
  /\ Execute(OP_STI)
  /\ LET pointer == R_PC + PcOffset9
     IN IF InBounds(pointer) THEN StoreTo(Cell(pointer)) ELSE Throw
  /\ UNCHANGED <<running, stdout, calls>>

(* Five bits of the offset are taken. *)
storeRegister ==
  /\ Execute(OP_STR)
  /\ StoreTo(SR1 + signExtend(instruction % 32, 16))
  /\ UNCHANGED <<running, stdout, calls>>

(* As in br() of vm.c, the flags are not read. *)
branch ==
  /\ Execute(OP_BR)
  /\ IF DR # 0 THEN Assign(R_PC, PcRelative) ELSE UNCHANGED registers
  /\ GoOn
  /\ UNCHANGED <<memory, running, stdout, calls>>

(* registers[] is indexed with the opcode and what follows it. *)
jump ==
  /\ Execute(OP_JMP)
  /\ LET baseR == instruction \div 128
     IN IF baseR \in Registers
        THEN Assign(R_PC, registers[baseR]) /\ GoOn /\ UNCHANGED memory
        ELSE Throw
  /\ UNCHANGED <<running, stdout, calls>>

(* JSR adds an offset; JSRR jumps to the number of the base register. *)
ByRegister == Opcode = OP_JSR /\ (instruction \div 2048) % 2 = 0

jumpRegister ==
  /\ Execute(OP_JSR)
  /\ calls' = IF ByRegister THEN calls + 1 ELSE calls
  /\ calls' <= MaxCalls
  /\ registers' =
       [registers EXCEPT ![R_R7] = registers[R_PC],
                         ![R_PC] = IF ByRegister THEN SR1 ELSE ToInt(@ + PcOffset11)]
  /\ GoOn
  /\ UNCHANGED <<memory, running, stdout>>

(* RTI, the reserved opcode, and what was stored wider than a word.           *)
noHandler ==
  /\ phase = "execute"
  /\ Opcode \in {OP_RTI, OP_RES} \/ Opcode \notin 0 .. 15
  /\ GoOn
  /\ UNCHANGED <<memory, registers, running, instruction, stdout, calls>>

-------------------------------------------------------------------------------
(* Trap procedures. *)

Trap(vector) == Execute(OP_TRAP) /\ TrapVector = vector
Write(text) == stdout' = Append(stdout, text)

(* puts() and putsp() fetch one cell and never another: if it is a letter     *)
(* they print it for ever (written here once), and nothing otherwise.         *)
Fetched == Char(Cell(registers[R_R0]))
PrintFetched(text) ==
  IF ~InBounds(registers[R_R0]) THEN Throw /\ UNCHANGED stdout
  ELSE /\ IF isLetter(Fetched)
          THEN phase' = "spinning" /\ Write(text) /\ UNCHANGED exception
          ELSE GoOn /\ UNCHANGED stdout
       /\ UNCHANGED <<memory, registers>>

puts ==
  /\ Trap(TRAP_PUTS)
  /\ PrintFetched(<<Fetched>>)
  /\ UNCHANGED <<running, calls>>

putsp ==
  /\ Trap(TRAP_PUTSP)
  /\ PrintFetched(IF Fetched \div 256 > 0 THEN <<Fetched % 256, Fetched \div 256>>
                                         ELSE <<Fetched>>)
  /\ UNCHANGED <<running, calls>>

(* System.in.read() gives -1 at the end of input. *)
getc ==
  /\ Trap(TRAP_GETC)
  /\ \E k \in Keys \cup {-1} : Assign(R_R0, k)
  /\ GoOn
  /\ UNCHANGED <<memory, running, stdout, calls>>

in ==
  /\ Trap(TRAP_IN)
  /\ \E k \in Keys \cup {-1} : Write(<<PROMPT, Char(k)>>) /\ Assign(R_R0, Char(k))
  /\ GoOn
  /\ UNCHANGED <<memory, running, calls>>

out ==
  /\ Trap(TRAP_OUT)
  /\ Write(<<Char(registers[R_R0])>>)
  /\ GoOn
  /\ UNCHANGED <<memory, registers, running, calls>>

halt ==
  /\ Trap(TRAP_HALT)
  /\ Write(<<HALTING>>)
  /\ running' = FALSE
  /\ GoOn
  /\ UNCHANGED <<memory, registers, calls>>

(* TrapCodes has no other vector. *)
noTrap ==
  /\ Execute(OP_TRAP)
  /\ TrapVector \notin TRAP_GETC .. TRAP_HALT
  /\ GoOn
  /\ UNCHANGED <<memory, registers, running, stdout, calls>>

Machine ==
  \/ Fetch \/ LeaveLoop
  \/ addOp \/ bitwiseAnd \/ bitwiseNot \/ load \/ loadIndirect \/ loadRegister
  \/ loadEffectiveAddress \/ store \/ storeIndirect \/ storeRegister
  \/ branch \/ jump \/ jumpRegister \/ noHandler
  \/ puts \/ putsp \/ out \/ halt \/ noTrap

Next == Machine \/ getc \/ in

Spec == Init /\ [][Next]_vars

(* The machine runs on; nobody is obliged to type. *)
FairSpec == Spec /\ WF_vars(Machine)

-------------------------------------------------------------------------------
(* Properties. *)

(* The flags describe the word that was assigned as long as the int is that   *)
(* word.  Of an int outside of 0..65535 they do not: its word counts as       *)
(* positive even when it is 0 or negative.                                    *)
Describes(flag, word) ==
  flag = CASE word = 0 -> FL_ZR [] word >= 32768 -> FL_NEG [] OTHER -> FL_POS
FlagsAgreeOnWords ==
  [][phase = "execute" /\ exception' = "none"
       /\ Opcode \in {OP_ADD, OP_AND, OP_NOT, OP_LD, OP_LDI, OP_LDR, OP_LEA} =>
       LET value == registers'[DR]
           word == value % 65536
       IN IF value \in Word THEN Describes(registers'[R_COND], word)
                            ELSE registers'[R_COND] = FL_POS]_vars

(* No guest can loop by a branch: one backwards takes the program counter     *)
(* past the end of memory[] for good.  Whatever the image, the machine halts, *)
(* throws, spins in puts() or waits for a key, unless it keeps using JSRR.    *)
Waiting == phase = "execute" /\ Opcode = OP_TRAP /\ TrapVector \in {TRAP_GETC, TRAP_IN}
EveryGuestEnds ==
  []<>(phase \in {"ended", "spinning"} \/ Waiting \/ (phase = "execute" /\ ByRegister))
===============================================================================
