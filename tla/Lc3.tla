--------------------------------- MODULE Lc3 ---------------------------------
(***************************************************************************)
(* The emulator of lc3_vm_c/vm.c: the loop of emulate(), one action for    *)
(* the fetch and one for every instruction handler and trap procedure,     *)
(* running against a standard input on which keys arrive at any moment.    *)
(*                                                                         *)
(* memory is the static array memory[UINT16_MAX], kept as a function on    *)
(* the cells something was stored in; the others hold the 0 of .bss.  The  *)
(* array has 65535 elements, so address 0xFFFF is not one of them.  No     *)
(* access is checked: one to that address is to the two bytes behind the   *)
(* array, and memory has a cell for them once something is stored there.   *)
(***************************************************************************)
EXTENDS Stdin, SequencesExt

CONSTANTS
  Images,     \* what memory may hold when emulate() is entered
  Keys,       \* the bytes that may be typed
  MaxKeys,    \* bound on the number of keys typed
  MayHangup,  \* stdin is a pipe or file: its writer may close it
  Beyond,     \* what else may be found past the end of memory[]
  MaxStray    \* bound on the words PUTS and PUTSP read past its end

Index == 0 .. UINT16_MAX - 1     \* the subscripts of memory[]

ASSUME Lc3Assumption ==
  /\ \A m \in Images : DOMAIN m \subseteq Index /\ \A a \in DOMAIN m : m[a] \in Word
  /\ Keys \subseteq Byte
  /\ MaxKeys \in Nat
  /\ MayHangup \in BOOLEAN
  /\ Beyond \subseteq Word /\ Beyond # {}
  /\ MaxStray \in Nat

VARIABLES
  memory,        \* memory[], the cells stored in
  registers,     \* registers[R_COUNT]
  running,       \* the flag emulate() loops on
  phase,         \* where emulate() is: "fetch", "execute" or "done"
  instruction,   \* its local of that name
  stdin,         \* see Stdin
  stdout         \* what each trap procedure flushed, oldest first

vars == <<memory, registers, running, phase, instruction, stdin, stdout>>

MR_KBSR == 65024      \* 0xFE00
MR_KBDR == 65026      \* 0xFE02
MR_DSR == 65028       \* 0xFE04
MR_DDR == 65030       \* 0xFE06
STATUS_BIT == 32768

TRAP_GETC == 32
TRAP_OUT == 33
TRAP_PUTS == 34
TRAP_IN == 35
TRAP_PUTSP == 36
TRAP_HALT == 37

FL_POS == 0
FL_ZR == 1
FL_NEG == 2

R_R0 == 0
R_R7 == 7
R_PC == 8
R_COND == 9
GeneralRegisters == 0 .. 7
Registers == 0 .. 9

OP_BR == 0
OP_ADD == 1
OP_LD == 2
OP_ST == 3
OP_JSR == 4
OP_AND == 5
OP_LDR == 6
OP_STR == 7
OP_RTI == 8
OP_NOT == 9
OP_LDI == 10
OP_STI == 11
OP_JMP == 12
OP_RES == 13
OP_LEA == 14
OP_TRAP == 15

StartAddr == 12288    \* 0x3000

\* Tokens for the texts the traps print themselves.
PROMPT == 256         \* "Type in a character"
HALTING == 257        \* "Halting..."

-------------------------------------------------------------------------------
(* Memory. *)

Cell(a) == IF a \in DOMAIN memory THEN memory[a] ELSE 0

(* The two bytes behind memory[]: what a guest stored there, or anything.    *)
Behind == Beyond \cup {Cell(UINT16_MAX)}

(* Mutations of MemoryRead: the poll reads ahead and then looks only at the   *)
(* kernel's queue; KBDR is read without a poll and takes a key that is in the *)
(* buffer; KBDR is read without a poll and waits for a key.                   *)
MemoryReadAhead(address, s) ==
  CASE address \in {MR_KBSR, MR_KBDR} ->
         {[val |-> IF Readable(s) THEN STATUS_BIT ELSE 0,
           in |-> IF s.buf = << >> /\ s.tty # << >> THEN Refill(s) ELSE s]}
    [] OTHER -> {[val |-> Cell(address), in |-> s]}
MemoryReadUnpolled(address, s) ==
  CASE address = MR_KBSR ->
         {[val |-> IF Readable(s) THEN STATUS_BIT ELSE 0, in |-> s]}
    [] address = MR_KBDR ->
         IF Getchar(s) # {} THEN Getchar(s) ELSE {[val |-> 0, in |-> s]}
    [] OTHER -> {[val |-> Cell(address), in |-> s]}
MemoryReadWaiting(address, s) ==
  CASE address = MR_KBSR ->
         {[val |-> IF Readable(s) THEN STATUS_BIT ELSE 0, in |-> s]}
    [] address = MR_KBDR -> Getchar(s)
    [] OTHER -> {[val |-> Cell(address), in |-> s]}

(* memoryRead(address): its outcomes, each with the stdin it leaves. *)
MemoryRead(address, s) ==
  CASE address = MR_KBSR ->
         {[val |-> IF Readable(s) THEN STATUS_BIT ELSE 0, in |-> s]}
    [] address = MR_KBDR ->
         IF Readable(s) THEN Getchar(s) ELSE {[val |-> 0, in |-> s]}
    [] address = MR_DSR -> {[val |-> STATUS_BIT, in |-> s]}
    [] address = MR_DDR -> {[val |-> 0, in |-> s]}
    [] address = UINT16_MAX -> {[val |-> v, in |-> s] : v \in Behind}
    [] OTHER -> {[val |-> Cell(address), in |-> s]}

(* memoryWrite(address, value): whatever the address, 0xFFFF included. *)
MemoryWrite(address, value) ==
  memory' = [a \in DOMAIN memory \cup {address} |->
               IF a = address THEN value ELSE memory[a]]

(* The cells from a up to the first that is 0, or to the end of the array    *)
(* and then over at most MaxStray words beyond it.                           *)
TextLength(a) ==
  CHOOSE n \in 0 .. UINT16_MAX - a :
    /\ a + n = UINT16_MAX \/ Cell(a + n) = 0
    /\ \A j \in 0 .. n - 1 : Cell(a + j) # 0
Texts(a) ==
  LET n == TextLength(a)
      text == [j \in 1 .. n |-> Cell(a + j - 1)]
      stray == UNION {[1 .. k -> Behind \ {0}] : k \in 0 .. MaxStray}
  IN IF a + n < UINT16_MAX THEN {text} ELSE {text \o t : t \in stray}

-------------------------------------------------------------------------------
(* Fields of the instruction. *)

Opcode == instruction \div 4096
DR == (instruction \div 512) % 8        \* also the source register of stores
SR1 == (instruction \div 64) % 8        \* also the base register
SR2 == instruction % 8
ImmFlag == (instruction \div 32) % 2
Imm5 == SignExtend(instruction % 32, 16)
Offset6 == SignExtend(instruction % 64, 32)
PcOffset9 == SignExtend(instruction % 512, 256)
PcOffset11 == SignExtend(instruction % 2048, 1024)
TrapVector == instruction % 256

Operand2 == IF ImmFlag = 1 THEN Imm5 ELSE registers[SR2]
PcRelative == Wrap(registers[R_PC] + PcOffset9)
BaseRelative == Wrap(registers[SR1] + Offset6)

FlagOf(v) ==
  IF v = 0 THEN FL_ZR ELSE IF (v \div 32768) % 2 = 1 THEN FL_NEG ELSE FL_POS

(* registers[r] = v, without and with updateFlags(r). *)
Assign(r, v) == registers' = [registers EXCEPT ![r] = v]
AssignAndFlag(r, v) ==
  registers' = [registers EXCEPT ![r] = v, ![R_COND] = FlagOf(v)]

-------------------------------------------------------------------------------
(* emulate() *)

Init ==
  /\ memory \in Images
  /\ registers = [r \in Registers |-> IF r = R_PC THEN StartAddr ELSE 0]
  /\ running = TRUE
  /\ phase = "fetch"
  /\ instruction = 0
  /\ stdin = NewStdin
  /\ stdout = << >>

(* Mutation of Fetch: the loop does not test running. *)
FetchAlways ==
  /\ phase = "fetch"
  /\ \E r \in MemoryRead(registers[R_PC], stdin) :
       /\ instruction' = r.val
       /\ stdin' = r.in
  /\ Assign(R_PC, Wrap(registers[R_PC] + 1))
  /\ phase' = "execute"
  /\ UNCHANGED <<memory, running, stdout>>

Fetch ==
  /\ phase = "fetch"
  /\ running
  /\ \E r \in MemoryRead(registers[R_PC], stdin) :
       /\ instruction' = r.val
       /\ stdin' = r.in
  /\ Assign(R_PC, Wrap(registers[R_PC] + 1))
  /\ phase' = "execute"
  /\ UNCHANGED <<memory, running, stdout>>

(* Mutation of LeaveLoop: the keyboard has to be drained first. *)
LeaveLoopDrained ==
  /\ phase = "fetch"
  /\ ~running /\ Pending(stdin) = << >>
  /\ phase' = "done"
  /\ UNCHANGED <<memory, registers, running, instruction, stdin, stdout>>

LeaveLoop ==
  /\ phase = "fetch"
  /\ ~running
  /\ phase' = "done"
  /\ UNCHANGED <<memory, registers, running, instruction, stdin, stdout>>

(* A handler runs, and the loop goes round. *)
Execute(op) ==
  /\ phase = "execute"
  /\ Opcode = op
  /\ phase' = "fetch"
  /\ UNCHANGED instruction

Add ==
  /\ Execute(OP_ADD)
  /\ AssignAndFlag(DR, Wrap(registers[SR1] + Operand2))
  /\ UNCHANGED <<memory, running, stdin, stdout>>

And ==
  /\ Execute(OP_AND)
  /\ Assign(DR, BitAnd(registers[SR1], Operand2))
  /\ UNCHANGED <<memory, running, stdin, stdout>>

Not ==
  /\ Execute(OP_NOT)
  /\ AssignAndFlag(DR, BitNot(registers[SR1]))
  /\ UNCHANGED <<memory, running, stdin, stdout>>

Ld ==
  /\ Execute(OP_LD)
  /\ \E r \in MemoryRead(PcRelative, stdin) :
       AssignAndFlag(DR, r.val) /\ stdin' = r.in
  /\ UNCHANGED <<memory, running, stdout>>

Ldi ==
  /\ Execute(OP_LDI)
  /\ \E p \in MemoryRead(PcRelative, stdin) :
       \E r \in MemoryRead(p.val, p.in) :
         Assign(DR, r.val) /\ stdin' = r.in
  /\ UNCHANGED <<memory, running, stdout>>

(* Mutation of Ldr: it does not call updateFlags(), as ldi() does not. *)
LdrUnflagged ==
  /\ Execute(OP_LDR)
  /\ \E r \in MemoryRead(BaseRelative, stdin) :
       Assign(DR, r.val) /\ stdin' = r.in
  /\ UNCHANGED <<memory, running, stdout>>

Ldr ==
  /\ Execute(OP_LDR)
  /\ \E r \in MemoryRead(BaseRelative, stdin) :
       AssignAndFlag(DR, r.val) /\ stdin' = r.in
  /\ UNCHANGED <<memory, running, stdout>>

Lea ==
  /\ Execute(OP_LEA)
  /\ AssignAndFlag(DR, PcRelative)
  /\ UNCHANGED <<memory, running, stdin, stdout>>

St ==
  /\ Execute(OP_ST)
  /\ MemoryWrite(PcRelative, registers[DR])
  /\ UNCHANGED <<registers, running, stdin, stdout>>

Sti ==
  /\ Execute(OP_STI)
  /\ \E p \in MemoryRead(PcRelative, stdin) :
       MemoryWrite(p.val, registers[DR]) /\ stdin' = p.in
  /\ UNCHANGED <<registers, running, stdout>>

Str ==
  /\ Execute(OP_STR)
  /\ MemoryWrite(BaseRelative, registers[DR])
  /\ UNCHANGED <<registers, running, stdin, stdout>>

(* Mutation of Br: the bits are compared with the flag in R_COND. *)
BrOnCondition ==
  /\ Execute(OP_BR)
  /\ LET bit == CASE registers[R_COND] = FL_NEG -> DR \div 4
                  [] registers[R_COND] = FL_ZR -> (DR \div 2) % 2
                  [] OTHER -> DR % 2
     IN IF bit = 1 THEN Assign(R_PC, PcRelative) ELSE UNCHANGED registers
  /\ UNCHANGED <<memory, running, stdin, stdout>>

(* br(): taken when any of the n, z and p bits is set; R_COND is not read. *)
Br ==
  /\ Execute(OP_BR)
  /\ IF DR # 0 THEN Assign(R_PC, PcRelative) ELSE UNCHANGED registers
  /\ UNCHANGED <<memory, running, stdin, stdout>>

(* jmp(): the base register field is taken as (instruction >> 6) >> 7. *)
Jmp ==
  /\ Execute(OP_JMP)
  /\ Assign(R_PC, registers[(instruction \div 64) \div 128])
  /\ UNCHANGED <<memory, running, stdin, stdout>>

(* Mutation of Jsr: the base register is read first. *)
JsrBaseFirst ==
  /\ Execute(OP_JSR)
  /\ LET target == IF (instruction \div 2048) % 2 = 1
                   THEN Wrap(registers[R_PC] + PcOffset11)
                   ELSE registers[SR1]
     IN registers' = [registers EXCEPT ![R_R7] = registers[R_PC], ![R_PC] = target]
  /\ UNCHANGED <<memory, running, stdin, stdout>>

(* jsr(): R7 gets the return address before the base register is read. *)
Linked == [registers EXCEPT ![R_R7] = registers[R_PC]]
JsrTarget ==
  IF (instruction \div 2048) % 2 = 1 THEN Wrap(Linked[R_PC] + PcOffset11)
                                    ELSE Linked[SR1]
Jsr ==
  /\ Execute(OP_JSR)
  /\ registers' = [Linked EXCEPT ![R_PC] = JsrTarget]
  /\ UNCHANGED <<memory, running, stdin, stdout>>

(* The switch of emulate() has no case for RTI and the reserved opcode. *)
NoHandler ==
  /\ Execute(OP_RTI) \/ Execute(OP_RES)
  /\ UNCHANGED <<memory, registers, running, stdin, stdout>>

-------------------------------------------------------------------------------
(* trap() *)

Trap(vector) == Execute(OP_TRAP) /\ TrapVector = vector

Flush(text) == stdout' = Append(stdout, text)

(* Mutation of TrapGetc: R0 is not assigned, as in trapIn(). *)
TrapGetcDropped ==
  /\ Trap(TRAP_GETC)
  /\ \E g \in Getchar(stdin) : stdin' = g.in
  /\ UNCHANGED <<memory, registers, running, stdout>>

TrapGetc ==
  /\ Trap(TRAP_GETC)
  /\ \E g \in Getchar(stdin) : Assign(R_R0, g.val) /\ stdin' = g.in
  /\ UNCHANGED <<memory, running, stdout>>

(* trapIn() prompts and echoes what it read; R0 is not assigned. *)
TrapIn ==
  /\ Trap(TRAP_IN)
  /\ \E g \in Getchar(stdin) :
       Flush(<<PROMPT, g.val % 256>>) /\ stdin' = g.in
  /\ UNCHANGED <<memory, registers, running>>

TrapOut ==
  /\ Trap(TRAP_OUT)
  /\ Flush(<<registers[R_R0] % 256>>)
  /\ UNCHANGED <<memory, registers, running, stdin>>

(* Mutation of PackedBytes: the high byte comes first. *)
PackedHighFirst(text) ==
  FlattenSeq([j \in DOMAIN text |->
                IF text[j] \div 256 = 0 THEN <<text[j] % 256>>
                ELSE <<text[j] \div 256, text[j] % 256>>])

(* PUTS writes the low byte of every word; PUTSP both bytes, low byte first, *)
(* leaving out a high byte that is 0.                                        *)
LowBytes(text) == [j \in DOMAIN text |-> text[j] % 256]
PackedBytes(text) ==
  FlattenSeq([j \in DOMAIN text |->
                IF text[j] \div 256 = 0 THEN <<text[j] % 256>>
                ELSE <<text[j] % 256, text[j] \div 256>>])

TrapPuts ==
  /\ Trap(TRAP_PUTS)
  /\ \E text \in Texts(registers[R_R0]) : Flush(LowBytes(text))
  /\ UNCHANGED <<memory, registers, running, stdin>>

TrapPutsp ==
  /\ Trap(TRAP_PUTSP)
  /\ \E text \in Texts(registers[R_R0]) : Flush(PackedBytes(text))
  /\ UNCHANGED <<memory, registers, running, stdin>>

TrapHalt ==
  /\ Trap(TRAP_HALT)
  /\ Flush(<<HALTING>>)
  /\ running' = FALSE
  /\ UNCHANGED <<memory, registers, stdin>>

TrapUnknown ==
  /\ Execute(OP_TRAP)
  /\ TrapVector \notin TRAP_GETC .. TRAP_HALT
  /\ UNCHANGED <<memory, registers, running, stdin, stdout>>

-------------------------------------------------------------------------------
(* The user at the keyboard, and the specification. *)

Type(k) ==
  /\ ~stdin.closed
  /\ Len(stdin.taken \o Pending(stdin)) < MaxKeys
  /\ stdin' = Typed(stdin, k)
  /\ UNCHANGED <<memory, registers, running, phase, instruction, stdout>>

Hangup ==
  /\ MayHangup
  /\ ~stdin.closed
  /\ stdin' = Hungup(stdin)
  /\ UNCHANGED <<memory, registers, running, phase, instruction, stdout>>

Handler ==
  \/ Add \/ And \/ Not \/ Ld \/ Ldi \/ Ldr \/ Lea \/ St \/ Sti \/ Str
  \/ Br \/ Jmp \/ Jsr \/ NoHandler
  \/ TrapGetc \/ TrapIn \/ TrapOut \/ TrapPuts \/ TrapPutsp \/ TrapHalt
  \/ TrapUnknown

Emulate == Fetch \/ LeaveLoop \/ Handler

User == (\E k \in Keys : Type(k)) \/ Hangup

Next == Emulate \/ User

Spec == Init /\ [][Next]_vars

(* emulate() keeps taking steps while it can; nobody is obliged to type. *)
FairSpec == Spec /\ WF_vars(Emulate)
-------------------------------------------------------------------------------
(* Properties. *)

(* Every variable has the type its C declaration gives it, addresses are 16  *)
(* bits wide (so that no store goes further than the one cell behind the     *)
(* array), and the condition register holds one of the three flags.          *)
TypeOK ==
  /\ DOMAIN memory \subseteq Word
  /\ \A a \in DOMAIN memory : memory[a] \in Word
  /\ registers \in [Registers -> Word]
  /\ registers[R_COND] \in {FL_POS, FL_ZR, FL_NEG}
  /\ running \in BOOLEAN
  /\ phase \in {"fetch", "execute", "done"}
  /\ instruction \in Word
  /\ stdin \in StdinType

(* The keyboard path is a queue: whatever mix of KBDR reads, GETC and IN the *)
(* guest uses, and however select(), read() and the FILE buffer interleave   *)
(* with typing, keys are handed over in order, at most one per step, none    *)
(* lost or repeated, and end of input is reported after the last of them.    *)
KQ == INSTANCE KeyQueue WITH
        pending <- Pending(stdin), received <- stdin.taken,
        closed <- stdin.closed, ended <- stdin.eof
KeysInOrder == KQ!Spec

(* Every 16-bit address has its slot in memory[], as the same declaration of *)
(* Main.java says ("65536 slots"), and what a guest stores is stored there.  *)
StoresHitMemory == DOMAIN memory \subseteq Index

(* The machine stands still only where the guest asked to wait: in GETC or   *)
(* IN, with no key typed that was not taken and stdin still open.  No load   *)
(* or fetch ever waits, KBDR's getchar() included, whatever keys arrive      *)
(* between the poll of an earlier instruction and the load.                  *)
OnlyGetcAndInWait ==
  phase # "done" /\ ~ENABLED Emulate =>
    /\ phase = "execute" /\ Opcode = OP_TRAP /\ TrapVector \in {TRAP_GETC, TRAP_IN}
    /\ Pending(stdin) = << >> /\ ~stdin.closed

(* A guest that polled KBSR and found it ready may read KBDR any number of   *)
(* instructions later: only taking a byte can end the readiness.             *)
ReadyIsStable ==
  [][Readable(stdin) /\ stdin'.taken = stdin.taken => Readable(stdin')]_vars

(* As long as read() waits for keys, the end of the file is never reported   *)
(* in front of one that was typed, or before the writer has gone.            *)
EndOfInputIsLast ==
  stdin.waits /\ stdin.eof => stdin.closed /\ Pending(stdin) = << >>

(* R_COND describes the register that the last ADD, NOT, LD, LDR or LEA      *)
(* assigned, and nothing later: a step of these five makes it describe the   *)
(* result, and no other step touches it.  AND, LDI, GETC and JSR leave it    *)
(* stale (their handlers do not call updateFlags), as do stores and jumps.   *)
SetsFlags ==
  /\ phase = "execute" /\ phase' = "fetch"
  /\ Opcode \in {OP_ADD, OP_NOT, OP_LD, OP_LDR, OP_LEA}
Describes(flag, v) ==
  /\ flag = FL_ZR <=> v = 0
  /\ flag = FL_NEG <=> Signed(v) < 0
  /\ flag = FL_POS <=> Signed(v) > 0
FlagsFollowResult ==
  [][IF SetsFlags THEN Describes(registers'[R_COND], registers'[DR])
                  ELSE registers'[R_COND] = registers[R_COND]]_vars

(* Nothing is executed after TRAP HALT: the loop test stands between it and  *)
(* the next fetch.                                                           *)
HaltIsFinal ==
  [][~running => /\ UNCHANGED <<memory, registers, stdout, running>>
                 /\ stdin'.taken = stdin.taken]_vars

(* A guest of any length that reads the keyboard and echoes what it reads:   *)
(* pairs of GETC and OUT, and INs, up to a HALT, below the device registers. *)
TrapWord(vector) == OP_TRAP * 4096 + vector
EchoesTo(last, code) ==
  /\ DOMAIN code = StartAddr .. last /\ last \in StartAddr .. MR_KBSR - 1
  /\ code[StartAddr] # TrapWord(TRAP_OUT)
  /\ \A a \in StartAddr .. last - 1 :
       /\ code[a] \in {TrapWord(v) : v \in {TRAP_GETC, TRAP_OUT, TRAP_IN}}
       /\ code[a] = TrapWord(TRAP_GETC) <=> code[a + 1] = TrapWord(TRAP_OUT)
  /\ code[last] = TrapWord(TRAP_HALT)
Echoes(code) == \E last \in DOMAIN code : EchoesTo(last, code)

(* End to end, through the kernel's queue, the FILE buffer, R0 and the       *)
(* traps: the echo is what was taken from the keyboard, at most one behind,  *)
(* and the 255 of an end of file once no key is left.                        *)
EchoCount == IF running THEN Len(stdout) ELSE Len(stdout) - 1
Echo(i) == IF i <= Len(stdin.taken) THEN stdin.taken[i] ELSE UCHAR_MAX
Echoed ==
  /\ \A i \in 1 .. EchoCount : stdout[i] \in {<<Echo(i)>>, <<PROMPT, Echo(i)>>}
  /\ EchoCount < Len(stdin.taken) => running /\ EchoCount = Len(stdin.taken) - 1
  /\ EchoCount > Len(stdin.taken) => stdin.eof
EchoIsWhatWasTyped == Echoes(memory) => []Echoed

(* A key that read() has moved into the FILE buffer while the kernel's queue *)
(* is empty and stdin open is out of the reach of every guest that polls, or *)
(* reads KBDR: only GETC or IN takes it before another key has arrived.      *)
StrandedUntilNextKey ==
  [][Pending(stdin) # << >> /\ ~Readable(stdin) /\ stdin'.taken # stdin.taken =>
       /\ phase = "execute" /\ Opcode = OP_TRAP
       /\ TrapVector \in {TRAP_GETC, TRAP_IN}]_vars

(* TRAP HALT ends emulate(). *)
HaltTerminates == ~running ~> phase = "done"
==============================================================================
