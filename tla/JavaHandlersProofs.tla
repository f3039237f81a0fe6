-------------------------- MODULE JavaHandlersProofs --------------------------
(***************************************************************************)
(* Proofs about the handlers of Main.java: what they compute on Java ints  *)
(* is, modulo 2^16, what vm.c computes, for every image, every size of     *)
(* memory[] up to 2^16 and every int the registers may have grown to.      *)
(***************************************************************************)
EXTENDS JavaAsC, WordsProofs

JavaInt == 0 - IntMax - 1 .. IntMax

LEMMA InJavaInt ==
  ASSUME NEW n
  PROVE  n \in JavaInt <=> n \in Int /\ 0 - 2147483648 <= n /\ n <= 2147483647
  <1>1. IntMax \in Int
    BY DEF IntMax
  <1>2. n \in JavaInt <=> n \in Int /\ 0 - IntMax - 1 <= n /\ n <= IntMax
    BY <1>1 DEF JavaInt
  <1> QED
    BY <1>2 DEF IntMax

(* 2^32 is a multiple of 2^16: whether a sum overflows does not show in its   *)
(* word.                                                                      *)
LEMMA ToIntValue ==
  ASSUME NEW m \in JavaInt, NEW n \in JavaInt
  PROVE  /\ ToInt(m + n) \in JavaInt
         /\ ToInt(m + n) % 65536 = ((m % 65536) + (n % 65536)) % 65536
  BY InJavaInt DEF ToInt, IntMax

(* The ones that signExtend() sets above the sixteenth bit do not show in the *)
(* word either.                                                               *)
LEMMA signExtendValue ==
  ASSUME NEW half \in {16, 32, 256, 1024},
         NEW x \in Int, 0 <= x, x < 2 * half
  PROVE  /\ signExtend(x, half) \in JavaInt
         /\ signExtend(x, half) % 65536 = SignExtend(x, half)
  <1>1. CASE half = 16
    BY <1>1, InJavaInt DEF signExtend, SignExtend
  <1>2. CASE half = 32
    BY <1>2, InJavaInt DEF signExtend, SignExtend
  <1>3. CASE half = 256
    BY <1>3, InJavaInt DEF signExtend, SignExtend
  <1>4. CASE half = 1024
    BY <1>4, InJavaInt DEF signExtend, SignExtend
  <1> QED
    BY <1>1, <1>2, <1>3, <1>4

LEMMA And32Value ==
  ASSUME NEW m \in JavaInt, NEW n \in JavaInt
  PROVE  /\ And32(m, n) \in JavaInt
         /\ And32(m, n) % 65536 = BitAnd(m % 65536, n % 65536)
  <1> DEFINE mh == (m \div 65536) % 65536  ml == m % 65536
             nh == (n \div 65536) % 65536  nl == n % 65536
  <1>1. /\ m \in Int /\ n \in Int
        /\ mh \in Word /\ ml \in Word /\ nh \in Word /\ nl \in Word
    BY InWord, InJavaInt
  <1>2. And32(m, n) = 65536 * Signed(BitAnd(mh, nh)) + BitAnd(ml, nl)
    BY DEF And32
  <1> HIDE DEF mh, ml, nh, nl
  <1>3. BitAnd(mh, nh) \in Word /\ BitAnd(ml, nl) \in Word
    BY <1>1, BitAndBound
  <1>4. PICK h \in Word : h = BitAnd(mh, nh)
    BY <1>3
  <1>5. PICK l \in Word : l = BitAnd(ml, nl)
    BY <1>3
  <1>6. /\ 65536 * Signed(h) + l \in JavaInt
        /\ (65536 * Signed(h) + l) % 65536 = l
    BY InWord, InJavaInt DEF Signed
  <1>7. And32(m, n) = 65536 * Signed(h) + l
    BY <1>2, <1>4, <1>5
  <1> QED
    BY <1>5, <1>6, <1>7 DEF ml, nl

LEMMA NotValue ==
  ASSUME NEW n \in JavaInt
  PROVE  /\ 0 - n - 1 \in JavaInt
         /\ (0 - n - 1) % 65536 = BitNot(n % 65536)
  BY InJavaInt DEF BitNot

LEMMA WordIsInt == ASSUME NEW n \in Word PROVE n \in JavaInt /\ n % 65536 = n
  BY InWord, InJavaInt

-------------------------------------------------------------------------------
(* Ints in registers and cells, and nothing runs on after an exception.       *)
RegistersTyped == registers \in [Registers -> JavaInt]
MemoryTyped ==
  /\ DOMAIN memory \subseteq 0 .. MemorySize - 1
  /\ \A a \in DOMAIN memory : memory[a] \in JavaInt
ControlTyped ==
  /\ running \in BOOLEAN
  /\ phase \in {"fetch", "execute", "spinning", "ended"}
  /\ exception \in {"none", "ArrayIndexOutOfBoundsException"}
  /\ exception # "none" => phase = "ended"
Inv ==
  /\ RegistersTyped
  /\ MemoryTyped
  /\ ControlTyped
  /\ instruction \in JavaInt
  /\ cond \in {C!FL_POS, C!FL_ZR, C!FL_NEG}

LEMMA FieldTypes ==
  ASSUME Inv
  PROVE  /\ DR \in 0 .. 7 /\ SR1 \in 0 .. 7 /\ SR2 \in 0 .. 7
         /\ PcOffset9 \in JavaInt /\ PcOffset11 \in JavaInt /\ Operand2 \in JavaInt
         /\ PcRelative \in JavaInt
  <1>1. instruction \in Int
    BY InJavaInt DEF Inv
  <1>2. DR \in 0 .. 7 /\ SR1 \in 0 .. 7 /\ SR2 \in 0 .. 7
    BY <1>1 DEF DR, SR1, SR2
  <1>3. /\ instruction % 32 \in Int /\ 0 <= instruction % 32 /\ instruction % 32 < 2 * 16
        /\ instruction % 512 \in Int /\ 0 <= instruction % 512 /\ instruction % 512 < 2 * 256
        /\ instruction % 2048 \in Int /\ 0 <= instruction % 2048
        /\ instruction % 2048 < 2 * 1024
    BY <1>1
  <1>4. signExtend(instruction % 32, 16) \in JavaInt
    BY <1>3, signExtendValue
  <1>5. PcOffset9 \in JavaInt
    BY <1>3, signExtendValue DEF PcOffset9
  <1>6. PcOffset11 \in JavaInt
    BY <1>3, signExtendValue DEF PcOffset11
  <1>7. registers[SR2] \in JavaInt /\ registers[R_PC] \in JavaInt
    BY <1>2 DEF Inv, RegistersTyped, Registers, R_PC
  <1>8. Operand2 \in JavaInt
    BY <1>4, <1>7 DEF Operand2
  <1>9. PcRelative \in JavaInt
    BY <1>5, <1>7, ToIntValue DEF PcRelative
  <1> QED
    BY <1>2, <1>5, <1>6, <1>8, <1>9

LEMMA RegisterTypes ==
  ASSUME Inv, NEW r \in 0 .. 7
  PROVE  r \in Registers /\ r # R_PC /\ r # R_COND /\ registers[r] \in JavaInt
  BY DEF Inv, RegistersTyped, Registers, R_PC, R_COND

LEMMA PcType ==
  ASSUME Inv
  PROVE  R_PC \in Registers /\ registers[R_PC] \in JavaInt
  BY DEF Inv, RegistersTyped, Registers, R_PC

LEMMA CellType == ASSUME Inv, NEW a PROVE Cell(a) \in JavaInt
  BY WordIsInt, InWord DEF Cell, Inv, MemoryTyped

LEMMA FlagType == ASSUME NEW v PROVE FlagOf(v) \in JavaInt
  BY InJavaInt DEF FlagOf, FL_POS, FL_ZR, FL_NEG

-------------------------------------------------------------------------------
(* The steps the handlers are made of keep the types.                         *)
LEMMA AssignTypes ==
  ASSUME Inv, NEW r \in Registers, NEW v \in JavaInt,
         Assign(r, v) \/ AssignAndFlag(r, v)
  PROVE  RegistersTyped'
  BY FlagType DEF Assign, AssignAndFlag, Inv, RegistersTyped

LEMMA GoOnTypes ==
  ASSUME Inv, phase = "execute", GoOn, running' \in BOOLEAN
  PROVE  ControlTyped'
  BY DEF GoOn, Inv, ControlTyped

LEMMA ThrowTypes ==
  ASSUME Inv, Throw, UNCHANGED running
  PROVE  RegistersTyped' /\ MemoryTyped' /\ ControlTyped'
  BY DEF Throw, Inv, ControlTyped, RegistersTyped, MemoryTyped

LEMMA LoadTypes ==
  ASSUME Inv, phase = "execute", NEW a, LoadFrom(a), UNCHANGED running
  PROVE  RegistersTyped' /\ MemoryTyped' /\ ControlTyped'
  <1>1. CASE InBounds(a)
    <2>1. AssignAndFlag(DR, Cell(a)) /\ GoOn /\ UNCHANGED memory
      BY <1>1 DEF LoadFrom
    <2>2. DR \in Registers
      BY FieldTypes, RegisterTypes
    <2>3. RegistersTyped'
      BY <2>1, <2>2, CellType, AssignTypes
    <2>4. ControlTyped'
      BY <2>1, GoOnTypes DEF Inv, ControlTyped
    <2> QED
      BY <2>1, <2>3, <2>4 DEF Inv, MemoryTyped
  <1>2. CASE ~InBounds(a)
    BY <1>2, ThrowTypes DEF LoadFrom
  <1> QED
    BY <1>1, <1>2

LEMMA StoreTypes ==
  ASSUME Inv, phase = "execute", NEW a, StoreTo(a), UNCHANGED running
  PROVE  RegistersTyped' /\ MemoryTyped' /\ ControlTyped'
  <1>1. CASE InBounds(a)
    <2>1. /\ memory' = [b \in DOMAIN memory \cup {a} |->
                          IF b = a THEN registers[DR] ELSE memory[b]]
          /\ GoOn
          /\ UNCHANGED registers
      BY <1>1 DEF StoreTo
    <2>2. registers[DR] \in JavaInt
      BY FieldTypes, RegisterTypes
    <2>3. MemoryTyped'
      BY <1>1, <2>1, <2>2 DEF Inv, MemoryTyped, InBounds
    <2>4. ControlTyped'
      BY <2>1, GoOnTypes DEF Inv, ControlTyped
    <2> QED
      BY <2>1, <2>3, <2>4 DEF Inv, RegistersTyped
  <1>2. CASE ~InBounds(a)
    BY <1>2, ThrowTypes DEF StoreTo
  <1> QED
    BY <1>1, <1>2

(* A handler that assigns one register and goes round again.                  *)
LEMMA ComputeTypes ==
  ASSUME Inv, phase = "execute", NEW r \in Registers, NEW v \in JavaInt,
         Assign(r, v) \/ AssignAndFlag(r, v), GoOn, UNCHANGED <<memory, running>>
  PROVE  RegistersTyped' /\ MemoryTyped' /\ ControlTyped'
  <1>1. RegistersTyped'
    BY AssignTypes
  <1>2. ControlTyped'
    BY GoOnTypes DEF Inv, ControlTyped
  <1> QED
    BY <1>1, <1>2 DEF Inv, MemoryTyped

(* A handler that leaves registers and memory alone.                          *)
LEMMA IdleTypes ==
  ASSUME Inv, phase = "execute", GoOn, running' \in BOOLEAN,
         UNCHANGED <<memory, registers>>
  PROVE  RegistersTyped' /\ MemoryTyped' /\ ControlTyped'
  <1>1. ControlTyped'
    BY GoOnTypes
  <1> QED
    BY <1>1 DEF Inv, MemoryTyped, RegistersTyped

LEMMA PrintFetchedTypes ==
  ASSUME Inv, phase = "execute", NEW text, PrintFetched(text), UNCHANGED running
  PROVE  RegistersTyped' /\ MemoryTyped' /\ ControlTyped'
  <1>1. CASE ~InBounds(registers[R_R0])
    BY <1>1, ThrowTypes DEF PrintFetched
  <1>2. CASE InBounds(registers[R_R0]) /\ isLetter(Fetched)
    BY <1>2 DEF PrintFetched, Inv, MemoryTyped, RegistersTyped, ControlTyped
  <1>3. CASE InBounds(registers[R_R0]) /\ ~isLetter(Fetched)
    <2>1. GoOn /\ UNCHANGED <<memory, registers>>
      BY <1>3 DEF PrintFetched
    <2> QED
      BY <2>1, IdleTypes DEF Inv, ControlTyped
  <1> QED
    BY <1>1, <1>2, <1>3

LEMMA FetchTypes ==
  ASSUME Inv, Fetch
  PROVE  RegistersTyped' /\ MemoryTyped' /\ ControlTyped' /\ instruction' \in JavaInt
  <1>1. Assign(R_PC, ToInt(registers[R_PC] + 1))
    BY DEF Fetch
  <1>2. 1 \in JavaInt
    BY InJavaInt
  <1>3. RegistersTyped'
    BY <1>1, <1>2, PcType, ToIntValue, AssignTypes
  <1>4. Cell(registers[R_PC]) \in JavaInt
    BY CellType
  <1> QED
    BY <1>3, <1>4 DEF Fetch, Inv, MemoryTyped, ControlTyped

LEMMA KeyTypes ==
  ASSUME NEW k \in Keys \cup {-1}
  PROVE  k \in JavaInt /\ Char(k) \in JavaInt
  <1>0. Keys \subseteq Byte
    BY JavaHandlersAssumption, SMTT(30)
  <1>1. k \in Byte \/ k = -1
    BY <1>0, Zenon
  <1>2. k \in Int /\ -1 <= k /\ k <= 255
    BY <1>1, InByte
  <1> QED
    BY <1>2, InJavaInt DEF Char

LEMMA StepTypes ==
  ASSUME Inv, Next
  PROVE  RegistersTyped' /\ MemoryTyped' /\ ControlTyped' /\ instruction' \in JavaInt
  <1>1. CASE Fetch
    BY <1>1, FetchTypes
  <1>2. CASE LeaveLoop
    BY <1>2 DEF LeaveLoop, Inv, MemoryTyped, RegistersTyped, ControlTyped
  <1>3. CASE Next /\ ~Fetch /\ ~LeaveLoop
    <2>1. phase = "execute" /\ UNCHANGED instruction
      BY <1>3 DEF Next, Machine, addOp, bitwiseAnd, bitwiseNot, load, loadIndirect,
         loadRegister, loadEffectiveAddress, store, storeIndirect, storeRegister,
         branch, jump, jumpRegister, noHandler, puts, putsp, out, halt, noTrap, getc,
         in, Trap, Execute
    <2>2. DR \in Registers /\ SR1 \in Registers /\ R_PC \in Registers /\ R_R0 \in Registers
      BY FieldTypes, RegisterTypes, PcType DEF R_R0, Registers
    <2>3. registers[SR1] \in JavaInt /\ registers[R_PC] \in JavaInt
      BY FieldTypes, RegisterTypes, PcType
    <2>4. running \in BOOLEAN
      BY DEF Inv, ControlTyped
    <2>5. ASSUME addOp PROVE RegistersTyped' /\ MemoryTyped' /\ ControlTyped'
      <3>1. ToInt(registers[SR1] + Operand2) \in JavaInt
        BY <2>3, FieldTypes, ToIntValue
      <3> QED
        BY <2>1, <2>2, <2>5, <3>1, ComputeTypes DEF addOp
    <2>6. ASSUME bitwiseAnd PROVE RegistersTyped' /\ MemoryTyped' /\ ControlTyped'
      <3>1. And32(registers[SR1], Operand2) \in JavaInt
        BY <2>3, FieldTypes, And32Value
      <3> QED
        BY <2>1, <2>2, <2>6, <3>1, ComputeTypes DEF bitwiseAnd
    <2>7. ASSUME bitwiseNot PROVE RegistersTyped' /\ MemoryTyped' /\ ControlTyped'
      <3>1. 0 - registers[SR1] - 1 \in JavaInt
        BY <2>3, NotValue
      <3> QED
        BY <2>1, <2>2, <2>7, <3>1, ComputeTypes DEF bitwiseNot
    <2>8. ASSUME load \/ loadIndirect \/ loadRegister
          PROVE  RegistersTyped' /\ MemoryTyped' /\ ControlTyped'
      BY <2>1, <2>8, LoadTypes, ThrowTypes DEF load, loadIndirect, loadRegister
    <2>9. ASSUME loadEffectiveAddress PROVE RegistersTyped' /\ MemoryTyped' /\ ControlTyped'
      BY <2>1, <2>2, <2>9, FieldTypes, ComputeTypes DEF loadEffectiveAddress
    <2>10. ASSUME store \/ storeIndirect \/ storeRegister
           PROVE  RegistersTyped' /\ MemoryTyped' /\ ControlTyped'
      BY <2>1, <2>10, StoreTypes, ThrowTypes DEF store, storeIndirect, storeRegister
    <2>11. ASSUME branch PROVE RegistersTyped' /\ MemoryTyped' /\ ControlTyped'
      <3>1. Assign(R_PC, PcRelative) \/ UNCHANGED registers
        BY <2>11 DEF branch
      <3> QED
        BY <2>1, <2>2, <2>4, <2>11, <3>1, FieldTypes, ComputeTypes, IdleTypes DEF branch
    <2>12. ASSUME jump PROVE RegistersTyped' /\ MemoryTyped' /\ ControlTyped'
      <3> DEFINE baseR == instruction \div 128
      <3>1. CASE baseR \in Registers
        <4>1. registers[baseR] \in JavaInt
          BY <3>1 DEF Inv, RegistersTyped
        <4> QED
          BY <2>1, <2>2, <2>12, <3>1, <4>1, ComputeTypes DEF jump
      <3>2. CASE baseR \notin Registers
        BY <2>12, <3>2, ThrowTypes DEF jump
      <3> QED
        BY <3>1, <3>2
    <2>13. ASSUME jumpRegister PROVE RegistersTyped' /\ MemoryTyped' /\ ControlTyped'
      <3>1. /\ SR1 \in JavaInt
            /\ ToInt(registers[R_PC] + PcOffset11) \in JavaInt
        BY <2>3, FieldTypes, ToIntValue, InJavaInt
      <3>2. RegistersTyped'
        BY <2>3, <2>13, <3>1 DEF jumpRegister, Inv, RegistersTyped, R_PC, R_R7
      <3>3. ControlTyped'
        BY <2>1, <2>4, <2>13, GoOnTypes DEF jumpRegister
      <3> QED
        BY <2>13, <3>2, <3>3 DEF jumpRegister, Inv, MemoryTyped
    <2>14. ASSUME noHandler \/ out \/ halt \/ noTrap
           PROVE  RegistersTyped' /\ MemoryTyped' /\ ControlTyped'
      BY <2>1, <2>4, <2>14, IdleTypes DEF noHandler, out, halt, noTrap
    <2>15. ASSUME puts \/ putsp PROVE RegistersTyped' /\ MemoryTyped' /\ ControlTyped'
      BY <2>1, <2>15, PrintFetchedTypes DEF puts, putsp
    <2>16. ASSUME getc \/ in PROVE RegistersTyped' /\ MemoryTyped' /\ ControlTyped'
      <3>1. PICK k \in Keys \cup {-1} : Assign(R_R0, k) \/ Assign(R_R0, Char(k))
        BY <2>16 DEF getc, in
      <3> QED
        BY <2>1, <2>2, <2>16, <3>1, KeyTypes, ComputeTypes DEF getc, in
    <2>17. instruction' \in JavaInt
      BY <2>1 DEF Inv
    <2> QED
      BY <1>3, <2>5, <2>6, <2>7, <2>8, <2>9, <2>10, <2>11, <2>12, <2>13, <2>14, <2>15,
         <2>16, <2>17 DEF Next, Machine
  <1> QED
    BY <1>1, <1>2, <1>3

(* Registers and cells stay ints, whatever the guest does.                    *)
THEOREM Invariance == TwinSpec => []Inv
  <1>1. TwinInit => Inv
    <2> SUFFICES ASSUME TwinInit PROVE Inv
      OBVIOUS
    <2>1. 0 \in JavaInt
      BY InJavaInt
    <2>2. memory \in Images
      BY DEF TwinInit, Init
    <2>3. /\ DOMAIN memory \subseteq 0 .. MemorySize - 1
          /\ \A a \in DOMAIN memory : memory[a] \in Word
      <3>1. \A m \in Images : /\ DOMAIN m \subseteq 0 .. MemorySize - 1
                              /\ \A a \in DOMAIN m : m[a] \in Word
        BY JavaHandlersAssumption, SMTT(30)
      <3> QED
        BY <2>2, <3>1, Zenon
    <2>4. MemoryTyped
      BY <2>3, WordIsInt DEF MemoryTyped
    <2> QED
      BY <2>1, <2>4 DEF TwinInit, Init, Inv, RegistersTyped, ControlTyped
  <1>2. Inv /\ [TwinNext]_twinVars => Inv'
    <2> SUFFICES ASSUME Inv, [TwinNext]_twinVars PROVE Inv'
      OBVIOUS
    <2>1. CASE TwinNext
      <3>1. cond' \in {C!FL_POS, C!FL_ZR, C!FL_NEG}
        BY <2>1 DEF TwinNext, Inv, C!FlagOf
      <3> QED
        BY <2>1, <3>1, StepTypes DEF TwinNext, Inv, C!FL_POS, C!FL_ZR, C!FL_NEG
    <2>2. CASE UNCHANGED twinVars
      BY <2>2 DEF twinVars, vars, Inv, RegistersTyped, MemoryTyped, ControlTyped,
         C!FL_POS, C!FL_ZR, C!FL_NEG
    <2> QED
      BY <2>1, <2>2
  <1> QED
    BY <1>1, <1>2, PTL DEF TwinSpec

-------------------------------------------------------------------------------
(* The flags. *)

(* What updateFlags() leaves of an int that an instruction computed.          *)
LEMMA FlagOfWord ==
  ASSUME NEW v \in JavaInt
  PROVE  IF v \in Word THEN Describes(FlagOf(v), v % 65536) ELSE FlagOf(v) = FL_POS
  <1>1. CASE v \in Word
    <2>1. v \in Int /\ 0 <= v /\ v <= 65535 /\ v % 65536 = v
      BY <1>1, InWord
    <2>2. CASE v = 0
      BY <1>1, <2>1, <2>2 DEF FlagOf, Describes
    <2>3. CASE v # 0 /\ v < 32768
      BY <1>1, <2>1, <2>3 DEF FlagOf, Describes
    <2>4. CASE v >= 32768
      BY <1>1, <2>1, <2>4 DEF FlagOf, Describes
    <2> QED
      BY <2>1, <2>2, <2>3, <2>4
  <1>2. CASE v \notin Word
    BY <1>2, InWord, InJavaInt DEF FlagOf
  <1> QED
    BY <1>1, <1>2

AgreesOnWord ==
  LET value == registers'[DR]
      word == value % 65536
  IN IF value \in Word THEN Describes(registers'[R_COND], word)
                       ELSE registers'[R_COND] = FL_POS

LEMMA AssignAgrees ==
  ASSUME Inv, NEW v \in JavaInt, AssignAndFlag(DR, v)
  PROVE  AgreesOnWord
  <1>1. DR \in Registers /\ R_COND \in Registers /\ DR # R_COND
    BY FieldTypes, RegisterTypes DEF R_COND, Registers
  <1>2. registers'[DR] = v /\ registers'[R_COND] = FlagOf(v)
    BY <1>1 DEF AssignAndFlag, Inv, RegistersTyped
  <1> QED
    BY <1>2, FlagOfWord DEF AgreesOnWord

LEMMA LoadAgrees ==
  ASSUME Inv, NEW a, LoadFrom(a), exception' = "none"
  PROVE  AgreesOnWord
  <1>1. InBounds(a)
    BY DEF LoadFrom, Throw
  <1> QED
    BY <1>1, CellType, AssignAgrees DEF LoadFrom

(* The flags of the Java machine mean what the word means until an int        *)
(* outgrows its word, and nothing but "positive" from then on.                *)
THEOREM FlagsOfInts == TwinSpec => FlagsAgreeOnWords
  <1>1. ASSUME Inv, [TwinNext]_twinVars, vars' # vars,
               phase = "execute", exception' = "none",
               Opcode \in {OP_ADD, OP_AND, OP_NOT, OP_LD, OP_LDI, OP_LDR, OP_LEA}
        PROVE  AgreesOnWord
    <2>1. Next
      BY <1>1 DEF twinVars, TwinNext
    <2>2. \/ addOp \/ bitwiseAnd \/ bitwiseNot \/ load \/ loadIndirect \/ loadRegister
          \/ loadEffectiveAddress
      BY <1>1, <2>1 DEF Next, Machine, Fetch, LeaveLoop, store, storeIndirect,
         storeRegister, branch, jump, jumpRegister, noHandler, puts, putsp, out, halt,
         noTrap, getc, in, Trap, Execute, OP_ADD, OP_AND, OP_NOT, OP_LD, OP_LDI, OP_LDR,
         OP_LEA, OP_BR, OP_ST, OP_JSR, OP_STR, OP_RTI, OP_STI, OP_JMP, OP_RES, OP_TRAP
    <2>3. registers[SR1] \in JavaInt
      BY <1>1, FieldTypes, RegisterTypes
    <2>4. ASSUME addOp PROVE AgreesOnWord
      <3>1. ToInt(registers[SR1] + Operand2) \in JavaInt
        BY <1>1, <2>3, FieldTypes, ToIntValue
      <3> QED
        BY <1>1, <2>4, <3>1, AssignAgrees DEF addOp
    <2>5. ASSUME bitwiseAnd PROVE AgreesOnWord
      <3>1. And32(registers[SR1], Operand2) \in JavaInt
        BY <1>1, <2>3, FieldTypes, And32Value
      <3> QED
        BY <1>1, <2>5, <3>1, AssignAgrees DEF bitwiseAnd
    <2>6. ASSUME bitwiseNot PROVE AgreesOnWord
      <3>1. 0 - registers[SR1] - 1 \in JavaInt
        BY <2>3, NotValue
      <3> QED
        BY <1>1, <2>6, <3>1, AssignAgrees DEF bitwiseNot
    <2>7. ASSUME load \/ loadIndirect \/ loadRegister PROVE AgreesOnWord
      BY <1>1, <2>7, LoadAgrees DEF load, loadIndirect, loadRegister, Throw
    <2>8. ASSUME loadEffectiveAddress PROVE AgreesOnWord
      BY <1>1, <2>8, FieldTypes, AssignAgrees DEF loadEffectiveAddress
    <2> QED
      BY <2>2, <2>4, <2>5, <2>6, <2>7, <2>8
  <1>2. Inv /\ [TwinNext]_twinVars =>
          [phase = "execute" /\ exception' = "none"
             /\ Opcode \in {OP_ADD, OP_AND, OP_NOT, OP_LD, OP_LDI, OP_LDR, OP_LEA} =>
             AgreesOnWord]_vars
    BY <1>1
  <1> QED
    BY <1>2, Invariance, PTL DEF TwinSpec, FlagsAgreeOnWords, AgreesOnWord

-------------------------------------------------------------------------------
(* The two machines side by side. *)

LEMMA OpcodeIsOfAWord ==
  ASSUME Inv, Opcode \in 0 .. 15
  PROVE  instruction \in Word /\ instruction % 65536 = instruction
  BY InWord, InJavaInt DEF Inv, Opcode

(* The fields vm.c sees in the word of the instruction.                       *)
LEMMA FieldsAsC ==
  ASSUME Inv, Opcode \in 0 .. 15
  PROVE  /\ C!Opcode = Opcode
         /\ C!DR = DR /\ C!SR1 = SR1
         /\ C!PcOffset9 = PcOffset9 % 65536 /\ C!PcOffset11 = PcOffset11 % 65536
  <1>1. instruction \in Int /\ instruction % 65536 = instruction
    BY OpcodeIsOfAWord, InWord
  <1>2. /\ instruction % 512 \in Int /\ 0 <= instruction % 512 /\ instruction % 512 < 2 * 256
        /\ instruction % 2048 \in Int /\ 0 <= instruction % 2048
        /\ instruction % 2048 < 2 * 1024
    BY <1>1
  <1>3. C!PcOffset9 = PcOffset9 % 65536
    BY <1>1, <1>2, signExtendValue
       DEF PcOffset9, C!PcOffset9, C!SignExtend, SignExtend, Instruction16
  <1>4. C!PcOffset11 = PcOffset11 % 65536
    BY <1>1, <1>2, signExtendValue
       DEF PcOffset11, C!PcOffset11, C!SignExtend, SignExtend, Instruction16
  <1> QED
    BY <1>1, <1>3, <1>4 DEF Opcode, DR, SR1, C!Opcode, C!DR, C!SR1, Instruction16

LEMMA Operand2AsC ==
  ASSUME Inv, Opcode \in 0 .. 15
  PROVE  C!Operand2 = Operand2 % 65536
  <1>1. instruction \in Int /\ instruction % 65536 = instruction
    BY OpcodeIsOfAWord, InWord
  <1>2. /\ instruction % 32 \in Int /\ 0 <= instruction % 32 /\ instruction % 32 < 2 * 16
    BY <1>1
  <1>3. signExtend(instruction % 32, 16) % 65536 = SignExtend(instruction % 32, 16)
    BY <1>2, signExtendValue
  <1>4. C!Imm5 = SignExtend(instruction % 32, 16)
    BY <1>1 DEF C!Imm5, C!SignExtend, SignExtend, Instruction16
  <1>5. SR2 \in Registers /\ SR2 # R_COND
    BY FieldTypes, RegisterTypes
  <1>6. C!SR2 = SR2 /\ C!ImmFlag = (instruction \div 32) % 2
    BY <1>1 DEF C!SR2, C!ImmFlag, SR2, Instruction16
  <1>7. CASE (instruction \div 32) % 2 = 1
    BY <1>3, <1>4, <1>6, <1>7 DEF Operand2, C!Operand2
  <1>8. CASE (instruction \div 32) % 2 # 1
    BY <1>5, <1>6, <1>8 DEF Operand2, C!Operand2, Registers16
  <1> QED
    BY <1>7, <1>8

LEMMA PcRelativeAsC ==
  ASSUME Inv, Opcode \in 0 .. 15
  PROVE  C!PcRelative = PcRelative % 65536
  <1>1. R_PC \in Registers /\ R_PC # R_COND /\ registers[R_PC] \in JavaInt
    BY PcType DEF R_PC, R_COND
  <1>2. ToInt(registers[R_PC] + PcOffset9) % 65536
          = ((registers[R_PC] % 65536) + (PcOffset9 % 65536)) % 65536
    BY <1>1, FieldTypes, ToIntValue
  <1>3. C!PcRelative = ((registers[R_PC] % 65536) + (PcOffset9 % 65536)) % 65536
    BY <1>1, FieldsAsC DEF C!PcRelative, C!Wrap, C!R_PC, R_PC, Registers16
  <1> QED
    BY <1>2, <1>3 DEF PcRelative

(* vm.c reads the word of the cell, and writes it.                            *)
LEMMA InMemory ==
  ASSUME NEW a, InBounds(a), a \notin Mapped
  PROVE  a \in Int /\ 0 <= a /\ a < 65535 /\ a % 65536 = a
  <1>1. MemorySize \in Int /\ MemorySize <= 65536
    BY JavaHandlersAssumption, SMTT(30)
  <1>2. a \in Int /\ 0 <= a /\ a <= MemorySize - 1
    BY <1>1 DEF InBounds
  <1>3. a # 65535
    BY DEF Mapped
  <1>4. 0 <= a /\ a < 65535 /\ a % 65536 = a
    BY <1>1, <1>2, <1>3
  <1> QED
    BY <1>2, <1>4

LEMMA ReadAsC ==
  ASSUME Inv, NEW a, InBounds(a), a \notin Mapped, NEW s
  PROVE  C!MemoryRead(a, s) = {[val |-> Cell(a) % 65536, in |-> s]}
  <1>1. a \in Int /\ 0 <= a /\ a < 65535
    BY InMemory
  <1>2. C!Cell(a) = Cell(a) % 65536
    BY <1>1 DEF C!Cell, Cell, Words16
  <1>3. a \notin {C!MR_KBSR, C!MR_KBDR, C!MR_DSR, C!MR_DDR, C!UINT16_MAX}
    BY DEF Mapped, C!UINT16_MAX
  <1> QED
    BY <1>2, <1>3 DEF C!MemoryRead

LEMMA Registers16Function ==
  /\ Registers16 = [q \in Registers |-> Registers16[q]]
  /\ Registers16' = [q \in Registers |-> Registers16'[q]]
  /\ \A q \in Registers : Registers16[q] = IF q = R_COND THEN cond ELSE registers[q] % 65536
  /\ \A q \in Registers :
       Registers16'[q] = IF q = R_COND THEN cond' ELSE registers'[q] % 65536
  BY DEF Registers16

LEMMA AssignAsC ==
  ASSUME Inv, NEW r \in Registers \ {R_COND}, NEW v, Assign(r, v), UNCHANGED cond
  PROVE  C!Assign(r, v % 65536)
  <1>1. registers' = [registers EXCEPT ![r] = v] /\ DOMAIN registers = Registers
    BY DEF Assign, Inv, RegistersTyped
  <1>2. \A q \in Registers : registers'[q] = IF q = r THEN v ELSE registers[q]
    BY <1>1
  <1>3. Registers16' = [Registers16 EXCEPT ![r] = v % 65536]
    BY <1>2, Registers16Function
  <1> QED
    BY <1>3 DEF C!Assign

LEMMA AssignAndFlagAsC ==
  ASSUME Inv, NEW r \in Registers \ {R_COND}, NEW v, AssignAndFlag(r, v)
  PROVE  /\ registers'[r] = v
         /\ cond' = C!FlagOf(v % 65536) => C!AssignAndFlag(r, v % 65536)
         /\ UNCHANGED cond => C!Assign(r, v % 65536)
  <1>1. /\ registers' = [registers EXCEPT ![r] = v, ![R_COND] = FlagOf(v)]
        /\ DOMAIN registers = Registers
    BY DEF AssignAndFlag, Inv, RegistersTyped
  <1>2. R_COND \in Registers /\ C!R_COND = R_COND
    BY DEF R_COND, C!R_COND, Registers
  <1>3. \A q \in Registers \ {R_COND} : registers'[q] = IF q = r THEN v ELSE registers[q]
    BY <1>1
  <1>4. Registers16' = [Registers16 EXCEPT ![r] = v % 65536, ![R_COND] = cond']
    BY <1>2, <1>3, Registers16Function
  <1>5. cond' = C!FlagOf(v % 65536) => C!AssignAndFlag(r, v % 65536)
    BY <1>2, <1>4 DEF C!AssignAndFlag
  <1>6. UNCHANGED cond => Registers16' = [Registers16 EXCEPT ![r] = v % 65536]
    BY <1>2, <1>3, Registers16Function
  <1>7. UNCHANGED cond => C!Assign(r, v % 65536)
    BY <1>6 DEF C!Assign
  <1> QED
    BY <1>3, <1>5, <1>7

LEMMA WriteAsC ==
  ASSUME Inv, NEW a, InBounds(a), a \notin Mapped, NEW v,
         memory' = [b \in DOMAIN memory \cup {a} |-> IF b = a THEN v ELSE memory[b]]
  PROVE  C!MemoryWrite(a, v % 65536)
  <1>1. DOMAIN Words16 = DOMAIN memory
    BY DEF Words16
  <1>2. Words16' = [b \in DOMAIN Words16 \cup {a} |->
                      IF b = a THEN v % 65536 ELSE Words16[b]]
    <2>1. DOMAIN memory' = DOMAIN Words16 \cup {a}
      BY <1>1
    <2>2. ASSUME NEW b \in DOMAIN Words16 \cup {a}
          PROVE  memory'[b] % 65536 = IF b = a THEN v % 65536 ELSE Words16[b]
      BY <1>1, <2>2 DEF Words16
    <2> QED
      BY <2>1, <2>2 DEF Words16
  <1> QED
    BY <1>2 DEF C!MemoryWrite

(* What the handlers of vm.c have in common: the loop goes round, and no      *)
(* input is taken.                                                            *)
LEMMA RoundAsC ==
  ASSUME Inv, phase = "execute", Opcode \in 0 .. 15, GoOn, UNCHANGED instruction
  PROVE  C!Execute(Opcode) /\ UNCHANGED <<NoInput, << >>>>
  <1>1. C!Opcode = Opcode
    BY FieldsAsC
  <1>2. PhaseOfC = "execute" /\ PhaseOfC' = "fetch" /\ UNCHANGED Instruction16
    BY DEF PhaseOfC, GoOn, Instruction16
  <1> QED
    BY <1>1, <1>2 DEF C!Execute, NoInput

LEMMA DestinationAsC ==
  ASSUME Inv, Opcode \in 0 .. 15
  PROVE  /\ DR \in Registers \ {R_COND} /\ C!DR = DR
         /\ registers[DR] \in JavaInt /\ Registers16[DR] = registers[DR] % 65536
  <1>1. DR \in Registers /\ DR # R_COND /\ registers[DR] \in JavaInt
    BY FieldTypes, RegisterTypes
  <1> QED
    BY <1>1, FieldsAsC, Registers16Function

LEMMA SourceAsC ==
  ASSUME Inv, Opcode \in 0 .. 15
  PROVE  registers[SR1] \in JavaInt /\ Registers16[C!SR1] = registers[SR1] % 65536
  <1>1. SR1 \in Registers /\ SR1 # R_COND /\ registers[SR1] \in JavaInt
    BY FieldTypes, RegisterTypes
  <1> QED
    BY <1>1, FieldsAsC, Registers16Function

LEMMA AddAsC ==
  ASSUME Inv, addOp, cond' = C!FlagOf(registers'[DR] % 65536)
  PROVE  C!Add
  <1>1. Opcode = OP_ADD /\ Opcode \in 0 .. 15 /\ C!OP_ADD = OP_ADD
    BY DEF addOp, Execute, OP_ADD, C!OP_ADD
  <1> DEFINE sum == ToInt(registers[SR1] + Operand2)
  <1>2. AssignAndFlag(DR, sum)
    BY DEF addOp
  <1>3. sum % 65536 = C!Wrap(Registers16[C!SR1] + C!Operand2)
    <2>1. sum % 65536 = ((registers[SR1] % 65536) + (Operand2 % 65536)) % 65536
      BY <1>1, SourceAsC, FieldTypes, ToIntValue
    <2> QED
      BY <1>1, <2>1, SourceAsC, Operand2AsC DEF C!Wrap
  <1> HIDE DEF sum
  <1>4. C!AssignAndFlag(C!DR, sum % 65536)
    BY <1>1, <1>2, DestinationAsC, AssignAndFlagAsC
  <1>5. C!Execute(C!OP_ADD) /\ UNCHANGED <<Words16, running, NoInput, << >>>>
    BY <1>1, RoundAsC DEF addOp, Execute, Words16
  <1> QED
    BY <1>3, <1>4, <1>5 DEF C!Add

LEMMA AndAsC ==
  ASSUME Inv, bitwiseAnd, UNCHANGED cond
  PROVE  C!And
  <1>1. Opcode = OP_AND /\ Opcode \in 0 .. 15 /\ C!OP_AND = OP_AND
    BY DEF bitwiseAnd, Execute, OP_AND, C!OP_AND
  <1> DEFINE conj == And32(registers[SR1], Operand2)
  <1>2. AssignAndFlag(DR, conj)
    BY DEF bitwiseAnd
  <1>3. conj % 65536 = C!BitAnd(Registers16[C!SR1], C!Operand2)
    <2>1. conj % 65536 = BitAnd(registers[SR1] % 65536, Operand2 % 65536)
      BY <1>1, SourceAsC, FieldTypes, And32Value
    <2>2. ASSUME NEW x, NEW y PROVE C!BitAnd(x, y) = BitAnd(x, y)
      BY DEF C!BitAnd, C!And8, C!And4, C!And2, BitAnd, And8, And4, And2
    <2> QED
      BY <1>1, <2>1, <2>2, SourceAsC, Operand2AsC
  <1> HIDE DEF conj
  <1>4. C!Assign(C!DR, conj % 65536)
    BY <1>1, <1>2, DestinationAsC, AssignAndFlagAsC
  <1>5. C!Execute(C!OP_AND) /\ UNCHANGED <<Words16, running, NoInput, << >>>>
    BY <1>1, RoundAsC DEF bitwiseAnd, Execute, Words16
  <1> QED
    BY <1>3, <1>4, <1>5 DEF C!And

LEMMA NotAsC ==
  ASSUME Inv, bitwiseNot, cond' = C!FlagOf(registers'[DR] % 65536)
  PROVE  C!Not
  <1>1. Opcode = OP_NOT /\ Opcode \in 0 .. 15 /\ C!OP_NOT = OP_NOT
    BY DEF bitwiseNot, Execute, OP_NOT, C!OP_NOT
  <1> DEFINE not == 0 - registers[SR1] - 1
  <1>2. AssignAndFlag(DR, not)
    BY DEF bitwiseNot
  <1>3. not % 65536 = C!BitNot(Registers16[C!SR1])
    BY <1>1, SourceAsC, NotValue DEF C!BitNot, BitNot
  <1> HIDE DEF not
  <1>4. C!AssignAndFlag(C!DR, not % 65536)
    BY <1>1, <1>2, DestinationAsC, AssignAndFlagAsC
  <1>5. C!Execute(C!OP_NOT) /\ UNCHANGED <<Words16, running, NoInput, << >>>>
    BY <1>1, RoundAsC DEF bitwiseNot, Execute, Words16
  <1> QED
    BY <1>3, <1>4, <1>5 DEF C!Not

LEMMA LeaAsC ==
  ASSUME Inv, loadEffectiveAddress, cond' = C!FlagOf(registers'[DR] % 65536)
  PROVE  C!Lea
  <1>1. Opcode = OP_LEA /\ Opcode \in 0 .. 15 /\ C!OP_LEA = OP_LEA
    BY DEF loadEffectiveAddress, Execute, OP_LEA, C!OP_LEA
  <1>2. C!AssignAndFlag(C!DR, PcRelative % 65536)
    BY <1>1, DestinationAsC, AssignAndFlagAsC DEF loadEffectiveAddress
  <1>3. C!Execute(C!OP_LEA) /\ UNCHANGED <<Words16, running, NoInput, << >>>>
    BY <1>1, RoundAsC DEF loadEffectiveAddress, Execute, Words16
  <1> QED
    BY <1>1, <1>2, <1>3, PcRelativeAsC DEF C!Lea

LEMMA LdAsC ==
  ASSUME Inv, load, exception' = "none", ~Differs,
         cond' = C!FlagOf(registers'[DR] % 65536)
  PROVE  C!Ld
  <1>1. Opcode = OP_LD /\ Opcode \in 0 .. 15 /\ C!OP_LD = OP_LD
    BY DEF load, Execute, OP_LD, C!OP_LD
  <1>2. PcRelative \notin Mapped
    BY <1>1 DEF Differs, Addresses, load, Execute
  <1>3. InBounds(PcRelative) /\ AssignAndFlag(DR, Cell(PcRelative)) /\ GoOn
        /\ UNCHANGED memory
    BY DEF load, LoadFrom, Throw
  <1>4. C!PcRelative = PcRelative
    BY <1>1, <1>2, <1>3, PcRelativeAsC, InMemory
  <1>5. C!MemoryRead(C!PcRelative, NoInput)
          = {[val |-> Cell(PcRelative) % 65536, in |-> NoInput]}
    BY <1>2, <1>3, <1>4, ReadAsC
  <1>6. C!AssignAndFlag(C!DR, Cell(PcRelative) % 65536)
    BY <1>1, <1>3, DestinationAsC, AssignAndFlagAsC
  <1>7. C!Execute(C!OP_LD) /\ UNCHANGED <<Words16, running, NoInput, << >>>>
    BY <1>1, <1>3, RoundAsC DEF load, Execute, Words16
  <1> QED
    BY <1>5, <1>6, <1>7 DEF C!Ld

LEMMA LdiAsC ==
  ASSUME Inv, loadIndirect, exception' = "none", ~Differs, UNCHANGED cond
  PROVE  C!Ldi
  <1> DEFINE pointer == Cell(PcRelative)
  <1>1. Opcode = OP_LDI /\ Opcode \in 0 .. 15 /\ C!OP_LDI = OP_LDI
    BY DEF loadIndirect, Execute, OP_LDI, C!OP_LDI
  <1>2. PcRelative \notin Mapped /\ pointer \notin Mapped
    BY <1>1 DEF Differs, Addresses, loadIndirect, Execute, OP_LDI, OP_LD, OP_ST
  <1>3. InBounds(PcRelative) /\ InBounds(pointer) /\ AssignAndFlag(DR, Cell(pointer))
        /\ GoOn /\ UNCHANGED memory
    BY DEF loadIndirect, LoadFrom, Throw
  <1>4. C!PcRelative = PcRelative
    BY <1>1, <1>2, <1>3, PcRelativeAsC, InMemory
  <1>5. pointer % 65536 = pointer
    BY <1>2, <1>3, InMemory
  <1>6. C!MemoryRead(C!PcRelative, NoInput) = {[val |-> pointer, in |-> NoInput]}
    BY <1>2, <1>3, <1>4, <1>5, ReadAsC
  <1>7. C!MemoryRead(pointer, NoInput) = {[val |-> Cell(pointer) % 65536, in |-> NoInput]}
    BY <1>2, <1>3, ReadAsC
  <1> HIDE DEF pointer
  <1>8. C!Assign(C!DR, Cell(pointer) % 65536)
    BY <1>1, <1>3, DestinationAsC, AssignAndFlagAsC
  <1>9. C!Execute(C!OP_LDI) /\ UNCHANGED <<Words16, running, NoInput, << >>>>
    BY <1>1, <1>3, RoundAsC DEF loadIndirect, Execute, Words16
  <1>10. \E r \in C!MemoryRead(pointer, NoInput) : C!Assign(C!DR, r.val) /\ NoInput' = r.in
    BY <1>7, <1>8, <1>9
  <1>11. \E p \in C!MemoryRead(C!PcRelative, NoInput) :
           \E r \in C!MemoryRead(p.val, p.in) : C!Assign(C!DR, r.val) /\ NoInput' = r.in
    <2> DEFINE p == [val |-> pointer, in |-> NoInput]
    <2>1. p.val = pointer /\ p.in = NoInput /\ p \in C!MemoryRead(C!PcRelative, NoInput)
      BY <1>6
    <2> HIDE DEF p
    <2> QED
      BY <1>10, <2>1, Zenon
  <1> QED
    BY <1>9, <1>11, Zenon DEF C!Ldi

LEMMA StAsC ==
  ASSUME Inv, store, exception' = "none", ~Differs, UNCHANGED cond
  PROVE  C!St
  <1>1. Opcode = OP_ST /\ Opcode \in 0 .. 15 /\ C!OP_ST = OP_ST
    BY DEF store, Execute, OP_ST, C!OP_ST
  <1>2. PcRelative \notin Mapped
    BY <1>1 DEF Differs, Addresses, store, Execute, OP_LD, OP_ST
  <1>3. /\ InBounds(PcRelative)
        /\ memory' = [b \in DOMAIN memory \cup {PcRelative} |->
                        IF b = PcRelative THEN registers[DR] ELSE memory[b]]
        /\ GoOn /\ UNCHANGED registers
    BY DEF store, StoreTo, Throw
  <1>4. C!PcRelative = PcRelative
    BY <1>1, <1>2, <1>3, PcRelativeAsC, InMemory
  <1>5. C!MemoryWrite(PcRelative, registers[DR] % 65536)
    BY <1>2, <1>3, WriteAsC
  <1>6. C!MemoryWrite(C!PcRelative, Registers16[C!DR])
    BY <1>1, <1>4, <1>5, DestinationAsC
  <1>7. C!Execute(C!OP_ST) /\ UNCHANGED <<Registers16, running, NoInput, << >>>>
    BY <1>1, <1>3, RoundAsC DEF store, Execute, Registers16
  <1> QED
    BY <1>6, <1>7 DEF C!St

LEMMA BrAsC ==
  ASSUME Inv, branch, UNCHANGED cond
  PROVE  C!Br
  <1>1. Opcode = OP_BR /\ Opcode \in 0 .. 15 /\ C!OP_BR = OP_BR
    BY DEF branch, Execute, OP_BR, C!OP_BR
  <1>2. R_PC \in Registers \ {R_COND} /\ C!R_PC = R_PC
    BY DEF R_PC, C!R_PC, R_COND, Registers
  <1>3. C!Execute(C!OP_BR) /\ UNCHANGED <<Words16, running, NoInput, << >>>>
    BY <1>1, RoundAsC DEF branch, Execute, Words16
  <1>4. CASE DR # 0
    <2>1. C!Assign(C!R_PC, C!PcRelative)
      BY <1>1, <1>2, <1>4, AssignAsC, PcRelativeAsC DEF branch
    <2> QED
      BY <1>1, <1>3, <1>4, <2>1, DestinationAsC DEF C!Br
  <1>5. CASE DR = 0
    <2>1. UNCHANGED Registers16
      BY <1>5 DEF branch, Registers16
    <2> QED
      BY <1>1, <1>3, <1>5, <2>1, DestinationAsC DEF C!Br
  <1> QED
    BY <1>4, <1>5

LEMMA JsrAsC ==
  ASSUME Inv, jumpRegister, ~ByRegister, UNCHANGED cond
  PROVE  C!Jsr
  <1>1. Opcode = OP_JSR /\ Opcode \in 0 .. 15 /\ C!OP_JSR = OP_JSR
    BY DEF jumpRegister, Execute, OP_JSR, C!OP_JSR
  <1>2. /\ R_PC \in Registers /\ R_R7 \in Registers
        /\ R_PC # R_R7 /\ R_PC # R_COND /\ R_R7 # R_COND
        /\ C!R_PC = R_PC /\ C!R_R7 = R_R7 /\ registers[R_PC] \in JavaInt
    BY PcType DEF R_PC, C!R_PC, R_R7, C!R_R7, R_COND, Registers
  <1> DEFINE target == ToInt(registers[R_PC] + PcOffset11)
  <1>3. target % 65536 = C!Wrap(Registers16[R_PC] + C!PcOffset11)
    <2>1. target % 65536 = ((registers[R_PC] % 65536) + (PcOffset11 % 65536)) % 65536
      BY <1>2, FieldTypes, ToIntValue
    <2> QED
      BY <1>1, <1>2, <2>1, FieldsAsC, Registers16Function DEF C!Wrap
  <1>4. /\ registers' = [registers EXCEPT ![R_R7] = registers[R_PC], ![R_PC] = target]
        /\ DOMAIN registers = Registers
    BY <1>2 DEF jumpRegister, Inv, RegistersTyped
  <1> HIDE DEF target
  <1>5. C!Linked[C!R_PC] = Registers16[R_PC]
    BY <1>2, Registers16Function DEF C!Linked
  <1>6. \A q \in Registers :
          Registers16'[q] = IF q = R_PC THEN target % 65536
                            ELSE IF q = R_R7 THEN Registers16[R_PC] ELSE Registers16[q]
    BY <1>2, <1>4, Registers16Function
  <1>7. Registers16' = [C!Linked EXCEPT ![C!R_PC] = target % 65536]
    BY <1>2, <1>6, Registers16Function DEF C!Linked
  <1>8. (Instruction16 \div 2048) % 2 = 1
    <2>1. Instruction16 = instruction /\ instruction \in Int
      BY <1>1, OpcodeIsOfAWord, InWord DEF Instruction16
    <2>2. (instruction \div 2048) % 2 # 0
      BY <1>1 DEF ByRegister
    <2> QED
      BY <2>1, <2>2
  <1>9. C!JsrTarget = target % 65536
    BY <1>3, <1>5, <1>8 DEF C!JsrTarget
  <1>10. C!Execute(C!OP_JSR) /\ UNCHANGED <<Words16, running, NoInput, << >>>>
    BY <1>1, RoundAsC DEF jumpRegister, Execute, Words16
  <1> QED
    BY <1>7, <1>9, <1>10 DEF C!Jsr

LEMMA NoHandlerAsC ==
  ASSUME Inv, noHandler, ~Differs, UNCHANGED cond
  PROVE  C!NoHandler
  <1>1. Opcode \in {OP_RTI, OP_RES} /\ Opcode \in 0 .. 15
    BY DEF noHandler, Differs, OP_RTI, OP_RES
  <1>2. C!Execute(Opcode) /\ UNCHANGED <<Words16, Registers16, running, NoInput, << >>>>
    BY <1>1, RoundAsC DEF noHandler, Words16, Registers16
  <1> QED
    BY <1>1, <1>2 DEF C!NoHandler, OP_RTI, OP_RES, C!OP_RTI, C!OP_RES

LEMMA FetchAsC ==
  ASSUME Inv, Fetch, exception' = "none", ~Differs, UNCHANGED cond
  PROVE  C!Fetch
  <1> DEFINE pc == registers[R_PC]
  <1>1. R_PC \in Registers \ {R_COND} /\ C!R_PC = R_PC /\ pc \in JavaInt
    BY PcType DEF R_PC, C!R_PC, R_COND, Registers
  <1>2. pc \notin Mapped
    BY DEF Differs, Addresses, Fetch
  <1>3. /\ InBounds(pc) /\ phase = "fetch" /\ running
        /\ phase' = "execute" /\ instruction' = Cell(pc)
        /\ Assign(R_PC, ToInt(pc + 1)) /\ UNCHANGED <<memory, running>>
    BY DEF Fetch
  <1>4. Registers16[C!R_PC] = pc /\ pc \in Int
    BY <1>1, <1>2, <1>3, InMemory, Registers16Function
  <1>5. C!MemoryRead(Registers16[C!R_PC], NoInput)
          = {[val |-> Cell(pc) % 65536, in |-> NoInput]}
    BY <1>2, <1>3, <1>4, ReadAsC
  <1>6. ToInt(pc + 1) % 65536 = C!Wrap(pc + 1)
    <2>1. 1 \in JavaInt
      BY InJavaInt
    <2>2. ToInt(pc + 1) % 65536 = ((pc % 65536) + (1 % 65536)) % 65536
      BY <1>1, <2>1, ToIntValue
    <2> QED
      BY <1>4, <2>2 DEF C!Wrap
  <1>7. C!Assign(C!R_PC, C!Wrap(Registers16[C!R_PC] + 1))
    BY <1>1, <1>3, <1>4, <1>6, AssignAsC
  <1>8. /\ PhaseOfC = "fetch" /\ PhaseOfC' = "execute"
        /\ Instruction16' = Cell(pc) % 65536
        /\ UNCHANGED <<Words16, running, NoInput, << >>>>
    BY <1>3 DEF PhaseOfC, Instruction16, Words16, NoInput
  <1> QED
    BY <1>3, <1>5, <1>7, <1>8 DEF C!Fetch

LEMMA LeaveLoopAsC ==
  ASSUME Inv, LeaveLoop, UNCHANGED cond
  PROVE  C!LeaveLoop
  <1>1. /\ PhaseOfC = "fetch" /\ PhaseOfC' = "done" /\ ~running
        /\ UNCHANGED <<Words16, Registers16, running, Instruction16, NoInput, << >>>>
    BY DEF LeaveLoop, PhaseOfC, Words16, Registers16, Instruction16, NoInput
  <1> QED
    BY <1>1 DEF C!LeaveLoop

(* jump() indexes registers[] with the opcode and what follows it, which is  *)
(* past the end of registers[] for every word that is a JMP.                 *)
LEMMA JumpThrows == ASSUME Inv, jump PROVE exception' # "none"
  <1>1. Opcode = 12
    BY DEF jump, Execute, OP_JMP
  <1>2. instruction \in Int /\ instruction >= 49152
    BY <1>1, OpcodeIsOfAWord, InWord DEF Opcode
  <1>3. instruction \div 128 >= 384
    BY <1>2
  <1>4. instruction \div 128 \notin Registers
    BY <1>2, <1>3 DEF Registers
  <1> QED
    BY <1>4 DEF jump, Throw

(* The handlers of the two sources do the same to words.  vm.c updates its    *)
(* condition register after ADD, NOT, LD and LEA, Main.java after AND and LDI *)
(* as well, which is why cond is kept apart.                                  *)
THEOREM JavaIsC == TwinSpec => SameAsC
  <1>1. ASSUME Inv, TwinNext, exception' = "none", ~Differs
        PROVE  C!Emulate
    <2>1. cond' = IF SetsFlags THEN C!FlagOf(registers'[DR] % 65536) ELSE cond
      BY <1>1 DEF TwinNext
    <2>2. ASSUME addOp PROVE C!Add
      <3>1. SetsFlags
        BY <2>2 DEF addOp, Execute, SetsFlags
      <3> QED
        BY <1>1, <2>1, <2>2, <3>1, AddAsC
    <2>3. ASSUME bitwiseAnd PROVE C!And
      <3>1. ~SetsFlags
        BY <2>3 DEF bitwiseAnd, Execute, SetsFlags, OP_AND, OP_ADD, OP_NOT, OP_LD, OP_LEA
      <3> QED
        BY <1>1, <2>1, <2>3, <3>1, AndAsC
    <2>4. ASSUME bitwiseNot PROVE C!Not
      <3>1. SetsFlags
        BY <2>4 DEF bitwiseNot, Execute, SetsFlags
      <3> QED
        BY <1>1, <2>1, <2>4, <3>1, NotAsC
    <2>5. ASSUME load PROVE C!Ld
      <3>1. SetsFlags
        BY <2>5 DEF load, Execute, SetsFlags
      <3> QED
        BY <1>1, <2>1, <2>5, <3>1, LdAsC
    <2>6. ASSUME loadIndirect PROVE C!Ldi
      <3>1. ~SetsFlags
        BY <2>6 DEF loadIndirect, Execute, SetsFlags, OP_LDI, OP_ADD, OP_NOT, OP_LD, OP_LEA
      <3> QED
        BY <1>1, <2>1, <2>6, <3>1, LdiAsC
    <2>7. ASSUME loadEffectiveAddress PROVE C!Lea
      <3>1. SetsFlags
        BY <2>7 DEF loadEffectiveAddress, Execute, SetsFlags
      <3> QED
        BY <1>1, <2>1, <2>7, <3>1, LeaAsC
    <2>8. ASSUME store PROVE C!St
      <3>1. ~SetsFlags
        BY <2>8 DEF store, Execute, SetsFlags, OP_ST, OP_ADD, OP_NOT, OP_LD, OP_LEA
      <3> QED
        BY <1>1, <2>1, <2>8, <3>1, StAsC
    <2>9. ASSUME branch PROVE C!Br
      <3>1. ~SetsFlags
        BY <2>9 DEF branch, Execute, SetsFlags, OP_BR, OP_ADD, OP_NOT, OP_LD, OP_LEA
      <3> QED
        BY <1>1, <2>1, <2>9, <3>1, BrAsC
    <2>10. ASSUME jumpRegister PROVE C!Jsr
      <3>1. ~SetsFlags
        BY <2>10 DEF jumpRegister, Execute, SetsFlags, OP_JSR, OP_ADD, OP_NOT, OP_LD, OP_LEA
      <3>2. ~ByRegister
        BY <1>1, <2>10 DEF Differs, jumpRegister, Execute
      <3> QED
        BY <1>1, <2>1, <2>10, <3>1, <3>2, JsrAsC
    <2>11. ASSUME noHandler PROVE C!NoHandler
      <3>1. ~SetsFlags
        BY <2>11 DEF noHandler, SetsFlags, OP_RTI, OP_RES, OP_ADD, OP_NOT, OP_LD, OP_LEA
      <3> QED
        BY <1>1, <2>1, <2>11, <3>1, NoHandlerAsC
    <2>12. ASSUME Fetch PROVE C!Fetch
      BY <1>1, <2>1, <2>12, FetchAsC DEF SetsFlags, Fetch
    <2>13. ASSUME LeaveLoop PROVE C!LeaveLoop
      BY <1>1, <2>1, <2>13, LeaveLoopAsC DEF SetsFlags, LeaveLoop
    <2>14. ~(loadRegister \/ storeIndirect \/ storeRegister)
      BY <1>1 DEF Differs, loadRegister, storeIndirect, storeRegister, Execute
    <2>15. ~(puts \/ putsp \/ out \/ halt \/ noTrap \/ getc \/ in)
      BY <1>1 DEF Differs, puts, putsp, out, halt, noTrap, getc, in, Trap, Execute
    <2>16. ~jump
      BY <1>1, JumpThrows
    <2>17. \/ Fetch \/ LeaveLoop
           \/ addOp \/ bitwiseAnd \/ bitwiseNot \/ load \/ loadIndirect
           \/ loadEffectiveAddress \/ store \/ branch \/ jumpRegister \/ noHandler
      BY <1>1, <2>14, <2>15, <2>16 DEF TwinNext, Next, Machine
    <2> QED
      BY <2>2, <2>3, <2>4, <2>5, <2>6, <2>7, <2>8, <2>9, <2>10, <2>11, <2>12, <2>13, <2>17
         DEF C!Emulate, C!Handler
  <1>2. Inv /\ [TwinNext]_twinVars =>
          [exception' = "none" /\ ~Differs => C!Emulate]_twinVars
    BY <1>1
  <1> QED
    BY <1>2, Invariance, PTL DEF TwinSpec, SameAsC
=============================================================================
