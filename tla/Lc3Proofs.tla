------------------------------ MODULE Lc3Proofs ------------------------------
(***************************************************************************)
(* Theorems about the emulator, for every image, every set of keys and     *)
(* every size of the FILE buffer: the types of the C declarations are      *)
(* kept, no memoryRead() waits, end of input is reported last, the         *)
(* keyboard path implements KeyQueue, what a guest echoes and prints is    *)
(* what was typed and what its text says, and nothing depends on the       *)
(* condition register.  The last takes the twin of Twins; the others do    *)
(* not mention it.                                                         *)
(***************************************************************************)
EXTENDS Twins, WordsProofs, SequenceTheorems, WellFoundedInduction

-------------------------------------------------------------------------------
(* Standard input.  Whichever of its paths getchar() takes, it gives the     *)
(* oldest pending key, or the end of input when there is none, and the split *)
(* of the pending keys between the kernel's queue and the FILE buffer does   *)
(* not show.                                                                 *)

(* The front of a concatenation is the front of its first part. *)
LEMMA HeadTailConcat ==
  ASSUME NEW S, NEW t \in Seq(S), NEW u \in Seq(S), t # << >>
  PROVE  /\ t \o u # << >>
         /\ Head(t \o u) = Head(t)
         /\ Tail(t \o u) = Tail(t) \o u
  <1>1. Len(t) \in Nat \ {0} /\ Len(u) \in Nat
    BY EmptySeq, LenProperties
  <1>2. /\ t \o u \in Seq(S)
        /\ Len(t \o u) = Len(t) + Len(u)
        /\ \A i \in 1 .. Len(t) + Len(u) :
             (t \o u)[i] = IF i <= Len(t) THEN t[i] ELSE u[i - Len(t)]
    BY ConcatProperties
  <1>3. t \o u # << >>
    BY <1>1, <1>2, EmptySeq
  <1>4. /\ Tail(t) \in Seq(S)
        /\ Len(Tail(t)) = Len(t) - 1
        /\ \A i \in 1 .. Len(Tail(t)) : Tail(t)[i] = t[i + 1]
    BY HeadTailProperties
  <1>5. /\ Tail(t \o u) \in Seq(S)
        /\ Len(Tail(t \o u)) = Len(t \o u) - 1
        /\ \A i \in 1 .. Len(Tail(t \o u)) : Tail(t \o u)[i] = (t \o u)[i + 1]
    BY <1>2, <1>3, HeadTailProperties
  <1>6. /\ Tail(t) \o u \in Seq(S)
        /\ Len(Tail(t) \o u) = Len(Tail(t)) + Len(u)
        /\ \A i \in 1 .. Len(Tail(t)) + Len(u) :
             (Tail(t) \o u)[i] =
               IF i <= Len(Tail(t)) THEN Tail(t)[i] ELSE u[i - Len(Tail(t))]
    BY <1>4, ConcatProperties
  <1>7. ASSUME NEW i \in 1 .. Len(Tail(t \o u))
        PROVE  Tail(t \o u)[i] = (Tail(t) \o u)[i]
    BY <1>1, <1>2, <1>4, <1>5, <1>6
  <1>8. Tail(t \o u) = Tail(t) \o u
    BY <1>1, <1>2, <1>4, <1>5, <1>6, <1>7, SeqEqual
  <1>9. Head(t \o u) = Head(t)
    BY <1>1, <1>2, <1>3
  <1> QED
    BY <1>3, <1>8, <1>9

(* Appending to the second part appends to the concatenation. *)
LEMMA ConcatAppend ==
  ASSUME NEW S, NEW t \in Seq(S), NEW u \in Seq(S), NEW e \in S
  PROVE  t \o Append(u, e) = Append(t \o u, e)
  <1> DEFINE last == <<e>>
  <1>1. last \in Seq(S)
    OBVIOUS
  <1>2. t \o u \in Seq(S)
    BY ConcatProperties
  <1>3. Append(u, e) = u \o last /\ Append(t \o u, e) = (t \o u) \o last
    BY <1>2, AppendIsConcat
  <1> HIDE DEF last
  <1>4. (t \o u) \o last = t \o (u \o last)
    BY <1>1, ConcatAssociative
  <1> QED
    BY <1>3, <1>4

(* A read() moves keys from the kernel to the empty buffer, at least one,    *)
(* and changes nothing else.                                                 *)
LEMMA RefillKeepsPending ==
  ASSUME NEW s \in StdinType, s.buf = << >>, s.tty # << >>
  PROVE  /\ Refill(s) \in StdinType
         /\ Refill(s).buf # << >>
         /\ Pending(Refill(s)) = Pending(s)
         /\ Refill(s).taken = s.taken
         /\ Refill(s).closed = s.closed
         /\ Refill(s).waits = s.waits
         /\ Refill(s).eof = s.eof
  <1> DEFINE n == ReadCount(s)
             front == SubSeq(s.tty, 1, n)
             rest == SubSeq(s.tty, n + 1, Len(s.tty))
  <1>1. /\ s.tty \in Seq(Byte) /\ s.buf \in Seq(Byte) /\ s.taken \in Seq(Byte)
        /\ s.closed \in BOOLEAN /\ s.eof \in BOOLEAN
    BY DEF StdinType
  <1>2. Len(s.tty) \in Nat /\ Len(s.tty) >= 1
    BY <1>1
  <1>3. n \in Nat /\ 1 <= n /\ n <= Len(s.tty)
    BY <1>2, StdioBufSizeAssumption DEF ReadCount
  <1>4. Refill(s) = [s EXCEPT !.buf = front, !.tty = rest]
    BY DEF Refill
  <1> HIDE DEF n
  <1>5. front \in Seq(Byte) /\ Len(front) = n
    BY <1>1, <1>2, <1>3, SubSeqProperties
  <1>6. rest \in Seq(Byte)
    BY <1>1, <1>2, <1>3, SubSeqProperties
  <1>7. front \o rest = s.tty
    <2>1. front \o rest = SubSeq(s.tty, 1, Len(s.tty))
      BY <1>1, <1>2, <1>3, ConcatAdjacentSubSeq
    <2> QED
      BY <2>1, <1>1, SubSeqFull
  <1> HIDE DEF front, rest
  <1>8. Pending(s) = s.tty
    BY <1>1, ConcatEmptySeq DEF Pending
  <1>9. front # << >>
    BY <1>3, <1>5
  <1> QED
    BY <1>1, <1>4, <1>5, <1>6, <1>7, <1>8, <1>9 DEF Pending, StdinType

(* Taking from the buffer takes the oldest pending key. *)
LEMMA GiveTakesOldest ==
  ASSUME NEW s \in StdinType, s.buf # << >>
  PROVE  /\ Give(s).val \in Byte
         /\ Give(s).in \in StdinType
         /\ Pending(s) # << >>
         /\ Give(s).val = Head(Pending(s))
         /\ Pending(Give(s).in) = Tail(Pending(s))
         /\ Give(s).in.taken = Append(s.taken, Head(Pending(s)))
         /\ Give(s).in.closed = s.closed
         /\ Give(s).in.waits = s.waits
         /\ Give(s).in.eof = s.eof
  <1>1. /\ s.tty \in Seq(Byte) /\ s.buf \in Seq(Byte) /\ s.taken \in Seq(Byte)
        /\ s.closed \in BOOLEAN /\ s.eof \in BOOLEAN
    BY DEF StdinType
  <1>2. Head(s.buf) \in Byte /\ Tail(s.buf) \in Seq(Byte)
    BY <1>1, HeadTailProperties
  <1>3. /\ Head(s.buf \o s.tty) = Head(s.buf)
        /\ Tail(s.buf \o s.tty) = Tail(s.buf) \o s.tty
        /\ s.buf \o s.tty # << >>
    BY <1>1, HeadTailConcat
  <1>4. Append(s.taken, Head(s.buf)) \in Seq(Byte)
    BY <1>1, <1>2, AppendProperties
  <1>5. Give(s).in = [s EXCEPT !.buf = Tail(s.buf),
                               !.taken = Append(s.taken, Head(s.buf))]
    BY DEF Give
  <1>6. Give(s).val = Head(s.buf)
    BY DEF Give
  <1> QED
    BY <1>1, <1>2, <1>3, <1>4, <1>5, <1>6 DEF Pending, StdinType

(* The two things a call of getchar() can do to the keys: take the oldest    *)
(* pending one, or report the end of input, which is true of an input whose  *)
(* reads wait.                                                               *)
Takes(s, t) ==
  /\ Pending(s) # << >>
  /\ Pending(t) = Tail(Pending(s))
  /\ t.taken = Append(s.taken, Head(Pending(s)))
  /\ t.closed = s.closed
  /\ t.waits = s.waits
  /\ t.eof = s.eof

Ends(s, t) ==
  /\ s.waits => s.closed /\ Pending(s) = << >>
  /\ t = [s EXCEPT !.eof = TRUE]

(* End of file is reported last (the invariant EndOfInputIsLast of Lc3).     *)
EofIsLast(s) == s.waits /\ s.eof => s.closed /\ Pending(s) = << >>

(* getchar() returns the oldest pending key or EOF.                          *)
LEMMA GetcharOutcome ==
  ASSUME NEW s \in StdinType, EofIsLast(s), NEW g \in Getchar(s)
  PROVE  /\ g.in \in StdinType
         /\ \/ g.val \in Byte /\ g.val = Head(Pending(s)) /\ Takes(s, g.in)
            \/ g.val = EOF /\ Ends(s, g.in)
  <1>1. /\ s.tty \in Seq(Byte) /\ s.buf \in Seq(Byte)
        /\ s.closed \in BOOLEAN /\ s.eof \in BOOLEAN
    BY DEF StdinType
  <1>2. CASE s.buf # << >>
    <2>1. g = Give(s)
      BY <1>2 DEF Getchar
    <2> QED
      BY <1>2, <2>1, GiveTakesOldest DEF Takes
  <1>3. CASE s.buf = << >> /\ ~s.eof /\ s.tty # << >>
    <2>1. g = Give(Refill(s))
      BY <1>3 DEF Getchar, NothingToRead
    <2>2. /\ Refill(s) \in StdinType /\ Refill(s).buf # << >>
          /\ Pending(Refill(s)) = Pending(s) /\ Refill(s).taken = s.taken
          /\ Refill(s).closed = s.closed /\ Refill(s).waits = s.waits
          /\ Refill(s).eof = s.eof
      BY <1>3, RefillKeepsPending
    <2> HIDE <1>3
    <2> QED
      BY <2>1, <2>2, GiveTakesOldest DEF Takes
  <1>4. CASE s.buf = << >> /\ (s.eof \/ NothingToRead(s))
    <2>1. g = [val |-> EOF, in |-> [s EXCEPT !.eof = TRUE]]
      BY <1>4 DEF Getchar, NothingToRead
    <2>2. g.val = EOF /\ g.in = [s EXCEPT !.eof = TRUE]
      BY <2>1
    <2>3. g.in \in StdinType
      BY <2>2 DEF StdinType
    <2>4. s.waits => s.closed /\ Pending(s) = << >>
      BY <1>4, <1>1, ConcatEmptySeq DEF EofIsLast, NothingToRead, Pending
    <2> QED
      BY <2>2, <2>3, <2>4 DEF Ends
  <1>5. CASE ~ \/ s.buf # << >>
               \/ s.buf = << >> /\ ~s.eof /\ s.tty # << >>
               \/ s.buf = << >> /\ (s.eof \/ NothingToRead(s))
    BY <1>5 DEF Getchar
  <1> QED
    BY <1>2, <1>3, <1>4, <1>5

(* When select() reports standard input readable, getchar() returns.         *)
LEMMA ReadableGives ==
  ASSUME NEW s \in StdinType, Readable(s)
  PROVE  Getchar(s) # {}
  <1>1. CASE s.buf # << >>
    BY <1>1 DEF Getchar
  <1>2. CASE s.buf = << >> /\ ~s.eof /\ s.tty # << >>
    BY <1>2 DEF Getchar
  <1>3. CASE s.buf = << >> /\ (s.eof \/ NothingToRead(s))
    BY <1>3 DEF Getchar
  <1> QED
    BY <1>1, <1>2, <1>3 DEF Readable, NothingToRead

(* What taking and ending leave true of the end of input.                    *)
LEMMA EofStaysLast ==
  ASSUME NEW s \in StdinType, NEW t \in StdinType, EofIsLast(s),
         t = s \/ Takes(s, t) \/ Ends(s, t)
  PROVE  EofIsLast(t)
  <1>1. CASE t = s
    BY <1>1
  <1>2. CASE Takes(s, t)
    BY <1>2 DEF Takes, EofIsLast
  <1>3. CASE Ends(s, t)
    <2>1. t.closed = s.closed /\ t.waits = s.waits /\ t.buf = s.buf /\ t.tty = s.tty
      BY <1>3 DEF Ends, StdinType
    <2> QED
      BY <1>3, <2>1 DEF Ends, EofIsLast, Pending
  <1> QED
    BY <1>1, <1>2, <1>3
-------------------------------------------------------------------------------

(* What one step may do to standard input: nothing, or one getchar().        *)
KeyStep(s, t) == t \in StdinType /\ (t = s \/ Takes(s, t) \/ Ends(s, t))

(* The inductive invariant: an end of input reported early would let a       *)
(* later getchar() report it again in front of a key typed in between.       *)
Inv == TypeOK /\ EndOfInputIsLast

-------------------------------------------------------------------------------
(* Fields of the instruction and memory. *)

LEMMA FieldTypes ==
  ASSUME instruction \in Word
  PROVE  /\ DR \in GeneralRegisters
         /\ SR1 \in GeneralRegisters
         /\ SR2 \in GeneralRegisters
         /\ (instruction \div 64) \div 128 \in GeneralRegisters
         /\ Imm5 \in Word /\ Offset6 \in Word
         /\ PcOffset9 \in Word /\ PcOffset11 \in Word
  <1>1. instruction \in Int /\ 0 <= instruction /\ instruction <= 65535
    BY InWord
  <1>2. /\ DR \in GeneralRegisters /\ SR1 \in GeneralRegisters
        /\ SR2 \in GeneralRegisters
    BY <1>1 DEF DR, SR1, SR2, GeneralRegisters
  <1>3. (instruction \div 64) \div 128 \in GeneralRegisters
    <2> DEFINE q == instruction \div 64
    <2>1. q \in Int /\ 0 <= q /\ q <= 1023
      BY <1>1
    <2> HIDE DEF q
    <2>2. q \div 128 \in Int /\ 0 <= q \div 128 /\ q \div 128 <= 7
      BY <2>1
    <2> QED
      BY <2>2 DEF GeneralRegisters, q
  <1>4. /\ instruction % 32 \in Int /\ 0 <= instruction % 32 /\ instruction % 32 < 2 * 16
        /\ instruction % 64 \in Int /\ 0 <= instruction % 64 /\ instruction % 64 < 2 * 32
        /\ instruction % 512 \in Int /\ 0 <= instruction % 512 /\ instruction % 512 < 2 * 256
        /\ instruction % 2048 \in Int /\ 0 <= instruction % 2048 /\ instruction % 2048 < 2 * 1024
    BY <1>1
  <1>5. Imm5 \in Word
    BY <1>4, SignExtendValue DEF Imm5
  <1>6. Offset6 \in Word
    BY <1>4, SignExtendValue DEF Offset6
  <1>7. PcOffset9 \in Word
    BY <1>4, SignExtendValue DEF PcOffset9
  <1>8. PcOffset11 \in Word
    BY <1>4, SignExtendValue DEF PcOffset11
  <1> QED
    BY <1>2, <1>3, <1>5, <1>6, <1>7, <1>8

LEMMA WordSum == ASSUME NEW x \in Word, NEW y \in Word PROVE Wrap(x + y) \in Word
  BY InWord DEF Wrap

LEMMA EofIsWord == EOF \in Word /\ EOF # MR_KBDR
  BY InWord DEF EOF, MR_KBDR

LEMMA ByteIsWord == ASSUME NEW k \in Byte PROVE k \in Word /\ k # MR_KBDR
  BY InWord, InByte DEF MR_KBDR

LEMMA PortsDiffer ==
  /\ MR_KBSR # MR_KBDR /\ MR_KBSR # MR_DSR /\ MR_KBSR # MR_DDR
  /\ MR_KBDR # MR_DSR /\ MR_KBDR # MR_DDR /\ MR_DSR # MR_DDR
  /\ UINT16_MAX \notin {MR_KBSR, MR_KBDR, MR_DSR, MR_DDR}
  BY DEF MR_KBSR, MR_KBDR, MR_DSR, MR_DDR, UINT16_MAX

LEMMA OperandTypes ==
  ASSUME TypeOK
  PROVE  /\ \A r \in Registers : registers[r] \in Word
         /\ GeneralRegisters \subseteq Registers \ {R_PC, R_COND}
         /\ R_PC \in Registers /\ R_COND \in Registers /\ R_PC # R_COND
         /\ Operand2 \in Word /\ PcRelative \in Word /\ BaseRelative \in Word
  <1>1. \A r \in Registers : registers[r] \in Word
    BY DEF TypeOK
  <1>2. /\ GeneralRegisters \subseteq Registers \ {R_PC, R_COND}
        /\ R_PC \in Registers /\ R_COND \in Registers /\ R_PC # R_COND
    BY DEF GeneralRegisters, Registers, R_PC, R_COND
  <1>3. instruction \in Word
    BY DEF TypeOK
  <1> QED
    BY <1>1, <1>2, <1>3, FieldTypes, WordSum DEF Operand2, PcRelative, BaseRelative

(* A load returns a word and makes at most one call of getchar(), and that   *)
(* only at KBDR: what it returns then is not itself the address of KBDR.     *)
LEMMA MemoryReadOutcome ==
  ASSUME TypeOK, NEW s \in StdinType, EofIsLast(s), NEW address,
         NEW r \in MemoryRead(address, s)
  PROVE  /\ r.val \in Word
         /\ KeyStep(s, r.in)
         /\ r.in = s \/ (address = MR_KBDR /\ r.val # MR_KBDR)
  <1>0. /\ Cell(address) \in Word /\ Cell(UINT16_MAX) \in Word
        /\ 0 \in Word /\ STATUS_BIT \in Word
    BY InWord DEF Cell, TypeOK, STATUS_BIT
  <1>1. CASE address = MR_KBDR /\ Readable(s)
    <2>1. r \in Getchar(s)
      BY <1>1, PortsDiffer DEF MemoryRead
    <2> QED
      BY <1>1, <2>1, GetcharOutcome, EofIsWord, ByteIsWord DEF KeyStep
  <1>2. CASE ~(address = MR_KBDR /\ Readable(s))
    <2>1. r.in = s /\ r.val \in Word
      <3>1. CASE address = MR_KBSR
        <4>1. r \in {[val |-> IF Readable(s) THEN STATUS_BIT ELSE 0, in |-> s]}
          BY <3>1, PortsDiffer DEF MemoryRead
        <4> QED
          BY <4>1, <1>0
      <3>2. CASE address = MR_KBDR
        <4>1. r \in {[val |-> 0, in |-> s]}
          BY <3>2, <1>2, PortsDiffer DEF MemoryRead
        <4> QED
          BY <4>1, <1>0
      <3>3. CASE address # MR_KBSR /\ address # MR_KBDR
        <4>1. \/ r \in {[val |-> v, in |-> s] : v \in Behind}
              \/ r \in {[val |-> Cell(address), in |-> s]}
              \/ r \in {[val |-> STATUS_BIT, in |-> s]}
              \/ r \in {[val |-> 0, in |-> s]}
          BY <3>3, PortsDiffer DEF MemoryRead
        <4> QED
          BY <4>1, <1>0, Lc3Assumption DEF Behind
      <3> QED
        BY <3>1, <3>2, <3>3
    <2> QED
      BY <1>2, <2>1 DEF KeyStep
  <1> QED
    BY <1>1, <1>2

(* No memoryRead() waits: it polls before it calls getchar(), and a getchar() *)
(* that the poll found ready returns.  So a fetch and the handlers that load *)
(* and store always come to an end, whatever the address, whatever is typed. *)
THEOREM ReadsAnswer ==
  ASSUME NEW s \in StdinType, NEW address
  PROVE  MemoryRead(address, s) # {}
  <1>1. CASE address = MR_KBDR /\ Readable(s)
    BY <1>1, PortsDiffer, ReadableGives DEF MemoryRead
  <1>2. CASE ~(address = MR_KBDR /\ Readable(s))
    <2>1. PICK v \in Behind : TRUE
      BY DEF Behind
    <2> QED
      BY <1>2, <2>1, PortsDiffer DEF MemoryRead
  <1> QED
    BY <1>1, <1>2

(* A store keeps the cells of memory[] words at addresses of 16 bits.        *)
LEMMA MemoryWriteType ==
  ASSUME TypeOK, NEW address \in Word, NEW value \in Word,
         MemoryWrite(address, value)
  PROVE  DOMAIN memory' \subseteq Word /\ \A a \in DOMAIN memory' : memory'[a] \in Word
  BY DEF MemoryWrite, TypeOK

(* Register assignments keep the register file typed.                        *)
LEMMA AssignType ==
  ASSUME TypeOK, NEW r \in Registers \ {R_COND}, NEW v \in Word, Assign(r, v)
  PROVE  /\ registers' \in [Registers -> Word]
         /\ registers'[R_COND] \in {FL_POS, FL_ZR, FL_NEG}
  BY DEF Assign, TypeOK, Registers, R_COND

LEMMA AssignAndFlagType ==
  ASSUME TypeOK, NEW r \in Registers \ {R_COND}, NEW v \in Word, AssignAndFlag(r, v)
  PROVE  /\ registers' \in [Registers -> Word]
         /\ registers'[R_COND] \in {FL_POS, FL_ZR, FL_NEG}
  <1>1. FlagOf(v) \in {FL_POS, FL_ZR, FL_NEG}
    BY DEF FlagOf
  <1>2. FlagOf(v) \in Word
    BY InWord DEF FlagOf, FL_POS, FL_ZR, FL_NEG
  <1> HIDE DEF FlagOf
  <1> QED
    BY <1>1, <1>2 DEF AssignAndFlag, TypeOK, Registers, R_COND
-------------------------------------------------------------------------------
(* -- The steps of emulate(): each keeps the types, and does nothing to      *)
(* standard input but at most one getchar().                                 *)

LEMMA EmulateStep ==
  ASSUME Inv, Emulate
  PROVE  TypeOK' /\ KeyStep(stdin, stdin')
  <1>1. TypeOK /\ EofIsLast(stdin) /\ stdin \in StdinType /\ instruction \in Word
    BY DEF Inv, TypeOK, EndOfInputIsLast, EofIsLast
  <1>2. /\ DR \in Registers \ {R_COND} /\ DR \in Registers
        /\ SR1 \in Registers /\ SR2 \in Registers
        /\ (instruction \div 64) \div 128 \in Registers
        /\ R_PC \in Registers \ {R_COND}
        /\ R_R0 \in Registers \ {R_COND}
        /\ R_R7 \in Registers \ {R_COND, R_PC}
    BY <1>1, FieldTypes, OperandTypes DEF R_R0, R_R7, R_PC, R_COND, Registers
  <1>3. /\ \A r \in Registers : registers[r] \in Word
        /\ Operand2 \in Word /\ PcRelative \in Word /\ BaseRelative \in Word
    BY <1>1, OperandTypes
  <1>4. KeyStep(stdin, stdin)
    BY <1>1 DEF KeyStep
  <1>5. CASE Fetch
    <2>1. PICK r \in MemoryRead(registers[R_PC], stdin) :
            instruction' = r.val /\ stdin' = r.in
      BY <1>5 DEF Fetch
    <2>2. instruction' \in Word /\ KeyStep(stdin, stdin')
      BY <1>1, <2>1, MemoryReadOutcome
    <2>3. Wrap(registers[R_PC] + 1) \in Word
      BY <1>2, <1>3, InWord DEF Wrap
    <2>4. /\ registers' \in [Registers -> Word]
          /\ registers'[R_COND] \in {FL_POS, FL_ZR, FL_NEG}
      BY <1>1, <1>2, <1>5, <2>3, AssignType DEF Fetch
    <2> QED
      BY <1>1, <1>5, <2>2, <2>4 DEF Fetch, TypeOK, KeyStep
  <1>6. CASE LeaveLoop
    BY <1>1, <1>4, <1>6 DEF LeaveLoop, TypeOK
  <1>7. CASE Add
    <2>1. Wrap(registers[SR1] + Operand2) \in Word
      BY <1>2, <1>3, WordSum
    <2>2. /\ registers' \in [Registers -> Word]
          /\ registers'[R_COND] \in {FL_POS, FL_ZR, FL_NEG}
      BY <1>1, <1>2, <1>7, <2>1, AssignAndFlagType DEF Add
    <2> QED
      BY <1>1, <1>4, <1>7, <2>2 DEF Add, Execute, TypeOK
  <1>8. CASE And
    <2>1. BitAnd(registers[SR1], Operand2) \in Word
      BY <1>2, <1>3, BitAndBound
    <2>2. /\ registers' \in [Registers -> Word]
          /\ registers'[R_COND] \in {FL_POS, FL_ZR, FL_NEG}
      BY <1>1, <1>2, <1>8, <2>1, AssignType DEF And
    <2> QED
      BY <1>1, <1>4, <1>8, <2>2 DEF And, Execute, TypeOK
  <1>9. CASE Not
    <2>1. BitNot(registers[SR1]) \in Word
      BY <1>2, <1>3, BitNotValue
    <2>2. /\ registers' \in [Registers -> Word]
          /\ registers'[R_COND] \in {FL_POS, FL_ZR, FL_NEG}
      BY <1>1, <1>2, <1>9, <2>1, AssignAndFlagType DEF Not
    <2> QED
      BY <1>1, <1>4, <1>9, <2>2 DEF Not, Execute, TypeOK
  <1>10. CASE Ld
    <2>1. PICK r \in MemoryRead(PcRelative, stdin) :
            AssignAndFlag(DR, r.val) /\ stdin' = r.in
      BY <1>10 DEF Ld
    <2>2. r.val \in Word /\ KeyStep(stdin, stdin')
      BY <1>1, <2>1, MemoryReadOutcome
    <2>3. /\ registers' \in [Registers -> Word]
          /\ registers'[R_COND] \in {FL_POS, FL_ZR, FL_NEG}
      BY <1>1, <1>2, <2>1, <2>2, AssignAndFlagType
    <2> QED
      BY <1>1, <1>10, <2>2, <2>3 DEF Ld, Execute, TypeOK, KeyStep
  <1>11. CASE Ldr
    <2>1. PICK r \in MemoryRead(BaseRelative, stdin) :
            AssignAndFlag(DR, r.val) /\ stdin' = r.in
      BY <1>11 DEF Ldr
    <2>2. r.val \in Word /\ KeyStep(stdin, stdin')
      BY <1>1, <2>1, MemoryReadOutcome
    <2>3. /\ registers' \in [Registers -> Word]
          /\ registers'[R_COND] \in {FL_POS, FL_ZR, FL_NEG}
      BY <1>1, <1>2, <2>1, <2>2, AssignAndFlagType
    <2> QED
      BY <1>1, <1>11, <2>2, <2>3 DEF Ldr, Execute, TypeOK, KeyStep
  <1>12. CASE Ldi
    <2>0. PICK p \in MemoryRead(PcRelative, stdin) :
            \E r \in MemoryRead(p.val, p.in) : Assign(DR, r.val) /\ stdin' = r.in
      BY <1>12 DEF Ldi
    <2>1. PICK r \in MemoryRead(p.val, p.in) : Assign(DR, r.val) /\ stdin' = r.in
      BY <2>0
    <2>2. /\ p.val \in Word /\ KeyStep(stdin, p.in)
          /\ p.in = stdin \/ p.val # MR_KBDR
      BY <1>1, MemoryReadOutcome
    <2>3. p.in \in StdinType /\ EofIsLast(p.in)
      BY <1>1, <2>2, EofStaysLast DEF KeyStep
    <2>4. /\ r.val \in Word /\ KeyStep(p.in, r.in)
          /\ r.in = p.in \/ p.val = MR_KBDR
      BY <1>1, <2>3, MemoryReadOutcome
    <2>5. KeyStep(stdin, stdin')
      BY <2>1, <2>2, <2>4
    <2>6. /\ registers' \in [Registers -> Word]
          /\ registers'[R_COND] \in {FL_POS, FL_ZR, FL_NEG}
      BY <1>1, <1>2, <2>1, <2>4, AssignType
    <2> QED
      BY <1>1, <1>12, <2>5, <2>6 DEF Ldi, Execute, TypeOK, KeyStep
  <1>13. CASE Lea
    <2>1. PcRelative \in Word
      BY <1>3
    <2>2. /\ registers' \in [Registers -> Word]
          /\ registers'[R_COND] \in {FL_POS, FL_ZR, FL_NEG}
      BY <1>1, <1>2, <1>13, <2>1, AssignAndFlagType DEF Lea
    <2> QED
      BY <1>1, <1>4, <1>13, <2>2 DEF Lea, Execute, TypeOK
  <1>14. CASE St
    <2>1. /\ DOMAIN memory' \subseteq Word
          /\ \A a \in DOMAIN memory' : memory'[a] \in Word
      BY <1>1, <1>2, <1>3, <1>14, MemoryWriteType DEF St
    <2> QED
      BY <1>1, <1>4, <1>14, <2>1 DEF St, Execute, TypeOK
  <1>15. CASE Str
    <2>1. /\ DOMAIN memory' \subseteq Word
          /\ \A a \in DOMAIN memory' : memory'[a] \in Word
      BY <1>1, <1>2, <1>3, <1>15, MemoryWriteType DEF Str
    <2> QED
      BY <1>1, <1>4, <1>15, <2>1 DEF Str, Execute, TypeOK
  <1>16. CASE Sti
    <2>1. PICK p \in MemoryRead(PcRelative, stdin) :
            MemoryWrite(p.val, registers[DR]) /\ stdin' = p.in
      BY <1>16 DEF Sti
    <2>2. p.val \in Word /\ KeyStep(stdin, stdin')
      BY <1>1, <2>1, MemoryReadOutcome
    <2>3. /\ DOMAIN memory' \subseteq Word
          /\ \A a \in DOMAIN memory' : memory'[a] \in Word
      BY <1>1, <1>2, <1>3, <2>1, <2>2, MemoryWriteType
    <2> QED
      BY <1>1, <1>16, <2>2, <2>3 DEF Sti, Execute, TypeOK, KeyStep
  <1>17. CASE Br
    <2>1. /\ registers' \in [Registers -> Word]
          /\ registers'[R_COND] \in {FL_POS, FL_ZR, FL_NEG}
      BY <1>1, <1>2, <1>3, <1>17, AssignType DEF Br, TypeOK
    <2> QED
      BY <1>1, <1>4, <1>17, <2>1 DEF Br, Execute, TypeOK
  <1>18. CASE Jmp
    <2>1. /\ registers' \in [Registers -> Word]
          /\ registers'[R_COND] \in {FL_POS, FL_ZR, FL_NEG}
      BY <1>1, <1>2, <1>3, <1>18, AssignType DEF Jmp
    <2> QED
      BY <1>1, <1>4, <1>18, <2>1 DEF Jmp, Execute, TypeOK
  <1>19. CASE Jsr
    <2>1. /\ Linked \in [Registers -> Word]
          /\ Linked[R_COND] \in {FL_POS, FL_ZR, FL_NEG}
      BY <1>1, <1>2, <1>3 DEF Linked, TypeOK, R_R7, R_COND
    <2>2. Linked[R_PC] \in Word /\ Linked[SR1] \in Word /\ PcOffset11 \in Word
      BY <1>1, <1>2, <2>1, FieldTypes
    <2>3. JsrTarget \in Word
      BY <2>2, WordSum DEF JsrTarget
    <2>4. registers' = [Linked EXCEPT ![R_PC] = JsrTarget]
      BY <1>19 DEF Jsr
    <2>5. /\ registers' \in [Registers -> Word]
          /\ registers'[R_COND] \in {FL_POS, FL_ZR, FL_NEG}
      BY <1>2, <2>1, <2>3, <2>4
    <2> QED
      BY <1>1, <1>4, <1>19, <2>5 DEF Jsr, Execute, TypeOK
  <1>20. CASE NoHandler
    BY <1>1, <1>4, <1>20 DEF NoHandler, Trap, Execute, TypeOK
  <1>21. CASE TrapGetc
    <2>1. PICK g \in Getchar(stdin) : Assign(R_R0, g.val) /\ stdin' = g.in
      BY <1>21 DEF TrapGetc
    <2>2. g.val \in Word /\ KeyStep(stdin, stdin')
      BY <1>1, <2>1, GetcharOutcome, EofIsWord, ByteIsWord DEF KeyStep
    <2>3. /\ registers' \in [Registers -> Word]
          /\ registers'[R_COND] \in {FL_POS, FL_ZR, FL_NEG}
      BY <1>1, <1>2, <2>1, <2>2, AssignType
    <2> QED
      BY <1>1, <1>21, <2>2, <2>3 DEF TrapGetc, Trap, Execute, TypeOK, KeyStep
  <1>22. CASE TrapIn
    <2>1. KeyStep(stdin, stdin')
      BY <1>1, <1>22, GetcharOutcome DEF TrapIn, KeyStep
    <2> QED
      BY <1>1, <1>22, <2>1 DEF TrapIn, Trap, Execute, TypeOK, KeyStep
  <1>23. CASE TrapOut
    BY <1>1, <1>4, <1>23 DEF TrapOut, Trap, Execute, TypeOK
  <1>24. CASE TrapPuts
    BY <1>1, <1>4, <1>24 DEF TrapPuts, Trap, Execute, TypeOK
  <1>25. CASE TrapPutsp
    BY <1>1, <1>4, <1>25 DEF TrapPutsp, Trap, Execute, TypeOK
  <1>26. CASE TrapHalt
    BY <1>1, <1>4, <1>26 DEF TrapHalt, Trap, Execute, TypeOK
  <1>27. CASE TrapUnknown
    BY <1>1, <1>4, <1>27 DEF TrapUnknown, Trap, Execute, TypeOK
  <1> QED
    BY <1>5, <1>6, <1>7, <1>8, <1>9, <1>10, <1>11, <1>12, <1>13, <1>14,
       <1>15, <1>16, <1>17, <1>18, <1>19, <1>20, <1>21, <1>22, <1>23,
       <1>24, <1>25, <1>26, <1>27
    DEF Emulate, Handler
-------------------------------------------------------------------------------
(* -- The user's steps, and the theorems. *)

LEMMA TypeStep ==
  ASSUME Inv, NEW k \in Keys, Type(k)
  PROVE  /\ Inv'
         /\ Pending(stdin') = Append(Pending(stdin), k)
         /\ stdin'.taken = stdin.taken /\ stdin'.closed = stdin.closed
         /\ stdin'.waits = stdin.waits /\ stdin'.eof = stdin.eof
  <1>1. /\ stdin \in StdinType /\ stdin.tty \in Seq(Byte) /\ stdin.buf \in Seq(Byte)
        /\ (stdin.waits => ~stdin.eof) /\ ~stdin.closed /\ k \in Byte
    BY Lc3Assumption DEF Inv, TypeOK, StdinType, EndOfInputIsLast, Type
  <1>2. stdin' = [stdin EXCEPT !.tty = Append(stdin.tty, k)]
    BY DEF Type, Typed
  <1>3. Append(stdin.tty, k) \in Seq(Byte)
    BY <1>1, AppendProperties
  <1>4. /\ stdin' \in StdinType
        /\ stdin'.tty = Append(stdin.tty, k) /\ stdin'.buf = stdin.buf
        /\ stdin'.taken = stdin.taken /\ stdin'.closed = stdin.closed
        /\ stdin'.waits = stdin.waits /\ stdin'.eof = stdin.eof
    BY <1>1, <1>2, <1>3 DEF StdinType
  <1>5. stdin.buf \o Append(stdin.tty, k) = Append(stdin.buf \o stdin.tty, k)
    <2> DEFINE b == stdin.buf  t == stdin.tty
    <2>1. b \in Seq(Byte) /\ t \in Seq(Byte) /\ k \in Byte
      BY <1>1
    <2> HIDE DEF b, t
    <2>2. b \o Append(t, k) = Append(b \o t, k)
      BY <2>1, ConcatAppend
    <2> QED
      BY <2>2 DEF b, t
  <1>6. TypeOK'
    BY <1>4 DEF Inv, TypeOK, Type
  <1> QED
    BY <1>1, <1>4, <1>5, <1>6 DEF Inv, EndOfInputIsLast, Pending

LEMMA HangupStep ==
  ASSUME Inv, Hangup
  PROVE  /\ Inv'
         /\ Pending(stdin') = Pending(stdin)
         /\ stdin'.taken = stdin.taken /\ stdin'.closed = TRUE
         /\ stdin'.waits = stdin.waits /\ stdin'.eof = stdin.eof
  <1>1. /\ stdin' \in StdinType
        /\ stdin'.tty = stdin.tty /\ stdin'.buf = stdin.buf
        /\ stdin'.taken = stdin.taken /\ stdin'.closed = TRUE
        /\ stdin'.waits = stdin.waits /\ stdin'.eof = stdin.eof
    BY DEF Inv, TypeOK, StdinType, Hangup, Hungup
  <1>2. TypeOK'
    BY <1>1 DEF Inv, TypeOK, Hangup
  <1> QED
    BY <1>1, <1>2 DEF Inv, EndOfInputIsLast, Pending

(* The initial state satisfies the invariant. *)
LEMMA InitInv == Init => Inv
  <1> SUFFICES ASSUME Init PROVE Inv
    OBVIOUS
  <1>1. 0 \in Word /\ StartAddr \in Word
    BY InWord DEF StartAddr
  <1>2. /\ registers \in [Registers -> Word]
        /\ registers[R_COND] \in {FL_POS, FL_ZR, FL_NEG}
    BY <1>1 DEF Init, Registers, R_COND, R_PC, FL_POS
  <1>3. stdin \in StdinType /\ ~stdin.eof
    BY DEF Init, NewStdin, StdinType
  <1>4. Index \subseteq Word
    <2> SUFFICES ASSUME NEW a \in Index PROVE a \in Int /\ 0 <= a /\ a <= 65535
      BY InWord
    <2> QED
      BY DEF Index, UINT16_MAX
  <1> QED
    BY <1>1, <1>2, <1>3, <1>4, Lc3Assumption DEF Init, Inv, TypeOK, EndOfInputIsLast

(* The end of the input, reported while it has none: no key is touched.      *)
EarlyEnd == ~stdin.waits /\ UNCHANGED <<Pending(stdin), stdin.taken, stdin.closed>>

(* Every step keeps the invariant, and whether reads wait, and is a step of  *)
(* KeyQueue or a stutter; or reads do not wait and it reports an early end.  *)
KeysStep ==
  /\ Inv'
  /\ stdin'.waits = stdin.waits
  /\ [KQ!Next]_(KQ!vars) \/ EarlyEnd

LEMMA NextStep ==
  ASSUME Inv, [Next]_vars
  PROVE  KeysStep
  <1>1. CASE Emulate
    <2>1. TypeOK' /\ KeyStep(stdin, stdin')
      BY <1>1, EmulateStep
    <2>2. stdin \in StdinType /\ EofIsLast(stdin)
      BY DEF Inv, TypeOK, EndOfInputIsLast, EofIsLast
    <2>3. Inv'
      BY <2>1, <2>2, EofStaysLast DEF Inv, KeyStep, EndOfInputIsLast, EofIsLast
    <2>4. CASE stdin' = stdin
      BY <2>3, <2>4 DEF KQ!vars, Pending, KeysStep
    <2>5. CASE Takes(stdin, stdin')
      BY <2>3, <2>5 DEF Takes, KQ!Next, KQ!Receive, KeysStep
    <2>6. CASE Ends(stdin, stdin')
      <3>1. /\ stdin'.closed = stdin.closed /\ stdin'.buf = stdin.buf
            /\ stdin'.tty = stdin.tty /\ stdin'.taken = stdin.taken
            /\ stdin'.waits = stdin.waits /\ stdin'.eof = TRUE
        BY <2>2, <2>6 DEF Ends, StdinType
      <3> QED
        BY <2>3, <2>6, <3>1 DEF Ends, Pending, KQ!Next, KQ!ReportEnd, KeysStep, EarlyEnd
    <2> QED
      BY <2>1, <2>3, <2>4, <2>5, <2>6 DEF KeyStep
  <1>2. ASSUME NEW k \in Keys, Type(k)
        PROVE  KeysStep
    <2>1. KQ!Arrive(k)
      BY <1>2, TypeStep DEF KQ!Arrive, Type
    <2> QED
      BY <1>2, <2>1, TypeStep DEF KQ!Next, KeysStep
  <1>3. CASE Hangup
    <2>1. KQ!Close
      BY <1>3, HangupStep DEF KQ!Close
    <2> QED
      BY <1>3, <2>1, HangupStep DEF KQ!Next, KeysStep
  <1>4. CASE UNCHANGED vars
    BY <1>4 DEF vars, Inv, TypeOK, EndOfInputIsLast, Pending, KQ!vars, KeysStep
  <1> QED
    BY <1>1, <1>2, <1>3, <1>4 DEF Next, User

LEMMA InvStep ==
  ASSUME Inv, [Next]_vars
  PROVE  Inv' /\ stdin'.waits = stdin.waits
  BY NextStep DEF KeysStep

(* The invariant holds of every reachable state. *)
THEOREM Invariance == Spec => []Inv
  <1>1. Inv /\ [Next]_vars => Inv'
    BY NextStep DEF KeysStep
  <1> QED
    BY <1>1, InitInv, PTL DEF Spec

(* The emulator by itself is run on an input whose reads wait.               *)
LEMMA ReadsWait == Spec => []stdin.waits
  <1>1. Init => stdin.waits
    BY DEF Init, NewStdin
  <1>2. Inv /\ stdin.waits /\ [Next]_vars => stdin.waits'
    BY NextStep DEF KeysStep
  <1> QED
    BY <1>1, <1>2, Invariance, PTL DEF Spec

(* The C declarations' types are kept, and every address a guest computes is *)
(* one of 16 bits, whatever image is run and whatever is typed.              *)
THEOREM TypeCorrect == Spec => []TypeOK
  <1>1. Inv => TypeOK
    BY DEF Inv
  <1> QED
    BY <1>1, Invariance, PTL

(* As long as reads wait, the end of file is never reported in front of a    *)
(* key that was typed.                                                       *)
THEOREM EndIsLast == Spec => []EndOfInputIsLast
  <1>1. Inv => EndOfInputIsLast
    BY DEF Inv
  <1> QED
    BY <1>1, Invariance, PTL

(* The keyboard path of the emulator implements the queue of keys.           *)
THEOREM KeyboardIsAQueue == Spec => KeysInOrder
  <1>1. Init => KQ!Init
    BY DEF Init, NewStdin, Pending, KQ!Init
  <1>2. Inv /\ stdin.waits /\ [Next]_vars => [KQ!Next]_(KQ!vars)
    BY NextStep DEF KeysStep, EarlyEnd
  <1> QED
    BY <1>1, <1>2, Invariance, ReadsWait, PTL DEF Spec, KeysInOrder, KQ!Spec

(* A poll that found the keyboard ready stays true until a byte is taken.    *)
THEOREM ReadinessIsStable == Spec => ReadyIsStable
  <1>1. Inv /\ [Next]_vars =>
          [Readable(stdin) /\ stdin'.taken = stdin.taken => Readable(stdin')]_vars
    <2> SUFFICES ASSUME Inv, [Next]_vars, Readable(stdin), stdin'.taken = stdin.taken
                 PROVE  Readable(stdin')
      OBVIOUS
    <2> USE DEF Readable
    <2>1. CASE Emulate
      <3>1. KeyStep(stdin, stdin')
        BY <2>1, EmulateStep
      <3>2. stdin.taken \in Seq(Byte) /\ Pending(stdin) \in Seq(Byte)
        BY ConcatProperties DEF Inv, TypeOK, StdinType, Pending
      <3>3. ~Takes(stdin, stdin')
        <4> SUFFICES ASSUME Takes(stdin, stdin') PROVE FALSE
          OBVIOUS
        <4>1. Head(Pending(stdin)) \in Byte
          BY <3>2, HeadTailProperties DEF Takes
        <4>2. Len(stdin'.taken) = Len(stdin.taken) + 1
          BY <3>2, <4>1, AppendProperties DEF Takes
        <4> QED
          BY <3>2, <4>2, LenProperties
      <3>4. stdin'.tty = stdin.tty /\ stdin'.closed = stdin.closed
        BY <3>1, <3>3 DEF KeyStep, Ends, Inv, TypeOK, StdinType
      <3> QED
        BY <3>4
    <2>2. ASSUME NEW k \in Keys, Type(k) PROVE Readable(stdin')
      <3>1. stdin'.tty = Append(stdin.tty, k) /\ stdin.tty \in Seq(Byte) /\ k \in Byte
        BY <2>2, Lc3Assumption DEF Type, Typed, Inv, TypeOK, StdinType
      <3> QED
        BY <3>1
    <2>3. CASE Hangup
      BY <2>3, HangupStep
    <2>4. CASE UNCHANGED vars
      BY <2>4 DEF vars
    <2> QED
      BY <2>1, <2>2, <2>3, <2>4 DEF Next, User
  <1> QED
    BY <1>1, Invariance, PTL DEF Spec, ReadyIsStable

(* No handler is under way once running is FALSE: only TRAP HALT clears it,  *)
(* and the loop test comes before the next fetch.                            *)
Halted == ~running => phase # "execute"

LEMMA HaltedInvariant == Spec => []Halted
  <1>1. Init => Halted
    BY DEF Init, Halted
  <1>2. Halted /\ [Next]_vars => Halted'
    <2> SUFFICES ASSUME Halted, [Next]_vars PROVE Halted'
      OBVIOUS
    <2> USE DEF Halted
    <2>1. CASE Fetch
      BY <2>1 DEF Fetch
    <2>2. CASE LeaveLoop
      BY <2>2 DEF LeaveLoop
    <2>3. CASE Handler
      BY <2>3 DEF Handler, Add, And, Not, Ld, Ldi, Ldr, Lea, St, Sti, Str, Br, Jmp, Jsr,
                  NoHandler, TrapGetc, TrapIn, TrapOut, TrapPuts, TrapPutsp, TrapHalt,
                  TrapUnknown, Trap, Execute
    <2>4. CASE User
      BY <2>4 DEF User, Type, Hangup
    <2>5. CASE UNCHANGED vars
      BY <2>5 DEF vars
    <2> QED
      BY <2>1, <2>2, <2>3, <2>4, <2>5 DEF Next, Emulate
  <1> QED
    BY <1>1, <1>2, PTL DEF Spec

(* Nothing is executed after TRAP HALT, whatever the guest and the user do.  *)
THEOREM HaltIsForEver == Spec => HaltIsFinal
  <1>1. Inv /\ Halted /\ [Next]_vars =>
          [~running => /\ UNCHANGED <<memory, registers, stdout, running>>
                       /\ stdin'.taken = stdin.taken]_vars
    <2> SUFFICES ASSUME Inv, Halted, [Next]_vars, ~running
                 PROVE  /\ UNCHANGED <<memory, registers, stdout, running>>
                        /\ stdin'.taken = stdin.taken
      OBVIOUS
    <2>1. CASE Fetch
      BY <2>1 DEF Fetch
    <2>2. CASE LeaveLoop
      BY <2>2 DEF LeaveLoop
    <2>3. CASE Handler
      <3>1. phase = "execute"
        BY <2>3 DEF Handler, Add, And, Not, Ld, Ldi, Ldr, Lea, St, Sti, Str, Br, Jmp, Jsr,
                    NoHandler, TrapGetc, TrapIn, TrapOut, TrapPuts, TrapPutsp, TrapHalt,
                    TrapUnknown, Trap, Execute
      <3> QED
        BY <3>1 DEF Halted
    <2>4. ASSUME NEW k \in Keys, Type(k)
          PROVE  /\ UNCHANGED <<memory, registers, stdout, running>>
                 /\ stdin'.taken = stdin.taken
      BY <2>4, TypeStep DEF Type
    <2>5. CASE Hangup
      BY <2>5, HangupStep DEF Hangup
    <2>6. CASE UNCHANGED vars
      BY <2>6 DEF vars
    <2> QED
      BY <2>1, <2>2, <2>3, <2>4, <2>5, <2>6 DEF Next, Emulate, User
  <1> QED
    BY <1>1, Invariance, HaltedInvariant, PTL DEF Spec, HaltIsFinal

-------------------------------------------------------------------------------
(* The condition register. *)

(* updateFlags() computes the sign of a word as the guest means it.          *)
LEMMA FlagDescribes == ASSUME NEW v \in Word PROVE Describes(FlagOf(v), v)
  <1>1. v \in Int /\ 0 <= v /\ v <= 65535
    BY InWord
  <1>2. (v \div 32768) % 2 = 1 <=> v >= 32768
    BY <1>1
  <1> QED
    BY <1>1, <1>2 DEF FlagOf, Describes, Signed, FL_POS, FL_ZR, FL_NEG

(* What FlagsFollowResult says of one step. *)
FlagsStep ==
  IF SetsFlags THEN Describes(registers'[R_COND], registers'[DR])
               ELSE registers'[R_COND] = registers[R_COND]

(* The handlers that end in updateFlags(), those that assign a register      *)
(* without it, and the steps that leave the registers alone.                 *)
LEMMA FlaggedStep ==
  ASSUME TypeOK, NEW v \in Word, AssignAndFlag(DR, v), SetsFlags
  PROVE  FlagsStep
  <1>1. /\ DR \in GeneralRegisters /\ DR \in Registers /\ DR # R_COND
        /\ R_COND \in Registers /\ GeneralRegisters \subseteq Registers \ {R_COND}
    BY FieldTypes, OperandTypes DEF TypeOK
  <1>2. registers'[DR] = v /\ registers'[R_COND] = FlagOf(v)
    BY <1>1 DEF AssignAndFlag, TypeOK
  <1>3. Describes(registers'[R_COND], registers'[DR])
    BY <1>2, FlagDescribes
  <1> QED
    BY <1>2, <1>3 DEF FlagsStep

LEMMA UnflaggedStep ==
  ASSUME TypeOK, NEW r \in GeneralRegisters \cup {R_PC}, NEW v, Assign(r, v), ~SetsFlags
  PROVE  FlagsStep
  <1>1. r # R_COND /\ R_COND \in Registers
    BY OperandTypes
  <1>2. registers'[R_COND] = registers[R_COND]
    BY <1>1 DEF Assign, TypeOK
  <1> QED
    BY <1>2 DEF FlagsStep

LEMMA SameRegisters == ASSUME registers' = registers, ~SetsFlags PROVE FlagsStep
  BY DEF FlagsStep

(* SetsFlags says of a step which handlers those are.                        *)
LEMMA FlagSetters ==
  /\ Add \/ Not \/ Ld \/ Ldr \/ Lea => SetsFlags
  /\ \/ Fetch \/ LeaveLoop \/ And \/ Ldi \/ St \/ Sti \/ Str \/ Br \/ Jmp \/ Jsr
     \/ NoHandler \/ TrapGetc \/ TrapIn \/ TrapOut \/ TrapPuts \/ TrapPutsp
     \/ TrapHalt \/ TrapUnknown \/ User \/ UNCHANGED vars
     => ~SetsFlags
  <1> USE DEF SetsFlags, OP_ADD, OP_NOT, OP_LD, OP_LDR, OP_LEA
  <1>1. Add \/ Not \/ Ld \/ Ldr \/ Lea => SetsFlags
    BY DEF Add, Not, Ld, Ldr, Lea, Execute
  <1>2. Fetch \/ LeaveLoop \/ User \/ UNCHANGED vars => ~SetsFlags
    BY DEF Fetch, LeaveLoop, User, Type, Hangup, vars
  <1>3. And \/ Ldi \/ St \/ Sti \/ Str \/ Br \/ Jmp \/ Jsr \/ NoHandler => ~SetsFlags
    BY DEF And, Ldi, St, Sti, Str, Br, Jmp, Jsr, NoHandler, Execute, OP_AND, OP_LDI,
           OP_ST, OP_STI, OP_STR, OP_BR, OP_JMP, OP_JSR, OP_RTI, OP_RES
  <1>4. \/ TrapGetc \/ TrapIn \/ TrapOut \/ TrapPuts \/ TrapPutsp
        \/ TrapHalt \/ TrapUnknown
        => ~SetsFlags
    BY DEF TrapGetc, TrapIn, TrapOut, TrapPuts, TrapPutsp, TrapHalt, TrapUnknown, Trap,
           Execute, OP_TRAP
  <1> QED
    BY <1>1, <1>2, <1>3, <1>4

LEMMA HandlerFlags == ASSUME Inv, Emulate PROVE FlagsStep
  <1>1. TypeOK /\ EofIsLast(stdin) /\ stdin \in StdinType /\ instruction \in Word
    BY DEF Inv, TypeOK, EndOfInputIsLast, EofIsLast
  <1>2. /\ DR \in GeneralRegisters /\ SR1 \in GeneralRegisters
        /\ R_R0 \in GeneralRegisters /\ SR1 \in Registers
    BY <1>1, FieldTypes, OperandTypes DEF R_R0, GeneralRegisters
  <1>3. /\ \A r \in Registers : registers[r] \in Word
        /\ Operand2 \in Word /\ PcRelative \in Word /\ BaseRelative \in Word
    BY <1>1, OperandTypes
  <1>4. CASE Fetch
    BY <1>1, <1>4, FlagSetters, UnflaggedStep DEF Fetch
  <1>5. CASE Add
    <2>1. Wrap(registers[SR1] + Operand2) \in Word
      BY <1>2, <1>3, WordSum
    <2> QED
      BY <1>1, <1>5, <2>1, FlagSetters, FlaggedStep DEF Add
  <1>6. CASE Not
    <2>1. BitNot(registers[SR1]) \in Word
      BY <1>2, <1>3, BitNotValue
    <2> QED
      BY <1>1, <1>6, <2>1, FlagSetters, FlaggedStep DEF Not
  <1>7. CASE Ld
    <2>1. PICK r \in MemoryRead(PcRelative, stdin) : AssignAndFlag(DR, r.val)
      BY <1>7 DEF Ld
    <2> QED
      BY <1>1, <1>7, <2>1, MemoryReadOutcome, FlagSetters, FlaggedStep
  <1>8. CASE Ldr
    <2>1. PICK r \in MemoryRead(BaseRelative, stdin) : AssignAndFlag(DR, r.val)
      BY <1>8 DEF Ldr
    <2> QED
      BY <1>1, <1>8, <2>1, MemoryReadOutcome, FlagSetters, FlaggedStep
  <1>9. CASE Lea
    BY <1>1, <1>3, <1>9, FlagSetters, FlaggedStep DEF Lea
  <1>10. CASE And
    BY <1>1, <1>2, <1>10, FlagSetters, UnflaggedStep DEF And
  <1>11. CASE Ldi
    <2>1. PICK p \in MemoryRead(PcRelative, stdin) :
            \E r \in MemoryRead(p.val, p.in) : Assign(DR, r.val)
      BY <1>11 DEF Ldi
    <2>2. PICK r \in MemoryRead(p.val, p.in) : Assign(DR, r.val)
      BY <2>1
    <2> QED
      BY <1>1, <1>2, <1>11, <2>2, FlagSetters, UnflaggedStep
  <1>12. CASE TrapGetc
    <2>1. PICK g \in Getchar(stdin) : Assign(R_R0, g.val)
      BY <1>12 DEF TrapGetc
    <2> QED
      BY <1>1, <1>2, <1>12, <2>1, FlagSetters, UnflaggedStep
  <1>13. CASE Br
    BY <1>1, <1>13, FlagSetters, UnflaggedStep, SameRegisters DEF Br
  <1>14. CASE Jmp
    BY <1>1, <1>14, FlagSetters, UnflaggedStep DEF Jmp
  <1>15. CASE Jsr
    <2>1. registers'[R_COND] = registers[R_COND]
      BY <1>1, <1>15, OperandTypes DEF Jsr, Linked, TypeOK, R_R7, R_PC, R_COND
    <2> QED
      BY <1>15, <2>1, FlagSetters DEF FlagsStep
  <1>16. CASE LeaveLoop \/ St \/ Sti \/ Str \/ NoHandler
    BY <1>16, FlagSetters, SameRegisters DEF LeaveLoop, St, Sti, Str, NoHandler
  <1>17. CASE TrapIn \/ TrapOut \/ TrapPuts \/ TrapPutsp \/ TrapHalt \/ TrapUnknown
    BY <1>17, FlagSetters, SameRegisters
    DEF TrapIn, TrapOut, TrapPuts, TrapPutsp, TrapHalt, TrapUnknown
  <1> QED
    BY <1>4, <1>5, <1>6, <1>7, <1>8, <1>9, <1>10, <1>11, <1>12, <1>13, <1>14,
       <1>15, <1>16, <1>17
    DEF Emulate, Handler

(* R_COND describes what the last ADD, NOT, LD, LDR or LEA assigned: these   *)
(* make it describe their result, and no other step touches it.              *)
THEOREM FlagsAreOfTheResult == Spec => FlagsFollowResult
  <1>1. Inv /\ [Next]_vars => [FlagsStep]_vars
    <2> SUFFICES ASSUME Inv, [Next]_vars PROVE FlagsStep
      OBVIOUS
    <2>1. CASE Emulate
      BY <2>1, HandlerFlags
    <2>2. CASE User
      BY <2>2, FlagSetters, SameRegisters DEF User, Type, Hangup
    <2>3. CASE UNCHANGED vars
      BY <2>3, FlagSetters, SameRegisters DEF vars
    <2> QED
      BY <2>1, <2>2, <2>3 DEF Next
  <1>2. [FlagsStep]_vars =>
          [IF SetsFlags THEN Describes(registers'[R_COND], registers'[DR])
                        ELSE registers'[R_COND] = registers[R_COND]]_vars
    BY DEF FlagsStep
  <1> QED
    BY <1>1, <1>2, Invariance, PTL DEF Spec, FlagsFollowResult
-------------------------------------------------------------------------------
(* Keys in the FILE buffer. *)

(* A load takes a key only when the poll finds the kernel's queue readable.  *)
LEMMA LoadsArePolled ==
  ASSUME NEW s \in StdinType, ~Readable(s), NEW address, NEW r \in MemoryRead(address, s)
  PROVE  r.in = s
  BY PortsDiffer DEF MemoryRead

(* Only GETC and IN take a key that select() does not see, whatever the      *)
(* guest and the user do.                                                    *)
THEOREM StrandedKeys == Spec => StrandedUntilNextKey
  <1> DEFINE Served == /\ phase = "execute" /\ Opcode = OP_TRAP
                       /\ TrapVector \in {TRAP_GETC, TRAP_IN}
  <1>1. Inv /\ [Next]_vars =>
          [Pending(stdin) # << >> /\ ~Readable(stdin) /\ stdin'.taken # stdin.taken =>
             Served]_vars
    <2> SUFFICES ASSUME Inv, [Next]_vars, ~Readable(stdin), stdin'.taken # stdin.taken
                 PROVE  Served
      OBVIOUS
    <2>0. stdin \in StdinType
      BY DEF Inv, TypeOK
    <2>1. CASE TrapGetc \/ TrapIn
      BY <2>1 DEF TrapGetc, TrapIn, Trap, Execute
    <2>2. CASE Fetch
      BY <2>0, <2>2, LoadsArePolled DEF Fetch
    <2>3. CASE Ld
      BY <2>0, <2>3, LoadsArePolled DEF Ld
    <2>4. CASE Ldr
      BY <2>0, <2>4, LoadsArePolled DEF Ldr
    <2>5. CASE Sti
      BY <2>0, <2>5, LoadsArePolled DEF Sti
    <2>6. CASE Ldi
      <3>1. PICK p \in MemoryRead(PcRelative, stdin) :
              \E r \in MemoryRead(p.val, p.in) : stdin' = r.in
        BY <2>6 DEF Ldi
      <3>2. p.in = stdin
        BY <2>0, LoadsArePolled
      <3> QED
        BY <2>0, <3>1, <3>2, LoadsArePolled
    <2>7. CASE LeaveLoop \/ Add \/ And \/ Not \/ Lea \/ St \/ Str \/ Br \/ Jmp \/ Jsr
               \/ NoHandler \/ TrapOut \/ TrapPuts \/ TrapPutsp \/ TrapHalt \/ TrapUnknown
      BY <2>7 DEF LeaveLoop, Add, And, Not, Lea, St, Str, Br, Jmp, Jsr, NoHandler,
                  TrapOut, TrapPuts, TrapPutsp, TrapHalt, TrapUnknown
    <2>8. ASSUME NEW k \in Keys, Type(k) PROVE FALSE
      BY <2>8, TypeStep
    <2>9. CASE Hangup
      BY <2>9, HangupStep
    <2>10. CASE UNCHANGED vars
      BY <2>10 DEF vars
    <2> QED
      BY <2>1, <2>2, <2>3, <2>4, <2>5, <2>6, <2>7, <2>8, <2>9, <2>10
      DEF Next, Emulate, Handler, User
  <1> QED
    BY <1>1, Invariance, PTL DEF Spec, StrandedUntilNextKey

-------------------------------------------------------------------------------
(* The echo.  The invariant follows an echoing guest through its code: what  *)
(* is taken and not yet echoed is the key in R0, between GETC and its OUT.   *)

(* The instruction that is executing or will be fetched next. *)
At == IF phase = "execute" THEN registers[R_PC] - 1 ELSE registers[R_PC]

KeyInHand ==
  /\ Len(stdin.taken) = EchoCount + 1
  /\ registers[R_R0] = stdin.taken[EchoCount + 1]
EndInHand ==
  /\ Len(stdin.taken) <= EchoCount
  /\ registers[R_R0] = EOF /\ stdin.eof
NothingInHand ==
  /\ Len(stdin.taken) <= EchoCount
  /\ Len(stdin.taken) < EchoCount => stdin.eof

AllEchoed == \A i \in 1 .. EchoCount : stdout[i] \in {<<Echo(i)>>, <<PROMPT, Echo(i)>>}

EchoInv(last) ==
  /\ Inv /\ stdin.waits
  /\ EchoesTo(last, memory)
  /\ phase = "execute" => running /\ instruction = memory[At]
  /\ running => At \in StartAddr .. last
  /\ stdout \in Seq(Seq(Int)) /\ (~running => stdout # << >>)
  /\ AllEchoed
  /\ IF running /\ memory[At] = TrapWord(TRAP_OUT)
     THEN KeyInHand \/ EndInHand
     ELSE NothingInHand

(* The words of an echoing guest and the handlers they have. *)
LEMMA TrapWords ==
  /\ TrapWord(TRAP_GETC) = 61472 /\ TrapWord(TRAP_OUT) = 61473
  /\ TrapWord(TRAP_IN) = 61475 /\ TrapWord(TRAP_HALT) = 61477
  BY DEF TrapWord, OP_TRAP, TRAP_GETC, TRAP_OUT, TRAP_IN, TRAP_HALT

LEMMA TrapFields ==
  ASSUME instruction \in {61472, 61473, 61475, 61477}
  PROVE  /\ Opcode = OP_TRAP
         /\ instruction = 61472 => TrapVector = TRAP_GETC
         /\ instruction = 61473 => TrapVector = TRAP_OUT
         /\ instruction = 61475 => TrapVector = TRAP_IN
         /\ instruction = 61477 => TrapVector = TRAP_HALT
  BY DEF Opcode, TrapVector, OP_TRAP, TRAP_GETC, TRAP_OUT, TRAP_IN, TRAP_HALT

(* What follows an instruction of an echoing guest. *)
LEMMA EchoCode ==
  ASSUME NEW last, NEW code, EchoesTo(last, code), NEW a \in StartAddr .. last
  PROVE  /\ a \in Int /\ last \in Int /\ StartAddr <= a /\ a <= last /\ last < MR_KBSR
         /\ a \in DOMAIN code
         /\ code[a] \in {61472, 61473, 61475, 61477}
         /\ code[a] = 61477 <=> a = last
         /\ a < last => (code[a] = 61472 <=> code[a + 1] = 61473)
  <1>1. /\ StartAddr \in Int /\ MR_KBSR \in Int
        /\ last \in StartAddr .. MR_KBSR - 1 /\ DOMAIN code = StartAddr .. last
    <2>1. StartAddr \in Int /\ MR_KBSR \in Int
      BY DEF StartAddr, MR_KBSR
    <2>2. last \in StartAddr .. MR_KBSR - 1 /\ DOMAIN code = StartAddr .. last
      BY DEF EchoesTo
    <2> QED
      BY <2>1, <2>2
  <1>2. code[last] = 61477
    BY TrapWords DEF EchoesTo
  <1>3. a < last => /\ code[a] \in {61472, 61473, 61475}
                    /\ code[a] = 61472 <=> code[a + 1] = 61473
    BY <1>1, TrapWords DEF EchoesTo
  <1> QED
    BY <1>1, <1>2, <1>3

LEMMA EchoInit ==
  ASSUME Init, NEW last, EchoesTo(last, memory)
  PROVE  EchoInv(last)
  <1>1. Inv /\ stdin.waits
    BY InitInv DEF Init, NewStdin
  <1>2. At = StartAddr /\ EchoCount = 0 /\ stdin.taken = << >> /\ stdout = << >>
    BY DEF Init, At, EchoCount, NewStdin, Registers, R_PC
  <1>3. StartAddr \in StartAddr .. last /\ memory[StartAddr] # TrapWord(TRAP_OUT)
    <2>1. StartAddr \in Int /\ MR_KBSR \in Int
      BY DEF StartAddr, MR_KBSR
    <2>2. last \in StartAddr .. MR_KBSR - 1 /\ memory[StartAddr] # TrapWord(TRAP_OUT)
      BY DEF EchoesTo
    <2> QED
      BY <2>1, <2>2
  <1>4. NothingInHand
    BY <1>2 DEF NothingInHand
  <1>5. << >> \in Seq(Seq(Int))
    OBVIOUS
  <1> QED
    BY <1>1, <1>2, <1>3, <1>4, <1>5 DEF EchoInv, AllEchoed, Init

(* The fetch takes the word from memory[] and leaves the keyboard alone. *)
LEMMA EchoFetch ==
  ASSUME NEW last, EchoInv(last), Fetch
  PROVE  EchoInv(last)'
  <1>1. Inv /\ EchoesTo(last, memory) /\ phase = "fetch" /\ running
    BY DEF EchoInv, Fetch
  <1>2. At = registers[R_PC] /\ At \in StartAddr .. last
    BY <1>1 DEF EchoInv, At
  <1>3. At \in Int /\ StartAddr <= At /\ At < MR_KBSR /\ At \in DOMAIN memory
    <2>1. /\ At \in Int /\ last \in Int /\ StartAddr <= At /\ At <= last /\ last < MR_KBSR
          /\ At \in DOMAIN memory
      BY <1>1, <1>2, EchoCode
    <2> QED
      BY <2>1 DEF MR_KBSR
  <1>4. MemoryRead(At, stdin) = {[val |-> memory[At], in |-> stdin]}
    BY <1>3 DEF MemoryRead, Cell, MR_KBSR, MR_KBDR, MR_DSR, MR_DDR, UINT16_MAX
  <1>5. instruction' = memory[At] /\ stdin' = stdin
    BY <1>2, <1>4 DEF Fetch
  <1>6. registers'[R_PC] = At + 1 /\ registers'[R_R0] = registers[R_R0]
    <2>1. Wrap(At + 1) = At + 1
      BY <1>3 DEF Wrap, StartAddr, MR_KBSR
    <2> QED
      BY <1>1, <1>2, <2>1 DEF Fetch, Assign, Inv, TypeOK, Registers, R_PC, R_R0
  <1>7. At' = At
    BY <1>3, <1>6 DEF Fetch, At
  <1>8. EchoCount' = EchoCount /\ (\A i : Echo(i)' = Echo(i))
    BY <1>5 DEF Fetch, EchoCount, Echo
  <1>9. /\ KeyInHand' <=> KeyInHand
        /\ EndInHand' <=> EndInHand
        /\ NothingInHand' <=> NothingInHand
    BY <1>5, <1>6, <1>8 DEF KeyInHand, EndInHand, NothingInHand
  <1>10. AllEchoed'
    BY <1>8 DEF EchoInv, AllEchoed, Fetch
  <1>11. Inv' /\ stdin'.waits
    BY <1>1, InvStep DEF EchoInv, Next, Emulate
  <1> QED
    BY <1>1, <1>5, <1>7, <1>9, <1>10, <1>11 DEF EchoInv, Fetch

(* A handler of an echoing guest finds the word it was called for, and when  *)
(* it is not HALT's the next word stands behind it.                          *)
LEMMA EchoExecutes ==
  ASSUME NEW last, EchoInv(last), phase = "execute"
  PROVE  /\ running
         /\ At \in StartAddr .. last /\ At \in Int
         /\ registers[R_PC] = At + 1
         /\ instruction = memory[At]
         /\ instruction \in {61472, 61473, 61475, 61477}
         /\ EchoCount = Len(stdout)
  <1>1. Inv /\ EchoesTo(last, memory) /\ running /\ instruction = memory[At]
    BY DEF EchoInv
  <1>2. At \in StartAddr .. last /\ At = registers[R_PC] - 1 /\ EchoCount = Len(stdout)
    BY <1>1 DEF EchoInv, At, EchoCount
  <1>3. At \in Int /\ memory[At] \in {61472, 61473, 61475, 61477}
    BY <1>1, <1>2, EchoCode
  <1>4. registers[R_PC] \in Int
    BY <1>1, OperandTypes, InWord DEF Inv
  <1> QED
    BY <1>1, <1>2, <1>3, <1>4

LEMMA EchoAdvances ==
  ASSUME NEW last, EchoInv(last), phase = "execute", instruction # 61477,
         phase' = "fetch", memory' = memory, running' = running,
         registers'[R_PC] = registers[R_PC]
  PROVE  /\ EchoesTo(last, memory')
         /\ At' \in StartAddr .. last
         /\ memory'[At'] = TrapWord(TRAP_OUT) <=> instruction = 61472
  <1>1. /\ At \in StartAddr .. last /\ registers[R_PC] = At + 1
        /\ instruction = memory[At]
    BY EchoExecutes
  <1>2. /\ At \in Int /\ last \in Int /\ StartAddr <= At /\ At < last /\ StartAddr \in Int
        /\ memory[At] = 61472 <=> memory[At + 1] = 61473
    <2>1. EchoesTo(last, memory)
      BY DEF EchoInv
    <2>2. StartAddr \in Int
      BY DEF StartAddr
    <2> QED
      BY <1>1, <2>1, <2>2, EchoCode
  <1>3. At' = At + 1
    BY <1>1 DEF At
  <1> QED
    BY <1>1, <1>2, <1>3, TrapWords DEF EchoInv

(* What the echo of a key or of the end of input adds. *)
LEMMA EchoGrows ==
  ASSUME stdout \in Seq(Seq(Int)), running, running', AllEchoed,
         NEW n \in Nat, n = Len(stdout), NEW e, stdout' = Append(stdout, e),
         \A i \in 1 .. n : Echo(i)' = Echo(i), Echo(n + 1)' \in Int,
         e \in {<<Echo(n + 1)'>>, <<PROMPT, Echo(n + 1)'>>}
  PROVE  stdout' \in Seq(Seq(Int)) /\ EchoCount' = n + 1 /\ AllEchoed'
  <1>1. PROMPT \in Int
    BY DEF PROMPT
  <1>2. e \in Seq(Int)
    <2> DEFINE c == Echo(n + 1)'
    <2>1. c \in Int /\ e \in {<<c>>, <<PROMPT, c>>}
      OBVIOUS
    <2> HIDE DEF c
    <2>2. <<c>> \in Seq(Int) /\ <<PROMPT, c>> \in Seq(Int)
      BY <1>1, <2>1
    <2> QED
      BY <2>1, <2>2
  <1>3. /\ stdout' \in Seq(Seq(Int)) /\ Len(stdout') = n + 1
        /\ \A i \in 1 .. n : stdout'[i] = stdout[i]
        /\ stdout'[n + 1] = e
    BY <1>2, AppendProperties
  <1>4. EchoCount = n /\ EchoCount' = n + 1
    BY <1>3 DEF EchoCount
  <1>5. ASSUME NEW i \in 1 .. n + 1
        PROVE  stdout'[i] \in {<<Echo(i)'>>, <<PROMPT, Echo(i)'>>}
    <2>1. CASE i = n + 1
      BY <1>3, <2>1
    <2>2. CASE i # n + 1
      <3>1. i \in 1 .. n
        BY <2>2
      <3>2. stdout[i] \in {<<Echo(i)>>, <<PROMPT, Echo(i)>>}
        BY <1>4, <3>1 DEF AllEchoed
      <3> QED
        BY <1>3, <3>1, <3>2
    <2> QED
      BY <2>1, <2>2
  <1>6. AllEchoed'
    BY <1>4, <1>5 DEF AllEchoed
  <1> QED
    BY <1>3, <1>4, <1>6

LEMMA LowByteOfByte == ASSUME NEW k \in Byte PROVE k % 256 = k /\ k \in Int
  <1>1. k \in Int /\ 0 <= k /\ k <= 255
    BY InByte
  <1> QED
    BY <1>1

(* A getchar() with nothing in hand: a key is taken only when all before it  *)
(* have been echoed, and the end is found only behind them.                  *)
LEMMA EchoTaking ==
  ASSUME Inv, stdin.waits, NothingInHand, running, stdout \in Seq(Seq(Int)),
         NEW n \in Nat, n = Len(stdout), NEW g \in Getchar(stdin), stdin' = g.in
  PROVE  /\ \/ /\ g.val \in Byte
               /\ stdin'.taken = Append(stdin.taken, g.val)
               /\ Len(stdin.taken) = n
               /\ Len(stdin'.taken) = n + 1
               /\ stdin'.taken[n + 1] = g.val
            \/ /\ g.val = EOF
               /\ stdin'.taken = stdin.taken
               /\ Len(stdin.taken) <= n
               /\ stdin'.eof
         /\ \A i \in 1 .. n : Echo(i)' = Echo(i)
         /\ Echo(n + 1)' = g.val % 256
         /\ g.val % 256 \in Int
  <1>1. /\ stdin \in StdinType /\ EofIsLast(stdin) /\ stdin.taken \in Seq(Byte)
        /\ Pending(stdin) \in Seq(Byte)
    BY ConcatProperties DEF Inv, TypeOK, StdinType, EndOfInputIsLast, EofIsLast, Pending
  <1>2. /\ EchoCount = n /\ Len(stdin.taken) \in Nat
        /\ Len(stdin.taken) <= n
        /\ Len(stdin.taken) < n => stdin.eof
    BY <1>1, LenProperties DEF EchoCount, NothingInHand
  <1>3. CASE g.val \in Byte /\ g.val = Head(Pending(stdin)) /\ Takes(stdin, g.in)
    <2>1. ~stdin.eof
      BY <1>1, <1>3 DEF Takes, EofIsLast
    <2>2. Len(stdin.taken) = n
      BY <1>2, <2>1
    <2>3. stdin'.taken = Append(stdin.taken, g.val)
      BY <1>3 DEF Takes
    <2>4. /\ Len(stdin'.taken) = n + 1
          /\ stdin'.taken[n + 1] = g.val
          /\ \A i \in 1 .. n : stdin'.taken[i] = stdin.taken[i]
      BY <1>1, <1>3, <2>2, <2>3, AppendProperties
    <2>5. ASSUME NEW i \in 1 .. n PROVE Echo(i)' = Echo(i)
      <3>1. i <= Len(stdin.taken) /\ i <= Len(stdin'.taken)
        BY <1>2, <2>2, <2>4
      <3>2. stdin'.taken[i] = stdin.taken[i]
        BY <2>4
      <3> QED
        BY <3>1, <3>2 DEF Echo
    <2>6. Echo(n + 1)' = g.val
      BY <1>2, <2>4 DEF Echo
    <2>7. g.val % 256 = g.val /\ g.val \in Int
      BY <1>3, LowByteOfByte
    <2> QED
      BY <1>3, <2>2, <2>3, <2>4, <2>5, <2>6, <2>7
  <1>4. CASE g.val = EOF /\ Ends(stdin, g.in)
    <2>1. stdin'.taken = stdin.taken /\ stdin'.eof
      BY <1>1, <1>4 DEF Ends, StdinType
    <2>2. \A i : Echo(i)' = Echo(i)
      BY <2>1 DEF Echo
    <2>3. EOF % 256 = UCHAR_MAX /\ UCHAR_MAX \in Int
      BY DEF EOF, UCHAR_MAX
    <2>4. Echo(n + 1)' = UCHAR_MAX
      BY <1>2, <2>1 DEF Echo
    <2> QED
      BY <1>2, <1>4, <2>1, <2>2, <2>3, <2>4
  <1> QED
    BY <1>1, <1>3, <1>4, GetcharOutcome

(* GETC, which is always followed by its OUT. *)
LEMMA EchoGetc ==
  ASSUME NEW last, EchoInv(last), TrapGetc
  PROVE  EchoInv(last)'
  <1>1. /\ Inv /\ stdin.waits
        /\ phase = "execute" /\ Opcode = OP_TRAP /\ TrapVector = TRAP_GETC
        /\ phase' = "fetch" /\ UNCHANGED <<memory, running, stdout>>
    BY DEF EchoInv, TrapGetc, Trap, Execute
  <1>2. running /\ instruction = 61472 /\ instruction = memory[At]
    BY <1>1, EchoExecutes, TrapFields DEF TRAP_GETC, TRAP_OUT, TRAP_IN, TRAP_HALT
  <1>3. PICK g \in Getchar(stdin) : Assign(R_R0, g.val) /\ stdin' = g.in
    BY DEF TrapGetc
  <1>4. registers'[R_R0] = g.val /\ registers'[R_PC] = registers[R_PC]
    BY <1>1, <1>3 DEF Inv, TypeOK, Assign, Registers, R_R0, R_PC
  <1>5. /\ EchoesTo(last, memory') /\ At' \in StartAddr .. last
        /\ memory'[At'] = TrapWord(TRAP_OUT)
    BY <1>1, <1>2, <1>4, EchoAdvances
  <1>6. NothingInHand /\ stdout \in Seq(Seq(Int))
    BY <1>2, TrapWords DEF EchoInv
  <1> DEFINE n == Len(stdout)
  <1>7. n \in Nat /\ EchoCount = n /\ EchoCount' = n
    BY <1>1, <1>2, <1>6 DEF EchoCount
  <1>8. /\ \/ /\ Len(stdin'.taken) = n + 1 /\ stdin'.taken[n + 1] = g.val
           \/ g.val = EOF /\ Len(stdin'.taken) <= n /\ stdin'.eof
        /\ \A i \in 1 .. n : Echo(i)' = Echo(i)
    BY <1>1, <1>2, <1>3, <1>6, <1>7, EchoTaking
  <1> HIDE DEF n
  <1>9. KeyInHand' \/ EndInHand'
    BY <1>4, <1>7, <1>8 DEF KeyInHand, EndInHand
  <1>10. AllEchoed'
    BY <1>1, <1>7, <1>8 DEF EchoInv, AllEchoed
  <1>11. Inv' /\ stdin'.waits
    BY <1>1, InvStep DEF EchoInv, Next, Emulate, Handler
  <1> QED
    BY <1>1, <1>2, <1>5, <1>6, <1>9, <1>10, <1>11 DEF EchoInv

(* OUT prints what GETC left in R0. *)
LEMMA EchoOut ==
  ASSUME NEW last, EchoInv(last), TrapOut
  PROVE  EchoInv(last)'
  <1>1. /\ Inv /\ phase = "execute" /\ Opcode = OP_TRAP /\ TrapVector = TRAP_OUT
        /\ phase' = "fetch" /\ UNCHANGED <<memory, registers, running, stdin>>
    BY DEF EchoInv, TrapOut, Trap, Execute
  <1>2. running /\ instruction = 61473 /\ instruction = memory[At]
    BY <1>1, EchoExecutes, TrapFields DEF TRAP_GETC, TRAP_OUT, TRAP_IN, TRAP_HALT
  <1>3. stdout' = Append(stdout, <<registers[R_R0] % 256>>)
    BY DEF TrapOut, Flush
  <1>4. /\ EchoesTo(last, memory') /\ At' \in StartAddr .. last
        /\ memory'[At'] # TrapWord(TRAP_OUT)
    BY <1>1, <1>2, EchoAdvances
  <1>5. (KeyInHand \/ EndInHand) /\ stdout \in Seq(Seq(Int))
    BY <1>2, TrapWords DEF EchoInv
  <1> DEFINE n == Len(stdout)  c == registers[R_R0] % 256
  <1>6. n \in Nat /\ EchoCount = n
    BY <1>2, <1>5 DEF EchoCount
  <1>7. \A i : Echo(i)' = Echo(i)
    BY <1>1 DEF Echo
  <1>8. /\ c \in Int /\ Echo(n + 1) = c
        /\ Len(stdin.taken) <= n + 1
        /\ Len(stdin.taken) < n + 1 => stdin.eof
    <2>0. stdin.taken \in Seq(Byte) /\ Len(stdin.taken) \in Nat
      BY <1>1, LenProperties DEF Inv, TypeOK, StdinType
    <2>1. CASE KeyInHand
      <3>1. /\ Len(stdin.taken) = n + 1
            /\ registers[R_R0] = stdin.taken[n + 1]
            /\ stdin.taken[n + 1] \in Byte
        BY <1>6, <2>0, <2>1 DEF KeyInHand
      <3>2. c = stdin.taken[n + 1] /\ c \in Int
        BY <3>1, LowByteOfByte
      <3> QED
        BY <1>6, <2>0, <3>1, <3>2 DEF Echo
    <2>2. CASE EndInHand
      <3>1. Len(stdin.taken) <= n /\ registers[R_R0] = EOF /\ stdin.eof
        BY <1>6, <2>2 DEF EndInHand
      <3>2. c = UCHAR_MAX /\ UCHAR_MAX \in Int
        BY <3>1 DEF EOF, UCHAR_MAX
      <3> HIDE DEF c
      <3> QED
        BY <1>6, <2>0, <3>1, <3>2 DEF Echo
    <2> QED
      BY <1>5, <2>1, <2>2
  <1> HIDE DEF n, c
  <1>9. stdout' \in Seq(Seq(Int)) /\ EchoCount' = n + 1 /\ AllEchoed'
    <2>1. PICK m \in Nat : m = n
      BY <1>6
    <2>2. PICK e : e = <<c>>
      OBVIOUS
    <2>3. m = Len(stdout) /\ stdout' = Append(stdout, e)
      BY <1>3, <2>1, <2>2 DEF n, c
    <2>4. Echo(m + 1)' = c
      BY <1>7, <1>8, <2>1, <2>2
    <2>5. AllEchoed
      BY DEF EchoInv
    <2> QED
      BY <1>1, <1>2, <1>5, <1>7, <1>8, <2>1, <2>2, <2>3, <2>4, <2>5, EchoGrows
  <1>10. NothingInHand'
    BY <1>1, <1>8, <1>9 DEF NothingInHand
  <1>11. Inv' /\ stdin'.waits
    BY <1>1, InvStep DEF EchoInv, Next, Emulate, Handler
  <1> QED
    BY <1>1, <1>2, <1>4, <1>9, <1>10, <1>11 DEF EchoInv

(* IN takes a key and prints it behind its prompt. *)
LEMMA EchoIn ==
  ASSUME NEW last, EchoInv(last), TrapIn
  PROVE  EchoInv(last)'
  <1>1. /\ Inv /\ stdin.waits
        /\ phase = "execute" /\ Opcode = OP_TRAP /\ TrapVector = TRAP_IN
        /\ phase' = "fetch" /\ UNCHANGED <<memory, registers, running>>
    BY DEF EchoInv, TrapIn, Trap, Execute
  <1>2. running /\ instruction = 61475 /\ instruction = memory[At]
    BY <1>1, EchoExecutes, TrapFields DEF TRAP_GETC, TRAP_OUT, TRAP_IN, TRAP_HALT
  <1>3. PICK g \in Getchar(stdin) :
          stdout' = Append(stdout, <<PROMPT, g.val % 256>>) /\ stdin' = g.in
    BY DEF TrapIn, Flush
  <1>4. /\ EchoesTo(last, memory') /\ At' \in StartAddr .. last
        /\ memory'[At'] # TrapWord(TRAP_OUT)
    BY <1>1, <1>2, EchoAdvances
  <1>5. NothingInHand /\ stdout \in Seq(Seq(Int)) /\ stdin.taken \in Seq(Byte)
    BY <1>1, <1>2, TrapWords DEF EchoInv, Inv, TypeOK, StdinType
  <1>6. Len(stdout) \in Nat /\ EchoCount = Len(stdout)
    BY <1>2, <1>5 DEF EchoCount
  <1>7. PICK n \in Nat : n = Len(stdout)
    BY <1>6
  <1>8. /\ \/ Len(stdin'.taken) = n + 1
           \/ Len(stdin'.taken) <= n /\ stdin'.eof
        /\ \A i \in 1 .. n : Echo(i)' = Echo(i)
        /\ Echo(n + 1)' = g.val % 256 /\ g.val % 256 \in Int
    BY <1>1, <1>2, <1>3, <1>5, <1>7, EchoTaking
  <1>9. stdout' \in Seq(Seq(Int)) /\ EchoCount' = n + 1 /\ AllEchoed'
    <2>1. AllEchoed
      BY DEF EchoInv
    <2>2. PICK e : e = <<PROMPT, g.val % 256>>
      OBVIOUS
    <2>3. e \in {<<Echo(n + 1)'>>, <<PROMPT, Echo(n + 1)'>>} /\ Echo(n + 1)' \in Int
      BY <1>8, <2>2
    <2>4. stdout' = Append(stdout, e)
      BY <1>3, <2>2
    <2>5. /\ stdout \in Seq(Seq(Int)) /\ running /\ running'
          /\ \A i \in 1 .. n : Echo(i)' = Echo(i)
      BY <1>1, <1>2, <1>5, <1>8
    <2> QED
      BY <1>7, <2>1, <2>3, <2>4, <2>5, EchoGrows
  <1>10. NothingInHand'
    BY <1>8, <1>9 DEF NothingInHand
  <1>11. Inv' /\ stdin'.waits
    BY <1>1, InvStep DEF EchoInv, Next, Emulate, Handler
  <1> QED
    BY <1>1, <1>2, <1>4, <1>9, <1>10, <1>11 DEF EchoInv

(* HALT ends the echo, after the last key taken has been echoed. *)
LEMMA EchoHalt ==
  ASSUME NEW last, EchoInv(last), TrapHalt
  PROVE  EchoInv(last)'
  <1>1. /\ Inv /\ phase = "execute" /\ Opcode = OP_TRAP /\ TrapVector = TRAP_HALT
        /\ phase' = "fetch" /\ ~running' /\ UNCHANGED <<memory, registers, stdin>>
        /\ stdout' = Append(stdout, <<HALTING>>)
    BY DEF EchoInv, TrapHalt, Trap, Execute, Flush
  <1>2. running /\ instruction = 61477 /\ instruction = memory[At]
    BY <1>1, EchoExecutes, TrapFields DEF TRAP_GETC, TRAP_OUT, TRAP_IN, TRAP_HALT
  <1>3. NothingInHand /\ stdout \in Seq(Seq(Int)) /\ EchoesTo(last, memory)
    BY <1>2, TrapWords DEF EchoInv
  <1>4. <<HALTING>> \in Seq(Int)
    <2>1. HALTING \in Int
      BY DEF HALTING
    <2> QED
      BY <2>1
  <1>5. /\ stdout' \in Seq(Seq(Int)) /\ Len(stdout') = Len(stdout) + 1
        /\ \A i \in 1 .. Len(stdout) : stdout'[i] = stdout[i]
        /\ Len(stdout) \in Nat
    BY <1>1, <1>3, <1>4, AppendProperties
  <1>6. EchoCount' = EchoCount /\ EchoCount = Len(stdout) /\ stdout' # << >>
    BY <1>1, <1>2, <1>5 DEF EchoCount
  <1>7. \A i : Echo(i)' = Echo(i)
    BY <1>1 DEF Echo
  <1>8. AllEchoed'
    BY <1>5, <1>6, <1>7 DEF EchoInv, AllEchoed
  <1>9. NothingInHand'
    BY <1>1, <1>3, <1>6 DEF NothingInHand
  <1>10. Inv' /\ stdin'.waits
    BY <1>1, InvStep DEF EchoInv, Next, Emulate, Handler
  <1> QED
    BY <1>1, <1>3, <1>5, <1>6, <1>8, <1>9, <1>10 DEF EchoInv

(* Steps that concern neither the guest nor what it has taken or printed.    *)
LEMMA EchoElse ==
  ASSUME NEW last, EchoInv(last), Inv', stdin'.waits, stdin'.taken = stdin.taken,
         stdin.eof => stdin'.eof,
         UNCHANGED <<memory, registers, running, instruction, stdout>>,
         phase' = phase \/ (~running /\ phase = "fetch" /\ phase' = "done")
  PROVE  EchoInv(last)'
  <1>1. EchoCount' = EchoCount /\ (\A i : Echo(i)' = Echo(i))
    BY DEF EchoCount, Echo
  <1>2. /\ KeyInHand => KeyInHand'
        /\ EndInHand => EndInHand'
        /\ NothingInHand => NothingInHand'
    BY <1>1 DEF KeyInHand, EndInHand, NothingInHand
  <1>3. phase' = phase => At' = At
    BY DEF At
  <1>4. AllEchoed'
    BY <1>1 DEF EchoInv, AllEchoed
  <1> QED
    BY <1>2, <1>3, <1>4 DEF EchoInv

(* Every step keeps the invariant of the echo. *)
LEMMA EchoStep ==
  ASSUME NEW last, EchoInv(last), [Next]_vars
  PROVE  EchoInv(last)'
  <1>1. Inv /\ Inv' /\ stdin'.waits
    BY InvStep DEF EchoInv
  <1>2. CASE Fetch
    BY <1>2, EchoFetch
  <1>3. CASE LeaveLoop
    BY <1>1, <1>3, EchoElse DEF LeaveLoop
  <1>4. CASE Handler
    <2>1. phase = "execute"
      BY <1>4 DEF Handler, Add, And, Not, Ld, Ldi, Ldr, Lea, St, Sti, Str, Br, Jmp, Jsr,
                  NoHandler, TrapGetc, TrapIn, TrapOut, TrapPuts, TrapPutsp, TrapHalt,
                  TrapUnknown, Trap, Execute
    <2>2. /\ Opcode = OP_TRAP
          /\ TrapVector \in {TRAP_GETC, TRAP_OUT, TRAP_IN, TRAP_HALT}
      BY <2>1, EchoExecutes, TrapFields
    <2>3. TrapGetc \/ TrapOut \/ TrapIn \/ TrapHalt
      BY <1>4, <2>2
      DEF Handler, Add, And, Not, Ld, Ldi, Ldr, Lea, St, Sti, Str, Br, Jmp, Jsr, NoHandler,
          TrapPuts, TrapPutsp, TrapUnknown, Trap, Execute, OP_ADD, OP_AND, OP_NOT, OP_LD,
          OP_LDI, OP_LDR, OP_LEA, OP_ST, OP_STI, OP_STR, OP_BR, OP_JMP, OP_JSR, OP_RTI,
          OP_RES, OP_TRAP, TRAP_GETC, TRAP_OUT, TRAP_PUTS, TRAP_IN, TRAP_PUTSP, TRAP_HALT
    <2> QED
      BY <2>3, EchoGetc, EchoOut, EchoIn, EchoHalt
  <1>5. ASSUME NEW k \in Keys, Type(k) PROVE EchoInv(last)'
    BY <1>1, <1>5, TypeStep, EchoElse DEF Type
  <1>6. CASE Hangup
    BY <1>1, <1>6, HangupStep, EchoElse DEF Hangup
  <1>7. CASE UNCHANGED vars
    BY <1>1, <1>7, EchoElse DEF vars
  <1> QED
    BY <1>2, <1>3, <1>4, <1>5, <1>6, <1>7 DEF Next, Emulate, User

(* An echoing guest of any length echoes every key it takes, in order and    *)
(* once, whatever is typed when, and however select() and read() split it.   *)
THEOREM EchoIsTyped == Spec => EchoIsWhatWasTyped
  <1> DEFINE EI == \E last : EchoInv(last)
  <1>1. Init /\ Echoes(memory) => EI
    BY EchoInit DEF Echoes
  <1>2. EI /\ [Next]_vars => EI'
    BY EchoStep
  <1>3. EI => Echoed
    <2> SUFFICES ASSUME NEW last, EchoInv(last) PROVE Echoed
      OBVIOUS
    <2>1. Len(stdout) \in Nat /\ (~running => Len(stdout) # 0)
      BY EmptySeq, LenProperties DEF EchoInv
    <2>2. EchoCount \in Nat /\ Len(stdin.taken) \in Nat
      BY <2>1, LenProperties DEF EchoCount, EchoInv, Inv, TypeOK, StdinType
    <2> QED
      BY <2>2 DEF EchoInv, AllEchoed, Echoed, KeyInHand, EndInHand, NothingInHand
  <1> QED
    BY <1>1, <1>2, <1>3, PTL DEF Spec, EchoIsWhatWasTyped

-------------------------------------------------------------------------------
(* Induction, for the one recursion of the model: FlattenSeq in PUTSP.       *)

(* A property of the naturals that fails somewhere fails somewhere first.    *)
LEMMA Least ==
  ASSUME NEW T, T \subseteq Nat, T # {}
  PROVE  \E n \in T : \A m \in T : n <= m
  <1> DEFINE R == OpToRel(<, Nat)
  <1>1. IsWellFoundedOn(R, Nat)
    BY NatLessThanWellFounded
  <1>2. \A x, y \in Nat : <<y, x>> \in R <=> y < x
    BY DEF OpToRel
  <1> HIDE DEF R
  <1>3. PICK n \in T : \A y \in T : ~ (<<y, n>> \in R)
    BY <1>1, WFMin
  <1>4. ASSUME NEW m \in T PROVE n <= m
    <2>1. n \in Nat /\ m \in Nat
      OBVIOUS
    <2>2. ~ (m < n)
      BY <1>2, <1>3, <2>1
    <2> QED
      BY <2>1, <2>2
  <1> QED
    BY <1>4

(* The function FlattenSeq recurs on, and what it comes to. *)
Flattens(s, f) ==
  f = [i \in 1 .. Len(s) |-> IF i = 1 THEN s[i] ELSE f[i - 1] \o s[i]]

LEMMA FlattenUnfolds ==
  ASSUME NEW s, Len(s) # 0, \E f : Flattens(s, f)
  PROVE  \E f : Flattens(s, f) /\ FlattenSeq(s) = f[Len(s)]
  BY DEF Flattens, FlattenSeq

LEMMA FlattenSeqIs ==
  ASSUME NEW s, Len(s) \in Nat \ {0}, NEW g, Flattens(s, g)
  PROVE  FlattenSeq(s) = g[Len(s)]
  <1>1. PICK f : Flattens(s, f) /\ FlattenSeq(s) = f[Len(s)]
    BY FlattenUnfolds
  <1>2. ASSUME NEW i \in 1 .. Len(s)
        PROVE  /\ f[i] = IF i = 1 THEN s[i] ELSE f[i - 1] \o s[i]
               /\ g[i] = IF i = 1 THEN s[i] ELSE g[i - 1] \o s[i]
    BY <1>1 DEF Flattens
  <1> DEFINE T == {i \in 1 .. Len(s) : f[i] # g[i]}
  <1>3. T = {}
    <2> SUFFICES ASSUME T # {} PROVE FALSE
      OBVIOUS
    <2>1. T \subseteq Nat
      OBVIOUS
    <2>2. PICK i \in T : \A m \in T : i <= m
      BY <2>1, Least
    <2>3. i \in 1 .. Len(s) /\ f[i] # g[i] /\ i # 1
      BY <1>2
    <2>4. i - 1 \in 1 .. Len(s) /\ i - 1 \notin T
      BY <2>2, <2>3
    <2>5. f[i - 1] = g[i - 1]
      BY <2>4
    <2> QED
      BY <1>2, <2>3, <2>5
  <1> QED
    BY <1>1, <1>3

(* PUTSP: characters packed two to a word, the first in the low byte, come   *)
(* out one after the other, when only the last word lacks a second one.      *)
CharAt(text, k) ==
  IF k % 2 = 1 THEN text[(k + 1) \div 2] % 256 ELSE text[k \div 2] \div 256
CharsTo(text, i) == IF i > 0 /\ text[i] \div 256 = 0 THEN 2 * i - 1 ELSE 2 * i
CharsOf(text, i) == [k \in 1 .. CharsTo(text, i) |-> CharAt(text, k)]
BytesOf(w) == IF w \div 256 = 0 THEN <<w % 256>> ELSE <<w % 256, w \div 256>>

LEMMA FunctionIsSeq ==
  ASSUME NEW q \in Nat, NEW f \in [1 .. q -> Int]
  PROVE  f \in Seq(Int) /\ Len(f) = q
  OBVIOUS

(* The bytes of the i-th word are the last one or two of its first i words.  *)
LEMMA CharsStep ==
  ASSUME NEW n \in Nat, NEW text \in [1 .. n -> Word], NEW i \in 1 .. n,
         \A j \in 1 .. n - 1 : text[j] \div 256 # 0
  PROVE  CharsOf(text, i) = IF i = 1 THEN BytesOf(text[i])
                            ELSE CharsOf(text, i - 1) \o BytesOf(text[i])
  <1>0. i \in Nat /\ i >= 1 /\ text[i] \in Word
    OBVIOUS
  <1> DEFINE hi == text[i] \div 256  lo == text[i] % 256  b == BytesOf(text[i])
  <1>1. hi \in Int /\ lo \in Int
    BY <1>0, InWord
  <1>2. /\ (2 * i - 1) % 2 = 1 /\ ((2 * i - 1) + 1) \div 2 = i
        /\ (2 * i) % 2 = 0 /\ (2 * i) \div 2 = i
    BY <1>0
  <1>3. CharAt(text, 2 * i - 1) = lo /\ CharAt(text, 2 * i) = hi
    BY <1>2 DEF CharAt
  <1>4. \A j \in 1 .. n : \A k \in 1 .. 2 * j : CharAt(text, k) \in Int
    <2> SUFFICES ASSUME NEW j \in 1 .. n, NEW k \in 1 .. 2 * j PROVE CharAt(text, k) \in Int
      OBVIOUS
    <2>1. CASE k % 2 = 1
      <3>1. (k + 1) \div 2 \in 1 .. n
        BY <2>1
      <3>2. text[(k + 1) \div 2] \in Int
        BY <3>1, InWord
      <3> QED
        BY <2>1, <3>2 DEF CharAt
    <2>2. CASE k % 2 # 1
      <3>1. k \div 2 \in 1 .. n
        BY <2>2
      <3>2. text[k \div 2] \in Int
        BY <3>1, InWord
      <3> QED
        BY <2>2, <3>2 DEF CharAt
    <2> QED
      BY <2>1, <2>2
  <1>5. b \in Seq(Int) /\ b = IF hi = 0 THEN <<lo>> ELSE <<lo, hi>>
    <2>1. b = IF hi = 0 THEN <<lo>> ELSE <<lo, hi>>
      BY DEF BytesOf
    <2> HIDE DEF hi, lo
    <2>2. <<lo>> \in Seq(Int) /\ <<lo, hi>> \in Seq(Int)
      BY <1>1
    <2> QED
      BY <2>1, <2>2
  <1>. PICK m \in Nat : m = 2 * i - 2
    BY <1>0
  <1>6. /\ CharsTo(text, i) = m + Len(b) /\ Len(b) \in {1, 2}
        /\ b[1] = lo /\ (Len(b) = 2 => b[2] = hi)
        /\ CharsTo(text, i) \in 1 .. 2 * i
    <2> HIDE DEF b
    <2>1. hi = 0 => CharsTo(text, i) = 2 * i - 1
      BY <1>0 DEF CharsTo
    <2>2. hi # 0 => CharsTo(text, i) = 2 * i
      BY <1>0 DEF CharsTo
    <2> HIDE DEF hi, lo
    <2> QED
      BY <1>0, <1>5, <2>1, <2>2
  <1>7. CharsOf(text, i) \in Seq(Int) /\ Len(CharsOf(text, i)) = m + Len(b)
    <2> DEFINE q == CharsTo(text, i)
    <2>1. q \in Nat /\ q <= 2 * i /\ q = m + Len(b)
      BY <1>0, <1>6
    <2> HIDE DEF q
    <2>2. \A k \in 1 .. q : k \in 1 .. 2 * i
      BY <1>0, <2>1
    <2>3. CharsOf(text, i) \in [1 .. q -> Int]
      BY <1>4, <2>2 DEF CharsOf, q
    <2> QED
      BY <2>1, <2>3, FunctionIsSeq
  <1>8. CASE i = 1
    <2> HIDE DEF b, hi, lo
    <2>1. \A k \in 1 .. Len(b) : CharsOf(text, i)[k] = b[k]
      BY <1>3, <1>6, <1>8 DEF CharsOf
    <2>2. CharsOf(text, i) = b
      BY <1>5, <1>6, <1>7, <1>8, <2>1, SeqEqual
    <2> QED
      BY <1>8, <2>2 DEF b
  <1>9. CASE i # 1
    <2> DEFINE c == CharsOf(text, i - 1)
    <2>1. i - 1 \in 1 .. n /\ i - 1 \in 1 .. n - 1 /\ CharsTo(text, i - 1) = m
      BY <1>0, <1>9 DEF CharsTo
    <2>2. c \in Seq(Int) /\ Len(c) = m /\ m \in Nat
      <3>1. \A k \in 1 .. m : CharAt(text, k) \in Int
        BY <1>0, <1>4
      <3>2. c \in [1 .. m -> Int]
        BY <2>1, <3>1 DEF CharsOf
      <3> QED
        BY <3>2, FunctionIsSeq
    <2>3. \A k \in 1 .. m : c[k] = CharAt(text, k)
      BY <2>1 DEF CharsOf
    <2> HIDE DEF b, hi, lo, c
    <2>4. /\ c \o b \in Seq(Int) /\ Len(c \o b) = m + Len(b)
          /\ \A k \in 1 .. m + Len(b) : (c \o b)[k] = IF k <= m THEN c[k] ELSE b[k - m]
      BY <1>5, <2>2, ConcatProperties
    <2>5. \A k \in 1 .. m + Len(b) : CharsOf(text, i)[k] = CharAt(text, k)
      BY <1>6 DEF CharsOf
    <2>6. ASSUME NEW k \in 1 .. m + Len(b) PROVE CharsOf(text, i)[k] = (c \o b)[k]
      <3>0. /\ k \in Int /\ 1 <= k /\ k <= m + Len(b)
            /\ CharsOf(text, i)[k] = CharAt(text, k)
            /\ (c \o b)[k] = IF k <= m THEN c[k] ELSE b[k - m]
        <4>1. m + Len(b) \in Int
          BY <1>6
        <4>2. k \in Int /\ 1 <= k /\ k <= m + Len(b)
          BY <4>1
        <4>3. CharsOf(text, i)[k] = CharAt(text, k)
          BY <2>5, Zenon
        <4>4. (c \o b)[k] = IF k <= m THEN c[k] ELSE b[k - m]
          BY <2>4, Zenon
        <4> QED
          BY <4>2, <4>3, <4>4, Zenon
      <3>1. CASE k <= m
        BY <2>3, <3>0, <3>1
      <3>2. CASE k > m
        <4>1. k = m + 1 \/ (k = m + 2 /\ Len(b) = 2)
          <5>1. CASE Len(b) = 1
            BY <3>0, <3>2, <5>1
          <5>2. CASE Len(b) = 2
            BY <3>0, <3>2, <5>2
          <5> QED
            BY <1>6, <5>1, <5>2
        <4>2. m + 1 = 2 * i - 1 /\ m + 2 = 2 * i
          BY <1>0
        <4> QED
          BY <1>3, <1>6, <3>0, <3>2, <4>1, <4>2
      <3> QED
        BY <3>0, <3>1, <3>2
    <2>7. CharsOf(text, i) = c \o b
      BY <1>7, <2>4, <2>6, SeqEqual
    <2> QED
      BY <1>9, <2>7 DEF b, c
  <1> QED
    BY <1>8, <1>9

LEMMA PackedIs ==
  ASSUME NEW n \in Nat, NEW text \in [1 .. n -> Word],
         \A j \in 1 .. n - 1 : text[j] \div 256 # 0
  PROVE  PackedBytes(text) = CharsOf(text, n)
  <1> DEFINE s == [j \in 1 .. n |-> BytesOf(text[j])]
             g == [i \in 1 .. n |-> CharsOf(text, i)]
  <1>1. PackedBytes(text) = FlattenSeq(s)
    BY DEF PackedBytes, BytesOf
  <1>2. Len(s) = n
    OBVIOUS
  <1>3. CASE n = 0
    <2>1. FlattenSeq(s) = s
      BY <1>2, <1>3 DEF FlattenSeq
    <2>2. s = << >>
      BY <1>3
    <2>3. CharsOf(text, n) = << >>
      BY <1>3 DEF CharsOf, CharsTo
    <2> QED
      BY <1>1, <2>1, <2>2, <2>3
  <1>4. CASE n # 0
    <2>1. Flattens(s, g)
      <3>1. ASSUME NEW i \in 1 .. n
            PROVE  g[i] = IF i = 1 THEN s[i] ELSE g[i - 1] \o s[i]
        <4>1. g[i] = CharsOf(text, i) /\ s[i] = BytesOf(text[i])
          OBVIOUS
        <4>2. i # 1 => g[i - 1] = CharsOf(text, i - 1)
          OBVIOUS
        <4> QED
          BY <4>1, <4>2, CharsStep
      <3> DEFINE h == [i \in 1 .. n |-> IF i = 1 THEN s[i] ELSE g[i - 1] \o s[i]]
      <3>2. g = h
        BY <3>1
      <3> QED
        BY <1>2, <3>2 DEF Flattens
    <2>2. FlattenSeq(s) = g[n]
      BY <1>2, <1>4, <2>1, FlattenSeqIs
    <2> QED
      BY <1>1, <1>4, <2>2
  <1> QED
    BY <1>3, <1>4

-------------------------------------------------------------------------------
(* A guest that prints: LEA R0, +2; PUTS or PUTSP; HALT; and n words that    *)
(* are not 0 followed by one that is.                                        *)
Prints(trap, n) ==
  /\ trap \in {TRAP_PUTS, TRAP_PUTSP} /\ n \in Nat /\ StartAddr + 3 + n \in Index
  /\ Cell(StartAddr) = 57346 /\ Cell(StartAddr + 1) = TrapWord(trap)
  /\ Cell(StartAddr + 2) = TrapWord(TRAP_HALT)
  /\ (\A i \in 1 .. n : Cell(StartAddr + 2 + i) # 0) /\ Cell(StartAddr + 3 + n) = 0
GuestText(n) == [i \in 1 .. n |-> Cell(StartAddr + 2 + i)]
Printed(trap, n) ==
  IF trap = TRAP_PUTS THEN LowBytes(GuestText(n)) ELSE PackedBytes(GuestText(n))

(* The invariant follows the guest through its three instructions. *)
PrintInv(trap, n) ==
  /\ Inv
  /\ Prints(trap, n)
  /\ phase = "execute" => running /\ instruction = Cell(At)
  /\ phase = "done" => ~running
  /\ running => \/ At = StartAddr /\ stdout = << >>
                \/ At = StartAddr + 1 /\ stdout = << >> /\ registers[R_R0] = StartAddr + 3
                \/ At = StartAddr + 2 /\ stdout = <<Printed(trap, n)>>
  /\ ~running => stdout = <<Printed(trap, n), <<HALTING>> >>

(* PUTS and PUTSP find the text, and nothing else. *)
LEMMA TextFound ==
  ASSUME NEW trap, NEW n, Prints(trap, n)
  PROVE  Texts(StartAddr + 3) = {GuestText(n)}
  <1>1. /\ n \in Nat /\ StartAddr \in Nat /\ StartAddr + 3 + n < UINT16_MAX
        /\ UINT16_MAX \in Nat
    <2>1. n \in Nat /\ StartAddr + 3 + n \in Index
      BY DEF Prints
    <2>2. StartAddr \in Nat /\ UINT16_MAX \in Nat
      BY DEF StartAddr, UINT16_MAX
    <2> QED
      BY <2>1, <2>2 DEF Index
  <1>2. (\A i \in 1 .. n : Cell(StartAddr + 2 + i) # 0) /\ Cell(StartAddr + 3 + n) = 0
    BY DEF Prints
  <1> DEFINE a == StartAddr + 3
             IsLength(k) == /\ a + k = UINT16_MAX \/ Cell(a + k) = 0
                            /\ \A j \in 0 .. k - 1 : Cell(a + j) # 0
  <1>3. a \in Nat /\ n \in 0 .. UINT16_MAX - a
    BY <1>1
  <1>4. IsLength(n)
    <2>1. ASSUME NEW j \in 0 .. n - 1 PROVE Cell(a + j) # 0
      <3>1. j + 1 \in 1 .. n /\ a + j = StartAddr + 2 + (j + 1)
        BY <1>1
      <3> QED
        BY <1>2, <3>1
    <2> QED
      BY <1>2, <2>1
  <1>5. ASSUME NEW k \in 0 .. UINT16_MAX - a, IsLength(k) PROVE k = n
    <2>1. ~ (n < k)
      <3>1. n < k => n \in 0 .. k - 1
        BY <1>1, <1>3
      <3> QED
        BY <1>2, <1>5, <3>1
    <2>2. ~ (k < n)
      <3>1. k < n => k \in 0 .. n - 1 /\ a + k # UINT16_MAX
        BY <1>1, <1>3
      <3> QED
        BY <1>4, <1>5, <3>1
    <2> QED
      BY <1>1, <1>3, <2>1, <2>2
  <1>6. TextLength(a) = n
    <2> HIDE DEF a
    <2> QED
      BY <1>3, <1>4, <1>5 DEF TextLength
  <1>7. [j \in 1 .. n |-> Cell(a + j - 1)] = GuestText(n)
    <2>1. \A j \in 1 .. n : a + j - 1 = StartAddr + 2 + j
      BY <1>1
    <2> QED
      BY <2>1 DEF GuestText
  <1>8. a + n < UINT16_MAX
    BY <1>1
  <1> HIDE DEF a
  <1>9. Texts(a) = {[j \in 1 .. n |-> Cell(a + j - 1)]}
    BY <1>6, <1>8 DEF Texts
  <1> QED
    BY <1>7, <1>9 DEF a

(* The first instruction of a printing guest. *)
LEMMA LeaFields ==
  ASSUME instruction = 57346
  PROVE  Opcode = OP_LEA /\ DR = R_R0 /\ PcOffset9 = 2
  <1>1. Opcode = OP_LEA /\ DR = R_R0
    BY DEF Opcode, DR, OP_LEA, R_R0
  <1>2. instruction % 512 = 2
    OBVIOUS
  <1>3. PcOffset9 = 2
    BY <1>2 DEF PcOffset9, SignExtend
  <1> QED
    BY <1>1, <1>3

LEMMA PrintTraps ==
  /\ TrapWord(TRAP_PUTS) = 61474 /\ TrapWord(TRAP_PUTSP) = 61476
  /\ TrapWord(TRAP_HALT) = 61477
  BY DEF TrapWord, OP_TRAP, TRAP_PUTS, TRAP_PUTSP, TRAP_HALT

LEMMA PrintTrapFields ==
  ASSUME instruction \in {61474, 61476, 61477}
  PROVE  /\ Opcode = OP_TRAP
         /\ instruction = 61474 => TrapVector = TRAP_PUTS
         /\ instruction = 61476 => TrapVector = TRAP_PUTSP
         /\ instruction = 61477 => TrapVector = TRAP_HALT
  BY DEF Opcode, TrapVector, OP_TRAP, TRAP_PUTS, TRAP_PUTSP, TRAP_HALT

(* What does not change while the printing guest runs. *)
LEMMA PrintsStill ==
  ASSUME memory' = memory, NEW trap, NEW n
  PROVE  /\ Prints(trap, n)' <=> Prints(trap, n)
         /\ Printed(trap, n)' = Printed(trap, n)
         /\ \A a : Cell(a)' = Cell(a)
  BY DEF Prints, Printed, GuestText, Cell

LEMMA AppendSecond == ASSUME NEW x, NEW y PROVE Append(<<x>>, y) = <<x, y>>
  <1> DEFINE s == Append(<<x>>, y)
             t == <<x, y>>
  <1>1. <<x>> \in Seq({x, y}) /\ y \in {x, y} /\ t \in Seq({x, y})
    OBVIOUS
  <1>2. s \in Seq({x, y}) /\ Len(s) = 2 /\ s[1] = x /\ s[2] = y
    BY <1>1, AppendProperties
  <1>3. Len(t) = 2 /\ t[1] = x /\ t[2] = y
    OBVIOUS
  <1> HIDE DEF s, t
  <1>4. \A i \in 1 .. Len(s) : s[i] = t[i]
    BY <1>2, <1>3
  <1> QED
    BY <1>1, <1>2, <1>3, <1>4, SeqEqual DEF s, t

LEMMA PrintFetch ==
  ASSUME NEW trap, NEW n, PrintInv(trap, n), Fetch
  PROVE  PrintInv(trap, n)' /\ memory' = memory
  <1>1. Inv /\ phase = "fetch" /\ running
    BY DEF PrintInv, Fetch
  <1>2. At = registers[R_PC] /\ At \in {StartAddr, StartAddr + 1, StartAddr + 2}
    BY <1>1 DEF PrintInv, At
  <1>3. At \in Int /\ 12288 <= At /\ At <= 12290
    BY <1>2 DEF StartAddr
  <1>4. MemoryRead(At, stdin) = {[val |-> Cell(At), in |-> stdin]}
    BY <1>3 DEF MemoryRead, MR_KBSR, MR_KBDR, MR_DSR, MR_DDR, UINT16_MAX
  <1>5. instruction' = Cell(At) /\ stdin' = stdin
    BY <1>2, <1>4 DEF Fetch
  <1>6. registers'[R_PC] = At + 1 /\ registers'[R_R0] = registers[R_R0]
    <2>1. Wrap(At + 1) = At + 1
      BY <1>3 DEF Wrap
    <2> QED
      BY <1>1, <1>2, <2>1 DEF Fetch, Assign, Inv, TypeOK, Registers, R_PC, R_R0
  <1>7. At' = At
    BY <1>3, <1>6 DEF Fetch, At
  <1>8. Inv'
    BY <1>1, InvStep DEF Next, Emulate
  <1>9. /\ Prints(trap, n)' /\ Printed(trap, n)' = Printed(trap, n)
        /\ \A a : Cell(a)' = Cell(a)
    BY PrintsStill DEF Fetch, PrintInv
  <1>10. Cell(At)' = Cell(At)
    BY <1>7 DEF Cell, Fetch
  <1> QED
    BY <1>1, <1>5, <1>6, <1>7, <1>8, <1>9, <1>10 DEF PrintInv, Fetch

(* A handler of a printing guest is the next of the three. *)
LEMMA PrintHandler ==
  ASSUME NEW trap, NEW n, PrintInv(trap, n), Handler
  PROVE  PrintInv(trap, n)' /\ memory' = memory
  <1>1. phase = "execute" /\ phase' = "fetch"
    BY DEF Handler, Add, And, Not, Ld, Ldi, Ldr, Lea, St, Sti, Str, Br, Jmp, Jsr,
           NoHandler, TrapGetc, TrapIn, TrapOut, TrapPuts, TrapPutsp, TrapHalt,
           TrapUnknown, Trap, Execute
  <1>2. Inv /\ Prints(trap, n) /\ running /\ instruction = Cell(At)
    BY <1>1 DEF PrintInv
  <1>3. Inv'
    BY <1>2, InvStep DEF Next, Emulate
  <1>4. /\ registers[R_PC] \in Int /\ At = registers[R_PC] - 1
        /\ registers \in [Registers -> Word]
    BY <1>1, <1>2, OperandTypes, InWord DEF At, Inv, TypeOK
  <1>5. \/ At = StartAddr /\ instruction = 57346
        \/ At = StartAddr + 1 /\ instruction = 61474 /\ trap = TRAP_PUTS
        \/ At = StartAddr + 1 /\ instruction = 61476 /\ trap = TRAP_PUTSP
        \/ At = StartAddr + 2 /\ instruction = 61477
    BY <1>2, PrintTraps DEF PrintInv, Prints
  <1>6. CASE At = StartAddr /\ instruction = 57346
    <2>1. Lea
      BY <1>6, LeaFields
      DEF Handler, Add, And, Not, Ld, Ldi, Ldr, St, Sti, Str, Br, Jmp, Jsr, NoHandler,
          TrapGetc, TrapIn, TrapOut, TrapPuts, TrapPutsp, TrapHalt, TrapUnknown, Trap,
          Execute, OP_ADD, OP_AND, OP_NOT, OP_LD, OP_LDI, OP_LDR, OP_LEA, OP_ST, OP_STI,
          OP_STR, OP_BR, OP_JMP, OP_JSR, OP_RTI, OP_RES, OP_TRAP
    <2>2. UNCHANGED <<memory, running, stdout>> /\ AssignAndFlag(R_R0, PcRelative)
      BY <1>6, <2>1, LeaFields DEF Lea
    <2>3. PcRelative = StartAddr + 3
      <3>1. registers[R_PC] = 12289 /\ PcOffset9 = 2
        BY <1>4, <1>6, LeaFields DEF StartAddr
      <3> QED
        BY <3>1 DEF PcRelative, Wrap, StartAddr
    <2>4. registers'[R_R0] = StartAddr + 3 /\ registers'[R_PC] = registers[R_PC]
      BY <1>4, <2>2, <2>3 DEF AssignAndFlag, Registers, R_R0, R_PC, R_COND
    <2>5. At' = StartAddr + 1
      BY <1>1, <1>4, <1>6, <2>4 DEF At
    <2>6. stdout = << >>
      BY <1>2, <1>6 DEF PrintInv, StartAddr
    <2>7. Prints(trap, n)'
      BY <1>2, <2>2, PrintsStill
    <2> QED
      BY <1>1, <1>2, <1>3, <2>2, <2>4, <2>5, <2>6, <2>7 DEF PrintInv
  <1>7. CASE At = StartAddr + 1
    <2>1. stdout = << >> /\ registers[R_R0] = StartAddr + 3
      BY <1>2, <1>7 DEF PrintInv, StartAddr
    <2>2. Texts(registers[R_R0]) = {GuestText(n)}
      BY <1>2, <2>1, TextFound
    <2>3. /\ instruction = 61474 /\ trap = TRAP_PUTS => TrapPuts
          /\ instruction = 61476 /\ trap = TRAP_PUTSP => TrapPutsp
      BY <1>7, PrintTrapFields
      DEF Handler, Add, And, Not, Ld, Ldi, Ldr, Lea, St, Sti, Str, Br, Jmp, Jsr,
          NoHandler, TrapGetc, TrapIn, TrapOut, TrapPuts, TrapPutsp, TrapHalt,
          TrapUnknown, Trap, Execute, OP_ADD, OP_AND, OP_NOT, OP_LD, OP_LDI, OP_LDR,
          OP_LEA, OP_ST, OP_STI, OP_STR, OP_BR, OP_JMP, OP_JSR, OP_RTI, OP_RES, OP_TRAP,
          TRAP_GETC, TRAP_OUT, TRAP_PUTS, TRAP_IN, TRAP_PUTSP, TRAP_HALT
    <2>4. TRAP_PUTS # TRAP_PUTSP /\ StartAddr \in Int
      BY DEF TRAP_PUTS, TRAP_PUTSP, StartAddr
    <2>5. TrapPuts \/ TrapPutsp
      BY <1>5, <1>7, <2>3, <2>4
    <2>6. /\ UNCHANGED <<memory, registers, running>>
          /\ stdout' = Append(stdout, Printed(trap, n))
      <3>1. CASE instruction = 61474 /\ trap = TRAP_PUTS
        BY <2>2, <2>3, <3>1 DEF TrapPuts, Flush, Printed
      <3>2. CASE instruction = 61476 /\ trap = TRAP_PUTSP
        BY <2>2, <2>3, <2>4, <3>2 DEF TrapPutsp, Flush, Printed
      <3> QED
        BY <1>5, <1>7, <2>4, <3>1, <3>2
    <2>7. stdout' = <<Printed(trap, n)>>
      BY <2>1, <2>6
    <2>8. At' = StartAddr + 2
      BY <1>1, <1>4, <1>7, <2>4, <2>6 DEF At
    <2>9. Prints(trap, n)' /\ Printed(trap, n)' = Printed(trap, n)
      BY <1>2, <2>6, PrintsStill
    <2> QED
      BY <1>1, <1>2, <1>3, <2>6, <2>7, <2>8, <2>9 DEF PrintInv
  <1>8. CASE At = StartAddr + 2 /\ instruction = 61477
    <2>1. TrapHalt
      BY <1>8, PrintTrapFields
      DEF Handler, Add, And, Not, Ld, Ldi, Ldr, Lea, St, Sti, Str, Br, Jmp, Jsr,
          NoHandler, TrapGetc, TrapIn, TrapOut, TrapPuts, TrapPutsp, TrapUnknown, Trap,
          Execute, OP_ADD, OP_AND, OP_NOT, OP_LD, OP_LDI, OP_LDR, OP_LEA, OP_ST, OP_STI,
          OP_STR, OP_BR, OP_JMP, OP_JSR, OP_RTI, OP_RES, OP_TRAP, TRAP_GETC, TRAP_OUT,
          TRAP_PUTS, TRAP_IN, TRAP_PUTSP, TRAP_HALT
    <2>2. stdout = <<Printed(trap, n)>>
      BY <1>2, <1>8 DEF PrintInv, StartAddr
    <2>3. /\ memory' = memory /\ ~running'
          /\ stdout' = <<Printed(trap, n), <<HALTING>> >>
      <3>1. memory' = memory /\ ~running' /\ stdout' = Append(stdout, <<HALTING>>)
        BY <2>1 DEF TrapHalt, Flush
      <3> QED
        BY <2>2, <3>1, AppendSecond
    <2>4. Prints(trap, n)' /\ Printed(trap, n)' = Printed(trap, n)
      BY <1>2, <2>3, PrintsStill
    <2> QED
      BY <1>1, <1>3, <2>3, <2>4 DEF PrintInv
  <1> QED
    BY <1>5, <1>6, <1>7, <1>8

LEMMA PrintStep ==
  ASSUME NEW trap, NEW n, PrintInv(trap, n), [Next]_vars
  PROVE  PrintInv(trap, n)' /\ memory' = memory
  <1>1. Inv'
    BY InvStep DEF PrintInv
  <1>2. CASE LeaveLoop \/ User \/ UNCHANGED vars
    <2>1. /\ UNCHANGED <<memory, registers, running, instruction, stdout>>
          /\ phase' = phase \/ (phase = "fetch" /\ phase' = "done" /\ ~running)
      BY <1>2 DEF LeaveLoop, User, Type, Hangup, vars
    <2>2. At' = At /\ Cell(At)' = Cell(At)
      BY <2>1 DEF At, Cell
    <2>3. Prints(trap, n)' /\ Printed(trap, n)' = Printed(trap, n)
      BY <2>1, PrintsStill DEF PrintInv
    <2> QED
      BY <1>1, <2>1, <2>2, <2>3 DEF PrintInv
  <1> QED
    BY <1>2, PrintFetch, PrintHandler DEF Next, Emulate

-------------------------------------------------------------------------------
(* The twin: what it reads. *)

LEMMA SameGetchar == \A s : Twin!Getchar(s) = Getchar(s)
  BY DEF Getchar, Twin!Getchar, NothingToRead, Twin!NothingToRead, Give, Twin!Give,
         Refill, Twin!Refill, ReadCount, Twin!ReadCount, EOF, Twin!EOF

LEMMA SameMemory ==
  /\ \A a : Twin!Cell(a) = Cell(a)
  /\ \A a, s : Twin!MemoryRead(a, s) = MemoryRead(a, s)
  /\ \A a, v : Twin!MemoryWrite(a, v) <=> MemoryWrite(a, v)
  <1>1. \A a : Twin!Cell(a) = Cell(a)
    BY DEF Cell, Twin!Cell
  <1>2. \A a, s : Twin!MemoryRead(a, s) = MemoryRead(a, s)
    BY SameGetchar
    DEF MemoryRead, Twin!MemoryRead, Cell, Twin!Cell, Readable, Twin!Readable,
        STATUS_BIT, Twin!STATUS_BIT, Behind, Twin!Behind,
        MR_KBSR, Twin!MR_KBSR, MR_KBDR, Twin!MR_KBDR, MR_DSR, Twin!MR_DSR, MR_DDR,
        Twin!MR_DDR, UINT16_MAX, Twin!UINT16_MAX
  <1>3. \A a, v : Twin!MemoryWrite(a, v) <=> MemoryWrite(a, v)
    BY DEF MemoryWrite, Twin!MemoryWrite
  <1> QED
    BY <1>1, <1>2, <1>3

LEMMA SameTexts == ASSUME NEW a PROVE Twin!Texts(a) = Texts(a)
  <1>1. Twin!TextLength(a) = TextLength(a)
    BY SMT DEF TextLength, Twin!TextLength, Cell, Twin!Cell, UINT16_MAX, Twin!UINT16_MAX
  <1> QED
    BY <1>1 DEF Texts, Twin!Texts, Behind, Twin!Behind, Cell, Twin!Cell, UINT16_MAX, Twin!UINT16_MAX

LEMMA SamePrinting ==
  /\ \A text : Twin!LowBytes(text) = LowBytes(text)
  /\ \A text : Twin!PackedBytes(text) = PackedBytes(text)
  /\ \A text : Twin!Flush(text) <=> Flush(text)
  <1>1. \A s : Twin!FlattenSeq(s) = FlattenSeq(s)
    BY DEF FlattenSeq, Twin!FlattenSeq
  <1> QED
    BY <1>1
    DEF LowBytes, Twin!LowBytes, PackedBytes, Twin!PackedBytes, Flush, Twin!Flush

LEMMA SameExecute ==
  /\ \A op : Twin!Execute(op) <=> Execute(op)
  /\ \A v : Twin!Trap(v) <=> Trap(v)
  <1>1. \A op : Twin!Execute(op) <=> Execute(op)
    BY DEF Execute, Twin!Execute, Opcode, Twin!Opcode
  <1> QED
    BY <1>1 DEF Trap, Twin!Trap, TrapVector, Twin!TrapVector, OP_TRAP, Twin!OP_TRAP

-------------------------------------------------------------------------------
(* The twin's registers, of which only the condition register is its own. *)

LEMMA TwinValue ==
  ASSUME TypeOK
  PROVE  /\ TwinRegisters \in [Registers -> {cond} \cup Word]
         /\ \A r \in Registers \ {R_COND} : TwinRegisters[r] = registers[r]
         /\ TwinRegisters[R_COND] = cond
  BY OperandTypes DEF TypeOK, TwinRegisters

LEMMA SameOperands ==
  ASSUME TypeOK
  PROVE  /\ Twin!DR = DR /\ Twin!SR1 = SR1
         /\ TwinRegisters[DR] = registers[DR] /\ TwinRegisters[SR1] = registers[SR1]
         /\ TwinRegisters[R_PC] = registers[R_PC] /\ TwinRegisters[R_R0] = registers[R_R0]
         /\ Twin!Operand2 = Operand2
         /\ Twin!PcRelative = PcRelative
         /\ Twin!BaseRelative = BaseRelative
  <1>1. /\ DR \in Registers \ {R_COND} /\ SR1 \in Registers \ {R_COND}
        /\ SR2 \in Registers \ {R_COND} /\ R_PC \in Registers \ {R_COND}
        /\ R_R0 \in Registers \ {R_COND}
    BY FieldTypes, OperandTypes DEF TypeOK, R_R0, Registers, R_COND
  <1>2. /\ TwinRegisters[DR] = registers[DR] /\ TwinRegisters[SR1] = registers[SR1]
        /\ TwinRegisters[SR2] = registers[SR2] /\ TwinRegisters[R_PC] = registers[R_PC]
        /\ TwinRegisters[R_R0] = registers[R_R0]
    BY <1>1, TwinValue
  <1>3. Twin!DR = DR /\ Twin!SR1 = SR1 /\ Twin!SR2 = SR2 /\ Twin!R_PC = R_PC
    BY DEF DR, Twin!DR, SR1, Twin!SR1, SR2, Twin!SR2, R_PC, Twin!R_PC
  <1>4. Twin!Operand2 = Operand2
    BY <1>2, <1>3
    DEF Operand2, Twin!Operand2, ImmFlag, Twin!ImmFlag, Imm5, Twin!Imm5, SignExtend,
        Twin!SignExtend
  <1>5. Twin!PcRelative = PcRelative
    BY <1>2, <1>3
    DEF PcRelative, Twin!PcRelative, PcOffset9, Twin!PcOffset9, SignExtend,
        Twin!SignExtend, Wrap, Twin!Wrap
  <1>6. Twin!BaseRelative = BaseRelative
    BY <1>2, <1>3
    DEF BaseRelative, Twin!BaseRelative, Offset6, Twin!Offset6, SignExtend,
        Twin!SignExtend, Wrap, Twin!Wrap
  <1> QED
    BY <1>2, <1>3, <1>4, <1>5, <1>6

(* The twin's registers after a step, from the machine's. *)
LEMMA TwinKeeps ==
  ASSUME TypeOK, registers' = registers, cond' = cond
  PROVE  TwinRegisters' = TwinRegisters
  BY DEF TwinRegisters

LEMMA TwinAssign ==
  ASSUME TypeOK, NEW r \in Registers \ {R_COND}, NEW v, Assign(r, v), cond' = cond
  PROVE  Twin!Assign(r, v)
  <1> DEFINE after == [TwinRegisters EXCEPT ![r] = v]
  <1>1. registers' = [registers EXCEPT ![r] = v]
    BY DEF Assign
  <1>2. DOMAIN registers = Registers /\ R_COND \in Registers
    BY OperandTypes DEF TypeOK
  <1>3. TwinRegisters' = [registers' EXCEPT ![R_COND] = cond]
    BY DEF TwinRegisters
  <1>4. TwinRegisters' = [q \in Registers |-> IF q = R_COND THEN cond
                                             ELSE IF q = r THEN v ELSE registers[q]]
    BY <1>1, <1>2, <1>3
  <1>5. after = [q \in Registers |-> IF q = R_COND THEN cond
                                    ELSE IF q = r THEN v ELSE registers[q]]
    BY <1>2 DEF TwinRegisters
  <1> QED
    BY <1>4, <1>5 DEF Twin!Assign

LEMMA TwinAssignAndFlag ==
  ASSUME TypeOK, NEW r \in Registers \ {R_COND}, NEW v, AssignAndFlag(r, v),
         cond' = registers'[R_COND]
  PROVE  Twin!AssignAndFlag(r, v)
  <1>1. registers' = [registers EXCEPT ![r] = v, ![R_COND] = FlagOf(v)]
    BY DEF AssignAndFlag
  <1>2. DOMAIN registers = Registers /\ R_COND \in Registers
    BY OperandTypes DEF TypeOK
  <1>3. cond' = FlagOf(v)
    BY <1>1, <1>2
  <1>4. TwinRegisters' = [q \in Registers |-> IF q = R_COND THEN FlagOf(v)
                                             ELSE IF q = r THEN v ELSE registers[q]]
    BY <1>1, <1>2, <1>3 DEF TwinRegisters
  <1>5. [TwinRegisters EXCEPT ![r] = v, ![R_COND] = FlagOf(v)]
          = [q \in Registers |-> IF q = R_COND THEN FlagOf(v)
                                 ELSE IF q = r THEN v ELSE registers[q]]
    BY <1>2 DEF TwinRegisters
  <1>6. Twin!FlagOf(v) = FlagOf(v) /\ Twin!R_COND = R_COND
    BY DEF FlagOf, Twin!FlagOf, FL_ZR, Twin!FL_ZR, FL_NEG, Twin!FL_NEG, FL_POS,
           Twin!FL_POS, R_COND, Twin!R_COND
  <1> QED
    BY <1>4, <1>5, <1>6 DEF Twin!AssignAndFlag

-------------------------------------------------------------------------------
(* The steps. *)

(* Which steps move the twin's flag. *)
LEMMA FlaggedHandler ==
  ASSUME NEW op \in {OP_ADD, OP_NOT, OP_LD, OP_LDR, OP_LEA}, Execute(op), NextCond
  PROVE  cond' = registers'[R_COND]
  BY DEF Execute, NextCond, SetsFlags

LEMMA UnflaggedHandler ==
  ASSUME NEW op, op \notin {OP_ADD, OP_NOT, OP_LD, OP_LDR, OP_LEA}, Execute(op), NextCond
  PROVE  cond' = cond
  BY DEF Execute, NextCond, SetsFlags

LEMMA UnflaggedOpcodes ==
  {OP_AND, OP_LDI, OP_ST, OP_STI, OP_STR, OP_BR, OP_JMP, OP_JSR, OP_RTI, OP_RES, OP_TRAP}
    \cap {OP_ADD, OP_NOT, OP_LD, OP_LDR, OP_LEA} = {}
  BY DEF OP_AND, OP_LDI, OP_ST, OP_STI, OP_STR, OP_BR, OP_JMP, OP_JSR, OP_RTI, OP_RES,
         OP_TRAP, OP_ADD, OP_NOT, OP_LD, OP_LDR, OP_LEA

(* The steps that do not run a handler. *)
LEMMA TwinLoop == ASSUME TypeOK, Fetch \/ LeaveLoop, NextCond PROVE Twin!Emulate
  <1>1. cond' = cond
    BY DEF Fetch, LeaveLoop, NextCond, SetsFlags
  <1>2. R_PC \in Registers \ {R_COND} /\ TwinRegisters[R_PC] = registers[R_PC]
    BY OperandTypes, SameOperands
  <1>3. CASE Fetch
    <2>1. Twin!Assign(R_PC, Wrap(registers[R_PC] + 1))
      BY <1>1, <1>2, <1>3, TwinAssign DEF Fetch
    <2>2. Twin!Fetch
      BY <1>2, <1>3, <2>1, SameMemory DEF Fetch, Twin!Fetch, Wrap, Twin!Wrap, R_PC, Twin!R_PC
    <2> QED
      BY <2>2 DEF Twin!Emulate
  <1>4. CASE LeaveLoop
    <2>1. Twin!LeaveLoop
      BY <1>1, <1>4, TwinKeeps DEF LeaveLoop, Twin!LeaveLoop
    <2> QED
      BY <2>1 DEF Twin!Emulate
  <1> QED
    BY <1>3, <1>4

LEMMA TwinUser == ASSUME TypeOK, User, NextCond PROVE Twin!User
  <1>1. cond' = cond /\ registers' = registers
    BY DEF User, Type, Hangup, NextCond, SetsFlags
  <1>2. TwinRegisters' = TwinRegisters
    BY <1>1, TwinKeeps
  <1> QED
    BY <1>2 DEF User, Twin!User, Type, Twin!Type, Hangup, Twin!Hangup, Typed, Twin!Typed, Hungup,
        Twin!Hungup, Pending, Twin!Pending

LEMMA TwinHandler == ASSUME TypeOK, Handler, NextCond PROVE Twin!Handler
  <1>1. /\ DR \in Registers \ {R_COND} /\ SR1 \in Registers \ {R_COND}
        /\ R_PC \in Registers \ {R_COND} /\ R_R0 \in Registers \ {R_COND}
        /\ R_R7 \in Registers \ {R_COND}
        /\ (instruction \div 64) \div 128 \in Registers \ {R_COND}
    BY FieldTypes, OperandTypes DEF TypeOK, R_R0, R_R7, Registers, R_COND
  <1>2. CASE Add
    <2>1. cond' = registers'[R_COND]
      BY <1>2, FlaggedHandler DEF Add
    <2>2. Twin!AssignAndFlag(DR, Wrap(registers[SR1] + Operand2))
      BY <1>1, <1>2, <2>1, TwinAssignAndFlag DEF Add
    <2>3. Twin!Add
      BY <1>2, <2>2, SameOperands, SameExecute
      DEF Add, Twin!Add, OP_ADD, Twin!OP_ADD, Wrap, Twin!Wrap
    <2> QED
      BY <2>3 DEF Twin!Handler
  <1>3. CASE Not
    <2>1. cond' = registers'[R_COND]
      BY <1>3, FlaggedHandler DEF Not
    <2>2. Twin!AssignAndFlag(DR, BitNot(registers[SR1]))
      BY <1>1, <1>3, <2>1, TwinAssignAndFlag DEF Not
    <2>3. Twin!Not
      BY <1>3, <2>2, SameOperands, SameExecute
      DEF Not, Twin!Not, OP_NOT, Twin!OP_NOT, BitNot, Twin!BitNot
    <2> QED
      BY <2>3 DEF Twin!Handler
  <1>4. CASE Lea
    <2>1. cond' = registers'[R_COND]
      BY <1>4, FlaggedHandler DEF Lea
    <2>2. Twin!AssignAndFlag(DR, PcRelative)
      BY <1>1, <1>4, <2>1, TwinAssignAndFlag DEF Lea
    <2>3. Twin!Lea
      BY <1>4, <2>2, SameOperands, SameExecute
      DEF Lea, Twin!Lea, OP_LEA, Twin!OP_LEA
    <2> QED
      BY <2>3 DEF Twin!Handler
  <1>5. CASE Ld
    <2>1. cond' = registers'[R_COND]
      BY <1>5, FlaggedHandler DEF Ld
    <2>2. PICK r \in MemoryRead(PcRelative, stdin) : AssignAndFlag(DR, r.val) /\ stdin' = r.in
      BY <1>5 DEF Ld
    <2>3. Twin!AssignAndFlag(DR, r.val)
      BY <1>1, <2>1, <2>2, TwinAssignAndFlag
    <2>4. Twin!Ld
      BY <1>5, <2>2, <2>3, SameOperands, SameMemory, SameExecute
      DEF Ld, Twin!Ld, OP_LD, Twin!OP_LD
    <2> QED
      BY <2>4 DEF Twin!Handler
  <1>6. CASE Ldr
    <2>1. cond' = registers'[R_COND]
      BY <1>6, FlaggedHandler DEF Ldr
    <2>2. PICK r \in MemoryRead(BaseRelative, stdin) : AssignAndFlag(DR, r.val) /\ stdin' = r.in
      BY <1>6 DEF Ldr
    <2>3. Twin!AssignAndFlag(DR, r.val)
      BY <1>1, <2>1, <2>2, TwinAssignAndFlag
    <2>4. Twin!Ldr
      BY <1>6, <2>2, <2>3, SameOperands, SameMemory, SameExecute
      DEF Ldr, Twin!Ldr, OP_LDR, Twin!OP_LDR
    <2> QED
      BY <2>4 DEF Twin!Handler
  <1>7. CASE And
    <2>1. cond' = cond
      BY <1>7, UnflaggedHandler, UnflaggedOpcodes DEF And
    <2>2. Twin!Assign(DR, BitAnd(registers[SR1], Operand2))
      BY <1>1, <1>7, <2>1, TwinAssign DEF And
    <2>3. Twin!And
      BY <1>7, <2>2, SameOperands, SameExecute
      DEF And, Twin!And, OP_AND, Twin!OP_AND, BitAnd, Twin!BitAnd, And8, Twin!And8, And4,
        Twin!And4, And2, Twin!And2
    <2> QED
      BY <2>3 DEF Twin!Handler
  <1>8. CASE Ldi
    <2>1. cond' = cond
      BY <1>8, UnflaggedHandler, UnflaggedOpcodes DEF Ldi
    <2>2. PICK p \in MemoryRead(PcRelative, stdin) :
            \E r \in MemoryRead(p.val, p.in) : Assign(DR, r.val) /\ stdin' = r.in
      BY <1>8 DEF Ldi
    <2>3. PICK r \in MemoryRead(p.val, p.in) : Assign(DR, r.val) /\ stdin' = r.in
      BY <2>2
    <2>4. Twin!Assign(DR, r.val)
      BY <1>1, <2>1, <2>3, TwinAssign
    <2>5. Twin!Ldi
      BY <1>8, <2>2, <2>3, <2>4, SameOperands, SameMemory, SameExecute
      DEF Ldi, Twin!Ldi, OP_LDI, Twin!OP_LDI
    <2> QED
      BY <2>5 DEF Twin!Handler
  <1>9. CASE St
    <2>1. cond' = cond
      BY <1>9, UnflaggedHandler, UnflaggedOpcodes DEF St
    <2>2. TwinRegisters' = TwinRegisters
      BY <1>9, <2>1, TwinKeeps DEF St
    <2>3. Twin!St
      BY <1>9, <2>2, SameOperands, SameMemory, SameExecute
      DEF St, Twin!St, OP_ST, Twin!OP_ST
    <2> QED
      BY <2>3 DEF Twin!Handler
  <1>10. CASE Str
    <2>1. cond' = cond
      BY <1>10, UnflaggedHandler, UnflaggedOpcodes DEF Str
    <2>2. TwinRegisters' = TwinRegisters
      BY <1>10, <2>1, TwinKeeps DEF Str
    <2>3. Twin!Str
      BY <1>10, <2>2, SameOperands, SameMemory, SameExecute
      DEF Str, Twin!Str, OP_STR, Twin!OP_STR
    <2> QED
      BY <2>3 DEF Twin!Handler
  <1>11. CASE Sti
    <2>1. cond' = cond
      BY <1>11, UnflaggedHandler, UnflaggedOpcodes DEF Sti
    <2>2. TwinRegisters' = TwinRegisters
      BY <1>11, <2>1, TwinKeeps DEF Sti
    <2>3. Twin!Sti
      BY <1>11, <2>2, SameOperands, SameMemory, SameExecute
      DEF Sti, Twin!Sti, OP_STI, Twin!OP_STI
    <2> QED
      BY <2>3 DEF Twin!Handler
  <1>12. CASE Br
    <2>1. cond' = cond
      BY <1>12, UnflaggedHandler, UnflaggedOpcodes DEF Br
    <2>2. CASE DR # 0
      <3>1. Twin!Assign(R_PC, PcRelative)
        BY <1>1, <1>12, <2>1, <2>2, TwinAssign DEF Br
      <3>2. Twin!Br
        BY <1>12, <2>2, <3>1, SameOperands, SameExecute
        DEF Br, Twin!Br, OP_BR, Twin!OP_BR, R_PC, Twin!R_PC
      <3> QED
        BY <3>2 DEF Twin!Handler
    <2>3. CASE DR = 0
      <3>1. TwinRegisters' = TwinRegisters
        BY <1>12, <2>1, <2>3, TwinKeeps DEF Br
      <3>2. Twin!Br
        BY <1>12, <2>3, <3>1, SameOperands, SameExecute
        DEF Br, Twin!Br, OP_BR, Twin!OP_BR
      <3> QED
        BY <3>2 DEF Twin!Handler
    <2> QED
      BY <2>2, <2>3
  <1>13. CASE Jmp
    <2>1. cond' = cond
      BY <1>13, UnflaggedHandler, UnflaggedOpcodes DEF Jmp
    <2> DEFINE base == (instruction \div 64) \div 128
    <2>2. Twin!Assign(R_PC, registers[base])
      BY <1>1, <1>13, <2>1, TwinAssign DEF Jmp
    <2>3. TwinRegisters[base] = registers[base]
      BY <1>1, TwinValue
    <2>4. Twin!Jmp
      BY <1>13, <2>2, <2>3, SameExecute
      DEF Jmp, Twin!Jmp, OP_JMP, Twin!OP_JMP, R_PC, Twin!R_PC
    <2> QED
      BY <2>4 DEF Twin!Handler
  <1>14. CASE Jsr
    <2>1. cond' = cond
      BY <1>14, UnflaggedHandler, UnflaggedOpcodes DEF Jsr
    <2>2. DOMAIN registers = Registers /\ R_COND \in Registers
      BY OperandTypes DEF TypeOK
    <2>3. /\ Twin!Linked = [TwinRegisters EXCEPT ![R_R7] = registers[R_PC]]
          /\ Linked = [registers EXCEPT ![R_R7] = registers[R_PC]]
      BY SameOperands DEF Linked, Twin!Linked, R_R7, Twin!R_R7, R_PC, Twin!R_PC
    <2>4. \A q \in Registers \ {R_COND} : Twin!Linked[q] = Linked[q]
      BY <1>1, <2>2, <2>3 DEF TwinRegisters
    <2>5. Twin!JsrTarget = JsrTarget
      BY <1>1, <2>4, SameOperands
      DEF JsrTarget, Twin!JsrTarget, PcOffset11, Twin!PcOffset11, SignExtend,
          Twin!SignExtend, Wrap, Twin!Wrap, R_PC, Twin!R_PC
    <2>6. registers' = [Linked EXCEPT ![R_PC] = JsrTarget]
      BY <1>14 DEF Jsr
    <2>7. PICK target : target = JsrTarget
      OBVIOUS
    <2>8. TwinRegisters' = [Twin!Linked EXCEPT ![R_PC] = target]
      <3>1. TwinRegisters' = [q \in Registers |->
                                IF q = R_COND THEN cond
                                ELSE IF q = R_PC THEN target ELSE Linked[q]]
        <4>1. DOMAIN Linked = Registers
          BY <2>2, <2>3
        <4>2. registers' = [Linked EXCEPT ![R_PC] = target]
          BY <2>6, <2>7
        <4>3. TwinRegisters' = [registers' EXCEPT ![R_COND] = cond]
          BY <2>1 DEF TwinRegisters
        <4> QED
          BY <2>2, <4>1, <4>2, <4>3
      <3>2. [Twin!Linked EXCEPT ![R_PC] = target]
              = [q \in Registers |->
                   IF q = R_COND THEN cond
                   ELSE IF q = R_PC THEN target ELSE Linked[q]]
        <4>1. DOMAIN Twin!Linked = Registers /\ Twin!Linked[R_COND] = cond
          BY <1>1, <2>2, <2>3 DEF TwinRegisters
        <4> QED
          BY <1>1, <2>4, <4>1
      <3> QED
        BY <3>1, <3>2
    <2>9. Twin!Jsr
      BY <1>14, <2>5, <2>7, <2>8, SameExecute
      DEF Jsr, Twin!Jsr, OP_JSR, Twin!OP_JSR, R_PC, Twin!R_PC
    <2> QED
      BY <2>9 DEF Twin!Handler
  <1>15. CASE NoHandler
    <2>1. cond' = cond
      BY <1>15, UnflaggedHandler, UnflaggedOpcodes DEF NoHandler
    <2>2. TwinRegisters' = TwinRegisters
      BY <1>15, <2>1, TwinKeeps DEF NoHandler
    <2>3. Twin!NoHandler
      BY <1>15, <2>2, SameExecute
      DEF NoHandler, Twin!NoHandler, OP_RTI, Twin!OP_RTI, OP_RES, Twin!OP_RES
    <2> QED
      BY <2>3 DEF Twin!Handler
  <1>16. CASE TrapGetc
    <2>1. cond' = cond
      BY <1>16, UnflaggedHandler, UnflaggedOpcodes DEF TrapGetc, Trap
    <2>2. PICK g \in Getchar(stdin) : Assign(R_R0, g.val) /\ stdin' = g.in
      BY <1>16 DEF TrapGetc
    <2>3. Twin!Assign(R_R0, g.val)
      BY <1>1, <2>1, <2>2, TwinAssign
    <2>4. Twin!TrapGetc
      BY <1>16, <2>2, <2>3, SameGetchar, SameExecute
      DEF TrapGetc, Twin!TrapGetc, TRAP_GETC, Twin!TRAP_GETC, R_R0, Twin!R_R0
    <2> QED
      BY <2>4 DEF Twin!Handler
  <1>17. CASE \/ TrapIn \/ TrapOut \/ TrapPuts \/ TrapPutsp \/ TrapHalt \/ TrapUnknown
    <2>1. cond' = cond
      BY <1>17, UnflaggedHandler, UnflaggedOpcodes
      DEF TrapIn, TrapOut, TrapPuts, TrapPutsp, TrapHalt, TrapUnknown, Trap
    <2>2. TwinRegisters' = TwinRegisters
      BY <1>17, <2>1, TwinKeeps DEF TrapIn, TrapOut, TrapPuts, TrapPutsp, TrapHalt, TrapUnknown
    <2>3. TrapIn => Twin!TrapIn
      BY <2>2, SameGetchar, SamePrinting, SameExecute
      DEF TrapIn, Twin!TrapIn, TRAP_IN, Twin!TRAP_IN, PROMPT, Twin!PROMPT
    <2>4. TrapOut => Twin!TrapOut
      BY <2>2, SameOperands, SamePrinting, SameExecute
      DEF TrapOut, Twin!TrapOut, TRAP_OUT, Twin!TRAP_OUT, R_R0, Twin!R_R0
    <2>5. TrapPuts => Twin!TrapPuts
      BY <2>2, SameOperands, SameTexts, SamePrinting, SameExecute
      DEF TrapPuts, Twin!TrapPuts, TRAP_PUTS, Twin!TRAP_PUTS, R_R0, Twin!R_R0
    <2>6. TrapPutsp => Twin!TrapPutsp
      BY <2>2, SameOperands, SameTexts, SamePrinting, SameExecute
      DEF TrapPutsp, Twin!TrapPutsp, TRAP_PUTSP, Twin!TRAP_PUTSP, R_R0, Twin!R_R0
    <2>7. TrapHalt => Twin!TrapHalt
      BY <2>2, SamePrinting, SameExecute
      DEF TrapHalt, Twin!TrapHalt, TRAP_HALT, Twin!TRAP_HALT, HALTING, Twin!HALTING
    <2>8. TrapUnknown => Twin!TrapUnknown
      BY <2>2, SameExecute
      DEF TrapUnknown, Twin!TrapUnknown, OP_TRAP, Twin!OP_TRAP, TrapVector,
        Twin!TrapVector, TRAP_GETC, Twin!TRAP_GETC, TRAP_HALT, Twin!TRAP_HALT
    <2> QED
      BY <1>17, <2>3, <2>4, <2>5, <2>6, <2>7, <2>8 DEF Twin!Handler
  <1> QED
    BY <1>2, <1>3, <1>4, <1>5, <1>6, <1>7, <1>8, <1>9, <1>10, <1>11, <1>12, <1>13, <1>14,
       <1>15, <1>16, <1>17
    DEF Handler

(* Whatever is executed, read and typed, the flag in R_COND changes nothing  *)
(* but itself (see CondIsNeverRead).                                         *)
THEOREM CondDoesNotMatter == TwinSpec => CondIsNeverRead
  <1>1. TwinSpec => Spec
    <2>1. TwinInit => Init
      BY DEF TwinInit
    <2>2. [TwinNext]_twinVars => [Next]_vars
      BY DEF TwinNext, twinVars
    <2> QED
      BY <2>1, <2>2, PTL DEF TwinSpec, Spec
  <1>2. Inv /\ [TwinNext]_twinVars => [Twin!Next]_twinVars
    <2> SUFFICES ASSUME TypeOK, TwinNext PROVE Twin!Next
      BY DEF Inv
    <2> QED
      BY TwinLoop, TwinUser, TwinHandler
      DEF TwinNext, Next, Emulate, Twin!Next, Twin!Emulate
  <1> QED
    BY <1>1, <1>2, Invariance, PTL DEF TwinSpec, CondIsNeverRead
==============================================================================
