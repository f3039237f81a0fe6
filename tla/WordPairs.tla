------------------------------- MODULE WordPairs ------------------------------
(***************************************************************************)
(* The arithmetic of Words against what the operators of the C source do   *)
(* to each bit, on a sweep over pairs of words.                            *)
(***************************************************************************)
EXTENDS Words

CONSTANTS XStride, YStride    \* the sweep visits every XStride-th x, ...

VARIABLES x, y

Init == x = 0 /\ y = 0

NextX == x + XStride \in Word /\ x' = x + XStride /\ y' = y
NextY == y + YStride \in Word /\ y' = y + YStride /\ x' = x

Next == NextX \/ NextY

Spec == Init /\ [][Next]_<<x, y>>

-------------------------------------------------------------------------------
(* Properties. *)

(* Each bit of src1 & src2 in and() is set when it is in both, and           *)
(* toLittleEndian16(), (x << 8) | (x >> 8), moves each bit to the other byte. *)
BitwiseByBits ==
  /\ BitAnd(x, y) \in Word /\ SwapBytes(x) \in Word
  /\ \A p \in WordBits : Bit(BitAnd(x, y), p) = Bit(x, p) * Bit(y, p)
  /\ \A p \in ByteBits : /\ Bit(SwapBytes(x), 256 * p) = Bit(x, p)
                         /\ Bit(SwapBytes(x), p) = Bit(x, 256 * p)

(* signExtend() copies the sign bit of a field to every bit above it, for    *)
(* each of the four field widths.  zeroExtend() or-s the bits above the      *)
(* field into it: it extends a field with zeros while the field has at most  *)
(* 8 bits, and above that only one whose upper bits are in it already.       *)
ExtendByMask ==
  /\ \A half \in {16, 32, 256, 1024} :
       LET word == SignExtend(x % (2 * half), half) IN
         /\ word \in Word
         /\ \A p \in WordBits : Bit(word, p) = Bit(x, IF p < half THEN p ELSE half)
  /\ \A part \in {2048, 1024, 256, 128, 32} :
       LET field == x % (65536 \div part)
           upper == field \div part
           word == ZeroExtend(field, part)
       IN
         /\ word \in Word
         /\ \A p \in WordBits : Bit(word, p) = 0 <=> Bit(field, p) = 0 /\ Bit(upper, p) = 0
         /\ word = field <=> \/ part >= 256
                            \/ \A p \in WordBits : Bit(upper, p) <= Bit(field, p)

(* Wrapping, sign and complement agree with each other: x - y is x + ~y + 1, *)
(* and the guest's subtraction of small numbers is right.                    *)
SubtractByComplement ==
  LET d == Wrap(x + Wrap(BitNot(y) + 1))
      difference == Signed(x) - Signed(y)
  IN /\ Wrap(d + y) = x
     /\ 0 - 32768 <= difference /\ difference <= 32767 => Signed(d) = difference
==============================================================================
