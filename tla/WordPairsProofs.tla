--------------------------- MODULE WordPairsProofs ---------------------------
(***************************************************************************)
(* The properties of the arithmetic, for all pairs of words: whatever the  *)
(* strides of the sweep, those of 1 included, which visit every pair.      *)
(***************************************************************************)
EXTENDS WordPairs, WordsProofs

Pairs == x \in Word /\ y \in Word

(* and() is the conjunction bit by bit, and toLittleEndian16() moves every    *)
(* bit to its place in the other byte.                                        *)
LEMMA Bitwise == Pairs => BitwiseByBits
  <1> SUFFICES ASSUME Pairs PROVE BitwiseByBits
    OBVIOUS
  <1>1. BitAnd(x, y) \in Word /\ SwapBytes(x) \in Word
    BY BitAndBound, SwapBytesInvolution DEF Pairs
  <1>2. \A p \in WordBits : Bit(BitAnd(x, y), p) = Bit(x, p) * Bit(y, p)
    BY BitAndBit DEF Pairs
  <1>3. \A p \in ByteBits : /\ Bit(SwapBytes(x), 256 * p) = Bit(x, p)
                            /\ Bit(SwapBytes(x), p) = Bit(x, 256 * p)
    BY SwapBits DEF Pairs
  <1> QED
    BY <1>1, <1>2, <1>3 DEF BitwiseByBits

(* signExtend() repeats the sign bit of each of the fields of vm.c, and       *)
(* zeroExtend() or-s the upper bits of a field into it.                       *)
LEMMA Extends == Pairs => ExtendByMask
  BY SignExtendBits, ZeroExtendBits DEF Pairs, ExtendByMask

(* The guest subtracts by adding a complement and one.                        *)
LEMMA Subtracts == Pairs => SubtractByComplement
  <1> SUFFICES ASSUME Pairs PROVE SubtractByComplement
    OBVIOUS
  <1>1. PICK d : d = Wrap(x + Wrap(BitNot(y) + 1))
    OBVIOUS
  <1>2. PICK s : s = Signed(x) - Signed(y)
    OBVIOUS
  <1>3. Wrap(d + y) = x /\ (0 - 32768 <= s /\ s <= 32767 => Signed(d) = s)
    BY <1>1, <1>2, ComplementSubtracts DEF Pairs
  <1> QED
    BY <1>1, <1>2, <1>3 DEF SubtractByComplement

(* The sweep visits pairs of words.                                           *)
LEMMA Invariance == Spec => []Pairs
  <1>1. Init => Pairs
    BY InWord DEF Init, Pairs
  <1>2. Pairs /\ [Next]_<<x, y>> => Pairs'
    BY DEF Pairs, Next, NextX, NextY
  <1> QED
    BY <1>1, <1>2, PTL DEF Spec

(* Conjunction and byte exchange, bit by bit, for all words.                  *)
THEOREM BitwiseOnWords == Spec => []BitwiseByBits
  BY Bitwise, Invariance, PTL

(* Sign and zero extension, bit by bit, for all words and fields of vm.c.     *)
THEOREM ExtendsOnWords == Spec => []ExtendByMask
  BY Extends, Invariance, PTL

(* Subtraction by complement, for all pairs of words.                         *)
THEOREM SubtractsOnWords == Spec => []SubtractByComplement
  BY Subtracts, Invariance, PTL
==============================================================================
