-------------------------------- MODULE Words --------------------------------
(***************************************************************************)
(* The 16-bit arithmetic of lc3_vm_c/vm.c: what uint16_t values and the    *)
(* shifts, masks and conversions on them compute.  No definition here is   *)
(* recursive, so that the modules built on this one can be proved about.   *)
(***************************************************************************)
EXTENDS Integers

UINT16_MAX == 65535
UCHAR_MAX == 255

Word == 0 .. UINT16_MAX
Byte == 0 .. UCHAR_MAX

(* Mutation of Wrap: the sum is kept in an int. *)
WrapNothing(n) == n

(* Conversion of an int expression to uint16_t. *)
Wrap(n) == n % 65536

(* Mutation of SignExtend: only the bit next to the field is set. *)
SignExtendOneBit(x, half) ==
  IF (x \div half) % 2 = 1 THEN x + 2 * half ELSE x

(* signExtend(x, bit_count) for an x already masked to bit_count bits, as  *)
(* every caller does; half is 2^(bit_count - 1), the sign bit.             *)
SignExtend(x, half) ==
  IF (x \div half) % 2 = 1 THEN x + (65536 - 2 * half) ELSE x

(* Mutation of SwapBytes: x << 8 is an int. *)
SwapBytesWide(x) == x * 256 + x \div 256

(* toLittleEndian16(x): the two bytes of x exchanged. *)
SwapBytes(x) == (x % 256) * 256 + x \div 256

(* Mutation of BitNot: -x. *)
BitNegate(x) == 65536 - x

(* ~x and x & y on uint16_t.  The conjunction of two 2n-bit words is taken *)
(* half by half from the conjunction of n-bit words.                       *)
BitNot(x) == 65535 - x

And2(x, y)  == 2 * ((x \div 2) * (y \div 2)) + (x % 2) * (y % 2)
And4(x, y)  == 4 * And2(x \div 4, y \div 4) + And2(x % 4, y % 4)
And8(x, y)  == 16 * And4(x \div 16, y \div 16) + And4(x % 16, y % 16)

(* Mutation of BitAnd: uint8_t locals. *)
BitAndLowByte(x, y) == And8(x % 256, y % 256)

BitAnd(x, y) == 256 * And8(x \div 256, y \div 256) + And8(x % 256, y % 256)

(* zeroExtend(x, bit_count), which nothing calls; part is 2^(16 - bit_count), *)
(* and a | b is a + b - (a & b).                                              *)
ZeroExtend(x, part) == x + x \div part - BitAnd(x, x \div part)

(* The two's complement value of a word (what the guest means by it). *)
Signed(x) == IF x < 32768 THEN x ELSE x - 65536

(* The bit of n whose place value is p, and the places of a byte and a word. *)
Bit(n, p) == (n \div p) % 2
ByteBits == {1, 2, 4, 8, 16, 32, 64, 128}
WordBits == ByteBits \cup {256, 512, 1024, 2048, 4096, 8192, 16384, 32768}
==============================================================================
