----------------------------- MODULE WordsProofs -----------------------------
(***************************************************************************)
(* What the 16-bit arithmetic of Words computes: every result is a word,   *)
(* and the bit tricks of vm.c mean what the guest expects of the values    *)
(* they stand for.  Word and Byte stay unexpanded wherever arithmetic is   *)
(* done: InWord and InByte say all that is needed of them.                 *)
(***************************************************************************)
EXTENDS Words, TLAPS

(* uint16_t and unsigned char as inequalities. *)
LEMMA InWord == ASSUME NEW x PROVE x \in Word <=> x \in Int /\ 0 <= x /\ x <= 65535
  <1>1. UINT16_MAX \in Int
    BY DEF UINT16_MAX
  <1>2. x \in Word <=> x \in Int /\ 0 <= x /\ x <= UINT16_MAX
    BY <1>1 DEF Word
  <1> QED
    BY <1>2 DEF UINT16_MAX

LEMMA InByte == ASSUME NEW x PROVE x \in Byte <=> x \in Int /\ 0 <= x /\ x <= 255
  <1>1. UCHAR_MAX \in Int
    BY DEF UCHAR_MAX
  <1>2. x \in Byte <=> x \in Int /\ 0 <= x /\ x <= UCHAR_MAX
    BY <1>1 DEF Byte
  <1> QED
    BY <1>2 DEF UCHAR_MAX

(* uint16_t arithmetic stays in uint16_t. *)
LEMMA WrapType == ASSUME NEW n \in Int PROVE Wrap(n) \in Word
  BY InWord DEF Wrap

(* The low byte of a word, as putc((char) ...) and the traps take it. *)
LEMMA LowByteType == ASSUME NEW x \in Word PROVE x % 256 \in Byte
  BY InWord, InByte

(* signExtend turns a two's complement field of n bits into the word of the  *)
(* same value, for each of the widths vm.c uses: 5, 6, 9 and 11 bits.        *)
THEOREM SignExtendValue ==
  ASSUME NEW half \in {16, 32, 256, 1024},
         NEW x \in Int, 0 <= x, x < 2 * half
  PROVE  /\ SignExtend(x, half) \in Word
         /\ Signed(SignExtend(x, half)) = IF x < half THEN x ELSE x - 2 * half
  <1>1. CASE half = 16
    <2>1. x < 32 /\ ((x \div 16) % 2 = 1 <=> x >= 16)
      BY <1>1
    <2> QED
      BY <1>1, <2>1, InWord DEF SignExtend, Signed
  <1>2. CASE half = 32
    <2>1. x < 64 /\ ((x \div 32) % 2 = 1 <=> x >= 32)
      BY <1>2
    <2> QED
      BY <1>2, <2>1, InWord DEF SignExtend, Signed
  <1>3. CASE half = 256
    <2>1. x < 512 /\ ((x \div 256) % 2 = 1 <=> x >= 256)
      BY <1>3
    <2> QED
      BY <1>3, <2>1, InWord DEF SignExtend, Signed
  <1>4. CASE half = 1024
    <2>1. x < 2048 /\ ((x \div 1024) % 2 = 1 <=> x >= 1024)
      BY <1>4
    <2> QED
      BY <1>4, <2>1, InWord DEF SignExtend, Signed
  <1> QED
    BY <1>1, <1>2, <1>3, <1>4

(* NOT of a word stands for -1 - x. *)
LEMMA BitNotValue ==
  ASSUME NEW x \in Word
  PROVE  BitNot(x) \in Word /\ Signed(BitNot(x)) = 0 - 1 - Signed(x)
  BY InWord DEF BitNot, Signed

(* What a guest computes as x + NOT y + 1 is x - y: adding y gives x back,    *)
(* and the sign is that of the difference while it fits in a word.           *)
THEOREM ComplementSubtracts ==
  ASSUME NEW x \in Word, NEW y \in Word,
         NEW d, d = Wrap(x + Wrap(BitNot(y) + 1))
  PROVE  /\ Wrap(d + y) = x
         /\ 0 - 32768 <= Signed(x) - Signed(y) /\ Signed(x) - Signed(y) <= 32767 =>
              Signed(d) = Signed(x) - Signed(y)
  <1>1. x \in Int /\ 0 <= x /\ x <= 65535 /\ y \in Int /\ 0 <= y /\ y <= 65535
    BY InWord
  <1>2. d = IF x >= y THEN x - y ELSE x - y + 65536
    <2>1. Wrap(BitNot(y) + 1) = IF y = 0 THEN 0 ELSE 65536 - y
      BY <1>1 DEF Wrap, BitNot
    <2> QED
      BY <1>1, <2>1 DEF Wrap
  <1>3. Wrap(d + y) = x
    BY <1>1, <1>2 DEF Wrap
  <1>4. 0 - 32768 <= Signed(x) - Signed(y) /\ Signed(x) - Signed(y) <= 32767 =>
          Signed(d) = Signed(x) - Signed(y)
    BY <1>1, <1>2 DEF Signed
  <1> QED
    BY <1>3, <1>4

(* AND of n-bit words is an n-bit word no larger than either of them.        *)
LEMMA And2Bound ==
  ASSUME NEW x \in Int, NEW y \in Int, 0 <= x, x <= 3, 0 <= y, y <= 3
  PROVE  /\ And2(x, y) \in Int
         /\ 0 <= And2(x, y) /\ And2(x, y) <= x /\ And2(x, y) <= y
  <1>1. x = 0 \/ x = 1 \/ x = 2 \/ x = 3
    OBVIOUS
  <1>2. y = 0 \/ y = 1 \/ y = 2 \/ y = 3
    OBVIOUS
  <1>3. \A b \in {0, 1, 2, 3} :
          /\ And2(x, b) \in Int
          /\ 0 <= And2(x, b) /\ And2(x, b) <= x /\ And2(x, b) <= b
    BY <1>1 DEF And2
  <1> QED
    BY <1>2, <1>3

LEMMA And4Bound ==
  ASSUME NEW x \in Int, NEW y \in Int, 0 <= x, x <= 15, 0 <= y, y <= 15
  PROVE  /\ And4(x, y) \in Int
         /\ 0 <= And4(x, y) /\ And4(x, y) <= x /\ And4(x, y) <= y
  <1> DEFINE xh == x \div 4  xl == x % 4  yh == y \div 4  yl == y % 4
  <1>1. /\ xh \in Int /\ 0 <= xh /\ xh <= 3 /\ xl \in Int /\ 0 <= xl /\ xl <= 3
        /\ yh \in Int /\ 0 <= yh /\ yh <= 3 /\ yl \in Int /\ 0 <= yl /\ yl <= 3
        /\ x = 4 * xh + xl /\ y = 4 * yh + yl
    OBVIOUS
  <1>2. And4(x, y) = 4 * And2(xh, yh) + And2(xl, yl)
    BY DEF And4
  <1> HIDE DEF xh, xl, yh, yl
  <1>3. /\ And2(xh, yh) \in Int /\ 0 <= And2(xh, yh)
        /\ And2(xh, yh) <= xh /\ And2(xh, yh) <= yh
    BY <1>1, And2Bound
  <1>4. /\ And2(xl, yl) \in Int /\ 0 <= And2(xl, yl)
        /\ And2(xl, yl) <= xl /\ And2(xl, yl) <= yl
    BY <1>1, And2Bound
  <1> QED
    BY <1>1, <1>2, <1>3, <1>4

LEMMA And8Bound ==
  ASSUME NEW x \in Int, NEW y \in Int, 0 <= x, x <= 255, 0 <= y, y <= 255
  PROVE  /\ And8(x, y) \in Int
         /\ 0 <= And8(x, y) /\ And8(x, y) <= x /\ And8(x, y) <= y
  <1> DEFINE xh == x \div 16  xl == x % 16  yh == y \div 16  yl == y % 16
  <1>1. /\ xh \in Int /\ 0 <= xh /\ xh <= 15 /\ xl \in Int /\ 0 <= xl /\ xl <= 15
        /\ yh \in Int /\ 0 <= yh /\ yh <= 15 /\ yl \in Int /\ 0 <= yl /\ yl <= 15
        /\ x = 16 * xh + xl /\ y = 16 * yh + yl
    OBVIOUS
  <1>2. And8(x, y) = 16 * And4(xh, yh) + And4(xl, yl)
    BY DEF And8
  <1> HIDE DEF xh, xl, yh, yl
  <1>3. /\ And4(xh, yh) \in Int /\ 0 <= And4(xh, yh)
        /\ And4(xh, yh) <= xh /\ And4(xh, yh) <= yh
    BY <1>1, And4Bound
  <1>4. /\ And4(xl, yl) \in Int /\ 0 <= And4(xl, yl)
        /\ And4(xl, yl) <= xl /\ And4(xl, yl) <= yl
    BY <1>1, And4Bound
  <1> QED
    BY <1>1, <1>2, <1>3, <1>4

LEMMA BitAndBound ==
  ASSUME NEW x \in Word, NEW y \in Word
  PROVE  BitAnd(x, y) \in Word /\ BitAnd(x, y) <= x /\ BitAnd(x, y) <= y
  <1> DEFINE xh == x \div 256  xl == x % 256  yh == y \div 256  yl == y % 256
  <1>1. /\ xh \in Int /\ 0 <= xh /\ xh <= 255 /\ xl \in Int /\ 0 <= xl /\ xl <= 255
        /\ yh \in Int /\ 0 <= yh /\ yh <= 255 /\ yl \in Int /\ 0 <= yl /\ yl <= 255
        /\ x = 256 * xh + xl /\ y = 256 * yh + yl
    BY InWord
  <1>2. BitAnd(x, y) = 256 * And8(xh, yh) + And8(xl, yl)
    BY DEF BitAnd
  <1> HIDE DEF xh, xl, yh, yl
  <1>3. /\ And8(xh, yh) \in Int /\ 0 <= And8(xh, yh)
        /\ And8(xh, yh) <= xh /\ And8(xh, yh) <= yh
    BY <1>1, And8Bound
  <1>4. /\ And8(xl, yl) \in Int /\ 0 <= And8(xl, yl)
        /\ And8(xl, yl) <= xl /\ And8(xl, yl) <= yl
    BY <1>1, And8Bound
  <1>5. /\ BitAnd(x, y) \in Int
        /\ 0 <= BitAnd(x, y) /\ BitAnd(x, y) <= x /\ BitAnd(x, y) <= y
    BY <1>1, <1>2, <1>3, <1>4
  <1> QED
    BY <1>5, InWord

(* The bits of an n-bit word are those of its lower and of its upper half.   *)
LEMMA BitsOf4 ==
  ASSUME NEW n \in Int, 0 <= n, n <= 15, NEW p \in {1, 2}
  PROVE  Bit(n, p) = Bit(n % 4, p) /\ Bit(n, 4 * p) = Bit(n \div 4, p)
  <1>1. CASE p = 1
    BY <1>1 DEF Bit
  <1>2. CASE p = 2
    BY <1>2 DEF Bit
  <1> QED
    BY <1>1, <1>2

LEMMA BitsOf8 ==
  ASSUME NEW n \in Int, 0 <= n, n <= 255, NEW p \in {1, 2, 4, 8}
  PROVE  Bit(n, p) = Bit(n % 16, p) /\ Bit(n, 16 * p) = Bit(n \div 16, p)
  <1>1. CASE p = 1
    BY <1>1 DEF Bit
  <1>2. CASE p = 2
    BY <1>2 DEF Bit
  <1>3. CASE p = 4
    BY <1>3 DEF Bit
  <1>4. CASE p = 8
    BY <1>4 DEF Bit
  <1> QED
    BY <1>1, <1>2, <1>3, <1>4

LEMMA BitsOf16 ==
  ASSUME NEW n \in Int, 0 <= n, n <= 65535, NEW p \in {1, 2, 4, 8, 16, 32, 64, 128}
  PROVE  Bit(n, p) = Bit(n % 256, p) /\ Bit(n, 256 * p) = Bit(n \div 256, p)
  <1>1. CASE p = 1
    BY <1>1 DEF Bit
  <1>2. CASE p = 2
    BY <1>2 DEF Bit
  <1>3. CASE p = 4
    BY <1>3 DEF Bit
  <1>4. CASE p = 8
    BY <1>4 DEF Bit
  <1>5. CASE p = 16
    BY <1>5 DEF Bit
  <1>6. CASE p = 32
    BY <1>6 DEF Bit
  <1>7. CASE p = 64
    BY <1>7 DEF Bit
  <1>8. CASE p = 128
    BY <1>8 DEF Bit
  <1> QED
    BY <1>1, <1>2, <1>3, <1>4, <1>5, <1>6, <1>7, <1>8

LEMMA And2Bits ==
  ASSUME NEW x \in Int, NEW y \in Int, 0 <= x, x <= 3, 0 <= y, y <= 3,
         NEW p \in {1, 2}
  PROVE  Bit(And2(x, y), p) = Bit(x, p) * Bit(y, p)
  <1>1. x = 0 \/ x = 1 \/ x = 2 \/ x = 3
    OBVIOUS
  <1>2. y = 0 \/ y = 1 \/ y = 2 \/ y = 3
    OBVIOUS
  <1>3. CASE p = 1
    <2>1. \A b \in {0, 1, 2, 3} : Bit(And2(x, b), 1) = Bit(x, 1) * Bit(b, 1)
      BY <1>1 DEF And2, Bit
    <2> QED
      BY <1>2, <1>3, <2>1
  <1>4. CASE p = 2
    <2>1. \A b \in {0, 1, 2, 3} : Bit(And2(x, b), 2) = Bit(x, 2) * Bit(b, 2)
      BY <1>1 DEF And2, Bit
    <2> QED
      BY <1>2, <1>4, <2>1
  <1> QED
    BY <1>3, <1>4

LEMMA And4Bits ==
  ASSUME NEW x \in Int, NEW y \in Int, 0 <= x, x <= 15, 0 <= y, y <= 15,
         NEW p \in {1, 2, 4, 8}
  PROVE  Bit(And4(x, y), p) = Bit(x, p) * Bit(y, p)
  <1> DEFINE xh == x \div 4  xl == x % 4  yh == y \div 4  yl == y % 4
  <1>1. /\ xh \in Int /\ 0 <= xh /\ xh <= 3 /\ xl \in Int /\ 0 <= xl /\ xl <= 3
        /\ yh \in Int /\ 0 <= yh /\ yh <= 3 /\ yl \in Int /\ 0 <= yl /\ yl <= 3
    OBVIOUS
  <1>2. PICK h, l : h = And2(xh, yh) /\ l = And2(xl, yl)
    OBVIOUS
  <1>3. And4(x, y) = 4 * h + l
    BY <1>2 DEF And4
  <1>4. \A q \in {1, 2} :
          /\ Bit(x, q) = Bit(xl, q) /\ Bit(x, 4 * q) = Bit(xh, q)
          /\ Bit(y, q) = Bit(yl, q) /\ Bit(y, 4 * q) = Bit(yh, q)
    BY BitsOf4
  <1> HIDE DEF xh, xl, yh, yl
  <1>5. /\ h \in Int /\ 0 <= h /\ h <= 3 /\ l \in Int /\ 0 <= l /\ l <= 3
    <2>1. h \in Int /\ 0 <= h /\ h <= xh
      BY <1>1, <1>2, And2Bound
    <2>2. l \in Int /\ 0 <= l /\ l <= xl
      BY <1>1, <1>2, And2Bound
    <2> QED
      BY <1>1, <2>1, <2>2
  <1>6. /\ 4 * h + l \in Int /\ 0 <= 4 * h + l /\ 4 * h + l <= 15
        /\ (4 * h + l) % 4 = l /\ (4 * h + l) \div 4 = h
    BY <1>5
  <1>7. \A q \in {1, 2} :
          Bit(4 * h + l, q) = Bit(l, q) /\ Bit(4 * h + l, 4 * q) = Bit(h, q)
    <2>1. PICK v : v = 4 * h + l
      OBVIOUS
    <2>2. /\ v \in Int /\ 0 <= v /\ v <= 15
          /\ v % 4 = l /\ v \div 4 = h
      BY <1>6, <2>1
    <2>3. \A q \in {1, 2} :
            Bit(v, q) = Bit(v % 4, q) /\ Bit(v, 4 * q) = Bit(v \div 4, q)
      BY <2>2, BitsOf4
    <2> QED
      BY <2>1, <2>2, <2>3
  <1>8. \A q \in {1, 2} :
          /\ Bit(h, q) = Bit(xh, q) * Bit(yh, q)
          /\ Bit(l, q) = Bit(xl, q) * Bit(yl, q)
    BY <1>1, <1>2, And2Bits
  <1>9. PICK q \in {1, 2} : p = q \/ p = 4 * q
    OBVIOUS
  <1> QED
    BY <1>3, <1>4, <1>7, <1>8, <1>9

LEMMA And8Bits ==
  ASSUME NEW x \in Int, NEW y \in Int, 0 <= x, x <= 255, 0 <= y, y <= 255,
         NEW p \in {1, 2, 4, 8, 16, 32, 64, 128}
  PROVE  Bit(And8(x, y), p) = Bit(x, p) * Bit(y, p)
  <1> DEFINE xh == x \div 16  xl == x % 16  yh == y \div 16  yl == y % 16
  <1>1. /\ xh \in Int /\ 0 <= xh /\ xh <= 15 /\ xl \in Int /\ 0 <= xl /\ xl <= 15
        /\ yh \in Int /\ 0 <= yh /\ yh <= 15 /\ yl \in Int /\ 0 <= yl /\ yl <= 15
    OBVIOUS
  <1>2. PICK h, l : h = And4(xh, yh) /\ l = And4(xl, yl)
    OBVIOUS
  <1>3. And8(x, y) = 16 * h + l
    BY <1>2 DEF And8
  <1>4. \A q \in {1, 2, 4, 8} :
          /\ Bit(x, q) = Bit(xl, q) /\ Bit(x, 16 * q) = Bit(xh, q)
          /\ Bit(y, q) = Bit(yl, q) /\ Bit(y, 16 * q) = Bit(yh, q)
    BY BitsOf8
  <1> HIDE DEF xh, xl, yh, yl
  <1>5. /\ h \in Int /\ 0 <= h /\ h <= 15 /\ l \in Int /\ 0 <= l /\ l <= 15
    <2>1. h \in Int /\ 0 <= h /\ h <= xh
      BY <1>1, <1>2, And4Bound
    <2>2. l \in Int /\ 0 <= l /\ l <= xl
      BY <1>1, <1>2, And4Bound
    <2> QED
      BY <1>1, <2>1, <2>2
  <1>6. /\ 16 * h + l \in Int /\ 0 <= 16 * h + l /\ 16 * h + l <= 255
        /\ (16 * h + l) % 16 = l /\ (16 * h + l) \div 16 = h
    BY <1>5
  <1>7. \A q \in {1, 2, 4, 8} :
          Bit(16 * h + l, q) = Bit(l, q) /\ Bit(16 * h + l, 16 * q) = Bit(h, q)
    <2>1. PICK v : v = 16 * h + l
      OBVIOUS
    <2>2. /\ v \in Int /\ 0 <= v /\ v <= 255
          /\ v % 16 = l /\ v \div 16 = h
      BY <1>6, <2>1
    <2>3. \A q \in {1, 2, 4, 8} :
            Bit(v, q) = Bit(v % 16, q) /\ Bit(v, 16 * q) = Bit(v \div 16, q)
      BY <2>2, BitsOf8
    <2> QED
      BY <2>1, <2>2, <2>3
  <1>8. \A q \in {1, 2, 4, 8} :
          /\ Bit(h, q) = Bit(xh, q) * Bit(yh, q)
          /\ Bit(l, q) = Bit(xl, q) * Bit(yl, q)
    BY <1>1, <1>2, And4Bits
  <1>9. PICK q \in {1, 2, 4, 8} : p = q \/ p = 16 * q
    OBVIOUS
  <1> QED
    BY <1>3, <1>4, <1>7, <1>8, <1>9

(* and() is the conjunction of its operands bit by bit.                      *)
THEOREM BitAndBits ==
  ASSUME NEW x \in Word, NEW y \in Word,
         NEW p \in {1, 2, 4, 8, 16, 32, 64, 128, 256, 512, 1024,
                    2048, 4096, 8192, 16384, 32768}
  PROVE  Bit(BitAnd(x, y), p) = Bit(x, p) * Bit(y, p)
  <1> DEFINE xh == x \div 256  xl == x % 256  yh == y \div 256  yl == y % 256
  <1>1. /\ xh \in Int /\ 0 <= xh /\ xh <= 255 /\ xl \in Int /\ 0 <= xl /\ xl <= 255
        /\ yh \in Int /\ 0 <= yh /\ yh <= 255 /\ yl \in Int /\ 0 <= yl /\ yl <= 255
    BY InWord
  <1>2. PICK h, l : h = And8(xh, yh) /\ l = And8(xl, yl)
    OBVIOUS
  <1>3. BitAnd(x, y) = 256 * h + l
    BY <1>2 DEF BitAnd
  <1>4. \A q \in {1, 2, 4, 8, 16, 32, 64, 128} :
          /\ Bit(x, q) = Bit(xl, q) /\ Bit(x, 256 * q) = Bit(xh, q)
          /\ Bit(y, q) = Bit(yl, q) /\ Bit(y, 256 * q) = Bit(yh, q)
    BY InWord, BitsOf16
  <1> HIDE DEF xh, xl, yh, yl
  <1>5. /\ h \in Int /\ 0 <= h /\ h <= 255 /\ l \in Int /\ 0 <= l /\ l <= 255
    <2>1. h \in Int /\ 0 <= h /\ h <= xh
      BY <1>1, <1>2, And8Bound
    <2>2. l \in Int /\ 0 <= l /\ l <= xl
      BY <1>1, <1>2, And8Bound
    <2> QED
      BY <1>1, <2>1, <2>2
  <1>6. /\ 256 * h + l \in Int /\ 0 <= 256 * h + l /\ 256 * h + l <= 65535
        /\ (256 * h + l) % 256 = l /\ (256 * h + l) \div 256 = h
    BY <1>5
  <1>7. \A q \in {1, 2, 4, 8, 16, 32, 64, 128} :
          Bit(256 * h + l, q) = Bit(l, q) /\ Bit(256 * h + l, 256 * q) = Bit(h, q)
    <2>1. PICK v : v = 256 * h + l
      OBVIOUS
    <2>2. /\ v \in Int /\ 0 <= v /\ v <= 65535
          /\ v % 256 = l /\ v \div 256 = h
      BY <1>6, <2>1
    <2>3. \A q \in {1, 2, 4, 8, 16, 32, 64, 128} :
            Bit(v, q) = Bit(v % 256, q) /\ Bit(v, 256 * q) = Bit(v \div 256, q)
      BY <2>2, BitsOf16
    <2> QED
      BY <2>1, <2>2, <2>3
  <1>8. \A q \in {1, 2, 4, 8, 16, 32, 64, 128} :
          /\ Bit(h, q) = Bit(xh, q) * Bit(yh, q)
          /\ Bit(l, q) = Bit(xl, q) * Bit(yl, q)
    BY <1>1, <1>2, And8Bits
  <1>9. PICK q \in {1, 2, 4, 8, 16, 32, 64, 128} : p = q \/ p = 256 * q
    OBVIOUS
  <1> QED
    BY <1>3, <1>4, <1>7, <1>8, <1>9

(* zeroExtend() extends a field with zeros while the field has at most 8      *)
(* bits (part is 2 to the width of the rest of the word): there is nothing    *)
(* above them to or into it.                                                  *)
THEOREM ZeroExtendValue ==
  ASSUME NEW part \in {256, 512, 1024, 2048, 4096, 8192, 16384, 32768},
         NEW x \in Word, x * part <= 65535
  PROVE  ZeroExtend(x, part) = x
  <1>1. x \in Int /\ 0 <= x /\ x < 256 /\ part \in Int /\ x < part
    BY InWord
  <1>2. x \div part = 0
    <2>1. part \in Int /\ part > 0 /\ x = part * 0 + x /\ 0 <= x /\ x < part
      BY <1>1
    <2> QED
      BY <1>1, <2>1
  <1>3. BitAnd(x, 0) = 0
    <2>1. 0 \in Word
      BY InWord
    <2>2. BitAnd(x, 0) \in Word /\ BitAnd(x, 0) <= 0
      BY <2>1, BitAndBound
    <2> QED
      BY <2>2, InWord
  <1> QED
    BY <1>1, <1>2, <1>3 DEF ZeroExtend

(* toLittleEndian16 is its own inverse: a word stored in the image's byte    *)
(* order and swapped is the word that was meant, and no two images agree.    *)
THEOREM SwapBytesInvolution ==
  ASSUME NEW x \in Word
  PROVE  SwapBytes(x) \in Word /\ SwapBytes(SwapBytes(x)) = x
  <1> DEFINE h == x \div 256  l == x % 256
  <1>1. /\ h \in Int /\ 0 <= h /\ h <= 255 /\ l \in Int /\ 0 <= l /\ l <= 255
        /\ x = 256 * h + l
    BY InWord
  <1>2. SwapBytes(x) = l * 256 + h
    BY DEF SwapBytes
  <1> HIDE DEF h, l
  <1>3. (l * 256 + h) % 256 = h /\ (l * 256 + h) \div 256 = l
    BY <1>1
  <1>4. SwapBytes(SwapBytes(x)) = h * 256 + l
    BY <1>2, <1>3 DEF SwapBytes
  <1> QED
    BY <1>1, <1>2, <1>4, InWord

-------------------------------------------------------------------------------
(* What the operators of the C source do to each bit. *)

(* A bit is 0 or 1, and that of a conjunction or a complement what one        *)
(* expects.                                                                   *)
LEMMA BitAndBit ==
  ASSUME NEW x \in Word, NEW y \in Word, NEW p \in WordBits
  PROVE  Bit(BitAnd(x, y), p) = Bit(x, p) * Bit(y, p)
  BY BitAndBits DEF WordBits, ByteBits

LEMMA BitIsBit ==
  ASSUME NEW n \in Int, NEW p \in WordBits PROVE Bit(n, p) \in {0, 1}
  BY DEF Bit, WordBits, ByteBits

(* De Morgan's law, for the conjunctions of 2, 4, 8 and 16 bits. *)
LEMMA DeMorgan2 ==
  ASSUME NEW x \in Int, NEW y \in Int, 0 <= x, x <= 3, 0 <= y, y <= 3
  PROVE  And2(3 - x, 3 - y) = 3 - x - y + And2(x, y)
  <1>1. x = 0 \/ x = 1 \/ x = 2 \/ x = 3
    OBVIOUS
  <1>2. y = 0 \/ y = 1 \/ y = 2 \/ y = 3
    OBVIOUS
  <1>3. \A b \in {0, 1, 2, 3} : And2(3 - x, 3 - b) = 3 - x - b + And2(x, b)
    BY <1>1 DEF And2
  <1> QED
    BY <1>2, <1>3

LEMMA DeMorgan4 ==
  ASSUME NEW x \in Int, NEW y \in Int, 0 <= x, x <= 15, 0 <= y, y <= 15
  PROVE  And4(15 - x, 15 - y) = 15 - x - y + And4(x, y)
  <1> DEFINE xh == x \div 4  xl == x % 4  yh == y \div 4  yl == y % 4
  <1>1. /\ xh \in Int /\ 0 <= xh /\ xh <= 3 /\ xl \in Int /\ 0 <= xl /\ xl <= 3
        /\ yh \in Int /\ 0 <= yh /\ yh <= 3 /\ yl \in Int /\ 0 <= yl /\ yl <= 3
        /\ x = 4 * xh + xl /\ y = 4 * yh + yl
    OBVIOUS
  <1>2. /\ (15 - x) \div 4 = 3 - xh /\ (15 - x) % 4 = 3 - xl
        /\ (15 - y) \div 4 = 3 - yh /\ (15 - y) % 4 = 3 - yl
    OBVIOUS
  <1>3. And4(x, y) = 4 * And2(xh, yh) + And2(xl, yl)
    BY DEF And4
  <1>4. And4(15 - x, 15 - y) = 4 * And2(3 - xh, 3 - yh) + And2(3 - xl, 3 - yl)
    BY <1>2 DEF And4
  <1> HIDE DEF xh, xl, yh, yl
  <1>5. And2(xh, yh) \in Int /\ And2(xl, yl) \in Int
    BY <1>1, And2Bound
  <1>6. /\ And2(3 - xh, 3 - yh) = 3 - xh - yh + And2(xh, yh)
        /\ And2(3 - xl, 3 - yl) = 3 - xl - yl + And2(xl, yl)
    BY <1>1, DeMorgan2
  <1> QED
    BY <1>1, <1>3, <1>4, <1>5, <1>6

LEMMA DeMorgan8 ==
  ASSUME NEW x \in Int, NEW y \in Int, 0 <= x, x <= 255, 0 <= y, y <= 255
  PROVE  And8(255 - x, 255 - y) = 255 - x - y + And8(x, y)
  <1> DEFINE xh == x \div 16  xl == x % 16  yh == y \div 16  yl == y % 16
  <1>1. /\ xh \in Int /\ 0 <= xh /\ xh <= 15 /\ xl \in Int /\ 0 <= xl /\ xl <= 15
        /\ yh \in Int /\ 0 <= yh /\ yh <= 15 /\ yl \in Int /\ 0 <= yl /\ yl <= 15
        /\ x = 16 * xh + xl /\ y = 16 * yh + yl
    OBVIOUS
  <1>2. /\ (255 - x) \div 16 = 15 - xh /\ (255 - x) % 16 = 15 - xl
        /\ (255 - y) \div 16 = 15 - yh /\ (255 - y) % 16 = 15 - yl
    OBVIOUS
  <1>3. And8(x, y) = 16 * And4(xh, yh) + And4(xl, yl)
    BY DEF And8
  <1>4. And8(255 - x, 255 - y) = 16 * And4(15 - xh, 15 - yh) + And4(15 - xl, 15 - yl)
    BY <1>2 DEF And8
  <1> HIDE DEF xh, xl, yh, yl
  <1>5. And4(xh, yh) \in Int /\ And4(xl, yl) \in Int
    BY <1>1, And4Bound
  <1>6. /\ And4(15 - xh, 15 - yh) = 15 - xh - yh + And4(xh, yh)
        /\ And4(15 - xl, 15 - yl) = 15 - xl - yl + And4(xl, yl)
    BY <1>1, DeMorgan4
  <1> QED
    BY <1>1, <1>3, <1>4, <1>5, <1>6

(* ~x & ~y is the complement of x | y, that is of x + y - (x & y).           *)
LEMMA DeMorgan ==
  ASSUME NEW x \in Word, NEW y \in Word
  PROVE  BitAnd(BitNot(x), BitNot(y)) = BitNot(x + y - BitAnd(x, y))
  <1> DEFINE xh == x \div 256  xl == x % 256  yh == y \div 256  yl == y % 256
  <1>1. /\ xh \in Int /\ 0 <= xh /\ xh <= 255 /\ xl \in Int /\ 0 <= xl /\ xl <= 255
        /\ yh \in Int /\ 0 <= yh /\ yh <= 255 /\ yl \in Int /\ 0 <= yl /\ yl <= 255
        /\ x = 256 * xh + xl /\ y = 256 * yh + yl
    BY InWord
  <1>2. /\ BitNot(x) \div 256 = 255 - xh /\ BitNot(x) % 256 = 255 - xl
        /\ BitNot(y) \div 256 = 255 - yh /\ BitNot(y) % 256 = 255 - yl
    BY InWord DEF BitNot
  <1>3. BitAnd(x, y) = 256 * And8(xh, yh) + And8(xl, yl)
    BY DEF BitAnd
  <1>4. BitAnd(BitNot(x), BitNot(y)) = 256 * And8(255 - xh, 255 - yh) + And8(255 - xl, 255 - yl)
    BY <1>2 DEF BitAnd
  <1> HIDE DEF xh, xl, yh, yl
  <1>5. And8(xh, yh) \in Int /\ And8(xl, yl) \in Int
    BY <1>1, And8Bound
  <1>6. /\ And8(255 - xh, 255 - yh) = 255 - xh - yh + And8(xh, yh)
        /\ And8(255 - xl, 255 - yl) = 255 - xl - yl + And8(xl, yl)
    BY <1>1, DeMorgan8
  <1> QED
    BY <1>1, <1>3, <1>4, <1>5, <1>6 DEF BitNot

LEMMA BitOfNot ==
  ASSUME NEW x \in Word, NEW p \in WordBits
  PROVE  Bit(BitNot(x), p) = 1 - Bit(x, p)
  <1>0. x \in Int /\ 0 <= x /\ x <= 65535
    BY InWord
  <1>1. CASE p = 1
    BY <1>0, <1>1 DEF Bit, BitNot
  <1>2. CASE p = 2
    BY <1>0, <1>2 DEF Bit, BitNot
  <1>3. CASE p = 4
    BY <1>0, <1>3 DEF Bit, BitNot
  <1>4. CASE p = 8
    BY <1>0, <1>4 DEF Bit, BitNot
  <1>5. CASE p = 16
    BY <1>0, <1>5 DEF Bit, BitNot
  <1>6. CASE p = 32
    BY <1>0, <1>6 DEF Bit, BitNot
  <1>7. CASE p = 64
    BY <1>0, <1>7 DEF Bit, BitNot
  <1>8. CASE p = 128
    BY <1>0, <1>8 DEF Bit, BitNot
  <1>9. CASE p = 256
    BY <1>0, <1>9 DEF Bit, BitNot
  <1>10. CASE p = 512
    BY <1>0, <1>10 DEF Bit, BitNot
  <1>11. CASE p = 1024
    BY <1>0, <1>11 DEF Bit, BitNot
  <1>12. CASE p = 2048
    BY <1>0, <1>12 DEF Bit, BitNot
  <1>13. CASE p = 4096
    BY <1>0, <1>13 DEF Bit, BitNot
  <1>14. CASE p = 8192
    BY <1>0, <1>14 DEF Bit, BitNot
  <1>15. CASE p = 16384
    BY <1>0, <1>15 DEF Bit, BitNot
  <1>16. CASE p = 32768
    BY <1>0, <1>16 DEF Bit, BitNot
  <1> QED
    BY <1>1, <1>2, <1>3, <1>4, <1>5, <1>6, <1>7, <1>8, <1>9, <1>10, <1>11,
       <1>12, <1>13, <1>14, <1>15, <1>16
    DEF WordBits, ByteBits

(* The bits of a sign-extended field of 5, 6, 9 and 11 bits. *)
LEMMA SignExtendBits16 ==
  ASSUME NEW x \in Int, 0 <= x, x <= 65535, NEW p \in WordBits
  PROVE  Bit(SignExtend(x % 32, 16), p) = Bit(x, IF p < 16 THEN p ELSE 16)
  <1>1. CASE p = 1
    BY <1>1 DEF Bit, SignExtend
  <1>2. CASE p = 2
    BY <1>2 DEF Bit, SignExtend
  <1>3. CASE p = 4
    BY <1>3 DEF Bit, SignExtend
  <1>4. CASE p = 8
    BY <1>4 DEF Bit, SignExtend
  <1>5. CASE p = 16
    BY <1>5 DEF Bit, SignExtend
  <1>6. CASE p = 32
    BY <1>6 DEF Bit, SignExtend
  <1>7. CASE p = 64
    BY <1>7 DEF Bit, SignExtend
  <1>8. CASE p = 128
    BY <1>8 DEF Bit, SignExtend
  <1>9. CASE p = 256
    BY <1>9 DEF Bit, SignExtend
  <1>10. CASE p = 512
    BY <1>10 DEF Bit, SignExtend
  <1>11. CASE p = 1024
    BY <1>11 DEF Bit, SignExtend
  <1>12. CASE p = 2048
    BY <1>12 DEF Bit, SignExtend
  <1>13. CASE p = 4096
    BY <1>13 DEF Bit, SignExtend
  <1>14. CASE p = 8192
    BY <1>14 DEF Bit, SignExtend
  <1>15. CASE p = 16384
    BY <1>15 DEF Bit, SignExtend
  <1>16. CASE p = 32768
    BY <1>16 DEF Bit, SignExtend
  <1> QED
    BY <1>1, <1>2, <1>3, <1>4, <1>5, <1>6, <1>7, <1>8, <1>9, <1>10, <1>11,
       <1>12, <1>13, <1>14, <1>15, <1>16
    DEF WordBits, ByteBits

LEMMA SignExtendBits32 ==
  ASSUME NEW x \in Int, 0 <= x, x <= 65535, NEW p \in WordBits
  PROVE  Bit(SignExtend(x % 64, 32), p) = Bit(x, IF p < 32 THEN p ELSE 32)
  <1>1. CASE p = 1
    BY <1>1 DEF Bit, SignExtend
  <1>2. CASE p = 2
    BY <1>2 DEF Bit, SignExtend
  <1>3. CASE p = 4
    BY <1>3 DEF Bit, SignExtend
  <1>4. CASE p = 8
    BY <1>4 DEF Bit, SignExtend
  <1>5. CASE p = 16
    BY <1>5 DEF Bit, SignExtend
  <1>6. CASE p = 32
    BY <1>6 DEF Bit, SignExtend
  <1>7. CASE p = 64
    BY <1>7 DEF Bit, SignExtend
  <1>8. CASE p = 128
    BY <1>8 DEF Bit, SignExtend
  <1>9. CASE p = 256
    BY <1>9 DEF Bit, SignExtend
  <1>10. CASE p = 512
    BY <1>10 DEF Bit, SignExtend
  <1>11. CASE p = 1024
    BY <1>11 DEF Bit, SignExtend
  <1>12. CASE p = 2048
    BY <1>12 DEF Bit, SignExtend
  <1>13. CASE p = 4096
    BY <1>13 DEF Bit, SignExtend
  <1>14. CASE p = 8192
    BY <1>14 DEF Bit, SignExtend
  <1>15. CASE p = 16384
    BY <1>15 DEF Bit, SignExtend
  <1>16. CASE p = 32768
    BY <1>16 DEF Bit, SignExtend
  <1> QED
    BY <1>1, <1>2, <1>3, <1>4, <1>5, <1>6, <1>7, <1>8, <1>9, <1>10, <1>11,
       <1>12, <1>13, <1>14, <1>15, <1>16
    DEF WordBits, ByteBits

LEMMA SignExtendBits256 ==
  ASSUME NEW x \in Int, 0 <= x, x <= 65535, NEW p \in WordBits
  PROVE  Bit(SignExtend(x % 512, 256), p) = Bit(x, IF p < 256 THEN p ELSE 256)
  <1>1. CASE p = 1
    BY <1>1 DEF Bit, SignExtend
  <1>2. CASE p = 2
    BY <1>2 DEF Bit, SignExtend
  <1>3. CASE p = 4
    BY <1>3 DEF Bit, SignExtend
  <1>4. CASE p = 8
    BY <1>4 DEF Bit, SignExtend
  <1>5. CASE p = 16
    BY <1>5 DEF Bit, SignExtend
  <1>6. CASE p = 32
    BY <1>6 DEF Bit, SignExtend
  <1>7. CASE p = 64
    BY <1>7 DEF Bit, SignExtend
  <1>8. CASE p = 128
    BY <1>8 DEF Bit, SignExtend
  <1>9. CASE p = 256
    BY <1>9 DEF Bit, SignExtend
  <1>10. CASE p = 512
    BY <1>10 DEF Bit, SignExtend
  <1>11. CASE p = 1024
    BY <1>11 DEF Bit, SignExtend
  <1>12. CASE p = 2048
    BY <1>12 DEF Bit, SignExtend
  <1>13. CASE p = 4096
    BY <1>13 DEF Bit, SignExtend
  <1>14. CASE p = 8192
    BY <1>14 DEF Bit, SignExtend
  <1>15. CASE p = 16384
    BY <1>15 DEF Bit, SignExtend
  <1>16. CASE p = 32768
    BY <1>16 DEF Bit, SignExtend
  <1> QED
    BY <1>1, <1>2, <1>3, <1>4, <1>5, <1>6, <1>7, <1>8, <1>9, <1>10, <1>11,
       <1>12, <1>13, <1>14, <1>15, <1>16
    DEF WordBits, ByteBits

LEMMA SignExtendBits1024 ==
  ASSUME NEW x \in Int, 0 <= x, x <= 65535, NEW p \in WordBits
  PROVE  Bit(SignExtend(x % 2048, 1024), p) = Bit(x, IF p < 1024 THEN p ELSE 1024)
  <1>1. CASE p = 1
    BY <1>1 DEF Bit, SignExtend
  <1>2. CASE p = 2
    BY <1>2 DEF Bit, SignExtend
  <1>3. CASE p = 4
    BY <1>3 DEF Bit, SignExtend
  <1>4. CASE p = 8
    BY <1>4 DEF Bit, SignExtend
  <1>5. CASE p = 16
    BY <1>5 DEF Bit, SignExtend
  <1>6. CASE p = 32
    BY <1>6 DEF Bit, SignExtend
  <1>7. CASE p = 64
    BY <1>7 DEF Bit, SignExtend
  <1>8. CASE p = 128
    BY <1>8 DEF Bit, SignExtend
  <1>9. CASE p = 256
    BY <1>9 DEF Bit, SignExtend
  <1>10. CASE p = 512
    BY <1>10 DEF Bit, SignExtend
  <1>11. CASE p = 1024
    BY <1>11 DEF Bit, SignExtend
  <1>12. CASE p = 2048
    BY <1>12 DEF Bit, SignExtend
  <1>13. CASE p = 4096
    BY <1>13 DEF Bit, SignExtend
  <1>14. CASE p = 8192
    BY <1>14 DEF Bit, SignExtend
  <1>15. CASE p = 16384
    BY <1>15 DEF Bit, SignExtend
  <1>16. CASE p = 32768
    BY <1>16 DEF Bit, SignExtend
  <1> QED
    BY <1>1, <1>2, <1>3, <1>4, <1>5, <1>6, <1>7, <1>8, <1>9, <1>10, <1>11,
       <1>12, <1>13, <1>14, <1>15, <1>16
    DEF WordBits, ByteBits

(* A word is given by its bits. *)
LEMMA SameBits4 ==
  ASSUME NEW x \in Int, NEW y \in Int, 0 <= x, x <= 15, 0 <= y, y <= 15,
         \A p \in {1, 2, 4, 8} : Bit(x, p) = Bit(y, p)
  PROVE  x = y
  <1>1. /\ Bit(x, 1) = Bit(y, 1) /\ Bit(x, 2) = Bit(y, 2)
        /\ Bit(x, 4) = Bit(y, 4) /\ Bit(x, 8) = Bit(y, 8)
    OBVIOUS
  <1> QED
    BY <1>1 DEF Bit

LEMMA SameBits8 ==
  ASSUME NEW x \in Int, NEW y \in Int, 0 <= x, x <= 255, 0 <= y, y <= 255,
         \A p \in ByteBits : Bit(x, p) = Bit(y, p)
  PROVE  x = y
  <1>1. ASSUME NEW p \in {1, 2, 4, 8}
        PROVE  Bit(x % 16, p) = Bit(y % 16, p) /\ Bit(x \div 16, p) = Bit(y \div 16, p)
    <2>1. p \in ByteBits /\ 16 * p \in ByteBits
      BY DEF ByteBits
    <2> QED
      BY <2>1, BitsOf8
  <1>2. x % 16 = y % 16 /\ x \div 16 = y \div 16
    <2>1. /\ x % 16 \in Int /\ 0 <= x % 16 /\ x % 16 <= 15
          /\ y % 16 \in Int /\ 0 <= y % 16 /\ y % 16 <= 15
          /\ x \div 16 \in Int /\ 0 <= x \div 16 /\ x \div 16 <= 15
          /\ y \div 16 \in Int /\ 0 <= y \div 16 /\ y \div 16 <= 15
      OBVIOUS
    <2> QED
      BY <1>1, <2>1, SameBits4
  <1> QED
    BY <1>2

LEMMA SameBits ==
  ASSUME NEW x \in Word, NEW y \in Word, \A p \in WordBits : Bit(x, p) = Bit(y, p)
  PROVE  x = y
  <1>1. ASSUME NEW p \in ByteBits
        PROVE  Bit(x % 256, p) = Bit(y % 256, p) /\ Bit(x \div 256, p) = Bit(y \div 256, p)
    <2>1. p \in WordBits /\ 256 * p \in WordBits
      BY DEF ByteBits, WordBits
    <2> QED
      BY <2>1, InWord, BitsOf16 DEF ByteBits
  <1>2. x % 256 = y % 256 /\ x \div 256 = y \div 256
    <2>1. /\ x % 256 \in Int /\ 0 <= x % 256 /\ x % 256 <= 255
          /\ y % 256 \in Int /\ 0 <= y % 256 /\ y % 256 <= 255
          /\ x \div 256 \in Int /\ 0 <= x \div 256 /\ x \div 256 <= 255
          /\ y \div 256 \in Int /\ 0 <= y \div 256 /\ y \div 256 <= 255
      BY InWord
    <2> QED
      BY <1>1, <2>1, SameBits8
  <1> QED
    BY <1>2, InWord
(* signExtend() repeats the sign bit of the field above it. *)
LEMMA SignExtendBits ==
  ASSUME NEW x \in Word, NEW half \in {16, 32, 256, 1024}
  PROVE  /\ SignExtend(x % (2 * half), half) \in Word
         /\ \A p \in WordBits :
              Bit(SignExtend(x % (2 * half), half), p) = Bit(x, IF p < half THEN p ELSE half)
  <1>1. x \in Int /\ 0 <= x /\ x <= 65535
    BY InWord
  <1>2. x % (2 * half) \in Int /\ 0 <= x % (2 * half) /\ x % (2 * half) < 2 * half
    BY <1>1
  <1>3. SignExtend(x % (2 * half), half) \in Word
    BY <1>2, SignExtendValue
  <1>4. CASE half = 16
    BY <1>1, <1>3, <1>4, SignExtendBits16
  <1>5. CASE half = 32
    BY <1>1, <1>3, <1>5, SignExtendBits32
  <1>6. CASE half = 256
    BY <1>1, <1>3, <1>6, SignExtendBits256
  <1>7. CASE half = 1024
    BY <1>1, <1>3, <1>7, SignExtendBits1024
  <1> QED
    BY <1>4, <1>5, <1>6, <1>7

(* What zeroExtend() computes is x | y, for the field x and what is above it. *)
LEMMA OrBits ==
  ASSUME NEW x \in Word, NEW y \in Word, NEW z, z = x + y - BitAnd(x, y)
  PROVE  /\ z \in Word
         /\ \A p \in WordBits : Bit(z, p) = 0 <=> Bit(x, p) = 0 /\ Bit(y, p) = 0
  <1>1. BitNot(x) \in Word /\ BitNot(y) \in Word
    BY BitNotValue
  <1>2. BitAnd(BitNot(x), BitNot(y)) = BitNot(z)
    BY DeMorgan
  <1>3. BitNot(z) \in Word
    BY <1>1, <1>2, BitAndBound
  <1>4. z \in Word
    <2>1. x \in Int /\ y \in Int /\ BitAnd(x, y) \in Int
      BY BitAndBound, InWord
    <2> QED
      BY <1>3, <2>1, InWord DEF BitNot
  <1>5. ASSUME NEW p \in WordBits
        PROVE  Bit(z, p) = 0 <=> Bit(x, p) = 0 /\ Bit(y, p) = 0
    <2>1. Bit(BitNot(z), p) = Bit(BitNot(x), p) * Bit(BitNot(y), p)
      BY <1>1, <1>2, BitAndBit
    <2>2. 1 - Bit(z, p) = (1 - Bit(x, p)) * (1 - Bit(y, p))
      BY <1>4, <2>1, BitOfNot
    <2>3. Bit(z, p) \in {0, 1} /\ Bit(x, p) \in {0, 1} /\ Bit(y, p) \in {0, 1}
      BY <1>4, InWord, BitIsBit
    <2> QED
      BY <2>2, <2>3
  <1> QED
    BY <1>4, <1>5

(* zeroExtend() of each of the fields vm.c has. *)
LEMMA ZeroExtendBits ==
  ASSUME NEW part \in {2048, 1024, 256, 128, 32}, NEW x \in Word,
         NEW field, field = x % (65536 \div part),
         NEW upper, upper = field \div part,
         NEW word, word = ZeroExtend(field, part)
  PROVE  /\ word \in Word
         /\ \A p \in WordBits : Bit(word, p) = 0 <=> Bit(field, p) = 0 /\ Bit(upper, p) = 0
         /\ word = field <=> \/ part >= 256
                             \/ \A p \in WordBits : Bit(upper, p) <= Bit(field, p)
  <1>1. field \in Word /\ upper \in Word /\ (part >= 256 => upper = 0)
    <2>1. x \in Int /\ 0 <= x /\ x <= 65535
      BY InWord
    <2>2. /\ field \in Int /\ 0 <= field /\ field <= 65535
          /\ upper \in Int /\ 0 <= upper /\ upper <= 65535
          /\ part >= 256 => upper = 0
      <3>1. CASE part = 2048
        BY <2>1, <3>1
      <3>2. CASE part = 1024
        BY <2>1, <3>2
      <3>3. CASE part = 256
        BY <2>1, <3>3
      <3>4. CASE part = 128
        BY <2>1, <3>4
      <3>5. CASE part = 32
        BY <2>1, <3>5
      <3> QED
        BY <3>1, <3>2, <3>3, <3>4, <3>5
    <2> QED
      BY <2>2, InWord
  <1>2. word = field + upper - BitAnd(field, upper)
    BY DEF ZeroExtend
  <1>3. /\ word \in Word
        /\ \A p \in WordBits : Bit(word, p) = 0 <=> Bit(field, p) = 0 /\ Bit(upper, p) = 0
    BY <1>1, <1>2, OrBits
  <1>4. \A p \in WordBits : /\ Bit(word, p) \in {0, 1} /\ Bit(field, p) \in {0, 1}
                            /\ Bit(upper, p) \in {0, 1}
    BY <1>1, <1>3, InWord, BitIsBit
  <1>5. ASSUME word = field, NEW p \in WordBits PROVE Bit(upper, p) <= Bit(field, p)
    BY <1>3, <1>4, <1>5
  <1>6. ASSUME part >= 256 PROVE word = field
    <2>1. BitAnd(field, upper) \in Int /\ 0 <= BitAnd(field, upper) /\ BitAnd(field, upper) <= upper
      BY <1>1, BitAndBound, InWord
    <2> QED
      BY <1>1, <1>2, <1>6, <2>1, InWord
  <1>7. ASSUME \A p \in WordBits : Bit(upper, p) <= Bit(field, p) PROVE word = field
    <2>1. \A p \in WordBits : Bit(word, p) = Bit(field, p)
      BY <1>3, <1>4, <1>7
    <2> QED
      BY <1>1, <1>3, <2>1, SameBits
  <1> QED
    BY <1>3, <1>5, <1>6, <1>7

(* toLittleEndian16() moves every bit to its place in the other byte. *)
LEMMA SwapBits ==
  ASSUME NEW x \in Word, NEW p \in ByteBits
  PROVE  /\ Bit(SwapBytes(x), 256 * p) = Bit(x, p)
         /\ Bit(SwapBytes(x), p) = Bit(x, 256 * p)
  <1>1. /\ x \in Int /\ 0 <= x /\ x <= 65535
        /\ SwapBytes(x) \in Int /\ 0 <= SwapBytes(x) /\ SwapBytes(x) <= 65535
    BY InWord, SwapBytesInvolution
  <1>2. SwapBytes(x) % 256 = x \div 256 /\ SwapBytes(x) \div 256 = x % 256
    BY <1>1 DEF SwapBytes
  <1>3. Bit(x, p) = Bit(x % 256, p) /\ Bit(x, 256 * p) = Bit(x \div 256, p)
    BY <1>1, BitsOf16 DEF ByteBits
  <1>4. /\ Bit(SwapBytes(x), p) = Bit(SwapBytes(x) % 256, p)
        /\ Bit(SwapBytes(x), 256 * p) = Bit(SwapBytes(x) \div 256, p)
    BY <1>1, BitsOf16 DEF ByteBits
  <1> QED
    BY <1>2, <1>3, <1>4
==============================================================================
