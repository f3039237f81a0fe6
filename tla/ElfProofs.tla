------------------------------- MODULE ElfProofs -------------------------------
(***************************************************************************)
(* What c_vm_c parses and prints, for every file: wherever the file ends,  *)
(* whatever it holds and whatever the uninitialized locals held before.    *)
(* The invariant says of each step of main() what the three fread()s have  *)
(* left in the buffers and what has been parsed from them, as functions of *)
(* the file; the properties follow from it by lemmas on the byte-swapping  *)
(* functions, the field offsets and the order of the checks.               *)
(***************************************************************************)
EXTENDS Elf, WordsProofs, SequenceTheorems

(* A number of n bytes is a sequence of n bytes. *)
LEMMA NumberIsSeq ==
  ASSUME NEW n \in Nat, NEW v
  PROVE  v \in Number(n) <=> v \in Seq(Byte) /\ Len(v) = n
  <1>1. ASSUME v \in Number(n) PROVE v \in Seq(Byte) /\ Len(v) = n
    <2>1. v \in [1 .. n -> Byte]
      BY <1>1 DEF Number
    <2>2. v \in Seq(Byte)
      BY <2>1, SeqDef
    <2>3. Len(v) \in Nat /\ DOMAIN v = 1 .. Len(v) /\ DOMAIN v = 1 .. n
      BY <2>1, <2>2, LenProperties
    <2> DEFINE k == Len(v)
    <2>4. k \in Nat /\ \A i \in Int : i \in 1 .. k <=> i \in 1 .. n
      BY <2>3
    <2> HIDE DEF k
    <2>5. k = n
      <3>1. k \in 1 .. k => k \in 1 .. n
        BY <2>4
      <3>2. n \in 1 .. n => n \in 1 .. k
        BY <2>4
      <3> QED
        BY <2>4, <3>1, <3>2
    <2> QED
      BY <2>2, <2>5 DEF k
  <1>2. ASSUME v \in Seq(Byte), Len(v) = n PROVE v \in Number(n)
    BY <1>2, LenProperties DEF Number
  <1> QED
    BY <1>1, <1>2

LEMMA NumberEqual ==
  ASSUME NEW n \in Nat, NEW v \in Number(n), NEW w \in Number(n),
         \A i \in 1 .. n : v[i] = w[i]
  PROVE  v = w
  BY DEF Number

LEMMA Part ==
  ASSUME NEW n \in Nat, NEW v \in Number(n), NEW a \in 1 .. n, NEW b \in a .. n
  PROVE  /\ SubSeq(v, a, b) \in Number(b - a + 1)
         /\ \A i \in 1 .. b - a + 1 : SubSeq(v, a, b)[i] = v[a + i - 1]
  <1>1. \A i \in a .. b : v[i] \in Byte
    BY DEF Number
  <1>2. a \in Int /\ b \in Int /\ a <= b /\ b - a + 1 \in Nat
    OBVIOUS
  <1>3. /\ SubSeq(v, a, b) \in Seq(Byte)
        /\ Len(SubSeq(v, a, b)) = b - a + 1
        /\ \A i \in 1 .. b - a + 1 : SubSeq(v, a, b)[i] = v[a + i - 1]
    BY <1>1, <1>2, SubSeqProperties
  <1> QED
    BY <1>2, <1>3, NumberIsSeq

(* Concatenation, under a name of its own. *)
Join(v, w) == v \o w

LEMMA Joined ==
  ASSUME NEW m \in Nat, NEW n \in Nat, NEW v \in Number(m), NEW w \in Number(n)
  PROVE  /\ Join(v, w) \in Number(m + n)
         /\ \A i \in 1 .. m + n : /\ i <= m => Join(v, w)[i] = v[i]
                                  /\ ~(i <= m) => Join(v, w)[i] = w[i - m]
  <1>1. v \in Seq(Byte) /\ w \in Seq(Byte) /\ Len(v) = m /\ Len(w) = n
    BY NumberIsSeq
  <1>2. /\ v \o w \in Seq(Byte) /\ Len(v \o w) = m + n
        /\ \A i \in 1 .. m + n : (v \o w)[i] = IF i <= m THEN v[i] ELSE w[i - m]
    BY <1>1, ConcatProperties
  <1>3. v \o w \in Number(m + n)
    <2>1. m + n \in Nat
      OBVIOUS
    <2> QED
      BY <1>2, <2>1, NumberIsSeq
  <1> QED
    BY <1>2, <1>3 DEF Join

LEMMA Swap16 ==
  ASSUME NEW v \in Number(2)
  PROVE  swap16(v) \in Number(2) /\ swap16(v)[1] = v[2] /\ swap16(v)[2] = v[1]
  BY DEF swap16, Number

LEMMA Swap32 ==
  ASSUME NEW v \in Number(4)
  PROVE  /\ swap32(v) \in Number(4)
         /\ swap32(v)[1] = v[4] /\ swap32(v)[2] = v[3]
         /\ swap32(v)[3] = v[2] /\ swap32(v)[4] = v[1]
  <1> DEFINE h == SubSeq(v, 3, 4)  l == SubSeq(v, 1, 2)
  <1>1. /\ h \in Number(2) /\ h[1] = v[3] /\ h[2] = v[4]
        /\ l \in Number(2) /\ l[1] = v[1] /\ l[2] = v[2]
    <2>1. h \in Number(4 - 3 + 1) /\ \A i \in 1 .. 4 - 3 + 1 : h[i] = v[3 + i - 1]
      BY Part
    <2>2. l \in Number(2 - 1 + 1) /\ \A i \in 1 .. 2 - 1 + 1 : l[i] = v[1 + i - 1]
      BY Part
    <2> HIDE DEF h, l
    <2> QED
      BY <2>1, <2>2
  <1>2. swap32(v) = Join(swap16(h), swap16(l))
    BY DEF swap32, Join
  <1> HIDE DEF h, l
  <1> DEFINE x == swap16(h)  y == swap16(l)
  <1>3. /\ x \in Number(2) /\ x[1] = v[4] /\ x[2] = v[3]
        /\ y \in Number(2) /\ y[1] = v[2] /\ y[2] = v[1]
    BY <1>1, Swap16
  <1> DEFINE z == Join(x, y)
  <1>4. swap32(v) = z
    BY <1>2
  <1> HIDE DEF x, y
  <1>5. /\ z \in Number(4)
        /\ \A i \in 1 .. 4 : (i <= 2 => z[i] = x[i]) /\ (~(i <= 2) => z[i] = y[i - 2])
    <2>1. 2 \in Nat /\ 2 + 2 = 4
      OBVIOUS
    <2> QED
      BY <1>3, <2>1, Joined
  <1> HIDE DEF z
  <1> QED
    BY <1>3, <1>4, <1>5

LEMMA Swap64 ==
  ASSUME NEW v \in Number(8)
  PROVE  swap64(v) \in Number(8) /\ \A i \in 1 .. 8 : swap64(v)[i] = v[9 - i]
  <1> DEFINE h == SubSeq(v, 5, 8)  l == SubSeq(v, 1, 4)
  <1>1. /\ h \in Number(4) /\ \A i \in 1 .. 4 : h[i] = v[4 + i]
        /\ l \in Number(4) /\ \A i \in 1 .. 4 : l[i] = v[i]
    <2>1. h \in Number(8 - 5 + 1) /\ \A i \in 1 .. 8 - 5 + 1 : h[i] = v[5 + i - 1]
      BY Part
    <2>2. l \in Number(4 - 1 + 1) /\ \A i \in 1 .. 4 - 1 + 1 : l[i] = v[1 + i - 1]
      BY Part
    <2> HIDE DEF h, l
    <2> QED
      BY <2>1, <2>2
  <1>2. swap64(v) = Join(swap32(h), swap32(l))
    BY DEF swap64, Join
  <1> HIDE DEF h, l
  <1> DEFINE x == swap32(h)  y == swap32(l)
  <1>3. /\ x \in Number(4) /\ x[1] = v[8] /\ x[2] = v[7] /\ x[3] = v[6] /\ x[4] = v[5]
        /\ y \in Number(4) /\ y[1] = v[4] /\ y[2] = v[3] /\ y[3] = v[2] /\ y[4] = v[1]
    BY <1>1, Swap32
  <1> DEFINE z == Join(x, y)
  <1>4. swap64(v) = z
    BY <1>2
  <1> HIDE DEF x, y
  <1>5. /\ z \in Number(8)
        /\ \A i \in 1 .. 8 : (i <= 4 => z[i] = x[i]) /\ (~(i <= 4) => z[i] = y[i - 4])
    <2>1. 4 \in Nat /\ 4 + 4 = 8
      OBVIOUS
    <2> QED
      BY <1>3, <2>1, Joined
  <1> HIDE DEF z
  <1>6. ASSUME NEW i \in 1 .. 8 PROVE z[i] = v[9 - i]
    <2>1. CASE i <= 4
      <3>1. i = 1 \/ i = 2 \/ i = 3 \/ i = 4
        BY <2>1
      <3>2. z[i] = x[i]
        BY <1>5, <2>1
      <3> QED
        BY <1>3, <3>1, <3>2
    <2>2. CASE i > 4
      <3>1. i = 5 \/ i = 6 \/ i = 7 \/ i = 8
        BY <2>2
      <3>2. z[i] = y[i - 4]
        BY <1>5, <2>2
      <3> QED
        BY <1>3, <3>1, <3>2
    <2> QED
      BY <2>1, <2>2
  <1> QED
    BY <1>4, <1>5, <1>6

-------------------------------------------------------------------------------
(* The bytes of the file, and fields of a buffer that holds them. *)

(* The byte at an offset of the file, 0 past its end. *)
FileByte(f, i) == IF i < Len(f) THEN f[i + 1] ELSE 0

LEMMA FileByteType ==
  ASSUME file \in Seq(Byte), NEW i \in Nat PROVE FileByte(file, i) \in Byte
  <1>1. 0 \in Byte
    BY InByte
  <1>2. i < Len(file) => i + 1 \in 1 .. Len(file)
    OBVIOUS
  <1> QED
    BY <1>1, <1>2 DEF FileByte

LEMMA StoredBytes ==
  ASSUME file \in Seq(Byte), NEW o \in Nat, NEW n \in Nat
  PROVE  /\ Stored(o, n) \in Number(n)
         /\ \A i \in 1 .. n : Stored(o, n)[i] = FileByte(file, o + i - 1)
         /\ LittleEndian(o, n) \in Number(n)
         /\ \A i \in 1 .. n : LittleEndian(o, n)[i] = FileByte(file, o + n - i)
  <1>1. Len(file) \in Nat
    OBVIOUS
  <1>2. ASSUME NEW i \in 1 .. n PROVE Stored(o, n)[i] = FileByte(file, o + i - 1)
    <2>1. /\ o + i - 1 + 1 = o + i
          /\ o + i - 1 < Len(file) <=> o + i <= Len(file)
      BY <1>1
    <2> QED
      BY <2>1 DEF Stored, FileByte
  <1>3. \A i \in 1 .. n : FileByte(file, o + i - 1) \in Byte
    BY FileByteType
  <1>4. DOMAIN Stored(o, n) = 1 .. n
    BY DEF Stored
  <1>5. Stored(o, n) \in Number(n)
    <2> DEFINE s == Stored(o, n)
    <2>1. s = [i \in 1 .. n |-> s[i]]
      BY DEF Stored
    <2>2. \A i \in 1 .. n : s[i] \in Byte
      BY <1>2, <1>3
    <2> HIDE DEF s
    <2>3. s \in Number(n)
      BY <2>1, <2>2 DEF Number
    <2> QED
      BY <2>3 DEF s
  <1>6. Len(Stored(o, n)) = n
    BY <1>5, NumberIsSeq
  <1>7. LittleEndian(o, n) = [i \in 1 .. n |-> Stored(o, n)[(n - i) + 1]]
    BY <1>6 DEF LittleEndian, Reverse
  <1>8. \A i \in 1 .. n : (n - i) + 1 \in 1 .. n /\ o + ((n - i) + 1) - 1 = o + n - i
    OBVIOUS
  <1>9. \A i \in 1 .. n : Stored(o, n)[(n - i) + 1] = FileByte(file, o + n - i)
    BY <1>2, <1>8
  <1>10. \A i \in 1 .. n : Stored(o, n)[(n - i) + 1] \in Byte
    BY <1>5, <1>8 DEF Number
  <1>11. LittleEndian(o, n) \in Number(n)
    BY <1>7, <1>10 DEF Number
  <1>12. \A i \in 1 .. n : LittleEndian(o, n)[i] = FileByte(file, o + n - i)
    BY <1>7, <1>9
  <1> QED
    BY <1>2, <1>5, <1>11, <1>12

(* A buffer of size bytes that holds what is at offset base of the file. *)
Holds(p, f, base, size) == p = [i \in 0 .. size - 1 |-> FileByte(f, base + i)]

LEMMA LoopBytes ==
  ASSUME file \in Seq(Byte), NEW base \in Nat, NEW size \in Nat, NEW p, Holds(p, file, base, size),
         NEW o \in Nat, NEW n \in Nat, o + n <= size
  PROVE  Loop(p, o, n) = Stored(base + o, n)
  <1>1. \A i \in 1 .. n : o + i - 1 \in 0 .. size - 1 /\ base + (o + i - 1) = base + o + i - 1
    OBVIOUS
  <1>2. \A i \in 1 .. n : p[o + i - 1] = FileByte(file, base + o + i - 1)
    BY <1>1 DEF Holds
  <1>3. \A i \in 1 .. n : FileByte(file, base + o + i - 1) \in Byte
    BY FileByteType
  <1>4. Loop(p, o, n) \in Number(n)
    BY <1>2, <1>3 DEF Loop, Number
  <1>5. \A i \in 1 .. n : Loop(p, o, n)[i] = FileByte(file, base + o + i - 1)
    BY <1>2 DEF Loop
  <1>6. base + o \in Nat
    OBVIOUS
  <1>7. /\ Stored(base + o, n) \in Number(n)
        /\ \A i \in 1 .. n : Stored(base + o, n)[i] = FileByte(file, base + o + i - 1)
    BY <1>6, StoredBytes
  <1> QED
    BY <1>4, <1>5, <1>7, NumberEqual

LEMMA HalfField ==
  ASSUME file \in Seq(Byte), NEW base \in Nat, NEW size \in Nat, NEW p, Holds(p, file, base, size),
         NEW o \in Nat, o + 2 <= size
  PROVE  /\ swap16(Loop(p, o, 2)) = LittleEndian(base + o, 2)
         /\ swap16(Loop(p, o, 2)) \in Number(2)
  <1>0. base + o \in Nat /\ 2 \in Nat
    OBVIOUS
  <1> DEFINE v == Loop(p, o, 2)
  <1>1. /\ v \in Number(2)
        /\ \A i \in 1 .. 2 : v[i] = FileByte(file, base + o + i - 1)
    <2>1. v = Stored(base + o, 2)
      BY <1>0, LoopBytes
    <2> HIDE DEF v
    <2> QED
      BY <1>0, <2>1, StoredBytes
  <1> HIDE DEF v
  <1> DEFINE w == LittleEndian(base + o, 2)
  <1>2. w \in Number(2) /\ \A i \in 1 .. 2 : w[i] = FileByte(file, base + o + 2 - i)
    BY <1>0, StoredBytes
  <1> HIDE DEF w
  <1>3. swap16(v) \in Number(2) /\ swap16(v)[1] = v[2] /\ swap16(v)[2] = v[1]
    BY <1>1, Swap16
  <1>4. /\ base + o + 2 - 1 = base + o + 1 /\ base + o + 2 - 2 = base + o
        /\ base + o + 1 - 1 = base + o
    OBVIOUS
  <1>5. swap16(v)[1] = w[1] /\ swap16(v)[2] = w[2]
    BY <1>1, <1>2, <1>3, <1>4
  <1>6. \A i \in 1 .. 2 : i = 1 \/ i = 2
    OBVIOUS
  <1>7. swap16(v) = w
    BY <1>2, <1>3, <1>5, <1>6, NumberEqual
  <1> QED
    BY <1>3, <1>7 DEF v, w

LEMMA AddressField ==
  ASSUME file \in Seq(Byte), NEW base \in Nat, NEW size \in Nat, NEW p, Holds(p, file, base, size),
         NEW o \in Nat, o + 8 <= size
  PROVE  swap64(Loop(p, o, 8)) = LittleEndian(base + o, 8)
  <1>0. base + o \in Nat /\ 8 \in Nat
    OBVIOUS
  <1> DEFINE v == Loop(p, o, 8)
  <1>1. /\ v \in Number(8)
        /\ \A i \in 1 .. 8 : v[i] = FileByte(file, base + o + i - 1)
    <2>1. v = Stored(base + o, 8)
      BY <1>0, LoopBytes
    <2> HIDE DEF v
    <2> QED
      BY <1>0, <2>1, StoredBytes
  <1> HIDE DEF v
  <1> DEFINE w == LittleEndian(base + o, 8)
  <1>2. w \in Number(8) /\ \A i \in 1 .. 8 : w[i] = FileByte(file, base + o + 8 - i)
    BY <1>0, StoredBytes
  <1> HIDE DEF w
  <1>3. swap64(v) \in Number(8) /\ \A i \in 1 .. 8 : swap64(v)[i] = v[9 - i]
    BY <1>1, Swap64
  <1>4. ASSUME NEW i \in 1 .. 8 PROVE swap64(v)[i] = w[i]
    <2>1. 9 - i \in 1 .. 8 /\ base + o + (9 - i) - 1 = base + o + 8 - i
      OBVIOUS
    <2> QED
      BY <1>1, <1>2, <1>3, <2>1
  <1>5. swap64(v) = w
    BY <1>2, <1>3, <1>4, NumberEqual
  <1> QED
    BY <1>5 DEF v, w

(* The bytes of the ELF header. *)
ElfBytes(f) == [i \in 0 .. 63 |-> FileByte(f, i)]

LEMMA ElfBytesHeld ==
  ASSUME file \in Seq(Byte)
  PROVE  /\ Holds(ElfBytes(file), file, 0, 64)
         /\ \A i \in 0 .. 63 : ElfBytes(file)[i] = FileByte(file, i) /\ ElfBytes(file)[i] \in Byte
  <1>1. 64 - 1 = 63 /\ \A i \in 0 .. 63 : 0 + i = i
    OBVIOUS
  <1>2. Holds(ElfBytes(file), file, 0, 64)
    BY <1>1 DEF ElfBytes, Holds
  <1>3. \A i \in 0 .. 63 : i \in Nat
    OBVIOUS
  <1>4. \A i \in 0 .. 63 : FileByte(file, i) \in Byte
    BY <1>3, FileByteType
  <1>5. \A i \in 0 .. 63 : ElfBytes(file)[i] = FileByte(file, i)
    BY DEF ElfBytes
  <1> QED
    BY <1>2, <1>4, <1>5

LEMMA ElfFieldsValue ==
  ASSUME file \in Seq(Byte), NEW e, e = ElfFields(ElfBytes(file))
  PROVE  /\ e.bit_depth = IF FileByte(file, 4) = 1 THEN 32 ELSE 64
         /\ e.isLittleEndian = (FileByte(file, 5) = 1)
         /\ e.abiOs = FileByte(file, 7)
         /\ e.type = LittleEndian(16, 2) /\ e.isa = LittleEndian(18, 2)
         /\ e.type \in Number(2) /\ e.isa \in Number(2)
         /\ e.flags \in Number(4)
         /\ e.bit_depth = 64 =>
              /\ e.entryPointOffset = LittleEndian(24, 8)
              /\ e.programHeaderOffset = LittleEndian(32, 8)
              /\ e.sectionHeaderOffset = LittleEndian(40, 8)
              /\ e.flags = Stored(48, 4)
         /\ LET sizes == IF e.bit_depth = 64 THEN 52 ELSE 40
            IN /\ e.elfHeaderSize = LittleEndian(sizes, 2)
               /\ e.programHeaderSize = LittleEndian(sizes + 2, 2)
               /\ e.programHeaderEntriesNum = LittleEndian(sizes + 4, 2)
               /\ e.sectionHeaderSize = LittleEndian(sizes + 6, 2)
               /\ e.sectionHeaderEntriesNum = LittleEndian(sizes + 8, 2)
               /\ e.sectionHeaderIndex = LittleEndian(sizes + 10, 2)
               /\ e.sectionHeaderIndex \in Number(2)
  <1> DEFINE p == ElfBytes(file)  depth == IF p[4] = 1 THEN 32 ELSE 64
             k == IF depth = 64 THEN 2 ELSE 1
  <1>1. /\ Holds(p, file, 0, 64)
        /\ p[4] = FileByte(file, 4) /\ p[5] = FileByte(file, 5) /\ p[7] = FileByte(file, 7)
    BY ElfBytesHeld
  <1>2. /\ e.bit_depth = depth /\ e.isLittleEndian = (p[5] = 1) /\ e.abiOs = p[7]
    BY DEF ElfFields
  <1>3. /\ e.type = swap16(Loop(p, E_OFFSET["type"][k], 2))
        /\ e.isa = swap16(Loop(p, E_OFFSET["isa"][k], 2))
        /\ e.flags = Loop(p, E_OFFSET["flags"][k], 4)
    BY DEF ElfFields
  <1>4. depth = 64 =>
         /\ e.entryPointOffset = swap64(Loop(p, E_OFFSET["entryPointOffset"][2], 8))
         /\ e.programHeaderOffset = swap64(Loop(p, E_OFFSET["programHeaderOffset"][2], 8))
         /\ e.sectionHeaderOffset = swap64(Loop(p, E_OFFSET["sectionHeaderOffset"][2], 8))
    BY DEF ElfFields, storeData
  <1>5. /\ e.elfHeaderSize = swap16(Loop(p, E_OFFSET["elfHeaderSize"][k], 2))
        /\ e.programHeaderSize = swap16(Loop(p, E_OFFSET["programHeaderSize"][k], 2))
        /\ e.programHeaderEntriesNum
             = swap16(Loop(p, E_OFFSET["programHeaderEntriesNum"][k], 2))
        /\ e.sectionHeaderSize = swap16(Loop(p, E_OFFSET["sectionHeaderSize"][k], 2))
        /\ e.sectionHeaderEntriesNum
             = swap16(Loop(p, E_OFFSET["sectionHeaderEntriesNum"][k], 2))
        /\ e.sectionHeaderIndex = swap16(Loop(p, E_OFFSET["sectionHeaderIndex"][k], 2))
    BY DEF ElfFields
  <1>6. (depth = 64 /\ k = 2) \/ (depth = 32 /\ k = 1)
    OBVIOUS
  <1> HIDE DEF p, k, depth
  <1> DEFINE s == IF depth = 64 THEN 52 ELSE 40
  <1>7. /\ E_OFFSET["type"][k] = 16 /\ E_OFFSET["isa"][k] = 18
        /\ E_OFFSET["flags"][k] = IF depth = 64 THEN 48 ELSE 36
        /\ E_OFFSET["entryPointOffset"][2] = 24
        /\ E_OFFSET["programHeaderOffset"][2] = 32
        /\ E_OFFSET["sectionHeaderOffset"][2] = 40
    BY <1>6 DEF E_OFFSET
  <1>8. /\ E_OFFSET["elfHeaderSize"][k] = s
        /\ E_OFFSET["programHeaderSize"][k] = s + 2
        /\ E_OFFSET["programHeaderEntriesNum"][k] = s + 4
        /\ E_OFFSET["sectionHeaderSize"][k] = s + 6
        /\ E_OFFSET["sectionHeaderEntriesNum"][k] = s + 8
        /\ E_OFFSET["sectionHeaderIndex"][k] = s + 10
    BY <1>6 DEF E_OFFSET
  <1>9. \A o \in Nat : o + 2 <= 64 =>
          /\ swap16(Loop(p, o, 2)) = LittleEndian(o, 2)
          /\ swap16(Loop(p, o, 2)) \in Number(2)
    <2>1. \A o \in Nat : 0 + o = o
      OBVIOUS
    <2>2. 0 \in Nat /\ 64 \in Nat
      OBVIOUS
    <2> QED
      BY <1>1, <2>1, <2>2, HalfField
  <1>10. \A o \in Nat : o + 8 <= 64 => swap64(Loop(p, o, 8)) = LittleEndian(o, 8)
    <2>1. \A o \in Nat : 0 + o = o
      OBVIOUS
    <2>2. 0 \in Nat /\ 64 \in Nat
      OBVIOUS
    <2> QED
      BY <1>1, <2>1, <2>2, AddressField
  <1>11. \A o \in Nat : o + 4 <= 64 =>
           Loop(p, o, 4) = Stored(o, 4) /\ Loop(p, o, 4) \in Number(4)
    <2>1. \A o \in Nat : 0 + o = o
      OBVIOUS
    <2>2. 0 \in Nat /\ 64 \in Nat /\ 4 \in Nat
      OBVIOUS
    <2>3. \A o \in Nat : o + 4 <= 64 => Loop(p, o, 4) = Stored(o, 4)
      BY <1>1, <2>1, <2>2, LoopBytes
    <2>4. \A o \in Nat : Stored(o, 4) \in Number(4)
      BY <2>2, StoredBytes
    <2> QED
      BY <2>3, <2>4
  <1>12. /\ e.type = LittleEndian(16, 2) /\ e.isa = LittleEndian(18, 2)
         /\ e.type \in Number(2) /\ e.isa \in Number(2)
    BY <1>3, <1>7, <1>9
  <1>13. e.flags \in Number(4) /\ (depth = 64 => e.flags = Stored(48, 4))
    BY <1>3, <1>7, <1>11
  <1>14. depth = 64 => /\ e.entryPointOffset = LittleEndian(24, 8)
                       /\ e.programHeaderOffset = LittleEndian(32, 8)
                       /\ e.sectionHeaderOffset = LittleEndian(40, 8)
    BY <1>4, <1>7, <1>10
  <1>15. s \in Nat /\ s + 12 <= 64
    OBVIOUS
  <1> HIDE DEF s
  <1>16. /\ e.elfHeaderSize = LittleEndian(s, 2)
         /\ e.programHeaderSize = LittleEndian(s + 2, 2)
         /\ e.programHeaderEntriesNum = LittleEndian(s + 4, 2)
         /\ e.sectionHeaderSize = LittleEndian(s + 6, 2)
         /\ e.sectionHeaderEntriesNum = LittleEndian(s + 8, 2)
         /\ e.sectionHeaderIndex = LittleEndian(s + 10, 2)
         /\ e.sectionHeaderIndex \in Number(2)
    BY <1>5, <1>8, <1>9, <1>15
  <1>17. e.bit_depth = IF FileByte(file, 4) = 1 THEN 32 ELSE 64
    BY <1>1, <1>2 DEF depth
  <1>18. s = IF e.bit_depth = 64 THEN 52 ELSE 40
    BY <1>2 DEF s
  <1> HIDE DEF s
  <1> QED
    BY <1>1, <1>2, <1>12, <1>13, <1>14, <1>16, <1>17, <1>18

(* The addresses of a 32-bit file are numbers all the same. *)
LEMMA AddressesAreNumbers ==
  ASSUME file \in Seq(Byte), NEW e, e = ElfFields(ElfBytes(file))
  PROVE  {e.entryPointOffset, e.programHeaderOffset, e.sectionHeaderOffset} \subseteq Number(8)
  <1> DEFINE p == ElfBytes(file)  depth == IF p[4] = 1 THEN 32 ELSE 64
             zero == <<0, 0, 0, 0, 0, 0, 0, 0>>
  <1>1. Holds(p, file, 0, 64)
    BY ElfBytesHeld
  <1>2. /\ e.entryPointOffset = swap64(storeData(p, zero, E_OFFSET["entryPointOffset"][1],
                                         E_OFFSET["entryPointOffset"][2], depth))
        /\ e.programHeaderOffset
             = swap64(storeData(p, zero, E_OFFSET["programHeaderOffset"][1],
                                         E_OFFSET["programHeaderOffset"][2], depth))
        /\ e.sectionHeaderOffset
             = swap64(storeData(p, zero, E_OFFSET["sectionHeaderOffset"][1],
                                         E_OFFSET["sectionHeaderOffset"][2], depth))
    BY DEF ElfFields
  <1>3. zero \in Number(8)
    <2>1. 0 \in Byte
      BY InByte
    <2>2. zero \in Seq(Byte) /\ Len(zero) = 8
      BY <2>1
    <2> HIDE DEF zero
    <2>3. 8 \in Nat
      OBVIOUS
    <2> QED
      BY <2>2, <2>3, NumberIsSeq
  <1> HIDE DEF p, depth, zero
  <1>4. \A o32 \in 0 .. 60, o64 \in 0 .. 56 :
          swap64(storeData(p, zero, o32, o64, depth)) \in Number(8)
    <2> SUFFICES ASSUME NEW o32 \in 0 .. 60, NEW o64 \in 0 .. 56
                 PROVE  swap64(storeData(p, zero, o32, o64, depth)) \in Number(8)
      OBVIOUS
    <2>1. /\ o32 \in Nat /\ o32 + 4 <= 64 /\ o64 \in Nat /\ o64 + 8 <= 64
          /\ 0 \in Nat /\ 4 \in Nat /\ 8 \in Nat /\ 64 \in Nat
          /\ 1 \in 1 .. 8 /\ 4 \in 1 .. 8 /\ 4 - 1 + 1 = 4 /\ 8 = 4 + 4
      OBVIOUS
    <2>2. Loop(p, o32, 4) \in Number(4) /\ Loop(p, o64, 8) \in Number(8)
      <3>1. 0 + o32 = o32 /\ 0 + o64 = o64
        OBVIOUS
      <3>2. Loop(p, o32, 4) = Stored(0 + o32, 4) /\ Loop(p, o64, 8) = Stored(0 + o64, 8)
        BY <1>1, <2>1, LoopBytes
      <3> QED
        BY <2>1, <3>1, <3>2, StoredBytes
    <2>3. SubSeq(zero, 1, 4) \in Number(4)
      BY <1>3, <2>1, Part
    <2>4. Join(SubSeq(zero, 1, 4), Loop(p, o32, 4)) \in Number(8)
      BY <2>1, <2>2, <2>3, Joined
    <2>5. storeData(p, zero, o32, o64, depth) \in Number(8)
      BY <2>2, <2>4 DEF storeData, Join
    <2> QED
      BY <2>5, Swap64
  <1>5. /\ E_OFFSET["entryPointOffset"][1] = 24 /\ E_OFFSET["entryPointOffset"][2] = 24
        /\ E_OFFSET["programHeaderOffset"][1] = 28 /\ E_OFFSET["programHeaderOffset"][2] = 32
        /\ E_OFFSET["sectionHeaderOffset"][1] = 32 /\ E_OFFSET["sectionHeaderOffset"][2] = 40
    BY DEF E_OFFSET
  <1> QED
    BY <1>2, <1>4, <1>5

-------------------------------------------------------------------------------
(* The checks of parseElfHeader(). *)

LEMMA MinIs ==
  ASSUME NEW S, NEW m \in S, S \subseteq Int, \A y \in S : m <= y
  PROVE  Min(S) = m
  <1>1. m \in S /\ \A y \in S : m =< y
    OBVIOUS
  <1>2. Min(S) \in S /\ \A y \in S : Min(S) =< y
    BY <1>1, Zenon DEF Min
  <1>3. m \in Int /\ Min(S) \in Int /\ m <= Min(S) /\ Min(S) <= m
    BY <1>1, <1>2
  <1> QED
    BY <1>3

(* The first check that fails decides the message. *)
LEMMA FirstFailureIs ==
  ASSUME NEW p
  PROVE  LET magic == MagicAccepted(p)  depth == p[4] \in {1, 2}  order == p[5] \in {1, 2}
             abi == p[7] <= 18  pad == \A i \in 9 .. 15 : p[i] = 0
         IN /\ ~magic => FirstFailure(p) = "Incorrect magic number"
            /\ magic /\ ~depth => FirstFailure(p) = "Could not determine bit depth"
            /\ magic /\ depth /\ ~order => FirstFailure(p) = "Could not determine endianness"
            /\ magic /\ depth /\ order /\ ~abi => FirstFailure(p) = "Unknown abi os"
            /\ magic /\ depth /\ order /\ abi /\ ~pad =>
                 FirstFailure(p) = "EI_PAD should be zero"
            /\ magic /\ depth /\ order /\ abi /\ pad => FirstFailure(p) = "none"
  <1> DEFINE magic == MagicAccepted(p)  depth == p[4] \in {1, 2}  order == p[5] \in {1, 2}
             abi == p[7] <= 18  pad == \A i \in 9 .. 15 : p[i] = 0
             F == {i \in DOMAIN Checks(p) : ~Checks(p)[i][1]}
  <1>1. DOMAIN Checks(p) = 1 .. 5
    BY DEF Checks
  <1>2. /\ Checks(p)[1][1] = magic /\ Checks(p)[2][1] = depth /\ Checks(p)[3][1] = order
        /\ Checks(p)[4][1] = abi /\ Checks(p)[5][1] = pad
    BY DEF Checks
  <1>3. /\ Checks(p)[1][2] = "Incorrect magic number"
        /\ Checks(p)[2][2] = "Could not determine bit depth"
        /\ Checks(p)[3][2] = "Could not determine endianness"
        /\ Checks(p)[4][2] = "Unknown abi os"
        /\ Checks(p)[5][2] = "EI_PAD should be zero"
    BY DEF Checks
  <1>4. /\ F \subseteq 1 .. 5 /\ F \subseteq Int
        /\ (1 \in F <=> ~magic) /\ (2 \in F <=> ~depth) /\ (3 \in F <=> ~order)
        /\ (4 \in F <=> ~abi) /\ (5 \in F <=> ~pad)
    <2>1. F \subseteq 1 .. 5 /\ F \subseteq Int
      BY <1>1
    <2>2. 1 \in 1 .. 5 /\ 2 \in 1 .. 5 /\ 3 \in 1 .. 5 /\ 4 \in 1 .. 5 /\ 5 \in 1 .. 5
      OBVIOUS
    <2>3. (1 \in F <=> ~magic) /\ (2 \in F <=> ~depth) /\ (3 \in F <=> ~order)
      BY <1>1, <1>2, <2>2, Zenon
    <2>4. (4 \in F <=> ~abi) /\ (5 \in F <=> ~pad)
      BY <1>1, <1>2, <2>2, Zenon
    <2> QED
      BY <2>1, <2>3, <2>4
  <1>5. FirstFailure(p) = IF F = {} THEN "none" ELSE Checks(p)[Min(F)][2]
    BY DEF FirstFailure
  <1> HIDE DEF F, magic, depth, order, abi, pad
  <1>6. \A i \in F : i \in {1, 2, 3, 4, 5}
    BY <1>4
  <1>7. ~magic => Min(F) = 1
    <2>1. \A y \in F : 1 <= y
      BY <1>6
    <2> QED
      BY <1>4, <2>1, MinIs
  <1>8. magic /\ ~depth => Min(F) = 2
    <2>1. magic => \A y \in F : 2 <= y
      BY <1>4, <1>6
    <2> QED
      BY <1>4, <2>1, MinIs
  <1>9. magic /\ depth /\ ~order => Min(F) = 3
    <2>1. magic /\ depth => \A y \in F : 3 <= y
      BY <1>4, <1>6
    <2> QED
      BY <1>4, <2>1, MinIs
  <1>10. magic /\ depth /\ order /\ ~abi => Min(F) = 4
    <2>1. magic /\ depth /\ order => \A y \in F : 4 <= y
      BY <1>4, <1>6
    <2> QED
      BY <1>4, <2>1, MinIs
  <1>11. magic /\ depth /\ order /\ abi /\ ~pad => Min(F) = 5
    <2>1. magic /\ depth /\ order /\ abi => \A y \in F : 5 <= y
      BY <1>4, <1>6
    <2> QED
      BY <1>4, <2>1, MinIs
  <1>12. magic /\ depth /\ order /\ abi /\ pad => F = {}
    BY <1>4, <1>6
  <1>13. /\ ~magic => FirstFailure(p) = "Incorrect magic number"
         /\ magic /\ ~depth => FirstFailure(p) = "Could not determine bit depth"
         /\ magic /\ depth /\ ~order => FirstFailure(p) = "Could not determine endianness"
         /\ magic /\ depth /\ order /\ ~abi => FirstFailure(p) = "Unknown abi os"
         /\ magic /\ depth /\ order /\ abi /\ ~pad =>
              FirstFailure(p) = "EI_PAD should be zero"
         /\ magic /\ depth /\ order /\ abi /\ pad => FirstFailure(p) = "none"
    BY <1>3, <1>4, <1>5, <1>7, <1>8, <1>9, <1>10, <1>11, <1>12
  <1> QED
    BY <1>13 DEF magic, depth, order, abi, pad

-------------------------------------------------------------------------------
(* The inductive invariant. *)

(* How far main() is. *)
Open == {"read elf", "read program", "read section"}
Parsing == {"parse elf", "parse program", "parse section"}
Printing == {"print elf", "print program", "print section", "free"}

Lesser(m, n) == IF m < n THEN m ELSE n

(* What is read is the file, from where the last fread() left it. *)
Reading ==
  /\ file \in Files \cup {NoFile}
  /\ step \in Open \cup Parsing \cup Printing => file \in Files
  /\ file # NoFile => position \in 0 .. Len(file)
  /\ step \in {"calloc", "fopen", "read elf"} => position = 0
  /\ step = "read program" => position = Lesser(64, Len(file))
  /\ step = "read section" =>
       64 < Len(file) /\ position = Lesser(120, Len(file))
  /\ step \in Parsing \cup Printing => 120 < Len(file)

(* The buffers hold zeros or their part of the file. *)
Gone == elf_ptr = << >> /\ ph_ptr = << >> /\ sh_ptr = << >>
Typed ==
  /\ elf_ptr \in [0 .. 63 -> Byte]
  /\ ph_ptr \in [0 .. 55 -> Byte]
  /\ sh_ptr \in [0 .. 63 -> Byte]
Buffers ==
  /\ Gone \/ Typed
  /\ step \notin {"calloc", "ended"} => Typed
  /\ step \in {"fopen", "read elf"} => elf_ptr = Zeros(64)
  /\ step \in {"fopen", "read elf", "read program"} => ph_ptr = Zeros(56)
  /\ step \in {"fopen"} \cup Open => sh_ptr = Zeros(64)
  /\ step \in {"read program", "read section"} \cup Parsing \cup Printing =>
       Holds(elf_ptr, file, 0, 64)
  /\ step \in {"read section"} \cup Parsing \cup Printing => Holds(ph_ptr, file, 64, 56)
  /\ step \in Parsing \cup Printing => Holds(sh_ptr, file, 120, 64)

(* The headers are parsed from the file, if at all. *)
SegmentBytes(f) == [i \in 0 .. 55 |-> FileByte(f, 64 + i)]
ProgramHeader(p, type, flags) ==
  [ph_type         |-> swap32(LoopOver(type, p, P_OFFSET["type"])),
   ph_flags        |-> swap32(LoopOver(flags, p, P_OFFSET["flags"])),
   ph_segmentFlags |-> <<0, 0, 0, 0>>,
   ph_fileImageSegmentOffset64 |-> swap64(Loop(p, P_OFFSET["fileImage"], 8)),
   ph_segmentVAddr64           |-> swap64(Loop(p, P_OFFSET["virtualAddress"], 8)),
   ph_segmentPhysAddr64        |-> swap64(Loop(p, P_OFFSET["physAddress"], 8)),
   ph_segmentSizeInFileImage64 |-> swap64(Loop(p, P_OFFSET["fileSize"], 8)),
   ph_segmentSizeInMemory64    |-> swap64(Loop(p, P_OFFSET["memorySize"], 8)),
   ph_align64                  |-> swap64(Loop(p, P_OFFSET["align"], 8))]
ElfParsed ==
  /\ file \in Files /\ 120 < Len(file)
  /\ elf_info = ElfFields(ElfBytes(file))
  /\ FirstFailure(ElfBytes(file)) = "none"
SegmentParsed ==
  \E type, flags \in Garbage :
    programHeader = ProgramHeader(SegmentBytes(file), type, flags)
Headers ==
  /\ elf_info = << >> \/ ElfParsed
  /\ programHeader = << >> \/ (ElfParsed /\ SegmentParsed)
  /\ step \in {"parse program", "parse section"} \cup Printing => ElfParsed
  /\ step \in {"parse section"} \cup Printing => SegmentParsed

(* A message is that of the first check that fails. *)
Messages ==
  \/ status \in {"none", "Wrong path", "elf header", "program header", "section header"}
  \/ file \in Files /\ 120 < Len(file) /\ status = FirstFailure(ElfBytes(file))

(* The headers are printed in order, once each. *)
PrintedElf(e) ==
  [e EXCEPT !.abiOs = stringifyAbiOs(@), !.type = stringifyElfType(@),
            !.isa = stringifyIsa(@)]
PrintedSegment(h) == [h EXCEPT !.ph_type = stringifyProgramHeaderType(@)]
Prints ==
  /\ step \notin Printing \cup {"ended"} => printed = << >>
  /\ step = "print elf" => printed = << >>
  /\ step = "print program" => printed = <<PrintedElf(elf_info)>>
  /\ step = "print section" => printed = <<PrintedElf(elf_info), PrintedSegment(programHeader)>>
  /\ step = "free" =>
       printed = <<PrintedElf(elf_info), PrintedSegment(programHeader), sectionHeader>>
  /\ step = "ended" =>
       \/ printed = << >>
       \/ /\ printed = <<PrintedElf(elf_info), PrintedSegment(programHeader), sectionHeader>>
          /\ ElfParsed /\ SegmentParsed

Inv == step \in Steps /\ Reading /\ Buffers /\ Headers /\ Messages /\ Prints

LEMMA InitInv == Init => Inv
  <1> SUFFICES ASSUME Init PROVE Inv
    OBVIOUS
  <1>1. file # NoFile => file \in Seq(Byte)
    BY ElfAssumption DEF Init
  <1>2. file # NoFile => Len(file) \in Nat
    BY <1>1
  <1> QED
    BY <1>2 DEF Init, Inv, Steps, Open, Parsing, Printing, Reading, Buffers, Gone, Headers,
                Messages, Prints

(* calloc() *)
LEMMA MemoryBankStep == ASSUME Inv, initMemoryBank PROVE Inv'
  <1>1. 0 \in Byte /\ 64 - 1 = 63 /\ 56 - 1 = 55
    BY InByte
  <1>2. Zeros(64) \in [0 .. 63 -> Byte] /\ Zeros(56) \in [0 .. 55 -> Byte]
    BY <1>1 DEF Zeros
  <1>3. /\ elf_ptr' = Zeros(64) /\ ph_ptr' = Zeros(56) /\ sh_ptr' = Zeros(64)
        /\ step' = "fopen" /\ step = "calloc"
        /\ file' = file /\ position' = position /\ printed' = printed /\ status' = status
        /\ elf_info' = elf_info /\ programHeader' = programHeader
    BY DEF initMemoryBank, ELF_HEADER_MAX_SIZE, PROGRAM_HEADER_MAX_SIZE,
           SECTION_HEADER_MAX_SIZE, headers
  <1>4. Reading'
    BY <1>3 DEF Inv, Reading, Open, Parsing, Printing
  <1>5. Buffers'
    BY <1>2, <1>3 DEF Buffers, Typed, Open, Parsing, Printing
  <1>6. Headers'
    BY <1>3 DEF Inv, Headers, ElfParsed, SegmentParsed, Printing
  <1>7. Messages' /\ Prints'
    BY <1>3 DEF Inv, Messages, Prints, Printing
  <1> QED
    BY <1>3, <1>4, <1>5, <1>6, <1>7 DEF Inv, Steps

(* A step that only goes on, or gives up, with the same file and buffers. *)
LEMMA OpenStep == ASSUME Inv, OpenFile PROVE Inv'
  <1>1. /\ file' = file /\ position' = position /\ printed' = printed
        /\ elf_ptr' = elf_ptr /\ ph_ptr' = ph_ptr /\ sh_ptr' = sh_ptr
        /\ elf_info' = elf_info /\ programHeader' = programHeader
        /\ step = "fopen"
        /\ \/ file = NoFile /\ step' = "ended" /\ status' = "Wrong path"
           \/ file # NoFile /\ step' = "read elf" /\ status' = status
    BY DEF OpenFile, Fail, Proceed, headers, buffers
  <1>2. Reading'
    BY <1>1 DEF Inv, Reading, Open, Parsing, Printing
  <1>3. Buffers'
    BY <1>1 DEF Inv, Buffers, Typed, Gone, Open, Parsing, Printing
  <1>4. Headers'
    BY <1>1 DEF Inv, Headers, ElfParsed, SegmentParsed, Printing
  <1>5. Messages' /\ Prints'
    BY <1>1 DEF Inv, Messages, Prints, Printing
  <1> QED
    BY <1>1, <1>2, <1>3, <1>4, <1>5 DEF Inv, Steps

(* One fread() of up to size bytes, from base on. *)
LEMMA ReadCount ==
  ASSUME file \in Seq(Byte), NEW base \in Nat, NEW size \in Nat,
         position = Lesser(base, Len(file))
  PROVE  /\ Available \in Nat /\ (Available = 0 <=> Len(file) <= base)
         /\ \A i \in Nat : (i < Available <=> base + i < Len(file))
                           /\ (i < Available => position = base)
         /\ position + Lesser(size, Available) = Lesser(base + size, Len(file))
  <1> DEFINE total == base + size
  <1>0. total \in Nat /\ total = base + size
    OBVIOUS
  <1> HIDE DEF total
  <1>1. PICK n \in Nat : n = Len(file)
    OBVIOUS
  <1>2. PICK a : a = Available
    OBVIOUS
  <1>3. a = n - position /\ position = Lesser(base, n)
    BY <1>1, <1>2 DEF Available
  <1>4. a = n - position /\ position = IF base < n THEN base ELSE n
    BY <1>3, Zenon DEF Lesser
  <1>5. /\ a \in Nat /\ (a = 0 <=> n <= base)
        /\ \A i \in Nat : (i < a <=> base + i < n) /\ (i < a => position = base)
        /\ position + Lesser(size, a) = Lesser(total, n)
    <2>1. CASE base < n
      <3>1. position = base /\ a = n - base
        BY <1>4, <2>1
      <3>2. CASE size < a
        <4>1. total < n
          BY <1>0, <3>1, <3>2
        <4> QED
          BY <1>0, <2>1, <3>1, <3>2, <4>1 DEF Lesser
      <3>3. CASE ~(size < a)
        <4>1. ~(total < n)
          BY <1>0, <3>1, <3>3
        <4> QED
          BY <1>0, <2>1, <3>1, <3>3, <4>1 DEF Lesser
      <3> QED
        BY <3>2, <3>3
    <2>2. CASE ~(base < n)
      <3>1. position = n /\ a = 0
        BY <1>4, <2>2
      <3>2. total >= n /\ Lesser(size, a) = 0 /\ Lesser(total, n) = n
        BY <1>0, <2>2, <3>1 DEF Lesser
      <3> QED
        BY <1>0, <2>2, <3>1, <3>2
    <2> QED
      BY <2>1, <2>2
  <1> QED
    BY <1>0, <1>1, <1>2, <1>5

LEMMA Filled ==
  ASSUME file \in Seq(Byte), NEW base \in Nat, NEW size \in Nat, NEW last, last = size - 1,
         NEW buffer, buffer = Zeros(size), position = Lesser(base, Len(file))
  PROVE  /\ Holds(FilledFrom(buffer), file, base, size)
         /\ FilledFrom(buffer) \in [0 .. last -> Byte]
  <1>1. \A i \in Nat : (i < Available <=> base + i < Len(file))
                        /\ (i < Available => position = base)
    BY ReadCount
  <1>2. DOMAIN buffer = 0 .. size - 1 /\ \A i \in 0 .. size - 1 : buffer[i] = 0
    BY DEF Zeros
  <1>3. ASSUME NEW i \in 0 .. size - 1
        PROVE  FilledFrom(buffer)[i] = FileByte(file, base + i)
    <2>1. FilledFrom(buffer)[i] = IF i < Available THEN file[position + i + 1] ELSE 0
      BY <1>2 DEF FilledFrom
    <2>2. i \in Nat
      OBVIOUS
    <2>3. (i < Available <=> base + i < Len(file)) /\ (i < Available => position = base)
      BY <1>1, <2>2
    <2> QED
      BY <2>1, <2>2, <2>3 DEF FileByte
  <1>4. FilledFrom(buffer) = [i \in 0 .. size - 1 |-> FilledFrom(buffer)[i]]
    BY <1>2 DEF FilledFrom
  <1>5. Holds(FilledFrom(buffer), file, base, size)
    <2> DEFINE q == FilledFrom(buffer)
    <2>1. /\ q = [i \in 0 .. size - 1 |-> q[i]]
          /\ \A i \in 0 .. size - 1 : q[i] = FileByte(file, base + i)
      BY <1>3, <1>4
    <2> HIDE DEF q
    <2>2. Holds(q, file, base, size)
      BY <2>1 DEF Holds
    <2> QED
      BY <2>2 DEF q
  <1>6. FilledFrom(buffer) \in [0 .. last -> Byte]
    <2>1. \A i \in 0 .. size - 1 : base + i \in Nat
      OBVIOUS
    <2>2. \A i \in 0 .. size - 1 : FileByte(file, base + i) \in Byte
      BY <2>1, FileByteType
    <2> QED
      BY <1>5, <2>2 DEF Holds
  <1> QED
    BY <1>5, <1>6

LEMMA ReadElfStep == ASSUME Inv, ReadElfHeader PROVE Inv'
  <1>0. /\ file \in Files /\ step = "read elf" /\ elf_ptr = Zeros(64)
        /\ position = 0
    BY DEF Inv, Reading, Buffers, Open, ReadElfHeader
  <1>1. /\ file \in Seq(Byte) /\ Len(file) \in Nat /\ file # NoFile
        /\ position = Lesser(0, Len(file))
    <2>1. file \in Seq(Byte) /\ file # NoFile
      BY <1>0, ElfAssumption
    <2>2. Len(file) \in Nat
      BY <2>1
    <2>3. \A n \in Nat : 0 = Lesser(0, n)
      BY DEF Lesser
    <2> QED
      BY <1>0, <2>1, <2>2, <2>3, Zenon
  <1>2. 0 \in Nat /\ 64 \in Nat /\ 63 = 64 - 1 /\ 64 = 0 + 64
    OBVIOUS
  <1>3. /\ Holds(FilledFrom(elf_ptr), file, 0, 64)
        /\ FilledFrom(elf_ptr) \in [0 .. 63 -> Byte]
        /\ (Available = 0 <=> Len(file) <= 0)
        /\ position + Lesser(64, Available) = Lesser(64, Len(file))
    <2>1. /\ (Available = 0 <=> Len(file) <= 0)
          /\ position + Lesser(64, Available) = Lesser(0 + 64, Len(file))
      BY <1>0, <1>1, <1>2, ReadCount
    <2>2. /\ Holds(FilledFrom(elf_ptr), file, 0, 64)
          /\ FilledFrom(elf_ptr) \in [0 .. 63 -> Byte]
      BY <1>0, <1>1, <1>2, Filled
    <2> QED
      BY <1>2, <2>1, <2>2
  <1>4. /\ elf_ptr' = FilledFrom(elf_ptr) /\ ph_ptr' = ph_ptr /\ sh_ptr' = sh_ptr
        /\ position' = position + Lesser(64, Available)
        /\ file' = file /\ printed' = printed
        /\ elf_info' = elf_info /\ programHeader' = programHeader
        /\ \/ step' = "ended" /\ status' = "elf header"
           \/ Available # 0 /\ step' = "read program" /\ status' = status
    BY DEF ReadElfHeader, Advance, Lesser, Fail, Proceed, headers, ELF_HEADER_MAX_SIZE
  <1>5. position' = Lesser(64, Len(file)) /\ position' \in 0 .. Len(file)
    <2>1. \A n \in Nat : Lesser(64, n) \in 0 .. n
      BY DEF Lesser
    <2> QED
      BY <1>1, <1>3, <1>4, <2>1, Zenon
  <1>6. 0 < Len(file) \/ step' = "ended"
    <2>1. \A n \in Nat : ~(n <= 0) => 0 < n
      OBVIOUS
    <2> QED
      BY <1>1, <1>3, <1>4, <2>1, Zenon
  <1>7. Reading'
    BY <1>0, <1>1, <1>4, <1>5, <1>6 DEF Reading, Open, Parsing, Printing
  <1>8. Buffers'
    BY <1>0, <1>3, <1>4 DEF Inv, Buffers, Typed, Open, Parsing, Printing
  <1>9. Headers'
    BY <1>0, <1>4 DEF Inv, Headers, ElfParsed, SegmentParsed, Printing
  <1>10. Messages' /\ Prints'
    BY <1>0, <1>4 DEF Inv, Messages, Prints, Printing
  <1> QED
    BY <1>4, <1>7, <1>8, <1>9, <1>10 DEF Inv, Steps

LEMMA ReadProgramStep == ASSUME Inv, ReadProgramHeader PROVE Inv'
  <1>0. /\ file \in Files /\ step = "read program" /\ ph_ptr = Zeros(56)
        /\ position = Lesser(64, Len(file))
    BY DEF Inv, Reading, Buffers, Open, ReadProgramHeader
  <1>1. /\ file \in Seq(Byte) /\ Len(file) \in Nat /\ file # NoFile
        /\ position = Lesser(64, Len(file))
    <2>1. file \in Seq(Byte) /\ file # NoFile
      BY <1>0, ElfAssumption
    <2>2. Len(file) \in Nat
      BY <2>1
    <2> QED
      BY <1>0, <2>1, <2>2
  <1>2. 64 \in Nat /\ 56 \in Nat /\ 55 = 56 - 1 /\ 120 = 64 + 56
    OBVIOUS
  <1>3. /\ Holds(FilledFrom(ph_ptr), file, 64, 56)
        /\ FilledFrom(ph_ptr) \in [0 .. 55 -> Byte]
        /\ (Available = 0 <=> Len(file) <= 64)
        /\ position + Lesser(56, Available) = Lesser(120, Len(file))
    <2>1. /\ (Available = 0 <=> Len(file) <= 64)
          /\ position + Lesser(56, Available) = Lesser(64 + 56, Len(file))
      BY <1>0, <1>1, <1>2, ReadCount
    <2>2. /\ Holds(FilledFrom(ph_ptr), file, 64, 56)
          /\ FilledFrom(ph_ptr) \in [0 .. 55 -> Byte]
      BY <1>0, <1>1, <1>2, Filled
    <2> QED
      BY <1>2, <2>1, <2>2
  <1>4. /\ ph_ptr' = FilledFrom(ph_ptr) /\ elf_ptr' = elf_ptr /\ sh_ptr' = sh_ptr
        /\ position' = position + Lesser(56, Available)
        /\ file' = file /\ printed' = printed
        /\ elf_info' = elf_info /\ programHeader' = programHeader
        /\ \/ step' = "ended" /\ status' = "program header"
           \/ Available # 0 /\ step' = "read section" /\ status' = status
    BY DEF ReadProgramHeader, Advance, Lesser, Fail, Proceed, headers, PROGRAM_HEADER_MAX_SIZE
  <1>5. position' = Lesser(120, Len(file)) /\ position' \in 0 .. Len(file)
    <2>1. \A n \in Nat : Lesser(120, n) \in 0 .. n
      BY DEF Lesser
    <2> QED
      BY <1>1, <1>3, <1>4, <2>1, Zenon
  <1>6. 64 < Len(file) \/ step' = "ended"
    <2>1. \A n \in Nat : ~(n <= 64) => 64 < n
      OBVIOUS
    <2> QED
      BY <1>1, <1>3, <1>4, <2>1, Zenon
  <1>7. Reading'
    BY <1>0, <1>1, <1>4, <1>5, <1>6 DEF Reading, Open, Parsing, Printing
  <1>8. Buffers'
    BY <1>0, <1>3, <1>4 DEF Inv, Buffers, Typed, Open, Parsing, Printing
  <1>9. Headers'
    BY <1>0, <1>4 DEF Inv, Headers, ElfParsed, SegmentParsed, Printing
  <1>10. Messages' /\ Prints'
    BY <1>0, <1>4 DEF Inv, Messages, Prints, Printing
  <1> QED
    BY <1>4, <1>7, <1>8, <1>9, <1>10 DEF Inv, Steps

LEMMA ReadSectionStep == ASSUME Inv, ReadSectionHeader PROVE Inv'
  <1>0. /\ file \in Files /\ step = "read section" /\ sh_ptr = Zeros(64)
        /\ position = Lesser(120, Len(file))
    BY DEF Inv, Reading, Buffers, Open, ReadSectionHeader
  <1>1. /\ file \in Seq(Byte) /\ Len(file) \in Nat /\ file # NoFile
        /\ position = Lesser(120, Len(file))
    <2>1. file \in Seq(Byte) /\ file # NoFile
      BY <1>0, ElfAssumption
    <2>2. Len(file) \in Nat
      BY <2>1
    <2> QED
      BY <1>0, <2>1, <2>2
  <1>2. 120 \in Nat /\ 64 \in Nat /\ 63 = 64 - 1 /\ 184 = 120 + 64
    OBVIOUS
  <1>3. /\ Holds(FilledFrom(sh_ptr), file, 120, 64)
        /\ FilledFrom(sh_ptr) \in [0 .. 63 -> Byte]
        /\ (Available = 0 <=> Len(file) <= 120)
        /\ position + Lesser(64, Available) = Lesser(184, Len(file))
    <2>1. PICK base \in Nat : base = 120
      OBVIOUS
    <2>2. PICK size \in Nat : size = 64
      OBVIOUS
    <2>3. file \in Seq(Byte) /\ sh_ptr = Zeros(size) /\ position = Lesser(base, Len(file))
      BY <1>0, <1>1, <2>1, <2>2
    <2>4. /\ (Available = 0 <=> Len(file) <= base)
          /\ position + Lesser(size, Available) = Lesser(base + size, Len(file))
      BY <2>3, ReadCount
    <2>5. /\ Holds(FilledFrom(sh_ptr), file, base, size)
          /\ FilledFrom(sh_ptr) \in [0 .. size - 1 -> Byte]
      BY <2>3, Filled
    <2>6. base + size = 184 /\ size - 1 = 63
      BY <2>1, <2>2
    <2> QED
      BY <2>1, <2>2, <2>4, <2>5, <2>6
  <1>4. /\ sh_ptr' = FilledFrom(sh_ptr) /\ elf_ptr' = elf_ptr /\ ph_ptr' = ph_ptr
        /\ position' = position + Lesser(64, Available)
        /\ file' = file /\ printed' = printed
        /\ elf_info' = elf_info /\ programHeader' = programHeader
        /\ \/ step' = "ended" /\ status' = "section header"
           \/ Available # 0 /\ step' = "parse elf" /\ status' = status
    BY DEF ReadSectionHeader, Advance, Lesser, Fail, Proceed, headers, SECTION_HEADER_MAX_SIZE
  <1>5. position' = Lesser(184, Len(file)) /\ position' \in 0 .. Len(file)
    <2>1. \A n \in Nat : Lesser(184, n) \in 0 .. n
      BY DEF Lesser
    <2> QED
      BY <1>1, <1>3, <1>4, <2>1, Zenon
  <1>6. 120 < Len(file) \/ step' = "ended"
    <2>1. \A n \in Nat : ~(n <= 120) => 120 < n
      OBVIOUS
    <2> QED
      BY <1>1, <1>3, <1>4, <2>1, Zenon
  <1>7. Reading'
    BY <1>0, <1>1, <1>4, <1>5, <1>6 DEF Reading, Open, Parsing, Printing
  <1>8. Buffers'
    BY <1>0, <1>3, <1>4 DEF Inv, Buffers, Typed, Open, Parsing, Printing
  <1>9. Headers'
    BY <1>0, <1>4 DEF Inv, Headers, ElfParsed, SegmentParsed, Printing
  <1>10. Messages' /\ Prints'
    BY <1>0, <1>4 DEF Inv, Messages, Prints, Printing
  <1> QED
    BY <1>4, <1>7, <1>8, <1>9, <1>10 DEF Inv, Steps

LEMMA ParseElfStep == ASSUME Inv, parseElfHeader PROVE Inv'
  <1>1. /\ step = "parse elf" /\ file \in Files /\ 120 < Len(file)
        /\ Holds(elf_ptr, file, 0, 64)
    BY DEF Inv, Reading, Buffers, Parsing, parseElfHeader
  <1>2. elf_ptr = ElfBytes(file)
    <2>1. 64 - 1 = 63 /\ \A i \in 0 .. 63 : 0 + i = i
      OBVIOUS
    <2> QED
      BY <1>1, <2>1 DEF Holds, ElfBytes
  <1>3. /\ elf_ptr' = elf_ptr /\ ph_ptr' = ph_ptr /\ sh_ptr' = sh_ptr
        /\ position' = position /\ file' = file /\ printed' = printed
        /\ programHeader' = programHeader
        /\ \/ /\ step' = "ended" /\ status' = FirstFailure(ElfBytes(file))
              /\ elf_info' = elf_info
           \/ /\ FirstFailure(ElfBytes(file)) = "none" /\ step' = "parse program"
              /\ status' = status /\ elf_info' = ElfFields(ElfBytes(file))
    BY <1>2 DEF parseElfHeader, Fail, Proceed, buffers
  <1>4. Reading'
    BY <1>1, <1>3 DEF Inv, Reading, Open, Parsing, Printing
  <1>5. Buffers'
    BY <1>1, <1>3 DEF Inv, Buffers, Typed, Gone, Open, Parsing, Printing
  <1>6. Headers'
    BY <1>1, <1>3 DEF Inv, Headers, ElfParsed, SegmentParsed, Printing
  <1>7. Messages' /\ Prints'
    BY <1>1, <1>3 DEF Inv, Messages, Prints, Printing
  <1> QED
    BY <1>3, <1>4, <1>5, <1>6, <1>7 DEF Inv, Steps

LEMMA ParseProgramStep == ASSUME Inv, parseProgramHeader PROVE Inv'
  <1>1. /\ step = "parse program" /\ file \in Files /\ 120 < Len(file)
        /\ Holds(ph_ptr, file, 64, 56) /\ ElfParsed
    BY DEF Inv, Reading, Buffers, Headers, Parsing, parseProgramHeader
  <1>2. ph_ptr = SegmentBytes(file)
    <2>1. 56 - 1 = 55
      OBVIOUS
    <2> QED
      BY <1>1, <2>1 DEF Holds, SegmentBytes
  <1>3. /\ elf_ptr' = elf_ptr /\ ph_ptr' = ph_ptr /\ sh_ptr' = sh_ptr
        /\ position' = position /\ file' = file /\ printed' = printed
        /\ elf_info' = elf_info /\ status' = status /\ step' = "parse section"
        /\ \E type, flags \in Garbage :
             programHeader' = ProgramHeader(SegmentBytes(file), type, flags)
    BY <1>2 DEF parseProgramHeader, ProgramHeader, Proceed, buffers
  <1>4. Reading'
    BY <1>1, <1>3 DEF Inv, Reading, Open, Parsing, Printing
  <1>5. Buffers'
    BY <1>1, <1>3 DEF Inv, Buffers, Typed, Gone, Open, Parsing, Printing
  <1>6. Headers'
    BY <1>1, <1>3 DEF Headers, ElfParsed, SegmentParsed, Printing
  <1>7. Messages' /\ Prints'
    BY <1>1, <1>3 DEF Inv, Messages, Prints, Printing
  <1> QED
    BY <1>3, <1>4, <1>5, <1>6, <1>7 DEF Inv, Steps

LEMMA ParseSectionStep == ASSUME Inv, parseSectionHeader PROVE Inv'
  <1>1. /\ step = "parse section" /\ step' = "print elf" /\ status' = status
        /\ elf_ptr' = elf_ptr /\ ph_ptr' = ph_ptr /\ sh_ptr' = sh_ptr
        /\ position' = position /\ file' = file /\ printed' = printed
        /\ elf_info' = elf_info /\ programHeader' = programHeader
    BY DEF parseSectionHeader, Proceed, buffers
  <1>2. Reading'
    BY <1>1 DEF Inv, Reading, Open, Parsing, Printing
  <1>3. Buffers'
    BY <1>1 DEF Inv, Buffers, Typed, Gone, Open, Parsing, Printing
  <1>4. Headers'
    BY <1>1 DEF Inv, Headers, ElfParsed, SegmentParsed, Printing
  <1>5. Messages' /\ Prints'
    BY <1>1 DEF Inv, Messages, Prints, Printing
  <1> QED
    BY <1>1, <1>2, <1>3, <1>4, <1>5 DEF Inv, Steps

(* What a third and a second header make of the list of those printed. *)
LEMMA TwoPrinted ==
  ASSUME NEW x, NEW y
  PROVE  Append(<<x>>, y) = <<x, y>>
  <1> DEFINE t == Append(<<x>>, y)  S == {x, y}
  <1>1. Len(t) = 2 /\ t[1] = x /\ t[2] = y
    OBVIOUS
  <1>2. t \in Seq(S)
    OBVIOUS
  <1> HIDE DEF t, S
  <1>3. t = <<x, y>>
    BY <1>1, <1>2
  <1> QED
    BY <1>3 DEF t

LEMMA ThreePrinted ==
  ASSUME NEW x, NEW y, NEW z
  PROVE  Append(<<x, y>>, z) = <<x, y, z>>
  <1> DEFINE t == Append(<<x, y>>, z)  S == {x, y, z}
  <1>1. Len(t) = 3 /\ t[1] = x /\ t[2] = y /\ t[3] = z
    OBVIOUS
  <1>2. t \in Seq(S)
    OBVIOUS
  <1> HIDE DEF t, S
  <1>3. t = <<x, y, z>>
    BY <1>1, <1>2
  <1> QED
    BY <1>3 DEF t

LEMMA PrintStep ==
  ASSUME Inv, printElfData \/ printProgramHeaderData \/ printSectionHeaderData
  PROVE  Inv'
  <1>1. /\ elf_ptr' = elf_ptr /\ ph_ptr' = ph_ptr /\ sh_ptr' = sh_ptr
        /\ position' = position /\ file' = file /\ status' = status
        /\ elf_info' = elf_info /\ programHeader' = programHeader
        /\ sectionHeader' = sectionHeader
        /\ step \in Printing /\ step' \in Printing /\ step' # "print elf"
    BY DEF printElfData, printProgramHeaderData, printSectionHeaderData, Proceed, buffers,
           headers, Printing
  <1>2. Reading'
    BY <1>1 DEF Inv, Reading, Open, Parsing, Printing
  <1>3. Buffers'
    BY <1>1 DEF Inv, Buffers, Typed, Gone, Open, Parsing, Printing
  <1>4. Headers'
    BY <1>1 DEF Inv, Headers, ElfParsed, SegmentParsed, Printing
  <1>5. Messages'
    BY <1>1 DEF Inv, Messages
  <1>6. Prints'
    <2> DEFINE a == PrintedElf(elf_info)  b == PrintedSegment(programHeader)  c == sectionHeader
    <2>0. a' = a /\ b' = b /\ c' = c
      BY <1>1
    <2>1. CASE printElfData
      <3>1. printed = << >> /\ printed' = Append(printed, a) /\ step' = "print program"
        BY <2>1 DEF printElfData, Write, PrintedElf, Proceed, Inv, Prints
      <3> HIDE DEF a
      <3>2. Append(<< >>, a) = <<a>>
        OBVIOUS
      <3>3. printed' = <<PrintedElf(elf_info)>>'
        BY <2>0, <3>1, <3>2, Zenon DEF a
      <3> QED
        BY <3>1, <3>3 DEF Prints, Printing
    <2>2. CASE printProgramHeaderData
      <3>1. printed = <<a>> /\ step' = "print section" /\ printed' = Append(printed, b)
        BY <2>2 DEF printProgramHeaderData, Write, PrintedSegment, Proceed, Inv, Prints
      <3> HIDE DEF a, b
      <3>2. Append(<<a>>, b) = <<a, b>>
        BY TwoPrinted
      <3>3. printed' = <<PrintedElf(elf_info), PrintedSegment(programHeader)>>'
        BY <2>0, <3>1, <3>2, Zenon DEF a, b
      <3> QED
        BY <3>1, <3>3 DEF Prints, Printing
    <2>3. CASE printSectionHeaderData
      <3>1. printed = <<a, b>> /\ step' = "free" /\ printed' = Append(printed, c)
        BY <2>3 DEF printSectionHeaderData, Write, Proceed, Inv, Prints
      <3> HIDE DEF a, b, c
      <3>2. Append(<<a, b>>, c) = <<a, b, c>>
        BY ThreePrinted
      <3>3. printed' = <<PrintedElf(elf_info), PrintedSegment(programHeader), sectionHeader>>'
        BY <2>0, <3>1, <3>2, Zenon DEF a, b, c
      <3> QED
        BY <3>1, <3>3 DEF Prints, Printing
    <2> QED
      BY <2>1, <2>2, <2>3
  <1> QED
    BY <1>1, <1>2, <1>3, <1>4, <1>5, <1>6 DEF Inv, Steps, Printing

LEMMA FreeStep == ASSUME Inv, destroyMemoryBank PROVE Inv'
  <1>1. /\ elf_ptr' = << >> /\ ph_ptr' = << >> /\ sh_ptr' = << >>
        /\ position' = position /\ file' = file /\ status' = status /\ printed' = printed
        /\ elf_info' = elf_info /\ programHeader' = programHeader
        /\ sectionHeader' = sectionHeader
        /\ step = "free" /\ step' = "ended"
    BY DEF destroyMemoryBank, Proceed, headers
  <1>2. Reading'
    BY <1>1 DEF Inv, Reading, Open, Parsing, Printing
  <1>3. Buffers'
    BY <1>1 DEF Buffers, Gone, Open, Parsing, Printing
  <1>4. Headers'
    BY <1>1 DEF Inv, Headers, ElfParsed, SegmentParsed, Printing
  <1>5. Messages' /\ Prints'
    BY <1>1 DEF Inv, Messages, Prints, Headers, ElfParsed, SegmentParsed, Printing
  <1> QED
    BY <1>1, <1>2, <1>3, <1>4, <1>5 DEF Inv, Steps

LEMMA StutterStep == ASSUME Inv, UNCHANGED vars PROVE Inv'
  <1>1. /\ elf_ptr' = elf_ptr /\ ph_ptr' = ph_ptr /\ sh_ptr' = sh_ptr
        /\ position' = position /\ file' = file /\ printed' = printed
        /\ elf_info' = elf_info /\ programHeader' = programHeader
        /\ sectionHeader' = sectionHeader /\ step' = step /\ status' = status
    BY DEF vars, buffers, headers
  <1>2. Reading' /\ Messages'
    BY <1>1 DEF Inv, Reading, Messages
  <1>3. Buffers'
    BY <1>1 DEF Inv, Buffers, Gone, Typed
  <1>4. Headers'
    BY <1>1 DEF Inv, Headers, ElfParsed, SegmentParsed
  <1>5. Prints'
    BY <1>1 DEF Inv, Prints, ElfParsed, SegmentParsed
  <1> QED
    BY <1>1, <1>2, <1>3, <1>4, <1>5 DEF Inv

LEMMA NextInv == Inv /\ [Next]_vars => Inv'
  BY MemoryBankStep, OpenStep, ReadElfStep, ReadProgramStep, ReadSectionStep, ParseElfStep,
     ParseProgramStep, ParseSectionStep, PrintStep, FreeStep, StutterStep DEF Next

(* See the conjuncts of Inv: they hold of every reachable state. *)
THEOREM Invariance == Spec => []Inv
  BY InitInv, NextInv, PTL DEF Spec

-------------------------------------------------------------------------------
(* What is parsed, from the file. *)

(* OR of n-bit words is an n-bit word. *)
LEMMA Or2Bound ==
  ASSUME NEW x \in Int, NEW y \in Int, 0 <= x, x <= 3, 0 <= y, y <= 3
  PROVE  x + y - And2(x, y) <= 3
  <1>1. x = 0 \/ x = 1 \/ x = 2 \/ x = 3
    OBVIOUS
  <1>2. y = 0 \/ y = 1 \/ y = 2 \/ y = 3
    OBVIOUS
  <1>3. \A b \in {0, 1, 2, 3} : b + y - And2(b, y) <= 3
    BY <1>2 DEF And2
  <1> QED
    BY <1>1, <1>3

LEMMA Or4Bound ==
  ASSUME NEW x \in Int, NEW y \in Int, 0 <= x, x <= 15, 0 <= y, y <= 15
  PROVE  x + y - And4(x, y) <= 15
  <1> DEFINE xh == x \div 4  xl == x % 4  yh == y \div 4  yl == y % 4
  <1>1. /\ xh \in Int /\ 0 <= xh /\ xh <= 3 /\ xl \in Int /\ 0 <= xl /\ xl <= 3
        /\ yh \in Int /\ 0 <= yh /\ yh <= 3 /\ yl \in Int /\ 0 <= yl /\ yl <= 3
        /\ x = 4 * xh + xl /\ y = 4 * yh + yl
    OBVIOUS
  <1>2. And4(x, y) = 4 * And2(xh, yh) + And2(xl, yl)
    BY DEF And4
  <1> HIDE DEF xh, xl, yh, yl
  <1>3. And2(xh, yh) \in Int /\ xh + yh - And2(xh, yh) <= 3
    BY <1>1, And2Bound, Or2Bound
  <1>4. And2(xl, yl) \in Int /\ xl + yl - And2(xl, yl) <= 3
    BY <1>1, And2Bound, Or2Bound
  <1> QED
    BY <1>1, <1>2, <1>3, <1>4

LEMMA Or8Bound ==
  ASSUME NEW x \in Int, NEW y \in Int, 0 <= x, x <= 255, 0 <= y, y <= 255
  PROVE  x + y - And8(x, y) <= 255
  <1> DEFINE xh == x \div 16  xl == x % 16  yh == y \div 16  yl == y % 16
  <1>1. /\ xh \in Int /\ 0 <= xh /\ xh <= 15 /\ xl \in Int /\ 0 <= xl /\ xl <= 15
        /\ yh \in Int /\ 0 <= yh /\ yh <= 15 /\ yl \in Int /\ 0 <= yl /\ yl <= 15
        /\ x = 16 * xh + xl /\ y = 16 * yh + yl
    OBVIOUS
  <1>2. And8(x, y) = 16 * And4(xh, yh) + And4(xl, yl)
    BY DEF And8
  <1> HIDE DEF xh, xl, yh, yl
  <1>3. And4(xh, yh) \in Int /\ xh + yh - And4(xh, yh) <= 15
    BY <1>1, And4Bound, Or4Bound
  <1>4. And4(xl, yl) \in Int /\ xl + yl - And4(xl, yl) <= 15
    BY <1>1, And4Bound, Or4Bound
  <1> QED
    BY <1>1, <1>2, <1>3, <1>4

LEMMA OrByteType ==
  ASSUME NEW x \in Byte, NEW y \in Byte PROVE OrByte(x, y) \in Byte
  <1>1. /\ x \in Int /\ 0 <= x /\ x <= 255 /\ y \in Int /\ 0 <= y /\ y <= 255
    BY InByte
  <1>2. And8(x, y) \in Int /\ 0 <= And8(x, y) /\ And8(x, y) <= x /\ And8(x, y) <= y
    BY <1>1, And8Bound
  <1>3. x + y - And8(x, y) <= 255
    BY <1>1, Or8Bound
  <1> QED
    BY <1>1, <1>2, <1>3, InByte DEF OrByte

(* The fields of the program header that are read into uninitialized locals. *)
LEMMA SegmentField ==
  ASSUME file \in Seq(Byte), NEW old \in Number(4), NEW o \in {0, 4}
  PROVE  LET v == swap32(LoopOver(old, SegmentBytes(file), o))
         IN /\ v \in Number(4)
            /\ v[1] = FileByte(file, 65) /\ v[2] = FileByte(file, 64 + o + 2)
            /\ v[3] = FileByte(file, 64 + o + 1)
  <1> DEFINE p == SegmentBytes(file)  w == LoopOver(old, p, o)
  <1>1. \A i \in 0 .. 55 : p[i] = FileByte(file, 64 + i)
    BY DEF SegmentBytes
  <1>2. \A i \in 0 .. 55 : 64 + i \in Nat
    OBVIOUS
  <1>3. \A i \in 0 .. 55 : p[i] \in Byte
    BY <1>1, <1>2, FileByteType
  <1>4. o \in 0 .. 55 /\ o + 1 \in 0 .. 55 /\ o + 2 \in 0 .. 55 /\ 1 \in 0 .. 55
        /\ 64 + (o + 1) = 64 + o + 1 /\ 64 + (o + 2) = 64 + o + 2 /\ 64 + 1 = 65
    OBVIOUS
  <1>5. p[o] \in Byte /\ p[o + 1] \in Byte /\ p[o + 2] \in Byte /\ p[1] \in Byte
    BY <1>3, <1>4
  <1>6. old[4] \in Byte
    BY DEF Number
  <1>7. OrByte(old[4], p[o]) \in Byte
    BY <1>5, <1>6, OrByteType
  <1>8. w = <<OrByte(old[4], p[o]), p[o + 1], p[o + 2], p[1]>>
    BY DEF LoopOver
  <1>9. /\ w \in Number(4) /\ w[2] = p[o + 1] /\ w[3] = p[o + 2] /\ w[4] = p[1]
    <2> DEFINE a == OrByte(old[4], p[o])  b == p[o + 1]  c == p[o + 2]  d == p[1]
    <2>1. w = <<a, b, c, d>> /\ a \in Byte /\ b \in Byte /\ c \in Byte /\ d \in Byte
      BY <1>5, <1>7, <1>8
    <2> HIDE DEF w, a, b, c, d
    <2>2. w \in Seq(Byte) /\ Len(w) = 4 /\ 4 \in Nat
      BY <2>1
    <2>3. w[2] = b /\ w[3] = c /\ w[4] = d
      BY <2>1
    <2>4. w \in Number(4)
      BY <2>2, NumberIsSeq
    <2> QED
      BY <2>3, <2>4 DEF b, c, d
  <1> HIDE DEF w
  <1>10. /\ swap32(w) \in Number(4) /\ swap32(w)[1] = w[4] /\ swap32(w)[2] = w[3]
         /\ swap32(w)[3] = w[2]
    BY <1>9, Swap32
  <1>11. /\ w[4] = FileByte(file, 65) /\ w[3] = FileByte(file, 64 + o + 2)
         /\ w[2] = FileByte(file, 64 + o + 1)
    BY <1>1, <1>4, <1>9
  <1> HIDE DEF p
  <1> QED
    BY <1>10, <1>11 DEF w, p

(* The segment that is parsed, field by field. *)
LEMMA SegmentValue ==
  ASSUME file \in Seq(Byte), SegmentParsed
  PROVE  LET h == programHeader
         IN /\ h.ph_type \in Number(4) /\ h.ph_flags \in Number(4)
            /\ h.ph_type[1] = h.ph_type[3]
            /\ h.ph_type[2] = FileByte(file, 66) /\ h.ph_type[3] = FileByte(file, 65)
            /\ h.ph_flags[2] = FileByte(file, 70) /\ h.ph_flags[3] = FileByte(file, 69)
            /\ h.ph_fileImageSegmentOffset64 = LittleEndian(72, 8)
            /\ h.ph_segmentVAddr64 = LittleEndian(80, 8)
            /\ h.ph_segmentPhysAddr64 = LittleEndian(88, 8)
            /\ h.ph_segmentSizeInFileImage64 = LittleEndian(96, 8)
            /\ h.ph_segmentSizeInMemory64 = LittleEndian(104, 8)
            /\ h.ph_align64 = LittleEndian(112, 8)
  <1> DEFINE h == programHeader  p == SegmentBytes(file)
  <1>1. PICK type \in Garbage : \E flags \in Garbage : h = ProgramHeader(p, type, flags)
    BY DEF SegmentParsed
  <1>2. PICK flags \in Garbage : h = ProgramHeader(p, type, flags)
    BY <1>1
  <1>3. type \in Number(4) /\ flags \in Number(4)
    BY ElfAssumption DEF Number
  <1>4. Holds(p, file, 64, 56)
    <2>1. 56 - 1 = 55
      OBVIOUS
    <2> QED
      BY <2>1 DEF SegmentBytes, Holds
  <1> HIDE DEF h
  <1>5. /\ h.ph_type = swap32(LoopOver(type, p, 0)) /\ h.ph_flags = swap32(LoopOver(flags, p, 4))
    BY <1>2 DEF ProgramHeader, P_OFFSET
  <1>6. /\ h.ph_fileImageSegmentOffset64 = swap64(Loop(p, 8, 8))
        /\ h.ph_segmentVAddr64 = swap64(Loop(p, 16, 8))
        /\ h.ph_segmentPhysAddr64 = swap64(Loop(p, 24, 8))
        /\ h.ph_segmentSizeInFileImage64 = swap64(Loop(p, 32, 8))
        /\ h.ph_segmentSizeInMemory64 = swap64(Loop(p, 40, 8))
        /\ h.ph_align64 = swap64(Loop(p, 48, 8))
    BY <1>2 DEF ProgramHeader, P_OFFSET
  <1>7. /\ h.ph_type \in Number(4) /\ h.ph_type[1] = FileByte(file, 65)
        /\ h.ph_type[2] = FileByte(file, 66) /\ h.ph_type[3] = FileByte(file, 65)
    <2>1. 0 \in {0, 4} /\ 64 + 0 + 2 = 66 /\ 64 + 0 + 1 = 65
      OBVIOUS
    <2> QED
      BY <1>3, <1>5, <2>1, SegmentField
  <1>8. /\ h.ph_flags \in Number(4)
        /\ h.ph_flags[2] = FileByte(file, 70) /\ h.ph_flags[3] = FileByte(file, 69)
    <2>1. 4 \in {0, 4} /\ 64 + 4 + 2 = 70 /\ 64 + 4 + 1 = 69
      OBVIOUS
    <2> QED
      BY <1>3, <1>5, <2>1, SegmentField
  <1> HIDE DEF p
  <1>9. \A o \in Nat : o + 8 <= 56 => swap64(Loop(p, o, 8)) = LittleEndian(64 + o, 8)
    <2>1. 64 \in Nat /\ 56 \in Nat
      OBVIOUS
    <2> QED
      BY <1>4, <2>1, AddressField
  <1>10. /\ swap64(Loop(p, 8, 8)) = LittleEndian(64 + 8, 8)
         /\ swap64(Loop(p, 16, 8)) = LittleEndian(64 + 16, 8)
         /\ swap64(Loop(p, 24, 8)) = LittleEndian(64 + 24, 8)
         /\ swap64(Loop(p, 32, 8)) = LittleEndian(64 + 32, 8)
         /\ swap64(Loop(p, 40, 8)) = LittleEndian(64 + 40, 8)
         /\ swap64(Loop(p, 48, 8)) = LittleEndian(64 + 48, 8)
    BY <1>9
  <1> QED
    BY <1>6, <1>7, <1>8, <1>10 DEF h

-------------------------------------------------------------------------------
(* The theorems. *)

(* A file that a step has read is a sequence of bytes. *)
LEMMA FileIsBytes == ASSUME file \in Files PROVE file \in Seq(Byte) /\ Len(file) \in Nat
  <1>1. file \in Seq(Byte)
    BY ElfAssumption
  <1> QED
    BY <1>1

(* The headers the program parses consist of numbers of the width their C     *)
(* members have, whatever file it is given, short ones included.              *)
THEOREM TypeCorrect == Spec => []TypeOK
  <1>1. ASSUME Inv PROVE TypeOK
    <2>1. step \in Steps /\ (file # NoFile => position \in 0 .. Len(file))
      BY <1>1 DEF Inv, Reading
    <2>2. \/ <<elf_ptr, ph_ptr, sh_ptr>> = << << >>, << >>, << >> >>
          \/ /\ elf_ptr \in [0 .. ELF_HEADER_MAX_SIZE - 1 -> Byte]
             /\ ph_ptr \in [0 .. PROGRAM_HEADER_MAX_SIZE - 1 -> Byte]
             /\ sh_ptr \in [0 .. SECTION_HEADER_MAX_SIZE - 1 -> Byte]
      <3>1. 64 - 1 = 63 /\ 56 - 1 = 55
        OBVIOUS
      <3> QED
        BY <1>1, <3>1 DEF Inv, Buffers, Gone, Typed, ELF_HEADER_MAX_SIZE,
                          PROGRAM_HEADER_MAX_SIZE, SECTION_HEADER_MAX_SIZE
    <2>3. elf_info # << >> =>
            /\ elf_info.bit_depth \in {32, 64}
            /\ {elf_info.entryPointOffset, elf_info.programHeaderOffset,
                elf_info.sectionHeaderOffset} \subseteq Number(8)
            /\ elf_info.flags \in Number(4)
            /\ {elf_info.type, elf_info.isa, elf_info.sectionHeaderIndex} \subseteq Number(2)
      <3> SUFFICES ASSUME elf_info # << >>
                   PROVE  /\ elf_info.bit_depth \in {32, 64}
                          /\ {elf_info.entryPointOffset, elf_info.programHeaderOffset,
                              elf_info.sectionHeaderOffset} \subseteq Number(8)
                          /\ elf_info.flags \in Number(4)
                          /\ {elf_info.type, elf_info.isa, elf_info.sectionHeaderIndex}
                               \subseteq Number(2)
        OBVIOUS
      <3>1. ElfParsed
        BY <1>1 DEF Inv, Headers
      <3>2. file \in Seq(Byte) /\ elf_info = ElfFields(ElfBytes(file))
        BY <3>1, FileIsBytes DEF ElfParsed
      <3> DEFINE e == elf_info
      <3>3. file \in Seq(Byte) /\ e = ElfFields(ElfBytes(file))
        BY <3>2
      <3> HIDE DEF e
      <3>4. {e.entryPointOffset, e.programHeaderOffset, e.sectionHeaderOffset} \subseteq Number(8)
        BY <3>3, AddressesAreNumbers
      <3>5. /\ e.bit_depth = IF FileByte(file, 4) = 1 THEN 32 ELSE 64
            /\ e.type \in Number(2) /\ e.isa \in Number(2) /\ e.flags \in Number(4)
            /\ e.sectionHeaderIndex \in Number(2)
        BY <3>3, ElfFieldsValue
      <3> QED
        BY <3>4, <3>5 DEF e
    <2>4. programHeader # << >> =>
            {programHeader.ph_type, programHeader.ph_flags} \subseteq Number(4)
      <3> SUFFICES ASSUME programHeader # << >>
                   PROVE  {programHeader.ph_type, programHeader.ph_flags} \subseteq Number(4)
        OBVIOUS
      <3>1. ElfParsed /\ SegmentParsed
        BY <1>1 DEF Inv, Headers
      <3>2. file \in Seq(Byte)
        BY <3>1, FileIsBytes DEF ElfParsed
      <3> QED
        BY <3>1, <3>2, SegmentValue
    <2>5. Len(printed) <= 3
      <3>1. \/ printed = << >>
            \/ \E x : printed = <<x>>
            \/ \E x, y : printed = <<x, y>>
            \/ \E x, y, z : printed = <<x, y, z>>
        BY <1>1 DEF Inv, Prints, Steps, Printing
      <3>2. \A x, y, z : Len(<<x>>) = 1 /\ Len(<<x, y>>) = 2 /\ Len(<<x, y, z>>) = 3
        OBVIOUS
      <3>3. Len(<< >>) = 0 /\ 0 <= 3 /\ 1 <= 3 /\ 2 <= 3 /\ 3 <= 3
        OBVIOUS
      <3> QED
        BY <3>1, <3>2, <3>3, Zenon
    <2> QED
      BY <2>1, <2>2, <2>3, <2>4, <2>5 DEF TypeOK
  <1> QED
    BY <1>1, Invariance, PTL

(* Consecutive parts of the file are one part. *)
LEMMA StoredTogether ==
  ASSUME file \in Seq(Byte), NEW o \in Nat, NEW m \in Nat, NEW n \in Nat
  PROVE  Stored(o, m) \o Stored(o + m, n) = Stored(o, m + n)
  <1> DEFINE k == m + n  p == o + m  a == Stored(o, m)  b == Stored(p, n)  c == Stored(o, k)
  <1>1. k \in Nat /\ p \in Nat /\ k = m + n /\ p = o + m
    OBVIOUS
  <1> HIDE DEF k, p
  <1>2. /\ a \in Number(m) /\ \A i \in 1 .. m : a[i] = FileByte(file, o + i - 1)
        /\ b \in Number(n) /\ \A i \in 1 .. n : b[i] = FileByte(file, p + i - 1)
        /\ c \in Number(k) /\ \A i \in 1 .. k : c[i] = FileByte(file, o + i - 1)
    BY <1>1, StoredBytes
  <1> HIDE DEF a, b, c
  <1> DEFINE ab == Join(a, b)
  <1>3. /\ ab \in Number(k)
        /\ \A i \in 1 .. k : (i <= m => ab[i] = a[i]) /\ (~(i <= m) => ab[i] = b[i - m])
    <2>1. a \in Number(m) /\ b \in Number(n)
      BY <1>2
    <2> QED
      BY <1>1, <2>1, Joined
  <1> HIDE DEF ab
  <1>4. ASSUME NEW i \in 1 .. k PROVE ab[i] = c[i]
    <2>1. CASE i <= m
      <3>1. i \in 1 .. m
        BY <1>1, <2>1
      <3> QED
        BY <1>2, <1>3, <2>1, <3>1
    <2>2. CASE ~(i <= m)
      <3>1. i - m \in 1 .. n /\ p + (i - m) - 1 = o + i - 1
        BY <1>1, <2>2
      <3> QED
        BY <1>2, <1>3, <2>2, <3>1
    <2> QED
      BY <2>1, <2>2
  <1>5. ab = c
    BY <1>1, <1>2, <1>3, <1>4, NumberEqual
  <1> QED
    BY <1>5 DEF ab, a, b, c, p, k, Join

LEMMA ThreeParts ==
  ASSUME file \in Seq(Byte)
  PROVE  Stored(0, 64) \o Stored(64, 56) \o Stored(120, 64) = Stored(0, 184)
  <1>1. PICK o \in Nat : o = 0
    OBVIOUS
  <1>2. PICK m \in Nat : m = 64
    OBVIOUS
  <1>3. PICK n \in Nat : n = 56
    OBVIOUS
  <1>4. /\ Stored(o, m) \o Stored(o + m, n) = Stored(o, m + n)
        /\ Stored(o, m + n) \o Stored(o + (m + n), m) = Stored(o, (m + n) + m)
    <2>1. m + n \in Nat
      OBVIOUS
    <2> QED
      BY <2>1, StoredTogether
  <1>5. o + m = m /\ o + (m + n) = m + n
    BY <1>1
  <1>6. Stored(o, m) \o Stored(m, n) \o Stored(m + n, m) = Stored(o, (m + n) + m)
    BY <1>4, <1>5, Zenon
  <1>7. m + n = 120 /\ (m + n) + m = 184
    BY <1>2, <1>3
  <1> QED
    BY <1>1, <1>2, <1>3, <1>6, <1>7, Zenon

(* Three calls of fread(), each short or full, leave the first 184 bytes of   *)
(* the file in the buffers, for a file of any length that is parsed at all.   *)
THEOREM BuffersAreTheFile == Spec => []BuffersHoldTheFile
  <1>1. ASSUME Inv PROVE BuffersHoldTheFile
    <2> SUFFICES ASSUME step \in Parsing \cup Printing
                 PROVE  /\ Len(file) > ELF_HEADER_MAX_SIZE + PROGRAM_HEADER_MAX_SIZE
                        /\ Loop(elf_ptr, 0, 64) \o Loop(ph_ptr, 0, 56) \o Loop(sh_ptr, 0, 64)
                             = Stored(0, 184)
      BY DEF BuffersHoldTheFile, Parsing, Printing
    <2>1. /\ file \in Files /\ 120 < Len(file) /\ Holds(elf_ptr, file, 0, 64)
          /\ Holds(ph_ptr, file, 64, 56) /\ Holds(sh_ptr, file, 120, 64)
      BY <1>1 DEF Inv, Reading, Buffers, Parsing, Printing
    <2>2. file \in Seq(Byte) /\ Len(file) \in Nat
      BY <2>1, FileIsBytes
    <2>3. Len(file) > ELF_HEADER_MAX_SIZE + PROGRAM_HEADER_MAX_SIZE
      BY <2>1, <2>2 DEF ELF_HEADER_MAX_SIZE, PROGRAM_HEADER_MAX_SIZE
    <2>4. /\ 0 \in Nat /\ 56 \in Nat /\ 64 \in Nat /\ 120 \in Nat
          /\ 0 + 64 <= 64 /\ 0 + 56 <= 56 /\ 0 + 0 = 0 /\ 64 + 0 = 64 /\ 120 + 0 = 120
      OBVIOUS
    <2>5. Loop(elf_ptr, 0, 64) = Stored(0 + 0, 64)
      BY <2>1, <2>2, <2>4, LoopBytes
    <2>6. Loop(ph_ptr, 0, 56) = Stored(64 + 0, 56)
      BY <2>1, <2>2, <2>4, LoopBytes
    <2>7. Loop(sh_ptr, 0, 64) = Stored(120 + 0, 64)
      BY <2>1, <2>2, <2>4, LoopBytes
    <2> QED
      BY <2>2, <2>3, <2>4, <2>5, <2>6, <2>7, ThreeParts
  <1> QED
    BY <1>1, Invariance, PTL

(* A function on 1 .. 6 is the tuple of its values. *)
LEMMA SixValues ==
  ASSUME NEW S, NEW w \in [1 .. 6 -> S]
  PROVE  w = <<w[1], w[2], w[3], w[4], w[5], w[6]>>
  OBVIOUS

(* Whatever a 64-bit file holds, the fields of its ELF header are printed as  *)
(* the format says; so are the sixteen bit fields of a 32-bit file.           *)
THEOREM ElfHeaderIsTheFiles == Spec => []ElfHeaderAsStored
  <1>1. ASSUME Inv PROVE ElfHeaderAsStored
    <2> SUFFICES ASSUME Parsed PROVE ElfHeaderAsStored
      BY DEF ElfHeaderAsStored
    <2>1. ElfParsed
      BY <1>1 DEF Inv, Headers, Parsed
    <2> DEFINE e == elf_info  s == IF e.bit_depth = 64 THEN 52 ELSE 40
    <2>2. file \in Seq(Byte) /\ e = ElfFields(ElfBytes(file))
      BY <2>1, FileIsBytes DEF ElfParsed
    <2> HIDE DEF e
    <2>3. /\ e.type = LittleEndian(16, 2) /\ e.isa = LittleEndian(18, 2)
          /\ e.bit_depth = 64 =>
               /\ e.entryPointOffset = LittleEndian(24, 8)
               /\ e.programHeaderOffset = LittleEndian(32, 8)
               /\ e.sectionHeaderOffset = LittleEndian(40, 8)
               /\ e.flags = Stored(48, 4)
      BY <2>2, ElfFieldsValue
    <2>4. /\ e.elfHeaderSize = LittleEndian(s, 2)
          /\ e.programHeaderSize = LittleEndian(s + 2, 2)
          /\ e.programHeaderEntriesNum = LittleEndian(s + 4, 2)
          /\ e.sectionHeaderSize = LittleEndian(s + 6, 2)
          /\ e.sectionHeaderEntriesNum = LittleEndian(s + 8, 2)
          /\ e.sectionHeaderIndex = LittleEndian(s + 10, 2)
      BY <2>2, ElfFieldsValue
    <2>5. s \in Nat
      OBVIOUS
    <2> HIDE DEF s
    <2> DEFINE w == [i \in 1 .. 6 |-> LittleEndian(s + 2 * (i - 1), 2)]
    <2>6. w = <<e.elfHeaderSize, e.programHeaderSize, e.programHeaderEntriesNum,
                e.sectionHeaderSize, e.sectionHeaderEntriesNum, e.sectionHeaderIndex>>
      <3>1. /\ w[1] = LittleEndian(s, 2) /\ w[2] = LittleEndian(s + 2, 2)
            /\ w[3] = LittleEndian(s + 4, 2) /\ w[4] = LittleEndian(s + 6, 2)
            /\ w[5] = LittleEndian(s + 8, 2) /\ w[6] = LittleEndian(s + 10, 2)
        BY <2>5
      <3>2. w \in [1 .. 6 -> {w[i] : i \in 1 .. 6}]
        OBVIOUS
      <3> HIDE DEF w
      <3>3. w = <<w[1], w[2], w[3], w[4], w[5], w[6]>>
        BY <3>2, SixValues
      <3> QED
        BY <2>4, <3>1, <3>3
    <2> QED
      BY <2>3, <2>6 DEF ElfHeaderAsStored, e, s, w
  <1> QED
    BY <1>1, Invariance, PTL

(* Whatever two uninitialized locals hold, the addresses and sizes of the     *)
(* program header are those of the file.                                      *)
THEOREM ProgramHeaderIsTheFiles == Spec => []ProgramHeaderAsStored
  <1>1. ASSUME Inv PROVE ProgramHeaderAsStored
    <2> SUFFICES ASSUME Parsed PROVE ProgramHeaderAsStored
      BY DEF ProgramHeaderAsStored
    <2>1. ElfParsed /\ SegmentParsed
      BY <1>1 DEF Inv, Headers, Parsed
    <2>2. file \in Seq(Byte)
      BY <2>1, FileIsBytes DEF ElfParsed
    <2> DEFINE h == programHeader
    <2>3. /\ h.ph_fileImageSegmentOffset64 = LittleEndian(72, 8)
          /\ h.ph_segmentVAddr64 = LittleEndian(80, 8)
          /\ h.ph_segmentPhysAddr64 = LittleEndian(88, 8)
          /\ h.ph_segmentSizeInFileImage64 = LittleEndian(96, 8)
          /\ h.ph_segmentSizeInMemory64 = LittleEndian(104, 8)
          /\ h.ph_align64 = LittleEndian(112, 8)
      BY <2>1, <2>2, SegmentValue
    <2>4. /\ h.ph_type \in Number(4) /\ h.ph_flags \in Number(4)
          /\ h.ph_type[2] = FileByte(file, 66) /\ h.ph_type[3] = FileByte(file, 65)
          /\ h.ph_flags[2] = FileByte(file, 70) /\ h.ph_flags[3] = FileByte(file, 69)
      BY <2>1, <2>2, SegmentValue
    <2> HIDE DEF h
    <2> DEFINE w == [i \in 1 .. 6 |-> LittleEndian(64 + 8 * i, 8)]
    <2>5. w = <<h.ph_fileImageSegmentOffset64, h.ph_segmentVAddr64, h.ph_segmentPhysAddr64,
                h.ph_segmentSizeInFileImage64, h.ph_segmentSizeInMemory64, h.ph_align64>>
      <3>1. /\ w[1] = LittleEndian(72, 8) /\ w[2] = LittleEndian(80, 8)
            /\ w[3] = LittleEndian(88, 8) /\ w[4] = LittleEndian(96, 8)
            /\ w[5] = LittleEndian(104, 8) /\ w[6] = LittleEndian(112, 8)
        OBVIOUS
      <3>2. w \in [1 .. 6 -> {w[i] : i \in 1 .. 6}]
        OBVIOUS
      <3> HIDE DEF w
      <3>3. w = <<w[1], w[2], w[3], w[4], w[5], w[6]>>
        BY <3>2, SixValues
      <3> QED
        BY <2>3, <3>1, <3>3
    <2>6. ASSUME NEW v \in Number(4), NEW o \in {64, 68},
                 v[2] = FileByte(file, o + 2), v[3] = FileByte(file, o + 1)
          PROVE  SubSeq(v, 2, 3) = SubSeq(LittleEndian(o, 4), 2, 3)
      <3> DEFINE l == LittleEndian(o, 4)
      <3>1. /\ o \in Nat /\ 4 \in Nat /\ 2 \in 1 .. 4 /\ 3 \in 2 .. 4 /\ 3 - 2 + 1 = 2
            /\ 2 + 1 - 1 = 2 /\ 2 + 2 - 1 = 3 /\ o + 4 - 2 = o + 2 /\ o + 4 - 3 = o + 1
        OBVIOUS
      <3>2. l \in Number(4) /\ \A i \in 1 .. 4 : l[i] = FileByte(file, o + 4 - i)
        BY <2>2, <3>1, StoredBytes
      <3> HIDE DEF l
      <3>3. l[2] = v[2] /\ l[3] = v[3]
        BY <2>6, <3>1, <3>2
      <3> DEFINE a == SubSeq(v, 2, 3)  b == SubSeq(l, 2, 3)
      <3>4. a \in Number(2) /\ \A i \in 1 .. 2 : a[i] = v[2 + i - 1]
        BY <3>1, Part
      <3>5. b \in Number(2) /\ \A i \in 1 .. 2 : b[i] = l[2 + i - 1]
        BY <3>1, <3>2, Part
      <3> HIDE DEF a, b
      <3>6. \A i \in 1 .. 2 : a[i] = b[i]
        BY <3>3, <3>4, <3>5
      <3>7. 2 \in Nat
        OBVIOUS
      <3>8. a = b
        BY <3>4, <3>5, <3>6, <3>7, NumberEqual
      <3> QED
        BY <3>8 DEF a, b, l
    <2>7. SubSeq(h.ph_type, 2, 3) = SubSeq(LittleEndian(64, 4), 2, 3)
      <3>1. 64 + 2 = 66 /\ 64 + 1 = 65 /\ 64 \in {64, 68}
        OBVIOUS
      <3> QED
        BY <2>4, <2>6, <3>1
    <2>8. SubSeq(h.ph_flags, 2, 3) = SubSeq(LittleEndian(68, 4), 2, 3)
      <3>1. 68 + 2 = 70 /\ 68 + 1 = 69 /\ 68 \in {64, 68}
        OBVIOUS
      <3> QED
        BY <2>4, <2>6, <3>1
    <2> QED
      BY <2>5, <2>7, <2>8 DEF ProgramHeaderAsStored, h, w
  <1> QED
    BY <1>1, Invariance, PTL

(* The bytes that the checks of a file that has all three headers look at.    *)
LEMMA CheckedBytes ==
  ASSUME file \in Files, 120 < Len(file)
  PROVE  \A i \in 0 .. 63 : /\ ElfBytes(file)[i] = file[i + 1]
                            /\ FileByte(file, i) = file[i + 1]
                            /\ file[i + 1] \in Int /\ 0 <= file[i + 1] /\ file[i + 1] <= 255
  <1>1. file \in Seq(Byte) /\ Len(file) \in Nat
    BY FileIsBytes
  <1> SUFFICES ASSUME NEW i \in 0 .. 63
               PROVE  /\ ElfBytes(file)[i] = file[i + 1]
                      /\ FileByte(file, i) = file[i + 1]
                      /\ file[i + 1] \in Int /\ 0 <= file[i + 1] /\ file[i + 1] <= 255
    OBVIOUS
  <1>2. i < Len(file)
    BY <1>1
  <1>3. FileByte(file, i) = file[i + 1]
    BY <1>2 DEF FileByte
  <1>4. ElfBytes(file)[i] = FileByte(file, i) /\ ElfBytes(file)[i] \in Byte
    BY <1>1, ElfBytesHeld
  <1> QED
    BY <1>3, <1>4, InByte

(* What parseElfHeader() finds wrong, in terms of the file. *)
LEMMA FlawsAre ==
  ASSUME file \in Files, 120 < Len(file)
  PROVE  LET p == ElfBytes(file)
         IN /\ Flaws \subseteq {4, 5, 7, 9}
            /\ 4 \in Flaws <=> ~(p[4] \in {1, 2})
            /\ 5 \in Flaws <=> ~(p[5] \in {1, 2})
            /\ 7 \in Flaws <=> ~(p[7] <= 18)
            /\ 9 \in Flaws <=> ~(\A i \in 9 .. 15 : p[i] = 0)
  <1> DEFINE p == ElfBytes(file)
  <1>1. \A i \in 0 .. 63 : /\ p[i] = file[i + 1]
                           /\ file[i + 1] \in Int /\ 0 <= file[i + 1] /\ file[i + 1] <= 255
    BY CheckedBytes
  <1> HIDE DEF p
  <1>2. /\ p[4] = file[4 + 1] /\ p[5] = file[5 + 1] /\ p[7] = file[8] /\ p[7] \in Int
        /\ \A i \in 9 .. 15 : p[i] = file[i + 1]
    <2>1. /\ 4 \in 0 .. 63 /\ 5 \in 0 .. 63 /\ 7 \in 0 .. 63 /\ 7 + 1 = 8
          /\ \A i \in 9 .. 15 : i \in 0 .. 63
      OBVIOUS
    <2>2. p[4] = file[4 + 1] /\ p[5] = file[5 + 1] /\ p[7] = file[7 + 1] /\ file[7 + 1] \in Int
      BY <1>1, <2>1
    <2>3. \A i \in 9 .. 15 : p[i] = file[i + 1]
      BY <1>1, <2>1
    <2> QED
      BY <2>1, <2>2, <2>3
  <1>3. Flaws \subseteq {4, 5, 7, 9}
    BY DEF Flaws
  <1>4. 4 \in Flaws <=> ~(p[4] \in {1, 2})
    BY <1>2 DEF Flaws
  <1>5. 5 \in Flaws <=> ~(p[5] \in {1, 2})
    BY <1>2 DEF Flaws
  <1>6. 7 \in Flaws <=> ~(p[7] <= 18)
    BY <1>2 DEF Flaws
  <1>7. 9 \in Flaws <=> ~(\A i \in 9 .. 15 : p[i] = 0)
    <2>1. 9 \in Flaws <=> \E i \in 9 .. 15 : file[i + 1] # 0
      BY DEF Flaws
    <2> QED
      BY <1>2, <2>1
  <1> QED
    BY <1>3, <1>4, <1>5, <1>6, <1>7 DEF p

(* No header is printed of a file that fails a check, and the message of a    *)
(* file with several flaws is that of the first.                              *)
THEOREM FirstFlawIsReported == Spec => []RefusedForTheFirstFlaw
  <1>1. ASSUME Inv PROVE RefusedForTheFirstFlaw
    <2> DEFINE p == ElfBytes(file)
               depth == p[4] \in {1, 2}  order == p[5] \in {1, 2}
               abi == p[7] <= 18  pad == \A i \in 9 .. 15 : p[i] = 0
               magic == MagicAccepted(p)
               why == FirstFailure(p)
    <2>1. /\ ~magic => why = "Incorrect magic number"
          /\ magic /\ ~depth => why = "Could not determine bit depth"
          /\ magic /\ depth /\ ~order => why = "Could not determine endianness"
          /\ magic /\ depth /\ order /\ ~abi => why = "Unknown abi os"
          /\ magic /\ depth /\ order /\ abi /\ ~pad => why = "EI_PAD should be zero"
          /\ magic /\ depth /\ order /\ abi /\ pad => why = "none"
      BY FirstFailureIs
    <2>2. file \in Files /\ 120 < Len(file) =>
            /\ Flaws \subseteq {4, 5, 7, 9}
            /\ (4 \in Flaws <=> ~depth) /\ (5 \in Flaws <=> ~order)
            /\ (7 \in Flaws <=> ~abi) /\ (9 \in Flaws <=> ~pad)
      BY FlawsAre
    <2>3. Parsed => file \in Files /\ 120 < Len(file) /\ why = "none"
      BY <1>1 DEF Inv, Headers, Parsed, ElfParsed
    <2>4. \/ status \in {"none", "Wrong path", "elf header", "program header", "section header"}
          \/ file \in Files /\ 120 < Len(file) /\ status = why
      BY <1>1 DEF Inv, Messages
    <2>5. /\ MessageOf(4) = "Could not determine bit depth"
          /\ MessageOf(5) = "Could not determine endianness"
          /\ MessageOf(7) = "Unknown abi os" /\ MessageOf(9) = "EI_PAD should be zero"
      BY DEF MessageOf
    <2> HIDE DEF p, depth, order, abi, pad, magic, why
    <2>6. Parsed => Flaws = {}
      <3>1. why = "none" => depth /\ order /\ abi /\ pad
        BY <2>1
      <3> QED
        BY <2>2, <2>3, <3>1
    <2>7. ASSUME status \in {MessageOf(c) : c \in {4, 5, 7, 9}}
          PROVE  status = MessageOf(Min(Flaws))
      <3>1. status \in {"Could not determine bit depth", "Could not determine endianness",
                        "Unknown abi os", "EI_PAD should be zero"}
        BY <2>5, <2>7
      <3>2. file \in Files /\ 120 < Len(file) /\ status = why
        BY <2>4, <3>1
      <3>3. /\ Flaws \subseteq {4, 5, 7, 9} /\ Flaws \subseteq Int
            /\ (4 \in Flaws <=> ~depth) /\ (5 \in Flaws <=> ~order)
            /\ (7 \in Flaws <=> ~abi) /\ (9 \in Flaws <=> ~pad)
        BY <2>2, <3>2
      <3>4. CASE status = "Could not determine bit depth"
        <4>1. 4 \in Flaws
          BY <2>1, <3>2, <3>3, <3>4
        <4>2. \A c \in Flaws : 4 <= c
          BY <3>3
        <4>3. Min(Flaws) = 4
          BY <3>3, <4>1, <4>2, MinIs
        <4> QED
          BY <2>5, <3>4, <4>3
      <3>5. CASE status = "Could not determine endianness"
        <4>1. 5 \in Flaws /\ 4 \notin Flaws
          BY <2>1, <3>2, <3>3, <3>5
        <4>2. \A c \in Flaws : 5 <= c
          BY <3>3, <4>1
        <4>3. Min(Flaws) = 5
          BY <3>3, <4>1, <4>2, MinIs
        <4> QED
          BY <2>5, <3>5, <4>3
      <3>6. CASE status = "Unknown abi os"
        <4>1. 7 \in Flaws /\ 4 \notin Flaws /\ 5 \notin Flaws
          BY <2>1, <3>2, <3>3, <3>6
        <4>2. \A c \in Flaws : 7 <= c
          BY <3>3, <4>1
        <4>3. Min(Flaws) = 7
          BY <3>3, <4>1, <4>2, MinIs
        <4> QED
          BY <2>5, <3>6, <4>3
      <3>7. CASE status = "EI_PAD should be zero"
        <4>1. 9 \in Flaws /\ 4 \notin Flaws /\ 5 \notin Flaws /\ 7 \notin Flaws
          BY <2>1, <3>2, <3>3, <3>7
        <4>2. \A c \in Flaws : 9 <= c
          BY <3>3, <4>1
        <4>3. Min(Flaws) = 9
          BY <3>3, <4>1, <4>2, MinIs
        <4> QED
          BY <2>5, <3>7, <4>3
      <3> QED
        BY <3>1, <3>4, <3>5, <3>6, <3>7
    <2> QED
      BY <2>6, <2>7 DEF RefusedForTheFirstFlaw
  <1> QED
    BY <1>1, Invariance, PTL

(* The two bytes of a number that is printed by name, and of the same field   *)
(* read the other way round.                                                  *)
LEMMA TwoBytes ==
  ASSUME file \in Files, 120 < Len(file), NEW o \in {16, 18}
  PROVE  \E a, b \in Byte : LittleEndian(o, 2) = <<b, a>> /\ Stored(o, 2) = <<a, b>>
  <1> DEFINE a == FileByte(file, o)  b == FileByte(file, o + 1)
             l == LittleEndian(o, 2)  s == Stored(o, 2)
  <1>1. /\ file \in Seq(Byte) /\ o \in Nat /\ 2 \in Nat /\ o + 1 \in Nat
        /\ o + 1 - 1 = o /\ o + 2 - 1 = o + 1 /\ o + 2 - 2 = o
    BY FileIsBytes
  <1>2. /\ l \in Number(2) /\ \A i \in 1 .. 2 : l[i] = FileByte(file, o + 2 - i)
        /\ s \in Number(2) /\ \A i \in 1 .. 2 : s[i] = FileByte(file, o + i - 1)
    BY <1>1, StoredBytes
  <1>3. a \in Byte /\ b \in Byte
    BY <1>1, FileByteType
  <1> HIDE DEF l, s
  <1>4. l[1] = b /\ l[2] = a /\ s[1] = a /\ s[2] = b
    BY <1>1, <1>2
  <1> HIDE DEF a, b
  <1>5. l = <<b, a>> /\ s = <<a, b>>
    <2>1. \A v \in Number(2) : v = <<v[1], v[2]>>
      BY DEF Number
    <2> QED
      BY <1>2, <1>4, <2>1
  <1> QED
    BY <1>3, <1>5 DEF l, s

(* A name of the other byte order is not a name. *)
LEMMA OtherOrder ==
  ASSUME NEW a \in Byte, NEW b \in Byte
  PROVE  /\ <<a, b>> \in ET => <<b, a>> \notin ET \cup ET_BOUNDS
         /\ <<a, b>> \in ISA \ {<<0, 0>>, <<1, 1>>} =>
              <<b, a>> # <<a, b>> /\ Unnamed # <<a, b>>
  <1>1. a \in Int /\ b \in Int
    BY InByte
  <1>2. <<a, b>> \in ET => a = 0 /\ b \in 1 .. 4
    BY DEF ET
  <1>3. <<b, a>> \in ET => b = 0
    BY DEF ET
  <1>4. <<b, a>> \in ET_BOUNDS => b = 254 \/ b = 255
    BY DEF ET_BOUNDS
  <1>5. <<a, b>> \in ISA \ {<<0, 0>>, <<1, 1>>} => a = 0 /\ b # 0
    BY DEF ISA
  <1> QED
    BY <1>1, <1>2, <1>3, <1>4, <1>5 DEF Unnamed

(* The type of a segment has the same byte twice, and no bound has. *)
LEMMA NeverProcessorSpecific ==
  ASSUME NEW v \in Number(4), v[1] = v[3]
  PROVE  stringifyProgramHeaderType(v) # ProcessorSpecific
  <1>1. v \notin PT_BOUNDS
    BY DEF PT_BOUNDS
  <1>2. v # ProcessorSpecific
    BY DEF ProcessorSpecific, Number
  <1>3. Unnamed # ProcessorSpecific
    BY DEF Unnamed, ProcessorSpecific
  <1> QED
    BY <1>1, <1>2, <1>3, Zenon DEF stringifyProgramHeaderType

(* What the names that are printed tell of the file. *)
THEOREM NamesAreOfTheFile == Spec => []PrintedNames
  <1>1. ASSUME Inv PROVE PrintedNames
    <2> DEFINE e == elf_info  h == programHeader
    <2>0. /\ \/ printed = << >> \/ printed = <<PrintedElf(e)>>
             \/ printed = <<PrintedElf(e), PrintedSegment(h)>>
             \/ printed = <<PrintedElf(e), PrintedSegment(h), sectionHeader>>
          /\ printed # << >> => ElfParsed /\ SegmentParsed
      BY <1>1 DEF Inv, Prints, Headers, Steps, Printing
    <2> DEFINE x == PrintedElf(e)  y == PrintedSegment(h)
    <2>1. Len(printed) >= 1 => printed[1] = PrintedElf(e) /\ ElfParsed
      <3> HIDE DEF x, y
      <3>1. \/ printed = << >> \/ printed = <<x>> \/ printed = <<x, y>>
            \/ printed = <<x, y, sectionHeader>>
        BY <2>0 DEF x, y
      <3>2. Len(printed) >= 1 => printed[1] = x
        BY <3>1
      <3>3. Len(printed) >= 1 => printed # << >>
        OBVIOUS
      <3> QED
        BY <2>0, <3>2, <3>3 DEF x
    <2>2. Len(printed) >= 2 => printed[2] = PrintedSegment(h) /\ SegmentParsed /\ ElfParsed
      <3> HIDE DEF x, y
      <3>1. \/ printed = << >> \/ printed = <<x>> \/ printed = <<x, y>>
            \/ printed = <<x, y, sectionHeader>>
        BY <2>0 DEF x, y
      <3>2. Len(printed) >= 2 => printed[2] = y
        BY <3>1
      <3>3. Len(printed) >= 2 => printed # << >>
        OBVIOUS
      <3> QED
        BY <2>0, <3>2, <3>3 DEF y
    <2>3. ASSUME Len(printed) >= 1
          PROVE  LET elf == printed[1] IN
                   /\ elf.abiOs = Unnamed <=> file[8] = 18
                   /\ elf.isLittleEndian <=> file[6] = 1
                   /\ LittleEndian(16, 2) \in ET => elf.type = LittleEndian(16, 2)
                   /\ LittleEndian(18, 2) \in ISA => elf.isa = LittleEndian(18, 2)
                   /\ Stored(16, 2) \in ET => elf.type = Unnamed
                   /\ Stored(18, 2) \in ISA \ {<<0, 0>>, <<1, 1>>} => elf.isa # Stored(18, 2)
      <3> DEFINE elf == printed[1]
      <3>1. ElfParsed /\ elf = PrintedElf(e)
        BY <2>1, <2>3
      <3>2. /\ file \in Files /\ 120 < Len(file) /\ file \in Seq(Byte)
            /\ e = ElfFields(ElfBytes(file)) /\ FirstFailure(ElfBytes(file)) = "none"
        BY <3>1, FileIsBytes DEF ElfParsed
      <3>3. /\ elf.abiOs = stringifyAbiOs(e.abiOs) /\ elf.isLittleEndian = e.isLittleEndian
            /\ elf.type = stringifyElfType(e.type) /\ elf.isa = stringifyIsa(e.isa)
        BY <3>1, <3>2 DEF PrintedElf, ElfFields
      <3> HIDE DEF e, elf
      <3>4. /\ e.isLittleEndian = (FileByte(file, 5) = 1) /\ e.abiOs = FileByte(file, 7)
            /\ e.type = LittleEndian(16, 2) /\ e.isa = LittleEndian(18, 2)
        BY <3>2, ElfFieldsValue
      <3>5. /\ FileByte(file, 5) = file[6] /\ FileByte(file, 7) = file[8]
            /\ file[8] \in Int /\ 0 <= file[8] /\ ElfBytes(file)[7] = file[8]
        <4>1. 5 \in 0 .. 63 /\ 7 \in 0 .. 63 /\ 5 + 1 = 6 /\ 7 + 1 = 8
          OBVIOUS
        <4> QED
          BY <3>2, <4>1, CheckedBytes
      <3>6. file[8] <= 18
        <4>1. ElfBytes(file)[7] <= 18
          BY <3>2, FirstFailureIs
        <4> QED
          BY <3>5, <4>1
      <3>7. elf.abiOs = Unnamed <=> file[8] = 18
        <4>1. <<file[8]>> # Unnamed
          BY DEF Unnamed
        <4>2. file[8] \in OS_ABI <=> file[8] # 18
          BY <3>5, <3>6 DEF OS_ABI
        <4>3. elf.abiOs = IF file[8] \in OS_ABI THEN <<file[8]>> ELSE Unnamed
          BY <3>3, <3>4, <3>5, Zenon DEF stringifyAbiOs
        <4> QED
          BY <4>1, <4>2, <4>3, Zenon
      <3>8. elf.isLittleEndian <=> file[6] = 1
        BY <3>3, <3>4, <3>5
      <3>9. LittleEndian(16, 2) \in ET => elf.type = LittleEndian(16, 2)
        <4>1. \A v \in ET : v \notin ET_BOUNDS
          BY DEF ET, ET_BOUNDS
        <4> QED
          BY <3>3, <3>4, <4>1, Zenon DEF stringifyElfType
      <3>10. LittleEndian(18, 2) \in ISA => elf.isa = LittleEndian(18, 2)
        BY <3>3, <3>4, Zenon DEF stringifyIsa
      <3>11. Stored(16, 2) \in ET => elf.type = Unnamed
        <4>1. PICK a \in Byte :
                \E b \in Byte : LittleEndian(16, 2) = <<b, a>> /\ Stored(16, 2) = <<a, b>>
          BY <3>2, TwoBytes
        <4>2. PICK b \in Byte : LittleEndian(16, 2) = <<b, a>> /\ Stored(16, 2) = <<a, b>>
          BY <4>1
        <4>3. Stored(16, 2) \in ET => LittleEndian(16, 2) \notin ET \cup ET_BOUNDS
          BY <4>2, OtherOrder
        <4> QED
          BY <3>3, <3>4, <4>3, Zenon DEF stringifyElfType
      <3>12. Stored(18, 2) \in ISA \ {<<0, 0>>, <<1, 1>>} => elf.isa # Stored(18, 2)
        <4>1. PICK a \in Byte :
                \E b \in Byte : LittleEndian(18, 2) = <<b, a>> /\ Stored(18, 2) = <<a, b>>
          BY <3>2, TwoBytes
        <4>2. PICK b \in Byte : LittleEndian(18, 2) = <<b, a>> /\ Stored(18, 2) = <<a, b>>
          BY <4>1
        <4>3. Stored(18, 2) \in ISA \ {<<0, 0>>, <<1, 1>>} =>
                LittleEndian(18, 2) # Stored(18, 2) /\ Unnamed # Stored(18, 2)
          BY <4>2, OtherOrder
        <4> QED
          BY <3>3, <3>4, <4>3, Zenon DEF stringifyIsa
      <3> QED
        BY <3>7, <3>8, <3>9, <3>10, <3>11, <3>12 DEF elf
    <2>4. ASSUME Len(printed) >= 2 PROVE printed[2].ph_type # ProcessorSpecific
      <3>1. printed[2] = PrintedSegment(h) /\ SegmentParsed /\ ElfParsed
        BY <2>2, <2>4
      <3>2. file \in Seq(Byte)
        BY <3>1, FileIsBytes DEF ElfParsed
      <3>3. h.ph_type \in Number(4) /\ h.ph_type[1] = h.ph_type[3]
        BY <3>1, <3>2, SegmentValue
      <3>4. printed[2].ph_type = stringifyProgramHeaderType(h.ph_type)
        <4>1. PICK type \in Garbage : \E flags \in Garbage :
                h = ProgramHeader(SegmentBytes(file), type, flags)
          BY <3>1 DEF SegmentParsed
        <4>2. PICK flags \in Garbage : h = ProgramHeader(SegmentBytes(file), type, flags)
          BY <4>1
        <4> QED
          BY <3>1, <4>2 DEF PrintedSegment, ProgramHeader
      <3> HIDE DEF h
      <3> QED
        BY <3>3, <3>4, NeverProcessorSpecific
    <2> QED
      BY <2>3, <2>4 DEF PrintedNames
  <1> QED
    BY <1>1, Invariance, PTL
==============================================================================
