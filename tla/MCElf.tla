-------------------------------- MODULE MCElf --------------------------------
(***************************************************************************)
(* Elf for TLC: a 64-bit and a 32-bit file whose bytes differ from field   *)
(* to field, with one byte of the ELF header altered, with several flaws   *)
(* at once, cut off in and between the headers, and with types, machines   *)
(* and segments that have a name.                                          *)
(***************************************************************************)
EXTENDS Elf

CONSTANTS
  Altered,    \* the values an altered byte takes
  Lengths     \* the lengths files are cut off at

(* A well-formed file of the given class (1: 32-bit, 2: 64-bit). *)
WellFormed(class) ==
  <<127, 69, 76, 70, class, 1, 1, 0, 0, 0, 0, 0, 0, 0, 0, 0>>
    \o [i \in 1 .. 184 |-> (7 * i + 3) % 256]

OneAltered(f) ==
  {[f EXCEPT ![i] = b] : i \in 1 .. 64, b \in Altered}

ManyFlaws(f) ==
  {[f EXCEPT ![1] = m, ![2] = m, ![3] = m, ![4] = m, ![5] = c, ![6] = c,
             ![8] = a, ![16] = a] : m \in {0, 127}, c \in {2, 3}, a \in {0, 19}}

CutOff(f) == {SubSeq(f, 1, n) : n \in Lengths}

(* A value at a place of the file, least or most significant byte first.     *)
Put(f, at, bytes) ==
  [i \in DOMAIN f |-> IF i \in at + 1 .. at + Len(bytes) THEN bytes[i - at] ELSE f[i]]

(* What a compiler puts there: named values and their neighbours.            *)
Named(f) ==
  {[f EXCEPT ![8] = abi] : abi \in {3, 17, 18}}
  \cup {Put(f, 16, v) : v \in {<<1, 0>>, <<4, 0>>, <<0, 254>>, <<1, 254>>}}
  \cup {Put(f, 18, v) : v \in {<<62, 0>>, <<1, 1>>, <<247, 0>>, <<11, 0>>}}
  \cup {Put(f, 64, v) : v \in {<<1, 0, 0, 0>>, <<0, 0, 0, 112>>,
                               <<255, 255, 255, 111>>, <<0, 0, 0, 96>>}}
BigEndian(f) ==
  {Put([f EXCEPT ![6] = 2], 16, type \o isa) :
     type \in {<<0, 1>>, <<0, 4>>, <<254, 0>>}, isa \in {<<0, 62>>, <<0, 8>>}}

ObjectFiles ==
  UNION {OneAltered(f) \cup ManyFlaws(f) \cup CutOff(f) \cup Named(f) \cup BigEndian(f) :
           f \in {WellFormed(1), WellFormed(2)}}

Leftovers == {<<0, 0, 0, 0>>, <<171, 205, 239, 16>>}
==============================================================================
