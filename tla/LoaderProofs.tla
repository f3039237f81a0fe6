----------------------------- MODULE LoaderProofs -----------------------------
(***************************************************************************)
(* What readImageFile() leaves in memory[], for every file: the counts of  *)
(* the two fread()s keep every store inside the array, the loop exchanges  *)
(* each word that was read exactly once, and the result is the image.      *)
(***************************************************************************)
EXTENDS Loader, WordsProofs

-------------------------------------------------------------------------------
(* The words of a file. *)

(* A pair of bytes, in either order, is a word, and toLittleEndian16() turns *)
(* the one order into the other.                                             *)
LEMMA SwapPair ==
  ASSUME NEW x \in Byte, NEW y \in Byte
  PROVE  /\ x + 256 * y \in Word /\ 256 * x + y \in Word
         /\ SwapBytes(x + 256 * y) = 256 * x + y
  <1>1. x \in Int /\ 0 <= x /\ x <= 255 /\ y \in Int /\ 0 <= y /\ y <= 255
    BY InByte
  <1>2. x + 256 * y \in Word /\ 256 * x + y \in Word
    BY <1>1, InWord
  <1>3. (x + 256 * y) % 256 = x /\ (x + 256 * y) \div 256 = y
    BY <1>1
  <1> QED
    BY <1>1, <1>2, <1>3 DEF SwapBytes

(* The subscripts of memory[] as inequalities. *)
LEMMA InIndex == ASSUME NEW a PROVE a \in Index <=> a \in Int /\ 0 <= a /\ a < 65535
  <1>1. UINT16_MAX \in Int
    BY DEF UINT16_MAX
  <1>2. a \in Index <=> a \in Int /\ 0 <= a /\ a <= UINT16_MAX - 1
    BY <1>1 DEF Index
  <1>3. UINT16_MAX - 1 = 65534
    BY DEF UINT16_MAX
  <1> HIDE DEF Index
  <1> QED
    BY <1>2, <1>3

(* A byte is a word. *)
LEMMA BytesAreWords == Byte \subseteq Word
  BY InByte, InWord

(* How much of a file fits between origin and the end of memory[]: at most   *)
(* the whole words that follow the file's first, and at most MaxRead.        *)
LEMMA ItemsFit ==
  ASSUME NEW f \in Seq(Byte), origin \in Word
  PROVE  /\ ItemsRead(f) \in Nat
         /\ origin + ItemsRead(f) <= UINT16_MAX
         /\ ItemsRead(f) > 0 => 2 * ItemsRead(f) + 2 <= Len(f)
         /\ HasStray(f) => /\ origin + ItemsRead(f) < UINT16_MAX
                           /\ Len(f) > 2
  <1>1. origin \in Int /\ 0 <= origin /\ origin <= 65535 /\ UINT16_MAX = 65535
    BY InWord DEF UINT16_MAX
  <1>2. Len(f) \in Nat
    OBVIOUS
  <1> DEFINE n == WordsInFile(f)
  <1>3. n \in Nat /\ (n > 0 => 2 * n + 2 <= Len(f))
    BY <1>2 DEF WordsInFile
  <1> HIDE DEF n
  <1> QED
    BY <1>1, <1>2, <1>3 DEF ItemsRead, MaxRead, HasStray, n

LEMMA FileWords ==
  ASSUME NEW f \in Seq(Byte), NEW i \in Nat, 1 <= i, 2 * i <= Len(f)
  PROVE  /\ HostWord(f, i) \in Word /\ GuestWord(f, i) \in Word
         /\ SwapBytes(HostWord(f, i)) = GuestWord(f, i)
  <1>1. f[2 * i - 1] \in Byte /\ f[2 * i] \in Byte
    OBVIOUS
  <1> QED
    BY <1>1, SwapPair DEF HostWord, GuestWord

-------------------------------------------------------------------------------
(* The inductive invariant. *)

(* The files that get as far as an fread() are files. *)
FileIsOpen == step \notin {"fopen", "exit"} => file \in Files

(* Nothing is stored before the second fread(). *)
NothingStored == step \in {"fopen", "origin", "words", "exit"} => memory = << >>

(* The origin is the first word of the file, as the guest means it. *)
OriginRead ==
  step \in {"words", "swap", "fclose", "done"} =>
    (Len(file) >= 2 => origin = GuestWord(file, 1))

(* Once it has been read, the image has the shape LoadedAsStored gives it.   *)
Layout ==
  step \in {"swap", "fclose", "done"} =>
    /\ DOMAIN memory = WordCells \cup StrayCell
    /\ HasStray(file) => memory[origin + ItemsRead(file)] = Last(file)

(* Before the loop has been through, see SwappedUpToPtr; then:               *)
AllSwapped ==
  step \in {"fclose", "done"} =>
    \A i \in 1 .. ItemsRead(file) : memory[origin + i - 1] = GuestWord(file, i + 1)

Inv ==
  /\ TypeOK /\ FileIsOpen /\ NothingStored
  /\ OriginRead /\ Layout /\ SwappedUpToPtr /\ AllSwapped

LEMMA InitInv == Init => Inv
  <1> SUFFICES ASSUME Init PROVE Inv
    OBVIOUS
  <1>1. 0 \in Word
    BY InWord
  <1> QED
    BY <1>1
    DEF Init, Inv, LocalsOK, TypeOK, FileIsOpen, NothingStored, OriginRead, Layout,
                SwappedUpToPtr, AllSwapped

(* fopen() *)
LEMMA OpenFileStep == ASSUME Inv, OpenFile PROVE Inv'
  BY DEF OpenFile, Inv, LocalsOK, TypeOK, FileIsOpen, NothingStored, OriginRead, Layout,
         SwappedUpToPtr, AllSwapped

(* The first fread() and the exchange of origin, whatever the bytes that a   *)
(* short file leaves unassigned.                                             *)
LEMMA ReadOriginStep == ASSUME Inv, ReadOrigin PROVE Inv'
  <1>1. file \in Files /\ file \in Seq(Byte)
    BY LoaderAssumption DEF Inv, FileIsOpen, ReadOrigin
  <1>2. PICK w \in RawOrigin(file) : origin' = SwapBytes(w)
    BY DEF ReadOrigin
  <1>3. Len(file) \in Nat
    BY <1>1
  <1>4. w \in Word /\ (Len(file) >= 2 => w = HostWord(file, 1))
    <2>1. CASE Len(file) = 0
      <3>1. w \in Word
        BY <1>2, <2>1, LoaderAssumption DEF RawOrigin
      <3> QED
        BY <2>1, <3>1
    <2>2. CASE Len(file) = 1
      <3>1. PICK g \in Garbage : w = 256 * (g \div 256) + file[1]
        BY <1>2, <2>2 DEF RawOrigin
      <3>2. g \in Word
        BY LoaderAssumption
      <3>3. file[1] \in Byte
        BY <1>1, <2>2
      <3>4. /\ g \in Int /\ 0 <= g /\ g <= 65535
            /\ file[1] \in Int /\ 0 <= file[1] /\ file[1] <= 255
        BY <3>2, <3>3, InWord, InByte
      <3>5. w \in Int /\ 0 <= w /\ w <= 65535
        BY <3>1, <3>4
      <3> QED
        BY <2>2, <3>5, InWord
    <2>3. CASE Len(file) >= 2
      <3>1. RawOrigin(file) = {HostWord(file, 1)}
        <4>1. Len(file) # 0 /\ Len(file) # 1
          BY <1>3, <2>3
        <4> QED
          BY <4>1, Zenon DEF RawOrigin
      <3>2. w = HostWord(file, 1)
        BY <1>2, <3>1
      <3> QED
        BY <1>1, <2>3, <3>2, FileWords
    <2>4. Len(file) = 0 \/ Len(file) = 1 \/ Len(file) >= 2
      BY <1>3
    <2> QED
      BY <2>1, <2>2, <2>3, <2>4
  <1>5. origin' \in Word
    BY <1>2, <1>4, SwapBytesInvolution
  <1>6. Len(file) >= 2 => origin' = GuestWord(file, 1)
    BY <1>1, <1>2, <1>4, FileWords
  <1> QED
    BY <1>1, <1>5, <1>6
    DEF ReadOrigin, Inv, LocalsOK, TypeOK, FileIsOpen, NothingStored, OriginRead, Layout,
        SwappedUpToPtr, AllSwapped

(* The second fread(): it stores within memory[], words only.                *)
LEMMA ReadWordsStep == ASSUME Inv, ReadWords PROVE Inv'
  <1> DEFINE n == ItemsRead(file)
  <1>1. /\ file \in Files /\ file \in Seq(Byte) /\ origin \in Word
        /\ origin \in Int /\ 0 <= origin /\ UINT16_MAX = 65535
        /\ memory = << >> /\ DOMAIN memory = {}
    BY LoaderAssumption, InWord
    DEF Inv, LocalsOK, TypeOK, FileIsOpen, NothingStored, ReadWords, UINT16_MAX
  <1>2. /\ n \in Nat /\ origin + n <= UINT16_MAX
        /\ n > 0 => 2 * n + 2 <= Len(file)
        /\ HasStray(file) => origin + n < UINT16_MAX /\ Len(file) > 2
    BY <1>1, ItemsFit
  <1>3. /\ memory' = [a \in WordCells \cup StrayCell |->
                        IF a \in WordCells THEN HostWord(file, a - origin + 2)
                        ELSE IF a \in StrayCell THEN Last(file) ELSE memory[a]]
        /\ ptr' = origin /\ read' = n /\ file' = file /\ origin' = origin
        /\ step' = "swap"
    BY <1>1 DEF ReadWords
  <1>4. /\ WordCells = origin .. origin + n - 1
        /\ WordCells \subseteq Index
        /\ \A a \in WordCells : HostWord(file, a - origin + 2) \in Word
    <2>1. WordCells = origin .. origin + n - 1
      BY DEF WordCells
    <2> HIDE DEF n
    <2>2. ASSUME NEW a \in WordCells PROVE a \in Index
      BY <1>1, <1>2, <2>1, InIndex
    <2>3. ASSUME NEW a \in WordCells PROVE HostWord(file, a - origin + 2) \in Word
      <3>1. /\ a - origin + 2 \in Nat /\ 1 <= a - origin + 2
            /\ 2 * (a - origin + 2) <= Len(file)
        BY <1>1, <1>2, <2>1
      <3> QED
        BY <1>1, <3>1, FileWords
    <2> QED
      BY <2>1, <2>2, <2>3
  <1>5. /\ StrayCell \subseteq Index /\ StrayCell \cap WordCells = {}
        /\ HasStray(file) => StrayCell = {origin + n}
        /\ \A a \in StrayCell : Last(file) \in Word
    <2>1. HasStray(file) => Last(file) \in Byte
      BY <1>1, <1>2 DEF Last
    <2>2. /\ HasStray(file) => StrayCell = {origin + n}
          /\ ~HasStray(file) => StrayCell = {}
      BY DEF StrayCell
    <2> HIDE DEF n
    <2>3. CASE HasStray(file)
      <3>1. origin + n \in Index /\ origin + n \notin WordCells
        BY <1>1, <1>2, <1>4, <2>3, InIndex
      <3>2. Last(file) \in Word
        BY <2>1, <2>3, BytesAreWords
      <3> QED
        BY <2>2, <2>3, <3>1, <3>2
    <2>4. CASE ~HasStray(file)
      BY <2>2, <2>4
    <2> QED
      BY <2>3, <2>4
  <1>6. ASSUME NEW i \in 1 .. n
        PROVE  memory'[origin + i - 1] = HostWord(file, i + 1)
    <2> HIDE DEF n
    <2>1. origin + i - 1 \in WordCells /\ (origin + i - 1) - origin + 2 = i + 1
      BY <1>1, <1>2, <1>4
    <2> QED
      BY <1>3, <2>1
  <1>7. WordCells' = WordCells /\ StrayCell' = StrayCell
    BY <1>3 DEF WordCells, StrayCell, ItemsRead, MaxRead, HasStray
  <1>8. /\ DOMAIN memory' = WordCells \cup StrayCell
        /\ DOMAIN memory' \subseteq Index
        /\ \A a \in DOMAIN memory' : memory'[a] \in Word
    BY <1>3, <1>4, <1>5
  <1>9. HasStray(file) => memory'[origin + n] = Last(file)
    BY <1>3, <1>5
  <1>10. TypeOK'
    <2>1. n \in Word
      BY <1>1, <1>2, InWord
    <2> HIDE DEF n
    <2>2. read' \in Word /\ ptr' \in Word /\ origin' \in Word
      BY <1>1, <1>3, <2>1
    <2>3. file' \in Files \cup {NoFile}
      BY <1>1, <1>3
    <2>4. step' = "swap"
      BY <1>3
    <2> QED
      BY <1>8, <2>2, <2>3, <2>4 DEF LocalsOK, TypeOK
  <1>11. Layout'
    BY <1>3, <1>7, <1>8, <1>9 DEF Layout, HasStray, WordsInFile, MaxRead, ItemsRead
  <1>12. SwappedUpToPtr'
    <2>1. ItemsRead(file)' = n
      BY <1>3 DEF ItemsRead, MaxRead
    <2>2. ptr' + read' = origin' + n
      BY <1>3
    <2>3. \A i \in 1 .. n : ~(origin + i - 1 < ptr')
      BY <1>1, <1>2, <1>3
    <2> QED
      BY <1>3, <1>6, <2>1, <2>2, <2>3 DEF SwappedUpToPtr
  <1>13. OriginRead'
    BY <1>3 DEF ReadWords, Inv, OriginRead
  <1> QED
    BY <1>1, <1>3, <1>10, <1>11, <1>12, <1>13
    DEF Inv, FileIsOpen, NothingStored, AllSwapped

(* A round of the loop exchanges the bytes of one cell, one that fread()     *)
(* stored a whole word in, and leaves every other as it is.                  *)
LEMMA SwapNextStep == ASSUME Inv, SwapNext PROVE Inv'
  <1> DEFINE n == ItemsRead(file)
  <1>1. /\ file \in Files /\ file \in Seq(Byte)
        /\ origin \in Int /\ 0 <= origin /\ origin \in Word
        /\ ptr \in Int /\ 0 <= ptr /\ ptr <= 65535
        /\ read \in Int /\ 0 < read /\ read <= 65535 /\ UINT16_MAX = 65535
    BY LoaderAssumption, InWord
    DEF Inv, LocalsOK, TypeOK, FileIsOpen, SwapNext, UINT16_MAX
  <1>2. /\ n \in Nat /\ origin + n <= UINT16_MAX
        /\ n > 0 => 2 * n + 2 <= Len(file)
    BY <1>1, ItemsFit
  <1>3. /\ ptr + read = origin + n
        /\ \A i \in 1 .. n :
             memory[origin + i - 1] = IF origin + i - 1 < ptr THEN GuestWord(file, i + 1)
                                                             ELSE HostWord(file, i + 1)
    BY DEF Inv, SwappedUpToPtr, SwapNext
  <1>4. /\ DOMAIN memory = WordCells \cup StrayCell
        /\ HasStray(file) => memory[origin + n] = Last(file)
    BY DEF Inv, Layout, SwapNext
  <1>5. /\ memory' = [memory EXCEPT ![ptr] = SwapBytes(memory[ptr])]
        /\ ptr' = ptr + 1 /\ read' = read - 1
        /\ file' = file /\ step' = step /\ step = "swap" /\ origin' = origin
    BY DEF SwapNext
  <1>6. /\ ItemsRead(file)' = n /\ WordCells' = WordCells /\ StrayCell' = StrayCell
        /\ HasStray(file)' = HasStray(file)
    BY <1>5 DEF ItemsRead, MaxRead, WordCells, StrayCell, HasStray
  <1>7. WordCells = origin .. origin + n - 1
    BY DEF WordCells
  <1> HIDE DEF n
  <1>8. DOMAIN memory' = DOMAIN memory
    BY <1>5
  <1>9. \A a \in DOMAIN memory : memory'[a] \in Word
    BY <1>5, SwapBytesInvolution DEF Inv, LocalsOK, TypeOK
  <1>10. ptr < origin + n
    BY <1>1, <1>2, <1>3
  <1>11. ptr' \in Word /\ read' \in Word /\ ptr' + read' = origin + n
    BY <1>1, <1>2, <1>3, <1>5, <1>10, InWord
  <1>12. ASSUME NEW i \in 1 .. n
         PROVE  memory'[origin + i - 1] = IF origin + i - 1 < ptr' THEN GuestWord(file, i + 1)
                                                                  ELSE HostWord(file, i + 1)
    <2>1. origin + i - 1 \in DOMAIN memory
      BY <1>1, <1>2, <1>4, <1>7
    <2>2. CASE origin + i - 1 = ptr
      <3>1. memory'[ptr] = SwapBytes(HostWord(file, i + 1))
        BY <1>1, <1>3, <1>5, <2>1, <2>2
      <3>2. SwapBytes(HostWord(file, i + 1)) = GuestWord(file, i + 1)
        <4>1. i + 1 \in Nat /\ 1 <= i + 1 /\ 2 * (i + 1) <= Len(file)
          BY <1>1, <1>2
        <4> QED
          BY <1>1, <4>1, FileWords
      <3> QED
        BY <1>1, <1>5, <2>2, <3>1, <3>2
    <2>3. CASE origin + i - 1 # ptr
      <3>1. memory'[origin + i - 1] = memory[origin + i - 1]
        BY <1>5, <2>1, <2>3
      <3>2. origin + i - 1 < ptr' <=> origin + i - 1 < ptr
        BY <1>1, <1>2, <1>5, <2>3
      <3> QED
        BY <1>3, <3>1, <3>2
    <2> QED
      BY <2>2, <2>3
  <1>13. HasStray(file) => memory'[origin + n] = Last(file)
    <2>1. origin + n # ptr
      BY <1>1, <1>2, <1>10
    <2>2. HasStray(file) => origin + n \in DOMAIN memory
      BY <1>4 DEF StrayCell, n
    <2> QED
      BY <1>4, <1>5, <2>1, <2>2
  <1>14. TypeOK'
    BY <1>5, <1>8, <1>9, <1>11 DEF Inv, LocalsOK, TypeOK
  <1>15. Layout'
    BY <1>4, <1>5, <1>6, <1>8, <1>13 DEF Layout
  <1>16. SwappedUpToPtr'
    BY <1>5, <1>6, <1>11, <1>12 DEF SwappedUpToPtr
  <1> QED
    BY <1>5, <1>14, <1>15, <1>16
    DEF Inv, FileIsOpen, NothingStored, OriginRead, AllSwapped

(* The loop ends when read is 0: then ptr is past the last word. *)
LEMMA SwapDoneStep == ASSUME Inv, SwapDone PROVE Inv'
  <1>1. /\ file \in Seq(Byte) /\ origin \in Word /\ origin \in Int /\ ptr \in Int
        /\ read = 0 /\ ptr + read = origin + ItemsRead(file)
    BY LoaderAssumption, InWord
    DEF Inv, LocalsOK, TypeOK, FileIsOpen, SwappedUpToPtr, SwapDone
  <1>2. ItemsRead(file) \in Nat
    BY <1>1, ItemsFit
  <1>3. ASSUME NEW i \in 1 .. ItemsRead(file)
        PROVE  memory[origin + i - 1] = GuestWord(file, i + 1)
    <2>1. origin + i - 1 < ptr
      BY <1>1, <1>2
    <2> QED
      BY <2>1 DEF Inv, SwappedUpToPtr, SwapDone
  <1> QED
    BY <1>3
    DEF SwapDone, Inv, LocalsOK, TypeOK, FileIsOpen, NothingStored, OriginRead, Layout,
        SwappedUpToPtr, AllSwapped, WordCells, StrayCell, ItemsRead, MaxRead, HasStray

LEMMA CloseFileStep == ASSUME Inv, CloseFile PROVE Inv'
  BY DEF CloseFile, Inv, LocalsOK, TypeOK, FileIsOpen, NothingStored, OriginRead, Layout,
         SwappedUpToPtr, AllSwapped, WordCells, StrayCell, ItemsRead, MaxRead, HasStray

LEMMA StutterStep == ASSUME Inv, UNCHANGED vars PROVE Inv'
  BY DEF vars, Inv, LocalsOK, TypeOK, FileIsOpen, NothingStored, OriginRead, Layout,
         SwappedUpToPtr, AllSwapped, WordCells, StrayCell, ItemsRead, MaxRead, HasStray

LEMMA NextInv == Inv /\ [Next]_vars => Inv'
  BY OpenFileStep, ReadOriginStep, ReadWordsStep, SwapNextStep, SwapDoneStep,
     CloseFileStep, StutterStep DEF Next

-------------------------------------------------------------------------------
(* The theorems. *)

THEOREM Invariance == Spec => []Inv
  BY InitInv, NextInv, PTL DEF Spec

(* memory[] is stored to only within its bounds, and only words are.         *)
THEOREM TypeCorrect == Spec => []TypeOK
  <1>1. Inv => TypeOK
    BY DEF Inv
  <1> QED
    BY <1>1, Invariance, PTL

(* No word is exchanged twice, and none is left out (the loop invariant).    *)
THEOREM EachSwappedOnce == Spec => []SwappedUpToPtr
  <1>1. Inv => SwappedUpToPtr
    BY DEF Inv
  <1> QED
    BY <1>1, Invariance, PTL

(* readImageFile() returns with the image in memory[], every word that fits  *)
(* in guest order, and nothing else but the last byte of an odd file.        *)
LEMMA InvLoaded == Inv => LoadedAsStored
  <1> SUFFICES ASSUME Inv, step \in {"fclose", "done"} PROVE LoadedAsStored
    BY DEF LoadedAsStored
  <1> DEFINE n == ItemsRead(file)
  <1>1. file \in Seq(Byte) /\ origin \in Word /\ origin \in Int
    BY LoaderAssumption, InWord DEF Inv, LocalsOK, TypeOK, FileIsOpen
  <1>2. n \in Nat
    BY <1>1, ItemsFit
  <1>3. DOMAIN memory = (origin .. origin + n - 1) \cup
                        (IF HasStray(file) THEN {origin + n} ELSE {})
    BY DEF Inv, Layout, WordCells, StrayCell
  <1>4. (origin .. origin + n - 1) \cup (IF HasStray(file) THEN {origin + n} ELSE {})
          = origin .. origin + n - (IF HasStray(file) THEN 0 ELSE 1)
    <2> HIDE DEF n
    <2>1. CASE HasStray(file)
      BY <1>1, <1>2, <2>1
    <2>2. CASE ~HasStray(file)
      BY <1>1, <1>2, <2>2
    <2> QED
      BY <2>1, <2>2
  <1> QED
    BY <1>3, <1>4 DEF LoadedAsStored, Inv, OriginRead, Layout, AllSwapped

THEOREM ImageIsLoaded == Spec => []LoadedAsStored
  BY InvLoaded, Invariance, PTL

(* What the guest reads j cells behind the origin: a word of the file, its    *)
(* last byte when that is not part of one, or the 0 of .bss.                  *)
StoredWord(j) ==
  LET k == 2 * j + 4
  IN IF k <= Len(file) THEN 256 * file[k - 1] + file[k]
     ELSE IF k = Len(file) + 1 THEN file[k - 1] ELSE 0

LEMMA CellIsStored ==
  ASSUME Inv, step = "done", NEW j \in Nat, origin + j \in Index
  PROVE  (IF origin + j \in DOMAIN memory THEN memory[origin + j] ELSE 0) = StoredWord(j)
  <1> DEFINE n == ItemsRead(file)
             a == origin + j
             size == Len(file)
             words == WordsInFile(file)
  <1>1. file \in Seq(Byte) /\ origin \in Int /\ size \in Nat
    BY LoaderAssumption, InWord DEF Inv, LocalsOK, TypeOK, FileIsOpen
  <1>2. /\ size >= 2 => words = size \div 2 - 1
        /\ size < 2 => words = 0
    BY DEF WordsInFile
  <1>3. words \in Nat /\ j < MaxRead /\ MaxRead \in Nat
    <2>1. MaxRead = 65535 - origin
      BY DEF MaxRead, UINT16_MAX
    <2>2. origin + j < 65535
      BY <1>1, InIndex
    <2> QED
      BY <1>1, <1>2, <2>1, <2>2
  <1>4. n = IF words < MaxRead THEN words ELSE MaxRead
    BY DEF ItemsRead
  <1>5. HasStray(file) <=> size > 2 /\ size % 2 = 1 /\ words < MaxRead
    BY DEF HasStray
  <1>6. /\ \A i \in 1 .. n : memory[origin + i - 1] = GuestWord(file, i + 1)
        /\ DOMAIN memory = origin .. origin + n - (IF HasStray(file) THEN 0 ELSE 1)
        /\ HasStray(file) => memory[origin + n] = Last(file)
    BY InvLoaded DEF LoadedAsStored
  <1> HIDE DEF n, words, size
  <1>7. CASE 2 * j + 4 <= size
    <2>1. j + 1 \in 1 .. n
      BY <1>1, <1>2, <1>3, <1>4, <1>7
    <2>2. memory[origin + (j + 1) - 1] = GuestWord(file, (j + 1) + 1)
      BY <1>6, <2>1
    <2>3. a \in DOMAIN memory
      <3>1. n \in Int
        BY <1>3, <1>4
      <3>2. CASE HasStray(file)
        BY <1>1, <1>6, <2>1, <3>1, <3>2
      <3>3. CASE ~HasStray(file)
        BY <1>1, <1>6, <2>1, <3>1, <3>3
      <3> QED
        BY <3>2, <3>3
    <2>4. origin + (j + 1) - 1 = a
      BY <1>1
    <2>5. GuestWord(file, (j + 1) + 1) = 256 * file[2 * j + 4 - 1] + file[2 * j + 4]
      <3>1. 2 * ((j + 1) + 1) = 2 * j + 4
        OBVIOUS
      <3> QED
        BY <3>1 DEF GuestWord
    <2> QED
      BY <1>7, <2>2, <2>3, <2>4, <2>5 DEF StoredWord, size
  <1>8. CASE 2 * j + 4 = size + 1
    <2>1. n = j /\ HasStray(file)
      BY <1>1, <1>2, <1>3, <1>4, <1>5, <1>8
    <2>2. memory[a] = file[2 * j + 4 - 1]
      <3>1. 2 * j + 4 - 1 = Len(file)
        BY <1>1, <1>8 DEF size
      <3> QED
        BY <1>6, <2>1, <3>1 DEF Last
    <2>3. a \in DOMAIN memory
      BY <1>1, <1>6, <2>1
    <2>4. ~ (2 * j + 4 <= size)
      BY <1>1, <1>8
    <2> QED
      BY <1>8, <2>2, <2>3, <2>4 DEF StoredWord, size
  <1>9. CASE 2 * j + 4 > size + 1
    <2>1. n <= j /\ n \in Nat /\ (HasStray(file) => n < j)
      BY <1>1, <1>2, <1>3, <1>4, <1>5, <1>9
    <2>2. a \notin DOMAIN memory
      BY <1>1, <1>6, <2>1
    <2>3. ~ (2 * j + 4 <= size) /\ 2 * j + 4 # size + 1
      BY <1>1, <1>9
    <2> QED
      BY <2>2, <2>3 DEF StoredWord, size
  <1> QED
    BY <1>1, <1>7, <1>8, <1>9
===============================================================================
