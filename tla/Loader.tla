-------------------------------- MODULE Loader -------------------------------
(***************************************************************************)
(* readImageFile() of lc3_vm_c/vm.c: an image file is a big-endian origin  *)
(* and big-endian words, which one fread() drops into memory[] as the host *)
(* (little-endian) reads them and a loop then exchanges byte by byte.      *)
(*                                                                         *)
(* A file is the sequence of its bytes.  Neither fread() is checked: a     *)
(* file that is too short for an origin leaves the local variable origin   *)
(* with bytes nobody wrote, and a file of odd length leaves its last byte  *)
(* in a word that the loop does not reach.                                 *)
(***************************************************************************)
EXTENDS Words, SequencesExt

CONSTANTS
  Files,      \* the files that path may name
  NoFile,     \* path names nothing fopen() can open
  Garbage     \* what the uninitialized local variable origin may hold

ASSUME LoaderAssumption ==
  /\ \A f \in Files : f \in Seq(Byte)
  /\ NoFile \notin Files
  /\ Garbage \subseteq Word /\ Garbage # {}

VARIABLES
  file,      \* the contents of the file, or NoFile
  memory,    \* memory[], the cells stored in (the others are 0)
  step,      \* the next statement: "fopen", "origin", "words", "swap", "fclose",
             \* or "done" and "exit" when readImageFile() is over
  origin,    \* the local variables of readImageFile()
  ptr,       \* as a subscript of memory[]
  read

vars == <<file, memory, step, origin, ptr, read>>

Index == 0 .. UINT16_MAX - 1

(* The i-th word of the file as the host reads it, and as it was meant.      *)
HostWord(f, i) == f[2 * i - 1] + 256 * f[2 * i]
GuestWord(f, i) == 256 * f[2 * i - 1] + f[2 * i]

(* Words that follow the origin, and how many of them fit.                   *)
WordsInFile(f) == IF Len(f) < 2 THEN 0 ELSE Len(f) \div 2 - 1
(* Mutation of MaxRead: one cell too many. *)
MaxReadPlusOne == UINT16_MAX + 1 - origin

MaxRead == UINT16_MAX - origin
ItemsRead(f) == IF WordsInFile(f) < MaxRead THEN WordsInFile(f) ELSE MaxRead

(* The byte after the last whole word, which fread() still stores when there *)
(* is room: it becomes the low byte of a cell whose high byte is untouched.  *)
HasStray(f) == Len(f) > 2 /\ Len(f) % 2 = 1 /\ WordsInFile(f) < MaxRead

-------------------------------------------------------------------------------
Init ==
  /\ file \in Files \cup {NoFile}
  /\ memory = << >>
  /\ step = "fopen"
  /\ origin = 0
  /\ ptr = 0
  /\ read = 0

OpenFile ==
  /\ step = "fopen"
  /\ step' = IF file = NoFile THEN "exit" ELSE "origin"
  /\ UNCHANGED <<file, memory, origin, ptr, read>>

(* The uninitialized bytes of origin: all of them, the high one, or none.    *)
RawOrigin(f) ==
  IF Len(f) = 0 THEN Garbage
  ELSE IF Len(f) = 1 THEN {256 * (g \div 256) + f[1] : g \in Garbage}
  ELSE {HostWord(f, 1)}

ReadOrigin ==
  /\ step = "origin"
  /\ \E w \in RawOrigin(file) : origin' = SwapBytes(w)
  /\ step' = "words"
  /\ UNCHANGED <<file, memory, ptr, read>>

(* The cells the second fread() stores in.                                   *)
WordCells == origin .. origin + ItemsRead(file) - 1
StrayCell == IF HasStray(file) THEN {origin + ItemsRead(file)} ELSE {}

ReadWords ==
  /\ step = "words"
  /\ ptr' = origin
  /\ read' = ItemsRead(file)
  /\ memory' = [a \in DOMAIN memory \cup WordCells \cup StrayCell |->
                  IF a \in WordCells THEN HostWord(file, a - origin + 2)
                  ELSE IF a \in StrayCell THEN Last(file) ELSE memory[a]]
  /\ step' = "swap"
  /\ UNCHANGED <<file, origin>>

(* One round of while (read-- > 0); the last test leaves read at 2^32 - 1,   *)
(* which nothing reads any more.                                             *)
(* Mutations of SwapNext: ptr is not advanced; the last word is left out. *)
SwapNextInPlace ==
  /\ step = "swap"
  /\ read > 0
  /\ memory' = [memory EXCEPT ![ptr] = SwapBytes(@)]
  /\ read' = read - 1
  /\ UNCHANGED <<file, step, origin, ptr>>
SwapNextForEver ==
  /\ step = "swap"
  /\ read > 0
  /\ memory' = [memory EXCEPT ![ptr] = SwapBytes(@)]
  /\ UNCHANGED <<file, step, origin, ptr, read>>

SwapNext ==
  /\ step = "swap"
  /\ read > 0
  /\ memory' = [memory EXCEPT ![ptr] = SwapBytes(@)]
  /\ ptr' = ptr + 1
  /\ read' = read - 1
  /\ UNCHANGED <<file, step, origin>>

(* Mutation of SwapDone: while (--read > 0). *)
SwapDoneEarly ==
  /\ step = "swap"
  /\ read <= 1
  /\ step' = "fclose"
  /\ UNCHANGED <<file, memory, origin, ptr, read>>

SwapDone ==
  /\ step = "swap"
  /\ read = 0
  /\ step' = "fclose"
  /\ UNCHANGED <<file, memory, origin, ptr, read>>

CloseFile ==
  /\ step = "fclose"
  /\ step' = "done"
  /\ UNCHANGED <<file, memory, origin, ptr, read>>

Next == OpenFile \/ ReadOrigin \/ ReadWords \/ SwapNext \/ SwapDone \/ CloseFile

Spec == Init /\ [][Next]_vars

FairSpec == Spec /\ WF_vars(Next)

-------------------------------------------------------------------------------
(* Properties. *)

(* The types of the file and of the local variables.                         *)
LocalsOK ==
  /\ file \in Files \cup {NoFile}
  /\ step \in {"fopen", "origin", "words", "swap", "fclose", "done", "exit"}
  /\ origin \in Word
  /\ ptr \in Word
  /\ read \in Word

(* memory[] is stored to only within its bounds, whatever origin the file    *)
(* states and however long it is, and only words are stored.                 *)
TypeOK ==
  /\ LocalsOK
  /\ DOMAIN memory \subseteq Index
  /\ \A a \in DOMAIN memory : memory[a] \in Word

(* When readImageFile() returns, the words of the file are in memory[] from  *)
(* the origin on, as many of them as there are cells, each in guest order,   *)
(* and nothing else is stored.  The exception is the last byte of a file of  *)
(* odd length: it stays in the low byte of its cell, where fread() put it.   *)
LoadedAsStored ==
  step \in {"fclose", "done"} =>
    LET n == ItemsRead(file) IN
      /\ Len(file) >= 2 => origin = GuestWord(file, 1)
      /\ \A i \in 1 .. n : memory[origin + i - 1] = GuestWord(file, i + 1)
      /\ DOMAIN memory = origin .. origin + n - (IF HasStray(file) THEN 0 ELSE 1)
      /\ HasStray(file) => memory[origin + n] = Last(file)

(* No cell is exchanged twice and none is left out: at every round, those    *)
(* before ptr are in guest order and those from ptr on in host order.        *)
SwappedUpToPtr ==
  step = "swap" =>
    /\ ptr + read = origin + ItemsRead(file)
    /\ \A i \in 1 .. ItemsRead(file) :
         memory[origin + i - 1] =
           IF origin + i - 1 < ptr THEN GuestWord(file, i + 1)
                                   ELSE HostWord(file, i + 1)

(* readImageFile() comes to an end, in one of its two ways.                  *)
LoadEnds == <>(step \in {"done", "exit"})
==============================================================================
