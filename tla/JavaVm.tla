-------------------------------- MODULE JavaVm --------------------------------
(***************************************************************************)
(* The program lc3_vm_java: Main.main() as it runs.  readImageFile() reads *)
(* the image into a local array and drops it, and every case of the switch *)
(* is empty, so the loop walks over a memory nothing is ever stored in.    *)
(* JavaHandlers models the handlers of Main.java, which nothing calls.     *)
(***************************************************************************)
EXTENDS Integers

CONSTANTS
  UINT16_MAX,   \* the size of memory[]; 65536 in the code
  FileLengths,  \* how many bytes the image at the hard-coded path may have
  NoFile        \* there is nothing at that path

ASSUME JavaVmAssumption ==
  /\ UINT16_MAX \in Nat
  /\ FileLengths \subseteq Nat
  /\ NoFile \notin FileLengths

VARIABLES
  file,        \* the length of the image file, or NoFile
  memory,      \* memory[]
  registers,   \* registers[R_COUNT]
  running,     \* the flag main() loops on
  step,        \* "readImageFile", "loop" or "ended"
  exception    \* what main() threw, "none" while it has thrown nothing

vars == <<file, memory, registers, running, step, exception>>

R_PC == 8
Registers == 0 .. 9

Init ==
  /\ file \in FileLengths \cup {NoFile}
  /\ memory = [a \in 0 .. UINT16_MAX - 1 |-> 0]
  /\ registers = [r \in Registers |-> 0]
  /\ running = FALSE
  /\ step = "readImageFile"
  /\ exception = "none"

Throw(name) == step' = "ended" /\ exception' = name

(* The constructor of FileInputStream, readByte() and readShort() throw; the  *)
(* read() of the rest takes any count.                                        *)
ReadImageFile ==
  /\ step = "readImageFile"
  /\ CASE file = NoFile -> Throw("FileNotFoundException") /\ UNCHANGED running
       [] file # NoFile /\ file < 3 -> Throw("EOFException") /\ UNCHANGED running
       [] OTHER -> step' = "loop" /\ running' = TRUE /\ UNCHANGED exception
  /\ UNCHANGED <<file, memory, registers>>

(* Mutations of Execute: the program counter is a 16-bit register; an         *)
(* instruction of zeros halts.                                                *)
ExecuteWrapping ==
  /\ step = "loop" /\ running
  /\ registers' = [registers EXCEPT ![R_PC] = (@ + 1) % UINT16_MAX]
  /\ UNCHANGED <<file, memory, running, step, exception>>
ExecuteUnchecked ==
  /\ step = "loop" /\ running
  /\ registers' = [registers EXCEPT ![R_PC] = @ + 1]
  /\ IF registers[R_PC] <= UINT16_MAX
     THEN UNCHANGED <<step, exception>>
     ELSE Throw("ArrayIndexOutOfBoundsException")
  /\ UNCHANGED <<file, memory, running>>

(* One round of the loop: the program counter is advanced, then memory[] is   *)
(* read, which throws past its end, then the switch does nothing.             *)
Execute ==
  /\ step = "loop" /\ running
  /\ registers' = [registers EXCEPT ![R_PC] = @ + 1]
  /\ IF registers[R_PC] \in DOMAIN memory
     THEN UNCHANGED <<step, exception>>
     ELSE Throw("ArrayIndexOutOfBoundsException")
  /\ UNCHANGED <<file, memory, running>>

Next == ReadImageFile \/ Execute

Spec == Init /\ [][Next]_vars

FairSpec == Spec /\ WF_vars(Next)

-------------------------------------------------------------------------------
(* Properties. *)

(* The program counter is at most two past the last address, one past the     *)
(* address whose read throws, and is 0 until the loop is entered.             *)
TypeOK ==
  /\ registers[R_PC] \in 0 .. UINT16_MAX + 1
  /\ step = "readImageFile" => registers[R_PC] = 0
  /\ step = "loop" => registers[R_PC] <= UINT16_MAX /\ exception = "none"
  /\ exception = "ArrayIndexOutOfBoundsException" => registers[R_PC] = UINT16_MAX + 1

(* main() never returns: it ends in an exception, whatever the image is.      *)
EndsInException == <>(exception # "none")
==============================================================================
