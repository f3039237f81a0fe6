--------------------------------- MODULE Yavm --------------------------------
(***************************************************************************)
(* The process lc3_vm_c: main() of main.c puts the terminal in raw mode,   *)
(* loads the image (Loader) and runs it (Lc3), while the user types and    *)
(* may send SIGINT or another signal at any moment.  The settings of the   *)
(* terminal outlive the process, so what matters is what they are when it  *)
(* ends, and what the next run finds.                                      *)
(***************************************************************************)
EXTENDS Naturals, Sequences

CONSTANTS Files, NoFile, Garbage,                               \* see Loader
          StdioBufSize, Keys, MaxKeys, MayHangup, Beyond, MaxStray  \* see Lc3

VARIABLES
  file, memory, step, origin, ptr, read,                  \* readImageFile()
  registers, running, phase, instruction, stdin, stdout,  \* emulate()
  stage,         \* how far main() is, or the SIGINT handler; see Stages
  handler,       \* the action for SIGINT: "default" or "handleInterrupt"
  isatty,        \* is standard input a terminal?
  tio,           \* the settings of the terminal
  original_tio,  \* the static variable of that name
  status,        \* how the process ended
  found          \* history: the settings when the process was started

loaderVars == <<file, step, origin, ptr, read>>
emulatorVars == <<registers, running, phase, instruction, stdout>>
terminalVars == <<handler, isatty, tio, original_tio, found>>
vars == <<loaderVars, memory, emulatorVars, stdin, stage, terminalVars, status>>

Image == INSTANCE Loader
Emulator == INSTANCE Lc3 WITH Images <- {}   \* it runs what Image has loaded

ASSUME YavmAssumption ==
  /\ \A f \in Files : f \in Seq(Image!Byte)
  /\ NoFile \notin Files
  /\ Garbage \subseteq Image!Word /\ Garbage # {}
  /\ StdioBufSize \in Nat \ {0}
  /\ Keys \subseteq Emulator!Byte
  /\ MaxKeys \in Nat
  /\ MayHangup \in BOOLEAN
  /\ Beyond \subseteq Emulator!Word /\ Beyond # {}
  /\ MaxStray \in Nat

(* Settings: the shell's (canonical, echoing), the same without ICANON and   *)
(* ECHO, and all zero as in a struct termios nobody filled in.               *)
Shell == "shell"
Raw == "raw"
Zero == "zero"
WithoutEcho(settings) == IF settings = Shell THEN Raw ELSE settings

(* tcsetattr(): a terminal with all-zero settings (no ICANON, VMIN = 0) does *)
(* not let read() wait.  On a file or a pipe the call fails, unnoticed.      *)
Tcsetattr(settings) ==
  IF isatty THEN tio' = settings /\ stdin' = [stdin EXCEPT !.waits = settings # Zero]
            ELSE UNCHANGED <<tio, stdin>>

Stages == {"main", "signal", "tcgetattr", "tcsetattr", "load", "emulate",
           "restore", "exit", "ended"}
Statuses == {"none", "usage", "wrong path", "returned", "interrupted", "killed",
             "terminated"}

-------------------------------------------------------------------------------
Init ==
  /\ Image!Init
  /\ registers = [r \in Emulator!Registers |-> 0]
  /\ running = FALSE
  /\ phase = "fetch"
  /\ instruction = 0
  /\ stdin = Emulator!NewStdin
  /\ stdout = << >>
  /\ stage = "main"
  /\ handler = "default"
  /\ isatty \in BOOLEAN
  /\ tio = Shell
  /\ original_tio = Zero
  /\ status = "none"
  /\ found = Shell

End(how) == stage' = "ended" /\ status' = how

CheckArguments ==
  /\ stage = "main"
  /\ \/ End("usage")
     \/ stage' = "signal" /\ UNCHANGED status
  /\ UNCHANGED <<loaderVars, memory, emulatorVars, stdin, terminalVars>>

InstallHandler ==
  /\ stage = "signal"
  /\ handler' = "handleInterrupt"
  /\ stage' = "tcgetattr"
  /\ UNCHANGED <<loaderVars, memory, emulatorVars, stdin, isatty, tio,
                 original_tio, found, status>>

(* disableInputBuffering(); on a file or a pipe tcgetattr() fails as well.    *)
(* Mutation of SaveSettings: original_tio is taken of the raw terminal. *)
SaveSettingsTooLate ==
  /\ stage = "tcgetattr"
  /\ original_tio' = IF isatty THEN WithoutEcho(tio) ELSE original_tio
  /\ stage' = "tcsetattr"
  /\ UNCHANGED <<loaderVars, memory, emulatorVars, stdin, handler, isatty, tio,
                 found, status>>

SaveSettings ==
  /\ stage = "tcgetattr"
  /\ original_tio' = IF isatty THEN tio ELSE original_tio
  /\ stage' = "tcsetattr"
  /\ UNCHANGED <<loaderVars, memory, emulatorVars, stdin, handler, isatty, tio,
                 found, status>>

(* Mutation of SetRaw: new is not a copy of original_tio. *)
SetRawUncopied ==
  /\ stage = "tcsetattr"
  /\ Tcsetattr(Zero)
  /\ stage' = "load"
  /\ UNCHANGED <<loaderVars, memory, emulatorVars, handler, isatty, original_tio,
                 found, status>>

SetRaw ==
  /\ stage = "tcsetattr"
  /\ Tcsetattr(WithoutEcho(original_tio))
  /\ stage' = "load"
  /\ UNCHANGED <<loaderVars, memory, emulatorVars, handler, isatty, original_tio,
                 found, status>>

LoadImage ==
  /\ stage = "load"
  /\ Image!Next
  /\ IF step' = "exit" THEN End("wrong path") ELSE UNCHANGED <<stage, status>>
  /\ UNCHANGED <<emulatorVars, stdin, terminalVars>>

(* Mutation of EnterEmulate: the guest starts at the origin of the file. *)
EnterAtOrigin ==
  /\ stage = "load"
  /\ step = "done"
  /\ registers' = [registers EXCEPT ![Emulator!R_PC] = origin]
  /\ running' = TRUE
  /\ stage' = "emulate"
  /\ UNCHANGED <<loaderVars, memory, phase, instruction, stdin, stdout,
                 terminalVars, status>>

EnterEmulate ==
  /\ stage = "load"
  /\ step = "done"
  /\ registers' = [registers EXCEPT ![Emulator!R_PC] = Emulator!StartAddr]
  /\ running' = TRUE
  /\ stage' = "emulate"
  /\ UNCHANGED <<loaderVars, memory, phase, instruction, stdin, stdout,
                 terminalVars, status>>

Run ==
  /\ stage = "emulate"
  /\ Emulator!Emulate
  /\ UNCHANGED <<loaderVars, stage, terminalVars, status>>

(* Mutation of Return: main() waits for a last key. *)
ReturnAfterKey ==
  /\ stage = "emulate"
  /\ phase = "done"
  /\ Emulator!Pending(stdin) # << >>
  /\ End("returned")
  /\ UNCHANGED <<loaderVars, memory, emulatorVars, stdin, terminalVars>>

(* main() returns after emulate(), and puts nothing back.                    *)
Return ==
  /\ stage = "emulate"
  /\ phase = "done"
  /\ End("returned")
  /\ UNCHANGED <<loaderVars, memory, emulatorVars, stdin, terminalVars>>

(* SIGINT reaches the process wherever it is, a blocked getchar() included;  *)
(* inside its own handler it is blocked.                                     *)
Interrupt ==
  /\ stage \notin {"restore", "exit", "ended"}
  /\ IF handler = "default"
     THEN End("killed")
     ELSE stage' = "restore" /\ UNCHANGED status
  /\ UNCHANGED <<loaderVars, memory, emulatorVars, stdin, terminalVars>>

(* SIGTERM, SIGHUP, SIGQUIT: setup() installs no handler for them.           *)
Terminate ==
  /\ stage # "ended"
  /\ End("terminated")
  /\ UNCHANGED <<loaderVars, memory, emulatorVars, stdin, terminalVars>>

(* Mutations of RestoreSettings: nothing is put back; fixed settings are. *)
RestoreNothing ==
  /\ stage = "restore"
  /\ stage' = "exit"
  /\ UNCHANGED <<loaderVars, memory, emulatorVars, stdin, terminalVars, status>>

RestoreFixed ==
  /\ stage = "restore"
  /\ Tcsetattr(Shell)
  /\ stage' = "exit"
  /\ UNCHANGED <<loaderVars, memory, emulatorVars, handler, isatty, original_tio,
                 found, status>>

(* handleInterrupt() *)
RestoreSettings ==
  /\ stage = "restore"
  /\ Tcsetattr(original_tio)
  /\ stage' = "exit"
  /\ UNCHANGED <<loaderVars, memory, emulatorVars, handler, isatty, original_tio,
                 found, status>>

Exit ==
  /\ stage = "exit"
  /\ End("interrupted")
  /\ UNCHANGED <<loaderVars, memory, emulatorVars, stdin, terminalVars>>

Process ==
  \/ CheckArguments \/ InstallHandler \/ SaveSettings \/ SetRaw \/ LoadImage
  \/ EnterEmulate \/ Run \/ Return \/ RestoreSettings \/ Exit

(* The user types while the process runs. *)
Keyboard ==
  /\ stage # "ended"
  /\ Emulator!User
  /\ UNCHANGED <<loaderVars, stage, terminalVars, status>>

(* The program is run again, with the terminal as it was left or put right   *)
(* by the user; a new process has everything else as at first.               *)
RunAgain ==
  /\ stage = "ended"
  /\ tio' \in {tio, Shell} /\ found' = tio'
  /\ isatty' \in BOOLEAN /\ original_tio' = Zero /\ handler' = "default"
  /\ file' \in Files \cup {NoFile}
  /\ memory' = << >> /\ step' = "fopen" /\ origin' = 0 /\ ptr' = 0 /\ read' = 0
  /\ registers' = [r \in Emulator!Registers |-> 0] /\ running' = FALSE
  /\ phase' = "fetch" /\ instruction' = 0
  /\ stdin' = [Emulator!NewStdin EXCEPT !.waits = ~(isatty' /\ tio' = Zero)]
  /\ stdout' = << >>
  /\ stage' = "main" /\ status' = "none"

Next == Process \/ Interrupt \/ Terminate \/ Keyboard \/ RunAgain

Spec == Init /\ [][Next]_vars

(* The process is scheduled as long as it can take a step.                   *)
FairSpec == Spec /\ WF_vars(Process)

-------------------------------------------------------------------------------
(* Properties. *)

(* Types; the emulator's are those of Lc3 in every state of the process, and *)
(* those of the loader hold until the guest runs: a guest may store behind   *)
(* memory[], the loader does not.                                            *)
TypeOK ==
  /\ Image!LocalsOK
  /\ stage \in {"main", "signal", "tcgetattr", "tcsetattr", "load"} => Image!TypeOK
  /\ Emulator!TypeOK
  /\ stage \in Stages
  /\ handler \in {"default", "handleInterrupt"}
  /\ {tio, original_tio, found} \subseteq {Shell, Raw, Zero}
  /\ status \in Statuses

(* How the process leaves the terminal it found: raw mode is undone by       *)
(* Ctrl-C only, and by that only once tcgetattr() has run.  In the window    *)
(* between signal() and tcgetattr() the handler installs an all-zero struct  *)
(* termios.                                                                  *)
TerminalAtExit ==
  stage = "ended" /\ isatty =>
    /\ status # "none"
    /\ status \in {"usage", "killed"} => tio = found
    /\ status \in {"returned", "wrong path"} => tio = WithoutEcho(found)
    /\ status = "interrupted" => tio = original_tio /\ tio \in {found, Zero}
    /\ status = "terminated" => \/ tio \in {found, WithoutEcho(found)}
                                \/ original_tio = Zero

(* While the terminal is not as it was found, original_tio holds what it     *)
(* was: there is no moment after which an interrupt could not bring the      *)
(* settings back.                                                            *)
RawIsRestorable == tio # found => \/ original_tio = found
                                  \/ stage \in {"exit", "ended"}

(* A terminal that one run has left raw or zeroed is out of the reach of the *)
(* next: that run takes the raw settings for the user's own, and no way it   *)
(* ends, Ctrl-C included, makes the terminal echo again.                     *)
NothingBringsItBack == found # Shell => tio # Shell

(* getchar() reports an end of input that nobody sent (stdin is open, keys   *)
(* may follow) only in a run that found the terminal zeroed, as a Ctrl-C in  *)
(* the window before tcgetattr() of an earlier run leaves it.                *)
FalseEndOfInput == stdin.eof /\ ~stdin.closed => isatty /\ found = Zero

(* The guest runs on the image as the file states it, with every register 0  *)
(* but the program counter, which is 0x3000 whatever the file's origin is.   *)
GuestStartsClean ==
  [][stage # "emulate" /\ stage' = "emulate" =>
       /\ Image!LoadedAsStored
       /\ \A r \in Emulator!Registers :
            registers'[r] = IF r = Emulator!R_PC THEN 12288 ELSE 0
       /\ stdin.taken = << >> /\ stdout = << >>]_vars

(* Image files that print a text: 3000; LEA R0, +2; PUTS or PUTSP; HALT; and *)
(* n words that are not 0.  The 0 behind them is in the file or, after its   *)
(* last word, in .bss.  When the file was cut off in the middle of a word,   *)
(* fread() stores its last byte as a word of its own.                        *)
TextWord(f, i) ==
  LET k == 8 + 2 * i
  IN IF k <= Len(f) THEN 256 * f[k - 1] + f[k] ELSE IF k = Len(f) + 1 THEN f[k - 1] ELSE 0
HoldsText(f, trap, n) ==
  /\ Len(f) >= 8 /\ SubSeq(f, 1, 8) = <<48, 0, 224, 2, 240, trap, 240, 37>>
  /\ \A i \in 1 .. n : TextWord(f, i) # 0
  /\ TextWord(f, n + 1) = 0 /\ 12291 + n \in Image!Index

(* The characters of the text: for PUTS a word is one; for PUTSP it is two,  *)
(* the first in the low byte, and only the last word may lack its second.    *)
Unpacked(f, n) == [i \in 1 .. n |-> TextWord(f, i) % 256]
IsPacked(f, n) == \A i \in 1 .. n - 1 : TextWord(f, i) \div 256 # 0
Packed(f, n) ==
  [j \in 1 .. IF n > 0 /\ TextWord(f, n) \div 256 = 0 THEN 2 * n - 1 ELSE 2 * n |->
     IF j % 2 = 1 THEN TextWord(f, (j + 1) \div 2) % 256 ELSE TextWord(f, j \div 2) \div 256]

(* From the bytes of the file to standard output, through fread(), the byte  *)
(* exchange, LEA, the flat memory, PUTS or PUTSP and HALT: a run that        *)
(* returns has printed the text of its file, once, before "Halting...".      *)
PrintsItsText ==
  status = "returned" =>
    \A n \in 0 .. Len(file) :
      /\ HoldsText(file, Emulator!TRAP_PUTS, n) =>
           stdout = <<Unpacked(file, n), <<Emulator!HALTING>> >>
      /\ HoldsText(file, Emulator!TRAP_PUTSP, n) /\ IsPacked(file, n) =>
           stdout = <<Packed(file, n), <<Emulator!HALTING>> >>

(* TRAP HALT ends the process, unless something else has.                    *)
HaltEnds == (stage = "emulate" /\ ~running) ~> stage = "ended"
==============================================================================
