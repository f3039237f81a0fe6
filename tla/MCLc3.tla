-------------------------------- MODULE MCLc3 --------------------------------
(***************************************************************************)
(* Lc3 for TLC: every three-instruction guest over an alphabet of          *)
(* instruction words, run for at most MaxSteps steps of emulate().         *)
(***************************************************************************)
EXTENDS Lc3

CONSTANT MaxSteps      \* bound on the steps of emulate()

VARIABLE steps         \* how many it has taken

mcVars == <<vars, steps>>

(* An image that places a sequence of words at the start address. *)
AtStart(words) ==
  [a \in StartAddr .. StartAddr + Len(words) - 1 |-> words[a - StartAddr + 1]]

(* One word of each opcode and addressing mode, the offsets chosen so that   *)
(* guests modify themselves, wrap around and reach the edge of memory[].     *)
IsaWords ==
  { 4735,    \* 127F  ADD R1, R1, #-1
    4097,    \* 1001  ADD R0, R0, R1
    21088,   \* 5260  AND R1, R1, #0
    21505,   \* 5401  AND R2, R0, R1
    36927,   \* 903F  NOT R0, R0
    8194,    \* 2002  LD R0, +2
    25600,   \* 6400  LDR R2, R0, #0
    57855,   \* E1FF  LEA R0, -1
    12289,   \* 3001  ST R0, +1
    45058,   \* B002  STI R0, +2
    28798,   \* 707E  STR R0, R1, #-2
    28799,   \* 707F  STR R0, R1, #-1
    2049,    \* 0801  BRn +1
    4094,    \* 0FFE  BRnzp -2
    49600,   \* C1C0  JMP R7
    18433,   \* 4801  JSR +1
    16832,   \* 41C0  JSRR R7
    32768,   \* 8000  RTI
    53248,   \* D000  reserved
    61473,   \* F021  OUT
    61474,   \* F022  PUTS
    61476,   \* F024  PUTSP
    61477,   \* F025  HALT
    61478 }  \* F026  an unassigned trap vector

(* The words that reach the keyboard, with some to loop, print and halt.     *)
IoWords ==
  { 8194,    \* 2002  LD R0, +2
    11266,   \* 2C02  LD R6, +2
    49600,   \* C1C0  JMP R7
    40962,   \* A002  LDI R0, +2
    45058,   \* B002  STI R0, +2
    4094,    \* 0FFE  BRnzp -2
    61472,   \* F020  GETC
    61473,   \* F021  OUT
    61475,   \* F023  IN
    61477 }  \* F025  HALT

(* Guests end in words that are pointers for LDI and STI and, when the guest *)
(* runs into them, unassigned traps.                                         *)
Guests(words, pointers) ==
  { AtStart(code \o pointers) : code \in [1 .. 3 -> words] }

IsaGuests == Guests(IsaWords, <<65534, 65535, 65030>>)
IoGuests == Guests(IoWords, <<MR_KBDR, MR_KBSR, MR_KBDR>>)

MCInit == Init /\ steps = 0

MCNext ==
  \/ steps < MaxSteps /\ Emulate /\ steps' = steps + 1
  \/ User /\ UNCHANGED steps

MCSpec == MCInit /\ [][MCNext]_mcVars
==============================================================================
