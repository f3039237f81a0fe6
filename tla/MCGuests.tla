------------------------------- MODULE MCGuests ------------------------------
(***************************************************************************)
(* Lc3 for TLC with guests that halt by themselves or run for ever without *)
(* printing, so that no bound on the steps of emulate() stands between     *)
(* them and what must eventually happen.                                   *)
(***************************************************************************)
EXTENDS Lc3

AtStart(words) ==
  [a \in StartAddr .. StartAddr + Len(words) - 1 |-> words[a - StartAddr + 1]]

(* Guests that echo the keyboard.                                            *)
Echoers ==
  { AtStart(<<61472, 61473, 61472, 61473, 61472, 61473, 61477>>),
                                               \* (GETC; OUT) x 3; HALT
    AtStart(<<61475, 61472, 61473, 61475, 61475, 61477>>) }
                                               \* IN; GETC; OUT; IN; IN; HALT

(* A guest that goes once through what the others do not use, then halts. *)
Tour ==
  AtStart(<<4735, 21088, 36927,         \* ADD R1, R1, -1; AND R1, R1, 0; NOT R0, R0
            32768, 53248, 61478,        \* RTI; reserved; an unassigned trap
            60418, 49600, 61477,        \* LEA R6, +2; JMP R6; (HALT)
            18432,                      \* JSR +0
            57351, 12807, 45572, 29184, \* LEA R0, +7; ST R1, +7; STI R1, +4;
                                        \* STR R1, R0, 0
            61474, 61476, 61477,        \* PUTS; PUTSP; HALT
            12306>>)                    \* the pointer of STI

(* Guests that poll: the pointer LDI goes through is the last word.          *)
Pollers ==
  { AtStart(<<40961, 4094, MR_KBDR>>),         \* LDI R0, KBDR; BRnzp -2
    AtStart(<<40963, 40963, 4093, 0, MR_KBSR, MR_KBDR>>),
                                               \* LDI R0, KBSR; LDI R0, KBDR;
                                               \* BRnzp -3
    AtStart(<<11266, 27008, 4094, MR_KBDR>>) } \* LD R6, KBDR's address;
                                               \* LDR R4, R6, 0; BRnzp -2

(* Guests that should leave a loop or return from a call by the instruction  *)
(* set, and go round for ever on this machine.                               *)
Looping ==
  { AtStart(<<4704, 3070, 61477>>),            \* ADD R1, R1, 0; BRnp -2; HALT
    AtStart(<<60927, 18433, 61477, 49600>>),   \* LEA R6, -1; JSR +1; HALT;
                                               \* (the subroutine) JMP R7
    AtStart(<<60930, 16832, 4093, 61477>>) }   \* LEA R7, +2; JSRR R7; BRnzp -3;
                                               \* (the subroutine) HALT

(* Calls that do return here: the link is in R6, or the base is not R7.      *)
Returning ==
  { AtStart(<<18433, 61477, 7648, 49600>>),    \* JSR +1; HALT;
                                               \* ADD R6, R7, 0; JMP R7
    AtStart(<<59906, 16704, 4093, 61477>>) }   \* LEA R5, +2; JSRR R5; BRnzp -3;
                                               \* (the subroutine) HALT

AllGuests == Echoers \cup {Tour} \cup Pollers \cup Looping \cup Returning

(* A guest that waits with GETC or IN is given every key, including the ones *)
(* read() moved into the FILE buffer together with an earlier one.           *)
EveryKeyIsServed ==
  memory \in Echoers /\ Pending(stdin) # << >> ~> (Pending(stdin) = << >> \/ ~running)

(* A polling guest is given every key once the writer closes stdin: until    *)
(* then keys may be left in the FILE buffer, where select() does not look.   *)
ClosingDrains == memory \in Pollers /\ stdin.closed ~> Pending(stdin) = << >>

(* The guest's control flow, end to end.  br() takes a conditional branch    *)
(* whatever the result was, JMP always goes through R6, and JSRR R7 goes to  *)
(* the instruction after itself: loops and calls written against the         *)
(* instruction set come round to their start again and again; calls that     *)
(* keep clear of these three get to their HALT.                              *)
LoopsAndCalls ==
  /\ memory \in Looping ~> (running /\ phase = "execute" /\ registers[R_PC] = StartAddr + 1)
  /\ memory \in Returning ~> ~running
==============================================================================
