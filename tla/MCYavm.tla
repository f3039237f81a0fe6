-------------------------------- MODULE MCYavm -------------------------------
(***************************************************************************)
(* Yavm for TLC: image files of guests that echo, halt or wait, one that   *)
(* was cut off in the middle of a word, one that starts elsewhere, and     *)
(* some that print a text.                                                 *)
(***************************************************************************)
EXTENDS Yavm

(* Origin 3000; LEA R0, +2; a trap; HALT; and what R0 then points to.        *)
Printer(trap, text) == <<48, 0, 224, 2, 240, trap, 240, 37>> \o text

(* Files that print, and what their authors meant them to: with PUTS a       *)
(* character to a word; with PUTSP two, the first in the low byte.  The      *)
(* terminating 0 is in the file or, after its last word, in .bss.            *)
Printers ==
  { <<Printer(34, <<0, 72, 0, 105>>), <<72, 105>> >>,
    <<Printer(34, <<0, 200, 33, 72, 0, 0, 0, 105>>), <<200, 72>> >>,
    <<Printer(34, << >>), << >> >>,
    <<Printer(36, <<105, 72, 0, 33>>), <<72, 105, 33>> >>,
    <<Printer(36, <<105, 72, 0, 0, 33, 33>>), <<72, 105>> >> }

(* The same cut off after the high byte of a last word: fread() stores that  *)
(* byte as a word of its own, and it is printed as one.                      *)
CutOff ==
  { <<Printer(34, <<0, 72, 33>>), <<72, 33>> >>,
    <<Printer(34, <<0, 72, 0>>), <<72>> >>,
    <<Printer(36, <<105, 72, 33>>), <<72, 105, 33>> >> }

GuestFiles ==
  { <<48, 0, 240, 32, 240, 33, 240, 37>>,   \* 3000: GETC; OUT; HALT
    <<48, 0, 240, 32, 15, 254>>,            \* 3000: GETC; BRnzp -2
    <<48, 0, 240, 35, 240, 37>>,            \* 3000: IN; HALT
    <<48, 0, 240, 37, 240>>,                \* 3000: HALT and half a word
    <<48, 2, 240, 37>> }                    \* 3002: HALT
  \cup {p[1] : p \in Printers \cup CutOff}

(* The characters TextWord finds in the files are the ones meant.            *)
ASSUME Texts ==
  \A p \in Printers \cup CutOff :
    \E n \in 0 .. Len(p[1]) :
      \/ HoldsText(p[1], 34, n) /\ Unpacked(p[1], n) = p[2]
      \/ HoldsText(p[1], 36, n) /\ IsPacked(p[1], n) /\ Packed(p[1], n) = p[2]
==============================================================================
