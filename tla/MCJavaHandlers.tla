---------------------------- MODULE MCJavaHandlers ----------------------------
(***************************************************************************)
(* JavaAsC for TLC: every three-word guest over an alphabet of             *)
(* instruction words, followed by cells that serve as pointers and texts.  *)
(***************************************************************************)
EXTENDS JavaAsC

(* One word of each handler and addressing mode, offsets to both sides.      *)
Alphabet ==
  { 4735,    \* 127F  ADD R1, R1, #-1
    4097,    \* 1001  ADD R0, R0, R1
    21505,   \* 5401  AND R2, R0, R1
    36927,   \* 903F  NOT R0, R0
    8193,    \* 2001  LD R0, +1
    8703,    \* 21FF  LD R0, -1
    41473,   \* A201  LDI R1, +1
    25601,   \* 6401  LDR R2, R0, #1
    57345,   \* E001  LEA R0, +1
    57855,   \* E1FF  LEA R0, -1
    12289,   \* 3001  ST R0, +1
    45050,   \* AFFA  LDI R7, -6
    45056,   \* B000  STI R0, +0
    28738,   \* 7042  STR R0, R1, #2
    3585,    \* 0E01  BRnzp +1
    2558,    \* 09FE  BRn -2
    18433,   \* 4801  JSR +1
    16448,   \* 4040  JSRR R1
    49600,   \* C1C0  JMP R7
    32768,   \* 8000  RTI
    61472,   \* F020  GETC
    61473,   \* F021  OUT
    61474,   \* F022  PUTS
    61475,   \* F023  IN
    61476,   \* F024  PUTSP
    61477,   \* F025  HALT
    61478 }  \* F026  an unassigned trap vector

(* What follows: a letter, a small pointer, a pointer past the end of        *)
(* memory[].  Executed, they are branches that are not taken.                *)
Data == <<72, 3, 300, 0, 0, 4>>

Guest(code) == [a \in 0 .. 8 |-> (code \o Data)[a + 1]]

Guests == { Guest(code) : code \in [1 .. 3 -> Alphabet] }

(* The letters among 16-bit chars: Latin, Thai, Myanmar, Ethiopic, CJK, Yi   *)
(* and Hangul, the blocks that instruction words fall into.                  *)
SomeLetters(c) ==
  \/ c \in 65 .. 90      \/ c \in 97 .. 122     \/ c \in 3585 .. 3632
  \/ c \in 4096 .. 4138  \/ c \in 4608 .. 4680  \/ c \in 4704 .. 4744
  \/ c \in 13312 .. 19903 \/ c \in 19968 .. 40956 \/ c \in 40960 .. 42124
  \/ c \in 44032 .. 55203
===============================================================================
