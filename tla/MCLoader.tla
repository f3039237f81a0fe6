------------------------------- MODULE MCLoader ------------------------------
(***************************************************************************)
(* Loader for TLC: files of every length up to MaxLength over a few byte   *)
(* values, and origins at both ends of memory[].                           *)
(***************************************************************************)
EXTENDS Loader

CONSTANTS
  Bytes,       \* the byte values a file is made of
  MaxLength    \* bound on the bytes that follow the origin

(* Origins: the usual one, and the last three addresses, so that files are   *)
(* cut off after two words, one word and none.                               *)
Origins == {<<48, 0>>, <<255, 253>>, <<255, 254>>, <<255, 255>>}

ImageFiles ==
  {<< >>, <<48>>} \cup
  {o \o body : o \in Origins, body \in UNION {[1 .. n -> Bytes] : n \in 0 .. MaxLength}}
==============================================================================
