-------------------------------- MODULE Stdin --------------------------------
(***************************************************************************)
(* Standard input as vm.c uses it: the kernel's queue, which select() sees *)
(* and read() empties, and the C library's buffer in front of it, which    *)
(* getchar() takes from and select() does not see.  The two are external   *)
(* to src/; they are modelled from the calls in memoryRead, trapGetc and   *)
(* trapIn.  The state is one record s:                                     *)
(*   tty    bytes typed and still in the kernel's queue                    *)
(*   closed the writing side of stdin is gone (no more bytes will come)    *)
(*   waits  read() waits for a byte; on a terminal whose settings are all  *)
(*          zero (not canonical, VMIN = VTIME = 0) it returns at once      *)
(*   buf    bytes read into the FILE buffer and not yet returned           *)
(*   eof    the end-of-file indicator of the FILE                          *)
(*   taken  history: the bytes getchar() has returned, oldest first        *)
(***************************************************************************)
EXTENDS Words, Sequences

CONSTANT StdioBufSize   \* the most bytes one read() moves into the FILE buffer

ASSUME StdioBufSizeAssumption == StdioBufSize \in Nat \ {0}

EOF == 65535            \* (uint16_t) of getchar()'s -1

StdinType ==
  [tty : Seq(Byte), closed : BOOLEAN, waits : BOOLEAN, buf : Seq(Byte),
   eof : BOOLEAN, taken : Seq(Byte)]

NewStdin ==
  [tty |-> << >>, closed |-> FALSE, waits |-> TRUE, buf |-> << >>,
   eof |-> FALSE, taken |-> << >>]

(* The bytes typed and not yet given to the program, oldest first. *)
Pending(s) == s.buf \o s.tty

(* Mutation of Readable: end of file does not count. *)
ReadableKeysOnly(s) == s.tty # << >>

(* select() on file descriptor 0 with a zero timeout: is there something to  *)
(* read() without blocking?  End of file counts, the FILE buffer does not.   *)
Readable(s) == s.tty # << >> \/ s.closed

(* A byte arrives, and the writing side goes away. *)
Typed(s, k) == [s EXCEPT !.tty = Append(@, k)]
Hungup(s) == [s EXCEPT !.closed = TRUE]

(* One read() of the library into its empty buffer. *)
ReadCount(s) == IF Len(s.tty) < StdioBufSize THEN Len(s.tty) ELSE StdioBufSize
Refill(s) ==
  [s EXCEPT !.buf = SubSeq(s.tty, 1, ReadCount(s)),
            !.tty = SubSeq(s.tty, ReadCount(s) + 1, Len(s.tty))]

(* Mutation of Give: the byte is not removed. *)
GiveAgain(s) ==
  [val |-> Head(s.buf), in |-> [s EXCEPT !.taken = Append(@, Head(s.buf))]]

(* The byte at the head of the FILE buffer is returned. *)
Give(s) ==
  [val |-> Head(s.buf),
   in  |-> [s EXCEPT !.buf = Tail(@), !.taken = Append(@, Head(s.buf))]]

(* Mutation of Getchar: the buffer is only used when the kernel has something *)
(* as well.                                                                   *)
GetcharIfReadable(s) ==
  CASE s.tty # << >> -> {Give(IF s.buf = << >> THEN Refill(s) ELSE s)}
    [] s.tty = << >> /\ s.closed ->
         {[val |-> EOF, in |-> [s EXCEPT !.eof = TRUE]]}
    [] OTHER -> {}

(* A read() of the empty queue returns 0, which the library takes for the    *)
(* end of the file.                                                          *)
NothingToRead(s) == s.tty = << >> /\ (s.closed \/ ~s.waits)

(* getchar(): the set of its outcomes (what it returns and the state it      *)
(* leaves), empty while the call blocks.                                     *)
Getchar(s) ==
  CASE s.buf # << >> -> {Give(s)}
    [] s.buf = << >> /\ ~s.eof /\ s.tty # << >> -> {Give(Refill(s))}
    [] s.buf = << >> /\ (s.eof \/ NothingToRead(s)) ->
         {[val |-> EOF, in |-> [s EXCEPT !.eof = TRUE]]}
    [] OTHER -> {}
==============================================================================
