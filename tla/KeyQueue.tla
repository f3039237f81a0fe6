------------------------------- MODULE KeyQueue ------------------------------
(***************************************************************************)
(* What the keyboard path promises the guest, whatever mix of KBDR reads,  *)
(* TRAP GETC and TRAP IN it uses: typed keys are handed over one at a      *)
(* time, in the order typed, none lost and none twice, and end of input is *)
(* reported only after the last of them.                                   *)
(***************************************************************************)
EXTENDS Sequences, Naturals

CONSTANT Keys

VARIABLES
  pending,    (* typed, not yet handed to the guest              *)
  received,   (* handed to the guest, oldest first               *)
  closed,     (* no more keys will be typed                      *)
  ended       (* end of input has been reported                  *)

vars == <<pending, received, closed, ended>>

Init ==
  /\ pending = << >>
  /\ received = << >>
  /\ closed = FALSE
  /\ ended = FALSE

Arrive(k) ==
  /\ ~closed
  /\ pending' = Append(pending, k)
  /\ UNCHANGED <<received, closed, ended>>

Close ==
  /\ closed' = TRUE
  /\ UNCHANGED <<pending, received, ended>>

Receive ==
  /\ pending # << >>
  /\ received' = Append(received, Head(pending))
  /\ pending' = Tail(pending)
  /\ UNCHANGED <<closed, ended>>

ReportEnd ==
  /\ closed
  /\ pending = << >>
  /\ ended' = TRUE
  /\ UNCHANGED <<pending, received, closed>>

Next == (\E k \in Keys : Arrive(k)) \/ Close \/ Receive \/ ReportEnd

Spec == Init /\ [][Next]_vars
==============================================================================
