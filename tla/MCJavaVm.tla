-------------------------------- MODULE MCJavaVm ------------------------------
(***************************************************************************)
(* JavaVm for TLC, with image files on both sides of the three bytes that  *)
(* have to be there.                                                       *)
(***************************************************************************)
EXTENDS JavaVm

Lengths == {0, 2, 3, 400}
==============================================================================
