------------------------------- MODULE MCTwins -------------------------------
(***************************************************************************)
(* Twins for TLC: the guests and the bound on steps of MCLc3.              *)
(***************************************************************************)
EXTENDS MCLc3, Twins

MCTwinSpec ==
  MCInit /\ InitCond /\ [][MCNext /\ NextCond]_<<mcVars, cond>>
==============================================================================
