-------------------------------- MODULE Twins --------------------------------
(***************************************************************************)
(* The emulator beside a twin that has the same memory, keyboard and       *)
(* registers but another condition register.  The twin's is kept in cond;  *)
(* it starts with any flag and changes where updateFlags() is called, so   *)
(* that it describes what the machine's own describes from then on, and    *)
(* may differ before.                                                      *)
(***************************************************************************)
EXTENDS Lc3

VARIABLE cond   \* registers[R_COND] of the twin

twinVars == <<vars, cond>>

TwinRegisters == [registers EXCEPT ![R_COND] = cond]

Twin == INSTANCE Lc3 WITH registers <- TwinRegisters

InitCond == cond \in {FL_POS, FL_ZR, FL_NEG}
NextCond == cond' = IF SetsFlags THEN registers'[R_COND] ELSE cond

TwinInit == Init /\ InitCond
TwinNext == Next /\ NextCond

TwinSpec == TwinInit /\ [][TwinNext]_twinVars

(* Nothing a guest does depends on the condition register: whatever it       *)
(* executes, reads and is typed, every step of the machine is a step of the  *)
(* same machine with another flag in R_COND, so no conditional branch (br()  *)
(* never reads R_COND) can tell one result from another.                     *)
CondIsNeverRead == [][Twin!Next]_twinVars
==============================================================================
