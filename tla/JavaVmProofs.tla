----------------------------- MODULE JavaVmProofs -----------------------------
(***************************************************************************)
(* The bound on the program counter of JavaVm, for every size of memory[]  *)
(* and every image file.                                                   *)
(***************************************************************************)
EXTENDS JavaVm, TLAPS

(* The inductive invariant: TypeOK does not say by itself which cells memory *)
(* has, which decides whether a read throws, nor that nothing runs after it. *)
Inv ==
  /\ TypeOK
  /\ DOMAIN memory = 0 .. UINT16_MAX - 1
  /\ registers \in [Registers -> Int]
  /\ step \in {"readImageFile", "loop", "ended"}
  /\ step # "ended" => exception = "none"

(* The program counter stays within one past the address whose read throws.  *)
THEOREM CounterBounded == Spec => []TypeOK
  <1> USE JavaVmAssumption
  <1>0. R_PC \in Registers
    BY DEF R_PC, Registers
  <1>1. Init => Inv
    <2> SUFFICES ASSUME Init PROVE Inv
      OBVIOUS
    <2>1. DOMAIN memory = 0 .. UINT16_MAX - 1
      BY DEF Init
    <2>2. registers \in [Registers -> Int] /\ registers[R_PC] = 0
      BY <1>0 DEF Init
    <2> QED
      BY <2>1, <2>2 DEF Init, Inv, TypeOK
  <1>2. Inv /\ [Next]_vars => Inv'
    <2> SUFFICES ASSUME Inv, [Next]_vars PROVE Inv'
      OBVIOUS
    <2>1. CASE ReadImageFile
      <3>1. /\ UNCHANGED <<memory, registers>>
            /\ registers[R_PC] = 0
            /\ \/ /\ step' = "ended"
                  /\ exception' \in {"FileNotFoundException", "EOFException"}
               \/ step' = "loop" /\ exception' = "none"
        BY <2>1 DEF ReadImageFile, Throw, Inv, TypeOK
      <3> QED
        BY <3>1 DEF Inv, TypeOK
    <2>2. CASE Execute
      <3>1. /\ registers' = [registers EXCEPT ![R_PC] = registers[R_PC] + 1]
            /\ registers[R_PC] \in 0 .. UINT16_MAX
            /\ memory' = memory
            /\ exception = "none"
        BY <2>2 DEF Execute, Inv, TypeOK
      <3>2. registers' \in [Registers -> Int] /\ registers'[R_PC] = registers[R_PC] + 1
        BY <1>0, <3>1 DEF Inv
      <3>3. CASE registers[R_PC] \in DOMAIN memory
        <4>1. step' = "loop" /\ exception' = "none" /\ registers[R_PC] < UINT16_MAX
          BY <2>2, <3>3 DEF Execute, Inv, TypeOK
        <4> QED
          BY <3>1, <3>2, <4>1 DEF Inv, TypeOK
      <3>4. CASE registers[R_PC] \notin DOMAIN memory
        <4>1. /\ step' = "ended" /\ exception' = "ArrayIndexOutOfBoundsException"
              /\ registers[R_PC] = UINT16_MAX
          BY <2>2, <3>1, <3>4 DEF Execute, Throw, Inv
        <4> QED
          BY <3>1, <3>2, <4>1 DEF Inv, TypeOK
      <3> QED
        BY <3>3, <3>4
    <2>3. CASE UNCHANGED vars
      BY <2>3 DEF vars, Inv, TypeOK
    <2> QED
      BY <2>1, <2>2, <2>3 DEF Next
  <1>3. Inv => TypeOK
    BY DEF Inv
  <1> QED
    BY <1>1, <1>2, <1>3, PTL DEF Spec
==============================================================================
