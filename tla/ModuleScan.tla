------------------------------ MODULE ModuleScan ------------------------------
(***************************************************************************)
(* How module.c finds the game's live module: nothing exported leads to    *)
(* it, so all private memory is searched for a structure that looks like   *)
(* one and whose entry point is the function the game is about to call.    *)
(* Other threads change and free memory meanwhile.  A candidate is what    *)
(* the guarded reads at one address made of it, or Fault.                  *)
(***************************************************************************)
EXTENDS Integers, Sequences

CONSTANTS
  Target,       \* address of the function that the game calls first
  MaxCode,      \* 0x10000000, the largest code size believed
  MaxFunctions, \* 10000000, above every index of a function
  Nothing,      \* a null pointer
  Fault,        \* a read that faulted
  Memories      \* what there may be in memory: sequences of candidates

(* Code bounds that hold the target; read once, in one guarded block.        *)
InCode_Closed(c) == c.jit <= Target /\ Target <= c.jit + c.codesize   \* mutant: off by one
InCode(c) == c.jit <= Target /\ Target < c.jit + c.codesize

IsMatch(c) ==
  c # Fault /\ c.jit # Nothing /\ c.codesize \in 1 .. MaxCode /\ InCode(c)

(* Its entry point, read through its code and function pointers, is the      *)
(* target; either read may fault.                                            *)
Validates_Unbounded(c) == c.entry # Fault /\ c.epPtr = Target   \* mutant: any index is used
Validates(c) ==
  /\ c.code # Nothing /\ c.functionsPtrs # Nothing
  /\ c.entry # Fault /\ c.entry \in 0 .. MaxFunctions - 1
  /\ c.epPtr = Target

FirstOf(s) == CHOOSE i \in s : \A j \in s : i <= j
LastOf(s) == CHOOSE i \in s : \A j \in s : i >= j

(* FindPrimaryModule: the first candidate that validates gives the code, and *)
(* all that goes with it.                                                    *)
Found(mem) == {i \in DOMAIN mem : IsMatch(mem[i]) /\ Validates(mem[i])}
Tables_Last(mem) == mem[LastOf(Found(mem))].tables   \* mutant: outputs of a later one
Tables(mem) == mem[FirstOf(Found(mem))].tables

ModuleRecovered(mem) ==
  IF Found(mem) = {} THEN [code |-> Nothing, tables |-> Nothing]
  ELSE [code |-> mem[FirstOf(Found(mem))].code, tables |-> Tables(mem)]
===============================================================================
