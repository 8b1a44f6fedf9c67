------------------------------- MODULE CodeFlow -------------------------------
(***************************************************************************)
(* What hooking must not change: threads run a function's first bytes from *)
(* instruction to instruction, as these say.  Past those bytes nothing is  *)
(* distinguished; -1 is outside the function.                              *)
(***************************************************************************)
EXTENDS Integers

CONSTANT Threads
VARIABLES
  body,  \* the first instructions, by position
  at     \* each thread's position, or Outside of the function

Outside == -1

Succ(n) ==
  LET i == body[n]
      next == n + i.len
  IN  CASE i.kind \in {"plain", "call"} -> {next}
        [] i.kind = "jmp" -> {i.dest}
        [] i.kind \in {"jcc", "loop"} -> {i.dest, next}
        [] i.kind = "ret" -> {Outside}

Enter(t) == at[t] = Outside /\ at' = [at EXCEPT ![t] = 0]

Run(t) ==
  /\ at[t] # Outside /\ at[t] \in DOMAIN body
  /\ at' \in {[at EXCEPT ![t] = n] : n \in Succ(at[t])}

Leave(t) ==
  /\ at[t] # Outside /\ at[t] \notin DOMAIN body
  /\ at' = [at EXCEPT ![t] = Outside]

Init == at = [t \in Threads |-> Outside]
Next == \E t \in Threads : (Enter(t) \/ Run(t) \/ Leave(t)) /\ UNCHANGED body
Spec == Init /\ [][Next]_<<body, at>>
===============================================================================
