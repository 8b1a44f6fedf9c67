------------------------------- MODULE MCMinHook -------------------------------
(***************************************************************************)
(* Buffers and Trampoline in one run: where a slot comes from, and what is *)
(* done with it.  Neither reads or writes the other's variables, so that a *)
(* behaviour has one of them move and the other stay as it begins; for     *)
(* Buffers' moves any one function does.                                   *)
(***************************************************************************)
EXTENDS MCTrampoline, Buffers

VARIABLE moves   \* "buffers" or "hook"

MinHookInit ==
  /\ Init /\ HookInit
  /\ moves \in {"buffers", "hook"}
  /\ moves = "buffers" => body = CHOOSE b \in Bodies : TRUE

BuffersMove == moves = "buffers" /\ Next /\ UNCHANGED <<hookVars, moves>>
HookMoves == moves = "hook" /\ HookNext /\ UNCHANGED <<vars, moves>>

(* Fairness is theirs: of the search, and of the installing thread.          *)
MinHookSpec ==
  /\ MinHookInit /\ [][BuffersMove \/ HookMoves]_<<vars, hookVars, moves>>
  /\ WF_vars(moves = "buffers" /\ Search)
  /\ WF_hookVars(moves = "hook" /\ Install)
===============================================================================
