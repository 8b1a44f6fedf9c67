------------------------------ MODULE Trampoline ------------------------------
(***************************************************************************)
(* MinHook at work on one function: CreateTrampolineFunction relocates its *)
(* first instructions, EnableHook suspends the other threads, moves those  *)
(* caught in the bytes to be overwritten, writes the jump and resumes      *)
(* them; when the page cannot be unprotected, the hook is removed.         *)
(* Threads run the function all the while.                                 *)
(***************************************************************************)
EXTENDS Integers, FiniteSets

CONSTANTS
  Threads,    \* the game's threads, other than the one that installs
  Bodies,     \* functions: their instructions up to the fifth byte or their end
  Padded,     \* those followed by padding when shorter than five bytes
  ProtectMayFail   \* whether VirtualProtect can refuse

Outside == -1
JmpRel == 5       \* sizeof(JMP_REL), the jump to be written
JmpAbs == 14
CallAbs == 16
JccAbs == 16
MaxSize == 50     \* TRAMPOLINE_MAX_SIZE
MaxIPs == 8       \* ARRAYSIZE(oldIPs)

ASSUME TrampolineAssumption ==
  /\ \A b \in Bodies :
       /\ 0 \in DOMAIN b /\ DOMAIN b \subseteq 0 .. JmpRel - 1
       /\ \A n \in DOMAIN b :
            LET next == n + b[n].len
            IN  /\ b[n] \in [kind : {"plain", "call", "jmp", "jcc", "loop", "ret"}, len : 1 .. 15,
                             dest : {Outside} \cup DOMAIN b]
                /\ \A k \in DOMAIN b : n < k => next <= k
                /\ \/ next \in DOMAIN b \/ next >= JmpRel
                   \/ /\ b[n].kind = "ret" \/ (b[n].kind = "jmp" /\ b[n].dest = Outside)
                      /\ \A k \in DOMAIN b : k <= n
  /\ Padded \subseteq Bodies /\ ProtectMayFail \in BOOLEAN

VARIABLES
  body,                    \* the function being hooked
  phase,                   \* of the installing thread
  oldPos, newPos, jmpDest, \* CreateTrampolineFunction's locals; -1 is no address
  tramp,      \* the trampoline: what was written at each position, and from where
  written,    \* bytes of the jump in place: {}, {"opcode"}, or both
  suspended,  \* threads suspended
  todo,       \* threads still to be suspended, or resumed
  loc         \* where each thread is

hookVars == <<body, phase, oldPos, newPos, jmpDest, tramp, written, suspended, todo, loc>>
buildVars == <<oldPos, newPos, jmpDest, tramp>>

Out == [area |-> "out", pos |-> 0]
Lost == [area |-> "lost", pos |-> 0]
Target(n) == [area |-> "target", pos |-> n]
Tramp(n) == [area |-> "tramp", pos |-> n]

-----------------------------------------------------------------------------
(* CreateTrampolineFunction, one instruction at a time.                      *)
Internal(i) == i.dest # Outside /\ i.dest < JmpRel

SizeOf(i) ==   \* an internal jump and all that is not relative is copied
  CASE i.kind = "call" -> CallAbs
    [] i.kind = "jmp" /\ ~Internal(i) -> JmpAbs
    [] i.kind = "jcc" /\ ~Internal(i) -> JccAbs
    [] OTHER -> i.len

FarthestJump(i) ==
  IF i.kind \in {"jmp", "jcc", "loop"} /\ Internal(i) /\ jmpDest < i.dest
  THEN i.dest ELSE jmpDest

Finishes(i) ==
  /\ i.kind = "ret" \/ (i.kind = "jmp" /\ ~Internal(i))
  /\ oldPos >= jmpDest

AltersBranch_Unchecked(i) == FALSE   \* mutant: lengths in a branch are not looked at
AltersBranch(i) == oldPos < FarthestJump(i) /\ SizeOf(i) # i.len

TooLarge_Unchecked(size) == FALSE   \* mutant: writes past the slot
TooLarge(size) == newPos + size > MaxSize \/ Cardinality(DOMAIN tramp) >= MaxIPs

Emit(item, size) ==
  /\ tramp' = [n \in DOMAIN tramp \cup {newPos} |-> IF n = newPos THEN item ELSE tramp[n]]
  /\ newPos' = newPos + size

Refuse ==
  /\ phase' = "refused"
  /\ UNCHANGED buildVars

Relocate ==
  /\ phase = "build" /\ oldPos < JmpRel
  /\ LET i == body[oldPos]
     IN  IF \/ i.kind = "loop" /\ ~Internal(i)
            \/ AltersBranch(i) \/ TooLarge(SizeOf(i))
         THEN Refuse
         ELSE /\ Emit([src |-> oldPos, size |-> SizeOf(i)], SizeOf(i))
              /\ jmpDest' = FarthestJump(i)
              /\ oldPos' = oldPos + i.len
              /\ phase' = IF Finishes(i) THEN "built" ELSE "build"
  /\ UNCHANGED <<body, written, suspended, todo, loc>>

JumpBack ==
  /\ phase = "build" /\ oldPos >= JmpRel
  /\ IF TooLarge(JmpAbs) THEN Refuse
     ELSE /\ Emit([src |-> oldPos, size |-> JmpAbs], JmpAbs)
          /\ phase' = "built"
          /\ UNCHANGED <<oldPos, jmpDest>>
  /\ UNCHANGED <<body, written, suspended, todo, loc>>

HasRoom == oldPos >= JmpRel \/ body \in Padded

CheckRoom ==
  /\ phase = "built"
  /\ IF HasRoom THEN phase' = "freeze" /\ todo' = Threads
     ELSE phase' = "refused" /\ UNCHANGED todo
  /\ UNCHANGED <<body, buildVars, written, suspended, loc>>

-----------------------------------------------------------------------------
(* Freeze, EnableHookLL, Unfreeze.                                           *)
FindNewIP_First(l) ==   \* mutant: moves threads at the first instruction only
  {n \in DOMAIN tramp : l = Target(0) /\ tramp[n].src = 0}
FindNewIP(l) == {n \in DOMAIN tramp : l = Target(tramp[n].src)}

Suspend(t) ==
  /\ phase = "freeze" /\ t \in todo
  /\ suspended' = suspended \cup {t}
  /\ todo' = todo \ {t}
  /\ loc' = IF FindNewIP(loc[t]) = {} THEN loc
            ELSE [loc EXCEPT ![t] = Tramp(CHOOSE n \in FindNewIP(loc[t]) : TRUE)]
  /\ UNCHANGED <<body, phase, buildVars, written>>

WriteOpcode ==
  /\ phase = "freeze" /\ todo = {}
  /\ written' = {"opcode"}
  /\ phase' = "writing"
  /\ UNCHANGED <<body, buildVars, suspended, todo, loc>>

WriteOperand ==
  /\ phase = "writing"
  /\ written' = {"opcode", "operand"}
  /\ phase' = "enabled"
  /\ todo' = suspended
  /\ UNCHANGED <<body, buildVars, suspended, loc>>

ProtectFails ==
  /\ ProtectMayFail /\ phase = "freeze" /\ todo = {}
  /\ phase' = "failed"
  /\ todo' = suspended
  /\ UNCHANGED <<body, buildVars, written, suspended, loc>>

Resumed_Once(t) == IF suspended = Threads THEN {t} ELSE {}   \* mutant: stops after the first
Resumed(t) == {t}

Resume(t) ==
  /\ phase \in {"enabled", "failed"} /\ t \in todo
  /\ suspended' = suspended \ Resumed(t)
  /\ todo' = todo \ {t}
  /\ UNCHANGED <<body, phase, buildVars, written, loc>>

RemoveHook ==   \* MH_RemoveHook gives the trampoline's slot back
  /\ phase = "failed" /\ todo = {}
  /\ phase' = "removed"
  /\ UNCHANGED <<body, buildVars, written, suspended, todo, loc>>

-----------------------------------------------------------------------------
(* The game's threads.                                                       *)
Move(t, l) ==
  /\ loc' = [loc EXCEPT ![t] = l]
  /\ UNCHANGED <<body, phase, buildVars, written, suspended, todo>>

Enter(t) == loc[t] = Out /\ Move(t, Target(0))

(* Where an instruction of the function leads from where it was written: the *)
(* distance of a copied jump stays what it was.                              *)
Leads(i, next, internal(_)) ==
  LET dest == IF i.dest = Outside THEN Out ELSE internal(i.dest)
  IN  CASE i.kind \in {"plain", "call"} -> {next}
        [] i.kind = "jmp" -> {dest}
        [] i.kind \in {"jcc", "loop"} -> {dest, next}
        [] i.kind = "ret" -> {Out}

Intact(n) == written = {} \/ n >= JmpRel

RunTarget(t) ==
  /\ loc[t].area = "target"
  /\ LET n == loc[t].pos
     IN  \/ /\ Intact(n) /\ n \in DOMAIN body
            /\ \E l \in Leads(body[n], Target(n + body[n].len), Target) : Move(t, l)
         \/ Intact(n) /\ n \notin DOMAIN body /\ Move(t, Out)
         \/ ~Intact(n) /\ n = 0 /\ "operand" \in written /\ Move(t, Tramp(0))
         \/ ~Intact(n) /\ ~(n = 0 /\ "operand" \in written) /\ Move(t, Lost)

RunTramp(t) ==
  /\ loc[t].area = "tramp"
  /\ LET n == loc[t].pos
     IN  \/ (phase = "removed" \/ n \notin DOMAIN tramp) /\ Move(t, Lost)
         \/ /\ phase # "removed" /\ n \in DOMAIN tramp
            /\ LET src == tramp[n].src
                   next == Tramp(n + tramp[n].size)
                   Copied(dest) == IF Internal(body[src]) THEN Tramp(n - src + dest)
                                   ELSE Target(dest)
               IN  IF src >= JmpRel THEN Move(t, Target(src))
                   ELSE \E l \in Leads(body[src], next, Copied) : Move(t, l)

RunsOn(t) == t \notin suspended /\ (Enter(t) \/ RunTarget(t) \/ RunTramp(t))

-----------------------------------------------------------------------------
HookInit ==
  /\ body \in Bodies
  /\ phase = "build"
  /\ oldPos = 0 /\ newPos = 0 /\ jmpDest = -1
  /\ tramp = [n \in {} |-> 0]
  /\ written = {}
  /\ suspended = {} /\ todo = {}
  /\ loc = [t \in Threads |-> Out]

Install ==
  \/ Relocate \/ JumpBack \/ CheckRoom
  \/ (\E t \in Threads : Suspend(t) \/ Resume(t))
  \/ WriteOpcode \/ WriteOperand \/ ProtectFails \/ RemoveHook

HookNext == Install \/ \E t \in Threads : RunsOn(t)

HookSpec == HookInit /\ [][HookNext]_hookVars

(* The installing thread is scheduled and nothing it calls blocks.           *)
FairHookSpec == HookSpec /\ WF_hookVars(Install)

-----------------------------------------------------------------------------
(* The trampoline fits its slot, which ends before the relay; threads are    *)
(* somewhere or lost.                                                        *)
HookTypeOK ==
  /\ phase \in {"build", "refused", "built", "freeze", "writing", "enabled", "failed", "removed"}
  /\ oldPos \in Nat /\ jmpDest \in -1 .. JmpRel - 1
  /\ newPos \in 0 .. MaxSize /\ DOMAIN tramp \subseteq 0 .. MaxSize - 1
  /\ Cardinality(DOMAIN tramp) <= MaxIPs
  /\ written \subseteq {"opcode", "operand"}
  /\ suspended \subseteq Threads /\ todo \subseteq Threads
  /\ \A t \in Threads : loc[t].area \in {"out", "target", "tramp", "lost"}

(* Until a hook is removed, no thread, running, suspended and moved, or      *)
(* entering at any moment, comes to execute half an instruction, half a jump *)
(* or what was never written.                                                *)
NobodyIsLost == phase # "removed" => \A t \in Threads : loc[t].area # "lost"

(* Slot and threads are as they should be.                                   *)
TrampolineConsistent == HookTypeOK /\ NobodyIsLost

(* Until then, whatever it is that is hooked and whenever, each thread goes  *)
(* through the function's instructions as if nothing had happened.  (A thread *)
(* that was moved into a trampoline that is then removed does not.)          *)
Nowhere == -2
LogicalAt(l) ==
  CASE l.area = "out" -> Outside
    [] l.area = "target" -> l.pos
    [] l.area = "tramp" -> IF l.pos \in DOMAIN tramp THEN tramp[l.pos].src ELSE Nowhere
    [] l.area = "lost" -> Nowhere
flowAt == [t \in Threads |-> LogicalAt(loc[t])]
Flow == INSTANCE CodeFlow WITH at <- flowAt
FlowIsKept == Flow!Init /\ [][phase # "removed" => Flow!Next]_<<body, flowAt>>

(* The functions for which this holds: those with a jump back over an        *)
(* instruction whose relocated form is longer are copied wrongly.            *)
Lengthened(i) == SizeOf(i) # i.len
JumpsBackOver(b) ==
  \E n, k \in DOMAIN b :
    /\ b[n].kind \in {"jmp", "jcc", "loop"} /\ Internal(b[n])
    /\ b[n].dest <= k /\ k < n /\ Lengthened(b[k])

(* No thread stays suspended.                                                *)
AllResume == suspended # {} ~> suspended = {}
===============================================================================
