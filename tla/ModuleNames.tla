----------------------------- MODULE ModuleNames -----------------------------
(***************************************************************************)
(* Whose code is loading: the stack of module names of hlx-boot            *)
(* (hlx_common.c), pushed and popped around every plugin load (log.c,      *)
(* boot.c) and read when a module's natives are resolved, which bakes the  *)
(* module's own name into its sys_print and hlx_module_name.               *)
(***************************************************************************)
EXTENDS Integers, Sequences, SequencesExt

CONSTANTS
  Modules,    \* modules that may be loaded, the loader among them
  Loader,     \* hlx-loader
  ShortName,  \* the name of each one's file, narrowed and cut to 63 characters
  NULL,       \* no name: what CurrentModuleName answers on an empty stack
  MaxStack,   \* MAX_MODULE_STACK
  MaxLoads    \* bound on loads nested in one another's main()

(* Modules of different files may have one name.                            *)
Names == {ShortName[m] : m \in Modules}

ASSUME ModuleNamesAssumption ==
  /\ Loader \in Modules
  /\ NULL \notin Names
  /\ MaxStack \in Nat /\ MaxLoads \in Nat

VARIABLES
  fired,       \* HookedHlDynCallSafe's latch
  stack,       \* g_moduleStack, up to g_moduleStackDepth
  loading,     \* loads in progress, innermost last
  baked,       \* the name in each module's trampolines, once resolved
  overflowed,  \* history: a push found the stack full
  threw        \* history: a load has left by an exception

vars == <<fired, stack, loading, baked, overflowed, threw>>

-----------------------------------------------------------------------------
(* PushModuleName, PopModuleName, CurrentModuleName. *)
Pushed_Omitted(s, n) == s   \* mutant: the load is not bracketed
Pushed_Late(s, n) == IF Len(s) > MaxStack THEN s ELSE Append(s, n)   \* mutant: off by one
Pushed(s, n) == IF Len(s) >= MaxStack THEN s ELSE Append(s, n)

Popped_Kept(s) == s   \* mutant: the pop is forgotten
Popped(s) == IF s = <<>> THEN s ELSE Front(s)

Current == IF stack = <<>> THEN NULL ELSE Last(stack)

Begin(m) ==
  /\ stack' = Pushed(stack, ShortName[m])
  /\ overflowed' = (overflowed \/ Len(stack) >= MaxStack)
  /\ loading' = Append(loading, [module |-> m, running |-> FALSE])

(* HookedHlDynCallSafe: the first safe call of the process loads hlx-loader. *)
Boot ==
  /\ ~fired
  /\ fired' = TRUE
  /\ Begin(Loader)
  /\ UNCHANGED <<baked, threw>>

(* HookedSysLoadPlugin, called from the main() of a module being loaded or,  *)
(* once the loader has run, by the game.                                     *)
LoadPlugin(m) ==
  /\ fired /\ m # Loader /\ baked[m] = NULL
  /\ Len(loading) < MaxLoads
  /\ loading # <<>> => Last(loading).running
  /\ \A i \in DOMAIN loading : loading[i].module # m
  /\ Begin(m)
  /\ UNCHANGED <<fired, baked, threw>>

(* The module's natives are resolved, then its main() starts.                *)
Resolve ==
  /\ loading # <<>> /\ ~Last(loading).running
  /\ baked' = [baked EXCEPT ![Last(loading).module] = Current]
  /\ loading' = [loading EXCEPT ![Len(loading)].running = TRUE]
  /\ UNCHANGED <<fired, stack, overflowed, threw>>

(* The load ends, its main() over or its file unreadable.                    *)
Return ==
  /\ loading # <<>>
  /\ loading' = Front(loading)
  /\ stack' = Popped(stack)
  /\ UNCHANGED <<fired, baked, overflowed, threw>>

(* An exception leaves the k innermost mains for a handler further out (as   *)
(* Boot.hx wraps loadMod): control never returns to the loads it passes.     *)
Throw(k) ==
  /\ k < Len(loading) /\ Last(loading).running
  /\ loading' = SubSeq(loading, 1, Len(loading) - k)
  /\ threw' = TRUE
  /\ UNCHANGED <<fired, stack, baked, overflowed>>

-----------------------------------------------------------------------------
Init ==
  /\ fired = FALSE
  /\ stack = <<>>
  /\ loading = <<>>
  /\ baked = [m \in Modules |-> NULL]
  /\ overflowed = FALSE
  /\ threw = FALSE

Next ==
  \/ Boot
  \/ \E m \in Modules : LoadPlugin(m)
  \/ Resolve \/ Return
  \/ \E k \in 1 .. MaxLoads : Throw(k)

Spec == Init /\ [][Next]_vars

-----------------------------------------------------------------------------
(* The stack never outgrows its array, whatever is loaded within whatever.   *)
TypeOK ==
  /\ fired \in BOOLEAN /\ overflowed \in BOOLEAN /\ threw \in BOOLEAN
  /\ stack \in Seq(Names) /\ Len(stack) <= MaxStack
  /\ loading \in Seq([module : Modules, running : BOOLEAN])
  /\ baked \in [Modules -> Names \cup {NULL}]

(* Every module's trampolines answer the module's own name: none has another *)
(* module's, and none that runs has no name, as the game's own traces have.  *)
BakedNameIsOwn ==
  /\ \A m \in Modules : baked[m] \in {ShortName[m], NULL}
  /\ \A i \in DOMAIN loading : loading[i].running => baked[loading[i].module] # NULL

(* As long as no push was dropped for want of room, a module is never given  *)
(* another's name, not even after loads that ended in an exception and left  *)
(* their names on the stack.                                                 *)
OwnNameUntilOverflow == ~overflowed => BakedNameIsOwn

(* Without exceptions the stack is exactly the loads in progress, so that    *)
(* whatever a main() has resolved after a nested load is still its own.      *)
StackMirrorsLoads ==
  ~threw /\ ~overflowed => stack = [i \in DOMAIN loading |-> ShortName[loading[i].module]]

(* The stack stays within its array and is that of the loads.                *)
StackConsistent == TypeOK /\ StackMirrorsLoads
=============================================================================
