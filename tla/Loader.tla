------------------------------- MODULE Loader -------------------------------
(***************************************************************************)
(* The life of a patched function: hlx-loader's main loads the mods, whose *)
(* generated __init__ registers prefixes and postfixes through hlx-boot    *)
(* (Boot.hx, Registry.hx, boot.c), installs one patch per target, and the  *)
(* game's calls then go through Dispatcher.dispatch, which calls handlers  *)
(* that may call back into patched functions, register more or throw.      *)
(*                                                                         *)
(* install_patch appears here as what it answers; Patching has its steps.  *)
(***************************************************************************)
EXTENDS Integers, Sequences, SequencesExt, FiniteSets

CONSTANTS
  ModOrder,    \* the mods found under hlx/mods, sorted by name
  Hooks,       \* for each mod, the handlers its __init__ registers, in order
  Late,        \* handlers that mods may register once the game runs
  Keys,        \* patch targets (type and method)
  AddrOf,      \* the address each target resolves to, NULL when it does not
  TooClose,    \* addresses the check for function boundaries refuses
  Refused,     \* addresses MinHook refuses
  Faulting,    \* addresses at which MH_CreateHook faults
  NULL,
  MaxPatches,  \* MAX_PATCHES
  MaxDepth     \* bound on patched calls nested in one another

ASSUME LoaderAssumption ==
  /\ ModOrder \in Seq(DOMAIN Hooks)
  /\ DOMAIN AddrOf = Keys
  /\ MaxPatches \in Nat /\ MaxDepth \in Nat

VARIABLES
  ready,      \* g_haveLoaderClosures
  recovered,  \* what module_recover left: module_is_recovered()
  phase,      \* where the game's thread is: "attach", "loading", "installing", "game";
              \* or "spinning", in EnterSpinLock
  mods,       \* mods not yet loaded, the current one first
  init,       \* what the current mod has still to register; NULL between mods
  registry,   \* Registry.registry: a target for each key, or NULL
  todo,       \* keys the installing loop has not visited
  patches,    \* g_patches, up to g_patchCount
  isLocked,   \* a fault has left MinHook's lock held
  frames      \* dispatches in progress, innermost last

vars == <<ready, recovered, phase, mods, init, registry, todo, patches, isLocked, frames>>
boot == <<ready, recovered, phase, mods, init, todo, patches, isLocked>>

Addrs == {AddrOf[k] : k \in Keys} \ {NULL}
Top == Last(frames)
SetTop(f) == frames' = [frames EXCEPT ![Len(frames)] = f]

-----------------------------------------------------------------------------
(* Registry.registerPrefix and registerPostfix, reached through              *)
(* ForwardToRegistry. A handler names its mod and its key; the receiver that *)
(* comes with it is generated once per mod and key.                          *)
Receiver(h) == [mod |-> h.mod, key |-> h.key]
HookHandlers == UNION {Range(Hooks[m]) : m \in DOMAIN Hooks}
AllHandlers == HookHandlers \cup Late
Receivers == [mod : DOMAIN Hooks, key : Keys]
Targets == [prefixes : Seq(AllHandlers), postfixes : Seq(AllHandlers),
            receiver : Receivers, handle : Int]

ASSUME HandlerAssumption ==
  /\ IsInjective(ModOrder)
  /\ \A m \in DOMAIN Hooks : /\ Hooks[m] \in Seq(HookHandlers) /\ IsInjective(Hooks[m])
                            /\ \A h \in Range(Hooks[m]) : h.mod = m
  /\ \A h \in AllHandlers : /\ Receiver(h) \in Receivers /\ h.fn # NULL
                           /\ h.prefix \in BOOLEAN
  /\ Late \cap HookHandlers = {}
  /\ NULL \notin Targets \cup Seq(HookHandlers) \cup {"original"}

NewTarget(h) ==
  [prefixes |-> <<>>, postfixes |-> <<>>, receiver |-> Receiver(h), handle |-> -1]

Push_AtFront(s, h) == <<h>> \o s   \* mutant: handlers are unshifted
Push(s, h) == Append(s, h)

WithHandler(t, h) == IF h.prefix THEN [t EXCEPT !.prefixes = Push(@, h)]
                                 ELSE [t EXCEPT !.postfixes = Push(@, h)]
Registered(h) ==
  IF ~ready THEN registry
  ELSE [registry EXCEPT ![h.key] = WithHandler(IF @ = NULL THEN NewTarget(h) ELSE @, h)]

-----------------------------------------------------------------------------
(* Boot.main, run by the game's first safe call before the game's own main.  *)
LoaderReady ==
  /\ phase = "attach"
  /\ ready' = TRUE
  /\ phase' = "loading"
  /\ mods' = ModOrder
  /\ UNCHANGED <<recovered, init, registry, todo, patches, isLocked, frames>>

(* hlx-loader.hl cannot be loaded: HookedHlDynCallSafe goes on to the game.  *)
NoLoader ==
  /\ phase = "attach"
  /\ phase' = "game"
  /\ UNCHANGED <<ready, recovered, mods, init, registry, todo, patches, isLocked, frames>>

(* No .hl, a mod.info that excludes this version, or a load that fails.      *)
SkipMod ==
  /\ phase = "loading" /\ init = NULL /\ mods # <<>>
  /\ mods' = Tail(mods)
  /\ UNCHANGED <<ready, recovered, phase, init, registry, todo, patches, isLocked, frames>>

LoadMod ==
  /\ phase = "loading" /\ init = NULL /\ mods # <<>>
  /\ init' = Hooks[Head(mods)]
  /\ UNCHANGED <<ready, recovered, phase, mods, registry, todo, patches, isLocked, frames>>

RegisterHook ==
  /\ phase = "loading" /\ init \notin {NULL, <<>>}
  /\ registry' = Registered(Head(init))
  /\ init' = Tail(init)
  /\ UNCHANGED <<ready, recovered, phase, mods, todo, patches, isLocked, frames>>

(* loadMod is over; with hooks left, because the mod threw.                  *)
LoadEnds ==
  /\ phase = "loading" /\ init # NULL
  /\ init' = NULL
  /\ mods' = Tail(mods)
  /\ UNCHANGED <<ready, recovered, phase, registry, todo, patches, isLocked, frames>>

ModsLoaded ==
  /\ phase = "loading" /\ init = NULL /\ mods = <<>>
  /\ IF recovered
     THEN phase' = "installing" /\ todo' = {k \in Keys : registry[k] # NULL}
     ELSE phase' = "game" /\ UNCHANGED todo
  /\ UNCHANGED <<ready, recovered, mods, init, registry, patches, isLocked, frames>>

-----------------------------------------------------------------------------
(* What install_patch answers for address a and receiver r, and g_patches    *)
(* after it.                                                                 *)
PatchAt(a) == CHOOSE i \in DOMAIN patches : patches[i].addr = a

NextHandle_PreIncrement == Len(patches) + 1   \* mutant: handle = ++g_patchCount
NextHandle == Len(patches)

SameReceiver_Any(r, s) == TRUE   \* mutant: whoever patched first is shared
SameReceiver(r, s) == r = s

Unpatchable == TooClose \cup Refused \cup Faulting

InstallPatch(a, r) ==
  IF \E i \in DOMAIN patches : patches[i].addr = a
  THEN [handle |-> IF SameReceiver(patches[PatchAt(a)].receiver, r)
                   THEN PatchAt(a) - 1 ELSE -1,
        table |-> patches]
  ELSE IF Len(patches) >= MaxPatches \/ a \in Unpatchable
  THEN [handle |-> -1, table |-> patches]
  ELSE [handle |-> NextHandle, table |-> Append(patches, [addr |-> a, receiver |-> r])]

(* The calls that get as far as MinHook; a fault there is answered as a      *)
(* refusal, but outside MinHook, whose spin lock nobody leaves any more.     *)
NeedsMinHook(a) ==
  /\ a # NULL /\ a \notin TooClose
  /\ Len(patches) < MaxPatches /\ \A i \in DOMAIN patches : patches[i].addr # a
Spins(k) == isLocked /\ NeedsMinHook(AddrOf[k])

Spin(k) ==
  /\ phase = "installing" /\ k \in todo /\ Spins(k)
  /\ phase' = "spinning"
  /\ UNCHANGED <<ready, recovered, mods, init, registry, todo, patches, isLocked, frames>>

(* One turn of installAllPendingPatches, in whatever order the map iterates. *)
Left_Abandoned(k) ==   \* mutant: the first unresolved target ends the loop
  IF AddrOf[k] = NULL THEN {} ELSE todo \ {k}
Left_Stuck(k) == IF AddrOf[k] = NULL THEN todo ELSE todo \ {k}   \* mutant: retried for ever
Left(k) == todo \ {k}

Install(k) ==
  /\ phase = "installing" /\ k \in todo /\ ~Spins(k)
  /\ todo' = Left(k)
  /\ isLocked' = (isLocked \/ (NeedsMinHook(AddrOf[k]) /\ AddrOf[k] \in Faulting))
  /\ IF AddrOf[k] = NULL
     THEN UNCHANGED <<registry, patches>>
     ELSE LET answer == InstallPatch(AddrOf[k], registry[k].receiver)
          IN  /\ patches' = answer.table
              /\ registry' = IF answer.handle < 0 THEN registry
                             ELSE [registry EXCEPT ![k].handle = answer.handle]
  /\ UNCHANGED <<ready, recovered, phase, mods, init, frames>>

BootComplete ==
  /\ phase = "installing" /\ todo = {}
  /\ phase' = "game"
  /\ UNCHANGED <<ready, recovered, mods, init, registry, todo, patches, isLocked, frames>>

-----------------------------------------------------------------------------
(* The game, an original or a handler calls the patched function at a: the   *)
(* detour runs its receiver, which dispatches its own key.                   *)
Call(a) ==
  /\ phase = "game" /\ Len(frames) < MaxDepth
  /\ frames # <<>> => Top.calling
  /\ \E i \in DOMAIN patches :
       /\ patches[i].addr = a
       /\ LET k == patches[i].receiver.key
          IN  frames' = Append(frames,
                [addr |-> a, key |-> k, stage |-> "prefix", i |-> 1, calling |-> FALSE,
                 skip |-> FALSE, result |-> NULL, called |-> <<>>, ran |-> <<>>,
                 present |-> registry[k]])
  /\ UNCHANGED <<boot, registry>>

Running(stage) == frames # <<>> /\ Top.stage = stage
Handlers(f) == IF f.stage = "prefix" THEN registry[f.key].prefixes
                                     ELSE registry[f.key].postfixes
Pending == Top.i <= Len(Handlers(Top))
Handler == Handlers(Top)[Top.i]

(* The loop calls its next handler.                                          *)
CallHandler ==
  /\ frames # <<>> /\ Top.stage \in {"prefix", "postfix"} /\ ~Top.calling /\ Pending
  /\ SetTop([Top EXCEPT !.calling = TRUE, !.called = Append(@, Handler)])
  /\ UNCHANGED <<boot, registry>>

(* A prefix answers Continue or nothing, or throws.                          *)
AfterThrow_Abandon(f) ==   \* mutant: a throw ends the loop over the prefixes
  [f EXCEPT !.calling = FALSE, !.stage = "original"]
AfterThrow(f) == [f EXCEPT !.calling = FALSE, !.i = @ + 1]

PrefixContinues ==
  /\ Running("prefix") /\ Top.calling
  /\ SetTop([Top EXCEPT !.calling = FALSE, !.i = @ + 1])
  /\ UNCHANGED <<boot, registry>>

PrefixThrows ==
  /\ Running("prefix") /\ Top.calling
  /\ SetTop(AfterThrow(Top))
  /\ UNCHANGED <<boot, registry>>

(* A prefix answers Skip, or SkipWith a result of its own.                   *)
PrefixSkips(result) ==
  /\ Running("prefix") /\ Top.calling
  /\ SetTop([Top EXCEPT !.calling = FALSE, !.skip = TRUE, !.stage = "postfix", !.i = 1,
                        !.result = result])
  /\ UNCHANGED <<boot, registry>>

PrefixesDone ==
  /\ Running("prefix") /\ ~Top.calling /\ ~Pending
  /\ SetTop([Top EXCEPT !.stage = "original"])
  /\ UNCHANGED <<boot, registry>>

(* call_original: a handle out of range runs nothing and answers null.       *)
CallOriginal ==
  /\ Running("original") /\ ~Top.calling
  /\ LET handle == registry[Top.key].handle
     IN  IF handle < 0 \/ handle >= Len(patches)
         THEN SetTop([Top EXCEPT !.stage = "postfix", !.i = 1, !.result = NULL])
         ELSE SetTop([Top EXCEPT !.calling = TRUE,
                                 !.ran = Append(@, patches[handle + 1].addr)])
  /\ UNCHANGED <<boot, registry>>

OriginalReturns ==
  /\ Running("original") /\ Top.calling
  /\ SetTop([Top EXCEPT !.calling = FALSE, !.stage = "postfix", !.i = 1,
                        !.result = "original"])
  /\ UNCHANGED <<boot, registry>>

(* An exception of the original's leaves the dispatch for its caller.        *)
OriginalThrows ==
  /\ Running("original") /\ Top.calling
  /\ frames' = Front(frames)
  /\ UNCHANGED <<boot, registry>>

(* What a postfix returns replaces the result; a throw leaves it.            *)
Kept_Lost(f) == NULL   \* mutant: the catch answers null
Kept(f) == f.result

PostfixReturns ==
  /\ Running("postfix") /\ Top.calling
  /\ SetTop([Top EXCEPT !.calling = FALSE, !.i = @ + 1, !.result = Handler.fn])
  /\ UNCHANGED <<boot, registry>>

PostfixThrows ==
  /\ Running("postfix") /\ Top.calling
  /\ SetTop([Top EXCEPT !.calling = FALSE, !.i = @ + 1, !.result = Kept(Top)])
  /\ UNCHANGED <<boot, registry>>

Leave ==
  /\ Running("postfix") /\ ~Top.calling /\ ~Pending
  /\ frames' = Front(frames)
  /\ UNCHANGED <<boot, registry>>

(* HlxRuntime.registerPrefix/Postfix called by a handler or by the game.     *)
Holds(t, h) == t # NULL /\ h \in Range(t.prefixes) \cup Range(t.postfixes)
RegisterLate(h) ==
  /\ phase = "game" /\ ~Holds(registry[h.key], h)
  /\ frames # <<>> => Top.calling
  /\ registry' = Registered(h)
  /\ UNCHANGED <<boot, frames>>

-----------------------------------------------------------------------------
Init ==
  /\ ready = FALSE
  /\ recovered \in BOOLEAN
  /\ phase = "attach"
  /\ mods = <<>> /\ init = NULL
  /\ registry = [k \in Keys |-> NULL]
  /\ todo = {} /\ patches = <<>> /\ isLocked = FALSE /\ frames = <<>>

BootNext ==
  \/ LoaderReady \/ NoLoader
  \/ SkipMod \/ LoadMod \/ RegisterHook \/ LoadEnds \/ ModsLoaded
  \/ \E k \in Keys : Install(k) \/ Spin(k)
  \/ BootComplete

GameNext ==
  \/ \E a \in Addrs : Call(a)
  \/ CallHandler
  \/ PrefixContinues \/ PrefixThrows \/ PrefixesDone
  \/ \E result \in {NULL, "skipper"} : PrefixSkips(result)
  \/ CallOriginal \/ OriginalReturns \/ OriginalThrows
  \/ PostfixReturns \/ PostfixThrows \/ Leave
  \/ \E h \in Late : RegisterLate(h)

Next == BootNext \/ GameNext

Spec == Init /\ [][Next]_vars

(* The game's thread runs the loader, whose mods' mains all end.             *)
FairSpec == Spec /\ WF_vars(BootNext)

-----------------------------------------------------------------------------
(* The shape of the loader's state; a target's handle is -1 or a patch's.    *)
TypeOK ==
  /\ ready \in BOOLEAN /\ recovered \in BOOLEAN
  /\ isLocked \in BOOLEAN
  /\ phase \in {"attach", "loading", "installing", "spinning", "game"}
  /\ mods \in Seq(DOMAIN Hooks)
  /\ init # NULL => init \in Seq(HookHandlers)
  /\ patches \in Seq([addr : Addrs, receiver : Receivers]) /\ Len(patches) <= MaxPatches
  /\ todo \subseteq Keys
  /\ registry \in [Keys -> Targets \cup {NULL}]
  /\ \A k \in Keys : registry[k] # NULL => registry[k].handle \in -1 .. Len(patches) - 1
  /\ Len(frames) <= MaxDepth

(* A target that holds a handle is patched at its own address and its own    *)
(* receiver answers there, so that no key's handlers ever wrap, and no key   *)
(* ever calls, a function that is another's.                                 *)
HandleServesItsKey ==
  \A k \in Keys : registry[k] # NULL /\ registry[k].handle >= 0 =>
    /\ registry[k].handle < Len(patches)
    /\ patches[registry[k].handle + 1] = [addr |-> AddrOf[k], receiver |-> registry[k].receiver]
    /\ registry[k].receiver.key = k

(* The registry of targets is well formed and agrees with the patch table.   *)
TargetsConsistent == TypeOK /\ HandleServesItsKey

(* As far as the installing loop has come, a target with handlers from the   *)
(* mods' loading is live unless it is itself to blame: it does not resolve,  *)
(* it is refused, another target has its address or the table is full.  Mods *)
(* that were skipped or threw and targets that failed have cost it nothing.  *)
FromLoading(t) == (Range(t.prefixes) \cup Range(t.postfixes)) \cap HookHandlers # {}
OneBadTargetIsNotFatal ==
  phase \in {"installing", "spinning", "game"} /\ recovered =>
    \A k \in Keys \ todo : registry[k] # NULL /\ FromLoading(registry[k]) =>
      \/ registry[k].handle >= 0
      \/ AddrOf[k] \in Unpatchable \cup {NULL}
      \/ Len(patches) = MaxPatches
      \/ \E j \in Keys \ {k} : AddrOf[j] = AddrOf[k] /\ registry[j] # NULL
                                 /\ registry[j].handle >= 0

(* By the time postfixes run, the function the game called has run exactly   *)
(* once unless a prefix skipped it, in which case it has not run at all, and *)
(* a call that was not skipped carries a result.                             *)
OriginalOnceUnlessSkipped ==
  \A n \in DOMAIN frames :
    LET f == frames[n]
    IN  f.stage = "postfix" =>
          /\ f.ran = IF f.skip THEN <<>> ELSE <<f.addr>>
          /\ ~f.skip => f.result # NULL

(* The order of loading: that of the mods' names, then that of a mod's own    *)
(* registrations.                                                            *)
LoadedBefore(g, h) ==
  \E m, n \in DOMAIN ModOrder :
    \E i \in DOMAIN Hooks[ModOrder[m]], j \in DOMAIN Hooks[ModOrder[n]] :
      /\ g = Hooks[ModOrder[m]][i] /\ h = Hooks[ModOrder[n]][j]
      /\ m < n \/ (m = n /\ i < j)
InLoadOrder(f) ==
  \A x, y \in {z \in DOMAIN f.called : f.called[z] \in HookHandlers} :
    x < y /\ f.called[x].prefix = f.called[y].prefix => LoadedBefore(f.called[x], f.called[y])

(* A dispatch calls every handler its target had when the call began, and    *)
(* none twice, prefixes before postfixes and each kind in load order,        *)
(* whatever handlers throw, register or call meanwhile; only a skip keeps    *)
(* prefixes from being called, and nothing keeps postfixes.                  *)
EveryHandlerOnceInOrder ==
  \A n \in DOMAIN frames :
    LET f == frames[n]
        over == f.stage = "postfix" /\ ~f.calling /\ f.i > Len(registry[f.key].postfixes)
    IN  /\ IsInjective(f.called) /\ InLoadOrder(f)
        /\ f.stage # "prefix" /\ ~f.skip => IsPrefix(f.present.prefixes, f.called)
        /\ over => \E p \in 0 .. Len(f.called) :
             /\ \A x \in DOMAIN f.called : f.called[x].prefix <=> x <= p
             /\ IsPrefix(f.present.postfixes, SubSeq(f.called, p + 1, Len(f.called)))

(* Whatever mods do while they load, the game's own main is reached, unless  *)
(* a target at which MinHook faulted left the next one spinning.             *)
Faulted(k) == registry[k] # NULL /\ AddrOf[k] \in Faulting /\ k \notin todo
GameStartsOrSpins == <>(phase = "game" \/ (phase = "spinning" /\ \E k \in Keys : Faulted(k)))
=============================================================================
