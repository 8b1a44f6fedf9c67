------------------------------ MODULE Patching ------------------------------
(***************************************************************************)
(* install_patch and call_original of hlx-boot (patching.c), together with *)
(* the part of the vendored MinHook they drive: the spin lock, the list of *)
(* hooks, the trampoline slots and the redirect written over a function's  *)
(* first bytes.                                                            *)
(*                                                                         *)
(* A caller is a thread inside install_patch.  Its steps are as long as    *)
(* what no other caller can interrupt: the scan of the unprotected patch   *)
(* table, each MinHook call split at EnterSpinLock, and the three separate *)
(* accesses (read, write, fill) by which an entry is appended to a table   *)
(* no lock protects.                                                       *)
(***************************************************************************)
EXTENDS Integers, Sequences, FiniteSets

CONSTANTS
  Callers,        \* threads that may call install_patch
  Starts,         \* entry addresses of all JIT-compiled functions
  Listed,         \* those of functions with a findex below nfunctions
  Addrs,          \* those install_patch is called for
  Codes,          \* code addresses of receivers (the closures' .fun)
  NULL,           \* the null pointer
  MaxPatches,     \* MAX_PATCHES
  Unrelocatable,  \* addresses whose first bytes MinHook refuses to relocate
  Faulting        \* addresses whose bytes cannot be read past a page's end

ASSUME PatchingAssumption ==
  /\ MaxPatches \in Nat
  /\ NULL \notin Addrs /\ NULL \notin Codes
  /\ Starts \subseteq Nat
  /\ Listed \subseteq Starts /\ Addrs \subseteq Starts
  /\ Unrelocatable \subseteq Addrs
  /\ Faulting \subseteq Addrs

VARIABLES
  pc,                   \* where each caller is in install_patch
  arg,                  \* its realAddress and receiverCode
  index,                \* the g_patchCount it read
  answers,              \* history: what install_patch answered, without the -1s
  isLocked,             \* MinHook's g_isLocked
  heap,                 \* MinHook's g_hHeap is not NULL
  minHookInitialized,   \* g_minHookInitialized
  boundaries,           \* g_sortedFunctionStarts has been built
  hooks,                \* MinHook's g_hooks, by target
  slots,                \* trampoline slots handed out by AllocateBuffer
  patches, patchCount   \* g_patches, g_patchCount

callerVars == <<pc, arg, index, answers>>
minHookVars == <<isLocked, heap, hooks, slots>>
tableVars == <<patches, patchCount>>
vars == <<callerVars, minHookVars, minHookInitialized, boundaries, tableVars>>

NoHook == [detour |-> NULL, isEnabled |-> FALSE]
NoPatch == [realAddress |-> NULL, receiverCode |-> NULL]
NoArg == NoPatch

Hooked(a) == hooks[a] # NoHook
Redirected(a) == hooks[a].isEnabled
Handles == 0 .. patchCount - 1

(* A caller waits for the spin lock in one of the MinHook calls, or holds it. *)
Waiting == {"initialize", "create", "enable", "remove"}
Inside == {"initializing", "creating", "enabling", "removing"}
Locked == [p \in Waiting |-> CASE p = "initialize" -> "initializing"
                               [] p = "create"     -> "creating"
                               [] p = "enable"     -> "enabling"
                               [] p = "remove"     -> "removing"]
Recording == {"record", "bump", "fill"}
Points == {"idle", "lookup", "boundary"} \cup Waiting \cup Inside \cup Recording

-----------------------------------------------------------------------------
Goto(c, p) ==
  /\ pc' = [pc EXCEPT ![c] = p]
  /\ UNCHANGED <<arg, index, answers>>

Answer(c, handle) ==
  /\ pc' = [pc EXCEPT ![c] = "idle"]
  /\ arg' = [arg EXCEPT ![c] = NoArg]
  /\ answers' = answers \cup {[addr |-> arg[c].realAddress,
                               code |-> arg[c].receiverCode,
                               handle |-> handle]}
  /\ UNCHANGED index

Refuse_Reported(c) == Answer(c, -1)   \* mutant: the -1 handed out as a handle
Refuse(c) ==   \* return -1
  /\ pc' = [pc EXCEPT ![c] = "idle"]
  /\ arg' = [arg EXCEPT ![c] = NoArg]
  /\ UNCHANGED <<index, answers>>

-----------------------------------------------------------------------------
(* A mod or the loader calls install_patch; a closure may have no code. *)
InstallPatch(c, a, code) ==
  /\ pc[c] = "idle"
  /\ pc' = [pc EXCEPT ![c] = "lookup"]
  /\ arg' = [arg EXCEPT ![c] = [realAddress |-> a, receiverCode |-> code]]
  /\ UNCHANGED <<index, answers, minHookVars, minHookInitialized, boundaries, tableVars>>

(* The null checks, the scan for an existing entry and the capacity check. *)
SameAddress(a) == {i \in Handles : patches[i].realAddress = a}
FirstPatchOf(a) == CHOOSE i \in SameAddress(a) : \A j \in SameAddress(a) : i <= j

SameReceiver_Any(i, code) == TRUE   \* mutant: the receivers are not compared
SameReceiver(i, code) == patches[i].receiverCode = code

TableFull_OffByOne == patchCount > MaxPatches   \* mutant
TableFull == patchCount >= MaxPatches

LookupPatch(c) ==
  LET a == arg[c].realAddress
      code == arg[c].receiverCode
  IN  /\ pc[c] = "lookup"
      /\ IF a = NULL \/ code = NULL THEN Refuse(c)
         ELSE IF SameAddress(a) # {}
         THEN IF SameReceiver(FirstPatchOf(a), code)
              THEN Answer(c, FirstPatchOf(a))
              ELSE Refuse(c)
         ELSE IF TableFull THEN Refuse(c) ELSE Goto(c, "boundary")
      /\ UNCHANGED <<minHookVars, minHookInitialized, boundaries, tableVars>>

(* FindNextFunctionBoundary: the addresses are gathered on first success;  *)
(* until then (no module recovered, no memory) the check lets all through. *)
(* functions_ptrs is indexed by findex, which natives have too, but read   *)
(* up to nfunctions only: some functions are in nobody's way.              *)
JumpSize == 5
HasRoom(starts, a) == \A b \in starts : a < b => b - a >= JumpSize

SparesNeighbour_Stale(a) == ~boundaries \/ HasRoom(Listed, a)   \* mutant: tested before the retry
SparesNeighbour(a) == ~boundaries' \/ HasRoom(Listed, a)

CheckBoundary(c) ==
  /\ pc[c] = "boundary"
  /\ boundaries' \in (IF Listed = {} THEN {} ELSE {TRUE}) \cup {boundaries}
  /\ IF SparesNeighbour(arg[c].realAddress)
     THEN Goto(c, IF minHookInitialized THEN "create" ELSE "initialize")
     ELSE Refuse(c)
  /\ UNCHANGED <<minHookVars, minHookInitialized, tableVars>>

SpinLockFree_Assumed == TRUE   \* mutant: the exchange's old value is not looked at
SpinLockFree == ~isLocked

EnterSpinLock(c) ==
  /\ pc[c] \in Waiting
  /\ SpinLockFree
  /\ isLocked' = TRUE
  /\ Goto(c, Locked[pc[c]])
  /\ UNCHANGED <<heap, hooks, slots, minHookInitialized, boundaries, tableVars>>

LeaveSpinLock == isLocked' = FALSE

(* MH_Initialize answers MH_OK only to the call that makes the heap. *)
Initialize(c) ==
  /\ pc[c] = "initializing"
  /\ \/ /\ ~heap
        /\ heap' = TRUE
        /\ minHookInitialized' = TRUE
        /\ Goto(c, "create")
     \/ /\ UNCHANGED <<heap, minHookInitialized>>   \* no memory, or done before
        /\ Refuse(c)
  /\ LeaveSpinLock
  /\ UNCHANGED <<hooks, slots, boundaries, tableVars>>

HookEntryFree_Assumed(a) == TRUE   \* mutant: no FindHookEntry
HookEntryFree(a) == ~Hooked(a)

(* MH_CreateHook.  A fault while the target is decoded is caught by the   *)
(* caller's __except, outside MinHook: nothing frees the slot or the lock. *)
CreateHook(c) ==
  LET a == arg[c].realAddress
  IN  /\ pc[c] = "creating"
      /\ \/ /\ HookEntryFree(a) /\ a \notin Faulting \cup Unrelocatable
            /\ hooks' = [hooks EXCEPT ![a] = [detour |-> arg[c].receiverCode,
                                              isEnabled |-> FALSE]]
            /\ slots' = slots + 1
            /\ LeaveSpinLock
            /\ Goto(c, "enable")
         \/ /\ HookEntryFree(a) /\ a \in Faulting
            /\ slots' = slots + 1
            /\ Refuse(c)
            /\ UNCHANGED <<isLocked, hooks>>
         \/ /\ LeaveSpinLock   \* already created, refused, or no memory
            /\ Refuse(c)
            /\ UNCHANGED <<hooks, slots>>
      /\ UNCHANGED <<heap, minHookInitialized, boundaries, tableVars>>

AfterFailedEnable_Retry == "enable"   \* mutant
AfterFailedEnable == "remove"

(* MH_EnableHook.  Freezing the threads or unprotecting the page may fail. *)
EnableHook(c) ==
  LET a == arg[c].realAddress
  IN  /\ pc[c] = "enabling"
      /\ LeaveSpinLock
      /\ \/ /\ Hooked(a) /\ ~Redirected(a)
            /\ hooks' = [hooks EXCEPT ![a] = [detour |-> hooks[a].detour, isEnabled |-> TRUE]]
            /\ Goto(c, "record")
         \/ /\ UNCHANGED hooks
            /\ Goto(c, AfterFailedEnable)
      /\ UNCHANGED <<heap, slots, minHookInitialized, boundaries, tableVars>>

FreeBuffer_Forgotten == UNCHANGED slots   \* mutant
FreeBuffer == slots' = slots - 1

(* MH_RemoveHook.  It does not disable first: its hook never was enabled. *)
RemoveHook(c) ==
  LET a == arg[c].realAddress
  IN  /\ pc[c] = "removing"
      /\ LeaveSpinLock
      /\ IF Hooked(a)
         THEN hooks' = [hooks EXCEPT ![a] = NoHook] /\ FreeBuffer
         ELSE UNCHANGED <<hooks, slots>>
      /\ Refuse(c)
      /\ UNCHANGED <<heap, minHookInitialized, boundaries, tableVars>>

NextHandle_PreIncrement == patchCount + 1   \* mutant: ++g_patchCount
NextHandle == patchCount

(* handle = g_patchCount++, then the entry's fields. *)
ReadCount(c) ==
  /\ pc[c] = "record"
  /\ pc' = [pc EXCEPT ![c] = "bump"]
  /\ index' = [index EXCEPT ![c] = NextHandle]
  /\ UNCHANGED <<arg, answers, minHookVars, minHookInitialized, boundaries, tableVars>>

CountAfter_Same(handle) == handle   \* mutant: the count is not advanced
CountAfter(handle) == handle + 1

WriteCount(c) ==
  /\ pc[c] = "bump"
  /\ patchCount' = CountAfter(index[c])
  /\ Goto(c, "fill")
  /\ UNCHANGED <<minHookVars, minHookInitialized, boundaries, patches>>

FillEntry(c) ==
  /\ pc[c] = "fill"
  /\ patches' = [patches EXCEPT ![index[c]] = arg[c]]
  /\ Answer(c, index[c])
  /\ UNCHANGED <<minHookVars, minHookInitialized, boundaries, patchCount>>

-----------------------------------------------------------------------------
Init ==
  /\ pc = [c \in Callers |-> "idle"]
  /\ arg = [c \in Callers |-> NoArg]
  /\ index = [c \in Callers |-> 0]
  /\ answers = {}
  /\ isLocked = FALSE
  /\ heap = FALSE
  /\ minHookInitialized = FALSE
  /\ boundaries = FALSE
  /\ hooks = [a \in Addrs |-> NoHook]
  /\ slots = 0
  /\ patches = [i \in 0 .. MaxPatches - 1 |-> NoPatch]
  /\ patchCount = 0

Step(c) ==
  \/ LookupPatch(c) \/ CheckBoundary(c)
  \/ EnterSpinLock(c)
  \/ Initialize(c) \/ CreateHook(c) \/ EnableHook(c) \/ RemoveHook(c)
  \/ ReadCount(c) \/ WriteCount(c) \/ FillEntry(c)

Next ==
  \E c \in Callers :
    \/ \E a \in Addrs \cup {NULL}, code \in Codes \cup {NULL} : InstallPatch(c, a, code)
    \/ Step(c)

Spec == Init /\ [][Next]_vars
FairSpec == Spec /\ \A c \in Callers : WF_vars(Step(c))
-----------------------------------------------------------------------------
Entries == [realAddress : Addrs \cup {NULL}, receiverCode : Codes \cup {NULL}]

(* The shape of the state; what install_patch hands out as a handle is one. *)
TypeOK ==
  /\ pc \in [Callers -> Points]
  /\ arg \in [Callers -> Entries]
  /\ index \in [Callers -> Nat]
  /\ answers \subseteq [addr : Addrs, code : Codes, handle : Nat]
  /\ isLocked \in BOOLEAN
  /\ heap \in BOOLEAN
  /\ minHookInitialized \in BOOLEAN
  /\ boundaries \in BOOLEAN
  /\ hooks \in [Addrs -> [detour : Codes \cup {NULL}, isEnabled : BOOLEAN]]
  /\ slots \in Int
  /\ patches \in [0 .. MaxPatches - 1 -> Entries]
  /\ patchCount \in Nat

(* MinHook's list is never touched by two threads at once, whatever the     *)
(* calls do and wherever they fail: at most one caller is between           *)
(* EnterSpinLock and LeaveSpinLock, and only while the flag is up.          *)
MutualExclusion ==
  \A c, d \in Callers :
    pc[c] \in Inside => isLocked /\ (pc[d] \in Inside => c = d)

(* A hook that MH_CreateHook made and MH_EnableHook has not enabled yet     *)
(* belongs to exactly one caller, which is still going to enable or to      *)
(* remove it: no two installs for one address share a half-made hook, and   *)
(* none is left behind by one that failed.                                  *)
Owns(c, a) ==
  /\ arg[c].realAddress = a
  /\ pc[c] \in {"enable", "enabling", "remove", "removing"}

HalfMadeHookHasOneOwner ==
  \A a \in Addrs :
    /\ Hooked(a) /\ ~Redirected(a) =>
         \E c \in Callers : Owns(c, a) /\ hooks[a].detour = arg[c].receiverCode
    /\ \A c, d \in Callers : Owns(c, a) /\ Owns(d, a) => c = d

(* The state is well typed, with no -1 handed out as a handle; MinHook's     *)
(* list has one user, and each hook in the making one owner.                *)
HooksConsistent == TypeOK /\ MutualExclusion /\ HalfMadeHookHasOneOwner

(* Once the first bytes of a function jump to a receiver they do so for     *)
(* good: no later install, failed or not and from whichever thread, takes   *)
(* the function over or takes the redirect out.                             *)
RedirectIsFinal ==
  [][\A a \in Addrs : Redirected(a) => hooks'[a] = hooks[a]]_vars

(* Whoever holds a handle reaches the function it hooked: every entry of    *)
(* the table names an address whose redirect is in place and leads to the   *)
(* entry's own receiver, and no address has two entries.                    *)
Recorded == {i \in Handles : ~ \E c \in Callers : pc[c] = "fill" /\ index[c] = i}

HandleServesItsHook ==
  \A i \in Recorded :
    LET p == patches[i]
    IN  /\ p.realAddress \in Addrs
        /\ hooks[p.realAddress] = [detour |-> p.receiverCode, isEnabled |-> TRUE]
        /\ \A j \in Recorded : patches[j].realAddress = p.realAddress => i = j

(* A live redirect without a handle would lose the original function: its   *)
(* receiver could only ever answer call_original with an unknown handle.    *)
(* Every redirect is in the table, or its install is about to record it.    *)
NoOrphanRedirect ==
  \A a \in Addrs : Redirected(a) =>
    \/ \E i \in Recorded : patches[i].realAddress = a
    \/ \E c \in Callers : pc[c] \in Recording /\ arg[c].realAddress = a

(* Between installs MinHook holds a trampoline slot for each live redirect  *)
(* and for nothing else: an install that failed half-way gave all it took   *)
(* back, lock included.                                                     *)
QuietMeansClean ==
  (\A c \in Callers : pc[c] = "idle") =>
    /\ ~isLocked
    /\ \A a \in Addrs : Hooked(a) => Redirected(a)
    /\ slots = Cardinality({a \in Addrs : Redirected(a)})

(* Two installs of one address that both got a handle got the same one and  *)
(* for the same receiver, and a handle stands for one address: the second   *)
(* hook of an inherited method is refused, never quietly merged.            *)
AnswersAgree ==
  \A x, y \in answers : x.addr = y.addr \/ x.handle = y.handle => x = y

(* The table never runs over its end.                                       *)
TableInBounds ==
  \A c \in Callers : pc[c] \in Recording => patchCount <= MaxPatches
                                          /\ (pc[c] = "fill" => index[c] < MaxPatches)

(* Table, hooks and what installers were told agree.                        *)
TableConsistent ==
  HandleServesItsHook /\ NoOrphanRedirect /\ AnswersAgree /\ TableInBounds

(* From the moment the function boundaries are known, no install redirects  *)
(* a function too short to hold the jump, even after earlier installs ran   *)
(* without the check; as far as the function that the jump would run into   *)
(* is among those whose boundaries are gathered.                            *)
ListedNeighboursSpared ==
  [][boundaries => \A a \in Addrs : ~HasRoom(Listed, a) /\ Redirected(a)' => Redirected(a)]_vars

(* install_patch returns: a call that entered comes back, whatever its      *)
(* target is and whatever an earlier call met.                              *)
InstallReturns ==
  \A c \in Callers : pc[c] # "idle" ~> pc[c] = "idle"
=============================================================================
