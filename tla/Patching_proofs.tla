-------------------------- MODULE Patching_proofs --------------------------
(***************************************************************************)
(* Proofs about Patching: for any number of threads, what MinHook's spin   *)
(* lock guarantees about hooks; for one thread, the only use install_patch *)
(* is written for, what its unprotected table guarantees as well.          *)
(***************************************************************************)
EXTENDS Patching, FiniteSetTheorems, WellFoundedInduction, TLAPS

-----------------------------------------------------------------------------
(* A caller past the null checks has an address and a code. *)
ArgsChecked ==
  \A c \in Callers : pc[c] \notin {"idle", "lookup"} =>
    arg[c].realAddress \in Addrs /\ arg[c].receiverCode \in Codes

(* Whoever owns a half-made hook finds it as MH_CreateHook left it. *)
OwnersHoldHalfMade ==
  \A c \in Callers, a \in Addrs : Owns(c, a) => Hooked(a) /\ ~Redirected(a)

IInv == TypeOK /\ ArgsChecked /\ MutualExclusion /\ OwnersHoldHalfMade
          /\ HalfMadeHookHasOneOwner

-----------------------------------------------------------------------------
(* A non-empty set of naturals has a least element, so that the lookup's    *)
(* first match is one.                                                      *)
LEMMA LeastNat ==
  ASSUME NEW S, S \subseteq Nat, S # {}
  PROVE  \E x \in S : \A y \in S : x <= y
<1>. DEFINE R == OpToRel(<, Nat)
<1>1. IsWellFoundedOn(R, Nat)
  BY NatLessThanWellFounded
<1>2. PICK x \in S : \A y \in S : <<y, x>> \notin R
  <2>. HIDE DEF R
  <2>. QED BY <1>1, WFMin
<1>3. ASSUME NEW y \in S PROVE x <= y
  <2>1. x \in Nat /\ y \in Nat
    OBVIOUS
  <2>2. ~(y < x)
    BY <1>2, <2>1 DEF OpToRel
  <2>. QED
    BY <2>1, <2>2
<1>. QED
  BY <1>3

(* The index at which the lookup's scan stops is that of an entry for the    *)
(* address.                                                                  *)
LEMMA FirstPatchOfMatches ==
  ASSUME NEW a, patchCount \in Nat, SameAddress(a) # {}
  PROVE  /\ FirstPatchOf(a) \in SameAddress(a)
         /\ FirstPatchOf(a) \in Handles /\ FirstPatchOf(a) \in Nat
         /\ patches[FirstPatchOf(a)].realAddress = a
<1>1. SameAddress(a) \subseteq Handles /\ Handles \subseteq Nat
  BY DEF SameAddress, Handles
<1>2. \E i \in SameAddress(a) : \A j \in SameAddress(a) : i <= j
  BY <1>1, LeastNat
<1>3. FirstPatchOf(a) \in SameAddress(a)
  BY <1>2 DEF FirstPatchOf
<1>. QED
  BY <1>1, <1>3 DEF SameAddress

-----------------------------------------------------------------------------
(* Every step keeps the state well typed. *)
LEMMA TypeStep ==
  ASSUME TypeOK, ArgsChecked, [Next]_vars
  PROVE  TypeOK' /\ ArgsChecked'
<1>. USE PatchingAssumption DEF TypeOK, ArgsChecked, Entries, NoArg, NoPatch
<1>1. CASE UNCHANGED vars
  BY <1>1 DEF vars, callerVars, minHookVars, tableVars
<1>2. ASSUME NEW c \in Callers, NEW a \in Addrs \cup {NULL}, NEW code \in Codes \cup {NULL},
             InstallPatch(c, a, code)
      PROVE  TypeOK' /\ ArgsChecked'
  BY <1>2 DEF InstallPatch, minHookVars, tableVars, Points
<1>3. ASSUME NEW c \in Callers, LookupPatch(c)
      PROVE  TypeOK' /\ ArgsChecked'
  <2>. DEFINE a == arg[c].realAddress
              code == arg[c].receiverCode
  <2>0. /\ pc[c] = "lookup"
        /\ UNCHANGED <<isLocked, heap, hooks, slots, minHookInitialized, boundaries,
                       patches, patchCount>>
    BY <1>3 DEF LookupPatch, minHookVars, tableVars
  <2>1. CASE Refuse(c)
    BY <2>0, <2>1 DEF Refuse, Points
  <2>2. CASE a # NULL /\ code # NULL /\ SameAddress(a) # {} /\ Answer(c, FirstPatchOf(a))
    <3>1. FirstPatchOf(a) \in Nat
      BY <2>2, FirstPatchOfMatches
    <3>2. a \in Addrs /\ code \in Codes
      BY <2>2
    <3>. QED
      BY <2>0, <2>2, <3>1, <3>2 DEF Answer, Points
  <2>3. CASE a # NULL /\ code # NULL /\ Goto(c, "boundary")
    <3>1. a \in Addrs /\ code \in Codes
      BY <2>3
    <3>. QED
      BY <2>0, <2>3, <3>1 DEF Goto, Points
  <2>. QED
    BY <1>3, <2>1, <2>2, <2>3 DEF LookupPatch
<1>4. ASSUME NEW c \in Callers, CheckBoundary(c)
      PROVE  TypeOK' /\ ArgsChecked'
  <2>1. CASE Refuse(c)
    BY <1>4, <2>1 DEF CheckBoundary, Refuse, Points, minHookVars, tableVars
  <2>2. CASE \E p \in {"create", "initialize"} : Goto(c, p)
    BY <1>4, <2>2 DEF CheckBoundary, Goto, Points, Waiting, minHookVars, tableVars
  <2>. QED
    BY <1>4, <2>1, <2>2 DEF CheckBoundary
<1>5. ASSUME NEW c \in Callers, EnterSpinLock(c)
      PROVE  TypeOK' /\ ArgsChecked'
  <2>1. Locked[pc[c]] \in Inside /\ pc[c] \notin {"idle", "lookup"}
    BY <1>5 DEF EnterSpinLock, Locked, Waiting, Inside
  <2>. QED
    BY <1>5, <2>1 DEF EnterSpinLock, Goto, Points, Inside, tableVars
<1>6. ASSUME NEW c \in Callers, Initialize(c)
      PROVE  TypeOK' /\ ArgsChecked'
  <2>0. /\ pc[c] = "initializing"
        /\ isLocked' = FALSE
        /\ heap' \in {TRUE, heap} /\ minHookInitialized' \in {TRUE, minHookInitialized}
        /\ UNCHANGED <<hooks, slots, boundaries, patches, patchCount>>
    BY <1>6 DEF Initialize, LeaveSpinLock, tableVars
  <2>1. CASE Refuse(c)
    BY <2>0, <2>1 DEF Refuse, Points
  <2>2. CASE Goto(c, "create")
    BY <2>0, <2>2 DEF Goto, Points, Waiting
  <2>. QED
    BY <1>6, <2>1, <2>2 DEF Initialize
<1>7. ASSUME NEW c \in Callers, CreateHook(c)
      PROVE  TypeOK' /\ ArgsChecked'
  <2>0. /\ pc[c] = "creating"
        /\ isLocked' \in BOOLEAN
        /\ slots' \in {slots, slots + 1}
        /\ UNCHANGED <<heap, minHookInitialized, boundaries, patches, patchCount>>
    BY <1>7 DEF CreateHook, LeaveSpinLock, tableVars
  <2>1. CASE Refuse(c) /\ UNCHANGED hooks
    BY <2>0, <2>1 DEF Refuse, Points
  <2>2. CASE /\ hooks' = [hooks EXCEPT ![arg[c].realAddress] =
                             [detour |-> arg[c].receiverCode, isEnabled |-> FALSE]]
             /\ Goto(c, "enable")
    <3>1. arg[c].realAddress \in Addrs /\ arg[c].receiverCode \in Codes
      BY <2>0
    <3>2. hooks' \in [Addrs -> [detour : Codes \cup {NULL}, isEnabled : BOOLEAN]]
      BY <2>2, <3>1
    <3>. QED
      BY <2>0, <2>2, <3>1, <3>2 DEF Goto, Points, Waiting
  <2>. QED
    BY <1>7, <2>1, <2>2 DEF CreateHook
<1>8. ASSUME NEW c \in Callers, EnableHook(c)
      PROVE  TypeOK' /\ ArgsChecked'
  <2>0. /\ pc[c] = "enabling"
        /\ isLocked' = FALSE
        /\ UNCHANGED <<heap, slots, minHookInitialized, boundaries, patches, patchCount>>
    BY <1>8 DEF EnableHook, AfterFailedEnable, LeaveSpinLock, tableVars
  <2>1. CASE UNCHANGED hooks /\ Goto(c, "remove")
    BY <2>0, <2>1 DEF Goto, Points, Waiting
  <2>2. CASE /\ hooks' = [hooks EXCEPT ![arg[c].realAddress] =
                             [detour |-> hooks[arg[c].realAddress].detour,
                              isEnabled |-> TRUE]]
             /\ Goto(c, "record")
    <3>1. hooks' \in [Addrs -> [detour : Codes \cup {NULL}, isEnabled : BOOLEAN]]
      BY <2>2
    <3>. QED
      BY <2>0, <2>2, <3>1 DEF Goto, Points, Recording
  <2>. QED
    BY <1>8, <2>1, <2>2 DEF EnableHook, AfterFailedEnable
<1>9. ASSUME NEW c \in Callers, RemoveHook(c)
      PROVE  TypeOK' /\ ArgsChecked'
  <2>1. /\ isLocked' = FALSE
        /\ UNCHANGED <<heap, minHookInitialized, boundaries, patches, patchCount>>
    BY <1>9 DEF RemoveHook, LeaveSpinLock, tableVars
  <2>2. slots' \in Int
    BY <1>9 DEF RemoveHook, FreeBuffer
  <2>3. hooks' \in [Addrs -> [detour : Codes \cup {NULL}, isEnabled : BOOLEAN]]
    <3>1. NoHook \in [detour : Codes \cup {NULL}, isEnabled : BOOLEAN]
      BY DEF NoHook
    <3>2. \/ hooks' = hooks
          \/ hooks' = [hooks EXCEPT ![arg[c].realAddress] = NoHook]
      BY <1>9 DEF RemoveHook
    <3>. QED
      BY <3>1, <3>2
  <2>4. /\ pc' = [pc EXCEPT ![c] = "idle"]
        /\ arg' = [arg EXCEPT ![c] = NoArg]
        /\ UNCHANGED <<index, answers>>
    BY <1>9 DEF RemoveHook, Refuse
  <2>. QED
    BY <2>1, <2>2, <2>3, <2>4 DEF Points
<1>10. ASSUME NEW c \in Callers, ReadCount(c)
       PROVE  TypeOK' /\ ArgsChecked'
  BY <1>10 DEF ReadCount, NextHandle, Points, Recording, minHookVars, tableVars
<1>11. ASSUME NEW c \in Callers, WriteCount(c)
       PROVE  TypeOK' /\ ArgsChecked'
  BY <1>11 DEF WriteCount, CountAfter, Goto, Points, Recording, minHookVars
<1>12. ASSUME NEW c \in Callers, FillEntry(c)
       PROVE  TypeOK' /\ ArgsChecked'
  <2>1. /\ pc[c] = "fill"
        /\ arg[c] \in [realAddress : Addrs, receiverCode : Codes]
        /\ patches' = [patches EXCEPT ![index[c]] = arg[c]]
        /\ Answer(c, index[c])
        /\ UNCHANGED <<isLocked, heap, hooks, slots, minHookInitialized, boundaries,
                       patchCount>>
    BY <1>12 DEF FillEntry, minHookVars
  <2>2. patches' \in [0 .. MaxPatches - 1 -> Entries]
    BY <2>1
  <2>. QED
    BY <2>1, <2>2 DEF Answer, Points
<1>. QED
  BY <1>1, <1>2, <1>3, <1>4, <1>5, <1>6, <1>7, <1>8, <1>9, <1>10, <1>11, <1>12
     DEF Next, Step

-----------------------------------------------------------------------------
(* The spin lock: a caller goes in only when the flag is down, and lowers   *)
(* it on its way out.                                                       *)
LEMMA LockStep ==
  ASSUME TypeOK, MutualExclusion, [Next]_vars
  PROVE  MutualExclusion'
<1>. USE DEF TypeOK, MutualExclusion
<1>1. CASE UNCHANGED vars
  BY <1>1 DEF vars, callerVars, minHookVars
<1>2. ASSUME NEW c \in Callers, UNCHANGED isLocked,
             \E p : p \notin Inside /\ pc' = [pc EXCEPT ![c] = p]
      PROVE  MutualExclusion'
  BY <1>2
<1>3. ASSUME NEW c \in Callers, pc[c] \in Inside,
             \E p : p \notin Inside /\ pc' = [pc EXCEPT ![c] = p]
      PROVE  MutualExclusion'
  BY <1>3
<1>4. ASSUME NEW c \in Callers, NEW a \in Addrs \cup {NULL}, NEW code \in Codes \cup {NULL},
             InstallPatch(c, a, code)
      PROVE  MutualExclusion'
  BY <1>2, <1>4 DEF InstallPatch, minHookVars, Inside
<1>5. ASSUME NEW c \in Callers, LookupPatch(c) \/ CheckBoundary(c)
      PROVE  MutualExclusion'
  <2>1. /\ UNCHANGED isLocked
        /\ \E p \in {"idle", "boundary", "create", "initialize"} : pc' = [pc EXCEPT ![c] = p]
    BY <1>5 DEF LookupPatch, CheckBoundary, Refuse, Answer, Goto, minHookVars
  <2>. QED
    BY <1>2, <2>1 DEF Inside
<1>6. ASSUME NEW c \in Callers, EnterSpinLock(c)
      PROVE  MutualExclusion'
  BY <1>6 DEF EnterSpinLock, SpinLockFree, Goto
<1>7. ASSUME NEW c \in Callers,
             Initialize(c) \/ CreateHook(c) \/ EnableHook(c) \/ RemoveHook(c)
      PROVE  MutualExclusion'
  <2>1. /\ pc[c] \in Inside
        /\ \E p \in {"idle", "create", "enable", "record", "remove"} :
             pc' = [pc EXCEPT ![c] = p]
    BY <1>7 DEF Initialize, CreateHook, EnableHook, AfterFailedEnable, RemoveHook, Refuse, Goto,
                Inside
  <2>. QED
    BY <1>3, <2>1 DEF Inside
<1>8. ASSUME NEW c \in Callers, ReadCount(c) \/ WriteCount(c) \/ FillEntry(c)
      PROVE  MutualExclusion'
  <2>1. /\ UNCHANGED isLocked
        /\ \E p \in {"bump", "fill", "idle"} : pc' = [pc EXCEPT ![c] = p]
    BY <1>8 DEF ReadCount, WriteCount, CountAfter, FillEntry, Answer, Goto, minHookVars
  <2>. QED
    BY <1>2, <2>1 DEF Inside
<1>. QED
  BY <1>1, <1>4, <1>5, <1>6, <1>7, <1>8 DEF Next, Step

-----------------------------------------------------------------------------
(* A step that leaves the hooks and their owners alone.                     *)
LEMMA SameOwners ==
  ASSUME OwnersHoldHalfMade, HalfMadeHookHasOneOwner, UNCHANGED hooks,
         \A d \in Callers, a \in Addrs :
           /\ Owns(d, a)' <=> Owns(d, a)
           /\ Owns(d, a) => arg'[d].receiverCode = arg[d].receiverCode
  PROVE  /\ OwnersHoldHalfMade' /\ HalfMadeHookHasOneOwner'
         /\ \A a \in Addrs : Redirected(a) => hooks'[a] = hooks[a]
BY DEF OwnersHoldHalfMade, HalfMadeHookHasOneOwner, Hooked, Redirected

(* Half-made hooks keep their single owner and finished ones never change.  *)
LEMMA HookStep ==
  ASSUME TypeOK, ArgsChecked, OwnersHoldHalfMade, HalfMadeHookHasOneOwner, [Next]_vars
  PROVE  /\ OwnersHoldHalfMade' /\ HalfMadeHookHasOneOwner'
         /\ \A a \in Addrs : Redirected(a) => hooks'[a] = hooks[a]
<1>. DEFINE Goal == /\ OwnersHoldHalfMade' /\ HalfMadeHookHasOneOwner'
                    /\ \A a \in Addrs : Redirected(a) => hooks'[a] = hooks[a]
            OwnPoints == {"enable", "enabling", "remove", "removing"}
<1>. HIDE DEF Goal
<1>. USE PatchingAssumption DEF TypeOK
<1>1. CASE UNCHANGED vars
  BY <1>1, SameOwners DEF Goal, vars, callerVars, minHookVars, Owns
<1>2. ASSUME NEW c \in Callers, UNCHANGED hooks, pc[c] \notin OwnPoints,
             \E p : p \notin OwnPoints /\ pc' = [pc EXCEPT ![c] = p],
             \A d \in Callers \ {c} : arg'[d] = arg[d]
      PROVE  Goal
  <2>1. \A d \in Callers, a \in Addrs :
          /\ Owns(d, a)' <=> Owns(d, a)
          /\ Owns(d, a) => arg'[d].receiverCode = arg[d].receiverCode
    BY <1>2 DEF Owns
  <2>. QED
    BY <1>2, <2>1, SameOwners DEF Goal
<1>3. ASSUME NEW c \in Callers, NEW a \in Addrs \cup {NULL}, NEW code \in Codes \cup {NULL},
             InstallPatch(c, a, code)
      PROVE  Goal
  BY <1>2, <1>3 DEF InstallPatch, minHookVars
<1>4. ASSUME NEW c \in Callers,
             LookupPatch(c) \/ CheckBoundary(c) \/ Initialize(c)
               \/ ReadCount(c) \/ WriteCount(c) \/ FillEntry(c)
      PROVE  Goal
  <2>1. pc[c] \notin OwnPoints /\ UNCHANGED hooks
    BY <1>4 DEF LookupPatch, CheckBoundary, Initialize, ReadCount, WriteCount, CountAfter,
                FillEntry, minHookVars
  <2>2. /\ \E p \in {"idle", "boundary", "create", "initialize", "bump", "fill"} :
             pc' = [pc EXCEPT ![c] = p]
        /\ \A d \in Callers \ {c} : arg'[d] = arg[d]
    BY <1>4 DEF LookupPatch, CheckBoundary, Initialize, ReadCount, WriteCount, CountAfter,
                FillEntry, Refuse, Answer, Goto
  <2>. QED
    BY <1>2, <2>1, <2>2
<1>5. ASSUME NEW c \in Callers, EnterSpinLock(c)
      PROVE  Goal
  <2>1. \A d \in Callers, a \in Addrs :
          /\ Owns(d, a)' <=> Owns(d, a)
          /\ Owns(d, a) => arg'[d].receiverCode = arg[d].receiverCode
    <3>1. /\ pc[c] \in Waiting /\ pc' = [pc EXCEPT ![c] = Locked[pc[c]]]
          /\ UNCHANGED arg
      BY <1>5 DEF EnterSpinLock, Goto
    <3>2. Locked[pc[c]] \in OwnPoints <=> pc[c] \in OwnPoints
      BY <3>1 DEF Locked, Waiting
    <3>. QED
      BY <3>1, <3>2 DEF Owns
  <2>. QED
    BY <1>5, <2>1, SameOwners DEF Goal, EnterSpinLock
<1>6. ASSUME NEW c \in Callers, CreateHook(c)
      PROVE  Goal
  <2>1. CASE Refuse(c) /\ UNCHANGED hooks
    BY <1>2, <1>6, <2>1 DEF CreateHook, Refuse
  <2>2. CASE /\ HookEntryFree(arg[c].realAddress)
             /\ hooks' = [hooks EXCEPT ![arg[c].realAddress] =
                             [detour |-> arg[c].receiverCode, isEnabled |-> FALSE]]
             /\ Goto(c, "enable")
    <3>. DEFINE b == arg[c].realAddress
    <3>1. pc[c] = "creating" /\ b \in Addrs /\ arg[c].receiverCode \in Codes
      BY <1>6 DEF CreateHook, ArgsChecked
    <3>2. /\ ~Hooked(b) /\ ~Redirected(b)
          /\ hooks'[b] = [detour |-> arg[c].receiverCode, isEnabled |-> FALSE]
          /\ hooks'[b] # NoHook /\ ~hooks'[b].isEnabled
      <4>1. hooks[b] = NoHook /\ ~Redirected(b)
        BY <2>2 DEF HookEntryFree, Hooked, Redirected, NoHook
      <4>2. hooks'[b] = [detour |-> arg[c].receiverCode, isEnabled |-> FALSE]
        BY <2>2, <3>1
      <4>3. hooks'[b].detour # NULL /\ ~hooks'[b].isEnabled
        BY <3>1, <4>2
      <4>4. hooks'[b] # NoHook
        BY <4>3 DEF NoHook
      <4>. QED
        BY <4>1, <4>2, <4>3, <4>4 DEF Hooked
    <3>3. \A a \in Addrs \ {b} : hooks'[a] = hooks[a]
      BY <2>2, <3>1
    <3>4. \A d \in Callers : ~Owns(d, b)
      BY <3>1, <3>2 DEF OwnersHoldHalfMade
    <3>5. /\ \A d \in Callers \ {c}, a \in Addrs : Owns(d, a)' <=> Owns(d, a)
          /\ \A a \in Addrs : Owns(c, a)' <=> a = b
          /\ \A a \in Addrs : ~Owns(c, a)
          /\ UNCHANGED arg
      BY <2>2, <3>1 DEF Owns, Goto
    <3>6. OwnersHoldHalfMade'
      BY <3>1, <3>2, <3>3, <3>4, <3>5 DEF OwnersHoldHalfMade, Hooked, Redirected
    <3>7. HalfMadeHookHasOneOwner'
      <4>1. ASSUME NEW a \in Addrs, Hooked(a)', ~Redirected(a)'
            PROVE  \E d \in Callers : Owns(d, a)' /\ hooks'[a].detour = arg'[d].receiverCode
        <5>1. CASE a = b
          <6>1. Owns(c, b)' /\ arg'[c] = arg[c]
            BY <3>1, <3>5
          <6>2. hooks'[b].detour = arg'[c].receiverCode
            BY <3>2, <6>1
          <6>. QED
            BY <5>1, <6>1, <6>2
        <5>2. CASE a # b
          <6>1. Hooked(a) /\ ~Redirected(a)
            BY <3>3, <4>1, <5>2 DEF Hooked, Redirected
          <6>2. PICK d \in Callers : Owns(d, a) /\ hooks[a].detour = arg[d].receiverCode
            BY <6>1 DEF HalfMadeHookHasOneOwner
          <6>. QED
            BY <3>3, <3>5, <5>2, <6>2
        <5>. QED
          BY <5>1, <5>2
      <4>2. \A a \in Addrs, d, e \in Callers : Owns(d, a)' /\ Owns(e, a)' => d = e
        BY <3>1, <3>4, <3>5 DEF HalfMadeHookHasOneOwner
      <4>. QED
        BY <4>1, <4>2 DEF HalfMadeHookHasOneOwner
    <3>. QED
      BY <3>2, <3>3, <3>6, <3>7 DEF Goal
  <2>. QED
    BY <1>6, <2>1, <2>2 DEF CreateHook
<1>7. ASSUME NEW c \in Callers, EnableHook(c)
      PROVE  Goal
  <2>. DEFINE b == arg[c].realAddress
  <2>1. pc[c] = "enabling" /\ b \in Addrs /\ Owns(c, b)
    BY <1>7 DEF EnableHook, AfterFailedEnable, ArgsChecked, Owns
  <2>2. CASE UNCHANGED hooks /\ Goto(c, "remove")
    <3>1. \A d \in Callers, a \in Addrs :
            /\ Owns(d, a)' <=> Owns(d, a)
            /\ Owns(d, a) => arg'[d].receiverCode = arg[d].receiverCode
      BY <2>1, <2>2 DEF Owns, Goto
    <3>. QED
      BY <2>2, <3>1, SameOwners DEF Goal
  <2>3. CASE /\ ~Redirected(b) /\ Goto(c, "record")
             /\ hooks' = [hooks EXCEPT ![b] = [detour |-> hooks[b].detour,
                                               isEnabled |-> TRUE]]
    <3>1. /\ hooks'[b].isEnabled = TRUE
          /\ \A a \in Addrs \ {b} : hooks'[a] = hooks[a]
      BY <2>1, <2>3
    <3>2. /\ \A d \in Callers \ {c}, a \in Addrs : Owns(d, a)' <=> Owns(d, a)
          /\ \A a \in Addrs : ~Owns(c, a)'
          /\ UNCHANGED arg
      BY <2>1, <2>3 DEF Owns, Goto
    <3>3. \A d \in Callers : Owns(d, b) => d = c
      BY <2>1 DEF HalfMadeHookHasOneOwner
    <3>4. \A a \in Addrs \ {b} : ~Owns(c, a)
      BY <2>1 DEF Owns
    <3>5. OwnersHoldHalfMade'
      BY <2>1, <3>1, <3>2, <3>3, <3>4 DEF OwnersHoldHalfMade, Hooked, Redirected
    <3>6. HalfMadeHookHasOneOwner'
      <4>1. ASSUME NEW a \in Addrs, Hooked(a)', ~Redirected(a)'
            PROVE  \E d \in Callers : Owns(d, a)' /\ hooks'[a].detour = arg'[d].receiverCode
        <5>1. a # b /\ Hooked(a) /\ ~Redirected(a)
          BY <3>1, <4>1 DEF Hooked, Redirected, NoHook
        <5>2. PICK d \in Callers : Owns(d, a) /\ hooks[a].detour = arg[d].receiverCode
          BY <5>1 DEF HalfMadeHookHasOneOwner
        <5>3. d # c
          BY <3>4, <5>1, <5>2
        <5>. QED
          BY <3>1, <3>2, <5>1, <5>2, <5>3
      <4>2. ASSUME NEW a \in Addrs, NEW d \in Callers, NEW e \in Callers,
                   Owns(d, a)', Owns(e, a)'
            PROVE  d = e
        <5>1. d # c /\ e # c
          BY <3>2, <4>2
        <5>. QED
          BY <3>2, <4>2, <5>1 DEF HalfMadeHookHasOneOwner
      <4>. QED
        BY <4>1, <4>2 DEF HalfMadeHookHasOneOwner
    <3>. QED
      BY <2>1, <2>3, <3>1, <3>5, <3>6 DEF Goal
  <2>. QED
    BY <1>7, <2>2, <2>3 DEF EnableHook, AfterFailedEnable
<1>8. ASSUME NEW c \in Callers, RemoveHook(c)
      PROVE  Goal
  <2>. DEFINE b == arg[c].realAddress
  <2>1. pc[c] = "removing" /\ b \in Addrs /\ Owns(c, b)
    BY <1>8 DEF RemoveHook, ArgsChecked, Owns
  <2>2. Hooked(b) /\ ~Redirected(b)
    BY <2>1 DEF OwnersHoldHalfMade
  <2>3. hooks' = [hooks EXCEPT ![b] = NoHook] /\ Refuse(c)
    BY <1>8, <2>2 DEF RemoveHook
  <2>4. /\ hooks'[b] = NoHook
        /\ \A a \in Addrs \ {b} : hooks'[a] = hooks[a]
    BY <2>1, <2>3
  <2>5. /\ \A d \in Callers \ {c}, a \in Addrs : Owns(d, a)' <=> Owns(d, a)
        /\ \A a \in Addrs : ~Owns(c, a)'
        /\ \A d \in Callers \ {c} : arg'[d] = arg[d]
    BY <2>1, <2>3 DEF Owns, Refuse
  <2>6. \A d \in Callers : Owns(d, b) => d = c
    BY <2>1 DEF HalfMadeHookHasOneOwner
  <2>7. \A a \in Addrs \ {b} : ~Owns(c, a)
    BY <2>1 DEF Owns
  <2>8. OwnersHoldHalfMade'
    BY <2>1, <2>4, <2>5, <2>6, <2>7 DEF OwnersHoldHalfMade, Hooked, Redirected
  <2>9. HalfMadeHookHasOneOwner'
    <3>1. ASSUME NEW a \in Addrs, Hooked(a)', ~Redirected(a)'
          PROVE  \E d \in Callers : Owns(d, a)' /\ hooks'[a].detour = arg'[d].receiverCode
      <4>1. a # b /\ Hooked(a) /\ ~Redirected(a)
        BY <2>4, <3>1 DEF Hooked, Redirected, NoHook
      <4>2. PICK d \in Callers : Owns(d, a) /\ hooks[a].detour = arg[d].receiverCode
        BY <4>1 DEF HalfMadeHookHasOneOwner
      <4>3. d # c
        BY <2>7, <4>1, <4>2
      <4>. QED
        BY <2>4, <2>5, <4>1, <4>2, <4>3
    <3>2. \A a \in Addrs, d, e \in Callers : Owns(d, a)' /\ Owns(e, a)' => d = e
      BY <2>4, <2>5 DEF HalfMadeHookHasOneOwner
    <3>. QED
      BY <3>1, <3>2 DEF HalfMadeHookHasOneOwner
  <2>. QED
    BY <2>2, <2>4, <2>8, <2>9 DEF Goal
<1>. QED
  BY <1>1, <1>3, <1>4, <1>5, <1>6, <1>7, <1>8 DEF Goal, Next, Step

-----------------------------------------------------------------------------
(* Before the first install nothing is hooked, owned or locked.              *)
LEMMA InitIInv == Init => IInv
<1>. SUFFICES ASSUME Init PROVE IInv
  OBVIOUS
<1>. USE PatchingAssumption DEF Init
<1>1. TypeOK
  <2>1. NoPatch \in Entries
    BY DEF NoPatch, Entries
  <2>2. NoHook \in [detour : Codes \cup {NULL}, isEnabled : BOOLEAN]
    BY DEF NoHook
  <2>. QED
    <3>1. pc \in [Callers -> Points] /\ index \in [Callers -> Nat]
      BY DEF Points
    <3>2. arg \in [Callers -> Entries] /\ patches \in [0 .. MaxPatches - 1 -> Entries]
      BY <2>1 DEF NoArg
    <3>3. hooks \in [Addrs -> [detour : Codes \cup {NULL}, isEnabled : BOOLEAN]]
      BY <2>2
    <3>4. /\ isLocked \in BOOLEAN /\ heap \in BOOLEAN
          /\ minHookInitialized \in BOOLEAN /\ boundaries \in BOOLEAN
      BY Zenon
    <3>5. slots \in Int /\ patchCount \in Nat
      OBVIOUS
    <3>6. answers \subseteq [addr : Addrs, code : Codes, handle : Nat]
      BY Zenon
    <3>. HIDE DEF Init
    <3>. QED
      BY <3>1, <3>2, <3>3, <3>4, <3>5, <3>6 DEF TypeOK
<1>2. ArgsChecked /\ MutualExclusion /\ OwnersHoldHalfMade
  BY DEF ArgsChecked, MutualExclusion, OwnersHoldHalfMade, Owns, Inside
<1>3. HalfMadeHookHasOneOwner
  BY DEF HalfMadeHookHasOneOwner, Owns, Hooked
<1>. QED
  BY <1>1, <1>2, <1>3 DEF IInv

(* Every step, of whichever thread, preserves the invariant.                 *)
LEMMA NextIInv == IInv /\ [Next]_vars => IInv'
BY TypeStep, LockStep, HookStep DEF IInv

(* The invariant from which every theorem about several threads follows.     *)
THEOREM SpecIInv == Spec => []IInv
BY InitIInv, NextIInv, PTL DEF Spec

(* The state stays well typed; in particular no -1 is handed out as a       *)
(* handle and a lookup only answers handles of the table.                   *)
THEOREM TypeCorrect == Spec => []TypeOK
<1>1. IInv => TypeOK
  BY DEF IInv
<1>. QED
  BY <1>1, SpecIInv, PTL

(* However many threads install patches, and whatever fails on the way, at  *)
(* most one of them is between EnterSpinLock and LeaveSpinLock.             *)
THEOREM LockExcludes == Spec => []MutualExclusion
<1>1. IInv => MutualExclusion
  BY DEF IInv
<1>. QED
  BY <1>1, SpecIInv, PTL

(* Each hook that is created and not yet enabled is some one caller's, which *)
(* will enable or remove it.                                                 *)
THEOREM HalfMadeHooksAreOwned == Spec => []HalfMadeHookHasOneOwner
<1>1. IInv => HalfMadeHookHasOneOwner
  BY DEF IInv
<1>. QED
  BY <1>1, SpecIInv, PTL

(* patching.c and hook.c: all three hold whatever the threads install.       *)
THEOREM HooksStayConsistent == Spec => []HooksConsistent
<1>1. TypeOK /\ MutualExclusion /\ HalfMadeHookHasOneOwner => HooksConsistent
  BY DEF HooksConsistent
<1>. QED
  BY <1>1, TypeCorrect, LockExcludes, HalfMadeHooksAreOwned, PTL

(* A redirect, once live, is never changed, taken over or removed.           *)
THEOREM RedirectsAreFinal == Spec => RedirectIsFinal
<1>1. IInv /\ [Next]_vars => [\A a \in Addrs : Redirected(a) => hooks'[a] = hooks[a]]_vars
  BY HookStep DEF IInv
<1>. QED
  BY <1>1, SpecIInv, PTL DEF Spec, RedirectIsFinal
-----------------------------------------------------------------------------
(* One thread, and so one install at a time. *)
OneCaller == \A c, d \in Callers : c = d

CountFits ==
  /\ patchCount \in 0 .. MaxPatches
  /\ \A c \in Callers :
       /\ pc[c] \notin {"idle", "lookup", "fill"} => patchCount < MaxPatches
       /\ pc[c] = "bump" => index[c] = patchCount
       /\ pc[c] = "fill" => index[c] + 1 = patchCount

(* An install that is recording its patch has just made it live. *)
RecordingIsLive ==
  \A c \in Callers : pc[c] \in Recording =>
    hooks[arg[c].realAddress] = [detour |-> arg[c].receiverCode, isEnabled |-> TRUE]

(* An install past the lookup is for an address without an entry. *)
AddressIsNew ==
  \A c \in Callers : pc[c] \notin {"idle", "lookup"} =>
    \A i \in Recorded : patches[i].realAddress # arg[c].realAddress

(* Every handle handed out is that of an entry for what was asked. *)
AnswersAreEntries ==
  \A x \in answers :
    x.handle \in Recorded
      /\ patches[x.handle] = [realAddress |-> x.addr, receiverCode |-> x.code]

TableInv == CountFits /\ RecordingIsLive /\ AddressIsNew /\ AnswersAreEntries
              /\ HandleServesItsHook /\ NoOrphanRedirect

(* With one caller, the only entry that is not yet one is its own.          *)
LEMMA RecordedByOne ==
  ASSUME OneCaller, NEW c \in Callers
  PROVE  /\ Recorded = IF pc[c] = "fill" THEN Handles \ {index[c]} ELSE Handles
         /\ Recorded' = IF pc'[c] = "fill" THEN Handles' \ {index'[c]} ELSE Handles'
BY DEF OneCaller, Recorded

(* A step that stays clear of the table and of live hooks.                  *)
LEMMA QuietStep ==
  ASSUME OneCaller, TypeOK, TableInv, NEW c \in Callers,
         UNCHANGED <<hooks, patches, patchCount>>, AnswersAreEntries',
         pc[c] \notin Recording, pc'[c] \notin Recording,
         pc'[c] \notin {"idle", "lookup"} =>
           /\ patchCount < MaxPatches
           /\ \A i \in Recorded : patches[i].realAddress # arg'[c].realAddress
  PROVE  TableInv'
<1>1. \A d \in Callers : d = c
  BY DEF OneCaller
<1>2. Recorded' = Recorded
  BY RecordedByOne DEF Recording, Handles
<1>3. CountFits'
  BY <1>1 DEF TableInv, CountFits, Recording
<1>4. RecordingIsLive' /\ AddressIsNew'
  BY <1>1, <1>2 DEF RecordingIsLive, AddressIsNew
<1>5. HandleServesItsHook'
  BY <1>2 DEF TableInv, HandleServesItsHook
<1>6. NoOrphanRedirect'
  BY <1>1, <1>2 DEF TableInv, NoOrphanRedirect, Redirected
<1>. QED
  BY <1>3, <1>4, <1>5, <1>6 DEF TableInv

(* A change of the hook of an address without an entry.                     *)
LEMMA OtherHookStep ==
  ASSUME OneCaller, TypeOK, TableInv, NEW c \in Callers, NEW b \in Addrs, NEW h,
         hooks' = [hooks EXCEPT ![b] = h],
         UNCHANGED <<patches, patchCount, answers>>,
         \A i \in Recorded : patches[i].realAddress # b,
         pc[c] \notin Recording, pc'[c] # "fill", pc'[c] # "bump",
         pc'[c] \notin {"idle", "lookup"} => patchCount < MaxPatches /\ arg'[c].realAddress = b,
         h.isEnabled => pc'[c] \in Recording,
         pc'[c] \in Recording =>
           h = [detour |-> arg'[c].receiverCode, isEnabled |-> TRUE]
  PROVE  TableInv'
<1>1. \A d \in Callers : d = c
  BY DEF OneCaller
<1>2. Recorded' = Recorded
  BY RecordedByOne DEF Recording, Handles
<1>3. hooks'[b] = h /\ \A a \in Addrs \ {b} : hooks'[a] = hooks[a]
  BY DEF TypeOK
<1>4. CountFits'
  BY <1>1 DEF TableInv, CountFits, Recording
<1>5. RecordingIsLive'
  BY <1>1, <1>3 DEF RecordingIsLive, Recording
<1>6. AddressIsNew' /\ AnswersAreEntries'
  BY <1>1, <1>2 DEF TableInv, AddressIsNew, AnswersAreEntries
<1>7. HandleServesItsHook'
  BY <1>2, <1>3 DEF TableInv, HandleServesItsHook
<1>8. NoOrphanRedirect'
  <2>. SUFFICES ASSUME NEW a \in Addrs, hooks'[a].isEnabled
                PROVE  \/ \E i \in Recorded' : patches'[i].realAddress = a
                       \/ \E d \in Callers : pc'[d] \in Recording /\ arg'[d].realAddress = a
    BY DEF NoOrphanRedirect, Redirected
  <2>1. CASE a = b
    BY <1>3, <2>1 DEF Recording
  <2>2. CASE a # b
    <3>1. \E i \in Recorded : patches[i].realAddress = a
      BY <1>1, <1>3, <2>2 DEF TableInv, NoOrphanRedirect, Redirected
    <3>. QED
      BY <1>2, <3>1
  <2>. QED
    BY <2>1, <2>2
<1>. QED
  BY <1>4, <1>5, <1>6, <1>7, <1>8 DEF TableInv

-----------------------------------------------------------------------------
(* The scan answers an entry's handle, or refuses, or goes on with an        *)
(* address that is not in the table.                                         *)
LEMMA LookupTable ==
  ASSUME OneCaller, TypeOK, TableInv, NEW c \in Callers, LookupPatch(c)
  PROVE  TableInv'
<1>. DEFINE a == arg[c].realAddress
            code == arg[c].receiverCode
<1>0. /\ pc[c] = "lookup" /\ pc[c] \notin Recording
      /\ UNCHANGED <<hooks, patches, patchCount>>
      /\ Recorded = Handles
      /\ Recorded' = IF pc'[c] = "fill" THEN Handles \ {index'[c]} ELSE Handles
  BY RecordedByOne DEF LookupPatch, minHookVars, tableVars, Recording, Handles
<1>1. CASE Refuse(c)
  <2>1. pc'[c] = "idle" /\ UNCHANGED answers
    BY <1>1 DEF Refuse, TypeOK
  <2>2. AnswersAreEntries'
    BY <1>0, <2>1 DEF TableInv, AnswersAreEntries
  <2>. QED
    BY <1>0, <2>1, <2>2, QuietStep DEF Recording
<1>2. CASE /\ SameAddress(a) # {} /\ SameReceiver(FirstPatchOf(a), code)
           /\ Answer(c, FirstPatchOf(a))
  <2>. DEFINE h == FirstPatchOf(a)
  <2>1. pc'[c] = "idle"
    BY <1>2 DEF Answer, TypeOK
  <2>2. h \in Handles /\ patches[h].realAddress = a /\ patches[h].receiverCode = code
    BY <1>2, FirstPatchOfMatches DEF SameReceiver, TypeOK
  <2>3. patches[h] = [realAddress |-> a, receiverCode |-> code]
    <3>1. h \in 0 .. MaxPatches - 1
      BY <2>2, PatchingAssumption DEF TableInv, CountFits, Handles
    <3>. HIDE DEF h, a, code
    <3>. QED
      BY <2>2, <3>1 DEF TypeOK, Entries
  <2>4. answers' = answers \cup {[addr |-> a, code |-> code, handle |-> h]}
    BY <1>2 DEF Answer
  <2>5. AnswersAreEntries'
    <3>. SUFFICES ASSUME NEW x \in answers'
                  PROVE  /\ x.handle \in Recorded'
                         /\ patches'[x.handle] = [realAddress |-> x.addr, receiverCode |-> x.code]
      BY DEF AnswersAreEntries
    <3>1. CASE x \in answers
      BY <1>0, <2>1, <3>1 DEF TableInv, AnswersAreEntries
    <3>2. CASE x = [addr |-> a, code |-> code, handle |-> h]
      BY <1>0, <2>1, <2>2, <2>3, <3>2
    <3>. QED
      BY <2>4, <3>1, <3>2
  <2>. QED
    BY <1>0, <2>1, <2>5, QuietStep DEF Recording
<1>3. CASE SameAddress(a) = {} /\ ~TableFull /\ Goto(c, "boundary")
  <2>1. pc'[c] = "boundary" /\ UNCHANGED <<arg, answers>>
    BY <1>3 DEF Goto, TypeOK
  <2>2. AnswersAreEntries'
    BY <1>0, <2>1 DEF TableInv, AnswersAreEntries
  <2>3. patchCount < MaxPatches
    BY <1>3, PatchingAssumption DEF TableFull, TypeOK
  <2>4. \A i \in Recorded : patches[i].realAddress # arg'[c].realAddress
    BY <1>0, <1>3, <2>1 DEF SameAddress
  <2>. QED
    BY <1>0, <2>1, <2>2, <2>3, <2>4, QuietStep DEF Recording
<1>. QED
  BY <1>1, <1>2, <1>3 DEF LookupPatch

(* The steps from the boundary check to MH_EnableHook.                      *)
LEMMA HookTable ==
  ASSUME OneCaller, IInv, TableInv, NEW c \in Callers,
         \/ CheckBoundary(c) \/ EnterSpinLock(c) \/ Initialize(c)
         \/ CreateHook(c) \/ EnableHook(c) \/ RemoveHook(c)
  PROVE  TableInv'
<1>. DEFINE b == arg[c].realAddress
<1>. USE DEF IInv
<1>0. /\ pc[c] \in {"boundary"} \cup Waiting \cup Inside
      /\ pc[c] \notin Recording /\ pc[c] \notin {"idle", "lookup", "fill"}
      /\ UNCHANGED <<patches, patchCount, answers>>
  BY DEF CheckBoundary, EnterSpinLock, Initialize, CreateHook, EnableHook, AfterFailedEnable,
         RemoveHook, Refuse, Goto, tableVars, Waiting, Inside, Recording
<1>1. /\ b \in Addrs /\ arg[c].receiverCode \in Codes /\ patchCount < MaxPatches
      /\ \A i \in Recorded : patches[i].realAddress # b
  BY <1>0 DEF ArgsChecked, TableInv, CountFits, AddressIsNew
<1>2. ASSUME Refuse(c) PROVE pc'[c] = "idle"
  BY <1>2 DEF Refuse, TypeOK
<1>3. ASSUME NEW p, Goto(c, p) PROVE pc'[c] = p /\ UNCHANGED arg
  BY <1>3 DEF Goto, TypeOK
<1>4. ASSUME UNCHANGED hooks,
             \/ Refuse(c)
             \/ \E p \in {"boundary"} \cup Waiting \cup Inside : Goto(c, p)
      PROVE  TableInv'
  <2>1. /\ pc'[c] \notin Recording
        /\ pc'[c] # "idle" => UNCHANGED arg
    BY <1>2, <1>3, <1>4 DEF Recording, Waiting, Inside
  <2>2. AnswersAreEntries'
    <3>1. pc'[c] # "fill"
      BY <2>1 DEF Recording
    <3>2. Recorded' = Recorded
      BY <1>0, <3>1, RecordedByOne DEF Handles
    <3>. QED
      BY <1>0, <3>2 DEF TableInv, AnswersAreEntries
  <2>. QED
    BY <1>0, <1>1, <1>4, <2>1, <2>2, QuietStep
<1>5. CASE CheckBoundary(c) \/ EnterSpinLock(c) \/ Initialize(c)
  <2>1. UNCHANGED hooks
    BY <1>5 DEF CheckBoundary, EnterSpinLock, Initialize, minHookVars
  <2>2. CASE CheckBoundary(c) \/ Initialize(c)
    BY <1>4, <2>1, <2>2 DEF CheckBoundary, Initialize, Waiting
  <2>3. CASE EnterSpinLock(c)
    <3>1. Locked[pc[c]] \in Inside
      BY <2>3 DEF EnterSpinLock, Locked, Waiting, Inside
    <3>. QED
      BY <1>4, <2>1, <2>3, <3>1 DEF EnterSpinLock
  <2>. QED
    BY <1>5, <2>2, <2>3
<1>6. CASE CreateHook(c)
  <2>1. CASE Refuse(c) /\ UNCHANGED hooks
    BY <1>4, <2>1
  <2>2. CASE /\ hooks' = [hooks EXCEPT ![b] = [detour |-> arg[c].receiverCode,
                                               isEnabled |-> FALSE]]
             /\ Goto(c, "enable")
    <3>. DEFINE h == [detour |-> arg[c].receiverCode, isEnabled |-> FALSE]
    <3>1. ~h.isEnabled
      OBVIOUS
    <3>2. pc'[c] = "enable" /\ pc'[c] \notin Recording /\ UNCHANGED arg
      BY <1>3, <2>2 DEF Recording
    <3>3. hooks' = [hooks EXCEPT ![b] = h]
      BY <2>2
    <3>. HIDE DEF h
    <3>. QED
      BY <1>0, <1>1, <3>1, <3>2, <3>3, OtherHookStep
  <2>. QED
    BY <1>6, <2>1, <2>2 DEF CreateHook
<1>7. CASE EnableHook(c)
  <2>1. CASE UNCHANGED hooks /\ Goto(c, "remove")
    BY <1>4, <2>1 DEF Waiting
  <2>2. CASE /\ Hooked(b) /\ ~Redirected(b) /\ Goto(c, "record")
             /\ hooks' = [hooks EXCEPT ![b] = [detour |-> hooks[b].detour,
                                               isEnabled |-> TRUE]]
    <3>1. hooks[b].detour = arg[c].receiverCode
      BY <1>1, <2>2 DEF HalfMadeHookHasOneOwner, OneCaller
    <3>. DEFINE h == [detour |-> arg[c].receiverCode, isEnabled |-> TRUE]
    <3>2. pc'[c] = "record" /\ pc'[c] \in Recording /\ UNCHANGED arg
      BY <1>3, <2>2 DEF Recording
    <3>3. hooks' = [hooks EXCEPT ![b] = h]
      BY <2>2, <3>1
    <3>4. h = [detour |-> arg'[c].receiverCode, isEnabled |-> TRUE]
      BY <3>2
    <3>. HIDE DEF h
    <3>. QED
      BY <1>0, <1>1, <3>2, <3>3, <3>4, OtherHookStep
  <2>. QED
    BY <1>7, <2>1, <2>2 DEF EnableHook, AfterFailedEnable
<1>8. CASE RemoveHook(c)
  <2>1. Refuse(c) /\ (UNCHANGED hooks \/ hooks' = [hooks EXCEPT ![b] = NoHook])
    BY <1>8 DEF RemoveHook
  <2>2. CASE UNCHANGED hooks
    BY <1>4, <2>1, <2>2
  <2>3. CASE hooks' = [hooks EXCEPT ![b] = NoHook]
    <3>1. ~NoHook.isEnabled
      BY DEF NoHook
    <3>. QED
      BY <1>0, <1>1, <1>2, <2>1, <2>3, <3>1, OtherHookStep DEF Recording
  <2>. QED
    BY <2>1, <2>2, <2>3
<1>. QED
  BY <1>5, <1>6, <1>7, <1>8
(* handle = g_patchCount++ and the filling of the entry.                    *)
LEMMA RecordTable ==
  ASSUME OneCaller, IInv, TableInv, NEW c \in Callers,
         ReadCount(c) \/ WriteCount(c) \/ FillEntry(c)
  PROVE  TableInv'
<1>. DEFINE b == arg[c].realAddress
<1>0. \A d \in Callers : d = c
  BY DEF OneCaller
<1>1. /\ UNCHANGED hooks
      /\ pc[c] \in Recording /\ pc[c] \notin {"idle", "lookup"}
      /\ b \in Addrs /\ arg[c].receiverCode \in Codes
      /\ hooks[b] = [detour |-> arg[c].receiverCode, isEnabled |-> TRUE]
      /\ \A i \in Recorded : patches[i].realAddress # b
  BY DEF ReadCount, WriteCount, CountAfter, FillEntry, minHookVars, Recording, IInv, ArgsChecked,
         TableInv, RecordingIsLive, AddressIsNew
<1>. USE DEF IInv, TypeOK
<1>2. CASE ReadCount(c) \/ WriteCount(c)
  <2>1. /\ UNCHANGED <<arg, answers, patches>>
        /\ pc'[c] \in Recording
        /\ \E p : pc' = [pc EXCEPT ![c] = p]
    BY <1>2 DEF ReadCount, WriteCount, CountAfter, Goto, tableVars, Recording
  <2>2. Recorded' = Recorded
    <3>1. CASE ReadCount(c)
      BY <3>1, RecordedByOne DEF ReadCount, tableVars, Handles
    <3>2. CASE WriteCount(c)
      <4>1. pc[c] = "bump" /\ index[c] = patchCount /\ patchCount \in Nat
        BY <3>2 DEF WriteCount, CountAfter, TableInv, CountFits
      <4>2. pc'[c] = "fill" /\ index' = index /\ patchCount' = patchCount + 1
        BY <3>2, <4>1 DEF WriteCount, CountAfter, Goto
      <4>3. Handles' \ {index'[c]} = Handles
        BY <4>1, <4>2 DEF Handles
      <4>. QED
        BY <4>1, <4>2, <4>3, RecordedByOne
    <3>. QED
      BY <1>2, <3>1, <3>2
  <2>3. CountFits'
    <3>1. CASE ReadCount(c)
      BY <1>0, <3>1, PatchingAssumption
         DEF ReadCount, NextHandle, tableVars, TableInv, CountFits
    <3>2. CASE WriteCount(c)
      BY <1>0, <3>2, PatchingAssumption DEF WriteCount, CountAfter, Goto, TableInv, CountFits
    <3>. QED
      BY <1>2, <3>1, <3>2
  <2>4. RecordingIsLive' /\ AddressIsNew'
    BY <1>0, <1>1, <2>1, <2>2 DEF RecordingIsLive, AddressIsNew
  <2>5. AnswersAreEntries' /\ HandleServesItsHook'
    BY <1>1, <2>1, <2>2 DEF TableInv, AnswersAreEntries, HandleServesItsHook
  <2>6. NoOrphanRedirect'
    BY <1>0, <1>1, <2>1, <2>2 DEF TableInv, NoOrphanRedirect, Redirected
  <2>. QED
    BY <2>3, <2>4, <2>5, <2>6 DEF TableInv
<1>3. CASE FillEntry(c)
  <2>. DEFINE n == index[c]
  <2>1. /\ pc[c] = "fill" /\ n + 1 = patchCount /\ patchCount \in 0 .. MaxPatches
        /\ n \in 0 .. MaxPatches - 1 /\ n \in Handles
    BY <1>3, PatchingAssumption DEF FillEntry, TableInv, CountFits, Handles
  <2>2. /\ pc'[c] = "idle" /\ UNCHANGED <<patchCount, index>>
        /\ answers' = answers \cup {[addr |-> b, code |-> arg[c].receiverCode, handle |-> n]}
    BY <1>3 DEF FillEntry, Answer
  <2>3. /\ Recorded = Handles \ {n} /\ Recorded' = Handles
        /\ n \notin Recorded /\ Recorded' = Recorded \cup {n}
    BY <2>1, <2>2, RecordedByOne DEF Handles
  <2>4. /\ patches'[n] = arg[c]
        /\ \A i \in Recorded : patches'[i] = patches[i]
    <3>1. Recorded \subseteq 0 .. MaxPatches - 1
      BY <2>1, <2>3, PatchingAssumption DEF Handles
    <3>2. patches' = [patches EXCEPT ![n] = arg[c]]
      BY <1>3 DEF FillEntry
    <3>. QED
      BY <2>1, <2>3, <3>1, <3>2
  <2>5. arg[c] = [realAddress |-> b, receiverCode |-> arg[c].receiverCode]
    BY DEF Entries
  <2>. HIDE DEF n, b
  <2>6. CountFits' /\ RecordingIsLive' /\ AddressIsNew'
    BY <1>0, <2>1, <2>2 DEF CountFits, RecordingIsLive, AddressIsNew, Recording
  <2>7. AnswersAreEntries'
    <3>. SUFFICES ASSUME NEW x \in answers'
                  PROVE  /\ x.handle \in Recorded'
                         /\ patches'[x.handle] = [realAddress |-> x.addr, receiverCode |-> x.code]
      BY DEF AnswersAreEntries
    <3>1. CASE x \in answers
      BY <2>3, <2>4, <3>1 DEF TableInv, AnswersAreEntries
    <3>2. CASE x = [addr |-> b, code |-> arg[c].receiverCode, handle |-> n]
      BY <2>3, <2>4, <2>5, <3>2
    <3>. QED
      BY <2>2, <3>1, <3>2
  <2>8. HandleServesItsHook'
    <3>1. ASSUME NEW i \in Recorded'
          PROVE  /\ patches'[i].realAddress \in Addrs
                 /\ hooks'[patches'[i].realAddress] =
                      [detour |-> patches'[i].receiverCode, isEnabled |-> TRUE]
      <4>1. CASE i \in Recorded
        BY <1>1, <2>4, <4>1 DEF TableInv, HandleServesItsHook
      <4>2. CASE i = n
        BY <1>1, <2>4, <4>2 DEF b
      <4>. QED
        BY <2>3, <4>1, <4>2
    <3>2. ASSUME NEW i \in Recorded', NEW j \in Recorded',
                 patches'[j].realAddress = patches'[i].realAddress
          PROVE  i = j
      <4>1. CASE i \in Recorded /\ j \in Recorded
        BY <2>4, <3>2, <4>1 DEF TableInv, HandleServesItsHook
      <4>2. CASE i = n \/ j = n
        BY <1>1, <2>3, <2>4, <3>2, <4>2 DEF b
      <4>. QED
        BY <2>3, <4>1, <4>2
    <3>. QED
      BY <3>1, <3>2 DEF HandleServesItsHook
  <2>9. NoOrphanRedirect'
    BY <1>0, <1>1, <2>3, <2>4 DEF TableInv, NoOrphanRedirect, Redirected, b
  <2>. QED
    BY <2>6, <2>7, <2>8, <2>9 DEF TableInv
<1>. QED
  BY <1>2, <1>3

(* With one caller, every step keeps g_patches and MinHook's hooks in step.  *)
LEMMA TableStep ==
  ASSUME OneCaller, IInv, TableInv, [Next]_vars
  PROVE  TableInv'
<1>1. CASE UNCHANGED vars
  BY <1>1 DEF vars, callerVars, minHookVars, tableVars, TableInv, CountFits, RecordingIsLive,
              AddressIsNew, AnswersAreEntries, HandleServesItsHook, NoOrphanRedirect,
              Redirected, Recorded, Handles
<1>2. ASSUME NEW c \in Callers, NEW a \in Addrs \cup {NULL}, NEW code \in Codes \cup {NULL},
             InstallPatch(c, a, code)
      PROVE  TableInv'
  <2>1. /\ pc[c] = "idle" /\ pc'[c] = "lookup"
        /\ UNCHANGED <<hooks, patches, patchCount, answers>>
    BY <1>2 DEF InstallPatch, minHookVars, tableVars, IInv, TypeOK
  <2>2. Recorded' = Recorded
    BY <2>1, RecordedByOne DEF Handles
  <2>3. AnswersAreEntries'
    BY <2>1, <2>2 DEF TableInv, AnswersAreEntries
  <2>. QED
    BY <2>1, <2>3, QuietStep DEF Recording, IInv
<1>. QED
  BY <1>1, <1>2, LookupTable, HookTable, RecordTable DEF Next, Step, IInv

(* The empty table has an entry for each of the no redirects.                *)
LEMMA InitTable == Init => TableInv
BY PatchingAssumption
   DEF Init, TableInv, CountFits, RecordingIsLive, AddressIsNew, AnswersAreEntries,
       HandleServesItsHook, NoOrphanRedirect, Redirected, Recorded, Handles, Recording, NoHook

(* With one caller, g_patches and MinHook's hooks agree in every state.      *)
THEOREM SpecTableInv ==
  ASSUME OneCaller
  PROVE  Spec => []TableInv
<1>1. IInv /\ TableInv /\ [Next]_vars => TableInv'
  BY TableStep
<1>. QED
  BY <1>1, InitTable, SpecIInv, PTL DEF Spec

(* As long as one thread installs patches, whoever holds a handle reaches    *)
(* the function it was given for, and no function has two handles.           *)
THEOREM HandlesServe ==
  ASSUME OneCaller
  PROVE  Spec => []HandleServesItsHook
<1>1. TableInv => HandleServesItsHook
  BY DEF TableInv
<1>. QED
  BY <1>1, SpecTableInv, PTL

(* ... every live redirect has its handle or is about to get it, whichever   *)
(* step of whichever install failed.                                         *)
THEOREM NoOrphans ==
  ASSUME OneCaller
  PROVE  Spec => []NoOrphanRedirect
<1>1. TableInv => NoOrphanRedirect
  BY DEF TableInv
<1>. QED
  BY <1>1, SpecTableInv, PTL

(* ... installs that answered the same handle, or were for the same address, *)
(* asked for the same hook.                                                  *)
THEOREM AnswersDoAgree ==
  ASSUME OneCaller
  PROVE  Spec => []AnswersAgree
<1>1. TableInv /\ TypeOK => AnswersAgree
  <2>. SUFFICES ASSUME TableInv, TypeOK, NEW x \in answers, NEW y \in answers,
                       x.addr = y.addr \/ x.handle = y.handle
                PROVE  x = y
    BY DEF AnswersAgree
  <2>1. /\ x.handle \in Recorded /\ y.handle \in Recorded
        /\ patches[x.handle] = [realAddress |-> x.addr, receiverCode |-> x.code]
        /\ patches[y.handle] = [realAddress |-> y.addr, receiverCode |-> y.code]
    BY DEF TableInv, AnswersAreEntries
  <2>2. x.handle = y.handle
    <3>1. CASE x.addr = y.addr
      <4>1. patches[y.handle].realAddress = patches[x.handle].realAddress
        BY <2>1, <3>1
      <4>. QED
        BY <2>1, <4>1 DEF TableInv, HandleServesItsHook
    <3>. QED
      BY <3>1
  <2>3. x.addr = y.addr /\ x.code = y.code
    <3>1. patches[x.handle].realAddress = x.addr /\ patches[x.handle].receiverCode = x.code
      BY <2>1
    <3>2. patches[y.handle].realAddress = y.addr /\ patches[y.handle].receiverCode = y.code
      BY <2>1
    <3>. QED
      BY <2>2, <3>1, <3>2
  <2>. QED
    BY <2>2, <2>3 DEF TypeOK
<1>. QED
  BY <1>1, SpecTableInv, TypeCorrect, PTL

(* ... and the table never runs over its end.                                *)
THEOREM TableStaysInBounds ==
  ASSUME OneCaller
  PROVE  Spec => []TableInBounds
<1>1. TableInv /\ TypeOK => TableInBounds
  BY PatchingAssumption DEF TableInv, CountFits, TableInBounds, TypeOK
<1>. QED
  BY <1>1, SpecTableInv, TypeCorrect, PTL

(* ... so that table, hooks and answers agree in every state.                *)
THEOREM TableStaysConsistent ==
  ASSUME OneCaller
  PROVE  Spec => []TableConsistent
<1>1. HandleServesItsHook /\ NoOrphanRedirect /\ AnswersAgree /\ TableInBounds => TableConsistent
  BY DEF TableConsistent
<1>. QED
  BY <1>1, HandlesServe, NoOrphans, AnswersDoAgree, TableStaysInBounds, PTL

-----------------------------------------------------------------------------
(* What an install that ends leaves behind, for any number of threads, as    *)
(* long as no target's bytes fault while they are decoded.                   *)
HookedAddrs == {a \in Addrs : Hooked(a)}

LockHasUser == isLocked => \E c \in Callers : pc[c] \in Inside

SlotsMatch == IsFiniteSet(HookedAddrs) /\ slots = Cardinality(HookedAddrs)

LEMMA LockUserStep ==
  ASSUME TypeOK, LockHasUser, Faulting = {}, [Next]_vars
  PROVE  LockHasUser'
<1>. USE DEF TypeOK
<1>1. CASE UNCHANGED vars
  BY <1>1 DEF vars, callerVars, minHookVars, LockHasUser
<1>2. ASSUME NEW c \in Callers, UNCHANGED isLocked, pc[c] \notin Inside,
             \E p : pc' = [pc EXCEPT ![c] = p]
      PROVE  LockHasUser'
  <2>1. \A d \in Callers : pc[d] \in Inside => pc'[d] = pc[d]
    BY <1>2
  <2>. QED
    BY <1>2, <2>1 DEF LockHasUser
<1>3. ASSUME NEW c \in Callers, NEW a \in Addrs \cup {NULL}, NEW code \in Codes \cup {NULL},
             InstallPatch(c, a, code)
      PROVE  LockHasUser'
  BY <1>2, <1>3 DEF InstallPatch, minHookVars, Inside
<1>4. ASSUME NEW c \in Callers,
             LookupPatch(c) \/ CheckBoundary(c) \/ ReadCount(c) \/ WriteCount(c) \/ FillEntry(c)
      PROVE  LockHasUser'
  <2>1. UNCHANGED isLocked /\ pc[c] \notin Inside
    BY <1>4 DEF LookupPatch, CheckBoundary, ReadCount, WriteCount, FillEntry, minHookVars, Inside
  <2>2. \E p : pc' = [pc EXCEPT ![c] = p]
    BY <1>4 DEF LookupPatch, CheckBoundary, ReadCount, WriteCount, FillEntry, Refuse, Answer, Goto
  <2>. QED
    BY <1>2, <2>1, <2>2
<1>5. ASSUME NEW c \in Callers, EnterSpinLock(c)
      PROVE  LockHasUser'
  <2>1. pc'[c] = Locked[pc[c]] /\ pc[c] \in Waiting
    BY <1>5 DEF EnterSpinLock, Goto
  <2>2. pc'[c] \in Inside
    BY <2>1 DEF Locked, Waiting, Inside
  <2>. QED
    BY <2>2 DEF LockHasUser
<1>6. ASSUME NEW c \in Callers,
             Initialize(c) \/ CreateHook(c) \/ EnableHook(c) \/ RemoveHook(c)
      PROVE  LockHasUser'
  BY <1>6 DEF Initialize, CreateHook, EnableHook, RemoveHook, LeaveSpinLock, LockHasUser
<1>. QED
  BY <1>1, <1>3, <1>4, <1>5, <1>6 DEF Next, Step

(* MinHook's slots are counted up and down with its hooks.                   *)
LEMMA SlotsStep ==
  ASSUME TypeOK, ArgsChecked, SlotsMatch, Faulting = {}, [Next]_vars
  PROVE  SlotsMatch'
<1>. USE PatchingAssumption DEF TypeOK
<1>1. ASSUME UNCHANGED <<hooks, slots>> PROVE SlotsMatch'
  BY <1>1 DEF SlotsMatch, HookedAddrs, Hooked
<1>2. CASE UNCHANGED vars
  BY <1>1, <1>2 DEF vars, minHookVars
<1>3. ASSUME NEW c \in Callers, NEW a \in Addrs \cup {NULL}, NEW code \in Codes \cup {NULL},
             InstallPatch(c, a, code)
      PROVE  SlotsMatch'
  BY <1>1, <1>3 DEF InstallPatch, minHookVars
<1>4. ASSUME NEW c \in Callers,
             LookupPatch(c) \/ CheckBoundary(c) \/ EnterSpinLock(c) \/ Initialize(c)
               \/ ReadCount(c) \/ WriteCount(c) \/ FillEntry(c)
      PROVE  SlotsMatch'
  <2>1. UNCHANGED <<hooks, slots>>
    BY <1>4 DEF LookupPatch, CheckBoundary, EnterSpinLock, Initialize, ReadCount, WriteCount,
                FillEntry, minHookVars
  <2>. QED
    BY <1>1, <2>1
<1>5. ASSUME NEW c \in Callers, CreateHook(c)
      PROVE  SlotsMatch'
  <2>. DEFINE a == arg[c].realAddress
              h == [detour |-> arg[c].receiverCode, isEnabled |-> FALSE]
  <2>1. a \in Addrs /\ arg[c].receiverCode \in Codes
    BY <1>5 DEF CreateHook, ArgsChecked
  <2>2. CASE ~Hooked(a) /\ hooks' = [hooks EXCEPT ![a] = h] /\ slots' = slots + 1
    <3>1. h # NoHook
      BY <2>1 DEF NoHook
    <3>2. HookedAddrs' = HookedAddrs \cup {a} /\ a \notin HookedAddrs
      BY <2>1, <2>2, <3>1 DEF HookedAddrs, Hooked
    <3>3. IsFiniteSet(HookedAddrs') /\ Cardinality(HookedAddrs') = Cardinality(HookedAddrs) + 1
      BY <3>2, FS_AddElement DEF SlotsMatch
    <3>. QED
      BY <2>2, <3>3 DEF SlotsMatch
  <2>3. UNCHANGED <<hooks, slots>>
          \/ (~Hooked(a) /\ hooks' = [hooks EXCEPT ![a] = h] /\ slots' = slots + 1)
    BY <1>5 DEF CreateHook, HookEntryFree
  <2>. QED
    BY <1>1, <2>2, <2>3
<1>6. ASSUME NEW c \in Callers, EnableHook(c)
      PROVE  SlotsMatch'
  <2>. DEFINE a == arg[c].realAddress
              h == [detour |-> hooks[a].detour, isEnabled |-> TRUE]
  <2>1. a \in Addrs /\ slots' = slots
    BY <1>6 DEF EnableHook, ArgsChecked
  <2>2. CASE Hooked(a) /\ hooks' = [hooks EXCEPT ![a] = h]
    <3>1. h # NoHook
      BY DEF NoHook
    <3>2. HookedAddrs' = HookedAddrs
      BY <2>1, <2>2, <3>1 DEF HookedAddrs, Hooked
    <3>. QED
      BY <2>1, <3>2 DEF SlotsMatch
  <2>3. UNCHANGED hooks \/ (Hooked(a) /\ hooks' = [hooks EXCEPT ![a] = h])
    BY <1>6 DEF EnableHook
  <2>. QED
    BY <1>1, <2>1, <2>2, <2>3
<1>7. ASSUME NEW c \in Callers, RemoveHook(c)
      PROVE  SlotsMatch'
  <2>. DEFINE a == arg[c].realAddress
  <2>1. a \in Addrs
    BY <1>7 DEF RemoveHook, ArgsChecked
  <2>2. CASE Hooked(a) /\ hooks' = [hooks EXCEPT ![a] = NoHook] /\ slots' = slots - 1
    <3>1. HookedAddrs' = HookedAddrs \ {a} /\ a \in HookedAddrs
      BY <2>1, <2>2 DEF HookedAddrs, Hooked
    <3>2. IsFiniteSet(HookedAddrs') /\ Cardinality(HookedAddrs') = Cardinality(HookedAddrs) - 1
      <4>. DEFINE S == HookedAddrs
      <4>1. IsFiniteSet(S) /\ a \in S /\ HookedAddrs' = S \ {a}
        BY <3>1 DEF SlotsMatch
      <4>. HIDE DEF S, a
      <4>2. IsFiniteSet(S \ {a}) /\ Cardinality(S \ {a}) = Cardinality(S) - 1
        BY <4>1, FS_RemoveElement
      <4>. QED
        BY <4>1, <4>2 DEF S
    <3>. QED
      BY <2>2, <3>2 DEF SlotsMatch
  <2>3. UNCHANGED <<hooks, slots>>
          \/ (Hooked(a) /\ hooks' = [hooks EXCEPT ![a] = NoHook] /\ slots' = slots - 1)
    BY <1>7 DEF RemoveHook, FreeBuffer
  <2>. QED
    BY <1>1, <2>2, <2>3
<1>. QED
  BY <1>2, <1>3, <1>4, <1>5, <1>6, <1>7 DEF Next, Step

(* Whenever no install is in progress MinHook's lock is free and its slots   *)
(* are those of the live redirects, however many threads installed and       *)
(* whichever of their steps failed (patching.c, install_patch; hook.c).      *)
THEOREM QuietStaysClean ==
  ASSUME Faulting = {}
  PROVE  Spec => []QuietMeansClean
<1>1. Init => LockHasUser /\ SlotsMatch
  <2>1. Init => HookedAddrs = {}
    BY DEF Init, HookedAddrs, Hooked
  <2>. QED
    BY <2>1, FS_EmptySet DEF Init, LockHasUser, SlotsMatch
<1>2. IInv /\ LockHasUser /\ SlotsMatch /\ [Next]_vars => LockHasUser' /\ SlotsMatch'
  BY LockUserStep, SlotsStep DEF IInv
<1>3. IInv /\ LockHasUser /\ SlotsMatch => QuietMeansClean
  <2>. SUFFICES ASSUME IInv, LockHasUser, SlotsMatch, \A c \in Callers : pc[c] = "idle"
                PROVE  /\ ~isLocked
                       /\ \A a \in Addrs : Hooked(a) => Redirected(a)
                       /\ slots = Cardinality({a \in Addrs : Redirected(a)})
    BY DEF QuietMeansClean
  <2>1. ~isLocked
    BY DEF LockHasUser, Inside
  <2>2. \A a \in Addrs : Hooked(a) => Redirected(a)
    BY DEF IInv, HalfMadeHookHasOneOwner, Owns
  <2>3. \A a \in Addrs : Redirected(a) => Hooked(a)
    BY DEF Redirected, Hooked, NoHook
  <2>4. HookedAddrs = {a \in Addrs : Redirected(a)}
    BY <2>2, <2>3 DEF HookedAddrs
  <2>. QED
    BY <2>1, <2>2, <2>4 DEF SlotsMatch
<1>. QED
  BY <1>1, <1>2, <1>3, SpecIInv, PTL DEF Spec

-----------------------------------------------------------------------------
(* With one caller, an install past its boundary check is for a function     *)
(* that is long enough for all the boundaries gathered, once they are.        *)
PastCheckIsLong ==
  \A c \in Callers : boundaries /\ pc[c] \notin {"idle", "lookup", "boundary"} =>
    HasRoom(Listed, arg[c].realAddress)

LEMMA LongStep ==
  ASSUME OneCaller, TypeOK, PastCheckIsLong, [Next]_vars
  PROVE  PastCheckIsLong'
<1>. USE DEF TypeOK
<1>1. CASE UNCHANGED vars
  BY <1>1 DEF vars, callerVars, PastCheckIsLong
<1>2. ASSUME NEW c \in Callers, pc'[c] \in {"idle", "lookup", "boundary"}
      PROVE  PastCheckIsLong'
  BY <1>2 DEF OneCaller, PastCheckIsLong
<1>3. ASSUME NEW c \in Callers, UNCHANGED <<arg, boundaries>>,
             pc[c] \notin {"idle", "lookup", "boundary"}
      PROVE  PastCheckIsLong'
  BY <1>3 DEF OneCaller, PastCheckIsLong
<1>4. ASSUME NEW c \in Callers, NEW a \in Addrs \cup {NULL}, NEW code \in Codes \cup {NULL},
             InstallPatch(c, a, code)
      PROVE  PastCheckIsLong'
  BY <1>2, <1>4 DEF InstallPatch
<1>5. ASSUME NEW c \in Callers, LookupPatch(c)
      PROVE  PastCheckIsLong'
  BY <1>2, <1>5 DEF LookupPatch, Refuse, Answer, Goto
<1>6. ASSUME NEW c \in Callers, CheckBoundary(c)
      PROVE  PastCheckIsLong'
  <2>1. CASE SparesNeighbour(arg[c].realAddress)
    <3>1. UNCHANGED arg
      BY <1>6, <2>1 DEF CheckBoundary, Goto
    <3>. QED
      BY <2>1, <3>1 DEF OneCaller, PastCheckIsLong, SparesNeighbour
  <2>2. CASE ~SparesNeighbour(arg[c].realAddress)
    BY <1>2, <1>6, <2>2 DEF CheckBoundary, Refuse
  <2>. QED
    BY <2>1, <2>2
<1>7. ASSUME NEW c \in Callers,
             EnterSpinLock(c) \/ Initialize(c) \/ CreateHook(c) \/ EnableHook(c)
               \/ RemoveHook(c) \/ ReadCount(c) \/ WriteCount(c) \/ FillEntry(c)
      PROVE  PastCheckIsLong'
  <2>1. pc[c] \notin {"idle", "lookup", "boundary"}
    BY <1>7 DEF EnterSpinLock, Waiting, Initialize, CreateHook, EnableHook, RemoveHook,
                ReadCount, WriteCount, FillEntry
  <2>2. pc'[c] = "idle" \/ UNCHANGED <<arg, boundaries>>
    BY <1>7 DEF EnterSpinLock, Initialize, CreateHook, EnableHook, RemoveHook, ReadCount,
                WriteCount, FillEntry, Refuse, Answer, Goto
  <2>. QED
    BY <1>2, <1>3, <2>1, <2>2
<1>. QED
  BY <1>4, <1>5, <1>6, <1>7, <1>1 DEF Next, Step

(* Only the install's own MH_EnableHook makes a redirect live.               *)
LEMMA RedirectedByOwner ==
  ASSUME TypeOK, ArgsChecked, [Next]_vars, NEW a \in Addrs, Redirected(a)', ~Redirected(a)
  PROVE  \E c \in Callers : pc[c] = "enabling" /\ arg[c].realAddress = a
<1>. USE DEF TypeOK
<1>1. CASE UNCHANGED hooks
  BY <1>1 DEF Redirected
<1>2. CASE UNCHANGED vars
  BY <1>1, <1>2 DEF vars, minHookVars
<1>3. ASSUME NEW c \in Callers, NEW b \in Addrs \cup {NULL}, NEW code \in Codes \cup {NULL},
             InstallPatch(c, b, code)
      PROVE  UNCHANGED hooks
  BY <1>3 DEF InstallPatch, minHookVars
<1>4. ASSUME NEW c \in Callers,
             LookupPatch(c) \/ CheckBoundary(c) \/ EnterSpinLock(c) \/ Initialize(c)
               \/ ReadCount(c) \/ WriteCount(c) \/ FillEntry(c)
      PROVE  UNCHANGED hooks
  BY <1>4 DEF LookupPatch, CheckBoundary, EnterSpinLock, Initialize, ReadCount, WriteCount,
              FillEntry, minHookVars
<1>5. ASSUME NEW c \in Callers, CreateHook(c) \/ RemoveHook(c)
      PROVE  FALSE
  <2>1. \/ UNCHANGED hooks
        \/ \E h : h.isEnabled = FALSE /\ hooks' = [hooks EXCEPT ![arg[c].realAddress] = h]
    <3>1. NoHook.isEnabled = FALSE
      BY DEF NoHook
    <3>. QED
      BY <1>5, <3>1 DEF CreateHook, RemoveHook
  <2>. QED
    BY <2>1, <1>1 DEF Redirected
<1>6. ASSUME NEW c \in Callers, EnableHook(c)
      PROVE  pc[c] = "enabling" /\ arg[c].realAddress = a
  BY <1>1, <1>6 DEF EnableHook, Redirected
<1>. QED
  BY <1>1, <1>2, <1>3, <1>4, <1>5, <1>6 DEF Next, Step

(* As long as one thread installs patches, no function too short for the     *)
(* jump is redirected once the boundaries are known, if the function behind  *)
(* it is among them (patching.c, FindNextFunctionBoundary).                  *)
THEOREM ListedNeighboursAreSpared ==
  ASSUME OneCaller
  PROVE  Spec => ListedNeighboursSpared
<1>1. Init => PastCheckIsLong
  BY DEF Init, PastCheckIsLong
<1>2. IInv /\ PastCheckIsLong /\ [Next]_vars => PastCheckIsLong'
  BY LongStep DEF IInv
<1>3. IInv /\ PastCheckIsLong /\ [Next]_vars =>
        [boundaries => \A a \in Addrs : ~HasRoom(Listed, a) /\ Redirected(a)' => Redirected(a)]_vars
  <2>. SUFFICES ASSUME IInv, PastCheckIsLong, [Next]_vars, boundaries,
                       NEW a \in Addrs, ~HasRoom(Listed, a), Redirected(a)', ~Redirected(a)
                PROVE  FALSE
    OBVIOUS
  <2>1. PICK c \in Callers : pc[c] = "enabling" /\ arg[c].realAddress = a
    BY RedirectedByOwner, PatchingAssumption DEF IInv
  <2>. QED
    BY <2>1 DEF PastCheckIsLong
<1>. QED
  BY <1>1, <1>2, <1>3, SpecIInv, PTL DEF Spec, ListedNeighboursSpared
=============================================================================
