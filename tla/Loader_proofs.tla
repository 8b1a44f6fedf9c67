----------------------------- MODULE Loader_proofs -----------------------------
(***************************************************************************)
(* Proofs about Loader: the registry of targets and the patch table agree, *)
(* no target's failure costs another its patch, and a dispatch runs the    *)
(* function the game called exactly once unless a prefix skips it, and     *)
(* every handler once, in the order of loading.                            *)
(***************************************************************************)
EXTENDS Loader, ListLemmas

Patch == [addr : Addrs, receiver : Receivers]
Results == {NULL, "skipper", "original"} \cup {h.fn : h \in AllHandlers}
Frame == [addr : Addrs, key : Keys, stage : {"prefix", "original", "postfix"},
          i : Nat \ {0}, calling : BOOLEAN, skip : BOOLEAN, result : Results,
          called : Seq(AllHandlers), ran : Seq(Addrs), present : Targets]

(* The loader's own state. *)
BootOK ==
  /\ ready \in BOOLEAN /\ recovered \in BOOLEAN
  /\ isLocked \in BOOLEAN
  /\ phase \in {"attach", "loading", "installing", "spinning", "game"}
  /\ mods \in Seq(DOMAIN Hooks)
  /\ init # NULL => phase = "loading" /\ init \in Seq(HookHandlers) /\ mods # <<>>
  /\ todo \subseteq Keys
  /\ phase = "attach" => \A k \in Keys : registry[k] = NULL

(* Registry r and patch table p agree: a target's handle is that of a patch  *)
(* of its own, and every patch is the patch of the target whose receiver it  *)
(* has.                                                                      *)
TableOK(r, p) ==
  /\ r \in [Keys -> Targets \cup {NULL}]
  /\ p \in Seq(Patch) /\ Len(p) <= MaxPatches
  /\ \A i, j \in 1 .. Len(p) : p[i].addr = p[j].addr => i = j
  /\ \A k \in Keys : r[k] # NULL =>
       /\ r[k].receiver.key = k /\ r[k].handle \in -1 .. Len(p) - 1
       /\ r[k].handle >= 0 => p[r[k].handle + 1] = [addr |-> AddrOf[k], receiver |-> r[k].receiver]
  /\ \A i \in 1 .. Len(p) :
       LET k == p[i].receiver.key
       IN  r[k] # NULL /\ r[k].handle = i - 1 /\ r[k].receiver = p[i].receiver

(* A target with handlers from the mods' loading is live or itself to blame. *)
Served(k, r, p) ==
  r[k] # NULL /\ FromLoading(r[k]) =>
    \/ r[k].handle >= 0
    \/ AddrOf[k] \in Unpatchable \cup {NULL}
    \/ Len(p) = MaxPatches
    \/ \E j \in Keys \ {k} : AddrOf[j] = AddrOf[k] /\ r[j] # NULL /\ r[j].handle >= 0

InstalledOK ==
  /\ phase \in {"installing", "spinning"} =>
       /\ \A k \in Keys \ todo : Served(k, registry, patches)
       /\ \A k \in todo : registry[k] # NULL
  /\ phase = "game" /\ recovered => \A k \in Keys : Served(k, registry, patches)

(* A dispatch is for the patch through which it was reached; its original    *)
(* has run when, and only when, its stage says so.                           *)
HandlersOf(f, r) == IF f.stage = "prefix" THEN r[f.key].prefixes ELSE r[f.key].postfixes
FrameOK(f, r, p) ==
  /\ \E i \in 1 .. Len(p) : p[i].addr = f.addr /\ p[i].receiver.key = f.key
  /\ f.stage = "prefix" => f.ran = <<>> /\ ~f.skip
  /\ f.stage = "original" => ~f.skip /\ f.ran = IF f.calling THEN <<f.addr>> ELSE <<>>
  /\ f.stage = "postfix" =>
       f.ran = (IF f.skip THEN <<>> ELSE <<f.addr>>) /\ (~f.skip => f.result # NULL)
  /\ f.stage # "original" /\ f.calling => f.i <= Len(HandlersOf(f, r))

FramesOK ==
  /\ frames \in Seq(Frame) /\ Len(frames) <= MaxDepth
  /\ frames # <<>> => phase = "game"
  /\ \A n \in 1 .. Len(frames) : FrameOK(frames[n], registry, patches)

(* The inductive invariant. *)
IInv == BootOK /\ TableOK(registry, patches) /\ InstalledOK /\ FramesOK

-----------------------------------------------------------------------------
LEMMA InitEstablishes == Init => IInv
<1>. SUFFICES ASSUME Init PROVE IInv
  OBVIOUS
<1>1. /\ frames \in Seq(Frame) /\ Len(frames) = 0 /\ patches \in Seq(Patch) /\ Len(patches) = 0
      /\ mods \in Seq(DOMAIN Hooks)
  BY DEF Init
<1>2. BootOK /\ InstalledOK
  BY <1>1 DEF Init, BootOK, InstalledOK
<1>3. TableOK(registry, patches)
  BY <1>1, LoaderAssumption DEF Init, TableOK
<1>4. FramesOK
  BY <1>1, LoaderAssumption DEF Init, FramesOK
<1>. QED
  BY <1>2, <1>3, <1>4 DEF IInv

(* A handler joins the target of its key, made for it if there is none; one  *)
(* that is there keeps its receiver and its handle.                          *)
LEMMA HandlerJoins ==
  ASSUME NEW h \in AllHandlers, ready, registry \in [Keys -> Targets \cup {NULL}]
  PROVE  /\ h.key \in Keys /\ Registered(h) \in [Keys -> Targets \cup {NULL}]
         /\ \A k \in Keys : k # h.key => Registered(h)[k] = registry[k]
         /\ Registered(h)[h.key] \in Targets /\ Registered(h)[h.key] # NULL
         /\ registry[h.key] = NULL =>
              /\ Registered(h)[h.key].receiver.key = h.key
              /\ Registered(h)[h.key].handle = -1
              /\ Range(Registered(h)[h.key].prefixes)
                   \cup Range(Registered(h)[h.key].postfixes) = {h}
         /\ registry[h.key] # NULL =>
              /\ Registered(h)[h.key].receiver = registry[h.key].receiver
              /\ Registered(h)[h.key].handle = registry[h.key].handle
              /\ Range(Registered(h)[h.key].prefixes) \cup Range(Registered(h)[h.key].postfixes)
                   = Range(registry[h.key].prefixes) \cup Range(registry[h.key].postfixes) \cup {h}
              /\ Len(registry[h.key].prefixes) <= Len(Registered(h)[h.key].prefixes)
              /\ Len(registry[h.key].postfixes) <= Len(Registered(h)[h.key].postfixes)
<1>. DEFINE k == h.key
            old == IF registry[k] = NULL THEN NewTarget(h) ELSE registry[k]
            new == WithHandler(old, h)
<1>1. /\ k \in Keys /\ h.mod \in DOMAIN Hooks /\ Receiver(h) \in Receivers
      /\ Receiver(h).key = k
  BY HandlerAssumption DEF Receiver, Receivers
<1>2. NewTarget(h) \in Targets
  BY <1>1 DEF NewTarget, Targets
<1>3. old \in Targets
  BY <1>1, <1>2
<1>. HIDE DEF old
(* A handler more at the end of a list of handlers. *)
<1>4. ASSUME NEW s \in Seq(AllHandlers)
      PROVE  /\ Push(s, h) \in Seq(AllHandlers)
             /\ Range(Push(s, h)) = Range(s) \cup {h}
             /\ Len(s) <= Len(Push(s, h))
  <2>1. /\ Append(s, h) \in Seq(AllHandlers) /\ Len(Append(s, h)) = Len(s) + 1 /\ Len(s) \in Nat
        /\ \A i \in 1 .. Len(s) : Append(s, h)[i] = s[i]
        /\ Append(s, h)[Len(s) + 1] = h
        /\ DOMAIN s = 1 .. Len(s) /\ DOMAIN Append(s, h) = 1 .. Len(s) + 1
    OBVIOUS
  <2>2. Range(Append(s, h)) \subseteq Range(s) \cup {h}
    BY <2>1 DEF Range
  <2>3. ASSUME NEW i \in DOMAIN s PROVE s[i] \in Range(Append(s, h))
    BY <2>1 DEF Range
  <2>4. h \in Range(Append(s, h))
    <3>1. Len(s) + 1 \in DOMAIN Append(s, h)
      BY <2>1
    <3>. QED
      BY <2>1, <3>1 DEF Range
  <2>5. Range(Append(s, h)) = Range(s) \cup {h}
    BY <2>2, <2>3, <2>4 DEF Range
  <2>. QED
    BY <2>1, <2>5 DEF Push
<1>5. old.prefixes \in Seq(AllHandlers) /\ old.postfixes \in Seq(AllHandlers)
  BY <1>3 DEF Targets
<1>6. /\ new \in Targets /\ new.receiver = old.receiver /\ new.handle = old.handle
      /\ Range(new.prefixes) \cup Range(new.postfixes)
           = Range(old.prefixes) \cup Range(old.postfixes) \cup {h}
      /\ Len(old.prefixes) <= Len(new.prefixes) /\ Len(old.postfixes) <= Len(new.postfixes)
  <2>1. CASE h.prefix
    <3>1. new = [old EXCEPT !.prefixes = Push(old.prefixes, h)]
      BY <2>1 DEF WithHandler
    <3>2. /\ new \in Targets /\ new.receiver = old.receiver /\ new.handle = old.handle
          /\ new.prefixes = Push(old.prefixes, h) /\ new.postfixes = old.postfixes
      BY <1>3, <1>4, <1>5, <3>1 DEF Targets
    <3>3. Len(old.postfixes) <= Len(new.postfixes)
      BY <1>5, <3>2
    <3>. QED
      BY <1>4, <1>5, <3>2, <3>3
  <2>2. CASE ~h.prefix
    <3>1. new = [old EXCEPT !.postfixes = Push(old.postfixes, h)]
      BY <2>2 DEF WithHandler
    <3>2. /\ new \in Targets /\ new.receiver = old.receiver /\ new.handle = old.handle
          /\ new.postfixes = Push(old.postfixes, h) /\ new.prefixes = old.prefixes
      BY <1>3, <1>4, <1>5, <3>1 DEF Targets
    <3>3. Len(old.prefixes) <= Len(new.prefixes)
      BY <1>5, <3>2
    <3>. QED
      BY <1>4, <1>5, <3>2, <3>3
  <2>. QED
    BY <2>1, <2>2
<1>. HIDE DEF new
<1>7. Registered(h) = [registry EXCEPT ![k] = new]
  BY DEF Registered, new, old
<1>8. /\ Registered(h)[k] = new /\ new # NULL
      /\ \A j \in Keys : j # k => Registered(h)[j] = registry[j]
      /\ Registered(h) \in [Keys -> Targets \cup {NULL}]
  BY <1>1, <1>6, <1>7, HandlerAssumption
<1>9. registry[k] = NULL =>
        /\ old.receiver.key = k /\ old.handle = -1
        /\ Range(old.prefixes) \cup Range(old.postfixes) = {}
  <2>1. /\ NewTarget(h).receiver = Receiver(h) /\ NewTarget(h).handle = -1
        /\ NewTarget(h).prefixes = <<>> /\ NewTarget(h).postfixes = <<>>
    BY DEF NewTarget
  <2>2. Range(<<>>) = {}
    BY DEF Range
  <2>. QED
    BY <1>1, <2>1, <2>2 DEF old
<1>10. registry[k] # NULL => old = registry[k]
  BY DEF old
<1>. QED
  BY <1>1, <1>6, <1>8, <1>9, <1>10

(* What a registration leaves as it was: the agreement with the patch table, *)
(* what frames in progress rely on and, for one that is late, what the       *)
(* installing loop achieved.                                                 *)
LEMMA RegistrationKeeps ==
  ASSUME TableOK(registry, patches), NEW h \in AllHandlers
  PROVE  /\ TableOK(Registered(h), patches)
         /\ \A f \in Frame : FrameOK(f, registry, patches) => FrameOK(f, Registered(h), patches)
         /\ h \in Late => \A k \in Keys :
              Served(k, registry, patches) => Served(k, Registered(h), patches)
<1>. DEFINE r == Registered(h)
<1>1. CASE ~ready
  BY <1>1 DEF Registered
<1>2. CASE ready
  <2>1. registry \in [Keys -> Targets \cup {NULL}]
    BY DEF TableOK
  <2>2. /\ h.key \in Keys /\ r \in [Keys -> Targets \cup {NULL}]
        /\ \A k \in Keys : k # h.key => r[k] = registry[k]
        /\ r[h.key] \in Targets /\ r[h.key] # NULL
    BY <1>2, <2>1, HandlerJoins
  <2>3. registry[h.key] = NULL =>
          /\ r[h.key].receiver.key = h.key /\ r[h.key].handle = -1
          /\ Range(r[h.key].prefixes) \cup Range(r[h.key].postfixes) = {h}
    BY <1>2, <2>1, HandlerJoins
  <2>4. registry[h.key] # NULL =>
          /\ r[h.key].receiver = registry[h.key].receiver
          /\ r[h.key].handle = registry[h.key].handle
          /\ Range(r[h.key].prefixes) \cup Range(r[h.key].postfixes)
               = Range(registry[h.key].prefixes) \cup Range(registry[h.key].postfixes) \cup {h}
          /\ Len(registry[h.key].prefixes) <= Len(r[h.key].prefixes)
          /\ Len(registry[h.key].postfixes) <= Len(r[h.key].postfixes)
    BY <1>2, <2>1, HandlerJoins
  <2>. HIDE DEF r
  <2>5. Len(patches) \in Nat
    BY DEF TableOK
  <2>6. \A k \in Keys : registry[k] # NULL =>
          r[k] # NULL /\ r[k].receiver = registry[k].receiver /\ r[k].handle = registry[k].handle
    BY <2>2, <2>4
  <2>7. TableOK(r, patches)
    <3>1. ASSUME NEW k \in Keys, r[k] # NULL
          PROVE  /\ r[k].receiver.key = k /\ r[k].handle \in -1 .. Len(patches) - 1
                 /\ r[k].handle >= 0 =>
                      patches[r[k].handle + 1] = [addr |-> AddrOf[k], receiver |-> r[k].receiver]
      <4>1. CASE registry[k] # NULL
        BY <2>6, <4>1 DEF TableOK
      <4>2. CASE registry[k] = NULL
        <5>1. k = h.key
          BY <2>2, <3>1, <4>2
        <5>2. r[k].receiver.key = k /\ r[k].handle = -1
          BY <2>3, <4>2, <5>1
        <5>. QED
          BY <2>5, <5>2
      <4>. QED
        BY <4>1, <4>2
    <3>2. ASSUME NEW i \in 1 .. Len(patches)
          PROVE  LET k == patches[i].receiver.key
                 IN  r[k] # NULL /\ r[k].handle = i - 1 /\ r[k].receiver = patches[i].receiver
      <4>1. patches[i] \in Patch
        BY DEF TableOK
      <4>2. patches[i].receiver.key \in Keys
        BY <4>1 DEF Patch, Receivers
      <4>. QED
        BY <2>6, <4>2 DEF TableOK
    <3>. QED
      BY <2>2, <3>1, <3>2 DEF TableOK
  <2>8. ASSUME NEW f \in Frame, FrameOK(f, registry, patches)
        PROVE  FrameOK(f, r, patches)
    <3>1. /\ f.key \in Keys /\ f.i \in Nat /\ registry[f.key] # NULL
          /\ registry[f.key] \in Targets
      <4>1. PICK i \in 1 .. Len(patches) : patches[i].receiver.key = f.key
        BY <2>8 DEF FrameOK
      <4>2. registry[f.key] # NULL /\ f.key \in Keys /\ f.i \in Nat
        BY <4>1 DEF TableOK, Frame
      <4>. QED
        BY <2>1, <4>2
    <3>2. /\ Len(registry[f.key].prefixes) <= Len(r[f.key].prefixes)
          /\ Len(registry[f.key].postfixes) <= Len(r[f.key].postfixes)
      <4>1. CASE f.key = h.key
        BY <2>4, <3>1, <4>1
      <4>2. CASE f.key # h.key
        <5>1. Len(registry[f.key].prefixes) \in Nat /\ Len(registry[f.key].postfixes) \in Nat
          BY <3>1 DEF Targets
        <5>2. r[f.key] = registry[f.key]
          BY <2>2, <3>1, <4>2
        <5>. QED
          BY <5>1, <5>2
      <4>. QED
        BY <4>1, <4>2
    <3>3. r[f.key] \in Targets
      BY <2>2, <2>6, <3>1
    <3>4. /\ Len(registry[f.key].prefixes) \in Nat /\ Len(r[f.key].prefixes) \in Nat
          /\ Len(registry[f.key].postfixes) \in Nat /\ Len(r[f.key].postfixes) \in Nat
      BY <3>1, <3>3 DEF Targets
    <3>5. f.i <= Len(HandlersOf(f, registry)) => f.i <= Len(HandlersOf(f, r))
      BY <3>1, <3>2, <3>4 DEF HandlersOf
    <3>. QED
      BY <2>8, <3>5 DEF FrameOK
  <2>9. ASSUME h \in Late, NEW k \in Keys, Served(k, registry, patches)
        PROVE  Served(k, r, patches)
    <3>. SUFFICES ASSUME r[k] # NULL, FromLoading(r[k])
                  PROVE  \/ r[k].handle >= 0
                         \/ AddrOf[k] \in Unpatchable \cup {NULL}
                         \/ Len(patches) = MaxPatches
                         \/ \E j \in Keys \ {k} : /\ AddrOf[j] = AddrOf[k]
                                                  /\ r[j] # NULL /\ r[j].handle >= 0
      BY DEF Served
    <3>1. h \notin HookHandlers
      BY <2>9, HandlerAssumption
    <3>2. registry[k] # NULL
      BY <2>2, <2>3, <3>1 DEF FromLoading
    <3>3. FromLoading(registry[k])
      <4>1. CASE k = h.key
        BY <2>4, <3>1, <3>2, <4>1 DEF FromLoading
      <4>2. CASE k # h.key
        BY <2>2, <4>2
      <4>. QED
        BY <4>1, <4>2
    <3>. QED
      BY <2>6, <2>9, <3>2, <3>3 DEF Served
  <2>. QED
    BY <2>7, <2>8, <2>9 DEF r
<1>. QED
  BY <1>1, <1>2

(* One turn of the installing loop: a patch is answered, shared or made for  *)
(* the target, and whatever the loop achieved before it stays.               *)
LEMMA TurnServes ==
  ASSUME TableOK(registry, patches), NEW k \in Keys, registry[k] # NULL, AddrOf[k] # NULL,
         NEW p, NEW r,
         LET answer == InstallPatch(AddrOf[k], registry[k].receiver)
         IN  /\ p = answer.table
             /\ r = IF answer.handle < 0 THEN registry
                    ELSE [registry EXCEPT ![k].handle = answer.handle]
  PROVE  /\ TableOK(r, p) /\ Served(k, r, p)
         /\ \A j \in Keys : Served(j, registry, patches) => Served(j, r, p)
         /\ \A j \in Keys : registry[j] # NULL => r[j] # NULL
<1>. DEFINE a == AddrOf[k]
            s == registry[k].receiver
            n == Len(patches)
<1>1. /\ registry \in [Keys -> Targets \cup {NULL}] /\ patches \in Seq(Patch)
      /\ registry[k] \in Targets /\ n \in Nat /\ n <= MaxPatches /\ MaxPatches \in Nat
      /\ s \in Receivers /\ s.key = k /\ a \in Addrs
  <2>1. registry[k] \in Targets
    BY DEF TableOK
  <2>2. a \in Addrs
    BY DEF Addrs
  <2>3. /\ registry \in [Keys -> Targets \cup {NULL}] /\ patches \in Seq(Patch)
        /\ Len(patches) <= MaxPatches /\ registry[k].receiver.key = k
    BY DEF TableOK
  <2>4. s \in Receivers
    BY <2>1 DEF Targets
  <2>5. n \in Nat /\ MaxPatches \in Nat
    BY <2>3, LoaderAssumption
  <2>. HIDE DEF a
  <2>. QED
    BY <2>1, <2>2, <2>3, <2>4, <2>5
(* Every patch has its target. *)
<1>2. ASSUME NEW i \in 1 .. n
      PROVE  /\ patches[i].receiver.key \in Keys /\ registry[patches[i].receiver.key] # NULL
             /\ registry[patches[i].receiver.key].handle = i - 1
             /\ registry[patches[i].receiver.key].receiver = patches[i].receiver
             /\ AddrOf[patches[i].receiver.key] = patches[i].addr
  <2>. DEFINE q == patches[i].receiver.key
  <2>1. patches[i] \in Patch
    BY DEF TableOK
  <2>2. q \in Keys
    BY <2>1 DEF Patch, Receivers
  <2>3. registry[q] # NULL /\ registry[q].handle = i - 1 /\ registry[q].receiver = patches[i].receiver
    BY DEF TableOK
  <2>4. registry[q].handle >= 0 /\ registry[q].handle + 1 = i
    BY <1>1, <2>3
  <2>5. patches[i] = [addr |-> AddrOf[q], receiver |-> registry[q].receiver]
    BY <2>2, <2>3, <2>4 DEF TableOK
  <2>. QED
    BY <2>2, <2>3, <2>5
<1>3. CASE \E i \in DOMAIN patches : patches[i].addr = a
  <2>1. PICK i \in 1 .. n : patches[i].addr = a
    BY <1>1, <1>3
  <2>2. PatchAt(a) = i
    BY <1>1, <2>1 DEF PatchAt, TableOK
  <2>. DEFINE h == IF SameReceiver(patches[i].receiver, s) THEN i - 1 ELSE -1
  <2>3. InstallPatch(a, s) = [handle |-> h, table |-> patches]
    BY <1>3, <2>2 DEF InstallPatch
  <2>4. p = patches /\ r = IF h < 0 THEN registry ELSE [registry EXCEPT ![k].handle = h]
    BY <2>3
  <2>5. CASE patches[i].receiver = s
    <3>1. h = i - 1 /\ registry[k].handle = i - 1 /\ i - 1 >= 0
      BY <1>1, <1>2, <2>1, <2>5 DEF SameReceiver
    <3>2. r = registry
      BY <1>1, <2>4, <3>1 DEF Targets
    <3>3. Served(k, r, p)
      BY <3>1, <3>2 DEF Served
    <3>. QED
      BY <2>4, <3>2, <3>3
  <2>6. CASE patches[i].receiver # s
    <3>1. p = patches /\ r = registry
      BY <2>4, <2>6 DEF SameReceiver
    <3>2. \E j \in Keys \ {k} : AddrOf[j] = AddrOf[k] /\ r[j] # NULL /\ r[j].handle >= 0
      <4>. DEFINE j == patches[i].receiver.key
      <4>1. j \in Keys /\ registry[j] # NULL /\ registry[j].handle = i - 1 /\ AddrOf[j] = a
            /\ registry[j].receiver = patches[i].receiver
        BY <1>2, <2>1
      <4>2. j # k /\ i - 1 >= 0
        BY <1>1, <2>6, <4>1
      <4>. HIDE DEF j
      <4>. QED
        BY <3>1, <4>1, <4>2
    <3>3. Served(k, r, p)
      BY <3>2 DEF Served
    <3>. QED
      BY <3>1, <3>3
  <2>. QED
    BY <2>5, <2>6
<1>4. CASE ~ \E i \in DOMAIN patches : patches[i].addr = a
  <2>1. CASE n >= MaxPatches \/ a \in Unpatchable
    <3>1. InstallPatch(a, s) = [handle |-> -1, table |-> patches]
      BY <1>4, <2>1 DEF InstallPatch
    <3>2. p = patches /\ r = registry
      BY <3>1
    <3>3. Len(p) = MaxPatches \/ AddrOf[k] \in Unpatchable \cup {NULL}
      BY <1>1, <2>1, <3>2
    <3>4. Served(k, r, p)
      BY <3>3 DEF Served
    <3>. QED
      BY <3>2, <3>4
  <2>2. CASE ~(n >= MaxPatches \/ a \in Unpatchable)
    <3>. DEFINE new == [addr |-> a, receiver |-> s]
    <3>1. InstallPatch(a, s) = [handle |-> n, table |-> Append(patches, new)]
      BY <1>4, <2>2 DEF InstallPatch, NextHandle
    <3>2. p = Append(patches, new) /\ r = [registry EXCEPT ![k].handle = n]
      BY <1>1, <3>1
    <3>3. new \in Patch /\ new.addr = a /\ new.receiver = s
      BY <1>1 DEF Patch
    <3>. HIDE DEF new
    <3>4. /\ p \in Seq(Patch) /\ Len(p) = n + 1 /\ Len(p) <= MaxPatches
          /\ \A i \in 1 .. n : p[i] = patches[i]
          /\ p[n + 1] = new
      BY <1>1, <2>2, <3>2, <3>3
    <3>5. /\ r \in [Keys -> Targets \cup {NULL}]
          /\ \A j \in Keys : j # k => r[j] = registry[j]
          /\ r[k] \in Targets /\ r[k].handle = n /\ r[k].receiver = s
          /\ r[k].prefixes = registry[k].prefixes /\ r[k].postfixes = registry[k].postfixes
      <4>. DEFINE t == [registry[k] EXCEPT !.handle = n]
      <4>1. /\ t \in Targets /\ t.handle = n /\ t.receiver = s
            /\ t.prefixes = registry[k].prefixes /\ t.postfixes = registry[k].postfixes
        BY <1>1 DEF Targets
      <4>2. r = [registry EXCEPT ![k] = t]
        BY <3>2
      <4>. HIDE DEF t
      <4>. QED
        BY <1>1, <4>1, <4>2
    <3>6. r[k] # NULL
      BY <3>5, HandlerAssumption
    (* The target had no patch before. *)
    <3>7. registry[k].handle = -1
      <4>1. registry[k].handle >= 0 =>
              /\ registry[k].handle + 1 \in 1 .. n
              /\ patches[registry[k].handle + 1].addr = a
        <5>1. registry[k].handle \in -1 .. n - 1
          BY DEF TableOK
        <5>2. registry[k].handle >= 0 =>
                patches[registry[k].handle + 1] = [addr |-> a, receiver |-> s]
          BY DEF TableOK
        <5>. QED
          BY <1>1, <5>1, <5>2
      <4>2. registry[k].handle \in -1 .. n - 1
        BY DEF TableOK
      <4>. QED
        BY <1>1, <1>4, <4>1, <4>2
    <3>8. TableOK(r, p)
      <4>1. ASSUME NEW i \in 1 .. n + 1, NEW j \in 1 .. n + 1, p[i].addr = p[j].addr
            PROVE  i = j
        <5>1. \A l \in 1 .. n : patches[l].addr # a
          BY <1>1, <1>4
        <5>2. \A l \in 1 .. n : p[l].addr # a
          BY <3>4, <5>1
        <5>3. i \in 1 .. n /\ j \in 1 .. n => i = j
          BY <3>4, <4>1 DEF TableOK
        <5>. QED
          BY <1>1, <3>3, <3>4, <4>1, <5>2, <5>3
      <4>2. ASSUME NEW j \in Keys, r[j] # NULL
            PROVE  /\ r[j].receiver.key = j /\ r[j].handle \in -1 .. n
                   /\ r[j].handle >= 0 =>
                        p[r[j].handle + 1] = [addr |-> AddrOf[j], receiver |-> r[j].receiver]
        <5>1. CASE j = k
          BY <1>1, <3>4, <3>5, <5>1 DEF new
        <5>2. CASE j # k
          <6>1. /\ r[j] = registry[j] /\ r[j].receiver.key = j /\ r[j].handle \in -1 .. n - 1
                /\ r[j].handle >= 0 =>
                     patches[r[j].handle + 1] = [addr |-> AddrOf[j], receiver |-> r[j].receiver]
            BY <3>5, <4>2, <5>2 DEF TableOK
          <6>2. r[j].handle >= 0 => r[j].handle + 1 \in 1 .. n
            BY <1>1, <6>1
          <6>3. r[j].handle \in -1 .. n
            BY <1>1, <6>1
          <6>. QED
            BY <3>4, <6>1, <6>2, <6>3
        <5>. QED
          BY <5>1, <5>2
      <4>3. ASSUME NEW i \in 1 .. n + 1
            PROVE  LET q == p[i].receiver.key
                   IN  r[q] # NULL /\ r[q].handle = i - 1 /\ r[q].receiver = p[i].receiver
        <5>1. CASE i = n + 1
          BY <1>1, <3>3, <3>4, <3>5, <3>6, <5>1
        <5>2. CASE i # n + 1
          <6>1. i \in 1 .. n /\ p[i] = patches[i]
            BY <1>1, <3>4, <5>2
          <6>2. patches[i].receiver.key # k
            BY <1>2, <3>7, <6>1
          <6>. QED
            BY <1>2, <3>5, <6>1, <6>2
        <5>. QED
          BY <5>1, <5>2
      <4>4. Len(p) = n + 1 /\ Len(p) - 1 = n
        BY <1>1, <3>4
      <4>5. \A i, j \in 1 .. Len(p) : p[i].addr = p[j].addr => i = j
        BY <4>1, <4>4
      <4>6. \A j \in Keys : r[j] # NULL =>
              /\ r[j].receiver.key = j /\ r[j].handle \in -1 .. Len(p) - 1
              /\ r[j].handle >= 0 =>
                   p[r[j].handle + 1] = [addr |-> AddrOf[j], receiver |-> r[j].receiver]
        BY <4>2, <4>4
      <4>7. \A i \in 1 .. Len(p) :
              LET q == p[i].receiver.key
              IN  r[q] # NULL /\ r[q].handle = i - 1 /\ r[q].receiver = p[i].receiver
        BY <4>3, <4>4
      <4>. HIDE DEF n
      <4>. QED
        BY <3>4, <3>5, <4>5, <4>6, <4>7 DEF TableOK
    <3>9. Served(k, r, p)
      BY <1>1, <3>5 DEF Served
    <3>10. ASSUME NEW j \in Keys, j # k, Served(j, registry, patches)
           PROVE  Served(j, r, p)
      <4>1. r[j] = registry[j] /\ n # MaxPatches
        BY <1>1, <2>2, <3>5, <3>10
      <4>2. ASSUME NEW l \in Keys \ {j}, AddrOf[l] = AddrOf[j],
                   registry[l] # NULL, registry[l].handle >= 0
            PROVE  r[l] # NULL /\ r[l].handle >= 0
        BY <1>1, <3>5, <3>6, <4>2
      <4>. QED
        BY <3>10, <4>1, <4>2 DEF Served
    <3>. QED
      BY <3>5, <3>6, <3>8, <3>9, <3>10
  <2>. QED
    BY <2>1, <2>2
<1>. QED
  BY <1>3, <1>4

-----------------------------------------------------------------------------
(* While the game has not started there is no dispatch in progress.          *)
LEMMA NoFramesYet ==
  ASSUME FramesOK, phase # "game", UNCHANGED frames
  PROVE  FramesOK'
<1>1. frames = <<>>
  BY DEF FramesOK
<1>2. /\ frames' = <<>> /\ Len(<<>>) = 0 /\ <<>> \in Seq(Frame) /\ MaxDepth \in Nat
  BY <1>1, LoaderAssumption
<1>3. frames' \in Seq(Frame) /\ Len(frames') = 0
  BY <1>2
<1>. QED
  BY <1>2, <1>3 DEF FramesOK

LEMMA BootKeeps == IInv /\ BootNext => IInv'
<1>. SUFFICES ASSUME IInv, BootNext PROVE IInv'
  OBVIOUS
<1>. USE DEF IInv
<1>1. FramesOK'
  <2>1. phase # "game" /\ UNCHANGED frames
    BY DEF BootNext, LoaderReady, NoLoader, SkipMod, LoadMod, RegisterHook, LoadEnds,
           ModsLoaded, Install, Spin, BootComplete
  <2>. QED
    BY <2>1, NoFramesYet
<1>2. CASE LoaderReady
  <2>1. TableOK(registry', patches')
    BY <1>2 DEF LoaderReady
  <2>2. BootOK' /\ InstalledOK'
    BY <1>2, LoaderAssumption DEF LoaderReady, BootOK, InstalledOK
  <2>. QED
    BY <1>1, <2>1, <2>2
<1>3. CASE NoLoader
  <2>1. TableOK(registry', patches')
    BY <1>3 DEF NoLoader
  <2>2. BootOK' /\ InstalledOK'
    BY <1>3 DEF NoLoader, BootOK, InstalledOK, Served
  <2>. QED
    BY <1>1, <2>1, <2>2
<1>4. CASE SkipMod \/ LoadEnds
  <2>1. TableOK(registry', patches')
    BY <1>4 DEF SkipMod, LoadEnds
  <2>2. mods \in Seq(DOMAIN Hooks) /\ mods # <<>>
    BY <1>4 DEF SkipMod, LoadEnds, BootOK
  <2>3. Tail(mods) \in Seq(DOMAIN Hooks)
    BY <2>2
  <2>4. BootOK' /\ InstalledOK'
    BY <1>4, <2>3 DEF SkipMod, LoadEnds, BootOK, InstalledOK
  <2>. QED
    BY <1>1, <2>1, <2>4
<1>5. CASE LoadMod
  <2>1. TableOK(registry', patches')
    BY <1>5 DEF LoadMod
  <2>2. Head(mods) \in DOMAIN Hooks
    BY <1>5 DEF LoadMod, BootOK
  <2>3. init' \in Seq(HookHandlers) /\ mods' # <<>>
    BY <1>5, <2>2, HandlerAssumption DEF LoadMod
  <2>4. BootOK' /\ InstalledOK'
    BY <1>5, <2>3 DEF LoadMod, BootOK, InstalledOK
  <2>. QED
    BY <1>1, <2>1, <2>4
<1>6. CASE RegisterHook
  <2>1. init \in Seq(HookHandlers) /\ init # <<>>
    BY <1>6 DEF RegisterHook, BootOK
  <2>2. Head(init) \in AllHandlers /\ Tail(init) \in Seq(HookHandlers)
    BY <2>1 DEF AllHandlers
  <2>3. TableOK(Registered(Head(init)), patches)
    BY <2>2, RegistrationKeeps
  <2>4. TableOK(registry', patches')
    BY <1>6, <2>3 DEF RegisterHook
  <2>5. BootOK' /\ InstalledOK'
    BY <1>6, <2>2 DEF RegisterHook, BootOK, InstalledOK
  <2>. QED
    BY <1>1, <2>4, <2>5
<1>7. CASE ModsLoaded
  <2>1. TableOK(registry', patches')
    BY <1>7 DEF ModsLoaded
  <2>2. BootOK'
    BY <1>7 DEF ModsLoaded, BootOK
  <2>3. InstalledOK'
    BY <1>7 DEF ModsLoaded, InstalledOK, Served
  <2>. QED
    BY <1>1, <2>1, <2>2, <2>3
<1>8. CASE \E k \in Keys : Install(k)
  <2>1. PICK k \in Keys : Install(k)
    BY <1>8
  <2>2. /\ phase = "installing" /\ phase' = "installing" /\ k \in todo
        /\ registry[k] # NULL /\ todo' = todo \ {k}
    BY <2>1 DEF Install, Left, InstalledOK
  <2>3. BootOK'
    BY <2>1, <2>2 DEF Install, BootOK
  <2>4. /\ TableOK(registry', patches') /\ Served(k, registry', patches')
        /\ \A j \in Keys : Served(j, registry, patches) => Served(j, registry', patches')
        /\ \A j \in Keys : registry[j] # NULL => registry'[j] # NULL
    <3>1. CASE AddrOf[k] = NULL
      BY <2>1, <3>1 DEF Install, Served
    <3>2. CASE AddrOf[k] # NULL
      <4>1. LET answer == InstallPatch(AddrOf[k], registry[k].receiver)
            IN  /\ patches' = answer.table
                /\ registry' = IF answer.handle < 0 THEN registry
                               ELSE [registry EXCEPT ![k].handle = answer.handle]
        BY <2>1, <3>2 DEF Install
      <4>. QED
        BY <2>2, <3>2, <4>1, TurnServes
    <3>. QED
      BY <3>1, <3>2
  <2>5. InstalledOK'
    BY <2>2, <2>4 DEF InstalledOK, BootOK
  <2>. QED
    BY <1>1, <2>3, <2>4, <2>5
<1>9. CASE BootComplete
  <2>1. TableOK(registry', patches')
    BY <1>9 DEF BootComplete
  <2>2. BootOK'
    BY <1>9 DEF BootComplete, BootOK
  <2>3. InstalledOK'
    BY <1>9 DEF BootComplete, InstalledOK
  <2>. QED
    BY <1>1, <2>1, <2>2, <2>3
<1>10. CASE \E k \in Keys : Spin(k)
  <2>1. UNCHANGED <<ready, recovered, mods, init, registry, todo, patches, isLocked>>
        /\ phase = "installing" /\ phase' = "spinning"
    BY <1>10 DEF Spin
  <2>2. TableOK(registry', patches')
    BY <2>1
  <2>3. BootOK' /\ InstalledOK'
    BY <2>1 DEF BootOK, InstalledOK, Served
  <2>. QED
    BY <1>1, <2>2, <2>3
<1>. QED
  BY <1>2, <1>3, <1>4, <1>5, <1>6, <1>7, <1>8, <1>9, <1>10 DEF BootNext

-----------------------------------------------------------------------------
(* The innermost dispatch becomes f: the others stay what they were.         *)
LEMMA TopChanges ==
  ASSUME FramesOK, frames # <<>>, NEW f \in Frame, FrameOK(f, registry, patches),
         SetTop(f), UNCHANGED <<boot, registry>>
  PROVE  FramesOK'
<1>. DEFINE n == Len(frames)
<1>1. frames \in Seq(Frame) /\ n \in Nat /\ n <= MaxDepth /\ phase = "game"
  BY DEF FramesOK
<1>2. n # 0
  BY <1>1
<1>3. /\ frames' \in Seq(Frame) /\ Len(frames') = n
      /\ frames'[n] = f /\ \A i \in 1 .. n : i # n => frames'[i] = frames[i]
  BY <1>1, <1>2 DEF SetTop
<1>4. registry' = registry /\ patches' = patches /\ phase' = phase
  BY DEF boot
<1>5. ASSUME NEW i \in 1 .. n PROVE FrameOK(frames'[i], registry, patches)
  BY <1>3 DEF FramesOK
<1>. HIDE DEF n
<1>. QED
  BY <1>1, <1>3, <1>4, <1>5 DEF FramesOK

(* The innermost dispatch is over. *)
LEMMA TopLeaves ==
  ASSUME FramesOK, frames # <<>>, frames' = Front(frames), UNCHANGED <<boot, registry>>
  PROVE  FramesOK'
<1>. DEFINE n == Len(frames)
<1>1. frames \in Seq(Frame) /\ n \in Nat /\ n <= MaxDepth /\ phase = "game"
  BY DEF FramesOK
<1>2. /\ frames' \in Seq(Frame) /\ Len(frames') = n - 1
      /\ \A i \in 1 .. n - 1 : frames'[i] = frames[i]
  BY <1>1, FrontDropsLast
<1>3. registry' = registry /\ patches' = patches /\ phase' = phase
  BY DEF boot
<1>4. ASSUME NEW i \in 1 .. n - 1 PROVE FrameOK(frames'[i], registry, patches)
  <2>1. i \in 1 .. n
    BY <1>1
  <2>. QED
    BY <1>2, <2>1 DEF FramesOK
<1>5. n - 1 <= MaxDepth
  BY <1>1, LoaderAssumption
<1>. HIDE DEF n
<1>. QED
  BY <1>1, <1>2, <1>3, <1>4, <1>5 DEF FramesOK

(* The innermost dispatch, the target it serves and the patch it came by.    *)
LEMMA TopIs ==
  ASSUME IInv, frames # <<>>
  PROVE  /\ Top \in Frame /\ FrameOK(Top, registry, patches) /\ phase = "game"
         /\ registry[Top.key] \in Targets /\ registry[Top.key] # NULL
         /\ Handlers(Top) = HandlersOf(Top, registry) /\ Handlers(Top) \in Seq(AllHandlers)
         /\ registry[Top.key].handle + 1 \in 1 .. Len(patches)
         /\ patches[registry[Top.key].handle + 1].addr = Top.addr
<1>. USE DEF IInv
<1>. DEFINE n == Len(frames)
<1>1. frames \in Seq(Frame) /\ n \in Nat /\ n # 0
  BY DEF FramesOK
<1>2. Top = frames[n] /\ n \in 1 .. n
  BY <1>1 DEF Top, Last
<1>3. Top \in Frame /\ FrameOK(Top, registry, patches) /\ phase = "game"
  BY <1>1, <1>2 DEF FramesOK
<1>4. PICK i \in 1 .. Len(patches) : patches[i].addr = Top.addr /\ patches[i].receiver.key = Top.key
  BY <1>3 DEF FrameOK
<1>5. registry[Top.key] # NULL /\ registry[Top.key].handle = i - 1 /\ Top.key \in Keys
  BY <1>3, <1>4 DEF TableOK, Frame
<1>6. registry[Top.key] \in Targets
  BY <1>5 DEF TableOK
<1>7. Handlers(Top) = HandlersOf(Top, registry)
  BY DEF Handlers, HandlersOf
<1>8. Handlers(Top) \in Seq(AllHandlers)
  BY <1>6 DEF Handlers, Targets
<1>9. registry[Top.key].handle + 1 = i
  <2>1. i \in Nat
    BY DEF TableOK
  <2>. QED
    BY <1>5, <2>1
<1>. QED
  BY <1>3, <1>4, <1>5, <1>6, <1>7, <1>8, <1>9

(* A call of a patched function begins a dispatch of the patch's own key.    *)
LEMMA CallKeeps ==
  ASSUME IInv, NEW a \in Addrs, Call(a)
  PROVE  FramesOK'
<1>. USE DEF IInv
<1>. DEFINE n == Len(frames)
<1>1. frames \in Seq(Frame) /\ n \in Nat /\ n < MaxDepth /\ MaxDepth \in Nat /\ phase = "game"
  BY LoaderAssumption DEF FramesOK, Call
<1>2. PICK i \in DOMAIN patches :
        /\ patches[i].addr = a
        /\ LET k == patches[i].receiver.key
           IN  frames' = Append(frames,
                 [addr |-> a, key |-> k, stage |-> "prefix", i |-> 1, calling |-> FALSE,
                  skip |-> FALSE, result |-> NULL, called |-> <<>>, ran |-> <<>>,
                  present |-> registry[k]])
  BY DEF Call
<1>. DEFINE k == patches[i].receiver.key
            f == [addr |-> a, key |-> k, stage |-> "prefix", i |-> 1, calling |-> FALSE,
                  skip |-> FALSE, result |-> NULL, called |-> <<>>, ran |-> <<>>,
                  present |-> registry[k]]
<1>3. i \in 1 .. Len(patches) /\ patches[i] \in Patch
  BY DEF TableOK
<1>4. k \in Keys /\ registry[k] # NULL /\ registry[k] \in Targets
  <2>1. k \in Keys
    BY <1>3 DEF Patch, Receivers
  <2>. QED
    BY <1>3, <2>1 DEF TableOK
<1>5. f \in Frame
  <2>1. <<>> \in Seq(AllHandlers) /\ <<>> \in Seq(Addrs) /\ NULL \in Results
    BY DEF Results
  <2>. HIDE DEF k
  <2>. QED
    BY <1>4, <2>1 DEF Frame
<1>6. FrameOK(f, registry, patches)
  BY <1>2, <1>3 DEF FrameOK
<1>. HIDE DEF f
<1>7. frames' = Append(frames, f)
  BY <1>2 DEF f
<1>8. /\ frames' \in Seq(Frame) /\ Len(frames') = n + 1
      /\ frames'[n + 1] = f /\ \A j \in 1 .. n : frames'[j] = frames[j]
  BY <1>1, <1>5, <1>7
<1>9. registry' = registry /\ patches' = patches /\ phase' = phase
  BY DEF Call, boot
<1>10. ASSUME NEW j \in 1 .. n + 1 PROVE FrameOK(frames'[j], registry, patches)
  <2>1. CASE j \in 1 .. n
    BY <1>8, <2>1 DEF FramesOK
  <2>2. CASE j \notin 1 .. n
    BY <1>1, <1>6, <1>8, <2>2
  <2>. QED
    BY <2>1, <2>2
<1>11. n + 1 <= MaxDepth
  BY <1>1
<1>. HIDE DEF n
<1>. QED
  BY <1>1, <1>8, <1>9, <1>10, <1>11 DEF FramesOK

(* The steps of the innermost dispatch. *)
LEMMA DispatchKeeps ==
  ASSUME IInv,
         \/ CallHandler \/ PrefixContinues \/ PrefixThrows \/ PrefixesDone
         \/ \E result \in {NULL, "skipper"} : PrefixSkips(result)
         \/ CallOriginal \/ OriginalReturns \/ PostfixReturns \/ PostfixThrows
  PROVE  FramesOK'
<1>. DEFINE t == Top
<1>1. frames # <<>> /\ UNCHANGED <<boot, registry>>
  BY DEF CallHandler, PrefixContinues, PrefixThrows, PrefixesDone, PrefixSkips, CallOriginal,
         OriginalReturns, PostfixReturns, PostfixThrows, Running
<1>2. /\ t \in Frame /\ FrameOK(t, registry, patches) /\ Handlers(t) = HandlersOf(t, registry)
      /\ Handlers(t) \in Seq(AllHandlers)
      /\ registry[t.key].handle + 1 \in 1 .. Len(patches)
      /\ patches[registry[t.key].handle + 1].addr = t.addr
      /\ registry[t.key] \in Targets
  BY <1>1, TopIs
<1>3. FramesOK
  BY DEF IInv
<1>4. /\ t.i \in Nat \ {0} /\ t.called \in Seq(AllHandlers) /\ t.ran \in Seq(Addrs)
      /\ t.result \in Results /\ t.addr \in Addrs
      /\ t.i + 1 \in Nat \ {0} /\ 1 \in Nat \ {0}
  BY <1>2 DEF Frame
<1>5. NULL \in Results /\ "skipper" \in Results /\ "original" \in Results /\ "original" # NULL
  BY HandlerAssumption DEF Results
<1>6. t.i <= Len(Handlers(t)) =>
        Handlers(t)[t.i] \in AllHandlers /\ Handlers(t)[t.i].fn \in Results \ {NULL}
  <2>1. t.i <= Len(Handlers(t)) => Handlers(t)[t.i] \in AllHandlers
    BY <1>2, <1>4
  <2>. QED
    BY <2>1, HandlerAssumption DEF Results
(* Every one of them replaces the frame by one that is as it should be. *)
<1>7. ASSUME NEW f \in Frame, FrameOK(f, registry, patches), SetTop(f)
      PROVE  FramesOK'
  BY <1>1, <1>3, <1>7, TopChanges
<1>8. CASE CallHandler
  <2>. DEFINE f == [t EXCEPT !.calling = TRUE, !.called = Append(@, Handler)]
  <2>1. /\ SetTop(f) /\ t.stage \in {"prefix", "postfix"} /\ ~t.calling
        /\ t.i <= Len(Handlers(t)) /\ Handler = Handlers(t)[t.i]
    BY <1>8 DEF CallHandler, Pending, Handler
  <2>2. Append(t.called, Handler) \in Seq(AllHandlers)
    BY <1>4, <1>6, <2>1
  <2>3. f \in Frame
    BY <1>2, <2>2 DEF Frame
  <2>4. /\ f.stage = t.stage /\ f.i = t.i /\ f.key = t.key /\ f.addr = t.addr
        /\ f.ran = t.ran /\ f.skip = t.skip /\ f.result = t.result /\ f.calling
    BY <1>2 DEF Frame
  <2>5. HandlersOf(f, registry) = Handlers(t)
    BY <1>2, <2>4 DEF HandlersOf
  <2>. HIDE DEF f, t
  <2>6. FrameOK(f, registry, patches)
    BY <1>2, <2>1, <2>4, <2>5 DEF FrameOK
  <2>. QED
    BY <1>7, <2>1, <2>3, <2>6
<1>9. CASE PrefixContinues \/ PrefixThrows
  <2>. DEFINE f == [t EXCEPT !.calling = FALSE, !.i = @ + 1]
  <2>1. SetTop(f) /\ t.stage = "prefix"
    BY <1>9 DEF PrefixContinues, PrefixThrows, AfterThrow, Running
  <2>2. f \in Frame
    BY <1>2, <1>4 DEF Frame
  <2>3. /\ f.stage = t.stage /\ f.key = t.key /\ f.addr = t.addr
        /\ f.ran = t.ran /\ f.skip = t.skip /\ ~f.calling
    BY <1>2 DEF Frame
  <2>. HIDE DEF f, t
  <2>4. FrameOK(f, registry, patches)
    BY <1>2, <2>1, <2>3 DEF FrameOK
  <2>. QED
    BY <1>7, <2>1, <2>2, <2>4
<1>10. CASE PrefixesDone
  <2>. DEFINE f == [t EXCEPT !.stage = "original"]
  <2>1. SetTop(f) /\ t.stage = "prefix" /\ ~t.calling
    BY <1>10 DEF PrefixesDone, Running
  <2>2. f \in Frame
    BY <1>2 DEF Frame
  <2>3. /\ f.stage = "original" /\ f.key = t.key /\ f.addr = t.addr
        /\ f.ran = t.ran /\ f.skip = t.skip /\ ~f.calling
    BY <1>2, <2>1 DEF Frame
  <2>. HIDE DEF f, t
  <2>4. FrameOK(f, registry, patches)
    BY <1>2, <2>1, <2>3 DEF FrameOK
  <2>. QED
    BY <1>7, <2>1, <2>2, <2>4
<1>11. CASE \E result \in {NULL, "skipper"} : PrefixSkips(result)
  <2>1. PICK result \in {NULL, "skipper"} : PrefixSkips(result)
    BY <1>11
  <2>. DEFINE f == [t EXCEPT !.calling = FALSE, !.skip = TRUE, !.stage = "postfix", !.i = 1,
                             !.result = result]
  <2>2. SetTop(f) /\ t.stage = "prefix"
    BY <2>1 DEF PrefixSkips, Running
  <2>3. f \in Frame
    BY <1>2, <1>4, <1>5 DEF Frame
  <2>4. /\ f.stage = "postfix" /\ f.key = t.key /\ f.addr = t.addr
        /\ f.ran = t.ran /\ f.skip /\ ~f.calling
    BY <1>2 DEF Frame
  <2>. HIDE DEF f, t
  <2>5. FrameOK(f, registry, patches)
    BY <1>2, <2>2, <2>4 DEF FrameOK
  <2>. QED
    BY <1>7, <2>2, <2>3, <2>5
<1>12. CASE CallOriginal
  <2>. DEFINE handle == registry[t.key].handle
              f == [t EXCEPT !.calling = TRUE, !.ran = Append(@, t.addr)]
  <2>1. ~(handle < 0 \/ handle >= Len(patches))
    <3>1. handle \in Int /\ Len(patches) \in Nat
      BY <1>2 DEF Targets, IInv, TableOK
    <3>. QED
      BY <1>2, <3>1
  <2>2. SetTop(f) /\ t.stage = "original" /\ ~t.calling
    BY <1>2, <1>12, <2>1 DEF CallOriginal, Running
  <2>3. t.ran = <<>> /\ ~t.skip
    BY <1>2, <2>2 DEF FrameOK
  <2>4. Append(t.ran, t.addr) \in Seq(Addrs) /\ Append(t.ran, t.addr) = <<t.addr>>
    BY <1>4, <2>3
  <2>5. f \in Frame
    BY <1>2, <2>4 DEF Frame
  <2>6. /\ f.stage = "original" /\ f.key = t.key /\ f.addr = t.addr
        /\ f.ran = <<t.addr>> /\ ~f.skip /\ f.calling
    BY <1>2, <2>2, <2>3, <2>4 DEF Frame
  <2>. HIDE DEF f, t
  <2>7. FrameOK(f, registry, patches)
    BY <1>2, <2>6 DEF FrameOK
  <2>. QED
    BY <1>7, <2>2, <2>5, <2>7
<1>13. CASE OriginalReturns
  <2>. DEFINE f == [t EXCEPT !.calling = FALSE, !.stage = "postfix", !.i = 1,
                             !.result = "original"]
  <2>1. SetTop(f) /\ t.stage = "original" /\ t.calling
    BY <1>13 DEF OriginalReturns, Running
  <2>2. f \in Frame
    BY <1>2, <1>4, <1>5 DEF Frame
  <2>3. /\ f.stage = "postfix" /\ f.key = t.key /\ f.addr = t.addr
        /\ f.ran = t.ran /\ f.skip = t.skip /\ ~f.calling /\ f.result # NULL
    BY <1>2, <1>5 DEF Frame
  <2>. HIDE DEF f, t
  <2>4. FrameOK(f, registry, patches)
    BY <1>2, <2>1, <2>3 DEF FrameOK
  <2>. QED
    BY <1>7, <2>1, <2>2, <2>4
<1>14. CASE PostfixReturns
  <2>. DEFINE f == [t EXCEPT !.calling = FALSE, !.i = @ + 1, !.result = Handler.fn]
  <2>1. /\ SetTop(f) /\ t.stage = "postfix" /\ t.calling /\ Handler = Handlers(t)[t.i]
    BY <1>14 DEF PostfixReturns, Running, Handler
  <2>2. t.i <= Len(Handlers(t))
    BY <1>2, <2>1 DEF FrameOK
  <2>3. Handler.fn \in Results \ {NULL}
    BY <1>6, <2>1, <2>2
  <2>4. f \in Frame
    BY <1>2, <1>4, <2>3 DEF Frame
  <2>5. /\ f.stage = "postfix" /\ f.key = t.key /\ f.addr = t.addr
        /\ f.ran = t.ran /\ f.skip = t.skip /\ ~f.calling /\ f.result # NULL
    BY <1>2, <2>1, <2>3 DEF Frame
  <2>. HIDE DEF f, t
  <2>6. FrameOK(f, registry, patches)
    BY <1>2, <2>1, <2>5 DEF FrameOK
  <2>. QED
    BY <1>7, <2>1, <2>4, <2>6
<1>15. CASE PostfixThrows
  <2>. DEFINE f == [t EXCEPT !.calling = FALSE, !.i = @ + 1, !.result = Kept(t)]
  <2>1. SetTop(f) /\ t.stage = "postfix"
    BY <1>15 DEF PostfixThrows, Running
  <2>2. f \in Frame
    BY <1>2, <1>4 DEF Frame, Kept
  <2>3. /\ f.stage = "postfix" /\ f.key = t.key /\ f.addr = t.addr
        /\ f.ran = t.ran /\ f.skip = t.skip /\ ~f.calling /\ f.result = t.result
    BY <1>2, <2>1 DEF Frame, Kept
  <2>. HIDE DEF f, t
  <2>4. FrameOK(f, registry, patches)
    BY <1>2, <2>1, <2>3 DEF FrameOK
  <2>. QED
    BY <1>7, <2>1, <2>2, <2>4
<1>. QED
  BY <1>8, <1>9, <1>10, <1>11, <1>12, <1>13, <1>14, <1>15

LEMMA GameKeeps == IInv /\ GameNext => IInv'
<1>. SUFFICES ASSUME IInv, GameNext PROVE IInv'
  OBVIOUS
<1>1. CASE UNCHANGED <<boot, registry>>
  <2>1. BootOK' /\ TableOK(registry, patches)' /\ InstalledOK'
    BY <1>1 DEF IInv, boot, BootOK, InstalledOK
  <2>2. FramesOK'
    <3>1. CASE \E a \in Addrs : Call(a)
      BY <3>1, CallKeeps
    <3>2. CASE OriginalThrows \/ Leave
      BY <3>2, TopLeaves DEF IInv, OriginalThrows, Leave, Running
    <3>3. CASE \E h \in Late : RegisterLate(h)
      BY <1>1, <3>3 DEF IInv, RegisterLate, boot, FramesOK
    <3>. QED
      BY <3>1, <3>2, <3>3, DispatchKeeps DEF GameNext
  <2>. QED
    BY <2>1, <2>2 DEF IInv
<1>2. CASE \E h \in Late : RegisterLate(h)
  <2>1. PICK h \in Late : RegisterLate(h)
    BY <1>2
  <2>2. /\ registry' = Registered(h) /\ phase = "game"
        /\ UNCHANGED <<boot, frames>>
    BY <2>1 DEF RegisterLate, boot
  <2>3. h \in AllHandlers
    BY DEF AllHandlers
  <2>4. /\ TableOK(Registered(h), patches)
        /\ \A f \in Frame : FrameOK(f, registry, patches) => FrameOK(f, Registered(h), patches)
        /\ \A k \in Keys : Served(k, registry, patches) => Served(k, Registered(h), patches)
    BY <2>3, RegistrationKeeps DEF IInv
  <2>5. BootOK' /\ TableOK(registry, patches)'
    BY <2>2, <2>4 DEF IInv, BootOK, boot
  <2>6. InstalledOK'
    BY <2>2, <2>4 DEF IInv, InstalledOK, boot
  <2>7. FramesOK'
    <3>1. frames \in Seq(Frame) /\ \A n \in 1 .. Len(frames) : frames[n] \in Frame
      BY DEF IInv, FramesOK
    <3>. QED
      BY <2>2, <2>4, <3>1 DEF IInv, FramesOK, boot
  <2>. QED
    BY <2>5, <2>6, <2>7 DEF IInv
<1>3. UNCHANGED <<boot, registry>> \/ \E h \in Late : RegisterLate(h)
  BY DEF GameNext, Call, CallHandler, PrefixContinues, PrefixThrows, PrefixesDone, PrefixSkips,
         CallOriginal, OriginalReturns, OriginalThrows, PostfixReturns, PostfixThrows, Leave
<1>. QED
  BY <1>1, <1>2, <1>3

LEMMA IInvHolds == Spec => []IInv
<1>1. IInv /\ [Next]_vars => IInv'
  <2>1. CASE Next
    BY <2>1, BootKeeps, GameKeeps DEF Next
  <2>2. CASE UNCHANGED vars
    BY <2>2 DEF vars, IInv, BootOK, InstalledOK, FramesOK
  <2>. QED
    BY <2>1, <2>2
<1>. QED
  BY <1>1, InitEstablishes, PTL DEF Spec

-----------------------------------------------------------------------------
(* In every state a target's handle is -1 or that of a patch made at the     *)
(* target's own address for its own receiver: no registration, whenever it   *)
(* comes, and no installation ever lets a key's handlers wrap a function     *)
(* that is another key's.                                                    *)
THEOREM TargetsStayConsistent == Spec => []TargetsConsistent
<1>1. IInv => TargetsConsistent
  <2>. SUFFICES ASSUME IInv PROVE TargetsConsistent
    OBVIOUS
  <2>1. TypeOK
    BY DEF IInv, BootOK, TableOK, FramesOK, TypeOK, Patch
  <2>2. HandleServesItsKey
    <3>. SUFFICES ASSUME NEW k \in Keys, registry[k] # NULL, registry[k].handle >= 0
                  PROVE  /\ registry[k].handle < Len(patches)
                         /\ patches[registry[k].handle + 1]
                              = [addr |-> AddrOf[k], receiver |-> registry[k].receiver]
                         /\ registry[k].receiver.key = k
      BY DEF HandleServesItsKey
    <3>1. TableOK(registry, patches)
      BY DEF IInv
    <3>2. patches \in Seq(Patch)
      BY <3>1 DEF TableOK
    <3>3. /\ registry[k].receiver.key = k /\ registry[k].handle \in -1 .. Len(patches) - 1
          /\ patches[registry[k].handle + 1] = [addr |-> AddrOf[k], receiver |-> registry[k].receiver]
      BY <3>1 DEF TableOK
    <3>4. Len(patches) \in Nat
      BY <3>2
    <3>. QED
      BY <3>3, <3>4
  <2>. QED
    BY <2>1, <2>2 DEF TargetsConsistent
<1>. QED
  BY <1>1, IInvHolds, PTL

(* As far as the installing loop has come, also if it ends there, spinning,  *)
(* every target with handlers from the mods' loading is live, or is itself   *)
(* to blame: however many mods were skipped or threw and however many other  *)
(* targets were not resolved, were refused or were one too many.             *)
THEOREM BadTargetsCostNoOther == Spec => []OneBadTargetIsNotFatal
<1>1. IInv => OneBadTargetIsNotFatal
  BY DEF IInv, InstalledOK, OneBadTargetIsNotFatal, Served
<1>. QED
  BY <1>1, IInvHolds, PTL

(* In every dispatch that has come to its postfixes, however deep it is      *)
(* nested, the function that the game called has run exactly once, or not at *)
(* all if a prefix skipped it, and a call not skipped has a result.          *)
THEOREM OriginalRunsOnce == Spec => []OriginalOnceUnlessSkipped
<1>1. IInv => OriginalOnceUnlessSkipped
  <2>. SUFFICES ASSUME IInv PROVE OriginalOnceUnlessSkipped
    OBVIOUS
  <2>1. DOMAIN frames = 1 .. Len(frames)
    BY DEF IInv, FramesOK
  <2>2. ASSUME NEW n \in 1 .. Len(frames), frames[n].stage = "postfix"
        PROVE  /\ frames[n].ran = IF frames[n].skip THEN <<>> ELSE <<frames[n].addr>>
               /\ ~frames[n].skip => frames[n].result # NULL
    BY <2>2 DEF IInv, FramesOK, FrameOK
  <2>. QED
    BY <2>1, <2>2 DEF OriginalOnceUnlessSkipped
<1>. QED
  BY <1>1, IInvHolds, PTL

-----------------------------------------------------------------------------
(* The order of handlers. *)

(* Where loading has come to: which mod, and how many of its handlers it has *)
(* registered.                                                               *)
Current == Len(ModOrder) - Len(mods) + 1
Own == Hooks[ModOrder[Current]]
Progress == IF init = NULL THEN 0 ELSE Len(Own) - Len(init)

LoadingAt ==
  /\ phase = "loading" =>
       /\ ready /\ Len(mods) <= Len(ModOrder)
       /\ \A x \in 1 .. Len(mods) : mods[x] = ModOrder[Len(ModOrder) - Len(mods) + x]
  /\ init # NULL =>
       /\ Len(init) <= Len(Own)
       /\ \A x \in 1 .. Len(init) : init[x] = Own[Len(Own) - Len(init) + x]

RegisteredEarlier(h) ==
  \E m \in DOMAIN ModOrder : \E i \in DOMAIN Hooks[ModOrder[m]] :
    /\ h = Hooks[ModOrder[m]][i]
    /\ m < Current \/ (m = Current /\ i <= Progress)

(* A target's handlers of one kind: its own, each once, in load order.       *)
ListOK(s, k, isPrefix) ==
  /\ IsInjective(s)
  /\ \A x \in DOMAIN s : s[x].key = k /\ s[x].prefix = isPrefix
  /\ \A x, y \in DOMAIN s :
       x < y /\ s[x] \in HookHandlers /\ s[y] \in HookHandlers => LoadedBefore(s[x], s[y])

TargetOK(t, k) == ListOK(t.prefixes, k, TRUE) /\ ListOK(t.postfixes, k, FALSE)
HandlersIn(t) == Range(t.prefixes) \cup Range(t.postfixes)

ListsOK ==
  \A k \in Keys : registry[k] # NULL =>
    /\ TargetOK(registry[k], k)
    /\ phase = "loading" => \A h \in HandlersIn(registry[k]) : RegisteredEarlier(h)

(* A dispatch's calls so far: some first prefixes of its target t, then the  *)
(* postfixes up to the one it is at.  Targets only grow meanwhile.           *)
GrownFrom(s, t) == Len(t) <= Len(s) /\ \A x \in 1 .. Len(t) : s[x] = t[x]
Reached(f) == IF f.calling THEN f.i ELSE f.i - 1

Traces(f, t, p, q) ==
  /\ p \in 0 .. Len(t.prefixes) /\ q \in 0 .. Len(t.postfixes) /\ Len(f.called) = p + q
  /\ \A x \in 1 .. p : f.called[x] = t.prefixes[x]
  /\ \A x \in 1 .. q : f.called[p + x] = t.postfixes[x]
  /\ f.stage = "prefix" => p = Reached(f) /\ q = 0
  /\ f.stage = "original" => q = 0
  /\ f.stage = "postfix" => q = Reached(f)
  /\ f.stage # "prefix" /\ ~f.skip => Len(f.present.prefixes) <= p

TraceOK(f, t) ==
  /\ GrownFrom(t.prefixes, f.present.prefixes) /\ GrownFrom(t.postfixes, f.present.postfixes)
  /\ \E p, q \in Nat : Traces(f, t, p, q)

FramesTraced == \A n \in 1 .. Len(frames) : TraceOK(frames[n], registry[frames[n].key])

OrderInv == IInv /\ LoadingAt /\ ListsOK /\ FramesTraced

-----------------------------------------------------------------------------
LEMMA Appending ==
  ASSUME NEW S, NEW s \in Seq(S), NEW e \in S
  PROVE  /\ Append(s, e) \in Seq(S) /\ Len(Append(s, e)) = Len(s) + 1 /\ Len(s) \in Nat
         /\ DOMAIN s = 1 .. Len(s) /\ DOMAIN Append(s, e) = 1 .. Len(s) + 1
         /\ \A i \in 1 .. Len(s) : Append(s, e)[i] = s[i]
         /\ Append(s, e)[Len(s) + 1] = e
         /\ Range(Append(s, e)) = Range(s) \cup {e}
         /\ GrownFrom(Append(s, e), s)
<1>1. /\ Append(s, e) \in Seq(S) /\ Len(Append(s, e)) = Len(s) + 1 /\ Len(s) \in Nat
      /\ \A i \in 1 .. Len(s) : Append(s, e)[i] = s[i]
      /\ Append(s, e)[Len(s) + 1] = e
      /\ DOMAIN s = 1 .. Len(s) /\ DOMAIN Append(s, e) = 1 .. Len(s) + 1
  OBVIOUS
<1>2. Range(Append(s, e)) \subseteq Range(s) \cup {e}
  BY <1>1 DEF Range
<1>3. ASSUME NEW i \in DOMAIN s PROVE s[i] \in Range(Append(s, e))
  BY <1>1 DEF Range
<1>4. e \in Range(Append(s, e))
  <2>1. Len(s) + 1 \in DOMAIN Append(s, e)
    BY <1>1
  <2>. QED
    BY <1>1, <2>1 DEF Range
<1>5. Range(Append(s, e)) = Range(s) \cup {e}
  BY <1>2, <1>3, <1>4 DEF Range
<1>6. GrownFrom(Append(s, e), s)
  BY <1>1 DEF GrownFrom
<1>. QED
  BY <1>1, <1>5, <1>6

(* A handler that is new to a list and loaded after its handlers goes to its *)
(* end.                                                                      *)
LEMMA ListGrows ==
  ASSUME NEW k, NEW b, NEW s \in Seq(AllHandlers), NEW h \in AllHandlers, ListOK(s, k, b),
         h.key = k, h.prefix = b, h \notin Range(s),
         h \in HookHandlers => \A g \in Range(s) : g \in HookHandlers => LoadedBefore(g, h)
  PROVE  ListOK(Push(s, h), k, b)
<1>. DEFINE n == Len(s)
            r == Append(s, h)
<1>1. /\ n \in Nat /\ DOMAIN s = 1 .. n /\ DOMAIN r = 1 .. n + 1
      /\ \A i \in 1 .. n : r[i] = s[i]
      /\ r[n + 1] = h
  BY Appending
<1>2. \A i \in 1 .. n : r[i] \in Range(s)
  BY <1>1 DEF Range
<1>. HIDE DEF r, n
<1>3. ASSUME NEW x \in DOMAIN r, NEW y \in DOMAIN r, x < y
      PROVE  /\ r[x] # r[y]
             /\ r[x] \in HookHandlers /\ r[y] \in HookHandlers => LoadedBefore(r[x], r[y])
  <2>1. x \in 1 .. n /\ r[x] = s[x] /\ r[x] \in Range(s)
    BY <1>1, <1>2, <1>3
  <2>2. CASE y = n + 1
    BY <1>1, <2>1, <2>2
  <2>3. CASE y # n + 1
    <3>1. y \in 1 .. n /\ r[y] = s[y]
      BY <1>1, <2>3
    <3>2. x \in DOMAIN s /\ y \in DOMAIN s /\ x # y
      BY <1>1, <1>3, <2>1, <3>1
    <3>. QED
      BY <1>3, <2>1, <3>1, <3>2 DEF ListOK, IsInjective
  <2>. QED
    BY <2>2, <2>3
<1>4. \A x \in DOMAIN r : r[x].key = k /\ r[x].prefix = b
  BY <1>1 DEF ListOK
<1>5. \A x, y \in DOMAIN r : r[x] = r[y] => x = y
  <2>1. DOMAIN r \subseteq Int
    BY <1>1
  <2>. QED
    BY <1>3, <2>1
<1>6. ListOK(r, k, b)
  BY <1>3, <1>4, <1>5 DEF ListOK, IsInjective
<1>. QED
  BY <1>6 DEF Push, r

LEMMA EmptyList == \A k, b : ListOK(<<>>, k, b)
  BY DEF ListOK, IsInjective

(* What a registration does to the lists: a handler more at the end of one   *)
(* of the lists of its key.                                                  *)
Lists(k, r) == IF r[k] = NULL THEN [prefixes |-> <<>>, postfixes |-> <<>>]
               ELSE [prefixes |-> r[k].prefixes, postfixes |-> r[k].postfixes]

LEMMA ListsAfter ==
  ASSUME NEW h \in AllHandlers, ready, registry \in [Keys -> Targets \cup {NULL}]
  PROVE  LET r == Registered(h)
             k == h.key
             old == Lists(k, registry)
         IN  /\ k \in Keys /\ r[k] # NULL /\ r[k] \in Targets
             /\ old.prefixes \in Seq(AllHandlers) /\ old.postfixes \in Seq(AllHandlers)
             /\ r[k].prefixes = IF h.prefix THEN Push(old.prefixes, h) ELSE old.prefixes
             /\ r[k].postfixes = IF h.prefix THEN old.postfixes ELSE Push(old.postfixes, h)
             /\ \A j \in Keys : j # k => r[j] = registry[j]
<1>. DEFINE r == Registered(h)
            k == h.key
            old == Lists(k, registry)
            t == IF registry[k] = NULL THEN NewTarget(h) ELSE registry[k]
<1>1. /\ k \in Keys /\ r[k] # NULL /\ r[k] \in Targets
      /\ \A j \in Keys : j # k => r[j] = registry[j]
  BY HandlerJoins
<1>2. r[k] = WithHandler(t, h)
  BY <1>1 DEF Registered
<1>3. t \in Targets /\ t.prefixes = old.prefixes /\ t.postfixes = old.postfixes
  <2>1. CASE registry[k] = NULL
    <3>1. NewTarget(h) \in Targets
      BY HandlerAssumption DEF NewTarget, Targets
    <3>. QED
      BY <2>1, <3>1 DEF Lists, NewTarget
  <2>2. CASE registry[k] # NULL
    BY <1>1, <2>2 DEF Lists
  <2>. QED
    BY <2>1, <2>2
<1>. HIDE DEF t, old
<1>4. /\ r[k].prefixes = IF h.prefix THEN Push(old.prefixes, h) ELSE old.prefixes
      /\ r[k].postfixes = IF h.prefix THEN old.postfixes ELSE Push(old.postfixes, h)
  BY <1>2, <1>3 DEF WithHandler, Targets
<1>5. old.prefixes \in Seq(AllHandlers) /\ old.postfixes \in Seq(AllHandlers)
  BY <1>3 DEF Targets
<1>. QED
  BY <1>1, <1>4, <1>5 DEF old

(* A dispatch's calls are as much those of a target that has grown.          *)
LEMMA TraceGrows ==
  ASSUME NEW f \in Frame, NEW t \in Targets, NEW u \in Targets, TraceOK(f, t),
         GrownFrom(u.prefixes, t.prefixes), GrownFrom(u.postfixes, t.postfixes)
  PROVE  TraceOK(f, u)
<1>1. /\ Len(t.prefixes) \in Nat /\ Len(t.postfixes) \in Nat
      /\ Len(u.prefixes) \in Nat /\ Len(u.postfixes) \in Nat
      /\ Len(f.present.prefixes) \in Nat /\ Len(f.present.postfixes) \in Nat
  BY DEF Targets, Frame
<1>2. /\ GrownFrom(u.prefixes, f.present.prefixes) /\ GrownFrom(u.postfixes, f.present.postfixes)
  BY <1>1 DEF TraceOK, GrownFrom
<1>3. PICK p, q \in Nat : Traces(f, t, p, q)
  BY DEF TraceOK
<1>4. Traces(f, u, p, q)
  <2>1. p \in 0 .. Len(u.prefixes) /\ q \in 0 .. Len(u.postfixes)
    BY <1>1, <1>3 DEF Traces, GrownFrom
  <2>2. \A x \in 1 .. p : f.called[x] = u.prefixes[x]
    BY <1>1, <1>3 DEF Traces, GrownFrom
  <2>3. \A x \in 1 .. q : f.called[p + x] = u.postfixes[x]
    BY <1>1, <1>3 DEF Traces, GrownFrom
  <2>. QED
    BY <1>3, <2>1, <2>2, <2>3 DEF Traces
<1>. QED
  BY <1>2, <1>4 DEF TraceOK

(* A registration of a handler that is new to its target and loaded after    *)
(* the target's handlers leaves every target in order.                       *)
LEMMA RegistrationOrders ==
  ASSUME NEW h \in AllHandlers, registry \in [Keys -> Targets \cup {NULL}],
         \A k \in Keys : registry[k] # NULL => TargetOK(registry[k], k),
         registry[h.key] # NULL =>
           /\ h \notin HandlersIn(registry[h.key])
           /\ h \in HookHandlers =>
                \A g \in HandlersIn(registry[h.key]) : g \in HookHandlers => LoadedBefore(g, h)
  PROVE  \A k \in Keys :
           /\ Registered(h)[k] # NULL =>
                /\ TargetOK(Registered(h)[k], k)
                /\ \A g \in HandlersIn(Registered(h)[k]) :
                     g = h \/ (registry[k] # NULL /\ g \in HandlersIn(registry[k]))
           /\ registry[k] # NULL =>
                /\ Registered(h)[k] # NULL /\ Registered(h)[k] \in Targets
                /\ GrownFrom(Registered(h)[k].prefixes, registry[k].prefixes)
                /\ GrownFrom(Registered(h)[k].postfixes, registry[k].postfixes)
<1>. DEFINE r == Registered(h)
            old == Lists(h.key, registry)
<1>1. \A k \in Keys : registry[k] # NULL =>
        /\ registry[k] \in Targets
        /\ GrownFrom(registry[k].prefixes, registry[k].prefixes)
        /\ GrownFrom(registry[k].postfixes, registry[k].postfixes)
  BY DEF Targets, GrownFrom
<1>2. CASE ~ready
  <2>1. r = registry
    BY <1>2 DEF Registered
  <2>. QED
    BY <1>1, <2>1
<1>3. CASE ready
  <2>1. /\ h.key \in Keys /\ r[h.key] # NULL /\ r[h.key] \in Targets
        /\ old.prefixes \in Seq(AllHandlers) /\ old.postfixes \in Seq(AllHandlers)
        /\ r[h.key].prefixes = IF h.prefix THEN Push(old.prefixes, h) ELSE old.prefixes
        /\ r[h.key].postfixes = IF h.prefix THEN old.postfixes ELSE Push(old.postfixes, h)
        /\ \A j \in Keys : j # h.key => r[j] = registry[j]
    BY <1>3, ListsAfter
  <2>2. h.prefix \in BOOLEAN
    BY HandlerAssumption
  <2>3. /\ ListOK(old.prefixes, h.key, TRUE) /\ ListOK(old.postfixes, h.key, FALSE)
        /\ Range(old.prefixes) \cup Range(old.postfixes)
             = IF registry[h.key] = NULL THEN {} ELSE HandlersIn(registry[h.key])
    <3>1. CASE registry[h.key] = NULL
      <4>1. old.prefixes = <<>> /\ old.postfixes = <<>>
        BY <3>1 DEF Lists
      <4>2. Range(<<>>) = {}
        BY DEF Range
      <4>. QED
        BY <3>1, <4>1, <4>2, EmptyList
    <3>2. CASE registry[h.key] # NULL
      <4>1. old.prefixes = registry[h.key].prefixes /\ old.postfixes = registry[h.key].postfixes
        BY <3>2 DEF Lists
      <4>. QED
        BY <2>1, <3>2, <4>1 DEF TargetOK, HandlersIn
    <3>. QED
      BY <3>1, <3>2
  <2>. HIDE DEF old, r
  <2>4. /\ h \notin Range(old.prefixes) \cup Range(old.postfixes)
        /\ h \in HookHandlers =>
             \A g \in Range(old.prefixes) \cup Range(old.postfixes) :
               g \in HookHandlers => LoadedBefore(g, h)
    BY <2>3
  <2>5. /\ TargetOK(r[h.key], h.key)
        /\ HandlersIn(r[h.key]) = Range(old.prefixes) \cup Range(old.postfixes) \cup {h}
        /\ GrownFrom(r[h.key].prefixes, old.prefixes)
        /\ GrownFrom(r[h.key].postfixes, old.postfixes)
    <3>1. GrownFrom(old.prefixes, old.prefixes) /\ GrownFrom(old.postfixes, old.postfixes)
      BY <2>1 DEF GrownFrom
    <3>2. CASE h.prefix
      <4>1. ListOK(Push(old.prefixes, h), h.key, TRUE)
        BY <2>1, <2>2, <2>3, <2>4, <3>2, ListGrows
      <4>2. /\ Range(Push(old.prefixes, h)) = Range(old.prefixes) \cup {h}
            /\ GrownFrom(Push(old.prefixes, h), old.prefixes)
        BY <2>1, Appending DEF Push
      <4>. QED
        BY <2>1, <2>3, <3>1, <3>2, <4>1, <4>2 DEF TargetOK, HandlersIn
    <3>3. CASE ~h.prefix
      <4>1. ListOK(Push(old.postfixes, h), h.key, FALSE)
        BY <2>1, <2>2, <2>3, <2>4, <3>3, ListGrows
      <4>2. /\ Range(Push(old.postfixes, h)) = Range(old.postfixes) \cup {h}
            /\ GrownFrom(Push(old.postfixes, h), old.postfixes)
        BY <2>1, Appending DEF Push
      <4>. QED
        BY <2>1, <2>3, <3>1, <3>3, <4>1, <4>2 DEF TargetOK, HandlersIn
    <3>. QED
      BY <3>2, <3>3
  <2>6. registry[h.key] # NULL =>
          old.prefixes = registry[h.key].prefixes /\ old.postfixes = registry[h.key].postfixes
    BY DEF Lists, old
  <2>7. ASSUME NEW k \in Keys
        PROVE  /\ r[k] # NULL =>
                    /\ TargetOK(r[k], k)
                    /\ \A g \in HandlersIn(r[k]) :
                         g = h \/ (registry[k] # NULL /\ g \in HandlersIn(registry[k]))
               /\ registry[k] # NULL =>
                    /\ r[k] # NULL /\ r[k] \in Targets
                    /\ GrownFrom(r[k].prefixes, registry[k].prefixes)
                    /\ GrownFrom(r[k].postfixes, registry[k].postfixes)
    <3>1. CASE k = h.key
      <4>1. \A g \in HandlersIn(r[k]) :
              g = h \/ (registry[k] # NULL /\ g \in HandlersIn(registry[k]))
        BY <2>3, <2>5, <3>1
      <4>. QED
        BY <2>1, <2>5, <2>6, <3>1, <4>1
    <3>2. CASE k # h.key
      <4>1. r[k] = registry[k]
        BY <2>1, <3>2
      <4>. QED
        BY <1>1, <4>1
    <3>. QED
      BY <3>1, <3>2
  <2>. QED
    BY <2>7 DEF r
<1>. QED
  BY <1>2, <1>3

-----------------------------------------------------------------------------
(* The mod that loading is at, and what it has registered of its own.        *)
LEMMA LoadingPlace ==
  ASSUME IInv, LoadingAt, phase = "loading", mods # <<>>
  PROVE  /\ Current \in DOMAIN ModOrder /\ Len(mods) \in Nat \ {0} /\ Len(ModOrder) \in Nat
         /\ ModOrder[Current] = Head(mods) /\ Head(mods) \in DOMAIN Hooks
         /\ Own \in Seq(HookHandlers) /\ Progress \in 0 .. Len(Own)
<1>1. /\ mods \in Seq(DOMAIN Hooks) /\ ModOrder \in Seq(DOMAIN Hooks)
      /\ init # NULL => init \in Seq(HookHandlers)
  BY LoaderAssumption DEF IInv, BootOK
<1>2. Len(mods) \in Nat \ {0} /\ Head(mods) = mods[1] /\ Head(mods) \in DOMAIN Hooks
  BY <1>1
<1>3. Len(ModOrder) \in Nat /\ DOMAIN ModOrder = 1 .. Len(ModOrder)
  BY <1>1
<1>4. Len(mods) <= Len(ModOrder) /\ mods[1] = ModOrder[Len(ModOrder) - Len(mods) + 1]
  BY <1>2 DEF LoadingAt
<1>5. Current \in DOMAIN ModOrder /\ ModOrder[Current] = Head(mods)
  BY <1>2, <1>3, <1>4 DEF Current
<1>6. Own \in Seq(HookHandlers)
  BY <1>2, <1>5, HandlerAssumption DEF Own
<1>7. Progress \in 0 .. Len(Own)
  <2>1. Len(Own) \in Nat
    BY <1>6
  <2>2. CASE init = NULL
    BY <2>1, <2>2 DEF Progress
  <2>3. CASE init # NULL
    <3>1. Len(init) \in Nat /\ Len(init) <= Len(Own)
      BY <1>1, <2>3 DEF LoadingAt
    <3>. QED
      BY <2>1, <2>3, <3>1 DEF Progress
  <2>. QED
    BY <2>2, <2>3
<1>. QED
  BY <1>2, <1>3, <1>5, <1>6, <1>7

(* A mod is done with, or skipped: loading is at the next one.               *)
LEMMA NextMod ==
  ASSUME IInv, LoadingAt, phase = "loading", mods # <<>>, mods' = Tail(mods), init' = NULL,
         UNCHANGED <<ready, phase>>
  PROVE  LoadingAt' /\ \A h : RegisteredEarlier(h) => RegisteredEarlier(h)'
<1>1. /\ mods \in Seq(DOMAIN Hooks) /\ Len(mods) \in Nat \ {0} /\ Len(ModOrder) \in Nat
      /\ Current \in Nat
  <2>1. Len(ModOrder) \in Nat /\ Len(mods) \in Nat \ {0} /\ Current \in DOMAIN ModOrder
    BY LoadingPlace
  <2>2. DOMAIN ModOrder = 1 .. Len(ModOrder)
    BY LoaderAssumption
  <2>. QED
    BY <2>1, <2>2 DEF IInv, BootOK
<1>2. /\ Len(mods') = Len(mods) - 1
      /\ \A x \in 1 .. Len(mods) - 1 : mods'[x] = mods[x + 1]
  BY <1>1
<1>3. LoadingAt'
  BY <1>1, <1>2 DEF LoadingAt
<1>4. Current' = Current + 1
  BY <1>1, <1>2 DEF Current
<1>5. ASSUME NEW h, RegisteredEarlier(h) PROVE RegisteredEarlier(h)'
  <2>1. PICK m \in DOMAIN ModOrder : \E i \in DOMAIN Hooks[ModOrder[m]] :
          h = Hooks[ModOrder[m]][i] /\ (m < Current \/ (m = Current /\ i <= Progress))
    BY <1>5 DEF RegisteredEarlier
  <2>2. m < Current + 1
    <3>1. m \in Nat
      BY LoaderAssumption
    <3>. QED
      BY <1>1, <2>1, <3>1
  <2>. QED
    BY <1>4, <2>1, <2>2 DEF RegisteredEarlier
<1>. QED
  BY <1>3, <1>5

(* A mod's __init__ registers the next of its handlers, which no target has  *)
(* yet and which comes after all that any target has.                        *)
LEMMA NextHandler ==
  ASSUME IInv, LoadingAt, RegisterHook
  PROVE  /\ LoadingAt' /\ \A g : g = Head(init) => RegisteredEarlier(g)'
         /\ \A g : RegisteredEarlier(g) => RegisteredEarlier(g)'
         /\ \A g : RegisteredEarlier(g) => g # Head(init) /\ LoadedBefore(g, Head(init))
<1>. DEFINE h == Head(init)
<1>1. /\ phase = "loading" /\ init # NULL /\ init # <<>> /\ init' = Tail(init)
      /\ UNCHANGED <<ready, phase, mods>>
  BY DEF RegisterHook
<1>2. init \in Seq(HookHandlers) /\ mods # <<>>
  BY <1>1 DEF IInv, BootOK
<1>3. /\ Current \in DOMAIN ModOrder /\ Own \in Seq(HookHandlers)
      /\ ModOrder[Current] \in DOMAIN Hooks
  BY <1>1, <1>2, LoadingPlace
<1>4. /\ DOMAIN ModOrder \subseteq Nat /\ Len(Own) \in Nat /\ DOMAIN Own = 1 .. Len(Own)
      /\ Current \in Nat
  BY <1>3, LoaderAssumption
<1>5. Len(init) \in Nat \ {0} /\ h = init[1] /\ Tail(init) \in Seq(HookHandlers)
  BY <1>1, <1>2
<1>6. Len(init) <= Len(Own) /\ h = Own[Len(Own) - Len(init) + 1]
  BY <1>1, <1>5 DEF LoadingAt
<1>7. Progress = Len(Own) - Len(init) /\ Progress + 1 \in DOMAIN Own /\ Progress \in Nat
      /\ h = Own[Progress + 1]
  BY <1>1, <1>4, <1>5, <1>6 DEF Progress
<1>8. Own = Hooks[ModOrder[Current]]
  BY DEF Own
<1>9. init' # NULL
  BY <1>1, <1>5, HandlerAssumption
<1>10. Current' = Current /\ Own' = Own
  BY <1>1 DEF Current, Own
<1>11. Len(init') = Len(init) - 1 /\ \A x \in 1 .. Len(init) - 1 : init'[x] = init[x + 1]
  BY <1>1, <1>2, <1>5
<1>12. Progress' = Progress + 1
  <2>1. Len(Own') = Len(Own)
    BY <1>10
  <2>2. Progress' = Len(Own') - Len(init')
    BY <1>9 DEF Progress
  <2>. QED
    BY <1>4, <1>5, <1>7, <1>11, <2>1, <2>2
<1>13. LoadingAt'
  <2>1. Len(init') <= Len(Own')
    BY <1>4, <1>5, <1>6, <1>10, <1>11
  <2>2. ASSUME NEW x \in 1 .. Len(init')
        PROVE  init'[x] = Own'[Len(Own') - Len(init') + x]
    <3>1. init[x + 1] = Own[Len(Own) - Len(init) + (x + 1)]
      BY <1>1, <1>5, <1>11 DEF LoadingAt
    <3>. QED
      BY <1>4, <1>5, <1>10, <1>11, <3>1
  <2>. QED
    BY <1>1, <2>1, <2>2 DEF LoadingAt
<1>14. ASSUME NEW g, g = h PROVE RegisteredEarlier(g)'
  BY <1>3, <1>7, <1>8, <1>10, <1>12, <1>14 DEF RegisteredEarlier
<1>15. ASSUME NEW g, RegisteredEarlier(g)
       PROVE  RegisteredEarlier(g)' /\ g # h /\ LoadedBefore(g, h)
  <2>1. PICK m \in DOMAIN ModOrder : \E i \in DOMAIN Hooks[ModOrder[m]] :
          g = Hooks[ModOrder[m]][i] /\ (m < Current \/ (m = Current /\ i <= Progress))
    BY <1>15 DEF RegisteredEarlier
  <2>2. PICK i \in DOMAIN Hooks[ModOrder[m]] :
          g = Hooks[ModOrder[m]][i] /\ (m < Current \/ (m = Current /\ i <= Progress))
    BY <2>1
  <2>3. m \in Nat /\ ModOrder[m] \in DOMAIN Hooks
    BY LoaderAssumption
  <2>4. i \in Nat
    BY <2>3, HandlerAssumption
  <2>5. m < Current \/ (m = Current /\ i < Progress + 1)
    BY <1>7, <2>2, <2>4
  <2>6. LoadedBefore(g, h)
    BY <1>3, <1>7, <1>8, <2>2, <2>5 DEF LoadedBefore
  <2>7. RegisteredEarlier(g)'
    BY <1>7, <1>10, <1>12, <2>2, <2>4 DEF RegisteredEarlier
  <2>8. g # h
    <3>1. CASE m = Current
      <4>1. IsInjective(Own)
        BY <1>3, <1>8, HandlerAssumption
      <4>2. i # Progress + 1 /\ i \in DOMAIN Own
        BY <1>4, <1>7, <1>8, <2>3, <2>5, <3>1, <2>4
      <4>. QED
        BY <1>7, <1>8, <2>2, <3>1, <4>1, <4>2 DEF IsInjective
    <3>2. CASE m # Current
      <4>1. ModOrder[m] # ModOrder[Current]
        BY <1>3, <3>2, HandlerAssumption DEF IsInjective
      <4>2. g \in Range(Hooks[ModOrder[m]]) /\ h \in Range(Hooks[ModOrder[Current]])
        BY <1>7, <1>8, <2>2 DEF Range
      <4>3. g.mod = ModOrder[m] /\ h.mod = ModOrder[Current]
        BY <1>3, <2>3, <4>2, HandlerAssumption
      <4>. QED
        BY <4>1, <4>3
    <3>. QED
      BY <3>1, <3>2
  <2>. QED
    BY <2>6, <2>7, <2>8
<1>. QED
  BY <1>13, <1>14, <1>15

(* Each turn of loading and installing keeps the lists in the order of       *)
(* loading.                                                                  *)
LEMMA BootOrders == OrderInv /\ BootNext => OrderInv'
<1>. SUFFICES ASSUME OrderInv, BootNext PROVE OrderInv'
  OBVIOUS
<1>1. IInv /\ LoadingAt /\ ListsOK /\ IInv'
  BY BootKeeps DEF OrderInv
<1>2. FramesTraced'
  <2>1. phase # "game" /\ UNCHANGED frames
    BY DEF BootNext, LoaderReady, NoLoader, SkipMod, LoadMod, RegisterHook, LoadEnds,
           ModsLoaded, Install, Spin, BootComplete
  <2>2. frames' = <<>>
    BY <1>1, <2>1 DEF IInv, FramesOK
  <2>3. 1 .. Len(frames') = {}
    BY <2>2
  <2>. QED
    BY <2>3 DEF FramesTraced
<1>3. registry \in [Keys -> Targets \cup {NULL}] /\ (phase # "loading" => init = NULL)
  BY <1>1 DEF IInv, TableOK, BootOK
(* Nothing registered, and nothing forgotten of what was. *)
<1>4. ASSUME UNCHANGED registry, phase' = phase, \A h : RegisteredEarlier(h) => RegisteredEarlier(h)'
      PROVE  ListsOK'
  BY <1>1, <1>4 DEF ListsOK
<1>5. CASE LoaderReady
  <2>1. LoadingAt'
    <3>1. /\ ready' /\ mods' = ModOrder /\ init' = NULL /\ Len(ModOrder) \in Nat
      BY <1>3, <1>5, LoaderAssumption DEF LoaderReady
    <3>. QED
      BY <3>1 DEF LoadingAt
  <2>2. ListsOK'
    BY <1>1, <1>5 DEF LoaderReady, ListsOK, IInv, BootOK
  <2>. QED
    BY <1>1, <1>2, <2>1, <2>2 DEF OrderInv
<1>6. CASE NoLoader \/ ModsLoaded \/ BootComplete \/ \E k \in Keys : Spin(k)
  <2>1. /\ phase' # "loading" /\ init' = NULL /\ registry' = registry
    BY <1>3, <1>6 DEF NoLoader, ModsLoaded, BootComplete, Spin
  <2>2. LoadingAt' /\ ListsOK'
    BY <1>1, <2>1 DEF LoadingAt, ListsOK
  <2>. QED
    BY <1>1, <1>2, <2>2 DEF OrderInv
<1>7. CASE SkipMod \/ LoadEnds
  <2>1. /\ phase = "loading" /\ mods # <<>> /\ mods' = Tail(mods) /\ init' = NULL
        /\ UNCHANGED <<ready, phase, registry>>
    BY <1>1, <1>7 DEF SkipMod, LoadEnds, IInv, BootOK
  <2>2. LoadingAt' /\ \A h : RegisteredEarlier(h) => RegisteredEarlier(h)'
    BY <1>1, <2>1, NextMod
  <2>. QED
    BY <1>1, <1>2, <1>4, <2>1, <2>2 DEF OrderInv
<1>8. CASE LoadMod
  <2>1. /\ phase = "loading" /\ init = NULL /\ mods # <<>> /\ init' = Hooks[Head(mods)]
        /\ UNCHANGED <<ready, phase, mods, registry>>
    BY <1>8 DEF LoadMod
  <2>2. /\ ModOrder[Current] = Head(mods) /\ Own \in Seq(HookHandlers) /\ Len(Own) \in Nat
        /\ Head(mods) \in DOMAIN Hooks
    BY <1>1, <2>1, LoadingPlace
  <2>3. Own = init' /\ Own' = Own /\ Current' = Current /\ init' # NULL
    BY <2>1, <2>2, HandlerAssumption DEF Own, Current
  <2>4. Progress = 0 /\ Progress' = 0
    <3>1. Len(Own') = Len(init') /\ Len(init') \in Nat
      BY <2>2, <2>3
    <3>. QED
      BY <2>1, <2>3, <3>1 DEF Progress
  <2>5. LoadingAt'
    BY <1>1, <2>1, <2>2, <2>3 DEF LoadingAt
  <2>6. \A h : RegisteredEarlier(h) => RegisteredEarlier(h)'
    BY <2>3, <2>4 DEF RegisteredEarlier
  <2>. QED
    BY <1>1, <1>2, <1>4, <2>1, <2>5, <2>6 DEF OrderInv
<1>9. CASE RegisterHook
  <2>. DEFINE h == Head(init)
  <2>1. /\ phase = "loading" /\ registry' = Registered(h) /\ phase' = phase
        /\ init \notin {NULL, <<>>}
    BY <1>9 DEF RegisterHook
  <2>2. h \in AllHandlers
    BY <1>1, <2>1 DEF IInv, BootOK, AllHandlers
  <2>3. /\ LoadingAt' /\ \A g : g = Head(init) => RegisteredEarlier(g)'
        /\ \A g : RegisteredEarlier(g) => RegisteredEarlier(g)'
        /\ \A g : RegisteredEarlier(g) => g # h /\ LoadedBefore(g, h)
    BY <1>1, <1>9, NextHandler
  <2>4. h.key \in Keys
    BY <2>2, HandlerAssumption DEF Receiver, Receivers
  <2>5. \A k \in Keys : registry[k] # NULL =>
          TargetOK(registry[k], k) /\ \A g \in HandlersIn(registry[k]) : RegisteredEarlier(g)
    BY <1>1, <2>1 DEF ListsOK
  <2>6. registry[h.key] # NULL =>
          /\ h \notin HandlersIn(registry[h.key])
          /\ \A g \in HandlersIn(registry[h.key]) : LoadedBefore(g, h)
    BY <2>3, <2>4, <2>5
  <2>7. \A k \in Keys : Registered(h)[k] # NULL =>
          /\ TargetOK(Registered(h)[k], k)
          /\ \A g \in HandlersIn(Registered(h)[k]) :
               g = h \/ (registry[k] # NULL /\ g \in HandlersIn(registry[k]))
    BY <1>3, <2>2, <2>5, <2>6, RegistrationOrders
  <2>8. ListsOK'
    <3>1. ASSUME NEW k \in Keys, registry'[k] # NULL
          PROVE  TargetOK(registry'[k], k)
      BY <2>1, <2>7, <3>1
    <3>2. ASSUME NEW k \in Keys, registry'[k] # NULL, NEW g \in HandlersIn(registry'[k])
          PROVE  RegisteredEarlier(g)'
      BY <2>1, <2>3, <2>5, <2>7, <3>2
    <3>. QED
      BY <3>1, <3>2 DEF ListsOK
  <2>. QED
    BY <1>1, <1>2, <2>3, <2>8 DEF OrderInv
<1>10. CASE \E k \in Keys : Install(k)
  <2>1. PICK k \in Keys : Install(k)
    BY <1>10
  <2>2. /\ phase = "installing" /\ phase' = "installing" /\ init' = init
        /\ k \in todo /\ todo \subseteq Keys
    BY <1>1, <2>1 DEF Install, IInv, BootOK
  <2>3. registry[k] # NULL /\ registry[k] \in Targets
    BY <1>1, <1>3, <2>2 DEF IInv, InstalledOK
  <2>4. \/ registry' = registry
        \/ \E x : registry' = [registry EXCEPT ![k].handle = x]
    BY <2>1 DEF Install
  <2>5. \A j \in Keys : registry'[j] # NULL =>
          /\ registry[j] # NULL /\ registry'[j].prefixes = registry[j].prefixes
          /\ registry'[j].postfixes = registry[j].postfixes
    BY <1>3, <2>3, <2>4 DEF Targets
  <2>6. ListsOK'
    BY <1>1, <2>2, <2>5 DEF ListsOK, TargetOK
  <2>7. LoadingAt'
    BY <1>3, <2>2 DEF LoadingAt
  <2>. QED
    BY <1>1, <1>2, <2>6, <2>7 DEF OrderInv
<1>. QED
  BY <1>5, <1>6, <1>7, <1>8, <1>9, <1>10 DEF BootNext

-----------------------------------------------------------------------------
LEMMA TopRetraced ==
  ASSUME IInv, FramesTraced, frames # <<>>, NEW f, TraceOK(f, registry[f.key]), SetTop(f),
         UNCHANGED registry
  PROVE  FramesTraced'
<1>. DEFINE n == Len(frames)
<1>1. frames \in Seq(Frame) /\ n \in Nat /\ n # 0
  BY DEF IInv, FramesOK
<1>2. Len(frames') = n /\ frames'[n] = f /\ \A i \in 1 .. n : i # n => frames'[i] = frames[i]
  BY <1>1 DEF SetTop
<1>3. ASSUME NEW i \in 1 .. Len(frames') PROVE TraceOK(frames'[i], registry[frames'[i].key])
  BY <1>2, <1>3 DEF FramesTraced
<1>. QED
  BY <1>3 DEF FramesTraced

(* The calls of the innermost dispatch's loops: each goes on with the next   *)
(* handler of its list, or leaves the calls as they are.                     *)
LEMMA DispatchTraces ==
  ASSUME IInv, FramesTraced,
         \/ CallHandler \/ PrefixContinues \/ PrefixThrows \/ PrefixesDone
         \/ \E result \in {NULL, "skipper"} : PrefixSkips(result)
         \/ CallOriginal \/ OriginalReturns \/ PostfixReturns \/ PostfixThrows
  PROVE  FramesTraced'
<1>. DEFINE f == Top
            t == registry[f.key]
<1>1. frames # <<>> /\ UNCHANGED <<boot, registry>>
  BY DEF CallHandler, PrefixContinues, PrefixThrows, PrefixesDone, PrefixSkips, CallOriginal,
         OriginalReturns, PostfixReturns, PostfixThrows, Running
<1>2. /\ f \in Frame /\ FrameOK(f, registry, patches) /\ t \in Targets
      /\ Handlers(f) = HandlersOf(f, registry) /\ Handlers(f) \in Seq(AllHandlers)
  BY <1>1, TopIs
<1>3. TraceOK(f, t)
  <2>1. Len(frames) \in 1 .. Len(frames) /\ f = frames[Len(frames)]
    BY <1>1 DEF IInv, FramesOK, Top, Last
  <2>. QED
    BY <2>1 DEF FramesTraced
<1>4. PICK p, q \in Nat : Traces(f, t, p, q)
  BY <1>3 DEF TraceOK
<1>5. /\ f.i \in Nat \ {0} /\ f.called \in Seq(AllHandlers) /\ f.calling \in BOOLEAN
      /\ f.stage \in {"prefix", "original", "postfix"}
      /\ Len(t.prefixes) \in Nat /\ Len(t.postfixes) \in Nat /\ Len(f.present.prefixes) \in Nat
      /\ GrownFrom(t.prefixes, f.present.prefixes) /\ GrownFrom(t.postfixes, f.present.postfixes)
  BY <1>2, <1>3 DEF Frame, Targets, TraceOK
<1>6. Handlers(f) = IF f.stage = "prefix" THEN t.prefixes ELSE t.postfixes
  BY DEF Handlers
<1>7. ASSUME NEW g, g.key = f.key, g.present = f.present, NEW p1 \in Nat, NEW q1 \in Nat,
             Traces(g, t, p1, q1), SetTop(g)
      PROVE  FramesTraced'
  <2>1. TraceOK(g, registry[g.key])
    BY <1>5, <1>7 DEF TraceOK
  <2>. QED
    BY <1>1, <1>7, <2>1, TopRetraced
<1>8. CASE CallHandler
  <2>. DEFINE e == Handlers(f)[f.i]
              g == [f EXCEPT !.calling = TRUE, !.called = Append(@, Handler)]
  <2>1. /\ SetTop(g) /\ f.stage \in {"prefix", "postfix"} /\ ~f.calling
        /\ f.i <= Len(Handlers(f)) /\ Handler = e
    BY <1>8 DEF CallHandler, Pending, Handler
  <2>2. e \in AllHandlers
    BY <1>2, <1>5, <2>1
  <2>3. /\ Len(Append(f.called, e)) = Len(f.called) + 1 /\ Len(f.called) \in Nat
        /\ \A x \in 1 .. Len(f.called) : Append(f.called, e)[x] = f.called[x]
        /\ Append(f.called, e)[Len(f.called) + 1] = e
    BY <1>5, <2>2, Appending
  <2>4. /\ g.stage = f.stage /\ g.i = f.i /\ g.key = f.key /\ g.present = f.present
        /\ g.skip = f.skip /\ g.calling /\ g.called = Append(f.called, e)
    BY <1>2, <2>1 DEF Frame
  <2>. HIDE DEF g, e
  <2>5. Reached(f) = f.i - 1 /\ Reached(g) = f.i
    BY <2>1, <2>4 DEF Reached
  <2>6. CASE f.stage = "prefix"
    <3>1. p = f.i - 1 /\ q = 0 /\ Len(f.called) = p
      BY <1>4, <2>5, <2>6 DEF Traces
    <3>2. p + 1 <= Len(t.prefixes) /\ e = t.prefixes[p + 1] /\ p + 1 = f.i
      BY <1>5, <1>6, <2>1, <2>6, <3>1 DEF e
    <3>3. \A x \in 1 .. p + 1 : g.called[x] = t.prefixes[x]
      <4>1. ASSUME NEW x \in 1 .. p + 1 PROVE g.called[x] = t.prefixes[x]
        <5>1. CASE x = p + 1
          BY <2>3, <2>4, <3>1, <3>2, <5>1
        <5>2. CASE x # p + 1
          <6>1. x \in 1 .. p
            BY <5>2
          <6>. QED
            BY <1>4, <2>3, <2>4, <3>1, <6>1 DEF Traces
        <5>. QED
          BY <5>1, <5>2
      <4>. QED
        BY <4>1
    <3>4. Traces(g, t, p + 1, 0)
      BY <1>5, <2>3, <2>4, <2>5, <2>6, <3>1, <3>2, <3>3 DEF Traces
    <3>. QED
      BY <1>7, <2>1, <2>4, <3>4
  <2>7. CASE f.stage = "postfix"
    <3>1. q = f.i - 1 /\ Len(f.called) = p + q
      BY <1>4, <2>5, <2>7 DEF Traces
    <3>2. q + 1 <= Len(t.postfixes) /\ e = t.postfixes[q + 1] /\ q + 1 = f.i
      BY <1>5, <1>6, <2>1, <2>7, <3>1 DEF e
    <3>3. \A x \in 1 .. q + 1 : g.called[p + x] = t.postfixes[x]
      <4>1. ASSUME NEW x \in 1 .. q + 1 PROVE g.called[p + x] = t.postfixes[x]
        <5>1. CASE x = q + 1
          BY <2>3, <2>4, <3>1, <3>2, <5>1
        <5>2. CASE x # q + 1
          <6>1. x \in 1 .. q /\ p + x \in 1 .. Len(f.called)
            BY <3>1, <5>2
          <6>. QED
            BY <1>4, <2>3, <2>4, <6>1 DEF Traces
        <5>. QED
          BY <5>1, <5>2
      <4>. QED
        BY <4>1
    <3>4. \A x \in 1 .. p : g.called[x] = t.prefixes[x]
      BY <1>4, <2>3, <2>4, <3>1 DEF Traces
    <3>5. Traces(g, t, p, q + 1)
      <4>1. /\ p \in 0 .. Len(t.prefixes) /\ q + 1 \in 0 .. Len(t.postfixes)
            /\ Len(g.called) = p + (q + 1)
        BY <1>4, <1>5, <2>3, <2>4, <3>1, <3>2 DEF Traces
      <4>2. ~g.skip => Len(f.present.prefixes) <= p
        BY <1>4, <2>4, <2>7 DEF Traces
      <4>. QED
        BY <2>4, <2>5, <2>7, <3>2, <3>3, <3>4, <4>1, <4>2 DEF Traces
    <3>. QED
      BY <1>7, <2>1, <2>4, <3>5
  <2>. QED
    BY <2>1, <2>6, <2>7
(* A handler has answered or thrown: the loop goes on after it. *)
<1>9. ASSUME NEW g, SetTop(g), f.calling, g.stage = f.stage, f.stage # "original",
             g.i = f.i + 1, g.key = f.key, g.present = f.present, g.skip = f.skip, ~g.calling,
             g.called = f.called
      PROVE  FramesTraced'
  <2>1. Reached(g) = Reached(f)
    BY <1>5, <1>9 DEF Reached
  <2>2. Traces(g, t, p, q)
    BY <1>4, <1>9, <2>1 DEF Traces
  <2>. QED
    BY <1>7, <1>9, <2>2
<1>10. CASE PrefixContinues \/ PrefixThrows
  <2>. DEFINE g == [f EXCEPT !.calling = FALSE, !.i = @ + 1]
  <2>1. SetTop(g) /\ f.stage = "prefix" /\ f.calling
    BY <1>10 DEF PrefixContinues, PrefixThrows, AfterThrow, Running
  <2>2. /\ g.stage = f.stage /\ g.i = f.i + 1 /\ g.key = f.key /\ g.present = f.present
        /\ g.skip = f.skip /\ ~g.calling /\ g.called = f.called
    BY <1>2 DEF Frame
  <2>. HIDE DEF g
  <2>. QED
    BY <1>9, <2>1, <2>2
<1>11. CASE PostfixReturns \/ PostfixThrows
  <2>1. PICK r : SetTop([f EXCEPT !.calling = FALSE, !.i = @ + 1, !.result = r])
    BY <1>11 DEF PostfixReturns, PostfixThrows
  <2>. DEFINE g == [f EXCEPT !.calling = FALSE, !.i = @ + 1, !.result = r]
  <2>2. SetTop(g) /\ f.stage = "postfix" /\ f.calling
    BY <1>11, <2>1 DEF PostfixReturns, PostfixThrows, Running
  <2>3. /\ g.stage = f.stage /\ g.i = f.i + 1 /\ g.key = f.key /\ g.present = f.present
        /\ g.skip = f.skip /\ ~g.calling /\ g.called = f.called
    BY <1>2 DEF Frame
  <2>. HIDE DEF g
  <2>. QED
    BY <1>9, <2>2, <2>3
<1>12. CASE PrefixesDone
  <2>. DEFINE g == [f EXCEPT !.stage = "original"]
  <2>1. SetTop(g) /\ f.stage = "prefix" /\ ~f.calling /\ ~(f.i <= Len(Handlers(f)))
    BY <1>12 DEF PrefixesDone, Running, Pending
  <2>2. /\ g.stage = "original" /\ g.key = f.key /\ g.present = f.present
        /\ g.skip = f.skip /\ g.called = f.called
    BY <1>2 DEF Frame
  <2>. HIDE DEF g
  <2>3. p = f.i - 1 /\ q = 0 /\ p \in 0 .. Len(t.prefixes)
    BY <1>4, <2>1 DEF Traces, Reached
  <2>4. Len(f.present.prefixes) <= p
    BY <1>5, <1>6, <2>1, <2>3 DEF GrownFrom
  <2>5. Traces(g, t, p, q)
    BY <1>4, <2>2, <2>3, <2>4 DEF Traces
  <2>. QED
    BY <1>7, <2>1, <2>2, <2>5
(* The postfixes are next, none of them called yet. *)
<1>13. ASSUME NEW g, SetTop(g), g.stage = "postfix", g.i = 1, g.key = f.key,
              g.present = f.present, ~g.calling, g.called = f.called, f.stage # "postfix",
              g.skip \/ (f.stage = "original" /\ g.skip = f.skip)
       PROVE  FramesTraced'
  <2>1. Reached(g) = 0
    BY <1>13 DEF Reached
  <2>2. q = 0
    BY <1>4, <1>5, <1>13 DEF Traces
  <2>3. Traces(g, t, p, q)
    BY <1>4, <1>13, <2>1, <2>2 DEF Traces
  <2>. QED
    BY <1>7, <1>13, <2>3
<1>14. CASE \E result \in {NULL, "skipper"} : PrefixSkips(result)
  <2>1. PICK result \in {NULL, "skipper"} : PrefixSkips(result)
    BY <1>14
  <2>. DEFINE g == [f EXCEPT !.calling = FALSE, !.skip = TRUE, !.stage = "postfix", !.i = 1,
                             !.result = result]
  <2>2. SetTop(g) /\ f.stage = "prefix"
    BY <2>1 DEF PrefixSkips, Running
  <2>3. /\ g.stage = "postfix" /\ g.i = 1 /\ g.key = f.key /\ g.present = f.present
        /\ ~g.calling /\ g.called = f.called /\ g.skip
    BY <1>2 DEF Frame
  <2>. HIDE DEF g
  <2>. QED
    BY <1>13, <2>2, <2>3
<1>15. CASE OriginalReturns
  <2>. DEFINE g == [f EXCEPT !.calling = FALSE, !.stage = "postfix", !.i = 1,
                             !.result = "original"]
  <2>1. SetTop(g) /\ f.stage = "original"
    BY <1>15 DEF OriginalReturns, Running
  <2>2. /\ g.stage = "postfix" /\ g.i = 1 /\ g.key = f.key /\ g.present = f.present
        /\ ~g.calling /\ g.called = f.called /\ g.skip = f.skip
    BY <1>2 DEF Frame
  <2>. HIDE DEF g
  <2>. QED
    BY <1>13, <2>1, <2>2
<1>16. CASE CallOriginal
  <2>1. f.stage = "original" /\ ~f.calling
    BY <1>16 DEF CallOriginal, Running
  <2>2. CASE SetTop([f EXCEPT !.stage = "postfix", !.i = 1, !.result = NULL])
    <3>. DEFINE g == [f EXCEPT !.stage = "postfix", !.i = 1, !.result = NULL]
    <3>1. /\ g.stage = "postfix" /\ g.i = 1 /\ g.key = f.key /\ g.present = f.present
          /\ ~g.calling /\ g.called = f.called /\ g.skip = f.skip
      BY <1>2, <2>1 DEF Frame
    <3>2. SetTop(g)
      BY <2>2
    <3>. HIDE DEF g
    <3>. QED
      BY <1>13, <2>1, <3>1, <3>2
  <2>3. CASE \E r : SetTop([f EXCEPT !.calling = TRUE, !.ran = r])
    <3>1. PICK r : SetTop([f EXCEPT !.calling = TRUE, !.ran = r])
      BY <2>3
    <3>. DEFINE g == [f EXCEPT !.calling = TRUE, !.ran = r]
    <3>2. /\ g.stage = "original" /\ g.key = f.key /\ g.present = f.present
          /\ g.called = f.called /\ g.skip = f.skip
      BY <1>2, <2>1 DEF Frame
    <3>3. SetTop(g)
      BY <3>1
    <3>. HIDE DEF g
    <3>4. Traces(g, t, p, q)
      BY <1>4, <2>1, <3>2 DEF Traces
    <3>. QED
      BY <1>7, <3>2, <3>3, <3>4
  <2>. QED
    BY <1>16, <2>2, <2>3 DEF CallOriginal
<1>. QED
  BY <1>8, <1>10, <1>11, <1>12, <1>14, <1>15, <1>16

(* A dispatch begins with no handler called yet.                             *)
LEMMA CallTraces ==
  ASSUME IInv, FramesTraced, NEW a \in Addrs, Call(a)
  PROVE  FramesTraced'
<1>. DEFINE n == Len(frames)
<1>1. frames \in Seq(Frame) /\ n \in Nat
  BY DEF IInv, FramesOK
<1>2. PICK i \in DOMAIN patches :
        LET k == patches[i].receiver.key
        IN  frames' = Append(frames,
              [addr |-> a, key |-> k, stage |-> "prefix", i |-> 1, calling |-> FALSE,
               skip |-> FALSE, result |-> NULL, called |-> <<>>, ran |-> <<>>,
               present |-> registry[k]])
  BY DEF Call
<1>. DEFINE k == patches[i].receiver.key
            f == [addr |-> a, key |-> k, stage |-> "prefix", i |-> 1, calling |-> FALSE,
                  skip |-> FALSE, result |-> NULL, called |-> <<>>, ran |-> <<>>,
                  present |-> registry[k]]
            t == registry[k]
<1>3. k \in Keys /\ t \in Targets
  <2>1. i \in 1 .. Len(patches) /\ patches[i] \in Patch
    BY DEF IInv, TableOK
  <2>2. k \in Keys
    BY <2>1 DEF Patch, Receivers
  <2>. QED
    BY <2>1, <2>2 DEF IInv, TableOK
<1>4. Len(t.prefixes) \in Nat /\ Len(t.postfixes) \in Nat
  BY <1>3 DEF Targets
<1>5. TraceOK(f, t)
  <2>1. Len(<<>>) = 0 + 0 /\ Reached(f) = 0
    BY DEF Reached
  <2>2. Traces(f, t, 0, 0)
    BY <1>4, <2>1 DEF Traces
  <2>3. GrownFrom(t.prefixes, f.present.prefixes) /\ GrownFrom(t.postfixes, f.present.postfixes)
    BY <1>4 DEF GrownFrom
  <2>. QED
    BY <2>2, <2>3 DEF TraceOK
<1>6. f.key = k /\ registry' = registry
  BY DEF Call
<1>. HIDE DEF f
<1>7. frames' = Append(frames, f)
  BY <1>2 DEF f
<1>8. Len(frames') = n + 1 /\ frames'[n + 1] = f /\ \A j \in 1 .. n : frames'[j] = frames[j]
  BY <1>1, <1>7
<1>9. ASSUME NEW j \in 1 .. Len(frames') PROVE TraceOK(frames'[j], registry[frames'[j].key])
  <2>1. CASE j \in 1 .. n
    BY <1>8, <2>1 DEF FramesTraced
  <2>2. CASE j \notin 1 .. n
    <3>1. j = n + 1
      BY <1>1, <1>8, <2>2
    <3>. QED
      BY <1>5, <1>6, <1>8, <3>1
  <2>. QED
    BY <2>1, <2>2
<1>. QED
  BY <1>6, <1>9 DEF FramesTraced

LEMMA GameOrders == OrderInv /\ GameNext => OrderInv'
<1>. SUFFICES ASSUME OrderInv, GameNext PROVE OrderInv'
  OBVIOUS
<1>1. IInv /\ LoadingAt /\ ListsOK /\ FramesTraced /\ IInv'
  BY GameKeeps DEF OrderInv
<1>2. frames \in Seq(Frame) /\ registry \in [Keys -> Targets \cup {NULL}]
  BY <1>1 DEF IInv, FramesOK, TableOK
<1>3. CASE UNCHANGED <<boot, registry>>
  <2>1. LoadingAt' /\ ListsOK'
    BY <1>1, <1>3 DEF boot, LoadingAt, ListsOK, Own, Current, RegisteredEarlier, Progress
  <2>2. FramesTraced'
    <3>1. CASE \E a \in Addrs : Call(a)
      BY <1>1, <3>1, CallTraces
    <3>2. CASE OriginalThrows \/ Leave
      <4>1. frames # <<>> /\ frames' = Front(frames)
        BY <3>2 DEF OriginalThrows, Leave, Running
      <4>2. /\ Len(frames') = Len(frames) - 1 /\ Len(frames) \in Nat
            /\ \A j \in 1 .. Len(frames) - 1 : frames'[j] = frames[j]
        BY <1>2, <4>1, FrontDropsLast
      <4>. QED
        BY <1>1, <1>3, <4>2 DEF FramesTraced
    <3>3. CASE \E h \in Late : RegisterLate(h)
      BY <1>1, <1>3, <3>3 DEF RegisterLate, FramesTraced
    <3>. QED
      BY <1>1, <3>1, <3>2, <3>3, DispatchTraces DEF GameNext
  <2>. QED
    BY <1>1, <2>1, <2>2 DEF OrderInv
<1>4. CASE \E h \in Late : RegisterLate(h)
  <2>1. PICK h \in Late : RegisterLate(h)
    BY <1>4
  <2>2. /\ phase = "game" /\ registry' = Registered(h) /\ ~Holds(registry[h.key], h)
        /\ UNCHANGED <<ready, phase, mods, init, frames>>
    BY <2>1 DEF RegisterLate, boot
  <2>3. h \in AllHandlers /\ h \notin HookHandlers
    BY HandlerAssumption DEF AllHandlers
  <2>4. registry[h.key] # NULL => h \notin HandlersIn(registry[h.key])
    BY <2>2 DEF Holds, HandlersIn
  <2>5. \A k \in Keys :
          /\ Registered(h)[k] # NULL => TargetOK(Registered(h)[k], k)
          /\ registry[k] # NULL =>
               /\ Registered(h)[k] \in Targets
               /\ GrownFrom(Registered(h)[k].prefixes, registry[k].prefixes)
               /\ GrownFrom(Registered(h)[k].postfixes, registry[k].postfixes)
    <3>1. \A k \in Keys : registry[k] # NULL => TargetOK(registry[k], k)
      BY <1>1 DEF ListsOK
    <3>. QED
      BY <1>2, <2>3, <2>4, <3>1, RegistrationOrders
  <2>6. LoadingAt' /\ ListsOK'
    BY <1>1, <2>2, <2>5 DEF LoadingAt, Own, Current, ListsOK
  <2>7. FramesTraced'
    <3>1. ASSUME NEW n \in 1 .. Len(frames)
          PROVE  TraceOK(frames[n], Registered(h)[frames[n].key])
      <4>. DEFINE f == frames[n]
      <4>1. f \in Frame /\ FrameOK(f, registry, patches) /\ TraceOK(f, registry[f.key])
        BY <1>1, <1>2 DEF IInv, FramesOK, FramesTraced
      <4>2. f.key \in Keys
        BY <4>1 DEF Frame
      <4>3. registry[f.key] # NULL
        BY <1>1, <4>1 DEF IInv, TableOK, FrameOK
      <4>4. registry[f.key] \in Targets
        BY <1>2, <4>2, <4>3
      <4>. QED
        BY <2>5, <4>1, <4>2, <4>3, <4>4, TraceGrows
    <3>. QED
      BY <2>2, <3>1 DEF FramesTraced
  <2>. QED
    BY <1>1, <2>6, <2>7 DEF OrderInv
<1>5. UNCHANGED <<boot, registry>> \/ \E h \in Late : RegisterLate(h)
  BY DEF GameNext, Call, CallHandler, PrefixContinues, PrefixThrows, PrefixesDone, PrefixSkips,
         CallOriginal, OriginalReturns, OriginalThrows, PostfixReturns, PostfixThrows, Leave
<1>. QED
  BY <1>3, <1>4, <1>5

LEMMA OrderInvHolds == Spec => []OrderInv
<1>1. Init => OrderInv
  <2>. SUFFICES ASSUME Init PROVE OrderInv
    OBVIOUS
  <2>1. IInv
    BY InitEstablishes
  <2>2. phase = "attach" /\ init = NULL /\ frames = <<>> /\ \A k \in Keys : registry[k] = NULL
    BY DEF Init
  <2>3. 1 .. Len(frames) = {}
    BY <2>2
  <2>. QED
    BY <2>1, <2>2, <2>3 DEF OrderInv, LoadingAt, ListsOK, FramesTraced
<1>2. OrderInv /\ [Next]_vars => OrderInv'
  <2>1. CASE Next
    BY <2>1, BootOrders, GameOrders DEF Next
  <2>2. CASE UNCHANGED vars
    <3>1. OrderInv => IInv'
      BY <2>2 DEF OrderInv, vars, IInv, BootOK, InstalledOK, FramesOK
    <3>. QED
      BY <2>2, <3>1 DEF vars, OrderInv, LoadingAt, ListsOK, FramesTraced, Own, Current,
                        RegisteredEarlier, Progress
  <2>. QED
    BY <2>1, <2>2
<1>. QED
  BY <1>1, <1>2, PTL DEF Spec

-----------------------------------------------------------------------------
(* What the trace of one dispatch says of the handlers it has called.        *)
LEMMA TraceInOrder ==
  ASSUME NEW f \in Frame, NEW t \in Targets, NEW k, TargetOK(t, k), TraceOK(f, t)
  PROVE  /\ IsInjective(f.called) /\ InLoadOrder(f)
         /\ f.stage # "prefix" /\ ~f.skip => IsPrefix(f.present.prefixes, f.called)
         /\ f.stage = "postfix" /\ ~f.calling /\ f.i > Len(t.postfixes) =>
              \E p \in 0 .. Len(f.called) :
                /\ \A x \in DOMAIN f.called : f.called[x].prefix <=> x <= p
                /\ IsPrefix(f.present.postfixes, SubSeq(f.called, p + 1, Len(f.called)))
<1>. DEFINE c == f.called
            pre == f.present.prefixes
            post == f.present.postfixes
<1>1. PICK p, q \in Nat : Traces(f, t, p, q)
  BY DEF TraceOK
<1>2. /\ c \in Seq(AllHandlers) /\ pre \in Seq(AllHandlers) /\ post \in Seq(AllHandlers)
      /\ t.prefixes \in Seq(AllHandlers) /\ t.postfixes \in Seq(AllHandlers) /\ f.i \in Nat
  BY DEF Frame, Targets
<1>3. /\ DOMAIN c = 1 .. p + q /\ Len(c) = p + q
      /\ p <= Len(t.prefixes) /\ q <= Len(t.postfixes)
      /\ Len(t.prefixes) \in Nat /\ Len(t.postfixes) \in Nat
      /\ DOMAIN t.prefixes = 1 .. Len(t.prefixes) /\ DOMAIN t.postfixes = 1 .. Len(t.postfixes)
  BY <1>1, <1>2 DEF Traces
<1>4. /\ \A x \in 1 .. p : c[x] = t.prefixes[x]
      /\ \A x \in 1 .. q : c[p + x] = t.postfixes[x]
  BY <1>1 DEF Traces
<1>5. /\ GrownFrom(t.prefixes, pre) /\ GrownFrom(t.postfixes, post)
  BY DEF TraceOK
<1>6. ASSUME NEW x \in DOMAIN c PROVE c[x].prefix <=> x <= p
  <2>1. CASE x <= p
    <3>1. x \in DOMAIN t.prefixes /\ c[x] = t.prefixes[x]
      BY <1>3, <1>4, <2>1
    <3>. QED
      BY <2>1, <3>1 DEF TargetOK, ListOK
  <2>2. CASE ~(x <= p)
    <3>1. x - p \in DOMAIN t.postfixes /\ c[x] = t.postfixes[x - p]
      <4>1. x - p \in 1 .. q /\ p + (x - p) = x
        BY <1>3, <2>2
      <4>2. c[p + (x - p)] = t.postfixes[x - p]
        BY <1>4, <4>1
      <4>. QED
        BY <1>3, <4>1, <4>2
    <3>2. t.postfixes[x - p].prefix = FALSE
      BY <3>1 DEF TargetOK, ListOK
    <3>. QED
      BY <2>2, <3>1, <3>2
  <2>. QED
    BY <2>1, <2>2
(* Two calls of handlers of one kind. *)
<1>7. ASSUME NEW x \in DOMAIN c, NEW y \in DOMAIN c, x < y, x <= p <=> y <= p
      PROVE  /\ c[x] # c[y]
             /\ c[x] \in HookHandlers /\ c[y] \in HookHandlers => LoadedBefore(c[x], c[y])
  <2>1. CASE y <= p
    <3>1. /\ x \in DOMAIN t.prefixes /\ y \in DOMAIN t.prefixes /\ x # y
          /\ c[x] = t.prefixes[x] /\ c[y] = t.prefixes[y]
      BY <1>3, <1>4, <1>7, <2>1
    <3>. QED
      BY <1>7, <3>1 DEF TargetOK, ListOK, IsInjective
  <2>2. CASE ~(y <= p)
    <3>1. x - p \in 1 .. q /\ y - p \in 1 .. q /\ x - p < y - p
          /\ p + (x - p) = x /\ p + (y - p) = y
      BY <1>3, <1>7, <2>2
    <3>2. c[p + (x - p)] = t.postfixes[x - p] /\ c[p + (y - p)] = t.postfixes[y - p]
      BY <1>4, <3>1
    <3>3. c[x] = t.postfixes[x - p] /\ c[y] = t.postfixes[y - p]
      BY <3>1, <3>2
    <3>4. x - p \in DOMAIN t.postfixes /\ y - p \in DOMAIN t.postfixes /\ x - p # y - p
      BY <1>3, <3>1
    <3>. QED
      BY <3>1, <3>3, <3>4 DEF TargetOK, ListOK, IsInjective
  <2>. QED
    BY <2>1, <2>2
<1>8. IsInjective(c)
  <2>1. ASSUME NEW x \in DOMAIN c, NEW y \in DOMAIN c, x < y PROVE c[x] # c[y]
    <3>1. CASE x <= p <=> y <= p
      BY <1>7, <2>1, <3>1
    <3>2. CASE ~(x <= p <=> y <= p)
      BY <1>6, <3>2
    <3>. QED
      BY <3>1, <3>2
  <2>2. DOMAIN c \subseteq Int
    BY <1>3
  <2>. QED
    BY <2>1, <2>2 DEF IsInjective
<1>9. InLoadOrder(f)
  <2>1. ASSUME NEW x \in DOMAIN c, NEW y \in DOMAIN c, c[x] \in HookHandlers, c[y] \in HookHandlers,
               x < y, c[x].prefix = c[y].prefix
        PROVE  LoadedBefore(c[x], c[y])
    <3>1. x <= p <=> y <= p
      BY <1>6, <2>1
    <3>. QED
      BY <1>7, <2>1, <3>1
  <2>. QED
    BY <2>1 DEF InLoadOrder
<1>10. ASSUME f.stage # "prefix", ~f.skip PROVE IsPrefix(pre, c)
  <2>1. Len(pre) \in Nat /\ Len(pre) <= p
    BY <1>1, <1>2, <1>10 DEF Traces
  <2>2. \A x \in 1 .. Len(pre) : c[x] = pre[x]
    BY <1>4, <1>5, <2>1 DEF GrownFrom
  <2>. QED
    BY <1>2, <1>3, <2>1, <2>2 DEF IsPrefix
<1>11. ASSUME f.stage = "postfix", ~f.calling, f.i > Len(t.postfixes)
       PROVE  IsPrefix(post, SubSeq(c, p + 1, Len(c)))
  <2>1. q = f.i - 1 /\ q = Len(t.postfixes)
    BY <1>1, <1>2, <1>3, <1>11 DEF Traces, Reached
  <2>2. Len(post) \in Nat /\ Len(post) <= q /\ \A x \in 1 .. Len(post) : c[p + x] = post[x]
    BY <1>2, <1>4, <1>5, <2>1 DEF GrownFrom
  <2>3. /\ SubSeq(c, p + 1, Len(c)) \in Seq(AllHandlers)
        /\ Len(SubSeq(c, p + 1, Len(c))) = q
        /\ \A x \in 1 .. q : SubSeq(c, p + 1, Len(c))[x] = c[p + x]
    BY <1>2, <1>3
  <2>. QED
    BY <1>2, <2>2, <2>3 DEF IsPrefix
<1>12. p \in 0 .. Len(f.called)
  BY <1>3
<1>. QED
  BY <1>6, <1>8, <1>9, <1>10, <1>11, <1>12

(* In every dispatch, however deep it is nested and whatever its handlers    *)
(* throw, register or call meanwhile, no handler is called twice, each kind  *)
(* is called in the order in which the mods were loaded, all the prefixes    *)
(* that were there when the call began precede the original unless one       *)
(* skips it, and all the postfixes have been called when the dispatch is     *)
(* over.                                                                     *)
THEOREM HandlersAreCalledInOrder == Spec => []EveryHandlerOnceInOrder
<1>1. OrderInv => EveryHandlerOnceInOrder
  <2>. SUFFICES ASSUME OrderInv PROVE EveryHandlerOnceInOrder
    OBVIOUS
  <2>1. IInv /\ ListsOK /\ FramesTraced /\ DOMAIN frames = 1 .. Len(frames)
    BY DEF OrderInv, IInv, FramesOK
  <2>2. ASSUME NEW n \in 1 .. Len(frames)
        PROVE  LET f == frames[n]
                   over == f.stage = "postfix" /\ ~f.calling /\ f.i > Len(registry[f.key].postfixes)
               IN  /\ IsInjective(f.called) /\ InLoadOrder(f)
                   /\ f.stage # "prefix" /\ ~f.skip => IsPrefix(f.present.prefixes, f.called)
                   /\ over => \E p \in 0 .. Len(f.called) :
                        /\ \A x \in DOMAIN f.called : f.called[x].prefix <=> x <= p
                        /\ IsPrefix(f.present.postfixes, SubSeq(f.called, p + 1, Len(f.called)))
    <3>. DEFINE f == frames[n]
                t == registry[f.key]
    <3>1. f \in Frame /\ FrameOK(f, registry, patches) /\ TraceOK(f, t)
      BY <2>1 DEF IInv, FramesOK, FramesTraced
    <3>2. f.key \in Keys /\ t # NULL
      BY <2>1, <3>1 DEF IInv, TableOK, FrameOK, Frame
    <3>3. t \in Targets /\ TargetOK(t, f.key)
      BY <2>1, <3>2 DEF IInv, TableOK, ListsOK
    <3>. HIDE DEF f, t
    <3>4. /\ IsInjective(f.called) /\ InLoadOrder(f)
          /\ f.stage # "prefix" /\ ~f.skip => IsPrefix(f.present.prefixes, f.called)
          /\ f.stage = "postfix" /\ ~f.calling /\ f.i > Len(t.postfixes) =>
               \E p \in 0 .. Len(f.called) :
                 /\ \A x \in DOMAIN f.called : f.called[x].prefix <=> x <= p
                 /\ IsPrefix(f.present.postfixes, SubSeq(f.called, p + 1, Len(f.called)))
      BY <3>1, <3>3, TraceInOrder
    <3>. QED
      BY <3>4 DEF f, t
  <2>. QED
    BY <2>1, <2>2 DEF EveryHandlerOnceInOrder
<1>. QED
  BY <1>1, OrderInvHolds, PTL
=============================================================================
