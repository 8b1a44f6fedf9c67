-------------------------- MODULE ProcessAttach_proofs --------------------------
(***************************************************************************)
(* Proofs about what DllMain sets up at process attach and boot uses.      *)
(* Attach: the version gate decides as what is written in a mod.info       *)
(* means, hlx-loader is loaded once however safe calls nest, and the live  *)
(* hl_setup is read by the layout of the game's own version.  Reflection:  *)
(* the scan of hlboot.dat finds the constructors, the table that is made   *)
(* of them is a map, and classes, companions and members are the game's.   *)
(* Literals of static fields are those the entry point stores, names come  *)
(* out as they were encoded, and what is allocated to read the file does   *)
(* not overlap.                                                            *)
(***************************************************************************)
EXTENDS Attach, Reflection, ListLemmas, FiniteSetTheorems

-----------------------------------------------------------------------------
(* The version gate. *)

(* A version's components, and those a mod.info's digits may be read as.     *)
Version == {v \in Seq(Nat) : Len(v) = Parts}
Bound == {b \in Seq(Nat) : Len(b) \in 1 .. Parts}

LEMMA MinIsLeast ==
  ASSUME NEW S, S \subseteq Nat, S # {}
  PROVE  Min(S) \in S /\ \A i \in S : Min(S) <= i
<1>1. \E x \in S : \A y \in S : x <= y
  BY LeastExists
<1>. QED
  BY <1>1 DEF Min

(* The least member of a set of a version's positions. *)
LEMMA MinOfPositions ==
  ASSUME NEW S, S \subseteq 1 .. Parts, S # {}
  PROVE  Min(S) \in S /\ \A i \in S : Min(S) <= i
<1>1. S \subseteq Nat
  OBVIOUS
<1>. QED
  BY <1>1, MinIsLeast

(* The first position at which a version differs from a bound. *)
LEMMA FirstDifference ==
  ASSUME NEW v, NEW b, Differing(v, b) # {}
  PROVE  /\ Min(Differing(v, b)) \in 1 .. Parts
         /\ v[Min(Differing(v, b))] # b[Min(Differing(v, b))]
         /\ \A i \in 1 .. Parts : i < Min(Differing(v, b)) => v[i] = b[i]
<1>. DEFINE d == Differing(v, b)
            m == Min(d)
<1>1. d \subseteq 1 .. Parts
  BY DEF Differing
<1>2. m \in d /\ \A i \in d : m <= i
  BY <1>1, MinOfPositions
<1>3. ASSUME NEW i \in 1 .. Parts, i < m PROVE v[i] = b[i]
  <2>1. i \notin d
    BY <1>1, <1>2, <1>3
  <2>. QED
    BY <2>1 DEF Differing
<1>4. m \in 1 .. Parts /\ v[m] # b[m]
  BY <1>2 DEF Differing
<1>. QED
  BY <1>3, <1>4

(* What is written of a bound, and as much of a version. *)
LEMMA WrittenPart ==
  ASSUME NEW v \in Version, NEW b \in Bound
  PROVE  /\ Len(b) \in Nat /\ Len(b) >= 1 /\ Len(b) <= Parts /\ DOMAIN b = 1 .. Len(b)
         /\ \A i \in 1 .. Len(b) : b[i] \in Nat /\ Padded(b)[i] = b[i] /\ AsFarAs(b, v)[i] = v[i]
         /\ \A i \in 1 .. Parts : v[i] \in Nat
         /\ \A i \in 1 .. Parts : i > Len(b) => Padded(b)[i] = 0
         /\ DOMAIN AsFarAs(b, v) = 1 .. Len(b)
         /\ DOMAIN Padded(b) = 1 .. Parts
<1>1. Parts \in Nat \ {0}
  BY VersionGateAssumption
<1>2. /\ b \in Seq(Nat) /\ Len(b) \in 1 .. Parts /\ v \in Seq(Nat) /\ Len(v) = Parts
  BY DEF Version, Bound
<1>3. /\ Len(b) \in Nat /\ Len(b) >= 1 /\ Len(b) <= Parts /\ DOMAIN b = 1 .. Len(b)
      /\ \A i \in 1 .. Len(b) : b[i] \in Nat
      /\ \A i \in 1 .. Parts : v[i] \in Nat
  BY <1>1, <1>2
<1>4. /\ DOMAIN AsFarAs(b, v) = 1 .. Len(b)
      /\ \A i \in 1 .. Len(b) : AsFarAs(b, v)[i] = v[i]
  BY <1>1, <1>2, <1>3 DEF AsFarAs
<1>5. /\ DOMAIN Padded(b) = 1 .. Parts
      /\ \A i \in 1 .. Parts : Padded(b)[i] = IF i <= Len(b) THEN b[i] ELSE 0
  BY DEF Padded
<1>. QED
  BY <1>1, <1>3, <1>4, <1>5

(* A minimum, padded with zeroes, rules out what the minimum itself does.    *)
LEMMA MinimumIsMeant ==
  ASSUME NEW v \in Version, NEW b \in Bound
  PROVE  VersionAtLeast(v, b) <=> ~LexLess(AsFarAs(b, v), b)
<1>. DEFINE p == Padded(b)
            w == AsFarAs(b, v)
            d == Differing(v, p)
            m == Min(d)
<1>1. /\ Parts \in Nat /\ Len(b) \in Nat /\ Len(b) <= Parts /\ DOMAIN b = 1 .. Len(b)
      /\ \A i \in 1 .. Len(b) : b[i] \in Nat /\ p[i] = b[i] /\ w[i] = v[i]
      /\ \A i \in 1 .. Parts : v[i] \in Nat
      /\ \A i \in 1 .. Parts : i > Len(b) => p[i] = 0
  BY WrittenPart, VersionGateAssumption
<1>2. VersionAtLeast(v, b) <=> d = {} \/ v[m] > p[m]
  BY DEF VersionAtLeast
<1>3. LexLess(w, b) <=> \E i \in 1 .. Len(b) : w[i] < b[i] /\ \A j \in 1 .. i - 1 : w[j] = b[j]
  BY <1>1 DEF LexLess
<1>. HIDE DEF p, w
<1>4. CASE d = {}
  <2>1. \A i \in 1 .. Parts : v[i] = p[i]
    BY <1>4 DEF Differing
  <2>2. \A i \in 1 .. Len(b) : w[i] = b[i]
    BY <1>1, <2>1
  <2>3. \A i \in 1 .. Len(b) : ~(w[i] < b[i])
    BY <1>1, <2>2
  <2>. QED
    BY <1>2, <1>3, <1>4, <2>3 DEF w
<1>5. CASE d # {}
  <2>1. m \in 1 .. Parts /\ v[m] # p[m] /\ \A i \in 1 .. Parts : i < m => v[i] = p[i]
    BY <1>5, FirstDifference
  <2>. HIDE DEF d, m
  <2>2. \A i \in 1 .. Len(b) : i < m => w[i] = b[i]
    BY <1>1, <2>1
  <2>3. CASE m <= Len(b)
    <3>1. m \in 1 .. Len(b) /\ w[m] = v[m] /\ p[m] = b[m] /\ w[m] # b[m]
          /\ w[m] \in Nat /\ b[m] \in Nat
      BY <1>1, <2>1, <2>3
    <3>2. ASSUME w[m] < b[m] PROVE LexLess(w, b)
      <4>1. \A j \in 1 .. m - 1 : w[j] = b[j]
        BY <1>1, <2>1, <2>2, <2>3
      <4>. QED
        BY <1>3, <3>1, <3>2, <4>1
    <3>3. ASSUME LexLess(w, b) PROVE w[m] < b[m]
      <4>1. PICK i \in 1 .. Len(b) : w[i] < b[i] /\ \A j \in 1 .. i - 1 : w[j] = b[j]
        BY <1>3, <3>3
      <4>2. ~(i < m)
        BY <1>1, <2>2, <4>1
      <4>3. ~(m < i)
        <5>1. m < i => m \in 1 .. i - 1
          BY <1>1, <2>1, <4>1
        <5>. QED
          BY <3>1, <4>1, <5>1
      <4>4. i = m
        BY <1>1, <2>1, <4>1, <4>2, <4>3
      <4>. QED
        BY <4>1, <4>4
    <3>4. LexLess(w, b) <=> ~(v[m] > p[m])
      BY <3>1, <3>2, <3>3
    <3>. QED
      BY <1>2, <1>5, <3>4 DEF w
  <2>4. CASE ~(m <= Len(b))
    <3>1. p[m] = 0 /\ v[m] > p[m]
      BY <1>1, <2>1, <2>4
    <3>2. \A i \in 1 .. Len(b) : w[i] = b[i]
      BY <1>1, <2>1, <2>2, <2>4
    <3>3. ~LexLess(w, b)
      BY <1>1, <1>3, <3>2
    <3>. QED
      BY <1>2, <3>1, <3>3 DEF w
  <2>. QED
    BY <2>3, <2>4
<1>. QED
  BY <1>4, <1>5

(* A maximum, its last written component bumped into an exclusive bound,     *)
(* rules out what the maximum itself does, unless the bump overflows.        *)
LEMMA MaximumIsMeant ==
  ASSUME NEW v \in Version, NEW b \in Bound, b[Len(b)] # MaxInt
  PROVE  VersionBelowMaxBound(v, b) <=> ~LexLess(b, AsFarAs(b, v))
<1>. DEFINE n == Len(b)
            e == ExclusiveBound(b)
            w == AsFarAs(b, v)
            d == Differing(v, e)
            m == Min(d)
<1>1. /\ Parts \in Nat /\ n \in Nat /\ 1 <= n /\ n <= Parts
      /\ \A i \in 1 .. n : b[i] \in Nat /\ w[i] = v[i]
      /\ \A i \in 1 .. Parts : v[i] \in Nat
      /\ DOMAIN w = 1 .. n
  BY WrittenPart, VersionGateAssumption
<1>2. /\ e[n] = b[n] + 1
      /\ \A i \in 1 .. Parts : i < n => e[i] = b[i]
      /\ \A i \in 1 .. Parts : n < i => e[i] = 0
  <2>1. /\ DOMAIN Padded(b) = 1 .. Parts
        /\ \A i \in 1 .. n : Padded(b)[i] = b[i]
        /\ \A i \in 1 .. Parts : i > n => Padded(b)[i] = 0
    BY WrittenPart
  <2>2. n \in 1 .. Parts /\ n \in 1 .. n
    BY <1>1
  <2>3. e[n] = Plus1(Padded(b)[n])
    BY <2>1, <2>2 DEF ExclusiveBound
  <2>4. \A i \in 1 .. Parts : i # n => e[i] = Padded(b)[i]
    BY <2>1 DEF ExclusiveBound
  <2>5. e[n] = b[n] + 1
    BY <2>1, <2>2, <2>3 DEF Plus1
  <2>. HIDE DEF e
  <2>. QED
    BY <1>1, <2>1, <2>4, <2>5
<1>3. VersionBelowMaxBound(v, b) <=> d # {} /\ v[m] < e[m]
  BY DEF VersionBelowMaxBound
<1>4. LexLess(b, w) <=> \E i \in 1 .. n : b[i] < w[i] /\ \A j \in 1 .. i - 1 : b[j] = w[j]
  BY <1>1 DEF LexLess
<1>. HIDE DEF e, w
(* When all of a bound's written components but the last are matched. *)
<1>5. ASSUME \A i \in 1 .. n : i < n => w[i] = b[i]
      PROVE  LexLess(b, w) <=> b[n] < v[n]
  <2>1. n \in 1 .. n /\ w[n] = v[n] /\ b[n] \in Nat /\ v[n] \in Nat
    BY <1>1
  <2>2. ASSUME b[n] < v[n] PROVE LexLess(b, w)
    <3>1. b[n] < w[n] /\ \A j \in 1 .. n - 1 : b[j] = w[j]
      BY <1>1, <1>5, <2>1, <2>2
    <3>. QED
      BY <1>4, <2>1, <3>1
  <2>3. ASSUME LexLess(b, w) PROVE b[n] < v[n]
    <3>1. PICK i \in 1 .. n : b[i] < w[i]
      BY <1>4, <2>3
    <3>2. ~(i < n)
      BY <1>1, <1>5, <3>1
    <3>3. i = n
      BY <1>1, <3>1, <3>2
    <3>. QED
      BY <2>1, <3>1, <3>3
  <2>. QED
    BY <2>2, <2>3
<1>6. CASE d = {}
  <2>1. \A i \in 1 .. Parts : v[i] = e[i]
    BY <1>6 DEF Differing
  <2>2. v[n] = b[n] + 1 /\ b[n] \in Nat /\ \A i \in 1 .. n : i < n => w[i] = b[i]
    BY <1>1, <1>2, <2>1
  <2>3. b[n] < v[n]
    BY <2>2
  <2>. QED
    BY <1>3, <1>5, <1>6, <2>2, <2>3 DEF w
<1>7. CASE d # {}
  <2>1. m \in 1 .. Parts /\ v[m] # e[m] /\ \A i \in 1 .. Parts : i < m => v[i] = e[i]
    BY <1>7, FirstDifference
  <2>. HIDE DEF d, m
  <2>2. \A i \in 1 .. n : i < m /\ i < n => w[i] = b[i]
    BY <1>1, <1>2, <2>1
  <2>3. CASE m < n
    <3>1. m \in 1 .. n /\ w[m] = v[m] /\ e[m] = b[m] /\ w[m] # b[m]
          /\ w[m] \in Nat /\ b[m] \in Nat
      BY <1>1, <1>2, <2>1, <2>3
    <3>2. ASSUME b[m] < w[m] PROVE LexLess(b, w)
      <4>1. \A j \in 1 .. m - 1 : b[j] = w[j]
        BY <1>1, <2>1, <2>2, <2>3
      <4>. QED
        BY <1>4, <3>1, <3>2, <4>1
    <3>3. ASSUME LexLess(b, w) PROVE b[m] < w[m]
      <4>1. PICK i \in 1 .. n : b[i] < w[i] /\ \A j \in 1 .. i - 1 : b[j] = w[j]
        BY <1>4, <3>3
      <4>2. ~(i < m)
        BY <1>1, <2>1, <2>2, <2>3, <4>1
      <4>3. ~(m < i)
        <5>1. m < i => m \in 1 .. i - 1
          BY <1>1, <2>1, <4>1
        <5>. QED
          BY <3>1, <4>1, <5>1
      <4>4. i = m
        BY <1>1, <2>1, <4>1, <4>2, <4>3
      <4>. QED
        BY <4>1, <4>4
    <3>4. LexLess(b, w) <=> ~(v[m] < e[m])
      BY <3>1, <3>2, <3>3
    <3>. QED
      BY <1>3, <1>7, <3>4 DEF w
  <2>4. CASE m = n
    <3>1. LexLess(b, w) <=> b[n] < v[n]
      BY <1>5, <2>2, <2>4
    <3>2. v[n] < e[n] <=> ~(b[n] < v[n])
      <4>1. n \in 1 .. n /\ n \in 1 .. Parts
        BY <1>1
      <4>2. b[n] \in Nat /\ v[n] \in Nat
        BY <1>1, <4>1
      <4>. QED
        BY <1>2, <4>2
    <3>. QED
      BY <1>3, <1>7, <2>4, <3>1, <3>2 DEF w
  <2>5. CASE n < m
    <3>1. \A i \in 1 .. n : i < n => w[i] = b[i]
      BY <1>1, <2>1, <2>2, <2>5
    <3>2. v[n] = b[n] + 1 /\ b[n] \in Nat
      <4>1. n \in 1 .. n /\ n \in 1 .. Parts
        BY <1>1
      <4>. QED
        BY <1>1, <1>2, <2>1, <2>5, <4>1
    <3>3. LexLess(b, w)
      BY <1>5, <3>1, <3>2
    <3>4. ~(v[m] < e[m])
      <4>1. e[m] = 0 /\ v[m] \in Nat
        BY <1>1, <1>2, <2>1, <2>5
      <4>. QED
        BY <4>1
    <3>. QED
      BY <1>3, <3>3, <3>4 DEF w
  <2>. QED
    BY <1>1, <2>1, <2>3, <2>4, <2>5
<1>. QED
  BY <1>6, <1>7

(* Every line of a mod.info has no bound, or one whose maximum may be bumped. *)
PlainInfo(info) ==
  \A i \in DOMAIN info :
    /\ info[i].value = <<>> \/ info[i].value \in Bound
    /\ info[i].key = "max" /\ info[i].value # <<>> =>
         info[i].value[Len(info[i].value)] # MaxInt

(* A mod.info allows what it means to. *)
LEMMA AllowedAsMeant ==
  ASSUME NEW v \in Version, NEW info, PlainInfo(info)
  PROVE  AllowsVersion(info, v) <=> Meant(info, v)
<1>1. ASSUME NEW i \in DOMAIN info
      PROVE  Refusing(info[i], v) <=> ~Means(info[i], v)
  <2>. DEFINE l == info[i]
  <2>1. l.value = <<>> \/ l.value \in Bound
    BY DEF PlainInfo
  <2>2. l.key = "max" /\ l.value # <<>> => l.value[Len(l.value)] # MaxInt
    BY DEF PlainInfo
  <2>. HIDE DEF l
  <2>3. CASE l.value = <<>>
    <3>1. ~LexLess(AsFarAs(l.value, v), l.value)
      BY <2>3 DEF LexLess
    <3>2. ~LexLess(l.value, AsFarAs(l.value, v))
      BY <2>3 DEF LexLess, AsFarAs, Version
    <3>. QED
      BY <2>3, <3>1, <3>2 DEF Refusing, Means, l
  <2>4. CASE l.value # <<>>
    <3>1. VersionAtLeast(v, l.value) <=> ~LexLess(AsFarAs(l.value, v), l.value)
      BY <2>1, <2>4, MinimumIsMeant
    <3>2. l.key = "max" =>
            (VersionBelowMaxBound(v, l.value) <=> ~LexLess(l.value, AsFarAs(l.value, v)))
      BY <2>1, <2>2, <2>4, MaximumIsMeant
    <3>3. CASE l.key = "min"
      BY <2>4, <3>1, <3>3 DEF Refusing, Means, l
    <3>4. CASE l.key = "max"
      BY <2>4, <3>2, <3>4 DEF Refusing, Means, l
    <3>5. CASE l.key # "min" /\ l.key # "max"
      BY <3>5 DEF Refusing, Means, l
    <3>. QED
      BY <3>3, <3>4, <3>5
  <2>. QED
    BY <2>3, <2>4
<1>. QED
  BY <1>1 DEF AllowsVersion, Meant

-----------------------------------------------------------------------------
(* The boot sequence. *)

(* Only the first safe call there is may have work of hlx's own to do; the   *)
(* latch is set as it begins, after DllMain has ended.                       *)
CallsOK ==
  /\ calls \in Seq(Places) /\ Len(calls) <= MaxDepth
  /\ \A i \in 2 .. Len(calls) : calls[i] \in {"pass", "passed"}
  /\ calls # <<>> => fired
  /\ fired => pc = "up"

First(places) == calls # <<>> /\ calls[1] \in places

(* Until hlx-loader is loaded, nothing is that it loads.                     *)
LoadsOK ==
  /\ ~fired \/ First({"recover", "check", "load"}) => loads = 0 /\ modules = {}
  /\ First({"check", "load", "mods"}) => recovery # Untried
  /\ First({"mods"}) => loads = 1 /\ driver # "unchecked"

(* The driver is asked before the first plugin.                              *)
DriverOK ==
  /\ pc \in {"setup", "table", "driver"} => plugins = {}
  /\ pc = "plugins" => driver # "unchecked"

(* Loaded and refused by what the gate says, once there is a game's version. *)
GateOK ==
  /\ app \in AppVersions /\ modInfo \in ModInfos
  /\ \A m \in refused : ~AllowsVersion(modInfo[m], app)
  /\ driver = "valid" => \A m \in plugins \cup modules : AllowsVersion(modInfo[m], app)

(* hl_setup is read after the version is settled.                            *)
LayoutOK ==
  /\ ~fired => offsets = {}
  /\ version # -1 => offsets \subseteq {LayoutOf(game)}

(* The inductive invariant.                                                  *)
IInv == BootConsistent /\ CallsOK /\ LoadsOK /\ DriverOK /\ GateOK /\ LayoutOK

-----------------------------------------------------------------------------
LEMMA InitEstablishes == Init => IInv
<1>. SUFFICES ASSUME Init PROVE IInv
  OBVIOUS
<1>1. calls \in Seq(Places) /\ Len(calls) = 0 /\ Len(calls) <= MaxDepth
  BY AttachAssumption DEF Init
<1>2. BootConsistent
  <2>1. TypeOK
    BY <1>1 DEF Init, TypeOK
  <2>2. OneLoader
    BY DEF Init, OneLoader
  <2>. QED
    BY <2>1, <2>2 DEF BootConsistent
<1>3. CallsOK
  BY <1>1 DEF Init, CallsOK
<1>4. LoadsOK /\ DriverOK /\ GateOK /\ LayoutOK
  BY DEF Init, LoadsOK, DriverOK, GateOK, LayoutOK, First
<1>. QED
  BY <1>2, <1>3, <1>4 DEF IInv

(* The innermost call, and a call that is not there to be passed on only.    *)
LEMMA TopCall ==
  ASSUME CallsOK, NEW p, At(p)
  PROVE  /\ fired /\ pc = "up" /\ calls # <<>>
         /\ Len(calls) \in Nat /\ Len(calls) \in 1 .. Len(calls) /\ calls[Len(calls)] = p
         /\ p \notin {"pass", "passed"} => Len(calls) = 1 /\ calls[1] = p
<1>1. /\ calls \in Seq(Places) /\ calls # <<>> /\ fired /\ pc = "up"
      /\ calls[Len(calls)] = p
  BY DEF CallsOK, At, Place
<1>2. Len(calls) \in Nat /\ Len(calls) \in 1 .. Len(calls)
  BY <1>1
<1>3. ASSUME p \notin {"pass", "passed"} PROVE Len(calls) = 1
  <2>. DEFINE n == Len(calls)
  <2>1. n \notin 2 .. n
    BY <1>1, <1>3 DEF CallsOK
  <2>2. n \in Nat /\ n \in 1 .. n
    BY <1>2
  <2>. HIDE DEF n
  <2>3. n = 1
    BY <2>1, <2>2
  <2>. QED
    BY <2>3 DEF n
<1>. QED
  BY <1>1, <1>2, <1>3

(* It moves on. *)
LEMMA GotoMoves ==
  ASSUME CallsOK, calls # <<>>, NEW p \in Places, Goto(p)
  PROVE  /\ calls' \in Seq(Places) /\ Len(calls') = Len(calls) /\ calls' # <<>>
         /\ calls'[Len(calls)] = p
         /\ \A i \in 1 .. Len(calls) : i # Len(calls) => calls'[i] = calls[i]
<1>1. calls \in Seq(Places) /\ Len(calls) \in Nat /\ Len(calls) \in 1 .. Len(calls)
  BY DEF CallsOK
<1>2. calls' = [calls EXCEPT ![Len(calls)] = p]
  BY DEF Goto
<1>. QED
  BY <1>1, <1>2

(* The only call moves on in hlx's own work, or to the passing on.           *)
LEMMA FirstMoves ==
  ASSUME IInv, NEW p \in Places, NEW q \in Places, At(p), Goto(q),
         p \notin {"pass", "passed"}
  PROVE  /\ calls' \in Seq(Places) /\ Len(calls') <= MaxDepth /\ calls' # <<>>
         /\ \A i \in 2 .. Len(calls') : calls'[i] \in {"pass", "passed"}
         /\ calls'[1] = q /\ calls[1] = p /\ calls # <<>>
<1>1. /\ Len(calls) = 1 /\ calls[1] = p /\ calls # <<>>
  BY TopCall DEF IInv
<1>2. calls' \in Seq(Places) /\ Len(calls') = 1 /\ calls' # <<>> /\ calls'[1] = q
  BY <1>1, GotoMoves DEF IInv
<1>3. Len(calls') <= MaxDepth
  BY <1>1, <1>2 DEF IInv, CallsOK
<1>. QED
  BY <1>1, <1>2, <1>3

-----------------------------------------------------------------------------
(* DllMain's steps leave the boot call alone, which has not begun.           *)
LEMMA NotBegun ==
  ASSUME IInv, pc # "up"
  PROVE  ~fired /\ calls = <<>> /\ loads = 0 /\ modules = {} /\ offsets = {}
BY DEF IInv, CallsOK, LoadsOK, LayoutOK

LEMMA SetupPreserves == ASSUME IInv, ResolveSetup \/ Unreadable PROVE IInv'
<1>1. /\ pc \in {"setup", "table"} /\ pc' \in {"table", "driver"}
      /\ resolved' \subseteq {"libhl", "hl_setup"}
      /\ UNCHANGED <<files, version, driver, toVisit, plugins, refused, hooked, bootVars>>
  BY DEF IInv, BootConsistent, TypeOK, ResolveSetup, Unreadable, attachVars
<1>2. BootConsistent' /\ CallsOK' /\ LoadsOK'
  BY <1>1, NotBegun
  DEF IInv, BootConsistent, TypeOK, OneLoader, CallsOK, LoadsOK, First, files, bootVars
<1>3. DriverOK' /\ GateOK' /\ LayoutOK'
  BY <1>1 DEF IInv, DriverOK, GateOK, LayoutOK, files, bootVars
<1>. QED
  BY <1>2, <1>3 DEF IInv

LEMMA ReadVersionPreserves == ASSUME IInv, ReadVersion PROVE IInv'
<1>1. /\ pc = "table" /\ pc' \in {"exited", "driver"} /\ version' = game
      /\ UNCHANGED <<files, resolved, driver, toVisit, plugins, refused, hooked, bootVars>>
  BY DEF ReadVersion
<1>2. BootConsistent' /\ CallsOK' /\ LoadsOK'
  BY <1>1, NotBegun
  DEF IInv, BootConsistent, TypeOK, OneLoader, CallsOK, LoadsOK, First, files, bootVars
<1>3. DriverOK' /\ GateOK'
  BY <1>1 DEF IInv, DriverOK, GateOK, files, bootVars
<1>4. LayoutOK'
  BY <1>1, NotBegun DEF LayoutOK, files, bootVars
<1>. QED
  BY <1>2, <1>3, <1>4 DEF IInv

(* The driver's answer never changes once there is one.                      *)
LEMMA DriverAnswers ==
  ASSUME driver \in {"unchecked", "valid", "invalid"}, TryDriver
  PROVE  /\ driver' \in {"valid", "invalid"}
         /\ driver # "unchecked" => driver' = driver
BY DEF TryDriver, DriverChecked

LEMMA BeginPluginsPreserves == ASSUME IInv, BeginPlugins PROVE IInv'
<1>1. /\ pc = "driver" /\ pc' = "plugins" /\ toVisit' \subseteq Mods
      /\ UNCHANGED <<files, resolved, version, plugins, refused, hooked, bootVars>>
  BY DEF BeginPlugins
<1>2. driver' \in {"valid", "invalid"}
  BY DriverAnswers DEF BeginPlugins, IInv, BootConsistent, TypeOK
<1>3. plugins = {}
  BY <1>1 DEF IInv, DriverOK
<1>4. BootConsistent' /\ CallsOK' /\ LoadsOK'
  BY <1>1, <1>2, <1>3, NotBegun
  DEF IInv, BootConsistent, TypeOK, OneLoader, CallsOK, LoadsOK, First, files, bootVars
<1>5. DriverOK' /\ GateOK' /\ LayoutOK'
  BY <1>1, <1>2, <1>3, NotBegun DEF IInv, DriverOK, GateOK, LayoutOK, files, bootVars
<1>. QED
  BY <1>4, <1>5 DEF IInv

LEMMA VisitPluginPreserves ==
  ASSUME IInv, NEW m \in Mods, VisitPlugin(m)
  PROVE  IInv'
<1>1. /\ pc = "plugins" /\ toVisit' \subseteq toVisit
      /\ UNCHANGED <<files, pc, resolved, version, driver, hooked, bootVars>>
  BY DEF VisitPlugin
<1>2. /\ plugins' \subseteq plugins \cup {m} /\ refused' \subseteq refused \cup {m}
      /\ m \in refused' => m \in refused \/ Refuses(m)
      /\ m \in plugins' => m \in plugins \/ ~Refuses(m)
  BY DEF VisitPlugin
<1>3. driver # "unchecked"
  BY <1>1 DEF IInv, DriverOK
<1>4. BootConsistent' /\ CallsOK' /\ LoadsOK' /\ DriverOK'
  BY <1>1, <1>2, <1>3, NotBegun
  DEF IInv, BootConsistent, TypeOK, OneLoader, CallsOK, LoadsOK, First, DriverOK,
      files, bootVars
<1>5. GateOK'
  BY <1>1, <1>2, NotBegun DEF IInv, GateOK, Refuses, files, bootVars
<1>6. LayoutOK'
  BY <1>1 DEF IInv, LayoutOK, files, bootVars
<1>. QED
  BY <1>4, <1>5, <1>6 DEF IInv

LEMMA PluginsEndPreserves == ASSUME IInv, PluginsDone \/ InstallIATHook PROVE IInv'
<1>1. /\ pc \in {"plugins", "hook"} /\ pc' \in {"hook", "up"} /\ hooked' \in BOOLEAN
      /\ UNCHANGED <<files, resolved, version, driver, toVisit, plugins, refused, bootVars>>
  BY DEF IInv, BootConsistent, TypeOK, PluginsDone, InstallIATHook, attachVars
<1>2. BootConsistent' /\ CallsOK' /\ LoadsOK'
  BY <1>1, NotBegun
  DEF IInv, BootConsistent, TypeOK, OneLoader, CallsOK, LoadsOK, First, files, bootVars
<1>3. DriverOK' /\ GateOK' /\ LayoutOK'
  BY <1>1 DEF IInv, DriverOK, GateOK, LayoutOK, files, bootVars
<1>. QED
  BY <1>2, <1>3 DEF IInv

-----------------------------------------------------------------------------
(* What does not concern the calls. *)
LEMMA OtherPartsKept ==
  ASSUME IInv, pc' = pc, UNCHANGED files, UNCHANGED <<resolved, version, hooked, plugins>>,
         driver' = driver
  PROVE  /\ game' \in GameVersions /\ version' \in {-1, game'}
         /\ pc' \in {"setup", "table", "driver", "plugins", "hook", "up", "exited"}
         /\ resolved' \subseteq {"libhl", "hl_setup"}
         /\ driver' \in {"unchecked", "valid", "invalid"}
         /\ plugins' \subseteq Mods /\ hooked' \in BOOLEAN
         /\ plugins' # {} => driver' # "unchecked"
         /\ DriverOK'
BY DEF IInv, BootConsistent, TypeOK, OneLoader, DriverOK, files

LEMMA SafeCallPreserves == ASSUME IInv, SafeCall PROVE IInv'
<1>. DEFINE place == IF fired THEN "pass" ELSE "recover"
<1>1. /\ pc = "up" /\ Len(calls) < MaxDepth /\ calls' = Append(calls, place) /\ fired' = TRUE
      /\ UNCHANGED <<files, pc, attachVars, modules, recovery, loads, offsets>>
  BY DEF SafeCall, FiredOnEntry
<1>2. /\ calls \in Seq(Places) /\ Len(calls) \in Nat /\ MaxDepth \in Nat
      /\ calls # <<>> => fired
      /\ \A i \in 2 .. Len(calls) : calls[i] \in {"pass", "passed"}
  BY AttachAssumption DEF IInv, CallsOK
<1>3. place \in Places /\ (calls # <<>> => place = "pass")
  BY <1>2 DEF Places
<1>. HIDE DEF place
<1>4. /\ calls' \in Seq(Places) /\ Len(calls') = Len(calls) + 1 /\ calls' # <<>>
      /\ Len(calls') <= MaxDepth
      /\ \A i \in 1 .. Len(calls) : calls'[i] = calls[i]
      /\ calls'[Len(calls) + 1] = place
  BY <1>1, <1>2, <1>3
<1>5. ASSUME NEW i \in 2 .. Len(calls')
      PROVE  calls'[i] \in {"pass", "passed"}
  <2>1. CASE i \in 1 .. Len(calls)
    BY <1>2, <1>4, <2>1
  <2>2. CASE i = Len(calls) + 1
    <3>1. Len(calls) # 0
      BY <2>2
    <3>2. calls # <<>>
      BY <1>2, <3>1
    <3>. QED
      BY <1>3, <1>4, <2>2, <3>2
  <2>. QED
    BY <1>2, <1>4, <2>1, <2>2
<1>6. CallsOK'
  BY <1>1, <1>4, <1>5 DEF CallsOK
<1>7. calls = <<>> => calls'[1] = place
  BY <1>2, <1>4
<1>8. calls # <<>> => calls'[1] = calls[1]
  <2>1. calls # <<>> => 1 \in 1 .. Len(calls)
    BY <1>2
  <2>. QED
    BY <1>4, <2>1
<1>9. LoadsOK'
  <2>1. UNCHANGED <<loads, modules, recovery, driver>>
    BY <1>1 DEF attachVars
  <2>2. CASE calls = <<>> /\ fired
    BY <1>1, <1>7, <2>1, <2>2 DEF LoadsOK, First, place
  <2>3. CASE calls = <<>> /\ ~fired
    BY <1>1, <1>7, <2>1, <2>3 DEF IInv, LoadsOK, First, place
  <2>4. CASE calls # <<>>
    BY <1>1, <1>2, <1>8, <2>1, <2>4 DEF IInv, LoadsOK, First
  <2>. QED
    BY <2>2, <2>3, <2>4
<1>10. BootConsistent'
  BY <1>1, <1>4 DEF IInv, BootConsistent, TypeOK, OneLoader, files, attachVars
<1>11. DriverOK' /\ GateOK' /\ LayoutOK'
  BY <1>1 DEF IInv, DriverOK, GateOK, LayoutOK, files, attachVars
<1>. QED
  BY <1>6, <1>9, <1>10, <1>11 DEF IInv

(* The first call's own work moves on: module recovery, the look for         *)
(* load_plugin, a loader that is not there, the loader's main at its end.    *)
LEMMA FirstCallMoves ==
  ASSUME IInv, NEW p \in {"recover", "check", "load", "mods"}, NEW q \in Places,
         At(p), Goto(q), UNCHANGED <<files, pc, attachVars, modules, fired, loads>>,
         recovery' \in Recoveries \cup {Untried},
         recovery' = Untried => recovery = Untried,
         offsets' \in {offsets, offsets \cup {LayoutOf(version)}},
         q \in {"check", "load"} => p \in {"recover", "check"} /\ recovery' # Untried,
         q \in {"check", "load", "pass"}
  PROVE  IInv'
<1>1. p \in Places /\ p \notin {"pass", "passed"}
  BY DEF Places
<1>2. /\ calls' \in Seq(Places) /\ Len(calls') <= MaxDepth /\ calls' # <<>>
      /\ \A i \in 2 .. Len(calls') : calls'[i] \in {"pass", "passed"}
      /\ calls'[1] = q /\ calls[1] = p /\ calls # <<>>
  BY <1>1, FirstMoves
<1>3. fired /\ pc = "up"
  BY TopCall DEF IInv
<1>4. CallsOK'
  BY <1>2, <1>3 DEF CallsOK
<1>5. UNCHANGED <<driver, version, toVisit, plugins, refused, hooked, resolved>>
      /\ UNCHANGED <<game, app, modInfo>>
  BY DEF files, attachVars
<1>6. LoadsOK'
  BY <1>2, <1>3, <1>5 DEF IInv, LoadsOK, First
<1>7. BootConsistent'
  <2>1. offsets' \subseteq {5, 6}
    BY DEF IInv, BootConsistent, TypeOK, LayoutOf
  <2>2. TypeOK'
    BY <1>2, <1>3, <1>5, <2>1 DEF IInv, BootConsistent, TypeOK
  <2>3. OneLoader'
    BY <1>5 DEF IInv, BootConsistent, OneLoader
  <2>. QED
    BY <2>2, <2>3 DEF BootConsistent
<1>8. DriverOK' /\ GateOK'
  BY <1>5 DEF IInv, DriverOK, GateOK
<1>9. LayoutOK'
  BY <1>3, <1>5 DEF IInv, BootConsistent, TypeOK, LayoutOK
<1>. QED
  BY <1>4, <1>6, <1>7, <1>8, <1>9 DEF IInv

LEMMA WorkPreserves ==
  ASSUME IInv, ModuleRecover \/ CheckLoadPlugin \/ LoadFails \/ MainEnds
  PROVE  IInv'
<1>0. "check" \in Places /\ "load" \in Places /\ "pass" \in Places
  BY DEF Places
<1>1. CASE ModuleRecover
  <2>1. recovery' \in Recoveries /\ recovery' # Untried
    BY <1>1, RecoveryAssumption DEF ModuleRecover
  <2>2. /\ At("recover") /\ Goto("check") /\ offsets' = offsets
        /\ UNCHANGED <<files, pc, attachVars, modules, fired, loads>>
    BY <1>1 DEF ModuleRecover
  <2>. QED
    BY <1>0, <2>1, <2>2, FirstCallMoves
<1>2. CASE CheckLoadPlugin
  <2>1. /\ At("check") /\ (Goto("load") \/ Goto("pass"))
        /\ offsets' \in {offsets, offsets \cup {LayoutOf(version)}}
        /\ UNCHANGED <<files, pc, attachVars, modules, fired, loads>> /\ recovery' = recovery
    BY <1>2 DEF CheckLoadPlugin
  <2>2. recovery # Untried /\ recovery \in Recoveries \cup {Untried}
    <3>1. calls # <<>> /\ calls[1] = "check"
      BY <2>1, TopCall DEF IInv
    <3>. QED
      BY <3>1 DEF IInv, LoadsOK, First, BootConsistent, TypeOK
  <2>. QED
    BY <1>0, <2>1, <2>2, FirstCallMoves
<1>3. CASE LoadFails \/ MainEnds
  <2>1. /\ At("load") \/ At("mods")
        /\ Goto("pass") /\ recovery' = recovery /\ offsets' = offsets
        /\ UNCHANGED <<files, pc, attachVars, modules, fired, loads>>
    BY <1>3 DEF LoadFails, MainEnds, AfterLoad
  <2>2. recovery \in Recoveries \cup {Untried}
    BY DEF IInv, BootConsistent, TypeOK
  <2>. QED
    BY <1>0, <2>1, <2>2, FirstCallMoves
<1>. QED
  BY <1>1, <1>2, <1>3

LEMMA LoadLoaderPreserves == ASSUME IInv, LoadLoader PROVE IInv'
<1>1. /\ At("load") /\ Goto("mods") /\ loads' = loads + 1 /\ TryDriver /\ toVisit' = Mods
      /\ UNCHANGED <<game, app, modInfo, pc, resolved, version, plugins, refused, hooked,
                     modules, fired, recovery, offsets>>
  BY DEF LoadLoader, files
<1>2. /\ "load" \in Places /\ "mods" \in Places
  BY DEF Places
<1>3. /\ calls' \in Seq(Places) /\ Len(calls') <= MaxDepth /\ calls' # <<>>
      /\ \A i \in 2 .. Len(calls') : calls'[i] \in {"pass", "passed"}
      /\ calls'[1] = "mods" /\ calls[1] = "load" /\ calls # <<>>
  BY <1>1, <1>2, FirstMoves
<1>4. fired /\ pc = "up"
  BY <1>1, TopCall DEF IInv
<1>5. loads' = 1 /\ modules = {} /\ recovery # Untried
  BY <1>1, <1>3 DEF IInv, LoadsOK, First
<1>6. driver' \in {"valid", "invalid"} /\ (driver # "unchecked" => driver' = driver)
  BY <1>1, DriverAnswers DEF IInv, BootConsistent, TypeOK
<1>7. CallsOK'
  BY <1>1, <1>3, <1>4 DEF CallsOK
<1>8. LoadsOK'
  BY <1>1, <1>3, <1>4, <1>5, <1>6 DEF LoadsOK, First
<1>9. BootConsistent'
  BY <1>1, <1>3, <1>5, <1>6 DEF IInv, BootConsistent, TypeOK, OneLoader
<1>10. DriverOK' /\ GateOK' /\ LayoutOK'
  <2>1. driver = "unchecked" => plugins = {}
    BY DEF IInv, BootConsistent, OneLoader
  <2>. QED
    BY <1>1, <1>4, <1>5, <1>6, <2>1 DEF IInv, DriverOK, GateOK, LayoutOK
<1>. QED
  BY <1>7, <1>8, <1>9, <1>10 DEF IInv

LEMMA VisitModulePreserves ==
  ASSUME IInv, NEW m \in Mods, VisitModule(m)
  PROVE  IInv'
<1>1. /\ At("mods") /\ toVisit' \subseteq toVisit
      /\ UNCHANGED <<game, app, modInfo, pc, resolved, version, driver, plugins, hooked,
                     fired, calls, recovery, loads, offsets>>
  BY DEF VisitModule, files
<1>2. /\ modules' \subseteq modules \cup {m} /\ refused' \subseteq refused \cup {m}
      /\ m \in refused' => m \in refused \/ Refuses(m)
      /\ m \in modules' => m \in modules \/ ~Refuses(m)
  BY DEF VisitModule
<1>3. /\ First({"mods"}) /\ calls[1] = "mods" /\ fired
  BY <1>1, TopCall DEF IInv, First
<1>4. loads = 1 /\ driver # "unchecked" /\ recovery # Untried
  BY <1>3 DEF IInv, LoadsOK, First
<1>5. BootConsistent' /\ CallsOK'
  BY <1>1, <1>2, <1>4 DEF IInv, BootConsistent, TypeOK, OneLoader, CallsOK
<1>6. LoadsOK'
  BY <1>1, <1>3, <1>4 DEF LoadsOK, First
<1>7. DriverOK' /\ LayoutOK'
  BY <1>1 DEF IInv, DriverOK, LayoutOK
<1>8. GateOK'
  BY <1>1, <1>2 DEF IInv, GateOK, Refuses
<1>. QED
  BY <1>5, <1>6, <1>7, <1>8 DEF IInv

(* Calls are passed on, and return. *)
LEMMA PassingPreserves ==
  ASSUME IInv, PassOn \/ Return
  PROVE  IInv'
<1>1. UNCHANGED <<game, app, modInfo, resolved, version, driver, toVisit, plugins, refused,
                  hooked, pc, modules, fired, recovery, loads, offsets>>
  BY DEF PassOn, Return, files, attachVars
<1>2. /\ calls \in Seq(Places) /\ Len(calls) \in Nat
      /\ \A i \in 2 .. Len(calls) : calls[i] \in {"pass", "passed"}
      /\ Len(calls) <= MaxDepth /\ MaxDepth \in Nat
  BY AttachAssumption DEF IInv, CallsOK
<1>3. /\ calls' \in Seq(Places) /\ Len(calls') <= MaxDepth
      /\ \A i \in 2 .. Len(calls') : calls'[i] \in {"pass", "passed"}
      /\ calls' # <<>> => calls # <<>> /\ (calls'[1] = calls[1] \/ calls'[1] = "passed")
      /\ calls # <<>> /\ fired
  <2>1. CASE PassOn
    <3>1. At("pass") /\ Goto("passed") /\ "passed" \in Places /\ calls # <<>>
      BY <2>1 DEF PassOn, Places, At
    <3>2. fired /\ Len(calls) \in 1 .. Len(calls)
      BY <3>1, TopCall DEF IInv
    <3>3. /\ calls' \in Seq(Places) /\ Len(calls') = Len(calls)
          /\ calls'[Len(calls)] = "passed"
          /\ \A i \in 1 .. Len(calls) : i # Len(calls) => calls'[i] = calls[i]
      BY <3>1, GotoMoves DEF IInv
    <3>4. ASSUME NEW i \in 2 .. Len(calls') PROVE calls'[i] \in {"pass", "passed"}
      BY <1>2, <3>3
    <3>5. calls'[1] = calls[1] \/ calls'[1] = "passed"
      <4>1. 1 \in 1 .. Len(calls)
        BY <3>2
      <4>. QED
        BY <3>3, <4>1
    <3>6. Len(calls') <= MaxDepth
      BY <1>2, <3>3
    <3>. QED
      BY <3>1, <3>2, <3>3, <3>4, <3>5, <3>6
  <2>2. CASE Return
    <3>1. calls # <<>> /\ fired /\ calls' = Front(calls)
      <4>1. At("passed") \/ At("return")
        BY <2>2 DEF Return
      <4>2. calls # <<>> /\ fired
        BY <4>1, TopCall DEF IInv
      <4>. QED
        BY <2>2, <4>2 DEF Return
    <3>2. Len(calls) - 1 \in Nat
      BY <1>2, <3>1, FrontDropsLast
    <3>3. /\ calls' \in Seq(Places) /\ Len(calls') = Len(calls) - 1
          /\ \A i \in 1 .. Len(calls) - 1 : calls'[i] = calls[i]
      BY <1>2, <3>1, FrontDropsLast
    <3>4. ASSUME NEW i \in 2 .. Len(calls') PROVE calls'[i] \in {"pass", "passed"}
      BY <1>2, <3>2, <3>3
    <3>5. calls' # <<>> => calls'[1] = calls[1]
      <4>1. calls' # <<>> => 1 \in 1 .. Len(calls) - 1
        BY <3>2, <3>3
      <4>. QED
        BY <3>3, <4>1
    <3>6. Len(calls') <= MaxDepth
      <4>1. Len(calls) - 1 <= MaxDepth
        BY <1>2
      <4>. QED
        BY <3>3, <4>1
    <3>. QED
      BY <3>1, <3>3, <3>4, <3>5, <3>6
  <2>. QED
    BY <2>1, <2>2
<1>4. CallsOK'
  BY <1>1, <1>3 DEF IInv, CallsOK
<1>5. LoadsOK'
  BY <1>1, <1>3 DEF IInv, LoadsOK, First
<1>6. BootConsistent'
  BY <1>1, <1>3 DEF IInv, BootConsistent, TypeOK, OneLoader
<1>7. DriverOK' /\ GateOK' /\ LayoutOK'
  BY <1>1 DEF IInv, DriverOK, GateOK, LayoutOK
<1>. QED
  BY <1>4, <1>5, <1>6, <1>7 DEF IInv

THEOREM IInvHolds == Spec => []IInv
<1>1. Init => IInv
  BY InitEstablishes
<1>2. IInv /\ [Next]_vars => IInv'
  <2>. SUFFICES ASSUME IInv, [Next]_vars PROVE IInv'
    OBVIOUS
  <2>1. CASE DllMain
    BY <2>1, SetupPreserves, ReadVersionPreserves, BeginPluginsPreserves,
       VisitPluginPreserves, PluginsEndPreserves
    DEF DllMain
  <2>2. CASE SafeCall
    BY <2>2, SafeCallPreserves
  <2>3. CASE BootCall
    BY <2>3, WorkPreserves, LoadLoaderPreserves, PassingPreserves DEF BootCall
  <2>4. CASE LoaderMain
    BY <2>4, WorkPreserves, VisitModulePreserves DEF LoaderMain
  <2>5. CASE Return
    BY <2>5, PassingPreserves
  <2>6. CASE UNCHANGED vars
    BY <2>6
    DEF vars, files, IInv, BootConsistent, TypeOK, OneLoader, CallsOK, LoadsOK, First,
        DriverOK, GateOK, LayoutOK
  <2>. QED
    BY <2>1, <2>2, <2>3, <2>4, <2>5, <2>6 DEF Next
<1>. QED
  BY <1>1, <1>2, PTL DEF Spec

-----------------------------------------------------------------------------
(* However safe calls nest, and whichever steps of the attach fail, the      *)
(* static latch of HookedHlDynCallSafe lets hlx-loader be loaded at most     *)
(* once, and no mod's module before module recovery and the driver were      *)
(* tried (boot.c, driver.c).                                                 *)
THEOREM BootStaysConsistent == Spec => []BootConsistent
<1>1. IInv => BootConsistent
  BY DEF IInv
<1>. QED
  BY <1>1, IInvHolds, PTL

(* The layout by which the live hl_setup is read is that of the game's own   *)
(* version whenever hlboot.dat could be read (boot.c, GetLoadPlugin).        *)
THEOREM LayoutStaysTheGames == Spec => []LayoutIsTheGames
<1>1. IInv => LayoutIsTheGames
  <2>. SUFFICES ASSUME IInv PROVE LayoutIsTheGames
    OBVIOUS
  <2>1. ~(game >= 6) <=> game < 6
    BY AttachAssumption DEF IInv, BootConsistent, TypeOK
  <2>. QED
    BY <2>1 DEF IInv, LayoutOK, LayoutIsTheGames, LayoutOf
<1>. QED
  BY <1>1, IInvHolds, PTL

(* What a module of the game is told by: code around the target, an entry     *)
(* point that is the target, and all that leads from one to the other.       *)
RunsTheTarget(c) ==
  /\ c # Fault /\ c.jit # Nothing /\ c.code # Nothing /\ c.functionsPtrs # Nothing
  /\ c.codesize \in 1 .. MaxCode /\ c.jit <= Target /\ Target < c.jit + c.codesize
  /\ c.entry # Fault /\ c.entry \in 0 .. MaxFunctions - 1 /\ c.epPtr = Target

OnlyModulesRunTheTarget ==
  \A mem \in Memories :
    /\ DOMAIN mem \subseteq Nat
    /\ \A i \in DOMAIN mem : mem[i] \in Genuine <=> RunsTheTarget(mem[i])

LEMMA FirstIsOneOfThem ==
  ASSUME NEW s, s \subseteq Nat, s # {}
  PROVE  FirstOf(s) \in s
<1>1. PICK i \in s : \A j \in s : ~(<<j, i>> \in OpToRel(<, Nat))
  BY WFMin, NatLessThanWellFounded
<1>2. \A j \in s : i <= j
  <2>. SUFFICES ASSUME NEW j \in s PROVE ~(j < i)
    OBVIOUS
  <2>1. j < i => <<j, i>> \in OpToRel(<, Nat)
    BY Zenon DEF OpToRel
  <2>. QED
    BY <1>1, <2>1
<1>. QED
  BY <1>2 DEF FirstOf

(* Recovery (module.c, module_recover) goes on with the code and the tables  *)
(* of one and the same module of the game, wherever among what resembles one *)
(* it lies, and with nothing only where there is none.                       *)
THEOREM TheGameIsRecovered ==
  ASSUME OnlyModulesRunTheTarget
  PROVE  Spec => []RecoversTheGame
<1>1. ASSUME NEW mem \in Memories
      PROVE  LET r == ModuleRecovered(mem)
             IN  \/ /\ r.code = Nothing /\ r.tables = Nothing
                    /\ ~\E i \in DOMAIN mem : mem[i] \in Genuine
                 \/ /\ r.code # Nothing
                    /\ \E c \in Genuine : r.code = c.code /\ r.tables = c.tables
  <2>1. /\ Found(mem) \subseteq Nat
        /\ Found(mem) = {i \in DOMAIN mem : mem[i] \in Genuine}
    BY DEF OnlyModulesRunTheTarget, RunsTheTarget, Found, IsMatch, InCode, Validates
  <2>2. CASE Found(mem) = {}
    BY <2>1, <2>2 DEF ModuleRecovered
  <2>3. CASE Found(mem) # {}
    <3>. DEFINE c == mem[FirstOf(Found(mem))]
    <3>1. c \in Genuine /\ RunsTheTarget(c)
      BY <2>1, <2>3, FirstIsOneOfThem DEF OnlyModulesRunTheTarget
    <3>2. ModuleRecovered(mem) = [code |-> c.code, tables |-> c.tables]
      BY <2>3 DEF ModuleRecovered, Tables
    <3>3. c.code # Nothing
      BY <3>1 DEF RunsTheTarget
    <3>. HIDE DEF c
    <3>. QED
      BY <3>1, <3>2, <3>3
  <2>. QED
    BY <2>2, <2>3
<1>2. IInv => RecoversTheGame
  <2>. SUFFICES ASSUME IInv, recovery # Untried PROVE RecoversTheGame
    BY DEF RecoversTheGame
  <2>1. recovery \in Recoveries
    BY DEF IInv, BootConsistent, TypeOK
  <2>2. PICK mem \in Memories :
          recovery = [code |-> ModuleRecovered(mem).code, tables |-> ModuleRecovered(mem).tables,
                      had |-> \E i \in DOMAIN mem : mem[i] \in Genuine]
    BY <2>1 DEF Recoveries
  <2>3. /\ recovery.code = ModuleRecovered(mem).code /\ recovery.tables = ModuleRecovered(mem).tables
        /\ recovery.had = \E i \in DOMAIN mem : mem[i] \in Genuine
    BY <2>2
  <2>. QED
    BY <1>1, <2>3 DEF RecoversTheGame
<1>. QED
  BY <1>2, IInvHolds, PTL

(* Versions have no negative component, and no maximum ends in the largest   *)
(* integer, which bound[...]++ would make the smallest.                      *)
PlainVersions ==
  /\ AppVersions \subseteq Version
  /\ \A f \in ModInfos : \A m \in Mods : PlainInfo(f[m])

(* Whatever is refused is meant to be, and whatever is loaded is meant to be *)
(* allowed once there is a game's version to compare with (modinfo.c,        *)
(* modinfo_allows_version and both its callers).                             *)
THEOREM GateDecidesAsMeant ==
  ASSUME PlainVersions
  PROVE  Spec => []GateIsWhatIsMeant
<1>1. IInv => GateIsWhatIsMeant
  <2>. SUFFICES ASSUME IInv PROVE GateIsWhatIsMeant
    OBVIOUS
  <2>1. ASSUME NEW m \in Mods
        PROVE  AllowsVersion(modInfo[m], app) <=> Meant(modInfo[m], app)
    <3>1. app \in Version /\ PlainInfo(modInfo[m])
      BY DEF PlainVersions, IInv, GateOK
    <3>. QED
      BY <3>1, AllowedAsMeant
  <2>2. plugins \subseteq Mods /\ modules \subseteq Mods /\ refused \subseteq Mods
    BY DEF IInv, BootConsistent, TypeOK
  <2>. QED
    BY <2>1, <2>2 DEF IInv, GateOK, GateIsWhatIsMeant
<1>. QED
  BY <1>1, IInvHolds, PTL

-----------------------------------------------------------------------------
(* The scan. *)

IsFunction(f) == Len(f) \in Nat /\ DOMAIN f = 1 .. Len(f) /\ \A i \in DOMAIN f : IsOp(f[i])

(* Executing opcode after opcode gives each register a value.                *)
LEMMA ContentsUnfold ==
  ASSUME NEW f, IsFunction(f)
  PROVE  /\ Contents(f)[0] = [r \in Regs |-> 0]
         /\ \A n \in 1 .. Len(f) : Contents(f)[n] = Executed(Contents(f)[n - 1], f[n], n)
         /\ \A n \in 0 .. Len(f) : Contents(f)[n] \in [Regs -> Nat]
<1>. DEFINE D == 0 .. Len(f)
            V == [Regs -> Nat]
            none == [r \in Regs |-> 0]
            sup == [i \in D |-> i - 1]
            base == [i \in D |-> none]
            step == [p \in D \X V |-> IF p[1] = 0 THEN p[2] ELSE Executed(p[2], f[p[1]], p[1])]
            Is(g) == g = [n \in 0 .. Len(f) |->
                            IF n = 0 THEN [r \in Regs |-> 0] ELSE Executed(g[n - 1], f[n], n)]
            has == CHOOSE g : Is(g)
<1>1. /\ Len(f) \in Nat /\ D \subseteq Nat
      /\ \A i \in D : i # 0 => i - 1 \in D /\ i \in 1 .. Len(f) /\ IsOp(f[i])
  BY DEF IsFunction
<1>2. Ends(sup)
  <2>1. SUFFICES ASSUME NEW S \in SUBSET D, S # {} PROVE \E i \in S : sup[i] \notin S
    BY DEF Ends
  <2>2. PICK i \in S : \A j \in S : i <= j
    BY <1>1, <2>1, LeastExists
  <2>3. i - 1 \notin S
    BY <1>1, <2>2
  <2>. QED
    BY <2>2, <2>3
<1>3. ASSUME NEW i \in 1 .. Len(f), NEW c \in V PROVE Executed(c, f[i], i) \in V
  <2>1. /\ f[i].p1 \in Regs /\ i \in Nat /\ i \in D /\ i # 0
        /\ f[i].op = "Mov" => f[i].p2 \in Regs
    BY <1>1 DEF IsOp
  <2>. QED
    BY <2>1 DEF Executed
<1>4. base \in [D -> V] /\ step \in [D \X V -> V]
  <2>1. none \in V
    OBVIOUS
  <2>2. ASSUME NEW p \in D \X V
        PROVE  (IF p[1] = 0 THEN p[2] ELSE Executed(p[2], f[p[1]], p[1])) \in V
    <3>1. p[1] \in D /\ p[2] \in V
      BY <2>2
    <3>. QED
      BY <1>1, <1>3, <3>1
  <2>. HIDE DEF V, D, none
  <2>. QED
    BY <2>1, <2>2
<1>5. PICK g \in [D -> V] : Solves(g, D, sup, base, step)
  <2>. HIDE DEF V, sup, base, step
  <2>1. DOMAIN sup = D
    BY DEF sup
  <2>. QED
    BY <1>2, <1>4, <2>1, RecursionExists
<1>6. ASSUME NEW i \in D
      PROVE  g[i] = IF i = 0 THEN none ELSE Executed(g[i - 1], f[i], i)
  <2>. HIDE DEF V, none
  <2>1. sup[i] = i - 1 /\ DOMAIN sup = D /\ base[i] = none
    OBVIOUS
  <2>2. CASE i = 0
    <3>1. sup[i] \notin D
      BY <2>1, <2>2
    <3>. HIDE DEF sup, base, step, D
    <3>. QED
      BY <1>5, <2>1, <2>2, <3>1 DEF Solves
  <2>3. CASE i # 0
    <3>1. g[i] = step[<<i, g[sup[i]]>>]
      <4>1. sup[i] \in D
        BY <1>1, <2>1, <2>3
      <4>. HIDE DEF step, base, sup, D
      <4>. QED
        BY <1>5, <2>1, <4>1 DEF Solves
    <3>2. g[i - 1] \in V
      BY <1>1, <2>3
    <3>. QED
      BY <2>1, <2>3, <3>1, <3>2
  <2>. QED
    BY <2>2, <2>3
<1>7. Is(g)
  BY <1>6
<1>8. Is(has)
  <2>. HIDE DEF Is
  <2>. QED
    BY <1>7
<1>9. Contents(f) = has
  BY DEF Contents
<1>10. ASSUME NEW i \in D
       PROVE  has[i] = IF i = 0 THEN none ELSE Executed(has[i - 1], f[i], i)
  <2>. HIDE DEF has
  <2>. QED
    BY <1>8
<1>11. ASSUME NEW i \in D PROVE has[i] \in V
  <2>. HIDE DEF has
  <2>. DEFINE S == {k \in D : has[k] \notin V}
  <2>1. SUFFICES ASSUME S # {} PROVE FALSE
    OBVIOUS
  <2>2. PICK k \in S : \A l \in S : k <= l
    BY <1>1, <2>1, LeastExists
  <2>3. CASE k = 0
    BY <1>10, <2>2, <2>3
  <2>4. CASE k # 0
    <3>1. k \in 1 .. Len(f) /\ k - 1 \in D /\ k - 1 \notin S
      BY <1>1, <2>2, <2>4
    <3>2. has[k - 1] \in V
      BY <3>1
    <3>3. has[k] = Executed(has[k - 1], f[k], k)
      BY <1>10, <2>2, <2>4
    <3>4. has[k] \in V
      <4>. HIDE DEF V
      <4>. QED
        BY <1>3, <3>1, <3>2, <3>3
    <3>. QED
      BY <2>2, <3>4
  <2>. QED
    BY <2>3, <2>4
<1>. HIDE DEF has
<1>. QED
  BY <1>1, <1>9, <1>10, <1>11

(* No register holds a value that a later opcode makes.                      *)
LEMMA OlderValues ==
  ASSUME NEW f, IsFunction(f), NEW j \in DOMAIN f, NEW r \in Regs
  PROVE  Contents(f)[j - 1][r] < j
<1>. DEFINE has == Contents(f)
            Late(k) == \E q \in Regs : has[k][q] > k
            S == {k \in 0 .. Len(f) : Late(k)}
<1>1. Len(f) \in Nat /\ j \in 1 .. Len(f) /\ DOMAIN f = 1 .. Len(f)
  BY DEF IsFunction
<1>2. /\ has[0] = [q \in Regs |-> 0]
      /\ \A k \in 1 .. Len(f) : has[k] = Executed(has[k - 1], f[k], k)
      /\ \A k \in 0 .. Len(f) : has[k] \in [Regs -> Nat]
  BY ContentsUnfold
<1>. HIDE DEF has
<1>3. SUFFICES ASSUME S # {} PROVE FALSE
  <2>1. j - 1 \in 0 .. Len(f) /\ has[j - 1][r] \in Nat
    BY <1>1, <1>2
  <2>. QED
    BY <1>1, <2>1 DEF has
<1>4. PICK k \in S : \A l \in S : k <= l
  <2>1. S \subseteq Nat
    BY <1>1
  <2>. HIDE DEF S
  <2>. QED
    BY <1>3, <2>1, LeastExists
<1>5. PICK q \in Regs : has[k][q] > k
  BY <1>4
<1>6. k # 0
  BY <1>2, <1>5
<1>7. /\ k \in 1 .. Len(f) /\ k - 1 \in 0 .. Len(f) /\ k - 1 \notin S
      /\ has[k - 1] \in [Regs -> Nat]
  BY <1>1, <1>2, <1>4, <1>6
<1>8. \A x \in Regs : has[k - 1][x] \in Nat /\ has[k - 1][x] <= k - 1
  BY <1>7
<1>9. /\ has[k] = Executed(has[k - 1], f[k], k)
      /\ f[k].op = "Mov" => f[k].p2 \in Regs
  BY <1>1, <1>2, <1>7 DEF IsFunction, IsOp
<1>10. CASE f[k].op = "NoDst" \/ f[k].p1 # q
  <2>1. has[k][q] = has[k - 1][q]
    BY <1>7, <1>9, <1>10 DEF Executed
  <2>. QED
    BY <1>5, <1>7, <1>8, <2>1
<1>11. CASE f[k].op # "NoDst" /\ f[k].p1 = q
  <2>1. has[k][q] = IF f[k].op = "Mov" THEN has[k - 1][f[k].p2] ELSE k
    BY <1>7, <1>9, <1>11 DEF Executed
  <2>. QED
    BY <1>5, <1>7, <1>8, <1>9, <2>1
<1>. QED
  BY <1>10, <1>11

(* A register holds the object that a New put there until it is written.     *)
LEMMA ObjectStaysHeld ==
  ASSUME NEW f, IsFunction(f), NEW n \in DOMAIN f, IsScannable(f[n]), NEW j \in DOMAIN f, n < j,
         \A k \in n + 1 .. j - 1 : ~WritesRegister(f[k], f[n].p1)
  PROVE  Contents(f)[j - 1][f[n].p1] = n
<1>. DEFINE has == Contents(f)
            r == f[n].p1
            S == {k \in n .. j - 1 : has[k][r] # n}
<1>1. /\ Len(f) \in Nat /\ n \in 1 .. Len(f) /\ j \in 1 .. Len(f) /\ DOMAIN f = 1 .. Len(f)
      /\ r \in Regs /\ f[n].op = "New"
  BY DEF IsFunction, IsOp, IsScannable
<1>2. /\ \A k \in 1 .. Len(f) : has[k] = Executed(has[k - 1], f[k], k)
      /\ \A k \in 0 .. Len(f) : has[k] \in [Regs -> Nat]
  BY ContentsUnfold
<1>. HIDE DEF has
<1>3. has[n][r] = n
  <2>1. has[n - 1] \in [Regs -> Nat]
    BY <1>1, <1>2
  <2>. QED
    BY <1>1, <1>2, <2>1 DEF Executed
<1>4. SUFFICES ASSUME S # {} PROVE FALSE
  <2>1. j - 1 \in n .. j - 1
    BY <1>1
  <2>. QED
    BY <2>1 DEF has
<1>5. PICK k \in S : \A l \in S : k <= l
  <2>1. S \subseteq Nat
    BY <1>1
  <2>. HIDE DEF S
  <2>. QED
    BY <1>4, <2>1, LeastExists
<1>6. k \in n + 1 .. j - 1 /\ k - 1 \in n .. j - 1 /\ k \in 1 .. Len(f)
  BY <1>1, <1>3, <1>5
<1>7. has[k - 1][r] = n /\ has[k - 1] \in [Regs -> Nat]
  <2>1. k - 1 \notin S
    BY <1>5, <1>6
  <2>. QED
    BY <1>1, <1>2, <1>6, <2>1
<1>8. has[k][r] = has[k - 1][r]
  <2>1. ~WritesRegister(f[k], r)
    BY <1>6
  <2>2. f[k].op = "NoDst" \/ f[k].p1 # r
    BY <2>1 DEF WritesRegister
  <2>3. has[k] = Executed(has[k - 1], f[k], k)
    BY <1>2, <1>6
  <2>. QED
    BY <1>1, <1>7, <2>2, <2>3 DEF Executed
<1>. QED
  BY <1>5, <1>7, <1>8

(* In a function of any length: a pair's call is given the New's object, and *)
(* is the first such call that is direct; and a first use that is direct is  *)
(* found.                                                                    *)
LEMMA ScanFindsFirstUses ==
  ASSUME NEW f, IsFunction(f)
  PROVE  /\ \A s \in Sites(f) : /\ s[2] \in Uses(f, s[1])
                                /\ \A i \in Uses(f, s[1]) : i < s[2] => ~IsDirect(f, s[1], i)
         /\ \A n \in DOMAIN f : IsScannable(f[n]) =>
              \A j \in DOMAIN f :
                IsDirect(f, n, j) /\ IsFirstUse(f, n, j) => <<n, j>> \in Sites(f)
<1>1. DOMAIN f \subseteq Nat /\ DOMAIN f = 1 .. Len(f) /\ Len(f) \in Nat
  BY DEF IsFunction
(* What the scan looks for is a use. *)
<1>2. ASSUME NEW n \in DOMAIN f, IsScannable(f[n]), NEW j \in DOMAIN f, n < j,
             IsSite(f[j], f[n].p1),
             \A k \in n + 1 .. j - 1 : ~WritesRegister(f[k], f[n].p1)
      PROVE  j \in Uses(f, n)
  <2>1. Contents(f)[j - 1][f[n].p1] = n
    BY <1>2, ObjectStaysHeld
  <2>2. f[j].op = "Call" /\ f[j].p3 = f[n].p1 /\ f[n].p1 # NoReg
    BY <1>2, ConstructorScanAssumption DEF IsSite, ExtractCallInfo, FirstArgReg, IsScannable
  <2>. QED
    BY <2>1, <2>2 DEF Uses
<1>3. ASSUME NEW s \in Sites(f)
      PROVE  /\ s[2] \in Uses(f, s[1])
             /\ \A i \in Uses(f, s[1]) : i < s[2] => ~IsDirect(f, s[1], i)
  <2>. DEFINE n == s[1]
              j == s[2]
  <2>1. /\ n \in DOMAIN f /\ j \in DOMAIN f /\ IsScannable(f[n]) /\ n < j
        /\ IsSite(f[j], f[n].p1) /\ \A k \in n + 1 .. j - 1 : ~Stops(f[k], f[n].p1)
    BY DEF Sites
  <2>. HIDE DEF n, j
  <2>2. j \in Uses(f, n)
    BY <1>2, <2>1 DEF Stops
  <2>3. ASSUME NEW i \in Uses(f, n), i < j, IsDirect(f, n, i) PROVE FALSE
    <3>1. i \in DOMAIN f /\ IsSite(f[i], f[n].p1)
      BY <2>3 DEF Uses, IsDirect, IsSite, ExtractCallInfo, FirstArgReg
    <3>2. CASE n < i
      <4>1. i \in n + 1 .. j - 1
        BY <1>1, <2>1, <2>3, <3>1, <3>2
      <4>. QED
        BY <2>1, <3>1, <4>1 DEF Stops
    <3>3. CASE ~(n < i)
      <4>1. Contents(f)[i - 1][f[n].p1] = n
        BY <2>3 DEF Uses, IsDirect
      <4>2. f[n].p1 \in Regs
        BY <2>1 DEF IsFunction, IsOp
      <4>3. n < i
        BY <3>1, <4>1, <4>2, OlderValues
      <4>. QED
        BY <3>3, <4>3
    <3>. QED
      BY <3>2, <3>3
  <2>. QED
    BY <2>2, <2>3 DEF n, j
<1>4. ASSUME NEW n \in DOMAIN f, IsScannable(f[n]), NEW j \in DOMAIN f,
             IsDirect(f, n, j), IsFirstUse(f, n, j)
      PROVE  <<n, j>> \in Sites(f)
  <2>1. IsSite(f[j], f[n].p1) /\ j \in Uses(f, n) /\ \A i \in Uses(f, n) : j <= i
    BY <1>4 DEF IsDirect, IsSite, ExtractCallInfo, FirstArgReg, IsFirstUse
  <2>2. n < j
    <3>1. Contents(f)[j - 1][f[j].p3] = n /\ f[j].p3 = f[n].p1 /\ f[n].p1 \in Regs
      BY <1>4, <2>1 DEF Uses, IsDirect, IsFunction, IsOp
    <3>. QED
      BY <1>1, <1>4, <3>1, OlderValues
  <2>3. ASSUME NEW k \in n + 1 .. j - 1 PROVE ~Stops(f[k], f[n].p1)
    <3>1. k \in DOMAIN f /\ n < k /\ ~(j <= k)
      BY <1>1
    <3>2. ~WritesRegister(f[k], f[n].p1) /\ \A l \in n + 1 .. k - 1 : ~WritesRegister(f[l], f[n].p1)
      BY <1>1, <1>4, <3>1 DEF IsDirect, WritesRegister
    <3>3. k \notin Uses(f, n)
      BY <2>1, <3>1
    <3>4. ~IsSite(f[k], f[n].p1)
      BY <1>2, <1>4, <3>1, <3>2, <3>3
    <3>. QED
      BY <3>2, <3>4 DEF Stops
  <2>. QED
    BY <1>4, <2>1, <2>2, <2>3 DEF Sites
<1>. QED
  BY <1>3, <1>4

-----------------------------------------------------------------------------
(* The table. *)

(* Every name in the table is found by probing from its hash on.             *)
NamesAreReachable ==
  \A s \in Probes :
    slots[s].name # NULL => \E p \in FoundAt(slots[s].name) : SlotOf(slots[s].name, p) = s

TableInv == code \subseteq Bodies /\ TableOK /\ NamesAreReachable /\ TableIsMap

LEMMA SlotsAreProbed ==
  ASSUME NEW n \in Names, NEW p \in Probes
  PROVE  SlotOf(n, p) \in Probes
<1>1. Hash[n] + p \in Nat /\ TableSize \in Nat /\ TableSize > 0
  BY ConstructorsAssumption DEF Probes
<1>. QED
  BY <1>1 DEF SlotOf, Probes

(* A name is found in one place; where a place is free for it, in none.      *)
OnePlace ==
  \A n \in Names : \A p \in FoundAt(n) :
    FoundAt(n) = {p} /\ Free(n) = {} /\ Lookup(n) = slots[SlotOf(n, p)].findexes

LEMMA FoundInOnePlace == OnePlace
<1>. SUFFICES ASSUME NEW n \in Names, NEW p \in FoundAt(n)
              PROVE  /\ FoundAt(n) = {p} /\ Free(n) = {}
                     /\ Lookup(n) = slots[SlotOf(n, p)].findexes
  BY DEF OnePlace
<1>1. ASSUME NEW q \in FoundAt(n) \cup Free(n) PROVE q = p
  <2>1. p \in Nat /\ q \in Nat /\ n # NULL
    BY ConstructorsAssumption DEF FoundAt, Free, Probes
  <2>2. CASE p < q
    <3>1. p \in 0 .. q - 1 /\ NameAt(n, p) = n /\ Passed(n, q)
      BY <2>1, <2>2 DEF FoundAt, Free
    <3>. QED
      BY <3>1 DEF Passed
  <2>3. CASE q < p
    <3>1. q \in 0 .. p - 1 /\ NameAt(n, q) \in {n, NULL} /\ Passed(n, p)
      BY <2>1, <2>3 DEF FoundAt, Free
    <3>. QED
      BY <3>1 DEF Passed
  <2>. QED
    BY <2>1, <2>2, <2>3
<1>2. p \notin Free(n)
  BY ConstructorsAssumption DEF FoundAt, Free
<1>. QED
  BY <1>1, <1>2 DEF BucketOf, Lookup

(* Names that stay where they are, are found where they were, when a free    *)
(* slot is taken by another.                                                 *)
LEMMA FoundStaysFound ==
  ASSUME NEW m \in Names, NEW p \in FoundAt(m),
         \A s \in Probes :
           \/ slots'[s].name = slots[s].name
           \/ slots[s].name = NULL /\ slots'[s].name \notin {m, NULL}
  PROVE  p \in FoundAt(m)'
<1>1. p \in Probes /\ NameAt(m, p) = m /\ Passed(m, p) /\ SlotOf(m, p) \in Probes /\ m # NULL
  BY SlotsAreProbed, ConstructorsAssumption DEF FoundAt
<1>2. NameAt(m, p)' = m
  BY <1>1 DEF NameAt, SlotOf
<1>3. ASSUME NEW q \in 0 .. p - 1 PROVE NameAt(m, q)' \notin {m, NULL}
  <2>1. q \in Probes /\ NameAt(m, q) \notin {m, NULL}
    BY <1>1, ConstructorsAssumption DEF Passed, Probes
  <2>2. SlotOf(m, q) \in Probes
    BY <2>1, SlotsAreProbed
  <2>. QED
    BY <2>1, <2>2 DEF NameAt, SlotOf
<1>4. Passed(m, p)'
  BY <1>3 DEF Passed
<1>. QED
  BY <1>1, <1>2, <1>4 DEF FoundAt

(* A slot that is taken for a name or has it already.                        *)
LEMMA StoringKeepsMap ==
  ASSUME TableInv, NEW n \in Names, NEW p \in FoundAt(n) \cup Free(n), NEW F \in SUBSET Findexes,
         slots' = [slots EXCEPT ![SlotOf(n, p)] = [name |-> n, findexes |-> F]],
         kept' \in [Names -> SUBSET Findexes],
         \A m \in Names : kept'[m] = IF m = n THEN F ELSE kept[m]
  PROVE  NamesAreReachable' /\ TableIsMap'
<1>. DEFINE s == SlotOf(n, p)
<1>0. OnePlace'
  BY FoundInOnePlace, PTL
<1>1. /\ s \in Probes /\ p \in Probes /\ n # NULL /\ Passed(n, p) /\ slots[s].name \in {n, NULL}
      /\ DOMAIN slots = Probes
  BY SlotsAreProbed, ConstructorsAssumption DEF FoundAt, Free, NameAt, TableInv, TableOK
<1>. HIDE DEF s
<1>2. /\ slots'[s].name = n /\ slots'[s].findexes = F
      /\ \A t \in Probes : t # s => slots'[t] = slots[t]
  BY <1>1 DEF s
<1>3. p \in FoundAt(n)'
  <2>1. ASSUME NEW q \in 0 .. p - 1 PROVE NameAt(n, q)' \notin {n, NULL}
    <3>1. q \in Probes /\ NameAt(n, q) \notin {n, NULL}
      BY <1>1, ConstructorsAssumption DEF Passed, Probes
    <3>2. SlotOf(n, q) \in Probes /\ SlotOf(n, q) # s
      BY <1>1, <3>1, SlotsAreProbed DEF NameAt
    <3>. QED
      BY <1>2, <3>1, <3>2 DEF NameAt, SlotOf
  <2>2. NameAt(n, p)' = n
    BY <1>2 DEF NameAt, SlotOf, s
  <2>. QED
    BY <1>1, <2>1, <2>2 DEF FoundAt, Passed
<1>4. ASSUME NEW m \in Names, m # n, NEW q \in FoundAt(m)
      PROVE  q \in FoundAt(m)' /\ SlotOf(m, q) # s /\ SlotOf(m, q) \in Probes
  <2>1. \A t \in Probes :
          \/ slots'[t].name = slots[t].name
          \/ slots[t].name = NULL /\ slots'[t].name \notin {m, NULL}
    BY <1>1, <1>2, <1>4
  <2>2. q \in FoundAt(m)'
    BY <2>1, FoundStaysFound
  <2>3. SlotOf(m, q) # s /\ SlotOf(m, q) \in Probes
    BY <1>1, <1>4, SlotsAreProbed, ConstructorsAssumption DEF FoundAt, NameAt
  <2>. QED
    BY <2>2, <2>3
<1>5. NamesAreReachable'
  <2>. SUFFICES ASSUME NEW t \in Probes, slots'[t].name # NULL
                PROVE  \E q \in FoundAt(slots[t].name)' : SlotOf(slots'[t].name, q) = t
    BY DEF NamesAreReachable, SlotOf
  <2>1. CASE t = s
    BY <1>2, <1>3, <2>1 DEF s
  <2>2. CASE t # s
    <3>1. slots'[t] = slots[t] /\ slots[t].name \in Names
      BY <1>2, <2>2 DEF TableInv, TableOK
    <3>2. PICK q \in FoundAt(slots[t].name) : SlotOf(slots[t].name, q) = t
      BY <3>1 DEF TableInv, NamesAreReachable
    <3>3. slots[t].name # n
      <4>1. ASSUME slots[t].name = n PROVE FALSE
        <5>1. q \in FoundAt(n) /\ SlotOf(n, q) = t
          BY <3>2, <4>1
        <5>2. FoundAt(n) = {q} /\ Free(n) = {}
          BY <5>1, FoundInOnePlace DEF OnePlace
        <5>. QED
          BY <2>2, <5>1, <5>2 DEF s
      <4>. QED
        BY <4>1
    <3>4. q \in FoundAt(slots[t].name)'
      BY <1>4, <3>1, <3>2, <3>3
    <3>. QED
      BY <3>1, <3>2, <3>4
  <2>. QED
    BY <2>1, <2>2
<1>6. ASSUME NEW m \in Names PROVE Lookup(m)' = kept'[m]
  <2>1. CASE m = n
    <3>1. Lookup(n)' = slots'[SlotOf(n, p)].findexes
      BY <1>0, <1>3 DEF OnePlace, SlotOf
    <3>. QED
      BY <1>2, <2>1, <3>1 DEF s
  <2>2. CASE FoundAt(m) # {} /\ m # n
    <3>1. PICK q \in FoundAt(m) : TRUE
      BY <2>2
    <3>2. /\ Lookup(m) = slots[SlotOf(m, q)].findexes
          /\ Lookup(m)' = slots'[SlotOf(m, q)].findexes
          /\ SlotOf(m, q) # s /\ SlotOf(m, q) \in Probes
      BY <1>0, <1>4, <2>2, FoundInOnePlace DEF OnePlace, SlotOf
    <3>. QED
      BY <1>2, <2>2, <3>2 DEF TableInv, TableIsMap
  <2>3. CASE FoundAt(m) = {} /\ m # n
    <3>1. ASSUME NEW q \in FoundAt(m)' PROVE FALSE
      <4>1. q \in Probes /\ slots'[SlotOf(m, q)].name = m
        BY DEF FoundAt, NameAt, Probes, SlotOf
      <4>2. SlotOf(m, q) \in Probes /\ m # NULL
        BY <4>1, SlotsAreProbed, ConstructorsAssumption
      <4>3. slots[SlotOf(m, q)].name = m
        BY <1>2, <2>3, <4>1, <4>2
      <4>. QED
        BY <2>3, <4>2, <4>3 DEF TableInv, NamesAreReachable
    <3>2. Lookup(m) = {} /\ Lookup(m)' = {}
      BY <2>3, <3>1 DEF Lookup
    <3>. QED
      BY <2>3, <3>2 DEF TableInv, TableIsMap
  <2>. QED
    BY <2>1, <2>2, <2>3
<1>. QED
  BY <1>5, <1>6 DEF TableIsMap

(* What the scan finds names classes and functions of the game.              *)
LEMMA CandidatesAreTyped ==
  ASSUME NEW f \in Bodies
  PROVE  Candidates(f) \subseteq [class : Classes, findex : Findexes]
<1>1. /\ \A i \in DOMAIN f : f[i].op = "Call" => f[i].p2 \in Findexes
      /\ \A r \in DOMAIN TypeOf : TypeOf[r] \in Classes
  BY ConstructorsAssumption
<1>2. ASSUME NEW s \in Sites(f)
      PROVE  TypeOf[f[s[1]].p1] \in Classes /\ f[s[2]].p2 \in Findexes
  BY <1>1 DEF Sites, IsScannable, IsSite, ExtractCallInfo
<1>. QED
  BY <1>2 DEF Candidates

LEMMA AddCandidatePreserves ==
  ASSUME TableInv, NEW c \in todo, AddCandidate(c)
  PROVE  TableInv'
<1>. DEFINE n == NameOf[c.class]
<1>1. /\ c \in [class : Classes, findex : Findexes] /\ n \in Names /\ n # NULL
      /\ phase' = phase /\ code' = code /\ recovered' = recovered /\ todo' \subseteq todo
  BY ConstructorsAssumption DEF AddCandidate, TableInv, TableOK
<1>. HIDE DEF n
<1>2. ASSUME NEW p \in FoundAt(n) \cup Free(n), NEW F \in SUBSET Findexes,
             slots' = [slots EXCEPT ![SlotOf(n, p)] = [name |-> n, findexes |-> F]],
             kept' \in [Names -> SUBSET Findexes],
             \A m \in Names : kept'[m] = IF m = n THEN F ELSE kept[m]
      PROVE  TableInv'
  <2>1. NamesAreReachable' /\ TableIsMap'
    BY <1>1, <1>2, StoringKeepsMap
  <2>2. TableOK'
    BY <1>1, <1>2 DEF TableInv, TableOK
  <2>. QED
    BY <1>1, <2>1, <2>2 DEF TableInv
<1>3. ASSUME NEW p \in FoundAt(n) \cup Free(n)
      PROVE  /\ slots[SlotOf(n, p)].findexes = kept[n]
             /\ p \in Free(n) => kept[n] = {}
             /\ kept \in [Names -> SUBSET Findexes]
  <2>1. CASE p \in FoundAt(n)
    BY <1>1, <2>1, FoundInOnePlace DEF OnePlace, TableInv, TableOK, TableIsMap
  <2>2. CASE p \in Free(n)
    <3>1. FoundAt(n) = {} /\ kept[n] = {}
      BY <1>1, <2>2, FoundInOnePlace DEF OnePlace, TableInv, TableIsMap, Lookup
    <3>2. SlotOf(n, p) \in Probes /\ slots[SlotOf(n, p)].name = NULL
      BY <1>1, <2>2, SlotsAreProbed DEF Free, NameAt
    <3>. QED
      BY <3>1, <3>2 DEF TableInv, TableOK, EmptySlot
  <2>. QED
    BY <1>3, <2>1, <2>2
<1>4. ASSUME NEW p \in FoundAt(n) \cup Free(n), Record(n, SlotOf(n, p), c.findex)
      PROVE  TableInv'
  <2>. DEFINE F == slots[SlotOf(n, p)].findexes \cup {c.findex}
  <2>1. p \in Probes /\ SlotOf(n, p) \in Probes
    BY <1>1, SlotsAreProbed DEF FoundAt, Free
  <2>2. F \in SUBSET Findexes /\ kept \in [Names -> SUBSET Findexes] /\ F = kept[n] \cup {c.findex}
    BY <1>1, <1>3
  <2>3. slots' = [slots EXCEPT ![SlotOf(n, p)] = [name |-> n, findexes |-> F]]
    BY <1>4, <2>1 DEF Record, NameCopy, Added, TableInv, TableOK
  <2>4. /\ kept' \in [Names -> SUBSET Findexes]
        /\ \A m \in Names : kept'[m] = IF m = n THEN F ELSE kept[m]
    BY <1>1, <1>4, <2>2 DEF Record
  <2>. HIDE DEF F
  <2>. QED
    BY <1>2, <2>2, <2>3, <2>4
<1>5. ASSUME NEW p \in Free(n), UNCHANGED kept,
             slots' = [slots EXCEPT ![SlotOf(n, p)] = [name |-> NameCopy(n), findexes |-> {}]]
      PROVE  TableInv'
  <2>1. kept[n] = {} /\ kept \in [Names -> SUBSET Findexes]
    BY <1>3, <1>5
  <2>2. \A m \in Names : kept'[m] = IF m = n THEN {} ELSE kept[m]
    BY <1>5, <2>1
  <2>. QED
    BY <1>1, <1>2, <1>5, <2>1, <2>2 DEF NameCopy
<1>6. CASE UNCHANGED <<slots, kept>>
  BY <1>1, <1>6 DEF TableInv, TableOK, NamesAreReachable, TableIsMap,
                    FoundAt, SlotOf, NameAt, Passed, Lookup, BucketOf
<1>. QED
  BY <1>4, <1>5, <1>6 DEF AddCandidate, n

LEMMA TableInvHolds == ReflectionSpec => []TableInv
<1>1. ReflectionInit => TableInv
  <2>. SUFFICES ASSUME ReflectionInit PROVE TableInv
    OBVIOUS
  <2>1. code \subseteq Bodies
    BY ReflectionAssumption DEF ReflectionInit
  <2>2. TableOK
    BY DEF ReflectionInit, ConstructorsInit, TableOK, EmptySlot
  <2>3. \A s \in Probes : slots[s].name = NULL
    BY DEF ReflectionInit, ConstructorsInit, EmptySlot
  <2>4. ASSUME NEW n \in Names PROVE FoundAt(n) = {}
    <3>1. ASSUME NEW p \in FoundAt(n) PROVE FALSE
      <4>1. p \in Probes /\ slots[SlotOf(n, p)].name = n
        BY DEF FoundAt, NameAt
      <4>. QED
        BY <2>3, <4>1, SlotsAreProbed, ConstructorsAssumption
    <3>. QED
      BY <3>1
  <2>5. TableIsMap
    BY <2>4 DEF ReflectionInit, ConstructorsInit, TableIsMap, Lookup
  <2>. QED
    BY <2>1, <2>2, <2>3, <2>5 DEF TableInv, NamesAreReachable
<1>2. TableInv /\ [ReflectionNext]_<<tableVars, memberVars, fileVars>> => TableInv'
  <2>. SUFFICES ASSUME TableInv, [ReflectionNext]_<<tableVars, memberVars, fileVars>>
                PROVE  TableInv'
    OBVIOUS
  <2>1. ASSUME UNCHANGED <<code, slots, kept>>, TableOK' PROVE TableInv'
    BY <2>1 DEF TableInv, NamesAreReachable, TableIsMap,
                 FoundAt, SlotOf, NameAt, Passed, Lookup, BucketOf
  <2>2. ASSUME NEW c \in todo, AddCandidate(c) PROVE TableInv'
    BY <2>2, AddCandidatePreserves
  <2>3. CASE StartScan
    <3>1. todo' \subseteq [class : Classes, findex : Findexes]
      BY <2>3, CandidatesAreTyped DEF StartScan, TableInv
    <3>. QED
      BY <2>1, <2>3, <3>1 DEF StartScan, TableInv, TableOK
  <2>4. CASE CannotRead \/ UnsupportedVersion \/ Recover \/ TableBuilt \/ UNCHANGED tableVars
    BY <2>1, <2>4
    DEF CannotRead, UnsupportedVersion, Recover, TableBuilt, tableVars, TableInv, TableOK
  <2>5. CASE MembersNext
    <3>1. UNCHANGED tableVars
      BY <2>5 DEF MembersNext, Ask, StaticInit, Assign
    <3>. QED
      BY <2>4, <3>1
  <2>. QED
    BY <2>2, <2>3, <2>4, <2>5 DEF ReflectionNext, ConstructorsNext, IndexEntrypoint
<1>. QED
  BY <1>1, <1>2, PTL DEF ReflectionSpec

(* Looking a name up finds what was recorded for it, for any table size and  *)
(* hash function, however names collide (reflection.c, FindNameBucket).      *)
THEOREM TableStaysConsistent == ReflectionSpec => []TableConsistent
<1>1. TableInv => TableConsistent
  BY DEF TableInv, TableConsistent
<1>. QED
  BY <1>1, TableInvHolds, PTL

(* In functions of any length the call paired with a New is given its object *)
(* when the function runs, no direct call before it is, and an object whose  *)
(* first use is direct has its pair (ScanFileFunctionForConstructors).       *)
THEOREM SitesAreFound == ReflectionSpec => []SitesAreFirstUses
<1>1. TableInv => SitesAreFirstUses
  <2>1. ASSUME TableInv, NEW f \in code PROVE IsFunction(f)
    BY <2>1, ConstructorsAssumption DEF TableInv, IsFunction
  <2>. QED
    BY <2>1, ScanFindsFirstUses DEF SitesAreFirstUses
<1>. QED
  BY <1>1, TableInvHolds, PTL

-----------------------------------------------------------------------------
(* Construction. *)

(* An array is unpacked whole, or the call refused when it is too long.      *)
LEMMA ArraysAreUnpacked ==
  ASSUME NEW args \in Arrays, NEW max \in Nat
  PROVE  /\ CanBeRead(args) => Given(args) \in Nat
         /\ DynArgs(args, max) =
              IF CanBeRead(args) /\ Given(args) <= max THEN Given(args) ELSE Refused
<1>1. CASE args = NULL
  BY <1>1 DEF CanBeRead, Given, DynArgs, NoArray
<1>2. CASE args # NULL
  <2>. DEFINE a == ResolveToArrayObj(args)
  <2>1. a = NULL \/ a.length \in Nat
    BY <1>2, DynArgsAssumption DEF ResolveToArrayObj, IsArrayObj
  <2>. HIDE DEF a
  <2>. QED
    BY <1>2, <2>1 DEF CanBeRead, Given, DynArgs, NoArray, a
<1>. QED
  BY <1>1, <1>2

(* Which constructor a class is given, and with which arguments: its own or  *)
(* none (construct_instance_by_name, construct_instance).                    *)
THEOREM ConstructorsAreOwn == ReflectionSpec => []OwnConstructorOrNone
<1>1. TableInv => OwnConstructorOrNone
  <2>. SUFFICES ASSUME TableInv, phase = "built", NEW c \in Classes, NEW args \in Arrays
                PROVE  /\ Known(c) => Construct(c, NArgs[CtorOf[c]], args) =
                                        IF Rivals(c) = {} THEN Calls(CtorOf[c], args) ELSE NotCalled
                       /\ CtorOf[c] \in Callable =>
                            ConstructInstance(CtorOf[c], args) = Calls(CtorOf[c], args)
    BY DEF OwnConstructorOrNone
  <2>. DEFINE f == CtorOf[c]
              M == Matches(NameOf[c], NArgs[f])
  <2>1. f \in Findexes /\ f # NULL /\ NULL \notin Callable /\ NameOf[c] \in Names
    BY ConstructorsAssumption
  <2>2. Constructed(f, args) = IF CanBeRead(args) /\ Given(args) < MaxDynArgs
                               THEN [called |-> f, elements |-> 1 + Given(args)] ELSE NotCalled
    <3>1. MaxDynArgs - 1 \in Nat /\ MaxDynArgs \in Nat
      BY DynArgsAssumption
    <3>2. CanBeRead(args) => Given(args) \in Nat /\ Given(args) # Refused
      BY <3>1, ArraysAreUnpacked DEF Refused
    <3>3. DynArgs(args, MaxDynArgs - 1) =
            IF CanBeRead(args) /\ Given(args) < MaxDynArgs THEN Given(args) ELSE Refused
      BY <3>1, <3>2, ArraysAreUnpacked
    <3>. QED
      BY <2>1, <3>2, <3>3 DEF Constructed
  <2>3. f \in Callable => ConstructInstance(f, args) = Calls(f, args)
    BY <2>1, <2>2 DEF ConstructInstance, ResolveFunctionByFindex, Calls, Constructed
  <2>4. ASSUME Known(c)
        PROVE  Construct(c, NArgs[f], args) = IF Rivals(c) = {} THEN Calls(f, args) ELSE NotCalled
    <3>1. M = IF recovered THEN {f} \cup Rivals(c) ELSE {}
      BY <2>1, <2>4 DEF Matches, ResolveFunctionByFindex, Known, Rivals, TableInv, TableIsMap
    <3>2. f \notin Rivals(c)
      BY DEF Rivals
    <3>. HIDE DEF M
    <3>3. Chosen(M) = IF recovered /\ Rivals(c) = {} THEN f ELSE NULL
      BY <3>1, <3>2 DEF Chosen
    <3>. QED
      BY <2>1, <2>2, <3>3 DEF Construct, Constructed, Calls, M
  <2>. QED
    BY <2>3, <2>4
<1>. QED
  BY <1>1, TableInvHolds, PTL

-----------------------------------------------------------------------------
(* Static fields and enum values. *)

ObjectsOfTypes == table \in TypeTables /\ ready \subseteq DOMAIN types

LEMMA ObjectsStayOfTypes == ReflectionSpec => []ObjectsOfTypes
<1>1. ReflectionInit => ObjectsOfTypes
  BY ReflectionAssumption DEF ReflectionInit, MembersInit, ObjectsOfTypes
<1>2. ObjectsOfTypes /\ [ReflectionNext]_<<tableVars, memberVars, fileVars>> => ObjectsOfTypes'
  <2>. SUFFICES ASSUME ObjectsOfTypes, [ReflectionNext]_<<tableVars, memberVars, fileVars>>
                PROVE  ObjectsOfTypes'
    OBVIOUS
  <2>1. CASE UNCHANGED memberVars
    BY <2>1 DEF memberVars, ObjectsOfTypes, types
  <2>2. CASE MembersNext
    BY <2>2 DEF MembersNext, Ask, StaticInit, Assign, ObjectsOfTypes, types
  <2>. QED
    BY <2>1, <2>2 DEF ReflectionNext, IndexEntrypoint
<1>. QED
  BY <1>1, <1>2, PTL DEF ReflectionSpec

(* A type that is found by name is one of the table, and has that name.      *)
LEMMA NamedTypeIsTyped ==
  ASSUME ObjectsOfTypes, NEW name, TypeNamed(types, name) # NULL
  PROVE  /\ TypeNamed(types, name) \in DOMAIN types
         /\ types[TypeNamed(types, name)].name = name
         /\ types[TypeNamed(types, name)].kind \in {HOBJ, HENUM}
<1>. DEFINE N == {i \in DOMAIN types : types[i].kind \in {HOBJ, HENUM} /\ types[i].name = name}
<1>1. N # {} /\ N \subseteq Nat
  BY MembersAssumption DEF ObjectsOfTypes, IsTypeTable, TypeNamed, types
<1>2. Min(N) \in N
  BY <1>1, MinIsLeast
<1>. QED
  BY <1>1, <1>2 DEF TypeNamed

(* The companion is found by its name, unless that is too long to build.     *)
LEMMA CompanionIsFound ==
  ASSUME ObjectsOfTypes, NEW t \in DOMAIN types
  PROVE  TypeNamed(types, BuildCompanionTypeName(types[t].name)) =
           IF types[t].name \in LongNames THEN NULL ELSE StaticOf(t)
<1>1. \A i \in DOMAIN types : types[i].name # NULL
  BY MembersAssumption DEF ObjectsOfTypes, IsTypeTable, IsTypeOf, types
<1>2. TypeNamed(types, NULL) = NULL
  BY <1>1 DEF TypeNamed
<1>. QED
  BY <1>2 DEF BuildCompanionTypeName, StaticOf

(* When a type has one global, that is its object's.                         *)
LEMMA OnlyGlobalIsItsObjects ==
  ASSUME ObjectsOfTypes, NEW c \in DOMAIN types
  PROVE  /\ ScannedGlobal(c) # NULL => c \in ready /\ ScannedGlobal(c) = types[c].name
         /\ c \in ready /\ Cardinality(GlobalsOf(c)) = 1 => ScannedGlobal(c) = types[c].name
<1>1. ASSUME NEW i, GlobalsOf(c) = {i}
      PROVE  ScannedGlobal(c) = IF c \in ready THEN types[c].name ELSE NULL
  <2>1. /\ i \in DOMAIN table.globals /\ table.globals[i].type = c
        /\ \A j \in DOMAIN table.globals : table.globals[j].type = c => j = i
    BY <1>1 DEF GlobalsOf
  <2>2. table.globals[i].object = types[c].name
    BY <2>1, MembersAssumption DEF IsTypeTable, IsTypeOf, ObjectsOfTypes, types
  <2>3. ScannedGlobal(c) = Global(i)
    BY <1>1 DEF ScannedGlobal
  <2>. QED
    BY <2>1, <2>2, <2>3 DEF Global
<1>2. (~\E i \in GlobalsOf(c) : GlobalsOf(c) = {i}) => ScannedGlobal(c) = NULL
  BY DEF ScannedGlobal
<1>3. ASSUME Cardinality(GlobalsOf(c)) = 1 PROVE \E i : GlobalsOf(c) = {i}
  <2>1. Len(table.globals) \in Nat /\ GlobalsOf(c) \subseteq 1 .. Len(table.globals)
    BY MembersAssumption DEF IsTypeTable, IsTypeOf, ObjectsOfTypes, GlobalsOf
  <2>2. IsFiniteSet(GlobalsOf(c))
    <3>1. IsFiniteSet(1 .. Len(table.globals))
      BY <2>1, FS_Interval
    <3>. QED
      BY <2>1, <3>1, FS_Subset
  <2>. QED
    BY <1>3, <2>2, FS_Singleton
<1>. QED
  BY <1>1, <1>2, <1>3

(* Static fields are read and written in the class's own object or nowhere,  *)
(* and enum values have their own parameters (get_static_companion_instance, *)
(* construct_enum_by_name).                                                  *)
THEOREM CompanionsAreTheGames == ReflectionSpec => []CompanionIsTheGames
<1>1. ObjectsOfTypes => CompanionIsTheGames
  <2>. SUFFICES ASSUME ObjectsOfTypes, NEW t \in DOMAIN types
                PROVE  LET i == CompanionInstance(t)
                           c == IF types[t].kind = HENUM THEN t ELSE StaticOf(t)
                       IN  /\ i # NULL => c \in ready /\ i = types[c].name
                           /\ types[t].kind \in {HOBJ, HENUM} /\ c \in ready
                                /\ (types[t].kind = HENUM \/ types[t].name \notin LongNames)
                                /\ (types[c].global \/ Cardinality(GlobalsOf(c)) = 1) =>
                                i = types[c].name
                           /\ types[t].kind = HENUM =>
                                \A j \in DOMAIN types[t].constructs, args \in Arrays :
                                  ConstructEnum(t, types[t].constructs[j].name, args) =
                                    IF /\ CanBeRead(args)
                                       /\ Given(args) = types[t].constructs[j].nparams
                                       /\ Given(args) <= MaxDynArgs
                                    THEN [called |-> j, elements |-> Given(args)] ELSE NotCalled
    BY DEF CompanionIsTheGames
  <2>1. CASE types[t].kind = HENUM
    <3>1. types[t].global
      BY <2>1, MembersAssumption DEF IsTypeTable, IsTypeOf, ObjectsOfTypes, types
    <3>2. CompanionInstance(t) = OwnGlobal(t)
      BY <2>1, <3>1 DEF CompanionInstance, HENUM, HOBJ
    <3>3. ASSUME NEW j \in DOMAIN types[t].constructs, NEW args \in Arrays
          PROVE  ConstructEnum(t, types[t].constructs[j].name, args) =
                   IF /\ CanBeRead(args)
                      /\ Given(args) = types[t].constructs[j].nparams
                      /\ Given(args) <= MaxDynArgs
                   THEN [called |-> j, elements |-> Given(args)] ELSE NotCalled
      <4>. DEFINE named == {i \in DOMAIN types[t].constructs :
                              types[t].constructs[i].name = types[t].constructs[j].name}
      <4>1. named = {j} /\ j \in Nat
        BY MembersAssumption DEF IsTypeTable, IsTypeOf, ObjectsOfTypes, types
      <4>2. Min(named) = j
        BY <4>1 DEF Min
      <4>3. /\ CanBeRead(args) => Given(args) \in Nat /\ Given(args) # Refused
            /\ DynArgs(args, MaxDynArgs) =
                 IF CanBeRead(args) /\ Given(args) <= MaxDynArgs THEN Given(args) ELSE Refused
        BY DynArgsAssumption, ArraysAreUnpacked DEF Refused
      <4>. HIDE DEF named
      <4>. QED
        BY <2>1, <4>1, <4>2, <4>3 DEF ConstructEnum, named
    <3>. QED
      BY <2>1, <3>2, <3>3, MembersAssumption DEF IsTypeTable, IsTypeOf, OwnGlobal, ObjectsOfTypes, types
  <2>2. CASE types[t].kind # HENUM
    <3>. DEFINE c == StaticOf(t)
    <3>1. c # NULL => c \in DOMAIN types /\ types[c].kind = HOBJ /\ types[c].name # NULL
      <4>1. SUFFICES ASSUME c # NULL
                     PROVE  c \in DOMAIN types /\ types[c].kind = HOBJ /\ types[c].name # NULL
        OBVIOUS
      <4>2. c \in DOMAIN types /\ types[c].name = CompanionName(types[t].name)
        BY <4>1, NamedTypeIsTyped DEF StaticOf
      <4>3. IsCompanionOf(table, c, t) /\ types[c].name # NULL
        BY <4>2, MembersAssumption DEF IsTypeTable, IsTypeOf, ObjectsOfTypes, types
      <4>. QED
        BY <4>2, <4>3 DEF IsCompanionOf, types
    <3>2. c \in ready => c # NULL
      BY MembersAssumption DEF IsTypeTable, IsTypeOf, ObjectsOfTypes, types
    <3>3. CompanionInstance(t) =
            IF types[t].kind = HOBJ /\ c # NULL /\ types[t].name \notin LongNames
            THEN IF types[c].global THEN OwnGlobal(c) ELSE ScannedGlobal(c) ELSE NULL
      BY <2>2, <3>1, CompanionIsFound DEF CompanionInstance
    <3>. HIDE DEF c
    <3>4. c # NULL => /\ OwnGlobal(c) # NULL => c \in ready
                      /\ c \in ready => OwnGlobal(c) = types[c].name
      BY DEF OwnGlobal
    <3>. QED
      BY <2>2, <3>1, <3>2, <3>3, <3>4, OnlyGlobalIsItsObjects DEF c
  <2>. QED
    BY <2>1, <2>2
<1>. QED
  BY <1>1, ObjectsStayOfTypes, PTL

-----------------------------------------------------------------------------
(* Types along their supertypes. *)

(* What is computed from each supertype's is what its definition says.       *)
LEMMA SingletonList ==
  ASSUME NEW S, NEW e \in S
  PROVE  <<e>> \in Seq(S)
  OBVIOUS

LEMMA LineageUnfolds ==
  ASSUME NEW g \in TypeTables, NEW t \in DOMAIN g.types
  PROVE  /\ Lineage(g.types, t) \in Seq(DOMAIN g.types)
         /\ Lineage(g.types, t) =
              IF g.types[t].super = NULL THEN <<t>>
              ELSE <<t>> \o Lineage(g.types, g.types[t].super)
<1>. DEFINE ts == g.types
            D == DOMAIN ts
            V == Seq(D)
            sup == [i \in D |-> ts[i].super]
            base == [i \in D |-> <<i>>]
            step == [p \in D \X V |-> <<p[1]>> \o p[2]]
            Is(f) == f = [i \in D |-> IF ts[i].super = NULL THEN <<i>> ELSE <<i>> \o f[ts[i].super]]
            line == CHOOSE f : Is(f)
<1>1. \A i \in D : ts[i].super \in D \cup {NULL} /\ NULL \notin D
  BY MembersAssumption DEF IsTypeTable, IsTypeOf
<1>2. Ends(sup)
  <2>. SUFFICES ASSUME NEW S \in SUBSET D, S # {} PROVE \E i \in S : sup[i] \notin S
    BY DEF Ends
  <2>1. \E i \in S : ts[i].super \notin S
    BY MembersAssumption DEF IsTypeTable
  <2>. QED
    BY <2>1
<1>3. base \in [D -> V] /\ step \in [D \X V -> V]
  <2>1. ASSUME NEW i \in D PROVE <<i>> \in V
    BY SingletonList
  <2>2. ASSUME NEW p \in D \X V PROVE <<p[1]>> \o p[2] \in V
    OBVIOUS
  <2>. QED
    BY <2>1, <2>2
<1>4. PICK f \in [D -> V] : Solves(f, D, sup, base, step)
  <2>. HIDE DEF V, sup, base, step
  <2>1. DOMAIN sup = D
    BY DEF sup
  <2>. QED
    BY <1>2, <1>3, <2>1, RecursionExists
<1>5. \A i \in D : f[i] = IF ts[i].super = NULL THEN <<i>> ELSE <<i>> \o f[ts[i].super]
  BY <1>1, <1>4 DEF Solves
<1>6. Is(f)
  BY <1>5
<1>7. Is(line)
  <2>. HIDE DEF Is
  <2>. QED
    BY <1>6
<1>8. \A i \in D : line[i] = Lineage(ts, i)
  BY DEF Lineage
<1>9. ASSUME NEW i \in D PROVE line[i] = IF ts[i].super = NULL THEN <<i>> ELSE <<i>> \o line[ts[i].super]
  <2>. HIDE DEF line
  <2>. QED
    BY <1>7
<1>10. ASSUME NEW i \in D PROVE line[i] \in V
  <2>. HIDE DEF line
  <2>. DEFINE S == {j \in D : line[j] \notin V}
  <2>1. SUFFICES ASSUME S # {} PROVE FALSE
    OBVIOUS
  <2>2. PICK j \in S : ts[j].super \notin S
    BY <2>1, MembersAssumption DEF IsTypeTable
  <2>3. <<j>> \in V
    BY <2>2, <1>3
  <2>4. ts[j].super \in D => line[ts[j].super] \in V
    BY <2>2
  <2>5. ts[j].super \in D => <<j>> \o line[ts[j].super] \in V
    <3>1. ASSUME NEW s \in V PROVE <<j>> \o s \in V
      BY <2>2, PrependShifts
    <3>. QED
      BY <2>4, <3>1
  <2>. QED
    BY <1>1, <1>9, <2>2, <2>3, <2>5
<1>. HIDE DEF line
<1>. QED
  BY <1>1, <1>8, <1>9, <1>10

LEMMA FieldsAreCounted ==
  ASSUME NEW g \in TypeTables, NEW t \in DOMAIN g.types
  PROVE  /\ FieldsAbove(g.types, t) \in Int
         /\ FieldsAbove(g.types, t) =
              IF g.types[t].super = NULL THEN 0
              ELSE FieldsAbove(g.types, g.types[t].super) + Len(g.types[g.types[t].super].fields)
<1>. DEFINE ts == g.types
            D == DOMAIN ts
            sup == [i \in D |-> ts[i].super]
            base == [i \in D |-> 0]
            step == [p \in D \X Int |->
                       IF sup[p[1]] \in D THEN p[2] + Len(ts[sup[p[1]]].fields) ELSE 0]
            Is(f) == f = [i \in D |-> IF ts[i].super = NULL THEN 0
                                     ELSE f[ts[i].super] + Len(ts[ts[i].super].fields)]
            above == CHOOSE f : Is(f)
<1>1. \A i \in D : /\ ts[i].super \in D \cup {NULL} /\ NULL \notin D
                   /\ Len(ts[i].fields) \in Int
  BY MembersAssumption DEF IsTypeTable, IsTypeOf
<1>2. Ends(sup)
  <2>. SUFFICES ASSUME NEW S \in SUBSET D, S # {} PROVE \E i \in S : sup[i] \notin S
    BY DEF Ends
  <2>1. \E i \in S : ts[i].super \notin S
    BY MembersAssumption DEF IsTypeTable
  <2>. QED
    BY <2>1
<1>3. base \in [D -> Int] /\ step \in [D \X Int -> Int]
  BY <1>1
<1>4. PICK f \in [D -> Int] : Solves(f, D, sup, base, step)
  <2>. HIDE DEF sup, base, step
  <2>1. DOMAIN sup = D
    BY DEF sup
  <2>. QED
    BY <1>2, <1>3, <2>1, RecursionExists
<1>5. ASSUME NEW i \in D
      PROVE  f[i] = IF ts[i].super = NULL THEN 0
                    ELSE f[ts[i].super] + Len(ts[ts[i].super].fields)
  <2>1. CASE ts[i].super = NULL
    BY <1>1, <1>4, <2>1 DEF Solves
  <2>2. CASE ts[i].super \in D
    <3>1. sup[i] = ts[i].super /\ DOMAIN sup = D
      OBVIOUS
    <3>2. f[i] = step[<<i, f[sup[i]]>>]
      <4>. HIDE DEF step, base, sup
      <4>. QED
        BY <1>4, <2>2, <3>1 DEF Solves
    <3>3. f[sup[i]] \in Int
      BY <2>2
    <3>. QED
      BY <1>1, <2>2, <3>2, <3>3
  <2>. QED
    BY <1>1, <2>1, <2>2
<1>6. Is(f)
  BY <1>5
<1>7. Is(above)
  <2>. HIDE DEF Is
  <2>. QED
    BY <1>6
<1>8. \A i \in D : FieldsAbove(ts, i) = above[i]
  BY DEF FieldsAbove
<1>9. ASSUME NEW i \in D
      PROVE  above[i] = IF ts[i].super = NULL THEN 0
                        ELSE above[ts[i].super] + Len(ts[ts[i].super].fields)
  <2>. HIDE DEF above
  <2>. QED
    BY <1>7
<1>10. ASSUME NEW i \in D PROVE above[i] \in Int
  <2>. HIDE DEF above
  <2>. DEFINE S == {j \in D : above[j] \notin Int}
  <2>1. SUFFICES ASSUME S # {} PROVE FALSE
    OBVIOUS
  <2>2. PICK j \in S : ts[j].super \notin S
    BY <2>1, MembersAssumption DEF IsTypeTable
  <2>. QED
    BY <1>1, <1>9, <2>2
<1>. HIDE DEF above
<1>. QED
  BY <1>1, <1>8, <1>9, <1>10

(* The types a type inherits from, itself included.                          *)
Line(ts, t) == ToSet(Lineage(ts, t))

LEMMA LinesAscend ==
  ASSUME NEW g \in TypeTables, NEW t \in DOMAIN g.types
  PROVE  /\ Line(g.types, t) \subseteq DOMAIN g.types
         /\ t \in Line(g.types, t)
         /\ g.types[t].super = NULL =>
              Line(g.types, t) = {t} /\ Tail(Lineage(g.types, t)) = <<>>
         /\ g.types[t].super # NULL =>
              /\ g.types[t].super \in DOMAIN g.types
              /\ Line(g.types, t) = {t} \cup Line(g.types, g.types[t].super)
              /\ Tail(Lineage(g.types, t)) = Lineage(g.types, g.types[t].super)
<1>. DEFINE ts == g.types
            D == DOMAIN ts
            u == ts[t].super
            l == Lineage(ts, t)
<1>1. l \in Seq(D) /\ l = IF u = NULL THEN <<t>> ELSE <<t>> \o Lineage(ts, u)
  BY LineageUnfolds
<1>2. CASE u = NULL
  BY <1>1, <1>2 DEF Line, ToSet
<1>3. CASE u # NULL
  <2>1. u \in D
    BY <1>3, MembersAssumption DEF IsTypeTable, IsTypeOf
  <2>. DEFINE a == Lineage(ts, u)
  <2>2. a \in Seq(D)
    BY <2>1, LineageUnfolds
  <2>. HIDE DEF a, D
  <2>3. /\ l = <<t>> \o a /\ Len(l) = Len(a) + 1
        /\ \A j \in 1 .. Len(a) + 1 : l[j] = IF j = 1 THEN t ELSE a[j - 1]
    BY <1>1, <1>3, <2>2, PrependShifts DEF D, a
  <2>. HIDE DEF l
  <2>4. Tail(l) = a
    BY <2>2, <2>3
  <2>5. ToSet(l) = {t} \cup ToSet(a) /\ ToSet(a) \subseteq D /\ t \in D
    <3>1. t \in D
      BY DEF D
    <3>2. ToSet(<<t>> \o a) = {t} \cup ToSet(a)
      BY <2>2, <3>1, PrependAdds
    <3>3. ToSet(a) \subseteq D
      BY <2>2 DEF ToSet
    <3>. QED
      BY <2>3, <3>1, <3>2, <3>3
  <2>. QED
    BY <1>3, <2>1, <2>4, <2>5 DEF Line, l, a, D
<1>. QED
  BY <1>2, <1>3

LEMMA LinesAreClosed ==
  ASSUME NEW g \in TypeTables, NEW t \in DOMAIN g.types, NEW a \in Line(g.types, t)
  PROVE  a \in DOMAIN g.types /\ Line(g.types, a) \subseteq Line(g.types, t)
<1>. DEFINE ts == g.types
            S == {j \in DOMAIN ts : ~\A b \in Line(ts, j) : Line(ts, b) \subseteq Line(ts, j)}
<1>1. SUFFICES ASSUME S # {} PROVE FALSE
  BY LinesAscend
<1>2. PICK j \in S : ts[j].super \notin S
  BY <1>1, MembersAssumption DEF IsTypeTable
<1>3. PICK b \in Line(ts, j) : ~(Line(ts, b) \subseteq Line(ts, j))
  BY <1>2
<1>. DEFINE u == ts[j].super
<1>4. /\ b # j
      /\ u = NULL => Line(ts, j) = {j}
      /\ u # NULL => u \in DOMAIN ts /\ Line(ts, j) = {j} \cup Line(ts, u)
  <2>1. j \in DOMAIN ts
    BY <1>2
  <2>. QED
    BY <1>3, <2>1, LinesAscend
<1>. QED
  BY <1>2, <1>3, <1>4

-----------------------------------------------------------------------------
(* What a member's name resolves to. *)

(* HashLink dispatches to a method of the type or of one it inherits from.   *)
LEMMA NearestDefines ==
  ASSUME table \in TypeTables, NEW t \in DOMAIN types, NEW m, Defines(t, m)
  PROVE  /\ NearestDefining(t, m) \in Line(types, t)
         /\ m \in DOMAIN types[NearestDefining(t, m)].methods
<1>. DEFINE l == Lineage(types, t)
            N == {i \in DOMAIN l : m \in DOMAIN types[l[i]].methods}
<1>1. l \in Seq(DOMAIN types)
  BY LineageUnfolds DEF types
<1>2. PICK a \in ToSet(l) : m \in DOMAIN types[a].methods
  BY DEF Defines
<1>3. N # {} /\ N \subseteq Nat
  BY <1>1, <1>2 DEF ToSet
<1>4. Min(N) \in N
  BY <1>3, MinIsLeast
<1>5. NearestDefining(t, m) = l[Min(N)]
  BY DEF NearestDefining
<1>. HIDE DEF l
<1>. QED
  BY <1>4, <1>5 DEF Line, ToSet, l

(* The lookup that a name is found in is a type's that is inherited from.    *)
LEMMA OwnerLooksUp ==
  ASSUME table \in TypeTables, NEW t \in DOMAIN types, NEW m, Owners(t, m) # {}
  PROVE  Owner(t, m) \in Line(types, t) /\ InLookup(Owner(t, m), m)
<1>1. Lineage(types, t) \in Seq(DOMAIN types)
  BY LineageUnfolds DEF types
<1>2. Owners(t, m) \subseteq Nat
  BY <1>1 DEF Owners
<1>3. Min(Owners(t, m)) \in Owners(t, m)
  BY <1>2, MinIsLeast
<1>. QED
  BY <1>3 DEF Owner, Owners, Line, ToSet

(* The topmost type that has a method introduces it, and lists it.           *)
LEMMA MethodsAreListed ==
  ASSUME table \in TypeTables, NEW t \in DOMAIN types, NEW m, Defines(t, m)
  PROVE  Owners(t, m) # {}
<1>. DEFINE Has(b) == \E a \in Line(types, b) : m \in DOMAIN types[a].methods
            S == {b \in Line(types, t) : Has(b)}
<1>1. t \in S /\ S \subseteq DOMAIN types
  BY LinesAscend DEF Defines, Line, types
<1>2. PICK b \in S : types[b].super \notin S
  BY <1>1, MembersAssumption DEF IsTypeTable, types
<1>. DEFINE u == types[b].super
<1>3. /\ b \in DOMAIN types /\ b \in Line(types, b) /\ Line(types, b) \subseteq Line(types, t)
      /\ u = NULL => Line(types, b) = {b} /\ Tail(Lineage(types, b)) = <<>>
      /\ u # NULL => /\ u \in DOMAIN types /\ u \in Line(types, u)
                     /\ Line(types, b) = {b} \cup Line(types, u)
                     /\ Tail(Lineage(types, b)) = Lineage(types, u)
  BY <1>1, <1>2, LinesAscend, LinesAreClosed DEF types
<1>4. u # NULL => ~Has(u)
  BY <1>2, <1>3
<1>5. m \in DOMAIN types[b].methods
  BY <1>2, <1>3, <1>4
<1>6. \A a \in ToSet(Tail(Lineage(types, b))) : m \notin DOMAIN types[a].methods
  <2>1. CASE u = NULL
    BY <1>3, <2>1 DEF ToSet
  <2>2. CASE u # NULL
    BY <1>3, <1>4, <2>2 DEF Line
  <2>. QED
    BY <2>1, <2>2
<1>7. b \in Line(types, t) /\ InLookup(b, m)
  BY <1>2, <1>5, <1>6 DEF InLookup
<1>. QED
  BY <1>7 DEF Line, ToSet, Owners

(* A method of any depth resolves to what HashLink dispatches to, with the   *)
(* arguments of that function.                                               *)
LEMMA MethodIsResolved ==
  ASSUME ObjectsOfTypes, NEW t \in DOMAIN types, NEW m, Defines(t, m), types[t].kind = HOBJ
  PROVE  /\ Methods(t, m) \in Findexes
         /\ ResolveMember(t, m) = Resolved(Methods(t, m), NArgs[Methods(t, m)])
<1>. DEFINE o == Owner(t, m)
            line == Line(types, t)
<1>1. table \in TypeTables
  BY DEF ObjectsOfTypes
<1>2. Owners(t, m) # {} /\ o \in line /\ InLookup(o, m)
  BY <1>1, MethodsAreListed, OwnerLooksUp
<1>3. PICK a \in line : m \in DOMAIN types[a].methods
  BY DEF Defines, Line
<1>4. \A b \in line : m \notin ToSet(types[b].fields)
  BY <1>1, <1>3, MembersAssumption DEF IsTypeTable, IsTypeOf, types, Line
<1>5. ~IsField(o, m) /\ m \in DOMAIN types[o].methods
  BY <1>2, <1>4 DEF IsField, InLookup
<1>6. o \in DOMAIN types /\ o \in Line(types, o) /\ Line(types, o) \subseteq line
  BY <1>1, <1>2, LinesAscend, LinesAreClosed DEF types
<1>7. Defines(o, m)
  BY <1>5, <1>6 DEF Defines, Line
<1>. DEFINE p == NearestDefining(t, m)
            q == NearestDefining(o, m)
<1>8. p \in line /\ m \in DOMAIN types[p].methods /\ q \in line /\ m \in DOMAIN types[q].methods
  BY <1>1, <1>6, <1>7, NearestDefines
<1>9. /\ types[p].methods[m] \in Findexes
      /\ NArgs[types[p].methods[m]] = NArgs[types[q].methods[m]]
  <2>1. p \in DOMAIN types
    BY <1>1, <1>8, LinesAscend DEF types
  <2>2. types[p].methods[m] \in Findexes
    BY <1>1, <1>8, <2>1, MembersAssumption DEF IsTypeTable, IsTypeOf, types
  <2>3. NArgs[types[p].methods[m]] = NArgs[types[q].methods[m]]
    BY <1>1, <1>8, MembersAssumption DEF IsTypeTable, IsTypeOf, types, Line
  <2>. QED
    BY <2>2, <2>3
<1>. QED
  BY <1>2, <1>5, <1>9 DEF ResolveMember, MethodOf, Methods

(* The function bound to a companion's field, unless it is a method of it.   *)
LEMMA StaticIsResolved ==
  ASSUME ObjectsOfTypes, NEW t \in DOMAIN types, NEW m, types[t].kind = HOBJ,
         NEW c \in DOMAIN types, c = StaticOf(t), IsCompanionOf(table, c, t)
  PROVE  ResolveStaticMember(t, m) =
           IF /\ types[t].name \notin LongNames
              /\ m \in DOMAIN types[c].bound /\ ~types[c].bound[m].receiver
           THEN Resolved(types[c].bound[m].fun, NArgs[types[c].bound[m].fun]) ELSE NULL
<1>. DEFINE fields == types[c].fields
            bound == types[c].bound
            Local == {i \in DOMAIN fields : fields[i] = m}
            Match == {b \in Bindings(c) : \E i \in Local : b.fid = FidOf(c, i) /\ ~b.bound.receiver}
            Is(b) == \E i \in Local : /\ m \in DOMAIN bound /\ ~bound[m].receiver
                                    /\ b = [fid |-> FidOf(c, i), bound |-> bound[m]]
<1>1. table \in TypeTables /\ c # NULL
  BY MembersAssumption DEF ObjectsOfTypes, IsTypeTable, types
<1>2. FieldsAbove(types, c) \in Int /\ DOMAIN fields \subseteq Int
  BY <1>1, FieldsAreCounted, MembersAssumption DEF types, IsTypeTable, IsTypeOf
<1>3. ASSUME NEW b \in Match PROVE Is(b)
  <2>1. PICK j \in DOMAIN fields : /\ fields[j] \in DOMAIN bound
                                   /\ b = [fid |-> FieldsAbove(types, c) + j, bound |-> bound[fields[j]]]
    BY DEF Bindings
  <2>2. PICK i \in Local : b.fid = FidOf(c, i) /\ ~b.bound.receiver
    OBVIOUS
  <2>3. FieldsAbove(types, c) + j = FieldsAbove(types, c) + i
    BY <2>1, <2>2 DEF FidOf
  <2>4. i = j
    <3>1. i \in Int /\ j \in Int
      BY <1>2, <2>1, <2>2
    <3>. QED
      BY <1>2, <2>3, <3>1
  <2>. QED
    BY <2>1, <2>2, <2>4 DEF FidOf
<1>4. ASSUME m \in DOMAIN bound, ~bound[m].receiver PROVE Match # {}
  <2>1. PICK i \in DOMAIN fields : fields[i] = m
    BY <1>4 DEF IsCompanionOf, types, ToSet
  <2>2. [fid |-> FieldsAbove(types, c) + i, bound |-> bound[fields[i]]] \in Match
    BY <1>4, <2>1 DEF Bindings, FidOf
  <2>. QED
    BY <2>2
<1>5. CASE types[t].name \in LongNames
  BY <1>5, CompanionIsFound DEF ResolveStaticMember
<1>6. SUFFICES ASSUME types[t].name \notin LongNames
               PROVE  ResolveStaticMember(t, m) =
                        IF m \in DOMAIN bound /\ ~bound[m].receiver
                        THEN Resolved(bound[m].fun, NArgs[bound[m].fun]) ELSE NULL
  BY <1>5
<1>7. ResolveStaticMember(t, m) =
        IF Match = {} THEN NULL
        ELSE LET f == (CHOOSE b \in Match : TRUE).bound.fun IN Resolved(f, NArgs[f])
  <2>1. TypeNamed(types, BuildCompanionTypeName(types[t].name)) = c
    BY <1>6, CompanionIsFound
  <2>. QED
    BY <1>1, <2>1 DEF ResolveStaticMember
<1>. HIDE DEF Match
<1>8. CASE Match = {}
  BY <1>4, <1>7, <1>8
<1>9. CASE Match # {}
  <2>. DEFINE b == CHOOSE b \in Match : TRUE
  <2>1. Is(b)
    BY <1>3, <1>9
  <2>2. ResolveStaticMember(t, m) = Resolved(b.bound.fun, NArgs[b.bound.fun])
    BY <1>7, <1>9
  <2>. HIDE DEF b
  <2>. QED
    BY <2>1, <2>2
<1>. QED
  BY <1>8, <1>9

(* resolve_member_by_name, and resolve_static_member_by_name when it finds   *)
(* nothing.                                                                  *)
Answer(t, m) ==
  IF ResolveMember(t, m) # NULL THEN ResolveMember(t, m) ELSE ResolveStaticMember(t, m)

HeldNow(t, m) ==
  IF StaticOf(t) \in ready /\ <<StaticOf(t), m>> \in DOMAIN held
  THEN held[<<StaticOf(t), m>>] ELSE NULL

HeldOK ==
  /\ held \in [table.dynamic \cup table.variables -> Closures \cup Values \cup {NULL}]
  /\ \A d \in table.dynamic : held[d] \in Closures \cup {NULL}

(* A constructor, whose closure only the class object has.                   *)
Withheld(t, m) ==
  types[StaticOf(t)].bound[m].receiver /\ ~(types[t].global /\ StaticOf(t) \in ready)

(* What is answered for a function bound to a companion's field, and for a   *)
(* field that the game assigns.                                              *)
BoundAnswer(t, m) ==
  /\ Callee(t, m) \in Findexes
  /\ IF Withheld(t, m) THEN Answer(t, m) = NULL
     ELSE \/ Answer(t, m) = Resolved(Callee(t, m), NArgs[Callee(t, m)])
          \/ Answer(t, m) = NULL /\ types[t].name \in LongNames
HeldAnswer(t, m) ==
  LET cl == HeldNow(t, m) IN
  /\ Answer(t, m) # NULL =>
       cl # NULL /\ cl.fun # NULL /\ Answer(t, m) = Resolved(cl.fun, FullArgs(cl))
  /\ cl # NULL /\ <<StaticOf(t), m>> \in table.dynamic =>
       /\ cl.fun \in Findexes
       /\ Answer(t, m) = IF cl.hasValue \in {0, 1} THEN Resolved(cl.fun, NArgs[cl.fun]) ELSE NULL

LEMMA StaticIsAnswered ==
  ASSUME ObjectsOfTypes, HeldOK, NEW t \in DOMAIN types, NEW m,
         types[t].kind \in {HOBJ, HENUM}, ~Defines(t, m)
  PROVE  IF HasStatic(t, m) THEN BoundAnswer(t, m) ELSE HeldAnswer(t, m)
<1>. DEFINE c == StaticOf(t)
            o == Owner(t, m)
            taken == UNION {ToSet(types[a].fields) : a \in Line(types, t)}
            made == types[t].global /\ c \in ready
<1>1. table \in TypeTables /\ NULL \notin DOMAIN types /\ ready \subseteq DOMAIN types
  BY MembersAssumption DEF ObjectsOfTypes, IsTypeTable, types
<1>2. Owners(t, m) # {} => IsField(o, m) /\ m \in taken
  BY <1>1, OwnerLooksUp DEF Defines, InLookup, IsField, Line
<1>3. CASE c = NULL
  <2>1. ClassObject(t) = NULL /\ ~HasStatic(t, m) /\ HeldNow(t, m) = NULL
    BY <1>1, <1>3 DEF ClassObject, StaticOf, HasStatic, HeldNow
  <2>2. ResolveMember(t, m) = NULL /\ ResolveStaticMember(t, m) = NULL
    BY <1>2, <1>3, <2>1, CompanionIsFound DEF ResolveMember, ResolveStaticMember, LookupClassMember
  <2>. QED
    BY <2>1, <2>2 DEF Answer, HeldAnswer
<1>4. CASE c # NULL
  <2>1. c \in DOMAIN types /\ types[c].name = CompanionName(types[t].name)
    BY <1>4, NamedTypeIsTyped DEF StaticOf
  <2>2. IsCompanionOf(table, c, t)
    BY <1>1, <2>1, MembersAssumption DEF IsTypeTable, types
  <2>3. types[t].kind = HOBJ
    BY <2>2 DEF IsCompanionOf, types
  <2>. DEFINE static == IF /\ types[t].name \notin LongNames
                           /\ m \in DOMAIN types[c].bound /\ ~types[c].bound[m].receiver
                        THEN Resolved(types[c].bound[m].fun, NArgs[types[c].bound[m].fun]) ELSE NULL
              member == IF Owners(t, m) = {} THEN LookupClassMember(t, m) ELSE NULL
              cl == IF made THEN Closure(c, m) ELSE NULL
  <2>4. ResolveStaticMember(t, m) = static
    BY <2>1, <2>2, <2>3, StaticIsResolved
  <2>5. ResolveMember(t, m) = member
    BY <1>2, <2>3 DEF ResolveMember
  <2>6. LookupClassMember(t, m) =
          IF cl = NULL \/ cl.fun = NULL THEN NULL
          ELSE IF cl.hasValue = 0 \/ (cl.hasValue = 1 /\ IsClosure(cl))
               THEN Resolved(cl.fun, FullArgs(cl)) ELSE NULL
    BY <1>1, <1>4 DEF LookupClassMember, ClassObject, StaticOf
  <2>7. CASE m \in DOMAIN types[c].bound
    <3>. DEFINE b == types[c].bound[m]
    <3>1. /\ b.fun \in Findexes /\ b.receiver \in BOOLEAN /\ <<c, m>> \notin DOMAIN held
          /\ b.receiver => Owners(t, m) = {}
      BY <1>2, <2>2, <2>7 DEF IsCompanionOf, types, HeldOK, Line
    <3>2. Closure(c, m) = [fun |-> b.fun, hasValue |-> IF b.receiver THEN 1 ELSE 0]
      BY <2>7, <3>1 DEF Closure
    <3>3. Closure(c, m) # NULL /\ Resolved(b.fun, NArgs[b.fun]) # NULL
      BY <3>1, <3>2, MembersAssumption, ConstructorsAssumption DEF Resolved
    <3>4. LookupClassMember(t, m) = IF made THEN Resolved(b.fun, NArgs[b.fun]) ELSE NULL
      BY <2>6, <3>1, <3>2, <3>3, ConstructorsAssumption DEF FullArgs, IsClosure
    <3>5. HasStatic(t, m) /\ Callee(t, m) = b.fun
      BY <1>4, <2>7 DEF HasStatic, Callee
    <3>6. Withheld(t, m) <=> b.receiver /\ ~made
      BY DEF Withheld
    <3>. QED
      BY <2>4, <2>5, <2>7, <3>1, <3>3, <3>4, <3>5, <3>6 DEF Answer, BoundAnswer
  <2>8. CASE m \notin DOMAIN types[c].bound
    <3>. DEFINE d == <<c, m>>
    <3>1. ~HasStatic(t, m) /\ Closure(c, m) = IF d \in DOMAIN held THEN held[d] ELSE NULL
      BY <2>8 DEF HasStatic, Closure
    <3>2. d \in table.dynamic => types[t].global /\ Owners(t, m) = {} /\ d \in DOMAIN held
      BY <1>2, <2>2 DEF IsCompanionOf, types, HeldOK, Line
    <3>3. d \in table.dynamic /\ held[d] # NULL =>
            /\ held[d].fun \in Findexes /\ held[d].fun # NULL
            /\ Resolved(held[d].fun, NArgs[held[d].fun]) # NULL
      BY MembersAssumption, ConstructorsAssumption DEF HeldOK, Resolved
    <3>4. HeldNow(t, m) = IF c \in ready /\ d \in DOMAIN held THEN held[d] ELSE NULL
      BY DEF HeldNow
    <3>5. Answer(t, m) = member
      BY <2>4, <2>5, <2>8 DEF Answer
    <3>6. cl = IF types[t].global THEN HeldNow(t, m) ELSE NULL
      BY <3>1, <3>4
    <3>. DEFINE now == HeldNow(t, m)
    <3>. HIDE DEF cl, now, member
    <3>7. member # NULL => now # NULL /\ now.fun # NULL /\ member = Resolved(now.fun, FullArgs(now))
      BY <2>6, <3>6 DEF member, now
    <3>8. now # NULL /\ d \in table.dynamic =>
            /\ now.fun \in Findexes
            /\ member = IF now.hasValue \in {0, 1} THEN Resolved(now.fun, NArgs[now.fun]) ELSE NULL
      <4>1. SUFFICES ASSUME now # NULL, d \in table.dynamic
                     PROVE  /\ now.fun \in Findexes
                            /\ member = IF now.hasValue \in {0, 1}
                                        THEN Resolved(now.fun, NArgs[now.fun]) ELSE NULL
        OBVIOUS
      <4>2. now = held[d] /\ cl = now
        BY <3>2, <3>4, <3>6, <4>1 DEF now
      <4>3. now.fun \in Findexes /\ now.fun # NULL
        BY <3>3, <4>1, <4>2
      <4>4. IsClosure(now) /\ FullArgs(now) = NArgs[now.fun]
        BY <4>3 DEF IsClosure, FullArgs
      <4>5. member = LookupClassMember(t, m)
        BY <3>2, <4>1 DEF member
      <4>. QED
        BY <2>6, <4>1, <4>2, <4>3, <4>4, <4>5
    <3>. QED
      BY <3>1, <3>5, <3>7, <3>8 DEF now, HeldAnswer
  <2>. QED
    BY <2>7, <2>8
<1>. QED
  BY <1>3, <1>4

-----------------------------------------------------------------------------
(* What is remembered. *)

(* An answer that no later step makes wrong: a method or a plain static      *)
(* function is what it is; what a class object holds is only known once      *)
(* there is one.                                                             *)
Words == Findexes \cup {v.fun : v \in Values}

IsAnswer(t, m, r) ==
  /\ r \in [address : Words, nargs : Int] /\ r.address # NULL
  /\ Defines(t, m) \/ HasStatic(t, m) => r.address = Callee(t, m) /\ r.nargs = NArgs[r.address]
  /\ ~Defines(t, m) =>
       IF HasStatic(t, m)
       THEN ~Withheld(t, m)
       ELSE /\ StaticOf(t) \in ready
            /\ <<StaticOf(t), m>> \in table.dynamic \cup table.variables
            /\ <<StaticOf(t), m>> \in table.dynamic => r.nargs = NArgs[r.address]

CachesOK ==
  /\ DOMAIN typeCache = {a[1] : a \in Asked} /\ DOMAIN memberCache = Asked
  /\ \A n \in DOMAIN typeCache : typeCache[n] # NULL => recovered /\ typeCache[n] = TypeNamed(types, n)
  /\ \A a \in Asked : \A t \in {TypeNamed(types, a[1])}, r \in {memberCache[a]} \ {NULL} :
       recovered /\ t # NULL /\ IsAnswer(t, a[2], r)

MembersInv == ObjectsOfTypes /\ HeldOK /\ CachesOK

LEMMA MethodIsAnswered ==
  ASSUME ObjectsOfTypes, NEW t \in DOMAIN types, NEW m,
         types[t].kind \in {HOBJ, HENUM}, Defines(t, m)
  PROVE  /\ Callee(t, m) \in Findexes
         /\ Answer(t, m) = Resolved(Callee(t, m), NArgs[Callee(t, m)])
<1>1. table \in TypeTables
  BY DEF ObjectsOfTypes
<1>2. types[t].kind = HOBJ
  <2>1. SUFFICES ASSUME types[t].kind = HENUM PROVE FALSE
    OBVIOUS
  <2>2. DOMAIN types[t].methods = {} /\ types[t].super = NULL
    BY <1>1, <2>1, MembersAssumption DEF IsTypeTable, IsTypeOf, types
  <2>3. Line(types, t) = {t}
    BY <1>1, <2>2, LinesAscend DEF types
  <2>. QED
    BY <2>2, <2>3 DEF Defines, Line
<1>3. /\ Methods(t, m) \in Findexes
      /\ ResolveMember(t, m) = Resolved(Methods(t, m), NArgs[Methods(t, m)])
  BY <1>2, MethodIsResolved
<1>4. Resolved(Methods(t, m), NArgs[Methods(t, m)]) # NULL
  BY <1>3, MembersAssumption, ConstructorsAssumption DEF Resolved
<1>. QED
  BY <1>3, <1>4 DEF Answer, Callee

LEMMA AnswersMayBeKept ==
  ASSUME ObjectsOfTypes, HeldOK, NEW t \in DOMAIN types, NEW m,
         types[t].kind \in {HOBJ, HENUM}, Answer(t, m) # NULL
  PROVE  IsAnswer(t, m, Answer(t, m))
<1>1. CASE Defines(t, m)
  BY <1>1, MethodIsAnswered, ConstructorsAssumption DEF IsAnswer, Resolved, Words
<1>2. CASE ~Defines(t, m) /\ HasStatic(t, m)
  <2>1. /\ Callee(t, m) \in Findexes
        /\ Answer(t, m) = Resolved(Callee(t, m), NArgs[Callee(t, m)])
        /\ ~Withheld(t, m)
    BY <1>2, StaticIsAnswered DEF BoundAnswer
  <2>2. Callee(t, m) # NULL /\ NArgs[Callee(t, m)] \in Nat
    BY <2>1, ConstructorsAssumption
  <2>. QED
    BY <1>2, <2>1, <2>2 DEF IsAnswer, Resolved, Words
<1>3. CASE ~Defines(t, m) /\ ~HasStatic(t, m)
  <2>. DEFINE cl == HeldNow(t, m)
              d == <<StaticOf(t), m>>
  <2>1. /\ cl # NULL /\ cl.fun # NULL /\ Answer(t, m) = Resolved(cl.fun, FullArgs(cl))
        /\ d \in table.dynamic => Answer(t, m) = Resolved(cl.fun, NArgs[cl.fun])
    BY <1>3, StaticIsAnswered DEF HeldAnswer
  <2>2. StaticOf(t) \in ready /\ d \in DOMAIN held /\ cl = held[d]
    BY <2>1 DEF HeldNow
  <2>3. d \in table.dynamic \cup table.variables /\ cl \in Closures \cup Values
    BY <2>1, <2>2 DEF HeldOK
  <2>4. cl.fun \in Words /\ FullArgs(cl) \in Int
    BY <2>3, MembersAssumption, ConstructorsAssumption DEF Words, FullArgs, IsClosure
  <2>. HIDE DEF cl, d
  <2>5. d \in table.dynamic => FullArgs(cl) = NArgs[cl.fun]
    BY <2>1 DEF Resolved
  <2>. QED
    BY <1>3, <2>1, <2>2, <2>3, <2>4, <2>5 DEF IsAnswer, Resolved, d
<1>. QED
  BY <1>1, <1>2, <1>3

(* What a mod is told: what was remembered, or what is looked up now.        *)
LEMMA AskedIsAnswered ==
  ASSUME MembersInv, NEW a \in Asked
  PROVE  LET t == TypeNamed(types, a[1]) IN
         /\ ResolveType(a[1]) = IF recovered THEN t ELSE NULL
         /\ t # NULL => t \in DOMAIN types /\ types[t].kind \in {HOBJ, HENUM} /\ types[t].name = a[1]
         /\ memberCache[a] = NULL =>
              ResolveMemberOf(a[1], a[2]) = IF recovered /\ t # NULL THEN Answer(t, a[2]) ELSE NULL
         /\ memberCache[a] # NULL =>
              /\ recovered /\ t # NULL /\ IsAnswer(t, a[2], memberCache[a])
              /\ ResolveMemberOf(a[1], a[2]) = memberCache[a]
<1>. DEFINE t == TypeNamed(types, a[1])
<1>1. <<a[1], a[2]>> = a /\ a[1] \in DOMAIN typeCache
  BY MembersAssumption DEF MembersInv, CachesOK
<1>2. t # NULL => t \in DOMAIN types /\ types[t].kind \in {HOBJ, HENUM} /\ types[t].name = a[1]
  BY NamedTypeIsTyped DEF MembersInv
<1>3. ResolveType(a[1]) = IF recovered THEN t ELSE NULL
  BY <1>1 DEF ResolveType, MembersInv, CachesOK
<1>4. Lookup1(a[1], a[2]) = IF recovered /\ t # NULL THEN Answer(t, a[2]) ELSE NULL
  BY <1>3 DEF Lookup1, Answer
<1>5. /\ memberCache[a] = NULL => ResolveMemberOf(a[1], a[2]) = Lookup1(a[1], a[2])
      /\ memberCache[a] # NULL => ResolveMemberOf(a[1], a[2]) = memberCache[a]
  BY <1>1 DEF ResolveMemberOf
<1>6. memberCache[a] # NULL => recovered /\ t # NULL /\ IsAnswer(t, a[2], memberCache[a])
  BY DEF MembersInv, CachesOK
<1>. QED
  BY <1>2, <1>3, <1>4, <1>5, <1>6

LEMMA InvGivesCallee == MembersInv => ResolvesTheCallee
<1>. SUFFICES ASSUME MembersInv PROVE ResolvesTheCallee
  OBVIOUS
<1>1. MembersTypeOK
  <2>1. ready \subseteq DOMAIN types
    BY DEF MembersInv, ObjectsOfTypes
  <2>2. ASSUME NEW n \in DOMAIN typeCache PROVE typeCache[n] = NULL \/ types[typeCache[n]].name = n
    BY NamedTypeIsTyped DEF MembersInv, CachesOK
  <2>3. ASSUME NEW a \in Asked, memberCache[a] # NULL PROVE memberCache[a].address # NULL
    BY <2>3 DEF MembersInv, CachesOK, IsAnswer
  <2>. QED
    BY <2>1, <2>2, <2>3 DEF MembersTypeOK
<1>2. ASSUME NEW a \in Asked
      PROVE  LET r == ResolveMemberOf(a[1], a[2])
                 t == TypeNamed(types, a[1])
                 c == StaticOf(t)
                 m == a[2]
             IN  /\ ~recovered \/ t = NULL => r = NULL
                 /\ recovered /\ t # NULL /\ Defines(t, m) => r = Resolved(Callee(t, m), NArgs[Callee(t, m)])
                 /\ recovered /\ t # NULL /\ ~Defines(t, m) /\ HasStatic(t, m) =>
                      IF Withheld(t, m) THEN r = NULL
                      ELSE \/ r = Resolved(Callee(t, m), NArgs[Callee(t, m)])
                           \/ r = NULL /\ types[t].name \in LongNames
                 /\ recovered /\ t # NULL /\ ~Defines(t, m) /\ ~HasStatic(t, m) =>
                      /\ r # NULL => c \in ready /\ <<c, m>> \in DOMAIN held
                      /\ r # NULL /\ <<c, m>> \in table.dynamic => r.nargs = NArgs[r.address]
                      /\ memberCache[a] = NULL /\ HeldNow(t, m) # NULL /\ <<c, m>> \in table.dynamic =>
                           IF HeldNow(t, m).hasValue \in {0, 1} THEN r.address = HeldNow(t, m).fun ELSE r = NULL
  <2>. DEFINE t == TypeNamed(types, a[1])
              m == a[2]
              r == ResolveMemberOf(a[1], a[2])
  <2>1. CASE memberCache[a] # NULL
    <3>1. recovered /\ t # NULL /\ IsAnswer(t, m, r) /\ r = memberCache[a]
      BY <2>1, AskedIsAnswered
    <3>2. r = Resolved(r.address, r.nargs)
      BY <3>1 DEF IsAnswer, Resolved
    <3>3. DOMAIN held = table.dynamic \cup table.variables
      BY DEF MembersInv, HeldOK
    <3>. HIDE DEF r
    <3>. QED
      BY <2>1, <3>1, <3>2, <3>3 DEF IsAnswer, r
  <2>2. CASE memberCache[a] = NULL
    <3>1. r = IF recovered /\ t # NULL THEN Answer(t, m) ELSE NULL
      BY <2>2, AskedIsAnswered
    <3>2. t # NULL => t \in DOMAIN types /\ types[t].kind \in {HOBJ, HENUM}
      BY AskedIsAnswered
    <3>3. ObjectsOfTypes /\ HeldOK
      BY DEF MembersInv
    <3>. HIDE DEF t, r, m
    <3>4. CASE ~recovered \/ t = NULL
      BY <3>1, <3>4 DEF r, t
    <3>5. CASE recovered /\ t # NULL /\ Defines(t, m)
      BY <3>1, <3>2, <3>3, <3>5, MethodIsAnswered DEF r, t, m
    <3>6. CASE recovered /\ t # NULL /\ ~Defines(t, m) /\ HasStatic(t, m)
      <4>1. IF Withheld(t, m) THEN r = NULL
            ELSE \/ r = Resolved(Callee(t, m), NArgs[Callee(t, m)])
                 \/ r = NULL /\ types[t].name \in LongNames
        BY <3>1, <3>2, <3>3, <3>6, StaticIsAnswered DEF BoundAnswer
      <4>. QED
        BY <3>6, <4>1 DEF r, t, m
    <3>7. CASE recovered /\ t # NULL /\ ~Defines(t, m) /\ ~HasStatic(t, m)
      <4>. DEFINE cl == HeldNow(t, m)
      <4>1. /\ r # NULL => cl # NULL /\ cl.fun # NULL
            /\ cl # NULL /\ <<StaticOf(t), m>> \in table.dynamic =>
                 r = IF cl.hasValue \in {0, 1} THEN Resolved(cl.fun, NArgs[cl.fun]) ELSE NULL
        BY <3>1, <3>2, <3>3, <3>7, StaticIsAnswered DEF HeldAnswer
      <4>2. cl # NULL => StaticOf(t) \in ready /\ <<StaticOf(t), m>> \in DOMAIN held
        BY DEF HeldNow
      <4>. HIDE DEF cl
      <4>3. r # NULL => StaticOf(t) \in ready /\ <<StaticOf(t), m>> \in DOMAIN held
        BY <4>1, <4>2
      <4>4. cl # NULL /\ r # NULL /\ <<StaticOf(t), m>> \in table.dynamic =>
              r.address = cl.fun /\ r.nargs = NArgs[r.address]
        BY <4>1 DEF Resolved
      <4>. QED
        BY <3>7, <4>1, <4>3, <4>4 DEF Resolved, r, t, m, cl
    <3>. QED
      BY <3>4, <3>5, <3>6, <3>7
  <2>. QED
    BY <2>1, <2>2
<1>. QED
  BY <1>1, <1>2 DEF ResolvesTheCallee, HeldNow, Withheld

(* Asking again, and the game's own steps, keep what is remembered right.    *)
LEMMA AnswersStay ==
  ASSUME UNCHANGED table, ready \subseteq ready'
  PROVE  \A t, m, r : IsAnswer(t, m, r) => IsAnswer(t, m, r)'
<1>1. types' = types
  BY DEF types
<1>. SUFFICES ASSUME NEW t, NEW m, NEW r, IsAnswer(t, m, r) PROVE IsAnswer(t, m, r)'
  OBVIOUS
<1>2. /\ Defines(t, m)' = Defines(t, m) /\ HasStatic(t, m)' = HasStatic(t, m)
      /\ Callee(t, m)' = Callee(t, m) /\ StaticOf(t)' = StaticOf(t)
  BY <1>1 DEF Defines, HasStatic, Callee, StaticOf, Methods, NearestDefining
<1>3. ~Withheld(t, m) => ~Withheld(t, m)'
  BY <1>1, <1>2 DEF Withheld
<1>. QED
  BY <1>1, <1>2, <1>3 DEF IsAnswer

LEMMA AskPreserves ==
  ASSUME MembersInv, NEW a \in Asked, Ask(a[1], a[2])
  PROVE  MembersInv'
<1>. DEFINE t == TypeNamed(types, a[1])
<1>1. <<a[1], a[2]>> = a /\ a[1] \in DOMAIN typeCache /\ a \in DOMAIN memberCache
  BY MembersAssumption DEF MembersInv, CachesOK
<1>2. UNCHANGED <<tableVars, table, ready, held>>
  BY DEF Ask
<1>3. recovered' = recovered /\ types' = types
  BY <1>2 DEF tableVars, types
<1>4. ObjectsOfTypes' /\ HeldOK'
  BY <1>2, <1>3 DEF MembersInv, ObjectsOfTypes, HeldOK
<1>5. /\ typeCache' = [typeCache EXCEPT ![a[1]] = ResolveType(a[1])]
      /\ memberCache' = [memberCache EXCEPT ![a] = ResolveMemberOf(a[1], a[2])]
  BY <1>1 DEF Ask, Remembered
<1>6. ResolveType(a[1]) = IF recovered THEN t ELSE NULL
  BY AskedIsAnswered
<1>7. ResolveMemberOf(a[1], a[2]) # NULL =>
        recovered /\ t # NULL /\ IsAnswer(t, a[2], ResolveMemberOf(a[1], a[2]))
  <2>1. CASE memberCache[a] # NULL
    BY <2>1, AskedIsAnswered
  <2>2. CASE memberCache[a] = NULL
    <3>1. ObjectsOfTypes /\ HeldOK
      BY DEF MembersInv
    <3>2. /\ ResolveMemberOf(a[1], a[2]) = IF recovered /\ t # NULL THEN Answer(t, a[2]) ELSE NULL
          /\ t # NULL => t \in DOMAIN types /\ types[t].kind \in {HOBJ, HENUM}
      BY <2>2, AskedIsAnswered
    <3>. QED
      BY <3>1, <3>2, AnswersMayBeKept
  <2>. QED
    BY <2>1, <2>2
<1>8. DOMAIN typeCache' = DOMAIN typeCache /\ DOMAIN memberCache' = DOMAIN memberCache
  BY <1>5
<1>9. ASSUME NEW n \in DOMAIN typeCache, typeCache'[n] # NULL
      PROVE  recovered /\ typeCache'[n] = TypeNamed(types, n)
  <2>1. CASE n = a[1]
    BY <1>1, <1>5, <1>6, <1>9, <2>1
  <2>2. CASE n # a[1]
    BY <1>5, <1>9, <2>2 DEF MembersInv, CachesOK
  <2>. QED
    BY <2>1, <2>2
<1>10. ASSUME NEW b \in Asked, memberCache'[b] # NULL
       PROVE  /\ recovered /\ TypeNamed(types, b[1]) # NULL
              /\ IsAnswer(TypeNamed(types, b[1]), b[2], memberCache'[b])
  <2>. HIDE DEF t
  <2>1. CASE b = a
    <3>1. memberCache'[b] = ResolveMemberOf(a[1], a[2])
      BY <1>1, <1>5, <2>1
    <3>. QED
      BY <1>7, <1>10, <2>1, <3>1 DEF t
  <2>2. CASE b # a
    <3>1. memberCache'[b] = memberCache[b]
      BY <1>5, <2>2 DEF MembersInv, CachesOK
    <3>. QED
      BY <1>10, <3>1 DEF MembersInv, CachesOK
  <2>. QED
    BY <2>1, <2>2
<1>11. ASSUME NEW b \in Asked, NEW t1 \in {TypeNamed(types, b[1])'},
              NEW r \in {memberCache[b]'} \ {NULL}
       PROVE  recovered' /\ t1 # NULL /\ IsAnswer(t1, b[2], r)'
  BY <1>2, <1>3, <1>10, <1>11, AnswersStay
<1>12. CachesOK'
  BY <1>2, <1>3, <1>8, <1>9, <1>11 DEF MembersInv, CachesOK
<1>. QED
  BY <1>4, <1>12 DEF MembersInv

LEMMA OthersPreserve ==
  ASSUME MembersInv, UNCHANGED <<table, typeCache, memberCache>>, recovered => recovered',
         ready \subseteq ready', ObjectsOfTypes', HeldOK'
  PROVE  MembersInv'
<1>1. types' = types
  BY DEF types
<1>2. ASSUME NEW b \in Asked, NEW t \in {TypeNamed(types, b[1])'},
             NEW r \in {memberCache[b]'} \ {NULL}
      PROVE  recovered' /\ t # NULL /\ IsAnswer(t, b[2], r)'
  BY <1>1, AnswersStay DEF MembersInv, CachesOK
<1>. QED
  BY <1>1, <1>2 DEF MembersInv, CachesOK

LEMMA MembersInvHolds == ReflectionSpec => []MembersInv
<1>1. ReflectionInit => MembersInv
  <2>. SUFFICES ASSUME ReflectionInit PROVE MembersInv
    OBVIOUS
  <2>1. MembersInit
    BY DEF ReflectionInit
  <2>2. ObjectsOfTypes
    BY ReflectionAssumption DEF ReflectionInit, MembersInit, ObjectsOfTypes
  <2>. QED
    BY <2>1, <2>2 DEF MembersInit, MembersInv, HeldOK, CachesOK
<1>2. MembersInv /\ [ReflectionNext]_<<tableVars, memberVars, fileVars>> => MembersInv'
  <2>. SUFFICES ASSUME MembersInv, [ReflectionNext]_<<tableVars, memberVars, fileVars>>
                PROVE  MembersInv'
    OBVIOUS
  <2>1. CASE UNCHANGED memberVars /\ (recovered => recovered')
    <3>1. ObjectsOfTypes' /\ HeldOK'
      BY <2>1 DEF memberVars, MembersInv, ObjectsOfTypes, HeldOK, types
    <3>. QED
      BY <2>1, <3>1, OthersPreserve DEF memberVars
  <2>2. CASE IndexEntrypoint
    BY <2>1, <2>2 DEF IndexEntrypoint, TableBuilt
  <2>3. CASE ConstructorsNext /\ UNCHANGED <<memberVars, fileVars>>
    <3>1. recovered => recovered'
      BY <2>3 DEF ConstructorsNext, CannotRead, UnsupportedVersion, StartScan, AddCandidate, Recover
    <3>. QED
      BY <2>1, <2>3, <3>1
  <2>4. ASSUME NEW a \in Asked, Ask(a[1], a[2]) PROVE MembersInv'
    BY <2>4, AskPreserves
  <2>5. ASSUME NEW t \in DOMAIN types, StaticInit(t) PROVE MembersInv'
    <3>1. ObjectsOfTypes' /\ HeldOK'
      BY <2>5 DEF StaticInit, MembersInv, ObjectsOfTypes, HeldOK, types
    <3>. QED
      BY <2>5, <3>1, OthersPreserve DEF StaticInit, tableVars
  <2>6. ASSUME NEW d \in DOMAIN held, Assign(d[1], d[2]) PROVE MembersInv'
    <3>1. ObjectsOfTypes' /\ HeldOK'
      BY <2>6 DEF Assign, MembersInv, ObjectsOfTypes, HeldOK, types
    <3>. QED
      BY <2>6, <3>1, OthersPreserve DEF Assign, tableVars
  <2>. QED
    BY <2>1, <2>2, <2>3, <2>4, <2>5, <2>6 DEF ReflectionNext, MembersNext, tableVars
<1>. QED
  BY <1>1, <1>2, PTL DEF ReflectionSpec

(* Whatever method or function is asked for, whenever and however often, a   *)
(* mod is given the one HashLink calls and its full type, or, of a class     *)
(* with too long a name, nothing, in type tables of any size; a static       *)
(* variable's words are only had from a class object that exists             *)
(* (resolve_member_by_name, resolve_static_member_by_name, HlxRuntime).      *)
THEOREM MembersAreTheGames == ReflectionSpec => []ResolvesTheCallee
<1>. QED
  BY MembersInvHolds, InvGivesCallee, PTL

-----------------------------------------------------------------------------
(* Literals. *)

(* All fields of an object are those above it, and then its own.             *)
LEMMA FieldsAreInherited ==
  ASSUME NEW g \in TypeTables, IsEntryPoint(g), NEW t \in DOMAIN g.types
  PROVE  /\ FlatFields(g.types, t) \in Seq(UNION {ToSet(g.types[i].fields) : i \in DOMAIN g.types})
         /\ FlatFields(g.types, t) =
              IF g.types[t].super = NULL THEN g.types[t].fields
              ELSE FlatFields(g.types, g.types[t].super) \o g.types[t].fields
<1>. DEFINE ts == g.types
            D == DOMAIN ts
            F == UNION {ToSet(ts[i].fields) : i \in D}
            V == Seq(F)
            sup == [i \in D |-> ts[i].super]
            base == [i \in D |-> ts[i].fields]
            step == [p \in D \X V |-> p[2] \o ts[p[1]].fields]
            Is(f) == f = [i \in D |-> IF ts[i].super = NULL THEN ts[i].fields
                                     ELSE f[ts[i].super] \o ts[i].fields]
            flat == CHOOSE f : Is(f)
<1>1. \A i \in D : ts[i].super \in D \cup {NULL} /\ NULL \notin D
  BY MembersAssumption DEF IsTypeTable, IsTypeOf
<1>2. Ends(sup)
  <2>. SUFFICES ASSUME NEW S \in SUBSET D, S # {} PROVE \E i \in S : sup[i] \notin S
    BY DEF Ends
  <2>1. \E i \in S : ts[i].super \notin S
    BY MembersAssumption DEF IsTypeTable
  <2>. QED
    BY <2>1
<1>3. base \in [D -> V] /\ step \in [D \X V -> V]
  <2>1. ASSUME NEW i \in D PROVE ts[i].fields \in V
    <3>1. ts[i].fields \in Seq(ToSet(ts[i].fields)) /\ ToSet(ts[i].fields) \subseteq F
      BY DEF IsEntryPoint
    <3>. HIDE DEF F
    <3>. QED
      BY <3>1
  <2>2. ASSUME NEW p \in D \X V PROVE p[2] \o ts[p[1]].fields \in V
    <3>1. p[2] \in V /\ ts[p[1]].fields \in V
      BY <2>1
    <3>. HIDE DEF F
    <3>. QED
      BY <3>1
  <2>. HIDE DEF F, V
  <2>. QED
    BY <2>1, <2>2
<1>4. PICK f \in [D -> V] : Solves(f, D, sup, base, step)
  <2>. HIDE DEF V, sup, base, step
  <2>1. DOMAIN sup = D
    BY DEF sup
  <2>. QED
    BY <1>2, <1>3, <2>1, RecursionExists
<1>5. ASSUME NEW i \in D
      PROVE  f[i] = IF ts[i].super = NULL THEN ts[i].fields ELSE f[ts[i].super] \o ts[i].fields
  <2>. HIDE DEF V
  <2>1. sup[i] = ts[i].super /\ DOMAIN sup = D /\ base[i] = ts[i].fields
    OBVIOUS
  <2>2. CASE ts[i].super = NULL
    <3>. HIDE DEF sup, base, step
    <3>. QED
      BY <1>1, <1>4, <2>1, <2>2 DEF Solves
  <2>3. CASE ts[i].super \in D
    <3>1. f[i] = step[<<i, f[sup[i]]>>]
      <4>. HIDE DEF step, base, sup
      <4>. QED
        BY <1>4, <2>1, <2>3 DEF Solves
    <3>2. f[sup[i]] \in V
      BY <2>3
    <3>. QED
      BY <1>1, <2>3, <3>1, <3>2
  <2>. QED
    BY <1>1, <2>2, <2>3
<1>6. Is(f)
  BY <1>5
<1>7. Is(flat)
  <2>. HIDE DEF Is
  <2>. QED
    BY <1>6
<1>8. \A i \in D : FlatFields(ts, i) = flat[i]
  BY DEF FlatFields
<1>9. ASSUME NEW i \in D
      PROVE  flat[i] = IF ts[i].super = NULL THEN ts[i].fields ELSE flat[ts[i].super] \o ts[i].fields
  <2>. HIDE DEF flat
  <2>. QED
    BY <1>7
<1>10. ASSUME NEW i \in D PROVE flat[i] \in V
  <2>. HIDE DEF flat
  <2>. DEFINE S == {j \in D : flat[j] \notin V}
  <2>1. SUFFICES ASSUME S # {} PROVE FALSE
    OBVIOUS
  <2>2. PICK j \in S : ts[j].super \notin S
    BY <2>1, MembersAssumption DEF IsTypeTable
  <2>3. ts[j].fields \in V /\ (ts[j].super \in D => flat[ts[j].super] \in V)
    BY <1>3, <2>2
  <2>4. ts[j].super \in D => flat[ts[j].super] \o ts[j].fields \in V
    <3>. HIDE DEF F
    <3>. QED
      BY <2>3
  <2>. QED
    BY <1>1, <1>9, <2>2, <2>3, <2>4
<1>. HIDE DEF flat
<1>. QED
  BY <1>1, <1>8, <1>9, <1>10

(* An object's own fields come after as many as are above it.                *)
LEMMA FieldsAreNumbered ==
  ASSUME NEW g \in TypeTables, IsEntryPoint(g), NEW t \in DOMAIN g.types
  PROVE  /\ FieldsAbove(g.types, t) \in Nat
         /\ Len(FlatFields(g.types, t)) = FieldsAbove(g.types, t) + Len(g.types[t].fields)
         /\ \A own \in 0 .. Len(g.types[t].fields) - 1 :
              FlatFields(g.types, t)[FieldsAbove(g.types, t) + own + 1] = g.types[t].fields[own + 1]
<1>. DEFINE ts == g.types
            D == DOMAIN ts
            F == UNION {ToSet(ts[i].fields) : i \in D}
            Above(i) == FieldsAbove(ts, i)
            Flat(i) == FlatFields(ts, i)
<1>1. ASSUME NEW i \in D
      PROVE  /\ ts[i].super \in D \cup {NULL} /\ NULL \notin D
             /\ ts[i].fields \in Seq(F) /\ Flat(i) \in Seq(F)
             /\ Flat(i) = IF ts[i].super = NULL THEN ts[i].fields ELSE Flat(ts[i].super) \o ts[i].fields
             /\ Above(i) = IF ts[i].super = NULL THEN 0
                           ELSE Above(ts[i].super) + Len(ts[ts[i].super].fields)
  <2>1. ts[i].super \in D \cup {NULL} /\ NULL \notin D
    BY MembersAssumption DEF IsTypeTable, IsTypeOf
  <2>2. ts[i].fields \in Seq(ToSet(ts[i].fields)) /\ ToSet(ts[i].fields) \subseteq F
    BY DEF IsEntryPoint
  <2>3. ts[i].fields \in Seq(F)
    <3>. HIDE DEF F
    <3>. QED
      BY <2>2
  <2>. QED
    BY <2>1, <2>3, FieldsAreInherited, FieldsAreCounted
<1>. HIDE DEF F, Above, Flat
<1>2. ASSUME NEW i \in D PROVE Above(i) \in Nat /\ Len(Flat(i)) = Above(i) + Len(ts[i].fields)
  <2>. DEFINE S == {j \in D : ~(Above(j) \in Nat /\ Len(Flat(j)) = Above(j) + Len(ts[j].fields))}
  <2>1. SUFFICES ASSUME S # {} PROVE FALSE
    OBVIOUS
  <2>2. PICK j \in S : ts[j].super \notin S
    BY <2>1, MembersAssumption DEF IsTypeTable
  <2>3. j \in D /\ ~(Above(j) \in Nat /\ Len(Flat(j)) = Above(j) + Len(ts[j].fields))
    BY <2>2
  <2>4. CASE ts[j].super = NULL
    <3>1. Flat(j) = ts[j].fields /\ Above(j) = 0
      BY <1>1, <2>3, <2>4
    <3>. QED
      BY <1>1, <2>3, <3>1
  <2>5. CASE ts[j].super \in D
    <3>. DEFINE u == ts[j].super
    <3>1. Above(u) \in Nat /\ Len(Flat(u)) = Above(u) + Len(ts[u].fields)
      BY <2>2, <2>5
    <3>2. Flat(j) = Flat(u) \o ts[j].fields /\ Above(j) = Above(u) + Len(ts[u].fields)
      BY <1>1, <2>3, <2>5
    <3>3. Flat(u) \in Seq(F) /\ ts[j].fields \in Seq(F) /\ ts[u].fields \in Seq(F)
      BY <1>1, <2>3, <2>5
    <3>4. Len(Flat(j)) = Len(Flat(u)) + Len(ts[j].fields) /\ Len(ts[u].fields) \in Nat
      BY <3>2, <3>3
    <3>. QED
      BY <2>3, <3>1, <3>2, <3>4
  <2>. QED
    BY <1>1, <2>3, <2>4, <2>5
<1>3. ASSUME NEW own \in 0 .. Len(ts[t].fields) - 1
      PROVE  Flat(t)[Above(t) + own + 1] = ts[t].fields[own + 1]
  <2>. DEFINE u == ts[t].super
  <2>1. CASE u = NULL
    <3>1. Flat(t) = ts[t].fields /\ Above(t) = 0
      BY <1>1, <2>1
    <3>2. Above(t) + own + 1 = own + 1
      BY <3>1
    <3>. QED
      BY <3>1, <3>2
  <2>2. CASE u \in D
    <3>1. Flat(t) = Flat(u) \o ts[t].fields /\ Above(t) = Above(u) + Len(ts[u].fields)
      BY <1>1, <2>2
    <3>2. Flat(u) \in Seq(F) /\ ts[t].fields \in Seq(F) /\ Len(Flat(u)) = Above(u) + Len(ts[u].fields)
      BY <1>1, <1>2, <2>2
    <3>3. Above(t) = Len(Flat(u)) /\ Len(Flat(u)) \in Nat
      BY <3>1, <3>2
    <3>4. PICK a \in Seq(F) : a = Flat(u)
      BY <3>2
    <3>5. PICK b \in Seq(F) : b = ts[t].fields
      BY <3>2
    <3>6. own + 1 \in 1 .. Len(b) /\ Len(b) \in Nat /\ Len(a) \in Nat
      BY <3>5
    <3>7. (a \o b)[Len(a) + (own + 1)] = b[own + 1]
      BY <3>6
    <3>8. Above(t) + own + 1 = Len(a) + (own + 1)
      BY <3>3, <3>4, <3>6
    <3>. QED
      BY <3>1, <3>4, <3>5, <3>7, <3>8
  <2>. QED
    BY <1>1, <2>1, <2>2
<1>. QED
  BY <1>2, <1>3 DEF Above, Flat

(* Entries are made of triples. *)
AreTriples ==
  /\ IsEntryPoint(table)
  /\ DOMAIN literals \subseteq 3 .. Len(table.entry)
  /\ \A k \in DOMAIN literals : IsTriple(table, k) /\ literals[k] = Entry(table, k)

LEMMA TriplesAreRecorded == ReflectionSpec => []AreTriples
<1>1. ReflectionInit => AreTriples
  BY ReflectionAssumption DEF ReflectionInit, AreTriples
<1>2. AreTriples /\ [ReflectionNext]_<<tableVars, memberVars, fileVars>> => AreTriples'
  <2>. SUFFICES ASSUME AreTriples, [ReflectionNext]_<<tableVars, memberVars, fileVars>>
                PROVE  AreTriples'
    OBVIOUS
  <2>1. CASE IndexEntrypoint
    <3>1. UNCHANGED table
      BY <2>1 DEF IndexEntrypoint, memberVars
    <3>2. PICK lost : literals' = Entries(table, lost)
      BY <2>1 DEF IndexEntrypoint
    <3>. QED
      BY <3>1, <3>2 DEF AreTriples, Entries
  <2>2. CASE UNCHANGED <<table, literals>>
    BY <2>2 DEF AreTriples
  <2>3. CASE ConstructorsNext /\ UNCHANGED <<memberVars, fileVars>>
    BY <2>2, <2>3 DEF memberVars, fileVars
  <2>4. CASE MembersNext /\ UNCHANGED fileVars
    BY <2>2, <2>4 DEF MembersNext, Ask, StaticInit, Assign, fileVars
  <2>. QED
    BY <2>1, <2>2, <2>3, <2>4 DEF ReflectionNext, memberVars, fileVars
<1>. QED
  BY <1>1, <1>2, PTL DEF ReflectionSpec

(* What the last opcode before left in a register. *)
LEMMA HeldFrom ==
  ASSUME NEW g, IsEntryPoint(g), NEW k \in DOMAIN g.entry, NEW reg, NEW j \in 1 .. k - 1,
         Writes(g.entry[j], reg), \A i \in j + 1 .. k - 1 : ~Writes(g.entry[i], reg),
         g.entry[j].op # "Other"
  PROVE  Held(g, k, reg) = IF g.entry[j].op = "Int" THEN g.ints[g.entry[j].p2]
                           ELSE g.globals[g.entry[j].p2].type
<1>. DEFINE w == {i \in 1 .. k - 1 : Writes(g.entry[i], reg)}
<1>1. k \in Nat
  BY DEF IsEntryPoint
<1>2. j \in w /\ \A i \in w : i <= j
  <2>1. ASSUME NEW i \in w PROVE i <= j
    <3>1. i \in 1 .. k - 1 /\ Writes(g.entry[i], reg)
      OBVIOUS
    <3>2. i \notin j + 1 .. k - 1
      BY <3>1
    <3>. QED
      BY <1>1, <3>1, <3>2
  <2>. QED
    BY <2>1
<1>. HIDE DEF w
<1>3. w \subseteq Int /\ j \in Int
  BY <1>1 DEF w
<1>4. (CHOOSE i \in w : \A h \in w : h <= i) = j
  <2>1. PICK x \in w : x = (CHOOSE i \in w : \A h \in w : h <= i) /\ \A h \in w : h <= x
    BY <1>2
  <2>. QED
    BY <1>2, <1>3, <2>1
<1>. QED
  BY <1>2, <1>4 DEF Held, w

(* A literal told of a static field is what the entry point stores there     *)
(* (staticfields.c), in games of any types, however long the entry point is, *)
(* and whichever entries there was no memory for.                            *)
THEOREM LiteralsAreTheGames == ReflectionSpec => []LiteralsAreStored(table, literals)
<1>1. ObjectsOfTypes /\ AreTriples => LiteralsAreStored(table, literals)
  <2>. SUFFICES ASSUME ObjectsOfTypes, AreTriples, NEW t \in DOMAIN table.types,
                       NEW field \in ToSet(table.types[t].fields),
                       Literal(literals, table.types[t].name, field) # NULL
                PROVE  \E k \in Stores(table, t, field) :
                         Held(table, k, table.entry[k].p3) = Literal(literals, table.types[t].name, field)
    BY DEF LiteralsAreStored
  <2>. DEFINE ops == table.entry
              own(k) == ops[k].p2 - FieldsAbove(table.types, t)
              found == Literals(literals, table.types[t].name, field)
  <2>1. found # {} /\ found \subseteq DOMAIN literals /\ found \subseteq Nat
    BY DEF Literal, AreTriples, Literals, IsEntryPoint
  <2>2. PICK j \in found : \A i \in found : j <= i
    BY <2>1, LeastExists
  <2>3. PICK k \in found : /\ k = CHOOSE m \in found : \A i \in found : m <= i
                           /\ Literal(literals, table.types[t].name, field) = literals[k].value
    BY <2>1, <2>2 DEF Literal
  <2>4. /\ k \in 3 .. Len(ops) /\ Len(ops) \in Nat /\ DOMAIN ops = 1 .. Len(ops)
        /\ IsTriple(table, k) /\ literals[k] = Entry(table, k)
        /\ literals[k].type = table.types[t].name /\ literals[k].field = field
    BY <2>1 DEF AreTriples, IsEntryPoint, Literals
  <2>5. /\ k \in DOMAIN ops /\ k - 1 \in DOMAIN ops /\ k - 2 \in DOMAIN ops /\ k \in Int
        /\ k - 1 \in 1 .. k - 1 /\ k - 2 \in 1 .. k - 1
    BY <2>4
  <2>. DEFINE u == table.globals[ops[k - 1].p2].type
  <2>6. /\ ops[k].op = "SetField" /\ ops[k - 1].op = "GetGlobal" /\ ops[k - 1].p1 = ops[k].p1
        /\ ops[k - 2].op = "Int" /\ ops[k - 2].p1 = ops[k].p3
        /\ ops[k - 1].p2 \in DOMAIN table.globals
        /\ ResolveOwnField(table.types, u, ops[k].p2) # NULL
    BY <2>4 DEF IsTriple, SameSource
  <2>7. /\ table.types[u].name = table.types[t].name
        /\ ResolveOwnField(table.types, u, ops[k].p2) = field
        /\ literals[k].value = table.ints[ops[k - 2].p2]
    <3>1. Entry(table, k) =
            [type |-> table.types[u].name, field |-> ResolveOwnField(table.types, u, ops[k].p2),
             value |-> table.ints[ops[k - 2].p2]]
      BY DEF Entry
    <3>. HIDE DEF u
    <3>. QED
      BY <2>4, <3>1
  <2>8. u \in DOMAIN table.types
    BY <2>6, MembersAssumption DEF ObjectsOfTypes, IsTypeTable
  <2>9. u = t
    <3>1. table.types[t].fields # <<>>
      BY DEF ToSet
    <3>2. table.types[u].fields # <<>>
      <4>1. ASSUME table.types[u].fields = <<>> PROVE FALSE
        <5>1. Len(table.types[u].fields) - 1 = -1
          BY <4>1
        <5>2. ~\E n \in 0 .. -1 : TRUE
          OBVIOUS
        <5>. QED
          BY <2>6, <5>1, <5>2 DEF ResolveOwnField
      <4>. QED
        BY <4>1
    <3>. QED
      BY <2>7, <2>8, <3>1, <3>2 DEF AreTriples, IsEntryPoint
  <2>10. Held(table, k, ops[k].p1) = t
    <3>1. Writes(ops[k - 1], ops[k].p1) /\ \A i \in (k - 1) + 1 .. k - 1 : ~Writes(ops[i], ops[k].p1)
      BY <2>5, <2>6 DEF Writes
    <3>. QED
      BY <2>5, <2>6, <2>9, <3>1, HeldFrom DEF AreTriples
  <2>11. Held(table, k, ops[k].p3) = table.ints[ops[k - 2].p2]
    <3>1. ops[k - 1].p1 # ops[k].p3
      BY <2>5, <2>6 DEF AreTriples, IsEntryPoint
    <3>2. Writes(ops[k - 2], ops[k].p3)
      BY <2>6 DEF Writes
    <3>3. ASSUME NEW i \in (k - 2) + 1 .. k - 1 PROVE ~Writes(ops[i], ops[k].p3)
      <4>1. i = k - 1
        BY <2>5
      <4>. QED
        BY <3>1, <4>1 DEF Writes
    <3>. QED
      BY <2>5, <2>6, <3>2, <3>3, HeldFrom DEF AreTriples
  <2>12. FlatFields(table.types, t)[ops[k].p2 + 1] = field
    <3>1. ops[k].p2 \in Nat
      BY <2>5, <2>6 DEF AreTriples, IsEntryPoint
    <3>2. own(k) \in 0 .. Len(table.types[t].fields) - 1 /\ table.types[t].fields[own(k) + 1] = field
      BY <2>6, <2>7, <2>9 DEF ResolveOwnField
    <3>3. /\ FieldsAbove(table.types, t) \in Nat
          /\ FlatFields(table.types, t)[FieldsAbove(table.types, t) + own(k) + 1] = field
      BY <3>2, FieldsAreNumbered DEF ObjectsOfTypes, AreTriples
    <3>4. FieldsAbove(table.types, t) + own(k) + 1 = ops[k].p2 + 1
      BY <3>1, <3>3
    <3>. QED
      BY <3>3, <3>4
  <2>13. k \in Stores(table, t, field)
    BY <2>5, <2>6, <2>10, <2>12 DEF Stores
  <2>. QED
    BY <2>3, <2>7, <2>11, <2>13
<1>. QED
  BY <1>1, ObjectsStayOfTypes, TriplesAreRecorded, PTL

-----------------------------------------------------------------------------
(* The arena. *)
Allocation == Nat \X Nat \X Nat
Arenas == [block : Nat, size : Nat, used : Nat, given : Seq(Allocation)]
Big(size) == IF size < Chunk THEN Chunk ELSE size
End(x) == x[2] + x[3]

(* An allocation that began its block, which is as large as that asked for.  *)
Begins(x, b) == x[1] = b /\ x[2] = 0

(* The newest block's allocations end where it has been used up to; in every *)
(* block they follow each other, and end before it does.                     *)
ArenaOK(a) ==
  /\ a \in Arenas
  /\ \A i \in DOMAIN a.given :
       LET x == a.given[i]
       IN  /\ x[1] \in 1 .. a.block /\ x[3] > 0
           /\ x[1] = a.block => End(x) <= a.used
           /\ \E f \in DOMAIN a.given : Begins(a.given[f], x[1]) /\ End(x) <= Big(a.given[f][3])
           /\ \A j \in DOMAIN a.given : i < j /\ a.given[j][1] = x[1] => End(x) <= a.given[j][2]
  /\ a.block > 0 => \E f \in DOMAIN a.given : Begins(a.given[f], a.block) /\ a.size = Big(a.given[f][3])

LEMMA AppendOne ==
  ASSUME NEW S, NEW s \in Seq(S), NEW e \in S
  PROVE  /\ Append(s, e) \in Seq(S) /\ Len(Append(s, e)) = Len(s) + 1 /\ Len(s) \in Nat
         /\ DOMAIN Append(s, e) = DOMAIN s \cup {Len(s) + 1} /\ DOMAIN s = 1 .. Len(s)
         /\ Append(s, e)[Len(s) + 1] = e
         /\ \A i \in DOMAIN s : Append(s, e)[i] = s[i]
  OBVIOUS

(* One more allocation at the end of a block keeps all others apart.         *)
LEMMA GivingKeeps ==
  ASSUME NEW a, ArenaOK(a), NEW n \in Nat \ {0}, NEW b, NEW o, NEW z \in Nat,
         \/ b = a.block /\ b > 0 /\ o = a.used /\ z = a.size /\ o + n <= z
         \/ b = a.block + 1 /\ o = 0 /\ z = Big(n)
  PROVE  LET c == [block |-> b, size |-> z, used |-> o + n, given |-> Append(a.given, <<b, o, n>>)]
         IN  ArenaOK(c) /\ Len(c.given) = Len(a.given) + 1
<1>. DEFINE old == a.given
            e == <<b, o, n>>
            new == Append(old, e)
            c == [block |-> b, size |-> z, used |-> o + n, given |-> new]
<1>1. /\ a.block \in Nat /\ a.size \in Nat /\ a.used \in Nat /\ old \in Seq(Allocation)
  BY DEF ArenaOK, Arenas
<1>2. b \in Nat /\ o \in Nat /\ e \in Allocation /\ b > 0 /\ a.block <= b
  BY <1>1 DEF Allocation
<1>3. /\ new \in Seq(Allocation) /\ Len(new) = Len(old) + 1 /\ Len(old) \in Nat
      /\ DOMAIN new = DOMAIN old \cup {Len(old) + 1} /\ DOMAIN old = 1 .. Len(old)
      /\ new[Len(old) + 1] = e /\ \A i \in DOMAIN old : new[i] = old[i]
  BY <1>1, <1>2, AppendOne
<1>4. e[1] = b /\ e[2] = o /\ e[3] = n /\ End(e) = o + n
  BY DEF End
<1>5. \A i \in DOMAIN old : old[i] \in Allocation /\ old[i][1] \in Nat /\ old[i][2] \in Nat /\ old[i][3] \in Nat
  <2>1. \A i \in DOMAIN old : old[i] \in Allocation
    BY <1>1
  <2>. QED
    BY <2>1 DEF Allocation
<1>. HIDE DEF new, e, old
<1>6. c \in Arenas /\ c.block = b /\ c.size = z /\ c.used = o + n /\ c.given = new
  BY <1>2, <1>3 DEF Arenas
<1>7. \E f \in DOMAIN new : Begins(new[f], b) /\ z = Big(new[f][3])
  <2>1. CASE b = a.block /\ z = a.size
    <3>1. PICK f \in DOMAIN old : Begins(old[f], a.block) /\ a.size = Big(old[f][3])
      BY <1>2, <2>1 DEF ArenaOK, old
    <3>. QED
      BY <1>3, <2>1, <3>1
  <2>2. CASE o = 0 /\ z = Big(n)
    BY <1>3, <1>4, <2>2 DEF Begins
  <2>. QED
    BY <2>1, <2>2
<1>8. ASSUME NEW i \in DOMAIN old
      PROVE  /\ old[i][1] \in 1 .. b /\ old[i][3] > 0
             /\ old[i][1] = b => End(old[i]) <= o
             /\ \E f \in DOMAIN new : Begins(new[f], old[i][1]) /\ End(old[i]) <= Big(new[f][3])
             /\ \A j \in DOMAIN old : i < j /\ old[j][1] = old[i][1] => End(old[i]) <= old[j][2]
  <2>1. /\ old[i][1] \in 1 .. a.block /\ old[i][3] > 0
        /\ old[i][1] = a.block => End(old[i]) <= a.used
        /\ \E f \in DOMAIN old : Begins(old[f], old[i][1]) /\ End(old[i]) <= Big(old[f][3])
        /\ \A j \in DOMAIN old : i < j /\ old[j][1] = old[i][1] => End(old[i]) <= old[j][2]
    BY DEF ArenaOK, old
  <2>2. old[i][1] = b => b = a.block /\ o = a.used
    BY <1>1, <2>1
  <2>3. \E f \in DOMAIN new : Begins(new[f], old[i][1]) /\ End(old[i]) <= Big(new[f][3])
    BY <1>3, <2>1
  <2>. QED
    BY <1>1, <1>2, <2>1, <2>2, <2>3
<1>9. ASSUME NEW i \in DOMAIN new
      PROVE  /\ new[i][1] \in 1 .. b /\ new[i][3] > 0
             /\ new[i][1] = b => End(new[i]) <= o + n
             /\ \E f \in DOMAIN new : Begins(new[f], new[i][1]) /\ End(new[i]) <= Big(new[f][3])
             /\ \A j \in DOMAIN new : i < j /\ new[j][1] = new[i][1] => End(new[i]) <= new[j][2]
  <2>1. CASE i \in DOMAIN old
    <3>1. new[i] = old[i] /\ End(old[i]) \in Nat
      BY <1>3, <1>5, <2>1 DEF End
    <3>2. ASSUME NEW j \in DOMAIN new, i < j, new[j][1] = new[i][1] PROVE End(new[i]) <= new[j][2]
      <4>1. CASE j \in DOMAIN old
        BY <1>3, <1>8, <2>1, <3>1, <3>2, <4>1
      <4>2. CASE j = Len(old) + 1
        BY <1>3, <1>4, <1>8, <2>1, <3>1, <3>2, <4>2
      <4>. QED
        BY <1>3, <4>1, <4>2
    <3>3. new[i][1] = b => End(new[i]) <= o + n
      BY <1>2, <1>8, <2>1, <3>1
    <3>. QED
      BY <1>8, <2>1, <3>1, <3>2, <3>3
  <2>2. CASE i = Len(old) + 1
    <3>1. new[i] = e
      BY <1>3, <2>2
    <3>2. o + n <= z
      BY <1>2 DEF Big
    <3>3. \A j \in DOMAIN new : ~(i < j)
      BY <1>3, <2>2
    <3>. QED
      BY <1>2, <1>4, <1>7, <3>1, <3>2, <3>3
  <2>. QED
    BY <1>3, <2>1, <2>2
<1>10. ArenaOK(c)
  <2>. HIDE DEF c
  <2>. QED
    BY <1>6, <1>7, <1>9 DEF ArenaOK
<1>. QED
  BY <1>3, <1>10 DEF c, new, old, e

LEMMA RoomUsed ==
  ASSUME NEW a \in Arenas, NEW u, NEW g
  PROVE  [a EXCEPT !.used = u, !.given = g] = [block |-> a.block, size |-> a.size, used |-> u, given |-> g]
<1>. DEFINE c == [block |-> a.block, size |-> a.size, used |-> u, given |-> a.given]
<1>1. [a EXCEPT !.used = u] = c
  BY DEF Arenas
<1>2. [a EXCEPT !.used = u, !.given = g] = [[a EXCEPT !.used = u] EXCEPT !.given = g]
  BY DEF Arenas
<1>3. [c EXCEPT !.given = g] = [block |-> a.block, size |-> a.size, used |-> u, given |-> g]
  OBVIOUS
<1>. HIDE DEF c
<1>. QED
  BY <1>1, <1>2, <1>3

LEMMA MallocKeeps ==
  ASSUME NEW a, ArenaOK(a), NEW n \in Nat
  PROVE  /\ ArenaOK(Malloc(a, n))
         /\ Len(Malloc(a, n).given) = IF n > 0 THEN Len(a.given) + 1 ELSE Len(a.given)
<1>1. CASE n = 0
  BY <1>1 DEF Malloc
<1>2. CASE n > 0 /\ Fits(a, n)
  <2>1. a \in Arenas /\ a.block \in Nat /\ a.size \in Nat /\ a.used \in Nat
    BY DEF ArenaOK, Arenas
  <2>2. Malloc(a, n) = [block |-> a.block, size |-> a.size, used |-> a.used + n,
                        given |-> Append(a.given, <<a.block, a.used, n>>)]
    <3>. DEFINE u == a.used + n
                g == Append(a.given, <<a.block, a.used, n>>)
    <3>1. Malloc(a, n) = [a EXCEPT !.used = u, !.given = g]
      <4>1. ~(n <= 0)
        BY <1>2
      <4>. QED
        BY <1>2, <4>1 DEF Malloc
    <3>. HIDE DEF u, g
    <3>2. [a EXCEPT !.used = u, !.given = g] = [block |-> a.block, size |-> a.size, used |-> u, given |-> g]
      BY <2>1, RoomUsed
    <3>. QED
      BY <3>1, <3>2 DEF u, g
  <2>3. a.block > 0 /\ a.used + n <= a.size
    BY <1>2, <2>1 DEF Fits, Remaining
  <2>. QED
    BY <1>2, <2>1, <2>2, <2>3, GivingKeeps
<1>3. CASE n > 0 /\ ~Fits(a, n)
  <2>1. Malloc(a, n) = [block |-> a.block + 1, size |-> Big(n), used |-> 0 + n,
                        given |-> Append(a.given, <<a.block + 1, 0, n>>)]
    <3>1. ~(n <= 0) /\ n = 0 + n
      BY <1>3
    <3>. QED
      BY <1>3, <3>1 DEF Malloc, Big
  <2>2. Big(n) \in Nat
    BY BytecodeShimAssumption DEF Big
  <2>. QED
    BY <1>3, <2>1, <2>2, GivingKeeps
<1>. QED
  BY <1>1, <1>2, <1>3

(* What is given is as many allocations as were asked for.                   *)
Wanted(s, n) == {i \in 1 .. n : s[i] > 0}

LEMMA WantedAreCounted ==
  ASSUME NEW s \in Seq(Nat), NEW n \in 1 .. Len(s)
  PROVE  /\ IsFiniteSet(Wanted(s, n - 1)) /\ Cardinality(Wanted(s, n - 1)) \in Nat
         /\ Cardinality(Wanted(s, n)) =
              IF s[n] > 0 THEN Cardinality(Wanted(s, n - 1)) + 1 ELSE Cardinality(Wanted(s, n - 1))
<1>1. n \in Nat \ {0} /\ n - 1 \in Nat
  OBVIOUS
<1>2. IsFiniteSet(Wanted(s, n - 1)) /\ Cardinality(Wanted(s, n - 1)) \in Nat
  <2>1. IsFiniteSet(1 .. n - 1)
    BY <1>1, FS_Interval
  <2>2. Wanted(s, n - 1) \subseteq 1 .. n - 1
    BY DEF Wanted
  <2>3. IsFiniteSet(Wanted(s, n - 1))
    BY <2>1, <2>2, FS_Subset
  <2>. QED
    BY <2>3, FS_CardinalityType
<1>3. n \notin Wanted(s, n - 1)
  BY <1>1 DEF Wanted
<1>4. CASE s[n] > 0
  <2>1. Wanted(s, n) = Wanted(s, n - 1) \cup {n}
    BY <1>1, <1>4 DEF Wanted
  <2>. QED
    BY <1>2, <1>3, <1>4, <2>1, FS_AddElement
<1>5. CASE ~(s[n] > 0)
  <2>1. Wanted(s, n) = Wanted(s, n - 1)
    BY <1>1, <1>5 DEF Wanted
  <2>. QED
    BY <1>2, <1>5, <2>1
<1>. QED
  BY <1>4, <1>5

(* All that a file has allocated follows each other.                         *)
LEMMA ArenasAreOK ==
  ASSUME NEW s \in Seq(Nat)
  PROVE  ArenaOK(Arena(s)) /\ Len(Arena(s).given) = Cardinality(Wanted(s, Len(s)))
<1>. DEFINE D == 0 .. Len(s)
            V == {a \in Arenas : ArenaOK(a)}
            sup == [i \in D |-> i - 1]
            base == [i \in D |-> AllocInit]
            step == [p \in D \X V |-> IF p[1] = 0 THEN p[2] ELSE Malloc(p[2], s[p[1]])]
            Is(f) == f = [n \in 0 .. Len(s) |-> IF n = 0 THEN AllocInit ELSE Malloc(f[n - 1], s[n])]
            arena == CHOOSE f : Is(f)
<1>1. Len(s) \in Nat /\ D \subseteq Nat /\ \A i \in D : i # 0 => i - 1 \in D /\ i \in 1 .. Len(s) /\ s[i] \in Nat
  OBVIOUS
<1>2. Ends(sup)
  <2>1. SUFFICES ASSUME NEW S \in SUBSET D, S # {} PROVE \E i \in S : sup[i] \notin S
    BY DEF Ends
  <2>2. PICK i \in S : \A j \in S : i <= j
    BY <1>1, <2>1, LeastExists
  <2>3. i - 1 \notin S
    BY <1>1, <2>2
  <2>. QED
    BY <2>2, <2>3
<1>3. ArenaOK(AllocInit) /\ Len(AllocInit.given) = 0
  BY DEF ArenaOK, Arenas, AllocInit
<1>4. base \in [D -> V] /\ step \in [D \X V -> V]
  <2>1. AllocInit \in V
    BY <1>3 DEF ArenaOK
  <2>2. ASSUME NEW p \in D \X V
        PROVE  (IF p[1] = 0 THEN p[2] ELSE Malloc(p[2], s[p[1]])) \in V
    <3>1. p[1] \in D /\ ArenaOK(p[2]) /\ p[2] \in V
      BY <2>2
    <3>2. p[1] # 0 => ArenaOK(Malloc(p[2], s[p[1]]))
      BY <1>1, <3>1, MallocKeeps
    <3>. QED
      BY <3>1, <3>2 DEF ArenaOK
  <2>. HIDE DEF V, D
  <2>. QED
    BY <2>1, <2>2
<1>5. PICK f \in [D -> V] : Solves(f, D, sup, base, step)
  <2>. HIDE DEF V, sup, base, step
  <2>1. DOMAIN sup = D
    BY DEF sup
  <2>. QED
    BY <1>2, <1>4, <2>1, RecursionExists
<1>6. ASSUME NEW i \in D
      PROVE  f[i] = IF i = 0 THEN AllocInit ELSE Malloc(f[i - 1], s[i])
  <2>. HIDE DEF V
  <2>1. sup[i] = i - 1 /\ DOMAIN sup = D /\ base[i] = AllocInit
    OBVIOUS
  <2>2. CASE i = 0
    <3>1. sup[i] \notin D
      BY <2>1, <2>2
    <3>. HIDE DEF sup, base, step, D
    <3>. QED
      BY <1>5, <2>1, <2>2, <3>1 DEF Solves
  <2>3. CASE i # 0
    <3>1. f[i] = step[<<i, f[sup[i]]>>]
      <4>1. sup[i] \in D
        BY <1>1, <2>1, <2>3
      <4>. HIDE DEF step, base, sup, D
      <4>. QED
        BY <1>5, <2>1, <4>1 DEF Solves
    <3>2. f[i - 1] \in V
      BY <1>1, <2>3
    <3>. QED
      BY <2>1, <2>3, <3>1, <3>2
  <2>. QED
    BY <2>2, <2>3
<1>7. Is(f)
  BY <1>6
<1>8. Is(arena)
  <2>. HIDE DEF Is
  <2>. QED
    BY <1>7
<1>9. Arena(s) = arena[Len(s)]
  BY DEF Arena
<1>10. ASSUME NEW i \in D
       PROVE  arena[i] = IF i = 0 THEN AllocInit ELSE Malloc(arena[i - 1], s[i])
  <2>. HIDE DEF arena
  <2>. QED
    BY <1>8
<1>11. ASSUME NEW i \in D
       PROVE  ArenaOK(arena[i]) /\ Len(arena[i].given) = Cardinality(Wanted(s, i))
  <2>. HIDE DEF arena
  <2>. DEFINE Good(j) == ArenaOK(arena[j]) /\ Len(arena[j].given) = Cardinality(Wanted(s, j))
              S == {j \in D : ~Good(j)}
  <2>1. SUFFICES ASSUME S # {} PROVE FALSE
    OBVIOUS
  <2>2. PICK j \in S : \A k \in S : j <= k
    BY <1>1, <2>1, LeastExists
  <2>3. CASE j = 0
    <3>1. Wanted(s, 0) = {}
      BY DEF Wanted
    <3>. QED
      BY <1>3, <1>10, <2>2, <2>3, <3>1, FS_EmptySet
  <2>4. CASE j # 0
    <3>1. j \in 1 .. Len(s) /\ j - 1 \in D /\ s[j] \in Nat /\ j - 1 \notin S
      BY <1>1, <2>2, <2>4
    <3>2. Good(j - 1)
      BY <3>1
    <3>3. arena[j] = Malloc(arena[j - 1], s[j])
      BY <1>10, <2>2, <2>4
    <3>4. Good(j)
      BY <3>1, <3>2, <3>3, MallocKeeps, WantedAreCounted
    <3>. QED
      BY <2>2, <3>4
  <2>. QED
    BY <2>3, <2>4
<1>. QED
  BY <1>1, <1>9, <1>11

(* Reading a file of any size, the reader's allocations never overlap, and   *)
(* each has all that was asked for (hl_malloc).                              *)
THEOREM ArenaStaysDisjoint == ReflectionSpec => []ArenaIsDisjoint(sizes)
<1>1. ASSUME NEW s \in Seq(Nat) PROVE ArenaIsDisjoint(s)
  <2>. DEFINE given == Arena(s).given
              Begin(i, b) == given[i][1] = b /\ given[i][2] = 0
              Earliest(b) == CHOOSE i \in DOMAIN given : given[i][1] = b /\ given[i][2] = 0
  <2>1. /\ ArenaOK(Arena(s)) /\ Len(given) = Cardinality(Wanted(s, Len(s)))
        /\ DOMAIN given \subseteq Nat
        /\ \A i \in DOMAIN given : given[i] \in Allocation
    BY ArenasAreOK DEF ArenaOK, Arenas
  <2>2. \A i \in DOMAIN given : given[i][1] \in Nat /\ given[i][2] \in Nat /\ given[i][3] \in Nat
    BY <2>1 DEF Allocation
  <2>3. ASSUME NEW i \in DOMAIN given, NEW j \in DOMAIN given, i < j, given[i][1] = given[j][1]
        PROVE  given[i][2] + given[i][3] <= given[j][2]
    BY <2>1, <2>3 DEF ArenaOK, End
  <2>4. ASSUME NEW i \in DOMAIN given
        PROVE  given[i][2] + given[i][3] <= Big(given[Earliest(given[i][1])][3])
    <3>. HIDE DEF given
    <3>1. PICK f \in DOMAIN given : Begin(f, given[i][1]) /\ End(given[i]) <= Big(given[f][3])
      BY <2>1 DEF ArenaOK, given, Begins
    <3>2. Earliest(given[i][1]) \in DOMAIN given /\ Begin(Earliest(given[i][1]), given[i][1])
      BY <3>1
    <3>3. ASSUME NEW g \in DOMAIN given, Begin(g, given[i][1]) PROVE g = f
      <4>1. \A k \in DOMAIN given : given[k][3] > 0
        BY <2>1 DEF ArenaOK, given
      <4>2. ~(g < f) /\ ~(f < g)
        BY <2>2, <2>3, <3>1, <3>3, <4>1
      <4>. QED
        BY <2>1, <4>2 DEF given
    <3>. HIDE DEF Earliest
    <3>. QED
      BY <3>1, <3>2, <3>3 DEF End
  <2>5. Wanted(s, Len(s)) = {i \in DOMAIN s : s[i] > 0}
    BY DEF Wanted
  <2>. QED
    BY <2>1, <2>3, <2>4, <2>5 DEF ArenaIsDisjoint, Big
<1>. DEFINE Sizes == sizes \in Seq(Nat)
<1>2. ReflectionInit => Sizes
  BY ReflectionAssumption DEF ReflectionInit
<1>3. Sizes /\ [ReflectionNext]_<<tableVars, memberVars, fileVars>> => Sizes'
  BY DEF ReflectionNext, IndexEntrypoint, fileVars
<1>4. Sizes => ArenaIsDisjoint(sizes)
  BY <1>1
<1>. HIDE DEF Sizes
<1>. QED
  BY <1>2, <1>3, <1>4, PTL DEF ReflectionSpec

-----------------------------------------------------------------------------
(* Names. *)

Joined(s, t) == s \o t

(* A sequence of sequences put together: the first k of them, for each k.     *)
IsPieces(P, seqs) ==
  /\ P[0] = <<>>
  /\ \A k \in 1 .. Len(seqs) : P[k] = Joined(P[k - 1], seqs[k])

Texts == Seq(Nat)

LEMMA JoinedIs ==
  ASSUME NEW s \in Texts, NEW t \in Texts, NEW u, u = Joined(s, t)
  PROVE  u \in Texts
  BY DEF Texts, Joined

LEMMA JoinedLength ==
  ASSUME NEW s \in Texts, NEW t \in Texts, NEW u, u = Joined(s, t)
  PROVE  Len(u) = Len(s) + Len(t)
  BY DEF Texts, Joined

LEMMA JoinedToNone ==
  ASSUME NEW s \in Texts
  PROVE  Joined(<<>>, s) = s
  BY DEF Texts, Joined

LEMMA LengthIs ==
  ASSUME NEW s \in Texts
  PROVE  Len(s) \in Nat
  BY DEF Texts

LEMMA JoinedFirst ==
  ASSUME NEW s \in Texts, NEW t \in Texts, NEW u, u = Joined(s, t), NEW i \in 1 .. Len(s)
  PROVE  u[i] = s[i]
  BY DEF Texts, Joined

IsAt(u, i, t) == \A k \in 1 .. Len(t) : u[i + k] = t[k]

LEMMA JoinedSecond ==
  ASSUME NEW s \in Texts, NEW t \in Texts, NEW u, u = Joined(s, t)
  PROVE  IsAt(u, Len(s), t)
  BY DEF Texts, Joined, IsAt

LEMMA FlattenedInPieces ==
  ASSUME NEW seqs \in Seq(Texts)
  PROVE  \E P \in [0 .. Len(seqs) -> Texts] : IsPieces(P, seqs) /\ FlattenSeq(seqs) = P[Len(seqs)]
<1>1. Len(seqs) \in Nat /\ DOMAIN seqs = 1 .. Len(seqs) /\ \A i \in 1 .. Len(seqs) : seqs[i] \in Texts
  OBVIOUS
<1>2. CASE Len(seqs) = 0
  <2>. DEFINE P == [k \in 0 .. Len(seqs) |-> <<>>]
  <2>1. seqs = <<>> /\ FlattenSeq(seqs) = <<>>
    BY <1>2 DEF FlattenSeq
  <2>2. P \in [0 .. Len(seqs) -> Texts] /\ P[0] = <<>>
    BY <1>2 DEF Texts
  <2>3. IsPieces(P, seqs) /\ P[Len(seqs)] = <<>>
    BY <1>2, <2>2 DEF IsPieces
  <2>. HIDE DEF P
  <2>. QED
    BY <2>1, <2>2, <2>3
<1>3. CASE Len(seqs) # 0
  <2>. DEFINE D == 1 .. Len(seqs)
              V == Texts
              sup == [i \in D |-> i - 1]
              step == [p \in D \X V |-> Joined(p[2], seqs[p[1]])]
              Is(f) == f = [i \in 1 .. Len(seqs) |-> IF i = 1 THEN seqs[i] ELSE Joined(f[i - 1], seqs[i])]
              flatten == CHOOSE f : Is(f)
  <2>1. D \subseteq Nat /\ \A i \in D : i # 1 => i - 1 \in D
    BY <1>1
  <2>2. Ends(sup)
    <3>1. SUFFICES ASSUME NEW X \in SUBSET D, X # {} PROVE \E i \in X : sup[i] \notin X
      BY DEF Ends
    <3>2. PICK i \in X : \A j \in X : i <= j
      BY <2>1, <3>1, LeastExists
    <3>3. i - 1 \notin X
      BY <2>1, <3>2
    <3>. QED
      BY <3>2, <3>3
  <2>3. seqs \in [D -> V] /\ step \in [D \X V -> V]
    <3>1. ASSUME NEW p \in D \X V PROVE Joined(p[2], seqs[p[1]]) \in V
      BY <1>1, <3>1, JoinedIs
    <3>. QED
      BY <1>1, <3>1
  <2>4. PICK f \in [D -> V] : Solves(f, D, sup, seqs, step)
    <3>. HIDE DEF V, sup, step
    <3>1. DOMAIN sup = D
      BY DEF sup
    <3>. QED
      BY <2>2, <2>3, <3>1, RecursionExists
  <2>5. ASSUME NEW i \in D PROVE f[i] = IF i = 1 THEN seqs[i] ELSE Joined(f[i - 1], seqs[i])
    <3>. HIDE DEF V
    <3>1. sup[i] = i - 1 /\ DOMAIN sup = D
      OBVIOUS
    <3>2. CASE i = 1
      <4>1. sup[i] \notin D
        BY <3>1, <3>2
      <4>. HIDE DEF sup, step, D
      <4>. QED
        BY <2>4, <3>1, <3>2, <4>1 DEF Solves
    <3>3. CASE i # 1
      <4>1. f[i] = step[<<i, f[sup[i]]>>]
        <5>1. sup[i] \in D
          BY <2>1, <3>1, <3>3
        <5>. HIDE DEF step, sup, D
        <5>. QED
          BY <2>4, <3>1, <5>1 DEF Solves
      <4>2. f[i - 1] \in V
        BY <2>1, <3>3
      <4>. QED
        BY <3>1, <3>3, <4>1, <4>2
    <3>. QED
      BY <3>2, <3>3
  <2>6. Is(f)
    BY <2>5
  <2>7. Is(flatten)
    <3>. HIDE DEF Is
    <3>. QED
      BY <2>6
  <2>8. FlattenSeq(seqs) = flatten[Len(seqs)]
    BY <1>3 DEF FlattenSeq, Joined
  <2>9. \A i \in D : flatten[i] = IF i = 1 THEN seqs[i] ELSE Joined(flatten[i - 1], seqs[i])
    <3>. HIDE DEF flatten
    <3>. QED
      BY <2>7
  <2>10. ASSUME NEW i \in D PROVE flatten[i] \in Texts
    <3>. HIDE DEF flatten
    <3>. DEFINE X == {j \in D : flatten[j] \notin Texts}
    <3>1. SUFFICES ASSUME X # {} PROVE FALSE
      OBVIOUS
    <3>2. PICK j \in X : \A k \in X : j <= k
      BY <2>1, <3>1, LeastExists
    <3>3. j # 1 => flatten[j - 1] \in Texts
      BY <2>1, <3>2
    <3>. QED
      <4>1. \/ j = 1
            \/ /\ j - 1 \in D /\ flatten[j - 1] \in Texts
               /\ flatten[j] = Joined(flatten[j - 1], seqs[j])
        BY <2>1, <2>9, <3>2, <3>3
      <4>2. seqs[j] \in Texts /\ (j = 1 => flatten[j] = seqs[j]) /\ flatten[j] \notin Texts
        BY <1>1, <2>9, <3>2
      <4>. QED
        BY <4>1, <4>2, JoinedIs
  <2>. DEFINE P == [k \in 0 .. Len(seqs) |-> IF k = 0 THEN <<>> ELSE flatten[k]]
  <2>. HIDE DEF flatten
  <2>11. P \in [0 .. Len(seqs) -> Texts]
    BY <1>1, <2>10 DEF Texts
  <2>12. P[0] = <<>> /\ P[Len(seqs)] = flatten[Len(seqs)]
    BY <1>1, <1>3
  <2>13. ASSUME NEW k \in 1 .. Len(seqs) PROVE P[k] = Joined(P[k - 1], seqs[k])
    <3>1. P[k] = flatten[k] /\ k - 1 \in 0 .. Len(seqs)
      BY <1>1
    <3>2. CASE k = 1
      <4>1. P[k] = seqs[k] /\ P[k - 1] = <<>> /\ seqs[k] \in Texts
        BY <1>1, <2>9, <2>12, <3>1, <3>2
      <4>. QED
        BY <4>1, JoinedToNone
    <3>3. CASE k # 1
      BY <1>1, <2>9, <3>1, <3>3
    <3>. QED
      BY <3>2, <3>3
  <2>14. IsPieces(P, seqs)
    BY <2>12, <2>13 DEF IsPieces
  <2>. HIDE DEF P
  <2>. QED
    BY <2>8, <2>11, <2>12, <2>14
<1>. QED
  BY <1>2, <1>3

(* Each piece is where it was put.                                           *)
LEMMA PiecesStay ==
  ASSUME NEW seqs \in Seq(Texts), NEW P \in [0 .. Len(seqs) -> Texts], IsPieces(P, seqs),
         NEW j \in 0 .. Len(seqs), NEW k \in j .. Len(seqs)
  PROVE  Len(P[j]) <= Len(P[k]) /\ \A i \in 1 .. Len(P[j]) : P[k][i] = P[j][i]
<1>. DEFINE Good(l) == Len(P[j]) <= Len(P[l]) /\ \A i \in 1 .. Len(P[j]) : P[l][i] = P[j][i]
            X == {l \in j .. Len(seqs) : ~Good(l)}
<1>1. SUFFICES ASSUME X # {} PROVE FALSE
  OBVIOUS
<1>2. Len(seqs) \in Nat /\ j \in Nat /\ \A i \in 1 .. Len(seqs) : seqs[i] \in Texts
  OBVIOUS
<1>3. PICK l \in X : \A m \in X : l <= m
  <2>1. X \subseteq Nat
    BY <1>2
  <2>. QED
    BY <1>1, <2>1, LeastExists
<1>4. P[j] \in Texts /\ Len(P[j]) \in Nat
  BY DEF Texts
<1>5. l # j
  BY <1>3, <1>4
<1>6. l - 1 \in j .. Len(seqs) /\ l \in 1 .. Len(seqs) /\ l - 1 \in 0 .. Len(seqs)
  BY <1>2, <1>3, <1>5
<1>7. Good(l - 1)
  BY <1>3, <1>6
<1>8. P[l] = Joined(P[l - 1], seqs[l]) /\ P[l - 1] \in Texts /\ seqs[l] \in Texts
  BY <1>2, <1>6 DEF IsPieces
<1>9. /\ Len(P[l]) = Len(P[l - 1]) + Len(seqs[l]) /\ Len(P[l - 1]) \in Nat /\ Len(seqs[l]) \in Nat
      /\ \A i \in 1 .. Len(P[l - 1]) : P[l][i] = P[l - 1][i]
  BY <1>8, JoinedLength, LengthIs, JoinedFirst
<1>10. Good(l)
  <2>1. Len(P[j]) <= Len(P[l])
    BY <1>4, <1>7, <1>9
  <2>2. ASSUME NEW i \in 1 .. Len(P[j]) PROVE P[l][i] = P[j][i]
    <3>1. i \in 1 .. Len(P[l - 1])
      BY <1>4, <1>7, <1>9
    <3>. QED
      BY <1>7, <1>9, <3>1
  <2>. QED
    BY <2>1, <2>2
<1>. QED
  BY <1>3, <1>10

LEMMA PlaceIs ==
  ASSUME NEW m \in Nat, NEW n \in Nat, NEW l \in Nat, m + n = l \/ m + n <= l, NEW i \in 1 .. n
  PROVE  m + i \in 1 .. l
  OBVIOUS

LEMMA PieceIsAt ==
  ASSUME NEW seqs \in Seq(Texts), NEW P \in [0 .. Len(seqs) -> Texts], IsPieces(P, seqs),
         NEW k \in 1 .. Len(seqs)
  PROVE  /\ Len(P[k - 1]) + Len(seqs[k]) <= Len(P[Len(seqs)])
         /\ IsAt(P[Len(seqs)], Len(P[k - 1]), seqs[k])
<1>1. /\ P[k] = Joined(P[k - 1], seqs[k]) /\ P[k - 1] \in Texts /\ seqs[k] \in Texts /\ P[Len(seqs)] \in Texts
      /\ Len(seqs) \in Nat /\ k \in 0 .. Len(seqs) /\ Len(seqs) \in k .. Len(seqs)
  BY DEF IsPieces
<1>2. /\ Len(P[k]) = Len(P[k - 1]) + Len(seqs[k]) /\ Len(P[k - 1]) \in Nat /\ Len(seqs[k]) \in Nat
      /\ IsAt(P[k], Len(P[k - 1]), seqs[k])
  <2>1. Len(P[k]) = Len(P[k - 1]) + Len(seqs[k])
    BY <1>1, JoinedLength
  <2>2. Len(P[k - 1]) \in Nat /\ Len(seqs[k]) \in Nat
    BY <1>1, LengthIs
  <2>3. IsAt(P[k], Len(P[k - 1]), seqs[k])
    BY <1>1, JoinedSecond
  <2>. QED
    BY <2>1, <2>2, <2>3
<1>3. Len(P[k]) <= Len(P[Len(seqs)]) /\ \A m \in 1 .. Len(P[k]) : P[Len(seqs)][m] = P[k][m]
  BY <1>1, PiecesStay
<1>4. ASSUME NEW i \in 1 .. Len(seqs[k]) PROVE P[Len(seqs)][Len(P[k - 1]) + i] = seqs[k][i]
  <2>1. Len(P[k - 1]) + i \in 1 .. Len(P[k])
    <3>1. Len(P[k]) \in Nat
      BY <1>1, LengthIs
    <3>. QED
      BY <1>2, <3>1, PlaceIs
  <2>. QED
    BY <1>2, <1>3, <2>1 DEF IsAt
<1>. QED
  BY <1>2, <1>3, <1>4 DEF IsAt

(* As many pieces as there are, none of them empty, are at least as long.     *)
LEMMA PiecesGrow ==
  ASSUME NEW seqs \in Seq(Texts), NEW P \in [0 .. Len(seqs) -> Texts], IsPieces(P, seqs),
         \A k \in 1 .. Len(seqs) : Len(seqs[k]) >= 1,
         NEW k \in 0 .. Len(seqs)
  PROVE  k <= Len(P[k])
<1>. DEFINE X == {l \in 0 .. Len(seqs) : ~(l <= Len(P[l]))}
<1>1. SUFFICES ASSUME X # {} PROVE FALSE
  OBVIOUS
<1>2. PICK l \in X : \A m \in X : l <= m
  <2>1. X \subseteq Nat
    OBVIOUS
  <2>. QED
    BY <1>1, <2>1, LeastExists
<1>3. l # 0
  BY <1>2 DEF IsPieces
<1>4. l \in 1 .. Len(seqs) /\ l - 1 \in 0 .. Len(seqs) /\ l - 1 \notin X
  BY <1>2, <1>3
<1>5. P[l] = Joined(P[l - 1], seqs[l]) /\ P[l - 1] \in Texts /\ seqs[l] \in Texts
  BY <1>4 DEF IsPieces
<1>6. Len(P[l]) = Len(P[l - 1]) + Len(seqs[l]) /\ Len(P[l - 1]) \in Nat /\ Len(seqs[l]) \in Nat
  BY <1>5, JoinedLength, LengthIs
<1>7. Len(seqs[l]) >= 1
  BY <1>4
<1>. QED
  <2>1. l - 1 <= Len(P[l - 1]) /\ l \in Nat
    BY <1>4
  <2>2. \A m, n \in Nat : l - 1 <= m /\ 1 <= n => l <= m + n
    BY <2>1
  <2>3. l <= Len(P[l - 1]) + Len(seqs[l])
    BY <1>6, <1>7, <2>1, <2>2
  <2>. QED
    BY <1>2, <1>6, <2>3

(* A character's encoding is read as that character.                         *)
IsChar(c) == c \in Nat /\ 0 < c /\ c < 1114112

LEMMA SixBits ==
  ASSUME NEW c \in Nat
  PROVE  /\ c = 64 * (c \div 64) + (c % 64)
         /\ c = 4096 * (c \div 4096) + 64 * ((c \div 64) % 64) + (c % 64)
         /\ c = 262144 * (c \div 262144) + 4096 * ((c \div 4096) % 64) + 64 * ((c \div 64) % 64) + (c % 64)
  BY SMT

LEMMA EncodingIs ==
  ASSUME NEW c, IsChar(c)
  PROVE  /\ Utf8(c) \in Texts /\ Len(Utf8(c)) \in 1 .. 4
         /\ Utf16(c) \in Texts /\ Len(Utf16(c)) \in 1 .. 2
<1>1. CASE c < 128
  BY SMT, <1>1 DEF Utf8, Utf16, IsChar, Texts
<1>2. CASE ~(c < 128) /\ c < 2048
  BY SMT, <1>2 DEF Utf8, Utf16, IsChar, Texts
<1>3. CASE ~(c < 2048) /\ c < 65536
  BY SMT, <1>3 DEF Utf8, Utf16, IsChar, Texts
<1>4. CASE ~(c < 65536)
  BY SMT, <1>4 DEF Utf8, Utf16, IsChar, Texts
<1>. QED
  BY SMT, <1>1, <1>2, <1>3, <1>4 DEF IsChar

LEMMA CharacterIsRead ==
  ASSUME NEW c, IsChar(c), NEW s, NEW i \in Nat,
         IsAt(s, i, Utf8(c))
  PROVE  /\ s[i + 1] # 0 /\ After(s, i + 1) = i + Len(Utf8(c)) + 1
         /\ Units(s[i + 1]) = Len(Utf16(c)) /\ Code(s, i + 1) = c
<1>. DEFINE b == s[i + 1]
<1>1. CASE c < 128
  <2>1. Utf8(c) = <<c>> /\ Utf16(c) = <<c>>
    BY SMT, <1>1 DEF Utf8, Utf16, IsChar
  <2>2. b = c
    BY SMT, <2>1 DEF IsAt
  <2>. QED
    BY SMT, <1>1, <2>1, <2>2 DEF After, Continuations, Units, Code, IsChar
<1>2. CASE ~(c < 128) /\ c < 2048
  <2>1. Utf8(c) = <<192 + (c \div 64), 128 + (c % 64)>> /\ Utf16(c) = <<c>>
    BY SMT, <1>2 DEF Utf8, Utf16, IsChar
  <2>2. b = 192 + (c \div 64) /\ s[(i + 1) + 1] = 128 + (c % 64)
    BY SMT, <2>1 DEF IsAt
  <2>3. b \in Nat /\ 194 <= b /\ b < 224 /\ b % 32 = c \div 64 /\ (128 + (c % 64)) % 64 = c % 64
    BY SMT, <1>2, <2>2 DEF IsChar
  <2>4. Continuations(b) = 1 /\ Units(b) = 1
    BY SMT, <2>3 DEF Continuations, Units
  <2>5. Code(s, i + 1) = 64 * (b % 32) + (s[(i + 1) + 1] % 64)
    BY SMT, <2>4 DEF Code
  <2>6. 64 * (c \div 64) + (c % 64) = c
    BY SMT, SixBits DEF IsChar
  <2>. QED
    BY SMT, <2>1, <2>2, <2>3, <2>4, <2>5, <2>6 DEF After
<1>3. CASE ~(c < 2048) /\ c < 65536
  <2>1. Utf8(c) = <<224 + (c \div 4096), 128 + ((c \div 64) % 64), 128 + (c % 64)>> /\ Utf16(c) = <<c>>
    BY SMT, <1>3 DEF Utf8, Utf16, IsChar
  <2>2. b = 224 + (c \div 4096) /\ s[(i + 1) + 1] = 128 + ((c \div 64) % 64) /\ s[(i + 1) + 2] = 128 + (c % 64)
    BY SMT, <2>1 DEF IsAt
  <2>3. b \in Nat /\ 224 <= b /\ b < 240 /\ b % 16 = c \div 4096
    BY SMT, <1>3, <2>2 DEF IsChar
  <2>4. Continuations(b) = 2 /\ Units(b) = 1
    BY SMT, <2>3 DEF Continuations, Units
  <2>5. Code(s, i + 1) = 4096 * (b % 16) + 64 * (s[(i + 1) + 1] % 64) + (s[(i + 1) + 2] % 64)
    BY SMT, <2>4 DEF Code
  <2>6. s[(i + 1) + 1] % 64 = (c \div 64) % 64 /\ s[(i + 1) + 2] % 64 = c % 64
    BY SMT, <1>3, <2>2 DEF IsChar
  <2>7. 4096 * (c \div 4096) + 64 * ((c \div 64) % 64) + (c % 64) = c
    BY SMT, SixBits DEF IsChar
  <2>. QED
    BY SMT, <2>1, <2>2, <2>3, <2>4, <2>5, <2>6, <2>7 DEF After
<1>4. CASE ~(c < 65536)
  <2>1. /\ Utf8(c) = <<240 + (c \div 262144), 128 + ((c \div 4096) % 64), 128 + ((c \div 64) % 64), 128 + (c % 64)>>
        /\ Len(Utf16(c)) = 2
    BY SMT, <1>4 DEF Utf8, Utf16, IsChar
  <2>2. /\ b = 240 + (c \div 262144) /\ s[(i + 1) + 1] = 128 + ((c \div 4096) % 64)
        /\ s[(i + 1) + 2] = 128 + ((c \div 64) % 64) /\ s[(i + 1) + 3] = 128 + (c % 64)
    BY SMT, <2>1 DEF IsAt
  <2>3. b \in Nat /\ 240 <= b /\ b < 248 /\ b % 8 = c \div 262144
    BY SMT, <1>4, <2>2 DEF IsChar
  <2>4. Continuations(b) = 3 /\ Units(b) = 2
    BY SMT, <2>3 DEF Continuations, Units
  <2>5. Code(s, i + 1) =
          262144 * (b % 8) + 4096 * (s[(i + 1) + 1] % 64) + 64 * (s[(i + 1) + 2] % 64) + (s[(i + 1) + 3] % 64)
    BY SMT, <2>4 DEF Code
  <2>6. /\ s[(i + 1) + 1] % 64 = (c \div 4096) % 64 /\ s[(i + 1) + 2] % 64 = (c \div 64) % 64
        /\ s[(i + 1) + 3] % 64 = c % 64
    BY SMT, <1>4, <2>2 DEF IsChar
  <2>7. 262144 * (c \div 262144) + 4096 * ((c \div 4096) % 64) + 64 * ((c \div 64) % 64) + (c % 64) = c
    BY SMT, SixBits DEF IsChar
  <2>. QED
    BY SMT, <2>1, <2>2, <2>3, <2>4, <2>5, <2>6, <2>7 DEF After
<1>. QED
  BY SMT, <1>1, <1>2, <1>3, <1>4 DEF IsChar

(* Where the reader is after each of n characters, and what it has by then.   *)
Goes(s, n, at) ==
  /\ at[0] = 1 /\ s[at[n]] = 0
  /\ \A k \in 1 .. n : s[at[k - 1]] # 0 /\ at[k] = After(s, at[k - 1])

Counts(s, n, at, units) ==
  /\ Goes(s, n, at) /\ units[0] = 0
  /\ \A k \in 1 .. n : units[k] = units[k - 1] + Units(s[at[k - 1]])

Decodes(s, n, at, out, outLen) ==
  /\ Goes(s, n, at) /\ out[0] = <<>>
  /\ \A k \in 1 .. n : /\ Len(out[k - 1]) \in Nat /\ Len(out[k - 1]) < outLen
                        /\ out[k] = Joined(out[k - 1], Utf16(Code(s, at[k - 1])))

(* Both of the reader's loops go from character to character, and stay at the *)
(* zero.                                                                     *)
LEMMA CountsAll ==
  ASSUME NEW s, Len(s) \in Nat, NEW n \in 0 .. Len(s), NEW at, NEW units, Counts(s, n, at, units)
  PROVE  Utf8Length(s) = units[n]
<1>. DEFINE D == 0 .. Len(s)
            last(k) == IF k < n THEN k ELSE n
            state(k) == [at |-> at[last(k)], units |-> units[last(k)]]
            Is(f) == f = [k \in 0 .. Len(s) |-> IF k = 0 THEN [at |-> 1, units |-> 0] ELSE Counted(s, f[k - 1])]
            f == [k \in D |-> state(k)]
            read == CHOOSE g : Is(g)
<1>1. ASSUME NEW k \in D, k # 0 PROVE state(k) = Counted(s, state(k - 1))
  <2>1. CASE k <= n
    <3>1. last(k) = k /\ last(k - 1) = k - 1 /\ k \in 1 .. n
      BY <1>1, <2>1
    <3>2. state(k - 1).at = at[k - 1] /\ state(k - 1).units = units[k - 1]
      BY <3>1
    <3>. QED
      BY <3>1, <3>2 DEF Counted, Counts, Goes
  <2>2. CASE ~(k <= n)
    <3>1. last(k) = n /\ last(k - 1) = n
      BY <1>1, <2>2
    <3>2. state(k - 1).at = at[n]
      BY <3>1
    <3>. QED
      BY <3>1, <3>2 DEF Counted, Counts, Goes
  <2>. QED
    BY <2>1, <2>2
<1>2. state(0) = [at |-> 1, units |-> 0]
  <2>1. last(0) = 0
    OBVIOUS
  <2>. QED
    BY <2>1 DEF Counts, Goes
<1>3. ASSUME NEW k \in D PROVE state(k) = IF k = 0 THEN [at |-> 1, units |-> 0] ELSE Counted(s, f[k - 1])
  <2>1. k # 0 => k - 1 \in D
    OBVIOUS
  <2>2. k # 0 => f[k - 1] = state(k - 1)
    <3>. HIDE DEF state
    <3>. QED
      BY <2>1
  <2>. HIDE DEF state, f
  <2>. QED
    BY <1>1, <1>2, <2>2
<1>4. Is(f)
  <2>. HIDE DEF state
  <2>. QED
    BY <1>3
<1>5. Is(read)
  <2>. HIDE DEF Is, f
  <2>. QED
    BY <1>4
<1>6. \A k \in D : read[k] = IF k = 0 THEN [at |-> 1, units |-> 0] ELSE Counted(s, read[k - 1])
  <2>. HIDE DEF read
  <2>. QED
    BY <1>5
<1>7. ASSUME NEW k \in D PROVE read[k] = state(k)
  <2>. HIDE DEF read, state
  <2>. DEFINE S == {j \in D : read[j] # state(j)}
  <2>1. SUFFICES ASSUME S # {} PROVE FALSE
    OBVIOUS
  <2>2. PICK j \in S : \A m \in S : j <= m
    <3>1. S \subseteq Nat
      OBVIOUS
    <3>. QED
      BY <2>1, <3>1, LeastExists
  <2>3. j # 0
    BY <1>2, <1>6, <2>2
  <2>4. j - 1 \in D /\ j - 1 \notin S
    BY <2>2, <2>3
  <2>. QED
    BY <1>1, <1>6, <2>2, <2>3, <2>4
<1>8. Utf8Length(s) = read[Len(s)].units
  BY DEF Utf8Length
<1>9. Len(s) \in D /\ last(Len(s)) = n
  OBVIOUS
<1>10. read[Len(s)] = state(Len(s))
  BY <1>7, <1>9
<1>11. state(Len(s)).units = units[n]
  BY <1>9
<1>. QED
  BY <1>8, <1>10, <1>11

LEMMA DecodesAll ==
  ASSUME NEW s, Len(s) \in Nat, NEW n \in 0 .. Len(s), NEW at, NEW out, NEW outLen \in Nat,
         Decodes(s, n, at, out, outLen)
  PROVE  FromUtf8(s, outLen) = Joined(out[n], <<0>>)
<1>. DEFINE D == 0 .. Len(s)
            last(k) == IF k < n THEN k ELSE n
            state(k) == [at |-> at[last(k)], out |-> out[last(k)]]
            Is(f) == f = [k \in 0 .. Len(s) |-> IF k = 0 THEN [at |-> 1, out |-> <<>>]
                                               ELSE Decoded(s, outLen, f[k - 1])]
            f == [k \in D |-> state(k)]
            read == CHOOSE g : Is(g)
<1>1. ASSUME NEW k \in D, k # 0 PROVE state(k) = Decoded(s, outLen, state(k - 1))
  <2>1. CASE k <= n
    <3>1. last(k) = k /\ last(k - 1) = k - 1 /\ k \in 1 .. n
      BY <1>1, <2>1
    <3>2. state(k - 1).at = at[k - 1] /\ state(k - 1).out = out[k - 1]
      BY <3>1
    <3>3. Decoded(s, outLen, state(k - 1)) =
            [at |-> After(s, at[k - 1]), out |-> Joined(out[k - 1], Utf16(Code(s, at[k - 1])))]
      <4>. HIDE DEF state, D, last
      <4>1. Len(out[k - 1]) \in Nat /\ Len(out[k - 1]) < outLen /\ s[at[k - 1]] # 0
        BY <3>1, Zenon DEF Decodes, Goes
      <4>2. ~(Len(out[k - 1]) >= outLen \/ s[at[k - 1]] = 0)
        BY <4>1
      <4>. QED
        BY <3>2, <4>2, Zenon DEF Decoded, Joined
    <3>. QED
      BY <3>1, <3>3 DEF Decodes, Goes
  <2>2. CASE ~(k <= n)
    <3>1. last(k) = n /\ last(k - 1) = n
      BY <1>1, <2>2
    <3>2. state(k - 1).at = at[n]
      BY <3>1
    <3>3. Decoded(s, outLen, state(k - 1)) = state(k - 1)
      <4>. HIDE DEF state
      <4>. QED
        BY <3>2, Zenon DEF Decoded, Decodes, Goes
    <3>. QED
      BY <3>1, <3>3
  <2>. QED
    BY <2>1, <2>2
<1>2. state(0) = [at |-> 1, out |-> <<>>]
  <2>1. last(0) = 0
    OBVIOUS
  <2>. QED
    BY <2>1 DEF Decodes, Goes
<1>3. ASSUME NEW k \in D PROVE state(k) = IF k = 0 THEN [at |-> 1, out |-> <<>>] ELSE Decoded(s, outLen, f[k - 1])
  <2>1. k # 0 => k - 1 \in D
    OBVIOUS
  <2>2. k # 0 => f[k - 1] = state(k - 1)
    <3>. HIDE DEF state
    <3>. QED
      BY <2>1
  <2>. HIDE DEF state, f
  <2>. QED
    BY <1>1, <1>2, <2>2
<1>4. Is(f)
  <2>. HIDE DEF state
  <2>. QED
    BY <1>3
<1>5. Is(read)
  <2>. HIDE DEF Is, f
  <2>. QED
    BY <1>4
<1>6. \A k \in D : read[k] = IF k = 0 THEN [at |-> 1, out |-> <<>>] ELSE Decoded(s, outLen, read[k - 1])
  <2>. HIDE DEF read
  <2>. QED
    BY <1>5
<1>7. ASSUME NEW k \in D PROVE read[k] = state(k)
  <2>. HIDE DEF read, state
  <2>. DEFINE S == {j \in D : read[j] # state(j)}
  <2>1. SUFFICES ASSUME S # {} PROVE FALSE
    OBVIOUS
  <2>2. PICK j \in S : \A m \in S : j <= m
    <3>1. S \subseteq Nat
      OBVIOUS
    <3>. QED
      BY <2>1, <3>1, LeastExists
  <2>3. j # 0
    BY <1>2, <1>6, <2>2
  <2>4. j - 1 \in D /\ j - 1 \notin S
    BY <2>2, <2>3
  <2>. QED
    BY <1>1, <1>6, <2>2, <2>3, <2>4
<1>8. FromUtf8(s, outLen) = Joined(read[Len(s)].out, <<0>>)
  BY Zenon DEF FromUtf8, Joined
<1>9. Len(s) \in D /\ last(Len(s)) = n
  OBVIOUS
<1>10. read[Len(s)] = state(Len(s))
  BY <1>7, <1>9
<1>11. state(Len(s)).out = out[n]
  BY <1>9
<1>. HIDE DEF read
<1>. QED
  BY <1>8, <1>10, <1>11

(* Names of any length, of any characters, decode to their UTF-16.           *)
LEMMA NamesAreExact ==
  ASSUME NEW points \in Seq(Points)
  PROVE  TextIsExact(points)
<1>. DEFINE n == Len(points)
            enc == [i \in DOMAIN points |-> Utf8(points[i])]
            uni == [i \in DOMAIN points |-> Utf16(points[i])]
            zero == <<0>>
            s == Joined(FlattenSeq(enc), zero)
            all == FlattenSeq(uni)
<1>1. n \in Nat /\ DOMAIN points = 1 .. n /\ \A k \in 1 .. n : IsChar(points[k])
  BY BytecodeShimAssumption, SMT DEF IsChar
<1>2. \A k \in 1 .. n : /\ enc[k] \in Texts /\ Len(enc[k]) \in 1 .. 4 /\ enc[k] = Utf8(points[k])
                        /\ uni[k] \in Texts /\ Len(uni[k]) \in 1 .. 2 /\ uni[k] = Utf16(points[k])
  BY <1>1, EncodingIs
<1>3. enc \in Seq(Texts) /\ Len(enc) = n /\ uni \in Seq(Texts) /\ Len(uni) = n
  BY <1>1, <1>2
<1>. HIDE DEF enc, uni
<1>4. PICK E \in [0 .. n -> Texts] : IsPieces(E, enc) /\ FlattenSeq(enc) = E[n]
  BY <1>3, FlattenedInPieces
<1>5. PICK U \in [0 .. n -> Texts] : IsPieces(U, uni) /\ all = U[n]
  BY <1>3, FlattenedInPieces
<1>6. \A k \in 0 .. n : E[k] \in Texts /\ Len(E[k]) \in Nat /\ U[k] \in Texts /\ Len(U[k]) \in Nat
  BY LengthIs
<1>7. zero \in Texts /\ Len(zero) = 1 /\ zero[1] = 0
  BY DEF Texts
<1>. HIDE DEF zero
<1>8. Len(s) = Len(E[n]) + 1 /\ (\A i \in 1 .. Len(E[n]) : s[i] = E[n][i]) /\ s[Len(E[n]) + 1] = 0
  <2>1. s = Joined(E[n], zero) /\ E[n] \in Texts /\ Len(E[n]) \in Nat
    BY <1>1, <1>4, <1>6
  <2>2. Len(s) = Len(E[n]) + Len(zero)
    BY <1>7, <2>1, JoinedLength
  <2>3. IsAt(s, Len(E[n]), zero)
    BY <1>7, <2>1, JoinedSecond
  <2>4. s[Len(E[n]) + 1] = zero[1]
    BY <1>7, <2>3 DEF IsAt
  <2>5. \A i \in 1 .. Len(E[n]) : s[i] = E[n][i]
    BY <1>7, <2>1, JoinedFirst
  <2>. QED
    BY <1>7, <2>2, <2>4, <2>5
<1>. DEFINE at == [k \in 0 .. n |-> Len(E[k]) + 1]
            units == [k \in 0 .. n |-> Len(U[k])]
<1>9. n <= Len(E[n])
  BY <1>1, <1>2, <1>3, <1>4, PiecesGrow
<1>10. Len(s) \in Nat /\ n \in 0 .. Len(s)
  BY <1>1, <1>6, <1>8, <1>9
<1>. HIDE DEF s
<1>11. ASSUME NEW k \in 1 .. n
       PROVE  /\ s[Len(E[k - 1]) + 1] # 0 /\ After(s, Len(E[k - 1]) + 1) = Len(E[k]) + 1
              /\ Units(s[Len(E[k - 1]) + 1]) = Len(uni[k]) /\ Utf16(Code(s, Len(E[k - 1]) + 1)) = uni[k]
              /\ Len(U[k]) = Len(U[k - 1]) + Len(uni[k]) /\ U[k] = Joined(U[k - 1], uni[k])
  <2>1. k - 1 \in 0 .. n /\ k \in 0 .. n
    BY <1>1
  <2>2. E[k] = Joined(E[k - 1], enc[k]) /\ U[k] = Joined(U[k - 1], uni[k])
    BY <1>3, <1>4, <1>5 DEF IsPieces
  <2>3. E[k - 1] \in Texts /\ U[k - 1] \in Texts /\ enc[k] \in Texts /\ uni[k] \in Texts
    BY <1>2, <1>6, <2>1
  <2>4. Len(E[k]) = Len(E[k - 1]) + Len(enc[k]) /\ Len(U[k]) = Len(U[k - 1]) + Len(uni[k])
    BY <2>2, <2>3, JoinedLength
  <2>5. IsAt(s, Len(E[k - 1]), enc[k])
    <3>1. Len(E[k - 1]) + Len(enc[k]) <= Len(E[n]) /\ IsAt(E[n], Len(E[k - 1]), enc[k])
      BY <1>3, <1>4, PieceIsAt
    <3>2. Len(E[k - 1]) \in Nat /\ Len(enc[k]) \in Nat /\ Len(E[n]) \in Nat
      BY <1>1, <1>2, <1>6, <2>1
    <3>3. ASSUME NEW i \in 1 .. Len(enc[k]) PROVE s[Len(E[k - 1]) + i] = enc[k][i]
      <4>1. Len(E[k - 1]) + i \in 1 .. Len(E[n])
        BY <3>1, <3>2, PlaceIs
      <4>. QED
        BY <1>8, <3>1, <4>1 DEF IsAt
    <3>. QED
      BY <3>3 DEF IsAt
  <2>6. Len(E[k - 1]) \in Nat /\ IsChar(points[k]) /\ enc[k] = Utf8(points[k]) /\ uni[k] = Utf16(points[k])
    BY <1>1, <1>2, <1>6, <2>1
  <2>7. /\ s[Len(E[k - 1]) + 1] # 0 /\ After(s, Len(E[k - 1]) + 1) = Len(E[k - 1]) + Len(Utf8(points[k])) + 1
        /\ Units(s[Len(E[k - 1]) + 1]) = Len(Utf16(points[k])) /\ Code(s, Len(E[k - 1]) + 1) = points[k]
    <3>1. IsAt(s, Len(E[k - 1]), Utf8(points[k]))
      BY <2>5, <2>6
    <3>. QED
      BY <2>6, <3>1, CharacterIsRead
  <2>. QED
    BY <2>2, <2>4, <2>6, <2>7
<1>12. at[0] = 1 /\ units[0] = 0 /\ U[0] = <<>> /\ s[at[n]] = 0
  <2>1. E[0] = <<>> /\ U[0] = <<>>
    BY <1>4, <1>5 DEF IsPieces
  <2>. QED
    BY <1>1, <1>8, <2>1
<1>13. ASSUME NEW k \in 1 .. n
       PROVE  /\ s[at[k - 1]] # 0 /\ at[k] = After(s, at[k - 1])
              /\ units[k] = units[k - 1] + Units(s[at[k - 1]])
              /\ U[k] = Joined(U[k - 1], Utf16(Code(s, at[k - 1])))
  <2>1. /\ at[k - 1] = Len(E[k - 1]) + 1 /\ at[k] = Len(E[k]) + 1
        /\ units[k - 1] = Len(U[k - 1]) /\ units[k] = Len(U[k])
    BY <1>1
  <2>. HIDE DEF at, units
  <2>. QED
    BY <1>11, <2>1
<1>14. Len(U[n]) \in Nat /\ units[n] = Len(U[n])
  BY <1>1, <1>6
<1>. HIDE DEF at, units
<1>15. Utf8Length(s) = Len(U[n])
  <2>1. Counts(s, n, at, units)
    BY <1>12, <1>13 DEF Counts, Goes
  <2>. QED
    BY <1>10, <1>14, <2>1, CountsAll
<1>16. ASSUME NEW k \in 1 .. n PROVE Len(U[k - 1]) \in Nat /\ Len(U[k - 1]) < Len(U[n])
  <2>1. k - 1 \in 0 .. n /\ k \in 0 .. n /\ n \in k .. n
    BY <1>1
  <2>2. Len(U[k]) = Len(U[k - 1]) + Len(uni[k]) /\ Len(U[k - 1]) \in Nat /\ Len(uni[k]) \in 1 .. 2
    BY <1>2, <1>6, <1>11, <2>1
  <2>3. Len(U[k]) <= Len(U[n])
    BY <1>3, <1>5, <2>1, PiecesStay
  <2>. QED
    BY <1>14, <2>2, <2>3
<1>17. FromUtf8(s, Len(U[n])) = Joined(U[n], zero)
  <2>1. Decodes(s, n, at, U, Len(U[n]))
    BY <1>12, <1>13, <1>16 DEF Decodes, Goes
  <2>. QED
    BY <1>10, <1>14, <2>1, DecodesAll DEF zero
<1>18. Len(Joined(U[n], zero)) = Len(U[n]) + 1
  <2>1. U[n] \in Texts
    BY <1>1, <1>6
  <2>. QED
    BY <1>7, <2>1, JoinedLength
<1>19. TextIsExact(points) <=> /\ FromUtf8(s, Utf8Length(s)) = Joined(all, zero)
                             /\ Len(FromUtf8(s, Utf8Length(s))) <= Utf8Length(s) + 1
  BY Zenon DEF TextIsExact, s, zero, enc, uni, Joined
<1>. QED
  BY <1>5, <1>14, <1>15, <1>17, <1>18, <1>19

(* Reading a file, the scan pairs a New with a call that is given its object  *)
(* when the function runs, the literals it tells of are those the game        *)
(* stores, every name comes out as it was encoded and within the memory its   *)
(* length asked for, and no allocation overlaps another: whatever the file,   *)
(* its size, and the memory that runs out (reflection.c, staticfields.c,      *)
(* hlcode_shim.c).                                                           *)
THEOREM ScanStaysExact == ReflectionSpec => []ScanIsExact
<1>. DEFINE Named == text \in Seq(Points)
<1>1. ReflectionInit => Named
  BY ReflectionAssumption DEF ReflectionInit
<1>2. Named /\ [ReflectionNext]_<<tableVars, memberVars, fileVars>> => Named'
  BY DEF ReflectionNext, IndexEntrypoint, fileVars
<1>3. Named => TextIsExact(text)
  BY NamesAreExact
<1>. HIDE DEF Named
<1>4. ReflectionSpec => []Named
  BY <1>1, <1>2, PTL DEF ReflectionSpec
<1>5. /\ SitesAreFirstUses /\ LiteralsAreStored(table, literals) /\ Named /\ ArenaIsDisjoint(sizes)
      => ScanIsExact
  BY <1>3 DEF ScanIsExact
<1>. QED
  BY <1>4, <1>5, SitesAreFound, LiteralsAreTheGames, ArenaStaysDisjoint, PTL

===================================================================================
