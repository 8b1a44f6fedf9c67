----------------------------- MODULE VersionGate -----------------------------
(***************************************************************************)
(* modinfo_allows_version: which versions of the game a mod.info allows.   *)
(* Each of its lines that names minGameVersion or maxGameVersion may rule  *)
(* the game's version out.  Components are integers of a fixed width; a    *)
(* bound may leave out its last ones.                                      *)
(***************************************************************************)
EXTENDS Integers, FiniteSets, SequencesExt

CONSTANTS
  Parts,    \* components of a version: 4 in the code
  MaxInt    \* INT32_MAX

ASSUME VersionGateAssumption == Parts \in Nat \ {0} /\ MaxInt \in Nat

Plus1(i) == IF i = MaxInt THEN -MaxInt - 1 ELSE i + 1   \* bound[...]++ in 32 bits
Padded(b) == [i \in 1 .. Parts |-> IF i <= Len(b) THEN b[i] ELSE 0]
Differing(v, b) == {i \in 1 .. Parts : v[i] # b[i]}

VersionAtLeast(v, b) ==
  LET d == Differing(v, Padded(b)) IN d = {} \/ v[Min(d)] > Padded(b)[Min(d)]

ExclusiveBound_Whole(b) ==   \* mutant: bumps the last component there can be
  [Padded(b) EXCEPT ![Parts] = Plus1(@)]
ExclusiveBound(b) == [Padded(b) EXCEPT ![Len(b)] = Plus1(@)]

VersionBelowMaxBound(v, b) ==
  LET bound == ExclusiveBound(b)
      d == Differing(v, bound)
  IN  d # {} /\ v[Min(d)] < bound[Min(d)]

(* A line has a key and the components its value begins with, if any.  A     *)
(* missing file has no lines.                                                *)
Refusing(l, v) ==
  /\ l.value # <<>>
  /\ \/ l.key = "min" /\ ~VersionAtLeast(v, l.value)
     \/ l.key = "max" /\ ~VersionBelowMaxBound(v, l.value)

AllowsVersion(info, v) == \A i \in DOMAIN info : ~Refusing(info[i], v)

-----------------------------------------------------------------------------
(* What a bound means: compare what is written, and that inclusively.        *)
LexLess(a, b) ==
  \E i \in DOMAIN b : a[i] < b[i] /\ \A j \in 1 .. i - 1 : a[j] = b[j]
AsFarAs(b, v) == SubSeq(v, 1, Len(b))
Means(l, v) ==
  CASE l.key = "min" -> ~LexLess(AsFarAs(l.value, v), l.value)
    [] l.key = "max" -> ~LexLess(l.value, AsFarAs(l.value, v))
    [] OTHER -> TRUE
Meant(info, v) == \A i \in DOMAIN info : Means(info[i], v)
===============================================================================
