----------------------------- MODULE ListLemmas -----------------------------
(***************************************************************************)
(* What the program's linked lists do when an entry is pushed, popped or   *)
(* unlinked, and least elements: lemmas the proofs about several           *)
(* components share.                                                       *)
(***************************************************************************)
EXTENDS Integers, SequencesExt, SequenceTheorems, WellFoundedInduction, TLAPS

(* Removing the entry at a position shifts the later ones down by one. *)
LEMMA RemoveAtShifts ==
  ASSUME NEW S, NEW s \in Seq(S), NEW i \in 1 .. Len(s)
  PROVE  /\ RemoveAt(s, i) \in Seq(S)
         /\ Len(RemoveAt(s, i)) = Len(s) - 1
         /\ \A j \in 1 .. Len(s) - 1 :
              RemoveAt(s, i)[j] = IF j < i THEN s[j] ELSE s[j + 1]
<1>. DEFINE l == SubSeq(s, 1, i - 1)
            r == SubSeq(s, i + 1, Len(s))
<1>1. /\ l \in Seq(S) /\ Len(l) = i - 1
      /\ \A j \in 1 .. i - 1 : l[j] = s[j]
  <2>1. i - 1 \in Int /\ \A j \in 1 .. i - 1 : s[j] \in S
    OBVIOUS
  <2>. QED
    BY <2>1, SubSeqProperties
<1>2. /\ r \in Seq(S) /\ Len(r) = Len(s) - i
      /\ \A j \in 1 .. Len(s) - i : r[j] = s[i + j]
  <2>1. i + 1 \in Int /\ Len(s) \in Int /\ \A j \in i + 1 .. Len(s) : s[j] \in S
    OBVIOUS
  <2>2. /\ r \in Seq(S)
        /\ Len(r) = IF i + 1 <= Len(s) THEN Len(s) - (i + 1) + 1 ELSE 0
        /\ \A j \in 1 .. Len(s) - (i + 1) + 1 : r[j] = s[i + 1 + j - 1]
    BY <2>1, SubSeqProperties
  <2>. QED
    BY <2>2
<1>. HIDE DEF l, r
<1>3. /\ l \o r \in Seq(S) /\ Len(l \o r) = Len(s) - 1
      /\ \A j \in 1 .. Len(s) - 1 : (l \o r)[j] = IF j < i THEN s[j] ELSE s[j + 1]
  <2>1. /\ l \o r \in Seq(S)
        /\ Len(l \o r) = Len(l) + Len(r)
        /\ \A j \in 1 .. Len(l) + Len(r) :
              (l \o r)[j] = IF j <= Len(l) THEN l[j] ELSE r[j - Len(l)]
    BY <1>1, <1>2, ConcatProperties
  <2>2. Len(l) + Len(r) = Len(s) - 1
    BY <1>1, <1>2
  <2>3. ASSUME NEW j \in 1 .. Len(s) - 1
        PROVE  (l \o r)[j] = IF j < i THEN s[j] ELSE s[j + 1]
    <3>1. CASE j < i
      BY <3>1, <2>1, <2>2, <1>1
    <3>2. CASE ~(j < i)
      <4>1. (l \o r)[j] = r[j - (i - 1)] /\ j - (i - 1) \in 1 .. Len(s) - i
        BY <3>2, <2>1, <2>2, <1>1
      <4>2. r[j - (i - 1)] = s[i + (j - (i - 1))]
        BY <4>1, <1>2
      <4>. QED
        BY <4>1, <4>2, <3>2
    <3>. QED
      BY <3>1, <3>2
  <2>. QED
    BY <2>1, <2>2, <2>3
<1>4. RemoveAt(s, i) = l \o r
  BY DEF RemoveAt, l, r
<1>. QED
  BY <1>3, <1>4

(* Leaving the innermost of what is in progress. *)
LEMMA FrontDropsLast ==
  ASSUME NEW S, NEW s \in Seq(S), s # <<>>
  PROVE  /\ Front(s) \in Seq(S)
         /\ Len(Front(s)) = Len(s) - 1 /\ Len(s) - 1 \in Nat
         /\ \A i \in 1 .. Len(s) - 1 : Front(s)[i] = s[i]
<1>. DEFINE n == Len(s) - 1
<1>1. n \in Nat /\ n < Len(s) /\ Len(s) \in Nat
  BY EmptySeq
<1>2. \A j \in 1 .. n : s[j] \in S
  BY <1>1
<1>. HIDE DEF n
<1>3. /\ SubSeq(s, 1, n) \in Seq(S)
      /\ Len(SubSeq(s, 1, n)) = IF 1 <= n THEN n - 1 + 1 ELSE 0
      /\ \A i \in 1 .. n - 1 + 1 : SubSeq(s, 1, n)[i] = s[1 + i - 1]
  BY <1>1, <1>2, SubSeqProperties
<1>4. Len(SubSeq(s, 1, n)) = n
  BY <1>1, <1>3
<1>5. \A i \in 1 .. n : SubSeq(s, 1, n)[i] = s[i]
  BY <1>1, <1>3
<1>. QED
  BY <1>1, <1>3, <1>4, <1>5 DEF Front, n

(* Prepending shifts every entry up by one. *)
LEMMA PrependShifts ==
  ASSUME NEW S, NEW s \in Seq(S), NEW e \in S
  PROVE  /\ <<e>> \o s \in Seq(S)
         /\ Len(<<e>> \o s) = Len(s) + 1
         /\ \A j \in 1 .. Len(s) + 1 : (<<e>> \o s)[j] = IF j = 1 THEN e ELSE s[j - 1]
  OBVIOUS

(* Unlinking an entry of a list without repetitions takes away just that one. *)
LEMMA UnlinkedList ==
  ASSUME NEW S, NEW s \in Seq(S), NEW i \in 1 .. Len(s), IsInjective(s)
  PROVE  /\ RemoveAt(s, i) \in Seq(S)
         /\ IsInjective(RemoveAt(s, i))
         /\ ToSet(RemoveAt(s, i)) = ToSet(s) \ {s[i]}
<1>. DEFINE r == RemoveAt(s, i)
<1>1. /\ r \in Seq(S) /\ Len(r) = Len(s) - 1
      /\ \A j \in 1 .. Len(s) - 1 : r[j] = IF j < i THEN s[j] ELSE s[j + 1]
  BY RemoveAtShifts
<1>2. \A j, k \in 1 .. Len(s) : s[j] = s[k] => j = k
  BY DEF IsInjective
<1>. HIDE DEF r
<1>3. DOMAIN r = 1 .. Len(s) - 1 /\ DOMAIN s = 1 .. Len(s) /\ Len(s) \in Nat
  BY <1>1
<1>4. ASSUME NEW j \in DOMAIN r, NEW k \in DOMAIN r, r[j] = r[k]
      PROVE  j = k
  <2>. DEFINE up(x) == IF x < i THEN x ELSE x + 1
  <2>1. up(j) \in 1 .. Len(s) /\ up(k) \in 1 .. Len(s) /\ s[up(j)] = s[up(k)]
    BY <1>1, <1>3, <1>4
  <2>2. up(j) = up(k)
    BY <2>1, <1>2
  <2>. QED
    BY <2>2, <1>3
<1>5. ToSet(r) \subseteq ToSet(s) \ {s[i]}
  <2>1. ASSUME NEW j \in DOMAIN r
        PROVE  r[j] \in ToSet(s) /\ r[j] # s[i]
    <3>. DEFINE k == IF j < i THEN j ELSE j + 1
    <3>1. k \in 1 .. Len(s) /\ k # i /\ r[j] = s[k]
      BY <1>1, <1>3
    <3>. QED
      BY <3>1, <1>2, <1>3 DEF ToSet
  <2>. QED
    BY <2>1 DEF ToSet
<1>6. ToSet(s) \ {s[i]} \subseteq ToSet(r)
  <2>1. ASSUME NEW k \in 1 .. Len(s), k # i
        PROVE  s[k] \in ToSet(r)
    <3>. DEFINE j == IF k < i THEN k ELSE k - 1
    <3>1. j \in DOMAIN r /\ r[j] = s[k]
      BY <1>1, <1>3, <2>1
    <3>. QED
      BY <3>1 DEF ToSet
  <2>. QED
    BY <2>1, <1>3 DEF ToSet
<1>. QED
  BY <1>1, <1>4, <1>5, <1>6 DEF IsInjective, r

(* Pushing an entry puts just that one on the list.                          *)
LEMMA PrependAdds ==
  ASSUME NEW S, NEW s \in Seq(S), NEW e \in S
  PROVE  ToSet(<<e>> \o s) = {e} \cup ToSet(s)
<1>. DEFINE r == <<e>> \o s
<1>1. /\ r \in Seq(S) /\ Len(r) = Len(s) + 1
      /\ \A j \in 1 .. Len(s) + 1 : r[j] = IF j = 1 THEN e ELSE s[j - 1]
  BY PrependShifts
<1>. HIDE DEF r
<1>2. DOMAIN r = 1 .. Len(s) + 1 /\ DOMAIN s = 1 .. Len(s) /\ Len(s) \in Nat
  BY <1>1
<1>3. ToSet(r) \subseteq {e} \cup ToSet(s)
  BY <1>1, <1>2 DEF ToSet
<1>4. ASSUME NEW k \in 1 .. Len(s) PROVE s[k] \in ToSet(r)
  <2>1. k + 1 \in DOMAIN r /\ r[k + 1] = s[k]
    BY <1>1, <1>2
  <2>. QED
    BY <2>1 DEF ToSet
<1>5. e \in ToSet(r)
  <2>1. 1 \in DOMAIN r /\ r[1] = e
    BY <1>1, <1>2
  <2>. QED
    BY <2>1 DEF ToSet
<1>. QED
  BY <1>2, <1>3, <1>4, <1>5 DEF r, ToSet

(* Pushing an entry that is not on the list.                                 *)
LEMMA PushedList ==
  ASSUME NEW S, NEW s \in Seq(S), NEW e \in S, IsInjective(s), e \notin ToSet(s)
  PROVE  /\ <<e>> \o s \in Seq(S)
         /\ IsInjective(<<e>> \o s)
         /\ ToSet(<<e>> \o s) = ToSet(s) \cup {e}
<1>. DEFINE r == <<e>> \o s
<1>1. /\ r \in Seq(S) /\ Len(r) = Len(s) + 1
      /\ \A j \in 1 .. Len(s) + 1 : r[j] = IF j = 1 THEN e ELSE s[j - 1]
  BY PrependShifts
<1>2. ToSet(r) = {e} \cup ToSet(s)
  BY PrependAdds
<1>. HIDE DEF r
<1>3. DOMAIN r = 1 .. Len(s) + 1 /\ DOMAIN s = 1 .. Len(s) /\ Len(s) \in Nat
  BY <1>1
<1>4. ASSUME NEW j \in DOMAIN r, NEW k \in DOMAIN r, r[j] = r[k]
      PROVE  j = k
  BY <1>1, <1>3, <1>4 DEF IsInjective, ToSet
<1>. QED
  BY <1>1, <1>2, <1>4 DEF IsInjective, r

(* Popping the head of a list without repetitions. *)
LEMMA PoppedList ==
  ASSUME NEW S, NEW s \in Seq(S), s # <<>>, IsInjective(s)
  PROVE  /\ Head(s) \in ToSet(s) /\ Head(s) \in S
         /\ Tail(s) \in Seq(S) /\ IsInjective(Tail(s))
         /\ ToSet(Tail(s)) = ToSet(s) \ {Head(s)}
<1>. DEFINE r == Tail(s)
<1>1. /\ Len(s) \in Nat \ {0} /\ Head(s) = s[1] /\ s[1] \in S
      /\ r \in Seq(S) /\ Len(r) = Len(s) - 1
      /\ \A j \in 1 .. Len(s) - 1 : r[j] = s[j + 1]
  BY HeadTailProperties
<1>. HIDE DEF r
<1>2. DOMAIN r = 1 .. Len(s) - 1 /\ DOMAIN s = 1 .. Len(s)
  BY <1>1
<1>3. ASSUME NEW j \in DOMAIN r, NEW k \in DOMAIN r, r[j] = r[k]
      PROVE  j = k
  BY <1>1, <1>2, <1>3 DEF IsInjective
<1>4. ASSUME NEW j \in DOMAIN r
      PROVE  r[j] \in ToSet(s) /\ r[j] # Head(s)
  BY <1>1, <1>2 DEF ToSet, IsInjective
<1>5. ASSUME NEW k \in DOMAIN s, s[k] # Head(s)
      PROVE  s[k] \in ToSet(r)
  <2>1. k - 1 \in DOMAIN r /\ r[k - 1] = s[k]
    BY <1>1, <1>2, <1>5
  <2>. QED
    BY <2>1 DEF ToSet
<1>6. ToSet(r) = ToSet(s) \ {Head(s)}
  BY <1>4, <1>5 DEF ToSet
<1>7. Head(s) \in ToSet(s)
  BY <1>1, <1>2 DEF ToSet
<1>. QED
  BY <1>1, <1>3, <1>6, <1>7 DEF IsInjective, r

(* The usual order of the naturals, as a relation. *)
Less == {p \in Nat \X Nat : p[1] < p[2]}

(* Every set of naturals that is not empty has a least element. *)
LEMMA LeastExists ==
  ASSUME NEW S, S \subseteq Nat, S # {}
  PROVE  \E x \in S : \A y \in S : x <= y
<1>1. IsWellFoundedOn(Less, Nat)
  BY NatLessThanWellFounded DEF OpToRel, Less
<1>2. PICK x \in S : \A y \in S : <<y, x>> \notin Less
  BY <1>1, WFMin
<1>3. ASSUME NEW y \in S PROVE x <= y
  <2>1. x \in Nat /\ y \in Nat /\ <<y, x>> \notin Less
    BY <1>2
  <2>2. <<y, x>> \in Less <=> y < x
    BY <2>1 DEF Less
  <2>. QED
    BY <2>1, <2>2
<1>. QED
  BY <1>3

-----------------------------------------------------------------------------
(* Recursion along supertypes: sup gives each member of its domain the next, *)
(* outside of the domain when there is none, and there are no cycles.        *)

Ends(sup) == \A S \in SUBSET DOMAIN sup : S # {} => \E i \in S : sup[i] \notin S

UpClosed(U, sup) == U \subseteq DOMAIN sup /\ \A i \in U : sup[i] \in DOMAIN sup => sup[i] \in U

Solves(g, U, sup, base, step) ==
  \A i \in U : g[i] = IF sup[i] \in DOMAIN sup THEN step[<<i, g[sup[i]]>>] ELSE base[i]

LEMMA SolutionsAgree ==
  ASSUME NEW sup, NEW base, NEW step, Ends(sup), NEW U, NEW W, UpClosed(U, sup), UpClosed(W, sup),
         NEW g, Solves(g, U, sup, base, step), NEW h, Solves(h, W, sup, base, step),
         NEW i \in U \cap W
  PROVE  g[i] = h[i]
<1>. DEFINE S == {j \in U \cap W : g[j] # h[j]}
<1>1. SUFFICES ASSUME S # {} PROVE FALSE
  OBVIOUS
<1>2. PICK j \in S : sup[j] \notin S
  BY <1>1 DEF Ends, UpClosed
<1>3. sup[j] \in DOMAIN sup => g[sup[j]] = h[sup[j]]
  BY <1>2 DEF UpClosed
<1>. QED
  BY <1>2, <1>3 DEF Solves

LEMMA RecursionExists ==
  ASSUME NEW D, NEW V, NEW sup, DOMAIN sup = D, Ends(sup),
         NEW base \in [D -> V], NEW step \in [D \X V -> V]
  PROVE  \E g \in [D -> V] : Solves(g, D, sup, base, step)
<1>. DEFINE Part(U, g) == UpClosed(U, sup) /\ Solves(g, U, sup, base, step)
            Has(i) == \E U \in SUBSET D : \E g \in [U -> V] : i \in U /\ Part(U, g)
<1>1. ASSUME NEW i \in D PROVE Has(i)
  <2>. DEFINE S == {j \in D : ~Has(j)}
  <2>1. SUFFICES ASSUME S # {} PROVE FALSE
    OBVIOUS
  <2>2. PICK j \in S : sup[j] \notin S
    BY <2>1 DEF Ends
  <2>3. CASE sup[j] \notin D
    <3>. DEFINE g == [k \in {j} |-> base[j]]
    <3>1. g \in [{j} -> V] /\ UpClosed({j}, sup) /\ Solves(g, {j}, sup, base, step)
      BY <2>2, <2>3 DEF UpClosed, Solves
    <3>2. {j} \in SUBSET D
      BY <2>2
    <3>. QED
      BY <2>2, <3>1, <3>2
  <2>4. CASE sup[j] \in D
    <3>1. PICK U \in SUBSET D : \E g \in [U -> V] : sup[j] \in U /\ Part(U, g)
      BY <2>2, <2>4
    <3>2. PICK g \in [U -> V] : sup[j] \in U /\ Part(U, g)
      BY <3>1
    <3>3. j \notin U
      BY <2>2, <3>2
    <3>. DEFINE W == U \cup {j}
                h == [k \in W |-> IF k = j THEN step[<<j, g[sup[j]]>>] ELSE g[k]]
    <3>4. step[<<j, g[sup[j]]>>] \in V
      BY <2>2, <3>2
    <3>5. W \in SUBSET D /\ h \in [W -> V] /\ j \in W
      BY <2>2, <3>4
    <3>6. UpClosed(W, sup)
      BY <2>2, <3>2 DEF UpClosed
    <3>7. ASSUME NEW k \in W
          PROVE  h[k] = IF sup[k] \in DOMAIN sup THEN step[<<k, h[sup[k]]>>] ELSE base[k]
      <4>1. CASE k = j
        BY <2>4, <3>2, <3>3, <4>1
      <4>2. CASE k # j
        <5>1. k \in U /\ (sup[k] \in DOMAIN sup => sup[k] \in U /\ sup[k] # j)
          BY <3>2, <3>3, <4>2 DEF UpClosed
        <5>2. h[k] = g[k] /\ (sup[k] \in DOMAIN sup => h[sup[k]] = g[sup[k]])
          BY <4>2, <5>1
        <5>. QED
          BY <3>2, <5>1, <5>2 DEF Solves
      <4>. QED
        BY <4>1, <4>2
    <3>8. Solves(h, W, sup, base, step)
      BY <3>7 DEF Solves
    <3>. QED
      BY <2>2, <3>5, <3>6, <3>8
  <2>. QED
    BY <2>3, <2>4
<1>. DEFINE Value(i, v) == \E U \in SUBSET D : \E g \in [U -> V] : i \in U /\ Part(U, g) /\ v = g[i]
            G == [i \in D |-> CHOOSE v \in V : Value(i, v)]
<1>2. ASSUME NEW i \in D PROVE G[i] \in V /\ Value(i, G[i])
  <2>1. PICK U \in SUBSET D : \E g \in [U -> V] : i \in U /\ Part(U, g)
    BY <1>1
  <2>2. PICK g \in [U -> V] : i \in U /\ Part(U, g)
    BY <2>1
  <2>3. g[i] \in V /\ Value(i, g[i])
    BY <2>2
  <2>. HIDE DEF Value
  <2>. QED
    BY <2>3
<1>3. ASSUME NEW U \in SUBSET D, NEW g \in [U -> V], Part(U, g), NEW i \in U PROVE G[i] = g[i]
  <2>1. i \in D
    OBVIOUS
  <2>2. PICK W \in SUBSET D : \E h \in [W -> V] : i \in W /\ Part(W, h) /\ G[i] = h[i]
    BY <1>2, <2>1
  <2>. HIDE DEF G
  <2>3. PICK h \in [W -> V] : i \in W /\ Part(W, h) /\ G[i] = h[i]
    BY <2>2
  <2>. QED
    BY <1>3, <2>3, SolutionsAgree
<1>4. ASSUME NEW i \in D
      PROVE  G[i] = IF sup[i] \in DOMAIN sup THEN step[<<i, G[sup[i]]>>] ELSE base[i]
  <2>. HIDE DEF G
  <2>1. PICK U \in SUBSET D : \E g \in [U -> V] : i \in U /\ Part(U, g)
    BY <1>1
  <2>2. PICK g \in [U -> V] : i \in U /\ Part(U, g)
    BY <2>1
  <2>3. G[i] = g[i] /\ (sup[i] \in DOMAIN sup => G[sup[i]] = g[sup[i]])
    BY <1>3, <2>2 DEF UpClosed
  <2>. QED
    BY <2>2, <2>3 DEF Solves
<1>5. G \in [D -> V]
  BY <1>2
<1>. HIDE DEF G
<1>. QED
  BY <1>4, <1>5 DEF Solves
=============================================================================
