-------------------------- MODULE KvRegistry_proofs --------------------------
(***************************************************************************)
(* Proofs about KvRegistry, for any names, values and addresses: the list  *)
(* is well typed, its roots match it, names are unique, nothing registered *)
(* is ever collected, and the list implements the map KvStore.             *)
(***************************************************************************)
EXTENDS KvRegistry, ListLemmas, FiniteSetTheorems, TLAPS

Entry == [node : Nodes, name : Names, value : Values \cup {NULL}]

(* The nodes of a list of entries. *)
LEMMA NodesOfList ==
  ASSUME NEW s \in Seq(Entry)
  PROVE  NodesOf(s) = {s[i].node : i \in 1 .. Len(s)} /\ NodesOf(s) \subseteq Nodes
<1>1. DOMAIN s = 1 .. Len(s) /\ \A i \in 1 .. Len(s) : s[i] \in Entry
  OBVIOUS
<1>2. \A i \in 1 .. Len(s) : s[i].node \in Nodes
  BY <1>1 DEF Entry
<1>. QED
  BY <1>1, <1>2 DEF NodesOf

(* The inductive invariant: the list's type, and the three properties that  *)
(* hold each other up.  Collect keeps RetainedUntilErased only because      *)
(* every entry is rooted; the erase of a register empties a name only       *)
(* because the name had one entry.                                          *)
ListOK == entries \in Seq(Entry) /\ roots \subseteq Nodes /\ collected \subseteq Values

IInv == ListOK /\ RootsMatchEntries /\ OneEntryPerName /\ RetainedUntilErased

(* Under the invariant FindEntry finds the one entry of a name. *)
LEMMA FindEntryFinds ==
  ASSUME ListOK, OneEntryPerName, NEW n, Positions(n) # {}
  PROVE  /\ FindEntry(n) \in 1 .. Len(entries)
         /\ Positions(n) = {FindEntry(n)}
         /\ entries[FindEntry(n)].name = n
<1>1. PICK i \in Positions(n) : TRUE
  OBVIOUS
<1>2. i \in 1 .. Len(entries) /\ entries[i].name = n
  BY <1>1 DEF Positions, ListOK
<1>3. Positions(n) = {i}
  BY <1>2 DEF Positions, OneEntryPerName, ListOK
<1>4. FindEntry(n) = i
  BY <1>2, <1>3 DEF FindEntry
<1>. QED
  BY <1>2, <1>3, <1>4

(* What EraseEntry leaves: the invariant, no entry of the name, and every   *)
(* entry of another name.                                                   *)
LEMMA ErasePreserves ==
  ASSUME IInv, NEW n
  PROVE  LET s == ErasedEntries(n)
             r == ErasedRoots(n)
         IN  /\ s \in Seq(Entry)
             /\ r = NodesOf(s)
             /\ \A i, j \in 1 .. Len(s) : s[i].node = s[j].node => i = j
             /\ \A i, j \in 1 .. Len(s) : s[i].name = s[j].name => i = j
             /\ \A i \in 1 .. Len(s) : s[i].name # n /\ s[i].value \notin collected
             /\ \A i \in 1 .. Len(s) : \E j \in 1 .. Len(entries) : s[i] = entries[j]
             /\ \A i \in 1 .. Len(entries) :
                  entries[i].name # n => \E j \in 1 .. Len(s) : s[j] = entries[i]
<1>. DEFINE s == ErasedEntries(n)
            r == ErasedRoots(n)
<1>. HIDE DEF s, r
<1>1. CASE Positions(n) = {}
  <2>1. s = entries /\ r = roots
    BY <1>1 DEF s, r, ErasedEntries, ErasedRoots
  <2>2. \A i \in 1 .. Len(entries) : entries[i].name # n
    BY <1>1 DEF Positions, IInv, ListOK
  <2>. QED
    BY <2>1, <2>2 DEF s, r, IInv, ListOK, RootsMatchEntries, OneEntryPerName,
                      RetainedUntilErased
<1>2. CASE Positions(n) # {}
  <2>. DEFINE p == FindEntry(n)
  <2>1. /\ p \in 1 .. Len(entries)
        /\ Positions(n) = {p}
        /\ entries[p].name = n
    BY <1>2, FindEntryFinds DEF IInv
  <2>2. s = RemoveAt(entries, p) /\ r = roots \ {entries[p].node}
    BY <1>2 DEF s, r, ErasedEntries, ErasedRoots
  <2>. HIDE DEF p
  <2>3. entries \in Seq(Entry)
    BY DEF IInv, ListOK
  <2>4. /\ s \in Seq(Entry)
        /\ Len(s) = Len(entries) - 1
        /\ \A j \in 1 .. Len(entries) - 1 :
              s[j] = IF j < p THEN entries[j] ELSE entries[j + 1]
    BY <2>1, <2>2, <2>3, RemoveAtShifts
  <2>5. \A i \in 1 .. Len(s) : \E j \in 1 .. Len(entries) : j # p /\ s[i] = entries[j]
    <3>. TAKE i \in 1 .. Len(s)
    <3>1. CASE i < p
      BY <3>1, <2>1, <2>3, <2>4
    <3>2. CASE ~(i < p)
      <4>1. i + 1 \in 1 .. Len(entries) /\ i + 1 # p /\ s[i] = entries[i + 1]
        BY <3>2, <2>1, <2>3, <2>4
      <4>. QED
        BY <4>1
    <3>. QED
      BY <3>1, <3>2
  <2>6. \A i \in 1 .. Len(entries) : i # p => \E j \in 1 .. Len(s) : s[j] = entries[i]
    <3>. TAKE i \in 1 .. Len(entries)
    <3>1. CASE i < p
      <4>1. i \in 1 .. Len(s) /\ s[i] = entries[i]
        BY <3>1, <2>1, <2>3, <2>4
      <4>. QED
        BY <4>1
    <3>2. CASE i > p
      <4>1. i - 1 \in 1 .. Len(s) /\ s[i - 1] = entries[i]
        BY <3>2, <2>1, <2>3, <2>4
      <4>. QED
        BY <4>1
    <3>. QED
      BY <3>1, <3>2, <2>1, <2>3
  <2>7. \A i, j \in 1 .. Len(entries) : entries[i].node = entries[j].node => i = j
    BY <2>3 DEF IInv, RootsMatchEntries
  <2>8. \A i, j \in 1 .. Len(entries) : entries[i].name = entries[j].name => i = j
    BY <2>3 DEF IInv, OneEntryPerName
  <2>9. \A i, j \in 1 .. Len(s) : s[i].node = s[j].node => i = j
    <3>. SUFFICES ASSUME NEW i \in 1 .. Len(s), NEW j \in 1 .. Len(s),
                         s[i].node = s[j].node
                  PROVE  i = j
      OBVIOUS
    <3>. DEFINE up(k) == IF k < p THEN k ELSE k + 1
    <3>1. /\ up(i) \in 1 .. Len(entries) /\ s[i] = entries[up(i)]
          /\ up(j) \in 1 .. Len(entries) /\ s[j] = entries[up(j)]
      BY <2>1, <2>3, <2>4
    <3>2. up(i) = up(j)
      BY <3>1, <2>7
    <3>. QED
      BY <3>2, <2>1, <2>4
  <2>10. \A i, j \in 1 .. Len(s) : s[i].name = s[j].name => i = j
    <3>. SUFFICES ASSUME NEW i \in 1 .. Len(s), NEW j \in 1 .. Len(s),
                         s[i].name = s[j].name
                  PROVE  i = j
      OBVIOUS
    <3>. DEFINE up(k) == IF k < p THEN k ELSE k + 1
    <3>1. /\ up(i) \in 1 .. Len(entries) /\ s[i] = entries[up(i)]
          /\ up(j) \in 1 .. Len(entries) /\ s[j] = entries[up(j)]
      BY <2>1, <2>3, <2>4
    <3>2. up(i) = up(j)
      BY <3>1, <2>8
    <3>. QED
      BY <3>2, <2>1, <2>4
  <2>11. \A i \in 1 .. Len(s) : s[i].name # n /\ s[i].value \notin collected
    <3>. TAKE i \in 1 .. Len(s)
    <3>1. PICK j \in 1 .. Len(entries) : j # p /\ s[i] = entries[j]
      BY <2>5
    <3>2. entries[j].name # n
      BY <3>1, <2>1, <2>8
    <3>3. entries[j].value \notin collected
      BY <2>3 DEF IInv, RetainedUntilErased
    <3>. QED
      BY <3>1, <3>2, <3>3
  <2>12. r = NodesOf(s)
    <3>1. roots = {entries[i].node : i \in 1 .. Len(entries)}
      BY <2>3 DEF IInv, RootsMatchEntries, NodesOf
    <3>2. NodesOf(s) = {s[i].node : i \in 1 .. Len(s)}
      BY <2>4 DEF NodesOf
    <3>3. ASSUME NEW x \in r PROVE x \in NodesOf(s)
      <4>1. PICK i \in 1 .. Len(entries) : x = entries[i].node /\ i # p
        BY <3>1, <3>3, <2>2, <2>1
      <4>2. PICK j \in 1 .. Len(s) : s[j] = entries[i]
        BY <4>1, <2>6
      <4>. QED
        BY <3>2, <4>1, <4>2
    <3>4. ASSUME NEW x \in NodesOf(s) PROVE x \in r
      <4>1. PICK i \in 1 .. Len(s) : x = s[i].node
        BY <3>2, <3>4
      <4>2. PICK j \in 1 .. Len(entries) : j # p /\ s[i] = entries[j]
        BY <2>5
      <4>3. x # entries[p].node
        BY <4>1, <4>2, <2>1, <2>7
      <4>. QED
        BY <4>1, <4>2, <4>3, <3>1, <2>2
    <3>. QED
      BY <3>3, <3>4
  <2>13. \A i \in 1 .. Len(s) : \E j \in 1 .. Len(entries) : s[i] = entries[j]
    BY <2>5
  <2>14. \A i \in 1 .. Len(entries) :
           entries[i].name # n => \E j \in 1 .. Len(s) : s[j] = entries[i]
    BY <2>1, <2>6
  <2>15. s \in Seq(Entry)
    BY <2>4
  <2>. QED
    BY <2>9, <2>10, <2>11, <2>12, <2>13, <2>14, <2>15, Zenon DEF s, r
<1>. QED
  BY <1>1, <1>2

-----------------------------------------------------------------------------
(* The entry a register prepends sits on a node no other entry has, under a *)
(* name no other entry has, so the four parts of the invariant survive.     *)
LEMMA RegisterKeepsIInv ==
  ASSUME IInv, NEW b \in WideNames, NEW k \in WideNames,
         NEW v \in Values \cup {NULL}, Register(b, k, v)
  PROVE  IInv'
<1>. DEFINE n == <<NarrowOf[b], NarrowOf[k]>>
            s == ErasedEntries(n)
            r == ErasedRoots(n)
<1>1. n \in Names
  BY DEF Names, Narrow
<1>. HIDE DEF n
<1>2. /\ s \in Seq(Entry)
      /\ r = NodesOf(s)
      /\ \A i, j \in 1 .. Len(s) : s[i].node = s[j].node => i = j
      /\ \A i, j \in 1 .. Len(s) : s[i].name = s[j].name => i = j
      /\ \A i \in 1 .. Len(s) : s[i].name # n /\ s[i].value \notin collected
  BY ErasePreserves
<1>3. /\ v \notin collected
      /\ collected' = collected
      /\ \/ \E node \in Nodes \ NodesOf(s) :
              /\ entries' = <<[node |-> node, name |-> n, value |-> v]>> \o s
              /\ roots' = r \cup {node}
         \/ entries' = s /\ roots' = r
  BY DEF Register, NameOf, AddRoot, n
<1>. HIDE DEF s, r
<1>4. NodesOf(s) = {s[i].node : i \in 1 .. Len(s)} /\ NodesOf(s) \subseteq Nodes
  BY <1>2, NodesOfList
<1>5. CASE entries' = s /\ roots' = r
  BY <1>2, <1>3, <1>4, <1>5 DEF IInv, ListOK, RootsMatchEntries, OneEntryPerName,
                                RetainedUntilErased, NodesOf
<1>6. ASSUME NEW node \in Nodes \ NodesOf(s),
             entries' = <<[node |-> node, name |-> n, value |-> v]>> \o s,
             roots' = r \cup {node}
      PROVE  IInv'
  <2>. DEFINE e == [node |-> node, name |-> n, value |-> v]
  <2>1. e \in Entry /\ e.node = node /\ e.name = n /\ e.value = v
    BY <1>1 DEF Entry
  <2>. HIDE DEF e
  <2>2. entries' = <<e>> \o s
    BY <1>6 DEF e
  <2>3. /\ entries' \in Seq(Entry)
        /\ Len(entries') = Len(s) + 1
        /\ \A j \in 1 .. Len(s) + 1 : entries'[j] = IF j = 1 THEN e ELSE s[j - 1]
    BY <2>1, <2>2, <1>2, PrependShifts
  <2>4. Len(s) \in Nat
    BY <1>2
  <2>5. NodesOf(entries') = NodesOf(s) \cup {node}
    <3>1. NodesOf(entries') = {entries'[i].node : i \in 1 .. Len(s) + 1}
      BY <2>3 DEF NodesOf
    <3>2. ASSUME NEW x \in NodesOf(s) PROVE x \in NodesOf(entries')
      <4>1. PICK i \in 1 .. Len(s) : x = s[i].node
        BY <1>4
      <4>2. i + 1 \in 1 .. Len(s) + 1 /\ entries'[i + 1] = s[i]
        BY <2>3, <2>4
      <4>. QED
        BY <4>1, <4>2, <3>1
    <3>3. node \in NodesOf(entries')
      <4>1. 1 \in 1 .. Len(s) + 1 /\ entries'[1].node = node
        BY <2>1, <2>3, <2>4
      <4>. QED
        BY <4>1, <3>1
    <3>4. ASSUME NEW x \in NodesOf(entries') PROVE x \in NodesOf(s) \cup {node}
      <4>1. PICK i \in 1 .. Len(s) + 1 : x = entries'[i].node
        BY <3>1
      <4>2. i = 1 \/ i - 1 \in 1 .. Len(s)
        BY <2>4
      <4>. QED
        BY <4>1, <4>2, <2>1, <2>3, <1>4
    <3>. QED
      BY <3>2, <3>3, <3>4
  <2>6. \A i \in 1 .. Len(s) : s[i].node # node
    BY <1>4
  <2>7. RootsMatchEntries'
    <3>1. roots' = NodesOf(entries')
      BY <1>2, <1>6, <2>5
    <3>2. ASSUME NEW i \in 1 .. Len(s) + 1, NEW j \in 1 .. Len(s) + 1,
                 entries'[i].node = entries'[j].node
          PROVE  i = j
      <4>1. \A m \in 1 .. Len(s) + 1 : m # 1 =>
              m - 1 \in 1 .. Len(s) /\ entries'[m] = s[m - 1]
        BY <2>3, <2>4
      <4>2. entries'[1].node = node
        BY <2>1, <2>3, <2>4
      <4>3. CASE i = 1 \/ j = 1
        BY <3>2, <4>1, <4>2, <4>3, <2>6
      <4>4. CASE i # 1 /\ j # 1
        <5>1. i - 1 = j - 1
          BY <3>2, <4>1, <4>4, <1>2
        <5>. QED
          BY <5>1, <2>4
      <4>. QED
        BY <4>3, <4>4
    <3>3. DOMAIN entries' = 1 .. Len(s) + 1
      BY <2>3
    <3>. QED
      BY <3>1, <3>2, <3>3 DEF RootsMatchEntries
  <2>8. OneEntryPerName'
    <3>1. ASSUME NEW i \in 1 .. Len(s) + 1, NEW j \in 1 .. Len(s) + 1,
                 entries'[i].name = entries'[j].name
          PROVE  i = j
      <4>1. /\ i # 1 => i - 1 \in 1 .. Len(s) /\ entries'[i] = s[i - 1]
            /\ j # 1 => j - 1 \in 1 .. Len(s) /\ entries'[j] = s[j - 1]
        BY <2>3, <2>4
      <4>2. entries'[1].name = n
        BY <2>1, <2>3, <2>4
      <4>3. i = 1 <=> j = 1
        BY <1>2, <3>1, <4>1, <4>2
      <4>4. i # 1 /\ j # 1 => i - 1 = j - 1
        BY <1>2, <3>1, <4>1
      <4>. QED
        BY <4>3, <4>4
    <3>. QED
      BY <3>1, <2>3 DEF OneEntryPerName
  <2>9. RetainedUntilErased'
    <3>1. \A i \in 1 .. Len(s) + 1 : entries'[i].value \notin collected'
      BY <1>2, <1>3, <2>1, <2>3, <2>4
    <3>. QED
      BY <3>1, <2>3 DEF RetainedUntilErased
  <2>10. ListOK'
    BY <1>2, <1>3, <1>4, <1>6, <2>3 DEF ListOK, IInv
  <2>. QED
    BY <2>7, <2>8, <2>9, <2>10 DEF IInv
<1>. QED
  BY <1>3, <1>5, <1>6

(* Unregistering a name leaves the entries of the others as they were.       *)
LEMMA UnregisterKeepsIInv ==
  ASSUME IInv, NEW b, NEW k, Unregister(b, k)
  PROVE  IInv'
<1>. DEFINE n == <<NarrowOf[b], NarrowOf[k]>>
            s == ErasedEntries(n)
<1>1. /\ s \in Seq(Entry)
      /\ ErasedRoots(n) = NodesOf(s)
      /\ \A i, j \in 1 .. Len(s) : s[i].node = s[j].node => i = j
      /\ \A i, j \in 1 .. Len(s) : s[i].name = s[j].name => i = j
      /\ \A i \in 1 .. Len(s) : s[i].name # n /\ s[i].value \notin collected
  BY ErasePreserves
<1>2. entries' = s /\ roots' = NodesOf(s) /\ collected' = collected
  BY <1>1 DEF Unregister, NameOf
<1>. HIDE DEF s
<1>3. NodesOf(s) \subseteq Nodes
  BY <1>1, NodesOfList
<1>4. DOMAIN s = 1 .. Len(s)
  BY <1>1
<1>5. ListOK'
  BY <1>1, <1>2, <1>3 DEF ListOK, IInv
<1>6. RootsMatchEntries'
  BY <1>1, <1>2, <1>4 DEF RootsMatchEntries, NodesOf
<1>7. OneEntryPerName' /\ RetainedUntilErased'
  BY <1>1, <1>2, <1>4 DEF OneEntryPerName, RetainedUntilErased
<1>. QED
  BY <1>5, <1>6, <1>7 DEF IInv

(* The collector spares the values of the rooted entries, and every entry   *)
(* is rooted.                                                               *)
LEMMA CollectKeepsIInv ==
  ASSUME IInv, NEW v \in Values, Collect(v)
  PROVE  IInv'
<1>1. \A i \in DOMAIN entries : entries[i].node \in roots
  BY DEF IInv, RootsMatchEntries, NodesOf
<1>2. \A i \in DOMAIN entries : entries[i].value # v
  BY <1>1 DEF Collect
<1>3. entries' = entries /\ roots' = roots /\ collected' = collected \cup {v}
  BY DEF Collect
<1>4. RetainedUntilErased'
  BY <1>2, <1>3 DEF IInv, RetainedUntilErased
<1>. QED
  BY <1>3, <1>4 DEF IInv, ListOK, RootsMatchEntries, OneEntryPerName, NodesOf

(* Every behaviour keeps the roots equal to the live entries, one entry per *)
(* name, and no collected value in the list.                                *)
THEOREM KvInvariant == Spec => []IInv
<1>1. Init => IInv
  BY DEF Init, IInv, ListOK, RootsMatchEntries, OneEntryPerName, RetainedUntilErased, NodesOf
<1>2. IInv /\ [Next]_vars => IInv'
  <2>. SUFFICES ASSUME IInv, [Next]_vars PROVE IInv'
    OBVIOUS
  <2>1. CASE \E b, k \in WideNames, v \in Values \cup {NULL} : Register(b, k, v)
    BY <2>1, RegisterKeepsIInv
  <2>2. CASE \E b, k \in WideNames : Unregister(b, k)
    BY <2>2, UnregisterKeepsIInv
  <2>3. CASE \E v \in Values : Collect(v)
    BY <2>3, CollectKeepsIInv
  <2>4. CASE UNCHANGED <<entries, roots, collected>>
    BY <2>4 DEF IInv, ListOK, RootsMatchEntries, OneEntryPerName, RetainedUntilErased, NodesOf
  <2>. QED
    BY <2>1, <2>2, <2>3, <2>4 DEF Next, vars, BeginList, ReadNext, EndList
<1>. QED
  BY <1>1, <1>2, PTL DEF Spec

(* registry.c: the roots are exactly the value cells of the live entries.   *)
THEOREM RootsAlwaysMatch == Spec => []RootsMatchEntries
<1>1. IInv => RootsMatchEntries
  BY DEF IInv
<1>. QED
  BY <1>1, KvInvariant, PTL

(* registry.c: re-registering a name replaces its entry.                    *)
THEOREM NamesStayUnique == Spec => []OneEntryPerName
<1>1. IInv => OneEntryPerName
  BY DEF IInv
<1>. QED
  BY <1>1, KvInvariant, PTL

(* The listing that Registry.hx keeps is of its type: a count is a natural   *)
(* number, and what value_at answers a value or null.                        *)
ListingOK ==
  listing \in [bucket : WideNames \cup {NULL}, count : Nat,
               out : Seq(Values \cup {NULL}), disturbed : BOOLEAN]

LEMMA CountIsNatural ==
  ASSUME ListOK, NEW b
  PROVE  Count(b) \in Nat
<1>. DEFINE B == InBucket(NarrowOf[b])
<1>1. Len(entries) \in Int /\ B \subseteq 1 .. Len(entries)
  BY DEF ListOK, InBucket
<1>. HIDE DEF B
<1>2. IsFiniteSet(1 .. Len(entries))
  BY <1>1, FS_Interval
<1>3. IsFiniteSet(B)
  BY <1>1, <1>2, FS_Subset
<1>4. Cardinality(B) \in Nat
  BY <1>3, FS_CardinalityType
<1>. QED
  BY <1>4 DEF Count, B

LEMMA ValueAtIsAValue ==
  ASSUME ListOK, NEW b, NEW i
  PROVE  ValueAt(b, i) \in Values \cup {NULL}
<1>. DEFINE at == {p \in InBucket(NarrowOf[b]) : Before(NarrowOf[b], p) = i}
<1>1. ValueAt(b, i) = IF at = {} THEN NULL ELSE entries[CHOOSE p \in at : TRUE].value
  BY DEF ValueAt
<1>2. at \subseteq 1 .. Len(entries) /\ \A p \in 1 .. Len(entries) : entries[p] \in Entry
  BY DEF ListOK, InBucket
<1>. HIDE DEF at
<1>3. at # {} => (CHOOSE p \in at : TRUE) \in at
  OBVIOUS
<1>. QED
  BY <1>1, <1>2, <1>3 DEF Entry

LEMMA ListingStep == IInv /\ ListingOK /\ [Next]_vars => ListingOK'
<1>. SUFFICES ASSUME ListOK, ListingOK, [Next]_vars PROVE ListingOK'
  BY DEF IInv
<1>. USE DEF ListingOK
<1>1. ASSUME Disturb PROVE ListingOK'
  BY <1>1 DEF Disturb
<1>2. ASSUME NEW b \in WideNames, BeginList(b) PROVE ListingOK'
  BY <1>2, CountIsNatural DEF BeginList
<1>3. CASE ReadNext
  <2>. DEFINE v == ValueAt(listing.bucket, Len(listing.out))
  <2>1. v \in Values \cup {NULL}
    BY ValueAtIsAValue
  <2>2. listing' = [listing EXCEPT !.out = Append(listing.out, v)]
    BY <1>3 DEF ReadNext
  <2>. HIDE DEF v
  <2>3. Append(listing.out, v) \in Seq(Values \cup {NULL})
    BY <2>1
  <2>. QED
    BY <2>2, <2>3
<1>4. CASE EndList
  BY <1>4 DEF EndList, NoListing
<1>5. CASE UNCHANGED listing
  BY <1>5
<1>. QED
  BY <1>1, <1>2, <1>3, <1>4, <1>5 DEF Next, Register, Unregister, Collect, vars

(* registry.c, Registry.hx: the whole state stays well typed.               *)
THEOREM TypeCorrect == Spec => []TypeOK
<1>1. Init => ListingOK /\ gcReady \in BOOLEAN
  BY DEF Init, ListingOK, NoListing
<1>2. gcReady \in BOOLEAN /\ [Next]_vars => (gcReady \in BOOLEAN)'
  BY DEF Next, vars, Register, Unregister, BeginList, ReadNext, EndList, Collect
<1>3. IInv /\ ListingOK /\ gcReady \in BOOLEAN => TypeOK
  BY DEF IInv, ListOK, ListingOK, TypeOK, Entry
<1>. QED
  BY <1>1, <1>2, <1>3, KvInvariant, ListingStep, PTL DEF Spec

(* registry.c: so list and roots agree in every state.                      *)
THEOREM ListStaysConsistent == Spec => []ListConsistent
<1>1. TypeOK /\ RootsMatchEntries /\ OneEntryPerName => ListConsistent
  BY DEF ListConsistent
<1>. QED
  BY <1>1, TypeCorrect, RootsAlwaysMatch, NamesStayUnique, PTL

(* registry.c: what is registered stays alive whatever its mod does.        *)
THEOREM RegisteredStaysAlive == Spec => []RetainedUntilErased
<1>1. IInv => RetainedUntilErased
  BY DEF IInv
<1>. QED
  BY <1>1, KvInvariant, PTL

-----------------------------------------------------------------------------
(* The map a list stands for: an entry's value under its name, and nothing  *)
(* under the other names.                                                   *)
MapOfList ==
  /\ \A i \in 1 .. Len(entries) :
       /\ entries[i].name \in Names
       /\ StoreView[entries[i].name] = entries[i].value
  /\ \A m \in Names :
       (\A i \in 1 .. Len(entries) : entries[i].name # m) => StoreView[m] = Absent

(* Each name maps to the value of its one entry, so that the map and the     *)
(* list say the same.                                                        *)
LEMMA ViewOfList == IInv => MapOfList
<1>. SUFFICES ASSUME IInv PROVE MapOfList
  OBVIOUS
<1>1. DOMAIN entries = 1 .. Len(entries)
      /\ \A i \in 1 .. Len(entries) : entries[i] \in Entry
  BY DEF IInv, ListOK
<1>2. ASSUME NEW i \in 1 .. Len(entries)
      PROVE  entries[i].name \in Names /\ StoreView[entries[i].name] = entries[i].value
  <2>1. entries[i].name \in Names
    BY <1>1 DEF Entry
  <2>2. i \in Positions(entries[i].name)
    BY <1>1 DEF Positions
  <2>3. FindEntry(entries[i].name) = i
    BY <2>2, FindEntryFinds DEF IInv
  <2>. QED
    BY <2>1, <2>2, <2>3 DEF StoreView
<1>3. ASSUME NEW m \in Names, \A i \in 1 .. Len(entries) : entries[i].name # m
      PROVE  StoreView[m] = Absent
  <2>1. Positions(m) = {}
    BY <1>1, <1>3 DEF Positions
  <2>. QED
    BY <2>1 DEF StoreView
<1>. QED
  BY <1>2, <1>3 DEF MapOfList

(* What the erase of a name leaves stands for the map without that name; a  *)
(* prepended entry then puts its value there.                               *)
LEMMA ErasedView ==
  ASSUME IInv, MapOfList, MapOfList', NEW n \in Names, entries' = ErasedEntries(n)
  PROVE  Store!Drop(n)
<1>1. /\ \A i \in 1 .. Len(entries') : entries'[i].name # n
      /\ \A i \in 1 .. Len(entries') : \E j \in 1 .. Len(entries) : entries'[i] = entries[j]
      /\ \A i \in 1 .. Len(entries) :
           entries[i].name # n => \E j \in 1 .. Len(entries') : entries'[j] = entries[i]
  <2>. DEFINE s == ErasedEntries(n)
  <2>1. /\ \A i \in 1 .. Len(s) : s[i].name # n
        /\ \A i \in 1 .. Len(s) : \E j \in 1 .. Len(entries) : s[i] = entries[j]
        /\ \A i \in 1 .. Len(entries) :
             entries[i].name # n => \E j \in 1 .. Len(s) : s[j] = entries[i]
    BY ErasePreserves
  <2>2. entries' = s
    OBVIOUS
  <2>. HIDE DEF s
  <2>. QED
    BY <2>1, <2>2
<1>2. StoreView'[n] = Absent
  BY <1>1 DEF MapOfList
<1>3. ASSUME NEW m \in Names, m # n
      PROVE  StoreView'[m] = StoreView[m]
  <2>1. CASE \E i \in 1 .. Len(entries) : entries[i].name = m
    <3>1. PICK i \in 1 .. Len(entries) : entries[i].name = m
      BY <2>1
    <3>2. PICK j \in 1 .. Len(entries') : entries'[j] = entries[i]
      BY <1>1, <1>3, <3>1
    <3>. QED
      BY <3>1, <3>2 DEF MapOfList
  <2>2. CASE \A i \in 1 .. Len(entries) : entries[i].name # m
    <3>1. \A i \in 1 .. Len(entries') : entries'[i].name # m
      BY <1>1, <2>2
    <3>. QED
      BY <2>2, <3>1 DEF MapOfList
  <2>. QED
    BY <2>1, <2>2
<1>4. DOMAIN StoreView = Names /\ DOMAIN StoreView' = Names
      /\ StoreView = [m \in Names |-> StoreView[m]]
      /\ StoreView' = [m \in Names |-> StoreView'[m]]
  BY DEF StoreView
<1>. QED
  BY <1>2, <1>3, <1>4 DEF Store!Drop

(* Prepending an entry of a name that has none maps the name to its value.   *)
LEMMA PrependedView ==
  ASSUME IInv, MapOfList, MapOfList', NEW n \in Names, NEW v, NEW node \in Nodes,
         v \in Values \cup {NULL},
         entries' = <<[node |-> node, name |-> n, value |-> v]>> \o ErasedEntries(n)
  PROVE  Store!Put(n, v)
<1>. DEFINE s == ErasedEntries(n)
            e == [node |-> node, name |-> n, value |-> v]
<1>1. /\ s \in Seq(Entry)
      /\ \A i \in 1 .. Len(s) : s[i].name # n
      /\ \A i \in 1 .. Len(s) : \E j \in 1 .. Len(entries) : s[i] = entries[j]
      /\ \A i \in 1 .. Len(entries) :
           entries[i].name # n => \E j \in 1 .. Len(s) : s[j] = entries[i]
  BY ErasePreserves
<1>2. e \in Entry /\ e.name = n /\ e.value = v
  BY DEF Entry
<1>3. entries' = <<e>> \o s
  OBVIOUS
<1>. HIDE DEF s, e
<1>4. /\ Len(entries') = Len(s) + 1
      /\ \A j \in 1 .. Len(s) + 1 : entries'[j] = IF j = 1 THEN e ELSE s[j - 1]
  BY <1>1, <1>2, <1>3, PrependShifts
<1>5. Len(s) \in Nat
  BY <1>1
<1>6. entries'[1] = e /\ 1 \in 1 .. Len(entries')
  BY <1>4, <1>5
<1>7. StoreView'[n] = v
  BY <1>2, <1>6 DEF MapOfList
<1>8. ASSUME NEW m \in Names, m # n
      PROVE  StoreView'[m] = StoreView[m]
  <2>1. CASE \E i \in 1 .. Len(entries) : entries[i].name = m
    <3>1. PICK i \in 1 .. Len(entries) : entries[i].name = m
      BY <2>1
    <3>2. PICK j \in 1 .. Len(s) : s[j] = entries[i]
      BY <1>1, <1>8, <3>1
    <3>3. j + 1 \in 1 .. Len(entries') /\ entries'[j + 1] = s[j]
      BY <1>4, <1>5
    <3>4. StoreView'[entries'[j + 1].name] = entries'[j + 1].value
      BY <3>3 DEF MapOfList
    <3>5. StoreView[entries[i].name] = entries[i].value
      BY DEF MapOfList
    <3>. QED
      BY <3>1, <3>2, <3>3, <3>4, <3>5
  <2>2. CASE \A i \in 1 .. Len(entries) : entries[i].name # m
    <3>1. ASSUME NEW i \in 1 .. Len(entries') PROVE entries'[i].name # m
      <4>1. CASE i = 1
        BY <4>1, <1>2, <1>6, <1>8
      <4>2. CASE i # 1
        <5>1. i - 1 \in 1 .. Len(s) /\ entries'[i] = s[i - 1]
          BY <4>2, <1>4, <1>5
        <5>2. PICK j \in 1 .. Len(entries) : s[i - 1] = entries[j]
          BY <5>1, <1>1
        <5>. QED
          BY <5>1, <5>2, <2>2
      <4>. QED
        BY <4>1, <4>2
    <3>. QED
      BY <2>2, <3>1 DEF MapOfList
  <2>. QED
    BY <2>1, <2>2
<1>9. StoreView = [m \in Names |-> StoreView[m]]
      /\ StoreView' = [m \in Names |-> StoreView'[m]]
  BY DEF StoreView
<1>. QED
  BY <1>7, <1>8, <1>9 DEF Store!Put

(* The linked list of registry.c implements the map KvStore: every native   *)
(* is one step of the map or none.                                          *)
THEOREM ListImplementsStore == Spec => ImplementsStore
<1>1. Init => Store!Init
  <2>. SUFFICES ASSUME Init PROVE Store!Init
    OBVIOUS
  <2>1. \A n \in Names : Positions(n) = {}
    BY DEF Init, Positions
  <2>. QED
    BY <2>1 DEF Store!Init, StoreView
<1>2. IInv /\ MapOfList /\ MapOfList' /\ [Next]_vars => [Store!Next]_StoreView
  <2>. SUFFICES ASSUME IInv, MapOfList, MapOfList', [Next]_vars
                PROVE  [Store!Next]_StoreView
    OBVIOUS
  <2>1. ASSUME NEW b \in WideNames, NEW k \in WideNames, NEW v \in Values \cup {NULL},
               Register(b, k, v)
        PROVE  Store!Next
    <3>. DEFINE n == <<NarrowOf[b], NarrowOf[k]>>
    <3>1. n \in Names
      BY DEF Names, Narrow
    <3>2. \/ \E node \in Nodes :
               entries' = <<[node |-> node, name |-> n, value |-> v]>> \o ErasedEntries(n)
          \/ entries' = ErasedEntries(n)
      BY <2>1 DEF Register, NameOf
    <3>. HIDE DEF n
    <3>3. Store!Put(n, v) \/ Store!Drop(n)
      BY <3>1, <3>2, ErasedView, PrependedView
    <3>. QED
      BY <3>1, <3>3 DEF Store!Next
  <2>2. ASSUME NEW b \in WideNames, NEW k \in WideNames, Unregister(b, k)
        PROVE  Store!Next
    <3>. DEFINE n == <<NarrowOf[b], NarrowOf[k]>>
    <3>1. n \in Names
      BY DEF Names, Narrow
    <3>2. entries' = ErasedEntries(n)
      BY <2>2 DEF Unregister, NameOf
    <3>. HIDE DEF n
    <3>. QED
      BY <3>1, <3>2, ErasedView DEF Store!Next
  <2>3. CASE UNCHANGED entries
    <3>1. StoreView' = StoreView
      BY <2>3 DEF StoreView, FindEntry, Positions
    <3>. QED
      BY <3>1
  <2>. QED
    BY <2>1, <2>2, <2>3 DEF Next, vars, BeginList, ReadNext, EndList, Collect
<1>. QED
  BY <1>1, <1>2, KvInvariant, ViewOfList, PTL DEF Spec, ImplementsStore, Store!Spec

-----------------------------------------------------------------------------
(* Registry.list counts a bucket and then asks for each index, while every   *)
(* walk of value_at counts anew.  The members of a finite set of naturals    *)
(* are told apart by how many lie before them, and each number below the     *)
(* set's size is that of one.                                                *)
LEMMA RanksAreDistinct ==
  ASSUME NEW S, S \subseteq Nat, IsFiniteSet(S), NEW p \in S, NEW r \in S, p < r
  PROVE  LET rank(x) == Cardinality({q \in S : q < x})
         IN  rank(p) \in Nat /\ rank(r) \in Nat /\ rank(p) < rank(r)
<1>. DEFINE P == {q \in S : q < p}
            R == {q \in S : q < r}
<1>1. IsFiniteSet(P) /\ IsFiniteSet(R) /\ Cardinality(P) \in Nat /\ Cardinality(R) \in Nat
  <2>1. P \in SUBSET S /\ R \in SUBSET S
    OBVIOUS
  <2>. HIDE DEF P, R
  <2>. QED
    BY <2>1, FS_Subset, FS_CardinalityType
<1>2. P \in SUBSET R /\ p \in R /\ p \notin P
  <2>1. p \in Nat /\ r \in Nat
    OBVIOUS
  <2>2. ASSUME NEW q \in P PROVE q \in R
    <3>1. q \in Nat /\ q \in S /\ q < p
      OBVIOUS
    <3>. QED
      BY <2>1, <3>1
  <2>3. p \in R /\ p \notin P
    BY <2>1
  <2>. HIDE DEF P, R
  <2>. QED
    BY <2>2, <2>3
<1>. HIDE DEF P, R
<1>3. Cardinality(P) <= Cardinality(R) /\ (Cardinality(R) = Cardinality(P) => R = P)
  BY <1>1, <1>2, FS_Subset
<1>4. Cardinality(P) < Cardinality(R)
  BY <1>1, <1>2, <1>3
<1>. QED
  BY <1>1, <1>4 DEF P, R

LEMMA RanksCover ==
  ASSUME NEW S, S \subseteq Nat, IsFiniteSet(S)
  PROVE  LET rank(x) == Cardinality({q \in S : q < x})
         IN  /\ \A p \in S : rank(p) \in 0 .. Cardinality(S) - 1
             /\ \A p, r \in S : rank(p) = rank(r) => p = r
             /\ \A i \in 0 .. Cardinality(S) - 1 : \E p \in S : rank(p) = i
<1>. DEFINE rank(x) == Cardinality({q \in S : q < x})
            n == Cardinality(S)
            T == 0 .. n - 1
            f == [x \in S |-> rank(x)]
<1>1. n \in Nat
  BY FS_CardinalityType
<1>2. ASSUME NEW p \in S PROVE rank(p) \in T
  <2>. DEFINE P == {q \in S : q < p}
  <2>1. P \in SUBSET S /\ p \in S /\ p \notin P
    OBVIOUS
  <2>. HIDE DEF P
  <2>2. IsFiniteSet(P) /\ Cardinality(P) <= n /\ (n = Cardinality(P) => S = P)
    BY <2>1, FS_Subset
  <2>3. Cardinality(P) \in Nat
    BY <2>2, FS_CardinalityType
  <2>. HIDE DEF n
  <2>4. Cardinality(P) \in 0 .. n - 1
    BY <1>1, <2>1, <2>2, <2>3
  <2>. QED
    BY <2>4 DEF P
<1>3. ASSUME NEW p \in S, NEW r \in S, rank(p) = rank(r)
      PROVE  p = r
  <2>1. p < r => rank(p) \in Nat /\ rank(r) \in Nat /\ rank(p) < rank(r)
    BY RanksAreDistinct
  <2>2. r < p => rank(p) \in Nat /\ rank(r) \in Nat /\ rank(r) < rank(p)
    BY RanksAreDistinct
  <2>3. p \in Nat /\ r \in Nat
    OBVIOUS
  <2>. HIDE DEF rank
  <2>. QED
    BY <1>3, <2>1, <2>2, <2>3
<1>. HIDE DEF rank
<1>4. f \in [S -> T] /\ \A x, y \in S : f[x] = f[y] => x = y
  BY <1>2, <1>3
<1>5. f \in Injection(S, T)
  BY <1>4 DEF Injection, IsInjective
<1>6. IsFiniteSet(T) /\ Cardinality(T) = n
  <2>1. IsFiniteSet(T) /\ Cardinality(T) = IF 0 > n - 1 THEN 0 ELSE n - 1 - 0 + 1
    BY <1>1, FS_Interval
  <2>. HIDE DEF n
  <2>. QED
    BY <1>1, <2>1
<1>7. f \in Surjection(S, T)
  BY <1>5, <1>6, FS_Injection
<1>8. \A i \in T : \E p \in S : f[p] = i
  BY <1>7 DEF Surjection
<1>9. \A i \in T : \E p \in S : rank(p) = i
  BY <1>8
<1>. QED
  BY <1>2, <1>3, <1>9 DEF rank

(* The positions of a bucket, in the order value_at counts them.             *)
LEMMA ValueAtCountsThem ==
  ASSUME ListOK, NEW b
  PROVE  LET B == InBucket(NarrowOf[b])
         IN  /\ IsFiniteSet(B) /\ Count(b) = Cardinality(B) /\ B \subseteq 1 .. Len(entries)
             /\ \A p \in B : /\ Before(NarrowOf[b], p) \in 0 .. Count(b) - 1
                             /\ ValueAt(b, Before(NarrowOf[b], p)) = entries[p].value
             /\ \A i \in 0 .. Count(b) - 1 : \E p \in B : Before(NarrowOf[b], p) = i
<1>. DEFINE B == InBucket(NarrowOf[b])
            rank(x) == Cardinality({q \in B : q < x})
<1>1. B \subseteq 1 .. Len(entries) /\ B \subseteq Nat /\ Len(entries) \in Int
  BY DEF ListOK, InBucket
<1>2. IsFiniteSet(B)
  <2>1. IsFiniteSet(1 .. Len(entries))
    BY <1>1, FS_Interval
  <2>. HIDE DEF B
  <2>. QED
    BY <1>1, <2>1, FS_Subset
<1>3. Count(b) = Cardinality(B) /\ \A p : Before(NarrowOf[b], p) = rank(p)
  BY DEF Count, Before
<1>4. /\ \A p \in B : rank(p) \in 0 .. Cardinality(B) - 1
      /\ \A p, r \in B : rank(p) = rank(r) => p = r
      /\ \A i \in 0 .. Cardinality(B) - 1 : \E p \in B : rank(p) = i
  <2>. HIDE DEF B
  <2>. QED
    BY <1>1, <1>2, RanksCover
<1>5. ASSUME NEW p \in B
      PROVE  ValueAt(b, Before(NarrowOf[b], p)) = entries[p].value
  <2>. DEFINE i == Before(NarrowOf[b], p)
              at == {r \in B : Before(NarrowOf[b], r) = i}
  <2>1. ValueAt(b, i) = IF at = {} THEN NULL ELSE entries[CHOOSE r \in at : TRUE].value
    BY DEF ValueAt
  <2>2. \A r \in B : Before(NarrowOf[b], r) = i => r = p
    BY <1>3, <1>4
  <2>3. at = {p}
    BY <2>2
  <2>. HIDE DEF at
  <2>4. (CHOOSE r \in at : TRUE) = p
    BY <2>3
  <2>. QED
    BY <2>1, <2>3, <2>4
<1>. QED
  BY <1>1, <1>2, <1>3, <1>4, <1>5

(* As long as nothing disturbs it, a list in progress has read what value_at *)
(* still answers for the indices it has asked for.                           *)
ListingExact ==
  Listing /\ ~listing.disturbed =>
    /\ listing.count = Count(listing.bucket)
    /\ Len(listing.out) <= listing.count
    /\ \A i \in 1 .. Len(listing.out) : listing.out[i] = ValueAt(listing.bucket, i - 1)

LEMMA ExactStep ==
  ASSUME ListOK, ListingOK, ListingExact, [Next]_vars
  PROVE  ListingExact'
<1>1. ASSUME Disturb PROVE ListingExact'
  <2>1. CASE Listing
    <3>1. listing'.disturbed = TRUE
      BY <1>1, <2>1 DEF Disturb, ListingOK
    <3>. QED
      BY <3>1 DEF ListingExact
  <2>2. CASE ~Listing
    BY <1>1, <2>2 DEF Disturb, ListingExact, Listing
  <2>. QED
    BY <2>1, <2>2
<1>2. ASSUME UNCHANGED <<entries, listing>> PROVE ListingExact'
  <2>1. Count(listing.bucket)' = Count(listing.bucket)
    BY <1>2 DEF Count, InBucket
  <2>2. \A i : ValueAt(listing.bucket, i)' = ValueAt(listing.bucket, i)
    BY <1>2 DEF ValueAt, InBucket, Before
  <2>. QED
    BY <1>2, <2>1, <2>2 DEF ListingExact, Listing
<1>3. ASSUME NEW b \in WideNames, BeginList(b) PROVE ListingExact'
  <2>1. /\ listing'.bucket = b /\ listing'.count = Count(b) /\ listing'.out = <<>>
        /\ UNCHANGED entries
    BY <1>3 DEF BeginList
  <2>2. Len(listing'.out) = 0 /\ Count(b) \in Nat
    BY <2>1, CountIsNatural
  <2>3. Count(b)' = Count(b)
    BY <2>1 DEF Count, InBucket
  <2>. QED
    BY <2>1, <2>2, <2>3 DEF ListingExact
<1>4. CASE ReadNext
  <2>. DEFINE o == listing.out
              v == ValueAt(listing.bucket, Len(o))
  <2>1. /\ Listing /\ Len(o) < listing.count /\ UNCHANGED entries
        /\ listing' = [listing EXCEPT !.out = Append(o, v)]
    BY <1>4 DEF ReadNext
  <2>2. /\ o \in Seq(Values \cup {NULL}) /\ v \in Values \cup {NULL}
        /\ Len(o) \in Nat /\ listing.count \in Nat
    BY ValueAtIsAValue DEF ListingOK
  <2>3. /\ listing'.out = Append(o, v) /\ listing'.bucket = listing.bucket
        /\ listing'.count = listing.count /\ listing'.disturbed = listing.disturbed
    BY <2>1 DEF ListingOK
  <2>. HIDE DEF o, v
  <2>4. /\ Len(Append(o, v)) = Len(o) + 1
        /\ \A i \in 1 .. Len(o) : Append(o, v)[i] = o[i]
        /\ Append(o, v)[Len(o) + 1] = v
    BY <2>2
  <2>5. SUFFICES ASSUME ~listing.disturbed
                 PROVE  /\ listing.count = Count(listing.bucket)'
                        /\ Len(o) + 1 <= listing.count
                        /\ \A i \in 1 .. Len(o) + 1 :
                             Append(o, v)[i] = ValueAt(listing.bucket, i - 1)'
    BY <2>3, <2>4 DEF ListingExact
  <2>6. /\ Count(listing.bucket)' = Count(listing.bucket)
        /\ \A i : ValueAt(listing.bucket, i)' = ValueAt(listing.bucket, i)
    BY <2>1, <2>3 DEF Count, ValueAt, InBucket, Before
  <2>7. listing.count = Count(listing.bucket) /\ Len(o) + 1 <= listing.count
    BY <2>1, <2>2, <2>5 DEF ListingExact
  <2>8. ASSUME NEW i \in 1 .. Len(o) + 1
        PROVE  Append(o, v)[i] = ValueAt(listing.bucket, i - 1)
    <3>1. CASE i \in 1 .. Len(o)
      BY <2>1, <2>4, <2>5, <3>1 DEF ListingExact, o
    <3>2. CASE i = Len(o) + 1
      <4>1. i - 1 = Len(o)
        BY <2>2, <3>2
      <4>. QED
        BY <2>4, <3>2, <4>1 DEF v
    <3>. QED
      BY <2>2, <3>1, <3>2
  <2>. QED
    BY <2>6, <2>7, <2>8
<1>5. CASE EndList
  BY <1>5 DEF EndList, ListingExact, Listing
<1>. QED
  BY <1>1, <1>2, <1>3, <1>4, <1>5 DEF Next, Register, Unregister, Collect, vars

LEMMA ExactMeansExact ==
  ASSUME IInv, ListingOK, ListingExact
  PROVE  UndisturbedListIsExact
<1>. SUFFICES ASSUME Listing, ~listing.disturbed, Len(listing.out) = listing.count
              PROVE  LET names == {n \in Names : n[1] = NarrowOf[listing.bucket]
                                                   /\ Positions(n) # {}}
                     IN  /\ listing.count = Cardinality(names)
                         /\ {Get(n) : n \in names} = Range(listing.out)
  BY DEF UndisturbedListIsExact
<1>. DEFINE b == listing.bucket
            B == InBucket(NarrowOf[b])
            names == {n \in Names : n[1] = NarrowOf[b] /\ Positions(n) # {}}
            o == listing.out
            f == [p \in B |-> entries[p].name]
<1>1. /\ Count(b) = Len(o) /\ Len(o) \in Nat /\ DOMAIN o = 1 .. Len(o)
      /\ \A i \in 1 .. Len(o) : o[i] = ValueAt(b, i - 1)
  BY DEF ListingExact, ListingOK
<1>2. /\ IsFiniteSet(B) /\ Count(b) = Cardinality(B) /\ B \subseteq 1 .. Len(entries)
      /\ \A p \in B : /\ Before(NarrowOf[b], p) \in 0 .. Count(b) - 1
                      /\ ValueAt(b, Before(NarrowOf[b], p)) = entries[p].value
      /\ \A i \in 0 .. Count(b) - 1 : \E p \in B : Before(NarrowOf[b], p) = i
  BY ValueAtCountsThem DEF IInv
<1>3. /\ ListOK /\ OneEntryPerName /\ DOMAIN entries = 1 .. Len(entries)
      /\ \A p \in 1 .. Len(entries) : entries[p].name \in Names
      /\ \A p, q \in 1 .. Len(entries) : entries[p].name = entries[q].name => p = q
  <2>1. ListOK /\ OneEntryPerName /\ entries \in Seq(Entry)
    BY DEF IInv, ListOK
  <2>2. DOMAIN entries = 1 .. Len(entries) /\ \A p \in 1 .. Len(entries) : entries[p] \in Entry
    BY <2>1
  <2>3. \A p \in 1 .. Len(entries) : entries[p].name \in Names
    BY <2>2 DEF Entry
  <2>. QED
    BY <2>1, <2>2, <2>3 DEF OneEntryPerName
(* A position of the bucket is that of one of its names, and vice versa. *)
<1>4. ASSUME NEW p \in B
      PROVE  entries[p].name \in names /\ Get(entries[p].name) = entries[p].value
  <2>1. p \in 1 .. Len(entries) /\ entries[p].name[1] = NarrowOf[b]
    BY <1>2 DEF InBucket
  <2>2. p \in Positions(entries[p].name)
    BY <1>3, <2>1 DEF Positions
  <2>3. FindEntry(entries[p].name) = p
    BY <1>3, <2>2, FindEntryFinds
  <2>. QED
    BY <1>3, <2>1, <2>2, <2>3 DEF Get
<1>5. ASSUME NEW n \in names
      PROVE  \E p \in B : entries[p].name = n
  BY <1>3, FindEntryFinds DEF InBucket
<1>6. f \in Bijection(B, names)
  <2>. HIDE DEF B, names
  <2>1. f \in [B -> names]
    BY <1>4
  <2>2. \A p, q \in B : f[p] = f[q] => p = q
    BY <1>2, <1>3
  <2>3. \A n \in names : \E p \in B : f[p] = n
    BY <1>5
  <2>. HIDE DEF f
  <2>. QED
    BY <2>1, <2>2, <2>3 DEF Bijection, Injection, Surjection, IsInjective
<1>7. Cardinality(names) = Cardinality(B)
  <2>. HIDE DEF B, names, f
  <2>. QED
    BY <1>2, <1>6, FS_Bijection DEF ExistsBijection
<1>8. ASSUME NEW p \in B PROVE entries[p].value \in Range(o)
  <2>. DEFINE i == Before(NarrowOf[b], p)
  <2>1. i \in 0 .. Len(o) - 1 /\ ValueAt(b, i) = entries[p].value
    BY <1>1, <1>2
  <2>. HIDE DEF i, o
  <2>2. i + 1 \in 1 .. Len(o) /\ i + 1 - 1 = i
    BY <1>1, <2>1
  <2>3. o[i + 1] = entries[p].value
    BY <1>1, <2>1, <2>2
  <2>. QED
    BY <1>1, <2>2, <2>3 DEF Range
<1>9. ASSUME NEW i \in DOMAIN o PROVE \E p \in B : o[i] = entries[p].value
  <2>. HIDE DEF o, B
  <2>1. i - 1 \in 0 .. Count(b) - 1 /\ o[i] = ValueAt(b, i - 1)
    BY <1>1
  <2>2. PICK p \in B : Before(NarrowOf[b], p) = i - 1
    BY <1>2, <2>1
  <2>3. ValueAt(b, i - 1) = entries[p].value
    BY <1>2, <2>2
  <2>. QED
    BY <2>1, <2>3
<1>10. {Get(n) : n \in names} = Range(o)
  <2>. HIDE DEF B, names, o, f
  <2>1. ASSUME NEW n \in names PROVE Get(n) \in Range(o)
    BY <1>4, <1>5, <1>8
  <2>2. ASSUME NEW i \in DOMAIN o PROVE \E n \in names : Get(n) = o[i]
    BY <1>4, <1>9
  <2>. QED
    BY <2>1, <2>2 DEF Range
<1>. QED
  BY <1>1, <1>2, <1>7, <1>10

(* registry.c, Registry.hx: a list() nothing disturbs returns the value of   *)
(* every name of its bucket, once each, and nothing else, though each index  *)
(* is counted out anew from the head of the one list of all buckets.         *)
THEOREM UndisturbedListsAreExact == Spec => []UndisturbedListIsExact
<1>1. Init => ListingOK /\ ListingExact
  BY DEF Init, ListingOK, NoListing, ListingExact, Listing
<1>2. IInv /\ ListingOK /\ ListingExact /\ [Next]_vars => ListingOK' /\ ListingExact'
  BY ListingStep, ExactStep DEF IInv
<1>3. IInv /\ ListingOK /\ ListingExact => UndisturbedListIsExact
  BY ExactMeansExact
<1>. QED
  BY <1>1, <1>2, <1>3, KvInvariant, PTL DEF Spec
=============================================================================
