----------------------------- MODULE KvRegistry -----------------------------
(***************************************************************************)
(* The bucket/key/value store of hlx-boot (registry.c) with the Haxe side  *)
(* that lists a bucket (hlx-runtime's Registry.hx), and the garbage        *)
(* collector whose roots keep the registered values alive.                 *)
(*                                                                         *)
(* The natives run to completion: HL code calls them one at a time.  Only  *)
(* Registry.list is several native calls, one for the count and one for    *)
(* each index, between which other code may change the store.              *)
(***************************************************************************)
EXTENDS Integers, Sequences, SequencesExt, FiniteSets

CONSTANTS
  WideNames,      \* bucket and key strings as Haxe passes them (UTF-16)
  NarrowOf,       \* what hlx_narrow_utf16 makes of each
  Values,         \* Dynamic values mods register
  NULL,           \* the null Dynamic, which is a value like any other here
  Absent,         \* what a name without an entry maps to
  Nodes           \* addresses malloc may give an entry

Narrow == {NarrowOf[w] : w \in WideNames}
Names == Narrow \X Narrow

ASSUME KvAssumption ==
  /\ DOMAIN NarrowOf = WideNames
  /\ NULL \notin Values
  /\ Absent \notin Values \cup {NULL}

VARIABLES
  entries,    \* g_entries, newest first
  roots,      \* addresses given to hl_add_root and not yet to hl_remove_root
  gcReady,    \* both root functions were found in libhl.dll
  collected,  \* values the collector has freed
  listing     \* the Registry.list in progress: bucket, count, what it read

vars == <<entries, roots, gcReady, collected, listing>>

NoListing == [bucket |-> NULL, count |-> 0, out |-> <<>>, disturbed |-> FALSE]
Listing == listing # NoListing

-----------------------------------------------------------------------------
(* The list of entries. *)
NodesOf(s) == {s[i].node : i \in DOMAIN s}
Positions_KeyOnly(n) == {i \in DOMAIN entries : entries[i].name[2] = n[2]}   \* mutant
Positions(n) == {i \in DOMAIN entries : entries[i].name = n}
FindEntry(n) == CHOOSE i \in Positions(n) : \A j \in Positions(n) : i <= j

(* The walks of count and value_at: the bucket's positions, and how many of *)
(* them a walk has met before position p.                                   *)
InBucket(b) == {p \in DOMAIN entries : entries[p].name[1] = b}
Before(b, p) == Cardinality({q \in InBucket(b) : q < p})

(* EraseEntry: what is left of the list and of the roots. *)
ErasedEntries_Kept(n) == entries   \* mutant: a bare prepend
ErasedEntries(n) == IF Positions(n) = {} THEN entries
                    ELSE RemoveAt(entries, FindEntry(n))
ErasedRoots_Kept(n) == roots   \* mutant: no hl_remove_root
ErasedRoots(n) == IF Positions(n) = {} THEN roots
                  ELSE roots \ {entries[FindEntry(n)].node}

(* A list in progress notices nothing; the history of it does. *)
Disturb == listing' = IF Listing THEN [listing EXCEPT !.disturbed = TRUE] ELSE listing

-----------------------------------------------------------------------------
(* The name a native compares: bucket and key narrowed to 8 bits. *)
NameOf_Wide(b, k) == <<b, k>>   \* mutant: compared as they came
NameOf(b, k) == <<NarrowOf[b], NarrowOf[k]>>

AddRoot_Omitted(s, node) == s   \* mutant
AddRoot(s, node) == s \cup {node}

(* registry_register: erase, allocate, prepend, root. *)
Register(b, k, v) ==
  LET n == NameOf(b, k)
  IN  /\ gcReady
      /\ v \notin collected
      /\ \/ \E node \in Nodes \ NodesOf(ErasedEntries(n)) :
              /\ entries' = <<[node |-> node, name |-> n, value |-> v]>>
                            \o ErasedEntries(n)
              /\ roots' = AddRoot(ErasedRoots(n), node)
         \/ /\ entries' = ErasedEntries(n)   \* malloc failed
            /\ roots' = ErasedRoots(n)
      /\ Disturb
      /\ UNCHANGED <<gcReady, collected>>

Unregister(b, k) ==
  LET n == NameOf(b, k)
  IN  /\ entries' = ErasedEntries(n)
      /\ roots' = ErasedRoots(n)
      /\ Disturb
      /\ UNCHANGED <<gcReady, collected>>

Get(n) == IF Positions(n) = {} THEN NULL ELSE entries[FindEntry(n)].value

Count_All(b) == Len(entries)   \* mutant: the bucket is not compared
Count(b) == Cardinality(InBucket(NarrowOf[b]))
ValueAt(b, i) ==
  LET at == {p \in InBucket(NarrowOf[b]) : Before(NarrowOf[b], p) = i}
  IN  IF at = {} THEN NULL ELSE entries[CHOOSE p \in at : TRUE].value

-----------------------------------------------------------------------------
(* Registry.list(bucket). *)
BeginList(b) ==
  /\ ~Listing
  /\ listing' = [bucket |-> b, count |-> Count(b), out |-> <<>>, disturbed |-> FALSE]
  /\ UNCHANGED <<entries, roots, gcReady, collected>>

ReadNext ==
  /\ Listing
  /\ Len(listing.out) < listing.count
  /\ listing' = [listing EXCEPT !.out = Append(@, ValueAt(listing.bucket, Len(@)))]
  /\ UNCHANGED <<entries, roots, gcReady, collected>>

EndList ==
  /\ Listing
  /\ Len(listing.out) = listing.count
  /\ listing' = NoListing
  /\ UNCHANGED <<entries, roots, gcReady, collected>>

(* The collector frees a value no root leads to once its mod lets go of it. *)
Collect(v) ==
  /\ v \notin {entries[i].value : i \in {j \in DOMAIN entries : entries[j].node \in roots}}
  /\ v \notin Range(listing.out)
  /\ collected' = collected \cup {v}
  /\ UNCHANGED <<entries, roots, gcReady, listing>>

-----------------------------------------------------------------------------
Init ==
  /\ entries = <<>>
  /\ roots = {}
  /\ gcReady \in BOOLEAN
  /\ collected = {}
  /\ listing = NoListing

Next ==
  \/ \E b, k \in WideNames :
       \/ \E v \in Values \cup {NULL} : Register(b, k, v)
       \/ Unregister(b, k)
  \/ \E b \in WideNames : BeginList(b)
  \/ ReadNext
  \/ EndList
  \/ \E v \in Values : Collect(v)

Spec == Init /\ [][Next]_vars
-----------------------------------------------------------------------------
(* The shape of the store's state; names are held narrowed.                 *)
TypeOK ==
  /\ entries \in Seq([node : Nodes, name : Names, value : Values \cup {NULL}])
  /\ roots \subseteq Nodes
  /\ gcReady \in BOOLEAN
  /\ collected \subseteq Values
  /\ listing \in [bucket : WideNames \cup {NULL}, count : Nat,
                  out : Seq(Values \cup {NULL}), disturbed : BOOLEAN]

(* The collector scans exactly the value cells of the live entries: no      *)
(* entry goes unrooted, no root survives the free of its node (where the    *)
(* collector would read freed memory), and no two entries share a node.     *)
RootsMatchEntries ==
  /\ roots = NodesOf(entries)
  /\ \A i, j \in DOMAIN entries : entries[i].node = entries[j].node => i = j

(* However often a name is registered, whatever fails in between, it has at *)
(* most one entry.                                                          *)
OneEntryPerName ==
  \A i, j \in DOMAIN entries : entries[i].name = entries[j].name => i = j

(* The store is well typed, every name in it narrowed; the list's entries   *)
(* and roots agree, and no name is listed twice.                            *)
ListConsistent == TypeOK /\ RootsMatchEntries /\ OneEntryPerName

(* A registered value outlives the mod that registered it: the collector    *)
(* never frees what get or list may still hand out.                         *)
RetainedUntilErased ==
  \A i \in DOMAIN entries : entries[i].value \notin collected

(* A list() during which nothing was registered or unregistered returns the *)
(* value get answers for every name of the bucket and nothing else, each    *)
(* once: the indices value_at counts by agree with count.                   *)
UndisturbedListIsExact ==
  Listing /\ ~listing.disturbed /\ Len(listing.out) = listing.count =>
    LET names == {n \in Names : n[1] = NarrowOf[listing.bucket] /\ Positions(n) # {}}
    IN  /\ listing.count = Cardinality(names)
        /\ {Get(n) : n \in names} = Range(listing.out)

(* The store as its users see it: the newest entry of each name.            *)
StoreView == [n \in Names |-> IF Positions(n) = {} THEN Absent
                              ELSE entries[FindEntry(n)].value]

(* The list behaves as a map from names to values: every native changes at  *)
(* most the name it was given, re-registering replaces, and what was        *)
(* unregistered never shows an older value again.                           *)
Store == INSTANCE KvStore WITH Values <- Values \cup {NULL}, store <- StoreView
ImplementsStore == Store!Spec
=============================================================================
