--------------------------- MODULE MinHook_proofs ---------------------------
(***************************************************************************)
(* Proofs about Buffers, for any address space, block size, granularity,   *)
(* range and functions to hook: blocks, free lists and slots in use agree, *)
(* slots are near their functions, and a search that gives up has found    *)
(* every granule in range taken.                                           *)
(* And about Trampoline, for any threads and functions: hooking a function *)
(* overruns no slot, loses no thread and keeps the function's flow.  The   *)
(* two share no variable.                                                  *)
(***************************************************************************)
EXTENDS Buffers, Trampoline, ListLemmas, FiniteSetTheorems, TLAPS

-----------------------------------------------------------------------------
(* Arithmetic of granules and blocks. *)

LEMMA RoundDownIs ==
  ASSUME NEW a \in Int
  PROVE  /\ RoundDown(a) \in Int /\ RoundDown(a) % Granularity = 0
         /\ RoundDown(a) <= a /\ a < RoundDown(a) + Granularity
         /\ a % Granularity = 0 => RoundDown(a) = a
<1>1. Granularity \in Nat \ {0}
  BY BuffersAssumption
<1>2. a = (a \div Granularity) * Granularity + (a % Granularity)
      /\ a \div Granularity \in Int /\ a % Granularity \in 0 .. Granularity - 1
  BY <1>1
<1>3. RoundDown(a) = (a \div Granularity) * Granularity
  BY <1>1, <1>2 DEF RoundDown
<1>4. ((a \div Granularity) * Granularity) % Granularity = 0
  BY <1>1, <1>2
<1>. QED
  BY <1>1, <1>2, <1>3, <1>4 DEF RoundDown

(* Multiples of the granularity are a granularity apart. *)
LEMMA GranulesApart ==
  ASSUME NEW a \in Int, NEW b \in Int, a % Granularity = 0, b % Granularity = 0
  PROVE  /\ a < b => a + Granularity <= b
         /\ (a + Granularity) % Granularity = 0
         /\ (a - Granularity) % Granularity = 0
<1>. DEFINE p == a \div Granularity
            q == b \div Granularity
<1>1. Granularity \in Nat \ {0}
  BY BuffersAssumption
<1>2. p \in Int /\ q \in Int /\ a = p * Granularity /\ b = q * Granularity
  BY <1>1
<1>. HIDE DEF p, q
<1>3. a < b => a + Granularity <= b
  <2>1. ASSUME a < b PROVE p + 1 <= q /\ p * Granularity + Granularity <= q * Granularity
    BY <1>1, <1>2, <2>1
  <2>. QED
    BY <2>1, <1>2
<1>4. a + Granularity = (p + 1) * Granularity /\ a - Granularity = (p - 1) * Granularity
  BY <1>1, <1>2
<1>5. ((p + 1) * Granularity) % Granularity = 0 /\ ((p - 1) * Granularity) % Granularity = 0
  BY <1>1, <1>2
<1>. QED
  BY <1>3, <1>4, <1>5

(* RoundUp skips no granule. *)
LEMMA RoundUpIs ==
  ASSUME NEW e \in Int
  PROVE  /\ RoundUp(e) \in Int /\ RoundUp(e) % Granularity = 0 /\ e <= RoundUp(e)
         /\ \A a \in Int : a % Granularity = 0 /\ e <= a => RoundUp(e) <= a
<1>. DEFINE u == RoundUp(e)
<1>1. Granularity \in Nat \ {0} /\ e + Granularity - 1 \in Int
  BY BuffersAssumption
<1>2. /\ u \in Int /\ u % Granularity = 0
      /\ u <= e + Granularity - 1 /\ e + Granularity - 1 < u + Granularity
  BY <1>1, RoundDownIs DEF RoundUp
<1>. HIDE DEF u
<1>3. ASSUME NEW a \in Int, a % Granularity = 0, e <= a
      PROVE  u <= a
  <2>1. a < u => a + Granularity <= u
    BY <1>2, <1>3, GranulesApart
  <2>. QED
    BY <2>1, <1>1, <1>2, <1>3
<1>. QED
  BY <1>1, <1>2, <1>3 DEF u

(* A block fits in a granule, and its slots are told from their addresses. *)
LEMMA BlockOfSlot ==
  ASSUME NEW b \in Int, b % Granularity = 0, NEW s \in b .. b + BlockSize - 1
  PROVE  BlockOf(s) = b /\ BlockSize <= Granularity
<1>. DEFINE k == Granularity \div BlockSize
            q == b \div Granularity
<1>1. Granularity \in Nat \ {0} /\ BlockSize \in Nat \ {0} /\ Granularity % BlockSize = 0
  BY BuffersAssumption
<1>2. k \in Int /\ Granularity = k * BlockSize
  BY <1>1
<1>3. q \in Int /\ b = q * Granularity
  BY <1>1
<1>. HIDE DEF k, q
<1>4. k >= 1 /\ BlockSize <= Granularity
  BY <1>1, <1>2
<1>5. b = (q * k) * BlockSize /\ q * k \in Int
  BY <1>1, <1>2, <1>3
<1>6. PICK r \in 0 .. BlockSize - 1 : s = b + r
  <2>1. s - b \in 0 .. BlockSize - 1 /\ s = b + (s - b)
    BY <1>1
  <2>. QED
    BY <2>1
<1>7. ASSUME NEW m \in Int PROVE (m * BlockSize + r) \div BlockSize = m
  BY <1>1, <1>6
<1>8. s \div BlockSize = q * k
  BY <1>5, <1>6, <1>7
<1>. QED
  BY <1>4, <1>5, <1>8 DEF BlockOf

(* The range of a function lies within a displacement of it, and in memory. *)
LEMMA RangeIsNear ==
  ASSUME NEW o \in Origins
  PROVE  /\ o \in Int /\ o \in 0 .. LastAddr /\ CodeBase <= o /\ o < CodeEnd
         /\ MinAddr(o) \in Int /\ 0 <= MinAddr(o) /\ MinAddr(o) <= o
         /\ o - MaxRange <= MinAddr(o)
         /\ MaxAddr(o) \in Int /\ MaxAddr(o) <= o + MaxRange - (BlockSize - 1)
         /\ MaxAddr(o) <= LastAddr
  BY BuffersAssumption DEF MinAddr, MaxAddr

(* The slots of a fresh block: all but the header's. *)
LEMMA NewSlotsAre ==
  ASSUME NEW b \in Int
  PROVE  /\ NewSlots(b) \in Seq(Int) /\ NewSlots(b) # <<>>
         /\ IsInjective(NewSlots(b))
         /\ ToSet(NewSlots(b)) = b + 1 .. b + BlockSize - 1
<1>. DEFINE up == [k \in 1 .. BlockSize - 1 |-> b + k]
            n == BlockSize - 1
<1>1. n \in Nat \ {0} /\ BlockSize \in Nat
  BY BuffersAssumption
<1>2. up \in Seq(Int) /\ Len(up) = n
  BY <1>1
<1>3. NewSlots(b) = [i \in 1 .. n |-> b + (n - i + 1)]
  <2>1. \A i \in 1 .. n : n - i + 1 \in 1 .. n /\ up[n - i + 1] = b + (n - i + 1)
    BY <1>1
  <2>. QED
    BY <1>2, <2>1 DEF NewSlots, Reverse
<1>. DEFINE t == [i \in 1 .. n |-> b + (n - i + 1)]
<1>4. t \in Seq(Int) /\ Len(t) = n /\ DOMAIN t = 1 .. n
  BY <1>1
<1>5. IsInjective(t)
  BY <1>1 DEF IsInjective
<1>6. ASSUME NEW s \in b + 1 .. b + BlockSize - 1
      PROVE  s \in ToSet(t)
  <2>1. n - (s - b) + 1 \in 1 .. n /\ t[n - (s - b) + 1] = s
    BY <1>1
  <2>. QED
    BY <2>1, <1>4 DEF ToSet
<1>7. ToSet(t) \subseteq b + 1 .. b + BlockSize - 1
  BY <1>1, <1>4 DEF ToSet
<1>8. t # <<>>
  BY <1>1, <1>4
<1>. QED
  BY <1>3, <1>4, <1>5, <1>6, <1>7, <1>8

-----------------------------------------------------------------------------
(* The inductive invariant. *)

ListsOK ==
  /\ blocks \in Seq(Granules) /\ IsInjective(blocks)
  /\ free \in [ToSet(blocks) -> Seq(Int)] /\ \A b \in ToSet(blocks) : IsInjective(free[b])
  /\ usedCount \in [ToSet(blocks) -> Nat]
  /\ live \in [DOMAIN live -> Origins] /\ DOMAIN live \subseteq Int

(* Allocations are contiguous, ours are of one granule, and nothing frees    *)
(* the code that is being hooked.                                            *)
MemoryOK ==
  /\ mem \in [Granules -> Granules \cup {Free}]
  /\ \A a \in Granules : mem[a] # Free =>
       /\ mem[a] <= a
       /\ \A x \in Granules : mem[a] <= x /\ x <= a => mem[x] = mem[a]
  /\ \A a \in Granules : mem[a] \in ToSet(blocks) => a = mem[a]
  /\ \A a \in Granules : CodeBase <= a /\ a < CodeEnd => mem[a] = CodeBase
  /\ CodeBase \notin ToSet(blocks)

Downwards == search.phase \in {"prev", "allocPrev"}
Upwards == search.phase \in {"next", "allocNext"}

(* The search stands on a granule, below or above its origin, and asks only  *)
(* for granules in range.                                                    *)
SearchOK ==
  /\ search \in [phase : {"idle", "prev", "allocPrev", "next", "allocNext"},
                 origin : Int, at : Int]
  /\ search = Idle \/ (search.origin \in Origins /\ (Downwards \/ Upwards))
  /\ Downwards \/ Upwards =>
       /\ search.at % Granularity = 0
       /\ Downwards => search.at <= RoundDown(search.origin) - Granularity
       /\ Upwards => RoundDown(search.origin) + Granularity <= search.at
       /\ search.phase = "allocPrev" => MinAddr(search.origin) <= search.at
       /\ search.phase = "allocNext" => search.at <= MaxAddr(search.origin)

(* What the search has passed was not to be had.                             *)
SeenOK ==
  search # Idle =>
    /\ \A a \in Granules : mem[a] # Free => a \in seenTaken
    /\ Downwards =>
         \A a \in Granules :
           search.at < a /\ a <= RoundDown(search.origin) => a \in seenTaken
    /\ Upwards =>
         \A a \in Granules :
           MinAddr(search.origin) <= a /\ a < search.at => a \in seenTaken

IInv ==
  ListsOK /\ BlocksServeTheirSlots /\ MemoryOK /\ SearchOK /\ SeenOK /\ SlotsAreNear

Mine(b) == {s \in DOMAIN live : BlockOf(s) = b}

(* The invariant says of each block what BlocksServeTheirSlots does.         *)
LEMMA SlotsOfBlock ==
  ASSUME IInv, NEW b \in ToSet(blocks)
  PROVE  /\ b \in Granules /\ b \in Int /\ b % Granularity = 0
         /\ mem[b] = b
         /\ free[b] \in Seq(Int) /\ IsInjective(free[b])
         /\ Mine(b) \cap ToSet(free[b]) = {}
         /\ Mine(b) \cup ToSet(free[b]) = b + 1 .. b + BlockSize - 1
         /\ usedCount[b] = Cardinality(Mine(b)) /\ usedCount[b] \in Nat
         /\ IsFiniteSet(Mine(b)) /\ Mine(b) # {}
<1>1. b \in Granules
  BY DEF IInv, ListsOK, ToSet
<1>2. b \in Int /\ b % Granularity = 0
  BY <1>1, BuffersAssumption DEF Granules
<1>3. Mine(b) \cup ToSet(free[b]) = b + 1 .. b + BlockSize - 1
  BY DEF IInv, BlocksServeTheirSlots, Mine
<1>4. IsFiniteSet(b + 1 .. b + BlockSize - 1)
  <2>1. b + 1 \in Int /\ b + BlockSize - 1 \in Int
    BY <1>2, BuffersAssumption
  <2>. QED
    BY <2>1, FS_Interval
<1>5. IsFiniteSet(Mine(b))
  BY <1>3, <1>4, FS_Subset
<1>. QED
  BY <1>1, <1>2, <1>3, <1>5 DEF IInv, ListsOK, BlocksServeTheirSlots, Mine

THEOREM InvariantSuffices == IInv => BlocksConsistent /\ SlotsAreNear
<1>1. IInv => SearchOK /\ MemoryOK /\ ListsOK /\ BlocksServeTheirSlots /\ SlotsAreNear
  BY DEF IInv
<1>2. SearchOK => search.phase \in {"idle", "prev", "allocPrev", "next", "allocNext"}
  BY DEF SearchOK
<1>3. ListsOK => /\ ToSet(blocks) \subseteq Granules /\ IsInjective(blocks)
                 /\ DOMAIN free = ToSet(blocks) /\ DOMAIN usedCount = ToSet(blocks)
                 /\ \A b \in ToSet(blocks) : IsInjective(free[b]) /\ usedCount[b] \in Nat
  BY DEF ListsOK, ToSet
<1>. QED
  BY <1>1, <1>2, <1>3 DEF BlocksConsistent, TypeOK, MemoryOK

LEMMA InitEstablishes == Init => IInv
<1>. SUFFICES ASSUME Init PROVE IInv
  OBVIOUS
<1>. USE DEF Init
<1>1. ToSet(blocks) = {} /\ DOMAIN live = {}
  BY DEF ToSet
<1>2. ListsOK
  BY <1>1 DEF ListsOK, IsInjective
<1>3. BlocksServeTheirSlots /\ SlotsAreNear
  BY <1>1 DEF BlocksServeTheirSlots, SlotsAreNear
<1>4. MemoryOK
  <2>1. \A a \in Granules : CodeBase <= a => CodeBase \in Granules
    BY BuffersAssumption DEF Granules
  <2>2. Granules \subseteq Int /\ CodeBase \in Int /\ CodeEnd \in Int /\ Free \notin Granules
    BY BuffersAssumption DEF Granules, Free
  <2>3. mem \in [Granules -> Granules \cup {Free}]
    BY <2>1
  <2>4. ASSUME NEW a \in Granules, mem[a] # Free
        PROVE  /\ mem[a] <= a
               /\ \A x \in Granules : mem[a] <= x /\ x <= a => mem[x] = mem[a]
    <3>1. CASE CodeBase <= a /\ a < CodeEnd
      BY <3>1, <2>2
    <3>2. CASE ~(CodeBase <= a /\ a < CodeEnd)
      <4>1. mem[a] = a
        BY <3>2, <2>4
      <4>2. a <= a /\ \A x \in Granules : a <= x /\ x <= a => x = a
        BY <2>2
      <4>. QED
        BY <4>1, <4>2
    <3>. QED
      BY <3>1, <3>2
  <2>. QED
    BY <1>1, <2>2, <2>3, <2>4 DEF MemoryOK
<1>5. SearchOK /\ SeenOK
  <2>1. search = Idle
    OBVIOUS
  <2>2. search = [phase |-> "idle", origin |-> 0, at |-> 0]
    BY <2>1 DEF Idle
  <2>3. ~Downwards /\ ~Upwards
    BY <2>2 DEF Downwards, Upwards
  <2>4. search \in [phase : {"idle", "prev", "allocPrev", "next", "allocNext"},
                  origin : Int, at : Int]
    BY <2>2
  <2>5. SearchOK
    BY <2>1, <2>3, <2>4 DEF SearchOK
  <2>. QED
    BY <2>1, <2>5 DEF SeenOK
<1>. QED
  BY <1>2, <1>3, <1>4, <1>5 DEF IInv

-----------------------------------------------------------------------------
(* Handing out a slot of block b, for a function it is near to.              *)

(* The slots of the blocks after one more, s of b, is handed out.            *)
LEMMA HandOutMine ==
  ASSUME IInv, NEW s \in Int, NEW o \in Origins, s \notin DOMAIN live, HandOut(s, o)
  PROVE  /\ live' \in [DOMAIN live' -> Origins] /\ DOMAIN live' = DOMAIN live \cup {s}
         /\ DOMAIN live' \subseteq Int /\ live' # live
         /\ live'[s] = o /\ \A a \in DOMAIN live : live'[a] = live[a]
         /\ \A c : Mine(c)' = IF c = BlockOf(s) THEN Mine(c) \cup {s} ELSE Mine(c)
<1>1. DOMAIN live' = DOMAIN live \cup {s}
  BY DEF HandOut
<1>2. live'[s] = o /\ \A a \in DOMAIN live : live'[a] = live[a]
  BY DEF HandOut
<1>3. live' \in [DOMAIN live' -> Origins] /\ DOMAIN live' \subseteq Int
  BY <1>1 DEF HandOut, IInv, ListsOK
<1>4. \A c : Mine(c)' = IF c = BlockOf(s) THEN Mine(c) \cup {s} ELSE Mine(c)
  BY <1>1 DEF Mine
<1>. QED
  BY <1>1, <1>2, <1>3, <1>4

(* Slots of blocks in a function's range are near it.                        *)
LEMMA SlotIsNear ==
  ASSUME NEW o \in Origins, NEW b \in Int, MinAddr(o) <= b, b <= MaxAddr(o),
         NEW s \in b + 1 .. b + BlockSize - 1
  PROVE  o - MaxRange <= s /\ s <= o + MaxRange
<1>1. /\ o \in Int /\ MinAddr(o) \in Int /\ o - MaxRange <= MinAddr(o)
      /\ MaxAddr(o) \in Int /\ MaxAddr(o) <= o + MaxRange - (BlockSize - 1)
  BY RangeIsNear
<1>2. BlockSize \in Nat /\ MaxRange \in Nat
  BY BuffersAssumption
<1>3. MinAddr(o) <= s
  BY <1>1, <1>2
<1>. QED
  BY <1>1, <1>2, <1>3

(* A slot of a block on the list, taken off its free list.                   *)
LEMMA ReusePreserves ==
  ASSUME IInv, NEW o \in Origins, NEW b \in ToSet(blocks), InRange(b, o),
         free[b] # <<>>, search = Idle, Reuse(b, o), UNCHANGED mem
  PROVE  IInv' /\ live' # live
<1>. DEFINE s == Head(free[b])
<1>1. /\ b \in Int /\ b % Granularity = 0 /\ mem[b] = b
      /\ free[b] \in Seq(Int) /\ IsInjective(free[b])
      /\ Mine(b) \cap ToSet(free[b]) = {}
      /\ Mine(b) \cup ToSet(free[b]) = b + 1 .. b + BlockSize - 1
      /\ usedCount[b] = Cardinality(Mine(b)) /\ usedCount[b] \in Nat
      /\ IsFiniteSet(Mine(b))
  BY SlotsOfBlock
<1>2. /\ s \in ToSet(free[b]) /\ s \in Int
      /\ Tail(free[b]) \in Seq(Int) /\ IsInjective(Tail(free[b]))
      /\ ToSet(Tail(free[b])) = ToSet(free[b]) \ {s}
  BY <1>1, PoppedList
<1>. HIDE DEF s
<1>3. s \in b + 1 .. b + BlockSize - 1 /\ s \in b .. b + BlockSize - 1
  BY <1>1, <1>2
<1>4. BlockOf(s) = b
  BY <1>1, <1>3, BlockOfSlot
<1>5. s \notin Mine(b) /\ s \notin DOMAIN live
  BY <1>1, <1>2, <1>4 DEF Mine
<1>6. /\ HandOut(s, o) /\ free' = [free EXCEPT ![b] = Tail(free[b])]
      /\ usedCount' = [usedCount EXCEPT ![b] = usedCount[b] + 1]
      /\ UNCHANGED <<mem, blocks, search, seenTaken>>
  BY DEF Reuse, Popped, s
<1>7. /\ live' \in [DOMAIN live' -> Origins] /\ DOMAIN live' = DOMAIN live \cup {s}
      /\ DOMAIN live' \subseteq Int /\ live' # live
      /\ live'[s] = o /\ \A a \in DOMAIN live : live'[a] = live[a]
      /\ \A c : Mine(c)' = IF c = b THEN Mine(c) \cup {s} ELSE Mine(c)
  BY <1>2, <1>4, <1>5, <1>6, HandOutMine
<1>8. /\ free \in [ToSet(blocks) -> Seq(Int)] /\ usedCount \in [ToSet(blocks) -> Nat]
      /\ blocks \in Seq(Granules) /\ IsInjective(blocks)
      /\ \A c \in ToSet(blocks) : IsInjective(free[c])
  BY DEF IInv, ListsOK
<1>9. ListsOK'
  <2>1. free' \in [ToSet(blocks) -> Seq(Int)] /\ usedCount' \in [ToSet(blocks) -> Nat]
    BY <1>1, <1>2, <1>6, <1>8
  <2>2. \A c \in ToSet(blocks) : IsInjective(free'[c])
    BY <1>2, <1>6, <1>8
  <2>. QED
    BY <1>6, <1>7, <1>8, <2>1, <2>2 DEF ListsOK
<1>10. BlocksServeTheirSlots'
  <2>1. \A a \in DOMAIN live' : BlockOf(a) \in ToSet(blocks)
    BY <1>4, <1>7 DEF IInv, BlocksServeTheirSlots
  <2>2. ASSUME NEW c \in ToSet(blocks)
        PROVE  /\ mem[c] = c
               /\ Mine(c)' \cap ToSet(free'[c]) = {}
               /\ Mine(c)' \cup ToSet(free'[c]) = c + 1 .. c + BlockSize - 1
               /\ usedCount'[c] = Cardinality(Mine(c)') /\ Mine(c)' # {}
    <3>1. CASE c = b
      <4>1. Mine(c)' = Mine(b) \cup {s} /\ free'[c] = Tail(free[b])
            /\ usedCount'[c] = usedCount[b] + 1
        BY <1>6, <1>7, <1>8, <3>1
      <4>2. Cardinality(Mine(b) \cup {s}) = Cardinality(Mine(b)) + 1
        BY <1>1, <1>5, FS_AddElement
      <4>. QED
        BY <1>1, <1>2, <1>5, <3>1, <4>1, <4>2
    <3>2. CASE c # b
      <4>1. Mine(c)' = Mine(c) /\ free'[c] = free[c] /\ usedCount'[c] = usedCount[c]
        BY <1>6, <1>7, <1>8, <3>2
      <4>. QED
        BY <4>1, SlotsOfBlock
    <3>. QED
      BY <3>1, <3>2
  <2>. QED
    BY <1>6, <2>1, <2>2 DEF BlocksServeTheirSlots, Mine
<1>11. MemoryOK' /\ SearchOK' /\ SeenOK'
  BY <1>6 DEF IInv, MemoryOK, SearchOK, SeenOK, Downwards, Upwards
<1>12. SlotsAreNear'
  <2>1. MinAddr(o) <= b /\ b <= MaxAddr(o)
    BY <1>1, RangeIsNear DEF InRange
  <2>2. o - MaxRange <= s /\ s <= o + MaxRange
    BY <1>1, <1>3, <2>1, SlotIsNear
  <2>. QED
    BY <1>7, <2>2 DEF IInv, SlotsAreNear
<1>. QED
  BY <1>7, <1>9, <1>10, <1>11, <1>12 DEF IInv

LEMMA AllocatePreserves ==
  ASSUME IInv, NEW o \in Origins, AllocateBuffer(o)
  PROVE  IInv' /\ (search # Idle /\ search' = Idle => live' # live)
<1>1. search = Idle /\ UNCHANGED mem
  BY DEF AllocateBuffer
<1>2. CASE Usable(o) # {}
  <2>1. PICK i \in Usable(o) : Reuse(blocks[i], o)
    BY <1>2 DEF AllocateBuffer
  <2>2. InRange(blocks[i], o) /\ free[blocks[i]] # <<>> /\ blocks[i] \in ToSet(blocks)
    BY DEF Usable, ToSet
  <2>. QED
    BY <1>1, <2>1, <2>2, ReusePreserves
<1>3. CASE Usable(o) = {}
  <2>1. /\ search' = [phase |-> "prev", origin |-> o, at |-> RoundDown(o) - Granularity]
        /\ seenTaken' = {a \in Granules : mem[a] # Free}
        /\ UNCHANGED <<mem, blocks, free, usedCount, live>>
    BY <1>1, <1>3 DEF AllocateBuffer, lists
  <2>2. ListsOK' /\ BlocksServeTheirSlots' /\ MemoryOK' /\ SlotsAreNear'
    BY <2>1 DEF IInv, ListsOK, BlocksServeTheirSlots, MemoryOK, SlotsAreNear
  <2>3. /\ o \in Int /\ CodeBase <= o /\ o < CodeEnd /\ Granularity \in Nat \ {0}
        /\ CodeBase \in Int /\ CodeEnd \in Int /\ CodeBase % Granularity = 0
    BY RangeIsNear, BuffersAssumption
  <2>4. /\ RoundDown(o) \in Int /\ RoundDown(o) % Granularity = 0
        /\ RoundDown(o) <= o /\ o < RoundDown(o) + Granularity
    BY <2>3, RoundDownIs
  <2>5. /\ search'.phase = "prev" /\ search'.origin = o
        /\ search'.at = RoundDown(o) - Granularity /\ search'.at \in Int
        /\ search' # Idle
    BY <2>1, <2>3, <2>4 DEF Idle
  <2>6. Downwards' /\ ~Upwards'
    BY <2>5 DEF Downwards, Upwards
  <2>7. SearchOK'
    <3>1. search'.at % Granularity = 0 /\ search'.at <= RoundDown(o) - Granularity
      BY <2>3, <2>4, <2>5, GranulesApart
    <3>2. search' \in [phase : {"idle", "prev", "allocPrev", "next", "allocNext"},
                       origin : Int, at : Int]
      BY <2>1, <2>3, <2>5
    <3>. QED
      BY <2>5, <2>6, <3>1, <3>2 DEF SearchOK
  <2>8. SeenOK'
    <3>1. ASSUME NEW a \in Granules, RoundDown(o) - Granularity < a, a <= RoundDown(o)
          PROVE  a \in seenTaken'
      <4>1. a \in Int /\ a % Granularity = 0 /\ CodeBase # Free
        BY BuffersAssumption DEF Granules, Free
      <4>2. a = RoundDown(o)
        <5>1. a < RoundDown(o) => a + Granularity <= RoundDown(o)
          BY <2>4, <4>1, GranulesApart
        <5>. QED
          BY <2>3, <2>4, <3>1, <4>1, <5>1
      <4>3. CodeBase <= a
        <5>1. a < CodeBase => a + Granularity <= CodeBase
          BY <2>3, <4>1, GranulesApart
        <5>. QED
          BY <2>3, <2>4, <4>1, <4>2, <5>1
      <4>4. mem[a] = CodeBase
        BY <2>3, <2>4, <4>1, <4>2, <4>3 DEF IInv, MemoryOK
      <4>. QED
        BY <2>1, <2>3, <4>1, <4>4
    <3>. QED
      BY <2>1, <2>5, <2>6, <3>1 DEF SeenOK
  <2>. QED
    BY <1>1, <2>2, <2>7, <2>8 DEF IInv
<1>. QED
  BY <1>2, <1>3

-----------------------------------------------------------------------------
(* The search.                                                               *)

(* What is known of a search that is under way.                              *)
LEMMA SearchFacts ==
  ASSUME IInv, search.phase # "idle"
  PROVE  /\ search # Idle /\ search.origin \in Origins /\ search.origin \in Int
         /\ search = [phase |-> search.phase, origin |-> search.origin, at |-> search.at]
         /\ Downwards \/ Upwards
         /\ search.at \in Int /\ search.at % Granularity = 0
         /\ RoundDown(search.origin) \in Int /\ RoundDown(search.origin) % Granularity = 0
         /\ RoundDown(search.origin) <= search.origin
         /\ Granularity \in Nat \ {0}
         /\ MinAddr(search.origin) \in Int /\ 0 <= MinAddr(search.origin)
         /\ MaxAddr(search.origin) \in Int /\ MaxAddr(search.origin) <= LastAddr
         /\ LastAddr \in Nat /\ search.origin <= LastAddr
         /\ Granules \subseteq Int
<1>1. search # Idle
  BY DEF Idle
<1>2. search.origin \in Origins /\ (Downwards \/ Upwards)
      /\ search.origin \in Int /\ search.at \in Int /\ search.at % Granularity = 0
  BY <1>1 DEF IInv, SearchOK
<1>3. search = [phase |-> search.phase, origin |-> search.origin, at |-> search.at]
  BY DEF IInv, SearchOK
<1>. QED
  BY <1>1, <1>2, <1>3, RoundDownIs, RangeIsNear, BuffersAssumption DEF Granules

(* A step of the search that only moves it keeps what it is about.           *)
LEMMA MovePreserves ==
  ASSUME IInv, search.phase # "idle", NEW stage, NEW at \in Int, Goto(stage, at),
         UNCHANGED <<mem, blocks, free, usedCount, live>>,
         seenTaken \subseteq seenTaken',
         at % Granularity = 0,
         \/ /\ stage \in {"prev", "allocPrev"}
            /\ at <= RoundDown(search.origin) - Granularity
            /\ stage = "allocPrev" => MinAddr(search.origin) <= at
            /\ \A a \in Granules :
                 at < a /\ a <= RoundDown(search.origin) => a \in seenTaken'
         \/ /\ stage \in {"next", "allocNext"}
            /\ RoundDown(search.origin) + Granularity <= at
            /\ stage = "allocNext" => at <= MaxAddr(search.origin)
            /\ \A a \in Granules :
                 MinAddr(search.origin) <= a /\ a < at => a \in seenTaken'
  PROVE  IInv' /\ search' # Idle
<1>1. /\ search # Idle /\ search.origin \in Origins /\ search.origin \in Int
      /\ search = [phase |-> search.phase, origin |-> search.origin, at |-> search.at]
  BY SearchFacts
<1>2. search' = [phase |-> stage, origin |-> search.origin, at |-> at]
  BY <1>1 DEF Goto
<1>3. search'.phase = stage /\ search'.origin = search.origin /\ search'.at = at
  BY <1>2
<1>4. search' # Idle /\ stage \in {"prev", "allocPrev", "next", "allocNext"}
  BY <1>3 DEF Idle
<1>5. /\ Downwards' <=> stage \in {"prev", "allocPrev"}
      /\ Upwards' <=> stage \in {"next", "allocNext"}
  BY <1>3 DEF Downwards, Upwards
<1>6. ListsOK' /\ BlocksServeTheirSlots' /\ MemoryOK' /\ SlotsAreNear'
  BY DEF IInv, ListsOK, BlocksServeTheirSlots, MemoryOK, SlotsAreNear
<1>7. SearchOK'
  <2>1. search' \in [phase : {"idle", "prev", "allocPrev", "next", "allocNext"},
                     origin : Int, at : Int]
    BY <1>1, <1>2, <1>4
  <2>. QED
    BY <1>1, <1>3, <1>5, <2>1 DEF SearchOK
<1>8. SeenOK'
  BY <1>1, <1>3, <1>5 DEF IInv, SeenOK
<1>. QED
  BY <1>4, <1>6, <1>7, <1>8 DEF IInv

(* From the origin's granule the search goes up once all below is seen.      *)
LEMMA BelowPreserves ==
  ASSUME IInv, search.phase = "prev", Below(search.origin),
         UNCHANGED <<mem, blocks, free, usedCount, live, seenTaken>>,
         \A a \in Granules :
           MinAddr(search.origin) <= a /\ a <= RoundDown(search.origin) => a \in seenTaken
  PROVE  IInv' /\ search' # Idle
<1>. DEFINE at == RoundDown(search.origin) + Granularity
            d == RoundDown(search.origin)
<1>1. /\ d \in Int /\ d % Granularity = 0 /\ Granularity \in Nat \ {0}
      /\ Granules \subseteq Int /\ MinAddr(search.origin) \in Int
  BY SearchFacts
<1>. HIDE DEF d
<1>2. d + Granularity \in Int /\ (d + Granularity) % Granularity = 0
  <2>1. (d + Granularity) % Granularity = 0
    BY <1>1, GranulesApart
  <2>. QED
    BY <1>1, <2>1
<1>3. ASSUME NEW a \in Granules, MinAddr(search.origin) <= a, a < d + Granularity
      PROVE  a \in seenTaken
  <2>1. a \in Int /\ a % Granularity = 0
    BY BuffersAssumption DEF Granules
  <2>2. d < a => d + Granularity <= a
    BY <1>1, <2>1, GranulesApart
  <2>3. a <= d
    BY <1>1, <1>3, <2>1, <2>2
  <2>. QED
    BY <1>3, <2>3 DEF d
<1>4. Goto("next", d + Granularity)
  BY DEF Below, d
<1>5. d + Granularity <= d + Granularity
  BY <1>1
<1>. QED
  BY <1>2, <1>3, <1>4, <1>5, MovePreserves DEF d

LEMMA PrevPreserves ==
  ASSUME IInv, FindPrevFreeRegion
  PROVE  IInv' /\ search' # Idle
<1>. DEFINE at == search.at
            o == search.origin
            d == RoundDown(o)
<1>1. search.phase = "prev" /\ UNCHANGED <<mem, blocks, free, usedCount, live, seenTaken>>
  BY DEF FindPrevFreeRegion, lists
<1>2. /\ search # Idle /\ o \in Origins /\ o \in Int
      /\ at \in Int /\ at % Granularity = 0
      /\ d \in Int /\ d <= o /\ Granularity \in Nat \ {0}
      /\ MinAddr(o) \in Int /\ 0 <= MinAddr(o)
      /\ LastAddr \in Nat /\ o <= LastAddr /\ Granules \subseteq Int
  BY <1>1, SearchFacts
<1>3. Downwards /\ at <= d - Granularity
  BY <1>1, <1>2 DEF Downwards, IInv, SearchOK
<1>4. /\ \A a \in Granules : at < a /\ a <= d => a \in seenTaken
      /\ \A a \in Granules : mem[a] # Free => a \in seenTaken
  BY <1>2, <1>3 DEF IInv, SeenOK
<1>. HIDE DEF at, o, d
<1>5. CASE at < MinAddr(o)
  <2>1. Below(o)
    BY <1>1, <1>5 DEF FindPrevFreeRegion, Exhausted, at, o
  <2>2. \A a \in Granules : MinAddr(o) <= a /\ a <= d => a \in seenTaken
    BY <1>2, <1>4, <1>5
  <2>. QED
    BY <1>1, <2>1, <2>2, BelowPreserves DEF o, d
<1>6. CASE ~(at < MinAddr(o))
  <2>1. at \in Granules /\ MinAddr(o) <= at
    BY <1>2, <1>3, <1>6 DEF Granules
  <2>2. /\ mem[at] \in Granules \cup {Free} /\ mem \in [Granules -> Granules \cup {Free}]
        /\ mem[at] # Free =>
             /\ mem[at] <= at
             /\ \A x \in Granules : mem[at] <= x /\ x <= at => mem[x] = mem[at]
    BY <2>1 DEF IInv, MemoryOK
  <2>3. \A a \in Granules : 0 <= a /\ a \in Int /\ a % Granularity = 0 /\ a # Free
    BY BuffersAssumption DEF Granules, Free
  <2>4. CASE mem[at] = Free
    <3>1. Goto("allocPrev", at)
      <4>1. mem[at] \notin 0 .. Granularity - 1
        BY <2>4 DEF Free
      <4>. QED
        BY <1>1, <1>6, <2>4, <4>1 DEF FindPrevFreeRegion, Exhausted, at, o
    <3>. QED
      BY <1>1, <1>2, <1>3, <1>4, <2>1, <3>1, MovePreserves DEF o, d
  <2>5. CASE mem[at] # Free
    <3>1. /\ mem[at] \in Granules /\ mem[at] \in Int /\ mem[at] <= at
          /\ 0 <= mem[at] /\ mem[at] % Granularity = 0
          /\ \A x \in Granules : mem[at] <= x /\ x <= at => x \in seenTaken
      BY <1>4, <2>2, <2>3, <2>5
    <3>2. CASE mem[at] \in 0 .. Granularity - 1
      <4>1. Below(o)
        BY <1>1, <3>2 DEF FindPrevFreeRegion, Exhausted, at, o
      <4>2. mem[at] = 0
        BY <1>2, <3>1, <3>2
      <4>3. \A a \in Granules : MinAddr(o) <= a /\ a <= d => a \in seenTaken
        BY <1>2, <1>4, <2>3, <3>1, <4>2
      <4>. QED
        BY <1>1, <4>1, <4>3, BelowPreserves DEF o, d
    <3>3. CASE mem[at] \notin 0 .. Granularity - 1
      <4>. DEFINE to == mem[at] - Granularity
      <4>1. Goto("prev", to)
        BY <1>1, <1>6, <2>5, <3>3 DEF FindPrevFreeRegion, Exhausted, BeforeRegion, at, o
      <4>2. to \in Int /\ to % Granularity = 0 /\ to <= d - Granularity
        <5>1. Granularity \in Nat /\ d \in Int /\ at \in Int
          BY <1>2, BuffersAssumption
        <5>2. to % Granularity = 0
          BY <3>1, GranulesApart
        <5>. QED
          BY <1>3, <3>1, <5>1, <5>2
      <4>3. ASSUME NEW a \in Granules, to < a, a <= d
            PROVE  a \in seenTaken
        <5>1. a < mem[at] => a + Granularity <= mem[at]
          BY <2>3, <3>1, GranulesApart
        <5>2. mem[at] <= a
          BY <1>2, <2>3, <3>1, <4>3, <5>1
        <5>. QED
          BY <1>2, <1>4, <2>3, <3>1, <4>3, <5>2
      <4>. HIDE DEF to
      <4>. QED
        BY <1>1, <1>4, <4>1, <4>2, <4>3, MovePreserves DEF o, d
    <3>. QED
      BY <3>2, <3>3
  <2>. QED
    BY <2>4, <2>5
<1>. QED
  BY <1>5, <1>6

(* Every granule in range has been seen taken.                               *)
AllSeen ==
  \A a \in Granules :
    MinAddr(search.origin) <= a /\ a <= MaxAddr(search.origin) => a \in seenTaken

LEMMA NextPreserves ==
  ASSUME IInv, FindNextFreeRegion
  PROVE  IInv' /\ (search' = Idle => AllSeen)
<1>. DEFINE at == search.at
            o == search.origin
            d == RoundDown(o)
<1>1. search.phase = "next" /\ UNCHANGED <<mem, blocks, free, usedCount, live>>
  BY DEF FindNextFreeRegion, lists
<1>2. /\ search # Idle /\ o \in Origins /\ o \in Int
      /\ at \in Int /\ at % Granularity = 0
      /\ d \in Int /\ d <= o /\ Granularity \in Nat \ {0} /\ d % Granularity = 0
      /\ MinAddr(o) \in Int /\ 0 <= MinAddr(o)
      /\ MaxAddr(o) \in Int /\ MaxAddr(o) <= LastAddr
      /\ LastAddr \in Nat /\ o <= LastAddr /\ Granules \subseteq Int
  BY <1>1, SearchFacts
<1>3. Upwards /\ d + Granularity <= at
  BY <1>1, <1>2 DEF Upwards, IInv, SearchOK
<1>4. /\ \A a \in Granules : MinAddr(o) <= a /\ a < at => a \in seenTaken
      /\ \A a \in Granules : mem[a] # Free => a \in seenTaken
  BY <1>2, <1>3 DEF IInv, SeenOK
<1>5. 0 <= d
  <2>1. o \in Nat /\ o < d + Granularity
    <3>1. o \in Nat
      BY <1>2, RangeIsNear
    <3>. HIDE DEF o
    <3>2. o < d + Granularity
      BY <1>2, RoundDownIs
    <3>. QED
      BY <3>1, <3>2
  <2>2. d < 0 => d + Granularity <= 0
    <3>1. 0 \in Int /\ 0 % Granularity = 0
      BY <1>2
    <3>. QED
      BY <1>2, <3>1, GranulesApart
  <2>. QED
    BY <1>2, <2>1, <2>2
<1>. HIDE DEF at, o, d
<1>6. CASE at > MaxAddr(o) /\ search' = Idle /\ seenTaken' = {}
  <2>1. ListsOK' /\ BlocksServeTheirSlots' /\ MemoryOK' /\ SlotsAreNear'
    BY <1>1 DEF IInv, ListsOK, BlocksServeTheirSlots, MemoryOK, SlotsAreNear
  <2>2. search' = [phase |-> "idle", origin |-> 0, at |-> 0]
    BY <1>6 DEF Idle
  <2>3. ~Downwards' /\ ~Upwards'
    BY <2>2 DEF Downwards, Upwards
  <2>4. search' \in [phase : {"idle", "prev", "allocPrev", "next", "allocNext"},
                     origin : Int, at : Int]
    BY <2>2
  <2>5. SearchOK' /\ SeenOK'
    BY <1>6, <2>3, <2>4 DEF SearchOK, SeenOK
  <2>6. AllSeen
    BY <1>2, <1>4, <1>6 DEF AllSeen, o
  <2>. QED
    BY <2>1, <2>5, <2>6 DEF IInv
<1>7. CASE at <= MaxAddr(o) /\ UNCHANGED seenTaken
  <2>1. at \in Granules
    BY <1>2, <1>3, <1>5, <1>7 DEF Granules
  <2>2. \A a \in Granules : 0 <= a /\ a \in Int /\ a % Granularity = 0
    BY BuffersAssumption DEF Granules
  <2>3. CASE mem[at] = Free
    <3>1. Goto("allocNext", at)
      BY <1>2, <1>7, <2>3 DEF FindNextFreeRegion, at, o
    <3>2. IInv' /\ search' # Idle
      BY <1>1, <1>2, <1>3, <1>4, <1>7, <3>1, MovePreserves DEF o, d
    <3>. QED
      BY <3>2
  <2>4. CASE mem[at] # Free
    <3>1. PICK e \in RegionEnds(at) : Goto("next", RoundUp(e))
      BY <1>2, <1>7, <2>4 DEF FindNextFreeRegion, at, o
    <3>2. /\ e \in Int /\ at < e
          /\ \A a \in Granules : at <= a /\ a < e => mem[a] = mem[at]
      BY <1>2 DEF RegionEnds
    <3>3. /\ RoundUp(e) \in Int /\ RoundUp(e) % Granularity = 0 /\ e <= RoundUp(e)
          /\ \A a \in Granules : e <= a => RoundUp(e) <= a
      BY <2>2, <3>2, RoundUpIs
    <3>4. ASSUME NEW a \in Granules, MinAddr(o) <= a, a < RoundUp(e)
          PROVE  a \in seenTaken
      <4>1. CASE a < at
        BY <1>4, <3>4, <4>1
      <4>2. CASE at <= a
        <5>1. a < e
          BY <1>2, <2>2, <3>2, <3>3, <3>4
        <5>2. mem[a] # Free
          BY <2>4, <3>2, <4>2, <5>1
        <5>. QED
          BY <1>4, <5>2
      <4>. QED
        BY <1>2, <2>2, <4>1, <4>2
    <3>5. d + Granularity <= RoundUp(e)
      BY <1>2, <1>3, <3>2, <3>3
    <3>6. IInv' /\ search' # Idle
      BY <1>1, <1>7, <3>1, <3>3, <3>4, <3>5, MovePreserves DEF o, d
    <3>. QED
      BY <3>6
  <2>. QED
    BY <2>3, <2>4
<1>. QED
  BY <1>2, <1>6, <1>7 DEF FindNextFreeRegion, at, o

-----------------------------------------------------------------------------
(* VirtualAlloc's answers.                                                   *)

LEMMA AddBlockPreserves ==
  ASSUME IInv, search.phase \in {"allocPrev", "allocNext"},
         mem[search.at] = Free, AddBlock(search.at)
  PROVE  IInv' /\ live' # live
<1>. DEFINE b == search.at
            o == search.origin
            s == Head(NewSlots(b))
<1>1. /\ search # Idle /\ o \in Origins /\ o \in Int
      /\ b \in Int /\ b % Granularity = 0
      /\ RoundDown(o) \in Int /\ RoundDown(o) <= o /\ Granularity \in Nat \ {0}
      /\ MinAddr(o) \in Int /\ 0 <= MinAddr(o)
      /\ MaxAddr(o) \in Int /\ MaxAddr(o) <= LastAddr
      /\ LastAddr \in Nat /\ o <= LastAddr /\ Granules \subseteq Int
      /\ MaxRange \in Nat /\ BlockSize \in Nat
  BY SearchFacts, BuffersAssumption
<1>2. BlockSize <= Granularity
  <2>1. b \in b .. b + BlockSize - 1
    BY <1>1, BuffersAssumption
  <2>. QED
    BY <1>1, <2>1, BlockOfSlot
<1>3. /\ MinAddr(o) <= b /\ b <= LastAddr
      /\ \A a \in b + 1 .. b + BlockSize - 1 : o - MaxRange <= a /\ a <= o + MaxRange
  <2>1. CASE search.phase = "allocPrev"
    <3>1. MinAddr(o) <= b /\ b <= RoundDown(o) - Granularity
      BY <1>1, <2>1 DEF IInv, SearchOK, Downwards
    <3>2. o - MaxRange <= MinAddr(o)
      BY <1>1, RangeIsNear
    <3>3. b + BlockSize - 1 <= o
      BY <1>1, <1>2, <3>1
    <3>. QED
      BY <1>1, <3>1, <3>2, <3>3
  <2>2. CASE search.phase = "allocNext"
    <3>1. RoundDown(o) + Granularity <= b /\ b <= MaxAddr(o)
      BY <1>1, <2>2 DEF IInv, SearchOK, Upwards
    <3>2. MaxAddr(o) <= o + MaxRange - (BlockSize - 1) /\ MinAddr(o) <= o
      BY <1>1, RangeIsNear
    <3>3. o < RoundDown(o) + Granularity
      <4>. HIDE DEF o
      <4>. QED
        BY <1>1, RoundDownIs
    <3>. QED
      BY <1>1, <3>1, <3>2, <3>3
  <2>. QED
    BY <2>1, <2>2
<1>. HIDE DEF b, o
<1>4. b \in Granules
  BY <1>1, <1>3 DEF Granules
<1>5. /\ mem[b] = Free /\ AddBlock(b) /\ Free \notin Granules
  BY BuffersAssumption DEF b, Granules, Free
<1>6. /\ NewSlots(b) \in Seq(Int) /\ NewSlots(b) # <<>> /\ IsInjective(NewSlots(b))
      /\ ToSet(NewSlots(b)) = b + 1 .. b + BlockSize - 1
  BY <1>1, NewSlotsAre
<1>7. /\ s \in b + 1 .. b + BlockSize - 1 /\ s \in Int
      /\ Tail(NewSlots(b)) \in Seq(Int) /\ IsInjective(Tail(NewSlots(b)))
      /\ ToSet(Tail(NewSlots(b))) = (b + 1 .. b + BlockSize - 1) \ {s}
  BY <1>6, PoppedList
<1>. DEFINE t == Tail(NewSlots(b))
<1>8. /\ mem' = [mem EXCEPT ![b] = b] /\ blocks' = <<b>> \o blocks
      /\ free' = [a \in DOMAIN free \cup {b} |-> IF a = b THEN t ELSE free[a]]
      /\ usedCount' = [a \in DOMAIN free \cup {b} |-> IF a = b THEN 1 ELSE usedCount[a]]
      /\ HandOut(s, o) /\ search' = Idle /\ seenTaken' = {}
  BY <1>5 DEF AddBlock, Popped, o
<1>. HIDE DEF s, t
<1>9. BlockOf(s) = b
  <2>1. s \in b .. b + BlockSize - 1
    BY <1>1, <1>7
  <2>. QED
    BY <1>1, <2>1, BlockOfSlot
<1>10. /\ b \notin ToSet(blocks)
       /\ \A c \in ToSet(blocks) : mem[c] = c
       /\ \A a \in DOMAIN live : BlockOf(a) \in ToSet(blocks)
  BY <1>4, <1>5 DEF IInv, BlocksServeTheirSlots
<1>11. Mine(b) = {} /\ s \notin DOMAIN live
  BY <1>9, <1>10 DEF Mine
<1>12. /\ live' \in [DOMAIN live' -> Origins] /\ DOMAIN live' = DOMAIN live \cup {s}
       /\ DOMAIN live' \subseteq Int /\ live' # live
       /\ live'[s] = o /\ \A a \in DOMAIN live : live'[a] = live[a]
       /\ \A c : Mine(c)' = IF c = b THEN Mine(c) \cup {s} ELSE Mine(c)
  BY <1>1, <1>7, <1>8, <1>9, <1>11, HandOutMine
<1>13. /\ free \in [ToSet(blocks) -> Seq(Int)] /\ usedCount \in [ToSet(blocks) -> Nat]
       /\ blocks \in Seq(Granules) /\ IsInjective(blocks)
       /\ \A c \in ToSet(blocks) : IsInjective(free[c])
  BY DEF IInv, ListsOK
<1>14. /\ blocks' \in Seq(Granules) /\ IsInjective(blocks')
       /\ ToSet(blocks') = ToSet(blocks) \cup {b}
  BY <1>4, <1>8, <1>10, <1>13, PushedList
<1>15. ListsOK'
  <2>1. /\ free' \in [ToSet(blocks') -> Seq(Int)]
        /\ usedCount' \in [ToSet(blocks') -> Nat]
        /\ \A c \in ToSet(blocks') : IsInjective(free'[c])
    BY <1>7, <1>8, <1>13, <1>14 DEF t
  <2>. QED
    BY <1>12, <1>14, <2>1 DEF ListsOK
<1>16. BlocksServeTheirSlots'
  <2>1. \A a \in DOMAIN live' : BlockOf(a) \in ToSet(blocks')
    BY <1>9, <1>10, <1>12, <1>14
  <2>2. ASSUME NEW c \in ToSet(blocks')
        PROVE  /\ mem'[c] = c
               /\ Mine(c)' \cap ToSet(free'[c]) = {}
               /\ Mine(c)' \cup ToSet(free'[c]) = c + 1 .. c + BlockSize - 1
               /\ usedCount'[c] = Cardinality(Mine(c)') /\ Mine(c)' # {}
    <3>1. CASE c = b
      <4>1. mem'[c] = c /\ Mine(c)' = {s} /\ free'[c] = t /\ usedCount'[c] = 1
        <5>1. mem \in [Granules -> Granules \cup {Free}]
          BY DEF IInv, MemoryOK
        <5>. QED
          BY <1>4, <1>8, <1>11, <1>12, <3>1, <5>1
      <4>2. Cardinality({s}) = 1
        BY FS_Singleton
      <4>. QED
        BY <1>7, <3>1, <4>1, <4>2 DEF t
    <3>2. CASE c # b
      <4>1. c \in ToSet(blocks)
        BY <1>14, <3>2
      <4>2. /\ mem'[c] = mem[c] /\ Mine(c)' = Mine(c)
            /\ free'[c] = free[c] /\ usedCount'[c] = usedCount[c]
        BY <1>8, <1>12, <1>13, <3>2, <4>1 DEF IInv, MemoryOK
      <4>. QED
        BY <4>1, <4>2, SlotsOfBlock
    <3>. QED
      BY <3>1, <3>2
  <2>. QED
    BY <2>1, <2>2 DEF BlocksServeTheirSlots, Mine
<1>17. MemoryOK'
  <2>1. /\ mem \in [Granules -> Granules \cup {Free}]
        /\ \A a \in Granules : mem[a] # Free =>
             /\ mem[a] <= a
             /\ \A x \in Granules : mem[a] <= x /\ x <= a => mem[x] = mem[a]
        /\ \A a \in Granules : mem[a] \in ToSet(blocks) => a = mem[a]
        /\ \A a \in Granules : CodeBase <= a /\ a < CodeEnd => mem[a] = CodeBase
        /\ CodeBase \notin ToSet(blocks)
    BY DEF IInv, MemoryOK
  <2>2. /\ mem' \in [Granules -> Granules \cup {Free}] /\ mem'[b] = b
        /\ \A a \in Granules : a # b => mem'[a] = mem[a]
    BY <1>4, <1>8, <2>1
  <2>3. ASSUME NEW a \in Granules, mem'[a] # Free
        PROVE  /\ mem'[a] <= a
               /\ \A x \in Granules : mem'[a] <= x /\ x <= a => mem'[x] = mem'[a]
    <3>1. CASE a = b
      BY <1>1, <2>2, <3>1
    <3>2. CASE a # b
      <4>1. /\ mem'[a] = mem[a] /\ mem[a] # Free /\ mem[a] <= a
            /\ \A x \in Granules : mem[a] <= x /\ x <= a => mem[x] = mem[a]
        BY <2>1, <2>2, <2>3, <3>2
      <4>2. ~(mem[a] <= b /\ b <= a)
        BY <1>4, <1>5, <4>1
      <4>. QED
        BY <2>2, <4>1, <4>2
    <3>. QED
      BY <3>1, <3>2
  <2>4. ASSUME NEW a \in Granules, mem'[a] \in ToSet(blocks')
        PROVE  a = mem'[a]
    <3>1. ASSUME a # b, mem[a] = b
          PROVE  FALSE
      <4>1. mem[a] # Free /\ mem[a] <= a
        BY <1>4, <1>5, <2>1, <3>1
      <4>2. b <= b /\ b <= a
        BY <1>1, <3>1, <4>1
      <4>3. mem[b] = mem[a]
        BY <1>4, <2>1, <3>1, <4>1, <4>2
      <4>. QED
        BY <1>4, <1>5, <3>1, <4>3
    <3>. QED
      BY <1>14, <2>1, <2>2, <2>4, <3>1
  <2>5. /\ CodeBase <= o /\ o < CodeEnd /\ CodeBase \in Granules
        /\ CodeBase # Free /\ CodeBase \in Int /\ CodeEnd \in Int
    BY <1>1, RangeIsNear, BuffersAssumption DEF Granules, Free
  <2>6. CodeBase # b
    BY <1>1, <1>5, <2>1, <2>5
  <2>7. \A a \in Granules : CodeBase <= a /\ a < CodeEnd => mem'[a] = CodeBase
    BY <1>5, <2>1, <2>2, <2>5
  <2>. QED
    BY <1>14, <2>1, <2>2, <2>3, <2>4, <2>6, <2>7 DEF MemoryOK
<1>18. SearchOK' /\ SeenOK'
  <2>1. search' = [phase |-> "idle", origin |-> 0, at |-> 0]
    BY <1>8 DEF Idle
  <2>2. ~Downwards' /\ ~Upwards'
    BY <2>1 DEF Downwards, Upwards
  <2>3. search' \in [phase : {"idle", "prev", "allocPrev", "next", "allocNext"},
                     origin : Int, at : Int]
    BY <2>1
  <2>. QED
    BY <1>8, <2>2, <2>3 DEF SearchOK, SeenOK
<1>19. SlotsAreNear'
  <2>1. o - MaxRange <= s /\ s <= o + MaxRange
    BY <1>3, <1>7
  <2>. QED
    BY <1>12, <2>1 DEF IInv, SlotsAreNear
<1>. QED
  BY <1>12, <1>15, <1>16, <1>17, <1>18, <1>19 DEF IInv

LEMMA VirtualAllocPreserves ==
  ASSUME IInv, VirtualAlloc
  PROVE  IInv' /\ (search' = Idle => live' # live)
<1>1. CASE mem[search.at] = Free /\ AddBlock(search.at)
  BY <1>1, AddBlockPreserves DEF VirtualAlloc
<1>2. CASE /\ Goto(IF search.phase = "allocPrev" THEN "prev" ELSE "next",
                   AfterRefusal(search.at))
           /\ seenTaken' = seenTaken \cup {search.at}
           /\ UNCHANGED <<mem, lists>>
  <2>. DEFINE at == search.at
              o == search.origin
              d == RoundDown(o)
  <2>1. /\ search.phase \in {"allocPrev", "allocNext"} /\ search.phase # "idle"
        /\ UNCHANGED <<mem, blocks, free, usedCount, live>>
        /\ seenTaken \subseteq seenTaken' /\ at \in seenTaken'
    BY <1>2 DEF VirtualAlloc, lists
  <2>2. /\ search # Idle /\ at \in Int /\ at % Granularity = 0
        /\ d \in Int /\ Granularity \in Nat \ {0} /\ Granules \subseteq Int
    BY <2>1, SearchFacts
  <2>. HIDE DEF at, d
  <2>3. /\ RoundDown(at) = at
        /\ (at - Granularity) % Granularity = 0 /\ (at + Granularity) % Granularity = 0
    <3>1. RoundDown(at) = at
      BY <2>2, RoundDownIs
    <3>2. (at - Granularity) % Granularity = 0
      BY <2>2, GranulesApart
    <3>3. (at + Granularity) % Granularity = 0
      BY <2>2, GranulesApart
    <3>. QED
      BY <3>1, <3>2, <3>3
  <2>4. \A a \in Granules : /\ a \in Int
                            /\ a < at => a + Granularity <= at
                            /\ at < a => at + Granularity <= a
    <3>1. \A a \in Granules : a \in Int /\ a % Granularity = 0
      BY BuffersAssumption DEF Granules
    <3>. QED
      BY <2>2, <3>1, GranulesApart
  <2>5. CASE search.phase = "allocPrev"
    <3>1. Goto("prev", at - Granularity)
      BY <1>2, <2>3, <2>5 DEF AfterRefusal, at
    <3>2. /\ at <= d - Granularity
          /\ \A a \in Granules : at < a /\ a <= d => a \in seenTaken
      BY <2>2, <2>5 DEF IInv, SearchOK, SeenOK, Downwards, at, d
    <3>3. at - Granularity \in Int /\ at - Granularity <= d - Granularity
      BY <2>2, <3>2
    <3>4. \A a \in Granules : at - Granularity < a /\ a <= d => a \in seenTaken'
      BY <2>1, <2>2, <2>4, <3>2
    <3>5. IInv' /\ search' # Idle
      BY <2>1, <2>3, <3>1, <3>3, <3>4, MovePreserves DEF d
    <3>. QED
      BY <3>5
  <2>6. CASE search.phase = "allocNext"
    <3>1. Goto("next", at + Granularity)
      BY <1>2, <2>3, <2>6 DEF AfterRefusal, at
    <3>2. /\ d + Granularity <= at
          /\ \A a \in Granules : MinAddr(o) <= a /\ a < at => a \in seenTaken
      BY <2>2, <2>6 DEF IInv, SearchOK, SeenOK, Upwards, at, d
    <3>3. at + Granularity \in Int /\ d + Granularity <= at + Granularity
      BY <2>2, <3>2
    <3>4. \A a \in Granules : MinAddr(o) <= a /\ a < at + Granularity => a \in seenTaken'
      BY <2>1, <2>2, <2>4, <3>2
    <3>5. IInv' /\ search' # Idle
      BY <2>1, <2>3, <3>1, <3>3, <3>4, MovePreserves DEF d
    <3>. QED
      BY <3>5
  <2>. QED
    BY <2>1, <2>5, <2>6
<1>. QED
  BY <1>1, <1>2 DEF VirtualAlloc

-----------------------------------------------------------------------------
(* Giving slots and blocks back, and the other threads.                      *)

(* Freeing memory whose whole allocation goes, none of it the hooked code's. *)
LEMMA MemoryFreed ==
  ASSUME MemoryOK, NEW base, base # CodeBase,
         mem' = [a \in Granules |-> IF mem[a] = base THEN Free ELSE mem[a]],
         ToSet(blocks)' \subseteq ToSet(blocks), ToSet(blocks) \subseteq Granules
  PROVE  MemoryOK'
<1>1. CodeBase # Free /\ Granules \subseteq Int /\ Free \notin Granules
  BY BuffersAssumption DEF Free, Granules
<1>2. \A a \in Granules : mem'[a] = IF mem[a] = base THEN Free ELSE mem[a]
  OBVIOUS
<1>3. mem' \in [Granules -> Granules \cup {Free}]
  BY DEF MemoryOK
<1>4. ASSUME NEW a \in Granules, mem'[a] # Free
      PROVE  /\ mem'[a] <= a
             /\ \A x \in Granules : mem'[a] <= x /\ x <= a => mem'[x] = mem'[a]
  BY <1>2, <1>4 DEF MemoryOK
<1>5. \A a \in Granules : mem'[a] \in ToSet(blocks)' => a = mem'[a]
  <2>1. ASSUME NEW a \in Granules, mem'[a] \in ToSet(blocks)', mem[a] = base
        PROVE  a = mem'[a]
    <3>1. mem'[a] = Free
      BY <1>2, <2>1
    <3>2. Free \in ToSet(blocks)
      BY <2>1, <3>1
    <3>. QED
      BY <1>1, <3>2
  <2>. QED
    BY <1>2, <2>1 DEF MemoryOK
<1>. QED
  BY <1>1, <1>2, <1>3, <1>4, <1>5 DEF MemoryOK

LEMMA FreePreserves ==
  ASSUME IInv, NEW s \in DOMAIN live, FreeBuffer(s)
  PROVE  IInv' /\ search = Idle
<1>. DEFINE b == BlockOf(s)
<1>1. /\ search = Idle /\ UNCHANGED <<search, seenTaken>>
      /\ live' = [a \in DOMAIN live \ {s} |-> live[a]]
  BY DEF FreeBuffer
<1>2. b \in ToSet(blocks) /\ \A a \in DOMAIN live : BlockOf(a) \in ToSet(blocks)
  BY DEF IInv, BlocksServeTheirSlots
<1>. HIDE DEF b
<1>3. /\ b \in Granules /\ b \in Int /\ b % Granularity = 0 /\ mem[b] = b
      /\ free[b] \in Seq(Int) /\ IsInjective(free[b])
      /\ Mine(b) \cap ToSet(free[b]) = {}
      /\ Mine(b) \cup ToSet(free[b]) = b + 1 .. b + BlockSize - 1
      /\ usedCount[b] = Cardinality(Mine(b)) /\ usedCount[b] \in Nat
      /\ IsFiniteSet(Mine(b)) /\ Mine(b) # {}
  BY <1>2, SlotsOfBlock
<1>4. s \in Mine(b) /\ s \in Int /\ s \notin ToSet(free[b])
  BY <1>3 DEF Mine, b, IInv, ListsOK
<1>5. /\ IsFiniteSet(Mine(b) \ {s})
      /\ Cardinality(Mine(b) \ {s}) = usedCount[b] - 1
  BY <1>3, <1>4, FS_RemoveElement
<1>6. /\ DOMAIN live' = DOMAIN live \ {s} /\ DOMAIN live' \subseteq Int
      /\ live' \in [DOMAIN live' -> Origins]
      /\ \A a \in DOMAIN live' : live'[a] = live[a]
      /\ \A c : Mine(c)' = IF c = b THEN Mine(c) \ {s} ELSE Mine(c)
  <2>1. DOMAIN live' = DOMAIN live \ {s} /\ \A a \in DOMAIN live' : live'[a] = live[a]
    BY <1>1
  <2>2. live' \in [DOMAIN live' -> Origins] /\ DOMAIN live' \subseteq Int
    BY <1>1 DEF IInv, ListsOK
  <2>3. \A c : Mine(c)' = IF c = b THEN Mine(c) \ {s} ELSE Mine(c)
    BY <2>1 DEF Mine, b
  <2>. QED
    BY <2>1, <2>2, <2>3
<1>7. SearchOK' /\ SeenOK' /\ SlotsAreNear'
  <2>1. SearchOK'
    BY <1>1 DEF IInv, SearchOK, Downwards, Upwards
  <2>2. SeenOK'
    BY <1>1 DEF SeenOK
  <2>3. SlotsAreNear'
    BY <1>6 DEF IInv, SlotsAreNear
  <2>. QED
    BY <2>1, <2>2, <2>3
<1>8. /\ free \in [ToSet(blocks) -> Seq(Int)] /\ usedCount \in [ToSet(blocks) -> Nat]
      /\ blocks \in Seq(Granules) /\ IsInjective(blocks)
      /\ \A c \in ToSet(blocks) : IsInjective(free[c])
      /\ ToSet(blocks) \subseteq Granules
      /\ mem \in [Granules -> Granules \cup {Free}] /\ CodeBase \notin ToSet(blocks)
  BY DEF IInv, ListsOK, MemoryOK, ToSet
<1>9. CASE CountAfterFree(b) = 0
  <2>1. /\ mem' = [mem EXCEPT ![b] = Free] /\ blocks' = Unlinked(b)
        /\ free' = [a \in DOMAIN free \ {b} |-> free[a]]
        /\ usedCount' = [a \in DOMAIN free \ {b} |-> usedCount[a]]
    BY <1>2, <1>9 DEF FreeBuffer, b
  <2>2. Mine(b) \ {s} = {}
    BY <1>5, <1>9, FS_EmptySet DEF CountAfterFree
  <2>3. /\ blocks' \in Seq(Granules) /\ IsInjective(blocks')
        /\ ToSet(blocks') = ToSet(blocks) \ {b}
    <3>. DEFINE i == CHOOSE j \in DOMAIN blocks : blocks[j] = b
    <3>1. \E j \in DOMAIN blocks : blocks[j] = b
      BY <1>2 DEF ToSet
    <3>2. i \in DOMAIN blocks /\ blocks[i] = b
      BY <3>1
    <3>3. blocks' = RemoveAt(blocks, i)
      BY <2>1 DEF Unlinked
    <3>4. DOMAIN blocks = 1 .. Len(blocks)
      BY <1>8
    <3>. HIDE DEF i
    <3>. QED
      BY <1>8, <3>2, <3>3, <3>4, UnlinkedList
  <2>4. ListsOK'
    <3>1. /\ free' \in [ToSet(blocks') -> Seq(Int)]
          /\ usedCount' \in [ToSet(blocks') -> Nat]
          /\ \A c \in ToSet(blocks') : IsInjective(free'[c])
      BY <1>8, <2>1, <2>3
    <3>. QED
      BY <1>6, <2>3, <3>1 DEF ListsOK
  <2>5. BlocksServeTheirSlots'
    <3>1. \A a \in DOMAIN live' : BlockOf(a) \in ToSet(blocks')
      BY <1>2, <1>6, <2>2, <2>3 DEF Mine
    <3>2. ASSUME NEW c \in ToSet(blocks')
          PROVE  /\ mem'[c] = c
                 /\ Mine(c)' \cap ToSet(free'[c]) = {}
                 /\ Mine(c)' \cup ToSet(free'[c]) = c + 1 .. c + BlockSize - 1
                 /\ usedCount'[c] = Cardinality(Mine(c)') /\ Mine(c)' # {}
      <4>1. c \in ToSet(blocks) /\ c # b
        BY <2>3
      <4>2. /\ mem'[c] = mem[c] /\ Mine(c)' = Mine(c)
            /\ free'[c] = free[c] /\ usedCount'[c] = usedCount[c]
        BY <1>6, <1>8, <2>1, <4>1
      <4>. QED
        BY <4>1, <4>2, SlotsOfBlock
    <3>. QED
      BY <3>1, <3>2 DEF BlocksServeTheirSlots, Mine
  <2>6. MemoryOK'
    <3>1. ASSUME NEW a \in Granules PROVE mem[a] = b <=> a = b
      BY <1>2, <1>3 DEF IInv, MemoryOK
    <3>2. mem' = [a \in Granules |-> IF mem[a] = b THEN Free ELSE mem[a]]
      BY <1>8, <2>1, <3>1
    <3>3. b # CodeBase /\ ToSet(blocks)' \subseteq ToSet(blocks)
      BY <1>2, <1>8, <2>3
    <3>. QED
      BY <1>8, <3>2, <3>3, MemoryFreed DEF IInv
  <2>. QED
    BY <1>1, <1>7, <2>4, <2>5, <2>6 DEF IInv
<1>10. CASE CountAfterFree(b) # 0
  <2>1. /\ free' = [free EXCEPT ![b] = <<s>> \o free[b]]
        /\ usedCount' = [usedCount EXCEPT ![b] = usedCount[b] - 1]
        /\ UNCHANGED <<mem, blocks>>
    BY <1>2, <1>10 DEF FreeBuffer, CountAfterFree, b
  <2>2. /\ <<s>> \o free[b] \in Seq(Int) /\ IsInjective(<<s>> \o free[b])
        /\ ToSet(<<s>> \o free[b]) = ToSet(free[b]) \cup {s}
    BY <1>3, <1>4, PushedList
  <2>3. usedCount[b] - 1 \in Nat /\ usedCount[b] - 1 # 0 /\ Mine(b) \ {s} # {}
    <3>1. usedCount[b] - 1 \in Nat
      BY <1>5, FS_CardinalityType
    <3>2. usedCount[b] - 1 # 0
      BY <1>10 DEF CountAfterFree
    <3>. QED
      BY <1>5, <3>1, <3>2, FS_EmptySet
  <2>4. ListsOK'
    <3>1. /\ free' \in [ToSet(blocks) -> Seq(Int)]
          /\ usedCount' \in [ToSet(blocks) -> Nat]
          /\ \A c \in ToSet(blocks) : IsInjective(free'[c])
      BY <1>8, <2>1, <2>2, <2>3
    <3>. QED
      BY <1>6, <1>8, <2>1, <3>1 DEF ListsOK
  <2>5. BlocksServeTheirSlots'
    <3>1. \A a \in DOMAIN live' : BlockOf(a) \in ToSet(blocks)
      BY <1>2, <1>6
    <3>2. ASSUME NEW c \in ToSet(blocks)
          PROVE  /\ mem[c] = c
                 /\ Mine(c)' \cap ToSet(free'[c]) = {}
                 /\ Mine(c)' \cup ToSet(free'[c]) = c + 1 .. c + BlockSize - 1
                 /\ usedCount'[c] = Cardinality(Mine(c)') /\ Mine(c)' # {}
      <4>1. CASE c = b
        <5>1. /\ Mine(c)' = Mine(b) \ {s} /\ free'[c] = <<s>> \o free[b]
              /\ usedCount'[c] = usedCount[b] - 1
          BY <1>2, <1>6, <1>8, <2>1, <4>1
        <5>. QED
          BY <1>3, <1>4, <1>5, <2>2, <2>3, <4>1, <5>1
      <4>2. CASE c # b
        <5>1. /\ Mine(c)' = Mine(c) /\ free'[c] = free[c] /\ usedCount'[c] = usedCount[c]
          BY <1>6, <1>8, <2>1, <4>2
        <5>. QED
          BY <5>1, SlotsOfBlock
      <4>. QED
        BY <4>1, <4>2
    <3>. QED
      BY <2>1, <3>1, <3>2 DEF BlocksServeTheirSlots, Mine
  <2>6. MemoryOK'
    BY <2>1 DEF IInv, MemoryOK
  <2>. QED
    BY <1>1, <1>7, <2>4, <2>5, <2>6 DEF IInv
<1>. QED
  BY <1>1, <1>9, <1>10

(* What others do leaves our lists, slots and search alone.                  *)
LEMMA OthersLeaveOurs ==
  ASSUME IInv, MemoryOK', UNCHANGED <<lists, search>>, seenTaken \subseteq seenTaken',
         \A b \in ToSet(blocks) : mem'[b] = mem[b],
         search # Idle => \A a \in Granules : mem'[a] # Free => a \in seenTaken'
  PROVE  IInv' /\ UNCHANGED search
<1>1. ListsOK' /\ SearchOK' /\ SlotsAreNear'
  BY DEF IInv, ListsOK, SearchOK, SlotsAreNear, Downwards, Upwards, lists
<1>2. BlocksServeTheirSlots'
  BY DEF IInv, BlocksServeTheirSlots, lists
<1>3. SeenOK'
  BY DEF IInv, SeenOK, Downwards, Upwards
<1>. QED
  BY <1>1, <1>2, <1>3 DEF IInv

LEMMA OtherAllocatesPreserves ==
  ASSUME IInv, NEW run \in Runs, OtherAllocates(run)
  PROVE  IInv' /\ UNCHANGED search
<1>1. PICK i \in Granules, n \in 1 .. 2 : run = RunOf(i, n)
  BY DEF Runs
<1>2. /\ Granularity \in Nat \ {0} /\ Granules \subseteq Int /\ Free \notin Granules
      /\ CodeBase # Free
  BY BuffersAssumption DEF Granules, Free
<1>3. /\ i \in run /\ run \subseteq Granules
      /\ \A a \in run : i <= a /\ \A x \in Granules : i <= x /\ x <= a => x \in run
  BY <1>1, <1>2 DEF RunOf
<1>4. Min(run) = i
  <2>1. Min(run) \in run /\ \A y \in run : Min(run) <= y
    BY <1>3 DEF Min
  <2>2. \A m \in Int : m <= i /\ i <= m => m = i
    BY <1>2
  <2>3. Min(run) \in Int /\ Min(run) <= i /\ i <= Min(run)
    BY <1>2, <1>3, <2>1
  <2>. QED
    BY <2>2, <2>3, Zenon
<1>5. /\ \A a \in run : mem[a] = Free
      /\ mem' = [a \in Granules |-> IF a \in run THEN i ELSE mem[a]]
      /\ seenTaken' = IF search = Idle THEN seenTaken ELSE seenTaken \cup run
      /\ UNCHANGED <<lists, search>>
  BY <1>4 DEF OtherAllocates
<1>6. /\ mem \in [Granules -> Granules \cup {Free}]
      /\ \A a \in Granules : mem[a] # Free =>
           /\ mem[a] <= a
           /\ \A x \in Granules : mem[a] <= x /\ x <= a => mem[x] = mem[a]
      /\ \A a \in Granules : mem[a] \in ToSet(blocks) => a = mem[a]
      /\ \A a \in Granules : CodeBase <= a /\ a < CodeEnd => mem[a] = CodeBase
      /\ CodeBase \notin ToSet(blocks)
      /\ \A b \in ToSet(blocks) : b \in Granules /\ mem[b] = b
  BY SlotsOfBlock DEF IInv, MemoryOK
<1>7. \A a \in Granules : mem'[a] = IF a \in run THEN i ELSE mem[a]
  BY <1>5
<1>8. MemoryOK'
  <2>1. mem' \in [Granules -> Granules \cup {Free}]
    BY <1>5, <1>6
  <2>2. ASSUME NEW a \in Granules, mem'[a] # Free
        PROVE  /\ mem'[a] <= a
               /\ \A x \in Granules : mem'[a] <= x /\ x <= a => mem'[x] = mem'[a]
    <3>1. CASE a \in run
      <4>1. mem'[a] = i
        BY <1>7, <3>1
      <4>. QED
        BY <1>3, <1>7, <3>1, <4>1
    <3>2. CASE a \notin run
      <4>1. /\ mem'[a] = mem[a] /\ mem[a] # Free /\ mem[a] <= a
            /\ \A x \in Granules : mem[a] <= x /\ x <= a => mem[x] = mem[a]
        BY <1>6, <1>7, <2>2, <3>2
      <4>2. \A x \in Granules : mem[x] = mem[a] => x \notin run
        BY <1>5, <4>1
      <4>. QED
        BY <1>7, <4>1, <4>2
    <3>. QED
      BY <3>1, <3>2
  <2>3. \A a \in Granules : mem'[a] \in ToSet(blocks)' => a = mem'[a]
    <3>1. i \notin ToSet(blocks)
      BY <1>2, <1>3, <1>5, <1>6
    <3>. QED
      BY <1>5, <1>6, <1>7, <3>1 DEF lists
  <2>4. \A a \in Granules : CodeBase <= a /\ a < CodeEnd => mem'[a] = CodeBase
    BY <1>2, <1>5, <1>6, <1>7
  <2>. QED
    BY <1>5, <1>6, <2>1, <2>2, <2>3, <2>4 DEF MemoryOK, lists
<1>9. \A b \in ToSet(blocks) : mem'[b] = mem[b]
  BY <1>2, <1>5, <1>6, <1>7
<1>10. search # Idle => \A a \in Granules : mem'[a] # Free => a \in seenTaken'
  BY <1>5, <1>7 DEF IInv, SeenOK
<1>. QED
  BY <1>5, <1>8, <1>9, <1>10, OthersLeaveOurs

LEMMA OtherFreesPreserves ==
  ASSUME IInv, NEW base \in Granules, OtherFrees(base)
  PROVE  IInv' /\ UNCHANGED search
<1>1. /\ base \notin ToSet(blocks) /\ base # CodeBase
      /\ mem' = [a \in Granules |-> IF mem[a] = base THEN Free ELSE mem[a]]
      /\ UNCHANGED <<lists, search, seenTaken>>
  BY DEF OtherFrees
<1>2. ToSet(blocks)' \subseteq ToSet(blocks) /\ ToSet(blocks) \subseteq Granules
  BY <1>1, SlotsOfBlock DEF lists
<1>3. MemoryOK'
  BY <1>1, <1>2, MemoryFreed DEF IInv
<1>4. \A b \in ToSet(blocks) : mem'[b] = mem[b]
  BY <1>1, <1>2, SlotsOfBlock
<1>5. search # Idle => \A a \in Granules : mem'[a] # Free => a \in seenTaken'
  BY <1>1 DEF IInv, SeenOK
<1>. QED
  BY <1>1, <1>3, <1>4, <1>5, OthersLeaveOurs

-----------------------------------------------------------------------------
(* Every step keeps the invariant, and gives up only when all was seen taken. *)
LEMMA StepPreserves ==
  ASSUME IInv, [Next]_vars
  PROVE  IInv' /\ (search # Idle /\ search' = Idle /\ UNCHANGED live => AllSeen)
<1>1. ASSUME NEW o \in Origins, AllocateBuffer(o)
      PROVE  IInv' /\ (search' = Idle => live' # live \/ search = Idle)
  BY <1>1, AllocatePreserves
<1>2. ASSUME FindPrevFreeRegion PROVE IInv' /\ search' # Idle
  BY <1>2, PrevPreserves
<1>3. ASSUME FindNextFreeRegion PROVE IInv' /\ (search' = Idle => AllSeen)
  BY <1>3, NextPreserves
<1>4. ASSUME VirtualAlloc PROVE IInv' /\ (search' = Idle => live' # live)
  BY <1>4, VirtualAllocPreserves
<1>5. ASSUME NEW s \in DOMAIN live, FreeBuffer(s) PROVE IInv' /\ search = Idle
  BY <1>5, FreePreserves
<1>6. ASSUME Other PROVE IInv' /\ UNCHANGED search
  BY <1>6, OtherAllocatesPreserves, OtherFreesPreserves DEF Other
<1>7. ASSUME UNCHANGED vars PROVE IInv' /\ UNCHANGED search
  BY <1>7 DEF vars, IInv, ListsOK, BlocksServeTheirSlots, MemoryOK, SearchOK, SeenOK,
              SlotsAreNear, Downwards, Upwards
<1>. QED
  BY <1>1, <1>2, <1>3, <1>4, <1>5, <1>6, <1>7 DEF Next, Search

LEMMA IInvHolds == Spec => []IInv
<1>1. Init => IInv
  BY InitEstablishes
<1>2. IInv /\ [Next]_vars => IInv'
  BY StepPreserves
<1>. QED
  BY <1>1, <1>2, PTL DEF Spec

(* Each slot of a block is on its free list or somebody's, never both, and   *)
(* the block's memory is kept exactly while a slot of it is in use           *)
(* (buffer.c: AllocateBuffer, GetMemoryBlock, FreeBuffer).                   *)
THEOREM BlocksStayConsistent == Spec => []BlocksConsistent
<1>1. IInv => BlocksConsistent
  BY InvariantSuffices
<1>. QED
  BY <1>1, IInvHolds, PTL

(* Every slot handed out is within a displacement of its function, be its    *)
(* block new or one taken earlier for another (buffer.c: GetMemoryBlock).    *)
THEOREM SlotsStayNear == Spec => []SlotsAreNear
<1>1. IInv => SlotsAreNear
  BY InvariantSuffices
<1>. QED
  BY <1>1, IInvHolds, PTL

(* AllocateBuffer answers NULL only if every granule in range was taken at   *)
(* some moment of the search, whatever the game's threads allocate and free  *)
(* meanwhile (buffer.c: FindPrevFreeRegion, FindNextFreeRegion).             *)
THEOREM GivesUpRightly == Spec => GivesUpOnlyWhenFull
<1>1. IInv /\ [Next]_vars =>
        [(search # Idle /\ search' = Idle /\ UNCHANGED live) =>
           \A a \in Granules :
             MinAddr(search.origin) <= a /\ a <= MaxAddr(search.origin)
               => a \in seenTaken]_vars
  BY StepPreserves DEF AllSeen
<1>. QED
  BY <1>1, IInvHolds, PTL DEF Spec, GivesUpOnlyWhenFull

-----------------------------------------------------------------------------
(* Trampoline: what is where in it, and what stands there. *)
Src(n) == tramp[n].src
IsJump(i) == i.kind \in {"jmp", "jcc", "loop"}
Instruction == [kind : {"plain", "call", "jmp", "jcc", "loop", "ret"}, len : 1 .. 15, dest : Int]

(* What is written stays in the slot. *)
SlotOK ==
  /\ body \in Bodies
  /\ phase \in {"build", "refused", "built", "freeze", "writing", "enabled", "failed", "removed"}
  /\ oldPos \in Nat /\ jmpDest \in {-1} \cup DOMAIN body /\ newPos \in 0 .. MaxSize
  /\ \A n \in DOMAIN tramp : n \in Nat /\ n < newPos
  /\ IsFiniteSet(DOMAIN tramp) /\ Cardinality(DOMAIN tramp) <= MaxIPs

(* What has been relocated so far: all instructions before oldPos, one after *)
(* the other; between those with nothing longer in between, distances are    *)
(* kept; and so it is between a forward jump and what it jumps over.         *)
Unaltered(from, to) == \A k \in DOMAIN body : from <= k /\ k < to => ~Lengthened(body[k])

ItemOK(n) ==
  LET i == body[Src(n)]
      next == n + tramp[n].size
      after == Src(n) + i.len
  IN  /\ Src(n) \in DOMAIN body /\ Src(n) < oldPos /\ tramp[n].size = SizeOf(i)
      /\ \/ next = newPos /\ after = oldPos
         \/ next \in DOMAIN tramp /\ Src(next) = after
      /\ Unaltered(Src(n), oldPos) => newPos - oldPos = n - Src(n)
      /\ i.kind = "loop" => Internal(i)
      /\ IsJump(i) /\ Internal(i) =>
           /\ i.dest <= jmpDest
           /\ \A k \in DOMAIN body :
                Src(n) <= k /\ k < oldPos /\ k < i.dest => ~Lengthened(body[k])

ItemsOK ==
  /\ \A n \in DOMAIN tramp : ItemOK(n)
  /\ \A n, m \in DOMAIN tramp :
       Src(n) <= Src(m) /\ Unaltered(Src(n), Src(m)) => m - Src(m) = n - Src(n)
  /\ \A k \in DOMAIN body : k < oldPos => \E n \in DOMAIN tramp : Src(n) = k
  /\ IF oldPos = 0 THEN newPos = 0 ELSE 0 \in DOMAIN tramp /\ Src(0) = 0

(* A trampoline that is complete: each instruction leads where the one it    *)
(* was made from does.                                                       *)
LeadsRight(n) ==
  LET i == body[Src(n)]
  IN  /\ Src(n) \in DOMAIN body
      /\ i.kind \notin {"ret", "jmp"} =>
           n + tramp[n].size \in DOMAIN tramp /\ Src(n + tramp[n].size) = Src(n) + i.len
      /\ IsJump(i) /\ Internal(i) =>
           n - Src(n) + i.dest \in DOMAIN tramp /\ Src(n - Src(n) + i.dest) = i.dest
      /\ i.kind = "loop" => Internal(i)

TrampOK ==
  /\ 0 \in DOMAIN tramp /\ Src(0) = 0
  /\ \A n \in DOMAIN tramp : (Src(n) \in Nat /\ Src(n) >= JmpRel) \/ LeadsRight(n)

RelocationOK ==
  /\ phase = "build" => ItemsOK /\ (oldPos \in DOMAIN body \/ oldPos >= JmpRel)
  /\ phase \notin {"build", "refused"} => TrampOK

(* Instructions that a thread that enters can come to. *)
Reachable(n) ==
  /\ n \in DOMAIN body
  /\ \A S \in SUBSET DOMAIN body :
       0 \in S /\ (\A m \in S : Flow!Succ(m) \cap DOMAIN body \subseteq S) => n \in S

(* Where threads are.  Nobody is in the trampoline before it is complete,    *)
(* nor in the first bytes while the jump is being written over them.         *)
Passed(l) == l.area = "target" => l.pos >= JmpRel
PlaceOK(l) ==
  \/ l = Out
  \/ l = Target(l.pos) /\ l.pos \in Nat /\ (l.pos >= JmpRel \/ Reachable(l.pos))
  \/ l = Tramp(l.pos) /\ l.pos \in DOMAIN tramp /\ phase \notin {"build", "refused", "built"}

ThreadsOK ==
  /\ suspended \subseteq Threads /\ todo \subseteq Threads
  /\ loc \in [Threads -> [area : {"out", "target", "tramp", "lost"}, pos : Int]]
  /\ phase # "removed" => \A t \in Threads : PlaceOK(loc[t])
  /\ written = CASE phase = "writing" -> {"opcode"}
                 [] phase = "enabled" -> {"opcode", "operand"}
                 [] OTHER -> {}
  /\ phase \in {"build", "refused", "built"} => suspended = {}
  /\ phase = "freeze" => suspended \cup todo = Threads /\ \A t \in suspended : Passed(loc[t])
  /\ phase = "writing" => suspended = Threads /\ \A t \in Threads : Passed(loc[t])
  /\ phase = "enabled" => \A t \in Threads : loc[t] = Target(0) \/ Passed(loc[t])

HookInv == SlotOK /\ RelocationOK /\ ThreadsOK

-----------------------------------------------------------------------------
(* A function's first instructions. *)
LEMMA BodyIs ==
  ASSUME body \in Bodies
  PROVE  /\ 0 \in DOMAIN body /\ DOMAIN body \subseteq 0 .. JmpRel - 1
         /\ \A n \in DOMAIN body :
              /\ body[n] \in Instruction /\ body[n].dest \in {Outside} \cup DOMAIN body
              /\ body[n].len \in 1 .. 15 /\ body[n].dest \in -1 .. JmpRel - 1
              /\ Internal(body[n]) <=> body[n].dest \in DOMAIN body
              /\ \A k \in DOMAIN body : n < k => n + body[n].len <= k
              /\ \/ n + body[n].len \in DOMAIN body \/ n + body[n].len >= JmpRel
                 \/ /\ body[n].kind = "ret" \/ (body[n].kind = "jmp" /\ body[n].dest = Outside)
                    /\ \A k \in DOMAIN body : k <= n
<1>1. 0 \in DOMAIN body /\ DOMAIN body \subseteq 0 .. JmpRel - 1
  BY TrampolineAssumption
<1>2. ASSUME NEW n \in DOMAIN body
      PROVE  /\ body[n] \in [kind : {"plain", "call", "jmp", "jcc", "loop", "ret"}, len : 1 .. 15,
                             dest : {Outside} \cup DOMAIN body]
             /\ \A k \in DOMAIN body : n < k => n + body[n].len <= k
             /\ \/ n + body[n].len \in DOMAIN body \/ n + body[n].len >= JmpRel
                \/ /\ body[n].kind = "ret" \/ (body[n].kind = "jmp" /\ body[n].dest = Outside)
                   /\ \A k \in DOMAIN body : k <= n
  BY TrampolineAssumption
<1>3. ASSUME NEW n \in DOMAIN body
      PROVE  /\ body[n] \in Instruction /\ body[n].dest \in {Outside} \cup DOMAIN body
             /\ body[n].len \in 1 .. 15 /\ body[n].dest \in -1 .. JmpRel - 1
             /\ Internal(body[n]) <=> body[n].dest \in DOMAIN body
  <2>1. body[n].dest \in {Outside} \cup DOMAIN body /\ body[n].len \in 1 .. 15
    BY <1>2
  <2>2. body[n].dest \in -1 .. JmpRel - 1
    BY <1>1, <2>1 DEF Outside, JmpRel
  <2>3. Internal(body[n]) <=> body[n].dest \in DOMAIN body
    BY <1>1, <2>1, <2>2 DEF Internal, Outside, JmpRel
  <2>4. body[n] \in Instruction
    BY <1>2, <2>2 DEF Instruction
  <2>. QED
    BY <2>1, <2>2, <2>3, <2>4
<1>. QED
  BY <1>1, <1>2, <1>3

LEMMA SizeIs == \A i \in Instruction : SizeOf(i) \in Nat \ {0}
  BY DEF Instruction, SizeOf, CallAbs, JmpAbs, JccAbs

(* One more item at the end of the trampoline. *)
LEMMA Emitting ==
  ASSUME SlotOK, NEW item, NEW size \in Nat \ {0}, Emit(item, size), ~TooLarge(size)
  PROVE  /\ DOMAIN tramp' = DOMAIN tramp \cup {newPos} /\ newPos \notin DOMAIN tramp
         /\ tramp'[newPos] = item /\ \A n \in DOMAIN tramp : tramp'[n] = tramp[n]
         /\ newPos' = newPos + size /\ newPos' \in 0 .. MaxSize /\ newPos \in Nat
         /\ \A n \in DOMAIN tramp' : n \in Nat /\ n < newPos'
         /\ IsFiniteSet(DOMAIN tramp') /\ Cardinality(DOMAIN tramp') <= MaxIPs
<1>1. /\ tramp' = [n \in DOMAIN tramp \cup {newPos} |-> IF n = newPos THEN item ELSE tramp[n]]
      /\ newPos' = newPos + size
  BY DEF Emit
<1>2. newPos \in Nat /\ newPos \notin DOMAIN tramp
  BY DEF SlotOK, MaxSize
<1>3. /\ DOMAIN tramp' = DOMAIN tramp \cup {newPos}
      /\ tramp'[newPos] = item /\ \A n \in DOMAIN tramp : tramp'[n] = tramp[n]
  BY <1>1, <1>2
<1>4. newPos + size <= MaxSize /\ ~(Cardinality(DOMAIN tramp) >= MaxIPs)
  BY <1>2 DEF TooLarge, MaxSize
<1>5. newPos' \in 0 .. MaxSize /\ \A n \in DOMAIN tramp' : n \in Nat /\ n < newPos'
  BY <1>1, <1>2, <1>3, <1>4 DEF SlotOK, MaxSize
<1>6. /\ IsFiniteSet(DOMAIN tramp') /\ Cardinality(DOMAIN tramp') = Cardinality(DOMAIN tramp) + 1
      /\ Cardinality(DOMAIN tramp) \in Nat
  <2>1. IsFiniteSet(DOMAIN tramp)
    BY DEF SlotOK
  <2>2. /\ IsFiniteSet(DOMAIN tramp \cup {newPos})
        /\ Cardinality(DOMAIN tramp \cup {newPos}) = Cardinality(DOMAIN tramp) + 1
    BY <1>2, <2>1, FS_AddElement
  <2>3. Cardinality(DOMAIN tramp) \in Nat
    BY <2>1, FS_CardinalityType
  <2>. QED
    BY <1>3, <2>2, <2>3
<1>7. Cardinality(DOMAIN tramp') <= MaxIPs
  BY <1>4, <1>6 DEF MaxIPs
<1>. QED
  BY <1>1, <1>2, <1>3, <1>5, <1>6, <1>7

(* Relocating the next instruction, when it is not refused.                  *)
Relocates(i) ==
  /\ i = body[oldPos] /\ oldPos \in DOMAIN body
  /\ ~(i.kind = "loop" /\ ~Internal(i)) /\ ~AltersBranch(i) /\ ~TooLarge(SizeOf(i))
  /\ Emit([src |-> oldPos, size |-> SizeOf(i)], SizeOf(i))
  /\ jmpDest' = FarthestJump(i) /\ oldPos' = oldPos + i.len
  /\ UNCHANGED body

LEMMA ItemsFollow ==
  ASSUME SlotOK, ItemsOK, NEW i, Relocates(i), NEW o, o = oldPos, NEW w, w = newPos
  PROVE  /\ ItemsOK' /\ oldPos' \in Nat
         /\ jmpDest' \in {-1} \cup DOMAIN body /\ jmpDest' \in Int /\ jmpDest <= jmpDest'
         /\ oldPos < oldPos' /\ \A k \in DOMAIN body : k < oldPos' => k <= oldPos
<1>. DEFINE z == SizeOf(i)
<1>1. /\ i \in Instruction /\ i.len \in 1 .. 15 /\ i.dest \in -1 .. JmpRel - 1 /\ i = body[o]
      /\ Internal(i) <=> i.dest \in DOMAIN body
      /\ o \in DOMAIN body /\ DOMAIN body \subseteq Nat /\ o \in Nat
      /\ \A k \in DOMAIN body : o < k => o + i.len <= k
  <2>1. body \in Bodies
    BY DEF SlotOK
  <2>. QED
    BY <2>1, BodyIs DEF Relocates, JmpRel
<1>2. z \in Nat \ {0}
  BY <1>1, SizeIs
<1>3. /\ DOMAIN tramp' = DOMAIN tramp \cup {w} /\ w \notin DOMAIN tramp
      /\ tramp'[w] = [src |-> o, size |-> z] /\ \A n \in DOMAIN tramp : tramp'[n] = tramp[n]
      /\ newPos' = w + z /\ w \in Nat
  BY <1>2, Emitting DEF Relocates
<1>4. /\ jmpDest' \in {-1} \cup DOMAIN body /\ jmpDest <= jmpDest' /\ jmpDest' \in Int
      /\ IsJump(i) /\ Internal(i) => i.dest <= jmpDest'
  <2>1. jmpDest \in {-1} \cup DOMAIN body /\ jmpDest \in Int /\ i.dest \in Int
    BY <1>1 DEF SlotOK, JmpRel
  <2>. QED
    BY <1>1, <2>1 DEF Relocates, FarthestJump, IsJump
<1>5. o < jmpDest' => ~Lengthened(i)
  BY DEF Relocates, AltersBranch, Lengthened
<1>6. oldPos' = o + i.len /\ body' = body /\ oldPos' \in Nat /\ o < oldPos'
  BY <1>1 DEF Relocates
<1>7. \A k \in DOMAIN body : k < oldPos' => k <= o
  BY <1>1, <1>6
<1>8. /\ \A n \in DOMAIN tramp : Src(n)' = Src(n) /\ tramp'[n].size = tramp[n].size
      /\ tramp'[w].src = o /\ tramp'[w].size = z
  BY <1>3 DEF Src
<1>9. jmpDest \in Int /\ \A n \in DOMAIN tramp : n \in Nat /\ n < w
  BY <1>1 DEF SlotOK
<1>. HIDE DEF z
(* An item that was there. *)
<1>10. ASSUME NEW n \in DOMAIN tramp PROVE ItemOK(n)'
  <2>. DEFINE s == Src(n)
              j == body[s]
  <2>1. ItemOK(n)
    BY DEF ItemsOK
  <2>2. s \in DOMAIN body /\ s \in Nat /\ s < o /\ tramp[n].size = SizeOf(j) /\ Src(n)' = s
    BY <1>1, <1>8, <2>1 DEF ItemOK
  <2>3. \/ n + tramp[n].size = w /\ s + j.len = o
        \/ n + tramp[n].size \in DOMAIN tramp /\ Src(n + tramp[n].size) = s + j.len
    BY <2>1 DEF ItemOK
  <2>4. n + tramp[n].size \in DOMAIN tramp' /\ Src(n + tramp[n].size)' = s + j.len
    <3>1. CASE n + tramp[n].size = w /\ s + j.len = o
      BY <1>3, <1>8, <3>1 DEF Src
    <3>2. CASE n + tramp[n].size \in DOMAIN tramp /\ Src(n + tramp[n].size) = s + j.len
      BY <1>3, <3>2 DEF Src
    <3>. QED
      BY <2>3, <3>1, <3>2
  <2>5. Unaltered(s, oldPos') => newPos' - oldPos' = n - s
    <3>. SUFFICES ASSUME Unaltered(s, oldPos') PROVE newPos' - oldPos' = n - s
      OBVIOUS
    <3>1. Unaltered(s, o)
      BY <1>1, <1>6, <2>2 DEF Unaltered
    <3>2. ~Lengthened(i)
      BY <1>1, <1>6, <2>2 DEF Unaltered
    <3>3. w - o = n - s
      BY <2>1, <3>1 DEF ItemOK
    <3>4. z = i.len
      BY <3>2 DEF Lengthened, z
    <3>. QED
      BY <1>1, <1>3, <1>6, <1>9, <2>2, <3>3, <3>4
  <2>6. j.kind = "loop" => Internal(j)
    BY <2>1 DEF ItemOK
  <2>7. ASSUME IsJump(j), Internal(j)
        PROVE  /\ j.dest <= jmpDest'
               /\ \A k \in DOMAIN body : s <= k /\ k < oldPos' /\ k < j.dest => ~Lengthened(body[k])
    <3>1. /\ j.dest <= jmpDest
          /\ \A k \in DOMAIN body : s <= k /\ k < o /\ k < j.dest => ~Lengthened(body[k])
      BY <2>1, <2>7 DEF ItemOK
    <3>2. j.dest \in Int
      BY <2>2, BodyIs DEF SlotOK, JmpRel
    <3>3. j.dest <= jmpDest'
      BY <1>4, <1>9, <3>1, <3>2 DEF JmpRel
    <3>4. ASSUME NEW k \in DOMAIN body, s <= k, k < oldPos', k < j.dest PROVE ~Lengthened(body[k])
      <4>1. k \in Nat /\ k <= o
        BY <1>1, <1>7, <3>4
      <4>2. CASE k = o
        <5>1. o < jmpDest'
          BY <1>4, <3>2, <3>3, <3>4, <4>1, <4>2 DEF JmpRel
        <5>. QED
          BY <1>1, <1>5, <4>2, <5>1
      <4>3. CASE k # o
        BY <1>1, <3>1, <3>4, <4>1, <4>3
      <4>. QED
        BY <4>2, <4>3
    <3>. QED
      BY <3>3, <3>4
  <2>8. s < oldPos'
    BY <1>1, <1>6, <2>2
  <2>10. tramp'[n].size = SizeOf(j)
    BY <1>8, <2>2
  <2>. HIDE DEF s
  <2>. QED
    BY <1>6, <1>8, <2>2, <2>4, <2>5, <2>6, <2>7, <2>8, <2>10 DEF ItemOK, Unaltered
(* The new one. *)
<1>11. ItemOK(w)'
  <2>1. Src(w)' = o /\ tramp'[w].size = z
    BY <1>8 DEF Src
  <2>2. w + z = newPos' /\ o + i.len = oldPos'
    BY <1>3, <1>6
  <2>3. Unaltered(o, oldPos') => newPos' - oldPos' = w - o
    <3>. SUFFICES ASSUME Unaltered(o, oldPos') PROVE newPos' - oldPos' = w - o
      OBVIOUS
    <3>1. z = i.len
      BY <1>1, <1>6 DEF Unaltered, Lengthened, z
    <3>. QED
      BY <1>1, <1>3, <1>6, <3>1
  <2>4. i.kind = "loop" => Internal(i)
    BY DEF Relocates
  <2>5. ASSUME IsJump(i), Internal(i)
        PROVE  /\ i.dest <= jmpDest'
               /\ \A k \in DOMAIN body : o <= k /\ k < oldPos' /\ k < i.dest => ~Lengthened(body[k])
    <3>1. ASSUME NEW k \in DOMAIN body, o <= k, k < oldPos', k < i.dest PROVE ~Lengthened(body[k])
      <4>1. k = o
        BY <1>1, <1>7, <3>1
      <4>2. o < jmpDest'
        BY <1>1, <1>4, <2>5, <3>1, <4>1 DEF JmpRel
      <4>. QED
        BY <1>1, <1>5, <4>1, <4>2
    <3>. QED
      BY <1>4, <2>5, <3>1
  <2>. QED
    BY <1>1, <1>6, <2>1, <2>2, <2>3, <2>4, <2>5 DEF ItemOK, Unaltered, z
<1>12. ASSUME NEW n \in DOMAIN tramp', NEW m \in DOMAIN tramp', Src(n)' <= Src(m)',
              Unaltered(Src(n)', Src(m)')
       PROVE  m - Src(m)' = n - Src(n)'
  <2>1. \A x \in DOMAIN tramp : Src(x) \in Nat /\ Src(x) < o
    BY <1>1 DEF ItemsOK, ItemOK
  <2>2. CASE n \in DOMAIN tramp /\ m \in DOMAIN tramp
    <3>1. Src(n)' = Src(n) /\ Src(m)' = Src(m)
      BY <1>8, <2>2
    <3>. QED
      BY <1>12, <2>2, <3>1 DEF ItemsOK
  <2>3. CASE n \in DOMAIN tramp /\ m = w
    <3>1. Src(n)' = Src(n) /\ Src(m)' = o
      BY <1>8, <2>3 DEF Src
    <3>2. newPos - oldPos = n - Src(n)
      BY <1>12, <2>3, <3>1 DEF ItemsOK, ItemOK
    <3>. QED
      BY <2>3, <3>1, <3>2
  <2>4. CASE n = w /\ m \in DOMAIN tramp
    <3>1. Src(n)' = o /\ Src(m)' = Src(m)
      BY <1>8, <2>4 DEF Src
    <3>. QED
      BY <1>1, <1>12, <2>1, <2>4, <3>1
  <2>5. CASE n = w /\ m = w
    BY <2>5
  <2>. QED
    BY <1>3, <2>2, <2>3, <2>4, <2>5
<1>13. ASSUME NEW k \in DOMAIN body, k < oldPos' PROVE \E n \in DOMAIN tramp' : Src(n)' = k
  <2>1. k <= o /\ k \in Nat
    BY <1>1, <1>7, <1>13
  <2>2. CASE k = o
    BY <1>3, <1>8, <2>2 DEF Src
  <2>3. CASE k # o
    <3>1. PICK n \in DOMAIN tramp : Src(n) = k
      BY <1>1, <2>1, <2>3 DEF ItemsOK
    <3>. QED
      BY <1>3, <1>8, <3>1
  <2>. QED
    BY <2>2, <2>3
<1>14. 0 \in DOMAIN tramp' /\ Src(0)' = 0
  <2>1. CASE o = 0
    BY <1>3, <1>8, <2>1 DEF ItemsOK, Src
  <2>2. CASE o # 0
    <3>1. 0 \in DOMAIN tramp /\ Src(0) = 0
      BY <2>2 DEF ItemsOK
    <3>. QED
      BY <1>3, <1>8, <3>1
  <2>. QED
    BY <2>1, <2>2
<1>15. ItemsOK'
  <2>1. \A n \in DOMAIN tramp' : ItemOK(n)'
    BY <1>3, <1>10, <1>11
  <2>2. oldPos' # 0
    BY <1>1, <1>6
  <2>. QED
    BY <1>6, <1>12, <1>13, <1>14, <2>1, <2>2 DEF ItemsOK, Unaltered
<1>. QED
  BY <1>4, <1>6, <1>7, <1>15

(* When all that is jumped to has been relocated, each jump's copy leads to  *)
(* the copy of what it leads to.                                             *)
JumpsArrive ==
  \A n \in DOMAIN tramp :
    LET i == body[Src(n)]
    IN  IsJump(i) /\ Internal(i) =>
          n - Src(n) + i.dest \in DOMAIN tramp /\ Src(n - Src(n) + i.dest) = i.dest

LEMMA CopiesArrive ==
  SlotOK /\ ItemsOK /\ ~JumpsBackOver(body) /\ (\A k \in DOMAIN body : k <= jmpDest => k < oldPos)
    => JumpsArrive
<1>. SUFFICES ASSUME SlotOK, ItemsOK, ~JumpsBackOver(body),
                     \A k \in DOMAIN body : k <= jmpDest => k < oldPos,
                     NEW n \in DOMAIN tramp, IsJump(body[Src(n)]), Internal(body[Src(n)])
              PROVE  LET d == body[Src(n)].dest
                     IN  n - Src(n) + d \in DOMAIN tramp /\ Src(n - Src(n) + d) = d
  BY DEF JumpsArrive
<1>. DEFINE s == Src(n)
            d == body[s].dest
<1>1. /\ s \in DOMAIN body /\ s < oldPos /\ d <= jmpDest
      /\ \A k \in DOMAIN body : s <= k /\ k < oldPos /\ k < d => ~Lengthened(body[k])
  BY DEF ItemsOK, ItemOK
<1>2. DOMAIN body \subseteq Nat /\ d \in DOMAIN body /\ n \in Nat
  BY <1>1, BodyIs DEF SlotOK, JmpRel
<1>3. d < oldPos
  BY <1>1, <1>2
<1>4. PICK m \in DOMAIN tramp : Src(m) = d
  BY <1>2, <1>3 DEF ItemsOK
<1>5. m \in Nat
  BY DEF SlotOK
<1>. HIDE DEF d, s
<1>6. m = n - s + d
  <2>1. CASE s <= d
    <3>1. Unaltered(s, d)
      <4>1. ASSUME NEW k \in DOMAIN body, s <= k, k < d PROVE ~Lengthened(body[k])
        <5>1. k < oldPos
          BY <1>2, <1>3, <4>1 DEF SlotOK
        <5>. QED
          BY <1>1, <4>1, <5>1
      <4>. QED
        BY <4>1 DEF Unaltered
    <3>2. m - d = n - s
      BY <1>4, <2>1, <3>1 DEF ItemsOK, s
    <3>. QED
      BY <1>1, <1>2, <1>5, <3>2
  <2>2. CASE d <= s
    <3>1. Unaltered(d, s)
      <4>1. ASSUME NEW k \in DOMAIN body, d <= k, k < s PROVE ~Lengthened(body[k])
        BY <1>1, <4>1 DEF JumpsBackOver, IsJump, s, d
      <4>. QED
        BY <4>1 DEF Unaltered
    <3>2. n - s = m - d
      BY <1>4, <2>2, <3>1 DEF ItemsOK, s
    <3>. QED
      BY <1>1, <1>2, <1>5, <3>2
  <2>. QED
    BY <1>1, <1>2, <2>1, <2>2
<1>. QED
  BY <1>4, <1>6 DEF s, d

LEMMA CopiesArriveNext ==
  (SlotOK /\ ItemsOK /\ ~JumpsBackOver(body) /\ (\A k \in DOMAIN body : k <= jmpDest => k < oldPos)
    => JumpsArrive)'
  BY CopiesArrive, PTL

(* The trampoline ends with an instruction that leaves.                      *)
LEMMA FinishedLeads ==
  ASSUME SlotOK, SlotOK', ItemsOK, ~JumpsBackOver(body), NEW i, Relocates(i), Finishes(i)
  PROVE  TrampOK'
<1>1. PICK o : o = oldPos
  OBVIOUS
<1>2. PICK w : w = newPos
  OBVIOUS
<1>3. /\ ItemsOK' /\ oldPos' \in Nat /\ o < oldPos' /\ jmpDest' \in Int
      /\ \A k \in DOMAIN body : k < oldPos' => k <= o
  BY <1>1, <1>2, ItemsFollow DEF JmpRel
<1>4. /\ i \in Instruction /\ i = body[o] /\ o \in DOMAIN body /\ body' = body /\ o \in Nat
      /\ DOMAIN body \subseteq Nat /\ oldPos' = o + i.len /\ jmpDest' = FarthestJump(i)
      /\ i.len \in 1 .. 15
      /\ \A n \in DOMAIN body : \A k \in DOMAIN body : n < k => n + body[n].len <= k
      /\ \A n \in DOMAIN body : body[n].len \in 1 .. 15
  <2>1. body \in Bodies
    BY DEF SlotOK
  <2>. QED
    BY <1>1, <2>1, BodyIs DEF Relocates, JmpRel
<1>5. /\ i.kind = "ret" \/ (i.kind = "jmp" /\ ~Internal(i))
      /\ jmpDest' <= o
  <2>1. (i.kind = "ret" \/ (i.kind = "jmp" /\ ~Internal(i))) /\ o >= jmpDest
    BY <1>1 DEF Finishes
  <2>2. jmpDest' = jmpDest /\ jmpDest \in Int
    BY <1>4, <2>1 DEF FarthestJump, SlotOK, JmpRel
  <2>. QED
    BY <1>4, <2>1, <2>2
<1>6. JumpsArrive'
  <2>1. \A k \in DOMAIN body' : k <= jmpDest' => k < oldPos'
    BY <1>3, <1>4, <1>5
  <2>. QED
    BY <1>3, <1>4, <2>1, CopiesArriveNext
<1>7. ASSUME NEW n \in DOMAIN tramp' PROVE LeadsRight(n)'
  <2>1. ItemOK(n)'
    BY <1>3 DEF ItemsOK
  <2>2. /\ Src(n)' \in DOMAIN body /\ Src(n)' < oldPos' /\ Src(n)' <= o /\ Src(n)' \in Nat
    BY <1>3, <1>4, <2>1 DEF ItemOK
  <2>3. body'[Src(n)'].kind = "loop" => Internal(body'[Src(n)'])
    BY <2>1 DEF ItemOK
  <2>4. ASSUME body'[Src(n)'].kind \notin {"ret", "jmp"}
        PROVE  /\ n + tramp'[n].size \in DOMAIN tramp'
               /\ Src(n + tramp[n].size)' = Src(n)' + body'[Src(n)'].len
    <3>1. \/ Src(n)' + body'[Src(n)'].len = oldPos'
          \/ /\ n + tramp'[n].size \in DOMAIN tramp'
             /\ Src(n + tramp[n].size)' = Src(n)' + body'[Src(n)'].len
      BY <2>1 DEF ItemOK
    <3>2. Src(n)' # o
      BY <1>4, <1>5, <2>4
    <3>3. Src(n)' + body[Src(n)'].len <= o
      BY <1>4, <2>2, <3>2
    <3>4. body[Src(n)'].len \in Nat
      BY <1>4, <2>2
    <3>. QED
      BY <1>3, <1>4, <2>2, <3>1, <3>3, <3>4
  <2>. QED
    BY <1>4, <1>6, <2>2, <2>3, <2>4 DEF LeadsRight, JumpsArrive
<1>8. 0 \in DOMAIN tramp' /\ Src(0)' = 0
  BY <1>3, <1>4 DEF ItemsOK
<1>. QED
  BY <1>7, <1>8 DEF TrampOK

(* The trampoline ends with a jump back behind what it replaces.             *)
LEMMA JumpBackLeads ==
  ASSUME SlotOK, ItemsOK, ~JumpsBackOver(body), oldPos >= JmpRel, UNCHANGED body,
         Emit([src |-> oldPos, size |-> JmpAbs], JmpAbs), ~TooLarge(JmpAbs)
  PROVE  TrampOK'
<1>1. PICK o : o = oldPos
  OBVIOUS
<1>2. PICK w : w = newPos
  OBVIOUS
<1>3. /\ DOMAIN tramp' = DOMAIN tramp \cup {w} /\ w \notin DOMAIN tramp
      /\ tramp'[w].src = o /\ \A n \in DOMAIN tramp : tramp'[n] = tramp[n]
  BY <1>1, <1>2, Emitting DEF JmpAbs
<1>4. o \in Nat /\ o >= JmpRel /\ DOMAIN body \subseteq 0 .. JmpRel - 1
  BY <1>1, BodyIs DEF SlotOK
<1>5. JumpsArrive
  <2>1. \A k \in DOMAIN body : k <= jmpDest => k < oldPos
    BY <1>1, <1>4 DEF JmpRel
  <2>. QED
    BY <2>1, CopiesArrive
<1>6. ASSUME NEW n \in DOMAIN tramp PROVE LeadsRight(n)'
  <2>1. ItemOK(n)
    BY DEF ItemsOK
  <2>2. Src(n)' = Src(n) /\ tramp'[n].size = tramp[n].size /\ Src(n) \in DOMAIN body
    BY <1>3, <2>1 DEF Src, ItemOK
  <2>3. /\ n + tramp[n].size \in DOMAIN tramp'
        /\ tramp'[n + tramp[n].size].src = Src(n) + body[Src(n)].len
    <3>1. CASE n + tramp[n].size = w /\ Src(n) + body[Src(n)].len = o
      BY <1>3, <3>1
    <3>2. CASE n + tramp[n].size \in DOMAIN tramp /\ Src(n + tramp[n].size) = Src(n) + body[Src(n)].len
      BY <1>3, <3>2 DEF Src
    <3>. QED
      BY <1>1, <1>2, <2>1, <3>1, <3>2 DEF ItemOK
  <2>4. Src(n + tramp[n].size)' = Src(n) + body[Src(n)].len
    BY <2>2, <2>3 DEF Src
  <2>5. ASSUME IsJump(body[Src(n)]), Internal(body[Src(n)])
        PROVE  LET x == n - Src(n) + body[Src(n)].dest
               IN  x \in DOMAIN tramp' /\ tramp'[x].src = body[Src(n)].dest
    BY <1>3, <1>5, <2>5 DEF JumpsArrive, Src
  <2>6. body[Src(n)].kind = "loop" => Internal(body[Src(n)])
    BY <2>1 DEF ItemOK
  <2>. QED
    BY <2>2, <2>3, <2>4, <2>5, <2>6 DEF LeadsRight, Src
<1>7. 0 \in DOMAIN tramp' /\ Src(0)' = 0
  <2>1. 0 \in DOMAIN tramp /\ Src(0) = 0
    BY <1>1, <1>4 DEF ItemsOK, JmpRel
  <2>. QED
    BY <1>3, <2>1 DEF Src
<1>8. Src(w)' = o
  <2>1. tramp'[w].src = o
    BY <1>3
  <2>. QED
    BY <2>1 DEF Src
<1>. QED
  BY <1>3, <1>4, <1>6, <1>7, <1>8 DEF TrampOK

-----------------------------------------------------------------------------
(* Where an instruction leads to. *)
LEMMA LeadsWithin ==
  ASSUME body \in Bodies, NEW n, n \in DOMAIN body
  PROVE  /\ Flow!Succ(n) = LET i == body[n]
                             next == n + i.len
                         IN  IF i.kind \in {"plain", "call"} THEN {next}
                             ELSE IF i.kind = "jmp" THEN {i.dest}
                             ELSE IF i.kind = "ret" THEN {Outside} ELSE {i.dest, next}
         /\ \A m \in Flow!Succ(n) : m = Outside \/ m \in DOMAIN body \/ (m \in Nat /\ m >= JmpRel)
<1>1. /\ body[n] \in Instruction /\ body[n].dest \in {Outside} \cup DOMAIN body
      /\ body[n].len \in 1 .. 15 /\ n \in Nat
      /\ \/ n + body[n].len \in DOMAIN body \/ n + body[n].len >= JmpRel
         \/ body[n].kind = "ret" \/ body[n].kind = "jmp"
  BY BodyIs DEF JmpRel
<1>2. body[n].kind \in {"plain", "call", "jmp", "jcc", "loop", "ret"}
  BY <1>1 DEF Instruction
<1>3. Flow!Succ(n) = LET i == body[n]
                         next == n + i.len
                     IN  IF i.kind \in {"plain", "call"} THEN {next}
                         ELSE IF i.kind = "jmp" THEN {i.dest}
                         ELSE IF i.kind = "ret" THEN {Outside} ELSE {i.dest, next}
  BY <1>2 DEF Flow!Succ, Flow!Outside, Outside
<1>. QED
  BY <1>1, <1>2, <1>3

LEMMA ReachesOn ==
  ASSUME body \in Bodies, NEW n, Reachable(n), NEW m, m \in Flow!Succ(n)
  PROVE  m = Outside \/ Reachable(m) \/ (m \in Nat /\ m >= JmpRel)
<1>1. m = Outside \/ m \in DOMAIN body \/ (m \in Nat /\ m >= JmpRel)
  BY LeadsWithin DEF Reachable
<1>2. ASSUME m \in DOMAIN body,
             NEW S \in SUBSET DOMAIN body, 0 \in S, \A k \in S : Flow!Succ(k) \cap DOMAIN body \subseteq S
      PROVE  m \in S
  BY <1>2 DEF Reachable
<1>. QED
  BY <1>1, <1>2 DEF Reachable

(* All that can be reached has been relocated. *)
LEMMA AllRelocated ==
  ASSUME SlotOK, TrampOK, NEW n, Reachable(n)
  PROVE  \E x \in DOMAIN tramp : Src(x) = n
<1>. DEFINE S == {k \in DOMAIN body : \E x \in DOMAIN tramp : Src(x) = k}
<1>1. body \in Bodies /\ 0 \in DOMAIN body /\ DOMAIN body \subseteq 0 .. JmpRel - 1
  BY BodyIs DEF SlotOK
<1>2. 0 \in S
  BY <1>1 DEF TrampOK
<1>3. ASSUME NEW k \in S PROVE Flow!Succ(k) \cap DOMAIN body \subseteq S
  <2>1. PICK x \in DOMAIN tramp : Src(x) = k
    OBVIOUS
  <2>2. LeadsRight(x)
    BY <1>1, <2>1 DEF TrampOK, JmpRel
  <2>. DEFINE i == body[k]
  <2>3. k + i.len \in DOMAIN body /\ i.kind \notin {"ret", "jmp"} => k + i.len \in S
    BY <2>1, <2>2 DEF LeadsRight
  <2>4. i.dest \in DOMAIN body /\ IsJump(i) => i.dest \in S
    <3>1. Internal(i) <=> i.dest \in DOMAIN body
      BY <1>1, BodyIs
    <3>. QED
      BY <2>1, <2>2, <3>1 DEF LeadsRight
  <2>5. Outside \notin DOMAIN body
    BY <1>1 DEF Outside, JmpRel
  <2>6. i.kind \in {"plain", "call", "jmp", "jcc", "loop", "ret"}
    BY <1>1, BodyIs DEF Instruction
  <2>. HIDE DEF S
  <2>7. k \in DOMAIN body
    BY DEF S
  <2>. QED
    BY <1>1, <2>3, <2>4, <2>5, <2>6, <2>7, LeadsWithin DEF IsJump
<1>. QED
  BY <1>2, <1>3 DEF Reachable

-----------------------------------------------------------------------------
(* How a thread goes on, and what that is in the function.                   *)
Place == [area : {"out", "target", "tramp", "lost"}, pos : Int]
FlowMove(a, b) ==
  \/ a = b
  \/ a = Outside /\ b = 0
  \/ a # Outside /\ a \in DOMAIN body /\ b \in Flow!Succ(a)
  \/ a # Outside /\ a \notin DOMAIN body /\ b = Outside

GoesOn(t, l) ==
  /\ l \in Place /\ PlaceOK(l) /\ Move(t, l)
  /\ phase = "enabled" => l = Target(0) \/ Passed(l)
  /\ FlowMove(LogicalAt(loc[t]), LogicalAt(l))

LEMMA Places ==
  /\ Out \in Place /\ Lost \in Place /\ PlaceOK(Out) /\ Passed(Out) /\ LogicalAt(Out) = Outside
  /\ \A n \in Int : /\ Target(n) \in Place /\ Tramp(n) \in Place /\ Passed(Tramp(n))
                    /\ LogicalAt(Target(n)) = n
                    /\ n \in DOMAIN tramp => LogicalAt(Tramp(n)) = Src(n)
                    /\ n \in Nat /\ (n >= JmpRel \/ Reachable(n)) => PlaceOK(Target(n))
                    /\ n >= JmpRel => Passed(Target(n))
                    /\ phase \notin {"build", "refused", "built"} /\ n \in DOMAIN tramp => PlaceOK(Tramp(n))
  BY DEF Place, Out, Lost, Target, Tramp, Passed, PlaceOK, LogicalAt, Src

LEMMA Entering ==
  ASSUME HookInv, phase # "removed", NEW t \in Threads, Enter(t)
  PROVE  GoesOn(t, Target(0))
<1>1. body \in Bodies /\ 0 \in DOMAIN body
  BY BodyIs DEF HookInv, SlotOK
<1>2. Reachable(0)
  BY <1>1 DEF Reachable
<1>. QED
  BY <1>2, Places DEF Enter, GoesOn, FlowMove

LEMMA RunningTarget ==
  ASSUME HookInv, phase # "removed", NEW t \in Threads, t \notin suspended, RunTarget(t)
  PROVE  \E l : GoesOn(t, l)
<1>. DEFINE n == loc[t].pos
<1>1. PlaceOK(loc[t]) /\ loc[t] \in Place /\ loc[t].area = "target"
  BY DEF HookInv, ThreadsOK, Place, RunTarget
<1>2. loc[t] = Target(n) /\ n \in Nat /\ (n >= JmpRel \/ Reachable(n))
  BY <1>1 DEF PlaceOK, Out, Tramp
<1>3. LogicalAt(loc[t]) = n
  BY <1>2, Places
<1>4. body \in Bodies /\ DOMAIN body \subseteq 0 .. JmpRel - 1
  BY BodyIs DEF HookInv, SlotOK
<1>5. phase # "writing" /\ (phase = "enabled" => n = 0 \/ n >= JmpRel)
  <2>1. phase # "writing"
    BY DEF HookInv, ThreadsOK
  <2>2. phase = "enabled" => loc[t] = Target(0) \/ Passed(loc[t])
    BY DEF HookInv, ThreadsOK
  <2>. QED
    BY <1>2, <2>1, <2>2 DEF Passed, Target
<1>6. n # Outside
  BY <1>2 DEF Outside
<1>7. CASE Intact(n) /\ n \in DOMAIN body
           /\ \E l \in Leads(body[n], Target(n + body[n].len), Target) : Move(t, l)
  <2>1. PICK l \in Leads(body[n], Target(n + body[n].len), Target) : Move(t, l)
    BY <1>7
  <2>. DEFINE next == n + body[n].len
              d == body[n].dest
  <2>2. n < JmpRel /\ phase # "enabled" /\ Reachable(n)
    <3>1. n < JmpRel
      BY <1>4, <1>7 DEF JmpRel
    <3>. QED
      BY <1>2, <1>7, <3>1 DEF Intact, HookInv, ThreadsOK, JmpRel
  <2>3. /\ d \in {Outside} \cup DOMAIN body /\ d \in Int /\ next \in Int
        /\ body[n].kind \in {"plain", "call", "jmp", "jcc", "loop", "ret"}
    BY <1>2, <1>4, <1>7, BodyIs DEF Instruction, JmpRel
  <2>4. PICK m \in Flow!Succ(n) : l = IF m = Outside THEN Out ELSE Target(m)
    <3>1. next # Outside
      BY <1>2, <1>4, <1>7, <2>3, BodyIs DEF Outside
    <3>. QED
      BY <1>4, <1>7, <2>1, <2>3, <3>1, LeadsWithin DEF Leads
  <2>5. m = Outside \/ (m \in Nat /\ (Reachable(m) \/ m >= JmpRel))
    <3>1. Reachable(m) => m \in Nat
      BY <1>4 DEF Reachable, JmpRel
    <3>. QED
      BY <1>4, <2>2, <2>4, <3>1, ReachesOn
  <2>6. l \in Place /\ PlaceOK(l) /\ LogicalAt(l) = m
    BY <2>4, <2>5, Places DEF Outside
  <2>. QED
    BY <1>3, <1>6, <1>7, <2>1, <2>2, <2>4, <2>6 DEF GoesOn, FlowMove
<1>8. CASE Intact(n) /\ n \notin DOMAIN body /\ Move(t, Out)
  BY <1>3, <1>6, <1>8, Places DEF GoesOn, FlowMove
<1>9. CASE ~Intact(n) /\ n = 0 /\ "operand" \in written /\ Move(t, Tramp(0))
  <2>1. phase = "enabled"
    BY <1>9 DEF HookInv, ThreadsOK
  <2>2. 0 \in DOMAIN tramp /\ Src(0) = 0
    BY <2>1 DEF HookInv, RelocationOK, TrampOK
  <2>. QED
    BY <1>3, <1>9, <2>1, <2>2, Places DEF GoesOn, FlowMove
<1>10. CASE ~Intact(n) /\ ~(n = 0 /\ "operand" \in written) /\ Move(t, Lost)
  BY <1>2, <1>5, <1>10 DEF Intact, HookInv, ThreadsOK
<1>. QED
  BY <1>7, <1>8, <1>9, <1>10 DEF RunTarget

LEMMA RunningTramp ==
  ASSUME HookInv, phase # "removed", NEW t \in Threads, RunTramp(t)
  PROVE  \E l : GoesOn(t, l)
<1>. DEFINE n == loc[t].pos
            s == Src(n)
            next == n + tramp[n].size
            i == body[s]
            Copied(dest) == IF Internal(i) THEN Tramp(n - s + dest) ELSE Target(dest)
<1>1. PlaceOK(loc[t]) /\ loc[t] \in Place /\ loc[t].area = "tramp"
  BY DEF HookInv, ThreadsOK, Place, RunTramp
<1>2. loc[t] = Tramp(n) /\ n \in DOMAIN tramp /\ phase \notin {"build", "refused", "built"} /\ n \in Nat
  BY <1>1 DEF PlaceOK, Out, Target, HookInv, SlotOK
<1>3. LogicalAt(loc[t]) = s
  BY <1>2, Places
<1>4. body \in Bodies /\ DOMAIN body \subseteq 0 .. JmpRel - 1
  BY BodyIs DEF HookInv, SlotOK
<1>5. TrampOK
  BY <1>2 DEF HookInv, RelocationOK
<1>6. IF s >= JmpRel THEN Move(t, Target(s)) ELSE \E l \in Leads(i, Tramp(next), Copied) : Move(t, l)
  BY <1>2 DEF RunTramp, Src
<1>7. CASE s \in Nat /\ s >= JmpRel
  <2>1. Move(t, Target(s))
    BY <1>6, <1>7
  <2>. QED
    BY <1>3, <1>7, <2>1, Places DEF GoesOn, FlowMove
<1>8. CASE ~(s \in Nat /\ s >= JmpRel)
  <2>1. LeadsRight(n) /\ s \in DOMAIN body /\ s \in Nat
    BY <1>2, <1>4, <1>5, <1>8 DEF TrampOK, LeadsRight, JmpRel
  <2>2. PICK l \in Leads(i, Tramp(next), Copied) : Move(t, l)
    BY <1>6, <1>8, <2>1
  <2>3. /\ i.dest \in {Outside} \cup DOMAIN body /\ i.dest \in Int /\ i.len \in Nat
        /\ i.kind \in {"plain", "call", "jmp", "jcc", "loop", "ret"}
        /\ Internal(i) <=> i.dest \in DOMAIN body
    BY <1>4, <2>1, BodyIs DEF Instruction, JmpRel
  <2>4. s # Outside
    BY <2>1 DEF Outside
  <2>5. CASE l = Out /\ i.dest = Outside /\ i.kind \in {"jmp", "jcc", "loop"}
    <3>1. Outside \in Flow!Succ(s)
      BY <1>4, <2>1, <2>5, LeadsWithin
    <3>. QED
      BY <1>3, <2>1, <2>2, <2>4, <2>5, <3>1, Places DEF GoesOn, FlowMove
  <2>6. CASE l = Out /\ i.kind = "ret"
    <3>1. Outside \in Flow!Succ(s)
      BY <1>4, <2>1, <2>6, LeadsWithin
    <3>. QED
      BY <1>3, <2>1, <2>2, <2>4, <2>6, <3>1, Places DEF GoesOn, FlowMove
  <2>7. CASE l = Tramp(next) /\ i.kind \notin {"ret", "jmp"}
    <3>1. next \in DOMAIN tramp /\ Src(next) = s + i.len
      BY <2>1, <2>7 DEF LeadsRight
    <3>2. next \in Int
      BY <3>1 DEF HookInv, SlotOK
    <3>3. s + i.len \in Flow!Succ(s)
      BY <1>4, <2>1, <2>3, <2>7, LeadsWithin
    <3>4. l \in Place /\ PlaceOK(l) /\ Passed(l) /\ LogicalAt(l) = s + i.len
      BY <1>2, <2>7, <3>1, <3>2, Places
    <3>. QED
      BY <1>3, <2>1, <2>2, <2>4, <3>3, <3>4 DEF GoesOn, FlowMove
  <2>8. CASE l = Copied(i.dest) /\ i.dest # Outside /\ IsJump(i)
    <3>1. Internal(i)
      BY <2>3, <2>8
    <3>. DEFINE x == n - s + i.dest
    <3>2. x \in DOMAIN tramp /\ Src(x) = i.dest /\ l = Tramp(x)
      BY <2>1, <2>8, <3>1 DEF LeadsRight
    <3>3. x \in Int
      BY <3>2 DEF HookInv, SlotOK
    <3>4. i.dest \in Flow!Succ(s)
      BY <1>4, <2>1, <2>8, LeadsWithin DEF IsJump
    <3>. HIDE DEF x
    <3>5. l \in Place /\ PlaceOK(l) /\ Passed(l) /\ LogicalAt(l) = i.dest
      BY <1>2, <3>2, <3>3, Places
    <3>. QED
      BY <1>3, <2>1, <2>2, <2>4, <3>4, <3>5 DEF GoesOn, FlowMove
  <2>. QED
    BY <2>2, <2>3, <2>5, <2>6, <2>7, <2>8 DEF Leads, IsJump
<1>. QED
  BY <1>7, <1>8

(* A running thread goes on in the function, or in the copy of it.           *)
LEMMA Running ==
  ASSUME HookInv, phase # "removed", NEW t \in Threads, RunsOn(t)
  PROVE  \E l : GoesOn(t, l)
  BY Entering, RunningTarget, RunningTramp DEF RunsOn

-----------------------------------------------------------------------------
(* The invariant holds at first, and each action keeps it. *)
LEMMA HookInvHolds == HookInit => HookInv
<1>. SUFFICES ASSUME HookInit PROVE HookInv
  OBVIOUS
<1>1. DOMAIN tramp = {}
  BY DEF HookInit
<1>2. 0 \in DOMAIN body /\ DOMAIN body \subseteq Nat
  BY BodyIs DEF HookInit, JmpRel
<1>3. IsFiniteSet(DOMAIN tramp) /\ Cardinality(DOMAIN tramp) = 0
  BY <1>1, FS_EmptySet
<1>4. SlotOK
  BY <1>1, <1>3 DEF SlotOK, HookInit, MaxSize, MaxIPs
<1>5. RelocationOK
  BY <1>1, <1>2 DEF RelocationOK, ItemsOK, HookInit
<1>6. ThreadsOK
  <2>1. loc \in [Threads -> Place] /\ \A t \in Threads : PlaceOK(loc[t])
    BY Places DEF HookInit
  <2>. QED
    BY <2>1 DEF ThreadsOK, HookInit, Place
<1>. QED
  BY <1>4, <1>5, <1>6 DEF HookInv

LEMMA ReachableStays ==
  ASSUME UNCHANGED body, NEW n
  PROVE  Reachable(n) = Reachable(n)'
  BY DEF Reachable, Flow!Succ

LEMMA PlaceStays ==
  ASSUME UNCHANGED body, NEW l, PlaceOK(l),
         l.area = "tramp" => /\ DOMAIN tramp \subseteq DOMAIN tramp'
                             /\ phase' \notin {"build", "refused", "built"}
  PROVE  PlaceOK(l)'
<1>1. CASE l = Out
  BY <1>1 DEF PlaceOK
<1>2. CASE l = Target(l.pos) /\ l.pos \in Nat /\ (l.pos >= JmpRel \/ Reachable(l.pos))
  <2>1. PICK n : n = l.pos
    OBVIOUS
  <2>2. Reachable(n) = Reachable(n)'
    BY ReachableStays
  <2>. QED
    BY <1>2, <2>1, <2>2 DEF PlaceOK
<1>3. CASE l = Tramp(l.pos) /\ l.pos \in DOMAIN tramp /\ phase \notin {"build", "refused", "built"}
  <2>1. l.area = "tramp"
    BY <1>3 DEF Tramp
  <2>. QED
    BY <1>3, <2>1 DEF PlaceOK
<1>. QED
  BY <1>1, <1>2, <1>3 DEF PlaceOK

(* What is built stays as it is. *)
LEMMA BuiltStays ==
  ASSUME HookInv, phase \notin {"build", "refused"}, UNCHANGED <<body, buildVars>>,
         phase' \in {"refused", "built", "freeze", "writing", "enabled", "failed", "removed"}
  PROVE  SlotOK' /\ RelocationOK'
<1>1. SlotOK'
  BY DEF HookInv, SlotOK, buildVars
<1>2. TrampOK'
  BY DEF HookInv, RelocationOK, buildVars, TrampOK, LeadsRight, Src, SizeOf, Internal, IsJump
<1>. QED
  BY <1>1, <1>2 DEF RelocationOK

LEMMA MovingKeeps ==
  ASSUME HookInv, NEW t \in Threads, t \notin suspended, NEW l, GoesOn(t, l), phase # "writing"
  PROVE  HookInv'
<1>1. UNCHANGED <<body, phase, buildVars, written, suspended, todo>> /\ loc' = [loc EXCEPT ![t] = l]
  BY DEF GoesOn, Move
<1>2. SlotOK' /\ RelocationOK'
  <2>1. SlotOK'
    BY <1>1 DEF HookInv, SlotOK, buildVars
  <2>2. TrampOK => TrampOK'
    BY <1>1 DEF buildVars, TrampOK, LeadsRight, Src, SizeOf, Internal, IsJump
  <2>3. ItemsOK => ItemsOK'
    BY <1>1 DEF buildVars, ItemsOK, ItemOK, Src, SizeOf, Internal, IsJump, Unaltered, Lengthened
  <2>. QED
    BY <1>1, <2>1, <2>2, <2>3 DEF HookInv, RelocationOK, buildVars
<1>3. loc' \in [Threads -> Place] /\ \A u \in Threads : loc'[u] = IF u = t THEN l ELSE loc[u]
  BY <1>1 DEF HookInv, ThreadsOK, GoesOn, Place
<1>4. ASSUME phase' # "removed", NEW u \in Threads PROVE PlaceOK(loc[u])'
  <2>1. PICK m : m = loc'[u]
    OBVIOUS
  <2>2. PlaceOK(m) /\ (m.area = "tramp" => phase \notin {"build", "refused", "built"})
    <3>1. PlaceOK(m)
      BY <1>1, <1>3, <1>4, <2>1 DEF GoesOn, HookInv, ThreadsOK
    <3>. QED
      BY <3>1 DEF PlaceOK, Out, Target
  <2>3. PlaceOK(m)'
    BY <1>1, <2>2, PlaceStays DEF buildVars
  <2>. QED
    BY <2>1, <2>3
<1>5. ThreadsOK'
  <2>1. phase' = "freeze" => suspended' \cup todo' = Threads /\ \A u \in suspended' : Passed(loc[u])'
    BY <1>1, <1>3 DEF HookInv, ThreadsOK, Passed
  <2>2. phase' = "enabled" => \A u \in Threads : loc'[u] = Target(0) \/ Passed(loc[u])'
    BY <1>1, <1>3 DEF HookInv, ThreadsOK, GoesOn, Passed
  <2>3. phase' # "writing"
    BY <1>1
  <2>4. /\ suspended' \subseteq Threads /\ todo' \subseteq Threads
        /\ written' = CASE phase' = "writing" -> {"opcode"}
                        [] phase' = "enabled" -> {"opcode", "operand"}
                        [] OTHER -> {}
        /\ phase' \in {"build", "refused", "built"} => suspended' = {}
    BY <1>1 DEF HookInv, ThreadsOK
  <2>. QED
    BY <1>3, <1>4, <2>1, <2>2, <2>3, <2>4 DEF ThreadsOK, Place
<1>. QED
  BY <1>2, <1>5 DEF HookInv

LEMMA RunningKeeps ==
  ASSUME HookInv, NEW t \in Threads, RunsOn(t)
  PROVE  HookInv'
<1>1. CASE phase # "removed"
  <2>1. phase # "writing" /\ t \notin suspended
    BY DEF RunsOn, HookInv, ThreadsOK
  <2>2. PICK l : GoesOn(t, l)
    BY <1>1, Running
  <2>. QED
    BY <2>1, <2>2, MovingKeeps
<1>2. CASE phase = "removed"
  <2>. DEFINE n == loc[t].pos
  <2>1. body \in Bodies /\ DOMAIN body \subseteq Nat /\ loc[t] \in Place /\ written = {}
    BY <1>2, BodyIs DEF HookInv, SlotOK, ThreadsOK, Place, JmpRel
  <2>2. \E l \in Place : Move(t, l)
    <3>1. CASE Enter(t)
      BY <3>1, Places DEF Enter
    <3>2. CASE RunTarget(t)
      <4>1. \/ /\ n \in DOMAIN body
               /\ \E l \in Leads(body[n], Target(n + body[n].len), Target) : Move(t, l)
            \/ Move(t, Out) \/ Move(t, Lost)
        BY <2>1, <3>2 DEF RunTarget, Intact
      <4>2. ASSUME n \in DOMAIN body
            PROVE  Leads(body[n], Target(n + body[n].len), Target) \subseteq Place
        <5>1. /\ body[n].kind \in {"plain", "call", "jmp", "jcc", "loop", "ret"}
              /\ body[n].len \in Int /\ body[n].dest \in Int /\ n \in Int
          BY <2>1, <4>2, BodyIs DEF Instruction
        <5>. QED
          BY <5>1, Places DEF Leads
      <4>. QED
        BY <4>1, <4>2, Places
    <3>3. CASE RunTramp(t)
      BY <1>2, <3>3, Places DEF RunTramp
    <3>. QED
      BY <3>1, <3>2, <3>3 DEF RunsOn
  <2>3. PICK l \in Place : Move(t, l)
    BY <2>2
  <2>4. UNCHANGED <<body, phase, buildVars, written, suspended, todo>> /\ loc' \in [Threads -> Place]
    BY <2>3 DEF Move, HookInv, ThreadsOK, Place
  <2>5. SlotOK' /\ RelocationOK'
    BY <1>2, <2>4, BuiltStays
  <2>6. ThreadsOK'
    BY <1>2, <2>4 DEF HookInv, ThreadsOK, Place
  <2>. QED
    BY <2>5, <2>6 DEF HookInv
<1>. QED
  BY <1>1, <1>2

(* While the trampoline is being built, threads are in the function or out.  *)
LEMMA BuildingThreads ==
  ASSUME HookInv, phase \in {"build", "built"}, UNCHANGED <<body, written, suspended, loc>>,
         phase' \in {"build", "refused", "built", "freeze"}, todo' \subseteq Threads,
         phase' = "freeze" => todo' = Threads
  PROVE  ThreadsOK'
<1>1. ASSUME NEW u \in Threads PROVE PlaceOK(loc[u])'
  <2>1. PICK m : m = loc[u]
    OBVIOUS
  <2>2. PlaceOK(m) /\ m.area # "tramp"
    BY <2>1 DEF PlaceOK, Out, Target, HookInv, ThreadsOK
  <2>3. PlaceOK(m)'
    BY <2>2, PlaceStays
  <2>. QED
    BY <2>1, <2>3
<1>2. suspended = {} /\ written = {}
  BY DEF HookInv, ThreadsOK
<1>. QED
  BY <1>1, <1>2 DEF HookInv, ThreadsOK

LEMMA RefusingKeeps ==
  ASSUME HookInv, phase \in {"build", "built"}, UNCHANGED <<body, written, suspended, loc, todo>>,
         Refuse
  PROVE  HookInv'
<1>1. phase' = "refused" /\ UNCHANGED buildVars
  BY DEF Refuse
<1>2. SlotOK' /\ RelocationOK'
  BY <1>1 DEF HookInv, SlotOK, RelocationOK, buildVars
<1>3. ThreadsOK'
  BY <1>1, BuildingThreads DEF HookInv, ThreadsOK
<1>. QED
  BY <1>2, <1>3 DEF HookInv

LEMMA RelocateKeeps ==
  ASSUME HookInv, \A b \in Bodies : ~JumpsBackOver(b), Relocate
  PROVE  HookInv'
<1>. DEFINE i == body[oldPos]
<1>1. /\ phase = "build" /\ oldPos < JmpRel /\ UNCHANGED <<body, written, suspended, todo, loc>>
      /\ \/ Refuse
         \/ /\ ~((i.kind = "loop" /\ ~Internal(i)) \/ AltersBranch(i) \/ TooLarge(SizeOf(i)))
            /\ Emit([src |-> oldPos, size |-> SizeOf(i)], SizeOf(i))
            /\ jmpDest' = FarthestJump(i) /\ oldPos' = oldPos + i.len
            /\ phase' = IF Finishes(i) THEN "built" ELSE "build"
  BY DEF Relocate
<1>2. CASE Refuse
  BY <1>1, <1>2, RefusingKeeps
<1>3. CASE ~Refuse
  <2>1. SlotOK /\ ItemsOK /\ body \in Bodies /\ oldPos \in DOMAIN body /\ oldPos \in Nat
    BY <1>1, BodyIs DEF HookInv, SlotOK, RelocationOK, JmpRel
  <2>2. Relocates(i) /\ phase' = IF Finishes(i) THEN "built" ELSE "build"
    BY <1>1, <1>3, <2>1 DEF Relocates
  <2>3. PICK o : o = oldPos
    OBVIOUS
  <2>4. PICK w : w = newPos
    OBVIOUS
  <2>5. PICK j : j = i
    OBVIOUS
  <2>6. Relocates(j)
    BY <2>2, <2>5
  <2>7. /\ ItemsOK' /\ oldPos' \in Nat /\ jmpDest' \in {-1} \cup DOMAIN body
        /\ \A k \in DOMAIN body : k < oldPos' => k <= oldPos
    BY <2>1, <2>3, <2>4, <2>6, ItemsFollow
  <2>8. SlotOK'
    <3>1. SizeOf(i) \in Nat \ {0}
      BY <2>1, BodyIs, SizeIs
    <3>2. /\ newPos' \in 0 .. MaxSize /\ \A n \in DOMAIN tramp' : n \in Nat /\ n < newPos'
          /\ IsFiniteSet(DOMAIN tramp') /\ Cardinality(DOMAIN tramp') <= MaxIPs
      BY <2>1, <2>2, <3>1, Emitting DEF Relocates
    <3>. QED
      BY <1>1, <2>1, <2>2, <2>7, <3>2 DEF SlotOK
  <2>9. ASSUME ~Finishes(i) PROVE oldPos' \in DOMAIN body \/ oldPos' >= JmpRel
    <3>1. oldPos' = oldPos + i.len
      BY <2>2 DEF Relocates
    <3>2. CASE (i.kind = "ret" \/ (i.kind = "jmp" /\ i.dest = Outside)) /\ \A k \in DOMAIN body : k <= oldPos
      <4>1. ~Internal(i) \/ i.kind = "ret"
        BY <3>2 DEF Internal
      <4>2. jmpDest > oldPos
        BY <2>1, <2>9, <3>2, <4>1 DEF Finishes, SlotOK, HookInv
      <4>3. jmpDest \in DOMAIN body /\ DOMAIN body \subseteq Nat
        BY <2>1, <4>2, BodyIs DEF SlotOK, JmpRel
      <4>. QED
        BY <2>1, <3>2, <4>2, <4>3
    <3>. QED
      BY <2>1, <3>1, <3>2, BodyIs
  <2>10. RelocationOK'
    <3>1. CASE Finishes(i)
      <4>1. Finishes(j) /\ ~JumpsBackOver(body)
        BY <2>1, <2>5, <3>1
      <4>2. TrampOK'
        BY <2>1, <2>6, <2>8, <4>1, FinishedLeads
      <4>. QED
        BY <2>2, <3>1, <4>2 DEF RelocationOK
    <3>2. CASE ~Finishes(i)
      BY <1>1, <2>2, <2>7, <2>9, <3>2 DEF RelocationOK
    <3>. QED
      BY <3>1, <3>2
  <2>11. ThreadsOK'
    BY <1>1, <2>2, BuildingThreads DEF HookInv, ThreadsOK
  <2>. QED
    BY <2>8, <2>10, <2>11 DEF HookInv
<1>. QED
  BY <1>2, <1>3

LEMMA JumpBackKeeps ==
  ASSUME HookInv, \A b \in Bodies : ~JumpsBackOver(b), JumpBack
  PROVE  HookInv'
<1>1. phase = "build" /\ oldPos >= JmpRel /\ UNCHANGED <<body, written, suspended, todo, loc>>
  BY DEF JumpBack
<1>2. CASE TooLarge(JmpAbs)
  BY <1>1, <1>2, RefusingKeeps DEF JumpBack
<1>3. CASE ~TooLarge(JmpAbs)
  <2>1. /\ Emit([src |-> oldPos, size |-> JmpAbs], JmpAbs) /\ phase' = "built"
        /\ UNCHANGED <<oldPos, jmpDest>>
    BY <1>3 DEF JumpBack
  <2>2. SlotOK /\ ItemsOK /\ body \in Bodies
    BY <1>1 DEF HookInv, SlotOK, RelocationOK
  <2>3. /\ newPos' \in 0 .. MaxSize /\ \A n \in DOMAIN tramp' : n \in Nat /\ n < newPos'
        /\ IsFiniteSet(DOMAIN tramp') /\ Cardinality(DOMAIN tramp') <= MaxIPs
    BY <1>3, <2>1, <2>2, Emitting DEF JmpAbs
  <2>4. SlotOK'
    BY <1>1, <2>1, <2>2, <2>3 DEF SlotOK
  <2>5. RelocationOK'
    BY <1>1, <1>3, <2>1, <2>2, JumpBackLeads DEF RelocationOK
  <2>6. ThreadsOK'
    BY <1>1, <2>1, BuildingThreads DEF HookInv, ThreadsOK
  <2>. QED
    BY <2>4, <2>5, <2>6 DEF HookInv
<1>. QED
  BY <1>2, <1>3

LEMMA CheckRoomKeeps ==
  ASSUME HookInv, CheckRoom
  PROVE  HookInv'
<1>1. /\ phase = "built" /\ UNCHANGED <<body, buildVars, written, suspended, loc>>
      /\ \/ phase' = "freeze" /\ todo' = Threads
         \/ phase' = "refused" /\ UNCHANGED todo
  BY DEF CheckRoom
<1>2. SlotOK' /\ RelocationOK'
  BY <1>1, BuiltStays
<1>3. ThreadsOK'
  BY <1>1, BuildingThreads DEF HookInv, ThreadsOK
<1>. QED
  BY <1>2, <1>3 DEF HookInv

(* Whoever is suspended in the bytes to be overwritten is moved to the copy. *)
LEMMA MovedAway ==
  ASSUME HookInv, NEW t \in Threads, Suspend(t)
  PROVE  \E l \in Place : /\ loc' = [loc EXCEPT ![t] = l] /\ PlaceOK(l) /\ Passed(l)
                          /\ LogicalAt(l) = LogicalAt(loc[t])
<1>1. /\ phase = "freeze" /\ SlotOK /\ TrampOK /\ loc \in [Threads -> Place] /\ PlaceOK(loc[t])
      /\ loc' = IF FindNewIP(loc[t]) = {} THEN loc
                ELSE [loc EXCEPT ![t] = Tramp(CHOOSE n \in FindNewIP(loc[t]) : TRUE)]
  BY DEF Suspend, HookInv, RelocationOK, ThreadsOK, Place
<1>2. CASE FindNewIP(loc[t]) = {}
  <2>1. loc' = [loc EXCEPT ![t] = loc[t]] /\ loc[t] \in Place
    BY <1>1, <1>2
  <2>2. Passed(loc[t])
    <3>. DEFINE n == loc[t].pos
    <3>1. ASSUME loc[t] = Target(n), Reachable(n) PROVE FALSE
      <4>1. PICK k : k = n
        OBVIOUS
      <4>2. PICK x \in DOMAIN tramp : Src(x) = k
        BY <1>1, <3>1, <4>1, AllRelocated
      <4>. QED
        BY <1>2, <3>1, <4>1, <4>2 DEF FindNewIP, Src
    <3>. QED
      BY <1>1, <3>1 DEF PlaceOK, Passed, Out, Tramp
  <2>. QED
    BY <1>1, <2>1, <2>2
<1>3. CASE FindNewIP(loc[t]) # {}
  <2>1. PICK x \in FindNewIP(loc[t]) : x = CHOOSE n \in FindNewIP(loc[t]) : TRUE
    BY <1>3
  <2>2. x \in DOMAIN tramp /\ loc[t] = Target(Src(x)) /\ x \in Int
    <3>1. x \in DOMAIN tramp /\ loc[t] = Target(tramp[x].src)
      BY <2>1 DEF FindNewIP
    <3>. QED
      BY <1>1, <3>1 DEF Src, SlotOK
  <2>3. Src(x) \in Int
    BY <1>1, <2>2 DEF Target, Place
  <2>4. LogicalAt(loc[t]) = Src(x)
    BY <2>2, <2>3, Places
  <2>. QED
    BY <1>1, <1>3, <2>1, <2>2, <2>4, Places
<1>. QED
  BY <1>2, <1>3

LEMMA SuspendKeeps ==
  ASSUME HookInv, NEW t \in Threads, Suspend(t)
  PROVE  HookInv'
<1>1. /\ phase = "freeze" /\ suspended' = suspended \cup {t} /\ todo' = todo \ {t}
      /\ UNCHANGED <<body, phase, buildVars, written>>
  BY DEF Suspend
<1>2. PICK l \in Place : loc' = [loc EXCEPT ![t] = l] /\ PlaceOK(l) /\ Passed(l)
  BY MovedAway
<1>3. SlotOK' /\ RelocationOK'
  BY <1>1, BuiltStays
<1>4. loc' \in [Threads -> Place] /\ \A u \in Threads : loc'[u] = IF u = t THEN l ELSE loc[u]
  BY <1>2 DEF HookInv, ThreadsOK, Place
<1>5. ASSUME NEW u \in Threads PROVE PlaceOK(loc[u])'
  <2>1. PICK m : m = loc'[u]
    OBVIOUS
  <2>2. PlaceOK(m)
    BY <1>1, <1>2, <1>4, <2>1 DEF HookInv, ThreadsOK
  <2>3. PlaceOK(m)'
    BY <1>1, <2>2, PlaceStays DEF buildVars
  <2>. QED
    BY <2>1, <2>3
<1>6. \A u \in suspended' : Passed(loc[u])'
  BY <1>1, <1>2, <1>4 DEF HookInv, ThreadsOK, Passed
<1>7. ThreadsOK'
  BY <1>1, <1>4, <1>5, <1>6 DEF HookInv, ThreadsOK, Place
<1>. QED
  BY <1>3, <1>7 DEF HookInv

(* What the installing thread does while it is not building moves nobody.    *)
LEMMA StayingThreads ==
  ASSUME HookInv, UNCHANGED <<body, buildVars, loc>>, NEW u \in Threads,
         phase \in {"freeze", "writing", "enabled", "failed"},
         phase' \in {"freeze", "writing", "enabled", "failed", "removed"}
  PROVE  PlaceOK(loc[u])'
<1>1. PICK m : m = loc[u]
  OBVIOUS
<1>2. PlaceOK(m)
  BY <1>1 DEF HookInv, ThreadsOK
<1>3. PlaceOK(m)'
  BY <1>2, PlaceStays DEF buildVars
<1>. QED
  BY <1>1, <1>3

LEMMA WriteOpcodeKeeps ==
  ASSUME HookInv, WriteOpcode
  PROVE  HookInv'
<1>1. /\ phase = "freeze" /\ todo = {} /\ written' = {"opcode"} /\ phase' = "writing"
      /\ UNCHANGED <<body, buildVars, suspended, todo, loc>>
  BY DEF WriteOpcode
<1>2. SlotOK' /\ RelocationOK'
  BY <1>1, BuiltStays
<1>3. \A u \in Threads : PlaceOK(loc[u])'
  BY <1>1, StayingThreads
<1>4. suspended = Threads /\ \A u \in Threads : Passed(loc[u])'
  BY <1>1 DEF HookInv, ThreadsOK, Passed
<1>5. ThreadsOK'
  BY <1>1, <1>3, <1>4 DEF HookInv, ThreadsOK
<1>. QED
  BY <1>2, <1>5 DEF HookInv

LEMMA WriteOperandKeeps ==
  ASSUME HookInv, WriteOperand
  PROVE  HookInv'
<1>1. /\ phase = "writing" /\ written' = {"opcode", "operand"} /\ phase' = "enabled"
      /\ todo' = suspended /\ UNCHANGED <<body, buildVars, suspended, loc>>
  BY DEF WriteOperand
<1>2. SlotOK' /\ RelocationOK'
  BY <1>1, BuiltStays
<1>3. \A u \in Threads : PlaceOK(loc[u])'
  BY <1>1, StayingThreads
<1>4. \A u \in Threads : Passed(loc[u])'
  BY <1>1 DEF HookInv, ThreadsOK, Passed
<1>5. ThreadsOK'
  BY <1>1, <1>3, <1>4 DEF HookInv, ThreadsOK
<1>. QED
  BY <1>2, <1>5 DEF HookInv

LEMMA ProtectFailsKeeps ==
  ASSUME HookInv, ProtectFails
  PROVE  HookInv'
<1>1. /\ phase = "freeze" /\ phase' = "failed" /\ todo' = suspended
      /\ UNCHANGED <<body, buildVars, written, suspended, loc>>
  BY DEF ProtectFails
<1>2. SlotOK' /\ RelocationOK'
  BY <1>1, BuiltStays
<1>3. \A u \in Threads : PlaceOK(loc[u])'
  BY <1>1, StayingThreads
<1>4. ThreadsOK'
  BY <1>1, <1>3 DEF HookInv, ThreadsOK
<1>. QED
  BY <1>2, <1>4 DEF HookInv

LEMMA ResumeKeeps ==
  ASSUME HookInv, NEW t \in Threads, Resume(t)
  PROVE  HookInv'
<1>1. /\ phase \in {"enabled", "failed"} /\ suspended' = suspended \ Resumed(t) /\ todo' = todo \ {t}
      /\ UNCHANGED <<body, phase, buildVars, written, loc>>
  BY DEF Resume
<1>2. SlotOK' /\ RelocationOK'
  BY <1>1, BuiltStays
<1>3. \A u \in Threads : PlaceOK(loc[u])'
  BY <1>1, StayingThreads
<1>4. phase = "enabled" => \A u \in Threads : loc'[u] = Target(0) \/ Passed(loc[u])'
  BY <1>1 DEF HookInv, ThreadsOK, Passed
<1>5. ThreadsOK'
  BY <1>1, <1>3, <1>4 DEF HookInv, ThreadsOK
<1>. QED
  BY <1>2, <1>5 DEF HookInv

LEMMA RemoveHookKeeps ==
  ASSUME HookInv, RemoveHook
  PROVE  HookInv'
<1>1. phase = "failed" /\ phase' = "removed" /\ UNCHANGED <<body, buildVars, written, suspended, todo, loc>>
  BY DEF RemoveHook
<1>2. SlotOK' /\ RelocationOK'
  BY <1>1, BuiltStays
<1>3. ThreadsOK'
  BY <1>1 DEF HookInv, ThreadsOK
<1>. QED
  BY <1>2, <1>3 DEF HookInv

LEMMA StutteringKeeps == HookInv /\ UNCHANGED hookVars => HookInv'
<1>. SUFFICES ASSUME HookInv, UNCHANGED hookVars PROVE HookInv'
  OBVIOUS
<1>1. SlotOK'
  BY DEF HookInv, SlotOK, hookVars
<1>2. TrampOK => TrampOK'
  BY DEF hookVars, TrampOK, LeadsRight, Src, SizeOf, Internal, IsJump
<1>3. ItemsOK => ItemsOK'
  BY DEF hookVars, ItemsOK, ItemOK, Src, SizeOf, Internal, IsJump, Unaltered, Lengthened
<1>4. RelocationOK'
  BY <1>2, <1>3 DEF HookInv, RelocationOK, hookVars
<1>5. ASSUME phase # "removed", NEW u \in Threads PROVE PlaceOK(loc[u])'
  <2>1. PICK m : m = loc[u]
    OBVIOUS
  <2>2. PlaceOK(m) /\ (m.area = "tramp" => phase \notin {"build", "refused", "built"})
    <3>1. PlaceOK(m)
      BY <1>5, <2>1 DEF HookInv, ThreadsOK
    <3>. QED
      BY <3>1 DEF PlaceOK, Out, Target
  <2>3. PlaceOK(m)'
    BY <2>2, PlaceStays DEF hookVars
  <2>. QED
    BY <2>1, <2>3 DEF hookVars
<1>6. ThreadsOK'
  BY <1>5 DEF HookInv, ThreadsOK, hookVars, Passed
<1>. QED
  BY <1>1, <1>4, <1>6 DEF HookInv

LEMMA HookInvKept ==
  ASSUME HookInv, \A b \in Bodies : ~JumpsBackOver(b), [HookNext]_hookVars
  PROVE  HookInv'
<1>1. CASE Relocate
  BY <1>1, RelocateKeeps
<1>2. CASE JumpBack
  BY <1>2, JumpBackKeeps
<1>3. CASE CheckRoom
  BY <1>3, CheckRoomKeeps
<1>4. ASSUME NEW t \in Threads, Suspend(t) PROVE HookInv'
  BY <1>4, SuspendKeeps
<1>5. ASSUME NEW t \in Threads, Resume(t) PROVE HookInv'
  BY <1>5, ResumeKeeps
<1>6. CASE WriteOpcode
  BY <1>6, WriteOpcodeKeeps
<1>7. CASE WriteOperand
  BY <1>7, WriteOperandKeeps
<1>8. CASE ProtectFails
  BY <1>8, ProtectFailsKeeps
<1>9. CASE RemoveHook
  BY <1>9, RemoveHookKeeps
<1>10. ASSUME NEW t \in Threads, RunsOn(t) PROVE HookInv'
  BY <1>10, RunningKeeps
<1>11. CASE UNCHANGED hookVars
  BY <1>11, StutteringKeeps
<1>. QED
  BY <1>1, <1>2, <1>3, <1>4, <1>5, <1>6, <1>7, <1>8, <1>9, <1>10, <1>11 DEF HookNext, Install

(* Nobody is lost: slot and threads are as they should be.                   *)
THEOREM NobodyGetsLost ==
  ASSUME \A b \in Bodies : ~JumpsBackOver(b)
  PROVE  HookSpec => []TrampolineConsistent
<1>1. HookInit => HookInv
  BY HookInvHolds
<1>2. HookInv /\ [HookNext]_hookVars => HookInv'
  BY HookInvKept
<1>3. HookInv => TrampolineConsistent
  <2>. SUFFICES ASSUME HookInv PROVE HookTypeOK /\ NobodyIsLost
    BY DEF TrampolineConsistent
  <2>1. DOMAIN tramp \subseteq 0 .. MaxSize - 1
    BY DEF HookInv, SlotOK, MaxSize
  <2>2. jmpDest \in -1 .. JmpRel - 1
    BY BodyIs DEF HookInv, SlotOK, JmpRel
  <2>3. HookTypeOK
    BY <2>1, <2>2 DEF HookTypeOK, HookInv, SlotOK, ThreadsOK
  <2>4. NobodyIsLost
    BY DEF NobodyIsLost, HookInv, ThreadsOK, PlaceOK, Out, Target, Tramp
  <2>. QED
    BY <2>3, <2>4
<1>. QED
  BY <1>1, <1>2, <1>3, PTL DEF HookSpec

-----------------------------------------------------------------------------
(* What the installing thread does is no step of the function.               *)
LEMMA LogicalStays ==
  ASSUME NEW l, UNCHANGED tramp
  PROVE  LogicalAt(l)' = LogicalAt(l)
  BY DEF LogicalAt

LEMMA InstallingHidden ==
  ASSUME HookInv, phase # "removed", Install
  PROVE  UNCHANGED <<body, flowAt>>
<1>1. ASSUME UNCHANGED <<body, loc>>, phase \in {"build", "built"} PROVE UNCHANGED <<body, flowAt>>
  <2>1. ASSUME NEW t \in Threads PROVE LogicalAt(loc[t])' = LogicalAt(loc[t])
    <3>1. loc[t].area \in {"out", "target"}
      BY <1>1 DEF HookInv, ThreadsOK, PlaceOK, Out, Target
    <3>. QED
      BY <1>1, <3>1 DEF LogicalAt
  <2>. QED
    BY <1>1, <2>1 DEF flowAt
<1>2. ASSUME UNCHANGED <<body, loc, tramp>> PROVE UNCHANGED <<body, flowAt>>
  BY <1>2 DEF flowAt, LogicalAt
<1>3. ASSUME Relocate \/ JumpBack \/ CheckRoom PROVE UNCHANGED <<body, flowAt>>
  BY <1>1, <1>3 DEF Relocate, JumpBack, CheckRoom
<1>4. ASSUME NEW t \in Threads, Suspend(t) PROVE UNCHANGED <<body, flowAt>>
  <2>1. UNCHANGED <<body, tramp>> /\ loc \in [Threads -> Place]
    BY <1>4 DEF Suspend, buildVars, HookInv, ThreadsOK, Place
  <2>2. PICK l \in Place : loc' = [loc EXCEPT ![t] = l] /\ LogicalAt(l) = LogicalAt(loc[t])
    BY <1>4, MovedAway
  <2>3. LogicalAt(l)' = LogicalAt(l)
    BY <2>1, LogicalStays
  <2>4. ASSUME NEW u \in Threads PROVE LogicalAt(loc[u])' = LogicalAt(loc[u])
    <3>1. CASE u = t
      <4>1. loc'[u] = l
        BY <2>1, <2>2, <3>1
      <4>2. LogicalAt(loc[u])' = LogicalAt(l)'
        BY <4>1 DEF LogicalAt
      <4>. QED
        BY <2>2, <2>3, <3>1, <4>2
    <3>2. CASE u # t
      <4>1. loc'[u] = loc[u]
        BY <2>1, <2>2, <3>2
      <4>. QED
        BY <2>1, <4>1 DEF LogicalAt
    <3>. QED
      BY <3>1, <3>2
  <2>. QED
    BY <2>1, <2>4 DEF flowAt
<1>5. ASSUME NEW t \in Threads, Resume(t) PROVE UNCHANGED <<body, flowAt>>
  BY <1>2, <1>5 DEF Resume, buildVars
<1>6. ASSUME WriteOpcode \/ WriteOperand \/ ProtectFails \/ RemoveHook PROVE UNCHANGED <<body, flowAt>>
  BY <1>2, <1>6 DEF WriteOpcode, WriteOperand, ProtectFails, RemoveHook, buildVars
<1>. QED
  BY <1>3, <1>4, <1>5, <1>6 DEF Install

LEMMA GoingOnIsFlow ==
  ASSUME HookInv, NEW t \in Threads, NEW l, GoesOn(t, l)
  PROVE  [Flow!Next]_<<body, flowAt>>
<1>. DEFINE a == LogicalAt(loc[t])
            b == LogicalAt(l)
<1>1. /\ UNCHANGED <<body, tramp>> /\ loc' = [loc EXCEPT ![t] = l] /\ FlowMove(a, b)
      /\ loc \in [Threads -> Place]
  BY DEF GoesOn, Move, buildVars, HookInv, ThreadsOK, Place
<1>2. LogicalAt(l)' = b
  BY <1>1, LogicalStays
<1>3. flowAt[t] = a
  BY DEF flowAt
<1>4. flowAt' = [flowAt EXCEPT ![t] = b]
  <2>1. ASSUME NEW u \in Threads PROVE LogicalAt(loc[u])' = IF u = t THEN b ELSE LogicalAt(loc[u])
    <3>1. CASE u = t
      <4>1. loc'[u] = l
        BY <1>1, <3>1
      <4>2. LogicalAt(loc[u])' = LogicalAt(l)'
        BY <4>1 DEF LogicalAt
      <4>. QED
        BY <1>2, <3>1, <4>2
    <3>2. CASE u # t
      <4>1. loc'[u] = loc[u]
        BY <1>1, <3>2
      <4>2. LogicalAt(loc[u])' = LogicalAt(loc[u])
        BY <1>1, <4>1 DEF LogicalAt
      <4>. QED
        BY <3>2, <4>2
    <3>. QED
      BY <3>1, <3>2
  <2>2. flowAt' = [u \in Threads |-> IF u = t THEN b ELSE LogicalAt(loc[u])]
    BY <2>1 DEF flowAt
  <2>. HIDE DEF b
  <2>. QED
    BY <2>2 DEF flowAt
<1>. HIDE DEF a, b
<1>5. CASE a = b
  <2>1. flowAt' = flowAt
    BY <1>3, <1>4, <1>5 DEF flowAt
  <2>. QED
    BY <1>1, <2>1
<1>6. CASE a = Outside /\ b = 0
  BY <1>1, <1>3, <1>4, <1>6 DEF Flow!Next, Flow!Enter, Flow!Outside, Outside
<1>7. CASE a # Outside /\ a \in DOMAIN body /\ b \in Flow!Succ(a)
  BY <1>1, <1>3, <1>4, <1>7 DEF Flow!Next, Flow!Run, Flow!Outside, Outside
<1>8. CASE a # Outside /\ a \notin DOMAIN body /\ b = Outside
  BY <1>1, <1>3, <1>4, <1>8 DEF Flow!Next, Flow!Leave, Flow!Outside, Outside
<1>. QED
  BY <1>1, <1>5, <1>6, <1>7, <1>8 DEF FlowMove

(* Installing is invisible to the threads, and their steps are the function's. *)
THEOREM HookingKeepsTheFlow ==
  ASSUME \A b \in Bodies : ~JumpsBackOver(b)
  PROVE  HookSpec => FlowIsKept
<1>1. HookInit => HookInv /\ Flow!Init
  <2>. SUFFICES ASSUME HookInit PROVE Flow!Init
    BY HookInvHolds
  <2>1. \A t \in Threads : LogicalAt(loc[t]) = Outside
    BY Places DEF HookInit
  <2>. QED
    BY <2>1 DEF Flow!Init, Flow!Outside, Outside, flowAt
<1>2. HookInv /\ [HookNext]_hookVars => HookInv'
  BY HookInvKept
<1>3. HookInv /\ [HookNext]_hookVars => [phase # "removed" => Flow!Next]_<<body, flowAt>>
  <2>. SUFFICES ASSUME HookInv, [HookNext]_hookVars, phase # "removed"
                PROVE  [Flow!Next]_<<body, flowAt>>
    OBVIOUS
  <2>1. CASE Install
    BY <2>1, InstallingHidden
  <2>2. ASSUME NEW t \in Threads, RunsOn(t) PROVE [Flow!Next]_<<body, flowAt>>
    <3>1. PICK l : GoesOn(t, l)
      BY <2>2, Running
    <3>. QED
      BY <3>1, GoingOnIsFlow
  <2>3. CASE UNCHANGED hookVars
    BY <2>3 DEF hookVars, flowAt, LogicalAt
  <2>. QED
    BY <2>1, <2>2, <2>3 DEF HookNext
<1>. QED
  BY <1>1, <1>2, <1>3, PTL DEF HookSpec, FlowIsKept
===============================================================================
