------------------------------- MODULE Buffers -------------------------------
(***************************************************************************)
(* MinHook's buffer.c: trampoline slots, taken from blocks of memory that  *)
(* lie near the code to be hooked.  Addresses are counted in slots.  The   *)
(* game allocates and frees memory while a search for a block walks over   *)
(* the process's regions.                                                  *)
(***************************************************************************)
EXTENDS Integers, FiniteSets, SequencesExt

CONSTANTS
  LastAddr,            \* addresses are 0 .. LastAddr
  LowAddr, HighAddr,   \* lpMinimumApplicationAddress, lpMaximumApplicationAddress
  BlockSize,           \* MEMORY_BLOCK_SIZE: the header's slot and the others
  Granularity,         \* dwAllocationGranularity
  MaxRange,            \* MAX_MEMORY_RANGE
  Origins,             \* addresses of functions to be hooked
  CodeBase, CodeEnd    \* the allocation they are in

ASSUME BuffersAssumption ==
  /\ LastAddr \in Nat /\ LowAddr \in 0 .. LastAddr /\ HighAddr \in LowAddr .. LastAddr
  /\ BlockSize \in Nat \ {0, 1} /\ Granularity \in Nat \ {0} /\ MaxRange \in Nat
  /\ Granularity % BlockSize = 0
  /\ CodeBase \in Nat /\ CodeEnd \in Nat /\ CodeBase % Granularity = 0
  /\ Origins \subseteq (LowAddr .. HighAddr) \cap (CodeBase .. CodeEnd - 1)

Granules == {a \in 0 .. LastAddr : a % Granularity = 0}
Free == -1
NoSlot == -1

VARIABLES
  mem,        \* for each granule, the base of the allocation it is in, or Free
  blocks,     \* g_pMemoryBlocks
  free,       \* each block's list of free slots
  usedCount,
  live,       \* slots handed out, with the function each is for
  search,     \* GetMemoryBlock's loops: the next address to look at
  seenTaken   \* history: granules not to be had at some moment of the search

vars == <<mem, blocks, free, usedCount, live, search, seenTaken>>
lists == <<blocks, free, usedCount, live>>

Idle == [phase |-> "idle", origin |-> 0, at |-> 0]
RoundDown(a) == a - (a % Granularity)
RoundUp(a) == RoundDown(a + Granularity - 1)

MinAddr(o) == IF o > MaxRange /\ LowAddr < o - MaxRange THEN o - MaxRange ELSE LowAddr
MaxAddr(o) ==
  (IF HighAddr > o + MaxRange THEN o + MaxRange ELSE HighAddr) - (BlockSize - 1)

InRange_Any(b, o) == TRUE   \* mutant: takes blocks that are too far
InRange(b, o) == MinAddr(o) <= b /\ b < MaxAddr(o)

-----------------------------------------------------------------------------
(* AllocateBuffer, GetMemoryBlock.                                           *)
NewSlots_WithHeader(b) == Reverse([k \in 1 .. BlockSize |-> b + k - 1])  \* mutant: starts at the header
NewSlots(b) == Reverse([k \in 1 .. BlockSize - 1 |-> b + k])

Popped_Kept(list) == list   \* mutant: the head stays on the list
Popped(list) == Tail(list)

HandOut(s, o) == live' = [a \in DOMAIN live \cup {s} |-> IF a = s THEN o ELSE live[a]]

Usable(o) == {i \in DOMAIN blocks : InRange(blocks[i], o) /\ free[blocks[i]] # <<>>}

Reuse(b, o) ==
  /\ HandOut(Head(free[b]), o)
  /\ free' = [free EXCEPT ![b] = Popped(@)]
  /\ usedCount' = [usedCount EXCEPT ![b] = @ + 1]
  /\ UNCHANGED <<blocks, search, seenTaken>>

AllocateBuffer(o) ==
  /\ search = Idle
  /\ IF Usable(o) # {}
     THEN \E i \in Usable(o) : (\A j \in Usable(o) : i <= j) /\ Reuse(blocks[i], o)
     ELSE /\ search' = [phase |-> "prev", origin |-> o, at |-> RoundDown(o) - Granularity]
          /\ seenTaken' = {a \in Granules : mem[a] # Free}
          /\ UNCHANGED lists
  /\ UNCHANGED mem

Goto(phase, at) == search' = [search EXCEPT !.phase = phase, !.at = at]
Below(o) == Goto("next", RoundDown(o) + Granularity)

BeforeRegion_Far(base) == base - 2 * Granularity   \* mutant: steps over a free granule
BeforeRegion(base) == base - Granularity

Exhausted(at) == at < MinAddr(search.origin) \/ mem[at] \in 0 .. Granularity - 1

FindPrevFreeRegion ==
  /\ search.phase = "prev"
  /\ LET at == search.at
     IN  IF Exhausted(at) THEN Below(search.origin)
         ELSE IF mem[at] = Free THEN Goto("allocPrev", at)
         ELSE Goto("prev", BeforeRegion(mem[at]))
  /\ UNCHANGED <<mem, lists, seenTaken>>

RegionEnds(at) ==   \* an allocation may be several regions of equal pages
  {e \in (at + 1) .. (LastAddr + 1) :
     \A a \in Granules : at <= a /\ a < e => mem[a] = mem[at]}

FindNextFreeRegion ==
  /\ search.phase = "next"
  /\ LET at == search.at
     IN  \/ /\ at > MaxAddr(search.origin)   \* AllocateBuffer answers NULL
            /\ search' = Idle /\ seenTaken' = {}
         \/ /\ at <= MaxAddr(search.origin) /\ mem[at] = Free
            /\ Goto("allocNext", at) /\ UNCHANGED seenTaken
         \/ /\ at <= MaxAddr(search.origin) /\ mem[at] # Free
            /\ \E e \in RegionEnds(at) : Goto("next", RoundUp(e))
            /\ UNCHANGED seenTaken
  /\ UNCHANGED <<mem, lists>>

AddBlock(b) ==
  /\ mem' = [mem EXCEPT ![b] = b]
  /\ blocks' = <<b>> \o blocks
  /\ LET slots == NewSlots(b)
     IN  /\ free' = [a \in DOMAIN free \cup {b} |-> IF a = b THEN Popped(slots) ELSE free[a]]
         /\ usedCount' = [a \in DOMAIN free \cup {b} |-> IF a = b THEN 1 ELSE usedCount[a]]
         /\ HandOut(Head(slots), search.origin)
  /\ search' = Idle /\ seenTaken' = {}

AfterRefusal_Again(at) == at   \* mutant: asks for the same address for ever
AfterRefusal(at) ==
  IF search.phase = "allocPrev" THEN RoundDown(at) - Granularity ELSE RoundDown(at) + Granularity

VirtualAlloc ==   \* fails when another thread was faster, or memory is short
  /\ search.phase \in {"allocPrev", "allocNext"}
  /\ \/ mem[search.at] = Free /\ AddBlock(search.at)
     \/ /\ Goto(IF search.phase = "allocPrev" THEN "prev" ELSE "next", AfterRefusal(search.at))
        /\ seenTaken' = seenTaken \cup {search.at}
        /\ UNCHANGED <<mem, lists>>

-----------------------------------------------------------------------------
BlockOf(s) == (s \div BlockSize) * BlockSize

Unlinked(b) == RemoveAt(blocks, CHOOSE i \in DOMAIN blocks : blocks[i] = b)

CountAfterFree_Same(b) == usedCount[b]   \* mutant: not counted down
CountAfterFree(b) == usedCount[b] - 1

FreeBuffer(s) ==
  /\ search = Idle /\ s \in DOMAIN live
  /\ live' = [a \in DOMAIN live \ {s} |-> live[a]]
  /\ LET b == BlockOf(s)
     IN  IF b \notin ToSet(blocks) THEN UNCHANGED <<mem, blocks, free, usedCount>>
         ELSE IF CountAfterFree(b) = 0
         THEN /\ mem' = [mem EXCEPT ![b] = Free]
              /\ blocks' = Unlinked(b)
              /\ free' = [a \in DOMAIN free \ {b} |-> free[a]]
              /\ usedCount' = [a \in DOMAIN free \ {b} |-> usedCount[a]]
         ELSE /\ free' = [free EXCEPT ![b] = <<s>> \o @]
              /\ usedCount' = [usedCount EXCEPT ![b] = CountAfterFree(b)]
              /\ UNCHANGED <<mem, blocks>>
  /\ UNCHANGED <<search, seenTaken>>

(* Other threads of the game.                                                *)
OtherAllocates(as) ==
  /\ \A a \in as : mem[a] = Free
  /\ mem' = [a \in Granules |-> IF a \in as THEN Min(as) ELSE mem[a]]
  /\ seenTaken' = IF search = Idle THEN seenTaken ELSE seenTaken \cup as
  /\ UNCHANGED <<lists, search>>

OtherFrees(base) ==
  /\ base \notin ToSet(blocks) \cup {CodeBase}
  /\ \E a \in Granules : mem[a] = base
  /\ mem' = [a \in Granules |-> IF mem[a] = base THEN Free ELSE mem[a]]
  /\ UNCHANGED <<lists, search, seenTaken>>

-----------------------------------------------------------------------------
RunOf(i, n) == {a \in Granules : i <= a /\ a < i + n * Granularity}
Runs == {RunOf(i, n) : i \in Granules, n \in 1 .. 2}

Init ==
  /\ mem = [a \in Granules |->
              IF CodeBase <= a /\ a < CodeEnd THEN CodeBase
              ELSE IF a < LowAddr \/ a > HighAddr THEN a ELSE Free]
  /\ blocks = <<>> /\ free = [b \in {} |-> <<>>] /\ usedCount = [b \in {} |-> 0]
  /\ live = [s \in {} |-> 0]
  /\ search = Idle /\ seenTaken = {}

Search == FindPrevFreeRegion \/ FindNextFreeRegion \/ VirtualAlloc
Other ==
  \/ \E as \in Runs : OtherAllocates(as)
  \/ \E a \in Granules : LowAddr <= a /\ a <= HighAddr /\ OtherFrees(a)

Next ==
  \/ Search \/ Other
  \/ \E o \in Origins : AllocateBuffer(o)
  \/ \E s \in DOMAIN live : FreeBuffer(s)

Spec == Init /\ [][Next]_vars

(* The searching thread is scheduled; the others may do what they like.      *)
FairSpec == Spec /\ WF_vars(Search)

-----------------------------------------------------------------------------
(* The lists stay lists: no block or slot is in one twice.                   *)
TypeOK ==
  /\ mem \in [Granules -> Granules \cup {Free}]
  /\ ToSet(blocks) \subseteq Granules /\ IsInjective(blocks)
  /\ DOMAIN free = ToSet(blocks) /\ DOMAIN usedCount = ToSet(blocks)
  /\ \A b \in ToSet(blocks) : IsInjective(free[b]) /\ usedCount[b] \in Nat
  /\ search.phase \in {"idle", "prev", "allocPrev", "next", "allocNext"}

(* Each slot of a block, and nothing else of it, is either free or somebody's, *)
(* and is counted; the memory stays ours exactly as long as one is in use.   *)
BlocksServeTheirSlots ==
  /\ \A s \in DOMAIN live : BlockOf(s) \in ToSet(blocks)
  /\ \A b \in ToSet(blocks) :
       LET mine == {s \in DOMAIN live : BlockOf(s) = b}
       IN  /\ mem[b] = b
           /\ mine \cap ToSet(free[b]) = {}
           /\ mine \cup ToSet(free[b]) = b + 1 .. b + BlockSize - 1
           /\ usedCount[b] = Cardinality(mine) /\ mine # {}

(* Blocks, their free lists and the slots in use agree.                      *)
BlocksConsistent == TypeOK /\ BlocksServeTheirSlots

(* A trampoline is near enough to its function for 32-bit displacements,     *)
(* whichever function its block was once allocated for.                      *)
SlotsAreNear ==
  \A s \in DOMAIN live : live[s] - MaxRange <= s /\ s <= live[s] + MaxRange

(* AllocateBuffer gives up only when there is no granule in range that was   *)
(* free all along, whatever other threads allocate and free meanwhile.       *)
GivesUpOnlyWhenFull ==
  [][(search # Idle /\ search' = Idle /\ UNCHANGED live) =>
       \A a \in Granules :
         MinAddr(search.origin) <= a /\ a <= MaxAddr(search.origin) => a \in seenTaken]_vars

(* Each search ends, although memory may come and go under it.               *)
SearchEnds == search # Idle ~> search = Idle
===============================================================================
