----------------------------- MODULE BytecodeShim -----------------------------
(***************************************************************************)
(* hlcode_shim.c: what HashLink's bytecode reader needs of its runtime to  *)
(* read hlboot.dat into memory: an arena, and the decoding of names from   *)
(* UTF-8 to UTF-16.                                                        *)
(***************************************************************************)
EXTENDS Integers, SequencesExt, FiniteSets

CONSTANTS
  Chunk,   \* 65536, the least size of an arena's block
  Points   \* code points that names are made of

ASSUME BytecodeShimAssumption ==
  Chunk \in Nat \ {0} /\ \A c \in Points : c \in Nat /\ 0 < c /\ c < 1114112

(* hl_malloc: from the newest block, or from a new one in front of it, for   *)
(* which there must be memory.  An allocation is <<block, offset, size>>.    *)
Remaining(arena) == arena.size - arena.used
Fits_Always(arena, size) == arena.block > 0   \* mutant: what remains is not looked at
Fits(arena, size) == arena.block > 0 /\ Remaining(arena) >= size

Malloc(arena, size) ==
  IF size <= 0 THEN arena
  ELSE IF Fits(arena, size)
       THEN [arena EXCEPT !.used = @ + size,
                          !.given = Append(@, <<arena.block, arena.used, size>>)]
       ELSE [block |-> arena.block + 1, size |-> IF size < Chunk THEN Chunk ELSE size,
             used |-> size, given |-> Append(arena.given, <<arena.block + 1, 0, size>>)]

AllocInit == [block |-> 0, size |-> 0, used |-> 0, given |-> <<>>]
Arena(sizes) ==
  LET arena[n \in 0 .. Len(sizes)] == IF n = 0 THEN AllocInit ELSE Malloc(arena[n - 1], sizes[n])
  IN  arena[Len(sizes)]

(* No two allocations of an arena overlap, and each has all it asked for.    *)
ArenaIsDisjoint(sizes) ==
  LET given == Arena(sizes).given
      Room(b) == LET first == CHOOSE i \in DOMAIN given : given[i][1] = b /\ given[i][2] = 0
                 IN  IF given[first][3] < Chunk THEN Chunk ELSE given[first][3]
  IN  /\ Len(given) = Cardinality({i \in DOMAIN sizes : sizes[i] > 0})
      /\ \A i \in DOMAIN given :
           /\ given[i][2] + given[i][3] <= Room(given[i][1])
           /\ \A j \in DOMAIN given : i < j /\ given[i][1] = given[j][1] =>
                given[i][2] + given[i][3] <= given[j][2]

-----------------------------------------------------------------------------
(* Names are well-formed UTF-8: a lead byte has its continuations.           *)
Continuations(c) == IF c < 128 THEN 0 ELSE IF c < 224 THEN 1 ELSE IF c < 240 THEN 2 ELSE 3
After(s, i) == i + 1 + Continuations(s[i])

(* hl_utf8_length: the UTF-16 units of the text up to its zero, character by *)
(* character.                                                                *)
Units_Bmp(c) == 1   \* mutant: a surrogate pair counts once
Units(c) == IF c < 240 THEN 1 ELSE 2

Counted(s, r) ==
  IF s[r.at] = 0 THEN r
  ELSE [at |-> After(s, r.at), units |-> r.units + Units(s[r.at])]

Utf8Length(s) ==
  LET read[n \in 0 .. Len(s)] == IF n = 0 THEN [at |-> 1, units |-> 0] ELSE Counted(s, read[n - 1])
  IN  read[Len(s)].units

(* hl_from_utf8 into a buffer of that many units and a zero.                 *)
Code(s, i) ==
  LET bits(k) == s[i + k] % 64
  IN  CASE Continuations(s[i]) = 0 -> s[i]
        [] Continuations(s[i]) = 1 -> 64 * (s[i] % 32) + bits(1)
        [] Continuations(s[i]) = 2 -> 4096 * (s[i] % 16) + 64 * bits(1) + bits(2)
        [] Continuations(s[i]) = 3 -> 262144 * (s[i] % 8) + 4096 * bits(1) + 64 * bits(2) + bits(3)

Utf16(c) ==
  IF c >= 65536 THEN <<55296 + ((c - 65536) \div 1024), 56320 + ((c - 65536) % 1024)>> ELSE <<c>>

Decoded(s, outLen, r) ==
  IF Len(r.out) >= outLen \/ s[r.at] = 0 THEN r
  ELSE [at |-> After(s, r.at), out |-> r.out \o Utf16(Code(s, r.at))]

FromUtf8(s, outLen) ==
  LET read[n \in 0 .. Len(s)] ==
        IF n = 0 THEN [at |-> 1, out |-> <<>>] ELSE Decoded(s, outLen, read[n - 1])
  IN  read[Len(s)].out \o <<0>>

(* UTF-8 as it is defined.                                                   *)
Utf8(c) ==
  IF c < 128 THEN <<c>>
  ELSE IF c < 2048 THEN <<192 + (c \div 64), 128 + (c % 64)>>
  ELSE IF c < 65536 THEN <<224 + (c \div 4096), 128 + ((c \div 64) % 64), 128 + (c % 64)>>
  ELSE <<240 + (c \div 262144), 128 + ((c \div 4096) % 64), 128 + ((c \div 64) % 64), 128 + (c % 64)>>

(* A name is decoded completely and within the memory that was asked for it. *)
TextIsExact(points) ==
  LET s == FlattenSeq([i \in DOMAIN points |-> Utf8(points[i])]) \o <<0>>
      units == FlattenSeq([i \in DOMAIN points |-> Utf16(points[i])])
      size == Utf8Length(s)
  IN  /\ FromUtf8(s, size) = units \o <<0>>
      /\ Len(FromUtf8(s, size)) <= size + 1
===============================================================================
