------------------------------ MODULE Constructors ------------------------------
(***************************************************************************)
(* The constructor table of reflection.c and what is built from it: a hash *)
(* table with linear probing, filled once from the sites that the scan of  *)
(* hlboot.dat finds, and asked by construct_instance_by_name for the one   *)
(* candidate of a class's name that takes as many arguments as the mod     *)
(* expects.                                                                *)
(***************************************************************************)
EXTENDS ConstructorScan, DynArgs, FiniteSets

CONSTANTS
  Classes,     \* object and struct types of the game
  Names,       \* their names as hlx_narrow_utf16 leaves them
  NameOf,      \* a class's name; two classes may have one name
  Findexes,    \* functions and natives of the game
  NArgs,       \* how many arguments each takes, the receiver included
  Callable,    \* those that ResolveFunctionByFindex resolves: functions, not natives
  CtorOf,      \* a class's constructor
  Bodies,      \* functions of which games consist
  Hash,        \* HashNarrowName
  TableSize    \* g_ctorNameTableSize, a power of two above twice the types

ASSUME ConstructorsAssumption ==
  /\ NameOf \in [Classes -> Names]
  /\ NArgs \in [Findexes -> Nat]
  /\ Callable \subseteq Findexes
  /\ CtorOf \in [Classes -> Findexes]
  /\ \A r \in DOMAIN TypeOf : TypeOf[r] \in Classes
  /\ \A f \in Bodies :
       /\ Len(f) \in Nat /\ DOMAIN f = 1 .. Len(f)
       /\ \A i \in DOMAIN f : IsOp(f[i]) /\ (f[i].op = "Call" => f[i].p2 \in Findexes)
  /\ Hash \in [Names -> Nat]
  /\ TableSize \in Nat \ {0}
  /\ NULL \notin Names /\ NULL \notin Findexes

VARIABLES
  phase,      \* "attach", "scanning", "built" (g_ctorTableBuilt), "failed", "exited"
  code,       \* the functions in hlboot.dat
  todo,       \* candidates the scan has still to reach
  slots,      \* g_ctorNameBuckets
  kept,       \* history: for each name, the findexes there was memory for
  recovered   \* module_is_recovered()

tableVars == <<phase, code, todo, slots, kept, recovered>>

EmptySlot == [name |-> NULL, findexes |-> {}]
Probes == 0 .. TableSize - 1

-----------------------------------------------------------------------------
(* FindNameBucket: slot after slot from the name's hash, up to the name or   *)
(* an empty slot.                                                            *)
SlotOf(n, p) == (Hash[n] + p) % TableSize
NameAt(n, p) == slots[SlotOf(n, p)].name

Passed(n, p) == \A q \in 0 .. p - 1 : NameAt(n, q) \notin {n, NULL}

FoundAt(n) == {p \in Probes : NameAt(n, p) = n /\ Passed(n, p)}
Free_Any(n) == {p \in Probes : Passed(n, p)}   \* mutant: takes the first slot, whoever has it
Free(n) == {p \in Probes : NameAt(n, p) = NULL /\ Passed(n, p)}
BucketOf(n) == SlotOf(n, CHOOSE p \in FoundAt(n) : TRUE)
Lookup(n) == IF FoundAt(n) = {} THEN {} ELSE slots[BucketOf(n)].findexes

-----------------------------------------------------------------------------
(* reflection_init_constructor_table, run once at process attach.            *)
CannotRead ==   \* no hlboot.dat, not bytecode, or no memory for the table
  /\ phase = "attach"
  /\ phase' = "failed"
  /\ UNCHANGED <<code, todo, slots, kept, recovered>>

UnsupportedVersion ==   \* a message box and ExitProcess
  /\ phase = "attach"
  /\ phase' = "exited"
  /\ UNCHANGED <<code, todo, slots, kept, recovered>>

StartScan ==
  /\ phase = "attach"
  /\ phase' = "scanning"
  /\ todo' = UNION {Candidates(f) : f \in code}
  /\ UNCHANGED <<code, slots, kept, recovered>>

(* AddNameCandidate.  Without memory for a name's copy nothing is stored,    *)
(* without memory for the findex the name's bucket stays as it is; a fault    *)
(* while a function is scanned loses what the scan had still to find in it.  *)
Added_First(old, f) == IF old = {} THEN {f} ELSE old   \* mutant: one candidate a name
Added(old, f) == old \cup {f}

NameCopy_Unset(n) == NULL   \* mutant: the copy is not stored in the bucket
NameCopy(n) == n

Record(n, s, f) ==
  /\ slots' = [slots EXCEPT ![s] = [name |-> NameCopy(n), findexes |-> Added(@.findexes, f)]]
  /\ kept' = [kept EXCEPT ![n] = @ \cup {f}]

AddCandidate(c) ==
  LET n == NameOf[c.class]
  IN  /\ phase = "scanning" /\ c \in todo
      /\ todo' = todo \ {c}
      /\ \/ \E p \in FoundAt(n) \cup Free(n) : Record(n, SlotOf(n, p), c.findex)
         \/ \E p \in Free(n) :
              /\ slots' = [slots EXCEPT ![SlotOf(n, p)] = [name |-> NameCopy(n), findexes |-> {}]]
              /\ UNCHANGED kept
         \/ UNCHANGED <<slots, kept>>
      /\ UNCHANGED <<phase, code, recovered>>

TableBuilt ==
  /\ phase = "scanning" /\ todo = {}
  /\ phase' = "built"
  /\ UNCHANGED <<code, todo, slots, kept, recovered>>

(* The boot call recovers the live module.                                   *)
Recover ==
  /\ phase \in {"built", "failed"} /\ ~recovered
  /\ recovered' = TRUE
  /\ UNCHANGED <<phase, code, todo, slots, kept>>

-----------------------------------------------------------------------------
(* ResolveFunctionByFindex, and FilterCandidatesByArgCount by means of it.   *)
ResolveFunctionByFindex(f) == IF recovered /\ f \in Callable THEN f ELSE NULL

Matches(n, nargs) ==
  {f \in Lookup(n) : ResolveFunctionByFindex(f) # NULL /\ NArgs[f] = nargs}

(* Exactly one match is called, on 0 or several the instance is left as it   *)
(* was allocated.                                                            *)
Chosen_First(matches) ==   \* mutant: the first of several is taken
  IF matches # {} THEN CHOOSE f \in matches : TRUE ELSE NULL
Chosen(matches) == IF \E f \in matches : matches = {f}
                   THEN CHOOSE f \in matches : TRUE ELSE NULL

(* construct_instance_by_name, asked for the constructor of nargs arguments, *)
(* and construct_instance for a findex: with the instance in front of the    *)
(* array's elements, or nothing is called and the instance left as it is.    *)
Constructed(f, args) ==
  LET n == DynArgs(args, MaxDynArgs - 1)
  IN  IF f = NULL \/ n = Refused THEN NotCalled ELSE [called |-> f, elements |-> 1 + n]

Construct(c, nargs, args) ==
  Constructed(IF phase = "built" THEN Chosen(Matches(NameOf[c], nargs)) ELSE NULL, args)

ConstructInstance(f, args) == Constructed(ResolveFunctionByFindex(f), args)

-----------------------------------------------------------------------------
ConstructorsInit ==
  /\ phase = "attach" /\ todo = {}
  /\ slots = [s \in Probes |-> EmptySlot]
  /\ kept = [n \in Names |-> {}]
  /\ recovered = FALSE

(* But for TableBuilt, which goes on to the static fields.                   *)
ConstructorsNext ==
  \/ CannotRead \/ UnsupportedVersion \/ StartScan
  \/ \E c \in todo : AddCandidate(c)
  \/ Recover

-----------------------------------------------------------------------------
(* The table's slots hold names and findexes, nameless ones nothing.         *)
TableOK ==
  /\ phase \in {"attach", "scanning", "built", "failed", "exited"}
  /\ todo \subseteq [class : Classes, findex : Findexes]
  /\ slots \in [Probes -> [name : Names \cup {NULL}, findexes : SUBSET Findexes]]
  /\ \A s \in Probes : slots[s].name = NULL => slots[s] = EmptySlot
  /\ kept \in [Names -> SUBSET Findexes]
  /\ recovered \in BOOLEAN

(* In every function of the game, the call that the scan pairs with a New is, *)
(* when the function runs, given the very object that was allocated: not an   *)
(* older or newer object of the same register.  A use that comes before it is *)
(* of a kind the scan does not look at: a method's or a closure's, or one     *)
(* through a copy.  And an object whose first use is direct has that pair,    *)
(* also when the call's own result goes into the object's register.           *)
SitesAreFirstUses ==
  \A f \in code :
    /\ \A s \in Sites(f) :
         /\ s[2] \in Uses(f, s[1])
         /\ \A i \in Uses(f, s[1]) : i < s[2] => ~IsDirect(f, s[1], i)
    /\ \A n \in DOMAIN f : IsScannable(f[n]) =>
         \A j \in DOMAIN f : IsDirect(f, n, j) /\ IsFirstUse(f, n, j) => <<n, j>> \in Sites(f)

(* Looking a name up finds exactly the candidates recorded for it, whatever  *)
(* names hash to the same slots or wrap around the table's end, in whatever  *)
(* order they came and wherever memory ran out.                              *)
TableIsMap == \A n \in Names : Lookup(n) = kept[n]

(* The table is well formed and is that map.                                 *)
TableConsistent == TableOK /\ TableIsMap

(* A class whose constructor is a candidate and no other candidate takes as  *)
(* many arguments is constructed by it once the module is recovered, and     *)
(* never by anything else; two that take as many are never chosen between.   *)
(* The constructor is given the instance and all that the mod gives, or is   *)
(* not called: the buffer for both is never written past its end.            *)
Known(c) == CtorOf[c] \in kept[NameOf[c]] \cap Callable
Rivals(c) == {f \in (kept[NameOf[c]] \cap Callable) \ {CtorOf[c]} : NArgs[f] = NArgs[CtorOf[c]]}
Calls(f, args) ==
  IF recovered /\ CanBeRead(args) /\ Given(args) < MaxDynArgs
  THEN [called |-> f, elements |-> 1 + Given(args)] ELSE NotCalled
OwnConstructorOrNone ==
  phase = "built" => \A c \in Classes, args \in Arrays :
    /\ Known(c) => Construct(c, NArgs[CtorOf[c]], args) =
                     IF Rivals(c) = {} THEN Calls(CtorOf[c], args) ELSE NotCalled
    /\ CtorOf[c] \in Callable => ConstructInstance(CtorOf[c], args) = Calls(CtorOf[c], args)
=============================================================================
