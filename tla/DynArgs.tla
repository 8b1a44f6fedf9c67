-------------------------------- MODULE DynArgs --------------------------------
(***************************************************************************)
(* ResolveDynArgs (reflection.c): how the array of arguments that a mod    *)
(* hands over is unpacked for a call.  An Array<Dynamic> is an ArrayObj or *)
(* an ArrayDyn around one.                                                 *)
(***************************************************************************)
EXTENDS TypeTable

CONSTANTS
  MaxDynArgs,  \* MAX_DYN_ARGS: 16
  Arrays       \* what mods hand over

ASSUME DynArgsAssumption ==
  /\ MaxDynArgs \in Nat \ {0}
  /\ \A a \in Arrays : a # NULL /\ a.class \in {"hl.types.ArrayObj", "hl.types.ArrayDyn"} =>
       LET array == IF a.class = "hl.types.ArrayObj" THEN a ELSE a.array
       IN  array # NULL => array.length \in Nat

NoArray == NULL
Refused == -1
NotCalled == [called |-> NULL, elements |-> 0]

(* ResolveToArrayObj: classes are told by their names.                       *)
IsArrayObj(a) == a # NULL /\ a.class = "hl.types.ArrayObj"
ResolveToArrayObj(a) ==
  IF IsArrayObj(a) THEN a
  ELSE IF a.class = "hl.types.ArrayDyn" /\ IsArrayObj(a.array) THEN a.array ELSE NULL

(* How many elements there are, or Refused.                                  *)
DynArgs_NoReceiver(args, max) ==   \* mutant: no element is set aside for the receiver
  LET a == ResolveToArrayObj(args)
  IN  IF args = NoArray THEN 0 ELSE IF a = NULL \/ a.length > MaxDynArgs THEN Refused ELSE a.length
DynArgs(args, max) ==
  LET a == ResolveToArrayObj(args)
  IN  IF args = NoArray THEN 0 ELSE IF a = NULL \/ a.length > max THEN Refused ELSE a.length

(* What a mod means to hand over.                                            *)
CanBeRead(args) == args = NoArray \/ ResolveToArrayObj(args) # NULL
Given(args) == IF args = NoArray THEN 0 ELSE ResolveToArrayObj(args).length
===============================================================================
