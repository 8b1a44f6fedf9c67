------------------------------- MODULE TypeTable -------------------------------
(***************************************************************************)
(* The types of a game, as hlboot.dat declares them and the live module    *)
(* has them: a sequence of types, whose supertypes are positions in it.  A *)
(* class's static members are the fields of a companion type, whose name   *)
(* is the class's with a dollar.                                           *)
(***************************************************************************)
EXTENDS Integers, SequencesExt

CONSTANTS
  NULL,      \* a null pointer: no type, no function, no name, no array
  LongNames  \* names that leave no room for a dollar in a buffer of 256

(* hl_type: its kind, name, super, the names of its own fields, its own      *)
(* methods (functions by name), what the compiler bound to its fields, and   *)
(* whether it has a global_value.                                            *)
HOBJ == "obj"
HENUM == "enum"
HSTRUCT == "struct"

(* A type and its supertypes, nearest first.                                 *)
Lineage(types, t) ==
  LET line[i \in DOMAIN types] ==
        IF types[i].super = NULL THEN <<i>> ELSE <<i>> \o line[types[i].super]
  IN  line[t]

FieldsAbove_Super(types, t) ==   \* mutant: stops at the immediate supertype
  IF types[t].super = NULL THEN 0 ELSE Len(types[types[t].super].fields)
FieldsAbove(types, t) ==
  LET above[i \in DOMAIN types] ==
        IF types[i].super = NULL THEN 0
        ELSE above[types[i].super] + Len(types[types[i].super].fields)
  IN  above[t]

(* All fields of an object in the order HashLink numbers them.               *)
FlatFields(types, t) ==
  LET flat[i \in DOMAIN types] ==
        IF types[i].super = NULL THEN types[i].fields
        ELSE flat[types[i].super] \o types[i].fields
  IN  flat[t]

(* resolve_type_by_name: the first object or enum type of that name.         *)
TypeNamed(types, name) ==
  LET n == {i \in DOMAIN types : types[i].kind \in {HOBJ, HENUM} /\ types[i].name = name}
  IN  IF n = {} THEN NULL ELSE Min(n)

(* What the compiler calls a class's companion: a dollar before the last     *)
(* part of the name; and BuildCompanionTypeName, which does it in a buffer.  *)
CompanionName(name) == [name EXCEPT !.dollars = @ + 1]
BuildCompanionTypeName(name) == IF name \in LongNames THEN NULL ELSE CompanionName(name)
=================================================================================
