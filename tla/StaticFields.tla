----------------------------- MODULE StaticFields -----------------------------
(***************************************************************************)
(* staticfields.c: the literals that a game's static fields start with,    *)
(* read out of the entry point's opcodes without running them.             *)
(***************************************************************************)
EXTENDS TypeTable, FiniteSets

(* What is supposed of an entry point: registers are typed, so that one that *)
(* integers are loaded into is never given an object; field numbers are      *)
(* numbers, and fields lists; no two types that have fields have one name.   *)
IsEntryPoint(g) ==
  /\ Len(g.entry) \in Nat /\ DOMAIN g.entry = 1 .. Len(g.entry)
  /\ \A k \in DOMAIN g.entry : g.entry[k].op = "SetField" => g.entry[k].p2 \in Nat
  /\ \A j, k \in DOMAIN g.entry :
       g.entry[j].op = "Int" /\ g.entry[k].op = "GetGlobal" => g.entry[j].p1 # g.entry[k].p1
  /\ \A t \in DOMAIN g.types : g.types[t].fields \in Seq(ToSet(g.types[t].fields))
  /\ \A a, b \in DOMAIN g.types :
       g.types[a].name = g.types[b].name /\ g.types[a].fields # <<>> /\ g.types[b].fields # <<>> =>
         a = b

(* ResolveOwnField: a field's number counts the fields above it first.       *)
ResolveOwnField(types, t, fi) ==
  LET own == fi - FieldsAbove(types, t)
  IN  IF own \in 0 .. Len(types[t].fields) - 1 THEN types[t].fields[own + 1] ELSE NULL

(* staticfields_index_entrypoint: Int, GetGlobal and SetField in a row, on   *)
(* the same registers.                                                       *)
SameSource_Any(load, set) == TRUE   \* mutant: whatever was loaded is what is stored
SameSource(load, set) == load.p1 = set.p3

IsTriple(g, k) ==
  LET ops == g.entry
      t == g.globals[ops[k - 1].p2].type
  IN  /\ ops[k].op = "SetField"
      /\ ops[k - 1].op = "GetGlobal" /\ ops[k - 1].p1 = ops[k].p1
      /\ ops[k - 1].p2 \in DOMAIN g.globals
      /\ ops[k - 2].op = "Int" /\ SameSource(ops[k - 2], ops[k])
      /\ ops[k - 2].p2 \in DOMAIN g.ints
      /\ g.types[t].kind \in {HOBJ, HSTRUCT}
      /\ ResolveOwnField(g.types, t, ops[k].p2) # NULL

Entry(g, k) ==
  LET t == g.globals[g.entry[k - 1].p2].type
  IN  [type |-> g.types[t].name, field |-> ResolveOwnField(g.types, t, g.entry[k].p2),
       value |-> g.ints[g.entry[k - 2].p2]]

(* The entries, by the position each was found at; those for which there is  *)
(* no memory are left out.                                                   *)
Entries(g, lost) == [k \in {i \in (3 .. Len(g.entry)) \ lost : IsTriple(g, i)} |-> Entry(g, k)]

(* resolve_static_int_field_literal: the first entry for the field.          *)
Literals(entries, name, field) ==
  {i \in DOMAIN entries : entries[i].type = name /\ entries[i].field = field}
Literal(entries, name, field) ==
  LET i == Literals(entries, name, field)
  IN  IF i = {} THEN NULL ELSE entries[CHOOSE j \in i : \A k \in i : j <= k].value

-----------------------------------------------------------------------------
(* Execution, straight on: what a register holds before the k-th opcode, and *)
(* the opcodes that store into a field of a global's object.                 *)
Writes(o, reg) == o.op # "SetField" /\ o.p1 = reg
Held(g, k, reg) ==
  LET w == {j \in 1 .. k - 1 : Writes(g.entry[j], reg)}
      o == g.entry[CHOOSE j \in w : \A i \in w : i <= j]
  IN  IF w = {} \/ o.op = "Other" THEN NULL
      ELSE IF o.op = "Int" THEN g.ints[o.p2] ELSE g.globals[o.p2].type

Stores(g, t, field) ==
  {k \in DOMAIN g.entry :
     /\ g.entry[k].op = "SetField" /\ Held(g, k, g.entry[k].p1) = t
     /\ FlatFields(g.types, t)[g.entry[k].p2 + 1] = field}

(* A field that the entry point stores to once holds, if a literal is told   *)
(* of it, that literal.                                                      *)
LiteralsAreStored(g, entries) ==
  \A t \in DOMAIN g.types : \A field \in ToSet(g.types[t].fields) :
    LET v == Literal(entries, g.types[t].name, field)
        s == Stores(g, t, field)
    IN  v # NULL /\ Cardinality(s) <= 1 =>
          \E k \in s : Held(g, k, g.entry[k].p3) = v
=================================================================================
