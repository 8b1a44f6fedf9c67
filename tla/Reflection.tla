------------------------------- MODULE Reflection -------------------------------
(***************************************************************************)
(* reflection.c as a whole.  At process attach hlboot.dat is read, and     *)
(* what is needed of it kept: the table of constructors and the literals   *)
(* of static fields.  Later mods ask the live module for types, members    *)
(* and instances.                                                          *)
(***************************************************************************)
EXTENDS Members, StaticFields, BytecodeShim

CONSTANT Files   \* what hlboot.dat and the game made of it may be

ASSUME ReflectionAssumption == \A file \in Files :
  /\ file.code \subseteq Bodies /\ file.table \in TypeTables /\ IsEntryPoint(file.table)
  /\ file.text \in Seq(Points) /\ file.sizes \in Seq(Nat)

VARIABLES
  text,      \* a name in the file, as code points
  sizes,     \* the sizes that reading it allocates
  literals   \* g_entries of staticfields.c

fileVars == <<text, sizes, literals>>

(* reflection_init_constructor_table goes on to the entry point when it has  *)
(* built its own table.                                                      *)
IndexEntrypoint ==
  /\ TableBuilt
  /\ \E lost \in SUBSET DOMAIN table.entry : literals' = Entries(table, lost)
  /\ UNCHANGED <<memberVars, text, sizes>>

ReflectionInit ==
  /\ \E file \in Files :
       code = file.code /\ table = file.table /\ text = file.text /\ sizes = file.sizes
  /\ ConstructorsInit /\ MembersInit
  /\ literals = <<>>

ReflectionNext ==
  \/ IndexEntrypoint
  \/ ConstructorsNext /\ UNCHANGED <<memberVars, fileVars>>
  \/ MembersNext /\ UNCHANGED fileVars

ReflectionSpec == ReflectionInit /\ [][ReflectionNext]_<<tableVars, memberVars, fileVars>>

-----------------------------------------------------------------------------
(* What is read out of hlboot.dat without running it is what running it      *)
(* does: the call paired with a New is given its object, the first direct    *)
(* one; a literal told of a static field is the one its entry point stores   *)
(* there, whatever ran out of memory; names come out as they were encoded,   *)
(* within the memory their length asked for, in blocks that do not overlap.  *)
ScanIsExact ==
  /\ SitesAreFirstUses
  /\ LiteralsAreStored(table, literals)
  /\ TextIsExact(text) /\ ArenaIsDisjoint(sizes)
=================================================================================
