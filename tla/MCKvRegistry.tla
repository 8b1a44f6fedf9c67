---------------------------- MODULE MCKvRegistry ----------------------------
(* KvRegistry with three names of which two differ only in what narrowing  *)
(* to 8 bits drops.                                                        *)
EXTENDS KvRegistry

MCWideNames == {"mods", "a", "b"}
MCNarrowOf == [w \in MCWideNames |-> IF w = "b" THEN "a" ELSE w]
=============================================================================
