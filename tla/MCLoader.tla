------------------------------ MODULE MCLoader ------------------------------
(***************************************************************************)
(* Loader with two mods that both hook Base.f, one of which hooks it also  *)
(* as the inherited Sub.f, a method g, one that is missing, one too short, *)
(* one that MinHook refuses and one at which it faults.                    *)
(***************************************************************************)
EXTENDS Loader

Handles(fn, mod, key, prefix) == [fn |-> fn, mod |-> mod, key |-> key, prefix |-> prefix]

MCModOrder == <<"a", "b">>
MCHooks ==
  [m \in {"a", "b"} |->
     IF m = "a"
     THEN <<Handles("a1", "a", "Base.f", TRUE), Handles("a2", "a", "Base.f", FALSE),
            Handles("a3", "a", "gone", TRUE), Handles("a4", "a", "tiny", TRUE)>>
     ELSE <<Handles("b1", "b", "Base.f", TRUE), Handles("b2", "b", "Sub.f", TRUE),
            Handles("b3", "b", "g", FALSE), Handles("b4", "b", "edge", TRUE),
            Handles("b5", "b", "odd", TRUE)>>]
MCLate == {Handles("late", "b", "Base.f", TRUE)}
MCKeys == {"Base.f", "Sub.f", "g", "gone", "tiny", "odd", "edge"}
MCAddrOf == [k \in MCKeys |-> CASE k \in {"Base.f", "Sub.f"} -> "addr_f"
                                [] k = "g" -> "addr_g"
                                [] k = "tiny" -> "addr_tiny"
                                [] k = "odd" -> "addr_odd"
                                [] k = "edge" -> "addr_edge"
                                [] OTHER -> NULL]
=============================================================================
