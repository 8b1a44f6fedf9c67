------------------------------- MODULE MCAttach -------------------------------
(***************************************************************************)
(* Attach with one mod that has no mod.info and one whose mod.info bounds  *)
(* the game's version 1.1 by any minimum or maximum of up to two           *)
(* components, by one of each, or by nothing that can be read.  Memory has *)
(* up to three candidates: the game's module, an old copy of it with its  *)
(* own tables, and what resembles one.                                       *)
(***************************************************************************)
EXTENDS Attach

Bounds == UNION {[1 .. n -> 0 .. 2] : n \in 0 .. Parts}
Line(k, b) == [key |-> k, value |-> b]
Infos ==
  {<<Line(k, b)>> : k \in {"min", "max"}, b \in Bounds}
    \cup {<<Line("min", <<1>>), Line("other", <<>>), Line("max", <<1, b>>)>> : b \in 0 .. 2}
    \cup {<<Line("max", <<1, 0>>), Line("min", <<b>>)>> : b \in 0 .. 2}

MCMods == {"free", "bound"}
MCAppVersions == {<<1, 1>>}
MCModInfos == {[m \in MCMods |-> IF m = "free" THEN <<>> ELSE i] : i \in Infos}

Candidate(name, jit, entry, epPtr) ==
  [jit |-> jit, codesize |-> 3, code |-> name, functionsPtrs |-> name, entry |-> entry,
   epPtr |-> epPtr, tables |-> name]
Own == Candidate("own", 3, 1, Target)
Copy == Candidate("copy", 3, 1, Target)
Resembling ==
  {Fault, [Own EXCEPT !.jit = Nothing], [Own EXCEPT !.codesize = MaxCode + 1],
   [Candidate("null", 3, 0, Target) EXCEPT !.code = Nothing],
   Candidate("ends before", 2, 0, Target), Candidate("starts after", 6, 0, Target),
   Candidate("wild", 3, MaxFunctions, Target), Candidate("freed", 3, Fault, Fault),
   Candidate("other", 4, 0, 4)}
MCGenuine == {Own, Copy}
MCMemories == UNION {[1 .. n -> {Own, Copy} \cup Resembling] : n \in 0 .. 3}
===============================================================================
