------------------------------ MODULE MCModFiles ------------------------------
(***************************************************************************)
(* ModFiles with the loader, a mod that has the loader's name, and one     *)
(* with settings: a volume, to which a second edition adds an object with  *)
(* a position.  The user writes loader.confs with repeated and unreadable  *)
(* lines, on both sides of the last byte that is read, and config.jsons    *)
(* with a null, a leaf for an object and an unknown field.                 *)
(***************************************************************************)
EXTENDS ModFiles

MCShortName == [m \in Modules |-> IF m = "b" THEN "hlx" ELSE m]

MCFields == {"volume", "ui", "x", "y"}
Object(fields) == Tree(PlainObject, [f \in Fields |-> IF f \in DOMAIN fields THEN fields[f] ELSE NULL])

Old(v) == Object([volume |-> Leaf(v)])
New(v, x) == Object([volume |-> Leaf(v), ui |-> Object([x |-> Leaf(x)])])

MCDefault == [e \in {"old", "new"} |-> IF e = "old" THEN Old(5) ELSE New(5, 0)]
MCSaves == [e \in {"old", "new"} |-> IF e = "old" THEN {Old(9)} ELSE {New(9, 0), New(5, 3)}]
MCHandEdits ==
  {Object([volume |-> Leaf(NULL), ui |-> Object([y |-> Leaf(7)])]),
   Object([volume |-> Leaf(9), ui |-> Leaf(1)])}

Line(key, value, end) == [key |-> key, value |-> value, end |-> end]
MCConfs ==
  {<<Line("game_trace", TRUE, 4096)>>,
   <<Line("game_trace", NULL, 14), Line("log_level", Error, 4079), Line("game_trace", TRUE, 4095),
     Line("game_trace", FALSE, 4112), Line("log_level", Debug, 4129)>>}
===============================================================================
