-------------------------------- MODULE MCBus --------------------------------
(* Bus with two methods, one of which has two closure objects.             *)
EXTENDS Bus

MCClosures == {"x", "y", "y2"}
MCMethodOf == [c \in MCClosures |-> IF c = "x" THEN "mx" ELSE "my"]
=============================================================================
