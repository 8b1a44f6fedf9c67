------------------------------- MODULE MCProcess -------------------------------
(***************************************************************************)
(* Attach and Reflection in one run: how the process comes up, and what    *)
(* becomes of what it read.  Each has in it what it needs of the other, so *)
(* that a behaviour has one of them move and the other stay: Attach moves  *)
(* beside any one file, and Reflection in a game that is up.               *)
(***************************************************************************)
EXTENDS MCAttach, MCReflection

VARIABLE moves   \* "attach" or "reflection"

AFile == CHOOSE f \in Files : TRUE
Supported == CHOOSE v \in GameVersions : v <= MaxSupported

BesideAFile ==
  /\ code = AFile.code /\ table = AFile.table /\ text = AFile.text /\ sizes = AFile.sizes
  /\ Init /\ ReflectionInit

(* The state that Attach reaches without mods, a driver or a hook.           *)
InAGame ==
  /\ game = Supported /\ version = Supported /\ app \in AppVersions
  /\ modInfo = CHOOSE i \in ModInfos : TRUE
  /\ pc = "up" /\ driver = "invalid" /\ hooked = FALSE /\ fired = FALSE
  /\ resolved = {} /\ toVisit = {} /\ plugins = {} /\ modules = {} /\ refused = {}
  /\ calls = <<>> /\ recovery = Untried /\ loads = 0 /\ offsets = {}
  /\ ReflectionInit

ProcessInit == (moves = "attach" /\ BesideAFile) \/ (moves = "reflection" /\ InAGame)

AttachMoves == moves = "attach" /\ Next /\ UNCHANGED <<tableVars, memberVars, fileVars, moves>>
ReflectionMoves == moves = "reflection" /\ ReflectionNext /\ UNCHANGED <<vars, moves>>

(* Fairness is Attach's.                                                     *)
ProcessSpec ==
  /\ ProcessInit
  /\ [][AttachMoves \/ ReflectionMoves]_<<vars, tableVars, memberVars, fileVars, moves>>
  /\ WF_vars(moves = "attach" /\ DllMain) /\ WF_vars(moves = "attach" /\ FirstCall)
  /\ WF_vars(moves = "attach" /\ BootCall) /\ SF_vars(moves = "attach" /\ LoaderMain)
  /\ \A d \in 2 .. MaxDepth : SF_vars(moves = "attach" /\ Len(calls) = d /\ Return)
===============================================================================
