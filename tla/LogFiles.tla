-------------------------------- MODULE LogFiles --------------------------------
(***************************************************************************)
(* Where a printed line goes: the name that was baked into a module's      *)
(* trampolines while it was loaded (ModuleNames) decides between hlx.log   *)
(* and game_trace.log (log.c), as loader.conf does (config.c), over any    *)
(* number of runs of the game, each of which may end at any moment.        *)
(***************************************************************************)
EXTENDS ModuleNames

CONSTANTS
  Confs,     \* loader.confs a user may write: lines, with value NULL when unreadable
  BufferEnd  \* the bytes LoadLoaderConfig reads: all but one of its buffer's

ASSUME LogFilesAssumption == \A c \in Confs : Len(c) \in Nat /\ DOMAIN c = 1 .. Len(c)

VARIABLES
  up,        \* the process runs
  conf,      \* loader.conf, NULL when there is none
  trace,     \* g_gameTraceEnabled
  level,     \* g_logLevel
  unread,    \* history: there was no loader.conf to read, or it could not be
  nameless   \* modules for whose trampolines there was no memory

logVars == <<vars, up, conf, trace, level, unread, nameless>>

-----------------------------------------------------------------------------
(* config.c: the first line that names the key and has a value for it.  Of   *)
(* the file only the first bytes are read; a line whose value is not over    *)
(* there says nothing, as none of the words read starts another.             *)
Debug == 0
Info == 1
Error == 2
Recognized(key) == IF key = "game_trace" THEN BOOLEAN ELSE Debug .. Error
LinesFor(c, key) ==
  {i \in DOMAIN c : c[i].key = key /\ c[i].value \in Recognized(key) /\ c[i].end <= BufferEnd}

Setting_Strict(c, key, default) ==   \* mutant: a line that cannot be read ends the search
  LET i == {j \in DOMAIN c : c[j].key = key}
  IN  IF i = {} \/ ~(i \subseteq LinesFor(c, key)) THEN default
      ELSE c[CHOOSE j \in i : TRUE].value
Setting(c, key, default) ==
  LET i == LinesFor(c, key)
  IN  IF i = {} THEN default ELSE c[CHOOSE j \in i : \A k \in i : j <= k].value

DefaultConf == <<[key |-> "game_trace", value |-> FALSE, end |-> 276],
                 [key |-> "log_level", value |-> Info, end |-> 531]>>
Written == {<<>>, DefaultConf}   \* WriteFile may fail

(* DllMain: LoadLoaderConfig reads loader.conf.  If it cannot open it, it    *)
(* tries to create it, which fails when the file was there after all.        *)
LoadLoaderConfig ==
  /\ ~up /\ up' = TRUE
  /\ unread' \in {TRUE, conf = NULL}
  /\ IF unread'
     THEN /\ conf' \in IF conf = NULL THEN {NULL} \cup Written ELSE {conf}
          /\ UNCHANGED <<trace, level>>
     ELSE /\ trace' = Setting(conf, "game_trace", trace)
          /\ level' = Setting(conf, "log_level", level)
          /\ UNCHANGED conf
  /\ UNCHANGED <<vars, nameless>>

(* log.c: the file of a line that HookedSysPrintCommon is given, by a module *)
(* or by the game, whose sys_print has no name; or hlx_log, by hlx-boot.     *)
NameOf(m) == IF m \in nameless THEN NULL ELSE baked[m]   \* HlxRuntime.moduleName()

Route_NoTag(tag) == IF trace THEN "game_trace.log" ELSE NULL   \* mutant: names are not looked at
Route(tag) ==
  IF tag # NULL THEN "hlx.log" ELSE IF trace THEN "game_trace.log" ELSE NULL

FileOfLog(severity) == IF severity < level THEN NULL ELSE "hlx.log"

-----------------------------------------------------------------------------
(* Loading goes on as ModuleNames says; the trampolines may find no memory.  *)
LoadingStep == Boot \/ (\E m \in Modules : LoadPlugin(m)) \/ Return \/ (\E k \in 1 .. MaxLoads : Throw(k))
LoadStep ==
  /\ up
  /\ \/ LoadingStep /\ UNCHANGED nameless
     \/ Resolve /\ nameless' \in {nameless, nameless \cup {Last(loading).module}}
  /\ UNCHANGED <<up, conf, trace, level, unread>>

(* The process ends, however it does: what was in memory is gone.            *)
Fresh ==
  /\ fired' = FALSE /\ stack' = <<>> /\ loading' = <<>> /\ threw' = FALSE
  /\ baked' = [m \in Modules |-> NULL]
  /\ trace' = FALSE /\ level' = Info /\ unread' = TRUE /\ nameless' = {}

End ==
  /\ up /\ up' = FALSE
  /\ Fresh
  /\ UNCHANGED <<overflowed, conf>>

(* Between runs the user may edit the file.                                  *)
EditConf ==
  /\ ~up
  /\ conf' \in Confs
  /\ UNCHANGED <<vars, up, trace, level, unread, nameless>>

-----------------------------------------------------------------------------
LogInit ==
  /\ Init
  /\ up = FALSE /\ conf = NULL /\ trace = FALSE /\ level = Info /\ unread = TRUE
  /\ nameless = {}

LogNext == LoadLoaderConfig \/ LoadStep \/ End \/ EditConf

LogSpec == LogInit /\ [][LogNext]_logVars

-----------------------------------------------------------------------------
(* The settings read from loader.conf have values.                           *)
LogTypeOK ==
  /\ up \in BOOLEAN /\ conf \in Confs \cup {NULL} \cup Written
  /\ trace \in BOOLEAN /\ level \in Debug .. Error /\ unread \in BOOLEAN
  /\ nameless \subseteq Modules

(* What loader.conf says of a key, in the bytes that are read of it.         *)
Says(c, key, default) ==
  LET said == {c[i].value : i \in LinesFor(c, key)}
  IN  IF said = {} THEN {default} ELSE said
WasRead == IF unread THEN <<>> ELSE conf

(* A module's line is in hlx.log under the module's own name and in no other *)
(* file, whatever was loaded within what and however it ended; the game's    *)
(* lines are in game_trace.log if loader.conf asks for them, and in hlx.log  *)
(* never; hlx-boot's own are in hlx.log if they are as severe as it asks.    *)
(* A loader.conf that cannot be opened asks for nothing, nor does what is    *)
(* behind the bytes read of a long one.                                      *)
LinesGoWhereTheyBelong ==
  up /\ ~overflowed =>
    /\ \A m \in {n \in Modules \ nameless : baked[n] # NULL} :
         NameOf(m) = ShortName[m] /\ Route(NameOf(m)) = "hlx.log"
    /\ \E t \in Says(WasRead, "game_trace", FALSE) :
         Route(NULL) = IF t THEN "game_trace.log" ELSE NULL
    /\ \E l \in Says(WasRead, "log_level", Info) : \A severity \in Debug .. Error :
         FileOfLog(severity) = IF severity >= l THEN "hlx.log" ELSE NULL

(* The settings of the logs, and the lines' owners, are what they should be. *)
LogsConsistent == LogTypeOK /\ LinesGoWhereTheyBelong
===============================================================================
