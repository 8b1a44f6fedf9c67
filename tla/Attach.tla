-------------------------------- MODULE Attach --------------------------------
(***************************************************************************)
(* How hlx-boot gets into the game: DllMain resolves libhl.dll, reads the  *)
(* bytecode version from hlboot.dat, loads the mods' native plugins and    *)
(* hooks hl_dyn_call_safe in the executable's import table; the first call *)
(* through the hook (HookedHlDynCallSafe) recovers the live module, loads  *)
(* hlx-loader.hl, whose main loads the mods, and passes the call on.       *)
(* Each step may fail and the next ones still run.                         *)
(***************************************************************************)
EXTENDS VersionGate, ModuleScan

CONSTANTS
  Mods,          \* mods, each with a module and plugin .hdlls
  ModInfos,      \* what mod.infos they may have
  AppVersions,   \* the game's versions, as the driver tells them
  GameVersions,  \* bytecode versions a game may have
  MaxSupported,  \* the newest that hl_code_read knows
  MaxDepth,      \* bound on safe calls nested in one another
  Genuine        \* candidates that are the game's module, or old copies of it

ASSUME AttachAssumption ==
  /\ \A f \in ModInfos : DOMAIN f = Mods
  /\ \A v \in AppVersions : Len(v) = Parts
  /\ GameVersions \subseteq Nat /\ MaxSupported \in Nat
  /\ MaxDepth \in Nat \ {0}

VARIABLES
  game,      \* bytecode version of the game, and of its hlboot.dat
  app,       \* the game's own version
  modInfo,   \* each mod's mod.info
  pc,        \* DllMain: "setup", "table", "driver", "plugins", "hook", then "up" or "exited"
  resolved,  \* which of "libhl" and "hl_setup" were found
  version,   \* g_hlBytecodeVersion
  driver,    \* "unchecked", then "valid" or "invalid"
  toVisit,   \* mods whose plugins, and later whose modules, are still to come
  plugins,   \* mods whose plugins were loaded
  modules,   \* mods whose module was loaded
  refused,   \* history: mods refused something for their mod.info
  hooked,    \* the import table leads to HookedHlDynCallSafe
  fired,     \* its static latch
  calls,     \* safe calls in progress, innermost last, each with its place
  recovery,  \* what module_recover found, Untried before; and whether it had to
  loads,     \* how often hlx-loader.hl was loaded
  offsets    \* history: the layouts by which hl_setup was read

vars == <<game, app, modInfo, pc, resolved, version, driver, toVisit, plugins, modules, refused,
          hooked, fired, calls, recovery, loads, offsets>>

files == <<game, app, modInfo>>
attachVars == <<resolved, version, driver, toVisit, plugins, refused, hooked>>
bootVars == <<modules, fired, calls, recovery, loads, offsets>>

-----------------------------------------------------------------------------
(* ResolveSetup: without libhl.dll or its hl_setup nothing else of it runs.  *)
ResolveSetup ==
  /\ pc = "setup"
  /\ \E found \in {{}, {"libhl"}, {"libhl", "hl_setup"}} :
       /\ resolved' = found
       /\ pc' = IF "hl_setup" \in found THEN "table" ELSE "driver"
  /\ UNCHANGED <<files, version, driver, toVisit, plugins, refused, hooked, bootVars>>

(* reflection_init_constructor_table, as far as it concerns the version.     *)
Unreadable ==
  /\ pc = "table"
  /\ pc' = "driver"
  /\ UNCHANGED <<files, attachVars, bootVars>>

ReadVersion ==
  /\ pc = "table"
  /\ version' = game
  /\ pc' = IF game > MaxSupported THEN "exited" ELSE "driver"
  /\ UNCHANGED <<files, resolved, driver, toVisit, plugins, refused, hooked, bootVars>>

(* ResolveGameVersionDriver: tried once.  Its library may be missing or too  *)
(* old, or may not find the version.                                         *)
DriverChecked_Never == FALSE   \* mutant: tried again while it is not valid
DriverChecked == driver # "unchecked"

TryDriver ==
  IF driver = "valid" \/ DriverChecked THEN UNCHANGED driver
  ELSE driver' \in {"valid", "invalid"}

Refuses(m) == driver = "valid" /\ ~AllowsVersion(modInfo[m], app)

(* EagerLoadPluginHdlls.                                                     *)
BeginPlugins ==
  /\ pc = "driver"
  /\ TryDriver
  /\ \E found \in {{}, Mods} : toVisit' = found   \* the directory may be missing
  /\ pc' = "plugins"
  /\ UNCHANGED <<files, resolved, version, plugins, refused, hooked, bootVars>>

VisitPlugin(m) ==
  /\ pc = "plugins" /\ m \in toVisit
  /\ toVisit' = toVisit \ {m}
  /\ IF Refuses(m)
     THEN refused' = refused \cup {m} /\ UNCHANGED plugins
     ELSE plugins' \in {plugins, plugins \cup {m}} /\ UNCHANGED refused
  /\ UNCHANGED <<files, pc, resolved, version, driver, hooked, bootVars>>

PluginsDone ==
  /\ pc = "plugins" /\ toVisit = {}
  /\ pc' = "hook"
  /\ UNCHANGED <<files, attachVars, bootVars>>

InstallIATHook ==
  /\ pc = "hook"
  /\ hooked' \in BOOLEAN
  /\ pc' = "up"
  /\ UNCHANGED <<files, resolved, version, driver, toVisit, plugins, refused, bootVars>>

-----------------------------------------------------------------------------
(* HookedHlDynCallSafe.  A mod's main, or the game once it runs, may call    *)
(* through the hook again.                                                   *)
Place == calls[Len(calls)]
Goto(place) == calls' = [calls EXCEPT ![Len(calls)] = place]
At(place) == calls # <<>> /\ Place = place

FiredOnEntry_Late == fired   \* mutant: not set before the loader has run
FiredOnEntry == TRUE

SafeCall ==
  /\ pc = "up" /\ hooked
  /\ calls = <<>> \/ At("mods") \/ At("passed")
  /\ Len(calls) < MaxDepth
  /\ calls' = Append(calls, IF fired THEN "pass" ELSE "recover")
  /\ fired' = FiredOnEntry
  /\ UNCHANGED <<files, pc, attachVars, modules, recovery, loads, offsets>>

Untried == [code |-> "untried", tables |-> "untried", had |-> FALSE]
Recoveries ==
  {[code |-> ModuleRecovered(mem).code, tables |-> ModuleRecovered(mem).tables,
    had |-> \E i \in DOMAIN mem : mem[i] \in Genuine] : mem \in Memories}

ASSUME RecoveryAssumption == Untried \notin Recoveries

ModuleRecover ==
  /\ At("recover")
  /\ recovery' \in Recoveries
  /\ Goto("check")
  /\ UNCHANGED <<files, pc, attachVars, modules, fired, loads, offsets>>

(* load_plugin lies one field further since version 6, which inserted        *)
(* capture_break_context; read by the wrong layout it is another field.      *)
LayoutOf_After(v) == IF v > 6 THEN 6 ELSE 5   \* mutant: off by one
LayoutOf(v) == IF v >= 6 THEN 6 ELSE 5

CheckLoadPlugin ==
  /\ At("check")
  /\ offsets' = IF "hl_setup" \in resolved THEN offsets \cup {LayoutOf(version)} ELSE offsets
  /\ \/ "hl_setup" \in resolved /\ Goto("load")
     \/ Goto("pass")
  /\ UNCHANGED <<files, pc, attachVars, modules, fired, recovery, loads>>

AfterLoad_Return == "return"   \* mutant: the game's own call is taken for served
AfterLoad == "pass"

(* hl_sys_load_plugin: missing, without a loader to load, or running         *)
(* Boot.main, which asks for the game's version first.                       *)
LoadFails ==
  /\ At("load")
  /\ Goto(AfterLoad)
  /\ UNCHANGED <<files, pc, attachVars, modules, fired, recovery, loads, offsets>>

LoadLoader ==
  /\ At("load")
  /\ loads' = loads + 1
  /\ TryDriver
  /\ toVisit' = Mods
  /\ Goto("mods")
  /\ UNCHANGED <<files, pc, resolved, version, plugins, refused, hooked, modules, fired,
                 recovery, offsets>>

VisitModule(m) ==
  /\ At("mods") /\ m \in toVisit
  /\ toVisit' = toVisit \ {m}
  /\ IF Refuses(m)
     THEN refused' = refused \cup {m} /\ UNCHANGED modules
     ELSE modules' \in {modules, modules \cup {m}} /\ UNCHANGED refused
  /\ UNCHANGED <<files, pc, resolved, version, driver, plugins, hooked, fired, calls,
                 recovery, loads, offsets>>

MainEnds ==
  /\ At("mods") /\ toVisit = {}
  /\ Goto(AfterLoad)
  /\ UNCHANGED <<files, pc, attachVars, modules, fired, recovery, loads, offsets>>

PassOn ==
  /\ At("pass")
  /\ Goto("passed")
  /\ UNCHANGED <<files, pc, attachVars, modules, fired, recovery, loads, offsets>>

Return ==
  /\ At("passed") \/ At("return")
  /\ calls' = Front(calls)
  /\ UNCHANGED <<files, pc, attachVars, modules, fired, recovery, loads, offsets>>

-----------------------------------------------------------------------------
Init ==
  /\ game \in GameVersions /\ app \in AppVersions /\ modInfo \in ModInfos
  /\ pc = "setup"
  /\ resolved = {}
  /\ version = -1
  /\ driver = "unchecked"
  /\ toVisit = {} /\ plugins = {} /\ modules = {} /\ refused = {}
  /\ hooked = FALSE /\ fired = FALSE
  /\ calls = <<>>
  /\ recovery = Untried
  /\ loads = 0
  /\ offsets = {}

DllMain ==
  \/ ResolveSetup \/ Unreadable \/ ReadVersion \/ BeginPlugins
  \/ (\E m \in Mods : VisitPlugin(m))
  \/ PluginsDone \/ InstallIATHook

LoaderMain == (\E m \in Mods : VisitModule(m)) \/ MainEnds

BootCall == ModuleRecover \/ CheckLoadPlugin \/ LoadFails \/ LoadLoader \/ PassOn

FirstCall == ~fired /\ SafeCall

Next == DllMain \/ SafeCall \/ BootCall \/ LoaderMain \/ Return

Spec == Init /\ [][Next]_vars

(* Nothing in DllMain waits.  The executable makes its safe call.  A mod's    *)
(* main and what it calls make finitely many calls of their own, hence the   *)
(* strong fairness of steps that wait while nested calls are in progress.    *)
FairSpec ==
  /\ Spec
  /\ WF_vars(DllMain) /\ WF_vars(FirstCall) /\ WF_vars(BootCall)
  /\ SF_vars(LoaderMain) /\ \A d \in 2 .. MaxDepth : SF_vars(Len(calls) = d /\ Return)

-----------------------------------------------------------------------------
(* Versions, mods and places are what they should be; no more calls are in   *)
(* progress than the bound.                                                  *)
Places == {"recover", "check", "load", "mods", "pass", "passed"}
TypeOK ==
  /\ game \in GameVersions /\ version \in {-1, game}
  /\ pc \in {"setup", "table", "driver", "plugins", "hook", "up", "exited"}
  /\ resolved \subseteq {"libhl", "hl_setup"}
  /\ driver \in {"unchecked", "valid", "invalid"}
  /\ plugins \cup modules \cup toVisit \cup refused \subseteq Mods
  /\ hooked \in BOOLEAN /\ fired \in BOOLEAN
  /\ calls \in Seq(Places) /\ Len(calls) <= MaxDepth
  /\ recovery \in Recoveries \cup {Untried}
  /\ loads \in Nat /\ offsets \subseteq {5, 6}

(* However safe calls nest, hlx-loader runs at most once; no mod's module is *)
(* loaded before recovery was tried, and the driver was asked before the     *)
(* first of them and of the plugins.                                         *)
OneLoader ==
  /\ loads <= 1
  /\ modules # {} => recovery # Untried /\ loads = 1 /\ driver # "unchecked"
  /\ plugins # {} => driver # "unchecked"

(* The boot sequence's latches and what was loaded agree.                    *)
BootConsistent == TypeOK /\ OneLoader

(* Whatever else in memory resembles a module, and whatever changes under    *)
(* the scan, hlx goes on with the code and the tables of one genuine module, *)
(* and with none only if no such was there to be read.                       *)
RecoversTheGame ==
  recovery # Untried =>
    IF recovery.code = Nothing THEN recovery.tables = Nothing /\ ~recovery.had
    ELSE \E c \in Genuine : recovery.code = c.code /\ recovery.tables = c.tables

(* Padded minimum and bumped maximum, over all lines of a mod.info, decide   *)
(* as the comparison of what is written in it does.                          *)
GateIsWhatIsMeant ==
  /\ \A m \in refused : ~Meant(modInfo[m], app)
  /\ driver = "valid" => \A m \in plugins \cup modules : Meant(modInfo[m], app)

(* Unless hlboot.dat could not be read, the live hl_setup is read by the     *)
(* layout of the game's own version, which gained a field in 6.  When it     *)
(* could not, version stays -1, which is taken for an old one.               *)
LayoutIsTheGames == version # -1 => offsets \subseteq {IF game < 6 THEN 5 ELSE 6}

(* A game of a supported version gets its own first call through, and one of *)
(* an unsupported version that could be read is told so and ended, whatever  *)
(* else of all this fails.                                                   *)
Running == pc = "up" /\ (hooked => calls # <<>> /\ calls[1] = "passed")
GameStarts == <>(Running \/ (pc = "exited" /\ game > MaxSupported))
===============================================================================
