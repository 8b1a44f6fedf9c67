# hlx-core in TLA+

hlx-core lets mods written in Haxe hook the functions of a HashLink game. A
native library, `hlx-boot` (C), takes the place of the game's `std` library; on
the game's first safe call it loads `hlx-loader` (Haxe), which loads the mods;
mods use `hlx-runtime` (Haxe), whose natives are `hlx-boot`'s. This directory
models the parts of it whose state can go wrong, checks them on small instances
with TLC and proves what matters most of them, for any instance, with TLAPS.

Contents: [the system](#the-system) - [modules](#modules) - [runs](#runs) -
[fairness](#fairness) - [proofs](#proofs) - [where code and documents differ](#where-code-and-documents-differ)
- [not modelled](#what-is-not-modelled) - [plan](#plan)

Paths are relative to the repository.

## The system

| part | state | operations | what makes it correct |
|---|---|---|---|
| patch table, `hlx-boot/src/patching.c` | `g_patches`, `g_patchCount`, `g_sortedFunctionStarts`, `g_minHookInitialized` | `install_patch`, `call_original` | a handle stands for one function whose redirect leads to the receiver it was installed with; a failed install leaves nothing behind; no jump is written over the next function |
| MinHook, `hlx-boot/vendor/minhook` | `g_isLocked`, `g_hHeap`, `g_hooks`, blocks and free slots of `buffer.c`, trampolines, suspended threads | `MH_Initialize`, `MH_CreateHook`, `MH_EnableHook`, `MH_RemoveHook` | its list has one user at a time; an enabled hook stays as it is; threads run the function's own instructions throughout; trampolines are near and nobody else's |
| core registry, `hlx-boot/src/registry.c`, `hlx-runtime/.../Registry.hx` | `g_entries`, the roots given to the collector | register, unregister, get, count, value_at, list | a map from (bucket, key) to the newest value; what it holds stays alive |
| message bus, `hlx-boot/src/bus.c` | `g_subscribers`, roots, the loops of the publishes in progress | subscribe, unsubscribe, publish | each subscriber is called once per publish; no loop reads a freed node |
| module names, `hlx_common.c`, `log.c` | `g_moduleStack`, a name inside each module's trampolines | push, pop, resolve | each module's `trace` and `moduleName()` carry its own name |
| loader, `hlx-loader/src/hlx` and `boot.c` | `Registry.registry`, the loader's closures, mods still to load | boot, load, register, install, dispatch, call the original | one mod's failure costs no other mod; handlers run once, in load order, around an original that runs once unless skipped |
| process attach, `boot.c`, `driver.c` | resolved natives, `g_hlBytecodeVersion`, the driver's and the boot call's latches, the IAT entry | `DllMain`, `HookedHlDynCallSafe` | hlx-loader runs once, whatever fails the game starts, a mod is judged alike early and late |
| reflection, `reflection.c`, `staticfields.c`, `hlcode_shim.c`, `HlxRuntime.hx` | constructor table, literals of static fields, the runtime's caches of types and members | read `hlboot.dat`; resolve types, members, constructors, class objects; construct instances and enum values | what is read out of the file is what running it does; a mod is given the function, constructor or object that is the class's own, or none |
| module recovery, `module.c` | `g_recoveredCode` and four pointers | `module_recover`, once | finds the game's module or fails closed |
| version gate, `modinfo.c`, `driver.c` | the driver's latch | version bounds of a `mod.info` | a mod runs exactly for the versions it names |
| configuration, logs, settings: `config.c`, `log.c`, `ModConfig.hx` | two flags; `loader.conf`, the log files, each mod's `config.json` | read and first write `loader.conf`; file a printed line; load, fill in defaults, save | lines and settings go under the module's own name; settings come back as they were saved |

How they interact: everything above the C library runs on the game's main
thread. `HookedHlDynCallSafe` recovers the module and loads hlx-loader before it
passes on the first safe call. `Boot.main` hands hlx-boot three closures
(`loader_ready`), loads each mod through `sys_load_plugin` (hooked by
`HookedSysLoadPlugin`, which brackets the load with push and pop of the mod's
name), and the mod's generated `__init__` calls back into
`Registry.registerPrefix`/`registerPostfix` through hlx-boot. When all mods are
loaded, `installAllPendingPatches` calls `install_patch` for each target, which
drives MinHook. From then on a call of a patched function runs the mod's
generated receiver, and through `hlx_dispatch` the loader's
`Dispatcher.dispatch`, which calls prefixes, `call_original` and postfixes.
Registry and bus are shared by all mods; values and closures they hold are
reachable for the collector only through the roots they register.

What is hard here, and hardly reached by tests:

* re-entrancy: handlers called from the loops of `bus_publish` and `dispatch`
  change the lists being walked, or start another walk;
* exceptions: a Haxe exception leaves C frames without running their cleanup
  (name stack, publishes), an access violation is caught outside the library
  that holds a lock;
* partial failure: each install has a dozen steps that can fail, `malloc` can
  fail after the old entry was erased, one bad target sits among good ones;
* limits: the patch table, the name stack, text cut to 8 bits per character;
* staleness: roots left on freed memory, boundaries not known yet, an index
  counted before the list changed, members remembered before their class exists;
* files: the process ends in the middle of a save, the next run has another
  edition of the mod;
* other threads: a game may reach `install_patch` (a public native) from two,
  runs the functions while they are rewritten, and allocates and frees memory
  while MinHook looks for some and the module is searched for.

`PROJECT.json` lists each hazard at its line, with the properties that cover it.

## Modules

Names follow the source where TLA+ allows. In each module the operators ending
in `_Something`, marked `\* mutant`, are deliberately wrong variants of the
definition below them; no specification uses them. They document which bug each
property would catch.

**Patching** - `install_patch` and the MinHook calls it makes, by any number of
threads. `pc[c]` says where caller `c` is; its steps are as long as what nobody
else can interrupt: the scan of the table (`LookupPatch`), the boundary check
(`CheckBoundary`), for each MinHook call the acquisition of the spin lock
(`EnterSpinLock`) and then its body including the release (`Initialize`,
`CreateHook`, `EnableHook`, `RemoveHook`), and read, write and fill of
`handle = g_patchCount++; g_patches[handle] = ...`, which no lock protects.
Every failure is there: no memory, memory not executable, an instruction that
cannot be relocated, threads that cannot be frozen, a page that cannot be
unprotected, a fault while decoding. MinHook's hooks are a function of the
target address, `[detour, isEnabled]`; `slots` counts what `AllocateBuffer`
handed out. Addresses are bytes: `Starts` are the entries of all compiled
functions, `Listed` those whose findex is below `nfunctions`, which is how far
`EnsureFunctionBoundaries` reads a table that functions and natives share. The
binary search over them is abstracted to its answer (`HasRoom(Listed, a)`).

**KvRegistry** - `registry.c` with the list as a sequence, newest first, each
entry with the address (`node`) `malloc` gave it, so that roots can dangle and
addresses can be reused; with `Registry.list` as the count and the single reads
it makes, and with the collector (`Collect`), which frees a value no rooted cell
of a live entry holds. `NarrowOf` is what `hlx_narrow_utf16` makes of a name.
Truncation of names past the buffers is one of the things `NarrowOf` stands for.
**KvStore** is the map it promises; `KvRegistry!ImplementsStore` says that it
keeps the promise under `StoreView`, the newest value of each name.

**Bus** - `bus.c` with a stack of publishes (`frames`), each with the loop's
`e` and `next`. A mod's code runs outside every publish or inside the innermost
handler (`ModRuns`), and may subscribe, unsubscribe, publish or throw
(`Throw(k)` abandons the `k` innermost publishes, as the exception passes
through C frames up to a Haxe `catch`). `dangling` records that a loop followed
a pointer to a freed node, after which the program has no defined behaviour.
`OwnOnly` restricts handlers to what bus.c says is supported: erasing only the
subscription they are being called for.

**ModuleNames** - the name stack. Loads nest because a module's `main` may load
another. `Resolve` bakes the current name into the module being loaded; `Throw`
leaves the innermost loads without popping. A module's name is its file's, without
directories and extension, narrowed and cut to 63 characters: `ShortName`, which
several modules may share.

**LogFiles** - what that name decides about printed lines, over any number of
runs of the process: `LoadLoaderConfig`, loads as in ModuleNames (whose
trampolines may find no memory), and the file a line goes to (`Route`,
`FileOfLog`). A line of `loader.conf` is key, value and the byte it ends at, for only
the first 4095 bytes are read (`BufferEnd`); a file that cannot be opened is
taken for none (`unread`). `End` may come between any two steps, and between runs the user
edits `loader.conf` (`EditConf`).

**ModFiles** - what it decides about settings: LogFiles with `ModConfig`'s `Load`
and `Save`. A `Save` that the end of the process cuts off leaves a file that is
not JSON (`Malformed`). Between runs the user edits `config.json` (`EditFile`), and
mods come in another edition with other defaults (`Mods`). Settings are trees:
a value, or an object with trees as fields (`Trees`); `meant` is what each mod, or
its user, last put in its file. `FillDefaults` recurs as the code does; what it
should come to (`Expected`) is told by trees' nodes and their paths.

**Loader** - the boot sequence and dispatch: `LoaderReady`, one of `SkipMod`,
or `LoadMod` with its `RegisterHook`s and `LoadEnds` (normally or by an
exception with hooks left), `ModsLoaded`, an `Install` for each target in any
order (the Haxe map's), then calls of patched functions as a stack of dispatches
whose handlers may continue, skip, answer, throw, register late, or call a
patched function again. `install_patch` is here what it answers, the outcome of
`Patching` for one thread, and whether it does: a target at which MinHook faults
(`Faulting`) is refused with the spin lock left taken (`isLocked`), and the next
one that gets as far as MinHook spins (`Spin`, after which nothing follows). A
target that is too short or a second key of a patched address does not get there.

**Attach** - `DllMain` step by step (`ResolveSetup`; the bytecode version from
`hlboot.dat`; `TryDriver`; each plugin directory; `InstallIATHook`), every step
of which may fail and leave the next ones less to work with, and then safe calls
as a stack of places in `HookedHlDynCallSafe` (`calls`): only the first recovers
the module and loads hlx-loader, whose `main` visits the mods (`VisitModule`)
and makes safe calls of its own. `offsets` records by which layouts `hl_setup`
was read. Finding the import table's entry is one step that works or not.
**ModuleScan** - `module_recover`: memory is the sequence of candidates the
search comes to, each as the guarded reads found it, which is how a change
behind the scan's back shows: a field that was read before the change and
another after it, or a `Fault`. The first candidate that passes both tests gives
all outputs. Attach's boot call uses it.

**Reflection** composes what `reflection.c` does at attach, reading
`hlboot.dat`, with what mods ask for later. Its parts:

* **TypeTable** - a game's types: supertypes, fields, names and companions' names,
  which `BuildCompanionTypeName` has no room for when the class's is long (`LongNames`).
* **ConstructorScan** - which candidate constructors
  `ScanFileFunctionForConstructors` finds in a function (`Sites`, `Candidates`),
  and, as the reference, what the registers hold when the opcodes run
  (`Contents`, copies and casts included) and which calls, of functions, methods or
  closures, are given what a `New` allocated (`Uses`, `IsFirstUse`). Functions run
  straight on: a jump is for the scan an opcode that writes nothing, and no more
  here, so what a branch makes of registers is not in the reference, nor are
  OSetref's writes through a reference.
* **Constructors** - the scan of a game's functions (`code`), whose candidates
  go into the hash table slot by slot (`FindNameBucket`'s probes as the set of
  slots passed), allocations that fail, and `construct_instance_by_name` and
  `construct_instance`, with the states in which the table or the live module is
  not there. `kept` is the map the table should be. **DynArgs** unpacks the
  arguments.
* **Members** - `HlxRuntime.resolveMemberOf` with its two caches over
  `resolve_type_by_name`, `resolve_member_by_name` (methods up the hierarchy,
  what a class object has in a field, taken for a closure: constructors, dynamic
  functions, and the values of static variables, which are none) and
  `resolve_static_member_by_name`; the companion's instance and its search among
  the globals; enum values. Meanwhile the game's entry point creates class
  objects one by one (`StaticInit`) and the game assigns dynamic functions and
  variables (`Assign`; neither is code of the repository). An override takes as many
  arguments as what it overrides.
* **StaticFields** - the triples of opcodes from which
  `staticfields_index_entrypoint` tells a field's literal, and as the reference
  what the entry point's registers hold when it is run (`Held`, `Stores`).
* **BytecodeShim** - the arena and the decoding of names that HashLink's file
  reader is given, on code points and sizes (operators, no state).

**Trampoline** - `CreateTrampolineFunction` one instruction at a time
(`Relocate`, `JumpBack`, `CheckRoom`), with the lengths the x64 forms have;
`Freeze` thread by thread (`Suspend` moves a thread stopped at an instruction's
start), the jump written in two steps, as a processor may see it, `Resume`, and
`RemoveHook` when the page could not be unprotected. Meanwhile threads enter,
run and leave function and trampoline (`RunTarget`, `RunTramp`; what the
processor does is not code of the repository, and so marked in the map). The
five bytes are all of the function that is distinguished; a call in them
returns behind itself at once, so that a return address inside of them is not
modelled, nor is later code that jumps back into them. Nor are the threads that the
code misses: those that `OpenThread` or `SuspendThread` fail for (`hook.c:344-361`),
those whose context cannot be read, which stay where they are (`hook.c:213`), and
those that start after the snapshot (`hook.c:263`). **CodeFlow** is what hooking must not change, threads going from
instruction to instruction; `Trampoline!FlowIsKept` says that they do, each
position of the trampoline standing for the instruction it was made from.
Enabling a hook is all that hlx-boot does, so `FindOldIP` is left out.

**Buffers** - `buffer.c` with addresses counted in slots: blocks, free lists,
and the two searches for a free region near a function, one `VirtualQuery` or
`VirtualAlloc` a step, while other threads allocate and free memory.
`Patching!slots` is the number of slots this hands out.

**VersionGate** - whether the lines of a `mod.info` allow a version, with 32-bit
integers of a smaller width (operators, used by Attach). `Meant` says
independently what a bound means: compare what is written and no more.

**MCAttach, MCKvRegistry, MCBus, MCLoader, MCModFiles, MCReflection,
MCTrampoline** give constants their values for TLC (the other modules need none).
**MCProcess** (Attach and Reflection) and **MCMinHook** (Buffers and Trampoline) run two
specifications in one run that share no variable: from the initial states of one it
moves alone (`moves` says which) while the other stays where it is. In a behaviour of
Reflection, Attach stays in a state it does reach, up and without a hook.
**Patching_proofs**, **KvRegistry_proofs**, **Bus_proofs**, **ModFiles_proofs**
(ModuleNames, LogFiles and ModFiles), **Loader_proofs**, **ProcessAttach_proofs** (Attach and Reflection) and
**MinHook_proofs** (Buffers and Trampoline) hold the theorems, **ListLemmas** what their proofs share about
lists and recursion.

## Runs

An invariant `...Consistent` is the conjunction of named parts that say how a
component's data agree, in each module with the type invariant `TypeOK` as one
of them; the runs check the conjunction (`patching_one` has it in
`TableConsistent`, `patching_two` in `HooksConsistent`, which is the part that
two threads leave intact).

| run | instance | shows |
|---|---|---|
| `patching_one` | one thread, four of five functions, of which one is too short for the jump, one has a function close behind it whose findex is not read, and one cannot be relocated; two receivers, table of two | table, hooks and answers correspond and the table keeps its bounds (`TableConsistent`), failed installs give back what they took (`QuietMeansClean`), no listed function is overrun once boundaries are known (`ListedNeighboursSpared`), installs return |
| `patching_two` | two threads, two functions, one of which faults | the lock excludes and half-made hooks have one owner (`HooksConsistent`), redirects are final |
| `patching_fault` | as `patching_one`, with a faulting function | `InstallReturns` fails, finding 1 |
| `kv` | three wide names, two of which narrow to one, one value and null, three nodes, so that memory runs out | roots, uniqueness, retention, exact lists, refinement of `KvStore` |
| `bus_own` | two topics, two methods, one with two closures, three nodes, no nested publishes, handlers erase only their own | each publish delivers once to each, newest first, uses no freed node, and ends |
| `bus_nested` | the same with one level of nesting | `NoUseAfterFree` fails, finding 2 |
| `bus_order` | as `bus_own` | `RegistrationOrder` fails, finding 3 |
| `files` | the loader, a module of the loader's name and one with settings, two names deep, three loads deep; two editions, two `loader.conf`s, with lines that end before, at and behind the last byte read, and two `config.json`s that a user writes | bounds, own names until an overflow, stack = loads without exceptions; lines go where they belong (`LogsConsistent`), settings survive saves, crashes, editions and edits (`SettingsSurvive`) |
| `loader` | two mods, nine handlers on seven targets (an inherited method under two keys, a missing one, a refused one, a faulting one, one too short), a late handler, table of two, calls two deep | properties of install and dispatch, and that the game starts or a fault's lock is spun on (`GameStartsOrSpins`) |
| `process`, Attach's part | a supported older, a supported newer and an unsupported bytecode version; game version 1.1; one mod without and one with any `mod.info` of a few short forms (bounds of up to two components, pairs, an unreadable line); up to three candidates in memory, the module, an old copy and nine impostors; calls three deep | hlx-loader at most once, plugins and modules judged alike and as the bounds mean, `hl_setup` read by the right layout once the version is known, what is recovered is one genuine module (`RecoversTheGame`), the game starts |
| `process`, Reflection's part | every function of three opcodes over two registers, or of two behind a new object that was copied, and a game with false candidates; four classes, two of which share a narrowed name, a method and a native among the candidates, four slots with names hashing to the last two; a class, a subclass that overrides, their companions, with dynamic functions and variables, and an enum, with one global or two; a class whose name is too long; every entry point of three opcodes after one, over classes three levels deep; names of up to three characters; four allocations | a call paired with a New is given its object, and an object first used by a direct call is paired, literals are what is stored, names decode exactly (`ScanIsExact`); the table is a map, a class gets its own constructor or none; members and class objects are the game's (`ResolvesTheCallee`, `CompanionIsTheGames`) |
| `reflection_variable` | Reflection's part of `process` | `OnlyFunctions` fails, finding 4 |
| `minhook`, Trampoline's part | two threads; all functions of up to three instructions of seven shapes, jumps leading out or to any instruction, that reach the fifth byte or end before it, without backward jumps over longer forms; the page may stay protected | slot never overrun; nobody lost and refinement of `CodeFlow` until a removal; whoever is suspended is resumed |
| `minhook`, Buffers' part | six granules of which three are in reach below or above the code, two functions, two slots a block | slots owned once, near, blocks freed with the last slot; searches end, and give up only where nothing was free |

Why the bounds are enough. Patching: the table of two is full while a third
good function is left, and each way an install can fail has a function of its
own; with two threads every pair of steps interleaves, and no property relates
three threads. Registry: two names that collide after narrowing, two that share
only the bucket or only the key, an erase at the head, in the middle and at the
end, and one more registration than there is memory. Bus: three nodes let a
handler be first, middle and last in the list, a node be reused, and the list be
full. Files: the real name stack holds 8; nothing depends on the number but that
it is exceeded by one (`MaxLoads` > `MaxStack`), or reached by names left behind;
the number of runs is not bounded. The trees, objects within objects at most two
deep (`MaxDepth`), have a leaf where both editions have
one, an object only the newer one has, a field neither knows, a null, and a leaf
where an object is asked for.
Loader: `MaxPatches = 2` is reached by the two good addresses; two handlers of
one kind from one and from two mods are needed for order, and depth two for
re-entrancy. Attach: a call nested in a nested call, one mod on either side of
the gate, bounds shorter than the version or as long, each component below, at
and above; with three candidates a torn one and a copy stand before, between
and behind. Reflection: probes that collide, pass a third name's slot and wrap;
a method inherited, overridden and introduced; a member's whole numbering
shifted by an ancestor's field; code points on both sides of each limit of the
encodings; allocations of nothing, within a chunk (`Chunk` = 8), exactly filling
it and over it; arguments up to one too many (`MaxDynArgs` = 3). The files of the
instance exercise one part each, because the parts share only whether the module
is recovered, which each of them has either way.
Trampoline: with three instructions a jump may lie before, behind or on any
other, over one that grows; three long forms and the jump back exceed the slot.
Buffers: two functions whose reaches differ at both ends, allocations of one and
two granules, a block full, half full and freed.
The sizes of the C arrays (256 patches, 8 names, 16 arguments, 65536 bytes a chunk) are
constants of the modules.

Deadlock is checked where the system cannot stop: `patching_one`, `kv` and
`bus_own`. `patching_two` may stop (both threads spin on the lock that the fault
leaked, finding 1), `loader` stops in a game without patched functions and where
an install spins for ever. In `process` an attach comes to its end, and reflection
stops when everything was asked; in `minhook` every thread may have crashed after a
removal. `files` never stops, but a process may end at any time, so that its
`End` would hide any stop.

## Fairness

* `Patching!FairSpec`: weak fairness of each thread's steps; the operating
  system schedules it, and MinHook's calls end. Weak fairness suffices for
  `EnterSpinLock` because the liveness runs have one thread. Calling
  `install_patch` again is not fair: nobody has to.
* `Bus!FairSpec`: weak fairness of the loop's own steps and of the handlers'
  return: the thread runs on, handlers end. Subscribing, publishing and throwing
  are free.
* `Loader!FairSpec`: weak fairness of the boot sequence as a whole; it runs on
  the game's thread before the game's own `main`, and mods' mains end. An install
  ends too, unless it spins on a lock that nobody will leave, which is a phase of
  its own (`spinning`) and no step of the boot sequence leads out of it.
* `Attach!FairSpec`: nothing in `DllMain` waits, and the executable makes its
  safe call. What a mod's `main` and its callees call is finite, hence strong
  fairness of the steps that wait while nested calls come and go.
* `Trampoline!FairHookSpec`: the installing thread is scheduled; the functions'
  threads need not be.
* `Buffers!FairSpec`: the searching thread is scheduled; the others may allocate
  and free as they like.
* The other modules have no liveness property.

## Proofs

A `..._proofs` module extends its component's and proves, for all values of the
constants that the component's own assumption admits, invariants along one line: an
`IInv` (`HookInv` for Trampoline) that the initial predicate establishes and each
action preserves (one lemma or step per action), and that implies what is stated. TLC has checked each `IInv`
over the instance of its component's run. Where a theorem has an assumption beyond
those, it says so, and the run's instance satisfies it.

`Patching_proofs`, for all threads, addresses, receivers and table sizes:

* With any number of threads: `IInv` is `TypeOK`, `MutualExclusion`,
  `HalfMadeHookHasOneOwner` and two strengthenings: past the null checks a
  caller has an address and a code (`ArgsChecked`), and whoever owns a half-made
  hook finds it created and not enabled (`OwnersHoldHalfMade`), which is what
  makes `MH_RemoveHook` safe. Theorems `TypeCorrect`, `LockExcludes`,
  `HalfMadeHooksAreOwned` (all together `HooksStayConsistent`), `RedirectsAreFinal`.
  They hold although a fault can leak the lock: nobody enters any more.
* With any number of threads where no target's decoding faults (`Faulting = {}`;
  with a fault the property is false, finding 1): `QuietStaysClean`. A taken lock has
  a caller inside (`LockHasUser`), and slots are as many as hooks (`SlotsMatch`),
  a count each create raises and each failed create or remove lowers by one.
* With one installing thread (`OneCaller`, an assumption of these theorems; the
  table is not protected, and the loader installs from one thread): `TableInv`
  adds that the count is within the table and ahead of an entry being written
  (`CountFits`), that a patch being recorded is live (`RecordingIsLive`), that
  its address is new to the table (`AddressIsNew`) and that every handle
  answered is that of an entry for what was asked (`AnswersAreEntries`).
  Theorems `HandlesServe`, `NoOrphans`, `AnswersDoAgree`, `TableStaysInBounds`,
  together `TableStaysConsistent`. `ListedNeighboursAreSpared` needs that a caller past
  the check has a target with room before the next listed function or no boundaries
  were known (`PastCheckIsLong`); a second thread might load the boundaries in between.
  Of functions that are not listed nothing can be said (finding 5).

`KvRegistry_proofs`, for all names, values and sets of nodes:

* `IInv` is `ListOK` (entries and roots well formed), `RootsMatchEntries`,
  `OneEntryPerName` and `RetainedUntilErased`. The last alone is not inductive:
  that `Collect` spares a value needs the entry's node to be rooted, and that a
  root of an erased entry is no other entry's needs nodes to be distinct. The
  lemmas on `RemoveAt` and on prepending say which entries survive; `FindEntry`
  is the only match because names are unique.
* `TypeCorrect`: with `ListOK`, that a listing in progress has counted a natural
  number and has read values and nulls (`ListingOK`).
* `RootsAlwaysMatch`, `NamesStayUnique` (with the types,
  `ListStaysConsistent`), `RegisteredStaysAlive`: the parts, as theorems of
  `Spec`.
* `ListImplementsStore`: `Spec => ImplementsStore`. Under `IInv` the list
  determines the map (`ViewOfList`); erasing maps to `Drop`, prepending to
  `Put`, all other steps to stuttering.
* `UndisturbedListsAreExact`: `value_at` counts matches from the head at each
  call, so index `i` is the match of rank `i` (`ValueAtCountsThem`), and ranks are a
  bijection between a finite set of positions and the numbers below its size
  (`RanksCover`). While nothing disturbs the list, what was read so far is what
  `value_at` still answers for those indices (`ListingExact`).

`Bus_proofs`, for all topics, closures, nodes:

* `ListStaysConsistent`, whatever handlers do and however publishes nest.
  `GoodList` relates the list to the history `arrival`, which is the list in
  reverse; unlinking a cell and forgetting its arrival go together.
* `NoLoopDangles` and `EveryoneIsCalledOnce` with handlers that erase at most
  their own subscription and no nested publish (`OwnOnly`, `MaxDepth <= 1`; this is
  what `bus.c:123` supports, and beyond it lies finding 2). The strengthening says how far a
  publish has come: for some `k`, the `k` oldest of those it began with are the
  tail of the list and `next` is the first of them (`Ahead`), and those behind
  have been called, newest first (`Called`). A handler's own erasure removes an
  entry in front of the tail, a registration prepends one: neither moves it.

`ModFiles_proofs`, of LogFiles, for all modules, stack sizes and depths, and all `loader.conf`s
that are sequences of lines (`LogFilesAssumption`), however modules share names:

* `StackStaysConsistent`, `NamesAreOwn`. Only the innermost load may still be
  resolving (`OuterLoadsRun`), and while no push was dropped the top of the stack
  is then its name (`NameIsOnTop`), whatever lies beneath. These are first shown
  of a step of ModuleNames (`LoadsPreserve`), then of the end of the process.
* `LinesAreFiled`: besides the names, the settings a running process has are what
  its `loader.conf` says in the bytes that are read of it, or the defaults if it
  could not be opened (`SettingsAreSaid`), which stays so because the file is
  read once and only edited between runs. `Setting` finds a line if any can be read,
  because a set of positions has a least one (`SettingIsSaid`); where none says
  anything, as in the file hlx-boot writes itself, the default stays (`NothingSaid`).

* `FilesImplementLogs`: ModFiles steps as LogFiles does or leaves it alone, so the three
  theorems above hold of it too.
* `SettingsAreKept`, for all fields, values, depths, editions, saves and hand edits:
  while no name is dropped a mod's name is its own (`NameIsOwn`), so its file holds what
  was meant to be there (`FilesHold`), through saves, crashes and other editions,
  unless another mod with settings has that name too (`Alone`).
  What `FillDefaults` then makes of it is shown by the least depth at which it would be
  wrong (`FillIsExact`): a path tells the field it leads through (`PathTells`), so the
  nodes of an object are those of its fields, each in one place (`NodesOfObject`), and
  what is expected of an object is what is expected of its fields
  (`ExpectedOfObjects`). Three recursions are shown to be defined, from one depth to the
  next (`TreesToIs`, `FillDefaultsIs`, `NodesIs`).

`Loader_proofs`, for all mods, hooks, late handlers, targets, table sizes, depths:

* `TargetsStayConsistent`: `TableOK` says that handles and patches refer to each
  other both ways, a patch's receiver being its target's, and that no address is
  patched twice. Without the way back, from patch to target, a dispatch would not
  know its target has a handle.
* `BadTargetsCostNoOther`: in the installing loop, each target already visited is
  live or to blame (`Served`), and one turn of it, whatever `install_patch`
  answers, takes that from nobody (`TurnServes`); nor does a late handler
  (`RegistrationKeeps`).
* `OriginalRunsOnce`: each dispatch on the stack came through a patch of its key
  and has run its original as its stage says (`FrameOK`); registrations
  in the middle of a dispatch only lengthen the lists it walks.
* `HandlersAreCalledInOrder` needs more, `OrderInv`: while mods load, what is
  registered is what came before the place loading has come to (`LoadingAt`,
  `RegisteredEarlier`), so that every list is in load order and without repetition
  (`ListsOK`); and what a dispatch has called are the first prefixes of its target
  and then the first postfixes, as far as its loop has come (`TraceOK`), which a list
  that only grows at its end cannot undo (`TraceGrows`).

`ProcessAttach_proofs`, of Attach, for all mods, versions, game versions, memories and
depths:

* `BootStaysConsistent`: only the outermost call may have work of hlx's own left
  (`CallsOK`), and how far it has come tells what was loaded, what recovery left
  and whether the driver was asked (`LoadsOK`, `DriverOK`); so nobody loads the
  loader twice, however calls nest in its `main`.
* `LayoutStaysTheGames`: offsets are taken after the version is settled (`LayoutOK`).
* `TheGameIsRecovered`: the checks on a candidate are what `RunsTheTarget` says in
  terms of the module alone, and the first that passes them is one
  (`FirstIsOneOfThem`); code and tables are both its. It assumes
  `OnlyModulesRunTheTarget`: what can be told of a module is told of modules only.
* `GateDecidesAsMeant`: lemmas `MinimumIsMeant` and `MaximumIsMeant` prove, for any
  number of components, that padding with zeroes and adding one to the last
  component decide as the plain comparison of what is written. It assumes
  `PlainVersions`: components are not negative and no exclusive maximum ends in
  `MaxInt` (finding 11).

and of Reflection, for all games, type tables, tables, hash functions, questions:

* `SitesAreFound`: a register that nothing has written since a New still holds its
  object when the function runs (`ObjectStaysHeld`, by the least opcode at which it
  would not), so the call the scan finds is given it, and the scan stops at no direct
  use before; conversely nothing stops it before an object's first use, if
  that is a direct one (`ScanFindsFirstUses`).
* `LiteralsAreTheGames`: what is recorded of three opcodes (`AreTriples`) is what their
  registers hold when the entry point runs, because nothing writes the two between
  (`HeldFrom`); and an object's own fields come after as many as its ancestors have
  (`FieldsAreNumbered`), so that the number in SetField and the field's name are the
  same field.
* `ArenaStaysDisjoint`: by least counterexample over the sizes asked for
  (`ArenasAreOK`), an allocation ends where the newest block has been used up to, or
  before, and begins where all earlier ones in its block have ended (`ArenaOK`).
* `ScanStaysExact`: the three above, and that a name of any characters decodes to its
  own UTF-16 (`NamesAreExact`). Both loops of the decoder are states that a reader
  goes through; the text, its units and the reader's positions are put together one
  character at a time (`IsPieces`), a character's bytes are found where those before
  it end (`PieceIsAt`) and are read as that character (`CharacterIsRead`, the
  arithmetic of six bits to a byte), and buffer space is never short before the last
  (`CountsAll`, `DecodesAll`). It assumes that names are made of characters of
  Unicode other than the zero that ends them (`BytecodeShimAssumption`).
* `TableStaysConsistent`: every name in the table is found by probing from its hash
  (`NamesAreReachable`), hence in one place only (`OnePlace`), and storing a name or a
  candidate in the slot that `FindNameBucket` stops at leaves all others found
  where they were (`FoundStaysFound`, `StoringKeepsMap`).
* `ConstructorsAreOwn`: from that map, and from `ArraysAreUnpacked`: an array is
  unpacked whole or refused.
* `CompanionsAreTheGames`: from what a type table is (`ObjectsOfTypes`); a companion is
  found where its class's name is not too long (`CompanionIsFound`).
* `MembersAreTheGames`: what is found now (`Answer`) is right, and what is remembered
  stays right. The first follows each of the four ways: the lookups and the
  dispatch along supertypes meet in functions of equal arity, because the topmost
  type that has a method introduces it (`MethodsAreListed`, `MethodIsResolved`); a
  binding's number and the one searched for count the same fields above it
  (`StaticIsResolved`). The second says of each remembered answer (`IsAnswer`) what no
  later step can change: methods and plain static functions are fixed, and a class
  object that was there stays. Of a static variable it says only that its words come
  out of a class object that exists (`HeldAnswer`; finding 4). Recursion along supertypes is defined because
  they end (`RecursionExists` in ListLemmas), which TLA+'s recursive functions
  leave to be shown.

`MinHook_proofs`, of Buffers, for all address spaces, granularities, block sizes, ranges:

* `BlocksStayConsistent`, `SlotsStayNear`. Besides the free lists, `MemoryOK`
  keeps allocations contiguous and blocks one granule long: without it
  a query could step into the middle of another's region, and `BlockOf` would not
  tell a slot's block (`BlockOfSlot`).
* `GivesUpRightly`, an action property: everything a search has passed was seen
  taken (`SeenOK`), in terms of `RoundDown` and `RoundUp`, which skip no granule
  (`RoundDownIs`, `RoundUpIs`).

and of Trampoline, for any threads and functions, without jumps back over what
relocation lengthens (`JumpsBackOver`, finding 10):

* `NobodyGetsLost`: while the trampoline is built, `ItemsOK` says that its items stand
  one behind the other and that two of them are as far apart as in the function
  wherever nothing between them is longer. That is so between a forward jump and
  its destination, as long as the jump is known when what it jumps over is
  relocated (`ItemsFollow`); hence in the finished trampoline each instruction
  leads to the copy of what it led to (`CopiesArrive`, `FinishedLeads`,
  `JumpBackLeads`). Then `ThreadsOK` says where threads can be:
  one that entered is at a `Reachable` instruction, each of which has a copy
  (`AllRelocated`), so that nobody suspended stays where the jump will be written
  (`MovedAway`), not even in a function that was left off at its `ret`.
* `HookingKeepsTheFlow`: from the same invariant, a thread's step is one of `CodeFlow`
  (`GoingOnIsFlow`), and the installing thread's are stutters of it (`InstallingHidden`).

The assumptions on constants say what the code gives for granted: besides types,
that whole blocks fill a granule and the functions' code begins one (`BuffersAssumption`), that
a function's instructions follow each other without overlapping, jumps within it
lead to where one starts, and one that ends before the fifth byte ends in a `ret` or a
jump out of it (`TrampolineAssumption`), that
mods have different names, a mod's `__init__` registers its own handlers, each once, and
a late one is another's (`HandlerAssumption`), and that recovery's outcome is told from none at all
(`RecoveryAssumption`), and that what mods and users write are trees, of any depth
(`ModFilesAssumption`). Those of Reflection are about the game: functions are sequences
of opcodes (`ConstructorsAssumption`), lengths are not negative
(`DynArgsAssumption`), and a type table is one that the Haxe compiler makes
(`MembersAssumption`): supertypes end, overrides take as many arguments, no field
along a class's supertypes has a method's name, a companion is an object whose bound
functions are among its fields, and the only global of a type holds that type's
object. It also supposes that no dynamic static function has the name of an instance
field, an inherited one included; for such a function `resolve_member_by_name` finds
the field and stops (`reflection.c:235`).
An entry point never loads an integer into a register that also holds objects, since
registers are typed, and no two types that have fields share a name (`IsEntryPoint`).

Only model-checked:

* Liveness (`InstallReturns`, `PublishEnds`, `GameStartsOrSpins` of Loader,
  `GameStarts` of Attach, `AllResume`, `SearchEnds`), which under fairness is out of
  the prover's reach. Every other property of the passing runs is a theorem.

## Where code and documents differ

Four differences have runs of their own, in which TLC shows the violation:

1. `patching_fault`: the `__except` around `MH_CreateHook` (`patching.c:144`)
   catches a fault between MinHook's `EnterSpinLock` and `LeaveSpinLock`
   (`hook.c:583`, `:671`). The install is refused as `CHANGELOG.md:39` says, but
   the next one spins for ever. For the loader this means that with such a target
   among others `installAllPendingPatches` does not end and the game's `main` is
   never reached, although `hlx-loader/src/hlx/Registry.hx:51` says "one bad target
   is skipped, not fatal"; `Loader!GameStartsOrSpins` has it for an outcome, and
   without it the property fails.
2. `bus_nested`: `bus.c:123` supports a handler that unsubscribes on its own
   delivery. Suppose `a` precedes `b` on a topic, `a` publishes on it again, and
   `b`, called from the inner publish, unsubscribes itself: the outer loop has
   `b` as its captured next.
3. `bus_order`: `include/bus.h:9` and `CHANGELOG.md:111` promise registration order;
   `bus.c:89` prepends, so delivery is newest first, which is what
   `Bus!EveryoneOnce` states.
4. `reflection_variable`: `resolve_member_by_name` takes what a class object has in
   the field for a closure (`reflection.c:286-314`), and looks at its type only
   if its `hasValue` reads 1. Of a static variable it reads a boxed number or an
   object, and may answer one of its words as a function's address, although "a
   static DATA field has no function to hand back" (`reflection.c:560`) and
   `resolve_static_member_by_name`, which would be asked next, refuses it
   (`reflection.c:519`).

The others are conditions of properties that hold. Where it says so, TLC shows
the case when the condition is dropped:

5. The boundaries that short functions are kept from (`patching.c:116-121`) are
   read from `functions_ptrs[i]` for `i < nfunctions` (`patching.c:37-54`), but that
   table is indexed by findex, over functions and natives (`module.h:72`,
   `reflection.c:776`). A function with a larger findex is no boundary, and a short
   one in front of it is patched over its first bytes.
   `Patching!ListedNeighboursSpared` is about the functions that are read
   (`Listed`); with all (`Starts`) in their place it fails.
6. A load that throws is caught by `Boot.hx:32`, but `HookedSysLoadPlugin` never
   pops its name. Eight such loads fill the stack; pushes are then dropped and
   every later module is given a leaked name, against `include/hlx_common.h:44`.
   `ModuleNames!OwnNameUntilOverflow` excludes it; `BakedNameIsOwn` alone fails.
7. When a class's own constructor never follows a `New` in `hlboot.dat` (it was
   inlined) and one method with as many arguments does, that method is called as
   its constructor (`reflection.c:1626`); `CHANGELOG.md:169` promises "a clear
   error instead of silently calling the wrong function".
   `Constructors!OwnConstructorOrNone` is about classes whose constructor is a
   candidate.
8. The version is unknown (-1) when `hlboot.dat` cannot be read, and everybody
   takes -1 for an old version (`boot.c:302`, `reflection.c:786`);
   `CHANGELOG.md:70-75` describes reading the wrong layout as what the version
   check prevents. `Attach!LayoutIsTheGames` excludes -1.
9. `ProcessThreadIPs` (`hook.c:250`) moves threads into the trampoline before it
   is known whether the jump can be written. When `VirtualProtect` refuses
   (`hook.c:406`) they are resumed there, and `patching.c:157` frees the
   trampoline. `Trampoline!NobodyIsLost` and `FlowIsKept` end at the removal.
10. `trampoline.c:264` "Can't alter the instruction length in a branch" is
    checked for instructions before a forward jump's destination only; a jump
    back over an instruction that was lengthened earlier is copied with its old
    distance (`Trampoline!JumpsBackOver`). `MCTrampoline!MCBodies` has no such
    functions, and the theorems about Trampoline exclude them; `MCBodiesBack` has,
    and with it `NobodyIsLost` fails.
11. The bump of an exclusive bound (`modinfo.c:67`) overflows for 2147483647,
    which `strtol` also makes of anything larger; a `mod.info` with
    `maxGameVersion=1.99999999999` refuses every 1.x. The values of `MCAttach`
    stay below `MaxInt`; with it among them `GateIsWhatIsMeant` fails.
12. `ModConfig.hx:28` says that what is missing or mistyped falls back to its
    default; a saved value where an object is wanted, or the other way round, is
    returned as it was saved. `ModFiles!SettingsSurvive` is about trees of one
    shape (`SameShape`), and fails without the condition.
13. The text written to `loader.conf` says that mods' diagnostics always go to
    `hlx.log`; a module for whose trampoline there was no memory prints as the
    game does. `LogsConsistent` leaves modules in `nameless` out.
14. The scan of `hlboot.dat` follows a new object in its own register, to a direct
    call (`reflection.c:1439-1448`). An object that is copied first, or handed to a
    method or a closure before, may be paired with a later direct call that is not
    its constructor, or with none; `Constructors!SitesAreFirstUses` says of which
    objects the pair is the first use.
15. Modules whose files' names agree after the cut at 63 characters, or but for their
    directories, share a name (`hlx_common.c:85`, `log.c:163`), and with it a tag in
    `hlx.log` and a `config.json`. `ModFiles!SettingsSurvive` is about a mod whose
    name no other configured one has (`Alone`), and fails without the condition.

## What is not modelled

* Instruction decoding, operands relative to the instruction pointer, JIT
  emission, PE imports, the layout of HashLink's structures and the memory
  regions `module.c` walks through: correctness there is an encoding's or a
  layout's, without steps to interleave. That the pointers `module.c` needs of
  libhl were resolved is part of a candidate's being found.
* The vendored bytecode reader (its files are taken as read or not), the
  generated forwards (`hlp_forwards.inc`), thin natives that only call
  HashLink's own functions, build tools.
* Reading and writing an object's fields by name: HashLink's `Reflect` and
  `hl_dyn_*` do it.
* Branches, and writes through references (OSetref), in scanned functions and entry
  points; fields that an entry point
  stores to several times; stale copies of the live module, which nothing in
  memory tells from the module (they count as genuine); a dynamic function
  assigned after it was remembered, which stays as remembered.
* Threads that MinHook does not suspend or cannot move: see Trampoline above.
* MinHook's calls hlx-boot does not make (uninitialize, disable, queue, all
  hooks).
* Null arguments of the bus and registry natives and a missing `hl_add_root` in
  the bus: early returns that change nothing.
* Compile-time macros, apart from what they generate.

## Plan

Order so far, the most important behaviour first: Patching, KvRegistry and
KvStore, Bus, ModuleNames, Loader, the proofs above, then Constructors, Attach,
Trampoline, Buffers, VersionGate, and then ModuleScan, Members, StaticFields,
BytecodeShim with Reflection, LogFiles and ModFiles, and then the proofs about
Bus, LogFiles, Buffers, Loader, Attach, Reflection, Trampoline and ModFiles. Left is:

A composition of Patching, Buffers and Trampoline, the slot that `MH_RemoveHook`
frees and another install takes while a moved thread is still in it, would show
what the finding about `hook.c:406` leads to, and is left for then.
