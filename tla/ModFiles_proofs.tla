--------------------------- MODULE ModFiles_proofs ---------------------------
(***************************************************************************)
(* Proofs about ModuleNames, LogFiles and ModFiles, for any modules, any   *)
(* size of the name stack, any depth of loads and any number of runs: the  *)
(* stack stays within its array and mirrors the loads until one throws,    *)
(* names are right until one is dropped, lines are filed by them and by    *)
(* the bytes read of loader.conf, and settings of any depth are kept.      *)
(***************************************************************************)
EXTENDS ModFiles, ListLemmas

LoadRecord == [module : Modules, running : BOOLEAN]

(* The front of a sequence is the sequence up to its last element.           *)
LEMMA FrontKeeps ==
  ASSUME NEW S, NEW s \in Seq(S), NEW n \in 0 .. Len(s)
  PROVE  /\ SubSeq(s, 1, n) \in Seq(S) /\ Len(SubSeq(s, 1, n)) = n
         /\ \A i \in 1 .. n : SubSeq(s, 1, n)[i] = s[i]
<1>1. \A i \in 1 .. n : s[i] \in S
  OBVIOUS
<1>. QED
  BY <1>1, SubSeqProperties

(* A stack mirrors loads when it has as many names and each is its load's.   *)
LEMMA MirrorsWhenEqual ==
  ASSUME NEW s \in Seq(Names), NEW l \in Seq(LoadRecord), Len(s) = Len(l),
         \A i \in 1 .. Len(l) : s[i] = ShortName[l[i].module]
  PROVE  s = [i \in DOMAIN l |-> ShortName[l[i].module]]
<1>. DEFINE names == [i \in 1 .. Len(l) |-> ShortName[l[i].module]]
<1>1. names \in Seq(Names) /\ Len(names) = Len(l)
  <2>1. \A i \in 1 .. Len(l) : ShortName[l[i].module] \in Names
    BY DEF LoadRecord, Names
  <2>. QED
    BY <2>1, IsASeq
<1>2. \A i \in 1 .. Len(l) : names[i] = s[i]
  OBVIOUS
<1>3. names = s
  <2>. HIDE DEF names
  <2>. QED
    BY <1>1, <1>2, SeqEqual
<1>. QED
  BY <1>3

-----------------------------------------------------------------------------
(* Only the innermost load may still be at its natives, and then its name is *)
(* the one on top, unless it was dropped; nothing is loaded before hlx is.   *)
OuterLoadsRun == \A i \in 1 .. Len(loading) - 1 : loading[i].running

NameIsOnTop ==
  ~overflowed /\ loading # <<>> /\ ~Last(loading).running =>
    stack # <<>> /\ Last(stack) = ShortName[Last(loading).module]

NothingBeforeHlx == ~fired => loading = <<>>

NamesInv ==
  /\ TypeOK /\ OuterLoadsRun /\ NameIsOnTop /\ NothingBeforeHlx
  /\ OwnNameUntilOverflow /\ StackMirrorsLoads

LEMMA InitEstablishes == Init => NamesInv
<1>. SUFFICES ASSUME Init
              PROVE  NamesInv
  OBVIOUS
<1>. USE DEF Init
<1>1. TypeOK
  <2>1. <<>> \in Seq(Names) /\ Len(<<>>) <= MaxStack
    BY EmptySeq, ModuleNamesAssumption
  <2>2. <<>> \in Seq([module : Modules, running : BOOLEAN])
    BY EmptySeq
  <2>. QED
    BY <2>1, <2>2 DEF TypeOK
<1>2. OuterLoadsRun /\ NameIsOnTop /\ NothingBeforeHlx
  BY DEF OuterLoadsRun, NameIsOnTop, NothingBeforeHlx
<1>3. OwnNameUntilOverflow
  BY DEF OwnNameUntilOverflow, BakedNameIsOwn
<1>4. StackMirrorsLoads
  BY MirrorsWhenEqual DEF StackMirrorsLoads
<1>. QED
  BY <1>1, <1>2, <1>3, <1>4 DEF NamesInv

(* What every load's beginning does, its module's name having come to the top *)
(* or been dropped.                                                          *)
LEMMA BeginPreserves ==
  ASSUME NamesInv, NEW m \in Modules, Begin(m), fired' = TRUE, UNCHANGED <<baked, threw>>,
         loading # <<>> => Last(loading).running
  PROVE  NamesInv'
<1>. USE ModuleNamesAssumption DEF NamesInv, Begin, Pushed
<1>. DEFINE name == ShortName[m]
<1>0. name \in Names
  BY DEF Names
<1>1. TypeOK'
  BY <1>0, AppendProperties DEF TypeOK
<1>2. /\ Len(loading') = Len(loading) + 1
      /\ \A i \in 1 .. Len(loading) : loading'[i] = loading[i]
      /\ loading'[Len(loading) + 1] = [module |-> m, running |-> FALSE]
  BY AppendProperties DEF TypeOK
<1>3. ~overflowed' => ~overflowed /\ ~(Len(stack) >= MaxStack) /\ stack' = Append(stack, name)
  OBVIOUS
<1>4. ~overflowed' => /\ Len(stack') = Len(stack) + 1
                      /\ \A i \in 1 .. Len(stack) : stack'[i] = stack[i]
                      /\ stack'[Len(stack) + 1] = name
  BY <1>0, <1>3, AppendProperties DEF TypeOK
<1>5. OuterLoadsRun' /\ NothingBeforeHlx'
  BY <1>2 DEF OuterLoadsRun, NothingBeforeHlx, Last, TypeOK
<1>6. NameIsOnTop'
  BY <1>2, <1>4 DEF NameIsOnTop, Last, TypeOK
<1>7. OwnNameUntilOverflow'
  <2>. SUFFICES ASSUME ~overflowed'
                PROVE  BakedNameIsOwn'
    BY DEF OwnNameUntilOverflow
  <2>. QED
    BY <1>2, <1>3 DEF OwnNameUntilOverflow, BakedNameIsOwn, TypeOK
<1>8. StackMirrorsLoads'
  <2>. SUFFICES ASSUME ~threw', ~overflowed'
                PROVE  stack' = [i \in DOMAIN loading' |-> ShortName[loading'[i].module]]
    BY DEF StackMirrorsLoads
  <2>1. stack = [i \in DOMAIN loading |-> ShortName[loading[i].module]]
    BY <1>3 DEF StackMirrorsLoads
  <2>2. Len(stack) = Len(loading) /\ \A i \in 1 .. Len(loading) : stack[i] = ShortName[loading[i].module]
    BY <2>1 DEF TypeOK
  <2>3. \A i \in 1 .. Len(loading) + 1 : stack'[i] = ShortName[loading'[i].module]
    BY <2>2, <1>2, <1>4 DEF TypeOK
  <2>. QED
    BY <2>2, <2>3, <1>1, <1>2, <1>4, MirrorsWhenEqual DEF TypeOK
<1>. QED
  BY <1>1, <1>5, <1>6, <1>7, <1>8

-----------------------------------------------------------------------------
LEMMA RunningOfLoad ==
  ASSUME NEW k, NEW b \in BOOLEAN, NEW c \in BOOLEAN
  PROVE  [[module |-> k, running |-> b] EXCEPT !.running = c] = [module |-> k, running |-> c]
OBVIOUS

LEMMA ResolvePreserves ==
  ASSUME NamesInv, Resolve
  PROVE  NamesInv'
<1>. USE ModuleNamesAssumption DEF NamesInv
<1>. DEFINE n == Len(loading)
            m == loading[n].module
<1>1. /\ n \in 1 .. n /\ m \in Modules
      /\ loading' \in Seq(LoadRecord) /\ Len(loading') = n
      /\ \A i \in 1 .. n - 1 : loading'[i] = loading[i]
      /\ loading'[n] = [module |-> m, running |-> TRUE]
  <2>1. n \in 1 .. n /\ loading \in Seq(LoadRecord) /\ loading[n] \in LoadRecord
    <3>1. loading \in Seq(LoadRecord) /\ loading # <<>>
      BY DEF TypeOK, LoadRecord, Resolve
    <3>. QED
      BY <3>1
  <2>2. m \in Modules /\ [loading[n] EXCEPT !.running = TRUE] = [module |-> m, running |-> TRUE]
    <3>. DEFINE l == loading[n]
    <3>1. l \in [module : Modules, running : BOOLEAN]
      BY <2>1 DEF LoadRecord
    <3>. HIDE DEF l
    <3>2. PICK k \in Modules, b \in BOOLEAN : l = [module |-> k, running |-> b]
      BY <3>1
    <3>3. l.module = k /\ l.module \in Modules
      BY <3>2
    <3>4. [[module |-> k, running |-> b] EXCEPT !.running = TRUE] = [module |-> k, running |-> TRUE]
      BY RunningOfLoad
    <3>. QED
      BY <3>2, <3>3, <3>4 DEF l
  <2>3. loading' = [loading EXCEPT ![n] = [module |-> m, running |-> TRUE]]
    BY <2>2 DEF Resolve
  <2>4. [module |-> m, running |-> TRUE] \in LoadRecord
    BY <2>2 DEF LoadRecord
  <2>. QED
    <3>. HIDE DEF m
    <3>1. /\ loading' \in Seq(LoadRecord) /\ Len(loading') = n
          /\ \A j \in 1 .. n :
                loading'[j] = IF j = n THEN [module |-> m, running |-> TRUE] ELSE loading[j]
      BY <2>1, <2>3, <2>4, ExceptSeq
    <3>2. \A i \in 1 .. n - 1 : i \in 1 .. n /\ i # n
      BY <2>1
    <3>. QED
      BY <2>1, <2>2, <3>1, <3>2
<1>2. Current \in Names \cup {NULL} /\ (~overflowed => Current = ShortName[m])
  BY <1>1 DEF Current, NameIsOnTop, TypeOK, Last, Resolve
<1>3. TypeOK'
  BY <1>1, <1>2 DEF TypeOK, LoadRecord, Last, Resolve
<1>4. OuterLoadsRun' /\ NothingBeforeHlx' /\ NameIsOnTop'
  BY <1>1 DEF OuterLoadsRun, NothingBeforeHlx, NameIsOnTop, Last, TypeOK, Resolve
<1>5. OwnNameUntilOverflow'
  <2>. SUFFICES ASSUME ~overflowed
                PROVE  BakedNameIsOwn'
    BY DEF OwnNameUntilOverflow, Resolve
  <2>1. baked' = [baked EXCEPT ![m] = ShortName[m]]
    BY <1>2 DEF Last, Resolve
  <2>0. ShortName[m] \in Names /\ ShortName[m] # NULL
    BY <1>1 DEF Names
  <2>2. \A k \in Modules : baked'[k] \in {ShortName[k], NULL}
    BY <2>1 DEF OwnNameUntilOverflow, BakedNameIsOwn, TypeOK
  <2>3. ASSUME NEW i \in DOMAIN loading', loading'[i].running
        PROVE  baked'[loading'[i].module] # NULL
    <3>1. loading'[i] \in LoadRecord /\ loading'[i].module \in Modules
      <4>1. \A l \in LoadRecord : l.module \in Modules
        BY DEF LoadRecord
      <4>2. loading'[i] \in LoadRecord
        BY <1>1
      <4>. QED
        BY <4>1, <4>2
    <3>2. CASE i = n
      BY <3>2, <2>0, <2>1, <1>1 DEF TypeOK
    <3>3. CASE i # n
      <4>1. i \in 1 .. n - 1 /\ i \in DOMAIN loading /\ loading'[i] = loading[i]
        BY <3>3, <1>1 DEF TypeOK
      <4>2. baked[loading[i].module] # NULL
        BY <4>1, <2>3 DEF OwnNameUntilOverflow, BakedNameIsOwn, Resolve
      <4>. QED
        BY <4>1, <4>2, <3>1, <2>0, <2>1, <1>1 DEF TypeOK
    <3>. QED
      BY <3>2, <3>3
  <2>. QED
    BY <2>2, <2>3 DEF BakedNameIsOwn
<1>6. StackMirrorsLoads'
  <2>. SUFFICES ASSUME ~threw, ~overflowed
                PROVE  stack = [i \in DOMAIN loading' |-> ShortName[loading'[i].module]]
    BY DEF StackMirrorsLoads, Resolve
  <2>1. Len(stack) = n /\ \A i \in 1 .. n : stack[i] = ShortName[loading[i].module]
    BY DEF StackMirrorsLoads, TypeOK
  <2>2. \A i \in 1 .. n : stack[i] = ShortName[loading'[i].module]
    <3>. SUFFICES ASSUME NEW i \in 1 .. n
                  PROVE  stack[i] = ShortName[loading'[i].module]
      OBVIOUS
    <3>1. CASE i = n
      BY <3>1, <1>1, <2>1
    <3>2. CASE i \in 1 .. n - 1
      BY <3>2, <1>1, <2>1
    <3>. QED
      BY <3>1, <3>2 DEF TypeOK
  <2>3. stack \in Seq(Names)
    BY DEF TypeOK
  <2>. HIDE DEF n, m, NamesInv, Resolve
  <2>. QED
    BY <1>1, <2>1, <2>2, <2>3, MirrorsWhenEqual
<1>. QED
  BY <1>3, <1>4, <1>5, <1>6

(* Loads that end or are left: the outer ones, all of which run, go on.      *)
LEMMA EndingPreserves ==
  ASSUME NamesInv, NEW n \in 0 .. Len(loading), n < Len(loading), loading' = SubSeq(loading, 1, n),
         UNCHANGED <<fired, baked, overflowed>>,
         \/ stack' = Popped(stack) /\ threw' = threw /\ n = Len(loading) - 1
         \/ stack' = stack /\ threw' = TRUE
  PROVE  NamesInv'
<1>. USE ModuleNamesAssumption DEF NamesInv
<1>1. /\ loading' \in Seq(LoadRecord) /\ Len(loading') = n
      /\ \A i \in 1 .. n : loading'[i] = loading[i] /\ loading'[i].running
  <2>1. /\ loading' \in Seq(LoadRecord) /\ Len(loading') = n
        /\ \A i \in 1 .. n : loading'[i] = loading[i]
    BY FrontKeeps DEF TypeOK, LoadRecord
  <2>2. \A i \in 1 .. n : loading[i].running
    BY DEF TypeOK, OuterLoadsRun
  <2>. QED
    BY <2>1, <2>2
<1>2. /\ stack' \in Seq(Names) /\ Len(stack') \in Nat /\ Len(stack') <= Len(stack)
  BY FrontKeeps DEF TypeOK, Popped, Front
<1>3. TypeOK'
  <2>1. loading' \in Seq([module : Modules, running : BOOLEAN])
    BY <1>1 DEF LoadRecord
  <2>2. Len(stack) \in Nat /\ Len(stack) <= MaxStack
    BY DEF TypeOK
  <2>3. Len(stack') <= MaxStack
    BY <1>2, <2>2
  <2>4. threw' \in BOOLEAN
    BY DEF TypeOK
  <2>. QED
    BY <1>2, <2>1, <2>3, <2>4 DEF TypeOK
<1>4. OuterLoadsRun' /\ NothingBeforeHlx' /\ NameIsOnTop'
  BY <1>1 DEF OuterLoadsRun, NothingBeforeHlx, NameIsOnTop, Last, TypeOK
<1>5. OwnNameUntilOverflow'
  BY <1>1 DEF OwnNameUntilOverflow, BakedNameIsOwn, TypeOK
<1>6. StackMirrorsLoads'
  <2>. SUFFICES ASSUME ~threw', ~overflowed
                PROVE  stack' = [i \in DOMAIN loading' |-> ShortName[loading'[i].module]]
    BY DEF StackMirrorsLoads
  <2>1. Len(stack) = n + 1 /\ \A i \in 1 .. n + 1 : stack[i] = ShortName[loading[i].module]
    BY DEF StackMirrorsLoads, TypeOK
  <2>2. Len(stack') = n /\ \A i \in 1 .. n : stack'[i] = stack[i]
    BY <2>1, FrontKeeps DEF Popped, Front, TypeOK
  <2>3. \A i \in 1 .. n : stack'[i] = ShortName[loading'[i].module]
    BY <1>1, <2>1, <2>2
  <2>. QED
    BY <1>1, <1>2, <2>2, <2>3, MirrorsWhenEqual
<1>. QED
  BY <1>3, <1>4, <1>5, <1>6

LEMMA LoadsPreserve == NamesInv /\ [Next]_vars => NamesInv'
<1>. SUFFICES ASSUME NamesInv, [Next]_vars
              PROVE  NamesInv'
  OBVIOUS
<1>1. CASE Boot
  BY <1>1, BeginPreserves, ModuleNamesAssumption DEF Boot, NamesInv, NothingBeforeHlx
<1>2. ASSUME NEW m \in Modules, LoadPlugin(m)
      PROVE  NamesInv'
  BY <1>2, BeginPreserves DEF LoadPlugin
<1>3. CASE Resolve
  BY <1>3, ResolvePreserves
<1>4. CASE Return
  <2>1. Len(loading) - 1 \in 0 .. Len(loading)
    BY <1>4 DEF Return, NamesInv, TypeOK
  <2>2. /\ loading' = SubSeq(loading, 1, Len(loading) - 1) /\ Len(loading) - 1 < Len(loading)
        /\ stack' = Popped(stack) /\ UNCHANGED <<fired, baked, overflowed, threw>>
    BY <1>4 DEF Return, Front, NamesInv, TypeOK
  <2>. QED
    BY <2>1, <2>2, EndingPreserves
<1>5. ASSUME NEW k \in 1 .. MaxLoads, Throw(k)
      PROVE  NamesInv'
  <2>1. Len(loading) - k \in 0 .. Len(loading) /\ Len(loading) - k < Len(loading)
    BY <1>5, ModuleNamesAssumption DEF Throw, NamesInv, TypeOK
  <2>. QED
    BY <1>5, <2>1, EndingPreserves DEF Throw
<1>6. CASE UNCHANGED vars
  BY <1>6 DEF vars, NamesInv, TypeOK, OuterLoadsRun, NameIsOnTop, NothingBeforeHlx,
     OwnNameUntilOverflow, BakedNameIsOwn, StackMirrorsLoads
<1>. QED
  BY <1>1, <1>2, <1>3, <1>4, <1>5, <1>6 DEF Next

-----------------------------------------------------------------------------
(* What is read from a loader.conf is what one of the lines says whose value *)
(* is among the bytes that are read.                                         *)
LEMMA SettingIsSaid ==
  ASSUME conf \in Confs \cup Written, NEW key, NEW default
  PROVE  /\ Setting(conf, key, default) \in Says(conf, key, default)
         /\ Setting(conf, key, default) \in Recognized(key) \cup {default}
<1>. DEFINE I == LinesFor(conf, key)
<1>1. CASE I = {}
  BY <1>1 DEF Setting, Says
<1>2. CASE I # {}
  <2>1. Len(conf) \in Nat /\ DOMAIN conf = 1 .. Len(conf)
    BY LogFilesAssumption DEF Written, DefaultConf
  <2>2. I \subseteq Nat
    BY <2>1 DEF LinesFor
  <2>3. PICK i \in I : \A k \in I : i <= k
    BY <1>2, <2>2, LeastExists
  <2>. DEFINE j == CHOOSE j \in I : \A k \in I : j <= k
  <2>4. j \in I
    BY <2>3
  <2>5. Setting(conf, key, default) = conf[j].value
    BY <1>2 DEF Setting
  <2>6. conf[j].value \in Recognized(key)
    BY <2>4 DEF LinesFor
  <2>. HIDE DEF j
  <2>. QED
    BY <1>2, <2>4, <2>5, <2>6 DEF Says
<1>. QED
  BY <1>1, <1>2

(* Once the process runs, what was read of loader.conf is in force, and a    *)
(* fresh one logs as if nothing had been.                                    *)
SettingsAreSaid ==
  /\ up => trace \in Says(WasRead, "game_trace", FALSE) /\ level \in Says(WasRead, "log_level", Info)
  /\ ~unread => conf # NULL
  /\ ~up => trace = FALSE /\ level = Info /\ unread

(* The inductive invariant.                                                  *)
IInv == NamesInv /\ LogTypeOK /\ SettingsAreSaid

(* When nothing was read, nothing is said.                                   *)
LEMMA NothingSaid ==
  /\ Says(<<>>, "game_trace", FALSE) = {FALSE} /\ Says(<<>>, "log_level", Info) = {Info}
  /\ Info \in Debug .. Error
<1>1. \A key : LinesFor(<<>>, key) = {}
  BY DEF LinesFor
<1>2. Says(<<>>, "game_trace", FALSE) = {FALSE}
  BY <1>1 DEF Says
<1>3. Says(<<>>, "log_level", Info) = {Info}
  BY <1>1 DEF Says
<1>4. Info \in Debug .. Error
  BY DEF Debug, Info, Error
<1>. QED
  BY <1>2, <1>3, <1>4

LEMMA ReadingPreserves == IInv /\ LoadLoaderConfig => IInv'
<1>. SUFFICES ASSUME IInv, LoadLoaderConfig PROVE IInv'
  OBVIOUS
<1>1. UNCHANGED vars /\ ~up /\ up' /\ UNCHANGED nameless /\ trace = FALSE /\ level = Info
  BY DEF LoadLoaderConfig, IInv, SettingsAreSaid
<1>2. NamesInv' /\ nameless' \subseteq Modules
  BY <1>1, LoadsPreserve DEF IInv, LogTypeOK
<1>3. unread' \in BOOLEAN /\ conf \in Confs \cup {NULL} \cup Written
  BY DEF LoadLoaderConfig, IInv, LogTypeOK
<1>4. CASE unread'
  <2>1. conf' \in Confs \cup {NULL} \cup Written /\ trace' = FALSE /\ level' = Info
    BY <1>1, <1>3, <1>4 DEF LoadLoaderConfig
  <2>2. WasRead' = <<>>
    BY <1>4 DEF WasRead
  <2>3. FALSE \in Says(WasRead, "game_trace", FALSE)' /\ Info \in Says(WasRead, "log_level", Info)'
    BY <2>2, NothingSaid DEF Says
  <2>. QED
    BY <1>1, <1>2, <1>3, <1>4, <2>1, <2>3, NothingSaid DEF IInv, LogTypeOK, SettingsAreSaid, LoadLoaderConfig
<1>5. CASE ~unread'
  <2>1. conf # NULL
    BY <1>5 DEF LoadLoaderConfig
  <2>2. /\ trace' = Setting(conf, "game_trace", FALSE) /\ level' = Setting(conf, "log_level", Info)
        /\ conf' = conf /\ conf \in Confs \cup Written
    BY <1>1, <1>3, <1>5, <2>1 DEF LoadLoaderConfig
  <2>3. trace' \in Says(conf, "game_trace", FALSE) /\ trace' \in BOOLEAN
    BY <2>2, SettingIsSaid DEF Recognized
  <2>4. level' \in Says(conf, "log_level", Info) /\ level' \in (Debug .. Error) \cup {Info}
    <3>1. Recognized("log_level") = Debug .. Error
      BY DEF Recognized
    <3>. QED
      BY <2>2, <3>1, SettingIsSaid
  <2>5. level' \in Debug .. Error
    BY <2>4, NothingSaid
  <2>6. WasRead' = conf
    BY <1>5, <2>2 DEF WasRead
  <2>7. Says(WasRead, "game_trace", FALSE)' = Says(conf, "game_trace", FALSE)
        /\ Says(WasRead, "log_level", Info)' = Says(conf, "log_level", Info)
    BY <2>6 DEF Says
  <2>. QED
    BY <1>1, <1>2, <1>3, <1>5, <2>1, <2>2, <2>3, <2>4, <2>5, <2>7
    DEF IInv, LogTypeOK, SettingsAreSaid
<1>. QED
  BY <1>4, <1>5

LEMMA IInvHolds == LogSpec => []IInv
<1>1. LogInit => IInv
  <2>. SUFFICES ASSUME LogInit PROVE IInv
    OBVIOUS
  <2>1. NamesInv
    BY InitEstablishes DEF LogInit
  <2>. QED
    BY <2>1, NothingSaid DEF LogInit, IInv, LogTypeOK, SettingsAreSaid, WasRead
<1>2. IInv /\ [LogNext]_logVars => IInv'
  <2>. SUFFICES ASSUME IInv, [LogNext]_logVars PROVE IInv'
    OBVIOUS
  <2>1. CASE LoadLoaderConfig
    BY <2>1, ReadingPreserves
  <2>2. CASE LoadStep
    <3>1. NamesInv'
      BY <2>2, LoadsPreserve DEF LoadStep, LoadingStep, Next, IInv
    <3>2. nameless' \subseteq Modules
      <4>1. Resolve => Last(loading).module \in Modules
        <5>. SUFFICES ASSUME Resolve PROVE Last(loading).module \in Modules
          OBVIOUS
        <5>1. loading \in Seq(LoadRecord) /\ loading # <<>>
          BY DEF Resolve, IInv, NamesInv, TypeOK, LoadRecord
        <5>2. Last(loading) \in LoadRecord
          BY <5>1 DEF Last
        <5>. QED
          BY <5>2 DEF LoadRecord
      <4>. QED
        BY <2>2, <4>1 DEF LoadStep, IInv, LogTypeOK
    <3>3. UNCHANGED <<up, conf, trace, level, unread>>
      BY <2>2 DEF LoadStep
    <3>4. WasRead' = WasRead
      BY <3>3 DEF WasRead
    <3>5. SettingsAreSaid'
      BY <3>3, <3>4 DEF SettingsAreSaid, Says, IInv
    <3>. QED
      BY <3>1, <3>2, <3>3, <3>5 DEF IInv, LogTypeOK
  <2>3. CASE End
    <3>1. NamesInv'
      <4>1. /\ fired' = FALSE /\ stack' = <<>> /\ loading' = <<>> /\ threw' = FALSE
            /\ baked' = [m \in Modules |-> NULL] /\ overflowed' = overflowed
            /\ overflowed \in BOOLEAN
        BY <2>3 DEF End, Fresh, IInv, NamesInv, TypeOK
      <4>2. TypeOK'
        <5>1. <<>> \in Seq(Names) /\ Len(<<>>) <= MaxStack
          BY EmptySeq, ModuleNamesAssumption
        <5>2. <<>> \in Seq([module : Modules, running : BOOLEAN])
          BY EmptySeq
        <5>. QED
          BY <4>1, <5>1, <5>2 DEF TypeOK
      <4>3. OuterLoadsRun' /\ NameIsOnTop' /\ NothingBeforeHlx'
        BY <4>1 DEF OuterLoadsRun, NameIsOnTop, NothingBeforeHlx
      <4>4. OwnNameUntilOverflow'
        BY <4>1 DEF OwnNameUntilOverflow, BakedNameIsOwn
      <4>5. StackMirrorsLoads'
        <5>1. <<>> \in Seq(Names) /\ <<>> \in Seq(LoadRecord) /\ Len(<<>>) = 0
          OBVIOUS
        <5>2. <<>> = [i \in DOMAIN <<>> |-> ShortName[<<>>[i].module]]
          BY <5>1, MirrorsWhenEqual
        <5>. QED
          BY <4>1, <5>2 DEF StackMirrorsLoads
      <4>. QED
        BY <4>2, <4>3, <4>4, <4>5 DEF NamesInv
    <3>. QED
      BY <2>3, <3>1, NothingSaid DEF End, Fresh, IInv, LogTypeOK, SettingsAreSaid
  <2>4. CASE EditConf
    <3>1. NamesInv'
      BY <2>4, LoadsPreserve DEF EditConf, IInv
    <3>. QED
      BY <2>4, <3>1 DEF EditConf, IInv, LogTypeOK, SettingsAreSaid
  <2>5. CASE UNCHANGED logVars
    <3>1. NamesInv'
      BY <2>5, LoadsPreserve DEF logVars, IInv
    <3>. QED
      BY <2>5, <3>1 DEF logVars, IInv, LogTypeOK, SettingsAreSaid, Says, WasRead
  <2>. QED
    BY <2>1, <2>2, <2>3, <2>4, <2>5 DEF LogNext
<1>. QED
  BY <1>1, <1>2, PTL DEF LogSpec

-----------------------------------------------------------------------------
(* In any number of runs PushModuleName never writes past g_moduleStack, and *)
(* while nothing threw and nothing was dropped the stack is exactly the      *)
(* loads in progress (hlx_common.c).                                         *)
THEOREM StackStaysConsistent == LogSpec => []StackConsistent
<1>1. IInv => StackConsistent
  BY DEF IInv, NamesInv, StackConsistent
<1>. QED
  BY <1>1, IInvHolds, PTL

(* As long as the stack never was too small, no module's trampolines carry   *)
(* another module's name, whatever loads were left by exceptions.            *)
THEOREM NamesAreOwn == LogSpec => []OwnNameUntilOverflow
<1>1. IInv => OwnNameUntilOverflow
  BY DEF IInv, NamesInv
<1>. QED
  BY <1>1, IInvHolds, PTL

(* Every line of a module that has a name is filed under the module's own,   *)
(* the game's and hlx-boot's as one of the lines says that are within the    *)
(* first BufferEnd bytes of a loader.conf that could be opened, and by       *)
(* default otherwise, in every run of the game (log.c, HookedSysPrintCommon  *)
(* and hlx_log; config.c).                                                   *)
THEOREM LinesAreFiled == LogSpec => []LogsConsistent
<1>1. IInv => LogsConsistent
  <2>. SUFFICES ASSUME IInv, up, ~overflowed PROVE LinesGoWhereTheyBelong
    BY DEF IInv, LogsConsistent, LinesGoWhereTheyBelong
  <2>1. ASSUME NEW m \in Modules \ nameless, baked[m] # NULL
        PROVE  NameOf(m) = ShortName[m] /\ Route(NameOf(m)) = "hlx.log"
    <3>1. baked[m] = ShortName[m] /\ ShortName[m] # NULL
      BY <2>1, ModuleNamesAssumption DEF Names, IInv, NamesInv, OwnNameUntilOverflow, BakedNameIsOwn
    <3>. QED
      BY <2>1, <3>1 DEF NameOf, Route
  <2>2. /\ trace \in Says(WasRead, "game_trace", FALSE)
        /\ Route(NULL) = IF trace THEN "game_trace.log" ELSE NULL
    BY DEF IInv, SettingsAreSaid, Route
  <2>3. level \in Says(WasRead, "log_level", Info) /\ level \in Int
    BY DEF IInv, SettingsAreSaid, LogTypeOK, Debug, Error
  <2>4. \A severity \in Debug .. Error :
          FileOfLog(severity) = IF severity >= level THEN "hlx.log" ELSE NULL
    BY <2>3 DEF FileOfLog, Debug, Error
  <2>. QED
    BY <2>1, <2>2, <2>3, <2>4 DEF LinesGoWhereTheyBelong
<1>. QED
  BY <1>1, IInvHolds, PTL

-----------------------------------------------------------------------------
(* Trees. *)

Depths == 0 .. MaxDepth

(* A recursion over depths has a solution up to each of them.                 *)
LEMMA TreesToIs ==
  /\ TreesTo[0] = Leaves
  /\ \A n \in Depths : n # 0 => TreesTo[n] = Leaves \cup Objects(TreesTo[n - 1])
<1>. DEFINE Is(g, n) == g = [k \in 0 .. n |-> IF k = 0 THEN Leaves ELSE Leaves \cup Objects(g[k - 1])]
            Missing == {n \in Depths : ~\E g : Is(g, n)}
<1>0. MaxDepth \in Nat /\ Missing \subseteq Nat /\ Depths = 0 .. MaxDepth
  BY ModFilesAssumption DEF Depths
<1>1. Missing = {}
  <2>1. SUFFICES ASSUME Missing # {} PROVE FALSE
    OBVIOUS
  <2>2. PICK n \in Missing : \A m \in Missing : n <= m
    <3>. HIDE DEF Missing
    <3>. QED
      BY <1>0, <2>1, LeastExists
  <2>3. CASE n = 0
    <3>. DEFINE g == [k \in 0 .. 0 |-> Leaves]
    <3>1. Is(g, 0)
      OBVIOUS
    <3>. QED
      BY <2>2, <2>3, <3>1
  <2>4. CASE n # 0
    <3>1. n - 1 \in Depths /\ n - 1 \notin Missing /\ n \in Nat
      <4>1. n \in Depths
        BY <2>2, Zenon
      <4>. HIDE DEF Missing
      <4>2. n - 1 \in Depths /\ n \in Nat
        BY <1>0, <2>4, <4>1
      <4>3. n - 1 \notin Missing
        BY <2>2, <4>2
      <4>. QED
        BY <4>2, <4>3
    <3>2. PICK g : Is(g, n - 1)
      BY <3>1
    <3>. DEFINE last == Leaves \cup Objects(g[n - 1])
                h == [k \in 0 .. n |-> IF k = n THEN last ELSE g[k]]
    <3>3. \A k \in 0 .. n - 1 : g[k] = IF k = 0 THEN Leaves ELSE Leaves \cup Objects(g[k - 1])
      BY <3>2, Zenon
    <3>4. ASSUME NEW k \in 0 .. n PROVE h[k] = IF k = 0 THEN Leaves ELSE Leaves \cup Objects(h[k - 1])
      <4>1. CASE k = n
        <5>1. h[n] = last /\ h[n - 1] = g[n - 1]
          BY <1>0, <2>4, <3>1
        <5>. QED
          BY <2>4, <4>1, <5>1, Zenon
      <4>2. CASE k # n
        <5>1. h[k] = g[k] /\ k \in 0 .. n - 1 /\ (k # 0 => h[k - 1] = g[k - 1])
          BY <3>1, <4>2
        <5>. HIDE DEF h
        <5>. QED
          BY <3>3, <5>1, Zenon
      <4>. QED
        BY <4>1, <4>2
    <3>5. h = [k \in 0 .. n |-> h[k]]
      BY Zenon
    <3>. HIDE DEF h
    <3>6. Is(h, n)
      BY <3>4, <3>5, Zenon
    <3>. QED
      BY <2>2, <3>6
  <2>. QED
    BY <2>3, <2>4
<1>2. MaxDepth \in Depths
  BY ModFilesAssumption DEF Depths
<1>3. \E g : Is(g, MaxDepth)
  BY <1>1, <1>2
<1>4. TreesTo = CHOOSE g : Is(g, MaxDepth)
  BY Zenon DEF TreesTo
<1>5. Is(TreesTo, MaxDepth)
  BY <1>3, <1>4, Zenon
<1>6. \A k \in Depths : TreesTo[k] = IF k = 0 THEN Leaves ELSE Leaves \cup Objects(TreesTo[k - 1])
  BY <1>5, Zenon DEF Depths
<1>7. 0 \in Depths
  BY ModFilesAssumption DEF Depths
<1>. QED
  BY <1>6, <1>7, Zenon

(* Deeper trees only add to those there are.                                 *)
LEMMA LevelsGrow ==
  ASSUME NEW n \in Depths
  PROVE  /\ n \in Nat /\ Leaves \subseteq TreesTo[n] /\ TreesTo[n] \subseteq Trees
         /\ n # 0 => n - 1 \in Depths /\ TreesTo[n - 1] \subseteq TreesTo[n]
<1>1. Depths \subseteq Nat /\ MaxDepth \in Depths /\ 0 \in Depths /\ \A k \in Depths : k <= MaxDepth
  BY ModFilesAssumption DEF Depths
<1>2. ASSUME NEW k \in Depths, k # 0 PROVE k - 1 \in Depths
  BY <1>2, ModFilesAssumption DEF Depths
<1>3. ASSUME NEW k \in Depths PROVE Leaves \subseteq TreesTo[k]
  BY TreesToIs
<1>4. ASSUME NEW k \in Depths, k # 0 PROVE TreesTo[k - 1] \subseteq TreesTo[k]
  <2>. DEFINE S == {j \in Depths : j # 0 /\ ~(TreesTo[j - 1] \subseteq TreesTo[j])}
  <2>1. SUFFICES ASSUME S # {} PROVE FALSE
    BY <1>4
  <2>2. PICK j \in S : \A m \in S : j <= m
    <3>1. S \subseteq Nat
      BY <1>1
    <3>. HIDE DEF S
    <3>. QED
      BY <2>1, <3>1, LeastExists
  <2>3. j \in Depths /\ j # 0 /\ j - 1 \in Depths /\ j \in Nat
    BY <1>1, <1>2, <2>2
  <2>4. j - 1 # 0 => TreesTo[j - 2] \subseteq TreesTo[j - 1]
    <3>1. j - 1 \notin S
      <4>. HIDE DEF S
      <4>. QED
        BY <2>2, <2>3
    <3>2. j - 1 - 1 = j - 2
      BY <2>3
    <3>. QED
      BY <2>3, <3>1, <3>2
  <2>5. Objects(TreesTo[j - 2]) \subseteq Objects(TreesTo[j - 1]) \/ j - 1 = 0
    BY <2>4 DEF Objects
  <2>6. /\ TreesTo[j] = Leaves \cup Objects(TreesTo[j - 1])
        /\ j - 1 # 0 => TreesTo[j - 1] = Leaves \cup Objects(TreesTo[j - 2])
        /\ j - 1 = 0 => TreesTo[j - 1] = Leaves
    <3>1. j - 1 - 1 = j - 2
      BY <2>3
    <3>. QED
      BY <2>3, <3>1, TreesToIs
  <2>7. TreesTo[j - 1] \subseteq TreesTo[j]
    BY <2>5, <2>6
  <2>. QED
    BY <2>2, <2>7
<1>5. ASSUME NEW k \in Depths PROVE TreesTo[k] \subseteq Trees
  <2>. DEFINE Gap(j) == MaxDepth - j
              S == {g \in Nat : \E j \in Depths : g = MaxDepth - j /\ ~(TreesTo[j] \subseteq Trees)}
  <2>1. SUFFICES ASSUME S # {} PROVE FALSE
    <3>1. MaxDepth - k \in Nat
      BY <1>1
    <3>. QED
      BY <2>1, <3>1
  <2>2. PICK g \in S : \A m \in S : g <= m
    <3>1. S \subseteq Nat
      OBVIOUS
    <3>. HIDE DEF S
    <3>. QED
      BY <2>1, <3>1, LeastExists
  <2>3. PICK j \in Depths : g = MaxDepth - j /\ ~(TreesTo[j] \subseteq Trees)
    BY <2>2
  <2>4. j # MaxDepth
    BY <2>3 DEF Trees
  <2>5. j + 1 \in Depths /\ g \in Nat /\ g - 1 \in Nat /\ g - 1 = MaxDepth - (j + 1) /\ j + 1 # 0 /\ j + 1 - 1 = j
    BY <2>3, <2>4, ModFilesAssumption DEF Depths
  <2>6. TreesTo[j + 1] \subseteq Trees
    <3>1. g - 1 \notin S
      <4>. HIDE DEF S
      <4>. QED
        BY <2>2, <2>5
    <3>. QED
      BY <2>5, <3>1
  <2>7. TreesTo[j] \subseteq TreesTo[j + 1]
    <3>1. PICK i \in Depths : i = j + 1 /\ i # 0 /\ i - 1 = j
      <4>1. j \in Nat
        BY <1>1
      <4>. QED
        BY <2>5, <4>1
    <3>2. TreesTo[i - 1] \subseteq TreesTo[i]
      BY <1>4, <3>1
    <3>. QED
      BY <3>1, <3>2, Zenon
  <2>. QED
    BY <2>3, <2>5, <2>6, <2>7
<1>. QED
  BY <1>1, <1>2, <1>3, <1>4, <1>5

(* A tree is a leaf, or an object of trees less deep; and such an object is   *)
(* a tree.                                                                   *)
IsLeaf(t) == t = Leaf(t.value) /\ ~IsPlainObject(t) /\ FieldsOf(t) = {}
IsObject(t, n) ==
  /\ n # 0 /\ n - 1 \in Depths /\ IsPlainObject(t)
  /\ \A f \in Fields : Field(t, f) \in TreesTo[n - 1] /\ Field(t, f) # NULL

LEMMA LeafIs ==
  ASSUME NEW v, v # PlainObject
  PROVE  IsLeaf(Leaf(v)) /\ Leaf(v).value = v
  BY DEF IsLeaf, Leaf, Tree, IsPlainObject, FieldsOf

LEMMA NoTreeIsNull ==
  ASSUME NEW t \in Trees
  PROVE  t # NULL
  BY ModFilesAssumption

LEMMA NullIsLeaf ==
  ASSUME NEW n \in Depths
  PROVE  IsLeaf(Leaf(NULL)) /\ Leaf(NULL).value = NULL /\ Leaf(NULL) \in TreesTo[n]
<1>1. NULL # PlainObject
  BY ModFilesAssumption
<1>2. Leaf(NULL) \in Leaves
  BY DEF Leaves
<1>. QED
  BY <1>1, <1>2, LeafIs, LevelsGrow

LEMMA TreeIs ==
  ASSUME NEW n \in Depths, NEW t \in TreesTo[n]
  PROVE  IsLeaf(t) \/ IsObject(t, n)
<1>1. CASE t \in Leaves
  <2>1. PICK v \in Values \cup {NULL} : t = Leaf(v)
    BY <1>1 DEF Leaves
  <2>2. v # PlainObject
    BY ModFilesAssumption
  <2>. QED
    BY <2>1, <2>2, LeafIs
<1>2. CASE t \notin Leaves
  <2>1. n # 0 /\ t \in Objects(TreesTo[n - 1])
    BY <1>2, TreesToIs
  <2>2. n - 1 \in Depths
    BY <2>1, LevelsGrow
  <2>3. Leaf(NULL) \in TreesTo[n - 1] /\ TreesTo[n - 1] \subseteq Trees
    BY <2>2, NullIsLeaf, LevelsGrow
  <2>4. IsPlainObject(t) /\ \A f \in Fields : t.fields[f] \in TreesTo[n - 1] \cup {NULL}
    BY <2>1 DEF Objects, IsPlainObject
  <2>5. ASSUME NEW f \in Fields PROVE Field(t, f) \in TreesTo[n - 1] /\ Field(t, f) # NULL
    <3>1. Field(t, f) \in TreesTo[n - 1]
      BY <2>3, <2>4 DEF Field, FieldsOf
    <3>. QED
      BY <2>3, <3>1, NoTreeIsNull
  <2>. QED
    BY <2>1, <2>2, <2>4, <2>5 DEF IsObject
<1>. QED
  BY <1>1, <1>2

LEMMA ObjectIs ==
  ASSUME NEW n \in Depths, n # 0, NEW fields \in [Fields -> TreesTo[n - 1] \cup {NULL}]
  PROVE  /\ Tree(PlainObject, fields) \in TreesTo[n] /\ IsPlainObject(Tree(PlainObject, fields))
         /\ FieldsOf(Tree(PlainObject, fields)) = {f \in Fields : fields[f] # NULL}
         /\ \A f \in Fields : fields[f] # NULL => Field(Tree(PlainObject, fields), f) = fields[f]
<1>1. TreesTo[n] = Leaves \cup Objects(TreesTo[n - 1])
  BY TreesToIs
<1>2. Tree(PlainObject, fields) \in Objects(TreesTo[n - 1])
  BY DEF Tree, Objects
<1>. QED
  BY <1>1, <1>2 DEF Tree, IsPlainObject, FieldsOf, Field

(* What a recursion says of a tree depends on what it says of less deep ones, *)
(* so that it has a solution for each depth.                                 *)
Filling(g, d) == [t \in Trees |->
  IF t = Leaf(NULL) THEN d
  ELSE IF ~IsPlainObject(d) \/ ~IsPlainObject(t) THEN t
  ELSE Tree(PlainObject, [f \in Fields |->
         IF f \in FieldsOf(d) THEN g[Field(d, f)][Field(t, f)] ELSE NULL])]

LEMMA FillDefaultsIs ==
  ASSUME NEW d \in Trees
  PROVE  FillDefaults[d] = Filling(FillDefaults, d)
<1>. DEFINE Is(g, T) == g = [a \in T |-> Filling(g, a)]
            Missing == {n \in Depths : ~\E g : Is(g, TreesTo[n])}
<1>0. Missing \subseteq Nat
  BY LevelsGrow
<1>1. Missing = {}
  <2>1. SUFFICES ASSUME Missing # {} PROVE FALSE
    OBVIOUS
  <2>2. PICK n \in Missing : \A m \in Missing : n <= m
    <3>. HIDE DEF Missing
    <3>. QED
      BY <1>0, <2>1, LeastExists
  <2>3. n \in Depths /\ n \in Nat
    BY <2>2, LevelsGrow, Zenon
  <2>4. n # 0 => \E g : Is(g, TreesTo[n - 1])
    <3>1. n # 0 => n - 1 \in Depths
      BY <2>3, LevelsGrow
    <3>2. n - 1 \notin Missing
      <4>. HIDE DEF Missing
      <4>. QED
        BY <2>2, <2>3
    <3>. QED
      BY <3>1, <3>2, Zenon
  <2>5. PICK g : n # 0 => Is(g, TreesTo[n - 1])
    BY <2>4, Zenon
  <2>. DEFINE T == TreesTo[n]
              h == [a \in T |-> Filling(g, a)]
  <2>6. ASSUME n # 0, NEW a \in TreesTo[n - 1] PROVE g[a] = h[a]
    <3>1. g[a] = Filling(g, a)
      BY <2>5, <2>6, Zenon
    <3>2. a \in T
      BY <2>3, <2>6, LevelsGrow
    <3>3. h[a] = Filling(g, a)
      BY <3>2, Zenon
    <3>. QED
      BY <3>1, <3>3, Zenon
  <2>7. ASSUME NEW a \in T PROVE Filling(g, a) = Filling(h, a)
    <3>. HIDE DEF h
    <3>1. \A f \in FieldsOf(a) : g[Field(a, f)] = h[Field(a, f)]
      <4>1. FieldsOf(a) # {} => IsObject(a, n)
        BY <2>3, TreeIs DEF IsLeaf
      <4>. QED
        BY <2>6, <4>1 DEF IsObject, FieldsOf
    <3>. QED
      BY <3>1, Zenon DEF Filling
  <2>8. h = [a \in T |-> Filling(h, a)]
    <3>. DEFINE k == [a \in T |-> Filling(h, a)]
    <3>1. h = k
      BY <2>7, Zenon
    <3>. QED
      BY <3>1
  <2>9. \E u : Is(u, T)
    <3>. HIDE DEF h
    <3>. QED
      BY <2>8
  <2>. QED
    BY <2>2, <2>9
<1>2. MaxDepth \in Depths
  BY ModFilesAssumption DEF Depths
<1>3. \E g : Is(g, Trees)
  BY <1>1, <1>2, Zenon DEF Trees
<1>4. FillDefaults = CHOOSE g : Is(g, Trees)
  BY Zenon DEF FillDefaults, Filling
<1>5. Is(FillDefaults, Trees)
  BY <1>3, <1>4, Zenon
<1>. QED
  BY <1>5, Zenon

Noding(g, t) ==
  {[path |-> <<>>, value |-> t.value]}
    \cup UNION {{Below(f, n) : n \in g[Field(t, f)]} : f \in FieldsOf(t)}

LEMMA NodesIs ==
  ASSUME NEW t \in Trees
  PROVE  Nodes[t] = Noding(Nodes, t)
<1>. DEFINE Is(g, T) == g = [a \in T |-> Noding(g, a)]
            Missing == {n \in Depths : ~\E g : Is(g, TreesTo[n])}
<1>0. Missing \subseteq Nat
  BY LevelsGrow
<1>1. Missing = {}
  <2>1. SUFFICES ASSUME Missing # {} PROVE FALSE
    OBVIOUS
  <2>2. PICK n \in Missing : \A m \in Missing : n <= m
    <3>. HIDE DEF Missing
    <3>. QED
      BY <1>0, <2>1, LeastExists
  <2>3. n \in Depths /\ n \in Nat
    BY <2>2, LevelsGrow, Zenon
  <2>4. n # 0 => \E g : Is(g, TreesTo[n - 1])
    <3>1. n # 0 => n - 1 \in Depths
      BY <2>3, LevelsGrow
    <3>2. n - 1 \notin Missing
      <4>. HIDE DEF Missing
      <4>. QED
        BY <2>2, <2>3
    <3>. QED
      BY <3>1, <3>2, Zenon
  <2>5. PICK g : n # 0 => Is(g, TreesTo[n - 1])
    BY <2>4, Zenon
  <2>. DEFINE T == TreesTo[n]
              h == [a \in T |-> Noding(g, a)]
  <2>6. ASSUME n # 0, NEW a \in TreesTo[n - 1] PROVE g[a] = h[a]
    <3>1. g[a] = Noding(g, a)
      BY <2>5, <2>6, Zenon
    <3>2. a \in T
      BY <2>3, <2>6, LevelsGrow
    <3>3. h[a] = Noding(g, a)
      BY <3>2, Zenon
    <3>. QED
      BY <3>1, <3>3, Zenon
  <2>7. ASSUME NEW a \in T PROVE Noding(g, a) = Noding(h, a)
    <3>. HIDE DEF h
    <3>1. \A f \in FieldsOf(a) : g[Field(a, f)] = h[Field(a, f)]
      <4>1. FieldsOf(a) # {} => IsObject(a, n)
        BY <2>3, TreeIs DEF IsLeaf
      <4>. QED
        BY <2>6, <4>1 DEF IsObject, FieldsOf
    <3>. DEFINE F(u) == UNION {{Below(f, k) : k \in u[Field(a, f)]} : f \in FieldsOf(a)}
    <3>2. F(g) \subseteq F(h)
      BY <3>1
    <3>3. F(h) \subseteq F(g)
      BY <3>1
    <3>4. F(g) = F(h)
      BY <3>2, <3>3
    <3>5. \A u : Noding(u, a) = {[path |-> <<>>, value |-> a.value]} \cup F(u)
      BY Zenon DEF Noding
    <3>. HIDE DEF F
    <3>. QED
      BY <3>4, <3>5, Zenon
  <2>8. h = [a \in T |-> Noding(h, a)]
    <3>. DEFINE k == [a \in T |-> Noding(h, a)]
    <3>1. h = k
      BY <2>7, Zenon
    <3>. QED
      BY <3>1
  <2>9. \E u : Is(u, T)
    <3>. HIDE DEF h
    <3>. QED
      BY <2>8
  <2>. QED
    BY <2>2, <2>9
<1>2. MaxDepth \in Depths
  BY ModFilesAssumption DEF Depths
<1>3. \E g : Is(g, Trees)
  BY <1>1, <1>2, Zenon DEF Trees
<1>4. Nodes = CHOOSE g : Is(g, Trees)
  BY Zenon DEF Nodes, Noding
<1>5. Is(Nodes, Trees)
  BY <1>3, <1>4, Zenon
<1>. QED
  BY <1>5, Zenon

-----------------------------------------------------------------------------
(* Nodes. *)

IsNode(n) == n = [path |-> n.path, value |-> n.value] /\ n.path \in Seq(Fields)
Root(v) == [path |-> <<>>, value |-> v]

LEMMA RootIs ==
  ASSUME NEW v
  PROVE  IsNode(Root(v)) /\ Root(v).path = <<>> /\ Root(v).value = v
  BY DEF IsNode, Root

LEMMA BelowIs ==
  ASSUME NEW f \in Fields, NEW n, IsNode(n)
  PROVE  IsNode(Below(f, n)) /\ Below(f, n).path # <<>> /\ Below(f, n).value = n.value
<1>. DEFINE p == <<f>> \o n.path
<1>1. p \in Seq(Fields) /\ p # <<>>
  BY DEF IsNode
<1>2. Below(f, n) = [path |-> p, value |-> n.value]
  BY Zenon DEF Below
<1>. HIDE DEF p
<1>. QED
  BY <1>1, <1>2 DEF IsNode

(* A path tells the field it leads through, and how it goes on.              *)
LEMMA PathTells ==
  ASSUME NEW f \in Fields, NEW n, IsNode(n), NEW g \in Fields, NEW k, IsNode(k)
  PROVE  Below(f, n).path = Below(g, k).path <=> f = g /\ n.path = k.path
<1>. DEFINE p == n.path
            q == k.path
<1>1. p \in Seq(Fields) /\ q \in Seq(Fields)
  BY DEF IsNode
<1>2. Below(f, n).path = <<f>> \o p /\ Below(g, k).path = <<g>> \o q
  BY Zenon DEF Below
<1>. HIDE DEF p, q
<1>3. ASSUME <<f>> \o p = <<g>> \o q PROVE f = g /\ p = q
  <2>1. /\ Len(<<f>> \o p) = Len(p) + 1
        /\ \A i \in 1 .. Len(p) + 1 : (<<f>> \o p)[i] = IF i = 1 THEN f ELSE p[i - 1]
    BY <1>1, PrependShifts
  <2>2. /\ Len(<<g>> \o q) = Len(q) + 1
        /\ \A i \in 1 .. Len(q) + 1 : (<<g>> \o q)[i] = IF i = 1 THEN g ELSE q[i - 1]
    BY <1>1, PrependShifts
  <2>3. Len(p) \in Nat /\ Len(q) \in Nat
    BY <1>1
  <2>. DEFINE r == <<f>> \o p
  <2>4. /\ Len(r) = Len(p) + 1 /\ Len(r) = Len(q) + 1
        /\ \A i \in 1 .. Len(p) + 1 : r[i] = IF i = 1 THEN f ELSE p[i - 1]
        /\ \A i \in 1 .. Len(q) + 1 : r[i] = IF i = 1 THEN g ELSE q[i - 1]
    BY <1>3, <2>1, <2>2, Zenon
  <2>. HIDE DEF r
  <2>5. Len(p) = Len(q) /\ f = g
    BY <2>3, <2>4
  <2>6. ASSUME NEW i \in 1 .. Len(p) PROVE p[i] = q[i]
    <3>1. PICK j \in 1 .. Len(p) + 1 : j # 1 /\ j - 1 = i
      BY <2>3
    <3>2. r[j] = p[j - 1] /\ r[j] = q[j - 1]
      BY <2>4, <2>5, <3>1, Zenon
    <3>. QED
      BY <3>1, <3>2, Zenon
  <2>7. p = q
    BY <1>1, <2>5, <2>6, SeqEqual
  <2>. QED
    BY <2>5, <2>7
<1>. QED
  BY <1>2, <1>3, Zenon DEF p, q

LEMMA NodesAreNodes ==
  ASSUME NEW t \in Trees
  PROVE  \A n \in Nodes[t] : IsNode(n)
<1>. DEFINE OK(a) == \A n \in Nodes[a] : IsNode(n)
            S == {n \in Depths : ~\A a \in TreesTo[n] : OK(a)}
<1>0. S \subseteq Nat
  BY LevelsGrow
<1>1. S = {}
  <2>1. SUFFICES ASSUME S # {} PROVE FALSE
    OBVIOUS
  <2>2. PICK n \in S : \A m \in S : n <= m
    <3>. HIDE DEF S
    <3>. QED
      BY <1>0, <2>1, LeastExists
  <2>3. n \in Depths /\ n \in Nat /\ (n # 0 => n - 1 \in Depths) /\ TreesTo[n] \subseteq Trees
    <3>1. n \in Depths
      BY <2>2, Zenon
    <3>. HIDE DEF S
    <3>. QED
      BY <3>1, LevelsGrow
  <2>4. n # 0 => \A a \in TreesTo[n - 1] : OK(a)
    <3>1. n - 1 \notin S
      <4>. HIDE DEF S
      <4>. QED
        BY <2>2, <2>3
    <3>. HIDE DEF OK
    <3>. QED
      BY <2>3, <3>1, Zenon
  <2>5. ASSUME NEW a \in TreesTo[n] PROVE OK(a)
    <3>1. Nodes[a] = Noding(Nodes, a)
      BY <2>3, NodesIs
    <3>2. ASSUME NEW f \in FieldsOf(a), NEW k \in Nodes[Field(a, f)] PROVE IsNode(Below(f, k))
      <4>1. f \in Fields /\ n # 0 /\ Field(a, f) \in TreesTo[n - 1]
        BY <2>3, <3>2, TreeIs DEF IsLeaf, IsObject, FieldsOf
      <4>2. IsNode(k)
        BY <2>4, <3>2, <4>1
      <4>. QED
        BY <4>1, <4>2, BelowIs
    <3>3. IsNode(Root(a.value))
      BY RootIs
    <3>. QED
      BY <3>1, <3>2, <3>3 DEF Noding, Root
  <2>. QED
    BY <2>2, <2>5, Zenon
<1>2. MaxDepth \in Depths
  BY ModFilesAssumption DEF Depths
<1>. QED
  BY <1>1, <1>2 DEF Trees

(* The nodes of a leaf, and of an object.                                    *)
LEMMA NodesOfLeaf ==
  ASSUME NEW t \in Trees, IsLeaf(t)
  PROVE  Nodes[t] = {Root(t.value)}
  BY NodesIs DEF Noding, IsLeaf, Root

HasNodes(t) ==
  /\ \A m : m \in Nodes[t] <=> \/ m = Root(PlainObject)
                               \/ \E f \in FieldsOf(t) : \E n \in Nodes[Field(t, f)] : m = Below(f, n)
  /\ \A f \in Fields : \A n : IsNode(n) =>
       (Below(f, n) \in Nodes[t] <=> f \in FieldsOf(t) /\ n \in Nodes[Field(t, f)])
  /\ \A f \in Fields : \A n \in Nodes[Field(t, f)] : IsNode(n) /\ (n.value # NULL => f \in FieldsOf(t))

LEMMA NodesOfObject ==
  ASSUME NEW depth \in Depths, NEW t \in TreesTo[depth], IsObject(t, depth)
  PROVE  HasNodes(t)
<1>1. t \in Trees /\ \A f \in Fields : Field(t, f) \in Trees
  BY LevelsGrow DEF IsObject
<1>2. Nodes[t] = Noding(Nodes, t) /\ t.value = PlainObject
  BY <1>1, NodesIs DEF IsObject, IsPlainObject
<1>3. ASSUME NEW m
      PROVE  m \in Nodes[t] <=> \/ m = Root(PlainObject)
                               \/ \E f \in FieldsOf(t) : \E n \in Nodes[Field(t, f)] : m = Below(f, n)
  BY <1>2 DEF Noding, Root
<1>4. ASSUME NEW f \in Fields, NEW n \in Nodes[Field(t, f)]
      PROVE  IsNode(n) /\ (n.value # NULL => f \in FieldsOf(t))
  <2>1. IsNode(n)
    BY <1>1, NodesAreNodes
  <2>2. ASSUME f \notin FieldsOf(t) PROVE n.value = NULL
    <3>1. Field(t, f) = Leaf(NULL)
      BY <2>2 DEF Field
    <3>2. n = Root(NULL)
      BY <1>1, <3>1, NullIsLeaf, NodesOfLeaf
    <3>. QED
      BY <3>2, RootIs
  <2>. QED
    BY <2>1, <2>2
<1>5. ASSUME NEW f \in Fields, NEW n, IsNode(n)
      PROVE  Below(f, n) \in Nodes[t] <=> f \in FieldsOf(t) /\ n \in Nodes[Field(t, f)]
  <2>1. ASSUME Below(f, n) \in Nodes[t] PROVE f \in FieldsOf(t) /\ n \in Nodes[Field(t, f)]
    <3>1. Below(f, n) # Root(PlainObject)
      BY <1>5, BelowIs, RootIs
    <3>2. PICK g \in FieldsOf(t) : \E k \in Nodes[Field(t, g)] : Below(f, n) = Below(g, k)
      BY <1>3, <2>1, <3>1
    <3>3. PICK k \in Nodes[Field(t, g)] : Below(f, n) = Below(g, k)
      BY <3>2
    <3>4. g \in Fields
      BY DEF FieldsOf
    <3>5. IsNode(k)
      BY <1>4, <3>4
    <3>6. f = g /\ n.path = k.path /\ n.value = k.value
      BY <1>5, <3>3, <3>4, <3>5, BelowIs, PathTells
    <3>7. n = k
      BY <1>5, <3>5, <3>6 DEF IsNode
    <3>. QED
      BY <3>6, <3>7
  <2>. QED
    BY <1>3, <2>1
<1>. QED
  BY <1>3, <1>4, <1>5 DEF HasNodes

-----------------------------------------------------------------------------
(* Filling. *)

Same(d, t) == SameShape(d, t) => Nodes[FillDefaults[d][t]] = Expected(d, t)

(* What a field of an object is filled with decides what is below it.        *)
LEMMA ShapesBelow ==
  ASSUME NEW d, NEW t, HasNodes(d), HasNodes(t), SameShape(d, t), NEW f \in FieldsOf(d)
  PROVE  SameShape(Field(d, f), Field(t, f))
<1>1. f \in Fields
  BY DEF FieldsOf
<1>2. ASSUME NEW n \in Nodes[Field(d, f)], NEW k \in Nodes[Field(t, f)], n.path = k.path, k.value # NULL
      PROVE  n.value = PlainObject <=> k.value = PlainObject
  <2>1. IsNode(n) /\ IsNode(k) /\ Below(f, n) \in Nodes[d] /\ Below(f, k) \in Nodes[t]
    BY <1>1, <1>2 DEF HasNodes
  <2>2. /\ Below(f, n).path = Below(f, k).path
        /\ Below(f, n).value = n.value /\ Below(f, k).value = k.value
    BY <1>1, <1>2, <2>1, BelowIs, PathTells
  <2>. QED
    BY <1>2, <2>1, <2>2 DEF SameShape
<1>. QED
  BY <1>2 DEF SameShape

LEMMA GivenBelow ==
  ASSUME NEW t, HasNodes(t), NEW f \in Fields, NEW n, IsNode(n)
  PROVE  Gives(t, Below(f, n).path) <=> Gives(Field(t, f), n.path)
<1>1. ASSUME NEW m \in Nodes[t], m.path = Below(f, n).path, m.value # NULL
      PROVE  Gives(Field(t, f), n.path)
  <2>1. m # Root(PlainObject)
    BY <1>1, BelowIs, RootIs
  <2>2. PICK g \in FieldsOf(t) : \E k \in Nodes[Field(t, g)] : m = Below(g, k)
    BY <1>1, <2>1 DEF HasNodes
  <2>3. PICK k \in Nodes[Field(t, g)] : m = Below(g, k)
    BY <2>2
  <2>4. g \in Fields /\ IsNode(k)
    BY DEF HasNodes, FieldsOf
  <2>5. g = f /\ k.path = n.path /\ k.value = m.value
    BY <1>1, <2>3, <2>4, BelowIs, PathTells
  <2>. QED
    BY <1>1, <2>3, <2>5 DEF Gives
<1>2. ASSUME NEW k \in Nodes[Field(t, f)], k.path = n.path, k.value # NULL
      PROVE  Gives(t, Below(f, n).path)
  <2>1. IsNode(k) /\ Below(f, k) \in Nodes[t]
    BY <1>2 DEF HasNodes
  <2>2. Below(f, k).path = Below(f, n).path /\ Below(f, k).value = k.value
    BY <1>2, <2>1, BelowIs, PathTells
  <2>. QED
    BY <1>2, <2>1, <2>2 DEF Gives
<1>. QED
  BY <1>1, <1>2 DEF Gives

LEMMA ExpectedOfObjects ==
  ASSUME NEW d, NEW t, HasNodes(d), HasNodes(t), NEW m
  PROVE  m \in Expected(d, t) <=>
           \/ m = Root(PlainObject)
           \/ \E f \in FieldsOf(d) : \E n \in Expected(Field(d, f), Field(t, f)) : m = Below(f, n)
<1>. DEFINE Kept(e, u, k) == k \in Nodes[u] /\ k.value # NULL /\ \E n \in Nodes[e] : n.path = k.path
            Default1(e, u, n) == n \in Nodes[e] /\ ~Gives(u, n.path)
<1>1. \A e, u, k : k \in Expected(e, u) <=> Kept(e, u, k) \/ Default1(e, u, k)
  BY Zenon DEF Expected
<1>2. \A f \in Fields : \A n : IsNode(n) =>
        (Below(f, n) \in Nodes[d] <=> f \in FieldsOf(d) /\ n \in Nodes[Field(d, f)])
  BY DEF HasNodes
<1>3. \A f \in Fields : \A n : IsNode(n) =>
        (Below(f, n) \in Nodes[t] <=> f \in FieldsOf(t) /\ n \in Nodes[Field(t, f)])
  BY DEF HasNodes
<1>4. \A f \in FieldsOf(d) : f \in Fields
  BY DEF FieldsOf
<1>5. /\ \A f \in Fields : \A n \in Nodes[Field(d, f)] : IsNode(n)
      /\ \A f \in Fields : \A n \in Nodes[Field(t, f)] : IsNode(n) /\ (n.value # NULL => f \in FieldsOf(t))
  BY DEF HasNodes
<1>6. ASSUME NEW f \in Fields, NEW n, IsNode(n)
      PROVE  Kept(d, t, Below(f, n)) <=> f \in FieldsOf(d) /\ Kept(Field(d, f), Field(t, f), n)
  <2>1. ASSUME NEW j \in Nodes[d], j.path = Below(f, n).path
        PROVE  f \in FieldsOf(d) /\ \E k \in Nodes[Field(d, f)] : k.path = n.path
    <3>1. j # Root(PlainObject)
      BY <1>6, <2>1, BelowIs, RootIs
    <3>2. PICK g \in FieldsOf(d) : \E k \in Nodes[Field(d, g)] : j = Below(g, k)
      BY <2>1, <3>1 DEF HasNodes
    <3>3. PICK k \in Nodes[Field(d, g)] : j = Below(g, k)
      BY <3>2
    <3>4. g = f /\ k.path = n.path
      BY <1>4, <1>5, <1>6, <2>1, <3>3, PathTells
    <3>. QED
      BY <3>3, <3>4
  <2>2. ASSUME f \in FieldsOf(d), NEW k \in Nodes[Field(d, f)], k.path = n.path
        PROVE  Below(f, k) \in Nodes[d] /\ Below(f, k).path = Below(f, n).path
    BY <1>2, <1>5, <1>6, <2>2, PathTells
  <2>3. Below(f, n).value = n.value
    BY <1>6, BelowIs
  <2>4. ASSUME Kept(d, t, Below(f, n)) PROVE f \in FieldsOf(d) /\ Kept(Field(d, f), Field(t, f), n)
    BY <1>3, <1>6, <2>1, <2>3, <2>4
  <2>5. ASSUME f \in FieldsOf(d), Kept(Field(d, f), Field(t, f), n) PROVE Kept(d, t, Below(f, n))
    <3>1. Below(f, n) \in Nodes[t] /\ Below(f, n).value # NULL
      BY <1>3, <1>5, <1>6, <2>3, <2>5
    <3>. QED
      BY <2>2, <2>5, <3>1
  <2>. QED
    BY <2>4, <2>5
<1>7. ASSUME NEW f \in Fields, NEW n, IsNode(n)
      PROVE  Default1(d, t, Below(f, n)) <=> f \in FieldsOf(d) /\ Default1(Field(d, f), Field(t, f), n)
  BY <1>2, <1>7, GivenBelow
<1>8. Kept(d, t, Root(PlainObject))
  <2>1. Root(PlainObject) \in Nodes[d] /\ Root(PlainObject) \in Nodes[t] /\ PlainObject # NULL
    BY ModFilesAssumption DEF HasNodes
  <2>. QED
    BY <2>1, RootIs
<1>9. ASSUME m \in Expected(d, t), m # Root(PlainObject)
      PROVE  \E f \in Fields : \E n : IsNode(n) /\ m = Below(f, n)
  BY <1>1, <1>9 DEF HasNodes, FieldsOf
<1>10. \A f \in Fields : \A n : n \in Expected(Field(d, f), Field(t, f)) => IsNode(n)
  BY <1>1, <1>5
<1>. HIDE DEF Kept, Default1
<1>11. \A f \in Fields : \A n : IsNode(n) =>
         (Below(f, n) \in Expected(d, t) <=> f \in FieldsOf(d) /\ n \in Expected(Field(d, f), Field(t, f)))
  BY <1>1, <1>6, <1>7
<1>. QED
  BY <1>1, <1>4, <1>8, <1>9, <1>10, <1>11

LEMMA FillIsExact ==
  ASSUME NEW n \in Depths, NEW d \in TreesTo[n], NEW t \in TreesTo[n]
  PROVE  FillDefaults[d][t] \in TreesTo[n] /\ Same(d, t)
<1>. DEFINE OK(k) == \A a, b \in TreesTo[k] : FillDefaults[a][b] \in TreesTo[k] /\ Same(a, b)
            S == {k \in Depths : ~OK(k)}
<1>1. ASSUME NEW k \in Depths, k # 0 => OK(k - 1), NEW a \in TreesTo[k], NEW b \in TreesTo[k]
      PROVE  FillDefaults[a][b] \in TreesTo[k] /\ Same(a, b)
  <2>1. /\ a \in Trees /\ b \in Trees
        /\ \A u \in TreesTo[k] : u \in Trees /\ (IsLeaf(u) \/ IsObject(u, k))
        /\ FillDefaults[a][b] = Filling(FillDefaults, a)[b]
    BY LevelsGrow, TreeIs, FillDefaultsIs
  <2>2. CASE b = Leaf(NULL)
    <3>1. FillDefaults[a][b] = a
      BY <2>1, <2>2 DEF Filling
    <3>2. Nodes[b] = {Root(NULL)}
      BY <2>1, <2>2, NullIsLeaf, NodesOfLeaf
    <3>3. Expected(a, b) = Nodes[a]
      BY <3>2, RootIs DEF Expected, Gives
    <3>. QED
      BY <3>1, <3>3 DEF Same
  <2>3. CASE b # Leaf(NULL) /\ ~(IsPlainObject(a) /\ IsPlainObject(b))
    <3>1. FillDefaults[a][b] = b
      BY <2>1, <2>3 DEF Filling
    <3>2. Root(a.value) \in Nodes[a] /\ Root(b.value) \in Nodes[b]
      BY <2>1, NodesIs DEF Noding, Root
    <3>3. ASSUME SameShape(a, b) PROVE Nodes[b] = Expected(a, b)
      <4>1. b.value # NULL
        BY <2>1, <2>3, ModFilesAssumption DEF IsLeaf, IsObject, IsPlainObject
      <4>2. IsLeaf(a) /\ IsLeaf(b)
        BY <2>1, <2>3, <3>2, <3>3, <4>1, RootIs DEF SameShape, IsObject, IsPlainObject
      <4>3. Nodes[a] = {Root(a.value)} /\ Nodes[b] = {Root(b.value)}
        BY <2>1, <4>2, NodesOfLeaf
      <4>. QED
        BY <4>1, <4>3, RootIs DEF Expected, Gives
    <3>. QED
      BY <3>1, <3>3 DEF Same
  <2>4. CASE b # Leaf(NULL) /\ IsPlainObject(a) /\ IsPlainObject(b)
    <3>. DEFINE fields == [f \in Fields |->
                  IF f \in FieldsOf(a) THEN FillDefaults[Field(a, f)][Field(b, f)] ELSE NULL]
                c == Tree(PlainObject, fields)
    <3>1. FillDefaults[a][b] = c
      BY <2>1, <2>4 DEF Filling
    <3>2. IsObject(a, k) /\ IsObject(b, k)
      BY <2>1, <2>4 DEF IsLeaf
    <3>3. k # 0 /\ k - 1 \in Depths /\ OK(k - 1) /\ TreesTo[k - 1] \subseteq Trees
      BY <1>1, <3>2, LevelsGrow DEF IsObject
    <3>4. ASSUME NEW f \in Fields
          PROVE  /\ FillDefaults[Field(a, f)][Field(b, f)] \in TreesTo[k - 1]
                 /\ FillDefaults[Field(a, f)][Field(b, f)] # NULL
                 /\ Same(Field(a, f), Field(b, f))
      <4>1. Field(a, f) \in TreesTo[k - 1] /\ Field(b, f) \in TreesTo[k - 1]
        BY <3>2 DEF IsObject
      <4>. QED
        BY <3>3, <4>1, NoTreeIsNull
    <3>5. /\ fields \in [Fields -> TreesTo[k - 1] \cup {NULL}]
          /\ \A f \in Fields : fields[f] # NULL <=> f \in FieldsOf(a)
          /\ \A f \in FieldsOf(a) : fields[f] = FillDefaults[Field(a, f)][Field(b, f)]
      BY <3>4 DEF FieldsOf
    <3>. HIDE DEF fields
    <3>6. /\ c \in TreesTo[k] /\ IsPlainObject(c) /\ FieldsOf(c) = FieldsOf(a)
          /\ \A f \in FieldsOf(a) : Field(c, f) = FillDefaults[Field(a, f)][Field(b, f)]
      <4>1. FieldsOf(a) \subseteq Fields
        BY DEF FieldsOf
      <4>. QED
        BY <3>3, <3>5, <4>1, ObjectIs
    <3>. HIDE DEF c
    <3>7. HasNodes(a) /\ HasNodes(b) /\ HasNodes(c)
      BY <2>1, <3>2, <3>6, NodesOfObject DEF IsLeaf
    <3>8. ASSUME SameShape(a, b) PROVE Nodes[c] = Expected(a, b)
      <4>1. ASSUME NEW f \in FieldsOf(a) PROVE Nodes[Field(c, f)] = Expected(Field(a, f), Field(b, f))
        <5>1. f \in Fields
          BY DEF FieldsOf
        <5>2. SameShape(Field(a, f), Field(b, f))
          BY <3>7, <3>8, ShapesBelow
        <5>. QED
          BY <3>4, <3>6, <5>1, <5>2 DEF Same
      <4>2. ASSUME NEW m PROVE m \in Nodes[c] <=> m \in Expected(a, b)
        <5>1. m \in Nodes[c] <=> \/ m = Root(PlainObject)
                                \/ \E f \in FieldsOf(c) : \E j \in Nodes[Field(c, f)] : m = Below(f, j)
          BY <3>7 DEF HasNodes
        <5>. QED
          BY <3>6, <3>7, <4>1, <5>1, ExpectedOfObjects
      <4>. QED
        BY <4>2
    <3>. QED
      BY <3>1, <3>6, <3>8 DEF Same
  <2>. QED
    BY <2>2, <2>3, <2>4
<1>2. S = {}
  <2>. HIDE DEF OK
  <2>1. SUFFICES ASSUME S # {} PROVE FALSE
    OBVIOUS
  <2>2. S \subseteq Nat
    BY LevelsGrow
  <2>3. PICK k \in S : \A m \in S : k <= m
    <3>. HIDE DEF S
    <3>. QED
      BY <2>1, <2>2, LeastExists
  <2>4. k \in Depths /\ k \in Nat /\ (k # 0 => k - 1 \in Depths)
    BY <2>2, <2>3, LevelsGrow
  <2>5. k # 0 => OK(k - 1)
    <3>1. k - 1 \notin S
      <4>. HIDE DEF S
      <4>. QED
        BY <2>3, <2>4
    <3>. QED
      BY <2>4, <3>1
  <2>6. OK(k)
    BY <1>1, <2>4, <2>5 DEF OK
  <2>. QED
    BY <2>3, <2>6
<1>. QED
  BY <1>2

-----------------------------------------------------------------------------
(* Settings. *)

(* While no name is dropped, the file of a mod that has a name to itself is   *)
(* what was last meant to be in it.                                          *)
FilesHold ==
  /\ file \in [Names -> Trees \cup {NULL, Malformed}]
  /\ meant \in [Configured -> Trees \cup {NULL, Malformed}]
  /\ settings \in [Configured -> Trees \cup {NULL}] /\ edition \in Editions
  /\ ~overflowed => \A m \in Configured : Alone(m) => file[ShortName[m]] = meant[m]

LEMMA NameIsOwn ==
  ASSUME IInv, NEW m \in Modules
  PROVE  /\ NameOf(m) \in Names \cup {NULL} /\ ShortName[m] \in Names
         /\ ~overflowed /\ NameOf(m) # NULL => NameOf(m) = ShortName[m]
         /\ ~overflowed /\ baked[m] # NULL => (NameOf(m) = NULL <=> m \in nameless)
<1>1. /\ baked[m] \in Names \cup {NULL} /\ (~overflowed => baked[m] \in {ShortName[m], NULL})
      /\ NULL \notin Names /\ ShortName[m] \in Names
  BY ModuleNamesAssumption DEF Names, IInv, NamesInv, TypeOK, OwnNameUntilOverflow, BakedNameIsOwn
<1>. QED
  BY <1>1 DEF NameOf

LEMMA LogsGoOn == [FilesNext]_allVars => [LogNext]_logVars
  BY DEF FilesNext, LogNext, Load, Save, EditFile, allVars

(* Settings come and go without touching what LogFiles is about: whatever     *)
(* holds of the log files over any number of runs holds with them.           *)
THEOREM FilesImplementLogs == FilesSpec => LogSpec
<1>1. FilesInit => LogInit
  BY DEF FilesInit
<1>. QED
  BY <1>1, LogsGoOn, PTL DEF FilesSpec, LogSpec

LEMMA IInvOfFiles == FilesSpec => []IInv
  BY FilesImplementLogs, IInvHolds, PTL

LEMMA PutKeeps ==
  ASSUME IInv, FilesHold, NEW m \in Configured, NEW t \in Trees \cup {Malformed}, Put(m, t),
         overflowed' = overflowed, UNCHANGED <<edition, settings>>
  PROVE  FilesHold'
<1>1. m \in Modules
  BY ModFilesAssumption
<1>2. CASE NameOf(m) = NULL
  BY <1>2 DEF Put, FilesHold
<1>3. CASE NameOf(m) # NULL
  <2>1. NameOf(m) \in Names /\ (~overflowed => NameOf(m) = ShortName[m])
    BY <1>1, <1>3, NameIsOwn
  <2>2. file' = [file EXCEPT ![NameOf(m)] = t] /\ meant' = [meant EXCEPT ![m] = t]
    BY <1>3 DEF Put
  <2>3. \A n \in Configured : ShortName[n] \in Names
    BY ModFilesAssumption DEF Names
  <2>. QED
    BY <2>1, <2>2, <2>3 DEF FilesHold, Alone
<1>. QED
  BY <1>2, <1>3

LEMMA FilledIsTree ==
  ASSUME NEW d \in Trees, NEW t \in Trees
  PROVE  Filled(d, t) \in Trees /\ (SameShape(d, t) => Nodes[Filled(d, t)] = Expected(d, t))
<1>1. MaxDepth \in Depths
  BY ModFilesAssumption DEF Depths
<1>. QED
  BY <1>1, FillIsExact DEF Trees, Same, Filled

LEMMA FilesStep == IInv /\ FilesHold /\ [FilesNext]_allVars => FilesHold'
<1>. SUFFICES ASSUME IInv, FilesHold, [FilesNext]_allVars PROVE FilesHold'
  OBVIOUS
<1>1. ASSUME LoadLoaderConfig \/ LoadStep \/ End \/ EditConf, Mods PROVE FilesHold'
  <2>1. overflowed => overflowed'
    BY <1>1 DEF LoadLoaderConfig, LoadStep, End, EditConf, vars, LoadingStep, Boot, LoadPlugin, Begin,
                Return, Throw, Resolve
  <2>2. UNCHANGED <<file, meant>> /\ edition' \in Editions
    BY <1>1 DEF Mods, FilesHold
  <2>3. settings' \in [Configured -> Trees \cup {NULL}]
    BY <1>1 DEF Mods, FilesHold
  <2>. QED
    BY <2>1, <2>2, <2>3 DEF FilesHold
<1>2. ASSUME NEW m \in Configured, Load(m) PROVE FilesHold'
  <2>. DEFINE d == Default[edition]
              t == IF NameOf(m) = NULL THEN NULL ELSE file[NameOf(m)]
              s == IF t \in {NULL, Malformed} THEN d ELSE Filled(d, t)
  <2>1. settings' = [settings EXCEPT ![m] = s] /\ UNCHANGED <<overflowed, file, meant, edition>>
    BY <1>2 DEF Load, logVars, vars
  <2>2. d \in Trees
    BY ModFilesAssumption DEF FilesHold
  <2>3. t \in Trees \cup {NULL, Malformed}
    <3>1. m \in Modules
      BY ModFilesAssumption
    <3>. QED
      BY <3>1, NameIsOwn DEF FilesHold
  <2>. HIDE DEF d, t
  <2>4. s \in Trees
    BY <2>2, <2>3, FilledIsTree
  <2>. HIDE DEF s
  <2>. QED
    BY <2>1, <2>4 DEF FilesHold
<1>3. ASSUME NEW m \in Configured, Save(m) PROVE FilesHold'
  <2>1. PICK t \in Saves[edition] \cup {Malformed} : Put(m, t)
    BY <1>3 DEF Save
  <2>2. t \in Trees \cup {Malformed}
    BY <2>1, ModFilesAssumption DEF FilesHold
  <2>. QED
    BY <1>3, <2>1, <2>2, PutKeeps DEF Save, logVars, vars
<1>4. ASSUME NEW m \in Configured, EditFile(m) PROVE FilesHold'
  <2>1. PICK t \in HandEdits : file' = [file EXCEPT ![ShortName[m]] = t] /\ meant' = [meant EXCEPT ![m] = t]
    BY <1>4 DEF EditFile
  <2>2. t \in Trees /\ \A n \in Configured : ShortName[n] \in Names
    BY ModFilesAssumption DEF Names
  <2>3. UNCHANGED <<overflowed, edition, settings>>
    BY <1>4 DEF EditFile, logVars, vars
  <2>. QED
    BY <2>1, <2>2, <2>3 DEF FilesHold, Alone
<1>5. CASE UNCHANGED allVars
  BY <1>5 DEF allVars, logVars, vars, FilesHold, Alone
<1>. QED
  BY <1>1, <1>2, <1>3, <1>4, <1>5 DEF FilesNext

(* Whatever is saved, edited by hand, cut off or left by another edition, and *)
(* whichever trees these are, a mod that loads its settings is given each     *)
(* value it was last meant to have, the default where there is none, and     *)
(* nothing of another mod's, as long as no name was dropped and no other mod *)
(* with settings has its name (ModConfig.hx).                                *)
THEOREM SettingsAreKept == FilesSpec => SettingsSurvive
<1>. DEFINE Given(m) ==
       settings[m] = NULL /\ settings'[m] # NULL /\ ~overflowed /\ Alone(m) =>
         LET d == Default[edition]
             t == meant[m]
         IN  IF m \in nameless \/ t \in {NULL, Malformed} THEN settings'[m] = d
             ELSE SameShape(d, t) => Nodes[settings'[m]] = Expected(d, t)
<1>1. FilesInit => FilesHold
  <2>1. \A n \in Configured : ShortName[n] \in Names
    BY ModFilesAssumption DEF Names
  <2>. QED
    BY <2>1 DEF FilesInit, FilesHold
<1>2. FilesSpec => []FilesHold
  BY <1>1, IInvOfFiles, FilesStep, PTL DEF FilesSpec
<1>3. ASSUME IInv, FilesHold, FilesNext, NEW m \in Configured, settings[m] = NULL, settings'[m] # NULL,
             ~overflowed, Alone(m)
      PROVE  Given(m)
  <2>1. ~Mods
    BY <1>3 DEF Mods
  <2>2. PICK n \in Configured : Load(n) \/ Save(n) \/ EditFile(n)
    BY <1>3, <2>1 DEF FilesNext
  <2>3. Load(n)
    BY <1>3, <2>2 DEF Save, EditFile
  <2>. DEFINE d == Default[edition]
              t == IF NameOf(n) = NULL THEN NULL ELSE file[NameOf(n)]
              s == IF t \in {NULL, Malformed} THEN d ELSE Filled(d, t)
  <2>4. settings' = [settings EXCEPT ![n] = s] /\ baked[n] # NULL
    BY <2>3 DEF Load
  <2>5. n = m /\ settings'[m] = s
    BY <1>3, <2>4 DEF FilesHold
  <2>6. m \in Modules
    BY ModFilesAssumption
  <2>7. t = IF m \in nameless THEN NULL ELSE meant[m]
    BY <1>3, <2>4, <2>5, <2>6, NameIsOwn DEF FilesHold
  <2>8. d \in Trees /\ meant[m] \in Trees \cup {NULL, Malformed}
    BY <1>3, ModFilesAssumption DEF FilesHold
  <2>9. CASE m \in nameless \/ meant[m] \in {NULL, Malformed}
    BY <2>5, <2>7, <2>9
  <2>10. CASE ~(m \in nameless \/ meant[m] \in {NULL, Malformed})
    <3>1. settings'[m] = Filled(d, meant[m]) /\ meant[m] \in Trees
      BY <2>5, <2>7, <2>8, <2>10
    <3>. HIDE DEF d
    <3>2. SameShape(d, meant[m]) => Nodes[settings'[m]] = Expected(d, meant[m])
      BY <2>8, <3>1, FilledIsTree
    <3>. QED
      BY <2>10, <3>2 DEF d
  <2>. QED
    BY <2>9, <2>10
<1>4. IInv /\ FilesHold /\ [FilesNext]_allVars => [\A m \in Configured : Given(m)]_allVars
  BY <1>3
<1>. QED
  BY <1>2, <1>4, IInvOfFiles, PTL DEF FilesSpec, SettingsSurvive

=============================================================================
