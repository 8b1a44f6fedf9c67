-------------------------------- MODULE Members --------------------------------
(***************************************************************************)
(* What mods ask of the live game by name, once the module is recovered:   *)
(* classes and their methods, static functions and constructors            *)
(* (HlxRuntime.resolveMemberOf over reflection.c), the objects that hold   *)
(* static fields, and enum values.  The game's entry point fills its       *)
(* globals one by one, and may assign its dynamic functions anew, while    *)
(* mods ask and remember the answers.                                      *)
(***************************************************************************)
EXTENDS Constructors

CONSTANTS
  TypeTables,    \* type tables a game may have, with its globals
  Asked,     \* the classes and members mods ask for: pairs of names
  Closures,  \* what a dynamic function may be assigned
  Values     \* what a static variable may hold that is no function

(* What is supposed of a type of a game, as the Haxe compiler makes them:    *)
(* its functions exist; along its supertypes no field has a method's name,   *)
(* and overrides take as many arguments; enums have a global_value, and      *)
(* constructs of different names, but no members.                            *)
IsTypeOf(g, t) ==
  LET type == g.types[t]
      line == ToSet(Lineage(g.types, t))
  IN  /\ type.name # NULL
      /\ type.super \in DOMAIN g.types \cup {NULL}
      /\ Len(type.fields) \in Nat /\ DOMAIN type.fields = 1 .. Len(type.fields)
      /\ \A m \in DOMAIN type.methods : type.methods[m] \in Findexes
      /\ \A a, b \in line : \A m \in DOMAIN g.types[a].methods :
           /\ m \notin ToSet(g.types[b].fields)
           /\ m \in DOMAIN g.types[b].methods =>
                NArgs[g.types[a].methods[m]] = NArgs[g.types[b].methods[m]]
      /\ DOMAIN type.constructs \subseteq Nat
      /\ \A i, j \in DOMAIN type.constructs :
           type.constructs[i].name = type.constructs[j].name => i = j
      /\ type.kind = HENUM =>
           type.global /\ type.super = NULL /\ DOMAIN type.methods = {} /\ type.fields = <<>>

(* Companions are objects, no enum has one, and what is bound to one's       *)
(* fields is a function that is not dynamic; the other fields are dynamic    *)
(* functions, or static variables.  A constructor or a dynamic               *)
(* function does not have the name of an instance's field, and a class with  *)
(* dynamic functions has a global_value.                                     *)
IsCompanionOf(g, c, t) ==
  LET bound == g.types[c].bound
      taken == UNION {ToSet(g.types[a].fields) : a \in ToSet(Lineage(g.types, t))}
  IN  /\ g.types[c].kind = HOBJ /\ g.types[t].kind # HENUM
      /\ \A m \in DOMAIN bound :
           /\ m \in ToSet(g.types[c].fields) /\ <<c, m>> \notin g.dynamic \cup g.variables
           /\ bound[m].fun \in Findexes /\ bound[m].receiver \in BOOLEAN
           /\ bound[m].receiver => m \notin taken
      /\ \A d \in g.dynamic : d[1] = c => g.types[t].global /\ d[2] \notin taken
      /\ \A v \in g.variables : v[1] = c => v \notin g.dynamic

(* Supertypes end, and the only global of a type holds that type's object.   *)
IsTypeTable(g) ==
  /\ Len(g.types) \in Nat /\ DOMAIN g.types = 1 .. Len(g.types) /\ NULL \notin DOMAIN g.types
  /\ Len(g.globals) \in Nat /\ DOMAIN g.globals = 1 .. Len(g.globals)
  /\ \A S \in SUBSET DOMAIN g.types : S # {} => \E t \in S : g.types[t].super \notin S
  /\ \A t \in DOMAIN g.types : IsTypeOf(g, t)
  /\ \A c, t \in DOMAIN g.types :
       g.types[c].name = CompanionName(g.types[t].name) => IsCompanionOf(g, c, t)
  /\ \A i \in DOMAIN g.globals : LET t == g.globals[i].type IN
       /\ t \in DOMAIN g.types
       /\ (\A j \in DOMAIN g.globals : g.globals[j].type = t => j = i) =>
            g.globals[i].object = g.types[t].name

ASSUME MembersAssumption ==
  /\ \A g \in TypeTables : IsTypeTable(g)
  /\ \A a \in Asked : a = <<a[1], a[2]>>
  /\ \A cl \in Closures : cl # NULL /\ cl.fun \in Findexes
  /\ \A v \in Values : v # NULL /\ v.fun \notin Findexes
  /\ NULL \notin [address : Findexes \cup {v.fun : v \in Values}, nargs : Int]
  /\ NULL \notin [fun : Findexes, hasValue : {0, 1}]

VARIABLES
  table,        \* the game's types and globals
  ready,        \* companion and enum types whose global has its object
  held,         \* what the class objects' dynamic functions and variables are
  typeCache,    \* HlxRuntime.typeCache
  memberCache   \* HlxRuntime.memberCache

memberVars == <<table, ready, held, typeCache, memberCache>>

types == table.types
Resolved(f, nargs) == [address |-> f, nargs |-> nargs]

-----------------------------------------------------------------------------
(* HashLink's own view of a type: the method it dispatches to, and the       *)
(* lookup of each type, which has its fields and the methods it introduces.  *)
NearestDefining(t, m) ==
  LET l == Lineage(types, t) IN l[Min({i \in DOMAIN l : m \in DOMAIN types[l[i]].methods})]
Methods(t, m) == types[NearestDefining(t, m)].methods[m]

IsField(t, m) == m \in ToSet(types[t].fields)
InLookup(t, m) ==
  IsField(t, m) \/ (m \in DOMAIN types[t].methods /\
                      \A a \in ToSet(Tail(Lineage(types, t))) : m \notin DOMAIN types[a].methods)

Owners(t, m) == {i \in DOMAIN Lineage(types, t) : InLookup(Lineage(types, t)[i], m)}
Owner(t, m) == Lineage(types, t)[Min(Owners(t, m))]

(* LookupMemberOnType: up the lookups, but the method table of the type that *)
(* was asked for, by which HashLink dispatches.                              *)
MethodOf_Owner(t, m) == Methods(Owner(t, m), m)   \* mutant: of the type it was found in
MethodOf(t, m) == Methods(t, m)

(* LookupClassMemberViaReflection: what the class object has in that field,  *)
(* taken for a closure.  One with a bound receiver has the type without it,  *)
(* and the full one as that type's parent.  A variable's value is a boxed    *)
(* number or an object, whose words are read as a closure's, and whose own   *)
(* type, no function's, is only looked at when a receiver seems bound.       *)
ClassObject(t) ==
  LET c == TypeNamed(types, CompanionName(types[t].name))
  IN  IF types[t].global /\ c \in ready THEN c ELSE NULL
Closure(c, m) ==
  IF <<c, m>> \in DOMAIN held THEN held[<<c, m>>]
  ELSE IF m \in DOMAIN types[c].bound
       THEN [fun |-> types[c].bound[m].fun, hasValue |-> IF types[c].bound[m].receiver THEN 1 ELSE 0]
       ELSE NULL

IsClosure(cl) == cl.fun \in Findexes

FullArgs_Reduced(cl) ==   \* mutant: the type is the closure's own
  IF IsClosure(cl) THEN NArgs[cl.fun] - cl.hasValue ELSE -1
FullArgs(cl) == IF IsClosure(cl) THEN NArgs[cl.fun] ELSE -1

LookupClassMember(t, m) ==
  LET c == ClassObject(t)
      cl == IF c = NULL THEN NULL ELSE Closure(c, m)
  IN  IF cl = NULL \/ cl.fun = NULL THEN NULL
      ELSE IF cl.hasValue = 0 \/ (cl.hasValue = 1 /\ IsClosure(cl))
           THEN Resolved(cl.fun, FullArgs(cl)) ELSE NULL

(* resolve_member_by_name.                                                   *)
ResolveMember(t, m) ==
  IF types[t].kind # HOBJ THEN NULL
  ELSE IF Owners(t, m) = {} THEN LookupClassMember(t, m)
  ELSE IF IsField(Owner(t, m), m) THEN NULL
  ELSE Resolved(MethodOf(t, m), NArgs[Methods(Owner(t, m), m)])

(* resolve_static_member_by_name: the function bound to the companion's      *)
(* field, whose number counts the fields above the companion's own.          *)
Bindings(c) ==
  {[fid |-> FieldsAbove(types, c) + i, bound |-> types[c].bound[types[c].fields[i]]] :
     i \in {j \in DOMAIN types[c].fields : types[c].fields[j] \in DOMAIN types[c].bound}}

FidOf_Local(c, i) == i   \* mutant: the fields above are forgotten
FidOf(c, i) == FieldsAbove(types, c) + i

ResolveStaticMember(t, m) ==
  LET c == TypeNamed(types, BuildCompanionTypeName(types[t].name))
      Local == {i \in DOMAIN types[c].fields : types[c].fields[i] = m}
      Match == {b \in Bindings(c) : \E i \in Local : b.fid = FidOf(c, i) /\ ~b.bound.receiver}
  IN  IF types[t].kind # HOBJ \/ c = NULL THEN NULL
      ELSE IF Match = {} THEN NULL
      ELSE LET f == (CHOOSE b \in Match : TRUE).bound.fun IN Resolved(f, NArgs[f])

-----------------------------------------------------------------------------
(* HlxRuntime.resolveType and resolveMemberOf: what was found is remembered. *)
ResolveType(name) ==
  IF typeCache[name] # NULL THEN typeCache[name]
  ELSE IF recovered THEN TypeNamed(types, name) ELSE NULL

Lookup1(cls, m) ==
  LET t == ResolveType(cls)
      member == IF t = NULL THEN NULL ELSE ResolveMember(t, m)
  IN  IF t = NULL \/ member # NULL THEN member ELSE ResolveStaticMember(t, m)

Unknown == [address |-> NULL, nargs |-> -1]
Remembered_Failures(member) ==   \* mutant: that there was none is remembered too
  IF member = NULL THEN Unknown ELSE member
Remembered(member) == member

ResolveMemberOf(cls, m) ==
  IF memberCache[<<cls, m>>] # NULL THEN memberCache[<<cls, m>>] ELSE Lookup1(cls, m)

Ask(cls, m) ==
  /\ phase \in {"built", "failed"}
  /\ typeCache' = [typeCache EXCEPT ![cls] = ResolveType(cls)]
  /\ memberCache' = [memberCache EXCEPT ![<<cls, m>>] = Remembered(ResolveMemberOf(cls, m))]
  /\ UNCHANGED <<tableVars, table, ready, held>>

(* get_static_companion_instance.  An enum has its own global; a companion   *)
(* without a global_value is looked for among the module's globals.          *)
Global(i) == IF table.globals[i].type \in ready THEN table.globals[i].object ELSE NULL
GlobalsOf(t) == {i \in DOMAIN table.globals : table.globals[i].type = t}

ScannedGlobal_First(t) ==   \* mutant: the first of several is taken
  IF GlobalsOf(t) = {} THEN NULL ELSE Global(Min(GlobalsOf(t)))
ScannedGlobal(t) ==
  IF \E i \in GlobalsOf(t) : GlobalsOf(t) = {i} THEN Global(CHOOSE i \in GlobalsOf(t) : TRUE)
  ELSE NULL

OwnGlobal(t) == IF t \in ready THEN types[t].name ELSE NULL

CompanionInstance(t) ==
  LET c == TypeNamed(types, BuildCompanionTypeName(types[t].name))
  IN  CASE types[t].kind = HENUM -> IF types[t].global THEN OwnGlobal(t) ELSE NULL
        [] types[t].kind = HOBJ /\ c # NULL /\ types[c].kind = HOBJ ->
             IF types[c].global THEN OwnGlobal(c) ELSE ScannedGlobal(c)
        [] OTHER -> NULL

(* construct_enum_by_name: the number of the construct, and its parameters.  *)
ConstructEnum(t, ctor, args) ==
  LET n == DynArgs(args, MaxDynArgs)
      named == {i \in DOMAIN types[t].constructs : types[t].constructs[i].name = ctor}
      i == Min(named)
  IN  IF types[t].kind # HENUM \/ named = {} \/ n = Refused THEN NotCalled
      ELSE IF n # types[t].constructs[i].nparams THEN NotCalled
      ELSE [called |-> i, elements |-> n]

-----------------------------------------------------------------------------
(* The game's entry point creates a class object, or an enum's; the game     *)
(* assigns a dynamic function or a variable.                                 *)
StaticInit(t) ==
  /\ recovered /\ t \notin ready
  /\ t \in {table.globals[i].type : i \in DOMAIN table.globals}
  /\ ready' = ready \cup {t}
  /\ UNCHANGED <<tableVars, table, held, typeCache, memberCache>>

Assign(c, m) ==
  /\ c \in ready /\ <<c, m>> \in DOMAIN held
  /\ \E cl \in IF <<c, m>> \in table.dynamic THEN Closures ELSE Values :
       held' = [held EXCEPT ![<<c, m>>] = cl]
  /\ UNCHANGED <<tableVars, table, ready, typeCache, memberCache>>

MembersInit ==
  /\ ready = {}
  /\ held = [d \in table.dynamic \cup table.variables |-> NULL]
  /\ typeCache = [n \in {a[1] : a \in Asked} |-> NULL]
  /\ memberCache = [a \in Asked |-> NULL]

MembersNext ==
  \/ \E a \in Asked : Ask(a[1], a[2])
  \/ \E t \in DOMAIN types : StaticInit(t)
  \/ \E d \in DOMAIN held : Assign(d[1], d[2])

-----------------------------------------------------------------------------
(* Caches and globals are what they should be.                               *)
MembersTypeOK ==
  /\ ready \subseteq DOMAIN types
  /\ \A n \in DOMAIN typeCache : typeCache[n] = NULL \/ types[typeCache[n]].name = n
  /\ \A a \in Asked : memberCache[a] # NULL => memberCache[a].address # NULL

(* What HashLink calls for a member of a class: the nearest override of a    *)
(* method, the function of a static one.                                     *)
Defines(t, m) == \E a \in ToSet(Lineage(types, t)) : m \in DOMAIN types[a].methods
StaticOf(t) == TypeNamed(types, CompanionName(types[t].name))
HasStatic(t, m) == StaticOf(t) # NULL /\ m \in DOMAIN types[StaticOf(t)].bound

Callee(t, m) ==
  IF Defines(t, m) THEN Methods(t, m) ELSE types[StaticOf(t)].bound[m].fun

(* Whenever and however often a mod asks for a member, and whichever of four *)
(* ways leads to it, it is given the function that HashLink calls and that   *)
(* function's full type: methods and plain static functions as soon as the   *)
(* module is recovered, constructors and dynamic functions as soon as their  *)
(* class object exists, however early they were asked for in vain; never a   *)
(* field of an instance.  A class whose name is too long for its companion's *)
(* may be given nothing; what a static variable gives is OnlyFunctions.      *)
ResolvesTheCallee ==
  MembersTypeOK /\
  \A a \in Asked :
    LET r == ResolveMemberOf(a[1], a[2])
        t == TypeNamed(types, a[1])
        c == StaticOf(t)
    IN  CASE ~recovered \/ t = NULL -> r = NULL
          [] recovered /\ t # NULL /\ Defines(t, a[2]) ->
               r = Resolved(Callee(t, a[2]), NArgs[Callee(t, a[2])])
          [] recovered /\ t # NULL /\ ~Defines(t, a[2]) /\ HasStatic(t, a[2]) ->
               IF types[c].bound[a[2]].receiver /\ ~(types[t].global /\ c \in ready) THEN r = NULL
               ELSE \/ r = Resolved(Callee(t, a[2]), NArgs[Callee(t, a[2])])
                    \/ r = NULL /\ types[t].name \in LongNames
          [] OTHER ->
               LET d == <<c, a[2]>>
                   cl == IF c \in ready /\ d \in DOMAIN held THEN held[d] ELSE NULL
               IN  /\ r # NULL => c \in ready /\ d \in DOMAIN held
                   /\ r # NULL /\ d \in table.dynamic => r.nargs = NArgs[r.address]
                   /\ memberCache[a] = NULL /\ cl # NULL /\ d \in table.dynamic =>
                        IF cl.hasValue \in {0, 1} THEN r.address = cl.fun ELSE r = NULL

(* reflection.c:560: "A static DATA field has no function to hand back - only *)
(* a live value inside the companion": no question is answered with what is  *)
(* no function.                                                              *)
OnlyFunctions ==
  \A a \in Asked : LET r == ResolveMemberOf(a[1], a[2]) IN r # NULL => r.address \in Findexes

(* A mod that reads or writes static fields is given the class's own object, *)
(* or an enum's, as soon as it exists, unless the module leaves more than    *)
(* one global to choose between, or the class's name is too long; an enum    *)
(* value has the parameters given.                                           *)
CompanionIsTheGames ==
  \A t \in DOMAIN types :
    LET i == CompanionInstance(t)
        c == IF types[t].kind = HENUM THEN t ELSE StaticOf(t)
    IN  /\ i # NULL => c \in ready /\ i = types[c].name
        /\ types[t].kind \in {HOBJ, HENUM} /\ c \in ready
             /\ (types[t].kind = HENUM \/ types[t].name \notin LongNames)
             /\ (types[c].global \/ Cardinality(GlobalsOf(c)) = 1) => i = types[c].name
        /\ types[t].kind = HENUM => \A j \in DOMAIN types[t].constructs, args \in Arrays :
             ConstructEnum(t, types[t].constructs[j].name, args) =
               IF CanBeRead(args) /\ Given(args) = types[t].constructs[j].nparams
                  /\ Given(args) <= MaxDynArgs
               THEN [called |-> j, elements |-> Given(args)] ELSE NotCalled
=================================================================================
