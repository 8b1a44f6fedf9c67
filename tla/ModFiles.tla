-------------------------------- MODULE ModFiles --------------------------------
(***************************************************************************)
(* What mods keep in files from one run of the game to the next: each      *)
(* mod's config.json (ModConfig.hx), under the name that was baked into    *)
(* its trampolines.  Between runs users edit the files and mods come in    *)
(* another edition; a run may end in the middle of a save (LogFiles).      *)
(***************************************************************************)
EXTENDS LogFiles, FiniteSets

CONSTANTS
  Configured,   \* mods with an @:hlx.config
  Editions,     \* of these mods; the next run may have another
  Default,      \* the default value in each edition, a tree
  Saves,        \* trees mods save in each edition
  HandEdits,    \* trees users write into a config.json
  Malformed,    \* a file that is not JSON, such as one cut off in a save
  Fields,       \* names of fields
  Values,       \* what is not null and has no fields: a number, a text, an array
  PlainObject,  \* stands where a value would, in what has fields
  MaxDepth      \* bound on how deep objects are in one another

(* What a JSON file holds, and a mod's configuration is.  A field that an     *)
(* object has not got is NULL.                                               *)
Tree(value, fields) == [value |-> value, fields |-> fields]
Leaf(v) == Tree(v, [f \in Fields |-> NULL])
Leaves == {Leaf(v) : v \in Values \cup {NULL}}
Objects(trees) == [value : {PlainObject}, fields : [Fields -> trees \cup {NULL}]]

TreesTo[depth \in 0 .. MaxDepth] ==
  IF depth = 0 THEN Leaves ELSE Leaves \cup Objects(TreesTo[depth - 1])
Trees == TreesTo[MaxDepth]

ASSUME ModFilesAssumption ==
  /\ MaxDepth \in Nat /\ NULL \notin Trees /\ PlainObject \notin Values \cup {NULL}
  /\ Configured \subseteq Modules
  /\ HandEdits \subseteq Trees
  /\ \A e \in Editions : Default[e] \in Trees /\ Saves[e] \subseteq Trees

VARIABLES
  edition,   \* the mods' edition in this run
  file,      \* hlx/config/<name>/config.json, NULL when there is none
  meant,     \* history: what each mod, or its user, last put there
  settings   \* what ModConfig.load gave each mod, NULL before it did

allVars == <<logVars, edition, file, meant, settings>>

-----------------------------------------------------------------------------
(* ModConfig.hx: Reflect.fields, and Reflect.field, null without that field.  *)
IsPlainObject(t) == t.value = PlainObject
FieldsOf(t) == {f \in Fields : t.fields[f] # NULL}
Field(t, f) == IF f \in FieldsOf(t) THEN t.fields[f] ELSE Leaf(NULL)

FillDefaults[d \in Trees] == [t \in Trees |->
  IF t = Leaf(NULL) THEN d
  ELSE IF ~IsPlainObject(d) \/ ~IsPlainObject(t) THEN t
  ELSE Tree(PlainObject, [f \in Fields |->
         IF f \in FieldsOf(d) THEN FillDefaults[Field(d, f)][Field(t, f)] ELSE NULL])]

Filled_Trusted(d, t) == t   \* mutant: what was saved by an older edition is taken as it is
Filled(d, t) == FillDefaults[d][t]

Load(m) ==
  LET d == Default[edition]
      t == IF NameOf(m) = NULL THEN NULL ELSE file[NameOf(m)]
  IN  /\ up /\ baked[m] # NULL /\ settings[m] = NULL
      /\ settings' = [settings EXCEPT ![m] = IF t \in {NULL, Malformed} THEN d ELSE Filled(d, t)]
      /\ UNCHANGED <<logVars, edition, file, meant>>

(* File.saveContent empties the file before it writes: it may fail in        *)
(* between, or the process end there.                                        *)
Put(m, t) ==
  IF NameOf(m) = NULL THEN UNCHANGED <<file, meant>>
  ELSE file' = [file EXCEPT ![NameOf(m)] = t] /\ meant' = [meant EXCEPT ![m] = t]

Save(m) ==
  /\ up /\ settings[m] # NULL
  /\ \E t \in Saves[edition] \cup {Malformed} : Put(m, t)
  /\ UNCHANGED <<logVars, edition, settings>>

-----------------------------------------------------------------------------
(* Between runs the user may edit the files.                                 *)
EditFile(m) ==
  /\ ~up
  /\ \E t \in HandEdits :
       file' = [file EXCEPT ![ShortName[m]] = t] /\ meant' = [meant EXCEPT ![m] = t]
  /\ UNCHANGED <<logVars, edition, settings>>

(* The process starts with the mods there are, and loses what was in memory  *)
(* when it ends.                                                             *)
Mods ==
  /\ IF up' /\ ~up THEN edition' \in Editions ELSE UNCHANGED edition
  /\ settings' = IF up' THEN settings ELSE [m \in Configured |-> NULL]
  /\ UNCHANGED <<file, meant>>

-----------------------------------------------------------------------------
FilesInit ==
  /\ LogInit
  /\ edition \in Editions
  /\ file = [n \in Names |-> NULL]
  /\ meant = [m \in Configured |-> NULL]
  /\ settings = [m \in Configured |-> NULL]

FilesNext ==
  \/ LoadLoaderConfig /\ Mods
  \/ LoadStep /\ Mods
  \/ End /\ Mods
  \/ EditConf /\ Mods
  \/ \E m \in Configured : Load(m) \/ Save(m) \/ EditFile(m)

FilesSpec == FilesInit /\ [][FilesNext]_allVars

-----------------------------------------------------------------------------
(* A tree by its nodes, each with its path and its value.                   *)
Below(f, n) == [path |-> <<f>> \o n.path, value |-> n.value]
Nodes[t \in Trees] ==
  {[path |-> <<>>, value |-> t.value]}
    \cup UNION {{Below(f, n) : n \in Nodes[Field(t, f)]} : f \in FieldsOf(t)}

Gives(t, p) == \E n \in Nodes[t] : n.path = p /\ n.value # NULL

(* Where both trees say something, both have an object, or neither.          *)
SameShape(d, t) == \A n \in Nodes[d], k \in Nodes[t] :
  n.path = k.path /\ k.value # NULL => (n.value = PlainObject <=> k.value = PlainObject)

Expected(d, t) ==
  {k \in Nodes[t] : k.value # NULL /\ \E n \in Nodes[d] : n.path = k.path}
    \cup {n \in Nodes[d] : ~Gives(t, n.path)}

(* What a mod is given when it loads its settings has every value that the   *)
(* mod's edition asks for: the one the mod last saved, or the user wrote, in *)
(* whichever edition and however long ago, and the default where there is    *)
(* none or the last save was cut off; never another mod's, unless two have   *)
(* one name, and so one file.                                                *)
Alone(m) == \A n \in Configured : ShortName[n] = ShortName[m] => n = m

SettingsSurvive ==
  [][\A m \in Configured :
       settings[m] = NULL /\ settings'[m] # NULL /\ ~overflowed /\ Alone(m) =>
         LET d == Default[edition]
             t == meant[m]
         IN  IF m \in nameless \/ t \in {NULL, Malformed} THEN settings'[m] = d
             ELSE SameShape(d, t) => Nodes[settings'[m]] = Expected(d, t)]_allVars
===============================================================================
