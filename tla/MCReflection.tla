------------------------------ MODULE MCReflection ------------------------------
(***************************************************************************)
(* Reflection over files of four kinds, of which each exercises one part:  *)
(* games of one function, any of three opcodes over two registers or of    *)
(* two behind a new object's copying, and one with false candidates, whose *)
(* classes' names hash to the last two of four slots and two of whose      *)
(* names narrow to one; type tables that mods ask for members; entry       *)
(* points of four opcodes that store into classes two levels deep; and     *)
(* names and allocations.                                                  *)
(***************************************************************************)
EXTENDS Reflection

MCClasses == {"Twin1", "Twin2", "Plain", "Inlined"}
MCNames == {"Twin", "Plain", "Inlined"}
MCNameOf == [c \in MCClasses |-> IF c \in {"Twin1", "Twin2"} THEN "Twin" ELSE c]
MCCallable == {"twin1_new", "twin2_new", "plain_new", "method", "inlined_new",
               "base_draw", "sub_draw", "base_new", "make", "run", "dyn_two", "dyn_three", "tick"}
MCFindexes == MCCallable \cup {"native"}
MCNArgs == [f \in MCFindexes |->
              CASE f \in {"method", "inlined_new", "base_draw", "sub_draw", "dyn_two"} -> 2
                [] f \in {"base_new", "dyn_three"} -> 3
                [] OTHER -> 1]
MCCtorOf == [c \in MCClasses |-> CASE c = "Twin1" -> "twin1_new"
                                   [] c = "Twin2" -> "twin2_new"
                                   [] c = "Plain" -> "plain_new"
                                   [] OTHER -> "inlined_new"]
MCHash == [n \in MCNames |-> IF n = "Plain" THEN 7 ELSE 2]

-----------------------------------------------------------------------------
(* A register for each class, and one that holds no object.                  *)
MCRegs == MCClasses \cup {"int"}
MCTypeOf == [r \in MCClasses |-> r]

Op(op, p1, p3) == [op |-> op, p1 |-> p1, p2 |-> "plain_new", p3 |-> p3]
New(r) == Op("New", r, NoReg)
Call(f, r) == [Op("Call", "int", r) EXCEPT !.p2 = f]

Candid ==
  {<<New("Twin1"), New("Twin2"), Call("twin1_new", "Twin1"), Call("twin2_new", "Twin2")>>,
   <<New("Plain"), Call("plain_new", "Plain"), Call("method", "Plain")>>,
   <<New("Plain"), Call("method", "Plain")>>,
   <<New("Plain"), Call("native", "Plain")>>,
   <<New("Inlined"), Op("NoDst", "Inlined", NoReg), Call("method", "Inlined")>>}

Mov(r, from) == [Op("Mov", r, NoReg) EXCEPT !.p2 = from]

Ops ==
  LET two == {"Plain", "int"}
  IN  {Op(op, r, NoReg) : op \in {"New", "Other"}, r \in two}
        \cup {Op(op, "Plain", NoReg) : op \in {"NoDst", "Call"}}
        \cup {Op(op, r, a) : op \in {"Call", "Invoke"}, r \in two, a \in two}
        \cup {Mov("Plain", "int"), Mov("int", "Plain")}

Copied == <<New("Plain"), Mov("int", "Plain")>>
MCBodies == [1 .. 3 -> Ops] \cup {Copied \o f : f \in [1 .. 2 -> Ops]} \cup Candid

-----------------------------------------------------------------------------
Nm(n) == [name |-> n, dollars |-> 0]
Co(n) == [name |-> n, dollars |-> 1]
NoFun == [m \in {} |-> NULL]
Type(name, super, fields) ==
  [name |-> name, kind |-> HOBJ, super |-> super, fields |-> fields, methods |-> NoFun,
   bound |-> NoFun, global |-> TRUE, constructs |-> <<>>]
Kind == [Type(Nm("Kind"), NULL, <<>>) EXCEPT
           !.kind = HENUM, !.constructs = <<[name |-> "None", nparams |-> 0],
                                            [name |-> "Two", nparams |-> 2]>>]

(* A class, its companion, a subclass without a global_value of its own, and *)
(* an enum.                                                                  *)
Members1 ==
  <<Type(Nm("Class"), NULL, <<"name">>),
    [Type(Nm("Base"), NULL, <<"x">>) EXCEPT
       !.methods = [m \in {"draw", "update"} |-> IF m = "draw" THEN "base_draw" ELSE "method"]],
    [Type(Co("Base"), 1, <<"make", "new", "onHit", "total">>) EXCEPT
       !.bound = [m \in {"make", "new"} |-> IF m = "make" THEN [fun |-> "make", receiver |-> FALSE]
                                            ELSE [fun |-> "base_new", receiver |-> TRUE]]],
    [Type(Nm("Sub"), 2, <<"y">>) EXCEPT !.methods = [m \in {"draw"} |-> "sub_draw"],
                                        !.global = FALSE],
    [Type(Co("Sub"), 1, <<"count", "tick">>) EXCEPT
       !.bound = [m \in {"tick"} |-> [fun |-> "tick", receiver |-> FALSE]], !.global = FALSE],
    Kind,
    [Type(Nm("LongName"), NULL, <<>>) EXCEPT !.global = FALSE],
    [Type(Co("LongName"), 1, <<"run">>) EXCEPT
       !.bound = [m \in {"run"} |-> [fun |-> "run", receiver |-> FALSE]], !.global = FALSE]>>

ObjectOf(list, t) == [type |-> t, object |-> list[t].name]

EmptyTable == [types |-> <<>>, globals |-> <<>>, dynamic |-> {}, variables |-> {}, entry |-> <<>>, ints |-> <<>>]

MemberTable ==
  [EmptyTable EXCEPT !.types = Members1, !.dynamic = {<<3, "onHit">>},
                     !.variables = {<<3, "total">>, <<5, "count">>},
                     !.globals = [i \in 1 .. 3 |-> ObjectOf(Members1, <<3, 5, 6>>[i])]]
TwoGlobals == [MemberTable EXCEPT !.globals = <<[type |-> 5, object |-> Nm("other")]>> \o @]

MCAsked == {<<Nm(q[1]), q[2]>> : q \in {<<"Base", "x">>, <<"Base", "make">>, <<"Base", "new">>,
  <<"Base", "onHit">>, <<"Base", "total">>, <<"Sub", "draw">>, <<"Sub", "update">>,
  <<"Sub", "tick">>, <<"LongName", "run">>, <<"Gone", "draw">>}}

MCLongNames == {Nm("LongName")}

MCClosures == {[fun |-> "dyn_two", hasValue |-> 0], [fun |-> "dyn_three", hasValue |-> 1],
               [fun |-> "dyn_two", hasValue |-> 2]}
MCValues == {[fun |-> NULL, hasValue |-> 0], [fun |-> "word", hasValue |-> 0],
             [fun |-> "word", hasValue |-> 1]}

MCArrays ==
  LET obj(n) == [class |-> "hl.types.ArrayObj", array |-> NULL, length |-> n]
      dyn(a) == [class |-> "hl.types.ArrayDyn", array |-> a, length |-> 0]
      text1 == [class |-> "String", array |-> NULL, length |-> 1]
  IN  {NULL, text1, dyn(NULL), dyn(text1)} \cup {obj(n) : n \in 0 .. MaxDynArgs + 1}
        \cup {dyn(obj(n)) : n \in 0 .. MaxDynArgs + 1}

-----------------------------------------------------------------------------
(* Entry points: registers "i" and "j" hold integers, "o" the object of a    *)
(* class two levels down, "p" its topmost superclass's.                      *)
Deep == <<Type(Nm("Top"), NULL, <<"a">>), Type(Nm("Mid"), 1, <<"b">>), Type(Nm("Leaf"), 2, <<"c">>)>>
EntryTable(entry) ==
  [EmptyTable EXCEPT !.types = Deep, !.ints = <<7, 8>>, !.entry = entry,
                     !.globals = <<ObjectOf(Deep, 3), ObjectOf(Deep, 1)>>]

EntryOp(op, p1, p2, p3) == [op |-> op, p1 |-> p1, p2 |-> p2, p3 |-> p3]
EntryOps ==
  {EntryOp("Int", r, n, NoReg) : r \in {"i", "j"}, n \in {1, 2}}
    \cup {EntryOp("GetGlobal", "o", 1, NoReg), EntryOp("GetGlobal", "p", 2, NoReg)}
    \cup {EntryOp("SetField", "o", n, r) : n \in 0 .. 2, r \in {"i", "j"}}
    \cup {EntryOp("SetField", "p", 0, r) : r \in {"i", "j"}}
    \cup {EntryOp("Other", r, 0, NoReg) : r \in {"i", "o"}}

EntryTables == {EntryTable(<<EntryOp("Int", "j", 2, NoReg)>> \o ops) : ops \in [1 .. 3 -> EntryOps]}
MCTables == {EmptyTable, MemberTable, TwoGlobals} \cup EntryTables

-----------------------------------------------------------------------------
MCPoints == {65, 128, 2047, 2048, 65535, 65536, 1114111}
Plain == [code |-> {}, table |-> EmptyTable, text |-> <<>>, sizes |-> <<>>]
UpTo(S, n) == UNION {[1 .. k -> S] : k \in 0 .. n}

MCFiles ==
  {[Plain EXCEPT !.code = game] : game \in {{}, Candid} \cup {{f} : f \in MCBodies}}
    \cup {[Plain EXCEPT !.table = t] : t \in MCTables}
    \cup {[Plain EXCEPT !.text = t] : t \in UpTo(MCPoints, 3)}
    \cup {[Plain EXCEPT !.sizes = s] : s \in UpTo({0, 5, 8, 9}, 4)}
=================================================================================
