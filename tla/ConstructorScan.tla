---------------------------- MODULE ConstructorScan ----------------------------
(***************************************************************************)
(* ScanFileFunctionForConstructors (reflection.c): HashLink's New opcode   *)
(* names no constructor, so the scan pairs each New of an object with the  *)
(* first later call that takes the same register as its first argument,    *)
(* unless the register is overwritten on the way.  A function is a         *)
(* sequence of opcodes.                                                    *)
(***************************************************************************)
EXTENDS Integers, Sequences

CONSTANTS
  Regs,     \* registers of the functions
  TypeOf,   \* a register's type, when that is a named object or struct
  NoReg     \* the -1 of a call without arguments

ASSUME ConstructorScanAssumption == DOMAIN TypeOf \subseteq Regs /\ NoReg \notin Regs

(* Opcodes: New; Call, for Call0 to CallN, of which some have no first        *)
(* argument; Invoke, for CallMethod, CallThis and CallClosure; Mov, and the   *)
(* casts, which copy p2; NoDst, whose p1 is not a destination (SetField, Ret, *)
(* ...); and all others, which put a value of their own into p1.              *)
IsOp(o) ==
  /\ o.op \in {"New", "Call", "Invoke", "Mov", "NoDst", "Other"}
  /\ o.p1 \in Regs /\ o.p3 \in Regs \cup {NoReg}
  /\ o.op = "Mov" => o.p2 \in Regs

ExtractCallInfo(o) == o.op = "Call"
FirstArgReg(o) == o.p3

WritesRegister(o, reg) == o.op # "NoDst" /\ o.p1 = reg

IsSite_AfterClobber(o, reg) ==   \* mutant: the clobber check comes first
  ExtractCallInfo(o) /\ FirstArgReg(o) = reg /\ ~WritesRegister(o, reg)
IsSite(o, reg) == ExtractCallInfo(o) /\ FirstArgReg(o) = reg

IsScannable(o) == o.op = "New" /\ o.p1 \in DOMAIN TypeOf

(* The inner loop ends with a site, or with a register overwritten.          *)
Stops(o, reg) == IsSite(o, reg) \/ WritesRegister(o, reg)

Sites(f) ==
  {s \in (DOMAIN f) \X (DOMAIN f) :
     LET reg == f[s[1]].p1
     IN  /\ IsScannable(f[s[1]]) /\ s[1] < s[2] /\ IsSite(f[s[2]], reg)
         /\ \A k \in s[1] + 1 .. s[2] - 1 : ~Stops(f[k], reg)}

(* What is added to the table for a site: a class and what might be its      *)
(* constructor.                                                              *)
Candidates(f) == {[class |-> TypeOf[f[s[1]].p1], findex |-> f[s[2]].p2] : s \in Sites(f)}

-----------------------------------------------------------------------------
(* Execution, straight on: what the registers hold after the first opcodes,  *)
(* where a value is named by the opcode that made it; the calls of whatever  *)
(* kind that are given what a New allocated; and the first of them.          *)
Executed(registers, o, n) ==
  IF o.op = "NoDst" THEN registers
  ELSE [registers EXCEPT ![o.p1] = IF o.op = "Mov" THEN registers[o.p2] ELSE n]

Contents(f) ==
  LET held[n \in 0 .. Len(f)] ==
        IF n = 0 THEN [r \in Regs |-> 0] ELSE Executed(held[n - 1], f[n], n)
  IN  held

Uses(f, n) ==
  LET held == Contents(f)
  IN  {j \in DOMAIN f : /\ f[j].op \in {"Call", "Invoke"} /\ f[j].p3 # NoReg
                        /\ held[j - 1][f[j].p3] = n}
IsFirstUse(f, n, j) == j \in Uses(f, n) /\ \A i \in Uses(f, n) : j <= i

(* A use that names the object as the scan does: a direct call, through the  *)
(* register that the New wrote and nothing has written since.                *)
IsDirect(f, n, j) ==
  /\ f[j].op = "Call" /\ f[j].p3 = f[n].p1
  /\ \A k \in n + 1 .. j - 1 : f[k].op = "NoDst" \/ f[k].p1 # f[n].p1
=============================================================================
