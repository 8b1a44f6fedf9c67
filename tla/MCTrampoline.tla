----------------------------- MODULE MCTrampoline -----------------------------
(***************************************************************************)
(* Functions for Trampoline: all sequences of up to three instructions of  *)
(* a few lengths, their jumps leading out or to any instruction, that      *)
(* reach the fifth byte or end before it.                                  *)
(***************************************************************************)
EXTENDS Trampoline, Sequences, SequencesExt

Shapes == {<<"plain", 1>>, <<"plain", 3>>, <<"call", 5>>, <<"jmp", 2>>, <<"jcc", 2>>,
           <<"loop", 2>>, <<"ret", 1>>}

RECURSIVE StartOf(_, _)
StartOf(s, k) == IF k = 1 THEN 0 ELSE StartOf(s, k - 1) + s[k - 1][2]

(* The last instruction reaches the fifth byte or leaves, those before not.  *)
Complete(s) ==
  /\ StartOf(s, Len(s) + 1) >= JmpRel \/ s[Len(s)][1] \in {"ret", "jmp"}
  /\ \A k \in 1 .. Len(s) : StartOf(s, k) < JmpRel

Starts(s) == {StartOf(s, k) : k \in 1 .. Len(s)}
Jumps(s) == {StartOf(s, k) : k \in {j \in 1 .. Len(s) : s[j][1] \in {"jmp", "jcc", "loop"}}}
AtStart(s, n) == s[CHOOSE k \in 1 .. Len(s) : StartOf(s, k) = n]
BodyOf(s, d) ==
  [n \in Starts(s) |->
     [kind |-> AtStart(s, n)[1], len |-> AtStart(s, n)[2],
      dest |-> IF n \in Jumps(s) THEN d[n] ELSE Outside]]

AllBodies ==
  UNION {{BodyOf(s, d) : d \in [Jumps(s) -> Starts(s) \cup {Outside}]} :
           s \in {q \in SeqOf(Shapes, 3) : Len(q) > 0 /\ Complete(q)}}

(* A short function whose last instruction is an internal jump runs on.      *)
Ends(b) ==
  \A n \in DOMAIN b : n + b[n].len < JmpRel /\ n + b[n].len \notin DOMAIN b =>
    b[n].kind = "ret" \/ b[n].dest = Outside

MCBodies == {b \in AllBodies : Ends(b) /\ ~JumpsBackOver(b)}
MCBodiesBack == {b \in AllBodies : Ends(b)}
(* Some functions have padding behind them.                                  *)
MCPadded == {b \in MCBodiesBack : Cardinality(DOMAIN b) = 2}
===============================================================================
