----------------------------- MODULE Bus_proofs -----------------------------
(***************************************************************************)
(* Proofs about Bus, for any topics, closures and addresses: the list is   *)
(* consistent however publishes nest and whatever handlers do; and if no   *)
(* publish is nested and a handler touches at most its own subscription,   *)
(* no loop follows a freed subscriber and each calls everyone once.        *)
(***************************************************************************)
EXTENDS Bus, ListLemmas, TLAPS

Cell == [node : Nodes, topic : Topics, handler : Closures]
Frame == [topic : Topics, e : Nodes \cup {NULL}, next : Nodes \cup {NULL},
          calling : BOOLEAN, handler : Closures \cup {NULL},
          expected : Seq(Topics \X Methods), got : Seq(Methods)]

SubscriptionOf(s) == Subscription(s.topic, s.handler)

(* The list and its history: a list s without repetitions, whose entries     *)
(* arrived in the order a.                                                   *)
GoodList(s, a) ==
  /\ s \in Seq(Cell) /\ a \in Seq(Topics \X Methods) /\ Len(a) = Len(s)
  /\ \A i, j \in 1 .. Len(s) : s[i].node = s[j].node => i = j
  /\ \A i, j \in 1 .. Len(s) : SubscriptionOf(s[i]) = SubscriptionOf(s[j]) => i = j
  /\ \A i \in 1 .. Len(s) : a[Len(s) - i + 1] = SubscriptionOf(s[i])

ListOK ==
  /\ GoodList(subscribers, arrival)
  /\ roots = NodesOf(subscribers)
  /\ frames \in Seq(Frame) /\ Len(frames) <= MaxDepth
  /\ dangling \in BOOLEAN

(* How far a publish has come on the list s: the k oldest of those who were  *)
(* subscribed when it began are on the list still, and left to visit.        *)
Ahead(f, k, s, a) ==
  /\ k \in 0 .. Len(f.expected) /\ k <= Len(s)
  /\ \A i \in 1 .. k : a[i] = f.expected[i]
  /\ (IF f.calling THEN f.next ELSE f.e)
       = IF k = 0 THEN NULL ELSE s[Len(s) - k + 1].node
  /\ f.calling => /\ f.handler \in Closures /\ k + 1 <= Len(f.expected)
                  /\ f.expected[k + 1] = Subscription(f.topic, f.handler)

(* And those it has passed are the ones it has called, the newest first.     *)
Called(f, k) ==
  /\ \A j \in 1 .. Len(f.got) :
       \E p \in k + 1 .. Len(f.expected) : f.expected[p] = <<f.topic, f.got[j]>>
  /\ \A p \in k + 1 .. Len(f.expected) : f.expected[p][1] = f.topic =>
       \E j \in 1 .. Len(f.got) : f.expected[p] = <<f.topic, f.got[j]>>
  /\ \A i, j \in 1 .. Len(f.got), p, q \in 1 .. Len(f.expected) :
       /\ i < j
       /\ f.expected[p] = <<f.topic, f.got[i]>>
       /\ f.expected[q] = <<f.topic, f.got[j]>>
       => q < p

FrameOK(f, s, a) ==
  /\ \A i, j \in 1 .. Len(f.expected) : f.expected[i] = f.expected[j] => i = j
  /\ \E k \in 0 .. Len(f.expected) : Ahead(f, k, s, a) /\ Called(f, k)

(* The inductive invariant.                                                  *)
IInv ==
  /\ ListOK
  /\ OwnOnly /\ MaxDepth <= 1 =>
       ~dangling /\ \A i \in 1 .. Len(frames) : FrameOK(frames[i], subscribers, arrival)

-----------------------------------------------------------------------------
(* What the invariant says. *)

LEMMA GoodListFacts ==
  ASSUME NEW s, NEW a, GoodList(s, a)
  PROVE  /\ Len(s) \in Nat /\ DOMAIN s = 1 .. Len(s) /\ DOMAIN a = 1 .. Len(s)
         /\ \A i \in 1 .. Len(s) : /\ s[i] \in Cell /\ s[i].node \in Nodes
                                   /\ s[i].topic \in Topics /\ s[i].handler \in Closures
                                   /\ Len(s) - i + 1 \in 1 .. Len(s)
         /\ NodesOf(s) = {s[i].node : i \in 1 .. Len(s)} /\ NodesOf(s) \subseteq Nodes
<1>1. Len(s) \in Nat /\ DOMAIN s = 1 .. Len(s) /\ DOMAIN a = 1 .. Len(s)
      /\ \A i \in 1 .. Len(s) : s[i] \in Cell
  BY DEF GoodList
<1>2. \A i \in 1 .. Len(s) : s[i].node \in Nodes /\ s[i].topic \in Topics /\ s[i].handler \in Closures
  BY <1>1 DEF Cell
<1>3. \A i \in 1 .. Len(s) : Len(s) - i + 1 \in 1 .. Len(s)
  BY <1>1
<1>4. NodesOf(s) = {s[i].node : i \in 1 .. Len(s)}
  BY <1>1 DEF NodesOf
<1>. QED
  BY <1>1, <1>2, <1>3, <1>4

LEMMA InvariantMeansConsistent == IInv => ListConsistent
<1>. SUFFICES ASSUME IInv PROVE ListConsistent
  OBVIOUS
<1>1. ListOK /\ GoodList(subscribers, arrival)
  BY DEF IInv, ListOK
<1>2. /\ Len(subscribers) \in Nat /\ DOMAIN subscribers = 1 .. Len(subscribers)
      /\ \A i \in 1 .. Len(subscribers) : subscribers[i].handler \in Closures
      /\ NodesOf(subscribers) \subseteq Nodes
  BY <1>1, GoodListFacts
<1>3. TypeOK
  <2>1. subscribers \in Seq([node : Nodes, topic : Topics, handler : Closures])
        /\ arrival \in Seq(Topics \X Methods)
    BY <1>1 DEF GoodList, Cell
  <2>2. \A i \in DOMAIN frames : frames[i] \in Frame
    BY <1>1 DEF ListOK
  <2>. QED
    BY <1>1, <1>2, <2>1, <2>2 DEF TypeOK, ListOK, Frame
<1>4. RootsMatchSubscribers
  BY <1>1, <1>2 DEF RootsMatchSubscribers, ListOK, GoodList
<1>5. OneSubscriptionPerMethod
  BY <1>1, <1>2 DEF OneSubscriptionPerMethod, GoodList, SubscriptionOf, Subscription
<1>. QED
  BY <1>3, <1>4, <1>5 DEF ListConsistent

LEMMA FrameMeansEveryoneOnce ==
  ASSUME NEW f \in Frame, FrameOK(f, subscribers, arrival), GoodList(subscribers, arrival)
  PROVE  /\ \A j \in DOMAIN f.got : Turn(f, j) # {}
         /\ \A j, k \in DOMAIN f.got :
              j < k => \A p \in Turn(f, j), q \in Turn(f, k) : q < p
         /\ \A p \in Due(f) :
              Over(f) \/ (\E j \in DOMAIN f.got : \E q \in Turn(f, j) : q <= p)
                => \E j \in DOMAIN f.got : p \in Turn(f, j)
<1>1. /\ f.expected \in Seq(Topics \X Methods) /\ f.got \in Seq(Methods)
      /\ DOMAIN f.expected = 1 .. Len(f.expected) /\ DOMAIN f.got = 1 .. Len(f.got)
      /\ Len(f.expected) \in Nat
      /\ \A p \in 1 .. Len(f.expected) : f.expected[p] = <<f.expected[p][1], f.expected[p][2]>>
  <2>1. f.expected \in Seq(Topics \X Methods) /\ f.got \in Seq(Methods)
    BY DEF Frame
  <2>2. \A p \in 1 .. Len(f.expected) : f.expected[p] \in Topics \X Methods
    BY <2>1
  <2>3. \A x \in Topics \X Methods : x = <<x[1], x[2]>>
    OBVIOUS
  <2>. QED
    BY <2>1, <2>2, <2>3
<1>2. PICK k \in 0 .. Len(f.expected) : Ahead(f, k, subscribers, arrival) /\ Called(f, k)
  BY DEF FrameOK
<1>3. \A j \in DOMAIN f.got : Turn(f, j) =
        {p \in 1 .. Len(f.expected) : f.expected[p] = <<f.topic, f.got[j]>>}
  BY <1>1 DEF Turn, Due
<1>4. \A j \in DOMAIN f.got : Turn(f, j) # {} /\ \A p \in Turn(f, j) : p \in k + 1 .. Len(f.expected)
  <2>1. ASSUME NEW j \in DOMAIN f.got
        PROVE  Turn(f, j) # {} /\ \A p \in Turn(f, j) : p \in k + 1 .. Len(f.expected)
    <3>1. PICK p \in k + 1 .. Len(f.expected) : f.expected[p] = <<f.topic, f.got[j]>>
      BY <1>1, <1>2 DEF Called
    <3>2. p \in 1 .. Len(f.expected)
      BY <1>1, <3>1
    <3>3. \A q \in Turn(f, j) : q = p
      BY <1>3, <3>1, <3>2 DEF FrameOK
    <3>. QED
      BY <1>3, <3>1, <3>2, <3>3
  <2>. QED
    BY <2>1
<1>5. Over(f) => k = 0
  <2>1. \A i \in 1 .. Len(subscribers) : subscribers[i].node # NULL
    BY GoodListFacts, BusAssumption
  <2>2. ASSUME Over(f), k # 0 PROVE FALSE
    <3>1. k \in 1 .. Len(subscribers) /\ Len(subscribers) \in Nat
      BY <1>2, <2>2, GoodListFacts DEF Ahead
    <3>2. Len(subscribers) - k + 1 \in 1 .. Len(subscribers)
      BY <3>1
    <3>3. NULL = subscribers[Len(subscribers) - k + 1].node
      BY <1>2, <2>2 DEF Ahead, Over
    <3>. QED
      BY <2>1, <3>2, <3>3
  <2>. QED
    BY <2>2
<1>6. ASSUME NEW p \in Due(f), p >= k + 1
      PROVE  \E j \in DOMAIN f.got : p \in Turn(f, j)
  <2>1. p \in k + 1 .. Len(f.expected) /\ p \in 1 .. Len(f.expected)
        /\ f.expected[p][1] = f.topic
    BY <1>1, <1>6 DEF Due
  <2>2. PICK j \in 1 .. Len(f.got) : f.expected[p] = <<f.topic, f.got[j]>>
    BY <1>2, <2>1 DEF Called
  <2>. QED
    BY <1>1, <1>3, <2>1, <2>2
<1>7. \A j, i \in DOMAIN f.got :
        j < i => \A p \in Turn(f, j), q \in Turn(f, i) : q < p
  <2>1. ASSUME NEW j \in 1 .. Len(f.got), NEW i \in 1 .. Len(f.got), j < i,
               NEW p \in 1 .. Len(f.expected), NEW q \in 1 .. Len(f.expected),
               f.expected[p] = <<f.topic, f.got[j]>>, f.expected[q] = <<f.topic, f.got[i]>>
        PROVE  q < p
    BY <1>2, <2>1 DEF Called
  <2>2. ASSUME NEW j \in DOMAIN f.got, NEW i \in DOMAIN f.got, j < i,
               NEW p \in Turn(f, j), NEW q \in Turn(f, i)
        PROVE  q < p
    <3>1. /\ p \in 1 .. Len(f.expected) /\ f.expected[p] = <<f.topic, f.got[j]>>
          /\ q \in 1 .. Len(f.expected) /\ f.expected[q] = <<f.topic, f.got[i]>>
      BY <1>3, <2>2
    <3>. QED
      BY <1>1, <2>1, <2>2, <3>1
  <2>. QED
    BY <2>2
<1>8. ASSUME NEW p \in Due(f),
             Over(f) \/ (\E j \in DOMAIN f.got : \E q \in Turn(f, j) : q <= p)
      PROVE  p >= k + 1
  <2>1. p \in 1 .. Len(f.expected)
    BY <1>1 DEF Due
  <2>. QED
    BY <1>1, <1>2, <1>4, <1>5, <1>8, <2>1
<1>. QED
  BY <1>4, <1>6, <1>7, <1>8

LEMMA InvariantMeansEveryoneOnce ==
  ASSUME OwnOnly, MaxDepth <= 1
  PROVE  IInv => NoUseAfterFree /\ EveryoneOnce
<1>. SUFFICES ASSUME IInv PROVE NoUseAfterFree /\ EveryoneOnce
  OBVIOUS
<1>1. /\ ListOK /\ GoodList(subscribers, arrival) /\ ~dangling
      /\ \A i \in 1 .. Len(frames) : FrameOK(frames[i], subscribers, arrival)
  BY DEF IInv, ListOK
<1>2. DOMAIN frames = 1 .. Len(frames) /\ \A i \in DOMAIN frames : frames[i] \in Frame
  BY <1>1 DEF ListOK
<1>. QED
  BY <1>1, <1>2, FrameMeansEveryoneOnce DEF NoUseAfterFree, EveryoneOnce

LEMMA InitEstablishes == Init => IInv
<1>. SUFFICES ASSUME Init PROVE IInv
  OBVIOUS
<1>1. subscribers = <<>> /\ arrival = <<>> /\ frames = <<>> /\ roots = {} /\ dangling = FALSE
  BY DEF Init
<1>2. GoodList(subscribers, arrival)
  BY <1>1 DEF GoodList
<1>3. roots = NodesOf(subscribers)
  BY <1>1 DEF NodesOf
<1>4. frames \in Seq(Frame) /\ Len(frames) = 0 /\ Len(frames) <= MaxDepth
  BY <1>1, BusAssumption
<1>5. dangling \in BOOLEAN /\ ~dangling
  BY <1>1
<1>6. \A i \in 1 .. Len(frames) : FrameOK(frames[i], subscribers, arrival)
  BY <1>4
<1>. QED
  BY <1>2, <1>3, <1>4, <1>5, <1>6 DEF IInv, ListOK

-----------------------------------------------------------------------------
(* Erasing and linking. *)

LEMMA MatchesAre ==
  ASSUME GoodList(subscribers, arrival), NEW t \in Topics, NEW c \in Closures
  PROVE  LET n == Len(subscribers)
         IN  /\ Matches(t, c) = {i \in 1 .. n : SubscriptionOf(subscribers[i]) = Subscription(t, c)}
             /\ Arrived(t, c) = {i \in 1 .. n : arrival[i] = Subscription(t, c)}
             /\ Matches(t, c) # {} =>
                  LET p == FirstMatch(t, c)
                      q == CHOOSE i \in Arrived(t, c) : TRUE
                  IN  /\ p \in 1 .. n /\ q \in 1 .. n /\ q = n - p + 1
                      /\ Matches(t, c) = {p} /\ Arrived(t, c) = {q}
             /\ Matches(t, c) = {} => Arrived(t, c) = {}
<1>. DEFINE n == Len(subscribers)
            new == Subscription(t, c)
<1>1. /\ n \in Nat /\ DOMAIN subscribers = 1 .. n /\ DOMAIN arrival = 1 .. n
      /\ \A i \in 1 .. n : n - i + 1 \in 1 .. n
  BY GoodListFacts
<1>2. /\ \A i, j \in 1 .. n :
           SubscriptionOf(subscribers[i]) = SubscriptionOf(subscribers[j]) => i = j
      /\ \A i \in 1 .. n : arrival[n - i + 1] = SubscriptionOf(subscribers[i])
  BY DEF GoodList
<1>3. Matches(t, c) = {i \in 1 .. n : SubscriptionOf(subscribers[i]) = new}
  BY <1>1 DEF Matches, SameHandler, SubscriptionOf, Subscription
<1>4. Arrived(t, c) = {i \in 1 .. n : arrival[i] = new}
  BY <1>1 DEF Arrived
<1>. HIDE DEF n, new
<1>5. ASSUME Matches(t, c) # {}
      PROVE  LET p == FirstMatch(t, c)
                 q == CHOOSE i \in Arrived(t, c) : TRUE
             IN  /\ p \in 1 .. n /\ q \in 1 .. n /\ q = n - p + 1
                 /\ Matches(t, c) = {p} /\ Arrived(t, c) = {q}
  <2>1. PICK p \in 1 .. n : SubscriptionOf(subscribers[p]) = new
    BY <1>3, <1>5
  <2>2. Matches(t, c) = {p}
    BY <1>2, <1>3, <2>1
  <2>3. FirstMatch(t, c) = p
    <3>1. p <= p
      BY <2>1
    <3>. QED
      BY <2>2, <3>1 DEF FirstMatch
  <2>4. n - p + 1 \in Arrived(t, c)
    BY <1>1, <1>2, <1>4, <2>1
  <2>5. ASSUME NEW i \in Arrived(t, c) PROVE i = n - p + 1
    <3>1. i \in 1 .. n /\ arrival[i] = new /\ n - i + 1 \in 1 .. n /\ n - (n - i + 1) + 1 = i
      BY <1>1, <1>4
    <3>2. SubscriptionOf(subscribers[n - i + 1]) = new
      BY <1>2, <3>1
    <3>3. n - i + 1 = p
      BY <1>2, <2>1, <3>1, <3>2
    <3>. QED
      BY <1>1, <3>1, <3>3
  <2>6. Arrived(t, c) = {n - p + 1}
    BY <2>4, <2>5
  <2>. QED
    BY <1>1, <2>1, <2>2, <2>3, <2>6
<1>6. ASSUME Matches(t, c) = {}, NEW i \in Arrived(t, c) PROVE FALSE
  <2>1. i \in 1 .. n /\ arrival[i] = new /\ n - i + 1 \in 1 .. n /\ n - (n - i + 1) + 1 = i
    BY <1>1, <1>4
  <2>2. SubscriptionOf(subscribers[n - i + 1]) = new
    BY <1>2, <2>1
  <2>. QED
    BY <1>3, <1>6, <2>1, <2>2
<1>. QED
  BY <1>3, <1>4, <1>5, <1>6 DEF n, new

(* What EraseSubscriber leaves: a good list without the subscription, its    *)
(* roots, and every subscription older than the erased one where it was.     *)
LEMMA EraseLeaves ==
  ASSUME GoodList(subscribers, arrival), roots = NodesOf(subscribers),
         NEW t \in Topics, NEW c \in Closures
  PROVE  LET s == Erased(t, c)
             a == Forget(t, c)
         IN  /\ GoodList(s, a) /\ ErasedRoots(t, c) = NodesOf(s)
             /\ \A i \in 1 .. Len(s) : SubscriptionOf(s[i]) # Subscription(t, c)
             /\ \A k \in 0 .. Len(subscribers) :
                  (\A i \in 1 .. k : arrival[i] # Subscription(t, c)) =>
                    /\ k <= Len(s)
                    /\ \A i \in 1 .. k :
                         /\ a[i] = arrival[i]
                         /\ s[Len(s) - i + 1] = subscribers[Len(subscribers) - i + 1]
<1>. DEFINE n == Len(subscribers)
            new == Subscription(t, c)
            s == Erased(t, c)
            a == Forget(t, c)
<1>1. /\ n \in Nat /\ DOMAIN subscribers = 1 .. n
      /\ \A i \in 1 .. n : n - i + 1 \in 1 .. n
      /\ subscribers \in Seq(Cell) /\ arrival \in Seq(Topics \X Methods) /\ Len(arrival) = n
  BY GoodListFacts DEF GoodList
<1>2. /\ \A i, j \in 1 .. n : subscribers[i].node = subscribers[j].node => i = j
      /\ \A i, j \in 1 .. n :
           SubscriptionOf(subscribers[i]) = SubscriptionOf(subscribers[j]) => i = j
      /\ \A i \in 1 .. n : arrival[n - i + 1] = SubscriptionOf(subscribers[i])
  BY DEF GoodList
<1>. HIDE DEF n, new
<1>3. CASE Matches(t, c) = {}
  <2>1. s = subscribers /\ a = arrival /\ ErasedRoots(t, c) = roots
    BY <1>3, MatchesAre DEF Erased, Forget, ErasedRoots
  <2>2. \A i \in 1 .. Len(s) : SubscriptionOf(s[i]) # new
    <3>1. Matches(t, c) = {i \in 1 .. Len(subscribers) : SubscriptionOf(subscribers[i]) = new}
      BY MatchesAre DEF new
    <3>2. \A i \in 1 .. Len(subscribers) : SubscriptionOf(subscribers[i]) # new
      BY <1>3, <3>1
    <3>. QED
      BY <2>1, <3>2
  <2>. QED
    BY <2>1, <2>2, <1>1 DEF n, new
<1>4. CASE Matches(t, c) # {}
  <2>. DEFINE p == FirstMatch(t, c)
              q == CHOOSE i \in Arrived(t, c) : TRUE
  <2>1. /\ p \in 1 .. n /\ q \in 1 .. n /\ q = n - p + 1
        /\ Matches(t, c) = {p} /\ Arrived(t, c) = {q}
        /\ \A i \in 1 .. n : SubscriptionOf(subscribers[i]) = new => i = p
        /\ arrival[q] = new
    BY <1>4, MatchesAre DEF n, new
  <2>2. /\ s = RemoveAt(subscribers, p) /\ a = RemoveAt(arrival, q)
        /\ ErasedRoots(t, c) = roots \ {subscribers[p].node}
    BY <1>4, <2>1 DEF Erased, Forget, ErasedRoots
  <2>. HIDE DEF p, q, s, a
  <2>3. /\ s \in Seq(Cell) /\ Len(s) = n - 1
        /\ \A j \in 1 .. n - 1 : s[j] = IF j < p THEN subscribers[j] ELSE subscribers[j + 1]
    BY <1>1, <2>1, <2>2, RemoveAtShifts DEF n
  <2>4. /\ a \in Seq(Topics \X Methods) /\ Len(a) = n - 1
        /\ \A j \in 1 .. n - 1 : a[j] = IF j < q THEN arrival[j] ELSE arrival[j + 1]
    <3>1. q \in 1 .. Len(arrival)
      BY <1>1, <2>1
    <3>. QED
      BY <1>1, <2>2, <3>1, RemoveAtShifts
  <2>. DEFINE up(j) == IF j < p THEN j ELSE j + 1
  <2>5. ASSUME NEW j \in 1 .. n - 1
        PROVE  s[j] = subscribers[up(j)] /\ up(j) \in 1 .. n /\ up(j) # p
    <3>1. CASE j < p
      <4>1. s[j] = subscribers[j] /\ up(j) = j
        BY <2>3, <3>1
      <4>. QED
        BY <1>1, <2>1, <3>1, <4>1
    <3>2. CASE ~(j < p)
      <4>1. s[j] = subscribers[j + 1] /\ up(j) = j + 1
        BY <2>3, <3>2
      <4>. QED
        BY <1>1, <2>1, <3>2, <4>1
    <3>. QED
      BY <3>1, <3>2
  <2>6. ASSUME NEW i \in 1 .. n - 1, NEW j \in 1 .. n - 1
        PROVE  up(i) = up(j) => i = j
    BY <1>1, <2>1
  <2>. HIDE DEF up
  <2>7. GoodList(s, a)
    <3>1. \A i, j \in 1 .. n - 1 : s[i].node = s[j].node => i = j
      BY <1>2, <2>5, <2>6
    <3>2. \A i, j \in 1 .. n - 1 : SubscriptionOf(s[i]) = SubscriptionOf(s[j]) => i = j
      BY <1>2, <2>5, <2>6
    <3>3. ASSUME NEW i \in 1 .. n - 1
          PROVE  a[n - 1 - i + 1] = SubscriptionOf(s[i])
      <4>1. CASE i < p
        <5>1. n - i \in 1 .. n - 1 /\ ~(n - i < q) /\ n - 1 - i + 1 = n - i
          BY <1>1, <2>1, <4>1
        <5>2. a[n - i] = arrival[n - i + 1] /\ s[i] = subscribers[i] /\ i \in 1 .. n
          BY <1>1, <2>3, <2>4, <4>1, <5>1
        <5>. QED
          BY <1>2, <5>1, <5>2
      <4>2. CASE ~(i < p)
        <5>1. /\ n - i \in 1 .. n - 1 /\ n - i < q /\ n - 1 - i + 1 = n - i
              /\ n - (i + 1) + 1 = n - i /\ i + 1 \in 1 .. n
          BY <1>1, <2>1, <4>2
        <5>2. a[n - i] = arrival[n - i] /\ s[i] = subscribers[i + 1]
          BY <2>3, <2>4, <4>2, <5>1
        <5>. QED
          BY <1>2, <5>1, <5>2
      <4>. QED
        BY <4>1, <4>2
    <3>. QED
      BY <2>3, <2>4, <3>1, <3>2, <3>3 DEF GoodList
  <2>8. \A i \in 1 .. Len(s) : SubscriptionOf(s[i]) # new
    BY <2>1, <2>3, <2>5
  <2>9. ErasedRoots(t, c) = NodesOf(s)
    <3>1. roots = {subscribers[i].node : i \in 1 .. n}
      BY GoodListFacts DEF n
    <3>2. NodesOf(s) = {s[j].node : j \in 1 .. n - 1}
      BY <2>3, <2>7, GoodListFacts
    <3>3. ASSUME NEW j \in 1 .. n - 1
          PROVE  s[j].node \in roots /\ s[j].node # subscribers[p].node
      BY <1>2, <2>1, <2>5, <3>1
    <3>4. ASSUME NEW i \in 1 .. n, i # p
          PROVE  \E j \in 1 .. n - 1 : s[j] = subscribers[i]
      <4>1. CASE i < p
        <5>1. i \in 1 .. n - 1 /\ s[i] = subscribers[i]
          BY <1>1, <2>1, <2>3, <4>1
        <5>. QED
          BY <5>1
      <4>2. CASE i > p
        <5>1. i - 1 \in 1 .. n - 1 /\ ~(i - 1 < p) /\ (i - 1) + 1 = i
          BY <1>1, <2>1, <4>2
        <5>. QED
          BY <2>3, <5>1
      <4>. QED
        BY <1>1, <2>1, <3>4, <4>1, <4>2
    <3>5. \A i \in 1 .. n : subscribers[i].node # subscribers[p].node => subscribers[i].node \in NodesOf(s)
      BY <3>2, <3>4
    <3>. QED
      BY <2>2, <3>1, <3>2, <3>3, <3>5
  <2>10. ASSUME NEW k \in 0 .. n, \A i \in 1 .. k : arrival[i] # new
         PROVE  /\ k <= Len(s)
                /\ \A i \in 1 .. k :
                     a[i] = arrival[i] /\ s[Len(s) - i + 1] = subscribers[n - i + 1]
    <3>1. k < q
      BY <1>1, <2>1, <2>10
    <3>2. k <= n - 1
      BY <1>1, <2>1, <3>1
    <3>3. ASSUME NEW i \in 1 .. k
          PROVE  a[i] = arrival[i] /\ s[Len(s) - i + 1] = subscribers[n - i + 1]
      <4>1. /\ i \in 1 .. n - 1 /\ i < q /\ Len(s) - i + 1 = n - i
            /\ n - i \in 1 .. n - 1 /\ ~(n - i < p)
        BY <1>1, <2>1, <2>3, <3>1, <3>2
      <4>. QED
        BY <2>3, <2>4, <4>1
    <3>. QED
      BY <2>3, <3>2, <3>3
  <2>. QED
    BY <2>7, <2>8, <2>9, <2>10 DEF n, new, s, a
<1>. QED
  BY <1>3, <1>4

(* A new subscription is the youngest.                                       *)
LEMMA LinkAdds ==
  ASSUME NEW s, NEW a, GoodList(s, a), NEW e \in Cell, e.node \notin NodesOf(s),
         \A i \in 1 .. Len(s) : SubscriptionOf(s[i]) # SubscriptionOf(e)
  PROVE  LET l == Link(s, e)
             b == Append(a, SubscriptionOf(e))
         IN  /\ GoodList(l, b) /\ NodesOf(l) = NodesOf(s) \cup {e.node}
             /\ Len(l) = Len(s) + 1
             /\ \A i \in 1 .. Len(s) : b[i] = a[i] /\ l[Len(l) - i + 1] = s[Len(s) - i + 1]
<1>. DEFINE n == Len(s)
            l == Link(s, e)
            b == Append(a, SubscriptionOf(e))
<1>1. /\ n \in Nat /\ NodesOf(s) = {s[i].node : i \in 1 .. n}
      /\ \A i \in 1 .. n : n - i + 1 \in 1 .. n
      /\ s \in Seq(Cell) /\ a \in Seq(Topics \X Methods) /\ Len(a) = n
      /\ \A i, j \in 1 .. n : s[i].node = s[j].node => i = j
      /\ \A i, j \in 1 .. n : SubscriptionOf(s[i]) = SubscriptionOf(s[j]) => i = j
      /\ \A i \in 1 .. n : a[n - i + 1] = SubscriptionOf(s[i])
  BY GoodListFacts DEF GoodList
<1>2. SubscriptionOf(e) \in Topics \X Methods
  BY DEF Cell, SubscriptionOf, Subscription, Methods
<1>3. /\ l \in Seq(Cell) /\ Len(l) = n + 1
      /\ \A j \in 1 .. n + 1 : l[j] = IF j = 1 THEN e ELSE s[j - 1]
  BY <1>1, PrependShifts DEF Link
<1>4. /\ b \in Seq(Topics \X Methods) /\ Len(b) = n + 1 /\ b[n + 1] = SubscriptionOf(e)
      /\ \A j \in 1 .. n : b[j] = a[j]
  BY <1>1, <1>2, AppendProperties
<1>. HIDE DEF n, l, b
<1>5. ASSUME NEW j \in 1 .. n + 1, j # 1
      PROVE  l[j] = s[j - 1] /\ j - 1 \in 1 .. n
  BY <1>1, <1>3, <1>5
<1>6. l[1] = e /\ 1 \in 1 .. n + 1
  BY <1>1, <1>3
<1>7. \A i, j \in 1 .. n + 1 : l[i].node = l[j].node => i = j
  <2>1. \A i \in 1 .. n : s[i].node # e.node
    BY <1>1
  <2>2. ASSUME NEW j \in 1 .. n + 1, j # 1 PROVE l[j].node # e.node
    BY <1>5, <2>1, <2>2
  <2>3. ASSUME NEW i \in 1 .. n + 1, NEW j \in 1 .. n + 1, i # 1, j # 1, l[i].node = l[j].node
        PROVE  i = j
    <3>1. /\ i - 1 \in 1 .. n /\ l[i] = s[i - 1]
          /\ j - 1 \in 1 .. n /\ l[j] = s[j - 1]
      BY <1>5, <2>3
    <3>2. i - 1 = j - 1
      BY <1>1, <2>3, <3>1
    <3>. QED
      BY <1>1, <3>2
  <2>. QED
    BY <1>6, <2>2, <2>3
<1>8. \A i, j \in 1 .. n + 1 : SubscriptionOf(l[i]) = SubscriptionOf(l[j]) => i = j
  <2>1. ASSUME NEW j \in 1 .. n + 1, j # 1 PROVE SubscriptionOf(l[j]) # SubscriptionOf(e)
    BY <1>5, <2>1 DEF n
  <2>2. ASSUME NEW i \in 1 .. n + 1, NEW j \in 1 .. n + 1, i # 1, j # 1,
               SubscriptionOf(l[i]) = SubscriptionOf(l[j])
        PROVE  i = j
    <3>1. i - 1 = j - 1
      BY <1>1, <1>5, <2>2
    <3>. QED
      BY <1>1, <3>1
  <2>. QED
    BY <1>6, <2>1, <2>2
<1>9. ASSUME NEW i \in 1 .. n + 1 PROVE b[n + 1 - i + 1] = SubscriptionOf(l[i])
  <2>1. CASE i = 1
    <3>1. n + 1 - i + 1 = n + 1
      BY <1>1, <2>1
    <3>. QED
      BY <1>4, <1>6, <2>1, <3>1
  <2>2. CASE i # 1
    <3>1. /\ n + 1 - i + 1 = n - (i - 1) + 1 /\ n - (i - 1) + 1 \in 1 .. n
          /\ i - 1 \in 1 .. n
      BY <1>1, <2>2
    <3>. QED
      BY <1>1, <1>4, <1>5, <2>2, <3>1
  <2>. QED
    BY <2>1, <2>2
<1>10. GoodList(l, b)
  <2>1. Len(b) = Len(l) /\ Len(l) = n + 1
    BY <1>3, <1>4
  <2>2. \A i \in 1 .. Len(l) : b[Len(l) - i + 1] = SubscriptionOf(l[i])
    <3>1. ASSUME NEW i \in 1 .. Len(l) PROVE b[Len(l) - i + 1] = SubscriptionOf(l[i])
      <4>1. i \in 1 .. n + 1 /\ Len(l) - i + 1 = n + 1 - i + 1
        BY <1>1, <2>1
      <4>. QED
        BY <1>9, <4>1
    <3>. QED
      BY <3>1
  <2>. QED
    BY <1>3, <1>4, <1>7, <1>8, <2>1, <2>2 DEF GoodList
<1>11. NodesOf(l) = NodesOf(s) \cup {e.node}
  <2>1. NodesOf(l) = {l[j].node : j \in 1 .. n + 1}
    BY <1>3, <1>10, GoodListFacts
  <2>2. \A j \in 1 .. n + 1 : l[j].node \in NodesOf(s) \cup {e.node}
    BY <1>1, <1>5, <1>6
  <2>3. ASSUME NEW j \in 1 .. n PROVE s[j].node \in NodesOf(l)
    <3>1. j + 1 \in 1 .. n + 1 /\ j + 1 # 1 /\ (j + 1) - 1 = j
      BY <1>1
    <3>2. l[j + 1] = s[j]
      BY <1>5, <3>1
    <3>. QED
      BY <2>1, <3>1, <3>2
  <2>4. e.node \in NodesOf(l)
    BY <1>6, <2>1
  <2>5. NodesOf(l) \subseteq NodesOf(s) \cup {e.node}
    BY <2>1, <2>2
  <2>6. NodesOf(s) \subseteq NodesOf(l)
    BY <1>1, <2>3
  <2>. QED
    BY <2>4, <2>5, <2>6
<1>12. ASSUME NEW i \in 1 .. n
       PROVE  b[i] = a[i] /\ l[Len(l) - i + 1] = s[n - i + 1]
  <2>1. /\ n + 1 - i + 1 \in 1 .. n + 1 /\ n + 1 - i + 1 # 1
        /\ (n + 1 - i + 1) - 1 = n - i + 1
    BY <1>1
  <2>2. l[n + 1 - i + 1] = s[n - i + 1]
    BY <1>5, <2>1
  <2>. QED
    BY <1>1, <1>3, <1>4, <2>2
<1>. QED
  BY <1>3, <1>10, <1>11, <1>12 DEF n, l, b

-----------------------------------------------------------------------------
(* The steps of mods' code. *)

(* A publish goes on if the list keeps those it has yet to visit.            *)
LEMMA FrameSurvives ==
  ASSUME NEW f, NEW s, NEW a, NEW s2, NEW a2, FrameOK(f, s, a),
         Len(s) \in Nat, Len(s2) \in Nat, Len(f.expected) \in Nat,
         \A k \in 0 .. Len(f.expected) : Ahead(f, k, s, a) =>
           /\ k <= Len(s2)
           /\ \A i \in 1 .. k : a2[i] = a[i] /\ s2[Len(s2) - i + 1] = s[Len(s) - i + 1]
  PROVE  FrameOK(f, s2, a2)
<1>1. PICK k \in 0 .. Len(f.expected) : Ahead(f, k, s, a) /\ Called(f, k)
  BY DEF FrameOK
<1>2. /\ k <= Len(s2)
      /\ \A i \in 1 .. k : a2[i] = a[i] /\ s2[Len(s2) - i + 1] = s[Len(s) - i + 1]
  BY <1>1
<1>3. k # 0 => s2[Len(s2) - k + 1] = s[Len(s) - k + 1]
  BY <1>2
<1>4. Ahead(f, k, s2, a2)
  BY <1>1, <1>2, <1>3 DEF Ahead
<1>. QED
  BY <1>1, <1>4 DEF FrameOK

(* With one publish at a time, it is the frame on top.                       *)
LEMMA OneFrame ==
  ASSUME IInv, OwnOnly, MaxDepth <= 1, frames # <<>>
  PROVE  /\ Len(frames) = 1 /\ Top = frames[1] /\ Top \in Frame /\ DOMAIN frames = 1 .. 1
         /\ FrameOK(Top, subscribers, arrival) /\ Len(Top.expected) \in Nat
<1>1. frames \in Seq(Frame) /\ Len(frames) <= MaxDepth
  BY DEF IInv, ListOK
<1>2. Len(frames) = 1 /\ DOMAIN frames = 1 .. 1
  <2>1. Len(frames) \in Nat /\ Len(frames) # 0 /\ DOMAIN frames = 1 .. Len(frames)
    BY <1>1
  <2>. QED
    BY <1>1, <2>1, BusAssumption
<1>3. Top = frames[1] /\ Top \in Frame
  BY <1>1, <1>2 DEF Top
<1>4. FrameOK(Top, subscribers, arrival)
  BY <1>2, <1>3 DEF IInv
<1>5. Top.expected \in Seq(Topics \X Methods)
  BY <1>3 DEF Frame
<1>. QED
  BY <1>2, <1>3, <1>4, <1>5

(* A handler that stops listening is not among those left to visit.          *)
LEMMA EraseSparesTheRest ==
  ASSUME IInv, OwnOnly, MaxDepth <= 1, frames # <<>>, ModRuns,
         NEW t \in Topics, NEW c \in Closures, MayErase(t, c),
         NEW k \in 0 .. Len(Top.expected), Ahead(Top, k, subscribers, arrival)
  PROVE  \A i \in 1 .. k : arrival[i] # Subscription(t, c)
<1>1. /\ FrameOK(Top, subscribers, arrival) /\ Len(Top.expected) \in Nat
      /\ Top.calling
  BY OneFrame DEF ModRuns
<1>2. CASE Matches(t, c) = {}
  <2>1. Arrived(t, c) = {}
    BY <1>2, MatchesAre DEF IInv, ListOK
  <2>2. k <= Len(subscribers) /\ Len(subscribers) \in Nat /\ DOMAIN arrival = 1 .. Len(subscribers)
    BY GoodListFacts DEF IInv, ListOK, Ahead
  <2>. QED
    BY <2>1, <2>2 DEF Arrived
<1>3. CASE Delivering(t, c)
  <2>1. Top.expected[k + 1] = Subscription(t, c) /\ k + 1 \in 1 .. Len(Top.expected)
    BY <1>1, <1>3 DEF Ahead, Delivering, SameHandler, Subscription
  <2>2. ASSUME NEW i \in 1 .. k, arrival[i] = Subscription(t, c)
        PROVE  FALSE
    <3>1. Top.expected[i] = Top.expected[k + 1] /\ i \in 1 .. Len(Top.expected)
      BY <1>1, <2>1, <2>2 DEF Ahead
    <3>2. i = k + 1
      BY <1>1, <2>1, <3>1 DEF FrameOK
    <3>. QED
      BY <3>2
  <2>. QED
    BY <2>2
<1>. QED
  BY <1>2, <1>3 DEF MayErase

(* EraseSubscriber keeps the invariant, whether or not the closure is linked *)
(* again.                                                                    *)
LEMMA ErasePreserves ==
  ASSUME IInv, ModRuns, NEW t \in Topics, NEW c \in Closures, MayErase(t, c),
         UNCHANGED <<frames, dangling>>,
         \/ /\ subscribers' = Erased(t, c) /\ roots' = ErasedRoots(t, c)
            /\ arrival' = Forget(t, c)
         \/ \E n \in Nodes \ NodesOf(Erased(t, c)) :
              /\ subscribers' = Link(Erased(t, c), [node |-> n, topic |-> t, handler |-> c])
              /\ roots' = ErasedRoots(t, c) \cup {n}
              /\ arrival' = Append(Forget(t, c), Subscription(t, c))
  PROVE  IInv'
<1>. DEFINE s == Erased(t, c)
            a == Forget(t, c)
            new == Subscription(t, c)
<1>1. GoodList(subscribers, arrival) /\ roots = NodesOf(subscribers)
      /\ Len(subscribers) \in Nat
  BY GoodListFacts DEF IInv, ListOK
<1>2. /\ GoodList(s, a) /\ ErasedRoots(t, c) = NodesOf(s) /\ Len(s) \in Nat
      /\ \A i \in 1 .. Len(s) : SubscriptionOf(s[i]) # new
  <2>1. /\ GoodList(s, a) /\ ErasedRoots(t, c) = NodesOf(s)
        /\ \A i \in 1 .. Len(s) : SubscriptionOf(s[i]) # new
    BY <1>1, EraseLeaves
  <2>. QED
    BY <2>1, GoodListFacts
<1>3. \A k \in 0 .. Len(subscribers) :
        (\A i \in 1 .. k : arrival[i] # new) =>
          /\ k <= Len(s)
          /\ \A i \in 1 .. k :
               /\ a[i] = arrival[i]
               /\ s[Len(s) - i + 1] = subscribers[Len(subscribers) - i + 1]
  BY <1>1, EraseLeaves
<1>. HIDE DEF s, a, new
<1>4. /\ GoodList(subscribers', arrival') /\ roots' = NodesOf(subscribers')
      /\ Len(s) <= Len(subscribers') /\ Len(subscribers') \in Nat
      /\ \A i \in 1 .. Len(s) :
           /\ arrival'[i] = a[i]
           /\ subscribers'[Len(subscribers') - i + 1] = s[Len(s) - i + 1]
  <2>1. CASE subscribers' = s /\ roots' = NodesOf(s) /\ arrival' = a
    BY <1>2, <2>1
  <2>2. ASSUME NEW n \in Nodes \ NodesOf(s),
               subscribers' = Link(s, [node |-> n, topic |-> t, handler |-> c]),
               roots' = NodesOf(s) \cup {n}, arrival' = Append(a, new)
        PROVE  <1>4
    <3>. DEFINE e == [node |-> n, topic |-> t, handler |-> c]
    <3>1. e \in Cell /\ e.node = n /\ SubscriptionOf(e) = new
      BY <2>2 DEF Cell, SubscriptionOf, new
    <3>. HIDE DEF e
    <3>2. LET l == Link(s, e)
              b == Append(a, SubscriptionOf(e))
          IN  /\ GoodList(l, b) /\ NodesOf(l) = NodesOf(s) \cup {e.node}
              /\ Len(l) = Len(s) + 1
              /\ \A i \in 1 .. Len(s) : b[i] = a[i] /\ l[Len(l) - i + 1] = s[Len(s) - i + 1]
      BY <1>2, <2>2, <3>1, LinkAdds
    <3>3. subscribers' = Link(s, e) /\ arrival' = Append(a, SubscriptionOf(e))
      BY <2>2, <3>1 DEF e
    <3>4. Len(subscribers') = Len(s) + 1
      BY <3>2, <3>3
    <3>5. GoodList(subscribers', arrival') /\ roots' = NodesOf(subscribers')
      BY <2>2, <3>1, <3>2, <3>3
    <3>6. \A i \in 1 .. Len(s) :
            /\ arrival'[i] = a[i]
            /\ subscribers'[Len(subscribers') - i + 1] = s[Len(s) - i + 1]
      BY <3>2, <3>3
    <3>. QED
      BY <1>2, <3>4, <3>5, <3>6
  <2>. QED
    BY <1>2, <2>1, <2>2 DEF s, a, new
<1>5. ListOK'
  BY <1>4 DEF IInv, ListOK
<1>6. ASSUME OwnOnly, MaxDepth <= 1
      PROVE  ~dangling' /\ \A i \in 1 .. Len(frames') : FrameOK(frames'[i], subscribers', arrival')
  <2>1. CASE frames = <<>>
    BY <1>6, <2>1 DEF IInv
  <2>2. CASE frames # <<>>
    <3>1. /\ Len(frames) = 1 /\ Top = frames[1] /\ DOMAIN frames = 1 .. 1
          /\ FrameOK(Top, subscribers, arrival) /\ Len(Top.expected) \in Nat
      BY <1>6, <2>2, OneFrame
    <3>2. ASSUME NEW k \in 0 .. Len(Top.expected), Ahead(Top, k, subscribers, arrival)
          PROVE  /\ k <= Len(subscribers')
                 /\ \A i \in 1 .. k :
                      /\ arrival'[i] = arrival[i]
                      /\ subscribers'[Len(subscribers') - i + 1]
                           = subscribers[Len(subscribers) - i + 1]
      <4>1. \A i \in 1 .. k : arrival[i] # new
        BY <1>6, <2>2, <3>2, EraseSparesTheRest DEF new
      <4>2. k \in 0 .. Len(subscribers)
        BY <1>1, <3>1, <3>2 DEF Ahead
      <4>3. /\ k <= Len(s)
            /\ \A i \in 1 .. k :
                 /\ a[i] = arrival[i]
                 /\ s[Len(s) - i + 1] = subscribers[Len(subscribers) - i + 1]
        BY <1>3, <4>1, <4>2
      <4>. QED
        BY <1>2, <1>4, <4>2, <4>3
    <3>3. FrameOK(Top, subscribers', arrival')
      BY <1>1, <1>4, <3>1, <3>2, FrameSurvives
    <3>. QED
      BY <1>6, <3>1, <3>3 DEF IInv
  <2>. QED
    BY <2>1, <2>2
<1>. QED
  BY <1>5, <1>6 DEF IInv

LEMMA SubscribePreserves ==
  ASSUME IInv, NEW t \in Topics, NEW c \in Closures, Subscribe(t, c) \/ Unsubscribe(t, c)
  PROVE  IInv'
  BY ErasePreserves DEF Subscribe, Unsubscribe

-----------------------------------------------------------------------------
(* The steps of the loops. *)

(* A step that leaves the list alone, and of the frames all but the top.     *)
LEMMA TopPreserves ==
  ASSUME IInv, frames # <<>>, NEW f \in Frame, SetTop(f),
         UNCHANGED <<subscribers, roots, arrival, dangling>>,
         OwnOnly /\ MaxDepth <= 1 => FrameOK(f, subscribers, arrival)
  PROVE  IInv'
<1>1. frames \in Seq(Frame) /\ Len(frames) <= MaxDepth /\ Len(frames) \in 1 .. Len(frames)
  BY EmptySeq DEF IInv, ListOK
<1>2. frames' \in Seq(Frame) /\ Len(frames') = Len(frames)
      /\ \A i \in 1 .. Len(frames) : frames'[i] = IF i = Len(frames) THEN f ELSE frames[i]
  BY <1>1, ExceptSeq DEF SetTop
<1>3. ListOK'
  BY <1>1, <1>2 DEF IInv, ListOK
<1>4. ASSUME OwnOnly, MaxDepth <= 1
      PROVE  ~dangling' /\ \A i \in 1 .. Len(frames') : FrameOK(frames'[i], subscribers', arrival')
  <2>1. Len(frames) = 1
    BY <1>4, OneFrame
  <2>. QED
    BY <1>2, <1>4, <2>1 DEF IInv
<1>. QED
  BY <1>3, <1>4 DEF IInv

(* Leaving publishes, by a return or a throw.                                *)
LEMMA LeavePreserves ==
  ASSUME IInv, NEW k \in 1 .. Len(frames), frames' = SubSeq(frames, 1, Len(frames) - k),
         UNCHANGED <<subscribers, roots, arrival, dangling>>
  PROVE  IInv'
<1>1. /\ frames \in Seq(Frame) /\ Len(frames) \in Nat /\ Len(frames) <= MaxDepth
      /\ MaxDepth \in Nat
  BY BusAssumption DEF IInv, ListOK
<1>2. /\ frames' \in Seq(Frame)
      /\ Len(frames') = IF 1 <= Len(frames) - k THEN Len(frames) - k ELSE 0
  <2>1. \A i \in 1 .. Len(frames) - k : frames[i] \in Frame
    BY <1>1
  <2>2. /\ SubSeq(frames, 1, Len(frames) - k) \in Seq(Frame)
        /\ Len(SubSeq(frames, 1, Len(frames) - k))
             = IF 1 <= Len(frames) - k THEN Len(frames) - k - 1 + 1 ELSE 0
    BY <1>1, <2>1, SubSeqProperties
  <2>. QED
    BY <1>1, <2>2
<1>3. Len(frames') <= MaxDepth /\ (MaxDepth <= 1 => Len(frames') = 0)
  BY <1>1, <1>2
<1>4. ListOK'
  BY <1>2, <1>3 DEF IInv, ListOK
<1>. QED
  BY <1>3, <1>4 DEF IInv

LEMMA FinishPreserves == ASSUME IInv, Finish PROVE IInv'
<1>1. frames \in Seq(Frame) /\ frames # <<>>
  BY DEF IInv, ListOK, Finish
<1>2. 1 \in 1 .. Len(frames)
  BY <1>1, EmptySeq
<1>. QED
  BY <1>2, LeavePreserves DEF Finish, Front

LEMMA ThrowPreserves == ASSUME IInv, NEW k \in 1 .. Len(frames), Throw(k) PROVE IInv'
  BY LeavePreserves DEF Throw

LEMMA PublishPreserves ==
  ASSUME IInv, NEW t \in Topics, Publish(t)
  PROVE  IInv'
<1>. DEFINE f == [topic |-> t, e |-> HeadNode, next |-> NULL, calling |-> FALSE,
                  handler |-> NULL, expected |-> arrival, got |-> <<>>]
            n == Len(subscribers)
<1>1. /\ GoodList(subscribers, arrival) /\ arrival \in Seq(Topics \X Methods)
      /\ Len(arrival) = n /\ n \in Nat
      /\ \A i \in 1 .. n : subscribers[i].node \in Nodes /\ n - i + 1 \in 1 .. n
      /\ subscribers \in Seq(Cell)
  BY GoodListFacts DEF IInv, ListOK, GoodList
<1>2. /\ frames \in Seq(Frame) /\ Len(frames) \in Nat /\ Len(frames) < MaxDepth
      /\ MaxDepth \in Nat
      /\ frames' = Append(frames, f) /\ UNCHANGED <<subscribers, roots, dangling, arrival>>
  BY BusAssumption DEF IInv, ListOK, Publish
<1>3. HeadNode = IF n = 0 THEN NULL ELSE subscribers[1].node
  BY <1>1, EmptySeq DEF HeadNode
<1>4. HeadNode \in Nodes \cup {NULL}
  BY <1>1, <1>3
<1>5. f \in Frame
  BY <1>1, <1>4 DEF Frame
<1>6. FrameOK(f, subscribers, arrival)
  <2>1. \A i, j \in 1 .. n : arrival[i] = arrival[j] => i = j
    <3>1. ASSUME NEW i \in 1 .. n
          PROVE  arrival[i] = SubscriptionOf(subscribers[n - i + 1]) /\ n - i + 1 \in 1 .. n
      <4>1. n - i + 1 \in 1 .. n /\ n - (n - i + 1) + 1 = i
        BY <1>1
      <4>2. arrival[n - (n - i + 1) + 1] = SubscriptionOf(subscribers[n - i + 1])
        BY <1>1, <4>1 DEF GoodList
      <4>. QED
        BY <4>1, <4>2
    <3>2. ASSUME NEW i \in 1 .. n, NEW j \in 1 .. n, arrival[i] = arrival[j]
          PROVE  i = j
      <4>1. /\ n - i + 1 \in 1 .. n /\ n - j + 1 \in 1 .. n
            /\ SubscriptionOf(subscribers[n - i + 1]) = SubscriptionOf(subscribers[n - j + 1])
        BY <3>1, <3>2
      <4>2. n - i + 1 = n - j + 1
        BY <1>1, <4>1 DEF GoodList
      <4>. QED
        BY <1>1, <4>2
    <3>. QED
      BY <3>2
  <2>2. /\ f.expected = arrival /\ f.got = <<>> /\ f.e = HeadNode /\ f.next = NULL
        /\ f.calling = FALSE /\ Len(f.got) = 0
    OBVIOUS
  <2>. HIDE DEF f, n
  <2>3. n - n + 1 = 1 /\ n \in 0 .. n
    BY <1>1
  <2>4. Ahead(f, n, subscribers, arrival)
    BY <1>1, <1>3, <2>2, <2>3 DEF Ahead, n
  <2>5. Called(f, n)
    <3>1. 1 .. Len(f.got) = {} /\ n + 1 .. Len(f.expected) = {}
      BY <1>1, <2>2
    <3>. QED
      BY <3>1 DEF Called
  <2>. QED
    BY <1>1, <2>1, <2>2, <2>3, <2>4, <2>5 DEF FrameOK
<1>. HIDE DEF f
<1>7. /\ frames' \in Seq(Frame) /\ Len(frames') = Len(frames) + 1
      /\ frames'[Len(frames) + 1] = f
  BY <1>2, <1>5, AppendProperties
<1>8. ListOK'
  BY <1>2, <1>7 DEF IInv, ListOK
<1>9. ASSUME OwnOnly, MaxDepth <= 1
      PROVE  ~dangling' /\ \A i \in 1 .. Len(frames') : FrameOK(frames'[i], subscribers', arrival')
  <2>1. Len(frames) = 0
    BY <1>2, <1>9
  <2>2. Len(frames') = 1 /\ frames'[1] = f
    BY <1>7, <2>1
  <2>. QED
    BY <1>2, <1>6, <1>9, <2>2 DEF IInv
<1>. QED
  BY <1>8, <1>9 DEF IInv

(* The history of calls after one more, and after a subscriber of another    *)
(* topic has been stepped over.                                              *)
LEMMA CalledOneMore ==
  ASSUME NEW f \in Frame, NEW g \in Frame, NEW k \in 1 .. Len(f.expected), NEW m \in Methods,
         \A i, j \in 1 .. Len(f.expected) : f.expected[i] = f.expected[j] => i = j,
         Called(f, k), f.expected[k] = <<f.topic, m>>,
         g.topic = f.topic, g.expected = f.expected, g.got = Append(f.got, m)
  PROVE  Called(g, k - 1)
<1>. DEFINE l == Len(f.got)
            x == f.expected
<1>1. l \in Nat /\ Len(x) \in Nat /\ f.got \in Seq(Methods)
  BY DEF Frame
<1>2. /\ Len(g.got) = l + 1 /\ g.got[l + 1] = m
      /\ \A j \in 1 .. l : g.got[j] = f.got[j]
  BY <1>1, AppendProperties
<1>. HIDE DEF l, x
<1>3. x[k] = <<f.topic, m>> /\ k \in 1 .. Len(x) /\ g.expected = x
  BY DEF x
<1>4. \A j \in 1 .. l : \E p \in k + 1 .. Len(x) : x[p] = <<f.topic, f.got[j]>>
  BY DEF Called, l, x
<1>5. \A p \in k + 1 .. Len(x) : x[p][1] = f.topic => \E j \in 1 .. l : x[p] = <<f.topic, f.got[j]>>
  BY DEF Called, l, x
<1>6. \A i, j \in 1 .. l, p, q \in 1 .. Len(x) :
        i < j /\ x[p] = <<f.topic, f.got[i]>> /\ x[q] = <<f.topic, f.got[j]>> => q < p
  BY DEF Called, l, x
<1>7. ASSUME NEW j \in 1 .. l + 1
      PROVE  \E p \in k - 1 + 1 .. Len(x) : x[p] = <<f.topic, g.got[j]>>
  <2>1. CASE j = l + 1
    <3>1. k \in k - 1 + 1 .. Len(x)
      BY <1>1, <1>3 DEF x
    <3>. QED
      BY <1>2, <1>3, <2>1, <3>1
  <2>2. CASE j # l + 1
    <3>1. j \in 1 .. l
      BY <1>1, <2>2
    <3>2. PICK p \in k + 1 .. Len(x) : x[p] = <<f.topic, f.got[j]>>
      BY <1>4, <3>1
    <3>3. p \in k - 1 + 1 .. Len(x)
      BY <1>1, <1>3 DEF x
    <3>. QED
      BY <1>2, <3>1, <3>2, <3>3
  <2>. QED
    BY <2>1, <2>2
<1>8. ASSUME NEW p \in k - 1 + 1 .. Len(x), x[p][1] = f.topic
      PROVE  \E j \in 1 .. l + 1 : x[p] = <<f.topic, g.got[j]>>
  <2>1. CASE p = k
    BY <1>1, <1>2, <1>3, <2>1
  <2>2. CASE p # k
    <3>1. p \in k + 1 .. Len(x)
      BY <1>1, <1>3, <2>2 DEF x
    <3>2. PICK j \in 1 .. l : x[p] = <<f.topic, f.got[j]>>
      BY <1>5, <1>8, <3>1
    <3>3. j \in 1 .. l + 1
      BY <1>1
    <3>. QED
      BY <1>2, <3>2, <3>3
  <2>. QED
    BY <2>1, <2>2
<1>9. ASSUME NEW i \in 1 .. l + 1, NEW j \in 1 .. l + 1,
             NEW p \in 1 .. Len(x), NEW q \in 1 .. Len(x), i < j,
             x[p] = <<f.topic, g.got[i]>>, x[q] = <<f.topic, g.got[j]>>
      PROVE  q < p
  <2>1. i \in 1 .. l /\ x[p] = <<f.topic, f.got[i]>>
    BY <1>1, <1>2, <1>9
  <2>2. CASE j \in 1 .. l
    BY <1>2, <1>6, <1>9, <2>1, <2>2
  <2>3. CASE j = l + 1
    <3>1. q = k
      BY <1>2, <1>3, <1>9, <2>3 DEF x
    <3>2. PICK r \in k + 1 .. Len(x) : x[r] = <<f.topic, f.got[i]>>
      BY <1>4, <2>1
    <3>3. r \in 1 .. Len(x)
      BY <1>1, <1>3
    <3>4. p = r
      BY <2>1, <3>2, <3>3 DEF x
    <3>. QED
      BY <1>1, <1>3, <3>1, <3>2, <3>4
  <2>. QED
    BY <1>1, <2>2, <2>3
<1>10. \A j \in 1 .. Len(g.got) :
         \E p \in k - 1 + 1 .. Len(g.expected) : g.expected[p] = <<g.topic, g.got[j]>>
  BY <1>2, <1>3, <1>7
<1>11. \A p \in k - 1 + 1 .. Len(g.expected) : g.expected[p][1] = g.topic =>
         \E j \in 1 .. Len(g.got) : g.expected[p] = <<g.topic, g.got[j]>>
  BY <1>2, <1>3, <1>8
<1>12. \A i, j \in 1 .. Len(g.got), p, q \in 1 .. Len(g.expected) :
         /\ i < j
         /\ g.expected[p] = <<g.topic, g.got[i]>>
         /\ g.expected[q] = <<g.topic, g.got[j]>>
         => q < p
  BY <1>2, <1>3, <1>9
<1>. QED
  BY <1>10, <1>11, <1>12 DEF Called

LEMMA CalledSkipping ==
  ASSUME NEW f \in Frame, NEW g \in Frame, NEW k \in 1 .. Len(f.expected),
         Called(f, k), f.expected[k][1] # f.topic,
         g.topic = f.topic, g.expected = f.expected, g.got = f.got
  PROVE  Called(g, k - 1)
<1>. DEFINE x == f.expected
<1>1. Len(x) \in Nat
  BY DEF Frame
<1>. HIDE DEF x
<1>2. k - 1 + 1 = k /\ k \in 1 .. Len(x) /\ x[k][1] # f.topic /\ g.expected = x
  BY <1>1 DEF x
<1>3. \A j \in 1 .. Len(f.got) : \E p \in k + 1 .. Len(x) : x[p] = <<f.topic, f.got[j]>>
  BY DEF Called, x
<1>4. \A p \in k + 1 .. Len(x) : x[p][1] = f.topic =>
        \E j \in 1 .. Len(f.got) : x[p] = <<f.topic, f.got[j]>>
  BY DEF Called, x
<1>5. \A p \in k + 1 .. Len(x) : p \in k .. Len(x)
  BY <1>1, <1>2
<1>6. \A p \in k .. Len(x) : p = k \/ p \in k + 1 .. Len(x)
  BY <1>1, <1>2
<1>7. \A j \in 1 .. Len(f.got) : \E p \in k .. Len(x) : x[p] = <<f.topic, f.got[j]>>
  BY <1>3, <1>5
<1>8. \A p \in k .. Len(x) : x[p][1] = f.topic =>
        \E j \in 1 .. Len(f.got) : x[p] = <<f.topic, f.got[j]>>
  BY <1>2, <1>4, <1>6
<1>9. \A j \in 1 .. Len(g.got) :
        \E p \in k - 1 + 1 .. Len(g.expected) : g.expected[p] = <<g.topic, g.got[j]>>
  BY <1>2, <1>7
<1>10. \A p \in k - 1 + 1 .. Len(g.expected) : g.expected[p][1] = g.topic =>
         \E j \in 1 .. Len(g.got) : g.expected[p] = <<g.topic, g.got[j]>>
  BY <1>2, <1>8
<1>11. \A i, j \in 1 .. Len(g.got), p, q \in 1 .. Len(g.expected) :
         /\ i < j
         /\ g.expected[p] = <<g.topic, g.got[i]>>
         /\ g.expected[q] = <<g.topic, g.got[j]>>
         => q < p
  BY DEF Called
<1>. QED
  BY <1>9, <1>10, <1>11 DEF Called

(* Where a live subscriber is, and what its next is.                         *)
LEMMA PositionIs ==
  ASSUME GoodList(subscribers, arrival), NEW i \in 1 .. Len(subscribers)
  PROVE  LET n == subscribers[i].node
         IN  /\ Live(n) /\ Position(n) = i
             /\ NextNode(n) = IF i = Len(subscribers) THEN NULL ELSE subscribers[i + 1].node
             /\ NextNode(n) \in Nodes \cup {NULL}
<1>. DEFINE n == subscribers[i].node
<1>1. /\ Len(subscribers) \in Nat /\ DOMAIN subscribers = 1 .. Len(subscribers)
      /\ \A j \in 1 .. Len(subscribers) : subscribers[j].node \in Nodes
      /\ NodesOf(subscribers) = {subscribers[j].node : j \in 1 .. Len(subscribers)}
      /\ \A j \in 1 .. Len(subscribers) : subscribers[j].node = n => j = i
  BY GoodListFacts DEF GoodList
<1>2. Position(n) = i
  BY <1>1 DEF Position
<1>. HIDE DEF n
<1>3. NextNode(n) = IF i = Len(subscribers) THEN NULL ELSE subscribers[i + 1].node
  BY <1>2 DEF NextNode
<1>4. ASSUME i # Len(subscribers) PROVE subscribers[i + 1].node \in Nodes
  <2>1. i \in 1 .. Len(subscribers) /\ Len(subscribers) \in Nat
    BY <1>1
  <2>2. i + 1 \in 1 .. Len(subscribers)
    BY <1>4, <2>1
  <2>. QED
    BY <1>1, <2>2
<1>5. Live(n)
  BY <1>1 DEF Live, n
<1>. QED
  BY <1>1, <1>2, <1>3, <1>4, <1>5 DEF n

LEMMA ReturnPreserves == ASSUME IInv, Return PROVE IInv'
<1>. DEFINE f == [Top EXCEPT !.e = Advance(Top), !.next = NULL,
                             !.calling = FALSE, !.handler = NULL]
<1>1. /\ frames # <<>> /\ Top.calling /\ SetTop(f)
      /\ UNCHANGED <<subscribers, roots, dangling, arrival>>
  BY DEF Return
<1>2. Top \in Frame
  <2>1. frames \in Seq(Frame) /\ Len(frames) \in 1 .. Len(frames)
    BY <1>1, EmptySeq DEF IInv, ListOK
  <2>. QED
    BY <2>1 DEF Top
<1>3. /\ f \in Frame /\ f.e = Top.next /\ f.calling = FALSE
      /\ f.topic = Top.topic /\ f.expected = Top.expected /\ f.got = Top.got
  BY <1>2 DEF Frame, Advance
<1>. HIDE DEF f
<1>4. ASSUME OwnOnly, MaxDepth <= 1
      PROVE  FrameOK(f, subscribers, arrival)
  <2>1. FrameOK(Top, subscribers, arrival)
    BY <1>1, <1>4, OneFrame
  <2>2. PICK k \in 0 .. Len(Top.expected) : Ahead(Top, k, subscribers, arrival) /\ Called(Top, k)
    BY <2>1 DEF FrameOK
  <2>3. Ahead(f, k, subscribers, arrival)
    BY <1>1, <1>3, <2>2 DEF Ahead
  <2>4. Called(f, k)
    <3>. DEFINE t == Top
    <3>1. f.topic = t.topic /\ f.expected = t.expected /\ f.got = t.got /\ Called(t, k)
      BY <1>3, <2>2
    <3>. HIDE DEF t
    <3>. QED
      BY <3>1 DEF Called
  <2>. QED
    BY <1>3, <2>1, <2>2, <2>3, <2>4 DEF FrameOK
<1>. QED
  BY <1>1, <1>3, <1>4, TopPreserves

LEMMA VisitPreserves == ASSUME IInv, Visit PROVE IInv'
<1>. DEFINE e == Top.e
            n == Len(subscribers)
<1>1. /\ frames # <<>> /\ ~Top.calling /\ e # NULL /\ ~dangling
      /\ UNCHANGED <<subscribers, roots, arrival>>
      /\ GoodList(subscribers, arrival) /\ n \in Nat
      /\ \A i \in 1 .. n : subscribers[i] \in Cell /\ subscribers[i].handler \in Closures
      /\ NodesOf(subscribers) = {subscribers[i].node : i \in 1 .. n}
  BY GoodListFacts DEF IInv, ListOK, Visit
<1>2. Top \in Frame
  <2>1. frames \in Seq(Frame) /\ Len(frames) \in 1 .. Len(frames)
    BY <1>1, EmptySeq DEF IInv, ListOK
  <2>. QED
    BY <2>1 DEF Top
<1>3. ASSUME OwnOnly, MaxDepth <= 1
      PROVE  \E k \in 1 .. Len(Top.expected) :
               /\ Ahead(Top, k, subscribers, arrival) /\ Called(Top, k)
               /\ k \in 1 .. n /\ e = subscribers[n - k + 1].node
  <2>1. FrameOK(Top, subscribers, arrival) /\ Len(Top.expected) \in Nat
    BY <1>1, <1>3, OneFrame
  <2>2. PICK k \in 0 .. Len(Top.expected) : Ahead(Top, k, subscribers, arrival) /\ Called(Top, k)
    BY <2>1 DEF FrameOK
  <2>3. k # 0
    BY <1>1, <2>2 DEF Ahead
  <2>4. k \in 1 .. Len(Top.expected) /\ k \in 1 .. n /\ e = subscribers[n - k + 1].node
    BY <1>1, <2>1, <2>2, <2>3 DEF Ahead
  <2>. QED
    BY <2>2, <2>4
<1>4. CASE ~Live(e)
  <2>1. dangling' = TRUE /\ UNCHANGED frames
    BY <1>4 DEF Visit
  <2>2. ~(OwnOnly /\ MaxDepth <= 1)
    <3>1. ASSUME OwnOnly, MaxDepth <= 1 PROVE FALSE
      <4>1. PICK k \in 1 .. n : e = subscribers[n - k + 1].node
        BY <1>3, <3>1
      <4>2. n - k + 1 \in 1 .. n
        BY <1>1
      <4>. QED
        BY <1>1, <1>4, <4>1, <4>2 DEF Live
    <3>. QED
      BY <3>1
  <2>. QED
    BY <1>1, <2>1, <2>2 DEF IInv, ListOK
<1>5. CASE Live(e)
  <2>1. PICK i \in 1 .. n : subscribers[i].node = e
    BY <1>1, <1>5 DEF Live
  <2>2. /\ Position(e) = i /\ NextNode(e) \in Nodes \cup {NULL}
        /\ NextNode(e) = IF i = n THEN NULL ELSE subscribers[i + 1].node
    BY <1>1, <2>1, PositionIs
  <2>. DEFINE s == subscribers[i]
              f == [Top EXCEPT !.next = NextNode(e), !.calling = TRUE,
                               !.handler = s.handler,
                               !.got = Append(Top.got, MethodOf[s.handler])]
              g == [Top EXCEPT !.e = NextNode(e)]
  <2>3. UNCHANGED dangling /\ IF s.topic = Top.topic THEN SetTop(f) ELSE SetTop(g)
    BY <1>5, <2>2 DEF Visit, Skip
  (* What is left to visit after this one. *)
  <2>4. ASSUME OwnOnly, MaxDepth <= 1
        PROVE  \E k \in 1 .. Len(Top.expected) :
                 /\ Called(Top, k) /\ k \in 1 .. n
                 /\ \A j \in 1 .. k : arrival[j] = Top.expected[j]
                 /\ k - 1 \in 0 .. Len(Top.expected) /\ k - 1 <= n
                 /\ NextNode(e) = IF k - 1 = 0 THEN NULL ELSE subscribers[n - (k - 1) + 1].node
                 /\ Top.expected[k] = <<s.topic, MethodOf[s.handler]>>
                 /\ \A l, j \in 1 .. Len(Top.expected) : Top.expected[l] = Top.expected[j] => l = j
    <3>1. PICK k \in 1 .. Len(Top.expected) :
               /\ Ahead(Top, k, subscribers, arrival) /\ Called(Top, k)
               /\ k \in 1 .. n /\ e = subscribers[n - k + 1].node
      BY <1>3, <2>4
    <3>2. n - k + 1 \in 1 .. n /\ Len(Top.expected) \in Nat
      <4>1. n \in Nat /\ k \in 1 .. n
        BY <1>1, <3>1
      <4>2. Top.expected \in Seq(Topics \X Methods)
        BY <1>2 DEF Frame
      <4>3. Len(Top.expected) \in Nat
        BY <4>2
      <4>. HIDE DEF n
      <4>. QED
        BY <4>1, <4>3
    <3>3. i = n - k + 1
      BY <1>1, <2>1, <3>1, <3>2 DEF GoodList
    <3>4. /\ i = n <=> k - 1 = 0
          /\ i + 1 = n - (k - 1) + 1 /\ n - i + 1 = k
          /\ k - 1 \in 0 .. Len(Top.expected) /\ k - 1 <= n
      BY <1>1, <3>1, <3>2, <3>3
    <3>5. arrival[k] = Top.expected[k] /\ \A j \in 1 .. k : arrival[j] = Top.expected[j]
      BY <3>1 DEF Ahead
    <3>6. arrival[k] = SubscriptionOf(s)
      BY <1>1, <3>4 DEF GoodList
    <3>7. Top.expected[k] = <<s.topic, MethodOf[s.handler]>>
      BY <3>5, <3>6 DEF SubscriptionOf, Subscription
    <3>8. \A l, j \in 1 .. Len(Top.expected) : Top.expected[l] = Top.expected[j] => l = j
      BY <1>1, <2>4, OneFrame DEF FrameOK
    <3>9. NextNode(e) = IF k - 1 = 0 THEN NULL ELSE subscribers[n - (k - 1) + 1].node
      BY <2>2, <3>4
    <3>. QED
      BY <3>1, <3>4, <3>5, <3>7, <3>8, <3>9
  <2>5. CASE s.topic = Top.topic
    <3>1. s.handler \in Closures /\ MethodOf[s.handler] \in Methods
      BY <1>1 DEF Methods
    <3>2. Append(Top.got, MethodOf[s.handler]) \in Seq(Methods)
      BY <1>2, <3>1, AppendProperties DEF Frame
    <3>3. /\ f \in Frame /\ f.next = NextNode(e) /\ f.calling = TRUE
          /\ f.handler = s.handler /\ f.topic = Top.topic /\ f.expected = Top.expected
          /\ f.got = Append(Top.got, MethodOf[s.handler])
      BY <1>2, <2>2, <3>1, <3>2 DEF Frame
    <3>4. SetTop(f)
      BY <2>3, <2>5
    <3>. HIDE DEF f
    <3>5. ASSUME OwnOnly, MaxDepth <= 1
          PROVE  FrameOK(f, subscribers, arrival)
      <4>1. PICK k \in 1 .. Len(Top.expected) :
                 /\ Called(Top, k) /\ k \in 1 .. n
                 /\ \A j \in 1 .. k : arrival[j] = Top.expected[j]
                 /\ k - 1 \in 0 .. Len(Top.expected) /\ k - 1 <= n
                 /\ NextNode(e) = IF k - 1 = 0 THEN NULL ELSE subscribers[n - (k - 1) + 1].node
                 /\ Top.expected[k] = <<s.topic, MethodOf[s.handler]>>
                 /\ \A l, j \in 1 .. Len(Top.expected) : Top.expected[l] = Top.expected[j] => l = j
        BY <2>4, <3>5
      <4>2. Called(f, k - 1)
        BY <1>2, <2>5, <3>1, <3>3, <4>1, CalledOneMore
      <4>3. k - 1 + 1 = k /\ k <= Len(Top.expected) /\ Len(Top.expected) \in Nat
            /\ \A j \in 1 .. k - 1 : j \in 1 .. k
        BY <1>2, <4>1 DEF Frame
      <4>4. f.expected[k - 1 + 1] = Subscription(f.topic, f.handler)
        BY <2>5, <3>3, <4>1, <4>3 DEF Subscription
      <4>5. Ahead(f, k - 1, subscribers, arrival)
        BY <3>1, <3>3, <4>1, <4>3, <4>4 DEF Ahead
      <4>. QED
        BY <3>3, <4>1, <4>2, <4>5 DEF FrameOK
    <3>. QED
      BY <1>1, <2>3, <3>3, <3>4, <3>5, TopPreserves
  <2>6. CASE s.topic # Top.topic
    <3>1. /\ g \in Frame /\ g.e = NextNode(e) /\ g.calling = FALSE
          /\ g.topic = Top.topic /\ g.expected = Top.expected /\ g.got = Top.got
      BY <1>1, <1>2, <2>2 DEF Frame
    <3>2. SetTop(g)
      BY <2>3, <2>6
    <3>. HIDE DEF g
    <3>3. ASSUME OwnOnly, MaxDepth <= 1
          PROVE  FrameOK(g, subscribers, arrival)
      <4>1. PICK k \in 1 .. Len(Top.expected) :
                 /\ Called(Top, k) /\ k \in 1 .. n
                 /\ \A j \in 1 .. k : arrival[j] = Top.expected[j]
                 /\ k - 1 \in 0 .. Len(Top.expected) /\ k - 1 <= n
                 /\ NextNode(e) = IF k - 1 = 0 THEN NULL ELSE subscribers[n - (k - 1) + 1].node
                 /\ Top.expected[k] = <<s.topic, MethodOf[s.handler]>>
                 /\ \A l, j \in 1 .. Len(Top.expected) : Top.expected[l] = Top.expected[j] => l = j
        BY <2>4, <3>3
      <4>2. Top.expected[k][1] # Top.topic
        BY <2>6, <4>1
      <4>3. Called(g, k - 1)
        BY <1>2, <3>1, <4>1, <4>2, CalledSkipping
      <4>4. Len(Top.expected) \in Nat /\ \A j \in 1 .. k - 1 : j \in 1 .. k
        BY <1>2, <4>1 DEF Frame
      <4>5. Ahead(g, k - 1, subscribers, arrival)
        BY <3>1, <4>1, <4>4 DEF Ahead
      <4>. QED
        BY <3>1, <4>1, <4>3, <4>5 DEF FrameOK
    <3>. QED
      BY <1>1, <2>3, <3>1, <3>2, <3>3, TopPreserves
  <2>. QED
    BY <2>5, <2>6
<1>. QED
  BY <1>4, <1>5

-----------------------------------------------------------------------------
LEMMA IInvHolds == Spec => []IInv
<1>1. Init => IInv
  BY InitEstablishes
<1>2. IInv /\ [Next]_vars => IInv'
  <2>. SUFFICES ASSUME IInv, [Next]_vars PROVE IInv'
    OBVIOUS
  <2>1. ASSUME NEW t \in Topics, NEW c \in Closures, Subscribe(t, c) \/ Unsubscribe(t, c)
        PROVE  IInv'
    BY <2>1, SubscribePreserves
  <2>2. ASSUME NEW t \in Topics, Publish(t) PROVE IInv'
    BY <2>2, PublishPreserves
  <2>3. ASSUME Visit \/ Return \/ Finish PROVE IInv'
    BY <2>3, VisitPreserves, ReturnPreserves, FinishPreserves
  <2>4. ASSUME NEW k \in 1 .. Len(frames), Throw(k) PROVE IInv'
    BY <2>4, ThrowPreserves
  <2>5. ASSUME UNCHANGED vars PROVE IInv'
    BY <2>5 DEF vars, IInv, ListOK
  <2>. QED
    BY <2>1, <2>2, <2>3, <2>4, <2>5 DEF Next
<1>. QED
  BY <1>1, <1>2, PTL DEF Spec

(* Every subscribed closure is rooted through its own live cell, no cell is  *)
(* on the list twice and no method subscribed twice to a topic, however      *)
(* publishes nest and whichever subscriptions their handlers take away       *)
(* (bus.c: bus_subscribe, bus_unsubscribe, EraseSubscriber).                 *)
THEOREM ListStaysConsistent == Spec => []ListConsistent
<1>1. IInv => ListConsistent
  BY InvariantMeansConsistent
<1>. QED
  BY <1>1, IInvHolds, PTL

(* With handlers that stop at most their own delivery and publish nothing,   *)
(* the loop of bus_publish never follows a freed subscriber, though the cell *)
(* it stands on may be freed, and its address reused, during the call.       *)
THEOREM NoLoopDangles ==
  ASSUME OwnOnly, MaxDepth <= 1
  PROVE  Spec => []NoUseAfterFree
<1>1. IInv => NoUseAfterFree
  BY InvariantMeansEveryoneOnce
<1>. QED
  BY <1>1, IInvHolds, PTL

(* And under the same conditions it calls those who were subscribed when it  *)
(* began exactly once each, the newest first, and nobody else (bus.c:        *)
(* bus_publish).                                                             *)
THEOREM EveryoneIsCalledOnce ==
  ASSUME OwnOnly, MaxDepth <= 1
  PROVE  Spec => []EveryoneOnce
<1>1. IInv => EveryoneOnce
  BY InvariantMeansEveryoneOnce
<1>. QED
  BY <1>1, IInvHolds, PTL
=============================================================================
