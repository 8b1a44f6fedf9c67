--------------------------------- MODULE Bus ---------------------------------
(***************************************************************************)
(* The publish/subscribe bus of hlx-boot (bus.c).                          *)
(*                                                                         *)
(* One thread runs mods' code; bus_publish calls handlers synchronously,   *)
(* and a handler may itself subscribe, unsubscribe, publish or throw while *)
(* the loops of the publishes below it on the stack hold pointers into the *)
(* list of subscribers.  A frame is one bus_publish in progress.           *)
(***************************************************************************)
EXTENDS Integers, Sequences, SequencesExt, FiniteSets

CONSTANTS
  Topics,       \* topics, as hlx_narrow_utf16 leaves them
  Closures,     \* closure objects mods subscribe
  MethodOf,     \* the code address and receiver of each closure
  NULL,         \* the null pointer
  Nodes,        \* addresses malloc may give a subscriber
  MaxDepth,     \* bound on publishes nested in one another's handlers
  OwnOnly       \* handlers unsubscribe or replace at most their own subscription

ASSUME BusAssumption ==
  /\ DOMAIN MethodOf = Closures
  /\ NULL \notin Nodes
  /\ MaxDepth \in Nat
  /\ OwnOnly \in BOOLEAN

VARIABLES
  subscribers,  \* g_subscribers, newest first
  roots,        \* addresses given to hl_add_root and not yet to hl_remove_root
  frames,       \* the publishes in progress, innermost last
  dangling,     \* a loop has followed a pointer to a freed subscriber
  arrival       \* history: current subscriptions in registration order

vars == <<subscribers, roots, frames, dangling, arrival>>

Methods == {MethodOf[c] : c \in Closures}
Top == frames[Len(frames)]
SetTop(f) == frames' = [frames EXCEPT ![Len(frames)] = f]

-----------------------------------------------------------------------------
(* The list. *)
NodesOf(s) == {s[i].node : i \in DOMAIN s}
Position(n) == CHOOSE i \in DOMAIN subscribers : subscribers[i].node = n
Live(n) == n \in NodesOf(subscribers)
HeadNode == IF subscribers = <<>> THEN NULL ELSE subscribers[1].node
NextNode(n) == IF Position(n) = Len(subscribers) THEN NULL
               ELSE subscribers[Position(n) + 1].node

SameHandler_ByPointer(a, b) == a = b   \* mutant: closures compared as pointers
SameHandler(a, b) == MethodOf[a] = MethodOf[b]

Matches(t, c) == {i \in DOMAIN subscribers :
                    subscribers[i].topic = t /\ SameHandler(subscribers[i].handler, c)}
FirstMatch(t, c) == CHOOSE i \in Matches(t, c) : \A j \in Matches(t, c) : i <= j

(* EraseSubscriber: what is left of the list and of the roots. *)
Erased(t, c) == IF Matches(t, c) = {} THEN subscribers
                ELSE RemoveAt(subscribers, FirstMatch(t, c))
ErasedRoots_Kept(t, c) == roots   \* mutant: no hl_remove_root
ErasedRoots(t, c) == IF Matches(t, c) = {} THEN roots
                     ELSE roots \ {subscribers[FirstMatch(t, c)].node}

Link_Unset(s, e) == <<[e EXCEPT !.handler = NULL]>> \o s   \* mutant: handler left unset
Link_AtTail(s, e) == Append(s, e)   \* mutant: new subscribers go last
Link(s, e) == <<e>> \o s

-----------------------------------------------------------------------------
(* Mods' code runs outside every publish or inside the innermost handler. *)
ModRuns == ~dangling /\ (frames # <<>> => Top.calling)

Delivering(t, c) == frames # <<>> /\ Top.topic = t /\ SameHandler(Top.handler, c)
MayErase(t, c) == OwnOnly /\ frames # <<>> => Delivering(t, c) \/ Matches(t, c) = {}

Subscription(t, c) == <<t, MethodOf[c]>>
Arrived(t, c) == {i \in DOMAIN arrival : arrival[i] = Subscription(t, c)}
Forget(t, c) == IF Arrived(t, c) = {} THEN arrival
                ELSE RemoveAt(arrival, CHOOSE i \in Arrived(t, c) : TRUE)

(* bus_subscribe: erase, allocate, link, root. *)
Subscribe(t, c) ==
  /\ ModRuns
  /\ MayErase(t, c)
  /\ \/ \E n \in Nodes \ NodesOf(Erased(t, c)) :
          /\ subscribers' = Link(Erased(t, c), [node |-> n, topic |-> t, handler |-> c])
          /\ roots' = ErasedRoots(t, c) \cup {n}
          /\ arrival' = Append(Forget(t, c), Subscription(t, c))
     \/ /\ subscribers' = Erased(t, c)   \* malloc failed
        /\ roots' = ErasedRoots(t, c)
        /\ arrival' = Forget(t, c)
  /\ UNCHANGED <<frames, dangling>>

Unsubscribe(t, c) ==
  /\ ModRuns
  /\ MayErase(t, c)
  /\ subscribers' = Erased(t, c)
  /\ roots' = ErasedRoots(t, c)
  /\ arrival' = Forget(t, c)
  /\ UNCHANGED <<frames, dangling>>

-----------------------------------------------------------------------------
(* bus_publish enters its loop; expected and got are history. *)
Publish(t) ==
  /\ ModRuns
  /\ Len(frames) < MaxDepth
  /\ frames' = Append(frames, [topic |-> t, e |-> HeadNode, next |-> NULL,
                               calling |-> FALSE, handler |-> NULL,
                               expected |-> arrival, got |-> <<>>])
  /\ UNCHANGED <<subscribers, roots, dangling, arrival>>

(* One turn of the loop up to the handler's call: e's next is read first. *)
Skip_Stuck(n) == n   \* mutant: a subscriber of another topic is not stepped over
Skip(n) == NextNode(n)

Visit ==
  /\ ~dangling /\ frames # <<>> /\ ~Top.calling /\ Top.e # NULL
  /\ IF ~Live(Top.e)
     THEN dangling' = TRUE /\ UNCHANGED frames
     ELSE LET s == subscribers[Position(Top.e)]
          IN  /\ UNCHANGED dangling
              /\ IF s.topic = Top.topic
                 THEN SetTop([Top EXCEPT !.next = NextNode(Top.e),
                                         !.calling = TRUE,
                                         !.handler = s.handler,
                                         !.got = Append(@, MethodOf[s.handler])])
                 ELSE SetTop([Top EXCEPT !.e = Skip(@)])
  /\ UNCHANGED <<subscribers, roots, arrival>>

(* The handler returns and the loop moves on. *)
Advance_Reread(f) == IF Live(f.e) THEN NextNode(f.e) ELSE f.e   \* mutant: e = e->next
Advance(f) == f.next

Return ==
  /\ ~dangling /\ frames # <<>> /\ Top.calling
  /\ SetTop([Top EXCEPT !.e = Advance(Top), !.next = NULL,
                        !.calling = FALSE, !.handler = NULL])
  /\ UNCHANGED <<subscribers, roots, dangling, arrival>>

(* The loop is over: bus_publish returns to whoever called it. *)
Finish ==
  /\ ~dangling /\ frames # <<>> /\ ~Top.calling /\ Top.e = NULL
  /\ frames' = Front(frames)
  /\ UNCHANGED <<subscribers, roots, dangling, arrival>>

(* A handler throws: control leaves every publish up to the one that catches. *)
Throw(k) ==
  /\ ~dangling /\ frames # <<>> /\ Top.calling
  /\ frames' = SubSeq(frames, 1, Len(frames) - k)
  /\ UNCHANGED <<subscribers, roots, dangling, arrival>>

-----------------------------------------------------------------------------
Init ==
  /\ subscribers = <<>>
  /\ roots = {}
  /\ frames = <<>>
  /\ dangling = FALSE
  /\ arrival = <<>>

Next ==
  \/ \E t \in Topics :
       \/ \E c \in Closures : Subscribe(t, c) \/ Unsubscribe(t, c)
       \/ Publish(t)
  \/ Visit \/ Return \/ Finish
  \/ \E k \in 1 .. Len(frames) : Throw(k)

Spec == Init /\ [][Next]_vars

(* The thread keeps running and every handler ends. *)
FairSpec == Spec /\ WF_vars(Visit) /\ WF_vars(Return) /\ WF_vars(Finish)

-----------------------------------------------------------------------------
(* The shape of the bus's state: in particular no subscriber without a      *)
(* closure is ever on the list.                                             *)
TypeOK ==
  /\ subscribers \in Seq([node : Nodes, topic : Topics, handler : Closures])
  /\ roots \subseteq Nodes
  /\ Len(frames) <= MaxDepth
  /\ \A i \in DOMAIN frames :
       frames[i] \in [topic : Topics, e : Nodes \cup {NULL}, next : Nodes \cup {NULL},
                      calling : BOOLEAN, handler : Closures \cup {NULL},
                      expected : Seq(Topics \X Methods), got : Seq(Methods)]
  /\ dangling \in BOOLEAN
  /\ arrival \in Seq(Topics \X Methods)

(* Every subscribed closure is rooted, through the cell of its own live     *)
(* subscriber, and no root is left on a freed one.                          *)
RootsMatchSubscribers ==
  /\ roots = NodesOf(subscribers)
  /\ \A i, j \in DOMAIN subscribers : subscribers[i].node = subscribers[j].node => i = j

(* A mod that subscribes again with a fresh closure of the same method is   *)
(* not called twice.                                                        *)
OneSubscriptionPerMethod ==
  \A i, j \in DOMAIN subscribers :
    subscribers[i].topic = subscribers[j].topic
      /\ MethodOf[subscribers[i].handler] = MethodOf[subscribers[j].handler] => i = j

(* The list is well formed: its cells are rooted, and nobody is on it twice. *)
ListConsistent == TypeOK /\ RootsMatchSubscribers /\ OneSubscriptionPerMethod

(* The loop never reads a subscriber that has been freed under it: a        *)
(* handler may stop listening from within its own delivery.                 *)
NoUseAfterFree == ~dangling

(* The positions, in the order of registration when f began, of those f     *)
(* is for, and the one its j-th call was to.                                 *)
Due(f) == {p \in DOMAIN f.expected : f.expected[p][1] = f.topic}
Turn(f, j) == {p \in Due(f) : f.expected[p][2] = f.got[j]}
Over(f) == ~f.calling /\ f.e = NULL

(* A publish that runs to its end has called every handler that was         *)
(* subscribed when it began exactly once, the newest subscription first, and *)
(* no other, even though handlers came and went by themselves meanwhile;     *)
(* one cut short has passed nobody over.  The order is bus.c's, whose list   *)
(* grows at its head; the order bus.h promises is RegistrationOrder.         *)
EveryoneOnce ==
  \A i \in DOMAIN frames :
    LET f == frames[i]
    IN  /\ \A j \in DOMAIN f.got : Turn(f, j) # {}
        /\ \A j, k \in DOMAIN f.got :
             j < k => \A p \in Turn(f, j), q \in Turn(f, k) : q < p
        /\ \A p \in Due(f) :
             Over(f) \/ (\E j \in DOMAIN f.got : \E q \in Turn(f, j) : q <= p)
               => \E j \in DOMAIN f.got : p \in Turn(f, j)

(* bus.h:9, of publish: "calls every current subscriber's closure [...] in   *)
(* registration order".                                                      *)
RegistrationOrder ==
  \A i \in DOMAIN frames :
    LET f == frames[i]
    IN  \A j, k \in DOMAIN f.got :
          j < k => \A p \in Turn(f, j), q \in Turn(f, k) : p < q

(* A publish comes to an end when its handlers do.                          *)
PublishEnds == frames # <<>> ~> frames = <<>>
==============================================================================
