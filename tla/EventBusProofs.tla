--------------------------- MODULE EventBusProofs ---------------------------
(***************************************************************************)
(* That a client ends up knowing the newest state, and is told of states   *)
(* in their order, for any number of clients, kinds and events and any     *)
(* length of the queues.                                                   *)
(***************************************************************************)
EXTENDS EventBus, SequenceTheorems, TLAPS

\* What waits for a client, in the queue and in the loop.
Due(c) == queue[c] \o ready[c]

\* A callback moves the head of what is ready to the end of the queue.
LEMMA MovingTheHead ==
  ASSUME NEW S, NEW q \in Seq(S), NEW r \in Seq(S), r # <<>>
  PROVE  Append(q, Head(r)) \o Tail(r) = q \o r
<1>1. Head(r) \in S /\ Tail(r) \in Seq(S) /\ Len(Tail(r)) = Len(r) - 1 /\ Len(r) \in Nat \ {0}
  BY HeadTailProperties, EmptySeq
<1>2. Append(q, Head(r)) \in Seq(S) /\ Len(Append(q, Head(r))) = Len(q) + 1
  BY <1>1
<1>3. /\ Append(q, Head(r)) \o Tail(r) \in Seq(S) /\ q \o r \in Seq(S)
      /\ Len(Append(q, Head(r)) \o Tail(r)) = Len(q \o r)
  BY <1>1, <1>2, ConcatProperties
<1>4. ASSUME NEW i \in 1..Len(q \o r)
      PROVE  (Append(q, Head(r)) \o Tail(r))[i] = (q \o r)[i]
  <2>1. CASE i <= Len(q)
    BY <1>1, <1>2, <2>1
  <2>2. CASE i = Len(q) + 1
    BY <1>1, <1>2, <2>2
  <2>3. CASE i > Len(q) + 1
    BY <1>1, <1>2, <2>3
  <2> QED
    BY <2>1, <2>2, <2>3
<1> QED
  BY <1>3, <1>4, SeqEqual

\* Taking the head of a queue takes the head of what waits.
LEMMA TakingTheHead ==
  ASSUME NEW S, NEW q \in Seq(S), NEW r \in Seq(S), q # <<>>
  PROVE  Tail(q) \o r = Tail(q \o r) /\ Head(q) = (q \o r)[1] /\ q \o r # <<>>
<1>1. Tail(q) \in Seq(S) /\ Len(Tail(q)) = Len(q) - 1 /\ Len(q) \in Nat \ {0}
  BY EmptySeq
<1>2. q \o r \in Seq(S) /\ Len(q \o r) = Len(q) + Len(r) /\ q \o r # <<>>
  BY <1>1, EmptySeq
<1>3. Tail(q \o r) \in Seq(S) /\ Len(Tail(q \o r)) = Len(q) + Len(r) - 1
  BY <1>1, <1>2
<1>4. Tail(q) \o r \in Seq(S) /\ Len(Tail(q) \o r) = Len(q) + Len(r) - 1
  BY <1>1
<1>5. ASSUME NEW i \in 1..Len(Tail(q) \o r)
      PROVE  (Tail(q) \o r)[i] = Tail(q \o r)[i]
  BY <1>1, <1>2, <1>3, <1>4
<1>6. Tail(q) \o r = Tail(q \o r)
  BY <1>3, <1>4, <1>5, SeqEqual
<1> QED
  BY <1>1, <1>2, <1>6

\* What is handed to the loop comes last.
LEMMA AppendingToReady ==
  ASSUME NEW S, NEW q \in Seq(S), NEW r \in Seq(S), NEW e \in S
  PROVE  q \o Append(r, e) = Append(q \o r, e)
BY AppendProperties, ConcatProperties, SeqEqual

-----------------------------------------------------------------------------
(* What waits for clients, and how it changes.                             *)

\* What waits is in order, and of the past of its kind.
InOrder(d) == \A i, j \in DOMAIN d : i < j /\ d[i].kind = d[j].kind => d[i].n < d[j].n

LEMMA TailInOrder ==
  ASSUME NEW d \in Seq(Events), d # <<>>, InOrder(d)
  PROVE  InOrder(Tail(d)) /\ \A i \in DOMAIN Tail(d) : i + 1 \in DOMAIN d /\ Tail(d)[i] = d[i + 1]
<1>1. Tail(d) \in Seq(Events) /\ Len(Tail(d)) = Len(d) - 1 /\ Len(d) \in Nat \ {0}
  BY EmptySeq
<1>2. \A i \in DOMAIN Tail(d) : i \in Nat /\ i + 1 \in DOMAIN d /\ Tail(d)[i] = d[i + 1]
  BY <1>1
<1> QED
  BY <1>2 DEF InOrder

LEMMA AppendInOrder ==
  ASSUME NEW d \in Seq(Events), NEW e \in Events, InOrder(d),
         \A i \in DOMAIN d : d[i].kind = e.kind => d[i].n < e.n
  PROVE  InOrder(Append(d, e))
<1>1. Append(d, e) \in Seq(Events) /\ Len(Append(d, e)) = Len(d) + 1 /\ Len(d) \in Nat
  BY DEF Events
<1>2. \A i \in DOMAIN Append(d, e) : \/ i \in DOMAIN d /\ Append(d, e)[i] = d[i]
                                     \/ i = Len(d) + 1 /\ Append(d, e)[i] = e
  BY <1>1
<1>3. \A i \in DOMAIN d : i \in Nat /\ i < Len(d) + 1 /\ d[i] \in Events
  BY <1>1
<1> DEFINE a == Append(d, e)
<1>4. SUFFICES ASSUME NEW i \in DOMAIN a, NEW j \in DOMAIN a, i < j, a[i].kind = a[j].kind
               PROVE  a[i].n < a[j].n
  BY DEF InOrder
<1>5. i \in DOMAIN d /\ a[i] = d[i]
  BY <1>1, <1>2, <1>3, <1>4
<1>6. CASE j \in DOMAIN d
  BY <1>2, <1>3, <1>4, <1>5, <1>6 DEF InOrder
<1>7. CASE j = Len(d) + 1
  BY <1>2, <1>3, <1>4, <1>5, <1>7
<1> QED
  BY <1>2, <1>6, <1>7

-----------------------------------------------------------------------------

\* The newest event of a kind is still to be handed to a client.
Pending(k, c) == holder[k] = "changed" \/ c \in todo[k]

\* A client's events are of the past, and older than one that is pending.
OfThePast(d, c) ==
  \A i \in DOMAIN d : d[i].n <= now[d[i].kind] /\ (Pending(d[i].kind, c) => d[i].n < now[d[i].kind])

PublisherInv ==
  \A k \in Kinds : /\ holder[k] # "sending" => todo[k] = {}
                   /\ holder[k] # "free" => now[k] >= 1

SubscriberInv ==
  \A c \in Clients :
    /\ phase[c] = "away" => Due(c) = <<>> /\ c \notin subs /\ \A k \in Kinds : c \notin todo[k]
    /\ phase[c] \in {"subscribed", "streaming"} => c \in subs

OrderInv == \A c \in Clients : InOrder(Due(c)) /\ OfThePast(Due(c), c)

\* The events of a client in the step of an action: its own step takes the
\* head or leaves them, a publisher's adds one.
LEMMA DueTyped ==
  ASSUME TypeOK, NEW c \in Clients
  PROVE  Due(c) \in Seq(Events) /\ Len(Due(c)) = Len(queue[c]) + Len(ready[c])
BY DEF TypeOK, Due

LEMMA CallbackMoves ==
  ASSUME TypeOK, NEW c \in Clients, RunCallback(c)
  PROVE  /\ \A b \in Clients \ {c} : Due(b)' = Due(b)
         /\ \/ Due(c)' = Due(c)
            \/ Due(c) # <<>> /\ Len(queue[c]) = MaxQueued /\ Len(Due(c)) > MaxQueued /\ Due(c)' = Tail(Due(c))
<1>1. /\ queue[c] \in Seq(Events) /\ ready[c] \in Seq(Events) /\ ready[c] # <<>>
      /\ queue' = [queue EXCEPT ![c] = Put(queue[c], Head(ready[c]))] /\ ready' = [ready EXCEPT ![c] = Tail(ready[c])]
  BY DEF TypeOK, RunCallback
<1>2. \A b \in Clients \ {c} : Due(b)' = Due(b)
  BY <1>1 DEF Due, TypeOK
<1>3. Due(c)' = Put(queue[c], Head(ready[c])) \o Tail(ready[c])
  BY <1>1 DEF Due, TypeOK
<1>4. CASE Len(queue[c]) # MaxQueued
  <2>1. Append(queue[c], Head(ready[c])) \o Tail(ready[c]) = Due(c)
    BY <1>1, MovingTheHead DEF Due
  <2>2. Due(c)' = Append(queue[c], Head(ready[c])) \o Tail(ready[c])
    BY <1>3, <1>4 DEF Put
  <2> QED
    BY <1>2, <2>1, <2>2
<1>5. CASE Len(queue[c]) = MaxQueued
  <2>1. queue[c] # <<>> /\ Tail(queue[c]) \in Seq(Events) /\ Len(ready[c]) \in Nat \ {0}
    BY <1>1, <1>5, BusAssumption, EmptySeq
  <2>2. Due(c)' = Tail(queue[c]) \o ready[c]
    BY <1>1, <1>3, <1>5, <2>1, MovingTheHead DEF Put
  <2>3. Due(c)' = Tail(Due(c)) /\ Due(c) # <<>>
    BY <1>1, <2>1, <2>2, TakingTheHead DEF Due
  <2>4. Len(Due(c)) > MaxQueued
    <3>1. Len(Due(c)) = Len(queue[c]) + Len(ready[c])
      BY DueTyped
    <3> QED
      BY <1>5, <2>1, <3>1, BusAssumption
  <2> QED
    BY <1>2, <1>5, <2>3, <2>4
<1> QED
  BY <1>2, <1>4, <1>5

LEMMA StreamTakes ==
  ASSUME TypeOK, NEW c \in Clients, Stream(c)
  PROVE  /\ \A b \in Clients \ {c} : Due(b)' = Due(b)
         /\ Due(c) # <<>> /\ Due(c)' = Tail(Due(c)) /\ Head(queue[c]) = Due(c)[1] /\ Head(queue[c]) \in Events
<1>1. /\ queue[c] \in Seq(Events) /\ ready[c] \in Seq(Events) /\ queue[c] # <<>>
      /\ queue' = [queue EXCEPT ![c] = Tail(queue[c])] /\ ready' = ready
  BY DEF TypeOK, Stream
<1>2. \A b \in Clients \ {c} : Due(b)' = Due(b)
  BY <1>1 DEF Due, TypeOK
<1>3. Due(c)' = Tail(queue[c]) \o ready[c]
  BY <1>1 DEF Due, TypeOK
<1>4. Head(queue[c]) \in Events
  BY <1>1
<1> QED
  BY <1>1, <1>2, <1>3, <1>4, TakingTheHead DEF Due

LEMMA SendAdds ==
  ASSUME TypeOK, PublisherInv, NEW k \in Kinds, NEW c \in Clients, Send(k, c)
  PROVE  /\ Event(k, now[k]) \in Events
         /\ \A b \in Clients \ {c} : Due(b)' = Due(b)
         /\ \/ phase[c] = "closed" /\ Due(c)' = Due(c) /\ UNCHANGED since
            \/ /\ phase[c] # "closed" /\ Due(c)' = Append(Due(c), Event(k, now[k])) /\ UNCHANGED subs
               /\ since' = [since EXCEPT ![c] = [m \in Kinds |-> IF m = k THEN 0 ELSE since[c][m] + 1]]
<1>1. queue[c] \in Seq(Events) /\ ready[c] \in Seq(Events) /\ queue' = queue
  BY DEF TypeOK, Send
<1>2. Event(k, now[k]) \in Events
  BY DEF Event, Events, TypeOK, PublisherInv, Send
<1>3. CASE phase[c] = "closed"
  BY <1>1, <1>2, <1>3 DEF Send, Due
<1>4. CASE phase[c] # "closed"
  <2>1. ready' = [ready EXCEPT ![c] = Append(ready[c], Event(k, now[k]))]
    BY <1>4 DEF Send
  <2>2. \A b \in Clients \ {c} : Due(b)' = Due(b)
    BY <1>1, <2>1 DEF Due, TypeOK
  <2>3. Due(c)' = queue[c] \o Append(ready[c], Event(k, now[k]))
    BY <1>1, <2>1 DEF Due, TypeOK
  <2>4. Due(c)' = Append(Due(c), Event(k, now[k]))
    <3>1. ASSUME NEW e \in Events PROVE queue[c] \o Append(ready[c], e) = Append(queue[c] \o ready[c], e)
      <4>1. \A q, r \in Seq(Events) : q \o Append(r, e) = Append(q \o r, e)
        BY AppendingToReady
      <4>2. queue[c] \in Seq(Events) /\ ready[c] \in Seq(Events)
        BY <1>1
      <4> QED
        BY <4>1, <4>2, Zenon
    <3> QED
      BY <1>2, <2>3, <3>1 DEF Due
  <2> QED
    BY <1>2, <1>4, <2>2, <2>4 DEF Send
<1> QED
  BY <1>3, <1>4

-----------------------------------------------------------------------------
(* Types.                                                                  *)

LEMMA PutTyped ==
  ASSUME NEW q \in Seq(Events), Len(q) <= MaxQueued, NEW e \in Events
  PROVE  Put(q, e) \in Seq(Events) /\ Len(Put(q, e)) <= MaxQueued
<1>1. CASE Len(q) = MaxQueued
  <2>1. Tail(q) \in Seq(Events) /\ Len(Tail(q)) = Len(q) - 1
    BY <1>1, BusAssumption, EmptySeq
  <2> QED
    BY <1>1, <2>1, BusAssumption DEF Put
<1>2. CASE Len(q) # MaxQueued
  BY <1>2, BusAssumption DEF Put
<1> QED
  BY <1>1, <1>2

\* Types, for any number of clients and kinds and any length of the queues.
THEOREM TypeCorrect == Spec => [](TypeOK /\ PublisherInv)
<1> DEFINE Inv == TypeOK /\ PublisherInv
<1> USE BusAssumption
<1>1. Init => Inv
  <2> SUFFICES ASSUME Init PROVE Inv
    OBVIOUS
  <2>1. \A c \in Clients : queue[c] = <<>> /\ Len(queue[c]) = 0
    BY DEF Init
  <2> QED
    BY <2>1 DEF Init, TypeOK, PublisherInv, Phases
<1>2. Inv /\ [Next]_vars => Inv'
  <2> SUFFICES ASSUME TypeOK, PublisherInv, [Next]_vars PROVE TypeOK' /\ PublisherInv'
    OBVIOUS
  <2>1. ASSUME NEW k \in Kinds, Change(k) PROVE TypeOK' /\ PublisherInv'
    BY <2>1 DEF Change, TypeOK, PublisherInv, streams
  <2>2. ASSUME NEW k \in Kinds, Publish(k) PROVE TypeOK' /\ PublisherInv'
    BY <2>2 DEF Publish, TypeOK, PublisherInv, streams
  <2>3. ASSUME NEW k \in Kinds, NEW c \in Clients, Send(k, c) PROVE TypeOK' /\ PublisherInv'
    <3>1. Event(k, now[k]) \in Events
      BY <2>3, SendAdds
    <3>2. ready' \in [Clients -> Seq(Events)] /\ since' \in [Clients -> [Kinds -> Nat]] /\ subs' \subseteq Clients
      <4>1. CASE phase[c] = "closed"
        BY <2>3, <4>1 DEF Send, TypeOK
      <4>2. CASE phase[c] # "closed"
        <5>1. Append(ready[c], Event(k, now[k])) \in Seq(Events)
          BY <3>1 DEF TypeOK
        <5>2. [m \in Kinds |-> IF m = k THEN 0 ELSE since[c][m] + 1] \in [Kinds -> Nat]
          BY DEF TypeOK
        <5>3. /\ ready' = [ready EXCEPT ![c] = Append(ready[c], Event(k, now[k]))] /\ UNCHANGED subs
              /\ since' = [since EXCEPT ![c] = [m \in Kinds |-> IF m = k THEN 0 ELSE since[c][m] + 1]]
          BY <2>3, <4>2 DEF Send
        <5> QED
          BY <5>1, <5>2, <5>3 DEF TypeOK
      <4> QED
        BY <4>1, <4>2
    <3>3. UNCHANGED <<now, holder, queue, phase, shown>> /\ todo' = [todo EXCEPT ![k] = @ \ {c}] /\ holder[k] = "sending"
      BY <2>3 DEF Send, streams
    <3>4. todo' \in [Kinds -> SUBSET Clients] /\ \A m \in Kinds \ {k} : todo'[m] = todo[m]
      BY <3>3 DEF TypeOK
    <3>5. TypeOK'
      BY <3>2, <3>3, <3>4 DEF TypeOK
    <3>6. PublisherInv'
      BY <3>3, <3>4 DEF PublisherInv
    <3> QED
      BY <3>5, <3>6
  <2>4. ASSUME NEW k \in Kinds, Published(k) PROVE TypeOK' /\ PublisherInv'
    BY <2>4 DEF Published, TypeOK, PublisherInv, streams
  <2>5. ASSUME NEW c \in Clients, RunCallback(c) PROVE TypeOK' /\ PublisherInv'
    <3>1. /\ Head(ready[c]) \in Events /\ Tail(ready[c]) \in Seq(Events)
          /\ queue[c] \in Seq(Events) /\ Len(queue[c]) <= MaxQueued
      BY <2>5 DEF RunCallback, TypeOK
    <3>2. Put(queue[c], Head(ready[c])) \in Seq(Events) /\ Len(Put(queue[c], Head(ready[c]))) <= MaxQueued
      BY <3>1, PutTyped
    <3>3. /\ queue' = [queue EXCEPT ![c] = Put(queue[c], Head(ready[c]))] /\ ready' = [ready EXCEPT ![c] = Tail(ready[c])]
          /\ UNCHANGED <<now, holder, todo, subs, phase, shown, since>>
      BY <2>5 DEF RunCallback, publishers, streams
    <3> QED
      BY <3>1, <3>2, <3>3 DEF TypeOK, PublisherInv
  <2>6. ASSUME NEW c \in Clients, Stream(c) PROVE TypeOK' /\ PublisherInv'
    <3>1. /\ Head(queue[c]) \in Events /\ Tail(queue[c]) \in Seq(Events) /\ Len(Tail(queue[c])) <= MaxQueued
      <4>1. queue[c] \in Seq(Events) /\ queue[c] # <<>> /\ Len(queue[c]) <= MaxQueued
        BY <2>6 DEF Stream, TypeOK
      <4>2. Len(Tail(queue[c])) = Len(queue[c]) - 1 /\ Len(queue[c]) \in Nat
        BY <4>1, EmptySeq
      <4> QED
        BY <4>1, <4>2
    <3>2. Head(queue[c]).kind \in Kinds /\ Head(queue[c]).n \in 0..MaxEvents
      BY <3>1 DEF Events
    <3>3. shown' \in [Clients -> [Kinds -> 0..MaxEvents]]
      BY <2>6, <3>2 DEF Stream, TypeOK
    <3>4. queue' = [queue EXCEPT ![c] = Tail(queue[c])] /\ UNCHANGED <<now, holder, todo, subs, ready, phase, since>>
      BY <2>6 DEF Stream, publishers
    <3> QED
      BY <3>1, <3>3, <3>4 DEF TypeOK, PublisherInv
  <2>7. ASSUME NEW c \in Clients, Subscribe(c) \/ Leave(c) \/ Abandon(c) \/ CloseLoop(c) PROVE TypeOK' /\ PublisherInv'
    BY <2>7 DEF Subscribe, Leave, Abandon, CloseLoop, TypeOK, PublisherInv, publishers, Phases
  <2>8. ASSUME NEW c \in Clients, Snapshot(c) PROVE TypeOK' /\ PublisherInv'
    BY <2>8 DEF Snapshot, TypeOK, PublisherInv, publishers, Phases
  <2>9. CASE UNCHANGED vars
    BY <2>9 DEF TypeOK, PublisherInv, vars, publishers, streams
  <2> QED
    BY <2>1, <2>2, <2>3, <2>4, <2>5, <2>6, <2>7, <2>8, <2>9 DEF Next, Publisher
<1> QED
  BY <1>1, <1>2, PTL DEF Spec

-----------------------------------------------------------------------------
(* Order.                                                                  *)

\* Two sequences of which the second has lost its head, if anything.
IsRest(d, e) == e = d \/ (d # <<>> /\ e = Tail(d))

LEMMA RestInOrder ==
  ASSUME NEW d \in Seq(Events), NEW e, IsRest(d, e), InOrder(d), NEW c, OfThePast(d, c)
  PROVE  e \in Seq(Events) /\ InOrder(e) /\ OfThePast(e, c)
<1>1. CASE e = d
  BY <1>1
<1>2. CASE d # <<>> /\ e = Tail(d)
  <2>1. InOrder(e) /\ \A i \in DOMAIN e : i + 1 \in DOMAIN d /\ e[i] = d[i + 1]
    BY <1>2, TailInOrder
  <2>2. OfThePast(e, c)
    BY <2>1 DEF OfThePast
  <2>3. e \in Seq(Events)
    BY <1>2
  <2> QED
    BY <2>1, <2>2, <2>3
<1> QED
  BY <1>1, <1>2 DEF IsRest

QueueInv == TypeOK /\ PublisherInv /\ SubscriberInv /\ OrderInv

\* A step that hands nothing to clients and publishes nothing.
LEMMA ClientsStepInOrder ==
  ASSUME QueueInv, UNCHANGED publishers, \A c \in Clients : IsRest(Due(c), Due(c)')
  PROVE  OrderInv'
<1>1. ASSUME NEW c \in Clients PROVE InOrder(Due(c)') /\ OfThePast(Due(c)', c)
  BY DueTyped, RestInOrder DEF QueueInv, OrderInv
<1>2. \A d, c : OfThePast(d, c)' <=> OfThePast(d', c)
  BY DEF OfThePast, Pending, publishers
<1> QED
  BY <1>1, <1>2 DEF OrderInv, InOrder

LEMMA SendInOrder ==
  ASSUME QueueInv, NEW k \in Kinds, NEW c \in Clients, Send(k, c)
  PROVE  OrderInv' /\ SubscriberInv'
<1> DEFINE e == Event(k, now[k])
<1>0. e \in Events /\ e.kind = k /\ e.n = now[k] /\ now[k] \in Nat
  BY SendAdds DEF QueueInv, Event, TypeOK
<1>1. /\ c \in todo[k] /\ todo' = [todo EXCEPT ![k] = @ \ {c}] /\ holder[k] = "sending"
      /\ UNCHANGED <<now, holder, phase>> /\ phase[c] # "away"
  BY DEF Send, streams, QueueInv, SubscriberInv
<1>2. /\ \A m \in Kinds, b \in Clients : Pending(m, b)' => Pending(m, b)
      /\ ~Pending(k, c)'
  <2>1. \A m \in Kinds, b \in Clients : b \in todo'[m] => b \in todo[m] /\ (m # k \/ b # c)
    <3>1. todo \in [Kinds -> SUBSET Clients]
      BY DEF QueueInv, TypeOK
    <3> QED
      BY <1>1, <3>1
  <2> QED
    BY <1>1, <2>1 DEF Pending
<1>3. ASSUME NEW b \in Clients PROVE Due(b) \in Seq(Events) /\ \A i \in DOMAIN Due(b) : Due(b)[i] \in Events
  <2>1. Due(b) \in Seq(Events)
    BY DueTyped DEF QueueInv
  <2> QED
    BY <2>1
<1>4. ASSUME NEW b \in Clients, Due(b)' = Due(b) PROVE InOrder(Due(b))' /\ OfThePast(Due(b), b)'
  <2>1. InOrder(Due(b)) /\ OfThePast(Due(b), b)
    BY DEF QueueInv, OrderInv
  <2>2. \A i \in DOMAIN Due(b) : Due(b)[i].kind \in Kinds
    BY <1>3 DEF Events
  <2> QED
    BY <1>1, <1>2, <1>4, <2>1, <2>2 DEF InOrder, OfThePast
<1>5. ASSUME Due(c)' = Append(Due(c), e) PROVE OrderInv'
  <2> DEFINE StillPending(m) == holder'[m] = "changed" \/ c \in todo'[m]
  <2>1. InOrder(Due(c)) /\ OfThePast(Due(c), c) /\ Pending(k, c)
    BY <1>1 DEF QueueInv, OrderInv, Pending
  <2>2. InOrder(Append(Due(c), e))
    <3>1. \A i \in DOMAIN Due(c) : Due(c)[i].kind = k => Due(c)[i].n < now[k]
      BY <2>1 DEF OfThePast
    <3> HIDE DEF e
    <3> QED
      BY <1>0, <1>3, <2>1, <3>1, AppendInOrder
  <2>3. ASSUME NEW i \in DOMAIN Append(Due(c), e)
        PROVE  /\ Append(Due(c), e)[i].n <= now[Append(Due(c), e)[i].kind]
               /\ StillPending(Append(Due(c), e)[i].kind) => Append(Due(c), e)[i].n < now[Append(Due(c), e)[i].kind]
    <3>0. /\ \A m \in Kinds : StillPending(m) => Pending(m, c)
          /\ ~StillPending(k)
      BY <1>2 DEF Pending
    <3> HIDE DEF e, StillPending
    <3>1. CASE i \in DOMAIN Due(c)
      <4>1. Append(Due(c), e)[i] = Due(c)[i] /\ Due(c)[i].kind \in Kinds
        BY <1>0, <1>3, <3>1 DEF Events
      <4>2. /\ Due(c)[i].n <= now[Due(c)[i].kind]
            /\ Pending(Due(c)[i].kind, c) => Due(c)[i].n < now[Due(c)[i].kind]
        BY <2>1, <3>1 DEF OfThePast
      <4> QED
        BY <3>0, <4>1, <4>2
    <3>2. CASE i = Len(Due(c)) + 1
      <4>1. Append(Due(c), e)[i] = e
        BY <1>0, <1>3, <3>2
      <4>2. now[k] <= now[k]
        BY <1>0
      <4> QED
        BY <1>0, <3>0, <4>1, <4>2
    <3>3. i \in DOMAIN Due(c) \/ i = Len(Due(c)) + 1
      BY <1>0, <1>3
    <3> QED
      BY <3>1, <3>2, <3>3
  <2>4. InOrder(Due(c))'
    <3> HIDE DEF e
    <3> QED
      BY <1>5, <2>2 DEF InOrder
  <2>5. OfThePast(Due(c), c)'
    <3> HIDE DEF e
    <3> QED
      BY <1>1, <1>5, <2>3 DEF OfThePast, Pending
  <2> QED
    BY <1>4, <2>4, <2>5, SendAdds DEF OrderInv, QueueInv
<1>6. OrderInv'
  BY <1>4, <1>5, SendAdds DEF OrderInv, QueueInv
<1>7. SubscriberInv'
  <2>1. subs' = subs \/ (phase[c] = "closed" /\ subs' = subs \ {c})
    BY DEF Send
  <2>2. \A b \in Clients \ {c} : Due(b)' = Due(b)
    BY SendAdds DEF QueueInv
  <2>3. \A m \in Kinds, b \in Clients : b \in todo'[m] => b \in todo[m]
    BY <1>1 DEF QueueInv, TypeOK
  <2> QED
    BY <1>1, <2>1, <2>2, <2>3 DEF SubscriberInv, QueueInv
<1> QED
  BY <1>6, <1>7

\* A change or a publication makes what was handed out the past.
LEMMA PublisherStepInOrder ==
  ASSUME QueueInv, NEW k \in Kinds, Change(k) \/ Publish(k) \/ Published(k)
  PROVE  OrderInv' /\ SubscriberInv'
<1>1. UNCHANGED <<ready, queue, subs, phase>> /\ \A c \in Clients : Due(c)' = Due(c)
  BY DEF Change, Publish, Published, streams, Due
<1>2. /\ now \in [Kinds -> Nat] /\ holder \in [Kinds -> {"free", "changed", "sending"}] /\ todo \in [Kinds -> SUBSET Clients]
  BY BusAssumption DEF QueueInv, TypeOK
<1>3. SubscriberInv'
  <2>1. todo' = todo \/ todo' = [todo EXCEPT ![k] = subs]
    BY DEF Change, Publish, Published
  <2>2. \A m \in Kinds, c \in Clients : c \in todo'[m] => c \in todo[m] \/ c \in subs
    BY <1>2, <2>1
  <2> QED
    BY <1>1, <2>2 DEF SubscriberInv, QueueInv
<1>4. ASSUME NEW m \in Kinds, NEW c \in Clients, NEW n \in Nat, n <= now[m], Pending(m, c) => n < now[m]
      PROVE  n <= now'[m] /\ (Pending(m, c)' => n < now'[m])
  <2>1. CASE Change(k)
    BY <1>2, <1>4, <2>1 DEF Change, Pending
  <2>2. CASE Publish(k)
    BY <1>2, <1>4, <2>2 DEF Publish, Pending
  <2>3. CASE Published(k)
    BY <1>2, <1>4, <2>3 DEF Published, Pending
  <2> QED
    BY <2>1, <2>2, <2>3
<1>5. ASSUME NEW c \in Clients PROVE InOrder(Due(c))' /\ OfThePast(Due(c), c)'
  <2>1. InOrder(Due(c)) /\ OfThePast(Due(c), c) /\ Due(c) \in Seq(Events) /\ Due(c)' = Due(c)
    BY <1>1, DueTyped DEF QueueInv, OrderInv
  <2>2. \A i \in DOMAIN Due(c) : Due(c)[i].kind \in Kinds /\ Due(c)[i].n \in Nat
    <3>1. Due(c) \in Seq(Events)
      BY <2>1
    <3>2. \A i \in DOMAIN Due(c) : Due(c)[i] \in Events
      BY <3>1
    <3> QED
      BY <3>2, BusAssumption DEF Events
  <2>3. ASSUME NEW i \in DOMAIN Due(c), NEW m, m = Due(c)[i].kind, NEW n, n = Due(c)[i].n
        PROVE  n <= now'[m] /\ (Pending(m, c)' => n < now'[m])
    BY <1>4, <2>1, <2>2, <2>3 DEF OfThePast
  <2>4. OfThePast(Due(c), c)'
    BY <2>1, <2>3 DEF OfThePast, Pending
  <2> QED
    BY <2>1, <2>4 DEF InOrder
<1> QED
  BY <1>3, <1>5 DEF OrderInv

\* Who is served, and in which order, in every reachable state.
LEMMA QueuesAreSound == Spec => []QueueInv
<1>1. Init => SubscriberInv /\ OrderInv
  <2> SUFFICES ASSUME Init PROVE SubscriberInv /\ OrderInv
    OBVIOUS
  <2>1. \A c \in Clients : Due(c) = <<>>
    BY DEF Init, Due
  <2> QED
    BY <2>1 DEF Init, SubscriberInv, OrderInv, InOrder, OfThePast
<1>2. QueueInv /\ [Next]_vars => SubscriberInv' /\ OrderInv'
  <2> SUFFICES ASSUME QueueInv, [Next]_vars PROVE SubscriberInv' /\ OrderInv'
    OBVIOUS
  <2>1. ASSUME NEW k \in Kinds, Change(k) \/ Publish(k) \/ Published(k) PROVE SubscriberInv' /\ OrderInv'
    BY <2>1, PublisherStepInOrder
  <2>2. ASSUME NEW k \in Kinds, NEW c \in Clients, Send(k, c) PROVE SubscriberInv' /\ OrderInv'
    BY <2>2, SendInOrder
  <2>3. ASSUME NEW c \in Clients, RunCallback(c) PROVE SubscriberInv' /\ OrderInv'
    <3>1. \A b \in Clients : IsRest(Due(b), Due(b)') /\ (Due(b) = <<>> => Due(b)' = <<>>)
      BY <2>3, CallbackMoves DEF IsRest, QueueInv
    <3>2. OrderInv'
      BY <2>3, <3>1, ClientsStepInOrder DEF RunCallback
    <3>3. SubscriberInv'
      BY <2>3, <3>1 DEF RunCallback, publishers, streams, SubscriberInv, QueueInv
    <3> QED
      BY <3>2, <3>3
  <2>4. ASSUME NEW c \in Clients, Stream(c) PROVE SubscriberInv' /\ OrderInv'
    <3>1. \A b \in Clients : IsRest(Due(b), Due(b)') /\ (Due(b) = <<>> => Due(b)' = <<>>)
      BY <2>4, StreamTakes DEF IsRest, QueueInv
    <3>2. OrderInv'
      BY <2>4, <3>1, ClientsStepInOrder DEF Stream
    <3>3. SubscriberInv'
      BY <2>4, <3>1 DEF Stream, publishers, SubscriberInv, QueueInv
    <3> QED
      BY <3>2, <3>3
  <2>5. ASSUME NEW c \in Clients, Subscribe(c) \/ Snapshot(c) \/ Leave(c) \/ Abandon(c) \/ CloseLoop(c)
        PROVE  SubscriberInv' /\ OrderInv'
    <3>1. UNCHANGED <<publishers, ready, queue>> /\ \A b \in Clients : Due(b)' = Due(b)
      BY <2>5 DEF Subscribe, Snapshot, Leave, Abandon, CloseLoop, Due
    <3>2. OrderInv'
      BY <3>1, ClientsStepInOrder DEF IsRest
    <3>3. phase \in [Clients -> Phases]
      BY DEF QueueInv, TypeOK
    <3>4. SubscriberInv'
      <4>1. todo' = todo
        BY <3>1 DEF publishers
      <4> QED
        BY <2>5, <3>1, <3>3, <4>1 DEF Subscribe, Snapshot, Leave, Abandon, CloseLoop, SubscriberInv, QueueInv, Phases
    <3> QED
      BY <3>2, <3>4
  <2>6. CASE UNCHANGED vars
    <3>1. UNCHANGED publishers /\ \A b \in Clients : Due(b)' = Due(b)
      BY <2>6 DEF vars, Due
    <3>2. OrderInv'
      BY <3>1, ClientsStepInOrder DEF IsRest
    <3> QED
      BY <2>6, <3>1, <3>2 DEF vars, publishers, streams, SubscriberInv, QueueInv
  <2> QED
    BY <2>1, <2>2, <2>3, <2>4, <2>5, <2>6 DEF Next, Publisher
<1> QED
  BY <1>1, <1>2, TypeCorrect, PTL DEF Spec, QueueInv

\* QueueIsInOrder (events.py, publish and _put_drop_oldest): whatever is
\* dropped, what waits for a client waits in the order of its making.
THEOREM QueuesAreInOrder == Spec => []QueueIsInOrder
<1>1. QueueInv => QueueIsInOrder
  BY DEF QueueInv, OrderInv, InOrder, Due, QueueIsInOrder
<1> QED
  BY <1>1, QueuesAreSound, PTL

-----------------------------------------------------------------------------
(* The newest state.                                                       *)

\* The newest state waits in d, and no more events were handed out after it
\* than since tells.
Waits(d, c) ==
  \E i \in DOMAIN d : d[i] = Event("state", now["state"]) /\ Len(d) - i <= since[c]["state"]

\* No state waits in d.
NoneWaits(d) == \A i \in DOMAIN d : d[i].kind # "state"

\* A client that is not about to be handed the newest state has it waiting,
\* has missed it to a whole queue, or knows it, or will by its snapshot.
NewestInv ==
  \A c \in Clients :
    phase[c] \in {"subscribed", "streaming"} /\ ~Pending("state", c)
      => \/ since[c]["state"] >= MaxQueued
         \/ Waits(Due(c), c)
         \/ NoneWaits(Due(c)) /\ (phase[c] = "streaming" => shown[c]["state"] = now["state"])

\* Without its head, d has the newest state or has lost it.
LEMMA TailWaits ==
  ASSUME NEW d \in Seq(Events), d # <<>>, NEW c
  PROVE  /\ NoneWaits(d) => NoneWaits(Tail(d))
         /\ Waits(d, c) => \/ Waits(Tail(d), c)
                           \/ d[1] = Event("state", now["state"]) /\ Len(d) - 1 <= since[c]["state"]
<1>1. Tail(d) \in Seq(Events) /\ Len(Tail(d)) = Len(d) - 1 /\ Len(d) \in Nat \ {0}
  BY EmptySeq
<1>2. \A i \in 1..Len(Tail(d)) : i + 1 \in 1..Len(d) /\ Tail(d)[i] = d[i + 1]
  BY <1>1
<1>3. DOMAIN d = 1..Len(d) /\ DOMAIN Tail(d) = 1..Len(Tail(d))
  BY <1>1
<1>4. NoneWaits(d) => NoneWaits(Tail(d))
  BY <1>2, <1>3 DEF NoneWaits
<1>5. ASSUME NEW i \in 1..Len(d), i # 1, d[i] = Event("state", now["state"]), Len(d) - i <= since[c]["state"]
      PROVE  Waits(Tail(d), c)
  <2>1. i - 1 \in 1..Len(Tail(d)) /\ Len(Tail(d)) - (i - 1) = Len(d) - i /\ (i - 1) + 1 = i
    BY <1>1, <1>5
  <2>2. Tail(d)[i - 1] = d[i]
    BY <1>2, <2>1
  <2> QED
    BY <1>3, <1>5, <2>1, <2>2 DEF Waits
<1>6. ASSUME Waits(d, c)
      PROVE  Waits(Tail(d), c) \/ (d[1] = Event("state", now["state"]) /\ Len(d) - 1 <= since[c]["state"])
  <2>1. PICK i \in 1..Len(d) : d[i] = Event("state", now["state"]) /\ Len(d) - i <= since[c]["state"]
    BY <1>3, <1>6 DEF Waits
  <2>2. CASE i = 1
    BY <2>1, <2>2
  <2>3. CASE i # 1
    BY <1>5, <2>1, <2>3
  <2> QED
    BY <2>2, <2>3
<1> QED
  BY <1>4, <1>6, Zenon

\* NewestStateIsShown (routes/core.py:77, events.py): a client that has
\* received all there is for it knows the newest state, unless a whole queue
\* of other events came after it.
THEOREM NewestStatesAreShown == Spec => []NewestStateIsShown
<1> DEFINE Knows(c) ==
      phase[c] \in {"subscribed", "streaming"} /\ ~Pending("state", c)
        => \/ since[c]["state"] >= MaxQueued
           \/ Waits(Due(c), c)
           \/ NoneWaits(Due(c)) /\ (phase[c] = "streaming" => shown[c]["state"] = now["state"])
<1>1. Init => NewestInv
  BY DEF Init, NewestInv
<1>2. QueueInv /\ QueueInv' /\ NewestInv /\ [Next]_vars => NewestInv'
  <2> SUFFICES ASSUME QueueInv, QueueInv', NewestInv, [Next]_vars, NEW c \in Clients
               PROVE  Knows(c)'
    BY DEF NewestInv
  <2> USE BusAssumption
  <2>0. /\ Due(c) \in Seq(Events) /\ MaxQueued \in Nat /\ Knows(c)
        /\ since[c]["state"] \in Nat /\ now \in [Kinds -> 0..MaxEvents] /\ since \in [Clients -> [Kinds -> Nat]]
        /\ todo \in [Kinds -> SUBSET Clients] /\ holder \in [Kinds -> {"free", "changed", "sending"}]
        /\ phase \in [Clients -> Phases] /\ shown \in [Clients -> [Kinds -> 0..MaxEvents]]
    BY DueTyped DEF QueueInv, TypeOK, NewestInv
  <2> HIDE DEF Knows
  <2>1. ASSUME NEW k \in Kinds, Change(k) PROVE Knows(c)'
    <3>1. Due(c)' = Due(c) /\ UNCHANGED <<since, phase, shown, todo>>
      BY <2>1 DEF Change, streams, Due
    <3>2. CASE k = "state"
      BY <2>0, <2>1, <3>2 DEF Change, Knows, Pending
    <3>3. CASE k # "state"
      <4>1. now'["state"] = now["state"] /\ holder'["state"] = holder["state"]
        BY <2>0, <2>1, <3>3 DEF Change
      <4> QED
        BY <2>0, <3>1, <4>1 DEF Knows, Pending, Waits, NoneWaits
    <3> QED
      BY <3>2, <3>3
  <2>2. ASSUME NEW k \in Kinds, Publish(k) PROVE Knows(c)'
    <3>1. Due(c)' = Due(c) /\ UNCHANGED <<now, since, phase, shown>>
      BY <2>2 DEF Publish, streams, Due
    <3>2. CASE k = "state"
      <4>1. phase[c] \in {"subscribed", "streaming"} => Pending("state", c)'
        BY <2>0, <2>2, <3>2 DEF Publish, Pending, QueueInv, SubscriberInv
      <4> QED
        BY <3>1, <4>1 DEF Knows
    <3>3. CASE k # "state"
      <4>1. Pending("state", c)' <=> Pending("state", c)
        BY <2>0, <2>2, <3>3 DEF Publish, Pending
      <4> QED
        BY <2>0, <3>1, <4>1 DEF Knows, Waits, NoneWaits
    <3> QED
      BY <3>2, <3>3
  <2>3. ASSUME NEW k \in Kinds, NEW b \in Clients, Send(k, b) PROVE Knows(c)'
    <3>0. UNCHANGED <<now, holder, phase, shown>> /\ todo' = [todo EXCEPT ![k] = @ \ {b}] /\ holder[k] = "sending" /\ b \in todo[k]
      BY <2>3 DEF Send, streams
    <3>1. CASE b # c \/ phase[c] = "closed"
      <4>1. Due(c)' = Due(c)
        BY <2>3, <3>1, SendAdds DEF QueueInv
      <4>2. b # c => since'[c] = since[c]
        BY <2>0, <2>3 DEF Send
      <4>3. b # c => (Pending("state", c)' <=> Pending("state", c))
        BY <2>0, <3>0 DEF Pending
      <4>4. CASE b # c
        BY <2>0, <3>0, <4>1, <4>2, <4>3, <4>4 DEF Knows, Waits, NoneWaits
      <4>5. CASE phase[c] = "closed"
        BY <3>0, <4>5 DEF Knows
      <4> QED
        BY <3>1, <4>4, <4>5
    <3>2. CASE b = c /\ phase[c] # "closed"
      <4> DEFINE e == Event(k, now[k])
                 d == Due(c)
      <4>1. /\ e \in Events /\ Due(c)' = Append(d, e) /\ e.kind = k
            /\ since' = [since EXCEPT ![c] = [m \in Kinds |-> IF m = k THEN 0 ELSE since[c][m] + 1]]
        BY <2>3, <3>2, SendAdds DEF QueueInv, Event
      <4>2. d \in Seq(Events) /\ Len(d) \in Nat
        BY <2>0
      <4>3. /\ Len(Append(d, e)) = Len(d) + 1 /\ Append(d, e)[Len(d) + 1] = e /\ DOMAIN Append(d, e) = 1..Len(d) + 1
            /\ \A i \in DOMAIN d : i \in 1..Len(d) /\ Append(d, e)[i] = d[i] /\ i \in DOMAIN Append(d, e)
        <5> HIDE DEF e, d
        <5> QED
          BY <4>1, <4>2
      <4>4. CASE k = "state"
        <5>1. since'[c]["state"] = 0
          BY <2>0, <4>1, <4>4
        <5>2. Len(d) + 1 \in DOMAIN Append(d, e) /\ Len(Append(d, e)) - (Len(d) + 1) = 0
          BY <4>2, <4>3
        <5>3. e = Event("state", now'["state"])
          BY <3>0, <4>4
        <5>4. Waits(Due(c), c)'
          <6> HIDE DEF e, d
          <6> QED
            BY <4>1, <4>3, <5>1, <5>2, <5>3 DEF Waits
        <5> QED
          BY <5>4 DEF Knows
      <4>5. CASE k # "state"
        <5>1. since'[c]["state"] = since[c]["state"] + 1
          BY <2>0, <4>1, <4>5
        <5>2. Pending("state", c)' <=> Pending("state", c)
          BY <2>0, <3>0, <4>5 DEF Pending
        <5>3. Waits(d, c) => Waits(Due(c), c)'
          <6>1. SUFFICES ASSUME Waits(d, c) PROVE Waits(Due(c), c)'
            OBVIOUS
          <6>2. PICK i \in DOMAIN d : d[i] = Event("state", now["state"]) /\ Len(d) - i <= since[c]["state"]
            BY <6>1 DEF Waits
          <6>3. /\ i \in DOMAIN Append(d, e) /\ Append(d, e)[i] = Event("state", now'["state"])
                /\ Len(Append(d, e)) - i <= since'[c]["state"]
            <7>1. i \in 1..Len(d) /\ now' = now /\ since[c]["state"] \in Nat
              BY <2>0, <3>0, <4>3, <6>2
            <7> HIDE DEF e, d
            <7>2. i \in DOMAIN Append(d, e) /\ Append(d, e)[i] = d[i]
              BY <4>3, <6>2
            <7>3. Len(Append(d, e)) - i <= since'[c]["state"]
              BY <4>2, <4>3, <5>1, <6>2, <7>1
            <7> QED
              BY <6>2, <7>1, <7>2, <7>3
          <6> HIDE DEF e, d
          <6> QED
            BY <4>1, <6>3 DEF Waits
        <5>4. NoneWaits(d) => NoneWaits(Due(c))'
          <6> HIDE DEF e, d
          <6>1. \A i \in DOMAIN Append(d, e) : i \in DOMAIN d \/ i = Len(d) + 1
            BY <4>2, <4>3
          <6> QED
            BY <4>1, <4>3, <4>5, <6>1 DEF NoneWaits
        <5>5. since[c]["state"] >= MaxQueued => since'[c]["state"] >= MaxQueued
          BY <2>0, <5>1
        <5> QED
          BY <2>0, <3>0, <5>2, <5>3, <5>4, <5>5 DEF Knows
      <4> QED
        BY <4>4, <4>5
    <3> QED
      BY <3>1, <3>2
  <2>4. ASSUME NEW k \in Kinds, Published(k) PROVE Knows(c)'
    <3>1. Due(c)' = Due(c) /\ UNCHANGED <<now, since, phase, shown, todo>>
      BY <2>4 DEF Published, streams, Due
    <3>2. Pending("state", c)' <=> Pending("state", c)
      BY <2>0, <2>4 DEF Published, Pending
    <3> QED
      BY <2>0, <3>1, <3>2 DEF Knows, Waits, NoneWaits
  <2>5. ASSUME NEW b \in Clients, RunCallback(b) PROVE Knows(c)'
    <3>0. UNCHANGED <<now, holder, todo, since, phase, shown>>
      BY <2>5 DEF RunCallback, publishers, streams
    <3>1. CASE Due(c)' = Due(c)
      BY <2>0, <3>0, <3>1 DEF Knows, Pending, Waits, NoneWaits
    <3>2. CASE b = c /\ Due(c) # <<>> /\ Len(Due(c)) > MaxQueued /\ Due(c)' = Tail(Due(c))
      <4>1. /\ NoneWaits(Due(c)) => NoneWaits(Tail(Due(c)))
            /\ Waits(Due(c), c) => Waits(Tail(Due(c)), c) \/ Len(Due(c)) - 1 <= since[c]["state"]
        BY <2>0, <3>2, TailWaits
      <4>2. Len(Due(c)) - 1 <= since[c]["state"] => since[c]["state"] >= MaxQueued
        BY <2>0, <3>2
      <4>3. /\ NoneWaits(Due(c))' <=> NoneWaits(Tail(Due(c)))
            /\ Waits(Due(c), c)' <=> Waits(Tail(Due(c)), c)
        BY <3>0, <3>2 DEF NoneWaits, Waits
      <4> QED
        BY <2>0, <3>0, <4>1, <4>2, <4>3 DEF Knows, Pending
    <3> QED
      BY <2>5, <3>1, <3>2, CallbackMoves DEF QueueInv
  <2>6. ASSUME NEW b \in Clients, Stream(b) PROVE Knows(c)'
    <3>0. UNCHANGED <<now, holder, todo, since, phase>>
      BY <2>6 DEF Stream, publishers
    <3>1. CASE b # c
      <4>1. Due(c)' = Due(c) /\ shown'[c] = shown[c]
        BY <2>0, <2>6, <3>1, StreamTakes DEF QueueInv, Stream
      <4> QED
        BY <2>0, <3>0, <4>1 DEF Knows, Pending, Waits, NoneWaits
    <3>2. CASE b = c
      <4> DEFINE d == Due(c)
      <4>1. d # <<>> /\ Due(c)' = Tail(d) /\ Head(queue[c]) = d[1] /\ d[1] \in Events
        BY <2>6, <3>2, StreamTakes DEF QueueInv
      <4>2. shown'[c]["state"] = IF d[1].kind = "state" THEN d[1].n ELSE shown[c]["state"]
        BY <2>0, <2>6, <3>2, <4>1 DEF Stream, Events
      <4>3. /\ NoneWaits(d) => NoneWaits(Tail(d))
            /\ Waits(d, c) => Waits(Tail(d), c) \/ d[1] = Event("state", now["state"])
        BY <2>0, <4>1, TailWaits
      <4>4. /\ NoneWaits(Due(c))' <=> NoneWaits(Tail(d))
            /\ Waits(Due(c), c)' <=> Waits(Tail(d), c)
        BY <3>0, <4>1 DEF NoneWaits, Waits
      <4>5. d[1] = Event("state", now["state"]) => NoneWaits(Tail(d)) /\ shown'[c]["state"] = now["state"]
        <5> SUFFICES ASSUME d[1] = Event("state", now["state"])
                     PROVE  NoneWaits(Tail(d)) /\ shown'[c]["state"] = now["state"]
          OBVIOUS
        <5>1. d[1].kind = "state" /\ d[1].n = now["state"] /\ now["state"] \in Nat
          BY <2>0 DEF Event
        <5>2. InOrder(d) /\ OfThePast(d, c)
          BY DEF QueueInv, OrderInv
        <5>3. Len(Tail(d)) = Len(d) - 1 /\ Len(d) \in Nat \ {0} /\ \A i \in 1..Len(Tail(d)) : Tail(d)[i] = d[i + 1]
          BY <2>0, <4>1, EmptySeq
        <5>4. ASSUME NEW i \in 1..Len(Tail(d)), Tail(d)[i].kind = "state" PROVE FALSE
          <6>1. /\ i + 1 \in DOMAIN d /\ 1 \in DOMAIN d /\ 1 < i + 1 /\ d[i + 1].kind = "state"
            BY <2>0, <5>3, <5>4
          <6>2. d[1].n < d[i + 1].n /\ d[i + 1].n <= now["state"] /\ d[i + 1] \in Events
            BY <2>0, <5>1, <5>2, <6>1 DEF InOrder, OfThePast
          <6> QED
            BY <5>1, <6>2 DEF Events
        <5>5. NoneWaits(Tail(d))
          BY <2>0, <4>1, <5>4 DEF NoneWaits
        <5> QED
          BY <4>2, <5>1, <5>5
      <4>6. NoneWaits(d) => d[1].kind # "state"
        BY <2>0, <4>1, EmptySeq DEF NoneWaits
      <4> HIDE DEF d
      <4>7. Knows(c) => \/ ~(phase[c] \in {"subscribed", "streaming"}) \/ Pending("state", c)
                        \/ since[c]["state"] >= MaxQueued \/ Waits(d, c)
                        \/ NoneWaits(d) /\ (phase[c] = "streaming" => shown[c]["state"] = now["state"])
        BY Zenon DEF Knows, d
      <4> QED
        BY <2>0, <3>0, <4>2, <4>3, <4>4, <4>5, <4>6, <4>7 DEF Knows, Pending
    <3> QED
      BY <3>1, <3>2
  <2>7. ASSUME NEW b \in Clients, Subscribe(b) PROVE Knows(c)'
    <3>0. UNCHANGED <<now, holder, todo, since, shown>> /\ Due(c)' = Due(c) /\ phase' = [phase EXCEPT ![b] = "subscribed"] /\ phase[b] = "away"
      BY <2>7 DEF Subscribe, publishers, Due
    <3>1. CASE b = c
      <4>1. Due(c)' = <<>> /\ phase'[c] = "subscribed"
        BY <2>0, <3>0, <3>1 DEF QueueInv, SubscriberInv
      <4> QED
        BY <4>1 DEF Knows, NoneWaits
    <3>2. CASE b # c
      BY <2>0, <3>0, <3>2 DEF Knows, Pending, Waits, NoneWaits
    <3> QED
      BY <3>1, <3>2
  <2>8. ASSUME NEW b \in Clients, Snapshot(b) PROVE Knows(c)'
    <3>0. /\ UNCHANGED <<now, holder, todo, since>> /\ Due(c)' = Due(c) /\ phase' = [phase EXCEPT ![b] = "streaming"]
          /\ phase[b] = "subscribed" /\ shown' = [shown EXCEPT ![b]["state"] = now["state"]]
      BY <2>8 DEF Snapshot, publishers, Due
    <3>1. CASE b = c
      <4>1. phase'[c] = "streaming" /\ shown'[c]["state"] = now["state"] /\ phase[c] = "subscribed"
        BY <2>0, <3>0, <3>1
      <4> QED
        BY <2>0, <3>0, <4>1 DEF Knows, Pending, Waits, NoneWaits
    <3>2. CASE b # c
      <4>1. phase'[c] = phase[c] /\ shown'[c] = shown[c]
        BY <2>0, <3>0, <3>2
      <4> QED
        BY <2>0, <3>0, <4>1 DEF Knows, Pending, Waits, NoneWaits
    <3> QED
      BY <3>1, <3>2
  <2>9. ASSUME NEW b \in Clients, Leave(b) \/ Abandon(b) \/ CloseLoop(b) PROVE Knows(c)'
    <3>0. /\ UNCHANGED <<now, holder, todo, since, shown>> /\ Due(c)' = Due(c)
          /\ phase'[c] = phase[c] \/ phase'[c] \in {"left", "closed"}
      BY <2>0, <2>9 DEF Leave, Abandon, CloseLoop, publishers, Due
    <3> QED
      BY <2>0, <3>0 DEF Knows, Pending, Waits, NoneWaits
  <2>10. CASE UNCHANGED vars
    <3>1. UNCHANGED <<now, holder, todo, since, shown, phase>> /\ Due(c)' = Due(c)
      BY <2>10 DEF vars, publishers, streams, Due
    <3> QED
      BY <2>0, <3>1 DEF Knows, Pending, Waits, NoneWaits
  <2> QED
    BY <2>1, <2>2, <2>3, <2>4, <2>5, <2>6, <2>7, <2>8, <2>9, <2>10 DEF Next, Publisher
<1>3. QueueInv /\ NewestInv => NewestStateIsShown
  <2> SUFFICES ASSUME QueueInv, NewestInv, NEW c \in Clients,
                      phase[c] = "streaming", holder["state"] = "free", ready[c] = <<>>, queue[c] = <<>>,
                      since[c]["state"] < MaxQueued
               PROVE  shown[c]["state"] = now["state"]
    BY DEF NewestStateIsShown
  <2>1. ~Pending("state", c)
    BY BusAssumption DEF Pending, QueueInv, PublisherInv
  <2>2. Due(c) = <<>> /\ DOMAIN Due(c) = {}
    BY DEF Due
  <2>3. ~(since[c]["state"] >= MaxQueued)
    BY BusAssumption DEF QueueInv, TypeOK
  <2> QED
    BY <2>1, <2>2, <2>3 DEF NewestInv, Waits
<1> QED
  BY <1>1, <1>2, <1>3, QueuesAreSound, PTL DEF Spec

=============================================================================
