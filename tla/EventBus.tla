------------------------------ MODULE EventBus ------------------------------
(***************************************************************************)
(* Events on their way from the session to the browsers                    *)
(* (netstead/workbench/events.py and the /api/events route of              *)
(* routes/core.py): publishers on any thread, one callback per event and   *)
(* subscriber on the event loop, a bounded queue per subscriber that drops *)
(* its oldest event, and the stream that empties the queue.                *)
(*                                                                         *)
(* An event of a kind says the newest fact of that kind: the session's     *)
(* state, or a job's. Events of one kind are published under one lock (the *)
(* session's, the runner's emit lock), so a kind is one publisher. Events  *)
(* of all kinds share a client's queue.                                    *)
(***************************************************************************)
EXTENDS Naturals, Sequences, SequencesExt

CONSTANTS
  Kinds,      \* the kinds of events; "state" is one of them
  Clients,    \* browser tabs, each of which opens the stream once
  MaxQueued,  \* MAX_QUEUED_EVENTS
  MaxEvents   \* bound: events of each kind

ASSUME BusAssumption == "state" \in Kinds /\ MaxQueued \in Nat \ {0} /\ MaxEvents \in Nat

VARIABLES
  now,      \* the newest fact of each kind
  holder,   \* how far the publisher of each kind is: "free" when its lock is
  todo,     \* the subscribers the publisher still has to serve
  subs,     \* EventBus._subs
  ready,    \* the callbacks the loop has been handed for each subscriber
  queue,    \* each subscriber's asyncio.Queue
  phase,    \* where each client's request stands
  shown,    \* the fact of each kind the client knows last
  since     \* history: events handed to a client after the newest of a kind

publishers == <<now, holder, todo>>
streams    == <<phase, shown>>
vars       == <<publishers, subs, ready, queue, streams, since>>

Phases == {"away", "subscribed", "streaming", "closed", "left"}

Event(k, n) == [kind |-> k, n |-> n]

Init ==
  /\ now = [k \in Kinds |-> 0]
  /\ holder = [k \in Kinds |-> "free"]
  /\ todo = [k \in Kinds |-> {}]
  /\ subs = {}
  /\ ready = [c \in Clients |-> <<>>]
  /\ queue = [c \in Clients |-> <<>>]
  /\ phase = [c \in Clients |-> "away"]
  /\ shown = [c \in Clients |-> [k \in Kinds |-> 0]]
  /\ since = [c \in Clients |-> [k \in Kinds |-> 0]]

-----------------------------------------------------------------------------
(* Publishers. What changes, changes under the lock that is held until the *)
(* event has been handed out.                                              *)

Change(k) ==
  /\ holder[k] = "free" /\ now[k] < MaxEvents
  /\ now' = [now EXCEPT ![k] = @ + 1]
  /\ holder' = [holder EXCEPT ![k] = "changed"]
  /\ UNCHANGED <<todo, subs, ready, queue, streams, since>>

\* publish copies the list of subscribers under the bus's lock.
Publish(k) ==
  /\ holder[k] = "changed"
  /\ holder' = [holder EXCEPT ![k] = "sending"]
  /\ todo' = [todo EXCEPT ![k] = subs]
  /\ UNCHANGED <<now, subs, ready, queue, streams, since>>

\* call_soon_threadsafe; a loop that is closed raises and is unsubscribed.
Send(k, c) ==
  /\ holder[k] = "sending" /\ c \in todo[k]
  /\ todo' = [todo EXCEPT ![k] = @ \ {c}]
  /\ IF phase[c] = "closed"
     THEN subs' = subs \ {c} /\ UNCHANGED <<ready, since>>
     ELSE /\ ready' = [ready EXCEPT ![c] = Append(@, Event(k, now[k]))]
          /\ since' = [since EXCEPT ![c] = [m \in Kinds |-> IF m = k THEN 0 ELSE @[m] + 1]]
          /\ UNCHANGED subs
  /\ UNCHANGED <<now, holder, queue, streams>>

Published(k) ==
  /\ holder[k] = "sending" /\ todo[k] = {}
  /\ holder' = [holder EXCEPT ![k] = "free"]
  /\ UNCHANGED <<now, todo, subs, ready, queue, streams, since>>

-----------------------------------------------------------------------------
(* The event loop: callbacks in the order they were handed over.           *)

\* Plausible bug: an event that finds the queue full is dropped itself.
PutDropNewest(q, event) == IF Len(q) = MaxQueued THEN q ELSE Append(q, event)

\* Plausible bug: the newest event goes to the head of the queue.
PutFirst(q, event) == <<event>> \o (IF Len(q) = MaxQueued THEN Tail(q) ELSE q)

\* _put_drop_oldest
Put(q, event) == Append(IF Len(q) = MaxQueued THEN Tail(q) ELSE q, event)

RunCallback(c) ==
  /\ ready[c] # <<>> /\ phase[c] # "closed"
  /\ queue' = [queue EXCEPT ![c] = Put(@, Head(ready[c]))]
  /\ ready' = [ready EXCEPT ![c] = Tail(@)]
  /\ UNCHANGED <<publishers, subs, streams, since>>

-----------------------------------------------------------------------------
(* The request: subscribe, then a snapshot of the state, then the queue.   *)

\* Called by the route before the stream starts.
Subscribe(c) ==
  /\ phase[c] = "away"
  /\ phase' = [phase EXCEPT ![c] = "subscribed"]
  /\ subs' = subs \cup {c}
  /\ UNCHANGED <<publishers, ready, queue, shown, since>>

\* Session.state, which waits for the session's lock; it is sent first.
Snapshot(c) ==
  /\ phase[c] = "subscribed" /\ holder["state"] = "free"
  /\ phase' = [phase EXCEPT ![c] = "streaming"]
  /\ shown' = [shown EXCEPT ![c]["state"] = now["state"]]
  /\ UNCHANGED <<publishers, subs, ready, queue, since>>

\* queue.get, then the event is sent.
Stream(c) ==
  /\ phase[c] = "streaming" /\ queue[c] # <<>>
  /\ shown' = [shown EXCEPT ![c][Head(queue[c]).kind] = Head(queue[c]).n]
  /\ queue' = [queue EXCEPT ![c] = Tail(@)]
  /\ UNCHANGED <<publishers, subs, ready, phase, since>>

\* The client disconnects, or max_events is reached: unsubscribe.
Leave(c) ==
  /\ phase[c] \in {"subscribed", "streaming"}
  /\ phase' = [phase EXCEPT ![c] = "left"]
  /\ subs' = subs \ {c}
  /\ UNCHANGED <<publishers, ready, queue, shown, since>>

\* The client disconnects before the stream's generator has started, so its
\* finally never runs and the queue stays subscribed.
Abandon(c) ==
  /\ phase[c] = "subscribed"
  /\ phase' = [phase EXCEPT ![c] = "left"]
  /\ UNCHANGED <<publishers, subs, ready, queue, shown, since>>

\* The loop that serves the client is closed with the stream open.
CloseLoop(c) ==
  /\ phase[c] \in {"subscribed", "streaming"}
  /\ phase' = [phase EXCEPT ![c] = "closed"]
  /\ UNCHANGED <<publishers, subs, ready, queue, shown, since>>

-----------------------------------------------------------------------------

Publisher(k) == Publish(k) \/ Published(k) \/ \E c \in Clients : Send(k, c)

Next ==
  \/ \E k \in Kinds : Change(k) \/ Publisher(k)
  \/ \E c \in Clients : \/ RunCallback(c) \/ Subscribe(c) \/ Snapshot(c) \/ Stream(c)
                        \/ Leave(c) \/ Abandon(c) \/ CloseLoop(c)

\* Whoever holds a lock goes on, the loop runs its callbacks, and a stream
\* that has something to send sends it. Nobody must publish, come or leave.
Fairness ==
  /\ \A k \in Kinds : WF_vars(Publisher(k))
  /\ \A c \in Clients : WF_vars(RunCallback(c)) /\ WF_vars(Stream(c))

Spec     == Init /\ [][Next]_vars
FairSpec == Spec /\ Fairness

-----------------------------------------------------------------------------

Events == [kind : Kinds, n : 1..MaxEvents]

TypeOK ==
  /\ now \in [Kinds -> 0..MaxEvents]
  /\ holder \in [Kinds -> {"free", "changed", "sending"}]
  /\ todo \in [Kinds -> SUBSET Clients]
  /\ subs \subseteq Clients
  /\ ready \in [Clients -> Seq(Events)]
  /\ queue \in [Clients -> Seq(Events)]
  /\ \A c \in Clients : Len(queue[c]) <= MaxQueued
  /\ phase \in [Clients -> Phases]
  /\ shown \in [Clients -> [Kinds -> 0..MaxEvents]]
  /\ since \in [Clients -> [Kinds -> Nat]]

\* A client that has received all there is for it knows the newest state,
\* whatever was dropped on the way and whenever it subscribed, unless a whole
\* queue of other events was published since.
NewestStateIsShown ==
  \A c \in Clients :
    /\ phase[c] = "streaming" /\ holder["state"] = "free"
    /\ ready[c] = <<>> /\ queue[c] = <<>>
    /\ since[c]["state"] < MaxQueued
    => shown[c]["state"] = now["state"]

\* What waits for a client waits in the order it was published in, so only
\* the snapshot can be newer than what the stream brings after it.
QueueIsInOrder ==
  \A c \in Clients :
    LET due == queue[c] \o ready[c] IN
    \A i, j \in DOMAIN due : i < j /\ due[i].kind = due[j].kind => due[i].n < due[j].n

\* A change reaches every client that goes on streaming, or is lost to a whole
\* queue of later events.
ChangesReachClients ==
  \A c \in Clients, n \in 1..MaxEvents :
    phase[c] = "streaming" /\ now["state"] = n
      ~> \/ shown[c]["state"] >= n
         \/ phase[c] # "streaming"
         \/ since[c]["state"] >= MaxQueued
=============================================================================
