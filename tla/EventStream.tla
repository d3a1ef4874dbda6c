---- MODULE EventStream ----
(***************************************************************************)
(* State changes sent to the browsers that listen (event_stream.py,         *)
(* EventBroker).                                                            *)
(*                                                                          *)
(* Every listener has a queue of its own; a full one loses its oldest event *)
(* to the newest.  A keepalive after fifteen quiet seconds changes nothing. *)
(* A browser that lost its connection comes back as a new listener.         *)
(***************************************************************************)
EXTENDS Integers, Sequences, FiniteSets

CONSTANTS
    Listeners,
    QueueSize,
    MaxEvents   \* bound on the events, `stream.ready' included

VARIABLES
    ids,          \* the last number given to an event
    subscribers,  \* _subscribers
    queue,        \* [Listeners -> events not yet sent]
    got,          \* [Listeners -> events sent on this connection]
    meant         \* observation: [Listeners -> events published during it]

eventVars == <<ids, subscribers, queue, got, meant>>

EventsInit ==
    /\ ids = 0 /\ subscribers = {}
    /\ queue = [l \in Listeners |-> <<>>] /\ got = [l \in Listeners |-> <<>>]
    /\ meant = [l \in Listeners |-> {}]

\* The queue is registered before the ready event takes its number.
Connect(l) ==
    /\ l \notin subscribers /\ ids < MaxEvents
    /\ subscribers' = subscribers \cup {l}
    /\ ids' = ids + 1
    /\ got' = [got EXCEPT ![l] = <<ids'>>]
    /\ UNCHANGED <<queue, meant>>

\* Mutant: a full queue takes nothing.
EnqueuedIfRoom(q, event) == IF Len(q) = QueueSize THEN q ELSE Append(q, event)

Enqueued(q, event) == Append(IF Len(q) = QueueSize THEN Tail(q) ELSE q, event)

PublishEvent ==
    /\ ids < MaxEvents
    /\ ids' = ids + 1
    /\ queue' = [l \in Listeners |->
                    IF l \in subscribers THEN Enqueued(queue[l], ids') ELSE queue[l]]
    /\ meant' = [l \in Listeners |->
                    IF l \in subscribers THEN meant[l] \cup {ids'} ELSE meant[l]]
    /\ UNCHANGED <<subscribers, got>>

Deliver(l) ==
    /\ l \in subscribers /\ queue[l] # <<>>
    /\ got' = [got EXCEPT ![l] = Append(@, Head(queue[l]))]
    /\ queue' = [queue EXCEPT ![l] = Tail(@)]
    /\ UNCHANGED <<ids, subscribers, meant>>

Disconnect(l) ==
    /\ l \in subscribers
    /\ subscribers' = subscribers \ {l}
    /\ queue' = [queue EXCEPT ![l] = <<>>] /\ got' = [got EXCEPT ![l] = <<>>]
    /\ meant' = [meant EXCEPT ![l] = {}]
    /\ UNCHANGED ids

EventsNext == PublishEvent \/ \E l \in Listeners : Connect(l) \/ Deliver(l) \/ Disconnect(l)

EventsSpec == EventsInit /\ [][EventsNext]_eventVars

-----------------------------------------------------------------------------

\* A listener gets its events in the order in which they happened, and what a
\* slow one never gets was followed by a whole queue of newer events: once the
\* server is quiet the newest change reaches it (EventBroker.publish, stream).
NewestEventsArrive == \A l \in subscribers :
    LET stream == got[l] \o queue[l]
        lost == meant[l] \ {stream[i] : i \in 1..Len(stream)}
    IN /\ \A i, k \in 1..Len(stream) : i < k => stream[i] < stream[k]
       /\ \A e \in lost : Cardinality({f \in meant[l] : f > e}) >= QueueSize
====
