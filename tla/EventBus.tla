------------------------------ MODULE EventBus ------------------------------
(***************************************************************************)
(* The change feed of a vault (internal/events): handlers publish events,  *)
(* a RabbitMQ fan-out carries them to every API instance, each instance's  *)
(* hub offers them to its subscribers, and every subscriber is a stream to *)
(* one client, whose right to listen is asked for again on each ping.      *)
(***************************************************************************)
EXTENDS Integers, Sequences, FiniteSets

CONSTANTS
  Instances,    \* processes of the API
  Events,
  Origin,       \* the instance whose handler publishes each event
  Streams,      \* one connection each
  Home,         \* the instance that serves each stream
  Machines,     \* the streams of machines; the others are never asked again
  Visible,      \* for each machine's stream, the events its environment may see
  Buffer,       \* subscriberBuffer
  MaxFaults     \* bounds the lost connections and the doubtful publications

ASSUME BusAssumption ==
  /\ Origin \in [Events -> Instances] /\ Home \in [Streams -> Instances]
  /\ Machines \subseteq Streams
  /\ Visible \in [Machines -> SUBSET Events]
  /\ Buffer \in Nat \ {0} /\ MaxFaults \in Nat

VARIABLES
  publishing,  \* how far the publication of each event is
  connected,   \* the instances whose connection to the broker is alive
  remote,      \* those that believe so
  busQueue,    \* what each instance's consumer has yet to read
  stream,      \* "new", "open" or "closed"
  buffer,      \* of each open stream
  received,    \* what the client of each stream has got
  revoked,     \* the machines that may not listen any more
  faults,
  doubtful,    \* history: events whose publication failed after it had worked
  missed       \* history: <<stream, event>> that a full buffer has dropped

busVars == <<publishing, connected, remote, busQueue, stream, buffer, received,
             revoked, faults, doubtful, missed>>

\* An instance that cannot reach the broker when it starts does without.
BusInit ==
  /\ publishing = [e \in Events |-> "none"]
  /\ connected \in SUBSET Instances /\ remote = connected
  /\ busQueue = [i \in Instances |-> <<>>]
  /\ stream = [s \in Streams |-> "new"]
  /\ buffer = [s \in Streams |-> <<>>] /\ received = [s \in Streams |-> <<>>]
  /\ revoked = {} /\ faults = 0 /\ doubtful = {} /\ missed = {}

----------------------------------------------------------------------------
(* The hub of an instance *)

Listening(i) == {s \in Streams : Home[s] = i /\ stream[s] = "open"}
Full(s) == Len(buffer[s]) = Buffer

\* To every subscriber of the instance, without waiting for a slow one.
Deliver(i, e) ==
  /\ buffer' = [s \in Streams |-> IF s \in Listening(i) /\ ~Full(s)
                                    THEN Append(buffer[s], e) ELSE buffer[s]]
  /\ missed' = missed \cup {<<s, e>> : s \in {t \in Listening(i) : Full(t)}}

----------------------------------------------------------------------------
(* The bus *)

Turns(e, at) == publishing' = [publishing EXCEPT ![e] = at]

\* A handler calls Publish, which looks at the flag of its instance.
BeginPublish(e) ==
  /\ publishing[e] = "none"
  /\ Turns(e, IF Origin[e] \in remote THEN "remote" ELSE "local")
  /\ UNCHANGED <<connected, remote, busQueue, stream, buffer, received, revoked,
                 faults, doubtful, missed>>

\* One queue for all instances.
FanOutBug(e) == \E i \in connected : busQueue' = [busQueue EXCEPT ![i] = Append(@, e)]

\* The exchange copies the event to the queue of each instance.
FanOut(e) == busQueue' = [j \in Instances |-> IF j \in connected
                                                THEN Append(busQueue[j], e) ELSE busQueue[j]]

\* Delivers locally what the consumer is going to deliver as well.
PublishRemoteBug(e) ==
  /\ publishing[e] = "remote"
  /\ IF Origin[e] \in connected THEN FanOut(e) ELSE UNCHANGED busQueue
  /\ Turns(e, "local")
  /\ UNCHANGED <<connected, remote, stream, buffer, received, revoked, faults,
                 doubtful, missed>>

\* To the exchange, or to the local hub after an error.  What goes into a dead
\* connection before anybody notices is lost: nothing confirms a publication.
PublishRemote(e) ==
  /\ publishing[e] = "remote"
  /\ IF Origin[e] \in connected
       THEN FanOut(e) /\ Turns(e, "done")
       ELSE UNCHANGED busQueue /\ (Turns(e, "local") \/ Turns(e, "done"))
  /\ UNCHANGED <<connected, remote, stream, buffer, received, revoked, faults,
                 doubtful, missed>>

\* The broker has the event, yet the publisher hears of an error.
PublishInDoubt(e) ==
  /\ publishing[e] = "remote" /\ Origin[e] \in connected
  /\ faults < MaxFaults /\ faults' = faults + 1
  /\ FanOut(e) /\ Turns(e, "local")
  /\ doubtful' = doubtful \cup {e}
  /\ UNCHANGED <<connected, remote, stream, buffer, received, revoked, missed>>

PublishLocal(e) ==
  /\ publishing[e] = "local"
  /\ Deliver(Origin[e], e) /\ Turns(e, "done")
  /\ UNCHANGED <<connected, remote, busQueue, stream, received, revoked, faults,
                 doubtful>>

Consume(i) ==
  /\ busQueue[i] # <<>>
  /\ Deliver(i, Head(busQueue[i]))
  /\ busQueue' = [busQueue EXCEPT ![i] = Tail(@)]
  /\ UNCHANGED <<publishing, connected, remote, stream, received, revoked, faults,
                 doubtful>>

\* The instance's queue is exclusive and goes with its connection; the consumer
\* still has what the broker had pushed to it.  Nothing reconnects.
LoseConnection(i) ==
  /\ i \in connected
  /\ faults < MaxFaults /\ faults' = faults + 1
  /\ connected' = connected \ {i}
  /\ \E n \in 0..Len(busQueue[i]) :
       busQueue' = [busQueue EXCEPT ![i] = SubSeq(@, 1, n)]
  /\ UNCHANGED <<publishing, remote, stream, buffer, received, revoked, doubtful,
                 missed>>

ConsumerEnds(i) ==
  /\ i \in remote \ connected /\ busQueue[i] = <<>>
  /\ remote' = remote \ {i}
  /\ UNCHANGED <<publishing, connected, busQueue, stream, buffer, received, revoked,
                 faults, doubtful, missed>>

----------------------------------------------------------------------------
(* Streams *)

\* A machine that may not listen is refused.
OpenStream(s) ==
  /\ stream[s] = "new" /\ s \notin revoked
  /\ stream' = [stream EXCEPT ![s] = "open"]
  /\ UNCHANGED <<publishing, connected, remote, busQueue, buffer, received, revoked,
                 faults, doubtful, missed>>

Filter(s, e) == s \in Machines => e \in Visible[s]

WriteEvent(s) ==
  LET e == Head(buffer[s]) IN
  /\ stream[s] = "open" /\ buffer[s] # <<>>
  /\ received' = IF Filter(s, e) THEN [received EXCEPT ![s] = Append(@, e)] ELSE received
  /\ buffer' = [buffer EXCEPT ![s] = Tail(@)]
  /\ UNCHANGED <<publishing, connected, remote, busQueue, stream, revoked, faults,
                 doubtful, missed>>

Close(s) ==
  /\ stream' = [stream EXCEPT ![s] = "closed"]
  /\ buffer' = [buffer EXCEPT ![s] = <<>>]
  /\ UNCHANGED <<publishing, connected, remote, busQueue, received, revoked, faults,
                 doubtful, missed>>

\* The client goes away, and a write to it fails.
Disconnect(s) == stream[s] = "open" /\ Close(s)

\* Without StillAllowed.
PingBug(s) == stream[s] = "broken" /\ Close(s)

\* The ping that ends a stream: a machine's, once it may not listen any more.
Ping(s) == stream[s] = "open" /\ s \in Machines \cap revoked /\ Close(s)

\* The machine is revoked or expires.
RevokeMachine(s) ==
  /\ s \in Machines \ revoked
  /\ revoked' = revoked \cup {s}
  /\ UNCHANGED <<publishing, connected, remote, busQueue, stream, buffer, received,
                 faults, doubtful, missed>>

Publishes(e) == PublishRemote(e) \/ PublishLocal(e)

BusNext ==
  \/ \E i \in Instances :
       Consume(i) \/ LoseConnection(i) \/ ConsumerEnds(i)
  \/ \E e \in Events : BeginPublish(e) \/ Publishes(e) \/ PublishInDoubt(e)
  \/ \E s \in Streams :
       OpenStream(s) \/ WriteEvent(s) \/ Disconnect(s) \/ Ping(s) \/ RevokeMachine(s)

\* Goroutines run; the ticker of a stream competes with its events in one select,
\* so that a ping is due again and again.
BusFairness ==
  /\ \A e \in Events : WF_busVars(Publishes(e))
  /\ \A i \in Instances : WF_busVars(Consume(i))
  /\ \A s \in Streams : WF_busVars(WriteEvent(s)) /\ WF_busVars(Ping(s))

BusSpec == BusInit /\ [][BusNext]_busVars /\ BusFairness
----------------------------------------------------------------------------
(* Properties *)

Copies(s, e) ==
  Cardinality({n \in DOMAIN received[s] : received[s][n] = e})
    + Cardinality({n \in DOMAIN buffer[s] : buffer[s][n] = e})

\* "each event exactly once" (Bus in events/bus.go), its first half: no client gets
\* an event twice, although two paths lead to its instance - unless the publisher
\* was told of an error after the broker had taken the event.
NoEventTwice ==
  \A s \in Streams, e \in Events : Copies(s, e) <= IF e \in doubtful THEN 2 ELSE 1

Got(s, e) == \E n \in DOMAIN received[s] : received[s][n] = e

BoundFor(s, e) ==
  \/ publishing[e] = "remote" /\ {Origin[e], Home[s]} \subseteq connected
  \/ publishing[e] = "local" /\ Home[s] = Origin[e]

\* The second half: whoever listens when an event is published gets it, if he goes
\* on listening, may see it, keeps up, and no connection is lost meanwhile.
EventArrives ==
  \A s \in Streams, e \in Events :
    BoundFor(s, e) /\ stream[s] = "open" /\ Filter(s, e)
      ~> Got(s, e) \/ stream[s] = "closed" \/ <<s, e>> \in missed \/ faults > 0

\* A revoked machine does not listen for ever on a stream it has open
\* (StreamOptions.StillAllowed, and StillActive of machine/service.go).
RevokedStreamEnds ==
  \A s \in Streams : s \in revoked /\ stream[s] = "open" ~> stream[s] = "closed"
=============================================================================
