----------------------------- MODULE MessageBroker -----------------------------
(***************************************************************************)
(* The message broker (message_broker.rs) between the gRPC threads and the *)
(* apply loop.  A gRPC thread whose command was committed at a position    *)
(* registers the position and waits (service.rs, wait_for_response); the   *)
(* apply loop registers the event of every position it applies.  The       *)
(* broker joins the two by position, forgets the oldest events when there  *)
(* are too many, and answers a request that waited too long with Timeout.  *)
(* When the apply loop panics, the only sender of events is gone with it,  *)
(* and the broker panics in batch_recv.                                    *)
(*                                                                         *)
(* A position is a number: <<log_index, offset>> in lexicographic order.   *)
(* The event of a position is represented by the position itself.          *)
(***************************************************************************)
EXTENDS Integers, Sequences, FiniteSets

CONSTANTS
    MaxPosition,    \* bound: the positions are 1..MaxPosition
    MaxTime,        \* bound: the last time of the clock
    RecvMax,        \* the most messages one batch_recv returns (1000 in the code)
    EventLimit,     \* event_gc_limit (10000 in the code)
    Timeout,        \* max_timeout_ms
    MaxRestarts     \* bound: restarts of the process

VARIABLES
    now,                \* the clock
    client,             \* position -> state of the gRPC thread whose command is there
    send_time,          \* position -> InflightRequest.send_time
    request_rx,         \* the channel of registered requests
    event_rx,           \* the channel of registered events
    inflight_requests,  \* positions of the requests that wait for their events
    inflight_events,    \* positions of the events that wait for their requests
    phase,              \* the next step of MessageBroker::run, "dead" after a panic
    applying,           \* the apply loop runs: it has not panicked
    applied,            \* the last position the apply loop has registered an event for
    restarts            \* number of restarts (for the bound)

channels == <<request_rx, event_rx>>
broker == <<inflight_requests, inflight_events>>
apply_loop == <<applying, applied>>
vars == <<now, client, send_time, channels, broker, phase, apply_loop, restarts>>

ASSUME BrokerAssumption ==
    /\ MaxPosition \in Nat /\ MaxTime \in Nat /\ MaxRestarts \in Nat
    /\ RecvMax \in Nat \ {0} /\ EventLimit \in Nat /\ Timeout \in Nat \ {0}

Positions == 1..MaxPosition

\* A gRPC thread: not (yet) waiting here, about to register, registered, or done
\* with the event, with Timeout, with a panic or with a broken connection.
ClientStates ==
    {"idle", "stamped", "waiting", "event", "timeout", "panicked", "disconnected"}

Init ==
    /\ now = 0
    /\ client = [p \in Positions |-> "idle"] /\ send_time = [p \in Positions |-> 0]
    /\ request_rx = << >> /\ event_rx = << >>
    /\ inflight_requests = {} /\ inflight_events = {}
    /\ phase = "requests" /\ applying = TRUE /\ applied = 0 /\ restarts = 0

Range1(s) == {s[i] : i \in DOMAIN s}

Smaller(m, n) == IF m < n THEN m ELSE n

\* What batch_recv takes from a channel, and what it leaves.
Received(rx) == SubSeq(rx, 1, Smaller(Len(rx), RecvMax))

Left(rx) == SubSeq(rx, Smaller(Len(rx), RecvMax) + 1, Len(rx))

\* batch_recv finds the channel empty before it has RecvMax events, and nobody left
\* to send one.  (The senders of requests are kept by the service.)
RecvPanics == ~ applying /\ Len(event_rx) < RecvMax

\* oneshot: the waiting clients of the positions S are answered.
Answered(S, how) == [p \in Positions |-> IF p \in S THEN how ELSE client[p]]

-----------------------------------------------------------------------------
(* The gRPC threads and the apply loop.                                    *)

\* wait_for_response takes the time (while the bounded clock can still expire it) ...
Stamp(p) ==
    /\ client[p] = "idle" /\ now + Timeout <= MaxTime
    /\ client' = [client EXCEPT ![p] = "stamped"]
    /\ send_time' = [send_time EXCEPT ![p] = now]
    /\ UNCHANGED <<now, channels, broker, phase, apply_loop, restarts>>

\* ... and sends the request to the broker; it panics when there is none any more.
Register(p) ==
    /\ client[p] = "stamped"
    /\ IF phase = "dead"
       THEN /\ client' = [client EXCEPT ![p] = "panicked"]
            /\ UNCHANGED request_rx
       ELSE /\ client' = [client EXCEPT ![p] = "waiting"]
            /\ request_rx' = Append(request_rx, p)
    /\ UNCHANGED <<now, send_time, event_rx, broker, phase, apply_loop, restarts>>

\* ApplyContext::send_event for the next position.
SendEvent ==
    /\ applying /\ applied < MaxPosition
    /\ applied' = applied + 1
    /\ event_rx' = Append(event_rx, applied + 1)
    /\ UNCHANGED <<now, client, send_time, request_rx, broker, phase, applying, restarts>>

\* A panic in the apply loop ends its thread, which drops inflight_event_tx.
ApplyLoopPanics ==
    /\ applying
    /\ applying' = FALSE
    /\ UNCHANGED <<now, client, send_time, channels, broker, phase, applied, restarts>>

-----------------------------------------------------------------------------
(* MessageBroker::run.                                                     *)

\* Mutant: the events that are here already are not looked up.
RegisterRequests ==
    /\ phase = "requests"
    /\ inflight_requests' = inflight_requests \cup Range1(Received(request_rx))
    /\ request_rx' = Left(request_rx)
    /\ phase' = "events"
    /\ UNCHANGED <<now, client, send_time, event_rx, inflight_events, apply_loop, restarts>>

\* Step 1: requests whose events are here are answered, the others wait.
JoinRequests ==
    /\ phase = "requests"
    /\ LET batch == Range1(Received(request_rx))
       IN /\ client' = Answered(batch \cap inflight_events, "event")
          /\ inflight_events' = inflight_events \ batch
          /\ inflight_requests' = inflight_requests \cup (batch \ inflight_events)
    /\ request_rx' = Left(request_rx)
    /\ phase' = "events"
    /\ UNCHANGED <<now, send_time, event_rx, apply_loop, restarts>>

\* Mutant: an answered request stays in the map.
JoinKeepingRequests ==
    /\ phase = "events" /\ ~ RecvPanics
    /\ LET batch == Range1(Received(event_rx))
       IN /\ client' = Answered(batch \cap inflight_requests, "event")
          /\ inflight_events' = inflight_events \cup (batch \ inflight_requests)
    /\ event_rx' = Left(event_rx)
    /\ phase' = "gc_events"
    /\ UNCHANGED <<now, send_time, request_rx, inflight_requests, apply_loop, restarts>>

\* Step 2: events whose requests are here answer them, the others wait.
JoinEvents ==
    /\ phase = "events" /\ ~ RecvPanics
    /\ LET batch == Range1(Received(event_rx))
       IN /\ client' = Answered(batch \cap inflight_requests, "event")
          /\ inflight_requests' = inflight_requests \ batch
          /\ inflight_events' = inflight_events \cup (batch \ inflight_requests)
    /\ event_rx' = Left(event_rx)
    /\ phase' = "gc_events"
    /\ UNCHANGED <<now, send_time, request_rx, apply_loop, restarts>>

\* The panic of batch_recv ends the thread: its channels and maps are dropped, and
\* with them the oneshot senders on which the gRPC threads wait, and unwrap.
BrokerPanics ==
    /\ phase = "events" /\ RecvPanics
    /\ client' = Answered({p \in Positions : client[p] = "waiting"}, "panicked")
    /\ request_rx' = << >> /\ event_rx' = << >>
    /\ inflight_requests' = {} /\ inflight_events' = {}
    /\ phase' = "dead"
    /\ UNCHANGED <<now, send_time, apply_loop, restarts>>

\* Step 3: only the EventLimit events with the highest positions stay.
gc_inflight_events ==
    /\ phase = "gc_events"
    /\ inflight_events' =
         {p \in inflight_events :
            Cardinality({q \in inflight_events : q > p}) < EventLimit}
    /\ phase' = "gc_requests"
    /\ UNCHANGED <<now, client, send_time, channels, inflight_requests, apply_loop, restarts>>

\* Mutant: a request expires too early.
ExpiredEarly(p) == now - send_time[p] >= Timeout - 1

\* Mutant: the request with the lowest position never expires.
ExpiredButFirst(p) == now - send_time[p] >= Timeout /\ \E q \in inflight_requests : q < p

Expired(p) == now - send_time[p] >= Timeout

\* Step 4: expired requests are answered, in position order, up to the first one
\* that is not expired.
gc_inflight_requests ==
    /\ phase = "gc_requests"
    /\ LET popped == {p \in inflight_requests :
                        \A q \in inflight_requests : q <= p => Expired(q)}
       IN /\ client' = Answered(popped, "timeout")
          /\ inflight_requests' = inflight_requests \ popped
    /\ phase' = "requests"
    /\ UNCHANGED <<now, send_time, channels, inflight_events, apply_loop, restarts>>

-----------------------------------------------------------------------------
Tick ==
    /\ now < MaxTime
    /\ now' = now + 1
    /\ UNCHANGED <<client, send_time, channels, broker, phase, apply_loop, restarts>>

\* The process restarts: the connections break, and the apply loop starts again
\* from a position it had applied before.
Restart ==
    /\ restarts < MaxRestarts
    /\ restarts' = restarts + 1
    /\ client' = [p \in Positions |-> IF client[p] \in {"stamped", "waiting", "panicked"}
                                      THEN "disconnected" ELSE client[p]]
    /\ request_rx' = << >> /\ event_rx' = << >>
    /\ inflight_requests' = {} /\ inflight_events' = {}
    /\ phase' = "requests"
    /\ applying' = TRUE /\ applied' \in 0..applied
    /\ UNCHANGED <<now, send_time>>

BrokerStep ==
    \/ JoinRequests \/ JoinEvents \/ BrokerPanics
    \/ gc_inflight_events \/ gc_inflight_requests

Next ==
    \/ \E p \in Positions : Stamp(p) \/ Register(p)
    \/ SendEvent \/ ApplyLoopPanics \/ BrokerStep \/ Tick \/ Restart

Spec == Init /\ [][Next]_vars

\* The broker thread keeps looping until it panics, time passes, and a gRPC thread
\* that took the time goes on to send its request.  Nothing is assumed of the apply
\* loop, which may be slow for ever, and nothing restarts the process.
Fairness ==
    /\ WF_vars(BrokerStep) /\ WF_vars(Tick)
    /\ \A p \in Positions : WF_vars(Register(p))

FairSpec == Spec /\ Fairness

-----------------------------------------------------------------------------
(* Properties.                                                             *)

\* A request and its event never wait for each other: whichever of the two
\* reaches the broker second finds the first one (Steps 1 and 2 of run).
NoMissedJoin == inflight_requests \cap inflight_events = {}

\* A gRPC thread that waits is known to the broker in exactly one place, so that its
\* oneshot sender is not used twice, and is dropped only with the broker: no gRPC
\* thread panics in wait_for_response unless the apply loop has panicked first.
WaitingIsTracked ==
    /\ {p \in Positions : client[p] = "waiting"} = Range1(request_rx) \cup inflight_requests
    /\ Range1(request_rx) \cap inflight_requests = {}
    /\ \A i, j \in DOMAIN request_rx : request_rx[i] = request_rx[j] => i = j
    /\ applying => phase # "dead" /\ \A p \in Positions : client[p] # "panicked"

\* A Timeout is never answered early, and never by a broker that holds the event
\* (gc_inflight_requests runs after the events of the iteration were joined).
TimeoutJustified ==
    [][\A p \in Positions : client[p] # "timeout" /\ client'[p] = "timeout"
         => now - send_time[p] >= Timeout /\ p \notin inflight_events]_client

\* No gRPC thread waits for ever, not even one whose event was forgotten or never
\* comes, or whose position is behind that of a younger request: it has its event
\* or Timeout, unless the process restarts, or the apply loop has panicked and
\* the thread panics too.
AnsweredUnlessPanic ==
    \A p \in Positions :
        client[p] = "waiting" ~>
            \/ client[p] \in {"event", "timeout", "disconnected"}
            \/ client[p] = "panicked" /\ ~ applying
=============================================================================
