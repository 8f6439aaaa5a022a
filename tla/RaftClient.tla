------------------------------ MODULE RaftClient ------------------------------
(***************************************************************************)
(* How a store sends raft messages to the other stores (raft_client.rs)    *)
(* and how they receive them (Service::raft, kv.rs).                       *)
(*                                                                         *)
(* The raft thread pushes messages into one queue per store and, once per  *)
(* round, wakes the queues it has pushed to.  For each queue one task (the *)
(* RaftCall of the connection) pops the messages and writes them to a gRPC *)
(* stream; it goes to sleep when the queue is empty, and only a waker that *)
(* it left in the queue wakes it again.  When the connection breaks, the   *)
(* back end (`start') drops what is queued, waits, and makes a new one.    *)
(*                                                                         *)
(* Every access of the queue and of its waker is a step of its own.        *)
(***************************************************************************)
EXTENDS LruCache

CONSTANTS
    Stores,         \* the other stores
    QueueCap,       \* capacity of a queue (819200 in the code)
    SampleMask,     \* sample mask of the cache of queues (7 in the code)
    MaxMessages,    \* bound: messages the raft thread sends
    MaxBreaks       \* bound: connections that break

ASSUME ClientAssumption ==
    QueueCap \in Nat \ {0} /\ SampleMask \in Nat /\ MaxMessages \in Nat /\ MaxBreaks \in Nat

VARIABLES
    client,     \* the raft thread in RaftClient: pc, i (the position in need_flush)
    cache,      \* its cache of queues: store -> dirty
    need_flush, \* the stores it has pushed to since the last flush
    pool,       \* the stores that have a connection (ConnectionPool)
    queue,      \* store -> the messages of its queue
    waker,      \* store -> the call whose waker is in the queue, 0 if none
    call,       \* store -> its back end and the RaftCall of the connection
    wire,       \* store -> messages that are in the streams to it
    arrived,    \* store -> messages that its raft thread was given
    next,       \* the next message
    breaks      \* connections that have broken (for the bound)

clientVars == <<client, cache, need_flush, pool, next>>
streamVars == <<wire, arrived, breaks>>
vars == <<clientVars, queue, waker, call, streamVars>>

\* MessageBuffer::full.
BufferCap == 2

\* A back end: what it is doing, the number of its connection, the buffer of the
\* RaftCall, whether the task was woken while it ran, whether the connection is
\* broken, how often it has connected (1, or more), and how many messages
\* clear_pending_message has still to drop.
Call(pc, id, retry_times) ==
    [pc |-> pc, id |-> id, buffer |-> << >>, woken |-> FALSE, broken |-> FALSE,
     retry_times |-> retry_times, drop |-> 0]

Init ==
    /\ client = [pc |-> "idle", i |-> 0]
    /\ cache = with_capacity_and_sample(0) /\ need_flush = << >> /\ pool = {}
    /\ queue = [s \in Stores |-> << >>] /\ waker = [s \in Stores |-> 0]
    /\ call = [s \in Stores |-> Call("none", 0, 0)]
    /\ wire = [s \in Stores |-> << >>] /\ arrived = [s \in Stores |-> << >>]
    /\ next = 1 /\ breaks = 0

-----------------------------------------------------------------------------
(* The raft thread.                                                        *)

\* Mutant: the cache keeps its capacity.
LoadedWithoutResize(c, s) == insert(c, s, FALSE)

\* load_stream: a new connection starts its back end; the cache is made as large
\* as the pool before the queue is put into it.
Loaded(c, s) == insert(resize(c, Cardinality(pool \cup {s})), s, FALSE)

\* The cache in which `send' finds the queue of s.
Found(s) == IF Has(cache, s) THEN cache ELSE Loaded(cache, s)

\* send and flush look a queue up and change its `dirty' flag.
MarkedDirty(c, s) == get_mut(c, s, TRUE, SampleMask)

MarkedClean(c, s) == get_mut(c, s, FALSE, SampleMask)

\* RaftClient::send.  A full queue panics the raft thread (the unwrap in push).
Send(s) ==
    /\ client.pc = "idle" /\ next <= MaxMessages
    /\ pool' = pool \cup {s}
    /\ call' = IF s \in pool THEN call ELSE [call EXCEPT ![s].pc = "backoff"]
    /\ IF Len(queue[s]) < QueueCap
       THEN /\ queue' = [queue EXCEPT ![s] = Append(@, next)]
            /\ cache' = MarkedDirty(Found(s), s)
            /\ need_flush' = IF Found(s).map[s] THEN need_flush ELSE Append(need_flush, s)
            /\ UNCHANGED client
       ELSE /\ client' = [pc |-> "panicked", i |-> 0]
            /\ UNCHANGED <<queue, cache, need_flush>>
    /\ next' = next + 1
    /\ UNCHANGED <<waker, streamVars>>

\* RaftClient::flush starts (handle_raft_ready).
Flush ==
    /\ client.pc = "idle" /\ need_flush # << >>
    /\ client' = [pc |-> "flush", i |-> 1]
    /\ UNCHANGED <<cache, need_flush, pool, next, queue, waker, call, streamVars>>

FlushedStore == need_flush[client.i]

\* The loop of flush goes on to the next store, or ends.
NextToFlush ==
    IF client.i < Len(need_flush)
    THEN client' = [pc |-> "flush", i |-> client.i + 1] /\ UNCHANGED need_flush
    ELSE client' = [pc |-> "idle", i |-> 0] /\ need_flush' = << >>

\* flush of one store, and the look of `notify' at the queue: nothing is woken for
\* a queue that is empty, or that is cached and not dirty.
FlushStore ==
    /\ client.pc = "flush"
    /\ LET s == FlushedStore
           due == Has(cache, s) => cache.map[s]
       IN /\ cache' = IF Has(cache, s) THEN MarkedClean(cache, s) ELSE cache
          /\ IF due /\ queue[s] # << >>
             THEN client' = [pc |-> "take", i |-> client.i] /\ UNCHANGED need_flush
             ELSE NextToFlush
    /\ UNCHANGED <<pool, next, queue, waker, call, streamVars>>

\* The call is woken: it is polled (again) from the start.
Woken(c) ==
    IF c.pc \in {"parked", "blocked"} THEN [c EXCEPT !.pc = "fill"] ELSE [c EXCEPT !.woken = TRUE]

\* notify takes the waker and wakes its call, if that is still the one that runs.
TakeWaker ==
    /\ client.pc = "take"
    /\ LET s == FlushedStore
       IN /\ call' = IF waker[s] # 0 /\ waker[s] = call[s].id
                     THEN [call EXCEPT ![s] = Woken(@)] ELSE call
          /\ waker' = [waker EXCEPT ![s] = 0]
    /\ NextToFlush
    /\ UNCHANGED <<cache, pool, next, queue, streamVars>>

-----------------------------------------------------------------------------
(* RaftCall::poll.                                                         *)

\* Mutant: the buffer is a stack.
FillStack(s) ==
    /\ call[s].pc = "fill"
    /\ IF Len(call[s].buffer) >= BufferCap
       THEN call' = [call EXCEPT ![s].pc = "send"] /\ UNCHANGED queue
       ELSE IF queue[s] = << >>
       THEN call' = [call EXCEPT ![s].pc = "register"] /\ UNCHANGED queue
       ELSE /\ call' = [call EXCEPT ![s].buffer = <<Head(queue[s])>> \o @]
            /\ queue' = [queue EXCEPT ![s] = Tail(@)]
    /\ UNCHANGED <<clientVars, waker, streamVars>>

\* The first pop of Queue::pop in fill_msg, unless the buffer is full.
FillPop(s) ==
    /\ call[s].pc = "fill"
    /\ IF Len(call[s].buffer) >= BufferCap
       THEN call' = [call EXCEPT ![s].pc = "send"] /\ UNCHANGED queue
       ELSE IF queue[s] = << >>
       THEN call' = [call EXCEPT ![s].pc = "register"] /\ UNCHANGED queue
       ELSE /\ call' = [call EXCEPT ![s].buffer = Append(@, Head(queue[s]))]
            /\ queue' = [queue EXCEPT ![s] = Tail(@)]
    /\ UNCHANGED <<clientVars, waker, streamVars>>

\* Mutant: the queue is not looked at again.
RegisterAndSleep(s) ==
    /\ call[s].pc = "register"
    /\ waker' = [waker EXCEPT ![s] = call[s].id]
    /\ call' = [call EXCEPT ![s].pc = "send"]
    /\ UNCHANGED <<clientVars, queue, streamVars>>

\* The queue was empty: the waker is left in it ...
RegisterWaker(s) ==
    /\ call[s].pc = "register"
    /\ waker' = [waker EXCEPT ![s] = call[s].id]
    /\ call' = [call EXCEPT ![s].pc = "repop"]
    /\ UNCHANGED <<clientVars, queue, streamVars>>

\* ... and the queue is looked at once more.
PopAgain(s) ==
    /\ call[s].pc = "repop"
    /\ IF queue[s] = << >>
       THEN call' = [call EXCEPT ![s].pc = "send"] /\ UNCHANGED queue
       ELSE /\ call' = [call EXCEPT ![s].pc = "fill", ![s].buffer = Append(@, Head(queue[s]))]
            /\ queue' = [queue EXCEPT ![s] = Tail(@)]
    /\ UNCHANGED <<clientVars, waker, streamVars>>

\* poll returns Pending: a task that was woken meanwhile is polled again.
Pend(c, pc) ==
    IF c.woken THEN [c EXCEPT !.pc = "fill", !.woken = FALSE] ELSE [c EXCEPT !.pc = pc]

\* The sender is ready: one message of the buffer is written to the stream.
SendBuffered(s) ==
    /\ call[s].pc = "send" /\ call[s].buffer # << >> /\ ~call[s].broken
    /\ wire' = [wire EXCEPT ![s] = Append(@, [conn |-> call[s].id, msg |-> Head(call[s].buffer)])]
    /\ call' = [call EXCEPT ![s].pc = "fill", ![s].buffer = Tail(@)]
    /\ UNCHANGED <<clientVars, queue, waker, arrived, breaks>>

\* The sender is not ready.
Block(s) ==
    /\ call[s].pc = "send" /\ call[s].buffer # << >> /\ ~call[s].broken
    /\ call' = [call EXCEPT ![s] = Pend(@, "blocked")]
    /\ UNCHANGED <<clientVars, queue, waker, streamVars>>

\* Nothing to send, and the receiver is pending.
Park(s) ==
    /\ call[s].pc = "send" /\ call[s].buffer = << >> /\ ~call[s].broken
    /\ call' = [call EXCEPT ![s] = Pend(@, "parked")]
    /\ UNCHANGED <<clientVars, queue, waker, streamVars>>

\* gRPC wakes the call when the sender is ready again.
Unblock(s) ==
    /\ call[s].pc = "blocked"
    /\ call' = [call EXCEPT ![s].pc = "fill"]
    /\ UNCHANGED <<clientVars, queue, waker, streamVars>>

\* The sender, the flush or the receiver fails: the call is over, and with it the
\* messages in its buffer.
CleanUp(s) ==
    /\ call[s].pc = "send" /\ call[s].broken
    /\ \E how \in {"aborted", "fallback"} :
          call' = [call EXCEPT ![s].pc = how, ![s].buffer = << >>, ![s].woken = FALSE]
    /\ UNCHANGED <<clientVars, queue, waker, streamVars>>

-----------------------------------------------------------------------------
(* The back end: `start'.                                                  *)

\* connect and call: a new RaftCall, polled at once.
Connect(s) ==
    /\ call[s].pc = "backoff"
    /\ call' = [call EXCEPT ![s] = Call("fill", call[s].id + 1,
                   IF call[s].retry_times < 2 THEN call[s].retry_times + 1 ELSE 2)]
    /\ UNCHANGED <<clientVars, queue, waker, streamVars>>

\* Mutant: one message more is dropped than was counted.
AbortedOffByOne(s) ==
    /\ call[s].pc \in {"aborted", "fallback"}
    /\ call' = IF call[s].pc = "aborted" /\ call[s].retry_times > 1
               THEN [call EXCEPT ![s].pc = "clear", ![s].drop = Len(queue[s]) + 1]
               ELSE [call EXCEPT ![s].pc = "backoff"]
    /\ UNCHANGED <<clientVars, queue, waker, streamVars>>

\* The lifetime of the call has ended.  clear_pending_message reads the length of
\* the queue first.
Aborted(s) ==
    /\ call[s].pc \in {"aborted", "fallback"}
    /\ call' = IF call[s].pc = "aborted" /\ call[s].retry_times > 1
               THEN [call EXCEPT ![s].pc = "clear", ![s].drop = Len(queue[s])]
               ELSE [call EXCEPT ![s].pc = "backoff"]
    /\ UNCHANGED <<clientVars, queue, waker, streamVars>>

\* One turn of the loop of clear_pending_message; an empty queue panics.
ClearPending(s) ==
    /\ call[s].pc = "clear"
    /\ IF call[s].drop = 0
       THEN call' = [call EXCEPT ![s].pc = "backoff"] /\ UNCHANGED queue
       ELSE IF queue[s] = << >>
       THEN call' = [call EXCEPT ![s].pc = "panicked"] /\ UNCHANGED queue
       ELSE /\ call' = [call EXCEPT ![s].drop = @ - 1]
            /\ queue' = [queue EXCEPT ![s] = Tail(@)]
    /\ UNCHANGED <<clientVars, waker, streamVars>>

-----------------------------------------------------------------------------
(* The streams, and the stores at their other ends.                        *)

Running(c) == c.pc \in {"fill", "register", "repop", "send", "blocked", "parked"}

\* The connection breaks; of the messages in its stream an arbitrary number of the
\* last ones is lost, and gRPC wakes the call.
Break(s) ==
    /\ Running(call[s]) /\ ~call[s].broken /\ breaks < MaxBreaks
    /\ breaks' = breaks + 1
    /\ call' = [call EXCEPT ![s] = [Woken(call[s]) EXCEPT !.broken = TRUE]]
    /\ \E n \in 0..Len(wire[s]) :
          /\ \A i \in n+1..Len(wire[s]) : wire[s][i].conn = call[s].id
          /\ wire' = [wire EXCEPT ![s] = SubSeq(@, 1, n)]
    /\ UNCHANGED <<clientVars, queue, waker, arrived>>

\* Service::raft hands the next message of a stream to the raft thread of the
\* store.  Streams of different connections are read independently.
Deliver(s) ==
    \E i \in DOMAIN wire[s] :
        /\ \A j \in 1..i-1 : wire[s][j].conn # wire[s][i].conn
        /\ arrived' = [arrived EXCEPT ![s] = Append(@, wire[s][i])]
        /\ wire' = [wire EXCEPT ![s] = SubSeq(@, 1, i-1) \o SubSeq(@, i+1, Len(@))]
        /\ UNCHANGED <<clientVars, queue, waker, call, breaks>>

-----------------------------------------------------------------------------
ClientStep == Flush \/ FlushStore \/ TakeWaker

Poll(s) == FillPop(s) \/ RegisterWaker(s) \/ PopAgain(s) \/ SendBuffered(s) \/ Park(s) \/ CleanUp(s)

BackEnd(s) == Connect(s) \/ Aborted(s) \/ ClearPending(s)

Next ==
    \/ \E s \in Stores : Send(s)
    \/ ClientStep
    \/ \E s \in Stores : Poll(s) \/ Block(s) \/ Unblock(s) \/ BackEnd(s) \/ Break(s) \/ Deliver(s)

Spec == Init /\ [][Next]_vars

\* The raft thread flushes after it has sent (handle_raft_ready), the tasks are
\* polled when they are woken, and a stream is ready again some time: the
\* keepalive breaks one whose other end does not read.
FairSpec ==
    /\ Spec
    /\ WF_vars(ClientStep)
    /\ \A s \in Stores :
        /\ WF_vars(Poll(s)) /\ WF_vars(Unblock(s)) /\ WF_vars(BackEnd(s))
        /\ SF_vars(SendBuffered(s))

-----------------------------------------------------------------------------
(* Properties.                                                             *)

\* The flush of a store is still ahead of the raft thread.
ToBeNotified(s) ==
    \E k \in DOMAIN need_flush : need_flush[k] = s /\ (client.pc = "idle" \/ k >= client.i)

\* No wake-up is lost: a call that sleeps although its queue holds messages has
\* left its waker there, and the raft thread has still to take it (Queue::pop looks
\* at the queue again after it has left the waker; send marks the queue dirty).
NoLostWakeup ==
    \A s \in Stores :
        call[s].pc = "parked" /\ queue[s] # << >> /\ client.pc # "panicked"
        => waker[s] = call[s].id /\ ToBeNotified(s)

\* A store is given no message twice, and those of one connection in the order
\* they were sent, whatever is lost with a connection and however the buffers of
\* successive connections overlap.
DeliveredInOrder ==
    \A s \in Stores : \A i, j \in DOMAIN arrived[s] :
        i < j => /\ arrived[s][i].msg # arrived[s][j].msg
                 /\ arrived[s][i].conn = arrived[s][j].conn => arrived[s][i].msg < arrived[s][j].msg

\* The cache of queues never evicts one: it is enlarged whenever the pool has
\* grown, so that `flush' finds every dirty queue in it.
DirtyIsCached ==
    /\ DOMAIN cache.map \subseteq pool
    /\ Size(cache) <= cache.capacity
    /\ \A k \in DOMAIN need_flush : Has(cache, need_flush[k])

\* No message stays in a queue: it is written to a stream, or dropped with a
\* connection, unless the raft thread has died of a full queue.  In particular the
\* back end survives: clear_pending_message never finds fewer messages than it has
\* counted.
EveryMessageLeaves ==
    \A s \in Stores :
        queue[s] # << >> ~> queue[s] = << >> \/ client.pc = "panicked"
=============================================================================
