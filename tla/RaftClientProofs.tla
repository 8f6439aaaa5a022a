--------------------------- MODULE RaftClientProofs ---------------------------
(***************************************************************************)
(* Proofs about the raft client, for any set of stores, any capacity of    *)
(* the queues and any sample mask: no wake-up of a connection is lost, no  *)
(* queue is evicted from the cache, no message arrives twice or out of the *)
(* order of its connection, and no back end panics.                        *)
(***************************************************************************)
EXTENDS RaftClient, FiniteSetTheorems, TLAPS

CallStates ==
    {"none", "backoff", "fill", "register", "repop", "send", "blocked", "parked",
     "aborted", "fallback", "clear", "panicked"}

CallType ==
    [pc : CallStates, id : Nat, buffer : Seq(Nat), woken : BOOLEAN, broken : BOOLEAN,
     retry_times : Nat, drop : Nat]

ClientTypeOK ==
    /\ client \in [pc : {"idle", "flush", "take", "panicked"}, i : Nat]
    /\ client.pc \in {"flush", "take"} => client.i \in DOMAIN need_flush
    /\ need_flush \in Seq(Stores)
    /\ next \in Nat
    /\ queue \in [Stores -> Seq(Nat)]
    /\ waker \in [Stores -> Nat]
    /\ call \in [Stores -> CallType]

\* The flush of position k of need_flush has not begun.
Ahead(k) ==
    \/ client.pc = "idle"
    \/ client.pc = "flush" /\ k >= client.i
    \/ client.pc = "take" /\ k > client.i

IsAhead(s) == \E k \in DOMAIN need_flush : need_flush[k] = s /\ Ahead(k)

\* The raft thread is going to take the waker of s: it is about to, or it will find
\* s in need_flush and not think that it is clean.
WillTake(s) ==
    \/ client.pc = "take" /\ need_flush[client.i] = s
    \/ IsAhead(s) /\ (Has(cache, s) => cache.map[s])
    \/ client.pc = "panicked"

DirtyIsAhead == client.pc # "panicked" =>
    \A s \in Stores : Has(cache, s) /\ cache.map[s] => IsAhead(s)

\* A call that has found its queue empty, and has nothing to send, was woken since
\* or will be: its waker is in the queue, and the raft thread will take it if the
\* queue has got a message meanwhile.
WillWake(s) ==
    \/ call[s].woken
    \/ waker[s] = call[s].id /\ (queue[s] = << >> \/ WillTake(s))

FoundEmpty(s) == call[s].pc \in {"send", "parked"} /\ call[s].buffer = << >>

CallInv(s) ==
    /\ call[s].pc = "parked" => call[s].buffer = << >> /\ ~call[s].woken
    /\ Running(call[s]) => call[s].id # 0
    /\ call[s].pc = "repop" => call[s].woken \/ waker[s] = call[s].id
    /\ FoundEmpty(s) => WillWake(s)

WakeInv == ClientTypeOK /\ DirtyIsAhead /\ \A s \in Stores : CallInv(s)

-----------------------------------------------------------------------------
\* What load_stream does to the cache: it adds the key, and changes no value that
\* stays.
LEMMA LoadedMap ==
    ASSUME NEW s, NEW t
    PROVE  /\ s \in DOMAIN Loaded(cache, s).map /\ Loaded(cache, s).map[s] = FALSE
           /\ t # s /\ t \in DOMAIN Loaded(cache, s).map =>
                t \in DOMAIN cache.map /\ Loaded(cache, s).map[t] = cache.map[t]
  BY ZenonT(40) DEF Loaded, insert, resize, Has, MapWith, MapWithout, Cache

\* `send' finds the queue, and what the cache then holds of the other stores was in
\* it before.
LEMMA FoundMap ==
    ASSUME NEW s, NEW t
    PROVE  /\ s \in DOMAIN Found(s).map
           /\ ~Has(cache, s) => Found(s).map[s] = FALSE
           /\ Has(cache, s) => Found(s) = cache
           /\ t # s /\ t \in DOMAIN Found(s).map =>
                 t \in DOMAIN cache.map /\ Found(s).map[t] = cache.map[t]
  BY LoadedMap, ZenonT(40) DEF Found, Has

\* In the initial state nothing is queued and nobody runs.
LEMMA WakeInit == Init => WakeInv
  BY DEF Init, WakeInv, ClientTypeOK, CallType, CallStates, Call, DirtyIsAhead, CallInv,
         Running, FoundEmpty, with_capacity_and_sample, Cache, Has

\* A step of the raft thread to the next store: the positions behind the current
\* one are still ahead, and no others.
LEMMA NextToFlushAhead ==
    ASSUME ClientTypeOK, client.pc \in {"flush", "take"}, NextToFlush,
           NEW s \in Stores, need_flush[client.i] # s
    PROVE  IsAhead(s) <=> IsAhead(s)'
<1>1. client.i \in 1..Len(need_flush) /\ need_flush \in Seq(Stores) /\ client.i \in Nat
  BY SMTT(40) DEF ClientTypeOK
<1>2. CASE client.i < Len(need_flush)
  <2>1. client'.pc = "flush" /\ client'.i = client.i + 1 /\ need_flush' = need_flush
    BY <1>2, SMTT(40) DEF NextToFlush
  <2>2. \A k \in DOMAIN need_flush : need_flush[k] = s => (Ahead(k) <=> Ahead(k)')
    BY <1>1, <2>1, SMTT(40) DEF Ahead
  <2> QED  BY <2>1, <2>2, Zenon DEF IsAhead
<1>3. CASE ~(client.i < Len(need_flush))
  <2>1. need_flush' = << >>
    BY <1>3, Zenon DEF NextToFlush
  <2>2. ~IsAhead(s)
    BY <1>1, <1>3 DEF IsAhead, Ahead
  <2> QED  BY <2>1, <2>2, SMTT(40) DEF IsAhead
<1> QED  BY <1>2, <1>3, Zenon

\* Send keeps the invariant.
LEMMA SendKeeps ==
    ASSUME WakeInv, NEW t \in Stores, Send(t)
    PROVE  WakeInv'
<1>1. ClientTypeOK /\ DirtyIsAhead /\ (\A s \in Stores : CallInv(s))
  BY Zenon DEF WakeInv
<1>2. waker' = waker /\ next' = next + 1 /\ client.pc = "idle"
  BY Zenon DEF Send
<1>3. /\ call' \in [Stores -> CallType]
      /\ \A s \in Stores : call'[s] = call[s] \/ call'[s].pc = "backoff"
  <2>1. call' = call \/ call' = [call EXCEPT ![t] = [call[t] EXCEPT !.pc = "backoff"]]
    BY Zenon DEF Send
  <2>2. call \in [Stores -> CallType]
    BY <1>1, Zenon DEF ClientTypeOK
  <2>3. [call[t] EXCEPT !.pc = "backoff"] \in CallType
    BY <2>2, ZenonT(40) DEF CallType, CallStates
  <2>4. [call[t] EXCEPT !.pc = "backoff"].pc = "backoff"
    BY <2>2, Zenon DEF CallType
  <2> QED  BY <2>1, <2>2, <2>3, <2>4, ZenonT(40)
<1>4. CASE Len(queue[t]) < QueueCap
  <2>1. /\ queue' = [queue EXCEPT ![t] = Append(queue[t], next)]
        /\ cache' = MarkedDirty(Found(t), t)
        /\ need_flush' = IF Found(t).map[t] THEN need_flush ELSE Append(need_flush, t)
        /\ client' = client
    BY <1>4, Zenon DEF Send
  <2>2. ClientTypeOK'
    <3>1. queue \in [Stores -> Seq(Nat)] /\ next \in Nat
      BY <1>1, Zenon DEF ClientTypeOK
    <3>2. Append(queue[t], next) \in Seq(Nat)
      BY <3>1, SMTT(40)
    <3>3. queue' \in [Stores -> Seq(Nat)]
      BY <2>1, <3>1, <3>2, Zenon
    <3>4. need_flush' \in Seq(Stores)
      BY <1>1, <2>1, SMTT(40) DEF ClientTypeOK
    <3> QED  BY <1>1, <1>2, <1>3, <2>1, <3>3, <3>4 DEF ClientTypeOK
  <2>3. \A s \in Stores : IsAhead(s) => IsAhead(s)'
    <3>1. /\ DOMAIN need_flush \subseteq DOMAIN need_flush'
          /\ \A k \in DOMAIN need_flush : need_flush'[k] = need_flush[k]
      <4>1. need_flush \in Seq(Stores)
        BY <1>1, Zenon DEF ClientTypeOK
      <4>2. need_flush' = need_flush \/ need_flush' = Append(need_flush, t)
        BY <2>1, Zenon
      <4> QED  BY <4>1, <4>2, SMTT(40)
    <3> QED  BY <1>2, <2>1, <3>1, Zenon DEF IsAhead, Ahead
  <2>4. IsAhead(t)'
    <3>1. CASE Found(t).map[t]
      <4>1. Has(cache, t) /\ cache.map[t]
        BY <3>1, FoundMap, ZenonT(40)
      <4> QED  BY <1>1, <1>2, <2>3, <4>1, Zenon DEF DirtyIsAhead
    <3>2. CASE ~Found(t).map[t]
      <4>1. need_flush' = Append(need_flush, t) /\ need_flush \in Seq(Stores)
        BY <1>1, <2>1, <3>2, Zenon DEF ClientTypeOK
      <4>2. Len(need_flush) + 1 \in DOMAIN need_flush' /\ need_flush'[Len(need_flush) + 1] = t
        BY <4>1
      <4> QED  BY <1>2, <2>1, <4>2, Zenon DEF IsAhead, Ahead
    <3> QED  BY <3>1, <3>2, Zenon
  <2>5. t \in DOMAIN cache'.map /\ cache'.map[t] = TRUE
    BY <2>1, Zenon DEF MarkedDirty, get_mut, maybe_promote, MapWith, Cache
  <2>6. ASSUME NEW s \in Stores \ {t}, s \in DOMAIN cache'.map
        PROVE  s \in DOMAIN cache.map /\ cache'.map[s] = cache.map[s]
    <3>1. s \in DOMAIN Found(t).map /\ cache'.map[s] = Found(t).map[s]
      BY <2>1, <2>6, Zenon DEF MarkedDirty, get_mut, maybe_promote, MapWith, Cache
    <3> QED  BY <3>1, FoundMap, ZenonT(40)
  <2>7. DirtyIsAhead'
    BY <1>1, <1>2, <2>1, <2>3, <2>4, <2>6, ZenonT(40) DEF DirtyIsAhead, Has
  <2>8. ASSUME NEW s \in Stores PROVE CallInv(s)'
    <3>1. s = t => WillTake(s)'
      BY <2>4, <2>5, Zenon DEF WillTake, Has
    <3>2. WillTake(s) => WillTake(s)'
      BY <1>2, <2>1, <2>3, <2>6, <3>1, Zenon DEF WillTake, Has
    <3>3. queue'[s] = queue[s] \/ WillTake(s)'
      BY <1>1, <2>1, <3>1, Zenon DEF ClientTypeOK
    <3>4. CASE call'[s] = call[s]
      BY <1>1, <1>2, <3>2, <3>3, <3>4, Zenon DEF CallInv, WillWake, FoundEmpty
    <3>5. CASE call'[s].pc = "backoff"
      BY <3>5, Zenon DEF CallInv, FoundEmpty, Running
    <3> QED  BY <1>3, <3>4, <3>5, Zenon
  <2> QED  BY <2>2, <2>7, <2>8, Zenon DEF WakeInv
<1>5. CASE ~(Len(queue[t]) < QueueCap)
  <2>1. /\ client' = [pc |-> "panicked", i |-> 0] /\ queue' = queue
        /\ cache' = cache /\ need_flush' = need_flush
    BY <1>5, Zenon DEF Send
  <2>2. ClientTypeOK'
    BY <1>1, <1>2, <1>3, <2>1, SMTT(40) DEF ClientTypeOK
  <2>3. DirtyIsAhead'
    BY <2>1, Zenon DEF DirtyIsAhead
  <2>4. ASSUME NEW s \in Stores PROVE CallInv(s)'
    <3>1. WillTake(s)'
      BY <2>1, Zenon DEF WillTake
    <3>4. CASE call'[s] = call[s]
      BY <1>1, <1>2, <3>1, <3>4, Zenon DEF CallInv, WillWake, FoundEmpty
    <3>5. CASE call'[s].pc = "backoff"
      BY <3>5, Zenon DEF CallInv, FoundEmpty, Running
    <3> QED  BY <1>3, <3>4, <3>5, Zenon
  <2> QED  BY <2>2, <2>3, <2>4, Zenon DEF WakeInv
<1> QED  BY <1>4, <1>5, Zenon

\* Flush begins with everything ahead.
LEMMA FlushKeeps == WakeInv /\ Flush => WakeInv'
<1> SUFFICES ASSUME WakeInv, Flush PROVE WakeInv'
  BY Zenon
<1>1. ClientTypeOK /\ DirtyIsAhead /\ (\A s \in Stores : CallInv(s))
  BY Zenon DEF WakeInv
<1>2. /\ client.pc = "idle" /\ client'.pc = "flush" /\ client'.i = 1
      /\ client' = [pc |-> "flush", i |-> 1] /\ need_flush # << >>
      /\ cache' = cache /\ need_flush' = need_flush /\ next' = next
      /\ queue' = queue /\ waker' = waker /\ call' = call
  BY Zenon DEF Flush
<1>3. ClientTypeOK'
  BY <1>1, <1>2, SMTT(40) DEF ClientTypeOK
<1>4. \A s \in Stores : IsAhead(s) => IsAhead(s)'
  BY <1>1, <1>2, SMTT(40) DEF IsAhead, Ahead, ClientTypeOK
<1>5. DirtyIsAhead'
  BY <1>1, <1>2, <1>4, Zenon DEF DirtyIsAhead
<1>6. \A s \in Stores : WillTake(s) => WillTake(s)'
  BY <1>2, <1>4, Zenon DEF WillTake
<1>7. \A s \in Stores : CallInv(s)'
  BY <1>1, <1>2, <1>6, Zenon DEF CallInv, WillWake, FoundEmpty
<1> QED  BY <1>3, <1>5, <1>7, Zenon DEF WakeInv

\* After a step to the next store the position in need_flush is still one.
LEMMA NextToFlushType ==
    ASSUME ClientTypeOK, client.pc \in {"flush", "take"}, NextToFlush
    PROVE  /\ client' \in [pc : {"idle", "flush"}, i : Nat]
           /\ client'.pc = "flush" => client'.i \in DOMAIN need_flush'
           /\ need_flush' \in Seq(Stores)
<1>1. client.i \in 1..Len(need_flush) /\ need_flush \in Seq(Stores) /\ client.i \in Nat
  BY SMTT(40) DEF ClientTypeOK
<1>2. CASE client.i < Len(need_flush)
  <2>1. client' = [pc |-> "flush", i |-> client.i + 1] /\ need_flush' = need_flush
    BY <1>2, Zenon DEF NextToFlush
  <2> QED  BY <1>1, <1>2, <2>1, SMTT(40)
<1>3. CASE ~(client.i < Len(need_flush))
  <2>1. client' = [pc |-> "idle", i |-> 0] /\ need_flush' = << >>
    BY <1>3, Zenon DEF NextToFlush
  <2> QED  BY <1>1, <2>1, SMTT(40)
<1> QED  BY <1>2, <1>3, Zenon

\* A store whose cached queue is dirty, or that is not cached, is notified.
LEMMA FlushStoreKeeps == WakeInv /\ FlushStore => WakeInv'
<1> SUFFICES ASSUME WakeInv, FlushStore PROVE WakeInv'
  BY Zenon
<1> DEFINE t == need_flush[client.i]
<1>1. ClientTypeOK /\ DirtyIsAhead /\ (\A s \in Stores : CallInv(s))
  BY Zenon DEF WakeInv
<1>2. /\ client.pc = "flush" /\ next' = next
      /\ queue' = queue /\ waker' = waker /\ call' = call
      /\ cache' = IF Has(cache, t) THEN MarkedClean(cache, t) ELSE cache
  BY Zenon DEF FlushStore, FlushedStore
<1>3. client.i \in DOMAIN need_flush /\ need_flush \in Seq(Stores) /\ client.i \in Nat /\ t \in Stores
  BY <1>1, <1>2, SMTT(40) DEF ClientTypeOK
<1>4. ~(t \in DOMAIN cache'.map /\ cache'.map[t])
  <2>1. CASE Has(cache, t)
    <3>1. cache' = MarkedClean(cache, t)
      BY <1>2, <2>1, Zenon
    <3> QED  BY <3>1, Zenon DEF MarkedClean, get_mut, maybe_promote, MapWith, Cache
  <2>2. CASE ~Has(cache, t)
    BY <1>2, <2>2, Zenon DEF Has
  <2> QED  BY <2>1, <2>2, Zenon
<1>5. ASSUME NEW s \in Stores, s # t
      PROVE  /\ s \in DOMAIN cache'.map <=> s \in DOMAIN cache.map
             /\ s \in DOMAIN cache.map => cache'.map[s] = cache.map[s]
  <2>1. CASE Has(cache, t)
    <3>1. cache' = MarkedClean(cache, t)
      BY <1>2, <2>1, Zenon
    <3> QED  BY <1>5, <3>1, Zenon DEF MarkedClean, get_mut, maybe_promote, MapWith, Cache
  <2>2. CASE ~Has(cache, t)
    BY <1>2, <2>2, Zenon
  <2> QED  BY <2>1, <2>2, Zenon
<1>6. CASE (Has(cache, t) => cache.map[t]) /\ queue[t] # << >>
  <2>1. client' = [pc |-> "take", i |-> client.i] /\ need_flush' = need_flush
    BY <1>6, Zenon DEF FlushStore, FlushedStore
  <2>2. ClientTypeOK'
    BY <1>1, <1>2, <1>3, <2>1, Zenon DEF ClientTypeOK
  <2>3. \A s \in Stores : s # t => (IsAhead(s) => IsAhead(s)')
    BY <1>2, <1>3, <2>1, SMTT(40) DEF IsAhead, Ahead
  <2>4. DirtyIsAhead'
    BY <1>1, <1>2, <1>4, <1>5, <2>3, Zenon DEF DirtyIsAhead, Has
  <2>5. \A s \in Stores : s = t => WillTake(s)'
    BY <2>1, Zenon DEF WillTake
  <2>6. \A s \in Stores : s # t => (WillTake(s) => WillTake(s)')
    BY <1>2, <1>5, <2>3, Zenon DEF WillTake, Has
  <2>7. ASSUME NEW s \in Stores PROVE CallInv(s)'
    <3>1. queue[s] = << >> \/ WillTake(s)  => queue[s] = << >> \/ WillTake(s)'
      BY <2>5, <2>6, Zenon
    <3> QED  BY <1>1, <1>2, <3>1, Zenon DEF CallInv, WillWake, FoundEmpty
  <2> QED  BY <2>2, <2>4, <2>7, Zenon DEF WakeInv
<1>7. CASE ~((Has(cache, t) => cache.map[t]) /\ queue[t] # << >>)
  <2>1. NextToFlush
    BY <1>7, Zenon DEF FlushStore, FlushedStore
  <2>2. ClientTypeOK'
    <3>1. /\ client' \in [pc : {"idle", "flush"}, i : Nat]
          /\ client'.pc = "flush" => client'.i \in DOMAIN need_flush'
          /\ need_flush' \in Seq(Stores)
      BY <1>1, <1>2, <2>1, NextToFlushType, Zenon
    <3> QED  BY <1>1, <1>2, <3>1, Zenon DEF ClientTypeOK
  <2>3. \A s \in Stores : s # t => (IsAhead(s) <=> IsAhead(s)')
    BY <1>1, <1>2, <2>1, NextToFlushAhead, Zenon
  <2>4. DirtyIsAhead'
    BY <1>1, <1>2, <1>4, <1>5, <2>3, Zenon DEF DirtyIsAhead, Has
  <2>5. queue[t] = << >> \/ ~WillTake(t)
    BY <1>2, <1>7, Zenon DEF WillTake
  <2>6. \A s \in Stores : s # t => (WillTake(s) => WillTake(s)')
    BY <1>2, <1>5, <2>3, Zenon DEF WillTake, Has
  <2>7. ASSUME NEW s \in Stores PROVE CallInv(s)'
    <3>1. queue[s] = << >> \/ WillTake(s)  => queue[s] = << >> \/ WillTake(s)'
      BY <2>5, <2>6, Zenon
    <3> QED  BY <1>1, <1>2, <3>1, Zenon DEF CallInv, WillWake, FoundEmpty
  <2> QED  BY <2>2, <2>4, <2>7, Zenon DEF WakeInv
<1> QED  BY <1>6, <1>7, Zenon

\* Taking the waker wakes a call that has left it there.
LEMMA TakeWakerKeeps == WakeInv /\ TakeWaker => WakeInv'
<1> SUFFICES ASSUME WakeInv, TakeWaker PROVE WakeInv'
  BY Zenon
<1> DEFINE t == need_flush[client.i]
<1>1. ClientTypeOK /\ DirtyIsAhead /\ (\A s \in Stores : CallInv(s))
  BY Zenon DEF WakeInv
<1>2. /\ client.pc = "take" /\ next' = next /\ cache' = cache /\ queue' = queue
      /\ call' = IF waker[t] # 0 /\ waker[t] = call[t].id
                 THEN [call EXCEPT ![t] = Woken(call[t])] ELSE call
      /\ waker' = [waker EXCEPT ![t] = 0]
      /\ NextToFlush
  BY Zenon DEF TakeWaker, FlushedStore
<1>3. client.i \in DOMAIN need_flush /\ need_flush \in Seq(Stores) /\ t \in Stores
      /\ call[t] \in CallType /\ waker \in [Stores -> Nat] /\ call \in [Stores -> CallType]
  BY <1>1, <1>2, SMTT(40) DEF ClientTypeOK
<1>4. /\ Woken(call[t]) \in CallType
      /\ Woken(call[t]).pc = "fill" \/ Woken(call[t]).woken
      /\ Woken(call[t]).pc \notin {"parked", "blocked"}
      /\ Woken(call[t]).id = call[t].id
      /\ Running(Woken(call[t])) => Running(call[t])
  BY <1>3, ZenonT(40) DEF Woken, CallType, CallStates, Running
<1>5. ClientTypeOK'
  <2>1. /\ client' \in [pc : {"idle", "flush"}, i : Nat]
        /\ client'.pc = "flush" => client'.i \in DOMAIN need_flush'
        /\ need_flush' \in Seq(Stores)
    BY <1>1, <1>2, NextToFlushType, Zenon
  <2>2. call' \in [Stores -> CallType] /\ waker' \in [Stores -> Nat]
    BY <1>2, <1>3, <1>4, Zenon
  <2> QED  BY <1>1, <1>2, <2>1, <2>2, Zenon DEF ClientTypeOK
<1>6. \A s \in Stores : s # t => (IsAhead(s) <=> IsAhead(s)')
  BY <1>1, <1>2, NextToFlushAhead, Zenon
<1>7. \A s \in Stores : IsAhead(s) => IsAhead(s)'
  <2>1. CASE client.i < Len(need_flush)
    <3>1. client'.pc = "flush" /\ client'.i = client.i + 1 /\ need_flush' = need_flush
      BY <1>2, <2>1, SMTT(40) DEF NextToFlush
    <3> QED  BY <1>1, <1>2, <1>3, <3>1, SMTT(40) DEF IsAhead, Ahead, ClientTypeOK
  <2>2. CASE ~(client.i < Len(need_flush))
    BY <1>1, <1>2, <1>3, <2>2, SMTT(40) DEF IsAhead, Ahead, ClientTypeOK
  <2> QED  BY <2>1, <2>2, Zenon
<1>8. DirtyIsAhead'
  BY <1>1, <1>2, <1>7, Zenon DEF DirtyIsAhead
<1>9. ASSUME NEW s \in Stores PROVE CallInv(s)'
  <2>1. CASE s # t
    <3>1. WillTake(s) => WillTake(s)'
      BY <1>2, <1>7, <2>1, Zenon DEF WillTake
    <3>2. call'[s] = call[s] /\ waker'[s] = waker[s] /\ queue'[s] = queue[s]
      BY <1>2, <1>3, <2>1, Zenon
    <3> QED  BY <1>1, <3>1, <3>2, Zenon DEF CallInv, WillWake, FoundEmpty
  <2>2. CASE s = t /\ waker[t] # 0 /\ waker[t] = call[t].id
    <3>1. call'[s] = Woken(call[t])
      BY <1>2, <1>3, <2>2, Zenon
    <3>2. Running(call[t]) => call[t].id # 0
      BY <1>1, <2>2, Zenon DEF CallInv
    <3> QED  BY <1>4, <3>1, <3>2, ZenonT(40) DEF CallInv, WillWake, FoundEmpty
  <2>3. CASE s = t /\ ~(waker[t] # 0 /\ waker[t] = call[t].id)
    <3>1. call'[s] = call[s]
      BY <1>2, <2>3, Zenon
    <3>2. FoundEmpty(s) \/ call[s].pc = "repop" => call[s].woken
      BY <1>1, <2>3, Zenon DEF CallInv, WillWake, FoundEmpty, Running
    <3> QED  BY <1>1, <3>1, <3>2, Zenon DEF CallInv, WillWake, FoundEmpty
  <2> QED  BY <2>1, <2>2, <2>3, Zenon
<1> QED  BY <1>5, <1>8, <1>9, Zenon DEF WakeInv

-----------------------------------------------------------------------------
\* A step of the call to one store keeps the invariant if it keeps its own part.
LEMMA CallStepKeeps ==
    ASSUME WakeInv, NEW t \in Stores, UNCHANGED clientVars,
           NEW c \in CallType, call' = [call EXCEPT ![t] = c],
           queue' \in [Stores -> Seq(Nat)], waker' \in [Stores -> Nat],
           \A s \in Stores \ {t} : queue'[s] = queue[s] /\ waker'[s] = waker[s],
           CallInv(t)'
    PROVE  WakeInv'
<1>1. ClientTypeOK /\ DirtyIsAhead /\ (\A s \in Stores : CallInv(s))
  BY Zenon DEF WakeInv
<1>2. client' = client /\ cache' = cache /\ need_flush' = need_flush /\ next' = next
  BY Zenon DEF clientVars
<1>3. call \in [Stores -> CallType]
  BY <1>1, Zenon DEF ClientTypeOK
<1>4. ClientTypeOK'
  BY <1>1, <1>2, <1>3, Zenon DEF ClientTypeOK
<1>5. \A s \in Stores : (IsAhead(s) <=> IsAhead(s)') /\ (WillTake(s) <=> WillTake(s)')
  BY <1>2, ZenonT(40) DEF IsAhead, Ahead, WillTake
<1>6. DirtyIsAhead'
  BY <1>1, <1>2, <1>5, ZenonT(40) DEF DirtyIsAhead
<1>7. ASSUME NEW s \in Stores, s # t PROVE CallInv(s)'
  <2>1. call'[s] = call[s] /\ waker'[s] = waker[s] /\ queue'[s] = queue[s]
    BY <1>3, <1>7, ZenonT(40)
  <2> QED  BY <1>1, <1>5, <2>1, ZenonT(40) DEF CallInv, WillWake, FoundEmpty
<1> QED  BY <1>4, <1>6, <1>7, Zenon DEF WakeInv

\* The steps of a RaftCall.
LEMMA PollKeeps ==
    ASSUME WakeInv, NEW t \in Stores,
           Poll(t) \/ Block(t) \/ Unblock(t) \/ Break(t)
    PROVE  WakeInv'
<1>1. /\ call \in [Stores -> CallType] /\ call[t] \in CallType /\ queue \in [Stores -> Seq(Nat)]
      /\ waker \in [Stores -> Nat] /\ CallInv(t)
  BY Zenon DEF WakeInv, ClientTypeOK
<1>2. UNCHANGED clientVars
  BY ZenonT(40) DEF Poll, Block, Unblock, Break, FillPop, RegisterWaker, PopAgain, SendBuffered,
     Park, CleanUp
<1>3. CASE FillPop(t)
  <2>1. CASE Len(call[t].buffer) >= BufferCap
    <3> DEFINE c == [call[t] EXCEPT !.pc = "send"]
    <3>1. call' = [call EXCEPT ![t] = c] /\ queue' = queue /\ waker' = waker
      BY <1>3, <2>1, Zenon DEF FillPop
    <3>2. c \in CallType /\ c.buffer # << >> /\ c.id = call[t].id /\ c.pc = "send"
      <4>1. call[t].buffer # << >>
        BY <2>1 DEF BufferCap
      <4> QED  BY <1>1, <4>1, ZenonT(40) DEF CallType, CallStates
    <3>3. CallInv(t)'
      BY <1>1, <1>3, <3>1, <3>2, Zenon DEF CallInv, FoundEmpty, Running, FillPop
    <3> QED  BY <1>1, <1>2, <3>1, <3>2, <3>3, CallStepKeeps, ZenonT(40)
  <2>2. CASE ~(Len(call[t].buffer) >= BufferCap) /\ queue[t] = << >>
    <3> DEFINE c == [call[t] EXCEPT !.pc = "register"]
    <3>1. call' = [call EXCEPT ![t] = c] /\ queue' = queue /\ waker' = waker
      BY <1>3, <2>2, Zenon DEF FillPop
    <3>2. c \in CallType /\ c.id = call[t].id /\ c.pc = "register"
      BY <1>1, ZenonT(40) DEF CallType, CallStates
    <3>3. CallInv(t)'
      BY <1>1, <1>3, <3>1, <3>2, Zenon DEF CallInv, FoundEmpty, Running, FillPop
    <3> QED  BY <1>1, <1>2, <3>1, <3>2, <3>3, CallStepKeeps, ZenonT(40)
  <2>3. CASE ~(Len(call[t].buffer) >= BufferCap) /\ queue[t] # << >>
    <3> DEFINE c == [call[t] EXCEPT !.buffer = Append(call[t].buffer, Head(queue[t]))]
    <3>1. /\ call' = [call EXCEPT ![t] = c] /\ waker' = waker
          /\ queue' = [queue EXCEPT ![t] = Tail(queue[t])]
      BY <1>3, <2>3, Zenon DEF FillPop
    <3>2. Head(queue[t]) \in Nat /\ Tail(queue[t]) \in Seq(Nat)
      BY <1>1, <2>3
    <3>3. c \in CallType /\ c.id = call[t].id /\ c.pc = "fill"
      <4>1. call[t].buffer \in Seq(Nat)
        BY <1>1, Zenon DEF CallType
      <4>2. Append(call[t].buffer, Head(queue[t])) \in Seq(Nat)
        BY <3>2, <4>1
      <4> QED  BY <1>1, <1>3, <4>2, ZenonT(40) DEF CallType, FillPop
    <3>4. CallInv(t)'
      BY <1>1, <1>3, <3>1, <3>3, Zenon DEF CallInv, FoundEmpty, Running, FillPop
    <3>5. queue' \in [Stores -> Seq(Nat)] /\ \A s \in Stores \ {t} : queue'[s] = queue[s]
      BY <1>1, <3>1, <3>2, Zenon
    <3> QED  BY <1>1, <1>2, <3>1, <3>3, <3>4, <3>5, CallStepKeeps, ZenonT(40)
  <2> QED  BY <2>1, <2>2, <2>3, Zenon
<1>4. CASE RegisterWaker(t)
  <2> DEFINE c == [call[t] EXCEPT !.pc = "repop"]
  <2>1. /\ call' = [call EXCEPT ![t] = c] /\ queue' = queue
        /\ waker' = [waker EXCEPT ![t] = call[t].id] /\ call[t].pc = "register"
    BY <1>4, Zenon DEF RegisterWaker
  <2>2. c \in CallType /\ c.id = call[t].id /\ c.pc = "repop" /\ call[t].id \in Nat
    BY <1>1, ZenonT(40) DEF CallType, CallStates
  <2>3. waker' \in [Stores -> Nat] /\ waker'[t] = call[t].id
        /\ \A s \in Stores \ {t} : waker'[s] = waker[s]
    BY <1>1, <2>1, <2>2, Zenon
  <2>4. CallInv(t)'
    BY <1>1, <2>1, <2>2, <2>3, Zenon DEF CallInv, FoundEmpty, Running
  <2> QED  BY <1>1, <1>2, <2>1, <2>2, <2>3, <2>4, CallStepKeeps, ZenonT(40)
<1>5. CASE PopAgain(t)
  <2>1. CASE queue[t] = << >>
    <3> DEFINE c == [call[t] EXCEPT !.pc = "send"]
    <3>1. call' = [call EXCEPT ![t] = c] /\ queue' = queue /\ waker' = waker /\ call[t].pc = "repop"
      BY <1>5, <2>1, Zenon DEF PopAgain
    <3>2. c \in CallType /\ c.id = call[t].id /\ c.pc = "send" /\ c.woken = call[t].woken
      BY <1>1, ZenonT(40) DEF CallType, CallStates
    <3>3. CallInv(t)'
      BY <1>1, <2>1, <3>1, <3>2, Zenon DEF CallInv, FoundEmpty, Running, WillWake
    <3> QED  BY <1>1, <1>2, <3>1, <3>2, <3>3, CallStepKeeps, ZenonT(40)
  <2>2. CASE queue[t] # << >>
    <3> DEFINE c == [call[t] EXCEPT !.pc = "fill", !.buffer = Append(call[t].buffer, Head(queue[t]))]
    <3>1. /\ call' = [call EXCEPT ![t] = c] /\ waker' = waker /\ call[t].pc = "repop"
          /\ queue' = [queue EXCEPT ![t] = Tail(queue[t])]
      BY <1>5, <2>2, ZenonT(40) DEF PopAgain
    <3>2. Head(queue[t]) \in Nat /\ Tail(queue[t]) \in Seq(Nat)
      BY <1>1, <2>2
    <3>3. c \in CallType /\ c.id = call[t].id /\ c.pc = "fill"
      <4>1. call[t].buffer \in Seq(Nat)
        BY <1>1, Zenon DEF CallType
      <4>2. Append(call[t].buffer, Head(queue[t])) \in Seq(Nat)
        BY <3>2, <4>1
      <4> QED  BY <1>1, <4>2, ZenonT(40) DEF CallType, CallStates
    <3>4. CallInv(t)'
      BY <1>1, <3>1, <3>3, Zenon DEF CallInv, FoundEmpty, Running
    <3>5. queue' \in [Stores -> Seq(Nat)] /\ \A s \in Stores \ {t} : queue'[s] = queue[s]
      BY <1>1, <3>1, <3>2, Zenon
    <3> QED  BY <1>1, <1>2, <3>1, <3>3, <3>4, <3>5, CallStepKeeps, ZenonT(40)
  <2> QED  BY <2>1, <2>2, Zenon
<1>6. CASE SendBuffered(t)
  <2> DEFINE c == [call[t] EXCEPT !.pc = "fill", !.buffer = Tail(call[t].buffer)]
  <2>1. /\ call' = [call EXCEPT ![t] = c] /\ queue' = queue /\ waker' = waker
        /\ call[t].pc = "send" /\ call[t].buffer # << >>
    BY <1>6, ZenonT(40) DEF SendBuffered
  <2>2. c \in CallType /\ c.id = call[t].id /\ c.pc = "fill"
    <3>1. call[t].buffer \in Seq(Nat)
      BY <1>1, Zenon DEF CallType
    <3>2. Tail(call[t].buffer) \in Seq(Nat)
      BY <2>1, <3>1
    <3> QED  BY <1>1, <3>2, ZenonT(40) DEF CallType, CallStates
  <2>3. CallInv(t)'
    BY <1>1, <2>1, <2>2, Zenon DEF CallInv, FoundEmpty, Running
  <2> QED  BY <1>1, <1>2, <2>1, <2>2, <2>3, CallStepKeeps, ZenonT(40)
<1>7. CASE Block(t)
  <2> DEFINE c == Pend(call[t], "blocked")
  <2>1. /\ call' = [call EXCEPT ![t] = c] /\ queue' = queue /\ waker' = waker
        /\ call[t].pc = "send"
    BY <1>7, Zenon DEF Block
  <2>2. c \in CallType /\ c.id = call[t].id /\ c.pc \in {"fill", "blocked"}
    BY <1>1, ZenonT(40) DEF CallType, CallStates, Pend
  <2>3. CallInv(t)'
    BY <1>1, <2>1, <2>2, ZenonT(40) DEF CallInv, FoundEmpty, Running
  <2> QED  BY <1>1, <1>2, <2>1, <2>2, <2>3, CallStepKeeps, ZenonT(40)
<1>8. CASE Park(t)
  <2> DEFINE c == Pend(call[t], "parked")
  <2>1. /\ call' = [call EXCEPT ![t] = c] /\ queue' = queue /\ waker' = waker
        /\ call[t].pc = "send" /\ call[t].buffer = << >>
    BY <1>8, Zenon DEF Park
  <2>2. /\ c \in CallType /\ c.id = call[t].id /\ c.buffer = << >>
        /\ c.pc = "fill" \/ (c.pc = "parked" /\ ~call[t].woken /\ ~c.woken)
    BY <1>1, <2>1, ZenonT(40) DEF CallType, CallStates, Pend
  <2>3. WillTake(t)' <=> WillTake(t)
    BY <1>2, ZenonT(40) DEF WillTake, IsAhead, Ahead, clientVars
  <2>4. CallInv(t)'
    <3>1. CASE c.pc = "fill"
      BY <1>1, <2>1, <2>2, <3>1, ZenonT(40) DEF CallInv, FoundEmpty, Running
    <3>2. CASE c.pc = "parked" /\ ~call[t].woken /\ ~c.woken
      BY <1>1, <2>1, <2>2, <2>3, <3>2, ZenonT(40) DEF CallInv, FoundEmpty, Running, WillWake
    <3> QED  BY <2>2, <3>1, <3>2, Zenon
  <2> QED  BY <1>1, <1>2, <2>1, <2>2, <2>4, CallStepKeeps, ZenonT(40)
<1>9. CASE CleanUp(t)
  <2>1. PICK how \in {"aborted", "fallback"} :
          call' = [call EXCEPT ![t] = [call[t] EXCEPT !.pc = how, !.buffer = << >>, !.woken = FALSE]]
    BY <1>9, ZenonT(40) DEF CleanUp
  <2> DEFINE c == [call[t] EXCEPT !.pc = how, !.buffer = << >>, !.woken = FALSE]
  <2>2. queue' = queue /\ waker' = waker
    BY <1>9, Zenon DEF CleanUp
  <2>3. c \in CallType /\ c.pc = how
    <3>1. << >> \in Seq(Nat)
      OBVIOUS
    <3> QED  BY <1>1, <3>1, ZenonT(40) DEF CallType, CallStates
  <2>4. CallInv(t)'
    BY <1>1, <2>1, <2>3, Zenon DEF CallInv, FoundEmpty, Running
  <2> QED  BY <1>1, <1>2, <2>1, <2>2, <2>3, <2>4, CallStepKeeps, ZenonT(40)
<1>10. CASE Unblock(t)
  <2> DEFINE c == [call[t] EXCEPT !.pc = "fill"]
  <2>1. /\ call' = [call EXCEPT ![t] = c] /\ queue' = queue /\ waker' = waker
        /\ call[t].pc = "blocked"
    BY <1>10, Zenon DEF Unblock
  <2>2. c \in CallType /\ c.id = call[t].id /\ c.pc = "fill"
    BY <1>1, ZenonT(40) DEF CallType, CallStates
  <2>3. CallInv(t)'
    BY <1>1, <2>1, <2>2, Zenon DEF CallInv, FoundEmpty, Running
  <2> QED  BY <1>1, <1>2, <2>1, <2>2, <2>3, CallStepKeeps, ZenonT(40)
<1>11. CASE Break(t)
  <2> DEFINE c == [Woken(call[t]) EXCEPT !.broken = TRUE]
  <2>1. /\ call' = [call EXCEPT ![t] = c] /\ queue' = queue /\ waker' = waker
        /\ Running(call[t])
    BY <1>11, Zenon DEF Break
  <2>2. /\ c \in CallType /\ c.id = call[t].id /\ c.pc # "parked"
        /\ c.pc = "fill" \/ c.woken
    BY <1>1, ZenonT(40) DEF CallType, CallStates, Woken
  <2>3. CallInv(t)'
    BY <1>1, <2>1, <2>2, Zenon DEF CallInv, FoundEmpty, Running, WillWake
  <2> QED  BY <1>1, <1>2, <2>1, <2>2, <2>3, CallStepKeeps, ZenonT(40)
<1> QED  BY <1>3, <1>4, <1>5, <1>6, <1>7, <1>8, <1>9, <1>10, <1>11, Zenon DEF Poll

\* The steps of a back end: no call runs before Connect, and a new one polls first.
LEMMA BackEndKeeps ==
    ASSUME WakeInv, NEW t \in Stores, BackEnd(t)
    PROVE  WakeInv'
<1>1. /\ call \in [Stores -> CallType] /\ call[t] \in CallType /\ queue \in [Stores -> Seq(Nat)]
      /\ waker \in [Stores -> Nat] /\ CallInv(t)
  BY Zenon DEF WakeInv, ClientTypeOK
<1>2. UNCHANGED clientVars /\ waker' = waker
  BY Zenon DEF BackEnd, Connect, Aborted, ClearPending
<1>3. CASE Connect(t)
  <2>1. PICK r \in {call[t].retry_times + 1, 2} :
          call' = [call EXCEPT ![t] = Call("fill", call[t].id + 1, r)]
    BY <1>3, ZenonT(40) DEF Connect
  <2> DEFINE c == Call("fill", call[t].id + 1, r)
  <2>2. queue' = queue
    BY <1>3, Zenon DEF Connect
  <2>3. c \in CallType /\ c.pc = "fill" /\ c.id # 0
    <3>1. << >> \in Seq(Nat)
      OBVIOUS
    <3>2. call[t].id \in Nat /\ r \in Nat
      BY <1>1, SMTT(40) DEF CallType
    <3>4. c.pc = "fill" /\ c.id # 0
      BY <3>2, SMTT(40) DEF Call
    <3>5. c \in CallType
      BY <3>1, <3>2, SMTT(40) DEF CallType, CallStates, Call
    <3> QED  BY <3>4, <3>5, Zenon
  <2>4. CallInv(t)'
    BY <1>1, <2>1, <2>3, ZenonT(40) DEF CallInv, FoundEmpty, Running
  <2> QED  BY <1>1, <1>2, <2>1, <2>2, <2>3, <2>4, CallStepKeeps, ZenonT(40)
<1>4. CASE Aborted(t)
  <2>1. Len(queue[t]) \in Nat
    BY <1>1
  <2>2. PICK c \in {[call[t] EXCEPT !.pc = "clear", !.drop = Len(queue[t])],
                    [call[t] EXCEPT !.pc = "backoff"]} : call' = [call EXCEPT ![t] = c]
    BY <1>4, ZenonT(40) DEF Aborted
  <2>3. queue' = queue
    BY <1>4, Zenon DEF Aborted
  <2>4. c \in CallType /\ c.pc \in {"clear", "backoff"}
    BY <1>1, <2>1, ZenonT(40) DEF CallType, CallStates
  <2>5. CallInv(t)'
    BY <1>1, <2>2, <2>4, Zenon DEF CallInv, FoundEmpty, Running
  <2> QED  BY <1>1, <1>2, <2>2, <2>3, <2>4, <2>5, CallStepKeeps, ZenonT(40)
<1>5. CASE ClearPending(t)
  <2>1. CASE call[t].drop = 0 \/ queue[t] = << >>
    <3>1. PICK c \in {[call[t] EXCEPT !.pc = "backoff"], [call[t] EXCEPT !.pc = "panicked"]} :
            call' = [call EXCEPT ![t] = c]
      BY <1>5, <2>1, Zenon DEF ClearPending
    <3>2. queue' = queue
      BY <1>5, <2>1, Zenon DEF ClearPending
    <3>3. c \in CallType /\ c.pc \in {"backoff", "panicked"}
      BY <1>1, ZenonT(40) DEF CallType, CallStates
    <3>4. CallInv(t)'
      BY <1>1, <3>1, <3>3, Zenon DEF CallInv, FoundEmpty, Running
    <3> QED  BY <1>1, <1>2, <3>1, <3>2, <3>3, <3>4, CallStepKeeps, ZenonT(40)
  <2>2. CASE ~(call[t].drop = 0 \/ queue[t] = << >>)
    <3> DEFINE c == [call[t] EXCEPT !.drop = call[t].drop - 1]
    <3>1. /\ call' = [call EXCEPT ![t] = c] /\ queue' = [queue EXCEPT ![t] = Tail(queue[t])]
          /\ call[t].pc = "clear"
      BY <1>5, <2>2, Zenon DEF ClearPending
    <3>2. c \in CallType /\ c.pc = "clear"
      <4>1. call[t].drop \in Nat
        BY <1>1, Zenon DEF CallType
      <4>2. call[t].drop - 1 \in Nat
        BY <2>2, <4>1
      <4> QED  BY <1>1, <3>1, <4>2, ZenonT(40) DEF CallType
    <3>3. queue' \in [Stores -> Seq(Nat)] /\ \A s \in Stores \ {t} : queue'[s] = queue[s]
      BY <1>1, <2>2, <3>1, SMTT(40)
    <3>4. CallInv(t)'
      BY <1>1, <3>1, <3>2, Zenon DEF CallInv, FoundEmpty, Running
    <3> QED  BY <1>1, <1>2, <3>1, <3>2, <3>3, <3>4, CallStepKeeps, ZenonT(40)
  <2> QED  BY <2>1, <2>2, Zenon
<1> QED  BY <1>3, <1>4, <1>5, Zenon DEF BackEnd

\* The variables of the streams play no part.
LEMMA OtherKeeps ==
    ASSUME WakeInv, UNCHANGED <<clientVars, queue, waker, call>>
    PROVE  WakeInv'
  BY ZenonT(40) DEF WakeInv, clientVars, ClientTypeOK, DirtyIsAhead, IsAhead, Ahead, CallInv,
     WillWake,
         WillTake, FoundEmpty

\* The invariant of the wake-ups holds in every reachable state.
LEMMA WakeInvariance == Spec => []WakeInv
<1>1. WakeInv /\ [Next]_vars => WakeInv'
  <2> SUFFICES ASSUME WakeInv, [Next]_vars PROVE WakeInv'
    BY Zenon
  <2>1. ASSUME NEW s \in Stores, Send(s) PROVE WakeInv'
    BY <2>1, SendKeeps, Zenon
  <2>2. CASE ClientStep
    BY <2>2, FlushKeeps, FlushStoreKeeps, TakeWakerKeeps, Zenon DEF ClientStep
  <2>3. ASSUME NEW s \in Stores, Poll(s) \/ Block(s) \/ Unblock(s) \/ Break(s) PROVE WakeInv'
    BY <2>3, PollKeeps, Zenon
  <2>4. ASSUME NEW s \in Stores, BackEnd(s) PROVE WakeInv'
    BY <2>4, BackEndKeeps, Zenon
  <2>5. ASSUME NEW s \in Stores, Deliver(s) PROVE WakeInv'
    BY <2>5, OtherKeeps, Zenon DEF Deliver
  <2>6. CASE UNCHANGED vars
    BY <2>6, OtherKeeps, Zenon DEF vars
  <2> QED  BY <2>1, <2>2, <2>3, <2>4, <2>5, <2>6, Zenon DEF Next
<1> QED  BY <1>1, WakeInit, PTL DEF Spec

\* No wake-up is lost, for any number of stores, messages and broken connections.
THEOREM NoWakeupIsLost == Spec => []NoLostWakeup
<1>1. WakeInv => NoLostWakeup
  <2> SUFFICES ASSUME WakeInv, NEW s \in Stores, call[s].pc = "parked", queue[s] # << >>,
                      client.pc # "panicked"
               PROVE  waker[s] = call[s].id /\ ToBeNotified(s)
    BY Zenon DEF NoLostWakeup
  <2>1. waker[s] = call[s].id /\ WillTake(s)
    BY Zenon DEF WakeInv, CallInv, FoundEmpty, WillWake
  <2>2. ToBeNotified(s)
    BY <2>1, SMTT(40) DEF WillTake, IsAhead, Ahead, ToBeNotified, WakeInv, ClientTypeOK
  <2> QED  BY <2>1, <2>2, Zenon
<1> QED  BY <1>1, WakeInvariance, PTL

-----------------------------------------------------------------------------
CacheInv ==
    /\ IsFiniteSet(pool) /\ need_flush \in Seq(Stores)
    /\ cache.capacity \in Nat
    /\ DirtyIsCached

\* load_stream evicts nothing: the pool has the key that is not in the cache, so
\* that the resized cache has room for it.
LEMMA LoadedEvictsNothing ==
    ASSUME CacheInv, NEW t \in Stores, ~Has(cache, t)
    PROVE  /\ Loaded(cache, t).map = MapWith(cache.map, t, FALSE)
           /\ Loaded(cache, t).capacity = Cardinality(pool \cup {t})
<1> DEFINE D == DOMAIN cache.map
           P == pool \cup {t}
           n == Cardinality(P)
<1>1. IsFiniteSet(P) /\ D \subseteq P /\ t \in P \ D
  <2>1. D \subseteq pool /\ IsFiniteSet(pool)
    BY Zenon DEF CacheInv, DirtyIsCached
  <2>2. IsFiniteSet(P)
    BY <2>1, FS_AddElement, Zenon
  <2> QED  BY <2>1, <2>2, Zenon DEF Has
<1>2. IsFiniteSet(D) /\ Cardinality(D) \in Nat /\ n \in Nat /\ Cardinality(D) <= n
      /\ (Cardinality(D) = n => D = P)
  BY <1>1, FS_Subset, FS_CardinalityType, Zenon
<1>3. Cardinality(D) < n
  BY <1>1, <1>2, SMTT(40)
<1>4. resize(cache, n).map = cache.map /\ resize(cache, n).capacity = n
  <2>1. AtLeastOne(n) = n
    BY <1>2, <1>3, SMTT(40) DEF AtLeastOne
  <2>2. ~(Size(cache) > n)
    BY <1>2, <1>3, SMTT(40) DEF Size
  <2> QED  BY <2>1, <2>2, ZenonT(40) DEF resize, Cache
<1>5. ~(n <= Size(resize(cache, n))) /\ DOMAIN resize(cache, n).map = D
  <2>1. DOMAIN resize(cache, n).map = D
    BY <1>4, Zenon
  <2> QED  BY <2>1, <1>2, <1>3, SMTT(40) DEF Size
<1>6. /\ insert(resize(cache, n), t, FALSE).map = MapWith(cache.map, t, FALSE)
      /\ insert(resize(cache, n), t, FALSE).capacity = n
  BY <1>4, <1>5, ZenonT(40) DEF insert, Cache
<1> QED  BY <1>6, ZenonT(40) DEF Loaded

\* After `send' the cache holds the queue of the store, and all others it held.
LEMMA FoundKeepsAll ==
    ASSUME CacheInv, NEW t \in Stores
    PROVE  /\ DOMAIN Found(t).map = DOMAIN cache.map \cup {t}
           /\ Cardinality(DOMAIN cache.map \cup {t}) <= Found(t).capacity
           /\ Found(t).capacity \in Nat
<1>1. CASE Has(cache, t)
  <2>1. Found(t) = cache /\ DOMAIN cache.map \cup {t} = DOMAIN cache.map
    BY <1>1, Zenon DEF Found, Has
  <2> QED  BY <2>1, ZenonT(40) DEF CacheInv, DirtyIsCached, Size
<1>2. CASE ~Has(cache, t)
  <2>1. /\ Found(t).map = MapWith(cache.map, t, FALSE)
        /\ Found(t).capacity = Cardinality(pool \cup {t})
    BY <1>2, LoadedEvictsNothing, ZenonT(40) DEF Found
  <2>2. IsFiniteSet(pool \cup {t}) /\ DOMAIN cache.map \cup {t} \subseteq pool \cup {t}
    BY FS_AddElement, ZenonT(40) DEF CacheInv, DirtyIsCached
  <2>3. DOMAIN Found(t).map = DOMAIN cache.map \cup {t}
    BY <2>1, Zenon DEF MapWith
  <2>4. /\ Cardinality(DOMAIN cache.map \cup {t}) <= Cardinality(pool \cup {t})
        /\ Cardinality(pool \cup {t}) \in Nat
    BY <2>2, FS_Subset, FS_CardinalityType, Zenon
  <2> QED  BY <2>1, <2>3, <2>4, ZenonT(40)
<1> QED  BY <1>1, <1>2, ZenonT(40)

\* What DirtyIsCached says of need_flush holds of an empty one.
LEMMA CacheInvShrinks ==
    ASSUME CacheInv, pool' = pool, cache'.capacity = cache.capacity,
           DOMAIN cache'.map = DOMAIN cache.map,
           need_flush' = need_flush \/ need_flush' = << >>
    PROVE  CacheInv'
<1>1. need_flush' \in Seq(Stores) /\ DOMAIN need_flush' \subseteq DOMAIN need_flush
      /\ \A k \in DOMAIN need_flush' : need_flush'[k] = need_flush[k]
  <2>1. << >> \in Seq(Stores) /\ DOMAIN << >> = {}
    OBVIOUS
  <2> QED  BY <2>1, ZenonT(40) DEF CacheInv
<1>2. \A k \in DOMAIN need_flush' : need_flush'[k] \in DOMAIN cache'.map
  BY <1>1, Zenon DEF CacheInv, DirtyIsCached, Has
<1>3. DOMAIN cache'.map \subseteq pool' /\ Cardinality(DOMAIN cache'.map) <= cache'.capacity
      /\ IsFiniteSet(pool') /\ cache'.capacity \in Nat
  BY Zenon DEF CacheInv, DirtyIsCached, Size
<1> QED  BY <1>1, <1>2, <1>3, Zenon DEF CacheInv, DirtyIsCached, Size, Has

\* Every dirty queue stays in the cache, however many stores there are: the branch
\* of `flush' that looks for a queue in the pool is never taken.
THEOREM NothingIsEvicted == Spec => []DirtyIsCached
<1>1. Init => CacheInv
  <2> SUFFICES ASSUME Init PROVE CacheInv
    BY Zenon
  <2>1. /\ cache = Cache(<< >>, [k \in {} |-> FALSE], 1, 0) /\ pool = {} /\ need_flush = << >>
    BY Zenon DEF Init, with_capacity_and_sample, AtLeastOne
  <2>2. DOMAIN cache.map = {} /\ cache.capacity = 1
    BY <2>1, Zenon DEF Cache
  <2>3. IsFiniteSet({}) /\ Cardinality({}) = 0
    BY FS_EmptySet, Zenon
  <2>4. << >> \in Seq(Stores) /\ DOMAIN << >> = {}
    OBVIOUS
  <2>5. DirtyIsCached
    <3>1. \A k \in DOMAIN need_flush : Has(cache, need_flush[k])
      BY <2>1, <2>4, Zenon
    <3>2. Cardinality(DOMAIN cache.map) = 0
      BY <2>2, <2>3, Zenon
    <3> QED  BY <2>1, <2>2, <3>1, <3>2, SMTT(40) DEF DirtyIsCached, Size
  <2> QED  BY <2>1, <2>2, <2>3, <2>4, <2>5 DEF CacheInv
<1>2. CacheInv /\ [Next]_vars => CacheInv'
  <2> SUFFICES ASSUME CacheInv, [Next]_vars PROVE CacheInv'
    BY Zenon
  <2>1. ASSUME NEW t \in Stores, Send(t) PROVE CacheInv'
    <3>1. pool' = pool \cup {t}
      BY <2>1, Zenon DEF Send
    <3>2. IsFiniteSet(pool')
      BY <3>1, FS_AddElement, Zenon DEF CacheInv
    <3>3. CASE Len(queue[t]) < QueueCap
      <4>1. /\ cache' = MarkedDirty(Found(t), t)
            /\ need_flush' = need_flush \/ need_flush' = Append(need_flush, t)
        BY <2>1, <3>3, Zenon DEF Send
      <4>2. /\ DOMAIN cache'.map = DOMAIN cache.map \cup {t}
            /\ cache'.capacity = Found(t).capacity
        BY <4>1, FoundKeepsAll, ZenonT(40) DEF MarkedDirty, get_mut, maybe_promote, MapWith, Cache
      <4>3. need_flush' \in Seq(Stores) /\ need_flush \in Seq(Stores)
        BY <4>1, SMTT(40) DEF CacheInv
      <4>4. \A k \in DOMAIN need_flush' : need_flush'[k] = t \/ \E j \in DOMAIN need_flush : need_flush'[k] = need_flush[j]
        BY <4>1, <4>3, SMTT(40)
      <4>5. \A k \in DOMAIN need_flush' : need_flush'[k] \in DOMAIN cache'.map
        BY <4>2, <4>4, Zenon DEF CacheInv, DirtyIsCached, Has
      <4>6. DOMAIN cache'.map \subseteq pool'
        BY <3>1, <4>2, Zenon DEF CacheInv, DirtyIsCached
      <4>7. cache'.capacity \in Nat /\ Cardinality(DOMAIN cache'.map) <= cache'.capacity
        BY <4>2, FoundKeepsAll, ZenonT(40)
      <4> QED  BY <3>2, <4>3, <4>5, <4>6, <4>7, Zenon DEF CacheInv, DirtyIsCached, Size, Has
    <3>4. CASE ~(Len(queue[t]) < QueueCap)
      BY <2>1, <3>1, <3>2, <3>4, Zenon DEF Send, CacheInv, DirtyIsCached, Size, Has
    <3> QED  BY <3>3, <3>4, Zenon
  <2>2. CASE FlushStore
    <3>1. /\ pool' = pool
          /\ need_flush' = need_flush \/ need_flush' = << >>
          /\ cache' = cache \/ (Has(cache, FlushedStore) /\ cache' = MarkedClean(cache, FlushedStore))
      <4>1. NextToFlush => need_flush' = need_flush \/ need_flush' = << >>
        BY Zenon DEF NextToFlush
      <4> QED  BY <2>2, <4>1, Zenon DEF FlushStore
    <3>2. DOMAIN cache'.map = DOMAIN cache.map /\ cache'.capacity = cache.capacity
      <4>1. CASE cache' = cache
        BY <4>1, Zenon
      <4>2. CASE Has(cache, FlushedStore) /\ cache' = MarkedClean(cache, FlushedStore)
        <5>1. /\ DOMAIN cache'.map = DOMAIN cache.map \cup {FlushedStore}
              /\ cache'.capacity = cache.capacity
          BY <4>2, Zenon DEF MarkedClean, get_mut, maybe_promote, MapWith, Cache
        <5> QED  BY <4>2, <5>1, Zenon DEF Has
      <4> QED  BY <3>1, <4>1, <4>2, Zenon
    <3> QED  BY <3>1, <3>2, CacheInvShrinks, Zenon
  <2>3. CASE TakeWaker
    <3>1. /\ pool' = pool /\ cache' = cache
          /\ need_flush' = need_flush \/ need_flush' = << >>
      BY <2>3, Zenon DEF TakeWaker, NextToFlush
    <3> QED  BY <3>1, CacheInvShrinks, Zenon
  <2>4. ASSUME UNCHANGED <<cache, pool, need_flush>> PROVE CacheInv'
    BY <2>4, Zenon DEF CacheInv, DirtyIsCached, Size, Has
  <2>5. CASE Flush
    BY <2>4, <2>5, Zenon DEF Flush
  <2>6. ASSUME NEW s \in Stores,
               Poll(s) \/ Block(s) \/ Unblock(s) \/ BackEnd(s) \/ Break(s) \/ Deliver(s)
        PROVE  CacheInv'
    <3>1. UNCHANGED clientVars
      BY <2>6, ZenonT(40) DEF Poll, BackEnd, Block, Unblock, Break, Deliver, FillPop,
         RegisterWaker, PopAgain,
                  SendBuffered, Park, CleanUp, Connect, Aborted, ClearPending
    <3> QED  BY <2>4, <3>1, Zenon DEF clientVars
  <2>7. CASE UNCHANGED vars
    BY <2>4, <2>7, Zenon DEF vars, clientVars
  <2> QED  BY <2>1, <2>2, <2>3, <2>5, <2>6, <2>7, Zenon DEF Next, ClientStep
<1>3. CacheInv => DirtyIsCached
  BY Zenon DEF CacheInv
<1> QED  BY <1>1, <1>2, <1>3, PTL DEF Spec

-----------------------------------------------------------------------------
(* The order of the messages to one store, over the values of its queue q, *)
(* the buffer b of its call, its streams w, what has arrived a, and the    *)
(* next message n: the messages that have left for the store are older     *)
(* than those of the buffer, and these are older than those of the queue.  *)

Packet == [conn : Nat, msg : Nat]

Increasing(q) == \A i, j \in DOMAIN q : i < j => q[i] < q[j]

QueueOrder(q, n) == Increasing(q) /\ \A i \in DOMAIN q : q[i] < n

BufferOrder(b, q, n) ==
    Increasing(b) /\ \A i \in DOMAIN b : b[i] < n /\ \A j \in DOMAIN q : b[i] < q[j]

\* The packets p[i] are older than what the store still has.
Gone(p, b, q, n) ==
    \A i \in DOMAIN p : /\ p[i].msg < n
                        /\ \A j \in DOMAIN q : p[i].msg < q[j]
                        /\ \A j \in DOMAIN b : p[i].msg < b[j]

WireOrder(w) == \A i, j \in DOMAIN w : i < j => w[i].msg < w[j].msg

\* Packet x may arrive before y.
Precedes(x, y) == x.msg # y.msg /\ (x.conn = y.conn => x.msg < y.msg)

ArrivedOrder(a, w) ==
    /\ \A i \in DOMAIN a, j \in DOMAIN w : Precedes(a[i], w[j])
    /\ \A i, j \in DOMAIN a : i < j => Precedes(a[i], a[j])

OrderTypes(q, b, w, a, n) ==
    n \in Nat /\ q \in Seq(Nat) /\ b \in Seq(Nat) /\ w \in Seq(Packet) /\ a \in Seq(Packet)

Order(q, b, w, a, n) ==
    /\ OrderTypes(q, b, w, a, n)
    /\ QueueOrder(q, n) /\ BufferOrder(b, q, n)
    /\ Gone(w, b, q, n) /\ Gone(a, b, q, n)
    /\ WireOrder(w) /\ ArrivedOrder(a, w)

\* r is q without some of its elements.
Thins(r, q) ==
    \E f \in [DOMAIN r -> DOMAIN q] :
        \A i, j \in DOMAIN r : r[i] = q[f[i]] /\ (i < j => f[i] < f[j])

\* Losing nothing, and losing everything.
LEMMA ThinsItself == ASSUME NEW q PROVE Thins(q, q) /\ Thins(<< >>, q)
<1>1. [i \in DOMAIN q |-> i] \in [DOMAIN q -> DOMAIN q]
  BY Zenon
<1>2. Thins(q, q)
  BY <1>1, ZenonT(40) DEF Thins
<1>3. DOMAIN << >> = {}
  OBVIOUS
<1>4. [i \in {} |-> i] \in [DOMAIN << >> -> DOMAIN q]
  BY <1>3, Zenon
<1>5. Thins(<< >>, q)
  BY <1>3, <1>4, ZenonT(40) DEF Thins
<1> QED
  BY <1>2, <1>5, Zenon

\* The numbers in a queue, a buffer or a stream are natural numbers.
LEMMA OrderNumbers ==
    ASSUME NEW q, NEW b, NEW w, NEW a, NEW n, OrderTypes(q, b, w, a, n)
    PROVE  /\ n \in Nat
           /\ \A i \in DOMAIN q : q[i] \in Nat
           /\ \A i \in DOMAIN b : b[i] \in Nat
           /\ \A i \in DOMAIN w : w[i] \in Packet /\ w[i].msg \in Nat
           /\ \A i \in DOMAIN a : a[i] \in Packet /\ a[i].msg \in Nat
<1>1. \A p \in Packet : p.msg \in Nat
  BY Zenon DEF Packet
<1>2. \A i \in DOMAIN w : w[i] \in Packet
  BY DEF OrderTypes
<1>3. \A i \in DOMAIN a : a[i] \in Packet
  BY DEF OrderTypes
<1> QED
  BY <1>1, <1>2, <1>3 DEF OrderTypes

\* Appending to a sequence.
LEMMA AppendElements ==
    ASSUME NEW S, NEW q \in Seq(S), NEW x \in S
    PROVE  /\ Append(q, x) \in Seq(S)
           /\ DOMAIN Append(q, x) = DOMAIN q \cup {Len(q) + 1}
           /\ Len(q) \in Nat /\ Append(q, x)[Len(q) + 1] = x
           /\ \A i \in DOMAIN q : i \in Int /\ i < Len(q) + 1 /\ Append(q, x)[i] = q[i]
  BY SMTT(40)

\* Taking the head of a sequence leaves a thinner one of the elements behind it.
LEMMA TailThins ==
    ASSUME NEW S, NEW q \in Seq(S), q # << >>
    PROVE  /\ Tail(q) \in Seq(S) /\ Thins(Tail(q), q)
           /\ 1 \in DOMAIN q /\ Head(q) = q[1] /\ Head(q) \in S
           /\ \A i \in DOMAIN Tail(q) : i + 1 \in DOMAIN q /\ 1 < i + 1 /\ Tail(q)[i] = q[i + 1]
<1>1. /\ Tail(q) \in Seq(S) /\ DOMAIN Tail(q) = 1..Len(q) - 1 /\ DOMAIN q = 1..Len(q) /\ Len(q) \in Nat
      /\ 1 \in DOMAIN q /\ Head(q) = q[1] /\ Head(q) \in S
      /\ \A i \in 1..Len(q) - 1 : i + 1 \in 1..Len(q) /\ 1 < i + 1 /\ Tail(q)[i] = q[i + 1]
  BY SMTT(40)
<1> DEFINE f == [i \in DOMAIN Tail(q) |-> i + 1]
<1>2. f \in [DOMAIN Tail(q) -> DOMAIN q]
  BY <1>1, Zenon
<1>3. \A i, j \in DOMAIN Tail(q) : Tail(q)[i] = q[f[i]] /\ (i < j => f[i] < f[j])
  BY <1>1
<1>4. Thins(Tail(q), q)
  BY <1>2, <1>3, ZenonT(40) DEF Thins
<1> QED
  BY <1>1, <1>4, ZenonT(40)

\* Elements may be lost anywhere.
LEMMA OrderThins ==
    ASSUME NEW q, NEW b, NEW w, NEW a, NEW n, Order(q, b, w, a, n),
           NEW r, NEW c, NEW v, OrderTypes(r, c, v, a, n),
           Thins(r, q), Thins(c, b), Thins(v, w)
    PROVE  Order(r, c, v, a, n)
<1>1. PICK f \in [DOMAIN r -> DOMAIN q] :
        \A i, j \in DOMAIN r : r[i] = q[f[i]] /\ (i < j => f[i] < f[j])
  BY ZenonT(40) DEF Thins
<1>2. PICK g \in [DOMAIN c -> DOMAIN b] :
        \A i, j \in DOMAIN c : c[i] = b[g[i]] /\ (i < j => g[i] < g[j])
  BY ZenonT(40) DEF Thins
<1>3. PICK h \in [DOMAIN v -> DOMAIN w] :
        \A i, j \in DOMAIN v : v[i] = w[h[i]] /\ (i < j => h[i] < h[j])
  BY ZenonT(40) DEF Thins
<1>4. \A i \in DOMAIN r : f[i] \in DOMAIN q /\ r[i] = q[f[i]]
  BY <1>1, Zenon
<1>5. \A i \in DOMAIN c : g[i] \in DOMAIN b /\ c[i] = b[g[i]]
  BY <1>2, Zenon
<1>6. \A i \in DOMAIN v : h[i] \in DOMAIN w /\ v[i] = w[h[i]]
  BY <1>3, Zenon
<1>7. QueueOrder(r, n)
  BY <1>1, <1>4, ZenonT(40) DEF Order, QueueOrder, Increasing
<1>8. BufferOrder(c, r, n)
  <2>1. Increasing(b) /\ \A i \in DOMAIN b : b[i] < n /\ \A j \in DOMAIN q : b[i] < q[j]
    BY Zenon DEF Order, BufferOrder
  <2>2. Increasing(c)
    BY <1>2, <1>5, <2>1, ZenonT(40) DEF Increasing
  <2>3. \A i \in DOMAIN c : c[i] < n /\ \A j \in DOMAIN r : c[i] < r[j]
    BY <1>4, <1>5, <2>1, ZenonT(40)
  <2> QED
    BY <2>2, <2>3, Zenon DEF BufferOrder
<1>9. Gone(v, c, r, n)
  <2>1. Gone(w, b, q, n)
    BY Zenon DEF Order
  <2>2. \A i \in DOMAIN v : v[i].msg < n
    BY <1>6, <2>1, ZenonT(40) DEF Gone
  <2>3. \A i \in DOMAIN v : \A j \in DOMAIN r : v[i].msg < r[j]
    BY <1>4, <1>6, <2>1, ZenonT(40) DEF Gone
  <2>4. \A i \in DOMAIN v : \A j \in DOMAIN c : v[i].msg < c[j]
    BY <1>5, <1>6, <2>1, ZenonT(40) DEF Gone
  <2> QED
    BY <2>2, <2>3, <2>4, Zenon DEF Gone
<1>10. Gone(a, c, r, n)
  BY <1>4, <1>5, ZenonT(40) DEF Order, Gone
<1>11. WireOrder(v)
  BY <1>3, <1>6, ZenonT(40) DEF Order, WireOrder
<1>12. ArrivedOrder(a, v)
  BY <1>6, ZenonT(40) DEF Order, ArrivedOrder
<1> QED
  BY <1>7, <1>8, <1>9, <1>10, <1>11, <1>12, Zenon DEF Order

\* A new message is the youngest.
LEMMA OrderPush ==
    ASSUME NEW q, NEW b, NEW w, NEW a, NEW n, Order(q, b, w, a, n)
    PROVE  Order(Append(q, n), b, w, a, n + 1) /\ Order(q, b, w, a, n + 1)
<1> DEFINE r == Append(q, n)
<1>1. OrderTypes(q, b, w, a, n)
  BY Zenon DEF Order
<1>2. /\ r \in Seq(Nat) /\ DOMAIN r = DOMAIN q \cup {Len(q) + 1} /\ Len(q) \in Nat
      /\ r[Len(q) + 1] = n /\ \A i \in DOMAIN q : i \in Int /\ i < Len(q) + 1 /\ r[i] = q[i]
  BY <1>1, AppendElements DEF OrderTypes
<1>3. /\ n \in Nat
      /\ \A i \in DOMAIN q : q[i] \in Nat
      /\ \A i \in DOMAIN b : b[i] \in Nat
      /\ \A i \in DOMAIN w : w[i].msg \in Nat
      /\ \A i \in DOMAIN a : a[i].msg \in Nat
  BY <1>1, OrderNumbers, Zenon
<1> HIDE DEF r
<1>4. QueueOrder(r, n + 1) /\ QueueOrder(q, n + 1)
  <2>1. \A i \in DOMAIN q : q[i] < n /\ q[i] < n + 1
    BY <1>3 DEF Order, QueueOrder
  <2>2. Increasing(r)
    BY <1>2, <1>3, <2>1, SMTT(40) DEF Order, QueueOrder, Increasing
  <2>3. \A i \in DOMAIN r : r[i] < n + 1
    BY <1>2, <1>3, <2>1, SMTT(40)
  <2> QED
    BY <2>1, <2>2, <2>3, Zenon DEF Order, QueueOrder
<1>5. BufferOrder(b, r, n + 1) /\ BufferOrder(b, q, n + 1)
  BY <1>2, <1>3, SMTT(40) DEF Order, BufferOrder
<1>6. Gone(w, b, r, n + 1) /\ Gone(w, b, q, n + 1)
  BY <1>2, <1>3, SMTT(40) DEF Order, Gone
<1>7. Gone(a, b, r, n + 1) /\ Gone(a, b, q, n + 1)
  BY <1>2, <1>3, SMTT(40) DEF Order, Gone
<1>8. OrderTypes(r, b, w, a, n + 1) /\ OrderTypes(q, b, w, a, n + 1)
  BY <1>1, <1>2 DEF OrderTypes
<1> QED
  BY <1>4, <1>5, <1>6, <1>7, <1>8, Zenon DEF Order, r

\* fill_msg moves the oldest message of the queue to the end of the buffer.
LEMMA OrderFill ==
    ASSUME NEW q, NEW b, NEW w, NEW a, NEW n, Order(q, b, w, a, n), q # << >>
    PROVE  Order(Tail(q), Append(b, Head(q)), w, a, n)
<1> DEFINE r == Tail(q)
           x == Head(q)
           c == Append(b, x)
<1>1. OrderTypes(q, b, w, a, n)
  BY Zenon DEF Order
<1>2. /\ r \in Seq(Nat) /\ 1 \in DOMAIN q /\ x = q[1] /\ x \in Nat
      /\ \A i \in DOMAIN r : i + 1 \in DOMAIN q /\ 1 < i + 1 /\ r[i] = q[i + 1]
      /\ Thins(r, q)
  BY <1>1, TailThins, Zenon DEF OrderTypes
<1> HIDE DEF r, x
<1>3. /\ c \in Seq(Nat) /\ DOMAIN c = DOMAIN b \cup {Len(b) + 1} /\ Len(b) \in Nat
      /\ c[Len(b) + 1] = x /\ \A i \in DOMAIN b : i \in Int /\ i < Len(b) + 1 /\ c[i] = b[i]
  BY <1>1, <1>2, AppendElements DEF OrderTypes
<1> HIDE DEF c
<1>4. /\ n \in Nat
      /\ \A i \in DOMAIN b : b[i] \in Nat
      /\ \A i \in DOMAIN w : w[i].msg \in Nat
      /\ \A i \in DOMAIN a : a[i].msg \in Nat
  BY <1>1, OrderNumbers, Zenon
<1>5. x < n /\ \A i \in DOMAIN r : x < r[i]
  BY <1>2, ZenonT(40) DEF Order, QueueOrder, Increasing
<1>6. Order(r, b, w, a, n)
  <2>1. Thins(b, b) /\ Thins(w, w)
    BY ThinsItself, Zenon
  <2> QED
    BY <1>1, <1>2, <2>1, OrderThins, ZenonT(40) DEF OrderTypes
<1>7. \A i \in DOMAIN b : b[i] < x
  BY <1>2, Zenon DEF Order, BufferOrder
<1>8. BufferOrder(c, r, n)
  <2>1. Increasing(c)
    BY <1>2, <1>3, <1>4, <1>7, SMTT(40) DEF Order, BufferOrder, Increasing
  <2>2. \A i \in DOMAIN c : c[i] < n /\ \A j \in DOMAIN r : c[i] < r[j]
    BY <1>3, <1>5, <1>6, ZenonT(40) DEF Order, BufferOrder
  <2> QED
    BY <2>1, <2>2, Zenon DEF BufferOrder
<1>9. Gone(w, c, r, n) /\ Gone(a, c, r, n)
  <2>1. (\A i \in DOMAIN w : w[i].msg < x) /\ \A i \in DOMAIN a : a[i].msg < x
    BY <1>2, Zenon DEF Order, Gone
  <2> QED
    BY <1>3, <1>6, <2>1, ZenonT(40) DEF Order, Gone
<1> QED
  BY <1>1, <1>2, <1>3, <1>6, <1>8, <1>9, Zenon DEF Order, OrderTypes, r, c, x

\* The call writes the oldest message of its buffer to the end of the stream.
LEMMA OrderWrite ==
    ASSUME NEW q, NEW b, NEW w, NEW a, NEW n, Order(q, b, w, a, n), b # << >>, NEW id \in Nat
    PROVE  Order(q, Tail(b), Append(w, [conn |-> id, msg |-> Head(b)]), a, n)
<1> DEFINE c == Tail(b)
           x == Head(b)
           p == [conn |-> id, msg |-> x]
           v == Append(w, p)
<1>1. OrderTypes(q, b, w, a, n)
  BY Zenon DEF Order
<1>2. /\ c \in Seq(Nat) /\ 1 \in DOMAIN b /\ x = b[1] /\ x \in Nat
      /\ \A i \in DOMAIN c : i + 1 \in DOMAIN b /\ 1 < i + 1 /\ c[i] = b[i + 1]
      /\ Thins(c, b)
  BY <1>1, TailThins, Zenon DEF OrderTypes
<1> HIDE DEF c, x
<1>3. p \in Packet /\ p.msg = x /\ p.conn = id
  BY <1>2, Zenon DEF Packet
<1> HIDE DEF p
<1>4. /\ v \in Seq(Packet) /\ DOMAIN v = DOMAIN w \cup {Len(w) + 1} /\ Len(w) \in Nat
      /\ v[Len(w) + 1] = p /\ \A i \in DOMAIN w : i \in Int /\ i < Len(w) + 1 /\ v[i] = w[i]
  BY <1>1, <1>3, AppendElements DEF OrderTypes
<1> HIDE DEF v
<1>5. /\ \A i \in DOMAIN w : w[i].msg \in Nat
      /\ \A i \in DOMAIN a : a[i].msg \in Nat
  BY <1>1, OrderNumbers, Zenon
<1>6. x < n /\ (\A i \in DOMAIN c : x < c[i]) /\ \A i \in DOMAIN q : x < q[i]
  BY <1>2, ZenonT(40) DEF Order, BufferOrder, Increasing
<1>7. Order(q, c, w, a, n)
  <2>1. Thins(q, q) /\ Thins(w, w)
    BY ThinsItself, Zenon
  <2> QED
    BY <1>1, <1>2, <2>1, OrderThins, ZenonT(40) DEF OrderTypes
<1>8. (\A i \in DOMAIN w : w[i].msg < x) /\ \A i \in DOMAIN a : a[i].msg < x
  BY <1>2, Zenon DEF Order, Gone
<1>9. Gone(v, c, q, n)
  BY <1>3, <1>4, <1>6, <1>7, ZenonT(40) DEF Order, Gone
<1>10. WireOrder(v)
  <2> SUFFICES ASSUME NEW i \in DOMAIN v, NEW j \in DOMAIN v, i < j PROVE v[i].msg < v[j].msg
    BY Zenon DEF WireOrder
  <2>1. i \in DOMAIN w
    BY <1>4
  <2>2. CASE j \in DOMAIN w
    BY <1>4, <2>1, <2>2, Zenon DEF Order, WireOrder
  <2>3. CASE j = Len(w) + 1
    BY <1>3, <1>4, <1>8, <2>1, <2>3, Zenon
  <2> QED
    BY <1>4, <2>2, <2>3, Zenon
<1>11. ArrivedOrder(a, v)
  <2>1. \A i \in DOMAIN a : a[i].msg # x
    BY <1>2, <1>5, <1>8
  <2>2. \A i \in DOMAIN a : Precedes(a[i], p)
    BY <1>3, <1>8, <2>1, ZenonT(40) DEF Precedes
  <2> QED
    BY <1>4, <2>2, ZenonT(40) DEF Order, ArrivedOrder
<1> QED
  BY <1>1, <1>2, <1>4, <1>7, <1>9, <1>10, <1>11, Zenon DEF Order, OrderTypes, c, x, p, v

\* The elements of a concatenation.
LEMMA Concatenation ==
    ASSUME NEW S, NEW s \in Seq(S), NEW t \in Seq(S)
    PROVE  /\ s \o t \in Seq(S) /\ Len(s \o t) = Len(s) + Len(t)
           /\ \A k \in 1..Len(s)+Len(t) :
                 (s \o t)[k] = IF k <= Len(s) THEN s[k] ELSE t[k - Len(s)]
  BY SMTT(40)

\* Service::raft takes the oldest packet of one connection.
LEMMA OrderDeliver ==
    ASSUME NEW q, NEW b, NEW w, NEW a, NEW n, Order(q, b, w, a, n),
           NEW i \in DOMAIN w, \A j \in 1..i-1 : w[j].conn # w[i].conn
    PROVE  Order(q, b, SubSeq(w, 1, i-1) \o SubSeq(w, i+1, Len(w)), Append(a, w[i]), n)
<1> DEFINE v == SubSeq(w, 1, i-1) \o SubSeq(w, i+1, Len(w))
           f == [k \in 1..Len(w)-1 |-> IF k < i THEN k ELSE k + 1]
           d == Append(a, w[i])
<1>1. OrderTypes(q, b, w, a, n)
  BY Zenon DEF Order
<1>2. w \in Seq(Packet) /\ a \in Seq(Packet) /\ Len(w) \in Nat /\ DOMAIN w = 1..Len(w) /\ w[i] \in Packet
  BY <1>1 DEF OrderTypes
<1>3. v \in Seq(Packet) /\ DOMAIN v = 1..Len(w)-1 /\ \A k \in 1..Len(w)-1 : v[k] = w[f[k]]
  <2> DEFINE x == SubSeq(w, 1, i-1)
             y == SubSeq(w, i+1, Len(w))
  <2>1. x \in Seq(Packet) /\ Len(x) = i - 1 /\ \A k \in 1..i-1 : x[k] = w[k]
    BY <1>2, SMTT(40)
  <2>2. y \in Seq(Packet) /\ Len(y) = Len(w) - i /\ \A k \in 1..Len(w)-i : y[k] = w[k + i]
    BY <1>2, SMTT(40)
  <2>3. v = x \o y
    BY Zenon
  <2> HIDE DEF x, y, v
  <2>4. /\ v \in Seq(Packet) /\ Len(v) = Len(w) - 1
        /\ \A k \in 1..Len(w)-1 : v[k] = IF k <= i - 1 THEN x[k] ELSE y[k - (i - 1)]
    <3>1. Len(x) + Len(y) = Len(w) - 1 /\ i \in Int
      BY <1>2, <2>1, <2>2
    <3>2. /\ v \in Seq(Packet) /\ Len(v) = Len(x) + Len(y)
          /\ \A k \in 1..Len(x)+Len(y) : v[k] = IF k <= Len(x) THEN x[k] ELSE y[k - Len(x)]
      BY <2>1, <2>2, <2>3, Concatenation, ZenonT(40)
    <3>3. \A k \in 1..Len(w)-1 : v[k] = IF k <= i - 1 THEN x[k] ELSE y[k - (i - 1)]
      BY <2>1, <3>1, <3>2, ZenonT(40)
    <3> QED
      BY <3>1, <3>2, <3>3, Zenon
  <2>5. \A k \in 1..Len(w)-1 : v[k] = w[f[k]]
    <3> SUFFICES ASSUME NEW k \in 1..Len(w)-1 PROVE v[k] = w[f[k]]
      BY Zenon
    <3>1. CASE k < i
      BY <1>2, <2>1, <2>4, <3>1, SMTT(40)
    <3>2. CASE ~(k < i)
      <4>1. v[k] = y[k - (i - 1)] /\ k - (i - 1) \in 1..Len(w)-i
        BY <1>2, <2>4, <3>2, SMTT(40)
      <4>2. v[k] = w[k + 1]
        BY <1>2, <2>2, <4>1, SMTT(40)
      <4> QED
        BY <3>2, <4>2, ZenonT(40)
    <3> QED
      BY <3>1, <3>2, Zenon
  <2>6. DOMAIN v = 1..Len(w)-1
    BY <2>4
  <2> QED
    BY <2>4, <2>5, <2>6, Zenon
<1> HIDE DEF v
<1>4. /\ f \in [DOMAIN v -> DOMAIN w]
      /\ \A k, l \in DOMAIN v : k < l => f[k] < f[l]
      /\ \A k \in DOMAIN v : f[k] \in DOMAIN w /\ f[k] \in Int /\ f[k] # i
  BY <1>2, <1>3, SMTT(40)
<1> HIDE DEF f
<1>5. Order(q, b, v, a, n)
  <2>1. Thins(q, q) /\ Thins(b, b)
    BY ThinsItself, Zenon
  <2>2. Thins(v, w)
    BY <1>3, <1>4, ZenonT(40) DEF Thins
  <2> QED
    BY <1>1, <1>3, <2>1, <2>2, OrderThins, ZenonT(40) DEF OrderTypes
<1>6. /\ d \in Seq(Packet) /\ DOMAIN d = DOMAIN a \cup {Len(a) + 1} /\ Len(a) \in Nat
      /\ d[Len(a) + 1] = w[i] /\ \A k \in DOMAIN a : k \in Int /\ k < Len(a) + 1 /\ d[k] = a[k]
  BY <1>2, AppendElements
<1> HIDE DEF d
<1>7. Gone(d, b, q, n)
  BY <1>6, ZenonT(40) DEF Order, Gone
<1>8. ArrivedOrder(d, v)
  <2>1. ASSUME NEW j \in DOMAIN v PROVE Precedes(w[i], v[j])
    <3>1. f[j] \in DOMAIN w /\ f[j] \in Int /\ f[j] # i /\ v[j] = w[f[j]] /\ i \in Int
      BY <1>2, <1>3, <1>4
    <3>2. w[i].msg \in Nat /\ w[f[j]].msg \in Nat
      BY <1>1, <3>1, OrderNumbers, Zenon
    <3>3. CASE f[j] < i
      <4>1. f[j] \in 1..i-1
        BY <1>2, <3>1, <3>3
      <4>3. w[f[j]].conn # w[i].conn
        BY <4>1, Zenon
      <4>2. w[f[j]].msg < w[i].msg
        BY <3>1, <3>3, Zenon DEF Order, WireOrder
      <4> QED
        BY <3>1, <3>2, <4>2, <4>3 DEF Precedes
    <3>4. CASE i < f[j]
      <4>1. w[i].msg < w[f[j]].msg
        BY <3>1, <3>4, Zenon DEF Order, WireOrder
      <4> QED
        BY <3>1, <3>2, <4>1 DEF Precedes
    <3> QED
      BY <3>1, <3>3, <3>4
  <2>2. \A k \in DOMAIN a, j \in DOMAIN v : Precedes(a[k], v[j])
    BY <1>5, Zenon DEF Order, ArrivedOrder
  <2>3. \A k \in DOMAIN a : Precedes(a[k], w[i])
    BY Zenon DEF Order, ArrivedOrder
  <2>4. \A k \in DOMAIN d, j \in DOMAIN v : Precedes(d[k], v[j])
    BY <1>6, <2>1, <2>2, ZenonT(40)
  <2>5. ASSUME NEW k \in DOMAIN d, NEW l \in DOMAIN d, k < l PROVE Precedes(d[k], d[l])
    <3>1. k \in DOMAIN a
      BY <1>6, <2>5
    <3>2. CASE l \in DOMAIN a
      BY <1>6, <2>5, <3>1, <3>2, Zenon DEF Order, ArrivedOrder
    <3>3. CASE l = Len(a) + 1
      BY <1>6, <2>3, <3>1, <3>3, Zenon
    <3> QED
      BY <1>6, <3>2, <3>3, Zenon
  <2> QED
    BY <2>4, <2>5, Zenon DEF ArrivedOrder
<1> QED
  BY <1>1, <1>5, <1>6, <1>7, <1>8, Zenon DEF Order, OrderTypes, v, d

-----------------------------------------------------------------------------
(* The order of the messages to every store, and what clear_pending_message *)
(* has counted.                                                            *)

OrderOf(s) == Order(queue[s], call[s].buffer, wire[s], arrived[s], next)

CountedIsQueued(s) ==
    /\ call[s].pc # "panicked"
    /\ call[s].pc = "clear" => call[s].drop <= Len(queue[s])

StreamInv ==
    /\ wire \in [Stores -> Seq(Packet)] /\ arrived \in [Stores -> Seq(Packet)]
    /\ \A s \in Stores : OrderOf(s) /\ CountedIsQueued(s)

\* Nothing has been sent.
LEMMA StreamInit == Init => StreamInv
<1> SUFFICES ASSUME Init PROVE StreamInv
  BY Zenon
<1>1. /\ queue = [s \in Stores |-> << >>] /\ call = [s \in Stores |-> Call("none", 0, 0)]
      /\ wire = [s \in Stores |-> << >>] /\ arrived = [s \in Stores |-> << >>] /\ next = 1
  BY Zenon DEF Init
<1>2. << >> \in Seq(Packet) /\ << >> \in Seq(Nat) /\ DOMAIN << >> = {}
  OBVIOUS
<1>3. Order(<< >>, << >>, << >>, << >>, 1)
  BY <1>2, Zenon DEF Order, OrderTypes, QueueOrder, BufferOrder, Increasing, Gone, WireOrder,
     ArrivedOrder
<1>4. Call("none", 0, 0).buffer = << >> /\ Call("none", 0, 0).pc = "none"
  BY Zenon DEF Call
<1> QED
  BY <1>1, <1>2, <1>3, <1>4, Zenon DEF StreamInv, OrderOf, CountedIsQueued

\* A step that changes no queue, no buffer and no stream.
LEMMA StreamQuiet ==
    ASSUME StreamInv, WakeInv, next' = next, queue' = queue, UNCHANGED streamVars,
           \A s \in Stores : /\ call'[s].buffer = call[s].buffer
                             /\ \/ call'[s].pc = call[s].pc /\ call'[s].drop = call[s].drop
                                \/ call'[s].pc \notin {"clear", "panicked"}
    PROVE  StreamInv'
<1>1. wire' = wire /\ arrived' = arrived
  BY Zenon DEF streamVars
<1>2. ASSUME NEW s \in Stores PROVE OrderOf(s)' /\ CountedIsQueued(s)'
  BY <1>1, ZenonT(40) DEF StreamInv, OrderOf, CountedIsQueued
<1> QED
  BY <1>1, <1>2, Zenon DEF StreamInv

\* A step that changes the queue, the call or the streams of one store only.
LEMMA StreamOfOne ==
    ASSUME StreamInv, WakeInv, next' = next, NEW t \in Stores,
           NEW q, NEW c, NEW w, NEW a,
           queue' = [queue EXCEPT ![t] = q], call' = [call EXCEPT ![t] = c],
           wire' = [wire EXCEPT ![t] = w], arrived' = [arrived EXCEPT ![t] = a],
           Order(q, c.buffer, w, a, next),
           c.pc # "panicked", c.pc = "clear" => c.drop <= Len(q)
    PROVE  StreamInv'
<1>1. queue \in [Stores -> Seq(Nat)] /\ call \in [Stores -> CallType]
  BY Zenon DEF WakeInv, ClientTypeOK
<1>2. wire \in [Stores -> Seq(Packet)] /\ arrived \in [Stores -> Seq(Packet)]
  BY Zenon DEF StreamInv
<1>3. w \in Seq(Packet) /\ a \in Seq(Packet)
  BY Zenon DEF Order, OrderTypes
<1>4. wire' \in [Stores -> Seq(Packet)] /\ arrived' \in [Stores -> Seq(Packet)]
  BY <1>2, <1>3, Zenon
<1>5. queue'[t] = q /\ call'[t] = c /\ wire'[t] = w /\ arrived'[t] = a
  BY <1>1, <1>2, Zenon
<1>6. \A s \in Stores \ {t} : /\ queue'[s] = queue[s] /\ call'[s] = call[s]
                              /\ wire'[s] = wire[s] /\ arrived'[s] = arrived[s]
  BY <1>1, <1>2, Zenon
<1>7. OrderOf(t)' /\ CountedIsQueued(t)'
  BY <1>5, ZenonT(40) DEF OrderOf, CountedIsQueued
<1>8. \A s \in Stores \ {t} : OrderOf(s)' /\ CountedIsQueued(s)'
  BY <1>6, ZenonT(40) DEF StreamInv, OrderOf, CountedIsQueued
<1> QED
  BY <1>4, <1>7, <1>8, Zenon DEF StreamInv

\* The steps of the raft thread.
LEMMA StreamClient ==
    ASSUME StreamInv, WakeInv, (\E s \in Stores : Send(s)) \/ ClientStep
    PROVE  StreamInv'
<1>1. queue \in [Stores -> Seq(Nat)] /\ call \in [Stores -> CallType]
  BY Zenon DEF WakeInv, ClientTypeOK
<1>2. ASSUME NEW t \in Stores, Send(t) PROVE StreamInv'
  <2>1. /\ next' = next + 1 /\ wire' = wire /\ arrived' = arrived
        /\ queue' = queue \/ queue' = [queue EXCEPT ![t] = Append(queue[t], next)]
        /\ call' = call \/ call' = [call EXCEPT ![t] = [call[t] EXCEPT !.pc = "backoff"]]
    BY <1>2, ZenonT(40) DEF Send, streamVars
  <2>2. \A s \in Stores : /\ call'[s].buffer = call[s].buffer
                          /\ \/ call'[s] = call[s]
                             \/ call'[s].pc = "backoff"
    <3> DEFINE c == [call[t] EXCEPT !.pc = "backoff"]
    <3>1. c.pc = "backoff" /\ c.buffer = call[t].buffer
      BY <1>1, Zenon DEF CallType
    <3>2. call' = call \/ call' = [call EXCEPT ![t] = c]
      BY <2>1, Zenon
    <3> HIDE DEF c
    <3>3. \A s \in Stores : call'[s] = call[s] \/ (s = t /\ call'[s] = c)
      BY <1>1, <3>2, ZenonT(40)
    <3> QED
      BY <3>1, <3>3, ZenonT(40)
  <2>3. ASSUME NEW s \in Stores PROVE OrderOf(s)' /\ CountedIsQueued(s)'
    <3>1. queue'[s] = queue[s] \/ queue'[s] = Append(queue[s], next)
      BY <1>1, <2>1, Zenon
    <3>2. Order(queue[s], call[s].buffer, wire[s], arrived[s], next)
      BY Zenon DEF StreamInv, OrderOf
    <3>3. OrderOf(s)'
      <4>1. Order(queue'[s], call[s].buffer, wire[s], arrived[s], next + 1)
        BY <3>1, <3>2, OrderPush, ZenonT(40)
      <4>2. OrderOf(s)' <=> Order(queue'[s], call'[s].buffer, wire'[s], arrived'[s], next')
        BY Zenon DEF OrderOf
      <4>3. call'[s].buffer = call[s].buffer /\ wire'[s] = wire[s] /\ arrived'[s] = arrived[s]
        BY <2>1, <2>2, Zenon
      <4> QED
        BY <2>1, <4>1, <4>2, <4>3, ZenonT(40)
    <3>4. queue[s] \in Seq(Nat) /\ next \in Nat /\ call[s].drop \in Nat
      BY <1>1, Zenon DEF CallType, WakeInv, ClientTypeOK
    <3>5. Len(queue[s]) \in Nat /\ Len(queue'[s]) \in Nat /\ Len(queue[s]) <= Len(queue'[s])
      BY <3>1, <3>4
    <3>6. call[s].pc = "clear" => call[s].drop <= Len(queue'[s])
      BY <3>4, <3>5 DEF StreamInv, CountedIsQueued
    <3> QED
      BY <2>2, <3>3, <3>6, ZenonT(40) DEF StreamInv, CountedIsQueued
  <2> QED
    BY <2>1, <2>3, Zenon DEF StreamInv
<1>3. CASE Flush \/ FlushStore
  <2>1. next' = next /\ queue' = queue /\ call' = call /\ UNCHANGED streamVars
    BY <1>3, ZenonT(40) DEF Flush, FlushStore
  <2> QED
    BY <2>1, StreamQuiet, ZenonT(40)
<1>4. CASE TakeWaker
  <2>1. /\ next' = next /\ queue' = queue /\ UNCHANGED streamVars
        /\ \/ call' = call
           \/ call' = [call EXCEPT ![FlushedStore] = Woken(call[FlushedStore])]
    BY <1>4, ZenonT(40) DEF TakeWaker
  <2>2. \A c \in CallType : /\ Woken(c).buffer = c.buffer
                            /\ \/ Woken(c).pc = c.pc /\ Woken(c).drop = c.drop
                               \/ Woken(c).pc \notin {"clear", "panicked"}
    BY ZenonT(40) DEF Woken, CallType
  <2>3. \A s \in Stores : call'[s] = call[s] \/ call'[s] = Woken(call[s])
    BY <1>1, <2>1, Zenon
  <2>4. \A s \in Stores : /\ call'[s].buffer = call[s].buffer
                          /\ \/ call'[s].pc = call[s].pc /\ call'[s].drop = call[s].drop
                             \/ call'[s].pc \notin {"clear", "panicked"}
    BY <1>1, <2>2, <2>3, ZenonT(40)
  <2> QED
    BY <2>1, <2>4, StreamQuiet, ZenonT(40)
<1> QED
  BY <1>2, <1>3, <1>4, Zenon DEF ClientStep

\* The steps of a call that change no buffer.
LEMMA StreamCallQuiet ==
    ASSUME StreamInv, WakeInv, NEW t \in Stores, UNCHANGED <<clientVars, queue, streamVars>>,
           NEW c, call' = [call EXCEPT ![t] = c], c.buffer = call[t].buffer,
           c.pc \notin {"clear", "panicked"}
    PROVE  StreamInv'
<1>1. call \in [Stores -> CallType]
  BY Zenon DEF WakeInv, ClientTypeOK
<1>2. \A s \in Stores : /\ call'[s].buffer = call[s].buffer
                        /\ \/ call'[s].pc = call[s].pc /\ call'[s].drop = call[s].drop
                           \/ call'[s].pc \notin {"clear", "panicked"}
  BY <1>1, ZenonT(40)
<1>3. next' = next /\ queue' = queue
  BY Zenon DEF clientVars
<1> QED
  BY <1>2, <1>3, StreamQuiet, ZenonT(40)

\* A call pops a message of the queue into its buffer.
LEMMA StreamFill ==
    ASSUME StreamInv, WakeInv, NEW t \in Stores, UNCHANGED <<clientVars, streamVars>>,
           queue[t] # << >>, queue' = [queue EXCEPT ![t] = Tail(queue[t])],
           NEW c, call' = [call EXCEPT ![t] = c],
           c.buffer = Append(call[t].buffer, Head(queue[t])), c.pc = "fill"
    PROVE  StreamInv'
<1>1. Order(queue[t], call[t].buffer, wire[t], arrived[t], next)
  BY Zenon DEF StreamInv, OrderOf
<1>2. Order(Tail(queue[t]), c.buffer, wire[t], arrived[t], next)
  BY <1>1, OrderFill, Zenon
<1>3. /\ wire' = [wire EXCEPT ![t] = wire[t]] /\ arrived' = [arrived EXCEPT ![t] = arrived[t]]
      /\ next' = next
  BY Zenon DEF streamVars, clientVars, StreamInv
<1> QED
  BY <1>2, <1>3, StreamOfOne, ZenonT(40)

\* A call or a back end loses messages of its buffer, of its queue, or of the stream.
LEMMA StreamLoss ==
    ASSUME StreamInv, WakeInv, NEW t \in Stores, next' = next, arrived' = arrived,
           NEW q \in Seq(Nat), Thins(q, queue[t]), queue' = [queue EXCEPT ![t] = q],
           NEW w \in Seq(Packet), Thins(w, wire[t]), wire' = [wire EXCEPT ![t] = w],
           NEW c, call' = [call EXCEPT ![t] = c], c.buffer = << >> \/ c.buffer = call[t].buffer,
           c.pc # "panicked", c.pc = "clear" => c.drop <= Len(q)
    PROVE  StreamInv'
<1>1. Order(queue[t], call[t].buffer, wire[t], arrived[t], next)
  BY Zenon DEF StreamInv, OrderOf
<1>2. << >> \in Seq(Nat)
  OBVIOUS
<1>3. OrderTypes(q, c.buffer, w, arrived[t], next)
  BY <1>1, <1>2, ZenonT(40) DEF Order, OrderTypes
<1>4. Thins(c.buffer, call[t].buffer)
  BY ThinsItself, ZenonT(40)
<1>5. Order(q, c.buffer, w, arrived[t], next)
  BY <1>1, <1>3, <1>4, OrderThins, ZenonT(40)
<1>6. arrived' = [arrived EXCEPT ![t] = arrived[t]]
  BY Zenon DEF StreamInv
<1> QED
  BY <1>5, <1>6, StreamOfOne, ZenonT(40)

\* The steps of a RaftCall.
LEMMA StreamPoll ==
    ASSUME StreamInv, WakeInv, NEW t \in Stores, Poll(t) \/ Block(t) \/ Unblock(t)
    PROVE  StreamInv'
<1>1. /\ call \in [Stores -> CallType] /\ call[t] \in CallType /\ queue \in [Stores -> Seq(Nat)]
      /\ queue[t] \in Seq(Nat) /\ call[t].buffer \in Seq(Nat) /\ call[t].id \in Nat
      /\ wire \in [Stores -> Seq(Packet)] /\ arrived \in [Stores -> Seq(Packet)]
  BY Zenon DEF WakeInv, ClientTypeOK, StreamInv, CallType
<1>2. UNCHANGED clientVars /\ next' = next /\ arrived' = arrived
  BY ZenonT(40) DEF Poll, Block, Unblock, FillPop, RegisterWaker, PopAgain, SendBuffered, Park,
     CleanUp,
                    clientVars, streamVars
<1>3. CASE FillPop(t)
  <2>1. CASE Len(call[t].buffer) >= BufferCap \/ queue[t] = << >>
    <3>1. PICK pc \in {"send", "register"} : call' = [call EXCEPT ![t] = [call[t] EXCEPT !.pc = pc]]
      BY <1>3, <2>1, ZenonT(40) DEF FillPop
    <3>2. UNCHANGED <<clientVars, queue, streamVars>>
      BY <1>3, <2>1, ZenonT(40) DEF FillPop
    <3>3. [call[t] EXCEPT !.pc = pc].buffer = call[t].buffer /\ [call[t] EXCEPT !.pc = pc].pc = pc
      BY <1>1, ZenonT(40) DEF CallType
    <3> QED
      BY <3>1, <3>2, <3>3, StreamCallQuiet, ZenonT(40)
  <2>2. CASE ~(Len(call[t].buffer) >= BufferCap \/ queue[t] = << >>)
    <3> DEFINE c == [call[t] EXCEPT !.buffer = Append(call[t].buffer, Head(queue[t]))]
    <3>1. /\ call' = [call EXCEPT ![t] = c] /\ queue' = [queue EXCEPT ![t] = Tail(queue[t])]
          /\ UNCHANGED <<clientVars, streamVars>> /\ call[t].pc = "fill"
      BY <1>3, <2>2, ZenonT(40) DEF FillPop
    <3>2. c.buffer = Append(call[t].buffer, Head(queue[t])) /\ c.pc = "fill"
      BY <1>1, <3>1, ZenonT(40) DEF CallType
    <3> QED
      BY <2>2, <3>1, <3>2, StreamFill, ZenonT(40)
  <2> QED
    BY <2>1, <2>2, Zenon
<1>4. CASE RegisterWaker(t)
  <2>1. /\ call' = [call EXCEPT ![t] = [call[t] EXCEPT !.pc = "repop"]]
        /\ UNCHANGED <<clientVars, queue, streamVars>>
    BY <1>4, Zenon DEF RegisterWaker
  <2>2. [call[t] EXCEPT !.pc = "repop"].buffer = call[t].buffer
        /\ [call[t] EXCEPT !.pc = "repop"].pc = "repop"
    BY <1>1, ZenonT(40) DEF CallType
  <2> QED
    BY <2>1, <2>2, StreamCallQuiet, ZenonT(40)
<1>5. CASE PopAgain(t)
  <2>1. CASE queue[t] = << >>
    <3>1. /\ call' = [call EXCEPT ![t] = [call[t] EXCEPT !.pc = "send"]]
          /\ UNCHANGED <<clientVars, queue, streamVars>>
      BY <1>5, <2>1, ZenonT(40) DEF PopAgain
    <3>2. [call[t] EXCEPT !.pc = "send"].buffer = call[t].buffer
          /\ [call[t] EXCEPT !.pc = "send"].pc = "send"
      BY <1>1, ZenonT(40) DEF CallType
    <3> QED
      BY <3>1, <3>2, StreamCallQuiet, ZenonT(40)
  <2>2. CASE queue[t] # << >>
    <3> DEFINE c == [call[t] EXCEPT !.pc = "fill", !.buffer = Append(call[t].buffer, Head(queue[t]))]
    <3>1. /\ call' = [call EXCEPT ![t] = c] /\ queue' = [queue EXCEPT ![t] = Tail(queue[t])]
          /\ UNCHANGED <<clientVars, streamVars>>
      BY <1>5, <2>2, ZenonT(40) DEF PopAgain
    <3>2. c.buffer = Append(call[t].buffer, Head(queue[t])) /\ c.pc = "fill"
      BY <1>1, ZenonT(40) DEF CallType
    <3> QED
      BY <2>2, <3>1, <3>2, StreamFill, ZenonT(40)
  <2> QED
    BY <2>1, <2>2, ZenonT(40)
<1>6. CASE SendBuffered(t)
  <2> DEFINE c == [call[t] EXCEPT !.pc = "fill", !.buffer = Tail(call[t].buffer)]
             w == Append(wire[t], [conn |-> call[t].id, msg |-> Head(call[t].buffer)])
  <2>1. /\ call' = [call EXCEPT ![t] = c] /\ queue' = queue /\ wire' = [wire EXCEPT ![t] = w]
        /\ call[t].buffer # << >>
    BY <1>6, ZenonT(40) DEF SendBuffered
  <2>2. c.buffer = Tail(call[t].buffer) /\ c.pc = "fill"
    BY <1>1, ZenonT(40) DEF CallType
  <2>3. Order(queue[t], call[t].buffer, wire[t], arrived[t], next)
    BY Zenon DEF StreamInv, OrderOf
  <2>4. Order(queue[t], Tail(call[t].buffer), w, arrived[t], next)
    BY <1>1, <2>1, <2>3, OrderWrite, Zenon
  <2>5. queue' = [queue EXCEPT ![t] = queue[t]] /\ arrived' = [arrived EXCEPT ![t] = arrived[t]]
    BY <1>1, <1>2, <2>1, Zenon
  <2> HIDE DEF c, w
  <2> QED
    BY <1>2, <2>1, <2>2, <2>4, <2>5, StreamOfOne, ZenonT(40)
<1>7. CASE Block(t) \/ Park(t)
  <2>1. PICK pc \in {"blocked", "parked"} : call' = [call EXCEPT ![t] = Pend(call[t], pc)]
    BY <1>7, Zenon DEF Block, Park
  <2>2. UNCHANGED <<clientVars, queue, streamVars>>
    BY <1>7, Zenon DEF Block, Park
  <2>3. Pend(call[t], pc).buffer = call[t].buffer /\ Pend(call[t], pc).pc \in {"fill", "blocked", "parked"}
    BY <1>1, ZenonT(40) DEF Pend, CallType
  <2> QED
    BY <2>1, <2>2, <2>3, StreamCallQuiet, ZenonT(40)
<1>8. CASE Unblock(t)
  <2>1. /\ call' = [call EXCEPT ![t] = [call[t] EXCEPT !.pc = "fill"]]
        /\ UNCHANGED <<clientVars, queue, streamVars>>
    BY <1>8, Zenon DEF Unblock
  <2>2. [call[t] EXCEPT !.pc = "fill"].buffer = call[t].buffer
        /\ [call[t] EXCEPT !.pc = "fill"].pc = "fill"
    BY <1>1, ZenonT(40) DEF CallType
  <2> QED
    BY <2>1, <2>2, StreamCallQuiet, ZenonT(40)
<1>9. CASE CleanUp(t)
  <2>1. PICK how \in {"aborted", "fallback"} :
          call' = [call EXCEPT ![t] = [call[t] EXCEPT !.pc = how, !.buffer = << >>, !.woken = FALSE]]
    BY <1>9, ZenonT(40) DEF CleanUp
  <2> DEFINE c == [call[t] EXCEPT !.pc = how, !.buffer = << >>, !.woken = FALSE]
  <2>2. c.buffer = << >> /\ c.pc = how
    BY <1>1, ZenonT(40) DEF CallType
  <2>3. queue' = queue /\ wire' = wire
    BY <1>9, Zenon DEF CleanUp, streamVars
  <2>4. queue' = [queue EXCEPT ![t] = queue[t]] /\ wire' = [wire EXCEPT ![t] = wire[t]]
    BY <1>1, <2>3, Zenon
  <2>5. call' = [call EXCEPT ![t] = c] /\ wire[t] \in Seq(Packet)
    BY <1>1, <2>1, Zenon
  <2> HIDE DEF c
  <2> QED
    BY <1>1, <1>2, <2>2, <2>4, <2>5, ThinsItself, StreamLoss, ZenonT(40)
<1> QED
  BY <1>3, <1>4, <1>5, <1>6, <1>7, <1>8, <1>9, Zenon DEF Poll

\* The steps of a back end, and of a stream.
LEMMA StreamBackEnd ==
    ASSUME StreamInv, WakeInv, NEW t \in Stores, BackEnd(t) \/ Break(t) \/ Deliver(t)
    PROVE  StreamInv'
<1>1. /\ call \in [Stores -> CallType] /\ call[t] \in CallType /\ queue \in [Stores -> Seq(Nat)]
      /\ queue[t] \in Seq(Nat) /\ call[t].buffer \in Seq(Nat) /\ call[t].drop \in Nat
      /\ wire \in [Stores -> Seq(Packet)] /\ arrived \in [Stores -> Seq(Packet)]
      /\ wire[t] \in Seq(Packet)
  BY Zenon DEF WakeInv, ClientTypeOK, StreamInv, CallType
<1>2. next' = next
  BY ZenonT(40) DEF BackEnd, Break, Deliver, Connect, Aborted, ClearPending, clientVars
<1>3. Order(queue[t], call[t].buffer, wire[t], arrived[t], next)
      /\ call[t].pc # "panicked" /\ (call[t].pc = "clear" => call[t].drop <= Len(queue[t]))
  BY Zenon DEF StreamInv, OrderOf, CountedIsQueued
<1>4. [queue EXCEPT ![t] = queue[t]] = queue /\ [wire EXCEPT ![t] = wire[t]] = wire
  BY <1>1, Zenon
<1>5. Thins(queue[t], queue[t]) /\ Thins(wire[t], wire[t])
  BY ThinsItself, Zenon
<1>6. CASE Connect(t)
  <2>1. PICK r : call' = [call EXCEPT ![t] = Call("fill", call[t].id + 1, r)]
    BY <1>6, ZenonT(40) DEF Connect
  <2> DEFINE c == Call("fill", call[t].id + 1, r)
  <2>2. c.buffer = << >> /\ c.pc = "fill"
    BY Zenon DEF Call
  <2>3. queue' = queue /\ wire' = wire /\ arrived' = arrived /\ call' = [call EXCEPT ![t] = c]
    BY <1>6, <2>1, ZenonT(40) DEF Connect, streamVars
  <2> HIDE DEF c
  <2> QED
    BY <1>1, <1>2, <1>4, <1>5, <2>2, <2>3, StreamLoss, ZenonT(40)
<1>7. CASE Aborted(t)
  <2>1. PICK c \in {[call[t] EXCEPT !.pc = "clear", !.drop = Len(queue[t])],
                    [call[t] EXCEPT !.pc = "backoff"]} : call' = [call EXCEPT ![t] = c]
    BY <1>7, ZenonT(40) DEF Aborted
  <2>2. c.buffer = call[t].buffer /\ ((c.pc = "clear" /\ c.drop = Len(queue[t])) \/ c.pc = "backoff")
    BY <1>1, ZenonT(40) DEF CallType
  <2>3. queue' = queue /\ wire' = wire /\ arrived' = arrived
    BY <1>7, Zenon DEF Aborted, streamVars
  <2>4. c.pc # "panicked" /\ (c.pc = "clear" => c.drop <= Len(queue[t]))
    BY <1>1, <2>2
  <2> QED
    BY <1>1, <1>2, <1>4, <1>5, <2>1, <2>2, <2>3, <2>4, StreamLoss, ZenonT(40)
<1>8. CASE ClearPending(t)
  <2>1. wire' = wire /\ arrived' = arrived /\ call[t].pc = "clear"
    BY <1>8, Zenon DEF ClearPending, streamVars
  <2>2. CASE call[t].drop = 0
    <3> DEFINE c == [call[t] EXCEPT !.pc = "backoff"]
    <3>1. call' = [call EXCEPT ![t] = c] /\ queue' = queue
      BY <1>8, <2>2, Zenon DEF ClearPending
    <3>2. c.buffer = call[t].buffer /\ c.pc = "backoff"
      BY <1>1, ZenonT(40) DEF CallType
    <3> HIDE DEF c
    <3> QED
      BY <1>1, <1>2, <1>4, <1>5, <2>1, <3>1, <3>2, StreamLoss, ZenonT(40)
  <2>3. CASE call[t].drop # 0
    <3> DEFINE c == [call[t] EXCEPT !.drop = call[t].drop - 1]
               q == Tail(queue[t])
    <3>1. queue[t] # << >> /\ call[t].drop <= Len(queue[t])
      <4>1. call[t].drop <= Len(queue[t]) /\ call[t].drop > 0
        BY <1>1, <1>3, <2>1, <2>3
      <4> QED
        BY <1>1, <4>1
    <3>2. call' = [call EXCEPT ![t] = c] /\ queue' = [queue EXCEPT ![t] = q]
      BY <1>8, <2>3, <3>1, Zenon DEF ClearPending
    <3>3. c.buffer = call[t].buffer /\ c.pc = "clear" /\ c.drop = call[t].drop - 1
      BY <1>1, <2>1, ZenonT(40) DEF CallType
    <3>4. q \in Seq(Nat) /\ Thins(q, queue[t])
      BY <1>1, <3>1, TailThins, Zenon
    <3>5. c.drop <= Len(q)
      BY <1>1, <3>1, <3>3
    <3>6. c.pc # "panicked"
      BY <3>3, Zenon
    <3> HIDE DEF c, q
    <3> QED
      BY <1>1, <1>2, <1>4, <1>5, <2>1, <3>2, <3>3, <3>4, <3>5, <3>6, StreamLoss, ZenonT(40)
  <2> QED
    BY <2>2, <2>3, Zenon
<1>9. CASE Break(t)
  <2> DEFINE c == [Woken(call[t]) EXCEPT !.broken = TRUE]
  <2>1. PICK n \in 0..Len(wire[t]) : wire' = [wire EXCEPT ![t] = SubSeq(wire[t], 1, n)]
    BY <1>9, ZenonT(40) DEF Break
  <2> DEFINE w == SubSeq(wire[t], 1, n)
  <2>2. w \in Seq(Packet) /\ DOMAIN w = 1..n /\ \A i \in 1..n : w[i] = wire[t][i]
    BY <1>1, <2>1, SMTT(40)
  <2>3. wire' = [wire EXCEPT ![t] = w]
    BY <2>1, Zenon
  <2> HIDE DEF w
  <2>4. Thins(w, wire[t])
    <3>1. [i \in DOMAIN w |-> i] \in [DOMAIN w -> DOMAIN wire[t]]
      BY <1>1, <2>1, <2>2
    <3> QED
      BY <2>2, <3>1, ZenonT(40) DEF Thins
  <2>5. call' = [call EXCEPT ![t] = c] /\ queue' = queue /\ arrived' = arrived /\ Running(call[t])
    BY <1>9, Zenon DEF Break
  <2>6. c.buffer = call[t].buffer /\ c.pc \in {"fill", call[t].pc}
    BY <1>1, ZenonT(40) DEF CallType, Woken
  <2>7. c.pc \notin {"clear", "panicked"}
    BY <2>5, <2>6, Zenon DEF Running
  <2> HIDE DEF c
  <2> QED
    BY <1>1, <1>2, <1>4, <1>5, <2>2, <2>3, <2>4, <2>5, <2>6, <2>7, StreamLoss, ZenonT(40)
<1>10. CASE Deliver(t)
  <2>1. PICK i \in DOMAIN wire[t] :
          /\ \A j \in 1..i-1 : wire[t][j].conn # wire[t][i].conn
          /\ arrived' = [arrived EXCEPT ![t] = Append(arrived[t], wire[t][i])]
          /\ wire' = [wire EXCEPT ![t] = SubSeq(wire[t], 1, i-1) \o SubSeq(wire[t], i+1, Len(wire[t]))]
          /\ queue' = queue /\ call' = call
    BY <1>10, ZenonT(40) DEF Deliver
  <2> DEFINE w == SubSeq(wire[t], 1, i-1) \o SubSeq(wire[t], i+1, Len(wire[t]))
             a == Append(arrived[t], wire[t][i])
  <2>2. Order(queue[t], call[t].buffer, w, a, next)
    BY <1>3, <2>1, OrderDeliver, Zenon
  <2>3. /\ arrived' = [arrived EXCEPT ![t] = a] /\ wire' = [wire EXCEPT ![t] = w]
        /\ queue' = [queue EXCEPT ![t] = queue[t]] /\ call' = [call EXCEPT ![t] = call[t]]
    BY <1>1, <2>1, Zenon
  <2> HIDE DEF w, a
  <2> QED
    BY <1>2, <1>3, <2>2, <2>3, StreamOfOne, ZenonT(40)
<1> QED
  BY <1>6, <1>7, <1>8, <1>9, <1>10, ZenonT(40) DEF BackEnd

\* The order of the messages is kept by every step.
LEMMA StreamInvariance == Spec => []StreamInv
<1>1. StreamInv /\ WakeInv /\ [Next]_vars => StreamInv'
  <2> SUFFICES ASSUME StreamInv, WakeInv, [Next]_vars PROVE StreamInv'
    BY Zenon
  <2>1. CASE UNCHANGED vars
    <3>1. next' = next /\ queue' = queue /\ call' = call /\ UNCHANGED streamVars
      BY <2>1, Zenon DEF vars, clientVars
    <3> QED
      BY <3>1, StreamQuiet, ZenonT(40)
  <2> QED
    BY <2>1, StreamClient, StreamPoll, StreamBackEnd, ZenonT(40) DEF Next
<1> QED
  BY <1>1, StreamInit, WakeInvariance, PTL DEF Spec

\* DeliveredInOrder, for any number of messages and broken connections: the buffers
\* of successive connections hold disjoint parts of what was pushed (RaftCall,
\* Queue), so a store is given nothing twice and one stream in order.
THEOREM MessagesArriveInOrder == Spec => []DeliveredInOrder
<1>1. StreamInv => DeliveredInOrder
  BY ZenonT(40) DEF StreamInv, OrderOf, Order, ArrivedOrder, Precedes, DeliveredInOrder
<1> QED
  BY <1>1, StreamInvariance, PTL

\* The back end does not panic: the queue holds at least as many messages as
\* clear_pending_message has counted, since nobody else pops while it runs.
BackEndSurvives == \A s \in Stores : call[s].pc # "panicked"

\* BackEndSurvives holds in every reachable state.
THEOREM ClearNeverPanics == Spec => []BackEndSurvives
<1>1. StreamInv => BackEndSurvives
  BY Zenon DEF StreamInv, CountedIsQueued, BackEndSurvives
<1> QED
  BY <1>1, StreamInvariance, PTL
=============================================================================
