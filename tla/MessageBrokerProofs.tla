-------------------------- MODULE MessageBrokerProofs --------------------------
(***************************************************************************)
(* Proofs about the message broker, for any number of positions, any size  *)
(* of a batch, any limit of the events, any timeout and any number of      *)
(* restarts: no request misses its event, every waiting thread is known in *)
(* exactly one place and panics only after the apply loop, and no Timeout  *)
(* is early.                                                               *)
(***************************************************************************)
EXTENDS MessageBroker, TLAPS

BrokerTypeOK ==
    /\ now \in Nat /\ applied \in 0..MaxPosition
    /\ client \in [Positions -> ClientStates]
    /\ send_time \in [Positions -> Nat]
    /\ request_rx \in Seq(Positions) /\ event_rx \in Seq(Positions)
    /\ inflight_requests \subseteq Positions /\ inflight_events \subseteq Positions

-----------------------------------------------------------------------------
(* The channels.                                                           *)

NoDuplicates(s) == \A i, j \in DOMAIN s : s[i] = s[j] => i = j

\* batch_recv splits a channel: what it takes and what it leaves are the whole of
\* it, and a position that is in the channel once is in one of the two.
LEMMA BatchRecvSplits ==
    ASSUME NEW rx \in Seq(Positions)
    PROVE  /\ Received(rx) \in Seq(Positions) /\ Left(rx) \in Seq(Positions)
           /\ Range1(Received(rx)) \cup Range1(Left(rx)) = Range1(rx)
           /\ NoDuplicates(rx) => /\ NoDuplicates(Left(rx))
                                  /\ Range1(Received(rx)) \cap Range1(Left(rx)) = {}
<1> DEFINE n == Smaller(Len(rx), RecvMax)
           got == Received(rx)
           left == Left(rx)
<1>1. n \in Nat /\ n <= Len(rx) /\ Len(rx) \in Nat
  BY BrokerAssumption DEF Smaller
<1> HIDE DEF n
<1>2. /\ got \in Seq(Positions) /\ Len(got) = n
      /\ \A i \in 1..n : got[i] = rx[i]
  BY <1>1, SMTT(40) DEF Received, n
<1>3. /\ left \in Seq(Positions) /\ Len(left) = Len(rx) - n
      /\ \A i \in 1..Len(rx) - n : left[i] = rx[n + i]
  BY <1>1, SMTT(40) DEF Left, n
<1> HIDE DEF got, left
<1>4. /\ DOMAIN got = 1..n /\ DOMAIN left = 1..Len(rx) - n /\ DOMAIN rx = 1..Len(rx)
  BY <1>1, <1>2, <1>3
<1>5. Range1(got) \cup Range1(left) = Range1(rx)
  <2>1. ASSUME NEW i \in DOMAIN rx PROVE rx[i] \in Range1(got) \cup Range1(left)
    <3>1. CASE i <= n
      BY <1>1, <1>2, <1>4, <3>1 DEF Range1
    <3>2. CASE ~(i <= n)
      <4>1. i - n \in 1..Len(rx) - n /\ n + (i - n) = i
        BY <1>1, <1>4, <3>2
      <4>2. left[i - n] = rx[i]
        BY <1>3, <4>1
      <4> QED
        BY <1>4, <4>1, <4>2 DEF Range1
    <3> QED
      BY <3>1, <3>2
  <2>2. \A i \in DOMAIN got : got[i] \in Range1(rx)
    BY <1>1, <1>2, <1>4 DEF Range1
  <2>3. ASSUME NEW i \in DOMAIN left PROVE left[i] \in Range1(rx)
    <3>1. n + i \in DOMAIN rx /\ left[i] = rx[n + i]
      BY <1>1, <1>3, <1>4
    <3> QED
      BY <3>1 DEF Range1
  <2>4. Range1(rx) \subseteq Range1(got) \cup Range1(left)
    BY <2>1, ZenonT(40) DEF Range1
  <2>5. Range1(got) \subseteq Range1(rx) /\ Range1(left) \subseteq Range1(rx)
    BY <2>2, <2>3, ZenonT(40) DEF Range1
  <2> QED
    BY <2>4, <2>5
<1>6. ASSUME NoDuplicates(rx) PROVE NoDuplicates(left) /\ Range1(got) \cap Range1(left) = {}
  <2>1. ASSUME NEW i \in DOMAIN left, NEW j \in DOMAIN left, left[i] = left[j] PROVE i = j
    <3>1. n + i \in DOMAIN rx /\ n + j \in DOMAIN rx /\ rx[n + i] = rx[n + j]
      BY <1>1, <1>3, <1>4, <2>1
    <3>2. n + i = n + j
      BY <1>6, <3>1, Zenon DEF NoDuplicates
    <3> QED
      BY <1>1, <1>4, <3>2
  <2>2. ASSUME NEW i \in DOMAIN got, NEW j \in DOMAIN left PROVE got[i] # left[j]
    <3>1. i \in DOMAIN rx /\ n + j \in DOMAIN rx /\ got[i] = rx[i] /\ left[j] = rx[n + j]
      BY <1>1, <1>2, <1>3, <1>4
    <3>2. got[i] = left[j] => i = n + j
      BY <1>6, <3>1, Zenon DEF NoDuplicates
    <3> QED
      BY <1>1, <1>4, <3>2
  <2> QED
    BY <2>1, <2>2, ZenonT(40) DEF NoDuplicates, Range1
<1> QED
  BY <1>2, <1>3, <1>5, <1>6 DEF got, left

\* What a send adds to a channel.
LEMMA SendAppends ==
    ASSUME NEW rx \in Seq(Positions), NEW p \in Positions
    PROVE  /\ Append(rx, p) \in Seq(Positions)
           /\ Range1(Append(rx, p)) = Range1(rx) \cup {p}
           /\ NoDuplicates(rx) /\ p \notin Range1(rx) => NoDuplicates(Append(rx, p))
<1> DEFINE a == Append(rx, p)
<1>1. /\ a \in Seq(Positions) /\ Len(a) = Len(rx) + 1 /\ a[Len(rx) + 1] = p
      /\ \A i \in 1..Len(rx) : a[i] = rx[i]
      /\ DOMAIN a = 1..Len(rx) + 1 /\ DOMAIN rx = 1..Len(rx) /\ Len(rx) \in Nat
  OBVIOUS
<1> HIDE DEF a
<1>2. Range1(a) = Range1(rx) \cup {p}
  BY <1>1, SMTT(40) DEF Range1
<1>3. ASSUME NoDuplicates(rx), p \notin Range1(rx) PROVE NoDuplicates(a)
  BY <1>1, <1>3, SMTT(40) DEF NoDuplicates, Range1
<1> QED
  BY <1>1, <1>2, <1>3 DEF a

-----------------------------------------------------------------------------
(* The invariant: it is inductive as it stands.                            *)

BrokerInv == BrokerTypeOK /\ NoMissedJoin /\ WaitingIsTracked

\* Nobody waits for a broker that has just started.
LEMMA BrokerInit == Init => BrokerInv
<1> SUFFICES ASSUME Init PROVE BrokerInv
  OBVIOUS
<1>1. BrokerTypeOK
  BY BrokerAssumption DEF Init, BrokerTypeOK, ClientStates
<1>2. NoMissedJoin /\ WaitingIsTracked
  BY DEF Init, NoMissedJoin, WaitingIsTracked, Range1
<1> QED
  BY <1>1, <1>2 DEF BrokerInv

\* Answering a set of waiting threads changes these threads only.
LEMMA AnsweredClients ==
    ASSUME BrokerTypeOK, NEW S,
           client' = Answered(S, "event") \/ client' = Answered(S, "timeout")
    PROVE  /\ client' \in [Positions -> ClientStates]
           /\ \A p \in Positions : client'[p] = "waiting"
                                     <=> client[p] = "waiting" /\ p \notin S
           /\ \A p \in Positions : client'[p] = "panicked" => client[p] = "panicked"
  BY SMTT(40) DEF Answered, BrokerTypeOK, ClientStates

\* The steps of the gRPC threads, of the apply loop and of the clock.
LEMMA OutsideKeeps ==
    ASSUME BrokerInv,
           \/ \E p \in Positions : Stamp(p) \/ Register(p)
           \/ SendEvent \/ ApplyLoopPanics \/ Tick
    PROVE  BrokerInv'
<1> USE DEF BrokerInv
<1>1. ASSUME NEW p \in Positions, Stamp(p) PROVE BrokerInv'
  <2>1. /\ client' = [client EXCEPT ![p] = "stamped"] /\ client[p] = "idle"
        /\ send_time' = [send_time EXCEPT ![p] = now]
        /\ UNCHANGED <<now, request_rx, event_rx, inflight_requests, inflight_events, phase,
                       applying, applied>>
    BY <1>1 DEF Stamp, channels, broker, apply_loop
  <2>2. BrokerTypeOK'
    BY <2>1, SMTT(40) DEF BrokerTypeOK, ClientStates
  <2>3. \A r \in Positions : /\ client'[r] = "waiting" <=> client[r] = "waiting"
                             /\ client'[r] = "panicked" <=> client[r] = "panicked"
    BY <2>1, SMTT(40) DEF BrokerTypeOK
  <2> QED
    BY <2>1, <2>2, <2>3, ZenonT(40) DEF NoMissedJoin, WaitingIsTracked
<1>2. ASSUME NEW p \in Positions, Register(p) PROVE BrokerInv'
  <2>1. CASE phase = "dead"
    <3>1. /\ client' = [client EXCEPT ![p] = "panicked"] /\ client[p] = "stamped"
          /\ UNCHANGED <<now, send_time, request_rx, event_rx, inflight_requests,
                         inflight_events, phase, applying, applied>>
      BY <1>2, <2>1 DEF Register, broker, apply_loop
    <3>2. BrokerTypeOK'
      BY <3>1, SMTT(40) DEF BrokerTypeOK, ClientStates
    <3>3. \A r \in Positions : client'[r] = "waiting" <=> client[r] = "waiting"
      BY <3>1, SMTT(40) DEF BrokerTypeOK
    <3> QED
      BY <2>1, <3>1, <3>2, <3>3, ZenonT(40) DEF NoMissedJoin, WaitingIsTracked
  <2>2. CASE phase # "dead"
    <3>1. /\ client' = [client EXCEPT ![p] = "waiting"] /\ client[p] = "stamped"
          /\ request_rx' = Append(request_rx, p)
          /\ UNCHANGED <<now, send_time, event_rx, inflight_requests, inflight_events,
                         phase, applying, applied>>
      BY <1>2, <2>2 DEF Register, broker, apply_loop
    <3>2. request_rx \in Seq(Positions) /\ client \in [Positions -> ClientStates]
      BY DEF BrokerTypeOK
    <3>3. p \notin Range1(request_rx) /\ p \notin inflight_requests
      BY <3>1 DEF WaitingIsTracked
    <3>4. /\ request_rx' \in Seq(Positions)
          /\ Range1(request_rx') = Range1(request_rx) \cup {p}
          /\ NoDuplicates(request_rx')
      BY <3>1, <3>2, <3>3, SendAppends DEF WaitingIsTracked, NoDuplicates
    <3>5. BrokerTypeOK'
      BY <3>1, <3>4, SMTT(40) DEF BrokerTypeOK, ClientStates
    <3>6. \A r \in Positions :
            /\ client'[r] = "waiting" <=> client[r] = "waiting" \/ r = p
            /\ client'[r] = "panicked" => client[r] = "panicked"
      BY <3>1, <3>2, SMTT(40)
    <3>7. WaitingIsTracked'
      BY <3>1, <3>3, <3>4, <3>6, SMTT(40) DEF WaitingIsTracked, NoDuplicates
    <3> QED
      BY <3>1, <3>5, <3>7 DEF NoMissedJoin
  <2> QED
    BY <2>1, <2>2
<1>3. ASSUME SendEvent PROVE BrokerInv'
  <2>1. /\ applied' = applied + 1 /\ applied < MaxPosition
        /\ event_rx' = Append(event_rx, applied + 1)
        /\ UNCHANGED <<now, client, send_time, request_rx, inflight_requests,
                       inflight_events, phase, applying>>
    BY <1>3 DEF SendEvent, broker
  <2>2. applied + 1 \in Positions
    BY <2>1, BrokerAssumption DEF BrokerTypeOK, Positions
  <2>3. BrokerTypeOK'
    BY <2>1, <2>2, SendAppends DEF BrokerTypeOK, Positions
  <2> QED
    BY <2>1, <2>3, ZenonT(40) DEF NoMissedJoin, WaitingIsTracked
<1>4. ASSUME Tick PROVE BrokerInv'
  <2>1. now' = now + 1 /\ UNCHANGED <<client, send_time, request_rx, event_rx,
                                      inflight_requests, inflight_events, phase,
                                      applying, applied>>
    BY <1>4 DEF Tick, channels, broker, apply_loop
  <2>2. BrokerTypeOK'
    BY <2>1 DEF BrokerTypeOK
  <2> QED
    BY <2>1, <2>2, ZenonT(40) DEF NoMissedJoin, WaitingIsTracked
<1>5. ASSUME ApplyLoopPanics PROVE BrokerInv'
  <2>1. ~ applying' /\ UNCHANGED <<now, client, send_time, request_rx, event_rx,
                                   inflight_requests, inflight_events, phase, applied>>
    BY <1>5 DEF ApplyLoopPanics, channels, broker
  <2>2. BrokerTypeOK'
    BY <2>1 DEF BrokerTypeOK
  <2> QED
    BY <2>1, <2>2, ZenonT(40) DEF NoMissedJoin, WaitingIsTracked
<1> QED
  BY <1>1, <1>2, <1>3, <1>4, <1>5

\* Step 1 of run: each received request is answered or waits, and none of those
\* that wait has its event here.
LEMMA JoinRequestsKeeps == ASSUME BrokerInv, JoinRequests PROVE BrokerInv'
<1> DEFINE batch == Range1(Received(request_rx))
           left == Left(request_rx)
<1>1. /\ client' = Answered(batch \cap inflight_events, "event")
      /\ inflight_events' = inflight_events \ batch
      /\ inflight_requests' = inflight_requests \cup (batch \ inflight_events)
      /\ request_rx' = left
      /\ UNCHANGED <<now, send_time, event_rx, applying, applied>> /\ phase' = "events"
  BY DEF JoinRequests, apply_loop
<1>2. /\ request_rx \in Seq(Positions) /\ NoDuplicates(request_rx)
      /\ {p \in Positions : client[p] = "waiting"} = Range1(request_rx) \cup inflight_requests
      /\ Range1(request_rx) \cap inflight_requests = {}
      /\ inflight_requests \cap inflight_events = {}
      /\ inflight_requests \subseteq Positions /\ inflight_events \subseteq Positions
  BY DEF BrokerInv, BrokerTypeOK, WaitingIsTracked, NoDuplicates, NoMissedJoin
<1>3. /\ left \in Seq(Positions) /\ batch \cup Range1(left) = Range1(request_rx)
      /\ batch \cap Range1(left) = {} /\ NoDuplicates(left)
  BY <1>2, BatchRecvSplits
<1> HIDE DEF batch, left
<1>4. /\ client' \in [Positions -> ClientStates]
      /\ \A p \in Positions : client'[p] = "waiting"
                                <=> client[p] = "waiting" /\ p \notin batch \cap inflight_events
      /\ \A p \in Positions : client'[p] = "panicked" => client[p] = "panicked"
  BY <1>1, AnsweredClients, Zenon DEF BrokerInv
<1>5. BrokerTypeOK'
  <2>1. batch \subseteq Positions
    BY <1>2, <1>3
  <2>2. inflight_requests' \subseteq Positions /\ inflight_events' \subseteq Positions
    BY <1>1, <1>2, <2>1
  <2> QED
    BY <1>1, <1>3, <1>4, <2>2, ZenonT(40) DEF BrokerInv, BrokerTypeOK
<1>6. NoMissedJoin'
  BY <1>1, <1>2 DEF NoMissedJoin
<1>7. WaitingIsTracked'
  <2>0. \A p \in Positions : client[p] = "waiting" <=> p \in Range1(request_rx) \cup inflight_requests
    BY <1>2, Zenon
  <2>1. {p \in Positions : client'[p] = "waiting"} = Range1(left) \cup inflight_requests'
    <3>1. \A p \in Positions : client'[p] = "waiting" <=> p \in Range1(left) \cup inflight_requests'
      BY <1>1, <1>2, <1>3, <1>4, <2>0, ZenonT(40)
    <3>2. Range1(left) \cup inflight_requests' \subseteq Positions
      BY <1>1, <1>2, <1>3
    <3> QED
      BY <3>1, <3>2, Zenon
  <2>2. Range1(left) \cap inflight_requests' = {}
    BY <1>1, <1>2, <1>3, SMTT(40)
  <2> QED
    BY <1>1, <1>3, <1>4, <2>1, <2>2, ZenonT(40) DEF BrokerInv, WaitingIsTracked, NoDuplicates
<1> QED
  BY <1>5, <1>6, <1>7 DEF BrokerInv

\* Step 2 of run: each received event answers its request or waits.
LEMMA JoinEventsKeeps == ASSUME BrokerInv, JoinEvents PROVE BrokerInv'
<1> DEFINE batch == Range1(Received(event_rx))
<1>1. /\ client' = Answered(batch \cap inflight_requests, "event")
      /\ inflight_requests' = inflight_requests \ batch
      /\ inflight_events' = inflight_events \cup (batch \ inflight_requests)
      /\ event_rx' = Left(event_rx)
      /\ UNCHANGED <<now, send_time, request_rx, applying, applied>>
      /\ phase' = "gc_events"
  BY DEF JoinEvents, apply_loop
<1>2. /\ event_rx \in Seq(Positions)
      /\ {p \in Positions : client[p] = "waiting"} = Range1(request_rx) \cup inflight_requests
      /\ Range1(request_rx) \cap inflight_requests = {} /\ NoDuplicates(request_rx)
      /\ inflight_requests \cap inflight_events = {}
      /\ inflight_requests \subseteq Positions /\ inflight_events \subseteq Positions
  BY DEF BrokerInv, BrokerTypeOK, WaitingIsTracked, NoDuplicates, NoMissedJoin
<1>3. event_rx' \in Seq(Positions) /\ batch \subseteq Positions
  <2>1. Received(event_rx) \in Seq(Positions) /\ Left(event_rx) \in Seq(Positions)
    BY <1>2, BatchRecvSplits
  <2> QED
    BY <1>1, <2>1 DEF Range1
<1> HIDE DEF batch
<1>4. /\ client' \in [Positions -> ClientStates]
      /\ \A p \in Positions : client'[p] = "waiting"
                                <=> client[p] = "waiting" /\ p \notin batch \cap inflight_requests
      /\ \A p \in Positions : client'[p] = "panicked" => client[p] = "panicked"
  BY <1>1, AnsweredClients, ZenonT(40) DEF BrokerInv
<1>5. BrokerTypeOK'
  <2>1. inflight_requests' \subseteq Positions /\ inflight_events' \subseteq Positions
    BY <1>1, <1>2, <1>3
  <2> QED
    BY <1>1, <1>3, <1>4, <2>1, ZenonT(40) DEF BrokerInv, BrokerTypeOK
<1>6. NoMissedJoin'
  BY <1>1, <1>2 DEF NoMissedJoin
<1>7. WaitingIsTracked'
  <2>0. \A p \in Positions : client[p] = "waiting" <=> p \in Range1(request_rx) \cup inflight_requests
    BY <1>2, Zenon
  <2>1. {p \in Positions : client'[p] = "waiting"} = Range1(request_rx) \cup inflight_requests'
    <3>1. \A p \in Positions : client'[p] = "waiting"
                                  <=> p \in Range1(request_rx) \cup inflight_requests'
      BY <1>1, <1>2, <1>4, <2>0, ZenonT(40)
    <3>2. Range1(request_rx) \cup inflight_requests' \subseteq Positions
      BY <1>1, <1>2
    <3> QED
      BY <3>1, <3>2, Zenon
  <2>2. Range1(request_rx) \cap inflight_requests' = {}
    BY <1>1, <1>2
  <2> QED
    BY <1>1, <1>2, <1>4, <2>1, <2>2, ZenonT(40) DEF BrokerInv, WaitingIsTracked, NoDuplicates
<1> QED
  BY <1>5, <1>6, <1>7 DEF BrokerInv

\* Steps 3 and 4 of run: events are forgotten, expired requests are answered.
LEMMA GcKeeps ==
    ASSUME BrokerInv, gc_inflight_events \/ gc_inflight_requests PROVE BrokerInv'
<1>1. CASE gc_inflight_events
  <2>1. /\ inflight_events' \subseteq inflight_events
        /\ UNCHANGED <<now, client, send_time, request_rx, event_rx, inflight_requests,
                       applying, applied>>
        /\ phase' = "gc_requests"
    BY <1>1 DEF gc_inflight_events, channels, apply_loop
  <2>2. BrokerTypeOK' /\ NoMissedJoin'
    BY <2>1 DEF BrokerInv, BrokerTypeOK, NoMissedJoin
  <2> QED
    BY <2>1, <2>2, ZenonT(40) DEF BrokerInv, WaitingIsTracked
<1>2. CASE gc_inflight_requests
  <2> DEFINE popped == {p \in inflight_requests :
                          \A q \in inflight_requests : q <= p => Expired(q)}
  <2>1. /\ client' = Answered(popped, "timeout")
        /\ inflight_requests' = inflight_requests \ popped
        /\ UNCHANGED <<now, send_time, request_rx, event_rx, inflight_events, applying,
                       applied>>
        /\ phase' = "requests"
    BY <1>2 DEF gc_inflight_requests, channels, apply_loop
  <2>2. popped \subseteq inflight_requests
    OBVIOUS
  <2> HIDE DEF popped
  <2>3. /\ client' \in [Positions -> ClientStates]
        /\ \A p \in Positions : client'[p] = "waiting"
                                  <=> client[p] = "waiting" /\ p \notin popped
        /\ \A p \in Positions : client'[p] = "panicked" => client[p] = "panicked"
    BY <2>1, AnsweredClients, Zenon DEF BrokerInv
  <2>4. BrokerTypeOK' /\ NoMissedJoin'
    BY <2>1, <2>3, SMTT(40) DEF BrokerInv, BrokerTypeOK, NoMissedJoin
  <2>5. {p \in Positions : client'[p] = "waiting"} = Range1(request_rx) \cup inflight_requests'
    BY <2>1, <2>2, <2>3, SMTT(40) DEF BrokerInv, WaitingIsTracked
  <2>6. WaitingIsTracked'
    BY <2>1, <2>3, <2>5, SMTT(40) DEF BrokerInv, WaitingIsTracked
  <2> QED
    BY <2>4, <2>6 DEF BrokerInv
<1> QED
  BY <1>1, <1>2

\* When the broker panics, everybody who waits does; when the process restarts,
\* their connections break.
LEMMA EndsKeep == ASSUME BrokerInv, BrokerPanics \/ Restart PROVE BrokerInv'
<1>0. Range1(<< >>) = {}
  BY DEF Range1
<1>1. CASE BrokerPanics
  <2>1. /\ client' = Answered({p \in Positions : client[p] = "waiting"}, "panicked")
        /\ request_rx' = << >> /\ event_rx' = << >>
        /\ inflight_requests' = {} /\ inflight_events' = {}
        /\ ~ applying' /\ UNCHANGED <<now, send_time, applied>>
    BY <1>1 DEF BrokerPanics, RecvPanics, apply_loop
  <2>2. BrokerTypeOK'
    BY <2>1, SMTT(40) DEF BrokerInv, BrokerTypeOK, ClientStates, Answered
  <2>3. {p \in Positions : client'[p] = "waiting"} = {}
    BY <2>1, SMTT(40) DEF Answered
  <2> QED
    BY <1>0, <2>1, <2>2, <2>3, SMTT(40) DEF BrokerInv, NoMissedJoin, WaitingIsTracked
<1>2. CASE Restart
  <2>1. /\ client' = [p \in Positions |->
                       IF client[p] \in {"stamped", "waiting", "panicked"}
                       THEN "disconnected" ELSE client[p]]
        /\ request_rx' = << >> /\ event_rx' = << >>
        /\ inflight_requests' = {} /\ inflight_events' = {} /\ phase' = "requests"
        /\ applied' \in 0..applied /\ UNCHANGED <<now, send_time>>
    BY <1>2 DEF Restart
  <2>2. BrokerTypeOK'
    BY <2>1, BrokerAssumption, SMTT(40) DEF BrokerInv, BrokerTypeOK, ClientStates
  <2>3. /\ {p \in Positions : client'[p] = "waiting"} = {}
        /\ \A p \in Positions : client'[p] # "panicked"
    BY <2>1, SMTT(40)
  <2> QED
    BY <1>0, <2>1, <2>2, <2>3, SMTT(40) DEF BrokerInv, NoMissedJoin, WaitingIsTracked
<1> QED
  BY <1>1, <1>2

\* Every step keeps the invariant.
LEMMA BrokerStepKeeps == BrokerInv /\ [Next]_vars => BrokerInv'
<1> SUFFICES ASSUME BrokerInv, [Next]_vars PROVE BrokerInv'
  OBVIOUS
<1>1. CASE UNCHANGED vars
  <2>1. UNCHANGED <<now, client, send_time, request_rx, event_rx, inflight_requests,
                    inflight_events, phase, applying, applied>>
    BY <1>1 DEF vars, channels, broker, apply_loop
  <2> QED
    BY <2>1, ZenonT(40) DEF BrokerInv, BrokerTypeOK, NoMissedJoin, WaitingIsTracked
<1> QED
  BY <1>1, OutsideKeeps, JoinRequestsKeeps, JoinEventsKeeps, GcKeeps, EndsKeep,
     ZenonT(40) DEF Next, BrokerStep

\* The invariant holds in every reachable state.
LEMMA BrokerInvariance == Spec => []BrokerInv
  BY BrokerInit, BrokerStepKeeps, PTL DEF Spec

-----------------------------------------------------------------------------
\* NoMissedJoin: in whatever order a request and its event reach the broker
\* (MessageBroker::run), the second finds the first.
THEOREM NoJoinIsMissed == Spec => []NoMissedJoin
<1>1. BrokerInv => NoMissedJoin
  BY DEF BrokerInv
<1> QED
  BY <1>1, BrokerInvariance, PTL

\* WaitingIsTracked: no oneshot sender is used twice or dropped, so that the unwrap
\* in wait_for_response does not panic, as long as the apply loop has not panicked.
THEOREM EveryWaiterIsTracked == Spec => []WaitingIsTracked
<1>1. BrokerInv => WaitingIsTracked
  BY DEF BrokerInv
<1> QED
  BY <1>1, BrokerInvariance, PTL

\* TimeoutJustified: gc_inflight_requests answers only requests that have waited for
\* the whole timeout and whose events the broker does not hold.
THEOREM TimeoutsAreJustified == Spec => TimeoutJustified
<1> DEFINE Justified ==
      \A p \in Positions : client[p] # "timeout" /\ client'[p] = "timeout"
         => now - send_time[p] >= Timeout /\ p \notin inflight_events
<1>1. ASSUME BrokerInv, [Next]_vars PROVE [Justified]_client
  <2> SUFFICES ASSUME NEW p \in Positions, client[p] # "timeout", client'[p] = "timeout"
               PROVE  now - send_time[p] >= Timeout /\ p \notin inflight_events
    OBVIOUS
  <2>0. client \in [Positions -> ClientStates]
    BY <1>1 DEF BrokerInv, BrokerTypeOK
  <2>1. CASE gc_inflight_requests
    <3> DEFINE popped == {r \in inflight_requests :
                            \A q \in inflight_requests : q <= r => Expired(q)}
    <3>1. client' = Answered(popped, "timeout")
      BY <2>1 DEF gc_inflight_requests
    <3>2. p \in popped
      BY <3>1 DEF Answered
    <3>3. p \in inflight_requests /\ p \in Int
      BY <3>2 DEF Positions
    <3>4. Expired(p)
      BY <3>2, <3>3
    <3> QED
      BY <1>1, <3>3, <3>4 DEF Expired, BrokerInv, NoMissedJoin
  <2>2. CASE \E r \in Positions : Stamp(r) \/ Register(r)
    BY <2>0, <2>2, SMTT(40) DEF Stamp, Register
  <2>3. CASE JoinRequests \/ JoinEvents
    BY <2>3, SMTT(40) DEF JoinRequests, JoinEvents, Answered
  <2>4. CASE BrokerPanics \/ Restart
    BY <2>4, SMTT(40) DEF BrokerPanics, Restart, Answered
  <2>5. CASE SendEvent \/ ApplyLoopPanics \/ Tick \/ gc_inflight_events \/ UNCHANGED vars
    BY <2>5 DEF SendEvent, ApplyLoopPanics, Tick, gc_inflight_events, vars
  <2> QED
    BY <1>1, <2>1, <2>2, <2>3, <2>4, <2>5 DEF Next, BrokerStep
<1>2. []BrokerInv /\ [][Next]_vars => [][Justified]_client
  BY <1>1, PTL
<1> QED
  BY <1>2, BrokerInvariance, PTL DEF Spec, TimeoutJustified
=============================================================================
