---------------------------- MODULE GatewayProofs ----------------------------
(***************************************************************************)
(* For any number of nodes, calls and faults: the gateway tells its        *)
(* clients the truth (AnswersAreTrue), and calls that share a broken       *)
(* connection replace it once (OneResetPerFailure).                        *)
(***************************************************************************)
EXTENDS Gateway, TLAPS

Attempted == {"sending", "waiting"}

CallType ==
    [pc : {"locking", "probing", "connecting", "sending", "waiting", "returned",
           "cancelled"},
     counter : Nat, probed : Nat, node : Nat, conn : Nat, attempt : Nat,
     answer : {"none", "ok", "rejected", "unknown"}]

InnerType ==
    [reset_leader_counter : Nat, leader_node : Nat, conn : Nat,
     next_probe_node : Nat]

\* The shape of the state that the arithmetic needs.
GatewayTypeOK ==
    /\ call \in [Calls -> CallType]
    /\ inner \in InnerType
    /\ proposals \subseteq [call : Calls, attempt : Nat, node : Nat]
    /\ leader \in Nat /\ up \subseteq Nodes /\ view \in [Nodes -> Nat]

-----------------------------------------------------------------------------
(* The connection.                                                         *)

\* The counter is at least the number of connections made, and ahead of it while
\* the next one is being made.
CounterAhead ==
    /\ inner.conn <= inner.reset_leader_counter
    /\ inner.leader_node # 0 => inner.conn > 0
    /\ \A c \in Calls : Resetting(c) => inner.conn < inner.reset_leader_counter
    /\ \A c, d \in Calls : Resetting(c) /\ Resetting(d) => c = d

\* The connection of the call is the present one, and not being replaced.
Present(c) == call[c].conn = inner.conn /\ Unlocked

\* A call has the counter of its connection, or of a later reset that was given
\* up; one more once its attempt has failed.
CountersOfCalls ==
    \A c \in Calls :
        /\ call[c].pc \in Attempted =>
             /\ call[c].conn <= call[c].counter
             /\ call[c].counter <= inner.reset_leader_counter
             /\ ~ Present(c) => call[c].counter < inner.reset_leader_counter
        /\ call[c].pc = "locking" =>
             /\ call[c].conn < call[c].counter \/ call[c].conn = 0
             /\ call[c].counter <= inner.reset_leader_counter + 1
             /\ ~ Present(c) => call[c].counter <= inner.reset_leader_counter

ConnInv == GatewayTypeOK /\ CounterAhead /\ CountersOfCalls

LEMMA ConnInvInit == Init => ConnInv
  BY GatewayAssumption, SMTT(40)
  DEF Init, ConnInv, GatewayTypeOK, CounterAhead, CountersOfCalls, NewCall, Call, new, Inner,
      CallType, InnerType, Resetting, Attempted, Present, Unlocked, Nodes,
      INITIAL_LEADER

\* A step of one call that leaves the connection and the mutex alone: it keeps
\* its numbers, or is over, or has failed an attempt.
LEMMA QuietStep ==
    ASSUME ConnInv, GatewayTypeOK', UNCHANGED inner,
           \A c \in Calls :
             \/ call'[c] = call[c]
             \/ call'[c].pc \in {"returned", "cancelled"}
             \/ /\ call'[c].conn = call[c].conn /\ call'[c].counter = call[c].counter
                /\ \/ call[c].pc = "sending" /\ call'[c].pc = "waiting"
                   \/ Resetting(c) /\ call'[c].pc \in {"probing", "connecting"}
             \/ /\ call'[c].conn = call[c].conn /\ call'[c].counter = call[c].counter + 1
                /\ call[c].pc \in Attempted /\ call'[c].pc = "locking"
    PROVE  ConnInv'
<1>1. \A c \in Calls : Resetting(c)' => Resetting(c)
  BY SMTT(40) DEF Resetting, Attempted
<1>2. CounterAhead'
  BY <1>1, SMTT(40) DEF ConnInv, CounterAhead
<1>3. \A c \in Calls : call'[c].conn = call[c].conn /\ Present(c) => Present(c)'
  BY <1>1, SMTT(40) DEF Present, Unlocked
<1>4. CountersOfCalls'
  <2> SUFFICES ASSUME NEW c \in Calls
               PROVE  (/\ call[c].pc \in Attempted =>
                            /\ call[c].conn <= call[c].counter
                            /\ call[c].counter <= inner.reset_leader_counter
                            /\ ~ Present(c) => call[c].counter < inner.reset_leader_counter
                       /\ call[c].pc = "locking" =>
                            /\ call[c].conn < call[c].counter \/ call[c].conn = 0
                            /\ call[c].counter <= inner.reset_leader_counter + 1
                            /\ ~ Present(c) => call[c].counter <= inner.reset_leader_counter)'
    BY DEF CountersOfCalls
  <2>1. call[c] \in CallType /\ call'[c] \in CallType /\ inner \in InnerType
    BY SMTT(40) DEF ConnInv, GatewayTypeOK
  <2> QED
    BY <2>1, <1>3, SMTT(40)
    DEF ConnInv, CountersOfCalls, CallType, InnerType, Attempted, Resetting
<1> QED
  BY <1>2, <1>4 DEF ConnInv

\* The shape is kept by every step.
LEMMA TypeStep == ASSUME GatewayTypeOK, Next PROVE GatewayTypeOK'
<1> USE DEF GatewayTypeOK, CallType, InnerType, Nodes, cluster, Call
<1>1. ASSUME NEW c \in Calls, get_or_reset_leader(c) PROVE GatewayTypeOK'
  <2>1. Sending(c, inner) \in CallType
    BY SMTT(40) DEF Sending
  <2>2. GoesTo(c, "probing", inner.next_probe_node, 0) \in CallType
    BY SMTT(40) DEF GoesTo
  <2>3. Inner(inner.reset_leader_counter + 1, inner.leader_node, inner.conn,
              inner.next_probe_node) \in InnerType
    BY SMTT(40) DEF Inner
  <2> HIDE DEF CallType, InnerType, Nodes, Call
  <2>4. CASE LeaderIsCurrent(call[c].counter)
    <3>1. call' = [call EXCEPT ![c] = Sending(c, inner)]
          /\ UNCHANGED <<inner, cluster, proposals>>
      BY <1>1, <2>4 DEF get_or_reset_leader
    <3> QED
      BY <3>1, <2>1, SMTT(40)
  <2>5. CASE ~ LeaderIsCurrent(call[c].counter)
    <3>1. /\ call' = [call EXCEPT ![c] = GoesTo(c, "probing", inner.next_probe_node, 0)]
          /\ inner' = Inner(inner.reset_leader_counter + 1, inner.leader_node,
                            inner.conn, inner.next_probe_node)
          /\ UNCHANGED <<cluster, proposals>>
      BY <1>1, <2>5 DEF get_or_reset_leader
    <3> QED
      BY <3>1, <2>2, <2>3, SMTT(40)
  <2> QED
    BY <2>4, <2>5
<1>2. ASSUME NEW c \in Calls, ProbeFails(c) PROVE GatewayTypeOK'
  <2>1. (call[c].probed % N) + 1 \in Nat
    BY GatewayAssumption, SMTT(40)
  <2>2. GoesTo(c, "probing", (call[c].probed % N) + 1, 0) \in CallType
    BY <2>1, SMTT(40) DEF GoesTo
  <2> HIDE DEF CallType, InnerType, Nodes, Call
  <2>3. call' = [call EXCEPT ![c] = GoesTo(c, "probing", (call[c].probed % N) + 1, 0)]
        /\ UNCHANGED <<inner, cluster, proposals>>
    BY <1>2 DEF ProbeFails
  <2> QED
    BY <2>2, <2>3, SMTT(40)
<1>3. ASSUME NEW c \in Calls, ProbeSucceeds(c) PROVE GatewayTypeOK'
  <2>1. call[c].probed \in Nat /\ view[call[c].probed] \in Nat
    BY <1>3, SMTT(40) DEF ProbeSucceeds
  <2>2. GoesTo(c, "connecting", call[c].probed, view[call[c].probed]) \in CallType
    BY <2>1, SMTT(40) DEF GoesTo
  <2> HIDE DEF CallType, InnerType, Nodes, Call
  <2>3. call' = [call EXCEPT ![c] =
                   GoesTo(c, "connecting", call[c].probed, view[call[c].probed])]
        /\ UNCHANGED <<inner, cluster, proposals>>
    BY <1>3 DEF ProbeSucceeds
  <2> QED
    BY <2>2, <2>3, SMTT(40)
<1>4. ASSUME NEW c \in Calls, Connect(c) PROVE GatewayTypeOK'
  <2>1. call[c].probed \in Nat /\ call[c].node \in Nat
    BY SMTT(40)
  <2>2. inner' = Inner(inner.reset_leader_counter, call[c].node, inner.conn + 1,
                       call[c].probed)
        /\ call' = [call EXCEPT ![c] = Sending(c, inner')]
        /\ UNCHANGED <<cluster, proposals>>
    BY <1>4 DEF Connect
  <2>3. inner' \in InnerType
    BY <2>1, <2>2, SMTT(40) DEF Inner
  <2>4. Sending(c, inner') \in CallType
    BY <2>3, SMTT(40) DEF Sending
  <2> HIDE DEF CallType, InnerType, Nodes, Call
  <2> QED
    BY <2>2, <2>3, <2>4, SMTT(40)
<1>5. ASSUME NEW c \in Calls PROVE Retried(c) \in CallType
  BY SMTT(40) DEF Retried
<1>6. ASSUME NEW c \in Calls, Unreachable(c) \/ TimesOut(c) PROVE GatewayTypeOK'
  <2>1. call' = [call EXCEPT ![c] = Retried(c)] /\ UNCHANGED <<inner, cluster, proposals>>
    BY <1>6 DEF Unreachable, TimesOut
  <2> HIDE DEF CallType, InnerType, Nodes, Call
  <2> QED
    BY <2>1, <1>5, SMTT(40)
<1>7. ASSUME NEW c \in Calls, Propose(c) PROVE GatewayTypeOK'
  <2>1. GoesTo(c, "waiting", 0, call[c].node) \in CallType
    BY SMTT(40) DEF GoesTo
  <2>2. Attempt(c, call[c].node) \in [call : Calls, attempt : Nat, node : Nat]
    BY SMTT(40) DEF Attempt
  <2> HIDE DEF CallType, InnerType, Nodes, Call
  <2>3. /\ proposals' = proposals \cup {Attempt(c, call[c].node)}
        /\ call' = [call EXCEPT ![c] = GoesTo(c, "waiting", 0, call[c].node)]
        /\ UNCHANGED <<inner, cluster>>
    BY <1>7 DEF Propose
  <2> QED
    BY <2>1, <2>2, <2>3, SMTT(40)
<1>8. ASSUME NEW c \in Calls, NotLeader(c) \/ GivenUp(c) PROVE GatewayTypeOK'
  <2>1. Attempt(c, 0) \in [call : Calls, attempt : Nat, node : Nat]
    BY SMTT(40) DEF Attempt
  <2> HIDE DEF CallType, InnerType, Nodes, Call
  <2>2. /\ proposals' \in {proposals, proposals \cup {Attempt(c, 0)}}
        /\ call' = [call EXCEPT ![c] = Retried(c)]
        /\ UNCHANGED <<inner, cluster>>
    BY <1>8 DEF NotLeader, GivenUp
  <2> QED
    BY <2>1, <2>2, <1>5, SMTT(40)
<1>9. ASSUME NEW c \in Calls, Cancel(c) PROVE GatewayTypeOK'
  <2>1. Call("cancelled", 0, 0, 0, 0, 0, "none") \in CallType
    BY SMTT(40)
  <2> HIDE DEF CallType, InnerType, Nodes, Call
  <2>2. /\ proposals' \subseteq proposals /\ UNCHANGED <<inner, cluster>>
        /\ call' = [call EXCEPT ![c] = Call("cancelled", 0, 0, 0, 0, 0, "none")]
    BY <1>9, ZenonT(40) DEF Cancel
  <2> QED
    BY <2>1, <2>2, SMTT(40)
<1>10. ASSUME NEW p \in proposals, Commit(p) PROVE GatewayTypeOK'
  <2>1. \A answer \in {"ok", "rejected", "unknown"} : Returned(answer) \in CallType
    BY SMTT(40) DEF Returned
  <2>2. p.call \in Calls
    BY SMTT(40)
  <2> HIDE DEF CallType, InnerType, Nodes, Call
  <2>3. /\ proposals' \subseteq proposals /\ UNCHANGED <<inner, cluster>>
        /\ \/ call' = call
           \/ \E answer \in {"ok", "rejected", "unknown"} :
                call' = [call EXCEPT ![p.call] = Returned(answer)]
    BY <1>10, ZenonT(40) DEF Commit
  <2> QED
    BY <2>1, <2>2, <2>3, SMTT(40)
<1>11. ASSUME NEW p \in proposals, Lose(p) PROVE GatewayTypeOK'
  <2>1. Returned("unknown") \in CallType
    BY SMTT(40) DEF Returned
  <2>2. p.call \in Calls
    BY SMTT(40)
  <2> HIDE DEF CallType, InnerType, Nodes, Call
  <2>3. /\ proposals' \subseteq proposals /\ UNCHANGED <<inner, cluster>>
        /\ call' = call \/ call' = [call EXCEPT ![p.call] = Returned("unknown")]
    BY <1>11, ZenonT(40) DEF Lose
  <2> QED
    BY <2>1, <2>2, <2>3, SMTT(40)
<1>12. ASSUME NEW n \in Nodes, Elect(n) \/ Learn(n) \/ Forget(n) \/ Restart(n)
       PROVE  GatewayTypeOK'
  <2>1. n \in Nat
    BY GatewayAssumption
  <2>2. UNCHANGED <<call, inner, proposals>>
    BY <1>12 DEF Elect, Learn, Forget, Restart
  <2>3. /\ leader' \in {leader, n} /\ up' \in {up, up \cup {n}}
        /\ \/ view' = view \/ view' = [view EXCEPT ![n] = n]
           \/ view' = [view EXCEPT ![n] = leader] \/ view' = [view EXCEPT ![n] = 0]
    BY <1>12 DEF Elect, Learn, Forget, Restart
  <2>4. leader' \in Nat /\ up' \subseteq Nodes /\ view' \in [Nodes -> Nat]
    BY <2>1, <2>3, SMTT(40)
  <2> QED
    BY <2>2, <2>4
<1>13. ASSUME NEW n \in Nodes, Crash(n) PROVE GatewayTypeOK'
  <2>1. \A c \in Calls : call[c] \in CallType /\ Retried(c) \in CallType
    BY <1>5
  <2> HIDE DEF CallType, InnerType, Nodes, Call
  <2>2. /\ call' = [c \in Calls |-> IF call[c].pc = "waiting" /\ call[c].node = n
                                THEN Retried(c) ELSE call[c]]
        /\ UNCHANGED <<inner, proposals>> /\ up' \subseteq up
        /\ leader' = (IF leader = n THEN 0 ELSE leader) /\ view' = [view EXCEPT ![n] = 0]
    BY <1>13, ZenonT(40) DEF Crash
  <2>3. call' \in [Calls -> CallType]
    BY <2>1, <2>2, SMTT(40)
  <2> QED
    BY <2>2, <2>3, SMTT(40)
<1> QED
  BY <1>1, <1>2, <1>3, <1>4, <1>6, <1>7, <1>8, <1>9, <1>10, <1>11, <1>12, <1>13,
     ZenonT(40) DEF Next, Probe, Arrive, Settle

\* Every step but taking the mutex and making the connection is a quiet one.
LEMMA ConnInvStep == ASSUME ConnInv, [Next]_vars PROVE ConnInv'
<1>0. CASE UNCHANGED vars
  BY <1>0, SMTT(40)
  DEF vars, cluster, ConnInv, GatewayTypeOK, CounterAhead, CountersOfCalls, Resetting,
      Present, Unlocked
<1>a. CASE Next
  <2>0. GatewayTypeOK'
    BY <1>a, TypeStep DEF ConnInv
  <2> USE <2>0 DEF ConnInv, GatewayTypeOK, CallType, InnerType, Call
  <2>1. ASSUME NEW c \in Calls, get_or_reset_leader(c) PROVE ConnInv'
    <3>1. CASE LeaderIsCurrent(call[c].counter)
      <4>1. /\ UNCHANGED inner
            /\ \A d \in Calls : d # c => call'[d] = call[d]
            /\ call'[c].pc = "sending" /\ call'[c].conn = inner.conn
            /\ call'[c].counter = inner.reset_leader_counter
        BY <2>1, <3>1, SMTT(40) DEF get_or_reset_leader, Sending
      <4>2. Unlocked /\ Unlocked'
        BY <2>1, <4>1, SMTT(40) DEF get_or_reset_leader, Unlocked, Resetting
      <4> QED
        BY <4>1, <4>2, SMTT(40)
        DEF CounterAhead, CountersOfCalls, Present, Unlocked, Attempted
    <3>2. CASE ~ LeaderIsCurrent(call[c].counter)
      <4>1. /\ inner'.reset_leader_counter = inner.reset_leader_counter + 1
            /\ inner'.conn = inner.conn /\ inner'.leader_node = inner.leader_node
            /\ \A d \in Calls : d # c => call'[d] = call[d]
            /\ call'[c].pc = "probing"
        BY <2>1, <3>2, SMTT(40) DEF get_or_reset_leader, GoesTo, Inner
      <4>2. Unlocked
        BY <2>1 DEF get_or_reset_leader
      <4>3. CounterAhead'
        BY <4>1, <4>2, SMTT(40) DEF CounterAhead, Unlocked, Resetting
      <4>4. CountersOfCalls'
        <5>1. Resetting(c)' /\ ~ Unlocked'
          BY <4>1 DEF Resetting, Unlocked
        <5>2. \A d \in Calls : d # c =>
                 /\ call[d].pc \in Attempted =>
                      call[d].counter <= inner.reset_leader_counter
                 /\ call[d].pc = "locking" =>
                      call[d].counter <= inner.reset_leader_counter + 1
          BY <4>2, SMTT(40) DEF CountersOfCalls, CounterAhead
        <5> QED
          BY <4>1, <5>1, <5>2, SMTT(40) DEF CountersOfCalls, Attempted
      <4> QED
        BY <4>3, <4>4
    <3> QED
      BY <3>1, <3>2
  <2>2. ASSUME NEW c \in Calls, Connect(c) PROVE ConnInv'
    <3>1. /\ inner'.reset_leader_counter = inner.reset_leader_counter
          /\ inner'.conn = inner.conn + 1
          /\ \A d \in Calls : d # c => call'[d] = call[d]
          /\ call'[c].pc = "sending" /\ call'[c].conn = inner.conn + 1
          /\ call'[c].counter = inner.reset_leader_counter
      BY <2>2, SMTT(40) DEF Connect, Sending, Inner
    <3>2. Resetting(c) /\ ~ Unlocked
      BY <2>2, SMTT(40) DEF Connect, Unlocked, Resetting
    <3>3. \A d \in Calls : ~ Resetting(d)'
      BY <3>1, <3>2, SMTT(40) DEF CounterAhead, Resetting
    <3>4. CounterAhead'
      BY <3>1, <3>2, <3>3, SMTT(40) DEF CounterAhead
    <3>5. CountersOfCalls'
      BY <3>1, <3>2, <3>3, SMTT(40)
      DEF CounterAhead, CountersOfCalls, Present, Unlocked, Attempted
    <3> QED
      BY <3>4, <3>5
  <2> DEFINE Quiet(c) ==
             \/ call'[c] = call[c]
             \/ call'[c].pc \in {"returned", "cancelled"}
             \/ /\ call'[c].conn = call[c].conn /\ call'[c].counter = call[c].counter
                /\ \/ call[c].pc = "sending" /\ call'[c].pc = "waiting"
                   \/ Resetting(c) /\ call'[c].pc \in {"probing", "connecting"}
             \/ /\ call'[c].conn = call[c].conn /\ call'[c].counter = call[c].counter + 1
                /\ call[c].pc \in Attempted /\ call'[c].pc = "locking"
  <2>3. ASSUME NEW c \in Calls, Probe(c) \/ Propose(c)
        PROVE  UNCHANGED inner /\ \A d \in Calls : Quiet(d)
    BY <2>3, SMTT(40) DEF Probe, ProbeFails, ProbeSucceeds, Propose, Reached, GoesTo,
                          Resetting
  <2>4. ASSUME NEW c \in Calls,
               Unreachable(c) \/ NotLeader(c) \/ GivenUp(c) \/ TimesOut(c)
        PROVE  UNCHANGED inner /\ \A d \in Calls : Quiet(d)
    BY <2>4, SMTT(40)
    DEF Unreachable, NotLeader, GivenUp, TimesOut, Reached, Retried, Attempted
  <2>5. ASSUME NEW c \in Calls, Cancel(c)
        PROVE  UNCHANGED inner /\ \A d \in Calls : Quiet(d)
    BY <2>5, SMTT(40) DEF Cancel
  <2>6. ASSUME NEW p \in proposals, Settle(p)
        PROVE  UNCHANGED inner /\ \A d \in Calls : Quiet(d)
    <3>1. /\ UNCHANGED inner
          /\ \/ call' = call
             \/ \E a : call' = [call EXCEPT ![p.call] = Returned(a)]
      BY <2>6, ZenonT(40) DEF Settle, Commit, Lose
    <3>2. p.call \in Calls
      OBVIOUS
    <3>3. \A a : Returned(a).pc = "returned"
      BY DEF Returned
    <3> QED
      BY <3>1, <3>2, <3>3
  <2>7. ASSUME NEW n \in Nodes, Elect(n) \/ Learn(n) \/ Forget(n) \/ Restart(n)
        PROVE  UNCHANGED inner /\ \A d \in Calls : Quiet(d)
    BY <2>7 DEF Elect, Learn, Forget, Restart
  <2>8. ASSUME NEW n \in Nodes, Crash(n)
        PROVE  UNCHANGED inner /\ \A d \in Calls : Quiet(d)
    BY <2>8, SMTT(40) DEF Crash, Retried, Attempted
  <2>9. ASSUME UNCHANGED inner, \A d \in Calls : Quiet(d) PROVE ConnInv'
    BY <2>9, <2>0, QuietStep
  <2> HIDE DEF Quiet
  <2> QED
    BY <1>a, <2>1, <2>2, <2>3, <2>4, <2>5, <2>6, <2>7, <2>8, <2>9
    DEF Next, Probe, Arrive, Settle
<1> QED
  BY <1>0, <1>a

\* What the invariant is for: a call past the mutex is one that had to replace the
\* connection, or was given a newer one.
LEMMA ResetOnce ==
    ASSUME ConnInv, [Next]_vars, NEW c \in Calls, call[c].pc = "locking"
    PROVE  /\ call'[c].pc = "probing" =>
                inner.leader_node = 0 \/ call[c].conn = inner.conn
           /\ call'[c].pc = "sending" =>
                call'[c].conn > call[c].conn \/ inner.reset_leader_counter > inner.conn
<1> USE DEF GatewayTypeOK, CallType, InnerType, Call
<1>1. CASE call'[c].pc \notin {"probing", "sending"}
  BY <1>1
<1>2. CASE get_or_reset_leader(c)
  <2>1. CASE LeaderIsCurrent(call[c].counter)
    <3>1. call'[c].conn = inner.conn /\ call'[c].pc = "sending"
      BY <1>2, <2>1, SMTT(40) DEF ConnInv, get_or_reset_leader, Sending
    <3> QED
      BY <3>1, <2>1, SMTT(40) DEF ConnInv, CounterAhead, CountersOfCalls, LeaderIsCurrent
  <2>2. CASE ~ LeaderIsCurrent(call[c].counter)
    <3>1. call'[c].pc = "probing" /\ Unlocked
      BY <1>2, <2>2, SMTT(40) DEF ConnInv, get_or_reset_leader, GoesTo
    <3> QED
      BY <3>1, <2>2, SMTT(40) DEF ConnInv, CountersOfCalls, Present, LeaderIsCurrent
  <2> QED
    BY <2>1, <2>2
<1>3. CASE ~ get_or_reset_leader(c)
  <2>1. call'[c] = call[c] \/ call'[c].pc \in {"returned", "cancelled"}
    <3>1. CASE UNCHANGED vars
      BY <3>1 DEF vars
    <3>2. ASSUME NEW d \in Calls, get_or_reset_leader(d), d # c PROVE call'[c] = call[c]
      BY <3>2 DEF get_or_reset_leader, ConnInv
    <3>3. ASSUME NEW d \in Calls,
                 Probe(d) \/ Connect(d) \/ Arrive(d) \/ GivenUp(d) \/ TimesOut(d)
          PROVE  call'[c] = call[c]
      <4>1. call[d].pc # "locking" /\ \E r : call' = [call EXCEPT ![d] = r]
        BY <3>3, SMTT(40) DEF Probe, Arrive, ProbeFails, ProbeSucceeds, Connect, Unreachable,
                    Propose, NotLeader, Reached, GivenUp, TimesOut
      <4> QED
        BY <4>1, SMTT(40) DEF ConnInv
    <3>4. ASSUME NEW d \in Calls, Cancel(d)
          PROVE  call'[c] = call[c] \/ call'[c].pc \in {"returned", "cancelled"}
      BY <3>4, SMTT(40) DEF Cancel, ConnInv
    <3>5. ASSUME NEW p \in proposals, Settle(p)
          PROVE  call'[c] = call[c]
      <4>1. call' = call \/ (/\ call[p.call].pc = "waiting"
                             /\ \E a : call' = [call EXCEPT ![p.call] = Returned(a)])
        BY <3>5, ZenonT(40) DEF Settle, Commit, Lose, WaitsFor
      <4> QED
        BY <4>1, SMTT(40) DEF ConnInv
    <3>6. ASSUME NEW n \in Nodes,
                 Elect(n) \/ Learn(n) \/ Forget(n) \/ Restart(n) \/ Crash(n)
          PROVE  call'[c] = call[c]
      BY <3>6 DEF Elect, Learn, Forget, Restart, Crash
    <3> QED
      BY <1>3, <3>1, <3>2, <3>3, <3>4, <3>5, <3>6 DEF Next
  <2> QED
    BY <2>1
<1> QED
  BY <1>2, <1>3

\* Calls that fail over the same connection replace it once, and none of them is
\* given it again unless a reset was cancelled (get_or_reset_leader), whatever
\* the number of calls and of nodes.
THEOREM ConnectionIsResetOnce == Spec => OneResetPerFailure
<1>1. Init => ConnInv
  BY ConnInvInit
<1>2. ConnInv /\ [Next]_vars => ConnInv'
  BY ConnInvStep
<1>3. ConnInv /\ [Next]_vars =>
        [\A c \in Calls : call[c].pc = "locking" =>
           /\ call'[c].pc = "probing" =>
                inner.leader_node = 0 \/ call[c].conn = inner.conn
           /\ call'[c].pc = "sending" =>
                call'[c].conn > call[c].conn
                  \/ inner.reset_leader_counter > inner.conn]_vars
  BY ResetOnce
<1> QED
  BY <1>1, <1>2, <1>3, PTL DEF Spec, OneResetPerFailure

-----------------------------------------------------------------------------
(* The answers.                                                            *)

\* An attempt is in the log, or on its way there, once; the attempt of a request
\* that is being sent is not there yet; and only stray copies wait nowhere.
AttemptsApart ==
    \A p \in proposals :
        /\ p.node = 0 => p.call \in astray
        /\ call[p.call].pc \in {"locking", "probing", "connecting", "waiting"} =>
             p.attempt <= call[p.call].attempt
        /\ call[p.call].pc = "sending" => p.attempt < call[p.call].attempt
        /\ \A q \in proposals : p.call = q.call /\ p.attempt = q.attempt => p = q

\* After a rejection nothing but a stray copy can still be executed.
RejectedIsOver ==
    \A c \in Calls : call[c].answer = "rejected" /\ c \notin astray =>
        c \notin executed /\ \A p \in proposals : p.call # c

OkIsExecuted == \A c \in Calls : call[c].answer = "ok" => c \in executed

\* Only a returned call has an answer.
AnsweredIsOver ==
    \A c \in Calls : call[c].answer # "none" => call[c].pc = "returned"

AnswerInv ==
    /\ GatewayTypeOK /\ AttemptsApart /\ RejectedIsOver /\ OkIsExecuted
    /\ AnsweredIsOver

LEMMA AnswerInvInit == Init => AnswerInv
<1> SUFFICES ASSUME Init PROVE AnswerInv
  OBVIOUS
<1>1. GatewayTypeOK
  BY ConnInvInit DEF ConnInv
<1>2. proposals = {} /\ \A c \in Calls : call[c].answer = "none"
  BY DEF Init, NewCall, Call
<1> QED
  BY <1>1, <1>2
  DEF AnswerInv, AttemptsApart, RejectedIsOver, OkIsExecuted, AnsweredIsOver

\* Steps that add no proposal and give no answer.
LEMMA SilentStep ==
    ASSUME AnswerInv, GatewayTypeOK', UNCHANGED <<executed, astray>>,
           proposals' \subseteq proposals,
           \A c \in Calls :
             \/ call'[c] = call[c]
             \/ call'[c].pc \in {"returned", "cancelled"}
                /\ call'[c].answer \notin {"ok", "rejected"}
                /\ (call'[c].answer # "none" => call'[c].pc = "returned")
             \/ /\ call'[c].answer = "none"
                /\ call[c].pc # "returned" /\ call[c].pc # "cancelled"
                /\ \/ call'[c].pc # "sending" /\ call'[c].attempt = call[c].attempt
                   \/ /\ call'[c].pc = "sending" /\ call[c].pc # "sending"
                      /\ call'[c].attempt = call[c].attempt + 1
    PROVE  AnswerInv'
<1>1. AttemptsApart'
  <2> SUFFICES ASSUME NEW p \in proposals'
               PROVE  (/\ p.node = 0 => p.call \in astray
                       /\ call[p.call].pc \in {"locking", "probing", "connecting", "waiting"}
                            => p.attempt <= call[p.call].attempt
                       /\ call[p.call].pc = "sending" => p.attempt < call[p.call].attempt)'
    BY DEF AttemptsApart, AnswerInv
  <2>1. p \in proposals /\ p.call \in Calls /\ p.attempt \in Nat
    BY DEF AnswerInv, GatewayTypeOK
  <2>2. call[p.call] \in CallType /\ call'[p.call] \in CallType
    BY <2>1 DEF AnswerInv, GatewayTypeOK
  <2> QED
    BY <2>1, <2>2, SMTT(40) DEF AnswerInv, AttemptsApart, CallType
<1>2. OkIsExecuted' /\ AnsweredIsOver' /\ RejectedIsOver'
  BY SMTT(40) DEF AnswerInv, OkIsExecuted, AnsweredIsOver, RejectedIsOver
<1> QED
  BY <1>1, <1>2 DEF AnswerInv

\* A request reaches a node, and a new attempt of its call exists.
LEMMA AttemptStep ==
    ASSUME AnswerInv, GatewayTypeOK', NEW c \in Calls, NEW n, Reached(c),
           proposals' = proposals \cup {Attempt(c, n)}, UNCHANGED executed,
           astray \subseteq astray', n = 0 => c \in astray',
           \A d \in Calls : d # c => call'[d] = call[d],
           call'[c].pc \in {"waiting", "locking"}, call'[c].answer = "none",
           call'[c].attempt = call[c].attempt
    PROVE  AnswerInv'
<1> DEFINE a == Attempt(c, n)
<1>1. /\ a.call = c /\ a.attempt = call[c].attempt /\ a.node = n
      /\ call[c].pc = "sending" /\ call[c] \in CallType
  BY SMTT(40) DEF Attempt, Reached, AnswerInv, GatewayTypeOK
<1>2. \A p \in proposals : p.call = c => p.attempt < a.attempt
  BY <1>1 DEF AnswerInv, AttemptsApart
<1>3. \A p \in proposals : p.call \in Calls /\ p.attempt \in Nat
  BY SMTT(40) DEF AnswerInv, GatewayTypeOK
<1>4. call[c].attempt \in Nat
  BY <1>1 DEF CallType
<1> HIDE DEF a
<1>5. \A p \in proposals' : p = a \/ p \in proposals
  BY SMTT(40) DEF a
<1>6. AttemptsApart'
  <2>1. \A p, q \in proposals' : p.call = q.call /\ p.attempt = q.attempt => p = q
    BY <1>1, <1>2, <1>3, <1>4, <1>5, SMTT(40) DEF AnswerInv, AttemptsApart
  <2>2. \A p \in proposals' : p.node = 0 => p.call \in astray'
    BY <1>1, <1>5, SMTT(40) DEF AnswerInv, AttemptsApart
  <2>3. \A p \in proposals' :
          /\ call'[p.call].pc \in {"locking", "probing", "connecting", "waiting"} =>
               p.attempt <= call'[p.call].attempt
          /\ call'[p.call].pc = "sending" => p.attempt < call'[p.call].attempt
    BY <1>1, <1>2, <1>3, <1>4, <1>5, SMTT(40) DEF AnswerInv, AttemptsApart
  <2> QED
    BY <2>1, <2>2, <2>3, SMTT(40) DEF AttemptsApart
<1>7. RejectedIsOver'
  BY <1>1, <1>5, SMTT(40) DEF AnswerInv, RejectedIsOver
<1>8. OkIsExecuted' /\ AnsweredIsOver'
  BY DEF AnswerInv, OkIsExecuted, AnsweredIsOver
<1> QED
  BY <1>6, <1>7, <1>8, SMTT(40) DEF AnswerInv

\* A commit: a rejection is answered to the latest attempt, and ends the others.
LEMMA CommitStep ==
    ASSUME AnswerInv, GatewayTypeOK', NEW p \in proposals, Commit(p)
    PROVE  AnswerInv'
<1>1. PICK ok \in {p.call \in executed, TRUE}, late \in BOOLEAN :
        /\ proposals' = proposals \ OverWith(p, ok)
        /\ executed' = IF ok THEN executed \cup {p.call} ELSE executed
        /\ call' = IF ~ WaitsFor(p) THEN call
                   ELSE [call EXCEPT ![p.call] =
                           Returned(IF late THEN "unknown"
                                    ELSE IF ok THEN "ok" ELSE "rejected")]
        /\ UNCHANGED astray
  BY ZenonT(40) DEF Commit
<1>2. /\ p.call \in Calls
      /\ \A q \in proposals : q.call \in Calls /\ q.attempt \in Nat
  BY DEF AnswerInv, GatewayTypeOK
<1>3. \A q \in proposals' : q \in proposals
  BY <1>1
<1>4. \A d \in Calls : d # p.call => call'[d] = call[d]
  BY <1>1, <1>2 DEF AnswerInv, GatewayTypeOK
<1>5. ok \/ p.call \notin executed
  BY <1>1, ZenonT(40)
<1>6. CASE ~ WaitsFor(p)
  <2>1. call' = call
    BY <1>1, <1>6, SMTT(40)
  <2>2. AttemptsApart'
    BY <1>1, <1>3, <2>1 DEF AnswerInv, AttemptsApart
  <2>3. call[p.call].answer # "rejected" \/ p.call \in astray
    BY <1>2 DEF AnswerInv, RejectedIsOver
  <2>4. executed' \subseteq executed \cup {p.call} /\ executed \subseteq executed'
    BY <1>1
  <2>5. RejectedIsOver'
    BY <1>1, <1>3, <2>1, <2>3, <2>4 DEF AnswerInv, RejectedIsOver
  <2> QED
    BY <2>1, <2>2, <2>4, <2>5 DEF AnswerInv, OkIsExecuted, AnsweredIsOver
<1>7. CASE WaitsFor(p)
  <2> DEFINE answer == IF late THEN "unknown" ELSE IF ok THEN "ok" ELSE "rejected"
  <2>1. call'[p.call].pc = "returned" /\ call'[p.call].answer = answer
    BY <1>1, <1>2, <1>7, SMTT(40) DEF AnswerInv, GatewayTypeOK, Returned, Call
  <2>2. AttemptsApart'
    BY <1>1, <1>2, <1>3, <1>4, <2>1 DEF AnswerInv, AttemptsApart
  <2>3. executed' \subseteq executed \cup {p.call} /\ executed \subseteq executed'
    BY <1>1
  <2>4. ok => p.call \in executed'
    BY <1>1
  <2>5. OkIsExecuted'
    BY <1>4, <2>1, <2>3, <2>4 DEF AnswerInv, OkIsExecuted
  <2>6. AnsweredIsOver'
    BY <1>4, <2>1 DEF AnswerInv, AnsweredIsOver
  <2>7. ASSUME ~ ok, p.call \notin astray
        PROVE  p.call \notin executed' /\ \A q \in proposals' : q.call # p.call
    <3>1. p.call \notin executed'
      BY <1>1, <1>5, <2>7
    <3>2. ASSUME NEW q \in proposals, q.call = p.call PROVE q \in OverWith(p, ok)
      <4>1. p.attempt = call[p.call].attempt /\ call[p.call].pc = "waiting"
        BY <1>7 DEF WaitsFor
      <4>2. q.attempt <= p.attempt
        BY <3>2, <4>1 DEF AnswerInv, AttemptsApart
      <4>3. q.node # 0 /\ p.node # 0
        BY <2>7, <3>2 DEF AnswerInv, AttemptsApart
      <4>4. q = p \/ q.attempt < p.attempt
        <5>1. q.attempt = p.attempt => q = p
          BY <3>2 DEF AnswerInv, AttemptsApart
        <5> QED
          BY <1>2, <4>2, <5>1, SMTT(40)
      <4> QED
        BY <3>2, <4>3, <4>4 DEF OverWith
    <3> QED
      BY <1>1, <3>1, <3>2
  <2>8. RejectedIsOver'
    <3> SUFFICES ASSUME NEW c \in Calls, call'[c].answer = "rejected", c \notin astray'
                 PROVE  c \notin executed' /\ \A q \in proposals' : q.call # c
      BY DEF RejectedIsOver
    <3>1. CASE c = p.call
      BY <1>1, <2>1, <2>7, <3>1
    <3>2. CASE c # p.call
      BY <1>1, <1>3, <1>4, <2>3, <3>2, SMTT(40) DEF AnswerInv, RejectedIsOver
    <3> QED
      BY <3>1, <3>2
  <2> QED
    BY <2>2, <2>5, <2>6, <2>8, SMTT(40) DEF AnswerInv
<1> QED
  BY <1>6, <1>7

LEMMA AnswerInvStep == ASSUME AnswerInv, [Next]_vars PROVE AnswerInv'
<1>0. CASE UNCHANGED vars
  BY <1>0, SMTT(40) DEF vars, cluster, AnswerInv, GatewayTypeOK, AttemptsApart, RejectedIsOver,
              OkIsExecuted, AnsweredIsOver
<1>a. CASE Next
  <2>0. GatewayTypeOK' /\ GatewayTypeOK
    BY <1>a, TypeStep, SMTT(40) DEF AnswerInv
  <2> DEFINE Silent(c) ==
             \/ call'[c] = call[c]
             \/ call'[c].pc \in {"returned", "cancelled"}
                /\ call'[c].answer \notin {"ok", "rejected"}
                /\ (call'[c].answer # "none" => call'[c].pc = "returned")
             \/ /\ call'[c].answer = "none"
                /\ call[c].pc # "returned" /\ call[c].pc # "cancelled"
                /\ \/ call'[c].pc # "sending" /\ call'[c].attempt = call[c].attempt
                   \/ /\ call'[c].pc = "sending" /\ call[c].pc # "sending"
                      /\ call'[c].attempt = call[c].attempt + 1
             AllSilent ==
               /\ UNCHANGED <<executed, astray>> /\ proposals' \subseteq proposals
               /\ \A c \in Calls : Silent(c)
  <2>1. ASSUME NEW c \in Calls, get_or_reset_leader(c) PROVE AllSilent
    <3>1. UNCHANGED <<executed, astray, proposals>>
      BY <2>1 DEF get_or_reset_leader
    <3>2. call[c].pc = "locking" /\ (\/ call' = [call EXCEPT ![c] = Sending(c, inner)]
             \/ call' = [call EXCEPT ![c] = GoesTo(c, "probing", inner.next_probe_node, 0)])
      BY <2>1, SMTT(40) DEF get_or_reset_leader
    <3> QED
      BY <2>0, <3>1, <3>2 DEF GatewayTypeOK, Sending, GoesTo, Call
  <2>2. ASSUME NEW c \in Calls, Probe(c) PROVE AllSilent
    BY <2>0, <2>2, SMTT(40) DEF GatewayTypeOK, Probe, ProbeFails, ProbeSucceeds, GoesTo, Call
  <2>3. ASSUME NEW c \in Calls, Connect(c) PROVE AllSilent
    BY <2>0, <2>3, SMTT(40) DEF GatewayTypeOK, Connect, Sending, Call
  <2>4. ASSUME NEW c \in Calls, Unreachable(c) \/ TimesOut(c) PROVE AllSilent
    BY <2>0, <2>4, SMTT(40) DEF GatewayTypeOK, Unreachable, TimesOut, Retried, Call
  <2>5. ASSUME NEW c \in Calls, Cancel(c) PROVE AllSilent
    BY <2>0, <2>5, SMTT(40) DEF GatewayTypeOK, Cancel, Call
  <2>6. ASSUME NEW p \in proposals, Lose(p) PROVE AllSilent
    BY <2>0, <2>6, SMTT(40) DEF GatewayTypeOK, Lose, Returned, Call
  <2>7. ASSUME NEW n \in Nodes, Elect(n) \/ Learn(n) \/ Forget(n) \/ Restart(n)
        PROVE  AllSilent
    BY <2>7, SMTT(40) DEF Elect, Learn, Forget, Restart
  <2>8. ASSUME NEW n \in Nodes, Crash(n) PROVE AllSilent
    BY <2>0, <2>8, SMTT(40) DEF Crash, Retried, Call
  <2>9. ASSUME AllSilent PROVE AnswerInv'
    BY <2>0, <2>9, SilentStep, SMTT(40)
  <2>10. ASSUME NEW c \in Calls, Propose(c) PROVE AnswerInv'
    <3>1. call[c].node # 0
      BY <2>10, <2>0, GatewayAssumption, SMTT(40) DEF Propose, Reached, GatewayTypeOK, Nodes
    <3>2. /\ \A d \in Calls : d # c => call'[d] = call[d]
          /\ call'[c].pc = "waiting" /\ call'[c].answer = "none"
          /\ call'[c].attempt = call[c].attempt
      BY <2>0, <2>10, SMTT(40) DEF Propose, GatewayTypeOK, GoesTo, Call
    <3> QED
      BY <2>0, <2>10, <3>1, <3>2, AttemptStep, SMTT(40) DEF Propose
  <2>11. ASSUME NEW c \in Calls, NotLeader(c) PROVE AnswerInv'
    <3>1. /\ \A d \in Calls : d # c => call'[d] = call[d]
          /\ call'[c].pc = "locking" /\ call'[c].answer = "none"
          /\ call'[c].attempt = call[c].attempt
      BY <2>0, <2>11, SMTT(40) DEF NotLeader, GatewayTypeOK, Retried, Call
    <3>2. CASE view[call[c].node] = 0
      <4>1. AllSilent
        BY <2>11, <3>1, <3>2, SMTT(40) DEF NotLeader, Reached
      <4> QED
        BY <4>1, <2>9, SMTT(40)
    <3>3. CASE view[call[c].node] # 0
      <4>1. /\ Reached(c) /\ UNCHANGED executed
            /\ proposals' = proposals \cup {Attempt(c, 0)}
            /\ astray' = astray \cup {c}
        BY <2>11, <3>3 DEF NotLeader
      <4> QED
        BY <2>0, <3>1, <4>1, AttemptStep, SMTT(40)
    <3> QED
      BY <3>2, <3>3, SMTT(40)
  <2>12. ASSUME NEW c \in Calls, GivenUp(c) PROVE AnswerInv'
    <3>1. /\ \A d \in Calls : d # c => call'[d] = call[d]
          /\ call'[c].pc = "locking" /\ call'[c].answer = "none"
          /\ call'[c].attempt = call[c].attempt
      BY <2>0, <2>12, SMTT(40) DEF GivenUp, GatewayTypeOK, Retried, Call
    <3>2. /\ Reached(c) /\ UNCHANGED executed
          /\ proposals' = proposals \cup {Attempt(c, 0)}
          /\ astray' = astray \cup {c}
      BY <2>12 DEF GivenUp
    <3> QED
      BY <2>0, <3>1, <3>2, AttemptStep, SMTT(40)
  <2>13. ASSUME NEW p \in proposals, Commit(p) PROVE AnswerInv'
    BY <2>0, <2>13, CommitStep
  <2> HIDE DEF AllSilent
  <2> QED
    BY <1>a, <2>1, <2>2, <2>3, <2>4, <2>5, <2>6, <2>7, <2>8, <2>9, <2>10, <2>11, <2>12,
       <2>13
    DEF Next, Arrive, Settle
<1> QED
  BY <1>0, <1>a

\* A client that is told of success has its command executed, and one that is told
\* of a rejection never has it executed by another attempt, but for
\* copies astray: for any number of nodes, calls, retries and faults.
THEOREM AnswersHold == Spec => []AnswersAreTrue
<1>1. Init => AnswerInv
  BY AnswerInvInit
<1>2. AnswerInv /\ [Next]_vars => AnswerInv'
  BY AnswerInvStep
<1>3. AnswerInv => AnswersAreTrue
  BY DEF AnswerInv, OkIsExecuted, RejectedIsOver, AnswersAreTrue
<1> QED
  BY <1>1, <1>2, <1>3, PTL DEF Spec
=============================================================================
