------------------------------- MODULE Gateway -------------------------------
(***************************************************************************)
(* The gateway (gateway_framework, firm-wallet-gateway): every call loops, *)
(* asking RaftCluster for a connection to the leader, sending the request  *)
(* over it, and starting again when the request fails or the node says it  *)
(* is not the leader.  The connection is shared by all calls behind a      *)
(* mutex; reset_leader_counter tells the first call that finds it broken,  *)
(* which makes a new one, from the others, which take the new one.         *)
(*                                                                         *)
(* The wallet nodes are modelled as the gateway sees them: what they       *)
(* answer to a probe and to a request, and what becomes of the commands.   *)
(* A command is named by the call that carries it, and has its dedup id.   *)
(***************************************************************************)
EXTENDS Integers, FiniteSets

CONSTANTS
    N,              \* the number of nodes of DOWNSTREAM_SERVICE
    Calls,          \* the calls of the clients of the gateway
    FirstLeader,    \* the raft leader when the gateway starts
    MaxFaults       \* bound: elections and crashes, probes, requests and events that
                    \* are too late, stale answers to probes, and calls given up

VARIABLES
    call,       \* call -> the state of its loop (impl_gateway)
    inner,      \* RaftCluster.inner
    leader,     \* the raft leader, 0 for none
    up,         \* the nodes that are up
    view,       \* node -> the leader it knows of, 0 for none
    proposals,  \* the attempts in the raft logs, or on their way there, not yet committed
    executed,   \* the commands executed successfully
    astray,     \* the commands of which a copy reaches a leader, or does not, after the
                \* gateway has started another attempt
    faults      \* the number of faults so far (for the bound)

cluster == <<leader, up, view>>
vars == <<call, inner, cluster, proposals, executed, astray, faults>>

Nodes == 1..N

ASSUME GatewayAssumption ==
    N \in Nat \ {0} /\ FirstLeader \in Nodes /\ MaxFaults \in Nat

INITIAL_LEADER == 1

\* leader_node is the node the connection leads to, 0 for None; conn tells the
\* connections made in turn apart.
Inner(counter, leader_node, conn, next_probe_node) ==
    [reset_leader_counter |-> counter, leader_node |-> leader_node, conn |-> conn,
     next_probe_node |-> next_probe_node]

new == Inner(0, 0, 0, INITIAL_LEADER)

\* A call: where it is in its loop, its reset_leader_counter, the node it probes,
\* the node it sends to, the connection of its last attempt, the number of
\* attempts, and the answer.  A call that comes later is one that gets the mutex
\* later.
Call(pc, counter, probed, node, conn, attempt, answer) ==
    [pc |-> pc, counter |-> counter, probed |-> probed, node |-> node,
     conn |-> conn, attempt |-> attempt, answer |-> answer]

NewCall == Call("locking", 0, 0, 0, 0, 0, "none")

\* The call goes on to pc, with the numbers it has.
GoesTo(c, pc, probed, node) ==
    Call(pc, call[c].counter, probed, node, call[c].conn, call[c].attempt, "none")

Init ==
    /\ call = [c \in Calls |-> NewCall]
    /\ inner = new
    /\ leader = FirstLeader /\ up = Nodes /\ view = [n \in Nodes |-> FirstLeader]
    /\ proposals = {} /\ executed = {} /\ astray = {}
    /\ faults = 0

Fault ==
    /\ faults < MaxFaults
    /\ faults' = faults + 1

-----------------------------------------------------------------------------
(* RaftCluster: the connection to the leader.                              *)

\* Mutant: the guard stays alive from one turn of the loop to the next.
HoldingGuard(c) ==
    \/ call[c].pc \in {"probing", "connecting", "sending", "waiting"}
    \/ call[c].pc = "locking" /\ call[c].attempt > 0

Resetting(c) == call[c].pc \in {"probing", "connecting"}

\* reset_leader holds the mutex all along.
Unlocked == \A c \in Calls : ~ Resetting(c)

\* Mutant: a call whose attempt just failed does not count the new connection.
LeaderIsNewer(counter) ==
    counter < inner.reset_leader_counter /\ inner.leader_node # 0

\* The connection is newer than the one that failed the call.
LeaderIsCurrent(counter) ==
    counter <= inner.reset_leader_counter /\ inner.leader_node # 0

\* The call has the connection and the counter of i, and sends its request.
Sending(c, i) ==
    Call("sending", i.reset_leader_counter, 0, i.leader_node, i.conn,
         call[c].attempt + 1, "none")

get_or_reset_leader(c) ==
    /\ call[c].pc = "locking" /\ Unlocked
    /\ IF LeaderIsCurrent(call[c].counter)
       THEN /\ call' = [call EXCEPT ![c] = Sending(c, inner)]
            /\ UNCHANGED inner
       ELSE /\ inner' = Inner(inner.reset_leader_counter + 1, inner.leader_node,
                              inner.conn, inner.next_probe_node)
            /\ call' = [call EXCEPT
                          ![c] = GoesTo(c, "probing", inner.next_probe_node, 0)]
    /\ UNCHANGED <<cluster, proposals, executed, astray, faults>>

\* The probed node is down, slow, or knows no leader: the next one is tried.
ProbeFails(c) ==
    LET n == call[c].probed
    IN  /\ call[c].pc = "probing"
        /\ IF n \notin up \/ view[n] = 0
           THEN UNCHANGED faults
           ELSE Fault
        /\ call' = [call EXCEPT ![c] = GoesTo(c, "probing", (n % N) + 1, 0)]
        /\ UNCHANGED <<inner, cluster, proposals, executed, astray>>

\* The probed node names the leader it knows of.
ProbeSucceeds(c) ==
    LET n == call[c].probed
        l == view[n]
    IN  /\ call[c].pc = "probing"
        /\ n \in up /\ l # 0
        /\ IF l = leader THEN UNCHANGED faults ELSE Fault
        /\ call' = [call EXCEPT ![c] = GoesTo(c, "connecting", n, l)]
        /\ UNCHANGED <<inner, cluster, proposals, executed, astray>>

\* get_timeout_channel_until_success ends only when that leader can be reached.
Connect(c) ==
    /\ call[c].pc = "connecting"
    /\ call[c].node \in up
    /\ inner' = Inner(inner.reset_leader_counter, call[c].node, inner.conn + 1,
                      call[c].probed)
    /\ call' = [call EXCEPT ![c] = Sending(c, inner')]
    /\ UNCHANGED <<cluster, proposals, executed, astray, faults>>

-----------------------------------------------------------------------------
(* The request at the node, and the rest of the loop of the call.          *)

\* A grpc error or a NotLeader error: after a second the call starts again.
Retried(c) ==
    Call("locking", call[c].counter + 1, 0, 0, call[c].conn, call[c].attempt, "none")

\* Anything else is returned to the client, and the call is over.
Returned(answer) == Call("returned", 0, 0, 0, 0, 0, answer)

Attempt(c, n) == [call |-> c, attempt |-> call[c].attempt, node |-> n]

Unreachable(c) ==
    /\ call[c].pc = "sending"
    /\ call[c].node \notin up
    /\ call' = [call EXCEPT ![c] = Retried(c)]
    /\ UNCHANGED <<inner, cluster, proposals, executed, astray, faults>>

Reached(c) == call[c].pc = "sending" /\ call[c].node \in up

\* Mutant: the handler answers when the command is in the log of the leader.
ProposeAndAnswer(c) ==
    /\ Reached(c)
    /\ view[call[c].node] = call[c].node
    /\ proposals' = proposals \cup {Attempt(c, call[c].node)}
    /\ call' = [call EXCEPT ![c] = Returned("ok")]
    /\ UNCHANGED <<inner, cluster, executed, astray, faults>>

\* The node takes itself for the leader: the command enters its log, and the
\* handler waits.
Propose(c) ==
    /\ Reached(c)
    /\ view[call[c].node] = call[c].node
    /\ proposals' = proposals \cup {Attempt(c, call[c].node)}
    /\ call' = [call EXCEPT ![c] = GoesTo(c, "waiting", 0, call[c].node)]
    /\ UNCHANGED <<inner, cluster, executed, astray, faults>>

\* The node knows of another leader, to which raft forwards the command, or of
\* none, and drops it.  The length of its log is the same, so the answer is NotLeader.
NotLeader(c) ==
    LET n == call[c].node
    IN  /\ Reached(c)
        /\ view[n] # n
        /\ IF view[n] = 0
           THEN UNCHANGED <<proposals, astray>>
           ELSE /\ proposals' = proposals \cup {Attempt(c, 0)}
                /\ astray' = astray \cup {c}
        /\ call' = [call EXCEPT ![c] = Retried(c)]
        /\ UNCHANGED <<inner, cluster, executed, faults>>

\* The Timeout layer gives the request up after 2 seconds, or the connection breaks,
\* before the request is at the node: it may still get there, and into the log of
\* a leader, while the gateway makes its next attempt.
GivenUp(c) ==
    /\ Reached(c)
    /\ Fault
    /\ proposals' = proposals \cup {Attempt(c, 0)}
    /\ astray' = astray \cup {c}
    /\ call' = [call EXCEPT ![c] = Retried(c)]
    /\ UNCHANGED <<inner, cluster, executed>>

\* The same while the handler waits: the gateway gives up, the node does not.
TimesOut(c) ==
    /\ call[c].pc = "waiting"
    /\ Fault
    /\ call' = [call EXCEPT ![c] = Retried(c)]
    /\ UNCHANGED <<inner, cluster, proposals, executed, astray>>

\* The client closes its connection: the future of the call is dropped where it
\* is, and with it the guard of the mutex.  (Nobody is told what becomes of its
\* command, which is not followed any further.)
Cancel(c) ==
    /\ call[c].pc \in {"locking", "probing", "connecting", "sending", "waiting"}
    /\ Fault
    /\ call' = [call EXCEPT ![c] = Call("cancelled", 0, 0, 0, 0, 0, "none")]
    /\ proposals' = {p \in proposals : p.call # c}
    /\ UNCHANGED <<inner, cluster, executed, astray>>

-----------------------------------------------------------------------------
(* The wallet cluster.                                                     *)

Majorities == {Q \in SUBSET Nodes : 2 * Cardinality(Q) > N}

WaitsFor(p) ==
    /\ call[p.call].pc = "waiting"
    /\ call[p.call].node = p.node /\ call[p.call].attempt = p.attempt

\* The attempts that are over when p is committed: p, the earlier ones in the log of
\* a leader, which come before p there and if not committed yet never are, and
\* those that could only repeat a command that is executed now, with nobody waiting.
OverWith(p, ok) ==
    {q \in proposals : /\ q.call = p.call
                       /\ \/ q = p
                          \/ q.attempt < p.attempt /\ q.node # 0 /\ p.node # 0
                          \/ ok /\ ~ WaitsFor(q)}

\* The command is committed and applied.  It is executed, or rejected for the
\* balances of the moment; one that was executed before is answered as then.
\* The handler answers, or, when the apply loop is late, answers Timeout.
Commit(p) ==
    \E ok \in {p.call \in executed, TRUE}, late \in BOOLEAN :
        /\ leader \in up /\ up \in Majorities
        /\ late => WaitsFor(p)
        /\ IF late THEN Fault ELSE UNCHANGED faults
        /\ proposals' = proposals \ OverWith(p, ok)
        /\ executed' = IF ok THEN executed \cup {p.call} ELSE executed
        /\ call' = IF ~ WaitsFor(p) THEN call
                   ELSE [call EXCEPT ![p.call] =
                           Returned(IF late THEN "unknown"
                                    ELSE IF ok THEN "ok" ELSE "rejected")]
        /\ UNCHANGED <<inner, cluster, astray>>

\* The entry is overwritten by a later leader's, or the stray copy is lost:
\* the handler that waits for it answers StaleCommand.
Lose(p) ==
    /\ p.node # leader
    /\ WaitsFor(p) => view[p.node] # p.node
    /\ proposals' = proposals \ {p}
    /\ call' = IF WaitsFor(p) THEN [call EXCEPT ![p.call] = Returned("unknown")]
               ELSE call
    /\ UNCHANGED <<inner, cluster, executed, astray, faults>>

Elect(n) ==
    /\ n \in up /\ n # leader /\ up \in Majorities
    /\ IF leader \in up
       THEN Fault
       ELSE UNCHANGED faults
    /\ leader' = n /\ view' = [view EXCEPT ![n] = n] /\ up' = up
    /\ UNCHANGED <<call, inner, proposals, executed, astray>>

\* A heartbeat of the leader.
Learn(n) ==
    /\ n \in up /\ leader \in up
    /\ view[n] # leader
    /\ view' = [view EXCEPT ![n] = leader] /\ UNCHANGED <<leader, up>>
    /\ UNCHANGED <<call, inner, proposals, executed, astray, faults>>

\* The election timeout of a follower: it knows no leader.
Forget(n) ==
    /\ n \in up /\ view[n] \notin {0, n}
    /\ Fault
    /\ view' = [view EXCEPT ![n] = 0] /\ UNCHANGED <<leader, up>>
    /\ UNCHANGED <<call, inner, proposals, executed, astray>>

\* The requests that wait at the node fail; what is in its log stays there.
Crash(n) ==
    /\ n \in up
    /\ Fault
    /\ leader' = IF leader = n THEN 0 ELSE leader
    /\ up' = up \ {n} /\ view' = [view EXCEPT ![n] = 0]
    /\ call' = [c \in Calls |->
                  IF call[c].pc = "waiting" /\ call[c].node = n
                  THEN Retried(c) ELSE call[c]]
    /\ UNCHANGED <<inner, proposals, executed, astray>>

Restart(n) ==
    /\ n \notin up
    /\ up' = up \cup {n} /\ UNCHANGED <<leader, view>>
    /\ UNCHANGED <<call, inner, proposals, executed, astray, faults>>

-----------------------------------------------------------------------------
Probe(c) == ProbeFails(c) \/ ProbeSucceeds(c)

Arrive(c) == Unreachable(c) \/ Propose(c) \/ NotLeader(c)

Settle(p) == Commit(p) \/ Lose(p)

\* What a call does, or waits for, once it is past the mutex.
Proceed(c) ==
    \/ Probe(c) \/ Connect(c) \/ Arrive(c)
    \/ \E p \in proposals : p.call = c /\ WaitsFor(p) /\ Settle(p)

Next ==
    \/ \E c \in Calls :
         \/ get_or_reset_leader(c) \/ Probe(c) \/ Connect(c)
         \/ Arrive(c) \/ GivenUp(c) \/ TimesOut(c) \/ Cancel(c)
    \/ \E p \in proposals : Settle(p)
    \/ \E n \in Nodes : Elect(n) \/ Learn(n) \/ Forget(n) \/ Crash(n) \/ Restart(n)

Spec == Init /\ [][Next]_vars

\* The tasks of the gateway run, and its mutex is fair (tokio's is a queue).  Raft
\* elects a leader when there is none and a majority is up, the leader makes itself
\* known, and what a handler waits for is committed or lost.  Nothing brings a
\* node back that is down.
Fairness ==
    /\ \A c \in Calls : SF_vars(get_or_reset_leader(c)) /\ WF_vars(Proceed(c))
    /\ \A n \in Nodes : WF_vars(Learn(n))
    /\ WF_vars(\E n \in Nodes : leader \notin up /\ Elect(n))

FairSpec == Spec /\ Fairness

-----------------------------------------------------------------------------
(* Properties.                                                             *)

\* What the client is told is true: success means that the command was executed,
\* and a command that is rejected is never executed by another of the attempts
\* the gateway made for it.  The exception is a command with a copy on its own way:
\* one a follower has forwarded while it answered NotLeader (Peer::propose), or
\* one the gateway gave up before it was at the node (the Timeout layer of
\* RaftCluster, a grpc error in impl_gateway).  It may be executed after a later
\* attempt was rejected.
AnswersAreTrue ==
    \A c \in Calls :
        /\ call[c].answer = "ok" => c \in executed
        /\ call[c].answer = "rejected" /\ c \in executed => c \in astray

\* Of the calls that fail over a connection one replaces it (get_or_reset_leader):
\* a call resets the leader only if there is none or its own last attempt was over
\* the present connection, and is not given that connection again.  It may be
\* when the call that was resetting the leader was cancelled: the counter has
\* moved and the connection has not.
OneResetPerFailure ==
    [][\A c \in Calls : call[c].pc = "locking" =>
         /\ call'[c].pc = "probing" =>
              inner.leader_node = 0 \/ call[c].conn = inner.conn
         /\ call'[c].pc = "sending" =>
              call'[c].conn > call[c].conn \/ inner.reset_leader_counter > inner.conn]_vars

\* The call waits, with the mutex, for a node that is down.
StuckConnecting(c) == call[c].pc = "connecting" /\ call[c].node \notin up

\* The loop of impl_gateway ends for every call whose client waits, whatever leader
\* the gateway started from, unless a majority of the nodes stays down, or a reset
\* waits for ever for a leader that went down after a node had named it
\* (get_timeout_channel_until_success, which nothing but that node's return
\* ends, while the others wait for the mutex).
AnsweredUnlessStuck ==
    \/ <>(\A c \in Calls : call[c].pc \in {"returned", "cancelled"})
    \/ <>[](up \notin Majorities)
    \/ <>[](\E c \in Calls : StuckConnecting(c))
=============================================================================
