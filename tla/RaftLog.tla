------------------------------- MODULE RaftLog -------------------------------
(***************************************************************************)
(* Raft logs, the apply state and the queues of proposals of tiny-mq: the  *)
(* pure functions that the raft thread, the apply thread and the recovery  *)
(* are made of (peer.rs, apply.rs, peer_storage.rs).                       *)
(*                                                                         *)
(* A log is a function from indexes to entries.  An entry carries the term *)
(* of the leader that created it and one of three payloads: nothing (the   *)
(* entry a new leader starts its term with), a batch of message-queue      *)
(* commands, or a CompactLog request.                                      *)
(***************************************************************************)
EXTENDS Integers, Sequences, FiniteSets, TLC
LOCAL INSTANCE FiniteSetsExt
LOCAL INSTANCE SequencesExt

RAFT_INIT_LOG_INDEX == 5

RAFT_INIT_LOG_TERM == 5

EmptyData == [type |-> "empty", cmds |-> <<>>, index |-> 0, term |-> 0]

MessageQueueData(cmds) ==
    [type |-> "cmds", cmds |-> cmds, index |-> 0, term |-> 0]

CompactLogData(i, t) ==
    [type |-> "compact", cmds |-> <<>>, index |-> i, term |-> t]

Entry(t, d) == [term |-> t, data |-> d]

EmptyLog == [i \in {} |-> Entry(RAFT_INIT_LOG_TERM, EmptyData)]

LastIndex(log) == Max(DOMAIN log \cup {RAFT_INIT_LOG_INDEX})

Slice(log, lo, hi) == [i \in DOMAIN log \cap (lo .. hi) |-> log[i]]

\* The log with one more entry, or with its tail after `last' replaced by it.
AppendAt(log, last, e) == Slice(log, 0, last) @@ (last + 1 :> e)

\* The logs hold the same entries at the indexes up to k that both have.
AgreeTo(l1, l2, k) ==
    \A i \in DOMAIN l1 \cap DOMAIN l2 : i <= k => l1[i] = l2[i]

\* A position <<term, index>> is at or before another one: terms are compared
\* first (the pop of ProposalQueue and the pop_normal of PendingCmdQueue).
AtOrBefore(p, q) == \/ p[1] < q[1]
                    \/ p[1] = q[1] /\ p[2] <= q[2]

Position(p) == <<p.term, p.index>>

-----------------------------------------------------------------------------
(***************************************************************************)
(* Matching the proposals of a queue with committed entries.  For each     *)
(* entry in turn, find_proposal pops every proposal at or before it: the   *)
(* one at the entry's own term and index is found, one of a lower term is  *)
(* answered StaleCommand, one of the same term at another index panics.    *)
(* A proposal is hence popped by the first entry that it is not after.     *)
(***************************************************************************)
IsPopped(p, entries) ==
    \E i \in DOMAIN entries : AtOrBefore(Position(p), <<entries[i].term, i>>)

PoppedBy(p, entries) ==
    Min({i \in DOMAIN entries :
            AtOrBefore(Position(p), <<entries[i].term, i>>)})

\* Mutant: only the index is compared, so the callback of a proposal is given
\* to whatever entry was committed at its index.
IsFoundByIndex(p, entries) == p.index \in DOMAIN entries

IsFound(p, entries) ==
    /\ IsPopped(p, entries)
    /\ p.index = PoppedBy(p, entries)
    /\ p.term = entries[p.index].term

\* Mutant: only a proposal at the entry's own index may be of another term.
StaleAtItsIndex(p, entries) ==
    /\ IsPopped(p, entries)
    /\ ~ IsFound(p, entries)
    /\ p.index = PoppedBy(p, entries)
    /\ p.term # entries[p.index].term

IsStale(p, entries) ==
    /\ IsPopped(p, entries)
    /\ ~ IsFound(p, entries)
    /\ p.term # entries[PoppedBy(p, entries)].term

find_proposal(queue, entries) ==
    [found |-> SelectSeq(queue, LAMBDA p : IsFound(p, entries)),
     stale |-> SelectSeq(queue, LAMBDA p : IsStale(p, entries)),
     rest  |-> SelectSeq(queue, LAMBDA p : ~ IsPopped(p, entries)),
     panic |-> \E k \in DOMAIN queue :
                  /\ IsPopped(queue[k], entries)
                  /\ ~ IsFound(queue[k], entries)
                  /\ ~ IsStale(queue[k], entries)]

-----------------------------------------------------------------------------
(* The apply state that the kv database holds (RaftApplyState).            *)

ApplyState(a, ci, ct, ti, tt) ==
    [applied_index |-> a, commit_index |-> ci, commit_term |-> ct,
     truncated_index |-> ti, truncated_term |-> tt]

initial_apply_state ==
    ApplyState(RAFT_INIT_LOG_INDEX, 0, 0,
               RAFT_INIT_LOG_INDEX, RAFT_INIT_LOG_TERM)

first_index(s) == s.truncated_index + 1

\* A CompactLog request that is not ahead of the first index does nothing; one
\* without a term, or ahead of what is applied, is an error that does nothing.
exec_compact_log(s, d) ==
    IF \/ d.index <= first_index(s)
       \/ d.term = 0
       \/ d.index > s.applied_index
    THEN s
    ELSE [s EXCEPT !.truncated_index = d.index, !.truncated_term = d.term]

\* Executing the entry at index i: the index becomes the applied one whether
\* the request succeeds or not.
apply_raft_cmd(s, i, d) ==
    [(IF d.type = "compact" THEN exec_compact_log(s, d) ELSE s)
        EXCEPT !.applied_index = i]

\* The apply states along the committed entries of one Apply task.  The commit
\* index and term are set from the last entry before any of them is executed.
handle_apply(s, entries) ==
    LET lo == Min(DOMAIN entries)
        hi == Max(DOMAIN entries)
        states[i \in lo - 1 .. hi] ==
            IF i = lo - 1
            THEN [s EXCEPT !.commit_index = hi,
                           !.commit_term = entries[hi].term]
            ELSE apply_raft_cmd(states[i - 1], i, entries[i].data)
    IN  states

\* The panics of handle_apply: a commit position that moves backward, or a
\* first entry that does not follow the applied index.
handle_apply_panics(s, entries) ==
    LET hi == Max(DOMAIN entries)
    IN  \/ s.commit_index > hi
        \/ s.commit_term > entries[hi].term
        \/ Min(DOMAIN entries) # s.applied_index + 1

-----------------------------------------------------------------------------
(* Recovery: what PeerStorage::new demands of the two databases.  The raft *)
(* database holds the log and the raft state (r.log; r.last, r.term and    *)
(* r.commit); the kv database holds the apply state s.                     *)

recovered_commit(r, s) == Max({r.commit, s.commit_index})

HasTermAt(r, s, i) ==
    \/ i \in {RAFT_INIT_LOG_INDEX, s.truncated_index}
    \/ i \in DOMAIN r.log

validate_states(r, s) ==
    /\ r.commit < s.commit_index =>
          /\ s.commit_index \in DOMAIN r.log
          /\ r.log[s.commit_index].term = s.commit_term
    /\ s.applied_index <= recovered_commit(r, s)
    /\ recovered_commit(r, s) <= r.last
    /\ r.term >= s.commit_term

\* PeerStorage::new runs to its end.
RecoverySucceeds(r, s) ==
    /\ validate_states(r, s)
    /\ HasTermAt(r, s, r.last)
    /\ HasTermAt(r, s, s.applied_index)
=============================================================================
