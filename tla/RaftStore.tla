------------------------------ MODULE RaftStore ------------------------------
(***************************************************************************)
(* One store of tiny-mq: its raft thread (store.rs, peer.rs), its apply    *)
(* thread (apply.rs), its raft-log GC worker (raftlog_gc.rs), and its two  *)
(* databases, across process and machine crashes.                          *)
(*                                                                         *)
(* The raft library and the other peers of the region are not part of the  *)
(* repository.  They are an environment that keeps the promises of Raft:   *)
(* the leader of a term has one log, a new leader's log holds everything   *)
(* decided, and an entry is decided through a leader that created one at   *)
(* or after it in its own term.                                            *)
(*                                                                         *)
(* The raft thread polls: it handles the messages of its mailbox, collects *)
(* what the library is ready to do (sending a leader's messages and giving *)
(* committed entries to the apply thread), writes the raft database with a *)
(* sync, and only then sends the other messages and advances the library.  *)
(***************************************************************************)
EXTENDS RaftLog
LOCAL INSTANCE FiniteSetsExt
LOCAL INSTANCE SequencesExt

CONSTANTS
    Cmd,        \* the commands that clients send to this store
    MaxTerm,    \* bound: the terms of the model are 5 .. MaxTerm
    MaxIndex,   \* bound: the indexes of the model are 6 .. MaxIndex
    MaxBatch,   \* commands in one proposal above which it is finished
    GcLimit,    \* raft_log_gc_count_limit
    GcDivisor,  \* the share of it compacted at a time: 10 in the code
    MaxCrash    \* bound: crashes of this store

GcStep == GcLimit \div GcDivisor

ASSUME ConstantsOK ==
    /\ MaxTerm >= RAFT_INIT_LOG_TERM
    /\ MaxIndex >= RAFT_INIT_LOG_INDEX
    /\ MaxBatch \in Nat
    /\ GcDivisor \in Nat \ {0}
    /\ GcStep \in Nat \ {0}
    /\ MaxCrash \in Nat

VARIABLES
    cluster,    \* the environment: logs by term, decided index, ...
    raft,       \* the raft library's node (RawNode) of this store
    peer,       \* the raft thread: where it is, batch, proposals, ...
    mailbox,    \* the results of applied tasks on their way to it
    apply,      \* the apply thread: its queue, its delegate, its batch
    gc,         \* the raft-log GC worker
    rdb,        \* the raft database: log, last, term, commit
    kv,         \* the apply states written to the kv database since its
                \* last sync: the first is durable, the last is current
    reply,      \* what each command was answered
    promised,   \* what the other peers have been told: term, last index
    panic,      \* whether the process has panicked
    crashes     \* how often it has crashed

vars == <<cluster, raft, peer, mailbox, apply, gc, rdb, kv, reply, promised,
          panic, crashes>>

-----------------------------------------------------------------------------
(* The environment: the logs of the leaders and what is decided.           *)

LatestTerm == Max(DOMAIN cluster.logs)

DecidedLog == Slice(cluster.logs[LatestTerm], 0, cluster.decided)

\* A log that is compacted below its first index, with the decided entries
\* that it no longer holds.
FullLog(log) ==
    [i \in RAFT_INIT_LOG_INDEX + 1 .. LastIndex(log) |->
        IF i \in DOMAIN log THEN log[i] ELSE DecidedLog[i]]

\* How far the slowest of the other peers may have got when it is next heard:
\* where it was, or up to all that is decided.
MatchedNow == {cluster.matched, cluster.decided}

\* Another peer wins an election: its log is one that a leader has sent, with
\* everything decided, and it starts its term with an empty entry.
ElectOther ==
    \E t \in LatestTerm + 1 .. MaxTerm, u \in DOMAIN cluster.logs,
       k \in cluster.decided .. MaxIndex - 1 :
        LET log == cluster.logs[u]
        IN  /\ k <= LastIndex(log)
            /\ AgreeTo(log, DecidedLog, cluster.decided)
            /\ cluster.decided <= LastIndex(log)
            /\ cluster' = [cluster EXCEPT !.logs =
                    @ @@ (t :> AppendAt(log, k, Entry(t, EmptyData)))]
            /\ UNCHANGED <<raft, peer, mailbox, apply, gc, rdb, kv, reply,
                           promised, panic, crashes>>

\* The latest leader, another peer, appends a batch that this store forwarded
\* to it, or a CompactLog request of its own GC tick, which looks at what the
\* slowest peer and this store have acknowledged.
OtherAppend ==
    LET log  == cluster.logs[LatestTerm]
        acks(m) == IF promised.term = LatestTerm
                   THEN Min({m, promised.index}) ELSE 0
    IN  /\ LatestTerm \notin cluster.mine
        /\ LatestTerm > RAFT_INIT_LOG_TERM
        /\ LastIndex(log) < MaxIndex
        /\ \/ \E cmds \in cluster.forwarded :
                cluster' = [cluster EXCEPT
                    !.forwarded = @ \ {cmds},
                    !.logs[LatestTerm] = AppendAt(log, LastIndex(log),
                        Entry(LatestTerm, MessageQueueData(cmds)))]
           \/ \E i \in DOMAIN log, m \in MatchedNow :
                /\ i + GcLimit - GcStep <= acks(m)
                /\ cluster' = [cluster EXCEPT
                    !.matched = m,
                    !.logs[LatestTerm] = AppendAt(log, LastIndex(log),
                        Entry(LatestTerm, CompactLogData(i, log[i].term)))]
        /\ UNCHANGED <<raft, peer, mailbox, apply, gc, rdb, kv, reply,
                       promised, panic, crashes>>

\* A quorum holds the log of a leader up to an entry of its own term.
Decide ==
    \E t \in DOMAIN cluster.logs :
        \E i \in DOMAIN cluster.logs[t] :
            /\ i > cluster.decided
            /\ cluster.logs[t][i].term = t
            /\ \A u \in DOMAIN cluster.logs : u > t =>
                /\ i \in DOMAIN cluster.logs[u]
                /\ AgreeTo(cluster.logs[t], cluster.logs[u], i)
            /\ cluster' = [cluster EXCEPT !.decided = i]
            /\ UNCHANGED <<raft, peer, mailbox, apply, gc, rdb, kv, reply,
                           promised, panic, crashes>>

-----------------------------------------------------------------------------
(* Answers to the clients.                                                 *)

Answer(status, i, k) == [status |-> status, index |-> i, offset |-> k]

CmdsOf(props) == UNION {ToSet(props[k].cmds) : k \in DOMAIN props}

AnswerAll(r, cmds, status) ==
    [c \in Cmd |-> IF c \in cmds THEN Answer(status, 0, 0) ELSE r[c]]

\* Every command of the proposals whose entries were executed is answered
\* with the index of the entry and its own offset in it: the responses of a
\* batched request are split among the callbacks that it was built from.
AnswerApplied(r, props) ==
    [c \in Cmd |->
        IF c \in CmdsOf(props)
        THEN LET p == CHOOSE p \in ToSet(props) : c \in ToSet(p.cmds)
             IN  Answer("ok", p.index,
                        (CHOOSE k \in DOMAIN p.cmds : p.cmds[k] = c) - 1)
        ELSE r[c]]

-----------------------------------------------------------------------------
(* The raft thread, handling the messages of its mailbox.                  *)

Handling == peer.pc = "handle" /\ ~ panic

\* The proposal of commands that were appended at index i in this term.
Proposal(i, cmds) == [term |-> raft.term, index |-> i, cmds |-> cmds]

\* What the push of the queue of proposals asserts.
CanPush(queue, i) ==
    queue # <<>> =>
        ~ AtOrBefore(<<raft.term, i>>, Position(Last(queue)))

\* The entry that a leader proposes goes to the end of its log ...
propose_normal(data) ==
    /\ LastIndex(raft.log) < MaxIndex
    /\ raft' = [raft EXCEPT !.log =
                    AppendAt(@, LastIndex(@), Entry(raft.term, data))]

\* ... and its commands, with their callbacks, to the end of the queue.
post_propose(cmds, pr) ==
    LET i == LastIndex(raft.log) + 1
    IN  /\ peer' = [pr EXCEPT !.proposals = Append(@, Proposal(i, cmds))]
        /\ panic' = ~ CanPush(pr.proposals, i)

\* raft_group.propose: a leader appends the entry, a follower that knows its
\* leader forwards the request to it, and anyone else drops it.  Only the
\* first is a proposal to the peer; the others are answered NotLeader.
propose(cmds, pr, r) ==
    IF raft.role = "leader"
    THEN /\ propose_normal(MessageQueueData(cmds))
         /\ post_propose(cmds, pr)
         /\ reply' = r
         /\ UNCHANGED cluster
    ELSE /\ peer' = pr
         /\ reply' = AnswerAll(r, ToSet(cmds), "not_leader")
         /\ cluster' = IF raft.knows_leader
                       THEN [cluster EXCEPT !.forwarded = @ \cup {cmds}]
                       ELSE cluster
         /\ UNCHANGED <<raft, panic>>

\* A command joins the batch, which is proposed at once when it is large, and
\* otherwise when the mailbox is drained.
HandleRaftCommand ==
    \E c \in Cmd :
        LET batch == Append(peer.batch, c)
            r     == [reply EXCEPT ![c] = Answer("waiting", 0, 0)]
        IN  /\ Handling
            /\ reply[c].status = "idle"
            /\ IF Len(batch) > MaxBatch
               THEN propose(batch, [peer EXCEPT !.batch = <<>>], r)
               ELSE /\ peer' = [peer EXCEPT !.batch = batch]
                    /\ reply' = r
                    /\ UNCHANGED <<cluster, raft, panic>>
            /\ UNCHANGED <<mailbox, apply, gc, rdb, kv, promised, crashes>>

\* An append message or a heartbeat of a leader that is not behind this store:
\* its log replaces this store's up to index m where they differ, and commits
\* up to c.
HandleAppend ==
    \E t \in DOMAIN cluster.logs \ cluster.mine :
        \E m \in raft.commit .. LastIndex(cluster.logs[t]) :
            \E c \in raft.commit .. Min({m, cluster.decided}) :
                LET log  == cluster.logs[t]
                    same == /\ m <= LastIndex(raft.log)
                            /\ AgreeTo(raft.log, log, m)
                IN  /\ Handling
                    /\ t > RAFT_INIT_LOG_TERM
                    /\ t >= raft.term
                    /\ AgreeTo(log, DecidedLog, c)
                    /\ raft' = [raft EXCEPT
                           !.role = "follower", !.term = t,
                           !.knows_leader = TRUE,
                           !.log = IF same THEN @
                                   ELSE Slice(log, first_index(peer.apply_state), m),
                           !.persisted = IF same THEN @
                                   ELSE Max({i \in RAFT_INIT_LOG_INDEX ..
                                                    Min({@, m}) :
                                               AgreeTo(raft.log, log, i)}),
                           !.commit = c,
                           !.acked = IF t = raft.term THEN Max({@, m}) ELSE m]
                    /\ raft' # raft
                    /\ UNCHANGED <<cluster, peer, mailbox, apply, gc, rdb, kv,
                                   reply, promised, panic, crashes>>

\* Mutant: a peer that learns of a later term gives up its proposals.
DropProposals ==
    /\ Handling
    /\ raft.term < MaxTerm
    /\ raft' = [raft EXCEPT !.role = "follower", !.term = @ + 1,
                            !.knows_leader = FALSE, !.acked = 0]
    /\ peer' = [peer EXCEPT !.proposals = <<>>]
    /\ reply' = AnswerAll(reply, CmdsOf(peer.proposals), "stale")
    /\ UNCHANGED <<cluster, mailbox, apply, gc, rdb, kv, promised, panic,
                   crashes>>

\* A vote request of a later term, or any message that carries one (the next
\* term: a jump is several such steps).
HandleHigherTerm ==
    /\ Handling
    /\ raft.term < MaxTerm
    /\ raft' = [raft EXCEPT !.role = "follower", !.term = @ + 1,
                            !.knows_leader = FALSE, !.acked = 0]
    /\ UNCHANGED <<cluster, peer, mailbox, apply, gc, rdb, kv, reply,
                   promised, panic, crashes>>

\* An election timeout (the tick of the raft library).
Campaign ==
    /\ Handling
    /\ raft.role # "leader"
    /\ raft.term < MaxTerm
    /\ raft' = [raft EXCEPT !.role = "candidate", !.term = @ + 1,
                            !.knows_leader = FALSE, !.acked = 0]
    /\ UNCHANGED <<cluster, peer, mailbox, apply, gc, rdb, kv, reply,
                   promised, panic, crashes>>

\* The votes of a quorum, for a candidacy that was persisted before the votes
\* were asked for.  The new leader appends an empty entry.
WinElection ==
    /\ Handling
    /\ raft.role = "candidate"
    /\ promised.term = raft.term
    /\ raft.term > LatestTerm
    /\ LastIndex(raft.log) \in cluster.decided .. MaxIndex - 1
    /\ AgreeTo(raft.log, DecidedLog, cluster.decided)
    /\ raft' = [raft EXCEPT
           !.role = "leader",
           !.log = AppendAt(@, LastIndex(@), Entry(raft.term, EmptyData))]
    /\ cluster' = [cluster EXCEPT
           !.mine = @ \cup {raft.term},
           !.logs = @ @@ (raft.term :> DecidedLog)]
    /\ UNCHANGED <<peer, mailbox, apply, gc, rdb, kv, reply, promised, panic,
                   crashes>>

\* A leader that hears from no quorum steps down in its own term.
CheckQuorum ==
    /\ Handling
    /\ raft.role = "leader"
    /\ raft' = [raft EXCEPT !.role = "follower", !.knows_leader = FALSE]
    /\ UNCHANGED <<cluster, peer, mailbox, apply, gc, rdb, kv, reply,
                   promised, panic, crashes>>

\* What a leader of this term has learnt is committed once a quorum holds an
\* entry of its own term.
KnownCommit(r) ==
    LET i == Min({cluster.decided, LastIndex(r.log)})
    IN  IF /\ r.role = "leader"
           /\ i > r.commit
           /\ r.log[i].term = r.term
           /\ r.log[i] = DecidedLog[i]
        THEN {r.commit, i} ELSE {r.commit}

\* Acknowledgements of the other peers.
HandleAppendResponse ==
    \E c \in KnownCommit(raft) \ {raft.commit} :
        /\ Handling
        /\ raft' = [raft EXCEPT !.commit = c]
        /\ UNCHANGED <<cluster, peer, mailbox, apply, gc, rdb, kv, reply,
                       promised, panic, crashes>>

\* A GC task for each compaction of the log.
on_ready_compact_log(compacted) ==
    LET to(k)   == compacted[k] + 1
        from(k) == IF k = 1 THEN peer.last_compacted_idx ELSE to(k - 1)
    IN  [k \in DOMAIN compacted |-> <<from(k), to(k)>>]

\* The apply state of the peer's storage, which its log starts after.
post_apply(state, last_compacted_idx) ==
    /\ peer' = [peer EXCEPT !.apply_state = state,
                            !.last_compacted_idx = last_compacted_idx]
    /\ raft' = [raft EXCEPT !.log = Slice(@, first_index(state), MaxIndex)]

\* The result of applied entries.
on_apply_res ==
    /\ Handling
    /\ mailbox # <<>>
    /\ LET res   == Head(mailbox)
           tasks == on_ready_compact_log(res.compacted)
       IN  /\ gc' = [gc EXCEPT !.tasks = @ \o tasks]
           /\ post_apply(res.state, IF tasks = <<>> THEN peer.last_compacted_idx
                                    ELSE Last(tasks)[2])
    /\ mailbox' = Tail(mailbox)
    /\ UNCHANGED <<cluster, apply, rdb, kv, reply, promised, panic, crashes>>

\* Mutant: only what this store has persisted is looked at.
ReplicatedByLeader(m) == raft.persisted

\* What the slowest peer has acknowledged, this one included, when the slowest
\* of the others has been heard to hold the log up to m.
replicated_idx(m) == Min({raft.persisted, m})

\* Mutant: the whole limit is compacted.
CompactWholeLimit(first_idx) == first_idx + GcLimit

compact_idx(first_idx) == first_idx + GcStep

\* The raft-log GC tick of a leader: a fraction of the log is compacted once
\* the slowest peer is a whole limit ahead of its first index.
on_raft_gc_log_tick ==
    \E m \in MatchedNow :
        LET first_idx == first_index(peer.apply_state)
            to        == compact_idx(first_idx)
            data      == CompactLogData(to, raft.log[to].term)
        IN  /\ Handling
            /\ raft.role = "leader"
            /\ replicated_idx(m) >= first_idx
            /\ replicated_idx(m) - first_idx >= GcLimit
            /\ propose_normal(data)
            /\ post_propose(<<>>, peer)
            /\ cluster' = [cluster EXCEPT !.matched = m]
            /\ UNCHANGED <<mailbox, apply, gc, rdb, kv, reply, promised,
                           crashes>>

\* The mailbox is drained: what is left in the batch is proposed, and no more
\* messages are handled before the ready is collected.
propose_batch_raft_command ==
    /\ Handling
    /\ peer.batch # <<>>
    /\ propose(peer.batch, [peer EXCEPT !.batch = <<>>, !.pc = "ready"], reply)
    /\ UNCHANGED <<mailbox, apply, gc, rdb, kv, promised, crashes>>

-----------------------------------------------------------------------------
(* The raft thread, from collecting a ready to advancing the library.      *)

\* Mutant: everything persisted is handed out, committed or not.
PersistedEntries(r) == Slice(r.log, r.since + 1, r.persisted)

\* The committed entries that the library has not handed out yet.  It hands
\* out only entries that this store has persisted.
committed_entries(r) ==
    Slice(r.log, r.since + 1, Min({r.commit, r.persisted}))

\* The committed entries go to the apply thread with the callbacks of the
\* proposals found for them; stale proposals are answered here.
handle_raft_committed_entries(r, pr) ==
    LET entries == committed_entries(r)
        m       == find_proposal(pr.proposals, entries)
    IN  /\ raft' = [r EXCEPT !.since = Max({@} \cup DOMAIN entries)]
        /\ peer' = [pr EXCEPT !.proposals = m.rest]
        /\ reply' = AnswerAll(reply, CmdsOf(m.stale), "stale")
        /\ panic' = m.panic
        /\ apply' = IF DOMAIN entries = {} THEN apply
                    ELSE [apply EXCEPT !.queue = Append(@,
                            [entries |-> entries,
                             cbs |-> SelectSeq(m.found,
                                         LAMBDA p : p.cmds # <<>>)])]

\* The raft state of the ready differs from the one in memory.
HasUnsaved ==
    \/ raft.persisted < LastIndex(raft.log)
    \/ raft.term # rdb.term
    \/ raft.commit # peer.commit

\* What the messages of this ready acknowledge: the entries that the leader
\* of the term sent, or the leader's own.
Acknowledged ==
    LET i == IF raft.role = "leader" THEN LastIndex(raft.log) ELSE raft.acked
    IN  [term |-> raft.term,
         index |-> IF promised.term = raft.term
                   THEN Max({promised.index, i}) ELSE i]

\* Mutant: every message leaves before the write.
SendBeforeWrite ==
    /\ \/ peer.pc = "ready"
       \/ /\ peer.pc = "handle"
          /\ peer.batch = <<>>
          /\ HasUnsaved \/ DOMAIN committed_entries(raft) # {}
    /\ ~ panic
    /\ handle_raft_committed_entries(raft, [peer EXCEPT !.pc = "write"])
    /\ promised' = Acknowledged
    /\ cluster' = IF raft.role = "leader"
                  THEN [cluster EXCEPT
                           !.logs[raft.term] = FullLog(raft.log)]
                  ELSE cluster
    /\ UNCHANGED <<mailbox, gc, rdb, kv, crashes>>

\* A leader's messages leave before its entries are persisted; those of any
\* other role wait for handle_raft_ready_advance.
handle_raft_ready_append ==
    /\ \/ peer.pc = "ready"
       \/ /\ peer.pc = "handle"
          /\ peer.batch = <<>>
          /\ HasUnsaved \/ DOMAIN committed_entries(raft) # {}
    /\ ~ panic
    /\ handle_raft_committed_entries(raft, [peer EXCEPT !.pc = "write"])
    /\ cluster' = IF raft.role = "leader"
                  THEN [cluster EXCEPT
                           !.logs[raft.term] = FullLog(raft.log)]
                  ELSE cluster
    /\ UNCHANGED <<mailbox, gc, rdb, kv, promised, crashes>>

\* PeerStorage::append: the new entries, and the deletion of those of the old
\* tail that are beyond them.
append == IF raft.persisted < LastIndex(raft.log)
          THEN raft.log @@ Slice(rdb.log, 0, LastIndex(raft.log))
          ELSE rdb.log

\* The write batch with the entries and the raft state, written with a sync.
write_raft_db ==
    /\ peer.pc = "write"
    /\ ~ panic
    /\ rdb' = IF HasUnsaved
              THEN [log |-> append, last |-> LastIndex(raft.log),
                    term |-> raft.term, commit |-> raft.commit]
              ELSE rdb
    /\ peer' = [peer EXCEPT !.pc = "post"]
    /\ UNCHANGED <<cluster, raft, mailbox, apply, gc, kv, reply, promised,
                   panic, crashes>>

\* The messages that waited for the write are sent, and the library advances:
\* it may commit more on the leader's own acknowledgement, which is recorded
\* in memory only, and hand out more entries.
handle_raft_ready_advance ==
    /\ peer.pc = "post"
    /\ ~ panic
    /\ promised' = Acknowledged
    /\ \E c \in KnownCommit(raft) :
        handle_raft_committed_entries(
            [raft EXCEPT !.persisted = LastIndex(raft.log), !.commit = c],
            [peer EXCEPT !.pc = "handle", !.commit = c])
    /\ UNCHANGED <<cluster, mailbox, gc, rdb, kv, crashes>>

-----------------------------------------------------------------------------
(* The apply thread.                                                       *)

\* One Apply task: the entries are executed in memory, and their apply state
\* and answers join the batch.
handle_tasks ==
    /\ apply.queue # <<>>
    /\ apply.pc = "handle"
    /\ ~ panic
    /\ LET task   == Head(apply.queue)
           states == handle_apply(apply.state, task.entries)
           last   == Max(DOMAIN task.entries)
           m      == find_proposal(task.cbs, task.entries)
           compacted == SetToSortSeq(
               {states[i].truncated_index : i \in DOMAIN states}
                    \ {apply.state.truncated_index}, LAMBDA a, b : a < b)
       IN  IF handle_apply_panics(apply.state, task.entries) \/ m.panic
           THEN panic' = TRUE /\ UNCHANGED apply
           ELSE /\ apply' = [apply EXCEPT
                       !.queue = Tail(@), !.state = states[last],
                       !.found = @ \o m.found, !.stale = @ \o m.stale,
                       !.res = Append(@, [state |-> states[last],
                                          compacted |-> compacted])]
                /\ UNCHANGED panic
    /\ UNCHANGED <<cluster, raft, peer, mailbox, gc, rdb, kv, reply, promised,
                   crashes>>

\* The end of a poll: the batch is written to the kv database without a sync.
flush_write ==
    /\ apply.res # <<>>
    /\ apply.pc = "handle"
    /\ ~ panic
    /\ kv' = Append(kv, apply.state)
    /\ apply' = [apply EXCEPT !.pc = "notify"]
    /\ UNCHANGED <<cluster, raft, peer, mailbox, gc, rdb, reply, promised,
                   panic, crashes>>

\* Then the callbacks are invoked and the raft thread is told.
flush_notify ==
    /\ apply.pc = "notify"
    /\ ~ panic
    /\ reply' = AnswerAll(AnswerApplied(reply, apply.found),
                          CmdsOf(apply.stale), "stale")
    /\ mailbox' = mailbox \o apply.res
    /\ apply' = [apply EXCEPT !.pc = "handle", !.found = <<>>,
                              !.stale = <<>>, !.res = <<>>]
    /\ UNCHANGED <<cluster, raft, peer, gc, rdb, kv, promised, panic, crashes>>

-----------------------------------------------------------------------------
(* The raft-log GC worker.                                                 *)

\* Mutant: the kv database is not synced before the deletion.
GcNoSync ==
    /\ gc.tasks # <<>>
    /\ gc.taken = <<>>
    /\ ~ panic
    /\ gc' = [tasks |-> <<>>, taken |-> gc.tasks]
    /\ UNCHANGED <<cluster, raft, peer, mailbox, apply, rdb, kv, reply,
                   promised, panic, crashes>>

\* Its flush syncs the kv database first ...
gc_sync ==
    /\ gc.tasks # <<>>
    /\ gc.taken = <<>>
    /\ ~ panic
    /\ kv' = <<Last(kv)>>
    /\ gc' = [tasks |-> <<>>, taken |-> gc.tasks]
    /\ UNCHANGED <<cluster, raft, peer, mailbox, apply, rdb, reply, promised,
                   panic, crashes>>

\* ... and then deletes the entries of every task from the raft database.  A
\* deletion that a machine crash undoes leaves entries below the truncated
\* index, which nothing reads.
gc_raft_log ==
    /\ gc.taken # <<>>
    /\ ~ panic
    /\ LET gone == {i \in DOMAIN rdb.log :
                      \E k \in DOMAIN gc.taken :
                          gc.taken[k][1] <= i /\ i < gc.taken[k][2]}
       IN  rdb' = [rdb EXCEPT !.log = [i \in DOMAIN @ \ gone |-> @[i]]]
    /\ gc' = [gc EXCEPT !.taken = <<>>]
    /\ UNCHANGED <<cluster, raft, peer, mailbox, apply, kv, reply, promised,
                   panic, crashes>>

-----------------------------------------------------------------------------
(* Crashes and the start of the store.                                     *)

start_raft(r, s) ==
    [role |-> "follower", term |-> r.term, knows_leader |-> FALSE,
     log |-> Slice(r.log, first_index(s), r.last),
     commit |-> recovered_commit(r, s), persisted |-> r.last,
     since |-> s.applied_index, acked |-> 0]

start_peer(r, s) ==
    [pc |-> "handle", batch |-> <<>>, proposals |-> <<>>,
     last_compacted_idx |-> 0, apply_state |-> s,
     commit |-> recovered_commit(r, s)]

start_apply(s) ==
    [pc |-> "handle", queue |-> <<>>, state |-> s, found |-> <<>>,
     stale |-> <<>>, res |-> <<>>]

start_gc == [tasks |-> <<>>, taken |-> <<>>]

write_initial_raft_state ==
    [log |-> EmptyLog, last |-> RAFT_INIT_LOG_INDEX,
     term |-> RAFT_INIT_LOG_TERM, commit |-> RAFT_INIT_LOG_INDEX]

\* The process stops and is started again.  A machine crash also takes back
\* the writes to the kv database from some unsynced one on; whoever waited for
\* an answer gets none.
Crash ==
    \E states \in {kv} \cup {<<kv[k]>> : k \in DOMAIN kv} :
        LET s == Last(states)
        IN  /\ crashes < MaxCrash
            /\ ~ panic
            /\ kv' = states
            /\ raft' = start_raft(rdb, s)
            /\ peer' = start_peer(rdb, s)
            /\ apply' = start_apply(s)
            /\ gc' = start_gc
            /\ mailbox' = <<>>
            /\ reply' = [c \in Cmd |-> IF reply[c].status = "waiting"
                                       THEN Answer("lost", 0, 0)
                                       ELSE reply[c]]
            /\ panic' = ~ RecoverySucceeds(rdb, s)
            /\ crashes' = crashes + 1
            /\ UNCHANGED <<cluster, rdb, promised>>

-----------------------------------------------------------------------------
Init ==
    /\ cluster = [logs |-> (RAFT_INIT_LOG_TERM :> EmptyLog), mine |-> {},
                  decided |-> RAFT_INIT_LOG_INDEX,
                  matched |-> RAFT_INIT_LOG_INDEX, forwarded |-> {}]
    /\ rdb = write_initial_raft_state
    /\ kv = <<initial_apply_state>>
    /\ raft = start_raft(rdb, initial_apply_state)
    /\ peer = start_peer(rdb, initial_apply_state)
    /\ apply = start_apply(initial_apply_state)
    /\ gc = start_gc
    /\ mailbox = <<>>
    /\ reply = [c \in Cmd |-> Answer("idle", 0, 0)]
    /\ promised = [term |-> RAFT_INIT_LOG_TERM, index |-> 0]
    /\ panic = FALSE
    /\ crashes = 0

Environment ==
    \/ ElectOther \/ OtherAppend \/ Decide

HandleMessage ==
    \/ HandleRaftCommand \/ HandleAppend \/ HandleHigherTerm \/ Campaign
    \/ WinElection \/ CheckQuorum \/ HandleAppendResponse \/ on_apply_res
    \/ on_raft_gc_log_tick \/ propose_batch_raft_command

Ready ==
    \/ handle_raft_ready_append \/ write_raft_db \/ handle_raft_ready_advance

ApplyThread == handle_tasks \/ flush_write \/ flush_notify

GcWorker == gc_sync \/ gc_raft_log

Running == Environment \/ HandleMessage \/ Ready \/ ApplyThread \/ GcWorker

Next == Running \/ Crash

Spec == Init /\ [][Next]_vars

-----------------------------------------------------------------------------
Truncated == Last(kv).truncated_index

ApplyStateOf(s) ==
    [applied |-> s.applied_index, truncated |-> s.truncated_index]

\* Nothing the store asserts ever fails: proposals are queued in order, every
\* committed entry reaches the apply thread once and in order with its own
\* callbacks, and after a crash of the process or of the machine, at any
\* point, the two databases pass the checks of the recovery.
NoPanic == ~ panic

\* A command that was answered with an index and an offset is decided there,
\* whoever led the region in between, and stays so.
AnswersAreDecided ==
    \A c \in Cmd : reply[c].status = "ok" =>
        /\ reply[c].index \in DOMAIN DecidedLog
        /\ LET cmds == DecidedLog[reply[c].index].data.cmds
           IN  /\ reply[c].offset + 1 \in DOMAIN cmds
               /\ cmds[reply[c].offset + 1] = c

\* A command that was answered StaleCommand is not decided, now or later: the
\* client may send it again.
StaleIsNotDecided ==
    \A c \in Cmd : reply[c].status = "stale" =>
        \A i \in DOMAIN DecidedLog : c \notin ToSet(DecidedLog[i].data.cmds)

\* What the other peers have been told survives every crash: the term, and
\* within that term every acknowledged entry that is not compacted.
PromisesAreDurable ==
    /\ rdb.term >= promised.term
    /\ rdb.term = promised.term =>
         \A i \in Truncated + 1 .. promised.index :
            /\ i \in DOMAIN rdb.log
            /\ rdb.log[i] = cluster.logs[promised.term][i]

\* Whichever unsynced write of the kv database a machine crash goes back to,
\* the raft database holds every entry from there to its last one, so the
\* store can apply again what it has lost.
CrashKeepsTheLog ==
    \A k \in DOMAIN kv :
        first_index(kv[k]) .. rdb.last \subseteq DOMAIN rdb.log

\* Only decided entries are applied, so every store executes the same ones.
AppliedIsDecided ==
    /\ apply.state.applied_index <= cluster.decided
    /\ AgreeTo(rdb.log, DecidedLog, apply.state.applied_index)

\* No entry that some peer still needs is compacted: there are no snapshots to
\* bring such a peer up to date.
CompactionKeepsWhatPeersNeed == Truncated <= cluster.matched

\* The store keeps the promises of AppliedLog to the readers of its log: what
\* is applied is decided, compaction leaves the recent entries (a limit less
\* the fraction that is compacted, and the CompactLog entry itself), and no
\* crash brings back the need for what is deleted.
A == INSTANCE AppliedLog WITH
    Retained <- GcLimit - GcStep + 1,
    log      <- [k \in 1 .. cluster.decided - RAFT_INIT_LOG_INDEX |->
                    DecidedLog[k + RAFT_INIT_LOG_INDEX].data.cmds],
    store    <- ApplyStateOf(Last(kv)),
    saved    <- {ApplyStateOf(kv[k]) : k \in DOMAIN kv},
    deleted  <- Max({RAFT_INIT_LOG_INDEX} \cup
                    ((RAFT_INIT_LOG_INDEX + 1 .. rdb.last) \ DOMAIN rdb.log))

ImplementsAppliedLog == A!LogSpec
=============================================================================
