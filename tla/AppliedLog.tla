----------------------------- MODULE AppliedLog -----------------------------
(***************************************************************************)
(* What a store of tiny-mq promises to whoever reads its log: the region   *)
(* decides one log; the store's apply state moves along it; compaction     *)
(* leaves the most recent Retained entries before the applied index; and   *)
(* entries are deleted from the raft database only once no crash can bring *)
(* back an apply state that still needs them.                              *)
(*                                                                         *)
(* RaftStore implements this specification, and MessageQueue is built on   *)
(* it.                                                                     *)
(***************************************************************************)
EXTENDS Integers, Sequences

CONSTANT Retained   \* what compaction leaves: the limit less its fraction

ASSUME RetainedOK == Retained \in Nat

VARIABLES
    log,        \* the payloads of the decided entries
    store,      \* the apply state in the kv database: applied, truncated
    saved,      \* the apply states that a machine crash may bring back
    deleted     \* the entries up to here are gone from the raft database

logVars == <<log, store, saved, deleted>>

\* The index of the entry before the first one of a log.
InitialIndex == 5

decided == InitialIndex + Len(log)

State(a, t) == [applied |-> a, truncated |-> t]

LogInit ==
    /\ log = <<>>
    /\ store = State(InitialIndex, InitialIndex)
    /\ saved = {store}
    /\ deleted = InitialIndex

\* The region decides more entries.
Decide ==
    /\ Len(log') > Len(log)
    /\ SubSeq(log', 1, Len(log)) = log
    /\ UNCHANGED <<store, saved, deleted>>

\* A batch of entries is applied and its apply state written without a sync.
Apply ==
    \E a \in store.applied + 1 .. decided :
        \E t \in {store.truncated} \cup
                    (store.truncated + 1 .. a - Retained) :
            /\ store' = State(a, t)
            /\ saved' = saved \cup {State(a, t)}
            /\ UNCHANGED <<log, deleted>>

\* The kv database is synced.
Sync ==
    /\ saved # {store}
    /\ saved' = {store}
    /\ UNCHANGED <<log, store, deleted>>

\* Entries that are compacted in every state a crash may bring back are
\* deleted, from the first one on.
Delete ==
    \E d \in deleted + 1 .. store.truncated :
        /\ \A s \in saved : d <= s.truncated
        /\ deleted' = d
        /\ UNCHANGED <<log, store, saved>>

\* A crash of the process keeps every write.  One of the machine may take
\* back writes that were not synced, deletions included.
StoreCrash ==
    /\ \/ UNCHANGED <<store, saved, deleted>>
       \/ /\ store' \in saved
          /\ saved' = {store'}
          /\ deleted' \in InitialIndex .. deleted
    /\ UNCHANGED log

LogNext == Decide \/ Apply \/ Sync \/ Delete \/ StoreCrash

LogSpec == LogInit /\ [][LogNext]_logVars
=============================================================================
