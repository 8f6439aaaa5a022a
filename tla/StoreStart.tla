------------------------------ MODULE StoreStart ------------------------------
(***************************************************************************)
(* The start of a tiny-mq store (startup.rs, node.rs, bootstrap.rs, and    *)
(* the construction of the raft system in store.rs): on empty databases it *)
(* bootstraps the cluster first, on others it recovers from them.  The     *)
(* process or the machine may crash anywhere, and the start begins again   *)
(* on what is left.                                                        *)
(*                                                                         *)
(* A database is the set of the keys it holds; of the values, only the     *)
(* store ident and the peers of the region are ever compared.              *)
(***************************************************************************)
EXTENDS Integers, FiniteSets

CONSTANTS
    ClusterId, StoreId,     \* the identity this node is configured with
    ClusterSize,            \* the number of nodes
    MaxCrashes              \* bound: crashes of either kind

VARIABLES
    pc,         \* the next step of the start
    kv,         \* the kv database: key -> value
    kv_disk,    \* what a crash of the machine leaves of it
    raft,       \* the keys in the raft database, which is written with sync
    threads,    \* the threads of the raft system that run
    inbox,      \* what the raft thread has been sent
    crashes     \* number of crashes so far (for the bound)

vars == <<pc, kv, kv_disk, raft, threads, inbox, crashes>>

databases == <<kv, kv_disk, raft>>

\* INVALID_ID and the ident of a store.
NoIdent == [cluster_id |-> 0, store_id |-> 0]

StoreIdent == [cluster_id |-> ClusterId, store_id |-> StoreId]

\* The peers of the region; none when its state is not written.
NoRegion == {}

initial_region == 1..ClusterSize

EmptyKv == [ident |-> NoIdent, region |-> NoRegion, apply_state |-> FALSE]

Init ==
    /\ pc = "check_store"
    /\ kv = EmptyKv /\ kv_disk = EmptyKv /\ raft = {}
    /\ threads = {} /\ inbox = << >> /\ crashes = 0

-----------------------------------------------------------------------------
(* Node::try_bootstrap_store.                                              *)

\* A store without ident is bootstrapped; one with another ident is not ours.
check_store ==
    /\ pc = "check_store"
    /\ pc' = CASE kv.ident = NoIdent    -> "put_ident"
               [] kv.ident = StoreIdent -> "start"
               [] OTHER                 -> "panicked"
    /\ UNCHANGED <<databases, threads, inbox, crashes>>

\* bootstrap_store: put the ident ...
PutIdent ==
    /\ pc = "put_ident"
    /\ kv' = [kv EXCEPT !.ident = StoreIdent]
    /\ pc' = "sync_ident"
    /\ UNCHANGED <<kv_disk, raft, threads, inbox, crashes>>

SyncKv(from, to) ==
    /\ pc = from
    /\ kv_disk' = kv
    /\ pc' = to
    /\ UNCHANGED <<kv, raft, threads, inbox, crashes>>

\* ... and sync it.
bootstrap_store == SyncKv("sync_ident", "put_region")

\* prepare_bootstrap_cluster: one batch with the region and its apply state ...
PutRegion ==
    /\ pc = "put_region"
    /\ kv' = [kv EXCEPT !.region = initial_region, !.apply_state = TRUE]
    /\ pc' = "sync_region"
    /\ UNCHANGED <<kv_disk, raft, threads, inbox, crashes>>

SyncRegion == SyncKv("sync_region", "put_raft_state")

\* ... and one, synced, with the raft state in the other database.
prepare_bootstrap_cluster ==
    /\ pc = "put_raft_state"
    /\ raft' = raft \cup {"raft_state"}
    /\ pc' = "start"
    /\ UNCHANGED <<kv, kv_disk, threads, inbox, crashes>>

-----------------------------------------------------------------------------
(* Node::start.                                                            *)

\* RaftPollerBuilder::init unwraps the region state, PeerFsm::create demands that
\* this store is one of its peers, and PeerStorage::new that both states are there.
InitSucceeds ==
    /\ kv.region # NoRegion /\ StoreId \in kv.region
    /\ "raft_state" \in raft /\ kv.apply_state

\* spawn_ex: the raft log GC worker runs by the time init reads the databases.
spawn_ex ==
    /\ pc = "start"
    /\ threads' = threads \cup {"raft-gc-worker"}
    /\ pc' = IF InitSucceeds THEN "spawn_raft" ELSE "panicked"
    /\ UNCHANGED <<databases, inbox, crashes>>

\* start_system: the apply FSM is made, and the raft thread is spawned ...
SpawnRaft ==
    /\ pc = "spawn_raft"
    /\ threads' = threads \cup {"raftstore"}
    /\ pc' = "send_start"
    /\ UNCHANGED <<databases, inbox, crashes>>

\* ... and sent Start, its first message ...
SendStart ==
    /\ pc = "send_start"
    /\ inbox' = << "Start" >>
    /\ pc' = "spawn_apply"
    /\ UNCHANGED <<databases, threads, crashes>>

\* ... and then the apply thread.
SpawnApply ==
    /\ pc = "spawn_apply"
    /\ threads' = threads \cup {"apply"}
    /\ pc' = "run_server"
    /\ UNCHANGED <<databases, inbox, crashes>>

\* run_server: from now on messages of the other nodes and of clients come in.
run_server ==
    /\ pc = "run_server"
    /\ pc' = "running"
    /\ UNCHANGED <<databases, threads, inbox, crashes>>

-----------------------------------------------------------------------------
\* The process is started again on the databases k and raft.
Restart(k) ==
    /\ kv' = k /\ pc' = "check_store"
    /\ threads' = {} /\ inbox' = << >>
    /\ UNCHANGED <<kv_disk, raft>>

Crash ==
    /\ crashes < MaxCrashes
    /\ crashes' = crashes + 1
    /\ Restart(kv) \/ Restart(kv_disk)

\* A node that has panicked is started again.
RestartPanicked == pc = "panicked" /\ Restart(kv) /\ UNCHANGED crashes

StartStep ==
    \/ check_store \/ PutIdent \/ bootstrap_store \/ PutRegion \/ SyncRegion
    \/ prepare_bootstrap_cluster \/ spawn_ex \/ SpawnRaft \/ SendStart \/ SpawnApply
    \/ run_server \/ RestartPanicked

Next == StartStep \/ Crash

\* The start goes on, and whoever runs the node starts it again when it has panicked.
FairSpec == Init /\ [][Next]_vars /\ WF_vars(StartStep)

-----------------------------------------------------------------------------
\* A node that is started again and again runs in the end: "It tries to bootstrap
\* cluster if the cluster is not bootstrapped yet" (node.rs:182).
EventuallyRuns == <>(pc = "running")
=============================================================================
