-------------------------------- MODULE Wallet --------------------------------
(***************************************************************************)
(* One wallet replica: the apply loop and the event log GC thread over one *)
(* RocksDB, with crashes.  The flushes and the GC write without fsync      *)
(* (write_opt(false)): a crash of the process loses the memory only, a     *)
(* crash of the machine also loses the writes that the operating system    *)
(* has not brought to the disk, the newest ones first.                     *)
(***************************************************************************)
EXTENDS EventLogGC

CONSTANT MaxCrashes     \* bound: crashes of either kind

VARIABLES
    disk,       \* the database that a crash of the machine leaves
    crashes     \* number of crashes so far (for the bound)

vars == <<smVars, gcVars, disk, crashes>>

Init == SMInit /\ GcIdle /\ disk = EmptyDB /\ crashes = 0

\* Every write so far reaches the disk.
Persist ==
    /\ disk # db
    /\ disk' = db
    /\ UNCHANGED <<smVars, gcVars, crashes>>

\* A crash and the restart on what is left of the database.
Crash(d) ==
    /\ crashes < MaxCrashes
    /\ crashes' = crashes + 1
    /\ db' = d
    /\ RecoverFromDb(d)
    /\ GcRestart
    /\ UNCHANGED <<log, sent, disk>>

ProcessCrash == Crash(db)

MachineCrash == Crash(disk)

\* A step of the replica itself.
ReplicaStep ==
    \/ ApplyStep /\ UNCHANGED <<gcVars, disk, crashes>>
    \/ GcStep /\ UNCHANGED <<disk, crashes>>
    \/ Persist \/ ProcessCrash \/ MachineCrash

Next ==
    \/ Commit /\ UNCHANGED <<gcVars, disk, crashes>>
    \/ ReplicaStep

Spec == Init /\ [][Next]_vars

\* The threads keep running.  The log consumer delivers what is committed, so
\* batch_recv does not return nothing for ever; a hundred milliseconds after the
\* last flush maybe_flush flushes, so it does not skip the flush for ever.
Fairness ==
    /\ WF_vars(ApplyStep /\ UNCHANGED <<gcVars, disk, crashes>>)
    /\ SF_vars(BatchRecv /\ todo' > 0 /\ UNCHANGED <<gcVars, disk, crashes>>)
    /\ SF_vars(Flush /\ UNCHANGED <<gcVars, disk, crashes>>)
    /\ WF_vars(GcStep /\ UNCHANGED <<disk, crashes>>)

FairSpec == Spec /\ Fairness

-----------------------------------------------------------------------------
(* Safety.                                                                 *)

FirstRetained(d) == IF DbFirstSeqNum(d) = 0 THEN 1 ELSE DbFirstSeqNum(d)

\* The sequence numbers of the events have no gap and no overlap between the
\* database and the cache: the database holds the events from the first one the
\* GC left to PERSISTED_LAST_SEQ_NUM, the cache those from there to last_seq_num
\* ("last_seq_num == PERSISTED_LAST_SEQ_NUM + num_of_in_mem_events",
\* state_machine.rs:58), across flushes, truncations and crashes.
EventLogContiguous ==
    /\ DOMAIN event_cache = DbLastSeqNum(db)+1..last_seq_num
    /\ \A d \in {db, disk} : DOMAIN d.event = FirstRetained(d)..DbLastSeqNum(d)

\* dedup and event are inverse to each other.
Inverse2(dedup, event) ==
    /\ \A c \in DOMAIN dedup : /\ dedup[c] \in DOMAIN event
                               /\ event[dedup[c]].command_id = c
    /\ \A n \in DOMAIN event : /\ event[n].command_id \in DOMAIN dedup
                               /\ dedup[event[n].command_id] = n

\* Every retained event is found by its dedup id and by nothing else, on disk, in
\* the database and in the cache, and no command id is in both cache and database:
\* a command takes effect at most once as long as its event is retained
\* ("command_id -> seq_num and seq_num -> EventPb is consistent with each other",
\* state_machine.rs:277).
DedupMatchesEvents ==
    /\ \A d \in {db, disk} : Inverse2(d.dedup, d.event)
    /\ Inverse2(seq_num_cache, event_cache)
    /\ DOMAIN seq_num_cache \cap DOMAIN db.dedup = {}

\* The database never shows a part of a raft log entry: what it says it has
\* applied is what was flushed, and the next flush will move it to applied_index
\* and last_seq_num together (apply_entry, flush).
FlushIsWholeEntries ==
    /\ DbAppliedIndex(db) = flushed_applied_index
    /\ loop = "apply" /\ todo = 0 =>
          /\ DbAppliedIndex(Write(db, wb)) = applied_index
          /\ DbLastSeqNum(Write(db, wb)) = last_seq_num

\* The flushed entries are never further behind than one full batch of received
\* entries and an almost full write batch (should_flush, ApplyLoop::run).
UnflushedBounded == applied_index - flushed_applied_index < BatchSize + RecvMax

\* What the accounts are in memory is what the next flush makes of the database,
\* so that a restart after it continues from the same accounts.
MemoryMatchesBatch ==
    Without(accounts, to_be_deleted_account_ids) = Write(db, wb).account

\* The events that are still retained, in the database or in the cache.
RetainedEvents == Overlay(db.event, event_cache)

\* A truncation leaves the latest events: at least the count limit less one
\* truncation's worth of them (should_gc, gc).
RetainsRecentEvents ==
    \A d \in {db, disk} :
      DbFirstSeqNum(d) # 0 => DbLastSeqNum(d) - DbFirstSeqNum(d) >= CountLimit - GcCount

-----------------------------------------------------------------------------
(* Action properties.                                                      *)

\* A balance operation only takes effect on a Normal account, and leaves an
\* available balance within the limits of the account.
BalanceChangesAllowed ==
    [][crashes' = crashes =>
         \A id \in DOMAIN accounts \cap DOMAIN accounts' :
           accounts'[id].available # accounts[id].available =>
             /\ accounts[id].state = "Normal"
             /\ accounts[id].limit # NoLimit =>
                  /\ accounts[id].limit.lower <= accounts'[id].available
                  /\ accounts'[id].available <= accounts[id].limit.upper]_accounts

\* A command id is executed again only when its event has been truncated: as long
\* as an event with the id is retained, in the cache or in the database, a retry
\* makes no new one (maybe_handle_duplicate_command against the GC thread).
ExecutedOnceWhileRetained ==
    [][crashes' = crashes =>
         \A m \in DOMAIN event_cache' \ DOMAIN event_cache, n \in DOMAIN RetainedEvents :
           event_cache'[m].command_id # RetainedEvents[n].command_id]_event_cache

\* The unwrap in the duplicate check (state_machine.rs:278) panics in one case only:
\* the GC truncated the event after its seq_num had been looked up.
PanicsOnlyByGc ==
    [][loop' = "panicked" => loop = "panicked" \/ dup < DbFirstSeqNum(db)]_loop

-----------------------------------------------------------------------------
(* Liveness.                                                               *)

\* Every committed entry is in the end applied and flushed, whatever crashes, unless
\* the apply thread has panicked.
EventuallyFlushed == []<>(DbAppliedIndex(db) = LastIndex \/ loop = "panicked")

\* The GC thread keeps the number of retained events under its limit.
GcKeepsUp == []<>(DbLastSeqNum(db) - DbFirstSeqNum(db) < CountLimit)
=============================================================================
