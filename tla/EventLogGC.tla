------------------------------ MODULE EventLogGC ------------------------------
(***************************************************************************)
(* EventLogGCLoop (gc.rs): a thread that truncates the oldest events, and  *)
(* the dedup ids that point to them, from the RocksDB the apply loop is    *)
(* flushing to.  Each read of the database and each write of a batch is a  *)
(* step of its own.                                                        *)
(***************************************************************************)
EXTENDS WalletStateMachine

CONSTANTS
    GcEnabled,      \* EventLogGCSetting: the thread is started
    CountLimit,     \* EventLogGCConfig.count_limit
    GcCount,        \* (count_limit * percentage) as u64
    GcBatchSize     \* EventLogGCConfig.batch_size

VARIABLES
    gc,             \* where the loop is: "first", "last", "scan", "write"
    gc_first,       \* the PERSISTED_FIRST_SEQ_NUM that was read
    gc_from,        \* start of the batch (`from`)
    gc_next,        \* next_first_seq_num
    gc_ids          \* seq_num -> command id of the events the scan of the batch found

gcVars == <<gc, gc_first, gc_from, gc_next, gc_ids>>

\* The percentage is always within [0.05, 0.25] (config.rs), and truncated.
ASSUME GcAssumption ==
    /\ GcEnabled \in BOOLEAN
    /\ CountLimit \in Nat /\ GcCount \in Nat /\ GcBatchSize \in Nat \ {0}
    /\ 4 * GcCount <= CountLimit
    /\ CountLimit < 20 * (GcCount + 1)

GcIdle == gc = "first" /\ gc_first = 0 /\ gc_from = 0 /\ gc_next = 0 /\ gc_ids = EmptyTable

GcRestart == gc' = "first" /\ gc_first' = 0 /\ gc_from' = 0 /\ gc_next' = 0 /\ gc_ids' = EmptyTable

\* `to` of the batch that starts at gc_from.
GcTo == IF gc_from + GcBatchSize < gc_next THEN gc_from + GcBatchSize ELSE gc_next

\* The batch ends, or the loop over batches has nothing (more) to do.
GcContinue(from, next) ==
    IF from < next
    THEN gc' = "scan" /\ gc_from' = from /\ gc_next' = next
    ELSE gc' = "first" /\ gc_from' = 0 /\ gc_next' = 0

\* run: read PERSISTED_FIRST_SEQ_NUM.
GcReadFirst ==
    /\ GcEnabled /\ gc = "first"
    /\ gc_first' = DbFirstSeqNum(db)
    /\ gc' = "last"
    /\ UNCHANGED <<smVars, gc_from, gc_next, gc_ids>>

\* run: read PERSISTED_LAST_SEQ_NUM; should_gc; the start of gc.
ShouldGc ==
    /\ gc = "last"
    /\ gc_first' = 0
    /\ IF DbLastSeqNum(db) - gc_first < CountLimit
       THEN gc' = "first" /\ UNCHANGED <<gc_from, gc_next>>
       ELSE GcContinue(IF gc_first = 0 THEN PERSISTED_FIRST_SEQ_NUM + 1 ELSE gc_first,
                       gc_first + GcCount)
    /\ UNCHANGED <<smVars, gc_ids>>

\* gc_batch: scan the events within [from, to) for their command ids.
GcScan ==
    /\ gc = "scan"
    /\ gc_ids' = [n \in DOMAIN db.event \cap gc_from..GcTo-1 |-> db.event[n].command_id]
    /\ gc' = "write"
    /\ UNCHANGED <<smVars, gc_first, gc_from, gc_next>>

\* Mutant: the first seq_num is the last truncated one.
GcBatchTooLow ==
    Put(DeleteAll(DeleteAll(EmptyBatch, "event", DOMAIN gc_ids),
                  "dedup", {gc_ids[n] : n \in DOMAIN gc_ids}),
        "hard", "first_seq_num", GcTo - 1)

\* Mutant: the dedup ids stay.
GcBatchKeepingIds ==
    Put(DeleteAll(EmptyBatch, "event", DOMAIN gc_ids), "hard", "first_seq_num", GcTo)

\* Mutant: the first seq_num is not moved.
GcBatchKeepingFirst ==
    DeleteAll(DeleteAll(EmptyBatch, "event", DOMAIN gc_ids),
              "dedup", {gc_ids[n] : n \in DOMAIN gc_ids})

\* The write batch of gc_batch: both directions of the index and the new first seq_num.
GcBatch ==
    Put(DeleteAll(DeleteAll(EmptyBatch, "event", DOMAIN gc_ids),
                  "dedup", {gc_ids[n] : n \in DOMAIN gc_ids}),
        "hard", "first_seq_num", GcTo)

\* gc_batch: write the batch; then on to the next one.
GcWrite ==
    /\ gc = "write"
    /\ db' = Write(db, GcBatch)
    /\ GcContinue(GcTo, gc_next)
    /\ gc_ids' = EmptyTable
    /\ UNCHANGED <<log, smMemory, smContext, smLoop, sent, gc_first>>

GcStep == GcReadFirst \/ ShouldGc \/ GcScan \/ GcWrite
=============================================================================
