-------------------------- MODULE WalletStateMachine --------------------------
(***************************************************************************)
(* The wallet state machine and its apply loop (state_machine.rs), over    *)
(* the wallet's RocksDB (rocksdb_state.rs).                                *)
(*                                                                         *)
(* The apply loop is one thread.  It receives committed raft log entries   *)
(* in order, handles the commands of each entry against the in-memory      *)
(* accounts, collects every change in a write batch, and now and then      *)
(* writes the batch to RocksDB.  Other threads read and write the same     *)
(* RocksDB meanwhile, so the two database reads of the duplicate check are *)
(* two steps.                                                              *)
(***************************************************************************)
EXTENDS WalletCommands

CONSTANTS
    Entries(_),     \* Entries(i): the entries that may be committed at index i
    MaxIndex,       \* bound: the last raft log index
    BatchSize,      \* ApplyContext.batch_size: entries in the write batch that force a flush
    RecvMax         \* the most entries one batch_recv returns (1000 in the code)

VARIABLES
    log,            \* the committed raft log: log[1] has index APPLIED_INDEX + 1
    db,             \* the wallet's RocksDB as its readers see it
    accounts, applied_index, last_seq_num, seq_num_cache, event_cache, \* StateMachine
    wb, to_be_deleted_account_ids, flushed_applied_index,              \* ApplyContext
    loop,           \* where ApplyLoop::run is: "recv", "apply" or "panicked"
    todo,           \* entries of the received batch still to apply
    offset,         \* commands of the current entry already handled
    dup,            \* seq_num the duplicate check has read, 0 before that
    sent            \* position -> the reply registered with the message broker

smMemory == <<accounts, applied_index, last_seq_num, seq_num_cache, event_cache>>
smContext == <<wb, to_be_deleted_account_ids, flushed_applied_index>>
smLoop == <<loop, todo, offset, dup>>
smVars == <<log, db, smMemory, smContext, smLoop, sent>>

\* Default values of the hard states (rocksdb_state.rs).
PERSISTED_LAST_SEQ_NUM == 0
PERSISTED_FIRST_SEQ_NUM == 0

ASSUME ApplyAssumption ==
    BatchSize \in Nat \ {0} /\ RecvMax \in Nat \ {0} /\ MaxIndex \in Nat

ASSUME EntriesAssumption ==
    \A i \in APPLIED_INDEX+1..MaxIndex : Entries(i) \subseteq Seq(Command)

-----------------------------------------------------------------------------
(* Reads of the database.                                                  *)

DbAppliedIndex(d) == GetOr(d.hard, "applied_index", APPLIED_INDEX)

DbLastSeqNum(d) == GetOr(d.hard, "last_seq_num", PERSISTED_LAST_SEQ_NUM)

DbFirstSeqNum(d) == GetOr(d.hard, "first_seq_num", PERSISTED_FIRST_SEQ_NUM)

\* Mutant: the disk is not searched.
SeqNumOfCache(command_id) == GetOr(seq_num_cache, command_id, 0)

\* Search the cache and then the disk; 0 (never a seq_num) if in neither.
get_seq_num(command_id) == GetOr(seq_num_cache, command_id, GetOr(db.dedup, command_id, 0))

\* Mutant: the disk is not searched.
EventInCache(seq_num) == seq_num \in DOMAIN event_cache

HasEvent(seq_num) == seq_num \in DOMAIN event_cache \cup DOMAIN db.event

get_event(seq_num) == GetOr(event_cache, seq_num, GetOr(db.event, seq_num, 0))

-----------------------------------------------------------------------------
(* The apply loop.                                                         *)

LastIndex == APPLIED_INDEX + Len(log)

CurrentEntry == log[applied_index + 1 - APPLIED_INDEX]

CurrentCommand == CurrentEntry[offset + 1]

Position == <<applied_index + 1, offset>>

\* ApplyContext::send_event, and the end of handle_command.
SendEvent(reply) ==
    /\ sent' = Overlay(sent, Single(Position, reply))
    /\ offset' = offset + 1

\* An entry is committed in the raft log (the message queue's side).
Commit ==
    /\ LastIndex < MaxIndex
    /\ \E entry \in Entries(LastIndex + 1) : log' = Append(log, entry)
    /\ UNCHANGED <<db, smMemory, smContext, smLoop, sent>>

\* receiver.batch_recv: whatever has arrived by now, up to RecvMax entries.
BatchRecv ==
    /\ loop = "recv"
    /\ \E n \in 0..RecvMax :
          /\ n <= LastIndex - applied_index
          /\ todo' = n
    /\ loop' = "apply"
    /\ UNCHANGED <<log, db, smMemory, smContext, offset, dup, sent>>

Handling == loop = "apply" /\ todo > 0 /\ offset < Len(CurrentEntry)

\* handle_command, the duplicate check finds the command id ...
FindDuplicate ==
    /\ Handling /\ dup = 0
    /\ get_seq_num(CurrentCommand.command_id) # 0
    /\ dup' = get_seq_num(CurrentCommand.command_id)
    /\ UNCHANGED <<log, db, smMemory, smContext, loop, todo, offset, sent>>

\* ... and reads the event of that seq_num: the reply is that event if it is of
\* the command's type.  The unwrap of a missing event panics the apply thread.
HandleDuplicate ==
    /\ Handling /\ dup # 0
    /\ IF HasEvent(dup)
       THEN /\ SendEvent(DuplicateReply(CurrentCommand, get_event(dup)))
            /\ UNCHANGED loop
       ELSE loop' = "panicked" /\ UNCHANGED <<offset, sent>>
    /\ dup' = 0
    /\ UNCHANGED <<log, db, smMemory, smContext, todo>>

\* handle_command on a new command that fails: nothing is recorded.
RejectCommand ==
    /\ Handling /\ dup = 0
    /\ get_seq_num(CurrentCommand.command_id) = 0
    /\ Handle(accounts, CurrentCommand).err # "Ok"
    /\ SendEvent(Failure(Handle(accounts, CurrentCommand).err))
    /\ UNCHANGED <<log, db, smMemory, smContext, loop, todo, dup>>

\* Mutant: only the first written account gets into the batch.
WriteFirstAccount(batch, c, writes) ==
    IF c.kind = "Delete" THEN DeleteAll(batch, "account", {c.id})
                         ELSE PutAll(batch, "account", LastWrites(SubSeq(writes, 1, 1)))

\* Mutant: a deleted account stays in the database.
WriteDeletedAccount(batch, c, writes) == PutAll(batch, "account", LastWrites(writes))

\* update_account puts the account in the batch; delete_account deletes the key
\* and leaves the Deleted account in memory until the flush.
WriteAccounts(batch, c, writes) ==
    IF c.kind = "Delete" THEN DeleteAll(batch, "account", {c.id})
                         ELSE PutAll(batch, "account", LastWrites(writes))

\* update_seq_num_and_event, the write batch's part.
WriteEvent(batch, event) ==
    Put(Put(batch, "dedup", event.command_id, event.seq_num), "event", event.seq_num, event)

\* handle_command on a new command that succeeds.
ExecuteCommand ==
    /\ Handling /\ dup = 0
    /\ get_seq_num(CurrentCommand.command_id) = 0
    /\ LET c == CurrentCommand
           res == Handle(accounts, c)
           event == Event(c, last_seq_num + 1, Position, res.payload)
       IN /\ res.err = "Ok"
          /\ last_seq_num' = last_seq_num + 1
          /\ accounts' = Overlay(accounts, LastWrites(res.writes))
          /\ wb' = WriteEvent(WriteAccounts(wb, c, res.writes), event)
          /\ to_be_deleted_account_ids' =
               to_be_deleted_account_ids \cup IF c.kind = "Delete" THEN {c.id} ELSE {}
          /\ seq_num_cache' = Overlay(seq_num_cache, Single(c.command_id, last_seq_num + 1))
          /\ event_cache' = Overlay(event_cache, Single(last_seq_num + 1, event))
          /\ SendEvent(event)
    /\ UNCHANGED <<log, db, applied_index, flushed_applied_index, loop, todo, dup>>

\* Mutant: PERSISTED_LAST_SEQ_NUM is not updated.
FinishWithoutSeqNum ==
    /\ loop = "apply" /\ todo > 0 /\ offset = Len(CurrentEntry)
    /\ applied_index' = applied_index + 1
    /\ wb' = Put(wb, "hard", "applied_index", applied_index + 1)
    /\ todo' = todo - 1 /\ offset' = 0
    /\ UNCHANGED <<log, db, accounts, last_seq_num, seq_num_cache, event_cache,
                   to_be_deleted_account_ids, flushed_applied_index, loop, dup, sent>>

\* The end of apply_entry.
FinishEntry ==
    /\ loop = "apply" /\ todo > 0 /\ offset = Len(CurrentEntry)
    /\ applied_index' = applied_index + 1
    /\ wb' = Put(Put(wb, "hard", "applied_index", applied_index + 1),
                 "hard", "last_seq_num", last_seq_num)
    /\ todo' = todo - 1 /\ offset' = 0
    /\ UNCHANGED <<log, db, accounts, last_seq_num, seq_num_cache, event_cache,
                   to_be_deleted_account_ids, flushed_applied_index, loop, dup, sent>>

\* should_flush: too many unflushed entries, or some and 100 ms have passed.
MustFlush == applied_index - flushed_applied_index >= BatchSize

\* Mutant: no periodic flush.
NeverByTime == FALSE

MayFlush == applied_index > flushed_applied_index

Flush ==
    /\ loop = "apply" /\ todo = 0
    /\ MustFlush \/ MayFlush
    /\ db' = Write(db, wb)
    /\ wb' = EmptyBatch
    /\ accounts' = Without(accounts, to_be_deleted_account_ids)
    /\ to_be_deleted_account_ids' = {}
    /\ event_cache' = EmptyTable /\ seq_num_cache' = EmptyTable
    /\ flushed_applied_index' = applied_index
    /\ loop' = "recv"
    /\ UNCHANGED <<log, applied_index, last_seq_num, todo, offset, dup, sent>>

\* maybe_flush does nothing.
SkipFlush ==
    /\ loop = "apply" /\ todo = 0
    /\ ~MustFlush
    /\ loop' = "recv"
    /\ UNCHANGED <<log, db, smMemory, smContext, todo, offset, dup, sent>>

\* recover_from_db, ApplyContext::new and ApplyLoop::new on the database d.
RecoverFromDb(d) ==
    /\ accounts' = d.account
    /\ applied_index' = DbAppliedIndex(d)
    /\ last_seq_num' = DbLastSeqNum(d)
    /\ seq_num_cache' = EmptyTable /\ event_cache' = EmptyTable
    /\ wb' = EmptyBatch /\ to_be_deleted_account_ids' = {}
    /\ flushed_applied_index' = DbAppliedIndex(d)
    /\ loop' = "recv" /\ todo' = 0 /\ offset' = 0 /\ dup' = 0

SMInit ==
    /\ log = << >> /\ db = EmptyDB /\ sent = EmptyTable
    /\ accounts = EmptyTable /\ applied_index = APPLIED_INDEX /\ last_seq_num = 0
    /\ seq_num_cache = EmptyTable /\ event_cache = EmptyTable
    /\ wb = EmptyBatch /\ to_be_deleted_account_ids = {}
    /\ flushed_applied_index = APPLIED_INDEX
    /\ loop = "recv" /\ todo = 0 /\ offset = 0 /\ dup = 0

\* A step of the apply thread.
ApplyStep ==
    \/ BatchRecv \/ FindDuplicate \/ HandleDuplicate \/ RejectCommand
    \/ ExecuteCommand \/ FinishEntry \/ Flush \/ SkipFlush
=============================================================================
