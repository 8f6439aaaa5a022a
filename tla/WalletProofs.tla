----------------------------- MODULE WalletProofs -----------------------------
(***************************************************************************)
(* A wallet replica for every log, every bound and every GC configuration. *)
(*                                                                         *)
(* The event log: the apply loop, the flush, the GC and the crashes        *)
(* preserve the inductive invariant IInv, and the invariants of Wallet on  *)
(* the event log, the dedup ids and the flushes follow.                    *)
(*                                                                         *)
(* The clients: what the apply loop holds and sends always belongs to a    *)
(* command of the raft log (SInv), so every RPC makes a proper response of *)
(* the reply it waits for, a retained command is not executed twice, and   *)
(* the duplicate check panics only behind the GC.  And the queries (QInv): *)
(* no response has a gap.                                                  *)
(***************************************************************************)
EXTENDS EventQuery, TLAPS

\* The command id and the number that an event carries.
LEMMA EventOf ==
    ASSUME NEW c, NEW n, NEW p, NEW payload
    PROVE  /\ Event(c, n, p, payload).command_id = c.command_id
           /\ Event(c, n, p, payload).seq_num = n
  BY Zenon DEF Event

-----------------------------------------------------------------------------
(* Tables and write batches.                                               *)

IsBatch(batch) == DOMAIN batch.put = Tables /\ DOMAIN batch.del = Tables

\* PutAll changes one table of the batch and keeps the others.
LEMMA PutAllTables ==
    ASSUME NEW batch, IsBatch(batch), NEW t \in Tables, NEW f
    PROVE  /\ IsBatch(PutAll(batch, t, f))
           /\ PutAll(batch, t, f).put[t] = Overlay(batch.put[t], f)
           /\ PutAll(batch, t, f).del[t] = batch.del[t] \ DOMAIN f
           /\ \A u \in Tables \ {t} : /\ PutAll(batch, t, f).put[u] = batch.put[u]
                                      /\ PutAll(batch, t, f).del[u] = batch.del[u]
  BY Zenon DEF IsBatch, PutAll

\* DeleteAll changes one table of the batch and keeps the others.
LEMMA DeleteAllTables ==
    ASSUME NEW batch, IsBatch(batch), NEW t \in Tables, NEW S
    PROVE  /\ IsBatch(DeleteAll(batch, t, S))
           /\ DeleteAll(batch, t, S).put[t] = Without(batch.put[t], S)
           /\ DeleteAll(batch, t, S).del[t] = batch.del[t] \cup S
           /\ \A u \in Tables \ {t} : /\ DeleteAll(batch, t, S).put[u] = batch.put[u]
                                      /\ DeleteAll(batch, t, S).del[u] = batch.del[u]
  BY Zenon DEF IsBatch, DeleteAll

\* The empty batch mentions no key.
LEMMA EmptyBatchTables ==
    /\ IsBatch(EmptyBatch)
    /\ \A t \in Tables : EmptyBatch.put[t] = EmptyTable /\ EmptyBatch.del[t] = {}
  BY Zenon DEF IsBatch, EmptyBatch, EmptyDB

-----------------------------------------------------------------------------
(* The inductive invariant.                                                *)

HardKeys == {"applied_index", "last_seq_num", "first_seq_num"}

\* What holds of every database that a crash may leave.
DbOK(d) ==
    /\ DOMAIN d.hard \subseteq HardKeys /\ \A k \in DOMAIN d.hard : d.hard[k] \in Nat
    /\ DOMAIN d.event = FirstRetained(d)..DbLastSeqNum(d)
    /\ DbFirstSeqNum(d) <= DbLastSeqNum(d)
    /\ Inverse2(d.dedup, d.event)
    /\ DbFirstSeqNum(d) # 0 => DbLastSeqNum(d) - DbFirstSeqNum(d) >= CountLimit - GcCount

\* The caches: what the write batch holds for the two event tables.
CacheOK ==
    /\ last_seq_num \in Nat /\ DbLastSeqNum(db) <= last_seq_num
    /\ DOMAIN event_cache = DbLastSeqNum(db)+1..last_seq_num
    /\ Inverse2(seq_num_cache, event_cache)
    /\ DOMAIN seq_num_cache \cap DOMAIN db.dedup = {}

BatchOK ==
    /\ IsBatch(wb)
    /\ wb.put.event = event_cache /\ wb.del.event = {}
    /\ wb.put.dedup = seq_num_cache /\ wb.del.dedup = {}
    /\ wb.del.hard = {}

\* How far the loop, the batch and the database are.
ProgressOK ==
    /\ applied_index \in Nat /\ flushed_applied_index \in Nat
    /\ flushed_applied_index <= applied_index
    /\ DbAppliedIndex(db) = flushed_applied_index
    /\ todo \in Nat /\ offset \in Nat /\ todo <= RecvMax
    /\ loop \in {"recv", "apply", "panicked"}
    /\ todo = 0 => offset = 0
    /\ loop = "recv" => todo = 0 /\ applied_index - flushed_applied_index < BatchSize
    /\ applied_index - flushed_applied_index + todo < BatchSize + RecvMax
    /\ applied_index > flushed_applied_index =>
          /\ DOMAIN wb.put.hard = {"applied_index", "last_seq_num"}
          /\ wb.put.hard["applied_index"] = applied_index
          /\ wb.put.hard["last_seq_num"] \in Nat
          /\ offset = 0 => wb.put.hard["last_seq_num"] = last_seq_num
    /\ applied_index = flushed_applied_index =>
          /\ DOMAIN wb.put.hard = {}
          /\ offset = 0 => last_seq_num = DbLastSeqNum(db)

\* The GC thread works on the oldest retained events, far from the newest one.
GcOK ==
    /\ gc \in {"first", "last", "scan", "write"}
    /\ gc = "last" => gc_first = DbFirstSeqNum(db)
    /\ gc \in {"scan", "write"} =>
          /\ gc_next \in Nat /\ gc_from = FirstRetained(db) /\ gc_from < gc_next
          /\ DbLastSeqNum(db) - gc_next >= CountLimit - GcCount
    /\ gc = "write" => gc_ids = [n \in gc_from..GcTo-1 |-> db.event[n].command_id]

IInv == DbOK(db) /\ DbOK(disk) /\ CacheOK /\ BatchOK /\ ProgressOK /\ GcOK

USE DEF APPLIED_INDEX, PERSISTED_FIRST_SEQ_NUM, PERSISTED_LAST_SEQ_NUM, HardKeys

\* What the invariant consists of.
LEMMA Parts ==
    ASSUME IInv
    PROVE  DbOK(db) /\ DbOK(disk) /\ CacheOK /\ BatchOK /\ ProgressOK /\ GcOK
  BY Zenon DEF IInv

\* The hard states of a database are natural numbers, and bound its events.
LEMMA HardStates ==
    ASSUME NEW d, DbOK(d)
    PROVE  /\ DbAppliedIndex(d) \in Nat /\ DbLastSeqNum(d) \in Nat /\ DbFirstSeqNum(d) \in Nat
           /\ FirstRetained(d) \in Nat \ {0} /\ DbFirstSeqNum(d) <= DbLastSeqNum(d)
           /\ DOMAIN d.event = FirstRetained(d)..DbLastSeqNum(d)
  BY DEF DbOK, DbAppliedIndex, DbLastSeqNum, DbFirstSeqNum, FirstRetained, GetOr

\* The ends of the event log, in the database and in the cache.
LEMMA Ends ==
    ASSUME IInv
    PROVE  /\ DbLastSeqNum(db) \in Nat /\ DbFirstSeqNum(db) \in Nat /\ last_seq_num \in Nat
           /\ FirstRetained(db) \in Nat \ {0} /\ DbFirstSeqNum(db) <= DbLastSeqNum(db)
           /\ DbLastSeqNum(db) <= last_seq_num
           /\ DOMAIN db.event = FirstRetained(db)..DbLastSeqNum(db)
           /\ DOMAIN event_cache = DbLastSeqNum(db)+1..last_seq_num
  BY HardStates, Parts, Zenon DEF CacheOK

\* A wallet that starts on an empty RocksDB satisfies the inductive invariant.
THEOREM InitIInv == Init => IInv
  \* The empty database satisfies the invariant of databases.
  <1>EmptyDbOK. DbOK(EmptyDB)
    <2>1. \A t \in Tables : EmptyDB[t] = EmptyTable
      BY Zenon DEF EmptyDB
    <2>2. DOMAIN EmptyTable = {}
      BY Zenon DEF EmptyTable
    <2>3. /\ EmptyDB.hard = EmptyTable /\ EmptyDB.event = EmptyTable
          /\ EmptyDB.dedup = EmptyTable
      BY <2>1, Zenon DEF Tables
    <2>4. DbFirstSeqNum(EmptyDB) = 0 /\ DbLastSeqNum(EmptyDB) = 0
      BY <2>2, <2>3, Zenon DEF DbFirstSeqNum, DbLastSeqNum, GetOr
    <2> QED BY <2>2, <2>3, <2>4 DEF DbOK, Inverse2, FirstRetained
  <1> SUFFICES ASSUME Init PROVE IInv
    BY Zenon
  <1>1. EmptyDB.hard = EmptyTable /\ EmptyDB.dedup = EmptyTable
    BY Zenon DEF EmptyDB, Tables
  <1>2. DOMAIN EmptyTable = {}
    BY Zenon DEF EmptyTable
  <1>3. DbLastSeqNum(EmptyDB) = 0 /\ DbAppliedIndex(EmptyDB) = 5
    BY <1>1, <1>2, Zenon DEF DbLastSeqNum, DbAppliedIndex, GetOr
  <1>4. /\ IsBatch(EmptyBatch)
        /\ EmptyBatch.put.event = EmptyTable /\ EmptyBatch.del.event = {}
        /\ EmptyBatch.put.dedup = EmptyTable /\ EmptyBatch.del.dedup = {}
        /\ EmptyBatch.put.hard = EmptyTable /\ EmptyBatch.del.hard = {}
    BY EmptyBatchTables, Zenon DEF Tables
  <1>5. CacheOK
    BY <1>1, <1>2, <1>3 DEF Init, SMInit, CacheOK, Inverse2
  <1>6. BatchOK
    BY <1>4, Zenon DEF Init, SMInit, BatchOK
  <1>7. ProgressOK
    BY <1>2, <1>3, <1>4, ApplyAssumption DEF Init, SMInit, ProgressOK
  <1>8. GcOK
    BY Zenon DEF Init, GcIdle, GcOK
  <1> QED BY <1>5, <1>6, <1>7, <1>8, <1>EmptyDbOK, Zenon DEF Init, SMInit, IInv

-----------------------------------------------------------------------------
(* What the steps meet and what they write.                                *)

others == <<gcVars, disk, crashes>>

\* A command id that the duplicate check does not find is in no dedup table.
LEMMA NewCommandId ==
    ASSUME IInv, NEW id, get_seq_num(id) = 0
    PROVE  id \notin DOMAIN seq_num_cache /\ id \notin DOMAIN db.dedup
  <1>1. DOMAIN event_cache \subseteq Nat \ {0} /\ DOMAIN db.event \subseteq Nat \ {0}
    BY Ends
  <1>2. /\ \A k \in DOMAIN seq_num_cache : seq_num_cache[k] # 0
        /\ \A k \in DOMAIN db.dedup : db.dedup[k] # 0
    BY <1>1, Parts, Zenon DEF CacheOK, DbOK, Inverse2
  <1> QED BY <1>2, Zenon DEF get_seq_num, GetOr

\* The tables after a write.
LEMMA WriteTables ==
    ASSUME NEW d, NEW batch, NEW t \in Tables
    PROVE  Write(d, batch)[t] = Overlay(Without(d[t], batch.del[t]), batch.put[t])
  BY Zenon DEF Write

\* A flush is due at the end of an entry that the database does not have.
LEMMA FlushIsDue ==
    ASSUME IInv, Flush
    PROVE  applied_index > flushed_applied_index /\ offset = 0
  BY ApplyAssumption, Parts DEF ProgressOK, Flush, MustFlush, MayFlush

\* What the flush makes of the event tables and of the hard states.
LEMMA FlushedTables ==
    ASSUME IInv, applied_index > flushed_applied_index, offset = 0
    PROVE  LET d == Write(db, wb)
           IN /\ d.event = Overlay(db.event, event_cache)
              /\ d.dedup = Overlay(db.dedup, seq_num_cache)
              /\ DOMAIN d.hard \subseteq HardKeys /\ \A k \in DOMAIN d.hard : d.hard[k] \in Nat
              /\ DbLastSeqNum(d) = last_seq_num
              /\ DbFirstSeqNum(d) = DbFirstSeqNum(db)
              /\ DbAppliedIndex(d) = applied_index
  <1> DEFINE d == Write(db, wb)
  <1>1. /\ d.event = Overlay(Without(db.event, {}), event_cache)
        /\ d.dedup = Overlay(Without(db.dedup, {}), seq_num_cache)
        /\ d.hard = Overlay(Without(db.hard, {}), wb.put.hard)
    BY WriteTables, Parts, ZenonT(40) DEF BatchOK, Tables
  <1> HIDE DEF d
  <1>2. /\ d.event = Overlay(db.event, event_cache)
        /\ d.dedup = Overlay(db.dedup, seq_num_cache)
    BY <1>1 DEF Overlay, Without
  <1>3. /\ DOMAIN wb.put.hard = {"applied_index", "last_seq_num"}
        /\ wb.put.hard["applied_index"] = applied_index
        /\ wb.put.hard["last_seq_num"] = last_seq_num
        /\ applied_index \in Nat /\ last_seq_num \in Nat
        /\ DOMAIN db.hard \subseteq HardKeys /\ \A k \in DOMAIN db.hard : db.hard[k] \in Nat
    BY Parts, Zenon DEF ProgressOK, CacheOK, DbOK
  <1>4. /\ DOMAIN d.hard = DOMAIN db.hard \cup {"applied_index", "last_seq_num"}
        /\ d.hard["applied_index"] = applied_index
        /\ d.hard["last_seq_num"] = last_seq_num
        /\ \A k \in DOMAIN db.hard \ {"applied_index", "last_seq_num"} : d.hard[k] = db.hard[k]
    BY <1>1, <1>3, Zenon DEF Overlay, Without
  <1>5. DOMAIN d.hard \subseteq HardKeys /\ \A k \in DOMAIN d.hard : d.hard[k] \in Nat
    BY <1>3, <1>4, Zenon
  <1>6. DbLastSeqNum(d) = last_seq_num /\ DbAppliedIndex(d) = applied_index
    BY <1>4, Zenon DEF DbLastSeqNum, DbAppliedIndex, GetOr
  <1>7. DbFirstSeqNum(d) = DbFirstSeqNum(db)
    BY <1>4, Zenon DEF DbFirstSeqNum, GetOr
  <1> QED BY <1>2, <1>5, <1>6, <1>7, Zenon DEF d

\* What a batch of the GC makes of the database.
LEMMA GcWritten ==
    ASSUME IInv, GcWrite
    PROVE  LET S == DOMAIN gc_ids
               I == {db.event[n].command_id : n \in S}
           IN /\ GcTo \in Nat /\ gc_from \in Nat \ {0} /\ gc_from < GcTo /\ GcTo <= gc_next
              /\ gc_from = FirstRetained(db) /\ gc_next \in Nat
              /\ DbLastSeqNum(db) - gc_next >= CountLimit - GcCount
              /\ GcTo <= DbLastSeqNum(db)
              /\ S = gc_from..GcTo-1 /\ S \subseteq DOMAIN db.event
              /\ DOMAIN db.event \ S = GcTo..DbLastSeqNum(db)
              /\ db'.account = Without(db.account, {})
              /\ db'.event = Without(db.event, S) /\ db'.dedup = Without(db.dedup, I)
              /\ DOMAIN db'.hard = DOMAIN db.hard \cup {"first_seq_num"}
              /\ db'.hard["first_seq_num"] = GcTo
              /\ \A k \in DOMAIN db.hard \ {"first_seq_num"} : db'.hard[k] = db.hard[k]
              /\ DbFirstSeqNum(db') = GcTo /\ FirstRetained(db') = GcTo
              /\ DbLastSeqNum(db') = DbLastSeqNum(db)
              /\ DbAppliedIndex(db') = DbAppliedIndex(db)
  \* What gc_batch collects: deletes of events and of dedup ids, and one hard state.
  <1>DeletingBatch. ASSUME NEW S, NEW I, NEW F, F = [k \in DOMAIN F |-> F[k]]
                    PROVE  LET R == PutAll(DeleteAll(DeleteAll(EmptyBatch, "event", S), "dedup", I), "hard", F)
                           IN /\ R.put["account"] = EmptyTable /\ R.del["account"] = {}
                              /\ R.put["event"] = EmptyTable /\ R.del["event"] = S
                              /\ R.put["dedup"] = EmptyTable /\ R.del["dedup"] = I
                              /\ R.put["hard"] = F /\ R.del["hard"] = {}
    <2> USE <1>DeletingBatch
    <2> DEFINE B1 == DeleteAll(EmptyBatch, "event", S)
               B2 == DeleteAll(B1, "dedup", I)
               B3 == PutAll(B2, "hard", F)
    <2>1. /\ Without(EmptyTable, S) = EmptyTable /\ Without(EmptyTable, I) = EmptyTable
          /\ Overlay(EmptyTable, F) = F /\ {} \ DOMAIN F = {} /\ {} \cup S = S /\ {} \cup I = I
      BY Zenon DEF Without, Overlay, EmptyTable
    <2>2. /\ "event" \in Tables /\ "dedup" \in Tables /\ "hard" \in Tables /\ "account" \in Tables
          /\ "account" \in Tables \ {"dedup"} /\ "account" \in Tables \ {"hard"}
          /\ "account" \in Tables \ {"event"}
          /\ "event" \in Tables \ {"dedup"} /\ "event" \in Tables \ {"hard"}
          /\ "dedup" \in Tables \ {"event"} /\ "dedup" \in Tables \ {"hard"}
          /\ "hard" \in Tables \ {"event"} /\ "hard" \in Tables \ {"dedup"}
      BY Zenon DEF Tables
    <2>3. /\ IsBatch(EmptyBatch)
          /\ EmptyBatch.put["account"] = EmptyTable /\ EmptyBatch.del["account"] = {}
          /\ EmptyBatch.put["event"] = EmptyTable /\ EmptyBatch.del["event"] = {}
          /\ EmptyBatch.put["dedup"] = EmptyTable /\ EmptyBatch.del["dedup"] = {}
          /\ EmptyBatch.put["hard"] = EmptyTable /\ EmptyBatch.del["hard"] = {}
      BY <2>2, EmptyBatchTables, Zenon
    <2>4. /\ IsBatch(B1)
          /\ B1.put["account"] = EmptyTable /\ B1.del["account"] = {}
          /\ B1.put["event"] = EmptyTable /\ B1.del["event"] = S
          /\ B1.put["dedup"] = EmptyTable /\ B1.del["dedup"] = {}
          /\ B1.put["hard"] = EmptyTable /\ B1.del["hard"] = {}
      <3>1. /\ IsBatch(B1) /\ B1.put["event"] = Without(EmptyBatch.put["event"], S)
            /\ B1.del["event"] = EmptyBatch.del["event"] \cup S
            /\ \A u \in Tables \ {"event"} : B1.put[u] = EmptyBatch.put[u] /\ B1.del[u] = EmptyBatch.del[u]
        BY <2>2, <2>3, Zenon DEF IsBatch, DeleteAll
      <3> QED BY <2>1, <2>2, <2>3, <3>1, ZenonT(40)
    <2> HIDE DEF B1
    <2>5. /\ IsBatch(B2)
          /\ B2.put["account"] = EmptyTable /\ B2.del["account"] = {}
          /\ B2.put["event"] = EmptyTable /\ B2.del["event"] = S
          /\ B2.put["dedup"] = EmptyTable /\ B2.del["dedup"] = I
          /\ B2.put["hard"] = EmptyTable /\ B2.del["hard"] = {}
      <3>1. /\ IsBatch(B2) /\ B2.put["dedup"] = Without(B1.put["dedup"], I)
            /\ B2.del["dedup"] = B1.del["dedup"] \cup I
            /\ \A u \in Tables \ {"dedup"} : B2.put[u] = B1.put[u] /\ B2.del[u] = B1.del[u]
        BY <2>2, <2>4, Zenon DEF IsBatch, DeleteAll
      <3> QED BY <2>1, <2>2, <2>4, <3>1, ZenonT(40)
    <2> HIDE DEF B2
    <2>6. /\ B3.put["account"] = EmptyTable /\ B3.del["account"] = {}
          /\ B3.put["event"] = EmptyTable /\ B3.del["event"] = S
          /\ B3.put["dedup"] = EmptyTable /\ B3.del["dedup"] = I
          /\ B3.put["hard"] = F /\ B3.del["hard"] = {}
      <3>1. /\ IsBatch(B3) /\ B3.put["hard"] = Overlay(B2.put["hard"], F)
            /\ B3.del["hard"] = B2.del["hard"] \ DOMAIN F
            /\ \A u \in Tables \ {"hard"} : B3.put[u] = B2.put[u] /\ B3.del[u] = B2.del[u]
        BY <2>2, <2>5, Zenon DEF IsBatch, PutAll
      <3> QED BY <2>1, <2>2, <2>5, <3>1, ZenonT(40)
    <2> QED BY <2>6, Zenon DEF B1, B2
  <1> DEFINE S == DOMAIN gc_ids
             I == {gc_ids[n] : n \in DOMAIN gc_ids}
             F == Single("first_seq_num", GcTo)
             R == PutAll(DeleteAll(DeleteAll(EmptyBatch, "event", S), "dedup", I), "hard", F)
  <1>1. gc = "write" /\ db' = Write(db, R)
    BY Zenon DEF GcWrite, GcBatch, Put
  <1>2. /\ DbLastSeqNum(db) \in Nat /\ DbFirstSeqNum(db) \in Nat
        /\ gc_from = FirstRetained(db) /\ gc_from \in Nat \ {0}
        /\ gc_next \in Nat /\ gc_from < gc_next
        /\ DbLastSeqNum(db) - gc_next >= CountLimit - GcCount
        /\ DOMAIN db.event = gc_from..DbLastSeqNum(db)
        /\ gc_ids = [n \in gc_from..GcTo-1 |-> db.event[n].command_id]
    BY <1>1, Ends, Parts, Zenon DEF GcOK
  <1>3. /\ GcTo \in Nat /\ gc_from < GcTo /\ GcTo <= gc_next
        /\ gc_next <= DbLastSeqNum(db)
    <2>1. GcTo = IF gc_from + GcBatchSize < gc_next THEN gc_from + GcBatchSize ELSE gc_next
      BY <1>2, GcAssumption, Zenon DEF GcTo
    <2> QED BY <1>2, <2>1, GcAssumption, SMTT(40)
  <1>4. S \subseteq DOMAIN db.event /\ DOMAIN db.event \ S = GcTo..DbLastSeqNum(db)
    BY <1>2, <1>3
  <1>5. I = {db.event[n].command_id : n \in S}
    BY <1>2, Zenon
  <1>6. DOMAIN F = {"first_seq_num"} /\ F["first_seq_num"] = GcTo
             /\ F = [k \in DOMAIN F |-> F[k]]
    BY Zenon DEF Single
  <1> HIDE DEF S, I, F
  <1>7. /\ R.put["account"] = EmptyTable /\ R.del["account"] = {}
        /\ R.put["event"] = EmptyTable /\ R.del["event"] = S
        /\ R.put["dedup"] = EmptyTable /\ R.del["dedup"] = I
        /\ R.put["hard"] = F /\ R.del["hard"] = {}
    BY <1>6, <1>DeletingBatch
  <1> HIDE DEF R
  <1>8. db'.event = Without(db.event, S)
    <2>1. db'.event = Overlay(Without(db.event, S), EmptyTable)
      BY <1>1, <1>7, WriteTables, Zenon DEF Tables
    <2> QED BY <2>1, Zenon DEF Overlay, Without, EmptyTable
  <1>9. db'.dedup = Without(db.dedup, I)
    <2>1. db'.dedup = Overlay(Without(db.dedup, I), EmptyTable)
      BY <1>1, <1>7, WriteTables, ZenonT(40) DEF Tables
    <2> QED BY <2>1, Zenon DEF Overlay, Without, EmptyTable
  <1>10. /\ DOMAIN db'.hard = DOMAIN db.hard \cup {"first_seq_num"}
         /\ db'.hard["first_seq_num"] = GcTo
         /\ \A k \in DOMAIN db.hard \ {"first_seq_num"} : db'.hard[k] = db.hard[k]
    <2>1. db'.hard = Overlay(Without(db.hard, {}), F)
      BY <1>1, <1>7, WriteTables, ZenonT(40) DEF Tables
    <2> QED BY <1>6, <2>1, Zenon DEF Overlay, Without, EmptyTable
  <1>11. /\ DbFirstSeqNum(db') = GcTo /\ FirstRetained(db') = GcTo
         /\ DbLastSeqNum(db') = DbLastSeqNum(db)
         /\ DbAppliedIndex(db') = DbAppliedIndex(db)
    BY <1>2, <1>3, <1>10, SMTT(40)
    DEF DbFirstSeqNum, DbLastSeqNum, DbAppliedIndex, FirstRetained, GetOr
  <1>12. db'.account = Without(db.account, {})
    <2>1. db'.account = Overlay(Without(db.account, {}), EmptyTable)
      BY <1>1, <1>7, WriteTables, ZenonT(40) DEF Tables
    <2> QED BY <2>1, Zenon DEF Overlay, Without, EmptyTable
  <1>13. S = gc_from..GcTo-1
    BY <1>2, Zenon DEF S
  <1>14. DOMAIN gc_ids = S /\ {db.event[n].command_id : n \in DOMAIN gc_ids} = I
    BY <1>5, Zenon DEF S
  <1>15. GcTo <= DbLastSeqNum(db)
    BY <1>2, <1>3
  <1> QED BY <1>2, <1>3, <1>4, <1>8, <1>9, <1>10, <1>11, <1>12, <1>13, <1>14, <1>15, ZenonT(40)

-----------------------------------------------------------------------------
(* Every step preserves the invariant.                                     *)

\* Every step of the apply loop, of the GC thread and of the crashes preserves it.
THEOREM NextIInv == IInv /\ [Next]_vars => IInv'
  \* Domain and values of an overlay.
  <1>OverlayValue. ASSUME NEW f, NEW g
                   PROVE  /\ DOMAIN Overlay(f, g) = DOMAIN f \cup DOMAIN g
                          /\ \A k \in DOMAIN g : Overlay(f, g)[k] = g[k]
                          /\ \A k \in DOMAIN f \ DOMAIN g : Overlay(f, g)[k] = f[k]
    BY <1>OverlayValue, Zenon DEF Overlay
  \* Domain and values of a table without some keys.
  <1>WithoutValue. ASSUME NEW f, NEW S
                   PROVE  /\ DOMAIN Without(f, S) = DOMAIN f \ S
                          /\ \A k \in DOMAIN f \ S : Without(f, S)[k] = f[k]
    BY <1>WithoutValue, Zenon DEF Without
  \* Steps that leave the database, the caches and the batch alone.
  <1>KeepsTables. ASSUME IInv, UNCHANGED <<db, disk, last_seq_num, seq_num_cache, event_cache, wb, gcVars>>
                  PROVE  DbOK(db)' /\ DbOK(disk)' /\ CacheOK' /\ BatchOK' /\ GcOK'
    <2> USE <1>KeepsTables
    <2>1. DbOK(db)' /\ DbOK(disk)'
      BY Parts, Zenon
    <2>2. CacheOK'
      BY Parts, Zenon DEF CacheOK
    <2>3. BatchOK'
      BY Parts, Zenon DEF BatchOK
    <2>4. GcOK'
      BY Parts, Zenon DEF GcOK, GcTo, gcVars
    <2> QED BY <2>1, <2>2, <2>3, <2>4, Zenon
  \* A newly committed raft log entry does not touch the replica.
  <1>CommitIInv. ASSUME IInv, Commit, UNCHANGED others PROVE IInv'
    <2> USE <1>CommitIInv
    <2>1. ProgressOK'
      BY Parts, Zenon DEF ProgressOK, Commit, smMemory, smContext, smLoop, DbAppliedIndex,
         DbLastSeqNum
    <2> QED BY <2>1, <1>KeepsTables, Zenon DEF IInv, Commit, others, gcVars, smMemory, smContext
  \* batch_recv and a maybe_flush that does nothing preserve the invariant.
  <1>ReceiveIInv. ASSUME IInv, BatchRecv \/ SkipFlush, UNCHANGED others PROVE IInv'
    <2> USE <1>ReceiveIInv
    <2>1. ProgressOK'
      BY ApplyAssumption, Parts
      DEF ProgressOK, BatchRecv, SkipFlush, MustFlush, smMemory, smContext, DbAppliedIndex,
          DbLastSeqNum
    <2> QED BY <2>1, <1>KeepsTables, Zenon DEF IInv, BatchRecv, SkipFlush, others, gcVars,
               smMemory, smContext
  \* A duplicate or a failing command leaves the tables and the caches alone.
  <1>ReplyIInv. ASSUME IInv, FindDuplicate \/ HandleDuplicate \/ RejectCommand, UNCHANGED others
                PROVE  IInv'
    <2> USE <1>ReplyIInv
    <2>1. /\ UNCHANGED <<db, disk, smMemory, smContext, gcVars, todo>>
          /\ todo > 0 /\ loop = "apply"
          /\ loop' \in {"apply", "panicked"} /\ offset' \in {offset, offset + 1}
      BY Zenon DEF FindDuplicate, HandleDuplicate, RejectCommand, Handling, SendEvent, others,
             smMemory, smContext, gcVars
    <2>2. ProgressOK'
      BY <2>1, ApplyAssumption, Parts
      DEF ProgressOK, smMemory, smContext, DbAppliedIndex, DbLastSeqNum
    <2> QED BY <2>1, <2>2, <1>KeepsTables, Zenon DEF IInv, smMemory, smContext
  \* Adding one event and its command id to a pair of inverse tables.
  <1>ExtendInverse. ASSUME NEW dedup, NEW event, Inverse2(dedup, event),
                           NEW id, id \notin DOMAIN dedup, NEW n, n \notin DOMAIN event,
                           NEW e, e.command_id = id
                    PROVE  Inverse2(Overlay(dedup, Single(id, n)), Overlay(event, Single(n, e)))
    <2> USE <1>ExtendInverse
    <2> DEFINE dedup2 == Overlay(dedup, Single(id, n))
               event2 == Overlay(event, Single(n, e))
    <2>1. /\ DOMAIN dedup2 = DOMAIN dedup \cup {id} /\ dedup2[id] = n
          /\ \A k \in DOMAIN dedup : dedup2[k] = dedup[k]
      BY Zenon DEF Overlay, Single
    <2>2. /\ DOMAIN event2 = DOMAIN event \cup {n} /\ event2[n] = e
          /\ \A k \in DOMAIN event : event2[k] = event[k]
      BY Zenon DEF Overlay, Single
    <2> HIDE DEF dedup2, event2
    <2>3. Inverse2(dedup2, event2)
      BY <2>1, <2>2 DEF Inverse2
    <2> QED BY <2>3, Zenon DEF dedup2, event2
  \* A successful command adds one event and its dedup id (update_seq_num_and_event).
  <1>ExecuteIInv. ASSUME IInv, ExecuteCommand, UNCHANGED others PROVE IInv'
    <2> USE <1>ExecuteIInv
    <2> DEFINE c == CurrentCommand
               n == last_seq_num + 1
               res == Handle(accounts, c)
               event == Event(c, n, Position, res.payload)
               W == WriteAccounts(wb, c, res.writes)
               P == Put(W, "dedup", c.command_id, n)
               Q == Put(P, "event", n, event)
    <2>1. /\ last_seq_num' = n /\ wb' = WriteEvent(W, event)
          /\ seq_num_cache' = Overlay(seq_num_cache, Single(c.command_id, n))
          /\ event_cache' = Overlay(event_cache, Single(n, event))
          /\ offset' = offset + 1 /\ todo > 0 /\ loop = "apply"
          /\ UNCHANGED <<db, disk, gcVars, applied_index, flushed_applied_index, loop, todo>>
      BY Zenon DEF ExecuteCommand, Handling, SendEvent, others
    <2>2. event.command_id = c.command_id /\ event.seq_num = n
      BY EventOf, SMTT(40)
    <2>3. wb' = Q
      BY <2>1, <2>2, Zenon DEF WriteEvent
    <2>4. c.command_id \notin DOMAIN seq_num_cache /\ c.command_id \notin DOMAIN db.dedup
      BY NewCommandId, Zenon DEF ExecuteCommand
    <2>5. last_seq_num \in Nat /\ n \notin DOMAIN event_cache
      BY Ends
    <2> HIDE DEF c, n, res, event
    <2>6. /\ IsBatch(W)
          /\ \A t \in Tables \ {"account"} : W.put[t] = wb.put[t] /\ W.del[t] = wb.del[t]
      BY PutAllTables, DeleteAllTables, Parts, SMTT(40) DEF BatchOK, WriteAccounts, Tables
    <2> HIDE DEF W
    <2>7. /\ IsBatch(P)
          /\ P.put["dedup"] = Overlay(W.put["dedup"], Single(c.command_id, n))
          /\ P.del["dedup"] = W.del["dedup"] \ {c.command_id}
          /\ \A t \in Tables \ {"dedup"} : P.put[t] = W.put[t] /\ P.del[t] = W.del[t]
      <3>1. "dedup" \in Tables /\ DOMAIN Single(c.command_id, n) = {c.command_id}
        BY Zenon DEF Tables, Single
      <3> QED BY <2>6, <3>1, PutAllTables DEF Put
    <2> HIDE DEF P
    <2>8. /\ IsBatch(Q)
          /\ Q.put["event"] = Overlay(P.put["event"], Single(n, event))
          /\ Q.del["event"] = P.del["event"] \ {n}
          /\ \A t \in Tables \ {"event"} : Q.put[t] = P.put[t] /\ Q.del[t] = P.del[t]
      <3>1. "event" \in Tables /\ DOMAIN Single(n, event) = {n}
        BY Zenon DEF Tables, Single
      <3> QED BY <2>7, <3>1, PutAllTables DEF Put
    <2> HIDE DEF Q
    <2>9. BatchOK' /\ wb'.put.hard = wb.put.hard
      BY <2>1, <2>3, <2>6, <2>7, <2>8, Parts, SMTT(40) DEF BatchOK, Tables
    <2>10. CacheOK'
      <3>1. last_seq_num' \in Nat /\ DbLastSeqNum(db) <= n
        BY <2>1, <2>5, Ends DEF n
      <3>2. DOMAIN event_cache' = DbLastSeqNum(db)+1..n
        <4>1. DOMAIN event_cache' = DOMAIN event_cache \cup {n}
          BY <2>1, <1>OverlayValue, Zenon DEF Single
        <4>2. DbLastSeqNum(db) \in Nat /\ DbLastSeqNum(db) <= last_seq_num
          BY Ends, Zenon
        <4> QED BY <4>1, <4>2, <2>5, Parts DEF CacheOK, n
      <3>3. Inverse2(seq_num_cache, event_cache)'
        BY <2>1, <2>2, <2>4, <2>5, <1>ExtendInverse, Parts, ZenonT(40) DEF CacheOK
      <3>4. DOMAIN seq_num_cache' \cap DOMAIN db.dedup = {}
        <4>1. DOMAIN seq_num_cache' = DOMAIN seq_num_cache \cup {c.command_id}
          BY <2>1, <1>OverlayValue, ZenonT(40) DEF Single
        <4> QED BY <4>1, <2>4, Parts, Zenon DEF CacheOK
      <3> QED BY <2>1, <3>1, <3>2, <3>3, <3>4, Zenon DEF CacheOK
    <2>11. ProgressOK'
      BY <2>1, <2>9, Parts DEF ProgressOK
    <2>12. GcOK'
      BY <2>1, Parts, Zenon DEF GcOK, GcTo, gcVars
    <2> QED BY <2>1, <2>9, <2>10, <2>11, <2>12, Zenon DEF IInv
  \* The end of apply_entry records the applied index and the last seq_num.
  <1>FinishEntryIInv. ASSUME IInv, FinishEntry, UNCHANGED others PROVE IInv'
    <2> USE <1>FinishEntryIInv
    <2> DEFINE A == Single("applied_index", applied_index + 1)
               B == Single("last_seq_num", last_seq_num)
               P == PutAll(wb, "hard", A)
               Q == PutAll(P, "hard", B)
    <2>1. /\ wb' = Q /\ applied_index' = applied_index + 1 /\ offset' = 0
          /\ todo' = todo - 1 /\ todo > 0 /\ loop = "apply"
          /\ UNCHANGED <<db, disk, gcVars, last_seq_num, seq_num_cache, event_cache,
                         flushed_applied_index, loop>>
      BY Zenon DEF FinishEntry, Put, others
    <2>2. "hard" \in Tables
      BY Zenon DEF Tables
    <2>3. /\ DOMAIN A = {"applied_index"} /\ A["applied_index"] = applied_index + 1
          /\ DOMAIN B = {"last_seq_num"} /\ B["last_seq_num"] = last_seq_num
      BY Zenon DEF Single
    <2> HIDE DEF A, B
    <2>4. /\ IsBatch(P) /\ P.put["hard"] = Overlay(wb.put["hard"], A)
          /\ P.del["hard"] = wb.del["hard"] \ DOMAIN A
          /\ \A t \in Tables \ {"hard"} : P.put[t] = wb.put[t] /\ P.del[t] = wb.del[t]
      BY <2>2, PutAllTables, Parts, SMTT(40) DEF BatchOK
    <2> HIDE DEF P
    <2>5. /\ IsBatch(Q) /\ Q.put["hard"] = Overlay(P.put["hard"], B)
          /\ Q.del["hard"] = P.del["hard"] \ DOMAIN B
          /\ \A t \in Tables \ {"hard"} : Q.put[t] = P.put[t] /\ Q.del[t] = P.del[t]
      BY <2>2, <2>4, PutAllTables, SMTT(40)
    <2> HIDE DEF Q
    <2>6. BatchOK'
      BY <2>1, <2>4, <2>5, Parts, Zenon DEF BatchOK, Tables
    <2>7. /\ DOMAIN wb'.put.hard = {"applied_index", "last_seq_num"}
          /\ wb'.put.hard["applied_index"] = applied_index + 1
          /\ wb'.put.hard["last_seq_num"] = last_seq_num
      <3>1. wb'.put.hard = Overlay(Overlay(wb.put.hard, A), B)
        BY <2>1, <2>4, <2>5, Zenon
      <3>2. DOMAIN wb.put.hard \subseteq {"applied_index", "last_seq_num"}
        BY Parts, SMTT(40) DEF ProgressOK
      <3> QED BY <2>3, <3>1, <3>2, Zenon DEF Overlay
    <2>8. ProgressOK'
      <3>1. /\ applied_index \in Nat /\ flushed_applied_index \in Nat /\ todo \in Nat
            /\ flushed_applied_index <= applied_index /\ todo <= RecvMax
            /\ applied_index - flushed_applied_index + todo < BatchSize + RecvMax
            /\ DbAppliedIndex(db) = flushed_applied_index /\ last_seq_num \in Nat
        BY Parts, Zenon DEF ProgressOK, CacheOK
      <3>2. /\ applied_index' > flushed_applied_index' /\ todo' \in Nat /\ todo' <= RecvMax
            /\ applied_index' - flushed_applied_index' + todo' < BatchSize + RecvMax
        BY <2>1, <3>1, ApplyAssumption, SMTT(40)
      <3> QED BY <2>1, <2>7, <3>1, <3>2, SMTT(40) DEF ProgressOK
    <2>9. CacheOK'
      BY <2>1, Parts, Zenon DEF CacheOK
    <2>10. GcOK'
      BY <2>1, Parts, Zenon DEF GcOK, GcTo, gcVars
    <2> QED BY <2>1, <2>6, <2>8, <2>9, <2>10, Zenon DEF IInv
  \* The union of two pairs of inverse tables with disjoint keys.
  <1>MergeInverse. ASSUME NEW d1, NEW e1, NEW d2, NEW e2, Inverse2(d1, e1), Inverse2(d2, e2),
                          DOMAIN d1 \cap DOMAIN d2 = {}, DOMAIN e1 \cap DOMAIN e2 = {}
                   PROVE  Inverse2(Overlay(d1, d2), Overlay(e1, e2))
    <2> USE <1>MergeInverse
    <2> DEFINE d == Overlay(d1, d2)
               e == Overlay(e1, e2)
    <2>1. /\ DOMAIN d = DOMAIN d1 \cup DOMAIN d2
          /\ \A k \in DOMAIN d1 : d[k] = d1[k]
          /\ \A k \in DOMAIN d2 : d[k] = d2[k]
      BY Zenon DEF Overlay
    <2>2. /\ DOMAIN e = DOMAIN e1 \cup DOMAIN e2
          /\ \A k \in DOMAIN e1 : e[k] = e1[k]
          /\ \A k \in DOMAIN e2 : e[k] = e2[k]
      BY Zenon DEF Overlay
    <2> HIDE DEF d, e
    <2>3. Inverse2(d, e)
      BY <2>1, <2>2 DEF Inverse2
    <2> QED BY <2>3, Zenon DEF d, e
  \* Removing some events and their command ids from a pair of inverse tables.
  <1>ShrinkInverse. ASSUME NEW dedup, NEW event, Inverse2(dedup, event), NEW S, S \subseteq DOMAIN event
                    PROVE  Inverse2(Without(dedup, {event[n].command_id : n \in S}), Without(event, S))
    <2> USE <1>ShrinkInverse
    <2> DEFINE ids == {event[n].command_id : n \in S}
    <2>1. /\ DOMAIN Without(dedup, ids) = DOMAIN dedup \ ids
          /\ \A k \in DOMAIN dedup \ ids : Without(dedup, ids)[k] = dedup[k]
      BY <1>WithoutValue, Zenon
    <2>2. /\ DOMAIN Without(event, S) = DOMAIN event \ S
          /\ \A k \in DOMAIN event \ S : Without(event, S)[k] = event[k]
      BY <1>WithoutValue, Zenon
    <2>3. \A k \in DOMAIN dedup : k \notin ids <=> dedup[k] \notin S
      BY Zenon DEF Inverse2
    <2>4. \A n \in DOMAIN event : event[n].command_id \notin ids <=> n \notin S
      BY Zenon DEF Inverse2
    <2> HIDE DEF ids
    <2>5. Inverse2(Without(dedup, ids), Without(event, S))
      BY <2>1, <2>2, <2>3, <2>4 DEF Inverse2
    <2> QED BY <2>5, Zenon DEF ids
  \* The flush moves the caches to the database, next to what the GC has left.
  <1>FlushIInv. ASSUME IInv, Flush, UNCHANGED others PROVE IInv'
    <2> USE <1>FlushIInv
    <2>1. /\ db' = Write(db, wb) /\ wb' = EmptyBatch /\ loop' = "recv" /\ todo = 0
          /\ event_cache' = EmptyTable /\ seq_num_cache' = EmptyTable
          /\ flushed_applied_index' = applied_index
          /\ UNCHANGED <<disk, gcVars, applied_index, last_seq_num, todo, offset>>
      BY Zenon DEF Flush, others
    <2>2. applied_index > flushed_applied_index /\ offset = 0
      BY FlushIsDue, Zenon
    <2>3. /\ db'.event = Overlay(db.event, event_cache)
          /\ db'.dedup = Overlay(db.dedup, seq_num_cache)
          /\ DOMAIN db'.hard \subseteq HardKeys /\ \A k \in DOMAIN db'.hard : db'.hard[k] \in Nat
          /\ DbLastSeqNum(db') = last_seq_num
          /\ DbFirstSeqNum(db') = DbFirstSeqNum(db)
          /\ DbAppliedIndex(db') = applied_index
      BY <2>1, <2>2, FlushedTables, Zenon
    <2>4. /\ DbLastSeqNum(db) \in Nat /\ DbFirstSeqNum(db) \in Nat /\ last_seq_num \in Nat
          /\ FirstRetained(db) \in Nat \ {0} /\ FirstRetained(db') = FirstRetained(db)
          /\ DbFirstSeqNum(db) <= DbLastSeqNum(db) /\ DbLastSeqNum(db) <= last_seq_num
          /\ DOMAIN db.event = FirstRetained(db)..DbLastSeqNum(db)
          /\ DOMAIN event_cache = DbLastSeqNum(db)+1..last_seq_num
      BY <2>3, Ends, Zenon DEF FirstRetained
    <2>5. DOMAIN db.event \cap DOMAIN event_cache = {}
      BY <2>4
    <2>6. DbOK(db')
      <3>1. DOMAIN db'.event = FirstRetained(db')..DbLastSeqNum(db')
        <4>1. DOMAIN db'.event = DOMAIN db.event \cup DOMAIN event_cache
          BY <2>3, <1>OverlayValue, ZenonT(40)
        <4>2. FirstRetained(db) <= DbLastSeqNum(db) + 1
          BY <2>4 DEF FirstRetained
        <4> QED BY <2>3, <2>4, <4>1, <4>2
      <3>2. Inverse2(db'.dedup, db'.event)
        <4>1. /\ Inverse2(db.dedup, db.event) /\ Inverse2(seq_num_cache, event_cache)
              /\ DOMAIN db.dedup \cap DOMAIN seq_num_cache = {}
          BY Parts, Zenon DEF DbOK, CacheOK
        <4>2. Inverse2(Overlay(db.dedup, seq_num_cache), Overlay(db.event, event_cache))
          BY <2>5, <4>1, <1>MergeInverse, Zenon
        <4> QED BY <2>3, <4>2, Zenon
      <3>3. DbFirstSeqNum(db') # 0 =>
              DbLastSeqNum(db') - DbFirstSeqNum(db') >= CountLimit - GcCount
        BY <2>3, <2>4, GcAssumption, Parts, SMTT(40) DEF DbOK
      <3> QED BY <2>3, <2>4, <3>1, <3>2, <3>3, SMTT(40) DEF DbOK
    <2>7. CacheOK'
      <3>1. DOMAIN EmptyTable = {}
        BY Zenon DEF EmptyTable
      <3> QED BY <2>1, <2>3, <2>4, <3>1 DEF CacheOK, Inverse2
    <2>8. BatchOK' /\ wb'.put.hard = EmptyTable
      BY <2>1, EmptyBatchTables, Zenon DEF BatchOK, Tables
    <2>9. ProgressOK'
      <3>1. DOMAIN EmptyTable = {}
        BY Zenon DEF EmptyTable
      <3> QED BY <2>1, <2>2, <2>3, <2>8, <3>1, ApplyAssumption, Parts DEF ProgressOK
    <2>10. GcOK'
      <3>1. CASE gc \in {"scan", "write"}
        <4>1. gc_from' = FirstRetained(db') /\ gc_from' < gc_next' /\ gc_next' \in Nat
              /\ DbLastSeqNum(db') - gc_next' >= CountLimit - GcCount
          BY <2>1, <2>3, <2>4, <3>1, GcAssumption, Parts, SMTT(40) DEF GcOK, gcVars
        <4>2. GcTo' = GcTo /\ GcTo \in Nat /\ GcTo <= gc_next /\ gc_next <= DbLastSeqNum(db)
              /\ gc_from \in Nat \ {0}
          BY <2>1, <2>4, <3>1, GcAssumption, Parts, SMTT(40) DEF GcOK, gcVars, GcTo
        <4>3. \A n \in gc_from..GcTo-1 : n \in DOMAIN db.event /\ n \notin DOMAIN event_cache
          BY <2>4, <3>1, <4>2, Parts, SMTT(40) DEF GcOK
        <4>4. \A n \in gc_from..GcTo-1 : db'.event[n] = db.event[n]
          BY <2>3, <4>3, Zenon DEF Overlay
        <4>5. gc = "write" => gc_ids = [n \in gc_from..GcTo-1 |-> db'.event[n].command_id]
          BY <4>4, Parts, Zenon DEF GcOK
        <4> QED BY <2>1, <3>1, <4>1, <4>2, <4>5, Parts, Zenon DEF GcOK, gcVars
      <3>2. CASE gc \notin {"scan", "write"}
        BY <2>1, <2>3, <3>2, Parts, Zenon DEF GcOK, gcVars
      <3> QED BY <3>1, <3>2, Zenon
    <2> QED BY <2>1, <2>6, <2>7, <2>8, <2>9, <2>10, Zenon DEF IInv
  \* The reads of the GC thread stay valid while the apply loop flushes.
  <1>GcReadIInv. ASSUME IInv, GcReadFirst \/ ShouldGc \/ GcScan, UNCHANGED <<disk, crashes>>
                 PROVE  IInv'
    <2> USE <1>GcReadIInv
    <2>1. UNCHANGED <<db, disk, smMemory, smContext, smLoop>>
      BY Zenon DEF GcReadFirst, ShouldGc, GcScan, smVars
    <2>2. DbOK(db)' /\ DbOK(disk)' /\ CacheOK' /\ BatchOK' /\ ProgressOK'
      BY <2>1, Parts, Zenon DEF CacheOK, BatchOK, ProgressOK, smMemory, smContext, smLoop
    <2>3. /\ DbLastSeqNum(db) \in Nat /\ DbFirstSeqNum(db) \in Nat
          /\ FirstRetained(db) \in Nat \ {0} /\ DbFirstSeqNum(db) <= DbLastSeqNum(db)
      BY Ends, Zenon
    <2>4. ASSUME GcReadFirst PROVE GcOK'
      BY <2>1, <2>4, Zenon DEF GcReadFirst, GcOK, GcTo
    <2>5. ASSUME ShouldGc PROVE GcOK'
      <3> DEFINE from == IF gc_first = 0 THEN 1 ELSE gc_first
      <3>1. gc = "last" /\ gc_first = DbFirstSeqNum(db) /\ from = FirstRetained(db)
        BY <2>5, Parts, Zenon DEF ShouldGc, GcOK, FirstRetained
      <3>2. CASE DbLastSeqNum(db) - gc_first < CountLimit
        BY <2>1, <2>5, <3>2, Zenon DEF ShouldGc, GcOK
      <3>3. CASE ~(DbLastSeqNum(db) - gc_first < CountLimit)
        <4>1. GcContinue(from, gc_first + GcCount)
          BY <2>5, <3>3 DEF ShouldGc
        <4>2. /\ gc_first + GcCount \in Nat
              /\ DbLastSeqNum(db) - (gc_first + GcCount) >= CountLimit - GcCount
          BY <2>3, <3>1, <3>3, GcAssumption, SMTT(40)
        <4>3. CASE from < gc_first + GcCount
          BY <2>1, <3>1, <4>1, <4>2, <4>3, Zenon DEF GcContinue, GcOK
        <4>4. CASE ~(from < gc_first + GcCount)
          BY <4>1, <4>4, Zenon DEF GcContinue, GcOK
        <4> QED BY <4>3, <4>4, Zenon
      <3> QED BY <3>2, <3>3, Zenon
    <2>6. ASSUME GcScan PROVE GcOK'
      <3>1. /\ gc = "scan" /\ gc' = "write" /\ UNCHANGED <<gc_from, gc_next>>
            /\ gc_ids' = [n \in DOMAIN db.event \cap gc_from..GcTo-1 |-> db.event[n].command_id]
        BY <2>6, Zenon DEF GcScan
      <3>2. gc_from..GcTo-1 \subseteq DOMAIN db.event
        BY <2>3, <3>1, GcAssumption, Parts, SMTT(40) DEF GcOK, GcTo, DbOK
      <3>3. gc_ids' = [n \in gc_from..GcTo-1 |-> db.event[n].command_id]
        BY <3>1, <3>2, Zenon
      <3> QED BY <2>1, <3>1, <3>3, Parts, Zenon DEF GcOK, GcTo
    <2> QED BY <2>2, <2>4, <2>5, <2>6, Zenon DEF IInv
  \* A batch of the GC truncates the oldest events and exactly their dedup ids.
  <1>GcWriteIInv. ASSUME IInv, GcWrite, UNCHANGED <<disk, crashes>> PROVE IInv'
    <2> USE <1>GcWriteIInv
    <2> DEFINE S == DOMAIN gc_ids
               I == {db.event[n].command_id : n \in S}
    <2>0. GcContinue(GcTo, gc_next) /\ UNCHANGED <<disk, smMemory, smContext, smLoop>>
      BY Zenon DEF GcWrite
    <2>1. /\ GcTo \in Nat /\ gc_from \in Nat \ {0} /\ gc_from < GcTo /\ GcTo <= gc_next
          /\ gc_from = FirstRetained(db) /\ gc_next \in Nat
          /\ DbLastSeqNum(db) - gc_next >= CountLimit - GcCount
          /\ GcTo <= DbLastSeqNum(db)
          /\ S \subseteq DOMAIN db.event /\ DOMAIN db.event \ S = GcTo..DbLastSeqNum(db)
          /\ db'.event = Without(db.event, S) /\ db'.dedup = Without(db.dedup, I)
          /\ DOMAIN db'.hard = DOMAIN db.hard \cup {"first_seq_num"}
          /\ db'.hard["first_seq_num"] = GcTo
          /\ \A k \in DOMAIN db.hard \ {"first_seq_num"} : db'.hard[k] = db.hard[k]
          /\ DbFirstSeqNum(db') = GcTo /\ FirstRetained(db') = GcTo
          /\ DbLastSeqNum(db') = DbLastSeqNum(db)
          /\ DbAppliedIndex(db') = DbAppliedIndex(db)
      BY GcWritten, ZenonT(40)
    <2>a. DbLastSeqNum(db) \in Nat
      BY Ends, Zenon
    <2> HIDE DEF S, I
    <2>2. DbOK(db')
      <3>1. Inverse2(db.dedup, db.event)
        BY Parts, Zenon DEF DbOK
      <3>2. Inverse2(Without(db.dedup, I), Without(db.event, S))
        BY <2>1, <3>1, <1>ShrinkInverse, ZenonT(40) DEF I
      <3>3. Inverse2(db'.dedup, db'.event)
        BY <2>1, <3>2, Zenon
      <3>0. DOMAIN db.hard \subseteq HardKeys /\ \A k \in DOMAIN db.hard : db.hard[k] \in Nat
        BY Parts, Zenon DEF DbOK
      <3>4. DOMAIN db'.hard \subseteq HardKeys /\ \A k \in DOMAIN db'.hard : db'.hard[k] \in Nat
        BY <2>1, <3>0, Zenon
      <3>5. DOMAIN db'.event = GcTo..DbLastSeqNum(db)
        BY <2>1, Zenon DEF Without
      <3> QED BY <2>1, <2>a, <3>3, <3>4, <3>5, GcAssumption, SMTT(40) DEF DbOK
    <2>3. CacheOK'
      <3>1. DOMAIN db'.dedup = DOMAIN db.dedup \ I
        BY <2>1, <1>WithoutValue, ZenonT(40)
      <3> QED BY <2>0, <2>1, <3>1, Parts, Zenon DEF CacheOK, smMemory
    <2>4. BatchOK' /\ ProgressOK'
      BY <2>0, <2>1, Parts, Zenon DEF BatchOK, ProgressOK, smMemory, smContext, smLoop
    <2>5. GcOK'
      BY <2>0, <2>1, <2>a, SMTT(40) DEF GcOK, GcContinue, GcTo
    <2> QED BY <2>0, <2>2, <2>3, <2>4, <2>5, Zenon DEF IInv
  \* recover_from_db restores the invariant on what either crash leaves.
  <1>CrashIInv. ASSUME IInv, NEW d \in {db, disk}, Crash(d) PROVE IInv'
    <2> USE <1>CrashIInv
    <2>1. DOMAIN EmptyTable = {}
      BY Zenon DEF EmptyTable
    <2>2. DbOK(d) /\ db' = d /\ disk' = disk
      BY Parts, Zenon DEF Crash
    <2>3. DbAppliedIndex(d) \in Nat /\ DbLastSeqNum(d) \in Nat
      BY <2>2, HardStates, Zenon
    <2>4. CacheOK'
      BY <2>1, <2>2, <2>3, SMTT(40) DEF Crash, RecoverFromDb, CacheOK, Inverse2
    <2>5. BatchOK' /\ wb'.put.hard = EmptyTable
      BY EmptyBatchTables, Zenon DEF Crash, RecoverFromDb, BatchOK, Tables
    <2>6. ProgressOK'
      BY <2>1, <2>2, <2>3, <2>5, ApplyAssumption, SMTT(40) DEF Crash, RecoverFromDb, ProgressOK
    <2>7. GcOK'
      BY Zenon DEF Crash, GcRestart, GcOK
    <2> QED BY <2>2, <2>4, <2>5, <2>6, <2>7, Zenon DEF IInv
  \* Writes reaching the disk preserve the invariant.
  <1>PersistIInv. ASSUME IInv, Persist PROVE IInv'
    <2> USE <1>PersistIInv
    <2>1. disk' = db /\ UNCHANGED <<smVars, gcVars>>
      BY Zenon DEF Persist
    <2>2. CacheOK' /\ BatchOK' /\ ProgressOK' /\ GcOK'
      BY <2>1, Parts, ZenonT(40)
      DEF CacheOK, BatchOK, ProgressOK, GcOK, GcTo, smVars, smMemory, smContext, smLoop, gcVars
    <2> QED BY <2>1, <2>2, Zenon DEF IInv, smVars
  <1> SUFFICES ASSUME IInv, [Next]_vars PROVE IInv'
    BY Zenon
  <1>1. CASE Commit /\ UNCHANGED others
    BY <1>1, <1>CommitIInv, Zenon
  <1>2. CASE ApplyStep /\ UNCHANGED others
    BY <1>2, <1>ReceiveIInv, <1>ReplyIInv, <1>ExecuteIInv, <1>FinishEntryIInv, <1>FlushIInv,
       Zenon DEF ApplyStep
  <1>3. CASE GcStep /\ UNCHANGED <<disk, crashes>>
    BY <1>3, <1>GcReadIInv, <1>GcWriteIInv, Zenon DEF GcStep
  <1>4. CASE Persist
    BY <1>4, <1>PersistIInv, Zenon
  <1>5. CASE ProcessCrash \/ MachineCrash
    <2>1. PICK d \in {db, disk} : Crash(d)
      BY <1>5, Zenon DEF ProcessCrash, MachineCrash
    <2> QED BY <2>1, <1>CrashIInv, Zenon
  <1>6. CASE UNCHANGED vars
    BY <1>6, Zenon
    DEF IInv, vars, smVars, smMemory, smContext, smLoop, gcVars, CacheOK, BatchOK, ProgressOK,
        GcOK, GcTo
  <1> QED BY <1>1, <1>2, <1>3, <1>4, <1>5, <1>6, Zenon DEF Next, ReplicaStep, others

\* The inductive invariant holds in every reachable state.
THEOREM Invariance == Spec => []IInv
  BY InitIInv, NextIInv, PTL DEF Spec

\* EventLogContiguous for every log, batch size and GC configuration: flushes,
\* truncations, crashes and replays never leave a gap in the sequence numbers.
THEOREM EventLogContiguousThm == Spec => []EventLogContiguous
  <1>1. IInv => EventLogContiguous
    BY Parts, Zenon DEF DbOK, CacheOK, EventLogContiguous
  <1> QED BY <1>1, Invariance, PTL

\* DedupMatchesEvents for every log, batch size and GC configuration: a command
\* whose event is retained is found by the duplicate check, and executed once.
THEOREM DedupMatchesEventsThm == Spec => []DedupMatchesEvents
  <1>1. IInv => DedupMatchesEvents
    BY Parts, Zenon DEF DbOK, CacheOK, DedupMatchesEvents
  <1> QED BY <1>1, Invariance, PTL

\* UnflushedBounded: what a crash of the process makes the apply loop replay is
\* bounded by the batch size and one batch_recv.
THEOREM UnflushedBoundedThm == Spec => []UnflushedBounded
  <1>1. IInv => UnflushedBounded
    <2> SUFFICES ASSUME IInv PROVE UnflushedBounded
      BY Zenon
    <2>1. /\ todo \in Nat /\ applied_index \in Nat /\ flushed_applied_index \in Nat
          /\ applied_index - flushed_applied_index + todo < BatchSize + RecvMax
      BY Parts, Zenon DEF ProgressOK
    <2> QED BY <2>1, ApplyAssumption DEF UnflushedBounded
  <1> QED BY <1>1, Invariance, PTL

\* RetainsRecentEvents: whatever the GC thread and the apply loop interleave, the
\* latest events survive every truncation.
THEOREM RetainsRecentEventsThm == Spec => []RetainsRecentEvents
  <1>1. IInv => RetainsRecentEvents
    BY Parts, Zenon DEF DbOK, RetainsRecentEvents
  <1> QED BY <1>1, Invariance, PTL

\* FlushIsWholeEntries: a flush never persists a part of a raft log entry.
THEOREM FlushIsWholeEntriesThm == Spec => []FlushIsWholeEntries
  <1>1. IInv => FlushIsWholeEntries
    <2> SUFFICES ASSUME IInv PROVE FlushIsWholeEntries
      BY Zenon
    <2>1. DbAppliedIndex(db) = flushed_applied_index
      BY Parts, Zenon DEF ProgressOK
    <2>2. ASSUME loop = "apply", todo = 0
          PROVE  /\ DbAppliedIndex(Write(db, wb)) = applied_index
                 /\ DbLastSeqNum(Write(db, wb)) = last_seq_num
      <3>1. offset = 0
        BY <2>2, Parts, Zenon DEF ProgressOK
      <3>2. CASE applied_index > flushed_applied_index
        BY <3>1, <3>2, FlushedTables, Zenon
      <3>3. CASE applied_index = flushed_applied_index
        <4>1. DOMAIN wb.put.hard = {} /\ last_seq_num = DbLastSeqNum(db) /\ wb.del.hard = {}
          BY <3>1, <3>3, Parts, Zenon DEF ProgressOK, BatchOK
        <4>2. Write(db, wb).hard = Overlay(Without(db.hard, wb.del.hard), wb.put.hard)
          BY WriteTables, Zenon DEF Tables
        <4>3. /\ DOMAIN Write(db, wb).hard = DOMAIN db.hard
              /\ \A k \in DOMAIN db.hard : Write(db, wb).hard[k] = db.hard[k]
          BY <4>1, <4>2, Zenon DEF Overlay, Without
        <4> QED BY <2>1, <3>3, <4>1, <4>3, Zenon DEF DbAppliedIndex, DbLastSeqNum, GetOr
      <3>4. applied_index \in Nat /\ flushed_applied_index \in Nat
            /\ flushed_applied_index <= applied_index
        BY Parts, Zenon DEF ProgressOK
      <3> QED BY <3>2, <3>3, <3>4, SMTT(40)
    <2> QED BY <2>1, <2>2, Zenon DEF FlushIsWholeEntries
  <1> QED BY <1>1, Invariance, PTL

-----------------------------------------------------------------------------
(* The inductive invariant of the replies.                                 *)

\* Where the replica is in the log, in memory, in the database and on the disk.
LogOK ==
    /\ log \in Seq(Seq(Command))
    /\ applied_index >= APPLIED_INDEX /\ applied_index + todo <= LastIndex
    /\ \A d \in {db, disk} : DbAppliedIndex(d) \in APPLIED_INDEX..LastIndex
    /\ todo > 0 => offset <= Len(CurrentEntry)

\* Every event is under its own seq_num.
AllEvents(event) == \A n \in DOMAIN event : IsEvent(event[n]) /\ event[n].seq_num = n

EventsOK == AllEvents(event_cache) /\ AllEvents(db.event) /\ AllEvents(disk.event)

\* The seq_num that the duplicate check has read is one that was given to the id
\* of the command, whether or not its event is still there.
DupOK ==
    /\ dup \in Nat /\ dup <= last_seq_num
    /\ dup # 0 => Handling
    /\ dup # 0 /\ HasEvent(dup) => get_event(dup).command_id = CurrentCommand.command_id

\* A reply that the RPC of the command understands.
Fits(reply, c) ==
    IF IsEvent(reply) THEN reply.command_id = c.command_id /\ reply.kind = c.kind
                      ELSE reply = Failure(reply.err)

\* The positions of the log's commands.
IsPosition(p) == \E i \in DOMAIN log : \E k \in 0..Len(log[i])-1 : p = <<APPLIED_INDEX + i, k>>

SentOK == \A p \in DOMAIN sent : IsPosition(p) /\ Fits(sent[p], CommandAt(p))

SInv == LogOK /\ EventsOK /\ DupOK /\ SentOK

\* Tables of events, one written over the other, hold events.
LEMMA OverlaidEvents ==
    ASSUME NEW f, NEW g, AllEvents(f), AllEvents(g)
    PROVE  AllEvents(Overlay(f, g))
<1> DEFINE h == Overlay(f, g)
<1>1. /\ DOMAIN h = DOMAIN f \cup DOMAIN g
      /\ \A n \in DOMAIN h : h[n] = IF n \in DOMAIN g THEN g[n] ELSE f[n]
  BY Zenon DEF Overlay
<1> HIDE DEF h
<1>2. AllEvents(h)
  BY <1>1, Zenon DEF AllEvents
<1> QED BY <1>2 DEF h

-----------------------------------------------------------------------------
(* Where the apply loop is.                                                *)

\* The command that the apply loop is at.
LEMMA Current ==
    ASSUME IInv, LogOK, todo > 0
    PROVE  /\ applied_index + 1 - APPLIED_INDEX \in DOMAIN log
           /\ CurrentEntry \in Seq(Command) /\ Len(CurrentEntry) \in Nat
           /\ offset \in Nat /\ offset <= Len(CurrentEntry)
           /\ offset < Len(CurrentEntry) =>
                /\ CurrentCommand \in Command
                /\ IsPosition(Position) /\ CommandAt(Position) = CurrentCommand
  <1>1. /\ applied_index \in Nat /\ todo \in Nat /\ offset \in Nat /\ Len(log) \in Nat
        /\ offset <= Len(CurrentEntry) /\ applied_index >= APPLIED_INDEX
        /\ applied_index + todo <= APPLIED_INDEX + Len(log)
    BY SMTT(40) DEF IInv, ProgressOK, LogOK, LastIndex
  <1>2. applied_index + 1 - APPLIED_INDEX \in 1..Len(log)
    BY <1>1, SMTT(40)
  <1>3. applied_index + 1 - APPLIED_INDEX \in DOMAIN log
    BY <1>2, SMTT(40) DEF LogOK
  <1>4. CurrentEntry \in Seq(Command) /\ Len(CurrentEntry) \in Nat
    BY <1>3, SMTT(40) DEF LogOK, CurrentEntry
  <1>5. ASSUME offset < Len(CurrentEntry)
        PROVE  /\ CurrentCommand \in Command
               /\ IsPosition(Position) /\ CommandAt(Position) = CurrentCommand
    <2>1. CurrentCommand \in Command
      BY <1>1, <1>4, <1>5, SMTT(40) DEF CurrentCommand
    <2>2. IsPosition(Position)
      <3> DEFINE i == applied_index + 1 - APPLIED_INDEX
      <3>1. i \in DOMAIN log /\ offset \in 0..Len(log[i])-1
        BY <1>1, <1>3, <1>4, <1>5, SMTT(40) DEF CurrentEntry
      <3>2. Position = <<APPLIED_INDEX + i, offset>>
        BY <1>1, SMTT(40) DEF Position
      <3> HIDE DEF i
      <3> QED BY <3>1, <3>2, Zenon DEF IsPosition
    <2>3. CommandAt(Position) = CurrentCommand
      <3>1. Position[1] = applied_index + 1 /\ Position[2] = offset
        BY Zenon DEF Position
      <3>2. CommandAt(Position) = log[Position[1] - APPLIED_INDEX][Position[2] + 1]
        BY Zenon DEF CommandAt
      <3>3. CurrentCommand = log[applied_index + 1 - APPLIED_INDEX][offset + 1]
        BY Zenon DEF CurrentCommand, CurrentEntry
      <3>4. Position[1] - APPLIED_INDEX = applied_index + 1 - APPLIED_INDEX
        BY <1>1, <3>1
      <3> QED BY <3>1, <3>2, <3>3, <3>4, Zenon
    <2> QED BY <2>1, <2>2, <2>3, Zenon
  <1> QED BY <1>1, <1>3, <1>4, <1>5, Zenon

-----------------------------------------------------------------------------
(* Every step preserves the invariant of the replies.                      *)

\* A replica that starts on an empty database has received and sent nothing.
LEMMA InitSInv == Init => SInv
  <1> SUFFICES ASSUME Init PROVE SInv
    BY Zenon
  <1>1. DOMAIN EmptyTable = {}
    BY Zenon DEF EmptyTable
  <1>2. EmptyDB.hard = EmptyTable /\ EmptyDB.event = EmptyTable
    BY Zenon DEF EmptyDB, Tables
  <1>3. DbAppliedIndex(EmptyDB) = APPLIED_INDEX
    BY <1>1, <1>2, Zenon DEF DbAppliedIndex, GetOr
  <1>4. LogOK
    BY <1>3, SMTT(40) DEF Init, SMInit, LogOK, LastIndex
  <1>5. EventsOK
    BY <1>1, <1>2, Zenon DEF Init, SMInit, EventsOK, AllEvents
  <1>6. DupOK
    BY DEF Init, SMInit, DupOK
  <1>7. SentOK
    BY <1>1, Zenon DEF Init, SMInit, SentOK
  <1> QED BY <1>4, <1>5, <1>6, <1>7, Zenon DEF SInv

\* Every step of the replica, and every commit, preserves the invariant.
LEMMA NextSInv == IInv /\ IInv' /\ SInv /\ [Next]_vars => SInv'
  \* A new entry leaves the entries of the log where they are.
  <1>LogGrows. ASSUME NEW e, log \in Seq(Seq(Command)), log' = Append(log, e)
               PROVE  /\ Len(log') = Len(log) + 1 /\ Len(log) \in Nat
                      /\ \A i \in DOMAIN log : i \in DOMAIN log' /\ log'[i] = log[i]
    BY <1>LogGrows, SMTT(40)
  \* Events and replies stay when nothing is written to them.
  <1>KeepsReplies. ASSUME SInv, UNCHANGED <<log, sent>>
                   PROVE  /\ SentOK'
                          /\ UNCHANGED <<db, disk, event_cache>> => EventsOK'
    BY <1>KeepsReplies, Zenon DEF SInv, SentOK, IsPosition, CommandAt, EventsOK
  \* A new entry at the end of the log moves no command and no reply.
  <1>CommitSInv. ASSUME IInv, SInv, Commit, UNCHANGED others PROVE SInv'
    <2> USE <1>CommitSInv
    <2>1. PICK e \in Entries(LastIndex + 1) : log' = Append(log, e)
      BY Zenon DEF Commit
    <2>2. /\ LastIndex < MaxIndex
          /\ UNCHANGED <<db, disk, applied_index, last_seq_num, event_cache, loop, todo, offset,
                         dup, sent>>
      BY Zenon DEF Commit, smMemory, smLoop, others
    <2>3. log \in Seq(Seq(Command)) /\ Len(log) \in Nat /\ applied_index \in Nat /\ todo \in Nat
      BY DEF SInv, LogOK, IInv, ProgressOK
    <2>4. e \in Seq(Command)
      <3>1. LastIndex + 1 \in APPLIED_INDEX+1..MaxIndex
        BY <2>2, <2>3, ApplyAssumption DEF LastIndex
      <3> QED BY <3>1, EntriesAssumption, Zenon
    <2>5. /\ log' \in Seq(Seq(Command)) /\ Len(log') = Len(log) + 1
          /\ \A i \in DOMAIN log : i \in DOMAIN log' /\ log'[i] = log[i]
      <3>1. log' \in Seq(Seq(Command))
        BY <2>1, <2>3, <2>4, SMTT(40)
      <3> QED BY <2>1, <2>3, <3>1, <1>LogGrows, Zenon
    <2>6. todo > 0 => CurrentEntry' = CurrentEntry /\ Len(CurrentEntry) \in Nat
      BY <2>2, <2>5, Current, Zenon DEF SInv, CurrentEntry
    <2>7. LogOK'
      <3>1. applied_index >= APPLIED_INDEX /\ applied_index + todo <= LastIndex'
        BY <2>3, <2>5 DEF SInv, LogOK, LastIndex
      <3>2. \A d \in {db, disk} : DbAppliedIndex(d) \in APPLIED_INDEX..LastIndex'
        BY <2>3, <2>5 DEF SInv, LogOK, LastIndex
      <3>3. todo > 0 => offset <= Len(CurrentEntry)'
        BY <2>6, Zenon DEF SInv, LogOK
      <3> QED BY <2>2, <2>5, <3>1, <3>2, <3>3, Zenon DEF LogOK
    <2>8. EventsOK'
      BY <2>2, Zenon DEF SInv, EventsOK
    <2>9. DupOK'
      <3>1. dup # 0 => CurrentEntry' = CurrentEntry
        BY <2>6, Zenon DEF SInv, DupOK, Handling
      <3> QED BY <2>2, <3>1, Zenon DEF SInv, DupOK, Handling, HasEvent, get_event, CurrentCommand
    <2>10. SentOK'
      <3> SUFFICES ASSUME NEW p \in DOMAIN sent
                   PROVE  IsPosition(p)' /\ Fits(sent[p], CommandAt(p))'
        BY <2>2, Zenon DEF SentOK
      <3>1. PICK i \in DOMAIN log : \E k \in 0..Len(log[i])-1 : p = <<APPLIED_INDEX + i, k>>
        BY Zenon DEF SInv, SentOK, IsPosition
      <3>2. PICK k \in 0..Len(log[i])-1 : p = <<APPLIED_INDEX + i, k>>
        BY <3>1, Zenon
      <3>3. IsPosition(p)'
        BY <2>5, <3>2, Zenon DEF IsPosition
      <3>4. i \in Int /\ p[1] - APPLIED_INDEX = i
        BY <2>3, <3>2, SMTT(40)
      <3>5. CommandAt(p)' = CommandAt(p)
        BY <2>5, <3>4, Zenon DEF CommandAt
      <3> QED BY <2>2, <3>3, <3>5, Zenon DEF SInv, SentOK, Fits
    <2> QED BY <2>7, <2>8, <2>9, <2>10, Zenon DEF SInv
  \* batch_recv and a maybe_flush that does nothing.
  <1>ReceiveSInv. ASSUME IInv, SInv, BatchRecv \/ SkipFlush, UNCHANGED others PROVE SInv'
    <2> USE <1>ReceiveSInv
    <2>1. /\ UNCHANGED <<log, db, disk, applied_index, last_seq_num, event_cache, offset, dup, sent>>
          /\ todo = 0 /\ offset = 0
      BY Zenon DEF BatchRecv, SkipFlush, smMemory, others, IInv, ProgressOK
    <2>2. applied_index \in Nat /\ Len(log) \in Nat /\ log \in Seq(Seq(Command))
          /\ applied_index >= APPLIED_INDEX
      BY DEF SInv, LogOK, IInv, ProgressOK
    <2>3. todo' \in Nat /\ applied_index + todo' <= LastIndex
      BY <2>1, <2>2, ApplyAssumption, SMTT(40) DEF BatchRecv, SkipFlush, LastIndex, SInv, LogOK
    <2>4. todo' > 0 => Len(CurrentEntry) \in Nat
      <3>1. todo' > 0 => applied_index + 1 - APPLIED_INDEX \in 1..Len(log)
        BY <2>2, <2>3 DEF LastIndex
      <3> QED BY <2>2, <3>1 DEF CurrentEntry
    <2>5. LogOK'
      <3>1. CurrentEntry' = CurrentEntry /\ LastIndex' = LastIndex
        BY <2>1, Zenon DEF CurrentEntry, LastIndex
      <3> QED BY <2>1, <2>2, <2>3, <2>4, <3>1, SMTT(40) DEF SInv, LogOK
    <2>6. dup = 0 /\ DupOK'
      <3>1. dup = 0
        BY <2>1 DEF SInv, DupOK, Handling
      <3> QED BY <2>1, <3>1, Zenon DEF SInv, DupOK
    <2> QED BY <2>1, <2>5, <2>6, <1>KeepsReplies, Zenon DEF SInv
  \* The duplicate check finds an event of the id, and not a later one than the last.
  <1>FoundDuplicate. ASSUME IInv, NEW id, get_seq_num(id) # 0
                     PROVE  /\ get_seq_num(id) \in 1..last_seq_num
                            /\ HasEvent(get_seq_num(id)) /\ get_event(get_seq_num(id)).command_id = id
    <2> USE <1>FoundDuplicate
    <2>1. /\ DOMAIN event_cache = DbLastSeqNum(db)+1..last_seq_num
          /\ DOMAIN db.event = FirstRetained(db)..DbLastSeqNum(db)
          /\ DbLastSeqNum(db) \in Nat /\ FirstRetained(db) \in Nat \ {0}
          /\ last_seq_num \in Nat /\ DbLastSeqNum(db) <= last_seq_num
      BY Ends, Zenon
    <2>2. CASE id \in DOMAIN seq_num_cache
      <3>1. get_seq_num(id) = seq_num_cache[id]
        BY <2>2, Zenon DEF get_seq_num, GetOr
      <3>2. /\ seq_num_cache[id] \in DOMAIN event_cache
            /\ event_cache[seq_num_cache[id]].command_id = id
        BY <2>2, Zenon DEF IInv, CacheOK, Inverse2
      <3>3. seq_num_cache[id] \in 1..last_seq_num
        BY <2>1, <3>2, SMTT(40)
      <3> QED BY <3>1, <3>2, <3>3, Zenon DEF HasEvent, get_event, GetOr
    <2>3. CASE id \notin DOMAIN seq_num_cache
      <3>1. id \in DOMAIN db.dedup /\ get_seq_num(id) = db.dedup[id]
        BY <2>3, Zenon DEF get_seq_num, GetOr
      <3>2. db.dedup[id] \in DOMAIN db.event /\ db.event[db.dedup[id]].command_id = id
        BY <3>1, Zenon DEF IInv, DbOK, Inverse2
      <3>3. db.dedup[id] \in 1..last_seq_num /\ db.dedup[id] \notin DOMAIN event_cache
        BY <2>1, <3>2, SMTT(40)
      <3> QED BY <3>1, <3>2, <3>3, Zenon DEF HasEvent, get_event, GetOr
    <2> QED BY <2>2, <2>3, Zenon
  \* The duplicate check looks up the seq_num of the command's id.
  <1>FindDuplicateSInv. ASSUME IInv, SInv, FindDuplicate, UNCHANGED others PROVE SInv'
    <2> USE <1>FindDuplicateSInv
    <2>1. /\ UNCHANGED <<log, db, disk, applied_index, last_seq_num, event_cache, loop, todo,
                         offset, sent>>
          /\ Handling /\ dup' = get_seq_num(CurrentCommand.command_id)
          /\ get_seq_num(CurrentCommand.command_id) # 0
      BY Zenon DEF FindDuplicate, smMemory, others
    <2>2. LogOK'
      BY <2>1, Zenon DEF SInv, LogOK, LastIndex, CurrentEntry
    <2>3. DupOK'
      <3>1. /\ dup' \in 1..last_seq_num /\ HasEvent(dup')
            /\ get_event(dup').command_id = CurrentCommand.command_id
        BY <2>1, <1>FoundDuplicate, ZenonT(40)
      <3>2. dup' \in Nat /\ dup' <= last_seq_num
        BY <3>1, SMTT(40) DEF IInv, CacheOK
      <3>3. Handling' /\ CurrentCommand' = CurrentCommand
        BY <2>1, Zenon DEF Handling, CurrentCommand, CurrentEntry
      <3>4. get_event(dup)' = get_event(dup')
        BY <2>1, Zenon DEF get_event
      <3> QED BY <2>1, <3>1, <3>2, <3>3, <3>4, ZenonT(40) DEF DupOK
    <2> QED BY <2>1, <2>2, <2>3, <1>KeepsReplies, Zenon DEF SInv
  \* The replies that the positions have now.
  <1>SentReply. ASSUME SentOK, NEW reply, sent' = Overlay(sent, Single(Position, reply)), UNCHANGED log,
                       IsPosition(Position), Fits(reply, CommandAt(Position))
                PROVE  SentOK'
    <2> USE <1>SentReply
    <2>1. /\ DOMAIN sent' = DOMAIN sent \cup {Position} /\ sent'[Position] = reply
          /\ \A p \in DOMAIN sent \ {Position} : sent'[p] = sent[p]
      BY Zenon DEF Overlay, Single
    <2>2. \A p : IsPosition(p)' <=> IsPosition(p)
      BY Zenon DEF IsPosition
    <2>3. \A p : CommandAt(p)' = CommandAt(p)
      BY Zenon DEF CommandAt
    <2>4. ASSUME NEW p \in DOMAIN sent' PROVE IsPosition(p)' /\ Fits(sent'[p], CommandAt(p)')
      <3>1. CASE p = Position
        BY <2>1, <2>2, <2>3, <3>1, Zenon
      <3>2. CASE p # Position
        BY <2>1, <2>2, <2>3, <3>2, Zenon DEF SentOK
      <3> QED BY <3>1, <3>2, Zenon
    <2> QED BY <2>4, Zenon DEF SentOK, Fits
  \* Errors and events of the command's id and type fit the command.
  <1>FittingReplies. ASSUME NEW c
                     PROVE  /\ \A err : Fits(Failure(err), c)
                            /\ \A e : IsEvent(e) /\ e.command_id = c.command_id => Fits(DuplicateReply(c, e), c)
                            /\ \A n, p, payload : LET e == Event(c, n, p, payload)
                                                  IN IsEvent(e) /\ e.seq_num = n /\ e.command_id = c.command_id
                                                     /\ Fits(e, c)
    <2> USE <1>FittingReplies
    <2>1. \A err : ~IsEvent(Failure(err)) /\ Failure(err) = Failure(Failure(err).err)
      BY Zenon DEF IsEvent, Failure
    <2>2. \A err : Fits(Failure(err), c)
      BY <2>1, Zenon DEF Fits
    <2>3. \A e : IsEvent(e) /\ e.command_id = c.command_id => Fits(DuplicateReply(c, e), c)
      BY <2>2, Zenon DEF DuplicateReply, Fits
    <2>4. \A n, p, payload : LET e == Event(c, n, p, payload)
                             IN /\ IsEvent(e) /\ e.seq_num = n
                                /\ e.command_id = c.command_id /\ e.kind = c.kind
      BY Zenon DEF IsEvent, Event
    <2>5. \A n, p, payload : Fits(Event(c, n, p, payload), c)
      BY <2>4, Zenon DEF Fits
    <2> QED BY <2>2, <2>3, <2>4, <2>5, Zenon
  \* The replies to duplicates and to failing commands.
  <1>ReplySInv. ASSUME IInv, SInv, HandleDuplicate \/ RejectCommand, UNCHANGED others PROVE SInv'
    <2> USE <1>ReplySInv
    <2>1. /\ UNCHANGED <<log, db, disk, applied_index, last_seq_num, event_cache, todo>>
          /\ Handling /\ todo > 0 /\ offset < Len(CurrentEntry) /\ dup' = 0
      BY Zenon DEF HandleDuplicate, RejectCommand, Handling, smMemory, others
    <2>2. /\ IsPosition(Position) /\ CommandAt(Position) = CurrentCommand
          /\ offset \in Nat /\ Len(CurrentEntry) \in Nat
      BY <2>1, Current, Zenon DEF SInv
    <2>3. offset' \in {offset, offset + 1} /\ (UNCHANGED sent \/
            \E reply : /\ sent' = Overlay(sent, Single(Position, reply))
                       /\ Fits(reply, CurrentCommand))
      <3>1. CASE RejectCommand
        BY <3>1, <1>FittingReplies, Zenon DEF RejectCommand, SendEvent
      <3>2. CASE HandleDuplicate /\ HasEvent(dup)
        <4>1. get_event(dup).command_id = CurrentCommand.command_id
          BY <3>2, Zenon DEF SInv, DupOK, HandleDuplicate
        <4>2. IsEvent(get_event(dup))
          BY <3>2, Zenon DEF SInv, EventsOK, AllEvents, HasEvent, get_event, GetOr
        <4>3. Fits(DuplicateReply(CurrentCommand, get_event(dup)), CurrentCommand)
          BY <4>1, <4>2, <1>FittingReplies, Zenon
        <4> QED BY <3>2, <4>3, Zenon DEF HandleDuplicate, SendEvent
      <3>3. CASE HandleDuplicate /\ ~HasEvent(dup)
        BY <3>3, Zenon DEF HandleDuplicate
      <3> QED BY <3>1, <3>2, <3>3, Zenon
    <2>4. SentOK'
      BY <2>1, <2>2, <2>3, <1>KeepsReplies, <1>SentReply, Zenon DEF SInv
    <2>5. LogOK'
      <3>1. CurrentEntry' = CurrentEntry /\ LastIndex' = LastIndex
        BY <2>1, Zenon DEF CurrentEntry, LastIndex
      <3>2. offset' <= Len(CurrentEntry)
        BY <2>1, <2>2, <2>3
      <3> QED BY <2>1, <3>1, <3>2, Zenon DEF SInv, LogOK
    <2>6. DupOK'
      BY <2>1, SMTT(40) DEF DupOK, IInv, CacheOK
    <2>7. EventsOK'
      BY <2>1, Zenon DEF SInv, EventsOK
    <2> QED BY <2>4, <2>5, <2>6, <2>7, Zenon DEF SInv
  \* A successful command: its event is cached and sent.
  <1>ExecuteSInv. ASSUME IInv, SInv, ExecuteCommand, UNCHANGED others PROVE SInv'
    <2> USE <1>ExecuteSInv
    <2> DEFINE event == Event(CurrentCommand, last_seq_num + 1, Position,
                              Handle(accounts, CurrentCommand).payload)
    <2>1. /\ UNCHANGED <<log, db, disk, applied_index, todo, dup>>
          /\ Handling /\ todo > 0 /\ offset < Len(CurrentEntry) /\ dup = 0
          /\ offset' = offset + 1 /\ last_seq_num' = last_seq_num + 1
          /\ event_cache' = Overlay(event_cache, Single(last_seq_num + 1, event))
          /\ sent' = Overlay(sent, Single(Position, event))
      BY Zenon DEF ExecuteCommand, Handling, SendEvent, others
    <2>2. /\ IsPosition(Position) /\ CommandAt(Position) = CurrentCommand
          /\ offset \in Nat /\ Len(CurrentEntry) \in Nat
      BY <2>1, Current, Zenon DEF SInv
    <2>3. IsEvent(event) /\ Fits(event, CurrentCommand)
      BY <1>FittingReplies, Zenon
    <2>3a. event.seq_num = last_seq_num + 1
      BY Zenon DEF Event
    <2> HIDE DEF event
    <2>4. SentOK'
      BY <2>1, <2>2, <2>3, <1>SentReply, Zenon DEF SInv
    <2>5. LogOK'
      <3>1. CurrentEntry' = CurrentEntry /\ LastIndex' = LastIndex
        BY <2>1, Zenon DEF CurrentEntry, LastIndex
      <3>2. offset' <= Len(CurrentEntry)
        BY <2>1, <2>2
      <3> QED BY <2>1, <3>1, <3>2, Zenon DEF SInv, LogOK
    <2>6. DupOK'
      BY <2>1, SMTT(40) DEF DupOK, IInv, CacheOK
    <2>7. EventsOK'
      <3>1. AllEvents(event_cache')
        <4>1. AllEvents(Single(last_seq_num + 1, event))
          BY <2>3, <2>3a, Zenon DEF AllEvents, Single
        <4>2. AllEvents(event_cache)
          BY Zenon DEF SInv, EventsOK
        <4> QED BY <2>1, <4>1, <4>2, OverlaidEvents, Zenon
      <3> QED BY <2>1, <3>1, Zenon DEF SInv, EventsOK
    <2> QED BY <2>4, <2>5, <2>6, <2>7, Zenon DEF SInv
  \* The apply loop moves on to the next entry.
  <1>FinishEntrySInv. ASSUME IInv, SInv, FinishEntry, UNCHANGED others PROVE SInv'
    <2> USE <1>FinishEntrySInv
    <2>1. /\ UNCHANGED <<log, db, disk, last_seq_num, event_cache, dup, sent>>
          /\ applied_index' = applied_index + 1 /\ todo' = todo - 1 /\ offset' = 0
          /\ todo > 0 /\ ~Handling
      BY DEF FinishEntry, Handling, others
    <2>2. applied_index \in Nat /\ todo \in Nat /\ Len(log) \in Nat /\ log \in Seq(Seq(Command))
          /\ applied_index >= APPLIED_INDEX /\ applied_index + todo <= LastIndex
      BY DEF SInv, LogOK, IInv, ProgressOK
    <2>3. todo' > 0 => Len(CurrentEntry') \in Nat
      <3>1. todo' > 0 => applied_index' + 1 - APPLIED_INDEX \in 1..Len(log)
        BY <2>1, <2>2 DEF LastIndex
      <3> QED BY <2>1, <2>2, <3>1 DEF CurrentEntry
    <2>4. LogOK'
      <3>1. LastIndex' = LastIndex
        BY <2>1, Zenon DEF LastIndex
      <3>2. applied_index' >= APPLIED_INDEX /\ applied_index' + todo' <= LastIndex
        BY <2>1, <2>2 DEF LastIndex
      <3> QED BY <2>1, <2>3, <3>1, <3>2, SMTT(40) DEF SInv, LogOK
    <2>5. DupOK'
      BY <2>1, Zenon DEF SInv, DupOK, IInv, CacheOK
    <2> QED BY <2>1, <2>4, <2>5, <1>KeepsReplies, Zenon DEF SInv
  \* The flush moves the cached events to the database.
  <1>FlushSInv. ASSUME IInv, IInv', SInv, Flush, UNCHANGED others PROVE SInv'
    <2> USE <1>FlushSInv
    <2>1. /\ UNCHANGED <<log, disk, applied_index, last_seq_num, todo, offset, dup, sent>>
          /\ db' = Write(db, wb) /\ event_cache' = EmptyTable /\ todo = 0
          /\ flushed_applied_index' = applied_index
      BY Zenon DEF Flush, others
    <2>2. applied_index > flushed_applied_index /\ offset = 0
      BY FlushIsDue, Zenon
    <2>3. db'.event = Overlay(db.event, event_cache) /\ DbAppliedIndex(db') = applied_index
      BY <2>1, <2>2, FlushedTables, ZenonT(40)
    <2>4. LogOK'
      <3>1. applied_index \in APPLIED_INDEX..LastIndex
        BY <2>1, Parts DEF SInv, LogOK, LastIndex, ProgressOK
      <3>2. LastIndex' = LastIndex
        BY <2>1, Zenon DEF LastIndex
      <3> QED BY <2>1, <2>3, <3>1, <3>2, SMTT(40) DEF SInv, LogOK
    <2>5. DupOK'
      <3>1. dup = 0
        BY <2>1 DEF SInv, DupOK, Handling
      <3> QED BY <2>1, <3>1, Zenon DEF SInv, DupOK
    <2>6. EventsOK'
      <3>0. AllEvents(db.event) /\ AllEvents(event_cache)
        BY Zenon DEF SInv, EventsOK
      <3>1. AllEvents(db'.event)
        BY <2>3, <3>0, OverlaidEvents, Zenon
      <3>2. AllEvents(event_cache')
        BY <2>1, Zenon DEF AllEvents, EmptyTable
      <3> QED BY <2>1, <3>1, <3>2, Zenon DEF SInv, EventsOK
    <2> QED BY <2>1, <2>4, <2>5, <2>6, <1>KeepsReplies, Zenon DEF SInv
  \* The GC thread removes events; one that the duplicate check still finds is the same.
  <1>GcSInv. ASSUME IInv, SInv, GcStep, UNCHANGED <<disk, crashes>> PROVE SInv'
    <2> USE <1>GcSInv
    <2>1. UNCHANGED <<log, disk, applied_index, last_seq_num, event_cache, loop, todo, offset,
                      dup, sent>>
      BY Zenon DEF GcStep, GcReadFirst, ShouldGc, GcScan, GcWrite, smVars, smMemory, smLoop
    <2>2. /\ DbAppliedIndex(db') = DbAppliedIndex(db)
          /\ DOMAIN db'.event \subseteq DOMAIN db.event
          /\ \A n \in DOMAIN db'.event : db'.event[n] = db.event[n]
      <3>1. CASE GcWrite
        <4>1. /\ db'.event = Without(db.event, DOMAIN gc_ids)
              /\ DbAppliedIndex(db') = DbAppliedIndex(db)
          BY <3>1, GcWritten, ZenonT(40)
        <4> QED BY <4>1, Zenon DEF Without
      <3>2. CASE ~GcWrite
        BY <3>2, Zenon DEF GcStep, GcReadFirst, ShouldGc, GcScan, smVars
      <3> QED BY <3>1, <3>2, Zenon
    <2>3. LogOK'
      BY <2>1, <2>2, Zenon DEF SInv, LogOK, LastIndex, CurrentEntry
    <2>4. EventsOK'
      BY <2>1, <2>2, Zenon DEF SInv, EventsOK, AllEvents
    <2>5. DupOK'
      <3>1. HasEvent(dup)' => HasEvent(dup) /\ get_event(dup)' = get_event(dup)
        BY <2>1, <2>2, Zenon DEF HasEvent, get_event, GetOr
      <3>2. Handling' = Handling /\ CurrentCommand' = CurrentCommand
        BY <2>1, Zenon DEF Handling, CurrentCommand, CurrentEntry
      <3> QED BY <2>1, <3>1, <3>2, ZenonT(40) DEF SInv, DupOK
    <2> QED BY <2>1, <2>3, <2>4, <2>5, <1>KeepsReplies, Zenon DEF SInv
  \* Writes that reach the disk, and either crash.
  <1>CrashSInv. ASSUME IInv, SInv, Persist \/ ProcessCrash \/ MachineCrash PROVE SInv'
    <2> USE <1>CrashSInv
    <2>1. CASE Persist
      <3>1. UNCHANGED smVars /\ disk' = db
        BY <2>1, Zenon DEF Persist
      <3>2. UNCHANGED <<log, db, applied_index, last_seq_num, event_cache, loop, todo, offset,
                        dup, sent>>
        BY <3>1, Zenon DEF smVars, smMemory, smLoop
      <3>3. LogOK' /\ EventsOK'
        BY <3>1, <3>2, Zenon DEF SInv, LogOK, EventsOK, LastIndex, CurrentEntry
      <3>4. DupOK'
        BY <3>2, Zenon DEF SInv, DupOK, Handling, HasEvent, get_event, CurrentCommand,
           CurrentEntry
      <3> QED BY <3>2, <3>3, <3>4, <1>KeepsReplies, Zenon DEF SInv
    <2>2. CASE ProcessCrash \/ MachineCrash
      <3>1. PICK d \in {db, disk} : Crash(d)
        BY <2>2, Zenon DEF ProcessCrash, MachineCrash
      <3>2. /\ UNCHANGED <<log, sent, disk>> /\ db' = d
            /\ applied_index' = DbAppliedIndex(d) /\ last_seq_num' = DbLastSeqNum(d)
            /\ event_cache' = EmptyTable /\ todo' = 0 /\ dup' = 0
        BY <3>1, Zenon DEF Crash, RecoverFromDb
      <3>3. LogOK'
        <4>1. DbAppliedIndex(d) \in APPLIED_INDEX..LastIndex /\ LastIndex' = LastIndex
          BY <3>2, Zenon DEF SInv, LogOK, LastIndex
        <4>2. applied_index' >= APPLIED_INDEX /\ applied_index' + todo' <= LastIndex
          BY <3>2, <4>1
        <4> QED BY <3>1, <3>2, <4>1, <4>2, SMTT(40) DEF SInv, LogOK
      <3>4. EventsOK'
        BY <3>1, <3>2, Zenon DEF SInv, EventsOK, AllEvents, EmptyTable
      <3>5. DupOK'
        <4>1. DbLastSeqNum(d) \in Nat
          BY <3>1, HardStates, Zenon DEF IInv
        <4> QED BY <3>2, <4>1 DEF DupOK
      <3> QED BY <3>2, <3>3, <3>4, <3>5, <1>KeepsReplies, Zenon DEF SInv
    <2> QED BY <2>1, <2>2, Zenon
  <1> SUFFICES ASSUME IInv, IInv', SInv, [Next]_vars PROVE SInv'
    BY Zenon
  <1>1. CASE Commit /\ UNCHANGED others
    BY <1>1, <1>CommitSInv, Zenon
  <1>2. CASE ApplyStep /\ UNCHANGED others
    BY <1>2, <1>ReceiveSInv, <1>FindDuplicateSInv, <1>ReplySInv, <1>ExecuteSInv,
       <1>FinishEntrySInv, <1>FlushSInv,
       ZenonT(40)
    DEF ApplyStep
  <1>3. CASE GcStep /\ UNCHANGED <<disk, crashes>>
    BY <1>3, <1>GcSInv, Zenon
  <1>4. CASE Persist \/ ProcessCrash \/ MachineCrash
    BY <1>4, <1>CrashSInv, Zenon
  <1>5. CASE UNCHANGED vars
    BY <1>5, Zenon
    DEF vars, smVars, smMemory, smLoop, SInv, LogOK, LastIndex, CurrentEntry, EventsOK,
        AllEvents, DupOK, Handling, HasEvent, get_event, CurrentCommand, SentOK, IsPosition,
        CommandAt
  <1> QED BY <1>1, <1>2, <1>3, <1>4, <1>5, ZenonT(40) DEF Next, ReplicaStep, others

\* The invariants of the event log and of the replies hold in every reachable state.
LEMMA ReplyInvariance == Spec => [](IInv /\ SInv)
  BY InitSInv, NextSInv, Invariance, PTL DEF Spec

-----------------------------------------------------------------------------
(* What the clients see.                                                   *)

\* ResponsesMatchCommands for every log, GC configuration and sequence of crashes:
\* whatever attempt the reply comes from, the RPC that waits at the position neither
\* ends the process nor answers with an empty response.
THEOREM ResponsesMatch == Spec => []ResponsesMatchCommands
  \* Every command has one of the nine types.
  <1>CommandKinds. ASSUME NEW c \in Command
                   PROVE  c.kind \in {"Transfer", "Batch", "Reserve", "Release", "Create", "Config",
                                      "Lock", "Unlock", "Delete"}
    BY <1>CommandKinds, Zenon DEF Command
  \* The response to a reply that fits the command is that reply.
  <1>FittingResponse. ASSUME NEW c \in Command, NEW reply, Fits(reply, c)
                      PROVE  Respond(c, reply) = reply
    <2> USE <1>FittingResponse
    <2>1. Response(c.kind, c, reply) = reply
      BY Zenon DEF Response, wait_for_response, Fits
    <2> QED BY <2>1, <1>CommandKinds, Zenon
            DEF Respond, create_account, lock_account, unlock_account, delete_account,
                update_account_config, reserve_rpc, release_rpc, batch_balance_operation, transfer
  <1>1. SInv => ResponsesMatchCommands
    <2> SUFFICES ASSUME SInv, NEW p \in DOMAIN sent
                 PROVE  Respond(CommandAt(p), sent[p]) \notin {ProcessExit, DefaultResponse}
      BY Zenon DEF ResponsesMatchCommands
    <2>1. PICK i \in DOMAIN log : \E k \in 0..Len(log[i])-1 : p = <<APPLIED_INDEX + i, k>>
      BY Zenon DEF SInv, SentOK, IsPosition
    <2>2. PICK k \in 0..Len(log[i])-1 : p = <<APPLIED_INDEX + i, k>>
      BY <2>1, Zenon
    <2>3. CommandAt(p) \in Command
      <3>1. log[i] \in Seq(Command) /\ k + 1 \in 1..Len(log[i]) /\ i \in Int
        BY <2>2 DEF SInv, LogOK
      <3>2. p[1] - APPLIED_INDEX = i /\ p[2] + 1 = k + 1
        BY <2>2, <3>1
      <3>3. CommandAt(p) = log[i][k + 1]
        BY <3>2, Zenon DEF CommandAt
      <3> QED BY <3>1, <3>3
    <2>4. Fits(sent[p], CommandAt(p))
      BY Zenon DEF SInv, SentOK
    <2>5. Respond(CommandAt(p), sent[p]) = sent[p]
      BY <2>3, <2>4, <1>FittingResponse, Zenon
    <2>6. ASSUME NEW r, Fits(r, CommandAt(p)) PROVE r \notin {ProcessExit, DefaultResponse}
      <3>1. ~IsEvent(ProcessExit) /\ ~IsEvent(DefaultResponse)
        BY Zenon DEF IsEvent, ProcessExit, DefaultResponse
      <3>2. \A e : Failure(e) # ProcessExit /\ Failure(e) # DefaultResponse
        BY Zenon DEF Failure, ProcessExit, DefaultResponse
      <3> QED BY <2>6, <3>1, <3>2, Zenon DEF Fits
    <2> QED BY <2>4, <2>5, <2>6, Zenon
  <1> QED BY <1>1, ReplyInvariance, PTL

\* ExecutedOnceWhileRetained for every interleaving of the apply loop and the GC
\* thread: a retry of a command whose event is retained makes no new event.
THEOREM ExecutedOnce == Spec => ExecutedOnceWhileRetained
  <1> DEFINE P == crashes' = crashes =>
                    \A m \in DOMAIN event_cache' \ DOMAIN event_cache,
                       n \in DOMAIN RetainedEvents :
                      event_cache'[m].command_id # RetainedEvents[n].command_id
  <1>1. IInv /\ [Next]_vars => [P]_event_cache
    <2> SUFFICES ASSUME IInv, [Next]_vars, crashes' = crashes,
                        NEW m \in DOMAIN event_cache' \ DOMAIN event_cache,
                        NEW n \in DOMAIN RetainedEvents
                 PROVE  event_cache'[m].command_id # RetainedEvents[n].command_id
      BY Zenon
    <2>1. ~(Flush \/ UNCHANGED event_cache \/ ProcessCrash \/ MachineCrash)
      <3>1. event_cache' # EmptyTable /\ event_cache' # event_cache
        BY Zenon DEF EmptyTable
      <3> QED BY <3>1, Zenon DEF Flush, ProcessCrash, MachineCrash, Crash, RecoverFromDb
    <2>2. ExecuteCommand
      BY <2>1, Zenon DEF Next, ReplicaStep, ApplyStep, GcStep, Commit, BatchRecv, FindDuplicate,
                  HandleDuplicate, RejectCommand, FinishEntry, SkipFlush, GcReadFirst, ShouldGc,
                  GcScan, GcWrite, Persist, vars, smVars, smMemory
    <2> DEFINE c == CurrentCommand
               event == Event(c, last_seq_num + 1, Position, Handle(accounts, c).payload)
    <2>3. /\ get_seq_num(c.command_id) = 0
          /\ event_cache' = Overlay(event_cache, Single(last_seq_num + 1, event))
      BY <2>2, Zenon DEF ExecuteCommand
    <2>4. event.command_id = c.command_id
      BY EventOf, SMTT(40)
    <2> HIDE DEF event, c
    <2>5. event_cache'[m] = event
      BY <2>3, Zenon DEF Overlay, Single
    <2>6. c.command_id \notin DOMAIN seq_num_cache /\ c.command_id \notin DOMAIN db.dedup
      BY <2>3, NewCommandId, Zenon
    <2>7. RetainedEvents[n].command_id \in DOMAIN seq_num_cache \cup DOMAIN db.dedup
      <3>1. /\ \A k \in DOMAIN event_cache : event_cache[k].command_id \in DOMAIN seq_num_cache
            /\ \A k \in DOMAIN db.event : db.event[k].command_id \in DOMAIN db.dedup
        BY Zenon DEF IInv, CacheOK, DbOK, Inverse2
      <3> QED BY <3>1, Zenon DEF RetainedEvents, Overlay
    <2> QED BY <2>4, <2>5, <2>6, <2>7, Zenon
  <1> QED BY <1>1, Invariance, PTL DEF Spec, ExecutedOnceWhileRetained

\* PanicsOnlyByGc for every interleaving: the unwrap in the duplicate check fails
\* only if the GC has truncated the event in between, never on account of a flush,
\* a crash or a replay.
THEOREM PanicsAreTheGcs == Spec => PanicsOnlyByGc
  <1> DEFINE P == loop' = "panicked" => loop = "panicked" \/ dup < DbFirstSeqNum(db)
  <1>1. IInv /\ SInv /\ [Next]_vars => [P]_loop
    <2> SUFFICES ASSUME IInv, SInv, [Next]_vars, loop' = "panicked", loop # "panicked"
                 PROVE  dup < DbFirstSeqNum(db)
      BY Zenon
    <2>1. HandleDuplicate /\ ~HasEvent(dup)
      <3>1. ~(UNCHANGED loop \/ loop' \in {"recv", "apply"})
        BY Zenon
      <3>2. ~(UNCHANGED vars \/ Commit \/ Persist)
        BY <3>1, Zenon DEF vars, smVars, smLoop, Commit, Persist
      <3>3. ~GcStep
        BY <3>1, Zenon DEF GcStep, GcReadFirst, ShouldGc, GcScan, GcWrite, smVars, smLoop
      <3>4. ~(ProcessCrash \/ MachineCrash)
        BY <3>1, Zenon DEF ProcessCrash, MachineCrash, Crash, RecoverFromDb
      <3>5. ApplyStep
        BY <3>2, <3>3, <3>4, Zenon DEF Next, ReplicaStep
      <3>6. ~(BatchRecv \/ FindDuplicate \/ RejectCommand)
        BY <3>1, Zenon DEF BatchRecv, FindDuplicate, RejectCommand
      <3>7. ~ExecuteCommand
        BY <3>1, Zenon DEF ExecuteCommand
      <3>8. ~(FinishEntry \/ Flush \/ SkipFlush)
        BY <3>1, Zenon DEF FinishEntry, Flush, SkipFlush
      <3>9. HandleDuplicate
        BY <3>5, <3>6, <3>7, <3>8, Zenon DEF ApplyStep
      <3> QED BY <3>1, <3>9, Zenon DEF HandleDuplicate
    <2>2. dup \in Nat \ {0} /\ dup <= last_seq_num
      BY <2>1, Zenon DEF HandleDuplicate, SInv, DupOK
    <2>3. /\ DOMAIN event_cache = DbLastSeqNum(db)+1..last_seq_num
          /\ DOMAIN db.event = FirstRetained(db)..DbLastSeqNum(db)
          /\ DbLastSeqNum(db) \in Nat /\ DbFirstSeqNum(db) \in Nat /\ last_seq_num \in Nat
      BY Ends, Zenon
    <2>4. FirstRetained(db) = IF DbFirstSeqNum(db) = 0 THEN 1 ELSE DbFirstSeqNum(db)
      BY Zenon DEF FirstRetained
    <2>5. dup \notin DOMAIN event_cache /\ dup \notin DOMAIN db.event
      BY <2>1, Zenon DEF HasEvent
    <2> QED BY <2>2, <2>3, <2>4, <2>5
  <1> QED BY <1>1, ReplyInvariance, PTL DEF Spec, PanicsOnlyByGc

\* The bound on crashes counts them.
LEMMA CountsCrashes == Spec => [](crashes \in Nat)
  <1>1. Init => crashes \in Nat
    BY DEF Init
  <1>2. crashes \in Nat /\ [Next]_vars => (crashes \in Nat)'
    <2> SUFFICES ASSUME crashes \in Nat, [Next]_vars PROVE crashes' \in {crashes, crashes + 1}
      OBVIOUS
    <2> QED BY Zenon DEF Next, ReplicaStep, Persist, ProcessCrash, MachineCrash, Crash, vars
  <1> QED BY <1>1, <1>2, PTL DEF Spec

-----------------------------------------------------------------------------
(* The queries of the event log.                                           *)

IsTuple(s) == s \in Seq({s[i] : i \in DOMAIN s})

\* The seq_nums of the events are first, first + 1, and so on.
NumberedFrom(events, first) ==
    \A i \in DOMAIN events : events[i].seq_num = first + i - 1

\* A query is within the events that were persisted when it began, and has read the
\* events from q_first up to the next one.
QInv ==
    /\ q \in {"idle", "first", "read", "done"}
    /\ q_first \in Nat /\ q_last \in Nat /\ q_plast \in Nat
    /\ Len(q_events) \in Nat /\ IsTuple(q_events)
    /\ NumberedFrom(q_events, q_first)
    /\ q # "done" => q_error = "Ok"
    /\ q_error # "Panic"
    /\ q = "first" => Len(q_events) = 0
    /\ q \in {"first", "read"} => q_plast <= DbLastSeqNum(db)
    /\ q = "read" \/ (q = "done" /\ q_error = "Ok") =>
          q_first > 0 /\ NextToRead <= q_last + 1 /\ q_last <= q_plast /\ q_last < q_first + MaxCount
    /\ q = "done" /\ q_error = "Ok" => NextToRead = q_last + 1
    /\ TruncatedOnlyByGc

LEMMA QueryInvariance == QSpec => [](IInv /\ SInv /\ QInv)
  \* Until the process crashes, flushes and truncations only move the ends of the
  \* event log forward.
  <1>EndsMoveForward. ASSUME IInv, crashes \in Nat, [Next]_vars, crashes' = crashes
                      PROVE  DbFirstSeqNum(db) <= DbFirstSeqNum(db') /\ DbLastSeqNum(db) <= DbLastSeqNum(db')
    <2> USE <1>EndsMoveForward
    <2>1. DbFirstSeqNum(db) \in Nat /\ DbLastSeqNum(db) \in Nat
      BY Ends, Zenon
    <2>2. CASE Flush
      <3>1. todo = 0 /\ db' = Write(db, wb) /\ (MustFlush \/ MayFlush)
        BY <2>2, Zenon DEF Flush
      <3>2. offset = 0 /\ applied_index > flushed_applied_index
        BY <3>1, ApplyAssumption, SMTT(40) DEF IInv, ProgressOK, MustFlush, MayFlush
      <3>3. DbLastSeqNum(db') = last_seq_num /\ DbFirstSeqNum(db') = DbFirstSeqNum(db)
        BY <3>1, <3>2, FlushedTables, Zenon
      <3> QED BY <2>1, <3>3 DEF IInv, CacheOK
    <2>3. CASE GcWrite
      <3>1. /\ DbFirstSeqNum(db') = GcTo /\ DbLastSeqNum(db') = DbLastSeqNum(db)
            /\ gc_from = FirstRetained(db) /\ gc_from < GcTo /\ gc_from \in Nat \ {0} /\ GcTo \in Nat
        BY <2>3, GcWritten, Zenon
      <3> QED BY <2>1, <3>1 DEF FirstRetained
    <2>4. Flush \/ GcWrite \/ UNCHANGED db
      <3>1. CASE Commit /\ UNCHANGED others
        BY <3>1, Zenon DEF Commit
      <3>2. CASE ApplyStep /\ UNCHANGED others
        BY <3>2, Zenon DEF ApplyStep, BatchRecv, FindDuplicate, HandleDuplicate, RejectCommand,
                    ExecuteCommand, FinishEntry, SkipFlush
      <3>3. CASE GcStep /\ UNCHANGED <<disk, crashes>>
        BY <3>3, Zenon DEF GcStep, GcReadFirst, ShouldGc, GcScan, smVars
      <3>4. CASE Persist
        BY <3>4, Zenon DEF Persist, smVars
      <3>5. CASE ProcessCrash \/ MachineCrash
        BY <3>5 DEF ProcessCrash, MachineCrash, Crash
      <3>6. CASE UNCHANGED vars
        BY <3>6, Zenon DEF vars, smVars
      <3> QED BY <3>1, <3>2, <3>3, <3>4, <3>5, <3>6, Zenon DEF Next, ReplicaStep, others
    <2> QED BY <2>1, <2>2, <2>3, <2>4
  <1>NoEventsRead. /\ IsTuple(<< >>) /\ Len(<< >>) = 0
                   /\ \A first : NumberedFrom(<< >>, first)
    BY SMTT(40) DEF IsTuple, NumberedFrom
  <1>OneEventRead. ASSUME NEW s, IsTuple(s), NEW e, NEW t, t = Append(s, e),
                          NEW first \in Nat, NumberedFrom(s, first),
                          e.seq_num = first + Len(s)
                   PROVE  /\ Len(t) = Len(s) + 1 /\ IsTuple(t) /\ Len(s) \in Nat
                          /\ NumberedFrom(t, first)
    <2> USE <1>OneEventRead
    <2>1. /\ Len(t) = Len(s) + 1 /\ IsTuple(t) /\ Len(s) \in Nat
          /\ DOMAIN s = 1..Len(s) /\ DOMAIN t = 1..Len(s) + 1
          /\ t[Len(s) + 1] = e /\ \A i \in 1..Len(s) : t[i] = s[i]
      BY SMTT(40) DEF IsTuple
    <2>2. NumberedFrom(t, first)
      BY <2>1, SMTT(40) DEF NumberedFrom
    <2> QED BY <2>1, <2>2
  <1>QueryOverQInv. ASSUME QueryOver PROVE QInv'
    BY <1>QueryOverQInv, <1>NoEventsRead, Zenon DEF QueryOver, QInv, TruncatedOnlyByGc
  \* The steps of the gRPC threads.
  <1>QueryStepQInv. ASSUME IInv, SInv, QInv, QueryStep, UNCHANGED vars PROVE QInv'
    <2> USE <1>QueryStepQInv
    <2>0. UNCHANGED db
      BY Zenon DEF vars, smVars
    <2>a. DbFirstSeqNum(db) \in Nat /\ DbLastSeqNum(db) \in Nat
      BY Ends, Zenon
    <2>1. CASE QueryReadLast
      <3>1. q_first' \in Nat /\ q_last' \in Nat
        BY <2>1, QueryAssumption, Zenon DEF QueryReadLast
      <3> QED BY <2>0, <2>a, <2>1, <3>1, <1>NoEventsRead, SMTT(40)
                 DEF QueryReadLast, QInv, TruncatedOnlyByGc
    <2>2. CASE QueryReadFirst
      <3>1. CASE RangeAccepted(q_first, q_last, DbFirstSeqNum(db), q_plast)
        <4>1. q_last' = AdjustedLast(q_first, q_last, q_plast) /\ q' = "read"
          BY <2>2, <3>1, Zenon DEF QueryReadFirst
        <4>2. /\ q_last' \in Nat /\ q_last' <= q_plast /\ q_last' < q_first + MaxCount
              /\ q_first > 0 /\ q_first <= q_last' + 1
          BY <3>1, <4>1, QueryAssumption, SMTT(40) DEF RangeAccepted, AdjustedLast, MinOf, QInv
        <4> QED BY <2>0, <2>2, <3>1, <4>1, <4>2, SMTT(40)
                   DEF QueryReadFirst, QInv, TruncatedOnlyByGc, NextToRead
      <3>2. CASE ~RangeAccepted(q_first, q_last, DbFirstSeqNum(db), q_plast)
        <4>1. q' = "done" /\ q_error' = "OtherError" /\ UNCHANGED <<q_first, q_last, q_plast, q_events>>
          BY <2>2, <3>2, Zenon DEF QueryReadFirst
        <4> QED BY <4>1, Zenon DEF QInv, TruncatedOnlyByGc
      <3> QED BY <3>1, <3>2, Zenon
    <2>3. CASE QueryReadEvent
      <3>1. CASE NextToRead \in DOMAIN db.event
        <4>0. db.event[NextToRead].seq_num = NextToRead
          BY <3>1, Zenon DEF SInv, EventsOK, AllEvents
        <4>1. q_events' = Append(q_events, db.event[NextToRead]) /\ UNCHANGED <<q, q_error>>
          BY <2>3, <3>1, <4>0, Zenon DEF QueryReadEvent
        <4>2. /\ Len(q_events') = Len(q_events) + 1 /\ Len(q_events) \in Nat
              /\ IsTuple(q_events') /\ NumberedFrom(q_events', q_first)
          <5>1. IsTuple(q_events) /\ NumberedFrom(q_events, q_first) /\ q_first \in Nat
            BY Zenon DEF QInv
          <5>2. db.event[NextToRead].seq_num = q_first + Len(q_events)
            BY <4>0, Zenon DEF NextToRead
          <5> DEFINE e == db.event[NextToRead]
                     t == q_events'
          <5>3. t = Append(q_events, e) /\ e.seq_num = q_first + Len(q_events)
            BY <4>1, <5>2, Zenon
          <5> HIDE DEF e, t
          <5>4. /\ Len(t) = Len(q_events) + 1 /\ Len(q_events) \in Nat
                /\ IsTuple(t) /\ NumberedFrom(t, q_first)
            BY ONLY <5>1, <5>3, <1>OneEventRead, ZenonT(60)
          <5> QED BY <5>4, Zenon DEF t
        <4> QED BY <2>0, <2>3, <4>1, <4>2, SMTT(40) DEF QueryReadEvent, QInv, TruncatedOnlyByGc,
                   NextToRead
      <3>2. CASE NextToRead \notin DOMAIN db.event
        <4>1. /\ q = "read" /\ NextToRead <= q_last /\ q' = "done" /\ q_error' = "LogTruncated"
              /\ UNCHANGED <<q_events, q_first, q_last, q_plast>>
          BY <2>3, <3>2, Zenon DEF QueryReadEvent
        <4>2. NextToRead \in 1..DbLastSeqNum(db)
          BY <2>a, <4>1, SMTT(40) DEF QInv, NextToRead
        <4>3. NextToRead < FirstRetained(db) /\ FirstRetained(db) \in Nat
          BY <2>a, <3>2, <4>2, SMTT(40) DEF IInv, DbOK, FirstRetained
        <4>4. NextToRead < DbFirstSeqNum(db)
          BY <2>a, <4>2, <4>3, SMTT(40) DEF FirstRetained
        <4> QED BY <2>0, <4>1, <4>4, Zenon DEF QInv, TruncatedOnlyByGc, NextToRead
      <3> QED BY <3>1, <3>2, Zenon
    <2>4. CASE QueryRespond
      BY <2>0, <2>4, SMTT(40) DEF QueryRespond, QInv, TruncatedOnlyByGc, NextToRead
    <2>5. CASE QueryFinish
      BY <2>5, <1>QueryOverQInv, Zenon DEF QueryFinish
    <2>6. CASE Read
      BY <2>0, <2>6, Zenon DEF Read, QInv, TruncatedOnlyByGc, NextToRead
    <2> QED BY <2>1, <2>2, <2>3, <2>4, <2>5, <2>6, Zenon DEF QueryStep
  <1>1. QInit => Init /\ QInv
    BY <1>NoEventsRead, SMTT(40) DEF QInit, QInv, TruncatedOnlyByGc
  <1>2. [QNext]_allVars => [Next]_vars
    BY Zenon DEF QNext, allVars
  <1>3. IInv /\ SInv /\ crashes \in Nat /\ QInv /\ [QNext]_allVars => QInv'
    <2> SUFFICES ASSUME IInv, SInv, crashes \in Nat, QInv, [QNext]_allVars PROVE QInv'
      BY Zenon
    <2>1. CASE QueryStep /\ UNCHANGED vars
      BY <2>1, <1>QueryStepQInv, Zenon
    <2>2. CASE [Next]_vars /\ crashes' = crashes /\ UNCHANGED queryVars
      <3>1. DbFirstSeqNum(db) <= DbFirstSeqNum(db') /\ DbLastSeqNum(db) <= DbLastSeqNum(db')
        BY <2>2, <1>EndsMoveForward, Zenon
      <3>2. DbFirstSeqNum(db) \in Nat /\ DbLastSeqNum(db) \in Nat
        BY Ends, Zenon
      <3>3. DbFirstSeqNum(db') \in Int /\ DbLastSeqNum(db') \in Int
        <4>1. IInv'
          BY <2>2, NextIInv, Zenon
        <4> QED BY <4>1, HardStates DEF IInv
      <3> QED BY <2>2, <3>1, <3>2, <3>3, SMTT(40) DEF queryVars, QInv, TruncatedOnlyByGc,
                 NextToRead
    <2>3. CASE QueryOver
      BY <2>3, <1>QueryOverQInv, Zenon
    <2> QED BY <2>1, <2>2, <2>3, Zenon DEF QNext, allVars, vars
  <1>4. QSpec => Spec
    BY <1>1, <1>2, PTL DEF QSpec, Spec
  <1> QED BY <1>1, <1>3, <1>4, ReplyInvariance, CountsCrashes, PTL DEF QSpec

\* ResponsesComplete for every log, GC configuration, sequence of requests and of
\* crashes: however flushes and truncations fall between the reads of query_events_impl,
\* a response that is not an error holds every event of its range, in the order of
\* their seq_nums.
THEOREM QueriesAreComplete == QSpec => []ResponsesComplete
  <1>1. QInv => ResponsesComplete
    <2> SUFFICES ASSUME QInv, q = "done", q_error = "Ok"
                 PROVE  /\ DOMAIN q_events = 1..q_last - q_first + 1
                        /\ NumberedFrom(q_events, q_first)
                        /\ Len(q_events) <= MaxCount /\ q_last <= q_plast
      BY Zenon DEF ResponsesComplete, QInv, NumberedFrom
    <2>1. DOMAIN q_events = 1..Len(q_events) /\ Len(q_events) \in Nat
      BY SMTT(40) DEF QInv, IsTuple
    <2>2. Len(q_events) = q_last - q_first + 1 /\ Len(q_events) <= MaxCount /\ q_last <= q_plast
      BY <2>1, QueryAssumption, SMTT(40) DEF QInv, NextToRead
    <2> QED BY <2>1, <2>2, Zenon DEF QInv
  <1> QED BY <1>1, QueryInvariance, PTL

\* TruncatedOnlyByGc for the same: query_events_impl misses an event only if the GC
\* has truncated it since the range was checked.
THEOREM TruncationIsTheGcs == QSpec => []TruncatedOnlyByGc
  <1>1. QInv => TruncatedOnlyByGc
    BY Zenon DEF QInv
  <1> QED BY <1>1, QueryInvariance, PTL
=============================================================================
