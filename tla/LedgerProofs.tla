----------------------------- MODULE LedgerProofs -----------------------------
(***************************************************************************)
(* The accounts of a wallet replica, in memory, in the write batch, in the *)
(* database and on the disk, and the replica as an implementation of the   *)
(* ledger.                                                                 *)
(***************************************************************************)
EXTENDS WalletLedger, WalletProofs, LedgerRunProofs

USE DEF APPLIED_INDEX, PERSISTED_FIRST_SEQ_NUM, PERSISTED_LAST_SEQ_NUM, HardKeys

-----------------------------------------------------------------------------
(* The accounts in memory, in the batch, in the database and on the disk.  *)

AInv ==
    /\ AccountTable(accounts) /\ AccountTable(wb.put.account)
    /\ AccountTable(db.account) /\ AccountTable(disk.account)

LEMMA NoAccounts == AccountTable(EmptyTable)
  BY ZenonT(40) DEF AccountTable, EmptyTable

\* What a successful command writes.
LEMMA Executed ==
    ASSUME IInv, SInv, AInv, ExecuteCommand,
           NEW c, c = CurrentCommand, NEW W, W = LastWrites(Handle(accounts, c).writes)
    PROVE  /\ c \in Command /\ accounts' = Overlay(accounts, W) /\ AccountTable(W)
           /\ DOMAIN W \subseteq Names(c)
           /\ \A id \in DOMAIN W \cap DOMAIN accounts :
                 /\ BalanceAllowed(accounts[id], W[id])
                 /\ accounts[id].state = "Deleted" => c.kind = "Config"
           /\ c.kind = "Delete" => DOMAIN W = {c.id} /\ Emptied(W[c.id])
  <1> DEFINE res == Handle(accounts, c)
             w == res.writes
  <1>1. todo > 0 /\ offset < Len(CurrentEntry) /\ res.err = "Ok" /\ accounts' = Overlay(accounts, W)
    BY ZenonT(40) DEF ExecuteCommand, Handling
  <1>2. c \in Command
    BY <1>1, Current, ZenonT(40) DEF SInv
  <1>3. WritesAllowed(accounts, c, res)
    BY <1>1, <1>2, HandlerWrites, Zenon DEF AInv
  <1> HIDE DEF res
  <1>4. /\ IsSequence(w) /\ \A i \in DOMAIN w : WriteAllowed(accounts, c, w[i])
        /\ c.kind = "Delete" => \A i \in DOMAIN w : w[i].id = c.id
        /\ c.kind = "Delete" => DOMAIN w # {}
    BY <1>3, Zenon DEF WritesAllowed
  <1>5. W = LastWrites(w)
    BY ZenonT(40) DEF res
  <1> HIDE DEF w
  <1>6. /\ DOMAIN W = {w[i].id : i \in DOMAIN w}
        /\ \A id \in DOMAIN W : \E i \in DOMAIN w : w[i].id = id /\ W[id] = w[i].account
    <2>1. IsSequence(w)
      BY <1>4, Zenon
    <2>2. /\ DOMAIN LastWrites(w) = {w[i].id : i \in DOMAIN w}
          /\ \A id \in DOMAIN LastWrites(w) :
                \E i \in DOMAIN w : w[i].id = id /\ LastWrites(w)[id] = w[i].account
      BY <2>1, LastWritesFacts, Zenon
    <2> QED BY <1>5, <2>2, Zenon
  <1>7. \A id \in DOMAIN W : \E v : WriteAllowed(accounts, c, v) /\ v.id = id /\ v.account = W[id]
    BY <1>4, <1>6, Zenon
  <1>8. /\ AccountTable(W) /\ DOMAIN W \subseteq Names(c)
        /\ \A id \in DOMAIN W \cap DOMAIN accounts :
              /\ BalanceAllowed(accounts[id], W[id])
              /\ accounts[id].state = "Deleted" => c.kind = "Config"
        /\ c.kind = "Delete" => \A id \in DOMAIN W : Emptied(W[id])
    BY <1>7, SMTT(40) DEF WriteAllowed, AccountTable
  <1>9. c.kind = "Delete" => DOMAIN W = {c.id}
    BY <1>4, <1>6
  <1> QED BY <1>1, <1>2, <1>8, <1>9, ZenonT(40)

\* The account table of the write batch after a successful command.
LEMMA ExecutedBatch ==
    ASSUME IInv, ExecuteCommand,
           NEW c, c = CurrentCommand, NEW W, W = LastWrites(Handle(accounts, c).writes)
    PROVE  /\ c.kind = "Delete" =>
                 /\ wb'.put.account = Without(wb.put.account, {c.id})
                 /\ wb'.del.account = wb.del.account \cup {c.id}
           /\ c.kind # "Delete" =>
                 /\ wb'.put.account = Overlay(wb.put.account, W)
                 /\ wb'.del.account = wb.del.account \ DOMAIN W
  <1> DEFINE event == Event(c, last_seq_num + 1, Position, Handle(accounts, c).payload)
             B == WriteAccounts(wb, c, Handle(accounts, c).writes)
             D == Single(event.command_id, event.seq_num)
             E == Single(event.seq_num, event)
             P == PutAll(B, "dedup", D)
             Q == PutAll(P, "event", E)
  <1>1. wb' = Q
    BY Zenon DEF ExecuteCommand, WriteEvent, Put
  <1>2. IsBatch(wb) /\ {"account", "dedup", "event"} \subseteq Tables
    BY Zenon DEF IInv, BatchOK, Tables
  <1>3. B = IF c.kind = "Delete" THEN DeleteAll(wb, "account", {c.id}) ELSE PutAll(wb, "account", W)
    BY Zenon DEF WriteAccounts
  <1> HIDE DEF B, D, E
  <1>4. /\ IsBatch(B)
        /\ c.kind = "Delete" =>
              /\ B.put["account"] = Without(wb.put["account"], {c.id})
              /\ B.del["account"] = wb.del["account"] \cup {c.id}
        /\ c.kind # "Delete" =>
              /\ B.put["account"] = Overlay(wb.put["account"], W)
              /\ B.del["account"] = wb.del["account"] \ DOMAIN W
    BY <1>2, <1>3, PutAllTables, DeleteAllTables, SMTT(40)
  <1>5. IsBatch(P) /\ P.put["account"] = B.put["account"] /\ P.del["account"] = B.del["account"]
    BY <1>2, <1>4, PutAllTables, SMTT(40)
  <1> HIDE DEF P
  <1>6. Q.put["account"] = P.put["account"] /\ Q.del["account"] = P.del["account"]
    BY <1>2, <1>5, PutAllTables, SMTT(40)
  <1> HIDE DEF Q
  <1> QED BY <1>1, <1>4, <1>5, <1>6, Zenon

\* The end of an entry writes hard states only.
LEMMA FinishedBatch ==
    ASSUME IInv, FinishEntry
    PROVE  wb'.put.account = wb.put.account /\ wb'.del.account = wb.del.account
  <1> DEFINE A == Single("applied_index", applied_index + 1)
             B == Single("last_seq_num", last_seq_num)
             P == PutAll(wb, "hard", A)
             Q == PutAll(P, "hard", B)
  <1>1. wb' = Q
    BY Zenon DEF FinishEntry, Put
  <1>2. IsBatch(wb) /\ {"account", "hard"} \subseteq Tables
    BY Zenon DEF IInv, BatchOK, Tables
  <1> HIDE DEF A, B
  <1>3. IsBatch(P) /\ P.put["account"] = wb.put["account"] /\ P.del["account"] = wb.del["account"]
    BY <1>2, PutAllTables, SMTT(40)
  <1> HIDE DEF P
  <1>4. Q.put["account"] = P.put["account"] /\ Q.del["account"] = P.del["account"]
    BY <1>2, <1>3, PutAllTables, SMTT(40)
  <1> HIDE DEF Q
  <1> QED BY <1>1, <1>3, <1>4, Zenon

\* The accounts that the flush leaves in the database.
LEMMA WrittenAccounts ==
    ASSUME NEW d, NEW batch
    PROVE  Write(d, batch).account = Overlay(Without(d.account, batch.del.account), batch.put.account)
  BY WriteTables, Zenon DEF Tables

LEMMA EmptyAccounts ==
    EmptyBatch.put.account = EmptyTable /\ EmptyBatch.del.account = {} /\ EmptyDB.account = EmptyTable
  BY EmptyBatchTables, Zenon DEF Tables, EmptyDB

\* The steps that have to do with accounts, and all others.
LEMMA AccountSteps ==
    ASSUME [Next]_vars
    PROVE  \/ UNCHANGED <<accounts, to_be_deleted_account_ids, wb, db, disk>>
           \/ (ExecuteCommand \/ FinishEntry \/ Flush \/ GcWrite) /\ UNCHANGED disk
           \/ Persist
           \/ \E d \in {db, disk} : Crash(d)
  <1>1. CASE Commit /\ UNCHANGED others
    BY <1>1, ZenonT(40) DEF Commit, smMemory, smContext, others
  <1>2. CASE ApplyStep /\ UNCHANGED others
    BY <1>2, ZenonT(40) DEF ApplyStep, BatchRecv, FindDuplicate, HandleDuplicate, RejectCommand,
       SkipFlush,
                smMemory, smContext, others
  <1>3. CASE GcStep /\ UNCHANGED <<disk, crashes>>
    BY <1>3, ZenonT(40) DEF GcStep, GcReadFirst, ShouldGc, GcScan, smVars, smMemory, smContext
  <1>4. CASE ProcessCrash \/ MachineCrash
    BY <1>4, Zenon DEF ProcessCrash, MachineCrash
  <1>5. CASE UNCHANGED vars
    BY <1>5, ZenonT(40) DEF vars, smVars, smMemory, smContext
  <1> QED BY <1>1, <1>2, <1>3, <1>4, <1>5, ZenonT(40) DEF Next, ReplicaStep, others

LEMMA InitAInv == Init => AInv
  BY NoAccounts, EmptyAccounts, ZenonT(40) DEF Init, SMInit, AInv

LEMMA NextAInv == IInv /\ SInv /\ AInv /\ [Next]_vars => AInv'
  <1>OverlayAccounts. ASSUME NEW f, AccountTable(f), NEW g, AccountTable(g)
                      PROVE  AccountTable(Overlay(f, g))
    BY <1>OverlayAccounts, Zenon DEF AccountTable, Overlay
  <1>WithoutAccounts. ASSUME NEW f, AccountTable(f), NEW S
                      PROVE  AccountTable(Without(f, S))
    BY <1>WithoutAccounts, Zenon DEF AccountTable, Without
  <1> SUFFICES ASSUME IInv, SInv, AInv, [Next]_vars PROVE AInv'
    BY ZenonT(40)
  <1>1. CASE UNCHANGED <<accounts, to_be_deleted_account_ids, wb, db, disk>>
    BY <1>1, Zenon DEF AInv, AccountTable
  <1>2. CASE ExecuteCommand /\ UNCHANGED disk
    <2> DEFINE c == CurrentCommand
               W == LastWrites(Handle(accounts, c).writes)
    <2>0. c = CurrentCommand /\ W = LastWrites(Handle(accounts, c).writes)
      BY Zenon
    <2> HIDE DEF c, W
    <2>1. accounts' = Overlay(accounts, W) /\ AccountTable(W)
      BY <1>2, <2>0, Executed, Zenon
    <2>2. wb'.put.account \in {Without(wb.put.account, {c.id}), Overlay(wb.put.account, W)}
      BY <1>2, <2>0, ExecutedBatch, Zenon
    <2>3. AccountTable(accounts')
      BY <2>1, <1>OverlayAccounts, Zenon DEF AInv
    <2>4. AccountTable(wb'.put.account)
      BY <2>1, <2>2, <1>OverlayAccounts, <1>WithoutAccounts, Zenon DEF AInv
    <2>5. UNCHANGED db
      BY <1>2, ZenonT(40) DEF ExecuteCommand
    <2> QED BY <1>2, <2>3, <2>4, <2>5, Zenon DEF AInv, AccountTable
  <1>3. CASE FinishEntry /\ UNCHANGED disk
    BY <1>3, FinishedBatch, Zenon DEF AInv, AccountTable, FinishEntry
  <1>4. CASE Flush /\ UNCHANGED disk
    <2>1. /\ db'.account = Overlay(Without(db.account, wb.del.account), wb.put.account)
          /\ accounts' = Without(accounts, to_be_deleted_account_ids)
          /\ wb'.put.account = EmptyTable
      BY <1>4, WrittenAccounts, EmptyAccounts, Zenon DEF Flush
    <2>2. AccountTable(db'.account)
      BY <2>1, <1>OverlayAccounts, <1>WithoutAccounts, ZenonT(40) DEF AInv
    <2>3. AccountTable(accounts') /\ AccountTable(wb'.put.account)
      BY <2>1, <1>WithoutAccounts, NoAccounts, Zenon DEF AInv
    <2> QED BY <1>4, <2>2, <2>3, Zenon DEF AInv, AccountTable
  <1>5. CASE GcWrite /\ UNCHANGED disk
    <2>1. db'.account = Without(db.account, {}) /\ UNCHANGED <<accounts, wb>>
      BY <1>5, GcWritten, Zenon DEF GcWrite, smMemory, smContext
    <2>2. AccountTable(db'.account)
      BY <2>1, <1>WithoutAccounts, ZenonT(40) DEF AInv
    <2> QED BY <1>5, <2>1, <2>2, Zenon DEF AInv, AccountTable
  <1>6. CASE Persist
    BY <1>6, Zenon DEF Persist, AInv, AccountTable, smVars, smMemory, smContext
  <1>7. ASSUME NEW d \in {db, disk}, Crash(d) PROVE AInv'
    <2>1. AccountTable(d.account)
      BY Zenon DEF AInv
    <2> QED BY <1>7, <2>1, NoAccounts, EmptyAccounts, ZenonT(40) DEF AInv, Crash, RecoverFromDb
  <1> QED BY <1>1, <1>2, <1>3, <1>4, <1>5, <1>6, <1>7, AccountSteps, Zenon

\* Accounts are accounts in every reachable state.
LEMMA AccountInvariance == Spec => [](IInv /\ SInv /\ AInv)
  BY InitAInv, NextAInv, ReplyInvariance, PTL DEF Spec

\* BalanceChangesAllowed for every log, GC configuration and sequence of crashes: no
\* command moves the available balance of an account that is locked or deleted, or
\* moves it past the account's limits.
THEOREM BalancesChangeAsAllowed == Spec => BalanceChangesAllowed
  <1> DEFINE Allowed(id) ==
               accounts'[id].available # accounts[id].available =>
                 /\ accounts[id].state = "Normal"
                 /\ accounts[id].limit # NoLimit =>
                      /\ accounts[id].limit.lower <= accounts'[id].available
                      /\ accounts'[id].available <= accounts[id].limit.upper
             P == crashes' = crashes =>
                    \A id \in DOMAIN accounts \cap DOMAIN accounts' : Allowed(id)
  <1>1. IInv /\ SInv /\ AInv /\ crashes \in Nat /\ [Next]_vars => [P]_accounts
    <2> SUFFICES ASSUME IInv, SInv, AInv, crashes \in Nat, [Next]_vars, crashes' = crashes,
                        NEW id \in DOMAIN accounts \cap DOMAIN accounts'
                 PROVE  Allowed(id)
      BY Zenon
    <2>1. ASSUME accounts'[id] = accounts[id] PROVE Allowed(id)
      BY <2>1, Zenon
    <2>2. CASE ExecuteCommand
      <3> DEFINE c == CurrentCommand
                 W == LastWrites(Handle(accounts, c).writes)
      <3>0. c = CurrentCommand /\ W = LastWrites(Handle(accounts, c).writes)
        BY Zenon
      <3> HIDE DEF c, W
      <3>1. accounts' = Overlay(accounts, W)
            /\ \A k \in DOMAIN W \cap DOMAIN accounts : BalanceAllowed(accounts[k], W[k])
        BY <2>2, <3>0, Executed, Zenon
      <3>2. accounts'[id] = IF id \in DOMAIN W THEN W[id] ELSE accounts[id]
        BY <3>1, Zenon DEF Overlay
      <3>3. CASE id \in DOMAIN W
        <4>1. BalanceAllowed(accounts[id], accounts'[id])
          BY <3>1, <3>2, <3>3, ZenonT(40)
        <4> QED BY <4>1, Zenon DEF BalanceAllowed
      <3>4. CASE id \notin DOMAIN W
        BY <2>1, <3>2, <3>4, ZenonT(40)
      <3> QED BY <3>3, <3>4, ZenonT(40)
    <2>3. CASE Flush
      BY <2>1, <2>3, Zenon DEF Flush, Without
    <2>4. CASE UNCHANGED accounts
      BY <2>1, <2>4, ZenonT(40)
    <2>5. ASSUME NEW d \in {db, disk}, Crash(d) PROVE FALSE
      <3>1. crashes' = crashes + 1 /\ crashes < MaxCrashes
        BY <2>5, Zenon DEF Crash
      <3> QED BY <3>1
    <2>6. \/ ExecuteCommand \/ Flush \/ UNCHANGED accounts
          \/ \E d \in {db, disk} : Crash(d)
      BY AccountSteps, Zenon DEF FinishEntry, GcWrite, Persist, smVars, smMemory
    <2> QED BY <2>2, <2>3, <2>4, <2>5, <2>6, ZenonT(40)
  <1> QED BY <1>1, AccountInvariance, CountsCrashes, PTL DEF Spec, BalanceChangesAllowed

-----------------------------------------------------------------------------
(* The accounts in memory and in the write batch.                          *)

\* handle_command gets to the handler of the command: its id is not a known one.
HandlesNew == Handling /\ dup = 0 /\ get_seq_num(CurrentCommand.command_id) = 0

\* update_account_config, which does not look at the state of the account, is not used
\* on an account that was deleted since the last flush.
NoConfigOnTombstone ==
    HandlesNew /\ CurrentCommand.kind = "Config" =>
        CurrentCommand.id \notin to_be_deleted_account_ids

Tombstones ==
    \A id \in to_be_deleted_account_ids : id \in DOMAIN accounts /\ Emptied(accounts[id])

MInv == MemoryMatchesBatch /\ Tombstones

\* The memory A without T is what the batch of puts P and deletes D makes of the
\* database B.
Matches(A, T, B, D, P) == Without(A, T) = Overlay(Without(B, D), P)

\* MemoryMatchesBatch in terms of the tables.
LEMMA Matching ==
    MemoryMatchesBatch <=>
        Matches(accounts, to_be_deleted_account_ids, db.account, wb.del.account, wb.put.account)
  BY WrittenAccounts, Zenon DEF MemoryMatchesBatch, Matches

LEMMA InitMInv == Init => MInv
  <1> SUFFICES ASSUME Init PROVE MInv
    BY Zenon
  <1>1. /\ accounts = EmptyTable /\ to_be_deleted_account_ids = {} /\ db.account = EmptyTable
        /\ wb.del.account = {} /\ wb.put.account = EmptyTable
    BY EmptyAccounts, ZenonT(40) DEF Init, SMInit
  <1>2. Matches(EmptyTable, {}, EmptyTable, {}, EmptyTable)
    BY Zenon DEF Matches, Without, Overlay, EmptyTable
  <1> QED BY <1>1, <1>2, Matching, Zenon DEF MInv, Tombstones

LEMMA NextMInv ==
    IInv /\ SInv /\ AInv /\ MInv /\ NoConfigOnTombstone /\ [Next]_vars => MInv'
  \* A write to the memory and to the batch.
  <1>PutBoth. ASSUME NEW A, NEW B, NEW T, NEW D, NEW P, NEW W, DOMAIN W \cap T = {},
                     Matches(A, T, B, D, P)
              PROVE  Matches(Overlay(A, W), T, B, D \ DOMAIN W, Overlay(P, W))
    <2> USE <1>PutBoth
    <2> DEFINE F == Without(A, T)
               G == Overlay(Without(B, D \ DOMAIN W), Overlay(P, W))
               H == Overlay(F, W)
    <2>1. Without(Overlay(A, W), T) = H
      BY Zenon DEF Overlay, Without
    <2>2. F = Overlay(Without(B, D), P)
      BY Zenon DEF Matches
    <2> HIDE DEF F
    <2>3. /\ DOMAIN F = (DOMAIN B \ D) \cup DOMAIN P
          /\ \A k \in DOMAIN F : F[k] = IF k \in DOMAIN P THEN P[k] ELSE B[k]
      BY <2>2, ZenonT(40) DEF Overlay, Without
    <2>4. /\ H = [k \in DOMAIN F \cup DOMAIN W |-> IF k \in DOMAIN W THEN W[k] ELSE F[k]]
          /\ G = [k \in (DOMAIN B \ (D \ DOMAIN W)) \cup (DOMAIN P \cup DOMAIN W) |->
                    IF k \in DOMAIN P \cup DOMAIN W
                    THEN IF k \in DOMAIN W THEN W[k] ELSE P[k] ELSE B[k]]
      BY Zenon DEF Overlay, Without
    <2> HIDE DEF G, H
    <2>5. H = G
      BY <2>3, <2>4, ZenonT(40)
    <2> QED BY <2>1, <2>5, ZenonT(40) DEF F, G, H, Matches
  \* A delete.
  <1>DeleteBoth. ASSUME NEW A, NEW B, NEW T, NEW D, NEW P, NEW W,
                        Matches(A, T, B, D, P)
                 PROVE  Matches(Overlay(A, W), T \cup DOMAIN W, B, D \cup DOMAIN W, Without(P, DOMAIN W))
    <2> USE <1>DeleteBoth
    <2> DEFINE F == Without(A, T)
               G == Overlay(Without(B, D \cup DOMAIN W), Without(P, DOMAIN W))
               H == Without(F, DOMAIN W)
    <2>1. Without(Overlay(A, W), T \cup DOMAIN W) = H
      BY Zenon DEF Overlay, Without
    <2>2. F = Overlay(Without(B, D), P)
      BY Zenon DEF Matches
    <2> HIDE DEF F
    <2>3. /\ DOMAIN F = (DOMAIN B \ D) \cup DOMAIN P
          /\ \A k \in DOMAIN F : F[k] = IF k \in DOMAIN P THEN P[k] ELSE B[k]
      BY <2>2, ZenonT(40) DEF Overlay, Without
    <2>4. /\ H = [k \in DOMAIN F \ DOMAIN W |-> F[k]]
          /\ G = [k \in (DOMAIN B \ (D \cup DOMAIN W)) \cup (DOMAIN P \ DOMAIN W) |->
                    IF k \in DOMAIN P \ DOMAIN W THEN P[k] ELSE B[k]]
      BY Zenon DEF Overlay, Without
    <2> HIDE DEF G, H
    <2>5. H = G
      BY <2>3, <2>4, ZenonT(40)
    <2> QED BY <2>1, <2>5, Zenon DEF F, G, H, Matches
  \* A successful command.
  <1>ExecuteMInv. ASSUME IInv, SInv, AInv, MInv, NoConfigOnTombstone, ExecuteCommand PROVE MInv'
    <2> USE <1>ExecuteMInv
    <2> DEFINE c == CurrentCommand
               W == LastWrites(Handle(accounts, c).writes)
               T == to_be_deleted_account_ids
    <2>0. c = CurrentCommand /\ W = LastWrites(Handle(accounts, c).writes)
      BY Zenon
    <2>1. /\ HandlesNew /\ UNCHANGED db
          /\ T' = T \cup IF c.kind = "Delete" THEN {c.id} ELSE {}
      BY ZenonT(40) DEF ExecuteCommand, HandlesNew
    <2> HIDE DEF c, W
    <2>2. /\ c \in Command /\ accounts' = Overlay(accounts, W) /\ DOMAIN W \subseteq Names(c)
          /\ \A id \in DOMAIN W \cap DOMAIN accounts : accounts[id].state = "Deleted" => c.kind = "Config"
          /\ c.kind = "Delete" => DOMAIN W = {c.id} /\ Emptied(W[c.id])
      BY <2>0, Executed, Zenon
    <2>3. Matches(accounts, T, db.account, wb.del.account, wb.put.account)
      BY Matching, Zenon DEF MInv
    <2>4. Write(db', wb').account = Overlay(Without(db'.account, wb'.del.account), wb'.put.account)
      BY WrittenAccounts, Zenon
    <2>5. /\ \A k \in DOMAIN accounts : k \in DOMAIN accounts'
          /\ \A k \in DOMAIN W : k \in DOMAIN accounts' /\ accounts'[k] = W[k]
          /\ \A k \in DOMAIN accounts \ DOMAIN W : accounts'[k] = accounts[k]
      <3>1. accounts' = Overlay(accounts, W)
        BY <2>2, Zenon
      <3> QED BY <3>1, ZenonT(40) DEF Overlay
    <2>6. CASE c.kind = "Delete"
      <3>1. /\ wb'.put.account = Without(wb.put.account, {c.id})
            /\ wb'.del.account = wb.del.account \cup {c.id}
        BY <2>0, <2>6, ExecutedBatch, Zenon
      <3>2. T' = T \cup {c.id} /\ DOMAIN W = {c.id} /\ Emptied(W[c.id])
        BY <2>1, <2>2, <2>6, ZenonT(40)
      <3>3. Matches(Overlay(accounts, W), T \cup DOMAIN W, db.account, wb.del.account \cup DOMAIN W,
                    Without(wb.put.account, DOMAIN W))
        BY <2>3, <1>DeleteBoth, ZenonT(40)
      <3>4. MemoryMatchesBatch'
        BY <2>1, <2>2, <2>4, <3>1, <3>2, <3>3, Zenon DEF MemoryMatchesBatch, Matches
      <3>5. Tombstones'
        BY <2>5, <3>2, Zenon DEF MInv, Tombstones
      <3> QED BY <3>4, <3>5, ZenonT(40) DEF MInv
    <2>7. CASE c.kind # "Delete"
      <3>1. /\ wb'.put.account = Overlay(wb.put.account, W)
            /\ wb'.del.account = wb.del.account \ DOMAIN W
        BY <2>0, <2>7, ExecutedBatch, Zenon
      <3>2. T' = T
        BY <2>1, <2>7, ZenonT(40)
      <3>3. DOMAIN W \cap T = {}
        <4> SUFFICES ASSUME NEW id \in DOMAIN W, id \in T PROVE FALSE
          BY Zenon
        <4>1. c.kind = "Config"
          BY <2>2, Zenon DEF MInv, Tombstones, Emptied
        <4>2. Names(c) = {c.id}
          BY <4>1, ZenonT(40) DEF Names
        <4> QED BY <2>0, <2>1, <2>2, <4>1, <4>2, ZenonT(40) DEF NoConfigOnTombstone
      <3>4. Matches(Overlay(accounts, W), T, db.account, wb.del.account \ DOMAIN W,
                    Overlay(wb.put.account, W))
        BY <2>3, <3>3, <1>PutBoth, ZenonT(40)
      <3>5. MemoryMatchesBatch'
        BY <2>1, <2>2, <2>4, <3>1, <3>2, <3>4, Zenon DEF MemoryMatchesBatch, Matches
      <3>6. Tombstones'
        BY <2>5, <3>2, <3>3, ZenonT(40) DEF MInv, Tombstones
      <3> QED BY <3>5, <3>6, Zenon DEF MInv
    <2> QED BY <2>6, <2>7, ZenonT(40)
  \* After a flush or a restart the memory is the database.
  <1>Settled. ASSUME NEW F PROVE Matches(F, {}, F, {}, EmptyTable)
    BY <1>Settled, Zenon DEF Matches, Overlay, Without, EmptyTable
  <1>WithoutNothing. ASSUME NEW F, NEW D PROVE Without(Without(F, {}), D) = Without(F, D)
    BY <1>WithoutNothing, ZenonT(40) DEF Without
  <1> SUFFICES ASSUME IInv, SInv, AInv, MInv, NoConfigOnTombstone, [Next]_vars PROVE MInv'
    BY Zenon
  <1> DEFINE T == to_be_deleted_account_ids
  <1>0. Matches(accounts, T, db.account, wb.del.account, wb.put.account)
    BY Matching, Zenon DEF MInv
  <1>1. ASSUME (Matches(accounts, T, db.account, wb.del.account, wb.put.account))'
        PROVE  MemoryMatchesBatch'
    <2>1. Write(db', wb').account = Overlay(Without(db'.account, wb'.del.account), wb'.put.account)
      BY WrittenAccounts, Zenon
    <2> QED BY <1>1, <2>1, Zenon DEF MemoryMatchesBatch, Matches
  <1>2. CASE UNCHANGED <<accounts, to_be_deleted_account_ids, wb, db, disk>>
    BY <1>2, ZenonT(40) DEF MInv, MemoryMatchesBatch, Tombstones
  <1>3. CASE ExecuteCommand
    BY <1>3, <1>ExecuteMInv, ZenonT(40)
  <1>4. CASE FinishEntry
    <2>1. /\ UNCHANGED <<accounts, to_be_deleted_account_ids, db>>
          /\ wb'.put.account = wb.put.account /\ wb'.del.account = wb.del.account
      BY <1>4, FinishedBatch, Zenon DEF FinishEntry
    <2> QED BY <1>0, <1>1, <2>1, Zenon DEF MInv, Tombstones
  <1>5. CASE Flush
    <2>1. /\ db' = Write(db, wb) /\ accounts' = Without(accounts, T) /\ T' = {}
          /\ wb'.put.account = EmptyTable /\ wb'.del.account = {}
      BY <1>5, EmptyAccounts, Zenon DEF Flush
    <2>2. db'.account = accounts'
      BY <2>1, Zenon DEF MInv, MemoryMatchesBatch
    <2>3. Matches(accounts', {}, accounts', {}, EmptyTable)
      BY <1>Settled, Zenon
    <2> QED BY <1>1, <2>1, <2>2, <2>3, Zenon DEF MInv, Tombstones
  <1>6. CASE GcWrite
    <2>1. db'.account = Without(db.account, {}) /\ UNCHANGED <<accounts, to_be_deleted_account_ids, wb>>
      BY <1>6, GcWritten, ZenonT(40) DEF GcWrite, smMemory, smContext
    <2>2. Without(db'.account, wb.del.account) = Without(db.account, wb.del.account)
      BY <2>1, <1>WithoutNothing, Zenon
    <2> QED BY <1>0, <1>1, <2>1, <2>2, Zenon DEF MInv, Tombstones, Matches
  <1>7. CASE Persist
    BY <1>7, ZenonT(40) DEF Persist, MInv, MemoryMatchesBatch, Tombstones, smVars, smMemory,
       smContext
  <1>8. ASSUME NEW d \in {db, disk}, Crash(d) PROVE MInv'
    <2>1. /\ db' = d /\ accounts' = d.account /\ T' = {}
          /\ wb'.put.account = EmptyTable /\ wb'.del.account = {}
      BY <1>8, EmptyAccounts, ZenonT(40) DEF Crash, RecoverFromDb
    <2>2. Matches(accounts', {}, accounts', {}, EmptyTable)
      BY <1>Settled, Zenon
    <2> QED BY <1>1, <2>1, <2>2, Zenon DEF MInv, Tombstones
  <1> QED BY <1>2, <1>3, <1>4, <1>5, <1>6, <1>7, <1>8, AccountSteps, Zenon

LEMMA BatchInvariance == Spec /\ []NoConfigOnTombstone => [](IInv /\ SInv /\ AInv /\ MInv)
  BY InitMInv, NextMInv, AccountInvariance, PTL DEF Spec

\* MemoryMatchesBatch for every log, GC configuration and sequence of crashes, as long
\* as no configuration is set on an account that was deleted since the last flush:
\* what the next flush leaves in the database is what the memory holds, however the
\* flush, the truncations and the crashes fall between the commands.
THEOREM FlushKeepsMemory == Spec /\ []NoConfigOnTombstone => []MemoryMatchesBatch
  <1>1. MInv => MemoryMatchesBatch
    BY ZenonT(40) DEF MInv
  <1> QED BY <1>1, BatchInvariance, PTL

-----------------------------------------------------------------------------
(* The replica follows the ledger.                                         *)

\* No command meets an account that was deleted since the last flush: such an account
\* is gone from the ledger, but still in memory, as Deleted.
NoTombstoneMet ==
    HandlesNew => Names(CurrentCommand) \cap to_be_deleted_account_ids = {}

\* No command is retried after its event has been truncated: an event that was given
\* to the id of a command that gets to its handler has a seq_num that the GC has left.
NoLateRetry ==
    HandlesNew =>
        \A p \in DOMAIN sent :
            IsEvent(sent[p]) /\ sent[p].command_id = CurrentCommand.command_id =>
                DbFirstSeqNum(db) = 0 \/ sent[p].seq_num >= DbFirstSeqNum(db)

\* The ledger where the apply loop is, and where a database is.
Now == LedgerAt(log, applied_index - APPLIED_INDEX, offset)

At(d) == LogRun(log)[DbAppliedIndex(d) - APPLIED_INDEX]

\* Events of the ledger, under their seq_nums.
EventsFrom(event, ledger) ==
    \A n \in DOMAIN event : /\ event[n].seq_num = n
                            /\ event[n].command_id \in DOMAIN ledger.events
                            /\ ledger.events[event[n].command_id] = event[n]

\* Somebody has been told of every event of the ledger.
Answered(replies, ledger) ==
    \A id \in DOMAIN ledger.events :
        \E p \in DOMAIN replies : IsEvent(replies[p]) /\ replies[p] = ledger.events[id]

MemoryFollows ==
    /\ last_seq_num = Now.seq_num
    /\ Without(accounts, to_be_deleted_account_ids) = Now.accounts
    /\ EventsFrom(event_cache, Now) /\ EventsFrom(db.event, Now) /\ Answered(sent, Now)

DbFollows(d) ==
    /\ DbLastSeqNum(d) = At(d).seq_num
    /\ Without(d.account, {}) = At(d).accounts
    /\ EventsFrom(d.event, At(d)) /\ Answered(sent, At(d))

FInv ==
    /\ MemoryFollows /\ DbFollows(db) /\ DbFollows(disk)
    /\ Contained(sent, LedgerReplies(log))

\* The apply loop is at a position of the log, and so is each database.
LEMMA Placed ==
    ASSUME IInv, SInv
    PROVE  /\ IsLog(log) /\ IsPlace(log, applied_index - APPLIED_INDEX, offset)
           /\ \A d \in {db, disk} : DbAppliedIndex(d) - APPLIED_INDEX \in 0..Len(log)
           /\ todo > 0 => /\ applied_index - APPLIED_INDEX < Len(log)
                          /\ CurrentEntry = log[(applied_index - APPLIED_INDEX) + 1]
  <1> DEFINE k == applied_index - APPLIED_INDEX
  <1>1. log \in Seq(Seq(Command)) /\ Len(log) \in Nat
    BY SMTT(40) DEF SInv, LogOK
  <1>2. \A i \in 1..Len(log) : log[i] \in Seq(Command)
    BY <1>1, SMTT(40)
  <1>3. IsLog(log)
    BY <1>1, <1>2, SMTT(40) DEF IsLog
  <1>4. /\ applied_index \in Nat /\ todo \in Nat /\ offset \in Nat
        /\ todo = 0 => offset = 0
        /\ applied_index >= APPLIED_INDEX /\ applied_index + todo <= APPLIED_INDEX + Len(log)
        /\ todo > 0 => offset <= Len(CurrentEntry)
        /\ \A d \in {db, disk} : DbAppliedIndex(d) \in APPLIED_INDEX..(APPLIED_INDEX + Len(log))
    BY Zenon DEF IInv, ProgressOK, SInv, LogOK, LastIndex
  <1>5. applied_index + 1 - APPLIED_INDEX = k + 1 /\ k \in 0..Len(log) /\ (todo > 0 => k < Len(log))
    BY <1>1, <1>4
  <1>6. CurrentEntry = log[k + 1]
    BY <1>5, Zenon DEF CurrentEntry
  <1>7. IsPlace(log, k, offset)
    BY <1>4, <1>5, <1>6, SMTT(40) DEF IsPlace
  <1>8. \A d \in {db, disk} : DbAppliedIndex(d) - APPLIED_INDEX \in 0..Len(log)
    BY <1>1, <1>4
  <1> QED BY <1>3, <1>5, <1>6, <1>7, <1>8, ZenonT(40)

\* The ledger where the apply loop is.
LEMMA NowOK ==
    ASSUME IInv, SInv
    PROVE  /\ DOMAIN Now = LedgerFields /\ Now.seq_num \in Nat
           /\ \A id \in DOMAIN Now.events :
                 Now.events[id].command_id = id /\ Now.events[id].seq_num \in 1..Now.seq_num
           /\ \A id1, id2 \in DOMAIN Now.events :
                 Now.events[id1].seq_num = Now.events[id2].seq_num => id1 = id2
  <1>1. IsLog(log) /\ IsPlace(log, applied_index - APPLIED_INDEX, offset)
    BY Placed, Zenon
  <1>2. LedgerOK(Now, APPLIED_INDEX + (applied_index - APPLIED_INDEX) + 1, offset)
    BY <1>1, PlaceOK, Zenon DEF Now
  <1> QED BY <1>2, Zenon DEF LedgerOK

\* A command that gets to its handler is new to the ledger.
LEMMA NewToLedger ==
    ASSUME IInv, SInv, MemoryFollows, NoLateRetry, HandlesNew
    PROVE  CurrentCommand.command_id \notin DOMAIN Now.events
  <1> DEFINE id == CurrentCommand.command_id
             e == Now.events[id]
  <1> SUFFICES ASSUME id \in DOMAIN Now.events PROVE FALSE
    BY ZenonT(40)
  <1>1. id \notin DOMAIN seq_num_cache /\ id \notin DOMAIN db.dedup
    BY NewCommandId, Zenon DEF HandlesNew
  <1>2. e.command_id = id /\ e.seq_num \in 1..last_seq_num /\ last_seq_num \in Nat
    <2>1. e.command_id = id /\ e.seq_num \in 1..Now.seq_num
      BY NowOK, Zenon
    <2> QED BY <2>1, ZenonT(40) DEF MemoryFollows, IInv, CacheOK
  <1>3. DbFirstSeqNum(db) = 0 \/ e.seq_num >= DbFirstSeqNum(db)
    <2>1. PICK p \in DOMAIN sent : IsEvent(sent[p]) /\ sent[p] = e
      BY Zenon DEF MemoryFollows, Answered
    <2>2. IsEvent(sent[p]) /\ sent[p].command_id = CurrentCommand.command_id
      BY <1>2, <2>1, Zenon
    <2>3. DbFirstSeqNum(db) = 0 \/ sent[p].seq_num >= DbFirstSeqNum(db)
      BY <2>1, <2>2, Zenon DEF NoLateRetry
    <2> QED BY <2>1, <2>3, Zenon
  <1>4. \A n \in DOMAIN event_cache \cup DOMAIN db.event : n # e.seq_num
    <2> SUFFICES ASSUME NEW ev, NEW ids, Inverse2(ids, ev), EventsFrom(ev, Now), id \notin DOMAIN ids,
                        NEW n \in DOMAIN ev, n = e.seq_num
                 PROVE  FALSE
      <3>1. Inverse2(seq_num_cache, event_cache) /\ Inverse2(db.dedup, db.event)
        BY ZenonT(40) DEF IInv, CacheOK, DbOK
      <3> QED BY <1>1, <3>1, Zenon DEF MemoryFollows
    <2>1. /\ ev[n].command_id \in DOMAIN ids /\ ev[n].command_id \in DOMAIN Now.events
          /\ Now.events[ev[n].command_id] = ev[n] /\ ev[n].seq_num = n
      BY Zenon DEF Inverse2, EventsFrom
    <2>2. Now.events[ev[n].command_id].seq_num = Now.events[id].seq_num
      BY <2>1, Zenon
    <2>3. ev[n].command_id = id
      BY <2>1, <2>2, NowOK, Zenon
    <2> QED BY <2>1, <2>3, Zenon
  <1>5. /\ DOMAIN event_cache = DbLastSeqNum(db)+1..last_seq_num
        /\ DOMAIN db.event = FirstRetained(db)..DbLastSeqNum(db)
        /\ DbLastSeqNum(db) \in Nat /\ DbFirstSeqNum(db) \in Nat
    BY Ends, ZenonT(40)
  <1> HIDE DEF e
  <1>6. e.seq_num \in DOMAIN event_cache \cup DOMAIN db.event
    BY <1>2, <1>3, <1>5, SMTT(40) DEF FirstRetained
  <1> QED BY <1>4, <1>6, Zenon

\* Events, replies and answers stay when the ledger grows.
LEMMA EventsStay ==
    ASSUME NEW ledger, NEW next, Contained(ledger.events, next.events), NEW event,
           EventsFrom(event, ledger)
    PROVE  EventsFrom(event, next)
  BY Zenon DEF Contained, EventsFrom

LEMMA EventsFewer ==
    ASSUME NEW ledger, NEW event, EventsFrom(event, ledger), NEW S
    PROVE  EventsFrom(Without(event, S), ledger)
  BY Zenon DEF Without, EventsFrom

LEMMA EventsMerged ==
    ASSUME NEW ledger, NEW e1, NEW e2, EventsFrom(e1, ledger), EventsFrom(e2, ledger)
    PROVE  EventsFrom(Overlay(e1, e2), ledger)
  BY Zenon DEF Overlay, EventsFrom

LEMMA NoEvents == ASSUME NEW ledger PROVE EventsFrom(EmptyTable, ledger)
  BY Zenon DEF EmptyTable, EventsFrom

LEMMA AnswersStay ==
    ASSUME NEW ledger, NEW replies, NEW more, Answered(replies, ledger), Contained(replies, more)
    PROVE  Answered(more, ledger)
  BY Zenon DEF Answered, Contained

\* A log of commands is one that the ledger can run.
LEMMA LogOfCommands ==
    ASSUME NEW l \in Seq(Seq(Command)) PROVE IsLog(l)
  <1>1. Len(l) \in Nat /\ \A i \in 1..Len(l) : l[i] \in Seq(Command)
    BY SMTT(40)
  <1> QED BY <1>1, SMTT(40) DEF IsLog

LEMMA InitFInv == Init => FInv
  <1> SUFFICES ASSUME Init PROVE FInv
    BY Zenon
  <1>1. /\ log = << >> /\ applied_index = APPLIED_INDEX /\ offset = 0 /\ last_seq_num = 0
        /\ accounts = EmptyTable /\ to_be_deleted_account_ids = {} /\ event_cache = EmptyTable
        /\ sent = EmptyTable /\ db = EmptyDB /\ disk = EmptyDB
    BY ZenonT(40) DEF Init, SMInit
  <1>2. /\ EmptyDB.account = EmptyTable /\ EmptyDB.event = EmptyTable
        /\ DbAppliedIndex(EmptyDB) = APPLIED_INDEX /\ DbLastSeqNum(EmptyDB) = 0
    BY Zenon DEF EmptyDB, Tables, EmptyTable, DbAppliedIndex, DbLastSeqNum, GetOr
  <1>3. Len(log) = 0
    BY <1>1, ZenonT(40)
  <1>4. LogRun(log)[0] = NewLedger
    BY <1>3, LogSteps, SMTT(40)
  <1>5. Now = NewLedger /\ At(db) = NewLedger /\ At(disk) = NewLedger
    BY <1>1, <1>2, <1>3, <1>4, SMTT(40) DEF Now, At, LedgerAt
  <1>6. /\ NewLedger.seq_num = 0 /\ NewLedger.accounts = EmptyTable /\ NewLedger.events = EmptyTable
    BY Zenon DEF NewLedger
  <1>7. Without(EmptyTable, {}) = EmptyTable /\ DOMAIN EmptyTable = {}
    BY Zenon DEF Without, EmptyTable
  <1>8. Answered(EmptyTable, NewLedger) /\ EventsFrom(EmptyTable, NewLedger)
    BY <1>6, <1>7, ZenonT(40) DEF Answered, EventsFrom
  <1>9. Contained(EmptyTable, LedgerReplies(log))
    BY <1>7, Zenon DEF Contained
  <1> QED BY <1>1, <1>2, <1>5, <1>6, <1>7, <1>8, <1>9, Zenon DEF FInv, MemoryFollows, DbFollows

\* Steps that change nothing that the invariant is about.
LEMMA QuietFInv ==
    ASSUME FInv, UNCHANGED <<log, applied_index, offset, last_seq_num, accounts,
                             to_be_deleted_account_ids, event_cache, db, disk, sent>>
    PROVE  FInv'
  <1>1. Now' = Now /\ At(db)' = At(db) /\ At(disk)' = At(disk)
    BY Zenon DEF Now, At
  <1> QED BY <1>1, Zenon DEF FInv, MemoryFollows, DbFollows

\* A longer log.
LEMMA CommitFInv ==
    ASSUME IInv, SInv, SInv', FInv, Commit, UNCHANGED disk PROVE FInv'
  <1> DEFINE k == applied_index - APPLIED_INDEX
  <1>1. /\ UNCHANGED <<applied_index, offset, last_seq_num, accounts,
                       to_be_deleted_account_ids, event_cache, db, disk, sent>>
        /\ \E e : log' = Append(log, e)
    BY Zenon DEF Commit, smMemory, smContext, smLoop
  <1>2. IsLog(log) /\ IsLog(log') /\ log \in Seq(Seq(Command))
    BY LogOfCommands, ZenonT(40) DEF SInv, LogOK
  <1>3. Len(log) <= Len(log') /\ \A i \in 1..Len(log) : log'[i] = log[i]
    BY <1>1, <1>2, SMTT(40)
  <1>4. /\ \A i, n : IsPlace(log, i, n) =>
              IsPlace(log', i, n) /\ LedgerAt(log', i, n) = LedgerAt(log, i, n)
        /\ Contained(LedgerReplies(log), LedgerReplies(log'))
    BY <1>2, <1>3, PlacePrefix, Zenon
  <1>5. Now' = Now
    <2>1. IsPlace(log, k, offset)
      BY Placed, Zenon
    <2> QED BY <1>1, <1>4, <2>1, Zenon DEF Now
  <1>6. \A i \in 0..Len(log) : LogRun(log')[i] = LogRun(log)[i]
    <2> SUFFICES ASSUME NEW i \in 0..Len(log) PROVE LogRun(log')[i] = LogRun(log)[i]
      BY Zenon
    <2>1. i \in 0..Len(log')
      BY <1>2, <1>3 DEF IsLog
    <2>2. IsPlace(log, i, 0) /\ LedgerAt(log, i, 0) = LogRun(log)[i]
      BY <1>2, WholeEntries, Zenon
    <2>3. LedgerAt(log', i, 0) = LogRun(log')[i]
      BY <1>2, <2>1, WholeEntries, Zenon
    <2> QED BY <1>4, <2>2, <2>3, Zenon
  <1>7. At(db)' = At(db) /\ At(disk)' = At(disk)
    BY <1>1, <1>6, Placed, Zenon DEF At
  <1>8. Contained(sent', LedgerReplies(log'))
    BY <1>1, <1>4, ContainedTrans, Zenon DEF FInv
  <1> QED BY <1>1, <1>5, <1>7, <1>8, Zenon DEF FInv, MemoryFollows, DbFollows

\* The end of an entry.
LEMMA FinishFInv ==
    ASSUME IInv, SInv, FInv, FinishEntry, UNCHANGED disk PROVE FInv'
  <1> DEFINE k == applied_index - APPLIED_INDEX
  <1>1. /\ UNCHANGED <<log, last_seq_num, accounts, to_be_deleted_account_ids, event_cache, db,
                       disk, sent>>
        /\ todo > 0 /\ offset = Len(CurrentEntry) /\ offset' = 0 /\ applied_index' = applied_index + 1
    BY Zenon DEF FinishEntry
  <1>2. /\ IsLog(log) /\ IsPlace(log, k, offset) /\ k < Len(log) /\ offset = Len(log[k+1])
    BY <1>1, Placed, ZenonT(40)
  <1>3. applied_index' - APPLIED_INDEX = k + 1
    BY <1>1, SMTT(40) DEF IInv, ProgressOK
  <1>4. LedgerAt(log, k + 1, 0) = LedgerAt(log, k, offset)
    BY <1>2, PlaceEntry, Zenon
  <1>5. Now' = Now /\ At(db)' = At(db) /\ At(disk)' = At(disk)
    BY <1>1, <1>3, <1>4, Zenon DEF Now, At
  <1> QED BY <1>1, <1>5, Zenon DEF FInv, MemoryFollows, DbFollows

\* The handler of a command sees the accounts of the ledger.
LEMMA SameHandling ==
    ASSUME FInv, NoTombstoneMet, HandlesNew, CurrentCommand \in Command
    PROVE  Handle(accounts, CurrentCommand) = Handle(Now.accounts, CurrentCommand)
  <1> DEFINE c == CurrentCommand
             T == to_be_deleted_account_ids
  <1>1. Names(c) \cap T = {} /\ Now.accounts = Without(accounts, T)
    BY ZenonT(40) DEF NoTombstoneMet, FInv, MemoryFollows
  <1> HIDE DEF c, T
  <1>2. AgreeOn(accounts, Now.accounts, Names(c))
    BY <1>1, Zenon DEF AgreeOn, Without
  <1> QED BY <1>2, HandlerLocal, Zenon DEF c

\* One reply more: the ledger executes the command, and the reply is its reply.
LEMMA Replied ==
    ASSUME IInv, SInv, FInv, todo > 0, offset < Len(CurrentEntry),
           NEW c, c = CurrentCommand, NEW reply, reply = ReplyTo(Now, Position, c),
           sent' = Overlay(sent, Single(Position, reply)), offset' = offset + 1,
           UNCHANGED <<log, applied_index>>
    PROVE  /\ Now' = Execute(Now, Position, c) /\ Grows(Now, Now')
           /\ Position \in DOMAIN LedgerReplies(log) /\ LedgerReplies(log)[Position] = reply
           /\ Position \in DOMAIN sent' /\ sent'[Position] = reply
           /\ Contained(sent, sent') /\ Contained(sent', LedgerReplies(log'))
  <1> DEFINE k == applied_index - APPLIED_INDEX
             p == Position
             all == LedgerReplies(log)
  <1>1. /\ IsLog(log) /\ IsPlace(log, k, offset) /\ k < Len(log)
        /\ offset < Len(log[k+1]) /\ c = log[k+1][offset+1]
    BY Placed, Zenon DEF CurrentCommand
  <1>2. p = <<APPLIED_INDEX + k + 1, offset>> /\ k \in Nat /\ offset \in Nat
    BY Placed, SMTT(40) DEF IInv, ProgressOK, Position, IsPlace, IsLog
  <1>3. Now = LedgerAt(log, k, offset) /\ Now' = LedgerAt(log, k, offset + 1)
    BY Zenon DEF Now
  <1> HIDE DEF p, k, all
  <1>4. /\ IsPlace(log, k, offset + 1) /\ LedgerAt(log, k, offset + 1) = Execute(Now, p, c)
        /\ p \in DOMAIN LedgerReplies(log) /\ LedgerReplies(log)[p] = ReplyTo(Now, p, c)
    BY <1>1, <1>2, <1>3, PlaceStep, SMTT(40)
  <1>5. p \in DOMAIN all /\ all[p] = reply
    BY <1>4, Zenon DEF all, p
  <1>6. Contained(sent, all)
    BY Zenon DEF FInv, all
  <1>7. sent' = Overlay(sent, Single(p, reply))
    BY Zenon DEF p
  <1>8. p \in DOMAIN sent' /\ sent'[p] = reply /\ Contained(sent, sent') /\ Contained(sent', all)
    BY <1>5, <1>6, <1>7, ZenonT(40) DEF Contained, Overlay, Single
  <1>9. Grows(Now, Execute(Now, p, c))
    <2> DEFINE i == APPLIED_INDEX + k + 1
    <2>1. LedgerOK(Now, i, offset)
      BY <1>1, <1>3, PlaceOK, Zenon
    <2>2. i \in Nat /\ p = <<i, offset>>
      BY <1>2
    <2> HIDE DEF i
    <2>3. Grows(Now, Execute(Now, <<i, offset>>, c))
      BY <1>2, <2>1, <2>2, ExecuteOK, Zenon
    <2> QED BY <2>2, <2>3, Zenon
  <1> QED BY <1>3, <1>4, <1>5, <1>8, <1>9, Zenon DEF p, all

\* The answer to a duplicate and the failure of a command.
LEMMA ReplyFInv ==
    ASSUME IInv, SInv, FInv, NoTombstoneMet, NoLateRetry, UNCHANGED disk,
           (HandleDuplicate /\ HasEvent(dup)) \/ RejectCommand
    PROVE  /\ FInv'
           /\ \E p \in DOMAIN LedgerReplies(log) :
                 sent' = Overlay(sent, Single(p, LedgerReplies(log)[p]))
  <1> DEFINE c == CurrentCommand
             r == ReplyTo(Now, Position, c)
  <1>1. /\ todo > 0 /\ offset < Len(CurrentEntry) /\ offset' = offset + 1
        /\ UNCHANGED <<log, applied_index, last_seq_num, accounts, to_be_deleted_account_ids,
                       event_cache, db, disk>>
    BY Zenon DEF HandleDuplicate, RejectCommand, Handling, SendEvent, smMemory, smContext
  <1>2. c \in Command
    BY <1>1, Current, ZenonT(40) DEF SInv
  <1>3. ~Takes(Now, c) /\ sent' = Overlay(sent, Single(Position, r))
    <2>1. CASE HandleDuplicate /\ HasEvent(dup)
      <3> DEFINE e == get_event(dup)
      <3>1. dup # 0 /\ sent' = Overlay(sent, Single(Position, DuplicateReply(c, e)))
        BY <2>1, ZenonT(40) DEF HandleDuplicate, SendEvent
      <3>2. e.command_id = c.command_id
        BY <2>1, <3>1, ZenonT(40) DEF SInv, DupOK
      <3>3. e.command_id \in DOMAIN Now.events /\ Now.events[e.command_id] = e
        BY <2>1, Zenon DEF HasEvent, get_event, GetOr, FInv, MemoryFollows, EventsFrom
      <3> HIDE DEF e
      <3>4. r = DuplicateReply(c, e) /\ ~Takes(Now, c)
        BY <3>2, <3>3, Zenon DEF ReplyTo, Takes
      <3> QED BY <3>1, <3>4, Zenon
    <2>2. CASE RejectCommand
      <3>1. /\ HandlesNew /\ Handle(accounts, c).err # "Ok"
            /\ sent' = Overlay(sent, Single(Position, Failure(Handle(accounts, c).err)))
        BY <2>2, ZenonT(40) DEF RejectCommand, HandlesNew, SendEvent
      <3>2. c.command_id \notin DOMAIN Now.events
        BY <3>1, NewToLedger, Zenon DEF FInv
      <3>3. Handle(accounts, c) = Handle(Now.accounts, c)
        BY <1>2, <3>1, SameHandling, ZenonT(40)
      <3> HIDE DEF c
      <3>4. r = Failure(Handle(accounts, c).err) /\ ~Takes(Now, c)
        BY <3>1, <3>2, <3>3, Zenon DEF ReplyTo, Takes
      <3> QED BY <3>1, <3>4, Zenon
    <2> QED BY <2>1, <2>2, ZenonT(40)
  <1>4. c = CurrentCommand /\ r = ReplyTo(Now, Position, c)
    BY Zenon
  <1> HIDE DEF c, r
  <1>5. /\ Now' = Execute(Now, Position, c) /\ Grows(Now, Now')
        /\ Position \in DOMAIN LedgerReplies(log) /\ LedgerReplies(log)[Position] = r
        /\ Contained(sent, sent') /\ Contained(sent', LedgerReplies(log'))
    BY <1>1, <1>3, <1>4, Replied, Zenon
  <1>6. Now'.accounts = Now.accounts /\ Now'.seq_num = Now.seq_num /\ Now'.events = Now.events
    <2>1. DOMAIN Now = LedgerFields
      BY NowOK, Zenon
    <2> QED BY <1>3, <1>5, <2>1, ExecuteFields, SMTT(40)
  <1>7. At(db)' = At(db) /\ At(disk)' = At(disk)
    BY <1>1, Zenon DEF At
  <1>8. /\ Answered(sent', Now) /\ Answered(sent', At(db)) /\ Answered(sent', At(disk))
    BY <1>5, AnswersStay, Zenon DEF FInv, MemoryFollows, DbFollows
  <1>9. MemoryFollows'
    <2>1. EventsFrom(event_cache, Now) /\ EventsFrom(db.event, Now)
      BY Zenon DEF FInv, MemoryFollows
    <2>2. EventsFrom(event_cache, Now') /\ EventsFrom(db.event, Now')
      BY <1>5, <2>1, EventsStay, Zenon DEF Grows
    <2>3. Answered(sent', Now')
      BY <1>6, <1>8, ZenonT(40) DEF Answered
    <2> QED BY <1>1, <1>6, <2>2, <2>3, Zenon DEF FInv, MemoryFollows
  <1>10. DbFollows(db)' /\ DbFollows(disk)'
    BY <1>1, <1>7, <1>8, Zenon DEF FInv, DbFollows
  <1> QED BY <1>3, <1>5, <1>9, <1>10, Zenon DEF FInv

\* A successful command.
LEMMA ExecuteFInv ==
    ASSUME IInv, SInv, AInv, FInv, NoTombstoneMet, NoLateRetry, UNCHANGED disk, ExecuteCommand
    PROVE  /\ FInv'
           /\ \E p \in DOMAIN LedgerReplies(log) :
                 sent' = Overlay(sent, Single(p, LedgerReplies(log)[p]))
  <1> DEFINE c == CurrentCommand
             res == Handle(accounts, c)
             W == LastWrites(res.writes)
             n == last_seq_num + 1
             e == Event(c, n, Position, res.payload)
             T == to_be_deleted_account_ids
             as == Now.accounts
  <1>1. /\ HandlesNew /\ todo > 0 /\ offset < Len(CurrentEntry) /\ offset' = offset + 1
        /\ UNCHANGED <<log, applied_index, db, disk>>
        /\ res.err = "Ok" /\ last_seq_num' = n /\ sent' = Overlay(sent, Single(Position, e))
        /\ event_cache' = Overlay(event_cache, Single(n, e))
        /\ T' = T \cup IF c.kind = "Delete" THEN {c.id} ELSE {}
    BY Zenon DEF ExecuteCommand, HandlesNew, Handling, SendEvent
  <1>2. c.command_id \notin DOMAIN Now.events
    BY <1>1, NewToLedger, Zenon DEF FInv
  <1>3. /\ c \in Command /\ accounts' = Overlay(accounts, W) /\ DOMAIN W \subseteq Names(c)
        /\ c.kind = "Delete" => DOMAIN W = {c.id}
    <2>1. c = CurrentCommand /\ W = LastWrites(Handle(accounts, c).writes)
      BY Zenon
    <2> HIDE DEF c, W
    <2> QED BY <2>1, Executed, Zenon
  <1>4. res = Handle(as, c)
    BY <1>1, <1>3, SameHandling, Zenon
  <1>5. c = CurrentCommand
    BY Zenon
  <1> HIDE DEF c, res
  <1>6. e.command_id = c.command_id /\ e.seq_num = n /\ IsEvent(e)
    <2>1. e = Event(c, n, Position, res.payload)
      BY Zenon
    <2>2. IsEvent(e)
      BY Zenon DEF Event, IsEvent
    <2> HIDE DEF e, n
    <2> QED BY <2>1, <2>2, EventOf
  <1>7. Takes(Now, c) /\ NewEvent(Now, Position, c) = e /\ ReplyTo(Now, Position, c) = e
    <2>1. Takes(Now, c)
      BY <1>1, <1>2, <1>4, Zenon DEF Takes
    <2>2. Now.seq_num = last_seq_num
      BY Zenon DEF FInv, MemoryFollows
    <2>3. NewEvent(Now, Position, c) = e
      BY <1>4, <2>2, Zenon DEF NewEvent
    <2> QED BY <1>2, <2>1, <2>3, Zenon DEF ReplyTo
  <1> HIDE DEF e
  <1>8. /\ Now' = Execute(Now, Position, c) /\ Grows(Now, Now')
        /\ Position \in DOMAIN LedgerReplies(log) /\ LedgerReplies(log)[Position] = e
        /\ Position \in DOMAIN sent' /\ sent'[Position] = e
        /\ Contained(sent, sent') /\ Contained(sent', LedgerReplies(log'))
    BY <1>1, <1>5, <1>7, Replied, Zenon
  <1>9. /\ Now'.accounts = AccountsAfter(as, c) /\ Now'.seq_num = Now.seq_num + 1
        /\ Now'.events = Overlay(Now.events, Single(c.command_id, e))
    <2>1. DOMAIN Now = LedgerFields
      BY NowOK, Zenon
    <2> QED BY <1>7, <1>8, <2>1, ExecuteFields, SMTT(40)
  <1>10. last_seq_num' = Now'.seq_num
    BY <1>1, <1>9, Zenon DEF FInv, MemoryFollows
  <1>11. Without(accounts', T') = Now'.accounts
    <2>1. as = Without(accounts, T)
      BY Zenon DEF FInv, MemoryFollows
    <2>2. CASE c.kind = "Delete"
      <3>1. T' = T \cup DOMAIN W /\ DOMAIN W = {c.id}
        BY <1>1, <1>3, <2>2, Zenon
      <3> HIDE DEF W, T
      <3>2. Without(Overlay(accounts, W), T \cup DOMAIN W) = Without(Without(accounts, T), DOMAIN W)
        BY Zenon DEF Overlay, Without
      <3>3. Now'.accounts = Without(as, DOMAIN W)
        BY <1>9, <2>2, <3>1, Zenon DEF AccountsAfter
      <3> QED BY <1>3, <2>1, <3>1, <3>2, <3>3, Zenon
    <2>3. CASE c.kind # "Delete"
      <3>1. T' = T /\ DOMAIN W \cap T = {}
        BY <1>1, <1>3, <1>5, <2>3, ZenonT(40) DEF NoTombstoneMet
      <3>2. Now'.accounts = Overlay(as, W)
        BY <1>4, <1>9, <2>3, Zenon DEF AccountsAfter
      <3> HIDE DEF W, T
      <3>3. Without(Overlay(accounts, W), T) = Overlay(Without(accounts, T), W)
        BY <3>1, Zenon DEF Overlay, Without
      <3> QED BY <1>3, <2>1, <3>1, <3>2, <3>3, Zenon
    <2> QED BY <2>2, <2>3, ZenonT(40)
  <1>12. EventsFrom(event_cache', Now') /\ EventsFrom(db.event, Now')
    <2>1. EventsFrom(event_cache, Now') /\ EventsFrom(db.event, Now')
      BY <1>8, EventsStay, Zenon DEF FInv, MemoryFollows, Grows
    <2>2. EventsFrom(Single(n, e), Now')
      <3> DEFINE events == Now'.events
      <3>1. c.command_id \in DOMAIN events /\ events[c.command_id] = e
        BY <1>9, Zenon DEF Overlay, Single
      <3> HIDE DEF n
      <3> QED BY <1>6, <3>1, ZenonT(40) DEF EventsFrom, Single
    <2> QED BY <1>1, <2>1, <2>2, EventsMerged, Zenon
  <1>13. Answered(sent', Now')
    <2>1. Answered(sent', Now)
      BY <1>8, AnswersStay, Zenon DEF FInv, MemoryFollows
    <2> SUFFICES ASSUME NEW id \in DOMAIN Now'.events
                 PROVE  \E p \in DOMAIN sent' : IsEvent(sent'[p]) /\ sent'[p] = Now'.events[id]
      BY Zenon DEF Answered
    <2>2. CASE id = c.command_id
      <3>1. Now'.events[id] = e
        BY <1>9, <2>2, ZenonT(40) DEF Overlay, Single
      <3> QED BY <1>6, <1>8, <3>1, Zenon
    <2>3. CASE id # c.command_id
      <3>1. id \in DOMAIN Now.events /\ Now'.events[id] = Now.events[id]
        BY <1>9, <2>3, ZenonT(40) DEF Overlay, Single
      <3> QED BY <2>1, <3>1, Zenon DEF Answered
    <2> QED BY <2>2, <2>3, ZenonT(40)
  <1>14. At(db)' = At(db) /\ At(disk)' = At(disk)
    BY <1>1, Zenon DEF At
  <1>15. /\ Answered(sent', At(db)) /\ Answered(sent', At(disk))
    BY <1>8, AnswersStay, Zenon DEF FInv, DbFollows
  <1>16. MemoryFollows'
    BY <1>1, <1>10, <1>11, <1>12, <1>13, Zenon DEF MemoryFollows
  <1>17. DbFollows(db)' /\ DbFollows(disk)'
    BY <1>1, <1>14, <1>15, Zenon DEF FInv, DbFollows
  <1> QED BY <1>1, <1>8, <1>16, <1>17, Zenon DEF FInv

LEMMA WithoutTwice ==
    ASSUME NEW F, NEW D PROVE Without(Without(F, D), {}) = Without(F, D)
  BY Zenon DEF Without

\* A flush.
LEMMA FlushFInv ==
    ASSUME IInv, SInv, MInv, FInv, UNCHANGED disk, Flush PROVE FInv'
  <1> DEFINE T == to_be_deleted_account_ids
             k == applied_index - APPLIED_INDEX
  <1>1. /\ UNCHANGED <<log, applied_index, last_seq_num, offset, disk, sent>>
        /\ todo = 0 /\ db' = Write(db, wb) /\ accounts' = Without(accounts, T) /\ T' = {}
        /\ event_cache' = EmptyTable /\ (MustFlush \/ MayFlush)
    BY Zenon DEF Flush
  <1>2. offset = 0 /\ applied_index > flushed_applied_index
    BY <1>1, ApplyAssumption, SMTT(40) DEF IInv, ProgressOK, MustFlush, MayFlush
  <1>3. /\ db'.event = Overlay(db.event, event_cache) /\ DbLastSeqNum(db') = last_seq_num
        /\ DbAppliedIndex(db') = applied_index
    BY <1>1, <1>2, FlushedTables, Zenon
  <1>4. db'.account = Without(accounts, T)
    BY <1>1, Zenon DEF MInv, MemoryMatchesBatch
  <1>5. Now' = Now /\ At(disk)' = At(disk)
    BY <1>1, Zenon DEF Now, At
  <1>6. At(db)' = Now
    <2>1. IsLog(log) /\ k \in 0..Len(log)
      BY Placed, Zenon DEF IsPlace
    <2>2. LedgerAt(log, k, 0) = LogRun(log)[k]
      BY <2>1, WholeEntries, Zenon
    <2> QED BY <1>1, <1>2, <1>3, <2>2, Zenon DEF Now, At
  <1>7. EventsFrom(db'.event, Now) /\ EventsFrom(event_cache', Now)
    <2>1. EventsFrom(db.event, Now) /\ EventsFrom(event_cache, Now)
      BY Zenon DEF FInv, MemoryFollows
    <2>2. EventsFrom(Overlay(db.event, event_cache), Now)
      BY <2>1, EventsMerged, Zenon
    <2> QED BY <1>1, <1>3, <2>2, NoEvents, Zenon
  <1>8. Without(accounts', {}) = Now.accounts /\ Without(db'.account, {}) = Now.accounts
    BY <1>1, <1>4, WithoutTwice, Zenon DEF FInv, MemoryFollows
  <1>9. MemoryFollows'
    BY <1>1, <1>5, <1>7, <1>8, Zenon DEF FInv, MemoryFollows
  <1>10. DbFollows(db)'
    BY <1>1, <1>3, <1>6, <1>7, <1>8, Zenon DEF FInv, MemoryFollows, DbFollows
  <1>11. DbFollows(disk)'
    BY <1>1, <1>5, Zenon DEF FInv, DbFollows
  <1> QED BY <1>1, <1>9, <1>10, <1>11, Zenon DEF FInv

\* A batch of the GC.
LEMMA GcFInv ==
    ASSUME IInv, SInv, FInv, UNCHANGED disk, GcWrite PROVE FInv'
  <1>1. UNCHANGED <<log, applied_index, offset, last_seq_num, accounts, to_be_deleted_account_ids,
                    event_cache, disk, sent>>
    BY Zenon DEF GcWrite, smMemory, smContext, smLoop
  <1>2. /\ db'.account = Without(db.account, {}) /\ db'.event = Without(db.event, DOMAIN gc_ids)
        /\ DbLastSeqNum(db') = DbLastSeqNum(db) /\ DbAppliedIndex(db') = DbAppliedIndex(db)
    BY GcWritten, Zenon
  <1>3. Now' = Now /\ At(db)' = At(db) /\ At(disk)' = At(disk)
    BY <1>1, <1>2, Zenon DEF Now, At
  <1>4. EventsFrom(db'.event, Now) /\ EventsFrom(db'.event, At(db))
    BY <1>2, EventsFewer, Zenon DEF FInv, MemoryFollows, DbFollows
  <1>5. Without(db'.account, {}) = Without(db.account, {})
    BY <1>2, WithoutTwice, Zenon
  <1>6. MemoryFollows'
    BY <1>1, <1>3, <1>4, Zenon DEF FInv, MemoryFollows
  <1>7. DbFollows(db)'
    BY <1>1, <1>2, <1>3, <1>4, <1>5, Zenon DEF FInv, DbFollows
  <1>8. DbFollows(disk)'
    BY <1>1, <1>3, Zenon DEF FInv, DbFollows
  <1> QED BY <1>1, <1>6, <1>7, <1>8, Zenon DEF FInv

\* The writes reach the disk.
LEMMA PersistFInv ==
    ASSUME FInv, Persist PROVE FInv'
  <1>1. disk' = db /\ UNCHANGED <<log, applied_index, offset, last_seq_num, accounts,
                                  to_be_deleted_account_ids, event_cache, db, sent>>
    BY ZenonT(40) DEF Persist, smVars, smMemory, smContext, smLoop
  <1>2. Now' = Now /\ At(db)' = At(db) /\ At(disk)' = At(db)
    BY <1>1, Zenon DEF Now, At
  <1> QED BY <1>1, <1>2, Zenon DEF FInv, MemoryFollows, DbFollows

\* A crash takes the apply loop back to where the database is.
LEMMA CrashFInv ==
    ASSUME IInv, SInv, FInv, NEW d \in {db, disk}, Crash(d) PROVE FInv'
  <1> DEFINE k == DbAppliedIndex(d) - APPLIED_INDEX
  <1>1. /\ db' = d /\ accounts' = d.account /\ applied_index' = DbAppliedIndex(d)
        /\ last_seq_num' = DbLastSeqNum(d) /\ event_cache' = EmptyTable
        /\ to_be_deleted_account_ids' = {} /\ offset' = 0 /\ UNCHANGED <<log, sent, disk>>
    BY ZenonT(40) DEF Crash, RecoverFromDb
  <1>2. LedgerAt(log, k, 0) = LogRun(log)[k]
    <2>1. IsLog(log) /\ k \in 0..Len(log)
      BY Placed, Zenon
    <2> QED BY <2>1, WholeEntries, Zenon
  <1>3. Now' = At(d) /\ At(db)' = At(d) /\ At(disk)' = At(disk)
    BY <1>1, <1>2, Zenon DEF Now, At
  <1>4. DbFollows(d)
    BY ZenonT(40) DEF FInv
  <1>5. MemoryFollows'
    BY <1>1, <1>3, <1>4, NoEvents, Zenon DEF MemoryFollows, DbFollows
  <1>6. DbFollows(db)'
    BY <1>1, <1>3, <1>4, Zenon DEF DbFollows
  <1>7. DbFollows(disk)'
    BY <1>1, <1>3, Zenon DEF FInv, DbFollows
  <1> QED BY <1>1, <1>5, <1>6, <1>7, Zenon DEF FInv

\* The steps of a replica, as the ledger sees them.
LEMMA FollowSteps ==
    ASSUME [Next]_vars
    PROVE  \/ UNCHANGED <<log, applied_index, offset, last_seq_num, accounts,
                          to_be_deleted_account_ids, event_cache, db, disk, sent>>
           \/ Commit /\ UNCHANGED disk
           \/ ((HandleDuplicate /\ HasEvent(dup)) \/ RejectCommand) /\ UNCHANGED disk
           \/ ExecuteCommand /\ UNCHANGED disk
           \/ (FinishEntry \/ Flush \/ GcWrite) /\ UNCHANGED disk
           \/ Persist
           \/ \E d \in {db, disk} : Crash(d)
  <1>1. CASE Commit /\ UNCHANGED others
    BY <1>1, ZenonT(40) DEF others
  <1>2. CASE ApplyStep /\ UNCHANGED others
    BY <1>2, ZenonT(40) DEF ApplyStep, BatchRecv, FindDuplicate, HandleDuplicate, SkipFlush,
       smMemory,
                smContext, others
  <1>3. CASE GcStep /\ UNCHANGED <<disk, crashes>>
    <2>1. GcWrite \/ UNCHANGED smVars
      BY <1>3, Zenon DEF GcStep, GcReadFirst, ShouldGc, GcScan
    <2> QED BY <1>3, <2>1, Zenon DEF smVars, smMemory, smContext, smLoop
  <1>4. CASE ProcessCrash \/ MachineCrash
    BY <1>4, Zenon DEF ProcessCrash, MachineCrash
  <1>5. CASE UNCHANGED vars
    BY <1>5, ZenonT(40) DEF vars, smVars, smMemory, smContext, smLoop
  <1> QED BY <1>1, <1>2, <1>3, <1>4, <1>5, ZenonT(40) DEF Next, ReplicaStep, others

LEMMA NextFInv ==
    /\ IInv /\ SInv /\ SInv' /\ AInv /\ MInv /\ FInv
    /\ NoTombstoneMet /\ NoLateRetry /\ [Next]_vars
    => FInv'
  BY FollowSteps, QuietFInv, CommitFInv, ReplyFInv, ExecuteFInv, FinishFInv, FlushFInv, GcFInv,
     PersistFInv, CrashFInv, ZenonT(40)

LEMMA NoTombstoneConfigured == NoTombstoneMet => NoConfigOnTombstone
  <1> SUFFICES ASSUME NoTombstoneMet, HandlesNew, CurrentCommand.kind = "Config"
               PROVE  CurrentCommand.id \notin to_be_deleted_account_ids
    BY Zenon DEF NoConfigOnTombstone
  <1>1. Names(CurrentCommand) = {CurrentCommand.id}
    BY ZenonT(40) DEF Names
  <1> QED BY <1>1, ZenonT(40) DEF NoTombstoneMet

\* Where no command meets a tombstone and none is retried too late, the replica follows
\* the ledger.
LEMMA FollowsLedger ==
    Spec /\ []NoTombstoneMet /\ []NoLateRetry => [](IInv /\ SInv /\ AInv /\ MInv /\ FInv)
  BY InitFInv, NextFInv, NoTombstoneConfigured, BatchInvariance, PTL DEF Spec

\* A step of the replica is a step of the ledger.
LEMMA LedgerStep ==
    /\ IInv /\ SInv /\ AInv /\ FInv
    /\ NoTombstoneMet /\ NoLateRetry /\ [Next]_vars
    => [L!Commit \/ L!Answer]_<<log, sent>>
  <1> SUFFICES ASSUME IInv, SInv, AInv, FInv, NoTombstoneMet, NoLateRetry, [Next]_vars
               PROVE  L!Commit \/ L!Answer \/ UNCHANGED <<log, sent>>
    BY Zenon
  <1>1. CASE Commit
    BY <1>1, ZenonT(40) DEF Commit, L!Commit, LastIndex
  <1>2. ASSUME \E p \in DOMAIN LedgerReplies(log) :
                  sent' = Overlay(sent, Single(p, LedgerReplies(log)[p])), UNCHANGED log
        PROVE  L!Answer
    <2>1. \A f, g : L!Overlay(f, g) = Overlay(f, g)
      BY Zenon DEF L!Overlay, Overlay
    <2>2. \A k, v : L!Single(k, v) = Single(k, v)
      BY Zenon DEF L!Single, Single
    <2> QED BY <1>2, <2>1, <2>2, Zenon DEF L!Answer
  <1>3. CASE (HandleDuplicate /\ HasEvent(dup)) /\ UNCHANGED disk
    BY <1>2, <1>3, ReplyFInv, Zenon DEF HandleDuplicate
  <1>4. CASE RejectCommand /\ UNCHANGED disk
    BY <1>2, <1>4, ReplyFInv, Zenon DEF RejectCommand
  <1>5. CASE ExecuteCommand /\ UNCHANGED disk
    BY <1>2, <1>5, ExecuteFInv, Zenon DEF ExecuteCommand
  <1>6. CASE FinishEntry \/ Flush \/ GcWrite \/ Persist
    BY <1>6, ZenonT(40) DEF FinishEntry, Flush, GcWrite, Persist, smVars
  <1>7. ASSUME NEW d \in {db, disk}, Crash(d) PROVE UNCHANGED <<log, sent>>
    BY <1>7, ZenonT(40) DEF Crash
  <1> QED BY <1>1, <1>3, <1>4, <1>5, <1>6, <1>7, FollowSteps, ZenonT(40)

\* ImplementsLedger for every log, batch size, GC configuration and sequence of crashes
\* of the process or of the machine, as long as no command meets a tombstone and none is
\* retried after its event was truncated: whatever was lost and replayed, the reply to
\* every command is the one that the log alone determines, and is never taken back.
THEOREM RefinesLedger == Spec /\ []NoTombstoneMet /\ []NoLateRetry => ImplementsLedger
  <1>1. Init => L!Init
    BY Zenon DEF Init, SMInit, L!Init, EmptyTable, L!EmptyTable
  <1> QED BY <1>1, LedgerStep, FollowsLedger, PTL DEF Spec, ImplementsLedger, L!Spec

-----------------------------------------------------------------------------
(* A wallet that deletes no accounts and whose event log is not truncated. *)

NoDeletes ==
    \A i \in APPLIED_INDEX+1..MaxIndex : \A entry \in Entries(i) :
        \A k \in DOMAIN entry : entry[k].kind # "Delete"

NothingGone ==
    /\ to_be_deleted_account_ids = {}
    /\ \A i \in DOMAIN log : \A k \in DOMAIN log[i] : log[i][k].kind # "Delete"
    /\ gc = "first" /\ DbFirstSeqNum(db) = 0 /\ DbFirstSeqNum(disk) = 0

LEMMA NothingGoes ==
    ASSUME NoDeletes, ~GcEnabled
    PROVE  Spec => []NothingGone
  <1>1. Init => NothingGone
    <2> SUFFICES ASSUME Init PROVE NothingGone
      BY Zenon
    <2>1. /\ to_be_deleted_account_ids = {} /\ log = << >> /\ gc = "first"
          /\ db = EmptyDB /\ disk = EmptyDB
      BY Zenon DEF Init, SMInit, GcIdle
    <2>2. DbFirstSeqNum(EmptyDB) = 0
      BY Zenon DEF EmptyDB, Tables, EmptyTable, DbFirstSeqNum, GetOr
    <2> QED BY <2>1, <2>2, SMTT(40) DEF NothingGone
  <1>2. IInv /\ SInv /\ NothingGone /\ [Next]_vars => NothingGone'
    <2> SUFFICES ASSUME IInv, SInv, NothingGone, [Next]_vars PROVE NothingGone'
      BY ZenonT(40)
    <2>1. ~GcStep
      BY Zenon DEF NothingGone, GcStep, GcReadFirst, ShouldGc, GcScan, GcWrite
    <2>2. UNCHANGED gcVars \/ \E d \in {db, disk} : Crash(d)
      BY <2>1, ZenonT(40) DEF Next, ReplicaStep, Persist, ProcessCrash, MachineCrash, vars
    <2>3. gc' = "first"
      BY <2>2, Zenon DEF NothingGone, gcVars, Crash, GcRestart
    <2>4. CASE UNCHANGED <<log, to_be_deleted_account_ids, db, disk>>
      BY <2>3, <2>4, Zenon DEF NothingGone
    <2>5. CASE Commit /\ UNCHANGED disk
      <3>1. PICK entry \in Entries(LastIndex + 1) : log' = Append(log, entry)
        BY <2>5, ZenonT(40) DEF Commit
      <3>2. /\ log \in Seq(Seq(Command)) /\ LastIndex + 1 \in APPLIED_INDEX+1..MaxIndex
            /\ UNCHANGED <<to_be_deleted_account_ids, db, disk>>
        BY <2>5, ApplyAssumption, SMTT(40) DEF Commit, smMemory, smContext, smLoop, SInv, LogOK,
           LastIndex
      <3>3. \A k \in DOMAIN entry : entry[k].kind # "Delete"
        BY <3>1, <3>2, Zenon DEF NoDeletes
      <3>4. \A i \in DOMAIN log' : (i \in DOMAIN log /\ log'[i] = log[i]) \/ log'[i] = entry
        BY <3>1, <3>2, SMTT(40)
      <3>5. \A i \in DOMAIN log' : \A k \in DOMAIN log'[i] : log'[i][k].kind # "Delete"
        BY <3>3, <3>4, Zenon DEF NothingGone
      <3> QED BY <2>3, <3>2, <3>5, Zenon DEF NothingGone
    <2>6. CASE ExecuteCommand /\ UNCHANGED disk
      <3>1. todo > 0 /\ offset < Len(CurrentEntry) /\ UNCHANGED <<log, db>>
        BY <2>6, Zenon DEF ExecuteCommand, Handling
      <3>2. /\ applied_index + 1 - APPLIED_INDEX \in DOMAIN log
            /\ CurrentEntry \in Seq(Command) /\ offset \in Nat
        BY <3>1, Current, ZenonT(40) DEF SInv
      <3>3. offset + 1 \in DOMAIN CurrentEntry
        BY <3>1, <3>2, SMTT(40)
      <3>4. CurrentCommand.kind # "Delete"
        BY <3>2, <3>3, Zenon DEF NothingGone, CurrentEntry, CurrentCommand
      <3>5. to_be_deleted_account_ids' = to_be_deleted_account_ids
        BY <2>6, <3>4, Zenon DEF ExecuteCommand
      <3> QED BY <2>3, <2>6, <3>1, <3>5, Zenon DEF NothingGone
    <2>7. CASE Flush /\ UNCHANGED disk
      <3>1. applied_index > flushed_applied_index /\ offset = 0
        BY <2>7, FlushIsDue, Zenon
      <3>2. DbFirstSeqNum(Write(db, wb)) = DbFirstSeqNum(db)
        BY <3>1, FlushedTables, Zenon
      <3> QED BY <2>3, <2>7, <3>2, Zenon DEF Flush, NothingGone
    <2>8. CASE Persist
      BY <2>3, <2>8, Zenon DEF Persist, NothingGone, smVars, smContext
    <2>9. ASSUME NEW d \in {db, disk}, Crash(d) PROVE NothingGone'
      BY <2>3, <2>9, ZenonT(40) DEF Crash, RecoverFromDb, NothingGone
    <2>10. CASE (FinishEntry \/ RejectCommand \/ HandleDuplicate) /\ UNCHANGED disk
      BY <2>4, <2>10, ZenonT(40) DEF FinishEntry, RejectCommand, HandleDuplicate, smContext
    <2> QED BY <2>1, <2>4, <2>5, <2>6, <2>7, <2>8, <2>9, <2>10, FollowSteps, ZenonT(40) DEF GcStep
  <1> QED BY <1>1, <1>2, ReplyInvariance, PTL DEF Spec

\* ImplementsLedger without any condition on the behaviour, for every wallet that deletes
\* no accounts and runs without the GC thread: caches, batches, flushes, crashes, lost
\* writes, replays and retries are not seen from outside.
THEOREM RefinesLedgerAlways ==
    ASSUME NoDeletes, ~GcEnabled
    PROVE  Spec => ImplementsLedger
  <1>1. NothingGone => NoTombstoneMet
    BY Zenon DEF NothingGone, NoTombstoneMet
  <1>2. NothingGone => NoLateRetry
    BY Zenon DEF NothingGone, NoLateRetry
  <1> QED BY <1>1, <1>2, NothingGoes, RefinesLedger, PTL

=============================================================================
