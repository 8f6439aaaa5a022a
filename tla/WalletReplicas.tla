---------------------------- MODULE WalletReplicas ----------------------------
(***************************************************************************)
(* Two replicas of the wallet that apply the same raft log.  Each has its  *)
(* own RocksDB, flushes when its own loop and clock say so, truncates its  *)
(* own event log, and crashes on its own.  The first replica is Wallet     *)
(* itself, the second an instance of it.                                   *)
(***************************************************************************)
EXTENDS Wallet

VARIABLES
    db2, accounts2, applied_index2, last_seq_num2, seq_num_cache2, event_cache2,
    wb2, to_be_deleted_account_ids2, flushed_applied_index2,
    loop2, todo2, offset2, dup2, sent2,
    gc2, gc_first2, gc_from2, gc_next2, gc_ids2, disk2, crashes2

R2 == INSTANCE Wallet WITH
        db <- db2, accounts <- accounts2, applied_index <- applied_index2,
        last_seq_num <- last_seq_num2, seq_num_cache <- seq_num_cache2,
        event_cache <- event_cache2, wb <- wb2,
        to_be_deleted_account_ids <- to_be_deleted_account_ids2,
        flushed_applied_index <- flushed_applied_index2,
        loop <- loop2, todo <- todo2, offset <- offset2, dup <- dup2, sent <- sent2,
        gc <- gc2, gc_first <- gc_first2, gc_from <- gc_from2, gc_next <- gc_next2,
        gc_ids <- gc_ids2, disk <- disk2, crashes <- crashes2

vars2 ==
    <<db2, accounts2, applied_index2, last_seq_num2, seq_num_cache2, event_cache2,
      wb2, to_be_deleted_account_ids2, flushed_applied_index2,
      loop2, todo2, offset2, dup2, sent2,
      gc2, gc_first2, gc_from2, gc_next2, gc_ids2, disk2, crashes2>>

RInit == Init /\ R2!Init

\* An entry is committed for both replicas, or one replica takes a step.
RNext ==
    \/ Next /\ UNCHANGED vars2
    \/ R2!ReplicaStep /\ UNCHANGED vars

RSpec == RInit /\ [][RNext]_<<vars, vars2>>

-----------------------------------------------------------------------------
\* The accounts without the tombstones that wait for the next flush.
Live(accs, tombstones) == Without(accs, tombstones)

\* Replicas of one log agree.  When they have applied the same entries they are in
\* the same state - the same accounts, and the same position in the event stream -
\* whatever either of them has flushed or lost in a crash; and whichever of them is
\* the leader and answers a command, the answer is the same ("Each node of the
\* `wallet-service` cluster has consistent state", docs/quickstart.md:208).
ReplicasAgree ==
    /\ applied_index = applied_index2 /\ offset = 0 /\ offset2 = 0 =>
         /\ Live(accounts, to_be_deleted_account_ids)
              = Live(accounts2, to_be_deleted_account_ids2)
         /\ last_seq_num = last_seq_num2
    /\ \A p \in DOMAIN sent \cap DOMAIN sent2 : sent[p] = sent2[p]
=============================================================================
