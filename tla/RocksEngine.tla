------------------------------ MODULE RocksEngine ------------------------------
(***************************************************************************)
(* The RocksDB engine as the wallet uses it (rocks_engine.rs, keys.rs): a  *)
(* key space split by key prefix into tables, point reads, and write       *)
(* batches that take effect as one atomic write.                           *)
(*                                                                         *)
(* A table is a function from its keys to its values.  A write batch       *)
(* remembers, per table, the last put or delete of each key it mentions.   *)
(***************************************************************************)
EXTENDS Integers, FiniteSets

\* keys.rs: 'z' + account id, 'y' + command id, 'x' + seq_num, and the plain
\* keys of the hard states (applied_index, first_seq_num, last_seq_num).
Tables == {"account", "dedup", "event", "hard"}

EmptyTable == [k \in {} |-> 0]

EmptyDB == [t \in Tables |-> EmptyTable]

-----------------------------------------------------------------------------
(* Partial functions.                                                      *)

\* g wins where both are defined.
Overlay(f, g) ==
    [k \in DOMAIN f \cup DOMAIN g |-> IF k \in DOMAIN g THEN g[k] ELSE f[k]]

Single(k, v) == [x \in {k} |-> v]

Without(f, S) == [k \in DOMAIN f \ S |-> f[k]]

-----------------------------------------------------------------------------
(* Write batches.                                                          *)

EmptyBatch == [put |-> EmptyDB, del |-> [t \in Tables |-> {}]]

\* Puts of several keys of one table (a put cancels an earlier delete).
PutAll(batch, t, f) ==
    [put |-> [batch.put EXCEPT ![t] = Overlay(@, f)],
     del |-> [batch.del EXCEPT ![t] = @ \ DOMAIN f]]

Put(batch, t, k, v) == PutAll(batch, t, Single(k, v))

\* Deletes of several keys of one table (a delete cancels an earlier put).
DeleteAll(batch, t, S) ==
    [put |-> [batch.put EXCEPT ![t] = Without(@, S)],
     del |-> [batch.del EXCEPT ![t] = @ \cup S]]

\* write_opt: the database after the batch is written, all of it at once.
Write(database, batch) ==
    [t \in Tables |-> Overlay(Without(database[t], batch.del[t]), batch.put[t])]

\* get_value / get_msg with the default a caller uses for a missing key.
GetOr(table, k, default) == IF k \in DOMAIN table THEN table[k] ELSE default
=============================================================================
