--------------------------- MODULE MCWalletReplicas ---------------------------
(***************************************************************************)
(* WalletReplicas for TLC.                                                 *)
(***************************************************************************)
EXTENDS WalletReplicas

CONSTANT a

ReplicaAccountIds == {a}
ReplicaCommandIds == 1..3
ReplicaReservationIds == {}

Create(c, id) == [kind |-> "Create", command_id |-> c, id |-> id, limit |-> NoLimit]
Delete(c, id) == [kind |-> "Delete", command_id |-> c, id |-> id]

\* An account is created, deleted and created again.
DeletingEntries(i) ==
    CASE i = APPLIED_INDEX + 1 -> {<<Create(1, a)>>}
      [] i = APPLIED_INDEX + 2 -> {<<Delete(2, a)>>}
      [] OTHER -> {<<Create(3, a)>>}
=============================================================================
