----------------------------- MODULE MCEventQuery -----------------------------
(***************************************************************************)
(* EventQuery for TLC: the life of two accounts with retries, enough       *)
(* events for the GC to truncate the oldest, and queries at both ends of   *)
(* what is left.                                                           *)
(***************************************************************************)
EXTENDS EventQuery

CONSTANTS a, b

QueryAccountIds == {a, b}
QueryCommandIds == 1..14
QueryReservationIds == {}

Batch(c, specs) == [kind |-> "Batch", command_id |-> c, specs |-> specs]
On(id, n) == [id |-> id, amount |-> n]
Limited(kind, c, id, limit) == [kind |-> kind, command_id |-> c, id |-> id, limit |-> limit]
Manage(kind, c, id) == [kind |-> kind, command_id |-> c, id |-> id]
Limit(lower, upper) == [lower |-> lower, upper |-> upper]

\* Accounts are created, locked, unlocked, limited, emptied, deleted and created
\* again, with operations that a state or a limit rejects.  No config update meets
\* a tombstone: accounts with limits are never empty.  No retry comes after its
\* event is truncated, and no event follows a create that meets a tombstone: their
\* outcome depends on the times of the flush and of the GC.
QueryEntries(i) ==
    CASE i = APPLIED_INDEX + 1 ->
           {<<Limited("Create", 1, a, NoLimit), Batch(2, <<On(b, 2)>>),
              Limited("Config", 3, b, Limit(1, 2)), Manage("Lock", 4, a),
              Manage("Unlock", 5, a), Batch(6, <<On(b, 0 - 1), On(a, 1)>>),
              Batch(7, <<On(b, 1)>>), Batch(8, <<On(a, 0 - 1)>>)>>}
      [] i = APPLIED_INDEX + 2 ->
           {<<Manage("Delete", 9, a), Limited("Create", 10, a, NoLimit)>>,
            <<Manage("Lock", 9, a), Batch(10, <<On(b, 0 - 1), On(a, 1)>>)>>,
            <<Limited("Config", 9, b, NoLimit), Batch(10, <<On(b, 0 - 1)>>)>>,
            <<Batch(5, <<On(b, 0 - 1)>>), Batch(9, <<On(b, 0 - 1), On(a, 1)>>), Batch(10, <<On(b, 0 - 1)>>)>>}
      [] OTHER ->
           {<<Limited("Create", 11, a, NoLimit), Manage("Delete", 12, b)>>,
            <<Batch(8, <<On(a, 0 - 1)>>)>>,
            <<Batch(9, <<On(a, 1)>>), Manage("Unlock", 12, a)>>}

QueryRequests == {<<1, 2>>, <<8, 10>>, <<10, 12>>}
=============================================================================
