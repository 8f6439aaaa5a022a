---------------------------- MODULE WalletCommands ----------------------------
(***************************************************************************)
(* The commands of the wallet (internal.rs) and their handlers             *)
(* (state_machine.rs): what a command makes of the accounts, as a function *)
(* of the accounts and of the command alone.                               *)
(***************************************************************************)
EXTENDS Account, Sequences

CONSTANTS AccountIds, CommandIds, ReservationIds

\* The raft log index of the first entry is one more (rocksdb_state.rs).
APPLIED_INDEX == 5

BalanceLimit == [lower : Decimal, upper : Decimal]

\* internal.rs: the requests; command_id is the dedup id of the request.
Command ==
    [kind : {"Transfer"}, command_id : CommandIds,
     from : AccountIds, to : AccountIds, amount : Decimal]
    \cup [kind : {"Batch"}, command_id : CommandIds,
          specs : Seq([id : AccountIds, amount : Decimal])]
    \cup [kind : {"Reserve"}, command_id : CommandIds, id : AccountIds,
          reservation_id : ReservationIds, amount : Decimal]
    \cup [kind : {"Release"}, command_id : CommandIds, id : AccountIds,
          reservation_id : ReservationIds, all : BOOLEAN, amount : Decimal]
    \cup [kind : {"Create", "Config"}, command_id : CommandIds, id : AccountIds,
          limit : BalanceLimit \cup {NoLimit}]
    \cup [kind : {"Lock", "Unlock", "Delete"}, command_id : CommandIds, id : AccountIds]

-----------------------------------------------------------------------------
(* The handlers.  Each maps the accounts and a request to an error or to   *)
(* the accounts to write, in order, and the payload of the event.          *)

get_or_create_account(accs, id) == GetOr(accs, id, New)

Written(id, account) == [id |-> id, account |-> account]

\* Mutant: the balances are swapped.
BalanceChangeSwapped(id, prev, curr) ==
    [id |-> id, prev |-> BalanceOf(curr), curr |-> BalanceOf(prev)]

BalanceChange(id, prev, curr) ==
    [id |-> id, prev |-> BalanceOf(prev), curr |-> BalanceOf(curr)]

Handled(writes, payload) == [err |-> "Ok", writes |-> writes, payload |-> payload]

\* The asset class is USD in every account, so the compatibility check passes.
\* The debit is computed from the stored account, like the credit, and written last.
handle_transfer(accs, r) ==
    LET from == get_or_create_account(accs, r.from)
        to == get_or_create_account(accs, r.to)
    IN AndThen(increase_balance_by(to, r.amount), LAMBDA new_to :
       AndThen(increase_balance_by(from, 0 - r.amount), LAMBDA new_from :
         Handled(<<Written(r.to, new_to), Written(r.from, new_from)>>,
                 <<BalanceChange(r.from, from, new_from), BalanceChange(r.to, to, new_to)>>)))

\* Every spec is applied to the stored account; the first failing one decides.
handle_batch_balance_operation(accs, r) ==
    LET old(i) == get_or_create_account(accs, r.specs[i].id)
        res(i) == increase_balance_by(old(i), r.specs[i].amount)
        failed == {i \in DOMAIN r.specs : res(i).err # "Ok"}
    IN IF failed # {}
       THEN res(CHOOSE i \in failed : \A j \in failed : i <= j)
       ELSE Handled([i \in DOMAIN r.specs |-> Written(r.specs[i].id, res(i).account)],
                    [i \in DOMAIN r.specs |->
                        BalanceChange(r.specs[i].id, old(i), res(i).account)])

\* Reserve and Release: an update of an existing account that reports balances.
handle_balance_update(accs, r, Update(_)) ==
    Require(r.id \in DOMAIN accs, "AccountNotExist",
    AndThen(Update(accs[r.id]), LAMBDA a :
        Handled(<<Written(r.id, a)>>, <<BalanceChange(r.id, accs[r.id], a)>>)))

handle_reserve(accs, r) ==
    handle_balance_update(accs, r, LAMBDA a : reserve(a, r.reservation_id, r.amount))

\* r.all: the request carries no amount, which releases the whole reservation.
handle_release(accs, r) ==
    handle_balance_update(accs, r, LAMBDA a :
        IF r.all THEN release_all(a, r.reservation_id)
                 ELSE partial_release(a, r.reservation_id, r.amount))

\* The config in the request is not used: Account::new sets the default one.
\* A tombstone in memory counts as an existing account.
handle_create_account(accs, r) ==
    Require(r.id \notin DOMAIN accs, "AccountAlreadyExist",
    Handled(<<Written(r.id, New)>>, <<Written(r.id, New)>>))

\* Lock, Unlock, Delete and UpdateAccountConfig report the updated account.
handle_account_update(accs, r, Update(_)) ==
    Require(r.id \in DOMAIN accs, "AccountNotExist",
    AndThen(Update(accs[r.id]), LAMBDA a :
        Handled(<<Written(r.id, a)>>, <<Written(r.id, a)>>)))

handle_lock_account(accs, r) == handle_account_update(accs, r, lock)

handle_unlock_account(accs, r) == handle_account_update(accs, r, unlock)

handle_delete_account(accs, r) == handle_account_update(accs, r, delete)

\* A request without a limit reads as the default message, whose empty bounds do
\* not parse: the account is left with a limit that fails every later operation.
get_balance_limit(r) ==
    IF r.limit = NoLimit THEN [lower |-> NotANumber, upper |-> NotANumber] ELSE r.limit

handle_update_account_config(accs, r) ==
    handle_account_update(accs, r, LAMBDA a : set_balance_limit(a, get_balance_limit(r)))

\* The dispatch of handle_command.
Handle(accs, c) ==
    CASE c.kind = "Transfer" -> handle_transfer(accs, c)
      [] c.kind = "Batch"    -> handle_batch_balance_operation(accs, c)
      [] c.kind = "Reserve"  -> handle_reserve(accs, c)
      [] c.kind = "Release"  -> handle_release(accs, c)
      [] c.kind = "Create"   -> handle_create_account(accs, c)
      [] c.kind = "Lock"     -> handle_lock_account(accs, c)
      [] c.kind = "Unlock"   -> handle_unlock_account(accs, c)
      [] c.kind = "Delete"   -> handle_delete_account(accs, c)
      [] c.kind = "Config"   -> handle_update_account_config(accs, c)

\* What a sequence of writes leaves: the last write of each account.
LastWrites(writes) ==
    [id \in {writes[i].id : i \in DOMAIN writes} |->
        writes[CHOOSE i \in DOMAIN writes :
                 /\ writes[i].id = id
                 /\ \A j \in DOMAIN writes : writes[j].id = id => j <= i].account]

-----------------------------------------------------------------------------
(* Events.                                                                 *)

\* The event of a command, with its header (Event::set_header).
Event(c, seq_num, position, payload) ==
    [command_id |-> c.command_id, kind |-> c.kind, seq_num |-> seq_num,
     position |-> position, payload |-> payload]

\* Mutant: the types are not compared.
ReplyOfAnyType(c, event) == event

\* The reply to a command whose id has an event already: that event, if it is of
\* the command's type (assert_command_and_event_match).
DuplicateReply(c, event) ==
    IF event.kind = c.kind THEN event ELSE Failure("ConflictDedupId")
=============================================================================
