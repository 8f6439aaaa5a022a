# A TLA+ model of the Auticuro wallet

Auticuro is a wallet service: accounts with balances, kept in the memory of every node of a raft
cluster. Commands (transfer, reserve, create account, ...) are written to the raft log; every
node applies the log to its own state machine, records one event per successful command, and now
and then flushes what changed to its RocksDB. This directory holds a model of that system in
TLA+, the TLC configurations that check it on small instances, and proofs that TLAPS checks for
instances of every size.

## The system

### Parts, state and operations

| Part | Source | State | Operations |
|---|---|---|---|
| Account | `account.rs`, `balance_calculator.rs` | available balance, reservations, state, balance limit | increase, reserve, release, lock, unlock, delete, set limit: each checks and returns a copy |
| State machine | `state_machine.rs`, `internal.rs` | accounts, applied index, last sequence number, caches of dedup ids and events | one handler per command, duplicate check |
| Apply loop | `state_machine.rs` | write batch, tombstones, flushed index | receive a batch of entries, apply, flush by size or by time, recover |
| Wallet RocksDB | `rocksdb_state.rs`, tiny-mq `rocks_engine.rs`, `keys.rs` | accounts, dedup ids, events, three hard states | point reads, scans, atomic unsynced batches |
| Event log GC | `gc.rs` | first and next sequence number of the round | read hard states, scan and delete in batches |
| Event query | `service.rs` | the range asked for | read hard states, read events one by one |
| Message broker | `message_broker.rs`, `utils.rs` | waiting requests, waiting events | join requests, join events, drop old events, expire old requests |
| gRPC service | `service.rs` | one task per request | propose the command, wait for the position's event, make a response of it; read an account under the lock of the state machine |
| Message queue | tiny-mq `message_queue_adapter.rs` | next index to consume | propose, read committed entries from the raft log, deliver |
| Raft store | tiny-mq `peer.rs`, `store.rs`, `apply.rs`, `peer_storage.rs` | raft log, hard state, apply state, pending proposals | propose, append, commit, apply, answer, compact |
| Raft transport | tiny-mq `raft_client.rs`, `kv.rs`, tikv-util `lru.rs` | a bounded queue and a waker per peer, a cache of the queues, the queues to flush | push, notify, fill the buffer, stream, reconnect, drop what is pending |
| Bootstrap and start | tiny-mq `node.rs`, `bootstrap.rs`, `startup.rs`, `store.rs` | store ident, region state, raft state, threads | check, write the initial states, recover, spawn, serve |
| Gateway | `firm-wallet-gateway`, `gateway_framework` | the connection to the leader and its number, behind a mutex | forward, retry, probe, reset leader |
| Postgres persistence | `postgres_utils` | pending batch | collect, write in a transaction, retry |

### What is hard about it

* The apply thread, the GC thread, the query threads and the broker share one RocksDB or its
  channels, and each does several reads and writes that the others can come between.
* A crash loses the memory, a crash of the machine also the unsynced writes; replay must arrive at
  the same events under the same sequence numbers, since clients and downstream have seen them.
* Clients retry; a command id must take effect once as long as its event is retained.
* Replicas flush and truncate at times of their own, and must still agree.
* Requests and events meet in the broker in either order, or one of them never comes.
* A store has three threads and two databases, of which only one is written with a sync; leaders
  change while proposals wait for their callbacks.
* Log compaction looks at the raft peers, not at the consumer that feeds the wallet, and there are
  no snapshots (`PeerStorage::snapshot` is `todo!()`).
* The raft thread feeds asynchronous tasks through lock-free queues: the waker, the flag that says
  a queue is dirty and the cache that holds the flag must never disagree about who has to wake whom.
* The calls of a gateway share one connection that each of them may find broken, and retry commands
  whose first attempt may still be on its way.
* The bootstrap writes three states in two databases, and a crash may come between any two.

`PROJECT.json` lists these hazards with the line where each bites and the properties about it.

## Modules

| Module | Models |
|---|---|
| `RocksEngine` | tables by key prefix, write batches, atomic writes |
| `Account` | the operations of one account |
| `WalletCommands` | commands, handlers, events, dedup rules, as functions of the accounts |
| `LedgerRun` | the ledger that a log determines, one command after the other, as recursive functions |
| `Ledger` | what the wallet promises: each command id executes once, in log order, and the reply of a position is a function of the log |
| `WalletStateMachine` | the apply loop, with flush and recovery |
| `EventLogGC` | the GC thread next to it |
| `Wallet` | one replica: both threads, write-back to disk, crashes of the process and of the machine; its properties |
| `WalletLedger` | the refinement of `Ledger` |
| `WalletMoney` | the properties about sums of money |
| `WalletReplicas` | two replicas of one log |
| `WalletService` | the responses of the command RPCs, and the read RPCs |
| `EventQuery` | clients that query the event log of a replica and read its accounts |
| `MessageBroker` | broker, waiting gRPC tasks and the apply loop that sends events |
| `MessageBrokerProofs` | its inductive invariant and theorems |
| `WalletProofs` | inductive invariants and theorems about the event log, the replies and the queries of a replica |
| `LedgerRunProofs` | what the handlers write, and what the ledger of a log, of a part of it and of a longer one have in common |
| `LedgerProofs` | theorems about the accounts of a replica; the replica implements `Ledger` |
| `ToldProofs` | theorems about the events and the accounts that the clients of a replica are told, across crashes |
| `RaftLog` | logs, apply states, queues of proposals, recovery checks, as functions |
| `RaftStore` | one store: raft thread, apply thread, raft-log GC worker, both databases, crashes; its properties |
| `AppliedLog` | what a store promises to those who read its log |
| `MessageQueue` | the log consumer and the apply loop over an `AppliedLog` |
| `MessageQueueProofs` | its inductive invariant and theorems |
| `LruCache` | the LRU cache of tikv-util, as functions |
| `RaftClient` | the transport of one store: raft thread, back-end tasks, streams; its properties |
| `RaftClientProofs` | its inductive invariants and theorems |
| `StoreStart` | bootstrap and start of a store, with crashes |
| `Gateway` | calls of one gateway, the shared connection, and the cluster they go to; its properties |
| `GatewayProofs` | its inductive invariants and theorems |
| `MC...` | instances for TLC |

The parts are joined by abstraction. `RaftStore` implements `AppliedLog` (checked); `MessageQueue`
is built on `AppliedLog`, and shows that the wallet gets exactly the decided entries, in order, once
(proved); `Wallet` takes such a log as given, and implements `Ledger` (proved). `WalletService` and
`EventQuery` are built on `Wallet`. `RaftClient` stands for itself: the loss, delay and reordering
across connections that it shows is what the environment of `RaftStore` allows. `Gateway` takes of
the cluster what `RaftStore` and `Ledger` establish: a command is executed once however many of its
attempts are committed, a command that failed may succeed later, and a proposal ends committed or
overwritten.

### Correspondence

`WalletStateMachine` has the fields of `StateMachine` and `ApplyContext` as variables, under their
names. The program counter of `ApplyLoop::run` is `loop`, `todo` (entries of the received batch
still to apply), `offset` (commands of the entry already handled) and `dup` (what the first of the
two reads of the duplicate check returned). The apply thread owns its memory, so a command is one
step unless it reads the database twice: the duplicate check is `FindDuplicate` and then
`HandleDuplicate`. `Flush` is one step: RocksDB writes a batch atomically. Whether the 100 ms have
passed is left open: `MayFlush` allows the flush after any batch of entries, `MustFlush` forces it.

The database is `db` as its readers see it. None of the wallet's writes is synced, so there is also
`disk`, which catches up at any time (`Persist`); a crash of the machine restarts from `disk`.

Account balances are decimals of arbitrary precision; the model uses integers for the amounts that
parse and one value `NotANumber` for those that do not. Asset classes are all USD in the code.
`log` is the committed raft log; its first entry has index 6, because raft-rs starts at 5.

The GC's reads and its write are steps of their own, as are all reads of a query. The assertion of a
query on the seq_num of what it reads (`service.rs:223`) is the outcome `Panic`. In the broker a
position is a number, and the event of a position is represented by the position. The apply loop holds
the only sender of events: after it has panicked, the broker panics in `batch_recv` (`utils.rs:34`) as
soon as it finds fewer events than it may take, and with it every gRPC thread that waits, since the
senders they wait for are dropped. The process lives on, without broker and apply loop, until it is
restarted.

`RaftStore` has a record per thread. `peer.pc` is where the raft thread is in its poll: handling
messages, collecting a ready (`handle_raft_ready_append`), writing the raft database with a sync
(`write_raft_db`), sending what had to wait and advancing (`handle_raft_ready_advance`). The apply
thread executes tasks, writes the kv database without a sync, and then answers. `kv` is the sequence
of apply states since the last sync, so a machine crash picks one of them. Proposals are matched with
entries by the two queues of the code, `ProposalQueue` and `PendingCmdQueue`, as one function,
`find_proposal`. `cluster` is the environment, raft-rs and the other peers: a log per leader, and how
much is decided. It keeps what Raft promises and nothing else, and messages may be lost, delayed and
repeated (`HandleAppend` may hear any leader that is not behind, as far as it likes). The log that
the library hands out as committed is limited to what the store has persisted, as raft-rs does.

In `MessageQueue` the consumer's reads of the apply state, the fetch and each send are steps of their
own. A range longer than `RAFT_LOG_MULTI_GET_CNT` is scanned, and a scan that finds nothing is no
error. `Retained` is the number of entries that compaction leaves before the applied index: for
`RaftStore` it is `raft_log_gc_count_limit - raft_log_gc_count_limit / 10 + 1`. A panic ends its
thread only, since the code installs no panic hook.

In `WalletService` each command RPC is a function from the command and the reply at its position to
the response; the kind of an event that is not the expected one gives the default response, as the
generated getters do. A read is one step, possible when the apply loop does not hold the lock.

`RaftClient` splits the code where another thread may come between: `notify` looks at the queue and
takes the waker in two steps, `pop` tries, leaves the waker and tries again in three. A waker is the
number of its connection, so that one left by an earlier connection wakes nobody. The cache keeps
the order of use, its capacity and the sampling of promotions; the value of an entry is the `dirty`
flag. The number of connection attempts is kept up to two, which is all that the code tells apart.
A panic of the raft thread (a full queue) or of a task (`try_pop().unwrap()`) is a state of its own.

In `Gateway` a call is at the mutex, probing, connecting, sending, or waiting for the node. The
mutex is held from the start of a reset to its end, by whoever is probing or connecting. A
connection has the number `conn`, which the code has not: it tells whether a call failed over the
connection that is there now. `proposals` are the attempts whose fate is open: in the log of a node,
or (`node = 0`) on their way to one: forwarded by a follower that has answered NotLeader, or still in
flight when the gateway gave up the request (`GivenUp`: the timeout of the channel, or any gRPC
error). The calls with such an attempt are `astray`. `faults` counts what the bound
limits: elections while the leader is well, crashes, timeouts, late answers, stale or failed probes
of a healthy node, cancelled calls.

`StoreStart` keeps of the databases which of the three states they hold, and of the kv database also
what is synced. A crash of the machine restarts from that.

## Runs

| Run | Shows |
|---|---|
| `balance` | the replica implements `Ledger` (without GC), events explain the balances and money is conserved where commands name each account once, every RPC makes a proper response of what it is answered with |
| `events` | the event log under GC, queries, reads and crashes: no gaps, dedup ids and events inverse to each other, memory is what the next flush makes of the database, complete and stable answers, repeatable reads; over the life of accounts from creation to deletion and creation again |
| `retries` | with GC and retries at any time: a command is executed again only after its event was truncated, the apply thread panics only when the GC comes between the two reads of the duplicate check, entries get flushed and the event log truncated, again and again |
| `broker` | no join is missed, every waiting request is tracked, never timed out early, and eventually answered, unless the apply loop has panicked |
| `leaders` | a store through elections and a crash: answers name the entry that holds the command, StaleCommand means not decided, no assertion of the code fails, promises to other peers are durable, only decided entries are applied |
| `compaction` | the same with log compaction and deletion: no assertion of the code fails, a crash never needs a deleted entry, nor does a peer; the store implements `AppliedLog` |
| `queue` | the wallet follows the log without gap or repetition, consumer and apply loop stop only after lagging, applied entries reach the wallet |
| `transport` | no wake-up is lost, no dirty queue is evicted, no message is delivered twice or out of the order of its connection, every message leaves its queue |
| `gateway` | answers are true, a connection is replaced once per failure, every call is answered unless a majority of the nodes or the leader that a reset waits for stays down |
| `account_twice` | a command that names an account twice loses money (violation) |
| `replicas_delete` | replicas disagree on a create after a delete (violation) |
| `bootstrap_crash` | a crash during the bootstrap leaves a node that never starts (violation) |

Bounds. Three raft entries of up to three commands are enough for an entry to be flushed, one to be
in the write batch and one to be replayed; two crashes let a replay be interrupted. A batch size
and a receive size of two make both flush conditions happen. The GC runs with a count limit of 8
and a percentage of 25%, the smallest instance in which it truncates at all (see below), so eight
or nine events come in the first entry. The broker has three positions, one event more than its
limit and one more than the receive size, and a clock that runs one tick beyond the timeout.
The wallet runs use no symmetry: accounts and commands play different parts in the entries.

`leaders` has two commands in batches of up to two, two terms after the initial one and three
entries, enough for a proposal to be overwritten by another leader's entry at its own or at a lower
index; that this store leads once more while such a proposal is pending would take a third term.
`compaction` has a limit of 2 of which one entry is compacted at a time, and
four entries, enough for a second CompactLog request on its way while the first is applied. Both
have one crash of the process or of the machine, at any step, and are symmetric in the commands,
which are only compared. `queue` has four entries, a channel of one, ranges of up to three and a
direct read of one, so that both ways of fetching are met by deletions; `Retained` is 2.

`transport` has two stores, so that the cache has to grow and to choose a victim; a queue of one, so
that it is full and drained; two messages and two breaks, so that a second connection meets what
the first has left. `gateway` has three nodes, two calls that share the connection, and two faults,
enough for a leader to crash while a probe still names it, or for a reset to be cancelled while the
other call waits for the mutex. `bootstrap_crash` has one crash.

Fairness. All threads keep looping, so weak fairness of the apply thread's and the GC thread's
steps. `batch_recv` blocks a millisecond for entries that are there, and the flush timer expires, so
neither does "receive nothing" nor "skip the flush" win for ever: strong fairness of receiving
something and of flushing. Crashes are not fair and bounded. The broker thread loops and time
passes; nothing is assumed of the apply loop, so that timeouts have to do the work, and nothing restarts
the process when it has panicked. In `queue` the
consumer and the apply loop keep looping, and the store applies what is decided. In `transport` a
woken task is polled, the raft thread flushes what it has sent (`handle_raft_ready` does so in every
poll), and a stream that is not ready is ready again later, or breaks by its keepalive: strong
fairness of sending. In `gateway` the tasks run and tokio's mutex is a queue, hence strong fairness
of taking it; while a majority of the nodes is up, a cluster without leader elects one, and a proposal
that a handler waits for is committed or lost; the leader makes itself known. Nothing makes a node
that is down come back. `bootstrap_crash` lets
the start go on, and starts a node that has panicked again.

### Where documents and code disagree

Three of them are runs:

* `account_twice`. A transfer from an account to itself writes the credited account and then the
  debited one, both computed from the stored balance, so the amount disappears
  (`state_machine.rs:328`), while "TransferSpec ensures debit amount == credit amount"
  (`balance_operation_servicepb.proto:44`). A batch that names an account twice keeps only the last
  change, and its event reports both (`state_machine.rs:345`), while "each money movement credits or
  debits an amount from one account" (`Account Structure.md:25`). `MoneyConserved` is violated by
  either; `ConservedWhenNamedOnce` and `EventsExplainBalances`, which hold, are about the logs whose
  commands name each account once.
* `replicas_delete`. A create after a delete succeeds or fails depending on when the replica flushed
  (`state_machine.rs:185`).
* `bootstrap_crash`. A node that crashed between two writes of its bootstrap never starts again
  (`node.rs:166`).

These others were met while modelling; those about the wallet are stated as exceptions in the
properties, or excluded from the passing runs by the choice of entries, each with a remark there:

* Between the two reads of the duplicate check the GC may delete what the second one unwraps
  (`state_machine.rs:278`), though "command_id -> seq_num and seq_num -> EventPb is consistent with
  each other" (`state_machine.rs:277`). `PanicsOnlyByGc` says that this is the only way.
* A retry that comes after the GC has truncated the event of the first attempt is executed again
  (`gc.rs:140`); `Command Side.md:22` says that it will be detected and discarded.
  `ExecutedOnceWhileRetained` is what holds.
* The gateway retries only gRPC errors and NotLeader. StaleCommand, which a leader answers when it
  has lost its leadership, and the broker's Timeout become `other_error` and go to the client, though
  the documents of the gateway promise that a change of leader is handled there
  (`firm-wallet-gateway/README.md:4`).
* A command that a follower has forwarded while it answered NotLeader, or whose request was given up
  in flight and reached its node later, may be executed after a later attempt of the same call was
  rejected: the exceptions in `AnswersAreTrue`.
* A reset holds the gateway's mutex while it waits for the leader that was named to it; if that node
  never comes back, no call of the gateway is answered (`raft_cluster.rs:114`), though the other nodes
  have a new leader, and though the gateway "will retry infinitely when the downstream firm wallet
  service is not available(during leader change) until success" (`firm-wallet-gateway/README.md:5`).
  `AnsweredUnlessStuck` names this as the one way to wait for ever with a majority of the nodes up.
* An UpdateAccountConfig without a limit stores a limit whose bounds do not parse
  (`state_machine.rs:578`), which fails every later operation on the account.
* UpdateAccountConfig on an account deleted since the last flush puts it back in the database and
  not in memory (`state_machine.rs:185`, comment there).
* `UpdateAccountConfig.md`, `LockAccount.md`, `CreateAccount.md` and `Reserve.md` describe checks or
  effects that the code does not have: limits are not compared with the balance, an account with
  money can be locked, the config of a create request is ignored, a reserve under an existing id
  fails.
* With `count_limit * percentage` of one the GC never gets started: `from = max(0, 1)` is already
  `next_first_seq_num` (`gc.rs:96`).
* "If it's not a leader, the proposing command log entry can't be committed" (`peer.rs:3909`): a
  follower's `raft_group.propose` forwards the command to the leader, where it may be committed, while
  the client is told NotLeader (`peer.rs:1881`). `RaftStore` models it (`cluster.forwarded`).

Two of these bound what the passing runs can say. The outcome of a late retry depends on when
the GC ran, and that of a create after a delete on when the replica flushed, so a replica that
replays such an entry after a crash may arrive at other events than the ones it served before, and
replicas may disagree. `ServedEventsStable` and `ReadsRepeatable` are therefore checked on entries
where those two cases do not matter (`MCEventQuery`), and `ImplementsLedger` without GC. Where they do
not arise, replicas agree because each of them implements the same `Ledger` of the log they share:
events, replies and flushed accounts are a function of the log, whenever a replica flushes or crashes.

## Proofs

Every theorem holds for all constants that satisfy the named assumptions of its module. For the
wallet these are: positive batch and receive sizes, entries that are sequences of commands, a GC
percentage of at most 25%, requests that are pairs of natural numbers.

### The wallet

`WalletProofs` works without the handlers. Of `Wallet` it proves the invariants
`EventLogContiguous`, `DedupMatchesEvents`, `FlushIsWholeEntries`, `RetainsRecentEvents`,
`UnflushedBounded`, of `WalletService` the invariant `ResponsesMatchCommands`, the action properties
`ExecutedOnceWhileRetained` and `PanicsOnlyByGc`, and of `EventQuery` the invariants
`ResponsesComplete` and `TruncatedOnlyByGc`. None of them is inductive:

* `IInv` says, next to the properties of the event log themselves, what the write batch holds (the
  hard states, events and dedup ids that the caches have, so that a flush moves exactly the cached
  events to the database), that the disk is a database the replica had before, and what the GC thread
  may rely on between its reads: the range it truncates lies within the events that are there, even
  after a flush in between, and the dedup ids it scanned are those of that range.
* `SInv` adds where replies come from: every event that is cached, stored or sent, and the seq_num
  that the duplicate check holds between its two reads, belongs to a command of the log, and fits it;
  and every event is under its own seq_num.
* `QInv` adds what a query has read: the events from its first on, numbered without a gap, within what
  was persisted when it began; and that the assertion on the seq_num has not failed. A lemma says that
  the last persisted seq_num never decreases but by a crash of the machine, which ends the query.

`LedgerProofs` is about the accounts. It proves the action property `BalanceChangesAllowed` from
`AInv` (all tables of accounts hold accounts), the invariant `MemoryMatchesBatch` from `MInv` (an
account marked for deletion is in memory, deleted and empty), and that the replica implements
`Ledger` (`ImplementsLedger`). The last rests on `FInv`: the memory is the ledger at the place that
the apply loop has reached in the log, the database and the disk are the ledgers at the entries
they were flushed at, each event table is part of the ledger's, each command of a replied event is
known to the ledger, and each reply is the ledger's. A crash then goes back to an earlier place of
the same ledger, and replay finds the replies that were given. `ToldProofs` builds on this. Two more
invariants follow the clients: all events served, and those a query has in hand, are events of the ledger of the whole log
(`ServedInv`, for `ServedEventsStable`); the last read was true at some place of the log (`ReadInv`,
for `ReadsRepeatable`; two places with the same seq_num have the same accounts).

The refinement and what follows from it do not hold of every log (see the disagreements above), so
these theorems have hypotheses on the behaviour, about the command that gets to its handler:

| Hypothesis | Says | Needed by |
|---|---|---|
| `NoConfigOnTombstone` | UpdateAccountConfig does not meet an account deleted since the last flush | `FlushKeepsMemory` |
| `NoTombstoneMet` | no command meets one | `RefinesLedger`, `ServedOnce`, `ReadsRepeat` |
| `NoLateRetry` | no command is retried after its event was truncated | the same |

They exclude what the code gets wrong and no more of it: crashes, flushes and the GC at any time,
retries and deletions remain. `RefinesLedgerAlways` has no hypothesis on the behaviour: a wallet
whose log deletes no account, and that runs without the GC, implements `Ledger`. `balance` is such an
instance. `events` has deletions, retries and the GC, and meets the hypotheses but where an entry
deletes an account and creates it again: there a flush in between decides the outcome, which the
choice of the later entries keeps from mattering to `ServedEventsStable` and `ReadsRepeatable`.

The ledger of a log is a recursive function of the log, and what it computes is proved by induction
over the position. The library's induction theorems take an operator as a parameter, which the
provers cannot instantiate; `LedgerRunProofs` derives induction over a set of numbers from the
well-foundedness of `<`, which needs none (`SetInduction`).

### The other components

`MessageBrokerProofs` proves `NoMissedJoin`, `WaitingIsTracked` and `TimeoutJustified` of
`MessageBroker`, for any number of positions and restarts, any size of a batch, limit and timeout. The
first two are inductive together with the types (`BrokerInv`): that a waiting thread is in one place
only is what keeps the join from answering it twice, and that a live apply loop means a live broker is
what keeps its sender from being dropped. The main lemmas are about `batch_recv`, which
splits a channel without losing or repeating a position.

`MessageQueueProofs` proves `WalletFollowsTheLog` and `StopsOnlyWhenLagging` of `MessageQueue`, for
every log, range size, positive channel size, `Retained` and number of crashes. The first needs that
whatever is on its way is an entry of the log under its own index; the check of the apply loop does
the rest. The second needs more, and its invariant `IInv` has it: in every state that a crash may
bring back, compaction stays `Retained` behind what is applied and deletion behind compaction
(`StoreInv`); and as long as the consumer has not lagged, the indexes in its buffer and in the channel
follow the wallet's without a gap (`NoGap`).

`RaftClientProofs` proves `NoLostWakeup`, `DirtyIsCached` and `DeliveredInOrder` of `RaftClient`, for every set of stores,
queue size and sample mask, and any number of messages and broken connections.
For the first, `WakeInv` says of a task that has found its queue empty that it was woken since, or that
its waker is in the queue and, if a message has come meanwhile, the raft thread is going to take it:
it is about to, or the store is in the part of `need_flush` that is still ahead and not marked clean.
That needs in turn that whatever is marked dirty is ahead (`DirtyIsAhead`). For the second, `CacheInv`
adds that the pool is finite; the main lemma is that `load_stream`, which resizes the cache to the pool
before it inserts, evicts nothing (`LoadedEvictsNothing`). For the third, `StreamInv` orders
the messages by age: what was given to the store or is on the wire is older than what the connection
has in its buffer, and that is older than what is in the queue. Each step moves messages along this
order or drops some. It also says that `clear_pending_message` has counted no more than the queue
holds, so its unwrap does not panic (`ClearNeverPanics`).

`GatewayProofs` proves `OneResetPerFailure` and `AnswersAreTrue` of `Gateway`, for every number of
nodes, calls and faults. The first rests on `ConnInv`: the counter is at least the number of the
connection and ahead of it while a reset is running, and a call whose connection is not the present
one has a counter that lets it through. The second rests on `AnswerInv`: an attempt is in the log, or
on its way there, once, and none of a later attempt than the present one (`AttemptsApart`); so the
attempt that is answered is the last one, and after a rejection only attempts that went astray are open
(`RejectedIsOver`).

### Only model-checked

* What holds eventually, under fairness: outside the prover's reach.
* `ConservedWhenNamedOnce` and `EventsExplainBalances`: they compare sums over tables of accounts
  and events, and no theorem about sums is at hand.
* That replicas agree is not a theorem of its own: each of them is known to follow the ledger
  (`RefinesLedger`), and a statement about two would need all of `LedgerProofs` a second time.
* That `RaftStore` implements `AppliedLog`, and its other properties.

`RetainsRecentEvents` and `UnflushedBounded` are proved and not checked by a run.

## Not modelled

The consensus algorithm itself is the raft-rs library, and RocksDB, gRPC and tokio are libraries:
they are modelled by how the code uses them. Votes and configuration changes are handled by raft-rs,
and no configuration change is ever proposed. Snapshots, reads through raft, splits and merges are
`unreachable!()` or `todo!()` in this repository. Logging, metrics, the status server, command line
and generated protocol buffer code have no state that matters here. Of the utilities taken over from
TiKV only the LRU cache decides anything that the properties speak of. The Postgres framework
(`postgres_utils`) is used by no crate of the repository: what its records and transactions are, and
so what a retry after an unknown outcome does, is left to a caller that is not here.
