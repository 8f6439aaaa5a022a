---------------------------- MODULE MessageQueue ----------------------------
(***************************************************************************)
(* The log consumer of tiny-mq (LogConsumer, MessageQueueAdapter) between  *)
(* the log of its store and the apply loop of the wallet.                  *)
(*                                                                         *)
(* The consumer thread reads the apply state, asks for a range of entries, *)
(* which reads the apply state again, fetches them from the raft database, *)
(* and sends them one by one into a bounded channel.  Nothing stops the    *)
(* store from compacting and deleting entries between these steps.  The    *)
(* wallet takes entries from the channel, demands that their indexes       *)
(* follow one another, and writes its state without a sync.                *)
(*                                                                         *)
(* The wallet's state is modelled by the payloads it has applied; Wallet   *)
(* models what applying one does.                                          *)
(***************************************************************************)
EXTENDS AppliedLog

CONSTANTS
    Entries,        \* the payloads that the region decides, in this order
    ReadAhead,      \* entries after log_index in one range: 1000 in the code
    MultiGetCnt,    \* RAFT_LOG_MULTI_GET_CNT: longer ranges are scanned
    BufferSize,     \* log_consumer_buffer_size
    MaxCrash        \* bound: crashes

Payload == {Entries[k] : k \in DOMAIN Entries}

ASSUME QueueConstantsOK ==
    /\ Entries \in Seq(Payload)
    /\ ReadAhead \in Nat /\ MultiGetCnt \in Nat
    /\ BufferSize \in Nat \ {0}
    /\ MaxCrash \in Nat

VARIABLES
    consumer,   \* the consumer thread: pc, log_index, end, buf
    channel,    \* entries on their way to the apply loop: index, payload
    wallet,     \* the apply loop: alive, applied_index, applied
    flushed,    \* the wallet state in its database
    walletdb,   \* the wallet states that a machine crash may bring back
    lagged,     \* history: the consumer has been Retained entries behind
    crashes     \* how often the process has crashed

queueVars == <<consumer, channel, wallet, walletdb, flushed>>

vars == <<logVars, queueVars, lagged, crashes>>

Min(a, b) == IF a <= b THEN a ELSE b

\* The store is so far ahead of the consumer that a compaction may reach what
\* the consumer still has to read.
Lagging(s, c) == s.applied - c.log_index >= Retained

Remember == lagged' = (lagged \/ Lagging(store', consumer'))

-----------------------------------------------------------------------------
(* The consumer thread.                                                    *)

Dead == [consumer EXCEPT !.pc = "dead", !.buf = <<>>]

\* Mutant: the last applied entry is left for the next turn.
StartBeforeApplied ==
    /\ consumer.pc = "state"
    /\ \/ /\ consumer.log_index < store.truncated + 1
          /\ consumer' = Dead
       \/ /\ consumer.log_index >= store.truncated + 1
          /\ consumer.log_index < store.applied
          /\ consumer' = [consumer EXCEPT !.pc = "range",
                 !.end = Min(consumer.log_index + ReadAhead, store.applied)]
    /\ UNCHANGED <<logVars, channel, wallet, walletdb, flushed, crashes>>
    /\ Remember

\* One turn of the loop of start_consuming, up to the choice of a range.  The
\* thread sleeps while there is nothing to read.
start_consuming ==
    /\ consumer.pc = "state"
    /\ \/ /\ consumer.log_index < store.truncated + 1
          /\ consumer' = Dead
       \/ /\ consumer.log_index >= store.truncated + 1
          /\ consumer.log_index <= store.applied
          /\ consumer' = [consumer EXCEPT !.pc = "range",
                 !.end = Min(consumer.log_index + ReadAhead, store.applied)]
    /\ UNCHANGED <<logVars, channel, wallet, walletdb, flushed, crashes>>
    /\ Remember

\* The error of get_range is unwrapped.
get_range ==
    /\ consumer.pc = "range"
    /\ consumer' = IF \/ consumer.log_index < store.truncated + 1
                      \/ consumer.end > store.applied
                   THEN Dead
                   ELSE [consumer EXCEPT !.pc = "fetch"]
    /\ UNCHANGED <<logVars, channel, wallet, walletdb, flushed, crashes>>
    /\ Remember

\* What fetch_entries_to finds of a range: all of it; nothing at all, when the
\* range is scanned and every entry of it is gone, which it does not report;
\* or a part of it, which panics.
Fetched(low, end) ==
    IF low > deleted
    THEN [k \in 1 .. end - low + 1 |->
            [index |-> low + k - 1, payload |-> log[low + k - 1 - InitialIndex]]]
    ELSE <<>>

FetchPanics(low, end) ==
    /\ low <= deleted
    /\ end + 1 - low <= MultiGetCnt \/ end > deleted

\* Mutant: the last entry of a range is read again with the next one.
RangeFromEnd(c) == [c EXCEPT !.pc = "state", !.log_index = c.end, !.buf = <<>>]

\* The range is done: the next turn starts after it.
NextRange(c) == [c EXCEPT !.pc = "state", !.log_index = c.end + 1, !.buf = <<>>]

fetch_entries_to ==
    LET buf == Fetched(consumer.log_index, consumer.end)
    IN  /\ consumer.pc = "fetch"
        /\ consumer' =
               IF FetchPanics(consumer.log_index, consumer.end) THEN Dead
               ELSE IF buf = <<>> THEN NextRange(consumer)
               ELSE [consumer EXCEPT !.pc = "send", !.buf = buf]
        /\ UNCHANGED <<logVars, channel, wallet, walletdb, flushed, crashes>>
        /\ Remember

\* An entry is sent once the channel has room for it.
send ==
    /\ consumer.pc = "send"
    /\ wallet.alive
    /\ Len(channel) < BufferSize
    /\ channel' = Append(channel, Head(consumer.buf))
    /\ consumer' = IF Len(consumer.buf) = 1 THEN NextRange(consumer)
                   ELSE [consumer EXCEPT !.buf = Tail(@)]
    /\ UNCHANGED <<logVars, wallet, walletdb, flushed, crashes>>
    /\ Remember

\* An apply loop that has panicked has dropped the channel: the error of the
\* send is unwrapped.
SendFails ==
    /\ consumer.pc = "send"
    /\ ~ wallet.alive
    /\ consumer' = Dead
    /\ UNCHANGED <<logVars, channel, wallet, walletdb, flushed, lagged, crashes>>

-----------------------------------------------------------------------------
(* The apply loop of the wallet.                                           *)

\* Mutant: the index of the entry is taken as it comes.
ApplyUnchecked ==
    /\ wallet.alive
    /\ channel # <<>>
    /\ channel' = Tail(channel)
    /\ wallet' = [wallet EXCEPT
                     !.applied_index = Head(channel).index,
                     !.applied = Append(@, Head(channel).payload)]
    /\ UNCHANGED <<logVars, consumer, walletdb, flushed, lagged, crashes>>

\* An entry is taken from the channel and applied.  Its index must follow the
\* applied one.
apply_entry ==
    /\ wallet.alive
    /\ channel # <<>>
    /\ channel' = Tail(channel)
    /\ wallet' =
         IF Head(channel).index = wallet.applied_index + 1
         THEN [wallet EXCEPT
                  !.applied_index = Head(channel).index,
                  !.applied = Append(@, Head(channel).payload)]
         ELSE [wallet EXCEPT !.alive = FALSE]
    /\ UNCHANGED <<logVars, consumer, walletdb, flushed, lagged, crashes>>

\* A channel whose sender is gone is never to be seen by the loop.
Disconnected ==
    /\ wallet.alive
    /\ channel = <<>>
    /\ consumer.pc = "dead"
    /\ wallet' = [wallet EXCEPT !.alive = FALSE]
    /\ UNCHANGED <<logVars, consumer, channel, walletdb, flushed, lagged,
                   crashes>>

\* The wallet's batch is written without a sync.
flush ==
    /\ wallet.alive
    /\ wallet.applied_index > flushed.applied_index
    /\ flushed' = wallet
    /\ walletdb' = walletdb \cup {wallet}
    /\ UNCHANGED <<logVars, consumer, channel, wallet, lagged, crashes>>

-----------------------------------------------------------------------------
\* The wallet and its consumer start from the state in the wallet's database.
start_consumer(w) ==
    [pc |-> "state", log_index |-> w.applied_index + 1, end |-> 0,
     buf |-> <<>>]

Init ==
    /\ LogInit
    /\ wallet = [alive |-> TRUE, applied_index |-> InitialIndex,
                 applied |-> <<>>]
    /\ flushed = wallet
    /\ walletdb = {wallet}
    /\ consumer = start_consumer(wallet)
    /\ channel = <<>>
    /\ lagged = Lagging(store, consumer)
    /\ crashes = 0

\* A crash of the process loses what is in memory; one of the machine also
\* what either database had not synced, each on its own.
Crash ==
    /\ crashes < MaxCrash
    /\ StoreCrash
    /\ \/ /\ UNCHANGED <<flushed, walletdb>>
       \/ /\ flushed' \in walletdb
          /\ walletdb' = {flushed'}
    /\ wallet' = flushed'
    /\ consumer' = start_consumer(flushed')
    /\ channel' = <<>>
    /\ Remember
    /\ crashes' = crashes + 1

DecideEntry ==
    /\ Len(log) < Len(Entries)
    /\ log' = Append(log, Entries[Len(log) + 1])
    /\ UNCHANGED <<store, saved, deleted, queueVars, lagged, crashes>>

ApplyEntries == Apply /\ UNCHANGED <<queueVars, crashes>> /\ Remember

SyncStore == Sync /\ UNCHANGED <<queueVars, lagged, crashes>>

DeleteEntries == Delete /\ UNCHANGED <<queueVars, lagged, crashes>>

Store == DecideEntry \/ ApplyEntries \/ SyncStore \/ DeleteEntries

Consume == start_consuming \/ get_range \/ fetch_entries_to \/ send
           \/ SendFails

ApplyLoop == apply_entry \/ Disconnected \/ flush

Next == Store \/ Consume \/ ApplyLoop \/ Crash

Spec == Init /\ [][Next]_vars

\* The threads of the process run, and a region with a leader applies what it
\* has decided.
FairSpec ==
    /\ Spec
    /\ WF_vars(ApplyEntries)
    /\ WF_vars(Consume)
    /\ WF_vars(ApplyLoop)

-----------------------------------------------------------------------------
Item == [index : Int, payload : Payload]

WalletState ==
    [alive : BOOLEAN, applied_index : Int, applied : Seq(Payload)]

StoreState == [applied : Int, truncated : Int]

ConsumerState == [pc : {"state", "range", "fetch", "send", "dead"},
                  log_index : Int, end : Int, buf : Seq(Item)]

\* The values of the variables.
TypeOK ==
    /\ log \in Seq(Payload)
    /\ store \in StoreState
    /\ saved \subseteq StoreState
    /\ deleted \in Int
    /\ consumer \in ConsumerState
    /\ channel \in Seq(Item)
    /\ wallet \in WalletState
    /\ flushed \in WalletState
    /\ walletdb \subseteq WalletState
    /\ lagged \in BOOLEAN
    /\ crashes \in Int

Prefix(s, t) ==
    /\ Len(s) <= Len(t)
    /\ \A k \in 1 .. Len(s) : s[k] = t[k]

\* Whatever is compacted, deleted or lost in a crash, the wallet's state, in
\* memory and in every state its database may come back with, is the result
\* of the decided entries up to its applied index, none skipped or repeated.
WalletFollowsTheLog ==
    \A w \in walletdb \cup {wallet, flushed} :
        /\ Prefix(w.applied, log)
        /\ w.applied_index = InitialIndex + Len(w.applied)

\* The consumer finds a gap, or the apply loop an entry that does not follow
\* the last one, only if the consumer has been behind the store by as many
\* entries as compaction leaves.
StopsOnlyWhenLagging == ~ lagged => consumer.pc # "dead" /\ wallet.alive

\* A consumer that keeps up delivers every applied entry to the wallet.
AppliedReachesTheWallet ==
    \A i \in InitialIndex + 1 .. InitialIndex + Len(Entries) :
        store.applied >= i ~> wallet.applied_index >= i \/ lagged

-----------------------------------------------------------------------------
(* The inductive invariant behind the first two properties.                *)

\* Compaction and deletion, in every state that a crash may bring back.
StoreInv ==
    /\ store \in saved
    /\ \A s \in saved :
        /\ InitialIndex <= s.truncated
        /\ InitialIndex <= s.applied
        /\ s.applied <= decided
        /\ s.truncated = InitialIndex \/ s.truncated <= s.applied - Retained
        /\ deleted <= s.truncated

\* An item on its way is an entry of the log.
IsEntry(e) ==
    /\ InitialIndex < e.index
    /\ e.index <= decided
    /\ e.payload = log[e.index - InitialIndex]

OnTheWay ==
    /\ \A k \in 1 .. Len(channel) : IsEntry(channel[k])
    /\ \A k \in 1 .. Len(consumer.buf) : IsEntry(consumer.buf[k])
    /\ InitialIndex < consumer.log_index
    /\ consumer.pc \in {"range", "fetch", "send"} =>
          consumer.log_index <= consumer.end /\ consumer.end <= decided
    /\ consumer.pc = "send" => consumer.buf # <<>>

\* The index after the last one that the wallet has or will take from the
\* channel.
NextIndex == wallet.applied_index + Len(channel) + 1

\* As long as the consumer keeps up, what is on its way follows what the
\* wallet has, without a gap.
NoGap ==
    /\ ~ Lagging(store, consumer)
    /\ wallet.alive
    /\ consumer.pc # "dead"
    /\ \A k \in 1 .. Len(channel) :
          channel[k].index = wallet.applied_index + k
    /\ consumer.pc # "send" => consumer.log_index = NextIndex
    /\ consumer.pc \in {"range", "fetch"} => consumer.end <= store.applied
    /\ consumer.pc = "send" =>
          /\ \A k \in 1 .. Len(consumer.buf) :
                consumer.buf[k].index = NextIndex + k - 1
          /\ consumer.end = NextIndex + Len(consumer.buf) - 1

SavedWalletsAlive == flushed.alive /\ \A w \in walletdb : w.alive

IInv ==
    /\ TypeOK
    /\ StoreInv
    /\ OnTheWay
    /\ WalletFollowsTheLog
    /\ SavedWalletsAlive
    /\ ~ lagged => NoGap
=============================================================================
