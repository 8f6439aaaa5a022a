------------------------- MODULE MessageQueueProofs -------------------------
(***************************************************************************)
(* Proofs about MessageQueue, for every log, every range and buffer size,  *)
(* every amount that compaction leaves and any number of crashes: the      *)
(* wallet follows the log, and its threads stop only when the consumer has *)
(* fallen behind by what compaction leaves.                                *)
(***************************************************************************)
EXTENDS MessageQueue, TLAPS

\* The disjuncts of Next, one name each.
LEMMA NextCases ==
    ASSUME Next
    PROVE  \/ DecideEntry \/ ApplyEntries \/ SyncStore \/ DeleteEntries
           \/ start_consuming \/ get_range \/ fetch_entries_to \/ send
           \/ SendFails \/ apply_entry \/ Disconnected \/ flush \/ Crash
BY DEF Next, Store, Consume, ApplyLoop

\* What is fetched of a range is a sequence of the entries of the log, as long
\* as the range, unless there is nothing of it left.
LEMMA FetchedEntries ==
    ASSUME TypeOK, NEW low \in Int, NEW end \in Int,
           InitialIndex < low, low <= end, end <= decided
    PROVE  /\ Fetched(low, end) \in Seq(Item)
           /\ low > deleted =>
                /\ Len(Fetched(low, end)) = end - low + 1
                /\ \A k \in 1 .. end - low + 1 :
                     /\ Fetched(low, end)[k].index = low + k - 1
                     /\ IsEntry(Fetched(low, end)[k])
           /\ ~ (low > deleted) => Fetched(low, end) = <<>>
<1> DEFINE n == end - low + 1
           f == [k \in 1 .. n |-> [index |-> low + k - 1,
                    payload |-> log[low + k - 1 - InitialIndex]]]
<1>1. n \in Nat /\ n > 0
  OBVIOUS
<1>2. \A k \in 1 .. n : /\ low + k - 1 - InitialIndex \in 1 .. Len(log)
                        /\ low + k - 1 - InitialIndex \in DOMAIN log
  BY DEF TypeOK, decided, InitialIndex
<1>3. \A k \in 1 .. n : log[low + k - 1 - InitialIndex] \in Payload
  BY <1>2 DEF TypeOK
<1>4. \A k \in 1 .. n : f[k] \in Item
  BY <1>3 DEF Item
<1>5. f \in Seq(Item) /\ Len(f) = n
  BY <1>1, <1>4
<1>6. \A k \in 1 .. n : f[k].index = low + k - 1 /\ IsEntry(f[k])
  BY <1>2 DEF IsEntry, decided, InitialIndex
<1>7. Fetched(low, end) = IF low > deleted THEN f ELSE <<>>
  BY DEF Fetched
<1> QED
  BY <1>5, <1>6, <1>7

\* Every step preserves the types.
LEMMA TypeStep == TypeOK /\ OnTheWay /\ [Next]_vars => TypeOK'
<1> SUFFICES ASSUME TypeOK, OnTheWay, [Next]_vars PROVE TypeOK'
  OBVIOUS
<1> USE QueueConstantsOK, RetainedOK
<1>0. Dead \in ConsumerState /\ NextRange(consumer) \in ConsumerState
  <2>1. <<>> \in Seq(Item)
    OBVIOUS
  <2>2. Dead \in ConsumerState
    BY <2>1, ZenonT(40) DEF TypeOK, Dead, ConsumerState
  <2>3. NextRange(consumer) \in ConsumerState
    <3> DEFINE i == consumer.end + 1
               c == [consumer EXCEPT !.log_index = i]
    <3>0. i \in Int
      BY DEF TypeOK, ConsumerState
    <3> HIDE DEF i
    <3>1. c \in ConsumerState
      BY <3>0, ZenonT(40) DEF TypeOK, ConsumerState
    <3>2. [c EXCEPT !.pc = "state", !.buf = <<>>] \in ConsumerState
      BY <2>1, <3>1, ZenonT(40) DEF ConsumerState
    <3>3. NextRange(consumer) = [c EXCEPT !.pc = "state", !.buf = <<>>]
      BY Zenon DEF NextRange, i
    <3> QED
      BY <3>2, <3>3
  <2> QED
    BY <2>2, <2>3
<1>1. CASE DecideEntry
  BY <1>1 DEF DecideEntry, TypeOK, Payload, queueVars
<1>2. CASE ApplyEntries
  BY <1>2 DEF ApplyEntries, Apply, TypeOK, State, StoreState, queueVars, Remember, decided
<1>3. CASE SyncStore
  BY <1>3 DEF SyncStore, Sync, TypeOK, queueVars
<1>4. CASE DeleteEntries
  BY <1>4 DEF DeleteEntries, Delete, TypeOK, StoreState, queueVars
<1>5. CASE start_consuming
  <2>1. consumer' \in ConsumerState
    <3>1. Min(consumer.log_index + ReadAhead, store.applied) \in Int
      BY DEF Min, TypeOK, StoreState, ConsumerState
    <3> QED
      BY <1>0, <1>5, <3>1, ZenonT(40) DEF start_consuming, TypeOK, ConsumerState
  <2> QED
    BY <1>5, <2>1 DEF start_consuming, TypeOK, logVars, Remember
<1>6. CASE get_range
  <2>1. consumer' \in ConsumerState
    BY <1>0, <1>6, ZenonT(40) DEF get_range, TypeOK, ConsumerState
  <2> QED
    BY <1>6, <2>1 DEF get_range, TypeOK, logVars, Remember
<1>7. CASE fetch_entries_to
  <2>1. Fetched(consumer.log_index, consumer.end) \in Seq(Item)
    BY <1>7, FetchedEntries, SMTT(40)
       DEF fetch_entries_to, TypeOK, OnTheWay, ConsumerState
  <2>2. consumer' \in ConsumerState
    BY <1>0, <1>7, <2>1, ZenonT(40) DEF fetch_entries_to, TypeOK, ConsumerState
  <2> QED
    BY <1>7, <2>2 DEF fetch_entries_to, TypeOK, logVars, Remember
<1>8. CASE send
  <2>1. /\ consumer.buf \in Seq(Item) /\ consumer.buf # <<>>
        /\ channel \in Seq(Item)
    BY <1>8 DEF send, OnTheWay, TypeOK, ConsumerState
  <2>2. Tail(consumer.buf) \in Seq(Item) /\ Head(consumer.buf) \in Item
    BY <2>1
  <2>3. consumer' \in ConsumerState
    BY <1>0, <1>8, <2>2, ZenonT(40) DEF send, TypeOK, ConsumerState
  <2>4. channel' \in Seq(Item)
    BY <1>8, <2>1, <2>2 DEF send
  <2> QED
    BY <1>8, <2>3, <2>4 DEF send, TypeOK, logVars, Remember
<1>9. CASE apply_entry
  <2>1. channel' \in Seq(Item) /\ Head(channel) \in Item
    BY <1>9 DEF apply_entry, TypeOK
  <2>2. Append(wallet.applied, Head(channel).payload) \in Seq(Payload)
    BY <2>1 DEF TypeOK, WalletState, Item
  <2>3. wallet' \in WalletState
    BY <1>9, <2>1, <2>2, ZenonT(40) DEF apply_entry, TypeOK, WalletState, Item
  <2> QED
    BY <1>9, <2>1, <2>3, SMTT(40) DEF apply_entry, TypeOK, logVars
<1>10. CASE Disconnected
  BY <1>10, ZenonT(40) DEF Disconnected, TypeOK, logVars, WalletState
<1>11. CASE flush
  BY <1>11 DEF flush, TypeOK, logVars
<1>12. CASE Crash
  <2>1. flushed' \in WalletState /\ walletdb' \subseteq WalletState
    BY <1>12 DEF Crash, TypeOK
  <2>2. store' \in StoreState /\ saved' \subseteq StoreState /\ deleted' \in Int
    BY <1>12 DEF Crash, StoreCrash, TypeOK, InitialIndex
  <2>3. consumer' \in ConsumerState
    BY <1>12, <2>1 DEF Crash, start_consumer, ConsumerState, WalletState
  <2>4. channel' \in Seq(Item) /\ crashes' \in Int /\ log' \in Seq(Payload)
    BY <1>12 DEF Crash, StoreCrash, TypeOK
  <2> QED
    BY <1>12, <2>1, <2>2, <2>3, <2>4 DEF Crash, TypeOK, Remember
<1>13. CASE SendFails
  BY <1>0, <1>13 DEF SendFails, TypeOK, logVars
<1>14. CASE UNCHANGED vars
  BY <1>14 DEF vars, logVars, queueVars, TypeOK
<1> QED
  BY <1>1, <1>2, <1>3, <1>4, <1>5, <1>6, <1>7, <1>8, <1>9, <1>10, <1>11,
     <1>12, <1>13, <1>14, NextCases

\* The log only grows.
LEMMA LogGrows ==
    ASSUME TypeOK, [Next]_vars
    PROVE  /\ Len(log) \in Nat /\ Len(log') \in Nat
           /\ Len(log) <= Len(log')
           /\ \A k \in 1 .. Len(log) : log'[k] = log[k]
<1>1. CASE DecideEntry
  <2>1. log \in Seq(Payload) /\ Entries[Len(log) + 1] \in Payload
    BY <1>1, QueueConstantsOK DEF TypeOK, Payload, DecideEntry
  <2>2. log' = Append(log, Entries[Len(log) + 1])
    BY <1>1 DEF DecideEntry
  <2> QED
    BY <2>1, <2>2
<1>2. CASE log' = log
  BY <1>2 DEF TypeOK
<1> QED
  BY <1>1, <1>2, NextCases
     DEF vars, logVars, ApplyEntries, Apply, SyncStore, Sync, DeleteEntries,
         Delete, start_consuming, get_range, fetch_entries_to, send,
         SendFails, apply_entry, Disconnected, flush, Crash, StoreCrash

\* Every step of the store keeps compaction and deletion within what a crash
\* may bring back.
LEMMA StoreStep == TypeOK /\ StoreInv /\ [Next]_vars => StoreInv'
<1> SUFFICES ASSUME TypeOK, StoreInv, [Next]_vars PROVE StoreInv'
  OBVIOUS
<1> USE RetainedOK
<1>0. decided \in Int /\ decided' \in Int /\ decided <= decided'
  BY LogGrows DEF decided, InitialIndex
<1>1. CASE UNCHANGED <<store, saved, deleted>>
  BY <1>0, <1>1 DEF StoreInv, TypeOK, StoreState
<1>2. CASE ApplyEntries
  <2>0. PICK a \in store.applied + 1 .. decided :
          \E t \in {store.truncated} \cup
                       (store.truncated + 1 .. a - Retained) :
            /\ store' = State(a, t)
            /\ saved' = saved \cup {State(a, t)}
            /\ UNCHANGED <<log, deleted>>
    BY <1>2 DEF ApplyEntries, Apply
  <2>1. PICK t \in {store.truncated} \cup
                       (store.truncated + 1 .. a - Retained) :
            /\ store' = State(a, t)
            /\ saved' = saved \cup {State(a, t)}
            /\ UNCHANGED <<log, deleted>>
    BY <2>0
  <2>2. store \in saved /\ store.applied \in Int /\ store.truncated \in Int
    BY DEF StoreInv, TypeOK, StoreState
  <2>3. decided' = decided
    BY <2>1 DEF decided
  <2>4. /\ State(a, t).applied = a /\ State(a, t).truncated = t
        /\ a \in Int /\ t \in Int
    BY <1>0, <2>2 DEF State
  <2>5. /\ InitialIndex <= t /\ InitialIndex <= a /\ a <= decided
        /\ t = InitialIndex \/ t <= a - Retained
        /\ deleted <= t
    <3>1. /\ InitialIndex <= store.truncated /\ InitialIndex <= store.applied
          /\ \/ store.truncated = InitialIndex
             \/ store.truncated <= store.applied - Retained
          /\ deleted <= store.truncated
      BY <2>2, Zenon DEF StoreInv
    <3>2. /\ store.applied < a /\ a <= decided
          /\ \/ t = store.truncated
             \/ store.truncated < t /\ t <= a - Retained
      BY <1>0, <2>2, <2>4
    <3>3. deleted \in Int /\ InitialIndex \in Int /\ Retained \in Int
      BY DEF InitialIndex, TypeOK
    <3> QED
      BY <1>0, <2>2, <2>4, <3>1, <3>2, <3>3
  <2> QED
    BY <2>1, <2>3, <2>4, <2>5 DEF StoreInv
<1>3. CASE SyncStore
  BY <1>0, <1>3 DEF SyncStore, Sync, StoreInv, decided
<1>4. CASE DeleteEntries
  BY <1>0, <1>4 DEF DeleteEntries, Delete, StoreInv, decided
<1>5. CASE Crash
  BY <1>0, <1>1, <1>5
     DEF Crash, StoreCrash, StoreInv, decided, TypeOK, StoreState, InitialIndex
<1> QED
  BY <1>1, <1>2, <1>3, <1>4, <1>5, NextCases
     DEF vars, logVars, DecideEntry, start_consuming, get_range,
         fetch_entries_to, send, SendFails, apply_entry, Disconnected, flush

\* An entry of the log stays one.
LEMMA EntryStays ==
    ASSUME TypeOK, [Next]_vars, NEW e \in Item, IsEntry(e)
    PROVE  IsEntry(e)'
BY LogGrows, SMTT(40) DEF IsEntry, decided, InitialIndex, Item, TypeOK

\* Every step keeps only entries of the log on their way to the wallet.
LEMMA OnTheWayStep ==
    TypeOK /\ StoreInv /\ OnTheWay /\ WalletFollowsTheLog /\ [Next]_vars
        => OnTheWay'
<1> SUFFICES ASSUME TypeOK, StoreInv, OnTheWay, WalletFollowsTheLog,
                    [Next]_vars
             PROVE  OnTheWay'
  OBVIOUS
<1> USE QueueConstantsOK
<1>0. /\ decided \in Int /\ decided' \in Int /\ decided <= decided'
      /\ consumer.log_index \in Int /\ consumer.end \in Int
      /\ consumer.buf \in Seq(Item) /\ channel \in Seq(Item)
      /\ store.applied \in Int /\ store.truncated \in Int
      /\ store.applied <= decided
  BY LogGrows DEF decided, InitialIndex, TypeOK, ConsumerState, StoreInv,
                  StoreState
<1>1. /\ \A k \in 1 .. Len(channel) : channel[k] \in Item /\ IsEntry(channel[k])
      /\ \A k \in 1 .. Len(consumer.buf) :
            consumer.buf[k] \in Item /\ IsEntry(consumer.buf[k])
  BY <1>0, SMTT(40) DEF OnTheWay
<1> DEFINE Good(e) == /\ InitialIndex < e.index
                      /\ e.index <= decided'
                      /\ e.payload = log'[e.index - InitialIndex]
<1>2. /\ \A k \in 1 .. Len(channel) : Good(channel[k])
      /\ \A k \in 1 .. Len(consumer.buf) : Good(consumer.buf[k])
  BY <1>1, EntryStays, SMTT(40) DEF IsEntry
<1>3. SUFFICES /\ \A k \in 1 .. Len(channel') : Good(channel'[k])
               /\ \A k \in 1 .. Len(consumer'.buf) : Good(consumer'.buf[k])
               /\ InitialIndex < consumer'.log_index
               /\ consumer'.pc \in {"range", "fetch", "send"} =>
                     /\ consumer'.log_index <= consumer'.end
                     /\ consumer'.end <= decided'
               /\ consumer'.pc = "send" => consumer'.buf # <<>>
  BY DEF OnTheWay, IsEntry
<1> HIDE DEF Good
<1>4. CASE UNCHANGED <<consumer, channel>>
  BY <1>0, <1>2, <1>4, SMTT(40) DEF OnTheWay
<1>5. CASE start_consuming
  <2>1. channel' = channel
    BY <1>5 DEF start_consuming
  <2>2. CASE consumer' = Dead
    BY <1>0, <1>2, <2>1, <2>2 DEF Dead, OnTheWay, TypeOK, ConsumerState
  <2>3. CASE consumer' = [consumer EXCEPT !.pc = "range",
                 !.end = Min(consumer.log_index + ReadAhead, store.applied)]
    <3>1. consumer.log_index <= store.applied
      BY <1>5, <2>3, ZenonT(40) DEF start_consuming, Dead, TypeOK, ConsumerState
    <3>2. /\ consumer'.buf = consumer.buf /\ consumer'.pc = "range"
          /\ consumer'.log_index = consumer.log_index
          /\ consumer'.end = Min(consumer.log_index + ReadAhead,
                                 store.applied)
      BY <2>3 DEF TypeOK, ConsumerState
    <3>3. /\ consumer.log_index <= consumer'.end
          /\ consumer'.end <= decided'
      BY <1>0, <3>1, <3>2 DEF Min
    <3> QED
      BY <1>2, <2>1, <3>2, <3>3 DEF OnTheWay
  <2> QED
    BY <1>5, <2>2, <2>3 DEF start_consuming
<1>6. CASE get_range
  <2>1. channel' = channel
    BY <1>6 DEF get_range
  <2>2. CASE consumer' = Dead
    BY <1>0, <1>2, <2>1, <2>2 DEF Dead, OnTheWay, TypeOK, ConsumerState
  <2>3. CASE consumer' = [consumer EXCEPT !.pc = "fetch"]
    <3>1. /\ consumer'.buf = consumer.buf /\ consumer'.pc = "fetch"
          /\ consumer'.log_index = consumer.log_index
          /\ consumer'.end = consumer.end
      BY <2>3 DEF TypeOK, ConsumerState
    <3>2. consumer.log_index <= consumer.end /\ consumer.end <= decided'
      BY <1>0, <1>6 DEF get_range, OnTheWay
    <3> QED
      BY <1>2, <2>1, <3>1, <3>2 DEF OnTheWay
  <2> QED
    BY <1>6, <2>2, <2>3 DEF get_range
<1>7. CASE fetch_entries_to
  <2> DEFINE buf == Fetched(consumer.log_index, consumer.end)
  <2>1. channel' = channel /\ log' = log /\ decided' = decided
    BY <1>7 DEF fetch_entries_to, logVars, decided
  <2>2. /\ InitialIndex < consumer.log_index
        /\ consumer.log_index <= consumer.end /\ consumer.end <= decided
    BY <1>7 DEF fetch_entries_to, OnTheWay
  <2>3. buf # <<>> => /\ consumer.log_index > deleted
                      /\ Len(buf) = consumer.end - consumer.log_index + 1
                      /\ \A k \in 1 .. Len(buf) : IsEntry(buf[k])
    BY <1>0, <2>2, FetchedEntries, ZenonT(40) DEF TypeOK
  <2>4. buf # <<>> => \A k \in 1 .. Len(buf) : Good(buf[k])
    BY <2>1, <2>3 DEF Good, IsEntry
  <2> HIDE DEF buf
  <2>5. CASE consumer' = Dead
    BY <1>0, <1>2, <2>1, <2>5 DEF Dead, OnTheWay, TypeOK, ConsumerState
  <2>6. CASE consumer' = NextRange(consumer)
    BY <1>0, <1>2, <2>1, <2>2, <2>6, SMTT(40)
       DEF NextRange, TypeOK, ConsumerState, InitialIndex
  <2>7. CASE buf # <<>> /\ consumer' = [consumer EXCEPT !.pc = "send",
                                                       !.buf = buf]
    BY <1>0, <1>2, <2>1, <2>2, <2>4, <2>7 DEF TypeOK, ConsumerState
  <2> QED
    BY <1>7, <2>5, <2>6, <2>7 DEF fetch_entries_to, buf
<1>8. CASE send
  <2>1. consumer.buf # <<>> /\ consumer.pc = "send"
    BY <1>8 DEF send, OnTheWay
  <2>2. channel' = Append(channel, Head(consumer.buf))
    BY <1>8 DEF send
  <2>3. Good(Head(consumer.buf)) /\ Head(consumer.buf) \in Item
    <3>1. Len(consumer.buf) \in Nat /\ Len(consumer.buf) > 0
          /\ Head(consumer.buf) = consumer.buf[1]
      BY <1>0, <2>1
    <3> QED
      BY <1>1, <1>2, <3>1
  <2>4. \A k \in 1 .. Len(channel') : Good(channel'[k])
    <3>1. SUFFICES ASSUME NEW k \in 1 .. Len(channel')
                   PROVE  Good(channel'[k])
      OBVIOUS
    <3>2. /\ Len(channel') = Len(channel) + 1 /\ Len(channel) \in Nat
          /\ k <= Len(channel) => channel'[k] = channel[k]
          /\ k = Len(channel) + 1 => channel'[k] = Head(consumer.buf)
      BY <1>0, <2>2, <2>3
    <3> QED
      BY <1>2, <2>3, <3>2, SMTT(40)
  <2>5. CASE consumer' = NextRange(consumer)
    BY <1>0, <2>1, <2>4, <2>5, SMTT(40)
       DEF NextRange, OnTheWay, TypeOK, ConsumerState, InitialIndex
  <2>6. CASE /\ Len(consumer.buf) # 1
             /\ consumer' = [consumer EXCEPT !.buf = Tail(@)]
    <3>1. /\ consumer'.buf = Tail(consumer.buf)
          /\ consumer'.pc = consumer.pc /\ consumer'.end = consumer.end
          /\ consumer'.log_index = consumer.log_index
      BY <2>6 DEF TypeOK, ConsumerState
    <3>2. /\ Len(consumer'.buf) = Len(consumer.buf) - 1
          /\ \A k \in 1 .. Len(consumer'.buf) :
                /\ k + 1 \in 1 .. Len(consumer.buf)
                /\ consumer'.buf[k] = consumer.buf[k + 1]
      BY <1>0, <2>1, <3>1
    <3>3. consumer'.buf # <<>>
      <4>1. Len(consumer.buf) \in Nat /\ Len(consumer.buf) > 0
        BY <1>0, <2>1
      <4>2. \A n \in Nat : n > 0 /\ n # 1 => n - 1 > 0
        OBVIOUS
      <4>3. Len(consumer'.buf) > 0
        BY <2>6, <3>2, <4>1, <4>2, Zenon
      <4>4. Len(<<>>) = 0 /\ ~ (0 > 0)
        OBVIOUS
      <4> QED
        BY <4>3, <4>4, Zenon
    <3> QED
      BY <1>0, <1>2, <2>1, <2>4, <3>1, <3>2, <3>3, SMTT(40) DEF OnTheWay
  <2> QED
    BY <1>8, <2>5, <2>6, SMTT(40) DEF send
<1>9. CASE apply_entry
  <2>1. /\ channel' = Tail(channel) /\ channel # <<>> /\ consumer' = consumer
    BY <1>9 DEF apply_entry
  <2>2. /\ Len(channel') = Len(channel) - 1
        /\ \A k \in 1 .. Len(channel') :
              k + 1 \in 1 .. Len(channel) /\ channel'[k] = channel[k + 1]
    BY <1>0, <2>1
  <2> QED
    BY <1>0, <1>2, <2>1, <2>2, SMTT(40) DEF OnTheWay
<1>10. CASE Crash
  <2>1. /\ flushed' \in walletdb \cup {flushed}
        /\ channel' = <<>> /\ consumer' = start_consumer(flushed')
    BY <1>10 DEF Crash
  <2>2. flushed' \in WalletState /\ InitialIndex <= flushed'.applied_index
    BY <2>1 DEF WalletFollowsTheLog, TypeOK, WalletState, InitialIndex
  <2> QED
    BY <2>1, <2>2 DEF start_consumer, WalletState, InitialIndex
<1>11. CASE SendFails
  <2>1. channel' = channel /\ consumer' = Dead
    BY <1>11 DEF SendFails
  <2> QED
    BY <1>0, <1>2, <2>1 DEF Dead, OnTheWay, TypeOK, ConsumerState
<1> QED
  BY <1>4, <1>5, <1>6, <1>7, <1>8, <1>9, <1>10, <1>11, NextCases
     DEF vars, queueVars, DecideEntry, ApplyEntries, SyncStore,
         DeleteEntries, Disconnected, flush

\* Every step keeps the states of the wallet, wherever they are, equal to what
\* the log up to their applied index gives.
LEMMA WalletStep ==
    TypeOK /\ OnTheWay /\ WalletFollowsTheLog /\ SavedWalletsAlive
        /\ [Next]_vars => WalletFollowsTheLog' /\ SavedWalletsAlive'
<1> SUFFICES ASSUME TypeOK, OnTheWay, WalletFollowsTheLog, SavedWalletsAlive,
                    [Next]_vars
             PROVE  WalletFollowsTheLog' /\ SavedWalletsAlive'
  OBVIOUS
<1> DEFINE Follows(w) ==
               /\ Len(w.applied) <= Len(log')
               /\ \A k \in 1 .. Len(w.applied) : w.applied[k] = log'[k]
               /\ w.applied_index = InitialIndex + Len(w.applied)
<1>1. SUFFICES (\A w \in (walletdb \cup {wallet, flushed})' : Follows(w))
               /\ SavedWalletsAlive'
  BY DEF WalletFollowsTheLog, Prefix
<1>2. \A w \in walletdb \cup {wallet, flushed} : Follows(w)
  <2>1. SUFFICES ASSUME NEW w \in walletdb \cup {wallet, flushed}
                 PROVE  Follows(w)
    OBVIOUS
  <2>2. /\ Len(w.applied) <= Len(log)
        /\ \A k \in 1 .. Len(w.applied) : w.applied[k] = log[k]
        /\ w.applied_index = InitialIndex + Len(w.applied)
    BY DEF WalletFollowsTheLog, Prefix
  <2>3. Len(w.applied) \in Nat
    BY DEF TypeOK, WalletState
  <2> QED
    BY <2>2, <2>3, LogGrows
<1> HIDE DEF Follows
<1>3. CASE UNCHANGED <<wallet, flushed, walletdb>>
  BY <1>2, <1>3 DEF SavedWalletsAlive
<1>4. CASE apply_entry
  <2>1. flushed' = flushed /\ walletdb' = walletdb /\ log' = log
    BY <1>4 DEF apply_entry, logVars
  <2>2. CASE wallet' = [wallet EXCEPT !.alive = FALSE]
    <3>1. /\ wallet'.applied = wallet.applied
          /\ wallet'.applied_index = wallet.applied_index
      BY <2>2 DEF TypeOK, WalletState
    <3>2. Follows(wallet')
      BY <1>2, <3>1 DEF Follows
    <3> QED
      BY <1>2, <2>1, <3>2 DEF SavedWalletsAlive
  <2>3. CASE /\ Head(channel).index = wallet.applied_index + 1
             /\ wallet' = [wallet EXCEPT
                              !.applied_index = Head(channel).index,
                              !.applied = Append(@, Head(channel).payload)]
    <3> DEFINE n == Len(wallet.applied)
    <3>1. /\ n \in Nat /\ wallet.applied \in Seq(Payload)
          /\ wallet.applied_index = InitialIndex + n
      BY <1>2 DEF Follows, TypeOK, WalletState
    <3>2. IsEntry(Head(channel)) /\ Head(channel) \in Item
      <4>1. /\ channel \in Seq(Item) /\ channel # <<>>
            /\ \A k \in 1 .. Len(channel) : IsEntry(channel[k])
        BY <1>4 DEF apply_entry, TypeOK, OnTheWay
      <4>2. /\ Head(channel) = channel[1] /\ 1 \in 1 .. Len(channel)
            /\ Head(channel) \in Item
        BY <4>1
      <4> QED
        BY <4>1, <4>2
    <3>3. /\ Head(channel).payload = log[n + 1]
          /\ Head(channel).payload \in Payload
          /\ n + 1 <= Len(log)
      BY <2>3, <3>1, <3>2, SMTT(40) DEF IsEntry, Item, decided, InitialIndex, TypeOK
    <3>4. /\ wallet'.applied = Append(wallet.applied, Head(channel).payload)
          /\ wallet'.applied_index = InitialIndex + (n + 1)
      BY <2>3, <3>1 DEF TypeOK, WalletState, InitialIndex
    <3>5. /\ Len(wallet'.applied) = n + 1
          /\ \A k \in 1 .. n : wallet'.applied[k] = wallet.applied[k]
          /\ wallet'.applied[n + 1] = log[n + 1]
      BY <3>1, <3>3, <3>4
    <3>6. \A k \in 1 .. n : wallet.applied[k] = log[k]
      BY <1>2, <2>1 DEF Follows
    <3> HIDE DEF n
    <3>7. \A k \in 1 .. n + 1 : wallet'.applied[k] = log'[k]
      BY <2>1, <3>1, <3>5, <3>6
    <3>8. Follows(wallet')
      BY <2>1, <3>3, <3>4, <3>5, <3>7 DEF Follows
    <3> QED
      BY <1>2, <2>1, <3>8 DEF SavedWalletsAlive
  <2> QED
    BY <1>4, <2>2, <2>3 DEF apply_entry
<1>5. CASE Disconnected
  <2>1. /\ wallet'.applied = wallet.applied
        /\ wallet'.applied_index = wallet.applied_index
        /\ flushed' = flushed /\ walletdb' = walletdb
    BY <1>5 DEF Disconnected, TypeOK, WalletState
  <2>2. Follows(wallet')
    BY <1>2, <2>1 DEF Follows
  <2> QED
    BY <1>2, <2>1, <2>2 DEF SavedWalletsAlive
<1>6. CASE flush
  BY <1>2, <1>6 DEF flush, SavedWalletsAlive
<1>7. CASE Crash
  BY <1>2, <1>7 DEF Crash, SavedWalletsAlive
<1> QED
  BY <1>3, <1>4, <1>5, <1>6, <1>7, NextCases
     DEF vars, queueVars, DecideEntry, ApplyEntries, SyncStore,
         DeleteEntries, start_consuming, get_range, fetch_entries_to, send,
         SendFails

\* A consumer that keeps up is never overtaken by compaction.
LEMMA KeepingUp ==
    ASSUME TypeOK, StoreInv, OnTheWay, ~ Lagging(store, consumer)
    PROVE  /\ store.truncated < consumer.log_index
           /\ deleted < consumer.log_index
<1>1. /\ store.applied \in Int /\ store.truncated \in Int
      /\ consumer.log_index \in Int /\ deleted \in Int /\ Retained \in Nat
  BY RetainedOK DEF TypeOK, StoreState, ConsumerState
<1>2. /\ store.truncated = InitialIndex
            \/ store.truncated <= store.applied - Retained
      /\ deleted <= store.truncated
  BY DEF StoreInv
<1>3. InitialIndex < consumer.log_index
  BY DEF OnTheWay
<1>4. store.applied - consumer.log_index < Retained
  BY <1>1 DEF Lagging
<1> QED
  BY <1>1, <1>2, <1>3, <1>4 DEF InitialIndex

\* Every step leaves what is on its way without a gap, as long as the consumer
\* keeps up.
LEMMA NoGapStep ==
    IInv /\ [Next]_vars => (~ lagged' => NoGap')
<1> SUFFICES ASSUME IInv, [Next]_vars, ~ lagged' PROVE NoGap'
  OBVIOUS
<1>0. TypeOK /\ StoreInv /\ OnTheWay /\ (~ lagged => NoGap)
  BY DEF IInv
<1>1. /\ consumer.log_index \in Int /\ consumer.end \in Int
      /\ consumer.buf \in Seq(Item) /\ channel \in Seq(Item)
      /\ store.applied \in Int /\ store.truncated \in Int
      /\ wallet.applied_index \in Int /\ deleted \in Int
      /\ Len(channel) \in Nat /\ Len(consumer.buf) \in Nat
  BY <1>0, SMTT(40) DEF TypeOK, ConsumerState, StoreState, WalletState
<1>2. CASE Crash
  <2>1. /\ wallet' = flushed' /\ consumer' = start_consumer(flushed')
        /\ channel' = <<>> /\ Remember
        /\ flushed' \in walletdb \cup {flushed}
    BY <1>2 DEF Crash
  <2>2. flushed'.alive /\ flushed' \in WalletState
    BY <1>0, <2>1 DEF IInv, SavedWalletsAlive, TypeOK
  <2>3. ~ Lagging(store', consumer')
    BY <2>1, ZenonT(40) DEF Remember
  <2>4. /\ consumer'.pc = "state"
        /\ consumer'.log_index = wallet'.applied_index + 1
        /\ Len(channel') = 0 /\ wallet'.applied_index \in Int
    BY <2>1, <2>2 DEF start_consumer, WalletState
  <2>5. NextIndex' = consumer'.log_index
    BY <2>4 DEF NextIndex
  <2> QED
    BY <2>1, <2>2, <2>3, <2>4, <2>5 DEF NoGap, Lagging
<1>3. ~ Crash => ~ lagged /\ NoGap
  <2>1. ~ Crash => ~ lagged
    BY NextCases, ZenonT(40)
       DEF vars, DecideEntry, ApplyEntries, SyncStore, DeleteEntries,
           start_consuming, get_range, fetch_entries_to, send, SendFails,
           apply_entry, Disconnected, flush, Remember
  <2> QED
    BY <1>0, <2>1
<1>4. SUFFICES ASSUME NoGap PROVE NoGap'
  BY <1>2, <1>3
<1>5. /\ store.truncated < consumer.log_index
      /\ deleted < consumer.log_index
  BY <1>0, <1>4, KeepingUp DEF NoGap
<1>6. CASE UNCHANGED <<store, consumer, channel, wallet>>
  BY <1>4, <1>6 DEF NoGap, Lagging, NextIndex
<1>7. CASE ApplyEntries
  <2>1. /\ UNCHANGED <<consumer, channel, wallet>> /\ Remember
        /\ store.applied <= store'.applied
    BY <1>1, <1>7 DEF ApplyEntries, Apply, queueVars, State
  <2>2. ~ Lagging(store', consumer')
    BY <2>1, ZenonT(40) DEF Remember
  <2>3. store'.applied \in Int
    BY <1>0, <1>7, TypeStep DEF TypeOK, StoreState
  <2> QED
    BY <1>1, <1>4, <2>1, <2>2, <2>3 DEF NoGap, NextIndex, Lagging
<1>8. CASE start_consuming
  <2>1. /\ UNCHANGED <<store, channel, wallet>> /\ Remember
        /\ consumer.pc = "state" /\ consumer.log_index <= store.applied
        /\ consumer' = [consumer EXCEPT !.pc = "range",
                 !.end = Min(consumer.log_index + ReadAhead, store.applied)]
    BY <1>1, <1>5, <1>8 DEF start_consuming, logVars
  <2>2. /\ consumer'.pc = "range"
        /\ consumer'.log_index = consumer.log_index
        /\ consumer'.end = Min(consumer.log_index + ReadAhead, store.applied)
    BY <1>0, <2>1 DEF TypeOK, ConsumerState
  <2>3. consumer'.end <= store.applied
    BY <1>1, <2>2, QueueConstantsOK DEF Min
  <2> QED
    BY <1>4, <2>1, <2>2, <2>3 DEF NoGap, NextIndex, Lagging
<1>9. CASE get_range
  <2>1. /\ UNCHANGED <<store, channel, wallet>>
        /\ consumer.pc = "range" /\ consumer.end <= store.applied
    BY <1>4, <1>9 DEF get_range, logVars, NoGap
  <2>2. consumer' = [consumer EXCEPT !.pc = "fetch"]
    BY <1>1, <1>5, <1>9, <2>1 DEF get_range
  <2>3. /\ consumer'.pc = "fetch"
        /\ consumer'.log_index = consumer.log_index
        /\ consumer'.end = consumer.end
    BY <1>0, <2>2 DEF TypeOK, ConsumerState
  <2> QED
    BY <1>4, <2>1, <2>3 DEF NoGap, NextIndex, Lagging
<1>10. CASE fetch_entries_to
  <2> DEFINE low == consumer.log_index
             buf == Fetched(low, consumer.end)
  <2>1. /\ UNCHANGED <<store, channel, wallet>> /\ consumer.pc = "fetch"
        /\ low <= consumer.end /\ consumer.end <= decided
        /\ InitialIndex < low /\ low = NextIndex
    BY <1>0, <1>4, <1>10 DEF fetch_entries_to, logVars, OnTheWay, NoGap
  <2>2. /\ Len(buf) = consumer.end - low + 1
        /\ \A k \in 1 .. consumer.end - low + 1 : buf[k].index = low + k - 1
    BY <1>0, <1>1, <1>5, <2>1, FetchedEntries, ZenonT(40)
  <2>3. buf # <<>>
    <3>1. Len(buf) # 0
      BY <1>1, <2>1, <2>2
    <3>2. Len(<<>>) = 0
      OBVIOUS
    <3> QED
      BY <3>1, <3>2, Zenon
  <2>4. ~ FetchPanics(low, consumer.end)
    BY <1>1, <1>5 DEF FetchPanics
  <2> HIDE DEF buf
  <2>5. consumer' = [consumer EXCEPT !.pc = "send", !.buf = buf]
    BY <1>10, <2>3, <2>4 DEF fetch_entries_to, buf
  <2>6. /\ consumer'.pc = "send" /\ consumer'.buf = buf
        /\ consumer'.log_index = low /\ consumer'.end = consumer.end
    BY <1>0, <2>5 DEF TypeOK, ConsumerState
  <2>7. NextIndex' = NextIndex /\ NextIndex \in Int
    BY <1>1, <2>1 DEF NextIndex
  <2>8. /\ \A k \in 1 .. Len(buf) : buf[k].index = NextIndex + k - 1
        /\ consumer.end = NextIndex + Len(buf) - 1
    BY <1>1, <2>1, <2>2, <2>7
  <2> QED
    BY <1>4, <2>1, <2>6, <2>7, <2>8 DEF NoGap, Lagging
<1>11. CASE send
  <2>1. /\ channel' = Append(channel, Head(consumer.buf))
        /\ consumer.buf # <<>>
    BY <1>0, <1>11 DEF send, OnTheWay
  <2>2. UNCHANGED <<store, wallet>> /\ Remember /\ consumer.pc = "send"
    BY <1>11 DEF send, logVars
  <2> DEFINE n == Len(channel)
             m == Len(consumer.buf)
             w == wallet.applied_index
             e == consumer.buf[1]
  <2>3. Head(consumer.buf) = e /\ e \in Item /\ m > 0
    BY <1>1, <2>1
  <2>4. /\ Len(channel') = n + 1
        /\ \A k \in 1 .. n : channel'[k] = channel[k]
        /\ channel'[n + 1] = e
    BY <1>1, <2>1, <2>3
  <2>5. n \in Nat /\ m \in Nat /\ w \in Int /\ consumer.end \in Int
    BY <1>1
  <2>6. /\ \A k \in 1 .. n : channel[k].index = w + k
        /\ \A k \in 1 .. m : consumer.buf[k].index = w + n + 1 + k - 1
        /\ consumer.end = w + n + 1 + m - 1
    BY <1>4, <2>2 DEF NoGap, NextIndex
  <2>7. NextIndex' = w + (n + 1) + 1 /\ wallet'.applied_index = w
    BY <2>2, <2>4 DEF NextIndex
  <2> HIDE DEF n, m, w
  <2>10. e.index = w + n + 1
    BY <2>3, <2>5, <2>6
  <2> HIDE DEF e
  <2>11. \A k \in 1 .. Len(channel') :
            channel'[k].index = wallet'.applied_index + k
    <3>1. \A k \in 1 .. n + 1 : channel'[k].index = w + k
      <4> SUFFICES ASSUME NEW k \in 1 .. n + 1
                   PROVE  channel'[k].index = w + k
        OBVIOUS
      <4>1. (k \in 1 .. n \/ k = n + 1) /\ w + n + 1 = w + (n + 1)
        BY <2>5
      <4>2. CASE k \in 1 .. n
        BY <2>4, <2>6, <4>2, Zenon
      <4>3. CASE k = n + 1
        BY <2>4, <2>10, <4>1, <4>3, Zenon
      <4> QED
        BY <4>1, <4>2, <4>3
    <3> QED
      BY <2>4, <2>7, <3>1, Zenon
  <2>12. ~ Lagging(store', consumer')
    BY <2>2, ZenonT(40) DEF Remember
  <2>13. CASE m = 1
    <3>1. consumer' = NextRange(consumer)
      BY <1>11, <2>13 DEF send, m
    <3>2. consumer'.pc = "state" /\ consumer'.log_index = consumer.end + 1
      BY <1>0, <3>1 DEF NextRange, TypeOK, ConsumerState
    <3>3. consumer'.log_index = NextIndex'
      BY <2>5, <2>6, <2>7, <2>13, <3>2
    <3> QED
      BY <1>4, <2>2, <2>11, <2>12, <3>2, <3>3 DEF NoGap, Lagging
  <2>14. CASE m # 1
    <3>1. consumer' = [consumer EXCEPT !.buf = Tail(@)]
      BY <1>11, <2>14 DEF send, m
    <3>2. /\ consumer'.pc = "send" /\ consumer'.end = consumer.end
          /\ consumer'.log_index = consumer.log_index
          /\ consumer'.buf = Tail(consumer.buf)
      BY <1>0, <2>2, <3>1 DEF TypeOK, ConsumerState
    <3>3. /\ Len(consumer'.buf) = m - 1
          /\ \A k \in 1 .. m - 1 : consumer'.buf[k] = consumer.buf[k + 1]
      BY <1>1, <2>1, <3>2 DEF m
    <3>4. \A k \in 1 .. m - 1 :
              consumer'.buf[k].index = w + (n + 1) + 1 + k - 1
      <4> SUFFICES ASSUME NEW k \in 1 .. m - 1
                   PROVE  consumer'.buf[k].index = w + (n + 1) + 1 + k - 1
        OBVIOUS
      <4>1. k + 1 \in 1 .. m /\ k \in Int
        BY <2>5
      <4>2. consumer.buf[k + 1].index = w + n + 1 + (k + 1) - 1
        BY <2>6, <4>1, Zenon
      <4>3. w + n + 1 + (k + 1) - 1 = w + (n + 1) + 1 + k - 1
        BY <2>5, <4>1
      <4> QED
        BY <3>3, <4>2, <4>3, Zenon
    <3>5. consumer.end = w + (n + 1) + 1 + (m - 1) - 1
      BY <2>5, <2>6
    <3>6. /\ \A k \in 1 .. Len(consumer'.buf) :
                consumer'.buf[k].index = NextIndex' + k - 1
          /\ consumer'.end = NextIndex' + Len(consumer'.buf) - 1
      BY <2>7, <3>2, <3>3, <3>4, <3>5, Zenon
    <3> QED
      BY <1>4, <2>2, <2>11, <2>12, <3>2, <3>6 DEF NoGap, Lagging
  <2> QED
    BY <2>13, <2>14
<1>12. CASE apply_entry
  <2>1. /\ UNCHANGED <<store, consumer>> /\ channel' = Tail(channel)
        /\ channel # <<>>
    BY <1>12 DEF apply_entry, logVars
  <2>2. /\ Head(channel) = channel[1] /\ Len(channel) > 0
        /\ Len(channel') = Len(channel) - 1
        /\ \A k \in 1 .. Len(channel') :
              k + 1 \in 1 .. Len(channel) /\ channel'[k] = channel[k + 1]
    BY <1>1, <2>1
  <2>3. Head(channel).index = wallet.applied_index + 1
    BY <1>1, <1>4, <2>2 DEF NoGap
  <2>4. /\ wallet'.applied_index = wallet.applied_index + 1
        /\ wallet'.alive = wallet.alive
    BY <1>0, <1>12, <2>3, ZenonT(40) DEF apply_entry, TypeOK, WalletState
  <2>5. NextIndex' = NextIndex
    BY <1>1, <2>2, <2>4 DEF NextIndex
  <2>6. \A k \in 1 .. Len(channel') :
            channel'[k].index = wallet'.applied_index + k
    <3> DEFINE n == Len(channel)
               w == wallet.applied_index
    <3>1. n \in Nat /\ w \in Int /\ \A k \in 1 .. n : channel[k].index = w + k
      BY <1>1, <1>4 DEF NoGap
    <3>2. /\ Len(channel') = n - 1 /\ wallet'.applied_index = w + 1
          /\ \A k \in 1 .. n - 1 : channel'[k] = channel[k + 1]
      BY <2>2, <2>4
    <3> HIDE DEF n, w
    <3>3. \A k \in 1 .. n - 1 : channel'[k].index = w + 1 + k
      BY <3>1, <3>2, SMTT(40)
    <3> QED
      BY <3>2, <3>3, Zenon
  <2> QED
    BY <1>4, <2>1, <2>4, <2>5, <2>6 DEF NoGap, Lagging
<1>13. ~ Disconnected /\ ~ SendFails
  BY <1>4 DEF Disconnected, SendFails, NoGap
<1> QED
  BY <1>2, <1>6, <1>7, <1>8, <1>9, <1>10, <1>11, <1>12, <1>13, NextCases
     DEF vars, logVars, queueVars, DecideEntry, SyncStore, Sync,
         DeleteEntries, Delete, flush

\* The invariant holds initially and every step preserves it.
THEOREM InductiveInvariant == Spec => []IInv
<1>1. Init => IInv
  <2> SUFFICES ASSUME Init PROVE IInv
    OBVIOUS
  <2>1. TypeOK
    BY DEF Init, LogInit, TypeOK, State, StoreState, WalletState,
           ConsumerState, start_consumer, InitialIndex, Lagging
  <2>2. StoreInv
    BY DEF Init, LogInit, StoreInv, State, InitialIndex, decided
  <2>3. OnTheWay
    BY DEF Init, OnTheWay, start_consumer, InitialIndex
  <2>4. WalletFollowsTheLog /\ SavedWalletsAlive
    BY DEF Init, LogInit, WalletFollowsTheLog, SavedWalletsAlive, Prefix,
           InitialIndex
  <2>5. ~ lagged => NoGap
    BY DEF Init, NoGap, NextIndex, start_consumer, InitialIndex
  <2> QED
    BY <2>1, <2>2, <2>3, <2>4, <2>5 DEF IInv
<1>2. IInv /\ [Next]_vars => IInv'
  BY TypeStep, StoreStep, OnTheWayStep, WalletStep, NoGapStep DEF IInv
<1> QED
  BY <1>1, <1>2, PTL DEF Spec

\* Whatever the store compacts or deletes between the steps of the consumer,
\* and whatever a crash takes back, the wallet's state is the result of the
\* decided entries up to its applied index (start_consuming, get_range,
\* fetch_entries_to, apply_entry).
THEOREM WalletAlwaysFollowsTheLog == Spec => []WalletFollowsTheLog
<1>1. IInv => WalletFollowsTheLog
  BY DEF IInv
<1> QED
  BY <1>1, InductiveInvariant, PTL

\* The panics of the consumer (a gap before its range, an error of get_range,
\* a missing entry) and of the apply loop (an index that does not follow, a
\* channel without a sender) are reached only by a consumer that has been
\* behind the store by as much as compaction leaves.
THEOREM OnlyLaggingStops == Spec => []StopsOnlyWhenLagging
<1>1. IInv => StopsOnlyWhenLagging
  BY DEF IInv, NoGap, StopsOnlyWhenLagging
<1> QED
  BY <1>1, InductiveInvariant, PTL
=============================================================================
