------------------------------ MODULE ToldProofs ------------------------------
(***************************************************************************)
(* What a wallet replica tells its clients before and after a crash: the   *)
(* events that the queries serve and the accounts that the reads show.     *)
(***************************************************************************)
EXTENDS LedgerProofs

USE DEF APPLIED_INDEX, PERSISTED_FIRST_SEQ_NUM, PERSISTED_LAST_SEQ_NUM, HardKeys

-----------------------------------------------------------------------------
(* What the clients were told.                                             *)

\* The ledger of the whole log.
Final == LogRun(log)[Len(log)]

\* The events of a sequence, under the seq_nums from the first one on.
Numbered(s, first) == [n \in first..(first + Len(s))-1 |-> s[n - first + 1]]

ReadSoFar == Numbered(q_events, q_first)

\* What was served, and what is about to be, are events of the ledger.
ServedInv == EventsFrom(served, Final) /\ EventsFrom(ReadSoFar, Final)

\* What a read at some ledger may say.
Shows(r, ledger) ==
    /\ r.seq_num = ledger.seq_num
    /\ r.id \in DOMAIN ledger.accounts =>
          /\ r.err = "Ok"
          /\ \E view \in {ledger.accounts[r.id], BalanceOf(ledger.accounts[r.id])} :
                r = [seq_num |-> r.seq_num, id |-> r.id, err |-> "Ok", view |-> view]
    /\ r.id \notin DOMAIN ledger.accounts => Gone(r)

\* The last read was true somewhere in the log.
ReadInv ==
    read.err # "DataNotReady" =>
        \E k, n : IsPlace(log, k, n) /\ Shows(read, LedgerAt(log, k, n))

\* The replica's own events are events of the ledger of the whole log.
LEMMA OnTheWay ==
    ASSUME IInv, SInv, FInv
    PROVE  /\ EventsFrom(db.event, Final) /\ EventsFrom(RetainedEvents, Final)
           /\ LedgerOK(Final, APPLIED_INDEX + Len(log) + 1, 0)
  <1>1. IsLog(log) /\ IsPlace(log, applied_index - APPLIED_INDEX, offset) /\ Len(log) \in 0..Len(log)
    BY Placed, SMTT(40) DEF IsLog
  <1>2. Contained(Now.events, Final.events)
    BY <1>1, PlaceOK, Zenon DEF Now, Final, Grows
  <1>3. EventsFrom(db.event, Final) /\ EventsFrom(event_cache, Final)
    BY <1>2, EventsStay, Zenon DEF FInv, MemoryFollows
  <1>4. LedgerOK(LogRun(log)[Len(log)], APPLIED_INDEX + Len(log) + 1, 0)
    BY <1>1, WholeEntries, PlaceOK, Zenon
  <1> QED BY <1>3, <1>4, EventsMerged, Zenon DEF RetainedEvents, Final

\* A longer log keeps its ledgers.
LEMMA FinalGrows ==
    ASSUME IInv, SInv, SInv', [Next]_vars
    PROVE  /\ Contained(Final.events, Final'.events)
           /\ \A k, n : IsPlace(log, k, n) =>
                 IsPlace(log', k, n) /\ LedgerAt(log', k, n) = LedgerAt(log, k, n)
  <1>1. CASE UNCHANGED log
    <2>1. Final' = Final
      BY <1>1, ZenonT(40) DEF Final
    <2> QED BY <1>1, <2>1, Zenon DEF Contained
  <1>2. CASE Commit
    <2>1. (\E e : log' = Append(log, e)) /\ log \in Seq(Seq(Command))
      BY <1>2, ZenonT(40) DEF Commit, SInv, LogOK
    <2>2. IsLog(log) /\ IsLog(log')
      BY LogOfCommands, Zenon DEF SInv, LogOK
    <2>3. /\ Len(log) <= Len(log') /\ \A i \in 1..Len(log) : log'[i] = log[i]
          /\ Len(log) \in 0..Len(log)
      BY <2>1, SMTT(40)
    <2>4. \A k, n : IsPlace(log, k, n) =>
             IsPlace(log', k, n) /\ LedgerAt(log', k, n) = LedgerAt(log, k, n)
      BY <2>2, <2>3, PlacePrefix, Zenon
    <2>5. IsPlace(log, Len(log), 0) /\ LedgerAt(log, Len(log), 0) = Final
      BY <2>2, <2>3, WholeEntries, Zenon DEF Final
    <2>6. Grows(LedgerAt(log', Len(log), 0), LogRun(log')[Len(log')])
      BY <2>2, <2>4, <2>5, PlaceOK, Zenon
    <2>7. Contained(Final.events, Final'.events)
      BY <2>4, <2>5, <2>6, Zenon DEF Grows, Final
    <2> QED BY <2>4, <2>7, ZenonT(40)
  <1>3. UNCHANGED log \/ Commit
    BY FollowSteps, ZenonT(40)
       DEF HandleDuplicate, RejectCommand, SendEvent, ExecuteCommand, FinishEntry, Flush, GcWrite,
           Persist, Crash, smVars
  <1> QED BY <1>1, <1>2, <1>3, ZenonT(40)

\* t is s and one more event, the one numbered n.
NextIsRead(s, t, e, first, n) ==
    /\ IsTuple(s) /\ Len(s) \in Nat /\ first \in Nat
    /\ t = Append(s, e) /\ n = first + Len(s)

\* One more event is read.
LEMMA ReadOneMore ==
    ASSUME NEW s, NEW t, NEW e, NEW first, NEW n, NEW ledger, NextIsRead(s, t, e, first, n),
           EventsFrom(Numbered(s, first), ledger), EventsFrom(Single(n, e), ledger)
    PROVE  EventsFrom(Numbered(t, first), ledger)
  <1>0. Len(s) \in Nat /\ first \in Nat /\ n = first + Len(s)
    BY ZenonT(40) DEF NextIsRead
  <1>1. /\ Len(t) = Len(s) + 1 /\ t[Len(s) + 1] = e
        /\ \A i \in 1..Len(s) : t[i] = s[i]
    BY SMTT(40) DEF IsTuple, NextIsRead
  <1>2. first..(first + Len(t))-1 = (first..n-1) \cup {n}
    BY <1>0, <1>1
  <1>3. \A i \in first..n-1 : t[i - first + 1] = s[i - first + 1] /\ i # n
    BY <1>0, <1>1
  <1>4. t[n - first + 1] = e
    BY <1>0, <1>1
  <1>5. Numbered(t, first) = Overlay(Numbered(s, first), Single(n, e))
    BY <1>0, <1>2, <1>3, <1>4, ZenonT(40) DEF Overlay, Single, Numbered
  <1> QED BY <1>5, EventsMerged, Zenon

\* A table without events, whatever its bounds.
LEMMA NothingRead ==
    ASSUME NEW ledger, NEW s, NEW first \in Nat, Len(s) = 0
    PROVE  EventsFrom(Numbered(s, first), ledger)
  <1>1. first..(first + Len(s))-1 = {}
    OBVIOUS
  <1> QED BY <1>1, ZenonT(40) DEF EventsFrom, Numbered

LEMMA QueryServedInv ==
    ASSUME IInv, SInv, FInv, QInv, QInv', ServedInv, QueryStep, UNCHANGED vars PROVE ServedInv'
  <1>0. UNCHANGED <<log, db>> /\ Final' = Final
    BY ZenonT(40) DEF vars, smVars, Final
  <1>1. CASE UNCHANGED <<served, q_first, q_events>>
    BY <1>0, <1>1, Zenon DEF ServedInv, ReadSoFar
  <1>2. CASE UNCHANGED served /\ q_events' = << >>
    <2>1. Len(q_events') = 0 /\ q_first' \in Nat
      BY <1>2, Zenon DEF QInv
    <2>2. EventsFrom(ReadSoFar', Final)
      BY <2>1, NothingRead, Zenon DEF ReadSoFar
    <2> QED BY <1>0, <1>2, <2>2, Zenon DEF ServedInv
  <1>3. CASE QueryReadEvent /\ NextToRead \in DOMAIN db.event
    <2>0. db.event[NextToRead].seq_num = NextToRead
      BY <1>3, Zenon DEF SInv, EventsOK, AllEvents
    <2>1. /\ q_events' = Append(q_events, db.event[NextToRead])
          /\ UNCHANGED <<q_first, served>>
      BY <1>3, <2>0, ZenonT(40) DEF QueryReadEvent
    <2>2. NextIsRead(q_events, q_events', db.event[NextToRead], q_first, NextToRead)
      BY <2>1, Zenon DEF NextIsRead, NextToRead, QInv
    <2>3. EventsFrom(Single(NextToRead, db.event[NextToRead]), Final)
      BY <1>3, OnTheWay, ZenonT(40) DEF EventsFrom, Single
    <2>4. EventsFrom(Numbered(q_events', q_first), Final)
      BY <2>2, <2>3, ReadOneMore, Zenon DEF ServedInv, ReadSoFar
    <2> QED BY <1>0, <2>1, <2>4, Zenon DEF ServedInv, ReadSoFar
  <1>4. CASE QueryRespond
    <2>1. /\ served' = Overlay(served, [n \in q_first..q_last |-> q_events[n - q_first + 1]])
          /\ UNCHANGED <<q_first, q_events>> /\ q = "read" /\ NextToRead > q_last
      BY <1>4, Zenon DEF QueryRespond
    <2>2. q_last = NextToRead - 1
      <3>1. /\ q_first \in Nat /\ q_last \in Nat /\ Len(q_events) \in Nat
            /\ NextToRead <= q_last + 1
        BY <2>1, Zenon DEF QInv
      <3> QED BY <2>1, <3>1 DEF NextToRead
    <2>3. served' = Overlay(served, ReadSoFar) /\ ReadSoFar' = ReadSoFar
      <3>1. q_last = (q_first + Len(q_events)) - 1
        BY <2>2, ZenonT(40) DEF NextToRead
      <3> QED BY <2>1, <3>1, Zenon DEF ReadSoFar, Numbered
    <2> QED BY <1>0, <2>3, EventsMerged, Zenon DEF ServedInv
  <1>5. CASE QueryReadEvent /\ NextToRead \notin DOMAIN db.event
    BY <1>1, <1>5, ZenonT(40) DEF QueryReadEvent
  <1> QED BY <1>1, <1>2, <1>3, <1>4, <1>5, ZenonT(40)
          DEF QueryStep, QueryReadLast, QueryReadFirst, QueryFinish, QueryOver, Read

\* The replica moves on.
LEMMA NextServedInv ==
    ASSUME IInv, SInv, SInv', QInv', ServedInv, [Next]_vars, UNCHANGED queryVars \/ QueryOver
    PROVE  ServedInv'
  <1>1. Contained(Final.events, Final'.events)
    BY FinalGrows, Zenon
  <1>2. EventsFrom(served, Final') /\ EventsFrom(ReadSoFar, Final')
    BY <1>1, EventsStay, Zenon DEF ServedInv
  <1>3. CASE UNCHANGED queryVars
    BY <1>2, <1>3, Zenon DEF queryVars, ServedInv, ReadSoFar
  <1>4. CASE QueryOver
    <2>1. q_events' = << >> /\ UNCHANGED served
      BY <1>4, Zenon DEF QueryOver
    <2>2. Len(q_events') = 0 /\ q_first' \in Nat
      BY <2>1, ZenonT(40) DEF QInv
    <2>3. EventsFrom(ReadSoFar', Final')
      BY <2>2, NothingRead, Zenon DEF ReadSoFar
    <2> QED BY <1>2, <2>1, <2>3, Zenon DEF ServedInv
  <1> QED BY <1>3, <1>4, ZenonT(40)

-----------------------------------------------------------------------------
IsRead(r, s, id) == r \in {get_account(s, id), query_balance(s, id)}

\* What the two reads answer.
LEMMA ReadAnswers ==
    ASSUME NEW s, NEW id, NEW r, IsRead(r, s, id)
    PROVE  /\ s > last_seq_num => r.err = "DataNotReady"
           /\ ~(s > last_seq_num) => r.seq_num = last_seq_num /\ r.id = id
           /\ ~(s > last_seq_num) /\ id \notin DOMAIN accounts => r.err = "AccountNotExist"
           /\ ~(s > last_seq_num) /\ id \in DOMAIN accounts =>
                 \E view \in {accounts[id], BalanceOf(accounts[id])} :
                    r = [seq_num |-> last_seq_num, id |-> id, err |-> "Ok", view |-> view]
  BY SMTT(40) DEF IsRead, get_account, query_balance, ReadAt, Failure

\* The view of an emptied account.
LEMMA EmptiedIsGone ==
    ASSUME NEW a, DOMAIN a = Fields, Emptied(a), NEW view \in {a, BalanceOf(a)},
           NEW n, NEW id, NEW r, r = [seq_num |-> n, id |-> id, err |-> "Ok", view |-> view]
    PROVE  Gone(r)
  BY SMTT(40) DEF Emptied, BalanceOf, Gone

\* A read shows the ledger where the apply loop is.
LEMMA ReadShowsNow ==
    ASSUME AInv, MInv, FInv, NEW s, NEW id, ~(s > last_seq_num),
           NEW r, IsRead(r, s, id)
    PROVE  Shows(r, Now)
  <1> DEFINE T == to_be_deleted_account_ids
  <1>1. r.seq_num = last_seq_num /\ r.id = id
    BY ReadAnswers, Zenon
  <1>2. last_seq_num = Now.seq_num /\ Without(accounts, T) = Now.accounts
    BY ZenonT(40) DEF FInv, MemoryFollows
  <1>3. /\ DOMAIN Now.accounts = DOMAIN accounts \ T
        /\ \A x \in DOMAIN Now.accounts : Now.accounts[x] = accounts[x]
    <2>1. /\ DOMAIN Without(accounts, T) = DOMAIN accounts \ T
          /\ \A x \in DOMAIN Without(accounts, T) : Without(accounts, T)[x] = accounts[x]
      BY ZenonT(40) DEF Without
    <2> QED BY <1>2, <2>1, Zenon
  <1>4. CASE id \notin DOMAIN accounts
    <2>1. r.err = "AccountNotExist"
      BY <1>4, ReadAnswers, Zenon
    <2> QED BY <1>1, <1>2, <1>3, <1>4, <2>1, ZenonT(40) DEF Shows, Gone
  <1>5. CASE id \in DOMAIN accounts
    <2>1. PICK view \in {accounts[id], BalanceOf(accounts[id])} :
             r = [seq_num |-> last_seq_num, id |-> id, err |-> "Ok", view |-> view]
      BY <1>5, ReadAnswers, Zenon
    <2>2. CASE id \in T
      <3>1. Emptied(accounts[id]) /\ DOMAIN accounts[id] = Fields
        BY <1>5, <2>2, Zenon DEF MInv, Tombstones, AInv, AccountTable
      <3>2. Gone(r)
        BY <2>1, <3>1, EmptiedIsGone, Zenon
      <3> QED BY <1>1, <1>2, <1>3, <2>2, <3>2, Zenon DEF Shows
    <2>3. CASE id \notin T
      <3>1. id \in DOMAIN Now.accounts /\ accounts[id] = Now.accounts[id] /\ r.err = "Ok"
        BY <1>3, <1>5, <2>1, <2>3, ZenonT(40)
      <3> QED BY <1>1, <1>2, <2>1, <3>1, Zenon DEF Shows
    <2> QED BY <2>2, <2>3, Zenon
  <1> QED BY <1>4, <1>5, ZenonT(40)

LEMMA NextReadInv ==
    ASSUME IInv, SInv, SInv', AInv, MInv, FInv, ReadInv, [QNext]_allVars
    PROVE  ReadInv'
  <1>0. [Next]_vars
    BY Zenon DEF QNext, allVars
  <1>1. CASE UNCHANGED read
    BY <1>0, <1>1, FinalGrows, Zenon DEF ReadInv
  <1>2. CASE Read /\ UNCHANGED vars
    <2>1. PICK s, id : IsRead(read', s, id)
      BY <1>2, Zenon DEF Read, IsRead
    <2>2. CASE s > last_seq_num
      BY <2>1, <2>2, ReadAnswers, Zenon DEF ReadInv
    <2>3. CASE ~(s > last_seq_num)
      <3>1. Shows(read', Now)
        BY <2>1, <2>3, ReadShowsNow, Zenon
      <3>2. IsPlace(log, applied_index - APPLIED_INDEX, offset)
        BY Placed, Zenon
      <3>3. log' = log
        BY <1>2, ZenonT(40) DEF vars, smVars
      <3> QED BY <3>1, <3>2, <3>3, Zenon DEF ReadInv, Now
    <2> QED BY <2>2, <2>3, ZenonT(40)
  <1>3. UNCHANGED read \/ (Read /\ UNCHANGED vars)
    BY Zenon DEF QNext, QueryStep, QueryReadLast, QueryReadFirst, QueryReadEvent, QueryRespond,
           QueryFinish, QueryOver, queryVars, allVars
  <1> QED BY <1>1, <1>2, <1>3, Zenon

LEMMA ToldInvariance ==
    QSpec /\ []NoTombstoneMet /\ []NoLateRetry
      => [](IInv /\ SInv /\ AInv /\ MInv /\ FInv /\ QInv /\ ServedInv /\ ReadInv)
  <1>1. QInit => Init /\ ServedInv /\ ReadInv
    <2> SUFFICES ASSUME QInit PROVE ServedInv /\ ReadInv
      BY Zenon DEF QInit
    <2>1. served = EmptyTable /\ q_events = << >> /\ q_first = 0 /\ read.err = "DataNotReady"
      BY Zenon DEF QInit, Failure
    <2>2. Len(q_events) = 0 /\ q_first \in Nat
      BY <2>1, ZenonT(40)
    <2>3. EventsFrom(ReadSoFar, Final)
      BY <2>2, NothingRead, Zenon DEF ReadSoFar
    <2> QED BY <2>1, <2>3, NoEvents, Zenon DEF ServedInv, ReadInv
  <1>2. [QNext]_allVars => [Next]_vars
    BY ZenonT(40) DEF QNext, allVars
  <1>3. QSpec => Spec
    BY <1>1, <1>2, PTL DEF QSpec, Spec
  <1>4. /\ IInv /\ SInv /\ SInv' /\ FInv /\ QInv /\ QInv' /\ ServedInv /\ [QNext]_allVars
        => ServedInv'
    <2> SUFFICES ASSUME IInv, SInv, SInv', FInv, QInv, QInv', ServedInv, [QNext]_allVars
                 PROVE  ServedInv'
      BY Zenon
    <2>1. \/ QueryStep /\ UNCHANGED vars
          \/ [Next]_vars /\ (UNCHANGED queryVars \/ QueryOver)
      BY ZenonT(40) DEF QNext, allVars
    <2> QED BY <2>1, QueryServedInv, NextServedInv, Zenon
  <1>5. /\ IInv /\ SInv /\ SInv' /\ AInv /\ MInv /\ FInv /\ ReadInv /\ [QNext]_allVars
        => ReadInv'
    BY NextReadInv, Zenon
  <1> QED BY <1>1, <1>3, <1>4, <1>5, FollowsLedger, QueryInvariance, PTL DEF QSpec

\* ServedEventsStable for every log, sequence of queries and of crashes: what
\* query_events has served is what the replica has, or comes to again, under that
\* seq_num, as long as no command meets a tombstone and none is retried too late.
THEOREM ServedOnce ==
    QSpec /\ []NoTombstoneMet /\ []NoLateRetry => []ServedEventsStable
  <1>1. IInv /\ SInv /\ FInv /\ ServedInv => ServedEventsStable
    <2> SUFFICES ASSUME IInv, SInv, FInv, ServedInv,
                        NEW n \in DOMAIN served, n \in DOMAIN RetainedEvents
                 PROVE  served[n] = RetainedEvents[n]
      BY ZenonT(40) DEF ServedEventsStable
    <2>1. EventsFrom(RetainedEvents, Final) /\ EventsFrom(served, Final)
      BY OnTheWay, Zenon DEF ServedInv
    <2>2. \A x, y \in DOMAIN Final.events :
             Final.events[x].seq_num = Final.events[y].seq_num => x = y
      BY OnTheWay, Zenon DEF LedgerOK
    <2>3. /\ served[n].seq_num = n /\ served[n].command_id \in DOMAIN Final.events
          /\ Final.events[served[n].command_id] = served[n]
      BY <2>1, Zenon DEF EventsFrom
    <2>4. /\ RetainedEvents[n].seq_num = n /\ RetainedEvents[n].command_id \in DOMAIN Final.events
          /\ Final.events[RetainedEvents[n].command_id] = RetainedEvents[n]
      BY <2>1, Zenon DEF EventsFrom
    <2> QED BY <2>2, <2>3, <2>4, Zenon
  <1> QED BY <1>1, ToldInvariance, PTL

\* ReadsRepeatable for the same: get_account and query_balance, asked again at the
\* same seq_num, answer the same, before and after a crash.
THEOREM ReadsRepeat ==
    QSpec /\ []NoTombstoneMet /\ []NoLateRetry => []ReadsRepeatable
  <1>1. IInv /\ SInv /\ AInv /\ MInv /\ FInv /\ ReadInv => ReadsRepeatable
    <2> SUFFICES ASSUME IInv, SInv, AInv, MInv, FInv, ReadInv,
                        read.err # "DataNotReady", last_seq_num = read.seq_num
                 PROVE  \E again \in {get_account(read.seq_num, read.id),
                                      query_balance(read.seq_num, read.id)} :
                           again = read \/ (Gone(again) /\ Gone(read))
      BY Zenon DEF ReadsRepeatable
    <2> DEFINE s == read.seq_num
               id == read.id
    <2>1. PICK k, n : IsPlace(log, k, n) /\ Shows(read, LedgerAt(log, k, n))
      BY ZenonT(40) DEF ReadInv
    <2>2. last_seq_num = Now.seq_num /\ ~(s > last_seq_num)
      BY SMTT(40) DEF FInv, MemoryFollows, IInv, CacheOK
    <2>3. IsLog(log) /\ IsPlace(log, applied_index - APPLIED_INDEX, offset)
      BY Placed, Zenon
    <2>4. LedgerAt(log, k, n).accounts = Now.accounts
      <3>1. LedgerAt(log, k, n).seq_num = Now.seq_num
        BY <2>1, <2>2, Zenon DEF Shows
      <3>2. LedgerAt(log, k, n).seq_num
              = LedgerAt(log, applied_index - APPLIED_INDEX, offset).seq_num
        BY <3>1, ZenonT(40) DEF Now
      <3>3. LedgerAt(log, k, n).accounts
              = LedgerAt(log, applied_index - APPLIED_INDEX, offset).accounts
        BY <2>1, <2>3, <3>2, PlacesAgree, SMTT(40)
      <3> QED BY <3>3, Zenon DEF Now
    <2>5. Shows(get_account(s, id), Now) /\ Shows(query_balance(s, id), Now)
      BY <2>2, ReadShowsNow, Zenon DEF IsRead
    <2>6. get_account(s, id).id = id
      BY <2>2, ReadAnswers, Zenon DEF IsRead
    <2>7. CASE id \notin DOMAIN Now.accounts
      BY <2>1, <2>4, <2>5, <2>6, <2>7, Zenon DEF Shows
    <2>8. CASE id \in DOMAIN Now.accounts
      <3>1. PICK view \in {Now.accounts[id], BalanceOf(Now.accounts[id])} :
               read = [seq_num |-> s, id |-> id, err |-> "Ok", view |-> view]
        BY <2>1, <2>4, <2>8, Zenon DEF Shows
      <3>2. id \in DOMAIN accounts /\ accounts[id] = Now.accounts[id]
        <4>1. Now.accounts = Without(accounts, to_be_deleted_account_ids)
          BY Zenon DEF FInv, MemoryFollows
        <4> QED BY <2>8, <4>1, ZenonT(40) DEF Without
      <3>3. /\ get_account(s, id) = [seq_num |-> s, id |-> id, err |-> "Ok", view |-> accounts[id]]
            /\ query_balance(s, id)
                 = [seq_num |-> s, id |-> id, err |-> "Ok", view |-> BalanceOf(accounts[id])]
        BY <2>2, <3>2, Zenon DEF get_account, query_balance, ReadAt
      <3> QED BY <3>1, <3>2, <3>3, Zenon
    <2> QED BY <2>7, <2>8, ZenonT(40)
  <1> QED BY <1>1, ToldInvariance, PTL

=============================================================================
