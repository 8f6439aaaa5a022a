------------------------------ MODULE EventQuery ------------------------------
(***************************************************************************)
(* The queries (service.rs).  query_events reads a range of the event log  *)
(* from RocksDB while the apply loop flushes and the GC thread truncates:  *)
(* every read of the database is a step of its own.  get_account and       *)
(* query_balance read the state machine.  The clients keep what they were  *)
(* served, across the crashes of the replica.                              *)
(***************************************************************************)
EXTENDS WalletService

CONSTANTS
    Requests,       \* the <<first_seq_num, last_seq_num>> that are asked for
    MaxCount,       \* WalletServiceConfig.query_events_max_count
    MaxQueries      \* bound: number of queries and reads

VARIABLES
    q,          \* where the gRPC thread is: "idle", "first", "read", "done"
    q_first,    \* the first seq_num of the request, then of the adjusted range
    q_last,     \* the last seq_num of the request, then of the adjusted range
    q_plast,    \* the PERSISTED_LAST_SEQ_NUM that was read
    q_events,   \* the events read so far
    q_error,    \* the outcome of the last query: "Ok", "OtherError", "LogTruncated",
                \* or "Panic"
    served,     \* seq_num -> event, all that downstream was ever served
    read,       \* the last answer of a read RPC
    queries     \* number of queries and reads so far (for the bound)

queryVars == <<q, q_first, q_last, q_plast, q_events, q_error, served, read, queries>>

allVars == <<vars, queryVars>>

ASSUME QueryAssumption == MaxCount \in Nat /\ MaxQueries \in Nat /\ Requests \subseteq Nat \X Nat

QInit ==
    /\ Init
    /\ q = "idle" /\ q_first = 0 /\ q_last = 0 /\ q_plast = 0 /\ q_events = << >>
    /\ q_error = "Ok" /\ served = EmptyTable
    /\ read = Failure("DataNotReady") /\ queries = 0

MinOf(m, n) == IF m < n THEN m ELSE n

\* maybe_adjust_query_range accepts the request ...
RangeAccepted(first, last, pfirst, plast) ==
    first # 0 /\ first <= last /\ first >= pfirst /\ first <= plast

\* Mutant: one event too many.
OneMore(first, last, plast) == MinOf(MinOf(last, first + MaxCount), plast)

\* Mutant: the persisted events are no limit.
BeyondPersisted(first, last, plast) == MinOf(last, first + MaxCount - 1)

\* ... and trims it to the count limitation and to the persisted events.
AdjustedLast(first, last, plast) == MinOf(MinOf(last, first + MaxCount - 1), plast)

\* A request arrives; query_events reads PERSISTED_LAST_SEQ_NUM first.
QueryReadLast ==
    /\ q = "idle" /\ queries < MaxQueries
    /\ \E r \in Requests : q_first' = r[1] /\ q_last' = r[2]
    /\ q_plast' = DbLastSeqNum(db)
    /\ q' = "first" /\ q_events' = << >> /\ queries' = queries + 1
    /\ UNCHANGED <<q_error, served, read>>

\* It reads PERSISTED_FIRST_SEQ_NUM and adjusts the range.
QueryReadFirst ==
    /\ q = "first"
    /\ IF RangeAccepted(q_first, q_last, DbFirstSeqNum(db), q_plast)
       THEN /\ q' = "read"
            /\ q_last' = AdjustedLast(q_first, q_last, q_plast)
            /\ UNCHANGED q_error
       ELSE q' = "done" /\ q_error' = "OtherError" /\ UNCHANGED q_last
    /\ UNCHANGED <<q_first, q_plast, q_events, served, read, queries>>

NextToRead == q_first + Len(q_events)

\* One iteration of the loop of query_events_impl.  It asserts that the event is
\* the one it looked up.
QueryReadEvent ==
    /\ q = "read" /\ NextToRead <= q_last
    /\ IF NextToRead \notin DOMAIN db.event
       THEN q' = "done" /\ q_error' = "LogTruncated" /\ UNCHANGED q_events
       ELSE IF db.event[NextToRead].seq_num # NextToRead
       THEN q' = "done" /\ q_error' = "Panic" /\ UNCHANGED q_events
       ELSE /\ q_events' = Append(q_events, db.event[NextToRead])
            /\ UNCHANGED <<q, q_error>>
    /\ UNCHANGED <<q_first, q_last, q_plast, served, read, queries>>

\* The loop is over: the response carries the range and the events.
QueryRespond ==
    /\ q = "read" /\ NextToRead > q_last
    /\ q' = "done" /\ q_error' = "Ok"
    /\ served' = Overlay(served, [n \in q_first..q_last |-> q_events[n - q_first + 1]])
    /\ UNCHANGED <<q_first, q_last, q_plast, q_events, read, queries>>

\* The gRPC thread is done, or gone.
QueryOver ==
    /\ q' = "idle" /\ q_first' = 0 /\ q_last' = 0 /\ q_plast' = 0 /\ q_events' = << >>
    /\ q_error' = "Ok"
    /\ UNCHANGED <<served, read, queries>>

\* The response is sent; the next request may come.
QueryFinish == q = "done" /\ QueryOver

\* A client that has seen the seq_num reads an account or its balance.
Read ==
    /\ Unlocked /\ queries < MaxQueries
    /\ \E r \in Requests, id \in AccountIds :
          read' \in {get_account(r[1], id), query_balance(r[1], id)}
    /\ queries' = queries + 1
    /\ UNCHANGED <<q, q_first, q_last, q_plast, q_events, q_error, served>>

QueryStep ==
    \/ QueryReadLast \/ QueryReadFirst \/ QueryReadEvent \/ QueryRespond \/ QueryFinish
    \/ Read

\* A crash of the replica ends the query that is running.
QNext ==
    \/ QueryStep /\ UNCHANGED vars
    \/ Next /\ IF crashes' # crashes THEN QueryOver ELSE UNCHANGED queryVars

QSpec == QInit /\ [][QNext]_allVars

-----------------------------------------------------------------------------
\* Downstream is never told two stories: an event that was served, even from
\* writes that a crash of the machine has taken back since, is the one that the
\* replica has, or comes to again by replay, under that sequence number.
ServedEventsStable ==
    \A n \in DOMAIN served \cap DOMAIN RetainedEvents : served[n] = RetainedEvents[n]

\* What downstream was served has no holes but those it did not ask for: a
\* response holds the events of its adjusted range, all of them and in order, at
\* most MaxCount, and what was flushed when the query began.  The assertion of
\* query_events_impl that an event is under its own seq_num never fails.
ResponsesComplete ==
    /\ q_error # "Panic"
    /\ q = "done" /\ q_error = "Ok" =>
        /\ DOMAIN q_events = 1..q_last - q_first + 1
        /\ \A i \in DOMAIN q_events : q_events[i].seq_num = q_first + i - 1
        /\ Len(q_events) <= MaxCount
        /\ q_last <= q_plast

\* LogTruncated is answered only if the GC has overtaken the query: the range was
\* available when it was checked and is truncated now.
TruncatedOnlyByGc ==
    q_error = "LogTruncated" => NextToRead < DbFirstSeqNum(db)

\* A deleted account is a tombstone until the flush and nothing after it: get_account
\* shows a Deleted account and query_balance an empty balance, or no account.
Gone(r) ==
    r.err = "Ok" => /\ r.view.available = 0 /\ DOMAIN r.view.reservations = {}
                    /\ "state" \in DOMAIN r.view => r.view.state = "Deleted"

\* Reads are repeatable: a client that reads an account again and is told the same
\* seq_num is told the same account, also if the replica has crashed in between, has
\* lost that state and come to it again (the seq_num in the responses of get_account
\* and query_balance).
ReadsRepeatable ==
    Unlocked /\ read.err # "DataNotReady" /\ last_seq_num = read.seq_num =>
        \E again \in {get_account(read.seq_num, read.id), query_balance(read.seq_num, read.id)} :
            again = read \/ (Gone(again) /\ Gone(read))
=============================================================================
