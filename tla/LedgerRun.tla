------------------------------ MODULE LedgerRun ------------------------------
(***************************************************************************)
(* The wallet as a function of the log: a ledger that executes the         *)
(* commands of the log one by one, in order, each command id at most once, *)
(* with no cache, no batch, no flush, no crash and no truncation.          *)
(***************************************************************************)
EXTENDS WalletCommands

NewLedger ==
    [accounts |-> EmptyTable, seq_num |-> 0, events |-> EmptyTable, replies |-> EmptyTable]

Reply(ledger, p, reply) == [ledger EXCEPT !.replies = Overlay(@, Single(p, reply))]

\* One command at a position of the log.  A deleted account is gone at once.
Execute(ledger, p, c) ==
    LET res == Handle(ledger.accounts, c)
        event == Event(c, ledger.seq_num + 1, p, res.payload)
        written == Overlay(ledger.accounts, LastWrites(res.writes))
    IN CASE c.command_id \in DOMAIN ledger.events ->
              Reply(ledger, p, DuplicateReply(c, ledger.events[c.command_id]))
         [] c.command_id \notin DOMAIN ledger.events /\ res.err # "Ok" ->
              Reply(ledger, p, Failure(res.err))
         [] OTHER ->
              Reply([ledger EXCEPT
                        !.accounts = IF c.kind = "Delete" THEN Without(@, {c.id}) ELSE written,
                        !.seq_num = @ + 1,
                        !.events = Overlay(@, Single(c.command_id, event))], p, event)

\* The ledger after each command of the entry with log index i.
EntryRun(ledger, i, entry) ==
    LET after[n \in 0..Len(entry)] ==
            IF n = 0 THEN ledger ELSE Execute(after[n-1], <<i, n - 1>>, entry[n])
    IN after

\* The ledger after each entry of the log.
LogRun(l) ==
    LET after[i \in 0..Len(l)] ==
            IF i = 0 THEN NewLedger
            ELSE EntryRun(after[i-1], APPLIED_INDEX + i, l[i])[Len(l[i])]
    IN after

LedgerReplies(l) == LogRun(l)[Len(l)].replies
=============================================================================
