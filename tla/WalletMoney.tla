------------------------------ MODULE WalletMoney ------------------------------
(***************************************************************************)
(* What a wallet replica should promise about money: its events explain    *)
(* its balances, and no money appears or disappears.  It does, for logs in *)
(* which no command names an account twice.                                *)
(***************************************************************************)
EXTENDS Wallet, FiniteSetsExt, Functions

\* The accounts that a command names, in order.
Named(c) ==
    CASE c.kind = "Transfer" -> <<c.from, c.to>>
      [] c.kind = "Batch"    -> [i \in DOMAIN c.specs |-> c.specs[i].id]
      [] OTHER               -> <<c.id>>

NamesOnce(c) == \A i, j \in DOMAIN Named(c) : Named(c)[i] = Named(c)[j] => i = j

\* No transfer has the same account on both sides, and no batch two specs for one
\* account.  Otherwise handle_transfer and handle_batch_balance_operation compute
\* each change from the stored account, and the last write is the only one left.
AccountsNamedOnce == \A k \in DOMAIN log : \A m \in DOMAIN log[k] : NamesOnce(log[k][m])

-----------------------------------------------------------------------------
BalanceKinds == {"Transfer", "Batch", "Reserve", "Release"}

\* Sum of the available-balance changes that an event reports for an account.
ReportedChange(event, id) ==
    IF event.kind \in BalanceKinds
    THEN MapThenSumSet(LAMBDA i : IF event.payload[i].id = id
                                  THEN event.payload[i].curr.available
                                       - event.payload[i].prev.available
                                  ELSE 0, DOMAIN event.payload)
    ELSE 0

\* Event sourcing: while nothing is truncated, the changes that the events report
\* for an account add up to its available balance, if no command of the log names
\* an account twice.  The query side rebuilds the balances from these events.
EventsExplainBalances ==
    AccountsNamedOnce /\ DbFirstSeqNum(db) = 0 =>
      \A id \in AccountIds :
        GetOr(accounts, id, New).available =
          MapThenSumSet(LAMBDA n : ReportedChange(RetainedEvents[n], id), DOMAIN RetainedEvents)

-----------------------------------------------------------------------------
Total(a) == a.available + SumFunction(a.reservations)

\* All the money in a table of accounts, reserved or available.
TotalMoney(accs) == MapThenSumSet(LAMBDA id : Total(accs[id]), DOMAIN accs)

\* The command that an event is the event of.
CommandOf(event) == log[event.position[1] - APPLIED_INDEX][event.position[2] + 1]

\* The money that a command brings in: the amounts of a batch, and nothing for a
\* transfer, a reservation or a release.
BroughtIn(c) ==
    IF c.kind = "Batch"
    THEN MapThenSumSet(LAMBDA i : c.specs[i].amount, DOMAIN c.specs)
    ELSE 0

\* The money in the database is what the executed batches brought in: a transfer
\* takes from one account what it gives to another ("TransferSpec ensures debit
\* amount == credit amount", balance_operation_servicepb.proto:44), each spec of a
\* batch changes its account by its amount ("each money movement credits or debits
\* an amount from one account", Account Structure.md:25-26), a reservation only sets
\* money aside; and this across retries, flushes and crashes.
MoneyConserved ==
    \A d \in {db, disk} :
      DbFirstSeqNum(d) = 0 =>
        TotalMoney(d.account) =
          MapThenSumSet(LAMBDA n : BroughtIn(CommandOf(d.event[n])), DOMAIN d.event)

\* Money is conserved if no command of the log names an account twice: what
\* handle_transfer and handle_batch_balance_operation do to such a command is the
\* only way to lose some.
ConservedWhenNamedOnce == AccountsNamedOnce => MoneyConserved
=============================================================================
