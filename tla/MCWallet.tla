------------------------------- MODULE MCWallet -------------------------------
(***************************************************************************)
(* Instances of Wallet for TLC.  Each `...Entries` is the set of entries   *)
(* that may be committed at a log index; the configurations choose one.    *)
(***************************************************************************)
EXTENDS WalletMoney, WalletLedger, WalletService

CONSTANTS a, b, c1, c2, c3, c4, c5, r1

MCAccountIds == {a, b}
MCCommandIds == {c1, c2, c3, c4, c5}
MCReservationIds == {r1}

Transfer(c, from, to, n) ==
    [kind |-> "Transfer", command_id |-> c, from |-> from, to |-> to, amount |-> n]
Batch(c, specs) == [kind |-> "Batch", command_id |-> c, specs |-> specs]
Spec1(id, n) == [id |-> id, amount |-> n]
Reserve(c, id, n) ==
    [kind |-> "Reserve", command_id |-> c, id |-> id, reservation_id |-> r1, amount |-> n]
Release(c, id, all, n) ==
    [kind |-> "Release", command_id |-> c, id |-> id, reservation_id |-> r1,
     all |-> all, amount |-> n]
Config(c, id, limit) == [kind |-> "Config", command_id |-> c, id |-> id, limit |-> limit]
Limit(lower, upper) == [lower |-> lower, upper |-> upper]

-----------------------------------------------------------------------------
\* Balance operations with retries: a deposit, then three entries out of
\* operations that share command ids (retries, and ids reused for another type),
\* fail for want of a reservation, of money or of a decimal, name an account twice,
\* or are empty.
BalanceEntries(i) ==
    IF i = APPLIED_INDEX + 1
    THEN {<<Config(c5, a, Limit(0, 9)), Batch(c1, <<Spec1(a, 3), Spec1(b, 1)>>)>>,
          <<Batch(c1, <<Spec1(a, 3)>>), Config(c5, a, Limit(0, 9)), Reserve(c3, a, 3)>>}
    ELSE {<< >>,
          <<Batch(c1, <<Spec1(a, 3)>>), Transfer(c2, a, b, 2)>>,
          <<Transfer(c2, a, b, 2), Transfer(c2, a, b, 2)>>,
          <<Transfer(c4, b, a, 1)>>,
          <<Transfer(c5, a, a, 1)>>,
          <<Batch(c4, <<Spec1(b, 1), Spec1(b, 1)>>)>>,
          <<Reserve(c3, a, 2)>>,
          <<Release(c4, a, FALSE, 1)>>,
          <<Release(c2, a, TRUE, NotANumber)>>,
          <<Reserve(c4, b, NotANumber), Release(c4, a, FALSE, 3)>>}

\* A deposit, and then an entry whose two commands name an account twice.
TwiceEntries(i) ==
    IF i = APPLIED_INDEX + 1
    THEN {<<Batch(c1, <<Spec1(a, 3)>>)>>}
    ELSE {<<Transfer(c2, a, a, 1), Batch(c3, <<Spec1(a, 1), Spec1(a, 1)>>)>>}

\* A transfer and eight deposits, enough for the GC to truncate, and then a retry
\* of the transfer, a ninth deposit or nothing.
RetryCommandIds == 1..10
Deposits(from, to) == [k \in 1..to-from+1 |-> Batch(from + k - 1, <<Spec1(a, 1)>>)]
RetryEntries(i) ==
    IF i = APPLIED_INDEX + 1
    THEN {<<Transfer(1, a, b, 1)>> \o Deposits(2, 9)}
    ELSE {<<Transfer(1, a, b, 1)>>, Deposits(10, 10), << >>}
=============================================================================
