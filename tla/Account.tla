-------------------------------- MODULE Account --------------------------------
(***************************************************************************)
(* One wallet account and its copy-on-write operations (account.rs), with  *)
(* the decimal arithmetic they use (balance_calculator.rs).                *)
(*                                                                         *)
(* Every operation takes an account and returns either Success(account),   *)
(* the updated copy, or Failure(error).  Amounts arrive as text: a text    *)
(* that does not parse as a decimal is the value NotANumber.  The decimals *)
(* are arbitrary precision, so a parsed amount is an integer number of the *)
(* smallest unit and never overflows.                                      *)
(***************************************************************************)
EXTENDS RocksEngine

CONSTANTS NotANumber,   \* an amount or a limit that BigDecimal cannot parse
          NoLimit       \* AccountConfig without a balance_limit

ASSUME NotANumberAssumption == NotANumber \notin Int

Decimal == Int \cup {NotANumber}

Success(a) == [err |-> "Ok", account |-> a]

Failure(e) == [err |-> e]

\* `check?; rest`: the first failing check is the result.
Require(check, err, rest) == IF check THEN rest ELSE Failure(err)

\* `let a = result?; Use(a)`
AndThen(result, Use(_)) == IF result.err = "Ok" THEN Use(result.account) ELSE result

-----------------------------------------------------------------------------
LEGAL_TRANSITIONS ==
    [Normal |-> {"Locked", "Deleted"}, Locked |-> {"Normal"}, Deleted |-> {}]

New == [available |-> 0, reservations |-> EmptyTable, state |-> "Normal", limit |-> NoLimit]

BalanceOf(a) == [available |-> a.available, reservations |-> a.reservations]

\* A limit whose bounds do not parse makes every comparison fail.
validate_balance_limitation(a, balance, rest) ==
    IF a.limit = NoLimit
    THEN rest
    ELSE Require(NotANumber \notin {a.limit.lower, a.limit.upper}, "ParseError",
         Require(a.limit.lower <= balance /\ balance <= a.limit.upper, "BalanceLimitExceeded",
         rest))

assert_amount_gt_zero(amount, rest) ==
    Require(amount # NotANumber, "ParseError",
    Require(amount > 0, "InvalidAmount", rest))

\* Mutant: the state of the account is not checked.
IncreaseInAnyState(a, amount) ==
    Require(amount # NotANumber, "ParseError",
    validate_balance_limitation(a, a.available + amount,
    Success([a EXCEPT !.available = @ + amount])))

increase_balance_by(a, amount) ==
    Require(a.state = "Normal", "InvalidAccountState",
    Require(amount # NotANumber, "ParseError",
    validate_balance_limitation(a, a.available + amount,
    Success([a EXCEPT !.available = @ + amount]))))

set_balance_limit(a, limit) == Success([a EXCEPT !.limit = limit])

reserve(a, reservation_id, amount) ==
    Require(a.state = "Normal", "InvalidAccountState",
    assert_amount_gt_zero(amount,
    Require(reservation_id \notin DOMAIN a.reservations, "ReservationIdAlreadyExist",
    AndThen(increase_balance_by(a, 0 - amount), LAMBDA b :
        Success([b EXCEPT !.reservations = Overlay(@, Single(reservation_id, amount))])))))

release_all(a, reservation_id) ==
    Require(a.state = "Normal", "InvalidAccountState",
    Require(reservation_id \in DOMAIN a.reservations, "ReservationIdNotFound",
    AndThen(increase_balance_by(a, a.reservations[reservation_id]), LAMBDA b :
        Success([b EXCEPT !.reservations = Without(@, {reservation_id})]))))

\* Mutant: the released amount stays reserved.
ReleaseKeepsReservation(a, reservation_id, amount) ==
    Require(a.state = "Normal", "InvalidAccountState",
    assert_amount_gt_zero(amount,
    Require(reservation_id \in DOMAIN a.reservations, "ReservationIdNotFound",
    Require(amount <= a.reservations[reservation_id], "InvalidAmount",
    increase_balance_by(a, amount)))))

partial_release(a, reservation_id, amount) ==
    Require(a.state = "Normal", "InvalidAccountState",
    assert_amount_gt_zero(amount,
    Require(reservation_id \in DOMAIN a.reservations, "ReservationIdNotFound",
    Require(amount <= a.reservations[reservation_id], "InvalidAmount",
    IF amount = a.reservations[reservation_id]
    THEN release_all(a, reservation_id)
    ELSE AndThen(increase_balance_by(a, amount), LAMBDA b :
           Success([b EXCEPT !.reservations[reservation_id] = @ - amount]))))))

validate_state_transition(a, target, rest) ==
    Require(target \in LEGAL_TRANSITIONS[a.state], "InvalidStateTransition", rest)

lock(a) == validate_state_transition(a, "Locked", Success([a EXCEPT !.state = "Locked"]))

unlock(a) == validate_state_transition(a, "Normal", Success([a EXCEPT !.state = "Normal"]))

delete(a) ==
    validate_state_transition(a, "Deleted",
    Require(a.available = 0 /\ DOMAIN a.reservations = {}, "BalanceIsNotZero",
    Success([a EXCEPT !.state = "Deleted"])))
=============================================================================
