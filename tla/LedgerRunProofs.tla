--------------------------- MODULE LedgerRunProofs ---------------------------
(***************************************************************************)
(* Facts about the handlers of the commands and about the ledger that a    *)
(* log determines.                                                         *)
(***************************************************************************)
EXTENDS LedgerRun, TLAPS, WellFoundedInduction

-----------------------------------------------------------------------------
(* Induction over the natural numbers, for sets.                           *)

\* A set of natural numbers that is not empty has a least element.
LEMMA NatMin ==
    ASSUME NEW T \in SUBSET Nat, T # {}
    PROVE  \E x \in T : \A y \in T : x <= y
  <1> DEFINE R == {ss \in Nat \X Nat : ss[1] < ss[2]}
  <1>1. IsWellFoundedOn(R, Nat)
    BY NatLessThanWellFounded, Zenon DEF OpToRel
  <1>2. \A x, y \in Nat : y < x => <<y, x>> \in R
    BY Zenon
  <1> HIDE DEF R
  <1>3. PICK x \in T : \A y \in T : ~(<<y, x>> \in R)
    BY <1>1, WFMin, Zenon
  <1>4. \A y \in T : ~(y < x)
    BY <1>2, <1>3, Zenon
  <1> QED BY <1>4, SMTT(40)

\* A set that contains 0 and the successor of each of its numbers contains them all.
LEMMA SetInduction ==
    ASSUME NEW S, 0 \in S, \A n \in Nat : n \in S => n + 1 \in S
    PROVE  Nat \subseteq S
  <1> SUFFICES ASSUME Nat \ S # {} PROVE FALSE
    BY Zenon
  <1>1. Nat \ S \in SUBSET Nat
    BY Zenon
  <1>2. PICK x \in Nat \ S : \A y \in Nat \ S : x <= y
    BY <1>1, NatMin, Zenon
  <1> QED BY <1>2, SMTT(40)

-----------------------------------------------------------------------------
(* What the handlers do to the accounts.                                   *)

Fields == {"available", "reservations", "state", "limit"}

AccountTable(accs) == \A id \in DOMAIN accs : DOMAIN accs[id] = Fields

\* The new balance is one that the old account allows.
BalanceAllowed(old, new) ==
    new.available # old.available =>
        /\ old.state = "Normal"
        /\ old.limit # NoLimit => /\ old.limit.lower <= new.available
                                  /\ new.available <= old.limit.upper

\* The accounts that a command names.
Names(c) ==
    CASE c.kind = "Transfer" -> {c.from, c.to}
      [] c.kind = "Batch"    -> {c.specs[i].id : i \in DOMAIN c.specs}
      [] OTHER               -> {c.id}

\* An account as delete leaves it.
Emptied(a) == a.state = "Deleted" /\ a.available = 0 /\ DOMAIN a.reservations = {}

\* What a handler may write.
WriteAllowed(accs, c, w) ==
    /\ w.id \in Names(c) /\ DOMAIN w.account = Fields
    /\ w.id \in DOMAIN accs => BalanceAllowed(accs[w.id], w.account)
    /\ w.id \in DOMAIN accs /\ accs[w.id].state = "Deleted" => c.kind = "Config"
    /\ c.kind = "Delete" => Emptied(w.account)

\* Success and failure of the checks.
LEMMA Outcomes ==
    /\ \A a : Success(a).err = "Ok" /\ Success(a).account = a
    /\ \A e : Failure(e).err = e
    /\ \A w, p : Handled(w, p).err = "Ok" /\ Handled(w, p).writes = w /\ Handled(w, p).payload = p
    /\ \A id, a : Written(id, a).id = id /\ Written(id, a).account = a
  BY Zenon DEF Success, Failure, Handled, Written

\* An update of one field keeps the others.
LEMMA FieldUpdates ==
    ASSUME NEW a, DOMAIN a = Fields
    PROVE  /\ \A v : LET b == [a EXCEPT !.available = v]
                     IN DOMAIN b = Fields /\ b.available = v /\ b.state = a.state /\ b.limit = a.limit
                        /\ b.reservations = a.reservations
           /\ \A v : LET b == [a EXCEPT !.reservations = v]
                     IN DOMAIN b = Fields /\ b.available = a.available /\ b.state = a.state
                        /\ b.limit = a.limit
           /\ \A v : LET b == [a EXCEPT !.state = v]
                     IN DOMAIN b = Fields /\ b.available = a.available /\ b.state = v
           /\ \A v : LET b == [a EXCEPT !.limit = v]
                     IN DOMAIN b = Fields /\ b.available = a.available /\ b.state = a.state
  BY Zenon DEF Fields

\* A default account has all fields.
LEMMA NewAccount == DOMAIN New = Fields /\ New.available = 0 /\ New.state = "Normal"
  BY Zenon DEF New, Fields

\* increase_balance_by: a Normal account, and a balance within its limits.
LEMMA IncreaseFacts ==
    ASSUME NEW a, DOMAIN a = Fields, NEW n, increase_balance_by(a, n).err = "Ok"
    PROVE  LET b == increase_balance_by(a, n).account
           IN /\ DOMAIN b = Fields /\ a.state = "Normal" /\ b.state = a.state
              /\ BalanceAllowed(a, b)
  <1> DEFINE v == a.available + n
             b == [a EXCEPT !.available = v]
  <1>1. [a EXCEPT !.available = @ + n] = b
    BY Zenon
  <1> HIDE DEF v
  <1>2. DOMAIN b = Fields /\ b.available = v /\ b.state = a.state
    BY Zenon DEF Fields
  <1> HIDE DEF b
  <1>3. /\ a.state = "Normal"
        /\ increase_balance_by(a, n) = Success(b)
        /\ a.limit # NoLimit => a.limit.lower <= v /\ v <= a.limit.upper
    BY <1>1, Outcomes, SMTT(40) DEF increase_balance_by, validate_balance_limitation, Require, v
  <1> HIDE DEF v
  <1>4. BalanceAllowed(a, b)
    BY <1>2, <1>3, Zenon DEF BalanceAllowed
  <1>5. increase_balance_by(a, n).account = b
    BY <1>3, Outcomes, Zenon
  <1> QED BY <1>2, <1>3, <1>4, <1>5, Zenon

\* reserve and the releases: increase_balance_by and a change of the reservations.
LEMMA ReserveFacts ==
    ASSUME NEW a, DOMAIN a = Fields, NEW r, NEW n, NEW res,
           res \in {reserve(a, r, n), release_all(a, r), partial_release(a, r, n)},
           res.err = "Ok"
    PROVE  DOMAIN res.account = Fields /\ a.state = "Normal" /\ BalanceAllowed(a, res.account)
  <1>1. ASSUME NEW m, NEW v, increase_balance_by(a, m).err = "Ok",
               res = Success([increase_balance_by(a, m).account EXCEPT !.reservations = v])
        PROVE  DOMAIN res.account = Fields /\ a.state = "Normal" /\ BalanceAllowed(a, res.account)
    <2> DEFINE b == increase_balance_by(a, m).account
               c == [b EXCEPT !.reservations = v]
    <2>1. DOMAIN b = Fields /\ a.state = "Normal" /\ BalanceAllowed(a, b)
      BY <1>1, IncreaseFacts, Zenon
    <2>2. DOMAIN c = Fields /\ c.available = b.available
      BY <2>1, FieldUpdates, ZenonT(40)
    <2>3. res.account = c
      BY <1>1, Outcomes, Zenon
    <2> HIDE DEF b, c
    <2>4. BalanceAllowed(a, c)
      BY <2>1, <2>2, Zenon DEF BalanceAllowed
    <2> QED BY <2>1, <2>2, <2>3, <2>4, Zenon
  <1>2. CASE res = reserve(a, r, n)
    <2> DEFINE inc == increase_balance_by(a, 0 - n)
    <2>1. /\ inc.err = "Ok"
          /\ res = Success([inc.account EXCEPT !.reservations = Overlay(@, Single(r, n))])
      BY <1>2, Outcomes, Zenon DEF reserve, Require, AndThen, assert_amount_gt_zero
    <2>2. [inc.account EXCEPT !.reservations = Overlay(@, Single(r, n))]
            = [inc.account EXCEPT !.reservations = Overlay(inc.account.reservations, Single(r, n))]
      BY Zenon
    <2> HIDE DEF inc
    <2> QED BY <1>1, <2>1, <2>2, Zenon DEF inc
  <1>3. CASE res = release_all(a, r)
    <2> DEFINE inc == increase_balance_by(a, a.reservations[r])
    <2>1. /\ inc.err = "Ok"
          /\ res = Success([inc.account EXCEPT !.reservations = Without(@, {r})])
      BY <1>3, Outcomes, Zenon DEF release_all, Require, AndThen
    <2>2. [inc.account EXCEPT !.reservations = Without(@, {r})]
            = [inc.account EXCEPT !.reservations = Without(inc.account.reservations, {r})]
      BY Zenon
    <2> QED BY <1>1, <2>1, <2>2, Zenon
  <1>4. CASE res = partial_release(a, r, n) /\ res # release_all(a, r)
    <2> DEFINE inc == increase_balance_by(a, n)
    <2>1. /\ inc.err = "Ok"
          /\ res = Success([inc.account EXCEPT !.reservations[r] = @ - n])
      BY <1>4, Outcomes, Zenon DEF partial_release, Require, AndThen, assert_amount_gt_zero
    <2>2. [inc.account EXCEPT !.reservations[r] = @ - n]
            = [inc.account EXCEPT !.reservations = [inc.account.reservations EXCEPT ![r] = @ - n]]
      BY Zenon
    <2> QED BY <1>1, <2>1, <2>2, Zenon
  <1> QED BY <1>2, <1>3, <1>4, Zenon

\* handle_command's dispatch, type by type.
LEMMA Dispatch ==
    ASSUME NEW accs, NEW c
    PROVE  /\ c.kind = "Transfer" => Handle(accs, c) = handle_transfer(accs, c)
           /\ c.kind = "Batch" => Handle(accs, c) = handle_batch_balance_operation(accs, c)
           /\ c.kind = "Reserve" => Handle(accs, c) = handle_reserve(accs, c)
           /\ c.kind = "Release" => Handle(accs, c) = handle_release(accs, c)
           /\ c.kind = "Create" => Handle(accs, c) = handle_create_account(accs, c)
           /\ c.kind = "Lock" => Handle(accs, c) = handle_lock_account(accs, c)
           /\ c.kind = "Unlock" => Handle(accs, c) = handle_unlock_account(accs, c)
           /\ c.kind = "Delete" => Handle(accs, c) = handle_delete_account(accs, c)
           /\ c.kind = "Config" => Handle(accs, c) = handle_update_account_config(accs, c)
  BY Zenon DEF Handle

\* The accounts that a command names, type by type.
LEMMA NamesOf ==
    ASSUME NEW c
    PROVE  /\ c.kind = "Transfer" => Names(c) = {c.from, c.to}
           /\ c.kind = "Batch" => Names(c) = {c.specs[i].id : i \in DOMAIN c.specs}
           /\ c.kind \notin {"Transfer", "Batch"} => Names(c) = {c.id}
  BY Zenon DEF Names

IsSequence(s) == \E n \in Nat : DOMAIN s = 1..n

\* The writes of a successful handler.
WritesAllowed(accs, c, res) ==
    /\ IsSequence(res.writes)
    /\ \A i \in DOMAIN res.writes : WriteAllowed(accs, c, res.writes[i])
    /\ c.kind = "Delete" => \A i \in DOMAIN res.writes : res.writes[i].id = c.id
    /\ c.kind = "Delete" => DOMAIN res.writes # {}

\* get_or_create_account returns an account, the stored one if there is one.
LEMMA GetOrCreate ==
    ASSUME NEW accs, AccountTable(accs), NEW id
    PROVE  /\ DOMAIN get_or_create_account(accs, id) = Fields
           /\ id \in DOMAIN accs => get_or_create_account(accs, id) = accs[id]
  BY NewAccount, Zenon DEF get_or_create_account, GetOr, AccountTable

\* One increase_balance_by of a stored or new account.
LEMMA IncreaseWrite ==
    ASSUME NEW accs, AccountTable(accs), NEW c, c.kind \in {"Transfer", "Batch"},
           NEW id \in Names(c), NEW n,
           increase_balance_by(get_or_create_account(accs, id), n).err = "Ok"
    PROVE  LET new == increase_balance_by(get_or_create_account(accs, id), n).account
           IN WriteAllowed(accs, c, Written(id, new))
  <1> DEFINE a == get_or_create_account(accs, id)
             new == increase_balance_by(a, n).account
             w == Written(id, new)
  <1>0. increase_balance_by(a, n).err = "Ok"
    BY Zenon
  <1>1. DOMAIN a = Fields /\ (id \in DOMAIN accs => a = accs[id])
    BY GetOrCreate, Zenon
  <1> HIDE DEF a
  <1>2. DOMAIN new = Fields /\ a.state = "Normal" /\ BalanceAllowed(a, new)
    BY <1>0, <1>1, IncreaseFacts, Zenon
  <1> HIDE DEF new
  <1>3. w.id = id /\ w.account = new
    BY Zenon DEF Written
  <1> HIDE DEF w
  <1>4. c.kind # "Delete"
    BY Zenon
  <1>5. WriteAllowed(accs, c, w)
    BY <1>1, <1>2, <1>3, <1>4, Zenon DEF WriteAllowed
  <1> QED BY <1>5, Zenon DEF w, new, a

\* A transfer writes the credited and then the debited account.
LEMMA TransferWrites ==
    ASSUME NEW accs, AccountTable(accs), NEW c, c.kind = "Transfer",
           handle_transfer(accs, c).err = "Ok"
    PROVE  WritesAllowed(accs, c, handle_transfer(accs, c))
  <1> DEFINE to == increase_balance_by(get_or_create_account(accs, c.to), c.amount)
             from == increase_balance_by(get_or_create_account(accs, c.from), 0 - c.amount)
             res == handle_transfer(accs, c)
             w1 == Written(c.to, to.account)
             w2 == Written(c.from, from.account)
  <1>1. to.err = "Ok" /\ from.err = "Ok" /\ res.writes = <<w1, w2>>
    BY Outcomes, SMTT(40) DEF handle_transfer, AndThen
  <1>2. WriteAllowed(accs, c, w1) /\ WriteAllowed(accs, c, w2)
    BY <1>1, NamesOf, IncreaseWrite, SMTT(40)
  <1> HIDE DEF w1, w2, res
  <1>3. DOMAIN res.writes = 1..2
    BY <1>1
  <1>4. \A i \in DOMAIN res.writes : WriteAllowed(accs, c, res.writes[i])
    BY <1>1, <1>2, <1>3, SMTT(40)
  <1> QED BY <1>3, <1>4, Zenon DEF WritesAllowed, IsSequence, res

\* A batch writes every account it names, in order.
LEMMA BatchWrites ==
    ASSUME NEW accs, AccountTable(accs), NEW c \in Command, c.kind = "Batch",
           handle_batch_balance_operation(accs, c).err = "Ok"
    PROVE  WritesAllowed(accs, c, handle_batch_balance_operation(accs, c))
  <1> DEFINE old(i) == get_or_create_account(accs, c.specs[i].id)
             res(i) == increase_balance_by(old(i), c.specs[i].amount)
             failed == {i \in DOMAIN c.specs : res(i).err # "Ok"}
             out == handle_batch_balance_operation(accs, c)
  <1>1. c.specs \in Seq([id : AccountIds, amount : Decimal])
    BY Zenon DEF Command
  <1>2. PICK n \in Nat : DOMAIN c.specs = 1..n
    BY <1>1
  <1>3. failed = {}
    <2> SUFFICES ASSUME failed # {} PROVE FALSE
      BY Zenon
    <2> DEFINE first == CHOOSE i \in failed : \A j \in failed : i <= j
    <2>1. failed \in SUBSET Nat
      BY <1>2
    <2>2. \E i \in failed : \A j \in failed : i <= j
      BY <2>1, NatMin, Zenon
    <2>3. first \in failed
      BY <2>2, Zenon
    <2>4. out = res(first)
      BY Zenon DEF handle_batch_balance_operation
    <2> QED BY <2>3, <2>4, Zenon
  <1>4. out.writes = [i \in DOMAIN c.specs |-> Written(c.specs[i].id, res(i).account)]
    <2> DEFINE W == [i \in DOMAIN c.specs |-> Written(c.specs[i].id, res(i).account)]
               P == [i \in DOMAIN c.specs |->
                       BalanceChange(c.specs[i].id, old(i), res(i).account)]
    <2>1. out = Handled(W, P)
      BY <1>3, Zenon DEF handle_batch_balance_operation
    <2> HIDE DEF W, P, out
    <2>2. out.writes = W
      BY <2>1, Zenon DEF Handled
    <2> QED BY <2>2, Zenon DEF W
  <1>5. ASSUME NEW i \in DOMAIN c.specs
        PROVE  WriteAllowed(accs, c, Written(c.specs[i].id, res(i).account))
    <2>1. res(i).err = "Ok"
      BY <1>3, Zenon
    <2>2. c.specs[i].id \in Names(c)
      BY NamesOf
    <2> QED BY <2>1, <2>2, IncreaseWrite, SMTT(40)
  <1>6. DOMAIN out.writes = 1..n /\ \A i \in 1..n : WriteAllowed(accs, c, out.writes[i])
    BY <1>2, <1>4, <1>5, Zenon
  <1> QED BY <1>6, Zenon DEF WritesAllowed, IsSequence

\* Handlers with one write.
LEMMA OneWrite ==
    ASSUME NEW accs, NEW c, c.kind \notin {"Transfer", "Batch"}, NEW res, NEW a, DOMAIN a = Fields,
           res.writes = <<Written(c.id, a)>>,
           c.id \in DOMAIN accs => BalanceAllowed(accs[c.id], a),
           c.id \in DOMAIN accs /\ accs[c.id].state = "Deleted" => c.kind = "Config",
           c.kind = "Delete" => Emptied(a)
    PROVE  WritesAllowed(accs, c, res)
  <1> DEFINE w == Written(c.id, a)
  <1>1. w.id = c.id /\ w.account = a
    BY Zenon DEF Written
  <1>2. Names(c) = {c.id}
    BY NamesOf, Zenon
  <1> HIDE DEF w
  <1>3. WriteAllowed(accs, c, w)
    BY <1>1, <1>2, Zenon DEF WriteAllowed
  <1>4. res.writes = <<w>>
    BY Zenon DEF w
  <1>5. DOMAIN res.writes = 1..1 /\ \A i \in DOMAIN res.writes : res.writes[i] = w
    BY <1>4
  <1> QED BY <1>1, <1>3, <1>5 DEF WritesAllowed, IsSequence

\* Reserve and release change the balance as the account allows.
LEMMA ReserveWrites ==
    ASSUME NEW accs, AccountTable(accs), NEW c, c.kind \in {"Reserve", "Release"},
           NEW res, res.err = "Ok",
           \/ c.kind = "Reserve" /\ res = handle_reserve(accs, c)
           \/ c.kind = "Release" /\ res = handle_release(accs, c)
    PROVE  WritesAllowed(accs, c, res)
  <1> DEFINE a == accs[c.id]
             upd == IF c.kind = "Reserve" THEN reserve(a, c.reservation_id, c.amount)
                    ELSE IF c.all THEN release_all(a, c.reservation_id)
                    ELSE partial_release(a, c.reservation_id, c.amount)
             b == upd.account
  <1>1. c.id \in DOMAIN accs /\ upd.err = "Ok"
        /\ res = Handled(<<Written(c.id, b)>>, <<BalanceChange(c.id, a, b)>>)
    <2>1. CASE c.kind = "Reserve"
      <3>1. res = handle_reserve(accs, c) /\ upd = reserve(a, c.reservation_id, c.amount)
        BY <2>1, Zenon
      <3> HIDE DEF upd
      <3> QED BY <3>1, Outcomes, Zenon
              DEF handle_reserve, handle_balance_update, Require, AndThen
    <2>2. CASE c.kind = "Release"
      <3>1. res = handle_release(accs, c)
            /\ upd = IF c.all THEN release_all(a, c.reservation_id)
                     ELSE partial_release(a, c.reservation_id, c.amount)
        BY <2>2, Zenon
      <3> HIDE DEF upd
      <3> QED BY <3>1, Outcomes, Zenon
              DEF handle_release, handle_balance_update, Require, AndThen
    <2> QED BY <2>1, <2>2, Zenon
  <1>2. upd \in {reserve(a, c.reservation_id, c.amount), release_all(a, c.reservation_id),
                 partial_release(a, c.reservation_id, c.amount)}
    BY Zenon
  <1>3. DOMAIN a = Fields
    BY <1>1, Zenon DEF AccountTable
  <1> HIDE DEF upd, a
  <1>4. DOMAIN b = Fields /\ a.state = "Normal" /\ BalanceAllowed(a, b)
    BY <1>1, <1>2, <1>3, ReserveFacts, SMTT(40)
  <1>5. res.writes = <<Written(c.id, b)>>
    BY <1>1, Outcomes, Zenon
  <1> HIDE DEF a, b
  <1>6. c.kind \notin {"Transfer", "Batch"} /\ c.kind # "Delete" /\ ~(accs[c.id].state = "Deleted")
    BY <1>4, Zenon DEF a
  <1>7. BalanceAllowed(accs[c.id], b)
    BY <1>4, Zenon DEF a
  <1> QED BY <1>4, <1>5, <1>6, <1>7, OneWrite, Zenon

\* The commands that create, lock, unlock, delete or configure an account leave its
\* balance.
LEMMA ManageWrites ==
    ASSUME NEW accs, AccountTable(accs), NEW c,
           c.kind \in {"Create", "Lock", "Unlock", "Delete", "Config"},
           Handle(accs, c).err = "Ok"
    PROVE  WritesAllowed(accs, c, Handle(accs, c))
  <1> DEFINE a == accs[c.id]
             res == Handle(accs, c)
  <1>0. c.kind \notin {"Transfer", "Batch"} /\ res.err = "Ok"
    BY Zenon
  <1>1. CASE c.kind = "Create"
    <2>1. res = handle_create_account(accs, c)
      BY <1>1, Dispatch, Zenon
    <2> HIDE DEF res
    <2>2. c.id \notin DOMAIN accs /\ res.writes = <<Written(c.id, New)>>
      BY <1>0, <2>1, Outcomes, SMTT(40) DEF handle_create_account, Require
    <2>3. c.kind # "Delete"
      BY <1>1, Zenon
    <2>4. WritesAllowed(accs, c, res)
      BY <1>0, <2>2, <2>3, NewAccount, OneWrite, Zenon
    <2> QED BY <2>4, Zenon DEF res
  <1>2. ASSUME c.id \in DOMAIN accs, NEW b, res.writes = <<Written(c.id, b)>>,
               \/ \E s : b = [a EXCEPT !.state = s]
               \/ \E l : b = [a EXCEPT !.limit = l],
               a.state = "Deleted" => c.kind = "Config",
               c.kind = "Delete" => Emptied(b)
        PROVE  WritesAllowed(accs, c, res)
    <2>1. DOMAIN a = Fields
      BY <1>2, Zenon DEF AccountTable
    <2> HIDE DEF a
    <2>2. DOMAIN b = Fields /\ b.available = a.available
      BY <1>2, <2>1, Zenon DEF Fields
    <2>3. BalanceAllowed(accs[c.id], b)
      BY <2>2, Zenon DEF BalanceAllowed, a
    <2>4. accs[c.id].state = "Deleted" => c.kind = "Config"
      BY <1>2, Zenon DEF a
    <2> HIDE DEF res
    <2> QED BY <1>0, <1>2, <2>2, <2>3, <2>4, OneWrite, Zenon
  <1>3. ASSUME c.kind \in {"Lock", "Unlock", "Delete"}
        PROVE  WritesAllowed(accs, c, res)
    <2> DEFINE target == IF c.kind = "Lock" THEN "Locked"
                         ELSE IF c.kind = "Unlock" THEN "Normal" ELSE "Deleted"
               b == [a EXCEPT !.state = target]
    <2>1. /\ c.kind = "Lock" => res = handle_lock_account(accs, c)
          /\ c.kind = "Unlock" => res = handle_unlock_account(accs, c)
          /\ c.kind = "Delete" => res = handle_delete_account(accs, c)
      BY Dispatch, Zenon
    <2>2. /\ c.id \in DOMAIN accs /\ target \in LEGAL_TRANSITIONS[a.state]
          /\ res.writes = <<Written(c.id, b)>>
          /\ c.kind = "Delete" => a.available = 0 /\ DOMAIN a.reservations = {}
      <3> HIDE DEF res
      <3>1. CASE c.kind = "Lock"
        BY <1>0, <2>1, <3>1, Outcomes, SMTT(40)
           DEF handle_lock_account, handle_account_update, lock, validate_state_transition,
               Require, AndThen
      <3>2. CASE c.kind = "Unlock"
        BY <1>0, <2>1, <3>2, Outcomes, SMTT(40)
           DEF handle_unlock_account, handle_account_update, unlock, validate_state_transition,
               Require, AndThen
      <3>3. CASE c.kind = "Delete"
        BY <1>0, <2>1, <3>3, Outcomes, SMTT(40)
           DEF handle_delete_account, handle_account_update, delete, validate_state_transition,
               Require, AndThen
      <3> QED BY <1>3, <3>1, <3>2, <3>3, Zenon
    <2>3. LEGAL_TRANSITIONS["Deleted"] = {}
      BY Zenon DEF LEGAL_TRANSITIONS
    <2>4. a.state # "Deleted"
      BY <2>2, <2>3, Zenon
    <2>5. DOMAIN a = Fields
      BY <2>2, Zenon DEF AccountTable
    <2>6. c.kind = "Delete" => target = "Deleted"
      BY Zenon
    <2> HIDE DEF res, target, a
    <2>7. c.kind = "Delete" => Emptied(b)
      BY <2>2, <2>5, <2>6, Zenon DEF Fields, Emptied
    <2>8. \E s : b = [a EXCEPT !.state = s]
      BY Zenon
    <2> HIDE DEF b, a
    <2> QED BY <1>2, <2>2, <2>4, <2>7, <2>8, Zenon
  <1>4. CASE c.kind = "Config"
    <2> DEFINE b == [a EXCEPT !.limit = get_balance_limit(c)]
    <2>1. res = handle_update_account_config(accs, c)
      BY <1>4, Dispatch, Zenon
    <2> HIDE DEF res
    <2>2. c.id \in DOMAIN accs /\ res.writes = <<Written(c.id, b)>>
      BY <1>0, <2>1, Outcomes, SMTT(40)
         DEF handle_update_account_config, handle_account_update, set_balance_limit, Require, AndThen
    <2>3. \E l : b = [a EXCEPT !.limit = l]
      BY Zenon
    <2> HIDE DEF b, a
    <2>4. WritesAllowed(accs, c, res)
      BY <1>2, <1>4, <2>2, <2>3, Zenon
    <2> QED BY <2>4, Zenon DEF res
  <1> QED BY <1>1, <1>3, <1>4, Zenon

\* The types of the commands.
LEMMA Kinds ==
    ASSUME NEW c \in Command
    PROVE  c.kind \in {"Transfer", "Batch", "Reserve", "Release", "Create", "Lock", "Unlock",
                       "Delete", "Config"}
  BY Zenon DEF Command

\* A successful handler writes accounts that its command names, with balances that
\* the stored accounts allow.
LEMMA HandlerWrites ==
    ASSUME NEW accs, AccountTable(accs), NEW c \in Command, Handle(accs, c).err = "Ok"
    PROVE  WritesAllowed(accs, c, Handle(accs, c))
  <1> DEFINE res == Handle(accs, c)
  <1>0. res.err = "Ok"
    BY Zenon
  <1>1. CASE c.kind = "Transfer"
    <2>1. res = handle_transfer(accs, c)
      BY <1>1, Dispatch, Zenon
    <2> HIDE DEF res
    <2> QED BY <1>0, <1>1, <2>1, TransferWrites, Zenon DEF res
  <1>2. CASE c.kind = "Batch"
    <2>1. res = handle_batch_balance_operation(accs, c)
      BY <1>2, Dispatch, Zenon
    <2> HIDE DEF res
    <2> QED BY <1>0, <1>2, <2>1, BatchWrites, Zenon DEF res
  <1>3. CASE c.kind \in {"Reserve", "Release"}
    <2>1. \/ c.kind = "Reserve" /\ res = handle_reserve(accs, c)
          \/ c.kind = "Release" /\ res = handle_release(accs, c)
      BY <1>3, Dispatch, Zenon
    <2> HIDE DEF res
    <2>2. WritesAllowed(accs, c, res)
      BY <1>0, <1>3, <2>1, ReserveWrites, SMTT(40)
    <2> QED BY <2>2, Zenon DEF res
  <1>4. CASE c.kind \in {"Create", "Lock", "Unlock", "Delete", "Config"}
    BY <1>4, ManageWrites, SMTT(40)
  <1> QED BY <1>1, <1>2, <1>3, <1>4, Kinds, Zenon

\* Every account that a sequence of writes leaves is one of the written ones.
LEMMA LastWritesFacts ==
    ASSUME NEW w, IsSequence(w)
    PROVE  /\ DOMAIN LastWrites(w) = {w[i].id : i \in DOMAIN w}
           /\ \A id \in DOMAIN LastWrites(w) :
                \E i \in DOMAIN w : w[i].id = id /\ LastWrites(w)[id] = w[i].account
  <1> DEFINE Ids == {w[i].id : i \in DOMAIN w}
             Is(id, i) == w[i].id = id /\ \A j \in DOMAIN w : w[j].id = id => j <= i
             pick(id) == CHOOSE i \in DOMAIN w : Is(id, i)
  <1>1. LastWrites(w) = [id \in Ids |-> w[pick(id)].account]
    BY Zenon DEF LastWrites
  <1>2. PICK n \in Nat : DOMAIN w = 1..n
    BY Zenon DEF IsSequence
  <1>3. ASSUME NEW id \in Ids
        PROVE  \E i \in DOMAIN w : Is(id, i)
    <2> DEFINE T == {k \in 0..n-1 : w[n - k].id = id}
    <2>1. PICK i \in 1..n : w[i].id = id
      BY <1>2, Zenon
    <2>2. n - i \in 0..n-1 /\ n - (n - i) = i
      BY <1>2
    <2>3. n - i \in T
      BY <2>1, <2>2, Zenon
    <2>4. T \in SUBSET Nat /\ T # {}
      <3>1. 0..n-1 \subseteq Nat
        BY <1>2
      <3> QED BY <2>3, <3>1, Zenon
    <2>5. PICK k \in T : \A m \in T : k <= m
      BY <2>4, NatMin, Zenon
    <2>6. n - k \in 1..n /\ w[n - k].id = id /\ k \in 0..n-1
      BY <2>5
    <2>7. ASSUME NEW j \in 1..n, w[j].id = id
          PROVE  j <= n - k
      <3>1. n - j \in 0..n-1 /\ n - (n - j) = j
        BY <1>2
      <3>2. n - j \in T
        BY <2>7, <3>1, Zenon
      <3>3. k <= n - j
        BY <2>5, <3>2, Zenon
      <3> HIDE DEF T
      <3> QED BY <1>2, <2>6, <3>3
    <2> QED BY <1>2, <2>6, <2>7, Zenon
  <1>4. ASSUME NEW id \in Ids
        PROVE  \E i \in DOMAIN w : w[i].id = id /\ LastWrites(w)[id] = w[i].account
    <2>1. pick(id) \in DOMAIN w /\ Is(id, pick(id))
      BY <1>3, Zenon
    <2>2. LastWrites(w)[id] = w[pick(id)].account
      BY <1>1, Zenon
    <2> QED BY <2>1, <2>2, Zenon
  <1> QED BY <1>1, <1>4, Zenon

\* Two tables of accounts agree on a set of accounts.
AgreeOn(accs1, accs2, S) ==
    \A id \in S : /\ id \in DOMAIN accs1 <=> id \in DOMAIN accs2
                  /\ id \in DOMAIN accs1 => accs1[id] = accs2[id]

\* What a handler does depends on the accounts that its command names only.
LEMMA HandlerLocal ==
    ASSUME NEW accs1, NEW accs2, NEW c \in Command, AgreeOn(accs1, accs2, Names(c))
    PROVE  Handle(accs1, c) = Handle(accs2, c)
  <1>0. \A id \in Names(c) : get_or_create_account(accs1, id) = get_or_create_account(accs2, id)
    BY Zenon DEF get_or_create_account, GetOr, AgreeOn
  <1>1. CASE c.kind = "Transfer"
    <2>1. handle_transfer(accs1, c) = handle_transfer(accs2, c)
      BY <1>0, <1>1, NamesOf, SMTT(40) DEF handle_transfer, AndThen
    <2> QED BY <1>1, <2>1, Dispatch, Zenon
  <1>2. CASE c.kind = "Batch"
    <2>1. \A i \in DOMAIN c.specs : c.specs[i].id \in Names(c)
      BY <1>2, NamesOf
    <2>2. handle_batch_balance_operation(accs1, c) = handle_batch_balance_operation(accs2, c)
      <3> DEFINE old1(i) == get_or_create_account(accs1, c.specs[i].id)
                 old2(i) == get_or_create_account(accs2, c.specs[i].id)
                 res1(i) == increase_balance_by(old1(i), c.specs[i].amount)
                 res2(i) == increase_balance_by(old2(i), c.specs[i].amount)
                 failed1 == {i \in DOMAIN c.specs : res1(i).err # "Ok"}
                 failed2 == {i \in DOMAIN c.specs : res2(i).err # "Ok"}
                 first1 == CHOOSE i \in failed1 : \A j \in failed1 : i <= j
                 first2 == CHOOSE i \in failed2 : \A j \in failed2 : i <= j
                 W1 == [i \in DOMAIN c.specs |-> Written(c.specs[i].id, res1(i).account)]
                 W2 == [i \in DOMAIN c.specs |-> Written(c.specs[i].id, res2(i).account)]
                 P1 == [i \in DOMAIN c.specs |->
                          BalanceChange(c.specs[i].id, old1(i), res1(i).account)]
                 P2 == [i \in DOMAIN c.specs |->
                          BalanceChange(c.specs[i].id, old2(i), res2(i).account)]
      <3>1. \A i \in DOMAIN c.specs : old1(i) = old2(i)
        BY <1>0, <2>1, Zenon
      <3> HIDE DEF old1, old2
      <3>2. \A i \in DOMAIN c.specs : res1(i) = res2(i)
        BY <3>1, Zenon
      <3> HIDE DEF res1, res2
      <3>3. failed1 = failed2 /\ W1 = W2 /\ P1 = P2
        BY <3>1, <3>2, Zenon
      <3>4. failed1 # {} => first1 \in DOMAIN c.specs /\ res1(first1) = res2(first2)
        <4> SUFFICES ASSUME failed1 # {}
                     PROVE  first1 \in DOMAIN c.specs /\ res1(first1) = res2(first2)
          BY Zenon
        <4>1. c.specs \in Seq([id : AccountIds, amount : Decimal])
          BY <1>2, Zenon DEF Command
        <4>2. failed1 \in SUBSET Nat
          BY <4>1
        <4>3. \E i \in failed1 : \A j \in failed1 : i <= j
          BY <4>2, NatMin, Zenon
        <4>4. first1 \in failed1
          BY <4>3, Zenon
        <4>5. first1 = first2
          BY <3>3, Zenon
        <4> QED BY <3>2, <4>4, <4>5, Zenon
      <3> HIDE DEF W1, W2, P1, P2, failed1, failed2, first1, first2
      <3>5. handle_batch_balance_operation(accs1, c)
              = IF failed1 # {} THEN res1(first1) ELSE Handled(W1, P1)
        BY Zenon DEF handle_batch_balance_operation, old1, res1, failed1, first1, W1, P1
      <3>6. handle_batch_balance_operation(accs2, c)
              = IF failed2 # {} THEN res2(first2) ELSE Handled(W2, P2)
        BY Zenon DEF handle_batch_balance_operation, old2, res2, failed2, first2, W2, P2
      <3> QED BY <3>3, <3>4, <3>5, <3>6
    <2> QED BY <1>2, <2>2, Dispatch, Zenon
  <1>3. ASSUME c.kind \notin {"Transfer", "Batch"}
        PROVE  Handle(accs1, c) = Handle(accs2, c)
    <2>1. /\ c.id \in DOMAIN accs1 <=> c.id \in DOMAIN accs2
          /\ c.id \in DOMAIN accs1 => accs1[c.id] = accs2[c.id]
      BY <1>3, NamesOf, Zenon DEF AgreeOn
    <2>2. handle_reserve(accs1, c) = handle_reserve(accs2, c)
      BY <2>1, Zenon DEF handle_reserve, handle_balance_update, Require, AndThen
    <2>3. handle_release(accs1, c) = handle_release(accs2, c)
      BY <2>1, SMTT(40) DEF handle_release, handle_balance_update, Require, AndThen
    <2>4. handle_create_account(accs1, c) = handle_create_account(accs2, c)
      BY <2>1, Zenon DEF handle_create_account, Require
    <2>5. handle_lock_account(accs1, c) = handle_lock_account(accs2, c)
      BY <2>1, Zenon DEF handle_lock_account, handle_account_update, Require, AndThen
    <2>6. handle_unlock_account(accs1, c) = handle_unlock_account(accs2, c)
      BY <2>1, Zenon DEF handle_unlock_account, handle_account_update, Require, AndThen
    <2>7. handle_delete_account(accs1, c) = handle_delete_account(accs2, c)
      BY <2>1, Zenon DEF handle_delete_account, handle_account_update, Require, AndThen
    <2>8. handle_update_account_config(accs1, c) = handle_update_account_config(accs2, c)
      BY <2>1, Zenon DEF handle_update_account_config, handle_account_update, Require, AndThen
    <2> QED BY <1>3, <2>2, <2>3, <2>4, <2>5, <2>6, <2>7, <2>8, Kinds, Zenon DEF Handle
  <1> QED BY <1>1, <1>2, <1>3, Zenon

-----------------------------------------------------------------------------
(* The recursions of LedgerRun.                                            *)

\* The ledger of an entry, command by command.
LEMMA EntrySteps ==
    ASSUME NEW ledger, NEW i, NEW e, Len(e) \in Nat, NEW run, run = EntryRun(ledger, i, e)
    PROVE  /\ DOMAIN run = 0..Len(e) /\ run[0] = ledger
           /\ \A n \in 1..Len(e) : run[n] = Execute(run[n-1], <<i, n - 1>>, e[n])
  <1> DEFINE step(f, n) == IF n = 0 THEN ledger ELSE Execute(f[n-1], <<i, n - 1>>, e[n])
             S == {m \in Nat : \E f : f = [n \in 0..m |-> step(f, n)]}
  <1>1. 0 \in S
    <2> DEFINE f == [n \in 0..0 |-> ledger]
    <2>1. \A n \in 0..0 : step(f, n) = ledger
      BY SMT
    <2>2. f = [n \in 0..0 |-> step(f, n)]
      BY <2>1, Zenon
    <2> HIDE DEF step, f
    <2> QED BY <2>2, Zenon
  <1>2. ASSUME NEW m \in Nat, m \in S PROVE m + 1 \in S
    <2>1. PICK f : f = [n \in 0..m |-> step(f, n)]
      BY <1>2, Zenon
    <2> DEFINE g == [n \in 0..m+1 |-> step(f, n)]
    <2>2. \A n \in 0..m : g[n] = f[n]
      BY <2>1
    <2>3. \A n \in 0..m+1 : step(g, n) = step(f, n)
      <3> SUFFICES ASSUME NEW n \in 0..m+1 PROVE step(g, n) = step(f, n)
        BY Zenon
      <3>1. n # 0 => n - 1 \in 0..m
        OBVIOUS
      <3> HIDE DEF g
      <3> QED BY <2>2, <3>1, Zenon
    <2>4. g = [n \in 0..m+1 |-> step(g, n)]
      BY <2>3, Zenon
    <2> HIDE DEF g, step
    <2>5. \E h : h = [n \in 0..m+1 |-> step(h, n)]
      BY <2>4, Zenon
    <2> QED BY <2>5
  <1>3. Len(e) \in S
    <2> HIDE DEF S
    <2> QED BY <1>1, <1>2, SetInduction, Zenon
  <1>4. \E f : f = [n \in 0..Len(e) |-> step(f, n)]
    BY <1>3, Zenon
  <1>5. run = CHOOSE f : f = [n \in 0..Len(e) |-> step(f, n)]
    BY Zenon DEF EntryRun
  <1>6. run = [n \in 0..Len(e) |-> step(run, n)]
    BY <1>4, <1>5, Zenon
  <1>7. DOMAIN run = 0..Len(e) /\ \A n \in 0..Len(e) : run[n] = step(run, n)
    BY <1>6, Zenon
  <1>8. \A n \in 1..Len(e) : n # 0 /\ n \in 0..Len(e)
    OBVIOUS
  <1>9. 0 \in 0..Len(e)
    OBVIOUS
  <1>10. run[0] = ledger /\ \A n \in 1..Len(e) : run[n] = Execute(run[n-1], <<i, n - 1>>, e[n])
    BY <1>7, <1>8, <1>9, Zenon
  <1> QED BY <1>7, <1>10, Zenon

\* The ledger of a log, entry by entry.
LEMMA LogSteps ==
    ASSUME NEW l, Len(l) \in Nat, NEW run, run = LogRun(l)
    PROVE  /\ DOMAIN run = 0..Len(l) /\ run[0] = NewLedger
           /\ \A n \in 1..Len(l) :
                 run[n] = EntryRun(run[n-1], APPLIED_INDEX + n, l[n])[Len(l[n])]
  <1> DEFINE step(f, n) == IF n = 0 THEN NewLedger
                           ELSE EntryRun(f[n-1], APPLIED_INDEX + n, l[n])[Len(l[n])]
             S == {m \in Nat : \E f : f = [n \in 0..m |-> step(f, n)]}
  <1>1. 0 \in S
    <2> DEFINE f == [n \in 0..0 |-> NewLedger]
    <2>1. \A n \in 0..0 : step(f, n) = NewLedger
      BY SMT
    <2>2. f = [n \in 0..0 |-> step(f, n)]
      BY <2>1, Zenon
    <2> HIDE DEF step, f
    <2> QED BY <2>2, Zenon
  <1>2. ASSUME NEW m \in Nat, m \in S PROVE m + 1 \in S
    <2>1. PICK f : f = [n \in 0..m |-> step(f, n)]
      BY <1>2, Zenon
    <2> DEFINE g == [n \in 0..m+1 |-> step(f, n)]
    <2>2. \A n \in 0..m : g[n] = f[n]
      BY <2>1
    <2>3. \A n \in 0..m+1 : step(g, n) = step(f, n)
      <3> SUFFICES ASSUME NEW n \in 0..m+1 PROVE step(g, n) = step(f, n)
        BY Zenon
      <3>1. n # 0 => n - 1 \in 0..m
        OBVIOUS
      <3> HIDE DEF g
      <3> QED BY <2>2, <3>1, Zenon
    <2>4. g = [n \in 0..m+1 |-> step(g, n)]
      BY <2>3, Zenon
    <2> HIDE DEF g, step
    <2>5. \E h : h = [n \in 0..m+1 |-> step(h, n)]
      BY <2>4, Zenon
    <2> QED BY <2>5
  <1>3. Len(l) \in S
    <2> HIDE DEF S
    <2> QED BY <1>1, <1>2, SetInduction, Zenon
  <1>4. \E f : f = [n \in 0..Len(l) |-> step(f, n)]
    BY <1>3, Zenon
  <1>5. run = CHOOSE f : f = [n \in 0..Len(l) |-> step(f, n)]
    BY Zenon DEF LogRun
  <1>6. run = [n \in 0..Len(l) |-> step(run, n)]
    BY <1>4, <1>5, Zenon
  <1>7. DOMAIN run = 0..Len(l) /\ \A n \in 0..Len(l) : run[n] = step(run, n)
    BY <1>6, Zenon
  <1>8. \A n \in 1..Len(l) : n # 0 /\ n \in 0..Len(l)
    OBVIOUS
  <1>9. 0 \in 0..Len(l)
    OBVIOUS
  <1>10. run[0] = NewLedger
         /\ \A n \in 1..Len(l) : run[n] = EntryRun(run[n-1], APPLIED_INDEX + n, l[n])[Len(l[n])]
    BY <1>7, <1>8, <1>9, Zenon
  <1> QED BY <1>7, <1>10, Zenon

-----------------------------------------------------------------------------
(* One step of the ledger.                                                 *)

LedgerFields == {"accounts", "seq_num", "events", "replies"}

\* The command is executed: its id is new and its handler succeeds.
Takes(ledger, c) ==
    c.command_id \notin DOMAIN ledger.events /\ Handle(ledger.accounts, c).err = "Ok"

NewEvent(ledger, p, c) ==
    Event(c, ledger.seq_num + 1, p, Handle(ledger.accounts, c).payload)

ReplyTo(ledger, p, c) ==
    IF c.command_id \in DOMAIN ledger.events
    THEN DuplicateReply(c, ledger.events[c.command_id])
    ELSE IF Takes(ledger, c) THEN NewEvent(ledger, p, c)
    ELSE Failure(Handle(ledger.accounts, c).err)

\* What a command leaves of the accounts.
AccountsAfter(accs, c) ==
    IF c.kind = "Delete" THEN Without(accs, {c.id})
    ELSE Overlay(accs, LastWrites(Handle(accs, c).writes))

\* A reply changes the replies only.
LEMMA ReplyFields ==
    ASSUME NEW ledger, DOMAIN ledger = LedgerFields, NEW p, NEW r, NEW next,
           next = Reply(ledger, p, r)
    PROVE  /\ DOMAIN next = LedgerFields
           /\ next.accounts = ledger.accounts /\ next.seq_num = ledger.seq_num
           /\ next.events = ledger.events
           /\ next.replies = Overlay(ledger.replies, Single(p, r))
  <1> DEFINE v == Overlay(ledger.replies, Single(p, r))
  <1>1. next = [ledger EXCEPT !.replies = v]
    BY Zenon DEF Reply
  <1> HIDE DEF v
  <1>2. /\ DOMAIN next = LedgerFields /\ next.accounts = ledger.accounts
        /\ next.seq_num = ledger.seq_num /\ next.events = ledger.events /\ next.replies = v
    BY <1>1, Zenon DEF LedgerFields
  <1> QED BY <1>2, Zenon DEF v

\* The fields of the ledger after a command.
LEMMA ExecuteFields ==
    ASSUME NEW ledger, DOMAIN ledger = LedgerFields, NEW p, NEW c, NEW next,
           next = Execute(ledger, p, c)
    PROVE  /\ DOMAIN next = LedgerFields
           /\ next.replies = Overlay(ledger.replies, Single(p, ReplyTo(ledger, p, c)))
           /\ Takes(ledger, c) =>
                /\ next.accounts = AccountsAfter(ledger.accounts, c)
                /\ next.seq_num = ledger.seq_num + 1
                /\ next.events =
                     Overlay(ledger.events, Single(c.command_id, NewEvent(ledger, p, c)))
           /\ ~Takes(ledger, c) =>
                /\ next.accounts = ledger.accounts /\ next.seq_num = ledger.seq_num
                /\ next.events = ledger.events
  <1> DEFINE res == Handle(ledger.accounts, c)
             e == NewEvent(ledger, p, c)
             es == Overlay(ledger.events, Single(c.command_id, e))
             as == AccountsAfter(ledger.accounts, c)
             n == ledger.seq_num + 1
             mid == [ledger EXCEPT !.accounts = as, !.seq_num = n, !.events = es]
  <1>1. CASE c.command_id \in DOMAIN ledger.events
    <2> DEFINE r == DuplicateReply(c, ledger.events[c.command_id])
    <2>1. next = Reply(ledger, p, r)
      BY <1>1, Zenon DEF Execute
    <2>2. ~Takes(ledger, c) /\ ReplyTo(ledger, p, c) = r
      BY <1>1, Zenon DEF Takes, ReplyTo
    <2> HIDE DEF r
    <2>3. /\ DOMAIN next = LedgerFields
          /\ next.accounts = ledger.accounts /\ next.seq_num = ledger.seq_num
          /\ next.events = ledger.events
          /\ next.replies = Overlay(ledger.replies, Single(p, r))
      BY <2>1, ReplyFields, SMTT(40)
    <2> QED BY <2>2, <2>3, Zenon
  <1>2. CASE c.command_id \notin DOMAIN ledger.events /\ res.err # "Ok"
    <2> DEFINE r == Failure(res.err)
    <2>1. next = Reply(ledger, p, r)
      BY <1>2, Zenon DEF Execute
    <2>2. ~Takes(ledger, c) /\ ReplyTo(ledger, p, c) = r
      BY <1>2, Zenon DEF Takes, ReplyTo
    <2> HIDE DEF r
    <2>3. /\ DOMAIN next = LedgerFields
          /\ next.accounts = ledger.accounts /\ next.seq_num = ledger.seq_num
          /\ next.events = ledger.events
          /\ next.replies = Overlay(ledger.replies, Single(p, r))
      BY <2>1, ReplyFields, SMTT(40)
    <2> QED BY <2>2, <2>3, Zenon
  <1>3. CASE c.command_id \notin DOMAIN ledger.events /\ res.err = "Ok"
    <2>1. Takes(ledger, c) /\ ReplyTo(ledger, p, c) = e
      BY <1>3, Zenon DEF Takes, ReplyTo
    <2>2. next = Reply(mid, p, e)
      <3> DEFINE written == Overlay(ledger.accounts, LastWrites(res.writes))
                 full == [ledger EXCEPT
                            !.accounts = IF c.kind = "Delete" THEN Without(@, {c.id}) ELSE written,
                            !.seq_num = @ + 1,
                            !.events = Overlay(@, Single(c.command_id, e))]
      <3>1. next = Reply(full, p, e)
        BY <1>3, Zenon DEF Execute, NewEvent
      <3> HIDE DEF e
      <3>2. full = mid
        BY Zenon DEF AccountsAfter
      <3> QED BY <3>1, <3>2, Zenon
    <2> HIDE DEF as, es, n, e
    <2>3. /\ DOMAIN mid = LedgerFields /\ mid.accounts = as /\ mid.seq_num = n
          /\ mid.events = es /\ mid.replies = ledger.replies
      BY Zenon DEF LedgerFields
    <2> HIDE DEF mid
    <2>a. DOMAIN mid = LedgerFields
      BY <2>3, Zenon
    <2>4. /\ DOMAIN next = LedgerFields
          /\ next.accounts = mid.accounts /\ next.seq_num = mid.seq_num
          /\ next.events = mid.events /\ next.replies = Overlay(mid.replies, Single(p, e))
      BY <2>2, <2>a, ReplyFields
    <2>5. /\ next.accounts = as /\ next.seq_num = n /\ next.events = es
          /\ next.replies = Overlay(ledger.replies, Single(p, e))
      BY <2>3, <2>4, Zenon
    <2> QED BY <2>1, <2>4, <2>5, Zenon DEF as, es, n, e
  <1> QED BY <1>1, <1>2, <1>3, Zenon

-----------------------------------------------------------------------------
(* Along the log the ledger only grows.                                    *)

Contained(f, g) == DOMAIN f \subseteq DOMAIN g /\ \A k \in DOMAIN f : g[k] = f[k]

\* The accounts change only together with seq_num.
Advances(ledger, next) ==
    /\ ledger.seq_num \in Nat /\ next.seq_num \in Nat /\ ledger.seq_num <= next.seq_num
    /\ ledger.seq_num = next.seq_num => next.accounts = ledger.accounts

Grows(ledger, next) ==
    /\ Contained(ledger.replies, next.replies) /\ Contained(ledger.events, next.events)
    /\ Advances(ledger, next)

Before(p, i, n) == p[1] < i \/ (p[1] = i /\ p[2] < n)

\* The ledger before the command at the position <<i, n>>: only earlier commands
\* have replies, and each event is kept under its command id and has a seq_num of
\* its own.
LedgerOK(ledger, i, n) ==
    /\ DOMAIN ledger = LedgerFields /\ ledger.seq_num \in Nat
    /\ \A p \in DOMAIN ledger.replies : p \in Nat \X Nat /\ Before(p, i, n)
    /\ \A id \in DOMAIN ledger.events :
          ledger.events[id].command_id = id /\ ledger.events[id].seq_num \in 1..ledger.seq_num
    /\ \A id1, id2 \in DOMAIN ledger.events :
          ledger.events[id1].seq_num = ledger.events[id2].seq_num => id1 = id2

LEMMA EventFields ==
    ASSUME NEW c, NEW n, NEW p, NEW payload, NEW e, e = Event(c, n, p, payload)
    PROVE  e.command_id = c.command_id /\ e.seq_num = n /\ e.kind = c.kind
  BY Zenon DEF Event

\* One command more.
LEMMA ExecuteOK ==
    ASSUME NEW ledger, NEW i \in Nat, NEW n \in Nat, LedgerOK(ledger, i, n), NEW c, NEW next,
           next = Execute(ledger, <<i, n>>, c)
    PROVE  /\ LedgerOK(next, i, n + 1) /\ Grows(ledger, next)
           /\ <<i, n>> \in DOMAIN next.replies
           /\ next.replies[<<i, n>>] = ReplyTo(ledger, <<i, n>>, c)
  <1> DEFINE p == <<i, n>>
             r == ReplyTo(ledger, p, c)
             e == NewEvent(ledger, p, c)
             id == c.command_id
             s == ledger.seq_num + 1
  <1>0. DOMAIN ledger = LedgerFields /\ ledger.seq_num \in Nat
    BY Zenon DEF LedgerOK
  <1>1. /\ DOMAIN next = LedgerFields
        /\ next.replies = Overlay(ledger.replies, Single(p, r))
        /\ Takes(ledger, c) => /\ next.seq_num = s
                               /\ next.events = Overlay(ledger.events, Single(id, e))
        /\ ~Takes(ledger, c) => /\ next.seq_num = ledger.seq_num /\ next.events = ledger.events
                                /\ next.accounts = ledger.accounts
    <2>1. next = Execute(ledger, p, c)
      BY Zenon
    <2> HIDE DEF p
    <2> QED BY <1>0, <2>1, ExecuteFields
  <1>2. e.command_id = id /\ e.seq_num = s
    <2>1. e = Event(c, s, p, Handle(ledger.accounts, c).payload)
      BY Zenon DEF NewEvent
    <2> HIDE DEF e, s, p
    <2> QED BY <2>1, EventFields
  <1> HIDE DEF r, e
  <1>3. p \notin DOMAIN ledger.replies
    <2>1. ~Before(p, i, n)
      BY SMT DEF Before
    <2> QED BY <2>1, Zenon DEF LedgerOK
  <1>4. /\ DOMAIN next.replies = DOMAIN ledger.replies \cup {p}
        /\ next.replies[p] = r /\ Contained(ledger.replies, next.replies)
    <2> DEFINE f == ledger.replies
               g == next.replies
    <2>1. g = Overlay(f, Single(p, r)) /\ p \notin DOMAIN f
      BY <1>1, <1>3, Zenon
    <2> HIDE DEF p, f, g
    <2>2. DOMAIN g = DOMAIN f \cup {p} /\ g[p] = r /\ Contained(f, g)
      BY <2>1, Zenon DEF Overlay, Single, Contained
    <2> QED BY <2>2, Zenon DEF f, g
  <1>5. \A q \in DOMAIN next.replies : q \in Nat \X Nat /\ Before(q, i, n + 1)
    <2> SUFFICES ASSUME NEW q \in DOMAIN next.replies
                 PROVE  q \in Nat \X Nat /\ Before(q, i, n + 1)
      BY Zenon
    <2>1. CASE q = p
      BY <2>1, SMT DEF Before
    <2>2. CASE q \in DOMAIN ledger.replies
      <3>1. q \in Nat \X Nat /\ Before(q, i, n)
        BY <2>2, Zenon DEF LedgerOK
      <3> QED BY <3>1, SMT DEF Before
    <2> QED BY <1>4, <2>1, <2>2, Zenon
  <1>6. CASE ~Takes(ledger, c)
    <2>1. /\ next.seq_num = ledger.seq_num /\ next.events = ledger.events
          /\ next.accounts = ledger.accounts
      BY <1>1, <1>6, Zenon
    <2>2. LedgerOK(next, i, n + 1)
      BY <1>0, <1>1, <1>5, <2>1 DEF LedgerOK
    <2>3. Grows(ledger, next)
      BY <1>0, <1>4, <2>1 DEF Grows, Contained, Advances
    <2> QED BY <1>4, <2>2, <2>3, Zenon DEF r
  <1>7. CASE Takes(ledger, c)
    <2>1. id \notin DOMAIN ledger.events
      BY <1>7, Zenon DEF Takes
    <2>2. next.seq_num = s /\ next.events = Overlay(ledger.events, Single(id, e))
      BY <1>1, <1>7, Zenon
    <2>3. /\ DOMAIN next.events = DOMAIN ledger.events \cup {id} /\ next.events[id] = e
          /\ \A x \in DOMAIN ledger.events : next.events[x] = ledger.events[x]
          /\ Contained(ledger.events, next.events)
      <3> DEFINE f == ledger.events
                 g == next.events
      <3>1. g = Overlay(f, Single(id, e)) /\ id \notin DOMAIN f
        BY <2>1, <2>2, Zenon
      <3> HIDE DEF id, f, g
      <3>2. /\ DOMAIN g = DOMAIN f \cup {id} /\ g[id] = e
            /\ \A x \in DOMAIN f : g[x] = f[x]
            /\ Contained(f, g)
        BY <3>1, Zenon DEF Overlay, Single, Contained
      <3> QED BY <3>2, Zenon DEF f, g
    <2>4. \A x \in DOMAIN ledger.events :
             ledger.events[x].command_id = x /\ ledger.events[x].seq_num \in 1..ledger.seq_num
      BY Zenon DEF LedgerOK
    <2>5. \A x, y \in DOMAIN ledger.events :
             ledger.events[x].seq_num = ledger.events[y].seq_num => x = y
      BY Zenon DEF LedgerOK
    <2> HIDE DEF id
    <2>6. \A x \in DOMAIN next.events :
             next.events[x].command_id = x /\ next.events[x].seq_num \in 1..s
      BY <1>0, <1>2, <2>3, <2>4
    <2>7. \A x, y \in DOMAIN next.events :
             next.events[x].seq_num = next.events[y].seq_num => x = y
      <3>1. \A x \in DOMAIN ledger.events : ledger.events[x].seq_num # s
        BY <1>0, <2>4
      <3> HIDE DEF s
      <3> QED BY <1>2, <2>3, <2>5, <3>1
    <2>8. s \in Nat
      BY <1>0
    <2>9. LedgerOK(next, i, n + 1)
      BY <1>1, <1>5, <2>2, <2>6, <2>7, <2>8, Zenon DEF LedgerOK
    <2>10. Grows(ledger, next)
      BY <1>0, <1>4, <2>2, <2>3 DEF Grows, Advances
    <2> QED BY <1>4, <2>9, <2>10, Zenon DEF r
  <1> QED BY <1>6, <1>7, Zenon

LEMMA ContainedTrans ==
    ASSUME NEW f, NEW g, NEW h, Contained(f, g), Contained(g, h)
    PROVE  Contained(f, h)
  BY Zenon DEF Contained

LEMMA GrowsTrans ==
    ASSUME NEW l1, NEW l2, NEW l3, Grows(l1, l2), Grows(l2, l3)
    PROVE  Grows(l1, l3)
  <1>1. Advances(l1, l3)
    BY SMTT(40) DEF Grows, Advances
  <1> QED BY <1>1, ContainedTrans, Zenon DEF Grows

LEMMA GrowsRefl ==
    ASSUME NEW ledger, NEW i, NEW n, LedgerOK(ledger, i, n)
    PROVE  Grows(ledger, ledger)
  BY DEF LedgerOK, Grows, Contained, Advances

\* A part of an entry.
LEMMA EntryOK ==
    ASSUME NEW ledger, NEW i \in Nat, LedgerOK(ledger, i, 0), NEW e, Len(e) \in Nat,
           NEW run, run = EntryRun(ledger, i, e)
    PROVE  \A n \in 0..Len(e) : /\ LedgerOK(run[n], i, n)
                                /\ \A m \in 0..n : Grows(run[m], run[n])
  <1>0. /\ run[0] = ledger
        /\ \A n \in 1..Len(e) : run[n] = Execute(run[n-1], <<i, n - 1>>, e[n])
    BY EntrySteps, SMTT(40)
  <1> DEFINE Good(n) == LedgerOK(run[n], i, n) /\ \A m \in 0..n : Grows(run[m], run[n])
             S == {n \in Nat : n <= Len(e) => Good(n)}
  <1>1. 0 \in S
    <2>1. \A m \in 0..0 : m = 0
      OBVIOUS
    <2>2. Good(0)
      BY <1>0, <2>1, GrowsRefl, Zenon
    <2> HIDE DEF Good
    <2> QED BY <2>2, Zenon
  <1>2. ASSUME NEW n \in Nat, n \in S PROVE n + 1 \in S
    <2> SUFFICES ASSUME n + 1 <= Len(e) PROVE Good(n + 1)
      BY DEF S
    <2>1. n <= Len(e) /\ n + 1 \in 1..Len(e) /\ (n + 1) - 1 = n
      OBVIOUS
    <2>2. LedgerOK(run[n], i, n) /\ \A m \in 0..n : Grows(run[m], run[n])
      BY <1>2, <2>1, Zenon
    <2>3. run[n + 1] = Execute(run[n], <<i, n>>, e[n + 1])
      BY <1>0, <2>1, Zenon
    <2>4. LedgerOK(run[n + 1], i, n + 1) /\ Grows(run[n], run[n + 1])
      BY <2>2, <2>3, ExecuteOK, SMTT(40)
    <2>5. ASSUME NEW m \in 0..n+1 PROVE Grows(run[m], run[n + 1])
      <3>1. CASE m = n + 1
        BY <2>4, <3>1, GrowsRefl, Zenon
      <3>2. CASE m \in 0..n
        BY <2>2, <2>4, <3>2, GrowsTrans, Zenon
      <3> QED BY <3>1, <3>2
    <2> QED BY <2>4, <2>5, Zenon
  <1>3. ASSUME NEW n \in 0..Len(e) PROVE Good(n)
    <2> HIDE DEF Good
    <2>1. Nat \subseteq S
      <3> HIDE DEF S
      <3> QED BY <1>1, <1>2, SetInduction, Zenon
    <2>2. n \in Nat /\ n <= Len(e)
      OBVIOUS
    <2> QED BY <2>1, <2>2, Zenon
  <1> QED BY <1>3, Zenon

\* The logs that are considered: sequences of sequences.
IsLog(l) == Len(l) \in Nat /\ \A k \in 1..Len(l) : Len(l[k]) \in Nat

\* Whole entries.
LEMMA LogRunOK ==
    ASSUME NEW l, IsLog(l), NEW run, run = LogRun(l)
    PROVE  \A n \in 0..Len(l) : /\ LedgerOK(run[n], APPLIED_INDEX + n + 1, 0)
                                /\ \A m \in 0..n : Grows(run[m], run[n])
  <1> USE DEF APPLIED_INDEX
  <1>0. /\ Len(l) \in Nat /\ run[0] = NewLedger
        /\ \A n \in 1..Len(l) : run[n] = EntryRun(run[n-1], APPLIED_INDEX + n, l[n])[Len(l[n])]
    BY LogSteps, Zenon DEF IsLog
  <1> DEFINE Good(n) == LedgerOK(run[n], APPLIED_INDEX + n + 1, 0)
                        /\ \A m \in 0..n : Grows(run[m], run[n])
             S == {n \in Nat : n <= Len(l) => Good(n)}
  <1>1. 0 \in S
    <2>1. \A m \in 0..0 : m = 0
      OBVIOUS
    <2>2. LedgerOK(NewLedger, APPLIED_INDEX + 0 + 1, 0)
      BY Zenon DEF LedgerOK, NewLedger, LedgerFields, EmptyTable
    <2>3. Good(0)
      BY <1>0, <2>1, <2>2, GrowsRefl, Zenon
    <2> HIDE DEF Good
    <2> QED BY <2>3, Zenon
  <1>2. ASSUME NEW n \in Nat, n \in S PROVE n + 1 \in S
    <2> SUFFICES ASSUME n + 1 <= Len(l) PROVE Good(n + 1)
      BY DEF S
    <2> DEFINE i == APPLIED_INDEX + (n + 1)
               e == l[n + 1]
               entry == EntryRun(run[n], i, e)
    <2>1. /\ n <= Len(l) /\ n + 1 \in 1..Len(l) /\ (n + 1) - 1 = n
          /\ i \in Nat /\ i = APPLIED_INDEX + n + 1
      BY <1>0
    <2>2. LedgerOK(run[n], i, 0) /\ \A m \in 0..n : Grows(run[m], run[n])
      BY <1>2, <2>1, Zenon
    <2>3. Len(e) \in Nat
      BY <2>1, Zenon DEF IsLog
    <2>4. run[n + 1] = entry[Len(e)]
      BY <1>0, <2>1, Zenon
    <2>5. entry[0] = run[n]
      BY <2>3, EntrySteps, SMTT(40)
    <2>6. entry = EntryRun(run[n], i, e)
      BY Zenon
    <2> HIDE DEF i, e, entry
    <2>7. LedgerOK(entry[Len(e)], i, Len(e)) /\ Grows(entry[0], entry[Len(e)])
      <3>1. Len(e) \in 0..Len(e) /\ 0 \in 0..Len(e)
        BY <2>3
      <3> QED BY <2>1, <2>2, <2>3, <2>6, <3>1, EntryOK, Zenon
    <2>8. LedgerOK(run[n + 1], APPLIED_INDEX + (n + 1) + 1, 0)
      <3>1. \A p \in Nat \X Nat : Before(p, i, Len(e)) => Before(p, APPLIED_INDEX + (n + 1) + 1, 0)
        BY <2>1, <2>3 DEF Before, i
      <3>2. LedgerOK(run[n + 1], i, Len(e))
        BY <2>4, <2>7, Zenon
      <3> QED BY <3>1, <3>2, Zenon DEF LedgerOK
    <2>9. ASSUME NEW m \in 0..n+1 PROVE Grows(run[m], run[n + 1])
      <3>1. CASE m = n + 1
        BY <2>8, <3>1, GrowsRefl, Zenon
      <3>2. CASE m \in 0..n
        BY <2>2, <2>4, <2>5, <2>7, <3>2, GrowsTrans, Zenon
      <3> QED BY <3>1, <3>2
    <2> QED BY <2>8, <2>9, Zenon
  <1>3. ASSUME NEW n \in 0..Len(l) PROVE Good(n)
    <2> HIDE DEF Good
    <2>1. Nat \subseteq S
      <3> HIDE DEF S
      <3> QED BY <1>1, <1>2, SetInduction, Zenon
    <2>2. n \in Nat /\ n <= Len(l)
      BY <1>0
    <2> QED BY <2>1, <2>2, Zenon
  <1> QED BY <1>3, Zenon

\* The runs of two logs agree as far as the logs do.
LEMMA LogRunPrefix ==
    ASSUME NEW l, IsLog(l), NEW l2, IsLog(l2), Len(l) <= Len(l2),
           \A k \in 1..Len(l) : l2[k] = l[k],
           NEW run, run = LogRun(l), NEW run2, run2 = LogRun(l2)
    PROVE  \A n \in 0..Len(l) : run2[n] = run[n]
  <1> DEFINE S == {n \in Nat : n <= Len(l) => run2[n] = run[n]}
  <1>0. Len(l) \in Nat /\ Len(l2) \in Nat
    BY Zenon DEF IsLog
  <1>1. /\ run[0] = NewLedger
        /\ \A n \in 1..Len(l) : run[n] = EntryRun(run[n-1], APPLIED_INDEX + n, l[n])[Len(l[n])]
    BY <1>0, LogSteps, Zenon
  <1>2. /\ run2[0] = NewLedger
        /\ \A n \in 1..Len(l2) : run2[n] = EntryRun(run2[n-1], APPLIED_INDEX + n, l2[n])[Len(l2[n])]
    BY <1>0, LogSteps, Zenon
  <1>3. 0 \in S
    BY <1>1, <1>2, Zenon
  <1>4. ASSUME NEW n \in Nat, n \in S PROVE n + 1 \in S
    <2> SUFFICES ASSUME n + 1 <= Len(l) PROVE run2[n + 1] = run[n + 1]
      BY DEF S
    <2>1. n <= Len(l) /\ n + 1 \in 1..Len(l) /\ n + 1 \in 1..Len(l2) /\ (n + 1) - 1 = n
      BY <1>0
    <2>2. run2[n] = run[n] /\ l2[n + 1] = l[n + 1]
      BY <1>4, <2>1, Zenon
    <2> QED BY <1>1, <1>2, <2>1, <2>2, Zenon
  <1>5. Nat \subseteq S
    <2> HIDE DEF S
    <2> QED BY <1>3, <1>4, SetInduction, Zenon
  <1>6. \A n \in 0..Len(l) : n \in Nat /\ n <= Len(l)
    BY <1>0
  <1> QED BY <1>5, <1>6, Zenon

\* A position of the log: k entries and n commands of the next one are before it.
IsPlace(l, k, n) ==
    /\ k \in 0..Len(l) /\ n \in Nat
    /\ n # 0 => k < Len(l) /\ n <= Len(l[k+1])

\* The ledger at a position of the log.
LedgerAt(l, k, n) ==
    IF k < Len(l) THEN EntryRun(LogRun(l)[k], APPLIED_INDEX + k + 1, l[k+1])[n] ELSE LogRun(l)[k]

\* The position after whole entries.
LEMMA WholeEntries ==
    ASSUME NEW l, IsLog(l), NEW k \in 0..Len(l)
    PROVE  IsPlace(l, k, 0) /\ LedgerAt(l, k, 0) = LogRun(l)[k]
  <1>1. IsPlace(l, k, 0)
    BY Zenon DEF IsPlace
  <1>2. CASE k < Len(l)
    <2> DEFINE run == EntryRun(LogRun(l)[k], APPLIED_INDEX + k + 1, l[k+1])
    <2>1. Len(l[k+1]) \in Nat
      BY <1>2 DEF IsLog
    <2>2. run = EntryRun(LogRun(l)[k], APPLIED_INDEX + k + 1, l[k+1])
      BY Zenon
    <2> HIDE DEF run
    <2>3. run[0] = LogRun(l)[k]
      BY <2>1, <2>2, EntrySteps, SMTT(40)
    <2>4. LedgerAt(l, k, 0) = run[0]
      BY <1>2, Zenon DEF LedgerAt, run
    <2> QED BY <1>1, <2>3, <2>4, Zenon
  <1>3. CASE ~(k < Len(l))
    BY <1>1, <1>3, Zenon DEF LedgerAt
  <1> QED BY <1>2, <1>3, Zenon

\* The ledger at a position is well-formed, extends those of the whole entries before
\* it, and is extended by the ledger of the whole log.
LEMMA PlaceOK ==
    ASSUME NEW l, IsLog(l), NEW k, NEW n, IsPlace(l, k, n)
    PROVE  /\ LedgerOK(LedgerAt(l, k, n), APPLIED_INDEX + k + 1, n)
           /\ \A j \in 0..k : Grows(LogRun(l)[j], LedgerAt(l, k, n))
           /\ Grows(LedgerAt(l, k, n), LogRun(l)[Len(l)])
           /\ \A j \in k+1..Len(l) : Grows(LedgerAt(l, k, n), LogRun(l)[j])
           /\ \A m \in 0..n : Grows(LedgerAt(l, k, m), LedgerAt(l, k, n))
  <1> DEFINE run == LogRun(l)
             i == APPLIED_INDEX + k + 1
             at == LedgerAt(l, k, n)
  <1>0. Len(l) \in Nat /\ k \in 0..Len(l) /\ n \in Nat /\ i \in Nat /\ k \in Nat /\ k <= Len(l)
    BY DEF IsLog, IsPlace, APPLIED_INDEX
  <1>1. run = LogRun(l)
    BY Zenon
  <1> HIDE DEF run
  <1>2. \A m \in 0..Len(l) : LedgerOK(run[m], APPLIED_INDEX + m + 1, 0)
                             /\ \A j \in 0..m : Grows(run[j], run[m])
    BY <1>1, LogRunOK, Zenon
  <1>3. CASE k < Len(l)
    <2> DEFINE e == l[k+1]
               entry == EntryRun(run[k], i, e)
               next == k + 1
    <2>1. /\ Len(e) \in Nat /\ n \in 0..Len(e) /\ 0 \in 0..Len(e) /\ Len(e) \in 0..Len(e)
          /\ n \in 0..Len(e) /\ 0 \in 0..n
      BY <1>0, <1>3 DEF IsLog, IsPlace
    <2>2. entry = EntryRun(run[k], i, e)
      BY Zenon
    <2>3. next \in 1..Len(l) /\ next - 1 = k /\ APPLIED_INDEX + next = i /\ next \in 0..Len(l)
          /\ Len(l) \in 0..Len(l) /\ next \in 0..Len(l) /\ e = l[next]
      BY <1>0, <1>3 DEF APPLIED_INDEX
    <2>4. at = entry[n] /\ \A m : LedgerAt(l, k, m) = entry[m]
      BY <1>1, <1>3, Zenon DEF LedgerAt
    <2>5. run[next] = EntryRun(run[next-1], APPLIED_INDEX + next, l[next])[Len(l[next])]
      <3> HIDE DEF next
      <3> QED BY <1>0, <1>1, <2>3, LogSteps, Zenon
    <2> HIDE DEF e, at, i, next
    <2>6. run[next] = entry[Len(e)]
      BY <2>3, <2>5, Zenon
    <2>7. entry[0] = run[k]
      BY <2>1, EntrySteps, SMTT(40)
    <2> HIDE DEF entry
    <2>8. \A m \in 0..Len(e) : LedgerOK(entry[m], i, m) /\ \A j \in 0..m : Grows(entry[j], entry[m])
      <3>1. LedgerOK(run[k], i, 0)
        BY <1>0, <1>2, Zenon DEF i
      <3> QED BY <1>0, <2>1, <2>2, <3>1, EntryOK, Zenon
    <2>9. LedgerOK(at, i, n) /\ Grows(run[k], at)
      BY <2>1, <2>4, <2>7, <2>8, Zenon
    <2>10. Grows(at, run[next])
      BY <2>1, <2>4, <2>6, <2>8, Zenon
    <2>11. \A j \in 0..k : Grows(run[j], at)
      BY <1>0, <1>2, <2>9, GrowsTrans, Zenon
    <2>12. Grows(at, run[Len(l)])
      BY <1>2, <2>3, <2>10, GrowsTrans, Zenon
    <2>13. ASSUME NEW j \in k+1..Len(l) PROVE Grows(at, run[j])
      <3>1. j \in 0..Len(l) /\ next \in 0..j
        BY <1>0, <2>3 DEF next
      <3> QED BY <1>2, <2>10, <3>1, GrowsTrans, Zenon
    <2>14. \A m \in 0..n : Grows(LedgerAt(l, k, m), at)
      BY <2>1, <2>4, <2>8, Zenon
    <2> QED BY <2>9, <2>11, <2>12, <2>13, <2>14, Zenon DEF at, run, i
  <1>4. CASE ~(k < Len(l))
    <2>1. k = Len(l) /\ n = 0 /\ at = run[k]
      BY <1>0, <1>4 DEF IsPlace, LedgerAt, run
    <2> HIDE DEF at
    <2>2. /\ LedgerOK(at, APPLIED_INDEX + k + 1, n)
          /\ \A j \in 0..k : Grows(run[j], at)
          /\ Grows(at, run[Len(l)])
      BY <1>0, <1>2, <2>1, GrowsRefl, Zenon
    <2>3. \A m \in 0..n : m = n
      BY <2>1
    <2>4. \A m \in 0..n : Grows(LedgerAt(l, k, m), at)
      BY <2>2, <2>3, GrowsRefl, Zenon DEF at
    <2>5. k+1..Len(l) = {}
      BY <1>0, <2>1
    <2> QED BY <2>2, <2>4, <2>5, Zenon DEF at, run
  <1> QED BY <1>3, <1>4, Zenon

\* Of two positions, one is later; the accounts are the same if seq_num is.
LEMMA PlacesAgree ==
    ASSUME NEW l, IsLog(l), NEW k, NEW n, IsPlace(l, k, n), NEW j, NEW m, IsPlace(l, j, m),
           LedgerAt(l, j, m).seq_num = LedgerAt(l, k, n).seq_num
    PROVE  LedgerAt(l, j, m).accounts = LedgerAt(l, k, n).accounts
  <1>0. Len(l) \in Nat /\ k \in 0..Len(l) /\ j \in 0..Len(l) /\ n \in Nat /\ m \in Nat
    BY Zenon DEF IsLog, IsPlace
  <1>1. ASSUME NEW a, NEW b, a + 1 <= b, NEW x, NEW y, IsPlace(l, a, x), IsPlace(l, b, y)
        PROVE  Grows(LedgerAt(l, a, x), LedgerAt(l, b, y))
    <2>1. a + 1 \in a+1..Len(l) /\ a + 1 \in 0..b
      BY <1>0, <1>1 DEF IsPlace
    <2>2. Grows(LedgerAt(l, a, x), LogRun(l)[a + 1])
      BY <1>1, <2>1, PlaceOK, Zenon
    <2>3. Grows(LogRun(l)[a + 1], LedgerAt(l, b, y))
      BY <1>1, <2>1, PlaceOK, Zenon
    <2> QED BY <2>2, <2>3, GrowsTrans, Zenon
  <1>2. CASE k + 1 <= j
    <2>1. Grows(LedgerAt(l, k, n), LedgerAt(l, j, m))
      BY <1>1, <1>2, Zenon
    <2> QED BY <2>1, Zenon DEF Grows, Advances
  <1>3. CASE j + 1 <= k
    <2>1. Grows(LedgerAt(l, j, m), LedgerAt(l, k, n))
      BY <1>1, <1>3, Zenon
    <2> QED BY <2>1, Zenon DEF Grows, Advances
  <1>4. CASE j = k
    <2>1. m \in 0..n \/ n \in 0..m
      BY <1>0
    <2>2. IsPlace(l, k, m) /\ LedgerAt(l, j, m) = LedgerAt(l, k, m)
      BY <1>4, Zenon
    <2>3. \/ Grows(LedgerAt(l, k, m), LedgerAt(l, k, n))
          \/ Grows(LedgerAt(l, k, n), LedgerAt(l, k, m))
      BY <2>1, <2>2, PlaceOK, Zenon
    <2> QED BY <2>2, <2>3, Zenon DEF Grows, Advances
  <1> QED BY <1>0, <1>2, <1>3, <1>4

\* A command: the next position, and the reply that the whole log determines.
LEMMA PlaceStep ==
    ASSUME NEW l, IsLog(l), NEW k, NEW n, IsPlace(l, k, n), k < Len(l), n < Len(l[k+1]),
           NEW at, at = LedgerAt(l, k, n), NEW p, p = <<APPLIED_INDEX + k + 1, n>>,
           NEW c, c = l[k+1][n+1]
    PROVE  /\ IsPlace(l, k, n + 1) /\ LedgerAt(l, k, n + 1) = Execute(at, p, c)
           /\ p \in DOMAIN LedgerReplies(l) /\ LedgerReplies(l)[p] = ReplyTo(at, p, c)
  <1> DEFINE i == APPLIED_INDEX + k + 1
             e == l[k+1]
             m == n + 1
             run == EntryRun(LogRun(l)[k], i, e)
             next == LedgerAt(l, k, m)
  <1>0. /\ Len(l) \in Nat /\ Len(e) \in Nat /\ n \in Nat /\ k \in Nat /\ i \in Nat
        /\ m \in 1..Len(e) /\ m - 1 = n
    <2>1. Len(l) \in Nat /\ k \in 0..Len(l) /\ n \in Nat
      BY Zenon DEF IsLog, IsPlace
    <2>2. k \in Nat /\ i \in Nat /\ k + 1 \in 1..Len(l)
      BY <2>1 DEF APPLIED_INDEX
    <2>3. Len(e) \in Nat
      BY <2>2, Zenon DEF IsLog
    <2> HIDE DEF e
    <2>4. n < Len(e)
      BY Zenon DEF e
    <2> QED BY <2>1, <2>2, <2>3, <2>4, SMTT(40)
  <1>1. IsPlace(l, k, m)
    BY <1>0 DEF IsPlace
  <1>2. at = run[n] /\ next = run[m]
    BY Zenon DEF LedgerAt
  <1>3. run = EntryRun(LogRun(l)[k], i, e) /\ p = <<i, n>> /\ c = e[m]
    BY Zenon
  <1> HIDE DEF run, i, e, m, next
  <1>4. run[m] = Execute(run[m-1], <<i, m - 1>>, e[m])
    BY <1>0, <1>3, EntrySteps, SMTT(40)
  <1>5. next = Execute(at, p, c)
    BY <1>0, <1>2, <1>3, <1>4, Zenon
  <1>6. LedgerOK(at, i, n)
    <2>1. LedgerOK(LedgerAt(l, k, n), APPLIED_INDEX + k + 1, n)
      BY PlaceOK, Zenon
    <2> QED BY <2>1, Zenon DEF i
  <1>7. p \in DOMAIN next.replies /\ next.replies[p] = ReplyTo(at, p, c)
    <2>1. next = Execute(at, <<i, n>>, c)
      BY <1>3, <1>5, Zenon
    <2>2. /\ <<i, n>> \in DOMAIN next.replies
          /\ next.replies[<<i, n>>] = ReplyTo(at, <<i, n>>, c)
      BY <1>0, <1>6, <2>1, ExecuteOK
    <2> QED BY <1>3, <2>2, Zenon
  <1>8. Grows(next, LogRun(l)[Len(l)])
    BY <1>1, PlaceOK, Zenon DEF next
  <1>9. p \in DOMAIN LedgerReplies(l) /\ LedgerReplies(l)[p] = ReplyTo(at, p, c)
    BY <1>7, <1>8, Zenon DEF Grows, Contained, LedgerReplies
  <1> QED BY <1>1, <1>5, <1>9, Zenon DEF m, next

\* The end of an entry.
LEMMA PlaceEntry ==
    ASSUME NEW l, IsLog(l), NEW k, NEW n, IsPlace(l, k, n), k < Len(l), n = Len(l[k+1])
    PROVE  IsPlace(l, k + 1, 0) /\ LedgerAt(l, k + 1, 0) = LedgerAt(l, k, n)
  <1> DEFINE m == k + 1
             run == LogRun(l)
  <1>0. /\ Len(l) \in Nat /\ k \in Nat /\ m \in 1..Len(l) /\ m - 1 = k /\ m \in 0..Len(l)
        /\ APPLIED_INDEX + m = APPLIED_INDEX + k + 1
    BY DEF IsLog, IsPlace, APPLIED_INDEX
  <1>1. run = LogRun(l)
    BY Zenon
  <1>2. LedgerAt(l, k, n) = EntryRun(run[m-1], APPLIED_INDEX + m, l[m])[Len(l[m])]
    BY <1>0, Zenon DEF LedgerAt
  <1> HIDE DEF m, run
  <1>3. run[m] = EntryRun(run[m-1], APPLIED_INDEX + m, l[m])[Len(l[m])]
    BY <1>0, <1>1, LogSteps, Zenon
  <1>4. IsPlace(l, m, 0) /\ LedgerAt(l, m, 0) = run[m]
    BY <1>0, <1>1, WholeEntries, Zenon
  <1> QED BY <1>2, <1>3, <1>4, Zenon DEF m

\* A longer log leaves the positions, their ledgers and the replies.
LEMMA PlacePrefix ==
    ASSUME NEW l, IsLog(l), NEW l2, IsLog(l2), Len(l) <= Len(l2),
           \A k \in 1..Len(l) : l2[k] = l[k]
    PROVE  /\ \A k, n : IsPlace(l, k, n) =>
                 IsPlace(l2, k, n) /\ LedgerAt(l2, k, n) = LedgerAt(l, k, n)
           /\ Contained(LedgerReplies(l), LedgerReplies(l2))
  <1> DEFINE run == LogRun(l)
             run2 == LogRun(l2)
  <1>0. Len(l) \in Nat /\ Len(l2) \in Nat
    BY Zenon DEF IsLog
  <1>1. run = LogRun(l) /\ run2 = LogRun(l2)
    BY Zenon
  <1> HIDE DEF run, run2
  <1>2. \A m \in 0..Len(l) : run2[m] = run[m]
    BY <1>1, LogRunPrefix, SMTT(40)
  <1>3. ASSUME NEW k, NEW n, IsPlace(l, k, n)
        PROVE  IsPlace(l2, k, n) /\ LedgerAt(l2, k, n) = LedgerAt(l, k, n)
    <2>1. k \in 0..Len(l) /\ k \in 0..Len(l2) /\ n \in Nat
      BY <1>0, <1>3 DEF IsPlace
    <2>2. CASE k < Len(l)
      <3>1. k < Len(l2) /\ l2[k+1] = l[k+1]
        BY <1>0, <2>1, <2>2
      <3>2. IsPlace(l2, k, n)
        BY <1>3, <2>1, <3>1, Zenon DEF IsPlace
      <3>3. LedgerAt(l2, k, n) = LedgerAt(l, k, n)
        BY <1>1, <1>2, <2>1, <2>2, <3>1, Zenon DEF LedgerAt
      <3> QED BY <3>2, <3>3, Zenon
    <2>3. CASE ~(k < Len(l))
      <3>1. n = 0
        BY <1>3, <2>3, Zenon DEF IsPlace
      <3>2. IsPlace(l2, k, 0) /\ LedgerAt(l2, k, 0) = run2[k] /\ LedgerAt(l, k, 0) = run[k]
        BY <1>1, <2>1, WholeEntries, Zenon
      <3> QED BY <1>2, <2>1, <3>1, <3>2, Zenon
    <2> QED BY <2>2, <2>3, Zenon
  <1>4. Contained(LedgerReplies(l), LedgerReplies(l2))
    <2>1. Len(l) \in 0..Len(l2) /\ Len(l2) \in 0..Len(l2) /\ Len(l) \in 0..Len(l)
      BY <1>0
    <2>2. Grows(run2[Len(l)], run2[Len(l2)])
      <3>1. \A m \in 0..Len(l2) : \A j \in 0..m : Grows(run2[j], run2[m])
        BY <1>1, LogRunOK, Zenon
      <3> QED BY <2>1, <3>1, Zenon
    <2> QED BY <1>1, <1>2, <2>1, <2>2, Zenon DEF Grows, LedgerReplies
  <1> QED BY <1>3, <1>4, Zenon
=============================================================================
