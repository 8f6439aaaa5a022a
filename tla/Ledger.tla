-------------------------------- MODULE Ledger --------------------------------
(***************************************************************************)
(* What the wallet promises, seen from outside: a log of commands and the  *)
(* replies to them.  The reply to a command is determined by the log       *)
(* alone, and a reply once given is never taken back.                      *)
(***************************************************************************)
EXTENDS RocksEngine, Sequences

CONSTANTS
    APPLIED_INDEX, Entries(_), MaxIndex,
    Replies(_)      \* Replies(l): position -> reply, for every command of the log l

VARIABLES log, sent

Init == log = << >> /\ sent = EmptyTable

Commit ==
    /\ APPLIED_INDEX + Len(log) < MaxIndex
    /\ \E entry \in Entries(APPLIED_INDEX + Len(log) + 1) : log' = Append(log, entry)
    /\ UNCHANGED sent

\* The reply to some committed command is given.
Answer ==
    /\ \E p \in DOMAIN Replies(log) : sent' = Overlay(sent, Single(p, Replies(log)[p]))
    /\ UNCHANGED log

Spec == Init /\ [][Commit \/ Answer]_<<log, sent>>
=============================================================================
