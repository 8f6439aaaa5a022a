---------------------------- MODULE WalletService ----------------------------
(***************************************************************************)
(* The gRPC service of a wallet replica (service.rs).  A command RPC sends *)
(* its command to the message queue, waits for the reply registered at the *)
(* position of the command and makes its response of it.  A read RPC looks *)
(* at the state machine under its lock: between two batches of the apply   *)
(* loop, which holds the lock while it applies and flushes.                *)
(***************************************************************************)
EXTENDS Wallet

IsEvent(reply) == "seq_num" \in DOMAIN reply

-----------------------------------------------------------------------------
(* Command RPCs.                                                           *)

\* std::process::exit(1).
ProcessExit == [outcome |-> "exit"]

\* A response none of whose fields is set: what the getter of an event's payload
\* makes of an event of another type.
DefaultResponse == [outcome |-> "default"]

\* The event of somebody else's command ends the process; an error, be it of the
\* command, of the broker (Timeout) or of the queue that did not take the command,
\* is passed on.
wait_for_response(c, reply) ==
    IF IsEvent(reply) /\ reply.command_id # c.command_id THEN ProcessExit ELSE reply

\* The response that the handler of one type of command makes of the reply.
Response(kind, c, reply) ==
    LET resp == wait_for_response(c, reply)
    IN IF IsEvent(resp) /\ resp.kind # kind THEN DefaultResponse ELSE resp

create_account(c, reply) == Response("Create", c, reply)

lock_account(c, reply) == Response("Lock", c, reply)

unlock_account(c, reply) == Response("Unlock", c, reply)

delete_account(c, reply) == Response("Delete", c, reply)

update_account_config(c, reply) == Response("Config", c, reply)

reserve_rpc(c, reply) == Response("Reserve", c, reply)

release_rpc(c, reply) == Response("Release", c, reply)

batch_balance_operation(c, reply) == Response("Batch", c, reply)

transfer(c, reply) == Response("Transfer", c, reply)

\* The RPC that carries a command.
Respond(c, reply) ==
    CASE c.kind = "Create"   -> create_account(c, reply)
      [] c.kind = "Lock"     -> lock_account(c, reply)
      [] c.kind = "Unlock"   -> unlock_account(c, reply)
      [] c.kind = "Delete"   -> delete_account(c, reply)
      [] c.kind = "Config"   -> update_account_config(c, reply)
      [] c.kind = "Reserve"  -> reserve_rpc(c, reply)
      [] c.kind = "Release"  -> release_rpc(c, reply)
      [] c.kind = "Batch"    -> batch_balance_operation(c, reply)
      [] c.kind = "Transfer" -> transfer(c, reply)

-----------------------------------------------------------------------------
(* Read RPCs.                                                              *)

\* The apply loop does not hold the lock, and has not poisoned it by a panic.
Unlocked == loop = "recv"

\* Both reads: not before the state machine has reached the seq_num that the client
\* asks for, and with the seq_num of the state that is read.
ReadAt(seq_num, id, View(_)) ==
    IF seq_num > last_seq_num THEN Failure("DataNotReady")
    ELSE IF id \notin DOMAIN accounts
    THEN [seq_num |-> last_seq_num, id |-> id, err |-> "AccountNotExist"]
    ELSE [seq_num |-> last_seq_num, id |-> id, err |-> "Ok", view |-> View(accounts[id])]

get_account(seq_num, id) == ReadAt(seq_num, id, LAMBDA account : account)

query_balance(seq_num, id) == ReadAt(seq_num, id, BalanceOf)

-----------------------------------------------------------------------------
\* The command at a position of the log.
CommandAt(p) == log[p[1] - APPLIED_INDEX][p[2] + 1]

\* Whatever the position of a command was answered with - the event of an earlier
\* attempt, or of the same attempt before a crash - the RPC that waits there makes a
\* proper response of it: it neither ends the process (service.rs:128) nor tells the
\* client success with an empty response (the payload getters).
ResponsesMatchCommands ==
    \A p \in DOMAIN sent :
        Respond(CommandAt(p), sent[p]) \notin {ProcessExit, DefaultResponse}
=============================================================================
