----------------------------- MODULE WalletLedger -----------------------------
(***************************************************************************)
(* A wallet replica implements the abstract ledger.                        *)
(***************************************************************************)
EXTENDS Wallet, LedgerRun

L == INSTANCE Ledger WITH Replies <- LedgerReplies

\* The replica implements the ledger: whatever it caches, batches, flushes, loses
\* in a crash and replays, it gives the replies of LedgerRun.  (As long as nothing
\* is deleted or truncated: what those two do depends on when a replica flushes and
\* truncates, see WalletReplicas and ExecutedOnceWhileRetained.)
ImplementsLedger == L!Spec
=============================================================================
