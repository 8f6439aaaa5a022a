--------------------------- MODULE MCMessageQueue ---------------------------
EXTENDS MessageQueue

\* Enough entries for one compaction to reach a whole range of two entries,
\* and no two alike.
MCEntries == <<"a", "b", "c", "d">>
=============================================================================
