------------------------- MODULE MCAggregateRegistry -------------------------
(* Model-checking instance of AggregateRegistry.                           *)
EXTENDS AggregateRegistry

CONSTANTS t1, t2, t3, k1

\* Two threads: the main thread and one worker.
MCThreadsTwo == {t1, t2}
\* Three threads, so that a database in the middle of the list is unlinked.
MCThreadsThree == {t1, t2, t3}
\* A single-threaded program: ingest and flush never overlap.
MCThreadsOne == {t1}
MCKeys == {k1}
================================================================================
