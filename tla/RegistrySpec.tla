----------------------------- MODULE RegistrySpec -----------------------------
(***************************************************************************)
(* What the database registry promises about the lifetime of a per-thread *)
(* database (spec section 3, "Lifecycle", and 4G): it is created at most   *)
(* once, for a running thread; the exit of its thread marks it retired and *)
(* does not free it; only a flush deletes it, and only once it is retired; *)
(* and a flush does not end before it has deleted every database that was *)
(* retired when it began.  Flushes do not overlap (the single flusher of   *)
(* spec section 5).                                                        *)
(***************************************************************************)
CONSTANTS Threads

VARIABLES
    alive,     \* alive[t]: thread t has not exited
    db,        \* db[t]: "none", "live", "retired" or "deleted"
    flushing,  \* a flush is under way
    owed       \* the databases retired when the current flush began

vars == <<alive, db, flushing, owed>>

Init ==
    /\ alive = [t \in Threads |-> TRUE]
    /\ db = [t \in Threads |-> "none"]
    /\ flushing = FALSE
    /\ owed = {}

\* A running thread without a database gets one.
Create(t) ==
    /\ alive[t] /\ db[t] = "none"
    /\ db' = [db EXCEPT ![t] = "live"]
    /\ UNCHANGED <<alive, flushing, owed>>

\* A thread exits; its database, if any, is retired and kept.
Exit(t) ==
    /\ alive[t]
    /\ alive' = [alive EXCEPT ![t] = FALSE]
    /\ db' = IF db[t] = "live" THEN [db EXCEPT ![t] = "retired"] ELSE db
    /\ UNCHANGED <<flushing, owed>>

FlushBegin ==
    /\ ~flushing
    /\ flushing' = TRUE
    /\ owed' = {t \in Threads : db[t] = "retired"}
    /\ UNCHANGED <<alive, db>>

Delete(t) == flushing /\ db[t] = "retired" /\ db' = [db EXCEPT ![t] = "deleted"]

\* The flush may end once the databases it owes are deleted (as seen in
\* the state the step leaves behind).
Finish(d) == flushing /\ (\A t \in owed : d[t] = "deleted") /\ flushing' = FALSE

Reclaim(t) == Delete(t) /\ UNCHANGED <<alive, flushing, owed>>

FlushEnd == Finish(db) /\ UNCHANGED <<alive, db, owed>>

\* The last database of the walk is deleted in the step that ends it.
ReclaimAndEnd(t) == Delete(t) /\ Finish(db') /\ UNCHANGED <<alive, owed>>

Next ==
    \/ \E t \in Threads : Create(t) \/ Exit(t) \/ Reclaim(t) \/ ReclaimAndEnd(t)
    \/ FlushBegin \/ FlushEnd

Spec == Init /\ [][Next]_vars
================================================================================
