--------------------------- MODULE AggregateRegistry ---------------------------
(***************************************************************************)
(* The database registry of the aggregate service (Aggregate.cpp,          *)
(* class AggregateDB, static part): per-thread aggregation databases that  *)
(* are created lazily on a thread's first snapshot, spliced at the head of *)
(* a global doubly-linked list under a spinlock, marked retired by the     *)
(* pthread key destructor when their thread exits, and drained, cleared    *)
(* and (when retired) unlinked and deleted by flush_cb.                    *)
(*                                                                         *)
(* A database is identified with the thread that owns it: a thread stores *)
(* at most one (its pthread_setspecific slot keeps it), and a thread does  *)
(* not run again after its exit.  A database pthread_setspecific failed to *)
(* store is never listed, so it is not tracked at all: only the snapshot  *)
(* it swallowed is counted.  The contents of a database (trie and         *)
(* kernel pool) are abstracted to the snapshot count per aggregation key   *)
(* and whether block 0 of the trie is allocated; a thread holding an entry *)
(* pointer when clear() frees the blocks has that pointer marked freed.    *)
(*                                                                         *)
(* Spinlock critical sections (the splice in acquire, the head snapshot    *)
(* and the unlink in flush_cb) are single atomic steps.                    *)
(***************************************************************************)
EXTENDS Naturals, FiniteSets, Functions

CONSTANTS
    Threads,    \* application threads; the database of thread t is "t"
    Main,       \* the thread that runs post_init_cb
    Keys,       \* encoded aggregation keys (abstract)
    NoDB,       \* a null AggregateDB* / no thread
    MaxIngest,  \* bound on the number of process_snapshot_cb calls
    MaxFlush,   \* bound on the number of flush_cb calls
    SetSpecificFails  \* whether pthread_setspecific may fail

ASSUME Main \in Threads /\ NoDB \notin Threads
ASSUME MaxIngest \in Nat /\ MaxFlush \in Nat /\ SetSpecificFails \in BOOLEAN

DBs == Threads

VARIABLES
    initialized, \* post_init_cb has run
    alive,       \* alive[t]: thread t has not exited
    tls,         \* tls[t]: pthread_getspecific(s_aggregate_db_key) on t
    pc,          \* pc[t]: where thread t is in process_snapshot_cb or flush_cb
    key,         \* key[t]: the key of the snapshot t is ingesting
    sig,         \* sig[t]: that snapshot arrived in signal context
    tmp,         \* tmp[t]: value of s_global_num_dropped loaded by t
    freed,       \* freed[t]: the entry t found lies in blocks clear() freed
    created,     \* databases constructed so far
    deleted,     \* databases deleted by flush_cb
    head,        \* s_list
    next, prev,  \* m_next, m_prev
    stopped,     \* m_stopped
    retired,     \* m_retired
    root,        \* block 0 of m_trie is allocated
    count,       \* count[d][k]: TrieNode::count of key k in database d
    dropped,     \* m_num_dropped
    gDropped,    \* s_global_num_dropped
    flusher,     \* the thread running flush_cb, or NoDB
    fpc,         \* where flush_cb is in its loop
    cur,         \* the loop variable db of flush_cb
    toReclaim,   \* history: retired listed databases when the flush started
    emitted,     \* history: total count of the records written by flushes
    ingests,     \* number of process_snapshot_cb calls started
    flushes,     \* number of flush_cb calls started
    ingested,    \* history: number of process_snapshot_cb calls finished
    gdrops,      \* history: number of ++s_global_num_dropped executed
    folded       \* history: total of m_num_dropped folded by flushes

threadVars == <<alive, tls, pc, key, sig, tmp, freed>>
dbVars     == <<created, deleted, head, next, prev, stopped, retired,
               root, count, dropped>>
flushVars  == <<gDropped, flusher, fpc, cur, toReclaim>>
histVars   == <<emitted, ingests, flushes, ingested, gdrops, folded>>
vars       == <<initialized, threadVars, dbVars, flushVars, histVars>>

NoCount == [k \in Keys |-> 0]

(***************************************************************************)
(* The global list, walked from s_list along m_next.                       *)
(***************************************************************************)
RECURSIVE ListFrom(_, _)
ListFrom(d, fuel) ==
    IF d = NoDB \/ fuel = 0 THEN {} ELSE {d} \cup ListFrom(next[d], fuel - 1)

Listed == ListFrom(head, Cardinality(DBs))

RECURSIVE Walk(_, _)
Walk(d, n) == IF d = NoDB \/ n = 0 THEN d ELSE Walk(next[d], n - 1)

Init ==
    /\ initialized = FALSE
    /\ alive = [t \in Threads |-> TRUE]
    /\ tls = [t \in Threads |-> NoDB]
    /\ pc = [t \in Threads |-> "idle"]
    /\ key = [t \in Threads |-> CHOOSE k \in Keys : TRUE]
    /\ sig = [t \in Threads |-> FALSE]
    /\ tmp = [t \in Threads |-> 0]
    /\ freed = [t \in Threads |-> FALSE]
    /\ created = {} /\ deleted = {}
    /\ head = NoDB
    /\ next = [d \in DBs |-> NoDB] /\ prev = [d \in DBs |-> NoDB]
    /\ stopped = [d \in DBs |-> FALSE] /\ retired = [d \in DBs |-> FALSE]
    /\ root = [d \in DBs |-> FALSE]
    /\ count = [d \in DBs |-> NoCount] /\ dropped = [d \in DBs |-> 0]
    /\ gDropped = 0
    /\ flusher = NoDB /\ fpc = "idle" /\ cur = NoDB /\ toReclaim = {}
    /\ emitted = 0 /\ ingests = 0 /\ flushes = 0 /\ ingested = 0
    /\ gdrops = 0 /\ folded = 0
(***************************************************************************)
(* acquire(c, true) on a thread without a database: the constructor        *)
(* allocates block 0 of the trie and of the kernel pool, the database is   *)
(* stored with pthread_setspecific and spliced at the head of s_list while *)
(* holding s_list_lock.                                                    *)
(***************************************************************************)
Construct(t) ==
    /\ tls' = [tls EXCEPT ![t] = t]
    /\ created' = created \cup {t}
    /\ root' = [root EXCEPT ![t] = TRUE]
    /\ next' = [next EXCEPT ![t] = head]
    /\ prev' = IF head # NoDB THEN [prev EXCEPT ![head] = t] ELSE prev
    /\ head' = t

(***************************************************************************)
(* The outcomes of find_entry(pos, key, alloc) on database d: with alloc   *)
(* it always finds or creates the entry; without alloc (signal context) it *)
(* fails when block 0 is gone (after a clear), finds a key that already    *)
(* holds a count, and may find or miss a new key depending on whether the *)
(* blocks of the ids it hands out are already allocated.                   *)
(***************************************************************************)
FindEntryOutcomes(d, k, s) ==
    IF ~s THEN {TRUE}
    ELSE IF ~root[d] THEN {FALSE}
    ELSE IF count[d][k] > 0 THEN {TRUE}
    ELSE BOOLEAN

(***************************************************************************)
(* AggregateDB::unlink() together with the update of s_list in flush_cb.   *)
(***************************************************************************)
UnlinkNext(d) == IF prev[d] # NoDB THEN [next EXCEPT ![prev[d]] = next[d]] ELSE next
UnlinkPrev(d) == IF next[d] # NoDB THEN [prev EXCEPT ![next[d]] = prev[d]] ELSE prev
\* Mutant: s_list is not moved when the head is unlinked.
UnlinkHeadKept(d) == head
UnlinkHead(d) == IF d = head THEN next[d] ELSE head

(***************************************************************************)
(* post_init_cb: create the database of the initialising thread; when     *)
(* pthread_setspecific fails, the new database is neither stored nor       *)
(* listed.                                                                 *)
(***************************************************************************)
PostInit ==
    /\ ~initialized /\ alive[Main]
    /\ initialized' = TRUE
    /\ \/ Construct(Main)
       \/ SetSpecificFails /\ UNCHANGED <<tls, created, root, next, prev, head>>
    /\ UNCHANGED <<alive, pc, key, sig, tmp, freed, deleted, stopped,
                   retired, count, dropped>>
    /\ UNCHANGED <<flushVars, histVars>>

(***************************************************************************)
(* process_snapshot_cb, up to and including the test of m_stopped:         *)
(* acquire(c, !is_signal()) and, when no database is found or it is        *)
(* stopped, the load of s_global_num_dropped for ++s_global_num_dropped.   *)
(***************************************************************************)
ProcessSnapshotCb(t) ==
    /\ initialized /\ alive[t] /\ pc[t] = "idle"
    /\ ingests < MaxIngest
    /\ \E k \in Keys, s \in BOOLEAN :
         LET create == ~s /\ tls[t] = NoDB
             accept == (tls[t] # NoDB \/ create) /\ ~stopped[t]
         IN /\ IF create THEN Construct(t)
                         ELSE UNCHANGED <<tls, created, root, next, prev, head>>
            /\ key' = [key EXCEPT ![t] = k]
            /\ sig' = [sig EXCEPT ![t] = s]
            /\ IF accept
                 THEN /\ pc' = [pc EXCEPT ![t] = "checked"]
                      /\ UNCHANGED tmp
                 ELSE /\ pc' = [pc EXCEPT ![t] = "gdrop"]
                      /\ tmp' = [tmp EXCEPT ![t] = gDropped]
    /\ ingests' = ingests + 1
    /\ UNCHANGED <<initialized, alive, freed, deleted, stopped, retired,
                   count, dropped, flushVars, emitted, flushes,
                   ingested, gdrops, folded>>

(***************************************************************************)
(* process_snapshot_cb outside signal context on a thread without a        *)
(* database when pthread_setspecific fails: acquire returns the new        *)
(* database without storing or listing it, the snapshot is processed into *)
(* it, and no flush ever sees it.  The next snapshot constructs another.   *)
(***************************************************************************)
ProcessSnapshotLeak(t) ==
    /\ SetSpecificFails
    /\ initialized /\ alive[t] /\ pc[t] = "idle" /\ tls[t] = NoDB
    /\ ingests < MaxIngest
    /\ ingests' = ingests + 1
    /\ ingested' = ingested + 1
    /\ UNCHANGED <<initialized, threadVars, dbVars, flushVars, emitted,
                   flushes, gdrops, folded>>

(***************************************************************************)
(* The store of ++s_global_num_dropped in process_snapshot_cb.             *)
(***************************************************************************)
GlobalDropStore(t) ==
    /\ pc[t] = "gdrop"
    /\ gDropped' = tmp[t] + 1
    /\ pc' = [pc EXCEPT ![t] = "idle"]
    /\ ingested' = ingested + 1
    /\ gdrops' = gdrops + 1
    /\ UNCHANGED <<initialized, alive, tls, key, sig, tmp, freed, dbVars,
                   flusher, fpc, cur, toReclaim, emitted, ingests, flushes,
                   folded>>

(***************************************************************************)
(* AggregateDB::process_snapshot up to the find_entry call and its null    *)
(* test: the key is built and looked up in the trie with                   *)
(* alloc = !is_signal(); a miss counts in m_num_dropped.                   *)
(***************************************************************************)
FindEntry(t) ==
    /\ pc[t] = "checked"
    /\ LET d == tls[t] IN
       \E ok \in FindEntryOutcomes(d, key[t], sig[t]) :
         IF ok
           THEN /\ pc' = [pc EXCEPT ![t] = "found"]
                /\ freed' = [freed EXCEPT ![t] = FALSE]
                /\ root' = [root EXCEPT ![d] = root[d] \/ ~sig[t]]
                /\ UNCHANGED <<dropped, ingested>>
           ELSE /\ pc' = [pc EXCEPT ![t] = "idle"]
                /\ dropped' = [dropped EXCEPT ![d] = dropped[d] + 1]
                /\ ingested' = ingested + 1
                /\ UNCHANGED <<freed, root>>
    /\ UNCHANGED <<initialized, alive, tls, key, sig, tmp, created, deleted,
                   head, next, prev, stopped, retired, count, flushVars,
                   emitted, ingests, flushes, gdrops, folded>>

(***************************************************************************)
(* ++entry->count and the kernel updates.  An entry found before the last  *)
(* clear() lies in a freed block: the increment does not reach the trie.   *)
(***************************************************************************)
\* Mutant: --entry->count instead of ++entry->count.
DecrementedCount(d, k) == [count EXCEPT ![d][k] = @ - 1]
IncrementedCount(d, k) == [count EXCEPT ![d][k] = @ + 1]

UpdateEntry(t) ==
    /\ pc[t] = "found"
    /\ LET d == tls[t] IN
       count' = IF ~freed[t]
                  THEN IncrementedCount(d, key[t])
                  ELSE count
    /\ pc' = [pc EXCEPT ![t] = "idle"]
    /\ ingested' = ingested + 1
    /\ UNCHANGED <<initialized, alive, tls, key, sig, tmp, freed, created,
                   deleted, head, next, prev, stopped, retired, root,
                   dropped, flushVars, emitted, ingests, flushes, gdrops,
                   folded>>

(***************************************************************************)
(* The pthread key destructor retire(): set m_retired, never free.         *)
(***************************************************************************)
Retire(t) ==
    /\ alive[t] /\ pc[t] = "idle"
    /\ alive' = [alive EXCEPT ![t] = FALSE]
    /\ retired' = IF tls[t] # NoDB THEN [retired EXCEPT ![tls[t]] = TRUE]
                                   ELSE retired
    /\ UNCHANGED <<initialized, tls, pc, key, sig, tmp, freed, created,
                   deleted, head, next, prev, stopped, root, count,
                   dropped, flushVars, histVars>>

(***************************************************************************)
(* flush_cb: take s_list under the lock and start the loop.                *)
(***************************************************************************)
FlushCb(f) ==
    /\ initialized /\ alive[f] /\ pc[f] = "idle" /\ fpc = "idle"
    /\ flushes < MaxFlush
    /\ flushes' = flushes + 1
    /\ IF head = NoDB
         THEN UNCHANGED <<pc, flusher, fpc, cur, toReclaim>>
         ELSE /\ pc' = [pc EXCEPT ![f] = "flushing"]
              /\ flusher' = f
              /\ cur' = head
              /\ fpc' = "stop"
              /\ toReclaim' = {d \in Listed : retired[d]}
    /\ UNCHANGED <<initialized, alive, tls, key, sig, tmp, freed, dbVars,
                   gDropped, emitted, ingests, ingested, gdrops, folded>>

(* db->m_stopped.store(true) *)
FlushStop ==
    /\ fpc = "stop"
    /\ stopped' = [stopped EXCEPT ![cur] = TRUE]
    /\ fpc' = "emit"
    /\ UNCHANGED <<initialized, threadVars, created, deleted, head, next, prev,
                   retired, root, count, dropped, gDropped, flusher, cur,
                   toReclaim, histVars>>

(***************************************************************************)
(* db->flush(c): recursive_flush writes one record per trie node with      *)
(* count > 0, carrying that count; nothing when block 0 is absent.         *)
(***************************************************************************)
FlushedCount(d) == IF root[d] THEN SumFunction(count[d]) ELSE 0

FlushEmit ==
    /\ fpc = "emit"
    /\ emitted' = emitted + FlushedCount(cur)
    /\ fpc' = "fold"
    /\ UNCHANGED <<initialized, threadVars, dbVars, gDropped, flusher, cur,
                   toReclaim, ingests, flushes, ingested, gdrops, folded>>

(* Fold the statistics of db into the s_global_* counters. *)
FlushFold ==
    /\ fpc = "fold"
    /\ gDropped' = gDropped + dropped[cur]
    /\ folded' = folded + dropped[cur]
    /\ fpc' = "clear"
    /\ UNCHANGED <<initialized, threadVars, dbVars, flusher, cur, toReclaim,
                   emitted, ingests, flushes, ingested, gdrops>>

(***************************************************************************)
(* db->clear(): both BlockAllocs free every block (block 0 included) and   *)
(* the counters are reset.                                                 *)
(***************************************************************************)
\* Mutant: clear() forgets to reset m_num_dropped.
ClearKeepDropped(d) ==
    /\ count' = [count EXCEPT ![d] = NoCount]
    /\ root' = [root EXCEPT ![d] = FALSE]
    /\ freed' = [t \in Threads |-> freed[t] \/ (pc[t] = "found" /\ tls[t] = d)]
    /\ UNCHANGED dropped

Clear(d) ==
    /\ count' = [count EXCEPT ![d] = NoCount]
    /\ root' = [root EXCEPT ![d] = FALSE]
    /\ freed' = [t \in Threads |-> freed[t] \/ (pc[t] = "found" /\ tls[t] = d)]
    /\ dropped' = [dropped EXCEPT ![d] = 0]

FlushClear ==
    /\ fpc = "clear"
    /\ Clear(cur)
    /\ fpc' = "unstop"
    /\ UNCHANGED <<initialized, alive, tls, pc, key, sig, tmp, created, deleted, head, next, prev,
                   stopped, retired, gDropped, flusher, cur, toReclaim,
                   histVars>>

(* db->m_stopped.store(false) *)
FlushUnstop ==
    /\ fpc = "unstop"
    /\ stopped' = [stopped EXCEPT ![cur] = FALSE]
    /\ fpc' = "next"
    /\ UNCHANGED <<initialized, threadVars, created, deleted, head, next, prev,
                   retired, root, count, dropped, gDropped, flusher, cur,
                   toReclaim, histVars>>

(***************************************************************************)
(* The end of the loop body: a retired database is unlinked under the lock *)
(* (moving s_list past it if it is the head) and deleted, and the loop     *)
(* continues with the successor read before the unlink.                    *)
(***************************************************************************)
\* Mutant: the m_retired test is dropped, every drained database is freed.
ReclaimableAlways(d) == TRUE
\* Mutant: the reclaim branch is missing, retired databases are never freed.
ReclaimableNever(d) == FALSE
Reclaimable(d) == retired[d]

\* Mutant: the loop forgets to advance (db = db->m_next is missing).
SuccessorStuck(d) == d
Successor(d) == next[d]

FlushAdvance ==
    /\ fpc = "next"
    /\ IF Reclaimable(cur)
         THEN /\ next' = UnlinkNext(cur)
              /\ prev' = UnlinkPrev(cur)
              /\ head' = UnlinkHead(cur)
              /\ deleted' = deleted \cup {cur}
         ELSE UNCHANGED <<next, prev, head, deleted>>
    /\ cur' = Successor(cur)
    /\ IF Successor(cur) = NoDB
         THEN /\ fpc' = "idle"
              /\ flusher' = NoDB
              /\ pc' = [pc EXCEPT ![flusher] = "idle"]
         ELSE /\ fpc' = "stop"
              /\ UNCHANGED <<flusher, pc>>
    /\ UNCHANGED <<initialized, alive, tls, key, sig, tmp, freed, created,
                   stopped, retired, root, count, dropped, gDropped,
                   toReclaim, histVars>>

FlushStep ==
    \/ FlushStop \/ FlushEmit \/ FlushFold \/ FlushClear \/ FlushUnstop
    \/ FlushAdvance

Next ==
    \/ PostInit
    \/ \E t \in Threads :
         \/ ProcessSnapshotCb(t) \/ ProcessSnapshotLeak(t)
         \/ GlobalDropStore(t) \/ FindEntry(t)
         \/ UpdateEntry(t) \/ Retire(t) \/ FlushCb(t)
    \/ FlushStep

(***************************************************************************)
(* flush_cb runs to completion once started: its only wait is on the       *)
(* spinlock, which every holder releases within one step.  Ingesting       *)
(* threads are not assumed to make progress.                               *)
(***************************************************************************)
Spec == Init /\ [][Next]_vars /\ WF_vars(FlushStep)

--------------------------------------------------------------------------------
TypeOK ==
    /\ initialized \in BOOLEAN
    /\ alive \in [Threads -> BOOLEAN]
    /\ tls \in [Threads -> DBs \cup {NoDB}]
    /\ pc \in [Threads -> {"idle", "checked", "found", "gdrop", "flushing"}]
    /\ key \in [Threads -> Keys] /\ sig \in [Threads -> BOOLEAN]
    /\ tmp \in [Threads -> Nat] /\ freed \in [Threads -> BOOLEAN]
    /\ created \subseteq DBs /\ deleted \subseteq created
    /\ head \in DBs \cup {NoDB}
    /\ next \in [DBs -> DBs \cup {NoDB}] /\ prev \in [DBs -> DBs \cup {NoDB}]
    /\ stopped \in [DBs -> BOOLEAN] /\ retired \in [DBs -> BOOLEAN]
    /\ root \in [DBs -> BOOLEAN]
    /\ count \in [DBs -> [Keys -> Nat]] /\ dropped \in [DBs -> Nat]
    /\ gDropped \in Nat
    /\ flusher \in Threads \cup {NoDB} /\ cur \in DBs \cup {NoDB}
    /\ fpc \in {"idle", "stop", "emit", "fold", "clear", "unstop", "next"}
    /\ toReclaim \subseteq DBs
    /\ {emitted, ingests, flushes, ingested, gdrops, folded} \subseteq Nat
(***************************************************************************)
(* The global list stays well formed under concurrent splices (acquire on  *)
(* any thread) and unlinks (flush_cb): walking s_list along m_next ends,   *)
(* reaches exactly the databases constructed and not yet deleted, and      *)
(* m_prev is the inverse of m_next along the way.                          *)
(***************************************************************************)
ListIntegrity ==
    /\ Walk(head, Cardinality(DBs)) = NoDB
    /\ Listed = created \ deleted
    /\ head # NoDB => prev[head] = NoDB
    /\ \A d \in Listed : next[d] # NoDB => prev[next[d]] = d

(***************************************************************************)
(* flush_cb deletes a database only after its thread is gone: no live      *)
(* thread's pthread slot, and not the flush loop itself, refers to a       *)
(* deleted database.                                                       *)
(***************************************************************************)
NoUseOfDeleted ==
    /\ \A t \in Threads : alive[t] => tls[t] \notin deleted
    /\ fpc # "idle" => cur \notin deleted

(***************************************************************************)
(* The registry implements the lifecycle of spec sections 3 and 4G: a      *)
(* database that is not deleted is "retired" once m_retired is set, and    *)
(* "live" before; a flush is under way while flush_cb is in its loop, and  *)
(* owes the databases it found retired in the list when it took s_list.    *)
(***************************************************************************)
Lifecycle(d) ==
    CASE d \in deleted   -> "deleted"
      [] d \notin created -> "none"
      [] retired[d]       -> "retired"
      [] OTHER            -> "live"

Reg == INSTANCE RegistrySpec
           WITH db <- [d \in DBs |-> Lifecycle(d)],
                flushing <- fpc # "idle",
                owed <- toReclaim

(***************************************************************************)
(* Every step of acquire, retire and flush_cb, in any interleaving, is a   *)
(* step of the lifecycle: a database is constructed once and for a live    *)
(* thread, deleted only after its thread exited and only by flush_cb, and  *)
(* flush_cb does not return before it deleted every database that was     *)
(* retired and listed when it read s_list.                                 *)
(***************************************************************************)
RegistryRefinement == Reg!Spec

(***************************************************************************)
(* What a database still holds that no flush has written or folded: flush_cb *)
(* has written the counts of cur once it is past the emit step, and folded   *)
(* its m_num_dropped once it is past the fold step, until clear() resets     *)
(* them.                                                                     *)
(***************************************************************************)
Unwritten(d) ==
    IF d = cur /\ fpc \in {"fold", "clear"} THEN 0 ELSE SumFunction(count[d])

Unfolded(d) == IF d = cur /\ fpc = "clear" THEN 0 ELSE dropped[d]

UnwrittenTotal == SumFunction([d \in DBs |-> Unwritten(d)])
UnfoldedTotal == SumFunction([d \in DBs |-> Unfolded(d)])

(***************************************************************************)
(* Every finished process_snapshot_cb is accounted exactly once: its count *)
(* is in a record written by a flush or still in a trie, or it is in a     *)
(* drop counter (of its database until folded, then the global one).       *)
(***************************************************************************)
Conservation == ingested = emitted + UnwrittenTotal + gDropped + UnfoldedTotal

(***************************************************************************)
(* The spec's ownership invariant: while flush_cb has set m_stopped of a   *)
(* database and drains and clears it, its owner is not inside              *)
(* process_snapshot on it.                                                 *)
(***************************************************************************)
OwnerQuiescentDuringFlush ==
    fpc \in {"emit", "fold", "clear", "unstop"} =>
        pc[cur] \notin {"checked", "found"}

(***************************************************************************)
(* s_global_num_dropped is the number of snapshots process_snapshot_cb     *)
(* dropped itself (no database, or a stopped one) plus every m_num_dropped *)
(* flush_cb folded into it: no increment is lost.                          *)
(***************************************************************************)
GlobalDropsCounted == gDropped = gdrops + folded

(***************************************************************************)
(* A flush_cb that has started returns.                                    *)
(***************************************************************************)
FlushCompletes == fpc # "idle" ~> fpc = "idle"
================================================================================
