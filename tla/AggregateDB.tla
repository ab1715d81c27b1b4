------------------------------ MODULE AggregateDB ------------------------------
(***************************************************************************)
(* One per-thread aggregation database of Aggregate.cpp (class            *)
(* AggregateDB): the byte trie and the kernel pool, both in BlockAlloc     *)
(* arrays of fixed-size blocks, find_entry, the update of process_snapshot *)
(* and flush followed by clear.                                            *)
(*                                                                         *)
(* Two contexts run process_snapshot on the owning thread: the thread      *)
(* itself ("normal", alloc = true) and a signal handler ("signal", alloc = *)
(* false, since is_signal() is true).  A handler runs to completion once   *)
(* it starts; when Reentrant is TRUE it may interrupt the normal context   *)
(* between any two of its steps.  The steps of find_entry are split where  *)
(* the code reads and writes shared members in separate statements.        *)
(*                                                                         *)
(* The key builder is abstracted: a snapshot arrives as its encoded key    *)
(* (a byte sequence of Keys) and, per aggregated attribute, a value or     *)
(* none.  Doubles are integers; DblMax and DblMinPos stand for             *)
(* numeric_limits<double>::max() and ::min() (the least positive double).  *)
(***************************************************************************)
EXTENDS Integers, Sequences, FiniteSets

CONSTANTS
    Bytes,            \* byte values used by the keys
    Keys,             \* encoded keys, non-empty sequences over Bytes
    NumAggr,          \* m_aggr_attributes.size()
    Samples,          \* values of aggregated attributes
    NoValue,          \* no immediate entry for an aggregated attribute
    EntriesPerBlock,  \* ENTRIES_PER_BLOCK of BlockAlloc
    MaxBlocks,        \* MAX_BLOCKS of BlockAlloc
    DblMax,           \* numeric_limits<double>::max()
    DblMinPos,        \* numeric_limits<double>::min()
    Reentrant,        \* a signal handler may interrupt a running ingest
    MaxIngest,        \* bound on the number of process_snapshot calls
    MaxFlush          \* bound on the number of flushes

ASSUME Keys \subseteq Seq(Bytes) \ {<<>>}
ASSUME NumAggr \in Nat /\ EntriesPerBlock \in Nat \ {0} /\ MaxBlocks \in Nat \ {0}
ASSUME \A v \in Samples : v < DblMax
ASSUME Reentrant \in BOOLEAN

Attrs == 0 .. NumAggr - 1
Contexts == {"normal", "signal"}
\* Blocks 0 .. MaxBlocks - 1, and the slot one past the end of m_blocks.
BlockIdx == 0 .. MaxBlocks
Ids == 0 .. (MaxBlocks + 1) * EntriesPerBlock - 1
Sentinel == -1   \* k_id = 0xFFFFFFFF
Null == -1       \* a null TrieNode*
MaxKeyLen == LET lens == {Len(k) : k \in Keys} IN CHOOSE m \in lens : \A x \in lens : x <= m

NewNode == [next |-> [b \in Bytes |-> 0], k_id |-> Sentinel, count |-> 0]
\* AggregateKernel(): min = max(), max = min() (the least positive double).
NewKernel == [n |-> 0, min |-> DblMax, max |-> DblMinPos, sum |-> 0]

VARIABLES
    tblocks,   \* indices of the allocated blocks of m_trie
    kblocks,   \* indices of the allocated blocks of m_kernels
    nodes,     \* nodes[id]: the TrieNode with that id
    kernels,   \* kernels[id]: the AggregateKernel with that id
    numTrie,   \* m_num_trie_entries
    numKern,   \* m_num_kernel_entries
    numDropped,\* m_num_dropped
    pc,        \* pc[c]: the step context c is at
    snap,      \* snap[c]: the snapshot context c is ingesting
    pos,       \* pos[c]: index of the next key byte in find_entry
    entry,     \* entry[c]: the TrieNode* find_entry is at
    id,        \* id[c]: the local id of find_entry
    reg,       \* reg[c]: a member value loaded and not yet stored
    active,    \* a signal handler is running
    out,       \* the records written by the last flush
    ingests,   \* number of process_snapshot calls started
    flushes    \* number of flushes

vars == <<tblocks, kblocks, nodes, kernels, numTrie, numKern, numDropped,
          pc, snap, pos, entry, id, reg, active, out, ingests, flushes>>
dbVars == <<tblocks, kblocks, nodes, kernels, numTrie, numKern, numDropped>>
ctxVars == <<pc, snap, pos, entry, id, reg>>

Snapshot == [key : Keys, vals : [Attrs -> Samples \cup {NoValue}]]
BlockOf(x) == x \div EntriesPerBlock

(***************************************************************************)
(* BlockAlloc::get(id, alloc) returns an element when the block index is   *)
(* not above MAX_BLOCKS (the test is "block > MAX_BLOCKS", so index        *)
(* MAX_BLOCKS, one past the array, passes) and the block is there or may   *)
(* be allocated.                                                           *)
(***************************************************************************)
GetOk(blocks, x, alloc) ==
    BlockOf(x) <= MaxBlocks /\ (BlockOf(x) \in blocks \/ alloc)

GetBlocks(blocks, x, alloc) ==
    IF GetOk(blocks, x, alloc) THEN blocks \cup {BlockOf(x)} ELSE blocks

\* m_trie.get(x, false) returns an entry.
InTrie(x) == GetOk(tblocks, x, FALSE)

\* alloc = !c->is_signal()
Alloc(c) == c = "normal"

\* The normal context runs only while no handler does.
Running(c) == IF c = "signal" THEN active ELSE ~active

Goto(c, s) == pc' = [pc EXCEPT ![c] = s]

\* process_snapshot returns; a handler that returns ends.
Return(c) ==
    /\ Goto(c, "idle")
    /\ active' = IF c = "signal" THEN FALSE ELSE active

\* find_entry returned null: ++m_num_dropped; return.
Drop(c) ==
    /\ numDropped' = numDropped + 1
    /\ Return(c)

(***************************************************************************)
(* AggregateKernel::add.                                                   *)
(***************************************************************************)
\* Mutant: max is updated with std::min.
KernelAddMinForMax(kn, v) ==
    [n |-> kn.n + 1, min |-> IF v < kn.min THEN v ELSE kn.min,
     max |-> IF v < kn.max THEN v ELSE kn.max, sum |-> kn.sum + v]
KernelAdd(kn, v) ==
    [n |-> kn.n + 1, min |-> IF v < kn.min THEN v ELSE kn.min,
     max |-> IF kn.max < v THEN v ELSE kn.max, sum |-> kn.sum + v]

Init ==
    /\ tblocks = {0} /\ kblocks = {0}   \* the constructor's get(0, true)
    /\ nodes = [x \in Ids |-> NewNode]
    /\ kernels = [x \in Ids |-> NewKernel]
    /\ numTrie = 0 /\ numKern = 0 /\ numDropped = 0
    /\ pc = [c \in Contexts |-> "idle"]
    /\ snap = [c \in Contexts |-> CHOOSE s \in Snapshot : TRUE]
    /\ pos = [c \in Contexts |-> 1]
    /\ entry = [c \in Contexts |-> 0]
    /\ id = [c \in Contexts |-> 0]
    /\ reg = [c \in Contexts |-> 0]
    /\ active = FALSE
    /\ out = {}
    /\ ingests = 0 /\ flushes = 0

(***************************************************************************)
(* process_snapshot_cb calls process_snapshot on the thread, or a signal   *)
(* handler does; the key is built (abstracted to the chosen snapshot).     *)
(***************************************************************************)
ProcessSnapshot(c) ==
    /\ pc[c] = "idle" /\ ingests < MaxIngest
    /\ ~active
    /\ c = "signal" => (Reentrant \/ pc["normal"] = "idle")
    /\ \E s \in Snapshot : snap' = [snap EXCEPT ![c] = s]
    /\ Goto(c, "root")
    /\ active' = (c = "signal")
    /\ ingests' = ingests + 1
    /\ UNCHANGED <<dbVars, pos, entry, id, reg, out, flushes>>

(* find_entry: TrieNode* entry = m_trie.get(0, alloc) *)
FindEntryRoot(c) ==
    /\ pc[c] = "root" /\ Running(c)
    /\ IF GetOk(tblocks, 0, Alloc(c))
         THEN /\ tblocks' = GetBlocks(tblocks, 0, Alloc(c))
              /\ entry' = [entry EXCEPT ![c] = 0]
              /\ pos' = [pos EXCEPT ![c] = 1]
              /\ Goto(c, "read")
              /\ UNCHANGED <<numDropped, active>>
         ELSE /\ Drop(c) /\ UNCHANGED <<tblocks, entry, pos>>
    /\ UNCHANGED <<kblocks, nodes, kernels, numTrie, numKern, snap, id, reg,
                   out, ingests, flushes>>

(* The loop test and uint32_t id = entry->next[key[i]] *)
FindEntryRead(c) ==
    /\ pc[c] = "read" /\ Running(c)
    /\ LET k == snap[c].key IN
       IF pos[c] > Len(k)
         THEN Goto(c, "kcheck") /\ UNCHANGED id
         ELSE LET x == nodes[entry[c]].next[k[pos[c]]] IN
              IF x # 0 THEN Goto(c, "get") /\ id' = [id EXCEPT ![c] = x]
                       ELSE Goto(c, "load") /\ UNCHANGED id
    /\ UNCHANGED <<dbVars, snap, pos, entry, reg, active, out, ingests, flushes>>

(* ++m_num_trie_entries: the load *)
FindEntryLoad(c) ==
    /\ pc[c] = "load" /\ Running(c)
    /\ reg' = [reg EXCEPT ![c] = numTrie + 1]
    /\ Goto(c, "store")
    /\ UNCHANGED <<dbVars, snap, pos, entry, id, active, out, ingests, flushes>>

\* Mutant: id = m_num_trie_entries + 1 is not written back.
StoredCountStale(c) == numTrie
StoredCount(c) == reg[c]

(* ++m_num_trie_entries: the store *)
FindEntryStore(c) ==
    /\ pc[c] = "store" /\ Running(c)
    /\ numTrie' = StoredCount(c)
    /\ Goto(c, "link")
    /\ UNCHANGED <<tblocks, kblocks, nodes, kernels, numKern, numDropped,
                   snap, pos, entry, id, reg, active, out, ingests, flushes>>

(* entry->next[key[i]] = id *)
FindEntryLink(c) ==
    /\ pc[c] = "link" /\ Running(c)
    /\ nodes' = [nodes EXCEPT ![entry[c]].next[snap[c].key[pos[c]]] = reg[c]]
    /\ id' = [id EXCEPT ![c] = reg[c]]
    /\ Goto(c, "get")
    /\ UNCHANGED <<tblocks, kblocks, kernels, numTrie, numKern, numDropped,
                   snap, pos, entry, reg, active, out, ingests, flushes>>

(* entry = m_trie.get(id, alloc); the loop stops on null *)
FindEntryGet(c) ==
    /\ pc[c] = "get" /\ Running(c)
    /\ IF GetOk(tblocks, id[c], Alloc(c))
         THEN /\ tblocks' = GetBlocks(tblocks, id[c], Alloc(c))
              /\ entry' = [entry EXCEPT ![c] = id[c]]
              /\ pos' = [pos EXCEPT ![c] = pos[c] + 1]
              /\ Goto(c, "read")
              /\ UNCHANGED <<numDropped, active>>
         ELSE /\ Drop(c) /\ UNCHANGED <<tblocks, entry, pos>>
    /\ UNCHANGED <<kblocks, nodes, kernels, numTrie, numKern, snap, id, reg,
                   out, ingests, flushes>>
(* if (entry && entry->k_id == 0xFFFFFFFF) { ... if (num_ids > 0)
   first_id = m_num_kernel_entries + 1 *)
FindEntryKCheck(c) ==
    /\ pc[c] = "kcheck" /\ Running(c)
    /\ IF nodes[entry[c]].k_id = Sentinel /\ NumAggr > 0
         THEN Goto(c, "kstore") /\ reg' = [reg EXCEPT ![c] = numKern + 1]
         ELSE Goto(c, "update") /\ UNCHANGED reg
    /\ UNCHANGED <<dbVars, snap, pos, entry, id, active, out, ingests, flushes>>

(* m_num_kernel_entries += num_ids *)
FindEntryKStore(c) ==
    /\ pc[c] = "kstore" /\ Running(c)
    /\ numKern' = numKern + NumAggr
    /\ Goto(c, "kalloc")
    /\ UNCHANGED <<tblocks, kblocks, nodes, kernels, numTrie, numDropped,
                   snap, pos, entry, id, reg, active, out, ingests, flushes>>

(* for each i: if (m_kernels.get(first_id + i, alloc) == 0) return 0.
   With alloc the failing ids are those past MAX_BLOCKS, all above the
   ones that succeed; without it nothing is allocated. *)
FindEntryKAlloc(c) ==
    /\ pc[c] = "kalloc" /\ Running(c)
    /\ LET ids == reg[c] .. reg[c] + NumAggr - 1 IN
       /\ kblocks' = IF Alloc(c)
                       THEN kblocks \cup {BlockOf(x) : x \in {y \in ids : BlockOf(y) <= MaxBlocks}}
                       ELSE kblocks
       /\ IF \A x \in ids : GetOk(kblocks, x, Alloc(c))
            THEN Goto(c, "kset") /\ UNCHANGED <<numDropped, active>>
            ELSE Drop(c)
    /\ UNCHANGED <<tblocks, nodes, kernels, numTrie, numKern, snap, pos,
                   entry, id, reg, out, ingests, flushes>>

(* entry->k_id = first_id *)
FindEntryKSet(c) ==
    /\ pc[c] = "kset" /\ Running(c)
    /\ nodes' = [nodes EXCEPT ![entry[c]].k_id = reg[c]]
    /\ Goto(c, "update")
    /\ UNCHANGED <<tblocks, kblocks, kernels, numTrie, numKern, numDropped,
                   snap, pos, entry, id, reg, active, out, ingests, flushes>>

\* Mutant: the entry's count goes down.
DecrementedCount(n) == n - 1
IncrementedCount(n) == n + 1

(* The kernel of attribute a of a node: m_kernels.get(k_id + a, alloc),
   where k_id + a is far past MAX_BLOCKS when k_id is the sentinel. *)
KernelOk(kid, a, alloc) == kid # Sentinel /\ GetOk(kblocks, kid + a, alloc)

(***************************************************************************)
(* process_snapshot after find_entry: ++entry->count, then k->add(value)   *)
(* for every aggregated attribute the snapshot carries.                    *)
(***************************************************************************)
Update(c) ==
    /\ pc[c] = "update" /\ Running(c)
    /\ LET e    == entry[c]
           kid  == nodes[e].k_id
           vals == snap[c].vals
           hit  == {a \in Attrs : vals[a] # NoValue /\ KernelOk(kid, a, Alloc(c))}
       IN /\ nodes' = [nodes EXCEPT ![e].count = IncrementedCount(@)]
          /\ kernels' = [x \in Ids |->
                           IF \E a \in hit : x = kid + a
                             THEN KernelAdd(kernels[x], vals[CHOOSE a \in hit : x = kid + a])
                             ELSE kernels[x]]
          /\ kblocks' = kblocks \cup {BlockOf(kid + a) : a \in hit}
    /\ Return(c)
    /\ UNCHANGED <<tblocks, numTrie, numKern, numDropped, snap, pos, entry,
                   id, reg, out, ingests, flushes>>

(***************************************************************************)
(* write_aggregated_snapshot: the statistics of attribute a, left out when *)
(* its kernel is empty; the loop over attributes breaks at the first       *)
(* kernel get(k_id + a, false) does not return.                            *)
(***************************************************************************)
NoKernel == [n |-> 0, min |-> 0, max |-> 0, sum |-> 0]

KernelOf(n, a) ==
    LET kid == nodes[n].k_id IN
    IF \E a2 \in 0 .. a : ~KernelOk(kid, a2, FALSE) THEN NoKernel
    ELSE IF kernels[kid + a].n = 0 THEN NoKernel
    ELSE kernels[kid + a]

Record(n, key) ==
    [key |-> key, count |-> nodes[n].count, kern |-> [a \in Attrs |-> KernelOf(n, a)]]

(***************************************************************************)
(* recursive_flush: a record for an entry with count > 0, then every child *)
(* next[i] # 0 that m_trie.get(next[i], false) returns, in byte order.     *)
(* The depth is bounded by the longest key (the code has no bound).        *)
(***************************************************************************)
RECURSIVE Walk(_, _, _)
Walk(n, key, depth) ==
    (IF nodes[n].count > 0 THEN {Record(n, key)} ELSE {})
    \cup (IF depth = 0 THEN {}
          ELSE UNION {Walk(nodes[n].next[b], Append(key, b), depth - 1) :
                        b \in {b2 \in Bytes : nodes[n].next[b2] # 0 /\ InTrie(nodes[n].next[b2])}})

(***************************************************************************)
(* clear(): both BlockAllocs free every block, block 0 included, and the   *)
(* counters are reset.                                                     *)
(***************************************************************************)
ClearDB ==
    /\ tblocks' = {} /\ kblocks' = {}
    /\ nodes' = [x \in Ids |-> NewNode]
    /\ kernels' = [x \in Ids |-> NewKernel]
    /\ numTrie' = 0 /\ numKern' = 0 /\ numDropped' = 0

(***************************************************************************)
(* flush (from flush_cb, with no ingest running on the thread): the walk   *)
(* from m_trie.get(0, false), followed by clear().                         *)
(***************************************************************************)
FlushAndClear ==
    /\ flushes < MaxFlush
    /\ \A c \in Contexts : pc[c] = "idle"
    /\ out' = IF InTrie(0) THEN Walk(0, <<>>, MaxKeyLen) ELSE {}
    /\ ClearDB
    /\ flushes' = flushes + 1
    /\ UNCHANGED <<ctxVars, active, ingests>>

Step(c) ==
    \/ ProcessSnapshot(c)
    \/ FindEntryRoot(c) \/ FindEntryRead(c) \/ FindEntryLoad(c)
    \/ FindEntryStore(c) \/ FindEntryLink(c) \/ FindEntryGet(c)
    \/ FindEntryKCheck(c) \/ FindEntryKStore(c) \/ FindEntryKAlloc(c)
    \/ FindEntryKSet(c) \/ Update(c)

Next == (\E c \in Contexts : Step(c)) \/ FlushAndClear

Spec == Init /\ [][Next]_vars
--------------------------------------------------------------------------------
(***************************************************************************)
(* Refinement: the statistics of key k are those of the node find_entry    *)
(* reaches along k through allocated blocks.                               *)
(***************************************************************************)
RECURSIVE Follow(_, _, _)
Follow(n, k, i) ==
    IF i > Len(k) THEN n
    ELSE LET x == nodes[n].next[k[i]] IN
         IF x = 0 \/ ~InTrie(x) THEN Null ELSE Follow(x, k, i + 1)

PathNode(k) == IF InTrie(0) THEN Follow(0, k, 1) ELSE Null

AbsAgg ==
    [k \in Keys |->
        LET n == PathNode(k) IN
        IF n = Null \/ nodes[n].count = 0
          THEN [count |-> 0, kern |-> [a \in Attrs |-> NoKernel]]
          ELSE [count |-> nodes[n].count, kern |-> [a \in Attrs |-> KernelOf(n, a)]]]

\* A context hands its snapshot in when process_snapshot starts.
Taken == [c \in Contexts |-> IF pc[c] = "idle" THEN {} ELSE {snap[c]}]

Abs == INSTANCE AggregateSpec
         WITH agg <- AbsAgg, taken <- Taken, dropped <- numDropped, Callers <- Contexts

TypeOK ==
    /\ tblocks \subseteq BlockIdx /\ kblocks \subseteq BlockIdx
    /\ \A x \in Ids : nodes[x].count \in Nat /\ nodes[x].k_id \in Ids \cup {Sentinel}
                      /\ \A b \in Bytes : nodes[x].next[b] \in Nat
    /\ numTrie \in Nat /\ numKern \in Nat /\ numDropped \in Nat
    /\ pc \in [Contexts -> {"idle", "root", "read", "load", "store", "link",
                            "get", "kcheck", "kstore", "kalloc", "kset", "update"}]
    /\ snap \in [Contexts -> Snapshot]
    /\ active \in BOOLEAN

(* Every snapshot process_snapshot is called with, from the thread or from
   a signal handler, is either absorbed in the step that returns, counted
   under its own key with its own values folded into that key's min, max
   and sum, or dropped and counted in m_num_dropped, and nothing else
   changes the statistics; every flush writes exactly the records of what
   was absorbed since the last clear. *)
AggregateRefinement == Abs!Spec

(* The trie is a tree: ++m_num_trie_entries hands every new link a fresh
   id, so no two links of the allocated nodes lead to the same node. *)
Links == {<<x, b>> : x \in {y \in Ids : InTrie(y)}, b \in Bytes}
TrieIsTree ==
    \A l1, l2 \in Links :
        l1 # l2 /\ nodes[l1[1]].next[l1[2]] # 0
            => nodes[l1[1]].next[l1[2]] # nodes[l2[1]].next[l2[2]]

(* BlockAlloc::get only hands out entries of m_blocks[0 .. MAX_BLOCKS-1]. *)
BlockIndexInRange == tblocks \cup kblocks \subseteq 0 .. MaxBlocks - 1
================================================================================
