------------------------------ MODULE KeyCodec ------------------------------
(***************************************************************************)
(* The aggregation key of the aggregate service (Aggregate.cpp):           *)
(* AggregateDB::process_snapshot builds a byte key from a snapshot         *)
(* (lines 362-492), write_aggregated_snapshot decodes it again at flush    *)
(* (lines 252-277), and create_attribute_cb / post_init_cb fill in the     *)
(* key attribute id vector the two read (lines 657-683).                   *)
(*                                                                         *)
(* A key is a sequence of LEB128 varints.  The model keeps the varints as  *)
(* tokens and the bytes only as lengths: a 64-bit word is the set of its   *)
(* set bit positions, so that a value of 10 bytes (bit 63) is as easy to   *)
(* write as a value of one, and Width(w) is the length vlenc_u64 gives it. *)
(* Every length test of the code is kept; so is the int shift 1 << k the   *)
(* code builds its bitfields with.                                         *)
(***************************************************************************)
EXTENDS Integers, Sequences, FiniteSets, FiniteSetsExt, SequencesExt, TLC

CONSTANTS
    MaxKeyLen,    \* MAX_KEYLEN (128 in the code)
    SnapMax,      \* SNAP_MAX (80 in the code)
    KeyNames,     \* s_key_attribute_names, the "key" configuration, in order
    Names,        \* names of attributes the program may create
    Inv,          \* CALI_INV_ID
    Inputs        \* snapshots the program may push (see Snapshot below)

ASSUME /\ MaxKeyLen \in Nat /\ SnapMax \in Nat
       /\ KeyNames \in Seq(Names) /\ Inv \notin Names

(* A snapshot record as process_snapshot sees it: its context-tree node    *)
(* ids, its immediate (attribute, value) entries, and, for the key         *)
(* attribute path of lines 375-431, whether a key attribute was found on   *)
(* the nodes' parent chains (tot_entries > 0), whether make_tree_entry     *)
(* succeeded, and the id of the node it returns.                           *)
Word == SUBSET (0..63)
Snapshot == [nodes : Seq(Word), imm : Seq([a : Names, v : Word]),
             found : BOOLEAN, made : BOOLEAN, synth : Word]

K == Len(KeyNames)

VARIABLES
    keyIds,     \* s_key_attribute_ids
    created,    \* attributes the runtime has created so far
    phase,      \* "idle", "stored" (a key is in the trie), "flushed"
    snap,       \* the snapshot last processed
    key,        \* the key it was stored under
    enc,        \* what the encoder put into it: node ids and immediates
    maxw,       \* the furthest byte of imm_key the encoder has written
    dec         \* what write_aggregated_snapshot decoded from the key

vars == <<keyIds, created, phase, snap, key, enc, maxw, dec>>

-----------------------------------------------------------------------------
(* Words and varints.                                                     *)

\* vlenc_u64: the number of bytes of the LEB128 encoding of w.
Width(w) == IF w = {} THEN 1 ELSE Max(w) \div 7 + 1

\* The numeric order of two words (std::sort on node ids).
WordLess(a, b) == SymDiff(a, b) # {} /\ Max(SymDiff(a, b)) \in b

RECURSIVE Bits(_)
\* The word of a natural number.
Bits(x) == IF x = 0 THEN {}
           ELSE (IF x % 2 = 1 THEN {0} ELSE {}) \cup {i + 1 : i \in Bits(x \div 2)}

\* The number of a word, for words that fit a TLC integer (the toc).
Num(w) == FoldSet(LAMBDA i, acc : acc + 2^i, 0, w)

\* The uint64 value of the int expression 1 << k: bit k for k < 31; for
\* k = 31 the int is INT_MIN and converts to bits 31..63; for k >= 32 the
\* shift is undefined and x86-64 and AArch64 shift by k mod 32.
Shift(k) == IF k % 32 < 31 THEN {k % 32} ELSE 31..63

\* Total length of a sequence of varints.
SeqWidth(s) == FoldLeft(LAMBDA acc, w : acc + Width(w), 0, s)

-----------------------------------------------------------------------------
(* AggregateDB::process_snapshot, the key builder.                        *)

\* Lines 362-443: the node ids of the key.  With some valid key attribute
\* and some node, the single node make_tree_entry synthesizes for the path
\* of key attribute nodes (none when there is no such node or it fails);
\* otherwise all nodes of the snapshot, sorted.
NodeIds(s, ids) ==
    IF \E k \in 1..K : ids[k] # Inv
       /\ Len(s.nodes) > 0
    THEN IF s.found /\ s.made THEN <<s.synth>> ELSE <<>>
    ELSE SortSeq(s.nodes, WordLess)

RECURSIVE NodeKey(_, _)
\* Lines 449-455: encode node ids while node_key_len + 10 < MAX_KEYLEN.
NodeKey(ns, len) ==
    IF ns = <<>> \/ len + 10 >= MaxKeyLen THEN <<>>
    ELSE <<Head(ns)>> \o NodeKey(Tail(ns), len + Width(Head(ns)))

\* A fit test that leaves the value itself out of the length.
ImmFitsNoValue(nodeLen, st, p, k) ==
    nodeLen + st.len + Width(st.bits \cup Shift(k)) + 1 < MaxKeyLen

\* Line 472: the immediate fits when the key with it, the bitfield with
\* bit k and one byte of slack stays below MAX_KEYLEN.
ImmFits(nodeLen, st, p, k) ==
    nodeLen + st.len + p + Width(st.bits \cup Shift(k)) + 1 < MaxKeyLen

RECURSIVE ImmScan(_, _, _, _, _)
\* Lines 463-477, the inner loop over the snapshot's immediates for key
\* attribute k, taken over the values es of the entries of that attribute
\* in snapshot order (an entry of another attribute changes nothing): each
\* is encoded into imm_key at imm_key_len (line 469) and then committed,
\* or the loop breaks (line 473).
ImmScan(st, es, a, k, nodeLen) ==
    IF es = <<>> THEN st
    ELSE LET v  == Head(es)
             p  == Width(v)
             st1 == [st EXCEPT !.maxw = Max({@, st.len + p})]
         IN  IF ~ImmFits(nodeLen, st, p, k - 1) THEN st1
             ELSE ImmScan([st1 EXCEPT !.bits = @ \cup Shift(k - 1),
                                      !.len  = @ + p,
                                      !.vals = Append(@, <<a, v>>)],
                          Tail(es), a, k, nodeLen)

\* The values of the immediates of attribute a, in snapshot order.
ValuesOfAttr(s, a) ==
    LET es == SelectSeq(s.imm, LAMBDA e : e.a = a)
    IN  [j \in 1..Len(es) |-> es[j].v]

RECURSIVE ImmKey(_, _, _, _, _)
\* Lines 457-478, the outer loop over the key attributes in order.  The
\* state after attribute k is computed before the loop goes on (the test
\* on it is always true), so that TLC does not build a chain of pending
\* evaluations K deep.
ImmKey(st, s, ids, k, nodeLen) ==
    IF k > K THEN st
    ELSE LET nx == ImmScan(st, ValuesOfAttr(s, ids[k]), ids[k], k, nodeLen)
         IN  IF nx.len >= 0 THEN ImmKey(nx, s, ids, k + 1, nodeLen) ELSE nx

\* A toc that counts the nodes only.
AssembleNoFlag(nids, nodeKey, st) ==
    <<Bits(2 * Len(nids))>>
    \o nodeKey
    \o (IF st.bits # {} THEN <<st.bits>> \o [j \in 1..Len(st.vals) |-> st.vals[j][2]]
        ELSE <<>>)

\* Lines 480-489: toc = 2 * n_nodes + (bitfield ? 1 : 0), the node ids,
\* then, with a bitfield, the bitfield and the immediate values.
Assemble(nids, nodeKey, st) ==
    <<Bits(2 * Len(nids) + (IF st.bits # {} THEN 1 ELSE 0))>>
    \o nodeKey
    \o (IF st.bits # {} THEN <<st.bits>> \o [j \in 1..Len(st.vals) |-> st.vals[j][2]]
        ELSE <<>>)

\* The whole encoder: key, what it encoded, and how far imm_key was written.
Encode(s, ids) ==
    LET nids == NodeIds(s, ids)
        nk   == NodeKey(nids, 0)
        st   == ImmKey([bits |-> {}, len |-> 0, vals |-> <<>>, maxw |-> 0],
                       s, ids, 1, SeqWidth(nk))
    IN  [key |-> Assemble(nids, nk, st), nodes |-> nk, imm |-> st.vals,
         maxw |-> st.maxw, ids |-> ids]

-----------------------------------------------------------------------------
(* AggregateDB::write_aggregated_snapshot, the key decoder (lines         *)
(* 252-277).  A read past the end of the key reads the bytes the flush's  *)
(* key buffer still holds there; the model reads a zero.                  *)

Decode(k, ids) ==
    LET Read(p) == IF p <= Len(k) THEN k[p] ELSE {}
        toc  == Num(Read(1))
        n    == Min({toc \div 2, SnapMax})
        bits == Read(n + 2)
        ks   == SelectSeq([j \in 1..K |-> j], LAMBDA j : Shift(j - 1) \cap bits # {})
    IN  [nodes |-> [i \in 1..n |-> Read(1 + i)],
         imm   |-> IF toc % 2 = 1
                   THEN [j \in 1..Len(ks) |-> <<ids[ks[j]], Read(n + 2 + j)>>]
                   ELSE <<>>]

-----------------------------------------------------------------------------
(* The operations.                                                        *)

\* init_static_data (lines 727-747): the key attribute ids start out invalid.
Init == /\ keyIds = [k \in 1..K |-> Inv]
        /\ created = {}
        /\ phase = "idle"
        /\ snap = CHOOSE s \in Inputs : TRUE
        /\ key = <<>>
        /\ enc = [key |-> <<>>, nodes |-> <<>>, imm |-> <<>>, maxw |-> 0,
                  ids |-> keyIds]
        /\ maxw = 0
        /\ dec = [nodes |-> <<>>, imm |-> <<>>]

\* post_init_cb (lines 661-669): every key attribute that exists by now.
PostInit == /\ keyIds' = [k \in 1..K |-> IF KeyNames[k] \in created
                                         THEN KeyNames[k] ELSE keyIds[k]]
            /\ UNCHANGED <<created, phase, snap, key, enc, maxw, dec>>

\* An update that appends the id instead of storing it at its index.
CreateAttributeAppend(n) ==
    /\ n \notin created
    /\ created' = created \cup {n}
    /\ keyIds' = IF \E k \in 1..K : KeyNames[k] = n THEN Append(keyIds, n) ELSE keyIds
    /\ UNCHANGED <<phase, snap, key, enc, maxw, dec>>

\* create_attribute_cb (lines 672-683): std::find picks the first key
\* attribute of that name.
CreateAttribute(n) ==
    /\ n \notin created
    /\ created' = created \cup {n}
    /\ keyIds' = IF \E k \in 1..K : KeyNames[k] = n
                 THEN LET k0 == Min({k \in 1..K : KeyNames[k] = n})
                      IN  [keyIds EXCEPT ![k0] = n]
                 ELSE keyIds
    /\ UNCHANGED <<phase, snap, key, enc, maxw, dec>>

\* process_snapshot (lines 352-492) up to the trie: the early return of
\* line 355 for an empty snapshot, then the key.  A snapshot carries only
\* attributes that exist.  The model keeps one key in the trie and flushes
\* it before the next one is stored.
ProcessSnapshot(s) ==
    /\ phase # "stored"
    /\ Len(s.nodes) + Len(s.imm) > 0
    /\ \A i \in 1..Len(s.imm) : s.imm[i].a \in created
    /\ LET e == Encode(s, keyIds)
       IN  /\ snap' = s
           /\ key' = e.key
           /\ enc' = e
           /\ maxw' = e.maxw
    /\ phase' = "stored"
    /\ UNCHANGED <<keyIds, created, dec>>

\* flush: recursive_flush hands the stored key to write_aggregated_snapshot.
Flush == /\ phase = "stored"
         /\ dec' = Decode(key, keyIds)
         /\ phase' = "flushed"
         /\ UNCHANGED <<keyIds, created, snap, key, enc, maxw>>

Next == \/ PostInit
        \/ \E n \in Names : CreateAttribute(n)
        \/ \E s \in Inputs : ProcessSnapshot(s)
        \/ Flush

Spec == Init /\ [][Next]_vars

-----------------------------------------------------------------------------
(* The spec's key builder (spec.md 4E step 2), the reference the encoder  *)
(* is compared with: for each key attribute in order, the first immediate *)
(* of that attribute, stopping at the first one that does not fit.        *)

RECURSIVE SpecImm(_, _, _, _, _)
SpecImm(st, s, ids, k, nodeLen) ==
    IF k > K THEN st
    ELSE LET m == {i \in 1..Len(s.imm) : s.imm[i].a = ids[k]}
         IN  IF m = {} THEN SpecImm(st, s, ids, k + 1, nodeLen)
             ELSE LET v == s.imm[Min(m)].v
                      p == Width(v)
                  IN  IF ~ImmFits(nodeLen, st, p, k - 1) THEN st
                      ELSE SpecImm([st EXCEPT !.bits = @ \cup {k - 1},
                                              !.len  = @ + p,
                                              !.vals = Append(@, <<ids[k], v>>)],
                                   s, ids, k + 1, nodeLen)

-----------------------------------------------------------------------------
(* Properties.                                                            *)

TypeOK ==
    /\ keyIds \in [1..K -> Names \cup {Inv}]
    /\ created \subseteq Names
    /\ phase \in {"idle", "stored", "flushed"}
    /\ snap \in Inputs
    /\ key \in Seq(Word)
    /\ maxw \in Nat
    /\ dec.nodes \in Seq(Word)

\* The key process_snapshot assembles in key[MAX_KEYLEN] (lines 480-489)
\* fits the buffer, whatever the node and immediate loops let through.
KeyInBounds == phase # "idle" => SeqWidth(key) <= MaxKeyLen

\* The immediate loop writes each candidate value into imm_key[MAX_KEYLEN]
\* at imm_key_len (line 469) before it checks that the value fits (line
\* 472): those writes stay inside the buffer.
ImmWriteInBounds == maxw <= MaxKeyLen

\* Spec 8.2: write_aggregated_snapshot decodes from a stored key exactly
\* the node ids and the immediate entries process_snapshot encoded into it,
\* whichever attributes were created between the two.
RoundTrip == phase = "flushed" => /\ dec.nodes = enc.nodes
                                  /\ dec.imm = enc.imm

\* Spec 4E step 2: the immediates in a key are those of the spec's key
\* builder, which stops at the first immediate that does not fit.
ImmediatesAsSpecified ==
    phase # "idle" =>
        enc.imm = SpecImm([bits |-> {}, len |-> 0, vals |-> <<>>, maxw |-> 0],
                          snap, enc.ids, 1, SeqWidth(enc.nodes))
=============================================================================
