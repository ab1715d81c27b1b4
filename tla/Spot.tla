-------------------------------- MODULE Spot --------------------------------
(***************************************************************************)
(* The Spot service (Spot.cpp).  Each Caliper flush runs pre_write_cb,    *)
(* then write_snapshot_cb for every flushed snapshot, then post_write_cb. *)
(* pre_write_cb appends, for each "annotation:file" entry of the config,  *)
(* an empty JSON list, an Aggregator query "SELECT a, sum(t) WHERE a, t   *)
(* GROUP BY a" and the (annotation, file) pair to three static vectors;  *)
(* write_snapshot_cb adds the snapshot to every query; post_write_cb      *)
(* flushes query i into JSON list i and then, for every list i, reads the *)
(* file of entry i, appends each (name, value) of the list to the series  *)
(* of that name when the file's "series" array names it, and writes the  *)
(* file back.                                                             *)
(*                                                                         *)
(* The Aggregator is Caliper's reader library, outside this repository.   *)
(* The model gives it the semantics of its query: a sum of durations per  *)
(* value of the annotation, over the snapshots that carry the annotation, *)
(* emitted in ascending order; and it empties it at flush, the most       *)
(* favourable choice for Spot.  A file is absent or empty, the text       *)
(* "null", or a JSON object with a "series" array and one data array per  *)
(* series; a data point [0, v / divisor] is kept as v.                    *)
(***************************************************************************)
EXTENDS Integers, Sequences, FiniteSets, SequencesExt, Functions, TLC

CONSTANTS
    Annots,     \* annotation attributes (the grouping of a query)
    Groups,     \* values of annotations, 1..G (0: the snapshot lacks it)
    Places,     \* file names
    Config,     \* the "config" entries: a sequence of <<annotation, place>>
    InitFiles,  \* the files before the program runs
    Durations,  \* values of time.inclusive.duration
    MaxCycles,  \* bound on the number of Caliper flushes
    MaxSnaps    \* bound on the snapshots written per flush

File == [kind : {"empty", "null", "doc"}, series : SUBSET Groups,
         data : [Groups -> Seq(Nat)]]
SnapshotRec == [vals : [Annots -> Groups \cup {0}], dur : Durations]

ASSUME /\ Groups \subseteq Nat \ {0}
       /\ Config \in Seq(Annots \X Places)
       /\ InitFiles \in [Places -> File]

VARIABLES
    instance,    \* s_instance # nullptr
    queries,     \* m_queries: per query its annotation and its sums
    annPlaces,   \* m_annotations_and_places
    jsons,       \* m_jsons: per query a list of <<name, value>>
    files,       \* the contents of every file
    aborted,     \* the process has failed a rapidjson assertion
    phase,       \* "idle", or "writing" between pre_write and post_write
    cycle,       \* flushes begun
    fed          \* the snapshots written in the current flush

vars == <<instance, queries, annPlaces, jsons, files, aborted, phase, cycle, fed>>

NoSums == [g \in Groups |-> 0]
NullFile == [kind |-> "null", series |-> {}, data |-> [g \in Groups |-> <<>>]]

-----------------------------------------------------------------------------
(* The Aggregator of a query.                                             *)

\* An add without the WHERE clause: snapshots that lack the annotation are
\* summed under an empty value.
AggAddNoWhere(q, s) ==
    LET g == s.vals[q.annot]
    IN  [q EXCEPT !.agg = (g :> (IF g \in DOMAIN @ THEN @[g] ELSE 0) + s.dur) @@ @]

\* Aggregator::add for "WHERE a, t GROUP BY a": sum the duration per value.
AggAdd(q, s) == IF s.vals[q.annot] = 0 THEN q
                ELSE [q EXCEPT !.agg[s.vals[q.annot]] = @ + s.dur]

\* Aggregator::flush: one record per group, ascending.
AggRecords(q) ==
    LET gs == SetToSortSeq({g \in Groups : q.agg[g] > 0}, <)
    IN  [j \in 1..Len(gs) |-> <<gs[j], q.agg[gs[j]]>>]

-----------------------------------------------------------------------------
(* Spot::flush, the file update.                                          *)

\* The values of the records of a list named g, in order.
ValuesOf(json, g) ==
    LET sel == SelectSeq(json, LAMBDA d : d[1] = g)
    IN  [j \in 1..Len(sel) |-> sel[j][2]]

\* Lines 122-134: every datum whose name is in doc["series"] is appended
\* to the array of that name.
AppendData(f, json) ==
    [f EXCEPT !.data = [g \in Groups |->
                          IF g \in f.series THEN @[g] \o ValuesOf(json, g)
                          ELSE @[g]]]

RECURSIVE WriteFilesStale(_, _, _)
\* A file loop that reads every file as it was before the loop.
WriteFilesStale(st, js, i) ==
    IF i > Len(js) \/ st.aborted THEN st
    ELSE LET P == annPlaces[i][2]
             f == files[P]
         IN  CASE f.kind = "empty" -> WriteFilesStale([st EXCEPT !.files[P] = NullFile], js, i + 1)
               [] f.kind = "null"  -> [st EXCEPT !.aborted = TRUE]
               [] OTHER            -> WriteFilesStale([st EXCEPT !.files[P] = AppendData(f, js[i])],
                                                      js, i + 1)

RECURSIVE WriteFiles(_, _, _)
\* Lines 113-144: for list i, read the file of entry i.  An empty file is
\* written back as what Accept writes for a document that only ran
\* StartObject, the text null; doc["series"] on a document that is not an
\* object fails a rapidjson assertion.
WriteFiles(st, js, i) ==
    IF i > Len(js) \/ st.aborted THEN st
    ELSE LET P == annPlaces[i][2]
             f == st.files[P]
         IN  CASE f.kind = "empty" -> WriteFiles([st EXCEPT !.files[P] = NullFile], js, i + 1)
               [] f.kind = "null"  -> [st EXCEPT !.aborted = TRUE]
               [] OTHER            -> WriteFiles([st EXCEPT !.files[P] = AppendData(f, js[i])],
                                                 js, i + 1)

-----------------------------------------------------------------------------
(* The callbacks.                                                         *)

Init == /\ instance = FALSE
        /\ queries = <<>>
        /\ annPlaces = <<>>
        /\ jsons = <<>>
        /\ files = InitFiles
        /\ aborted = FALSE
        /\ phase = "idle"
        /\ cycle = 0
        /\ fed = <<>>

\* pre_write_cb (lines 166-206): one list, one query and one pair per
\* config entry appended to the static vectors, then a new s_instance.
PreWrite ==
    /\ phase = "idle" /\ ~aborted /\ cycle < MaxCycles
    /\ jsons' = jsons \o [j \in 1..Len(Config) |-> <<>>]
    /\ queries' = queries \o [j \in 1..Len(Config) |-> [annot |-> Config[j][1], agg |-> NoSums]]
    /\ annPlaces' = annPlaces \o Config
    /\ instance' = TRUE
    /\ phase' = "writing"
    /\ cycle' = cycle + 1
    /\ fed' = <<>>
    /\ UNCHANGED <<files, aborted>>

\* write_snapshot_cb and Spot::process_snapshot (lines 81-85, 208-213).
WriteSnapshot(s) ==
    /\ phase = "writing" /\ Len(fed) < MaxSnaps
    /\ instance
    /\ queries' = [i \in DOMAIN queries |-> AggAdd(queries[i], s)]
    /\ fed' = Append(fed, s)
    /\ UNCHANGED <<instance, annPlaces, jsons, files, aborted, phase, cycle>>

\* post_write_cb and Spot::flush (lines 87-145, 215-220): query i is
\* flushed into list i, which is never emptied; then every list is
\* written to its file.
PostWrite ==
    /\ phase = "writing"
    /\ instance
    /\ LET js == [i \in DOMAIN jsons |-> jsons[i] \o AggRecords(queries[i])]
           st == WriteFiles([files |-> files, aborted |-> FALSE], js, 1)
       IN  /\ jsons' = js
           /\ files' = st.files
           /\ aborted' = st.aborted
    /\ queries' = [i \in DOMAIN queries |-> [queries[i] EXCEPT !.agg = NoSums]]
    /\ phase' = "idle"
    /\ UNCHANGED <<instance, annPlaces, cycle, fed>>

Next == \/ PreWrite
        \/ \E s \in SnapshotRec : WriteSnapshot(s)
        \/ PostWrite

Spec == Init /\ [][Next]_vars

-----------------------------------------------------------------------------
(* Properties.                                                            *)

TypeOK ==
    /\ instance \in BOOLEAN
    /\ queries \in Seq([annot : Annots, agg : [Groups -> Nat]])
    /\ annPlaces \in Seq(Annots \X Places)
    /\ jsons \in Seq(Seq(Groups \X Nat))
    /\ files \in [Places -> File]
    /\ aborted \in BOOLEAN
    /\ phase \in {"idle", "writing"}
    /\ cycle \in 0..MaxCycles
    /\ fed \in Seq(SnapshotRec)

SumSeq(s) == FoldLeft(LAMBDA acc, v : acc + v, 0, s)

\* The duration a flush should add to series g of file P: what the
\* snapshots of this flush carry for g, once for every config entry whose
\* annotation is written to P.
Expected(P, g) ==
    LET entries == {e \in ToSet(Config) : e[2] = P}
    IN  MapThenSumSet(LAMBDA e : FoldLeft(LAMBDA acc, s : acc + (IF s.vals[e[1]] = g THEN s.dur ELSE 0), 0, fed),
                      entries)

\* What a post_write step added to series g of file P.
Gain(P, g) == SumSeq(files'[P].data[g]) - SumSeq(files[P].data[g])

PostWriteStep == phase = "writing" /\ phase' = "idle" /\ ~aborted'

\* post_write_cb loses no data: for every file that is a JSON document and
\* every series it names, the points one flush appends carry at least the
\* durations the snapshots of that flush recorded for it, also when two
\* config entries read, extend and write the same file in turn.
NoRecordLost ==
    [][PostWriteStep =>
         \A P \in Places, g \in Groups :
            files[P].kind = "doc" /\ g \in files[P].series => Gain(P, g) >= Expected(P, g)]_vars

\* The "config" entries name the files "in which to dump Spot data": each
\* flush adds to each series exactly the durations of that flush.
ExactlyOnce ==
    [][PostWriteStep =>
         \A P \in Places, g \in Groups :
            files[P].kind = "doc" /\ g \in files[P].series => Gain(P, g) = Expected(P, g)]_vars

\* Spot never aborts on the contents of a file, including a file it wrote
\* itself at an earlier flush.
NoAbort == ~aborted
=============================================================================
