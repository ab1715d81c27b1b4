--------------------------------- MODULE Sos ---------------------------------
(***************************************************************************)
(* The SOS publishing service (Sos.cpp).  The "trigger_attr" config names *)
(* an attribute; post_init_cb looks it up and create_attr_cb catches it   *)
(* when it is created later.  When a region of the trigger attribute ends *)
(* (pre_end_cb), the service pulls a snapshot of the thread and process  *)
(* scope, packs every attribute of it under a fresh snapshot id into its *)
(* SOS publication handle, publishes the handle and clears Caliper's     *)
(* buffers.  pack_snapshot packs a string attribute as its values joined  *)
(* into one path string, a numeric or double one as its first value (the  *)
(* double case falls through to an empty default).                        *)
(*                                                                         *)
(* A string is a sequence of tokens: a value is one token and "/" another.*)
(***************************************************************************)
EXTENDS Integers, Sequences, FiniteSets, SequencesExt

CONSTANTS
    Threads,       \* threads that annotate
    Attrs,         \* attribute names
    TypeOf,        \* their types: "string", "int", "double"
    TriggerName,   \* the "trigger_attr" config value
    Snapshots,     \* unpacked snapshots a pull may return: attr -> values
    MaxDepth,      \* bound on the nesting of a thread's regions
    MaxPublish     \* bound on the publications

Invalid == "invalid"   \* Attribute::invalid

ASSUME /\ TypeOf \in [Attrs -> {"string", "int", "double"}]
       /\ TriggerName \in Attrs /\ Invalid \notin Attrs

VARIABLES
    created,      \* the attributes Caliper has created
    initDone,     \* post_init has run
    triggerAttr,  \* trigger_attr
    open,         \* per thread, the attributes it has begun and not ended
    snapshotId,   \* the atomic snapshot_id
    published     \* what SOS_publish has sent: [id, vals] per snapshot

vars == <<created, initDone, triggerAttr, open, snapshotId, published>>

-----------------------------------------------------------------------------
(* pack_snapshot (lines 45-78).                                           *)

\* One step of the string loop: append v, then "/" unless the string is
\* empty.  The code writes pubstr.append(v).append(pubstr.empty() ? "" :
\* "/"); before C++17 the test may be evaluated before or after the first
\* append, so a step has two outcomes.
JoinStep(acc, v) == { acc \o <<v>> \o (IF acc \o <<v>> = <<>> THEN <<>> ELSE <<"/">>),
                      acc \o <<v>> \o (IF acc = <<>> THEN <<>> ELSE <<"/">>) }

RECURSIVE PackStrings(_, _)
\* Lines 49-56: the strings the loop over the values can produce.
PackStrings(acc, vals) ==
    IF vals = <<>> THEN {acc}
    ELSE UNION {PackStrings(a, Tail(vals)) : a \in JoinStep(acc, Head(vals))}

\* The packed value of an attribute: the path string of a string
\* attribute, the front value of any other.
Packings(a, vals) ==
    IF TypeOf[a] = "string" THEN {<<a, s>> : s \in PackStrings(<<>>, vals)}
    ELSE {<<a, <<Head(vals)>>>>}

\* Every way of packing an unpacked snapshot: one packed value per
\* attribute.
Packs(snap) ==
    {p \in [DOMAIN snap -> UNION {{s[2] : s \in Packings(a, snap[a])} : a \in DOMAIN snap}] :
        \A a \in DOMAIN snap : <<a, p[a]>> \in Packings(a, snap[a])}

-----------------------------------------------------------------------------
(* The callbacks.                                                         *)

Init == /\ created = {}
        /\ initDone = FALSE
        /\ triggerAttr = Invalid
        /\ open = [t \in Threads |-> <<>>]
        /\ snapshotId = 0
        /\ published = <<>>

\* A create_attr that takes any new attribute as the trigger.
CreateAttrAny(n) ==
    /\ n \notin created
    /\ created' = created \cup {n}
    /\ triggerAttr' = n
    /\ UNCHANGED <<initDone, open, snapshotId, published>>

\* create_attr_cb (lines 106-109): an attribute of the trigger's name
\* becomes the trigger.
CreateAttr(n) ==
    /\ n \notin created
    /\ created' = created \cup {n}
    /\ triggerAttr' = IF n = TriggerName THEN n ELSE triggerAttr
    /\ UNCHANGED <<initDone, open, snapshotId, published>>

\* post_init_cb (lines 194-214): trigger_attr is looked up by name.
PostInit ==
    /\ ~initDone
    /\ initDone' = TRUE
    /\ triggerAttr' = IF TriggerName \in created THEN TriggerName ELSE Invalid
    /\ UNCHANGED <<created, open, snapshotId, published>>

\* A thread begins a region of an attribute after Caliper's
\* initialization; post_begin_cb pulls a snapshot and drops it (lines
\* 112-119).
Begin(t, a) ==
    /\ initDone /\ a \in created /\ Len(open[t]) < MaxDepth
    /\ open' = [open EXCEPT ![t] = Append(@, a)]
    /\ UNCHANGED <<created, initDone, triggerAttr, snapshotId, published>>

\* A pre_end that packs under snapshot_id++, the id before the increment.
PreEndPostIncrement(t) ==
    /\ open[t] # <<>>
    /\ open' = [open EXCEPT ![t] = Front(@)]
    /\ IF triggerAttr # Invalid /\ Last(open[t]) = triggerAttr
       THEN /\ Len(published) < MaxPublish
            /\ snapshotId' = snapshotId + 1
            /\ \E snap \in Snapshots : \E p \in Packs(snap) :
                  published' = Append(published, [id |-> snapshotId, snap |-> snap, vals |-> p])
       ELSE UNCHANGED <<snapshotId, published>>
    /\ UNCHANGED <<created, initDone, triggerAttr>>

\* pre_end_cb (lines 121-171) for the innermost region of the thread:
\* for the trigger attribute, pull a snapshot, pack it under
\* ++snapshot_id, publish, clear.
PreEnd(t) ==
    /\ open[t] # <<>>
    /\ open' = [open EXCEPT ![t] = Front(@)]
    /\ IF triggerAttr # Invalid /\ Last(open[t]) = triggerAttr
       THEN /\ Len(published) < MaxPublish
            /\ snapshotId' = snapshotId + 1
            /\ \E snap \in Snapshots : \E p \in Packs(snap) :
                  published' = Append(published, [id |-> snapshotId + 1, snap |-> snap, vals |-> p])
       ELSE UNCHANGED <<snapshotId, published>>
    /\ UNCHANGED <<created, initDone, triggerAttr>>

Next == \/ \E n \in Attrs : CreateAttr(n)
        \/ PostInit
        \/ \E t \in Threads : \/ \E a \in Attrs : Begin(t, a)
                              \/ PreEnd(t)

Spec == Init /\ [][Next]_vars

-----------------------------------------------------------------------------
(* Properties.                                                            *)

TypeOK ==
    /\ created \subseteq Attrs
    /\ initDone \in BOOLEAN
    /\ triggerAttr \in Attrs \cup {Invalid}
    /\ open \in [Threads -> Seq(Attrs)]
    /\ snapshotId \in 0..MaxPublish
    /\ \A i \in 1..Len(published) : published[i].id \in 1..MaxPublish
                                    /\ published[i].snap \in Snapshots

\* The path a string attribute should be published as: its values
\* separated by "/".
JoinPath(vals) ==
    IF vals = <<>> THEN <<>>
    ELSE FoldLeft(LAMBDA acc, v : acc \o <<"/", v>>, <<Head(vals)>>, Tail(vals))

\* The note in post_init_cb: the trigger attribute is found whether it is
\* created before post_init (the lookup) or after it (create_attr_cb), and
\* no other attribute created later replaces it.
TriggerResolved ==
    initDone /\ TriggerName \in created => triggerAttr = TriggerName

\* pack_snapshot publishes a string attribute (a nested region path such
\* as function = main/solve) as its values joined by "/".
PathPublished ==
    \A i \in 1..Len(published) :
        \A a \in DOMAIN published[i].vals :
            TypeOf[a] = "string" => published[i].vals[a] = JoinPath(published[i].snap[a])
=============================================================================
