----------------------------- MODULE AggregateSpec -----------------------------
(***************************************************************************)
(* What a per-thread aggregation database promises (spec sections 3, 4C,   *)
(* 4F and 8): for every encoded key, the number of snapshots absorbed with *)
(* that key and, per aggregated attribute, the min, max and sum of the     *)
(* values those snapshots carried; a flush writes one record per key that  *)
(* absorbed a snapshot and empties the database.  A caller hands in one    *)
(* snapshot at a time; it is either absorbed under its own key with its    *)
(* own values, or dropped, which changes nothing but the drop count.       *)
(***************************************************************************)
EXTENDS Integers

CONSTANTS
    Keys,     \* encoded keys
    Attrs,    \* indices of the aggregated attributes
    Samples,  \* values an aggregated attribute can carry
    NoValue,  \* the snapshot has no entry for that attribute
    Callers   \* who hands in snapshots (the thread, a signal handler)

VARIABLES
    agg,     \* agg[k]: the statistics of key k
    out,     \* the records written by the last flush
    taken,   \* taken[c]: {} or the one snapshot caller c handed in
    dropped  \* snapshots dropped since the last flush

\* A statistic that has absorbed no value.
NoKernel == [n |-> 0, min |-> 0, max |-> 0, sum |-> 0]
NoStat == [count |-> 0, kern |-> [a \in Attrs |-> NoKernel]]

Lesser(x, y) == IF x <= y THEN x ELSE y
Greater(x, y) == IF x >= y THEN x ELSE y

AddValue(kn, v) ==
    IF kn.n = 0 THEN [n |-> 1, min |-> v, max |-> v, sum |-> v]
    ELSE [n |-> kn.n + 1, min |-> Lesser(kn.min, v),
          max |-> Greater(kn.max, v), sum |-> kn.sum + v]

Snapshot == [key : Keys, vals : [Attrs -> Samples \cup {NoValue}]]

Init ==
    /\ agg = [k \in Keys |-> NoStat] /\ out = {}
    /\ taken = [c \in Callers |-> {}] /\ dropped = 0

Take(c, s) ==
    /\ taken[c] = {}
    /\ taken' = [taken EXCEPT ![c] = {s}]
    /\ UNCHANGED <<agg, out, dropped>>

\* The snapshot c handed in is counted under its key, its values folded in.
Absorb(c) ==
    \E s \in taken[c] :
        /\ agg' = [agg EXCEPT ![s.key] =
                     [count |-> @.count + 1,
                      kern  |-> [a \in Attrs |->
                                   IF s.vals[a] = NoValue THEN @.kern[a]
                                   ELSE AddValue(@.kern[a], s.vals[a])]]]
        /\ taken' = [taken EXCEPT ![c] = {}]
        /\ UNCHANGED <<out, dropped>>

Drop(c) ==
    /\ taken[c] # {}
    /\ taken' = [taken EXCEPT ![c] = {}]
    /\ dropped' = dropped + 1
    /\ UNCHANGED <<agg, out>>

Records(s) == {[key |-> k, count |-> s[k].count, kern |-> s[k].kern] :
                 k \in {x \in Keys : s[x].count > 0}}

Flush ==
    /\ out' = Records(agg)
    /\ agg' = [k \in Keys |-> NoStat]
    /\ dropped' = 0
    /\ UNCHANGED taken

Next ==
    \/ \E c \in Callers : (\E s \in Snapshot : Take(c, s)) \/ Absorb(c) \/ Drop(c)
    \/ Flush

Spec == Init /\ [][Next]_<<agg, out, taken, dropped>>
================================================================================
