-------------------------------- MODULE Nvvp --------------------------------
(***************************************************************************)
(* The NVVP annotation binding (nvvp.cpp).  Caliper calls on_begin and    *)
(* on_end when an annotation attribute is set and unset; the binding      *)
(* starts an NVTX range named "attr=value" and keeps its id in the map    *)
(* nvtx_ranges under that name, and on_end ends the range the map holds   *)
(* for the name, if any.  The entry is never erased.                      *)
(*                                                                         *)
(* nvtx_ranges is declared with key type cali_id_t but indexed with the   *)
(* name string; the model keys it by the name, as the code uses it.       *)
(* Caliper's begin/end of an attribute nest per thread, so a thread's     *)
(* on_end is for the name on top of its stack of open annotations.        *)
(***************************************************************************)
EXTENDS Integers, Sequences, FiniteSets, SequencesExt, TLC

CONSTANTS
    Threads,     \* threads that annotate
    Names,       \* the "attr=value" strings
    NumColors,   \* num_colors
    MaxDepth,    \* bound on the nesting of a thread's annotations
    MaxRanges    \* bound on the ranges started

NoRange == 0     \* the value-initialized nvtxRangeId_t

VARIABLES
    ranges,      \* nvtx_ranges: name -> range id
    colorId,     \* color_id
    open,        \* per thread, the names it has begun and not ended
    nextRange,   \* the id nvtxRangeStartEx returns next
    ended        \* per range id, how often nvtxRangeEnd was called on it

vars == <<ranges, colorId, open, nextRange, ended>>

Started == 1..(nextRange - 1)

Init == /\ ranges = [n \in {} |-> NoRange]
        /\ colorId = 0
        /\ open = [t \in Threads |-> <<>>]
        /\ nextRange = 1
        /\ ended = [r \in {NoRange} |-> 0]

\* on_begin (lines 55-69): next color, start a range, store its id under
\* the name.
OnBegin(t, n) ==
    /\ Len(open[t]) < MaxDepth /\ nextRange <= MaxRanges
    /\ colorId' = (colorId + 1) % NumColors
    /\ ranges' = (n :> nextRange) @@ ranges
    /\ ended' = (nextRange :> 0) @@ ended
    /\ nextRange' = nextRange + 1
    /\ open' = [open EXCEPT ![t] = Append(@, n)]

\* on_end (lines 71-79): end the range the map holds for the name, if the
\* name is in the map.
OnEnd(t) ==
    /\ open[t] # <<>>
    /\ LET n == Last(open[t])
       IN  ended' = IF n \in DOMAIN ranges
                    THEN [ended EXCEPT ![ranges[n]] = @ + 1]
                    ELSE ended
    /\ open' = [open EXCEPT ![t] = Front(@)]
    /\ UNCHANGED <<ranges, colorId, nextRange>>

Next == \E t \in Threads : \/ \E n \in Names : OnBegin(t, n)
                           \/ OnEnd(t)

Spec == Init /\ [][Next]_vars

-----------------------------------------------------------------------------
(* Properties.                                                            *)

TypeOK ==
    /\ ranges \in [DOMAIN ranges -> Started] /\ DOMAIN ranges \subseteq Names
    /\ colorId \in 0..(NumColors - 1)
    /\ open \in [Threads -> Seq(Names)]
    /\ nextRange \in 1..(MaxRanges + 1)
    /\ ended \in [Started \cup {NoRange} -> Nat]

\* NVTX ranges pair up: once every annotation has been ended, every range
\* on_begin started has been ended by on_end, and exactly once.
RangesBalanced ==
    (\A t \in Threads : open[t] = <<>>) => \A r \in Started : ended[r] = 1
=============================================================================
