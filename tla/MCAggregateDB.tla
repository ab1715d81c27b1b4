----------------------------- MODULE MCAggregateDB -----------------------------
(***************************************************************************)
(* Instances of AggregateDB for TLC: keys of one and two bytes sharing a   *)
(* prefix, one aggregated attribute, two positive samples and small        *)
(* blocks so that blocks past block 0 are allocated and freed.             *)
(***************************************************************************)
EXTENDS AggregateDB

MCBytes == {0, 1}
MCKeys == {<<0>>, <<0, 1>>}
MCSamples == {2, 3}
\* A sample below numeric_limits<double>::min(), the least positive double.
MCSamplesNegative == {-2}
================================================================================
