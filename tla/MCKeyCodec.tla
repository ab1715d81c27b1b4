----------------------------- MODULE MCKeyCodec -----------------------------
(* Instances of KeyCodec.  Words are sets of bit positions: {0} and {1}   *)
(* take one varint byte, {8} two and {63} ten.                            *)
EXTENDS KeyCodec

MCNames == {"a1", "a2", "t"}
MCKeyNames == <<"a1", "a2">>

\* Snapshots with up to two nodes, unsorted, or one node whose id takes ten
\* bytes, and up to two immediates of distinct attributes, one of them
\* possibly not a key attribute ("t").
MCNodeSeqs == {<<>>, <<{1}>>, <<{8}, {0}>>, <<{63}>>}
MCImmEntries == [a : MCNames, v : {{8}, {63}}]
MCImms == {<<>>} \cup {<<e>> : e \in MCImmEntries}
          \cup {<<e, f>> \in MCImmEntries \X MCImmEntries : e.a # f.a}
MCInputs == [nodes : MCNodeSeqs, imm : MCImms,
             found : BOOLEAN, made : BOOLEAN, synth : {{2}}]
            \ [nodes : MCNodeSeqs, imm : MCImms,
               found : {FALSE}, made : {TRUE}, synth : {{2}}]

\* Thirteen key attributes with a value of ten bytes each under the code's
\* MAX_KEYLEN of 128.
MCWideNames == {"k" \o ToString(i) : i \in 1..13}
MCWideKeyNames == [i \in 1..13 |-> "k" \o ToString(i)]
MCWideInputs == {[nodes |-> <<>>, imm |-> [i \in 1..13 |-> [a |-> "k" \o ToString(i), v |-> {63}]],
                  found |-> FALSE, made |-> FALSE, synth |-> {}]}

\* Spec test case 6 with a short value last: values of 10, 10 and 1 bytes.
MCBreakInputs == {[nodes |-> <<>>,
                   imm |-> <<[a |-> "a1", v |-> {63}], [a |-> "a2", v |-> {63}], [a |-> "t", v |-> {0}]>>,
                   found |-> FALSE, made |-> FALSE, synth |-> {}]}
MCBreakKeyNames == <<"a1", "a2", "t">>

\* Sixty context nodes whose ids take two bytes, no key attributes.
MCManyNodesInputs == {[nodes |-> [i \in 1..60 |-> {8}], imm |-> <<>>,
                       found |-> FALSE, made |-> FALSE, synth |-> {}]}

\* Thirty-three key attributes, a value for the last one only.
MCShiftNames == {"k" \o ToString(i) : i \in 1..33}
MCShiftKeyNames == [i \in 1..33 |-> "k" \o ToString(i)]
MCShiftInputs == {[nodes |-> <<>>, imm |-> <<[a |-> "k33", v |-> {0}]>>,
                   found |-> FALSE, made |-> FALSE, synth |-> {}]}
=============================================================================
