------------------------------- MODULE MCSpot -------------------------------
(* Instances of Spot: annotations "function" and "loop", two values each, *)
(* two files.                                                             *)
EXTENDS Spot

MCGroups == {1, 2}
\* Both annotations are dumped into the same file.
MCConfig == <<<<"function", "a.json">>, <<"loop", "a.json">>>>
\* A second file that lists only series 1.
MCConfigTwoFiles == <<<<"function", "a.json">>, <<"loop", "b.json">>>>

Doc(series) == [kind |-> "doc", series |-> series, data |-> [g \in MCGroups |-> <<>>]]
Empty == [kind |-> "empty", series |-> {}, data |-> [g \in MCGroups |-> <<>>]]

MCInitFiles == [P \in {"a.json", "b.json"} |-> IF P = "a.json" THEN Doc({1, 2}) ELSE Doc({1})]
\* The first run of a program: the file does not exist yet.
MCInitFilesEmpty == [P \in {"a.json", "b.json"} |-> IF P = "a.json" THEN Empty ELSE Doc({1})]
=============================================================================
