---------------------------- MODULE MCUsageTable ----------------------------
(* Instances of UsageTable for TLC: the constants only.                    *)
EXTENDS UsageTable

CONSTANTS w1, w2, w3, c1, c2

TwoWriters == {w1, w2}
ThreeWriters == {w1, w2, w3}
OneColumn == {c1}
TwoColumns == {c1, c2}

\* No table; one without the columns and indexes; one without the unique index
\* only; a complete one.
SomeVersions ==
  {{}, {"table"}, {"table", "indexes"} \cup Columns, Objects}
=============================================================================
