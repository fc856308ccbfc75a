---------------------------- MODULE MCIndexRows ----------------------------
(* A small instance of IndexRows for TLC: two contents that share a term. *)
EXTENDS IndexRows, MCMemoryEngine

CONSTANTS t1, t2, t3, b1, b2, b3

MCTerms == [v \in Val |-> IF v = a THEN {t1, t2} ELSE {t2, t3}]
MCVecBucket == [v \in Val |-> IF v = a THEN b1 ELSE b2]
MCIdBucket == [k \in Key |-> b3]

\* Documents in partition 0, the derived rows in partition 1.
RowsDocPid == [k \in Key |-> 0]
RowsAuxPids == [k \in Key |-> {1}]
MCRowPid == [x \in Row |-> 1]
RowsEventPid(n) == 0
=============================================================================
