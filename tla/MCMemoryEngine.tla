--------------------------- MODULE MCMemoryEngine ---------------------------
(* Small instances of MemoryEngine for TLC. *)
EXTENDS MemoryEngineProps, TLC

CONSTANTS w1, k1, k2, a, b, c1, c2, d1

\* Contents of different size: a record of content a is charged 2, its
\* tombstone 1; for content b it is 3 and 2.
MCRecordBytes == [v \in Val |-> IF v = a THEN 1 ELSE 2]
MCDocBytes == [v \in Val |-> 1]
MCWsOf == [k \in Key |-> w1]

\* One partition holds every row.
OneDocPid == [k \in Key |-> 0]
OneAuxPids == [k \in Key |-> {0}]
OneRoutePid == [w \in Workspace |-> 0]
OneCkptPid == [w \in Workspace |-> 0]
OneEventPid(n) == 0

\* Two partitions; whether an event is written before or after the document
\* and checkpoint rows of its record changes from event to event.
TwoDocPid == [k \in Key |-> IF k = k1 THEN 0 ELSE 1]
TwoAuxPids == [k \in Key |-> IF k = k1 THEN {1} ELSE {}]
TwoRoutePid == [w \in Workspace |-> 0]
TwoCkptPid == [w \in Workspace |-> 1]
TwoEventPid(n) == n % 2

OnePartition == {0}
TwoPartitions == {0, 1}

Symmetry == Permutations(Client)
=============================================================================
