------------------------- MODULE MCEloqStoreLayout -------------------------
(* A small instance of EloqStoreLayout for TLC. *)
EXTENDS EloqStoreLayout, TLC

CONSTANTS k1, k2, k3, docs, log

\* With 1, 2 and 3 partitions, k1 lives in 0, 1, 2, k2 in 0, 0, 1 and k3 in
\* 0, 1, 0: growing and shrinking move entries up, down and past each other.
MCHash == [k \in Entry |-> IF k = k1 THEN 5 ELSE IF k = k2 THEN 4 ELSE 3]
MCNsOf == [k \in Entry |-> IF k = k3 THEN log ELSE docs]
=============================================================================
