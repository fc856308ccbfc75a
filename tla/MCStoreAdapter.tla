--------------------------- MODULE MCStoreAdapter ---------------------------
(* A small instance of StoreAdapter for TLC: two keys in one place, one apart. *)
EXTENDS StoreAdapter, TLC

CONSTANTS a, b, t1, t2

MCPlace == [k \in Key |-> IF k = 2 THEN 0 ELSE 1]
MCBytes == [v \in Val |-> IF v = a THEN 1 ELSE 2]

E(k, v) == [key |-> k, val |-> v]

\* Single entries; a key twice, overwritten or deleted; two keys of one place;
\* two places, in either order.
MCBatches ==
    {<<E(1, a)>>, <<E(1, b)>>, <<E(1, None)>>, <<E(2, b)>>, <<E(3, a)>>,
     <<E(1, b), E(1, a)>>, <<E(1, a), E(1, None)>>,
     <<E(3, b), E(1, a)>>, <<E(2, a), E(1, None)>>, <<E(1, b), E(2, a)>>}

Symmetry == Permutations(Thread)
=============================================================================
