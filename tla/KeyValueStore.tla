--------------------------- MODULE KeyValueStore ---------------------------
(***************************************************************************)
(* What a store adapter promises (include/pgmem/store/store_adapter.h):    *)
(* one value per key, changed by a request, Put or Delete, and by nothing  *)
(* else.  ts counts the requests; the value a Put stores is its number.    *)
(***************************************************************************)
EXTENDS Naturals

CONSTANTS Entry, None
VARIABLES kv, ts

Init == kv = [k \in Entry |-> None] /\ ts = 0

Put(k) == ts' = ts + 1 /\ kv' = [kv EXCEPT ![k] = ts + 1]

Delete(k) == ts' = ts + 1 /\ kv' = [kv EXCEPT ![k] = None]

Next == \E k \in Entry : Put(k) \/ Delete(k)

Spec == Init /\ [][Next]_<<kv, ts>>
=============================================================================
