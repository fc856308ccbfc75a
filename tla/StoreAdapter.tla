---------------------------- MODULE StoreAdapter ----------------------------
(***************************************************************************)
(* The requests of the two store adapters and their usage estimates:       *)
(* src/store/in_memory_store_adapter.cpp (a map per shard, a lock per      *)
(* shard) and BatchWrite, Put, Delete, Scan, OnUpsertCommitted and         *)
(* OnDeleteCommitted of src/store/eloqstore_adapter.cpp (a table per       *)
(* partition, a table of sizes behind usage_mu_).  A Put or a Delete is a  *)
(* batch of one entry in both.  Keys are numbers in the order of their     *)
(* strings.                                                                *)
(***************************************************************************)
EXTENDS Sequences, FiniteSetsExt

CONSTANTS
    Thread,
    Key,             \* ns:key of all namespaces
    InRange,         \* the keys of the namespace and between the bounds of a Scan
    Place,           \* shard or partition of a key
    NumPlaces,
    Val,
    Bytes,           \* size of a value
    Overhead,        \* EntryFootprintBytes without the value
    Configured,      \* backend names in the configuration
    DefaultBackend,
    Mod,             \* 2^64
    StoreCanFail,
    Batches,         \* bound: the batches that are written
    Limits,          \* limits of a Scan
    PageBytes,       \* the most bytes of a page of a Scan with a limit: 1 << 20
    MaxReqs,         \* bound: requests
    None

ASSUME ThreadAssumption == IsFiniteSet(Thread)
ASSUME KeyAssumption == Key \subseteq Nat /\ IsFiniteSet(Key) /\ InRange \subseteq Key
ASSUME PlaceAssumption == NumPlaces \in Nat \ {0} /\ Place \in [Key -> 0..(NumPlaces - 1)]
ASSUME BytesAssumption == Bytes \in [Val -> Nat] /\ Overhead \in Nat /\ Mod \in Nat \ {0}
ASSUME BatchAssumption ==
    \A b \in Batches : b # <<>> /\ b \in Seq([key : Key, val : Val \cup {None}])
ASSUME BoundAssumption == Limits \subseteq Nat /\ PageBytes \in Nat /\ MaxReqs \in Nat

\* What the counters may count a key with, and that whatever the keys hold is
\* counted in 64 bits.
Amounts == {0, 1} \cup {Bytes[v] : v \in Val} \cup {Overhead + Bytes[v] : v \in Val}
ASSUME FitAssumption == \A f \in [Key -> Amounts] : SumFunctionOnSet(f, Key) < Mod

ASSUME NoneAssumption == None \notin Nat \cup [val : Val, ts : Nat]

VARIABLES
    backend,
    kv,         \* the stored value of every key
    sizes,      \* key_size_bytes_ of the eloqstore adapter
    usage,      \* approx_item_count_, approx_mem_used_bytes_
    job,        \* the request every thread runs
    clock,      \* requests so far; the timestamp of the last
    loose       \* history: the keys whose size the eloqstore estimate may have wrong

vars == <<backend, kv, sizes, usage, job, clock, loose>>

Stored == [val : Val, ts : 1..MaxReqs]
WriteEntry == [key : Key, val : Val \cup {None}, ts : 1..MaxReqs]   \* val = None: a Delete

Idle == [pc |-> "idle", batch |-> <<>>,
         next |-> 0,       \* in memory: the entry to write next
         left |-> {},      \* eloqstore: the partitions to write, and what is
         committed |-> {}, \* written and not yet counted
         lock |-> None, items |-> 0, bytes |-> 0,
         place |-> 0, limit |-> 0, found |-> {}, out |-> <<>>,
         short |-> {},     \* history: the partitions whose page the bytes cut off,
         was |-> <<>>,     \* the values of every key since the request began,
         others |-> {}]    \* and the keys that other threads wrote since

CreateStoreAdapter(name) ==
    LET effective == IF name = "" THEN DefaultBackend ELSE name
    IN IF effective \in {"inmemory", "memory"} THEN "inmemory" ELSE effective

Init ==
    /\ backend \in {CreateStoreAdapter(n) : n \in Configured} \cap {"inmemory", "eloqstore"}
    /\ kv = [k \in Key |-> None]
    /\ sizes = [k \in Key |-> None]
    /\ usage = [items |-> 0, bytes |-> 0]
    /\ job = [t \in Thread |-> Idle]
    /\ clock = 0
    /\ loose = {}

-----------------------------------------------------------------------------
\* What a write entry stores.
ValueOf(e) == IF e.val = None THEN None ELSE [val |-> e.val, ts |-> e.ts]

KeysOf(es) == {es[i].key : i \in DOMAIN es}

CommittedKeys(j) == {e.key : e \in j.committed}

\* Thread t stores the entries of a set and goes on with j.
Store(t, es, j) ==
    LET keys == {e.key : e \in es}
        new == [k \in Key |-> IF k \in keys THEN ValueOf(CHOOSE e \in es : e.key = k) ELSE kv[k]]
    IN /\ kv' = new
       /\ job' = [u \in Thread |->
            IF u = t THEN j
            ELSE IF job[u].pc = "scan"
            THEN [job[u] EXCEPT !.was = [k \in Key |-> job[u].was[k] \cup {new[k]}]]
            ELSE IF job[u].batch # <<>>
            THEN [job[u] EXCEPT !.others = job[u].others \cup (keys \cap KeysOf(job[u].batch))]
            ELSE job[u]]
       /\ loose' = IF backend = "inmemory" THEN {} ELSE
            (loose \ keys) \cup {k \in keys :
                \E u \in Thread \ {t} : k \in CommittedKeys(job[u])}

Free(lock) == \A t \in Thread : job[t].lock # lock

Begin(t, j) ==
    /\ job[t].pc = "idle" /\ clock < MaxReqs
    /\ clock' = clock + 1
    /\ job' = [job EXCEPT ![t] = [j EXCEPT !.was = [k \in Key |-> {kv[k]}]]]
    /\ UNCHANGED <<backend, kv, sizes, usage, loose>>

BatchWrite(t) == \E b \in Batches :
    LET batch == [i \in DOMAIN b |-> [key |-> b[i].key, val |-> b[i].val, ts |-> clock + 1]]
    IN Begin(t, IF backend = "inmemory" THEN [Idle EXCEPT !.pc = "write", !.batch = batch, !.next = 1]
                ELSE [Idle EXCEPT !.pc = "write", !.batch = batch, !.left = {Place[k] : k \in KeysOf(b)}])

-----------------------------------------------------------------------------
(* In memory: entry by entry, each under the lock of its shard.             *)

Footprint(v) == IF v = None THEN 0 ELSE Overhead + Bytes[v.val]
Present(v) == IF v = None THEN 0 ELSE 1

\* Mutant of MemLock: the counters are updated after the lock is released.
MemLock_Released(k) == None

MemLock(k) == Place[k]

\* UpsertLocked, DeleteLocked: the map,
MemPut(t) ==
    LET e == job[t].batch[job[t].next] IN
    /\ backend = "inmemory" /\ job[t].pc = "write"
    /\ Free(Place[e.key])
    /\ Store(t, {e}, [job[t] EXCEPT
         !.pc = "charge", !.next = job[t].next + 1, !.lock = MemLock(e.key),
         !.items = Present(ValueOf(e)) - Present(kv[e.key]),
         !.bytes = Footprint(ValueOf(e)) - Footprint(kv[e.key])])
    /\ UNCHANGED <<backend, sizes, usage, clock>>

\* then the counters.
Charged(j) == [items |-> (usage.items + j.items) % Mod, bytes |-> (usage.bytes + j.bytes) % Mod]

More(j) == IF backend = "inmemory" THEN j.next <= Len(j.batch) ELSE j.left # {}

\* Mutant of Continue: the request ends with its last partition.
Continue_NoUsage(j) == IF More(j) THEN [j EXCEPT !.pc = "write"] ELSE Idle

\* What is left to do after an entry; nothing ends the request.
Continue(j) ==
    IF More(j) THEN [j EXCEPT !.pc = "write"]
    ELSE IF j.committed # {} THEN [j EXCEPT !.pc = "usage"]
    ELSE Idle

Charge(t) ==
    /\ job[t].pc = "charge"
    /\ usage' = Charged(job[t])
    /\ job' = [job EXCEPT ![t] = Continue([job[t] EXCEPT !.lock = None, !.items = 0, !.bytes = 0])]
    /\ UNCHANGED <<backend, kv, sizes, clock, loose>>

-----------------------------------------------------------------------------
(* eloqstore: partition by partition, then the size of every entry.         *)

\* Mutant of Kept: the first entry for a key is kept.
Kept_First(batch, p) == {batch[i] : i \in {i \in DOMAIN batch :
    Place[batch[i].key] = p /\ \A j \in 1..(i - 1) : batch[j].key # batch[i].key}}

\* Mutant of Kept: a request carries the smallest key only.
Kept_One(batch, p) == {batch[i] : i \in {i \in DOMAIN batch :
    Place[batch[i].key] = p /\ \A j \in DOMAIN batch : j # i =>
        Place[batch[j].key] # p \/ batch[i].key < batch[j].key \/ (batch[i].key = batch[j].key /\ j < i)}}

\* The entries written to partition p: the last one of every key.
Kept(batch, p) == {batch[i] : i \in {i \in DOMAIN batch :
    Place[batch[i].key] = p /\ \A j \in (i + 1)..Len(batch) : batch[j].key # batch[i].key}}

EloqWrite(t) ==
    LET p == Min(job[t].left)
        es == Kept(job[t].batch, p)
    IN /\ backend = "eloqstore" /\ job[t].pc = "write"
       /\ Store(t, es, Continue([job[t] EXCEPT
            !.left = job[t].left \ {p}, !.committed = job[t].committed \cup es]))
       /\ UNCHANGED <<backend, sizes, usage, clock>>

\* A partition cannot be written: the request ends, without the sizes of the
\* partitions before it.
EloqWriteFail(t) ==
    /\ StoreCanFail /\ backend = "eloqstore" /\ job[t].pc = "write"
    /\ job' = [job EXCEPT ![t] = Idle]
    /\ loose' = loose \cup CommittedKeys(job[t])
    /\ UNCHANGED <<backend, kv, sizes, usage, clock>>

SizeOf(v) == IF v = None THEN None ELSE Bytes[v.val]
Count(s) == IF s = None THEN 0 ELSE 1
Sized(s) == IF s = None THEN 0 ELSE s

\* What a size in the table changes by.
Resized(old, new) == Sized(new) - Sized(old)

\* The next of the written entries: by partition, then by key.
NextCommitted(es) == CHOOSE e \in es : \A d \in es :
    Place[e.key] < Place[d.key] \/ (Place[e.key] = Place[d.key] /\ e.key <= d.key)

\* OnUpsertCommitted, OnDeleteCommitted, under usage_mu_.
EloqUsage(t) ==
    LET e == NextCommitted(job[t].committed)
        new == SizeOf(ValueOf(e))
    IN /\ job[t].pc = "usage" /\ Free("usage_mu")
       /\ sizes' = [sizes EXCEPT ![e.key] = new]
       /\ job' = [job EXCEPT ![t] = [job[t] EXCEPT
            !.pc = "charge", !.committed = job[t].committed \ {e}, !.lock = "usage_mu",
            !.items = Count(new) - Count(sizes[e.key]), !.bytes = Resized(sizes[e.key], new)]]
       /\ UNCHANGED <<backend, kv, usage, clock, loose>>

-----------------------------------------------------------------------------
(* Scan: place by place, then sorted and cut to the limit.                  *)

Scan(t) == \E limit \in Limits : Begin(t, [Idle EXCEPT !.pc = "scan", !.limit = limit])

\* The hits in the order of their keys, and the first n of them.
ByKey(es) == CHOOSE s \in [1..Cardinality(es) -> es] :
    /\ \A i, j \in DOMAIN s : i < j => s[i].key < s[j].key
    /\ \A e \in es : \E i \in DOMAIN s : s[i] = e

First(n, s) == IF n > 0 /\ Len(s) > n THEN [i \in 1..n |-> s[i]] ELSE s

Hits(place) == {[key |-> k, val |-> kv[k]] : k \in {k \in InRange : Place[k] = place /\ kv[k] # None}}

PageSize(s, n) == SumFunctionOnSet([i \in 1..n |-> Footprint(s[i].val)], 1..n)

\* Mutant of Pages: a Scan without a limit is paged as well.
Pages_Always(place, limit) ==
    LET s == First(limit, ByKey(Hits(place)))
    IN {{s[i] : i \in 1..n} : n \in {n \in 0..Len(s) : n = Len(s) \/ PageSize(s, n + 1) > PageBytes}}

\* What one request may find.  With a limit eloqstore returns one page, in the
\* order of the keys, of limit entries or of as many as fit its bytes, and the
\* rest is not fetched.  Which entry ends a page that is full is its choice.
Pages(place, limit) ==
    LET s == First(limit, ByKey(Hits(place)))
    IN IF backend = "inmemory" \/ limit = 0 THEN {Hits(place)}
       ELSE {{s[i] : i \in 1..n} : n \in {n \in 0..Len(s) : n = Len(s) \/ PageSize(s, n + 1) > PageBytes}}

\* A page with less than the limit and the table allow.
CutByBytes(page, place, limit) ==
    Cardinality(page) < Cardinality(Hits(place)) /\ (limit = 0 \/ Cardinality(page) < limit)

\* The request with one more page,
ReadPage(j, page) == [j EXCEPT
    !.found = j.found \cup page,
    !.short = j.short \cup (IF CutByBytes(page, j.place, j.limit) THEN {j.place} ELSE {})]

\* and at the next place; the hits of the last one are sorted and cut.
NextPlace(j) ==
    IF j.place + 1 < NumPlaces THEN [j EXCEPT !.place = j.place + 1]
    ELSE [j EXCEPT !.pc = "hits", !.found = {}, !.out = First(j.limit, ByKey(j.found))]

ScanPlace(t) ==
    /\ job[t].pc = "scan"
    /\ backend = "inmemory" => Free(job[t].place)
    /\ \E page \in Pages(job[t].place, job[t].limit) :
         job' = [job EXCEPT ![t] = NextPlace(ReadPage(job[t], page))]
    /\ UNCHANGED <<backend, kv, sizes, usage, clock, loose>>

\* A partition cannot be read: the caller gets an error.
EloqScanFail(t) ==
    /\ StoreCanFail /\ backend = "eloqstore" /\ job[t].pc = "scan"
    /\ job' = [job EXCEPT ![t] = Idle]
    /\ UNCHANGED <<backend, kv, sizes, usage, clock, loose>>

ScanReturn(t) ==
    /\ job[t].pc = "hits"
    /\ job' = [job EXCEPT ![t] = Idle]
    /\ UNCHANGED <<backend, kv, sizes, usage, clock, loose>>

-----------------------------------------------------------------------------
\* A new process: eloqstore finds its rows again, the sizes start empty.
Restart ==
    /\ kv' = IF backend = "inmemory" THEN [k \in Key |-> None] ELSE kv
    /\ sizes' = [k \in Key |-> None]
    /\ usage' = [items |-> 0, bytes |-> 0]
    /\ job' = [t \in Thread |-> Idle]
    /\ loose' = {k \in Key : kv'[k] # None}
    /\ clock < MaxReqs
    /\ UNCHANGED <<backend, clock>>

Finished == clock = MaxReqs /\ (\A t \in Thread : job[t].pc = "idle") /\ UNCHANGED vars

Next ==
    \/ \E t \in Thread :
         \/ BatchWrite(t) \/ MemPut(t) \/ Charge(t)
         \/ EloqWrite(t) \/ EloqWriteFail(t) \/ EloqUsage(t)
         \/ Scan(t) \/ ScanPlace(t) \/ EloqScanFail(t) \/ ScanReturn(t)
    \/ Restart
    \/ Finished

Spec == Init /\ [][Next]_vars

-----------------------------------------------------------------------------
HeldBytes == [k \in Key |-> IF backend = "inmemory" THEN Footprint(kv[k]) ELSE Sized(sizes[k])]
HeldItems == [k \in Key |-> IF backend = "inmemory" THEN Present(kv[k]) ELSE Count(sizes[k])]

\* approx_item_count_ and approx_mem_used_bytes_ are what the adapter's table
\* holds but for what threads have put in and not yet counted, and no
\* interleaving of requests ever lets ApproximateUsage read a counter that has
\* gone below zero.
UsageNeverWraps ==
    /\ usage.bytes + SumFunctionOnSet([t \in Thread |-> job[t].bytes], Thread)
         = SumFunctionOnSet(HeldBytes, Key)
    /\ usage.items + SumFunctionOnSet([t \in Thread |-> job[t].items], Thread)
         = SumFunctionOnSet(HeldItems, Key)

\* A key of the eloqstore adapter is counted with the size of its stored value
\* unless, since it was last written, the process restarted, the batch failed
\* or another batch with the key was committed before that one was counted.
SizesFollowRows == \A k \in Key \ loose :
    (backend = "eloqstore" /\ \A t \in Thread : k \notin CommittedKeys(job[t]))
        => sizes[k] = SizeOf(kv[k])

LastOf(es, k) == ValueOf(es[Max({i \in DOMAIN es : es[i].key = k})])

\* When all of a batch is written, a key that no one else wrote meanwhile has
\* the value of its last entry, in both adapters.
BatchLastWins == \A t \in Thread :
    (job[t].batch # <<>> /\ ~More(job[t])) =>
        \A k \in KeysOf(job[t].batch) \ job[t].others : kv[k] = LastOf(job[t].batch, k)

\* Wherever a failure or a crash cuts a batch off, eloqstore has all of its
\* entries for a partition or none of them.
PartitionsAtomic == backend = "eloqstore" => \A t \in Thread : \A p \in 0..(NumPlaces - 1) :
    LET keys == {k \in KeysOf(job[t].batch) \ job[t].others : Place[k] = p}
    IN \/ \A k \in keys : kv[k] \in job[t].was[k]
       \/ \A k \in keys : kv[k] = LastOf(job[t].batch, k)

\* A Scan is no snapshot: the places are read one by one while others write.
\* Still every hit was stored at some time while it ran, the hits are in the
\* order of their keys, and a key of the range that kept its value throughout
\* is among them, unless the limit cut it off behind the last hit, or a page
\* of a Scan with a limit was full with the keys before it.  Without a limit,
\* as every caller scans, nothing is missing.
ScanFaithful == \A t \in Thread : job[t].pc = "hits" =>
    LET out == job[t].out IN
    /\ \A i \in DOMAIN out : out[i].key \in InRange /\ out[i].val \in job[t].was[out[i].key] \ {None}
    /\ \A i, j \in DOMAIN out : i < j => out[i].key < out[j].key
    /\ \A k \in InRange : (\E v \in Stored : job[t].was[k] = {v}) =>
         \/ \E i \in DOMAIN out : out[i].key = k
         \/ job[t].limit > 0 /\ Len(out) = job[t].limit /\ out[Len(out)].key < k
         \/ /\ job[t].limit > 0 /\ Place[k] \in job[t].short
            /\ \A i \in DOMAIN out : Place[out[i].key] = Place[k] => out[i].key < k
=============================================================================
