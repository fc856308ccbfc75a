------------------------- MODULE StoreAdapterProofs -------------------------
(* Proofs about the requests of both adapters, for any number of threads,  *)
(* keys, places and batches.  First what SortedHits and Kept return; then  *)
(* what every request knows while it is on its way (RequestInv), from      *)
(* which the properties of batches and scans follow; then the sizes of the *)
(* keys that were counted in order (SizesInv); last the usage counters,    *)
(* as a ledger in which every key has an amount and every thread that      *)
(* holds a key's lock the change it still owes (UsageInv).                 *)
EXTENDS StoreAdapter, SumTheorems, SequenceTheorems, TLAPS

-----------------------------------------------------------------------------
(* Hits in the order of their keys *)

\* No two entries have the same key.
OnePerKey(es) == \A d, e \in es : d.key = e.key => d = e

Keyed(es) == IsFiniteSet(es) /\ OnePerKey(es) /\ \A e \in es : e.key \in Nat

Ascending(s) == \A i, j \in DOMAIN s : i < j => s[i].key < s[j].key

Sorted(s, es) ==
    /\ s \in [1..Cardinality(es) -> es]
    /\ Ascending(s)
    /\ \A e \in es : \E i \in DOMAIN s : s[i] = e

\* A finite set of entries can be sorted: take the smallest away, sort the rest.
LEMMA SortedExists ==
    ASSUME NEW es, Keyed(es)
    PROVE  \E s : Sorted(s, es)
<1> DEFINE Bad == {S \in SUBSET es : ~ \E s : Sorted(s, S)}
<1>0. \A S \in SUBSET es : IsFiniteSet(S) BY FS_Subset DEF Keyed
<1>1. SUFFICES ASSUME Bad # {} PROVE FALSE
  <2>1. es \in SUBSET es OBVIOUS
  <2> QED BY <2>1
<1>2. PICK S \in Bad : \A T \in Bad : Cardinality(S) <= Cardinality(T)
  <2> HIDE DEF Bad
  <2>1. Bad # {} BY <1>1
  <2>2. \A T \in Bad : IsFiniteSet(T) BY <1>0 DEF Bad
  <2> QED BY <2>1, <2>2, SmallestSet
<1>3. S \in SUBSET es /\ IsFiniteSet(S) BY <1>0
<1>4. CASE S = {}
  <2> DEFINE s == [i \in 1..0 |-> i]
  <2>1. Cardinality(S) = 0 BY <1>4, FS_EmptySet
  <2>2. s \in [1..0 -> S] OBVIOUS
  <2>3. Sorted(s, S) BY <1>4, <2>1, <2>2 DEF Sorted, Ascending
  <2> QED BY <2>3
<1>5. CASE S # {}
  <2> DEFINE K == {e.key : e \in S}
  <2>1. K \in SUBSET Nat /\ K # {} BY <1>3, <1>5 DEF Keyed
  <2>2. PICK k \in K : \A m \in K : k <= m BY <2>1, LeastNat
  <2>3. PICK e \in S : e.key = k OBVIOUS
  <2> DEFINE T == S \ {e}
             n == Cardinality(T)
  <2>4. IsFiniteSet(T) /\ Cardinality(S) = n + 1 /\ n \in Nat
    <3>1. IsFiniteSet(T) /\ Cardinality(T) = Cardinality(S) - 1 BY <1>3, FS_RemoveElement
    <3>2. Cardinality(S) \in Nat /\ Cardinality(T) \in Nat BY <1>3, <3>1, FS_CardinalityType
    <3> HIDE DEF T
    <3> QED BY <3>1, <3>2
  <2>5. T \in SUBSET es /\ T \notin Bad
    <3>1. T \in SUBSET es BY <1>3
    <3>2. ~(Cardinality(S) <= Cardinality(T)) BY <2>4
    <3> QED BY <1>2, <3>1, <3>2
  <2>6. PICK s : Sorted(s, T) BY <2>5
  <2> DEFINE q == [i \in 1..(n + 1) |-> IF i = 1 THEN e ELSE s[i - 1]]
  <2>7. s \in [1..n -> T] BY <2>6 DEF Sorted
  <2>8. \A d \in T : e.key < d.key
    <3> SUFFICES ASSUME NEW d \in T PROVE e.key < d.key OBVIOUS
    <3>1. d \in S /\ d # e /\ d.key \in K OBVIOUS
    <3>2. e.key <= d.key BY <2>2, <2>3, <3>1
    <3>3. e.key # d.key /\ e.key \in Nat /\ d.key \in Nat BY <1>3, <3>1 DEF Keyed, OnePerKey
    <3> QED BY <3>2, <3>3
  <2> HIDE DEF n, T, K
  <2>9. q \in [1..(n + 1) -> S] BY <2>4, <2>7 DEF T
  <2>10. Ascending(q)
    <3> SUFFICES ASSUME NEW i \in 1..(n + 1), NEW j \in 1..(n + 1), i < j PROVE q[i].key < q[j].key
      BY DEF Ascending
    <3>1. j - 1 \in 1..n /\ q[j] = s[j - 1] BY <2>4
    <3>2. CASE i = 1 BY <2>7, <2>8, <3>1, <3>2
    <3>3. CASE i # 1
      <4>1. i - 1 \in 1..n /\ q[i] = s[i - 1] /\ i - 1 < j - 1 BY <2>4, <3>3
      <4> QED BY <2>6, <2>7, <3>1, <4>1 DEF Sorted, Ascending
    <3> QED BY <3>2, <3>3
  <2>11. \A d \in S : \E i \in 1..(n + 1) : q[i] = d
    <3> SUFFICES ASSUME NEW d \in S PROVE \E i \in 1..(n + 1) : q[i] = d OBVIOUS
    <3>1. CASE d = e BY <2>4, <3>1
    <3>2. CASE d # e
      <4>1. PICK i \in 1..n : s[i] = d BY <2>6, <2>7, <3>2 DEF Sorted, T
      <4>2. i + 1 \in 1..(n + 1) /\ q[i + 1] = d BY <2>4, <4>1
      <4> QED BY <4>2
    <3> QED BY <3>1, <3>2
  <2>12. Sorted(q, S) BY <2>4, <2>9, <2>10, <2>11 DEF Sorted
  <2> QED BY <2>12
<1> QED BY <1>4, <1>5

LEMMA ByKeySorted ==
    ASSUME NEW es, Keyed(es)
    PROVE  Sorted(ByKey(es), es) /\ Len(ByKey(es)) = Cardinality(es) /\ Cardinality(es) \in Nat
<1>0. Cardinality(es) \in Nat BY FS_CardinalityType DEF Keyed
<1>1. PICK s : Sorted(s, es) BY SortedExists
<1>2. \E q \in [1..Cardinality(es) -> es] : /\ \A i, j \in DOMAIN q : i < j => q[i].key < q[j].key
                                            /\ \A e \in es : \E i \in DOMAIN q : q[i] = e
  BY <1>1 DEF Sorted, Ascending
<1>3. Sorted(ByKey(es), es) BY <1>2 DEF ByKey, Sorted, Ascending
<1>4. Len(ByKey(es)) = Cardinality(es)
  <2>1. DOMAIN ByKey(es) = 1..Cardinality(es) BY <1>3 DEF Sorted
  <2> QED BY <1>0, <2>1, LenProperties
<1> QED BY <1>0, <1>3, <1>4

\* The hits that are kept: n of them, in order, with every entry that is not
\* among them behind the last.
FirstOf(s, n, es, limit) ==
    /\ n \in Nat /\ s \in [1..n -> es] /\ Len(s) = n /\ Ascending(s)
    /\ \A e \in es : (\E i \in 1..n : s[i] = e) \/ (limit > 0 /\ n = limit /\ s[limit].key < e.key)

LEMMA FirstIs ==
    ASSUME NEW es, Keyed(es), NEW limit \in Nat
    PROVE  \E n : FirstOf(First(limit, ByKey(es)), n, es, limit)
<1> DEFINE q == ByKey(es)
           c == Cardinality(es)
           s == First(limit, q)
<1>1. Sorted(q, es) /\ Len(q) = c /\ c \in Nat BY ByKeySorted
<1>2. q \in [1..c -> es] /\ Ascending(q) /\ \A e \in es : \E i \in 1..c : q[i] = e BY <1>1 DEF Sorted
<1> HIDE DEF q, c
<1>3. CASE limit > 0 /\ c > limit
  <2>1. s = [i \in 1..limit |-> q[i]] BY <1>1, <1>3 DEF First
  <2> HIDE DEF s
  <2>2. s \in [1..limit -> es] /\ DOMAIN s = 1..limit /\ \A i \in 1..limit : s[i] = q[i] BY <1>1, <1>2, <1>3, <2>1
  <2>3. Len(s) = limit BY <2>2
  <2>4. Ascending(s) BY <1>1, <1>2, <1>3, <2>2 DEF Ascending
  <2>5. ASSUME NEW e \in es, ~ \E i \in 1..limit : s[i] = e PROVE s[limit].key < e.key
    <3>1. PICK i \in 1..c : q[i] = e BY <1>2
    <3>2. limit < i /\ limit \in 1..c BY <1>1, <1>3, <2>2, <2>5, <3>1
    <3> QED BY <1>2, <2>2, <3>1, <3>2 DEF Ascending
  <2>6. FirstOf(s, limit, es, limit) BY <1>3, <2>2, <2>3, <2>4, <2>5 DEF FirstOf
  <2> QED BY <2>6 DEF s, q
<1>4. CASE ~(limit > 0 /\ c > limit)
  <2>1. s = q BY <1>1, <1>4 DEF First
  <2> HIDE DEF s
  <2>2. FirstOf(s, c, es, limit) BY <1>1, <1>2, <2>1 DEF FirstOf
  <2> QED BY <2>2 DEF s, q
<1> QED BY <1>3, <1>4

\* limit ascending entries before key k.
Cut(es, limit, k) ==
    limit > 0 /\ \E r \in [1..limit -> es] : Ascending(r) /\ r[limit].key < k

\* The i-th of all entries is not behind the i-th of some of them.
LEMMA Dominates ==
    ASSUME NEW es, Keyed(es), NEW q, Sorted(q, es), NEW limit \in Nat, NEW r \in [1..limit -> es], Ascending(r),
           NEW x \in 1..limit
    PROVE  x <= Cardinality(es) /\ q[x].key <= r[x].key
<1> DEFINE c == Cardinality(es)
           Bad == {i \in 1..limit : ~(i <= c /\ q[i].key <= r[i].key)}
<1>1. c \in Nat BY FS_CardinalityType DEF Keyed
<1>2. q \in [1..c -> es] /\ Ascending(q) /\ \A e \in es : \E i \in 1..c : q[i] = e BY DEF Sorted
<1>3. \A e \in es : e.key \in Nat BY DEF Keyed
<1> HIDE DEF c
<1>4. SUFFICES ASSUME Bad # {} PROVE FALSE BY DEF c
<1>5. PICK i \in Bad : \A m \in Bad : i <= m
  <2>1. Bad \in SUBSET Nat OBVIOUS
  <2> HIDE DEF Bad
  <2> QED BY <1>4, <2>1, LeastNat
<1>6. PICK m \in 1..c : q[m] = r[i] BY <1>2
<1>7. i <= m
  <2>1. CASE i = 1 BY <2>1
  <2>2. CASE i # 1
    <3>1. i - 1 \in 1..limit /\ i - 1 \notin Bad BY <1>5, <2>2
    <3>2. i - 1 \in 1..c /\ q[i - 1].key <= r[i - 1].key BY <1>1, <3>1
    <3>3. r[i - 1].key < r[i].key BY <3>1 DEF Ascending
    <3>4. q[i - 1].key \in Nat /\ r[i - 1].key \in Nat /\ r[i].key \in Nat BY <1>2, <1>3, <3>1, <3>2
    <3>5. q[i - 1].key < q[m].key BY <1>6, <3>2, <3>3, <3>4
    <3>6. ~(m < i - 1) /\ m # i - 1
      <4>1. m < i - 1 => q[m].key < q[i - 1].key BY <1>2, <3>2 DEF Ascending
      <4> QED BY <1>6, <3>4, <3>5, <4>1
    <3> QED BY <1>1, <3>6
  <2> QED BY <2>1, <2>2
<1>8. i \in 1..c BY <1>1, <1>7
<1>9. q[i].key <= q[m].key
  <2>1. q[i].key \in Nat /\ q[m].key \in Nat BY <1>2, <1>3, <1>8
  <2>2. i < m => q[i].key < q[m].key BY <1>2, <1>8 DEF Ascending
  <2> QED BY <1>7, <2>1, <2>2
<1> QED BY <1>6, <1>8, <1>9

\* What a page cut off stays cut off when all pages are sorted.
LEMMA CutStays ==
    ASSUME NEW es, Keyed(es), NEW limit \in Nat, NEW k \in Nat, Cut(es, limit, k), NEW s, NEW n,
           s = First(limit, ByKey(es)), n = Len(s)
    PROVE  limit > 0 /\ n = limit /\ s[n].key < k
<1> DEFINE q == ByKey(es)
           c == Cardinality(es)
<1>1. Sorted(q, es) /\ Len(q) = c /\ c \in Nat BY ByKeySorted
<1>2. PICK r \in [1..limit -> es] : Ascending(r) /\ r[limit].key < k BY DEF Cut
<1>3. limit > 0 /\ limit \in 1..limit BY DEF Cut
<1>4. limit <= c /\ q[limit].key <= r[limit].key BY <1>1, <1>2, <1>3, Dominates
<1>5. q \in [1..c -> es] BY <1>1 DEF Sorted
<1>6. s = First(limit, q) OBVIOUS
<1> HIDE DEF q, c
<1>7. n = limit /\ s[limit] = q[limit]
  <2>1. CASE c > limit
    <3>1. s = [i \in 1..limit |-> q[i]] BY <1>1, <1>3, <1>6, <2>1 DEF First
    <3>2. Len([i \in 1..limit |-> q[i]]) = limit OBVIOUS
    <3> QED BY <1>3, <3>1, <3>2
  <2>2. CASE c = limit BY <1>1, <1>6, <2>2 DEF First
  <2> QED BY <1>1, <1>4, <2>1, <2>2
<1>8. q[limit].key \in Nat /\ r[limit].key \in Nat BY <1>1, <1>2, <1>3, <1>4, <1>5 DEF Keyed
<1> QED BY <1>2, <1>3, <1>4, <1>7, <1>8

-----------------------------------------------------------------------------
(* The invariant of one request *)

Places == 0..(NumPlaces - 1)
Values == Stored \cup {None}
Writing == {"write", "charge", "usage"}

IsJob(j) == DOMAIN j = {"pc", "batch", "next", "left", "committed", "lock", "items", "bytes", "place",
                        "limit", "found", "out", "short", "was", "others"}

\* What is still to do fits where the request is, in memory,
MemShape(j) ==
    /\ j.pc # "usage" /\ j.committed = {}
    /\ j.next \in 1..(Len(j.batch) + 1)
    /\ j.pc = "write" => j.next <= Len(j.batch)

\* and in eloqstore, where no partition is written twice.
EloqShape(j) ==
    /\ j.left \subseteq Places
    /\ j.pc = "write" <=> j.left # {}
    /\ j.committed \subseteq WriteEntry /\ \A e \in j.committed : Place[e.key] \notin j.left
    /\ j.pc = "usage" => j.committed # {}

JobShape(j, b) ==
    /\ IsJob(j)
    /\ j.pc \in {"idle", "scan", "hits"} \cup Writing
    /\ j.pc = "idle" => j = Idle
    /\ j.pc \notin Writing => j.batch = <<>> /\ j.committed = {}
    /\ j.pc \in Writing => j.batch \in Seq(WriteEntry) /\ j.batch # <<>>
    /\ j.pc \in Writing => IF b = "inmemory" THEN MemShape(j) ELSE EloqShape(j)

\* The i-th entry is the last one of its key among the first n.
IsLast(es, i, n) == \A m \in (i + 1)..n : es[m].key # es[i].key

\* The keys of a batch that no one else writes have, in memory, the value of
\* their last entry so far,
MemBatch(j, m) == \A i \in 1..(j.next - 1) :
    (IsLast(j.batch, i, j.next - 1) /\ j.batch[i].key \notin j.others) => m[j.batch[i].key] = ValueOf(j.batch[i])

\* and in eloqstore that of their last entry, or one from before the batch.
EloqBatch(j, m) == \A i \in DOMAIN j.batch :
    LET k == j.batch[i].key IN
    k \notin j.others =>
       /\ (IsLast(j.batch, i, Len(j.batch)) /\ Place[k] \notin j.left) => m[k] = ValueOf(j.batch[i])
       /\ Place[k] \in j.left => m[k] \in j.was[k]

JobBatch(j, b, m) == j.pc \in Writing => IF b = "inmemory" THEN MemBatch(j, m) ELSE EloqBatch(j, m)

\* The page of k's place was full with the keys before k.
Full(es, j, k) == j.limit > 0 /\ Place[k] \in j.short /\ \A e \in es : Place[e.key] = Place[k] => e.key < k

\* A key that kept its value is among the entries or cut off.
Covered(es, j, k) == (\E v \in Stored : j.was[k] = {v}) =>
    \/ \E e \in es : e.key = k
    \/ Cut(es, j.limit, k)
    \/ Full(es, j, k)

\* A Scan knows what was stored since it began, and has found what the places
\* before its own hold.
Scanning(j, m) ==
    /\ j.limit \in Nat /\ j.place \in Places
    /\ \A k \in Key : m[k] \in j.was[k]
    /\ Keyed(j.found)
    /\ \A e \in j.found : e.key \in InRange /\ e.val \in j.was[e.key] \ {None} /\ Place[e.key] < j.place
    /\ \A k \in InRange : Place[k] < j.place => Covered(j.found, j, k)

\* What ScanFaithful says of one request.
Faithful(j) ==
    LET out == j.out IN
    /\ \A i \in DOMAIN out : out[i].key \in InRange /\ out[i].val \in j.was[out[i].key] \ {None}
    /\ \A i, m \in DOMAIN out : i < m => out[i].key < out[m].key
    /\ \A k \in InRange : (\E v \in Stored : j.was[k] = {v}) =>
         \/ \E i \in DOMAIN out : out[i].key = k
         \/ j.limit > 0 /\ Len(out) = j.limit /\ out[Len(out)].key < k
         \/ /\ j.limit > 0 /\ Place[k] \in j.short
            /\ \A i \in DOMAIN out : Place[out[i].key] = Place[k] => out[i].key < k

JobScan(j, m) == (j.pc = "scan" => Scanning(j, m)) /\ (j.pc = "hits" => Faithful(j))

JobOK(j, b, m) == JobShape(j, b) /\ JobBatch(j, b, m) /\ JobScan(j, m)

\* Every request, and the types of the rest.
RequestInv ==
    /\ backend \in {"inmemory", "eloqstore"}
    /\ kv \in [Key -> Values]
    /\ clock \in Nat
    /\ DOMAIN job = Thread
    /\ \A t \in Thread : JobOK(job[t], backend, kv)

\* A written entry that is not yet counted is the value of its key, unless the
\* estimate of the key is loose; the others are counted with their size.
Sizes == {None} \cup {Bytes[v] : v \in Val}

CountedKey(k) ==
    /\ \A t \in Thread : \A e \in job[t].committed : e.key = k => ValueOf(e) = kv[k]
    /\ (\A t \in Thread : k \notin CommittedKeys(job[t])) => sizes[k] = SizeOf(kv[k])

SizesInv ==
    /\ sizes \in [Key -> Sizes]
    /\ backend = "eloqstore" => \A k \in Key \ loose : CountedKey(k)

-----------------------------------------------------------------------------
(* Values, and the entries a partition gets *)

LEMMA StoredNotNone == None \notin Stored
<1>1. 1..MaxReqs \subseteq Nat BY BoundAssumption
<1>2. \A v \in Stored : v \in [val : Val, ts : Nat] BY <1>1 DEF Stored
<1> QED BY <1>2, NoneAssumption

LEMMA ValueOfType == ASSUME NEW e \in WriteEntry PROVE ValueOf(e) \in Values /\ e.key \in Key
<1>1. e.key \in Key /\ e.val \in Val \cup {None} /\ e.ts \in 1..MaxReqs BY DEF WriteEntry
<1>2. e.val # None => [val |-> e.val, ts |-> e.ts] \in Stored BY <1>1 DEF Stored
<1> QED BY <1>1, <1>2 DEF ValueOf, Values

LEMMA KeptIs ==
    ASSUME NEW batch \in Seq(WriteEntry), NEW p
    PROVE  /\ Kept(batch, p) \subseteq WriteEntry
           /\ \A e \in Kept(batch, p) : Place[e.key] = p
           /\ OnePerKey(Kept(batch, p))
           /\ \A i \in DOMAIN batch :
                (IsLast(batch, i, Len(batch)) /\ Place[batch[i].key] = p) => batch[i] \in Kept(batch, p)
<1>1. DOMAIN batch = 1..Len(batch) /\ Len(batch) \in Nat /\ \A i \in 1..Len(batch) : batch[i] \in WriteEntry
  OBVIOUS
<1>2. \A e : e \in Kept(batch, p) <=> \E i \in 1..Len(batch) :
        e = batch[i] /\ Place[batch[i].key] = p /\ IsLast(batch, i, Len(batch))
  BY <1>1 DEF Kept, IsLast
<1>3. OnePerKey(Kept(batch, p))
  <2> SUFFICES ASSUME NEW d \in Kept(batch, p), NEW e \in Kept(batch, p), d.key = e.key PROVE d = e
    BY DEF OnePerKey
  <2>1. PICK i \in 1..Len(batch) : d = batch[i] /\ IsLast(batch, i, Len(batch)) BY <1>2
  <2>2. PICK m \in 1..Len(batch) : e = batch[m] /\ IsLast(batch, m, Len(batch)) BY <1>2
  <2>3. ~(i < m) BY <1>1, <2>1, <2>2 DEF IsLast
  <2>4. ~(m < i) BY <1>1, <2>1, <2>2 DEF IsLast
  <2>5. i = m BY <2>3, <2>4
  <2> QED BY <2>1, <2>2, <2>5
<1> QED BY <1>1, <1>2, <1>3

\* What Store makes of kv.
LEMMA StoredIs ==
    ASSUME RequestInv, NEW t, NEW es \in SUBSET WriteEntry, OnePerKey(es), NEW j, Store(t, es, j)
    PROVE  /\ kv' \in [Key -> Values]
           /\ \A e \in es : kv'[e.key] = ValueOf(e)
           /\ \A k \in Key : (\A e \in es : e.key # k) => kv'[k] = kv[k]
<1> DEFINE keys == {e.key : e \in es}
           val(k) == ValueOf(CHOOSE e \in es : e.key = k)
<1>1. kv' = [k \in Key |-> IF k \in keys THEN val(k) ELSE kv[k]] BY DEF Store
<1>2. ASSUME NEW e \in es PROVE val(e.key) = ValueOf(e) /\ val(e.key) \in Values /\ e.key \in Key
  <2>1. (CHOOSE d \in es : d.key = e.key) = e BY DEF OnePerKey
  <2> QED BY <2>1, ValueOfType
<1>3. kv \in [Key -> Values] BY DEF RequestInv
<1> HIDE DEF val
<1>4. \A k \in keys : val(k) \in Values BY <1>2
<1> QED BY <1>1, <1>2, <1>3, <1>4

-----------------------------------------------------------------------------
(* A step of one request *)

LEMMA IdleOK == ASSUME NEW b, NEW m PROVE JobOK(Idle, b, m)
<1>1. IsJob(Idle) /\ Idle.pc = "idle" /\ Idle.batch = <<>> /\ Idle.committed = {} BY DEF Idle, IsJob
<1> QED BY <1>1 DEF JobOK, JobShape, JobBatch, JobScan, Writing

LEMMA OneJob ==
    ASSUME RequestInv, NEW t \in Thread, NEW j, JobOK(j, backend, kv), job' = [job EXCEPT ![t] = j],
           backend' = backend, kv' = kv, clock' \in Nat
    PROVE  RequestInv'
<1>1. DOMAIN job' = Thread BY DEF RequestInv
<1>2. ASSUME NEW u \in Thread PROVE JobOK(job'[u], backend', kv')
  <2>1. job'[u] = IF u = t THEN j ELSE job[u] BY DEF RequestInv
  <2> QED BY <2>1 DEF RequestInv
<1> QED BY <1>1, <1>2 DEF RequestInv

\* The requests of the others when thread t stores es.
LEMMA OtherJob ==
    ASSUME RequestInv, NEW t \in Thread, NEW es \in SUBSET WriteEntry, OnePerKey(es), NEW j, Store(t, es, j),
           NEW u \in Thread, u # t
    PROVE  JobOK(job'[u], backend, kv')
<1> DEFINE i == job[u]
           k == job'[u]
           keys == {e.key : e \in es}
<1>1. JobOK(i, backend, kv) BY DEF RequestInv
<1>2. \A x \in Key : x \notin keys => kv'[x] = kv[x] BY StoredIs
<1>3. k = IF i.pc = "scan" THEN [i EXCEPT !.was = [x \in Key |-> i.was[x] \cup {kv'[x]}]]
          ELSE IF i.batch # <<>> THEN [i EXCEPT !.others = i.others \cup (keys \cap KeysOf(i.batch))]
          ELSE i
  BY DEF Store
<1> HIDE DEF i, k, keys
<1> SUFFICES JobOK(k, backend, kv') BY DEF k
<1>4. IsJob(i) /\ i.pc \in {"idle", "scan", "hits"} \cup Writing BY <1>1 DEF JobOK, JobShape
<1>5. CASE i.pc = "scan"
  <2>1. /\ IsJob(k) /\ k.pc = "scan" /\ k.batch = i.batch /\ k.committed = i.committed
        /\ k.limit = i.limit /\ k.place = i.place /\ k.found = i.found /\ k.short = i.short
        /\ k.was = [x \in Key |-> i.was[x] \cup {kv'[x]}]
    BY <1>3, <1>4, <1>5 DEF IsJob
  <2>2. Scanning(i, kv) BY <1>1, <1>5 DEF JobOK, JobScan
  <2>3. \A x \in Key : i.was[x] \subseteq k.was[x] /\ kv'[x] \in k.was[x] BY <2>1
  <2>4. ASSUME NEW x \in InRange, Covered(i.found, i, x) PROVE Covered(k.found, k, x)
    <3> SUFFICES ASSUME NEW v \in Stored, k.was[x] = {v}
                 PROVE  (\E e \in k.found : e.key = x) \/ Cut(k.found, k.limit, x) \/ Full(k.found, k, x)
      BY DEF Covered
    <3>1. x \in Key BY KeyAssumption
    <3>2. kv[x] \in i.was[x] BY <2>2, <3>1 DEF Scanning
    <3>3. i.was[x] = {v} BY <2>3, <3>1, <3>2
    <3>4. (\E e \in i.found : e.key = x) \/ Cut(i.found, i.limit, x) \/ Full(i.found, i, x)
      BY <2>4, <3>3 DEF Covered
    <3>5. Full(i.found, i, x) => Full(k.found, k, x) BY <2>1 DEF Full
    <3> QED BY <2>1, <3>4, <3>5
  <2>5. Scanning(k, kv')
    <3>1. \A e \in k.found : e.key \in InRange /\ e.val \in k.was[e.key] \ {None} /\ Place[e.key] < k.place
      BY <2>1, <2>2, <2>3, KeyAssumption DEF Scanning
    <3>2. \A x \in InRange : Place[x] < k.place => Covered(k.found, k, x) BY <2>1, <2>2, <2>4 DEF Scanning
    <3> QED BY <2>1, <2>2, <2>3, <3>1, <3>2 DEF Scanning
  <2>6. JobShape(k, backend) BY <1>1, <1>5, <2>1 DEF JobOK, JobShape, Writing
  <2> QED BY <2>1, <2>5, <2>6 DEF JobOK, JobBatch, JobScan, Writing
<1>6. CASE i.pc \in {"idle", "hits"}
  <2>1. i.batch = <<>> BY <1>1, <1>6 DEF JobOK, JobShape, Writing
  <2>2. k = i BY <1>3, <1>6, <2>1
  <2> QED BY <1>1, <1>6, <2>2 DEF JobOK, JobBatch, JobScan, Writing
<1>7. CASE i.pc \in Writing
  <2>1. i.batch # <<>> /\ i.batch \in Seq(WriteEntry) BY <1>1, <1>7 DEF JobOK, JobShape
  <2>2. /\ IsJob(k) /\ k.pc = i.pc /\ k.batch = i.batch /\ k.committed = i.committed
        /\ k.next = i.next /\ k.left = i.left /\ k.was = i.was
        /\ k.others = i.others \cup (keys \cap KeysOf(i.batch))
    BY <1>3, <1>4, <1>7, <2>1 DEF IsJob, Writing
  <2>3. JobShape(k, backend)
    <3>1. MemShape(i) => MemShape(k) BY <2>2 DEF MemShape
    <3>2. EloqShape(i) => EloqShape(k) BY <2>2 DEF EloqShape
    <3> QED BY <1>1, <1>7, <2>2, <3>1, <3>2 DEF JobOK, JobShape, Writing
  <2>4. ASSUME NEW n \in DOMAIN i.batch, i.batch[n].key \notin k.others
        PROVE  i.batch[n].key \notin i.others /\ kv'[i.batch[n].key] = kv[i.batch[n].key]
    <3>1. i.batch[n].key \in KeysOf(i.batch) /\ i.batch[n] \in WriteEntry BY <2>1 DEF KeysOf
    <3>2. i.batch[n].key \in Key BY <3>1, ValueOfType
    <3> QED BY <1>2, <2>2, <2>4, <3>1, <3>2
  <2>5. CASE backend = "inmemory"
    <3>1. MemShape(i) /\ MemBatch(i, kv) BY <1>1, <1>7, <2>5 DEF JobOK, JobShape, JobBatch
    <3>2. 1..(i.next - 1) \subseteq DOMAIN i.batch BY <2>1, <3>1 DEF MemShape
    <3>3. MemBatch(k, kv') BY <2>2, <2>4, <3>1, <3>2 DEF MemBatch
    <3> QED BY <1>7, <2>2, <2>3, <2>5, <3>3 DEF JobOK, JobBatch, JobScan, Writing
  <2>6. CASE backend # "inmemory"
    <3>1. EloqBatch(i, kv) BY <1>1, <1>7, <2>6 DEF JobOK, JobBatch
    <3>2. EloqBatch(k, kv') BY <2>2, <2>4, <3>1 DEF EloqBatch
    <3> QED BY <1>7, <2>2, <2>3, <2>6, <3>2 DEF JobOK, JobBatch, JobScan, Writing
  <2> QED BY <2>5, <2>6
<1> QED BY <1>4, <1>5, <1>6, <1>7

\* A step that stores.
LEMMA StoreJob ==
    ASSUME RequestInv, NEW t \in Thread, NEW es \in SUBSET WriteEntry, OnePerKey(es), NEW j, Store(t, es, j),
           JobOK(j, backend, kv'), backend' = backend, clock' = clock
    PROVE  RequestInv'
<1>1. kv' \in [Key -> Values] BY StoredIs
<1>2. DOMAIN job' = Thread /\ job'[t] = j BY DEF Store
<1>3. ASSUME NEW u \in Thread PROVE JobOK(job'[u], backend', kv')
  <2>1. CASE u = t BY <1>2, <2>1
  <2>2. CASE u # t BY <2>2, OtherJob
  <2> QED BY <2>1, <2>2
<1> QED BY <1>1, <1>2, <1>3 DEF RequestInv

\* A request begins.
LEMMA BatchWriteOK == ASSUME RequestInv, NEW t \in Thread, BatchWrite(t) PROVE RequestInv'
<1>1. PICK b \in Batches :
        LET batch == [i \in DOMAIN b |-> [key |-> b[i].key, val |-> b[i].val, ts |-> clock + 1]]
        IN Begin(t, IF backend = "inmemory" THEN [Idle EXCEPT !.pc = "write", !.batch = batch, !.next = 1]
                    ELSE [Idle EXCEPT !.pc = "write", !.batch = batch, !.left = {Place[k] : k \in KeysOf(b)}])
  BY DEF BatchWrite
<1> DEFINE batch == [i \in DOMAIN b |-> [key |-> b[i].key, val |-> b[i].val, ts |-> clock + 1]]
           places == {Place[k] : k \in KeysOf(b)}
           now == [k \in Key |-> {kv[k]}]
           r == IF backend = "inmemory" THEN [Idle EXCEPT !.pc = "write", !.batch = batch, !.next = 1]
                ELSE [Idle EXCEPT !.pc = "write", !.batch = batch, !.left = places]
           j == [r EXCEPT !.was = now]
<1>2. clock < MaxReqs /\ job' = [job EXCEPT ![t] = j] /\ clock' = clock + 1 /\ backend' = backend /\ kv' = kv
  BY <1>1 DEF Begin
<1>3. b # <<>> /\ b \in Seq([key : Key, val : Val \cup {None}]) BY BatchAssumption
<1>4. clock \in Nat /\ clock + 1 \in 1..MaxReqs /\ clock' \in Nat
  <2>1. clock \in Nat /\ clock < MaxReqs /\ clock' = clock + 1 BY <1>1 DEF RequestInv, Begin
  <2>2. MaxReqs \in Nat BY BoundAssumption
  <2> QED BY <2>1, <2>2
<1>5. /\ DOMAIN b = 1..Len(b) /\ Len(b) \in Nat /\ Len(b) > 0
      /\ \A i \in 1..Len(b) : b[i].key \in Key /\ b[i].val \in Val \cup {None}
  <2> DEFINE E == [key : Key, val : Val \cup {None}]
  <2>1. b # <<>> /\ b \in Seq(E) BY <1>3
  <2>2. \A e \in E : e.key \in Key /\ e.val \in Val \cup {None} OBVIOUS
  <2> HIDE DEF E
  <2>3. DOMAIN b = 1..Len(b) /\ Len(b) \in Nat /\ \A i \in 1..Len(b) : b[i] \in E BY <2>1
  <2>4. Len(b) > 0 BY <2>1, <2>3
  <2> QED BY <2>2, <2>3, <2>4
<1>6. batch \in Seq(WriteEntry) /\ Len(batch) = Len(b) /\ batch # <<>>
  <2>1. \A i \in 1..Len(b) : [key |-> b[i].key, val |-> b[i].val, ts |-> clock + 1] \in WriteEntry
    BY <1>4, <1>5 DEF WriteEntry
  <2>2. batch \in [1..Len(b) -> WriteEntry] BY <1>5, <2>1
  <2> HIDE DEF batch
  <2>3. batch \in Seq(WriteEntry) /\ Len(batch) = Len(b) BY <1>5, <2>2
  <2> QED BY <1>5, <2>3
<1>7. \A i \in DOMAIN batch : batch[i].key = b[i].key /\ b[i].key \in KeysOf(b) /\ b[i].key \in Key BY <1>5 DEF KeysOf
<1>8. places \subseteq Places /\ places # {} /\ \A i \in DOMAIN batch : Place[batch[i].key] \in places
  <2>1. KeysOf(b) \subseteq Key /\ KeysOf(b) # {} BY <1>5 DEF KeysOf
  <2>2. \A k \in Key : Place[k] \in Places BY PlaceAssumption DEF Places
  <2> QED BY <1>7, <2>1, <2>2
<1>9. \A k \in Key : now[k] = {kv[k]} OBVIOUS
<1> HIDE DEF batch, places, now
<1>10. /\ IsJob(j) /\ j.pc = "write" /\ j.batch = batch /\ j.committed = {} /\ j.was = now
       /\ backend = "inmemory" => j.next = 1
       /\ backend # "inmemory" => j.left = places
  BY DEF IsJob, Idle
<1> HIDE DEF j, r
<1>11. backend = "inmemory" => MemShape(j) /\ MemBatch(j, kv)
  BY <1>5, <1>6, <1>10 DEF MemShape, MemBatch
<1>12. backend # "inmemory" => EloqShape(j) /\ EloqBatch(j, kv)
  BY <1>7, <1>8, <1>9, <1>10 DEF EloqShape, EloqBatch
<1>13. JobOK(j, backend, kv)
  BY <1>6, <1>10, <1>11, <1>12 DEF JobOK, JobShape, JobBatch, JobScan, Writing
<1> QED BY <1>2, <1>4, <1>13, OneJob

LEMMA ScanOK == ASSUME RequestInv, NEW t \in Thread, Scan(t) PROVE RequestInv'
<1>1. PICK limit \in Limits : Begin(t, [Idle EXCEPT !.pc = "scan", !.limit = limit]) BY DEF Scan
<1> DEFINE now == [k \in Key |-> {kv[k]}]
           j == [[Idle EXCEPT !.pc = "scan", !.limit = limit] EXCEPT !.was = now]
<1>2. job' = [job EXCEPT ![t] = j] /\ clock' = clock + 1 /\ backend' = backend /\ kv' = kv BY <1>1 DEF Begin
<1>3. /\ IsJob(j) /\ j.pc = "scan" /\ j.batch = <<>> /\ j.committed = {} /\ j.was = now
      /\ j.limit = limit /\ j.place = 0 /\ j.found = {}
  BY DEF IsJob, Idle
<1>4. \A k \in Key : kv[k] \in now[k] OBVIOUS
<1>5. limit \in Nat /\ 0 \in Places BY BoundAssumption, PlaceAssumption DEF Places
<1>a. clock' \in Nat BY <1>2 DEF RequestInv
<1> HIDE DEF j, now
<1>6. \A k \in InRange : ~(Place[k] < 0) BY KeyAssumption, PlaceAssumption
<1>7. Keyed({}) BY FS_EmptySet DEF Keyed, OnePerKey
<1>8. Scanning(j, kv) BY <1>3, <1>4, <1>5, <1>6, <1>7 DEF Scanning
<1>9. JobOK(j, backend, kv) BY <1>3, <1>8 DEF JobOK, JobShape, JobBatch, JobScan, Writing
<1> QED BY <1>2, <1>a, <1>9, OneJob

\* Requests that end.
LEMMA EndOK ==
    ASSUME RequestInv, NEW t \in Thread, job' = [job EXCEPT ![t] = Idle],
           backend' = backend, kv' = kv, clock' = clock
    PROVE  RequestInv'
BY IdleOK, OneJob DEF RequestInv

\* What follows an entry: the rest of the batch, the sizes, or nothing.
LEMMA ContinueOK ==
    ASSUME NEW r, NEW m, IsJob(r), backend \in {"inmemory", "eloqstore"},
           r.batch \in Seq(WriteEntry), r.batch # <<>>,
           backend = "inmemory" => /\ r.committed = {} /\ r.next \in 1..(Len(r.batch) + 1)
                                   /\ MemBatch(r, m),
           backend = "eloqstore" => /\ r.left \subseteq Places /\ r.committed \subseteq WriteEntry
                                    /\ \A e \in r.committed : Place[e.key] \notin r.left
                                    /\ EloqBatch(r, m)
    PROVE  JobOK(Continue(r), backend, m)
<1>1. CASE More(r)
  <2> DEFINE k == [r EXCEPT !.pc = "write"]
  <2>1. /\ IsJob(k) /\ k.pc = "write" /\ k.batch = r.batch /\ k.committed = r.committed /\ k.next = r.next
        /\ k.left = r.left /\ k.was = r.was /\ k.others = r.others
    BY DEF IsJob
  <2>2. Continue(r) = k BY <1>1 DEF Continue
  <2> HIDE DEF k
  <2>3. CASE backend = "inmemory"
    <3>1. MemShape(k) /\ MemBatch(k, m) BY <1>1, <2>1, <2>3 DEF MemShape, MemBatch, More
    <3>2. JobOK(k, backend, m) BY <2>1, <2>3, <3>1 DEF JobOK, JobShape, JobBatch, JobScan, Writing
    <3> QED BY <2>2, <3>2
  <2>4. CASE backend = "eloqstore"
    <3>1. EloqShape(k) /\ EloqBatch(k, m) BY <1>1, <2>1, <2>4 DEF EloqShape, EloqBatch, More
    <3>2. JobOK(k, backend, m) BY <2>1, <2>4, <3>1 DEF JobOK, JobShape, JobBatch, JobScan, Writing
    <3> QED BY <2>2, <3>2
  <2> QED BY <2>3, <2>4
<1>2. CASE ~More(r) /\ r.committed # {}
  <2> DEFINE k == [r EXCEPT !.pc = "usage"]
  <2>1. /\ IsJob(k) /\ k.pc = "usage" /\ k.batch = r.batch /\ k.committed = r.committed
        /\ k.left = r.left /\ k.was = r.was /\ k.others = r.others
    BY DEF IsJob
  <2>2. Continue(r) = k BY <1>2 DEF Continue
  <2>3. backend = "eloqstore" BY <1>2
  <2> HIDE DEF k
  <2>4. EloqShape(k) /\ EloqBatch(k, m) BY <1>2, <2>1, <2>3 DEF EloqShape, EloqBatch, More
  <2>5. JobOK(k, backend, m) BY <2>1, <2>3, <2>4 DEF JobOK, JobShape, JobBatch, JobScan, Writing
  <2> QED BY <2>2, <2>5
<1>3. CASE ~More(r) /\ r.committed = {}
  <2>1. Continue(r) = Idle BY <1>3 DEF Continue
  <2> QED BY <2>1, IdleOK
<1> QED BY <1>1, <1>2, <1>3

LEMMA ChargeOK == ASSUME RequestInv, NEW t \in Thread, Charge(t) PROVE RequestInv'
<1> DEFINE j == job[t]
           r == [j EXCEPT !.lock = None, !.items = 0, !.bytes = 0]
           k == Continue(r)
<1>1. j.pc = "charge" /\ job' = [job EXCEPT ![t] = k] /\ backend' = backend /\ kv' = kv /\ clock' = clock
  BY DEF Charge
<1>2. JobOK(j, backend, kv) /\ backend \in {"inmemory", "eloqstore"} /\ clock \in Nat BY DEF RequestInv
<1> HIDE DEF j
<1>3. IsJob(j) /\ j.batch \in Seq(WriteEntry) /\ j.batch # <<>> BY <1>1, <1>2 DEF JobOK, JobShape, Writing
<1>4. /\ IsJob(r) /\ r.batch = j.batch /\ r.committed = j.committed /\ r.next = j.next
      /\ r.left = j.left /\ r.was = j.was /\ r.others = j.others
  BY <1>3 DEF IsJob
<1> HIDE DEF r, k
<1>5. ASSUME backend = "inmemory"
      PROVE  r.committed = {} /\ r.next \in 1..(Len(r.batch) + 1) /\ MemBatch(r, kv)
  <2>1. MemShape(j) /\ MemBatch(j, kv) BY <1>1, <1>2, <1>5 DEF JobOK, JobShape, JobBatch, Writing
  <2> QED BY <1>4, <2>1 DEF MemShape, MemBatch
<1>6. ASSUME backend = "eloqstore"
      PROVE  /\ r.left \subseteq Places /\ r.committed \subseteq WriteEntry
             /\ \A e \in r.committed : Place[e.key] \notin r.left
             /\ EloqBatch(r, kv)
  <2>1. EloqShape(j) /\ EloqBatch(j, kv) BY <1>1, <1>2, <1>6 DEF JobOK, JobShape, JobBatch, Writing
  <2> QED BY <1>4, <2>1 DEF EloqShape, EloqBatch
<1>7. JobOK(k, backend, kv) BY <1>2, <1>3, <1>4, <1>5, <1>6, ContinueOK DEF k
<1> QED BY <1>1, <1>2, <1>7, OneJob

LEMMA MemPutOK == ASSUME RequestInv, NEW t \in Thread, MemPut(t) PROVE RequestInv'
<1> DEFINE j == job[t]
           e == j.batch[j.next]
           items == Present(ValueOf(e)) - Present(kv[e.key])
           bytes == Footprint(ValueOf(e)) - Footprint(kv[e.key])
           lock == MemLock(e.key)
           k == [j EXCEPT !.pc = "charge", !.next = j.next + 1, !.lock = lock, !.items = items, !.bytes = bytes]
<1>1. backend = "inmemory" /\ j.pc = "write" /\ Store(t, {e}, k) /\ backend' = backend /\ clock' = clock
  BY DEF MemPut
<1>2. JobOK(j, backend, kv) BY DEF RequestInv
<1> HIDE DEF j, items, bytes, lock
<1>3. /\ IsJob(j) /\ j.batch \in Seq(WriteEntry) /\ j.batch # <<>>
      /\ MemShape(j) /\ MemBatch(j, kv) /\ j.next \in 1..Len(j.batch)
  BY <1>1, <1>2 DEF JobOK, JobShape, JobBatch, Writing, MemShape
<1>4. e \in WriteEntry BY <1>3
<1>5. /\ IsJob(k) /\ k.pc = "charge" /\ k.batch = j.batch /\ k.committed = j.committed /\ k.next = j.next + 1
      /\ k.others = j.others
  BY <1>3 DEF IsJob
<1> HIDE DEF e, k
<1>6. OnePerKey({e}) /\ {e} \in SUBSET WriteEntry BY <1>4 DEF OnePerKey
<1>7. kv'[e.key] = ValueOf(e) /\ \A x \in Key : x # e.key => kv'[x] = kv[x] BY <1>1, <1>6, StoredIs
<1>8. MemShape(k) BY <1>3, <1>5 DEF MemShape
<1>9. MemBatch(k, kv')
  <2> SUFFICES ASSUME NEW i \in 1..(k.next - 1), IsLast(k.batch, i, k.next - 1), k.batch[i].key \notin k.others
               PROVE  kv'[k.batch[i].key] = ValueOf(k.batch[i])
    BY DEF MemBatch
  <2>1. k.next - 1 = j.next /\ i \in 1..j.next /\ j.next \in Nat /\ j.batch[i] \in WriteEntry
    BY <1>3, <1>5
  <2>2. CASE i = j.next BY <1>5, <1>7, <2>2 DEF e
  <2>3. CASE i # j.next
    <3>1. i \in 1..(j.next - 1) /\ j.next \in (i + 1)..j.next BY <2>1, <2>3
    <3>2. IsLast(j.batch, i, j.next - 1) /\ j.batch[i].key # e.key BY <1>5, <2>1, <3>1 DEF IsLast, e
    <3>3. j.batch[i].key \in Key BY <2>1, ValueOfType
    <3>4. kv[j.batch[i].key] = ValueOf(j.batch[i]) BY <1>3, <1>5, <3>1, <3>2 DEF MemBatch
    <3> QED BY <1>5, <1>7, <3>2, <3>3, <3>4
  <2> QED BY <2>2, <2>3
<1>10. JobOK(k, backend, kv')
  BY <1>1, <1>3, <1>5, <1>8, <1>9 DEF JobOK, JobShape, JobBatch, JobScan, Writing
<1> QED BY <1>1, <1>6, <1>10, StoreJob

\* The smallest of the partitions that are left is one of them.
LEMMA MinIn == ASSUME NEW S \in SUBSET Nat, S # {} PROVE Min(S) \in S
<1>1. \E x \in S : \A y \in S : x <= y BY LeastNat
<1> QED BY <1>1 DEF Min

LEMMA EloqWriteOK == ASSUME RequestInv, NEW t \in Thread, EloqWrite(t) PROVE RequestInv'
<1> DEFINE j == job[t]
           p == Min(j.left)
           es == Kept(j.batch, p)
           left == j.left \ {p}
           written == j.committed \cup es
           r == [j EXCEPT !.left = left, !.committed = written]
           k == Continue(r)
<1>1. backend = "eloqstore" /\ j.pc = "write" /\ Store(t, es, k) /\ backend' = backend /\ clock' = clock
  BY DEF EloqWrite
<1>2. JobOK(j, backend, kv) BY DEF RequestInv
<1> HIDE DEF j, p
<1>3. /\ IsJob(j) /\ j.batch \in Seq(WriteEntry) /\ j.batch # <<>> /\ EloqShape(j) /\ EloqBatch(j, kv)
  BY <1>1, <1>2 DEF JobOK, JobShape, JobBatch, Writing
<1>4. /\ es \subseteq WriteEntry /\ OnePerKey(es) /\ \A e \in es : Place[e.key] = p
      /\ \A i \in DOMAIN j.batch :
           (IsLast(j.batch, i, Len(j.batch)) /\ Place[j.batch[i].key] = p) => j.batch[i] \in es
  BY <1>3, KeptIs
<1> HIDE DEF es
<1>5. /\ IsJob(r) /\ r.batch = j.batch /\ r.committed = written
      /\ r.left = left /\ r.was = j.was /\ r.others = j.others
  BY <1>3 DEF IsJob
<1> HIDE DEF r, k
<1>6. /\ \A e \in es : kv'[e.key] = ValueOf(e)
      /\ \A x \in Key : (\A e \in es : e.key # x) => kv'[x] = kv[x]
  BY <1>1, <1>4, StoredIs
<1>7. \A x \in Key : Place[x] # p => kv'[x] = kv[x] BY <1>4, <1>6
<1>8. EloqBatch(r, kv')
  <2> SUFFICES ASSUME NEW i \in DOMAIN j.batch, j.batch[i].key \notin j.others
               PROVE  /\ (IsLast(j.batch, i, Len(j.batch)) /\ Place[j.batch[i].key] \notin left)
                            => kv'[j.batch[i].key] = ValueOf(j.batch[i])
                      /\ Place[j.batch[i].key] \in left => kv'[j.batch[i].key] \in j.was[j.batch[i].key]
    BY <1>5 DEF EloqBatch
  <2> DEFINE x == j.batch[i].key
  <2>1. x \in Key BY <1>3, ValueOfType
  <2>2. /\ (IsLast(j.batch, i, Len(j.batch)) /\ Place[x] \notin j.left) => kv[x] = ValueOf(j.batch[i])
        /\ Place[x] \in j.left => kv[x] \in j.was[x]
    BY <1>3 DEF EloqBatch
  <2>3. CASE Place[x] = p BY <1>4, <1>6, <2>3
  <2>4. CASE Place[x] # p
    <3>1. kv'[x] = kv[x] /\ (Place[x] \in left <=> Place[x] \in j.left) BY <1>7, <2>1, <2>4
    <3> QED BY <2>2, <3>1
  <2> QED BY <2>3, <2>4
<1>9. /\ r.left \subseteq Places /\ r.committed \subseteq WriteEntry
      /\ \A e \in r.committed : Place[e.key] \notin r.left
  BY <1>3, <1>4, <1>5 DEF EloqShape
<1>10. JobOK(k, backend, kv') BY <1>1, <1>3, <1>5, <1>8, <1>9, ContinueOK DEF k
<1> QED BY <1>1, <1>4, <1>10, StoreJob

\* The next entry to count is one of them.
LEMMA NextCommittedIn ==
    ASSUME NEW es \in SUBSET WriteEntry, es # {}
    PROVE  NextCommitted(es) \in es
<1>0. \A e \in es : e.key \in Key /\ e.key \in Nat /\ Place[e.key] \in Nat
  <2>1. \A e \in es : e.key \in Key BY ValueOfType
  <2>2. \A k \in Key : k \in Nat /\ Place[k] \in Nat BY KeyAssumption, PlaceAssumption
  <2> QED BY <2>1, <2>2
<1> DEFINE P == {Place[e.key] : e \in es}
<1>1. P \in SUBSET Nat /\ P # {} BY <1>0
<1>2. PICK p \in P : \A q \in P : p <= q
  <2> HIDE DEF P
  <2> QED BY <1>1, LeastNat
<1> DEFINE K == {e.key : e \in {d \in es : Place[d.key] = p}}
<1>3. K \in SUBSET Nat /\ K # {} BY <1>0
<1>4. PICK k \in K : \A q \in K : k <= q
  <2> HIDE DEF K
  <2> QED BY <1>3, LeastNat
<1>5. PICK e \in es : Place[e.key] = p /\ e.key = k OBVIOUS
<1>6. ASSUME NEW d \in es
      PROVE  Place[e.key] < Place[d.key] \/ (Place[e.key] = Place[d.key] /\ e.key <= d.key)
  <2>1. p <= Place[d.key] /\ p \in Nat /\ Place[d.key] \in Nat BY <1>0, <1>1, <1>2
  <2>2. Place[d.key] = p => e.key <= d.key BY <1>4, <1>5
  <2> QED BY <1>5, <2>1, <2>2
<1>7. \E x \in es : \A d \in es :
        Place[x.key] < Place[d.key] \/ (Place[x.key] = Place[d.key] /\ x.key <= d.key)
  BY <1>6
<1> QED BY <1>7 DEF NextCommitted

\* What EloqUsage knows.
LEMMA UsageKnows ==
    ASSUME RequestInv, NEW t \in Thread, job[t].pc = "usage"
    PROVE  /\ backend = "eloqstore" /\ IsJob(job[t]) /\ job[t].committed \subseteq WriteEntry
           /\ NextCommitted(job[t].committed) \in job[t].committed
<1> DEFINE j == job[t]
<1>1. JobOK(j, backend, kv) /\ backend \in {"inmemory", "eloqstore"} BY DEF RequestInv
<1>2. j.pc = "usage" OBVIOUS
<1> HIDE DEF j
<1>3. IsJob(j) /\ backend = "eloqstore" /\ EloqShape(j)
  BY <1>1, <1>2 DEF JobOK, JobShape, MemShape, Writing
<1>4. j.committed \subseteq WriteEntry /\ j.committed # {} BY <1>2, <1>3 DEF EloqShape
<1>5. NextCommitted(j.committed) \in j.committed BY <1>4, NextCommittedIn
<1> QED BY <1>3, <1>4, <1>5 DEF j

LEMMA EloqUsageOK == ASSUME RequestInv, NEW t \in Thread, EloqUsage(t) PROVE RequestInv'
<1> DEFINE j == job[t]
           e == NextCommitted(j.committed)
           new == SizeOf(ValueOf(e))
           rest == j.committed \ {e}
           items == Count(new) - Count(sizes[e.key])
           bytes == Resized(sizes[e.key], new)
           k == [j EXCEPT !.pc = "charge", !.committed = rest, !.lock = "usage_mu",
                          !.items = items, !.bytes = bytes]
<1>1. j.pc = "usage" /\ job' = [job EXCEPT ![t] = k] /\ backend' = backend /\ kv' = kv /\ clock' = clock
  BY DEF EloqUsage
<1>2. JobOK(j, backend, kv) /\ backend = "eloqstore" /\ clock \in Nat BY <1>1, UsageKnows DEF RequestInv
<1> HIDE DEF j, e, items, bytes
<1>3. /\ IsJob(j) /\ j.batch \in Seq(WriteEntry) /\ j.batch # <<>> /\ EloqShape(j) /\ EloqBatch(j, kv)
  BY <1>1, <1>2 DEF JobOK, JobShape, JobBatch, Writing
<1>4. /\ IsJob(k) /\ k.pc = "charge" /\ k.batch = j.batch /\ k.committed = rest /\ k.left = j.left
      /\ k.was = j.was /\ k.others = j.others
  BY <1>3 DEF IsJob
<1> HIDE DEF k
<1>5. EloqShape(k) /\ EloqBatch(k, kv) BY <1>1, <1>3, <1>4 DEF EloqShape, EloqBatch
<1>6. JobOK(k, backend, kv) BY <1>2, <1>3, <1>4, <1>5 DEF JobOK, JobShape, JobBatch, JobScan, Writing
<1> QED BY <1>1, <1>2, <1>6, OneJob

-----------------------------------------------------------------------------
(* Scans *)

\* What a place holds.
LEMMA HitsAre ==
    ASSUME RequestInv, NEW place
    PROVE  /\ Keyed(Hits(place))
           /\ \A e \in Hits(place) :
                e.key \in InRange /\ Place[e.key] = place /\ e.val = kv[e.key] /\ e.val # None
           /\ \A k \in InRange : (Place[k] = place /\ kv[k] # None) => \E e \in Hits(place) : e.key = k
<1> DEFINE H == Hits(place)
           K == {k \in InRange : Place[k] = place /\ kv[k] # None}
           hit(k) == [key |-> k, val |-> kv[k]]
<1>1. H = {hit(k) : k \in K} BY DEF Hits
<1>2. \A k : hit(k).key = k /\ hit(k).val = kv[k] OBVIOUS
<1>3. IsFiniteSet(H)
  <2>1. IsFiniteSet(K)
    <3>1. K \subseteq Key /\ IsFiniteSet(Key) BY KeyAssumption
    <3> HIDE DEF K
    <3> QED BY <3>1, FS_Subset
  <2> DEFINE f == [k \in K |-> hit(k)]
  <2>2. H = {f[k] : k \in K} BY <1>1
  <2>3. f \in Surjection(K, H) BY <2>2 DEF Surjection
  <2> HIDE DEF f, H, K
  <2> QED BY <2>1, <2>3, FS_Surjection
<1>4. \A k \in K : k \in InRange /\ k \in Nat /\ Place[k] = place /\ kv[k] # None BY KeyAssumption
<1> HIDE DEF H, K, hit
<1>5. \A e \in H : \E k \in K : e = hit(k) BY <1>1
<1>6. Keyed(H) BY <1>2, <1>3, <1>4, <1>5 DEF Keyed, OnePerKey
<1>7. \A e \in H : e.key \in InRange /\ Place[e.key] = place /\ e.val = kv[e.key] /\ e.val # None
  BY <1>2, <1>4, <1>5
<1>8. \A k \in InRange : (Place[k] = place /\ kv[k] # None) => \E e \in H : e.key = k
  BY <1>1, <1>2 DEF K
<1> QED BY <1>6, <1>7, <1>8 DEF H

\* What one request of a Scan brings: entries of the place, and all of them but
\* those the limit or the bytes of the page cut off.
LEMMA PageIs ==
    ASSUME RequestInv, NEW place, NEW limit \in Nat, NEW G \in Pages(place, limit)
    PROVE  /\ Keyed(G)
           /\ \A e \in G : e.key \in InRange /\ Place[e.key] = place /\ e.val = kv[e.key] /\ e.val # None
           /\ \A k \in InRange : (Place[k] = place /\ kv[k] # None) =>
                \/ \E e \in G : e.key = k
                \/ Cut(G, limit, k)
                \/ limit > 0 /\ CutByBytes(G, place, limit) /\ \A e \in G : e.key < k
<1> DEFINE H == Hits(place)
<1>1. /\ Keyed(H)
      /\ \A e \in H : e.key \in InRange /\ Place[e.key] = place /\ e.val = kv[e.key] /\ e.val # None
      /\ \A k \in InRange : (Place[k] = place /\ kv[k] # None) => \E e \in H : e.key = k
  BY HitsAre
<1>2. CASE backend = "inmemory" \/ limit = 0
  <2>1. G = H BY <1>2 DEF Pages
  <2> HIDE DEF H
  <2> QED BY <1>1, <2>1
<1>3. CASE ~(backend = "inmemory" \/ limit = 0)
  <2> DEFINE s == First(limit, ByKey(H))
  <2>1. \E m \in 0..Len(s) : G = {s[i] : i \in 1..m} BY <1>3 DEF Pages
  <2>2. PICK n : FirstOf(s, n, H, limit) BY <1>1, FirstIs
  <2>a. limit > 0 BY <1>3
  <2>b. CutByBytes(G, place, limit) <=> Cardinality(G) < Cardinality(H) /\ (limit = 0 \/ Cardinality(G) < limit)
    BY DEF CutByBytes
  <2> HIDE DEF H, s
  <2>3. /\ n \in Nat /\ s \in [1..n -> H] /\ Len(s) = n /\ Ascending(s)
        /\ \A e \in H : (\E i \in 1..n : s[i] = e) \/ (limit > 0 /\ n = limit /\ s[limit].key < e.key)
    BY <2>2 DEF FirstOf
  <2>c. PICK m \in 0..n : G = {s[i] : i \in 1..m} BY <2>1, <2>3
  <2>d. m \in Nat /\ 1..m \subseteq 1..n /\ \A i \in 1..m : s[i] \in H /\ s[i] \in G BY <2>3, <2>c
  <2>4. G \subseteq H BY <2>c, <2>d
  <2>5. Keyed(G) BY <1>1, <2>4, FS_Subset DEF Keyed, OnePerKey
  <2>e. Cardinality(G) \in Nat /\ Cardinality(G) <= m
    <3> DEFINE f == [i \in 1..m |-> s[i]]
    <3>1. f \in Surjection(1..m, G) BY <2>c, <2>d DEF Surjection
    <3>2. IsFiniteSet(1..m) /\ Cardinality(1..m) = m BY <2>d, FS_Interval
    <3>3. Cardinality(G) <= Cardinality(1..m) BY <3>1, <3>2, FS_Surjection
    <3>4. Cardinality(G) \in Nat BY <2>5, FS_CardinalityType DEF Keyed
    <3> QED BY <3>2, <3>3, <3>4
  <2>6. ASSUME NEW k \in InRange, Place[k] = place, kv[k] # None
        PROVE  \/ \E e \in G : e.key = k
               \/ Cut(G, limit, k)
               \/ limit > 0 /\ CutByBytes(G, place, limit) /\ \A e \in G : e.key < k
    <3> SUFFICES ASSUME ~ \E e \in G : e.key = k
                 PROVE  Cut(G, limit, k) \/ (CutByBytes(G, place, limit) /\ \A e \in G : e.key < k)
      BY <2>a
    <3>1. PICK e \in H : e.key = k BY <1>1, <2>6
    <3>2. \A d \in H : d.key \in Nat BY <1>1 DEF Keyed
    <3>3. \A i \in 1..m : s[i].key < k
      <4> SUFFICES ASSUME NEW i \in 1..m PROVE s[i].key < k OBVIOUS
      <4>1. i \in 1..n BY <2>d
      <4>2. CASE \E x \in 1..n : s[x] = e
        <5>1. PICK x \in 1..n : s[x] = e BY <4>2
        <5>2. x \notin 1..m BY <2>d, <3>1, <5>1
        <5>3. i < x BY <2>d, <5>1, <5>2
        <5> QED BY <2>3, <3>1, <4>1, <5>1, <5>3 DEF Ascending
      <4>3. CASE n = limit /\ s[limit].key < e.key
        <5>1. limit \in 1..n BY <2>a, <2>3, <4>3
        <5>2. i < limit => s[i].key < s[limit].key BY <2>3, <4>1, <5>1 DEF Ascending
        <5>3. i = limit \/ i < limit BY <4>1, <4>3
        <5>4. s[i].key \in Nat /\ s[limit].key \in Nat /\ e.key \in Nat BY <2>3, <3>2, <4>1, <5>1
        <5> QED BY <3>1, <4>3, <5>2, <5>3, <5>4
      <4> QED BY <2>3, <4>2, <4>3
    <3>4. \A d \in G : d.key < k BY <2>c, <3>3
    <3>5. CASE m = limit
      <4> DEFINE r == [i \in 1..limit |-> s[i]]
      <4>1. r \in [1..limit -> G] BY <2>d, <3>5
      <4>2. Ascending(r)
        <5> SUFFICES ASSUME NEW i \in 1..limit, NEW x \in 1..limit, i < x PROVE s[i].key < s[x].key
          BY DEF Ascending
        <5>1. i \in 1..n /\ x \in 1..n BY <2>d, <3>5
        <5> QED BY <2>3, <5>1 DEF Ascending
      <4>3. limit \in 1..limit BY <2>a
      <4>4. r[limit].key < k BY <3>3, <3>5, <4>3
      <4> HIDE DEF r
      <4> QED BY <2>a, <4>1, <4>2, <4>4 DEF Cut
    <3>6. CASE m # limit
      <4>1. m < limit
        <5>1. n <= limit
          <6>1. ~(limit > 0 /\ Len(ByKey(H)) > limit) \/ Len(s) = limit
            <7>1. CASE limit > 0 /\ Len(ByKey(H)) > limit
              <8>1. s = [i \in 1..limit |-> ByKey(H)[i]] BY <7>1 DEF First, s
              <8>2. Len([i \in 1..limit |-> ByKey(H)[i]]) = limit OBVIOUS
              <8> QED BY <8>1, <8>2
            <7> QED BY <7>1
          <6>2. ~(limit > 0 /\ Len(ByKey(H)) > limit) => s = ByKey(H) BY DEF First, s
          <6>3. Len(ByKey(H)) \in Nat BY <1>1, ByKeySorted
          <6> QED BY <2>a, <2>3, <6>1, <6>2, <6>3
        <5> QED BY <2>3, <2>d, <3>6, <5>1
      <4>2. e \in H /\ e \notin G BY <3>1
      <4>3. Cardinality(G) < Cardinality(H)
        <5>1. IsFiniteSet(H) BY <1>1 DEF Keyed
        <5>2. Cardinality(G) <= Cardinality(H) /\ (Cardinality(H) = Cardinality(G) => H = G)
          BY <2>4, <5>1, FS_Subset
        <5>3. Cardinality(H) \in Nat BY <5>1, FS_CardinalityType
        <5> QED BY <2>e, <4>2, <5>2, <5>3
      <4>4. Cardinality(G) < limit BY <2>d, <2>e, <4>1
      <4> QED BY <2>b, <3>4, <4>3, <4>4
    <3> QED BY <3>5, <3>6
  <2>7. \A e \in G : e.key \in InRange /\ Place[e.key] = place /\ e.val = kv[e.key] /\ e.val # None
    BY <1>1, <2>4
  <2> QED BY <2>5, <2>6, <2>7
<1> QED BY <1>2, <1>3

\* All places are read: the hits are faithful.
LEMMA ScanDone ==
    ASSUME NEW j, NEW es, Keyed(es), j.limit \in Nat, j.out = First(j.limit, ByKey(es)),
           \A e \in es : e.key \in InRange /\ e.val \in j.was[e.key] \ {None},
           \A k \in InRange : Covered(es, j, k)
    PROVE  Faithful(j)
<1> DEFINE out == j.out
           limit == j.limit
<1>0. out = First(limit, ByKey(es)) /\ limit \in Nat OBVIOUS
<1>1. PICK n : FirstOf(out, n, es, limit) BY FirstIs
<1>2. /\ n \in Nat /\ out \in [1..n -> es] /\ Len(out) = n /\ Ascending(out)
      /\ \A e \in es : (\E i \in 1..n : out[i] = e) \/ (limit > 0 /\ n = limit /\ out[limit].key < e.key)
  BY <1>1 DEF FirstOf
<1>3. \A i \in DOMAIN out : out[i].key \in InRange /\ out[i].val \in j.was[out[i].key] \ {None} BY <1>2
<1>4. \A i, m \in DOMAIN out : i < m => out[i].key < out[m].key BY <1>2 DEF Ascending
<1>5. ASSUME NEW k \in InRange, \E v \in Stored : j.was[k] = {v}
      PROVE  \/ \E i \in DOMAIN out : out[i].key = k
             \/ limit > 0 /\ Len(out) = limit /\ out[Len(out)].key < k
             \/ /\ limit > 0 /\ Place[k] \in j.short
                /\ \A i \in DOMAIN out : Place[out[i].key] = Place[k] => out[i].key < k
  <2>1. CASE \E e \in es : e.key = k BY <1>2, <2>1
  <2>2. CASE Cut(es, limit, k)
    <3>1. k \in Nat BY KeyAssumption
    <3>2. n = Len(out) BY <1>2
    <3> HIDE DEF out, limit
    <3>3. limit > 0 /\ n = limit /\ out[n].key < k BY <1>0, <2>2, <3>1, <3>2, CutStays
    <3> QED BY <3>2, <3>3
  <2>3. CASE Full(es, j, k)
    <3>1. \A i \in DOMAIN out : out[i] \in es BY <1>2
    <3> QED BY <2>3, <3>1 DEF Full
  <2> QED BY <1>5, <2>1, <2>2, <2>3 DEF Covered
<1> HIDE DEF out
<1> QED BY <1>3, <1>4, <1>5 DEF Faithful, out

LEMMA ReadPageIs ==
    ASSUME NEW j, IsJob(j), NEW G
    PROVE  LET i == ReadPage(j, G) IN
           /\ IsJob(i) /\ i.pc = j.pc /\ i.batch = j.batch /\ i.committed = j.committed /\ i.was = j.was
           /\ i.items = j.items /\ i.bytes = j.bytes /\ i.lock = j.lock
           /\ i.limit = j.limit /\ i.place = j.place /\ i.found = j.found \cup G
           /\ i.short = j.short \cup (IF CutByBytes(G, j.place, j.limit) THEN {j.place} ELSE {})
BY DEF ReadPage, IsJob

LEMMA ScanPlaceOK == ASSUME RequestInv, NEW t \in Thread, ScanPlace(t) PROVE RequestInv'
<1> DEFINE j == job[t]
<1>a. PICK G \in Pages(j.place, j.limit) : job' = [job EXCEPT ![t] = NextPlace(ReadPage(j, G))] BY DEF ScanPlace
<1> DEFINE i == ReadPage(j, G)
           k == NextPlace(i)
           F == j.found \cup G
           out == First(i.limit, ByKey(i.found))
<1>1. j.pc = "scan" /\ job' = [job EXCEPT ![t] = k] /\ backend' = backend /\ kv' = kv /\ clock' = clock
  BY <1>a DEF ScanPlace
<1>2. JobOK(j, backend, kv) /\ clock \in Nat BY DEF RequestInv
<1>b. j.limit \in Nat BY <1>1, <1>2 DEF JobOK, JobScan, Scanning
<1>3. /\ Keyed(G)
      /\ \A e \in G : e.key \in InRange /\ Place[e.key] = j.place /\ e.val = kv[e.key] /\ e.val # None
      /\ \A x \in InRange : (Place[x] = j.place /\ kv[x] # None) =>
           \/ \E e \in G : e.key = x
           \/ Cut(G, j.limit, x)
           \/ j.limit > 0 /\ CutByBytes(G, j.place, j.limit) /\ \A e \in G : e.key < x
  BY <1>b, PageIs
<1> HIDE DEF j
<1>4. IsJob(j) /\ j.batch = <<>> /\ j.committed = {} /\ Scanning(j, kv)
  BY <1>1, <1>2 DEF JobOK, JobShape, JobScan, Writing
<1>c. /\ IsJob(i) /\ i.pc = "scan" /\ i.batch = <<>> /\ i.committed = {} /\ i.was = j.was
      /\ i.limit = j.limit /\ i.place = j.place /\ i.found = F
      /\ i.short = j.short \cup (IF CutByBytes(G, j.place, j.limit) THEN {j.place} ELSE {})
  BY <1>1, <1>4, ReadPageIs
<1> HIDE DEF i
<1>5. /\ j.limit \in Nat /\ j.place \in Places
      /\ \A x \in Key : kv[x] \in j.was[x]
      /\ Keyed(j.found)
      /\ \A e \in j.found : e.key \in InRange /\ e.val \in j.was[e.key] \ {None} /\ Place[e.key] < j.place
      /\ \A x \in InRange : Place[x] < j.place => Covered(j.found, j, x)
  BY <1>4 DEF Scanning
<1>6. j.place \in Nat /\ NumPlaces \in Nat /\ j.place < NumPlaces /\ \A x \in InRange : Place[x] \in Nat /\ Place[x] < NumPlaces
  BY <1>5, PlaceAssumption, KeyAssumption DEF Places
<1>7. Keyed(F)
  <2>1. IsFiniteSet(F)
    <3>1. IsFiniteSet(j.found) /\ IsFiniteSet(G) BY <1>3, <1>5 DEF Keyed
    <3> QED BY <3>1, FS_Union
  <2>2. \A d \in j.found, e \in G : d.key # e.key BY <1>3, <1>5, <1>6
  <2>3. OnePerKey(F) BY <1>3, <1>5, <2>2 DEF Keyed, OnePerKey
  <2>4. \A e \in F : e.key \in Nat BY <1>3, <1>5 DEF Keyed
  <2> QED BY <2>1, <2>3, <2>4 DEF Keyed
<1>8. \A e \in F : e.key \in InRange /\ e.val \in j.was[e.key] \ {None} /\ Place[e.key] < j.place + 1
  <2>1. ASSUME NEW e \in G PROVE e.key \in InRange /\ e.val \in j.was[e.key] \ {None} /\ Place[e.key] < j.place + 1
    <3>1. e.key \in Key BY <1>3, KeyAssumption
    <3>2. e.val \in j.was[e.key] BY <1>3, <1>5, <3>1
    <3> QED BY <1>3, <1>6, <3>2
  <2>2. ASSUME NEW e \in j.found PROVE e.key \in InRange /\ e.val \in j.was[e.key] \ {None} /\ Place[e.key] < j.place + 1
    <3>1. e.key \in InRange /\ e.val \in j.was[e.key] \ {None} /\ Place[e.key] < j.place BY <1>5
    <3> QED BY <1>6, <3>1
  <2> QED BY <2>1, <2>2
<1>9. ASSUME NEW x \in InRange, Place[x] < j.place + 1, NEW v \in Stored, j.was[x] = {v}
      PROVE  (\E e \in F : e.key = x) \/ Cut(F, j.limit, x) \/ Full(F, i, x)
  <2>1. x \in Key BY KeyAssumption
  <2>2. \A E : Cut(E, j.limit, x) /\ E \subseteq F => Cut(F, j.limit, x) BY DEF Cut
  <2>3. CASE Place[x] < j.place
    <3>1. (\E e \in j.found : e.key = x) \/ Cut(j.found, j.limit, x) \/ Full(j.found, j, x)
      BY <1>5, <1>9, <2>3 DEF Covered
    <3>2. ASSUME Full(j.found, j, x) PROVE Full(F, i, x)
      <4>1. \A e \in G : Place[e.key] # Place[x] BY <1>3, <1>6, <2>3
      <4>2. \A e \in F : Place[e.key] = Place[x] => e.key < x BY <3>2, <4>1 DEF Full
      <4>3. i.limit > 0 /\ Place[x] \in i.short BY <1>c, <3>2 DEF Full
      <4> HIDE DEF F
      <4> QED BY <4>2, <4>3 DEF Full
    <3> QED BY <2>2, <3>1, <3>2
  <2>4. CASE Place[x] = j.place
    <3>1. kv[x] = v /\ v # None BY <1>5, <1>9, <2>1, StoredNotNone
    <3>2. \/ \E e \in G : e.key = x
          \/ Cut(G, j.limit, x)
          \/ j.limit > 0 /\ CutByBytes(G, j.place, j.limit) /\ \A e \in G : e.key < x
      BY <1>3, <2>4, <3>1
    <3>3. ASSUME j.limit > 0, CutByBytes(G, j.place, j.limit), \A e \in G : e.key < x PROVE Full(F, i, x)
      <4>1. \A e \in j.found : Place[e.key] # Place[x] BY <1>5, <1>6, <2>4
      <4>2. \A e \in F : Place[e.key] = Place[x] => e.key < x BY <3>3, <4>1
      <4>3. i.limit > 0 /\ Place[x] \in i.short BY <1>c, <2>4, <3>3
      <4> HIDE DEF F
      <4> QED BY <4>2, <4>3 DEF Full
    <3> QED BY <2>2, <3>2, <3>3
  <2> QED BY <1>6, <1>9, <2>3, <2>4
<1> HIDE DEF F, out
<1>10. CASE j.place + 1 < NumPlaces
  <2>1. k = [i EXCEPT !.place = i.place + 1] BY <1>10, <1>c DEF NextPlace
  <2> HIDE DEF k
  <2>2. /\ IsJob(k) /\ k.pc = "scan" /\ k.batch = <<>> /\ k.committed = {} /\ k.was = j.was
        /\ k.limit = j.limit /\ k.found = F /\ k.place = j.place + 1 /\ k.short = i.short
    BY <1>c, <2>1 DEF IsJob
  <2>a. \A x : Full(F, i, x) => Full(F, k, x) BY <1>c, <2>2 DEF Full
  <2>3. \A x \in InRange : Place[x] < k.place => Covered(k.found, k, x) BY <1>9, <2>2, <2>a DEF Covered
  <2>4. k.place \in Places BY <1>6, <1>10, <2>2 DEF Places
  <2>5. Scanning(k, kv) BY <1>5, <1>7, <1>8, <2>2, <2>3, <2>4 DEF Scanning
  <2>6. JobOK(k, backend, kv) BY <2>2, <2>5 DEF JobOK, JobShape, JobBatch, JobScan, Writing
  <2> QED BY <1>1, <1>2, <2>6, OneJob
<1>11. CASE ~(j.place + 1 < NumPlaces)
  <2>1. k = [i EXCEPT !.pc = "hits", !.found = {}, !.out = out] BY <1>11, <1>c DEF NextPlace, out
  <2> HIDE DEF k
  <2>2. /\ IsJob(k) /\ k.pc = "hits" /\ k.batch = <<>> /\ k.committed = {} /\ k.was = j.was
        /\ k.limit = j.limit /\ k.out = out /\ k.short = i.short
    BY <1>c, <2>1 DEF IsJob
  <2>a. \A x : Full(F, i, x) => Full(F, k, x) BY <1>c, <2>2 DEF Full
  <2>3. \A x \in InRange : Place[x] < j.place + 1 BY <1>6, <1>11
  <2>4. \A x \in InRange : Covered(F, k, x) BY <1>9, <2>2, <2>3, <2>a DEF Covered
  <2>5. k.out = First(k.limit, ByKey(F)) BY <1>c, <2>2 DEF out
  <2>6. Faithful(k) BY <1>5, <1>7, <1>8, <2>2, <2>4, <2>5, ScanDone
  <2>7. JobOK(k, backend, kv) BY <2>2, <2>6 DEF JobOK, JobShape, JobBatch, JobScan, Writing
  <2> QED BY <1>1, <1>2, <2>7, OneJob
<1> QED BY <1>10, <1>11

-----------------------------------------------------------------------------
(* Every step *)

LEMMA RestartOK == ASSUME RequestInv, Restart PROVE RequestInv'
<1>1. \A t \in Thread : job'[t] = Idle BY DEF Restart
<1>2. \A t \in Thread : JobOK(job'[t], backend', kv') BY <1>1, IdleOK
<1>3. DOMAIN job' = Thread /\ backend' = backend /\ clock' = clock BY DEF Restart
<1>4. kv' \in [Key -> Values] BY DEF Restart, RequestInv, Values
<1> QED BY <1>2, <1>3, <1>4 DEF RequestInv

LEMMA RequestStep == RequestInv /\ [Next]_vars => RequestInv'
<1> SUFFICES ASSUME RequestInv, [Next]_vars PROVE RequestInv' OBVIOUS
<1>1. ASSUME NEW t \in Thread, EloqWriteFail(t) \/ EloqScanFail(t) \/ ScanReturn(t) PROVE RequestInv'
  <2>1. job' = [job EXCEPT ![t] = Idle] /\ backend' = backend /\ kv' = kv /\ clock' = clock
    BY <1>1 DEF EloqWriteFail, EloqScanFail, ScanReturn
  <2> QED BY <2>1, EndOK
<1>2. CASE Restart BY <1>2, RestartOK
<1>3. CASE UNCHANGED vars
  <2>1. job' = job /\ backend' = backend /\ kv' = kv /\ clock' = clock BY <1>3 DEF vars
  <2> QED BY <2>1 DEF RequestInv
<1>4. CASE Finished BY <1>3, <1>4 DEF Finished
<1> QED BY <1>1, <1>2, <1>3, <1>4, BatchWriteOK, MemPutOK, ChargeOK, EloqWriteOK, EloqUsageOK, ScanOK, ScanPlaceOK
      DEF Next

LEMMA RequestStart == Init => RequestInv
<1> SUFFICES ASSUME Init PROVE RequestInv OBVIOUS
<1>1. \A t \in Thread : job[t] = Idle BY DEF Init
<1>2. \A t \in Thread : JobOK(job[t], backend, kv) BY <1>1, IdleOK
<1>3. kv \in [Key -> Values] BY DEF Init, Values
<1> QED BY <1>2, <1>3 DEF Init, RequestInv

-----------------------------------------------------------------------------
(* The sizes *)

\* What a step leaves of every request's written entries.
LEMMA SizesQuiet ==
    ASSUME SizesInv, \A u \in Thread : job'[u].committed = job[u].committed,
           backend' = backend, kv' = kv, sizes' = sizes, loose' = loose
    PROVE  SizesInv'
<1>1. \A u \in Thread : CommittedKeys(job'[u]) = CommittedKeys(job[u]) BY DEF CommittedKeys
<1>2. \A k \in Key : CountedKey(k) => CountedKey(k)' BY <1>1 DEF CountedKey
<1> QED BY <1>2 DEF SizesInv

LEMMA SizesBegin ==
    ASSUME RequestInv, SizesInv, NEW t \in Thread, NEW j, Begin(t, j), IsJob(j), j.committed = {}
    PROVE  SizesInv'
<1>1. job[t].committed = {} BY DEF RequestInv, JobOK, JobShape, Begin, Writing
<1> DEFINE k == [j EXCEPT !.was = [x \in Key |-> {kv[x]}]]
<1>2. job' = [job EXCEPT ![t] = k] BY DEF Begin
<1>3. k.committed = {} BY DEF IsJob
<1> HIDE DEF k
<1>4. \A u \in Thread : job'[u].committed = job[u].committed BY <1>1, <1>2, <1>3 DEF RequestInv
<1> QED BY <1>4, SizesQuiet DEF Begin

LEMMA SizesReads ==
    ASSUME RequestInv, SizesInv, NEW t \in Thread, ScanPlace(t) \/ EloqScanFail(t) \/ ScanReturn(t)
    PROVE  SizesInv'
<1> DEFINE j == job[t]
           k == job'[t]
<1>1. j.pc \in {"scan", "hits"} BY DEF ScanPlace, EloqScanFail, ScanReturn
<1>2. IsJob(j) /\ j.committed = {} BY <1>1 DEF RequestInv, JobOK, JobShape, Writing
<1>3. k = Idle \/ \E G : k = NextPlace(ReadPage(j, G))
  <2>1. CASE ScanPlace(t) BY <2>1 DEF ScanPlace, RequestInv
  <2>2. CASE EloqScanFail(t) \/ ScanReturn(t) BY <2>2 DEF EloqScanFail, ScanReturn, RequestInv
  <2> QED BY <2>1, <2>2
<1>4. \A u \in Thread : u # t => job'[u] = job[u]
  BY DEF ScanPlace, EloqScanFail, ScanReturn, RequestInv
<1>5. backend' = backend /\ kv' = kv /\ sizes' = sizes /\ loose' = loose
  BY DEF ScanPlace, EloqScanFail, ScanReturn
<1> HIDE DEF j, k
<1>6. k.committed = {}
  <2>1. CASE k = Idle BY <2>1 DEF Idle
  <2>2. ASSUME NEW G, k = NextPlace(ReadPage(j, G)) PROVE k.committed = {}
    <3> DEFINE i == ReadPage(j, G)
    <3>1. IsJob(i) /\ i.committed = {} BY <1>2, ReadPageIs
    <3>2. k = NextPlace(i) BY <2>2
    <3> HIDE DEF i
    <3> QED BY <3>1, <3>2 DEF NextPlace, IsJob
  <2> QED BY <1>3, <2>1, <2>2
<1>7. \A u \in Thread : job'[u].committed = job[u].committed BY <1>2, <1>4, <1>6 DEF j, k
<1> QED BY <1>5, <1>7, SizesQuiet

\* Continue keeps the written entries.
LEMMA ContinueKeeps == ASSUME NEW r, IsJob(r) PROVE Continue(r).committed = r.committed
<1>1. [r EXCEPT !.pc = "write"].committed = r.committed BY DEF IsJob
<1>2. [r EXCEPT !.pc = "usage"].committed = r.committed BY DEF IsJob
<1>3. Idle.committed = {} BY DEF Idle
<1> QED BY <1>1, <1>2, <1>3 DEF Continue

LEMMA SizesCharge == ASSUME RequestInv, SizesInv, NEW t \in Thread, Charge(t) PROVE SizesInv'
<1> DEFINE j == job[t]
           r == [j EXCEPT !.lock = None, !.items = 0, !.bytes = 0]
           k == Continue(r)
<1>1. job' = [job EXCEPT ![t] = k] /\ backend' = backend /\ kv' = kv /\ sizes' = sizes /\ loose' = loose
  BY DEF Charge
<1>2. IsJob(j) BY DEF RequestInv, JobOK, JobShape
<1>3. IsJob(r) /\ r.committed = j.committed BY <1>2 DEF IsJob
<1> HIDE DEF r
<1>4. k.committed = j.committed BY <1>3, ContinueKeeps
<1> HIDE DEF k
<1>5. \A u \in Thread : job'[u].committed = job[u].committed BY <1>1, <1>4 DEF RequestInv
<1> QED BY <1>1, <1>5, SizesQuiet

LEMMA SizesFail == ASSUME RequestInv, SizesInv, NEW t \in Thread, EloqWriteFail(t) PROVE SizesInv'
<1>1. /\ job' = [job EXCEPT ![t] = Idle] /\ loose' = loose \cup CommittedKeys(job[t])
      /\ backend' = backend /\ kv' = kv /\ sizes' = sizes
  BY DEF EloqWriteFail
<1>2. Idle.committed = {} BY DEF Idle
<1>3. \A u \in Thread : job'[u] = IF u = t THEN Idle ELSE job[u] BY <1>1 DEF RequestInv
<1>4. ASSUME NEW k \in Key \ loose', CountedKey(k) PROVE CountedKey(k)'
  <2>1. k \notin CommittedKeys(job[t]) BY <1>1
  <2>2. \A u \in Thread : \A e \in job'[u].committed : e \in job[u].committed BY <1>2, <1>3
  <2>3. \A u \in Thread : k \notin CommittedKeys(job'[u]) => k \notin CommittedKeys(job[u])
    BY <1>3, <2>1
  <2> QED BY <1>1, <1>4, <2>2, <2>3 DEF CountedKey
<1> QED BY <1>1, <1>4 DEF SizesInv

LEMMA SizesUsage == ASSUME RequestInv, SizesInv, NEW t \in Thread, EloqUsage(t) PROVE SizesInv'
<1> DEFINE j == job[t]
           e == NextCommitted(j.committed)
           new == SizeOf(ValueOf(e))
           rest == j.committed \ {e}
           items == Count(new) - Count(sizes[e.key])
           bytes == Resized(sizes[e.key], new)
           i == [j EXCEPT !.pc = "charge", !.committed = rest, !.lock = "usage_mu",
                          !.items = items, !.bytes = bytes]
<1>1. /\ j.pc = "usage" /\ job' = [job EXCEPT ![t] = i] /\ backend' = backend /\ kv' = kv /\ loose' = loose
      /\ sizes' = [sizes EXCEPT ![e.key] = new]
  BY DEF EloqUsage
<1>2. e \in j.committed /\ e \in WriteEntry /\ IsJob(j) BY <1>1, UsageKnows
<1>3. i.committed = rest BY <1>2 DEF IsJob
<1>4. new \in Sizes /\ e.key \in Key
  <2>1. ValueOf(e) \in Values /\ e.key \in Key BY <1>2, ValueOfType
  <2>2. \A v \in Values : SizeOf(v) \in Sizes BY DEF SizeOf, Sizes, Values, Stored
  <2> QED BY <2>1, <2>2
<1>5. e \in job[t].committed BY <1>2
<1> HIDE DEF i, e, j
<1>6. /\ \A u \in Thread : u # t => job'[u] = job[u]
      /\ job'[t].committed = j.committed \ {e}
  BY <1>1, <1>3 DEF RequestInv
<1>7. ASSUME NEW k \in Key, CountedKey(k) PROVE CountedKey(k)'
  <2>1. \A u \in Thread : \A d \in job'[u].committed : d \in job[u].committed BY <1>6 DEF j
  <2>2. \A u \in Thread : \A d \in job'[u].committed : d.key = k => ValueOf(d) = kv'[k]
    BY <1>1, <1>7, <2>1 DEF CountedKey
  <2>3. ASSUME \A u \in Thread : k \notin CommittedKeys(job'[u]) PROVE sizes'[k] = SizeOf(kv'[k])
    <3>1. CASE k = e.key
      <4>1. ValueOf(e) = kv[k] BY <1>5, <1>7, <3>1 DEF CountedKey
      <4>2. sizes'[k] = new BY <1>1, <1>4, <3>1 DEF SizesInv
      <4> QED BY <1>1, <4>1, <4>2
    <3>2. CASE k # e.key
      <4>1. \A u \in Thread : k \notin CommittedKeys(job[u])
        BY <1>6, <2>3, <3>2 DEF CommittedKeys, j
      <4>2. sizes'[k] = sizes[k] BY <1>1, <1>4, <3>2 DEF SizesInv
      <4> QED BY <1>1, <1>7, <4>1, <4>2 DEF CountedKey
    <3> QED BY <3>1, <3>2
  <2> QED BY <2>2, <2>3 DEF CountedKey
<1>8. sizes' \in [Key -> Sizes] BY <1>1, <1>4 DEF SizesInv
<1> QED BY <1>1, <1>7, <1>8 DEF SizesInv

LEMMA SizesWrite == ASSUME RequestInv, SizesInv, NEW t \in Thread, EloqWrite(t) PROVE SizesInv'
<1> DEFINE j == job[t]
           p == Min(j.left)
           es == Kept(j.batch, p)
           left == j.left \ {p}
           written == j.committed \cup es
           r == [j EXCEPT !.left = left, !.committed = written]
           i == Continue(r)
           keys == {e.key : e \in es}
<1>1. backend = "eloqstore" /\ j.pc = "write" /\ Store(t, es, i) /\ backend' = backend /\ sizes' = sizes
  BY DEF EloqWrite
<1>2. JobOK(j, backend, kv) BY DEF RequestInv
<1>3. /\ IsJob(j) /\ j.batch \in Seq(WriteEntry) /\ EloqShape(j)
  BY <1>1, <1>2 DEF JobOK, JobShape, Writing
<1>4. p \in j.left
  <2>1. j.left \in SUBSET Nat /\ j.left # {} BY <1>1, <1>3 DEF EloqShape, Places
  <2> QED BY <2>1, MinIn
<1>5. es \in SUBSET WriteEntry /\ OnePerKey(es) /\ \A e \in es : Place[e.key] = p BY <1>3, KeptIs
<1>6. IsJob(r) /\ r.committed = written BY <1>3 DEF IsJob
<1> HIDE DEF r, es
<1>7. i.committed = written BY <1>6, ContinueKeeps
<1>8. /\ \A e \in es : kv'[e.key] = ValueOf(e)
      /\ \A x \in Key : (\A e \in es : e.key # x) => kv'[x] = kv[x]
  BY <1>1, <1>5, StoredIs
<1>9. loose' = (loose \ keys) \cup {k \in keys : \E u \in Thread \ {t} : k \in CommittedKeys(job[u])}
  BY <1>1 DEF Store
<1> HIDE DEF i
<1>10. job'[t].committed = j.committed \cup es BY <1>1, <1>7 DEF Store
<1>11. ASSUME NEW u \in Thread, u # t PROVE job'[u].committed = job[u].committed
  <2> DEFINE a == job[u]
             c == job'[u]
  <2>1. IsJob(a) BY DEF RequestInv, JobOK, JobShape
  <2>2. \/ \E x : c = [a EXCEPT !.was = x]
        \/ \E x : c = [a EXCEPT !.others = x]
        \/ c = a
    BY <1>1, <1>11 DEF Store
  <2> HIDE DEF a, c
  <2>3. c.committed = a.committed BY <2>1, <2>2 DEF IsJob
  <2> QED BY <2>3 DEF a, c
<1> HIDE DEF j, p
<1>12. ASSUME NEW k \in Key \ loose' PROVE CountedKey(k)'
  <2>1. CASE k \in keys
    <3>1. PICK d \in es : d.key = k BY <2>1
    <3>2. \A u \in Thread : u # t => k \notin CommittedKeys(job[u]) BY <1>9, <2>1
    <3>3. kv'[k] = ValueOf(d) BY <1>8, <3>1
    <3>4. ASSUME NEW u \in Thread, NEW e \in job'[u].committed, e.key = k PROVE ValueOf(e) = kv'[k]
      <4>1. u = t BY <1>11, <3>2, <3>4 DEF CommittedKeys
      <4>2. e \in j.committed \cup es BY <1>10, <3>4, <4>1
      <4>3. e \notin j.committed BY <1>3, <1>4, <1>5, <3>1, <3>4 DEF EloqShape
      <4> QED BY <1>8, <3>4, <4>2, <4>3
    <3>5. k \in CommittedKeys(job'[t]) BY <1>10, <3>1 DEF CommittedKeys
    <3> QED BY <3>4, <3>5 DEF CountedKey
  <2>2. CASE k \notin keys
    <3>1. k \notin loose BY <1>9, <2>2
    <3>2. CountedKey(k) BY <1>1, <3>1 DEF SizesInv
    <3>3. kv'[k] = kv[k] BY <1>8, <2>2
    <3>4. \A u \in Thread : \A e \in job'[u].committed : e.key = k => e \in job[u].committed
      BY <1>10, <1>11, <2>2 DEF j
    <3>5. \A u \in Thread : k \notin CommittedKeys(job'[u]) => k \notin CommittedKeys(job[u])
      BY <1>10, <1>11 DEF CommittedKeys, j
    <3> QED BY <1>1, <3>2, <3>3, <3>4, <3>5 DEF CountedKey
  <2> QED BY <2>1, <2>2
<1> QED BY <1>1, <1>12 DEF SizesInv

LEMMA SizesRestart == ASSUME RequestInv, SizesInv, Restart PROVE SizesInv'
<1>1. /\ \A t \in Thread : job'[t] = Idle
      /\ sizes' = [k \in Key |-> None] /\ loose' = {k \in Key : kv'[k] # None} /\ backend' = backend
  BY DEF Restart
<1>2. Idle.committed = {} BY DEF Idle
<1>3. ASSUME NEW k \in Key \ loose' PROVE CountedKey(k)'
  <2>1. kv'[k] = None /\ sizes'[k] = None BY <1>1
  <2> QED BY <1>1, <1>2, <2>1 DEF CountedKey, SizeOf
<1>4. sizes' \in [Key -> Sizes] BY <1>1 DEF Sizes
<1> QED BY <1>3, <1>4 DEF SizesInv

LEMMA SizesBatch == ASSUME RequestInv, SizesInv, NEW t \in Thread, BatchWrite(t) PROVE SizesInv'
<1>1. PICK b \in Batches :
        LET batch == [i \in DOMAIN b |-> [key |-> b[i].key, val |-> b[i].val, ts |-> clock + 1]]
        IN Begin(t, IF backend = "inmemory" THEN [Idle EXCEPT !.pc = "write", !.batch = batch, !.next = 1]
                    ELSE [Idle EXCEPT !.pc = "write", !.batch = batch, !.left = {Place[k] : k \in KeysOf(b)}])
  BY DEF BatchWrite
<1> DEFINE batch == [i \in DOMAIN b |-> [key |-> b[i].key, val |-> b[i].val, ts |-> clock + 1]]
           places == {Place[k] : k \in KeysOf(b)}
           r == IF backend = "inmemory" THEN [Idle EXCEPT !.pc = "write", !.batch = batch, !.next = 1]
                ELSE [Idle EXCEPT !.pc = "write", !.batch = batch, !.left = places]
<1>2. Begin(t, r) BY <1>1
<1> HIDE DEF batch, places
<1>3. IsJob(r) /\ r.committed = {} BY DEF IsJob, Idle
<1> HIDE DEF r
<1> QED BY <1>2, <1>3, SizesBegin

LEMMA SizesScan == ASSUME RequestInv, SizesInv, NEW t \in Thread, Scan(t) PROVE SizesInv'
<1>1. PICK limit \in Limits : Begin(t, [Idle EXCEPT !.pc = "scan", !.limit = limit]) BY DEF Scan
<1> DEFINE r == [Idle EXCEPT !.pc = "scan", !.limit = limit]
<1>2. Begin(t, r) BY <1>1
<1>3. IsJob(r) /\ r.committed = {} BY DEF IsJob, Idle
<1> HIDE DEF r
<1> QED BY <1>2, <1>3, SizesBegin

LEMMA SizesStep == RequestInv /\ SizesInv /\ [Next]_vars => SizesInv'
<1> SUFFICES ASSUME RequestInv, SizesInv, [Next]_vars PROVE SizesInv' OBVIOUS
<1>1. ASSUME NEW t \in Thread, MemPut(t) PROVE SizesInv'
  <2>1. backend = "inmemory" /\ backend' = backend /\ sizes' = sizes BY <1>1 DEF MemPut
  <2> QED BY <2>1 DEF SizesInv
<1>2. CASE UNCHANGED vars
  <2>1. job' = job /\ backend' = backend /\ kv' = kv /\ sizes' = sizes /\ loose' = loose BY <1>2 DEF vars
  <2> QED BY <2>1, SizesQuiet
<1>3. CASE Finished BY <1>2, <1>3 DEF Finished
<1> QED BY <1>1, <1>2, <1>3, SizesBatch, SizesScan, SizesReads, SizesCharge, SizesFail, SizesUsage, SizesWrite,
           SizesRestart
      DEF Next

LEMMA SizesStart == Init => SizesInv
<1> SUFFICES ASSUME Init PROVE SizesInv OBVIOUS
<1>1. sizes \in [Key -> Sizes] BY DEF Init, Sizes
<1>2. ASSUME NEW k \in Key PROVE CountedKey(k)
  <2>1. Idle.committed = {} BY DEF Idle
  <2>2. \A t \in Thread : job[t].committed = {} BY <2>1 DEF Init
  <2>3. sizes[k] = None /\ kv[k] = None BY DEF Init
  <2> QED BY <2>2, <2>3 DEF CountedKey, SizeOf
<1> QED BY <1>1, <1>2 DEF SizesInv

-----------------------------------------------------------------------------
(* The theorems on requests *)

\* Every request of both adapters keeps to its shape, has written what it says
\* it has and has found what the places it read held, whatever other requests
\* do in between.
THEOREM RequestInvariant == Spec => []RequestInv
<1>1. Init => RequestInv BY RequestStart
<1>2. RequestInv /\ [Next]_vars => RequestInv' BY RequestStep
<1> QED BY <1>1, <1>2, PTL DEF Spec

\* The entry LastOf takes is the last one of its key.
LEMMA LastIndex ==
    ASSUME NEW es, NEW n \in Nat, DOMAIN es = 1..n, NEW k \in KeysOf(es), NEW i,
           i = Max({m \in DOMAIN es : es[m].key = k})
    PROVE  i \in 1..n /\ es[i].key = k /\ IsLast(es, i, n)
<1> DEFINE I == {m \in DOMAIN es : es[m].key = k}
           D == {n - m : m \in I}
<1>1. I \subseteq 1..n /\ I # {} BY DEF KeysOf
<1>2. D \in SUBSET Nat /\ D # {} BY <1>1
<1>3. PICK d \in D : \A c \in D : d <= c
  <2> HIDE DEF D
  <2> QED BY <1>2, LeastNat
<1>4. PICK x \in I : d = n - x OBVIOUS
<1>5. \A y \in I : n - x <= n - y BY <1>3, <1>4
<1>6. \A y \in I : y <= x BY <1>1, <1>5
<1>7. i = Max(I) OBVIOUS
<1>8. \E a \in I : \A y \in I : a >= y BY <1>1, <1>6
<1>9. i \in I /\ \A y \in I : i >= y
  <2> HIDE DEF I
  <2> QED BY <1>7, <1>8 DEF Max
<1>10. ASSUME NEW m \in (i + 1)..n PROVE es[m].key # k
  <2>1. m \in 1..n /\ ~(i >= m) BY <1>1, <1>9
  <2> QED BY <1>9, <2>1
<1> QED BY <1>1, <1>9, <1>10 DEF IsLast

\* What is known of a batch and a key of it that no one else wrote.
LEMMA BatchKey ==
    ASSUME RequestInv, NEW t \in Thread, NEW k \in KeysOf(job[t].batch) \ job[t].others
    PROVE  /\ backend = "inmemory" /\ ~More(job[t]) => kv[k] = LastOf(job[t].batch, k)
           /\ backend = "eloqstore" /\ Place[k] \notin job[t].left => kv[k] = LastOf(job[t].batch, k)
           /\ backend = "eloqstore" /\ Place[k] \in job[t].left => kv[k] \in job[t].was[k]
<1> DEFINE j == job[t]
           i == Max({m \in DOMAIN j.batch : j.batch[m].key = k})
<1>1. JobOK(j, backend, kv) BY DEF RequestInv
<1>2. k \in KeysOf(j.batch) /\ k \notin j.others OBVIOUS
<1>3. LastOf(j.batch, k) = ValueOf(j.batch[i]) BY DEF LastOf
<1> SUFFICES /\ backend = "inmemory" /\ ~More(j) => kv[k] = LastOf(j.batch, k)
             /\ backend = "eloqstore" /\ Place[k] \notin j.left => kv[k] = LastOf(j.batch, k)
             /\ backend = "eloqstore" /\ Place[k] \in j.left => kv[k] \in j.was[k]
  OBVIOUS
<1> HIDE DEF j
<1>4. j.pc \in Writing /\ j.batch \in Seq(WriteEntry)
  <2>1. j.batch # <<>> BY <1>2 DEF KeysOf
  <2> QED BY <1>1, <2>1 DEF JobOK, JobShape
<1>5. DOMAIN j.batch = 1..Len(j.batch) /\ Len(j.batch) \in Nat BY <1>4
<1>6. i \in 1..Len(j.batch) /\ j.batch[i].key = k /\ IsLast(j.batch, i, Len(j.batch)) BY <1>2, <1>5, LastIndex
<1> HIDE DEF i
<1>7. ASSUME backend = "inmemory", ~More(j) PROVE kv[k] = ValueOf(j.batch[i])
  <2>1. MemShape(j) /\ MemBatch(j, kv) BY <1>1, <1>4, <1>7 DEF JobOK, JobShape, JobBatch
  <2>2. j.next - 1 = Len(j.batch) BY <1>5, <1>7, <2>1 DEF MemShape, More
  <2> QED BY <1>2, <1>6, <2>1, <2>2 DEF MemBatch
<1>8. ASSUME backend = "eloqstore"
      PROVE  /\ Place[k] \notin j.left => kv[k] = ValueOf(j.batch[i])
             /\ Place[k] \in j.left => kv[k] \in j.was[k]
  <2>1. EloqBatch(j, kv) BY <1>1, <1>4, <1>8 DEF JobOK, JobBatch
  <2> QED BY <1>2, <1>5, <1>6, <2>1 DEF EloqBatch
<1> QED BY <1>3, <1>7, <1>8

\* Whatever the requests of other threads do in between, the last entry of a
\* key wins in both adapters, for every batch and every spread of the keys over
\* shards and partitions.
THEOREM LastEntryWins == Spec => []BatchLastWins
<1>1. RequestInv => BatchLastWins
  <2> SUFFICES ASSUME RequestInv, NEW t \in Thread, job[t].batch # <<>>, ~More(job[t]),
                      NEW k \in KeysOf(job[t].batch) \ job[t].others
               PROVE  kv[k] = LastOf(job[t].batch, k)
    BY DEF BatchLastWins
  <2>1. backend \in {"inmemory", "eloqstore"} BY DEF RequestInv
  <2>2. backend = "eloqstore" => Place[k] \notin job[t].left BY DEF More
  <2> QED BY <2>1, <2>2, BatchKey
<1> QED BY <1>1, RequestInvariant, PTL

\* Eloqstore has all entries of a batch for a partition or none, wherever the
\* batch is cut off.
THEOREM PartitionsStayAtomic == Spec => []PartitionsAtomic
<1>1. RequestInv => PartitionsAtomic
  <2> SUFFICES ASSUME RequestInv, backend = "eloqstore", NEW t \in Thread, NEW p \in 0..(NumPlaces - 1)
               PROVE  LET keys == {k \in KeysOf(job[t].batch) \ job[t].others : Place[k] = p}
                      IN \/ \A k \in keys : kv[k] \in job[t].was[k]
                         \/ \A k \in keys : kv[k] = LastOf(job[t].batch, k)
    BY DEF PartitionsAtomic
  <2>1. CASE p \in job[t].left BY <2>1, BatchKey
  <2>2. CASE p \notin job[t].left BY <2>2, BatchKey
  <2> QED BY <2>1, <2>2
<1> QED BY <1>1, RequestInvariant, PTL

\* A Scan returns, for every limit, what was stored while it ran, in order, and
\* all of it that stayed but for what the limit, or the bytes of a page under a
\* limit, cut off.
THEOREM ScansStayFaithful == Spec => []ScanFaithful
<1>1. RequestInv => ScanFaithful
  <2> SUFFICES ASSUME RequestInv PROVE ScanFaithful OBVIOUS
  <2>1. \A t \in Thread : job[t].pc = "hits" => Faithful(job[t]) BY DEF RequestInv, JobOK, JobScan
  <2> QED BY <2>1 DEF ScanFaithful, Faithful
<1> QED BY <1>1, RequestInvariant, PTL

\* The eloqstore adapter counts a key with the size of the value it stores, but
\* for what is loose.
THEOREM SizesStayTrue == Spec => []SizesFollowRows
<1>1. Init => RequestInv /\ SizesInv BY RequestStart, SizesStart
<1>2. RequestInv /\ SizesInv /\ [Next]_vars => RequestInv' /\ SizesInv' BY RequestStep, SizesStep
<1>3. SizesInv => SizesFollowRows BY DEF SizesInv, SizesFollowRows, CountedKey
<1> QED BY <1>1, <1>2, <1>3, PTL DEF Spec

-----------------------------------------------------------------------------
(* The counters *)

\* The keys that threads are counting: one each.
Slots(C, at) ==
    /\ C \subseteq Thread /\ DOMAIN at = Thread
    /\ \A t \in C : at[t] \in Key
    /\ \A t, u \in C : at[t] = at[u] => t = u

\* The counter u stands for the amounts f, key by key; a key in the table that
\* holds another amount h is at a thread of C, which owes the difference w.
Ledger(u, w, h, C, at, f) ==
    /\ f \in [Key -> Amounts] /\ h \in [Key -> Amounts] /\ w \in [Thread -> Int]
    /\ u = SumFunctionOnSet(f, Key)
    /\ u + SumFunctionOnSet(w, Thread) = SumFunctionOnSet(h, Key)
    /\ \A t \in Thread \ C : w[t] = 0
    /\ \A t \in C : f[at[t]] + w[t] = h[at[t]]
    /\ \A k \in Key : (\A t \in C : at[t] # k) => f[k] = h[k]

LEMMA AmountsNat == (\A a \in Amounts : a \in Nat /\ a \in Int) /\ 0 \in Amounts /\ 1 \in Amounts
BY BytesAssumption DEF Amounts

\* What the counters can stand for fits in 64 bits.
LEMMA LedgerFits ==
    ASSUME NEW f \in [Key -> Amounts]
    PROVE  SumFunctionOnSet(f, Key) \in Nat /\ SumFunctionOnSet(f, Key) < Mod
<1>1. \A k \in Key : f[k] \in Nat BY AmountsNat
<1> QED BY <1>1, SumNat, KeyAssumption, FitAssumption

\* Thread t changes what the table holds for key k, which no one counts.
PutStep(w, v, h, g, C, D, at, b, t, k) ==
    /\ t \in Thread \ C /\ k \in Key /\ \A x \in C : at[x] # k
    /\ D = C \cup {t} /\ b = [at EXCEPT ![t] = k]
    /\ g \in [Key -> Amounts] /\ \A x \in Key : x # k => g[x] = h[x]
    /\ v \in [Thread -> Int] /\ v[t] = g[k] - h[k] /\ \A x \in Thread : x # t => v[x] = w[x]

LEMMA LedgerPut ==
    ASSUME NEW u, NEW w, NEW h, NEW C, NEW at, NEW f, Ledger(u, w, h, C, at, f), Slots(C, at),
           NEW v, NEW g, NEW D, NEW b, NEW t, NEW k, PutStep(w, v, h, g, C, D, at, b, t, k)
    PROVE  Ledger(u, v, g, D, b, f)
<1> USE DEF PutStep
<1>1. /\ f \in [Key -> Amounts] /\ h \in [Key -> Amounts] /\ w \in [Thread -> Int]
      /\ u = SumFunctionOnSet(f, Key)
      /\ u + SumFunctionOnSet(w, Thread) = SumFunctionOnSet(h, Key)
      /\ \A x \in Thread \ C : w[x] = 0
      /\ \A x \in C : f[at[x]] + w[x] = h[at[x]]
      /\ \A x \in Key : (\A y \in C : at[y] # x) => f[x] = h[x]
  BY DEF Ledger
<1>2. /\ C \subseteq Thread /\ DOMAIN at = Thread
      /\ \A x \in C : at[x] \in Key
      /\ \A x, y \in C : at[x] = at[y] => x = y
  BY DEF Slots
<1>3. \A x \in Key : f[x] \in Int /\ g[x] \in Int /\ h[x] \in Int BY <1>1, AmountsNat
<1>4. SumFunctionOnSet(v, Thread) = SumFunctionOnSet(w, Thread) - w[t] + v[t]
  <2>1. \A y \in Thread : w[y] \in Int /\ v[y] \in Int BY <1>1
  <2>2. \A y \in Thread \ {t} : w[y] = v[y] OBVIOUS
  <2>3. t \in Thread OBVIOUS
  <2> QED BY <2>1, <2>2, <2>3, ThreadAssumption, SumChange
<1>5. SumFunctionOnSet(g, Key) = SumFunctionOnSet(h, Key) - h[k] + g[k]
  <2>1. \A y \in Key : h[y] \in Int /\ g[y] \in Int BY <1>3
  <2>2. \A y \in Key \ {k} : h[y] = g[y] OBVIOUS
  <2> QED BY <2>1, <2>2, KeyAssumption, SumChange
<1>6. u + SumFunctionOnSet(v, Thread) = SumFunctionOnSet(g, Key)
  <2> DEFINE a == SumFunctionOnSet(w, Thread)
             c == SumFunctionOnSet(h, Key)
             a2 == SumFunctionOnSet(v, Thread)
             c2 == SumFunctionOnSet(g, Key)
  <2>1. a \in Int BY <1>1, ThreadAssumption, SumType
  <2>2. c \in Int BY <1>3, KeyAssumption, SumType
  <2>3. u \in Int BY <1>1, <1>3, KeyAssumption, SumType
  <2>4. w[t] = 0 /\ u + a = c /\ a2 = a - w[t] + v[t] /\ c2 = c - h[k] + g[k] /\ v[t] = g[k] - h[k]
    BY <1>1, <1>4, <1>5
  <2>5. g[k] \in Int /\ h[k] \in Int BY <1>3
  <2> HIDE DEF a, c, a2, c2
  <2>6. u + a2 = c2 BY <2>1, <2>2, <2>3, <2>4, <2>5
  <2> QED BY <2>6 DEF a2, c2
<1>7. DOMAIN b = Thread /\ b[t] = k /\ \A x \in Thread : x # t => b[x] = at[x] BY <1>2
<1>9. \A x \in Thread \ D : v[x] = 0 BY <1>1
<1>10. \A x \in D : f[b[x]] + v[x] = g[b[x]]
  <2>1. f[k] = h[k] BY <1>1
  <2>2. f[k] + v[t] = g[k] BY <1>3, <2>1
  <2>3. \A x \in C : f[at[x]] + v[x] = g[at[x]] /\ x # t /\ x \in Thread BY <1>1, <1>2
  <2> QED BY <1>7, <2>2, <2>3
<1>11. \A x \in Key : (\A y \in D : b[y] # x) => f[x] = g[x]
  <2> SUFFICES ASSUME NEW x \in Key, \A y \in D : b[y] # x PROVE f[x] = g[x] OBVIOUS
  <2>1. x # k BY <1>7
  <2>2. \A y \in C : at[y] # x BY <1>2, <1>7
  <2> QED BY <1>1, <2>1, <2>2
<1> QED BY <1>1, <1>6, <1>9, <1>10, <1>11 DEF Ledger

\* Thread t counts what it owes: the counter does not wrap.
ChargeStep(w, v, C, D, t) ==
    /\ t \in C /\ D = C \ {t}
    /\ v \in [Thread -> Int] /\ v[t] = 0 /\ \A x \in Thread : x # t => v[x] = w[x]

LEMMA LedgerCharge ==
    ASSUME NEW u, NEW w, NEW h, NEW C, NEW at, NEW f, Ledger(u, w, h, C, at, f), Slots(C, at),
           NEW v, NEW D, NEW t, ChargeStep(w, v, C, D, t)
    PROVE  \E g : Ledger((u + w[t]) % Mod, v, h, D, at, g)
<1> USE DEF ChargeStep
<1> DEFINE k == at[t]
           g == [f EXCEPT ![k] = h[k]]
           s == (u + w[t]) % Mod
<1>1. /\ f \in [Key -> Amounts] /\ h \in [Key -> Amounts] /\ w \in [Thread -> Int]
      /\ u = SumFunctionOnSet(f, Key)
      /\ u + SumFunctionOnSet(w, Thread) = SumFunctionOnSet(h, Key)
      /\ \A x \in Thread \ C : w[x] = 0
      /\ \A x \in C : f[at[x]] + w[x] = h[at[x]]
      /\ \A x \in Key : (\A y \in C : at[y] # x) => f[x] = h[x]
  BY DEF Ledger
<1>2. /\ C \subseteq Thread /\ DOMAIN at = Thread
      /\ \A x \in C : at[x] \in Key
      /\ \A x, y \in C : at[x] = at[y] => x = y
  BY DEF Slots
<1>3. t \in Thread /\ k \in Key BY <1>2
<1>4. g \in [Key -> Amounts] /\ g[k] = h[k] /\ \A x \in Key : x # k => g[x] = f[x] BY <1>1, <1>3
<1>5. f[k] + w[t] = h[k] BY <1>1
<1> HIDE DEF k, g
<1>6. \A x \in Key : f[x] \in Int /\ g[x] \in Int /\ h[x] \in Int BY <1>1, <1>4, AmountsNat
<1>7. SumFunctionOnSet(v, Thread) = SumFunctionOnSet(w, Thread) - w[t] + v[t]
  <2>1. \A y \in Thread : w[y] \in Int /\ v[y] \in Int BY <1>1
  <2>2. \A y \in Thread \ {t} : w[y] = v[y] OBVIOUS
  <2> QED BY <1>3, <2>1, <2>2, ThreadAssumption, SumChange
<1>8. SumFunctionOnSet(g, Key) = SumFunctionOnSet(f, Key) - f[k] + g[k]
  <2>1. \A y \in Key : f[y] \in Int /\ g[y] \in Int BY <1>6
  <2>2. \A y \in Key \ {k} : f[y] = g[y] BY <1>4
  <2>3. k \in Key /\ IsFiniteSet(Key) BY <1>3, KeyAssumption
  <2> QED BY <2>1, <2>2, <2>3, SumChange
<1> DEFINE a == SumFunctionOnSet(w, Thread)
           a2 == SumFunctionOnSet(v, Thread)
           c == SumFunctionOnSet(h, Key)
           c2 == SumFunctionOnSet(g, Key)
<1>9. a \in Int /\ c \in Int /\ u \in Int /\ w[t] \in Int /\ f[k] \in Int /\ h[k] \in Int
  <2>1. a \in Int BY <1>1, ThreadAssumption, SumType
  <2>2. c \in Int BY <1>6, KeyAssumption, SumType
  <2>3. u \in Int BY <1>1, <1>6, KeyAssumption, SumType
  <2> QED BY <1>1, <1>3, <1>6, <2>1, <2>2, <2>3
<1>10. c2 \in Nat /\ c2 < Mod BY <1>4, LedgerFits
<1>11. u + a = c /\ a2 = a - w[t] /\ c2 = u - f[k] + h[k]
  <2>1. a2 = a - w[t] + 0 BY <1>7
  <2>2. a2 = a - w[t]
    <3> HIDE DEF a, a2
    <3> QED BY <1>9, <2>1
  <2> QED BY <1>1, <1>4, <1>8, <2>2
<1> HIDE DEF a, a2, c, c2
<1>12. u + w[t] = c2 BY <1>5, <1>9, <1>11
<1>13. c2 % Mod = c2 BY <1>10, BytesAssumption
<1>14. s = c2 BY <1>12, <1>13
<1>15. s + a2 = c BY <1>9, <1>11, <1>12, <1>14
<1>16. \A x \in Thread \ D : v[x] = 0 BY <1>1
<1>17. \A x \in D : g[at[x]] + v[x] = h[at[x]]
  <2> SUFFICES ASSUME NEW x \in D PROVE g[at[x]] + v[x] = h[at[x]] OBVIOUS
  <2>1. x \in C /\ x # t /\ x \in Thread /\ at[x] \in Key BY <1>2
  <2>2. at[x] # k BY <1>2, <2>1 DEF k
  <2> QED BY <1>1, <1>4, <2>1, <2>2
<1>18. \A x \in Key : (\A y \in D : at[y] # x) => g[x] = h[x]
  <2> SUFFICES ASSUME NEW x \in Key, \A y \in D : at[y] # x PROVE g[x] = h[x] OBVIOUS
  <2>1. CASE x = k BY <1>4, <2>1
  <2>2. CASE x # k
    <3>1. \A y \in C : at[y] # x BY <2>2 DEF k
    <3> QED BY <1>1, <1>4, <2>2, <3>1
  <2> QED BY <2>1, <2>2
<1> HIDE DEF s
<1>19. s = SumFunctionOnSet(g, Key) /\ s + SumFunctionOnSet(v, Thread) = SumFunctionOnSet(h, Key)
  BY <1>14, <1>15 DEF a2, c, c2
<1>20. Ledger(s, v, h, D, at, g) BY <1>1, <1>4, <1>16, <1>17, <1>18, <1>19 DEF Ledger
<1> QED BY <1>20 DEF s

Charging == {t \in Thread : job[t].pc = "charge"}
OwedBytes == [t \in Thread |-> job[t].bytes]
OwedItems == [t \in Thread |-> job[t].items]

\* The lock that a key is counted under.
LockOf(k, b) == IF b = "inmemory" THEN Place[k] ELSE "usage_mu"

\* Both counters have their ledger, and who counts a key holds its lock.
UsageInv == \E at, fb, fi :
    /\ Slots(Charging, at)
    /\ \A t \in Charging : job[t].lock = LockOf(at[t], backend)
    /\ Ledger(usage.bytes, OwedBytes, HeldBytes, Charging, at, fb)
    /\ Ledger(usage.items, OwedItems, HeldItems, Charging, at, fi)

\* What the table holds for a key is an amount.
HeldAmounts == HeldBytes \in [Key -> Amounts] /\ HeldItems \in [Key -> Amounts]

LEMMA HeldType == RequestInv /\ SizesInv => HeldAmounts
<1> SUFFICES ASSUME RequestInv, SizesInv PROVE HeldAmounts OBVIOUS
<1>1. kv \in [Key -> Values] /\ sizes \in [Key -> Sizes] BY DEF RequestInv, SizesInv
<1>2. \A v \in Values : Footprint(v) \in Amounts /\ Present(v) \in Amounts
  <2>1. \A v \in Stored : v.val \in Val BY DEF Stored
  <2> QED BY <2>1, AmountsNat DEF Values, Footprint, Present, Amounts
<1>3. \A s \in Sizes : Sized(s) \in Amounts /\ Count(s) \in Amounts
  BY AmountsNat DEF Sizes, Sized, Count, Amounts
<1> QED BY <1>1, <1>2, <1>3 DEF HeldAmounts, HeldBytes, HeldItems

\* A request that neither begins to count nor ends it.
Quiet(i, k) ==
    IF i.pc = "charge" THEN k.pc = "charge" /\ k.bytes = i.bytes /\ k.items = i.items /\ k.lock = i.lock
    ELSE k.pc # "charge" /\ k.bytes \in {0, i.bytes} /\ k.items \in {0, i.items}

LEMMA UsageQuiet ==
    ASSUME UsageInv, backend' = backend, usage' = usage, HeldBytes' = HeldBytes, HeldItems' = HeldItems,
           \A u \in Thread : Quiet(job[u], job'[u])
    PROVE  UsageInv'
<1>1. PICK at, fb, fi :
        /\ Slots(Charging, at)
        /\ \A t \in Charging : job[t].lock = LockOf(at[t], backend)
        /\ Ledger(usage.bytes, OwedBytes, HeldBytes, Charging, at, fb)
        /\ Ledger(usage.items, OwedItems, HeldItems, Charging, at, fi)
  BY DEF UsageInv
<1>2. Charging' = Charging /\ \A t \in Charging : job'[t].lock = job[t].lock BY DEF Charging, Quiet
<1>3. OwedBytes' = OwedBytes
  <2>1. \A t \in Thread \ Charging : OwedBytes[t] = 0 BY <1>1 DEF Ledger
  <2>2. \A t \in Thread \ Charging : job[t].bytes = 0 BY <2>1 DEF OwedBytes
  <2>3. \A t \in Thread : job'[t].bytes = job[t].bytes BY <2>2 DEF Charging, Quiet
  <2> QED BY <2>3 DEF OwedBytes
<1>4. OwedItems' = OwedItems
  <2>1. \A t \in Thread \ Charging : OwedItems[t] = 0 BY <1>1 DEF Ledger
  <2>2. \A t \in Thread \ Charging : job[t].items = 0 BY <2>1 DEF OwedItems
  <2>3. \A t \in Thread : job'[t].items = job[t].items BY <2>2 DEF Charging, Quiet
  <2> QED BY <2>3 DEF OwedItems
<1>5. /\ Slots(Charging', at)
      /\ \A t \in Charging' : job'[t].lock = LockOf(at[t], backend')
      /\ Ledger(usage'.bytes, OwedBytes', HeldBytes', Charging', at, fb)
      /\ Ledger(usage'.items, OwedItems', HeldItems', Charging', at, fi)
  BY <1>1, <1>2, <1>3, <1>4
<1> QED BY <1>5 DEF UsageInv

\* Thread t changes the table and begins to count.
LEMMA UsagePut ==
    ASSUME UsageInv, NEW t \in Thread, NEW k \in Key, job[t].pc # "charge",
           job'[t].pc = "charge", job'[t].lock = LockOf(k, backend), Free(LockOf(k, backend)),
           job'[t].bytes = HeldBytes'[k] - HeldBytes[k], job'[t].items = HeldItems'[k] - HeldItems[k],
           HeldBytes' \in [Key -> Amounts], \A x \in Key : x # k => HeldBytes'[x] = HeldBytes[x],
           HeldItems' \in [Key -> Amounts], \A x \in Key : x # k => HeldItems'[x] = HeldItems[x],
           \A u \in Thread : u # t => Quiet(job[u], job'[u]),
           backend' = backend, usage' = usage
    PROVE  UsageInv'
<1>1. PICK at, fb, fi :
        /\ Slots(Charging, at)
        /\ \A u \in Charging : job[u].lock = LockOf(at[u], backend)
        /\ Ledger(usage.bytes, OwedBytes, HeldBytes, Charging, at, fb)
        /\ Ledger(usage.items, OwedItems, HeldItems, Charging, at, fi)
  BY DEF UsageInv
<1> DEFINE C == Charging
           D == C \cup {t}
           b == [at EXCEPT ![t] = k]
<1>2. t \in Thread \ C BY DEF Charging
<1>3. Charging' = C \cup {t} BY DEF Charging, Quiet
<1>4. \A x \in C : at[x] # k
  <2> SUFFICES ASSUME NEW x \in C, at[x] = k PROVE FALSE OBVIOUS
  <2>1. job[x].lock = LockOf(k, backend) /\ x \in Thread BY <1>1 DEF Charging
  <2> QED BY <2>1 DEF Free
<1>5. \A u \in Thread : u # t => job'[u].lock = job[u].lock \/ u \notin C BY DEF Charging, Quiet
<1>6. \A u \in Thread : OwedBytes[u] = job[u].bytes /\ OwedItems[u] = job[u].items BY DEF OwedBytes, OwedItems
<1>7. OwedBytes' = [u \in Thread |-> job'[u].bytes] /\ OwedItems' = [u \in Thread |-> job'[u].items]
  BY DEF OwedBytes, OwedItems
<1>8. /\ OwedBytes \in [Thread -> Int] /\ OwedItems \in [Thread -> Int]
      /\ HeldBytes \in [Key -> Amounts] /\ HeldItems \in [Key -> Amounts]
      /\ \A u \in Thread \ C : OwedBytes[u] = 0 /\ OwedItems[u] = 0
  BY <1>1 DEF Ledger
<1>9. \A u \in Thread : u # t => OwedBytes'[u] = OwedBytes[u] /\ OwedItems'[u] = OwedItems[u]
  <2> SUFFICES ASSUME NEW u \in Thread, u # t
               PROVE  job'[u].bytes = job[u].bytes /\ job'[u].items = job[u].items
    BY <1>6, <1>7
  <2>1. CASE u \in C BY <2>1 DEF Charging, Quiet
  <2>2. CASE u \notin C
    <3>1. job[u].bytes = 0 /\ job[u].items = 0 BY <1>6, <1>8, <2>2
    <3> QED BY <2>2, <3>1 DEF Charging, Quiet
  <2> QED BY <2>1, <2>2
<1>10. /\ OwedBytes'[t] = HeldBytes'[k] - HeldBytes[k] /\ OwedItems'[t] = HeldItems'[k] - HeldItems[k]
       /\ OwedBytes'[t] \in Int /\ OwedItems'[t] \in Int
  <2>1. OwedBytes'[t] = HeldBytes'[k] - HeldBytes[k] /\ OwedItems'[t] = HeldItems'[k] - HeldItems[k] BY <1>7
  <2>2. HeldBytes'[k] \in Int /\ HeldBytes[k] \in Int /\ HeldItems'[k] \in Int /\ HeldItems[k] \in Int
    BY <1>8, AmountsNat
  <2> QED BY <2>1, <2>2
<1>11. OwedBytes' \in [Thread -> Int] /\ OwedItems' \in [Thread -> Int]
  <2>1. \A u \in Thread : OwedBytes'[u] \in Int /\ OwedItems'[u] \in Int BY <1>8, <1>9, <1>10
  <2>2. \A u \in Thread : job'[u].bytes \in Int /\ job'[u].items \in Int BY <1>7, <2>1
  <2> QED BY <1>7, <2>2
<1>a. Slots(C \cup {t}, b) BY <1>1, <1>2, <1>4 DEF Slots
<1>12. Ledger(usage.bytes, OwedBytes', HeldBytes', D, b, fb)
  <2> DEFINE v == OwedBytes'
             g == HeldBytes'
             w == OwedBytes
             h == HeldBytes
  <2>1. v \in [Thread -> Int] /\ v[t] = g[k] - h[k] /\ \A x \in Thread : x # t => v[x] = w[x]
    BY <1>9, <1>10, <1>11
  <2>2. g \in [Key -> Amounts] /\ \A x \in Key : x # k => g[x] = h[x] OBVIOUS
  <2>3. Ledger(usage.bytes, w, h, C, at, fb) /\ Slots(C, at) BY <1>1
  <2>4. b = [at EXCEPT ![t] = k] /\ D = C \cup {t} OBVIOUS
  <2> HIDE DEF v, g, w, h, b, C, D
  <2>5. PutStep(w, v, h, g, C, D, at, b, t, k) BY <1>2, <1>4, <2>1, <2>2, <2>4 DEF PutStep
  <2>6. Ledger(usage.bytes, v, g, D, b, fb) BY <2>3, <2>5, LedgerPut
  <2> QED BY <2>6 DEF v, g
<1>13. Ledger(usage.items, OwedItems', HeldItems', D, b, fi)
  <2> DEFINE v == OwedItems'
             g == HeldItems'
             w == OwedItems
             h == HeldItems
  <2>1. v \in [Thread -> Int] /\ v[t] = g[k] - h[k] /\ \A x \in Thread : x # t => v[x] = w[x]
    BY <1>9, <1>10, <1>11
  <2>2. g \in [Key -> Amounts] /\ \A x \in Key : x # k => g[x] = h[x] OBVIOUS
  <2>3. Ledger(usage.items, w, h, C, at, fi) /\ Slots(C, at) BY <1>1
  <2>4. b = [at EXCEPT ![t] = k] /\ D = C \cup {t} OBVIOUS
  <2> HIDE DEF v, g, w, h, b, C, D
  <2>5. PutStep(w, v, h, g, C, D, at, b, t, k) BY <1>2, <1>4, <2>1, <2>2, <2>4 DEF PutStep
  <2>6. Ledger(usage.items, v, g, D, b, fi) BY <2>3, <2>5, LedgerPut
  <2> QED BY <2>6 DEF v, g
<1>14. \A u \in Charging' : job'[u].lock = LockOf(b[u], backend')
  <2>1. C \subseteq Thread /\ DOMAIN at = Thread BY <1>1 DEF Slots
  <2> QED BY <1>1, <1>2, <1>3, <1>5, <2>1
<1> HIDE DEF b
<1>15. /\ Slots(Charging', b)
       /\ \A u \in Charging' : job'[u].lock = LockOf(b[u], backend')
       /\ Ledger(usage'.bytes, OwedBytes', HeldBytes', Charging', b, fb)
       /\ Ledger(usage'.items, OwedItems', HeldItems', Charging', b, fi)
  BY <1>3, <1>a, <1>12, <1>13, <1>14
<1> QED BY <1>15 DEF UsageInv

\* Thread t ends counting.
LEMMA UsageCharge == ASSUME RequestInv, UsageInv, NEW t \in Thread, Charge(t) PROVE UsageInv'
<1> DEFINE j == job[t]
           r == [j EXCEPT !.lock = None, !.items = 0, !.bytes = 0]
           c == Continue(r)
           C == Charging
           D == C \ {t}
<1>1. /\ j.pc = "charge" /\ job' = [job EXCEPT ![t] = c] /\ backend' = backend /\ kv' = kv /\ sizes' = sizes
      /\ usage' = [items |-> (usage.items + j.items) % Mod, bytes |-> (usage.bytes + j.bytes) % Mod]
  BY DEF Charge, Charged
<1>2. HeldBytes' = HeldBytes /\ HeldItems' = HeldItems BY <1>1 DEF HeldBytes, HeldItems
<1>3. IsJob(j) BY DEF RequestInv, JobOK, JobShape
<1>4. IsJob(r) /\ r.items = 0 /\ r.bytes = 0 BY <1>3 DEF IsJob
<1> HIDE DEF r
<1>5. c.pc # "charge" /\ c.items = 0 /\ c.bytes = 0
  <2>1. [r EXCEPT !.pc = "write"].pc = "write" /\ [r EXCEPT !.pc = "write"].items = 0
        /\ [r EXCEPT !.pc = "write"].bytes = 0
    BY <1>4 DEF IsJob
  <2>2. [r EXCEPT !.pc = "usage"].pc = "usage" /\ [r EXCEPT !.pc = "usage"].items = 0
        /\ [r EXCEPT !.pc = "usage"].bytes = 0
    BY <1>4 DEF IsJob
  <2>3. Idle.pc = "idle" /\ Idle.items = 0 /\ Idle.bytes = 0 BY DEF Idle
  <2> QED BY <2>1, <2>2, <2>3 DEF Continue
<1> HIDE DEF c
<1>6. job'[t] = c /\ \A u \in Thread : u # t => job'[u] = job[u] BY <1>1 DEF RequestInv
<1>7. PICK at, fb, fi :
        /\ Slots(Charging, at)
        /\ \A u \in Charging : job[u].lock = LockOf(at[u], backend)
        /\ Ledger(usage.bytes, OwedBytes, HeldBytes, Charging, at, fb)
        /\ Ledger(usage.items, OwedItems, HeldItems, Charging, at, fi)
  BY DEF UsageInv
<1>8. t \in C /\ Charging' = D BY <1>1, <1>5, <1>6 DEF Charging
<1>9. OwedBytes[t] = j.bytes /\ OwedItems[t] = j.items BY DEF OwedBytes, OwedItems
<1>10. /\ OwedBytes' = [u \in Thread |-> job'[u].bytes] /\ OwedItems' = [u \in Thread |-> job'[u].items]
       /\ OwedBytes = [u \in Thread |-> job[u].bytes] /\ OwedItems = [u \in Thread |-> job[u].items]
  BY DEF OwedBytes, OwedItems
<1>11. OwedBytes \in [Thread -> Int] /\ OwedItems \in [Thread -> Int] BY <1>7 DEF Ledger
<1>12. ChargeStep(OwedBytes, OwedBytes', C, D, t)
  <2>1. OwedBytes'[t] = 0 /\ \A u \in Thread : u # t => OwedBytes'[u] = OwedBytes[u] BY <1>5, <1>6, <1>10
  <2>2. \A u \in Thread : job'[u].bytes \in Int BY <1>10, <1>11, <2>1
  <2>3. OwedBytes' \in [Thread -> Int] BY <1>10, <2>2
  <2> QED BY <1>8, <2>1, <2>3 DEF ChargeStep
<1>13. ChargeStep(OwedItems, OwedItems', C, D, t)
  <2>1. OwedItems'[t] = 0 /\ \A u \in Thread : u # t => OwedItems'[u] = OwedItems[u] BY <1>5, <1>6, <1>10
  <2>2. \A u \in Thread : job'[u].items \in Int BY <1>10, <1>11, <2>1
  <2>3. OwedItems' \in [Thread -> Int] BY <1>10, <2>2
  <2> QED BY <1>8, <2>1, <2>3 DEF ChargeStep
<1>14. PICK gb : Ledger((usage.bytes + OwedBytes[t]) % Mod, OwedBytes', HeldBytes, D, at, gb)
  BY <1>7, <1>12, LedgerCharge
<1>15. PICK gi : Ledger((usage.items + OwedItems[t]) % Mod, OwedItems', HeldItems, D, at, gi)
  BY <1>7, <1>13, LedgerCharge
<1>16. Slots(D, at) BY <1>7 DEF Slots
<1>17. usage'.bytes = (usage.bytes + OwedBytes[t]) % Mod /\ usage'.items = (usage.items + OwedItems[t]) % Mod
  BY <1>1, <1>9
<1>18. \A u \in D : job'[u].lock = LockOf(at[u], backend')
  <2>1. C \subseteq Thread BY DEF Charging
  <2> QED BY <1>1, <1>6, <1>7, <2>1
<1> HIDE DEF D
<1>19. /\ Slots(Charging', at)
       /\ \A u \in Charging' : job'[u].lock = LockOf(at[u], backend')
       /\ Ledger(usage'.bytes, OwedBytes', HeldBytes', Charging', at, gb)
       /\ Ledger(usage'.items, OwedItems', HeldItems', Charging', at, gi)
  BY <1>2, <1>8, <1>14, <1>15, <1>16, <1>17, <1>18
<1> QED BY <1>19 DEF UsageInv

\* The requests of the others are left counting, or not, when a thread stores.
LEMMA OthersQuiet ==
    ASSUME RequestInv, NEW t, NEW es, NEW j, Store(t, es, j), NEW u \in Thread, u # t
    PROVE  Quiet(job[u], job'[u])
<1> DEFINE a == job[u]
           c == job'[u]
<1>1. IsJob(a) BY DEF RequestInv, JobOK, JobShape
<1>2. \/ \E x : c = [a EXCEPT !.was = x]
      \/ \E x : c = [a EXCEPT !.others = x]
      \/ c = a
  BY DEF Store
<1> HIDE DEF a, c
<1>3. c.pc = a.pc /\ c.bytes = a.bytes /\ c.items = a.items /\ c.lock = a.lock BY <1>1, <1>2 DEF IsJob
<1> QED BY <1>3 DEF Quiet, a, c

LEMMA UsageMemPut ==
    ASSUME RequestInv, UsageInv, HeldAmounts', NEW t \in Thread, MemPut(t)
    PROVE  UsageInv'
<1> DEFINE j == job[t]
           e == j.batch[j.next]
           items == Present(ValueOf(e)) - Present(kv[e.key])
           bytes == Footprint(ValueOf(e)) - Footprint(kv[e.key])
           lock == MemLock(e.key)
           k == [j EXCEPT !.pc = "charge", !.next = j.next + 1, !.lock = lock, !.items = items, !.bytes = bytes]
<1>1. /\ backend = "inmemory" /\ j.pc = "write" /\ Free(Place[e.key]) /\ Store(t, {e}, k)
      /\ backend' = backend /\ usage' = usage
  BY DEF MemPut
<1>2. JobOK(j, backend, kv) BY DEF RequestInv
<1> HIDE DEF j, items, bytes, lock
<1>3. /\ IsJob(j) /\ j.batch \in Seq(WriteEntry) /\ j.next \in 1..Len(j.batch)
  BY <1>1, <1>2 DEF JobOK, JobShape, JobBatch, Writing, MemShape
<1>4. e \in WriteEntry BY <1>3
<1>5. k.pc = "charge" /\ k.lock = lock /\ k.items = items /\ k.bytes = bytes BY <1>3 DEF IsJob
<1> HIDE DEF e, k
<1>6. e.key \in Key BY <1>4, ValueOfType
<1>7. OnePerKey({e}) /\ {e} \in SUBSET WriteEntry BY <1>4 DEF OnePerKey
<1>8. kv'[e.key] = ValueOf(e) /\ \A x \in Key : x # e.key => kv'[x] = kv[x] BY <1>1, <1>7, StoredIs
<1>9. job'[t] = k BY <1>1 DEF Store
<1>10. \A u \in Thread : u # t => Quiet(job[u], job'[u]) BY <1>1, OthersQuiet
<1>11. \A x \in Key : /\ HeldBytes[x] = Footprint(kv[x]) /\ HeldBytes'[x] = Footprint(kv'[x])
                      /\ HeldItems[x] = Present(kv[x]) /\ HeldItems'[x] = Present(kv'[x])
  BY <1>1 DEF HeldBytes, HeldItems
<1>12. HeldBytes' \in [Key -> Amounts] /\ HeldItems' \in [Key -> Amounts] BY DEF HeldAmounts
<1>13. job'[t].bytes = HeldBytes'[e.key] - HeldBytes[e.key] /\ job'[t].items = HeldItems'[e.key] - HeldItems[e.key]
  BY <1>5, <1>6, <1>8, <1>9, <1>11 DEF bytes, items
<1>14. job[t].pc # "charge" /\ job'[t].pc = "charge" BY <1>1, <1>5, <1>9 DEF j
<1>15. job'[t].lock = LockOf(e.key, backend) /\ Free(LockOf(e.key, backend))
  BY <1>1, <1>5, <1>9 DEF LockOf, MemLock, lock
<1>16. \A x \in Key : x # e.key => HeldBytes'[x] = HeldBytes[x] /\ HeldItems'[x] = HeldItems[x] BY <1>8, <1>11
<1> QED BY <1>1, <1>6, <1>10, <1>12, <1>13, <1>14, <1>15, <1>16, UsagePut

LEMMA UsageEloq ==
    ASSUME RequestInv, SizesInv, UsageInv, HeldAmounts', NEW t \in Thread, EloqUsage(t)
    PROVE  UsageInv'
<1> DEFINE j == job[t]
           e == NextCommitted(j.committed)
           new == SizeOf(ValueOf(e))
           rest == j.committed \ {e}
           items == Count(new) - Count(sizes[e.key])
           bytes == Resized(sizes[e.key], new)
           k == [j EXCEPT !.pc = "charge", !.committed = rest, !.lock = "usage_mu",
                          !.items = items, !.bytes = bytes]
<1>1. /\ j.pc = "usage" /\ Free("usage_mu") /\ job' = [job EXCEPT ![t] = k] /\ backend' = backend
      /\ usage' = usage /\ kv' = kv /\ sizes' = [sizes EXCEPT ![e.key] = new]
  BY DEF EloqUsage
<1>2. /\ backend = "eloqstore" /\ IsJob(j) /\ e \in WriteEntry BY <1>1, UsageKnows
<1> HIDE DEF j, e, items, bytes
<1>3. k.pc = "charge" /\ k.lock = "usage_mu" /\ k.items = items /\ k.bytes = bytes BY <1>2 DEF IsJob
<1> HIDE DEF k, new
<1>4. e.key \in Key BY <1>2, ValueOfType
<1>5. job'[t] = k /\ \A u \in Thread : u # t => job'[u] = job[u] BY <1>1 DEF RequestInv
<1>6. \A u \in Thread : u # t => Quiet(job[u], job'[u]) BY <1>5 DEF Quiet
<1>7. \A x \in Key : /\ HeldBytes[x] = Sized(sizes[x]) /\ HeldBytes'[x] = Sized(sizes'[x])
                     /\ HeldItems[x] = Count(sizes[x]) /\ HeldItems'[x] = Count(sizes'[x])
  BY <1>1, <1>2 DEF HeldBytes, HeldItems
<1>8. HeldBytes' \in [Key -> Amounts] /\ HeldItems' \in [Key -> Amounts] BY DEF HeldAmounts
<1>9. sizes'[e.key] = new /\ \A x \in Key : x # e.key => sizes'[x] = sizes[x] BY <1>1, <1>4 DEF SizesInv
<1>10. job'[t].bytes = HeldBytes'[e.key] - HeldBytes[e.key] /\ job'[t].items = HeldItems'[e.key] - HeldItems[e.key]
  BY <1>3, <1>4, <1>5, <1>7, <1>9 DEF bytes, items, Resized
<1>11. job[t].pc # "charge" /\ job'[t].pc = "charge" BY <1>1, <1>3, <1>5 DEF j
<1>12. job'[t].lock = LockOf(e.key, backend) /\ Free(LockOf(e.key, backend)) BY <1>1, <1>2, <1>3, <1>5 DEF LockOf
<1>13. \A x \in Key : x # e.key => HeldBytes'[x] = HeldBytes[x] /\ HeldItems'[x] = HeldItems[x] BY <1>7, <1>9
<1> QED BY <1>1, <1>4, <1>6, <1>8, <1>10, <1>11, <1>12, <1>13, UsagePut

\* Steps that leave the counting alone.
LEMMA UsageOne ==
    ASSUME RequestInv, UsageInv, NEW t \in Thread, NEW k, job' = [job EXCEPT ![t] = k], Quiet(job[t], k),
           backend' = backend, kv' = kv, sizes' = sizes, usage' = usage
    PROVE  UsageInv'
<1>1. HeldBytes' = HeldBytes /\ HeldItems' = HeldItems BY DEF HeldBytes, HeldItems
<1>2. \A u \in Thread : job'[u] = IF u = t THEN k ELSE job[u] BY DEF RequestInv
<1>3. \A u \in Thread : Quiet(job[u], job'[u]) BY <1>2 DEF Quiet
<1> QED BY <1>1, <1>3, UsageQuiet

LEMMA UsageBegin ==
    ASSUME RequestInv, UsageInv, NEW t \in Thread, NEW j, Begin(t, j), IsJob(j), j.pc # "charge",
           j.items = 0, j.bytes = 0
    PROVE  UsageInv'
<1> DEFINE k == [j EXCEPT !.was = [x \in Key |-> {kv[x]}]]
<1>1. /\ job[t].pc = "idle" /\ job' = [job EXCEPT ![t] = k]
      /\ backend' = backend /\ kv' = kv /\ sizes' = sizes /\ usage' = usage
  BY DEF Begin
<1>2. k.pc = j.pc /\ k.items = j.items /\ k.bytes = j.bytes BY DEF IsJob
<1> HIDE DEF k
<1>3. Quiet(job[t], k) BY <1>1, <1>2 DEF Quiet
<1> QED BY <1>1, <1>3, UsageOne

LEMMA UsageBatch == ASSUME RequestInv, UsageInv, NEW t \in Thread, BatchWrite(t) PROVE UsageInv'
<1>1. PICK b \in Batches :
        LET batch == [i \in DOMAIN b |-> [key |-> b[i].key, val |-> b[i].val, ts |-> clock + 1]]
        IN Begin(t, IF backend = "inmemory" THEN [Idle EXCEPT !.pc = "write", !.batch = batch, !.next = 1]
                    ELSE [Idle EXCEPT !.pc = "write", !.batch = batch, !.left = {Place[k] : k \in KeysOf(b)}])
  BY DEF BatchWrite
<1> DEFINE batch == [i \in DOMAIN b |-> [key |-> b[i].key, val |-> b[i].val, ts |-> clock + 1]]
           places == {Place[k] : k \in KeysOf(b)}
           r == IF backend = "inmemory" THEN [Idle EXCEPT !.pc = "write", !.batch = batch, !.next = 1]
                ELSE [Idle EXCEPT !.pc = "write", !.batch = batch, !.left = places]
<1>2. Begin(t, r) BY <1>1
<1> HIDE DEF batch, places
<1>3. IsJob(r) /\ r.pc # "charge" /\ r.items = 0 /\ r.bytes = 0 BY DEF IsJob, Idle
<1> HIDE DEF r
<1> QED BY <1>2, <1>3, UsageBegin

LEMMA UsageScan == ASSUME RequestInv, UsageInv, NEW t \in Thread, Scan(t) PROVE UsageInv'
<1>1. PICK limit \in Limits : Begin(t, [Idle EXCEPT !.pc = "scan", !.limit = limit]) BY DEF Scan
<1> DEFINE r == [Idle EXCEPT !.pc = "scan", !.limit = limit]
<1>2. Begin(t, r) BY <1>1
<1>3. IsJob(r) /\ r.pc # "charge" /\ r.items = 0 /\ r.bytes = 0 BY DEF IsJob, Idle
<1> HIDE DEF r
<1> QED BY <1>2, <1>3, UsageBegin

LEMMA UsageEnds ==
    ASSUME RequestInv, UsageInv, NEW t \in Thread, EloqWriteFail(t) \/ EloqScanFail(t) \/ ScanReturn(t)
    PROVE  UsageInv'
<1>1. /\ job' = [job EXCEPT ![t] = Idle] /\ job[t].pc \in {"write", "scan", "hits"}
      /\ backend' = backend /\ kv' = kv /\ sizes' = sizes /\ usage' = usage
  BY DEF EloqWriteFail, EloqScanFail, ScanReturn
<1>2. Idle.pc = "idle" /\ Idle.items = 0 /\ Idle.bytes = 0 BY DEF Idle
<1>3. Quiet(job[t], Idle) BY <1>1, <1>2 DEF Quiet
<1> QED BY <1>1, <1>3, UsageOne

LEMMA UsageScanPlace == ASSUME RequestInv, UsageInv, NEW t \in Thread, ScanPlace(t) PROVE UsageInv'
<1> DEFINE j == job[t]
<1>a. PICK G \in Pages(j.place, j.limit) : job' = [job EXCEPT ![t] = NextPlace(ReadPage(j, G))] BY DEF ScanPlace
<1> DEFINE i == ReadPage(j, G)
           k == NextPlace(i)
<1>1. /\ j.pc = "scan" /\ job' = [job EXCEPT ![t] = k]
      /\ backend' = backend /\ kv' = kv /\ sizes' = sizes /\ usage' = usage
  BY <1>a DEF ScanPlace
<1>2. IsJob(j) BY DEF RequestInv, JobOK, JobShape
<1>b. IsJob(i) /\ i.pc = "scan" /\ i.items = j.items /\ i.bytes = j.bytes BY <1>1, <1>2, ReadPageIs
<1> HIDE DEF i
<1>3. k.pc # "charge" /\ k.items = j.items /\ k.bytes = j.bytes BY <1>b DEF NextPlace, IsJob
<1> HIDE DEF k
<1>4. Quiet(j, k) BY <1>1, <1>3 DEF Quiet
<1> QED BY <1>1, <1>4, UsageOne

LEMMA UsageEloqWrite == ASSUME RequestInv, UsageInv, NEW t \in Thread, EloqWrite(t) PROVE UsageInv'
<1> DEFINE j == job[t]
           p == Min(j.left)
           es == Kept(j.batch, p)
           left == j.left \ {p}
           written == j.committed \cup es
           r == [j EXCEPT !.left = left, !.committed = written]
           i == Continue(r)
<1>1. /\ backend = "eloqstore" /\ j.pc = "write" /\ Store(t, es, i)
      /\ backend' = backend /\ sizes' = sizes /\ usage' = usage
  BY DEF EloqWrite
<1>2. IsJob(j) BY DEF RequestInv, JobOK, JobShape
<1> HIDE DEF left, written, es
<1>3. IsJob(r) /\ r.items = j.items /\ r.bytes = j.bytes BY <1>2 DEF IsJob
<1> HIDE DEF r
<1>4. i.pc # "charge" /\ i.items \in {0, j.items} /\ i.bytes \in {0, j.bytes}
  <2>1. [r EXCEPT !.pc = "write"].pc = "write" /\ [r EXCEPT !.pc = "write"].items = r.items
        /\ [r EXCEPT !.pc = "write"].bytes = r.bytes
    BY <1>3 DEF IsJob
  <2>2. [r EXCEPT !.pc = "usage"].pc = "usage" /\ [r EXCEPT !.pc = "usage"].items = r.items
        /\ [r EXCEPT !.pc = "usage"].bytes = r.bytes
    BY <1>3 DEF IsJob
  <2>3. Idle.pc = "idle" /\ Idle.items = 0 /\ Idle.bytes = 0 BY DEF Idle
  <2> QED BY <1>3, <2>1, <2>2, <2>3 DEF Continue
<1> HIDE DEF i
<1>5. job'[t] = i BY <1>1 DEF Store
<1>6. Quiet(job[t], job'[t]) BY <1>1, <1>4, <1>5 DEF Quiet
<1>7. \A u \in Thread : Quiet(job[u], job'[u]) BY <1>1, <1>6, OthersQuiet
<1>8. HeldBytes' = HeldBytes /\ HeldItems' = HeldItems BY <1>1 DEF HeldBytes, HeldItems
<1> QED BY <1>1, <1>7, <1>8, UsageQuiet

\* An empty table that no one writes to.
LEMMA UsageEmpty ==
    ASSUME usage = [items |-> 0, bytes |-> 0], \A t \in Thread : job[t] = Idle,
           backend = "inmemory" => \A k \in Key : kv[k] = None,
           backend # "inmemory" => \A k \in Key : sizes[k] = None
    PROVE  UsageInv
<1> DEFINE z == [k \in Key |-> 0]
           w == [t \in Thread |-> 0]
           at == [t \in Thread |-> 0]
<1>1. Idle.pc = "idle" /\ Idle.items = 0 /\ Idle.bytes = 0 BY DEF Idle
<1>2. Charging = {} BY <1>1 DEF Charging
<1>3. OwedBytes = w /\ OwedItems = w BY <1>1 DEF OwedBytes, OwedItems
<1>4. HeldBytes = z /\ HeldItems = z
  BY DEF HeldBytes, HeldItems, Footprint, Present, Sized, Count
<1>5. z \in [Key -> Amounts] /\ w \in [Thread -> Int] BY AmountsNat
<1>6. SumFunctionOnSet(z, Key) = 0
  <2>1. \A k \in Key : z[k] = 0 OBVIOUS
  <2> HIDE DEF z
  <2> QED BY <2>1, KeyAssumption, SumZero
<1>7. SumFunctionOnSet(w, Thread) = 0
  <2>1. \A t \in Thread : w[t] = 0 OBVIOUS
  <2> HIDE DEF w
  <2> QED BY <2>1, ThreadAssumption, SumZero
<1>8. \A t \in Thread : w[t] = 0 OBVIOUS
<1>9. Slots({}, at) BY DEF Slots
<1> HIDE DEF z, w, at
<1>10. Ledger(0, w, z, {}, at, z) BY <1>5, <1>6, <1>7, <1>8 DEF Ledger
<1>11. /\ Slots(Charging, at)
       /\ \A t \in Charging : job[t].lock = LockOf(at[t], backend)
       /\ Ledger(usage.bytes, OwedBytes, HeldBytes, Charging, at, z)
       /\ Ledger(usage.items, OwedItems, HeldItems, Charging, at, z)
  BY <1>2, <1>3, <1>4, <1>9, <1>10
<1> QED BY <1>11 DEF UsageInv

\* Empty, as a state function, so that it can be said of the next state.
Fresh ==
    /\ usage = [items |-> 0, bytes |-> 0] /\ \A t \in Thread : job[t] = Idle
    /\ backend = "inmemory" => \A k \in Key : kv[k] = None
    /\ backend # "inmemory" => \A k \in Key : sizes[k] = None

LEMMA FreshUsage == Fresh => UsageInv
BY UsageEmpty DEF Fresh

LEMMA UsageStep == RequestInv /\ SizesInv /\ UsageInv /\ HeldAmounts' /\ [Next]_vars => UsageInv' \/ Fresh'
<1> SUFFICES ASSUME RequestInv, SizesInv, UsageInv, HeldAmounts', [Next]_vars PROVE UsageInv' \/ Fresh' OBVIOUS
<1>1. CASE Restart BY <1>1 DEF Restart, Fresh
<1>2. CASE UNCHANGED vars
  <2>1. job' = job /\ backend' = backend /\ kv' = kv /\ sizes' = sizes /\ usage' = usage BY <1>2 DEF vars
  <2>2. HeldBytes' = HeldBytes /\ HeldItems' = HeldItems BY <2>1 DEF HeldBytes, HeldItems
  <2>3. \A u \in Thread : Quiet(job[u], job'[u]) BY <2>1 DEF Quiet
  <2> QED BY <2>1, <2>2, <2>3, UsageQuiet
<1>3. CASE Finished BY <1>2, <1>3 DEF Finished
<1> QED BY <1>1, <1>2, <1>3, UsageBatch, UsageMemPut, UsageCharge, UsageEloqWrite, UsageEnds, UsageEloq, UsageScan,
           UsageScanPlace
      DEF Next

\* Whatever the threads do, the counters are what the table holds but for what
\* is still to be counted: the 64-bit counters never wrap below zero or above.
THEOREM CountersNeverWrap == Spec => []UsageNeverWraps
<1>1. Init => RequestInv /\ SizesInv BY RequestStart, SizesStart
<1>2. Init => Fresh BY DEF Init, Fresh
<1>3. RequestInv /\ SizesInv /\ [Next]_vars => RequestInv' /\ SizesInv' BY RequestStep, SizesStep
<1>4. RequestInv /\ SizesInv /\ UsageInv /\ HeldAmounts' /\ [Next]_vars => UsageInv' \/ Fresh' BY UsageStep
<1>5. UsageInv => UsageNeverWraps
  <2> SUFFICES ASSUME UsageInv PROVE UsageNeverWraps OBVIOUS
  <2>1. /\ usage.bytes + SumFunctionOnSet(OwedBytes, Thread) = SumFunctionOnSet(HeldBytes, Key)
        /\ usage.items + SumFunctionOnSet(OwedItems, Thread) = SumFunctionOnSet(HeldItems, Key)
    BY DEF UsageInv, Ledger
  <2> QED BY <2>1 DEF UsageNeverWraps, OwedBytes, OwedItems
<1>6. Fresh => UsageInv BY FreshUsage
<1>7. RequestInv /\ SizesInv => HeldAmounts BY HeldType
<1> QED BY <1>1, <1>2, <1>3, <1>4, <1>5, <1>6, <1>7, PTL DEF Spec
=============================================================================
