---------------------------- MODULE LayoutProofs ----------------------------
(* Proofs about EloqStoreLayout, for all hash functions, numbers of        *)
(* partitions, entries and namespaces.                                     *)
EXTENDS EloqStoreLayout, TLAPS

\* Rows are only where the m-partition layout looks for them.
Placed(m) == \A p \in Pid, k \in Entry : rows[p][k] # None => p = ResolvePartitionId(m, k)

\* Rows are in partitions that DetectExistingPartitions sees.
OnDisk == \A p \in Pid, k \in Entry : rows[p][k] # None => p \in dirs

\* A layout file can be trusted, unless a refresh to another layout was begun.
MetaTrusted == (meta # None /\ (cut => n = meta)) => Placed(meta)

\* Where Start is, and what it has achieved.
Progress ==
    /\ pc \in {"meta", "write", "up"} => Placed(n)
    /\ pc = "up" => meta = n
    /\ pc = "rehash" => cut

\* A row in the wrong place is still to be scanned, or in the hands of Start.
WrongIsKnown ==
    pc = "rehash" => \A p \in Pid, k \in Entry :
        (rows[p][k] # None /\ p # ResolvePartitionId(n, k)) =>
            (<<p, NsOf[k]>> \in left \/ (p = src /\ k \in dels))

\* What Start has in hand: the source has it until the target has it.
InHand ==
    /\ batch \subseteq dels
    /\ pc # "rehash" => dels = {}
    /\ \A k \in dels : /\ rows[src][k] # None /\ ResolvePartitionId(n, k) # src
                       /\ k \notin batch => rows[ResolvePartitionId(n, k)][k] = live[k]

LayoutInv ==
    /\ LayoutTypeOK /\ NothingLost /\ OnDisk /\ MetaTrusted
    /\ Progress /\ WrongIsKnown /\ InHand

-----------------------------------------------------------------------------
\* The home of an entry is one of the configured partitions.
LEMMA HomeInRange ==
    ASSUME NEW m \in Count, NEW k \in Entry
    PROVE  /\ ResolvePartitionId(m, k) \in Pid
           /\ ResolvePartitionId(m, k) < m
<1>1. m \in Nat /\ m > 0 /\ m <= MaxPartitions BY LayoutAssumption DEF Count
<1>2. Hash[k] \in Nat BY LayoutAssumption
<1>3. Hash[k] % m \in 0..(m - 1) BY <1>1, <1>2
<1> QED BY <1>1, <1>3, LayoutAssumption DEF ResolvePartitionId, Pid

\* A timestamp or a number of partitions is not None.
LEMMA NatNotNone == \A x \in Nat : x # None
BY LayoutAssumption

LEMMA CountNat == \A m \in Count : m \in Nat /\ m # None
BY LayoutAssumption, NatNotNone DEF Count

-----------------------------------------------------------------------------
LEMMA LayoutInit == Init => LayoutInv
<1> SUFFICES ASSUME Init PROVE LayoutInv OBVIOUS
<1>1. 0 \in Pid /\ 1 \in Count BY LayoutAssumption DEF Pid, Count
<1>2. \A k \in Entry : live[k] = None /\ \A p \in Pid : rows[p][k] = None BY DEF Init, NoRows
<1>3. LayoutTypeOK BY <1>1 DEF LayoutTypeOK, Init, NoRows
<1>4. NothingLost /\ OnDisk BY <1>2 DEF NothingLost, OnDisk
<1>5. MetaTrusted /\ Progress /\ WrongIsKnown /\ InHand
  BY DEF Init, MetaTrusted, Progress, WrongIsKnown, InHand
<1> QED BY <1>3, <1>4, <1>5 DEF LayoutInv

\* A start, with or without a refresh to come.
LEMMA StartKeeps == ASSUME ~GoesBack, LayoutInv, RefreshLayoutOnStartup PROVE LayoutInv'
<1> USE DEF LayoutInv
<1>1. PICK m \in Count :
        /\ pc = "down" /\ ((cut /\ m = meta) => m = n) /\ n' = m /\ existing' = dirs
        /\ left' = IF NeedsRehash(m) THEN dirs \X Namespace ELSE {}
        /\ pc' = IF NeedsRehash(m) THEN "rehash" ELSE "meta"
        /\ cut' = TRUE /\ starts' = starts + 1
        /\ UNCHANGED <<diskVars, src, batch, dels, live, version>>
  BY DEF RefreshLayoutOnStartup
<1>2. UNCHANGED <<rows, dirs, meta, src, batch, dels, live, version>> BY <1>1 DEF diskVars
<1>3. m \in Nat /\ m # None BY CountNat
<1>4. LayoutTypeOK' BY <1>1, <1>2 DEF LayoutTypeOK
<1>5. NothingLost' /\ OnDisk' BY <1>2 DEF NothingLost, OnDisk
<1>6. dels = {} BY <1>1 DEF InHand
<1>7. InHand' BY <1>2, <1>6 DEF InHand
<1>8. MetaTrusted' BY <1>1, <1>2 DEF MetaTrusted, Placed, ResolvePartitionId
<1>9. meta = m => Placed(m) BY <1>1, <1>3 DEF MetaTrusted
<1>10. CASE NeedsRehash(m)
  <2>2. Progress' BY <1>1, <1>2, <1>10 DEF Progress
  <2>3. \A k \in Entry : NsOf[k] \in Namespace BY LayoutAssumption
  <2>4. WrongIsKnown' BY <1>1, <1>2, <1>10, <2>3 DEF WrongIsKnown, OnDisk
  <2> QED BY <1>4, <1>5, <1>7, <1>8, <2>2, <2>4
<1>11. CASE ~NeedsRehash(m)
  <2>1. meta = m \/ (meta = None /\ dirs = {}) BY <1>11 DEF NeedsRehash
  <2>2. dirs = {} => Placed(m) BY DEF Placed, OnDisk
  <2>3. Placed(m)' BY <1>2, <1>9, <2>1, <2>2 DEF Placed, ResolvePartitionId
  <2>4. Progress' BY <1>1, <1>11, <2>3 DEF Progress
  <2>5. WrongIsKnown' BY <1>1, <1>11 DEF WrongIsKnown
  <2> QED BY <1>4, <1>5, <1>7, <1>8, <2>4, <2>5
<1> QED BY <1>10, <1>11

\* A scan takes the rows that are in the wrong place in hand.
LEMMA ScanKeeps ==
    ASSUME LayoutInv, NEW q \in Pid, NEW ns \in Namespace, ScanSource(q, ns)
    PROVE  LayoutInv'
<1> USE DEF LayoutInv
<1> DEFINE moved == {k \in Entry : NsOf[k] = ns /\ rows[q][k] # None /\ ResolvePartitionId(n, k) # q}
<1>1. /\ pc = "rehash" /\ batch = {} /\ dels = {}
      /\ left' = left \ {<<q, ns>>} /\ src' = q /\ batch' = moved /\ dels' = moved
      /\ UNCHANGED <<rows, dirs, meta, n, pc, existing, live, version, cut, starts>>
  BY DEF ScanSource, diskVars, histVars
<1>2. LayoutTypeOK' BY <1>1 DEF LayoutTypeOK
<1>3. NothingLost' /\ OnDisk' /\ MetaTrusted'
  BY <1>1 DEF NothingLost, OnDisk, MetaTrusted, Placed, ResolvePartitionId
<1>4. Progress' BY <1>1 DEF Progress
<1>5. InHand' BY <1>1 DEF InHand, ResolvePartitionId
<1>6. WrongIsKnown'
  <2> SUFFICES ASSUME NEW p \in Pid, NEW k \in Entry,
                      rows[p][k] # None, p # ResolvePartitionId(n, k)
               PROVE  <<p, NsOf[k]>> \in left' \/ (p = src' /\ k \in dels')
    BY <1>1 DEF WrongIsKnown, ResolvePartitionId
  <2>1. <<p, NsOf[k]>> \in left BY <1>1 DEF WrongIsKnown
  <2>2. CASE p = q /\ NsOf[k] = ns BY <1>1, <2>2
  <2>3. CASE ~(p = q /\ NsOf[k] = ns) BY <1>1, <2>1, <2>3
  <2> QED BY <2>2, <2>3
<1> QED BY <1>2, <1>3, <1>4, <1>5, <1>6

\* A batch for one target: its rows are now in two places.
LEMMA WriteKeeps ==
    ASSUME LayoutInv, NEW q \in Pid, WriteTarget(q)
    PROVE  LayoutInv'
<1> USE DEF LayoutInv
<1> DEFINE mine == {k \in batch : ResolvePartitionId(n, k) = q}
<1>1. /\ pc = "rehash" /\ mine # {}
      /\ rows' = [rows EXCEPT ![q] = [k \in Entry |-> IF k \in mine THEN rows[src][k] ELSE rows[q][k]]]
      /\ dirs' = dirs \cup {q} /\ batch' = batch \ mine
      /\ UNCHANGED <<meta, n, pc, existing, left, src, dels, live, version, cut, starts>>
  BY DEF WriteTarget, histVars
<1>2. batch \subseteq dels /\ dels \subseteq Entry /\ src \in Pid /\ n \in Count
  BY DEF InHand, LayoutTypeOK
<1>3. q # src /\ q < n BY <1>1, <1>2, HomeInRange DEF InHand
<1>4. \A k \in dels : rows[src][k] = live[k] BY <1>2 DEF InHand, NothingLost
<1>5. \A p \in Pid, k \in Entry :
        rows'[p][k] = IF p = q /\ k \in mine THEN live[k] ELSE rows[p][k]
  BY <1>1, <1>2, <1>4 DEF LayoutTypeOK
<1>6. LayoutTypeOK'
  <2>1. rows' \in [Pid -> [Entry -> Nat \cup {None}]] BY <1>1, <1>2 DEF LayoutTypeOK
  <2> QED BY <1>1, <2>1 DEF LayoutTypeOK
<1>7. NothingLost'
  <2> SUFFICES ASSUME NEW k \in Entry
               PROVE  /\ live[k] # None => \E p \in Pid : rows'[p][k] = live[k]
                      /\ \A p \in Pid : rows'[p][k] \in {live[k], None}
    BY <1>1 DEF NothingLost
  <2> QED BY <1>5 DEF NothingLost
<1>8. OnDisk' BY <1>1, <1>5 DEF OnDisk
<1>9. MetaTrusted'
  <2>1. (meta # None /\ n = meta) => Placed(n)' BY <1>1, <1>5 DEF MetaTrusted, Placed, ResolvePartitionId
  <2> QED BY <1>1, <2>1 DEF MetaTrusted, Progress
<1>10. Progress' BY <1>1, <1>3 DEF Progress
<1>11. WrongIsKnown' BY <1>1, <1>5 DEF WrongIsKnown, ResolvePartitionId
<1>12. InHand'
  <2>1. batch' \subseteq dels' /\ pc' = "rehash" BY <1>1 DEF InHand
  <2>2. ASSUME NEW k \in dels
        PROVE  /\ rows'[src][k] # None /\ ResolvePartitionId(n, k) # src
               /\ k \notin batch' => rows'[ResolvePartitionId(n, k)][k] = live[k]
    <3>1. ResolvePartitionId(n, k) \in Pid /\ k \in Entry BY <1>2, HomeInRange
    <3>2. rows'[src][k] = rows[src][k] BY <1>2, <1>3, <1>5, <3>1
    <3> QED BY <1>1, <1>5, <3>1, <3>2 DEF InHand
  <2> QED BY <1>1, <2>1, <2>2 DEF InHand, ResolvePartitionId
<1> QED BY <1>6, <1>7, <1>8, <1>9, <1>10, <1>11, <1>12

\* The deletes of the source: every row deleted is at its home.
LEMMA DeleteKeeps == LayoutInv /\ DeleteSource => LayoutInv'
<1> SUFFICES ASSUME LayoutInv, DeleteSource PROVE LayoutInv' OBVIOUS
<1> USE DEF LayoutInv
<1>1. /\ pc = "rehash" /\ batch = {}
      /\ rows' = [rows EXCEPT ![src] = [k \in Entry |-> IF k \in dels THEN None ELSE rows[src][k]]]
      /\ dels' = {}
      /\ UNCHANGED <<dirs, meta, n, pc, existing, left, src, batch, live, version, cut, starts>>
  BY DEF DeleteSource, histVars
<1>2. dels \subseteq Entry /\ src \in Pid /\ n \in Count BY DEF LayoutTypeOK
<1>3. \A p \in Pid, k \in Entry :
        rows'[p][k] = IF p = src /\ k \in dels THEN None ELSE rows[p][k]
  BY <1>1, <1>2 DEF LayoutTypeOK
<1>4. LayoutTypeOK'
  <2>1. rows' \in [Pid -> [Entry -> Nat \cup {None}]] BY <1>1, <1>2 DEF LayoutTypeOK
  <2> QED BY <1>1, <2>1 DEF LayoutTypeOK
<1>5. NothingLost'
  <2> SUFFICES ASSUME NEW k \in Entry
               PROVE  /\ live[k] # None => \E p \in Pid : rows'[p][k] = live[k]
                      /\ \A p \in Pid : rows'[p][k] \in {live[k], None}
    BY <1>1 DEF NothingLost
  <2>1. CASE k \in dels
    <3>1. /\ ResolvePartitionId(n, k) \in Pid /\ ResolvePartitionId(n, k) # src
          /\ rows[ResolvePartitionId(n, k)][k] = live[k]
      BY <1>1, <1>2, <2>1, HomeInRange DEF InHand
    <3> QED BY <1>3, <3>1 DEF NothingLost
  <2>2. CASE k \notin dels BY <1>3, <2>2 DEF NothingLost
  <2> QED BY <2>1, <2>2
<1>6. OnDisk' BY <1>1, <1>3 DEF OnDisk
<1>7. MetaTrusted'
  <2>1. (meta # None /\ n = meta) => Placed(n)' BY <1>1, <1>3 DEF MetaTrusted, Placed, ResolvePartitionId
  <2> QED BY <1>1, <2>1 DEF MetaTrusted, Progress
<1>8. Progress' BY <1>1 DEF Progress
<1>9. WrongIsKnown' BY <1>1, <1>3 DEF WrongIsKnown, ResolvePartitionId
<1>10. InHand' BY <1>1 DEF InHand
<1> QED BY <1>4, <1>5, <1>6, <1>7, <1>8, <1>9, <1>10

\* The directory of an outdated partition has no rows when it goes.
LEMMA OutdatedKeeps == LayoutInv /\ CleanupOutdatedPartitionDirs => LayoutInv'
<1> SUFFICES ASSUME LayoutInv, CleanupOutdatedPartitionDirs PROVE LayoutInv' OBVIOUS
<1> USE DEF LayoutInv
<1>1. PICK q \in Outdated \cap dirs :
        /\ pc = "rehash" /\ left = {} /\ dels = {}
        /\ rows' = [rows EXCEPT ![q] = NoRows] /\ dirs' = dirs \ {q}
        /\ UNCHANGED <<meta, n, pc, existing, left, src, batch, dels, live, version, cut, starts>>
  BY DEF CleanupOutdatedPartitionDirs, scanVars, histVars
<1>2. q \in Pid /\ q >= n /\ n \in Count BY <1>1 DEF Outdated, LayoutTypeOK
<1>3. \A k \in Entry : rows[q][k] = None
  <2> SUFFICES ASSUME NEW k \in Entry, rows[q][k] # None PROVE FALSE OBVIOUS
  <2>1. q = ResolvePartitionId(n, k) BY <1>1, <1>2 DEF WrongIsKnown
  <2>2. ResolvePartitionId(n, k) < n BY <1>2, HomeInRange
  <2> QED BY <1>2, <2>1, <2>2, CountNat DEF Pid
<1>4. rows' = rows
  <2>1. rows[q] \in [Entry -> Nat \cup {None}] BY <1>2 DEF LayoutTypeOK
  <2>2. rows[q] = NoRows BY <1>3, <2>1 DEF NoRows
  <2> QED BY <1>1, <1>2, <2>2 DEF LayoutTypeOK
<1>5. LayoutTypeOK' BY <1>1, <1>4 DEF LayoutTypeOK
<1>6. NothingLost' /\ WrongIsKnown' /\ InHand'
  BY <1>1, <1>4 DEF NothingLost, WrongIsKnown, InHand, ResolvePartitionId
<1>7. OnDisk' BY <1>1, <1>3, <1>4 DEF OnDisk
<1>8. MetaTrusted' /\ Progress'
  BY <1>1, <1>4 DEF MetaTrusted, Progress, Placed, ResolvePartitionId
<1> QED BY <1>5, <1>6, <1>7, <1>8

\* At the end of a refresh every row is at home.
LEMMA EmptyKeeps == LayoutInv /\ CleanupEmptyPartitionDirs => LayoutInv'
<1> SUFFICES ASSUME LayoutInv, CleanupEmptyPartitionDirs PROVE LayoutInv' OBVIOUS
<1> USE DEF LayoutInv
<1>1. PICK empty \in SUBSET {p \in existing \cap dirs : rows[p] = NoRows} :
        /\ pc = "rehash" /\ left = {} /\ dels = {}
        /\ dirs' = dirs \ empty /\ pc' = "meta"
        /\ UNCHANGED <<rows, meta, n, existing, left, src, batch, dels, live, version, cut, starts>>
  BY DEF CleanupEmptyPartitionDirs, scanVars, histVars
<1>2. LayoutTypeOK' BY <1>1 DEF LayoutTypeOK
<1>3. NothingLost' /\ WrongIsKnown' /\ InHand'
  BY <1>1 DEF NothingLost, WrongIsKnown, InHand, ResolvePartitionId
<1>4. OnDisk' BY <1>1 DEF OnDisk, NoRows
<1>5. MetaTrusted' BY <1>1 DEF MetaTrusted, Placed, ResolvePartitionId
<1>6. Placed(n)' BY <1>1 DEF Placed, WrongIsKnown, ResolvePartitionId
<1>8. Progress' BY <1>1, <1>6 DEF Progress
<1> QED BY <1>2, <1>3, <1>4, <1>5, <1>8

\* The layout file is rewritten.
LEMMA MetaKeeps == LayoutInv /\ (TruncateLayoutMeta \/ PersistLayoutMeta) => LayoutInv'
<1> SUFFICES ASSUME LayoutInv, TruncateLayoutMeta \/ PersistLayoutMeta PROVE LayoutInv' OBVIOUS
<1> USE DEF LayoutInv
<1>1. /\ pc \in {"meta", "write"} /\ pc' \in {"write", "up"} /\ meta' \in {None, n}
      /\ pc' = "up" => meta' = n
      /\ cut' \in BOOLEAN
      /\ UNCHANGED <<rows, dirs, n, existing, left, src, batch, dels, live, version, starts>>
  BY DEF TruncateLayoutMeta, PersistLayoutMeta, scanVars, histVars, LayoutTypeOK
<1>2. Placed(n)' BY <1>1 DEF Progress, Placed, ResolvePartitionId
<1>3. LayoutTypeOK' BY <1>1 DEF LayoutTypeOK
<1>4. NothingLost' /\ OnDisk' /\ WrongIsKnown' /\ InHand'
  BY <1>1 DEF NothingLost, OnDisk, WrongIsKnown, InHand, ResolvePartitionId
<1>5. MetaTrusted' BY <1>1, <1>2 DEF MetaTrusted, Placed, ResolvePartitionId
<1>6. Progress' BY <1>1, <1>2 DEF Progress
<1> QED BY <1>3, <1>4, <1>5, <1>6

\* A request changes one row, at its home.
LEMMA RequestKeeps ==
    ASSUME LayoutInv, NEW k \in Entry, Put(k) \/ Delete(k)
    PROVE  LayoutInv'
<1> USE DEF LayoutInv
<1> DEFINE home == ResolvePartitionId(n, k)
<1>1. PICK v \in Nat \cup {None} :
        /\ pc = "up" /\ version' = version + 1
        /\ rows' = [rows EXCEPT ![home][k] = v] /\ live' = [live EXCEPT ![k] = v]
        /\ dirs' \in {dirs, dirs \cup {home}} /\ (v # None => home \in dirs')
        /\ UNCHANGED <<meta, n, pc, existing, left, src, batch, dels, cut, starts>>
  <2>1. CASE Put(k)
    <3>1. version + 1 \in Nat BY DEF LayoutTypeOK
    <3> QED BY <2>1, <3>1 DEF Put, scanVars
  <2>2. CASE Delete(k) BY <2>2 DEF Delete, scanVars
  <2> QED BY <2>1, <2>2
<1>2. home \in Pid /\ home < n /\ n \in Count BY HomeInRange DEF LayoutTypeOK
<1> HIDE DEF home
<1>3. \A p \in Pid, x \in Entry :
        rows'[p][x] = IF p = home /\ x = k THEN v ELSE rows[p][x]
  BY <1>1, <1>2 DEF LayoutTypeOK
<1>4. \A x \in Entry : live'[x] = IF x = k THEN v ELSE live[x]
  BY <1>1 DEF LayoutTypeOK
<1>5. Placed(n) /\ meta = n BY <1>1 DEF Progress
<1>6. \A p \in Pid : p # home => rows[p][k] = None BY <1>5 DEF Placed, home
<1>7. LayoutTypeOK'
  <2>1. rows' \in [Pid -> [Entry -> Nat \cup {None}]] BY <1>1, <1>2 DEF LayoutTypeOK
  <2>2. live' \in [Entry -> Nat \cup {None}] BY <1>1 DEF LayoutTypeOK
  <2> QED BY <1>1, <1>2, <2>1, <2>2 DEF LayoutTypeOK
<1>8. NothingLost'
  <2> SUFFICES ASSUME NEW x \in Entry
               PROVE  /\ live'[x] # None => \E p \in Pid : rows'[p][x] = live'[x]
                      /\ \A p \in Pid : rows'[p][x] \in {live'[x], None}
    BY DEF NothingLost
  <2>1. CASE x = k BY <1>2, <1>3, <1>4, <1>6, <2>1
  <2>2. CASE x # k BY <1>3, <1>4, <2>2 DEF NothingLost
  <2> QED BY <2>1, <2>2
<1>9. OnDisk' BY <1>1, <1>3 DEF OnDisk
<1>10. Placed(n)' BY <1>1, <1>3, <1>5 DEF Placed, ResolvePartitionId, home
<1>11. MetaTrusted' /\ Progress' /\ WrongIsKnown'
  BY <1>1, <1>5, <1>10 DEF MetaTrusted, Progress, WrongIsKnown
<1>12. InHand' BY <1>1 DEF InHand
<1> QED BY <1>7, <1>8, <1>9, <1>11, <1>12

\* Stopping loses nothing but what Start had in hand.
LEMMA StopKeeps == LayoutInv /\ Stop => LayoutInv'
<1> SUFFICES ASSUME LayoutInv, Stop PROVE LayoutInv' OBVIOUS
<1> USE DEF LayoutInv
<1>1. /\ pc' = "down" /\ existing' = {} /\ left' = {} /\ src' = 0 /\ batch' = {} /\ dels' = {}
      /\ UNCHANGED <<rows, dirs, meta, n, live, version, cut, starts>>
  BY DEF Stop, diskVars, histVars
<1>2. 0 \in Pid BY LayoutAssumption DEF Pid
<1>3. LayoutTypeOK' BY <1>1, <1>2 DEF LayoutTypeOK
<1>4. NothingLost' /\ OnDisk' /\ WrongIsKnown' /\ InHand' /\ Progress'
  BY <1>1 DEF NothingLost, OnDisk, WrongIsKnown, InHand, Progress
<1>5. MetaTrusted' BY <1>1 DEF MetaTrusted, Placed, ResolvePartitionId
<1> QED BY <1>3, <1>4, <1>5

-----------------------------------------------------------------------------
(* The theorems *)

\* Every step keeps the invariant.
LEMMA LayoutNext == ASSUME ~GoesBack, LayoutInv, [Next]_vars PROVE LayoutInv'
<1>1. CASE UNCHANGED vars
  BY <1>1 DEF LayoutInv, LayoutTypeOK, NothingLost, OnDisk, MetaTrusted, Progress, WrongIsKnown,
              InHand, Placed, ResolvePartitionId, vars, diskVars, scanVars, histVars
<1>2. CASE RehashStoredEntries
  BY <1>2, ScanKeeps, WriteKeeps, DeleteKeeps DEF RehashStoredEntries
<1>3. CASE \E k \in Entry : Put(k) \/ Delete(k) BY <1>3, RequestKeeps
<1>4. CASE RefreshLayoutOnStartup \/ CleanupOutdatedPartitionDirs \/ CleanupEmptyPartitionDirs
           \/ TruncateLayoutMeta \/ PersistLayoutMeta \/ Stop
  BY <1>4, StartKeeps, OutdatedKeeps, EmptyKeeps, MetaKeeps, StopKeeps
<1> QED BY <1>1, <1>2, <1>3, <1>4 DEF Next, Finished

\* The invariant holds in every behaviour in which no start after a cut-off
\* refresh is configured for the count that the layout file still records.
THEOREM LayoutInvariant == ASSUME ~GoesBack PROVE Spec => []LayoutInv
<1>1. LayoutInv /\ [Next]_vars => LayoutInv' BY LayoutNext
<1> QED BY <1>1, LayoutInit, PTL DEF Spec

\* No refresh, wherever it is cut off and to whatever count the next start goes,
\* loses the last value of an entry or brings back an old one, as long as that is
\* not the count in a layout file which the refresh had begun to make untrue
\* (RefreshLayoutOnStartup then believes the file and moves nothing).
THEOREM RefreshLosesNothing == ASSUME ~GoesBack PROVE Spec => []NothingLost
<1>1. LayoutInv => NothingLost BY DEF LayoutInv
<1> QED BY <1>1, LayoutInvariant, PTL

\* What Newest answers when there is at most one value.
LEMMA NewestOfOne == Newest({}) = None /\ \A v \in Nat : Newest({v}) = v
BY DEF Newest

\* When every row is the last value, the newest row of any partitions that
\* include one with the last value is the last value.
LEMMA NewestRow ==
    ASSUME LayoutInv, NEW k \in Entry, NEW P \in SUBSET Pid,
           live[k] # None => \E p \in P : rows[p][k] = live[k]
    PROVE  Newest({rows[p][k] : p \in {q \in P : rows[q][k] # None}}) = live[k]
<1> DEFINE vals == {rows[p][k] : p \in {q \in P : rows[q][k] # None}}
<1>1. \A p \in P : rows[p][k] \in {live[k], None} BY DEF LayoutInv, NothingLost
<1>2. CASE live[k] = None
  <2>1. vals = {} BY <1>1, <1>2
  <2> QED BY <1>2, <2>1, NewestOfOne
<1>3. CASE live[k] # None
  <2>1. vals = {live[k]} BY <1>1, <1>3
  <2>2. live[k] \in Nat BY <1>3 DEF LayoutInv, LayoutTypeOK
  <2> QED BY <2>1, <2>2, NewestOfOne
<1> QED BY <1>2, <1>3

\* Once Start has returned, Get and Scan both find the last value of every
\* entry, whatever refreshes and crashes came before, under the same condition.
THEOREM ReadsStayCurrent == ASSUME ~GoesBack PROVE Spec => []ReadsCurrent
<1>1. LayoutInv => ReadsCurrent
  <2> SUFFICES ASSUME LayoutInv, pc = "up", NEW k \in Entry
               PROVE  Get(k) = live[k] /\ Scan(k) = live[k]
    BY DEF ReadsCurrent
  <2> DEFINE home == ResolvePartitionId(n, k)
  <2> DEFINE P == {q \in Pid : q < n}
  <2>1. home \in Pid /\ home < n BY HomeInRange DEF LayoutInv, LayoutTypeOK
  <2>2. Placed(n) BY DEF LayoutInv, Progress
  <2>3. rows[home][k] = live[k]
    <3>1. CASE live[k] = None BY <2>1, <3>1 DEF LayoutInv, NothingLost
    <3>2. CASE live[k] # None
      <4>1. PICK p \in Pid : rows[p][k] = live[k] BY <3>2 DEF LayoutInv, NothingLost
      <4>2. p = home BY <2>2, <3>2, <4>1 DEF Placed
      <4> QED BY <4>1, <4>2
    <3> QED BY <3>1, <3>2
  <2>4. home \in P BY <2>1
  <2> HIDE DEF home
  <2>5. live[k] # None => \E p \in P : rows[p][k] = live[k] BY <2>3, <2>4
  <2>6. Newest({rows[p][k] : p \in {q \in P : rows[q][k] # None}}) = live[k]
    BY <2>5, NewestRow
  <2>7. {q \in P : rows[q][k] # None} = {q \in Pid : q < n /\ rows[q][k] # None} OBVIOUS
  <2>8. Scan(k) = live[k] BY <2>6, <2>7 DEF Scan
  <2>9. Get(k) = live[k] BY <2>3 DEF Get, home
  <2> QED BY <2>8, <2>9
<1> QED BY <1>1, LayoutInvariant, PTL

\* The types of what is on disk and of what the refresh has in hand, under the
\* same condition.
THEOREM LayoutTypeCorrect == ASSUME ~GoesBack PROVE Spec => []LayoutTypeOK
<1>1. LayoutInv => LayoutTypeOK BY DEF LayoutInv
<1> QED BY <1>1, LayoutInvariant, PTL

\* The newest rows are the last values, also in the middle of a refresh.
LEMMA ContentsAreLive == LayoutInv => Contents = live
<1> SUFFICES ASSUME LayoutInv PROVE Contents = live OBVIOUS
<1>1. ASSUME NEW k \in Entry PROVE Contents[k] = live[k]
  <2>1. live[k] # None => \E p \in Pid : rows[p][k] = live[k] BY DEF LayoutInv, NothingLost
  <2>2. Newest({rows[p][k] : p \in {q \in Pid : rows[q][k] # None}}) = live[k]
    BY <2>1, NewestRow
  <2> QED BY <2>2 DEF Contents
<1>2. live \in [Entry -> Nat \cup {None}] BY DEF LayoutInv, LayoutTypeOK
<1>3. DOMAIN Contents = Entry BY DEF Contents
<1>4. Contents = [k \in Entry |-> Contents[k]] BY DEF Contents
<1> QED BY <1>1, <1>2, <1>4

\* The adapter implements the key-value store: refreshes and restarts are
\* invisible in it, under the same condition.
THEOREM LayoutImplementsKv == ASSUME ~GoesBack PROVE Spec => ImplementsKv
<1>1. Init => Kv!Init
  <2> SUFFICES ASSUME Init PROVE Kv!Init OBVIOUS
  <2>1. Contents = live BY LayoutInit, ContentsAreLive
  <2> QED BY <2>1 DEF Init, Kv!Init, NoRows
<1>2. LayoutInv /\ LayoutInv' /\ [Next]_vars => [Kv!Next]_<<Contents, version>>
  <2> SUFFICES ASSUME LayoutInv, LayoutInv', [Next]_vars
               PROVE  Kv!Next \/ UNCHANGED <<Contents, version>>
    OBVIOUS
  <2>1. Contents = live BY ContentsAreLive
  <2>2. (LayoutInv => Contents = live)' BY ContentsAreLive, PTL
  <2>3. Contents' = live' BY <2>2
  <2>4. ASSUME NEW k \in Entry, Put(k) \/ Delete(k) PROVE Kv!Next
    BY <2>1, <2>3, <2>4 DEF Put, Delete, Kv!Next, Kv!Put, Kv!Delete
  <2>5. CASE UNCHANGED <<live, version>> BY <2>1, <2>3, <2>5
  <2>6. (\E k \in Entry : Put(k) \/ Delete(k)) \/ UNCHANGED <<live, version>>
    BY DEF Next, RefreshLayoutOnStartup, RehashStoredEntries, ScanSource, WriteTarget, DeleteSource,
           CleanupOutdatedPartitionDirs, CleanupEmptyPartitionDirs, TruncateLayoutMeta,
           PersistLayoutMeta, Stop, Finished, vars, histVars
  <2> QED BY <2>4, <2>5, <2>6
<1> QED BY <1>1, <1>2, LayoutInvariant, PTL DEF Spec, ImplementsKv, Kv!Spec
=============================================================================
