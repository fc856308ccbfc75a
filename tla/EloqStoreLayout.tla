-------------------------- MODULE EloqStoreLayout --------------------------
(***************************************************************************)
(* The layout of EloqStoreAdapter (src/store/eloqstore_adapter.cpp): which *)
(* partition holds which entry, and how a start with another number of     *)
(* partitions moves the entries.                                           *)
(*                                                                         *)
(* Start runs in one thread before any request, so its steps are the       *)
(* points at which the process can stop: one per store request and per     *)
(* change of the file system.  A request that fails ends Start, which is   *)
(* the same to the data as a crash before it.                              *)
(***************************************************************************)
EXTENDS Integers

CONSTANTS
    Entry,          \* store keys, (namespace, key)
    Namespace,      \* the namespaces RehashStoredEntries goes through
    NsOf,           \* the namespace of an entry
    Hash,           \* std::hash of its routing seed
    MaxPartitions,  \* bound: partitions of a configuration
    GoesBack,       \* after a refresh was cut off, may a start be configured for
                    \* the number of partitions that the layout file still records?
    None,           \* no row, no metadata
    MaxVersion,     \* bound: requests
    MaxStarts       \* bound: starts of the process

Count == 1..MaxPartitions
Pid == 0..(MaxPartitions - 1)

ASSUME LayoutAssumption ==
    /\ MaxPartitions \in Nat \ {0} /\ MaxVersion \in Nat /\ MaxStarts \in Nat
    /\ NsOf \in [Entry -> Namespace] /\ Hash \in [Entry -> Nat]
    /\ GoesBack \in BOOLEAN /\ None \notin Nat

VARIABLES
    \* on disk
    rows,      \* the value of every entry in every partition
    dirs,      \* partitions that have a directory
    meta,      \* partition_count of the layout file, None if it has none
    \* the adapter
    n,         \* num_partitions_
    pc,        \* where Start is; "up" when it has returned, "down" without a process
    existing,  \* existing_partitions
    left,      \* (partition, namespace) pairs still to be scanned
    src,       \* source_pid
    batch,     \* entries of the last scan not written to their target yet
    dels,      \* entries of the last scan not deleted from their source yet
    \* history
    live,      \* what was written last
    version,   \* requests so far; also the timestamp of the last one
    cut,       \* the last start did not get through
    starts

diskVars == <<rows, dirs, meta>>
scanVars == <<existing, left, src, batch, dels>>
histVars == <<live, version, cut, starts>>
vars == <<diskVars, n, pc, scanVars, histVars>>

NoRows == [k \in Entry |-> None]

Init ==
    /\ rows = [p \in Pid |-> NoRows] /\ dirs = {} /\ meta = None
    /\ n = 1 /\ pc = "down"
    /\ existing = {} /\ left = {} /\ src = 0 /\ batch = {} /\ dels = {}
    /\ live = NoRows /\ version = 0 /\ cut = FALSE /\ starts = 0

\* Mutant of ResolvePartitionId: off by one.
ResolvePartitionId_OffByOne(m, k) == Hash[k] % (m + 1)

ResolvePartitionId(m, k) == Hash[k] % m

-----------------------------------------------------------------------------
(* Start *)

\* Mutant of NeedsRehash: the recorded number of partitions is not compared.
NeedsRehash_AnyCount(m) ==
    (meta = None /\ dirs # {}) \/ \E p \in dirs : p >= m

NeedsRehash(m) ==
    \/ meta # None /\ meta # m
    \/ meta = None /\ dirs # {}
    \/ \E p \in dirs : p >= m

\* The process starts, configured for m partitions.
RefreshLayoutOnStartup == \E m \in Count :
    /\ pc = "down" /\ starts < MaxStarts
    /\ (cut /\ m = meta /\ m # n) => GoesBack
    /\ n' = m
    /\ existing' = dirs
    /\ left' = IF NeedsRehash(m) THEN dirs \X Namespace ELSE {}
    /\ pc' = IF NeedsRehash(m) THEN "rehash" ELSE "meta"
    /\ cut' = TRUE /\ starts' = starts + 1
    /\ UNCHANGED <<diskVars, src, batch, dels, live, version>>

\* The scan of one namespace of one partition, partitions in ascending order.
ScanSource(p, ns) ==
    LET moved == {k \in Entry : NsOf[k] = ns /\ rows[p][k] # None /\ ResolvePartitionId(n, k) # p}
    IN /\ pc = "rehash" /\ batch = {} /\ dels = {}
       /\ <<p, ns>> \in left /\ \A x \in left : p <= x[1]
       /\ left' = left \ {<<p, ns>>}
       /\ src' = p /\ batch' = moved /\ dels' = moved
       /\ UNCHANGED <<diskVars, n, pc, existing, histVars>>

\* One batch per target partition, in ascending order ...
WriteTarget(q) ==
    LET mine == {k \in batch : ResolvePartitionId(n, k) = q}
    IN /\ pc = "rehash" /\ mine # {}
       /\ \A k \in batch : q <= ResolvePartitionId(n, k)
       /\ rows' = [rows EXCEPT ![q] = [k \in Entry |-> IF k \in mine THEN rows[src][k] ELSE rows[q][k]]]
       /\ dirs' = dirs \cup {q}
       /\ batch' = batch \ mine
       /\ UNCHANGED <<meta, n, pc, existing, left, src, dels, histVars>>

\* Mutant of DeleteSource: before the targets are written.
DeleteSource_First ==
    /\ pc = "rehash" /\ dels # {}
    /\ rows' = [rows EXCEPT ![src] = [k \in Entry |-> IF k \in dels THEN None ELSE rows[src][k]]]
    /\ dels' = {}
    /\ UNCHANGED <<dirs, meta, n, pc, existing, left, src, batch, histVars>>

\* ... and then one batch of deletes for the source.
DeleteSource ==
    /\ pc = "rehash" /\ batch = {} /\ dels # {}
    /\ rows' = [rows EXCEPT ![src] = [k \in Entry |-> IF k \in dels THEN None ELSE rows[src][k]]]
    /\ dels' = {}
    /\ UNCHANGED <<dirs, meta, n, pc, existing, left, src, batch, histVars>>

RehashStoredEntries ==
    \/ \E p \in Pid, ns \in Namespace : ScanSource(p, ns)
    \/ \E q \in Pid : WriteTarget(q)
    \/ DeleteSource

\* Mutant of Outdated: off by one.
Outdated_OffByOne == {p \in existing : p >= n - 1}

Outdated == {p \in existing : p >= n}

\* The directories of partitions beyond num_partitions_ go, one at a time,
\* with whatever is in them.  Errors of the file system are ignored.
CleanupOutdatedPartitionDirs == \E p \in Outdated \cap dirs :
    /\ pc = "rehash" /\ left = {} /\ batch = {} /\ dels = {}
    /\ rows' = [rows EXCEPT ![p] = NoRows]
    /\ dirs' = dirs \ {p}
    /\ UNCHANGED <<meta, n, pc, scanVars, histVars>>

\* Of the others, and those that could not be removed, the ones that hold no
\* file; a partition without rows may still have files.
CleanupEmptyPartitionDirs == \E empty \in SUBSET {p \in existing \cap dirs : rows[p] = NoRows} :
    /\ pc = "rehash" /\ left = {} /\ batch = {} /\ dels = {}
    /\ dirs' = dirs \ empty
    /\ pc' = "meta"
    /\ UNCHANGED <<rows, meta, n, scanVars, histVars>>

\* The layout file is truncated when it is opened ...
TruncateLayoutMeta ==
    /\ pc = "meta" /\ meta' = None /\ pc' = "write"
    /\ UNCHANGED <<rows, dirs, n, scanVars, histVars>>

\* ... and complete when it has been flushed.  A file that was cut off in
\* between does not parse, or names no routing schema.
PersistLayoutMeta ==
    /\ pc = "write" /\ meta' = n /\ pc' = "up" /\ cut' = FALSE
    /\ UNCHANGED <<rows, dirs, n, scanVars, live, version, starts>>

-----------------------------------------------------------------------------
(* Requests *)

Put(k) ==
    LET p == ResolvePartitionId(n, k)
    IN /\ pc = "up" /\ version < MaxVersion
       /\ version' = version + 1
       /\ rows' = [rows EXCEPT ![p][k] = version + 1]
       /\ live' = [live EXCEPT ![k] = version + 1]
       /\ dirs' = dirs \cup {p}
       /\ UNCHANGED <<meta, n, pc, scanVars, cut, starts>>

Delete(k) ==
    LET p == ResolvePartitionId(n, k)
    IN /\ pc = "up" /\ version < MaxVersion
       /\ version' = version + 1
       /\ rows' = [rows EXCEPT ![p][k] = None]
       /\ live' = [live EXCEPT ![k] = None]
       /\ dirs' \in {dirs, dirs \cup {p}}
       /\ UNCHANGED <<meta, n, pc, scanVars, cut, starts>>

\* What a read of the home partition finds,
Get(k) == rows[ResolvePartitionId(n, k)][k]

\* the row that wins when several partitions have one, by its timestamp,
Newest(vals) == IF vals = {} THEN None ELSE CHOOSE v \in vals : \A u \in vals : u <= v

\* and what a scan of all configured partitions finds.
Scan(k) == Newest({rows[p][k] : p \in {q \in Pid : q < n /\ rows[q][k] # None}})

\* The process stops: in order, by a crash, or because Start failed.
Stop ==
    /\ pc # "down" /\ pc' = "down"
    /\ existing' = {} /\ left' = {} /\ src' = 0 /\ batch' = {} /\ dels' = {}
    /\ UNCHANGED <<diskVars, n, histVars>>

\* Nothing is left to do within the bounds.
Finished == pc = "down" /\ starts = MaxStarts /\ UNCHANGED vars

Next ==
    \/ RefreshLayoutOnStartup \/ RehashStoredEntries
    \/ CleanupOutdatedPartitionDirs \/ CleanupEmptyPartitionDirs
    \/ TruncateLayoutMeta \/ PersistLayoutMeta
    \/ \E k \in Entry : Put(k) \/ Delete(k)
    \/ Stop \/ Finished

Spec == Init /\ [][Next]_vars

-----------------------------------------------------------------------------
\* The type invariant of the disk, the adapter and the history.
LayoutTypeOK ==
    /\ rows \in [Pid -> [Entry -> Nat \cup {None}]]
    /\ dirs \subseteq Pid /\ meta \in Count \cup {None}
    /\ n \in Count /\ pc \in {"down", "rehash", "meta", "write", "up"}
    /\ existing \subseteq Pid /\ left \subseteq Pid \X Namespace /\ src \in Pid
    /\ batch \subseteq Entry /\ dels \subseteq Entry
    /\ live \in [Entry -> Nat \cup {None}] /\ version \in Nat
    /\ cut \in BOOLEAN /\ starts \in Nat

\* Wherever a refresh stops and however often it starts again, the last value
\* of every entry is in some partition, and no partition has an older one or
\* one that was deleted.
NothingLost ==
    \A k \in Entry :
        /\ live[k] # None => \E p \in Pid : rows[p][k] = live[k]
        /\ \A p \in Pid : rows[p][k] \in {live[k], None}

\* Once Start has returned, Get and Scan both answer with what was written last.
ReadsCurrent == pc = "up" => \A k \in Entry : Get(k) = live[k] /\ Scan(k) = live[k]

\* The newest rows of all partitions.
Contents == [k \in Entry |-> Newest({rows[p][k] : p \in {q \in Pid : rows[q][k] # None}})]
Kv == INSTANCE KeyValueStore WITH kv <- Contents, ts <- version
\* The adapter is a key-value store whose contents are the newest rows of all
\* partitions: a refresh, cut off or not, changes nothing of them.
ImplementsKv == Kv!Spec
=============================================================================
