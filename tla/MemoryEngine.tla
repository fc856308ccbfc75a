---------------------------- MODULE MemoryEngine ----------------------------
(***************************************************************************)
(* MemoryEngine of src/core/memory_engine.cpp over a partitioned store.    *)
(*                                                                         *)
(* Request handler threads run Write, Pin and Compact, a background thread *)
(* runs CompactInternal, and the main thread runs Warmup after every       *)
(* start.  One action is one critical section of the code (one hold of     *)
(* records_mu_, one atomic operation on resident_used_bytes_, one call of  *)
(* the retriever, one partition of a BatchWrite), so that threads meet     *)
(* between any two of them.  A crash keeps the store and nothing else.     *)
(***************************************************************************)
EXTENDS RecordModel

CONSTANTS
    Client,             \* request handler threads
    Main, Gc,           \* the thread of main() and the thread of RunGcLoop
    DocPid,             \* ResolvePartitionId of document rows, by their key,
    CkptPid, RoutePid,  \* of checkpoint and route rows, by their workspace,
    EventPid(_),        \* and of event rows, by their seq
    Limit,              \* ResidentLimitBytes
    Mod,                \* 2^width of resident_used_bytes_
    EnableTombstoneGc,  \* options_.enable_tombstone_gc
    Retention,          \* options_.tombstone_retention_ms
    GcBatch,            \* options_.gc_batch_size
    DiskPressure,       \* can disk usage reach the high watermark?
    StoreCanFail,       \* may a store request return an error?
    CanCrash,           \* may the process stop between two steps?
    Ops,                \* the requests clients send: "write", "pin", "compact"
    AppendModes,        \* values of write_mode == "append" in their writes
    MaxBatch,           \* bound: records of one Write
    MaxReqs,            \* bound: requests and compactions started
    MaxClock            \* bound: milliseconds that pass

ASSUME PartitionAssumption ==
    /\ DocPid \in [Key -> Partition]
    /\ CkptPid \in [Workspace -> Partition] /\ RoutePid \in [Workspace -> Partition]
    /\ \A n \in 1..((MaxBatch + GcBatch) * MaxReqs) : EventPid(n) \in Partition
ASSUME LimitAssumption == Limit \in Nat /\ Mod \in Nat \ {0} /\ Limit < Mod
ASSUME ThreadAssumption ==
    /\ Main # Gc /\ Main \notin Client /\ Gc \notin Client
    /\ IsFiniteSet(Client)
ASSUME OptionAssumption ==
    /\ AppendModes \subseteq BOOLEAN /\ {EnableTombstoneGc, DiskPressure, StoreCanFail, CanCrash} \subseteq BOOLEAN
    /\ Retention \in Nat /\ GcBatch \in Nat \ {0}
    /\ Ops \subseteq {"write", "pin", "compact"}
    /\ MaxBatch \in Nat \ {0} /\ MaxReqs \in Nat /\ MaxClock \in Nat

VARIABLES
    \* members of MemoryEngine, lost when the process stops
    records,           \* records_
    dedup_index,       \* dedup_index_
    charge,            \* resident_charge_bytes_, 0 for "no entry"
    used,              \* resident_used_bytes_
    index,             \* the documents the retriever would return
    local_seq,         \* local_seq_
    capacity_blocked,  \* capacity_blocked_
    ready,             \* ready of main(): /mcp answers 503 before
    th,                \* the locals of every thread
    \* the store
    docs, events, ckpt,  \* mem_docs, ds_events, ds_projection_ckpt
    touched,             \* the partitions something was written to
    \* environment and history
    clock,             \* util::NowMs
    boot,              \* clock when the process started
    reqs,              \* requests started
    acked,             \* events of requests that succeeded
    failed,            \* events of requests that returned an error
    unacked            \* events of requests a crash cut off

memVars == <<records, dedup_index, charge, used, index>>
storeVars == <<docs, events, ckpt, touched>>
procVars == <<local_seq, capacity_blocked, ready>>
histVars == <<acked, failed, unacked>>
envVars == <<clock, boot, reqs>>
vars == <<memVars, storeVars, procVars, histVars, envVars, th>>

Thread == Client \cup {Main, Gc}
Slot == Workspace \X DedupKey

PC == {"idle", "build", "get", "check", "commit", "map", "index", "account",
       "unmap", "sub", "unindex", "route", "enforce", "scan", "load", "ckpts", "events", "replay"}

\* The locals of a thread that handles no request.
Idle == [pc |-> "idle",
         op |-> "none",
         scope |-> {},             \* workspaces the request is about
         now |-> 0,                \* now_ms read at its start
         active |-> 0,             \* projected_active and
         pinned |-> 0,             \* projected_pinned
         n |-> 0,                  \* records built, actions of a compaction
         key |-> None,             \* target of a Pin, victim of a removal
         flag |-> FALSE,           \* pin / unpin, write_mode == "append"
         snap |-> NoRecords,       \* records copied under the lock or scanned
         batch |-> EmptyBatch,     \* rows not committed yet
         evs |-> {},               \* all events the request appended
         upserts |-> <<>>,         \* records left to UpsertRecordInMemory
         dels |-> {},              \* keys left to RemoveRecordInMemory
         delta |-> 0,              \* change still to be added to used
         ckpts |-> NoCkpts,        \* checkpoints the replay read
         log |-> {}]               \* events left to replay

\* Starting state of the process: main() constructs the engine, which starts
\* the background thread, and runs Warmup.
FreshThreads == [t \in Thread |->
    IF t = Main THEN [Idle EXCEPT !.pc = "scan", !.op = "warmup"] ELSE Idle]

Init ==
    /\ records = NoRecords /\ index = NoRecords
    /\ dedup_index = [s \in Slot |-> None]
    /\ charge = [k \in Key |-> 0] /\ used = 0
    /\ local_seq = 0 /\ capacity_blocked = FALSE /\ ready = FALSE
    /\ th = FreshThreads
    /\ docs = NoRecords /\ events = {} /\ ckpt = NoCkpts /\ touched = {}
    /\ clock = 1 /\ boot = 1 /\ reqs = 0
    /\ acked = {} /\ failed = {} /\ unacked = {}

Become(t, s) == th' = [th EXCEPT ![t] = s]

\* A request reaches a handler thread once /mcp no longer answers 503.
Accept(t, op) ==
    /\ t \in Client /\ op \in Ops /\ ready /\ th[t].pc = "idle"
    /\ reqs < MaxReqs /\ reqs' = reqs + 1

-----------------------------------------------------------------------------
(* Write *)

\* now_ms and the pin statistics of the workspace, read once for the batch.
WriteStart(t) == \E w \in Workspace, append \in AppendModes :
    /\ Accept(t, "write")
    /\ Become(t, [Idle EXCEPT !.pc = "build", !.op = "write", !.scope = {w},
                              !.now = clock, !.flag = append,
                              !.active = Cardinality(ActiveKeys(records, w)),
                              !.pinned = Cardinality(PinnedKeys(records, w))])
    /\ UNCHANGED <<memVars, storeVars, procVars, histVars, clock, boot>>

DedupHit(s, k, d) ==
    d # NoDedup /\ ~s.flag /\ dedup_index[<<WsOf[k], d>>] # None

\* A record whose dedup key is taken is left out of the batch.
WriteDedup(t) == \E k \in Key, d \in DedupKey :
    LET s == th[t] IN
    /\ s.pc = "build" /\ s.op = "write" /\ s.n < MaxBatch
    /\ WsOf[k] \in s.scope /\ DedupHit(s, k, d)
    /\ Become(t, [s EXCEPT !.n = @ + 1])
    /\ UNCHANGED <<memVars, storeVars, procVars, histVars, envVars>>

\* One record of the batch, with the pin flag governance left it.
AddRecord(t, k, v, d, p) ==
    LET s == th[t]
        r == [key |-> k, val |-> v, dedup |-> d, pinned |-> p, tomb |-> FALSE,
              upd |-> s.now, ver |-> 1]
        e == MakeEvent(r, clock, local_seq + 1)
    IN /\ s.pc = "build" /\ s.op = "write" /\ s.n < MaxBatch
       /\ WsOf[k] \in s.scope /\ ~DedupHit(s, k, d)
       /\ local_seq' = local_seq + 1
       /\ Become(t, [s EXCEPT !.n = @ + 1,
                              !.active = @ + 1,
                              !.pinned = IF p THEN @ + 1 ELSE @,
                              !.batch = AppendRows(s.batch, k, r, e),
                              !.evs = @ \cup {e},
                              !.upserts = Append(s.upserts, r)])
       /\ UNCHANGED <<memVars, storeVars, capacity_blocked, ready, histVars, envVars>>

\* Governance counts the records built before in this batch.
WriteRecord(t) == \E k \in Key, v \in Val, d \in DedupKey \cup {NoDedup}, pin \in BOOLEAN :
    AddRecord(t, k, v, d, pin /\ ~PinBlocked(th[t].pinned + 1, th[t].active + 1))

\* All records are built; a Write that stored none returns at once.
WriteBuilt(t) ==
    LET s == th[t] IN
    /\ s.pc = "build" /\ s.op = "write" /\ s.n > 0
    /\ Become(t, IF s.batch = EmptyBatch THEN Idle ELSE [s EXCEPT !.pc = "commit"])
    /\ UNCHANGED <<memVars, storeVars, procVars, histVars, envVars>>

-----------------------------------------------------------------------------
(* Pin *)

\* LoadRecord looks into records_ first ...
PinStart(t) == \E k \in Key, pin \in BOOLEAN :
    /\ Accept(t, "pin")
    /\ Become(t, [Idle EXCEPT !.op = "pin", !.key = k, !.flag = pin,
                              !.pc = IF records[k] # None THEN "check" ELSE "get",
                              !.snap = [@ EXCEPT ![k] = records[k]]])
    /\ UNCHANGED <<memVars, storeVars, procVars, histVars, clock, boot>>

\* Mutant of PinGet: goes on although the store has no document either.
PinGet_NotFoundUnchecked(t) ==
    LET s == th[t] IN
    /\ s.pc = "get"
    /\ Become(t, [s EXCEPT !.pc = "check", !.snap = [@ EXCEPT ![s.key] = docs[s.key]]])
    /\ UNCHANGED <<memVars, storeVars, procVars, histVars, envVars>>

\* ... and asks the store when the record is not resident.
PinGet(t) ==
    LET s == th[t] IN
    /\ s.pc = "get"
    /\ \/ /\ docs[s.key] # None
          /\ Become(t, [s EXCEPT !.pc = "check", !.snap = [@ EXCEPT ![s.key] = docs[s.key]]])
       \/ (docs[s.key] = None \/ StoreCanFail) /\ Become(t, Idle)
    /\ UNCHANGED <<memVars, storeVars, procVars, histVars, envVars>>

\* Governance applies to a record that was not pinned when it was loaded.
PinRefused(s) ==
    LET w == WsOf[s.key] IN
    /\ s.flag /\ ~s.snap[s.key].pinned
    /\ PinBlocked(Cardinality(PinnedKeys(records, w)) + 1,
                  Cardinality(ActiveKeys(records, w)) + 1)

PinCheck(t) ==
    LET s == th[t]
        old == s.snap[s.key]
        r == [old EXCEPT !.pinned = s.flag, !.upd = clock, !.ver = @ + 1]
        e == MakeEvent(r, clock, local_seq + 1)
    IN /\ s.pc = "check"
       /\ \/ PinRefused(s) /\ Become(t, Idle) /\ UNCHANGED local_seq
          \/ /\ ~PinRefused(s)
             /\ local_seq' = local_seq + 1
             /\ Become(t, [s EXCEPT !.pc = "commit",
                                    !.snap = NoRecords,
                                    !.batch = AppendRows(s.batch, s.key, r, e),
                                    !.evs = {e},
                                    !.upserts = <<r>>])
       /\ UNCHANGED <<memVars, storeVars, capacity_blocked, ready, histVars, envVars>>

-----------------------------------------------------------------------------
(* CompactInternal *)

\* A compaction that gets past the watermark test copies the records of its
\* scope.  The memory.compact request forces it; the background thread starts
\* one when disk usage, which is not modelled, may be over the watermark.
CompactStart(t) ==
    /\ \/ Accept(t, "compact")
       \/ /\ t = Gc /\ EnableTombstoneGc /\ DiskPressure /\ th[t].pc = "idle"
          /\ reqs < MaxReqs /\ reqs' = reqs + 1
    /\ \E scope \in {{w} : w \in Workspace} \cup {Workspace} :
         /\ t = Gc => scope = Workspace
         /\ Become(t, [Idle EXCEPT !.pc = "build", !.op = "compact", !.scope = scope, !.now = clock,
              !.snap = [k \in Key |-> IF WsOf[k] \in scope THEN records[k] ELSE None]])
    /\ UNCHANGED <<memVars, storeVars, procVars, histVars, clock, boot>>

ToTomb(s) == {k \in Key : s.snap[k] # None /\ ~s.snap[k].tomb /\ ~s.snap[k].pinned}

\* Mutant of ToDelete: deletes without looking for a tombstone.
ToDelete_Any(s) == {k \in Key : EnableTombstoneGc /\ s.snap[k] # None}

ToDelete(s) == {k \in Key : /\ EnableTombstoneGc
                            /\ s.snap[k] # None /\ s.snap[k].tomb
                            /\ Max2(s.now - s.snap[k].upd, 0) >= Retention}

\* Every unpinned active record of the snapshot becomes a tombstone, lowest
\* rank first (the rank is abstracted to any order) ...
Tombstone(t, k) ==
    LET s == th[t]
        r == [s.snap[k] EXCEPT !.tomb = TRUE, !.upd = s.now, !.ver = Max2(@, 1) + 1]
        e == MakeEvent(r, clock, local_seq + 1)
    IN /\ s.pc = "build" /\ s.op = "compact" /\ s.n < GcBatch
       /\ local_seq' = local_seq + 1
       /\ Become(t, [s EXCEPT !.n = @ + 1,
                              !.snap = [@ EXCEPT ![k] = None],
                              !.batch = AppendRows(s.batch, k, r, e),
                              !.evs = @ \cup {e},
                              !.upserts = Append(s.upserts, r)])
       /\ UNCHANGED <<memVars, storeVars, capacity_blocked, ready, histVars, envVars>>

CompactTomb(t) == \E k \in ToTomb(th[t]) : Tombstone(t, k)

\* ... and the tombstones that are old enough are deleted.
Reclaim(t, k) ==
    LET s == th[t]
        e == MakeEvent(s.snap[k], clock, local_seq + 1)
    IN /\ s.pc = "build" /\ s.op = "compact" /\ s.n < GcBatch /\ ToTomb(s) = {}
       /\ local_seq' = local_seq + 1
       /\ Become(t, [s EXCEPT !.n = @ + 1,
                              !.snap = [@ EXCEPT ![k] = None],
                              !.batch = AppendRows(s.batch, k, Gone, e),
                              !.evs = @ \cup {e},
                              !.dels = @ \cup {k}])
       /\ UNCHANGED <<memVars, storeVars, capacity_blocked, ready, histVars, envVars>>

CompactDelete(t) == \E k \in ToDelete(th[t]) : Reclaim(t, k)

CompactBuilt(t) ==
    LET s == th[t] IN
    /\ s.pc = "build" /\ s.op = "compact"
    /\ s.n >= GcBatch \/ (ToTomb(s) = {} /\ ToDelete(s) = {})
    /\ Become(t, [s EXCEPT !.pc = IF s.batch = EmptyBatch THEN "unmap" ELSE "commit",
                           !.snap = NoRecords])
    /\ UNCHANGED <<memVars, storeVars, procVars, histVars, envVars>>

\* The last part of a compaction: capacity_blocked_ from the records now
\* resident.  The pinned ratio is 1 here, since nothing is evictable.
CompactReport(t) == \E over \in {FALSE, DiskPressure} :
    LET s == th[t]
        active == UNION {ActiveKeys(records, w) : w \in s.scope}
        stuck == active # {} /\ \A k \in active : records[k].pinned
    IN /\ s.pc = "unmap" /\ s.dels = {}
       /\ capacity_blocked' = (stuck /\ (over \/ RatioNum <= RatioDen))
       /\ acked' = acked \cup s.evs
       /\ Become(t, Idle)
       /\ UNCHANGED <<memVars, storeVars, local_seq, ready, failed, unacked, envVars>>

-----------------------------------------------------------------------------
(* BatchWrite: one request per partition, in ascending partition order *)

Pids(b) == {DocPid[k] : k \in {x \in Key : b.doc[x] # None}}
           \cup {EventPid(e.seq) : e \in b.ev}
           \cup {CkptPid[w] : w \in {x \in Workspace : b.ckpt[x] # None}} \cup b.aux

NextPid(b, p) == p \in Pids(b) /\ \A q \in Pids(b) : p <= q

\* Mutant of WithoutPid: the partitions after the first are forgotten.
WithoutPid_First(b, p) == EmptyBatch

\* The rows of a batch that partition p does not hold.
WithoutPid(b, p) ==
    [doc |-> [k \in Key |-> IF DocPid[k] = p THEN None ELSE b.doc[k]],
     ev |-> {e \in b.ev : EventPid(e.seq) # p},
     ckpt |-> [w \in Workspace |-> IF CkptPid[w] = p THEN None ELSE b.ckpt[w]],
     aux |-> b.aux \ {p}]

DocsAfter(b, p) == [k \in Key |->
    IF DocPid[k] # p \/ b.doc[k] = None THEN docs[k]
    ELSE IF b.doc[k] = Gone THEN None ELSE b.doc[k]]

\* Mutant of EventsAfter: a batch replaces the events of the same records.
EventsAfter_LatestOnly(b, p) ==
    LET new == {e \in b.ev : EventPid(e.seq) = p}
    IN {f \in events : \A e \in new : e.rec.key # f.rec.key} \cup new

\* An upsert replaces an event row with the same key.
EventsAfter(b, p) ==
    LET new == {e \in b.ev : EventPid(e.seq) = p}
    IN {f \in events : \A e \in new : e.ws # f.ws \/ Pos(e) # Pos(f)} \cup new

CkptAfter(b, p) == [w \in Workspace |->
    IF CkptPid[w] = p /\ b.ckpt[w] # None THEN b.ckpt[w] ELSE ckpt[w]]

\* Where a thread goes on when its list of upserts is in state u.
AfterUpsert(op, u) ==
    CASE u # <<>>                -> "map"
      [] u = <<>> /\ op = "compact" -> "unmap"
      [] u = <<>> /\ op = "write"   -> "route"
      [] u = <<>> /\ op = "warmup"  -> "load"
      [] u = <<>> /\ op = "replay"  -> "replay"
      [] OTHER                   -> "enforce"

CommitPartition(t, p) ==
    LET s == th[t]
        rest == WithoutPid(s.batch, p)
    IN /\ s.pc = "commit" /\ NextPid(s.batch, p)
       /\ docs' = DocsAfter(s.batch, p)
       /\ events' = EventsAfter(s.batch, p)
       /\ ckpt' = CkptAfter(s.batch, p)
       /\ touched' = touched \cup {p}
       /\ Become(t, [s EXCEPT !.batch = rest,
              !.pc = IF rest = EmptyBatch THEN AfterUpsert(s.op, s.upserts) ELSE "commit"])
       /\ UNCHANGED <<memVars, procVars, histVars, envVars>>

BatchWrite(t) == \E p \in Partition : CommitPartition(t, p)

\* The request of one partition fails: BatchWrite returns its error, rows of
\* the partitions before it stay.  Write and Pin return false; a compaction
\* skips the in-memory part.
BatchWriteFail(t) ==
    LET s == th[t] IN
    /\ s.pc = "commit" /\ StoreCanFail
    /\ failed' = failed \cup s.evs
    /\ Become(t, IF s.op = "compact"
                 THEN [s EXCEPT !.pc = "unmap", !.batch = EmptyBatch, !.evs = {},
                                !.upserts = <<>>, !.dels = {}]
                 ELSE Idle)
    /\ UNCHANGED <<memVars, storeVars, procVars, acked, unacked, envVars>>

\* Write stores a route row of its workspace; whether it succeeds is ignored.
WriteRoute(t) == \E w \in th[t].scope :
    LET s == th[t] IN
    /\ s.pc = "route"
    /\ \/ touched' = touched \cup {RoutePid[w]}
       \/ StoreCanFail /\ touched' = touched
    /\ Become(t, [s EXCEPT !.pc = "enforce"])
    /\ UNCHANGED <<memVars, docs, events, ckpt, procVars, histVars, envVars>>

-----------------------------------------------------------------------------
(* UpsertRecordInMemory: the maps under records_mu_, then the retriever,   *)
(* then resident_used_bytes_.                                              *)

\* Mutant of ChargeDelta: the charge of the version it replaces is forgotten.
ChargeDelta_ForgetsOld(r) == EstimateResidentCharge(r)

ChargeDelta(r) == EstimateResidentCharge(r) - charge[r.key]

\* fetch_add and fetch_sub on an unsigned counter.
AddUsed(d) == (used + d) % Mod

\* Mutant of DedupAfter: tombstones do not claim their dedup key.
DedupAfter_LiveOnly(r) ==
    IF r.dedup = NoDedup \/ r.tomb THEN dedup_index
    ELSE [dedup_index EXCEPT ![<<WsOf[r.key], r.dedup>>] = r.key]

DedupAfter(r) ==
    IF r.dedup = NoDedup THEN dedup_index
    ELSE [dedup_index EXCEPT ![<<WsOf[r.key], r.dedup>>] = r.key]

\* Mutant of IndexEntry: tombstones are indexed like any record.
IndexEntry_Always(r) == r

\* A tombstone is removed from the retriever, any other record indexed.
IndexEntry(r) == IF r.tomb THEN None ELSE r

UpsertMap(t) ==
    LET s == th[t]
        r == Head(s.upserts)
    IN /\ s.pc = "map"
       /\ records' = [records EXCEPT ![r.key] = r]
       /\ dedup_index' = DedupAfter(r)
       /\ charge' = [charge EXCEPT ![r.key] = EstimateResidentCharge(r)]
       /\ Become(t, [s EXCEPT !.pc = "index", !.delta = ChargeDelta(r)])
       /\ UNCHANGED <<used, index, storeVars, procVars, histVars, envVars>>

UpsertIndex(t) ==
    LET s == th[t]
        r == Head(s.upserts)
    IN /\ s.pc = "index"
       /\ index' = [index EXCEPT ![r.key] = IndexEntry(r)]
       /\ Become(t, [s EXCEPT !.pc = "account"])
       /\ UNCHANGED <<records, dedup_index, charge, used, storeVars, procVars, histVars, envVars>>

UpsertAccount(t) ==
    LET s == th[t] IN
    /\ s.pc = "account"
    /\ used' = AddUsed(s.delta)
    /\ Become(t, [s EXCEPT !.delta = 0, !.upserts = Tail(@),
                           !.pc = AfterUpsert(s.op, Tail(s.upserts))])
    /\ UNCHANGED <<records, dedup_index, charge, index, storeVars, procVars, histVars, envVars>>

-----------------------------------------------------------------------------
(* RemoveRecordInMemory and EnforceResidentHardLimit erase under the lock, *)
(* then subtract the charge, then remove the record from the retriever.    *)

Dropped(k) == -charge[k]

\* The dedup entry of the record goes, whichever record it names.
RemoveMap(t) == \E k \in th[t].dels :
    LET s == th[t]
        r == records[k]
    IN /\ s.pc = "unmap"
       /\ \/ /\ r = None
             /\ Become(t, [s EXCEPT !.dels = @ \ {k}])
             /\ UNCHANGED <<records, dedup_index, charge>>
          \/ /\ r # None
             /\ records' = [records EXCEPT ![k] = None]
             /\ dedup_index' = IF r.dedup = NoDedup THEN dedup_index
                               ELSE [dedup_index EXCEPT ![<<WsOf[k], r.dedup>>] = None]
             /\ charge' = [charge EXCEPT ![k] = 0]
             /\ Become(t, [s EXCEPT !.pc = "sub", !.dels = @ \ {k}, !.key = k, !.delta = Dropped(k)])
       /\ UNCHANGED <<used, index, storeVars, procVars, histVars, envVars>>

Evictable == {k \in Key : records[k] # None /\ ~records[k].pinned}

\* Mutant of WithinLimit: off by one.
WithinLimit_OffByOne == Limit = 0 \/ used <= Limit + 1

WithinLimit == Limit = 0 \/ used <= Limit

\* Mutant of EvictMap: the victim leaves the retriever and stays in the map.
EvictMap_Keeps(t) == \E k \in Evictable :
    /\ th[t].pc = "enforce" /\ ~WithinLimit
    /\ Become(t, [th[t] EXCEPT !.pc = "sub", !.key = k])
    /\ UNCHANGED <<memVars, storeVars, procVars, histVars, envVars>>

\* One round of the eviction loop.  The victim has the lowest rank, which is
\* abstracted to any unpinned record.  Its dedup entry stays.
EvictMap(t) == \E k \in Evictable :
    LET s == th[t] IN
    /\ s.pc = "enforce" /\ ~WithinLimit
    /\ records' = [records EXCEPT ![k] = None]
    /\ charge' = [charge EXCEPT ![k] = 0]
    /\ Become(t, [s EXCEPT !.pc = "sub", !.key = k, !.delta = Dropped(k)])
    /\ UNCHANGED <<dedup_index, used, index, storeVars, procVars, histVars, envVars>>

DropAccount(t) ==
    LET s == th[t] IN
    /\ s.pc = "sub"
    /\ used' = AddUsed(s.delta)
    /\ Become(t, [s EXCEPT !.pc = "unindex", !.delta = 0])
    /\ UNCHANGED <<records, dedup_index, charge, index, storeVars, procVars, histVars, envVars>>

DropIndex(t) ==
    LET s == th[t] IN
    /\ s.pc = "unindex"
    /\ index' = [index EXCEPT ![s.key] = None]
    /\ Become(t, [s EXCEPT !.key = None, !.pc = IF s.op = "compact" THEN "unmap" ELSE "enforce"])
    /\ UNCHANGED <<records, dedup_index, charge, used, storeVars, procVars, histVars, envVars>>

\* The eviction loop ends; so does the request, or Warmup.
EnforceDone(t) ==
    LET s == th[t] IN
    /\ s.pc = "enforce"
    /\ WithinLimit \/ Evictable = {}
    /\ acked' = acked \cup s.evs
    /\ ready' = (ready \/ t = Main)
    /\ Become(t, Idle)
    /\ UNCHANGED <<memVars, storeVars, local_seq, capacity_blocked, failed, unacked, envVars>>

-----------------------------------------------------------------------------
(* Warmup and ReplayProjectionEvents, by the main thread *)

\* Scan asks every partition and stops with "resource not found" at one that
\* was never written to; the caller then goes on without any entry.
ScanFinds == touched = Partition

WarmupScan(t) ==
    LET s == th[t] IN
    /\ s.pc = "scan"
    /\ Become(t, [s EXCEPT !.pc = "load", !.snap = IF ScanFinds THEN docs ELSE NoRecords])
    /\ UNCHANGED <<memVars, storeVars, procVars, histVars, envVars>>

WarmupLoad(t) ==
    LET s == th[t] IN
    /\ s.pc = "load"
    /\ \/ /\ s.snap = NoRecords
          /\ Become(t, [s EXCEPT !.pc = "ckpts"])
       \/ \E k \in {x \in Key : s.snap[x] # None} :
            Become(t, [s EXCEPT !.pc = "map", !.snap = [@ EXCEPT ![k] = None],
                                !.upserts = <<s.snap[k]>>])
    /\ UNCHANGED <<memVars, storeVars, procVars, histVars, envVars>>

ReplayCheckpoints(t) ==
    LET s == th[t] IN
    /\ s.pc = "ckpts"
    /\ Become(t, [s EXCEPT !.pc = "events", !.op = "replay",
                           !.ckpts = IF ScanFinds THEN ckpt ELSE NoCkpts])
    /\ UNCHANGED <<memVars, storeVars, procVars, histVars, envVars>>

ReplayScan(t) ==
    LET s == th[t] IN
    /\ s.pc = "events"
    /\ Become(t, [s EXCEPT !.pc = "replay", !.ckpts = NoCkpts,
                           !.log = IF ScanFinds THEN BeyondCheckpoint(events, s.ckpts) ELSE {}])
    /\ UNCHANGED <<memVars, storeVars, procVars, histVars, envVars>>

\* Mutant of ReplayEvent: events of records that are not resident are skipped.
ReplayEvent_ResidentOnly(t) ==
    LET s == th[t] IN
    /\ s.pc = "replay"
    /\ \/ s.log = {} /\ Become(t, [s EXCEPT !.pc = "enforce"])
       \/ \E e \in s.log :
            LET cur == records[e.rec.key]
                apply == cur # None /\ IsIncomingNewer(cur, e.rec)
            IN /\ \A f \in s.log : f.ws = e.ws => ~PosLess(Pos(f), Pos(e))
               /\ Become(t, [s EXCEPT !.log = @ \ {e},
                                      !.pc = IF apply THEN "map" ELSE "replay",
                                      !.upserts = IF apply THEN <<e.rec>> ELSE <<>>])
    /\ UNCHANGED <<memVars, storeVars, procVars, histVars, envVars>>

\* Events in key order; one is applied when it is news to the projection.
ReplayEvent(t) ==
    LET s == th[t] IN
    /\ s.pc = "replay"
    /\ \/ s.log = {} /\ Become(t, [s EXCEPT !.pc = "enforce"])
       \/ \E e \in s.log :
            LET cur == records[e.rec.key]
                apply == cur = None \/ IsIncomingNewer(cur, e.rec)
            IN /\ \A f \in s.log : f.ws = e.ws => ~PosLess(Pos(f), Pos(e))
               /\ Become(t, [s EXCEPT !.log = @ \ {e},
                                      !.pc = IF apply THEN "map" ELSE "replay",
                                      !.upserts = IF apply THEN <<e.rec>> ELSE <<>>])
    /\ UNCHANGED <<memVars, storeVars, procVars, histVars, envVars>>

-----------------------------------------------------------------------------
(* Environment *)

Tick ==
    /\ clock < MaxClock /\ clock' = clock + 1
    /\ UNCHANGED <<memVars, storeVars, procVars, histVars, boot, reqs, th>>

\* The process stops, by a crash or by a failed Warmup, and starts again on
\* the same store; that takes at least a millisecond.
Restart ==
    /\ CanCrash /\ clock < MaxClock
    /\ clock' = clock + 1 /\ boot' = clock + 1
    /\ records' = NoRecords /\ index' = NoRecords
    /\ dedup_index' = [x \in Slot |-> None]
    /\ charge' = [k \in Key |-> 0] /\ used' = 0
    /\ local_seq' = 0 /\ capacity_blocked' = FALSE /\ ready' = FALSE
    /\ th' = FreshThreads
    /\ unacked' = unacked \cup UNION {th[t].evs : t \in Thread}
    /\ UNCHANGED <<storeVars, acked, failed, reqs>>

Quiescent == \A t \in Thread : th[t].pc = "idle"

\* Nothing is left to do within the bounds.
Finished == Quiescent /\ ready /\ reqs = MaxReqs /\ UNCHANGED vars

Step(t) ==
    \/ WriteDedup(t) \/ WriteRecord(t) \/ WriteBuilt(t)
    \/ PinGet(t) \/ PinCheck(t)
    \/ CompactTomb(t) \/ CompactDelete(t) \/ CompactBuilt(t) \/ CompactReport(t)
    \/ BatchWrite(t) \/ BatchWriteFail(t) \/ WriteRoute(t)
    \/ UpsertMap(t) \/ UpsertIndex(t) \/ UpsertAccount(t)
    \/ RemoveMap(t) \/ EvictMap(t) \/ DropAccount(t) \/ DropIndex(t) \/ EnforceDone(t)
    \/ WarmupScan(t) \/ WarmupLoad(t)
    \/ ReplayCheckpoints(t) \/ ReplayScan(t) \/ ReplayEvent(t)

Next ==
    \/ \E t \in Thread : WriteStart(t) \/ PinStart(t) \/ CompactStart(t) \/ Step(t)
    \/ Tick \/ Restart \/ Finished

Spec == Init /\ [][Next]_vars

\* Threads run: no step of a request blocks on anything but locks held for a
\* bounded time.
FairSpec == Spec /\ \A t \in Thread : WF_vars(Step(t))

-----------------------------------------------------------------------------
LocalState ==
    [pc : PC, op : {"none", "write", "pin", "compact", "warmup", "replay"},
     scope : SUBSET Workspace, now : Nat, active : Nat, pinned : Nat, n : Nat,
     key : Key \cup {None}, flag : BOOLEAN, snap : [Key -> MaybeRec],
     batch : Batch, evs : SUBSET Event, upserts : Seq(Rec), dels : SUBSET Key,
     delta : Int, ckpts : [Workspace -> EventPos \cup {None}], log : SUBSET Event]

\* The locals a step relies on: a record left to upsert, a target of the Pin,
\* a record that was loaded.
LocalOK(s) ==
    /\ s.pc \in {"map", "index", "account"} => s.upserts # <<>>
    /\ s.pc \in {"get", "check"} => s.key \in Key
    /\ s.pc = "check" => s.snap[s.key] \in Rec

ThreadsOK == th \in [Thread -> LocalState] /\ \A t \in Thread : LocalOK(th[t])

SharedOK ==
    /\ records \in [Key -> MaybeRec] /\ index \in [Key -> MaybeRec]
    /\ dedup_index \in [Slot -> Key \cup {None}]
    /\ charge \in [Key -> Nat] /\ used \in Nat
    /\ local_seq \in Nat /\ capacity_blocked \in BOOLEAN /\ ready \in BOOLEAN
    /\ docs \in [Key -> MaybeRec] /\ events \subseteq Event
    /\ ckpt \in [Workspace -> EventPos \cup {None}] /\ touched \subseteq Partition
    /\ clock \in Nat /\ boot \in Nat /\ reqs \in Nat
    /\ acked \subseteq Event /\ failed \subseteq Event /\ unacked \subseteq Event

\* The type invariant of the engine's members, the store and the threads.
TypeOK == SharedOK /\ ThreadsOK
=============================================================================
