------------------------- MODULE MemoryEngineProps -------------------------
(* What the memory engine promises, and what its documents say of it. *)
EXTENDS MemoryEngine, Functions

\* What a reader of record k finds: the resident copy, else the store's row.
Visible(k) == IF records[k] # None THEN records[k] ELSE docs[k]

Resident == SumFunction(charge)
Pending == SumFunction([t \in Thread |-> th[t].delta])

-----------------------------------------------------------------------------
\* resident_used_bytes_ trails the charge map by exactly the amounts that
\* threads have taken out of or put into the map and not yet accounted for,
\* whatever the interleaving of UpsertRecordInMemory, RemoveRecordInMemory
\* and EnforceResidentHardLimit; so it is exact when no request runs.
ResidentAccounting == (used + Pending) % Mod = Resident % Mod

\* When the last request has run EnforceResidentHardLimit, the engine is
\* within its limit or holds pinned records only.
QuiescentWithinLimit ==
    (ready /\ Quiescent /\ Limit # 0) =>
        (Resident <= Limit \/ \A k \in Key : records[k] # None => records[k].pinned)

\* When no request runs, the retriever holds exactly the active resident
\* records, in the version that is resident.
IndexAligned ==
    Quiescent => \A k \in Key :
        index[k] = IF records[k] = None \/ records[k].tomb THEN None ELSE records[k]

\* After any crashes, failed batches, evictions and compactions, what a reader
\* finds under a key is never older, in the order of the event log, than the
\* last request on that key that succeeded; it is gone only if a tombstone
\* was issued at or after that point.
AckedSurvives ==
    (ready /\ Quiescent /\ ScanFinds) =>
        \A e \in acked : \E f \in acked \cup failed \cup unacked :
            /\ f.rec.key = e.rec.key
            /\ ~PosLess(Pos(f), Pos(e))
            /\ Visible(e.rec.key) = f.rec \/ (Visible(e.rec.key) = None /\ f.rec.tomb)

\* The workspaces stay within pin_quota_per_workspace.
PinQuotaHolds ==
    \A w \in Workspace : Cardinality(PinnedKeys(records, w)) <= PinQuota

\* One client that writes one record at a time in upsert mode never gets two
\* records of a workspace with the same dedup key, whatever is evicted,
\* tombstoned or recovered in between (deletion of tombstones frees the key).
DedupUnique ==
    (ready /\ Quiescent /\ AppendModes = {FALSE}) =>
        \A k, l \in Key :
            (/\ WsOf[k] = WsOf[l] /\ Visible(k) # None /\ Visible(l) # None
             /\ Visible(k).dedup # NoDedup /\ Visible(k).dedup = Visible(l).dedup) => k = l

\* The record of key k is resident, in version x or a newer one.
Recovered(k, x) == records[k] # None /\ ~IsIncomingNewer(records[k], x)

\* The event is beyond the checkpoint of its workspace, so that its document
\* row may be missing or older.
Beyond(e) == ckpt[e.ws] = None \/ PosLess(ckpt[e.ws], Pos(e))

\* Every document row and every event beyond its checkpoint is recovered.
RowsRecovered ==
    /\ \A k \in Key : docs[k] # None => Recovered(k, docs[k])
    /\ \A e \in events : Beyond(e) => Recovered(e.rec.key, e.rec)

\* No resident record is older than its document row or than an event beyond
\* its checkpoint.
NothingOutdated ==
    /\ \A k \in Key : (docs[k] # None /\ records[k] # None) => Recovered(k, docs[k])
    /\ \A e \in events : (Beyond(e) /\ records[e.rec.key] # None) => Recovered(e.rec.key, e.rec)

\* ReplayProjectionEvents ends, and Warmup goes on to the eviction loop.
ReplayEnds == th[Main].pc = "replay" /\ th'[Main].pc = "enforce"

BecomesReady == ~ready /\ ready'

\* Whatever partial batches crashes and failing partitions left in the store:
\* when the replay of Warmup ends, every document row and every event beyond
\* the checkpoint of its workspace has a resident record, which is not older;
\* so it is when the service becomes ready, but for what a limit evicted.
RecoveryConverges ==
    [][ScanFinds =>
        /\ ReplayEnds => RowsRecovered
        /\ BecomesReady => NothingOutdated /\ (Limit = 0 => RowsRecovered)]_vars

\* An event of a request that succeeded is in the log for good: no crash and
\* no failing request of anyone loses it.
AckedDurable == acked \subseteq events

\* Two different events never have the same key in ds_events, also not across
\* restarts, where local_seq_ starts again.
EventKeysUnique ==
    \A e, f \in events \cup UNION {th[t].evs : t \in Thread} :
        (e.ws = f.ws /\ Pos(e) = Pos(f)) => e = f

\* The log, seen from outside: a grow-only set whose acknowledged part is in it.
DurableLog == INSTANCE EventLog WITH log <- events, acked <- acked
ImplementsLog == DurableLog!Spec

\* Every request ends, and so does Warmup.
RequestsEnd == \A t \in Thread : (th[t].pc # "idle") ~> (th[t].pc = "idle")

-----------------------------------------------------------------------------
(* Statements of the documents that interleavings, failures and crashes break *)

\* "document state, index state, and projection event state represent one
\* logical record state": when no request runs, the resident copy of a record
\* is the stored one, and the retriever has it exactly if it is no tombstone.
OneLogicalState ==
    (ready /\ Quiescent) => \A k \in Key : records[k] # None =>
        /\ records[k] = docs[k]
        /\ index[k] = IF records[k].tomb THEN None ELSE records[k]

\* "controllable retention via pin": a record whose last successful write or
\* pin left it pinned is not a tombstone.
PinRetained ==
    (ready /\ Quiescent) => \A e \in acked :
        (e.rec.pinned /\ \A f \in acked :
            (f.rec.key = e.rec.key /\ ~f.rec.tomb) => ~PosLess(Pos(e), Pos(f)))
        => (Visible(e.rec.key) # None /\ ~Visible(e.rec.key).tomb)
=============================================================================
