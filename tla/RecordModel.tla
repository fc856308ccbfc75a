---------------------------- MODULE RecordModel ----------------------------
(***************************************************************************)
(* The data the memory engine works on: records, projection events,        *)
(* checkpoints and the batches of rows that carry them to the store, with  *)
(* the pure functions of src/core/memory_engine.cpp over them.             *)
(*                                                                         *)
(* A key stands for one (workspace_id, memory_id) pair; WsOf gives its     *)
(* workspace.  A record keeps the fields that control depends on.  Content *)
(* is a value of Val; everything that only feeds ranking (importance, hit  *)
(* count, last access, tier) and the ttl is left out.                      *)
(***************************************************************************)
EXTENDS Integers, FiniteSets, Sequences

CONSTANTS
    Workspace,    \* workspace ids
    Key,          \* (workspace, memory id) pairs
    WsOf,         \* the workspace of a key
    Val,          \* record contents
    DedupKey,     \* non-empty dedup keys
    NoDedup,      \* the empty dedup key
    None,         \* "no such record / row / entry"
    Gone,         \* a delete row in a batch
    RecordBytes,  \* ComputeRecordSizeBytes of a content
    DocBytes,     \* what the retriever charges for an active content
    Partition,    \* partition ids of the store, naturals
    AuxPids,      \* partitions of the term, posting and vector rows of a key
    PinQuota,     \* options_.pin_quota_per_workspace
    RatioNum,     \* options_.max_pinned_ratio as RatioNum / RatioDen
    RatioDen

ASSUME KeyAssumption == WsOf \in [Key -> Workspace] /\ IsFiniteSet(Key)
ASSUME SizeAssumption == /\ RecordBytes \in [Val -> Nat \ {0}]
                         /\ DocBytes \in [Val -> Nat]
ASSUME AuxAssumption == Partition \subseteq Nat /\ AuxPids \in [Key -> SUBSET Partition]
ASSUME PinAssumption == PinQuota \in Nat /\ RatioNum \in Nat /\ RatioDen \in Nat \ {0}

-----------------------------------------------------------------------------
Rec == [key : Key, val : Val, dedup : DedupKey \cup {NoDedup},
        pinned : BOOLEAN, tomb : BOOLEAN, upd : Nat, ver : Nat]

\* A row of ds_events: the key is (workspace, ts, seq), the payload a record.
Event == [ws : Workspace, ts : Nat, seq : Nat, rec : Rec]

\* The event key a ds_projection_ckpt row holds.
EventPos == [ts : Nat, seq : Nat]

ASSUME SentinelAssumption == /\ None \notin Rec \cup EventPos \cup Key \cup {Gone}
                             /\ Gone \notin Rec
                             /\ NoDedup \notin DedupKey

MaybeRec == Rec \cup {None}
NoRecords == [k \in Key |-> None]
NoCkpts == [w \in Workspace |-> None]

Max2(a, b) == IF a >= b THEN a ELSE b

\* The charge of a record against the resident limit: its own size, plus the
\* retriever's entry, which is free for a tombstone.
EstimateResidentCharge(r) ==
    RecordBytes[r.val] + (IF r.tomb THEN 0 ELSE DocBytes[r.val])

\* Ordering of two versions of a record.  All versions are written by one
\* node, so the final tie-break on node_id never decides.
IsIncomingNewer(current, incoming) ==
    \/ incoming.upd > current.upd
    \/ incoming.upd = current.upd /\ incoming.ver > current.ver

\* Event keys are zero-padded, so their string order is this one.
PosLess(p, q) == p.ts < q.ts \/ (p.ts = q.ts /\ p.seq < q.seq)
Pos(e) == [ts |-> e.ts, seq |-> e.seq]

\* The events a replay considers, given the checkpoints it read.
BeyondCheckpoint(log, ckpts) ==
    {e \in log : ckpts[e.ws] = None \/ PosLess(ckpts[e.ws], Pos(e))}

-----------------------------------------------------------------------------
\* Pin governance over the resident map: tombstones and other workspaces do
\* not count.
ActiveKeys(recs, w) ==
    {k \in Key : WsOf[k] = w /\ recs[k] # None /\ ~recs[k].tomb}
PinnedKeys(recs, w) == {k \in ActiveKeys(recs, w) : recs[k].pinned}

IsPinBlockedByRatio(pinned, active) ==
    /\ active # 0
    /\ \/ RatioNum = 0
       \/ RatioNum < RatioDen /\ pinned * RatioDen > RatioNum * active

\* Mutant of PinBlocked: off by one.
PinBlocked_OffByOne(pinned, active) ==
    pinned > PinQuota + 1 \/ IsPinBlockedByRatio(pinned, active)

PinBlocked(pinned, active) ==
    pinned > PinQuota \/ IsPinBlockedByRatio(pinned, active)

-----------------------------------------------------------------------------
\* A batch under construction.  BatchWrite keeps the last row of every store
\* key, so a document or checkpoint row replaces an earlier one of the batch.
\* Of the term, posting and vector rows, which only this code writes and no
\* code reads back, it keeps the partitions.
Batch == [doc : [Key -> MaybeRec \cup {Gone}],
          ev : SUBSET Event,
          ckpt : [Workspace -> EventPos \cup {None}],
          aux : SUBSET Partition]

EmptyBatch == [doc |-> NoRecords, ev |-> {}, ckpt |-> NoCkpts, aux |-> {}]

\* Mutant of MakeEvent: events of one millisecond are told apart by nothing.
MakeEvent_NoSeq(r, now, seq) ==
    [ws |-> WsOf[r.key], ts |-> Max2(r.upd, now), seq |-> 0, rec |-> r]

MakeEvent(r, now, seq) ==
    [ws |-> WsOf[r.key], ts |-> Max2(r.upd, now), seq |-> seq, rec |-> r]

\* The rows one record operation appends: PersistRecord or
\* DeleteRecordStorage, AppendProjectionEvent, AppendProjectionCheckpoint.
AppendRows(b, k, row, e) ==
    [doc |-> [b.doc EXCEPT ![k] = row],
     ev |-> b.ev \cup {e},
     ckpt |-> [b.ckpt EXCEPT ![e.ws] = Pos(e)],
     aux |-> b.aux \cup AuxPids[k]]
=============================================================================
