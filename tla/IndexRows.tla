----------------------------- MODULE IndexRows -----------------------------
(***************************************************************************)
(* The rows MemoryEngine derives from a record and stores beside its       *)
(* document: one posting row and one dictionary row per term, a vector     *)
(* code and a full vector (src/core/memory_engine.cpp, PersistRecord and   *)
(* DeleteRecordStorage).  MemoryEngine has the control and the documents;  *)
(* every step that appends rows to a batch, commits or drops a batch is    *)
(* joined here with what it does to the derived rows.                      *)
(***************************************************************************)
EXTENDS MemoryEngineProps, SequencesExt

CONSTANTS
    Term,       \* tokens
    Terms,      \* util::Tokenize of a content, as a set
    Bucket,     \* buckets of the vector codes
    VecBucket,  \* the bucket of a content's embedding
    IdBucket,   \* BucketForPosting of a record's workspace and id
    RowPid      \* ResolvePartitionId of a derived row

Posting(k, t) == <<"posting", k, t>>
VecCode(k, b) == <<"vec_code", k, b>>
VecFp(k) == <<"vec_fp", k>>
TermDict(w, t) == <<"term_dict", w, t>>

Row == {Posting(k, t) : k \in Key, t \in Term} \cup {VecCode(k, b) : k \in Key, b \in Bucket}
       \cup {VecFp(k) : k \in Key} \cup {TermDict(w, t) : w \in Workspace, t \in Term}

ASSUME TermAssumption == Terms \in [Val -> SUBSET Term]
ASSUME BucketAssumption == VecBucket \in [Val -> Bucket] /\ IdBucket \in [Key -> Bucket]
ASSUME RowPidAssumption ==
    /\ RowPid \in [Row -> Partition]
    /\ \A k \in Key, x \in Row : x[2] \in {k, WsOf[k]} => RowPid[x] \in AuxPids[k]

VARIABLES
    rows,  \* what the store has under the key of a derived row: the record it was derived from
    plan,  \* the derived rows in the batch of every thread
    torn   \* history: keys persisted without an exact view of what is stored

rowVars == <<rows, plan, torn>>
allVars == <<vars, rowVars>>

NoRows == [x \in Row |-> None]
NoPlan == [row |-> NoRows, keys |-> {}, begun |-> FALSE]

RowsInit ==
    /\ Init
    /\ rows = NoRows /\ plan = [t \in Thread |-> NoPlan] /\ torn = {}

-----------------------------------------------------------------------------
(* The rows of a batch; a later entry for a key replaces an earlier one.    *)

Deletes(p, S) == [x \in Row |-> IF x \in S THEN Gone ELSE p[x]]
Upserts(p, S, r) == [x \in Row |-> IF x \in S THEN r ELSE p[x]]

Postings(r) == {Posting(r.key, t) : t \in Terms[r.val]}

\* The keys the code deletes for a record,
DerivedKeys(r) == Postings(r) \cup {VecCode(r.key, IdBucket[r.key]), VecFp(r.key)}

\* and those it writes: the code of the vector is under the bucket of its
\* content.
DerivedRows(r) == Postings(r) \cup {VecCode(r.key, VecBucket[r.val]), VecFp(r.key)}
                  \cup {TermDict(WsOf[r.key], t) : t \in Terms[r.val]}

\* Mutant of PersistRecord: the old rows are deleted after the new are written.
PersistRecord_DeletesLast(p, r, old) ==
    LET q == IF r.tomb THEN Deletes(p, DerivedKeys(r)) ELSE Upserts(p, DerivedRows(r), r)
    IN IF old = None THEN q ELSE Deletes(q, DerivedKeys(old))

\* old is the resident version, if there is one.
PersistRecord(p, r, old) ==
    LET q == IF old = None THEN p ELSE Deletes(p, DerivedKeys(old))
    IN IF r.tomb THEN Deletes(q, DerivedKeys(r)) ELSE Upserts(q, DerivedRows(r), r)

DeleteRecordStorage(p, r) == Deletes(p, DerivedKeys(r))

-----------------------------------------------------------------------------
\* A batch that replaces the rows of key k knows them exactly if the version
\* it goes by is the stored one and no other entry for k is on its way.
Exact(k, old) == old = docs[k] /\ \A t \in Thread : k \notin plan[t].keys

Planned(t, k, p, old) ==
    /\ plan' = [plan EXCEPT ![t].row = p, ![t].keys = @ \cup {k}]
    /\ torn' = IF Exact(k, old) THEN torn ELSE torn \cup {k}
    /\ UNCHANGED rows

\* A step appended the last record of upserts to the batch.
Persists(t) ==
    LET r == Last(th'[t].upserts)
        old == records[r.key]
    IN Planned(t, r.key, PersistRecord(plan[t].row, r, old), old)

RowsWriteRecord(t) == WriteRecord(t) /\ Persists(t)

RowsPinCheck(t) ==
    PinCheck(t) /\ IF th'[t].pc = "commit" THEN Persists(t) ELSE UNCHANGED rowVars

RowsCompactTomb(t) == CompactTomb(t) /\ Persists(t)

RowsCompactDelete(t) == \E k \in ToDelete(th[t]) :
    LET r == th[t].snap[k] IN
    Reclaim(t, k) /\ Planned(t, k, DeleteRecordStorage(plan[t].row, r), r)

RowsAfter(b, p) == [x \in Row |->
    IF RowPid[x] # p \/ b[x] = None THEN rows[x] ELSE IF b[x] = Gone THEN None ELSE b[x]]

\* What is left of a batch when its rows in partition p are in the store.
PlanAfter(q, p) ==
    [q EXCEPT !.begun = TRUE, !.row = [x \in Row |-> IF RowPid[x] = p THEN None ELSE @[x]]]

RowsBatchWrite(t) == \E p \in Partition :
    /\ CommitPartition(t, p)
    /\ rows' = RowsAfter(plan[t].row, p)
    /\ plan' = [plan EXCEPT ![t] = IF th'[t].pc = "commit" THEN PlanAfter(@, p) ELSE NoPlan]
    /\ UNCHANGED torn

\* The keys of a batch of which a part is in the store.
HalfDone(t) == IF plan[t].begun THEN plan[t].keys ELSE {}

RowsBatchWriteFail(t) ==
    /\ BatchWriteFail(t)
    /\ plan' = [plan EXCEPT ![t] = NoPlan]
    /\ torn' = torn \cup HalfDone(t)
    /\ UNCHANGED rows

RowsRestart ==
    /\ Restart
    /\ plan' = [t \in Thread |-> NoPlan]
    /\ torn' = torn \cup UNION {HalfDone(t) : t \in Thread}
    /\ UNCHANGED rows

\* The steps that append nothing to a batch and commit none.
OtherStep(t) ==
    \/ WriteStart(t) \/ PinStart(t) \/ CompactStart(t)
    \/ WriteDedup(t) \/ WriteBuilt(t) \/ PinGet(t) \/ CompactBuilt(t) \/ CompactReport(t)
    \/ WriteRoute(t) \/ UpsertMap(t) \/ UpsertIndex(t) \/ UpsertAccount(t)
    \/ RemoveMap(t) \/ EvictMap(t) \/ DropAccount(t) \/ DropIndex(t) \/ EnforceDone(t)
    \/ WarmupScan(t) \/ WarmupLoad(t)
    \/ ReplayCheckpoints(t) \/ ReplayScan(t) \/ ReplayEvent(t)

RowsNext ==
    \/ \E t \in Thread :
         \/ RowsWriteRecord(t) \/ RowsPinCheck(t) \/ RowsCompactTomb(t) \/ RowsCompactDelete(t)
         \/ RowsBatchWrite(t) \/ RowsBatchWriteFail(t)
         \/ OtherStep(t) /\ UNCHANGED rowVars
    \/ (Tick \/ Finished) /\ UNCHANGED rowVars
    \/ RowsRestart

RowsSpec == RowsInit /\ [][RowsNext]_allVars

-----------------------------------------------------------------------------
Live(k) == docs[k] # None /\ ~docs[k].tomb

\* As long as every PersistRecord of a key finds the stored version resident
\* and no two batches with the key overlap or are cut off, the store has
\* exactly the posting rows and the vector of the live document, all of the
\* document's own version, and its vector code.
RowsExact == \A k \in Key \ torn : (\A t \in Thread : k \notin plan[t].keys) =>
    /\ \A t \in Term : rows[Posting(k, t)] = IF Live(k) /\ t \in Terms[docs[k].val] THEN docs[k] ELSE None
    /\ rows[VecFp(k)] = IF Live(k) THEN docs[k] ELSE None
    /\ Live(k) => rows[VecCode(k, VecBucket[docs[k].val])] = docs[k]

\* "sparse index, dense index, and document body must stay semantically
\* aligned": between batches, under the conditions of RowsExact, a vector code
\* belongs to a live document with that code.
VecCodesAligned == \A k \in Key \ torn : (\A t \in Thread : k \notin plan[t].keys) =>
    \A b \in Bucket : rows[VecCode(k, b)] # None => Live(k) /\ VecBucket[docs[k].val] = b
=============================================================================
