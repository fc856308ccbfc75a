----------------------------- MODULE Retriever -----------------------------
(***************************************************************************)
(* HybridRetriever (src/core/retriever.cpp) with its vector index          *)
(* (src/core/lsh_vector_index.cpp), between the threads that change        *)
(* records_ and the Query that reads all three.                            *)
(*                                                                         *)
(* One workspace.  Terms, embeddings and filter fields are abstracted to   *)
(* sets of contents: those a query shares a term with, and those whose     *)
(* record passes the filter.  Scores are any order of the candidates.      *)
(***************************************************************************)
EXTENDS Integers, Sequences, FiniteSetsExt, SequencesExt

CONSTANTS
    Id, Content,
    TokenCount,     \* tokens of a content
    Ttl,            \* ttl_s of a record, 0 for none
    Writer,         \* threads in Write, Pin, Compact or an eviction
    Reader,         \* threads in Query
    QueryInput,     \* [match, filter, top_k, token_budget]
    SparseK, DenseK, Oversample,
    None,
    MaxOps, MaxNow  \* bounds: changes of records_, the clock

\* A record; ver tells versions apart.
Rec == [content : Content, ttl : Ttl, at : 0..MaxNow, tomb : BOOLEAN, ver : 1..MaxOps]
Doc == {r \in Rec : ~r.tomb}

ASSUME RetrieverAssumption ==
    /\ TokenCount \in [Content -> Nat] /\ Ttl \subseteq Nat
    /\ \A q \in QueryInput :
           /\ q.match \subseteq Content /\ q.filter \subseteq Content
           /\ q.top_k \in Nat /\ q.token_budget \in Nat
    /\ SparseK \in Nat /\ DenseK \in Nat /\ Oversample \in Nat
    /\ MaxOps \in Nat /\ MaxNow \in Nat \ {0} /\ None \notin Rec

VARIABLES
    recs,       \* records_
    docs,       \* docs of the workspace's snapshot; no snapshot when all are None
    total,      \* its total_doc_len
    vecs,       \* workspace_vectors_: the content whose embedding is held
    wr,         \* what each writer is doing: [pc, id, rec]
    rd,         \* what each reader is doing
    now, ops,
    \* history
    dirty,      \* ids for which changes overlapped since one ran alone
    touched     \* ids that changed, or were changing, during each reader's query

storeVars == <<recs, docs, total, vecs>>
vars == <<storeVars, wr, rd, now, ops, dirty, touched>>

AtRest == [pc |-> "idle", id |-> None, rec |-> None]
NoQuery == [pc |-> "idle", q |-> None, snapshot |-> None, hits |-> <<>>, i |-> 1,
            out |-> <<>>, used |-> 0, now |-> 0]

Init ==
    /\ recs = [k \in Id |-> None] /\ docs = recs /\ vecs = recs /\ total = 0
    /\ wr = [w \in Writer |-> AtRest] /\ rd = [r \in Reader |-> NoQuery]
    /\ now = 1 /\ ops = 0
    /\ dirty = {} /\ touched = [r \in Reader |-> {}]

InWork == {wr[w].id : w \in {v \in Writer : wr[v].pc # "idle"}}

-----------------------------------------------------------------------------
(* Changes: first records_, under records_mu_ ... *)

Change(w, k, rec) ==
    /\ wr[w].pc = "idle" /\ ops < MaxOps
    /\ recs' = [recs EXCEPT ![k] = rec]
    /\ wr' = [wr EXCEPT ![w] = [pc |-> "docs", id |-> k, rec |-> rec]]
    /\ ops' = ops + 1
    /\ dirty' = IF k \in InWork THEN dirty \cup {k} ELSE dirty \ {k}
    /\ touched' = [r \in Reader |-> IF rd[r].pc = "idle" THEN {} ELSE touched[r] \cup {k}]
    /\ UNCHANGED <<docs, total, vecs, rd, now>>

UpsertRecord(w) == \E k \in Id, c \in Content, ttl \in Ttl :
    Change(w, k, [content |-> c, ttl |-> ttl, at |-> now, tomb |-> FALSE, ver |-> ops + 1])

TombstoneRecord(w) == \E k \in Id :
    /\ recs[k] # None /\ ~recs[k].tomb
    /\ Change(w, k, [recs[k] EXCEPT !.tomb = TRUE, !.at = now, !.ver = ops + 1])

RemoveRecord(w) == \E k \in Id : recs[k] # None /\ Change(w, k, None)

(* ... then the snapshot, under mu_ of the retriever ... *)

\* Mutant of Live: Index does not look at the tombstone.
Live_Unchecked(rec) == rec # None

Live(rec) == rec # None /\ ~rec.tomb

\* Mutant of LenWithout: the length of a replaced document stays.
LenWithout_Keeps(k) == total

LenWithout(k) ==
    LET len == TokenCount[docs[k].content]
    IN IF docs[k] # None /\ total >= len THEN total - len ELSE total

IndexDoc(w) ==
    /\ wr[w].pc = "docs" /\ Live(wr[w].rec)
    /\ docs' = [docs EXCEPT ![wr[w].id] = wr[w].rec]
    /\ total' = LenWithout(wr[w].id) + TokenCount[wr[w].rec.content]
    /\ wr' = [wr EXCEPT ![w].pc = "vecs"]
    /\ UNCHANGED <<recs, vecs, rd, now, ops, dirty, touched>>

\* Mutant of RemoveDoc: a snapshot that becomes empty is left as it was.
RemoveDoc_KeepsLast(w) == LET k == wr[w].id IN
    /\ wr[w].pc = "docs" /\ ~Live(wr[w].rec) /\ docs[k] # None
    /\ docs' = IF \E j \in Id \ {k} : docs[j] # None THEN [docs EXCEPT ![k] = None] ELSE docs
    /\ total' = LenWithout(k)
    /\ wr' = [wr EXCEPT ![w].pc = "vecs"]
    /\ UNCHANGED <<recs, vecs, rd, now, ops, dirty, touched>>

RemoveDoc(w) == LET k == wr[w].id IN
    /\ wr[w].pc = "docs" /\ ~Live(wr[w].rec) /\ docs[k] # None
    /\ docs' = [docs EXCEPT ![k] = None]
    /\ total' = LenWithout(k)
    /\ wr' = [wr EXCEPT ![w].pc = "vecs"]
    /\ UNCHANGED <<recs, vecs, rd, now, ops, dirty, touched>>

\* Without a document the vector goes while mu_ is still held.
RemoveAbsent(w) == LET k == wr[w].id IN
    /\ wr[w].pc = "docs" /\ ~Live(wr[w].rec) /\ docs[k] = None
    /\ vecs' = [vecs EXCEPT ![k] = None]
    /\ wr' = [wr EXCEPT ![w] = AtRest]
    /\ UNCHANGED <<recs, docs, total, rd, now, ops, dirty, touched>>

(* ... then the vector, under mu_ of the vector index. *)

\* Mutant of VectorUpsert: a vector that is there is kept.
VectorUpsert_Keeps(w) ==
    /\ wr[w].pc = "vecs" /\ Live(wr[w].rec)
    /\ vecs' = [vecs EXCEPT ![wr[w].id] = IF @ = None THEN wr[w].rec.content ELSE @]
    /\ wr' = [wr EXCEPT ![w] = AtRest]
    /\ UNCHANGED <<recs, docs, total, rd, now, ops, dirty, touched>>

VectorUpsert(w) ==
    /\ wr[w].pc = "vecs" /\ Live(wr[w].rec)
    /\ vecs' = [vecs EXCEPT ![wr[w].id] = wr[w].rec.content]
    /\ wr' = [wr EXCEPT ![w] = AtRest]
    /\ UNCHANGED <<recs, docs, total, rd, now, ops, dirty, touched>>

VectorRemove(w) ==
    /\ wr[w].pc = "vecs" /\ ~Live(wr[w].rec)
    /\ vecs' = [vecs EXCEPT ![wr[w].id] = None]
    /\ wr' = [wr EXCEPT ![w] = AtRest]
    /\ UNCHANGED <<recs, docs, total, rd, now, ops, dirty, touched>>

-----------------------------------------------------------------------------
(* Query *)

\* The n best of a set, for some scores.
Best(set, n) == {b \in SUBSET set : Cardinality(b) = IF Cardinality(set) < n THEN Cardinality(set) ELSE n}

TopK(q) == IF q.top_k = 0 THEN 8 ELSE q.top_k

\* Mutant of RecallLimit: what the caller asks for is not considered.
RecallLimit_Fixed(k, q) == k

RecallLimit(k, q) == Max({k, TopK(q) * Max({1, Oversample})})

PassesFilter(rec, q) == rec.content \in q.filter

\* Whether the score is positive: a document frequency is at most the number
\* of documents, so every shared term adds to it.
LexicalScore(rec, q) == rec.content \in q.match

\* The snapshot is shared, not copied: what it holds does not change any more.
QuerySnapshot(r) == \E q \in QueryInput :
    /\ rd[r].pc = "idle" /\ \E k \in Id : docs[k] # None
    /\ rd' = [rd EXCEPT ![r] = [NoQuery EXCEPT !.pc = "search", !.q = q, !.snapshot = docs]]
    /\ touched' = [touched EXCEPT ![r] = InWork \cup dirty]
    /\ UNCHANGED <<storeVars, wr, now, ops, dirty>>

\* The candidates: documents of the snapshot that share a term with the query,
SparseCandidates(snapshot, q) ==
    Best({k \in Id : /\ snapshot[k] # None /\ PassesFilter(snapshot[k], q)
                     /\ LexicalScore(snapshot[k], q)}, RecallLimit(SparseK, q))

\* and the nearest vectors, cut to the limit before they are filtered.
DenseCandidates(snapshot, q) ==
    {{k \in near : snapshot[k] # None /\ PassesFilter(snapshot[k], q)} :
        near \in Best({k \in Id : vecs[k] # None}, RecallLimit(DenseK, q))}

QuerySearch(r) ==
    /\ rd[r].pc = "search"
    /\ \E s \in SparseCandidates(rd[r].snapshot, rd[r].q), d \in DenseCandidates(rd[r].snapshot, rd[r].q) :
       \E ranked \in Best(s \cup d, TopK(rd[r].q)) : \E hits \in SetToSeqs(ranked) :
           rd' = [rd EXCEPT ![r].pc = "hits", ![r].hits = hits, ![r].now = now]
    /\ UNCHANGED <<storeVars, wr, now, ops, dirty, touched>>

IsExpired(rec, t) == rec.ttl # 0 /\ rec.at # 0 /\ t > rec.at /\ t - rec.at >= rec.ttl

\* Mutant of Hidden: expiry is not checked.
Hidden_Never(k, t) == FALSE

\* The record as it is in records_ now, not as it was when it was indexed.
Hidden(k, t) == recs[k] # None /\ IsExpired(recs[k], t)

\* One hit: the budget ends the list, an expired record is skipped.
QueryHit(r) ==
    LET k == rd[r].hits[rd[r].i]
        doc == rd[r].snapshot[k]
        used == rd[r].used + TokenCount[doc.content]
    IN /\ rd[r].pc = "hits" /\ rd[r].i <= Len(rd[r].hits)
       /\ \/ /\ rd[r].q.token_budget > 0 /\ used > rd[r].q.token_budget
             /\ rd' = [rd EXCEPT ![r].pc = "cut"]
          \/ /\ ~(rd[r].q.token_budget > 0 /\ used > rd[r].q.token_budget)
             /\ rd' = [rd EXCEPT ![r] = IF Hidden(k, rd[r].now)
                          THEN [rd[r] EXCEPT !.i = @ + 1]
                          ELSE [rd[r] EXCEPT !.i = @ + 1, !.used = used, !.out = Append(@, k)]]
       /\ UNCHANGED <<storeVars, wr, now, ops, dirty, touched>>

\* The list is complete; hit counts are updated and the answer is given.
QueryEnd(r) ==
    /\ rd[r].pc = "cut" \/ (rd[r].pc = "hits" /\ rd[r].i > Len(rd[r].hits))
    /\ rd' = [rd EXCEPT ![r] = NoQuery] /\ touched' = [touched EXCEPT ![r] = {}]
    /\ UNCHANGED <<storeVars, wr, now, ops, dirty>>

\* The clock.
Tick ==
    /\ now < MaxNow /\ now' = now + 1
    /\ UNCHANGED <<storeVars, wr, rd, ops, dirty, touched>>

WriterStep(w) ==
    \/ UpsertRecord(w) \/ TombstoneRecord(w) \/ RemoveRecord(w)
    \/ IndexDoc(w) \/ RemoveDoc(w) \/ RemoveAbsent(w) \/ VectorUpsert(w) \/ VectorRemove(w)

ReaderStep(r) == QuerySnapshot(r) \/ QuerySearch(r) \/ QueryHit(r) \/ QueryEnd(r)

\* Nothing is under way and the bound is reached.
Finished ==
    /\ ops = MaxOps /\ InWork = {} /\ \A r \in Reader : rd[r].pc = "idle"
    /\ UNCHANGED vars

Next ==
    \/ \E w \in Writer : WriterStep(w)
    \/ \E r \in Reader : ReaderStep(r)
    \/ Tick \/ Finished

Spec == Init /\ [][Next]_vars

-----------------------------------------------------------------------------
\* The type invariant; in particular no tombstone is ever a document.
RetrieverTypeOK ==
    /\ recs \in [Id -> Rec \cup {None}] /\ docs \in [Id -> Doc \cup {None}]
    /\ vecs \in [Id -> Content \cup {None}] /\ total \in Nat
    /\ \A w \in Writer : wr[w] = AtRest \/ (wr[w].pc \in {"docs", "vecs"} /\ wr[w].id \in Id
                                            /\ wr[w].rec \in Rec \cup {None})
    /\ \A r \in Reader : rd[r] = NoQuery \/ (rd[r].pc \in {"search", "hits", "cut"} /\ rd[r].q \in QueryInput
                                             /\ rd[r].snapshot \in [Id -> Doc \cup {None}]
                                             /\ rd[r].hits \in Seq(Id) /\ rd[r].out \in Seq(Id))
    /\ now \in 0..MaxNow /\ ops \in 0..MaxOps
    /\ dirty \subseteq Id /\ touched \in [Reader -> SUBSET Id]

\* records_, the snapshot and the vector index are changed under three locks.
\* Where the changes of a record did not overlap and none is under way, the
\* three agree: a live record is a document with its own vector, any other is
\* in neither.
PartsAgree == \A k \in Id \ (InWork \cup dirty) :
    IF Live(recs[k])
    THEN docs[k] = recs[k] /\ vecs[k] = recs[k].content
    ELSE docs[k] = None /\ vecs[k] = None

\* total_doc_len, which Index and Remove update by differences, is the sum of
\* the lengths of the documents, whatever overlaps.
DocLenExact == total = SumFunction([k \in {j \in Id : docs[j] # None} |-> TokenCount[docs[k].content]])

\* What a Query has of a record that did not change meanwhile is its present
\* version, and the record is neither deleted nor filtered out.
HitsAreCurrent == \A r \in Reader : rd[r].pc \in {"hits", "cut"} =>
    \A k \in Range(rd[r].hits) \ touched[r] :
        rd[r].snapshot[k] = recs[k] /\ PassesFilter(recs[k], rd[r].q)

\* A Query that no budget cut off has every unexpired record that matches a
\* term and the filter and did not change meanwhile, unless it was full:
\* neither the recall limits nor a vector that is missing lose one.
RecallComplete == \A r \in Reader : (rd[r].pc = "hits" /\ rd[r].i > Len(rd[r].hits)) =>
    \/ Len(rd[r].hits) = TopK(rd[r].q)
    \/ \A k \in Id \ touched[r] :
           ( /\ Live(recs[k]) /\ ~IsExpired(recs[k], rd[r].now)
             /\ PassesFilter(recs[k], rd[r].q) /\ LexicalScore(recs[k], rd[r].q) )
               => k \in Range(rd[r].out)

\* An expired record is answered only if it changed while the Query ran: then
\* the check looks at another version, or finds the record evicted.
ExpiredHidden == \A r \in Reader : \A k \in Range(rd[r].out) \ touched[r] :
    ~IsExpired(rd[r].snapshot[k], rd[r].now)
=============================================================================
