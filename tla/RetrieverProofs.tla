-------------------------- MODULE RetrieverProofs --------------------------
(* Proofs about the retriever, for any number of writers, readers, records *)
(* and contents: its parts agree at rest, the total document length is the *)
(* sum of the documents', and what a query answers is current, complete    *)
(* and not expired.                                                        *)
EXTENDS Retriever, SumTheorems, TLAPS

\* The types the argument needs.
PartsOK ==
    /\ recs \in [Id -> Rec \cup {None}] /\ docs \in [Id -> Rec \cup {None}]
    /\ vecs \in [Id -> Content \cup {None}]
    /\ wr \in [Writer -> [pc : {"idle", "docs", "vecs"}, id : Id \cup {None}, rec : Rec \cup {None}]]
    /\ \A w \in Writer : wr[w].pc # "idle" => wr[w].id \in Id
    /\ now \in 0..MaxNow /\ ops \in 0..MaxOps /\ dirty \subseteq Id

Working(w, k) == wr[w].pc # "idle" /\ wr[w].id = k

\* A record that is not dirty has one writer at most.
Alone == \A v, w \in Writer, k \in Id \ dirty : Working(v, k) /\ Working(w, k) => v = w

\* What that writer has done: records_ at once, then the document.
Half == \A w \in Writer, k \in Id \ dirty : Working(w, k) =>
    /\ recs[k] = wr[w].rec
    /\ wr[w].pc = "vecs" => docs[k] = IF Live(recs[k]) THEN recs[k] ELSE None

\* A record that is not dirty and has no writer.
Agrees(k) ==
    IF Live(recs[k])
    THEN docs[k] = recs[k] /\ vecs[k] = recs[k].content
    ELSE docs[k] = None /\ vecs[k] = None

Rested == \A k \in Id \ dirty : (\A w \in Writer : ~Working(w, k)) => Agrees(k)

RetrieverInv == PartsOK /\ Alone /\ Half /\ Rested

-----------------------------------------------------------------------------
\* Who is at work, in the terms of the specification.
LEMMA InWorkIs == \A k : k \in InWork <=> \E w \in Writer : Working(w, k)
BY DEF InWork, Working

LEMMA RetrieverInit == Init => RetrieverInv
<1> SUFFICES ASSUME Init PROVE RetrieverInv OBVIOUS
<1>1. \A w \in Writer : wr[w] = AtRest /\ wr[w].pc = "idle" BY DEF Init, AtRest
<1>2. PartsOK BY <1>1, RetrieverAssumption DEF PartsOK, Init, AtRest
<1>3. Alone /\ Half BY <1>1 DEF Alone, Half, Working
<1>4. Rested BY DEF Rested, Agrees, Live, Init
<1> QED BY <1>2, <1>3, <1>4 DEF RetrieverInv

\* A change starts: alone, or it makes its record dirty.
LEMMA ChangeKeeps ==
    ASSUME RetrieverInv, NEW w \in Writer, NEW j \in Id, NEW rec \in Rec \cup {None}, Change(w, j, rec)
    PROVE  RetrieverInv'
<1> USE DEF RetrieverInv
<1>1. /\ wr[w].pc = "idle" /\ ops < MaxOps /\ recs' = [recs EXCEPT ![j] = rec]
      /\ wr' = [wr EXCEPT ![w] = [pc |-> "docs", id |-> j, rec |-> rec]] /\ ops' = ops + 1
      /\ dirty' = IF j \in InWork THEN dirty \cup {j} ELSE dirty \ {j}
      /\ UNCHANGED <<docs, vecs, now>>
  BY DEF Change
<1>2. PartsOK' BY <1>1, RetrieverAssumption DEF PartsOK
<1>3. \A v \in Writer, k \in Id : Working(v, k)' <=> IF v = w THEN k = j ELSE Working(v, k)
  BY <1>1 DEF PartsOK, Working
<1>4. \A v \in Writer : v # w => wr'[v] = wr[v] BY <1>1 DEF PartsOK
<1>5. wr'[w].rec = rec /\ wr'[w].pc = "docs" BY <1>1 DEF PartsOK
<1>6. \A k \in Id \ dirty' : k # j => k \in Id \ dirty BY <1>1
<1>7. j \notin dirty' => \A v \in Writer : ~Working(v, j) BY <1>1, InWorkIs
<1>8. \A k \in Id : recs'[k] = IF k = j THEN rec ELSE recs[k] BY <1>1 DEF PartsOK
<1>9. Alone' BY <1>3, <1>6, <1>7 DEF Alone
<1>10. Half'
  <2> SUFFICES ASSUME NEW v \in Writer, NEW k \in Id \ dirty', Working(v, k)'
               PROVE  /\ recs'[k] = wr'[v].rec
                      /\ wr'[v].pc = "vecs" => docs'[k] = IF Live(recs'[k]) THEN recs'[k] ELSE None
    BY DEF Half, Live
  <2>1. CASE v = w BY <1>3, <1>5, <1>8, <2>1
  <2>2. CASE v # w
    <3>1. k # j BY <1>3, <1>7, <2>2
    <3> QED BY <1>1, <1>3, <1>4, <1>6, <1>8, <2>2, <3>1 DEF Half
  <2> QED BY <2>1, <2>2
<1>11. Rested'
  <2> SUFFICES ASSUME NEW k \in Id \ dirty', \A v \in Writer : ~Working(v, k)'
               PROVE  Agrees(k)'
    BY DEF Rested
  <2>1. k # j BY <1>3
  <2>2. Agrees(k) BY <1>1, <1>3, <1>6, <2>1 DEF Rested, Working
  <2> QED BY <1>1, <1>8, <2>1, <2>2 DEF Agrees, Live
<1> QED BY <1>2, <1>9, <1>10, <1>11

\* The document of a record is changed.
LEMMA DocKeeps ==
    ASSUME RetrieverInv, NEW w \in Writer, IndexDoc(w) \/ RemoveDoc(w)
    PROVE  RetrieverInv'
<1> USE DEF RetrieverInv
<1> DEFINE j == wr[w].id
           doc == IF Live(wr[w].rec) THEN wr[w].rec ELSE None
<1>1. /\ wr[w].pc = "docs" /\ docs' = [docs EXCEPT ![j] = doc]
      /\ wr' = [wr EXCEPT ![w].pc = "vecs"]
      /\ UNCHANGED <<recs, vecs, now, ops, dirty>>
  BY DEF IndexDoc, RemoveDoc
<1>2. j \in Id /\ doc \in Rec \cup {None} /\ Working(w, j) BY <1>1 DEF PartsOK, Working
<1>3. PartsOK' BY <1>1, <1>2 DEF PartsOK
<1>4. \A v \in Writer, k \in Id : Working(v, k)' <=> Working(v, k) BY <1>1 DEF PartsOK, Working
<1>5. \A v \in Writer : wr'[v].rec = wr[v].rec /\ (v # w => wr'[v] = wr[v]) BY <1>1 DEF PartsOK
<1>6. \A k \in Id : docs'[k] = IF k = j THEN doc ELSE docs[k] BY <1>1, <1>2 DEF PartsOK
<1>7. Alone' BY <1>1, <1>4 DEF Alone
<1>8. Half'
  <2> SUFFICES ASSUME NEW v \in Writer, NEW k \in Id \ dirty, Working(v, k)
               PROVE  /\ recs[k] = wr'[v].rec
                      /\ wr'[v].pc = "vecs" => docs'[k] = IF Live(recs[k]) THEN recs[k] ELSE None
    BY <1>1, <1>4 DEF Half, Live
  <2>1. recs[k] = wr'[v].rec BY <1>5 DEF Half
  <2>2. CASE v = w
    <3>1. k = j BY <2>2 DEF Working
    <3> QED BY <1>5, <1>6, <2>1, <2>2, <3>1
  <2>3. CASE v # w
    <3>1. k # j BY <1>2, <2>3 DEF Alone
    <3> QED BY <1>5, <1>6, <2>1, <2>3, <3>1 DEF Half
  <2> QED BY <2>2, <2>3
<1>9. Rested'
  <2> SUFFICES ASSUME NEW k \in Id \ dirty, \A v \in Writer : ~Working(v, k) PROVE Agrees(k)'
    BY <1>1, <1>4 DEF Rested
  <2>1. k # j BY <1>2
  <2>2. Agrees(k) BY DEF Rested
  <2> QED BY <1>1, <1>6, <2>1, <2>2 DEF Agrees, Live
<1> QED BY <1>3, <1>7, <1>8, <1>9

\* The last step of a change: the vector follows the document.
LEMMA VectorKeeps ==
    ASSUME RetrieverInv, NEW w \in Writer, VectorUpsert(w) \/ VectorRemove(w) \/ RemoveAbsent(w)
    PROVE  RetrieverInv'
<1> USE DEF RetrieverInv
<1> DEFINE j == wr[w].id
           vec == IF Live(wr[w].rec) THEN wr[w].rec.content ELSE None
<1>1. /\ vecs' = [vecs EXCEPT ![j] = vec] /\ wr' = [wr EXCEPT ![w] = AtRest]
      /\ UNCHANGED <<recs, docs, now, ops, dirty>>
  BY DEF VectorUpsert, VectorRemove, RemoveAbsent
<1>2. /\ wr[w].pc # "idle"
      /\ wr[w].pc = "vecs" \/ (docs[j] = None /\ ~Live(wr[w].rec))
  BY DEF VectorUpsert, VectorRemove, RemoveAbsent
<1>3. j \in Id /\ Working(w, j) BY <1>2 DEF PartsOK, Working
<1>4. vec \in Content \cup {None} BY DEF PartsOK, Live, Rec
<1>5. PartsOK' BY <1>1, <1>3, <1>4 DEF PartsOK, AtRest
<1>6. \A v \in Writer, k \in Id : Working(v, k)' <=> v # w /\ Working(v, k)
  BY <1>1 DEF PartsOK, Working, AtRest
<1>7. \A v \in Writer : v # w => wr'[v] = wr[v] BY <1>1 DEF PartsOK
<1>8. \A k \in Id : vecs'[k] = IF k = j THEN vec ELSE vecs[k] BY <1>1, <1>3 DEF PartsOK
<1>9. Alone' BY <1>1, <1>6 DEF Alone
<1>10. Half' BY <1>1, <1>6, <1>7 DEF Half, Live
<1>11. Rested'
  <2> SUFFICES ASSUME NEW k \in Id \ dirty, \A v \in Writer : v # w => ~Working(v, k)
               PROVE  Agrees(k)'
    BY <1>1, <1>6 DEF Rested
  <2>1. CASE k = j
    <3>1. recs[k] = wr[w].rec BY <1>3, <2>1 DEF Half
    <3>2. docs[k] = IF Live(recs[k]) THEN recs[k] ELSE None BY <1>2, <1>3, <2>1, <3>1 DEF Half
    <3> QED BY <1>1, <1>8, <2>1, <3>1, <3>2 DEF Agrees, Live
  <2>2. CASE k # j
    <3>1. Agrees(k) BY <2>2 DEF Rested, Working
    <3> QED BY <1>1, <1>8, <2>2, <3>1 DEF Agrees, Live
  <2> QED BY <2>1, <2>2
<1> QED BY <1>5, <1>9, <1>10, <1>11

\* Steps that change no part.
LEMMA OtherKeeps ==
    RetrieverInv /\ UNCHANGED <<recs, docs, vecs, wr, ops, dirty>> /\ now' \in 0..MaxNow => RetrieverInv'
BY DEF RetrieverInv, PartsOK, Alone, Half, Rested, Agrees, Working, Live

LEMMA WriterKeeps ==
    ASSUME RetrieverInv, NEW w \in Writer, WriterStep(w)
    PROVE  RetrieverInv'
<1>1. CASE UpsertRecord(w)
  <2>1. PICK k \in Id, c \in Content, ttl \in Ttl :
          Change(w, k, [content |-> c, ttl |-> ttl, at |-> now, tomb |-> FALSE, ver |-> ops + 1])
    BY <1>1 DEF UpsertRecord
  <2>2. now \in 0..MaxNow /\ ops + 1 \in 1..MaxOps
    BY <2>1, RetrieverAssumption DEF RetrieverInv, PartsOK, Change
  <2>3. [content |-> c, ttl |-> ttl, at |-> now, tomb |-> FALSE, ver |-> ops + 1] \in Rec
    BY <2>2 DEF Rec
  <2> QED BY <2>1, <2>3, ChangeKeeps
<1>2. CASE TombstoneRecord(w)
  <2>1. PICK k \in Id :
          /\ recs[k] # None
          /\ Change(w, k, [recs[k] EXCEPT !.tomb = TRUE, !.at = now, !.ver = ops + 1])
    BY <1>2 DEF TombstoneRecord
  <2>2. now \in 0..MaxNow /\ ops + 1 \in 1..MaxOps /\ recs[k] \in Rec
    BY <2>1, RetrieverAssumption DEF RetrieverInv, PartsOK, Change
  <2>3. [recs[k] EXCEPT !.tomb = TRUE, !.at = now, !.ver = ops + 1] \in Rec
    BY <2>2 DEF Rec
  <2> QED BY <2>1, <2>3, ChangeKeeps
<1>3. CASE RemoveRecord(w) BY <1>3, ChangeKeeps DEF RemoveRecord
<1>4. CASE IndexDoc(w) \/ RemoveDoc(w) BY <1>4, DocKeeps
<1>5. CASE RemoveAbsent(w) \/ VectorUpsert(w) \/ VectorRemove(w) BY <1>5, VectorKeeps
<1> QED BY <1>1, <1>2, <1>3, <1>4, <1>5 DEF WriterStep

LEMMA RetrieverStep == RetrieverInv /\ [Next]_vars => RetrieverInv'
<1> SUFFICES ASSUME RetrieverInv, [Next]_vars PROVE RetrieverInv' OBVIOUS
<1>1. now \in 0..MaxNow BY DEF RetrieverInv, PartsOK
<1>2. CASE UNCHANGED vars \/ Finished BY <1>1, <1>2, OtherKeeps DEF vars, storeVars, Finished
<1>3. CASE Tick
  <2>1. now' \in 0..MaxNow BY <1>1, <1>3, RetrieverAssumption DEF Tick
  <2> QED BY <1>3, <2>1, OtherKeeps DEF Tick, storeVars
<1>4. ASSUME NEW r \in Reader, ReaderStep(r) PROVE RetrieverInv'
  BY <1>1, <1>4, OtherKeeps DEF ReaderStep, QuerySnapshot, QuerySearch, QueryHit, QueryEnd, storeVars
<1> QED BY <1>2, <1>3, <1>4, WriterKeeps DEF Next

\* The inductive invariant: one writer per clean record, and how far it is.
THEOREM RetrieverInvariant == Spec => []RetrieverInv
<1> QED BY RetrieverInit, RetrieverStep, PTL DEF Spec

\* records_, documents and vectors agree wherever changes did not overlap.
THEOREM PartsStayAligned == Spec => []PartsAgree
<1>1. RetrieverInv => PartsAgree
  BY InWorkIs DEF RetrieverInv, Rested, Agrees, PartsAgree
<1> QED BY <1>1, RetrieverInvariant, PTL

-----------------------------------------------------------------------------
(* The length of the documents, kept by differences. *)

Docs == {k \in Id : docs[k] # None}
DocLen == [k \in Docs |-> TokenCount[docs[k].content]]

LenOK == IsFiniteSet(Docs) /\ total \in Nat /\ total = SumFunctionOnSet(DocLen, Docs)

LEMMA DocLenNat == RetrieverInv => \A k \in Docs : DocLen[k] \in Nat
<1> SUFFICES ASSUME RetrieverInv, NEW k \in Docs PROVE DocLen[k] \in Nat OBVIOUS
<1>1. docs[k] \in Rec BY DEF RetrieverInv, PartsOK, Docs
<1>2. docs[k].content \in Content BY <1>1 DEF Rec
<1> QED BY <1>2, RetrieverAssumption DEF DocLen

\* What Index and Remove take off: the length of the document they replace.
LEMMA LenWithoutIs ==
    ASSUME RetrieverInv, LenOK, NEW j \in Id
    PROVE  /\ LenWithout(j) = SumFunctionOnSet(DocLen, Docs \ {j})
           /\ LenWithout(j) \in Nat /\ IsFiniteSet(Docs \ {j})
<1>1. IsFiniteSet(Docs) /\ IsFiniteSet(Docs \ {j}) BY FS_RemoveElement DEF LenOK
<1>2. \A k \in Docs : DocLen[k] \in Nat BY DocLenNat
<1>3. CASE j \in Docs
  <2>1. SumFunctionOnSet(DocLen, Docs) = DocLen[j] + SumFunctionOnSet(DocLen, Docs \ {j})
    BY <1>1, <1>2, <1>3, SumRemove
  <2>2. SumFunctionOnSet(DocLen, Docs \ {j}) \in Nat BY <1>1, <1>2, SumNat
  <2>3. docs[j] # None /\ DocLen[j] = TokenCount[docs[j].content] BY <1>3 DEF Docs, DocLen
  <2> QED BY <1>1, <1>2, <1>3, <2>1, <2>2, <2>3 DEF LenWithout, LenOK
<1>4. CASE j \notin Docs
  <2>1. Docs \ {j} = Docs BY <1>4
  <2>2. docs[j] = None BY <1>4 DEF Docs
  <2>3. LenWithout(j) = total BY <2>2 DEF LenWithout
  <2> QED BY <1>1, <2>1, <2>3, Zenon DEF LenOK
<1> QED BY <1>3, <1>4

LEMMA LenKeeps ==
    ASSUME RetrieverInv, LenOK, NEW w \in Writer, IndexDoc(w) \/ RemoveDoc(w)
    PROVE  LenOK'
<1> DEFINE j == wr[w].id
           doc == IF Live(wr[w].rec) THEN wr[w].rec ELSE None
           R == Docs \ {j}
           len == DocLen'
<1>1. /\ wr[w].pc = "docs" /\ docs' = [docs EXCEPT ![j] = doc]
      /\ total' = IF Live(wr[w].rec) THEN LenWithout(j) + TokenCount[doc.content] ELSE LenWithout(j)
  BY DEF IndexDoc, RemoveDoc
<1>2. j \in Id /\ doc \in Rec \cup {None} BY <1>1 DEF RetrieverInv, PartsOK
<1>3. \A k \in Id : docs'[k] = IF k = j THEN doc ELSE docs[k] BY <1>1, <1>2 DEF RetrieverInv, PartsOK
<1>4. \A k \in R : k \in Docs' /\ len[k] = DocLen[k] BY <1>3 DEF Docs, DocLen
<1>5. IsFiniteSet(R) /\ LenWithout(j) = SumFunctionOnSet(DocLen, R) /\ LenWithout(j) \in Nat
  BY <1>2, LenWithoutIs
<1>6. SumFunctionOnSet(len, R) = LenWithout(j)
  <2> HIDE DEF R, len
  <2> QED BY <1>4, <1>5, SumSame
<1>7. \A k \in R : len[k] \in Nat BY <1>4, DocLenNat
<1>8. CASE Live(wr[w].rec)
  <2>1. doc # None /\ doc \in Rec BY <1>2, <1>8 DEF Live
  <2>2. Docs' = R \cup {j} BY <1>2, <1>3, <2>1 DEF Docs
  <2>3. len[j] = TokenCount[doc.content] /\ len[j] \in Nat
    BY <1>2, <1>3, <2>1, <2>2, RetrieverAssumption DEF DocLen, Rec
  <2>4. IsFiniteSet(R \cup {j}) BY <1>5, FS_AddElement
  <2>5. SumFunctionOnSet(len, R \cup {j}) = SumFunctionOnSet(len, R) + len[j]
    <3>1. j \notin R OBVIOUS
    <3>2. \A k \in R \cup {j} : len[k] \in Int BY <1>7, <2>3
    <3>3. IsFiniteSet(R) BY <1>5
    <3> HIDE DEF R, len, j
    <3> QED BY <3>1, <3>2, <3>3, SumAdd, Zenon
  <2>6. total' = SumFunctionOnSet(len, R \cup {j}) /\ total' \in Nat
    BY <1>1, <1>5, <1>6, <1>8, <2>3, <2>5
  <2> QED BY <2>2, <2>4, <2>6, Zenon DEF LenOK
<1>9. CASE ~Live(wr[w].rec)
  <2>1. Docs' = R BY <1>2, <1>3, <1>9 DEF Docs
  <2>2. total' = SumFunctionOnSet(len, R) /\ total' \in Nat BY <1>1, <1>5, <1>6, <1>9
  <2> QED BY <1>5, <2>1, <2>2, Zenon DEF LenOK
<1> QED BY <1>8, <1>9

LEMMA LenStep == RetrieverInv /\ LenOK /\ [Next]_vars => LenOK'
<1> SUFFICES ASSUME RetrieverInv, LenOK, [Next]_vars PROVE LenOK' OBVIOUS
<1>1. ASSUME NEW w \in Writer, IndexDoc(w) \/ RemoveDoc(w) PROVE LenOK' BY <1>1, LenKeeps
<1>2. ASSUME UNCHANGED <<docs, total>> PROVE LenOK' BY <1>2 DEF LenOK, Docs, DocLen
<1> QED
  BY <1>1, <1>2 DEF Next, WriterStep, UpsertRecord, TombstoneRecord, RemoveRecord, Change, RemoveAbsent,
     VectorUpsert, VectorRemove, ReaderStep, QuerySnapshot, QuerySearch, QueryHit, QueryEnd, Tick, Finished,
     vars, storeVars

LEMMA LenInit == Init => LenOK
<1> SUFFICES ASSUME Init PROVE LenOK OBVIOUS
<1>1. Docs = {} /\ total = 0 BY DEF Init, Docs
<1> QED BY <1>1, SumEmpty, FS_EmptySet, Zenon DEF LenOK

\* total_doc_len is the sum of the lengths of the documents, whatever overlaps.
THEOREM DocLenStaysExact == Spec => []DocLenExact
<1>1. LenOK => DocLenExact
  <2> SUFFICES ASSUME LenOK PROVE DocLenExact OBVIOUS
  <2>1. DOMAIN DocLen = Docs BY DEF DocLen
  <2>2. total = SumFunction(DocLen) BY <2>1 DEF LenOK, SumFunction
  <2> QED BY <2>2 DEF DocLenExact, DocLen, Docs
<1> QED BY <1>1, LenInit, LenStep, RetrieverInvariant, PTL DEF Spec

-----------------------------------------------------------------------------
(* What a search finds. *)

\* Either all of a small set, or n of it.
LEMMA BestIs ==
    ASSUME NEW S, IsFiniteSet(S), NEW n \in Nat, NEW b \in Best(S, n)
    PROVE  /\ b \subseteq S /\ IsFiniteSet(b) /\ Cardinality(b) \in Nat
           /\ (b = S /\ Cardinality(S) < n) \/ Cardinality(b) = n
<1>1. b \subseteq S /\ Cardinality(b) = IF Cardinality(S) < n THEN Cardinality(S) ELSE n BY DEF Best
<1>2. /\ IsFiniteSet(b) /\ Cardinality(b) \in Nat /\ Cardinality(S) \in Nat
      /\ Cardinality(S) = Cardinality(b) => S = b
  BY <1>1, FS_Subset, FS_CardinalityType
<1> QED BY <1>1, <1>2

LEMMA MaxPair == \A a, b \in Nat : Max({a, b}) \in Nat /\ Max({a, b}) >= a /\ Max({a, b}) >= b
<1> SUFFICES ASSUME NEW a \in Nat, NEW b \in Nat
             PROVE  Max({a, b}) \in Nat /\ Max({a, b}) >= a /\ Max({a, b}) >= b
  OBVIOUS
<1>1. \E x \in {a, b} : \A y \in {a, b} : x >= y
  <2>1. a >= b \/ b >= a OBVIOUS
  <2> QED BY <2>1
<1>2. Max({a, b}) \in {a, b} /\ \A y \in {a, b} : Max({a, b}) >= y BY <1>1 DEF Max
<1> QED BY <1>2

\* The recall limits are at least what the caller can get.
LEMMA RecallAtLeast ==
    ASSUME NEW k \in Nat, NEW q \in QueryInput
    PROVE  TopK(q) \in Nat /\ RecallLimit(k, q) \in Nat /\ RecallLimit(k, q) >= TopK(q)
<1>1. TopK(q) \in Nat BY RetrieverAssumption DEF TopK
<1> DEFINE m == Max({1, Oversample})
<1>2. m \in Nat /\ m >= 1 BY MaxPair, RetrieverAssumption
<1> HIDE DEF m
<1>3. \A t \in Nat : t * m \in Nat /\ t * m >= t BY <1>2
<1>4. TopK(q) * m \in Nat /\ TopK(q) * m >= TopK(q) BY <1>1, <1>3
<1>5. RecallLimit(k, q) \in Nat /\ RecallLimit(k, q) >= TopK(q) * m
  BY <1>4, MaxPair DEF RecallLimit, m
<1> QED BY <1>1, <1>4, <1>5

\* An order of a set is a sequence of its elements, each once.
LEMMA OrderIs ==
    ASSUME NEW S, IsFiniteSet(S), NEW seq \in SetToSeqs(S)
    PROVE  seq \in Seq(S) /\ Len(seq) = Cardinality(S) /\ Range(seq) = S
<1> DEFINE D == 1..Cardinality(S)
<1>1. Cardinality(S) \in Nat BY FS_CardinalityType
<1>2. seq \in [D -> S] /\ \A i, j \in D : i # j => seq[i] # seq[j] BY DEF SetToSeqs
<1>3. seq \in Seq(S) /\ Len(seq) = Cardinality(S) /\ DOMAIN seq = D BY <1>1, <1>2
<1>4. seq \in Injection(D, S) BY <1>2 DEF Injection, IsInjective
<1>5. IsFiniteSet(D) /\ Cardinality(D) = Cardinality(S) BY <1>1, FS_Interval
<1>6. seq \in Surjection(D, S)
  <2> HIDE DEF D
  <2> QED BY <1>4, <1>5, FS_Injection
<1>7. Range(seq) = S BY <1>2, <1>6 DEF Surjection, Range
<1> QED BY <1>3, <1>7

\* The documents of a snapshot that a query may answer, and those it has to.
Shown(snapshot, q) == {k \in Id : snapshot[k] # None /\ PassesFilter(snapshot[k], q)}
Wanted(snapshot, q) == {k \in Shown(snapshot, q) : LexicalScore(snapshot[k], q)}

\* A search answers documents that pass the filter, and all that match unless
\* it is full.
LEMMA SearchIs ==
    ASSUME NEW snapshot, NEW q \in QueryInput,
           IsFiniteSet({k \in Id : snapshot[k] # None}), IsFiniteSet({k \in Id : vecs[k] # None}),
           NEW s \in SparseCandidates(snapshot, q), NEW d \in DenseCandidates(snapshot, q),
           NEW ranked \in Best(s \cup d, TopK(q)), NEW hits \in SetToSeqs(ranked)
    PROVE  /\ hits \in Seq(Id) /\ Range(hits) \subseteq Shown(snapshot, q)
           /\ Len(hits) = TopK(q) \/ Wanted(snapshot, q) \subseteq Range(hits)
<1> DEFINE C == Wanted(snapshot, q)
           L == RecallLimit(SparseK, q)
           M == RecallLimit(DenseK, q)
           V == {k \in Id : vecs[k] # None}
<1>1. IsFiniteSet(C)
  <2>1. C \in SUBSET {k \in Id : snapshot[k] # None} BY DEF Shown, Wanted
  <2> QED BY <2>1, FS_Subset
<1>2. TopK(q) \in Nat /\ L \in Nat /\ L >= TopK(q) /\ M \in Nat
  BY RecallAtLeast, RetrieverAssumption
<1>3. s \in Best(C, L)
  <2>1. C = {k \in Id : /\ snapshot[k] # None /\ PassesFilter(snapshot[k], q)
                        /\ LexicalScore(snapshot[k], q)}
    BY DEF Shown, Wanted
  <2> HIDE DEF C, L
  <2> QED BY <2>1 DEF SparseCandidates, L
<1>4. /\ s \subseteq C /\ IsFiniteSet(s) /\ Cardinality(s) \in Nat
      /\ (s = C /\ Cardinality(C) < L) \/ Cardinality(s) = L
  <2> HIDE DEF C, L
  <2> QED BY <1>1, <1>2, <1>3, BestIs
<1>5. PICK near \in Best(V, M) : d = {k \in near : snapshot[k] # None /\ PassesFilter(snapshot[k], q)}
  BY DEF DenseCandidates
<1>6. near \subseteq V /\ IsFiniteSet(near)
  <2> HIDE DEF V, M
  <2> QED BY <1>2, <1>5, BestIs DEF V
<1>7. d \subseteq Shown(snapshot, q) /\ IsFiniteSet(d)
  <2>1. d \in SUBSET near /\ d \subseteq Shown(snapshot, q) BY <1>5, <1>6 DEF Shown
  <2> QED BY <1>6, <2>1, FS_Subset
<1> DEFINE U == s \cup d
<1>8. IsFiniteSet(U) BY <1>4, <1>7, FS_Union
<1>9. U \subseteq Shown(snapshot, q) BY <1>4, <1>7 DEF Wanted
<1>10. /\ ranked \subseteq U /\ IsFiniteSet(ranked) /\ Cardinality(ranked) \in Nat
       /\ (ranked = U /\ Cardinality(U) < TopK(q)) \/ Cardinality(ranked) = TopK(q)
  <2>1. ranked \in Best(U, TopK(q)) OBVIOUS
  <2> HIDE DEF U
  <2> QED BY <1>2, <1>8, <2>1, BestIs
<1>11. hits \in Seq(ranked) /\ Len(hits) = Cardinality(ranked) /\ Range(hits) = ranked
  BY <1>10, OrderIs
<1>12. hits \in Seq(Id)
  <2>1. ranked \subseteq Id BY <1>9, <1>10 DEF Shown
  <2> QED BY <1>11, <2>1
<1>13. CASE Cardinality(ranked) # TopK(q)
  <2>1. ranked = U /\ Cardinality(U) < TopK(q) BY <1>10, <1>13
  <2>2. Cardinality(s) <= Cardinality(U) /\ Cardinality(U) \in Nat
    <3>1. s \in SUBSET U OBVIOUS
    <3> HIDE DEF U
    <3> QED BY <1>8, <3>1, FS_Subset, FS_CardinalityType
  <2>3. s = C BY <1>2, <1>4, <2>1, <2>2
  <2>4. C \subseteq Range(hits) BY <1>11, <2>1, <2>3
  <2> QED BY <1>9, <1>10, <1>11, <1>12, <2>4
<1> QED BY <1>9, <1>10, <1>11, <1>12, <1>13

-----------------------------------------------------------------------------
(* The readers. *)

Snapshot == [Id -> Doc \cup {None}]
Query == [pc : {"search", "hits", "cut"}, q : QueryInput, snapshot : Snapshot, hits : Seq(Id),
          i : Nat \ {0}, out : Seq(Id), used : Nat, now : 0..MaxNow]

TypesOK ==
    /\ docs \in Snapshot
    /\ \A w \in Writer : wr[w].pc = "idle" => wr[w] = AtRest
    /\ rd \in [Reader -> Query \cup {NoQuery}] /\ touched \in [Reader -> SUBSET Id]

\* What a query x, during which the ids in t changed, knows when records_ is
\* m: the snapshot is finite and, outside t, what records_ holds;
SnapshotOK(x, t, m) ==
    /\ IsFiniteSet({k \in Id : x.snapshot[k] # None})
    /\ \A k \in Id \ t : x.snapshot[k] = IF Live(m[k]) THEN m[k] ELSE None

\* the hits are documents that pass the filter, and all that match unless full;
HitsOK(x) == x.pc # "search" =>
    /\ Range(x.hits) \subseteq Shown(x.snapshot, x.q)
    /\ Len(x.hits) = TopK(x.q) \/ Wanted(x.snapshot, x.q) \subseteq Range(x.hits)

\* the answer so far are hits that have not expired, and no hit before i is
\* missing except those that have.
OutOK(x, t, m) ==
    /\ x.pc = "search" => x.out = <<>> /\ x.i = 1
    /\ \A k \in Range(x.out) : k \in Range(x.hits) /\ (k \in t \/ ~IsExpired(x.snapshot[k], x.now))
    /\ x.pc # "search" => \A j \in DOMAIN x.hits :
          j < x.i => \/ x.hits[j] \in t \cup Range(x.out)
                     \/ (m[x.hits[j]] # None /\ IsExpired(m[x.hits[j]], x.now))

QueryOK(x, t, m) == SnapshotOK(x, t, m) /\ HitsOK(x) /\ OutOK(x, t, m)

ReadersOK == \A r \in Reader : rd[r].pc # "idle" => QueryOK(rd[r], touched[r], recs)

VecsOK == IsFiniteSet({k \in Id : vecs[k] # None})

ReaderInv == RetrieverInv /\ LenOK /\ TypesOK /\ VecsOK /\ ReadersOK

LEMMA QueryIs == TypesOK => \A r \in Reader : IF rd[r].pc = "idle" THEN rd[r] = NoQuery ELSE rd[r] \in Query
BY DEF TypesOK, Query, NoQuery

LEMMA ReaderInit == Init => ReaderInv
<1> SUFFICES ASSUME Init PROVE ReaderInv OBVIOUS
<1>1. RetrieverInv /\ LenOK BY RetrieverInit, LenInit
<1>2. TypesOK BY DEF Init, TypesOK, Snapshot
<1>3. VecsOK
  <2>1. {k \in Id : vecs[k] # None} = {} BY DEF Init
  <2> QED BY <2>1, FS_EmptySet, Zenon DEF VecsOK
<1>4. ReadersOK BY DEF Init, ReadersOK, NoQuery
<1> QED BY <1>1, <1>2, <1>3, <1>4 DEF ReaderInv

\* A query is not disturbed by a change of records_ that its reader notes.
LEMMA QueryOKKept ==
    ASSUME NEW x \in Query, NEW t, NEW t2, t \subseteq t2, NEW m, NEW m2, QueryOK(x, t, m),
           \A k \in Id : k \in t2 \/ m2[k] = m[k]
    PROVE  QueryOK(x, t2, m2)
<1>1. SnapshotOK(x, t2, m2) BY DEF QueryOK, SnapshotOK
<1>2. OutOK(x, t2, m2)
  <2>1. \A j \in DOMAIN x.hits : x.hits[j] \in Id BY DEF Query
  <2> QED BY <2>1 DEF QueryOK, OutOK
<1> QED BY <1>1, <1>2 DEF QueryOK

LEMMA ChangeKeepsReaders ==
    ASSUME ReaderInv, NEW w \in Writer, NEW j \in Id, NEW rec, Change(w, j, rec)
    PROVE  TypesOK' /\ VecsOK' /\ ReadersOK'
<1> USE DEF ReaderInv
<1>1. /\ wr[w].pc = "idle" /\ recs' = [recs EXCEPT ![j] = rec]
      /\ wr' = [wr EXCEPT ![w] = [pc |-> "docs", id |-> j, rec |-> rec]]
      /\ touched' = [r \in Reader |-> IF rd[r].pc = "idle" THEN {} ELSE touched[r] \cup {j}]
      /\ docs' = docs /\ vecs' = vecs /\ rd' = rd
  BY DEF Change
<1>2. \A k \in Id : k # j => recs'[k] = recs[k] BY <1>1 DEF RetrieverInv, PartsOK
<1>3. TypesOK'
  <2>1. \A v \in Writer : wr'[v].pc = "idle" => wr'[v] = AtRest BY <1>1 DEF RetrieverInv, PartsOK, TypesOK
  <2>2. touched' \in [Reader -> SUBSET Id] BY <1>1 DEF TypesOK
  <2> QED BY <1>1, <2>1, <2>2 DEF TypesOK
<1>4. ReadersOK'
  <2> SUFFICES ASSUME NEW r \in Reader, rd[r].pc # "idle" PROVE QueryOK(rd[r], touched'[r], recs')
    BY <1>1 DEF ReadersOK
  <2>1. rd[r] \in Query BY QueryIs
  <2>2. touched'[r] = touched[r] \cup {j} BY <1>1
  <2>3. QueryOK(rd[r], touched[r], recs) BY DEF ReadersOK
  <2> QED BY <1>2, <2>1, <2>2, <2>3, QueryOKKept
<1> QED BY <1>1, <1>3, <1>4 DEF VecsOK

\* The later steps of a change do not reach a query.
LEMMA IndexKeepsReaders ==
    ASSUME ReaderInv, NEW w \in Writer,
           IndexDoc(w) \/ RemoveDoc(w) \/ RemoveAbsent(w) \/ VectorUpsert(w) \/ VectorRemove(w)
    PROVE  TypesOK' /\ VecsOK' /\ ReadersOK'
<1> USE DEF ReaderInv
<1> DEFINE j == wr[w].id
<1>1. /\ UNCHANGED <<recs, rd, touched>> /\ wr[w].pc # "idle"
      /\ wr' = [wr EXCEPT ![w].pc = "vecs"] \/ wr' = [wr EXCEPT ![w] = AtRest]
      /\ docs' = docs \/ docs' = [docs EXCEPT ![j] = None]
         \/ (Live(wr[w].rec) /\ docs' = [docs EXCEPT ![j] = wr[w].rec])
      /\ vecs' = vecs \/ \E v : vecs' = [vecs EXCEPT ![j] = v]
  BY DEF IndexDoc, RemoveDoc, RemoveAbsent, VectorUpsert, VectorRemove
<1>2. j \in Id /\ wr[w].rec \in Rec \cup {None} BY <1>1 DEF RetrieverInv, PartsOK
<1>3. TypesOK'
  <2>1. \A v \in Writer : wr'[v].pc = "idle" => wr'[v] = AtRest
    <3>1. CASE wr' = [wr EXCEPT ![w].pc = "vecs"] BY <3>1 DEF RetrieverInv, PartsOK, TypesOK
    <3>2. CASE wr' = [wr EXCEPT ![w] = AtRest] BY <3>2 DEF RetrieverInv, PartsOK, TypesOK
    <3> QED BY <1>1, <3>1, <3>2
  <2>2. Live(wr[w].rec) => wr[w].rec \in Doc BY <1>2 DEF Live, Doc
  <2>3. docs' \in Snapshot BY <1>1, <1>2, <2>2 DEF TypesOK, Snapshot
  <2> QED BY <1>1, <2>1, <2>3 DEF TypesOK
<1>4. VecsOK'
  <2> DEFINE V == {k \in Id : vecs[k] # None}
  <2>1. {k \in Id : vecs'[k] # None} \in SUBSET (V \cup {j}) BY <1>1, <1>2 DEF RetrieverInv, PartsOK
  <2>2. IsFiniteSet(V \cup {j}) BY FS_AddElement DEF VecsOK
  <2> HIDE DEF V
  <2>3. IsFiniteSet({k \in Id : vecs'[k] # None}) BY <2>1, <2>2, FS_Subset
  <2> QED BY <2>3 DEF VecsOK
<1>5. ReadersOK' BY <1>1 DEF ReadersOK
<1> QED BY <1>3, <1>4, <1>5

\* A step of one reader: it is enough to look at its own query.
LEMMA OneReader ==
    ASSUME ReaderInv, NEW r \in Reader, NEW x \in Query \cup {NoQuery}, NEW t \in SUBSET Id,
           rd' = [rd EXCEPT ![r] = x], touched' = [touched EXCEPT ![r] = t],
           UNCHANGED <<docs, vecs, wr, recs>>, x.pc # "idle" => QueryOK(x, t, recs)
    PROVE  TypesOK' /\ VecsOK' /\ ReadersOK'
<1> USE DEF ReaderInv
<1>1. TypesOK' BY DEF TypesOK
<1>2. VecsOK' BY DEF VecsOK
<1>3. \A s \in Reader : /\ rd'[s] = IF s = r THEN x ELSE rd[s]
                        /\ touched'[s] = IF s = r THEN t ELSE touched[s]
  BY DEF TypesOK
<1>4. ReadersOK' BY <1>3 DEF ReadersOK
<1> QED BY <1>1, <1>2, <1>4

\* A query takes its snapshot: what it does not note as touched agrees.
LEMMA SnapshotKeeps ==
    ASSUME ReaderInv, NEW r \in Reader, QuerySnapshot(r)
    PROVE  TypesOK' /\ VecsOK' /\ ReadersOK'
<1> USE DEF ReaderInv
<1>1. PICK q \in QueryInput :
        /\ rd' = [rd EXCEPT ![r] = [NoQuery EXCEPT !.pc = "search", !.q = q, !.snapshot = docs]]
        /\ touched' = [touched EXCEPT ![r] = InWork \cup dirty]
        /\ UNCHANGED <<docs, vecs, wr, recs>>
  BY DEF QuerySnapshot, storeVars
<1> DEFINE x == [NoQuery EXCEPT !.pc = "search", !.q = q, !.snapshot = docs]
           t == InWork \cup dirty
<1>2. /\ x.pc = "search" /\ x.q = q /\ x.snapshot = docs /\ x.hits = <<>> /\ x.i = 1 /\ x.out = <<>>
  BY DEF NoQuery
<1>3. x \in Query
  <2>1. NoQuery \in [pc : {"idle"}, q : {None}, snapshot : {None}, hits : Seq(Id), i : Nat \ {0}, out : Seq(Id),
                    used : Nat, now : 0..MaxNow]
    BY RetrieverAssumption DEF NoQuery
  <2> HIDE DEF NoQuery
  <2> QED BY <2>1 DEF Query, TypesOK
<1>4. t \in SUBSET Id BY InWorkIs DEF RetrieverInv, PartsOK, Working
<1>5. SnapshotOK(x, t, recs)
  <2>1. \A k \in Id \ t : Agrees(k) BY InWorkIs DEF RetrieverInv, Rested
  <2>2. IsFiniteSet({k \in Id : docs[k] # None}) BY DEF LenOK, Docs
  <2> QED BY <1>2, <2>1, <2>2 DEF SnapshotOK, Agrees
<1>6. HitsOK(x) BY <1>2 DEF HitsOK
<1>7. OutOK(x, t, recs)
  <2> HIDE DEF x
  <2>1. Range(x.out) = {} BY <1>2 DEF Range
  <2> QED BY <1>2, <2>1 DEF OutOK
<1> HIDE DEF x, t
<1> QED BY <1>1, <1>3, <1>4, <1>5, <1>6, <1>7, OneReader DEF QueryOK, x, t

\* The search, on the snapshot and the vectors of the moment.
LEMMA SearchKeeps ==
    ASSUME ReaderInv, NEW r \in Reader, QuerySearch(r)
    PROVE  TypesOK' /\ VecsOK' /\ ReadersOK'
<1> USE DEF ReaderInv
<1> DEFINE y == rd[r]
           t == touched[r]
<1>1. y.pc = "search" /\ UNCHANGED <<docs, vecs, wr, recs, touched>> BY DEF QuerySearch, storeVars
<1>2. y \in Query /\ QueryOK(y, t, recs) /\ t \in SUBSET Id
  BY <1>1, QueryIs DEF ReadersOK, TypesOK
<1>3. PICK s \in SparseCandidates(y.snapshot, y.q), d \in DenseCandidates(y.snapshot, y.q) :
        \E ranked \in Best(s \cup d, TopK(y.q)) : \E hits \in SetToSeqs(ranked) :
           rd' = [rd EXCEPT ![r].pc = "hits", ![r].hits = hits, ![r].now = now]
  BY DEF QuerySearch
<1>4. PICK ranked \in Best(s \cup d, TopK(y.q)) : \E hits \in SetToSeqs(ranked) :
           rd' = [rd EXCEPT ![r].pc = "hits", ![r].hits = hits, ![r].now = now]
  BY <1>3
<1>5. PICK hits \in SetToSeqs(ranked) :
           rd' = [rd EXCEPT ![r].pc = "hits", ![r].hits = hits, ![r].now = now]
  BY <1>4
<1>6. /\ hits \in Seq(Id) /\ Range(hits) \subseteq Shown(y.snapshot, y.q)
      /\ Len(hits) = TopK(y.q) \/ Wanted(y.snapshot, y.q) \subseteq Range(hits)
  <2>1. /\ IsFiniteSet({k \in Id : y.snapshot[k] # None}) /\ IsFiniteSet({k \in Id : vecs[k] # None})
        /\ y.q \in QueryInput
    BY <1>2 DEF QueryOK, SnapshotOK, VecsOK, Query
  <2> HIDE DEF y
  <2> QED BY <1>3, <1>4, <1>5, <2>1, SearchIs
<1> DEFINE x == [y EXCEPT !.pc = "hits", !.hits = hits, !.now = now]
<1>7. rd' = [rd EXCEPT ![r] = x] BY <1>5 DEF TypesOK
<1>8. /\ x.pc = "hits" /\ x.hits = hits /\ x.snapshot = y.snapshot /\ x.q = y.q
      /\ x.i = 1 /\ x.out = <<>> /\ x \in Query
  <2>1. now \in 0..MaxNow BY DEF RetrieverInv, PartsOK
  <2> QED BY <1>1, <1>2, <1>6, <2>1 DEF Query, QueryOK, OutOK
<1>9. QueryOK(x, t, recs)
  <2> HIDE DEF x, y
  <2>1. SnapshotOK(x, t, recs) BY <1>2, <1>8 DEF QueryOK, SnapshotOK
  <2>2. HitsOK(x) BY <1>6, <1>8 DEF HitsOK
  <2>3. \A j \in DOMAIN x.hits : ~(j < 1) BY <1>6, <1>8
  <2>4. OutOK(x, t, recs) BY <1>8, <2>3 DEF OutOK, Range
  <2> QED BY <2>1, <2>2, <2>4 DEF QueryOK
<1>10. touched' = [touched EXCEPT ![r] = t] BY <1>1 DEF TypesOK
<1> HIDE DEF x, y, t
<1> QED BY <1>1, <1>2, <1>7, <1>8, <1>9, <1>10, OneReader

LEMMA AppendRange ==
    ASSUME NEW S, NEW seq \in Seq(S), NEW e \in S
    PROVE  Range(Append(seq, e)) = Range(seq) \cup {e}
<1> DEFINE a == Append(seq, e)
<1>1. /\ DOMAIN a = 1..(Len(seq) + 1) /\ DOMAIN seq = 1..Len(seq) /\ Len(seq) \in Nat
      /\ \A i \in 1..Len(seq) : a[i] = seq[i]
      /\ a[Len(seq) + 1] = e
  OBVIOUS
<1> HIDE DEF a
<1>2. \A i \in 1..(Len(seq) + 1) : i \in 1..Len(seq) \/ i = Len(seq) + 1 BY <1>1
<1>3. \A i \in 1..Len(seq) : i \in 1..(Len(seq) + 1) BY <1>1
<1>4. Len(seq) + 1 \in 1..(Len(seq) + 1) BY <1>1
<1>5. Range(a) = Range(seq) \cup {e} BY <1>1, <1>2, <1>3, <1>4 DEF Range
<1> QED BY <1>5 DEF a

\* One hit is looked at: answered, skipped as expired, or the list is cut.
LEMMA HitKeeps ==
    ASSUME ReaderInv, NEW r \in Reader, QueryHit(r)
    PROVE  TypesOK' /\ VecsOK' /\ ReadersOK'
<1> USE DEF ReaderInv
<1> DEFINE y == rd[r]
           t == touched[r]
           k == y.hits[y.i]
           used == y.used + TokenCount[y.snapshot[k].content]
           skipped == [y EXCEPT !.i = @ + 1]
           answered == [y EXCEPT !.i = @ + 1, !.used = used, !.out = Append(@, k)]
           next == IF Hidden(k, y.now) THEN skipped ELSE answered
<1>1. y.pc = "hits" /\ y.i <= Len(y.hits) /\ UNCHANGED <<docs, vecs, wr, recs, touched>>
  BY DEF QueryHit, storeVars
<1>2. y \in Query /\ QueryOK(y, t, recs) /\ t \in SUBSET Id
  BY <1>1, QueryIs DEF ReadersOK, TypesOK
<1>3. /\ y.hits \in Seq(Id) /\ y.i \in Nat \ {0} /\ y.out \in Seq(Id) /\ y.used \in Nat
      /\ y.snapshot \in Snapshot /\ y.q \in QueryInput /\ y.now \in 0..MaxNow
  BY <1>2 DEF Query
<1>4. touched' = [touched EXCEPT ![r] = t] BY <1>1 DEF TypesOK
<1>5. CASE rd' = [rd EXCEPT ![r].pc = "cut"]
  <2> DEFINE x == [y EXCEPT !.pc = "cut"]
  <2>1. rd' = [rd EXCEPT ![r] = x] BY <1>5 DEF TypesOK
  <2>2. /\ x \in Query /\ x.pc = "cut" /\ x.hits = y.hits /\ x.snapshot = y.snapshot /\ x.q = y.q
        /\ x.i = y.i /\ x.out = y.out /\ x.now = y.now
    BY <1>2 DEF Query
  <2>3. QueryOK(x, t, recs)
    <3> HIDE DEF x, y, t
    <3> QED BY <1>1, <1>2, <2>2 DEF QueryOK, SnapshotOK, HitsOK, OutOK
  <2> HIDE DEF x, y, t
  <2> QED BY <1>1, <1>2, <1>4, <2>1, <2>2, <2>3, OneReader
<1>6. CASE rd' = [rd EXCEPT ![r] = next]
  <2>1. y.i \in DOMAIN y.hits BY <1>1, <1>3
  <2>2. k \in Id /\ k \in Range(y.hits)
    <3> HIDE DEF y
    <3> QED BY <1>3, <2>1 DEF Range
  <2>3. y.snapshot[k] \in Doc
    <3>1. y.snapshot[k] # None BY <1>1, <1>2, <2>2 DEF QueryOK, HitsOK, Shown
    <3> QED BY <1>3, <2>2, <3>1 DEF Snapshot
  <2>4. used \in Nat
    <3>1. y.snapshot[k].content \in Content BY <2>3 DEF Doc, Rec
    <3>2. TokenCount[y.snapshot[k].content] \in Nat BY <3>1, RetrieverAssumption
    <3> HIDE DEF y, k
    <3> QED BY <1>3, <3>2
  <2>5. \A j \in DOMAIN y.hits : j < y.i + 1 => j < y.i \/ j = y.i BY <1>3
  <2>6. rd' = [rd EXCEPT ![r] = next] BY <1>6
  <2>7. CASE Hidden(k, y.now)
    <3> DEFINE x == skipped
    <3>1. rd' = [rd EXCEPT ![r] = x]
      <4>1. next = x BY <2>7
      <4> HIDE DEF next, x
      <4> QED BY <2>6, <4>1
    <3>2. /\ x \in Query /\ x.pc = "hits" /\ x.hits = y.hits /\ x.snapshot = y.snapshot /\ x.q = y.q
          /\ x.i = y.i + 1 /\ x.out = y.out /\ x.now = y.now
      BY <1>1, <1>2, SMTT(30) DEF Query
    <3>3. SnapshotOK(x, t, recs) /\ HitsOK(x) /\ OutOK(x, t, recs)
      <4> HIDE DEF x, y, t
      <4>1. SnapshotOK(x, t, recs) /\ HitsOK(x) BY <1>1, <1>2, <3>2 DEF QueryOK, SnapshotOK, HitsOK
      <4>2. OutOK(x, t, recs) BY <1>1, <1>2, <2>5, <2>7, <3>2 DEF QueryOK, OutOK, Hidden
      <4> QED BY <4>1, <4>2
    <3> HIDE DEF x, y, t
    <3> QED BY <1>1, <1>2, <1>4, <3>1, <3>2, <3>3, OneReader DEF QueryOK
  <2>8. CASE ~Hidden(k, y.now)
    <3> DEFINE x == answered
    <3>1. rd' = [rd EXCEPT ![r] = x]
      <4>1. next = x BY <2>8
      <4> HIDE DEF next, x
      <4> QED BY <2>6, <4>1
    <3>2. /\ x \in Query /\ x.pc = "hits" /\ x.hits = y.hits /\ x.snapshot = y.snapshot /\ x.q = y.q
          /\ x.i = y.i + 1 /\ x.out = Append(y.out, k) /\ x.now = y.now
      <4> DEFINE out == Append(y.out, k)
                 i == y.i + 1
      <4>1. x = [y EXCEPT !.i = i, !.used = used, !.out = out] OBVIOUS
      <4>2. out \in Seq(Id) /\ i \in Nat \ {0}
        <5> HIDE DEF y, k
        <5> QED BY <1>3, <2>2
      <4> HIDE DEF used, k, x, y, out, i
      <4>3. /\ x \in Query /\ x.pc = y.pc /\ x.hits = y.hits /\ x.snapshot = y.snapshot /\ x.q = y.q
            /\ x.i = i /\ x.out = out /\ x.now = y.now
        BY <1>2, <2>4, <4>1, <4>2 DEF Query
      <4> QED BY <1>1, <4>3 DEF out, i
    <3>3. Range(x.out) = Range(y.out) \cup {k}
      <4> HIDE DEF x, y, k
      <4> QED BY <1>3, <2>2, <3>2, AppendRange
    <3>4. k \in t \/ ~IsExpired(y.snapshot[k], y.now)
      BY <1>2, <2>2, <2>3, <2>8, RetrieverAssumption DEF QueryOK, SnapshotOK, Hidden, Doc
    <3>5. SnapshotOK(x, t, recs) /\ HitsOK(x) /\ OutOK(x, t, recs)
      <4>1. k = y.hits[y.i] OBVIOUS
      <4> HIDE DEF x, y, t, k
      <4>2. SnapshotOK(x, t, recs) /\ HitsOK(x) BY <1>1, <1>2, <3>2 DEF QueryOK, SnapshotOK, HitsOK
      <4>3. OutOK(x, t, recs) BY <1>1, <1>2, <2>2, <2>5, <3>2, <3>3, <3>4, <4>1 DEF QueryOK, OutOK
      <4> QED BY <4>2, <4>3
    <3> HIDE DEF x, y, t
    <3> QED BY <1>1, <1>2, <1>4, <3>1, <3>2, <3>5, OneReader DEF QueryOK
  <2> QED BY <2>7, <2>8
<1> QED BY <1>5, <1>6 DEF QueryHit

LEMMA ReaderStepKeeps == ReaderInv /\ [Next]_vars => ReaderInv'
<1> SUFFICES ASSUME ReaderInv, [Next]_vars PROVE ReaderInv' OBVIOUS
<1> USE DEF ReaderInv
<1>1. RetrieverInv' /\ LenOK' BY RetrieverStep, LenStep
<1> SUFFICES TypesOK' /\ VecsOK' /\ ReadersOK' BY <1>1
<1>2. ASSUME NEW w \in Writer, UpsertRecord(w) \/ TombstoneRecord(w) \/ RemoveRecord(w)
      PROVE  TypesOK' /\ VecsOK' /\ ReadersOK'
  BY <1>2, ChangeKeepsReaders DEF UpsertRecord, TombstoneRecord, RemoveRecord
<1>3. ASSUME NEW w \in Writer,
             IndexDoc(w) \/ RemoveDoc(w) \/ RemoveAbsent(w) \/ VectorUpsert(w) \/ VectorRemove(w)
      PROVE  TypesOK' /\ VecsOK' /\ ReadersOK'
  BY <1>3, IndexKeepsReaders
<1>4. ASSUME NEW r \in Reader, QueryEnd(r) PROVE TypesOK' /\ VecsOK' /\ ReadersOK'
  <2>1. /\ rd' = [rd EXCEPT ![r] = NoQuery] /\ touched' = [touched EXCEPT ![r] = {}]
        /\ UNCHANGED <<docs, vecs, wr, recs>>
    BY <1>4 DEF QueryEnd, storeVars
  <2>2. NoQuery \in Query \cup {NoQuery} /\ NoQuery.pc = "idle" /\ {} \in SUBSET Id BY DEF NoQuery
  <2> QED BY <2>1, <2>2, OneReader
<1>5. ASSUME UNCHANGED <<recs, docs, vecs, wr, rd, touched>> PROVE TypesOK' /\ VecsOK' /\ ReadersOK'
  BY <1>5 DEF TypesOK, VecsOK, ReadersOK
<1>6. CASE Tick \/ Finished \/ UNCHANGED vars BY <1>5, <1>6 DEF Tick, Finished, vars, storeVars
<1> QED BY <1>2, <1>3, <1>4, <1>6, SnapshotKeeps, SearchKeeps, HitKeeps DEF Next, WriterStep, ReaderStep

\* The inductive invariant of the queries, with that of the changes: what a
\* query holds about the records that did not change since its snapshot.
THEOREM QueryInvariant == Spec => []ReaderInv
<1> QED BY ReaderInit, ReaderStepKeeps, PTL DEF Spec

\* The types; no tombstone is a document and no length is negative.
THEOREM RetrieverTypeCorrect == Spec => []RetrieverTypeOK
<1>1. ReaderInv => RetrieverTypeOK
  <2> SUFFICES ASSUME ReaderInv PROVE RetrieverTypeOK OBVIOUS
  <2> USE DEF ReaderInv
  <2>1. \A w \in Writer : wr[w] = AtRest \/ (wr[w].pc \in {"docs", "vecs"} /\ wr[w].id \in Id
                                             /\ wr[w].rec \in Rec \cup {None})
    BY DEF RetrieverInv, PartsOK, TypesOK
  <2>2. \A r \in Reader : rd[r] = NoQuery \/ (rd[r].pc \in {"search", "hits", "cut"} /\ rd[r].q \in QueryInput
                                              /\ rd[r].snapshot \in [Id -> Doc \cup {None}]
                                              /\ rd[r].hits \in Seq(Id) /\ rd[r].out \in Seq(Id))
    BY QueryIs DEF Query, Snapshot
  <2> QED BY <2>1, <2>2 DEF RetrieverTypeOK, RetrieverInv, PartsOK, TypesOK, LenOK, Snapshot
<1> QED BY <1>1, QueryInvariant, PTL

\* A hit whose record did not change since the snapshot is its present
\* version, live, and passes the filter.
THEOREM HitsStayCurrent == Spec => []HitsAreCurrent
<1>1. ReaderInv => HitsAreCurrent
  <2> SUFFICES ASSUME ReaderInv, NEW r \in Reader, rd[r].pc \in {"hits", "cut"},
                      NEW k \in Range(rd[r].hits) \ touched[r]
               PROVE  rd[r].snapshot[k] = recs[k] /\ PassesFilter(recs[k], rd[r].q)
    BY DEF HitsAreCurrent
  <2>1. QueryOK(rd[r], touched[r], recs) BY DEF ReaderInv, ReadersOK
  <2> QED BY <2>1 DEF QueryOK, HitsOK, SnapshotOK, Shown
<1> QED BY <1>1, QueryInvariant, PTL

\* A query answers an expired record only if the record changed meanwhile.
THEOREM ExpiredStayHidden == Spec => []ExpiredHidden
<1>1. ReaderInv => ExpiredHidden
  <2> SUFFICES ASSUME ReaderInv, NEW r \in Reader, NEW k \in Range(rd[r].out) \ touched[r]
               PROVE  ~IsExpired(rd[r].snapshot[k], rd[r].now)
    BY DEF ExpiredHidden
  <2>1. rd[r].pc # "idle"
    <3>1. Range(NoQuery.out) = {} BY DEF NoQuery, Range
    <3> QED BY <3>1, QueryIs DEF ReaderInv
  <2>2. QueryOK(rd[r], touched[r], recs) BY <2>1 DEF ReaderInv, ReadersOK
  <2> QED BY <2>2 DEF QueryOK, OutOK
<1> QED BY <1>1, QueryInvariant, PTL

\* A query that ran to its end and is not full has every live record that
\* matches, passes the filter, has not expired and did not change meanwhile.
THEOREM RecallStaysComplete == Spec => []RecallComplete
<1>1. ReaderInv => RecallComplete
  <2> SUFFICES ASSUME ReaderInv, NEW r \in Reader, rd[r].pc = "hits", rd[r].i > Len(rd[r].hits),
                      Len(rd[r].hits) # TopK(rd[r].q), NEW k \in Id \ touched[r],
                      Live(recs[k]), ~IsExpired(recs[k], rd[r].now),
                      PassesFilter(recs[k], rd[r].q), LexicalScore(recs[k], rd[r].q)
               PROVE  k \in Range(rd[r].out)
    BY DEF RecallComplete
  <2> DEFINE x == rd[r]
  <2>1. QueryOK(x, touched[r], recs) /\ x \in Query BY QueryIs DEF ReaderInv, ReadersOK
  <2>2. k \in Wanted(x.snapshot, x.q) BY <2>1 DEF QueryOK, SnapshotOK, Live, Wanted, Shown
  <2>3. k \in Range(x.hits) BY <2>1, <2>2 DEF QueryOK, HitsOK
  <2>4. PICK j \in DOMAIN x.hits : x.hits[j] = k BY <2>3 DEF Range
  <2>5. j < x.i BY <2>1, <2>4 DEF Query
  <2> QED BY <2>1, <2>4, <2>5 DEF QueryOK, OutOK
<1> QED BY <1>1, QueryInvariant, PTL
=============================================================================
