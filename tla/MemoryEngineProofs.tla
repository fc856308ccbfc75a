------------------------- MODULE MemoryEngineProofs -------------------------
(* Theorems about MemoryEngine, for every value of its constants: types, the *)
(* budget of resident bytes, the event log, and the course of the threads.   *)
EXTENDS MemoryEngineProps, SumTheorems, TLAPS

-----------------------------------------------------------------------------
(* Typing lemmas about the operators of the model *)

\* Replacing the locals of one thread by well-typed locals keeps all of them
\* well-typed.
LEMMA LocalStep ==
    ASSUME ThreadsOK, NEW t \in Thread, NEW s \in LocalState, LocalOK(s),
           th' = [th EXCEPT ![t] = s]
    PROVE  ThreadsOK'
BY DEF ThreadsOK

\* The locals of a thread without a request are well-typed.
LEMMA IdleType == Idle \in LocalState /\ LocalOK(Idle)
BY DEF Idle, LocalState, LocalOK, PC, NoRecords, NoCkpts, MaybeRec, EmptyBatch, Batch

\* Appending the rows of a record to a batch gives a batch.
LEMMA AppendType ==
    ASSUME NEW bt \in Batch, NEW k \in Key, NEW row \in MaybeRec \cup {Gone}, NEW e \in Event
    PROVE  AppendRows(bt, k, row, e) \in Batch
BY AuxAssumption DEF AppendRows, Batch, Event, Pos, EventPos

\* AppendProjectionEvent makes an event of a record.
LEMMA MakeEventType ==
    ASSUME NEW r \in Rec, NEW now \in Nat, NEW seq \in Nat
    PROVE  MakeEvent(r, now, seq) \in Event
BY KeyAssumption DEF MakeEvent, Event, Rec, Max2

\* Charges are natural numbers.
LEMMA ChargeType == \A r \in Rec : EstimateResidentCharge(r) \in Nat
BY SizeAssumption DEF EstimateResidentCharge, Rec

\* The counter of resident bytes never leaves the naturals.
LEMMA AddUsedType == ASSUME used \in Nat, NEW d \in Int PROVE AddUsed(d) \in Nat
BY LimitAssumption DEF AddUsed

\* The numbers pin governance works with are natural numbers.
LEMMA PinStatsType ==
    ASSUME NEW w
    PROVE  /\ Cardinality(ActiveKeys(records, w)) \in Nat
           /\ Cardinality(PinnedKeys(records, w)) \in Nat
<1>1. ActiveKeys(records, w) \subseteq Key /\ PinnedKeys(records, w) \subseteq Key
  BY DEF ActiveKeys, PinnedKeys
<1> QED BY <1>1, KeyAssumption, FS_Subset, FS_CardinalityType

\* Where a thread goes on after its upserts is a program point, and it is the
\* upsert loop only if there is one left.
LEMMA AfterUpsertType ==
    ASSUME NEW op, NEW u
    PROVE  /\ AfterUpsert(op, u) \in {"map", "unmap", "route", "load", "replay", "enforce"}
           /\ AfterUpsert(op, u) = "map" => u # <<>>
BY DEF AfterUpsert

\* What is left of a batch is a batch, and committing a part of one keeps the
\* store well-typed.
LEMMA CommitTypes ==
    ASSUME SharedOK, NEW bt \in Batch, NEW p
    PROVE  /\ WithoutPid(bt, p) \in Batch
           /\ DocsAfter(bt, p) \in [Key -> MaybeRec]
           /\ EventsAfter(bt, p) \subseteq Event
           /\ CkptAfter(bt, p) \in [Workspace -> EventPos \cup {None}]
<1>1. WithoutPid(bt, p) \in Batch BY DEF WithoutPid, Batch, MaybeRec
<1>2. DocsAfter(bt, p) \in [Key -> MaybeRec]
  BY DEF DocsAfter, Batch, MaybeRec, SharedOK
<1>3. EventsAfter(bt, p) \subseteq Event BY DEF EventsAfter, Batch, SharedOK
<1>4. CkptAfter(bt, p) \in [Workspace -> EventPos \cup {None}]
  BY DEF CkptAfter, Batch, SharedOK
<1> QED BY <1>1, <1>2, <1>3, <1>4

-----------------------------------------------------------------------------
(* Type correctness, by groups of actions *)

\* Accepting a request keeps the types.
LEMMA StartType ==
    ASSUME TypeOK, NEW t \in Thread, WriteStart(t) \/ PinStart(t) \/ CompactStart(t)
    PROVE  TypeOK'
<1> USE DEF TypeOK
<1>1. CASE WriteStart(t)
  <2>1. PICK w \in Workspace, append \in AppendModes :
          th' = [th EXCEPT ![t] =
                  [Idle EXCEPT !.pc = "build", !.op = "write", !.scope = {w},
                               !.now = clock, !.flag = append,
                               !.active = Cardinality(ActiveKeys(records, w)),
                               !.pinned = Cardinality(PinnedKeys(records, w))]]
    BY <1>1 DEF WriteStart, Become
  <2> DEFINE s == [Idle EXCEPT !.pc = "build", !.op = "write", !.scope = {w},
                               !.now = clock, !.flag = append,
                               !.active = Cardinality(ActiveKeys(records, w)),
                               !.pinned = Cardinality(PinnedKeys(records, w))]
  <2>2. append \in BOOLEAN BY OptionAssumption
  <2>3. s \in LocalState BY <2>2, IdleType, PinStatsType DEF LocalState, SharedOK, PC
  <2>4. LocalOK(s) BY IdleType DEF LocalState, LocalOK
  <2>5. ThreadsOK' BY <2>1, <2>3, <2>4, LocalStep
  <2>6. UNCHANGED <<memVars, storeVars, procVars, histVars, clock, boot>> /\ reqs' = reqs + 1
    BY <1>1 DEF WriteStart, Accept
  <2>7. reqs' \in Nat BY <2>6 DEF SharedOK
  <2>8. SharedOK'
    BY <2>6, <2>7 DEF SharedOK, memVars, storeVars, procVars, histVars
  <2> QED BY <2>5, <2>8
<1>2. CASE PinStart(t)
  <2>1. PICK k \in Key, pin \in BOOLEAN :
          th' = [th EXCEPT ![t] =
                  [Idle EXCEPT !.op = "pin", !.key = k, !.flag = pin,
                               !.pc = IF records[k] # None THEN "check" ELSE "get",
                               !.snap = [@ EXCEPT ![k] = records[k]]]]
    BY <1>2 DEF PinStart, Become
  <2> DEFINE sn == [Idle.snap EXCEPT ![k] = records[k]]
             s == [Idle EXCEPT !.op = "pin", !.key = k, !.flag = pin,
                               !.pc = IF records[k] # None THEN "check" ELSE "get",
                               !.snap = sn]
  <2>2. sn \in [Key -> MaybeRec] /\ sn[k] = records[k]
    BY IdleType DEF LocalState, SharedOK, MaybeRec
  <2>3. s \in LocalState /\ s.snap = sn BY <2>2, IdleType, ZenonT(60) DEF LocalState, PC
  <2>4. LocalOK(s) BY <2>2, <2>3, IdleType DEF LocalState, LocalOK, SharedOK, MaybeRec
  <2>5. ThreadsOK' BY <2>1, <2>3, <2>4, LocalStep
  <2>6. UNCHANGED <<memVars, storeVars, procVars, histVars, clock, boot>> /\ reqs' = reqs + 1
    BY <1>2 DEF PinStart, Accept
  <2>7. reqs' \in Nat BY <2>6 DEF SharedOK
  <2>8. SharedOK'
    BY <2>6, <2>7 DEF SharedOK, memVars, storeVars, procVars, histVars
  <2> QED BY <2>5, <2>8
<1>3. CASE CompactStart(t)
  <2>1. PICK scope \in {{w} : w \in Workspace} \cup {Workspace} :
          th' = [th EXCEPT ![t] =
                  [Idle EXCEPT !.pc = "build", !.op = "compact", !.scope = scope, !.now = clock,
                     !.snap = [k \in Key |-> IF WsOf[k] \in scope THEN records[k] ELSE None]]]
    BY <1>3 DEF CompactStart, Become
  <2> DEFINE sn == [k \in Key |-> IF WsOf[k] \in scope THEN records[k] ELSE None]
             s == [Idle EXCEPT !.pc = "build", !.op = "compact", !.scope = scope, !.now = clock,
                     !.snap = sn]
  <2>2. sn \in [Key -> MaybeRec] /\ scope \subseteq Workspace BY DEF SharedOK, MaybeRec
  <2>3. s \in LocalState BY <2>2, IdleType DEF LocalState, PC, SharedOK
  <2>4. LocalOK(s) BY IdleType DEF LocalState, LocalOK
  <2>5. ThreadsOK' BY <2>1, <2>3, <2>4, LocalStep
  <2>6. UNCHANGED <<memVars, storeVars, procVars, histVars, clock, boot>> /\ reqs' = reqs + 1
    BY <1>3 DEF CompactStart, Accept
  <2>7. reqs' \in Nat BY <2>6 DEF SharedOK
  <2>8. SharedOK'
    BY <2>6, <2>7 DEF SharedOK, memVars, storeVars, procVars, histVars
  <2> QED BY <2>5, <2>8
<1> QED BY <1>1, <1>2, <1>3

\* Building the batch of a Write keeps the types.
LEMMA WriteType ==
    ASSUME TypeOK, NEW t \in Thread, WriteDedup(t) \/ WriteRecord(t) \/ WriteBuilt(t)
    PROVE  TypeOK'
<1> USE DEF TypeOK
<1> DEFINE s == th[t]
<1>0. s \in LocalState /\ LocalOK(s) BY DEF ThreadsOK
<1>1. CASE WriteDedup(t)
  <2> DEFINE m == s.n + 1
             new == [s EXCEPT !.n = m]
  <2>1. th' = [th EXCEPT ![t] = new] BY <1>1 DEF WriteDedup, Become
  <2>2. new \in LocalState
    <3>1. m \in Nat BY <1>0 DEF LocalState
    <3> HIDE DEF m
    <3> QED BY <1>0, <3>1 DEF LocalState
  <2>3. LocalOK(new)
    <3>1. new.pc = "build" BY <1>0, <1>1 DEF WriteDedup, LocalState
    <3> QED BY <3>1 DEF LocalOK
  <2>4. ThreadsOK' BY <2>1, <2>2, <2>3, LocalStep
  <2>5. UNCHANGED <<memVars, storeVars, procVars, histVars, envVars>> BY <1>1 DEF WriteDedup
  <2> QED BY <2>4, <2>5 DEF SharedOK, memVars, storeVars, procVars, histVars, envVars
<1>2. CASE WriteRecord(t)
  <2>1. PICK k \in Key, v \in Val, d \in DedupKey \cup {NoDedup}, p \in BOOLEAN :
          AddRecord(t, k, v, d, p)
    BY <1>2 DEF WriteRecord
  <2> DEFINE r == [key |-> k, val |-> v, dedup |-> d, pinned |-> p, tomb |-> FALSE,
                   upd |-> s.now, ver |-> 1]
             e == MakeEvent(r, clock, local_seq + 1)
             bt == AppendRows(s.batch, k, r, e)
             up == Append(s.upserts, r)
             m == s.n + 1
             act == s.active + 1
             pin == IF p THEN s.pinned + 1 ELSE s.pinned
             new == [s EXCEPT !.n = m, !.active = act, !.pinned = pin, !.batch = bt,
                              !.evs = @ \cup {e}, !.upserts = up]
  <2>2. r \in Rec BY <1>0 DEF LocalState, Rec
  <2>3. e \in Event BY <2>2, MakeEventType DEF SharedOK
  <2>4. bt \in Batch
    <3>1. s.batch \in Batch /\ r \in MaybeRec \cup {Gone} BY <1>0, <2>2 DEF LocalState, MaybeRec
    <3> HIDE DEF r, e
    <3> QED BY <3>1, <2>3, AppendType
  <2>5. s.pc = "build" /\ th' = [th EXCEPT ![t] = new] BY <2>1 DEF AddRecord, Become
  <2>6. new \in LocalState /\ new.pc = s.pc
    <3>1. up \in Seq(Rec) BY <1>0, <2>2 DEF LocalState
    <3>2. m \in Nat /\ act \in Nat /\ pin \in Nat BY <1>0, SMTT(30) DEF LocalState
    <3> HIDE DEF r, e, bt, up, m, act, pin
    <3> QED BY <1>0, <2>3, <2>4, <3>1, <3>2 DEF LocalState
  <2>7. ThreadsOK'
    <3>1. LocalOK(new) BY <2>5, <2>6 DEF LocalOK
    <3> HIDE DEF new
    <3> QED BY <2>5, <2>6, <3>1, LocalStep
  <2>8. UNCHANGED <<memVars, storeVars, capacity_blocked, ready, histVars, envVars>>
        /\ local_seq' = local_seq + 1
    BY <2>1 DEF AddRecord
  <2>9. local_seq' \in Nat BY <2>8 DEF SharedOK
  <2> QED BY <2>7, <2>8, <2>9 DEF SharedOK, memVars, storeVars, histVars, envVars
<1>3. CASE WriteBuilt(t)
  <2> DEFINE new == IF s.batch = EmptyBatch THEN Idle ELSE [s EXCEPT !.pc = "commit"]
  <2>1. th' = [th EXCEPT ![t] = new] BY <1>3 DEF WriteBuilt, Become
  <2>2. new \in LocalState BY <1>0, IdleType, ZenonT(60) DEF LocalState, PC
  <2>3. LocalOK(new) BY <1>0, IdleType DEF LocalState, LocalOK
  <2>4. ThreadsOK' BY <2>1, <2>2, <2>3, LocalStep
  <2>5. UNCHANGED <<memVars, storeVars, procVars, histVars, envVars>> BY <1>3 DEF WriteBuilt
  <2> QED BY <2>4, <2>5 DEF SharedOK, memVars, storeVars, procVars, histVars, envVars
<1> QED BY <1>1, <1>2, <1>3

\* Loading, checking and building a Pin keeps the types.
LEMMA PinType ==
    ASSUME TypeOK, NEW t \in Thread, PinGet(t) \/ PinCheck(t)
    PROVE  TypeOK'
<1> USE DEF TypeOK
<1> DEFINE s == th[t]
<1>0. s \in LocalState /\ LocalOK(s) BY DEF ThreadsOK
<1>1. CASE PinGet(t)
  <2>1. s.key \in Key BY <1>0, <1>1 DEF LocalOK, PinGet
  <2> DEFINE sn == [s.snap EXCEPT ![s.key] = docs[s.key]]
             new == [s EXCEPT !.pc = "check", !.snap = sn]
  <2>2. ASSUME docs[s.key] # None, th' = [th EXCEPT ![t] = new] PROVE ThreadsOK'
    <3>1. sn \in [Key -> MaybeRec] /\ sn[s.key] \in Rec
      BY <1>0, <2>1, <2>2 DEF LocalState, SharedOK, MaybeRec
    <3>2. new \in LocalState /\ new.snap = sn /\ new.key = s.key /\ new.pc = "check"
      <4> HIDE DEF sn
      <4> QED BY <1>0, <3>1 DEF LocalState, PC
    <3>3. LocalOK(new) BY <2>1, <3>1, <3>2 DEF LocalOK
    <3> QED BY <2>2, <3>2, <3>3, LocalStep
  <2>3. ASSUME th' = [th EXCEPT ![t] = Idle] PROVE ThreadsOK' BY <2>3, IdleType, LocalStep
  <2>4. ThreadsOK' BY <1>1, <2>2, <2>3 DEF PinGet, Become
  <2>5. UNCHANGED <<memVars, storeVars, procVars, histVars, envVars>> BY <1>1 DEF PinGet
  <2> QED BY <2>4, <2>5 DEF SharedOK, memVars, storeVars, procVars, histVars, envVars
<1>2. CASE PinCheck(t)
  <2> DEFINE old == s.snap[s.key]
             vr == old.ver + 1
             r == [old EXCEPT !.pinned = s.flag, !.upd = clock, !.ver = vr]
             e == MakeEvent(r, clock, local_seq + 1)
             bt == AppendRows(s.batch, s.key, r, e)
             new == [s EXCEPT !.pc = "commit", !.snap = NoRecords, !.batch = bt,
                              !.evs = {e}, !.upserts = <<r>>]
  <2>1. s.key \in Key /\ old \in Rec BY <1>0, <1>2 DEF LocalOK, PinCheck
  <2>2. r \in Rec
    <3>1. s.flag \in BOOLEAN /\ clock \in Nat BY <1>0 DEF LocalState, SharedOK
    <3>2. vr \in Nat BY <2>1 DEF Rec
    <3> HIDE DEF old, s, vr
    <3> QED BY <2>1, <3>1, <3>2 DEF Rec
  <2>3. e \in Event BY <2>2, MakeEventType DEF SharedOK
  <2>4. bt \in Batch
    <3>1. s.batch \in Batch /\ r \in MaybeRec \cup {Gone} BY <1>0, <2>2 DEF LocalState, MaybeRec
    <3> HIDE DEF r, e
    <3> QED BY <3>1, <2>1, <2>3, AppendType
  <2>5. new \in LocalState /\ new.pc = "commit"
    <3>1. NoRecords \in [Key -> MaybeRec] BY DEF NoRecords, MaybeRec
    <3>2. <<r>> \in Seq(Rec) /\ {e} \in SUBSET Event BY <2>2, <2>3
    <3> DEFINE up == <<r>>
               ev == {e}
    <3> HIDE DEF r, e, bt, up, ev
    <3>3. [s EXCEPT !.pc = "commit", !.snap = NoRecords, !.batch = bt,
                    !.evs = ev, !.upserts = up] \in LocalState
      BY <1>0, <2>4, <3>1, <3>2 DEF LocalState, PC, up, ev
    <3> QED BY <1>0, <3>3 DEF LocalState, up, ev
  <2>6. LocalOK(new) BY <2>5 DEF LocalOK
  <2>7. CASE PinRefused(s) /\ th' = [th EXCEPT ![t] = Idle] /\ UNCHANGED local_seq
    <3>1. ThreadsOK' BY <2>7, IdleType, LocalStep
    <3>2. UNCHANGED <<memVars, storeVars, procVars, histVars, envVars>>
      BY <1>2, <2>7 DEF PinCheck, procVars
    <3> QED BY <3>1, <3>2 DEF SharedOK, memVars, storeVars, procVars, histVars, envVars
  <2>8. CASE th' = [th EXCEPT ![t] = new] /\ local_seq' = local_seq + 1
    <3>1. ThreadsOK' BY <2>5, <2>6, <2>8, LocalStep
    <3>2. UNCHANGED <<memVars, storeVars, capacity_blocked, ready, histVars, envVars>>
      BY <1>2 DEF PinCheck
    <3>3. local_seq' \in Nat BY <2>8 DEF SharedOK
    <3> QED BY <3>1, <3>2, <3>3 DEF SharedOK, memVars, storeVars, histVars, envVars
  <2> QED BY <1>2, <2>7, <2>8 DEF PinCheck, Become
<1> QED BY <1>1, <1>2

\* Building and reporting a compaction keeps the types.
LEMMA CompactType ==
    ASSUME TypeOK, NEW t \in Thread,
           CompactTomb(t) \/ CompactDelete(t) \/ CompactBuilt(t) \/ CompactReport(t)
    PROVE  TypeOK'
<1> USE DEF TypeOK
<1> DEFINE s == th[t]
<1>0. s \in LocalState /\ LocalOK(s) BY DEF ThreadsOK
<1>1. CASE CompactTomb(t)
  <2>1. PICK k \in Key : s.snap[k] # None /\ Tombstone(t, k) BY <1>1 DEF CompactTomb, ToTomb
  <2> DEFINE old == s.snap[k]
             now == s.now
             vr == Max2(old.ver, 1) + 1
             r == [old EXCEPT !.tomb = TRUE, !.upd = now, !.ver = vr]
             e == MakeEvent(r, clock, local_seq + 1)
             bt == AppendRows(s.batch, k, r, e)
             up == Append(s.upserts, r)
             m == s.n + 1
             sn == [s.snap EXCEPT ![k] = None]
             new == [s EXCEPT !.n = m, !.snap = sn, !.batch = bt,
                              !.evs = @ \cup {e}, !.upserts = up]
  <2>2. r \in Rec
    <3>1. old \in Rec /\ now \in Nat BY <1>0, <2>1 DEF LocalState, MaybeRec
    <3>2. vr \in Nat BY <3>1 DEF Rec, Max2
    <3> HIDE DEF old, now, vr
    <3> QED BY <3>1, <3>2 DEF Rec
  <2>3. e \in Event BY <2>2, MakeEventType DEF SharedOK
  <2>4. bt \in Batch
    <3>1. s.batch \in Batch /\ r \in MaybeRec \cup {Gone} BY <1>0, <2>2 DEF LocalState, MaybeRec
    <3> HIDE DEF r, e
    <3> QED BY <3>1, <2>3, AppendType
  <2>5. s.pc = "build" /\ th' = [th EXCEPT ![t] = new] BY <2>1 DEF Tombstone, Become
  <2>6. new \in LocalState /\ new.pc = s.pc
    <3>1. up \in Seq(Rec) /\ sn \in [Key -> MaybeRec] BY <1>0, <2>2 DEF LocalState, MaybeRec
    <3>2. m \in Nat BY <1>0 DEF LocalState
    <3> HIDE DEF r, e, bt, up, m, sn
    <3> QED BY <1>0, <2>3, <2>4, <3>1, <3>2 DEF LocalState
  <2>7. ThreadsOK'
    <3>1. LocalOK(new) BY <2>5, <2>6 DEF LocalOK
    <3> HIDE DEF new
    <3> QED BY <2>5, <2>6, <3>1, LocalStep
  <2>8. UNCHANGED <<memVars, storeVars, capacity_blocked, ready, histVars, envVars>>
        /\ local_seq' = local_seq + 1
    BY <2>1 DEF Tombstone
  <2>9. local_seq' \in Nat BY <2>8 DEF SharedOK
  <2> QED BY <2>7, <2>8, <2>9 DEF SharedOK, memVars, storeVars, histVars, envVars
<1>2. CASE CompactDelete(t)
  <2>1. PICK k \in Key : s.snap[k] # None /\ Reclaim(t, k) BY <1>2 DEF CompactDelete, ToDelete
  <2> DEFINE r == s.snap[k]
             e == MakeEvent(r, clock, local_seq + 1)
             bt == AppendRows(s.batch, k, Gone, e)
             m == s.n + 1
             sn == [s.snap EXCEPT ![k] = None]
             new == [s EXCEPT !.n = m, !.snap = sn, !.batch = bt,
                              !.evs = @ \cup {e}, !.dels = @ \cup {k}]
  <2>2. r \in Rec BY <1>0, <2>1 DEF LocalState, MaybeRec
  <2>3. e \in Event BY <2>2, MakeEventType DEF SharedOK
  <2>4. bt \in Batch
    <3>1. s.batch \in Batch BY <1>0 DEF LocalState
    <3> HIDE DEF r, e
    <3> QED BY <3>1, <2>3, AppendType
  <2>5. s.pc = "build" /\ th' = [th EXCEPT ![t] = new] BY <2>1 DEF Reclaim, Become
  <2>6. new \in LocalState /\ new.pc = s.pc
    <3>1. sn \in [Key -> MaybeRec] BY <1>0 DEF LocalState, MaybeRec
    <3>2. m \in Nat BY <1>0 DEF LocalState
    <3> HIDE DEF r, e, bt, m, sn
    <3> QED BY <1>0, <2>3, <2>4, <3>1, <3>2 DEF LocalState
  <2>7. ThreadsOK'
    <3>1. LocalOK(new) BY <2>5, <2>6 DEF LocalOK
    <3> HIDE DEF new
    <3> QED BY <2>5, <2>6, <3>1, LocalStep
  <2>8. UNCHANGED <<memVars, storeVars, capacity_blocked, ready, histVars, envVars>>
        /\ local_seq' = local_seq + 1
    BY <2>1 DEF Reclaim
  <2>9. local_seq' \in Nat BY <2>8 DEF SharedOK
  <2> QED BY <2>7, <2>8, <2>9 DEF SharedOK, memVars, storeVars, histVars, envVars
<1>3. CASE CompactBuilt(t)
  <2> DEFINE new == [s EXCEPT !.pc = IF s.batch = EmptyBatch THEN "unmap" ELSE "commit",
                              !.snap = NoRecords]
  <2>1. th' = [th EXCEPT ![t] = new] BY <1>3 DEF CompactBuilt, Become
  <2>2. NoRecords \in [Key -> MaybeRec] BY DEF NoRecords, MaybeRec
  <2>3. new \in LocalState /\ new.pc \in {"unmap", "commit"} BY <1>0, <2>2 DEF LocalState, PC
  <2>4. LocalOK(new) BY <2>3 DEF LocalOK
  <2>5. ThreadsOK' BY <2>1, <2>3, <2>4, LocalStep
  <2>6. UNCHANGED <<memVars, storeVars, procVars, histVars, envVars>> BY <1>3 DEF CompactBuilt
  <2> QED BY <2>5, <2>6 DEF SharedOK, memVars, storeVars, procVars, histVars, envVars
<1>4. CASE CompactReport(t)
  <2>1. /\ th' = [th EXCEPT ![t] = Idle] /\ acked' = acked \cup s.evs
        /\ capacity_blocked' \in BOOLEAN
        /\ UNCHANGED <<memVars, storeVars, local_seq, ready, failed, unacked, envVars>>
    BY <1>4 DEF CompactReport, Become
  <2>2. ThreadsOK' BY <2>1, IdleType, LocalStep
  <2>3. acked' \subseteq Event BY <1>0, <2>1 DEF LocalState, SharedOK
  <2> QED BY <2>1, <2>2, <2>3 DEF SharedOK, memVars, storeVars, envVars
<1> QED BY <1>1, <1>2, <1>3, <1>4

\* A store request, answered or failed, keeps the types.
LEMMA BatchType ==
    ASSUME TypeOK, NEW t \in Thread, BatchWrite(t) \/ BatchWriteFail(t) \/ WriteRoute(t)
    PROVE  TypeOK'
<1> USE DEF TypeOK
<1> DEFINE s == th[t]
<1>0. s \in LocalState /\ LocalOK(s) /\ s.batch \in Batch BY DEF ThreadsOK, LocalState
<1>1. CASE BatchWrite(t)
  <2>1. PICK p \in Partition : CommitPartition(t, p) BY <1>1 DEF BatchWrite
  <2> DEFINE rest == WithoutPid(s.batch, p)
             c == IF rest = EmptyBatch THEN AfterUpsert(s.op, s.upserts) ELSE "commit"
             new == [s EXCEPT !.batch = rest, !.pc = c]
  <2>2. c \in PC /\ (c \in {"map", "index", "account"} => s.upserts # <<>>)
        /\ c \notin {"get", "check"}
    BY AfterUpsertType DEF PC
  <2>3. rest \in Batch BY <1>0, CommitTypes
  <2>4. new \in LocalState /\ new.pc = c /\ new.upserts = s.upserts
    <3> HIDE DEF rest, c
    <3> QED BY <1>0, <2>2, <2>3 DEF LocalState
  <2>5. LocalOK(new)
    <3> HIDE DEF new, c
    <3> QED BY <2>2, <2>4 DEF LocalOK
  <2>6. ThreadsOK'
    <3>1. th' = [th EXCEPT ![t] = new] BY <2>1 DEF CommitPartition, Become
    <3> HIDE DEF new
    <3> QED BY <2>4, <2>5, <3>1, LocalStep
  <2>7. /\ docs' \in [Key -> MaybeRec] /\ events' \subseteq Event
        /\ ckpt' \in [Workspace -> EventPos \cup {None}] /\ touched' \subseteq Partition
    BY <1>0, <2>1, CommitTypes DEF CommitPartition, SharedOK
  <2>8. UNCHANGED <<memVars, procVars, histVars, envVars>> BY <2>1 DEF CommitPartition
  <2> QED BY <2>6, <2>7, <2>8 DEF SharedOK, memVars, procVars, histVars, envVars
<1>2. CASE BatchWriteFail(t)
  <2> DEFINE noevs == {}
             noups == <<>>
             nodels == {}
             abort == [s EXCEPT !.pc = "unmap", !.batch = EmptyBatch, !.evs = noevs,
                                !.upserts = noups, !.dels = nodels]
  <2>1. th' = [th EXCEPT ![t] = abort] \/ th' = [th EXCEPT ![t] = Idle]
    BY <1>2 DEF BatchWriteFail, Become
  <2>2. EmptyBatch \in Batch BY DEF EmptyBatch, Batch, NoRecords, NoCkpts, MaybeRec
  <2>3. abort \in LocalState /\ abort.pc = "unmap"
    <3>1. noevs \in SUBSET Event /\ noups \in Seq(Rec) /\ nodels \in SUBSET Key OBVIOUS
    <3> HIDE DEF noevs, noups, nodels
    <3> QED BY <1>0, <2>2, <3>1 DEF LocalState, PC
  <2>4. LocalOK(abort) BY <2>3 DEF LocalOK
  <2>5. ThreadsOK' BY <2>1, <2>3, <2>4, IdleType, LocalStep
  <2>6. /\ failed' = failed \cup s.evs
        /\ UNCHANGED <<memVars, storeVars, procVars, acked, unacked, envVars>>
    BY <1>2 DEF BatchWriteFail
  <2>7. failed' \subseteq Event BY <1>0, <2>6 DEF LocalState, SharedOK
  <2> QED BY <2>5, <2>6, <2>7 DEF SharedOK, memVars, storeVars, procVars, envVars
<1>3. CASE WriteRoute(t)
  <2> DEFINE new == [s EXCEPT !.pc = "enforce"]
  <2>1. /\ th' = [th EXCEPT ![t] = new]
        /\ UNCHANGED <<memVars, docs, events, ckpt, procVars, histVars, envVars>>
    BY <1>3 DEF WriteRoute, Become
  <2>2. new \in LocalState /\ new.pc = "enforce" BY <1>0 DEF LocalState, PC
  <2>3. LocalOK(new) BY <2>2 DEF LocalOK
  <2>4. ThreadsOK' BY <2>1, <2>2, <2>3, LocalStep
  <2>5. touched' \subseteq Partition
    <3>1. \A w \in s.scope : RoutePid[w] \in Partition BY <1>0, PartitionAssumption DEF LocalState
    <3> QED BY <1>3, <3>1 DEF WriteRoute, SharedOK
  <2> QED BY <2>1, <2>4, <2>5 DEF SharedOK, memVars, procVars, histVars, envVars
<1> QED BY <1>1, <1>2, <1>3

\* UpsertRecordInMemory keeps the types.
LEMMA UpsertType ==
    ASSUME TypeOK, NEW t \in Thread, UpsertMap(t) \/ UpsertIndex(t) \/ UpsertAccount(t)
    PROVE  TypeOK'
<1> USE DEF TypeOK
<1> DEFINE s == th[t]
           r == Head(s.upserts)
<1>0. s \in LocalState /\ LocalOK(s) BY DEF ThreadsOK
<1>a. s.upserts \in Seq(Rec) /\ s.upserts # <<>>
  BY <1>0 DEF UpsertMap, UpsertIndex, UpsertAccount, LocalState, LocalOK
<1>b. r \in Rec BY <1>a
<1>1. CASE UpsertMap(t)
  <2> DEFINE d == ChargeDelta(r)
             new == [s EXCEPT !.pc = "index", !.delta = d]
  <2>1. th' = [th EXCEPT ![t] = new] BY <1>1 DEF UpsertMap, Become
  <2>2. EstimateResidentCharge(r) \in Nat /\ r.key \in Key /\ charge[r.key] \in Nat
    BY <1>b, ChargeType DEF Rec, SharedOK
  <2>3. d \in Int BY <2>2 DEF ChargeDelta
  <2>4. new \in LocalState /\ new.pc = "index" /\ new.upserts = s.upserts
    <3> HIDE DEF d
    <3> QED BY <1>0, <2>3 DEF LocalState, PC
  <2>5. LocalOK(new) BY <1>a, <2>4 DEF LocalOK
  <2>6. ThreadsOK' BY <2>1, <2>4, <2>5, LocalStep
  <2>7. records' \in [Key -> MaybeRec] BY <1>1, <1>b DEF UpsertMap, SharedOK, MaybeRec
  <2>8. dedup_index' \in [Slot -> Key \cup {None}]
    BY <1>1, <1>b, <2>2 DEF UpsertMap, DedupAfter, SharedOK
  <2>9. charge' \in [Key -> Nat] BY <1>1, <2>2 DEF UpsertMap, SharedOK
  <2>10. UNCHANGED <<used, index, storeVars, procVars, histVars, envVars>> BY <1>1 DEF UpsertMap
  <2> QED BY <2>6, <2>7, <2>8, <2>9, <2>10 DEF SharedOK, storeVars, procVars, histVars, envVars
<1>2. CASE UpsertIndex(t)
  <2> DEFINE new == [s EXCEPT !.pc = "account"]
  <2>1. th' = [th EXCEPT ![t] = new] BY <1>2 DEF UpsertIndex, Become
  <2>2. new \in LocalState /\ new.pc = "account" /\ new.upserts = s.upserts
    BY <1>0 DEF LocalState, PC
  <2>3. LocalOK(new) BY <1>a, <2>2 DEF LocalOK
  <2>4. ThreadsOK' BY <2>1, <2>2, <2>3, LocalStep
  <2>5. index' \in [Key -> MaybeRec]
    BY <1>2, <1>b DEF UpsertIndex, IndexEntry, SharedOK, MaybeRec
  <2>6. UNCHANGED <<records, dedup_index, charge, used, storeVars, procVars, histVars, envVars>>
    BY <1>2 DEF UpsertIndex
  <2> QED BY <2>4, <2>5, <2>6 DEF SharedOK, storeVars, procVars, histVars, envVars
<1>3. CASE UpsertAccount(t)
  <2> DEFINE u == Tail(s.upserts)
             c == AfterUpsert(s.op, u)
             z == 0
             new == [s EXCEPT !.delta = z, !.upserts = u, !.pc = c]
  <2>1. th' = [th EXCEPT ![t] = new] BY <1>3 DEF UpsertAccount, Become
  <2>2. u \in Seq(Rec) BY <1>a
  <2>3. c \in PC /\ (c \in {"map", "index", "account"} => u # <<>>) /\ c \notin {"get", "check"}
    BY AfterUpsertType DEF PC
  <2>4. new \in LocalState /\ new.pc = c /\ new.upserts = u
    <3>1. z \in Int OBVIOUS
    <3> HIDE DEF u, c, z
    <3> QED BY <1>0, <2>2, <2>3, <3>1 DEF LocalState
  <2>5. LocalOK(new)
    <3> HIDE DEF new, c, u
    <3> QED BY <2>3, <2>4 DEF LocalOK
  <2>6. ThreadsOK'
    <3> HIDE DEF new
    <3> QED BY <2>1, <2>4, <2>5, LocalStep
  <2>7. used' \in Nat BY <1>0, <1>3, AddUsedType DEF UpsertAccount, LocalState, SharedOK
  <2>8. UNCHANGED <<records, dedup_index, charge, index, storeVars, procVars, histVars, envVars>>
    BY <1>3 DEF UpsertAccount
  <2> QED BY <2>6, <2>7, <2>8 DEF SharedOK, storeVars, procVars, histVars, envVars
<1> QED BY <1>1, <1>2, <1>3

\* Removal, eviction and the end of a request keep the types.
LEMMA DropType ==
    ASSUME TypeOK, NEW t \in Thread,
           \/ RemoveMap(t) \/ EvictMap(t) \/ DropAccount(t) \/ DropIndex(t) \/ EnforceDone(t)
    PROVE  TypeOK'
<1> USE DEF TypeOK
<1> DEFINE s == th[t]
<1>0. s \in LocalState /\ LocalOK(s) BY DEF ThreadsOK
<1>1. CASE RemoveMap(t)
  <2>1. PICK k \in s.dels :
          /\ s.pc = "unmap"
          /\ \/ /\ th' = [th EXCEPT ![t] = [s EXCEPT !.dels = @ \ {k}]]
                /\ UNCHANGED <<records, dedup_index, charge>>
             \/ /\ records[k] # None
                /\ records' = [records EXCEPT ![k] = None]
                /\ dedup_index' = IF records[k].dedup = NoDedup THEN dedup_index
                               ELSE [dedup_index EXCEPT ![<<WsOf[k], records[k].dedup>>] = None]
                /\ charge' = [charge EXCEPT ![k] = 0]
                /\ th' = [th EXCEPT ![t] = [s EXCEPT !.pc = "sub", !.dels = @ \ {k},
                                                     !.key = k, !.delta = Dropped(k)]]
    BY <1>1 DEF RemoveMap, Become
  <2>2. k \in Key BY <1>0, <2>1 DEF LocalState
  <2> DEFINE d == Dropped(k)
             skip == [s EXCEPT !.dels = @ \ {k}]
             new == [s EXCEPT !.pc = "sub", !.dels = @ \ {k}, !.key = k, !.delta = d]
  <2>3. d \in Int BY <2>2 DEF Dropped, SharedOK
  <2>4. skip \in LocalState /\ skip.pc = s.pc BY <1>0 DEF LocalState
  <2>5. new \in LocalState /\ new.pc = "sub"
    <3> HIDE DEF d
    <3> QED BY <1>0, <2>2, <2>3 DEF LocalState, PC
  <2>6. LocalOK(skip) /\ LocalOK(new) BY <2>1, <2>4, <2>5 DEF LocalOK
  <2>7. ThreadsOK'
    <3>1. th' = [th EXCEPT ![t] = skip] \/ th' = [th EXCEPT ![t] = new] BY <2>1
    <3> HIDE DEF skip, new
    <3> QED BY <2>4, <2>5, <2>6, <3>1, LocalStep
  <2>8. /\ records' \in [Key -> MaybeRec] /\ dedup_index' \in [Slot -> Key \cup {None}]
        /\ charge' \in [Key -> Nat]
    BY <2>1, <2>2 DEF SharedOK, MaybeRec
  <2>9. UNCHANGED <<used, index, storeVars, procVars, histVars, envVars>> BY <1>1 DEF RemoveMap
  <2> QED BY <2>7, <2>8, <2>9 DEF SharedOK, storeVars, procVars, histVars, envVars
<1>2. CASE EvictMap(t)
  <2>1. PICK k \in Key :
          /\ records' = [records EXCEPT ![k] = None]
          /\ charge' = [charge EXCEPT ![k] = 0]
          /\ th' = [th EXCEPT ![t] = [s EXCEPT !.pc = "sub", !.key = k, !.delta = Dropped(k)]]
    BY <1>2 DEF EvictMap, Evictable, Become
  <2> DEFINE d == Dropped(k)
             new == [s EXCEPT !.pc = "sub", !.key = k, !.delta = d]
  <2>2. d \in Int BY DEF Dropped, SharedOK
  <2>3. new \in LocalState /\ new.pc = "sub"
    <3> HIDE DEF d
    <3> QED BY <1>0, <2>2 DEF LocalState, PC
  <2>4. LocalOK(new) BY <2>3 DEF LocalOK
  <2>5. ThreadsOK' BY <2>1, <2>3, <2>4, LocalStep
  <2>6. records' \in [Key -> MaybeRec] /\ charge' \in [Key -> Nat] BY <2>1 DEF SharedOK, MaybeRec
  <2>7. UNCHANGED <<dedup_index, used, index, storeVars, procVars, histVars, envVars>>
    BY <1>2 DEF EvictMap
  <2> QED BY <2>5, <2>6, <2>7 DEF SharedOK, storeVars, procVars, histVars, envVars
<1>3. CASE DropAccount(t)
  <2> DEFINE z == 0
             new == [s EXCEPT !.pc = "unindex", !.delta = z]
  <2>1. th' = [th EXCEPT ![t] = new] BY <1>3 DEF DropAccount, Become
  <2>2. new \in LocalState /\ new.pc = "unindex"
    <3>1. z \in Int OBVIOUS
    <3> HIDE DEF z
    <3> QED BY <1>0, <3>1 DEF LocalState, PC
  <2>3. LocalOK(new) BY <2>2 DEF LocalOK
  <2>4. ThreadsOK' BY <2>1, <2>2, <2>3, LocalStep
  <2>5. used' \in Nat BY <1>0, <1>3, AddUsedType DEF DropAccount, LocalState, SharedOK
  <2>6. UNCHANGED <<records, dedup_index, charge, index, storeVars, procVars, histVars, envVars>>
    BY <1>3 DEF DropAccount
  <2> QED BY <2>4, <2>5, <2>6 DEF SharedOK, storeVars, procVars, histVars, envVars
<1>4. CASE DropIndex(t)
  <2> DEFINE new == [s EXCEPT !.key = None, !.pc = IF s.op = "compact" THEN "unmap" ELSE "enforce"]
  <2>1. th' = [th EXCEPT ![t] = new] BY <1>4 DEF DropIndex, Become
  <2>2. new \in LocalState /\ new.pc \in {"unmap", "enforce"} BY <1>0 DEF LocalState, PC
  <2>3. LocalOK(new) BY <2>2 DEF LocalOK
  <2>4. ThreadsOK' BY <2>1, <2>2, <2>3, LocalStep
  <2>5. index' \in [Key -> MaybeRec] BY <1>4 DEF DropIndex, SharedOK, MaybeRec
  <2>6. UNCHANGED <<records, dedup_index, charge, used, storeVars, procVars, histVars, envVars>>
    BY <1>4 DEF DropIndex
  <2> QED BY <2>4, <2>5, <2>6 DEF SharedOK, storeVars, procVars, histVars, envVars
<1>5. CASE EnforceDone(t)
  <2>1. /\ th' = [th EXCEPT ![t] = Idle] /\ acked' = acked \cup s.evs /\ ready' \in BOOLEAN
        /\ UNCHANGED <<memVars, storeVars, local_seq, capacity_blocked, failed, unacked, envVars>>
    BY <1>5 DEF EnforceDone, Become
  <2>2. ThreadsOK' BY <2>1, IdleType, LocalStep
  <2>3. acked' \subseteq Event BY <1>0, <2>1 DEF LocalState, SharedOK
  <2> QED BY <2>1, <2>2, <2>3 DEF SharedOK, memVars, storeVars, envVars
<1> QED BY <1>1, <1>2, <1>3, <1>4, <1>5

\* Warmup and replay keep the types.
LEMMA WarmupType ==
    ASSUME TypeOK, NEW t \in Thread,
           \/ WarmupScan(t) \/ WarmupLoad(t)
           \/ ReplayCheckpoints(t) \/ ReplayScan(t) \/ ReplayEvent(t)
    PROVE  TypeOK'
<1> USE DEF TypeOK
<1> DEFINE s == th[t]
<1>0. s \in LocalState /\ LocalOK(s) BY DEF ThreadsOK
<1>1. UNCHANGED <<memVars, storeVars, procVars, histVars, envVars>>
  BY DEF WarmupScan, WarmupLoad, ReplayCheckpoints, ReplayScan, ReplayEvent
<1>2. SharedOK' BY <1>1 DEF SharedOK, memVars, storeVars, procVars, histVars, envVars
<1>3. ASSUME WarmupScan(t) PROVE ThreadsOK'
  <2> DEFINE sn == IF ScanFinds THEN docs ELSE NoRecords
             new == [s EXCEPT !.pc = "load", !.snap = sn]
  <2>1. sn \in [Key -> MaybeRec] BY DEF SharedOK, NoRecords, MaybeRec
  <2>2. new \in LocalState /\ new.pc = "load"
    <3> HIDE DEF sn
    <3> QED BY <1>0, <2>1 DEF LocalState, PC
  <2>3. LocalOK(new) BY <2>2 DEF LocalOK
  <2> QED BY <1>3, <2>2, <2>3, LocalStep DEF WarmupScan, Become
<1>4. ASSUME WarmupLoad(t) PROVE ThreadsOK'
  <2>1. ASSUME th' = [th EXCEPT ![t] = [s EXCEPT !.pc = "ckpts"]] PROVE ThreadsOK'
    <3> DEFINE new == [s EXCEPT !.pc = "ckpts"]
    <3>1. new \in LocalState /\ new.pc = "ckpts" BY <1>0 DEF LocalState, PC
    <3>2. LocalOK(new) BY <3>1 DEF LocalOK
    <3> QED BY <2>1, <3>1, <3>2, LocalStep
  <2>2. ASSUME NEW k \in Key, s.snap[k] # None,
               th' = [th EXCEPT ![t] = [s EXCEPT !.pc = "map",
                        !.snap = [@ EXCEPT ![k] = None], !.upserts = <<s.snap[k]>>]]
        PROVE  ThreadsOK'
    <3> DEFINE sn == [s.snap EXCEPT ![k] = None]
               u == <<s.snap[k]>>
               new == [s EXCEPT !.pc = "map", !.snap = sn, !.upserts = u]
    <3>1. sn \in [Key -> MaybeRec] /\ u \in Seq(Rec) /\ u # <<>>
      BY <1>0, <2>2 DEF LocalState, MaybeRec
    <3>2. new \in LocalState /\ new.pc = "map" /\ new.upserts = u
      <4> HIDE DEF sn, u
      <4> QED BY <1>0, <3>1 DEF LocalState, PC
    <3>3. LocalOK(new) BY <3>1, <3>2 DEF LocalOK
    <3> QED BY <2>2, <3>2, <3>3, LocalStep
  <2> QED BY <1>4, <2>1, <2>2 DEF WarmupLoad, Become
<1>5. ASSUME ReplayCheckpoints(t) PROVE ThreadsOK'
  <2> DEFINE c == IF ScanFinds THEN ckpt ELSE NoCkpts
             new == [s EXCEPT !.pc = "events", !.op = "replay", !.ckpts = c]
  <2>1. c \in [Workspace -> EventPos \cup {None}] BY DEF SharedOK, NoCkpts
  <2>2. new \in LocalState /\ new.pc = "events"
    <3> HIDE DEF c
    <3> QED BY <1>0, <2>1 DEF LocalState, PC
  <2>3. LocalOK(new) BY <2>2 DEF LocalOK
  <2> QED BY <1>5, <2>2, <2>3, LocalStep DEF ReplayCheckpoints, Become
<1>6. ASSUME ReplayScan(t) PROVE ThreadsOK'
  <2> DEFINE lg == IF ScanFinds THEN BeyondCheckpoint(events, s.ckpts) ELSE {}
             new == [s EXCEPT !.pc = "replay", !.ckpts = NoCkpts, !.log = lg]
  <2>1. lg \subseteq Event /\ NoCkpts \in [Workspace -> EventPos \cup {None}]
    BY DEF BeyondCheckpoint, SharedOK, NoCkpts
  <2>2. new \in LocalState /\ new.pc = "replay"
    <3> HIDE DEF lg
    <3> QED BY <1>0, <2>1 DEF LocalState, PC
  <2>3. LocalOK(new) BY <2>2 DEF LocalOK
  <2> QED BY <1>6, <2>2, <2>3, LocalStep DEF ReplayScan, Become
<1>7. ASSUME ReplayEvent(t) PROVE ThreadsOK'
  <2>1. ASSUME th' = [th EXCEPT ![t] = [s EXCEPT !.pc = "enforce"]] PROVE ThreadsOK'
    <3> DEFINE new == [s EXCEPT !.pc = "enforce"]
    <3>1. new \in LocalState /\ new.pc = "enforce" BY <1>0 DEF LocalState, PC
    <3>2. LocalOK(new) BY <3>1 DEF LocalOK
    <3> QED BY <2>1, <3>1, <3>2, LocalStep
  <2>2. ASSUME NEW e \in s.log, NEW apply \in BOOLEAN,
               th' = [th EXCEPT ![t] = [s EXCEPT !.log = @ \ {e},
                        !.pc = IF apply THEN "map" ELSE "replay",
                        !.upserts = IF apply THEN <<e.rec>> ELSE <<>>]]
        PROVE  ThreadsOK'
    <3> DEFINE c == IF apply THEN "map" ELSE "replay"
               u == IF apply THEN <<e.rec>> ELSE <<>>
               lg == s.log \ {e}
               new == [s EXCEPT !.log = lg, !.pc = c, !.upserts = u]
    <3>1. lg \in SUBSET Event /\ e.rec \in Rec BY <1>0 DEF LocalState, Event
    <3>2. c \in {"map", "replay"} /\ u \in Seq(Rec) /\ (c = "map" => u # <<>>) BY <3>1
    <3>3. new \in LocalState /\ new.pc = c /\ new.upserts = u
      <4> HIDE DEF lg, c, u
      <4> QED BY <1>0, <3>1, <3>2 DEF LocalState, PC
    <3>4. LocalOK(new)
      <4> HIDE DEF new, c, u
      <4> QED BY <3>2, <3>3 DEF LocalOK
    <3>5. th' = [th EXCEPT ![t] = new] BY <2>2
    <3> HIDE DEF new
    <3> QED BY <3>3, <3>4, <3>5, LocalStep
  <2> QED BY <1>7, <2>1, <2>2 DEF ReplayEvent, Become
<1> QED BY <1>2, <1>3, <1>4, <1>5, <1>6, <1>7

\* The locals of the threads of a new process are well-typed.
LEMMA FreshType == FreshThreads \in [Thread -> LocalState] /\ \A t \in Thread : LocalOK(FreshThreads[t])
<1> DEFINE warm == [Idle EXCEPT !.pc = "scan", !.op = "warmup"]
<1>1. warm \in LocalState /\ warm.pc = "scan" BY IdleType DEF LocalState, PC
<1>2. LocalOK(warm) BY <1>1 DEF LocalOK
<1> HIDE DEF warm
<1>3. FreshThreads = [t \in Thread |-> IF t = Main THEN warm ELSE Idle] BY DEF FreshThreads, warm
<1> QED BY <1>1, <1>2, <1>3, IdleType

\* Time, crashes and the end of the run keep the types.
LEMMA EnvType == ASSUME TypeOK, Tick \/ Restart \/ Finished PROVE TypeOK'
<1> USE DEF TypeOK
<1>1. CASE Tick
  <2>1. clock' \in Nat BY <1>1 DEF Tick, SharedOK
  <2>2. UNCHANGED <<memVars, storeVars, procVars, histVars, boot, reqs, th>> BY <1>1 DEF Tick
  <2> QED BY <2>1, <2>2 DEF SharedOK, ThreadsOK, memVars, storeVars, procVars, histVars
<1>2. CASE Restart
  <2>1. clock' \in Nat /\ boot' \in Nat BY <1>2 DEF Restart, SharedOK
  <2>2. ThreadsOK' BY <1>2, FreshType DEF Restart, ThreadsOK
  <2>3. records' \in [Key -> MaybeRec] /\ index' \in [Key -> MaybeRec]
    BY <1>2 DEF Restart, NoRecords, MaybeRec
  <2>4. dedup_index' \in [Slot -> Key \cup {None}] BY <1>2 DEF Restart
  <2>5. charge' \in [Key -> Nat] /\ used' \in Nat /\ local_seq' \in Nat BY <1>2 DEF Restart
  <2>6. capacity_blocked' \in BOOLEAN /\ ready' \in BOOLEAN BY <1>2 DEF Restart
  <2>7. unacked' \subseteq Event
    <3>1. \A t \in Thread : th[t].evs \subseteq Event BY DEF ThreadsOK, LocalState
    <3> QED BY <1>2, <3>1 DEF Restart, SharedOK
  <2>8. UNCHANGED <<storeVars, acked, failed, reqs>> BY <1>2 DEF Restart
  <2> QED BY <2>1, <2>2, <2>3, <2>4, <2>5, <2>6, <2>7, <2>8 DEF SharedOK, storeVars
<1>3. CASE Finished
  <2>1. UNCHANGED vars BY <1>3 DEF Finished
  <2> QED BY <2>1 DEF SharedOK, ThreadsOK, vars, memVars, storeVars, procVars, histVars, envVars
<1> QED BY <1>1, <1>2, <1>3

\* The initial state is well-typed.
LEMMA InitType == Init => TypeOK
<1> SUFFICES ASSUME Init PROVE TypeOK OBVIOUS
<1>1. ThreadsOK BY FreshType DEF Init, ThreadsOK
<1>2. SharedOK BY DEF Init, SharedOK, NoRecords, NoCkpts, MaybeRec
<1> QED BY <1>1, <1>2 DEF TypeOK

\* Every step keeps the types.
LEMMA NextType == TypeOK /\ [Next]_vars => TypeOK'
<1> SUFFICES ASSUME TypeOK, [Next]_vars PROVE TypeOK' OBVIOUS
<1>1. CASE UNCHANGED vars
  BY <1>1 DEF TypeOK, SharedOK, ThreadsOK, vars, memVars, storeVars, procVars, histVars, envVars
<1>2. CASE Next
  <2>1. ASSUME NEW t \in Thread, WriteStart(t) \/ PinStart(t) \/ CompactStart(t) PROVE TypeOK'
    BY <2>1, StartType
  <2>2. ASSUME NEW t \in Thread, Step(t) PROVE TypeOK'
    BY <2>2, WriteType, PinType, CompactType, BatchType, UpsertType, DropType, WarmupType DEF Step
  <2> QED BY <1>2, <2>1, <2>2, EnvType DEF Next
<1> QED BY <1>1, <1>2

\* The members of the engine, the store and the locals of all threads keep
\* their types in every behaviour, whatever the interleaving of requests,
\* compactions, evictions, failures and restarts; in particular a step that
\* takes the first record of a list, or uses the target of a Pin, finds one.
THEOREM TypeCorrect == Spec => []TypeOK
BY InitType, NextType, PTL DEF Spec

-----------------------------------------------------------------------------
(***************************************************************************)
(* The accounting of resident bytes.  A thread owes resident_used_bytes_   *)
(* its delta from the step that changes resident_charge_bytes_ to the step *)
(* that changes the counter, and nothing at any other time: that makes the *)
(* difference of the two sums inductive.                                   *)
(***************************************************************************)

\* The program points at which a thread may owe the counter something.
Owing == {"index", "account", "sub"}

DebtKnown(s) == s.delta = 0 \/ s.pc \in Owing

AccountInv == (\A t \in Thread : DebtKnown(th[t])) /\ ResidentAccounting

LEMMA ThreadsFinite == IsFiniteSet(Thread)
<1>1. IsFiniteSet({}) BY FS_EmptySet
<1>2. IsFiniteSet({} \cup {Main}) BY <1>1, FS_AddElement
<1>3. IsFiniteSet(({} \cup {Main}) \cup {Gc}) BY <1>2, FS_AddElement
<1>4. ({} \cup {Main}) \cup {Gc} = {Main, Gc} OBVIOUS
<1>5. IsFiniteSet({Main, Gc}) BY <1>3, <1>4
<1> QED BY <1>5, ThreadAssumption, FS_Union DEF Thread

\* The sum of the debts of all threads.
Debt(l) == SumFunction([t \in Thread |-> l[t].delta])

\* When one thread moves, the debts change by what its own changes.
LEMMA DebtMoves ==
    ASSUME NEW l \in [Thread -> LocalState], NEW m \in [Thread -> LocalState],
           NEW t \in Thread, \A x \in Thread \ {t} : m[x] = l[x]
    PROVE  Debt(l) \in Int /\ Debt(m) = Debt(l) - l[t].delta + m[t].delta
<1> DEFINE f == [x \in Thread |-> l[x].delta]
           g == [x \in Thread |-> m[x].delta]
<1>1. DOMAIN f = Thread /\ DOMAIN g = Thread OBVIOUS
<1>2. \A x \in Thread : f[x] = l[x].delta /\ f[x] \in Int /\ g[x] = m[x].delta /\ g[x] \in Int
  BY DEF LocalState
<1>3. \A x \in Thread \ {t} : f[x] = g[x] BY <1>2
<1>4. Debt(l) = SumFunctionOnSet(f, Thread) /\ Debt(m) = SumFunctionOnSet(g, Thread)
  BY <1>1 DEF Debt, SumFunction
<1> HIDE DEF f, g
<1>5. SumFunctionOnSet(g, Thread) = SumFunctionOnSet(f, Thread) - f[t] + g[t]
  BY <1>2, <1>3, ThreadsFinite, SumChange
<1>6. SumFunctionOnSet(f, Thread) \in Int BY <1>2, ThreadsFinite, SumType
<1> QED BY <1>2, <1>4, <1>5, <1>6

\* When one entry of the charge map changes, so does the sum.
LEMMA ChargeMoves ==
    ASSUME NEW c \in [Key -> Nat], NEW k \in Key, NEW n \in Nat
    PROVE  /\ SumFunction(c) \in Nat
           /\ SumFunction([c EXCEPT ![k] = n]) = SumFunction(c) - c[k] + n
<1> DEFINE d == [c EXCEPT ![k] = n]
<1>1. DOMAIN c = Key /\ DOMAIN d = Key /\ d[k] = n OBVIOUS
<1>2. /\ \A x \in Key : c[x] \in Nat /\ c[x] \in Int /\ d[x] \in Int
      /\ \A x \in Key \ {k} : c[x] = d[x]
  OBVIOUS
<1>3. SumFunction(c) = SumFunctionOnSet(c, Key) /\ SumFunction(d) = SumFunctionOnSet(d, Key)
  BY <1>1 DEF SumFunction
<1> HIDE DEF d
<1>4. SumFunctionOnSet(d, Key) = SumFunctionOnSet(c, Key) - c[k] + d[k]
  BY <1>2, KeyAssumption, SumChange
<1>5. SumFunctionOnSet(c, Key) \in Nat BY <1>2, KeyAssumption, SumNat
<1> QED BY <1>1, <1>3, <1>4, <1>5 DEF d

\* What a step of one thread does to the locals.
LEMMA OneMoves ==
    ASSUME TypeOK, TypeOK', NEW t \in Thread, NEW u, th' = [th EXCEPT ![t] = u]
    PROVE  /\ th \in [Thread -> LocalState] /\ th' \in [Thread -> LocalState]
           /\ th'[t] = u /\ u \in LocalState /\ \A x \in Thread \ {t} : th'[x] = th[x]
           /\ Pending \in Int /\ Pending' = Pending - th[t].delta + u.delta
           /\ used \in Nat /\ used' \in Nat /\ charge \in [Key -> Nat]
<1>1. /\ th \in [Thread -> LocalState] /\ th' \in [Thread -> LocalState]
      /\ used \in Nat /\ used' \in Nat /\ charge \in [Key -> Nat]
  BY DEF TypeOK, ThreadsOK, SharedOK
<1>2. th'[t] = u /\ \A x \in Thread \ {t} : th'[x] = th[x] BY <1>1
<1>3. u \in LocalState BY <1>1, <1>2
<1>4. Pending = Debt(th) /\ Pending' = Debt(th') BY DEF Pending, Debt
<1>5. Debt(th) \in Int /\ Debt(th') = Debt(th) - th[t].delta + th'[t].delta
  BY <1>1, <1>2, DebtMoves
<1> QED BY <1>1, <1>2, <1>3, <1>4, <1>5

\* A step that owes what it owed before.
LEMMA AccountQuiet ==
    ASSUME TypeOK, TypeOK', AccountInv, NEW t \in Thread, NEW u, th' = [th EXCEPT ![t] = u],
           DebtKnown(u), u.delta = th[t].delta, UNCHANGED <<charge, used>>
    PROVE  AccountInv'
<1>1. /\ th'[t] = u /\ \A x \in Thread \ {t} : th'[x] = th[x]
      /\ Pending \in Int /\ Pending' = Pending - th[t].delta + u.delta /\ u \in LocalState
  BY OneMoves
<1>2. Pending' = Pending BY <1>1 DEF LocalState
<1>3. Resident' = Resident BY DEF Resident
<1>4. ResidentAccounting' BY <1>2, <1>3 DEF ResidentAccounting, AccountInv
<1>5. \A x \in Thread : DebtKnown(th'[x]) BY <1>1 DEF AccountInv
<1> QED BY <1>4, <1>5 DEF AccountInv, DebtKnown

\* A step that changes the charge of one record and owes the difference.
LEMMA AccountCharge ==
    ASSUME TypeOK, TypeOK', AccountInv, NEW t \in Thread, NEW u, th' = [th EXCEPT ![t] = u],
           NEW k \in Key, NEW n \in Nat, charge' = [charge EXCEPT ![k] = n], used' = used,
           th[t].delta = 0, u.delta = n - charge[k], DebtKnown(u)
    PROVE  AccountInv'
<1>1. /\ th'[t] = u /\ \A x \in Thread \ {t} : th'[x] = th[x]
      /\ Pending \in Int /\ Pending' = Pending - th[t].delta + u.delta
      /\ used \in Nat /\ charge \in [Key -> Nat]
  BY OneMoves
<1>2. Resident \in Nat /\ Resident' = Resident - charge[k] + n BY <1>1, ChargeMoves DEF Resident
<1>3. charge[k] \in Nat BY <1>1
<1> DEFINE d == n - charge[k]
           a == used + Pending
<1>4. d \in Int /\ a \in Int /\ used' + Pending' = a + d /\ Resident' = Resident + d
  BY <1>1, <1>2, <1>3
<1>5. a % Mod = Resident % Mod BY DEF AccountInv, ResidentAccounting
<1> HIDE DEF a, d
<1>6. (a + d) % Mod = (Resident + d) % Mod
  <2>1. ((a % Mod) + d) % Mod = (a + d) % Mod BY <1>4, LimitAssumption, ModAdd
  <2>2. ((Resident % Mod) + d) % Mod = (Resident + d) % Mod
    <3>1. Resident \in Int BY <1>2
    <3> QED BY <1>4, <3>1, LimitAssumption, ModAdd
  <2> QED BY <1>5, <2>1, <2>2
<1>7. ResidentAccounting' BY <1>4, <1>6 DEF ResidentAccounting
<1>8. \A x \in Thread : DebtKnown(th'[x]) BY <1>1 DEF AccountInv
<1> QED BY <1>7, <1>8 DEF AccountInv, DebtKnown

\* A step that pays what it owes.
LEMMA AccountPay ==
    ASSUME TypeOK, TypeOK', AccountInv, NEW t \in Thread, NEW u, th' = [th EXCEPT ![t] = u],
           u.delta = 0, used' = AddUsed(th[t].delta), charge' = charge
    PROVE  AccountInv'
<1>1. /\ th'[t] = u /\ \A x \in Thread \ {t} : th'[x] = th[x]
      /\ Pending \in Int /\ Pending' = Pending - th[t].delta + u.delta
      /\ used \in Nat /\ th \in [Thread -> LocalState]
  BY OneMoves
<1> DEFINE d == th[t].delta
           a == used + d
           b == Pending - d
<1>2. d \in Int BY <1>1 DEF LocalState
<1>3. a \in Int /\ b \in Int /\ a + b = used + Pending /\ Pending' = b BY <1>1, <1>2
<1>4. used' = a % Mod BY DEF AddUsed
<1> HIDE DEF a, b
<1>5. ((a % Mod) + b) % Mod = (a + b) % Mod BY <1>3, LimitAssumption, ModAdd
<1>6. (used' + Pending') % Mod = Resident % Mod
  BY <1>3, <1>4, <1>5 DEF AccountInv, ResidentAccounting
<1>7. Resident' = Resident BY DEF Resident
<1>8. ResidentAccounting' BY <1>6, <1>7 DEF ResidentAccounting
<1>9. \A x \in Thread : DebtKnown(th'[x]) BY <1>1 DEF AccountInv, DebtKnown
<1> QED BY <1>8, <1>9 DEF AccountInv, DebtKnown

\* A step outside the upsert and removal of records, where nothing is owed.
LEMMA AccountElsewhere ==
    ASSUME TypeOK, TypeOK', AccountInv, NEW t \in Thread, NEW u, th' = [th EXCEPT ![t] = u],
           th[t].pc \notin Owing, u.delta = th[t].delta \/ u = Idle, UNCHANGED <<charge, used>>
    PROVE  AccountInv'
<1>1. th[t].delta = 0 BY DEF AccountInv, DebtKnown
<1>2. u.delta = 0 BY <1>1 DEF Idle
<1> QED BY <1>1, <1>2, AccountQuiet DEF DebtKnown

\* Accepting a request.
LEMMA StartAccount ==
    ASSUME TypeOK, AccountInv, NEW t \in Thread, WriteStart(t) \/ PinStart(t) \/ CompactStart(t)
    PROVE  AccountInv'
<1>0. TypeOK' /\ UNCHANGED <<charge, used>>
  BY StartType DEF WriteStart, PinStart, CompactStart, memVars
<1>1. th[t].pc = "idle" BY DEF WriteStart, PinStart, CompactStart, Accept
<1>2. th[t].pc \notin Owing /\ th[t].delta = 0 BY <1>1 DEF Owing, AccountInv, DebtKnown
<1>3. ASSUME NEW u, th' = [th EXCEPT ![t] = u], u.delta = Idle.delta PROVE AccountInv'
  <2>1. Idle.delta = 0 BY DEF Idle
  <2> QED BY <1>0, <1>2, <1>3, <2>1, AccountElsewhere
<1>4. Idle \in LocalState BY IdleType
<1>5. CASE WriteStart(t) BY <1>3, <1>4, <1>5 DEF WriteStart, Become, LocalState
<1>6. CASE PinStart(t) BY <1>3, <1>4, <1>6 DEF PinStart, Become, LocalState
<1>7. CASE CompactStart(t) BY <1>3, <1>4, <1>7 DEF CompactStart, Become, LocalState
<1> QED BY <1>5, <1>6, <1>7

\* Building a batch and committing it.
LEMMA BuildAccount ==
    ASSUME TypeOK, AccountInv, NEW t \in Thread,
           \/ WriteDedup(t) \/ WriteRecord(t) \/ WriteBuilt(t) \/ PinGet(t) \/ PinCheck(t)
           \/ CompactTomb(t) \/ CompactDelete(t) \/ CompactBuilt(t) \/ CompactReport(t)
           \/ BatchWrite(t) \/ BatchWriteFail(t) \/ WriteRoute(t)
    PROVE  AccountInv'
<1> DEFINE s == th[t]
<1>0. TypeOK' BY WriteType, PinType, CompactType, BatchType
<1>1. s \in LocalState BY DEF TypeOK, ThreadsOK
<1>2. ASSUME NEW u, th' = [th EXCEPT ![t] = u], s.pc \in {"build", "get", "check", "unmap", "commit", "route"},
             u.delta = s.delta \/ u = Idle, UNCHANGED <<charge, used>>
      PROVE  AccountInv'
  BY <1>0, <1>2, AccountElsewhere DEF Owing
<1>3. CASE WriteDedup(t) BY <1>1, <1>2, <1>3 DEF WriteDedup, Become, LocalState, memVars
<1>4. CASE WriteRecord(t)
  <2>1. PICK k \in Key, v \in Val, d \in DedupKey \cup {NoDedup}, p \in BOOLEAN :
          AddRecord(t, k, v, d, p)
    BY <1>4 DEF WriteRecord
  <2> QED BY <1>1, <1>2, <2>1 DEF AddRecord, Become, LocalState, memVars
<1>5. CASE WriteBuilt(t) BY <1>1, <1>2, <1>5 DEF WriteBuilt, Become, LocalState, memVars
<1>6. CASE PinGet(t) BY <1>1, <1>2, <1>6 DEF PinGet, Become, LocalState, memVars
<1>7. CASE PinCheck(t) BY <1>1, <1>2, <1>7 DEF PinCheck, Become, LocalState, memVars
<1>8. CASE CompactTomb(t) BY <1>1, <1>2, <1>8 DEF CompactTomb, Tombstone, Become, LocalState, memVars
<1>9. CASE CompactDelete(t) BY <1>1, <1>2, <1>9 DEF CompactDelete, Reclaim, Become, LocalState, memVars
<1>10. CASE CompactBuilt(t) BY <1>1, <1>2, <1>10 DEF CompactBuilt, Become, LocalState, memVars
<1>11. CASE CompactReport(t) BY <1>1, <1>2, <1>11 DEF CompactReport, Become, LocalState, memVars
<1>12. CASE BatchWrite(t) BY <1>1, <1>2, <1>12 DEF BatchWrite, CommitPartition, Become, LocalState, memVars
<1>13. CASE BatchWriteFail(t) BY <1>1, <1>2, <1>13 DEF BatchWriteFail, Become, LocalState, memVars
<1>14. CASE WriteRoute(t) BY <1>1, <1>2, <1>14 DEF WriteRoute, Become, LocalState, memVars
<1> QED BY <1>3, <1>4, <1>5, <1>6, <1>7, <1>8, <1>9, <1>10, <1>11, <1>12, <1>13, <1>14

\* UpsertRecordInMemory charges under the lock and pays after the retriever.
LEMMA UpsertAccounts ==
    ASSUME TypeOK, AccountInv, NEW t \in Thread, UpsertMap(t) \/ UpsertIndex(t) \/ UpsertAccount(t)
    PROVE  AccountInv'
<1> DEFINE s == th[t]
<1>0. TypeOK' BY UpsertType
<1>1. s \in LocalState /\ LocalOK(s) BY DEF TypeOK, ThreadsOK
<1>2. CASE UpsertMap(t)
  <2> DEFINE r == Head(s.upserts)
             n == EstimateResidentCharge(r)
             d == n - charge[r.key]
             u == [s EXCEPT !.pc = "index", !.delta = d]
  <2>1. s.pc = "map" /\ charge' = [charge EXCEPT ![r.key] = n] /\ used' = used
    BY <1>2 DEF UpsertMap
  <2>2. th' = [th EXCEPT ![t] = u] BY <1>2 DEF UpsertMap, Become, ChargeDelta
  <2>3. r \in Rec BY <1>1, <2>1 DEF LocalOK, LocalState
  <2>4. r.key \in Key /\ n \in Nat BY <2>3, ChargeType DEF Rec
  <2>5. s.delta = 0 BY <2>1 DEF AccountInv, DebtKnown, Owing
  <2>6. u.delta = d /\ u.pc = "index" BY <1>1 DEF LocalState
  <2> HIDE DEF r, n, u
  <2> QED BY <1>0, <2>1, <2>2, <2>4, <2>5, <2>6, AccountCharge DEF DebtKnown, Owing
<1>3. CASE UpsertIndex(t)
  <2> DEFINE u == [s EXCEPT !.pc = "account"]
  <2>1. th' = [th EXCEPT ![t] = u] /\ UNCHANGED <<charge, used>> BY <1>3 DEF UpsertIndex, Become
  <2>2. u.delta = s.delta /\ u.pc = "account" BY <1>1 DEF LocalState
  <2> HIDE DEF u
  <2> QED BY <1>0, <2>1, <2>2, AccountQuiet DEF DebtKnown, Owing
<1>4. CASE UpsertAccount(t)
  <2> DEFINE u == [s EXCEPT !.delta = 0, !.upserts = Tail(@), !.pc = AfterUpsert(s.op, Tail(s.upserts))]
  <2>1. th' = [th EXCEPT ![t] = u] /\ u.delta = 0 BY <1>1, <1>4 DEF UpsertAccount, Become, LocalState
  <2> HIDE DEF u
  <2>2. used' = AddUsed(s.delta) /\ charge' = charge BY <1>4 DEF UpsertAccount
  <2> QED BY <1>0, <2>1, <2>2, AccountPay
<1> QED BY <1>2, <1>3, <1>4

\* Removal and eviction give the charge up under the lock and pay after it.
LEMMA DropAccounts ==
    ASSUME TypeOK, AccountInv, NEW t \in Thread,
           \/ RemoveMap(t) \/ EvictMap(t) \/ DropAccount(t) \/ DropIndex(t) \/ EnforceDone(t)
    PROVE  AccountInv'
<1> DEFINE s == th[t]
<1>0. TypeOK' BY DropType
<1>1. s \in LocalState BY DEF TypeOK, ThreadsOK
<1>2. ASSUME NEW k \in Key, charge' = [charge EXCEPT ![k] = 0], used' = used, s.pc \notin Owing,
             NEW u, th' = [th EXCEPT ![t] = u], u.pc = "sub", u.delta = Dropped(k)
      PROVE  AccountInv'
  <2>1. s.delta = 0 BY <1>2 DEF AccountInv, DebtKnown
  <2>2. charge[k] \in Nat BY DEF TypeOK, SharedOK
  <2>3. u.delta = 0 - charge[k] BY <1>2, <2>2 DEF Dropped
  <2>4. DebtKnown(u) /\ 0 \in Nat BY <1>2 DEF DebtKnown, Owing
  <2> QED BY <1>0, <1>2, <2>1, <2>3, <2>4, AccountCharge
<1>3. CASE RemoveMap(t)
  <2>1. PICK k \in s.dels :
          /\ s.pc = "unmap" /\ used' = used
          /\ \/ th' = [th EXCEPT ![t] = [s EXCEPT !.dels = @ \ {k}]] /\ charge' = charge
             \/ /\ charge' = [charge EXCEPT ![k] = 0]
                /\ th' = [th EXCEPT ![t] = [s EXCEPT !.pc = "sub", !.dels = @ \ {k},
                                                     !.key = k, !.delta = Dropped(k)]]
    BY <1>3 DEF RemoveMap, Become
  <2>2. s.pc \notin Owing /\ k \in Key BY <1>1, <2>1 DEF Owing, LocalState
  <2> DEFINE d == Dropped(k)
             skip == [s EXCEPT !.dels = @ \ {k}]
             new == [s EXCEPT !.pc = "sub", !.dels = @ \ {k}, !.key = k, !.delta = d]
  <2>3. skip.delta = s.delta /\ new.delta = d /\ new.pc = "sub"
    <3> HIDE DEF d
    <3> QED BY <1>1 DEF LocalState
  <2>4. CASE th' = [th EXCEPT ![t] = skip] /\ charge' = charge
    <3> HIDE DEF skip
    <3> QED BY <1>0, <2>1, <2>2, <2>3, <2>4, AccountElsewhere
  <2>5. CASE th' = [th EXCEPT ![t] = new] /\ charge' = [charge EXCEPT ![k] = 0]
    <3> HIDE DEF new
    <3> QED BY <1>2, <2>1, <2>2, <2>3, <2>5
  <2> QED BY <2>1, <2>4, <2>5
<1>4. CASE EvictMap(t)
  <2>1. PICK k \in Key :
          /\ s.pc = "enforce" /\ used' = used /\ charge' = [charge EXCEPT ![k] = 0]
          /\ th' = [th EXCEPT ![t] = [s EXCEPT !.pc = "sub", !.key = k, !.delta = Dropped(k)]]
    BY <1>4 DEF EvictMap, Evictable, Become
  <2> DEFINE d == Dropped(k)
             new == [s EXCEPT !.pc = "sub", !.key = k, !.delta = d]
  <2>2. new.delta = d /\ new.pc = "sub"
    <3> HIDE DEF d
    <3> QED BY <1>1 DEF LocalState
  <2>3. th' = [th EXCEPT ![t] = new] /\ s.pc \notin Owing BY <2>1 DEF Owing
  <2> HIDE DEF new
  <2> QED BY <1>2, <2>1, <2>2, <2>3
<1>5. CASE DropAccount(t)
  <2> DEFINE u == [s EXCEPT !.pc = "unindex", !.delta = 0]
  <2>1. th' = [th EXCEPT ![t] = u] /\ u.delta = 0 BY <1>1, <1>5 DEF DropAccount, Become, LocalState
  <2> HIDE DEF u
  <2>2. used' = AddUsed(s.delta) /\ charge' = charge BY <1>5 DEF DropAccount
  <2> QED BY <1>0, <2>1, <2>2, AccountPay
<1>6. CASE DropIndex(t)
  <2> DEFINE u == [s EXCEPT !.key = None, !.pc = IF s.op = "compact" THEN "unmap" ELSE "enforce"]
  <2>1. th' = [th EXCEPT ![t] = u] /\ u.delta = s.delta BY <1>1, <1>6 DEF DropIndex, Become, LocalState
  <2> HIDE DEF u
  <2>2. s.pc \notin Owing /\ UNCHANGED <<charge, used>> BY <1>6 DEF DropIndex, Owing
  <2> QED BY <1>0, <2>1, <2>2, AccountElsewhere
<1>7. CASE EnforceDone(t)
  <2>1. th' = [th EXCEPT ![t] = Idle] /\ s.pc \notin Owing /\ UNCHANGED <<charge, used>>
    BY <1>7 DEF EnforceDone, Become, Owing, memVars
  <2> QED BY <1>0, <2>1, AccountElsewhere
<1> QED BY <1>3, <1>4, <1>5, <1>6, <1>7

\* Warmup and replay read.
LEMMA WarmupAccount ==
    ASSUME TypeOK, AccountInv, NEW t \in Thread,
           \/ WarmupScan(t) \/ WarmupLoad(t)
           \/ ReplayCheckpoints(t) \/ ReplayScan(t) \/ ReplayEvent(t)
    PROVE  AccountInv'
<1> DEFINE s == th[t]
<1>0. TypeOK' BY WarmupType
<1>1. s \in LocalState BY DEF TypeOK, ThreadsOK
<1>2. s.pc \notin Owing /\ UNCHANGED <<charge, used>>
  BY DEF WarmupScan, WarmupLoad, ReplayCheckpoints, ReplayScan, ReplayEvent, memVars, Owing
<1>3. ASSUME NEW u, th' = [th EXCEPT ![t] = u], u.delta = s.delta PROVE AccountInv'
  BY <1>0, <1>2, <1>3, AccountElsewhere
<1>4. CASE WarmupScan(t) BY <1>1, <1>3, <1>4 DEF WarmupScan, Become, LocalState
<1>5. CASE WarmupLoad(t) BY <1>1, <1>3, <1>5 DEF WarmupLoad, Become, LocalState
<1>6. CASE ReplayCheckpoints(t) BY <1>1, <1>3, <1>6 DEF ReplayCheckpoints, Become, LocalState
<1>7. CASE ReplayScan(t) BY <1>1, <1>3, <1>7 DEF ReplayScan, Become, LocalState
<1>8. CASE ReplayEvent(t) BY <1>1, <1>3, <1>8 DEF ReplayEvent, Become, LocalState
<1> QED BY <1>4, <1>5, <1>6, <1>7, <1>8

\* A new process owes nothing.
LEMMA FreshAccount ==
    /\ \A t \in Thread : FreshThreads[t].delta = 0
    /\ Debt(FreshThreads) = 0
    /\ SumFunction([k \in Key |-> 0]) = 0
<1>1. \A t \in Thread : FreshThreads[t].delta = 0 BY DEF FreshThreads, Idle
<1> DEFINE f == [t \in Thread |-> FreshThreads[t].delta]
           c == [k \in Key |-> 0]
<1>2. DOMAIN f = Thread /\ \A t \in Thread : f[t] = 0 BY <1>1
<1>3. DOMAIN c = Key /\ \A k \in Key : c[k] = 0 OBVIOUS
<1> HIDE DEF f, c
<1>4. SumFunction(f) = 0 BY <1>2, ThreadsFinite, SumZero DEF SumFunction
<1>5. SumFunction(c) = 0 BY <1>3, KeyAssumption, SumZero DEF SumFunction
<1> QED BY <1>1, <1>4, <1>5 DEF f, c, Debt

LEMMA InitAccount == Init => AccountInv
<1> SUFFICES ASSUME Init PROVE AccountInv OBVIOUS
<1>1. th = FreshThreads /\ charge = [k \in Key |-> 0] /\ used = 0 BY DEF Init
<1>2. Pending = 0 /\ Resident = 0 BY <1>1, FreshAccount DEF Pending, Resident, Debt
<1> QED BY <1>1, <1>2, FreshAccount DEF AccountInv, DebtKnown, ResidentAccounting

\* Time, crashes and the end of the run.
LEMMA EnvAccount == ASSUME AccountInv, Tick \/ Restart \/ Finished \/ UNCHANGED vars PROVE AccountInv'
<1>1. CASE Restart
  <2>1. th' = FreshThreads /\ charge' = [k \in Key |-> 0] /\ used' = 0 BY <1>1 DEF Restart
  <2>2. Pending' = 0 /\ Resident' = 0 BY <2>1, FreshAccount DEF Pending, Resident, Debt
  <2> QED BY <2>1, <2>2, FreshAccount DEF AccountInv, DebtKnown, ResidentAccounting
<1>2. CASE Tick \/ Finished \/ UNCHANGED vars
  <2>1. UNCHANGED <<th, charge, used>> BY <1>2 DEF Tick, Finished, vars, memVars
  <2>2. Pending' = Pending /\ Resident' = Resident BY <2>1 DEF Pending, Resident
  <2> QED BY <2>1, <2>2 DEF AccountInv, DebtKnown, ResidentAccounting
<1> QED BY <1>1, <1>2

LEMMA NextAccount == TypeOK /\ AccountInv /\ [Next]_vars => AccountInv'
<1> SUFFICES ASSUME TypeOK, AccountInv, [Next]_vars PROVE AccountInv' OBVIOUS
<1>1. ASSUME NEW t \in Thread, WriteStart(t) \/ PinStart(t) \/ CompactStart(t) PROVE AccountInv'
  BY <1>1, StartAccount
<1>2. ASSUME NEW t \in Thread, Step(t) PROVE AccountInv'
  BY <1>2, BuildAccount, UpsertAccounts, DropAccounts, WarmupAccount DEF Step
<1> QED BY <1>1, <1>2, EnvAccount DEF Next

\* resident_used_bytes_ and resident_charge_bytes_ differ exactly by what the
\* threads between the two still owe, in every interleaving of upserts,
\* removals and evictions, also when the counter wraps below zero.
THEOREM ResidentStaysAccounted == Spec => []ResidentAccounting
<1>1. AccountInv => ResidentAccounting BY DEF AccountInv
<1> QED BY <1>1, TypeCorrect, InitAccount, NextAccount, PTL DEF Spec

-----------------------------------------------------------------------------
(***************************************************************************)
(* The event log keeps what was acknowledged: theorems about ds_events,    *)
(* for every number of threads, keys, partitions, requests and restarts.   *)
(*                                                                         *)
(* The argument: an event is stamped with the clock, and with a local_seq_ *)
(* that grows during one run of the process; a restart takes a             *)
(* millisecond, so events of an earlier run have a smaller stamp.  Hence   *)
(* no two events share a key, an upsert of an event row never replaces     *)
(* another event, and what a request appended is in the store when the     *)
(* request has no rows left to commit.                                     *)
(***************************************************************************)

\* No record of f is dated after c.
Dated(c, f) == \A k \in Key : f[k] \in Rec => f[k].upd <= c

\* Locals of a thread, for clock c, start of the process b, last local_seq_ q
\* and committed events log: nothing comes from the future, events carry a
\* stamp of this run of the process, and those not committed are in the batch.
LogLocal(s, c, b, q, log) ==
    /\ s.now <= c /\ Dated(c, s.snap) /\ Dated(c, s.batch.doc)
    /\ \A i \in 1..Len(s.upserts) : s.upserts[i].upd <= c
    /\ s.log \subseteq log
    /\ \A e \in s.evs : b <= e.ts /\ e.ts <= c /\ e.seq <= q /\ e.rec.upd <= c
    /\ s.batch.ev \subseteq s.evs /\ s.evs \subseteq log \cup s.batch.ev
    /\ s.pc \in {"build", "commit"} \/ s.batch.ev = {}

\* Committed events: none from the future, and those of this run of the
\* process have a sequence number that was given out.
LogStamped ==
    \A e \in events : e.ts <= clock /\ e.rec.upd <= clock /\ (boot <= e.ts => e.seq <= local_seq)

\* The inductive invariant.
LogInv ==
    /\ boot <= clock
    /\ Dated(clock, records) /\ Dated(clock, docs)
    /\ LogStamped
    /\ \A t \in Thread : LogLocal(th[t], clock, boot, local_seq, events)
    /\ AckedDurable
    /\ EventKeysUnique

-----------------------------------------------------------------------------
(* How the invariant carries over a step of one thread *)

Issued == events \cup UNION {th[t].evs : t \in Thread}

\* The parts of the invariant other than uniqueness after a step of thread t
\* that leaves it with locals s.
LEMMA LogFrame ==
    ASSUME TypeOK, LogInv, NEW t \in Thread, NEW s \in LocalState,
           th' = [th EXCEPT ![t] = s], UNCHANGED <<clock, boot>>,
           local_seq' \in Nat, local_seq <= local_seq',
           events \subseteq events', events' \subseteq events \cup th[t].evs, acked' \subseteq events',
           Dated(clock, records'), Dated(clock, docs'),
           LogLocal(s, clock, boot, local_seq', events')
    PROVE  /\ boot' <= clock' /\ Dated(clock, records)' /\ Dated(clock, docs)' /\ LogStamped'
           /\ (\A x \in Thread : LogLocal(th[x], clock, boot, local_seq, events))'
           /\ AckedDurable'
<1>1. boot' <= clock' /\ AckedDurable' BY DEF LogInv, AckedDurable
<1>2. Dated(clock, records)' /\ Dated(clock, docs)' BY DEF Dated
<1>3. LogStamped'
  <2> SUFFICES ASSUME NEW e \in events'
               PROVE  e.ts <= clock /\ e.rec.upd <= clock /\ (boot <= e.ts => e.seq <= local_seq')
    BY DEF LogStamped
  <2>0. e \in Event /\ local_seq \in Nat
    BY DEF TypeOK, SharedOK, ThreadsOK, LocalState
  <2>1. CASE e \in events BY <2>0, <2>1 DEF LogInv, LogStamped, Event
  <2>2. CASE e \in th[t].evs BY <2>0, <2>2 DEF LogInv, LogLocal, Event
  <2> QED BY <2>1, <2>2
<1>4. ASSUME NEW x \in Thread PROVE LogLocal(th[x], clock, boot, local_seq, events)'
  <2>1. CASE x = t
    <3>1. th'[x] = s BY <2>1 DEF TypeOK, ThreadsOK
    <3> QED BY <3>1
  <2>2. CASE x # t
    <3>1. th'[x] = th[x] /\ th[x] \in LocalState BY <2>2 DEF TypeOK, ThreadsOK
    <3>2. LogLocal(th[x], clock, boot, local_seq, events) BY DEF LogInv
    <3>3. ASSUME NEW e \in th[x].evs PROVE e.seq <= local_seq'
      <4>1. e \in Event /\ local_seq \in Nat BY <3>1 DEF TypeOK, SharedOK, LocalState
      <4>2. e.seq <= local_seq BY <3>2 DEF LogLocal
      <4> QED BY <4>1, <4>2 DEF Event
    <3>4. LogLocal(th[x], clock, boot, local_seq', events') BY <3>2, <3>3 DEF LogLocal
    <3> QED BY <3>1, <3>4
  <2> QED BY <2>1, <2>2
<1> QED BY <1>1, <1>2, <1>3, <1>4

\* A step that appends no event keeps the invariant.
LEMMA LogQuiet ==
    ASSUME TypeOK, LogInv, NEW t \in Thread, NEW s \in LocalState,
           th' = [th EXCEPT ![t] = s], UNCHANGED <<clock, boot, local_seq>>,
           events \subseteq events', events' \subseteq events \cup th[t].evs, acked' \subseteq events',
           Dated(clock, records'), Dated(clock, docs'),
           LogLocal(s, clock, boot, local_seq, events'), s.evs \subseteq th[t].evs
    PROVE  LogInv'
<1>1. local_seq' \in Nat /\ local_seq <= local_seq' BY DEF TypeOK, SharedOK
<1>2. /\ boot' <= clock' /\ Dated(clock, records)' /\ Dated(clock, docs)' /\ LogStamped'
      /\ (\A x \in Thread : LogLocal(th[x], clock, boot, local_seq, events))'
      /\ AckedDurable'
  BY <1>1, LogFrame
<1>3. \A x \in Thread : th'[x].evs \subseteq th[x].evs BY DEF TypeOK, ThreadsOK
<1>4. Issued' \subseteq Issued BY <1>3 DEF Issued
<1>5. EventKeysUnique' BY <1>4 DEF Issued, LogInv, EventKeysUnique
<1> QED BY <1>2, <1>5 DEF LogInv

\* A step that appends one event, stamped with the clock and the next
\* sequence number, keeps the invariant.
LEMMA LogAppend ==
    ASSUME TypeOK, LogInv, NEW t \in Thread, NEW s \in LocalState, NEW e \in Event,
           th' = [th EXCEPT ![t] = s], UNCHANGED <<clock, boot, events, acked, records, docs>>,
           local_seq' = local_seq + 1, e.ts = clock, e.seq = local_seq + 1,
           LogLocal(s, clock, boot, local_seq', events), s.evs \subseteq th[t].evs \cup {e}
    PROVE  LogInv'
<1>1. local_seq' \in Nat /\ local_seq <= local_seq' BY DEF TypeOK, SharedOK
<1>2. /\ boot' <= clock' /\ Dated(clock, records)' /\ Dated(clock, docs)' /\ LogStamped'
      /\ (\A x \in Thread : LogLocal(th[x], clock, boot, local_seq, events))'
      /\ AckedDurable'
  BY <1>1, LogFrame DEF LogInv, AckedDurable
<1>3. \A x \in Thread : th'[x].evs \subseteq th[x].evs \cup {e} BY DEF TypeOK, ThreadsOK
<1>4. Issued' \subseteq Issued \cup {e} BY <1>3 DEF Issued
<1>5. \A f \in Issued : Pos(e) # Pos(f)
  <2> SUFFICES ASSUME NEW f \in Issued PROVE e.ts # f.ts \/ e.seq # f.seq BY DEF Pos
  <2>1. f \in Event /\ clock \in Nat /\ boot \in Nat /\ local_seq \in Nat
    BY DEF Issued, TypeOK, SharedOK, ThreadsOK, LocalState
  <2>2. boot <= f.ts => f.seq <= local_seq
    BY <2>1 DEF Issued, LogInv, LogStamped, LogLocal
  <2>3. boot <= clock BY DEF LogInv
  <2> QED BY <2>1, <2>2, <2>3 DEF Event
<1>6. EventKeysUnique'
  <2> SUFFICES ASSUME NEW f \in Issued', NEW g \in Issued', f.ws = g.ws, Pos(f) = Pos(g) PROVE f = g
    BY DEF Issued, EventKeysUnique
  <2>1. CASE f \in Issued /\ g \in Issued BY <2>1 DEF Issued, LogInv, EventKeysUnique
  <2>2. CASE f = e \/ g = e BY <1>4, <1>5, <2>2
  <2> QED BY <1>4, <2>1, <2>2
<1> QED BY <1>2, <1>6 DEF LogInv

\* An event made of a record that is not from the future is stamped with the
\* clock and the next sequence number.
LEMMA EventStamp ==
    ASSUME TypeOK, NEW r \in Rec, r.upd <= clock
    PROVE  LET e == MakeEvent(r, clock, local_seq + 1)
           IN  e \in Event /\ e.ts = clock /\ e.seq = local_seq + 1 /\ e.rec = r
<1>1. clock \in Nat /\ local_seq + 1 \in Nat /\ r.upd \in Nat BY DEF TypeOK, SharedOK, Rec
<1>2. Max2(r.upd, clock) = clock BY <1>1 DEF Max2
<1> QED BY <1>1, <1>2, MakeEventType DEF MakeEvent

\* A thread without a request satisfies the local part.
LEMMA IdleLog ==
    ASSUME NEW c \in Nat, NEW b, NEW q, NEW log
    PROVE  LogLocal(Idle, c, b, q, log)
BY SentinelAssumption DEF LogLocal, Idle, Dated, NoRecords, EmptyBatch

\* The local part depends on the data of a request only.
LEMMA SameLog ==
    ASSUME NEW s, NEW u, NEW c, NEW b, NEW q, NEW log, LogLocal(s, c, b, q, log),
           u.now = s.now, u.snap = s.snap, u.upserts = s.upserts, u.batch = s.batch,
           u.evs = s.evs, u.log = s.log,
           u.pc \in {"build", "commit"} \/ s.batch.ev = {}
    PROVE  LogLocal(u, c, b, q, log)
BY DEF LogLocal

-----------------------------------------------------------------------------
(* The invariant, by groups of actions *)

\* What a step of a thread may rely on.
LEMMA LogAt ==
    ASSUME TypeOK, LogInv, NEW t \in Thread
    PROVE  /\ th[t] \in LocalState /\ LocalOK(th[t])
           /\ LogLocal(th[t], clock, boot, local_seq, events)
           /\ Dated(clock, records) /\ Dated(clock, docs) /\ acked \subseteq events
           /\ clock \in Nat /\ local_seq \in Nat
BY DEF TypeOK, ThreadsOK, SharedOK, LogInv, AckedDurable

\* Accepting a request.
LEMMA StartLog ==
    ASSUME TypeOK, LogInv, NEW t \in Thread, WriteStart(t) \/ PinStart(t) \/ CompactStart(t)
    PROVE  LogInv'
<1>0. /\ UNCHANGED <<clock, boot, local_seq, events, acked, records, docs>>
      /\ TypeOK'
  BY StartType DEF WriteStart, PinStart, CompactStart, memVars, storeVars, procVars, histVars
<1>1. Idle \in LocalState /\ LogLocal(Idle, clock, boot, local_seq, events)
  BY IdleType, IdleLog, LogAt
<1>2. ASSUME NEW s \in LocalState, th' = [th EXCEPT ![t] = s], s.now = 0 \/ s.now = clock,
             s.upserts = <<>>, s.batch = EmptyBatch, s.evs = {}, s.log = {}, Dated(clock, s.snap)
      PROVE  LogInv'
  <2>1. LogLocal(s, clock, boot, local_seq, events)
    BY <1>2, LogAt, SentinelAssumption DEF LogLocal, EmptyBatch, Dated, NoRecords
  <2> QED BY <1>0, <1>2, <2>1, LogQuiet, LogAt
<1>3. th' \in [Thread -> LocalState] BY <1>0 DEF TypeOK, ThreadsOK
<1>4. CASE WriteStart(t)
  <2>1. PICK w \in Workspace, append \in AppendModes :
          th' = [th EXCEPT ![t] =
                  [Idle EXCEPT !.pc = "build", !.op = "write", !.scope = {w},
                               !.now = clock, !.flag = append,
                               !.active = Cardinality(ActiveKeys(records, w)),
                               !.pinned = Cardinality(PinnedKeys(records, w))]]
    BY <1>4 DEF WriteStart, Become
  <2> DEFINE s == [Idle EXCEPT !.pc = "build", !.op = "write", !.scope = {w},
                               !.now = clock, !.flag = append,
                               !.active = Cardinality(ActiveKeys(records, w)),
                               !.pinned = Cardinality(PinnedKeys(records, w))]
  <2>2. s \in LocalState BY <1>3, <2>1 DEF TypeOK, ThreadsOK
  <2>3. /\ s.now = clock /\ s.upserts = <<>> /\ s.batch = EmptyBatch /\ s.evs = {} /\ s.log = {}
        /\ Dated(clock, s.snap)
    BY <1>1, SentinelAssumption DEF Idle, Dated, NoRecords
  <2> QED BY <1>2, <2>1, <2>2, <2>3
<1>5. CASE PinStart(t)
  <2>1. PICK k \in Key, pin \in BOOLEAN :
          th' = [th EXCEPT ![t] =
                  [Idle EXCEPT !.op = "pin", !.key = k, !.flag = pin,
                               !.pc = IF records[k] # None THEN "check" ELSE "get",
                               !.snap = [@ EXCEPT ![k] = records[k]]]]
    BY <1>5 DEF PinStart, Become
  <2> DEFINE s == [Idle EXCEPT !.op = "pin", !.key = k, !.flag = pin,
                               !.pc = IF records[k] # None THEN "check" ELSE "get",
                               !.snap = [@ EXCEPT ![k] = records[k]]]
  <2>2. s \in LocalState BY <1>3, <2>1 DEF TypeOK, ThreadsOK
  <2>3. s.now = 0 /\ s.upserts = <<>> /\ s.batch = EmptyBatch /\ s.evs = {} /\ s.log = {}
    BY <1>1 DEF Idle
  <2>4. Dated(clock, s.snap)
    <3>1. s.snap = [NoRecords EXCEPT ![k] = records[k]] BY DEF Idle
    <3> QED BY <3>1, LogAt, SentinelAssumption DEF Dated, NoRecords
  <2> QED BY <1>2, <2>1, <2>2, <2>3, <2>4
<1>6. CASE CompactStart(t)
  <2>1. PICK scope \in {{w} : w \in Workspace} \cup {Workspace} :
          th' = [th EXCEPT ![t] =
                  [Idle EXCEPT !.pc = "build", !.op = "compact", !.scope = scope, !.now = clock,
                     !.snap = [k \in Key |-> IF WsOf[k] \in scope THEN records[k] ELSE None]]]
    BY <1>6 DEF CompactStart, Become
  <2> DEFINE s == [Idle EXCEPT !.pc = "build", !.op = "compact", !.scope = scope, !.now = clock,
                     !.snap = [k \in Key |-> IF WsOf[k] \in scope THEN records[k] ELSE None]]
  <2>2. s \in LocalState BY <1>3, <2>1 DEF TypeOK, ThreadsOK
  <2>3. s.now = clock /\ s.upserts = <<>> /\ s.batch = EmptyBatch /\ s.evs = {} /\ s.log = {}
    BY <1>1 DEF Idle
  <2>4. Dated(clock, s.snap)
    <3>1. s.snap = [k \in Key |-> IF WsOf[k] \in scope THEN records[k] ELSE None] BY DEF Idle
    <3> QED BY <3>1, LogAt, SentinelAssumption DEF Dated
  <2> QED BY <1>2, <2>1, <2>2, <2>3, <2>4
<1> QED BY <1>4, <1>5, <1>6

\* Thread t appends the rows of record r, not from the future, and event e to
\* its batch and is left with locals u.
Builds(t, k, r, row, e, u) ==
    /\ r \in Rec /\ r.upd <= clock /\ row \in {r, Gone}
    /\ e = MakeEvent(r, clock, local_seq + 1)
    /\ th' = [th EXCEPT ![t] = u] /\ local_seq' = local_seq + 1
    /\ UNCHANGED <<clock, boot, events, acked, records, docs>>
    /\ u.now = th[t].now /\ Dated(clock, u.snap) /\ u.log = th[t].log
    /\ \A i \in 1..Len(u.upserts) : u.upserts[i].upd <= clock
    /\ u.batch = AppendRows(th[t].batch, k, row, e)
    /\ u.evs \subseteq th[t].evs \cup {e} /\ th[t].batch.ev \cup {e} \subseteq u.evs
    /\ u.pc \in {"build", "commit"}

\* Such a step keeps the invariant.
LEMMA BuildLog ==
    ASSUME TypeOK, LogInv, TypeOK', NEW t \in Thread, NEW k \in Key,
           NEW r, NEW row, NEW e, NEW u, Builds(t, k, r, row, e, u)
    PROVE  LogInv'
<1> USE DEF Builds
<1> DEFINE s == th[t]
<1>0. u \in LocalState BY DEF TypeOK, ThreadsOK
<1>1. s \in LocalState /\ LogLocal(s, clock, boot, local_seq, events) /\ clock \in Nat /\ local_seq \in Nat
  BY LogAt
<1>2. e \in Event /\ e.ts = clock /\ e.seq = local_seq + 1 /\ e.rec = r BY EventStamp
<1>3. u.batch.ev = s.batch.ev \cup {e} /\ u.batch.doc = [s.batch.doc EXCEPT ![k] = row]
  BY DEF AppendRows
<1>4. Dated(clock, u.batch.doc)
  <2>1. s.batch.doc \in [Key -> MaybeRec \cup {Gone}] BY <1>1 DEF LocalState, Batch
  <2> QED BY <1>1, <1>3, <2>1, SentinelAssumption DEF LogLocal, Dated
<1>5. \A f \in u.evs : boot <= f.ts /\ f.ts <= clock /\ f.seq <= local_seq' /\ f.rec.upd <= clock
  <2> SUFFICES ASSUME NEW f \in u.evs
               PROVE  boot <= f.ts /\ f.ts <= clock /\ f.seq <= local_seq' /\ f.rec.upd <= clock
    OBVIOUS
  <2>1. CASE f = e BY <1>1, <1>2, <2>1 DEF LogInv
  <2>2. CASE f \in s.evs
    <3>1. f.seq \in Nat BY <1>1, <2>2 DEF LocalState, Event
    <3> QED BY <1>1, <2>2, <3>1 DEF LogLocal
  <2> QED BY <2>1, <2>2
<1>6. LogLocal(u, clock, boot, local_seq', events) BY <1>1, <1>3, <1>4, <1>5 DEF LogLocal
<1> QED BY <1>0, <1>2, <1>6, LogAppend

\* Building the batch of a Write.
LEMMA WriteLog ==
    ASSUME TypeOK, LogInv, NEW t \in Thread, WriteDedup(t) \/ WriteRecord(t) \/ WriteBuilt(t)
    PROVE  LogInv'
<1> DEFINE s == th[t]
<1>0. s \in LocalState /\ LogLocal(s, clock, boot, local_seq, events) /\ clock \in Nat BY LogAt
<1>t. TypeOK' BY WriteType
<1>1. CASE WriteDedup(t)
  <2> DEFINE u == [s EXCEPT !.n = @ + 1]
  <2>1. /\ s.pc = "build" /\ th' = [th EXCEPT ![t] = u]
        /\ UNCHANGED <<clock, boot, local_seq, events, acked, records, docs>>
    BY <1>1 DEF WriteDedup, Become, memVars, storeVars, procVars, histVars, envVars
  <2>2. u \in LocalState BY <1>t, <2>1 DEF TypeOK, ThreadsOK
  <2>3. LogLocal(u, clock, boot, local_seq, events) /\ u.evs = s.evs
    BY <1>0, <2>1, SameLog DEF LocalState
  <2> QED BY <2>1, <2>2, <2>3, LogQuiet, LogAt
<1>2. CASE WriteRecord(t)
  <2>1. PICK k \in Key, v \in Val, d \in DedupKey \cup {NoDedup}, p \in BOOLEAN :
          AddRecord(t, k, v, d, p)
    BY <1>2 DEF WriteRecord
  <2> DEFINE r == [key |-> k, val |-> v, dedup |-> d, pinned |-> p, tomb |-> FALSE,
                   upd |-> s.now, ver |-> 1]
             e == MakeEvent(r, clock, local_seq + 1)
             u == [s EXCEPT !.n = @ + 1, !.active = @ + 1,
                            !.pinned = IF p THEN @ + 1 ELSE @,
                            !.batch = AppendRows(s.batch, k, r, e),
                            !.evs = @ \cup {e},
                            !.upserts = Append(s.upserts, r)]
  <2>2. /\ s.pc = "build" /\ th' = [th EXCEPT ![t] = u] /\ local_seq' = local_seq + 1
        /\ UNCHANGED <<clock, boot, events, acked, records, docs>>
    BY <2>1 DEF AddRecord, Become, memVars, storeVars, histVars, envVars
  <2>3. r \in Rec /\ r.upd <= clock BY <1>0 DEF LocalState, Rec, LogLocal
  <2>4. /\ u.now = s.now /\ u.snap = s.snap /\ u.log = s.log /\ u.pc = "build"
        /\ u.upserts = Append(s.upserts, r) /\ u.evs = s.evs \cup {e}
        /\ u.batch = AppendRows(s.batch, k, r, e)
    BY <1>0, <2>2 DEF LocalState
  <2>5. \A i \in 1..Len(u.upserts) : u.upserts[i].upd <= clock
    <3>1. s.upserts \in Seq(Rec) BY <1>0 DEF LocalState
    <3>2. \A i \in 1..Len(s.upserts) : s.upserts[i].upd <= clock BY <1>0 DEF LogLocal
    <3> HIDE DEF r, u
    <3> QED BY <2>3, <2>4, <3>1, <3>2
  <2>6. Dated(clock, u.snap) /\ s.batch.ev \cup {e} \subseteq u.evs BY <1>0, <2>4 DEF LogLocal
  <2>7. /\ e = MakeEvent(r, clock, local_seq + 1) /\ r \in {r, Gone}
        /\ u.pc \in {"build", "commit"} /\ u.evs \subseteq s.evs \cup {e}
    BY <2>4
  <2> HIDE DEF r, e, u
  <2>8. Builds(t, k, r, r, e, u) BY <2>2, <2>3, <2>4, <2>5, <2>6, <2>7 DEF Builds
  <2> QED BY <1>t, <2>8, BuildLog
<1>3. CASE WriteBuilt(t)
  <2> DEFINE go == [s EXCEPT !.pc = "commit"]
             u == IF s.batch = EmptyBatch THEN Idle ELSE go
  <2>1. /\ th' = [th EXCEPT ![t] = u]
        /\ UNCHANGED <<clock, boot, local_seq, events, acked, records, docs>>
    BY <1>3 DEF WriteBuilt, Become, memVars, storeVars, procVars, histVars, envVars
  <2>2. u \in LocalState BY <1>t, <2>1 DEF TypeOK, ThreadsOK
  <2>3. LogLocal(go, clock, boot, local_seq, events) /\ go.evs = s.evs
    BY <1>0, SameLog DEF LocalState
  <2>4. LogLocal(Idle, clock, boot, local_seq, events) /\ Idle.evs = {}
    BY <1>0, IdleLog DEF Idle
  <2>5. LogLocal(u, clock, boot, local_seq, events) /\ u.evs \subseteq s.evs BY <2>3, <2>4
  <2> QED BY <2>1, <2>2, <2>5, LogQuiet, LogAt
<1> QED BY <1>1, <1>2, <1>3

\* Loading, checking and building a Pin.
LEMMA PinLog ==
    ASSUME TypeOK, LogInv, NEW t \in Thread, PinGet(t) \/ PinCheck(t)
    PROVE  LogInv'
<1> DEFINE s == th[t]
<1>0. /\ s \in LocalState /\ LocalOK(s) /\ LogLocal(s, clock, boot, local_seq, events)
      /\ clock \in Nat /\ Dated(clock, docs)
  BY LogAt
<1>t. TypeOK' BY PinType
<1>i. ASSUME th' = [th EXCEPT ![t] = Idle],
             UNCHANGED <<clock, boot, local_seq, events, acked, records, docs>>
      PROVE  LogInv'
  <2>1. LogLocal(Idle, clock, boot, local_seq, events) /\ Idle.evs = {} BY <1>0, IdleLog DEF Idle
  <2> QED BY <1>i, <2>1, IdleType, LogQuiet, LogAt
<1>1. CASE PinGet(t)
  <2> DEFINE sn == [s.snap EXCEPT ![s.key] = docs[s.key]]
             u == [s EXCEPT !.pc = "check", !.snap = sn]
  <2>1. /\ th' = [th EXCEPT ![t] = u] \/ th' = [th EXCEPT ![t] = Idle]
        /\ UNCHANGED <<clock, boot, local_seq, events, acked, records, docs>>
        /\ s.pc = "get"
    BY <1>1 DEF PinGet, Become, memVars, storeVars, procVars, histVars, envVars
  <2>2. CASE th' = [th EXCEPT ![t] = u]
    <3>1. u \in LocalState BY <1>t, <2>2 DEF TypeOK, ThreadsOK
    <3>2. Dated(clock, sn)
      <4>1. s.snap \in [Key -> MaybeRec] BY <1>0 DEF LocalState
      <4> QED BY <1>0, <4>1 DEF Dated, LogLocal
    <3>3. /\ u.now = s.now /\ u.snap = sn /\ u.log = s.log /\ u.upserts = s.upserts
          /\ u.evs = s.evs /\ u.batch = s.batch
      BY <1>0 DEF LocalState
    <3>4. s.batch.ev = {} BY <1>0, <2>1 DEF LogLocal
    <3> HIDE DEF u, sn
    <3>5. LogLocal(u, clock, boot, local_seq, events) BY <1>0, <3>2, <3>3, <3>4 DEF LogLocal
    <3> QED BY <2>1, <2>2, <3>1, <3>3, <3>5, LogQuiet, LogAt
  <2> QED BY <1>i, <2>1, <2>2
<1>2. CASE PinCheck(t)
  <2> DEFINE old == s.snap[s.key]
             r == [old EXCEPT !.pinned = s.flag, !.upd = clock, !.ver = @ + 1]
             e == MakeEvent(r, clock, local_seq + 1)
             u == [s EXCEPT !.pc = "commit", !.snap = NoRecords,
                            !.batch = AppendRows(s.batch, s.key, r, e),
                            !.evs = {e}, !.upserts = <<r>>]
  <2>1. s.pc = "check" /\ s.key \in Key /\ old \in Rec BY <1>0, <1>2 DEF PinCheck, LocalOK
  <2>2. CASE /\ th' = [th EXCEPT ![t] = u] /\ local_seq' = local_seq + 1
    <3>1. UNCHANGED <<clock, boot, events, acked, records, docs>>
      BY <1>2 DEF PinCheck, memVars, storeVars, histVars, envVars
    <3>2. u \in LocalState BY <1>t, <2>2 DEF TypeOK, ThreadsOK
    <3>3. /\ u.now = s.now /\ u.snap = NoRecords /\ u.log = s.log /\ u.pc = "commit"
          /\ u.upserts = <<r>> /\ u.evs = {e} /\ u.batch = AppendRows(s.batch, s.key, r, e)
      BY <1>0 DEF LocalState
    <3>4. r \in Rec
      <4>1. u.upserts \in Seq(Rec) /\ Len(u.upserts) = 1 /\ u.upserts[1] = r
        BY <3>2, <3>3 DEF LocalState
      <4> HIDE DEF u, r
      <4> QED BY <4>1
    <3>5. r.upd = clock BY <2>1 DEF Rec
    <3>6. \A i \in 1..Len(u.upserts) : u.upserts[i].upd <= clock
      <4> HIDE DEF u, r
      <4>1. Len(u.upserts) = 1 /\ u.upserts[1] = r BY <3>3
      <4> QED BY <1>0, <3>5, <4>1
    <3>7. Dated(clock, u.snap) BY <3>3, SentinelAssumption DEF Dated, NoRecords
    <3>8. s.batch.ev = {} BY <1>0, <2>1 DEF LogLocal
    <3>9. /\ e = MakeEvent(r, clock, local_seq + 1) /\ r \in {r, Gone} /\ r.upd <= clock
          /\ u.pc \in {"build", "commit"} /\ u.evs \subseteq s.evs \cup {e}
          /\ s.batch.ev \cup {e} \subseteq u.evs
      BY <1>0, <3>3, <3>5, <3>8
    <3> DEFINE k == s.key
    <3>10. k \in Key /\ u.batch = AppendRows(s.batch, k, r, e) BY <2>1, <3>3
    <3> HIDE DEF r, e, u, k
    <3>11. Builds(t, k, r, r, e, u) BY <2>2, <3>1, <3>3, <3>4, <3>6, <3>7, <3>9, <3>10 DEF Builds
    <3> QED BY <1>t, <3>10, <3>11, BuildLog
  <2>3. CASE th' = [th EXCEPT ![t] = Idle] /\ UNCHANGED local_seq
    <3>1. UNCHANGED <<clock, boot, local_seq, events, acked, records, docs>>
      BY <1>2, <2>3 DEF PinCheck, memVars, storeVars, histVars, envVars
    <3> QED BY <1>i, <2>3, <3>1
  <2> QED BY <1>2, <2>2, <2>3 DEF PinCheck, Become
<1> QED BY <1>1, <1>2

\* Building and reporting a compaction.
LEMMA CompactLog ==
    ASSUME TypeOK, LogInv, NEW t \in Thread,
           CompactTomb(t) \/ CompactDelete(t) \/ CompactBuilt(t) \/ CompactReport(t)
    PROVE  LogInv'
<1> DEFINE s == th[t]
<1>0. /\ s \in LocalState /\ LogLocal(s, clock, boot, local_seq, events) /\ clock \in Nat
      /\ acked \subseteq events
  BY LogAt
<1>t. TypeOK' BY CompactType
<1>1. CASE CompactTomb(t)
  <2>1. PICK k \in Key : s.snap[k] # None /\ Tombstone(t, k) BY <1>1 DEF CompactTomb, ToTomb
  <2> DEFINE r == [s.snap[k] EXCEPT !.tomb = TRUE, !.upd = s.now, !.ver = Max2(@, 1) + 1]
             e == MakeEvent(r, clock, local_seq + 1)
             u == [s EXCEPT !.n = @ + 1, !.snap = [@ EXCEPT ![k] = None],
                            !.batch = AppendRows(s.batch, k, r, e),
                            !.evs = @ \cup {e}, !.upserts = Append(s.upserts, r)]
  <2>2. /\ s.pc = "build" /\ th' = [th EXCEPT ![t] = u] /\ local_seq' = local_seq + 1
        /\ UNCHANGED <<clock, boot, events, acked, records, docs>>
    BY <2>1 DEF Tombstone, Become, memVars, storeVars, histVars, envVars
  <2>3. r \in Rec
    <3> DEFINE now == s.now
               old == s.snap[k]
               vr == Max2(old.ver, 1) + 1
    <3>1. old \in Rec /\ now \in Nat BY <1>0, <2>1 DEF LocalState, MaybeRec
    <3>2. vr \in Nat BY <3>1 DEF Rec, Max2
    <3>3. r = [old EXCEPT !.tomb = TRUE, !.upd = now, !.ver = vr] OBVIOUS
    <3> HIDE DEF old, now, vr, r
    <3> QED BY <3>1, <3>2, <3>3 DEF Rec
  <2>4. r.upd <= clock
    <3>1. s.snap[k] \in Rec BY <1>0, <2>1 DEF LocalState, MaybeRec
    <3>2. r.upd = s.now BY <3>1 DEF Rec
    <3> QED BY <1>0, <3>2 DEF LogLocal
  <2>5. /\ u.now = s.now /\ u.snap = [s.snap EXCEPT ![k] = None] /\ u.log = s.log /\ u.pc = "build"
        /\ u.upserts = Append(s.upserts, r) /\ u.evs = s.evs \cup {e}
        /\ u.batch = AppendRows(s.batch, k, r, e)
    BY <1>0, <2>2 DEF LocalState
  <2>6. \A i \in 1..Len(u.upserts) : u.upserts[i].upd <= clock
    <3>1. s.upserts \in Seq(Rec) BY <1>0 DEF LocalState
    <3>2. \A i \in 1..Len(s.upserts) : s.upserts[i].upd <= clock BY <1>0 DEF LogLocal
    <3> HIDE DEF r, u
    <3> QED BY <2>3, <2>4, <2>5, <3>1, <3>2
  <2>7. Dated(clock, u.snap)
    <3>1. s.snap \in [Key -> MaybeRec] BY <1>0 DEF LocalState
    <3> HIDE DEF u
    <3> QED BY <1>0, <2>5, <3>1, SentinelAssumption DEF LogLocal, Dated
  <2>8. /\ e = MakeEvent(r, clock, local_seq + 1) /\ r \in {r, Gone}
        /\ u.pc \in {"build", "commit"} /\ u.evs \subseteq s.evs \cup {e}
        /\ s.batch.ev \cup {e} \subseteq u.evs
    BY <1>0, <2>5 DEF LogLocal
  <2> HIDE DEF r, e, u
  <2>9. Builds(t, k, r, r, e, u) BY <2>2, <2>3, <2>4, <2>5, <2>6, <2>7, <2>8 DEF Builds
  <2> QED BY <1>t, <2>9, BuildLog
<1>2. CASE CompactDelete(t)
  <2>1. PICK k \in Key : s.snap[k] # None /\ Reclaim(t, k) BY <1>2 DEF CompactDelete, ToDelete
  <2> DEFINE r == s.snap[k]
             row == Gone
             e == MakeEvent(r, clock, local_seq + 1)
             u == [s EXCEPT !.n = @ + 1, !.snap = [@ EXCEPT ![k] = None],
                            !.batch = AppendRows(s.batch, k, row, e),
                            !.evs = @ \cup {e}, !.dels = @ \cup {k}]
  <2>2. /\ s.pc = "build" /\ th' = [th EXCEPT ![t] = u] /\ local_seq' = local_seq + 1
        /\ UNCHANGED <<clock, boot, events, acked, records, docs>>
    BY <2>1 DEF Reclaim, Become, memVars, storeVars, histVars, envVars
  <2>3. r \in Rec BY <1>0, <2>1 DEF LocalState, MaybeRec
  <2>4. r.upd <= clock BY <1>0, <2>3 DEF LogLocal, Dated
  <2>5. /\ u.now = s.now /\ u.snap = [s.snap EXCEPT ![k] = None] /\ u.log = s.log /\ u.pc = "build"
        /\ u.upserts = s.upserts /\ u.evs = s.evs \cup {e}
        /\ u.batch = AppendRows(s.batch, k, row, e)
    BY <1>0, <2>2 DEF LocalState
  <2>6. \A i \in 1..Len(u.upserts) : u.upserts[i].upd <= clock
    <3> HIDE DEF u
    <3> QED BY <1>0, <2>5 DEF LogLocal
  <2>7. Dated(clock, u.snap)
    <3>1. s.snap \in [Key -> MaybeRec] BY <1>0 DEF LocalState
    <3> HIDE DEF u
    <3> QED BY <1>0, <2>5, <3>1, SentinelAssumption DEF LogLocal, Dated
  <2>8. /\ e = MakeEvent(r, clock, local_seq + 1) /\ row \in {r, Gone}
        /\ u.pc \in {"build", "commit"} /\ u.evs \subseteq s.evs \cup {e}
        /\ s.batch.ev \cup {e} \subseteq u.evs
    BY <1>0, <2>5 DEF LogLocal
  <2> HIDE DEF r, e, u, row
  <2>9. Builds(t, k, r, row, e, u) BY <2>2, <2>3, <2>4, <2>5, <2>6, <2>7, <2>8 DEF Builds
  <2> QED BY <1>t, <2>9, BuildLog
<1>3. CASE CompactBuilt(t)
  <2> DEFINE c == IF s.batch = EmptyBatch THEN "unmap" ELSE "commit"
             u == [s EXCEPT !.pc = c, !.snap = NoRecords]
  <2>1. /\ th' = [th EXCEPT ![t] = u]
        /\ UNCHANGED <<clock, boot, local_seq, events, acked, records, docs>>
    BY <1>3 DEF CompactBuilt, Become, memVars, storeVars, procVars, histVars, envVars
  <2>2. u \in LocalState BY <1>t, <2>1 DEF TypeOK, ThreadsOK
  <2>3. /\ u.now = s.now /\ u.snap = NoRecords /\ u.log = s.log /\ u.pc = c
        /\ u.upserts = s.upserts /\ u.evs = s.evs /\ u.batch = s.batch
    BY <1>0 DEF LocalState
  <2>4. c \in {"build", "commit"} \/ s.batch.ev = {} BY DEF EmptyBatch
  <2>5. Dated(clock, NoRecords) BY SentinelAssumption DEF Dated, NoRecords
  <2> HIDE DEF u, c
  <2>6. LogLocal(u, clock, boot, local_seq, events) BY <1>0, <2>3, <2>4, <2>5 DEF LogLocal
  <2> QED BY <2>1, <2>2, <2>3, <2>6, LogQuiet, LogAt
<1>4. CASE CompactReport(t)
  <2>1. /\ s.pc = "unmap" /\ th' = [th EXCEPT ![t] = Idle] /\ acked' = acked \cup s.evs
        /\ UNCHANGED <<clock, boot, local_seq, events, records, docs>>
    BY <1>4 DEF CompactReport, Become, memVars, storeVars, envVars
  <2>2. s.evs \subseteq events BY <1>0, <2>1 DEF LogLocal
  <2>3. LogLocal(Idle, clock, boot, local_seq, events) /\ Idle.evs = {} BY <1>0, IdleLog DEF Idle
  <2> QED BY <1>0, <2>1, <2>2, <2>3, IdleType, LogQuiet, LogAt
<1> QED BY <1>1, <1>2, <1>3, <1>4

\* Committing the rows of one partition only adds to the log: an upsert that
\* hits the key of a committed event writes the same event.
LEMMA CommitGrows ==
    ASSUME TypeOK, LogInv, NEW t \in Thread, NEW p
    PROVE  /\ events \subseteq EventsAfter(th[t].batch, p)
           /\ EventsAfter(th[t].batch, p) \subseteq events \cup th[t].evs
           /\ th[t].evs \subseteq EventsAfter(th[t].batch, p) \cup WithoutPid(th[t].batch, p).ev
<1> DEFINE b == th[t].batch
           new == {e \in b.ev : EventPid(e.seq) = p}
<1>1. b.ev \subseteq th[t].evs /\ th[t].evs \subseteq events \cup b.ev BY LogAt DEF LogLocal
<1>2. new \subseteq th[t].evs BY <1>1
<1>3. EventsAfter(b, p) = {f \in events : \A e \in new : e.ws # f.ws \/ Pos(e) # Pos(f)} \cup new
  BY DEF EventsAfter
<1>4. ASSUME NEW f \in events PROVE f \in EventsAfter(b, p)
  <2>1. CASE \E e \in new : e.ws = f.ws /\ Pos(e) = Pos(f)
    <3>1. PICK e \in new : e.ws = f.ws /\ Pos(e) = Pos(f) BY <2>1
    <3>2. e = f BY <1>2, <3>1 DEF LogInv, EventKeysUnique
    <3> QED BY <1>3, <3>2
  <2>2. CASE \A e \in new : e.ws # f.ws \/ Pos(e) # Pos(f) BY <1>3, <2>2
  <2> QED BY <2>1, <2>2
<1>5. WithoutPid(b, p).ev = {e \in b.ev : EventPid(e.seq) # p} BY DEF WithoutPid
<1> HIDE DEF b
<1>6. b.ev \subseteq new \cup {e \in b.ev : EventPid(e.seq) # p} OBVIOUS
<1>7. th[t].evs \subseteq EventsAfter(b, p) \cup WithoutPid(b, p).ev
  BY <1>1, <1>3, <1>4, <1>5, <1>6
<1> QED BY <1>2, <1>3, <1>4, <1>7 DEF b

\* A store request, answered or failed.
LEMMA BatchLog ==
    ASSUME TypeOK, LogInv, NEW t \in Thread, BatchWrite(t) \/ BatchWriteFail(t) \/ WriteRoute(t)
    PROVE  LogInv'
<1> DEFINE s == th[t]
<1>0. /\ s \in LocalState /\ LogLocal(s, clock, boot, local_seq, events) /\ clock \in Nat
      /\ acked \subseteq events /\ Dated(clock, docs) /\ Dated(clock, records)
  BY LogAt
<1>t. TypeOK' BY BatchType
<1>1. CASE BatchWrite(t)
  <2>1. PICK p \in Partition : CommitPartition(t, p) BY <1>1 DEF BatchWrite
  <2> DEFINE rest == WithoutPid(s.batch, p)
             c == IF rest = EmptyBatch THEN AfterUpsert(s.op, s.upserts) ELSE "commit"
             u == [s EXCEPT !.batch = rest, !.pc = c]
  <2>2. /\ s.pc = "commit" /\ th' = [th EXCEPT ![t] = u]
        /\ docs' = DocsAfter(s.batch, p) /\ events' = EventsAfter(s.batch, p)
        /\ UNCHANGED <<clock, boot, local_seq, acked, records>>
    BY <2>1 DEF CommitPartition, Become, memVars, procVars, histVars, envVars
  <2>3. u \in LocalState BY <1>t, <2>2 DEF TypeOK, ThreadsOK
  <2>4. /\ u.now = s.now /\ u.snap = s.snap /\ u.log = s.log /\ u.pc = c
        /\ u.upserts = s.upserts /\ u.evs = s.evs /\ u.batch = rest
    BY <1>0 DEF LocalState
  <2>5. events \subseteq events' /\ events' \subseteq events \cup s.evs /\ s.evs \subseteq events' \cup rest.ev
    BY <2>2, CommitGrows
  <2>6. s.batch.doc \in [Key -> MaybeRec \cup {Gone}] BY <1>0 DEF LocalState, Batch
  <2>7. Dated(clock, rest.doc) /\ rest.ev \subseteq s.batch.ev
    BY <1>0, <2>6, SentinelAssumption DEF WithoutPid, Dated, LogLocal
  <2>8. Dated(clock, docs') BY <1>0, <2>2, <2>6, SentinelAssumption DEF DocsAfter, Dated, LogLocal
  <2>9. c \in {"build", "commit"} \/ rest.ev = {} BY DEF EmptyBatch
  <2> HIDE DEF u, c, rest
  <2>10. LogLocal(u, clock, boot, local_seq, events') BY <1>0, <2>4, <2>5, <2>7, <2>9 DEF LogLocal
  <2> QED BY <1>0, <2>2, <2>3, <2>4, <2>5, <2>8, <2>10, LogQuiet
<1>2. CASE BatchWriteFail(t)
  <2> DEFINE u == [s EXCEPT !.pc = "unmap", !.batch = EmptyBatch, !.evs = {},
                            !.upserts = <<>>, !.dels = {}]
  <2>1. /\ th' = [th EXCEPT ![t] = u] \/ th' = [th EXCEPT ![t] = Idle]
        /\ UNCHANGED <<clock, boot, local_seq, events, acked, records, docs>>
    BY <1>2 DEF BatchWriteFail, Become, memVars, storeVars, procVars, envVars
  <2>2. CASE th' = [th EXCEPT ![t] = u]
    <3>1. u \in LocalState BY <1>t, <2>2 DEF TypeOK, ThreadsOK
    <3>2. /\ u.now = s.now /\ u.snap = s.snap /\ u.log = s.log
          /\ u.upserts = <<>> /\ u.evs = {} /\ u.batch = EmptyBatch
      BY <1>0 DEF LocalState
    <3>3. EmptyBatch.ev = {} /\ Dated(clock, EmptyBatch.doc)
      BY SentinelAssumption DEF EmptyBatch, Dated, NoRecords
    <3> HIDE DEF u
    <3>4. LogLocal(u, clock, boot, local_seq, events) BY <1>0, <3>2, <3>3 DEF LogLocal
    <3> QED BY <1>0, <2>1, <2>2, <3>1, <3>2, <3>4, LogQuiet
  <2>3. CASE th' = [th EXCEPT ![t] = Idle]
    <3>1. LogLocal(Idle, clock, boot, local_seq, events) /\ Idle.evs = {} BY <1>0, IdleLog DEF Idle
    <3> QED BY <1>0, <2>1, <2>3, <3>1, IdleType, LogQuiet
  <2> QED BY <2>1, <2>2, <2>3
<1>3. CASE WriteRoute(t)
  <2> DEFINE u == [s EXCEPT !.pc = "enforce"]
  <2>1. /\ s.pc = "route" /\ th' = [th EXCEPT ![t] = u]
        /\ UNCHANGED <<clock, boot, local_seq, events, acked, records, docs>>
    BY <1>3 DEF WriteRoute, Become, memVars, procVars, histVars, envVars
  <2>2. u \in LocalState BY <1>t, <2>1 DEF TypeOK, ThreadsOK
  <2>3. s.batch.ev = {} BY <1>0, <2>1 DEF LogLocal
  <2>4. LogLocal(u, clock, boot, local_seq, events) /\ u.evs = s.evs BY <1>0, <2>3, SameLog DEF LocalState
  <2> QED BY <1>0, <2>1, <2>2, <2>4, LogQuiet
<1> QED BY <1>1, <1>2, <1>3

\* UpsertRecordInMemory.
LEMMA UpsertLog ==
    ASSUME TypeOK, LogInv, NEW t \in Thread, UpsertMap(t) \/ UpsertIndex(t) \/ UpsertAccount(t)
    PROVE  LogInv'
<1> DEFINE s == th[t]
           r == Head(s.upserts)
<1>0. /\ s \in LocalState /\ LocalOK(s) /\ LogLocal(s, clock, boot, local_seq, events) /\ clock \in Nat
      /\ acked \subseteq events /\ Dated(clock, docs) /\ Dated(clock, records)
  BY LogAt
<1>t. TypeOK' BY UpsertType
<1>a. s.upserts \in Seq(Rec) /\ s.upserts # <<>> /\ s.batch.ev = {}
  BY <1>0 DEF UpsertMap, UpsertIndex, UpsertAccount, LocalState, LocalOK, LogLocal
<1>b. \A i \in 1..Len(s.upserts) : s.upserts[i].upd <= clock BY <1>0 DEF LogLocal
<1>c. r \in Rec /\ r.upd <= clock
  <2> DEFINE up == s.upserts
  <2> HIDE DEF up
  <2>1. Head(up) = up[1] /\ 1 \in 1..Len(up) /\ Head(up) \in Rec BY <1>a DEF up
  <2> QED BY <1>b, <2>1 DEF up
<1>1. CASE UpsertMap(t)
  <2> DEFINE u == [s EXCEPT !.pc = "index", !.delta = ChargeDelta(r)]
  <2>1. /\ th' = [th EXCEPT ![t] = u] /\ records' = [records EXCEPT ![r.key] = r]
        /\ UNCHANGED <<clock, boot, local_seq, events, acked, docs>>
    BY <1>1 DEF UpsertMap, Become, storeVars, procVars, histVars, envVars
  <2>2. u \in LocalState BY <1>t, <2>1 DEF TypeOK, ThreadsOK
  <2>3. Dated(clock, records')
    <3>1. records \in [Key -> MaybeRec] BY DEF TypeOK, SharedOK
    <3> HIDE DEF r
    <3> QED BY <1>0, <1>c, <2>1, <3>1 DEF Dated
  <2>4. LogLocal(u, clock, boot, local_seq, events) /\ u.evs = s.evs BY <1>0, <1>a, SameLog, ZenonT(60) DEF LocalState
  <2> QED BY <1>0, <2>1, <2>2, <2>3, <2>4, LogQuiet
<1>2. CASE UpsertIndex(t)
  <2> DEFINE u == [s EXCEPT !.pc = "account"]
  <2>1. /\ th' = [th EXCEPT ![t] = u]
        /\ UNCHANGED <<clock, boot, local_seq, events, acked, records, docs>>
    BY <1>2 DEF UpsertIndex, Become, storeVars, procVars, histVars, envVars
  <2>2. u \in LocalState BY <1>t, <2>1 DEF TypeOK, ThreadsOK
  <2>3. LogLocal(u, clock, boot, local_seq, events) /\ u.evs = s.evs BY <1>0, <1>a, SameLog DEF LocalState
  <2> QED BY <1>0, <2>1, <2>2, <2>3, LogQuiet
<1>3. CASE UpsertAccount(t)
  <2> DEFINE up == Tail(s.upserts)
             c == AfterUpsert(s.op, up)
             u == [s EXCEPT !.delta = 0, !.upserts = up, !.pc = c]
  <2>1. /\ th' = [th EXCEPT ![t] = u]
        /\ UNCHANGED <<clock, boot, local_seq, events, acked, records, docs>>
    BY <1>3 DEF UpsertAccount, Become, storeVars, procVars, histVars, envVars
  <2>2. u \in LocalState BY <1>t, <2>1 DEF TypeOK, ThreadsOK
  <2>3. /\ u.now = s.now /\ u.snap = s.snap /\ u.log = s.log
        /\ u.upserts = up /\ u.evs = s.evs /\ u.batch = s.batch
    BY <1>0 DEF LocalState
  <2>4. \A i \in 1..Len(up) : up[i].upd <= clock
    <3> DEFINE all == s.upserts
    <3> HIDE DEF all
    <3>1. Tail(all) \in Seq(Rec) /\ Len(Tail(all)) = Len(all) - 1 /\ Len(all) \in Nat
      BY <1>a DEF all
    <3>2. \A i \in 1..Len(Tail(all)) : Tail(all)[i] = all[i + 1] /\ i + 1 \in 1..Len(all)
      BY <1>a, <3>1 DEF all
    <3> QED BY <1>b, <3>2 DEF all
  <2> HIDE DEF u, up, c
  <2>5. LogLocal(u, clock, boot, local_seq, events) BY <1>0, <1>a, <2>3, <2>4 DEF LogLocal
  <2> QED BY <1>0, <2>1, <2>2, <2>3, <2>5, LogQuiet
<1> QED BY <1>1, <1>2, <1>3

\* Removal, eviction and the end of a request.
LEMMA DropLog ==
    ASSUME TypeOK, LogInv, NEW t \in Thread,
           \/ RemoveMap(t) \/ EvictMap(t) \/ DropAccount(t) \/ DropIndex(t) \/ EnforceDone(t)
    PROVE  LogInv'
<1> DEFINE s == th[t]
<1>0. /\ s \in LocalState /\ LogLocal(s, clock, boot, local_seq, events) /\ clock \in Nat
      /\ acked \subseteq events /\ Dated(clock, docs) /\ Dated(clock, records)
  BY LogAt
<1>a. s.batch.ev = {}
  BY <1>0 DEF RemoveMap, EvictMap, DropAccount, DropIndex, EnforceDone, LogLocal
<1>t. TypeOK' BY DropType
<1>b. ASSUME NEW u, th' = [th EXCEPT ![t] = u],
             UNCHANGED <<clock, boot, local_seq, events, acked, docs>>, Dated(clock, records'),
             u.now = s.now, u.snap = s.snap, u.upserts = s.upserts, u.batch = s.batch,
             u.evs = s.evs, u.log = s.log
      PROVE  LogInv'
  <2>1. u \in LocalState BY <1>t, <1>b DEF TypeOK, ThreadsOK
  <2>2. LogLocal(u, clock, boot, local_seq, events) BY <1>0, <1>a, <1>b, SameLog
  <2> QED BY <1>0, <1>b, <2>1, <2>2, LogQuiet
<1>c. \A k \in Key : Dated(clock, [records EXCEPT ![k] = None])
  <2>1. records \in [Key -> MaybeRec] BY DEF TypeOK, SharedOK
  <2> QED BY <1>0, <2>1, SentinelAssumption DEF Dated
<1>1. CASE RemoveMap(t)
  <2>1. PICK k \in s.dels :
          \/ /\ th' = [th EXCEPT ![t] = [s EXCEPT !.dels = @ \ {k}]]
             /\ UNCHANGED records
          \/ /\ records' = [records EXCEPT ![k] = None]
             /\ th' = [th EXCEPT ![t] = [s EXCEPT !.pc = "sub", !.dels = @ \ {k},
                                                  !.key = k, !.delta = Dropped(k)]]
    BY <1>1 DEF RemoveMap, Become
  <2>2. UNCHANGED <<clock, boot, local_seq, events, acked, docs>>
    BY <1>1 DEF RemoveMap, storeVars, procVars, histVars, envVars
  <2>3. k \in Key BY <1>0 DEF LocalState
  <2>4. CASE th' = [th EXCEPT ![t] = [s EXCEPT !.dels = @ \ {k}]] /\ UNCHANGED records
    <3> DEFINE u == [s EXCEPT !.dels = @ \ {k}]
    <3>1. /\ u.now = s.now /\ u.snap = s.snap /\ u.log = s.log
          /\ u.upserts = s.upserts /\ u.evs = s.evs /\ u.batch = s.batch
      BY <1>0 DEF LocalState
    <3> HIDE DEF u
    <3> QED BY <1>0, <1>b, <2>2, <2>4, <3>1 DEF u
  <2>5. CASE /\ records' = [records EXCEPT ![k] = None]
             /\ th' = [th EXCEPT ![t] = [s EXCEPT !.pc = "sub", !.dels = @ \ {k},
                                                  !.key = k, !.delta = Dropped(k)]]
    <3> DEFINE u == [s EXCEPT !.pc = "sub", !.dels = @ \ {k}, !.key = k, !.delta = Dropped(k)]
    <3>1. /\ u.now = s.now /\ u.snap = s.snap /\ u.log = s.log
          /\ u.upserts = s.upserts /\ u.evs = s.evs /\ u.batch = s.batch
      BY <1>0 DEF LocalState
    <3>2. th' = [th EXCEPT ![t] = u] /\ Dated(clock, records') BY <1>c, <2>3, <2>5
    <3> HIDE DEF u
    <3> QED BY <1>b, <2>2, <3>1, <3>2
  <2> QED BY <2>1, <2>4, <2>5
<1>2. CASE EvictMap(t)
  <2>1. PICK k \in Key :
          /\ records' = [records EXCEPT ![k] = None]
          /\ th' = [th EXCEPT ![t] = [s EXCEPT !.pc = "sub", !.key = k, !.delta = Dropped(k)]]
    BY <1>2 DEF EvictMap, Evictable, Become
  <2>2. UNCHANGED <<clock, boot, local_seq, events, acked, docs>>
    BY <1>2 DEF EvictMap, storeVars, procVars, histVars, envVars
  <2> DEFINE u == [s EXCEPT !.pc = "sub", !.key = k, !.delta = Dropped(k)]
  <2>3. /\ u.now = s.now /\ u.snap = s.snap /\ u.log = s.log
        /\ u.upserts = s.upserts /\ u.evs = s.evs /\ u.batch = s.batch
    BY <1>0 DEF LocalState
  <2>4. th' = [th EXCEPT ![t] = u] /\ Dated(clock, records') BY <1>c, <2>1
  <2> HIDE DEF u
  <2> QED BY <1>b, <2>2, <2>3, <2>4
<1>3. CASE DropAccount(t)
  <2> DEFINE u == [s EXCEPT !.pc = "unindex", !.delta = 0]
  <2>1. /\ th' = [th EXCEPT ![t] = u]
        /\ UNCHANGED <<clock, boot, local_seq, events, acked, docs, records>>
    BY <1>3 DEF DropAccount, Become, storeVars, procVars, histVars, envVars
  <2>2. /\ u.now = s.now /\ u.snap = s.snap /\ u.log = s.log
        /\ u.upserts = s.upserts /\ u.evs = s.evs /\ u.batch = s.batch
    BY <1>0 DEF LocalState
  <2> HIDE DEF u
  <2> QED BY <1>0, <1>b, <2>1, <2>2
<1>4. CASE DropIndex(t)
  <2> DEFINE u == [s EXCEPT !.key = None, !.pc = IF s.op = "compact" THEN "unmap" ELSE "enforce"]
  <2>1. /\ th' = [th EXCEPT ![t] = u]
        /\ UNCHANGED <<clock, boot, local_seq, events, acked, docs, records>>
    BY <1>4 DEF DropIndex, Become, storeVars, procVars, histVars, envVars
  <2>2. /\ u.now = s.now /\ u.snap = s.snap /\ u.log = s.log
        /\ u.upserts = s.upserts /\ u.evs = s.evs /\ u.batch = s.batch
    BY <1>0 DEF LocalState
  <2> HIDE DEF u
  <2> QED BY <1>0, <1>b, <2>1, <2>2
<1>5. CASE EnforceDone(t)
  <2>1. /\ th' = [th EXCEPT ![t] = Idle] /\ acked' = acked \cup s.evs
        /\ UNCHANGED <<clock, boot, local_seq, events, records, docs>>
    BY <1>5 DEF EnforceDone, Become, memVars, storeVars, envVars
  <2>2. s.evs \subseteq events BY <1>0, <1>a DEF LogLocal
  <2>3. LogLocal(Idle, clock, boot, local_seq, events) /\ Idle.evs = {} BY <1>0, IdleLog DEF Idle
  <2> QED BY <1>0, <2>1, <2>2, <2>3, IdleType, LogQuiet
<1> QED BY <1>1, <1>2, <1>3, <1>4, <1>5

\* Warmup and replay.
LEMMA WarmupLog ==
    ASSUME TypeOK, LogInv, NEW t \in Thread,
           \/ WarmupScan(t) \/ WarmupLoad(t)
           \/ ReplayCheckpoints(t) \/ ReplayScan(t) \/ ReplayEvent(t)
    PROVE  LogInv'
<1> DEFINE s == th[t]
<1>0. /\ s \in LocalState /\ LogLocal(s, clock, boot, local_seq, events) /\ clock \in Nat
      /\ acked \subseteq events /\ Dated(clock, docs) /\ Dated(clock, records)
  BY LogAt
<1>a. s.batch.ev = {}
  BY <1>0 DEF WarmupScan, WarmupLoad, ReplayCheckpoints, ReplayScan, ReplayEvent, LogLocal
<1>t. TypeOK' BY WarmupType
<1>1. UNCHANGED <<clock, boot, local_seq, events, acked, docs, records>>
  BY DEF WarmupScan, WarmupLoad, ReplayCheckpoints, ReplayScan, ReplayEvent,
         memVars, storeVars, procVars, histVars, envVars
<1>b. ASSUME NEW u, th' = [th EXCEPT ![t] = u], u.now = s.now, Dated(clock, u.snap),
             \A i \in 1..Len(u.upserts) : u.upserts[i].upd <= clock,
             u.batch = s.batch, u.evs = s.evs, u.log \subseteq events
      PROVE  LogInv'
  <2>1. u \in LocalState BY <1>t, <1>b DEF TypeOK, ThreadsOK
  <2>2. LogLocal(u, clock, boot, local_seq, events) BY <1>0, <1>a, <1>b DEF LogLocal
  <2> QED BY <1>0, <1>1, <1>b, <2>1, <2>2, LogQuiet
<1>c. /\ Dated(clock, s.snap) /\ s.log \subseteq events
      /\ \A i \in 1..Len(s.upserts) : s.upserts[i].upd <= clock
  BY <1>0 DEF LogLocal
<1>2. CASE WarmupScan(t)
  <2> DEFINE u == [s EXCEPT !.pc = "load", !.snap = IF ScanFinds THEN docs ELSE NoRecords]
  <2>1. th' = [th EXCEPT ![t] = u] BY <1>2 DEF WarmupScan, Become
  <2>2. /\ u.now = s.now /\ u.snap = (IF ScanFinds THEN docs ELSE NoRecords) /\ u.log = s.log
        /\ u.upserts = s.upserts /\ u.evs = s.evs /\ u.batch = s.batch
    BY <1>0 DEF LocalState
  <2>3. Dated(clock, NoRecords) BY SentinelAssumption DEF Dated, NoRecords
  <2> HIDE DEF u
  <2>4. Dated(clock, u.snap) BY <1>0, <2>2, <2>3
  <2> QED BY <1>b, <1>c, <2>1, <2>2, <2>4
<1>3. CASE WarmupLoad(t)
  <2>1. CASE th' = [th EXCEPT ![t] = [s EXCEPT !.pc = "ckpts"]]
    <3> DEFINE u == [s EXCEPT !.pc = "ckpts"]
    <3>1. /\ u.now = s.now /\ u.snap = s.snap /\ u.log = s.log
          /\ u.upserts = s.upserts /\ u.evs = s.evs /\ u.batch = s.batch
      BY <1>0 DEF LocalState
    <3>2. th' = [th EXCEPT ![t] = u] BY <2>1
    <3> HIDE DEF u
    <3> QED BY <1>b, <1>c, <3>1, <3>2
  <2>2. ASSUME NEW k \in Key, s.snap[k] # None,
               th' = [th EXCEPT ![t] = [s EXCEPT !.pc = "map",
                        !.snap = [@ EXCEPT ![k] = None], !.upserts = <<s.snap[k]>>]]
        PROVE  LogInv'
    <3> DEFINE sn == [s.snap EXCEPT ![k] = None]
               r == s.snap[k]
               u == [s EXCEPT !.pc = "map", !.snap = sn, !.upserts = <<r>>]
    <3>1. th' = [th EXCEPT ![t] = u] BY <2>2
    <3>2. /\ u.now = s.now /\ u.snap = sn /\ u.log = s.log
          /\ u.upserts = <<r>> /\ u.evs = s.evs /\ u.batch = s.batch
      BY <1>0 DEF LocalState
    <3>3. s.snap \in [Key -> MaybeRec] BY <1>0 DEF LocalState
    <3>4. Dated(clock, sn) BY <1>c, <3>3, SentinelAssumption DEF Dated
    <3>5. r.upd <= clock BY <1>c, <2>2, <3>3 DEF Dated, MaybeRec
    <3> HIDE DEF u, sn, r
    <3>6. \A i \in 1..Len(u.upserts) : u.upserts[i].upd <= clock
      <4>1. Len(u.upserts) = 1 /\ u.upserts[1] = r BY <3>2
      <4> QED BY <3>5, <4>1
    <3> QED BY <1>b, <1>c, <3>1, <3>2, <3>4, <3>6
  <2> QED BY <1>3, <2>1, <2>2 DEF WarmupLoad, Become
<1>4. CASE ReplayCheckpoints(t)
  <2> DEFINE u == [s EXCEPT !.pc = "events", !.op = "replay",
                            !.ckpts = IF ScanFinds THEN ckpt ELSE NoCkpts]
  <2>1. th' = [th EXCEPT ![t] = u] BY <1>4 DEF ReplayCheckpoints, Become
  <2>2. /\ u.now = s.now /\ u.snap = s.snap /\ u.log = s.log
        /\ u.upserts = s.upserts /\ u.evs = s.evs /\ u.batch = s.batch
    BY <1>0 DEF LocalState
  <2> HIDE DEF u
  <2> QED BY <1>b, <1>c, <2>1, <2>2
<1>5. CASE ReplayScan(t)
  <2> DEFINE lg == IF ScanFinds THEN BeyondCheckpoint(events, s.ckpts) ELSE {}
             u == [s EXCEPT !.pc = "replay", !.ckpts = NoCkpts, !.log = lg]
  <2>1. th' = [th EXCEPT ![t] = u] BY <1>5 DEF ReplayScan, Become
  <2>2. /\ u.now = s.now /\ u.snap = s.snap /\ u.log = lg
        /\ u.upserts = s.upserts /\ u.evs = s.evs /\ u.batch = s.batch
    BY <1>0 DEF LocalState
  <2>3. lg \subseteq events BY DEF BeyondCheckpoint
  <2> HIDE DEF u, lg
  <2> QED BY <1>b, <1>c, <2>1, <2>2, <2>3
<1>6. CASE ReplayEvent(t)
  <2>1. CASE th' = [th EXCEPT ![t] = [s EXCEPT !.pc = "enforce"]]
    <3> DEFINE u == [s EXCEPT !.pc = "enforce"]
    <3>1. /\ u.now = s.now /\ u.snap = s.snap /\ u.log = s.log
          /\ u.upserts = s.upserts /\ u.evs = s.evs /\ u.batch = s.batch
      BY <1>0 DEF LocalState
    <3>2. th' = [th EXCEPT ![t] = u] BY <2>1
    <3> HIDE DEF u
    <3> QED BY <1>b, <1>c, <3>1, <3>2
  <2>2. ASSUME NEW e \in s.log, NEW apply \in BOOLEAN,
               th' = [th EXCEPT ![t] = [s EXCEPT !.log = @ \ {e},
                        !.pc = IF apply THEN "map" ELSE "replay",
                        !.upserts = IF apply THEN <<e.rec>> ELSE <<>>]]
        PROVE  LogInv'
    <3> DEFINE lg == s.log \ {e}
               r == e.rec
               up == IF apply THEN <<r>> ELSE <<>>
               u == [s EXCEPT !.log = lg, !.pc = IF apply THEN "map" ELSE "replay", !.upserts = up]
    <3>1. th' = [th EXCEPT ![t] = u] BY <2>2
    <3>2. /\ u.now = s.now /\ u.snap = s.snap /\ u.log = lg
          /\ u.upserts = up /\ u.evs = s.evs /\ u.batch = s.batch
      BY <1>0 DEF LocalState
    <3>3. lg \subseteq events BY <1>c
    <3>4. r.upd <= clock BY <1>c DEF LogInv, LogStamped
    <3>5. \A i \in 1..Len(up) : up[i].upd <= clock
      <4> HIDE DEF r
      <4>1. CASE apply
        <5>1. Len(up) = 1 /\ up[1] = r BY <4>1
        <5> HIDE DEF up
        <5> QED BY <3>4, <5>1
      <4>2. CASE ~apply
        <5>1. Len(up) = 0 BY <4>2
        <5> HIDE DEF up
        <5> QED BY <5>1
      <4> QED BY <4>1, <4>2
    <3> HIDE DEF u, lg, up
    <3> QED BY <1>b, <1>c, <3>1, <3>2, <3>3, <3>5
  <2> QED BY <1>6, <2>1, <2>2 DEF ReplayEvent, Become
<1> QED BY <1>2, <1>3, <1>4, <1>5, <1>6

\* A new process starts with the invariant on any store whose events are not
\* from the future.
LEMMA FreshLog ==
    ASSUME NEW c \in Nat, NEW b, NEW q, NEW log
    PROVE  /\ \A t \in Thread : LogLocal(FreshThreads[t], c, b, q, log) /\ FreshThreads[t].evs = {}
           /\ Dated(c, NoRecords)
<1> DEFINE warm == [Idle EXCEPT !.pc = "scan", !.op = "warmup"]
<1>1. LogLocal(Idle, c, b, q, log) /\ Idle.evs = {} BY IdleLog DEF Idle
<1>2. /\ warm.now = Idle.now /\ warm.snap = Idle.snap /\ warm.upserts = Idle.upserts
      /\ warm.batch = Idle.batch /\ warm.evs = Idle.evs /\ warm.log = Idle.log
  BY DEF Idle
<1>3. Idle.batch.ev = {} BY DEF Idle, EmptyBatch
<1> HIDE DEF warm
<1>4. LogLocal(warm, c, b, q, log) /\ warm.evs = {} BY <1>1, <1>2, <1>3, SameLog
<1>5. \A t \in Thread : FreshThreads[t] = IF t = Main THEN warm ELSE Idle BY DEF FreshThreads, warm
<1>6. Dated(c, NoRecords) BY SentinelAssumption DEF Dated, NoRecords
<1> QED BY <1>1, <1>4, <1>5, <1>6

\* Time, crashes and the end of the run.
LEMMA EnvLog == ASSUME TypeOK, LogInv, Tick \/ Restart \/ Finished PROVE LogInv'
<1>0. clock \in Nat /\ boot \in Nat /\ boot <= clock /\ events \subseteq Event
  BY DEF TypeOK, SharedOK, LogInv
<1>1. CASE Tick
  <2>1. /\ clock' = clock + 1
        /\ UNCHANGED <<boot, local_seq, th, events, acked, records, docs>>
    BY <1>1 DEF Tick, memVars, storeVars, procVars, histVars
  <2>2. \A f : Dated(clock, f) /\ f \in [Key -> MaybeRec \cup {Gone}] => Dated(clock', f)
    <3> SUFFICES ASSUME NEW f, Dated(clock, f), NEW k \in Key, f[k] \in Rec PROVE f[k].upd <= clock'
      BY DEF Dated
    <3>1. f[k].upd <= clock /\ f[k].upd \in Nat BY DEF Dated, Rec
    <3> QED BY <1>0, <2>1, <3>1
  <2>3. Dated(clock', records') /\ Dated(clock', docs')
    <3>1. /\ records \in [Key -> MaybeRec \cup {Gone}] /\ docs \in [Key -> MaybeRec \cup {Gone}]
      BY DEF TypeOK, SharedOK
    <3> QED BY <2>1, <2>2, <3>1 DEF LogInv
  <2>4. LogStamped'
    <3> SUFFICES ASSUME NEW e \in events
                 PROVE  e.ts <= clock' /\ e.rec.upd <= clock' /\ (boot <= e.ts => e.seq <= local_seq)
      BY <2>1 DEF LogStamped
    <3>1. e \in Event /\ e.ts <= clock /\ e.rec.upd <= clock /\ (boot <= e.ts => e.seq <= local_seq)
      BY <1>0 DEF LogInv, LogStamped
    <3> QED BY <1>0, <2>1, <3>1 DEF Event, Rec
  <2>5. ASSUME NEW t \in Thread PROVE LogLocal(th[t], clock', boot, local_seq, events)
    <3> DEFINE s == th[t]
    <3>1. s \in LocalState /\ LogLocal(s, clock, boot, local_seq, events) BY LogAt
    <3>2. s.now <= clock' BY <1>0, <2>1, <3>1 DEF LocalState, LogLocal
    <3>3. Dated(clock', s.snap) /\ Dated(clock', s.batch.doc)
      <4>1. s.snap \in [Key -> MaybeRec \cup {Gone}] /\ s.batch.doc \in [Key -> MaybeRec \cup {Gone}]
        BY <3>1 DEF LocalState, Batch
      <4> QED BY <2>2, <3>1, <4>1 DEF LogLocal
    <3>4. ASSUME NEW i \in 1..Len(s.upserts) PROVE s.upserts[i].upd <= clock'
      <4>1. s.upserts[i] \in Rec /\ s.upserts[i].upd <= clock BY <3>1 DEF LocalState, LogLocal
      <4>2. s.upserts[i].upd \in Nat BY <4>1 DEF Rec
      <4> QED BY <1>0, <2>1, <4>1, <4>2
    <3>5. ASSUME NEW e \in s.evs PROVE e.ts <= clock' /\ e.rec.upd <= clock'
      <4>1. e \in Event /\ e.ts <= clock /\ e.rec.upd <= clock BY <3>1 DEF LocalState, LogLocal
      <4> QED BY <1>0, <2>1, <4>1 DEF Event, Rec
    <3> QED BY <3>1, <3>2, <3>3, <3>4, <3>5 DEF LogLocal
  <2>6. AckedDurable' /\ EventKeysUnique' BY <2>1 DEF LogInv, AckedDurable, EventKeysUnique
  <2> QED BY <1>0, <2>1, <2>3, <2>4, <2>5, <2>6 DEF LogInv
<1>2. CASE Restart
  <2>1. /\ clock' = clock + 1 /\ boot' = clock + 1 /\ local_seq' = 0 /\ th' = FreshThreads
        /\ records' = NoRecords /\ UNCHANGED <<events, acked, docs>>
    BY <1>2 DEF Restart, storeVars
  <2>2. clock' \in Nat /\ boot' <= clock' BY <1>0, <2>1
  <2>3. /\ \A t \in Thread : LogLocal(th'[t], clock', boot', local_seq', events') /\ th'[t].evs = {}
        /\ Dated(clock', records')
    BY <2>1, <2>2, FreshLog
  <2>4. Dated(clock', docs')
    <3> SUFFICES ASSUME NEW k \in Key, docs[k] \in Rec PROVE docs[k].upd <= clock'
      BY <2>1 DEF Dated
    <3>1. docs[k].upd <= clock /\ docs[k].upd \in Nat BY DEF LogInv, Dated, Rec
    <3> QED BY <1>0, <2>1, <3>1
  <2>5. LogStamped'
    <3> SUFFICES ASSUME NEW e \in events
                 PROVE  e.ts <= clock' /\ e.rec.upd <= clock' /\ ~(boot' <= e.ts)
      BY <2>1 DEF LogStamped
    <3>1. e \in Event /\ e.ts <= clock /\ e.rec.upd <= clock BY <1>0 DEF LogInv, LogStamped
    <3> QED BY <1>0, <2>1, <3>1 DEF Event, Rec
  <2>6. AckedDurable' BY <2>1 DEF LogInv, AckedDurable
  <2>7. EventKeysUnique' BY <2>1, <2>3 DEF LogInv, EventKeysUnique
  <2> QED BY <2>2, <2>3, <2>4, <2>5, <2>6, <2>7 DEF LogInv
<1>3. CASE Finished
  <2>1. UNCHANGED vars BY <1>3 DEF Finished
  <2> QED BY <2>1 DEF LogInv, LogStamped, AckedDurable, EventKeysUnique, vars, memVars,
                      storeVars, procVars, histVars, envVars
<1> QED BY <1>1, <1>2, <1>3

-----------------------------------------------------------------------------
(* The theorems *)

\* The initial state satisfies the invariant.
LEMMA InitLog == Init => LogInv
<1> SUFFICES ASSUME Init PROVE LogInv OBVIOUS
<1>1. clock = 1 /\ boot = 1 /\ events = {} /\ acked = {} /\ th = FreshThreads
      /\ records = NoRecords /\ docs = NoRecords
  BY DEF Init
<1>2. /\ \A t \in Thread : LogLocal(th[t], clock, boot, local_seq, events) /\ th[t].evs = {}
      /\ Dated(clock, NoRecords)
  BY <1>1, FreshLog
<1>3. EventKeysUnique BY <1>1, <1>2 DEF EventKeysUnique
<1> QED BY <1>1, <1>2, <1>3 DEF LogInv, LogStamped, AckedDurable

\* Every step keeps it.
LEMMA NextLog == TypeOK /\ LogInv /\ [Next]_vars => LogInv'
<1> SUFFICES ASSUME TypeOK, LogInv, [Next]_vars PROVE LogInv' OBVIOUS
<1>1. CASE UNCHANGED vars
  BY <1>1 DEF LogInv, LogStamped, AckedDurable, EventKeysUnique, vars, memVars,
              storeVars, procVars, histVars, envVars
<1>2. CASE Next
  <2>1. ASSUME NEW t \in Thread, WriteStart(t) \/ PinStart(t) \/ CompactStart(t) PROVE LogInv'
    BY <2>1, StartLog
  <2>2. ASSUME NEW t \in Thread, Step(t) PROVE LogInv'
    BY <2>2, WriteLog, PinLog, CompactLog, BatchLog, UpsertLog, DropLog, WarmupLog DEF Step
  <2> QED BY <1>2, <2>1, <2>2, EnvLog DEF Next
<1> QED BY <1>1, <1>2

\* A step of the engine is a step of the abstract log, or leaves it alone:
\* only a commit adds events, only the end of a request acknowledges.
LEMMA LogStep == TypeOK /\ LogInv /\ [Next]_vars => [DurableLog!Next]_<<events, acked>>
<1> SUFFICES ASSUME TypeOK, LogInv, [Next]_vars
             PROVE  \/ DurableLog!Append \/ DurableLog!Acknowledge \/ UNCHANGED <<events, acked>>
  BY DEF DurableLog!Next
<1>1. ASSUME NEW t \in Thread, BatchWrite(t) PROVE DurableLog!Append
  <2>1. PICK p \in Partition : CommitPartition(t, p) BY <1>1 DEF BatchWrite
  <2>2. events' = EventsAfter(th[t].batch, p) /\ acked' = acked
    BY <2>1 DEF CommitPartition, histVars
  <2> QED BY <2>2, CommitGrows DEF DurableLog!Append
<1>2. ASSUME NEW t \in Thread, CompactReport(t) \/ EnforceDone(t) PROVE DurableLog!Acknowledge
  <2>1. events' = events /\ acked' = acked \cup th[t].evs /\ th[t].pc \in {"unmap", "enforce"}
    BY <1>2 DEF CompactReport, EnforceDone, storeVars
  <2>2. th[t].evs \subseteq events /\ acked \subseteq events BY <2>1, LogAt DEF LogLocal
  <2> QED BY <2>1, <2>2 DEF DurableLog!Acknowledge
<1>3. ASSUME NEW t \in Thread,
             \/ WriteStart(t) \/ PinStart(t) \/ CompactStart(t)
             \/ WriteDedup(t) \/ WriteRecord(t) \/ WriteBuilt(t) \/ PinGet(t) \/ PinCheck(t)
             \/ CompactTomb(t) \/ CompactDelete(t) \/ CompactBuilt(t)
      PROVE  UNCHANGED <<events, acked>>
  <2>1. CASE WriteStart(t) \/ PinStart(t) BY <2>1 DEF WriteStart, PinStart, storeVars, histVars
  <2>2. CASE CompactStart(t) BY <2>2 DEF CompactStart, storeVars, histVars
  <2>3. CASE WriteDedup(t) \/ WriteBuilt(t) \/ PinGet(t) \/ CompactBuilt(t)
    BY <2>3 DEF WriteDedup, WriteBuilt, PinGet, CompactBuilt, storeVars, histVars
  <2>4. CASE WriteRecord(t) BY <2>4 DEF WriteRecord, AddRecord, storeVars, histVars
  <2>5. CASE PinCheck(t) BY <2>5 DEF PinCheck, storeVars, histVars
  <2>6. CASE CompactTomb(t) BY <2>6 DEF CompactTomb, Tombstone, storeVars, histVars
  <2>7. CASE CompactDelete(t) BY <2>7 DEF CompactDelete, Reclaim, storeVars, histVars
  <2> QED BY <1>3, <2>1, <2>2, <2>3, <2>4, <2>5, <2>6, <2>7
<1>4. ASSUME NEW t \in Thread,
             \/ BatchWriteFail(t) \/ WriteRoute(t)
             \/ UpsertMap(t) \/ UpsertIndex(t) \/ UpsertAccount(t)
             \/ RemoveMap(t) \/ EvictMap(t) \/ DropAccount(t) \/ DropIndex(t)
             \/ WarmupScan(t) \/ WarmupLoad(t)
             \/ ReplayCheckpoints(t) \/ ReplayScan(t) \/ ReplayEvent(t)
      PROVE  UNCHANGED <<events, acked>>
  BY <1>4 DEF BatchWriteFail, WriteRoute, UpsertMap, UpsertIndex, UpsertAccount, RemoveMap, EvictMap,
              DropAccount, DropIndex, WarmupScan, WarmupLoad, ReplayCheckpoints, ReplayScan,
              ReplayEvent, storeVars, histVars
<1>5. ASSUME Tick \/ Restart \/ Finished \/ UNCHANGED vars PROVE UNCHANGED <<events, acked>>
  BY <1>5 DEF Tick, Restart, Finished, vars, storeVars, histVars
<1> QED BY <1>1, <1>2, <1>3, <1>4, <1>5 DEF Next, Step

\* The invariant holds in every behaviour.
THEOREM LogInvariant == Spec => []LogInv
BY TypeCorrect, InitLog, NextLog, PTL DEF Spec

\* An event of a request that returned success stays in ds_events, through
\* all interleavings, failed batches, crashes and restarts.
THEOREM AckedEventsDurable == Spec => []AckedDurable
<1>1. LogInv => AckedDurable BY DEF LogInv
<1> QED BY <1>1, LogInvariant, PTL

\* Two different events never have the same (workspace, time, sequence) key,
\* also not across restarts, where local_seq_ starts again at zero.
THEOREM EventKeysStayUnique == Spec => []EventKeysUnique
<1>1. LogInv => EventKeysUnique BY DEF LogInv
<1> QED BY <1>1, LogInvariant, PTL

\* The engine implements a grow-only log that acknowledges what it holds.
THEOREM EngineImplementsLog == Spec => ImplementsLog
<1>1. Init => DurableLog!Init BY DEF Init, DurableLog!Init
<1> QED BY <1>1, TypeCorrect, LogInvariant, LogStep, PTL DEF Spec, ImplementsLog, DurableLog!Spec

-----------------------------------------------------------------------------
(* The course of a request and of Warmup *)

\* Every record of f is stored under its own key.
Homed(f) == \A k \in Key : f[k] \in Rec => f[k].key = k

\* Where the main thread can be: Warmup, the replay, and the eviction after it.
WarmPC == {"idle", "scan", "load", "ckpts", "events", "replay", "map", "index", "account",
           "enforce", "sub", "unindex"}

\* The main thread: Warmup and the replay write nothing, apply one record at a
\* time, and evict when the log is through.
WarmFlow(s) ==
    /\ s.pc \in WarmPC
    /\ s.batch = EmptyBatch /\ s.evs = {} /\ s.dels = {}
    /\ s.pc \in {"scan", "load", "ckpts"} => s.op = "warmup"
    /\ s.pc \in {"events", "replay", "enforce", "sub", "unindex"} => s.op = "replay"
    /\ s.pc \in {"map", "index", "account"} => s.op \in {"warmup", "replay"} /\ Len(s.upserts) = 1
    /\ s.pc \notin {"map", "index", "account"} => s.upserts = <<>>
    /\ s.pc \in {"enforce", "sub", "unindex"} => s.log = {}

\* The other threads: rows are committed before records are applied, and
\* records are applied before any are removed.
ReqFlow(s) ==
    /\ s.pc = "idle" \/ (s.pc \notin {"scan", "load", "ckpts", "events", "replay"}
                         /\ s.op \in {"write", "pin", "compact"})
    /\ s.pc \in {"idle", "get", "check"} => s.evs = {} /\ s.upserts = <<>>
    /\ s.pc = "build" => s.batch.ev = s.evs /\ (s.evs = {} => s.upserts = <<>> /\ s.dels = {})
    /\ s.pc \notin {"build", "commit"} => s.batch = EmptyBatch
    /\ s.pc \in {"route", "enforce", "sub", "unindex", "unmap"} => s.upserts = <<>>
    /\ s.pc \in {"route", "enforce"} => s.op # "compact"
    /\ s.op # "compact" => s.dels = {}
    /\ s.log = {}

\* The locals s of thread t are those of a request, or of Warmup, under way.
Flow(t, s) ==
    /\ Homed(s.snap) /\ Homed(s.batch.doc)
    /\ s.pc = "idle" => s = Idle
    /\ IF t = Main THEN WarmFlow(s) ELSE ReqFlow(s)

\* The background thread finds nothing to do.
NoGc == ~(EnableTombstoneGc /\ DiskPressure)

\* Whose turn it is: no request is accepted before Warmup has ended.
Turn ==
    /\ ready => th[Main].pc = "idle"
    /\ ~ready => \A c \in Client : th[c].pc = "idle"
    /\ NoGc => th[Gc].pc = "idle"

\* The course that every thread follows, from its locals alone.
FlowInv ==
    /\ Homed(records) /\ Homed(docs)
    /\ Turn
    /\ \A t \in Thread : Flow(t, th[t])

\* A step of one thread.
LEMMA FlowFrame ==
    ASSUME TypeOK, TypeOK', FlowInv, NEW t \in Thread, NEW u, th' = [th EXCEPT ![t] = u],
           Homed(records'), Homed(docs'), ready' = ready, Flow(t, u),
           th[t].pc # "idle" \/ (ready /\ t \in Client) \/ (t = Gc /\ ~NoGc)
    PROVE  FlowInv'
<1>1. th \in [Thread -> LocalState] /\ Main \in Thread /\ Gc \in Thread /\ Client \subseteq Thread
  BY DEF TypeOK, ThreadsOK, Thread
<1>2. th'[t] = u /\ \A x \in Thread \ {t} : th'[x] = th[x] BY <1>1
<1>3. ready \in BOOLEAN BY DEF TypeOK, SharedOK
<1>4. Turn'
  <2>1. CASE t = Main
    <3>1. ~ready /\ Main \notin Client /\ Gc # Main
      BY <2>1, ThreadAssumption DEF FlowInv, Turn
    <3> QED BY <1>1, <1>2, <2>1, <3>1 DEF FlowInv, Turn, NoGc
  <2>2. CASE t = Gc
    <3>1. ~NoGc /\ Gc # Main /\ Gc \notin Client BY <2>2, ThreadAssumption DEF FlowInv, Turn
    <3> QED BY <1>1, <1>2, <2>2, <3>1 DEF FlowInv, Turn, NoGc
  <2>3. CASE t \in Client
    <3>1. ready /\ t # Main /\ t # Gc BY <2>3, ThreadAssumption DEF FlowInv, Turn
    <3> QED BY <1>1, <1>2, <2>3, <3>1 DEF FlowInv, Turn, NoGc
  <2> QED BY <2>1, <2>2, <2>3 DEF Thread
<1>5. \A x \in Thread : Flow(x, th'[x])
  <2> SUFFICES ASSUME NEW x \in Thread PROVE Flow(x, th'[x]) OBVIOUS
  <2>1. CASE x = t BY <1>2, <2>1
  <2>2. CASE x # t
    <3>1. th'[x] = th[x] /\ Flow(x, th[x]) BY <1>2, <2>2 DEF FlowInv
    <3> QED BY <3>1
  <2> QED BY <2>1, <2>2
<1>6. (\A x \in Thread : Flow(x, th[x]))' BY <1>5 DEF Flow, WarmFlow, ReqFlow, Homed
<1> QED BY <1>4, <1>6 DEF FlowInv, Homed

\* A thread without a request.
LEMMA IdleFlow == ASSUME NEW t \in Thread PROVE Flow(t, Idle)
BY SentinelAssumption DEF Flow, Homed, Idle, NoRecords, EmptyBatch, WarmFlow, WarmPC, ReqFlow

\* What a step of a thread may rely on.
LEMMA FlowAt ==
    ASSUME TypeOK, FlowInv, NEW t \in Thread
    PROVE  /\ th[t] \in LocalState /\ LocalOK(th[t]) /\ Flow(t, th[t])
           /\ Homed(records) /\ Homed(docs)
           /\ records \in [Key -> MaybeRec] /\ docs \in [Key -> MaybeRec]
           /\ (t # Main => ReqFlow(th[t])) /\ (t = Main => WarmFlow(th[t]))
BY DEF TypeOK, ThreadsOK, SharedOK, FlowInv, Flow

\* A step that gives thread t the locals v.
LEMMA Moved ==
    ASSUME TypeOK, NEW t \in Thread, NEW v, th' = [th EXCEPT ![t] = v]
    PROVE  th'[t] = v /\ th' = [th EXCEPT ![t] = th'[t]] /\ \A x \in Thread \ {t} : th'[x] = th[x]
<1>1. DOMAIN th = Thread BY DEF TypeOK, ThreadsOK
<1> QED BY <1>1

\* Accepting a request, or a compaction of the background thread.
LEMMA StartShape ==
    ASSUME TypeOK, FlowInv, NEW t \in Thread, WriteStart(t) \/ PinStart(t) \/ CompactStart(t)
    PROVE  /\ t # Main /\ ((ready /\ t \in Client) \/ (t = Gc /\ ~NoGc)) /\ th[t].pc = "idle"
           /\ th' = [th EXCEPT ![t] = th'[t]]
           /\ UNCHANGED <<memVars, storeVars, procVars, histVars, clock, boot>>
           /\ th'[t].pc \in {"build", "get", "check"} /\ th'[t].op \in {"write", "pin", "compact"}
           /\ th'[t].evs = {} /\ th'[t].upserts = <<>> /\ th'[t].dels = {} /\ th'[t].log = {}
           /\ th'[t].batch = EmptyBatch /\ Homed(th'[t].snap)
<1> DEFINE u == th'[t]
<1>0. TypeOK' /\ UNCHANGED <<records, docs, ready>>
  BY StartType DEF WriteStart, PinStart, CompactStart, memVars, storeVars, procVars
<1>1. t # Main /\ ((ready /\ t \in Client) \/ (t = Gc /\ ~NoGc))
  BY ThreadAssumption DEF WriteStart, PinStart, CompactStart, Accept, NoGc
<1>2. Idle \in LocalState /\ th \in [Thread -> LocalState] BY IdleType DEF TypeOK, ThreadsOK
<1>3. /\ Idle.evs = {} /\ Idle.upserts = <<>> /\ Idle.dels = {} /\ Idle.log = {}
      /\ Idle.batch = EmptyBatch /\ Idle.snap = NoRecords
  BY DEF Idle
<1>4. Homed(NoRecords) /\ Homed(EmptyBatch.doc) /\ EmptyBatch.ev = {}
  BY SentinelAssumption DEF Homed, NoRecords, EmptyBatch
<1>5. /\ th' = [th EXCEPT ![t] = u]
      /\ u.pc \in {"build", "get", "check"} /\ u.op \in {"write", "pin", "compact"}
      /\ u.evs = {} /\ u.upserts = <<>> /\ u.dels = {} /\ u.log = {} /\ u.batch = EmptyBatch
      /\ Homed(u.snap)
  <2>1. CASE WriteStart(t)
    <3>1. PICK v \in LocalState : /\ th' = [th EXCEPT ![t] = v] /\ v.pc = "build" /\ v.op = "write"
            /\ v.evs = {} /\ v.upserts = <<>> /\ v.dels = {} /\ v.log = {} /\ v.batch = EmptyBatch
            /\ v.snap = NoRecords
      <4>1. PICK w \in Workspace, append \in AppendModes :
              th' = [th EXCEPT ![t] = [Idle EXCEPT !.pc = "build", !.op = "write", !.scope = {w},
                               !.now = clock, !.flag = append,
                               !.active = Cardinality(ActiveKeys(records, w)),
                               !.pinned = Cardinality(PinnedKeys(records, w))]]
        BY <2>1 DEF WriteStart, Become
      <4> DEFINE v == [Idle EXCEPT !.pc = "build", !.op = "write", !.scope = {w},
                               !.now = clock, !.flag = append,
                               !.active = Cardinality(ActiveKeys(records, w)),
                               !.pinned = Cardinality(PinnedKeys(records, w))]
      <4>2. /\ v.pc = "build" /\ v.op = "write" /\ v.snap = NoRecords
            /\ v.evs = {} /\ v.upserts = <<>> /\ v.dels = {} /\ v.log = {} /\ v.batch = EmptyBatch
        BY <1>2, <1>3 DEF LocalState
      <4>3. v \in LocalState BY <1>0, <4>1, Moved DEF TypeOK, ThreadsOK
      <4> QED BY <4>1, <4>2, <4>3
    <3> QED BY <1>4, <3>1, Moved
  <2>2. CASE PinStart(t)
    <3>1. PICK k \in Key, pin \in BOOLEAN :
            th' = [th EXCEPT ![t] = [Idle EXCEPT !.op = "pin", !.key = k, !.flag = pin,
                               !.pc = IF records[k] # None THEN "check" ELSE "get",
                               !.snap = [@ EXCEPT ![k] = records[k]]]]
      BY <2>2 DEF PinStart, Become
    <3> DEFINE sn == [Idle.snap EXCEPT ![k] = records[k]]
               c == IF records[k] # None THEN "check" ELSE "get"
    <3>2. Homed(sn) BY <1>3, <1>4, FlowAt DEF Homed, NoRecords
    <3> DEFINE v == [Idle EXCEPT !.op = "pin", !.key = k, !.flag = pin, !.pc = c, !.snap = sn]
    <3>3. th' = [th EXCEPT ![t] = v] BY <3>1
    <3>4. c \in {"get", "check"} OBVIOUS
    <3> HIDE DEF v
    <3>5. u = v /\ th' = [th EXCEPT ![t] = u] BY <3>3, Moved
    <3> USE DEF v
    <3> HIDE DEF sn, c
    <3>6. /\ u.pc = c /\ u.op = "pin" /\ u.snap = sn
          /\ u.evs = {} /\ u.upserts = <<>> /\ u.dels = {} /\ u.log = {} /\ u.batch = EmptyBatch
      BY <1>2, <1>3, <3>5 DEF LocalState
    <3> HIDE DEF u
    <3> QED BY <3>2, <3>4, <3>5, <3>6
  <2>3. CASE CompactStart(t)
    <3>0. PICK scope \in {{w} : w \in Workspace} \cup {Workspace} :
            /\ t = Gc => scope = Workspace
            /\ Become(t, [Idle EXCEPT !.pc = "build", !.op = "compact", !.scope = scope, !.now = clock,
                 !.snap = [k \in Key |-> IF WsOf[k] \in scope THEN records[k] ELSE None]])
      BY <2>3, Zenon DEF CompactStart
    <3>1. th' = [th EXCEPT ![t] =
                  [Idle EXCEPT !.pc = "build", !.op = "compact", !.scope = scope, !.now = clock,
                     !.snap = [k \in Key |-> IF WsOf[k] \in scope THEN records[k] ELSE None]]]
      BY <3>0, Zenon DEF Become
    <3> DEFINE sn == [k \in Key |-> IF WsOf[k] \in scope THEN records[k] ELSE None]
    <3>2. Homed(sn) BY FlowAt, SentinelAssumption DEF Homed
    <3>3. u = [Idle EXCEPT !.pc = "build", !.op = "compact", !.scope = scope, !.now = clock, !.snap = sn]
      BY <3>1, Moved
    <3>5. th' = [th EXCEPT ![t] = u] BY <3>1, Moved
    <3> HIDE DEF sn
    <3>6. /\ u.pc = "build" /\ u.op = "compact" /\ u.snap = sn
          /\ u.evs = {} /\ u.upserts = <<>> /\ u.dels = {} /\ u.log = {} /\ u.batch = EmptyBatch
      BY <1>2, <1>3, <3>3 DEF LocalState
    <3> HIDE DEF u
    <3> QED BY <3>2, <3>5, <3>6
  <2> QED BY <2>1, <2>2, <2>3
<1>6. UNCHANGED <<memVars, storeVars, procVars, histVars, clock, boot>> /\ th[t].pc = "idle"
  BY DEF WriteStart, PinStart, CompactStart, Accept
<1> HIDE DEF u
<1> QED BY <1>1, <1>5, <1>6 DEF u

\* A handler that starts has made no event yet, and is a client's if nothing runs in
\* the background.
LEMMA StartFlow ==
    ASSUME TypeOK, FlowInv, NEW t \in Thread, WriteStart(t) \/ PinStart(t) \/ CompactStart(t)
    PROVE  FlowInv' /\ th'[t].evs = {} /\ (NoGc => ready /\ t \in Client)
<1> DEFINE u == th'[t]
<1>0. TypeOK' /\ UNCHANGED <<records, docs, ready>>
  BY StartType, StartShape DEF memVars, storeVars, procVars
<1>1. Homed(EmptyBatch.doc) /\ EmptyBatch.ev = {}
  BY SentinelAssumption DEF Homed, NoRecords, EmptyBatch
<1>2. Flow(t, u)
  <2> HIDE DEF u
  <2> QED BY <1>1, StartShape DEF Flow, ReqFlow, u
<1> HIDE DEF u
<1>3. FlowInv' BY <1>0, <1>2, StartShape, FlowFrame, FlowAt DEF Homed, u
<1> QED BY <1>3, StartShape

\* Locals after a record operation was appended to the batch: record r with
\* event e is to be stored and applied, or a tombstone r to be deleted.
Appended(s, u, k, r, e) ==
    /\ r \in Rec /\ r.key = k /\ k \in Key
    /\ e.rec = r /\ e.ws = WsOf[k]
    /\ u.evs = s.evs \cup {e}
    /\ u.batch.ev = s.batch.ev \cup {e}
    /\ u.batch.ckpt = [s.batch.ckpt EXCEPT ![e.ws] = Pos(e)]
    /\ \/ /\ u.batch.doc = [s.batch.doc EXCEPT ![k] = r]
          /\ u.upserts = Append(s.upserts, r) /\ u.dels = s.dels
       \/ /\ r.tomb /\ u.batch.doc = [s.batch.doc EXCEPT ![k] = Gone]
          /\ u.upserts = s.upserts /\ u.dels = s.dels \cup {k}
    /\ u.op = s.op /\ u.log = s.log
    /\ s.pc \in {"build", "check"} /\ u.pc = (IF s.pc = "build" THEN "build" ELSE "commit")
    /\ Homed(u.snap)

\* Only the locals of t and local_seq_ change.
OnlyLocal(t) ==
    /\ th' = [th EXCEPT ![t] = th'[t]]
    /\ UNCHANGED <<memVars, storeVars, capacity_blocked, ready, histVars, envVars>>

\* Write appends one record of its input.
LEMMA WriteShape ==
    ASSUME TypeOK, NEW t \in Thread, WriteRecord(t)
    PROVE  /\ OnlyLocal(t) /\ local_seq' = local_seq + 1 /\ th'[t].snap = th[t].snap
           /\ \E k \in Key, r \in Rec, e \in Event :
                e = MakeEvent(r, clock, local_seq + 1) /\ r.upd = th[t].now /\ r.key = k
                /\ th[t].pc = "build" /\ th'[t].pc = "build" /\ th[t].op = "write"
                /\ th'[t].op = th[t].op /\ th'[t].log = th[t].log /\ th'[t].dels = th[t].dels
                /\ th'[t].evs = th[t].evs \cup {e} /\ th'[t].upserts = Append(th[t].upserts, r)
                /\ th'[t].batch = AppendRows(th[t].batch, k, r, e)
<1> DEFINE s == th[t]
<1>0. s \in LocalState BY DEF TypeOK, ThreadsOK
<1>1. PICK k \in Key, v \in Val, d \in DedupKey \cup {NoDedup}, p \in BOOLEAN :
        AddRecord(t, k, v, d, p)
  BY DEF WriteRecord
<1> DEFINE r == [key |-> k, val |-> v, dedup |-> d, pinned |-> p, tomb |-> FALSE,
                 upd |-> s.now, ver |-> 1]
           e == MakeEvent(r, clock, local_seq + 1)
           bt == AppendRows(s.batch, k, r, e)
           up == Append(s.upserts, r)
           m == s.n + 1
           act == s.active + 1
           pin == IF p THEN s.pinned + 1 ELSE s.pinned
           new == [s EXCEPT !.n = m, !.active = act, !.pinned = pin, !.batch = bt,
                            !.evs = @ \cup {e}, !.upserts = up]
<1>2. r \in Rec /\ r.upd = s.now /\ r.key = k BY <1>0 DEF LocalState, Rec
<1>3. e \in Event BY <1>2, MakeEventType DEF TypeOK, SharedOK
<1>4. /\ s.pc = "build" /\ s.op = "write" /\ th' = [th EXCEPT ![t] = new] /\ local_seq' = local_seq + 1
      /\ UNCHANGED <<memVars, storeVars, capacity_blocked, ready, histVars, envVars>>
  BY <1>1 DEF AddRecord, Become
<1>5. th'[t] = new /\ OnlyLocal(t)
  <2> HIDE DEF new
  <2> QED BY <1>4, Moved DEF OnlyLocal
<1>6. /\ new.pc = s.pc /\ new.op = s.op /\ new.log = s.log /\ new.dels = s.dels /\ new.snap = s.snap
      /\ new.evs = s.evs \cup {e} /\ new.upserts = up /\ new.batch = bt
  <2> HIDE DEF r, e, bt, up, m, act, pin
  <2> QED BY <1>0 DEF LocalState
<1> HIDE DEF new, s
<1> QED BY <1>2, <1>3, <1>4, <1>5, <1>6, ZenonT(60) DEF s

\* Pin appends the changed record, or answers that it may not.
LEMMA PinShape ==
    ASSUME TypeOK, NEW t \in Thread, PinCheck(t)
    PROVE  /\ OnlyLocal(t) /\ th[t].pc = "check"
           /\ \/ th'[t] = Idle /\ local_seq' = local_seq
              \/ /\ local_seq' = local_seq + 1 /\ th'[t].snap = NoRecords
                 /\ \E k \in Key, r \in Rec, e \in Event :
                      e = MakeEvent(r, clock, local_seq + 1) /\ r.upd = clock
                      /\ k = th[t].key /\ th[t].snap[k] \in Rec /\ r.key = th[t].snap[k].key
                      /\ th'[t].pc = "commit" /\ th'[t].op = th[t].op
                      /\ th'[t].log = th[t].log /\ th'[t].dels = th[t].dels
                      /\ th'[t].evs = {e} /\ th'[t].upserts = <<r>>
                      /\ th'[t].batch = AppendRows(th[t].batch, k, r, e)
<1> DEFINE s == th[t]
<1>0. s \in LocalState /\ LocalOK(s) BY DEF TypeOK, ThreadsOK
<1> DEFINE old == s.snap[s.key]
           vr == old.ver + 1
           r == [old EXCEPT !.pinned = s.flag, !.upd = clock, !.ver = vr]
           e == MakeEvent(r, clock, local_seq + 1)
           bt == AppendRows(s.batch, s.key, r, e)
           new == [s EXCEPT !.pc = "commit", !.snap = NoRecords, !.batch = bt,
                            !.evs = {e}, !.upserts = <<r>>]
<1>1. s.key \in Key /\ old \in Rec /\ s.pc = "check" BY <1>0 DEF LocalOK, PinCheck
<1>2. r \in Rec /\ r.upd = clock /\ r.key = old.key
  <2>1. s.flag \in BOOLEAN /\ clock \in Nat BY <1>0 DEF LocalState, TypeOK, SharedOK
  <2>2. vr \in Nat BY <1>1 DEF Rec
  <2> HIDE DEF old, s, vr
  <2> QED BY <1>1, <2>1, <2>2 DEF Rec
<1>3. e \in Event BY <1>2, MakeEventType DEF TypeOK, SharedOK
<1>4. UNCHANGED <<memVars, storeVars, capacity_blocked, ready, histVars, envVars>>
  BY DEF PinCheck
<1>5. \/ th' = [th EXCEPT ![t] = Idle] /\ local_seq' = local_seq
      \/ th' = [th EXCEPT ![t] = new] /\ local_seq' = local_seq + 1
  BY DEF PinCheck, Become
<1>6. /\ new.pc = "commit" /\ new.op = s.op /\ new.log = s.log /\ new.dels = s.dels /\ new.snap = NoRecords
      /\ new.evs = {e} /\ new.upserts = <<r>> /\ new.batch = bt
  <2> DEFINE ev == {e}
             up == <<r>>
             u == [s EXCEPT !.pc = "commit", !.snap = NoRecords, !.batch = bt, !.evs = ev, !.upserts = up]
  <2>1. /\ u.pc = "commit" /\ u.op = s.op /\ u.log = s.log /\ u.dels = s.dels /\ u.snap = NoRecords
        /\ u.evs = ev /\ u.upserts = up /\ u.batch = bt
    <3> HIDE DEF r, e, bt, ev, up
    <3> QED BY <1>0 DEF LocalState
  <2> QED BY <2>1
<1>7. CASE th' = [th EXCEPT ![t] = Idle] /\ local_seq' = local_seq
  BY <1>1, <1>4, <1>7, Moved DEF OnlyLocal
<1>8. CASE th' = [th EXCEPT ![t] = new] /\ local_seq' = local_seq + 1
  <2>1. th'[t] = new /\ OnlyLocal(t)
    <3> HIDE DEF new
    <3> QED BY <1>4, <1>8, Moved DEF OnlyLocal
  <2> HIDE DEF new, r, e, bt
  <2>2. \E k \in Key, r1 \in Rec, e1 \in Event :
                      e1 = MakeEvent(r1, clock, local_seq + 1) /\ r1.upd = clock
                      /\ k = th[t].key /\ th[t].snap[k] \in Rec /\ r1.key = th[t].snap[k].key
                      /\ th'[t].pc = "commit" /\ th'[t].op = th[t].op
                      /\ th'[t].log = th[t].log /\ th'[t].dels = th[t].dels
                      /\ th'[t].evs = {e1} /\ th'[t].upserts = <<r1>>
                      /\ th'[t].batch = AppendRows(th[t].batch, k, r1, e1)
    <3> USE <1>1, <1>2, <1>3
    <3> WITNESS s.key \in Key
    <3> WITNESS r \in Rec
    <3> WITNESS e \in Event
    <3> QED BY <1>1, <1>2, <1>6, <2>1 DEF e, bt
  <2> QED BY <1>1, <1>6, <1>8, <2>1, <2>2
<1> QED BY <1>5, <1>7, <1>8

\* Compact appends the tombstone of a candidate.
LEMMA TombShape ==
    ASSUME TypeOK, NEW t \in Thread, CompactTomb(t)
    PROVE  /\ OnlyLocal(t) /\ local_seq' = local_seq + 1
           /\ \E k \in Key, r \in Rec, e \in Event :
                e = MakeEvent(r, clock, local_seq + 1) /\ r.upd = th[t].now
                /\ th[t].snap[k] \in Rec /\ r.key = th[t].snap[k].key
                /\ th'[t].snap = [th[t].snap EXCEPT ![k] = None]
                /\ th[t].pc = "build" /\ th'[t].pc = "build" /\ th'[t].op = th[t].op
                /\ th'[t].log = th[t].log /\ th'[t].dels = th[t].dels
                /\ th'[t].evs = th[t].evs \cup {e} /\ th'[t].upserts = Append(th[t].upserts, r)
                /\ th'[t].batch = AppendRows(th[t].batch, k, r, e)
<1> DEFINE s == th[t]
<1>0. s \in LocalState BY DEF TypeOK, ThreadsOK
<1>1. PICK k \in Key : s.snap[k] # None /\ Tombstone(t, k) BY DEF CompactTomb, ToTomb
<1> DEFINE old == s.snap[k]
           now == s.now
           vr == Max2(old.ver, 1) + 1
           r == [old EXCEPT !.tomb = TRUE, !.upd = now, !.ver = vr]
           e == MakeEvent(r, clock, local_seq + 1)
           bt == AppendRows(s.batch, k, r, e)
           up == Append(s.upserts, r)
           m == s.n + 1
           sn == [s.snap EXCEPT ![k] = None]
           new == [s EXCEPT !.n = m, !.snap = sn, !.batch = bt, !.evs = @ \cup {e}, !.upserts = up]
<1>2. r \in Rec /\ r.upd = now /\ r.key = old.key /\ old \in Rec
  <2>1. old \in Rec /\ now \in Nat BY <1>0, <1>1 DEF LocalState, MaybeRec
  <2>2. vr \in Nat BY <2>1 DEF Rec, Max2
  <2> HIDE DEF old, now, vr
  <2> QED BY <2>1, <2>2 DEF Rec
<1>3. e \in Event BY <1>2, MakeEventType DEF TypeOK, SharedOK
<1>4. /\ s.pc = "build" /\ th' = [th EXCEPT ![t] = new] /\ local_seq' = local_seq + 1
      /\ UNCHANGED <<memVars, storeVars, capacity_blocked, ready, histVars, envVars>>
  BY <1>1 DEF Tombstone, Become
<1>5. th'[t] = new /\ OnlyLocal(t)
  <2> HIDE DEF new
  <2> QED BY <1>4, Moved DEF OnlyLocal
<1>6. /\ new.pc = s.pc /\ new.op = s.op /\ new.log = s.log /\ new.dels = s.dels /\ new.snap = sn
      /\ new.evs = s.evs \cup {e} /\ new.upserts = up /\ new.batch = bt
  <2> HIDE DEF r, e, bt, up, m, sn
  <2> QED BY <1>0 DEF LocalState
<1> HIDE DEF new, r, e, bt, sn, up
<1>7. \E k1 \in Key, r1 \in Rec, e1 \in Event :
                e1 = MakeEvent(r1, clock, local_seq + 1) /\ r1.upd = th[t].now
                /\ th[t].snap[k1] \in Rec /\ r1.key = th[t].snap[k1].key
                /\ th'[t].snap = [th[t].snap EXCEPT ![k1] = None]
                /\ th[t].pc = "build" /\ th'[t].pc = "build" /\ th'[t].op = th[t].op
                /\ th'[t].log = th[t].log /\ th'[t].dels = th[t].dels
                /\ th'[t].evs = th[t].evs \cup {e1} /\ th'[t].upserts = Append(th[t].upserts, r1)
                /\ th'[t].batch = AppendRows(th[t].batch, k1, r1, e1)
  <2> USE <1>2, <1>3
  <2> WITNESS k \in Key
  <2> WITNESS r \in Rec
  <2> WITNESS e \in Event
  <2> QED BY <1>4, <1>5, <1>6 DEF e, bt, sn, up
<1> QED BY <1>4, <1>5, <1>7

\* Compact appends the deletion of an old tombstone.
LEMMA ReclaimShape ==
    ASSUME TypeOK, NEW t \in Thread, CompactDelete(t)
    PROVE  /\ OnlyLocal(t) /\ local_seq' = local_seq + 1
           /\ \E k \in Key, r \in Rec, e \in Event :
                e = MakeEvent(r, clock, local_seq + 1) /\ r.tomb
                /\ r = th[t].snap[k]
                /\ th'[t].snap = [th[t].snap EXCEPT ![k] = None]
                /\ th[t].pc = "build" /\ th[t].op = "compact" /\ th'[t].pc = "build" /\ th'[t].op = th[t].op
                /\ th'[t].log = th[t].log /\ th'[t].dels = th[t].dels \cup {k}
                /\ th'[t].evs = th[t].evs \cup {e} /\ th'[t].upserts = th[t].upserts
                /\ th'[t].batch = AppendRows(th[t].batch, k, Gone, e)
<1> DEFINE s == th[t]
<1>0. s \in LocalState BY DEF TypeOK, ThreadsOK
<1>1. PICK k \in Key : s.snap[k] # None /\ s.snap[k].tomb /\ Reclaim(t, k) BY DEF CompactDelete, ToDelete
<1> DEFINE r == s.snap[k]
           e == MakeEvent(r, clock, local_seq + 1)
           bt == AppendRows(s.batch, k, Gone, e)
           m == s.n + 1
           sn == [s.snap EXCEPT ![k] = None]
           new == [s EXCEPT !.n = m, !.snap = sn, !.batch = bt, !.evs = @ \cup {e}, !.dels = @ \cup {k}]
<1>2. r \in Rec /\ r.tomb BY <1>0, <1>1 DEF LocalState, MaybeRec
<1>3. e \in Event BY <1>2, MakeEventType DEF TypeOK, SharedOK
<1>4. /\ s.pc = "build" /\ s.op = "compact" /\ th' = [th EXCEPT ![t] = new] /\ local_seq' = local_seq + 1
      /\ UNCHANGED <<memVars, storeVars, capacity_blocked, ready, histVars, envVars>>
  BY <1>1 DEF Reclaim, Become
<1>5. th'[t] = new /\ OnlyLocal(t)
  <2> HIDE DEF new
  <2> QED BY <1>4, Moved DEF OnlyLocal
<1>6. /\ new.pc = s.pc /\ new.op = s.op /\ new.log = s.log /\ new.dels = s.dels \cup {k} /\ new.snap = sn
      /\ new.evs = s.evs \cup {e} /\ new.upserts = s.upserts /\ new.batch = bt
  <2> HIDE DEF e, bt, m, sn
  <2> QED BY <1>0 DEF LocalState
<1> HIDE DEF new, r, e, bt, sn
<1>7. \E k1 \in Key, r1 \in Rec, e1 \in Event :
                e1 = MakeEvent(r1, clock, local_seq + 1) /\ r1.tomb
                /\ r1 = th[t].snap[k1]
                /\ th'[t].snap = [th[t].snap EXCEPT ![k1] = None]
                /\ th[t].pc = "build" /\ th[t].op = "compact" /\ th'[t].pc = "build" /\ th'[t].op = th[t].op
                /\ th'[t].log = th[t].log /\ th'[t].dels = th[t].dels \cup {k1}
                /\ th'[t].evs = th[t].evs \cup {e1} /\ th'[t].upserts = th[t].upserts
                /\ th'[t].batch = AppendRows(th[t].batch, k1, Gone, e1)
  <2> USE <1>2, <1>3
  <2> WITNESS k \in Key
  <2> WITNESS r \in Rec
  <2> WITNESS e \in Event
  <2> QED BY <1>4, <1>5, <1>6 DEF r, e, bt, sn
<1> QED BY <1>4, <1>5, <1>7

\* The four steps that append a record operation to a batch.
LEMMA AppendShape ==
    ASSUME TypeOK, FlowInv, NEW t \in Thread,
           WriteRecord(t) \/ PinCheck(t) \/ CompactTomb(t) \/ CompactDelete(t)
    PROVE  /\ OnlyLocal(t) /\ th[t].pc \in {"build", "check"} /\ t # Main
           /\ \/ th[t].pc = "check" /\ th'[t] = Idle /\ local_seq' = local_seq
              \/ /\ local_seq' = local_seq + 1
                 /\ \E k \in Key, r \in Rec, e \in Event :
                      /\ Appended(th[t], th'[t], k, r, e)
                      /\ e = MakeEvent(r, clock, local_seq + 1)
<1> DEFINE s == th[t]
           u == th'[t]
<1>0. s \in LocalState /\ Flow(t, s) BY FlowAt
<1>1. ASSUME NEW k \in Key, NEW r \in Rec, NEW e \in Event, e = MakeEvent(r, clock, local_seq + 1),
             r.key = k, u.evs = s.evs \cup {e},
             \/ u.batch = AppendRows(s.batch, k, r, e) /\ u.upserts = Append(s.upserts, r) /\ u.dels = s.dels
             \/ /\ r.tomb /\ u.batch = AppendRows(s.batch, k, Gone, e) /\ u.upserts = s.upserts
                /\ u.dels = s.dels \cup {k},
             u.op = s.op, u.log = s.log, s.pc \in {"build", "check"},
             u.pc = (IF s.pc = "build" THEN "build" ELSE "commit"), Homed(u.snap)
      PROVE  Appended(s, u, k, r, e)
  <2>1. e.rec = r /\ e.ws = WsOf[k] BY <1>1 DEF MakeEvent
  <2> HIDE DEF s, u
  <2> QED BY <1>1, <2>1 DEF Appended, AppendRows
<1>2. ASSUME s.pc \in {"build", "check"} PROVE t # Main BY <1>0, <1>2 DEF Flow, WarmFlow, WarmPC
<1>3. ASSUME NEW k \in Key PROVE Homed([s.snap EXCEPT ![k] = None])
  BY <1>0, SentinelAssumption DEF Flow, Homed, LocalState
<1>4. CASE WriteRecord(t)
  <2> HIDE DEF s, u
  <2>1. PICK k \in Key, r \in Rec, e \in Event :
                e = MakeEvent(r, clock, local_seq + 1) /\ r.key = k
                /\ s.pc = "build" /\ u.pc = "build"
                /\ u.op = s.op /\ u.log = s.log /\ u.dels = s.dels
                /\ u.evs = s.evs \cup {e} /\ u.upserts = Append(s.upserts, r)
                /\ u.batch = AppendRows(s.batch, k, r, e)
    BY <1>4, WriteShape DEF s, u
  <2>2. Homed(u.snap) BY <1>0, <1>4, WriteShape DEF Flow, s, u
  <2> QED BY <1>1, <1>2, <1>4, <2>1, <2>2, WriteShape DEF s, u
<1>5. CASE PinCheck(t)
  <2>1. CASE u = Idle /\ local_seq' = local_seq BY <1>2, <1>5, <2>1, PinShape
  <2>2. CASE ~(u = Idle /\ local_seq' = local_seq)
    <3> HIDE DEF s, u
    <3>1. PICK k \in Key, r \in Rec, e \in Event :
                      e = MakeEvent(r, clock, local_seq + 1)
                      /\ s.snap[k] \in Rec /\ r.key = s.snap[k].key
                      /\ u.pc = "commit" /\ u.op = s.op
                      /\ u.log = s.log /\ u.dels = s.dels
                      /\ u.evs = {e} /\ u.upserts = <<r>>
                      /\ u.batch = AppendRows(s.batch, k, r, e)
      BY <1>5, <2>2, PinShape DEF s, u
    <3>2. r.key = k BY <1>0, <3>1 DEF Flow, Homed
    <3>3. s.pc = "check" /\ u.snap = NoRecords /\ OnlyLocal(t) /\ local_seq' = local_seq + 1
      BY <1>5, <2>2, PinShape DEF s, u
    <3>4. t # Main /\ s.evs = {} /\ s.upserts = <<>> BY <1>0, <1>2, <3>3 DEF Flow, ReqFlow
    <3>5. Homed(u.snap) BY <3>3, SentinelAssumption DEF Homed, NoRecords
    <3>6. u.evs = s.evs \cup {e} /\ u.upserts = Append(s.upserts, r) BY <3>1, <3>4
    <3> QED BY <1>1, <3>1, <3>2, <3>3, <3>4, <3>5, <3>6 DEF s, u
  <2> QED BY <2>1, <2>2
<1>6. CASE CompactTomb(t)
  <2> HIDE DEF s, u
  <2>1. PICK k \in Key, r \in Rec, e \in Event :
                e = MakeEvent(r, clock, local_seq + 1)
                /\ s.snap[k] \in Rec /\ r.key = s.snap[k].key
                /\ u.snap = [s.snap EXCEPT ![k] = None]
                /\ s.pc = "build" /\ u.pc = "build" /\ u.op = s.op
                /\ u.log = s.log /\ u.dels = s.dels
                /\ u.evs = s.evs \cup {e} /\ u.upserts = Append(s.upserts, r)
                /\ u.batch = AppendRows(s.batch, k, r, e)
    BY <1>6, TombShape, ZenonT(60) DEF s, u
  <2>2. r.key = k BY <1>0, <2>1 DEF Flow, Homed
  <2> QED BY <1>1, <1>2, <1>3, <1>6, <2>1, <2>2, TombShape DEF s, u
<1>7. CASE CompactDelete(t)
  <2> HIDE DEF s, u
  <2>1. PICK k \in Key, r \in Rec, e \in Event :
                e = MakeEvent(r, clock, local_seq + 1) /\ r.tomb
                /\ r = s.snap[k]
                /\ u.snap = [s.snap EXCEPT ![k] = None]
                /\ s.pc = "build" /\ u.pc = "build" /\ u.op = s.op
                /\ u.log = s.log /\ u.dels = s.dels \cup {k}
                /\ u.evs = s.evs \cup {e} /\ u.upserts = s.upserts
                /\ u.batch = AppendRows(s.batch, k, Gone, e)
    BY <1>7, ReclaimShape DEF s, u
  <2>2. r.key = k BY <1>0, <2>1 DEF Flow, Homed
  <2>3. Homed(u.snap) BY <1>3, <2>1
  <2>4. Appended(s, u, k, r, e) BY <1>1, <2>1, <2>2, <2>3
  <2> QED BY <1>2, <1>7, <2>1, <2>4, ReclaimShape DEF s, u
<1> QED BY <1>4, <1>5, <1>6, <1>7

\* A record operation in the batch.
LEMMA AppendFlow ==
    ASSUME TypeOK, FlowInv, NEW t \in Thread,
           WriteRecord(t) \/ PinCheck(t) \/ CompactTomb(t) \/ CompactDelete(t)
    PROVE  FlowInv'
<1> DEFINE s == th[t]
           u == th'[t]
<1>0. s \in LocalState /\ Flow(t, s) BY FlowAt
<1>1. /\ OnlyLocal(t) /\ s.pc \in {"build", "check"} /\ t # Main
      /\ (u = Idle \/ \E k \in Key, r \in Rec, e \in Event : Appended(s, u, k, r, e))
  BY AppendShape
<1>2. /\ th' = [th EXCEPT ![t] = u] /\ Homed(records') /\ Homed(docs') /\ ready' = ready
  BY <1>1, FlowAt DEF OnlyLocal, memVars, storeVars, Homed
<1>3. TypeOK' BY WriteType, PinType, CompactType
<1>4. Flow(t, u)
  <2>1. CASE u = Idle BY <2>1, IdleFlow
  <2>2. ASSUME NEW k \in Key, NEW r \in Rec, NEW e \in Event, Appended(s, u, k, r, e) PROVE Flow(t, u)
    <3>1. /\ u.evs = s.evs \cup {e} /\ u.batch.ev = s.batch.ev \cup {e} /\ u.op = s.op /\ u.log = s.log
          /\ u.pc = (IF s.pc = "build" THEN "build" ELSE "commit") /\ Homed(u.snap)
          /\ (u.dels = s.dels \/ (s.pc = "build" => s.op = "compact") \/ u.dels = s.dels \cup {k})
      BY <2>2 DEF Appended
    <3>2. s.batch.doc \in [Key -> MaybeRec \cup {Gone}] /\ Homed(s.batch.doc) BY <1>0 DEF LocalState, Batch, Flow
    <3>3. Homed(u.batch.doc) BY <2>2, <3>2, SentinelAssumption DEF Appended, Homed
    <3>4. s.op # "compact" => u.dels = s.dels
      <4>1. CASE CompactDelete(t) BY <4>1 DEF CompactDelete, Reclaim
      <4>2. CASE WriteRecord(t) BY <4>2, WriteShape
      <4>3. CASE PinCheck(t) BY <2>2, <4>3, PinShape DEF Appended, Idle
      <4>4. CASE CompactTomb(t) BY <4>4, TombShape
      <4> QED BY <4>1, <4>2, <4>3, <4>4
    <3>5. ReqFlow(s) BY <1>0, <1>1 DEF Flow
    <3> HIDE DEF s, u
    <3>6. ReqFlow(u) BY <1>1, <3>1, <3>4, <3>5 DEF ReqFlow
    <3> QED BY <1>1, <3>1, <3>3, <3>6 DEF Flow
  <2> QED BY <1>1, <2>1, <2>2
<1>5. s.pc # "idle" BY <1>1
<1> HIDE DEF u
<1> QED BY <1>2, <1>3, <1>4, <1>5, FlowFrame

\* The data of a thread stays.
Same(s, u) ==
    /\ u.op = s.op /\ u.batch = s.batch /\ u.evs = s.evs /\ u.upserts = s.upserts
    /\ u.dels = s.dels /\ u.log = s.log

\* The steps of a request that change neither memory nor documents nor its rows.
LEMMA QuietShape ==
    ASSUME TypeOK, FlowInv, NEW t \in Thread,
           WriteDedup(t) \/ WriteBuilt(t) \/ PinGet(t) \/ CompactBuilt(t) \/ WriteRoute(t)
    PROVE  /\ th' = [th EXCEPT ![t] = th'[t]] /\ t # Main
           /\ UNCHANGED <<memVars, docs, events, ckpt, procVars, histVars, envVars>>
           /\ \/ th'[t] = Idle /\ th[t].evs = {} /\ th[t].pc \in {"build", "get"}
              \/ /\ Same(th[t], th'[t]) /\ Homed(th'[t].snap)
                 /\ \/ th[t].pc = "build" /\ th'[t].pc = "build"
                    \/ th[t].pc = "build" /\ th'[t].pc = "commit"
                    \/ th[t].pc = "build" /\ th'[t].pc = "unmap" /\ th[t].batch = EmptyBatch
                    \/ th[t].pc = "get" /\ th'[t].pc = "check"
                    \/ th[t].pc = "route" /\ th'[t].pc = "enforce"
<1> DEFINE s == th[t]
           u == th'[t]
<1>0. s \in LocalState /\ LocalOK(s) /\ Flow(t, s) BY FlowAt
<1>1. ASSUME s.pc \in {"build", "get", "route"} PROVE t # Main /\ ReqFlow(s)
  BY <1>0, <1>1 DEF Flow, WarmFlow, WarmPC
<1>2. CASE WriteDedup(t)
  <2>1. s.pc = "build" /\ th' = [th EXCEPT ![t] = [s EXCEPT !.n = @ + 1]] BY <1>2 DEF WriteDedup, Become
  <2>2. u = [s EXCEPT !.n = @ + 1] /\ th' = [th EXCEPT ![t] = u] BY <2>1, Moved
  <2>3. Same(s, u) /\ u.pc = s.pc /\ u.snap = s.snap BY <1>0, <2>2 DEF LocalState, Same
  <2> QED BY <1>0, <1>1, <1>2, <2>1, <2>2, <2>3 DEF WriteDedup, storeVars, Flow
<1>3. CASE WriteBuilt(t)
  <2> DEFINE v == [s EXCEPT !.pc = "commit"]
  <2>1. s.pc = "build" /\ th' = [th EXCEPT ![t] = IF s.batch = EmptyBatch THEN Idle ELSE v]
    BY <1>3 DEF WriteBuilt, Become
  <2>2. u = (IF s.batch = EmptyBatch THEN Idle ELSE v) /\ th' = [th EXCEPT ![t] = u] BY <2>1, Moved, ZenonT(60)
  <2>3. Same(s, v) /\ v.pc = "commit" /\ v.snap = s.snap BY <1>0 DEF LocalState, Same
  <2>4. s.batch = EmptyBatch => s.evs = {} BY <1>1, <2>1 DEF ReqFlow, EmptyBatch
  <2> HIDE DEF v
  <2> QED BY <1>0, <1>1, <1>3, <2>1, <2>2, <2>3, <2>4 DEF WriteBuilt, storeVars, Flow
<1>4. CASE PinGet(t)
  <2> DEFINE sn == [s.snap EXCEPT ![s.key] = docs[s.key]]
             v == [s EXCEPT !.pc = "check", !.snap = sn]
  <2>1. s.pc = "get" /\ (th' = [th EXCEPT ![t] = v] \/ th' = [th EXCEPT ![t] = Idle])
    BY <1>4 DEF PinGet, Become
  <2>2. Homed(sn) BY <1>0, FlowAt DEF Homed, Flow, LocalState
  <2>3. Same(s, v) /\ v.pc = "check" /\ v.snap = sn
    <3> HIDE DEF sn
    <3> QED BY <1>0 DEF LocalState, Same
  <2>4. s.evs = {} BY <1>1, <2>1 DEF ReqFlow
  <2> HIDE DEF v, sn
  <2>5. (u = v \/ u = Idle) /\ th' = [th EXCEPT ![t] = u] BY <2>1, Moved
  <2> QED BY <1>1, <1>4, <2>1, <2>2, <2>3, <2>4, <2>5 DEF PinGet, storeVars
<1>5. CASE CompactBuilt(t)
  <2> DEFINE c == IF s.batch = EmptyBatch THEN "unmap" ELSE "commit"
             v == [s EXCEPT !.pc = c, !.snap = NoRecords]
  <2>1. s.pc = "build" /\ th' = [th EXCEPT ![t] = v] BY <1>5 DEF CompactBuilt, Become
  <2>2. Homed(NoRecords) BY SentinelAssumption DEF Homed, NoRecords
  <2>3. Same(s, v) /\ v.pc = c /\ v.snap = NoRecords
    <3> HIDE DEF c
    <3> QED BY <1>0 DEF LocalState, Same
  <2> HIDE DEF v
  <2>4. u = v /\ th' = [th EXCEPT ![t] = u] BY <2>1, Moved
  <2> QED BY <1>1, <1>5, <2>1, <2>2, <2>3, <2>4 DEF CompactBuilt, storeVars
<1>6. CASE WriteRoute(t)
  <2> DEFINE v == [s EXCEPT !.pc = "enforce"]
  <2>1. s.pc = "route" /\ th' = [th EXCEPT ![t] = v] BY <1>6 DEF WriteRoute, Become
  <2>2. Same(s, v) /\ v.pc = "enforce" /\ v.snap = s.snap BY <1>0 DEF LocalState, Same
  <2> HIDE DEF v
  <2>3. u = v /\ th' = [th EXCEPT ![t] = u] BY <2>1, Moved
  <2> QED BY <1>0, <1>1, <1>6, <2>1, <2>2, <2>3 DEF WriteRoute, Flow
<1> QED BY <1>2, <1>3, <1>4, <1>5, <1>6

\* Steps that only move the control of a request.
LEMMA QuietFlow ==
    ASSUME TypeOK, FlowInv, NEW t \in Thread,
           WriteDedup(t) \/ WriteBuilt(t) \/ PinGet(t) \/ CompactBuilt(t) \/ WriteRoute(t)
    PROVE  FlowInv'
<1> DEFINE s == th[t]
           u == th'[t]
<1>0. TypeOK' BY WriteType, PinType, CompactType, BatchType
<1>1. Flow(t, s) BY FlowAt
<1>2. Flow(t, u) /\ s.pc # "idle"
  <2>1. CASE u = Idle BY <2>1, IdleFlow, QuietShape DEF Idle
  <2>2. CASE u # Idle
    <3>1. /\ t # Main /\ Same(s, u) /\ Homed(u.snap)
          /\ \/ s.pc = "build" /\ u.pc = "build"
             \/ s.pc = "build" /\ u.pc = "commit"
             \/ s.pc = "build" /\ u.pc = "unmap" /\ s.batch = EmptyBatch
             \/ s.pc = "get" /\ u.pc = "check"
             \/ s.pc = "route" /\ u.pc = "enforce"
      BY <2>2, QuietShape
    <3> HIDE DEF s, u
    <3>2. ReqFlow(s) /\ Homed(s.batch.doc) BY <1>1, <3>1 DEF Flow
    <3>3. ReqFlow(u) BY <3>1, <3>2 DEF ReqFlow, Same, EmptyBatch
    <3> QED BY <3>1, <3>2, <3>3 DEF Flow, Same
  <2> QED BY <2>1, <2>2
<1>3. th' = [th EXCEPT ![t] = u] /\ Homed(records') /\ Homed(docs') /\ ready' = ready
  BY QuietShape, FlowAt DEF memVars, procVars, Homed
<1> HIDE DEF u
<1> QED BY <1>0, <1>2, <1>3, FlowFrame

\* One partition of a batch.
LEMMA CommitShape ==
    ASSUME TypeOK, FlowInv, NEW t \in Thread, BatchWrite(t)
    PROVE  /\ th' = [th EXCEPT ![t] = th'[t]] /\ t # Main /\ th[t].pc = "commit"
           /\ UNCHANGED <<memVars, procVars, histVars, envVars>>
           /\ th'[t].op = th[t].op /\ th'[t].evs = th[t].evs /\ th'[t].upserts = th[t].upserts
           /\ th'[t].dels = th[t].dels /\ th'[t].log = th[t].log /\ th'[t].snap = th[t].snap
           /\ th'[t].pc = IF th'[t].batch = EmptyBatch THEN AfterUpsert(th[t].op, th[t].upserts) ELSE "commit"
           /\ \E p \in Partition : /\ th'[t].batch = WithoutPid(th[t].batch, p)
                                   /\ docs' = DocsAfter(th[t].batch, p)
                                   /\ events' = EventsAfter(th[t].batch, p)
                                   /\ ckpt' = CkptAfter(th[t].batch, p)
<1> DEFINE s == th[t]
           u == th'[t]
<1>0. s \in LocalState /\ Flow(t, s) BY FlowAt
<1>1. PICK p \in Partition : CommitPartition(t, p) BY DEF BatchWrite
<1> DEFINE rest == WithoutPid(s.batch, p)
           c == IF rest = EmptyBatch THEN AfterUpsert(s.op, s.upserts) ELSE "commit"
           v == [s EXCEPT !.batch = rest, !.pc = c]
<1>2. s.pc = "commit" /\ th' = [th EXCEPT ![t] = v] BY <1>1 DEF CommitPartition, Become
<1>3. /\ docs' = DocsAfter(s.batch, p) /\ events' = EventsAfter(s.batch, p)
      /\ ckpt' = CkptAfter(s.batch, p) /\ UNCHANGED <<memVars, procVars, histVars, envVars>>
  BY <1>1 DEF CommitPartition
<1>4. /\ v.op = s.op /\ v.evs = s.evs /\ v.upserts = s.upserts /\ v.dels = s.dels /\ v.log = s.log
      /\ v.snap = s.snap /\ v.batch = rest /\ v.pc = c
  <2> HIDE DEF rest, c
  <2> QED BY <1>0 DEF LocalState
<1> HIDE DEF v
<1>5. u = v /\ th' = [th EXCEPT ![t] = u] BY <1>2, Moved
<1>6. t # Main BY <1>0, <1>2 DEF Flow, WarmFlow, WarmPC
<1> QED BY <1>2, <1>3, <1>4, <1>5, <1>6

\* BatchWrite commits the rows of one partition.
LEMMA CommitFlow == ASSUME TypeOK, FlowInv, NEW t \in Thread, BatchWrite(t) PROVE FlowInv'
<1> DEFINE s == th[t]
           u == th'[t]
<1>0. TypeOK' /\ s \in LocalState /\ u \in LocalState BY BatchType, FlowAt DEF TypeOK, ThreadsOK
<1>1. /\ Homed(s.batch.doc) /\ Homed(docs) /\ Homed(s.snap) /\ ReqFlow(s) /\ docs \in [Key -> MaybeRec]
      /\ s.batch.doc \in [Key -> MaybeRec \cup {Gone}]
  BY <1>0, FlowAt, CommitShape DEF Flow, LocalState, Batch
<1>2. PICK p \in Partition : u.batch = WithoutPid(s.batch, p) /\ docs' = DocsAfter(s.batch, p)
  BY CommitShape
<1>3. Homed(docs') BY <1>1, <1>2, SentinelAssumption DEF Homed, DocsAfter
<1>4. Homed(u.batch.doc) BY <1>1, <1>2, SentinelAssumption DEF Homed, WithoutPid
<1>5. /\ th' = [th EXCEPT ![t] = u] /\ t # Main /\ s.pc = "commit" /\ records' = records /\ ready' = ready
      /\ u.op = s.op /\ u.evs = s.evs /\ u.upserts = s.upserts /\ u.dels = s.dels /\ u.log = s.log
      /\ u.snap = s.snap
      /\ u.pc = IF u.batch = EmptyBatch THEN AfterUpsert(s.op, s.upserts) ELSE "commit"
  BY CommitShape DEF memVars, procVars
<1>6. Homed(records') BY <1>5, FlowAt DEF Homed
<1> HIDE DEF s, u
<1>7. CASE u.batch # EmptyBatch
  <2>1. ReqFlow(u) BY <1>1, <1>5, <1>7 DEF ReqFlow
  <2> QED BY <1>0, <1>1, <1>3, <1>4, <1>5, <1>6, <1>7, <2>1, FlowFrame DEF Flow, s
<1>8. CASE u.batch = EmptyBatch
  <2>1. /\ u.pc \in {"map", "unmap", "route", "enforce"}
        /\ u.pc # "map" => u.upserts = <<>>
        /\ u.pc \in {"route", "enforce"} => u.op # "compact"
    BY <1>1, <1>5, <1>8 DEF AfterUpsert, ReqFlow
  <2>2. ReqFlow(u) BY <1>1, <1>5, <1>8, <2>1 DEF ReqFlow
  <2>3. u.pc # "idle" /\ s.pc # "idle" BY <1>5, <2>1
  <2>4. Flow(t, u) BY <1>1, <1>4, <1>5, <2>2, <2>3 DEF Flow
  <2> QED BY <1>0, <1>3, <1>5, <1>6, <2>3, <2>4, FlowFrame DEF s
<1> QED BY <1>7, <1>8

\* A partition fails.
LEMMA FailShape ==
    ASSUME TypeOK, FlowInv, NEW t \in Thread, BatchWriteFail(t)
    PROVE  /\ th' = [th EXCEPT ![t] = th'[t]] /\ t # Main /\ th[t].pc = "commit"
           /\ failed' = failed \cup th[t].evs
           /\ UNCHANGED <<memVars, storeVars, procVars, acked, unacked, envVars>>
           /\ \/ th'[t] = Idle
              \/ /\ th'[t].pc = "unmap" /\ th'[t].op = "compact" /\ th'[t].batch = EmptyBatch
                 /\ th'[t].evs = {} /\ th'[t].upserts = <<>> /\ th'[t].dels = {}
                 /\ th'[t].log = th[t].log /\ th'[t].snap = th[t].snap
<1> DEFINE s == th[t]
           u == th'[t]
           noevs == {}
           noups == <<>>
           nodels == {}
           v == [s EXCEPT !.pc = "unmap", !.batch = EmptyBatch, !.evs = noevs,
                          !.upserts = noups, !.dels = nodels]
<1>0. s \in LocalState /\ Flow(t, s) BY FlowAt
<1>1. /\ s.pc = "commit" /\ failed' = failed \cup s.evs
      /\ UNCHANGED <<memVars, storeVars, procVars, acked, unacked, envVars>>
      /\ (th' = [th EXCEPT ![t] = v] /\ s.op = "compact") \/ th' = [th EXCEPT ![t] = Idle]
  BY DEF BatchWriteFail, Become
<1>2. /\ v.pc = "unmap" /\ v.op = s.op /\ v.batch = EmptyBatch /\ v.evs = noevs
      /\ v.upserts = noups /\ v.dels = nodels /\ v.log = s.log /\ v.snap = s.snap
  <2> HIDE DEF noevs, noups, nodels
  <2> QED BY <1>0 DEF LocalState
<1> HIDE DEF v
<1>3. ((u = v /\ s.op = "compact") \/ u = Idle) /\ th' = [th EXCEPT ![t] = u] BY <1>1, Moved
<1>4. t # Main BY <1>0, <1>1 DEF Flow, WarmFlow, WarmPC
<1> QED BY <1>1, <1>2, <1>3, <1>4

\* BatchWrite fails, and the request ends with what was committed before.
LEMMA FailFlow == ASSUME TypeOK, FlowInv, NEW t \in Thread, BatchWriteFail(t) PROVE FlowInv'
<1> DEFINE s == th[t]
           u == th'[t]
<1>0. TypeOK' BY BatchType
<1>1. /\ th' = [th EXCEPT ![t] = u] /\ t # Main /\ s.pc # "idle" /\ ready' = ready
      /\ Homed(records') /\ Homed(docs')
  BY FailShape, FlowAt DEF memVars, storeVars, procVars, Homed
<1>2. Flow(t, u)
  <2>1. CASE u = Idle BY <2>1, IdleFlow
  <2>2. CASE u # Idle
    <3>1. /\ u.pc = "unmap" /\ u.op = "compact" /\ u.batch = EmptyBatch
          /\ u.evs = {} /\ u.upserts = <<>> /\ u.dels = {}
          /\ u.log = s.log /\ u.snap = s.snap
      BY <2>2, FailShape
    <3>2. Homed(s.snap) /\ s.log = {} BY <1>1, FlowAt DEF Flow, ReqFlow
    <3>3. Homed(EmptyBatch.doc) BY SentinelAssumption DEF Homed, EmptyBatch, NoRecords
    <3> HIDE DEF u, s
    <3> QED BY <1>1, <3>1, <3>2, <3>3 DEF Flow, ReqFlow
  <2> QED BY <2>1, <2>2
<1> HIDE DEF u
<1> QED BY <1>0, <1>1, <1>2, FlowFrame

\* Nothing follows the only element of a list.
LEMMA TailOne == ASSUME NEW S, NEW q \in Seq(S), Len(q) = 1 PROVE Tail(q) = <<>>
<1> DEFINE w == Tail(q)
<1>1. w \in Seq(S) /\ Len(w) = 0 OBVIOUS
<1> HIDE DEF w
<1>2. w = <<>> BY <1>1
<1> QED BY <1>2 DEF w

\* UpsertRecordInMemory.
LEMMA UpsertShape ==
    ASSUME TypeOK, FlowInv, NEW t \in Thread, UpsertMap(t) \/ UpsertIndex(t) \/ UpsertAccount(t)
    PROVE  /\ th' = [th EXCEPT ![t] = th'[t]] /\ th[t].upserts \in Seq(Rec) /\ th[t].upserts # <<>>
           /\ UNCHANGED <<storeVars, procVars, histVars, envVars>>
           /\ th'[t].op = th[t].op /\ th'[t].batch = th[t].batch /\ th'[t].evs = th[t].evs
           /\ th'[t].dels = th[t].dels /\ th'[t].log = th[t].log /\ th'[t].snap = th[t].snap
           /\ th'[t].ckpts = th[t].ckpts
           /\ \/ /\ th[t].pc = "map" /\ th'[t].pc = "index" /\ th'[t].upserts = th[t].upserts
                 /\ records' = [records EXCEPT ![Head(th[t].upserts).key] = Head(th[t].upserts)]
                 /\ index' = index
              \/ /\ th[t].pc = "index" /\ th'[t].pc = "account" /\ th'[t].upserts = th[t].upserts
                 /\ index' = [index EXCEPT ![Head(th[t].upserts).key] = IndexEntry(Head(th[t].upserts))]
                 /\ records' = records
              \/ /\ th[t].pc = "account" /\ th'[t].upserts = Tail(th[t].upserts)
                 /\ th'[t].pc = AfterUpsert(th[t].op, Tail(th[t].upserts))
                 /\ UNCHANGED <<records, index>>
<1> DEFINE s == th[t]
           u == th'[t]
           r == Head(s.upserts)
<1>0. s \in LocalState /\ LocalOK(s) BY FlowAt
<1>1. s.upserts \in Seq(Rec) /\ s.upserts # <<>>
  BY <1>0 DEF UpsertMap, UpsertIndex, UpsertAccount, LocalState, LocalOK
<1>2. UNCHANGED <<storeVars, procVars, histVars, envVars>> BY DEF UpsertMap, UpsertIndex, UpsertAccount
<1>3. CASE UpsertMap(t)
  <2> DEFINE d == ChargeDelta(r)
             v == [s EXCEPT !.pc = "index", !.delta = d]
  <2>1. s.pc = "map" /\ th' = [th EXCEPT ![t] = v] /\ records' = [records EXCEPT ![r.key] = r]
        /\ index' = index
    BY <1>3 DEF UpsertMap, Become
  <2>2. /\ v.op = s.op /\ v.batch = s.batch /\ v.evs = s.evs /\ v.dels = s.dels /\ v.log = s.log
        /\ v.snap = s.snap /\ v.pc = "index" /\ v.upserts = s.upserts /\ v.ckpts = s.ckpts
    <3> HIDE DEF d
    <3> QED BY <1>0 DEF LocalState
  <2> HIDE DEF v
  <2>3. u = v /\ th' = [th EXCEPT ![t] = u] BY <2>1, Moved
  <2> QED BY <1>1, <1>2, <2>1, <2>2, <2>3
<1>4. CASE UpsertIndex(t)
  <2> DEFINE v == [s EXCEPT !.pc = "account"]
  <2>1. s.pc = "index" /\ th' = [th EXCEPT ![t] = v] /\ index' = [index EXCEPT ![r.key] = IndexEntry(r)]
        /\ records' = records
    BY <1>4 DEF UpsertIndex, Become
  <2>2. /\ v.op = s.op /\ v.batch = s.batch /\ v.evs = s.evs /\ v.dels = s.dels /\ v.log = s.log
        /\ v.snap = s.snap /\ v.pc = "account" /\ v.upserts = s.upserts /\ v.ckpts = s.ckpts
    BY <1>0 DEF LocalState
  <2> HIDE DEF v
  <2>3. u = v /\ th' = [th EXCEPT ![t] = u] BY <2>1, Moved
  <2> QED BY <1>1, <1>2, <2>1, <2>2, <2>3
<1>5. CASE UpsertAccount(t)
  <2> DEFINE z == 0
             up == Tail(s.upserts)
             c == AfterUpsert(s.op, up)
             v == [s EXCEPT !.delta = z, !.upserts = up, !.pc = c]
  <2>1. s.pc = "account" /\ th' = [th EXCEPT ![t] = v] /\ UNCHANGED <<records, index>>
    BY <1>5 DEF UpsertAccount, Become
  <2>2. /\ v.op = s.op /\ v.batch = s.batch /\ v.evs = s.evs /\ v.dels = s.dels /\ v.log = s.log
        /\ v.snap = s.snap /\ v.pc = c /\ v.upserts = up /\ v.ckpts = s.ckpts
    <3> HIDE DEF z, up, c
    <3> QED BY <1>0 DEF LocalState
  <2> HIDE DEF v
  <2>3. u = v /\ th' = [th EXCEPT ![t] = u] BY <2>1, Moved
  <2> QED BY <1>1, <1>2, <2>1, <2>2, <2>3
<1> QED BY <1>3, <1>4, <1>5

\* The steps of UpsertMemoryRecord.
LEMMA UpsertFlow ==
    ASSUME TypeOK, FlowInv, NEW t \in Thread, UpsertMap(t) \/ UpsertIndex(t) \/ UpsertAccount(t)
    PROVE  FlowInv'
<1> DEFINE s == th[t]
           u == th'[t]
           r == Head(s.upserts)
<1>0. TypeOK' /\ Flow(t, s) /\ Homed(records) /\ Homed(docs) /\ records \in [Key -> MaybeRec]
  BY UpsertType, FlowAt
<1>1. /\ th' = [th EXCEPT ![t] = u] /\ s.upserts \in Seq(Rec) /\ s.upserts # <<>>
      /\ UNCHANGED <<docs, ready>>
      /\ u.op = s.op /\ u.batch = s.batch /\ u.evs = s.evs
      /\ u.dels = s.dels /\ u.log = s.log /\ u.snap = s.snap
      /\ \/ /\ s.pc = "map" /\ u.pc = "index" /\ u.upserts = s.upserts
            /\ records' = [records EXCEPT ![r.key] = r]
         \/ s.pc = "index" /\ u.pc = "account" /\ u.upserts = s.upserts /\ records' = records
         \/ /\ s.pc = "account" /\ u.upserts = Tail(s.upserts)
            /\ u.pc = AfterUpsert(s.op, Tail(s.upserts)) /\ records' = records
  BY UpsertShape DEF storeVars, procVars
<1>2. Homed(records') /\ Homed(docs')
  <2>1. s.upserts \in Seq(Rec) /\ s.upserts # <<>> BY <1>1
  <2>2. r \in Rec BY <2>1
  <2>3. r.key \in Key BY <2>2 DEF Rec
  <2> HIDE DEF r
  <2> QED BY <1>0, <1>1, <2>3 DEF Homed
<1>3. Flow(t, u)
  <2>1. CASE t = Main
    <3>1. WarmFlow(s) /\ Homed(s.snap) /\ Homed(s.batch.doc) BY <1>0, <2>1 DEF Flow
    <3>2. CASE u.upserts = s.upserts
      <4> HIDE DEF s, u, r
      <4>1. WarmFlow(u) BY <1>1, <3>1, <3>2 DEF WarmFlow, WarmPC, AfterUpsert
      <4>2. u.pc # "idle" BY <1>1, AfterUpsertType
      <4> QED BY <1>1, <2>1, <3>1, <4>1, <4>2 DEF Flow
    <3>3. CASE u.upserts = Tail(s.upserts) /\ s.pc = "account" /\ u.pc = AfterUpsert(s.op, Tail(s.upserts))
      <4>0. s.upserts \in Seq(Rec) /\ Len(s.upserts) = 1 BY <1>1, <3>1, <3>3 DEF WarmFlow
      <4>1. Tail(s.upserts) = <<>> BY <4>0, TailOne
      <4>2. s.op \in {"warmup", "replay"} BY <3>1, <3>3 DEF WarmFlow
      <4>3. u.pc = IF s.op = "warmup" THEN "load" ELSE "replay" BY <3>3, <4>1, <4>2 DEF AfterUpsert
      <4> HIDE DEF s, u, r
      <4>4. WarmFlow(u) BY <1>1, <3>1, <3>3, <4>1, <4>2, <4>3 DEF WarmFlow, WarmPC
      <4> QED BY <1>1, <2>1, <3>1, <4>3, <4>4 DEF Flow
    <3> QED BY <1>1, <3>2, <3>3
  <2>2. CASE t # Main
    <3>1. ReqFlow(s) /\ Homed(s.snap) /\ Homed(s.batch.doc) BY <1>0, <2>2 DEF Flow
    <3>2. u.pc # "idle" BY <1>1, AfterUpsertType
    <3> DEFINE up == Tail(s.upserts)
    <3>3. s.op \in {"write", "pin", "compact"} BY <1>1, <3>1 DEF ReqFlow
    <3>4. /\ AfterUpsert(s.op, up) \in {"map", "unmap", "route", "enforce"}
          /\ AfterUpsert(s.op, up) # "map" => up = <<>>
          /\ AfterUpsert(s.op, up) \in {"route", "enforce"} => s.op # "compact"
      <4> HIDE DEF up
      <4> QED BY <3>3 DEF AfterUpsert
    <3> HIDE DEF s, u, r, up
    <3>5. ReqFlow(u) BY <1>1, <3>1, <3>3, <3>4 DEF ReqFlow, up
    <3> QED BY <1>1, <2>2, <3>1, <3>2, <3>5 DEF Flow
  <2> QED BY <2>1, <2>2
<1>4. s.pc # "idle" BY <1>1
<1> HIDE DEF u
<1> QED BY <1>0, <1>1, <1>2, <1>3, <1>4, FlowFrame

\* Removal, eviction and the ends of requests.
LEMMA DropShape ==
    ASSUME TypeOK, FlowInv, NEW t \in Thread,
           RemoveMap(t) \/ EvictMap(t) \/ DropAccount(t) \/ DropIndex(t)
    PROVE  /\ th' = [th EXCEPT ![t] = th'[t]] /\ th'[t].log = th[t].log
           /\ UNCHANGED <<storeVars, procVars, histVars, envVars>>
           /\ th'[t].op = th[t].op /\ th'[t].batch = th[t].batch /\ th'[t].evs = th[t].evs
           /\ th'[t].upserts = th[t].upserts /\ th'[t].snap = th[t].snap /\ th'[t].ckpts = th[t].ckpts
           /\ \/ /\ th[t].pc = "unmap" /\ th'[t].pc = "unmap" /\ UNCHANGED <<records, index>>
                 /\ \E k \in th[t].dels : records[k] = None /\ th'[t].dels = th[t].dels \ {k}
              \/ /\ th[t].pc = "unmap" /\ th'[t].pc = "sub" /\ index' = index
                 /\ \E k \in th[t].dels : /\ records' = [records EXCEPT ![k] = None] /\ th'[t].key = k
                                          /\ th'[t].dels = th[t].dels \ {k}
              \/ /\ th[t].pc = "enforce" /\ th'[t].pc = "sub" /\ index' = index /\ ~WithinLimit
                 /\ th'[t].dels = th[t].dels
                 /\ \E k \in Key : records' = [records EXCEPT ![k] = None] /\ th'[t].key = k
              \/ /\ th[t].pc = "sub" /\ th'[t].pc = "unindex" /\ th'[t].key = th[t].key
                 /\ th'[t].dels = th[t].dels /\ UNCHANGED <<records, index>>
              \/ /\ th[t].pc = "unindex" /\ th'[t].pc = (IF th[t].op = "compact" THEN "unmap" ELSE "enforce")
                 /\ th'[t].dels = th[t].dels /\ records' = records
                 /\ index' = [index EXCEPT ![th[t].key] = None]
<1> DEFINE s == th[t]
           u == th'[t]
<1>0. s \in LocalState BY FlowAt
<1>1. UNCHANGED <<storeVars, procVars, histVars, envVars>> BY DEF RemoveMap, EvictMap, DropAccount, DropIndex
<1>2. CASE RemoveMap(t)
  <2>1. PICK k \in s.dels :
          /\ s.pc = "unmap" /\ index' = index
          /\ \/ /\ records[k] = None
                /\ th' = [th EXCEPT ![t] = [s EXCEPT !.dels = @ \ {k}]]
                /\ records' = records
             \/ /\ records' = [records EXCEPT ![k] = None]
                /\ th' = [th EXCEPT ![t] = [s EXCEPT !.pc = "sub", !.dels = @ \ {k},
                                                     !.key = k, !.delta = Dropped(k)]]
    BY <1>2 DEF RemoveMap, Become
  <2> DEFINE d == Dropped(k)
             rest == s.dels \ {k}
             v == [s EXCEPT !.dels = rest]
             w == [s EXCEPT !.pc = "sub", !.dels = rest, !.key = k, !.delta = d]
  <2>2. /\ v.op = s.op /\ v.batch = s.batch /\ v.evs = s.evs /\ v.upserts = s.upserts /\ v.snap = s.snap
        /\ v.dels = rest /\ v.pc = s.pc /\ v.log = s.log /\ v.ckpts = s.ckpts
    <3> HIDE DEF rest
    <3> QED BY <1>0 DEF LocalState
  <2>3. /\ w.op = s.op /\ w.batch = s.batch /\ w.evs = s.evs /\ w.upserts = s.upserts /\ w.snap = s.snap
        /\ w.dels = rest /\ w.pc = "sub" /\ w.log = s.log /\ w.key = k /\ w.ckpts = s.ckpts
    <3> HIDE DEF rest, d
    <3> QED BY <1>0 DEF LocalState
  <2>4. \/ records[k] = None /\ th' = [th EXCEPT ![t] = v] /\ records' = records
        \/ records' = [records EXCEPT ![k] = None] /\ th' = [th EXCEPT ![t] = w]
    BY <2>1
  <2> HIDE DEF v, w
  <2>5. CASE records[k] = None /\ th' = [th EXCEPT ![t] = v] /\ records' = records
    <3>1. u = v /\ th' = [th EXCEPT ![t] = u] BY <2>5, Moved
    <3> QED BY <1>1, <2>1, <2>2, <2>5, <3>1
  <2>6. CASE records' = [records EXCEPT ![k] = None] /\ th' = [th EXCEPT ![t] = w]
    <3>1. u = w /\ th' = [th EXCEPT ![t] = u] BY <2>6, Moved
    <3> QED BY <1>1, <2>1, <2>3, <2>6, <3>1
  <2> QED BY <2>4, <2>5, <2>6
<1>3. CASE EvictMap(t)
  <2>1. PICK k \in Key :
          /\ s.pc = "enforce" /\ index' = index /\ ~WithinLimit
          /\ records' = [records EXCEPT ![k] = None]
          /\ th' = [th EXCEPT ![t] = [s EXCEPT !.pc = "sub", !.key = k, !.delta = Dropped(k)]]
    BY <1>3 DEF EvictMap, Evictable, Become
  <2> DEFINE d == Dropped(k)
             v == [s EXCEPT !.pc = "sub", !.key = k, !.delta = d]
  <2>2. /\ v.op = s.op /\ v.batch = s.batch /\ v.evs = s.evs /\ v.upserts = s.upserts /\ v.snap = s.snap
        /\ v.dels = s.dels /\ v.pc = "sub" /\ v.log = s.log /\ v.key = k /\ v.ckpts = s.ckpts
    <3> HIDE DEF d
    <3> QED BY <1>0 DEF LocalState
  <2>3. th' = [th EXCEPT ![t] = v] BY <2>1
  <2> HIDE DEF v
  <2>4. u = v /\ th' = [th EXCEPT ![t] = u] BY <2>3, Moved
  <2> QED BY <1>1, <2>1, <2>2, <2>4
<1>4. CASE DropAccount(t)
  <2> DEFINE z == 0
             v == [s EXCEPT !.pc = "unindex", !.delta = z]
  <2>1. s.pc = "sub" /\ th' = [th EXCEPT ![t] = v] /\ UNCHANGED <<records, index>>
    BY <1>4 DEF DropAccount, Become
  <2>2. /\ v.op = s.op /\ v.batch = s.batch /\ v.evs = s.evs /\ v.upserts = s.upserts /\ v.snap = s.snap
        /\ v.dels = s.dels /\ v.pc = "unindex" /\ v.log = s.log /\ v.key = s.key /\ v.ckpts = s.ckpts
    <3> HIDE DEF z
    <3> QED BY <1>0 DEF LocalState
  <2> HIDE DEF v
  <2>3. u = v /\ th' = [th EXCEPT ![t] = u] BY <2>1, Moved
  <2> QED BY <1>1, <2>1, <2>2, <2>3
<1>5. CASE DropIndex(t)
  <2> DEFINE c == IF s.op = "compact" THEN "unmap" ELSE "enforce"
             v == [s EXCEPT !.key = None, !.pc = c]
  <2>1. /\ s.pc = "unindex" /\ th' = [th EXCEPT ![t] = v] /\ records' = records
        /\ index' = [index EXCEPT ![s.key] = None]
    BY <1>5 DEF DropIndex, Become
  <2>2. /\ v.op = s.op /\ v.batch = s.batch /\ v.evs = s.evs /\ v.upserts = s.upserts /\ v.snap = s.snap
        /\ v.dels = s.dels /\ v.pc = c /\ v.log = s.log /\ v.ckpts = s.ckpts
    <3> HIDE DEF c
    <3> QED BY <1>0 DEF LocalState
  <2> HIDE DEF v
  <2>3. u = v /\ th' = [th EXCEPT ![t] = u] BY <2>1, Moved
  <2> QED BY <1>1, <2>1, <2>2, <2>3
<1> QED BY <1>2, <1>3, <1>4, <1>5

\* The steps of a removal and of an eviction.
LEMMA DropFlow ==
    ASSUME TypeOK, FlowInv, NEW t \in Thread,
           RemoveMap(t) \/ EvictMap(t) \/ DropAccount(t) \/ DropIndex(t)
    PROVE  FlowInv'
<1> DEFINE s == th[t]
           u == th'[t]
<1>0. /\ TypeOK' /\ Flow(t, s) /\ Homed(records) /\ Homed(docs) /\ records \in [Key -> MaybeRec]
      /\ s \in LocalState
  BY DropType, FlowAt
<1>1. /\ th' = [th EXCEPT ![t] = u] /\ UNCHANGED <<docs, ready>>
      /\ u.op = s.op /\ u.batch = s.batch /\ u.evs = s.evs /\ u.upserts = s.upserts /\ u.snap = s.snap
      /\ u.log = s.log /\ (u.dels = s.dels \/ (s.pc = "unmap" /\ u.dels \subseteq s.dels))
      /\ s.pc \in {"unmap", "enforce", "sub", "unindex"}
      /\ \/ s.pc = "unmap" /\ u.pc \in {"unmap", "sub"}
         \/ s.pc = "enforce" /\ u.pc = "sub"
         \/ s.pc = "sub" /\ u.pc = "unindex"
         \/ s.pc = "unindex" /\ u.pc = (IF s.op = "compact" THEN "unmap" ELSE "enforce")
      /\ (records' = records \/ \E k \in Key : records' = [records EXCEPT ![k] = None])
  <2>1. s.dels \subseteq Key BY <1>0 DEF LocalState
  <2> QED BY <2>1, DropShape DEF storeVars, procVars
<1>2. Homed(records') /\ Homed(docs') BY <1>0, <1>1, SentinelAssumption DEF Homed
<1>3. Flow(t, u)
  <2> HIDE DEF s, u
  <2>1. CASE t = Main
    <3>1. WarmFlow(u) BY <1>0, <1>1, <2>1 DEF Flow, WarmFlow, WarmPC
    <3> QED BY <1>0, <1>1, <2>1, <3>1 DEF Flow
  <2>2. CASE t # Main
    <3>1. ReqFlow(u) BY <1>0, <1>1, <2>2 DEF Flow, ReqFlow
    <3> QED BY <1>0, <1>1, <2>2, <3>1 DEF Flow
  <2> QED BY <2>1, <2>2
<1>4. s.pc # "idle" BY <1>1
<1> HIDE DEF u
<1> QED BY <1>0, <1>1, <1>2, <1>3, <1>4, FlowFrame

\* The end of a request, or of Warmup.
LEMMA DoneShape ==
    ASSUME TypeOK, FlowInv, NEW t \in Thread, CompactReport(t) \/ EnforceDone(t)
    PROVE  /\ th' = [th EXCEPT ![t] = th'[t]] /\ th'[t] = Idle
           /\ acked' = acked \cup th[t].evs
           /\ UNCHANGED <<memVars, storeVars, failed, unacked, envVars>>
           /\ th[t].upserts = <<>> /\ th[t].dels = {} /\ th[t].batch = EmptyBatch
           /\ ready' = (ready \/ t = Main)
           /\ th[t].pc \in {"unmap", "enforce"} /\ (t = Main => th[t].pc = "enforce")
<1> DEFINE s == th[t]
<1>0. Flow(t, s) BY FlowAt
<1>1. /\ th' = [th EXCEPT ![t] = Idle] /\ acked' = acked \cup s.evs
      /\ UNCHANGED <<memVars, storeVars, failed, unacked, envVars>>
      /\ \/ s.pc = "unmap" /\ s.dels = {} /\ ready' = ready
         \/ s.pc = "enforce" /\ ready' = (ready \/ t = Main)
  BY DEF CompactReport, EnforceDone, Become
<1>2. th'[t] = Idle /\ th' = [th EXCEPT ![t] = th'[t]] BY <1>1, Moved
<1>3. s.upserts = <<>> /\ s.dels = {} /\ s.batch = EmptyBatch /\ (t = Main => s.pc = "enforce")
  BY <1>0, <1>1 DEF Flow, WarmFlow, ReqFlow, WarmPC
<1>4. ready \in BOOLEAN BY DEF TypeOK, SharedOK
<1> QED BY <1>1, <1>2, <1>3, <1>4

\* A request, or Warmup, ends.
LEMMA DoneFlow ==
    ASSUME TypeOK, FlowInv, NEW t \in Thread, CompactReport(t) \/ EnforceDone(t)
    PROVE  FlowInv'
<1>0. TypeOK' BY CompactType, DropType
<1>1. /\ th' = [th EXCEPT ![t] = Idle] /\ th[t].pc # "idle"
      /\ Homed(records') /\ Homed(docs') /\ ready' = (ready \/ t = Main)
  BY DoneShape, FlowAt DEF memVars, storeVars, Homed
<1>2. Flow(t, Idle) BY IdleFlow
<1>3. CASE t # Main
  <2>1. ready' = ready BY <1>1, <1>3 DEF TypeOK, SharedOK
  <2> QED BY <1>0, <1>1, <1>2, <2>1, FlowFrame
<1>4. CASE t = Main
  <2>1. /\ th'[Main] = Idle /\ \A x \in Thread \ {Main} : th'[x] = th[x]
        /\ Gc \in Thread /\ Gc # Main /\ ready'
    BY <1>1, <1>4, Moved, ThreadAssumption DEF Thread
  <2>2. Turn' BY <2>1 DEF FlowInv, Turn, NoGc, Idle
  <2>3. \A x \in Thread : Flow(x, th'[x])
    <3> SUFFICES ASSUME NEW x \in Thread PROVE Flow(x, th'[x]) OBVIOUS
    <3>1. CASE x = Main BY <1>2, <1>4, <2>1, <3>1
    <3>2. CASE x # Main
      <4>1. th'[x] = th[x] /\ Flow(x, th[x]) BY <2>1, <3>2 DEF FlowInv
      <4> QED BY <4>1
    <3> QED BY <3>1, <3>2
  <2>4. (\A x \in Thread : Flow(x, th[x]))' BY <2>3 DEF Flow, WarmFlow, ReqFlow, Homed
  <2> QED BY <1>1, <2>2, <2>4 DEF FlowInv, Homed
<1> QED BY <1>3, <1>4

\* Warmup and the replay read the store.
LEMMA WarmShape ==
    ASSUME TypeOK, FlowInv, NEW t \in Thread,
           WarmupScan(t) \/ WarmupLoad(t) \/ ReplayCheckpoints(t) \/ ReplayScan(t) \/ ReplayEvent(t)
    PROVE  /\ th' = [th EXCEPT ![t] = th'[t]] /\ t = Main
           /\ UNCHANGED <<memVars, storeVars, procVars, histVars, envVars>>
           /\ th'[t].batch = th[t].batch /\ th'[t].evs = th[t].evs /\ th'[t].dels = th[t].dels
           /\ \/ /\ th[t].pc = "scan" /\ th'[t].pc = "load" /\ th'[t].op = th[t].op
                 /\ th'[t].upserts = th[t].upserts /\ th'[t].log = th[t].log
                 /\ th'[t].snap = IF ScanFinds THEN docs ELSE NoRecords
              \/ /\ th[t].pc = "load" /\ th'[t].pc = "ckpts" /\ th'[t].op = th[t].op
                 /\ th[t].snap = NoRecords /\ th'[t].snap = th[t].snap
                 /\ th'[t].upserts = th[t].upserts /\ th'[t].log = th[t].log
              \/ /\ th[t].pc = "load" /\ th'[t].pc = "map" /\ th'[t].op = th[t].op /\ th'[t].log = th[t].log
                 /\ \E k \in Key : /\ th[t].snap[k] \in Rec /\ th'[t].upserts = <<th[t].snap[k]>>
                                   /\ th'[t].snap = [th[t].snap EXCEPT ![k] = None]
              \/ /\ th[t].pc = "ckpts" /\ th'[t].pc = "events" /\ th'[t].op = "replay"
                 /\ th'[t].ckpts = IF ScanFinds THEN ckpt ELSE NoCkpts
                 /\ th'[t].upserts = th[t].upserts /\ th'[t].log = th[t].log /\ th'[t].snap = th[t].snap
              \/ /\ th[t].pc = "events" /\ th'[t].pc = "replay" /\ th'[t].op = th[t].op
                 /\ th'[t].log = IF ScanFinds THEN BeyondCheckpoint(events, th[t].ckpts) ELSE {}
                 /\ th'[t].upserts = th[t].upserts /\ th'[t].snap = th[t].snap
              \/ /\ th[t].pc = "replay" /\ th'[t].pc = "enforce" /\ th'[t].op = th[t].op
                 /\ th[t].log = {} /\ th'[t].log = th[t].log
                 /\ th'[t].upserts = th[t].upserts /\ th'[t].snap = th[t].snap
              \/ /\ th[t].pc = "replay" /\ th'[t].op = th[t].op /\ th'[t].snap = th[t].snap
                 /\ \E e \in th[t].log :
                      /\ e.rec \in Rec /\ th'[t].log = th[t].log \ {e}
                      /\ IF records[e.rec.key] = None \/ IsIncomingNewer(records[e.rec.key], e.rec)
                         THEN th'[t].pc = "map" /\ th'[t].upserts = <<e.rec>>
                         ELSE th'[t].pc = "replay" /\ th'[t].upserts = <<>>
<1> DEFINE s == th[t]
           u == th'[t]
<1>0. s \in LocalState /\ Flow(t, s) BY FlowAt
<1>1. UNCHANGED <<memVars, storeVars, procVars, histVars, envVars>>
  BY DEF WarmupScan, WarmupLoad, ReplayCheckpoints, ReplayScan, ReplayEvent
<1>2. s.pc \in {"scan", "load", "ckpts", "events", "replay"}
  BY DEF WarmupScan, WarmupLoad, ReplayCheckpoints, ReplayScan, ReplayEvent
<1>3. t = Main BY <1>0, <1>2 DEF Flow, ReqFlow
<1>4. CASE WarmupScan(t)
  <2> DEFINE sn == IF ScanFinds THEN docs ELSE NoRecords
             v == [s EXCEPT !.pc = "load", !.snap = sn]
  <2>1. s.pc = "scan" /\ th' = [th EXCEPT ![t] = v] BY <1>4 DEF WarmupScan, Become
  <2>2. /\ v.pc = "load" /\ v.snap = sn /\ v.op = s.op /\ v.batch = s.batch /\ v.evs = s.evs
        /\ v.dels = s.dels /\ v.upserts = s.upserts /\ v.log = s.log
    <3> HIDE DEF sn
    <3> QED BY <1>0 DEF LocalState
  <2> HIDE DEF v
  <2>3. u = v /\ th' = [th EXCEPT ![t] = u] BY <2>1, Moved
  <2> QED BY <1>1, <1>3, <2>1, <2>2, <2>3
<1>5. CASE WarmupLoad(t)
  <2>1. /\ s.pc = "load"
        /\ \/ s.snap = NoRecords /\ th' = [th EXCEPT ![t] = [s EXCEPT !.pc = "ckpts"]]
           \/ \E k \in Key : s.snap[k] # None /\ th' = [th EXCEPT ![t] =
                [s EXCEPT !.pc = "map", !.snap = [@ EXCEPT ![k] = None], !.upserts = <<s.snap[k]>>]]
    BY <1>5 DEF WarmupLoad, Become
  <2>2. CASE s.snap = NoRecords /\ th' = [th EXCEPT ![t] = [s EXCEPT !.pc = "ckpts"]]
    <3> DEFINE v == [s EXCEPT !.pc = "ckpts"]
    <3>1. /\ v.pc = "ckpts" /\ v.snap = s.snap /\ v.op = s.op /\ v.batch = s.batch /\ v.evs = s.evs
          /\ v.dels = s.dels /\ v.upserts = s.upserts /\ v.log = s.log
      BY <1>0 DEF LocalState
    <3>2. th' = [th EXCEPT ![t] = v] BY <2>2
    <3> HIDE DEF v
    <3>3. u = v /\ th' = [th EXCEPT ![t] = u] BY <3>2, Moved
    <3> QED BY <1>1, <1>3, <2>1, <2>2, <3>1, <3>3
  <2>3. ASSUME NEW k \in Key, s.snap[k] # None, th' = [th EXCEPT ![t] =
                [s EXCEPT !.pc = "map", !.snap = [@ EXCEPT ![k] = None], !.upserts = <<s.snap[k]>>]]
        PROVE  /\ th' = [th EXCEPT ![t] = u] /\ u.pc = "map" /\ u.op = s.op /\ u.log = s.log
               /\ u.batch = s.batch /\ u.evs = s.evs /\ u.dels = s.dels
               /\ s.snap[k] \in Rec /\ u.upserts = <<s.snap[k]>> /\ u.snap = [s.snap EXCEPT ![k] = None]
    <3> DEFINE sn == [s.snap EXCEPT ![k] = None]
               up == <<s.snap[k]>>
               v == [s EXCEPT !.pc = "map", !.snap = sn, !.upserts = up]
    <3>1. s.snap[k] \in Rec BY <1>0, <2>3 DEF LocalState, MaybeRec
    <3>2. th' = [th EXCEPT ![t] = v] BY <2>3
    <3>3. /\ v.pc = "map" /\ v.snap = sn /\ v.op = s.op /\ v.batch = s.batch /\ v.evs = s.evs
          /\ v.dels = s.dels /\ v.upserts = up /\ v.log = s.log
      <4> HIDE DEF sn, up
      <4> QED BY <1>0 DEF LocalState
    <3> HIDE DEF v
    <3>4. u = v /\ th' = [th EXCEPT ![t] = u] BY <3>2, Moved
    <3> QED BY <3>1, <3>3, <3>4
  <2> HIDE DEF u
  <2> QED BY <1>1, <1>3, <2>1, <2>2, <2>3 DEF u
<1>6. CASE ReplayCheckpoints(t)
  <2> DEFINE c == IF ScanFinds THEN ckpt ELSE NoCkpts
             v == [s EXCEPT !.pc = "events", !.op = "replay", !.ckpts = c]
  <2>1. s.pc = "ckpts" /\ th' = [th EXCEPT ![t] = v] BY <1>6 DEF ReplayCheckpoints, Become
  <2>2. /\ v.pc = "events" /\ v.snap = s.snap /\ v.op = "replay" /\ v.batch = s.batch /\ v.evs = s.evs
        /\ v.dels = s.dels /\ v.upserts = s.upserts /\ v.log = s.log /\ v.ckpts = c
    <3> HIDE DEF c
    <3> QED BY <1>0 DEF LocalState
  <2> HIDE DEF v
  <2>3. u = v /\ th' = [th EXCEPT ![t] = u] BY <2>1, Moved
  <2> QED BY <1>1, <1>3, <2>1, <2>2, <2>3
<1>7. CASE ReplayScan(t)
  <2> DEFINE lg == IF ScanFinds THEN BeyondCheckpoint(events, s.ckpts) ELSE {}
             v == [s EXCEPT !.pc = "replay", !.ckpts = NoCkpts, !.log = lg]
  <2>1. s.pc = "events" /\ th' = [th EXCEPT ![t] = v] BY <1>7 DEF ReplayScan, Become
  <2>2. /\ v.pc = "replay" /\ v.snap = s.snap /\ v.op = s.op /\ v.batch = s.batch /\ v.evs = s.evs
        /\ v.dels = s.dels /\ v.upserts = s.upserts /\ v.log = lg
    <3> HIDE DEF lg
    <3> QED BY <1>0 DEF LocalState
  <2> HIDE DEF v
  <2>3. u = v /\ th' = [th EXCEPT ![t] = u] BY <2>1, Moved
  <2> QED BY <1>1, <1>3, <2>1, <2>2, <2>3
<1>8. CASE ReplayEvent(t)
  <2>1. /\ s.pc = "replay"
        /\ \/ s.log = {} /\ th' = [th EXCEPT ![t] = [s EXCEPT !.pc = "enforce"]]
           \/ \E e \in s.log :
                LET apply == records[e.rec.key] = None \/ IsIncomingNewer(records[e.rec.key], e.rec)
                IN th' = [th EXCEPT ![t] = [s EXCEPT !.log = @ \ {e},
                                      !.pc = IF apply THEN "map" ELSE "replay",
                                      !.upserts = IF apply THEN <<e.rec>> ELSE <<>>]]
    BY <1>8 DEF ReplayEvent, Become
  <2>2. CASE s.log = {} /\ th' = [th EXCEPT ![t] = [s EXCEPT !.pc = "enforce"]]
    <3> DEFINE v == [s EXCEPT !.pc = "enforce"]
    <3>1. /\ v.pc = "enforce" /\ v.snap = s.snap /\ v.op = s.op /\ v.batch = s.batch /\ v.evs = s.evs
          /\ v.dels = s.dels /\ v.upserts = s.upserts /\ v.log = s.log
      BY <1>0 DEF LocalState
    <3>2. th' = [th EXCEPT ![t] = v] BY <2>2
    <3> HIDE DEF v
    <3>3. u = v /\ th' = [th EXCEPT ![t] = u] BY <3>2, Moved
    <3> QED BY <1>1, <1>3, <2>1, <2>2, <3>1, <3>3
  <2>3. ASSUME NEW e \in s.log, NEW apply \in BOOLEAN,
               th' = [th EXCEPT ![t] = [s EXCEPT !.log = @ \ {e},
                                      !.pc = IF apply THEN "map" ELSE "replay",
                                      !.upserts = IF apply THEN <<e.rec>> ELSE <<>>]]
        PROVE  /\ th' = [th EXCEPT ![t] = u] /\ u.op = s.op /\ u.snap = s.snap
               /\ u.batch = s.batch /\ u.evs = s.evs /\ u.dels = s.dels
               /\ e.rec \in Rec /\ u.log = s.log \ {e}
               /\ u.pc = (IF apply THEN "map" ELSE "replay")
               /\ u.upserts = (IF apply THEN <<e.rec>> ELSE <<>>)
    <3> DEFINE lg == s.log \ {e}
               c == IF apply THEN "map" ELSE "replay"
               up == IF apply THEN <<e.rec>> ELSE <<>>
               v == [s EXCEPT !.log = lg, !.pc = c, !.upserts = up]
    <3>1. e.rec \in Rec BY <1>0, <2>3 DEF LocalState, Event
    <3>2. th' = [th EXCEPT ![t] = v] BY <2>3
    <3>3. /\ v.pc = c /\ v.snap = s.snap /\ v.op = s.op /\ v.batch = s.batch /\ v.evs = s.evs
          /\ v.dels = s.dels /\ v.upserts = up /\ v.log = lg
      <4> HIDE DEF lg, c, up
      <4> QED BY <1>0 DEF LocalState
    <3> HIDE DEF v
    <3>4. u = v /\ th' = [th EXCEPT ![t] = u] BY <3>2, Moved
    <3> QED BY <3>1, <3>3, <3>4
  <2>4. CASE ~(s.log = {} /\ th' = [th EXCEPT ![t] = [s EXCEPT !.pc = "enforce"]])
    <3> DEFINE apply(x) == records[x.rec.key] = None \/ IsIncomingNewer(records[x.rec.key], x.rec)
    <3>1. PICK e \in s.log : th' = [th EXCEPT ![t] = [s EXCEPT !.log = @ \ {e},
                                      !.pc = IF apply(e) THEN "map" ELSE "replay",
                                      !.upserts = IF apply(e) THEN <<e.rec>> ELSE <<>>]]
      BY <2>1, <2>4
    <3>2. apply(e) \in BOOLEAN BY DEF IsIncomingNewer
    <3>3. /\ th' = [th EXCEPT ![t] = u] /\ u.op = s.op /\ u.snap = s.snap
          /\ u.batch = s.batch /\ u.evs = s.evs /\ u.dels = s.dels
          /\ e.rec \in Rec /\ u.log = s.log \ {e}
          /\ u.pc = (IF apply(e) THEN "map" ELSE "replay")
          /\ u.upserts = (IF apply(e) THEN <<e.rec>> ELSE <<>>)
      <4> HIDE DEF apply, u
      <4> QED BY <2>3, <3>1, <3>2
    <3> HIDE DEF u, s
    <3> QED BY <1>1, <1>3, <2>1, <3>3 DEF u, s
  <2> QED BY <2>2, <2>4
<1> QED BY <1>4, <1>5, <1>6, <1>7, <1>8

\* The steps of Warmup and of the replay.
LEMMA WarmupFlow ==
    ASSUME TypeOK, FlowInv, NEW t \in Thread,
           WarmupScan(t) \/ WarmupLoad(t) \/ ReplayCheckpoints(t) \/ ReplayScan(t) \/ ReplayEvent(t)
    PROVE  FlowInv'
<1> DEFINE s == th[t]
           u == th'[t]
<1>0. TypeOK' /\ s \in LocalState /\ Flow(t, s) BY WarmupType, FlowAt
<1>1. /\ th' = [th EXCEPT ![t] = u] /\ t = Main /\ ready' = ready
      /\ Homed(records') /\ Homed(docs') /\ Homed(docs) /\ WarmFlow(s)
  BY WarmShape, FlowAt DEF memVars, storeVars, procVars, Homed
<1>2. /\ u.batch = s.batch /\ u.evs = s.evs /\ u.dels = s.dels
      /\ s.pc \in {"scan", "load", "ckpts", "events", "replay"}
      /\ u.pc \in {"load", "ckpts", "map", "events", "replay", "enforce"}
      /\ u.op = (IF u.pc = "events" THEN "replay" ELSE s.op)
      /\ u.pc = "load" => s.pc = "scan"
      /\ u.pc = "ckpts" => s.pc = "load"
      /\ u.pc = "replay" => s.pc \in {"events", "replay"}
      /\ u.pc = "enforce" => s.pc = "replay" /\ u.log = {}
      /\ u.pc # "map" => u.upserts = <<>>
      /\ u.pc = "map" => s.pc \in {"load", "replay"} /\ \E r \in Rec : u.upserts = <<r>>
  <2>1. s.upserts = <<>> BY <1>1, WarmShape DEF WarmFlow
  <2> HIDE DEF s, u
  <2>2. /\ s.pc \in {"scan", "load", "ckpts", "events", "replay"}
        /\ u.pc \in {"load", "ckpts", "map", "events", "replay", "enforce"}
        /\ u.op = (IF u.pc = "events" THEN "replay" ELSE s.op)
        /\ u.pc = "load" => s.pc = "scan"
        /\ u.pc = "ckpts" => s.pc = "load"
        /\ u.pc = "replay" => s.pc \in {"events", "replay"}
        /\ u.pc = "enforce" => s.pc = "replay" /\ u.log = {}
        /\ u.pc = "map" => s.pc \in {"load", "replay"}
    BY WarmShape DEF s, u
  <2>3. u.pc # "map" => u.upserts = <<>> BY <2>1, WarmShape DEF s, u
  <2>4. u.pc = "map" => \E r \in Rec : u.upserts = <<r>> BY WarmShape DEF s, u
  <2> QED BY <2>2, <2>3, <2>4, WarmShape DEF s, u
<1>3. Homed(u.snap)
  <2>1. Homed(s.snap) /\ s.snap \in [Key -> MaybeRec] BY <1>0 DEF Flow, LocalState
  <2>2. Homed(NoRecords) BY SentinelAssumption DEF Homed, NoRecords
  <2>3. \A k \in Key : Homed([s.snap EXCEPT ![k] = None]) BY <2>1, SentinelAssumption DEF Homed
  <2> DEFINE a == s.snap
             b == u.snap
  <2>4. b = docs \/ b = NoRecords \/ b = a \/ \E k \in Key : b = [a EXCEPT ![k] = None]
    <3> HIDE DEF a, b
    <3> QED BY WarmShape DEF a, b
  <2> QED BY <1>1, <2>1, <2>2, <2>3, <2>4
<1>4. u.pc = "map" => Len(u.upserts) = 1
  <2> HIDE DEF s, u
  <2> QED BY <1>2
<1>5. s.pc # "idle" BY <1>2
<1> HIDE DEF s, u
<1>6. WarmFlow(u) BY <1>1, <1>2, <1>4 DEF WarmFlow, WarmPC
<1>7. Homed(s.batch.doc) BY <1>0 DEF Flow
<1>8. Flow(t, u) BY <1>1, <1>2, <1>3, <1>6, <1>7 DEF Flow
<1> QED BY <1>0, <1>1, <1>5, <1>8, FlowFrame DEF s

\* The threads of a process that starts.
LEMMA FreshFlow == \A t \in Thread : Flow(t, FreshThreads[t])
<1> SUFFICES ASSUME NEW t \in Thread PROVE Flow(t, FreshThreads[t]) OBVIOUS
<1>1. CASE t # Main BY <1>1, IdleFlow DEF FreshThreads
<1>2. CASE t = Main
  <2> DEFINE u == [Idle EXCEPT !.pc = "scan", !.op = "warmup"]
  <2>1. FreshThreads[t] = u BY <1>2 DEF FreshThreads
  <2>2. /\ u.pc = "scan" /\ u.op = "warmup" /\ u.batch = EmptyBatch /\ u.evs = {} /\ u.dels = {}
        /\ u.upserts = <<>> /\ u.snap = NoRecords
    BY DEF Idle
  <2>3. Homed(NoRecords) /\ Homed(EmptyBatch.doc) BY SentinelAssumption DEF Homed, NoRecords, EmptyBatch
  <2> HIDE DEF u
  <2> QED BY <1>2, <2>1, <2>2, <2>3 DEF Flow, WarmFlow, WarmPC
<1> QED BY <1>1, <1>2

\* The process starts with Warmup.
LEMMA InitFlow == Init => FlowInv
<1> SUFFICES ASSUME Init PROVE FlowInv OBVIOUS
<1>1. Homed(records) /\ Homed(docs) BY SentinelAssumption DEF Init, Homed, NoRecords
<1>2. \A t \in Thread : Flow(t, th[t]) BY FreshFlow DEF Init
<1>3. Turn
  <2>1. ~ready /\ \A t \in Thread \ {Main} : th[t] = Idle BY DEF Init, FreshThreads
  <2> QED BY <2>1, ThreadAssumption DEF Turn, Thread, Idle
<1> QED BY <1>1, <1>2, <1>3 DEF FlowInv

\* Time passes; the process is restarted.
LEMMA EnvFlow == ASSUME TypeOK, FlowInv, Tick \/ Restart \/ Finished \/ UNCHANGED vars PROVE FlowInv'
<1>1. CASE Restart
  <2>1. /\ records' = NoRecords /\ docs' = docs /\ ready' = FALSE /\ th' = FreshThreads
    BY <1>1 DEF Restart, storeVars
  <2>2. Homed(records') /\ Homed(docs') BY <2>1, FlowAt, SentinelAssumption DEF FlowInv, Homed, NoRecords
  <2>3. \A t \in Thread : Flow(t, th'[t]) BY <2>1, FreshFlow
  <2>4. (\A t \in Thread : Flow(t, th[t]))' BY <2>3 DEF Flow, WarmFlow, ReqFlow, Homed
  <2>5. \A t \in Thread \ {Main} : th'[t] = Idle BY <2>1 DEF FreshThreads
  <2>6. Turn' BY <2>1, <2>5, ThreadAssumption DEF Turn, Thread, Idle, NoGc
  <2> QED BY <2>2, <2>4, <2>6 DEF FlowInv, Homed
<1>2. CASE Tick \/ Finished \/ UNCHANGED vars
  <2>1. UNCHANGED <<records, docs, ready, th>>
    BY <1>2 DEF Tick, Finished, vars, memVars, storeVars, procVars
  <2> QED BY <2>1 DEF FlowInv, Homed, Turn, NoGc, Flow, WarmFlow, ReqFlow
<1> QED BY <1>1, <1>2

\* Every step follows the course.
LEMMA NextFlow == TypeOK /\ FlowInv /\ [Next]_vars => FlowInv'
<1> SUFFICES ASSUME TypeOK, FlowInv, [Next]_vars PROVE FlowInv' OBVIOUS
<1>1. ASSUME NEW t \in Thread, WriteStart(t) \/ PinStart(t) \/ CompactStart(t) \/ Step(t) PROVE FlowInv'
  BY <1>1, StartFlow, AppendFlow, QuietFlow, CommitFlow, FailFlow, UpsertFlow, DropFlow, DoneFlow, WarmupFlow
     DEF Step
<1> QED BY <1>1, EnvFlow DEF Next

\* Every thread follows the course of its handler: rows are committed before
\* records are applied (Write, Pin and Compact call BatchWrite first), records are
\* applied before any are removed, Warmup writes nothing and applies one record at a
\* time, and no request is served before Warmup has ended.
THEOREM FlowInvariant == Spec => []FlowInv
<1>1. Init => FlowInv BY InitFlow
<1>2. TypeOK /\ FlowInv /\ [Next]_vars => FlowInv' BY NextFlow
<1> QED BY <1>1, <1>2, TypeCorrect, PTL DEF Spec
=============================================================================
