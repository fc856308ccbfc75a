--------------------------- MODULE RecoveryProofs ---------------------------
(***************************************************************************)
(* The engine recovers what it acknowledged: theorems about Warmup, the    *)
(* retriever and the records that a client sees, for every number of       *)
(* keys, partitions, requests and restarts.                                *)
(*                                                                         *)
(* RecoveryInv says how far Warmup has come with the rows of the store, on *)
(* the course that FlowInv of MemoryEngineProofs describes.  AlignInv and  *)
(* CoverInv hold with one handler thread: the steps of one request are     *)
(* then interleaved only with crashes, failing partitions and the clock.   *)
(* With two, the two critical sections of UpsertMemoryRecord interleave,   *)
(* and so do the partitions of two batches.                                *)
(*                                                                         *)
(* LimitInv is about the resident limit, with any number of clients.       *)
(*                                                                         *)
(* SettledInv, PinInv and ClaimInv hold with one handler thread and        *)
(* batches that are stored as a whole or not at all: memory and store      *)
(* then differ by the request under way and by what was evicted, which the *)
(* pin quota and the uniqueness of dedup keys both rest on.                *)
(*                                                                         *)
(* SpareInv adds that a batch leaves every pinned document in place.       *)
(*                                                                         *)
(* RowsInv is about IndexRows, with any number of clients: the derived     *)
(* rows of a key and its document change together.                         *)
(***************************************************************************)
EXTENDS MemoryEngineProofs, IndexRows, SequenceTheorems

-----------------------------------------------------------------------------
(***************************************************************************)
(* Recovery.  While Warmup runs and no other thread writes, every document *)
(* row is either still to be loaded or resident; the replay then only      *)
(* replaces a resident record by a newer one, and has passed every event   *)
(* beyond the checkpoint that is not left in its list.                     *)
(***************************************************************************)

\* The resident records, with the one that is about to be put into the map.
Arriving(s, recs) ==
    IF s.pc = "map" THEN [recs EXCEPT ![Head(s.upserts).key] = Head(s.upserts)] ELSE recs

\* Every document row is left to load or resident, and nothing else is.
Loaded(recs, left, stored) ==
    \A k \in Key : \/ left[k] = stored[k] /\ recs[k] = None
                   \/ left[k] = None /\ recs[k] = stored[k]

\* r is resident in a version not older than x.
Reached(r, x) == r # None /\ ~IsIncomingNewer(r, x)

\* Every row, and every event beyond the checkpoint that is not left, is reached.
Replayed(recs, left, stored, beyond) ==
    /\ \A k \in Key : stored[k] # None => Reached(recs[k], stored[k])
    /\ \A e \in beyond \ left : Reached(recs[e.rec.key], e.rec)

\* The same for what was not evicted; without a limit nothing was.
Enforced(recs, stored, beyond) ==
    /\ \A k \in Key : stored[k] # None =>
         Reached(recs[k], stored[k]) \/ (Limit # 0 /\ recs[k] = None)
    /\ \A e \in beyond :
         Reached(recs[e.rec.key], e.rec) \/ (Limit # 0 /\ recs[e.rec.key] = None)

\* How far the main thread has come, with locals s.
Recovering(s, recs, stored, beyond, upto) ==
    /\ s.pc = "scan" => recs = NoRecords
    /\ (s.op = "warmup" /\ s.pc # "scan") \/ s.pc = "events" => Loaded(Arriving(s, recs), s.snap, stored)
    /\ s.pc \in {"ckpts", "events"} => s.snap = NoRecords
    /\ s.pc = "events" => s.ckpts = upto
    /\ s.op = "replay" /\ s.pc \in {"replay", "map", "index", "account"}
         => Replayed(Arriving(s, recs), s.log, stored, beyond)
    /\ s.pc \in {"enforce", "sub", "unindex"} => Enforced(recs, stored, beyond)

\* Until the service is ready, and while a scan finds all rows.
RecoveryInv ==
    (~ready /\ ScanFinds) =>
        Recovering(th[Main], records, docs, BeyondCheckpoint(events, ckpt), ckpt)

\* A thread other than the main one is busy only when the service is ready.
LEMMA BusyReady ==
    ASSUME TypeOK, FlowInv, NoGc, NEW t \in Thread, t # Main, th[t].pc # "idle"
    PROVE  ready /\ t \in Client
BY DEF FlowInv, Turn, Thread

\* A record that replaces an older one has reached whatever that one had.
LEMMA ReachedOn ==
    ASSUME NEW r \in MaybeRec, NEW n \in Rec, r = None \/ IsIncomingNewer(r, n),
           NEW x \in Rec, Reached(r, x)
    PROVE  Reached(n, x)
BY SentinelAssumption DEF Reached, IsIncomingNewer, MaybeRec, Rec

\* The records with the arriving one are well-typed.
LEMMA ArrivingType ==
    ASSUME TypeOK, NEW t \in Thread
    PROVE  /\ Arriving(th[t], records) \in [Key -> MaybeRec]
           /\ th[t].pc = "map" => Head(th[t].upserts) \in Rec /\ Head(th[t].upserts).key \in Key
<1>1. th[t].upserts \in Seq(Rec) /\ (th[t].pc = "map" => th[t].upserts # <<>>)
  BY DEF TypeOK, ThreadsOK, LocalState, LocalOK
<1>2. th[t].pc = "map" => Head(th[t].upserts) \in Rec BY <1>1
<1>3. th[t].pc = "map" => Head(th[t].upserts).key \in Key BY <1>2 DEF Rec
<1> QED BY <1>2, <1>3 DEF Arriving, TypeOK, SharedOK, MaybeRec

\* Warmup and the replay put records into the map.
LEMMA UpsertRecovers ==
    ASSUME TypeOK, FlowInv, NoGc, RecoveryInv, NEW t \in Thread,
           UpsertMap(t) \/ UpsertIndex(t) \/ UpsertAccount(t)
    PROVE  RecoveryInv'
<1> DEFINE s == th[t]
           u == th'[t]
           beyond == BeyondCheckpoint(events, ckpt)
<1>1. /\ UNCHANGED <<docs, events, ckpt, touched, ready>>
      /\ u.op = s.op /\ u.log = s.log /\ u.snap = s.snap /\ u.ckpts = s.ckpts
      /\ th' = [th EXCEPT ![t] = u] /\ s.pc # "idle"
  BY UpsertShape DEF storeVars, procVars
<1>2. CASE t # Main
  <2>1. ready BY <1>1, <1>2, BusyReady
  <2> QED BY <1>1, <2>1 DEF RecoveryInv
<1>3. CASE t = Main
  <2> SUFFICES ASSUME ~ready, ScanFinds PROVE Recovering(u, records', docs, beyond, ckpt)
    BY <1>1, <1>3 DEF RecoveryInv, ScanFinds, Recovering
  <2>1. Recovering(s, records, docs, beyond, ckpt) BY <1>3 DEF RecoveryInv
  <2>2. WarmFlow(s) BY <1>3, FlowAt
  <2>3. /\ s.pc \in {"map", "index", "account"} /\ s.op \in {"warmup", "replay"}
        /\ Arriving(u, records') = Arriving(s, records)
        /\ \/ u.pc \in {"index", "account"}
           \/ u.pc = (IF s.op = "warmup" THEN "load" ELSE "replay")
    <3>1. CASE s.pc \in {"map", "index"}
      <4> HIDE DEF s, u
      <4> QED BY <2>2, <3>1, UpsertShape DEF s, u, Arriving, WarmFlow
    <3>2. CASE s.pc \notin {"map", "index"}
      <4>0. s.pc = "account" /\ u.pc = AfterUpsert(s.op, Tail(s.upserts)) /\ records' = records
            /\ s.upserts \in Seq(Rec)
        <5> HIDE DEF s, u
        <5> QED BY <3>2, UpsertShape DEF s, u
      <4>1. Len(s.upserts) = 1 /\ s.op \in {"warmup", "replay"} BY <2>2, <4>0 DEF WarmFlow
      <4>2. Tail(s.upserts) = <<>> BY <4>0, <4>1, TailOne
      <4>3. u.pc = IF s.op = "warmup" THEN "load" ELSE "replay" BY <4>0, <4>1, <4>2 DEF AfterUpsert
      <4> HIDE DEF s, u
      <4> QED BY <4>0, <4>1, <4>3 DEF Arriving
    <3> QED BY <3>1, <3>2
  <2> HIDE DEF s, u, beyond
  <2> QED BY <1>1, <2>1, <2>3 DEF Recovering
<1> QED BY <1>2, <1>3

\* The eviction after the replay drops resident records.
LEMMA DropRecovers ==
    ASSUME TypeOK, FlowInv, NoGc, RecoveryInv, NEW t \in Thread,
           RemoveMap(t) \/ EvictMap(t) \/ DropAccount(t) \/ DropIndex(t)
    PROVE  RecoveryInv'
<1> DEFINE s == th[t]
           u == th'[t]
           beyond == BeyondCheckpoint(events, ckpt)
<1>1. /\ UNCHANGED <<docs, events, ckpt, touched, ready>>
      /\ th' = [th EXCEPT ![t] = u] /\ s.pc # "idle"
  BY DropShape DEF storeVars, procVars
<1>2. CASE t # Main
  <2>1. ready BY <1>1, <1>2, BusyReady
  <2> QED BY <1>1, <2>1 DEF RecoveryInv
<1>3. CASE t = Main
  <2> SUFFICES ASSUME ~ready, ScanFinds PROVE Recovering(u, records', docs, beyond, ckpt)
    BY <1>1, <1>3 DEF RecoveryInv, ScanFinds, Recovering
  <2>1. Recovering(s, records, docs, beyond, ckpt) BY <1>3 DEF RecoveryInv
  <2>2. WarmFlow(s) /\ records \in [Key -> MaybeRec] BY <1>3, FlowAt
  <2>3. /\ s.pc \in {"enforce", "sub", "unindex"} /\ u.pc \in {"enforce", "sub", "unindex"}
        /\ \/ records' = records
           \/ Limit # 0 /\ \E k \in Key : records' = [records EXCEPT ![k] = None]
    <3>1. s.pc # "unmap" /\ (s.pc = "unindex" => s.op # "compact") BY <2>2 DEF WarmFlow, WarmPC
    <3> HIDE DEF s, u
    <3> QED BY <3>1, DropShape DEF s, u, WithinLimit
  <2>4. beyond \subseteq Event BY DEF BeyondCheckpoint, TypeOK, SharedOK
  <2>5. \A e \in beyond : e.rec.key \in Key BY <2>4 DEF Event, Rec
  <2>6. Enforced(records, docs, beyond) BY <2>1, <2>3 DEF Recovering
  <2>7. Enforced(records', docs, beyond)
    <3> HIDE DEF s, u, beyond
    <3> QED BY <2>2, <2>3, <2>5, <2>6 DEF Enforced
  <2>8. u.op = "replay" BY <2>2, <2>3, DropShape DEF WarmFlow
  <2> HIDE DEF s, u, beyond
  <2> QED BY <2>3, <2>7, <2>8 DEF Recovering
<1> QED BY <1>2, <1>3

\* Warmup scans and loads; the replay reads checkpoints and events.
LEMMA WarmupRecovers ==
    ASSUME TypeOK, FlowInv, NoGc, RecoveryInv, NEW t \in Thread,
           WarmupScan(t) \/ WarmupLoad(t) \/ ReplayCheckpoints(t) \/ ReplayScan(t) \/ ReplayEvent(t)
    PROVE  RecoveryInv'
<1> DEFINE s == th[t]
           u == th'[t]
           beyond == BeyondCheckpoint(events, ckpt)
<1>1. /\ UNCHANGED <<records, docs, events, ckpt, touched, ready>> /\ t = Main
      /\ th' = [th EXCEPT ![t] = u]
  BY WarmShape DEF memVars, storeVars, procVars
<1> SUFFICES ASSUME ~ready, ScanFinds PROVE Recovering(u, records, docs, beyond, ckpt)
  BY <1>1 DEF RecoveryInv, ScanFinds, Recovering
<1>2. Recovering(s, records, docs, beyond, ckpt) BY <1>1 DEF RecoveryInv
<1>3. /\ WarmFlow(s) /\ records \in [Key -> MaybeRec] /\ docs \in [Key -> MaybeRec]
      /\ s \in LocalState /\ Homed(docs) /\ Homed(s.snap)
  BY <1>1, FlowAt DEF Flow
<1>4. beyond \subseteq Event BY DEF BeyondCheckpoint, TypeOK, SharedOK
<1>5. \A e \in beyond : e.rec.key \in Key /\ e.rec \in Rec BY <1>4 DEF Event, Rec
<1>6. s.snap \in [Key -> MaybeRec] /\ s.log \subseteq Event BY <1>3 DEF LocalState
<1> HIDE DEF s, u, beyond
<1>7. CASE s.pc = "scan"
  <2>1. u.pc = "load" /\ u.snap = docs BY <1>7, WarmShape DEF s, u
  <2>2. records = NoRecords BY <1>2, <1>7 DEF Recovering
  <2>3. Loaded(records, u.snap, docs) BY <2>1, <2>2 DEF Loaded, NoRecords
  <2> QED BY <2>1, <2>3 DEF Recovering, Arriving
<1>8. CASE s.pc = "load"
  <2>0. s.op = "warmup" /\ u.op = s.op BY <1>3, <1>8, WarmShape DEF WarmFlow, s, u
  <2>1. Loaded(records, s.snap, docs) BY <1>2, <1>8, <2>0 DEF Recovering, Arriving
  <2>2. CASE u.pc = "ckpts"
    <3>1. s.snap = NoRecords /\ u.snap = s.snap BY <1>8, <2>2, WarmShape DEF s, u
    <3> QED BY <2>0, <2>1, <2>2, <3>1 DEF Recovering, Arriving
  <2>3. CASE u.pc # "ckpts"
    <3>1. PICK k \in Key : /\ s.snap[k] \in Rec /\ u.upserts = <<s.snap[k]>> /\ u.pc = "map"
                           /\ u.snap = [s.snap EXCEPT ![k] = None]
      BY <1>8, <2>3, WarmShape DEF s, u
    <3>2. s.snap[k] = docs[k] /\ s.snap[k].key = k /\ records[k] = None
      BY <1>3, <2>1, <3>1, SentinelAssumption DEF Loaded, Homed
    <3> DEFINE h == s.snap[k]
    <3>3. Head(u.upserts) = h BY <3>1
    <3>4. Arriving(u, records) = [records EXCEPT ![k] = docs[k]] BY <3>1, <3>2, <3>3 DEF Arriving
    <3>5. Loaded(Arriving(u, records), u.snap, docs) BY <1>3, <1>6, <2>1, <3>1, <3>4 DEF Loaded
    <3> QED BY <2>0, <3>1, <3>5 DEF Recovering
  <2> QED BY <2>2, <2>3
<1>9. CASE s.pc = "ckpts"
  <2>0. s.op = "warmup" BY <1>3, <1>9 DEF WarmFlow
  <2>1. Loaded(records, s.snap, docs) /\ s.snap = NoRecords BY <1>2, <1>9, <2>0 DEF Recovering, Arriving
  <2>2. u.pc = "events" /\ u.op = "replay" /\ u.ckpts = ckpt /\ u.snap = s.snap
    BY <1>9, WarmShape DEF s, u
  <2> QED BY <2>1, <2>2 DEF Recovering, Arriving
<1>10. CASE s.pc = "events"
  <2>1. Loaded(records, s.snap, docs) /\ s.snap = NoRecords /\ s.ckpts = ckpt
    BY <1>2, <1>10 DEF Recovering, Arriving
  <2>2. u.pc = "replay" /\ u.op = "replay" /\ u.log = BeyondCheckpoint(events, s.ckpts)
    BY <1>3, <1>10, WarmShape DEF s, u, WarmFlow
  <2>3. u.log = beyond BY <2>1, <2>2 DEF beyond
  <2>4. \A k \in Key : docs[k] # None => Reached(records[k], docs[k])
    BY <1>3, <2>1 DEF Loaded, NoRecords, Reached, IsIncomingNewer, MaybeRec, Rec
  <2>5. Replayed(records, u.log, docs, beyond) BY <2>3, <2>4 DEF Replayed
  <2> QED BY <2>2, <2>5 DEF Recovering, Arriving
<1>11. CASE s.pc = "replay"
  <2>0. s.op = "replay" /\ u.op = "replay" BY <1>3, <1>11, WarmShape DEF WarmFlow, s, u
  <2>1. Replayed(records, s.log, docs, beyond) BY <1>2, <1>11, <2>0 DEF Recovering, Arriving
  <2>2. CASE u.pc = "enforce"
    <3>1. s.log = {} BY <1>11, <2>2, WarmShape DEF s, u
    <3>2. Enforced(records, docs, beyond) BY <2>1, <3>1 DEF Replayed, Enforced, Reached
    <3> QED BY <2>0, <2>2, <3>2 DEF Recovering
  <2>3. CASE u.pc # "enforce"
    <3>1. PICK e \in s.log :
            /\ e.rec \in Rec /\ u.log = s.log \ {e}
            /\ IF records[e.rec.key] = None \/ IsIncomingNewer(records[e.rec.key], e.rec)
               THEN u.pc = "map" /\ u.upserts = <<e.rec>>
               ELSE u.pc = "replay" /\ u.upserts = <<>>
      BY <1>11, <2>3, WarmShape DEF s, u
    <3> DEFINE r == e.rec
    <3>2. r \in Rec /\ r.key \in Key BY <3>1 DEF Rec
    <3>3. CASE ~(records[r.key] = None \/ IsIncomingNewer(records[r.key], r))
      <4>1. u.pc = "replay" /\ Reached(records[r.key], r) BY <3>1, <3>3 DEF Reached
      <4>2. Replayed(records, u.log, docs, beyond) BY <2>1, <3>1, <4>1 DEF Replayed
      <4> QED BY <2>0, <4>1, <4>2 DEF Recovering, Arriving
    <3>4. CASE records[r.key] = None \/ IsIncomingNewer(records[r.key], r)
      <4>1. u.pc = "map" /\ u.upserts = <<r>> BY <3>1, <3>4
      <4>2. Head(u.upserts) = r BY <4>1
      <4> DEFINE new == [records EXCEPT ![r.key] = r]
      <4>3. Arriving(u, records) = new BY <4>1, <4>2 DEF Arriving
      <4> HIDE DEF r
      <4>4. new \in [Key -> MaybeRec] /\ new[r.key] = r /\ \A k \in Key \ {r.key} : new[k] = records[k]
        BY <1>3, <3>2 DEF MaybeRec
      <4>5. ASSUME NEW k \in Key, NEW x \in Rec, Reached(records[k], x) PROVE Reached(new[k], x)
        <5>1. CASE k = r.key
          <6>1. records[k] \in MaybeRec BY <1>3
          <6>2. records[k] = None \/ IsIncomingNewer(records[k], r) BY <3>4, <5>1
          <6>3. Reached(r, x) BY <3>2, <4>5, <6>1, <6>2, ReachedOn
          <6> QED BY <4>4, <5>1, <6>3
        <5>2. CASE k # r.key BY <4>4, <4>5, <5>2
        <5> QED BY <5>1, <5>2
      <4>6. Reached(new[r.key], r) BY <3>2, <4>4, SentinelAssumption DEF Reached, IsIncomingNewer, Rec
      <4> HIDE DEF new
      <4>7. \A k \in Key : docs[k] # None => Reached(new[k], docs[k])
        BY <1>3, <2>1, <4>5 DEF Replayed, MaybeRec
      <4>8. \A f \in beyond \ u.log : Reached(new[f.rec.key], f.rec)
        <5> SUFFICES ASSUME NEW f \in beyond \ u.log PROVE Reached(new[f.rec.key], f.rec) OBVIOUS
        <5>1. CASE f = e BY <4>6, <5>1 DEF r
        <5>2. CASE f # e
          <6>1. f \in beyond \ s.log BY <3>1, <5>2
          <6> QED BY <1>5, <2>1, <4>5, <6>1 DEF Replayed
        <5> QED BY <5>1, <5>2
      <4>9. Replayed(new, u.log, docs, beyond) BY <4>7, <4>8 DEF Replayed
      <4> QED BY <2>0, <4>1, <4>3, <4>9 DEF Recovering
    <3> QED BY <3>3, <3>4
  <2> QED BY <2>2, <2>3
<1>12. s.pc \in {"scan", "load", "ckpts", "events", "replay"} BY WarmShape DEF s
<1> QED BY <1>7, <1>8, <1>9, <1>10, <1>11, <1>12

\* The steps that leave the service ready, or are not taken before it is.
LEMMA RequestRecovers ==
    ASSUME TypeOK, FlowInv, NoGc, RecoveryInv, NEW t \in Thread,
           \/ WriteStart(t) \/ PinStart(t) \/ CompactStart(t)
           \/ WriteRecord(t) \/ PinCheck(t) \/ CompactTomb(t) \/ CompactDelete(t)
           \/ WriteDedup(t) \/ WriteBuilt(t) \/ PinGet(t) \/ CompactBuilt(t) \/ WriteRoute(t)
           \/ BatchWrite(t) \/ BatchWriteFail(t) \/ CompactReport(t) \/ EnforceDone(t)
    PROVE  RecoveryInv'
<1>1. CASE WriteStart(t) \/ PinStart(t) \/ CompactStart(t)
  <2>1. ready BY <1>1, StartFlow
  <2>2. ready' = ready BY <1>1 DEF WriteStart, PinStart, CompactStart, procVars
  <2> QED BY <2>1, <2>2 DEF RecoveryInv
<1>2. CASE WriteRecord(t) \/ PinCheck(t) \/ CompactTomb(t) \/ CompactDelete(t)
  BY <1>2, AppendShape, BusyReady DEF OnlyLocal, RecoveryInv
<1>3. CASE WriteDedup(t) \/ WriteBuilt(t) \/ PinGet(t) \/ CompactBuilt(t) \/ WriteRoute(t)
  <2>1. ready' = ready /\ t # Main /\ th[t].pc # "idle" BY <1>3, QuietShape DEF procVars
  <2> QED BY <2>1, BusyReady DEF RecoveryInv
<1>4. CASE BatchWrite(t) \/ BatchWriteFail(t)
  <2>1. ready' = ready /\ t # Main /\ th[t].pc # "idle" BY <1>4, CommitShape, FailShape DEF procVars
  <2> QED BY <2>1, BusyReady DEF RecoveryInv
<1>5. CASE CompactReport(t) \/ EnforceDone(t)
  <2>1. ready' = (ready \/ t = Main) /\ th[t].pc # "idle" BY <1>5, DoneShape
  <2> QED BY <2>1, BusyReady DEF RecoveryInv
<1> QED BY <1>1, <1>2, <1>3, <1>4, <1>5

\* Time passes; the process is restarted, and recovers from the start.
LEMMA EnvRecovers ==
    ASSUME RecoveryInv, Tick \/ Restart \/ Finished \/ UNCHANGED vars PROVE RecoveryInv'
<1>1. CASE Restart
  <2>1. Main \in Thread BY DEF Thread
  <2>2. th'[Main] = [Idle EXCEPT !.pc = "scan", !.op = "warmup"] /\ records' = NoRecords
    BY <1>1, <2>1 DEF Restart, FreshThreads
  <2>3. th'[Main].pc = "scan" /\ th'[Main].op = "warmup" BY <2>2 DEF Idle
  <2> QED BY <2>2, <2>3 DEF RecoveryInv, Recovering
<1>2. CASE Tick \/ Finished \/ UNCHANGED vars
  <2>1. UNCHANGED <<records, docs, events, ckpt, touched, ready, th>>
    BY <1>2 DEF Tick, Finished, vars, memVars, storeVars, procVars
  <2> QED BY <2>1 DEF RecoveryInv, Recovering, ScanFinds
<1> QED BY <1>1, <1>2

\* The first start has nothing to recover.
LEMMA InitRecovers == Init => RecoveryInv
<1> SUFFICES ASSUME Init PROVE RecoveryInv OBVIOUS
<1>1. Main \in Thread BY DEF Thread
<1>2. th[Main] = [Idle EXCEPT !.pc = "scan", !.op = "warmup"] /\ records = NoRecords
  BY <1>1 DEF Init, FreshThreads
<1>3. th[Main].pc = "scan" /\ th[Main].op = "warmup" BY <1>2 DEF Idle
<1> QED BY <1>2, <1>3 DEF RecoveryInv, Recovering

\* Every step keeps the recovery on its course.
LEMMA NextRecovers == NoGc /\ TypeOK /\ FlowInv /\ RecoveryInv /\ [Next]_vars => RecoveryInv'
<1> SUFFICES ASSUME NoGc, TypeOK, FlowInv, RecoveryInv, [Next]_vars PROVE RecoveryInv' OBVIOUS
<1>1. ASSUME NEW t \in Thread, WriteStart(t) \/ PinStart(t) \/ CompactStart(t) \/ Step(t) PROVE RecoveryInv'
  BY <1>1, RequestRecovers, UpsertRecovers, DropRecovers, WarmupRecovers DEF Step
<1> QED BY <1>1, EnvRecovers DEF Next

\* A step ends the replay, or makes the service ready.
Converges ==
    ScanFinds =>
        /\ ReplayEnds => RowsRecovered
        /\ BecomesReady => NothingOutdated /\ (Limit = 0 => RowsRecovered)

\* The replay ends with all its events behind it.
LEMMA ReplayConverges ==
    ASSUME NoGc, TypeOK, FlowInv, RecoveryInv, [Next]_vars, ScanFinds, ReplayEnds PROVE RowsRecovered
<1> DEFINE s == th[Main]
<1>1. s.log = {}
  <2>1. ASSUME NEW t \in Thread, th' = [th EXCEPT ![t] = th'[t]], t # Main \/ th[t].pc # "replay" PROVE FALSE
    BY <2>1, Moved DEF ReplayEnds, Thread
  <2>2. ASSUME NEW t \in Thread, WriteStart(t) \/ PinStart(t) \/ CompactStart(t) PROVE FALSE
    BY <2>1, <2>2, StartShape
  <2>3. ASSUME NEW t \in Thread, WriteRecord(t) \/ PinCheck(t) \/ CompactTomb(t) \/ CompactDelete(t) PROVE FALSE
    BY <2>1, <2>3, AppendShape DEF OnlyLocal
  <2>4. ASSUME NEW t \in Thread,
           WriteDedup(t) \/ WriteBuilt(t) \/ PinGet(t) \/ CompactBuilt(t) \/ WriteRoute(t)
        PROVE FALSE
    BY <2>1, <2>4, QuietShape
  <2>5. ASSUME NEW t \in Thread, BatchWrite(t) \/ BatchWriteFail(t) PROVE FALSE
    BY <2>1, <2>5, CommitShape, FailShape
  <2>6. ASSUME NEW t \in Thread, UpsertMap(t) \/ UpsertIndex(t) \/ UpsertAccount(t) PROVE FALSE
    <3>1. th' = [th EXCEPT ![t] = th'[t]] BY <2>6, UpsertShape
    <3>2. th[t].pc \in {"map", "index", "account"} BY <2>6 DEF UpsertMap, UpsertIndex, UpsertAccount
    <3> QED BY <2>1, <3>1, <3>2
  <2>7. ASSUME NEW t \in Thread, RemoveMap(t) \/ EvictMap(t) \/ DropAccount(t) \/ DropIndex(t) PROVE FALSE
    <3>1. th' = [th EXCEPT ![t] = th'[t]] BY <2>7, DropShape
    <3>2. th[t].pc \in {"unmap", "enforce", "sub", "unindex"}
      BY <2>7 DEF RemoveMap, EvictMap, DropAccount, DropIndex
    <3> QED BY <2>1, <3>1, <3>2
  <2>8. ASSUME NEW t \in Thread, CompactReport(t) \/ EnforceDone(t) PROVE FALSE
    BY <2>1, <2>8, DoneShape
  <2>9. ASSUME NEW t \in Thread,
           WarmupScan(t) \/ WarmupLoad(t) \/ ReplayCheckpoints(t) \/ ReplayScan(t) \/ ReplayEvent(t)
        PROVE s.log = {}
    BY <2>9, WarmShape DEF ReplayEnds
  <2>10. ASSUME Restart PROVE FALSE
    <3>1. Main \in Thread BY DEF Thread
    <3>2. th'[Main] = [Idle EXCEPT !.pc = "scan", !.op = "warmup"]
      BY <2>10, <3>1 DEF Restart, FreshThreads
    <3>3. th'[Main].pc = "scan" BY <3>2 DEF Idle
    <3> QED BY <3>3 DEF ReplayEnds
  <2>11. ASSUME Tick \/ Finished \/ UNCHANGED vars PROVE FALSE
    BY <2>11 DEF Tick, Finished, vars, ReplayEnds
  <2> HIDE DEF s
  <2> QED BY <2>2, <2>3, <2>4, <2>5, <2>6, <2>7, <2>8, <2>9, <2>10, <2>11 DEF Next, Step
<1>2. Main \in Thread /\ s.pc = "replay" /\ s.op = "replay" /\ ~ready
  BY FlowAt, ThreadAssumption DEF ReplayEnds, Thread, FlowInv, Flow, WarmFlow, Turn
<1>3. Recovering(s, records, docs, BeyondCheckpoint(events, ckpt), ckpt) BY <1>2 DEF RecoveryInv
<1>4. Replayed(records, {}, docs, BeyondCheckpoint(events, ckpt))
  BY <1>1, <1>2, <1>3 DEF Recovering, Arriving
<1> QED BY <1>4 DEF Replayed, Reached, RowsRecovered, Recovered, Beyond, BeyondCheckpoint

\* The step that makes the service ready finds everything recovered.
LEMMA ReadyConverges ==
    ASSUME NoGc, TypeOK, FlowInv, RecoveryInv, [Next]_vars, ScanFinds, BecomesReady
    PROVE  NothingOutdated /\ (Limit = 0 => RowsRecovered)
<1>1. \E t \in Thread : EnforceDone(t)
  <2>1. ASSUME NEW t \in Thread, WriteStart(t) \/ PinStart(t) \/ CompactStart(t) PROVE ready' = ready
    BY <2>1 DEF WriteStart, PinStart, CompactStart, procVars
  <2>2. ASSUME NEW t \in Thread,
           \/ WriteRecord(t) \/ PinCheck(t) \/ CompactTomb(t) \/ CompactDelete(t)
           \/ WriteDedup(t) \/ WriteBuilt(t) \/ PinGet(t) \/ CompactBuilt(t) \/ WriteRoute(t)
           \/ BatchWrite(t) \/ BatchWriteFail(t) \/ CompactReport(t)
        PROVE ready' = ready
    <3>1. CASE WriteRecord(t) \/ PinCheck(t) \/ CompactTomb(t) \/ CompactDelete(t)
      BY <3>1, AppendShape DEF OnlyLocal
    <3>2. CASE WriteDedup(t) \/ WriteBuilt(t) \/ PinGet(t) \/ CompactBuilt(t) \/ WriteRoute(t)
      BY <3>2, QuietShape DEF procVars
    <3>3. CASE BatchWrite(t) \/ BatchWriteFail(t) BY <3>3, CommitShape, FailShape DEF procVars
    <3>4. CASE CompactReport(t) BY <3>4 DEF CompactReport
    <3> QED BY <2>2, <3>1, <3>2, <3>3, <3>4
  <2>3. ASSUME NEW t \in Thread,
           \/ UpsertMap(t) \/ UpsertIndex(t) \/ UpsertAccount(t)
           \/ RemoveMap(t) \/ EvictMap(t) \/ DropAccount(t) \/ DropIndex(t)
           \/ WarmupScan(t) \/ WarmupLoad(t) \/ ReplayCheckpoints(t) \/ ReplayScan(t) \/ ReplayEvent(t)
        PROVE ready' = ready
    BY <2>3, UpsertShape, DropShape, WarmShape DEF procVars
  <2>4. ASSUME Tick \/ Restart \/ Finished \/ UNCHANGED vars PROVE ready' = ready \/ ready' = FALSE
    BY <2>4 DEF Tick, Restart, Finished, vars, procVars
  <2> QED BY <2>1, <2>2, <2>3, <2>4 DEF Next, Step, BecomesReady
<1>2. PICK t \in Thread : EnforceDone(t) BY <1>1
<1>3. t = Main /\ th[t].pc = "enforce" /\ ~ready BY <1>2, DoneShape DEF BecomesReady
<1>4. Enforced(records, docs, BeyondCheckpoint(events, ckpt)) BY <1>3 DEF RecoveryInv, Recovering
<1> QED
  BY <1>4 DEF Enforced, Reached, NothingOutdated, RowsRecovered, Recovered, Beyond, BeyondCheckpoint

\* When the replay of Warmup ends, every document row and every event beyond the
\* checkpoint is resident in its own or a newer version, and so it is when the
\* service becomes ready, apart from what EnforceResidentHardLimit evicted:
\* whatever partial batches a crash or a failing partition left in the store, for
\* any limit and any number of clients, provided that all partitions were written
\* and that the background thread does not compact meanwhile.
THEOREM RecoveryStaysComplete == ASSUME NoGc PROVE Spec => RecoveryConverges
<1>1. Init => RecoveryInv BY InitRecovers
<1>2. TypeOK /\ FlowInv /\ RecoveryInv /\ [Next]_vars => RecoveryInv' BY NextRecovers
<1>3. TypeOK /\ FlowInv /\ RecoveryInv /\ [Next]_vars => Converges
  BY ReplayConverges, ReadyConverges DEF Converges
<1>4. RecoveryConverges <=> [][Converges]_vars BY DEF RecoveryConverges, Converges
<1> QED BY <1>1, <1>2, <1>3, <1>4, TypeCorrect, FlowInvariant, PTL DEF Spec

-----------------------------------------------------------------------------
(***************************************************************************)
(* One client.  With one handler thread, and no background compaction,     *)
(* only one thread is busy at a time: the main thread before the service   *)
(* is ready, the client after.  An invariant then speaks of the locals of  *)
(* the thread that is busy, whichever it is.                               *)
(***************************************************************************)

\* There is at most one handler thread.
OneClient == \A c, d \in Client : c = d

\* All threads but t are idle.
Alone(t) == \A x \in Thread \ {t} : th[x] = Idle

\* A thread that is busy, or that starts a request, is the only one.
LEMMA BusyAlone ==
    ASSUME TypeOK, FlowInv, NoGc, OneClient, NEW t \in Thread,
           th[t].pc # "idle" \/ (ready /\ t \in Client)
    PROVE  Alone(t)
<1>1. \A x \in Thread \ {t} : th[x].pc = "idle"
  BY ThreadAssumption DEF FlowInv, Turn, Thread, OneClient, TypeOK, SharedOK
<1>2. \A x \in Thread : th[x].pc = "idle" => th[x] = Idle BY DEF FlowInv, Flow
<1> QED BY <1>1, <1>2 DEF Alone

\* A step of the only busy thread makes no other busy.
LEMMA StaysAlone ==
    ASSUME TypeOK, NEW t \in Thread, th' = [th EXCEPT ![t] = th'[t]], Alone(t) PROVE Alone(t)'
BY Moved DEF Alone

-----------------------------------------------------------------------------
(* The retriever follows the resident records *)

\* What the retriever is to hold for a record.
Shown(r) == IF r = None \/ r.tomb THEN None ELSE r

\* The busy thread has changed record k, and not yet the retriever.
Behind(s, k) ==
    \/ s.pc = "index" /\ Head(s.upserts).key = k
    \/ s.pc \in {"sub", "unindex"} /\ s.key = k

\* The retriever follows the records, but for the one being changed.
Aligned(s, recs, idx) ==
    /\ s.pc = "index" => recs[Head(s.upserts).key] = Head(s.upserts)
    /\ s.pc \in {"sub", "unindex"} => s.key \in Key /\ recs[s.key] = None
    /\ \A k \in Key : idx[k] = Shown(recs[k]) \/ Behind(s, k)

\* ... for the locals of the busy thread.
AlignInv == \E t \in Thread : Alone(t) /\ Aligned(th[t], records, index)

\* The invariant, of the thread at hand.
LEMMA AlignAt ==
    ASSUME TypeOK, AlignInv, NEW t \in Thread, Alone(t) PROVE Aligned(th[t], records, index)
<1>1. PICK x \in Thread : Alone(x) /\ Aligned(th[x], records, index) BY DEF AlignInv
<1>2. CASE x = t BY <1>1, <1>2
<1>3. CASE x # t
  <2>1. th[x] = Idle /\ th[t] = Idle BY <1>1, <1>3 DEF Alone
  <2> QED BY <1>1, <2>1
<1> QED BY <1>2, <1>3

\* To establish the invariant, of the thread at hand.
LEMMA AlignTo ==
    ASSUME TypeOK, NEW t \in Thread, th' = [th EXCEPT ![t] = th'[t]], Alone(t),
           Aligned(th'[t], records', index')
    PROVE  AlignInv'
<1>1. Alone(t)' BY StaysAlone
<1> QED BY <1>1 DEF AlignInv, Aligned, Behind

\* A step that changes neither, of a thread that owes the retriever nothing.
LEMMA AlignQuiet ==
    ASSUME TypeOK, FlowInv, NoGc, OneClient, AlignInv, NEW t \in Thread,
           th[t].pc # "idle" \/ (ready /\ t \in Client),
           th' = [th EXCEPT ![t] = th'[t]], UNCHANGED <<records, index>>,
           th[t].pc \notin {"index", "sub", "unindex"}, th'[t].pc \notin {"index", "sub", "unindex"}
    PROVE  AlignInv'
<1>1. Alone(t) BY BusyAlone
<1>2. Aligned(th[t], records, index) BY <1>1, AlignAt
<1>3. Aligned(th'[t], records', index') BY <1>2 DEF Aligned, Behind
<1> QED BY <1>1, <1>3, AlignTo

\* UpsertMemoryRecord changes the map, then the retriever.
LEMMA UpsertAligns ==
    ASSUME TypeOK, FlowInv, NoGc, OneClient, AlignInv, NEW t \in Thread,
           UpsertMap(t) \/ UpsertIndex(t) \/ UpsertAccount(t)
    PROVE  AlignInv'
<1> DEFINE s == th[t]
           u == th'[t]
           h == Head(s.upserts)
<1>0. s.pc # "idle" /\ th' = [th EXCEPT ![t] = u] /\ s.upserts \in Seq(Rec) /\ s.upserts # <<>>
  BY UpsertShape
<1>1. Alone(t) /\ Aligned(s, records, index) BY <1>0, BusyAlone, AlignAt
<1>2. h \in Rec
  <2>1. s.upserts \in Seq(Rec) /\ s.upserts # <<>> BY <1>0
  <2> QED BY <2>1
<1>3. h.key \in Key /\ h # None BY <1>2, SentinelAssumption DEF Rec
<1>4. records \in [Key -> MaybeRec] /\ index \in [Key -> MaybeRec] BY DEF TypeOK, SharedOK
<1>5. CASE s.pc = "map"
  <2>1. /\ u.pc = "index" /\ u.upserts = s.upserts /\ index' = index
        /\ records' = [records EXCEPT ![h.key] = h]
    BY <1>5, UpsertShape
  <2>2. Head(u.upserts) = h BY <2>1
  <2> HIDE DEF s, u, h
  <2>3. Aligned(u, records', index') BY <1>1, <1>3, <1>4, <1>5, <2>1, <2>2 DEF Aligned, Behind
  <2> QED BY <1>0, <1>1, <2>3, AlignTo DEF u
<1>6. CASE s.pc = "index"
  <2>1. /\ u.pc = "account" /\ records' = records /\ index' = [index EXCEPT ![h.key] = IndexEntry(h)]
    BY <1>6, UpsertShape
  <2>2. IndexEntry(h) = Shown(h) BY <1>3 DEF IndexEntry, Shown
  <2>3. records[h.key] = h /\ \A k \in Key \ {h.key} : index[k] = Shown(records[k])
    BY <1>1, <1>6 DEF Aligned, Behind
  <2> HIDE DEF s, u, h
  <2>4. Aligned(u, records', index') BY <1>3, <1>4, <2>1, <2>2, <2>3 DEF Aligned
  <2> QED BY <1>0, <1>1, <2>4, AlignTo DEF u
<1>7. CASE s.pc \notin {"map", "index"}
  <2>1. s.pc = "account" /\ u.pc = AfterUpsert(s.op, Tail(s.upserts)) /\ UNCHANGED <<records, index>>
    BY <1>7, UpsertShape
  <2>2. u.pc \notin {"index", "sub", "unindex"} BY <2>1 DEF AfterUpsert
  <2> QED BY <1>0, <2>1, <2>2, AlignQuiet
<1> QED BY <1>5, <1>6, <1>7

\* A removal or an eviction changes the map, then the retriever.
LEMMA DropAligns ==
    ASSUME TypeOK, FlowInv, NoGc, OneClient, AlignInv, NEW t \in Thread,
           RemoveMap(t) \/ EvictMap(t) \/ DropAccount(t) \/ DropIndex(t)
    PROVE  AlignInv'
<1> DEFINE s == th[t]
           u == th'[t]
<1>0. s.pc # "idle" /\ th' = [th EXCEPT ![t] = u] BY DropShape
<1>1. Alone(t) /\ Aligned(s, records, index) BY <1>0, BusyAlone, AlignAt
<1>2. records \in [Key -> MaybeRec] /\ index \in [Key -> MaybeRec] /\ s \in LocalState
  BY FlowAt DEF TypeOK, SharedOK
<1>3. s.dels \subseteq Key BY <1>2 DEF LocalState
<1> HIDE DEF s, u
<1>4. CASE s.pc \in {"unmap", "enforce"} /\ u.pc = "sub"
  <2>1. PICK k \in Key : records' = [records EXCEPT ![k] = None] /\ u.key = k /\ index' = index
    BY <1>3, <1>4, DropShape DEF s, u
  <2>2. Aligned(u, records', index') BY <1>1, <1>2, <1>4, <2>1 DEF Aligned, Behind
  <2> QED BY <1>0, <1>1, <2>2, AlignTo DEF u
<1>5. CASE s.pc = "unmap" /\ u.pc # "sub"
  <2>1. u.pc = "unmap" /\ UNCHANGED <<records, index>> BY <1>5, DropShape DEF s, u
  <2> QED BY <1>0, <1>5, <2>1, AlignQuiet DEF s, u
<1>6. CASE s.pc = "sub"
  <2>1. u.pc = "unindex" /\ u.key = s.key /\ UNCHANGED <<records, index>> BY <1>6, DropShape DEF s, u
  <2>2. Aligned(u, records', index') BY <1>1, <1>6, <2>1 DEF Aligned, Behind
  <2> QED BY <1>0, <1>1, <2>2, AlignTo DEF u
<1>7. CASE s.pc = "unindex"
  <2>1. u.pc \in {"unmap", "enforce"} /\ records' = records /\ index' = [index EXCEPT ![s.key] = None]
    BY <1>7, DropShape DEF s, u
  <2>2. s.key \in Key /\ records[s.key] = None /\ \A k \in Key \ {s.key} : index[k] = Shown(records[k])
    BY <1>1, <1>7 DEF Aligned, Behind
  <2>3. Aligned(u, records', index') BY <1>2, <2>1, <2>2 DEF Aligned, Shown
  <2> QED BY <1>0, <1>1, <2>3, AlignTo DEF u
<1>8. \/ s.pc \in {"unmap", "enforce"} /\ u.pc = "sub"
      \/ s.pc = "unmap" \/ s.pc = "sub" \/ s.pc = "unindex"
  BY DropShape DEF s, u
<1> QED BY <1>4, <1>5, <1>6, <1>7, <1>8

\* The other steps of a thread.
LEMMA OtherAligns ==
    ASSUME TypeOK, FlowInv, NoGc, OneClient, AlignInv, NEW t \in Thread,
           \/ WriteStart(t) \/ PinStart(t) \/ CompactStart(t)
           \/ WriteRecord(t) \/ PinCheck(t) \/ CompactTomb(t) \/ CompactDelete(t)
           \/ WriteDedup(t) \/ WriteBuilt(t) \/ PinGet(t) \/ CompactBuilt(t) \/ WriteRoute(t)
           \/ BatchWrite(t) \/ BatchWriteFail(t) \/ CompactReport(t) \/ EnforceDone(t)
           \/ WarmupScan(t) \/ WarmupLoad(t) \/ ReplayCheckpoints(t) \/ ReplayScan(t) \/ ReplayEvent(t)
    PROVE  AlignInv'
<1>0. Idle.pc = "idle" BY DEF Idle
<1>1. CASE WriteStart(t) \/ PinStart(t) \/ CompactStart(t)
  <2>1. ready /\ t \in Client BY <1>1, StartFlow
  <2>2. th[t].pc = "idle" /\ UNCHANGED <<records, index>>
    BY <1>1 DEF WriteStart, PinStart, CompactStart, Accept, memVars
  <2>3. th' = [th EXCEPT ![t] = th'[t]] /\ th'[t].pc \in {"build", "get", "check"}
    BY <1>1, StartShape
  <2> QED BY <2>1, <2>2, <2>3, AlignQuiet
<1>2. CASE WriteRecord(t) \/ PinCheck(t) \/ CompactTomb(t) \/ CompactDelete(t)
  <2>1. /\ th' = [th EXCEPT ![t] = th'[t]] /\ th[t].pc \in {"build", "check"}
        /\ th'[t].pc \in {"idle", "build", "commit"} /\ UNCHANGED <<records, index>>
    BY <1>0, <1>2, AppendShape DEF OnlyLocal, memVars, Appended
  <2> QED BY <2>1, AlignQuiet
<1>3. CASE WriteDedup(t) \/ WriteBuilt(t) \/ PinGet(t) \/ CompactBuilt(t) \/ WriteRoute(t)
  <2>1. /\ th' = [th EXCEPT ![t] = th'[t]] /\ th[t].pc \in {"build", "get", "route"}
        /\ th'[t].pc \in {"idle", "build", "commit", "unmap", "check", "enforce"} /\ UNCHANGED <<records, index>>
    BY <1>0, <1>3, QuietShape DEF memVars
  <2> QED BY <2>1, AlignQuiet
<1>4. CASE BatchWrite(t)
  <2>1. /\ th' = [th EXCEPT ![t] = th'[t]] /\ th[t].pc = "commit" /\ UNCHANGED <<records, index>>
        /\ th'[t].pc = "commit" \/ th'[t].pc = AfterUpsert(th[t].op, th[t].upserts)
    BY <1>4, CommitShape DEF memVars
  <2>2. th'[t].pc \notin {"index", "sub", "unindex"} BY <2>1 DEF AfterUpsert
  <2> QED BY <2>1, <2>2, AlignQuiet
<1>5. CASE BatchWriteFail(t)
  <2>1. /\ th' = [th EXCEPT ![t] = th'[t]] /\ th[t].pc = "commit" /\ th'[t].pc \in {"idle", "unmap"}
        /\ UNCHANGED <<records, index>>
    BY <1>0, <1>5, FailShape DEF memVars
  <2> QED BY <2>1, AlignQuiet
<1>6. CASE CompactReport(t) \/ EnforceDone(t)
  <2>1. /\ th' = [th EXCEPT ![t] = th'[t]] /\ th[t].pc \in {"unmap", "enforce"} /\ th'[t].pc = "idle"
        /\ UNCHANGED <<records, index>>
    BY <1>0, <1>6, DoneShape DEF memVars
  <2> QED BY <2>1, AlignQuiet
<1>7. CASE WarmupScan(t) \/ WarmupLoad(t) \/ ReplayCheckpoints(t) \/ ReplayScan(t) \/ ReplayEvent(t)
  <2>1. /\ th' = [th EXCEPT ![t] = th'[t]] /\ th[t].pc \in {"scan", "load", "ckpts", "events", "replay"}
        /\ UNCHANGED <<records, index>>
        /\ th'[t].pc \in {"load", "ckpts", "map", "events", "replay", "enforce"}
    BY <1>7, WarmShape DEF memVars
  <2> QED BY <2>1, AlignQuiet
<1> QED BY <1>1, <1>2, <1>3, <1>4, <1>5, <1>6, <1>7

\* A process that starts, time that passes.
LEMMA FreshAlone == th = FreshThreads => Alone(Main)
BY DEF FreshThreads, Alone

\* A process that starts holds nothing in either.
LEMMA FreshAligned == Aligned(FreshThreads[Main], NoRecords, NoRecords)
<1>1. FreshThreads[Main] = [Idle EXCEPT !.pc = "scan", !.op = "warmup"] BY DEF FreshThreads, Thread
<1>2. FreshThreads[Main].pc = "scan" BY <1>1 DEF Idle
<1> QED BY <1>2 DEF Aligned, NoRecords, Shown

\* The first start.
LEMMA InitAligns == Init => AlignInv
<1> SUFFICES ASSUME Init PROVE AlignInv OBVIOUS
<1>1. Main \in Thread BY DEF Thread
<1> QED BY <1>1, FreshAlone, FreshAligned DEF Init, AlignInv

\* Time passes; the process is restarted.
LEMMA EnvAligns ==
    ASSUME AlignInv, Tick \/ Restart \/ Finished \/ UNCHANGED vars PROVE AlignInv'
<1>1. CASE Restart
  <2>1. Main \in Thread BY DEF Thread
  <2>2. th' = FreshThreads /\ records' = NoRecords /\ index' = NoRecords BY <1>1 DEF Restart
  <2>3. Alone(Main)' BY <2>2 DEF Alone, FreshThreads
  <2> QED BY <2>1, <2>2, <2>3, FreshAligned DEF AlignInv, Aligned, Behind
<1>2. CASE Tick \/ Finished \/ UNCHANGED vars
  <2>1. UNCHANGED <<records, index, th>> BY <1>2 DEF Tick, Finished, vars, memVars
  <2> QED BY <2>1 DEF AlignInv, Alone, Aligned, Behind
<1> QED BY <1>1, <1>2

\* Every step keeps the retriever in line.
LEMMA NextAligns == NoGc /\ OneClient /\ TypeOK /\ FlowInv /\ AlignInv /\ [Next]_vars => AlignInv'
<1> SUFFICES ASSUME NoGc, OneClient, TypeOK, FlowInv, AlignInv, [Next]_vars PROVE AlignInv' OBVIOUS
<1>1. ASSUME NEW t \in Thread, WriteStart(t) \/ PinStart(t) \/ CompactStart(t) \/ Step(t) PROVE AlignInv'
  BY <1>1, OtherAligns, UpsertAligns, DropAligns DEF Step
<1> QED BY <1>1, EnvAligns DEF Next

\* With one handler thread and no background compaction, the retriever holds
\* exactly the resident records that are not tombstones whenever no request is under
\* way: UpsertMemoryRecord, RemoveMemoryRecord and EnforceMemoryLimits update the
\* map and the retriever in separate critical sections, and never leave them apart,
\* also when a batch fails part-way or the process is restarted.
THEOREM IndexStaysAligned == ASSUME NoGc, OneClient PROVE Spec => []IndexAligned
<1>1. Init => AlignInv BY InitAligns
<1>2. TypeOK /\ FlowInv /\ AlignInv /\ [Next]_vars => AlignInv' BY NextAligns
<1>3. AlignInv => IndexAligned BY DEF AlignInv, Aligned, Behind, IndexAligned, Quiescent, Shown
<1> QED BY <1>1, <1>2, <1>3, TypeCorrect, FlowInvariant, PTL DEF Spec

-----------------------------------------------------------------------------
(***************************************************************************)
(* What a request that succeeded wrote survives.  Events are stamped in    *)
(* the order in which they are made, so a row or record of a later event   *)
(* covers all earlier ones of its key.  For one client: the store covers   *)
(* the acknowledged events at every moment, and will cover the events of   *)
(* the running request when the rows of its batch are in; the resident     *)
(* records do likewise, once the upserts and removals of the request are   *)
(* done; a replay starts from a checkpoint that acknowledged events are    *)
(* not beyond.                                                             *)
(***************************************************************************)

\* Event f of K is on the key of e and not before it.
Supersedes(f, e) == f.rec.key = e.rec.key /\ ~PosLess(Pos(f), Pos(e))

\* A stored row v, or no row, is that of e or of a later event in K.
RowCovers(K, e, v) ==
    \E f \in K : Supersedes(f, e) /\ (v = f.rec \/ (v = None /\ f.rec.tomb))

\* A resident record v is that of e or of a later event in K.
RecCovers(K, e, v) == v = None \/ \E f \in K : Supersedes(f, e) /\ v = f.rec

\* A replay from checkpoint c leaves e out.
CkptCovers(e, c) == c # None /\ ~PosLess(c, Pos(e))

\* The rows as they are when the batch b is committed.
DocsThen(b, stored) == [k \in Key |->
    IF b.doc[k] = None THEN stored[k] ELSE IF b.doc[k] = Gone THEN None ELSE b.doc[k]]
\* The checkpoints likewise.
CkptThen(b, upto) == [w \in Workspace |-> IF b.ckpt[w] = None THEN upto[w] ELSE b.ckpt[w]]

\* The store and the resident records cover the events in A.
Covered(K, A, log, recs, stored, upto) ==
    /\ log \subseteq K /\ \A f \in K : f.ws = WsOf[f.rec.key]
    /\ \A e \in A : /\ RowCovers(K, e, stored[e.rec.key])
                    /\ RecCovers(K, e, recs[e.rec.key])
                    /\ CkptCovers(e, upto[e.ws])

\* The rows of the batch, once committed, cover A and the events of the request.
RowsPending(s, K, A, stored, upto) ==
    \A e \in A \cup s.evs : /\ RowCovers(K, e, DocsThen(s.batch, stored)[e.rec.key])
                            /\ CkptCovers(e, CkptThen(s.batch, upto)[e.ws])

\* The last record of the list that has the key of e, or else the resident
\* one, covers e; or the record of that key is still to be removed.
ShownPending(q, gone, K, e, recs) ==
    \/ e.rec.key \in gone
    \/ /\ \A i \in 1..Len(q) :
            (q[i].key = e.rec.key /\ \A j \in (i + 1)..Len(q) : q[j].key # e.rec.key)
            => RecCovers(K, e, q[i])
       /\ (\A i \in 1..Len(q) : q[i].key # e.rec.key) => RecCovers(K, e, recs[e.rec.key])

\* What the request under way, with locals s, has still to do keeps A covered,
\* and will cover its own events.
RequestCovers(s, K, A, recs, stored, upto) ==
    /\ RowsPending(s, K, A, stored, upto)
    /\ \A e \in A, i \in 1..Len(s.upserts) : s.upserts[i].key = e.rec.key => RecCovers(K, e, s.upserts[i])
    /\ \A e \in s.evs : ShownPending(s.upserts, s.dels, K, e, recs)
    /\ s.pc \in {"index", "account"} => recs[Head(s.upserts).key] = Head(s.upserts)
    /\ s.op = "warmup" => \A e \in A : RecCovers(K, e, s.snap[e.rec.key])
    /\ \A f \in s.log, e \in A : f.rec.key = e.rec.key => f \in K /\ ~PosLess(Pos(f), Pos(e))

\* The events of requests that ended, and of the one that runs.
Known(s) == acked \cup failed \cup unacked \cup s.evs

\* The store, the records and the busy thread cover what was acknowledged.
CoverInv == \E t \in Thread :
    /\ Alone(t)
    /\ Covered(Known(th[t]), acked, events, records, docs, ckpt)
    /\ RequestCovers(th[t], Known(th[t]), acked, records, docs, ckpt)

\* More events to choose from cover no less.
LEMMA CoversMore ==
    ASSUME NEW K, NEW L, K \subseteq L, NEW e, NEW v
    PROVE  /\ RowCovers(K, e, v) => RowCovers(L, e, v)
           /\ RecCovers(K, e, v) => RecCovers(L, e, v)
BY DEF RowCovers, RecCovers

\* A record loaded from a row that covers an event covers it.
LEMMA RowToRec == ASSUME NEW K, NEW e, NEW v, RowCovers(K, e, v) PROVE RecCovers(K, e, v)
BY DEF RowCovers, RecCovers

\* A thread that has nothing left to write or to apply.
LEMMA CoverRest ==
    ASSUME NEW u, NEW K, NEW A \in SUBSET Event, NEW log, NEW recs,
           NEW stored \in [Key -> MaybeRec], NEW upto \in [Workspace -> EventPos \cup {None}],
           Covered(K, A, log, recs, stored, upto),
           u.evs = {}, u.upserts = <<>>, u.batch = EmptyBatch, u.log = {},
           u.pc \notin {"index", "account"}, u.op = "warmup" => u.snap = NoRecords
    PROVE  RequestCovers(u, K, A, recs, stored, upto)
<1>0. \A e \in A : e.rec.key \in Key /\ e.ws \in Workspace BY DEF Event, Rec
<1>1. \A k \in Key : DocsThen(u.batch, stored)[k] = stored[k] BY DEF DocsThen, EmptyBatch, NoRecords
<1>2. \A w \in Workspace : CkptThen(u.batch, upto)[w] = upto[w] BY DEF CkptThen, EmptyBatch, NoCkpts
<1>3. RowsPending(u, K, A, stored, upto) BY <1>0, <1>1, <1>2 DEF RowsPending, Covered
<1>4. Len(u.upserts) = 0 OBVIOUS
<1>5. u.op = "warmup" => \A e \in A : RecCovers(K, e, u.snap[e.rec.key])
  BY <1>0 DEF RecCovers, NoRecords
<1> QED BY <1>3, <1>4, <1>5 DEF RequestCovers

\* Types of what the invariant relates.
LEMMA CoverTypes ==
    ASSUME TypeOK
    PROVE  /\ acked \in SUBSET Event /\ records \in [Key -> MaybeRec] /\ docs \in [Key -> MaybeRec]
           /\ ckpt \in [Workspace -> EventPos \cup {None}] /\ events \subseteq Event
           /\ \A t \in Thread : Known(th[t]) \subseteq Event
BY DEF TypeOK, SharedOK, ThreadsOK, LocalState, Known

\* The invariant, of the thread at hand.
LEMMA CoverAt ==
    ASSUME TypeOK, CoverInv, NEW t \in Thread, Alone(t)
    PROVE  /\ Covered(Known(th[t]), acked, events, records, docs, ckpt)
           /\ RequestCovers(th[t], Known(th[t]), acked, records, docs, ckpt)
<1>1. PICK x \in Thread : /\ Alone(x)
                          /\ Covered(Known(th[x]), acked, events, records, docs, ckpt)
                          /\ RequestCovers(th[x], Known(th[x]), acked, records, docs, ckpt)
  BY DEF CoverInv
<1>2. CASE x = t BY <1>1, <1>2
<1>3. CASE x # t
  <2>1. th[x] = th[t] BY <1>1, <1>3 DEF Alone
  <2> QED BY <1>1, <2>1
<1> QED BY <1>2, <1>3

\* To establish the invariant, of the thread at hand.
LEMMA CoverTo ==
    ASSUME TypeOK, NEW t \in Thread, th' = [th EXCEPT ![t] = th'[t]], Alone(t),
           NEW K, K = acked' \cup failed' \cup unacked' \cup th'[t].evs,
           Covered(K, acked', events', records', docs', ckpt'),
           RequestCovers(th'[t], K, acked', records', docs', ckpt')
    PROVE  CoverInv'
<1>1. Alone(t)' BY StaysAlone
<1>2. K = Known(th[t])' BY DEF Known
<1>3. Covered(Known(th[t]), acked, events, records, docs, ckpt)' BY <1>2 DEF Covered
<1>4. RequestCovers(th[t], Known(th[t]), acked, records, docs, ckpt)' BY <1>2 DEF RequestCovers
<1> QED BY <1>1, <1>3, <1>4 DEF CoverInv

\* A step after which the thread has nothing left to do, and which keeps what
\* the store and the resident records cover.
LEMMA CoverEnds ==
    ASSUME TypeOK, TypeOK', NEW t \in Thread, th' = [th EXCEPT ![t] = th'[t]], Alone(t),
           NEW K, K = acked' \cup failed' \cup unacked',
           Covered(K, acked', events', records', docs', ckpt'),
           th'[t].evs = {}, th'[t].upserts = <<>>, th'[t].batch = EmptyBatch, th'[t].log = {},
           th'[t].pc \notin {"index", "account"}, th'[t].op = "warmup" => th'[t].snap = NoRecords
    PROVE  CoverInv'
<1>1. /\ acked' \in SUBSET Event /\ docs' \in [Key -> MaybeRec]
      /\ ckpt' \in [Workspace -> EventPos \cup {None}]
  BY DEF TypeOK, SharedOK
<1>2. RequestCovers(th'[t], K, acked', records', docs', ckpt') BY <1>1, CoverRest
<1>3. K = acked' \cup failed' \cup unacked' \cup th'[t].evs OBVIOUS
<1> QED BY <1>2, <1>3, CoverTo

\* A request that starts, ends or fails.
LEMMA StartCovers ==
    ASSUME TypeOK, FlowInv, NoGc, OneClient, CoverInv, NEW t \in Thread,
           WriteStart(t) \/ PinStart(t) \/ CompactStart(t)
    PROVE  CoverInv'
<1>0. TypeOK' BY StartType
<1>1. ready /\ t \in Client /\ Alone(t) BY StartFlow, BusyAlone
<1>2. th[t] = Idle BY StartShape DEF FlowInv, Flow
<1>3. Known(th[t]) = acked \cup failed \cup unacked BY <1>2 DEF Known, Idle
<1>4. Covered(acked \cup failed \cup unacked, acked, events, records, docs, ckpt) BY <1>1, <1>3, CoverAt
<1>5. UNCHANGED <<acked, failed, unacked, events, records, docs, ckpt>>
  BY StartShape DEF histVars, storeVars, memVars
<1>6. /\ th'[t].op # "warmup" /\ th'[t].pc \notin {"index", "account"}
      /\ th'[t].evs = {} /\ th'[t].upserts = <<>> /\ th'[t].batch = EmptyBatch /\ th'[t].log = {}
      /\ th' = [th EXCEPT ![t] = th'[t]]
  BY StartShape
<1> QED BY <1>0, <1>1, <1>4, <1>5, <1>6, CoverEnds

\* A thread without a request has nothing to write or to apply.
LEMMA IdleData ==
    /\ Idle.evs = {} /\ Idle.upserts = <<>> /\ Idle.batch = EmptyBatch /\ Idle.log = {}
    /\ Idle.pc = "idle" /\ Idle.op = "none" /\ Idle.dels = {}
BY DEF Idle

\* A request that fails part-way: its rows were committed partition by partition.
LEMMA FailCovers ==
    ASSUME TypeOK, FlowInv, NoGc, OneClient, CoverInv, NEW t \in Thread, BatchWriteFail(t)
    PROVE  CoverInv'
<1>0. TypeOK' BY BatchType
<1>1. th[t].pc # "idle" BY FailShape
<1>2. Alone(t) BY <1>1, BusyAlone
<1>3. UNCHANGED <<acked, unacked, events, records, docs, ckpt>> /\ failed' = failed \cup th[t].evs
  BY FailShape DEF storeVars, memVars
<1>4. Known(th[t]) = acked' \cup failed' \cup unacked' BY <1>3 DEF Known
<1>5. Covered(Known(th[t]), acked, events, records, docs, ckpt) BY <1>2, CoverAt
<1>6. Covered(acked' \cup failed' \cup unacked', acked', events', records', docs', ckpt')
  BY <1>3, <1>4, <1>5
<1>7. th[t].log = {} BY FailShape, FlowAt DEF ReqFlow
<1>8. /\ th'[t].op # "warmup" /\ th'[t].pc \notin {"index", "account"}
      /\ th'[t].evs = {} /\ th'[t].upserts = <<>> /\ th'[t].batch = EmptyBatch /\ th'[t].log = {}
      /\ th' = [th EXCEPT ![t] = th'[t]]
  BY <1>7, FailShape, IdleData
<1> QED BY <1>0, <1>2, <1>6, <1>8, CoverEnds

\* A request that ends is acknowledged when its events are covered.
LEMMA DoneCovers ==
    ASSUME TypeOK, FlowInv, NoGc, OneClient, CoverInv, NEW t \in Thread, CompactReport(t) \/ EnforceDone(t)
    PROVE  CoverInv'
<1> DEFINE s == th[t]
           K == Known(s)
<1>0. TypeOK' BY CompactType, DropType
<1>1. s.pc # "idle" BY DoneShape
<1>2. Alone(t) BY <1>1, BusyAlone
<1>3. /\ UNCHANGED <<failed, unacked, events, records, docs, ckpt>> /\ acked' = acked \cup s.evs
      /\ s.upserts = <<>> /\ s.dels = {} /\ s.batch = EmptyBatch
      /\ th' = [th EXCEPT ![t] = th'[t]] /\ th'[t] = Idle
  BY DoneShape DEF storeVars, memVars
<1>4. K = acked' \cup failed' \cup unacked' BY <1>3 DEF Known
<1>5. Covered(K, acked, events, records, docs, ckpt) /\ RequestCovers(s, K, acked, records, docs, ckpt)
  BY <1>2, CoverAt
<1>6. s.evs \subseteq Event BY FlowAt DEF LocalState
<1>7. \A e \in s.evs : e.rec.key \in Key /\ e.ws \in Workspace BY <1>6 DEF Event, Rec
<1>8. \A k \in Key : DocsThen(s.batch, docs)[k] = docs[k] BY <1>3 DEF DocsThen, EmptyBatch, NoRecords
<1>9. \A w \in Workspace : CkptThen(s.batch, ckpt)[w] = ckpt[w] BY <1>3 DEF CkptThen, EmptyBatch, NoCkpts
<1>10. Len(s.upserts) = 0 BY <1>3
<1> HIDE DEF s, K
<1>11. \A e \in s.evs : /\ RowCovers(K, e, docs[e.rec.key])
                        /\ CkptCovers(e, ckpt[e.ws])
  BY <1>5, <1>7, <1>8, <1>9 DEF RequestCovers, RowsPending
<1>12. \A e \in s.evs : RecCovers(K, e, records[e.rec.key])
  BY <1>3, <1>5, <1>10 DEF RequestCovers, ShownPending
<1>13. Covered(K, acked', events', records', docs', ckpt')
  BY <1>3, <1>5, <1>11, <1>12 DEF Covered
<1> QED BY <1>0, <1>2, <1>3, <1>4, <1>13, CoverEnds, IdleData

\* A step of a request that only moves it on.
LEMMA QuietCovers ==
    ASSUME TypeOK, FlowInv, NoGc, OneClient, CoverInv, NEW t \in Thread,
           WriteDedup(t) \/ WriteBuilt(t) \/ PinGet(t) \/ CompactBuilt(t) \/ WriteRoute(t)
    PROVE  CoverInv'
<1> DEFINE s == th[t]
           u == th'[t]
           K == Known(s)
<1>0. TypeOK' BY WriteType, PinType, CompactType, BatchType
<1>1. s.pc # "idle" /\ th' = [th EXCEPT ![t] = u] /\ t # Main BY QuietShape
<1>2. Alone(t) BY <1>1, BusyAlone
<1>3. UNCHANGED <<acked, failed, unacked, events, records, docs, ckpt>>
  BY QuietShape DEF memVars, histVars
<1>4. Covered(K, acked, events, records, docs, ckpt) /\ RequestCovers(s, K, acked, records, docs, ckpt)
  BY <1>2, CoverAt
<1>5. CASE u = Idle /\ s.evs = {}
  <2>1. K = acked' \cup failed' \cup unacked' BY <1>3, <1>5 DEF Known
  <2>2. Covered(K, acked', events', records', docs', ckpt') BY <1>3, <1>4
  <2> HIDE DEF K
  <2> QED BY <1>0, <1>1, <1>2, <1>5, <2>1, <2>2, CoverEnds, IdleData
<1>6. CASE ~(u = Idle /\ s.evs = {})
  <2>1. Same(s, u) /\ u.pc \in {"build", "commit", "unmap", "check", "enforce"} BY <1>6, QuietShape
  <2>2. K = acked' \cup failed' \cup unacked' \cup u.evs BY <1>3, <2>1 DEF Known, Same
  <2>3. Covered(K, acked', events', records', docs', ckpt') BY <1>3, <1>4
  <2>4. s.op # "warmup" BY <1>1, FlowAt DEF ReqFlow
  <2> HIDE DEF s, u, K
  <2>5. RequestCovers(u, K, acked', records', docs', ckpt')
    BY <1>3, <1>4, <2>1, <2>4 DEF RequestCovers, RowsPending, Same
  <2> QED BY <1>1, <1>2, <2>2, <2>3, <2>5, CoverTo DEF u
<1> QED BY <1>5, <1>6

\* Every event of the store and of the request is before the next one made.
LEMMA NextIsLatest ==
    ASSUME TypeOK, LogInv, NEW t \in Thread, NEW r \in Rec,
           NEW e \in Event, e = MakeEvent(r, clock, local_seq + 1),
           NEW x \in events \cup acked \cup th[t].evs
    PROVE  ~PosLess(Pos(e), Pos(x))
<1>0. clock \in Nat /\ local_seq \in Nat /\ boot \in Nat /\ boot <= clock BY DEF LogInv, TypeOK, SharedOK
<1>1. x \in Event BY DEF TypeOK, SharedOK, ThreadsOK, LocalState
<1>2. x.ts <= clock /\ (boot <= x.ts => x.seq <= local_seq)
  <2>1. CASE x \in events \cup acked BY <2>1 DEF LogInv, LogStamped, AckedDurable
  <2>2. CASE x \in th[t].evs BY <2>2, LogAt DEF LogLocal
  <2> QED BY <2>1, <2>2
<1>3. e.ts >= clock /\ e.seq = local_seq + 1
  <2>1. r.upd \in Nat BY DEF Rec
  <2>2. e.ts = Max2(r.upd, clock) /\ e.seq = local_seq + 1 BY DEF MakeEvent
  <2> QED BY <1>0, <2>1, <2>2 DEF Max2
<1>4. x.ts \in Nat /\ x.seq \in Nat /\ e.ts \in Nat /\ e.seq \in Nat BY <1>1 DEF Event
<1> QED BY <1>0, <1>2, <1>3, <1>4 DEF PosLess, Pos

\* A record operation is appended to a batch.
LEMMA AppendedCovers ==
    ASSUME NEW s \in LocalState, NEW u, NEW K, K \subseteq Event, NEW A, A \subseteq K, s.evs \subseteq K,
           NEW log, NEW recs, NEW stored \in [Key -> MaybeRec],
           NEW upto \in [Workspace -> EventPos \cup {None}],
           Covered(K, A, log, recs, stored, upto), RequestCovers(s, K, A, recs, stored, upto),
           NEW k \in Key, NEW r \in Rec, NEW e \in Event, Appended(s, u, k, r, e),
           \A x \in A \cup s.evs : ~PosLess(Pos(e), Pos(x)), s.op # "warmup"
    PROVE  /\ Covered(K \cup {e}, A, log, recs, stored, upto)
           /\ RequestCovers(u, K \cup {e}, A, recs, stored, upto)
<1> DEFINE L == K \cup {e}
           q == s.upserts
           p == u.upserts
<1>0. /\ s.batch.doc \in [Key -> MaybeRec \cup {Gone}] /\ q \in Seq(Rec)
      /\ s.batch.ckpt \in [Workspace -> EventPos \cup {None}]
  BY DEF LocalState, Batch
<1>1. ~PosLess(Pos(e), Pos(e)) BY DEF Event, PosLess, Pos
<1>2. \A x \in A \cup u.evs : x \in Event /\ x.rec.key \in Key /\ x.ws \in Workspace
  BY DEF Appended, Event, Rec
<1>3. \A x \in A \cup u.evs : x.rec.key = k => Supersedes(e, x) BY <1>1 DEF Appended, Supersedes
<1>4. e \in L /\ e.rec = r /\ r.key = k /\ r # None /\ r # Gone /\ None # Gone
  BY SentinelAssumption DEF Appended
<1>5. Covered(L, A, log, recs, stored, upto) BY CoversMore DEF Covered, Appended
<1>6. RowsPending(u, L, A, stored, upto)
  <2> SUFFICES ASSUME NEW x \in A \cup u.evs
               PROVE  /\ RowCovers(L, x, DocsThen(u.batch, stored)[x.rec.key])
                      /\ CkptCovers(x, CkptThen(u.batch, upto)[x.ws])
    BY DEF RowsPending
  <2>0. x \in Event /\ x.rec.key \in Key /\ x.ws \in Workspace BY <1>2
  <2>1. x = e \/ (x \in A \cup s.evs /\ RowCovers(L, x, DocsThen(s.batch, stored)[x.rec.key])
                  /\ CkptCovers(x, CkptThen(s.batch, upto)[x.ws]))
    BY CoversMore DEF RequestCovers, RowsPending, Appended
  <2>2. RowCovers(L, x, DocsThen(u.batch, stored)[x.rec.key])
    <3>1. CASE x.rec.key = k
      <4>1. \/ DocsThen(u.batch, stored)[k] = r
            \/ r.tomb /\ DocsThen(u.batch, stored)[k] = None
        BY <1>0, <1>4 DEF Appended, DocsThen
      <4>2. Supersedes(e, x) BY <1>3, <3>1
      <4> HIDE DEF L
      <4> QED BY <1>4, <3>1, <4>1, <4>2 DEF RowCovers
    <3>2. CASE x.rec.key # k
      <4>1. x # e BY <1>4, <3>2
      <4>2. DocsThen(u.batch, stored)[x.rec.key] = DocsThen(s.batch, stored)[x.rec.key]
        BY <1>0, <2>0, <3>2 DEF Appended, DocsThen
      <4> QED BY <2>1, <4>1, <4>2
    <3> QED BY <3>1, <3>2
  <2>3. CkptCovers(x, CkptThen(u.batch, upto)[x.ws])
    <3>1. CASE x.ws = e.ws
      <4>1. Pos(e) \in EventPos /\ Pos(e) # None BY SentinelAssumption DEF Pos, EventPos, Event
      <4>2. CkptThen(u.batch, upto)[x.ws] = Pos(e) BY <1>0, <2>0, <3>1, <4>1 DEF Appended, CkptThen
      <4>3. ~PosLess(Pos(e), Pos(x)) BY <1>1, <2>1
      <4> QED BY <4>1, <4>2, <4>3 DEF CkptCovers
    <3>2. CASE x.ws # e.ws
      <4>1. CkptThen(u.batch, upto)[x.ws] = CkptThen(s.batch, upto)[x.ws]
        BY <1>0, <2>0, <3>2 DEF Appended, CkptThen
      <4> QED BY <2>1, <3>2, <4>1
    <3> QED BY <3>1, <3>2
  <2> QED BY <2>2, <2>3
<1>7. \/ /\ Len(p) = Len(q) + 1 /\ Len(q) \in Nat /\ p[Len(q) + 1] = r /\ u.dels = s.dels
         /\ \A i \in 1..Len(q) : p[i] = q[i]
      \/ p = q /\ u.dels = s.dels \cup {k}
  BY <1>0 DEF Appended
<1>8. \A x \in A, i \in 1..Len(p) : p[i].key = x.rec.key => RecCovers(L, x, p[i])
  <2> SUFFICES ASSUME NEW x \in A, NEW i \in 1..Len(p), p[i].key = x.rec.key PROVE RecCovers(L, x, p[i])
    OBVIOUS
  <2>1. CASE i \in 1..Len(q) /\ p[i] = q[i] BY <2>1, CoversMore DEF RequestCovers
  <2>2. CASE p[i] = r
    <3>1. Supersedes(e, x) BY <1>3, <1>4, <2>2
    <3> HIDE DEF L
    <3> QED BY <1>4, <2>2, <3>1 DEF RecCovers
  <2>3. (i \in 1..Len(q) /\ p[i] = q[i]) \/ p[i] = r
    <3> HIDE DEF p, q
    <3> QED BY <1>7
  <2> QED BY <2>1, <2>2, <2>3
<1>9. ASSUME NEW x \in u.evs PROVE ShownPending(p, u.dels, L, x, recs)
  <2>0. x.rec.key \in Key /\ (x # e => x \in s.evs) BY <1>2, <1>9 DEF Appended
  <2>1. x # e => ShownPending(q, s.dels, L, x, recs)
    <3> SUFFICES ASSUME x # e PROVE ShownPending(q, s.dels, L, x, recs) OBVIOUS
    <3>1. ShownPending(q, s.dels, K, x, recs) BY <2>0 DEF RequestCovers
    <3>2. \A v : RecCovers(K, x, v) => RecCovers(L, x, v) BY CoversMore
    <3> HIDE DEF q, L
    <3> QED BY <3>1, <3>2 DEF ShownPending
  <2>2. x.rec.key = k => RecCovers(L, x, r)
    <3>1. x.rec.key = k => Supersedes(e, x) BY <1>3, <1>9
    <3> HIDE DEF L
    <3> QED BY <1>4, <3>1 DEF RecCovers
  <2>3. x = e => x.rec.key = k BY <1>4
  <2> HIDE DEF p, q, L
  <2>4. CASE p = q /\ u.dels = s.dels \cup {k}
    <3>1. CASE x.rec.key = k BY <2>4, <3>1 DEF ShownPending
    <3>2. CASE x.rec.key # k BY <2>1, <2>3, <2>4, <3>2 DEF ShownPending
    <3> QED BY <3>1, <3>2
  <2>5. CASE /\ Len(p) = Len(q) + 1 /\ Len(q) \in Nat /\ p[Len(q) + 1] = r /\ u.dels = s.dels
             /\ \A i \in 1..Len(q) : p[i] = q[i]
    <3> DEFINE n == Len(q)
    <3> HIDE DEF n
    <3>0. n \in Nat /\ Len(p) = n + 1 /\ Len(q) = n /\ p[n + 1] = r /\ \A i \in 1..n : p[i] = q[i]
      BY <2>5 DEF n
    <3>1. CASE x.rec.key = k
      <4>1. \A i \in 1..n : n + 1 \in (i + 1)..(n + 1) BY <3>0
      <4>2. \A i \in 1..(n + 1) : i = n + 1 \/ i \in 1..n BY <3>0
      <4>3. \A i \in 1..(n + 1) : (p[i].key = k /\ \A j \in (i + 1)..(n + 1) : p[j].key # k) => i = n + 1
        BY <1>4, <3>0, <4>1, <4>2
      <4>4. ~ \A i \in 1..(n + 1) : p[i].key # k BY <1>4, <3>0
      <4> QED BY <2>2, <3>0, <3>1, <4>3, <4>4 DEF ShownPending
    <3>2. CASE x.rec.key # k
      <4>0. ShownPending(q, s.dels, L, x, recs) BY <2>1, <2>3, <3>2
      <4>1. CASE x.rec.key \in s.dels BY <2>5, <4>1 DEF ShownPending
      <4>2. CASE x.rec.key \notin s.dels
        <5>1. /\ \A i \in 1..n : (q[i].key = x.rec.key /\ \A j \in (i + 1)..n : q[j].key # x.rec.key)
                                 => RecCovers(L, x, q[i])
              /\ (\A i \in 1..n : q[i].key # x.rec.key) => RecCovers(L, x, recs[x.rec.key])
          BY <3>0, <4>0, <4>2 DEF ShownPending
        <5>2. ASSUME NEW i \in 1..(n + 1), p[i].key = x.rec.key,
                     \A j \in (i + 1)..(n + 1) : p[j].key # x.rec.key
              PROVE  RecCovers(L, x, p[i])
          <6>1. i \in 1..n BY <1>4, <3>0, <3>2, <5>2
          <6>2. \A j \in (i + 1)..n : j \in (i + 1)..(n + 1) /\ j \in 1..n BY <3>0, <6>1
          <6>3. \A j \in (i + 1)..n : q[j].key # x.rec.key BY <3>0, <5>2, <6>2
          <6> QED BY <3>0, <5>1, <5>2, <6>1, <6>3
        <5>3. ASSUME \A i \in 1..(n + 1) : p[i].key # x.rec.key PROVE RecCovers(L, x, recs[x.rec.key])
          <6>1. \A i \in 1..n : i \in 1..(n + 1) BY <3>0
          <6> QED BY <3>0, <5>1, <5>3, <6>1
        <5> QED BY <3>0, <5>2, <5>3 DEF ShownPending
      <4> QED BY <4>1, <4>2
    <3> QED BY <3>1, <3>2
  <2> QED BY <1>7, <2>4, <2>5
<1>10. /\ u.pc \notin {"index", "account"} /\ u.op # "warmup"
       /\ \A f \in u.log, x \in A : f.rec.key = x.rec.key => f \in L /\ ~PosLess(Pos(f), Pos(x))
  BY DEF Appended, RequestCovers
<1> QED BY <1>5, <1>6, <1>8, <1>9, <1>10 DEF RequestCovers

\* A record operation is appended to the batch.
LEMMA AppendCovers ==
    ASSUME TypeOK, FlowInv, LogInv, NoGc, OneClient, CoverInv, NEW t \in Thread,
           WriteRecord(t) \/ PinCheck(t) \/ CompactTomb(t) \/ CompactDelete(t)
    PROVE  CoverInv'
<1> DEFINE s == th[t]
           u == th'[t]
           K == Known(s)
<1>0. TypeOK' BY WriteType, PinType, CompactType
<1>1. s.pc # "idle" /\ th' = [th EXCEPT ![t] = u] /\ t # Main BY AppendShape DEF OnlyLocal
<1>2. Alone(t) BY <1>1, BusyAlone
<1>3. UNCHANGED <<acked, failed, unacked, events, records, docs, ckpt>>
  BY AppendShape DEF OnlyLocal, memVars, storeVars, histVars
<1>4. Covered(K, acked, events, records, docs, ckpt) /\ RequestCovers(s, K, acked, records, docs, ckpt)
  BY <1>2, CoverAt
<1>5. /\ s \in LocalState /\ s.op # "warmup" /\ K \subseteq Event /\ acked \subseteq K /\ s.evs \subseteq K
      /\ docs \in [Key -> MaybeRec] /\ ckpt \in [Workspace -> EventPos \cup {None}]
  BY <1>1, FlowAt, CoverTypes DEF ReqFlow, Known
<1>6. CASE s.pc = "check" /\ u = Idle
  <2>1. s.evs = {} BY <1>1, <1>6, FlowAt DEF ReqFlow
  <2>2. K = acked' \cup failed' \cup unacked' BY <1>3, <2>1 DEF Known
  <2>3. Covered(K, acked', events', records', docs', ckpt') BY <1>3, <1>4
  <2> HIDE DEF K
  <2> QED BY <1>0, <1>1, <1>2, <1>6, <2>2, <2>3, CoverEnds, IdleData
<1>7. CASE ~(s.pc = "check" /\ u = Idle)
  <2>1. PICK k \in Key, r \in Rec, e \in Event : Appended(s, u, k, r, e) /\ e = MakeEvent(r, clock, local_seq + 1)
    BY <1>7, AppendShape
  <2>2. \A x \in acked \cup s.evs : ~PosLess(Pos(e), Pos(x)) BY <2>1, NextIsLatest
  <2>3. K \cup {e} = acked' \cup failed' \cup unacked' \cup u.evs BY <1>3, <2>1 DEF Known, Appended
  <2> HIDE DEF s, u, K
  <2>4. /\ Covered(K \cup {e}, acked, events, records, docs, ckpt)
        /\ RequestCovers(u, K \cup {e}, acked, records, docs, ckpt)
    BY <1>4, <1>5, <2>1, <2>2, AppendedCovers
  <2>5. /\ Covered(K \cup {e}, acked', events', records', docs', ckpt')
        /\ RequestCovers(u, K \cup {e}, acked', records', docs', ckpt')
    BY <1>3, <2>4
  <2> QED BY <1>1, <1>2, <2>3, <2>5, CoverTo DEF u
<1> QED BY <1>6, <1>7

\* One partition of the batch: what the rows will be stays, and every row is
\* the old one or the one it was to become.
LEMMA CommitCovers ==
    ASSUME TypeOK, FlowInv, LogInv, NoGc, OneClient, CoverInv, NEW t \in Thread, BatchWrite(t)
    PROVE  CoverInv'
<1> DEFINE s == th[t]
           u == th'[t]
           K == Known(s)
<1>0. s.pc # "idle" /\ th' = [th EXCEPT ![t] = u] /\ t # Main BY CommitShape
<1>1. Alone(t) BY <1>0, BusyAlone
<1>2. /\ UNCHANGED <<acked, failed, unacked, records>>
      /\ u.op = s.op /\ u.evs = s.evs /\ u.upserts = s.upserts /\ u.dels = s.dels /\ u.log = s.log
  BY CommitShape DEF memVars, histVars
<1>3. PICK p \in Partition : /\ u.batch = WithoutPid(s.batch, p)
                             /\ docs' = DocsAfter(s.batch, p)
                             /\ events' = EventsAfter(s.batch, p)
                             /\ ckpt' = CkptAfter(s.batch, p)
  BY CommitShape
<1>4. Covered(K, acked, events, records, docs, ckpt) /\ RequestCovers(s, K, acked, records, docs, ckpt)
  BY <1>1, CoverAt
<1>5. events' \subseteq K
  <2>1. events' \subseteq events \cup s.evs BY <1>3, CommitGrows
  <2>2. events \subseteq K /\ s.evs \subseteq K BY <1>4 DEF Covered, Known
  <2> QED BY <2>1, <2>2
<1>6. s.op # "warmup" /\ s.batch \in Batch BY <1>0, FlowAt DEF ReqFlow, LocalState
<1>7. u.pc \notin {"index", "account"}
  <2>1. u.pc = "commit" \/ u.pc = AfterUpsert(s.op, s.upserts) BY CommitShape
  <2> QED BY <2>1 DEF AfterUpsert
<1>8. \A e \in acked \cup s.evs : e.rec.key \in Key /\ e.ws \in Workspace
  <2>1. acked \cup s.evs \subseteq Event BY CoverTypes DEF Known
  <2> QED BY <2>1 DEF Event, Rec
<1>9. \A k \in Key : /\ DocsThen(u.batch, docs')[k] = DocsThen(s.batch, docs)[k]
                     /\ docs'[k] = docs[k] \/ docs'[k] = DocsThen(s.batch, docs)[k]
  BY <1>3 DEF DocsThen, WithoutPid, DocsAfter
<1>10. \A w \in Workspace : /\ CkptThen(u.batch, ckpt')[w] = CkptThen(s.batch, ckpt)[w]
                            /\ ckpt'[w] = ckpt[w] \/ ckpt'[w] = CkptThen(s.batch, ckpt)[w]
  BY <1>3 DEF CkptThen, WithoutPid, CkptAfter
<1>11. K = acked' \cup failed' \cup unacked' \cup u.evs BY <1>2 DEF Known
<1> HIDE DEF s, u, K
<1>12. RowsPending(u, K, acked, docs', ckpt')
  BY <1>2, <1>4, <1>8, <1>9, <1>10 DEF RowsPending, RequestCovers
<1>13. \A e \in acked : RowCovers(K, e, docs'[e.rec.key]) /\ CkptCovers(e, ckpt'[e.ws])
  <2> SUFFICES ASSUME NEW e \in acked PROVE RowCovers(K, e, docs'[e.rec.key]) /\ CkptCovers(e, ckpt'[e.ws])
    OBVIOUS
  <2>1. /\ RowCovers(K, e, docs[e.rec.key]) /\ CkptCovers(e, ckpt[e.ws])
        /\ RowCovers(K, e, DocsThen(s.batch, docs)[e.rec.key])
        /\ CkptCovers(e, CkptThen(s.batch, ckpt)[e.ws])
    BY <1>4 DEF Covered, RequestCovers, RowsPending
  <2>2. e.rec.key \in Key /\ e.ws \in Workspace BY <1>8
  <2>3. docs'[e.rec.key] = docs[e.rec.key] \/ docs'[e.rec.key] = DocsThen(s.batch, docs)[e.rec.key]
    BY <1>9, <2>2
  <2>4. ckpt'[e.ws] = ckpt[e.ws] \/ ckpt'[e.ws] = CkptThen(s.batch, ckpt)[e.ws] BY <1>10, <2>2
  <2> QED BY <2>1, <2>3, <2>4
<1>14. Covered(K, acked', events', records', docs', ckpt') BY <1>2, <1>4, <1>5, <1>13 DEF Covered
<1>15. RequestCovers(u, K, acked', records', docs', ckpt')
  BY <1>2, <1>4, <1>6, <1>7, <1>12 DEF RequestCovers
<1> QED BY <1>0, <1>1, <1>11, <1>14, <1>15, CoverTo DEF u

\* UpsertRecordInMemory.
LEMMA UpsertCovers ==
    ASSUME TypeOK, FlowInv, NoGc, OneClient, CoverInv, NEW t \in Thread,
           UpsertMap(t) \/ UpsertIndex(t) \/ UpsertAccount(t)
    PROVE  CoverInv'
<1> DEFINE s == th[t]
           u == th'[t]
           K == Known(s)
           q == s.upserts
           h == Head(q)
           n == Len(q)
<1>0. s.pc # "idle" /\ th' = [th EXCEPT ![t] = u] BY UpsertShape
<1>1. Alone(t) BY <1>0, BusyAlone
<1>2. /\ UNCHANGED <<acked, failed, unacked, events, docs, ckpt>> /\ q \in Seq(Rec) /\ q # <<>>
      /\ u.op = s.op /\ u.evs = s.evs /\ u.batch = s.batch /\ u.dels = s.dels /\ u.log = s.log
      /\ u.snap = s.snap
  BY UpsertShape DEF storeVars, histVars
<1>3. Covered(K, acked, events, records, docs, ckpt) /\ RequestCovers(s, K, acked, records, docs, ckpt)
  BY <1>1, CoverAt
<1>4. K = acked' \cup failed' \cup unacked' \cup u.evs BY <1>2 DEF Known
<1>5. h = q[1] /\ h \in Rec /\ n \in Nat /\ n >= 1
  <2>1. q \in Seq(Rec) /\ q # <<>> BY <1>2
  <2> QED BY <2>1
<1>6. h.key \in Key BY <1>5 DEF Rec
<1>7. records \in [Key -> MaybeRec] /\ \A e \in acked \cup s.evs : e.rec.key \in Key
  <2>1. acked \cup s.evs \subseteq Event /\ records \in [Key -> MaybeRec] BY CoverTypes DEF Known
  <2> QED BY <2>1 DEF Event, Rec
<1>8. RowsPending(u, K, acked, docs, ckpt) BY <1>2, <1>3 DEF RequestCovers, RowsPending
<1>9. CASE s.pc = "map"
  <2>1. u.pc = "index" /\ u.upserts = q /\ records' = [records EXCEPT ![h.key] = h] BY <1>9, UpsertShape
  <2>2. Head(u.upserts) = h /\ records'[h.key] = h BY <1>6, <1>7, <2>1
  <2> HIDE DEF s, u, K, h, q
  <2>3. \A e \in acked : RecCovers(K, e, records'[e.rec.key])
    <3> SUFFICES ASSUME NEW e \in acked PROVE RecCovers(K, e, records'[e.rec.key]) OBVIOUS
    <3>1. CASE e.rec.key = h.key
      <4>1. 1 \in 1..n BY <1>5
      <4>2. RecCovers(K, e, q[1]) BY <1>3, <1>5, <3>1, <4>1 DEF RequestCovers, q
      <4> QED BY <1>5, <2>2, <3>1, <4>2
    <3>2. CASE e.rec.key # h.key
      <4>1. records'[e.rec.key] = records[e.rec.key] BY <1>7, <2>1, <3>2
      <4> QED BY <1>3, <4>1 DEF Covered
    <3> QED BY <3>1, <3>2
  <2>4. ASSUME NEW e \in s.evs PROVE ShownPending(q, s.dels, K, e, records')
    <3>1. ShownPending(q, s.dels, K, e, records) BY <1>3, <2>4 DEF RequestCovers, q
    <3>2. CASE e.rec.key = h.key
      <4>1. 1 \in 1..n /\ q[1].key = e.rec.key BY <1>5, <3>2
      <4> QED BY <3>1, <4>1 DEF ShownPending
    <3>3. CASE e.rec.key # h.key
      <4>1. records'[e.rec.key] = records[e.rec.key] BY <1>7, <2>1, <2>4, <3>3
      <4> QED BY <3>1, <4>1 DEF ShownPending
    <3> QED BY <3>2, <3>3
  <2>5. Covered(K, acked', events', records', docs', ckpt') BY <1>2, <1>3, <2>3 DEF Covered
  <2>6. RequestCovers(u, K, acked', records', docs', ckpt')
    BY <1>2, <1>3, <1>8, <2>1, <2>2, <2>4 DEF RequestCovers, q
  <2> QED BY <1>0, <1>1, <1>4, <2>5, <2>6, CoverTo DEF u
<1>10. CASE s.pc = "index"
  <2>1. u.pc = "account" /\ u.upserts = q /\ records' = records BY <1>10, UpsertShape
  <2> HIDE DEF s, u, K
  <2>2. Covered(K, acked', events', records', docs', ckpt') BY <1>2, <1>3, <2>1
  <2>3. RequestCovers(u, K, acked', records', docs', ckpt')
    BY <1>2, <1>3, <1>8, <1>10, <2>1 DEF RequestCovers
  <2> QED BY <1>0, <1>1, <1>4, <2>2, <2>3, CoverTo DEF u
<1>11. CASE s.pc \notin {"map", "index"}
  <2> DEFINE w == Tail(q)
  <2>1. /\ s.pc = "account" /\ u.pc = AfterUpsert(s.op, w) /\ u.upserts = w /\ records' = records
    BY <1>11, UpsertShape
  <2>2. u.pc \notin {"index", "account"} BY <2>1 DEF AfterUpsert
  <2>3. Len(w) = n - 1 /\ \A i \in 1..(n - 1) : w[i] = q[i + 1]
    <3>1. q \in Seq(Rec) /\ q # <<>> BY <1>2
    <3> QED BY <3>1
  <2>4. records[h.key] = h BY <1>3, <2>1 DEF RequestCovers
  <2> HIDE DEF s, u, K, h, w, q, n
  <2>5. \A i \in 1..(n - 1) : i + 1 \in 1..n BY <1>5
  <2>6. \A e \in acked, i \in 1..Len(w) : w[i].key = e.rec.key => RecCovers(K, e, w[i])
    BY <1>3, <1>5, <2>3, <2>5 DEF RequestCovers, q, n
  <2>7. ASSUME NEW e \in s.evs PROVE ShownPending(w, s.dels, K, e, records)
    <3> DEFINE k == e.rec.key
    <3>0. ShownPending(q, s.dels, K, e, records) BY <1>3, <2>7 DEF RequestCovers, q
    <3>1. CASE k \in s.dels BY <3>1 DEF ShownPending
    <3>2. CASE k \notin s.dels
      <4>1. /\ \A i \in 1..n : (q[i].key = k /\ \A j \in (i + 1)..n : q[j].key # k) => RecCovers(K, e, q[i])
            /\ (\A i \in 1..n : q[i].key # k) => RecCovers(K, e, records[k])
        BY <3>0, <3>2 DEF ShownPending, n
      <4>2. \A j \in 2..n : j - 1 \in 1..(n - 1) /\ q[j] = w[j - 1]
        <5> SUFFICES ASSUME NEW j \in 2..n PROVE j - 1 \in 1..(n - 1) /\ q[j] = w[j - 1] OBVIOUS
        <5>1. j - 1 \in 1..(n - 1) /\ (j - 1) + 1 = j BY <1>5
        <5> QED BY <2>3, <5>1
      <4> HIDE DEF k
      <4>3. ASSUME NEW i \in 1..(n - 1), w[i].key = k, \A j \in (i + 1)..(n - 1) : w[j].key # k
            PROVE  RecCovers(K, e, w[i])
        <5>1. i + 1 \in 1..n /\ w[i] = q[i + 1] BY <2>3, <2>5
        <5>2. \A j \in ((i + 1) + 1)..n : j \in 2..n /\ j - 1 \in (i + 1)..(n - 1) BY <1>5
        <5>3. \A j \in ((i + 1) + 1)..n : q[j].key # k BY <4>2, <4>3, <5>2
        <5> QED BY <4>1, <4>3, <5>1, <5>3
      <4>4. ASSUME \A i \in 1..(n - 1) : w[i].key # k PROVE RecCovers(K, e, records[k])
        <5>1. \A j \in 2..n : q[j].key # k BY <4>2, <4>4
        <5>2. 1 \in 1..n /\ \A j \in 1..n : j = 1 \/ j \in 2..n BY <1>5
        <5>3. CASE q[1].key = k
          <6>1. \A j \in (1 + 1)..n : q[j].key # k BY <5>1
          <6>2. RecCovers(K, e, q[1]) BY <4>1, <5>2, <5>3, <6>1
          <6> QED BY <1>5, <2>4, <5>3, <6>2
        <5>4. CASE q[1].key # k
          <6>1. \A i \in 1..n : q[i].key # k BY <5>1, <5>2, <5>4
          <6> QED BY <4>1, <6>1
        <5> QED BY <5>3, <5>4
      <4> QED BY <2>3, <4>3, <4>4 DEF ShownPending, k
    <3> QED BY <3>1, <3>2
  <2>8. Covered(K, acked', events', records', docs', ckpt') BY <1>2, <1>3, <2>1
  <2>9. RequestCovers(u, K, acked', records', docs', ckpt')
    BY <1>2, <1>3, <1>8, <2>1, <2>2, <2>6, <2>7 DEF RequestCovers
  <2> QED BY <1>0, <1>1, <1>4, <2>8, <2>9, CoverTo DEF u
<1> QED BY <1>9, <1>10, <1>11

\* Removal and eviction.
LEMMA DropCovers ==
    ASSUME TypeOK, FlowInv, NoGc, OneClient, CoverInv, NEW t \in Thread,
           RemoveMap(t) \/ EvictMap(t) \/ DropAccount(t) \/ DropIndex(t)
    PROVE  CoverInv'
<1> DEFINE s == th[t]
           u == th'[t]
           K == Known(s)
<1>0. s.pc \in {"unmap", "enforce", "sub", "unindex"} /\ th' = [th EXCEPT ![t] = u] BY DropShape
<1>1. Alone(t) BY <1>0, BusyAlone
<1>2. /\ UNCHANGED <<acked, failed, unacked, events, docs, ckpt>>
      /\ u.op = s.op /\ u.evs = s.evs /\ u.batch = s.batch /\ u.log = s.log
      /\ u.snap = s.snap /\ u.upserts = s.upserts
  BY DropShape DEF storeVars, histVars
<1>3. Covered(K, acked, events, records, docs, ckpt) /\ RequestCovers(s, K, acked, records, docs, ckpt)
  BY <1>1, CoverAt
<1>4. K = acked' \cup failed' \cup unacked' \cup u.evs BY <1>2 DEF Known
<1>5. s.upserts = <<>> BY <1>0, FlowAt DEF ReqFlow, WarmFlow
<1>6. records \in [Key -> MaybeRec] /\ s.dels \subseteq Key BY FlowAt DEF LocalState
<1>7. \A e \in acked \cup s.evs : e.rec.key \in Key
  <2>1. acked \cup s.evs \subseteq Event BY CoverTypes DEF Known
  <2> QED BY <2>1 DEF Event, Rec
<1>8. Len(s.upserts) = 0 BY <1>5
<1> HIDE DEF s, u, K
<1>9. \A k \in Key : /\ records'[k] = records[k] \/ records'[k] = None
                     /\ k \in s.dels => k \in u.dels \/ records'[k] = None
  BY <1>6, DropShape DEF s, u
<1>10. u.pc \notin {"index", "account"} BY DropShape DEF s, u
<1>11. \A e \in acked : RecCovers(K, e, records'[e.rec.key]) BY <1>3, <1>7, <1>9 DEF Covered, RecCovers
<1>12. ASSUME NEW e \in s.evs PROVE ShownPending(u.upserts, u.dels, K, e, records')
  <2>1. ShownPending(s.upserts, s.dels, K, e, records) BY <1>3, <1>12 DEF RequestCovers
  <2>2. e.rec.key \in s.dels \/ RecCovers(K, e, records[e.rec.key]) BY <1>8, <2>1 DEF ShownPending
  <2>3. e.rec.key \in u.dels \/ RecCovers(K, e, records'[e.rec.key])
    BY <1>7, <1>9, <1>12, <2>2 DEF RecCovers
  <2> QED BY <1>2, <1>8, <2>3 DEF ShownPending
<1>13. Covered(K, acked', events', records', docs', ckpt') BY <1>2, <1>3, <1>11 DEF Covered
<1>14. RequestCovers(u, K, acked', records', docs', ckpt')
  BY <1>2, <1>3, <1>10, <1>12 DEF RequestCovers, RowsPending
<1> QED BY <1>0, <1>1, <1>4, <1>13, <1>14, CoverTo DEF u

\* An event beyond a checkpoint that covers e is not before e.
LEMMA BeyondIsLater ==
    ASSUME NEW e \in Event, NEW f \in Event, NEW c \in EventPos \cup {None},
           CkptCovers(e, c), c = None \/ PosLess(c, Pos(f))
    PROVE  ~PosLess(Pos(f), Pos(e))
<1>1. c \in EventPos /\ PosLess(c, Pos(f)) /\ ~PosLess(c, Pos(e)) BY DEF CkptCovers
<1> QED BY <1>1 DEF PosLess, Pos, EventPos, Event

\* Warmup and the replay.
LEMMA WarmupCovers ==
    ASSUME TypeOK, FlowInv, LogInv, RecoveryInv, NoGc, OneClient, CoverInv, NEW t \in Thread,
           WarmupScan(t) \/ WarmupLoad(t) \/ ReplayCheckpoints(t) \/ ReplayScan(t) \/ ReplayEvent(t)
    PROVE  CoverInv'
<1> DEFINE s == th[t]
           u == th'[t]
           K == Known(s)
<1>0. /\ s.pc \in {"scan", "load", "ckpts", "events", "replay"} /\ th' = [th EXCEPT ![t] = u] /\ t = Main
      /\ u.pc \in {"load", "ckpts", "map", "events", "replay", "enforce"}
  BY WarmShape
<1>1. Alone(t) BY <1>0, BusyAlone
<1>2. /\ UNCHANGED <<acked, failed, unacked, events, records, docs, ckpt>>
      /\ u.evs = s.evs /\ u.batch = s.batch
  BY WarmShape DEF storeVars, histVars, memVars
<1>3. Covered(K, acked, events, records, docs, ckpt) /\ RequestCovers(s, K, acked, records, docs, ckpt)
  BY <1>1, CoverAt
<1>4. K = acked' \cup failed' \cup unacked' \cup u.evs BY <1>2 DEF Known
<1>5. WarmFlow(s) /\ s.evs = {} /\ s.upserts = <<>> /\ Homed(s.snap) /\ s \in LocalState
  BY <1>0, FlowAt DEF WarmFlow, Flow
<1>6. /\ \A e \in acked : e \in Event /\ e \in K /\ e.rec.key \in Key /\ e.ws \in Workspace
      /\ events \subseteq Event /\ ckpt \in [Workspace -> EventPos \cup {None}]
      /\ docs \in [Key -> MaybeRec]
  <2>1. acked \subseteq Event BY CoverTypes
  <2> QED BY <2>1, CoverTypes DEF Event, Rec, Known
<1>7. s.snap \in [Key -> MaybeRec] /\ s.log \subseteq events /\ s.log \subseteq Event
  BY <1>5, <1>6, LogAt DEF LogLocal, LocalState
<1>8. ~ready BY <1>0 DEF FlowInv, Turn
<1> HIDE DEF s, u, K
<1>9. RowsPending(u, K, acked, docs, ckpt) BY <1>2, <1>3 DEF RequestCovers, RowsPending
<1>10. u.op = "warmup" => \A e \in acked : RecCovers(K, e, u.snap[e.rec.key])
  <2>1. ASSUME s.op = "warmup" PROVE \A e \in acked : RecCovers(K, e, s.snap[e.rec.key])
    BY <1>3, <2>1 DEF RequestCovers
  <2>2. \A e \in acked : RecCovers(K, e, docs[e.rec.key]) BY <1>3, RowToRec DEF Covered
  <2>3. \A e \in acked : RecCovers(K, e, NoRecords[e.rec.key]) BY <1>6 DEF NoRecords, RecCovers
  <2>4. ASSUME NEW k \in Key, s.op = "warmup"
        PROVE  \A e \in acked : RecCovers(K, e, [s.snap EXCEPT ![k] = None][e.rec.key])
    BY <1>6, <1>7, <2>1, <2>4 DEF RecCovers
  <2> DEFINE a == s.snap
             b == u.snap
  <2>5. /\ u.op = "warmup" => s.op = "warmup"
        /\ b = docs \/ b = NoRecords \/ b = a \/ \E k \in Key : b = [a EXCEPT ![k] = None]
    <3>1. u.op = "warmup" => s.op = "warmup" BY WarmShape DEF s, u
    <3>2. b = docs \/ b = NoRecords \/ b = a \/ \E k \in Key : b = [a EXCEPT ![k] = None]
      <4> HIDE DEF a, b
      <4> QED BY WarmShape DEF a, b, s, u
    <3> QED BY <3>1, <3>2
  <2>6. CASE b = docs BY <2>2, <2>6
  <2>7. CASE b = NoRecords BY <2>3, <2>7
  <2>8. CASE b = a BY <2>1, <2>5, <2>8
  <2>9. CASE \E k \in Key : b = [a EXCEPT ![k] = None]
    <3>1. PICK k \in Key : b = [a EXCEPT ![k] = None] BY <2>9
    <3> QED BY <2>4, <2>5, <3>1
  <2> QED BY <2>5, <2>6, <2>7, <2>8, <2>9
<1>11. \A f \in u.log, e \in acked : f.rec.key = e.rec.key => f \in K /\ ~PosLess(Pos(f), Pos(e))
  <2>1. CASE u.log \subseteq s.log BY <1>3, <2>1 DEF RequestCovers
  <2>2. CASE ~(u.log \subseteq s.log)
    <3>1. /\ s.pc = "events"
          /\ u.log = IF ScanFinds THEN BeyondCheckpoint(events, s.ckpts) ELSE {}
      <4> HIDE DEF s, u
      <4> QED BY <2>2, WarmShape DEF s, u
    <3>2. ScanFinds BY <2>2, <3>1
    <3>3. s.ckpts = ckpt BY <1>0, <1>8, <3>1, <3>2 DEF RecoveryInv, Recovering, s
    <3>4. u.log = BeyondCheckpoint(events, ckpt) BY <3>1, <3>2, <3>3
    <3> SUFFICES ASSUME NEW f \in u.log, NEW e \in acked, f.rec.key = e.rec.key
                 PROVE  f \in K /\ ~PosLess(Pos(f), Pos(e))
      OBVIOUS
    <3>5. f \in events /\ (ckpt[f.ws] = None \/ PosLess(ckpt[f.ws], Pos(f))) BY <3>4 DEF BeyondCheckpoint
    <3>6. f \in K /\ f.ws = e.ws /\ CkptCovers(e, ckpt[e.ws]) BY <1>3, <1>6, <3>5 DEF Covered
    <3>7. f \in Event /\ e \in Event /\ ckpt[e.ws] \in EventPos \cup {None} BY <1>6, <3>5
    <3>8. ~PosLess(Pos(f), Pos(e)) BY <3>5, <3>6, <3>7, BeyondIsLater
    <3> QED BY <3>6, <3>8
  <2> QED BY <2>1, <2>2
<1>12. \A e \in acked, i \in 1..Len(u.upserts) : u.upserts[i].key = e.rec.key => RecCovers(K, e, u.upserts[i])
  <2>1. CASE u.upserts = <<>>
    <3>1. Len(u.upserts) = 0 BY <2>1
    <3> QED BY <3>1
  <2>2. ASSUME NEW r \in Rec, u.upserts = <<r>>,
               \A e \in acked : r.key = e.rec.key => RecCovers(K, e, r)
        PROVE  \A e \in acked, i \in 1..Len(u.upserts) :
                  u.upserts[i].key = e.rec.key => RecCovers(K, e, u.upserts[i])
    <3>1. Len(u.upserts) = 1 /\ u.upserts[1] = r BY <2>2
    <3>2. \A i \in 1..Len(u.upserts) : u.upserts[i] = r BY <3>1
    <3> QED BY <2>2, <3>2
  <2>3. CASE s.pc = "load" /\ u.upserts # <<>>
    <3>1. PICK k \in Key : s.snap[k] \in Rec /\ u.upserts = <<s.snap[k]>>
      BY <1>5, <2>3, WarmShape DEF s, u
    <3>2. s.op = "warmup" /\ s.snap[k].key = k BY <1>5, <2>3, <3>1 DEF WarmFlow, Homed
    <3>3. \A e \in acked : s.snap[k].key = e.rec.key => RecCovers(K, e, s.snap[k])
      BY <1>3, <3>2 DEF RequestCovers
    <3> QED BY <2>2, <3>1, <3>3
  <2>4. CASE s.pc = "replay" /\ u.upserts # <<>>
    <3>1. PICK f \in s.log : f.rec \in Rec /\ u.upserts = <<f.rec>>
      BY <1>5, <2>4, WarmShape DEF s, u
    <3>2. \A e \in acked : f.rec.key = e.rec.key => RecCovers(K, e, f.rec)
      BY <1>3, <3>1 DEF RequestCovers, RecCovers, Supersedes
    <3> QED BY <2>2, <3>1, <3>2
  <2>5. s.pc \in {"load", "replay"} \/ u.upserts = <<>> BY <1>5, WarmShape DEF s, u
  <2> QED BY <2>1, <2>3, <2>4, <2>5
<1>13. RequestCovers(u, K, acked', records', docs', ckpt')
  BY <1>0, <1>2, <1>5, <1>9, <1>10, <1>11, <1>12 DEF RequestCovers
<1>14. Covered(K, acked', events', records', docs', ckpt') BY <1>2, <1>3
<1> QED BY <1>0, <1>1, <1>4, <1>13, <1>14, CoverTo DEF u

\* The main thread of a process that starts.
LEMMA FreshData ==
    LET u == FreshThreads[Main]
    IN  /\ u.evs = {} /\ u.upserts = <<>> /\ u.batch = EmptyBatch /\ u.log = {}
        /\ u.pc = "scan" /\ u.snap = NoRecords
<1>1. FreshThreads[Main] = [Idle EXCEPT !.pc = "scan", !.op = "warmup"] BY DEF FreshThreads, Thread
<1> QED BY <1>1 DEF Idle

\* The first start has acknowledged nothing.
LEMMA InitCovers == Init => CoverInv
<1> SUFFICES ASSUME Init PROVE CoverInv OBVIOUS
<1>1. Main \in Thread /\ Alone(Main) /\ TypeOK BY FreshAlone, InitType DEF Thread, Init
<1>2. th[Main].evs = {} /\ Known(th[Main]) = {} BY FreshData DEF Init, Known
<1>3. Covered({}, acked, events, records, docs, ckpt) BY DEF Init, Covered
<1>4. RequestCovers(th[Main], {}, acked, records, docs, ckpt)
  BY <1>1, <1>3, FreshData, CoverRest, CoverTypes DEF Init
<1> QED BY <1>1, <1>2, <1>3, <1>4 DEF CoverInv

\* A crash leaves the events of the request that ran among the known ones.
LEMMA EnvCovers ==
    ASSUME TypeOK, CoverInv, Tick \/ Restart \/ Finished \/ UNCHANGED vars PROVE CoverInv'
<1>1. CASE Restart
  <2>0. Main \in Thread /\ TypeOK' BY <1>1, EnvType DEF Thread
  <2>1. /\ th' = FreshThreads /\ records' = NoRecords /\ UNCHANGED <<acked, failed, events, docs, ckpt>>
        /\ unacked' = unacked \cup UNION {th[x].evs : x \in Thread}
    BY <1>1 DEF Restart, storeVars
  <2>2. Alone(Main)' BY <2>1 DEF Alone, FreshThreads
  <2>3. PICK t \in Thread : Alone(t) /\ Covered(Known(th[t]), acked, events, records, docs, ckpt)
    BY DEF CoverInv
  <2> DEFINE K == Known(th[t])
  <2>4. UNION {th[x].evs : x \in Thread} = th[t].evs
    <3>1. \A x \in Thread : th[x].evs \subseteq th[t].evs BY <2>3, IdleData DEF Alone
    <3> QED BY <3>1
  <2>5. K = acked' \cup failed' \cup unacked' BY <2>1, <2>4 DEF Known
  <2>6. K = Known(th[Main])' BY <2>1, <2>5, FreshData DEF Known
  <2>7. \A e \in acked : e.rec.key \in Key
    <3>1. acked \subseteq Event BY CoverTypes
    <3> QED BY <3>1 DEF Event, Rec
  <2> HIDE DEF K
  <2>8. Covered(K, acked', events', records', docs', ckpt')
    <3>1. Covered(K, acked, events, records, docs, ckpt) BY <2>3 DEF K
    <3>2. \A e \in acked : RecCovers(K, e, NoRecords[e.rec.key]) BY <2>7 DEF NoRecords, RecCovers
    <3> QED BY <2>1, <3>1, <3>2 DEF Covered
  <2>9. RequestCovers(th'[Main], K, acked', records', docs', ckpt')
    <3>1. /\ acked' \in SUBSET Event /\ docs' \in [Key -> MaybeRec]
          /\ ckpt' \in [Workspace -> EventPos \cup {None}]
      BY <2>0 DEF TypeOK, SharedOK
    <3> QED BY <2>1, <2>8, <3>1, FreshData, CoverRest
  <2>10. Covered(Known(th[Main]), acked, events, records, docs, ckpt)' BY <2>6, <2>8 DEF Covered
  <2>11. RequestCovers(th[Main], Known(th[Main]), acked, records, docs, ckpt)'
    BY <2>6, <2>9 DEF RequestCovers
  <2> QED BY <2>0, <2>2, <2>10, <2>11 DEF CoverInv
<1>2. CASE Tick \/ Finished \/ UNCHANGED vars
  <2>1. UNCHANGED <<records, docs, events, ckpt, acked, failed, unacked, th>>
    BY <1>2 DEF Tick, Finished, vars, memVars, storeVars, histVars
  <2>2. ASSUME NEW t \in Thread, Alone(t),
               Covered(Known(th[t]), acked, events, records, docs, ckpt),
               RequestCovers(th[t], Known(th[t]), acked, records, docs, ckpt)
        PROVE  CoverInv'
    <3>1. Alone(t)' BY <2>1, <2>2 DEF Alone
    <3>2. Known(th[t])' = Known(th[t]) BY <2>1 DEF Known
    <3>3. Covered(Known(th[t]), acked, events, records, docs, ckpt)' BY <2>1, <2>2, <3>2 DEF Covered
    <3>4. RequestCovers(th[t], Known(th[t]), acked, records, docs, ckpt)'
      BY <2>1, <2>2, <3>2 DEF RequestCovers
    <3> QED BY <3>1, <3>3, <3>4 DEF CoverInv
  <2> QED BY <2>2 DEF CoverInv
<1> QED BY <1>1, <1>2

\* Every step keeps the acknowledged events covered.
LEMMA NextCovers ==
    NoGc /\ OneClient /\ TypeOK /\ FlowInv /\ LogInv /\ RecoveryInv /\ CoverInv /\ [Next]_vars => CoverInv'
<1> SUFFICES ASSUME NoGc, OneClient, TypeOK, FlowInv, LogInv, RecoveryInv, CoverInv, [Next]_vars
             PROVE  CoverInv'
  OBVIOUS
<1>1. ASSUME NEW t \in Thread, WriteStart(t) \/ PinStart(t) \/ CompactStart(t) \/ Step(t) PROVE CoverInv'
  BY <1>1, StartCovers, AppendCovers, QuietCovers, CommitCovers, FailCovers, UpsertCovers, DropCovers,
     DoneCovers, WarmupCovers DEF Step
<1> QED BY <1>1, EnvCovers DEF Next

\* When no request is under way, what is visible is what covers.
LEMMA CoverSurvives == TypeOK /\ FlowInv /\ CoverInv => AckedSurvives
<1> SUFFICES ASSUME TypeOK, FlowInv, CoverInv, Quiescent, NEW e \in acked
             PROVE  \E f \in acked \cup failed \cup unacked :
                      /\ f.rec.key = e.rec.key
                      /\ ~PosLess(Pos(f), Pos(e))
                      /\ Visible(e.rec.key) = f.rec \/ (Visible(e.rec.key) = None /\ f.rec.tomb)
  BY DEF AckedSurvives
<1>1. PICK t \in Thread : Covered(Known(th[t]), acked, events, records, docs, ckpt) BY DEF CoverInv
<1>2. th[t] = Idle BY DEF Quiescent, FlowInv, Flow
<1>3. Known(th[t]) = acked \cup failed \cup unacked BY <1>2, IdleData DEF Known
<1> DEFINE K == acked \cup failed \cup unacked
<1>4. RowCovers(K, e, docs[e.rec.key]) /\ RecCovers(K, e, records[e.rec.key]) BY <1>1, <1>3 DEF Covered
<1> HIDE DEF K
<1>5. \E f \in K : /\ f.rec.key = e.rec.key
                   /\ ~PosLess(Pos(f), Pos(e))
                   /\ Visible(e.rec.key) = f.rec \/ (Visible(e.rec.key) = None /\ f.rec.tomb)
  BY <1>4 DEF RowCovers, RecCovers, Supersedes, Visible
<1> QED BY <1>5 DEF K

\* With one handler thread and no background compaction, what a request that
\* succeeded wrote, or something written later to the same key, is what a reader sees
\* whenever no request is under way: across restarts, batches that failed part-way,
\* scans that found nothing, evictions, compactions a client asked for and the
\* reclaiming of tombstones.
THEOREM AckedRecordsSurvive == ASSUME NoGc, OneClient PROVE Spec => []AckedSurvives
<1>1. Init => RecoveryInv /\ CoverInv BY InitRecovers, InitCovers
<1>2. TypeOK /\ FlowInv /\ LogInv /\ RecoveryInv /\ CoverInv /\ [Next]_vars => RecoveryInv' /\ CoverInv'
  BY NextRecovers, NextCovers
<1>3. TypeOK /\ FlowInv /\ CoverInv => AckedSurvives BY CoverSurvives
<1> QED BY <1>1, <1>2, <1>3, TypeCorrect, FlowInvariant, LogInvariant, PTL DEF Spec

-----------------------------------------------------------------------------
(***************************************************************************)
(* The resident limit.  A request that changed the records goes through    *)
(* EnforceResidentHardLimit before it ends.  The last one to leave it      *)
(* finds the counter exact, since no other thread owes it anything.        *)
(***************************************************************************)

\* Nobody compacts: a compaction upserts tombstones and does not evict.
NoCompaction == NoGc /\ "compact" \notin Ops

\* What one record can be charged, and the charges of all records together fit
\* into the counter, which has 64 bits.
Chargeable(c) == c = 0 \/ \E r \in Rec : c = EstimateResidentCharge(r)
ChargesFit == \A f \in [Key -> Nat] : (\A k \in Key : Chargeable(f[k])) => SumFunction(f) < Mod

\* Where a request that may have changed the records has still to evict.
Enforcing == {"map", "index", "account", "route", "enforce", "sub", "unindex"}

\* The limit is kept, or nothing is left to evict.
Kept == Resident <= Limit \/ \A k \in Key : records[k] # None => records[k].pinned

\* The counter is below its modulus, and a service that is ready keeps the limit
\* unless some request has still to evict.
LimitInv ==
    /\ used < Mod /\ \A k \in Key : Chargeable(charge[k])
    /\ \A t \in Thread : th[t].op # "compact"
    /\ ready /\ Limit # 0 => Kept \/ \E t \in Thread : th[t].pc \in Enforcing

\* A counter modulo Mod is below Mod.
LEMMA AddBelow == ASSUME used \in Nat, NEW d \in Int PROVE AddUsed(d) < Mod
<1>1. (used + d) \in Int OBVIOUS
<1>2. Mod \in Nat /\ Mod > 0 BY LimitAssumption
<1> QED BY <1>1, <1>2 DEF AddUsed

\* The counter and the charges stay in range, whatever a thread does.
LEMMA RangeStep ==
    ASSUME TypeOK, used < Mod, \A k \in Key : Chargeable(charge[k]), NEW t \in Thread, Step(t)
    PROVE  used' < Mod /\ \A k \in Key : Chargeable(charge'[k])
<1>0. /\ used \in Nat /\ th[t].delta \in Int /\ charge \in [Key -> Nat]
      /\ th[t].upserts \in Seq(Rec) /\ LocalOK(th[t])
  BY DEF TypeOK, SharedOK, ThreadsOK, LocalState
<1>1. CASE UpsertMap(t)
  <2> DEFINE r == Head(th[t].upserts)
             n == EstimateResidentCharge(r)
  <2>1. th[t].upserts # <<>> BY <1>0, <1>1 DEF UpsertMap, LocalOK
  <2>2. r \in Rec BY <1>0, <2>1
  <2>3. used' = used /\ charge' = [charge EXCEPT ![r.key] = n] BY <1>1 DEF UpsertMap
  <2>4. Chargeable(n) BY <2>2 DEF Chargeable
  <2> HIDE DEF n
  <2> QED BY <1>0, <2>3, <2>4
<1>2. CASE UpsertAccount(t) \/ DropAccount(t)
  <2>1. used' = AddUsed(th[t].delta) /\ charge' = charge BY <1>2 DEF UpsertAccount, DropAccount
  <2> QED BY <1>0, <2>1, AddBelow
<1>3. CASE RemoveMap(t) \/ EvictMap(t)
  <2>1. used' = used BY <1>3 DEF RemoveMap, EvictMap
  <2>2. charge' = charge \/ \E k \in Key : charge' = [charge EXCEPT ![k] = 0]
    <3>1. th[t].dels \subseteq Key BY DEF TypeOK, ThreadsOK, LocalState
    <3> QED BY <1>3, <3>1 DEF RemoveMap, EvictMap, Evictable
  <2>3. Chargeable(0) BY DEF Chargeable
  <2> QED BY <1>0, <2>1, <2>2, <2>3
<1>4. CASE UpsertIndex(t) \/ DropIndex(t)
  BY <1>4 DEF UpsertIndex, DropIndex
<1>5. CASE \/ WriteDedup(t) \/ WriteRecord(t) \/ WriteBuilt(t) \/ PinGet(t) \/ PinCheck(t)
           \/ CompactTomb(t) \/ CompactDelete(t) \/ CompactBuilt(t) \/ CompactReport(t)
           \/ BatchWrite(t) \/ BatchWriteFail(t) \/ WriteRoute(t) \/ EnforceDone(t)
           \/ WarmupScan(t) \/ WarmupLoad(t) \/ ReplayCheckpoints(t) \/ ReplayScan(t) \/ ReplayEvent(t)
  <2>1. UNCHANGED memVars
    BY <1>5, ZenonT(60)
       DEF WriteDedup, WriteRecord, AddRecord, WriteBuilt, PinGet, PinCheck, CompactTomb, Tombstone,
           CompactDelete, Reclaim, CompactBuilt, CompactReport, BatchWrite, CommitPartition, BatchWriteFail,
           WriteRoute, EnforceDone, WarmupScan, WarmupLoad, ReplayCheckpoints, ReplayScan, ReplayEvent
  <2> QED BY <2>1 DEF memVars
<1> QED BY <1>1, <1>2, <1>3, <1>4, <1>5 DEF Step

\* A step that leaves the records alone and the eviction to whoever has it to do,
\* or has it to do itself.
LEMMA LimitFrame ==
    ASSUME TypeOK, LimitInv, NEW t \in Thread, th' = [th EXCEPT ![t] = th'[t]], th'[t].op # "compact",
           used' < Mod /\ \A k \in Key : Chargeable(charge'[k]),
           \/ ~ready'
           \/ ready' = ready /\ th'[t].pc \in Enforcing
           \/ ready' = ready /\ UNCHANGED <<records, charge>> /\ th[t].pc \notin Enforcing
    PROVE  LimitInv'
<1>1. \A x \in Thread \ {t} : th'[x] = th[x] BY Moved
<1>2. \A x \in Thread : th'[x].op # "compact" BY <1>1 DEF LimitInv
<1>3. (ready /\ Limit # 0 => Kept \/ \E x \in Thread : th[x].pc \in Enforcing)'
  <2>1. CASE ~ready' BY <2>1
  <2>2. CASE th'[t].pc \in Enforcing BY <2>2
  <2>3. CASE ready' = ready /\ UNCHANGED <<records, charge>> /\ th[t].pc \notin Enforcing
    <3>1. Kept' = Kept BY <2>3 DEF Kept, Resident
    <3> QED BY <1>1, <2>3, <3>1 DEF LimitInv
  <2> QED BY <2>1, <2>2, <2>3
<1> QED BY <1>2, <1>3 DEF LimitInv

\* The last request to leave the eviction loop.
LEMMA LimitDone ==
    ASSUME TypeOK, FlowInv, AccountInv, ChargesFit, LimitInv, NEW t \in Thread, EnforceDone(t)
    PROVE  LimitInv'
<1>0. /\ th' = [th EXCEPT ![t] = th'[t]] /\ th'[t] = Idle /\ th[t].pc = "enforce"
      /\ UNCHANGED memVars /\ (WithinLimit \/ Evictable = {})
  BY DoneShape DEF EnforceDone
<1>1. UNCHANGED <<records, charge, used>> BY <1>0 DEF memVars
<1>2. \A x \in Thread \ {t} : th'[x] = th[x] BY <1>0, Moved
<1>3. Idle.op = "none" /\ Idle.pc = "idle" BY DEF Idle
<1>4. \A x \in Thread : th'[x].op # "compact" BY <1>0, <1>2, <1>3 DEF LimitInv
<1>5. ASSUME Limit # 0, \A x \in Thread : th'[x].pc \notin Enforcing PROVE Kept
  <2>1. \A x \in Thread : th[x].pc \notin Owing
    <3>1. \A x \in Thread \ {t} : th[x].pc \notin Enforcing BY <1>2, <1>5
    <3> QED BY <1>0, <3>1 DEF Owing, Enforcing
  <2>2. Pending = 0
    <3> DEFINE f == [x \in Thread |-> th[x].delta]
    <3>1. \A x \in Thread : f[x] = 0 BY <2>1 DEF AccountInv, DebtKnown
    <3>2. Pending = SumFunctionOnSet(f, Thread) BY DEF Pending, SumFunction
    <3> HIDE DEF f
    <3>3. SumFunctionOnSet(f, Thread) = 0 BY <3>1, ThreadsFinite, SumZero
    <3> QED BY <3>2, <3>3
  <2>3. used \in Nat /\ charge \in [Key -> Nat] BY DEF TypeOK, SharedOK
  <2>4. Resident \in Nat
    <3>1. Resident = SumFunctionOnSet(charge, Key) BY <2>3 DEF Resident, SumFunction
    <3>2. \A k \in Key : charge[k] \in Nat BY <2>3
    <3> QED BY <3>1, <3>2, KeyAssumption, SumNat
  <2>5. Resident < Mod /\ used < Mod BY <2>3 DEF ChargesFit, LimitInv, Resident
  <2>6. used % Mod = Resident % Mod BY <2>2, <2>3 DEF AccountInv, ResidentAccounting
  <2>7. used = Resident BY <2>3, <2>4, <2>5, <2>6, LimitAssumption
  <2>8. CASE WithinLimit BY <1>5, <2>7, <2>8 DEF WithinLimit, Kept
  <2>9. CASE Evictable = {}
    <3>1. \A k \in Key : records[k] # None => records[k].pinned BY <2>9 DEF Evictable
    <3> QED BY <3>1 DEF Kept
  <2> QED BY <1>0, <2>8, <2>9
<1>6. Kept' = Kept BY <1>1 DEF Kept, Resident
<1> QED BY <1>1, <1>4, <1>5, <1>6 DEF LimitInv

\* A request starts, builds its batch and commits it; Warmup runs.
LEMMA LimitElsewhere ==
    ASSUME TypeOK, FlowInv, NoCompaction, LimitInv, NEW t \in Thread,
           \/ WriteStart(t) \/ PinStart(t) \/ CompactStart(t)
           \/ WriteDedup(t) \/ WriteRecord(t) \/ WriteBuilt(t) \/ PinGet(t) \/ PinCheck(t)
           \/ CompactTomb(t) \/ CompactDelete(t) \/ CompactBuilt(t) \/ CompactReport(t)
           \/ BatchWrite(t) \/ BatchWriteFail(t) \/ WriteRoute(t)
           \/ WarmupScan(t) \/ WarmupLoad(t) \/ ReplayCheckpoints(t) \/ ReplayScan(t) \/ ReplayEvent(t)
    PROVE  LimitInv'
<1>0. Idle.op = "none" /\ th[t].op # "compact" BY DEF Idle, LimitInv
<1>1. ASSUME UNCHANGED memVars, th' = [th EXCEPT ![t] = th'[t]], th'[t].op # "compact",
             \/ ~ready'
             \/ ready' = ready /\ (th'[t].pc \in Enforcing \/ th[t].pc \notin Enforcing)
      PROVE  LimitInv'
  <2>1. UNCHANGED <<records, charge, used>> BY <1>1 DEF memVars
  <2>2. used' < Mod /\ \A k \in Key : Chargeable(charge'[k]) BY <2>1 DEF LimitInv
  <2> QED BY <1>1, <2>1, <2>2, LimitFrame
<1>2. CASE WriteStart(t) \/ PinStart(t) \/ CompactStart(t)
  <2>1. th'[t].op # "compact"
    <3>1. CASE CompactStart(t)
      BY <3>1 DEF CompactStart, Accept, NoCompaction, NoGc
    <3>2. CASE WriteStart(t)
      <4> DEFINE v(w, append) == [Idle EXCEPT !.pc = "build", !.op = "write", !.scope = {w},
                                              !.now = clock, !.flag = append,
                                              !.active = Cardinality(ActiveKeys(records, w)),
                                              !.pinned = Cardinality(PinnedKeys(records, w))]
      <4>1. PICK w \in Workspace, append \in AppendModes : th' = [th EXCEPT ![t] = v(w, append)]
        BY <3>2, Zenon DEF WriteStart, Become
      <4>2. v(w, append).op = "write" BY DEF Idle
      <4> HIDE DEF v
      <4>3. th'[t] = v(w, append) BY <4>1, Moved
      <4> QED BY <4>2, <4>3
    <3>3. CASE PinStart(t)
      <4> DEFINE v(k, pin) == [Idle EXCEPT !.op = "pin", !.key = k, !.flag = pin,
                                           !.pc = IF records[k] # None THEN "check" ELSE "get",
                                           !.snap = [@ EXCEPT ![k] = records[k]]]
      <4>1. PICK k \in Key, pin \in BOOLEAN : th' = [th EXCEPT ![t] = v(k, pin)]
        BY <3>3, Zenon DEF PinStart, Become
      <4>2. v(k, pin).op = "pin" BY DEF Idle
      <4> HIDE DEF v
      <4>3. th'[t] = v(k, pin) BY <4>1, Moved
      <4> QED BY <4>2, <4>3
    <3> QED BY <1>2, <3>1, <3>2, <3>3
  <2>2. /\ UNCHANGED memVars /\ ready' = ready /\ th[t].pc = "idle" /\ th' = [th EXCEPT ![t] = th'[t]]
    BY <1>2, StartShape DEF procVars
  <2> QED BY <1>1, <2>1, <2>2 DEF Enforcing
<1>3. CASE WriteRecord(t) \/ PinCheck(t) \/ CompactTomb(t) \/ CompactDelete(t)
  <2>1. OnlyLocal(t) /\ th[t].pc \in {"build", "check"} BY <1>3, AppendShape
  <2>2. th'[t] = Idle \/ \E k \in Key, r \in Rec, e \in Event : Appended(th[t], th'[t], k, r, e)
    BY <1>3, AppendShape
  <2>3. th'[t].op # "compact" BY <1>0, <2>2 DEF Appended
  <2> QED BY <1>1, <2>1, <2>3 DEF OnlyLocal, Enforcing
<1>4. CASE WriteDedup(t) \/ WriteBuilt(t) \/ PinGet(t) \/ CompactBuilt(t) \/ WriteRoute(t)
  <2>1. /\ th' = [th EXCEPT ![t] = th'[t]] /\ UNCHANGED memVars /\ ready' = ready
        /\ th'[t] = Idle \/ Same(th[t], th'[t])
        /\ th[t].pc \in {"build", "get"} \/ th'[t].pc = "enforce"
    BY <1>4, QuietShape DEF procVars
  <2>2. th'[t].op # "compact" BY <1>0, <2>1 DEF Same
  <2> QED BY <1>1, <2>1, <2>2 DEF Enforcing
<1>5. CASE BatchWrite(t)
  BY <1>0, <1>1, <1>5, CommitShape DEF procVars, Enforcing
<1>6. CASE BatchWriteFail(t)
  <2>1. th'[t] = Idle BY <1>0, <1>6, Moved DEF BatchWriteFail, Become
  <2> QED BY <1>0, <1>1, <1>6, <2>1, FailShape DEF procVars, Enforcing
<1>7. CASE CompactReport(t)
  <2>1. /\ th' = [th EXCEPT ![t] = th'[t]] /\ th'[t] = Idle /\ UNCHANGED memVars /\ th[t].pc = "unmap"
        /\ ready' = ready
    BY <1>7, DoneShape DEF CompactReport
  <2> QED BY <1>0, <1>1, <2>1 DEF Enforcing
<1>8. CASE WarmupScan(t) \/ WarmupLoad(t) \/ ReplayCheckpoints(t) \/ ReplayScan(t) \/ ReplayEvent(t)
  <2>1. /\ th' = [th EXCEPT ![t] = th'[t]] /\ t = Main /\ UNCHANGED memVars /\ ready' = ready
        /\ th'[t].op \in {th[t].op, "replay"} /\ th[t].pc # "idle"
    BY <1>8, WarmShape DEF procVars
  <2>2. ~ready BY <2>1 DEF FlowInv, Turn
  <2> QED BY <1>0, <1>1, <2>1, <2>2
<1> QED BY <1>2, <1>3, <1>4, <1>5, <1>6, <1>7, <1>8

\* Records are applied and evicted.
LEMMA LimitApply ==
    ASSUME TypeOK, FlowInv, LimitInv, NEW t \in Thread,
           \/ UpsertMap(t) \/ UpsertIndex(t) \/ UpsertAccount(t)
           \/ RemoveMap(t) \/ EvictMap(t) \/ DropAccount(t) \/ DropIndex(t)
    PROVE  LimitInv'
<1>0. th[t].op # "compact" BY DEF LimitInv
<1>1. used' < Mod /\ \A k \in Key : Chargeable(charge'[k]) BY RangeStep DEF LimitInv, Step
<1>2. /\ th' = [th EXCEPT ![t] = th'[t]] /\ ready' = ready /\ th'[t].op = th[t].op /\ th[t].pc # "idle"
  BY UpsertShape, DropShape DEF procVars
<1>3. ready => t # Main BY <1>2 DEF FlowInv, Turn
<1>4. t # Main => ReqFlow(th[t]) BY FlowAt
<1>5. t # Main => th'[t].pc \in Enforcing \/ (th[t].pc = "unmap" /\ th'[t].pc = "unmap")
  <2>1. CASE UpsertMap(t) \/ UpsertIndex(t) \/ UpsertAccount(t)
    <3>1. \/ th'[t].pc \in {"index", "account"}
          \/ th'[t].pc = AfterUpsert(th[t].op, Tail(th[t].upserts))
      BY <2>1, UpsertShape
    <3>2. t # Main => th[t].op \in {"write", "pin"} BY <1>0, <1>2, <1>4 DEF ReqFlow
    <3> QED BY <3>1, <3>2 DEF AfterUpsert, Enforcing
  <2>2. CASE RemoveMap(t) \/ EvictMap(t) \/ DropAccount(t) \/ DropIndex(t)
    BY <1>0, <2>2, DropShape DEF Enforcing
  <2> QED BY <2>1, <2>2
<1>6. CASE t # Main /\ th[t].pc = "unmap" /\ th'[t].pc = "unmap"
  <2>1. UNCHANGED <<records, charge>>
    <3>1. RemoveMap(t) BY <1>6 DEF UpsertMap, UpsertIndex, UpsertAccount, EvictMap, DropAccount, DropIndex
    <3>2. CASE \E k \in th[t].dels : Become(t, [th[t] EXCEPT !.dels = @ \ {k}]) /\ UNCHANGED <<records, charge>>
      BY <3>2
    <3>3. CASE \E k \in th[t].dels :
                 Become(t, [th[t] EXCEPT !.pc = "sub", !.dels = @ \ {k}, !.key = k, !.delta = Dropped(k)])
      <4>1. PICK k \in th[t].dels :
                 th' = [th EXCEPT ![t] = [th[t] EXCEPT !.pc = "sub", !.dels = @ \ {k}, !.key = k, !.delta = Dropped(k)]]
        BY <3>3 DEF Become
      <4>2. th'[t] = [th[t] EXCEPT !.pc = "sub", !.dels = @ \ {k}, !.key = k, !.delta = Dropped(k)]
        BY <4>1, Moved
      <4>3. th[t] \in LocalState BY FlowAt
      <4>4. th'[t].pc = "sub" BY <4>2, <4>3 DEF LocalState
      <4> QED BY <1>6, <4>4
    <3> QED BY <3>1, <3>2, <3>3 DEF RemoveMap
  <2> QED BY <1>0, <1>1, <1>2, <1>6, <2>1, LimitFrame DEF Enforcing
<1>7. CASE t = Main \/ th'[t].pc \in Enforcing
  <2>1. ~ready' \/ th'[t].pc \in Enforcing BY <1>2, <1>3, <1>7 DEF TypeOK, SharedOK
  <2> QED BY <1>0, <1>1, <1>2, <2>1, LimitFrame
<1> QED BY <1>5, <1>6, <1>7

\* Time passes; the process is restarted.
LEMMA LimitEnv ==
    ASSUME LimitInv, Tick \/ Restart \/ Finished \/ UNCHANGED vars PROVE LimitInv'
<1>1. CASE Restart
  <2>1. ready' = FALSE /\ used' = 0 /\ charge' = [k \in Key |-> 0] /\ th' = FreshThreads BY <1>1 DEF Restart
  <2>2. \A t \in Thread : FreshThreads[t].op # "compact" BY DEF FreshThreads, Idle
  <2>3. 0 < Mod /\ Chargeable(0) BY LimitAssumption DEF Chargeable
  <2> QED BY <2>1, <2>2, <2>3 DEF LimitInv
<1>2. CASE Tick \/ Finished \/ UNCHANGED vars
  <2>1. UNCHANGED <<records, charge, used, ready, th>>
    BY <1>2 DEF Tick, Finished, vars, memVars, procVars
  <2>2. Kept' = Kept BY <2>1 DEF Kept, Resident
  <2> QED BY <2>1, <2>2 DEF LimitInv
<1> QED BY <1>1, <1>2

\* The first start.
LEMMA LimitInit == Init => LimitInv
<1> SUFFICES ASSUME Init PROVE LimitInv OBVIOUS
<1>1. \A t \in Thread : FreshThreads[t].op # "compact" BY DEF FreshThreads, Idle
<1>2. 0 < Mod /\ Chargeable(0) BY LimitAssumption DEF Chargeable
<1> QED BY <1>1, <1>2 DEF Init, LimitInv

\* Every step keeps the limit, or leaves a request that has still to evict.
LEMMA LimitNext ==
    NoCompaction /\ ChargesFit /\ TypeOK /\ FlowInv /\ AccountInv /\ LimitInv /\ [Next]_vars => LimitInv'
<1> SUFFICES ASSUME NoCompaction, ChargesFit, TypeOK, FlowInv, AccountInv, LimitInv, [Next]_vars
             PROVE  LimitInv'
  OBVIOUS
<1>1. ASSUME NEW t \in Thread, WriteStart(t) \/ PinStart(t) \/ CompactStart(t) \/ Step(t) PROVE LimitInv'
  BY <1>1, LimitElsewhere, LimitApply, LimitDone DEF Step
<1> QED BY <1>1, LimitEnv DEF Next

\* Without compactions, whenever no request is under way the charges of the
\* resident records are within the limit, or all of them are pinned, for any
\* number of clients, failures and restarts: EnforceResidentHardLimit of the last
\* request sees the exact sum although other requests changed the counter between
\* its test and its evictions.
THEOREM LimitStaysKept == ASSUME NoCompaction, ChargesFit PROVE Spec => []QuiescentWithinLimit
<1>1. Init => AccountInv /\ LimitInv BY InitAccount, LimitInit
<1>2. TypeOK /\ FlowInv /\ AccountInv /\ LimitInv /\ [Next]_vars => AccountInv' /\ LimitInv'
  BY NextAccount, LimitNext
<1>3. LimitInv => QuiescentWithinLimit
  <2> SUFFICES ASSUME LimitInv, ready, Quiescent, Limit # 0
               PROVE  Resident <= Limit \/ \A k \in Key : records[k] # None => records[k].pinned
    BY DEF QuiescentWithinLimit
  <2>1. ~\E t \in Thread : th[t].pc \in Enforcing BY DEF Quiescent, Enforcing
  <2> QED BY <2>1 DEF LimitInv, Kept
<1> QED BY <1>1, <1>2, <1>3, TypeCorrect, FlowInvariant, PTL DEF Spec

-----------------------------------------------------------------------------
(***************************************************************************)
(* One logical state.  With one client, no background compaction and       *)
(* batches that are stored as a whole or not at all, the resident record   *)
(* is the stored one, or was evicted: a request that runs is the only      *)
(* difference, and its batch and its list of upserts agree.                *)
(***************************************************************************)

\* All rows are in one partition.
SinglePartition == \E p \in Partition : Partition = {p} /\ \A n \in Nat : EventPid(n) = p

\* No batch is left half stored: a failure or a crash does not find one between
\* two partitions.
WholeBatches == StoreCanFail \/ CanCrash => SinglePartition

\* Nothing of a request is stored yet.
Unsent == {"build", "get", "check", "commit"}

\* v counts for the pin quota.
Pinning(v) == v # None /\ ~v.tomb /\ v.pinned

\* A record of key k is in the list; the last one is v.
Waiting(q, k) == \E i \in 1..Len(q) : q[i].key = k
LastIs(q, k, v) ==
    \A i \in 1..Len(q) : (q[i].key = k /\ \A j \in (i + 1)..Len(q) : q[j].key # k) => q[i] = v

\* Warmup has the row of key k still to load.
ToLoad(s, k, stored) == s.op = "warmup" /\ (s.pc = "scan" \/ s.snap[k] = stored[k])

\* Memory and store agree on key k, row d of which is or will be stored.
Agrees(s, k, r, d, stored) ==
    IF Waiting(s.upserts, k) THEN LastIs(s.upserts, k, d)
    ELSE \/ r = d
         \/ r = None /\ (~Pinning(d) \/ ToLoad(s, k, stored))
         \/ k \in s.dels

Settled(s, recs, stored) ==
    \A k \in Key : Agrees(s, k, recs[k], DocsThen(s.batch, stored)[k], stored)

\* Memory and store agree when no request runs.
Resting(recs, stored) ==
    \A k \in Key : recs[k] = stored[k] \/ (recs[k] = None /\ ~Pinning(stored[k]))

\* What the locals of the thread have to do with memory and store.
Prepared(s, recs, stored) ==
    /\ s.pc \in {"index", "account"} => recs[Head(s.upserts).key] = Head(s.upserts)
    /\ \A k \in s.dels : ~Waiting(s.upserts, k) /\ DocsThen(s.batch, stored)[k] = None
    /\ s.op = "compact" /\ s.pc = "build" => \A k \in Key : s.snap[k] # None =>
         s.snap[k] = recs[k] /\ ~Waiting(s.upserts, k) /\ k \notin s.dels
    /\ s.pc = "check" => s.snap[s.key] = stored[s.key]
    /\ s.pc = "scan" => recs = NoRecords
    /\ s.pc = "ckpts" => s.snap = NoRecords
    /\ s.op = "warmup" => \A k \in Key : s.snap[k] # None => s.snap[k] = stored[k]
    /\ s.log = {} /\ (s.pc \in {"get", "check"} => s.dels = {})
    /\ StoreCanFail /\ s.pc \in Unsent => Resting(recs, stored)

\* What a start finds: all rows or none, and no event beyond the checkpoint.
StoreWhole(s, stored, log, upto, wrote, on) ==
    IF CanCrash
    THEN /\ wrote = {} => stored = NoRecords
         /\ \A e \in log : CkptCovers(e, upto[e.ws])
         /\ \A e \in log \cup s.evs : CkptCovers(e, CkptThen(s.batch, upto)[e.ws])
    ELSE ~on => stored = NoRecords /\ log = {}

SettledInv == \E t \in Thread :
    /\ Alone(t)
    /\ Settled(th[t], records, docs) /\ Prepared(th[t], records, docs)
    /\ StoreWhole(th[t], docs, events, ckpt, touched, ready)

\* A record of key k in the list is pinned.
Listed(q, k) == \E i \in 1..Len(q) : q[i].key = k /\ Pinning(q[i])

\* Key k has a pinned record in memory, in the store, or soon.
MayHold(s, recs, stored, k) ==
    \/ Pinning(recs[k]) \/ Pinning(stored[k]) \/ Pinning(DocsThen(s.batch, stored)[k])
    \/ Listed(s.upserts, k)
MayPin(s, recs, stored, w) == {k \in Key : WsOf[k] = w /\ MayHold(s, recs, stored, k)}

\* The quota holds for them; a Write has counted all of them.
Counted(s, recs, stored) ==
    /\ \A w \in Workspace : Cardinality(MayPin(s, recs, stored, w)) <= PinQuota
    /\ s.op = "write" /\ s.pc = "build" =>
         s.pinned <= PinQuota /\ \A w \in s.scope : Cardinality(MayPin(s, recs, stored, w)) <= s.pinned

PinInv == \E t \in Thread : Alone(t) /\ Counted(th[t], records, docs)

\* Rows f have different dedup keys.
Distinct(f) == \A k, l \in Key :
    (/\ f[k] # None /\ f[l] # None /\ WsOf[k] = WsOf[l]
     /\ f[k].dedup # NoDedup /\ f[k].dedup = f[l].dedup) => k = l

\* The rows, with the records that are about to be removed from memory.
RowsAndDels(s, recs, stored) ==
    [k \in Key |-> IF k \in s.dels THEN recs[k] ELSE DocsThen(s.batch, stored)[k]]

\* The dedup key of r, if it has one, is taken.
Claimed(r, idx) == r = None \/ r.dedup = NoDedup \/ idx[<<WsOf[r.key], r.dedup>>] # None

Claims(s, recs, stored, idx) ==
    /\ Distinct(RowsAndDels(s, recs, stored)) /\ (CanCrash \/ StoreCanFail => Distinct(stored))
    /\ \A k \in Key : \/ Claimed(DocsThen(s.batch, stored)[k], idx)
                      \/ Waiting(s.upserts, k) \/ ToLoad(s, k, stored)
    /\ s.pc \in {"index", "account"} => Claimed(Head(s.upserts), idx)
    /\ StoreCanFail /\ s.pc \in Unsent => \A k \in Key : Claimed(stored[k], idx)
    /\ s.op = "write" /\ s.pc = "build" => ~s.flag /\ (s.n = 0 => s.upserts = <<>>)

ClaimInv == \E t \in Thread : Alone(t) /\ Claims(th[t], records, docs, dedup_index)

-----------------------------------------------------------------------------
(* Lists and rows *)

\* A record is added to the end of the list.
LEMMA ListAppend ==
    ASSUME NEW q \in Seq(Rec), NEW r \in Rec
    PROVE  /\ \A k \in Key : Waiting(Append(q, r), k) <=> (Waiting(q, k) \/ r.key = k)
           /\ LastIs(Append(q, r), r.key, r)
           /\ \A k \in Key : \A v : k # r.key /\ LastIs(q, k, v) => LastIs(Append(q, r), k, v)
<1> DEFINE n == Len(q)
           p == Append(q, r)
<1>1. n \in Nat /\ Len(p) = n + 1 /\ p[n + 1] = r /\ \A i \in 1..n : p[i] = q[i] OBVIOUS
<1> HIDE DEF p, n
<1>2. \A i \in 1..(n + 1) : i \in 1..n \/ i = n + 1 BY <1>1
<1>3. n + 1 \in 1..(n + 1) /\ \A i \in 1..n : i \in 1..(n + 1) /\ n + 1 \in (i + 1)..(n + 1) BY <1>1
<1>4. \A k \in Key : Waiting(p, k) <=> (Waiting(q, k) \/ r.key = k)
  BY <1>1, <1>2, <1>3 DEF Waiting, n
<1>5. LastIs(p, r.key, r) BY <1>1, <1>2, <1>3 DEF LastIs
<1>6. ASSUME NEW k \in Key, NEW v, k # r.key, LastIs(q, k, v) PROVE LastIs(p, k, v)
  <2> SUFFICES ASSUME NEW i \in 1..Len(p), p[i].key = k, \A j \in (i + 1)..Len(p) : p[j].key # k
               PROVE  p[i] = v
    BY DEF LastIs
  <2>1. i \in 1..n /\ p[i] = q[i] BY <1>1, <1>2, <1>6
  <2>2. \A j \in (i + 1)..n : j \in (i + 1)..Len(p) /\ p[j] = q[j] BY <1>1, <2>1
  <2> QED BY <1>6, <2>1, <2>2 DEF LastIs, n
<1> QED BY <1>4, <1>5, <1>6 DEF p

\* The first record leaves the list.
LEMMA ListTail ==
    ASSUME NEW q \in Seq(Rec), q # <<>>
    PROVE  /\ \A k \in Key : Waiting(Tail(q), k) => Waiting(q, k)
           /\ \A k \in Key : \A v : LastIs(q, k, v) => LastIs(Tail(q), k, v)
           /\ \A k \in Key : Waiting(q, k) /\ ~Waiting(Tail(q), k) =>
                Head(q).key = k /\ \A v : LastIs(q, k, v) => Head(q) = v
           /\ Waiting(q, Head(q).key)
<1> DEFINE n == Len(q)
           w == Tail(q)
           h == Head(q)
<1>1. n \in Nat /\ n >= 1 /\ Len(w) = n - 1 /\ h = q[1] /\ \A i \in 1..(n - 1) : w[i] = q[i + 1] OBVIOUS
<1> HIDE DEF w, n, h
<1>2. \A i \in 1..(n - 1) : i + 1 \in 1..n BY <1>1
<1>3. \A j \in 2..n : j - 1 \in 1..(n - 1) /\ q[j] = w[j - 1]
  <2> SUFFICES ASSUME NEW j \in 2..n PROVE j - 1 \in 1..(n - 1) /\ q[j] = w[j - 1] OBVIOUS
  <2>1. j - 1 \in 1..(n - 1) /\ (j - 1) + 1 = j BY <1>1
  <2> QED BY <1>1, <2>1
<1>4. 1 \in 1..n /\ \A j \in 1..n : j = 1 \/ j \in 2..n BY <1>1
<1>5. \A k \in Key : Waiting(w, k) => Waiting(q, k) BY <1>1, <1>2 DEF Waiting, n
<1>6. ASSUME NEW k \in Key, NEW v, LastIs(q, k, v) PROVE LastIs(w, k, v)
  <2> SUFFICES ASSUME NEW i \in 1..(n - 1), w[i].key = k, \A j \in (i + 1)..(n - 1) : w[j].key # k
               PROVE  w[i] = v
    BY <1>1 DEF LastIs
  <2>1. i + 1 \in 1..n /\ w[i] = q[i + 1] BY <1>1, <1>2
  <2>2. \A j \in ((i + 1) + 1)..n : j \in 2..n /\ j - 1 \in (i + 1)..(n - 1) BY <1>1
  <2>3. \A j \in ((i + 1) + 1)..n : q[j].key # k BY <1>3, <2>2
  <2> QED BY <1>6, <2>1, <2>3 DEF LastIs, n
<1>7. ASSUME NEW k \in Key, Waiting(q, k), ~Waiting(w, k)
      PROVE  h.key = k /\ \A v : LastIs(q, k, v) => h = v
  <2>1. \A j \in 2..n : q[j].key # k BY <1>1, <1>3, <1>7 DEF Waiting
  <2>2. q[1].key = k BY <1>4, <1>7, <2>1 DEF Waiting, n
  <2>3. \A j \in (1 + 1)..n : q[j].key # k BY <2>1
  <2> QED BY <1>1, <1>4, <2>2, <2>3 DEF LastIs, n
<1>8. Waiting(q, h.key) BY <1>1, <1>4 DEF Waiting, n
<1> QED BY <1>5, <1>6, <1>7, <1>8 DEF w, h

\* Nothing is in an empty list; a list of one holds that one.
LEMMA ListOne ==
    /\ \A k : ~Waiting(<<>>, k)
    /\ \A r : Waiting(<<r>>, r.key) /\ LastIs(<<r>>, r.key, r) /\ \A k : Waiting(<<r>>, k) => k = r.key
<1>1. Len(<<>>) = 0 /\ \A r : Len(<<r>>) = 1 /\ <<r>>[1] = r OBVIOUS
<1>2. 1..0 = {} /\ \A i \in 1..1 : i = 1 OBVIOUS
<1>3. 1 \in 1..1 OBVIOUS
<1> QED BY <1>1, <1>2, <1>3 DEF Waiting, LastIs

\* A row is added to a batch; an empty batch changes nothing.
LEMMA RowsThen ==
    ASSUME NEW b \in Batch, NEW stored \in [Key -> MaybeRec], NEW k \in Key, NEW e \in Event
    PROVE  /\ DocsThen(b, stored) \in [Key -> MaybeRec]
           /\ \A x \in Key : DocsThen(EmptyBatch, stored)[x] = stored[x]
           /\ \A r \in Rec, x \in Key : DocsThen(AppendRows(b, k, r, e), stored)[x] =
                (IF x = k THEN r ELSE DocsThen(b, stored)[x])
           /\ \A x \in Key : DocsThen(AppendRows(b, k, Gone, e), stored)[x] =
                (IF x = k THEN None ELSE DocsThen(b, stored)[x])
<1>0. b.doc \in [Key -> MaybeRec \cup {Gone}] BY DEF Batch
<1>1. DocsThen(b, stored) \in [Key -> MaybeRec] BY <1>0 DEF DocsThen, MaybeRec
<1>2. \A x \in Key : DocsThen(EmptyBatch, stored)[x] = stored[x] BY DEF DocsThen, EmptyBatch, NoRecords
<1>3. \A row : AppendRows(b, k, row, e).doc = [b.doc EXCEPT ![k] = row] BY DEF AppendRows
<1>4. ASSUME NEW r \in Rec, NEW x \in Key
      PROVE  DocsThen(AppendRows(b, k, r, e), stored)[x] = (IF x = k THEN r ELSE DocsThen(b, stored)[x])
  BY <1>0, <1>3, SentinelAssumption, ZenonT(60) DEF DocsThen
<1>5. ASSUME NEW x \in Key
      PROVE  DocsThen(AppendRows(b, k, Gone, e), stored)[x] = (IF x = k THEN None ELSE DocsThen(b, stored)[x])
  <2> DEFINE d == [b.doc EXCEPT ![k] = Gone]
  <2>1. d[k] = Gone /\ \A y \in Key \ {k} : d[y] = b.doc[y] BY <1>0
  <2>2. Gone # None BY SentinelAssumption
  <2>3. AppendRows(b, k, Gone, e).doc = d BY <1>3
  <2> HIDE DEF d
  <2> QED BY <2>1, <2>2, <2>3 DEF DocsThen
<1> QED BY <1>1, <1>2, <1>4, <1>5

-----------------------------------------------------------------------------
(* Memory and store agree *)

\* The invariant, of the thread at hand.
LEMMA SettledAt ==
    ASSUME TypeOK, SettledInv, NEW t \in Thread, Alone(t)
    PROVE  /\ Settled(th[t], records, docs) /\ Prepared(th[t], records, docs)
           /\ StoreWhole(th[t], docs, events, ckpt, touched, ready)
<1>1. PICK x \in Thread : /\ Alone(x) /\ Settled(th[x], records, docs) /\ Prepared(th[x], records, docs)
                          /\ StoreWhole(th[x], docs, events, ckpt, touched, ready)
  BY DEF SettledInv
<1>2. th[x] = th[t] BY <1>1 DEF Alone
<1> QED BY <1>1, <1>2

\* To establish the invariant, of the thread at hand.
LEMMA SettledTo ==
    ASSUME TypeOK, NEW t \in Thread, th' = [th EXCEPT ![t] = th'[t]], Alone(t),
           Settled(th'[t], records', docs'), Prepared(th'[t], records', docs'),
           StoreWhole(th'[t], docs', events', ckpt', touched', ready')
    PROVE  SettledInv'
<1>1. Alone(t)' BY StaysAlone
<1>2. Settled(th[t], records, docs)' BY DEF Settled, Agrees, ToLoad
<1>3. Prepared(th[t], records, docs)' BY DEF Prepared, Resting
<1>4. StoreWhole(th[t], docs, events, ckpt, touched, ready)' BY DEF StoreWhole
<1> QED BY <1>1, <1>2, <1>3, <1>4 DEF SettledInv

\* With an empty batch the rows to come are those stored.
LEMMA EmptyThen ==
    ASSUME NEW stored \in [Key -> MaybeRec], NEW upto \in [Workspace -> EventPos \cup {None}]
    PROVE  DocsThen(EmptyBatch, stored) = stored /\ CkptThen(EmptyBatch, upto) = upto
BY DEF DocsThen, CkptThen, EmptyBatch, NoRecords, NoCkpts

\* A thread that has nothing to write or to apply.
LEMMA RestSettles ==
    ASSUME NEW s, NEW recs, NEW stored \in [Key -> MaybeRec],
           s.upserts = <<>>, s.dels = {}, s.batch = EmptyBatch
    PROVE  /\ Resting(recs, stored) => Settled(s, recs, stored)
           /\ Settled(s, recs, stored) /\ s.op # "warmup" => Resting(recs, stored)
<1>1. \A k \in Key : DocsThen(s.batch, stored)[k] = stored[k]
  BY DEF DocsThen, EmptyBatch, NoRecords
<1>2. \A k \in Key : ~Waiting(s.upserts, k) BY ListOne
<1> QED BY <1>1, <1>2 DEF Settled, Agrees, Resting, ToLoad

\* A step that writes nothing.
LEMMA WholeStays ==
    ASSUME NEW s, NEW u, NEW stored, NEW log, log \subseteq Event,
           NEW upto \in [Workspace -> EventPos \cup {None}], NEW wrote, NEW more, NEW on, NEW now,
           StoreWhole(s, stored, log, upto, wrote, on), wrote \subseteq more, on => now,
           (u.batch = s.batch /\ u.evs = s.evs) \/ (u.batch = EmptyBatch /\ u.evs = {})
    PROVE  StoreWhole(u, stored, log, upto, more, now)
<1>1. CASE u.batch = s.batch /\ u.evs = s.evs BY <1>1 DEF StoreWhole
<1>2. CASE u.batch = EmptyBatch /\ u.evs = {}
  <2>1. \A w \in Workspace : CkptThen(EmptyBatch, upto)[w] = upto[w] BY DEF CkptThen, EmptyBatch, NoCkpts
  <2>2. \A e \in log : e.ws \in Workspace BY DEF Event
  <2> QED BY <1>2, <2>1, <2>2 DEF StoreWhole
<1> QED BY <1>1, <1>2

\* A step after which no request runs.
LEMMA SettledEnds ==
    ASSUME TypeOK, NEW t \in Thread, th' = [th EXCEPT ![t] = th'[t]], Alone(t), th'[t] = Idle,
           StoreWhole(th[t], docs, events, ckpt, touched, ready),
           UNCHANGED <<docs, events, ckpt, touched>>, ready => ready', Resting(records', docs')
    PROVE  SettledInv'
<1>1. /\ docs' \in [Key -> MaybeRec] /\ events \subseteq Event
      /\ ckpt \in [Workspace -> EventPos \cup {None}]
  BY DEF TypeOK, SharedOK
<1>2. Settled(Idle, records', docs') BY <1>1, RestSettles, IdleData
<1>3. Prepared(Idle, records', docs') BY IdleData DEF Prepared, Unsent
<1>4. StoreWhole(Idle, docs, events, ckpt, touched, ready') BY <1>1, IdleData, WholeStays
<1> QED BY <1>2, <1>3, <1>4, SettledTo

\* What the locals of a request hold at its start.
LEMMA StartFacts ==
    ASSUME TypeOK, FlowInv, NEW t \in Thread, WriteStart(t) \/ PinStart(t) \/ CompactStart(t)
    PROVE  /\ th'[t].op = "compact" => \A k \in Key : th'[t].snap[k] # None => th'[t].snap[k] = records[k]
           /\ th'[t].pc = "check" => th'[t].key \in Key /\ th'[t].snap[th'[t].key] = records[th'[t].key]
                                     /\ records[th'[t].key] # None
           /\ th'[t].op = "write" =>
                /\ th'[t].n = 0 /\ th'[t].flag \in AppendModes
                /\ \E w \in Workspace : th'[t].scope = {w} /\ th'[t].pinned = Cardinality(PinnedKeys(records, w))
<1> DEFINE u == th'[t]
<1>1. Idle \in LocalState /\ Idle.n = 0 /\ Idle.snap = NoRecords BY IdleType DEF Idle
<1>2. CASE WriteStart(t)
  <2>1. PICK w \in Workspace, append \in AppendModes :
          th' = [th EXCEPT ![t] = [Idle EXCEPT !.pc = "build", !.op = "write", !.scope = {w},
                           !.now = clock, !.flag = append,
                           !.active = Cardinality(ActiveKeys(records, w)),
                           !.pinned = Cardinality(PinnedKeys(records, w))]]
    BY <1>2 DEF WriteStart, Become
  <2> DEFINE sc == {w}
             ac == Cardinality(ActiveKeys(records, w))
             pn == Cardinality(PinnedKeys(records, w))
             v == [Idle EXCEPT !.pc = "build", !.op = "write", !.scope = sc,
                               !.now = clock, !.flag = append, !.active = ac, !.pinned = pn]
  <2>2. v.pc = "build" /\ v.op = "write" /\ v.n = 0 /\ v.flag = append /\ v.scope = sc /\ v.pinned = pn
    <3> HIDE DEF sc, ac, pn
    <3> QED BY <1>1 DEF LocalState
  <2>3. th' = [th EXCEPT ![t] = v] BY <2>1
  <2> HIDE DEF v
  <2>4. u = v BY <2>3, Moved
  <2> QED BY <2>2, <2>4
<1>3. CASE PinStart(t)
  <2>1. PICK k \in Key, pin \in BOOLEAN :
          th' = [th EXCEPT ![t] = [Idle EXCEPT !.op = "pin", !.key = k, !.flag = pin,
                             !.pc = IF records[k] # None THEN "check" ELSE "get",
                             !.snap = [@ EXCEPT ![k] = records[k]]]]
    BY <1>3 DEF PinStart, Become
  <2> DEFINE c == IF records[k] # None THEN "check" ELSE "get"
             sn == [Idle.snap EXCEPT ![k] = records[k]]
             v == [Idle EXCEPT !.op = "pin", !.key = k, !.flag = pin, !.pc = c, !.snap = sn]
  <2>2. v.op = "pin" /\ v.key = k /\ v.pc = c /\ v.snap = sn
    <3> HIDE DEF c, sn
    <3> QED BY <1>1 DEF LocalState
  <2>3. sn[k] = records[k] BY <1>1 DEF NoRecords
  <2>4. th' = [th EXCEPT ![t] = v] BY <2>1
  <2> HIDE DEF v, sn
  <2>5. u = v BY <2>4, Moved
  <2> HIDE DEF u
  <2>6. u.op # "compact" /\ u.op # "write" BY <2>2, <2>5
  <2>7. u.pc = "check" => u.key \in Key /\ u.snap[u.key] = records[u.key] /\ records[u.key] # None
    BY <2>2, <2>3, <2>5
  <2> QED BY <2>6, <2>7 DEF u
<1>4. CASE CompactStart(t)
  <2>1. PICK scope \in {{w} : w \in Workspace} \cup {Workspace} :
          /\ t = Gc => scope = Workspace
          /\ Become(t, [Idle EXCEPT !.pc = "build", !.op = "compact", !.scope = scope, !.now = clock,
               !.snap = [k \in Key |-> IF WsOf[k] \in scope THEN records[k] ELSE None]])
    BY <1>4, Zenon DEF CompactStart
  <2> DEFINE sn == [k \in Key |-> IF WsOf[k] \in scope THEN records[k] ELSE None]
             v == [Idle EXCEPT !.pc = "build", !.op = "compact", !.scope = scope, !.now = clock, !.snap = sn]
  <2>2. v.op = "compact" /\ v.pc = "build" /\ v.snap = sn
    <3> HIDE DEF sn
    <3> QED BY <1>1 DEF LocalState
  <2>3. \A k \in Key : sn[k] # None => sn[k] = records[k] OBVIOUS
  <2>4. th' = [th EXCEPT ![t] = v] BY <2>1, Zenon DEF Become
  <2> HIDE DEF v, sn
  <2>5. u = v BY <2>4, Moved
  <2> HIDE DEF u
  <2> QED BY <2>2, <2>3, <2>5 DEF u
<1> QED BY <1>2, <1>3, <1>4

\* What the locals of a request hold when it moves on.
LEMMA QuietFacts ==
    ASSUME TypeOK, FlowInv, NEW t \in Thread,
           WriteDedup(t) \/ WriteBuilt(t) \/ PinGet(t) \/ CompactBuilt(t) \/ WriteRoute(t)
    PROVE  \/ th'[t] = Idle
           \/ /\ th'[t].pc = "check" => th'[t].snap[th'[t].key] = docs[th'[t].key]
              /\ th'[t].pc = "build" =>
                   /\ th[t].op = "write" /\ th'[t].scope = th[t].scope /\ th'[t].pinned = th[t].pinned
                   /\ th'[t].flag = th[t].flag /\ th'[t].n = th[t].n + 1
<1> DEFINE s == th[t]
           u == th'[t]
<1>0. s \in LocalState /\ LocalOK(s) BY FlowAt
<1>1. CASE WriteDedup(t)
  <2>1. s.pc = "build" /\ s.op = "write" /\ th' = [th EXCEPT ![t] = [s EXCEPT !.n = @ + 1]]
    BY <1>1 DEF WriteDedup, Become
  <2>2. u = [s EXCEPT !.n = @ + 1] BY <2>1, Moved
  <2>3. /\ u.pc = "build" /\ u.scope = s.scope /\ u.pinned = s.pinned /\ u.flag = s.flag /\ u.n = s.n + 1
    BY <1>0, <2>1, <2>2 DEF LocalState
  <2> HIDE DEF u, s
  <2> QED BY <2>1, <2>3 DEF u, s
<1>2. CASE PinGet(t)
  <2> DEFINE sn == [s.snap EXCEPT ![s.key] = docs[s.key]]
             v == [s EXCEPT !.pc = "check", !.snap = sn]
  <2>1. s.pc = "get" /\ (th' = [th EXCEPT ![t] = v] \/ th' = [th EXCEPT ![t] = Idle])
    BY <1>2 DEF PinGet, Become
  <2>2. s.key \in Key BY <1>0, <2>1 DEF LocalOK
  <2>3. sn[s.key] = docs[s.key] BY <1>0, <2>2 DEF LocalState
  <2>4. v.pc = "check" /\ v.snap = sn /\ v.key = s.key
    <3> HIDE DEF sn
    <3> QED BY <1>0 DEF LocalState
  <2> HIDE DEF v, sn
  <2>5. u = v \/ u = Idle BY <2>1, Moved
  <2> HIDE DEF u
  <2> QED BY <2>3, <2>4, <2>5 DEF u
<1>3. CASE WriteBuilt(t) \/ CompactBuilt(t) \/ WriteRoute(t)
  <2>1. th'[t] = Idle \/ th'[t].pc \in {"commit", "unmap", "enforce"}
    <3> DEFINE c == IF s.batch = EmptyBatch THEN "unmap" ELSE "commit"
               v == [s EXCEPT !.pc = "commit"]
               w == [s EXCEPT !.pc = c, !.snap = NoRecords]
               x == [s EXCEPT !.pc = "enforce"]
               y == IF s.batch = EmptyBatch THEN Idle ELSE v
    <3>1. v.pc = "commit" /\ w.pc \in {"unmap", "commit"} /\ x.pc = "enforce" BY <1>0 DEF LocalState
    <3>2. th' = [th EXCEPT ![t] = y] \/ th' = [th EXCEPT ![t] = w] \/ th' = [th EXCEPT ![t] = x]
      BY <1>3 DEF WriteBuilt, CompactBuilt, WriteRoute, Become
    <3>3. y = Idle \/ y = v OBVIOUS
    <3> HIDE DEF v, w, x, y
    <3>4. th'[t] = y \/ th'[t] = w \/ th'[t] = x BY <3>2, Moved
    <3> QED BY <3>1, <3>3, <3>4
  <2> QED BY <2>1
<1> QED BY <1>1, <1>2, <1>3

\* The record a Write adds: it is in the scope, its dedup key is free, and its
\* pin was counted.
LEMMA WriteFacts ==
    ASSUME TypeOK, NEW t \in Thread, WriteRecord(t)
    PROVE  /\ th[t].op = "write" /\ th[t].n < MaxBatch /\ th'[t].n = th[t].n + 1
           /\ th'[t].scope = th[t].scope /\ th'[t].flag = th[t].flag
           /\ \E r \in Rec :
                /\ th'[t].upserts = Append(th[t].upserts, r) /\ WsOf[r.key] \in th[t].scope
                /\ ~DedupHit(th[t], r.key, r.dedup) /\ ~r.tomb
                /\ IF r.pinned THEN /\ th[t].pinned + 1 <= PinQuota
                                    /\ th'[t].pinned = th[t].pinned + 1
                   ELSE th'[t].pinned = th[t].pinned
<1> DEFINE s == th[t]
           u == th'[t]
<1>0. s \in LocalState BY DEF TypeOK, ThreadsOK
<1>1. PICK k \in Key, v \in Val, d \in DedupKey \cup {NoDedup}, pin \in BOOLEAN :
        AddRecord(t, k, v, d, pin /\ ~PinBlocked(s.pinned + 1, s.active + 1))
  BY DEF WriteRecord
<1> DEFINE p == pin /\ ~PinBlocked(s.pinned + 1, s.active + 1)
           r == [key |-> k, val |-> v, dedup |-> d, pinned |-> p, tomb |-> FALSE,
                 upd |-> s.now, ver |-> 1]
           e == MakeEvent(r, clock, local_seq + 1)
           bt == AppendRows(s.batch, k, r, e)
           up == Append(s.upserts, r)
           m == s.n + 1
           act == s.active + 1
           pn == IF p THEN s.pinned + 1 ELSE s.pinned
           new == [s EXCEPT !.n = m, !.active = act, !.pinned = pn, !.batch = bt,
                            !.evs = @ \cup {e}, !.upserts = up]
<1>2. p \in BOOLEAN /\ (p => s.pinned + 1 <= PinQuota)
  <2>1. s.pinned \in Nat BY <1>0 DEF LocalState
  <2>2. p => ~(s.pinned + 1 > PinQuota) BY DEF PinBlocked
  <2> QED BY <2>1, <2>2, PinAssumption DEF PinBlocked
<1>3. /\ s.op = "write" /\ s.n < MaxBatch /\ WsOf[k] \in s.scope /\ ~DedupHit(s, k, d)
      /\ th' = [th EXCEPT ![t] = new]
  BY <1>1 DEF AddRecord, Become
<1>4. u = new
  <2> HIDE DEF new
  <2> QED BY <1>3, Moved
<1>5. /\ new.n = m /\ new.scope = s.scope /\ new.flag = s.flag /\ new.upserts = up /\ new.pinned = pn
  <2> HIDE DEF r, e, bt, up, m, act, pn
  <2> QED BY <1>0 DEF LocalState
<1> HIDE DEF p
<1>6. r \in Rec /\ r.key = k /\ r.dedup = d /\ r.pinned = p /\ ~r.tomb BY <1>0, <1>2 DEF LocalState, Rec
<1> HIDE DEF new, r
<1>7. \E x \in Rec :
        /\ u.upserts = Append(s.upserts, x) /\ WsOf[x.key] \in s.scope
        /\ ~DedupHit(s, x.key, x.dedup) /\ ~x.tomb
        /\ IF x.pinned THEN s.pinned + 1 <= PinQuota /\ u.pinned = s.pinned + 1 ELSE u.pinned = s.pinned
  <2> USE <1>6
  <2> WITNESS r \in Rec
  <2> QED BY <1>2, <1>3, <1>4, <1>5, <1>6
<1> QED BY <1>3, <1>4, <1>5, <1>7

\* The record a Pin stores: the loaded one, with the pin that was allowed.
LEMMA PinFacts ==
    ASSUME TypeOK, NEW t \in Thread, PinCheck(t), th'[t] # Idle
    PROVE  /\ ~PinRefused(th[t])
           /\ \E r \in Rec : /\ th'[t].upserts = <<r>> /\ r.pinned = th[t].flag
                             /\ r.key = th[t].snap[th[t].key].key /\ th[t].key \in Key
                             /\ r.tomb = th[t].snap[th[t].key].tomb /\ r.dedup = th[t].snap[th[t].key].dedup
<1> DEFINE s == th[t]
<1>0. s \in LocalState /\ LocalOK(s) BY DEF TypeOK, ThreadsOK
<1> DEFINE old == s.snap[s.key]
           vr == old.ver + 1
           fl == s.flag
           r == [old EXCEPT !.pinned = fl, !.upd = clock, !.ver = vr]
           e == MakeEvent(r, clock, local_seq + 1)
           bt == AppendRows(s.batch, s.key, r, e)
           ev == {e}
           up == <<r>>
           new == [s EXCEPT !.pc = "commit", !.snap = NoRecords, !.batch = bt, !.evs = ev, !.upserts = up]
<1>1. old \in Rec /\ s.key \in Key BY <1>0 DEF LocalOK, PinCheck
<1>2. r \in Rec /\ r.pinned = fl /\ r.tomb = old.tomb /\ r.dedup = old.dedup /\ r.key = old.key
  <2>1. fl \in BOOLEAN /\ clock \in Nat BY <1>0 DEF LocalState, TypeOK, SharedOK
  <2>2. vr \in Nat BY <1>1 DEF Rec
  <2> HIDE DEF old, s, vr, fl
  <2> QED BY <1>1, <2>1, <2>2 DEF Rec
<1>3. th' = [th EXCEPT ![t] = Idle] \/ (~PinRefused(s) /\ th' = [th EXCEPT ![t] = new])
  BY DEF PinCheck, Become
<1>4. new.upserts = up
  <2> HIDE DEF bt, ev, up
  <2> QED BY <1>0 DEF LocalState
<1> HIDE DEF new, r
<1>5. ~PinRefused(s) /\ th'[t] = new BY <1>3, Moved
<1> QED BY <1>1, <1>2, <1>4, <1>5

\* The record a compaction adds: a tombstone of the copied one.
LEMMA TombFacts ==
    ASSUME TypeOK, FlowInv, NEW t \in Thread, CompactTomb(t)
    PROVE  /\ th[t].op = "compact"
           /\ \E r \in Rec : /\ th'[t].upserts = Append(th[t].upserts, r) /\ r.tomb
                             /\ th[t].snap[r.key] # None /\ r.dedup = th[t].snap[r.key].dedup
                             /\ ~th[t].snap[r.key].pinned
<1> DEFINE s == th[t]
<1>0. s \in LocalState /\ Homed(s.snap) BY FlowAt DEF Flow
<1>1. PICK k \in Key : s.snap[k] # None /\ ~s.snap[k].pinned /\ Tombstone(t, k) BY DEF CompactTomb, ToTomb
<1> DEFINE old == s.snap[k]
           now == s.now
           vr == Max2(old.ver, 1) + 1
           r == [old EXCEPT !.tomb = TRUE, !.upd = now, !.ver = vr]
           e == MakeEvent(r, clock, local_seq + 1)
           bt == AppendRows(s.batch, k, r, e)
           up == Append(s.upserts, r)
           m == s.n + 1
           sn == [s.snap EXCEPT ![k] = None]
           new == [s EXCEPT !.n = m, !.snap = sn, !.batch = bt, !.evs = @ \cup {e}, !.upserts = up]
<1>2. r \in Rec /\ r.tomb /\ r.dedup = old.dedup /\ r.key = k
  <2>1. old \in Rec /\ now \in Nat BY <1>0, <1>1 DEF LocalState, MaybeRec
  <2>2. vr \in Nat /\ old.key = k BY <1>0, <2>1 DEF Rec, Max2, Homed
  <2> HIDE DEF old, now, vr
  <2> QED BY <2>1, <2>2 DEF Rec
<1>3. s.op = "compact" /\ th' = [th EXCEPT ![t] = new] BY <1>1 DEF Tombstone, Become
<1>4. new.upserts = up
  <2> HIDE DEF r, e, bt, up, m, sn
  <2> QED BY <1>0 DEF LocalState
<1> HIDE DEF new, r
<1>5. th'[t] = new BY <1>3, Moved
<1> QED BY <1>1, <1>2, <1>3, <1>4, <1>5

\* The record at the end of a list is the one that was added.
LEMMA AppendSame ==
    ASSUME NEW q \in Seq(Rec), NEW r \in Rec, NEW x \in Rec, Append(q, r) = Append(q, x)
    PROVE  r = x
<1>1. Append(q, r)[Len(q) + 1] = r /\ Append(q, x)[Len(q) + 1] = x OBVIOUS
<1> QED BY <1>1

\* A record that is to be stored and applied is appended.
LEMMA UpsertAppended ==
    ASSUME NEW s \in LocalState, NEW u, NEW recs, NEW stored \in [Key -> MaybeRec],
           NEW k \in Key, NEW r \in Rec, NEW e \in Event, r.key = k,
           u.upserts = Append(s.upserts, r), u.batch = AppendRows(s.batch, k, r, e), u.dels = s.dels,
           u.op = s.op, s.op # "warmup", u.log = s.log, k \notin s.dels,
           s.pc \in Unsent, u.pc \in {"build", "commit"},
           u.op = "compact" /\ u.pc = "build" => s.pc = "build" /\ u.snap = [s.snap EXCEPT ![k] = None],
           Settled(s, recs, stored), Prepared(s, recs, stored)
    PROVE  Settled(u, recs, stored) /\ Prepared(u, recs, stored)
<1>0. s.upserts \in Seq(Rec) /\ s.batch \in Batch /\ s.snap \in [Key -> MaybeRec] BY DEF LocalState
<1>1. /\ \A x \in Key : Waiting(u.upserts, x) <=> (Waiting(s.upserts, x) \/ x = k)
      /\ LastIs(u.upserts, k, r)
      /\ \A x \in Key : \A v : x # k /\ LastIs(s.upserts, x, v) => LastIs(u.upserts, x, v)
  BY <1>0, ListAppend
<1>2. \A x \in Key : DocsThen(u.batch, stored)[x] = IF x = k THEN r ELSE DocsThen(s.batch, stored)[x]
  BY <1>0, RowsThen
<1>3. Settled(u, recs, stored)
  <2> SUFFICES ASSUME NEW x \in Key PROVE Agrees(u, x, recs[x], DocsThen(u.batch, stored)[x], stored)
    BY DEF Settled
  <2>1. Agrees(s, x, recs[x], DocsThen(s.batch, stored)[x], stored) BY DEF Settled
  <2>2. CASE x = k BY <1>1, <1>2, <2>2 DEF Agrees
  <2>3. CASE x # k
    <3>1. (Waiting(u.upserts, x) <=> Waiting(s.upserts, x))
          /\ DocsThen(u.batch, stored)[x] = DocsThen(s.batch, stored)[x]
      BY <1>1, <1>2, <2>3
    <3> QED BY <1>1, <2>1, <2>3, <3>1 DEF Agrees, ToLoad
  <2> QED BY <2>2, <2>3
<1>4. \A x \in u.dels : ~Waiting(u.upserts, x) /\ DocsThen(u.batch, stored)[x] = None
  <2>1. s.dels \subseteq Key BY DEF LocalState
  <2> QED BY <1>1, <1>2, <2>1 DEF Prepared
<1>5. u.op = "compact" /\ u.pc = "build" => \A x \in Key : u.snap[x] # None =>
         u.snap[x] = recs[x] /\ ~Waiting(u.upserts, x) /\ x \notin u.dels
  BY <1>0, <1>1 DEF Prepared
<1>6. StoreCanFail /\ u.pc \in Unsent => Resting(recs, stored) BY DEF Prepared
<1> QED BY <1>3, <1>4, <1>5, <1>6 DEF Prepared

\* The deletion of a tombstone is appended.
LEMMA DeleteAppended ==
    ASSUME NEW s \in LocalState, NEW u, NEW recs, NEW stored \in [Key -> MaybeRec],
           NEW k \in Key, NEW e \in Event, s.snap[k] # None,
           u.upserts = s.upserts, u.batch = AppendRows(s.batch, k, Gone, e), u.dels = s.dels \cup {k},
           u.op = s.op, s.op = "compact", u.log = s.log, s.pc = "build", u.pc = "build",
           u.snap = [s.snap EXCEPT ![k] = None],
           Settled(s, recs, stored), Prepared(s, recs, stored)
    PROVE  Settled(u, recs, stored) /\ Prepared(u, recs, stored)
<1>0. s.batch \in Batch /\ s.snap \in [Key -> MaybeRec] /\ s.dels \subseteq Key BY DEF LocalState
<1>1. ~Waiting(s.upserts, k) BY DEF Prepared
<1>2. \A x \in Key : DocsThen(u.batch, stored)[x] = IF x = k THEN None ELSE DocsThen(s.batch, stored)[x]
  BY <1>0, RowsThen
<1>3. Settled(u, recs, stored)
  <2> SUFFICES ASSUME NEW x \in Key PROVE Agrees(u, x, recs[x], DocsThen(u.batch, stored)[x], stored)
    BY DEF Settled
  <2>1. Agrees(s, x, recs[x], DocsThen(s.batch, stored)[x], stored) BY DEF Settled
  <2>2. CASE x = k BY <1>1, <2>2 DEF Agrees
  <2>3. CASE x # k
    <3>1. DocsThen(u.batch, stored)[x] = DocsThen(s.batch, stored)[x] BY <1>2, <2>3
    <3> QED BY <2>1, <3>1 DEF Agrees, ToLoad
  <2> QED BY <2>2, <2>3
<1>4. \A x \in u.dels : ~Waiting(u.upserts, x) /\ DocsThen(u.batch, stored)[x] = None
  BY <1>0, <1>1, <1>2 DEF Prepared
<1>5. \A x \in Key : u.snap[x] # None => u.snap[x] = recs[x] /\ ~Waiting(u.upserts, x) /\ x \notin u.dels
  BY <1>0 DEF Prepared
<1>6. StoreCanFail /\ u.pc \in Unsent => Resting(recs, stored) BY DEF Prepared, Unsent
<1> QED BY <1>3, <1>4, <1>5, <1>6 DEF Prepared

\* The checkpoint of the batch covers the event that was added.
LEMMA WholeAppended ==
    ASSUME NEW s \in LocalState, NEW u, NEW stored, NEW log, log \subseteq Event,
           NEW upto \in [Workspace -> EventPos \cup {None}], NEW wrote, NEW on,
           NEW e \in Event, u.evs = s.evs \cup {e},
           u.batch.ckpt = [s.batch.ckpt EXCEPT ![e.ws] = Pos(e)],
           \A x \in log \cup s.evs : ~PosLess(Pos(e), Pos(x)),
           StoreWhole(s, stored, log, upto, wrote, on)
    PROVE  StoreWhole(u, stored, log, upto, wrote, on)
<1>1. s.batch.ckpt \in [Workspace -> EventPos \cup {None}] /\ s.evs \subseteq Event BY DEF LocalState, Batch
<1>2. e.ws \in Workspace /\ Pos(e) \in EventPos /\ ~PosLess(Pos(e), Pos(e))
  BY DEF Event, EventPos, Pos, PosLess
<1>4. \A w \in Workspace : CkptThen(u.batch, upto)[w] =
        IF w = e.ws THEN Pos(e) ELSE CkptThen(s.batch, upto)[w]
  <2>1. u.batch.ckpt[e.ws] = Pos(e) /\ \A w \in Workspace \ {e.ws} : u.batch.ckpt[w] = s.batch.ckpt[w]
    BY <1>1, <1>2
  <2>2. Pos(e) # None BY <1>2, SentinelAssumption
  <2> QED BY <2>1, <2>2 DEF CkptThen
<1>5. ASSUME NEW x \in log \cup u.evs, \A y \in log \cup s.evs : CkptCovers(y, CkptThen(s.batch, upto)[y.ws])
      PROVE  CkptCovers(x, CkptThen(u.batch, upto)[x.ws])
  <2>1. x.ws \in Workspace /\ (x = e \/ x \in log \cup s.evs)
    <3>1. x \in Event /\ (x = e \/ x \in log \cup s.evs) BY <1>1
    <3> QED BY <3>1 DEF Event
  <2>2. CASE x.ws = e.ws
    <3>1. CkptThen(u.batch, upto)[x.ws] = Pos(e) BY <1>4, <2>1, <2>2
    <3>2. Pos(e) # None BY <1>2, SentinelAssumption
    <3>3. ~PosLess(Pos(e), Pos(x)) BY <1>2, <2>1
    <3> QED BY <3>1, <3>2, <3>3 DEF CkptCovers
  <2>3. CASE x.ws # e.ws BY <1>4, <1>5, <2>1, <2>3
  <2> QED BY <2>2, <2>3
<1> QED BY <1>5 DEF StoreWhole

\* A request that starts.
LEMMA StartSettles ==
    ASSUME TypeOK, FlowInv, NoGc, OneClient, SettledInv, NEW t \in Thread,
           WriteStart(t) \/ PinStart(t) \/ CompactStart(t)
    PROVE  SettledInv'
<1> DEFINE u == th'[t]
<1>1. ready /\ t \in Client /\ Alone(t) BY StartFlow, BusyAlone
<1>2. th[t] = Idle BY StartShape DEF FlowInv, Flow
<1>3. /\ Settled(Idle, records, docs) /\ StoreWhole(Idle, docs, events, ckpt, touched, ready)
  BY <1>1, <1>2, SettledAt
<1>4. UNCHANGED <<records, docs, events, ckpt, touched, ready>>
  BY StartShape DEF memVars, storeVars, procVars
<1>5. /\ docs \in [Key -> MaybeRec] /\ records \in [Key -> MaybeRec] /\ events \subseteq Event
      /\ ckpt \in [Workspace -> EventPos \cup {None}]
  BY DEF TypeOK, SharedOK
<1>6. Resting(records, docs) BY <1>3, <1>5, RestSettles, IdleData
<1>7. /\ u.op # "warmup" /\ u.pc \in {"build", "get", "check"}
      /\ u.evs = {} /\ u.upserts = <<>> /\ u.batch = EmptyBatch /\ u.log = {} /\ u.dels = {}
      /\ th' = [th EXCEPT ![t] = u]
  BY StartShape
<1>8. /\ u.op = "compact" => \A k \in Key : u.snap[k] # None => u.snap[k] = records[k]
      /\ u.pc = "check" => u.key \in Key /\ u.snap[u.key] = records[u.key] /\ records[u.key] # None
  BY StartFacts
<1> HIDE DEF u
<1>9. Settled(u, records, docs) BY <1>5, <1>6, <1>7, RestSettles
<1>10. Prepared(u, records, docs)
  <2>1. \A k \in Key : ~Waiting(u.upserts, k) BY <1>7, ListOne
  <2>2. u.pc = "check" => u.snap[u.key] = docs[u.key] BY <1>6, <1>8 DEF Resting
  <2> QED BY <1>6, <1>7, <1>8, <2>1, <2>2 DEF Prepared
<1>11. StoreWhole(u, docs, events, ckpt, touched, ready) BY <1>3, <1>5, <1>7, WholeStays
<1> QED BY <1>1, <1>4, <1>7, <1>9, <1>10, <1>11, SettledTo DEF u

\* A record operation is appended to the batch.
LEMMA AppendSettles ==
    ASSUME TypeOK, FlowInv, LogInv, NoGc, OneClient, SettledInv, NEW t \in Thread,
           WriteRecord(t) \/ PinCheck(t) \/ CompactTomb(t) \/ CompactDelete(t)
    PROVE  SettledInv'
<1> DEFINE s == th[t]
           u == th'[t]
<1>1. s.pc # "idle" /\ th' = [th EXCEPT ![t] = u] /\ t # Main BY AppendShape DEF OnlyLocal
<1>2. Alone(t) BY <1>1, BusyAlone
<1>3. UNCHANGED <<records, docs, events, ckpt, touched, ready>>
  BY AppendShape DEF OnlyLocal, memVars, storeVars
<1>4. /\ Settled(s, records, docs) /\ Prepared(s, records, docs)
      /\ StoreWhole(s, docs, events, ckpt, touched, ready)
  BY <1>2, SettledAt
<1>5. /\ docs \in [Key -> MaybeRec] /\ events \subseteq Event /\ ckpt \in [Workspace -> EventPos \cup {None}]
      /\ s \in LocalState /\ ReqFlow(s) /\ Homed(s.snap) /\ s.op # "warmup"
  BY <1>1, FlowAt DEF TypeOK, SharedOK, Flow, ReqFlow
<1>6. ASSUME NEW k \in Key, NEW r \in Rec, NEW e \in Event, NEW row,
             e = MakeEvent(r, clock, local_seq + 1), u.batch = AppendRows(s.batch, k, row, e),
             u.evs = s.evs \cup {e}, Settled(u, records, docs), Prepared(u, records, docs)
      PROVE  SettledInv'
  <2>1. \A x \in events \cup s.evs : ~PosLess(Pos(e), Pos(x)) BY <1>6, NextIsLatest
  <2>2. StoreWhole(u, docs, events, ckpt, touched, ready)
    <3>1. StoreWhole(s, docs, events, ckpt, touched, ready) BY <1>4
    <3>2. s \in LocalState /\ events \subseteq Event /\ ckpt \in [Workspace -> EventPos \cup {None}] BY <1>5
    <3>3. u.batch.ckpt = [s.batch.ckpt EXCEPT ![e.ws] = Pos(e)] /\ u.evs = s.evs \cup {e}
      BY <1>6 DEF AppendRows
    <3> HIDE DEF s, u
    <3> QED BY <2>1, <3>1, <3>2, <3>3, WholeAppended
  <2> HIDE DEF u
  <2> QED BY <1>1, <1>2, <1>3, <1>6, <2>2, SettledTo DEF u
<1>7. CASE WriteRecord(t)
  <2> HIDE DEF s, u
  <2>1. PICK k \in Key, r \in Rec, e \in Event :
                e = MakeEvent(r, clock, local_seq + 1) /\ r.key = k
                /\ s.pc = "build" /\ u.pc = "build" /\ s.op = "write"
                /\ u.op = s.op /\ u.log = s.log /\ u.dels = s.dels
                /\ u.evs = s.evs \cup {e} /\ u.upserts = Append(s.upserts, r)
                /\ u.batch = AppendRows(s.batch, k, r, e)
    BY <1>7, WriteShape DEF s, u
  <2>2. s.dels = {} /\ s.pc \in Unsent BY <1>5, <2>1 DEF ReqFlow, Unsent
  <2>3. Settled(u, records, docs) /\ Prepared(u, records, docs)
    <3>1. /\ u.pc \in {"build", "commit"} /\ k \notin s.dels
          /\ u.op = "compact" /\ u.pc = "build" => s.pc = "build" /\ u.snap = [s.snap EXCEPT ![k] = None]
      BY <2>1, <2>2
    <3>2. s \in LocalState /\ docs \in [Key -> MaybeRec] /\ s.op # "warmup" BY <1>5
    <3>3. Settled(s, records, docs) /\ Prepared(s, records, docs) BY <1>4
    <3>4. /\ r.key = k /\ u.upserts = Append(s.upserts, r) /\ u.batch = AppendRows(s.batch, k, r, e)
          /\ u.dels = s.dels /\ u.op = s.op /\ u.log = s.log /\ s.pc \in Unsent
      BY <2>1, <2>2
    <3> QED BY <3>1, <3>2, <3>3, <3>4, UpsertAppended
  <2> QED BY <1>6, <2>1, <2>3 DEF s, u
<1>8. CASE PinCheck(t)
  <2>1. CASE u = Idle
    <3>1. /\ s.pc = "check" /\ s.upserts = <<>> /\ s.batch = EmptyBatch /\ s.dels = {}
      <4>1. s.pc = "check" BY <1>8, PinShape
      <4>2. s.upserts = <<>> /\ s.batch = EmptyBatch BY <1>5, <4>1 DEF ReqFlow
      <4>3. s.dels = {} BY <1>4, <4>1 DEF Prepared
      <4> QED BY <4>1, <4>2, <4>3
    <3>2. Resting(records, docs) BY <1>4, <1>5, <3>1, RestSettles
    <3> QED BY <1>1, <1>2, <1>3, <1>4, <2>1, <3>2, SettledEnds
  <2>2. CASE u # Idle
    <3> HIDE DEF s, u
    <3>1. PICK k \in Key, r \in Rec, e \in Event :
                      e = MakeEvent(r, clock, local_seq + 1)
                      /\ s.snap[k] \in Rec /\ r.key = s.snap[k].key
                      /\ u.pc = "commit" /\ u.op = s.op
                      /\ u.log = s.log /\ u.dels = s.dels
                      /\ u.evs = {e} /\ u.upserts = <<r>>
                      /\ u.batch = AppendRows(s.batch, k, r, e)
      BY <1>8, <2>2, PinShape DEF s, u
    <3>2. r.key = k BY <1>5, <3>1 DEF Homed
    <3>3. s.pc = "check" BY <1>8, PinShape DEF s
    <3>4. s.evs = {} /\ s.upserts = <<>> /\ s.batch = EmptyBatch /\ s.pc \in Unsent BY <1>5, <3>3 DEF ReqFlow, Unsent
    <3>5. u.evs = s.evs \cup {e} /\ u.upserts = Append(s.upserts, r) BY <3>1, <3>4
    <3>6. k \notin s.dels BY <1>4, <3>3 DEF Prepared
    <3>7. Settled(u, records, docs) /\ Prepared(u, records, docs)
      BY <1>4, <1>5, <3>1, <3>2, <3>4, <3>5, <3>6, UpsertAppended, ZenonT(60)
    <3> QED BY <1>6, <3>1, <3>5, <3>7 DEF s, u
  <2> QED BY <2>1, <2>2
<1>9. CASE CompactTomb(t)
  <2> HIDE DEF s, u
  <2>1. PICK k \in Key, r \in Rec, e \in Event :
                e = MakeEvent(r, clock, local_seq + 1)
                /\ s.snap[k] \in Rec /\ r.key = s.snap[k].key
                /\ u.snap = [s.snap EXCEPT ![k] = None]
                /\ s.pc = "build" /\ u.pc = "build" /\ u.op = s.op
                /\ u.log = s.log /\ u.dels = s.dels
                /\ u.evs = s.evs \cup {e} /\ u.upserts = Append(s.upserts, r)
                /\ u.batch = AppendRows(s.batch, k, r, e)
    BY <1>9, TombShape, ZenonT(60) DEF s, u
  <2>2. r.key = k BY <1>5, <2>1 DEF Homed
  <2>3. s.op = "compact" BY <1>9, TombFacts DEF s
  <2>4. k \notin s.dels /\ s.pc \in Unsent BY <1>4, <2>1, <2>3, SentinelAssumption DEF Prepared, Unsent
  <2>5. Settled(u, records, docs) /\ Prepared(u, records, docs)
    BY <1>4, <1>5, <2>1, <2>2, <2>4, UpsertAppended
  <2> QED BY <1>6, <2>1, <2>5 DEF s, u
<1>10. CASE CompactDelete(t)
  <2> HIDE DEF s, u
  <2>1. PICK k \in Key, r \in Rec, e \in Event :
                e = MakeEvent(r, clock, local_seq + 1) /\ r = s.snap[k]
                /\ u.snap = [s.snap EXCEPT ![k] = None]
                /\ s.pc = "build" /\ s.op = "compact" /\ u.pc = "build" /\ u.op = s.op
                /\ u.log = s.log /\ u.dels = s.dels \cup {k}
                /\ u.evs = s.evs \cup {e} /\ u.upserts = s.upserts
                /\ u.batch = AppendRows(s.batch, k, Gone, e)
    BY <1>10, ReclaimShape DEF s, u
  <2>2. s.snap[k] # None BY <2>1, SentinelAssumption
  <2>3. Settled(u, records, docs) /\ Prepared(u, records, docs)
    BY <1>4, <1>5, <2>1, <2>2, DeleteAppended, SMTT(30)
  <2> QED BY <1>6, <2>1, <2>3 DEF s, u
<1> QED BY <1>7, <1>8, <1>9, <1>10

\* A request that such a step ends has nothing to write.
LEMMA QuietEnds ==
    ASSUME TypeOK, FlowInv, NEW t \in Thread, Prepared(th[t], records, docs), th'[t] = Idle,
           WriteDedup(t) \/ WriteBuilt(t) \/ PinGet(t) \/ CompactBuilt(t) \/ WriteRoute(t)
    PROVE  th[t].upserts = <<>> /\ th[t].dels = {} /\ th[t].batch = EmptyBatch
<1> DEFINE s == th[t]
           u == th'[t]
<1>1. ReqFlow(s) BY QuietShape, FlowAt
<1>2. s.pc \in {"build", "get", "route"} /\ (s.pc = "build" => s.evs = {})
  <2>1. Idle.pc = "idle" BY IdleData
  <2> QED BY <2>1, QuietShape
<1>3. CASE s.pc = "build"
  <2>1. s.batch = EmptyBatch
    <3> DEFINE v == [s EXCEPT !.n = @ + 1]
               w == [s EXCEPT !.pc = "commit"]
               c == IF s.batch = EmptyBatch THEN "unmap" ELSE "commit"
               x == [s EXCEPT !.pc = c, !.snap = NoRecords]
               y == IF s.batch = EmptyBatch THEN Idle ELSE w
    <3>1. v.pc = "build" /\ w.pc = "commit" /\ x.pc # "idle" BY <1>3, FlowAt DEF LocalState
    <3>2. th' = [th EXCEPT ![t] = v] \/ th' = [th EXCEPT ![t] = y] \/ th' = [th EXCEPT ![t] = x]
      BY <1>3 DEF WriteDedup, WriteBuilt, CompactBuilt, PinGet, WriteRoute, Become
    <3>3. y = (IF s.batch = EmptyBatch THEN Idle ELSE w) OBVIOUS
    <3> HIDE DEF v, w, x, y
    <3>4. u = v \/ u = y \/ u = x BY <3>2, Moved
    <3> QED BY <3>1, <3>3, <3>4, IdleData
  <2> QED BY <1>1, <1>2, <1>3, <2>1 DEF ReqFlow
<1>4. CASE s.pc = "get" BY <1>1, <1>4 DEF ReqFlow, Prepared
<1>5. CASE s.pc = "route" BY <1>1, <1>5 DEF ReqFlow
<1> QED BY <1>2, <1>3, <1>4, <1>5

\* A step of a request that only moves it on.
LEMMA QuietSettles ==
    ASSUME TypeOK, FlowInv, NoGc, OneClient, SettledInv, NEW t \in Thread,
           WriteDedup(t) \/ WriteBuilt(t) \/ PinGet(t) \/ CompactBuilt(t) \/ WriteRoute(t)
    PROVE  SettledInv'
<1> DEFINE s == th[t]
           u == th'[t]
<1>1. s.pc # "idle" /\ th' = [th EXCEPT ![t] = u] /\ t # Main BY QuietShape
<1>2. Alone(t) BY <1>1, BusyAlone
<1>3. UNCHANGED <<records, docs, events, ckpt, ready>> /\ touched \subseteq touched'
  <2>1. UNCHANGED <<records, docs, events, ckpt, ready>> BY QuietShape DEF memVars, procVars
  <2>2. touched \subseteq touched'
    BY DEF WriteDedup, WriteBuilt, PinGet, CompactBuilt, WriteRoute, storeVars
  <2> QED BY <2>1, <2>2
<1>4. /\ Settled(s, records, docs) /\ Prepared(s, records, docs)
      /\ StoreWhole(s, docs, events, ckpt, touched, ready)
  BY <1>2, SettledAt
<1>5. /\ docs \in [Key -> MaybeRec] /\ events \subseteq Event /\ ckpt \in [Workspace -> EventPos \cup {None}]
      /\ ReqFlow(s) /\ s.op # "warmup"
  BY <1>1, FlowAt DEF TypeOK, SharedOK, ReqFlow
<1>6. CASE u = Idle
  <2>1. s.evs = {} /\ s.pc \in {"build", "get", "route"} /\ touched' = touched
    <3>1. CASE WriteRoute(t)
      <4>1. u.pc = "enforce"
        <5> DEFINE v == [s EXCEPT !.pc = "enforce"]
        <5>1. th' = [th EXCEPT ![t] = v] BY <3>1 DEF WriteRoute, Become
        <5>2. v.pc = "enforce" BY FlowAt DEF LocalState
        <5> HIDE DEF v
        <5> QED BY <5>1, <5>2, Moved
      <4> QED BY <1>6, <4>1, IdleData
    <3>2. CASE ~WriteRoute(t)
      <4>1. touched' = touched BY <3>2 DEF WriteDedup, WriteBuilt, PinGet, CompactBuilt, storeVars
      <4>2. s.evs = {} /\ s.pc \in {"build", "get", "route"}
        <5>1. Idle.pc = "idle" BY IdleData
        <5> QED BY <1>6, <5>1, QuietShape
      <4> QED BY <4>1, <4>2
    <3> QED BY <3>1, <3>2
  <2>2. s.upserts = <<>> /\ s.dels = {} /\ s.batch = EmptyBatch BY <1>4, <1>6, QuietEnds
  <2>3. Resting(records, docs) BY <1>4, <1>5, <2>2, RestSettles
  <2> QED BY <1>1, <1>2, <1>3, <1>4, <1>6, <2>1, <2>3, SettledEnds
<1>7. CASE u # Idle
  <2>1. /\ Same(s, u)
        /\ \/ s.pc = "build" /\ u.pc = "build"
           \/ s.pc = "build" /\ u.pc = "commit"
           \/ s.pc = "build" /\ u.pc = "unmap" /\ s.batch = EmptyBatch
           \/ s.pc = "get" /\ u.pc = "check"
           \/ s.pc = "route" /\ u.pc = "enforce"
    BY <1>7, QuietShape
  <2>2. /\ u.pc = "check" => u.snap[u.key] = docs[u.key]
        /\ u.pc = "build" => s.op = "write"
    BY <1>7, QuietFacts
  <2> HIDE DEF s, u
  <2>3. Settled(u, records, docs) BY <1>4, <1>5, <2>1 DEF Settled, Agrees, ToLoad, Same
  <2>4. Prepared(u, records, docs)
    <3>1. \A k \in u.dels : ~Waiting(u.upserts, k) /\ DocsThen(u.batch, docs)[k] = None
      BY <1>4, <2>1 DEF Prepared, Same
    <3>2. StoreCanFail /\ u.pc \in Unsent => Resting(records, docs) BY <1>4, <2>1 DEF Prepared, Unsent
    <3> QED BY <1>4, <1>5, <2>1, <2>2, <3>1, <3>2 DEF Prepared, Same
  <2>5. StoreWhole(u, docs, events, ckpt, touched', ready) BY <1>3, <1>4, <1>5, <2>1, WholeStays DEF Same
  <2> QED BY <1>1, <1>2, <1>3, <2>3, <2>4, <2>5, SettledTo DEF u
<1> QED BY <1>6, <1>7

\* The rows of one partition are committed: of a store with one, all rows.
LEMMA CommitFacts ==
    ASSUME TypeOK, FlowInv, LogInv, NEW t \in Thread, BatchWrite(t)
    PROVE  /\ \A k \in Key : /\ DocsThen(th'[t].batch, docs')[k] = DocsThen(th[t].batch, docs)[k]
                             /\ docs'[k] = docs[k] \/ docs'[k] = DocsThen(th[t].batch, docs)[k]
           /\ \A w \in Workspace : CkptThen(th'[t].batch, ckpt')[w] = CkptThen(th[t].batch, ckpt)[w]
           /\ events' \subseteq events \cup th[t].evs /\ touched' # {}
           /\ SinglePartition =>
                /\ th'[t].batch = EmptyBatch
                /\ \A w \in Workspace : ckpt'[w] = CkptThen(th[t].batch, ckpt)[w]
           /\ th'[t].pc \in {"commit", "map", "unmap", "route", "enforce"}
           /\ th'[t].pc = "commit" => th'[t].batch # EmptyBatch
<1> DEFINE s == th[t]
           b == s.batch
           u == th'[t]
<1>1. PICK p \in Partition : CommitPartition(t, p) BY DEF BatchWrite
<1>2. /\ docs' = DocsAfter(b, p) /\ events' = EventsAfter(b, p)
      /\ ckpt' = CkptAfter(b, p) /\ touched' = touched \cup {p}
  BY <1>1 DEF CommitPartition
<1>3. u.batch = WithoutPid(b, p)
  <2>0. s \in LocalState BY FlowAt
  <2> DEFINE rest == WithoutPid(b, p)
             c == IF rest = EmptyBatch THEN AfterUpsert(s.op, s.upserts) ELSE "commit"
             v == [s EXCEPT !.batch = rest, !.pc = c]
  <2>1. th' = [th EXCEPT ![t] = v] BY <1>1 DEF CommitPartition, Become
  <2>2. v.batch = rest
    <3> HIDE DEF rest, c
    <3> QED BY <2>0 DEF LocalState
  <2> HIDE DEF v
  <2> QED BY <2>1, <2>2, Moved
<1>4. b \in Batch /\ s.op \in {"write", "pin", "compact"}
  <2>1. t # Main /\ s.pc = "commit" BY CommitShape
  <2> QED BY <2>1, FlowAt DEF ReqFlow, LocalState
<1>5. \A k \in Key : /\ DocsThen(u.batch, docs')[k] = DocsThen(b, docs)[k]
                     /\ docs'[k] = docs[k] \/ docs'[k] = DocsThen(b, docs)[k]
  BY <1>2, <1>3 DEF DocsThen, WithoutPid, DocsAfter
<1>6. \A w \in Workspace : CkptThen(u.batch, ckpt')[w] = CkptThen(b, ckpt)[w]
  BY <1>2, <1>3 DEF CkptThen, WithoutPid, CkptAfter
<1>7. events' \subseteq events \cup s.evs /\ touched' # {} BY <1>2, CommitGrows
<1>8. ASSUME SinglePartition
      PROVE  u.batch = EmptyBatch /\ \A w \in Workspace : ckpt'[w] = CkptThen(b, ckpt)[w]
  <2>0. Partition = {p} /\ \A n \in Nat : EventPid(n) = p BY <1>8 DEF SinglePartition
  <2>1. /\ \A k \in Key : DocPid[k] = p
        /\ \A w \in Workspace : CkptPid[w] = p
        /\ b.aux \subseteq {p} /\ \A e \in b.ev : EventPid(e.seq) = p
    BY <1>4, <2>0, PartitionAssumption DEF Batch, Event
  <2>2. WithoutPid(b, p) = EmptyBatch BY <2>1 DEF WithoutPid, EmptyBatch, NoRecords, NoCkpts
  <2>3. \A w \in Workspace : ckpt'[w] = CkptThen(b, ckpt)[w] BY <1>2, <2>1 DEF CkptAfter, CkptThen
  <2> QED BY <1>3, <2>2, <2>3
<1>9. u.pc = IF u.batch = EmptyBatch THEN AfterUpsert(s.op, s.upserts) ELSE "commit" BY CommitShape
<1>10. AfterUpsert(s.op, s.upserts) \in {"map", "unmap", "route", "enforce"} BY <1>4 DEF AfterUpsert
<1> QED BY <1>5, <1>6, <1>7, <1>8, <1>9, <1>10

\* BatchWrite commits the rows of one partition.
LEMMA CommitSettles ==
    ASSUME TypeOK, FlowInv, LogInv, NoGc, OneClient, WholeBatches, SettledInv, NEW t \in Thread, BatchWrite(t)
    PROVE  SettledInv'
<1> DEFINE s == th[t]
           u == th'[t]
           S == DocsThen(s.batch, docs)
           C == CkptThen(s.batch, ckpt)
<1>1. s.pc = "commit" /\ th' = [th EXCEPT ![t] = u] /\ t # Main BY CommitShape
<1>2. Alone(t) /\ ready BY <1>1, BusyAlone, BusyReady
<1>3. /\ Settled(s, records, docs) /\ Prepared(s, records, docs)
      /\ StoreWhole(s, docs, events, ckpt, touched, ready)
  BY <1>2, SettledAt
<1>4. /\ UNCHANGED <<records, ready>>
      /\ u.op = s.op /\ u.evs = s.evs /\ u.upserts = s.upserts /\ u.dels = s.dels /\ u.log = s.log
  BY CommitShape DEF memVars, procVars
<1>5. /\ \A k \in Key : DocsThen(u.batch, docs')[k] = S[k]
      /\ \A w \in Workspace : CkptThen(u.batch, ckpt')[w] = C[w]
      /\ events' \subseteq events \cup s.evs /\ touched' # {}
      /\ SinglePartition => u.batch = EmptyBatch /\ \A w \in Workspace : ckpt'[w] = C[w]
      /\ u.pc \in {"commit", "map", "unmap", "route", "enforce"} /\ (u.pc = "commit" => u.batch # EmptyBatch)
  BY CommitFacts
<1>6. s.op # "warmup" /\ s.evs \subseteq Event /\ events \subseteq Event /\ s.dels \subseteq Key
  BY <1>1, FlowAt DEF ReqFlow, LocalState, TypeOK, SharedOK
<1> HIDE DEF s, u
<1>7. Settled(u, records, docs') BY <1>3, <1>4, <1>5, <1>6 DEF Settled, Agrees, ToLoad
<1>8. Prepared(u, records, docs')
  <2>1. \A k \in u.dels : ~Waiting(u.upserts, k) /\ DocsThen(u.batch, docs')[k] = None
    BY <1>3, <1>4, <1>5, <1>6 DEF Prepared
  <2>2. StoreCanFail => u.pc \notin Unsent BY <1>5 DEF WholeBatches, Unsent
  <2>3. u.pc \notin {"index", "account", "build", "get", "check", "scan", "ckpts"} /\ u.op # "warmup"
    BY <1>4, <1>5, <1>6
  <2>4. u.log = {} BY <1>3, <1>4 DEF Prepared
  <2> QED BY <2>1, <2>2, <2>3, <2>4 DEF Prepared
<1>9. StoreWhole(u, docs', events', ckpt', touched', ready)
  <2>1. CASE CanCrash
    <3>1. \A w \in Workspace : ckpt'[w] = C[w] BY <1>5, <2>1 DEF WholeBatches
    <3>2. \A e \in events \cup s.evs : e.ws \in Workspace /\ CkptCovers(e, C[e.ws])
      <4>1. events \cup s.evs \subseteq Event BY <1>6
      <4> QED BY <1>3, <2>1, <4>1 DEF StoreWhole, Event
    <3> HIDE DEF C
    <3> QED BY <1>4, <1>5, <2>1, <3>1, <3>2 DEF StoreWhole
  <2>2. CASE ~CanCrash BY <1>2, <2>2 DEF StoreWhole
  <2> QED BY <2>1, <2>2
<1> QED BY <1>1, <1>2, <1>4, <1>7, <1>8, <1>9, SettledTo DEF u

\* A partition fails, when nothing was stored before.
LEMMA FailSettles ==
    ASSUME TypeOK, FlowInv, NoGc, OneClient, SettledInv, NEW t \in Thread, BatchWriteFail(t)
    PROVE  SettledInv'
<1> DEFINE s == th[t]
           u == th'[t]
<1>1. s.pc = "commit" /\ th' = [th EXCEPT ![t] = u] /\ t # Main BY FailShape
<1>2. Alone(t) BY <1>1, BusyAlone
<1>3. /\ Settled(s, records, docs) /\ Prepared(s, records, docs)
      /\ StoreWhole(s, docs, events, ckpt, touched, ready)
  BY <1>2, SettledAt
<1>4. UNCHANGED <<records, docs, events, ckpt, touched, ready>> BY FailShape DEF memVars, storeVars, procVars
<1>5. Resting(records, docs) BY <1>1, <1>3 DEF Prepared, Unsent, BatchWriteFail
<1>6. CASE u = Idle BY <1>1, <1>2, <1>3, <1>4, <1>5, <1>6, SettledEnds
<1>7. CASE u # Idle
  <2>1. /\ u.pc = "unmap" /\ u.op = "compact" /\ u.batch = EmptyBatch
        /\ u.evs = {} /\ u.upserts = <<>> /\ u.dels = {} /\ u.log = s.log
    BY <1>7, FailShape
  <2>2. /\ docs \in [Key -> MaybeRec] /\ events \subseteq Event
        /\ ckpt \in [Workspace -> EventPos \cup {None}]
    BY DEF TypeOK, SharedOK
  <2> HIDE DEF s, u
  <2>3. Settled(u, records, docs) BY <1>5, <2>1, <2>2, RestSettles
  <2>4. Prepared(u, records, docs) BY <1>3, <2>1 DEF Prepared, Unsent
  <2>5. StoreWhole(u, docs, events, ckpt, touched, ready) BY <1>3, <2>1, <2>2, WholeStays
  <2> QED BY <1>1, <1>2, <1>4, <2>3, <2>4, <2>5, SettledTo DEF u
<1> QED BY <1>6, <1>7

\* A request, or Warmup, ends.
LEMMA DoneSettles ==
    ASSUME TypeOK, FlowInv, NoGc, OneClient, SettledInv, NEW t \in Thread, CompactReport(t) \/ EnforceDone(t)
    PROVE  SettledInv'
<1> DEFINE s == th[t]
<1>1. s.pc \in {"unmap", "enforce"} /\ (t = Main => s.pc = "enforce") BY DoneShape
<1>2. Alone(t) BY <1>1, BusyAlone
<1>3. Settled(s, records, docs) /\ StoreWhole(s, docs, events, ckpt, touched, ready) BY <1>2, SettledAt
<1>4. /\ UNCHANGED <<records, docs, events, ckpt, touched>> /\ (ready => ready')
      /\ s.upserts = <<>> /\ s.dels = {} /\ s.batch = EmptyBatch
      /\ th' = [th EXCEPT ![t] = th'[t]] /\ th'[t] = Idle
  BY DoneShape DEF storeVars, memVars
<1>5. s.op # "warmup" BY <1>1, FlowAt DEF ReqFlow, WarmFlow
<1>6. docs \in [Key -> MaybeRec] BY DEF TypeOK, SharedOK
<1>7. Resting(records, docs) BY <1>3, <1>4, <1>5, <1>6, RestSettles
<1> QED BY <1>2, <1>3, <1>4, <1>7, SettledEnds

\* UpsertRecordInMemory.
LEMMA UpsertSettles ==
    ASSUME TypeOK, FlowInv, NoGc, OneClient, SettledInv, NEW t \in Thread,
           UpsertMap(t) \/ UpsertIndex(t) \/ UpsertAccount(t)
    PROVE  SettledInv'
<1> DEFINE s == th[t]
           u == th'[t]
           h == Head(s.upserts)
<1>1. s.pc \in {"map", "index", "account"} /\ th' = [th EXCEPT ![t] = u] BY UpsertShape
<1>2. Alone(t) BY <1>1, BusyAlone
<1>3. /\ Settled(s, records, docs) /\ Prepared(s, records, docs)
      /\ StoreWhole(s, docs, events, ckpt, touched, ready)
  BY <1>2, SettledAt
<1>4. /\ UNCHANGED <<docs, events, ckpt, touched, ready>>
      /\ u.op = s.op /\ u.batch = s.batch /\ u.evs = s.evs /\ u.dels = s.dels /\ u.log = s.log /\ u.snap = s.snap
  BY UpsertShape DEF storeVars, procVars
<1>5. /\ events \subseteq Event /\ ckpt \in [Workspace -> EventPos \cup {None}]
      /\ records \in [Key -> MaybeRec] /\ s.upserts \in Seq(Rec) /\ s.upserts # <<>> /\ s.dels \subseteq Key
  BY UpsertShape, FlowAt DEF TypeOK, SharedOK, LocalState
<1>6. h \in Rec /\ h.key \in Key
  <2>1. s.upserts \in Seq(Rec) /\ s.upserts # <<>> BY <1>5
  <2> HIDE DEF s
  <2>2. h \in Rec BY <2>1
  <2> QED BY <2>2 DEF Rec
<1>7. Waiting(s.upserts, h.key)
  <2> HIDE DEF s
  <2> QED BY <1>5, ListTail
<1>8. StoreWhole(u, docs, events, ckpt, touched, ready) BY <1>3, <1>4, <1>5, WholeStays
<1>9. CASE s.pc \in {"map", "index"}
  <2>1. /\ u.upserts = s.upserts /\ u.pc \in {"index", "account"}
        /\ \A k \in Key \ {h.key} : records'[k] = records[k]
        /\ records'[h.key] = h
    <3>1. \/ /\ s.pc = "map" /\ u.pc = "index" /\ u.upserts = s.upserts
             /\ records' = [records EXCEPT ![h.key] = h]
          \/ /\ s.pc = "index" /\ u.pc = "account" /\ u.upserts = s.upserts /\ records' = records
      BY <1>9, UpsertShape
    <3>2. s.pc = "index" => records[h.key] = h BY <1>3 DEF Prepared
    <3> HIDE DEF s, u, h
    <3> QED BY <1>5, <1>6, <3>1, <3>2
  <2> HIDE DEF s, u
  <2>2. Settled(u, records', docs)
    <3> SUFFICES ASSUME NEW k \in Key PROVE Agrees(u, k, records'[k], DocsThen(u.batch, docs)[k], docs)
      BY DEF Settled
    <3>1. Agrees(s, k, records[k], DocsThen(s.batch, docs)[k], docs) BY <1>3 DEF Settled
    <3>2. CASE k = h.key BY <1>4, <1>7, <2>1, <3>1, <3>2 DEF Agrees
    <3>3. CASE k # h.key BY <1>1, <1>4, <2>1, <3>1, <3>3 DEF Agrees, ToLoad
    <3> QED BY <3>2, <3>3
  <2>3. Prepared(u, records', docs)
    <3>1. \A k \in u.dels : ~Waiting(u.upserts, k) /\ DocsThen(u.batch, docs)[k] = None
      BY <1>3, <1>4, <2>1 DEF Prepared
    <3>2. u.op = "warmup" => \A k \in Key : u.snap[k] # None => u.snap[k] = docs[k]
      BY <1>3, <1>4 DEF Prepared
    <3>3. u.log = {} /\ records'[Head(u.upserts).key] = Head(u.upserts) BY <1>3, <1>4, <2>1 DEF Prepared
    <3>4. u.pc \notin Unsent \cup {"scan", "ckpts"} BY <2>1 DEF Unsent
    <3> QED BY <3>1, <3>2, <3>3, <3>4 DEF Prepared, Unsent
  <2> QED BY <1>1, <1>2, <1>4, <1>8, <2>2, <2>3, SettledTo DEF u
<1>10. CASE s.pc = "account"
  <2>1. u.upserts = Tail(s.upserts) /\ records' = records /\ u.pc = AfterUpsert(s.op, u.upserts)
    BY <1>10, UpsertShape
  <2>2. u.pc \in {"map", "unmap", "route", "load", "replay", "enforce"}
    <3> HIDE DEF s, u
    <3> QED BY <2>1 DEF AfterUpsert
  <2> HIDE DEF s, u
  <2>3. /\ \A k \in Key : Waiting(u.upserts, k) => Waiting(s.upserts, k)
        /\ \A k \in Key : \A v : LastIs(s.upserts, k, v) => LastIs(u.upserts, k, v)
        /\ \A k \in Key : Waiting(s.upserts, k) /\ ~Waiting(u.upserts, k) =>
             h.key = k /\ \A v : LastIs(s.upserts, k, v) => h = v
    BY <1>5, <2>1, ListTail
  <2>4. records[h.key] = h BY <1>3, <1>10 DEF Prepared
  <2>5. Settled(u, records, docs)
    <3> SUFFICES ASSUME NEW k \in Key PROVE Agrees(u, k, records[k], DocsThen(u.batch, docs)[k], docs)
      BY DEF Settled
    <3>1. Agrees(s, k, records[k], DocsThen(s.batch, docs)[k], docs) BY <1>3 DEF Settled
    <3>2. CASE Waiting(u.upserts, k) BY <1>4, <2>3, <3>1, <3>2 DEF Agrees
    <3>3. CASE Waiting(s.upserts, k) /\ ~Waiting(u.upserts, k)
      <4>1. h.key = k /\ h = DocsThen(s.batch, docs)[k] BY <2>3, <3>1, <3>3 DEF Agrees
      <4> HIDE DEF h
      <4> QED BY <1>4, <2>4, <3>3, <4>1 DEF Agrees
    <3>4. CASE ~Waiting(s.upserts, k)
      <4>1. ~Waiting(u.upserts, k) BY <2>3, <3>4
      <4>2. ToLoad(s, k, docs) => ToLoad(u, k, docs) BY <1>4, <1>10 DEF ToLoad
      <4> QED BY <1>4, <3>1, <3>4, <4>1, <4>2 DEF Agrees
    <3> QED BY <3>2, <3>3, <3>4
  <2>6. Prepared(u, records, docs)
    <3>1. \A k \in u.dels : ~Waiting(u.upserts, k) /\ DocsThen(u.batch, docs)[k] = None
      BY <1>3, <1>4, <1>5, <2>3 DEF Prepared
    <3>2. u.op = "warmup" => \A k \in Key : u.snap[k] # None => u.snap[k] = docs[k]
      BY <1>3, <1>4 DEF Prepared
    <3>3. u.log = {} BY <1>3, <1>4 DEF Prepared
    <3>4. u.pc \notin Unsent \cup {"scan", "ckpts", "index", "account"} BY <2>2 DEF Unsent
    <3> QED BY <3>1, <3>2, <3>3, <3>4 DEF Prepared, Unsent
  <2> QED BY <1>1, <1>2, <1>4, <1>8, <2>1, <2>5, <2>6, SettledTo DEF u
<1> QED BY <1>1, <1>9, <1>10

\* RemoveRecordFromMemory, and a round of the eviction loop.
LEMMA DropSettles ==
    ASSUME TypeOK, FlowInv, NoGc, OneClient, SettledInv, NEW t \in Thread,
           RemoveMap(t) \/ EvictMap(t) \/ DropAccount(t) \/ DropIndex(t)
    PROVE  SettledInv'
<1> DEFINE s == th[t]
           u == th'[t]
<1>1. /\ s.pc \in {"unmap", "enforce", "sub", "unindex"} /\ th' = [th EXCEPT ![t] = u]
      /\ u.pc \in {"unmap", "enforce", "sub", "unindex"}
  BY DropShape
<1>2. Alone(t) BY <1>1, BusyAlone
<1>3. /\ Settled(s, records, docs) /\ Prepared(s, records, docs)
      /\ StoreWhole(s, docs, events, ckpt, touched, ready)
  BY <1>2, SettledAt
<1>4. /\ UNCHANGED <<docs, events, ckpt, touched, ready>>
      /\ u.op = s.op /\ u.batch = s.batch /\ u.evs = s.evs /\ u.upserts = s.upserts /\ u.log = s.log /\ u.snap = s.snap
  BY DropShape DEF storeVars, procVars
<1>5. /\ events \subseteq Event /\ ckpt \in [Workspace -> EventPos \cup {None}] /\ docs \in [Key -> MaybeRec]
      /\ records \in [Key -> MaybeRec] /\ s.upserts = <<>> /\ s.dels \subseteq Key /\ s.batch = EmptyBatch
      /\ s.op # "warmup" /\ (s.pc = "enforce" => s.dels = {})
  <2>1. t # Main => s.op # "warmup" /\ s.upserts = <<>> /\ s.batch = EmptyBatch /\ (s.pc = "enforce" => s.dels = {})
    BY <1>1, FlowAt DEF ReqFlow
  <2>2. t = Main => s.op # "warmup" /\ s.upserts = <<>> /\ s.batch = EmptyBatch /\ s.dels = {}
    BY <1>1, FlowAt DEF WarmFlow, WarmPC
  <2>3. s.dels \subseteq Key BY FlowAt DEF LocalState
  <2> QED BY <2>1, <2>2, <2>3 DEF TypeOK, SharedOK
<1>6. \A k \in Key : DocsThen(s.batch, docs)[k] = docs[k] /\ ~Waiting(s.upserts, k) BY <1>5, EmptyThen, ListOne
<1>7. StoreWhole(u, docs, events, ckpt, touched, ready) BY <1>3, <1>4, <1>5, WholeStays
<1>8. ASSUME u.dels \subseteq s.dels, Settled(u, records', docs) PROVE SettledInv'
  <2> HIDE DEF s, u
  <2>1. Prepared(u, records', docs)
    <3>1. \A k \in u.dels : ~Waiting(u.upserts, k) /\ DocsThen(u.batch, docs)[k] = None
      BY <1>3, <1>4, <1>8 DEF Prepared
    <3>2. u.log = {} /\ u.op # "warmup" BY <1>3, <1>4, <1>5 DEF Prepared
    <3>3. u.pc \notin Unsent \cup {"scan", "ckpts", "index", "account"} BY <1>1 DEF Unsent
    <3> QED BY <3>1, <3>2, <3>3 DEF Prepared, Unsent
  <2> QED BY <1>1, <1>2, <1>4, <1>7, <1>8, <2>1, SettledTo DEF u
<1>9. \A k \in Key : records[k] = docs[k] \/ (records[k] = None /\ ~Pinning(docs[k])) \/ k \in s.dels
  <2> HIDE DEF s
  <2> QED BY <1>3, <1>5, <1>6 DEF Settled, Agrees, ToLoad
<1>10. ASSUME \A k \in Key : \/ records'[k] = docs[k] \/ (records'[k] = None /\ ~Pinning(docs[k]))
                             \/ k \in u.dels
       PROVE  Settled(u, records', docs)
  <2> HIDE DEF s, u
  <2> QED BY <1>4, <1>6, <1>10 DEF Settled, Agrees
<1>11. CASE RemoveMap(t)
  <2>1. PICK k \in s.dels : /\ u.dels = s.dels \ {k} /\ records'[k] = None
                            /\ \A x \in Key \ {k} : records'[x] = records[x]
    <3>1. s.pc = "unmap" BY <1>11 DEF RemoveMap
    <3>2. \/ records' = records /\ \E k \in s.dels : records[k] = None /\ u.dels = s.dels \ {k}
          \/ \E k \in s.dels : records' = [records EXCEPT ![k] = None] /\ u.dels = s.dels \ {k}
      BY <3>1, DropShape
    <3> HIDE DEF s, u
    <3> QED BY <1>5, <3>2
  <2>2. docs[k] = None BY <1>3, <1>5, <1>6, <2>1 DEF Prepared
  <2> HIDE DEF s, u
  <2>3. Settled(u, records', docs) BY <1>9, <1>10, <2>1, <2>2
  <2> QED BY <1>8, <2>1, <2>3
<1>12. CASE EvictMap(t)
  <2>1. PICK k \in Evictable : records' = [records EXCEPT ![k] = None] BY <1>12 DEF EvictMap
  <2>2. s.pc = "enforce" BY <1>12 DEF EvictMap
  <2>3. u.dels = s.dels BY <2>2, DropShape
  <2>4. k \in Key /\ records[k] # None /\ ~records[k].pinned BY DEF Evictable
  <2> HIDE DEF s, u
  <2>5. docs[k] = records[k] BY <1>5, <1>9, <2>2, <2>4
  <2>6. Settled(u, records', docs) BY <1>5, <1>9, <1>10, <2>1, <2>3, <2>4, <2>5 DEF Pinning
  <2> QED BY <1>8, <2>3, <2>6
<1>13. CASE DropAccount(t) \/ DropIndex(t)
  <2>1. s.pc \in {"sub", "unindex"} BY <1>13 DEF DropAccount, DropIndex
  <2>2. u.dels = s.dels /\ records' = records BY <2>1, DropShape
  <2> HIDE DEF s, u
  <2>3. Settled(u, records', docs) BY <1>9, <1>10, <2>2
  <2> QED BY <1>8, <2>2, <2>3
<1> QED BY <1>11, <1>12, <1>13

\* A start finds all rows, or there are none.
LEMMA ScanComplete ==
    ASSUME TypeOK, WholeBatches, SettledInv, NEW t \in Thread, Alone(t), ~ready
    PROVE  ScanFinds \/ docs = NoRecords
<1>1. StoreWhole(th[t], docs, events, ckpt, touched, ready) /\ touched \subseteq Partition
  BY SettledAt DEF TypeOK, SharedOK
<1>2. CASE CanCrash
  <2>1. touched # {} => touched = Partition BY <1>1, <1>2 DEF WholeBatches, SinglePartition
  <2> QED BY <1>1, <1>2, <2>1 DEF StoreWhole, ScanFinds
<1>3. CASE ~CanCrash BY <1>1, <1>3 DEF StoreWhole
<1> QED BY <1>2, <1>3

\* Warmup and the replay.
LEMMA WarmupSettles ==
    ASSUME TypeOK, FlowInv, RecoveryInv, NoGc, OneClient, WholeBatches, SettledInv, NEW t \in Thread,
           WarmupScan(t) \/ WarmupLoad(t) \/ ReplayCheckpoints(t) \/ ReplayScan(t) \/ ReplayEvent(t)
    PROVE  SettledInv'
<1> DEFINE s == th[t]
           u == th'[t]
<1>1. /\ s.pc \in {"scan", "load", "ckpts", "events", "replay"} /\ th' = [th EXCEPT ![t] = u] /\ t = Main
      /\ u.batch = s.batch /\ u.evs = s.evs /\ u.dels = s.dels
  BY WarmShape
<1>2. Alone(t) /\ ~ready BY <1>1, BusyAlone DEF FlowInv, Turn
<1>3. /\ Settled(s, records, docs) /\ Prepared(s, records, docs)
      /\ StoreWhole(s, docs, events, ckpt, touched, ready)
  BY <1>2, SettledAt
<1>4. UNCHANGED <<records, docs, events, ckpt, touched, ready>> BY WarmShape DEF memVars, storeVars, procVars
<1>5. /\ events \subseteq Event /\ ckpt \in [Workspace -> EventPos \cup {None}] /\ docs \in [Key -> MaybeRec]
      /\ touched \subseteq Partition
      /\ s.upserts = <<>> /\ s.dels = {} /\ s.batch = EmptyBatch /\ Homed(s.snap) /\ s.snap \in [Key -> MaybeRec]
      /\ s.pc \in {"scan", "load", "ckpts"} => s.op = "warmup"
      /\ s.pc \in {"events", "replay"} => s.op = "replay"
  <2>1. s \in LocalState /\ WarmFlow(s) /\ Homed(s.snap) BY <1>1, FlowAt DEF Flow
  <2> QED BY <1>1, <2>1 DEF TypeOK, SharedOK, WarmFlow, LocalState
<1>6. DocsThen(s.batch, docs) = docs /\ \A k \in Key : ~Waiting(s.upserts, k) BY <1>5, EmptyThen, ListOne
<1>7. StoreWhole(u, docs, events, ckpt, touched, ready) BY <1>1, <1>3, <1>4, <1>5, WholeStays
<1>8. ASSUME Settled(u, records, docs), Prepared(u, records, docs) PROVE SettledInv'
  <2> HIDE DEF u
  <2> QED BY <1>1, <1>2, <1>4, <1>7, <1>8, SettledTo DEF u
<1>9. \A k \in Key : \/ records[k] = docs[k]
                     \/ records[k] = None /\ (~Pinning(docs[k]) \/ ToLoad(s, k, docs))
  <2> HIDE DEF s
  <2> QED BY <1>3, <1>5, <1>6 DEF Settled, Agrees
<1>10. ASSUME u.upserts = <<>>,
              \A k \in Key : \/ records[k] = docs[k]
                             \/ records[k] = None /\ (~Pinning(docs[k]) \/ ToLoad(u, k, docs))
       PROVE  Settled(u, records, docs)
  <2> HIDE DEF s, u
  <2> QED BY <1>1, <1>5, <1>6, <1>10, ListOne DEF Settled, Agrees
<1>11. ASSUME u.pc \in {"load", "ckpts", "events", "replay", "map", "enforce"}, u.log = {},
              u.pc = "ckpts" => u.snap = NoRecords,
              u.op = "warmup" => \A k \in Key : u.snap[k] # None => u.snap[k] = docs[k]
       PROVE  Prepared(u, records, docs)
  <2> HIDE DEF s, u
  <2> QED BY <1>1, <1>5, <1>11 DEF Prepared, Unsent
<1>12. s.log = {} BY <1>3 DEF Prepared
<1>13. CASE s.pc = "scan"
  <2>1. /\ u.pc = "load" /\ u.op = s.op /\ u.upserts = s.upserts /\ u.log = s.log
        /\ u.snap = IF ScanFinds THEN docs ELSE NoRecords
    BY <1>13, WarmShape
  <2>2. ScanFinds \/ docs = NoRecords BY <1>2, ScanComplete
  <2>3. u.snap = docs BY <2>1, <2>2
  <2>4. records = NoRecords BY <1>3, <1>13 DEF Prepared
  <2> HIDE DEF s, u
  <2>5. Settled(u, records, docs) BY <1>5, <1>10, <1>13, <2>1, <2>3, <2>4 DEF ToLoad, NoRecords
  <2>6. Prepared(u, records, docs) BY <1>11, <1>12, <2>1, <2>3
  <2> QED BY <1>8, <2>5, <2>6
<1>14. CASE s.pc = "load"
  <2>1. \/ /\ u.pc = "ckpts" /\ u.op = s.op /\ u.log = s.log
           /\ s.snap = NoRecords /\ u.snap = s.snap /\ u.upserts = s.upserts
        \/ /\ u.pc = "map" /\ u.op = s.op /\ u.log = s.log
           /\ \E k \in Key : /\ s.snap[k] \in Rec /\ u.upserts = <<s.snap[k]>>
                             /\ u.snap = [s.snap EXCEPT ![k] = None]
    BY <1>14, WarmShape
  <2> HIDE DEF s, u
  <2>2. \A k \in Key : s.snap[k] # None => s.snap[k] = docs[k] BY <1>3, <1>5, <1>14 DEF Prepared
  <2>3. CASE u.pc = "ckpts"
    <3>1. /\ u.op = s.op /\ u.log = s.log /\ s.snap = NoRecords /\ u.snap = s.snap /\ u.upserts = s.upserts
      BY <2>1, <2>3
    <3>2. Settled(u, records, docs) BY <1>5, <1>9, <1>10, <1>14, <3>1 DEF ToLoad
    <3>3. Prepared(u, records, docs) BY <1>11, <1>12, <2>2, <2>3, <3>1
    <3> QED BY <1>8, <3>2, <3>3
  <2>4. CASE u.pc # "ckpts"
    <3>1. u.pc = "map" /\ u.op = s.op /\ u.log = s.log BY <2>1, <2>4
    <3>2. PICK k \in Key : /\ s.snap[k] \in Rec /\ u.upserts = <<s.snap[k]>>
                           /\ u.snap = [s.snap EXCEPT ![k] = None]
      BY <2>1, <2>4
    <3> DEFINE r == s.snap[k]
    <3>3. r.key = k /\ r = docs[k] BY <1>5, <2>2, <3>2, SentinelAssumption DEF Homed
    <3>4. Waiting(u.upserts, k) /\ LastIs(u.upserts, k, r) /\ \A x \in Key : Waiting(u.upserts, x) => x = k
      BY <3>2, <3>3, ListOne
    <3>5. \A x \in Key \ {k} : u.snap[x] = s.snap[x] BY <1>5, <3>2
    <3>6. u.snap[k] = None BY <1>5, <3>2
    <3> HIDE DEF r
    <3>7. Settled(u, records, docs)
      <4> SUFFICES ASSUME NEW x \in Key PROVE Agrees(u, x, records[x], DocsThen(u.batch, docs)[x], docs)
        BY DEF Settled
      <4>1. DocsThen(u.batch, docs)[x] = docs[x] BY <1>1, <1>6
      <4>2. CASE x = k BY <3>3, <3>4, <4>1, <4>2 DEF Agrees
      <4>3. CASE x # k
        <5>1. ~Waiting(u.upserts, x) BY <3>4, <4>3
        <5>2. ToLoad(s, x, docs) => ToLoad(u, x, docs) BY <1>14, <3>1, <3>5, <4>3 DEF ToLoad
        <5> QED BY <1>9, <4>1, <5>1, <5>2 DEF Agrees
      <4> QED BY <4>2, <4>3
    <3>8. Prepared(u, records, docs) BY <1>11, <1>12, <2>2, <3>1, <3>5, <3>6
    <3> QED BY <1>8, <3>7, <3>8
  <2> QED BY <2>3, <2>4
<1>15. CASE s.pc = "ckpts"
  <2>1. u.pc = "events" /\ u.op = "replay" /\ u.upserts = s.upserts /\ u.log = s.log BY <1>15, WarmShape
  <2>2. s.snap = NoRecords BY <1>3, <1>15 DEF Prepared
  <2>3. \A k \in Key : NoRecords[k] = None BY DEF NoRecords
  <2> HIDE DEF s, u
  <2>4. \A k \in Key : records[k] = docs[k] \/ (records[k] = None /\ ~Pinning(docs[k]))
    BY <1>9, <1>15, <2>2, <2>3 DEF ToLoad
  <2>5. Settled(u, records, docs) BY <1>5, <1>10, <2>1, <2>4
  <2>6. Prepared(u, records, docs) BY <1>11, <1>12, <2>1
  <2> QED BY <1>8, <2>5, <2>6
<1>16. CASE s.pc \in {"events", "replay"}
  <2>1. s.op = "replay" BY <1>5, <1>16
  <2>2. u.op = "replay" /\ u.upserts = <<>> /\ u.log = {} /\ u.pc \in {"replay", "enforce"}
    <3>1. CASE s.pc = "events"
      <4>1. /\ u.pc = "replay" /\ u.op = s.op /\ u.upserts = s.upserts
            /\ u.log = IF ScanFinds THEN BeyondCheckpoint(events, s.ckpts) ELSE {}
        BY <3>1, WarmShape
      <4>2. u.log = {}
        <5>1. CASE ScanFinds
          <6>1. s.ckpts = ckpt BY <1>1, <1>2, <3>1, <5>1 DEF RecoveryInv, Recovering
          <6>2. BeyondCheckpoint(events, ckpt) = {}
            <7>1. CASE CanCrash
              <8>1. \A e \in events : CkptCovers(e, ckpt[e.ws]) BY <1>3, <7>1 DEF StoreWhole
              <8> QED BY <8>1 DEF BeyondCheckpoint, CkptCovers
            <7>2. CASE ~CanCrash
              <8>1. events = {} BY <1>2, <1>3, <7>2 DEF StoreWhole
              <8> QED BY <8>1 DEF BeyondCheckpoint
            <7> QED BY <7>1, <7>2
          <6> QED BY <4>1, <5>1, <6>1, <6>2
        <5>2. CASE ~ScanFinds BY <4>1, <5>2
        <5> QED BY <5>1, <5>2
      <4> QED BY <1>5, <2>1, <4>1, <4>2
    <3>2. CASE s.pc = "replay"
      <4>1. \/ u.pc = "enforce" /\ u.op = s.op /\ u.log = s.log /\ u.upserts = s.upserts
            \/ u.op = s.op /\ \E e \in s.log : TRUE
        BY <3>2, WarmShape
      <4> QED BY <1>5, <1>12, <2>1, <4>1
    <3> QED BY <1>16, <3>1, <3>2
  <2> HIDE DEF s, u
  <2>3. Settled(u, records, docs) BY <1>9, <1>10, <2>1, <2>2 DEF ToLoad
  <2>4. Prepared(u, records, docs) BY <1>11, <2>2
  <2> QED BY <1>8, <2>3, <2>4
<1> QED BY <1>1, <1>13, <1>14, <1>15, <1>16

\* A process that starts has everything to load.
LEMMA FreshSettled ==
    ASSUME NEW stored \in [Key -> MaybeRec]
    PROVE  Settled(FreshThreads[Main], NoRecords, stored) /\ Prepared(FreshThreads[Main], NoRecords, stored)
<1> DEFINE u == FreshThreads[Main]
<1>1. u = [Idle EXCEPT !.pc = "scan", !.op = "warmup"] BY DEF FreshThreads, Thread
<1>2. u.op = "warmup" /\ u.dels = {} BY <1>1 DEF Idle
<1>3. u.upserts = <<>> /\ u.log = {} /\ u.pc = "scan" /\ u.snap = NoRecords BY FreshData
<1> HIDE DEF u
<1>4. Settled(u, NoRecords, stored) BY <1>2, <1>3, ListOne DEF Settled, Agrees, ToLoad, NoRecords
<1>5. Prepared(u, NoRecords, stored) BY <1>2, <1>3 DEF Prepared, Unsent, NoRecords
<1> QED BY <1>4, <1>5 DEF u

\* The first start.
LEMMA InitSettles == Init => SettledInv
<1> SUFFICES ASSUME Init PROVE SettledInv OBVIOUS
<1>1. Main \in Thread /\ Alone(Main) /\ TypeOK BY FreshAlone, InitType DEF Thread, Init
<1>2. docs \in [Key -> MaybeRec] BY <1>1 DEF TypeOK, SharedOK
<1>3. Settled(th[Main], records, docs) /\ Prepared(th[Main], records, docs)
  BY <1>2, FreshSettled DEF Init
<1>4. StoreWhole(th[Main], docs, events, ckpt, touched, ready)
  <2>1. th[Main].evs = {} BY FreshData DEF Init
  <2> QED BY <2>1 DEF Init, StoreWhole
<1> QED BY <1>1, <1>3, <1>4 DEF SettledInv

\* Time passes; the process is restarted.
LEMMA EnvSettles ==
    ASSUME TypeOK, SettledInv, Tick \/ Restart \/ Finished \/ UNCHANGED vars PROVE SettledInv'
<1>0. PICK t \in Thread : /\ Alone(t) /\ Settled(th[t], records, docs) /\ Prepared(th[t], records, docs)
                          /\ StoreWhole(th[t], docs, events, ckpt, touched, ready)
  BY DEF SettledInv
<1>1. CASE Restart
  <2>1. /\ th' = FreshThreads /\ records' = NoRecords /\ UNCHANGED <<docs, events, ckpt, touched>>
        /\ CanCrash
    BY <1>1 DEF Restart, storeVars
  <2>2. Main \in Thread /\ Alone(Main)' BY <2>1 DEF Alone, FreshThreads, Thread
  <2>3. /\ docs \in [Key -> MaybeRec] /\ events \subseteq Event
        /\ ckpt \in [Workspace -> EventPos \cup {None}]
    BY DEF TypeOK, SharedOK
  <2>4. Settled(th'[Main], records', docs') /\ Prepared(th'[Main], records', docs')
    BY <2>1, <2>3, FreshSettled
  <2>5. StoreWhole(th'[Main], docs', events', ckpt', touched', ready')
    <3>1. StoreWhole(th[t], docs, events, ckpt, touched, ready') BY <1>0, <2>1 DEF StoreWhole
    <3>2. th'[Main].batch = EmptyBatch /\ th'[Main].evs = {} BY <2>1, FreshData
    <3> QED BY <2>1, <2>3, <3>1, <3>2, WholeStays
  <2>6. Settled(th[Main], records, docs)' BY <2>4 DEF Settled, Agrees, ToLoad
  <2>7. Prepared(th[Main], records, docs)' BY <2>4 DEF Prepared, Resting
  <2>8. StoreWhole(th[Main], docs, events, ckpt, touched, ready)' BY <2>5 DEF StoreWhole
  <2> QED BY <2>2, <2>6, <2>7, <2>8 DEF SettledInv
<1>2. CASE Tick \/ Finished \/ UNCHANGED vars
  <2>1. UNCHANGED <<records, docs, events, ckpt, touched, ready, th>>
    BY <1>2 DEF Tick, Finished, vars, memVars, storeVars, procVars
  <2>2. Alone(t)' BY <1>0, <2>1 DEF Alone
  <2>3. Settled(th[t], records, docs)' BY <1>0, <2>1 DEF Settled, Agrees, ToLoad
  <2>4. Prepared(th[t], records, docs)' BY <1>0, <2>1 DEF Prepared, Resting
  <2>5. StoreWhole(th[t], docs, events, ckpt, touched, ready)' BY <1>0, <2>1 DEF StoreWhole
  <2> QED BY <2>2, <2>3, <2>4, <2>5 DEF SettledInv
<1> QED BY <1>1, <1>2

\* Every step keeps memory and store in agreement.
LEMMA NextSettles ==
    NoGc /\ OneClient /\ WholeBatches /\ TypeOK /\ FlowInv /\ LogInv /\ RecoveryInv /\ SettledInv /\ [Next]_vars
    => SettledInv'
<1> SUFFICES ASSUME NoGc, OneClient, WholeBatches, TypeOK, FlowInv, LogInv, RecoveryInv, SettledInv, [Next]_vars
             PROVE  SettledInv'
  OBVIOUS
<1>1. ASSUME NEW t \in Thread, WriteStart(t) \/ PinStart(t) \/ CompactStart(t) \/ Step(t) PROVE SettledInv'
  BY <1>1, StartSettles, AppendSettles, QuietSettles, CommitSettles, FailSettles, UpsertSettles, DropSettles,
     DoneSettles, WarmupSettles DEF Step
<1> QED BY <1>1, EnvSettles DEF Next

\* With one handler thread, no background compaction and batches that are stored as
\* a whole or not at all, the resident copy of a record is the stored one and the
\* retriever has it exactly if it is no tombstone, whenever no request is under way.
THEOREM StateStaysOne == ASSUME NoGc, OneClient, WholeBatches PROVE Spec => []OneLogicalState
<1>1. Init => RecoveryInv /\ AlignInv /\ SettledInv BY InitRecovers, InitAligns, InitSettles
<1>2. TypeOK /\ FlowInv /\ LogInv /\ RecoveryInv /\ AlignInv /\ SettledInv /\ [Next]_vars
      => RecoveryInv' /\ AlignInv' /\ SettledInv'
  BY NextRecovers, NextAligns, NextSettles
<1>3. TypeOK /\ FlowInv /\ AlignInv /\ SettledInv => OneLogicalState
  <2> SUFFICES ASSUME TypeOK, FlowInv, AlignInv, SettledInv, Quiescent, NEW k \in Key, records[k] # None
               PROVE  records[k] = docs[k] /\ index[k] = IF records[k].tomb THEN None ELSE records[k]
    BY DEF OneLogicalState
  <2>1. \A t \in Thread : th[t] = Idle BY DEF Quiescent, FlowInv, Flow
  <2>2. Settled(Idle, records, docs) /\ Aligned(Idle, records, index) BY <2>1 DEF SettledInv, AlignInv
  <2>3. Resting(records, docs) BY <2>2, RestSettles, IdleData DEF TypeOK, SharedOK
  <2>4. index[k] = Shown(records[k]) BY <2>2, IdleData DEF Aligned, Behind
  <2> QED BY <2>3, <2>4 DEF Resting, Shown
<1> QED BY <1>1, <1>2, <1>3, TypeCorrect, FlowInvariant, LogInvariant, PTL DEF Spec

-----------------------------------------------------------------------------
(* The pin quota *)

\* Pinned records of a list.
LEMMA ListPins ==
    /\ \A k : ~Listed(<<>>, k)
    /\ \A r, k : Listed(<<r>>, k) <=> r.key = k /\ Pinning(r)
    /\ \A q \in Seq(Rec), r \in Rec : \A k : Listed(Append(q, r), k) => Listed(q, k) \/ (r.key = k /\ Pinning(r))
    /\ \A q \in Seq(Rec) : q # <<>> =>
         /\ \A k : Listed(Tail(q), k) => Listed(q, k)
         /\ Pinning(Head(q)) => Listed(q, Head(q).key)
<1>1. Len(<<>>) = 0 /\ \A r : Len(<<r>>) = 1 /\ <<r>>[1] = r OBVIOUS
<1>2. 1..0 = {} /\ 1 \in 1..1 /\ \A i \in 1..1 : i = 1 OBVIOUS
<1>3. ASSUME NEW q \in Seq(Rec), NEW r \in Rec, NEW k, Listed(Append(q, r), k)
      PROVE  Listed(q, k) \/ (r.key = k /\ Pinning(r))
  <2> DEFINE n == Len(q)
             p == Append(q, r)
  <2>1. n \in Nat /\ Len(p) = n + 1 /\ p[n + 1] = r /\ \A i \in 1..n : p[i] = q[i] OBVIOUS
  <2> HIDE DEF p, n
  <2>2. PICK i \in 1..(n + 1) : p[i].key = k /\ Pinning(p[i]) BY <1>3, <2>1 DEF Listed, p
  <2>3. i \in 1..n \/ i = n + 1 BY <2>1
  <2> QED BY <2>1, <2>2, <2>3 DEF Listed, n
<1>4. ASSUME NEW q \in Seq(Rec), q # <<>>
      PROVE  (\A k : Listed(Tail(q), k) => Listed(q, k)) /\ (Pinning(Head(q)) => Listed(q, Head(q).key))
  <2> DEFINE n == Len(q)
             w == Tail(q)
  <2>1. /\ n \in Nat /\ n >= 1 /\ Len(w) = n - 1 /\ Head(q) = q[1] /\ \A i \in 1..(n - 1) : w[i] = q[i + 1]
    BY <1>4
  <2> HIDE DEF w, n
  <2>2. 1 \in 1..n /\ \A i \in 1..(n - 1) : i + 1 \in 1..n BY <2>1
  <2>3. \A k : Listed(w, k) => Listed(q, k) BY <2>1, <2>2 DEF Listed, n
  <2>4. Pinning(Head(q)) => Listed(q, Head(q).key) BY <2>1, <2>2 DEF Listed, n
  <2> QED BY <2>3, <2>4 DEF w
<1>5. /\ \A k : ~Listed(<<>>, k)
      /\ \A r, k : Listed(<<r>>, k) <=> r.key = k /\ Pinning(r)
  BY <1>1, <1>2 DEF Listed
<1> QED BY <1>3, <1>4, <1>5

\* The keys that count for the quota are finitely many.
LEMMA PinsFinite ==
    ASSUME NEW S \in SUBSET Key
    PROVE  /\ IsFiniteSet(S) /\ Cardinality(S) \in Nat
           /\ \A T \in SUBSET S : Cardinality(T) <= Cardinality(S)
           /\ \A k \in Key : \A T \in SUBSET (S \cup {k}) : Cardinality(T) <= Cardinality(S) + 1
<1>1. IsFiniteSet(S) BY KeyAssumption, FS_Subset
<1>2. Cardinality(S) \in Nat BY <1>1, FS_CardinalityType
<1>3. \A T \in SUBSET S : Cardinality(T) <= Cardinality(S) BY <1>1, FS_Subset
<1>4. ASSUME NEW k \in Key, NEW T \in SUBSET (S \cup {k}) PROVE Cardinality(T) <= Cardinality(S) + 1
  <2> DEFINE U == S \cup {k}
  <2>1. IsFiniteSet(U) /\ (Cardinality(U) = Cardinality(S) \/ Cardinality(U) = Cardinality(S) + 1)
    BY <1>1, FS_AddElement
  <2>2. Cardinality(T) <= Cardinality(U) /\ Cardinality(T) \in Nat BY <2>1, FS_Subset, FS_CardinalityType
  <2> HIDE DEF U
  <2> QED BY <1>2, <2>1, <2>2
<1> QED BY <1>1, <1>2, <1>3, <1>4

\* The invariant, of the thread at hand.
LEMMA PinAt ==
    ASSUME PinInv, NEW t \in Thread, Alone(t) PROVE Counted(th[t], records, docs)
<1>1. PICK x \in Thread : Alone(x) /\ Counted(th[x], records, docs) BY DEF PinInv
<1>2. th[x] = th[t] BY <1>1 DEF Alone
<1> QED BY <1>1, <1>2

\* To establish the invariant, of the thread at hand.
LEMMA PinTo ==
    ASSUME TypeOK, NEW t \in Thread, th' = [th EXCEPT ![t] = th'[t]], Alone(t),
           Counted(th'[t], records', docs')
    PROVE  PinInv'
<1>1. Alone(t)' BY StaysAlone
<1>2. Counted(th[t], records, docs)' BY DEF Counted, MayPin, MayHold
<1> QED BY <1>1, <1>2 DEF PinInv

\* A step after which no other key may hold a pinned record.
LEMMA PinStays ==
    ASSUME NEW s, NEW u, NEW recs, NEW recs2, NEW stored, NEW stored2, Counted(s, recs, stored),
           \A k \in Key : MayHold(u, recs2, stored2, k) => MayHold(s, recs, stored, k),
           u.op = "write" /\ u.pc = "build" =>
             s.op = "write" /\ s.pc = "build" /\ u.pinned = s.pinned /\ u.scope = s.scope,
           s.scope \subseteq Workspace, s.pinned \in Nat
    PROVE  Counted(u, recs2, stored2)
<1>1. \A w \in Workspace : Cardinality(MayPin(u, recs2, stored2, w)) <= Cardinality(MayPin(s, recs, stored, w))
      /\ Cardinality(MayPin(u, recs2, stored2, w)) \in Nat /\ Cardinality(MayPin(s, recs, stored, w)) \in Nat
  <2> SUFFICES ASSUME NEW w \in Workspace
               PROVE  /\ Cardinality(MayPin(u, recs2, stored2, w)) <= Cardinality(MayPin(s, recs, stored, w))
                      /\ Cardinality(MayPin(u, recs2, stored2, w)) \in Nat
                      /\ Cardinality(MayPin(s, recs, stored, w)) \in Nat
    OBVIOUS
  <2>1. /\ MayPin(u, recs2, stored2, w) \in SUBSET MayPin(s, recs, stored, w)
        /\ MayPin(s, recs, stored, w) \in SUBSET Key /\ MayPin(u, recs2, stored2, w) \in SUBSET Key
    BY DEF MayPin
  <2> QED BY <2>1, PinsFinite
<1>2. \A w \in Workspace : Cardinality(MayPin(u, recs2, stored2, w)) <= PinQuota
  BY <1>1, PinAssumption DEF Counted
<1>3. ASSUME u.op = "write", u.pc = "build"
      PROVE  u.pinned <= PinQuota /\ \A w \in u.scope : Cardinality(MayPin(u, recs2, stored2, w)) <= u.pinned
  <2>1. u.pinned = s.pinned /\ u.scope = s.scope /\ s.op = "write" /\ s.pc = "build" BY <1>3
  <2>2. s.pinned <= PinQuota /\ \A w \in s.scope : Cardinality(MayPin(s, recs, stored, w)) <= s.pinned
    BY <2>1 DEF Counted
  <2> QED BY <1>1, <2>1, <2>2
<1> QED BY <1>2, <1>3 DEF Counted

\* At rest the keys that count are those of the resident pinned records.
LEMMA PinRest ==
    ASSUME NEW s, NEW recs, NEW stored \in [Key -> MaybeRec], Resting(recs, stored),
           s.upserts = <<>>, s.batch = EmptyBatch
    PROVE  /\ \A w : MayPin(s, recs, stored, w) = PinnedKeys(recs, w)
           /\ \A k \in Key : MayHold(s, recs, stored, k) <=> Pinning(recs[k])
<1>1. \A k \in Key : DocsThen(s.batch, stored)[k] = stored[k]
  BY DEF DocsThen, EmptyBatch, NoRecords
<1>2. \A k \in Key : MayHold(s, recs, stored, k) <=> Pinning(recs[k])
  BY <1>1, ListPins DEF MayHold, Resting, Pinning
<1> QED BY <1>2 DEF MayPin, PinnedKeys, ActiveKeys, Pinning

\* A request that starts counts the pinned records.
LEMMA StartPins ==
    ASSUME TypeOK, FlowInv, NoGc, OneClient, SettledInv, PinInv, NEW t \in Thread,
           WriteStart(t) \/ PinStart(t) \/ CompactStart(t)
    PROVE  PinInv'
<1> DEFINE u == th'[t]
<1>1. ready /\ t \in Client /\ Alone(t) BY StartFlow, BusyAlone
<1>2. th[t] = Idle BY StartShape DEF FlowInv, Flow
<1>3. Settled(Idle, records, docs) /\ Counted(Idle, records, docs) BY <1>1, <1>2, SettledAt, PinAt
<1>4. UNCHANGED <<records, docs>> /\ th' = [th EXCEPT ![t] = u] /\ u.upserts = <<>> /\ u.batch = EmptyBatch
  BY StartShape DEF memVars, storeVars
<1>5. docs \in [Key -> MaybeRec] BY DEF TypeOK, SharedOK
<1>6. Resting(records, docs) BY <1>3, <1>5, RestSettles, IdleData
<1>7. u.op = "write" => \E w \in Workspace : u.scope = {w} /\ u.pinned = Cardinality(PinnedKeys(records, w))
  BY StartFacts
<1> HIDE DEF u
<1>8. \A w \in Workspace : MayPin(u, records, docs, w) = PinnedKeys(records, w) BY <1>4, <1>5, <1>6, PinRest
<1>9. \A w \in Workspace : MayPin(Idle, records, docs, w) = PinnedKeys(records, w)
  BY <1>5, <1>6, PinRest, IdleData
<1>10. \A w \in Workspace : Cardinality(PinnedKeys(records, w)) <= PinQuota BY <1>3, <1>9 DEF Counted
<1>11. ASSUME u.op = "write"
       PROVE  u.pinned <= PinQuota /\ \A w \in u.scope : Cardinality(MayPin(u, records, docs, w)) <= u.pinned
  <2>1. PICK w \in Workspace : u.scope = {w} /\ u.pinned = Cardinality(PinnedKeys(records, w)) BY <1>7, <1>11
  <2>2. Cardinality(PinnedKeys(records, w)) \in Nat
    <3>1. PinnedKeys(records, w) \in SUBSET Key BY DEF PinnedKeys, ActiveKeys
    <3> QED BY <3>1, PinsFinite
  <2> QED BY <1>8, <1>10, <2>1, <2>2
<1>12. Counted(u, records, docs) BY <1>8, <1>10, <1>11 DEF Counted
<1> QED BY <1>1, <1>4, <1>12, PinTo DEF u

\* A record that is to be stored and applied may be pinned; the deletion of a
\* tombstone pins nothing.
LEMMA UpsertHolds ==
    ASSUME NEW s \in LocalState, NEW u, NEW recs, NEW stored \in [Key -> MaybeRec],
           NEW k \in Key, NEW r \in Rec, NEW e \in Event, r.key = k,
           u.upserts = Append(s.upserts, r), u.batch = AppendRows(s.batch, k, r, e)
    PROVE  \A x \in Key : MayHold(u, recs, stored, x) => MayHold(s, recs, stored, x) \/ (x = k /\ Pinning(r))
<1>0. s.upserts \in Seq(Rec) /\ s.batch \in Batch BY DEF LocalState
<1>1. \A x \in Key : DocsThen(u.batch, stored)[x] = IF x = k THEN r ELSE DocsThen(s.batch, stored)[x]
  BY <1>0, RowsThen
<1>2. \A x \in Key : Listed(u.upserts, x) => Listed(s.upserts, x) \/ (x = k /\ Pinning(r)) BY <1>0, ListPins
<1> QED BY <1>1, <1>2 DEF MayHold

LEMMA DeleteHolds ==
    ASSUME NEW s \in LocalState, NEW u, NEW recs, NEW stored \in [Key -> MaybeRec],
           NEW k \in Key, NEW e \in Event,
           u.upserts = s.upserts, u.batch = AppendRows(s.batch, k, Gone, e)
    PROVE  \A x \in Key : MayHold(u, recs, stored, x) => MayHold(s, recs, stored, x)
<1>0. s.batch \in Batch BY DEF LocalState
<1>1. \A x \in Key : DocsThen(u.batch, stored)[x] = IF x = k THEN None ELSE DocsThen(s.batch, stored)[x]
  BY <1>0, RowsThen
<1> QED BY <1>1 DEF MayHold, Pinning

\* A Write adds a record whose pin it has counted.
LEMMA WritePins ==
    ASSUME TypeOK, FlowInv, NoGc, OneClient, PinInv, NEW t \in Thread, WriteRecord(t)
    PROVE  PinInv'
<1> DEFINE s == th[t]
           u == th'[t]
<1>1. s.pc # "idle" /\ th' = [th EXCEPT ![t] = u] /\ t # Main BY AppendShape DEF OnlyLocal
<1>2. Alone(t) BY <1>1, BusyAlone
<1>3. UNCHANGED <<records, docs>> BY AppendShape DEF OnlyLocal, memVars, storeVars
<1>4. Counted(s, records, docs) BY <1>2, PinAt
<1>5. /\ docs \in [Key -> MaybeRec] /\ s \in LocalState /\ s.upserts \in Seq(Rec)
      /\ s.pinned \in Nat /\ s.scope \subseteq Workspace
  BY FlowAt DEF TypeOK, SharedOK, LocalState
<1>6. s.op = "write" /\ s.pc = "build" /\ u.op = "write" /\ u.scope = s.scope BY WriteFacts, WriteShape
<1>7. PICK r \in Rec : /\ u.upserts = Append(s.upserts, r) /\ WsOf[r.key] \in s.scope
                       /\ IF r.pinned THEN s.pinned + 1 <= PinQuota /\ u.pinned = s.pinned + 1
                          ELSE u.pinned = s.pinned
  BY WriteFacts
<1>8. PICK k \in Key, r2 \in Rec, e \in Event :
        /\ r2.key = k /\ u.upserts = Append(s.upserts, r2) /\ u.batch = AppendRows(s.batch, k, r2, e)
  BY WriteShape
<1> HIDE DEF s, u
<1>9. r2 = r BY <1>5, <1>7, <1>8, AppendSame
<1>10. \A x \in Key : MayHold(u, records, docs, x) => MayHold(s, records, docs, x) \/ (x = k /\ Pinning(r))
  <2>1. r.key = k /\ u.upserts = Append(s.upserts, r) /\ u.batch = AppendRows(s.batch, k, r, e) BY <1>8, <1>9
  <2>2. s \in LocalState /\ docs \in [Key -> MaybeRec] BY <1>5
  <2> QED BY <2>1, <2>2, UpsertHolds
<1>11. CASE ~r.pinned
  <2>1. \A x \in Key : MayHold(u, records, docs, x) => MayHold(s, records, docs, x)
    BY <1>10, <1>11 DEF Pinning
  <2>2. Counted(u, records, docs) BY <1>4, <1>5, <1>6, <1>7, <1>11, <2>1, PinStays
  <2> QED BY <1>1, <1>2, <1>3, <2>2, PinTo DEF u
<1>12. CASE r.pinned
  <2>1. s.pinned + 1 <= PinQuota /\ u.pinned = s.pinned + 1 BY <1>7, <1>12
  <2>2. ASSUME NEW w \in Workspace
        PROVE  /\ Cardinality(MayPin(u, records, docs, w)) <= PinQuota
               /\ w \in s.scope => Cardinality(MayPin(u, records, docs, w)) <= u.pinned
    <3> DEFINE A == MayPin(s, records, docs, w)
               B == MayPin(u, records, docs, w)
    <3>1. A \in SUBSET Key /\ B \in SUBSET Key BY DEF MayPin
    <3>2. Cardinality(A) \in Nat /\ Cardinality(B) \in Nat BY <3>1, PinsFinite
    <3>3. CASE w \in s.scope
      <4>1. B \in SUBSET (A \cup {k}) BY <1>10 DEF MayPin
      <4>2. Cardinality(B) <= Cardinality(A) + 1 BY <3>1, <4>1, PinsFinite
      <4>3. Cardinality(A) <= s.pinned BY <1>4, <1>6, <3>3 DEF Counted
      <4> HIDE DEF A, B
      <4>4. Cardinality(B) <= PinQuota /\ Cardinality(B) <= u.pinned
        BY <1>5, <2>1, <3>2, <4>2, <4>3, PinAssumption
      <4> QED BY <4>4 DEF B
    <3>4. CASE w \notin s.scope
      <4>1. WsOf[k] # w BY <1>7, <1>8, <1>9, <3>4
      <4>2. B \in SUBSET A BY <1>10, <4>1 DEF MayPin
      <4>3. Cardinality(B) <= Cardinality(A) BY <3>1, <4>2, PinsFinite
      <4>4. Cardinality(A) <= PinQuota BY <1>4 DEF Counted
      <4> HIDE DEF A, B
      <4>5. Cardinality(B) <= PinQuota BY <3>2, <4>3, <4>4, PinAssumption
      <4> QED BY <3>4, <4>5 DEF B
    <3> QED BY <3>3, <3>4
  <2>3. u.pinned <= PinQuota BY <2>1
  <2>4. Counted(u, records, docs) BY <1>5, <1>6, <2>2, <2>3 DEF Counted
  <2> QED BY <1>1, <1>2, <1>3, <2>4, PinTo DEF u
<1> QED BY <1>11, <1>12

\* A Pin stores a record whose pin the quota allows.
LEMMA PinPins ==
    ASSUME TypeOK, FlowInv, NoGc, OneClient, SettledInv, PinInv, NEW t \in Thread, PinCheck(t)
    PROVE  PinInv'
<1> DEFINE s == th[t]
           u == th'[t]
<1>1. s.pc = "check" /\ th' = [th EXCEPT ![t] = u] /\ t # Main BY AppendShape, PinShape DEF OnlyLocal
<1>2. Alone(t) BY <1>1, BusyAlone
<1>3. UNCHANGED <<records, docs>> BY AppendShape DEF OnlyLocal, memVars, storeVars
<1>4. Counted(s, records, docs) /\ Settled(s, records, docs) /\ Prepared(s, records, docs)
  BY <1>2, PinAt, SettledAt
<1>5. /\ docs \in [Key -> MaybeRec] /\ s \in LocalState
      /\ s.pinned \in Nat /\ s.scope \subseteq Workspace /\ ReqFlow(s) /\ Homed(s.snap)
  BY <1>1, FlowAt DEF TypeOK, SharedOK, LocalState, Flow
<1>6. s.upserts = <<>> /\ s.batch = EmptyBatch /\ s.dels = {} /\ s.op # "warmup"
  BY <1>1, <1>4, <1>5 DEF ReqFlow, Prepared
<1>7. Resting(records, docs) BY <1>4, <1>5, <1>6, RestSettles
<1>8. CASE u = Idle
  <2>1. \A k \in Key : MayHold(Idle, records, docs, k) => MayHold(s, records, docs, k)
    BY <1>5, <1>6, <1>7, PinRest, IdleData
  <2>2. Counted(Idle, records, docs) BY <1>4, <1>5, <2>1, PinStays, IdleData
  <2> QED BY <1>1, <1>2, <1>3, <1>8, <2>2, PinTo
<1>9. CASE u # Idle
  <2>1. ~PinRefused(s) BY <1>9, PinFacts
  <2>2. PICK r \in Rec : /\ u.upserts = <<r>> /\ r.pinned = s.flag
                         /\ r.tomb = s.snap[s.key].tomb /\ r.key = s.snap[s.key].key /\ s.key \in Key
    BY <1>9, PinFacts
  <2>3. PICK k \in Key, r2 \in Rec, e \in Event :
          /\ s.snap[k] \in Rec /\ r2.key = s.snap[k].key /\ u.pc = "commit" /\ u.op = s.op
          /\ u.upserts = <<r2>> /\ u.batch = AppendRows(s.batch, k, r2, e)
    BY <1>9, PinShape
  <2>4. r2 = r BY <2>2, <2>3
  <2>5. r.key = k BY <1>5, <2>3, <2>4 DEF Homed
  <2>6. s.key = k /\ s.snap[k] = docs[k]
    <3>1. s.snap[s.key] = docs[s.key] BY <1>1, <1>4 DEF Prepared
    <3>2. s.key = k
      <4>1. s.snap[s.key] \in Rec BY <1>1, FlowAt DEF LocalOK
      <4>2. s.snap[s.key].key = s.key BY <1>5, <2>2, <4>1 DEF Homed
      <4> QED BY <2>2, <2>5, <4>2
    <3> QED BY <3>1, <3>2
  <2>7. u.upserts = Append(s.upserts, r) BY <1>6, <2>2
  <2> HIDE DEF s, u
  <2>8. \A x \in Key : MayHold(u, records, docs, x) => MayHold(s, records, docs, x) \/ (x = k /\ Pinning(r))
    <3>1. r.key = k /\ u.upserts = Append(s.upserts, r) /\ u.batch = AppendRows(s.batch, k, r, e)
      BY <2>3, <2>4, <2>5, <2>7
    <3>2. s \in LocalState /\ docs \in [Key -> MaybeRec] BY <1>5
    <3> QED BY <3>1, <3>2, UpsertHolds
  <2>9. CASE Pinning(r) => Pinning(docs[k])
    <3>1. \A x \in Key : MayHold(u, records, docs, x) => MayHold(s, records, docs, x)
      BY <2>8, <2>9 DEF MayHold
    <3>2. Counted(u, records, docs) BY <1>4, <1>5, <2>3, <3>1, PinStays
    <3> QED BY <1>1, <1>2, <1>3, <3>2, PinTo DEF u
  <2>10. CASE Pinning(r) /\ ~Pinning(docs[k])
    <3>1. s.flag /\ ~s.snap[s.key].pinned
      BY <2>2, <2>3, <2>6, <2>10, SentinelAssumption DEF Pinning
    <3>2. ~(Cardinality(PinnedKeys(records, WsOf[k])) + 1 > PinQuota)
      BY <2>1, <2>6, <3>1 DEF PinRefused, PinBlocked
    <3>3. ASSUME NEW w \in Workspace PROVE Cardinality(MayPin(u, records, docs, w)) <= PinQuota
      <4> DEFINE A == MayPin(s, records, docs, w)
                 B == MayPin(u, records, docs, w)
      <4>1. A \in SUBSET Key /\ B \in SUBSET Key BY DEF MayPin
      <4>2. Cardinality(A) \in Nat /\ Cardinality(B) \in Nat BY <4>1, PinsFinite
      <4>3. CASE WsOf[k] = w
        <5>1. B \in SUBSET (A \cup {k}) BY <2>8 DEF MayPin
        <5>2. Cardinality(B) <= Cardinality(A) + 1 BY <4>1, <5>1, PinsFinite
        <5>3. A = PinnedKeys(records, WsOf[k]) BY <1>5, <1>6, <1>7, <4>3, PinRest
        <5> HIDE DEF A, B
        <5>4. Cardinality(B) <= PinQuota BY <3>2, <4>2, <5>2, <5>3, PinAssumption
        <5> QED BY <5>4 DEF B
      <4>4. CASE WsOf[k] # w
        <5>1. B \in SUBSET A BY <2>8, <4>4 DEF MayPin
        <5>2. Cardinality(B) <= Cardinality(A) BY <4>1, <5>1, PinsFinite
        <5>3. Cardinality(A) <= PinQuota BY <1>4 DEF Counted
        <5> HIDE DEF A, B
        <5>4. Cardinality(B) <= PinQuota BY <4>2, <5>2, <5>3, PinAssumption
        <5> QED BY <5>4 DEF B
      <4> QED BY <4>3, <4>4
    <3>4. Counted(u, records, docs) BY <2>3, <3>3 DEF Counted
    <3> QED BY <1>1, <1>2, <1>3, <3>4, PinTo DEF u
  <2> QED BY <2>9, <2>10
<1> QED BY <1>8, <1>9

\* A step of the busy thread after which no other key may hold a pinned record.
LEMMA StepPins ==
    ASSUME TypeOK, FlowInv, PinInv, NEW t \in Thread, Alone(t), th' = [th EXCEPT ![t] = th'[t]],
           \A k \in Key : MayHold(th'[t], records', docs', k) => MayHold(th[t], records, docs, k),
           th'[t].op = "write" /\ th'[t].pc = "build" =>
             /\ th[t].op = "write" /\ th[t].pc = "build"
             /\ th'[t].pinned = th[t].pinned /\ th'[t].scope = th[t].scope
    PROVE  PinInv'
<1>1. Counted(th[t], records, docs) BY PinAt
<1>2. th[t].scope \subseteq Workspace /\ th[t].pinned \in Nat BY FlowAt DEF LocalState
<1>3. Counted(th'[t], records', docs') BY <1>1, <1>2, PinStays
<1> QED BY <1>3, PinTo

\* A compaction pins nothing.
LEMMA CompactPins ==
    ASSUME TypeOK, FlowInv, NoGc, OneClient, PinInv, NEW t \in Thread, CompactTomb(t) \/ CompactDelete(t)
    PROVE  PinInv'
<1> DEFINE s == th[t]
           u == th'[t]
<1>1. s.pc # "idle" /\ th' = [th EXCEPT ![t] = u] /\ t # Main BY AppendShape DEF OnlyLocal
<1>2. Alone(t) BY <1>1, BusyAlone
<1>3. UNCHANGED <<records, docs>> BY AppendShape DEF OnlyLocal, memVars, storeVars
<1>4. /\ docs \in [Key -> MaybeRec] /\ s \in LocalState /\ s.upserts \in Seq(Rec) /\ Homed(s.snap)
  BY FlowAt DEF TypeOK, SharedOK, LocalState, Flow
<1>5. CASE CompactTomb(t)
  <2>1. PICK k \in Key, r \in Rec, e \in Event :
          /\ s.snap[k] \in Rec /\ r.key = s.snap[k].key /\ u.op = s.op
          /\ u.upserts = Append(s.upserts, r) /\ u.batch = AppendRows(s.batch, k, r, e)
    BY <1>5, TombShape, ZenonT(60)
  <2>2. s.op = "compact" BY <1>5, TombFacts
  <2>3. PICK r2 \in Rec : u.upserts = Append(s.upserts, r2) /\ r2.tomb BY <1>5, TombFacts
  <2> HIDE DEF s, u
  <2>4. r.tomb BY <1>4, <2>1, <2>3, AppendSame
  <2>5. r.key = k BY <1>4, <2>1 DEF Homed
  <2>6. \A x \in Key : MayHold(u, records, docs, x) => MayHold(s, records, docs, x) \/ (x = k /\ Pinning(r))
    <3>1. u.upserts = Append(s.upserts, r) /\ u.batch = AppendRows(s.batch, k, r, e) BY <2>1
    <3>2. s \in LocalState /\ docs \in [Key -> MaybeRec] BY <1>4
    <3> QED BY <2>5, <3>1, <3>2, UpsertHolds
  <2>7. \A x \in Key : MayHold(u, records', docs', x) => MayHold(s, records, docs, x)
    BY <1>3, <2>4, <2>6 DEF Pinning
  <2>8. u.op # "write" BY <2>1, <2>2
  <2> QED BY <1>1, <1>2, <2>7, <2>8, StepPins DEF s, u
<1>6. CASE CompactDelete(t)
  <2>1. PICK k \in Key, e \in Event :
          /\ s.op = "compact" /\ u.op = s.op
          /\ u.upserts = s.upserts /\ u.batch = AppendRows(s.batch, k, Gone, e)
    BY <1>6, ReclaimShape
  <2> HIDE DEF s, u
  <2>2. \A x \in Key : MayHold(u, records, docs, x) => MayHold(s, records, docs, x)
    BY <1>4, <2>1, DeleteHolds
  <2>3. \A x \in Key : MayHold(u, records', docs', x) => MayHold(s, records, docs, x) BY <1>3, <2>2
  <2>4. u.op # "write" BY <2>1
  <2> QED BY <1>1, <1>2, <2>3, <2>4, StepPins DEF s, u
<1> QED BY <1>5, <1>6

\* A step of a request that only moves it on.
LEMMA QuietPins ==
    ASSUME TypeOK, FlowInv, NoGc, OneClient, PinInv, NEW t \in Thread,
           WriteDedup(t) \/ WriteBuilt(t) \/ PinGet(t) \/ CompactBuilt(t) \/ WriteRoute(t)
    PROVE  PinInv'
<1> DEFINE s == th[t]
           u == th'[t]
<1>1. s.pc # "idle" /\ th' = [th EXCEPT ![t] = u] /\ t # Main BY QuietShape
<1>2. Alone(t) BY <1>1, BusyAlone
<1>3. UNCHANGED <<records, docs>> BY QuietShape DEF memVars
<1>4. docs \in [Key -> MaybeRec] BY DEF TypeOK, SharedOK
<1>5. CASE u = Idle
  <2>1. Idle.op # "write" BY IdleData
  <2>2. \A k \in Key : MayHold(Idle, records, docs, k) => MayHold(s, records, docs, k)
    <3>1. \A k \in Key : DocsThen(Idle.batch, docs)[k] = docs[k] /\ ~Listed(Idle.upserts, k)
      BY <1>4, IdleData, EmptyThen, ListPins DEF DocsThen, EmptyBatch, NoRecords
    <3> QED BY <3>1 DEF MayHold
  <2> QED BY <1>1, <1>2, <1>3, <1>5, <2>1, <2>2, StepPins
<1>6. CASE u # Idle
  <2>1. Same(s, u) BY <1>6, QuietShape
  <2>2. u.pc = "build" => s.op = "write" /\ u.scope = s.scope /\ u.pinned = s.pinned BY <1>6, QuietFacts
  <2>3. u.pc = "build" => s.pc = "build" BY <1>6, QuietShape
  <2> HIDE DEF s, u
  <2>4. \A k \in Key : MayHold(u, records', docs', k) => MayHold(s, records, docs, k)
    BY <1>3, <2>1 DEF MayHold, Same
  <2> QED BY <1>1, <1>2, <2>2, <2>3, <2>4, StepPins DEF s, u
<1> QED BY <1>5, <1>6

\* A batch is committed or fails.
LEMMA BatchPins ==
    ASSUME TypeOK, FlowInv, LogInv, NoGc, OneClient, PinInv, NEW t \in Thread,
           BatchWrite(t) \/ BatchWriteFail(t)
    PROVE  PinInv'
<1> DEFINE s == th[t]
           u == th'[t]
<1>1. s.pc = "commit" /\ th' = [th EXCEPT ![t] = u] /\ t # Main BY CommitShape, FailShape
<1>2. Alone(t) /\ records' = records BY <1>1, BusyAlone, CommitShape, FailShape DEF memVars
<1>3. docs \in [Key -> MaybeRec] BY DEF TypeOK, SharedOK
<1>4. CASE BatchWrite(t)
  <2>1. /\ \A k \in Key : /\ DocsThen(u.batch, docs')[k] = DocsThen(s.batch, docs)[k]
                          /\ docs'[k] = docs[k] \/ docs'[k] = DocsThen(s.batch, docs)[k]
        /\ u.pc # "build"
    BY <1>4, CommitFacts
  <2>2. u.upserts = s.upserts BY <1>4, CommitShape
  <2> HIDE DEF s, u
  <2>3. \A k \in Key : MayHold(u, records', docs', k) => MayHold(s, records, docs, k)
    BY <1>2, <2>1, <2>2 DEF MayHold
  <2> QED BY <1>1, <1>2, <2>1, <2>3, StepPins DEF s, u
<1>5. CASE BatchWriteFail(t)
  <2>1. docs' = docs /\ u.upserts = <<>> /\ u.batch = EmptyBatch /\ u.op # "write"
    BY <1>5, FailShape, IdleData DEF storeVars
  <2> HIDE DEF s, u
  <2>2. \A k \in Key : DocsThen(u.batch, docs)[k] = docs[k] /\ ~Listed(u.upserts, k)
    BY <1>3, <2>1, ListPins DEF DocsThen, EmptyBatch, NoRecords
  <2>3. \A k \in Key : MayHold(u, records', docs', k) => MayHold(s, records, docs, k)
    BY <1>2, <2>1, <2>2 DEF MayHold
  <2> QED BY <1>1, <1>2, <2>1, <2>3, StepPins DEF s, u
<1> QED BY <1>4, <1>5

\* Records are applied, removed and evicted; a request ends.
LEMMA ApplyPins ==
    ASSUME TypeOK, FlowInv, NoGc, OneClient, PinInv, NEW t \in Thread,
           \/ UpsertMap(t) \/ UpsertIndex(t) \/ UpsertAccount(t)
           \/ RemoveMap(t) \/ EvictMap(t) \/ DropAccount(t) \/ DropIndex(t)
           \/ CompactReport(t) \/ EnforceDone(t)
    PROVE  PinInv'
<1> DEFINE s == th[t]
           u == th'[t]
           h == Head(s.upserts)
<1>1. s.pc # "idle" /\ th' = [th EXCEPT ![t] = u] /\ docs' = docs
  BY UpsertShape, DropShape, DoneShape DEF storeVars
<1>2. Alone(t) BY <1>1, BusyAlone
<1>3. docs \in [Key -> MaybeRec] /\ records \in [Key -> MaybeRec] BY DEF TypeOK, SharedOK
<1>4. CASE UpsertMap(t) \/ UpsertIndex(t) \/ UpsertAccount(t)
  <2>1. /\ s.upserts \in Seq(Rec) /\ s.upserts # <<>> /\ u.batch = s.batch
        /\ u.upserts = s.upserts \/ u.upserts = Tail(s.upserts)
        /\ records' = records \/ records' = [records EXCEPT ![h.key] = h]
    BY <1>4, UpsertShape, Zenon
  <2>5. u.pc # "build"
    <3> DEFINE q == Tail(s.upserts)
               c == AfterUpsert(s.op, q)
    <3>1. c # "build"
      <4> HIDE DEF q, s
      <4> QED BY DEF AfterUpsert
    <3> HIDE DEF c
    <3>2. u.pc = "index" \/ u.pc = "account" \/ u.pc = c BY <1>4, UpsertShape, Zenon DEF c
    <3> QED BY <3>1, <3>2
  <2> HIDE DEF s, u
  <2>2. \A k \in Key : Listed(u.upserts, k) => Listed(s.upserts, k)
    <3>1. \A k : Listed(Tail(s.upserts), k) => Listed(s.upserts, k) BY <2>1, ListPins
    <3> QED BY <2>1, <3>1
  <2>3. \A k \in Key : Pinning(records'[k]) => Pinning(records[k]) \/ Listed(s.upserts, k)
    <3>1. Pinning(h) => Listed(s.upserts, h.key) BY <2>1, ListPins
    <3> HIDE DEF h
    <3> QED BY <1>3, <2>1, <3>1
  <2>4. \A k \in Key : MayHold(u, records', docs', k) => MayHold(s, records, docs, k)
    BY <1>1, <2>1, <2>2, <2>3 DEF MayHold
  <2> QED BY <1>1, <1>2, <2>4, <2>5, StepPins DEF s, u
<1>5. CASE RemoveMap(t) \/ EvictMap(t) \/ DropAccount(t) \/ DropIndex(t)
  <2>1. u.batch = s.batch /\ u.upserts = s.upserts /\ u.pc # "build" BY <1>5, DropShape
  <2>2. records' = records \/ \E k \in Key : records' = [records EXCEPT ![k] = None]
    <3>1. s.dels \subseteq Key BY FlowAt DEF LocalState
    <3> QED BY <1>5, <3>1, DropShape
  <2> HIDE DEF s, u
  <2>3. \A k \in Key : Pinning(records'[k]) => Pinning(records[k]) BY <1>3, <2>2 DEF Pinning
  <2>4. \A k \in Key : MayHold(u, records', docs', k) => MayHold(s, records, docs, k)
    BY <1>1, <2>1, <2>3 DEF MayHold
  <2> QED BY <1>1, <1>2, <2>1, <2>4, StepPins DEF s, u
<1>6. CASE CompactReport(t) \/ EnforceDone(t)
  <2>1. u.batch = s.batch /\ u.upserts = s.upserts /\ u.pc # "build" /\ records' = records
    BY <1>6, DoneShape, IdleData DEF memVars
  <2> HIDE DEF s, u
  <2>2. \A k \in Key : MayHold(u, records', docs', k) => MayHold(s, records, docs, k)
    BY <1>1, <2>1 DEF MayHold
  <2> QED BY <1>1, <1>2, <2>1, <2>2, StepPins DEF s, u
<1> QED BY <1>4, <1>5, <1>6

\* Warmup applies what is stored; nothing is left to replay.
LEMMA WarmupPins ==
    ASSUME TypeOK, FlowInv, NoGc, OneClient, SettledInv, PinInv, NEW t \in Thread,
           WarmupScan(t) \/ WarmupLoad(t) \/ ReplayCheckpoints(t) \/ ReplayScan(t) \/ ReplayEvent(t)
    PROVE  PinInv'
<1> DEFINE s == th[t]
           u == th'[t]
<1>1. /\ s.pc \in {"scan", "load", "ckpts", "events", "replay"} /\ th' = [th EXCEPT ![t] = u] /\ t = Main
      /\ u.batch = s.batch /\ UNCHANGED <<records, docs>>
  BY WarmShape DEF memVars, storeVars
<1>2. Alone(t) BY <1>1, BusyAlone
<1>3. Prepared(s, records, docs) BY <1>2, SettledAt
<1>4. Homed(s.snap) /\ (s.pc = "load" => s.op = "warmup") BY <1>1, FlowAt DEF Flow, WarmFlow
<1>5. /\ u.pc # "build"
      /\ u.upserts = s.upserts \/ \E k \in Key : s.pc = "load" /\ s.snap[k] \in Rec /\ u.upserts = <<s.snap[k]>>
  <2>1. s.log = {} BY <1>3 DEF Prepared
  <2> QED BY <2>1, WarmShape
<1> HIDE DEF s, u
<1>6. ASSUME NEW x \in Key, Listed(u.upserts, x) PROVE Listed(s.upserts, x) \/ Pinning(docs[x])
  <2>1. CASE u.upserts = s.upserts BY <1>6, <2>1
  <2>2. CASE u.upserts # s.upserts
    <3>1. PICK k \in Key : s.pc = "load" /\ s.snap[k] \in Rec /\ u.upserts = <<s.snap[k]>> BY <1>5, <2>2
    <3>2. s.snap[k].key = k /\ s.snap[k] = docs[k]
      BY <1>3, <1>4, <3>1, SentinelAssumption DEF Homed, Prepared
    <3> QED BY <1>6, <3>1, <3>2, ListPins
  <2> QED BY <2>1, <2>2
<1>7. \A k \in Key : MayHold(u, records', docs', k) => MayHold(s, records, docs, k)
  BY <1>1, <1>6 DEF MayHold
<1> QED BY <1>1, <1>2, <1>5, <1>7, StepPins DEF s, u

\* The first start; time passes; the process is restarted.
LEMMA InitPins == Init => PinInv
<1> SUFFICES ASSUME Init PROVE PinInv OBVIOUS
<1>1. Main \in Thread /\ Alone(Main) BY FreshAlone DEF Thread, Init
<1>2. /\ th[Main].upserts = <<>> /\ th[Main].batch = EmptyBatch /\ th[Main].pc = "scan"
      /\ records = NoRecords /\ docs = NoRecords
  BY FreshData DEF Init
<1>3. \A k \in Key : NoRecords[k] = None BY DEF NoRecords
<1>4. Resting(records, docs) /\ docs \in [Key -> MaybeRec] BY <1>2 DEF Resting, NoRecords, MaybeRec
<1>5. \A w \in Workspace : MayPin(th[Main], records, docs, w) = {}
  <2>1. \A k \in Key : ~Pinning(records[k]) BY <1>2, <1>3 DEF Pinning
  <2>2. \A k \in Key : ~MayHold(th[Main], records, docs, k) BY <1>2, <1>4, <2>1, PinRest
  <2> QED BY <2>2 DEF MayPin
<1>6. Cardinality({}) = 0 BY FS_EmptySet
<1>7. \A w \in Workspace : Cardinality(MayPin(th[Main], records, docs, w)) <= PinQuota
  BY <1>5, <1>6, PinAssumption
<1> QED BY <1>1, <1>2, <1>7 DEF PinInv, Counted

LEMMA EnvPins ==
    ASSUME TypeOK, PinInv, Tick \/ Restart \/ Finished \/ UNCHANGED vars PROVE PinInv'
<1>0. PICK t \in Thread : Alone(t) /\ Counted(th[t], records, docs) BY DEF PinInv
<1>1. CASE Restart
  <2>1. th' = FreshThreads /\ records' = NoRecords /\ docs' = docs BY <1>1 DEF Restart, storeVars
  <2>2. Main \in Thread /\ Alone(Main)' BY <2>1 DEF Alone, FreshThreads, Thread
  <2>3. docs \in [Key -> MaybeRec] /\ th[t].scope \subseteq Workspace /\ th[t].pinned \in Nat
    BY DEF TypeOK, SharedOK, ThreadsOK, LocalState
  <2>4. th'[Main].upserts = <<>> /\ th'[Main].batch = EmptyBatch /\ th'[Main].pc = "scan"
    BY <2>1, FreshData
  <2>5. \A k \in Key : /\ ~Pinning(NoRecords[k]) /\ ~Listed(<<>>, k)
                       /\ DocsThen(EmptyBatch, docs)[k] = docs[k]
    BY <2>3, ListPins DEF NoRecords, Pinning, DocsThen, EmptyBatch
  <2>6. \A k \in Key : MayHold(th'[Main], records', docs', k) => MayHold(th[t], records, docs, k)
    BY <2>1, <2>4, <2>5 DEF MayHold
  <2>7. Counted(th'[Main], records', docs') BY <1>0, <2>3, <2>4, <2>6, PinStays
  <2>8. Counted(th[Main], records, docs)' BY <2>7 DEF Counted, MayPin, MayHold
  <2> QED BY <2>2, <2>8 DEF PinInv
<1>2. CASE Tick \/ Finished \/ UNCHANGED vars
  <2>1. UNCHANGED <<records, docs, th>>
    BY <1>2 DEF Tick, Finished, vars, memVars, storeVars
  <2>2. Alone(t)' BY <1>0, <2>1 DEF Alone
  <2>3. Counted(th[t], records, docs)' BY <1>0, <2>1 DEF Counted, MayPin, MayHold
  <2> QED BY <2>2, <2>3 DEF PinInv
<1> QED BY <1>1, <1>2

\* Every step keeps the keys that may hold a pinned record within the quota.
LEMMA NextPins ==
    NoGc /\ OneClient /\ TypeOK /\ FlowInv /\ LogInv /\ SettledInv /\ PinInv /\ [Next]_vars => PinInv'
<1> SUFFICES ASSUME NoGc, OneClient, TypeOK, FlowInv, LogInv, SettledInv, PinInv, [Next]_vars PROVE PinInv'
  OBVIOUS
<1>1. ASSUME NEW t \in Thread, WriteStart(t) \/ PinStart(t) \/ CompactStart(t) \/ Step(t) PROVE PinInv'
  BY <1>1, StartPins, WritePins, PinPins, CompactPins, QuietPins, BatchPins, ApplyPins, WarmupPins DEF Step
<1> QED BY <1>1, EnvPins DEF Next

\* With one handler thread, no background compaction and batches that are stored as
\* a whole or not at all, the workspaces stay within pin_quota_per_workspace: Write
\* and Pin count the resident records only, and a pinned record is never evicted.
THEOREM PinQuotaKept == ASSUME NoGc, OneClient, WholeBatches PROVE Spec => []PinQuotaHolds
<1>1. Init => RecoveryInv /\ SettledInv /\ PinInv BY InitRecovers, InitSettles, InitPins
<1>2. TypeOK /\ FlowInv /\ LogInv /\ RecoveryInv /\ SettledInv /\ PinInv /\ [Next]_vars
      => RecoveryInv' /\ SettledInv' /\ PinInv'
  BY NextRecovers, NextSettles, NextPins
<1>3. PinInv => PinQuotaHolds
  <2> SUFFICES ASSUME PinInv, NEW w \in Workspace PROVE Cardinality(PinnedKeys(records, w)) <= PinQuota
    BY DEF PinQuotaHolds
  <2>1. PICK t \in Thread : Counted(th[t], records, docs) BY DEF PinInv
  <2> DEFINE A == PinnedKeys(records, w)
             B == MayPin(th[t], records, docs, w)
  <2>2. A \in SUBSET B /\ B \in SUBSET Key /\ A \in SUBSET Key
    BY DEF PinnedKeys, ActiveKeys, MayPin, MayHold, Pinning
  <2>3. Cardinality(A) <= Cardinality(B) /\ Cardinality(A) \in Nat /\ Cardinality(B) \in Nat BY <2>2, PinsFinite
  <2>4. Cardinality(B) <= PinQuota BY <2>1 DEF Counted
  <2> HIDE DEF A, B
  <2>5. Cardinality(A) <= PinQuota BY <2>3, <2>4, PinAssumption
  <2> QED BY <2>5 DEF A
<1> QED BY <1>1, <1>2, <1>3, TypeCorrect, FlowInvariant, LogInvariant, PTL DEF Spec

-----------------------------------------------------------------------------
(* The dedup keys *)

\* Clients write one record at a time, in upsert mode.
WritesOne == MaxBatch = 1 /\ AppendModes = {FALSE}

\* Rows with fewer dedup keys than rows that have different ones.
LEMMA DistinctLess ==
    ASSUME NEW f, NEW g, Distinct(f),
           \A k \in Key : g[k] = None \/ (f[k] # None /\ g[k].dedup = f[k].dedup)
    PROVE  Distinct(g)
BY DEF Distinct

\* A dedup key that is taken stays so when one is added to the map.
LEMMA ClaimedMore ==
    ASSUME NEW idx \in [Slot -> Key \cup {None}], NEW h \in Rec, NEW idx2,
           idx2 = IF h.dedup = NoDedup THEN idx ELSE [idx EXCEPT ![<<WsOf[h.key], h.dedup>>] = h.key]
    PROVE  Claimed(h, idx2) /\ \A v \in MaybeRec : Claimed(v, idx) => Claimed(v, idx2)
<1>1. CASE h.dedup = NoDedup BY <1>1 DEF Claimed
<1>2. CASE h.dedup # NoDedup
  <2> DEFINE x == <<WsOf[h.key], h.dedup>>
  <2>1. h.key \in Key /\ x \in Slot BY <1>2, KeyAssumption DEF Slot, Rec
  <2>2. h.key # None BY <2>1, SentinelAssumption
  <2>3. idx2[x] = h.key /\ \A y \in Slot \ {x} : idx2[y] = idx[y]
    <3>1. idx2 = [idx EXCEPT ![x] = h.key] BY <1>2
    <3> HIDE DEF x
    <3> QED BY <2>1, <3>1
  <2>4. Claimed(h, idx2) BY <2>2, <2>3 DEF Claimed
  <2> HIDE DEF x
  <2>5. ASSUME NEW v \in MaybeRec, Claimed(v, idx) PROVE Claimed(v, idx2)
    <3>1. CASE v = None \/ v.dedup = NoDedup BY <3>1 DEF Claimed
    <3>2. CASE v # None /\ v.dedup # NoDedup
      <4> DEFINE y == <<WsOf[v.key], v.dedup>>
      <4>1. y \in Slot BY <3>2, KeyAssumption DEF Slot, Rec, MaybeRec
      <4>2. idx[y] # None BY <2>5, <3>2 DEF Claimed
      <4> HIDE DEF y
      <4>3. idx2[y] # None BY <2>2, <2>3, <4>1, <4>2
      <4> QED BY <4>3 DEF Claimed, y
    <3> QED BY <3>1, <3>2
  <2> QED BY <2>4, <2>5
<1> QED BY <1>1, <1>2

\* A dedup key that is taken stays so when another one is removed from the map.
LEMMA ClaimedLess ==
    ASSUME dedup_index \in [Slot -> Key \cup {None}], NEW k \in Key, records[k] \in Rec,
           dedup_index' = IF records[k].dedup = NoDedup THEN dedup_index
                          ELSE [dedup_index EXCEPT ![<<WsOf[k], records[k].dedup>>] = None]
    PROVE  \A v \in MaybeRec :
             (/\ Claimed(v, dedup_index)
              /\ v = None \/ v.dedup = NoDedup \/ WsOf[v.key] # WsOf[k] \/ v.dedup # records[k].dedup)
             => Claimed(v, dedup_index')
<1> SUFFICES ASSUME NEW v \in MaybeRec, Claimed(v, dedup_index),
                    v = None \/ v.dedup = NoDedup \/ WsOf[v.key] # WsOf[k] \/ v.dedup # records[k].dedup
             PROVE  Claimed(v, dedup_index')
  OBVIOUS
<1> DEFINE r == records[k]
<1>1. CASE v = None \/ v.dedup = NoDedup \/ r.dedup = NoDedup BY <1>1 DEF Claimed
<1>2. CASE v # None /\ v.dedup # NoDedup /\ r.dedup # NoDedup
  <2> DEFINE x == <<WsOf[k], r.dedup>>
             y == <<WsOf[v.key], v.dedup>>
  <2>1. x \in Slot /\ y \in Slot BY <1>2, KeyAssumption DEF Slot, Rec, MaybeRec
  <2>2. x # y BY <1>2
  <2>3. dedup_index' = [dedup_index EXCEPT ![x] = None] /\ dedup_index[y] # None BY <1>2 DEF Claimed
  <2> HIDE DEF x, y
  <2>4. dedup_index'[y] # None BY <2>1, <2>2, <2>3
  <2> QED BY <2>4 DEF Claimed, y
<1> QED BY <1>1, <1>2

\* The rows to come are stored under their own keys.
LEMMA RowsHomed ==
    ASSUME TypeOK, FlowInv, NEW t \in Thread
    PROVE  DocsThen(th[t].batch, docs) \in [Key -> MaybeRec] /\ Homed(DocsThen(th[t].batch, docs))
<1>1. /\ Homed(docs) /\ Homed(th[t].batch.doc) /\ docs \in [Key -> MaybeRec]
      /\ th[t].batch.doc \in [Key -> MaybeRec \cup {Gone}]
  BY FlowAt DEF TypeOK, SharedOK, Flow, FlowInv, LocalState, Batch
<1>2. Gone \notin Rec /\ None \notin Rec BY SentinelAssumption
<1>3. DocsThen(th[t].batch, docs) \in [Key -> MaybeRec] BY <1>1 DEF DocsThen, MaybeRec
<1>4. Homed(DocsThen(th[t].batch, docs)) BY <1>1, <1>2 DEF DocsThen, Homed
<1> QED BY <1>3, <1>4

\* The invariant, of the thread at hand.
LEMMA ClaimAt ==
    ASSUME ClaimInv, NEW t \in Thread, Alone(t) PROVE Claims(th[t], records, docs, dedup_index)
<1>1. PICK x \in Thread : Alone(x) /\ Claims(th[x], records, docs, dedup_index) BY DEF ClaimInv
<1>2. th[x] = th[t] BY <1>1 DEF Alone
<1> QED BY <1>1, <1>2

\* To establish the invariant, of the thread at hand.
LEMMA ClaimTo ==
    ASSUME TypeOK, NEW t \in Thread, th' = [th EXCEPT ![t] = th'[t]], Alone(t),
           Claims(th'[t], records', docs', dedup_index')
    PROVE  ClaimInv'
<1>1. Alone(t)' BY StaysAlone
<1>2. Claims(th[t], records, docs, dedup_index)' BY DEF Claims, RowsAndDels, ToLoad, Claimed
<1> QED BY <1>1, <1>2 DEF ClaimInv

\* A thread that has nothing to write or to apply.
LEMMA RestClaims ==
    ASSUME NEW u, NEW recs, NEW stored \in [Key -> MaybeRec], NEW idx,
           u.upserts = <<>>, u.dels = {}, u.batch = EmptyBatch, u.pc \notin {"index", "account"},
           u.op = "write" /\ u.pc = "build" => ~u.flag
    PROVE  /\ \A k \in Key : RowsAndDels(u, recs, stored)[k] = stored[k]
           /\ (Distinct(stored) /\ \A k \in Key : Claimed(stored[k], idx)) => Claims(u, recs, stored, idx)
<1>1. \A k \in Key : DocsThen(u.batch, stored)[k] = stored[k] BY DEF DocsThen, EmptyBatch, NoRecords
<1>2. \A k \in Key : RowsAndDels(u, recs, stored)[k] = stored[k] BY <1>1 DEF RowsAndDels
<1>3. ASSUME Distinct(stored), \A k \in Key : Claimed(stored[k], idx) PROVE Claims(u, recs, stored, idx)
  <2>1. Distinct(RowsAndDels(u, recs, stored))
    <3> DEFINE f == RowsAndDels(u, recs, stored)
    <3> HIDE DEF f
    <3>1. \A k \in Key : f[k] = None \/ (stored[k] # None /\ f[k].dedup = stored[k].dedup) BY <1>2 DEF f
    <3> QED BY <1>3, <3>1, DistinctLess DEF f
  <2> QED BY <1>1, <1>3, <2>1 DEF Claims
<1> QED BY <1>2, <1>3

\* What the rows of a thread at rest are.
LEMMA AtRestClaims ==
    ASSUME NEW s, NEW recs, NEW stored \in [Key -> MaybeRec], NEW idx, Claims(s, recs, stored, idx),
           s.upserts = <<>>, s.dels = {}, s.batch = EmptyBatch, s.op # "warmup"
    PROVE  Distinct(stored) /\ \A k \in Key : Claimed(stored[k], idx)
<1>1. \A k \in Key : DocsThen(s.batch, stored)[k] = stored[k] BY DEF DocsThen, EmptyBatch, NoRecords
<1>2. \A k \in Key : RowsAndDels(s, recs, stored)[k] = stored[k] BY <1>1 DEF RowsAndDels
<1>3. Distinct(stored)
  <2> DEFINE f == RowsAndDels(s, recs, stored)
  <2>1. Distinct(f) BY DEF Claims
  <2> HIDE DEF f
  <2>2. \A k \in Key : stored[k] = None \/ (f[k] # None /\ stored[k].dedup = f[k].dedup) BY <1>2 DEF f
  <2> QED BY <2>1, <2>2, DistinctLess
<1>4. \A k \in Key : Claimed(stored[k], idx)
  <2>1. \A k \in Key : ~Waiting(s.upserts, k) BY ListOne
  <2> QED BY <1>1, <2>1 DEF Claims, ToLoad
<1> QED BY <1>3, <1>4

\* A request that starts.
LEMMA StartClaims ==
    ASSUME TypeOK, FlowInv, NoGc, OneClient, WritesOne, ClaimInv, NEW t \in Thread,
           WriteStart(t) \/ PinStart(t) \/ CompactStart(t)
    PROVE  ClaimInv'
<1> DEFINE u == th'[t]
<1>1. ready /\ t \in Client /\ Alone(t) BY StartFlow, BusyAlone
<1>2. th[t] = Idle BY StartShape DEF FlowInv, Flow
<1>3. Claims(Idle, records, docs, dedup_index) BY <1>1, <1>2, ClaimAt
<1>4. UNCHANGED <<records, docs, dedup_index>> BY StartShape DEF memVars, storeVars
<1>5. docs \in [Key -> MaybeRec] BY DEF TypeOK, SharedOK
<1>6. /\ u.pc \in {"build", "get", "check"} /\ u.upserts = <<>> /\ u.batch = EmptyBatch /\ u.dels = {}
      /\ th' = [th EXCEPT ![t] = u]
  BY StartShape
<1>7. u.op = "write" => ~u.flag
  <2>1. u.op = "write" => u.flag \in AppendModes BY StartFacts
  <2> HIDE DEF u
  <2> QED BY <2>1 DEF WritesOne
<1> HIDE DEF u
<1>8. Distinct(docs) /\ \A k \in Key : Claimed(docs[k], dedup_index) BY <1>3, <1>5, AtRestClaims, IdleData
<1>9. Claims(u, records, docs, dedup_index) BY <1>5, <1>6, <1>7, <1>8, RestClaims
<1> QED BY <1>1, <1>4, <1>6, <1>9, ClaimTo DEF u

\* The rows once a record is appended.
LEMMA RowsAppended ==
    ASSUME NEW s \in LocalState, NEW u, NEW recs, NEW stored \in [Key -> MaybeRec],
           NEW k \in Key, NEW r \in Rec, NEW e \in Event,
           u.batch = AppendRows(s.batch, k, r, e), u.dels = s.dels, k \notin s.dels
    PROVE  \A x \in Key : RowsAndDels(u, recs, stored)[x] = IF x = k THEN r ELSE RowsAndDels(s, recs, stored)[x]
<1>0. s.batch \in Batch BY DEF LocalState
<1>1. \A x \in Key : DocsThen(u.batch, stored)[x] = IF x = k THEN r ELSE DocsThen(s.batch, stored)[x]
  BY <1>0, RowsThen
<1> QED BY <1>1 DEF RowsAndDels

\* A record that is to be stored and applied is appended.
LEMMA UpsertClaimed ==
    ASSUME NEW s \in LocalState, NEW u, NEW recs, NEW stored \in [Key -> MaybeRec], NEW idx,
           NEW k \in Key, NEW r \in Rec, NEW e \in Event, r.key = k,
           u.upserts = Append(s.upserts, r), u.batch = AppendRows(s.batch, k, r, e),
           s.op # "warmup", s.pc \in Unsent, u.pc \in {"build", "commit"},
           u.op = "write" /\ u.pc = "build" => ~u.flag /\ u.n # 0,
           Claims(s, recs, stored, idx), Distinct(RowsAndDels(u, recs, stored))
    PROVE  Claims(u, recs, stored, idx)
<1>0. s.upserts \in Seq(Rec) /\ s.batch \in Batch BY DEF LocalState
<1>1. \A x \in Key : Waiting(u.upserts, x) <=> (Waiting(s.upserts, x) \/ x = k) BY <1>0, ListAppend
<1>2. \A x \in Key : DocsThen(u.batch, stored)[x] = IF x = k THEN r ELSE DocsThen(s.batch, stored)[x]
  BY <1>0, RowsThen
<1>3. \A x \in Key : Claimed(DocsThen(u.batch, stored)[x], idx) \/ Waiting(u.upserts, x)
  BY <1>1, <1>2 DEF Claims, ToLoad
<1>4. StoreCanFail => \A x \in Key : Claimed(stored[x], idx) BY DEF Claims
<1> QED BY <1>3, <1>4 DEF Claims

\* A Write adds a record whose dedup key was free.
LEMMA WriteClaims ==
    ASSUME TypeOK, FlowInv, NoGc, OneClient, WritesOne, ClaimInv, NEW t \in Thread, WriteRecord(t)
    PROVE  ClaimInv'
<1> DEFINE s == th[t]
           u == th'[t]
           R == DocsThen(s.batch, docs)
           f == RowsAndDels(s, records, docs)
           g == RowsAndDels(u, records, docs)
<1>1. s.pc # "idle" /\ th' = [th EXCEPT ![t] = u] /\ t # Main BY AppendShape DEF OnlyLocal
<1>2. Alone(t) BY <1>1, BusyAlone
<1>3. UNCHANGED <<records, docs, dedup_index>> BY AppendShape DEF OnlyLocal, memVars, storeVars
<1>4. Claims(s, records, docs, dedup_index) BY <1>2, ClaimAt
<1>5. /\ docs \in [Key -> MaybeRec] /\ s \in LocalState /\ s.upserts \in Seq(Rec) /\ s.n \in Nat /\ ReqFlow(s)
  BY <1>1, FlowAt DEF TypeOK, SharedOK, LocalState
<1>6. /\ s.op = "write" /\ s.n < MaxBatch /\ u.n = s.n + 1 /\ u.flag = s.flag
  BY WriteFacts
<1>7. PICK r \in Rec : u.upserts = Append(s.upserts, r) /\ ~DedupHit(s, r.key, r.dedup)
  BY WriteFacts
<1>8. PICK k \in Key, r2 \in Rec, e \in Event :
        /\ r2.key = k /\ u.upserts = Append(s.upserts, r2) /\ u.batch = AppendRows(s.batch, k, r2, e)
        /\ s.pc = "build" /\ u.pc = "build" /\ u.op = s.op /\ u.dels = s.dels
  BY WriteShape
<1>9. R \in [Key -> MaybeRec] /\ Homed(R) BY RowsHomed
<1> HIDE DEF s, u
<1>10. r2 = r BY <1>5, <1>7, <1>8, AppendSame
<1>11. s.n = 0 /\ u.n # 0 /\ s.upserts = <<>> /\ ~s.flag /\ s.dels = {}
  <2>1. s.n = 0 /\ u.n = 1 BY <1>5, <1>6 DEF WritesOne
  <2> QED BY <1>4, <1>5, <1>6, <1>8, <2>1 DEF Claims, ReqFlow
<1>12. \A x \in Key : Claimed(R[x], dedup_index)
  <2>1. \A x \in Key : ~Waiting(s.upserts, x) BY <1>11, ListOne
  <2> QED BY <1>4, <1>6, <2>1 DEF Claims, ToLoad
<1>13. \A x \in Key : g[x] = IF x = k THEN r ELSE R[x]
  <2>1. \A x \in Key : g[x] = IF x = k THEN r ELSE f[x]
    <3>1. u.batch = AppendRows(s.batch, k, r, e) /\ u.dels = s.dels /\ k \notin s.dels BY <1>8, <1>10, <1>11
    <3>2. s \in LocalState /\ docs \in [Key -> MaybeRec] BY <1>5
    <3> QED BY <3>1, <3>2, RowsAppended
  <2>2. \A x \in Key : f[x] = R[x] BY <1>11 DEF RowsAndDels
  <2> QED BY <2>1, <2>2
<1>14. r.key = k /\ (r.dedup = NoDedup \/ dedup_index[<<WsOf[k], r.dedup>>] = None)
  BY <1>7, <1>8, <1>10, <1>11 DEF DedupHit
<1>15. \A x \in Key : R[x] # None /\ R[x].dedup # NoDedup => dedup_index[<<WsOf[x], R[x].dedup>>] # None
  <2> SUFFICES ASSUME NEW x \in Key, R[x] # None, R[x].dedup # NoDedup
               PROVE  dedup_index[<<WsOf[x], R[x].dedup>>] # None
    OBVIOUS
  <2>1. R[x].key = x BY <1>9 DEF Homed, MaybeRec
  <2>2. dedup_index[<<WsOf[R[x].key], R[x].dedup>>] # None BY <1>12 DEF Claimed
  <2> QED BY <2>1, <2>2
<1>16. Distinct(R)
  <2>1. \A x \in Key : f[x] = R[x] BY <1>11 DEF RowsAndDels
  <2>2. Distinct(f) BY <1>4 DEF Claims
  <2> HIDE DEF f, R
  <2> QED BY <2>1, <2>2, DistinctLess
<1>17. Distinct(g)
  <2> HIDE DEF g, R
  <2> SUFFICES ASSUME NEW x \in Key, NEW y \in Key, g[x] # None, g[y] # None, WsOf[x] = WsOf[y],
                      g[x].dedup # NoDedup, g[x].dedup = g[y].dedup, x # y
               PROVE  FALSE
    BY DEF Distinct
  <2>1. CASE x # k /\ y # k BY <1>13, <1>16, <2>1 DEF Distinct
  <2>2. CASE x = k
    <3>1. g[x] = r /\ g[y] = R[y] BY <1>13, <2>2
    <3> QED BY <1>14, <1>15, <2>2, <3>1
  <2>3. CASE y = k
    <3>1. g[y] = r /\ g[x] = R[x] BY <1>13, <2>3
    <3> QED BY <1>14, <1>15, <2>3, <3>1
  <2> QED BY <2>1, <2>2, <2>3
<1>18. Claims(u, records, docs, dedup_index)
  <2>1. /\ r.key = k /\ u.upserts = Append(s.upserts, r) /\ u.batch = AppendRows(s.batch, k, r, e)
        /\ s.op # "warmup" /\ s.pc \in Unsent /\ u.pc \in {"build", "commit"} /\ ~u.flag /\ u.n # 0
    BY <1>6, <1>8, <1>10, <1>11 DEF Unsent
  <2>2. s \in LocalState /\ docs \in [Key -> MaybeRec] BY <1>5
  <2>3. Distinct(RowsAndDels(u, records, docs)) BY <1>17
  <2> HIDE DEF f, g, R
  <2> QED BY <1>4, <2>1, <2>2, <2>3, UpsertClaimed
<1> QED BY <1>1, <1>2, <1>3, <1>18, ClaimTo DEF u

\* A Pin, or the making of a tombstone, keeps the dedup key.
LEMMA KeepsClaims ==
    ASSUME TypeOK, FlowInv, NEW t \in Thread, Alone(t), th' = [th EXCEPT ![t] = th'[t]],
           UNCHANGED <<records, docs, dedup_index>>, ClaimInv,
           NEW k \in Key, NEW r \in Rec, NEW e \in Event, r.key = k, k \notin th[t].dels,
           th'[t].upserts = Append(th[t].upserts, r), th'[t].batch = AppendRows(th[t].batch, k, r, e),
           th'[t].dels = th[t].dels, th[t].op # "warmup", th[t].pc \in Unsent,
           th'[t].pc \in {"build", "commit"}, th'[t].op # "write" \/ th'[t].pc = "commit",
           DocsThen(th[t].batch, docs)[k] # None, DocsThen(th[t].batch, docs)[k].dedup = r.dedup
    PROVE  ClaimInv'
<1> DEFINE s == th[t]
           u == th'[t]
           f == RowsAndDels(s, records, docs)
           g == RowsAndDels(u, records, docs)
<1>1. Claims(s, records, docs, dedup_index) BY ClaimAt
<1>2. s \in LocalState /\ docs \in [Key -> MaybeRec] BY FlowAt DEF TypeOK, SharedOK
<1> HIDE DEF s, u
<1>3. \A x \in Key : g[x] = IF x = k THEN r ELSE f[x]
  <2>1. u.batch = AppendRows(s.batch, k, r, e) /\ u.dels = s.dels /\ k \notin s.dels BY DEF s, u
  <2> QED BY <1>2, <2>1, RowsAppended
<1>4. f[k] # None /\ f[k].dedup = r.dedup BY DEF RowsAndDels, s
<1>5. Distinct(g)
  <2>1. Distinct(f) BY <1>1 DEF Claims
  <2> HIDE DEF f, g
  <2> QED BY <1>3, <1>4, <2>1, DistinctLess
<1>6. Claims(u, records, docs, dedup_index)
  <2>1. /\ u.upserts = Append(s.upserts, r) /\ u.batch = AppendRows(s.batch, k, r, e)
        /\ s.op # "warmup" /\ s.pc \in Unsent /\ u.pc \in {"build", "commit"}
        /\ u.op # "write" \/ u.pc # "build"
    BY DEF s, u
  <2>2. Distinct(RowsAndDels(u, records, docs)) BY <1>5
  <2> HIDE DEF f, g
  <2> QED BY <1>1, <1>2, <2>1, <2>2, UpsertClaimed
<1> QED BY <1>6, ClaimTo DEF u

\* Pin stores the loaded record again.
LEMMA PinClaims ==
    ASSUME TypeOK, FlowInv, NoGc, OneClient, SettledInv, ClaimInv, NEW t \in Thread, PinCheck(t)
    PROVE  ClaimInv'
<1> DEFINE s == th[t]
           u == th'[t]
<1>1. s.pc = "check" /\ th' = [th EXCEPT ![t] = u] /\ t # Main BY AppendShape, PinShape DEF OnlyLocal
<1>2. Alone(t) BY <1>1, BusyAlone
<1>3. UNCHANGED <<records, docs, dedup_index>> BY AppendShape DEF OnlyLocal, memVars, storeVars
<1>4. Claims(s, records, docs, dedup_index) /\ Prepared(s, records, docs)
  BY <1>2, ClaimAt, SettledAt
<1>5. docs \in [Key -> MaybeRec] /\ ReqFlow(s) /\ Homed(s.snap)
  BY <1>1, FlowAt DEF TypeOK, SharedOK, Flow
<1>6. s.upserts = <<>> /\ s.batch = EmptyBatch /\ s.dels = {} /\ s.op # "warmup"
  BY <1>1, <1>4, <1>5 DEF ReqFlow, Prepared
<1>7. CASE u = Idle
  <2>1. Distinct(docs) /\ \A k \in Key : Claimed(docs[k], dedup_index) BY <1>4, <1>5, <1>6, AtRestClaims
  <2>2. Claims(Idle, records, docs, dedup_index) BY <1>5, <2>1, RestClaims, IdleData
  <2> QED BY <1>1, <1>2, <1>3, <1>7, <2>2, ClaimTo
<1>8. CASE u # Idle
  <2>1. PICK r \in Rec : /\ u.upserts = <<r>> /\ r.dedup = s.snap[s.key].dedup
                         /\ r.key = s.snap[s.key].key /\ s.key \in Key
    BY <1>8, PinFacts
  <2>2. PICK k \in Key, r2 \in Rec, e \in Event :
          /\ s.snap[k] \in Rec /\ r2.key = s.snap[k].key /\ u.pc = "commit" /\ u.op = s.op
          /\ u.upserts = <<r2>> /\ u.batch = AppendRows(s.batch, k, r2, e) /\ u.dels = s.dels
    BY <1>8, PinShape
  <2>3. r2 = r BY <2>1, <2>2
  <2>4. r.key = k BY <1>5, <2>2, <2>3 DEF Homed
  <2>5. s.snap[s.key] \in Rec BY <1>1, FlowAt DEF LocalOK
  <2>6. s.key = k BY <1>5, <2>1, <2>4, <2>5 DEF Homed
  <2>7. docs[k] = s.snap[k] BY <1>1, <1>4, <2>6 DEF Prepared
  <2>8. DocsThen(s.batch, docs)[k] # None /\ DocsThen(s.batch, docs)[k].dedup = r.dedup
    <3>1. DocsThen(s.batch, docs)[k] = docs[k] BY <1>5, <1>6 DEF DocsThen, EmptyBatch, NoRecords
    <3> QED BY <2>1, <2>2, <2>6, <2>7, <3>1, SentinelAssumption
  <2>9. /\ u.upserts = Append(s.upserts, r) /\ u.batch = AppendRows(s.batch, k, r, e)
        /\ k \notin s.dels /\ s.pc \in Unsent /\ u.pc = "commit" /\ u.dels = s.dels
    BY <1>1, <1>6, <2>1, <2>2, <2>3 DEF Unsent
  <2> QED BY <1>1, <1>2, <1>3, <1>6, <2>4, <2>8, <2>9, KeepsClaims
<1> QED BY <1>7, <1>8

\* The deletion of a tombstone is appended.
LEMMA DeleteClaimed ==
    ASSUME NEW s \in LocalState, NEW u, NEW recs, NEW stored \in [Key -> MaybeRec], NEW idx,
           NEW k \in Key, NEW e \in Event, recs[k] = DocsThen(s.batch, stored)[k],
           u.upserts = s.upserts, u.batch = AppendRows(s.batch, k, Gone, e), u.dels = s.dels \cup {k},
           s.op = "compact", u.op = "compact", s.pc = "build", u.pc = "build",
           Claims(s, recs, stored, idx)
    PROVE  Claims(u, recs, stored, idx)
<1>0. s.batch \in Batch BY DEF LocalState
<1>1. \A x \in Key : DocsThen(u.batch, stored)[x] = IF x = k THEN None ELSE DocsThen(s.batch, stored)[x]
  BY <1>0, RowsThen
<1>2. RowsAndDels(u, recs, stored) = RowsAndDels(s, recs, stored) BY <1>1 DEF RowsAndDels
<1>3. \A x \in Key : Claimed(DocsThen(u.batch, stored)[x], idx) \/ Waiting(u.upserts, x)
  BY <1>1 DEF Claims, ToLoad, Claimed
<1>4. StoreCanFail => \A x \in Key : Claimed(stored[x], idx) BY DEF Claims, Unsent
<1> QED BY <1>2, <1>3, <1>4 DEF Claims

\* A compaction makes tombstones of records and deletes others.
LEMMA CompactClaims ==
    ASSUME TypeOK, FlowInv, NoGc, OneClient, SettledInv, ClaimInv, NEW t \in Thread,
           CompactTomb(t) \/ CompactDelete(t)
    PROVE  ClaimInv'
<1> DEFINE s == th[t]
           u == th'[t]
<1>1. s.pc # "idle" /\ th' = [th EXCEPT ![t] = u] /\ t # Main BY AppendShape DEF OnlyLocal
<1>2. Alone(t) BY <1>1, BusyAlone
<1>3. UNCHANGED <<records, docs, dedup_index>> BY AppendShape DEF OnlyLocal, memVars, storeVars
<1>4. Claims(s, records, docs, dedup_index) /\ Settled(s, records, docs) /\ Prepared(s, records, docs)
  BY <1>2, ClaimAt, SettledAt
<1>5. docs \in [Key -> MaybeRec] /\ s \in LocalState /\ s.upserts \in Seq(Rec) /\ Homed(s.snap)
  BY FlowAt DEF TypeOK, SharedOK, LocalState, Flow
<1>6. ASSUME NEW k \in Key, s.op = "compact", s.pc = "build", s.snap[k] \in Rec
      PROVE  k \notin s.dels /\ records[k] = s.snap[k] /\ DocsThen(s.batch, docs)[k] = s.snap[k]
  <2> HIDE DEF s
  <2>1. s.snap[k] # None BY <1>6, SentinelAssumption
  <2>2. s.snap[k] = records[k] /\ ~Waiting(s.upserts, k) /\ k \notin s.dels BY <1>4, <1>6, <2>1 DEF Prepared
  <2> QED BY <1>4, <2>1, <2>2 DEF Settled, Agrees
<1>7. CASE CompactTomb(t)
  <2>1. PICK k \in Key, r \in Rec, e \in Event :
          /\ s.snap[k] \in Rec /\ r.key = s.snap[k].key /\ u.op = s.op /\ u.dels = s.dels
          /\ s.pc = "build" /\ u.pc = "build"
          /\ u.upserts = Append(s.upserts, r) /\ u.batch = AppendRows(s.batch, k, r, e)
    BY <1>7, TombShape, ZenonT(60)
  <2>2. s.op = "compact" BY <1>7, TombFacts
  <2>3. PICK r2 \in Rec : /\ u.upserts = Append(s.upserts, r2) /\ r2.dedup = s.snap[r2.key].dedup
    BY <1>7, TombFacts
  <2> HIDE DEF s, u
  <2>4. r2 = r BY <1>5, <2>1, <2>3, AppendSame
  <2>5. r.key = k BY <1>5, <2>1 DEF Homed
  <2>6. k \notin s.dels /\ DocsThen(s.batch, docs)[k] # None /\ DocsThen(s.batch, docs)[k].dedup = r.dedup
    BY <1>6, <2>1, <2>2, <2>3, <2>4, <2>5, SentinelAssumption
  <2>7. /\ u.upserts = Append(s.upserts, r) /\ u.batch = AppendRows(s.batch, k, r, e) /\ u.dels = s.dels
        /\ s.op # "warmup" /\ s.pc \in Unsent /\ u.pc \in {"build", "commit"} /\ u.op # "write"
    BY <2>1, <2>2 DEF Unsent
  <2> QED BY <1>1, <1>2, <1>3, <2>5, <2>6, <2>7, KeepsClaims DEF s, u
<1>8. CASE CompactDelete(t)
  <2>1. PICK k \in Key, r \in Rec, e \in Event :
          /\ r = s.snap[k] /\ s.op = "compact" /\ u.op = s.op /\ s.pc = "build" /\ u.pc = "build"
          /\ u.dels = s.dels \cup {k}
          /\ u.upserts = s.upserts /\ u.batch = AppendRows(s.batch, k, Gone, e)
    BY <1>8, ReclaimShape, ZenonT(60)
  <2> HIDE DEF s, u
  <2>2. records[k] = DocsThen(s.batch, docs)[k] BY <1>6, <2>1
  <2>3. Claims(u, records, docs, dedup_index) BY <1>4, <1>5, <2>1, <2>2, DeleteClaimed
  <2> QED BY <1>1, <1>2, <1>3, <2>3, ClaimTo DEF u
<1> QED BY <1>7, <1>8

\* A step of a request that only moves it on.
LEMMA QuietClaims ==
    ASSUME TypeOK, FlowInv, NoGc, OneClient, SettledInv, ClaimInv, NEW t \in Thread,
           WriteDedup(t) \/ WriteBuilt(t) \/ PinGet(t) \/ CompactBuilt(t) \/ WriteRoute(t)
    PROVE  ClaimInv'
<1> DEFINE s == th[t]
           u == th'[t]
<1>1. s.pc # "idle" /\ th' = [th EXCEPT ![t] = u] /\ t # Main BY QuietShape
<1>2. Alone(t) BY <1>1, BusyAlone
<1>3. UNCHANGED <<records, docs, dedup_index>> BY QuietShape DEF memVars
<1>4. Claims(s, records, docs, dedup_index) /\ Prepared(s, records, docs) BY <1>2, ClaimAt, SettledAt
<1>5. docs \in [Key -> MaybeRec] /\ s.op # "warmup" /\ s.n \in Nat
  BY <1>1, FlowAt DEF TypeOK, SharedOK, ReqFlow, LocalState
<1>6. CASE u = Idle
  <2>1. s.upserts = <<>> /\ s.dels = {} /\ s.batch = EmptyBatch BY <1>4, <1>6, QuietEnds
  <2>2. Distinct(docs) /\ \A k \in Key : Claimed(docs[k], dedup_index) BY <1>4, <1>5, <2>1, AtRestClaims
  <2>3. Claims(Idle, records, docs, dedup_index) BY <1>5, <2>2, RestClaims, IdleData
  <2> QED BY <1>1, <1>2, <1>3, <1>6, <2>3, ClaimTo
<1>7. CASE u # Idle
  <2>1. /\ Same(s, u) /\ u.pc \notin {"index", "account"}
        /\ u.pc \in Unsent => s.pc \in Unsent
        /\ u.pc = "build" => s.pc = "build"
    BY <1>7, QuietShape DEF Unsent
  <2>2. u.pc = "build" => s.op = "write" /\ u.flag = s.flag /\ u.n = s.n + 1 BY <1>7, QuietFacts
  <2> HIDE DEF s, u
  <2>3. u.pc = "build" => ~u.flag /\ u.n # 0 BY <1>4, <1>5, <2>1, <2>2 DEF Claims
  <2>4. RowsAndDels(u, records, docs) = RowsAndDels(s, records, docs) BY <2>1 DEF RowsAndDels, Same
  <2>5. \A k \in Key : Claimed(DocsThen(u.batch, docs)[k], dedup_index) \/ Waiting(u.upserts, k)
    BY <1>4, <1>5, <2>1 DEF Claims, Same, ToLoad
  <2>6. Claims(u, records, docs, dedup_index) BY <1>4, <2>1, <2>3, <2>4, <2>5 DEF Claims
  <2> QED BY <1>1, <1>2, <1>3, <2>6, ClaimTo DEF u
<1> QED BY <1>6, <1>7

\* A batch is committed or fails.
LEMMA BatchClaims ==
    ASSUME TypeOK, FlowInv, LogInv, NoGc, OneClient, WholeBatches, SettledInv, ClaimInv, NEW t \in Thread,
           BatchWrite(t) \/ BatchWriteFail(t)
    PROVE  ClaimInv'
<1> DEFINE s == th[t]
           u == th'[t]
           R == DocsThen(s.batch, docs)
<1>1. s.pc = "commit" /\ th' = [th EXCEPT ![t] = u] /\ t # Main BY CommitShape, FailShape
<1>2. Alone(t) /\ UNCHANGED <<records, dedup_index>> BY <1>1, BusyAlone, CommitShape, FailShape DEF memVars
<1>3. docs \in [Key -> MaybeRec] /\ s.op # "warmup" /\ s.dels \subseteq Key
  BY <1>1, FlowAt DEF TypeOK, SharedOK, ReqFlow, LocalState
<1>4. Claims(s, records, docs, dedup_index) /\ Prepared(s, records, docs) BY <1>2, ClaimAt, SettledAt
<1>5. CASE BatchWrite(t)
  <2>1. /\ \A k \in Key : DocsThen(u.batch, docs')[k] = R[k]
        /\ SinglePartition => u.batch = EmptyBatch
        /\ u.pc \in {"commit", "map", "unmap", "route", "enforce"} /\ (u.pc = "commit" => u.batch # EmptyBatch)
    BY <1>5, CommitFacts
  <2>2. u.upserts = s.upserts /\ u.dels = s.dels BY <1>5, CommitShape
  <2>3. \A k \in s.dels : R[k] = None BY <1>4 DEF Prepared
  <2> HIDE DEF s, u, R
  <2>4. RowsAndDels(u, records, docs') = RowsAndDels(s, records, docs) BY <2>1, <2>2 DEF RowsAndDels, R
  <2>5. \A k \in Key : Claimed(DocsThen(u.batch, docs')[k], dedup_index) \/ Waiting(u.upserts, k)
    BY <1>3, <1>4, <2>1, <2>2 DEF Claims, ToLoad, R
  <2>6. ASSUME CanCrash \/ StoreCanFail PROVE Distinct(docs') /\ u.pc \notin Unsent
    <3>1. u.batch = EmptyBatch BY <2>1, <2>6 DEF WholeBatches
    <3>2. \A k \in Key : docs'[k] = R[k] BY <2>1, <3>1 DEF DocsThen, EmptyBatch, NoRecords
    <3> DEFINE f == RowsAndDels(s, records, docs)
    <3>3. \A k \in Key : R[k] = None \/ f[k] = R[k] BY <2>3 DEF RowsAndDels, R
    <3>4. Distinct(f) BY <1>4 DEF Claims
    <3> HIDE DEF f
    <3>5. \A k \in Key : docs'[k] = None \/ (f[k] # None /\ docs'[k].dedup = f[k].dedup) BY <3>2, <3>3
    <3>6. Distinct(docs') BY <3>4, <3>5, DistinctLess
    <3> QED BY <2>1, <3>1, <3>6 DEF Unsent
  <2>7. Claims(u, records, docs', dedup_index)
    <3>1. Distinct(RowsAndDels(u, records, docs')) BY <1>4, <2>4 DEF Claims
    <3> QED BY <2>1, <2>5, <2>6, <3>1 DEF Claims
  <2> QED BY <1>1, <1>2, <2>7, ClaimTo DEF u
<1>6. CASE BatchWriteFail(t)
  <2>1. docs' = docs /\ u.upserts = <<>> /\ u.batch = EmptyBatch /\ u.op # "write" /\ u.dels = {}
        /\ u.pc \notin {"index", "account"} /\ StoreCanFail
    BY <1>6, FailShape, IdleData DEF storeVars, BatchWriteFail
  <2> HIDE DEF s, u, R
  <2>2. Distinct(docs) /\ \A k \in Key : Claimed(docs[k], dedup_index) BY <1>1, <1>4, <2>1 DEF Claims, Unsent
  <2>3. Claims(u, records, docs, dedup_index) BY <1>3, <2>1, <2>2, RestClaims
  <2> QED BY <1>1, <1>2, <2>1, <2>3, ClaimTo DEF u
<1> QED BY <1>5, <1>6

\* UpsertRecordInMemory.
LEMMA UpsertClaims ==
    ASSUME TypeOK, FlowInv, NoGc, OneClient, SettledInv, ClaimInv, NEW t \in Thread,
           UpsertMap(t) \/ UpsertIndex(t) \/ UpsertAccount(t)
    PROVE  ClaimInv'
<1> DEFINE s == th[t]
           u == th'[t]
           h == Head(s.upserts)
           R == DocsThen(s.batch, docs)
<1>1. s.pc \in {"map", "index", "account"} /\ th' = [th EXCEPT ![t] = u] BY UpsertShape
<1>2. Alone(t) BY <1>1, BusyAlone
<1>3. Claims(s, records, docs, dedup_index) /\ Settled(s, records, docs) /\ Prepared(s, records, docs)
  BY <1>2, ClaimAt, SettledAt
<1>4. /\ docs' = docs /\ u.op = s.op /\ u.batch = s.batch /\ u.dels = s.dels /\ u.snap = s.snap
  BY UpsertShape DEF storeVars
<1>5. /\ records \in [Key -> MaybeRec] /\ dedup_index \in [Slot -> Key \cup {None}]
      /\ s.upserts \in Seq(Rec) /\ s.upserts # <<>> /\ s.dels \subseteq Key
  BY UpsertShape, FlowAt DEF TypeOK, SharedOK, LocalState
<1>6. h \in Rec /\ h.key \in Key
  <2> HIDE DEF s
  <2>1. h \in Rec BY <1>5
  <2> QED BY <2>1 DEF Rec
<1>7. h.key \notin s.dels
  <2> HIDE DEF s
  <2>1. Waiting(s.upserts, h.key) BY <1>5, ListTail
  <2> HIDE DEF h
  <2> QED BY <1>3, <2>1 DEF Prepared
<1>8. R \in [Key -> MaybeRec] BY RowsHomed
<1>9. ASSUME NEW k \in Key, ToLoad(s, k, docs) PROVE ToLoad(u, k, docs)
  <2> HIDE DEF s, u
  <2> QED BY <1>1, <1>4, <1>9 DEF ToLoad
<1>10. CASE s.pc \in {"map", "index"}
  <2>1. u.upserts = s.upserts /\ u.pc \in {"index", "account"} BY <1>10, UpsertShape
  <2>2. \A k \in Key \ {h.key} : records'[k] = records[k]
    <3>1. records' = [records EXCEPT ![h.key] = h] \/ records' = records BY <1>10, UpsertShape
    <3> HIDE DEF h
    <3> QED BY <1>5, <1>6, <3>1
  <2>3. /\ Claimed(h, dedup_index')
        /\ \A v \in MaybeRec : Claimed(v, dedup_index) => Claimed(v, dedup_index')
    <3>1. CASE s.pc = "map"
      <4>1. dedup_index' = IF h.dedup = NoDedup THEN dedup_index
                           ELSE [dedup_index EXCEPT ![<<WsOf[h.key], h.dedup>>] = h.key]
        BY <3>1 DEF UpsertMap, UpsertIndex, UpsertAccount, DedupAfter
      <4> HIDE DEF h
      <4> QED BY <1>5, <1>6, <4>1, ClaimedMore, ZenonT(60)
    <3>2. CASE s.pc = "index"
      <4>1. dedup_index' = dedup_index BY <3>2 DEF UpsertMap, UpsertIndex, UpsertAccount
      <4>2. Claimed(h, dedup_index) BY <1>3, <3>2 DEF Claims
      <4> QED BY <4>1, <4>2
    <3> QED BY <1>10, <3>1, <3>2
  <2> HIDE DEF s, u
  <2>4. RowsAndDels(u, records', docs) = RowsAndDels(s, records, docs)
    BY <1>4, <1>5, <1>7, <2>2 DEF RowsAndDels
  <2>5. \A k \in Key : \/ Claimed(DocsThen(u.batch, docs)[k], dedup_index')
                       \/ Waiting(u.upserts, k) \/ ToLoad(u, k, docs)
    BY <1>3, <1>4, <1>8, <1>9, <2>1, <2>3 DEF Claims
  <2>6. Claims(u, records', docs, dedup_index')
    <3>1. Distinct(RowsAndDels(u, records', docs)) /\ (CanCrash \/ StoreCanFail => Distinct(docs))
      BY <1>3, <2>4 DEF Claims
    <3>2. Claimed(Head(u.upserts), dedup_index') BY <2>1, <2>3
    <3> QED BY <2>1, <2>5, <3>1, <3>2 DEF Claims, Unsent
  <2> QED BY <1>1, <1>2, <1>4, <2>6, ClaimTo DEF u
<1>11. CASE s.pc = "account"
  <2>1. /\ u.upserts = Tail(s.upserts) /\ records' = records /\ u.pc = AfterUpsert(s.op, u.upserts)
    BY <1>11, UpsertShape
  <2>2. dedup_index' = dedup_index BY <1>11 DEF UpsertMap, UpsertIndex, UpsertAccount
  <2> HIDE DEF s, u
  <2>3. u.pc \in {"map", "unmap", "route", "load", "replay", "enforce"} BY <2>1 DEF AfterUpsert
  <2>4. \A k \in Key : Waiting(s.upserts, k) /\ ~Waiting(u.upserts, k) =>
             h.key = k /\ \A v : LastIs(s.upserts, k, v) => h = v
    BY <1>5, <2>1, ListTail
  <2>5. Claimed(h, dedup_index) BY <1>3, <1>11 DEF Claims
  <2> HIDE DEF h
  <2>6. ASSUME NEW k \in Key
        PROVE  Claimed(R[k], dedup_index) \/ Waiting(u.upserts, k) \/ ToLoad(u, k, docs)
    <3>1. CASE ~Waiting(s.upserts, k) BY <1>3, <1>9, <3>1 DEF Claims
    <3>2. CASE Waiting(s.upserts, k)
      <4>1. LastIs(s.upserts, k, R[k]) BY <1>3, <3>2 DEF Settled, Agrees
      <4> QED BY <2>4, <2>5, <3>2, <4>1
    <3> QED BY <3>1, <3>2
  <2>7. RowsAndDels(u, records, docs) = RowsAndDels(s, records, docs) BY <1>4 DEF RowsAndDels
  <2>8. Claims(u, records, docs, dedup_index)
    <3>1. Distinct(RowsAndDels(u, records, docs)) /\ (CanCrash \/ StoreCanFail => Distinct(docs))
      BY <1>3, <2>7 DEF Claims
    <3>2. \A k \in Key : \/ Claimed(DocsThen(u.batch, docs)[k], dedup_index)
                         \/ Waiting(u.upserts, k) \/ ToLoad(u, k, docs)
      BY <1>4, <2>6
    <3> QED BY <2>3, <3>1, <3>2 DEF Claims, Unsent
  <2> QED BY <1>1, <1>2, <1>4, <2>1, <2>2, <2>8, ClaimTo DEF u
<1> QED BY <1>1, <1>10, <1>11

\* What RemoveRecordInMemory does to the map.
LEMMA RemoveFacts ==
    ASSUME TypeOK, FlowInv, NEW t \in Thread, RemoveMap(t)
    PROVE  \E k \in th[t].dels :
             /\ th'[t].dels = th[t].dels \ {k}
             /\ \/ records[k] = None /\ UNCHANGED <<records, dedup_index>>
                \/ /\ records[k] # None /\ records' = [records EXCEPT ![k] = None]
                   /\ dedup_index' = IF records[k].dedup = NoDedup THEN dedup_index
                                     ELSE [dedup_index EXCEPT ![<<WsOf[k], records[k].dedup>>] = None]
<1> DEFINE s == th[t]
<1>0. s \in LocalState BY FlowAt
<1>1. PICK k \in s.dels :
        \/ /\ records[k] = None /\ UNCHANGED <<records, dedup_index>>
           /\ th' = [th EXCEPT ![t] = [s EXCEPT !.dels = @ \ {k}]]
        \/ /\ records[k] # None /\ records' = [records EXCEPT ![k] = None]
           /\ dedup_index' = IF records[k].dedup = NoDedup THEN dedup_index
                             ELSE [dedup_index EXCEPT ![<<WsOf[k], records[k].dedup>>] = None]
           /\ th' = [th EXCEPT ![t] = [s EXCEPT !.pc = "sub", !.dels = @ \ {k},
                                                !.key = k, !.delta = Dropped(k)]]
  BY Zenon DEF RemoveMap, Become
<1> DEFINE d == Dropped(k)
           rest == s.dels \ {k}
           v == [s EXCEPT !.dels = rest]
           w == [s EXCEPT !.pc = "sub", !.dels = rest, !.key = k, !.delta = d]
<1>2. v.dels = rest /\ w.dels = rest
  <2> HIDE DEF rest, d
  <2> QED BY <1>0 DEF LocalState
<1>3. th' = [th EXCEPT ![t] = v] \/ th' = [th EXCEPT ![t] = w] BY <1>1
<1> HIDE DEF v, w
<1>4. th'[t].dels = rest BY <1>2, <1>3, Moved
<1> QED BY <1>1, <1>4

\* RemoveRecordInMemory, and a round of the eviction loop.
LEMMA DropClaims ==
    ASSUME TypeOK, FlowInv, NoGc, OneClient, SettledInv, ClaimInv, NEW t \in Thread,
           RemoveMap(t) \/ EvictMap(t) \/ DropAccount(t) \/ DropIndex(t)
    PROVE  ClaimInv'
<1> DEFINE s == th[t]
           u == th'[t]
           R == DocsThen(s.batch, docs)
           f == RowsAndDels(s, records, docs)
           g == RowsAndDels(u, records', docs)
<1>1. /\ s.pc \in {"unmap", "enforce", "sub", "unindex"} /\ th' = [th EXCEPT ![t] = u]
      /\ u.pc \in {"unmap", "enforce", "sub", "unindex"}
  BY DropShape
<1>2. Alone(t) BY <1>1, BusyAlone
<1>3. Claims(s, records, docs, dedup_index) /\ Prepared(s, records, docs) BY <1>2, ClaimAt, SettledAt
<1>4. docs' = docs /\ u.op = s.op /\ u.batch = s.batch /\ u.upserts = s.upserts BY DropShape DEF storeVars
<1>5. /\ records \in [Key -> MaybeRec] /\ dedup_index \in [Slot -> Key \cup {None}]
      /\ s.upserts = <<>> /\ s.dels \subseteq Key /\ s.op # "warmup" /\ (s.pc = "enforce" => s.dels = {})
  <2>1. t # Main => s.op # "warmup" /\ s.upserts = <<>> /\ (s.pc = "enforce" => s.dels = {})
    BY <1>1, FlowAt DEF ReqFlow
  <2>2. t = Main => s.op # "warmup" /\ s.upserts = <<>> /\ s.dels = {}
    BY <1>1, FlowAt DEF WarmFlow, WarmPC
  <2>3. s.dels \subseteq Key BY FlowAt DEF LocalState
  <2> QED BY <2>1, <2>2, <2>3 DEF TypeOK, SharedOK
<1>6. R \in [Key -> MaybeRec] /\ Homed(R) BY RowsHomed
<1>7. (\A k \in Key : Claimed(R[k], dedup_index)) /\ Distinct(f)
  <2>1. \A k \in Key : ~Waiting(s.upserts, k) BY <1>5, ListOne
  <2> HIDE DEF s
  <2> QED BY <1>3, <1>5, <2>1 DEF Claims, ToLoad
<1>8. ASSUME \A k \in Key : Claimed(R[k], dedup_index'),
             u.dels \subseteq s.dels, \A k \in u.dels : records'[k] = records[k]
      PROVE  ClaimInv'
  <2> HIDE DEF s, u
  <2>1. \A k \in s.dels : R[k] = None BY <1>3 DEF Prepared
  <2>2. \A k \in Key : g[k] = None \/ g[k] = f[k] BY <1>4, <1>8, <2>1 DEF RowsAndDels
  <2>3. Distinct(g)
    <3> HIDE DEF f, g
    <3>1. \A k \in Key : g[k] = None \/ (f[k] # None /\ g[k].dedup = f[k].dedup) BY <2>2
    <3> QED BY <1>7, <3>1, DistinctLess
  <2>4. CanCrash \/ StoreCanFail => Distinct(docs) BY <1>3 DEF Claims
  <2>5. Claims(u, records', docs, dedup_index')
    <3>1. \A k \in Key : Claimed(DocsThen(u.batch, docs)[k], dedup_index') BY <1>4, <1>8
    <3>2. u.pc \notin Unsent \cup {"index", "account"} BY <1>1 DEF Unsent
    <3>3. Distinct(RowsAndDels(u, records', docs)) BY <2>3
    <3> QED BY <2>4, <3>1, <3>2, <3>3 DEF Claims, Unsent
  <2> QED BY <1>1, <1>2, <1>4, <2>5, ClaimTo DEF u
<1>9. CASE RemoveMap(t)
  <2>1. PICK k \in s.dels :
          /\ u.dels = s.dels \ {k}
          /\ \/ records[k] = None /\ UNCHANGED <<records, dedup_index>>
             \/ /\ records[k] # None /\ records' = [records EXCEPT ![k] = None]
                /\ dedup_index' = IF records[k].dedup = NoDedup THEN dedup_index
                                  ELSE [dedup_index EXCEPT ![<<WsOf[k], records[k].dedup>>] = None]
    BY <1>9, RemoveFacts
  <2> HIDE DEF s, u
  <2>2. u.dels \subseteq s.dels /\ \A x \in u.dels : records'[x] = records[x] BY <1>5, <2>1
  <2>3. ASSUME NEW x \in Key PROVE Claimed(R[x], dedup_index')
    <3>1. CASE dedup_index' = dedup_index BY <1>7, <3>1
    <3>2. CASE dedup_index' # dedup_index
      <4> DEFINE r == records[k]
                 v == R[x]
      <4>1. k \in Key /\ r \in Rec BY <1>5, <2>1, <3>2 DEF MaybeRec
      <4>2. f[k] = r /\ R[k] = None BY <1>3, <2>1, <4>1 DEF RowsAndDels, Prepared
      <4>3. v \in MaybeRec /\ Claimed(v, dedup_index) /\ (v # None => v.key = x) BY <1>6, <1>7 DEF Homed, MaybeRec
      <4>4. v = None \/ f[x] = v
        <5>1. \A y \in s.dels : R[y] = None BY <1>3 DEF Prepared
        <5> QED BY <5>1 DEF RowsAndDels
      <4>5. r # None BY <4>1, SentinelAssumption
      <4>6. v = None \/ v.dedup = NoDedup \/ WsOf[v.key] # WsOf[k] \/ v.dedup # r.dedup
        <5> SUFFICES ASSUME v # None, v.dedup # NoDedup, WsOf[v.key] = WsOf[k], v.dedup = r.dedup PROVE FALSE
          OBVIOUS
        <5>1. f[x] = v /\ x # k /\ WsOf[x] = WsOf[k] BY <4>2, <4>3, <4>4
        <5> HIDE DEF f, v, r
        <5> QED BY <1>7, <4>1, <4>2, <4>5, <5>1 DEF Distinct
      <4>7. dedup_index' = IF records[k].dedup = NoDedup THEN dedup_index
                           ELSE [dedup_index EXCEPT ![<<WsOf[k], records[k].dedup>>] = None]
        BY <2>1, <3>2
      <4>8. \A y \in MaybeRec :
              (/\ Claimed(y, dedup_index)
               /\ y = None \/ y.dedup = NoDedup \/ WsOf[y.key] # WsOf[k] \/ y.dedup # records[k].dedup)
              => Claimed(y, dedup_index')
        BY <1>5, <4>1, <4>7, ClaimedLess
      <4> HIDE DEF v
      <4>9. Claimed(v, dedup_index') BY <4>3, <4>6, <4>8
      <4> QED BY <4>9 DEF v
    <3> QED BY <3>1, <3>2
  <2> QED BY <1>8, <2>2, <2>3
<1>10. CASE EvictMap(t)
  <2>1. s.pc = "enforce" /\ dedup_index' = dedup_index BY <1>10 DEF EvictMap
  <2>2. u.dels = s.dels BY <2>1, DropShape
  <2> HIDE DEF s, u, R
  <2> QED BY <1>5, <1>7, <1>8, <2>1, <2>2
<1>11. CASE DropAccount(t) \/ DropIndex(t)
  <2>1. s.pc \in {"sub", "unindex"} /\ dedup_index' = dedup_index BY <1>11 DEF DropAccount, DropIndex
  <2>2. u.dels = s.dels /\ records' = records BY <2>1, DropShape
  <2> HIDE DEF s, u, R
  <2> QED BY <1>7, <1>8, <2>1, <2>2
<1> QED BY <1>9, <1>10, <1>11

\* A request, or Warmup, ends.
LEMMA DoneClaims ==
    ASSUME TypeOK, FlowInv, NoGc, OneClient, ClaimInv, NEW t \in Thread, CompactReport(t) \/ EnforceDone(t)
    PROVE  ClaimInv'
<1> DEFINE s == th[t]
<1>1. s.pc \in {"unmap", "enforce"} /\ (t = Main => s.pc = "enforce") BY DoneShape
<1>2. Alone(t) BY <1>1, BusyAlone
<1>3. Claims(s, records, docs, dedup_index) BY <1>2, ClaimAt
<1>4. /\ UNCHANGED <<records, docs, dedup_index>>
      /\ s.upserts = <<>> /\ s.dels = {} /\ s.batch = EmptyBatch
      /\ th' = [th EXCEPT ![t] = th'[t]] /\ th'[t] = Idle
  BY DoneShape DEF storeVars, memVars
<1>5. s.op # "warmup" BY <1>1, FlowAt DEF ReqFlow, WarmFlow
<1>6. docs \in [Key -> MaybeRec] BY DEF TypeOK, SharedOK
<1>7. Distinct(docs) /\ \A k \in Key : Claimed(docs[k], dedup_index) BY <1>3, <1>4, <1>5, <1>6, AtRestClaims
<1>8. Claims(Idle, records, docs, dedup_index) BY <1>6, <1>7, RestClaims, IdleData
<1> QED BY <1>2, <1>4, <1>8, ClaimTo

\* Warmup loads all rows; nothing is left to replay.
LEMMA WarmupClaims ==
    ASSUME TypeOK, FlowInv, NoGc, OneClient, WholeBatches, SettledInv, ClaimInv, NEW t \in Thread,
           WarmupScan(t) \/ WarmupLoad(t) \/ ReplayCheckpoints(t) \/ ReplayScan(t) \/ ReplayEvent(t)
    PROVE  ClaimInv'
<1> DEFINE s == th[t]
           u == th'[t]
<1>1. /\ s.pc \in {"scan", "load", "ckpts", "events", "replay"} /\ th' = [th EXCEPT ![t] = u] /\ t = Main
      /\ u.batch = s.batch /\ u.dels = s.dels /\ UNCHANGED <<records, docs, dedup_index>>
  BY WarmShape DEF memVars, storeVars
<1>2. Alone(t) /\ ~ready BY <1>1, BusyAlone DEF FlowInv, Turn
<1>3. Claims(s, records, docs, dedup_index) /\ Prepared(s, records, docs) BY <1>2, ClaimAt, SettledAt
<1>4. /\ docs \in [Key -> MaybeRec] /\ Homed(s.snap) /\ s.snap \in [Key -> MaybeRec]
      /\ s.upserts = <<>> /\ s.batch = EmptyBatch /\ s.log = {}
      /\ s.pc \in {"scan", "load", "ckpts"} => s.op = "warmup"
      /\ s.pc \in {"events", "replay"} => s.op = "replay"
  <2>1. s \in LocalState /\ WarmFlow(s) /\ Homed(s.snap) BY <1>1, FlowAt DEF Flow
  <2>2. s.log = {} BY <1>3 DEF Prepared
  <2> QED BY <1>1, <2>1, <2>2 DEF TypeOK, SharedOK, WarmFlow, LocalState
<1>5. \A k \in Key : Claimed(docs[k], dedup_index) \/ ToLoad(s, k, docs)
  <2>1. \A k \in Key : DocsThen(s.batch, docs)[k] = docs[k] /\ ~Waiting(s.upserts, k)
    BY <1>4, ListOne DEF DocsThen, EmptyBatch, NoRecords
  <2> HIDE DEF s
  <2> QED BY <1>3, <2>1 DEF Claims
<1>6. ASSUME u.pc \notin Unsent \cup {"index", "account"},
             \A k \in Key : Claimed(docs[k], dedup_index) \/ Waiting(u.upserts, k) \/ ToLoad(u, k, docs)
      PROVE  ClaimInv'
  <2> HIDE DEF s, u
  <2>1. RowsAndDels(u, records, docs) = RowsAndDels(s, records, docs) BY <1>1 DEF RowsAndDels
  <2>2. \A k \in Key : DocsThen(u.batch, docs)[k] = docs[k]
    BY <1>1, <1>4 DEF DocsThen, EmptyBatch, NoRecords
  <2>3. Claims(u, records, docs, dedup_index)
    <3>1. Distinct(RowsAndDels(u, records, docs)) /\ (CanCrash \/ StoreCanFail => Distinct(docs))
      BY <1>3, <2>1 DEF Claims
    <3> QED BY <1>6, <2>2, <3>1 DEF Claims, Unsent
  <2> QED BY <1>1, <1>2, <2>3, ClaimTo DEF u
<1>7. CASE s.pc = "scan"
  <2>1. u.pc = "load" /\ u.op = s.op /\ u.snap = IF ScanFinds THEN docs ELSE NoRecords BY <1>7, WarmShape
  <2>2. ScanFinds \/ docs = NoRecords BY <1>2, ScanComplete
  <2> HIDE DEF s, u
  <2>3. \A k \in Key : ToLoad(u, k, docs) BY <1>4, <1>7, <2>1, <2>2 DEF ToLoad
  <2> QED BY <1>6, <2>1, <2>3 DEF Unsent
<1>8. CASE s.pc = "load"
  <2>1. \/ u.pc = "ckpts" /\ u.op = s.op /\ u.snap = s.snap
        \/ /\ u.pc = "map" /\ u.op = s.op
           /\ \E k \in Key : /\ s.snap[k] \in Rec /\ u.upserts = <<s.snap[k]>>
                             /\ u.snap = [s.snap EXCEPT ![k] = None]
    BY <1>8, WarmShape
  <2> HIDE DEF s, u
  <2>2. CASE u.pc = "ckpts"
    <3>1. \A k \in Key : ToLoad(s, k, docs) => ToLoad(u, k, docs) BY <1>8, <2>1, <2>2 DEF ToLoad
    <3> QED BY <1>5, <1>6, <2>2, <3>1 DEF Unsent
  <2>3. CASE u.pc # "ckpts"
    <3>1. PICK k \in Key : /\ s.snap[k] \in Rec /\ u.upserts = <<s.snap[k]>>
                           /\ u.snap = [s.snap EXCEPT ![k] = None]
      BY <2>1, <2>3
    <3>2. u.pc = "map" /\ u.op = s.op BY <2>1, <2>3
    <3>3. Waiting(u.upserts, k)
      <4>1. s.snap[k].key = k BY <1>4, <3>1 DEF Homed
      <4> QED BY <3>1, <4>1, ListOne
    <3>4. \A x \in Key \ {k} : u.snap[x] = s.snap[x] BY <1>4, <3>1
    <3>5. \A x \in Key \ {k} : ToLoad(s, x, docs) => ToLoad(u, x, docs) BY <1>8, <3>2, <3>4 DEF ToLoad
    <3> QED BY <1>5, <1>6, <3>2, <3>3, <3>5 DEF Unsent
  <2> QED BY <2>2, <2>3
<1>9. CASE s.pc = "ckpts"
  <2>1. u.pc = "events" BY <1>9, WarmShape
  <2>2. s.snap = NoRecords BY <1>3, <1>9 DEF Prepared
  <2> HIDE DEF s, u
  <2>3. \A k \in Key : Claimed(docs[k], dedup_index) BY <1>5, <1>9, <2>2 DEF ToLoad, NoRecords, Claimed
  <2> QED BY <1>6, <2>1, <2>3 DEF Unsent
<1>10. CASE s.pc \in {"events", "replay"}
  <2>1. u.pc \in {"replay", "enforce"} BY <1>4, <1>10, WarmShape
  <2> HIDE DEF s, u
  <2>2. \A k \in Key : Claimed(docs[k], dedup_index) BY <1>4, <1>5, <1>10 DEF ToLoad
  <2> QED BY <1>6, <2>1, <2>2 DEF Unsent
<1> QED BY <1>1, <1>7, <1>8, <1>9, <1>10

\* The first start; time passes; the process is restarted.
LEMMA InitClaims == Init => ClaimInv
<1> SUFFICES ASSUME Init PROVE ClaimInv OBVIOUS
<1>1. Main \in Thread /\ Alone(Main) BY FreshAlone DEF Thread, Init
<1>2. th[Main].upserts = <<>> /\ th[Main].batch = EmptyBatch /\ th[Main].pc = "scan" BY FreshData DEF Init
<1>3. th[Main].dels = {} BY DEF Init, FreshThreads, Thread, Idle
<1>4. \A k \in Key : docs[k] = None BY DEF Init, NoRecords
<1>5. docs \in [Key -> MaybeRec] BY DEF Init, NoRecords, MaybeRec
<1>6. Distinct(docs) /\ \A k \in Key : Claimed(docs[k], dedup_index) BY <1>4 DEF Distinct, Claimed
<1>7. Claims(th[Main], records, docs, dedup_index) BY <1>2, <1>3, <1>5, <1>6, RestClaims
<1> QED BY <1>1, <1>7 DEF ClaimInv

LEMMA EnvClaims ==
    ASSUME TypeOK, ClaimInv, Tick \/ Restart \/ Finished \/ UNCHANGED vars PROVE ClaimInv'
<1>0. PICK t \in Thread : Alone(t) /\ Claims(th[t], records, docs, dedup_index) BY DEF ClaimInv
<1>1. CASE Restart
  <2>1. th' = FreshThreads /\ docs' = docs /\ CanCrash BY <1>1 DEF Restart, storeVars
  <2>2. Main \in Thread /\ Alone(Main)' BY <2>1 DEF Alone, FreshThreads, Thread
  <2>3. docs \in [Key -> MaybeRec] /\ Distinct(docs) BY <1>0, <2>1 DEF TypeOK, SharedOK, Claims
  <2> DEFINE u == th'[Main]
             g == RowsAndDels(u, records', docs)
  <2>4. u.upserts = <<>> /\ u.batch = EmptyBatch /\ u.pc = "scan" BY <2>1, FreshData
  <2>5. u.dels = {} /\ u.op = "warmup"
    <3>1. u = [Idle EXCEPT !.pc = "scan", !.op = "warmup"] BY <2>1 DEF FreshThreads, Thread
    <3> QED BY <3>1 DEF Idle
  <2> HIDE DEF u
  <2>6. \A k \in Key : g[k] = docs[k] BY <2>3, <2>4, <2>5, RestClaims
  <2>7. Distinct(g)
    <3> HIDE DEF g
    <3> QED BY <2>3, <2>6, DistinctLess
  <2>8. Claims(u, records', docs, dedup_index')
    <3>1. Distinct(RowsAndDels(u, records', docs)) BY <2>7
    <3>2. \A k \in Key : ToLoad(u, k, docs) BY <2>4, <2>5 DEF ToLoad
    <3> QED BY <2>3, <2>4, <3>1, <3>2 DEF Claims, Unsent
  <2>9. Claims(th[Main], records, docs, dedup_index)'
    BY <2>1, <2>8 DEF Claims, RowsAndDels, ToLoad, Claimed, u
  <2> QED BY <2>2, <2>9 DEF ClaimInv
<1>2. CASE Tick \/ Finished \/ UNCHANGED vars
  <2>1. UNCHANGED <<records, docs, dedup_index, th>>
    BY <1>2 DEF Tick, Finished, vars, memVars, storeVars
  <2>2. Alone(t)' BY <1>0, <2>1 DEF Alone
  <2>3. Claims(th[t], records, docs, dedup_index)' BY <1>0, <2>1 DEF Claims, RowsAndDels, ToLoad, Claimed
  <2> QED BY <2>2, <2>3 DEF ClaimInv
<1> QED BY <1>1, <1>2

\* Every step keeps the rows apart and their dedup keys taken.
LEMMA NextClaims ==
    /\ NoGc /\ OneClient /\ WholeBatches /\ WritesOne
    /\ TypeOK /\ FlowInv /\ LogInv /\ SettledInv /\ ClaimInv /\ [Next]_vars
    => ClaimInv'
<1> SUFFICES ASSUME NoGc, OneClient, WholeBatches, WritesOne, TypeOK, FlowInv, LogInv, SettledInv, ClaimInv,
                    [Next]_vars
             PROVE  ClaimInv'
  OBVIOUS
<1>1. ASSUME NEW t \in Thread, WriteStart(t) \/ PinStart(t) \/ CompactStart(t) \/ Step(t) PROVE ClaimInv'
  BY <1>1, StartClaims, WriteClaims, PinClaims, CompactClaims, QuietClaims, BatchClaims, UpsertClaims,
     DropClaims, DoneClaims, WarmupClaims DEF Step
<1> QED BY <1>1, EnvClaims DEF Next

\* With one handler thread, no background compaction, batches that are stored as a
\* whole or not at all and Writes of one record in upsert mode, no two records of a
\* workspace have the same dedup key whenever no request is under way: dedup_index_
\* covers the rows on disk too, since an eviction keeps the entry of its victim and
\* Warmup makes those of all rows before the service answers.
THEOREM DedupStaysUnique == ASSUME NoGc, OneClient, WholeBatches, WritesOne PROVE Spec => []DedupUnique
<1>1. Init => RecoveryInv /\ SettledInv /\ ClaimInv BY InitRecovers, InitSettles, InitClaims
<1>2. TypeOK /\ FlowInv /\ LogInv /\ RecoveryInv /\ SettledInv /\ ClaimInv /\ [Next]_vars
      => RecoveryInv' /\ SettledInv' /\ ClaimInv'
  BY NextRecovers, NextSettles, NextClaims
<1>3. TypeOK /\ FlowInv /\ SettledInv /\ ClaimInv => DedupUnique
  <2> SUFFICES ASSUME TypeOK, FlowInv, SettledInv, ClaimInv, Quiescent PROVE
        \A k, l \in Key :
            (/\ WsOf[k] = WsOf[l] /\ Visible(k) # None /\ Visible(l) # None
             /\ Visible(k).dedup # NoDedup /\ Visible(k).dedup = Visible(l).dedup) => k = l
    BY DEF DedupUnique
  <2>1. \A t \in Thread : th[t] = Idle BY DEF Quiescent, FlowInv, Flow
  <2>2. Settled(Idle, records, docs) /\ Claims(Idle, records, docs, dedup_index)
    BY <2>1 DEF SettledInv, ClaimInv
  <2>3. docs \in [Key -> MaybeRec] BY DEF TypeOK, SharedOK
  <2>4. Resting(records, docs) /\ Distinct(docs) BY <2>2, <2>3, RestSettles, AtRestClaims, IdleData
  <2>5. \A k \in Key : Visible(k) = docs[k] BY <2>4 DEF Resting, Visible
  <2> QED BY <2>4, <2>5 DEF Distinct
<1> QED BY <1>1, <1>2, <1>3, TypeCorrect, FlowInvariant, LogInvariant, PTL DEF Spec

-----------------------------------------------------------------------------
(* Pinned documents.  A batch leaves every one of them in place: a          *)
(* compaction takes only records that were not pinned in its snapshot, and  *)
(* the records it has still to look at are the stored ones.                 *)

\* A document that is no tombstone.
Lives(d) == d # None /\ ~d.tomb

\* The batch of s spares the pinned documents in stored.
Spares(s, stored) == \A k \in Key :
    /\ Pinning(stored[k]) => Lives(DocsThen(s.batch, stored)[k])
    /\ s.op = "compact" /\ s.pc = "build" /\ s.snap[k] # None => DocsThen(s.batch, stored)[k] = stored[k]

SpareInv == \E t \in Thread : Alone(t) /\ Spares(th[t], docs)

\* A pinned document is never replaced by a tombstone or deleted: it has to be
\* unpinned or overwritten by a request first (src/core/memory_engine.cpp,
\* CompactInternal, which skips records that are pinned in its snapshot).
PinnedRowsKept == [][\A k \in Key : Pinning(docs[k]) => Lives(docs'[k])]_vars

\* The invariant, of the thread at hand.
LEMMA SpareAt ==
    ASSUME SpareInv, NEW t \in Thread, Alone(t) PROVE Spares(th[t], docs)
<1>1. PICK x \in Thread : Alone(x) /\ Spares(th[x], docs) BY DEF SpareInv
<1>2. th[x] = th[t] BY <1>1 DEF Alone
<1> QED BY <1>1, <1>2

\* To establish the invariant, of the thread at hand.
LEMMA SpareTo ==
    ASSUME TypeOK, NEW t \in Thread, th' = [th EXCEPT ![t] = th'[t]], Alone(t), Spares(th'[t], docs')
    PROVE  SpareInv'
<1>1. Alone(t)' BY StaysAlone
<1> QED BY <1>1 DEF SpareInv, Spares

\* Nothing is in hand.
LEMMA EmptySpares ==
    ASSUME NEW s, NEW stored \in [Key -> MaybeRec], s.batch = EmptyBatch PROVE Spares(s, stored)
<1>1. \A k \in Key : DocsThen(s.batch, stored)[k] = stored[k] BY DEF DocsThen, EmptyBatch, NoRecords
<1> QED BY <1>1 DEF Spares, Pinning, Lives

\* A step that appends nothing to the batch and commits none of it.
LEMMA KeepSpares ==
    ASSUME TypeOK, FlowInv, NoGc, OneClient, SpareInv, NEW t \in Thread,
           \/ WriteStart(t) \/ PinStart(t) \/ CompactStart(t)
           \/ WriteDedup(t) \/ WriteBuilt(t) \/ PinGet(t) \/ CompactBuilt(t) \/ WriteRoute(t)
           \/ BatchWriteFail(t) \/ UpsertMap(t) \/ UpsertIndex(t) \/ UpsertAccount(t)
           \/ RemoveMap(t) \/ EvictMap(t) \/ DropAccount(t) \/ DropIndex(t)
           \/ CompactReport(t) \/ EnforceDone(t)
           \/ WarmupScan(t) \/ WarmupLoad(t) \/ ReplayCheckpoints(t) \/ ReplayScan(t) \/ ReplayEvent(t)
    PROVE  SpareInv' /\ docs' = docs
<1> DEFINE s == th[t]
           u == th'[t]
<1>1. docs \in [Key -> MaybeRec] BY DEF TypeOK, SharedOK
<1>2. ASSUME Alone(t), th' = [th EXCEPT ![t] = u], docs' = docs, u.batch = EmptyBatch
      PROVE  SpareInv' /\ docs' = docs
  <2>1. Spares(u, docs) BY <1>1, <1>2, EmptySpares
  <2> QED BY <1>2, <2>1, SpareTo
<1>3. ASSUME Alone(t), th' = [th EXCEPT ![t] = u], docs' = docs, u.batch = s.batch,
             ~(u.op = "compact" /\ u.pc = "build")
      PROVE  SpareInv' /\ docs' = docs
  <2>1. Spares(s, docs) BY <1>3, SpareAt
  <2>2. Spares(u, docs) BY <1>3, <2>1 DEF Spares
  <2> QED BY <1>3, <2>2, SpareTo
<1>4. CASE WriteStart(t) \/ PinStart(t) \/ CompactStart(t)
  <2>1. Alone(t) BY <1>4, StartFlow, BusyAlone
  <2>2. th' = [th EXCEPT ![t] = u] /\ docs' = docs /\ u.batch = EmptyBatch BY <1>4, StartShape DEF storeVars
  <2> QED BY <1>2, <2>1, <2>2
<1>5. CASE WriteDedup(t) \/ WriteBuilt(t) \/ PinGet(t) \/ CompactBuilt(t) \/ WriteRoute(t)
  <2>1. s.pc # "idle" /\ th' = [th EXCEPT ![t] = u] /\ docs' = docs BY <1>5, QuietShape
  <2>2. Alone(t) BY <2>1, BusyAlone
  <2>3. CASE u = Idle BY <1>2, <2>1, <2>2, <2>3, IdleData
  <2>4. CASE u # Idle
    <3>1. u.batch = s.batch /\ u.op = s.op BY <1>5, <2>4, QuietShape DEF Same
    <3>2. u.pc = "build" => s.op = "write" BY <1>5, <2>4, QuietFacts
    <3> QED BY <1>3, <2>1, <2>2, <3>1, <3>2
  <2> QED BY <2>3, <2>4
<1>6. CASE BatchWriteFail(t)
  <2>1. s.pc # "idle" /\ th' = [th EXCEPT ![t] = u] /\ docs' = docs /\ u.batch = EmptyBatch
    BY <1>6, FailShape, IdleData DEF storeVars
  <2> QED BY <1>2, <2>1, BusyAlone
<1>7. CASE UpsertMap(t) \/ UpsertIndex(t) \/ UpsertAccount(t)
  <2>1. s.pc # "idle" /\ th' = [th EXCEPT ![t] = u] /\ docs' = docs /\ u.batch = s.batch
    BY <1>7, UpsertShape DEF storeVars
  <2>2. u.pc # "build"
    <3> DEFINE q == Tail(s.upserts)
               c == AfterUpsert(s.op, q)
    <3>1. c # "build"
      <4> HIDE DEF q, s
      <4> QED BY DEF AfterUpsert
    <3> HIDE DEF c
    <3>2. u.pc = "index" \/ u.pc = "account" \/ u.pc = c BY <1>7, UpsertShape, Zenon DEF c
    <3> QED BY <3>1, <3>2
  <2> QED BY <1>3, <2>1, <2>2, BusyAlone
<1>8. CASE RemoveMap(t) \/ EvictMap(t) \/ DropAccount(t) \/ DropIndex(t)
  <2>1. s.pc # "idle" /\ th' = [th EXCEPT ![t] = u] /\ docs' = docs /\ u.batch = s.batch /\ u.pc # "build"
    BY <1>8, DropShape DEF storeVars
  <2> QED BY <1>3, <2>1, BusyAlone
<1>9. CASE CompactReport(t) \/ EnforceDone(t)
  <2>1. s.pc # "idle" /\ th' = [th EXCEPT ![t] = u] /\ docs' = docs /\ u = Idle
    BY <1>9, DoneShape DEF storeVars
  <2> QED BY <1>2, <2>1, BusyAlone, IdleData
<1>10. CASE WarmupScan(t) \/ WarmupLoad(t) \/ ReplayCheckpoints(t) \/ ReplayScan(t) \/ ReplayEvent(t)
  <2>1. s.pc # "idle" /\ th' = [th EXCEPT ![t] = u] /\ docs' = docs /\ u.batch = s.batch /\ u.pc # "build"
    BY <1>10, WarmShape DEF storeVars
  <2> QED BY <1>3, <2>1, BusyAlone
<1> QED BY <1>4, <1>5, <1>6, <1>7, <1>8, <1>9, <1>10

\* The row of one key is appended to a batch that spares what is pinned.
LEMMA SparesMore ==
    ASSUME NEW s \in LocalState, NEW u, NEW stored \in [Key -> MaybeRec], NEW k \in Key, NEW e \in Event,
           NEW row \in MaybeRec, Spares(s, stored),
           \A x \in Key : DocsThen(u.batch, stored)[x] = IF x = k THEN row ELSE DocsThen(s.batch, stored)[x],
           Pinning(stored[k]) => Lives(row),
           u.op = "compact" /\ u.pc = "build" =>
             s.op = "compact" /\ s.pc = "build" /\ u.snap[k] = None
             /\ \A x \in Key : x # k => u.snap[x] = s.snap[x]
    PROVE  Spares(u, stored)
BY DEF Spares

\* A record of a compaction is the stored one.
LEMMA SnapStored ==
    ASSUME NEW s, NEW recs, NEW stored, NEW k \in Key, Settled(s, recs, stored), Prepared(s, recs, stored),
           Spares(s, stored), s.op = "compact", s.pc = "build", s.snap[k] # None
    PROVE  s.snap[k] = stored[k]
<1>1. s.snap[k] = recs[k] /\ ~Waiting(s.upserts, k) /\ k \notin s.dels BY DEF Prepared
<1>2. recs[k] = DocsThen(s.batch, stored)[k] BY <1>1 DEF Settled, Agrees
<1> QED BY <1>1, <1>2 DEF Spares

\* A request appends a row to its batch.
LEMMA AppendSpares ==
    ASSUME TypeOK, FlowInv, NoGc, OneClient, SettledInv, SpareInv, NEW t \in Thread,
           WriteRecord(t) \/ PinCheck(t) \/ CompactTomb(t) \/ CompactDelete(t)
    PROVE  SpareInv' /\ docs' = docs
<1> DEFINE s == th[t]
           u == th'[t]
<1>1. s.pc # "idle" /\ th' = [th EXCEPT ![t] = u] /\ t # Main /\ docs' = docs
  BY AppendShape DEF OnlyLocal, storeVars
<1>2. Alone(t) BY <1>1, BusyAlone
<1>3. Settled(s, records, docs) /\ Prepared(s, records, docs) /\ Spares(s, docs) BY <1>2, SettledAt, SpareAt
<1>4. /\ docs \in [Key -> MaybeRec] /\ s \in LocalState /\ s.upserts \in Seq(Rec) /\ s.batch \in Batch
      /\ s.snap \in [Key -> MaybeRec] /\ Homed(s.snap)
  BY FlowAt DEF TypeOK, SharedOK, LocalState, Flow
<1>5. SUFFICES Spares(u, docs) BY <1>1, <1>2, SpareTo
<1>6. CASE WriteRecord(t)
  <2> HIDE DEF s, u
  <2>1. PICK k \in Key, r \in Rec, e \in Event :
          /\ u.op = s.op /\ s.op = "write"
          /\ u.upserts = Append(s.upserts, r) /\ u.batch = AppendRows(s.batch, k, r, e)
    BY <1>6, WriteShape DEF s, u
  <2>2. PICK r2 \in Rec : u.upserts = Append(s.upserts, r2) /\ ~r2.tomb BY <1>6, WriteFacts DEF s, u
  <2>3. ~r.tomb
    <3>1. s.upserts \in Seq(Rec) /\ Append(s.upserts, r) = Append(s.upserts, r2) BY <1>4, <2>1, <2>2
    <3>2. r = r2 BY <3>1, AppendSame
    <3> QED BY <2>2, <3>2
  <2>4. Lives(r) BY <2>3, SentinelAssumption DEF Lives
  <2>5. \A x \in Key : DocsThen(u.batch, docs)[x] = IF x = k THEN r ELSE DocsThen(s.batch, docs)[x]
    BY <1>4, <2>1, RowsThen
  <2>6. u.op # "compact" BY <2>1
  <2>7. r \in MaybeRec /\ Spares(s, docs) BY <1>3 DEF MaybeRec
  <2> QED BY <1>4, <2>4, <2>5, <2>6, <2>7, SparesMore
<1>7. CASE PinCheck(t)
  <2>1. s.pc = "check" BY <1>7, PinShape
  <2>2. CASE u = Idle BY <1>4, <2>2, EmptySpares, IdleData
  <2>3. CASE u # Idle
    <3>1. PICK r \in Rec : u.upserts = <<r>> /\ r.tomb = s.snap[s.key].tomb /\ s.key \in Key
      BY <1>7, <2>3, PinFacts
    <3> HIDE DEF s, u
    <3>2. PICK k \in Key, r2 \in Rec, e \in Event :
            /\ k = s.key /\ u.pc = "commit" /\ u.upserts = <<r2>> /\ u.batch = AppendRows(s.batch, k, r2, e)
      BY <1>7, <2>3, PinShape DEF s, u
    <3>3. r2 = r BY <3>1, <3>2
    <3>4. s.snap[k] = docs[k] BY <1>3, <2>1, <3>2 DEF Prepared
    <3>5. Pinning(docs[k]) => Lives(r) BY <3>1, <3>2, <3>4, SentinelAssumption DEF Pinning, Lives
    <3>6. \A x \in Key : DocsThen(u.batch, docs)[x] = IF x = k THEN r ELSE DocsThen(s.batch, docs)[x]
      BY <1>4, <3>2, <3>3, RowsThen
    <3>7. u.pc # "build" BY <3>2
    <3>8. r \in MaybeRec /\ Spares(s, docs) BY <1>3 DEF MaybeRec
    <3> QED BY <1>4, <3>5, <3>6, <3>7, <3>8, SparesMore
  <2> QED BY <2>2, <2>3
<1>8. CASE CompactTomb(t)
  <2> HIDE DEF s, u
  <2>1. PICK k \in Key, r \in Rec, e \in Event :
          /\ s.snap[k] \in Rec /\ r.key = s.snap[k].key /\ s.pc = "build"
          /\ u.snap = [s.snap EXCEPT ![k] = None]
          /\ u.upserts = Append(s.upserts, r) /\ u.batch = AppendRows(s.batch, k, r, e)
    BY <1>8, TombShape, ZenonT(60) DEF s, u
  <2>2. PICK r2 \in Rec : u.upserts = Append(s.upserts, r2) /\ ~s.snap[r2.key].pinned
    BY <1>8, TombFacts DEF s, u
  <2>3. r2 = r /\ s.op = "compact"
    <3>1. s.op = "compact" BY <1>8, TombFacts DEF s
    <3>2. s.upserts \in Seq(Rec) /\ Append(s.upserts, r) = Append(s.upserts, r2) BY <1>4, <2>1, <2>2
    <3>3. r = r2 BY <3>2, AppendSame
    <3> QED BY <3>1, <3>3
  <2>4. r.key = k BY <1>4, <2>1 DEF Homed
  <2>5. s.snap[k] # None BY <2>1, SentinelAssumption
  <2>6. docs[k] = s.snap[k] BY <1>3, <2>1, <2>3, <2>5, SnapStored
  <2>7. ~Pinning(docs[k]) BY <2>2, <2>3, <2>4, <2>6 DEF Pinning
  <2>8. \A x \in Key : DocsThen(u.batch, docs)[x] = IF x = k THEN r ELSE DocsThen(s.batch, docs)[x]
    BY <1>4, <2>1, RowsThen
  <2>9. u.snap[k] = None /\ \A x \in Key : x # k => u.snap[x] = s.snap[x] BY <1>4, <2>1
  <2>10. r \in MaybeRec /\ Spares(s, docs) /\ s.op = "compact" /\ s.pc = "build"
         /\ (Pinning(docs[k]) => Lives(r))
    BY <1>3, <2>1, <2>3, <2>7 DEF MaybeRec
  <2> QED BY <1>4, <2>8, <2>9, <2>10, SparesMore
<1>9. CASE CompactDelete(t)
  <2> HIDE DEF s, u
  <2>1. PICK k \in Key, r \in Rec, e \in Event :
          /\ r.tomb /\ r = s.snap[k] /\ s.pc = "build" /\ s.op = "compact"
          /\ u.snap = [s.snap EXCEPT ![k] = None] /\ u.batch = AppendRows(s.batch, k, Gone, e)
    BY <1>9, ReclaimShape DEF s, u
  <2>2. s.snap[k] # None BY <2>1, SentinelAssumption
  <2>3. docs[k] = s.snap[k] BY <1>3, <2>1, <2>2, SnapStored
  <2>4. ~Pinning(docs[k]) BY <2>1, <2>3 DEF Pinning
  <2>5. \A x \in Key : DocsThen(u.batch, docs)[x] = IF x = k THEN None ELSE DocsThen(s.batch, docs)[x]
    BY <1>4, <2>1, RowsThen
  <2>6. u.snap[k] = None /\ \A x \in Key : x # k => u.snap[x] = s.snap[x] BY <1>4, <2>1
  <2>7. None \in MaybeRec /\ Spares(s, docs) /\ s.op = "compact" /\ s.pc = "build"
        /\ (Pinning(docs[k]) => Lives(None))
    BY <1>3, <2>1, <2>4 DEF MaybeRec
  <2> QED BY <1>4, <2>5, <2>6, <2>7, SparesMore
<1> QED BY <1>6, <1>7, <1>8, <1>9

\* A partition of the batch is committed: a pinned document stays as it is or is
\* replaced by one that is no tombstone.
LEMMA CommitSpares ==
    ASSUME TypeOK, FlowInv, LogInv, NoGc, OneClient, SpareInv, NEW t \in Thread, BatchWrite(t)
    PROVE  SpareInv' /\ \A k \in Key : Pinning(docs[k]) => Lives(docs'[k])
<1> DEFINE s == th[t]
           u == th'[t]
<1>1. s.pc = "commit" /\ th' = [th EXCEPT ![t] = u] /\ t # Main BY CommitShape
<1>2. Alone(t) BY <1>1, BusyAlone
<1>3. Spares(s, docs) BY <1>2, SpareAt
<1>4. /\ \A k \in Key : /\ DocsThen(u.batch, docs')[k] = DocsThen(s.batch, docs)[k]
                        /\ docs'[k] = docs[k] \/ docs'[k] = DocsThen(s.batch, docs)[k]
      /\ u.pc # "build"
  BY CommitFacts
<1> HIDE DEF s, u
<1>5. \A k \in Key : Pinning(docs[k]) => Lives(docs'[k])
  BY <1>3, <1>4 DEF Spares, Pinning, Lives
<1>6. Spares(u, docs')
  <2>1. \A k \in Key : Pinning(docs'[k]) => Lives(DocsThen(u.batch, docs')[k])
    BY <1>3, <1>4 DEF Spares, Pinning, Lives
  <2> QED BY <1>4, <2>1 DEF Spares
<1> QED BY <1>1, <1>2, <1>5, <1>6, SpareTo DEF u

\* Every step spares the pinned documents.
LEMMA NextSpares ==
    NoGc /\ OneClient /\ TypeOK /\ FlowInv /\ LogInv /\ SettledInv /\ SpareInv /\ [Next]_vars
    => SpareInv' /\ \A k \in Key : Pinning(docs[k]) => Lives(docs'[k])
<1> SUFFICES ASSUME NoGc, OneClient, TypeOK, FlowInv, LogInv, SettledInv, SpareInv, [Next]_vars
             PROVE  SpareInv' /\ \A k \in Key : Pinning(docs[k]) => Lives(docs'[k])
  OBVIOUS
<1>1. ASSUME docs' = docs PROVE \A k \in Key : Pinning(docs[k]) => Lives(docs'[k])
  BY <1>1 DEF Pinning, Lives
<1>2. ASSUME NEW t \in Thread, WriteStart(t) \/ PinStart(t) \/ CompactStart(t) \/ Step(t)
      PROVE  SpareInv' /\ \A k \in Key : Pinning(docs[k]) => Lives(docs'[k])
  BY <1>1, <1>2, KeepSpares, AppendSpares, CommitSpares DEF Step
<1>3. CASE Restart
  <2>1. th' = FreshThreads /\ docs' = docs BY <1>3 DEF Restart, storeVars
  <2>2. Main \in Thread /\ Alone(Main)' BY <2>1 DEF Alone, FreshThreads, Thread
  <2>3. th'[Main].batch = EmptyBatch /\ docs' \in [Key -> MaybeRec] BY <2>1, FreshData DEF TypeOK, SharedOK
  <2>4. Spares(th'[Main], docs') BY <2>3, EmptySpares
  <2>5. Spares(th[Main], docs)' BY <2>4 DEF Spares
  <2> QED BY <1>1, <2>1, <2>2, <2>5 DEF SpareInv
<1>4. CASE Tick \/ Finished \/ UNCHANGED vars
  <2>1. UNCHANGED <<docs, th>> BY <1>4 DEF Tick, Finished, vars, memVars, storeVars
  <2>2. PICK t \in Thread : Alone(t) /\ Spares(th[t], docs) BY DEF SpareInv
  <2>3. Alone(t)' /\ Spares(th[t], docs)' BY <2>1, <2>2 DEF Alone, Spares
  <2> QED BY <1>1, <2>1, <2>3 DEF SpareInv
<1> QED BY <1>2, <1>3, <1>4 DEF Next

LEMMA InitSpares == Init => SpareInv
<1> SUFFICES ASSUME Init PROVE SpareInv OBVIOUS
<1>1. Main \in Thread /\ Alone(Main) BY FreshAlone DEF Thread, Init
<1>2. th[Main].batch = EmptyBatch /\ docs \in [Key -> MaybeRec]
  BY FreshData DEF Init, NoRecords, MaybeRec
<1>3. Spares(th[Main], docs) BY <1>2, EmptySpares
<1> QED BY <1>1, <1>3 DEF SpareInv

\* With one handler thread, no background compaction and batches that are stored as a
\* whole or not at all, no step replaces a pinned document by a tombstone or deletes it:
\* what the run pin_lost shows not to hold when a compaction and a Pin overlap.
THEOREM PinsStayKept == ASSUME NoGc, OneClient, WholeBatches PROVE Spec => PinnedRowsKept
<1>1. Init => RecoveryInv /\ SettledInv /\ SpareInv BY InitRecovers, InitSettles, InitSpares
<1>2. TypeOK /\ FlowInv /\ LogInv /\ RecoveryInv /\ SettledInv /\ SpareInv /\ [Next]_vars
      => RecoveryInv' /\ SettledInv' /\ SpareInv'
  BY NextRecovers, NextSettles, NextSpares
<1>3. TypeOK /\ FlowInv /\ LogInv /\ SettledInv /\ SpareInv /\ [Next]_vars
      => [\A k \in Key : Pinning(docs[k]) => Lives(docs'[k])]_vars
  BY NextSpares
<1> QED BY <1>1, <1>2, <1>3, TypeCorrect, FlowInvariant, LogInvariant, PTL DEF Spec, PinnedRowsKept

-----------------------------------------------------------------------------
(* The rows beside the documents.  A batch in hand turns the derived rows   *)
(* of the stored version into those of its record; until its first          *)
(* partition is committed the former are in the store, and after the last   *)
(* the latter.                                                              *)

\* The derived rows of key k; a row of the dictionary belongs to a workspace.
Own(k) == {Posting(k, t) : t \in Term} \cup {VecCode(k, b) : b \in Bucket} \cup {VecFp(k)}

\* The stored rows f as they are when a batch with the derived rows p is committed.
StoredThen(p, f) == [x \in Row |-> IF p[x] = None THEN f[x] ELSE IF p[x] = Gone THEN None ELSE p[x]]

\* f has the derived rows of key k that document d calls for.
Derived(f, k, d) ==
    /\ \A t \in Term : f[Posting(k, t)] = IF Lives(d) /\ t \in Terms[d.val] THEN d ELSE None
    /\ f[VecFp(k)] = IF Lives(d) THEN d ELSE None
    /\ Lives(d) => f[VecCode(k, VecBucket[d.val])] = d

RowsTypeOK ==
    /\ rows \in [Row -> MaybeRec]
    /\ plan \in [Thread -> [row : [Row -> MaybeRec \cup {Gone}], keys : SUBSET Key, begun : BOOLEAN]]

\* q is what the batch of a thread with the locals s has in derived rows.
PlanFits(q, s) ==
    /\ q.keys = {} => q.row = NoRows
    /\ q.keys # {} => s.pc \in {"build", "commit"}
    /\ q.begun => s.pc = "commit"
    /\ ~q.begun => \A k \in q.keys : s.batch.doc[k] # None
    /\ \A k \in Key \ q.keys : s.batch.doc[k] = None /\ \A x \in Own(k) : q.row[x] = None
    /\ \A x \in Row : q.row[x] # None => RowPid[x] \in s.batch.aux

\* The derived rows f of key k go with its document in d: before the first
\* partition of a batch with the key is committed, and after the last.
KeyFits(k, q, s, f, d) ==
    /\ \A t, u \in Thread : k \in q[t].keys /\ k \in q[u].keys => t = u
    /\ \A t \in Thread : k \in q[t].keys =>
         Derived(StoredThen(q[t].row, f), k, DocsThen(s[t].batch, d)[k])
    /\ (\A t \in Thread : k \in q[t].keys => ~q[t].begun) => Derived(f, k, d[k])

RowsInv ==
    /\ RowsTypeOK
    /\ \A t \in Thread : PlanFits(plan[t], th[t])
    /\ \A k \in Key \ torn : KeyFits(k, plan, th, rows, docs)

-----------------------------------------------------------------------------
(* The derived rows of a record *)

\* Every key has its own derived rows.
LEMMA OwnRows ==
    ASSUME NEW k \in Key
    PROVE  /\ Own(k) \subseteq Row
           /\ \A t \in Term : Posting(k, t) \in Own(k)
           /\ \A b \in Bucket : VecCode(k, b) \in Own(k)
           /\ VecFp(k) \in Own(k)
           /\ \A x \in Own(k) : RowPid[x] \in AuxPids[k]
<1>1. Own(k) \subseteq Row BY DEF Own, Row
<1>2. \A x \in Own(k) : x[2] = k BY DEF Own, Posting, VecCode, VecFp
<1>3. \A x \in Own(k) : RowPid[x] \in AuxPids[k] BY <1>1, <1>2, RowPidAssumption
<1> QED BY <1>1, <1>3 DEF Own

\* Different rows of one key.
LEMMA RowsDiffer ==
    ASSUME NEW k \in Key
    PROVE  /\ \A t \in Term, u \in Term : Posting(k, t) = Posting(k, u) => t = u
           /\ \A t \in Term, b \in Bucket : Posting(k, t) # VecCode(k, b)
           /\ \A t \in Term : Posting(k, t) # VecFp(k)
           /\ \A b \in Bucket : VecCode(k, b) # VecFp(k)
           /\ \A w \in Workspace, t \in Term : TermDict(w, t) \notin Own(k)
<1>1. \A t \in Term, u \in Term : Posting(k, t) = Posting(k, u) => t = u BY DEF Posting
<1>2. \A t \in Term : Posting(k, t)[1] = "posting" BY DEF Posting
<1>3. \A b \in Bucket : VecCode(k, b)[1] = "vec_code" BY DEF VecCode
<1>4. VecFp(k)[1] = "vec_fp" BY DEF VecFp
<1>5. \A w \in Workspace, t \in Term : TermDict(w, t)[1] = "term_dict" BY DEF TermDict
<1>6. \A x \in Own(k) : x[1] \in {"posting", "vec_code", "vec_fp"} BY <1>2, <1>3, <1>4 DEF Own
<1> QED BY <1>1, <1>2, <1>3, <1>4, <1>5, <1>6

\* The rows of two keys.
LEMMA OwnApart == ASSUME NEW j \in Key, NEW k \in Key, j # k, NEW x \in Own(j) PROVE x \notin Own(k)
<1>1. \A y \in Own(j) : y[2] = j BY DEF Own, Posting, VecCode, VecFp
<1>2. \A y \in Own(k) : y[2] = k BY DEF Own, Posting, VecCode, VecFp
<1> QED BY <1>1, <1>2

\* What PersistRecord and DeleteRecordStorage write and delete for a record.
LEMMA RecordRows ==
    ASSUME NEW r \in Rec
    PROVE  /\ r.key \in Key /\ Terms[r.val] \subseteq Term
           /\ VecBucket[r.val] \in Bucket /\ IdBucket[r.key] \in Bucket
           /\ DerivedKeys(r) \subseteq Own(r.key) /\ DerivedRows(r) \subseteq Row
           /\ \A x \in DerivedRows(r) : x \in Own(r.key) \/ \E t \in Term : x = TermDict(WsOf[r.key], t)
           /\ \A x \in DerivedRows(r) \cup DerivedKeys(r) : RowPid[x] \in AuxPids[r.key]
<1>1. /\ r.key \in Key /\ Terms[r.val] \subseteq Term
      /\ VecBucket[r.val] \in Bucket /\ IdBucket[r.key] \in Bucket /\ WsOf[r.key] \in Workspace
  BY TermAssumption, BucketAssumption, KeyAssumption DEF Rec
<1>2. DerivedKeys(r) \subseteq Own(r.key) BY <1>1 DEF DerivedKeys, Postings, Own
<1>3. \A x \in DerivedRows(r) : x \in Own(r.key) \/ \E t \in Term : x = TermDict(WsOf[r.key], t)
  BY <1>1 DEF DerivedRows, Postings, Own
<1>4. \A t \in Term : TermDict(WsOf[r.key], t) \in Row BY <1>1 DEF Row
<1>5. DerivedRows(r) \subseteq Row BY <1>1, <1>3, <1>4, OwnRows
<1>6. \A t \in Term : RowPid[TermDict(WsOf[r.key], t)] \in AuxPids[r.key]
  <2>1. \A t \in Term : TermDict(WsOf[r.key], t)[2] = WsOf[r.key] BY DEF TermDict
  <2> QED BY <1>1, <1>4, <2>1, RowPidAssumption
<1> QED BY <1>1, <1>2, <1>3, <1>5, <1>6, OwnRows

\* One row of the batch after PersistRecord.
LEMMA PersistAt ==
    ASSUME NEW r \in Rec, NEW old \in MaybeRec, NEW p, NEW x \in Row
    PROVE  PersistRecord(p, r, old)[x] =
             IF r.tomb /\ x \in DerivedKeys(r) THEN Gone
             ELSE IF ~r.tomb /\ x \in DerivedRows(r) THEN r
             ELSE IF old # None /\ x \in DerivedKeys(old) THEN Gone ELSE p[x]
<1> DEFINE q == IF old = None THEN p ELSE Deletes(p, DerivedKeys(old))
<1>1. q[x] = IF old # None /\ x \in DerivedKeys(old) THEN Gone ELSE p[x] BY DEF Deletes
<1>2. PersistRecord(p, r, old) = IF r.tomb THEN Deletes(q, DerivedKeys(r)) ELSE Upserts(q, DerivedRows(r), r)
  BY DEF PersistRecord
<1>3. \A S : Deletes(q, S)[x] = IF x \in S THEN Gone ELSE q[x] BY DEF Deletes
<1>4. \A S : Upserts(q, S, r)[x] = IF x \in S THEN r ELSE q[x] BY DEF Upserts
<1> HIDE DEF q
<1> QED BY <1>1, <1>2, <1>3, <1>4

\* q has the rows of the batch p and has more of key k.
RowsOf(k, p, q) ==
    /\ q \in [Row -> MaybeRec \cup {Gone}]
    /\ \A x \in Row : q[x] # p[x] => RowPid[x] \in AuxPids[k] /\ \A j \in Key \ {k} : x \notin Own(j)

\* PersistRecord changes the rows of its record, and nothing of other keys.
LEMMA PersistOwn ==
    ASSUME NEW r \in Rec, NEW old \in MaybeRec, old # None => old.key = r.key,
           NEW p \in [Row -> MaybeRec \cup {Gone}]
    PROVE  RowsOf(r.key, p, PersistRecord(p, r, old))
<1> DEFINE q == PersistRecord(p, r, old)
<1>1. q \in [Row -> MaybeRec \cup {Gone}] BY DEF PersistRecord, Deletes, Upserts, MaybeRec
<1>2. ASSUME NEW x \in Row, q[x] # p[x] PROVE RowPid[x] \in AuxPids[r.key] /\ \A j \in Key \ {r.key} : x \notin Own(j)
  <2>1. r.key \in Key BY RecordRows
  <2>2. x \in DerivedRows(r) \/ x \in DerivedKeys(r) \/ (old # None /\ x \in DerivedKeys(old)) BY <1>2, PersistAt
  <2>3. CASE x \in DerivedKeys(r) BY <2>1, <2>3, RecordRows, OwnApart
  <2>4. CASE x \in DerivedRows(r)
    <3>1. RowPid[x] \in AuxPids[r.key] BY <2>4, RecordRows
    <3>2. CASE x \in Own(r.key) BY <2>1, <3>1, <3>2, OwnApart
    <3>3. CASE x \notin Own(r.key)
      <4>1. PICK t \in Term : x = TermDict(WsOf[r.key], t) BY <2>4, <3>3, RecordRows
      <4>2. WsOf[r.key] \in Workspace BY <2>1, KeyAssumption
      <4> QED BY <3>1, <4>1, <4>2, RowsDiffer
    <3> QED BY <3>2, <3>3
  <2>5. CASE old # None /\ x \in DerivedKeys(old)
    <3>1. old \in Rec /\ old.key = r.key BY <2>5 DEF MaybeRec
    <3> QED BY <2>1, <2>5, <3>1, RecordRows, OwnApart
  <2> QED BY <2>2, <2>3, <2>4, <2>5
<1> QED BY <1>1, <1>2 DEF RowsOf

\* DeleteRecordStorage does the same.
LEMMA DeleteOwn ==
    ASSUME NEW r \in Rec, NEW p \in [Row -> MaybeRec \cup {Gone}]
    PROVE  RowsOf(r.key, p, DeleteRecordStorage(p, r))
<1> DEFINE q == DeleteRecordStorage(p, r)
<1>1. q \in [Row -> MaybeRec \cup {Gone}] BY DEF DeleteRecordStorage, Deletes
<1>2. ASSUME NEW x \in Row, q[x] # p[x] PROVE RowPid[x] \in AuxPids[r.key] /\ \A j \in Key \ {r.key} : x \notin Own(j)
  <2>1. r.key \in Key BY RecordRows
  <2>2. x \in DerivedKeys(r) BY <1>2 DEF DeleteRecordStorage, Deletes
  <2> QED BY <2>1, <2>2, RecordRows, OwnApart
<1> QED BY <1>1, <1>2 DEF RowsOf

\* When the stored rows are those of the version that PersistRecord finds
\* resident, they are those of the record after the batch.
LEMMA PersistDerives ==
    ASSUME NEW r \in Rec, NEW old \in MaybeRec, old # None => old.key = r.key,
           NEW p, NEW f, \A x \in Own(r.key) : p[x] = None, Derived(f, r.key, old)
    PROVE  Derived(StoredThen(PersistRecord(p, r, old), f), r.key, r)
<1> DEFINE k == r.key
           q == PersistRecord(p, r, old)
           g == StoredThen(q, f)
<1>1. k \in Key /\ Terms[r.val] \subseteq Term /\ VecBucket[r.val] \in Bucket BY RecordRows
<1>2. r # None /\ r # Gone /\ None # Gone BY SentinelAssumption
<1>3. \A x \in Own(k) : q[x] = IF r.tomb /\ x \in DerivedKeys(r) THEN Gone
                              ELSE IF ~r.tomb /\ x \in DerivedRows(r) THEN r
                              ELSE IF old # None /\ x \in DerivedKeys(old) THEN Gone ELSE None
  BY <1>1, PersistAt, OwnRows
<1>4. \A x \in Own(k) : g[x] = IF q[x] = None THEN f[x] ELSE IF q[x] = Gone THEN None ELSE q[x]
  BY <1>1, OwnRows DEF StoredThen
<1> HIDE DEF q, g
<1>5. ASSUME NEW t \in Term PROVE g[Posting(k, t)] = IF Lives(r) /\ t \in Terms[r.val] THEN r ELSE None
  <2> DEFINE x == Posting(k, t)
  <2>1. x \in Own(k) BY <1>1, OwnRows
  <2>2. (x \in DerivedKeys(r) <=> t \in Terms[r.val]) /\ (x \in DerivedRows(r) <=> t \in Terms[r.val])
    <3>1. x \in Postings(r) <=> t \in Terms[r.val] BY <1>1, RowsDiffer DEF Postings
    <3>2. x # VecFp(k) /\ \A b \in Bucket : x # VecCode(k, b) BY <1>1, RowsDiffer
    <3>3. \A u \in Terms[r.val] : x # TermDict(WsOf[r.key], u)
      <4>1. WsOf[k] \in Workspace BY <1>1, KeyAssumption
      <4> QED BY <1>1, <2>1, <4>1, RowsDiffer
    <3>4. IdBucket[k] \in Bucket BY RecordRows
    <3> HIDE DEF x
    <3> QED BY <1>1, <3>1, <3>2, <3>3, <3>4 DEF DerivedKeys, DerivedRows
  <2>3. old # None => (x \in DerivedKeys(old) <=> t \in Terms[old.val])
    <3> SUFFICES ASSUME old # None PROVE x \in DerivedKeys(old) <=> t \in Terms[old.val] OBVIOUS
    <3>1. old \in Rec /\ old.key = k BY DEF MaybeRec
    <3> QED BY <1>1, <3>1, RecordRows, RowsDiffer DEF DerivedKeys, Postings
  <2>4. f[x] = IF Lives(old) /\ t \in Terms[old.val] THEN old ELSE None BY DEF Derived
  <2> HIDE DEF x, k
  <2> QED BY <1>2, <1>3, <1>4, <2>1, <2>2, <2>3, <2>4 DEF Lives, x
<1>6. g[VecFp(k)] = IF Lives(r) THEN r ELSE None
  <2>1. VecFp(k) \in Own(k) /\ VecFp(k) \in DerivedKeys(r) /\ VecFp(k) \in DerivedRows(r)
    BY <1>1, OwnRows DEF DerivedKeys, DerivedRows
  <2> QED BY <1>2, <1>3, <1>4, <2>1 DEF Lives
<1>7. Lives(r) => g[VecCode(k, VecBucket[r.val])] = r
  <2>1. VecCode(k, VecBucket[r.val]) \in Own(k) /\ VecCode(k, VecBucket[r.val]) \in DerivedRows(r)
    BY <1>1, OwnRows DEF DerivedRows
  <2> QED BY <1>2, <1>3, <1>4, <2>1 DEF Lives
<1> QED BY <1>5, <1>6, <1>7 DEF Derived, g, q

\* Likewise DeleteRecordStorage, for the stored version.
LEMMA DeleteDerives ==
    ASSUME NEW r \in Rec, NEW p, NEW f, \A x \in Own(r.key) : p[x] = None, Derived(f, r.key, r)
    PROVE  Derived(StoredThen(DeleteRecordStorage(p, r), f), r.key, None)
<1> DEFINE k == r.key
           q == DeleteRecordStorage(p, r)
           g == StoredThen(q, f)
<1>1. k \in Key /\ Terms[r.val] \subseteq Term BY RecordRows
<1>2. r # None /\ None # Gone BY SentinelAssumption
<1>3. \A x \in Own(k) : q[x] = IF x \in DerivedKeys(r) THEN Gone ELSE None
  BY <1>1, OwnRows DEF DeleteRecordStorage, Deletes
<1>4. \A x \in Own(k) : g[x] = IF q[x] = None THEN f[x] ELSE IF q[x] = Gone THEN None ELSE q[x]
  BY <1>1, OwnRows DEF StoredThen
<1> HIDE DEF q, g
<1>5. ASSUME NEW t \in Term PROVE g[Posting(k, t)] = None
  <2> DEFINE x == Posting(k, t)
  <2>1. x \in Own(k) BY <1>1, OwnRows
  <2>2. t \in Terms[r.val] => x \in DerivedKeys(r) BY DEF DerivedKeys, Postings
  <2>3. f[x] = IF Lives(r) /\ t \in Terms[r.val] THEN r ELSE None BY DEF Derived
  <2> HIDE DEF x, k
  <2> QED BY <1>2, <1>3, <1>4, <2>1, <2>2, <2>3 DEF x
<1>6. g[VecFp(k)] = None
  <2>1. VecFp(k) \in Own(k) /\ VecFp(k) \in DerivedKeys(r) BY <1>1, OwnRows DEF DerivedKeys
  <2> QED BY <1>2, <1>3, <1>4, <2>1
<1> QED BY <1>5, <1>6 DEF Derived, Lives, g, q

-----------------------------------------------------------------------------
(* The rows and the batches of the threads *)

\* The invariant of the next state.
LEMMA RowsTo ==
    ASSUME rows' \in [Row -> MaybeRec],
           plan' \in [Thread -> [row : [Row -> MaybeRec \cup {Gone}], keys : SUBSET Key, begun : BOOLEAN]],
           \A t \in Thread : PlanFits(plan'[t], th'[t]),
           \A k \in Key \ torn' : KeyFits(k, plan', th', rows', docs')
    PROVE  RowsInv'
<1>1. RowsTypeOK' BY DEF RowsTypeOK
<1>2. (\A t \in Thread : PlanFits(plan[t], th[t]))' BY DEF PlanFits
<1>3. (\A k \in Key \ torn : KeyFits(k, plan, th, rows, docs))' BY DEF KeyFits, Derived, StoredThen, DocsThen
<1> QED BY <1>1, <1>2, <1>3 DEF RowsInv

\* A thread whose batch has no derived rows.
LEMMA NoPlanFits ==
    ASSUME NEW s, s.batch = EmptyBatch
    PROVE  PlanFits(NoPlan, s)
<1>1. /\ NoPlan.keys = {} /\ ~NoPlan.begun /\ NoPlan.row = NoRows /\ \A x \in Row : NoPlan.row[x] = None
  BY DEF NoPlan, NoRows
<1>2. \A k \in Key : s.batch.doc[k] = None BY DEF EmptyBatch, NoRecords
<1>3. \A k \in Key : Own(k) \subseteq Row BY OwnRows
<1> QED BY <1>1, <1>2, <1>3 DEF PlanFits

\* The plan of a thread whose locals go from s to u, with the rows of its
\* batch as they are.
LEMMA PlanStays ==
    ASSUME NEW q, NEW s, NEW u, PlanFits(q, s), u.batch = s.batch \/ u.batch = EmptyBatch,
           s.pc \in {"build", "commit"} =>
             s.pc = "build" /\ u.batch = s.batch /\ (u.pc \in {"build", "commit"} \/ s.batch = EmptyBatch),
           q.keys \subseteq Key
    PROVE  PlanFits(q, u) /\ (q.keys # {} => u.batch = s.batch)
<1>1. CASE q.keys = {}
  <2>1. q.row = NoRows /\ ~q.begun /\ \A x \in Row : q.row[x] = None BY <1>1 DEF PlanFits, NoRows
  <2>2. \A k \in Key : u.batch.doc[k] = None BY <1>1 DEF PlanFits, EmptyBatch, NoRecords
  <2>3. \A k \in Key : Own(k) \subseteq Row BY OwnRows
  <2> QED BY <1>1, <2>1, <2>2, <2>3 DEF PlanFits
<1>2. CASE q.keys # {}
  <2>1. s.pc = "build" /\ u.batch = s.batch /\ ~q.begun BY <1>2 DEF PlanFits
  <2>2. PICK k \in Key : k \in q.keys BY <1>2
  <2>3. s.batch # EmptyBatch BY <2>1, <2>2 DEF PlanFits, EmptyBatch, NoRecords
  <2>4. u.pc \in {"build", "commit"} BY <2>1, <2>3
  <2> QED BY <1>2, <2>1, <2>4 DEF PlanFits
<1> QED BY <1>1, <1>2

\* A step that appends nothing to a batch and commits none.
LEMMA RowsQuiet ==
    ASSUME RowsInv, TypeOK, NEW t \in Thread, th' = [th EXCEPT ![t] = th'[t]],
           docs' = docs, UNCHANGED rowVars,
           th'[t].batch = th[t].batch \/ th'[t].batch = EmptyBatch,
           th[t].pc \in {"build", "commit"} =>
             /\ th[t].pc = "build" /\ th'[t].batch = th[t].batch
             /\ th'[t].pc \in {"build", "commit"} \/ th[t].batch = EmptyBatch
    PROVE  RowsInv'
<1>1. rows' = rows /\ plan' = plan /\ torn' = torn BY DEF rowVars
<1>2. \A x \in Thread \ {t} : th'[x] = th[x] BY DEF TypeOK, ThreadsOK
<1>3. /\ rows \in [Row -> MaybeRec]
      /\ plan \in [Thread -> [row : [Row -> MaybeRec \cup {Gone}], keys : SUBSET Key, begun : BOOLEAN]]
      /\ \A x \in Thread : PlanFits(plan[x], th[x])
      /\ \A k \in Key \ torn : KeyFits(k, plan, th, rows, docs)
  BY DEF RowsInv, RowsTypeOK
<1>4. plan[t].keys \subseteq Key /\ PlanFits(plan[t], th[t]) BY <1>3
<1>5. PlanFits(plan[t], th'[t]) /\ (plan[t].keys # {} => th'[t].batch = th[t].batch) BY <1>4, PlanStays
<1>6. \A x \in Thread : PlanFits(plan'[x], th'[x]) BY <1>1, <1>2, <1>3, <1>5
<1>7. ASSUME NEW k \in Key \ torn' PROVE KeyFits(k, plan', th', rows', docs')
  <2>1. KeyFits(k, plan, th, rows, docs) BY <1>1, <1>3
  <2>2. \A x \in Thread : k \in plan[x].keys => th'[x].batch = th[x].batch BY <1>2, <1>5
  <2>3. KeyFits(k, plan, th', rows, docs) BY <2>1, <2>2 DEF KeyFits
  <2> QED BY <1>1, <2>3
<1>8. rows' \in [Row -> MaybeRec]
      /\ plan' \in [Thread -> [row : [Row -> MaybeRec \cup {Gone}], keys : SUBSET Key, begun : BOOLEAN]]
  BY <1>1, <1>3
<1> QED BY <1>6, <1>7, <1>8, RowsTo

\* The documents once one more row is in the batch.
LEMMA DocsOf ==
    ASSUME NEW k \in Key, NEW b, NEW c, NEW d, c.doc[k] # None, \A j \in Key \ {k} : c.doc[j] = b.doc[j]
    PROVE  /\ DocsThen(c, d)[k] = IF c.doc[k] = Gone THEN None ELSE c.doc[k]
           /\ \A j \in Key \ {k} : DocsThen(c, d)[j] = DocsThen(b, d)[j]
BY DEF DocsThen

\* The rows of another key are those they were.
LEMMA OthersDerived ==
    ASSUME NEW k \in Key, NEW j \in Key \ {k}, NEW p, NEW q, NEW f, NEW d, RowsOf(k, p, q),
           d \in MaybeRec, Derived(StoredThen(p, f), j, d)
    PROVE  Derived(StoredThen(q, f), j, d)
<1>1. \A x \in Own(j) : x \in Row /\ q[x] = p[x] BY OwnRows DEF RowsOf
<1>2. \A x \in Own(j) : StoredThen(q, f)[x] = StoredThen(p, f)[x] BY <1>1 DEF StoredThen
<1>3. Lives(d) => VecBucket[d.val] \in Bucket BY RecordRows DEF Lives, MaybeRec
<1> QED BY <1>2, <1>3, OwnRows DEF Derived

\* The plan of the thread that appends a record with key k.
LEMMA PlanGrows ==
    ASSUME NEW k \in Key, NEW p, NEW q, NEW s, NEW u, PlanFits(p, s), RowsOf(k, p.row, q.row),
           q.keys = p.keys \cup {k}, q.begun = p.begun, p.keys \subseteq Key,
           s.pc # "commit", u.pc \in {"build", "commit"},
           u.batch.aux = s.batch.aux \cup AuxPids[k],
           u.batch.doc[k] # None, \A j \in Key \ {k} : u.batch.doc[j] = s.batch.doc[j]
    PROVE  PlanFits(q, u)
<1>1. ~p.begun BY DEF PlanFits
<1>2. \A j \in Key \ {k} : Own(j) \subseteq Row /\ \A x \in Own(j) : q.row[x] = p.row[x]
  BY OwnRows DEF RowsOf
<1>3. \A j \in q.keys : u.batch.doc[j] # None BY <1>1 DEF PlanFits
<1>4. \A j \in Key \ q.keys : u.batch.doc[j] = None /\ \A x \in Own(j) : q.row[x] = None
  BY <1>2 DEF PlanFits
<1>5. ASSUME NEW x \in Row, q.row[x] # None PROVE RowPid[x] \in u.batch.aux
  <2>1. CASE q.row[x] = p.row[x] BY <1>5, <2>1 DEF PlanFits
  <2>2. CASE q.row[x] # p.row[x] BY <2>2 DEF RowsOf
  <2> QED BY <2>1, <2>2
<1> QED BY <1>1, <1>3, <1>4, <1>5 DEF PlanFits

\* Thread t appends a record with key k to its batch.
LEMMA RowsPlanned ==
    ASSUME RowsInv, TypeOK, NEW t \in Thread, NEW k \in Key, th' = [th EXCEPT ![t] = th'[t]],
           docs' = docs, rows' = rows, plan' = [plan EXCEPT ![t] = plan'[t]],
           plan'[t].keys = plan[t].keys \cup {k}, plan'[t].begun = plan[t].begun,
           plan'[t] \in [row : [Row -> MaybeRec \cup {Gone}], keys : SUBSET Key, begun : BOOLEAN],
           RowsOf(k, plan[t].row, plan'[t].row),
           th[t].pc # "commit", th'[t].pc \in {"build", "commit"},
           th'[t].batch.aux = th[t].batch.aux \cup AuxPids[k],
           th'[t].batch.doc[k] # None, \A j \in Key \ {k} : th'[t].batch.doc[j] = th[t].batch.doc[j],
           torn \subseteq torn',
           k \notin torn' => /\ \A x \in Thread : k \notin plan[x].keys
                             /\ Derived(StoredThen(plan'[t].row, rows), k, DocsThen(th'[t].batch, docs)[k])
    PROVE  RowsInv'
<1> DEFINE s == th[t]
           u == th'[t]
           p == plan[t]
           q == plan'[t]
           PlanType == [row : [Row -> MaybeRec \cup {Gone}], keys : SUBSET Key, begun : BOOLEAN]
<1>1. /\ rows \in [Row -> MaybeRec] /\ plan \in [Thread -> PlanType]
      /\ \A x \in Thread : PlanFits(plan[x], th[x])
      /\ \A j \in Key \ torn : KeyFits(j, plan, th, rows, docs)
  BY DEF RowsInv, RowsTypeOK
<1>2. \A x \in Thread \ {t} : th'[x] = th[x] /\ plan'[x] = plan[x] BY <1>1 DEF TypeOK, ThreadsOK
<1>3. PlanFits(p, s) /\ p.keys \subseteq Key BY <1>1
<1>4. PlanFits(q, u) BY <1>3, PlanGrows
<1>5. ~p.begun /\ ~q.begun BY <1>3 DEF PlanFits
<1>6. docs \in [Key -> MaybeRec] /\ s \in LocalState BY DEF TypeOK, SharedOK, ThreadsOK
<1>7. \A j \in Key : DocsThen(s.batch, docs)[j] \in MaybeRec BY <1>6 DEF DocsThen, LocalState, Batch, MaybeRec
<1>8. \A j \in Key \ {k} : DocsThen(u.batch, docs)[j] = DocsThen(s.batch, docs)[j] BY DocsOf
<1>9. ASSUME NEW j \in Key \ torn' PROVE KeyFits(j, plan', th', rows', docs')
  <2>1. KeyFits(j, plan, th, rows, docs) BY <1>1
  <2>2. CASE j = k
    <3>1. \A x \in Thread : j \in plan'[x].keys => x = t BY <1>2, <2>2
    <3>2. Derived(StoredThen(q.row, rows), j, DocsThen(u.batch, docs)[j]) BY <2>2
    <3>3. Derived(rows, j, docs[j]) BY <2>1, <2>2 DEF KeyFits
    <3> QED BY <3>1, <3>2, <3>3 DEF KeyFits
  <2>3. CASE j # k
    <3>1. \A x \in Thread : /\ j \in plan'[x].keys <=> j \in plan[x].keys
                            /\ plan'[x].begun <=> plan[x].begun
      BY <1>2, <2>3
    <3>2. ASSUME NEW x \in Thread, j \in plan'[x].keys
          PROVE  Derived(StoredThen(plan'[x].row, rows), j, DocsThen(th'[x].batch, docs)[j])
      <4>1. Derived(StoredThen(plan[x].row, rows), j, DocsThen(th[x].batch, docs)[j])
        BY <2>1, <3>1, <3>2 DEF KeyFits
      <4>2. CASE x = t BY <1>7, <1>8, <2>3, <4>1, <4>2, OthersDerived
      <4>3. CASE x # t BY <1>2, <4>1, <4>3
      <4> QED BY <4>2, <4>3
    <3> QED BY <2>1, <3>1, <3>2 DEF KeyFits
  <2> QED BY <2>2, <2>3
<1>10. \A x \in Thread : PlanFits(plan'[x], th'[x]) BY <1>1, <1>2, <1>4
<1>11. rows' \in [Row -> MaybeRec] /\ plan' \in [Thread -> PlanType] BY <1>1
<1> QED BY <1>9, <1>10, <1>11, RowsTo

\* The rows that one record operation appends.
LEMMA AppendedRows ==
    ASSUME NEW b \in Batch, NEW k \in Key, NEW v, NEW e, NEW c, c = AppendRows(b, k, v, e)
    PROVE  /\ c.aux = b.aux \cup AuxPids[k] /\ c.doc[k] = v
           /\ \A j \in Key \ {k} : c.doc[j] = b.doc[j]
BY DEF AppendRows, Batch

\* The bookkeeping of a record operation on key k.
LEMMA PlannedShape ==
    ASSUME RowsInv, NEW t \in Thread, NEW k \in Key, NEW p \in [Row -> MaybeRec \cup {Gone}], NEW old,
           Planned(t, k, p, old)
    PROVE  /\ rows' = rows /\ plan' = [plan EXCEPT ![t] = plan'[t]]
           /\ plan'[t].row = p /\ plan'[t].keys = plan[t].keys \cup {k} /\ plan'[t].begun = plan[t].begun
           /\ plan'[t] \in [row : [Row -> MaybeRec \cup {Gone}], keys : SUBSET Key, begun : BOOLEAN]
           /\ torn \subseteq torn'
           /\ k \notin torn' => /\ old = docs[k] /\ \A x \in Thread : k \notin plan[x].keys
                                /\ Derived(rows, k, docs[k]) /\ \A x \in Own(k) : plan[t].row[x] = None
<1> DEFINE PlanType == [row : [Row -> MaybeRec \cup {Gone}], keys : SUBSET Key, begun : BOOLEAN]
           ks == plan[t].keys \cup {k}
           v == [plan[t] EXCEPT !.row = p, !.keys = ks]
<1>1. /\ plan \in [Thread -> PlanType]
      /\ \A x \in Thread : PlanFits(plan[x], th[x])
      /\ \A j \in Key \ torn : KeyFits(j, plan, th, rows, docs)
  BY DEF RowsInv, RowsTypeOK
<1>2. rows' = rows /\ plan' = [plan EXCEPT ![t] = v] /\ torn' = IF Exact(k, old) THEN torn ELSE torn \cup {k}
  BY <1>1 DEF Planned
<1>3. v.row = p /\ v.keys = ks /\ v.begun = plan[t].begun /\ v \in PlanType /\ ks \subseteq Key
  BY <1>1
<1> HIDE DEF v
<1>4. plan'[t] = v /\ plan' = [plan EXCEPT ![t] = plan'[t]] BY <1>1, <1>2
<1>5. ASSUME k \notin torn' PROVE /\ old = docs[k] /\ \A x \in Thread : k \notin plan[x].keys
                                  /\ Derived(rows, k, docs[k]) /\ \A x \in Own(k) : plan[t].row[x] = None
  <2>1. Exact(k, old) /\ k \notin torn BY <1>2, <1>5
  <2>2. old = docs[k] /\ \A x \in Thread : k \notin plan[x].keys BY <2>1 DEF Exact
  <2>3. KeyFits(k, plan, th, rows, docs) BY <1>1, <2>1
  <2>4. PlanFits(plan[t], th[t]) BY <1>1
  <2>5. Derived(rows, k, docs[k]) BY <2>2, <2>3 DEF KeyFits
  <2>6. \A x \in Own(k) : plan[t].row[x] = None BY <2>2, <2>4 DEF PlanFits
  <2> QED BY <2>2, <2>5, <2>6
<1>6. torn \subseteq torn' BY <1>2
<1> QED BY <1>2, <1>3, <1>4, <1>5, <1>6

\* A record is persisted: Write, Pin and the tombstones of a compaction.
LEMMA RowsPersisted ==
    ASSUME RowsInv, TypeOK, FlowInv, NEW t \in Thread, NEW r \in Rec, NEW e,
           th' = [th EXCEPT ![t] = th'[t]], docs' = docs,
           th[t].pc # "commit", th'[t].pc \in {"build", "commit"},
           th'[t].batch = AppendRows(th[t].batch, r.key, r, e),
           Last(th'[t].upserts) = r, Persists(t)
    PROVE  RowsInv'
<1> DEFINE k == r.key
           old == records[k]
           q == PersistRecord(plan[t].row, r, old)
           u == th'[t]
<1>1. k \in Key /\ th[t].batch \in Batch BY RecordRows, FlowAt DEF LocalState
<1>2. old \in MaybeRec /\ (old # None => old.key = k) BY <1>1, FlowAt DEF MaybeRec, Homed
<1>3. plan[t].row \in [Row -> MaybeRec \cup {Gone}] BY DEF RowsInv, RowsTypeOK
<1>4. RowsOf(k, plan[t].row, q) BY <1>2, <1>3, PersistOwn
<1>5. q \in [Row -> MaybeRec \cup {Gone}] BY <1>4 DEF RowsOf
<1>6. Planned(t, k, q, old) BY DEF Persists
<1>7. /\ u.batch.aux = th[t].batch.aux \cup AuxPids[k] /\ u.batch.doc[k] = r /\ u.batch.doc[k] # None
      /\ \A j \in Key \ {k} : u.batch.doc[j] = th[t].batch.doc[j]
  BY <1>1, AppendedRows, SentinelAssumption
<1>8. /\ rows' = rows /\ plan' = [plan EXCEPT ![t] = plan'[t]]
      /\ plan'[t].row = q /\ plan'[t].keys = plan[t].keys \cup {k} /\ plan'[t].begun = plan[t].begun
      /\ plan'[t] \in [row : [Row -> MaybeRec \cup {Gone}], keys : SUBSET Key, begun : BOOLEAN]
      /\ torn \subseteq torn'
      /\ k \notin torn' => /\ old = docs[k] /\ \A x \in Thread : k \notin plan[x].keys
                           /\ Derived(rows, k, docs[k]) /\ \A x \in Own(k) : plan[t].row[x] = None
  BY <1>1, <1>5, <1>6, PlannedShape
<1>9. DocsThen(u.batch, docs)[k] = r
  <2>1. r # Gone BY SentinelAssumption
  <2> QED BY <1>1, <1>7, <2>1, DocsOf
<1>10. ASSUME k \notin torn' PROVE Derived(StoredThen(q, rows), k, r)
  <2>1. Derived(rows, k, old) /\ \A x \in Own(k) : plan[t].row[x] = None BY <1>8, <1>10
  <2> QED BY <1>2, <2>1, PersistDerives
<1> HIDE DEF k, old, q, u
<1>11. k \notin torn' => /\ \A x \in Thread : k \notin plan[x].keys
                         /\ Derived(StoredThen(plan'[t].row, rows), k, DocsThen(u.batch, docs)[k])
  BY <1>8, <1>9, <1>10
<1>12. RowsOf(k, plan[t].row, plan'[t].row) BY <1>4, <1>8
<1> QED BY <1>1, <1>7, <1>8, <1>11, <1>12, RowsPlanned DEF u

\* The last of a list after an Append.
LEMMA LastAppended == ASSUME NEW S, NEW q \in Seq(S), NEW r \in S PROVE Last(Append(q, r)) = r
<1>1. Len(Append(q, r)) = Len(q) + 1 /\ Append(q, r)[Len(q) + 1] = r OBVIOUS
<1> QED BY <1>1 DEF Last

\* Write adds a record to its batch.
LEMMA RowsWrite ==
    ASSUME RowsInv, TypeOK, FlowInv, NEW t \in Thread, RowsWriteRecord(t)
    PROVE  RowsInv'
<1>1. WriteRecord(t) /\ Persists(t) BY DEF RowsWriteRecord
<1>2. OnlyLocal(t) BY <1>1, WriteShape
<1>3. PICK k \in Key, r \in Rec, e \in Event :
        /\ r.key = k /\ th[t].pc = "build" /\ th'[t].pc = "build"
        /\ th'[t].upserts = Append(th[t].upserts, r)
        /\ th'[t].batch = AppendRows(th[t].batch, k, r, e)
  BY <1>1, WriteShape
<1>4. th[t].upserts \in Seq(Rec) BY FlowAt DEF LocalState
<1>5. Last(th'[t].upserts) = r BY <1>3, <1>4, LastAppended
<1>6. th' = [th EXCEPT ![t] = th'[t]] /\ docs' = docs BY <1>2 DEF OnlyLocal, storeVars
<1>7. th'[t].batch = AppendRows(th[t].batch, r.key, r, e) BY <1>3
<1> QED BY <1>1, <1>3, <1>5, <1>6, <1>7, RowsPersisted

\* Pin has a record of one, or refuses.
LEMMA RowsPin ==
    ASSUME RowsInv, TypeOK, FlowInv, NEW t \in Thread, RowsPinCheck(t)
    PROVE  RowsInv'
<1>1. PinCheck(t) /\ IF th'[t].pc = "commit" THEN Persists(t) ELSE UNCHANGED rowVars BY DEF RowsPinCheck
<1>2. OnlyLocal(t) /\ th[t].pc = "check" BY <1>1, PinShape
<1>3. th' = [th EXCEPT ![t] = th'[t]] /\ docs' = docs BY <1>2 DEF OnlyLocal, storeVars
<1>4. CASE th'[t] = Idle
  <2>1. th'[t].pc = "idle" /\ th'[t].batch = EmptyBatch BY <1>4 DEF Idle
  <2>2. UNCHANGED rowVars BY <1>1, <2>1
  <2> QED BY <1>2, <1>3, <2>1, <2>2, RowsQuiet
<1>5. CASE th'[t] # Idle
  <2>1. PICK k \in Key, r \in Rec, e \in Event :
          /\ th[t].snap[k] \in Rec /\ r.key = th[t].snap[k].key
          /\ th'[t].pc = "commit" /\ th'[t].upserts = <<r>>
          /\ th'[t].batch = AppendRows(th[t].batch, k, r, e)
    BY <1>1, <1>5, PinShape
  <2>2. r.key = k BY <2>1, FlowAt DEF Flow, Homed
  <2>3. Last(th'[t].upserts) = r BY <2>1 DEF Last
  <2>4. th'[t].batch = AppendRows(th[t].batch, r.key, r, e) /\ Persists(t) BY <1>1, <2>1, <2>2
  <2> QED BY <1>2, <1>3, <2>1, <2>3, <2>4, RowsPersisted
<1> QED BY <1>4, <1>5

\* A compaction replaces a record by a tombstone.
LEMMA RowsTomb ==
    ASSUME RowsInv, TypeOK, FlowInv, NEW t \in Thread, RowsCompactTomb(t)
    PROVE  RowsInv'
<1>1. CompactTomb(t) /\ Persists(t) BY DEF RowsCompactTomb
<1>2. OnlyLocal(t) BY <1>1, TombShape
<1>3. PICK k \in Key, r \in Rec, e \in Event :
        /\ th[t].snap[k] \in Rec /\ r.key = th[t].snap[k].key
        /\ th[t].pc = "build" /\ th'[t].pc = "build"
        /\ th'[t].upserts = Append(th[t].upserts, r)
        /\ th'[t].batch = AppendRows(th[t].batch, k, r, e)
  BY <1>1, TombShape, ZenonT(60)
<1>4. r.key = k BY <1>3, FlowAt DEF Flow, Homed
<1>5. th[t].upserts \in Seq(Rec) BY FlowAt DEF LocalState
<1>6. Last(th'[t].upserts) = r BY <1>3, <1>5, LastAppended
<1>7. th' = [th EXCEPT ![t] = th'[t]] /\ docs' = docs BY <1>2 DEF OnlyLocal, storeVars
<1>8. th'[t].batch = AppendRows(th[t].batch, r.key, r, e) BY <1>3, <1>4
<1> QED BY <1>1, <1>3, <1>6, <1>7, <1>8, RowsPersisted

\* A compaction deletes a tombstone with its rows.
LEMMA RowsDelete ==
    ASSUME RowsInv, TypeOK, FlowInv, NEW t \in Thread, RowsCompactDelete(t)
    PROVE  RowsInv'
<1> DEFINE s == th[t]
           u == th'[t]
<1>0. s \in LocalState /\ Homed(s.snap) BY FlowAt DEF Flow
<1>1. PICK k \in ToDelete(s) :
        Reclaim(t, k) /\ Planned(t, k, DeleteRecordStorage(plan[t].row, s.snap[k]), s.snap[k])
  BY DEF RowsCompactDelete
<1> DEFINE r == s.snap[k]
           q == DeleteRecordStorage(plan[t].row, r)
           e == MakeEvent(r, clock, local_seq + 1)
           bt == AppendRows(s.batch, k, Gone, e)
           m == s.n + 1
           sn == [s.snap EXCEPT ![k] = None]
           new == [s EXCEPT !.n = m, !.snap = sn, !.batch = bt, !.evs = @ \cup {e}, !.dels = @ \cup {k}]
<1>2. k \in Key /\ r # None BY <1>1 DEF ToDelete
<1>3. r \in Rec /\ r.key = k /\ s.batch \in Batch BY <1>0, <1>2 DEF LocalState, MaybeRec, Homed
<1>4. s.pc = "build" /\ th' = [th EXCEPT ![t] = new] /\ docs' = docs
  BY <1>1 DEF Reclaim, Become, storeVars
<1>5. u = new /\ th' = [th EXCEPT ![t] = u]
  <2> HIDE DEF new
  <2> QED BY <1>4, Moved
<1>6. new.pc = s.pc /\ new.batch = bt
  <2> HIDE DEF e, bt, m, sn
  <2> QED BY <1>0 DEF LocalState
<1> HIDE DEF new, e
<1>7. /\ u.batch.aux = s.batch.aux \cup AuxPids[k] /\ u.batch.doc[k] = Gone /\ u.batch.doc[k] # None
      /\ \A j \in Key \ {k} : u.batch.doc[j] = s.batch.doc[j]
  <2>1. u.batch = AppendRows(s.batch, k, Gone, e) BY <1>5, <1>6
  <2>2. /\ u.batch.aux = s.batch.aux \cup AuxPids[k] /\ u.batch.doc[k] = Gone
        /\ \A j \in Key \ {k} : u.batch.doc[j] = s.batch.doc[j]
    BY <1>2, <1>3, <2>1, AppendedRows
  <2> HIDE DEF u, s
  <2> QED BY <2>2, SentinelAssumption
<1>8. plan[t].row \in [Row -> MaybeRec \cup {Gone}] BY DEF RowsInv, RowsTypeOK
<1>9. RowsOf(k, plan[t].row, q) BY <1>3, <1>8, DeleteOwn
<1>10. q \in [Row -> MaybeRec \cup {Gone}] BY <1>9 DEF RowsOf
<1>11. Planned(t, k, q, r) BY <1>1
<1> HIDE DEF q
<1>12. /\ rows' = rows /\ plan' = [plan EXCEPT ![t] = plan'[t]]
       /\ plan'[t].row = q /\ plan'[t].keys = plan[t].keys \cup {k} /\ plan'[t].begun = plan[t].begun
       /\ plan'[t] \in [row : [Row -> MaybeRec \cup {Gone}], keys : SUBSET Key, begun : BOOLEAN]
       /\ torn \subseteq torn'
       /\ k \notin torn' => /\ r = docs[k] /\ \A x \in Thread : k \notin plan[x].keys
                            /\ Derived(rows, k, docs[k]) /\ \A x \in Own(k) : plan[t].row[x] = None
  BY <1>2, <1>10, <1>11, PlannedShape
<1>13. DocsThen(u.batch, docs)[k] = None BY <1>2, <1>7, DocsOf
<1>14. ASSUME k \notin torn' PROVE Derived(StoredThen(q, rows), k, None)
  <2>1. Derived(rows, k, r) /\ \A x \in Own(k) : plan[t].row[x] = None BY <1>12, <1>14
  <2> QED BY <1>3, <2>1, DeleteDerives DEF q
<1> HIDE DEF r
<1>15. k \notin torn' => /\ \A x \in Thread : k \notin plan[x].keys
                         /\ Derived(StoredThen(plan'[t].row, rows), k, DocsThen(u.batch, docs)[k])
  BY <1>12, <1>13, <1>14
<1>16. RowsOf(k, plan[t].row, plan'[t].row) BY <1>9, <1>12
<1>17. s.pc # "commit" /\ u.pc \in {"build", "commit"} BY <1>4, <1>5, <1>6
<1> HIDE DEF u
<1> QED BY <1>2, <1>4, <1>5, <1>7, <1>12, <1>15, <1>16, <1>17, RowsPlanned DEF u

\* One partition of a batch: what the rows and the documents will be stays.
LEMMA PartitionStored ==
    ASSUME NEW b \in Batch, NEW c, NEW d, NEW p \in Partition, NEW k \in Key,
           c = WithoutPid(b, p),
           d = DocsAfter(b, p)[k]
    PROVE  /\ IF c.doc[k] = None THEN d = DocsThen(b, docs)[k]
              ELSE c.doc[k] = b.doc[k] /\ d = docs[k]
           /\ b.doc[k] = None => c.doc[k] = None /\ d = docs[k]
           /\ c.aux = b.aux \ {p}
<1>1. c.doc[k] = (IF DocPid[k] = p THEN None ELSE b.doc[k]) /\ c.aux = b.aux \ {p} BY DEF WithoutPid
<1>2. d = IF DocPid[k] # p \/ b.doc[k] = None THEN docs[k] ELSE IF b.doc[k] = Gone THEN None ELSE b.doc[k]
  BY DEF DocsAfter
<1>3. DocsThen(b, docs)[k] = IF b.doc[k] = None THEN docs[k] ELSE IF b.doc[k] = Gone THEN None ELSE b.doc[k]
  BY DEF DocsThen
<1> QED BY <1>1, <1>2, <1>3, SentinelAssumption

\* One partition of a batch is committed: where the thread goes, and its rows.
LEMMA BatchShape ==
    ASSUME RowsInv, TypeOK, FlowInv, NEW t \in Thread, RowsBatchWrite(t)
    PROVE  /\ th' = [th EXCEPT ![t] = th'[t]] /\ th[t].pc = "commit" /\ torn' = torn
           /\ th'[t].pc = "commit" \/ th'[t].batch = EmptyBatch
           /\ plan' = [plan EXCEPT ![t] = plan'[t]]
           /\ \E p \in Partition :
                /\ th'[t].batch = WithoutPid(th[t].batch, p)
                /\ docs' = DocsAfter(th[t].batch, p)
                /\ rows' = RowsAfter(plan[t].row, p)
                /\ \/ /\ th'[t].pc = "commit" /\ plan'[t].begun /\ plan'[t].keys = plan[t].keys
                      /\ plan'[t].row = [x \in Row |-> IF RowPid[x] = p THEN None ELSE plan[t].row[x]]
                      /\ plan'[t] \in [row : [Row -> MaybeRec \cup {Gone}], keys : SUBSET Key, begun : BOOLEAN]
                   \/ th'[t].pc # "commit" /\ plan'[t] = NoPlan
<1> DEFINE s == th[t]
           PlanType == [row : [Row -> MaybeRec \cup {Gone}], keys : SUBSET Key, begun : BOOLEAN]
<1>0. s \in LocalState /\ plan \in [Thread -> PlanType] BY FlowAt DEF RowsInv, RowsTypeOK
<1>1. PICK p \in Partition :
        /\ CommitPartition(t, p)
        /\ rows' = RowsAfter(plan[t].row, p)
        /\ plan' = [plan EXCEPT ![t] = IF th'[t].pc = "commit" THEN PlanAfter(@, p) ELSE NoPlan]
        /\ UNCHANGED torn
  BY DEF RowsBatchWrite
<1> DEFINE rest == WithoutPid(s.batch, p)
           c == IF rest = EmptyBatch THEN AfterUpsert(s.op, s.upserts) ELSE "commit"
           v == [s EXCEPT !.batch = rest, !.pc = c]
           left == [x \in Row |-> IF RowPid[x] = p THEN None ELSE plan[t].row[x]]
           w == [plan[t] EXCEPT !.begun = TRUE, !.row = left]
<1>2. s.pc = "commit" /\ th' = [th EXCEPT ![t] = v] /\ docs' = DocsAfter(s.batch, p)
  BY <1>1 DEF CommitPartition, Become
<1>3. th'[t] = v /\ th' = [th EXCEPT ![t] = th'[t]]
  <2> HIDE DEF v
  <2> QED BY <1>2, Moved
<1>4. v.batch = rest /\ v.pc = c
  <2> HIDE DEF rest, c
  <2> QED BY <1>0 DEF LocalState
<1>5. plan' = [plan EXCEPT ![t] = IF th'[t].pc = "commit" THEN w ELSE NoPlan]
  <2>1. PlanAfter(plan[t], p) = w BY <1>0 DEF PlanAfter
  <2> HIDE DEF w
  <2> QED BY <1>1, <2>1
<1>6. left \in [Row -> MaybeRec \cup {Gone}] BY <1>0 DEF MaybeRec
<1>7. w.begun /\ w.keys = plan[t].keys /\ w.row = left /\ w \in PlanType
  <2> HIDE DEF left
  <2> QED BY <1>0, <1>6
<1> HIDE DEF w
<1>8. plan'[t] = (IF th'[t].pc = "commit" THEN w ELSE NoPlan) /\ plan' = [plan EXCEPT ![t] = plan'[t]]
  BY <1>0, <1>5
<1>9. th'[t].pc = "commit" \/ th'[t].batch = EmptyBatch BY <1>3, <1>4
<1> HIDE DEF v, rest, left, c
<1>10. /\ th'[t].batch = rest /\ rows' = RowsAfter(plan[t].row, p)
       /\ \/ /\ th'[t].pc = "commit" /\ plan'[t].begun /\ plan'[t].keys = plan[t].keys
             /\ plan'[t].row = left /\ plan'[t] \in PlanType
          \/ th'[t].pc # "commit" /\ plan'[t] = NoPlan
  BY <1>1, <1>3, <1>4, <1>7, <1>8
<1>11. \E p1 \in Partition :
         /\ th'[t].batch = WithoutPid(s.batch, p1)
         /\ docs' = DocsAfter(s.batch, p1)
         /\ rows' = RowsAfter(plan[t].row, p1)
         /\ \/ /\ th'[t].pc = "commit" /\ plan'[t].begun /\ plan'[t].keys = plan[t].keys
               /\ plan'[t].row = [x \in Row |-> IF RowPid[x] = p1 THEN None ELSE plan[t].row[x]]
               /\ plan'[t] \in PlanType
            \/ th'[t].pc # "commit" /\ plan'[t] = NoPlan
  <2> WITNESS p \in Partition
  <2> QED BY <1>2, <1>10, Zenon DEF rest, left
<1>12. torn' = torn BY <1>1
<1> QED BY <1>2, <1>3, <1>8, <1>9, <1>11, <1>12

\* The rows of a key in two stores that agree on them.
LEMMA SameDerived ==
    ASSUME NEW j \in Key, NEW d \in MaybeRec, NEW f, NEW g, Derived(f, j, d), \A x \in Own(j) : g[x] = f[x]
    PROVE  Derived(g, j, d)
<1>1. Lives(d) => VecBucket[d.val] \in Bucket BY RecordRows DEF Lives, MaybeRec
<1> QED BY <1>1, OwnRows DEF Derived

\* The plan of the thread after one more partition.
LEMMA PlanShrinks ==
    ASSUME NEW p \in Partition, NEW q, NEW v, NEW s, NEW u, PlanFits(q, s), s.pc = "commit", u.pc = "commit",
           s.batch \in Batch, u.batch = WithoutPid(s.batch, p), v.begun, v.keys = q.keys,
           v.row = [x \in Row |-> IF RowPid[x] = p THEN None ELSE q.row[x]]
    PROVE  PlanFits(v, u)
<1>1. \A k \in Key : s.batch.doc[k] = None => u.batch.doc[k] = None BY DEF WithoutPid
<1>2. u.batch.aux = s.batch.aux \ {p} BY DEF WithoutPid
<1>3. \A x \in Row : v.row[x] = IF RowPid[x] = p THEN None ELSE q.row[x] OBVIOUS
<1>4. v.keys = {} => v.row = NoRows BY DEF PlanFits, NoRows
<1>5. \A k \in Key : Own(k) \subseteq Row BY OwnRows
<1>6. \A k \in Key \ v.keys : u.batch.doc[k] = None /\ \A x \in Own(k) : v.row[x] = None
  BY <1>1, <1>3, <1>5 DEF PlanFits
<1>7. \A x \in Row : v.row[x] # None => RowPid[x] \in u.batch.aux BY <1>2, <1>3 DEF PlanFits
<1> QED BY <1>4, <1>6, <1>7 DEF PlanFits

\* The rows in the store and those still to come.
LEMMA PartitionRows ==
    ASSUME RowsInv, NEW t \in Thread, NEW p \in Partition, rows' = RowsAfter(plan[t].row, p)
    PROVE  /\ rows' \in [Row -> MaybeRec]
           /\ \A x \in Row : RowPid[x] = p => rows'[x] = StoredThen(plan[t].row, rows)[x]
           /\ \A x \in Row : RowPid[x] # p \/ plan[t].row[x] = None => rows'[x] = rows[x]
<1>1. rows \in [Row -> MaybeRec] /\ plan[t].row \in [Row -> MaybeRec \cup {Gone}] BY DEF RowsInv, RowsTypeOK
<1>2. \A x \in Row : rows'[x] = IF RowPid[x] # p \/ plan[t].row[x] = None THEN rows[x]
                                ELSE IF plan[t].row[x] = Gone THEN None ELSE plan[t].row[x]
  BY DEF RowsAfter
<1>3. rows' \in [Row -> MaybeRec] BY <1>1 DEF RowsAfter, MaybeRec
<1> QED BY <1>2, <1>3 DEF StoredThen

\* BatchWrite brings the rows of a partition into the store; at the last one,
\* the document and the derived rows of a key agree again.
LEMMA RowsCommit ==
    ASSUME RowsInv, TypeOK, FlowInv, NEW t \in Thread, RowsBatchWrite(t)
    PROVE  RowsInv'
<1> DEFINE s == th[t]
           u == th'[t]
           q == plan[t]
           v == plan'[t]
           PlanType == [row : [Row -> MaybeRec \cup {Gone}], keys : SUBSET Key, begun : BOOLEAN]
<1>1. /\ rows \in [Row -> MaybeRec] /\ plan \in [Thread -> PlanType]
      /\ \A x \in Thread : PlanFits(plan[x], th[x])
      /\ \A j \in Key \ torn : KeyFits(j, plan, th, rows, docs)
  BY DEF RowsInv, RowsTypeOK
<1>2. /\ th' = [th EXCEPT ![t] = u] /\ s.pc = "commit" /\ torn' = torn
      /\ u.pc = "commit" \/ u.batch = EmptyBatch
      /\ plan' = [plan EXCEPT ![t] = v]
  BY BatchShape
<1>3. PICK p \in Partition :
        /\ u.batch = WithoutPid(s.batch, p)
        /\ docs' = DocsAfter(s.batch, p)
        /\ rows' = RowsAfter(q.row, p)
        /\ \/ /\ u.pc = "commit" /\ v.begun /\ v.keys = q.keys
              /\ v.row = [x \in Row |-> IF RowPid[x] = p THEN None ELSE q.row[x]]
              /\ v \in PlanType
           \/ u.pc # "commit" /\ v = NoPlan
  BY BatchShape
<1>4. \A x \in Thread \ {t} : th'[x] = th[x] /\ plan'[x] = plan[x] BY <1>1, <1>2 DEF TypeOK, ThreadsOK
<1>5. PlanFits(q, s) /\ q \in PlanType /\ s.batch \in Batch /\ docs \in [Key -> MaybeRec]
  BY <1>1, FlowAt DEF LocalState
<1>6. /\ rows' \in [Row -> MaybeRec]
      /\ \A x \in Row : RowPid[x] = p => rows'[x] = StoredThen(q.row, rows)[x]
      /\ \A x \in Row : RowPid[x] # p \/ q.row[x] = None => rows'[x] = rows[x]
  BY <1>3, PartitionRows
<1>7. ASSUME NEW j \in Key
      PROVE  /\ IF u.batch.doc[j] = None THEN docs'[j] = DocsThen(s.batch, docs)[j]
                ELSE u.batch.doc[j] = s.batch.doc[j] /\ docs'[j] = docs[j]
             /\ s.batch.doc[j] = None => u.batch.doc[j] = None /\ docs'[j] = docs[j]
             /\ u.batch.aux = s.batch.aux \ {p}
             /\ DocsThen(u.batch, docs')[j] = DocsThen(s.batch, docs)[j]
  <2> DEFINE d == DocsAfter(s.batch, p)[j]
  <2>1. docs'[j] = d BY <1>3
  <2> HIDE DEF d, s, u
  <2>2. /\ IF u.batch.doc[j] = None THEN d = DocsThen(s.batch, docs)[j]
           ELSE u.batch.doc[j] = s.batch.doc[j] /\ d = docs[j]
        /\ s.batch.doc[j] = None => u.batch.doc[j] = None /\ d = docs[j]
        /\ u.batch.aux = s.batch.aux \ {p}
    BY <1>3, <1>5, PartitionStored DEF d
  <2>3. DocsThen(u.batch, docs')[j] = DocsThen(s.batch, docs)[j] BY <2>1, <2>2 DEF DocsThen
  <2> QED BY <2>1, <2>2, <2>3
<1>8. ASSUME u.pc = "commit" PROVE StoredThen(v.row, rows') = StoredThen(q.row, rows)
  <2>1. v.row = [x \in Row |-> IF RowPid[x] = p THEN None ELSE q.row[x]] BY <1>3, <1>8
  <2>2. ASSUME NEW x \in Row PROVE StoredThen(v.row, rows')[x] = StoredThen(q.row, rows)[x]
    <3>1. CASE RowPid[x] = p
      <4>1. v.row[x] = None /\ rows'[x] = StoredThen(q.row, rows)[x] BY <1>6, <2>1, <3>1
      <4> QED BY <4>1 DEF StoredThen
    <3>2. CASE RowPid[x] # p
      <4>1. v.row[x] = q.row[x] /\ rows'[x] = rows[x] BY <1>6, <2>1, <3>2
      <4> QED BY <4>1 DEF StoredThen
    <3> QED BY <3>1, <3>2
  <2> QED BY <2>2 DEF StoredThen
<1>9. ASSUME u.pc # "commit" PROVE /\ \A x \in Row : rows'[x] = StoredThen(q.row, rows)[x]
                                   /\ \A j \in Key : docs'[j] = DocsThen(s.batch, docs)[j]
  <2>1. u.batch = EmptyBatch BY <1>2, <1>9
  <2>2. u.batch.aux = {} /\ \A j \in Key : u.batch.doc[j] = None BY <2>1 DEF EmptyBatch, NoRecords
  <2>3. \A j \in Key : docs'[j] = DocsThen(s.batch, docs)[j] BY <1>7, <2>2
  <2>4. u.batch.aux = s.batch.aux \ {p} BY <1>3 DEF WithoutPid
  <2>5. ASSUME NEW x \in Row, RowPid[x] # p PROVE rows'[x] = StoredThen(q.row, rows)[x]
    <3>1. q.row[x] = None BY <1>5, <2>2, <2>4, <2>5 DEF PlanFits
    <3> QED BY <1>6, <2>5, <3>1 DEF StoredThen
  <2> QED BY <1>6, <2>3, <2>5
<1>10. PlanFits(v, u)
  <2>1. CASE u.pc = "commit"
    <3>1. /\ v.begun /\ v.keys = q.keys
          /\ v.row = [x \in Row |-> IF RowPid[x] = p THEN None ELSE q.row[x]]
      BY <1>3, <2>1
    <3> HIDE DEF s, u, v, q
    <3> QED BY <1>2, <1>3, <1>5, <2>1, <3>1, PlanShrinks
  <2>2. CASE u.pc # "commit" BY <1>2, <1>3, <2>2, NoPlanFits
  <2> QED BY <2>1, <2>2
<1>11. ASSUME NEW j \in Key \ torn' PROVE KeyFits(j, plan', th', rows', docs')
  <2>1. KeyFits(j, plan, th, rows, docs) BY <1>1, <1>2
  <2>2. CASE j \in q.keys
    <3>1. \A x \in Thread \ {t} : j \notin plan'[x].keys BY <1>4, <2>1, <2>2 DEF KeyFits
    <3>2. Derived(StoredThen(q.row, rows), j, DocsThen(s.batch, docs)[j]) BY <2>1, <2>2 DEF KeyFits
    <3>3. CASE u.pc = "commit"
      <4>1. v.begun /\ v.keys = q.keys BY <1>3, <3>3
      <4>2. Derived(StoredThen(v.row, rows'), j, DocsThen(u.batch, docs')[j]) BY <1>7, <1>8, <3>2, <3>3
      <4> QED BY <2>2, <3>1, <4>1, <4>2 DEF KeyFits
    <3>4. CASE u.pc # "commit"
      <4>1. v.keys = {} BY <1>3, <3>4 DEF NoPlan
      <4>2. DocsThen(s.batch, docs)[j] \in MaybeRec BY <1>5 DEF DocsThen, Batch, MaybeRec
      <4>3. \A x \in Own(j) : rows'[x] = StoredThen(q.row, rows)[x] BY <1>9, <3>4, OwnRows
      <4>4. Derived(rows', j, DocsThen(s.batch, docs)[j]) BY <3>2, <4>2, <4>3, SameDerived
      <4>5. Derived(rows', j, docs'[j]) BY <1>9, <3>4, <4>4
      <4> QED BY <3>1, <4>1, <4>5 DEF KeyFits
    <3> QED BY <3>3, <3>4
  <2>3. CASE j \notin q.keys
    <3>1. s.batch.doc[j] = None /\ \A x \in Own(j) : q.row[x] = None BY <1>5, <2>3 DEF PlanFits
    <3>2. docs'[j] = docs[j] BY <1>7, <3>1
    <3>3. \A x \in Own(j) : x \in Row /\ rows'[x] = rows[x] BY <1>6, <3>1, OwnRows
    <3>4. j \notin v.keys BY <1>3, <2>3 DEF NoPlan
    <3>5. ASSUME NEW x \in Thread, j \in plan'[x].keys
          PROVE  Derived(StoredThen(plan'[x].row, rows'), j, DocsThen(th'[x].batch, docs')[j])
      <4>1. x # t BY <3>4, <3>5
      <4>2. plan'[x] = plan[x] /\ th'[x] = th[x] BY <1>4, <4>1
      <4>3. Derived(StoredThen(plan[x].row, rows), j, DocsThen(th[x].batch, docs)[j])
        BY <2>1, <3>5, <4>2 DEF KeyFits
      <4>4. DocsThen(th[x].batch, docs')[j] = DocsThen(th[x].batch, docs)[j] BY <3>2 DEF DocsThen
      <4>5. DocsThen(th[x].batch, docs)[j] \in MaybeRec
        <5>1. th[x].batch \in Batch BY FlowAt DEF LocalState
        <5> QED BY <1>5, <5>1 DEF DocsThen, Batch, MaybeRec
      <4>6. \A y \in Own(j) : StoredThen(plan[x].row, rows')[y] = StoredThen(plan[x].row, rows)[y]
        BY <3>3 DEF StoredThen
      <4>7. Derived(StoredThen(plan[x].row, rows'), j, DocsThen(th[x].batch, docs)[j])
        BY <4>3, <4>5, <4>6, SameDerived
      <4> QED BY <4>2, <4>4, <4>7
    <3>6. ASSUME \A x \in Thread : j \in plan'[x].keys => ~plan'[x].begun PROVE Derived(rows', j, docs'[j])
      <4>1. \A x \in Thread : j \in plan[x].keys => ~plan[x].begun BY <1>4, <2>3, <3>6
      <4>2. Derived(rows, j, docs[j]) BY <2>1, <4>1 DEF KeyFits
      <4>3. docs[j] \in MaybeRec BY <1>5
      <4> QED BY <3>2, <3>3, <4>2, <4>3, SameDerived
    <3>7. \A x, y \in Thread : j \in plan'[x].keys /\ j \in plan'[y].keys => x = y
      BY <1>4, <2>1, <3>4 DEF KeyFits
    <3> QED BY <3>5, <3>6, <3>7 DEF KeyFits
  <2> QED BY <2>2, <2>3
<1>12. \A x \in Thread : PlanFits(plan'[x], th'[x]) BY <1>1, <1>4, <1>10
<1>13. v \in PlanType
  <2>1. NoPlan \in PlanType BY DEF NoPlan, NoRows, MaybeRec
  <2> QED BY <1>3, <2>1
<1>14. plan' \in [Thread -> PlanType] BY <1>1, <1>2, <1>13
<1> QED BY <1>6, <1>11, <1>12, <1>14, RowsTo

\* The batches of the threads in S are dropped; of those of which a part is in
\* the store, the keys are torn.
LEMMA RowsDropped ==
    ASSUME RowsInv, NEW S \in SUBSET Thread, rows' = rows, docs' = docs,
           \A x \in S : plan'[x] = NoPlan /\ th'[x].batch = EmptyBatch,
           \A x \in Thread \ S : plan'[x] = plan[x] /\ th'[x] = th[x],
           plan' = [x \in Thread |-> plan'[x]],
           torn \subseteq torn', \A x \in S : HalfDone(x) \subseteq torn'
    PROVE  RowsInv'
<1> DEFINE PlanType == [row : [Row -> MaybeRec \cup {Gone}], keys : SUBSET Key, begun : BOOLEAN]
<1>1. /\ rows \in [Row -> MaybeRec] /\ plan \in [Thread -> PlanType]
      /\ \A x \in Thread : PlanFits(plan[x], th[x])
      /\ \A j \in Key \ torn : KeyFits(j, plan, th, rows, docs)
  BY DEF RowsInv, RowsTypeOK
<1>2. NoPlan \in PlanType /\ NoPlan.keys = {} BY DEF NoPlan, NoRows, MaybeRec
<1>3. \A x \in Thread : plan'[x] \in PlanType BY <1>1, <1>2
<1>4. plan' \in [Thread -> PlanType]
  <2> HIDE DEF PlanType
  <2> QED BY <1>3
<1>5. ASSUME NEW x \in Thread PROVE PlanFits(plan'[x], th'[x])
  <2>1. CASE x \in S BY <2>1, NoPlanFits
  <2>2. CASE x \notin S BY <1>1, <2>2
  <2> QED BY <2>1, <2>2
<1>6. ASSUME NEW j \in Key \ torn' PROVE KeyFits(j, plan', th', rows', docs')
  <2>1. KeyFits(j, plan, th, rows, docs) BY <1>1
  <2>2. \A x \in Thread : j \in plan'[x].keys => x \notin S /\ plan'[x] = plan[x] /\ th'[x] = th[x]
    BY <1>2
  <2>3. \A x \in S : j \in plan[x].keys => ~plan[x].begun BY DEF HalfDone
  <2>4. (\A x \in Thread : j \in plan'[x].keys => ~plan'[x].begun) =>
        \A x \in Thread : j \in plan[x].keys => ~plan[x].begun
    BY <2>3
  <2>5. (\A x \in Thread : j \in plan'[x].keys => ~plan'[x].begun) => Derived(rows, j, docs[j])
    BY <2>1, <2>4 DEF KeyFits
  <2>6. \A x, y \in Thread : j \in plan'[x].keys /\ j \in plan'[y].keys => x = y
    BY <2>1, <2>2 DEF KeyFits
  <2>7. \A x \in Thread : j \in plan'[x].keys =>
          Derived(StoredThen(plan'[x].row, rows), j, DocsThen(th'[x].batch, docs)[j])
    BY <2>1, <2>2 DEF KeyFits
  <2>8. KeyFits(j, plan', th', rows, docs) BY <2>5, <2>6, <2>7 DEF KeyFits
  <2> QED BY <2>8
<1> QED BY <1>1, <1>4, <1>5, <1>6, RowsTo

\* A partition refuses its rows: the batch is dropped.
LEMMA RowsFail ==
    ASSUME RowsInv, TypeOK, FlowInv, NEW t \in Thread, RowsBatchWriteFail(t)
    PROVE  RowsInv'
<1>1. /\ BatchWriteFail(t) /\ plan' = [plan EXCEPT ![t] = NoPlan]
      /\ torn' = torn \cup HalfDone(t) /\ rows' = rows
  BY DEF RowsBatchWriteFail
<1>2. th' = [th EXCEPT ![t] = th'[t]] /\ docs' = docs /\ th'[t].batch = EmptyBatch
  BY <1>1, FailShape DEF storeVars, Idle
<1>3. DOMAIN plan = Thread /\ DOMAIN th = Thread BY DEF RowsInv, RowsTypeOK, TypeOK, ThreadsOK
<1> DEFINE S == {t}
<1>4. /\ \A x \in S : plan'[x] = NoPlan /\ th'[x].batch = EmptyBatch
      /\ \A x \in Thread \ S : plan'[x] = plan[x] /\ th'[x] = th[x]
      /\ plan' = [x \in Thread |-> plan'[x]]
      /\ torn \subseteq torn' /\ \A x \in S : HalfDone(x) \subseteq torn'
      /\ S \in SUBSET Thread
  BY <1>1, <1>2, <1>3
<1> HIDE DEF S
<1> QED BY <1>1, <1>2, <1>4, RowsDropped

\* The process stops: every batch is dropped.
LEMMA RowsStop ==
    ASSUME RowsInv, TypeOK, FlowInv, RowsRestart
    PROVE  RowsInv'
<1>1. /\ Restart /\ plan' = [t \in Thread |-> NoPlan]
      /\ torn' = torn \cup UNION {HalfDone(t) : t \in Thread} /\ rows' = rows
  BY DEF RowsRestart
<1>2. th' = FreshThreads /\ docs' = docs BY <1>1 DEF Restart, storeVars
<1>3. \A x \in Thread : th'[x].batch = EmptyBatch
  <2>1. \A x \in Thread : FreshThreads[x].batch = EmptyBatch BY DEF FreshThreads, Idle
  <2> QED BY <1>2, <2>1
<1> DEFINE S == Thread
<1>4. /\ \A x \in S : plan'[x] = NoPlan /\ th'[x].batch = EmptyBatch
      /\ \A x \in Thread \ S : plan'[x] = plan[x] /\ th'[x] = th[x]
      /\ plan' = [x \in Thread |-> plan'[x]]
      /\ torn \subseteq torn' /\ \A x \in S : HalfDone(x) \subseteq torn'
      /\ S \in SUBSET Thread
  BY <1>1, <1>3
<1> HIDE DEF S
<1> QED BY <1>1, <1>2, <1>4, RowsDropped

\* A start, and the steps of a request that leave its batch alone.
LEMMA RowsRequest ==
    ASSUME RowsInv, TypeOK, FlowInv, NEW t \in Thread, UNCHANGED rowVars,
           \/ WriteStart(t) \/ PinStart(t) \/ CompactStart(t)
           \/ WriteDedup(t) \/ WriteBuilt(t) \/ PinGet(t) \/ CompactBuilt(t) \/ WriteRoute(t)
    PROVE  RowsInv'
<1>1. CASE WriteStart(t) \/ PinStart(t) \/ CompactStart(t)
  <2>1. /\ th[t].pc = "idle" /\ th' = [th EXCEPT ![t] = th'[t]] /\ docs' = docs /\ th'[t].batch = EmptyBatch
    BY <1>1, StartShape DEF storeVars
  <2> QED BY <2>1, RowsQuiet
<1>2. CASE WriteDedup(t) \/ WriteBuilt(t) \/ PinGet(t) \/ CompactBuilt(t) \/ WriteRoute(t)
  <2>1. th' = [th EXCEPT ![t] = th'[t]] /\ docs' = docs BY <1>2, QuietShape
  <2>2. CASE th'[t] = Idle
    <3>1. th'[t].batch = EmptyBatch BY <2>2 DEF Idle
    <3>2. th[t].pc \in {"build", "get"} BY <1>2, <2>2, QuietShape DEF Idle, Same
    <3>3. th[t].pc = "build" => th[t].batch = EmptyBatch
      <4> SUFFICES ASSUME th[t].pc = "build" PROVE th[t].batch = EmptyBatch OBVIOUS
      <4> DEFINE s == th[t]
                 v1 == [s EXCEPT !.n = @ + 1]
                 v2 == [s EXCEPT !.pc = "commit"]
                 c == IF s.batch = EmptyBatch THEN "unmap" ELSE "commit"
                 v3 == [s EXCEPT !.pc = c, !.snap = NoRecords]
      <4>1. s \in LocalState BY FlowAt
      <4>2. Idle.pc = "idle" BY DEF Idle
      <4>3. CASE WriteDedup(t)
        <5>1. th' = [th EXCEPT ![t] = v1] BY <4>3 DEF WriteDedup, Become
        <5>2. v1.pc = "build" BY <4>1
        <5> HIDE DEF v1
        <5> QED BY <2>2, <4>2, <5>1, <5>2, Moved
      <4>4. CASE WriteBuilt(t)
        <5>1. th' = [th EXCEPT ![t] = IF s.batch = EmptyBatch THEN Idle ELSE v2] BY <4>4 DEF WriteBuilt, Become
        <5>2. v2.pc = "commit" BY <4>1
        <5> HIDE DEF v2
        <5>3. th'[t] = IF s.batch = EmptyBatch THEN Idle ELSE v2 BY <5>1, Moved, ZenonT(60)
        <5> QED BY <2>2, <4>2, <5>2, <5>3
      <4>5. CASE CompactBuilt(t)
        <5>1. th' = [th EXCEPT ![t] = v3] BY <4>5 DEF CompactBuilt, Become
        <5>2. v3.pc = c /\ c # "idle" BY <4>1
        <5> HIDE DEF v3
        <5> QED BY <2>2, <4>2, <5>1, <5>2, Moved
      <4> QED BY <1>2, <4>3, <4>4, <4>5 DEF PinGet, WriteRoute
    <3> QED BY <2>1, <3>1, <3>2, <3>3, RowsQuiet
  <2>3. CASE th'[t] # Idle
    <3>1. /\ th'[t].batch = th[t].batch
          /\ \/ th[t].pc = "build" /\ th'[t].pc = "build"
             \/ th[t].pc = "build" /\ th'[t].pc = "commit"
             \/ th[t].pc = "build" /\ th'[t].pc = "unmap" /\ th[t].batch = EmptyBatch
             \/ th[t].pc = "get" /\ th'[t].pc = "check"
             \/ th[t].pc = "route" /\ th'[t].pc = "enforce"
      BY <1>2, <2>3, QuietShape DEF Same
    <3> QED BY <2>1, <3>1, RowsQuiet
  <2> QED BY <2>2, <2>3
<1> QED BY <1>1, <1>2

\* Upserts, removals, evictions, and Warmup.
LEMMA RowsMemory ==
    ASSUME RowsInv, TypeOK, FlowInv, NEW t \in Thread, UNCHANGED rowVars,
           \/ UpsertMap(t) \/ UpsertIndex(t) \/ UpsertAccount(t)
           \/ RemoveMap(t) \/ EvictMap(t) \/ DropAccount(t) \/ DropIndex(t)
           \/ CompactReport(t) \/ EnforceDone(t)
           \/ WarmupScan(t) \/ WarmupLoad(t) \/ ReplayCheckpoints(t) \/ ReplayScan(t) \/ ReplayEvent(t)
    PROVE  RowsInv'
<1>1. CASE UpsertMap(t) \/ UpsertIndex(t) \/ UpsertAccount(t)
  <2>1. /\ th[t].pc \notin {"build", "commit"} /\ th' = [th EXCEPT ![t] = th'[t]] /\ docs' = docs
        /\ th'[t].batch = th[t].batch
    BY <1>1, UpsertShape DEF storeVars
  <2> QED BY <2>1, RowsQuiet
<1>2. CASE RemoveMap(t) \/ EvictMap(t) \/ DropAccount(t) \/ DropIndex(t)
  <2>1. /\ th[t].pc \notin {"build", "commit"} /\ th' = [th EXCEPT ![t] = th'[t]] /\ docs' = docs
        /\ th'[t].batch = th[t].batch
    BY <1>2, DropShape DEF storeVars
  <2> QED BY <2>1, RowsQuiet
<1>3. CASE CompactReport(t) \/ EnforceDone(t)
  <2>1. /\ th[t].pc \notin {"build", "commit"} /\ th' = [th EXCEPT ![t] = th'[t]] /\ docs' = docs
        /\ th'[t].batch = EmptyBatch
    BY <1>3, DoneShape DEF storeVars, Idle
  <2> QED BY <2>1, RowsQuiet
<1>4. CASE WarmupScan(t) \/ WarmupLoad(t) \/ ReplayCheckpoints(t) \/ ReplayScan(t) \/ ReplayEvent(t)
  <2>1. /\ th[t].pc \notin {"build", "commit"} /\ th' = [th EXCEPT ![t] = th'[t]] /\ docs' = docs
        /\ th'[t].batch = th[t].batch
    BY <1>4, WarmShape DEF storeVars
  <2> QED BY <2>1, RowsQuiet
<1> QED BY <1>1, <1>2, <1>3, <1>4

\* An empty store.
LEMMA InitRows == RowsInit => RowsInv
<1> SUFFICES ASSUME RowsInit PROVE RowsInv OBVIOUS
<1>1. Init /\ rows = NoRows /\ plan = [t \in Thread |-> NoPlan] /\ torn = {} BY DEF RowsInit
<1>2. RowsTypeOK BY <1>1 DEF RowsTypeOK, NoPlan, NoRows, MaybeRec
<1>3. \A t \in Thread : PlanFits(plan[t], th[t])
  <2>1. \A t \in Thread : th[t].batch = EmptyBatch BY <1>1 DEF Init, FreshThreads, Idle
  <2> QED BY <1>1, <2>1, NoPlanFits
<1>4. ASSUME NEW k \in Key PROVE KeyFits(k, plan, th, rows, docs)
  <2>1. docs[k] = None BY <1>1 DEF Init, NoRecords
  <2>2. Derived(rows, k, None) BY <1>1, OwnRows DEF Derived, Lives, NoRows
  <2>3. \A t \in Thread : plan[t].keys = {} BY <1>1 DEF NoPlan
  <2> QED BY <2>1, <2>2, <2>3 DEF KeyFits
<1> QED BY <1>2, <1>3, <1>4 DEF RowsInv

\* A step of the rows is a step of the engine.
LEMMA RowsAreNext == [RowsNext]_allVars => [Next]_vars
<1>1. ASSUME NEW t \in Thread, RowsCompactDelete(t) PROVE CompactDelete(t)
  BY <1>1 DEF RowsCompactDelete, CompactDelete
<1>2. ASSUME NEW t \in Thread, RowsBatchWrite(t) PROVE BatchWrite(t)
  BY <1>2 DEF RowsBatchWrite, BatchWrite
<1>3. ASSUME NEW t \in Thread,
             RowsWriteRecord(t) \/ RowsPinCheck(t) \/ RowsCompactTomb(t) \/ RowsBatchWriteFail(t)
      PROVE  WriteRecord(t) \/ PinCheck(t) \/ CompactTomb(t) \/ BatchWriteFail(t)
  BY <1>3 DEF RowsWriteRecord, RowsPinCheck, RowsCompactTomb, RowsBatchWriteFail
<1>4. ASSUME NEW t \in Thread, OtherStep(t)
      PROVE  WriteStart(t) \/ PinStart(t) \/ CompactStart(t) \/ Step(t)
  BY <1>4 DEF OtherStep, Step
<1>5. RowsRestart => Restart BY DEF RowsRestart
<1>6. RowsNext => Next
  <2>1. ASSUME NEW t \in Thread,
               \/ RowsWriteRecord(t) \/ RowsPinCheck(t) \/ RowsCompactTomb(t) \/ RowsCompactDelete(t)
               \/ RowsBatchWrite(t) \/ RowsBatchWriteFail(t)
        PROVE  Step(t)
    BY <1>1, <1>2, <1>3, <2>1 DEF Step
  <2> QED BY <1>4, <1>5, <2>1 DEF RowsNext, Next
<1>7. UNCHANGED allVars => UNCHANGED vars BY DEF allVars
<1> QED BY <1>6, <1>7

\* Every step keeps the derived rows with the documents.
LEMMA NextRows == TypeOK /\ FlowInv /\ RowsInv /\ [RowsNext]_allVars => RowsInv'
<1> SUFFICES ASSUME TypeOK, FlowInv, RowsInv, [RowsNext]_allVars PROVE RowsInv' OBVIOUS
<1>1. ASSUME NEW t \in Thread,
             \/ RowsWriteRecord(t) \/ RowsPinCheck(t) \/ RowsCompactTomb(t) \/ RowsCompactDelete(t)
             \/ RowsBatchWrite(t) \/ RowsBatchWriteFail(t)
      PROVE  RowsInv'
  BY <1>1, RowsWrite, RowsPin, RowsTomb, RowsDelete, RowsCommit, RowsFail
<1>2. ASSUME NEW t \in Thread, OtherStep(t), UNCHANGED rowVars PROVE RowsInv'
  BY <1>2, RowsRequest, RowsMemory DEF OtherStep
<1>3. CASE RowsRestart BY <1>3, RowsStop
<1>4. CASE ((Tick \/ Finished) /\ UNCHANGED rowVars) \/ UNCHANGED allVars
  <2>1. th' = th /\ docs' = docs /\ rows' = rows /\ plan' = plan /\ torn' = torn
    BY <1>4 DEF Tick, Finished, allVars, rowVars, vars, storeVars
  <2>2. /\ rows \in [Row -> MaybeRec]
        /\ plan \in [Thread -> [row : [Row -> MaybeRec \cup {Gone}], keys : SUBSET Key, begun : BOOLEAN]]
        /\ \A x \in Thread : PlanFits(plan[x], th[x])
        /\ \A j \in Key \ torn : KeyFits(j, plan, th, rows, docs)
    BY DEF RowsInv, RowsTypeOK
  <2> QED BY <2>1, <2>2, RowsTo
<1> QED BY <1>1, <1>2, <1>3, <1>4 DEF RowsNext

\* With no batch under way, the derived rows of a key are those of its document.
LEMMA RowsAgree == RowsInv => RowsExact
<1> SUFFICES ASSUME RowsInv, NEW k \in Key \ torn, \A t \in Thread : k \notin plan[t].keys
             PROVE  /\ \A t \in Term : rows[Posting(k, t)] = IF Live(k) /\ t \in Terms[docs[k].val] THEN docs[k] ELSE None
                    /\ rows[VecFp(k)] = IF Live(k) THEN docs[k] ELSE None
                    /\ Live(k) => rows[VecCode(k, VecBucket[docs[k].val])] = docs[k]
  BY DEF RowsExact
<1>1. Derived(rows, k, docs[k]) BY DEF RowsInv, KeyFits
<1> QED BY <1>1 DEF Derived, Live, Lives

\* As long as every operation on a record finds the stored version resident,
\* and no two batches with its key overlap or are cut off, the posting rows and
\* the vectors in the store are those of the live document: PersistRecord takes
\* the rows of the old version back whatever was interleaved with it.
THEOREM RowsStayExact == RowsSpec => []RowsExact
<1>1. RowsSpec => Spec
  <2>1. RowsInit => Init BY DEF RowsInit
  <2> QED BY <2>1, RowsAreNext, PTL DEF RowsSpec, Spec
<1>2. Spec => []TypeOK BY TypeCorrect
<1>3. Spec => []FlowInv BY FlowInvariant
<1>4. RowsInit => RowsInv BY InitRows
<1>5. TypeOK /\ FlowInv /\ RowsInv /\ [RowsNext]_allVars => RowsInv' BY NextRows
<1>6. RowsInv => RowsExact BY RowsAgree
<1> QED BY <1>1, <1>2, <1>3, <1>4, <1>5, <1>6, PTL DEF RowsSpec
=============================================================================
